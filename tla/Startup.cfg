SPECIFICATION Spec
CONSTANTS
  Own = Own
  None = None
  Cut = Cut
  east = east
  west = west
  Invited <- MCInvited
INVARIANTS
  TypeOK
  OneBaseServed
  InviteNamesServedBase
PROPERTIES
  JoinerNeverFounds
CHECK_DEADLOCK FALSE
