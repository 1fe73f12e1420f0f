------------------------------- MODULE Startup -------------------------------
(***************************************************************************)
(* One storage directory across launches, reconfigurations and crashes:    *)
(* the re-founding guard of src/storage/bootstrap.ts and the part of       *)
(* NostrSwarm.start that records the base (src/relay.ts).  The files are   *)
(* rewritten in place, so a crash in a write leaves one that is cut short. *)
(***************************************************************************)
CONSTANTS
  Own,      \* the base this directory founds, named by its local writer key
  Invited,  \* bases founded elsewhere, whose invites an operator may paste
  None,     \* no file, no key, nothing configured
  Cut       \* a file cut short, or a malformed configured value

Base == Invited \cup {Own}

ASSUME StartupAssumption == None \notin Base /\ Cut \notin Base /\ None # Cut /\ Own \notin Invited

VARIABLES
  file,      \* bootstrap-key
  keysFile,  \* keys.json, by the base it names
  held,      \* the bases the corestore holds cores of
  pc,        \* how far the running process is
  key,       \* the bootstrap key it resolved
  opened,    \* the base it opened
  served     \* history: the bases this directory has come up on

vars == <<file, keysFile, held, pc, key, opened, served>>

Init ==
  /\ file = None /\ keysFile = None /\ held = {}
  /\ pc = "down" /\ key = None /\ opened = None
  /\ served = {}

-----------------------------------------------------------------------------
PersistedUnlessCut == IF file = Cut THEN None ELSE file

(* readPersistedKey: what it finds, Cut where it throws. *)
Persisted == file

(* parseBootstrap and resolveBootstrap: the values they throw on. *)
Refuses(configured) ==
  \/ configured = Cut \/ Persisted = Cut
  \/ Persisted # None /\ configured # None /\ configured # Persisted

PinsOnceOpen(configured) == pc' = "open" /\ UNCHANGED file

(* A directory without a record is pinned to the configured base first. *)
Pins(configured) ==
  \/ configured = None /\ pc' = "open" /\ UNCHANGED file
  \/ configured # None /\ pc' = "pin" /\ file' = Cut

(* The constructor; where it throws the process ends as if never launched. *)
Launch(configured) ==
  /\ pc = "down" /\ ~Refuses(configured)
  /\ configured = Own => Own \in held    \* nobody has its invite before
  /\ \/ Persisted # None /\ key' = Persisted /\ pc' = "open" /\ UNCHANGED file
     \/ Persisted = None /\ key' = configured /\ Pins(configured)
  /\ UNCHANGED <<keysFile, held, opened, served>>

(* persistBootstrapKey of the configured key. *)
Pin ==
  /\ pc = "pin" /\ pc' = "open"
  /\ file' = key
  /\ UNCHANGED <<keysFile, held, key, opened, served>>

OpensKey == key

(* Without a key Autobase opens the directory's own base, new or not. *)
Opens == IF key = None THEN Own ELSE key

(* store.ready *)
OpenBase ==
  /\ pc = "open" /\ pc' = "record"
  /\ opened' = Opens
  /\ held' = held \cup {Opens}
  /\ UNCHANGED <<file, keysFile, key, served>>

(* persistBootstrapKey of base.key, recorded already or not. *)
Truncate ==
  /\ pc = "record" /\ pc' = "recording"
  /\ file' = Cut
  /\ UNCHANGED <<keysFile, held, key, opened, served>>

Record ==
  /\ pc = "recording" /\ pc' = "keys"
  /\ file' = opened
  /\ UNCHANGED <<keysFile, held, key, opened, served>>

(* writeKeysFile in the same way, and the rest of start. *)
TruncateKeys ==
  /\ pc = "keys" /\ pc' = "writing"
  /\ keysFile' = Cut
  /\ UNCHANGED <<file, held, key, opened, served>>

WriteKeys ==
  /\ pc = "writing" /\ pc' = "up"
  /\ keysFile' = opened
  /\ served' = served \cup {opened}
  /\ UNCHANGED <<file, held, key, opened>>

(* stop, an exception in start, or a crash. *)
Exit ==
  /\ pc # "down" /\ pc' = "down"
  /\ key' = None /\ opened' = None
  /\ UNCHANGED <<file, keysFile, held, served>>

Next ==
  \/ \E configured \in Base \cup {None, Cut} : Launch(configured)
  \/ Pin \/ OpenBase \/ Truncate \/ Record \/ TruncateKeys \/ WriteKeys
  \/ Exit

Spec == Init /\ [][Next]_vars

-----------------------------------------------------------------------------
(* Every variable has its type. *)
TypeOK ==
  /\ file \in Base \cup {None, Cut} /\ keysFile \in Base \cup {None, Cut}
  /\ held \subseteq Base /\ served \subseteq Base
  /\ pc \in {"down", "pin", "open", "record", "recording", "keys", "writing", "up"}
  /\ key \in Base \cup {None} /\ opened \in Base \cup {None}

(***************************************************************************)
(* Whatever the operator configures and wherever the process dies, the     *)
(* directory serves one base for ever; bootstrap-key names that base or is *)
(* cut short, in which case no launch gets past it.                        *)
(***************************************************************************)
OneBaseServed ==
  /\ \A a, b \in served : a = b
  /\ \A b \in served : file \in {b, Cut}

(* The invite that keys.json hands out is that of the recorded base.       *)
InviteNamesServedBase == keysFile \in Base => keysFile \in served /\ file \in {keysFile, Cut}

(***************************************************************************)
(* A directory that has opened another base never founds its own: the      *)
(* configured key is on disk before the store opens.                       *)
(***************************************************************************)
Founds == Own \in held' \ held

JoinerNeverFounds == [][Founds => held = {}]_vars

=============================================================================
