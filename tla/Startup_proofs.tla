---------------------------- MODULE Startup_proofs ----------------------------
(***************************************************************************)
(* Startup keeps a directory on one base, for any set of invites.  The     *)
(* inductive invariant says, for each point of a start, how the record,    *)
(* the resolved key and the opened base relate.                            *)
(***************************************************************************)
EXTENDS Startup, TLAPS

(* bootstrap-key on its own: what its content says of the directory. *)
RecordSound ==
  /\ \A b \in served : file \in {b, Cut}
  /\ \A a, b \in served : a = b
  /\ keysFile \in Base => keysFile \in served
  /\ file = None => held \subseteq {Own}
  /\ file = Own => Own \in held

(* The running process: the key it resolved and the base it opened. *)
ProcessSound ==
  /\ pc = "pin" => /\ file = Cut /\ key \in Base /\ served = {} /\ held \subseteq {Own}
                   /\ key = Own => Own \in held
  /\ pc = "open" => file = key
  /\ pc = "record" => opened \in held /\ (file = opened \/ (file = None /\ opened = Own))
  /\ pc = "recording" => /\ opened \in held /\ file = Cut
                         /\ served \subseteq {opened}
  /\ pc \in {"keys", "writing", "up"} => opened \in held /\ file = opened

IInv == TypeOK /\ RecordSound /\ ProcessSound

-----------------------------------------------------------------------------
LEMMA InitIInv == Init => IInv
  BY StartupAssumption DEF Init, IInv, TypeOK, RecordSound, ProcessSound, Base

LEMMA LaunchKeeps ==
  ASSUME IInv, NEW configured \in Base \cup {None, Cut}, Launch(configured)
  PROVE  IInv'
  BY StartupAssumption DEF IInv, TypeOK, RecordSound, ProcessSound, Base,
                           Launch, Pins, Refuses, Persisted

LEMMA PinKeeps == IInv /\ Pin => IInv'
  BY StartupAssumption DEF IInv, TypeOK, RecordSound, ProcessSound, Base, Pin

LEMMA OpenBaseKeeps == IInv /\ OpenBase => IInv'
  BY StartupAssumption DEF IInv, TypeOK, RecordSound, ProcessSound, Base, OpenBase, Opens

LEMMA TruncateKeepsIInv == IInv /\ Truncate => IInv'
  BY StartupAssumption DEF IInv, TypeOK, RecordSound, ProcessSound, Base, Truncate

LEMMA RecordKeeps == IInv /\ Record => IInv'
  BY StartupAssumption DEF IInv, TypeOK, RecordSound, ProcessSound, Base, Record

LEMMA KeysKeep == IInv /\ (TruncateKeys \/ WriteKeys) => IInv'
  BY StartupAssumption DEF IInv, TypeOK, RecordSound, ProcessSound, Base, TruncateKeys, WriteKeys

LEMMA ExitKeeps == IInv /\ Exit => IInv'
  BY StartupAssumption DEF IInv, TypeOK, RecordSound, ProcessSound, Base, Exit

LEMMA StepIInv == IInv /\ [Next]_vars => IInv'
<1>1. CASE UNCHANGED vars
  BY <1>1 DEF vars, IInv, TypeOK, RecordSound, ProcessSound
<1>2. QED
  BY <1>1, LaunchKeeps, PinKeeps, OpenBaseKeeps, TruncateKeepsIInv, RecordKeeps, KeysKeep,
     ExitKeeps DEF Next

LEMMA Invariance == Spec => []IInv
  BY InitIInv, StepIInv, PTL DEF Spec

-----------------------------------------------------------------------------
(* Every variable of a directory keeps its type. *)
THEOREM StartupTypeCorrect == Spec => []TypeOK
<1>1. IInv => TypeOK
  BY DEF IInv
<1>2. QED
  BY <1>1, Invariance, PTL

(***************************************************************************)
(* Whatever the operator configures between launches and wherever a start  *)
(* is cut off, a storage directory never serves two bases.                 *)
(***************************************************************************)
THEOREM DirectoryKeepsItsBase == Spec => []OneBaseServed
<1>1. IInv => OneBaseServed
  BY DEF IInv, RecordSound, OneBaseServed
<1>2. QED
  BY <1>1, Invariance, PTL

(* The invite in keys.json is never that of another base than the record's. *)
THEOREM KeysFileIsTrue == Spec => []InviteNamesServedBase
<1>1. IInv => InviteNamesServedBase
  BY DEF IInv, RecordSound, InviteNamesServedBase
<1>2. QED
  BY <1>1, Invariance, PTL

(***************************************************************************)
(* No sequence of launches and crashes makes a directory that has opened   *)
(* the base of an invite found one of its own (resolveBootstrap).          *)
(***************************************************************************)
THEOREM NeverRefounds == Spec => JoinerNeverFounds
<1>1. IInv /\ [Next]_vars => [Founds => held = {}]_vars
  <2>1. ASSUME IInv, OpenBase, Founds
        PROVE  held = {}
    BY <2>1, StartupAssumption DEF IInv, TypeOK, RecordSound, ProcessSound, Base, OpenBase, Opens, Founds
  <2>2. ASSUME Next, ~OpenBase
        PROVE  ~Founds
    BY <2>2 DEF Next, Founds, Launch, Pin, Truncate, Record, TruncateKeys, WriteKeys, Exit
  <2>3. QED
    BY <2>1, <2>2
<1>2. QED
  BY <1>1, Invariance, PTL DEF Spec, JoinerNeverFounds

=============================================================================
