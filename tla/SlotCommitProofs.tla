--------------------------- MODULE SlotCommitProofs ---------------------------
(***************************************************************************)
(* Proofs about SlotCommit, for any number of processes and records.       *)
(*                                                                         *)
(* Everything rests on SlotInv: O_EXCL makes the creator the only writer,  *)
(* and no record is acknowledged before its only writer is done.           *)
(***************************************************************************)
EXTENDS SlotCommit, TLAPS

USE DEF fileVars, history, vars

(***************************************************************************)
(* SlotInv holds initially and every step of commit_new_slot, every crash  *)
(* and every power failure preserves it, provided the slot's directory is  *)
(* already on disk.                                                        *)
(***************************************************************************)
LEMMA SlotInvInit ==
  ASSUME "new_directory" \notin Faults, Init
  PROVE  SlotInv
BY DEF Init, SlotInv, TypeOK, Content, Step, Writing, WriterInv

LEMMA SlotInvNext ==
  ASSUME SlotInv, [Next]_vars
  PROVE  SlotInv'
<1> USE ContentAssumption DEF SlotInv, TypeOK, Content, Step, Writing,
          WriterInv, WrittenAs, Goto, Leave
<1>1. ASSUME NEW p \in Proc, NEW d \in Data, Begin(p, d)
      PROVE  SlotInv'
  BY <1>1 DEF Begin
<1>2. ASSUME NEW p \in Proc, Create(p)
      PROVE  SlotInv'
  <2>1. acked = {} /\ \A q \in Proc : ~Writing(q) /\ pc[q] # "exists"
    BY <1>2 DEF Create
  <2>2. slot' = Torn /\ pc' = [pc EXCEPT ![p] = "created"]
    BY <1>2 DEF Create
  <2>3. TypeOK' /\ dirLinked' /\ acked' = {}
    BY <1>2, <2>1 DEF Create
  <2>4. \A q \in Proc : Writing(q)' <=> q = p
    BY <2>1, <2>2
  <2>5. (\A q \in Proc : Writing(q) => WriterInv(q))'
    BY <2>2, <2>3, <2>4
  <2>6. /\ \A q \in Proc : pc'[q] # "idle" => cand'[q] \in Data
        /\ \A q \in Proc : pc'[q] # "exists"
    BY <1>2, <2>1 DEF Create
  <2>7. QED
    BY <2>3, <2>4, <2>5, <2>6
<1>3. ASSUME NEW p \in Proc, FindExisting(p)
      PROVE  SlotInv'
  BY <1>3 DEF FindExisting
<1>4. ASSUME NEW p \in Proc, Compare(p)
      PROVE  SlotInv'
  BY <1>4 DEF Compare
<1>5. ASSUME NEW p \in Proc, Write(p)
      PROVE  SlotInv'
  <2>1. acked = {} /\ \A q \in Proc : Writing(q) => q = p
    BY <1>5 DEF Write
  <2>2. slot' \in WrittenAs(cand[p]) /\ pc' = [pc EXCEPT ![p] = "written"]
    BY <1>5 DEF Write
  <2>3. cand[p] \in Data /\ cand' = cand /\ acked' = {}
    BY <1>5, <2>1 DEF Write
  <2>4. TypeOK' /\ dirLinked' /\ slot' # Absent
    BY <1>5, <2>2, <2>3 DEF Write
  <2>5. \A q \in Proc : Writing(q)' <=> q = p
    BY <2>1, <2>2
  <2>6. (\A q \in Proc : Writing(q) => WriterInv(q))'
    BY <2>2, <2>3, <2>4, <2>5
  <2>7. \A q \in Proc : pc'[q] # "idle" => cand'[q] \in Data
    BY <1>5 DEF Write
  <2>8. QED
    BY <2>3, <2>4, <2>5, <2>6, <2>7
<1>6. ASSUME NEW p \in Proc, FsyncFile(p)
      PROVE  SlotInv'
  BY <1>6 DEF FsyncFile
<1>7. ASSUME NEW p \in Proc, FsyncDir(p)
      PROVE  SlotInv'
  BY <1>7 DEF FsyncDir
<1>8. ASSUME NEW p \in Proc, Die(p)
      PROVE  SlotInv'
  BY <1>8 DEF Die
<1>9. CASE PowerLoss
  <2>1. /\ slot' \in Survivors /\ pc' = [p \in Proc |-> "idle"] /\ cand' = [p \in Proc |-> Absent]
        /\ synced' = (slot' # Absent) /\ linked' = (slot' # Absent)
        /\ dirLinked' \in {TRUE, dirLinked \/ slot' # Absent}
        /\ UNCHANGED history
    BY <1>9 DEF PowerLoss
  <2>2. slot' \in {slot, Torn, Absent}
    BY <2>1 DEF Survivors
  <2>3. dirLinked'
    BY <2>1
  <2>4. \A p \in Proc : pc'[p] = "idle"
    BY <2>1
  <2>5. QED
    BY <2>1, <2>2, <2>3, <2>4 DEF Survivors
<1>10. CASE UNCHANGED vars
  BY <1>10
<1>11. QED
  BY <1>1, <1>2, <1>3, <1>4, <1>5, <1>6, <1>7, <1>8, <1>9, <1>10 DEF Next, Commit

THEOREM SlotInvariant ==
  ASSUME "new_directory" \notin Faults
  PROVE  Spec => []SlotInv
<1>1. Init => SlotInv
  BY SlotInvInit
<1>2. SlotInv /\ [Next]_vars => SlotInv'
  BY SlotInvNext
<1>3. QED
  BY <1>1, <1>2, PTL DEF Spec

(***************************************************************************)
(* Of a record that os.write stores in full commit_new_slot returns        *)
(* "committed" only when it is whole and durable, and nothing that happens *)
(* later takes that back.                                                  *)
(***************************************************************************)
THEOREM CommitIsDurable ==
  ASSUME "new_directory" \notin Faults
  PROVE  Spec => []CommittedDurable
<1>1. SlotInv => CommittedDurable
  BY DEF SlotInv, TypeOK, CommittedDurable, Durable, WrittenAs
<1>2. QED
  BY <1>1, SlotInvariant, PTL

(***************************************************************************)
(* Short writes included, a slot that was acknowledged for one record is   *)
(* never taken over by another: one successor per head.                    *)
(***************************************************************************)
THEOREM SingleSuccessor ==
  ASSUME "new_directory" \notin Faults
  PROVE  Spec => []AckedNeverReplaced
<1>1. SlotInv => AckedNeverReplaced
  BY DEF SlotInv, AckedNeverReplaced, WrittenAs
<1>2. QED
  BY <1>1, SlotInvariant, PTL

(***************************************************************************)
(* A step other than a power failure leaves a whole record as it is; a     *)
(* power failure can only take a record that was not yet on disk.          *)
(***************************************************************************)
THEOREM RecordNeverOverwritten ==
  ASSUME "new_directory" \notin Faults
  PROVE  Spec => NeverOverwritten
<1>1. ASSUME SlotInv, [Next]_vars, slot \in Data, slot' # slot
      PROVE  LosesRecord
  <2>1. ASSUME NEW p \in Proc, Create(p) \/ Write(p)
        PROVE  FALSE
    BY <1>1, <2>1, ContentAssumption DEF Create, Write, SlotInv, Writing, WriterInv
  <2>2. CASE PowerLoss
    BY <1>1, <2>2, ContentAssumption DEF PowerLoss, Survivors, Durable, LosesRecord
  <2>3. QED
    BY <1>1, <2>1, <2>2
    DEF Next, Commit, Begin, FindExisting, Compare, FsyncFile, FsyncDir, Die
<1>2. SlotInv /\ [Next]_vars => [(slot \in Data /\ slot' # slot) => LosesRecord]_vars
  BY <1>1
<1>3. QED
  BY <1>2, SlotInvariant, PTL DEF Spec, NeverOverwritten

(***************************************************************************)
(* Until the power fails "idempotent" is as good as "committed": both name *)
(* the record the slot holds, if os.write stores it in full.               *)
(***************************************************************************)
THEOREM SuccessIsTruthful ==
  ASSUME "new_directory" \notin Faults
  PROVE  Spec => SuccessesHold
<1>1. ASSUME SlotInv, SuccessesAgree, [Next]_vars, ~PowerLoss
      PROVE  SuccessesAgree'
  <2> USE <1>1, ContentAssumption DEF SuccessesAgree, Goto, Leave
  <2>1. ASSUME NEW p \in Proc, Create(p) \/ Write(p)
        PROVE  (acked \cup idem) \ Short = {} /\ UNCHANGED <<acked, idem>>
    <3>1. slot \notin Data
      BY <2>1 DEF Create, Write, SlotInv, Writing, WriterInv
    <3>2. \A d \in (acked \cup idem) \ Short : d = slot /\ d \in Data
      BY DEF SlotInv, TypeOK
    <3>3. UNCHANGED <<acked, idem>>
      BY <2>1 DEF Create, Write
    <3>4. QED
      BY <3>1, <3>2, <3>3
  <2>2. ASSUME NEW p \in Proc, FsyncDir(p)
        PROVE  acked' \subseteq acked \cup {slot} \cup Short /\ UNCHANGED <<slot, idem>>
    BY <2>2 DEF FsyncDir, SlotInv, Writing, WriterInv, WrittenAs
  <2>3. ASSUME NEW p \in Proc, Compare(p)
        PROVE  idem' \subseteq idem \cup {slot} /\ UNCHANGED <<slot, acked>>
    BY <2>3 DEF Compare
  <2>4. QED
    BY <2>1, <2>2, <2>3
    DEF Next, Commit, Begin, FindExisting, FsyncFile, Die
<1>2. SlotInv /\ [Next]_vars => [SuccessesAgree /\ ~SuccessesAgree' => PowerLoss]_vars
  BY <1>1
<1>3. QED
  BY <1>2, SlotInvariant, PTL DEF Spec, SuccessesHold

(***************************************************************************)
(* commit_new_slot implements the write-once register of the records that  *)
(* os.write stores in full: every step is a step of the register or leaves *)
(* it alone.                                                               *)
(***************************************************************************)
LEMMA RegisterStep ==
  ASSUME SlotInv, SlotInv', [Next]_vars
  PROVE  [Register!Next]_(Register!vars)
<1> DEFINE value == IF slot \in Data \ Short THEN slot ELSE Absent
           told  == acked \ Short
<1> USE ContentAssumption DEF Register!Next, Register!vars, Register!Choose,
          Register!Acknowledge, Register!Forget, Goto, Leave
<1>1. ASSUME NEW p \in Proc, Create(p)
      PROVE  UNCHANGED <<value, told>>
  BY <1>1 DEF Create
<1>2. ASSUME NEW p \in Proc, Write(p)
      PROVE  value = Absent /\ value' \in Data \cup {Absent} /\ UNCHANGED told
  BY <1>2 DEF Write, SlotInv, Writing, WriterInv
<1>3. ASSUME NEW p \in Proc, FsyncDir(p)
      PROVE  /\ UNCHANGED value
             /\ UNCHANGED told \/ (value \in Data /\ told' = told \cup {value})
  BY <1>3 DEF FsyncDir, SlotInv, Writing, WriterInv, WrittenAs
<1>4. ASSUME PowerLoss
      PROVE  UNCHANGED told /\ (UNCHANGED value \/ (told = {} /\ value' = Absent))
  BY <1>4 DEF PowerLoss, Survivors, SlotInv, WrittenAs
<1>5. QED
  BY <1>1, <1>2, <1>3, <1>4
  DEF Next, Commit, Begin, FindExisting, Compare, FsyncFile, Die

THEOREM ImplementsRegister ==
  ASSUME "new_directory" \notin Faults
  PROVE  Spec => RegisterSpec
<1>1. Init => Register!Init
  BY ContentAssumption DEF Init, Register!Init
<1>2. SlotInv /\ SlotInv' /\ [Next]_vars => [Register!Next]_(Register!vars)
  BY RegisterStep
<1>3. QED
  BY <1>1, <1>2, SlotInvariant, PTL DEF Spec, RegisterSpec, Register!Spec
=============================================================================
