------------------------------ MODULE SlotCommit ------------------------------
(***************************************************************************)
(* The durable single-successor commit of core/atomic.py, reached through  *)
(* core/turn_record.commit: processes race, crash, fail and retry on one   *)
(* slot file run/turns/NNNN.json, and the host may lose power.             *)
(*                                                                         *)
(* A record is its canonical bytes, a member of Data.  File contents are   *)
(* told apart as far as `slot.read_bytes() == data` can: Absent (no such   *)
(* file), Torn (a strict prefix of a record, the empty file included;      *)
(* canonical JSON objects are prefix-free, so it equals no record), or a   *)
(* whole record.                                                           *)
(***************************************************************************)
EXTENDS FiniteSets

CONSTANTS
  Proc,     \* committing processes (runs of a drive script)
  Data,     \* candidate records
  Short,    \* the records of which os.write may store only a prefix
  Absent,   \* the slot file does not exist
  Torn,     \* the slot file holds a strict prefix of a record
  Faults    \* the environment faults this instance admits

FaultKinds ==
  { "power_loss",      \* the host loses power
    "new_directory" }  \* mkdir had to create the slot's directory

ASSUME ContentAssumption ==
  /\ Absent \notin Data
  /\ Torn \notin Data
  /\ Absent # Torn
ASSUME ShortAssumption == Short \subseteq Data
ASSUME FaultAssumption == Faults \subseteq FaultKinds

VARIABLES
  slot,       \* contents of the slot file as every process reads it
  synced,     \* those contents are on disk (file fsync since the last write)
  linked,     \* the slot's directory entry is on disk (fsync of slot.parent)
  dirLinked,  \* the directory's own entry is on disk
  pc,         \* where each process is inside commit_new_slot
  cand,       \* the record each process is committing (Absent: none)
  tried,      \* history: records ever submitted
  acked,      \* history: records for which "committed" was returned
  idem,       \* history: records for which "idempotent" was returned
  refused     \* history: records for which SlotConflict was raised

fileVars == <<slot, synced, linked, dirLinked>>
history  == <<tried, acked, idem, refused>>
vars     == <<fileVars, pc, cand, history>>

Content == Data \cup {Absent, Torn}
Step    == {"idle", "open", "exists", "created", "written", "flushed"}

TypeOK ==
  /\ slot \in Content
  /\ {synced, linked, dirLinked} \subseteq BOOLEAN
  /\ pc \in [Proc -> Step]
  /\ cand \in [Proc -> Data \cup {Absent}]
  /\ tried \subseteq Data
  /\ acked \subseteq Data
  /\ idem \subseteq Data
  /\ refused \subseteq Data

Init ==
  /\ slot = Absent
  /\ synced = FALSE
  /\ linked = FALSE
  /\ dirLinked = ("new_directory" \notin Faults)
  /\ pc = [p \in Proc |-> "idle"]
  /\ cand = [p \in Proc |-> Absent]
  /\ tried = {}
  /\ acked = {}
  /\ idem = {}
  /\ refused = {}

Goto(p, s) == pc' = [pc EXCEPT ![p] = s] /\ UNCHANGED cand

\* The call is over, by return or by exception: its locals are gone.
Leave(p) ==
  /\ pc' = [pc EXCEPT ![p] = "idle"]
  /\ cand' = [cand EXCEPT ![p] = Absent]

(***************************************************************************)
(* One action per system call of commit_new_slot.                          *)
(***************************************************************************)
Begin(p, d) ==
  /\ pc[p] = "idle"
  /\ cand' = [cand EXCEPT ![p] = d]
  /\ tried' = tried \cup {d}
  /\ pc' = [pc EXCEPT ![p] = "open"]
  /\ UNCHANGED <<fileVars, acked, idem, refused>>

\* Mutant of Create: os.open without O_EXCL (an existing slot is truncated).
CreateOrTruncate(p) ==
  /\ pc[p] = "open"
  /\ slot' = Torn
  /\ synced' = FALSE
  /\ linked' = FALSE
  /\ Goto(p, "created")
  /\ UNCHANGED <<dirLinked, history>>

\* os.open(O_CREAT | O_EXCL) on a path that does not exist: an empty file.
Create(p) ==
  /\ pc[p] = "open"
  /\ slot = Absent
  /\ slot' = Torn
  /\ synced' = FALSE
  /\ linked' = FALSE
  /\ Goto(p, "created")
  /\ UNCHANGED <<dirLinked, history>>

\* os.open(O_CREAT | O_EXCL) raises FileExistsError.
FindExisting(p) ==
  /\ pc[p] = "open"
  /\ slot # Absent
  /\ Goto(p, "exists")
  /\ UNCHANGED <<fileVars, history>>

\* Mutant of Compare: any existing slot counts as an idempotent retry.
CompareNothing(p) ==
  /\ pc[p] = "exists"
  /\ idem' = idem \cup {cand[p]}
  /\ UNCHANGED refused
  /\ Leave(p)
  /\ UNCHANGED <<fileVars, tried, acked>>

\* slot.read_bytes() == data: "idempotent", else SlotConflict.
Compare(p) ==
  /\ pc[p] = "exists"
  /\ \/ /\ slot = cand[p]
        /\ idem' = idem \cup {cand[p]}
        /\ UNCHANGED refused
     \/ /\ slot # cand[p]
        /\ refused' = refused \cup {cand[p]}
        /\ UNCHANGED idem
  /\ Leave(p)
  /\ UNCHANGED <<fileVars, tried, acked>>

\* os.write; its count is ignored, so a short write goes on like a full one.
Write(p) ==
  /\ pc[p] = "created"
  /\ \/ slot' = cand[p]
     \/ cand[p] \in Short /\ slot' = Torn
  /\ synced' = FALSE
  /\ Goto(p, "written")
  /\ UNCHANGED <<linked, dirLinked, history>>

\* Mutant of FsyncFile: the file fsync is forgotten.
SkipFsyncFile(p) ==
  /\ pc[p] = "written"
  /\ Goto(p, "flushed")
  /\ UNCHANGED <<fileVars, history>>

FsyncFile(p) ==
  /\ pc[p] = "written"
  /\ synced' = TRUE
  /\ Goto(p, "flushed")
  /\ UNCHANGED <<slot, linked, dirLinked, history>>

\* Mutant of FsyncDir: "committed" is returned without the directory fsync.
SkipFsyncDir(p) ==
  /\ pc[p] = "flushed"
  /\ acked' = acked \cup {cand[p]}
  /\ Leave(p)
  /\ UNCHANGED <<fileVars, tried, idem, refused>>

\* fsync of slot.parent, then return "committed".
FsyncDir(p) ==
  /\ pc[p] = "flushed"
  /\ linked' = TRUE
  /\ acked' = acked \cup {cand[p]}
  /\ Leave(p)
  /\ UNCHANGED <<slot, synced, dirLinked, tried, idem, refused>>

(***************************************************************************)
(* Failures.  Die is a process crash, or an OSError leaving the function:  *)
(* nothing is cleaned up and the page cache keeps what was written.        *)
(* PowerLoss stops every process and keeps of the slot what was on disk;   *)
(* contents or entries that were never fsynced may or may not survive.     *)
(***************************************************************************)
Die(p) ==
  /\ pc[p] # "idle"
  /\ Leave(p)
  /\ UNCHANGED <<fileVars, history>>

Durable == slot \in Data /\ synced /\ linked /\ dirLinked

Survivors ==
  (IF slot # Absent /\ ~synced THEN {slot, Torn} ELSE {slot})
    \cup (IF linked /\ dirLinked THEN {} ELSE {Absent})

PowerLoss ==
  /\ "power_loss" \in Faults
  /\ slot' \in Survivors
  /\ synced' = (slot' # Absent)
  /\ linked' = (slot' # Absent)
  /\ dirLinked' \in {TRUE, dirLinked \/ slot' # Absent}
  /\ pc' = [p \in Proc |-> "idle"]
  /\ cand' = [p \in Proc |-> Absent]
  /\ UNCHANGED history

Commit(p) ==
  \/ \E d \in Data : Begin(p, d)
  \/ Create(p)
  \/ FindExisting(p)
  \/ Compare(p)
  \/ Write(p)
  \/ FsyncFile(p)
  \/ FsyncDir(p)

Next ==
  \/ \E p \in Proc : Commit(p) \/ Die(p)
  \/ PowerLoss

Spec == Init /\ [][Next]_vars

-----------------------------------------------------------------------------
(***************************************************************************)
(* Properties.                                                             *)
(***************************************************************************)

\* What os.write stores in full is acknowledged as "committed" only when it is
\* whole and on disk, and stays so through later crashes, retries and power
\* failures, whatever other record races for the slot (atomic.py: O_EXCL,
\* then write, then fsync of the file, then fsync of its directory).
CommittedDurable == \A d \in acked \ Short : Durable /\ slot = d

\* Even when os.write is short, a slot acknowledged for a record is never
\* taken over by another record: at most one successor per head.
AckedNeverReplaced == \A d \in acked : slot \in {d, Torn}

\* A whole record in the slot is replaced or lost only by a power failure
\* that found it not yet on disk; no commit_new_slot call ever changes it.
LosesRecord == ~Durable /\ PowerLoss
NeverOverwritten == [][(slot \in Data /\ slot' # slot) => LosesRecord]_vars

\* Every success - "committed" or "idempotent" - of a record that is stored in
\* full names the record the slot holds, and only a power failure ever makes
\* it untrue: crashes, racing writers and retries do not.
SuccessesAgree == (acked \cup idem) \ Short \subseteq {slot}
SuccessesHold == [][SuccessesAgree /\ ~SuccessesAgree' => PowerLoss]_vars

\* A retry of the only candidate ever submitted is not refused: SlotConflict
\* means the slot holds DIFFERENT bytes.
SameCandidateNeverConflicts == \A d \in Data : tried = {d} => d \notin refused

\* Why the above hold: there is one writer at a time, it is alone with a
\* slot it created, and nobody has been acknowledged before it is done.
Writing(p) == pc[p] \in {"created", "written", "flushed"}

\* What a slot may hold once d was handed to os.write.
WrittenAs(d) == {d} \cup (IF d \in Short THEN {Torn} ELSE {})

WriterInv(p) ==
  /\ acked = {}
  /\ slot # Absent
  /\ pc[p] = "created" => slot = Torn
  /\ pc[p] \in {"written", "flushed"} => slot \in WrittenAs(cand[p])
  /\ pc[p] = "flushed" => synced

\* The inductive invariant, of every instance whose slot directory exists.
SlotInv ==
  /\ TypeOK
  /\ dirLinked
  /\ \A p \in Proc : pc[p] # "idle" => cand[p] \in Data
  /\ \A p \in Proc : pc[p] = "exists" => slot # Absent
  /\ \A p \in Proc : Writing(p) => WriterInv(p)
  /\ \A p, q \in Proc : Writing(p) /\ Writing(q) => p = q
  /\ \A d \in acked : slot \in WrittenAs(d) /\ synced /\ linked
  /\ \A d, e \in acked : d = e

\* The write-once register that callers of commit_new_slot rely on, of the
\* records that os.write stores in full.
Register == INSTANCE SuccessorSlot
              WITH chosen <- IF slot \in Data \ Short THEN slot ELSE Absent,
                   acked  <- acked \ Short
RegisterSpec == Register!Spec
=============================================================================
