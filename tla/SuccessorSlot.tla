---------------------------- MODULE SuccessorSlot ----------------------------
(***************************************************************************)
(* What a successor slot promises its callers: a write-once register.  A   *)
(* value is chosen at most once per life of the slot; a caller that was    *)
(* told "committed" was told so of the chosen value; and the choice can be *)
(* forgotten (a power failure) only while nobody has been told.            *)
(* SlotCommit is shown to implement this module.                           *)
(***************************************************************************)
CONSTANTS
  Data,     \* candidate records (their canonical bytes)
  Absent    \* no record chosen; not one of Data

VARIABLES
  chosen,   \* the record the slot holds, or Absent
  acked     \* records some caller was told are committed

vars == <<chosen, acked>>

TypeOK == chosen \in Data \cup {Absent} /\ acked \subseteq Data

Init == chosen = Absent /\ acked = {}

Choose(d) ==
  /\ chosen = Absent
  /\ chosen' = d
  /\ UNCHANGED acked

Acknowledge(d) ==
  /\ chosen = d
  /\ acked' = acked \cup {d}
  /\ UNCHANGED chosen

Forget ==
  /\ acked = {}
  /\ chosen' = Absent
  /\ UNCHANGED acked

Next ==
  \/ \E d \in Data : Choose(d) \/ Acknowledge(d)
  \/ Forget

Spec == Init /\ [][Next]_vars
=============================================================================
