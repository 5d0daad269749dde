--------------------------- MODULE GameCommitProofs ---------------------------
(***************************************************************************)
(* Finished games on one scenario directory, any number of them and of     *)
(* deaths: a directory the gates pass is the audit of one run, and a run   *)
(* that reaches its end leaves its own audit.                              *)
(***************************************************************************)
EXTENDS GameCommit, FoldProofs

(***************************************************************************)
(* What a game writes: its records, each in its slot, and its bytes.       *)
(***************************************************************************)
Bytes(d)       == UNION {d[i].artifacts : i \in DOMAIN d}
RecordOf(d, i) == Write("record", i - 1, d[i].turn_record)
ByteWritesOf(B)    == {Write("bytes", 0, b) : b \in B}
AllWrites(d)   == {RecordOf(d, i) : i \in DOMAIN d} \cup ByteWritesOf(Bytes(d))

Turns(g)  == 0..Len(g.records) - 1
Slots(g)  == [t \in Turns(g) |-> g.records[t + 1]]
Stored(g) == {x.content : x \in {y \in ToSet(g.writes) : y.kind = "bytes"}}

SoundGame(g) ==
  /\ g.writes \in Seq(ToSet(g.writes)) /\ g.writes # <<>>
  /\ \A k \in DOMAIN g.writes : LET x == g.writes[k] IN
       \/ x.kind = "record" /\ x.turn \in Turns(g) /\ x.content = Slots(g)[x.turn]
       \/ x.kind = "bytes"
  /\ \A t \in Turns(g) : \E k \in DOMAIN g.writes : g.writes[k].kind = "record" /\ g.writes[k].turn = t
  /\ Len(g.records) \in Nat /\ DOMAIN g.records = 1..Len(g.records)
  /\ \A t \in Turns(g) : Slots(g)[t].turn = t
  /\ g.steps \in Seq(ToSet(g.steps)) /\ g.steps # NoSteps
  /\ \A j \in DOMAIN g.steps : g.steps[j].turn \in Turns(g)
  /\ GatesAccept(Slots(g), Stored(g), g.steps)

(***************************************************************************)
(* The invariant.  A slot never changes, and holds a game's record of that *)
(* turn; a ledger with steps has them of a game whose records are all      *)
(* committed; the running script has done what lies behind it.             *)
(***************************************************************************)
SlotsInv ==
  /\ turns = [t \in DOMAIN turns |-> turns[t]]
  /\ \A t \in DOMAIN turns :
       turns[t] = Torn \/ \E g \in Games : t \in Turns(g) /\ turns[t] = Slots(g)[t]

Committed(g) == \A t \in Turns(g) : t \in DOMAIN turns /\ turns[t] = Slots(g)[t]

PrefixOf(s, steps) == \E n \in 0..Len(steps) : s = SubSeq(steps, 1, n)

AuditInv ==
  \/ ledger \in {NoLedger, NoSteps}
  \/ \E g \in Games : PrefixOf(ledger, g.steps) /\ Committed(g)

Written(x) ==
  IF x.kind = "record" THEN x.turn \in DOMAIN turns /\ turns[x.turn] = x.content
  ELSE x.content \in llm

RunInv ==
  /\ pc \in {"idle", "writes", "pin", "inject", "done"}
  /\ pc # "idle" =>
       /\ game \in Games
       /\ \A k \in DOMAIN game.writes : (pc = "writes" => k < next) => Written(game.writes[k])
  /\ pc = "writes" => next \in DOMAIN game.writes
  /\ pc = "done" => ledger = game.steps

CommitInv == SlotsInv /\ AuditInv /\ RunInv

(***************************************************************************)
(* Games are sound: what their writes hold, and in which slots.            *)
(***************************************************************************)
IsDriven(d) ==
  /\ IsSeq(d) /\ d # <<>>
  /\ \A i \in DOMAIN d : DrivenTurn(d[i], i - 1)
  /\ LiveGame(d).steps # NoSteps
  /\ GatesAccept([t \in 0..Len(d)-1 |-> d[t + 1].turn_record], Bytes(d), LiveGame(d).steps)

LEMMA GamesAreDriven == \A d \in Live \cup Offline : IsDriven(d)
BY GameAssumption DEF IsDriven, Bytes

LEMMA DrivenDomain ==
  ASSUME NEW d, IsDriven(d)
  PROVE  Len(d) \in Nat \ {0} /\ DOMAIN d = 1..Len(d) /\ 1 \in DOMAIN d
BY DEF IsDriven, IsSeq

\* Bytes are written once each, in some order.
LEMMA ByteWritesAre ==
  ASSUME NEW B, IsFiniteSet(B)
  PROVE  ByteWrites(B) \in Seq(ByteWritesOf(B)) /\ ToSet(ByteWrites(B)) = ByteWritesOf(B)
<1> DEFINE q == SetToSeq(B)
           n == Cardinality(B)
           x == ByteWrites(B)
<1>1. q \in [1..n -> B] /\ n \in Nat /\ ToSet(q) = B
  BY SetInOrder
<1>2. x = [i \in DOMAIN q |-> Write("bytes", 0, q[i])]
  BY DEF ByteWrites
<1> HIDE DEF q, n, x
<1>3. DOMAIN x = 1..n /\ \A i \in 1..n : x[i] = Write("bytes", 0, q[i]) /\ q[i] \in B
  BY <1>1, <1>2
<1>4. x \in Seq(ByteWritesOf(B))
  <2>1. \A i \in 1..n : x[i] \in ByteWritesOf(B)
    BY <1>3 DEF ByteWritesOf
  <2>2. x \in [1..n -> ByteWritesOf(B)]
    BY <1>2, <1>3, <2>1
  <2>3. QED
    BY <1>1, <2>2
<1>5. \A b \in B : \E i \in 1..n : q[i] = b
  BY <1>1 DEF ToSet
<1>6. ToSet(x) = ByteWritesOf(B)
  BY <1>3, <1>5 DEF ToSet, ByteWritesOf
<1>7. QED
  BY <1>4, <1>6 DEF x

LEMMA BytesAreFinite ==
  ASSUME NEW d, IsDriven(d)
  PROVE  IsFiniteSet(Bytes(d))
<1> DEFINE f == [i \in DOMAIN d |-> d[i].artifacts]
           T == {d[i].artifacts : i \in DOMAIN d}
<1>1. Len(d) \in Nat /\ DOMAIN d = 1..Len(d)
  BY DrivenDomain
<1>2. IsFiniteSet(1..Len(d))
  BY <1>1, FS_Interval
<1>3. f \in Surjection(DOMAIN d, T)
  BY DEF Surjection
<1>4. IsFiniteSet(T)
  <2> HIDE DEF f, T
  <2>1. QED
    BY <1>1, <1>2, <1>3, FS_Surjection
<1>5. \A A \in T : IsFiniteSet(A)
  BY DEF IsDriven, DrivenTurn
<1>6. Bytes(d) = UNION T
  BY DEF Bytes
<1> HIDE DEF T
<1>7. QED
  BY <1>4, <1>5, <1>6, FS_UNION

\* The writes of a live game: the records in order, then the bytes.
LEMMA LiveWrites ==
  ASSUME NEW d, IsDriven(d)
  PROVE  LiveGame(d).writes \in Seq(AllWrites(d)) /\ ToSet(LiveGame(d).writes) = AllWrites(d)
<1> DEFINE R == {RecordOf(d, i) : i \in DOMAIN d}
           r == [i \in DOMAIN d |-> RecordOf(d, i)]
           b == ByteWrites(Bytes(d))
<1>1. Len(d) \in Nat /\ DOMAIN d = 1..Len(d)
  BY DrivenDomain
<1>2. LiveGame(d).writes = r \o b
  BY DEF LiveGame, RecordOf, Bytes
<1>3. b \in Seq(ByteWritesOf(Bytes(d))) /\ ToSet(b) = ByteWritesOf(Bytes(d))
  BY BytesAreFinite, ByteWritesAre
<1>4. AllWrites(d) = R \cup ByteWritesOf(Bytes(d))
  BY DEF AllWrites
<1>5. r \in Seq(R) /\ ToSet(r) = R
  <2>1. r \in [1..Len(d) -> R]
    BY <1>1
  <2>2. QED
    BY <1>1, <2>1 DEF ToSet
<1> HIDE DEF r, R, b
<1>6. r \in Seq(AllWrites(d)) /\ b \in Seq(AllWrites(d))
  BY <1>3, <1>4, <1>5
<1>7. r \o b \in Seq(AllWrites(d)) /\ ToSet(r \o b) = AllWrites(d)
  <2>1. ToSet(r \o b) = ToSet(r) \cup ToSet(b)
    BY <1>6, JoinedElements
  <2>2. QED
    BY <1>3, <1>4, <1>5, <1>6, <2>1
<1>8. QED
  BY <1>2, <1>7

\* Those of an offline campaign: turn by turn.
LEMMA OfflineWrites ==
  ASSUME NEW d, IsDriven(d)
  PROVE  /\ OfflineCampaign(d).writes \in Seq(AllWrites(d))
         /\ ToSet(OfflineCampaign(d).writes) = AllWrites(d)
<1> DEFINE W == AllWrites(d)
           c == [i \in DOMAIN d |-> commit_turn(d[i])]
           x == FlattenSeq(c)
<1>1. Len(d) \in Nat /\ DOMAIN d = 1..Len(d)
  BY DrivenDomain
<1>2. OfflineCampaign(d).writes = x
  BY DEF OfflineCampaign, LiveGame
<1>3. ASSUME NEW i \in DOMAIN d
      PROVE  /\ commit_turn(d[i]) \in Seq(W)
             /\ ToSet(commit_turn(d[i])) = {RecordOf(d, i)} \cup ByteWritesOf(d[i].artifacts)
  <2> DEFINE a == <<RecordOf(d, i)>>
             b == ByteWrites(d[i].artifacts)
  <2>1. DrivenTurn(d[i], i - 1)
    BY DEF IsDriven
  <2>2. commit_turn(d[i]) = a \o b
    BY <2>1 DEF commit_turn, RecordOf, DrivenTurn
  <2>3. b \in Seq(ByteWritesOf(d[i].artifacts)) /\ ToSet(b) = ByteWritesOf(d[i].artifacts)
    BY <2>1, ByteWritesAre DEF DrivenTurn
  <2>4. RecordOf(d, i) \in W /\ ByteWritesOf(d[i].artifacts) \subseteq W
    BY DEF AllWrites, ByteWritesOf, Bytes
  <2> HIDE DEF W
  <2>5. a \in Seq(W) /\ ToSet(a) = {RecordOf(d, i)}
    BY <2>4 DEF ToSet
  <2> HIDE DEF a, b
  <2>6. b \in Seq(W)
    BY <2>3, <2>4
  <2>7. a \o b \in Seq(W) /\ ToSet(a \o b) = ToSet(a) \cup ToSet(b)
    BY <2>5, <2>6, JoinedElements
  <2>8. QED
    BY <2>2, <2>3, <2>5, <2>7
<1>4. c \in Seq(Seq(W)) /\ Len(c) = Len(d) /\ \A i \in 1..Len(d) : c[i] = commit_turn(d[i])
  <2> HIDE DEF W
  <2>1. c \in [1..Len(d) -> Seq(W)]
    BY <1>1, <1>3
  <2>2. QED
    BY <1>1, <2>1
<1> HIDE DEF c
<1>5. FlatUpTo(W, c, x, Len(d))
  <2> HIDE DEF W
  <2>1. QED
    BY <1>4, FlattenElements
<1>6. x \in Seq(W) /\ ToSet(x) = UNION {ToSet(c[i]) : i \in 1..Len(d)}
  BY <1>5 DEF FlatUpTo
<1>7. ToSet(x) = UNION {{RecordOf(d, i)} \cup ByteWritesOf(d[i].artifacts) : i \in DOMAIN d}
  BY <1>1, <1>3, <1>4, <1>6
<1>8. UNION {{RecordOf(d, i)} \cup ByteWritesOf(d[i].artifacts) : i \in DOMAIN d} = W
  BY DEF AllWrites, ByteWritesOf, Bytes
<1>9. QED
  BY <1>2, <1>6, <1>7, <1>8

\* A game is what a driver returned, with these writes in some order.
GameOf(g, d) ==
  /\ g.records = [i \in DOMAIN d |-> d[i].turn_record]
  /\ g.steps = LiveGame(d).steps
  /\ g.writes \in Seq(AllWrites(d)) /\ ToSet(g.writes) = AllWrites(d)

LEMMA GamesAreOf == \A g \in Games : \E d : IsDriven(d) /\ GameOf(g, d)
<1> SUFFICES ASSUME NEW g \in Games
             PROVE  \E d : IsDriven(d) /\ GameOf(g, d)
  OBVIOUS
<1>1. \/ \E d \in Live : g = LiveGame(d)
      \/ \E d \in Offline : g = OfflineCampaign(d)
  BY DEF Games
<1>2. ASSUME NEW d \in Live, g = LiveGame(d)
      PROVE  IsDriven(d) /\ GameOf(g, d)
  <2>1. IsDriven(d)
    BY GamesAreDriven
  <2>2. g.records = [i \in DOMAIN d |-> d[i].turn_record]
    BY <1>2 DEF LiveGame
  <2>3. QED
    BY <1>2, <2>1, <2>2, LiveWrites DEF GameOf
<1>3. ASSUME NEW d \in Offline, g = OfflineCampaign(d)
      PROVE  IsDriven(d) /\ GameOf(g, d)
  <2>1. IsDriven(d)
    BY GamesAreDriven
  <2>2. g.records = [i \in DOMAIN d |-> d[i].turn_record] /\ g.steps = LiveGame(d).steps
    BY <1>3 DEF OfflineCampaign, LiveGame
  <2>3. QED
    BY <1>3, <2>1, <2>2, OfflineWrites DEF GameOf
<1>4. QED
  BY <1>1, <1>2, <1>3

\* The steps of a game, turn after turn.
LEMMA StepsOfDriven ==
  ASSUME NEW d, IsDriven(d)
  PROVE  LET s == LiveGame(d).steps IN
         /\ s \in Seq(ToSet(s))
         /\ \A j \in DOMAIN s : s[j].turn \in 0..Len(d) - 1
<1> DEFINE s == LiveGame(d).steps
           c == [i \in DOMAIN d |-> d[i].llm_steps]
           S == UNION {ToSet(d[i].llm_steps) : i \in DOMAIN d}
<1>1. Len(d) \in Nat /\ DOMAIN d = 1..Len(d)
  BY DrivenDomain
<1>2. s = FlattenSeq(c)
  BY DEF LiveGame
<1>3. ASSUME NEW i \in DOMAIN d
      PROVE  d[i].llm_steps \in Seq(S)
  <2>1. d[i].llm_steps \in Seq(ToSet(d[i].llm_steps))
    BY DEF IsDriven, DrivenTurn, IsSeq
  <2>2. ToSet(d[i].llm_steps) \subseteq S
    OBVIOUS
  <2> HIDE DEF S
  <2>3. QED
    BY <2>1, <2>2
<1>4. c \in Seq(Seq(S)) /\ Len(c) = Len(d) /\ \A i \in 1..Len(d) : c[i] = d[i].llm_steps
  <2> HIDE DEF S
  <2>1. c \in [1..Len(d) -> Seq(S)]
    BY <1>1, <1>3
  <2>2. QED
    BY <1>1, <2>1
<1> HIDE DEF c, S, s
<1>5. FlatUpTo(S, c, s, Len(d))
  BY <1>2, <1>4, FlattenElements
<1>6. s \in Seq(S) /\ ToSet(s) = UNION {ToSet(c[i]) : i \in 1..Len(d)}
  BY <1>5 DEF FlatUpTo
<1>7. s \in Seq(ToSet(s))
  <2>1. s \in [1..Len(s) -> ToSet(s)] /\ Len(s) \in Nat
    BY <1>6 DEF ToSet
  <2>2. QED
    BY <2>1
<1>8. ASSUME NEW j \in DOMAIN s
      PROVE  s[j].turn \in 0..Len(d) - 1
  <2>1. s[j] \in ToSet(s)
    BY DEF ToSet
  <2>2. PICK i \in 1..Len(d) : s[j] \in ToSet(c[i])
    BY <1>6, <2>1
  <2>3. PICK k \in DOMAIN d[i].llm_steps : s[j] = d[i].llm_steps[k]
    BY <1>4, <2>2 DEF ToSet
  <2>4. d[i].llm_steps[k].turn = i - 1
    BY <1>1 DEF IsDriven, DrivenTurn
  <2>5. QED
    BY <1>1, <2>3, <2>4
<1>9. QED
  BY <1>7, <1>8 DEF s

LEMMA GamesAreSound == \A g \in Games : SoundGame(g)
<1> SUFFICES ASSUME NEW g \in Games
             PROVE  SoundGame(g)
  OBVIOUS
<1>1. PICK d : IsDriven(d) /\ GameOf(g, d)
  BY GamesAreOf
<1>2. Len(d) \in Nat \ {0} /\ DOMAIN d = 1..Len(d) /\ 1 \in DOMAIN d
  BY <1>1, DrivenDomain
<1>3. /\ Len(g.records) = Len(d) /\ DOMAIN g.records = 1..Len(d)
      /\ \A i \in 1..Len(d) : g.records[i] = d[i].turn_record
  <2>1. g.records = [i \in 1..Len(d) |-> d[i].turn_record]
    BY <1>1, <1>2 DEF GameOf
  <2>2. QED
    BY <1>2, <2>1
<1>4. Turns(g) = 0..Len(d) - 1 /\ \A t \in Turns(g) : t + 1 \in DOMAIN d /\ (t + 1) - 1 = t
  BY <1>2, <1>3 DEF Turns
<1>5. \A t \in Turns(g) : Slots(g)[t] = d[t + 1].turn_record /\ Slots(g)[t].turn = t
  <2>1. \A t \in Turns(g) : Slots(g)[t] = d[t + 1].turn_record
    BY <1>2, <1>3, <1>4 DEF Slots
  <2>2. \A i \in DOMAIN d : d[i].turn_record.turn = i - 1
    BY <1>1 DEF IsDriven, DrivenTurn
  <2>3. QED
    BY <1>4, <2>1, <2>2
<1>6. g.writes \in Seq(ToSet(g.writes)) /\ ToSet(g.writes) = AllWrites(d)
  BY <1>1 DEF GameOf
<1>7. g.writes # <<>>
  <2>1. RecordOf(d, 1) \in AllWrites(d)
    BY <1>2 DEF AllWrites
  <2>2. ToSet(<<>>) = {}
    BY DEF ToSet
  <2>3. QED
    BY <1>6, <2>1, <2>2
<1>8. \A k \in DOMAIN g.writes : LET x == g.writes[k] IN
        \/ x.kind = "record" /\ x.turn \in Turns(g) /\ x.content = Slots(g)[x.turn]
        \/ x.kind = "bytes"
  <2> SUFFICES ASSUME NEW x \in AllWrites(d)
               PROVE  \/ x.kind = "record" /\ x.turn \in Turns(g) /\ x.content = Slots(g)[x.turn]
                      \/ x.kind = "bytes"
    BY <1>6 DEF ToSet
  <2>1. CASE x \in ByteWritesOf(Bytes(d))
    BY <2>1 DEF ByteWritesOf, Write
  <2>2. ASSUME NEW i \in DOMAIN d, x = RecordOf(d, i)
        PROVE  x.kind = "record" /\ x.turn \in Turns(g) /\ x.content = Slots(g)[x.turn]
    <3>1. x.kind = "record" /\ x.turn = i - 1 /\ x.content = d[i].turn_record
      BY <2>2 DEF RecordOf, Write
    <3>2. i - 1 \in Turns(g) /\ (i - 1) + 1 = i
      BY <1>2, <1>4
    <3>3. QED
      BY <1>5, <3>1, <3>2
  <2>3. QED
    BY <2>1, <2>2 DEF AllWrites
<1>9. ASSUME NEW t \in Turns(g)
      PROVE  \E k \in DOMAIN g.writes : g.writes[k].kind = "record" /\ g.writes[k].turn = t
  <2>1. RecordOf(d, t + 1) \in ToSet(g.writes)
    BY <1>4, <1>6 DEF AllWrites
  <2>2. RecordOf(d, t + 1).kind = "record" /\ RecordOf(d, t + 1).turn = t
    BY <1>4 DEF RecordOf, Write
  <2>3. QED
    BY <2>1, <2>2 DEF ToSet
<1>10. /\ g.steps \in Seq(ToSet(g.steps)) /\ g.steps # NoSteps
       /\ \A j \in DOMAIN g.steps : g.steps[j].turn \in Turns(g)
  BY <1>1, <1>4, StepsOfDriven DEF GameOf, IsDriven
<1>11. Stored(g) = Bytes(d)
  <2>1. \A i \in DOMAIN d : RecordOf(d, i).kind = "record"
    BY DEF RecordOf, Write
  <2>2. \A b : Write("bytes", 0, b).kind = "bytes" /\ Write("bytes", 0, b).content = b
    BY DEF Write
  <2>3. {y \in ToSet(g.writes) : y.kind = "bytes"} = ByteWritesOf(Bytes(d))
    BY <1>6, <2>1, <2>2 DEF AllWrites, ByteWritesOf
  <2>4. QED
    BY <2>2, <2>3 DEF Stored, ByteWritesOf
<1>12. GatesAccept(Slots(g), Stored(g), g.steps)
  <2>1. Slots(g) = [t \in 0..Len(d)-1 |-> d[t + 1].turn_record]
    BY <1>4, <1>5 DEF Slots
  <2>2. QED
    BY <1>1, <1>11, <2>1 DEF GameOf, IsDriven
<1>13. QED
  BY <1>2, <1>3, <1>5, <1>6, <1>7, <1>8, <1>9, <1>10, <1>12 DEF SoundGame

(***************************************************************************)
(* The gates and the bytes: bytes that were not asked for change nothing.  *)
(***************************************************************************)
LEMMA MoreBytesBind ==
  ASSUME NEW step, NEW slots, NEW B, NEW C, B \subseteq C,
         binding_problems(step, slots, B) = {}
  PROVE  binding_problems(step, slots, C) = {}
<1>1. {step.response, step.request} \ B = {}
  BY DEF binding_problems
<1>2. {step.response, step.request} \ C = {}
  BY <1>1
<1>3. QED
  BY <1>1, <1>2 DEF binding_problems

LEMMA MoreBytesRetry ==
  ASSUME NEW step, NEW slots, NEW B, NEW C, B \subseteq C,
         retry_problems(step, slots, B) = {}
  PROVE  retry_problems(step, slots, C) = {}
<1> DEFINE start == IF step.turn \in DOMAIN slots THEN slots[step.turn].start_state ELSE Unlimited
           Judged(p) == prior_problems(step, p, start)
                          \cup bind_request_envelope(step, p.correction, p.request, slots)
           Prior(p, D) ==
             IF p.response \notin D THEN {"prior_artifact_missing"}
             ELSE (IF p.request \in D THEN {} ELSE {"prior_artifact_missing"}) \cup Judged(p)
           Chain == IF ChainBroken(step) THEN {"retry_correction_chain"} ELSE {}
<1>1. \A D : retry_problems(step, slots, D) =
               Chain \cup UNION {Prior(step.priors[i], D) : i \in DOMAIN step.priors}
  BY DEF retry_problems
<1> HIDE DEF Judged, Chain, start, Prior
<1>2. Chain = {} /\ \A i \in DOMAIN step.priors : Prior(step.priors[i], B) = {}
  <2>1. Chain \cup UNION {Prior(step.priors[i], B) : i \in DOMAIN step.priors} = {}
    BY <1>1
  <2>2. QED
    BY <2>1
<1>3. \A i \in DOMAIN step.priors : Prior(step.priors[i], C) = {}
  BY <1>2 DEF Prior
<1>4. QED
  BY <1>1, <1>2, <1>3

LEMMA MoreBytesJudge ==
  ASSUME NEW steps, NEW slots, NEW B, NEW C, B \subseteq C,
         judge_scenario(steps, slots, B) = {}
  PROVE  judge_scenario(steps, slots, C) = {}
<1>1. CASE steps = NoSteps
  BY <1>1 DEF judge_scenario, judge_steps
<1>2. CASE steps # NoSteps
  <2>1. /\ steps # <<>>
        /\ \A i \in DOMAIN steps : step_problems(steps[i], slots, B) = {}
        /\ ledger_problems(steps, slots) = {}
    <3> DEFINE problems == UNION {step_problems(steps[i], slots, B) : i \in DOMAIN steps}
    <3>1. steps # <<>> /\ problems = {} /\ ledger_problems(steps, slots) = {}
      BY <1>2 DEF judge_scenario, judge_steps
    <3>2. QED
      BY <3>1
  <2>2. \A i \in DOMAIN steps : step_problems(steps[i], slots, C) = {}
    <3> SUFFICES ASSUME NEW i \in DOMAIN steps
                 PROVE  step_problems(steps[i], slots, C) = {}
      OBVIOUS
    <3>1. /\ structural_problems(steps[i]) = {}
          /\ binding_problems(steps[i], slots, B) = {}
          /\ retry_problems(steps[i], slots, B) = {}
      BY <2>1 DEF step_problems
    <3>2. binding_problems(steps[i], slots, C) = {} /\ retry_problems(steps[i], slots, C) = {}
      BY <3>1, MoreBytesBind, MoreBytesRetry
    <3>3. QED
      BY <3>1, <3>2 DEF step_problems
  <2>3. UNION {step_problems(steps[i], slots, C) : i \in DOMAIN steps} = {}
    BY <2>2
  <2>4. QED
    BY <1>2, <2>1, <2>3 DEF judge_scenario, judge_steps
<1>3. QED
  BY <1>1, <1>2

(***************************************************************************)
(* The invariant is inductive.                                             *)
(***************************************************************************)
\* Slots that keep their bytes: what every step leaves of the directory.
SlotsKept == \A t \in DOMAIN turns : t \in DOMAIN turns' /\ turns'[t] = turns[t]

LEMMA KeptRecords ==
  ASSUME SlotsKept
  PROVE  /\ \A g : Committed(g) => Committed(g)'
         /\ \A x : Written(x) /\ x.kind = "record" => Written(x)'
BY DEF SlotsKept, Committed, Written

\* A ledger left as it was, in slots that keep their bytes, is audited as it was.
LEMMA KeptAudit ==
  ASSUME SlotsKept, AuditInv, ledger' = ledger
  PROVE  AuditInv'
BY KeptRecords DEF AuditInv, PrefixOf

\* The first steps of a game: what is cut from them are the first again.
LEMMA PrefixOfPrefix ==
  ASSUME NEW s, s \in Seq(ToSet(s)), NEW r, PrefixOf(r, s)
  PROVE  /\ \A n \in 0..Len(r) : PrefixOf(SubSeq(r, 1, n), s)
         /\ IsPrefix(r, s)
         /\ \A j \in DOMAIN r : j \in DOMAIN s /\ r[j] = s[j]
<1>1. PICK m \in 0..Len(s) : r = SubSeq(s, 1, m)
  BY DEF PrefixOf
<1>2. Len(s) \in Nat /\ m \in Nat /\ m <= Len(s)
  BY <1>1
<1>3. Len(r) = m /\ r \in Seq(ToSet(s)) /\ \A j \in 1..m : r[j] = s[j]
  BY <1>1, <1>2
<1>4. \A n \in 0..m : SubSeq(r, 1, n) = SubSeq(s, 1, n)
  BY <1>2, <1>3
<1>5. \A n \in 0..m : n \in 0..Len(s)
  BY <1>2
<1>6. \A n \in 0..Len(r) : PrefixOf(SubSeq(r, 1, n), s)
  BY <1>3, <1>4, <1>5 DEF PrefixOf
<1>7. IsPrefix(r, s)
  BY <1>2, <1>3, <1>4 DEF IsPrefix
<1>8. QED
  BY <1>2, <1>3, <1>6, <1>7

\* The write a script is at, and what lies behind it once it is made.
LEMMA AtWrite ==
  ASSUME CommitInv, pc = "writes"
  PROVE  /\ game \in Games /\ SoundGame(game)
         /\ next \in DOMAIN game.writes
         /\ next \in 1..Len(game.writes) /\ Len(game.writes) \in Nat
         /\ w = game.writes[next]
         /\ w.kind = "record" => w.turn \in Turns(game) /\ w.content = Slots(game)[w.turn]
BY GamesAreSound DEF CommitInv, RunInv, SoundGame, w

\* A script that has made all its writes has committed its whole game.
LEMMA AfterWrites ==
  ASSUME CommitInv, pc \notin {"idle", "writes"}
  PROVE  /\ game \in Games /\ SoundGame(game)
         /\ Committed(game)
         /\ Stored(game) \subseteq llm
<1>1. /\ game \in Games /\ SoundGame(game)
      /\ \A k \in DOMAIN game.writes : Written(game.writes[k])
  BY GamesAreSound DEF CommitInv, RunInv
<1>2. ASSUME NEW t \in Turns(game)
      PROVE  t \in DOMAIN turns /\ turns[t] = Slots(game)[t]
  <2>1. PICK k \in DOMAIN game.writes : game.writes[k].kind = "record" /\ game.writes[k].turn = t
    BY <1>1 DEF SoundGame
  <2>2. game.writes[k].content = Slots(game)[t]
    BY <1>1, <2>1 DEF SoundGame
  <2>3. QED
    BY <1>1, <2>1, <2>2 DEF Written
<1>3. Stored(game) \subseteq llm
  <2> SUFFICES ASSUME NEW k \in DOMAIN game.writes, game.writes[k].kind = "bytes"
               PROVE  game.writes[k].content \in llm
    BY DEF Stored, ToSet
  <2>1. QED
    BY <1>1 DEF Written
<1>4. QED
  BY <1>1, <1>2, <1>3 DEF Committed

\* A step of the script's writes: what was written stays, and this write is made.
LEMMA AdvanceKeepsRun ==
  ASSUME CommitInv, pc = "writes", Advance, NEW x, x = w, Written(x)',
         \A k \in DOMAIN game.writes : Written(game.writes[k]) => Written(game.writes[k])'
  PROVE  RunInv'
<1>1. /\ game \in Games /\ next \in 1..Len(game.writes) /\ Len(game.writes) \in Nat
      /\ DOMAIN game.writes = 1..Len(game.writes) /\ w = game.writes[next]
  BY AtWrite DEF SoundGame
<1>2. /\ \A k \in DOMAIN game.writes : k < next => Written(game.writes[k])
  BY DEF CommitInv, RunInv
<1>3. /\ next' = next + 1 /\ game' = game
      /\ pc' = IF next = Len(game.writes) THEN "pin" ELSE "writes"
  BY DEF Advance
<1>4. \A k \in DOMAIN game.writes : k < next + 1 => Written(game.writes[k])'
  <2> SUFFICES ASSUME NEW k \in DOMAIN game.writes, k < next + 1
               PROVE  Written(game.writes[k])'
    OBVIOUS
  <2>1. CASE k < next
    BY <1>2, <2>1
  <2>2. CASE k = next
    <3>1. game.writes[k] = x /\ game'.writes[k] = x
      BY <1>1, <1>3, <2>2
    <3>2. QED
      BY <3>1
  <2>3. QED
    BY <1>1, <2>1, <2>2
<1>5. CASE next = Len(game.writes)
  BY <1>1, <1>3, <1>4, <1>5 DEF RunInv
<1>6. CASE next # Len(game.writes)
  BY <1>1, <1>3, <1>4, <1>6 DEF RunInv
<1>7. QED
  BY <1>5, <1>6

\* It holds of an empty directory.
THEOREM CommitInit == Init => CommitInv
<1> SUFFICES ASSUME Init
             PROVE  CommitInv
  OBVIOUS
<1>1. DOMAIN turns = {} /\ turns = [t \in {} |-> turns[t]]
  BY DEF Init
<1>2. SlotsInv
  BY <1>1 DEF SlotsInv
<1>3. AuditInv /\ RunInv
  BY DEF Init, AuditInv, RunInv
<1>4. QED
  BY <1>2, <1>3 DEF CommitInv

LEMMA LeaveKeepsRun ==
  ASSUME Leave
  PROVE  RunInv'
BY DEF Leave, RunInv

LEMMA SameDisk ==
  ASSUME CommitInv, UNCHANGED disk
  PROVE  SlotsKept /\ SlotsInv' /\ AuditInv'
<1>1. turns' = turns /\ ledger' = ledger
  BY DEF disk
<1>2. SlotsKept
  BY <1>1 DEF SlotsKept
<1>3. SlotsInv'
  BY <1>1 DEF CommitInv, SlotsInv
<1>4. QED
  BY <1>1, <1>2, <1>3, KeptAudit DEF CommitInv

\* A slot is filled, with a game's record of that turn or a cut file.
LEMMA FilledSlot ==
  ASSUME SlotsInv, AuditInv, ledger' = ledger,
         NEW u, u \notin DOMAIN turns, NEW content,
         turns' = [t \in DOMAIN turns \cup {u} |-> IF t = u THEN content ELSE turns[t]],
         content = Torn \/ \E g \in Games : u \in Turns(g) /\ content = Slots(g)[u]
  PROVE  SlotsKept /\ SlotsInv' /\ AuditInv'
<1>1. /\ DOMAIN turns' = DOMAIN turns \cup {u}
      /\ turns'[u] = content /\ \A t \in DOMAIN turns : turns'[t] = turns[t]
  OBVIOUS
<1>2. SlotsKept
  BY <1>1 DEF SlotsKept
<1>3. turns' = [t \in DOMAIN turns' |-> turns'[t]]
  BY <1>1
<1>4. SlotsInv'
  BY <1>1, <1>3 DEF SlotsInv
<1>5. QED
  BY <1>2, <1>4, KeptAudit

\* Every step of a script, and every death of one, keeps it.
THEOREM CommitStep == CommitInv /\ [Next]_vars => CommitInv'
<1> SUFFICES ASSUME CommitInv, [Next]_vars
             PROVE  CommitInv'
  OBVIOUS
<1>0. SlotsInv /\ AuditInv /\ RunInv
  BY DEF CommitInv
<1>1. ASSUME NEW g \in Games, Begin(g)
      PROVE  CommitInv'
  <2>1. UNCHANGED disk /\ pc' = "writes" /\ game' = g /\ next' = 1
    BY <1>1 DEF Begin
  <2>2. g.writes # <<>> /\ Len(g.writes) \in Nat /\ DOMAIN g.writes = 1..Len(g.writes)
    BY GamesAreSound DEF SoundGame
  <2>3. 1 \in DOMAIN g.writes
    BY GamesAreSound DEF SoundGame
  <2>4. RunInv'
    BY <2>1, <2>2, <2>3 DEF RunInv
  <2>5. QED
    BY <2>1, <2>4, SameDisk DEF CommitInv
<1>2. ASSUME CommitRecord
      PROVE  CommitInv'
  <2>1. pc = "writes" /\ w.kind = "record" /\ Advance /\ llm' = llm /\ ledger' = ledger
    BY <1>2 DEF CommitRecord, Writes
  <2>2. /\ game \in Games /\ next \in DOMAIN game.writes
        /\ w.turn \in Turns(game) /\ w.content = Slots(game)[w.turn]
    BY <2>1, AtWrite
  <2>3. PICK u, content : u = w.turn /\ content = w.content
    OBVIOUS
  <2>4. /\ u \in DOMAIN turns => turns[u] = content
        /\ turns' = [t \in DOMAIN turns \cup {u} |-> IF t = u THEN content ELSE turns[t]]
    BY <1>2, <2>3 DEF CommitRecord
  <2>5. SlotsKept /\ SlotsInv' /\ AuditInv'
    <3>1. CASE u \notin DOMAIN turns
      BY <1>0, <2>1, <2>2, <2>3, <2>4, <3>1, FilledSlot
    <3>2. CASE u \in DOMAIN turns
      <4>1. turns' = [t \in DOMAIN turns |-> turns[t]]
        BY <2>4, <3>2
      <4>2. turns' = turns
        BY <1>0, <4>1 DEF SlotsInv
      <4>3. QED
        BY <1>0, <2>1, <4>2, KeptAudit DEF SlotsKept, SlotsInv
    <3>3. QED
      BY <3>1, <3>2
  <2>6. PICK x : x = w
    OBVIOUS
  <2>7. Written(x)'
    BY <2>1, <2>3, <2>4, <2>6 DEF Written
  <2>8. \A y : Written(y) => Written(y)'
    BY <2>1, <2>5, KeptRecords DEF Written
  <2>9. RunInv'
    <3>1. \A k \in DOMAIN game.writes : Written(game.writes[k]) => Written(game.writes[k])'
      BY <2>1, <2>8 DEF Advance
    <3>2. QED
      BY <2>1, <2>6, <2>7, <3>1, AdvanceKeepsRun
  <2>10. QED
    BY <2>5, <2>9 DEF CommitInv
<1>3. ASSUME RecordConflicts
      PROVE  CommitInv'
  BY <1>3, SameDisk, LeaveKeepsRun DEF RecordConflicts, CommitInv
<1>4. ASSUME WriteBytes
      PROVE  CommitInv'
  <2>1. /\ pc = "writes" /\ w.kind = "bytes" /\ Advance
        /\ llm' = llm \cup {w.content} /\ turns' = turns /\ ledger' = ledger
    BY <1>4 DEF WriteBytes, Writes
  <2>2. SlotsInv' /\ AuditInv'
    BY <1>0, <2>1, KeptAudit DEF SlotsKept, SlotsInv
  <2>3. PICK x : x = w
    OBVIOUS
  <2>4. Written(x)'
    BY <2>1, <2>3 DEF Written
  <2>5. \A k \in DOMAIN game.writes : Written(game.writes[k]) => Written(game.writes[k])'
    BY <2>1 DEF Written, Advance
  <2>6. RunInv'
    BY <2>1, <2>3, <2>4, <2>5, AdvanceKeepsRun
  <2>7. QED
    BY <2>2, <2>6 DEF CommitInv
<1>5. ASSUME PinInputs
      PROVE  CommitInv'
  <2>1. /\ pc = "pin" /\ pc' = "inject" /\ turns' = turns /\ llm' = llm /\ game' = game
        /\ ledger' = IF ledger = NoLedger THEN NoSteps ELSE ledger
    BY <1>5 DEF PinInputs
  <2>2. SlotsInv'
    BY <1>0, <2>1 DEF SlotsInv
  <2>3. AuditInv'
    <3>1. CASE ledger = NoLedger
      BY <2>1, <3>1 DEF AuditInv
    <3>2. CASE ledger # NoLedger
      BY <1>0, <2>1, <3>2, KeptAudit DEF SlotsKept
    <3>3. QED
      BY <3>1, <3>2
  <2>4. RunInv'
    BY <1>0, <2>1 DEF RunInv, Written
  <2>5. QED
    BY <2>2, <2>3, <2>4 DEF CommitInv
<1>6. ASSUME PinRefuses
      PROVE  CommitInv'
  BY <1>6, SameDisk, LeaveKeepsRun DEF PinRefuses, CommitInv
<1>7. ASSUME InjectSteps
      PROVE  CommitInv'
  <2>1. /\ pc = "inject" /\ pc' = "done" /\ turns' = turns /\ llm' = llm /\ game' = game
        /\ ledger' = game.steps
    BY <1>7 DEF InjectSteps
  <2>2. game \in Games /\ SoundGame(game) /\ Committed(game)
    BY <2>1, AfterWrites
  <2>3. SlotsInv'
    BY <1>0, <2>1 DEF SlotsInv
  <2>4. PrefixOf(game.steps, game.steps)
    BY <2>2 DEF PrefixOf, SoundGame
  <2>5. PICK g \in Games : g = game
    BY <2>2
  <2>6. Committed(g)' /\ PrefixOf(ledger', g.steps)
    BY <2>1, <2>2, <2>4, <2>5, KeptRecords DEF SlotsKept
  <2>7. AuditInv'
    BY <2>6 DEF AuditInv
  <2>8. RunInv'
    BY <1>0, <2>1 DEF RunInv, Written
  <2>9. QED
    BY <2>3, <2>7, <2>8 DEF CommitInv
<1>8. ASSUME Die
      PROVE  CommitInv'
  <2>1. RunInv'
    BY <1>8, LeaveKeepsRun DEF Die
  <2>2. CASE UNCHANGED disk
    BY <2>1, <2>2, SameDisk DEF CommitInv
  <2>3. ASSUME Writes("record"), w.turn \notin DOMAIN turns, ledger' = ledger,
               turns' = [t \in DOMAIN turns \cup {w.turn} |-> IF t = w.turn THEN Torn ELSE turns[t]]
        PROVE  CommitInv'
    <3>1. PICK u : u = w.turn
      OBVIOUS
    <3>2. SlotsInv' /\ AuditInv'
      BY <1>0, <2>3, <3>1, FilledSlot
    <3>3. QED
      BY <2>1, <3>2 DEF CommitInv
  <2>4. ASSUME turns' = turns, ledger' = ledger
        PROVE  CommitInv'
    <3>1. SlotsInv' /\ AuditInv'
      BY <1>0, <2>4, KeptAudit DEF SlotsKept, SlotsInv
    <3>2. QED
      BY <2>1, <3>1 DEF CommitInv
  <2>5. ASSUME pc \in {"pin", "inject"}, turns' = turns,
               ledger' \in CutLedgers(IF pc = "pin" THEN ledger ELSE game.steps)
        PROVE  CommitInv'
    <3>1. SlotsInv'
      BY <1>0, <2>5 DEF SlotsInv
    <3>2. PICK steps : steps = IF pc = "pin" THEN ledger ELSE game.steps
      OBVIOUS
    <3>3. \/ steps \in {NoLedger, NoSteps}
          \/ \E g \in Games : PrefixOf(steps, g.steps) /\ Committed(g)
      <4>1. CASE pc = "pin"
        BY <1>0, <3>2, <4>1 DEF AuditInv
      <4>2. CASE pc = "inject"
        <5>1. game \in Games /\ SoundGame(game) /\ Committed(game)
          BY <4>2, AfterWrites
        <5>2. PrefixOf(game.steps, game.steps)
          BY <5>1 DEF PrefixOf, SoundGame
        <5>3. PICK g \in Games : g = game
          BY <5>1
        <5>4. QED
          BY <3>2, <4>2, <5>1, <5>2, <5>3
      <4>3. QED
        BY <2>5, <4>1, <4>2
    <3>4. \/ ledger' \in {NoLedger, NoSteps}
          \/ steps \notin {NoLedger, NoSteps} /\ \E n \in 1..Len(steps) : ledger' = SubSeq(steps, 1, n)
      BY <2>5, <3>2 DEF CutLedgers
    <3>5. ASSUME steps \notin {NoLedger, NoSteps},
                 NEW n \in 1..Len(steps), ledger' = SubSeq(steps, 1, n)
          PROVE  AuditInv'
      <4>1. PICK g \in Games : PrefixOf(steps, g.steps) /\ Committed(g)
        BY <3>3, <3>5
      <4>2. g.steps \in Seq(ToSet(g.steps))
        BY GamesAreSound DEF SoundGame
      <4>3. \A m \in 0..Len(steps) : PrefixOf(SubSeq(steps, 1, m), g.steps)
        BY <4>1, <4>2, PrefixOfPrefix
      <4>4. n \in 0..Len(steps)
        BY DEF PrefixOf
      <4>5. PrefixOf(ledger', g.steps) /\ Committed(g)'
        BY <2>5, <3>5, <4>1, <4>3, <4>4, KeptRecords DEF SlotsKept
      <4>6. QED
        BY <4>5 DEF AuditInv
    <3>6. AuditInv'
      BY <3>4, <3>5 DEF AuditInv
    <3>7. QED
      BY <2>1, <3>1, <3>6 DEF CommitInv
  <2>6. QED
    BY <1>8, <2>2, <2>3, <2>4, <2>5 DEF Die
<1>9. CASE UNCHANGED vars
  <2>1. /\ UNCHANGED disk /\ turns' = turns /\ llm' = llm /\ ledger' = ledger
        /\ pc' = pc /\ game' = game /\ next' = next
    BY <1>9 DEF vars, disk
  <2>2. RunInv'
    BY <1>0, <2>1 DEF RunInv, Written
  <2>3. QED
    BY <2>1, <2>2, SameDisk DEF CommitInv
<1>10. QED
  BY <1>1, <1>2, <1>3, <1>4, <1>5, <1>6, <1>7, <1>8, <1>9 DEF Next, Step

(***************************************************************************)
(* The theorems.                                                           *)
(***************************************************************************)
\* What the directory's slots, its ledger and the running script say of each
\* other, after any number of runs, refusals and deaths.
THEOREM CommitsConsistent == Spec => []CommitInv
BY CommitInit, CommitStep, PTL DEF Spec

LEMMA OneRunFromInv == CommitInv => OneRunAudited
<1> SUFFICES ASSUME CommitInv, GatesPass, ledger # NoSteps
             PROVE  \E g \in Games :
                      /\ IsPrefix(ledger, g.steps)
                      /\ \A t \in DOMAIN turns : turns[t].command_batch # {} =>
                           t < Len(g.records) /\ turns[t] = g.records[t + 1]
  BY DEF OneRunAudited
<1>1. /\ \A t \in DOMAIN turns : turns[t] # Torn
      /\ ledger # NoLedger /\ judge_scenario(ledger, turns, llm) = {}
  BY DEF GatesPass, GatesAccept
<1>2. PICK g \in Games : PrefixOf(ledger, g.steps) /\ Committed(g)
  BY <1>1 DEF CommitInv, AuditInv
<1>3. SoundGame(g)
  BY GamesAreSound
<1>4. IsPrefix(ledger, g.steps) /\ \A j \in DOMAIN ledger : j \in DOMAIN g.steps /\ ledger[j] = g.steps[j]
  BY <1>2, <1>3, PrefixOfPrefix DEF SoundGame
<1>5. ledger_problems(ledger, turns) = {}
  <2>1. ledger # <<>>
    BY <1>1 DEF judge_scenario, judge_steps
  <2>2. QED
    BY <1>1, <2>1 DEF judge_scenario, judge_steps
<1>6. \A t \in DOMAIN turns : \A c \in turns[t].command_batch :
        \E i \in DOMAIN ledger : ledger[i].turn = turns[t].turn
  <2> DEFINE covered == \A t \in DOMAIN turns : \A c \in turns[t].command_batch :
               \E i \in DOMAIN ledger : /\ ledger[i].kind = "COMMAND"
                                        /\ ledger[i].turn = turns[t].turn
                                        /\ ledger[i].slot = c.actor
             twice   == \E i, j \in DOMAIN ledger :
               i # j /\ ledger[i].turn = ledger[j].turn /\ ledger[i].slot = ledger[j].slot
             found   == [duplicate_step |-> twice, uncovered_command |-> ~covered]
  <2>1. Codes(found) = {}
    BY <1>5 DEF ledger_problems
  <2>2. "uncovered_command" \notin Codes(found)
    BY <2>1
  <2> HIDE DEF covered, twice
  <2>3. covered
    BY <2>2 DEF Codes
  <2>4. QED
    BY <2>3 DEF covered
<1>7. ASSUME NEW t \in DOMAIN turns, turns[t].command_batch # {}
      PROVE  t < Len(g.records) /\ turns[t] = g.records[t + 1]
  <2>1. PICK h \in Games : t \in Turns(h) /\ turns[t] = Slots(h)[t]
    BY <1>1 DEF CommitInv, SlotsInv
  <2>2. turns[t].turn = t
    BY <2>1, GamesAreSound DEF SoundGame
  <2>3. PICK i \in DOMAIN ledger : ledger[i].turn = t
    BY <1>6, <1>7, <2>2
  <2>4. t \in Turns(g)
    BY <1>3, <1>4, <2>3 DEF SoundGame
  <2>5. turns[t] = Slots(g)[t] /\ Slots(g)[t] = g.records[t + 1]
    BY <1>2, <2>4 DEF Committed, Slots
  <2>6. t < Len(g.records)
    BY <1>3, <2>4 DEF Turns, SoundGame
  <2>7. QED
    BY <2>5, <2>6
<1>8. QED
  BY <1>4, <1>7

LEMMA CleanFromInv == CommitInv => DoneIsClean
<1> SUFFICES ASSUME CommitInv, pc = "done"
             PROVE  /\ ledger = game.steps
                    /\ DOMAIN turns = 0..Len(game.records)-1 => GatesPass
  BY DEF DoneIsClean
<1>1. ledger = game.steps
  BY DEF CommitInv, RunInv
<1>2. SoundGame(game) /\ Committed(game) /\ Stored(game) \subseteq llm
  BY AfterWrites
<1>3. ASSUME DOMAIN turns = 0..Len(game.records)-1
      PROVE  GatesPass
  <2>1. DOMAIN turns = Turns(game) /\ turns = [t \in DOMAIN turns |-> turns[t]]
    BY <1>3 DEF Turns, CommitInv, SlotsInv
  <2>2. turns = Slots(game)
    <3>1. \A t \in Turns(game) : turns[t] = game.records[t + 1]
      BY <1>2 DEF Committed, Slots
    <3>2. QED
      BY <2>1, <3>1 DEF Slots
  <2>3. GatesAccept(turns, Stored(game), ledger)
    BY <1>1, <1>2, <2>2 DEF SoundGame
  <2>4. judge_scenario(ledger, turns, Stored(game)) = {}
    BY <2>3 DEF GatesAccept
  <2>5. judge_scenario(ledger, turns, llm) = {}
    BY <1>2, <2>4, MoreBytesJudge
  <2>6. QED
    BY <2>3, <2>5 DEF GatesPass, GatesAccept
<1>4. QED
  BY <1>1, <1>3

\* A directory the gates pass audits one run, whatever runs came before it.
THEOREM AuditsOneRun == Spec => []OneRunAudited
BY CommitsConsistent, OneRunFromInv, PTL

\* A run that reaches its end leaves a complete audit of its own.
THEOREM RunsEndClean == Spec => []DoneIsClean
BY CommitsConsistent, CleanFromInv, PTL
=============================================================================
