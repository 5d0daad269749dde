------------------------------ MODULE MCCampaign ------------------------------
(***************************************************************************)
(* Campaign on a two-route board with quantities 1..2.  The batches hold   *)
(* every pairing of three BLUE and three RED choices (a dispatch of each   *)
(* bound, each block, nothing); a legal move beside one of the wrong role, *)
(* on an unknown route, or of a quantity past MaxQty; an unknown actor and *)
(* action, and two moves of one actor.                                     *)
(***************************************************************************)
EXTENDS AgentFog

Move(a, x, r, q) == [actor |-> a, action |-> x, route |-> r, quantity |-> q]

Dispatch(r, q) == <<Move("BLUE", "DISPATCH_SUPPLY", r, q)>>
Block(r)       == <<Move("RED", "BLOCK_ROUTE", r, 0)>>

BlueMoves  == {Dispatch("r1", MaxQty), Dispatch("r2", MinQty), <<>>}
RedMoves   == {Block(r) : r \in Routes} \cup {<<>>}
OddBatches ==
  {Block("r1") \o b : b \in { Dispatch("r1", MaxQty + 1), Dispatch(NoRoute, 1),
                             <<Move("BLUE", "BLOCK_ROUTE", "r1", 0)>> }}
  \cup { Block(NoRoute) \o Dispatch("r1", 1), Dispatch("r1", 1) \o Dispatch("r2", 1),
         <<Move("WHITE", "HOLD", "r1", 0)>> }

MCBatches == {r \o b : r \in RedMoves, b \in BlueMoves} \cup OddBatches
\* Only r1 blockable (INITIAL_STATE); both blockable (both_blockable_state).
MCSecrets == {[r \in {"r1"} |-> 50], [r \in Routes |-> 50]}

\* State directories: a public file and up to three private ones, over three
\* item ids, with repeated ids, an unusable file and a second schema version.
File(v, items) == [version |-> v, items |-> items]
Docs == {File(1, <<1>>), File(1, <<2>>), File(1, <<2, 3>>), File(1, <<3, 3>>), File(2, <<3>>), Unusable}
MCPartitions ==
  [ public : Docs, private : UNION {[O -> Docs] : O \in SUBSET {"a", "b", Adjudicator}} ]
MCAgents == {{"a", "b"}, {"a"}, {"a", Adjudicator}}
=============================================================================
