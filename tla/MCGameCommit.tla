---------------------------- MODULE MCGameCommit ----------------------------
(***************************************************************************)
(* Games of one and two turns on the same start, with the same or another  *)
(* first record: BLUE dispatches at once; only at the second attempt;      *)
(* again in a second turn; or forfeits the second turn; RED may block.     *)
(***************************************************************************)
EXTENDS GameCommit, TLC

Answer(x, q) == [reject |-> None, action |-> x, route |-> "r1", quantity |-> q, prose |-> FALSE]
NoOrder      == [reject |-> "no-command", action |-> None, route |-> NoRoute, quantity |-> 0, prose |-> FALSE]
One          == Answer("DISPATCH_SUPPLY", 1)
Two          == Answer("DISPATCH_SUPPLY", 2)
Block        == Answer("BLOCK_ROUTE", 0)

Start == [ origin |-> 3, in_transit |-> 0, delivered |-> 0, loss_sink |-> 0,
           as_of_turn |-> 0, secret |-> ("r1" :> 50) ]
Roll  == [a \in (0..1) \X Routes |-> 49]
MCOracle == ReplaySeed :> Roll

Blue(answers) == "BLUE" :> answers
Both(b, r)    == ("BLUE" :> b) @@ ("RED" :> r)

Driven(version, script) == run_campaign(version, Start, script, Roll)

MCLive == { Driven("a1b", <<Blue(<<NoOrder, One>>)>>),
            Driven("a1b", <<Blue(<<One>>), Blue(<<NoOrder>>)>>),
            Driven("a1b", <<Blue(<<Two>>), Blue(<<Two, One>>)>>) }
MCOffline == { Driven("v1", <<Blue(<<One>>)>>),
               Driven("v1", <<Blue(<<One>>), Both(<<One>>, <<Block>>)>>) }
=============================================================================
