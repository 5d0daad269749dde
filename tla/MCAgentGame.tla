----------------------------- MODULE MCAgentGame -----------------------------
(***************************************************************************)
(* AgentGame on a two-route board.  The model may answer in words, with a  *)
(* dispatch of 1 (more than is left of a supply of 1 after an earlier      *)
(* one), with a block - each legal for one slot at most - or with an       *)
(* action the game does not have.                                          *)
(***************************************************************************)
EXTENDS AgentGame, TLC

Text == Str("text")
Input(action, params, siblings) == [action |-> action, params |-> params, siblings |-> siblings]
Use(name, input, siblings) ==
  [type |-> "tool_use", name |-> name, input |-> input, siblings |-> siblings]
Words == [Use("", Input(Missing, <<>>, {}), {Text}) EXCEPT !.type = "text"]
Call(action, params) == Use(TOOL_NAME, Input(Str(action), params, {}), {})
Body(content) == [list |-> TRUE, content |-> content]

Dispatch(route, quantity) == ("route" :> route) @@ ("quantity" :> quantity)
Block(route) == "route" :> route

MCResponses ==
  LET Read(code, action, route, quantity, prose) ==
        [ reject |-> code, action |-> action, route |-> route,
          quantity |-> quantity, prose |-> prose ]
  IN  { Read("no-command", None, NoRoute, 0, FALSE),
        Read(None, "DISPATCH_SUPPLY", "r1", 1, FALSE),
        Read(None, "BLOCK_ROUTE", "r1", 0, FALSE),
        Read("unknown-action", None, NoRoute, 0, TRUE) }

\* They are what the game makes of these replies.
ASSUME ResponsesAreExtracted ==
  MCResponses =
    {extract_command(redact(Body(content))) :
       content \in { <<Words>>,
                     <<Words, Call("DISPATCH_SUPPLY", Dispatch(Str("r1"), Num(1)))>>,
                     <<Call("BLOCK_ROUTE", Block(Str("r1")))>>,
                     <<Call("text", "route" :> Num(1))>> }}

\* Replies of up to two blocks: words, and tool uses of each kind of input.
MCInputs ==
  { Input(Str(x), p, s) :
      x \in {"DISPATCH_SUPPLY", "BLOCK_ROUTE", "text"}, s \in {{}, {Text}, {Num(1)}},
      p \in { Dispatch(Str("r1"), Num(1)), Dispatch(Text, Num(1)), Dispatch(Str("r1"), Text),
              Dispatch(Str("r1"), Float), Dispatch(Num(1), Num(1)), Block(Str("r1")),
              Block(Str("r1")) @@ ("note" :> Text), <<>> } }
  \cup {Input(Missing, p, {}) : p \in {<<>>, Block(Str("r1"))}}
AllBlocks == {Words} \cup {Use(n, i, s) : n \in {TOOL_NAME, "text"}, i \in MCInputs, s \in {{}, {Text}}}
MCReplies ==
  {[list |-> FALSE, content |-> <<>>]} \cup {Body(c) : c \in UNION {[1..n -> AllBlocks] : n \in 0..2}}

\* A call that is cheaper than its ceiling, and one whose input was
\* undercounted and whose output is full.
MCUsages == [in \in Inputs |-> {<<in, 0>>, <<in + Undercount, MaxTokens>>}]

BothSlots == <<"BLUE", "RED">>
MCSecrets == {[r \in {"r1"} |-> 50]}
=============================================================================
