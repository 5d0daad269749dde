------------------------------- MODULE Redaction -------------------------------
(***************************************************************************)
(* From a provider's reply to the response a game commits and reads:       *)
(* redact and contains_prose of core/response_redact.py, and               *)
(* extract_command of core/command_extractor.py.                           *)
(*                                                                         *)
(* A reply that is a JSON object is [list, content]: whether its content   *)
(* is a list, and the blocks in it.  A block has a type, a tool name, an   *)
(* input and the values of its other keys; an input has an action, a       *)
(* function of parameters and the values of its other keys.  A value is a  *)
(* string, an integer or a float; any string but a name the game knows     *)
(* stands for free text.                                                   *)
(***************************************************************************)
EXTENDS Provenance, SequencesExt

CONSTANTS
  CommandInputs,   \* what a tool use may ask for
  Replies          \* what the provider may answer

Str(s)  == [kind |-> "str", str |-> s, num |-> 0]
Num(n)  == [kind |-> "int", str |-> "", num |-> n]
Float   == [kind |-> "float", str |-> "", num |-> 0]
Missing == [kind |-> "missing", str |-> "", num |-> 0]

Value  == [kind : {"str", "int", "float", "missing"}, str : STRING, num : Int]
ContentBlocks == [type : STRING, name : STRING, input : CommandInputs, siblings : SUBSET Value]
Bodies == [list : BOOLEAN, content : Seq(ContentBlocks)]

ASSUME ReplyAssumption == Replies \subseteq Bodies
ASSUME CodeAssumption ==
  {"malformed-bytes", "no-command", "ambiguous-command", "semantic-field-invalid",
   "non-canon-command", "unknown-action", "params-schema-mismatch"} \subseteq REJECT_CODES

TOOL_NAME    == "submit_command"
PARAM_SCHEMA == [DISPATCH_SUPPLY |-> {"quantity", "route"}, BLOCK_ROUTE |-> {"route"}]

Conforms(key, v) ==
  \/ key = "quantity" /\ v.kind = "int"
  \/ key = "route" /\ v.kind = "str" /\ v.str \in Routes

Known(action) == action.kind = "str" /\ action.str \in DOMAIN PARAM_SCHEMA

-----------------------------------------------------------------------------
(***************************************************************************)
(* Redaction: the tool uses, without their other keys, are all that stays. *)
(***************************************************************************)
project_tool_use(b) == [b EXCEPT !.siblings = {}]

\* Mutant of redact: the first tool use is taken, the others are dropped.
redact_first(body) ==
  LET keep(kept, b) == IF b.type = "tool_use" /\ kept = <<>>
                       THEN Append(kept, project_tool_use(b)) ELSE kept
  IN  [body EXCEPT !.content = FoldLeft(keep, <<>>, body.content)]

redact(body) ==
  LET keep(kept, b) == IF b.type = "tool_use" THEN Append(kept, project_tool_use(b)) ELSE kept
  IN  [body EXCEPT !.content = FoldLeft(keep, <<>>, body.content)]

Texts(values) == {v.str : v \in {v \in values : v.kind = "str"}}

ParamValues(input) == {input.params[k] : k \in DOMAIN input.params}

\* _command_input_prose: strings that are no field of a command, by value.
input_prose(input) ==
  Texts(input.siblings) \cup
  IF Known(input.action)
  THEN Texts({input.params[k] : k \in {k \in DOMAIN input.params :
                ~(k \in PARAM_SCHEMA[input.action.str] /\ Conforms(k, input.params[k]))}})
  ELSE Texts({input.action} \cup ParamValues(input))

block_prose(b) ==
  IF b.type = "tool_use"
  THEN Texts(b.siblings) \cup ({b.name} \ {TOOL_NAME}) \cup input_prose(b.input)
  ELSE {b.type} \cup Texts(b.siblings)

contains_prose(body) ==
  IF body.list THEN UNION {block_prose(body.content[i]) : i \in DOMAIN body.content} ELSE {}

-----------------------------------------------------------------------------
(***************************************************************************)
(* Extraction: the one command of a reply, or the first rule it breaks.    *)
(***************************************************************************)
ToolUses(body) ==
  LET match(found, b) == IF b.type = "tool_use" /\ b.name = TOOL_NAME
                         THEN Append(found, b) ELSE found
  IN  FoldLeft(match, <<>>, body.content)

input_code(input) ==
  IF input.siblings # {} \/ input.action.kind # "str" THEN "semantic-field-invalid"
  ELSE IF \E v \in ParamValues(input) : v.kind = "float" THEN "non-canon-command"
  ELSE IF ~Known(input.action) THEN "unknown-action"
  ELSE IF \/ DOMAIN input.params # PARAM_SCHEMA[input.action.str]
          \/ \E k \in DOMAIN input.params : ~Conforms(k, input.params[k])
       THEN "params-schema-mismatch"
  ELSE None

reject_code(body) ==
  IF ~body.list THEN "malformed-bytes"
  ELSE LET blocks == ToolUses(body)
       IN  IF blocks = <<>> THEN "no-command"
           ELSE IF Len(blocks) > 1 THEN "ambiguous-command"
           ELSE input_code(blocks[1].input)

\* The response a body stands for: what is extracted, and whether text is left.
extract_command(body) ==
  LET code  == reject_code(body)
      input == ToolUses(body)[1].input
  IN  [ reject   |-> code,
        action   |-> IF code = None THEN input.action.str ELSE None,
        route    |-> IF code = None THEN input.params["route"].str ELSE NoRoute,
        quantity |-> IF code = None /\ "quantity" \in DOMAIN input.params
                     THEN input.params["quantity"].num ELSE 0,
        prose    |-> contains_prose(body) # {} ]

-----------------------------------------------------------------------------
\* What a step is bound to of a response, and the strings of a command.
Reads(body) == LET r == extract_command(body) IN <<r.reject, r.action, r.route, r.quantity>>

Names == {TOOL_NAME} \cup DOMAIN PARAM_SCHEMA \cup Routes

\* The extractor makes the same of the committed bytes as of the provider's
\* (one command, the same, or the same reject); a command is never taken for
\* text; and bytes the scan passes hold no string but the names the game knows.
Faithful(body, kept) ==
  /\ Reads(kept) = Reads(body)
  /\ reject_code(kept) = None /\ Len(kept.content) = 1 => contains_prose(kept) = {}
  /\ kept.list /\ contains_prose(kept) = {} =>
       \A i \in DOMAIN kept.content : LET b == kept.content[i] IN
         Texts({b.input.action} \cup ParamValues(b.input) \cup b.input.siblings \cup b.siblings)
           \subseteq Names

EveryReply == \A body \in Replies : Faithful(body, redact(body))
=============================================================================
