------------------------------- MODULE Contexts -------------------------------
(***************************************************************************)
(* The fog-of-war context compiler, core/context_compiler.py: which items  *)
(* of a scenario's state files an agent is given.  A file is `unusable` or *)
(* a schema version and the sequence of its item ids; a partition is the   *)
(* public file and a function from the owners of private files to theirs.  *)
(***************************************************************************)
EXTENDS Naturals, Sequences, FiniteSets, SequencesExt

CONSTANTS
  Items,        \* the ids an item may have
  Partitions,   \* what may lie in a state directory
  AgentSets     \* the agent ids of a registry

Doc == [version : Nat, items : Seq(Items)]

ASSUME PartitionAssumption ==
  \A p \in Partitions :
    /\ p.public \in Doc
    /\ IsFiniteSet(DOMAIN p.private)
    /\ \A o \in DOMAIN p.private : p.private[o] \in Doc

Adjudicator == "adjudicator"
Unusable    == [version |-> 0, items |-> <<>>]   \* unreadable, or without items
FogError    == <<"FogError">>                    \* in place of a context

\* The public file, then the private ones (by name, an order left open here).
Files(p) == <<p.public>> \o [i \in 1..Cardinality(DOMAIN p.private) |->
                               p.private[SetToSeq(DOMAIN p.private)[i]]]
ItemsOf(files) == FlattenSeq([i \in DOMAIN files |-> files[i].items])

\* Mutant of load_partition: private items are compared with the public ones only.
load_partition_public_ids(p, agents) ==
  /\ Adjudicator \notin agents
  /\ DOMAIN p.private \subseteq agents \cup {Adjudicator}
  /\ \A i \in DOMAIN Files(p) : Files(p)[i] # Unusable
  /\ \A i, j \in DOMAIN Files(p) : Files(p)[i].version = Files(p)[j].version
  /\ \A o \in DOMAIN p.private : IsInjective(p.public.items \o p.private[o].items)

\* The partition loads; a FogError otherwise: a reserved name, an unowned or
\* unusable file, two schema versions, an item id that occurs twice anywhere.
load_partition(p, agents) ==
  /\ Adjudicator \notin agents
  /\ DOMAIN p.private \subseteq agents \cup {Adjudicator}
  /\ \A i \in DOMAIN Files(p) : Files(p)[i] # Unusable
  /\ \A i, j \in DOMAIN Files(p) : Files(p)[i].version = Files(p)[j].version
  /\ IsInjective(ItemsOf(Files(p)))

\* The public items, then an agent's own; the adjudicator gets every file.
compile_context(agent, p, agents) ==
  IF agent = Adjudicator THEN ItemsOf(Files(p))
  ELSE IF agent \notin agents THEN FogError
  ELSE p.public.items \o (IF agent \in DOMAIN p.private THEN p.private[agent].items ELSE <<>>)

compile_all(p, agents) ==
  [a \in agents \cup {Adjudicator} |-> compile_context(a, p, agents)]

-----------------------------------------------------------------------------
\* Whatever lies in the state directory, once it loads no agent is given an
\* item of another's private file, two agents share exactly the public items,
\* and the adjudicator is given every item of every file once.
OnlyOwnersSee(p, agents) ==
  LET all     == compile_all(p, agents)
      Sees(a) == ToSet(all[a])
  IN  /\ \A a \in agents, o \in DOMAIN p.private :
           a # o => Sees(a) \cap ToSet(p.private[o].items) = {}
      /\ \A a, b \in agents :
           a # b => Sees(a) \cap Sees(b) = ToSet(p.public.items)
      /\ IsInjective(all[Adjudicator])
      /\ Sees(Adjudicator)
           = ToSet(p.public.items) \cup UNION {ToSet(p.private[o].items) : o \in DOMAIN p.private}

EveryDirectory ==
  \A p \in Partitions, agents \in AgentSets : load_partition(p, agents) => OnlyOwnersSee(p, agents)
=============================================================================
