------------------------------ MODULE MCPipeline ------------------------------
(***************************************************************************)
(* An instance of Pipeline for TLC: the topology of client/src/main.cpp,   *)
(* what of it is there when calls are left out, and changes of it.         *)
(***************************************************************************)
EXTENDS Pipeline, TLC, FiniteSetsExt

Chain == {<<"input", "split", "shuffle">>, <<"split", "count", "field">>,
          <<"count", "print", "field">>}
Two == {<<"input", "split", "shuffle">>, <<"split", "count", "field">>,
        <<"input", "count", "field">>}
Backward == {<<"split", "split", "field">>, <<"print", "count", "field">>,
             <<"count", "input", "shuffle">>, <<"lost", "print", "field">>}
MCEdges == Chain \cup Two \cup Backward \cup
  {<<"split", "count", "shuffle">>, <<"input", "split", "default">>}
MCRunname == [input |-> "InputSpout", split |-> "SplitSentenceBolt",
              count |-> "WordCountBolt", print |-> "PrinterBolt"]
Long == << <<"b", "a">>, <<"a">> >>
Short == << <<"a">>, <<"a">> >>
One == << <<"a">> >>
MCFiles == {Long, Short, One}
MCHash == << >> :> 0 @@ <<"a">> :> 97 @@ <<"b">> :> 98 @@ <<"b", "a">> :> 195

\* A bound on the exploration: one spout, and what is started is the chain, the
\* chain's bolts with two parents for the word count, or any two calls without
\* a cycle; only these read the long file, or find an
\* empty line after the end of one of a line.
MCStarted ==
  /\ stored.spouts = {"input"}
  /\ \A b \in Known \ {"input"} : nodes[b].level = Min(Level)
  /\ LET es == {<<c[1], Edge(c)[1], Edge(c)[2]>> : c \in Calls} IN
     \/ es = Chain /\ file' = Short
     \/ es = Two /\ file' = Short
     \/ Cardinality(Calls) <= 2 /\ es \cap Backward = {} /\ file' \in {Long, One}
MCNext ==
  /\ Next
  /\ SpoutsAsked' \subseteq {"input"}
  /\ running' # running => MCStarted
MCSpec == PipelineInit /\ [][MCNext]_vars /\ Fairness
=============================================================================
