--------------------------- MODULE MCMatcherDita ---------------------------
(* DITA-map topics with one title: with and without ids and children, so   *)
(* that rows hold equal, near and distant scores; and on each side a       *)
(* heading that has nothing but its type in common with the other.  Ids    *)
(* are evidence in this run and settle nothing.                            *)
EXTENDS Matcher

Topic(pid, kids) ==
  [type |-> "topicref", pid |-> pid, label |-> 1, text |-> 1, kids |-> kids]

Topics == { Topic(NoValue, <<>>), Topic(NoValue, <<"topicref">>),
            Topic(1, <<>>), Topic(2, <<>>) }

Heading(title, kids) ==
  [type |-> "topichead", pid |-> NoValue, label |-> title, text |-> title, kids |-> kids]

MCSourceInputs == [Sources -> Topics \cup {Heading(1, <<>>)}]
MCTargetInputs == [Targets -> Topics \cup {Heading(2, <<"topicref">>)}]
=============================================================================
