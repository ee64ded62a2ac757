---------------------------- MODULE MCResources ----------------------------
(***************************************************************************)
(* Small maps and lists for modules ServiceResources and Generators.       *)
(***************************************************************************)
EXTENDS ServiceResources

OneLabel == {[instance |-> "op"]}

SomeAnnotations == {[owner |-> "a"], [owner |-> "b"]}

\* One port that a container may lack, and two of which it may have one.
SomePorts == {<<80>>, <<81, 80>>}

SomeContainerPorts == {<<80>>, <<81>>}

\* Labels of pod templates: none, the operation's, a key of its own, another
\* run's.
SomeTemplates ==
  {<<>>, [instance |-> "op"], [team |-> "a"], [instance |-> "other", name |-> "other"]}
=============================================================================
