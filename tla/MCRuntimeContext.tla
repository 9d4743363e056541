-------------------------- MODULE MCRuntimeContext --------------------------
(* A small instance of RuntimeContext: three valid files that disagree on  *)
(* profiles, layers, default and initial layer, and two that the loader    *)
(* refuses. Layers carry no controls: the context never looks at them.     *)
EXTENDS RuntimeContext

CONSTANTS p, q

Layer(S) == [l \in S |-> <<>>]

BothProfiles ==
  [default |-> p, initial |-> 0,
   profiles |-> [x \in {p, q} |-> IF x = p THEN Layer({0, 1, 3}) ELSE Layer({0, 2})]]
OnlyFirst ==
  [default |-> p, initial |-> 3, profiles |-> [x \in {p} |-> Layer({0, 3})]]
OnlySecond ==   \* its initial layer is declared nowhere
  [default |-> q, initial |-> 1, profiles |-> [x \in {q} |-> Layer({0})]]
DefaultMissing ==
  [default |-> p, initial |-> 0, profiles |-> [x \in {q} |-> Layer({0})]]
GeneralMissing ==
  [default |-> p, initial |-> 1, profiles |-> [x \in {p} |-> Layer({1})]]

MCFiles == {BothProfiles, OnlyFirst, OnlySecond, DefaultMissing, GeneralMissing}
=============================================================================
