--------------------------- MODULE MCDaemonRuntime ---------------------------
(* A small instance of DaemonRuntime: one control, layers general and      *)
(* layer_1, profiles p and q, two valid files that differ in all of these, *)
(* and one the loader refuses. Their actions cover every kind of step, a   *)
(* macro beyond its limits, and steps that fail.                           *)
EXTENDS DaemonRuntime, TLC

CONSTANTS p, q, k

Plan(s)    == [tooDeep |-> FALSE, steps |-> s]
TooDeep    == [tooDeep |-> TRUE, steps |-> <<>>]
Do(o)      == [op |-> o, arg |-> 0]
DoArg(o,a) == [op |-> o, arg |-> a]

Maps(a) == k :> a

FileA ==
  [default |-> p, initial |-> 0,
   profiles |->
     p :> (0 :> Maps(Plan(<<Do("next_layer"), Do("work")>>))
           @@ 1 :> Maps(Plan(<<DoArg("set_profile", q)>>)))
     @@ q :> (0 :> Maps(TooDeep))]

FileB ==
  [default |-> q, initial |-> 1,
   profiles |->
     q :> (0 :> Maps(Plan(<<DoArg("set_layer", 2)>>))
           @@ 1 :> Maps(Plan(<<Do("previous_layer"), DoArg("set_profile", p)>>)))]

FileBad == [default |-> p, initial |-> 0, profiles |-> q :> (0 :> Maps(Plan(<<>>)))]

MCFiles == {FileA, FileB, FileBad}
=============================================================================
