------------------------------ MODULE MCLifecycle ------------------------------
(***************************************************************************)
(* Instances of module Lifecycle for TLC.                                  *)
(***************************************************************************)
EXTENDS Lifecycle

(* A good environment, with the default URL and the seed, and each mistake *)
(* in one.                                                                 *)
Good == [seed |-> "true", url |-> "unset", secret |-> "set"]
Environments ==
    {Good, [Good EXCEPT !.seed = "junk"],
     [Good EXCEPT !.url = "empty"], [Good EXCEPT !.url = "junk"],
     [Good EXCEPT !.secret = "unset"], [Good EXCEPT !.secret = "empty"]}
==============================================================================
