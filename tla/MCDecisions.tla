----------------------------- MODULE MCDecisions -----------------------------
(***************************************************************************)
(* Instances of module Decisions for TLC.                                  *)
(***************************************************************************)
EXTENDS Decisions, TLC

(* One copy of the service serves every request.                           *)
OneInstance == [r \in Request |-> CHOOSE i \in Instance : TRUE]

(* Every copy of the service serves some request.                          *)
EachInstance ==
    CHOOSE h \in [Request -> Instance] : \A i \in Instance : \E r \in Request : h[r] = i

(* Requests differ by name only, when one instance serves them all or each *)
(* has one of its own.                                                     *)
Anyone == Permutations(Request)
==============================================================================
