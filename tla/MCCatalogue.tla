----------------------------- MODULE MCCatalogue -----------------------------
(***************************************************************************)
(* Instances of module Catalogue for TLC.                                  *)
(***************************************************************************)
EXTENDS Catalogue

(* Criteria that fit every application, every application but one, and a   *)
(* projectTypeId that does not exist.                                      *)
Fits ==
    LET odd == CHOOSE a \in AppId : TRUE IN
    [c \in Criteria |-> CASE c = "everything" -> AppId
                          [] c = "some"       -> AppId \ {odd}
                          [] OTHER            -> {}]

(* Applications differ by name only, when all of them fit.                 *)
Interchangeable == Permutations(AppId)

Stamps == 1 .. 3
OddLimits == {-1, 1, 2, 3, Unset}
OddOffsets == {-1, 0, 1, Unset}
==============================================================================
