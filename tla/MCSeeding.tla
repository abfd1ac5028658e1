------------------------------- MODULE MCSeeding -------------------------------
(***************************************************************************)
(* Instances of module Seeding for TLC.                                    *)
(***************************************************************************)
EXTENDS Seeding, TLC

(* Starts with the seed differ by name only.                               *)
Interchangeable == Permutations(Enabled)
==============================================================================
