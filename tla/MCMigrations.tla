---------------------------- MODULE MCMigrations ----------------------------
(* The instance of module Migrations for TLC: three boots, no symmetry,    *)
(* which liveness would not allow.                                         *)
EXTENDS Migrations
==============================================================================
