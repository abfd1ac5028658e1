------------------------------- MODULE MCAccess -------------------------------
(***************************************************************************)
(* Instances of module Access for TLC.                                     *)
(***************************************************************************)
EXTENDS Access

(* A password that is wrong until an operator sets it, white space around  *)
(* what is right, no password, and bodies that do not decode.              *)
Attempts ==
    {[body |-> "json", login |-> "admin",  password |-> "user123"],
     [body |-> "json", login |-> "padded", password |-> "padded"],
     [body |-> "json", login |-> "admin",  password |-> "blank"],
     [body |-> "malformed", login |-> "blank", password |-> "blank"],
     [body |-> "oversize", login |-> "blank", password |-> "blank"]}
==============================================================================
