----------------------------- MODULE MCSubmission -----------------------------
(***************************************************************************)
(* Instances of module Submission for TLC.                                 *)
(***************************************************************************)
EXTENDS Submission, TLC

GoodBody(t) ==
    [f \in Field |-> CASE f = "envelope" -> "json"
                       [] f = "isPayed"  -> "true"
                       [] f = "typeId"   -> t
                       [] OTHER          -> "good"]

(* Bodies that are accepted, the second once white space is trimmed away   *)
(* and what is missing is filled in; their type may come and go.           *)
FewBodies ==
    UNION {{GoodBody(t),
            [f \in Field |-> CASE f \in {"phone", "organisationUrl"} -> "blank"
                              [] f \in TextField \ {"phone", "organisationUrl"} -> "padded"
                              [] f = "isPayed"   -> "absent"
                              [] OTHER           -> GoodBody(t)[f]]} : t \in Type}

(* One field off.                                                          *)
OddBodies ==
    LET t == CHOOSE x \in Type : TRUE IN
    UNION {{[GoodBody(t) EXCEPT ![f] = x] : x \in Values(f)} : f \in Field}

(* Accepted as well, but with U+0000 in each text that may hold it.        *)
NulBody(t) ==
    [f \in Field |-> IF f \in TextField /\ "nul" \in Text(f) THEN "nul" ELSE GoodBody(t)[f]]

(* Those, and bodies with one field that is not accepted.                  *)
Bodies ==
    LET t == CHOOSE x \in Type : TRUE
        Off(f) == {"long", "wrong", "nonPositive", "malformed", "oversize"}
                  \cup (IF f \in Required THEN {"absent", "blank"} ELSE {})
    IN
    FewBodies \cup {NulBody(t)}
    \cup UNION {{[GoodBody(t) EXCEPT ![f] = x] : x \in Values(f) \cap Off(f)} : f \in Field}

(* Clients differ by name only.                                            *)
Interchangeable == Permutations(Client)
==============================================================================
