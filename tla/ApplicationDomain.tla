-------------------------- MODULE ApplicationDomain --------------------------
(***************************************************************************)
(* The vocabulary shared by the modules about external applications: the   *)
(* statuses and rows of table external_applications, the texts a client    *)
(* may send as a rejection reason, and the CHECK constraint of the table.  *)
(* A text is a member of a small set of classes; only what the code tells  *)
(* apart (blank, too long, surrounded by white space) is kept.             *)
(***************************************************************************)
EXTENDS Integers

(* SQL NULL in column rejection_reason. *)
NoReason == "NULL"

(* ExternalApplicationStatus: the three statuses of an application. *)
Status == {"PENDING", "ACCEPTED", "REJECTED"}

(* The body of a reject request, as decodeJSON and TrimSpace see it: a     *)
(* reason, the same reason inside white space, white space made of blanks  *)
(* or of tabs only, a reason of more than 750 bytes, one with U+0000, a    *)
(* body that is not one JSON object of the expected fields, and a body     *)
(* above 1 MiB.                                                            *)
BodyClass == {"reason", "padded", "spaces", "tabs", "long", "nul", "malformed", "oversize"}

(* strings.TrimSpace. *)
TrimSpace(text) ==
    CASE text = "padded"            -> "reason"
      [] text \in {"spaces", "tabs"} -> ""
      [] OTHER                      -> text

(* PostgreSQL's btrim(text): it strips blanks and no other white space. *)
Btrim(text) == IF text = "spaces" THEN "" ELSE text

(* What PostgreSQL takes for a text: no character of it is U+0000. *)
Storable(text) == text # "nul"

(* The value of column rejection_reason. *)
Reason == BodyClass \cup {NoReason, ""}

(* A row of external_applications; Absent stands for "no such row". *)
Absent  == [status |-> "ABSENT",  reason |-> NoReason]
Pending == [status |-> "PENDING", reason |-> NoReason]
Row == [status : Status, reason : Reason] \cup {Absent}

(* chk_external_applications_status_reason of migrations 002 and 003. *)
CheckConstraint(row) ==
    \/ row.status \in {"PENDING", "ACCEPTED"} /\ row.reason = NoReason
    \/ row.status = "REJECTED" /\ row.reason # NoReason /\ Btrim(row.reason) # ""

(* An application on which a decision has been taken. *)
Decided(row) == row.status \in {"ACCEPTED", "REJECTED"}
==============================================================================
