-------------------------- MODULE SubmissionRegister --------------------------
(***************************************************************************)
(* What POST /project/application/external promises: each request is       *)
(* stored at most once, under an id of its own, and its client is told the *)
(* truth.  "ok" names the row; a refusal means that there is no row and    *)
(* never will be; "internal" leaves both open.                             *)
(***************************************************************************)
CONSTANT Request

VARIABLES
    asked,   \* asked[r]: the application that r's body stands for
    rows,    \* the stored applications: records [id, by, content]
    answer   \* answer[r]: what r's client was told, a record with kind and id

vars == <<asked, rows, answer>>

Refused == {"validation", "tooLarge"}

Init ==
    /\ DOMAIN asked = Request
    /\ rows = {}
    /\ DOMAIN answer = Request
    /\ \A r \in Request : answer[r].kind = "none"

(* The application of r takes effect, whoever has given up on it.          *)
Store(r) ==
    /\ answer[r].kind \in {"none", "internal"}
    /\ \A row \in rows : row.by # r
    /\ \E n \in {row.id : row \in rows'} :
          /\ \A row \in rows : row.id # n
          /\ rows' = rows \cup {[id |-> n, by |-> r, content |-> asked[r]]}
    /\ UNCHANGED <<asked, answer>>

(* The client of r is told the outcome, once.                              *)
Tell(r) ==
    /\ answer[r].kind = "none"
    /\ \E a \in {answer'[r]} :
          /\ \/ a.kind = "ok" /\ \E row \in rows : row.by = r /\ row.id = a.id
             \/ a.kind \in Refused /\ \A row \in rows : row.by # r
             \/ a.kind = "internal"
          /\ answer' = [answer EXCEPT ![r] = a]
    /\ UNCHANGED <<asked, rows>>

Next == \E r \in Request : Store(r) \/ Tell(r)

Spec == Init /\ [][Next]_vars
==============================================================================
