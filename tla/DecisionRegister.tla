--------------------------- MODULE DecisionRegister ---------------------------
(***************************************************************************)
(* What the decision endpoints promise, with no database, transaction or   *)
(* connection in sight: every application is a write-once register.        *)
(*                                                                         *)
(*   PENDING -> ACCEPTED and PENDING -> REJECTED are the only transitions. *)
(*   A decision takes effect in one instant after the call, or never.       *)
(*   "ok" is answered only by a call whose decision has taken effect.      *)
(*   "invalidState" is answered only if another call decided first.        *)
(*   "internal" promises nothing: the decision may have taken effect, may  *)
(*   take effect later, or may never do so.                                *)
(*   Any other answer is given by a call that will never take effect.      *)
(***************************************************************************)
EXTENDS ApplicationDomain

CONSTANTS Request,  \* the calls
          AppId,    \* the ids of applications
          PathId    \* the ids a call may name, a superset of AppId

VARIABLES row,       \* row[a]: the application a, or Absent
          call,      \* call[r]: the decision r asks for, or NoCall
          effective, \* the calls whose decision has taken effect
          answer     \* answer[r]: what r's client has been told

vars == <<row, call, effective, answer>>

NoCall == [id |-> "unparsable", row |-> Absent]
Refusal == {"unauthorized", "forbidden", "validation", "tooLarge", "notFound"}

Init ==
    /\ row = [a \in AppId |-> Absent]
    /\ call = [r \in Request |-> NoCall]
    /\ effective = {}
    /\ answer = [r \in Request |-> "none"]

(* An initiator's application is recorded. *)
Submit(a) ==
    /\ row[a] = Absent
    /\ row' = [row EXCEPT ![a] = Pending]
    /\ UNCHANGED <<call, effective, answer>>

(* An administrator asks for a decision. *)
Invoke(r) ==
    /\ call[r] = NoCall
    /\ \E a \in PathId, d \in Row : call' = [call EXCEPT ![r] = [id |-> a, row |-> d]]
    /\ UNCHANGED <<row, effective, answer>>

(* The decision of r takes effect; its client may have been answered       *)
(* "internal" before that, and nothing else.                               *)
Decide(r) ==
    /\ call[r] # NoCall
    /\ answer[r] \in {"none", "internal"}
    /\ call[r].id \in AppId
    /\ row[call[r].id] = Pending
    /\ Decided(call[r].row) /\ CheckConstraint(call[r].row)
    /\ row' = [row EXCEPT ![call[r].id] = call[r].row]
    /\ effective' = effective \cup {r}
    /\ UNCHANGED <<call, answer>>

(* The client of r is told the outcome, once. *)
Answer(r) ==
    /\ answer[r] = "none" /\ call[r] # NoCall
    /\ \/ r \in effective /\ answer' = [answer EXCEPT ![r] = "ok"]
       \/ /\ r \notin effective
          /\ \E s \in effective : call[s].id = call[r].id
          /\ answer' = [answer EXCEPT ![r] = "invalidState"]
       \/ answer' = [answer EXCEPT ![r] = "internal"]
       \/ /\ r \notin effective
          /\ \E e \in Refusal : answer' = [answer EXCEPT ![r] = e]
    /\ UNCHANGED <<row, call, effective>>

Next ==
    \/ \E a \in AppId : Submit(a)
    \/ \E r \in Request : Invoke(r) \/ Decide(r) \/ Answer(r)

Spec == Init /\ [][Next]_vars
==============================================================================
