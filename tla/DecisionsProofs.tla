--------------------------- MODULE DecisionsProofs ---------------------------
(***************************************************************************)
(* Theorems about module Decisions, for any set of requests, instances,    *)
(* users and applications and any size of the connection pool.             *)
(***************************************************************************)
EXTENDS Decisions, FiniteSetTheorems, TLAPS

(* What a request asks to be written is a row.                             *)
LEMMA DecisionType ==
    ASSUME NEW q \in Query \cup {NoQuery}
    PROVE  Decision(q) \in Row
<1>1. CASE q.op = "accept"
  BY <1>1 DEF Decision, Row, Status, Reason
<1>2. CASE q.op = "reject" /\ q.body \in BodyClass
  <2>1. TrimSpace(q.body) \in Reason
    BY <1>2 DEF TrimSpace, BodyClass, Reason
  <2> QED
    BY <1>2, <2>1 DEF Decision, Row, Status
<1>3. CASE q = NoQuery
  BY <1>3 DEF NoQuery, Decision, Row
<1> QED
  BY <1>1, <1>2, <1>3, BodyAssumption DEF Query

(* The prechecks of the handler and the service have few outcomes.         *)
LEMMA PrecheckType ==
    ASSUME NEW q \in Query, NEW actor \in Role
    PROVE  Precheck(q, actor) \in {"ok", "validation", "tooLarge", "forbidden"}
BY DEF Precheck

(* A request that passes the prechecks comes from an administrator, names  *)
(* an application and asks for a decision that the constraint accepts.     *)
LEMMA PrecheckOk ==
    ASSUME NEW q \in Query, NEW actor \in Role,
           q.id # "unparsable", Precheck(q, actor) = "ok"
    PROVE  /\ actor = "ADMIN"
           /\ q.id \in AppId
           /\ Decided(Decision(q)) /\ CheckConstraint(Decision(q))
           /\ Explained(Decision(q))
<1>1. actor = "ADMIN" /\ q.id # "nonPositive"
  BY DEF Precheck
<1>2. q.id \in AppId
  BY <1>1, PathIdAssumption DEF Query, BadId
<1>3. /\ Decided(Decision(q)) /\ CheckConstraint(Decision(q))
      /\ Explained(Decision(q))
  <2>1. CASE q.op = "accept"
    BY <2>1 DEF Decision, Decided, CheckConstraint, Explained, NoReason
  <2>2. CASE q.op = "reject"
    <3> DEFINE reason == TrimSpace(q.body)
    <3>1. reason \notin {"", "long"} /\ q.body \in BodyClass
      BY <2>2, BodyAssumption DEF Precheck, Query
    <3>2. reason \in BodyClass /\ Btrim(reason) # "" /\ TrimSpace(reason) = reason
      BY <3>1 DEF TrimSpace, Btrim, BodyClass
    <3> HIDE DEF reason
    <3>3. Decision(q) = [status |-> "REJECTED", reason |-> reason]
      BY <2>2 DEF Decision, reason
    <3>4. reason # NoReason
      BY <3>2 DEF NoReason, BodyClass
    <3>5. Decision(q).status = "REJECTED" /\ Decision(q).reason = reason
      BY <3>3
    <3>6. Explained(Decision(q))
      BY <3>1, <3>2, <3>4, <3>5 DEF Explained
    <3>7. Decided(Decision(q)) /\ CheckConstraint(Decision(q))
      BY <3>2, <3>4, <3>5 DEF Decided, CheckConstraint
    <3> QED
      BY <3>6, <3>7
  <2> QED
    BY <2>1, <2>2 DEF Query
<1> QED
  BY <1>1, <1>2, <1>3

(* The initial states satisfy the invariant.                               *)
LEMMA InitInv == Init => DecisionInv
<1> SUFFICES ASSUME Init PROVE DecisionInv
  OBVIOUS
<1> USE DEF Init
<1>1. TypeOK
  BY DEF TypeOK, Row, PC, Role, Outcome
<1>2. PhaseInv
  BY DEF PhaseInv
<1>3. RequestInv
  BY DEF RequestInv, InFlight
<1>4. LockInv /\ TableInv
  BY DEF LockInv, TableInv
<1>5. ResultInv /\ SingleDecision /\ RefusalMeansDecided
  BY DEF ResultInv, SingleDecision, RefusalMeansDecided
<1> QED
  BY <1>1, <1>2, <1>3, <1>4, <1>5 DEF DecisionInv

(* NoQuery is told from every query of a client by its op.                 *)
LEMMA NoQueryIsNew == NoQuery \notin Query
BY DEF NoQuery, Query

(* A request that has arrived holds a query; the owner of its token, if it *)
(* has one, is a user.                                                     *)
LEMMA QueryOf ==
    ASSUME DecisionInv, NEW r \in Request, pc[r] # "idle"
    PROVE  /\ req[r] \in Query
           /\ req[r].user \in User \cup {NoUser}
<1>1. req[r] \in Query
  BY DEF DecisionInv, TypeOK, PhaseInv
<1> QED
  BY <1>1, TokenAssumption DEF Query

(* The three kinds of rows, and how to tell them apart.                    *)
LEMMA RowKinds ==
    /\ Absent \in Row /\ Absent.status = "ABSENT" /\ ~Decided(Absent)
    /\ Pending \in Row /\ Pending.status = "PENDING" /\ ~Decided(Pending)
    /\ Absent # Pending
    /\ \A row \in Row \ {Absent} : row.status \in Status
<1>1. Absent \in Row /\ Pending \in Row
  BY DEF Absent, Pending, Row, Status, Reason
<1>2. /\ Absent.status = "ABSENT" /\ ~Decided(Absent)
      /\ Pending.status = "PENDING" /\ ~Decided(Pending)
  BY DEF Absent, Pending, Decided
<1>3. \A row \in Row \ {Absent} : row.status \in Status
  BY DEF Absent, Row
<1> QED
  BY <1>1, <1>2, <1>3

(* A row that is neither missing nor PENDING is the decision of a request  *)
(* that has committed.                                                     *)
LEMMA TableShape ==
    ASSUME DecisionInv, NEW a \in AppId
    PROVE  \/ table[a] \in {Absent, Pending}
           \/ /\ Decided(table[a])
              /\ \E r \in Request : tx[r] = "committed" /\ req[r].id = a
BY DEF DecisionInv, TableInv, RequestInv

-----------------------------------------------------------------------------
(* Each action preserves the invariant.                                    *)

(* A row inserted by an initiator had no decision and no lock to lose.     *)
LEMMA CreateStep ==
    ASSUME DecisionInv, NEW a \in AppId, Create(a)
    PROVE  DecisionInv'
<1> USE DEF DecisionInv
<1>1. TypeOK'
  BY RowKinds DEF Create, client, TypeOK
<1>2. PhaseInv'
  BY DEF Create, client, PhaseInv
<1>3. RequestInv'
  BY DEF Create, client, RequestInv, InFlight
<1>4. LockInv'
  BY RowKinds DEF Create, client, LockInv
<1>5. TableInv'
  BY RowKinds DEF Create, client, RequestInv, TableInv
<1>6. ResultInv'
  BY DEF Create, client, ResultInv
<1>7. SingleDecision'
  BY DEF Create, client, SingleDecision
<1>8. RefusalMeansDecided'
  BY DEF Create, client, RefusalMeansDecided
<1> QED
  BY <1>1, <1>2, <1>3, <1>4, <1>5, <1>6, <1>7, <1>8

(* A role change touches nothing that a transaction relies on.             *)
LEMMA ChangeRoleStep ==
    ASSUME DecisionInv, NEW u \in User, ChangeRole(u)
    PROVE  DecisionInv'
<1> USE DEF DecisionInv
<1>1. TypeOK'
  BY DEF ChangeRole, server, client, TypeOK
<1>2. PhaseInv'
  BY DEF ChangeRole, server, client, PhaseInv
<1>3. RequestInv'
  BY DEF ChangeRole, server, client, RequestInv, InFlight
<1>4. LockInv'
  BY DEF ChangeRole, server, client, LockInv
<1>5. TableInv'
  BY DEF ChangeRole, server, client, TableInv
<1>6. ResultInv'
  BY DEF ChangeRole, server, client, ResultInv
<1>7. SingleDecision'
  BY DEF ChangeRole, server, client, SingleDecision
<1>8. RefusalMeansDecided'
  BY DEF ChangeRole, server, client, RefusalMeansDecided
<1> QED
  BY <1>1, <1>2, <1>3, <1>4, <1>5, <1>6, <1>7, <1>8

(* A request that arrives has no transaction yet.                          *)
LEMMA ArriveStep ==
    ASSUME DecisionInv, NEW r \in Request, Arrive(r)
    PROVE  DecisionInv'
<1> USE DEF DecisionInv
<1>1. TypeOK'
  BY DEF Arrive, Goto, server, TypeOK, PC
<1>2. PhaseInv'
  BY NoQueryIsNew DEF Arrive, Goto, server, TypeOK, PhaseInv
<1>3. RequestInv'
  BY TokenAssumption DEF Arrive, Goto, server, TypeOK, PhaseInv, RequestInv, InFlight
<1>4. LockInv'
  BY DEF Arrive, Goto, server, PhaseInv, LockInv
<1>5. TableInv'
  BY DEF Arrive, server, PhaseInv, TableInv
<1>6. ResultInv'
  BY DEF Arrive, Goto, server, ResultInv
<1>7. SingleDecision'
  BY DEF Arrive, server, PhaseInv, SingleDecision
<1>8. RefusalMeansDecided'
  BY DEF Arrive, server, PhaseInv, ResultInv, RefusalMeansDecided
<1> QED
  BY <1>1, <1>2, <1>3, <1>4, <1>5, <1>6, <1>7, <1>8

(* A path that does not bind is refused before any transaction.            *)
LEMMA RejectPathStep ==
    ASSUME DecisionInv, NEW r \in Request, RejectPath(r)
    PROVE  DecisionInv'
<1> USE DEF DecisionInv
<1>1. TypeOK'
  BY DEF RejectPath, Reply, Goto, server, TypeOK, PC, Outcome
<1>2. PhaseInv'
  BY DEF RejectPath, Reply, Goto, server, PhaseInv
<1>3. RequestInv'
  BY DEF RejectPath, Reply, Goto, server, RequestInv, InFlight
<1>4. LockInv'
  BY DEF RejectPath, Reply, Goto, server, LockInv
<1>5. TableInv'
  BY DEF RejectPath, server, TableInv
<1>6. ResultInv'
  BY DEF RejectPath, Reply, Goto, server, TypeOK, PhaseInv, ResultInv
<1>7. SingleDecision'
  BY DEF RejectPath, server, SingleDecision
<1>8. RefusalMeansDecided'
  BY DEF RejectPath, Reply, server, RefusalMeansDecided
<1> QED
  BY <1>1, <1>2, <1>3, <1>4, <1>5, <1>6, <1>7, <1>8

(* A bad token is refused before any transaction.                          *)
LEMMA RejectTokenStep ==
    ASSUME DecisionInv, NEW r \in Request, RejectToken(r)
    PROVE  DecisionInv'
<1> USE DEF DecisionInv
<1>1. TypeOK'
  BY DEF RejectToken, Reply, Goto, server, TypeOK, PC, Outcome
<1>2. PhaseInv'
  BY DEF RejectToken, Reply, Goto, server, PhaseInv
<1>3. RequestInv'
  BY DEF RejectToken, Reply, Goto, server, RequestInv, InFlight
<1>4. LockInv'
  BY DEF RejectToken, Reply, Goto, server, LockInv
<1>5. TableInv'
  BY DEF RejectToken, server, TableInv
<1>6. ResultInv'
  BY DEF RejectToken, Reply, Goto, server, TypeOK, PhaseInv, ResultInv
<1>7. SingleDecision'
  BY DEF RejectToken, server, SingleDecision
<1>8. RefusalMeansDecided'
  BY DEF RejectToken, Reply, server, RefusalMeansDecided
<1> QED
  BY <1>1, <1>2, <1>3, <1>4, <1>5, <1>6, <1>7, <1>8

(* An actor let through by withAdmin is an administrator now.              *)
LEMMA LoadActorStep ==
    ASSUME DecisionInv, NEW r \in Request, LoadActor(r)
    PROVE  DecisionInv'
<1> USE DEF DecisionInv
<1>1. TypeOK'
  BY QueryOf DEF LoadActor, Reply, Goto, server, TypeOK, PC, Outcome
<1>2. PhaseInv'
  BY DEF LoadActor, Reply, Goto, server, TypeOK, PhaseInv
<1>3. RequestInv'
  BY QueryOf DEF LoadActor, Reply, Goto, server, TypeOK, RequestInv, InFlight
<1>4. LockInv'
  BY DEF LoadActor, Reply, Goto, server, TypeOK, LockInv
<1>5. TableInv'
  BY DEF LoadActor, server, TableInv
<1>6. ResultInv'
  BY DEF LoadActor, Reply, Goto, server, TypeOK, PhaseInv, ResultInv
<1>7. SingleDecision'
  BY DEF LoadActor, server, SingleDecision
<1>8. RefusalMeansDecided'
  BY DEF LoadActor, Reply, server, TypeOK, RefusalMeansDecided
<1> QED
  BY <1>1, <1>2, <1>3, <1>4, <1>5, <1>6, <1>7, <1>8

(* A failed read of the user is answered before any transaction.           *)
LEMMA LoadActorFailsStep ==
    ASSUME DecisionInv, NEW r \in Request, LoadActorFails(r)
    PROVE  DecisionInv'
<1> USE DEF DecisionInv
<1>1. TypeOK'
  BY DEF LoadActorFails, Reply, Goto, server, TypeOK, PC, Outcome
<1>2. PhaseInv'
  BY DEF LoadActorFails, Reply, Goto, server, PhaseInv
<1>3. RequestInv'
  BY DEF LoadActorFails, Reply, Goto, server, RequestInv, InFlight
<1>4. LockInv'
  BY DEF LoadActorFails, Reply, Goto, server, LockInv
<1>5. TableInv'
  BY DEF LoadActorFails, server, TableInv
<1>6. ResultInv'
  BY DEF LoadActorFails, Reply, Goto, server, TypeOK, ResultInv
<1>7. SingleDecision'
  BY DEF LoadActorFails, server, SingleDecision
<1>8. RefusalMeansDecided'
  BY DEF LoadActorFails, Reply, server, RefusalMeansDecided
<1> QED
  BY <1>1, <1>2, <1>3, <1>4, <1>5, <1>6, <1>7, <1>8

(* The prechecks make a request fit for the transaction.                   *)
LEMMA HandleStep ==
    ASSUME DecisionInv, NEW r \in Request, Handle(r)
    PROVE  DecisionInv'
<1> USE DEF DecisionInv
<1> DEFINE error == Precheck(req[r], role[r])
<1>1. error \in {"ok", "validation", "tooLarge", "forbidden"}
  BY QueryOf, PrecheckType DEF Handle, TypeOK
<1>2. error = "ok" => /\ r \in admins
                      /\ req[r].id \in AppId
                      /\ Decided(Decision(req[r])) /\ CheckConstraint(Decision(req[r]))
                      /\ Explained(Decision(req[r]))
  BY QueryOf, PrecheckOk DEF Handle, TypeOK, RequestInv
<1>3. TypeOK'
  BY <1>1 DEF Handle, Reply, Goto, server, TypeOK, PC, Outcome
<1>4. PhaseInv'
  BY DEF Handle, Reply, Goto, server, TypeOK, PhaseInv
<1>5. RequestInv'
  BY <1>2 DEF Handle, Reply, Goto, server, TypeOK, RequestInv, InFlight
<1>6. LockInv'
  BY DEF Handle, Reply, Goto, server, TypeOK, LockInv
<1>7. TableInv'
  BY DEF Handle, server, TableInv
<1>8. ResultInv'
  BY <1>1 DEF Handle, Reply, Goto, server, TypeOK, PhaseInv, ResultInv
<1>9. SingleDecision' /\ RefusalMeansDecided'
  BY <1>1 DEF Handle, Reply, server, TypeOK, SingleDecision, RefusalMeansDecided
<1> QED
  BY <1>3, <1>4, <1>5, <1>6, <1>7, <1>8, <1>9


(* A transaction that begins has neither lock nor effect.                  *)
LEMMA BeginTxStep ==
    ASSUME DecisionInv, NEW r \in Request, BeginTx(r)
    PROVE  DecisionInv'
<1> USE DEF DecisionInv
<1>1. TypeOK'
  BY DEF BeginTx, Goto, TypeOK, PC
<1>2. PhaseInv'
  BY DEF BeginTx, Goto, TypeOK, PhaseInv
<1>3. RequestInv'
  BY DEF BeginTx, Goto, RequestInv, InFlight
<1>4. LockInv'
  BY DEF BeginTx, Goto, LockInv
<1>5. TableInv'
  BY DEF BeginTx, PhaseInv, TableInv
<1>6. ResultInv'
  BY DEF BeginTx, Goto, ResultInv
<1>7. SingleDecision'
  BY DEF BeginTx, SingleDecision
<1>8. RefusalMeansDecided'
  BY DEF BeginTx, PhaseInv, RefusalMeansDecided
<1> QED
  BY <1>1, <1>2, <1>3, <1>4, <1>5, <1>6, <1>7, <1>8

(* A transaction that does not begin has no effect.                        *)
LEMMA BeginTxFailsStep ==
    ASSUME DecisionInv, NEW r \in Request, BeginTxFails(r)
    PROVE  DecisionInv'
<1> USE DEF DecisionInv
<1>1. TypeOK'
  BY DEF BeginTxFails, Reply, Goto, server, TypeOK, PC, Outcome
<1>2. PhaseInv'
  BY DEF BeginTxFails, Reply, Goto, server, PhaseInv
<1>3. RequestInv'
  BY DEF BeginTxFails, Reply, Goto, server, RequestInv, InFlight
<1>4. LockInv'
  BY DEF BeginTxFails, Reply, Goto, server, LockInv
<1>5. TableInv'
  BY DEF BeginTxFails, server, TableInv
<1>6. ResultInv'
  BY DEF BeginTxFails, Reply, Goto, server, TypeOK, ResultInv
<1>7. SingleDecision'
  BY DEF BeginTxFails, server, SingleDecision
<1>8. RefusalMeansDecided'
  BY DEF BeginTxFails, Reply, server, RefusalMeansDecided
<1> QED
  BY <1>1, <1>2, <1>3, <1>4, <1>5, <1>6, <1>7, <1>8

(* The row lock makes what is read hold until the transaction ends.        *)
LEMMA SelectForUpdateStep ==
    ASSUME DecisionInv, NEW r \in Request, SelectForUpdate(r)
    PROVE  DecisionInv'
<1> USE DEF DecisionInv
<1>1. TypeOK'
  <2>1. req[r].id \in AppId
    BY DEF SelectForUpdate, RequestInv
  <2>2. table[req[r].id] # Absent => table[req[r].id].status \in Status
    BY <2>1, RowKinds DEF TypeOK
  <2> QED
    BY <2>1, <2>2 DEF SelectForUpdate, Fail, Goto, TypeOK, PC, Outcome
<1>2. PhaseInv'
  BY DEF SelectForUpdate, Fail, Goto, TypeOK, PhaseInv
<1>3. RequestInv'
  BY DEF SelectForUpdate, Fail, Goto, TypeOK, RequestInv, InFlight
<1>4. LockInv'
  <2> DEFINE a == req[r].id
  <2>1. a \in AppId
    BY DEF SelectForUpdate, RequestInv
  <2>2. CASE table[a] = Absent /\ Fail(r, "notFound") /\ UNCHANGED <<lock, seen>>
    BY <2>2 DEF SelectForUpdate, Fail, Goto, LockInv
  <2>3. CASE /\ table[a] # Absent /\ lock[a] = NoRequest
             /\ lock' = [lock EXCEPT ![a] = r]
             /\ seen' = [seen EXCEPT ![r] = table[a].status]
             /\ Goto(r, "update")
    <3>1. \A s \in Request \ {r} :
              (pc[s] \in {"update", "commit"} /\ tx[s] = "open") \/ tx[s] = "commitSent" =>
                  lock'[req[s].id] = lock[req[s].id]
      BY <2>1, <2>3, NoRequestAssumption DEF TypeOK, LockInv
    <3>2. seen'[r] # "PENDING" => Decided(table[a])
      BY <2>1, <2>3, TableShape, RowKinds DEF TypeOK
    <3> QED
      BY <2>1, <2>3, <3>1, <3>2 DEF SelectForUpdate, Goto, TypeOK, LockInv
  <2> QED
    BY <2>2, <2>3 DEF SelectForUpdate
<1>5. TableInv'
  BY DEF SelectForUpdate, TableInv
<1>6. ResultInv'
  BY DEF SelectForUpdate, Fail, Goto, Live, TypeOK, ResultInv
<1>7. SingleDecision'
  BY DEF SelectForUpdate, SingleDecision
<1>8. RefusalMeansDecided'
  BY DEF SelectForUpdate, Fail, TypeOK, RefusalMeansDecided
<1> QED
  BY <1>1, <1>2, <1>3, <1>4, <1>5, <1>6, <1>7, <1>8

(* A status other than PENDING is the work of another request.             *)
LEMMA RefuseDecidedStep ==
    ASSUME DecisionInv, NEW r \in Request, RefuseDecided(r)
    PROVE  DecisionInv'
<1> USE DEF DecisionInv
<1>1. TypeOK'
  BY DEF RefuseDecided, Fail, Goto, server, TypeOK, PC, Outcome
<1>2. PhaseInv'
  BY DEF RefuseDecided, Fail, Goto, server, PhaseInv
<1>3. RequestInv'
  BY DEF RefuseDecided, Fail, Goto, server, RequestInv, InFlight
<1>4. LockInv'
  BY DEF RefuseDecided, Fail, Goto, server, LockInv
<1>5. TableInv'
  BY DEF RefuseDecided, server, TableInv
<1>6. ResultInv'
  BY DEF RefuseDecided, Fail, Goto, server, TypeOK, PhaseInv, ResultInv
<1>7. SingleDecision'
  BY DEF RefuseDecided, server, SingleDecision
<1>8. RefusalMeansDecided'
  <2>1. \E s \in Request \ {r} : tx[s] = "committed" /\ req[s].id = req[r].id
    <3>1. Decided(table[req[r].id]) /\ req[r].id \in AppId /\ tx[r] # "committed"
      BY DEF RefuseDecided, PhaseInv, RequestInv, LockInv
    <3> QED
      BY <3>1, TableShape, RowKinds
  <2> QED
    BY <2>1 DEF RefuseDecided, Fail, server, RefusalMeansDecided
<1> QED
  BY <1>1, <1>2, <1>3, <1>4, <1>5, <1>6, <1>7, <1>8

(* The status read under the lock is still that of the row.                *)
LEMMA UpdateStep ==
    ASSUME DecisionInv, NEW r \in Request, Update(r)
    PROVE  DecisionInv'
<1> USE DEF DecisionInv
<1>1. TypeOK'
  BY DEF Update, UpdateOutcome, Fail, Goto, Unlock, TypeOK, PC, Outcome
<1>2. PhaseInv'
  BY DEF Update, Fail, Goto, TypeOK, PhaseInv
<1>3. RequestInv'
  BY DEF Update, Fail, Goto, TypeOK, RequestInv, InFlight
<1>4. LockInv'
  <2>1. /\ pc[r] = "update" /\ tx[r] = "open" /\ seen[r] = "PENDING"
        /\ UNCHANGED <<users, table, req, role, seen, conn, admins>>
        /\ req[r].id \in AppId
        /\ lock[req[r].id] = r /\ seen[r] = table[req[r].id].status
    BY DEF Update, Live, RequestInv, LockInv
  <2>2. CASE UpdateOutcome(r) = "ok"
    <3>1. table[req[r].id] = Pending
      BY <2>1, TableShape, RowKinds DEF TypeOK, Decided
    <3> QED  BY <2>1, <2>2, <3>1 DEF Update, Goto, TypeOK, LockInv
  <2>3. CASE UpdateOutcome(r) \in {"constraint", "internal"}
    BY <2>1, <2>3 DEF Update, Fail, Goto, Unlock, TypeOK, RequestInv, LockInv
  <2>4. CASE UpdateOutcome(r) = "notFound"
    BY <2>1, <2>4 DEF Update, Fail, Goto, TypeOK, LockInv
  <2> QED  BY <2>2, <2>3, <2>4 DEF UpdateOutcome
<1>5. TableInv'
  BY DEF Update, Live, TypeOK, TableInv
<1>6. ResultInv'
  BY DEF Update, UpdateOutcome, Fail, Goto, Live, TypeOK, RequestInv, ResultInv
<1>7. SingleDecision'
  BY DEF Update, TypeOK, SingleDecision
<1>8. RefusalMeansDecided'
  BY DEF Update, UpdateOutcome, Fail, Live, TypeOK, RefusalMeansDecided
<1> QED
  BY <1>1, <1>2, <1>3, <1>4, <1>5, <1>6, <1>7, <1>8

(* A failed statement leaves the lock to PostgreSQL or gives it back.      *)
LEMMA StatementFailsStep ==
    ASSUME DecisionInv, NEW r \in Request, StatementFails(r)
    PROVE  DecisionInv'
<1> USE DEF DecisionInv
<1>1. TypeOK'
  BY DEF StatementFails, Fail, Goto, Unlock, TypeOK, PC, Outcome
<1>2. PhaseInv'
  BY DEF StatementFails, Fail, Goto, TypeOK, PhaseInv
<1>3. RequestInv'
  BY DEF StatementFails, Fail, Goto, TypeOK, RequestInv, InFlight
<1>4. LockInv'
  <2> DEFINE a == req[r].id
  <2>1. a \in AppId
    BY DEF StatementFails, RequestInv
  <2>2. pc' = [pc EXCEPT ![r] = "rollback"] /\ UNCHANGED <<table, req, seen>>
    BY DEF StatementFails, Fail, Goto
  <2>3. CASE tx' = [tx EXCEPT ![r] = "aborted"] /\ Unlock(r)
    BY <2>2, <2>3 DEF Unlock, TypeOK, RequestInv, LockInv
  <2>4. CASE UNCHANGED <<tx, lock>>
    BY <2>2, <2>4 DEF StatementFails, LockInv
  <2>5. CASE UNCHANGED tx /\ lock[a] = NoRequest /\ lock' = [lock EXCEPT ![a] = r]
    <3>1. \A s \in Request \ {r} :
              (pc[s] \in {"update", "commit"} /\ tx[s] = "open") \/ tx[s] = "commitSent" =>
                  lock'[req[s].id] = lock[req[s].id]
      BY <2>1, <2>5, NoRequestAssumption DEF TypeOK, LockInv
    <3> QED
      BY <2>2, <2>5, <3>1 DEF StatementFails, LockInv
  <2> QED
    BY <2>3, <2>4, <2>5 DEF StatementFails
<1>5. TableInv'
  BY DEF StatementFails, TypeOK, PhaseInv, TableInv
<1>6. ResultInv'
  BY DEF StatementFails, Fail, Goto, TypeOK, ResultInv
<1>7. SingleDecision'
  BY DEF StatementFails, TypeOK, SingleDecision
<1>8. RefusalMeansDecided'
  BY DEF StatementFails, Fail, TypeOK, PhaseInv, RefusalMeansDecided
<1> QED
  BY <1>1, <1>2, <1>3, <1>4, <1>5, <1>6, <1>7, <1>8

(* A commit is sent under the lock of a row that is PENDING.               *)
LEMMA SendCommitStep ==
    ASSUME DecisionInv, NEW r \in Request, SendCommit(r)
    PROVE  DecisionInv'
<1> USE DEF DecisionInv
<1>1. TypeOK'
  BY DEF SendCommit, Goto, TypeOK, PC
<1>2. PhaseInv'
  BY DEF SendCommit, Goto, TypeOK, PhaseInv
<1>3. RequestInv'
  BY DEF SendCommit, Goto, RequestInv, InFlight
<1>4. LockInv'
  BY DEF SendCommit, Goto, Live, LockInv
<1>5. TableInv'
  BY DEF SendCommit, Live, TableInv
<1>6. ResultInv'
  BY DEF SendCommit, Goto, ResultInv
<1>7. SingleDecision'
  BY DEF SendCommit, SingleDecision
<1>8. RefusalMeansDecided'
  BY DEF SendCommit, Live, RefusalMeansDecided
<1> QED
  BY <1>1, <1>2, <1>3, <1>4, <1>5, <1>6, <1>7, <1>8

(* An acknowledged commit has been applied.                                *)
LEMMA CommitAckedStep ==
    ASSUME DecisionInv, NEW r \in Request, CommitAcked(r)
    PROVE  DecisionInv'
<1> USE DEF DecisionInv
<1>1. TypeOK'
  BY DEF CommitAcked, Reply, Goto, server, TypeOK, PC, Outcome
<1>2. PhaseInv'
  BY DEF CommitAcked, Reply, Goto, server, PhaseInv
<1>3. RequestInv'
  BY DEF CommitAcked, Reply, Goto, server, RequestInv, InFlight
<1>4. LockInv'
  BY DEF CommitAcked, Reply, Goto, server, LockInv
<1>5. TableInv'
  BY DEF CommitAcked, server, TableInv
<1>6. ResultInv'
  BY DEF CommitAcked, Reply, Goto, server, TypeOK, ResultInv
<1>7. SingleDecision'
  BY DEF CommitAcked, server, SingleDecision
<1>8. RefusalMeansDecided'
  BY DEF CommitAcked, Reply, server, RefusalMeansDecided
<1> QED
  BY <1>1, <1>2, <1>3, <1>4, <1>5, <1>6, <1>7, <1>8

(* A commit that fails claims nothing.                                     *)
LEMMA CommitFailsStep ==
    ASSUME DecisionInv, NEW r \in Request, CommitFails(r)
    PROVE  DecisionInv'
<1> USE DEF DecisionInv
<1>1. TypeOK'
  BY DEF CommitFails, Reply, Goto, server, TypeOK, PC, Outcome
<1>2. PhaseInv'
  BY DEF CommitFails, Reply, Goto, server, PhaseInv
<1>3. RequestInv'
  BY DEF CommitFails, Reply, Goto, server, RequestInv, InFlight
<1>4. LockInv'
  BY DEF CommitFails, Reply, Goto, server, LockInv
<1>5. TableInv'
  BY DEF CommitFails, server, TableInv
<1>6. ResultInv'
  BY DEF CommitFails, Reply, Goto, server, TypeOK, ResultInv
<1>7. SingleDecision'
  BY DEF CommitFails, server, SingleDecision
<1>8. RefusalMeansDecided'
  BY DEF CommitFails, Reply, server, RefusalMeansDecided
<1> QED
  BY <1>1, <1>2, <1>3, <1>4, <1>5, <1>6, <1>7, <1>8

(* A rollback, done or lost, commits nothing.                              *)
LEMMA RollbackStep ==
    ASSUME DecisionInv, NEW r \in Request, Rollback(r)
    PROVE  DecisionInv'
<1> USE DEF DecisionInv
<1>1. TypeOK'
  BY DEF Rollback, Goto, Unlock, TypeOK, PC
<1>2. PhaseInv'
  BY DEF Rollback, Goto, TypeOK, PhaseInv
<1>3. RequestInv'
  BY DEF Rollback, Goto, TypeOK, PhaseInv, RequestInv, InFlight
<1>4. LockInv'
  BY DEF Rollback, Goto, Unlock, TypeOK, RequestInv, LockInv
<1>5. TableInv'
  BY DEF Rollback, TypeOK, PhaseInv, TableInv
<1>6. ResultInv'
  BY DEF Rollback, Goto, TypeOK, ResultInv
<1>7. SingleDecision'
  BY DEF Rollback, TypeOK, SingleDecision
<1>8. RefusalMeansDecided'
  BY DEF Rollback, TypeOK, PhaseInv, RefusalMeansDecided
<1> QED
  BY <1>1, <1>2, <1>3, <1>4, <1>5, <1>6, <1>7, <1>8

(* PostgreSQL applies a commit and with it releases the row.               *)
LEMMA ServerCommitStep ==
    ASSUME DecisionInv, NEW r \in Request, ServerCommit(r)
    PROVE  DecisionInv'
<1> USE DEF DecisionInv
<1>1. TypeOK'
  BY DecisionType DEF ServerCommit, Unlock, client, TypeOK
<1>2. PhaseInv'
  BY DEF ServerCommit, client, PhaseInv
<1>3. RequestInv'
  BY DEF ServerCommit, client, RequestInv, InFlight
<1>4. LockInv'
  BY DEF ServerCommit, Unlock, client, TypeOK, RequestInv, LockInv
<1>5. TableInv'
  BY RowKinds DEF ServerCommit, client, TypeOK, RequestInv, LockInv, TableInv
<1>6. ResultInv'
  BY DEF ServerCommit, client, ResultInv
<1>7. SingleDecision'
  BY RowKinds DEF ServerCommit, client, RequestInv, LockInv, TableInv, SingleDecision
<1>8. RefusalMeansDecided'
  BY DEF ServerCommit, client, RefusalMeansDecided
<1> QED
  BY <1>1, <1>2, <1>3, <1>4, <1>5, <1>6, <1>7, <1>8

(* PostgreSQL drops a transaction without any effect on the table.         *)
LEMMA ServerAbortStep ==
    ASSUME DecisionInv, NEW r \in Request, ServerAbort(r)
    PROVE  DecisionInv'
<1> USE DEF DecisionInv
<1>1. TypeOK'
  BY DEF ServerAbort, Unlock, client, TypeOK
<1>2. PhaseInv'
  BY DEF ServerAbort, client, PhaseInv
<1>3. RequestInv'
  BY DEF ServerAbort, client, RequestInv, InFlight
<1>4. LockInv'
  BY DEF ServerAbort, Unlock, client, TypeOK, RequestInv, LockInv
<1>5. TableInv'
  BY DEF ServerAbort, client, TableInv
<1>6. ResultInv'
  BY DEF ServerAbort, client, ResultInv
<1>7. SingleDecision'
  BY DEF ServerAbort, client, SingleDecision
<1>8. RefusalMeansDecided'
  BY DEF ServerAbort, client, RefusalMeansDecided
<1> QED
  BY <1>1, <1>2, <1>3, <1>4, <1>5, <1>6, <1>7, <1>8

(* The death of an instance leaves the sessions as they were.              *)
LEMMA CrashStep ==
    ASSUME DecisionInv, NEW i \in Instance, Crash(i)
    PROVE  DecisionInv'
<1> USE DEF DecisionInv
<1>1. TypeOK'
  BY DEF Crash, server, TypeOK, PC
<1>2. PhaseInv'
  BY DEF Crash, InFlight, server, PhaseInv
<1>3. RequestInv'
  BY DEF Crash, InFlight, server, RequestInv
<1>4. LockInv'
  BY DEF Crash, server, LockInv
<1>5. TableInv'
  BY DEF Crash, server, TableInv
<1>6. ResultInv'
  BY DEF Crash, InFlight, server, ResultInv
<1>7. SingleDecision'
  BY DEF Crash, server, SingleDecision
<1>8. RefusalMeansDecided'
  BY DEF Crash, server, RefusalMeansDecided
<1> QED
  BY <1>1, <1>2, <1>3, <1>4, <1>5, <1>6, <1>7, <1>8

(* Nothing changes.                                                        *)
LEMMA StutterStep ==
    ASSUME DecisionInv, UNCHANGED vars
    PROVE  DecisionInv'
BY DEF DecisionInv, vars, TypeOK, PhaseInv, RequestInv, InFlight, LockInv, TableInv,
       ResultInv, SingleDecision, RefusalMeansDecided

(* DecisionInv holds in every reachable state of every instance of the     *)
(* model: the invariant from which the other theorems follow.              *)
THEOREM Invariance == Spec => []DecisionInv
<1>1. Init => DecisionInv
  BY InitInv
<1>2. DecisionInv /\ [Next]_vars => DecisionInv'
  BY CreateStep, ChangeRoleStep, ArriveStep, RejectPathStep, RejectTokenStep, LoadActorStep,
     LoadActorFailsStep, HandleStep, BeginTxStep, BeginTxFailsStep, SelectForUpdateStep,
     RefuseDecidedStep, UpdateStep, StatementFailsStep, SendCommitStep, CommitAckedStep,
     CommitFailsStep, RollbackStep, ServerCommitStep, ServerAbortStep, CrashStep, StutterStep
     DEF Next
<1> QED
  BY <1>1, <1>2, PTL DEF Spec

(* Every variable keeps its type.                                          *)
THEOREM TypeCorrect == Spec => []TypeOK
BY Invariance, PTL DEF DecisionInv

(* At most one request per application ever commits a decision, in         *)
(* whatever order any number of them read, lock, write and fail.           *)
THEOREM DecidedOnce == Spec => []SingleDecision
BY Invariance, PTL DEF DecisionInv

(* An acknowledged decision is in the table and stays there.               *)
THEOREM Durability == Spec => []AckedDecisionStands
<1>1. DecisionInv => AckedDecisionStands
  BY DEF DecisionInv, ResultInv, TableInv, AckedDecisionStands
<1> QED
  BY <1>1, Invariance, PTL

(* A client is told "not in PENDING status" only when another request has  *)
(* committed a decision.                                                   *)
THEOREM HonestRefusal == Spec => []RefusalMeansDecided
BY Invariance, PTL DEF DecisionInv

(* An answer other than 200 and 500 leaves no trace, now or later.         *)
THEOREM CleanFailure == Spec => []FailureIsClean
<1>1. DecisionInv => FailureIsClean
  BY DEF DecisionInv, ResultInv, FailureIsClean
<1> QED
  BY <1>1, Invariance, PTL

(* No decision without a request of someone who was an administrator while *)
(* the request was being served.                                           *)
THEOREM Authorship == Spec => []DecisionHasAuthor
<1>1. DecisionInv => DecisionHasAuthor
  <2> SUFFICES ASSUME DecisionInv, NEW a \in AppId, Decided(table[a])
               PROVE  \E r \in admins : /\ tx[r] = "committed" /\ req[r].id = a
                                        /\ Decision(req[r]) = table[a]
    BY DEF DecisionHasAuthor
  <2>1. PICK r \in Request : tx[r] = "committed" /\ req[r].id = a
    BY TableShape, RowKinds
  <2>2. r \in admins /\ table[a] = Decision(req[r])
    BY <2>1 DEF DecisionInv, RequestInv, TableInv
  <2> QED
    BY <2>1, <2>2
<1> QED
  BY <1>1, Invariance, PTL

(* The constraint of migration 003 never refuses a decision.               *)
THEOREM ConstraintSilent == Spec => []ConstraintNeverFires
<1>1. DecisionInv => ConstraintNeverFires
  BY DEF DecisionInv, ResultInv, ConstraintNeverFires
<1> QED
  BY <1>1, Invariance, PTL

(* A rejected application always carries a proper reason, and no other     *)
(* application carries one.                                                *)
THEOREM ProperReason == Spec => []RejectionExplained
<1>1. DecisionInv => RejectionExplained
  <2> SUFFICES ASSUME DecisionInv, NEW a \in AppId PROVE Explained(table[a])
    BY DEF RejectionExplained
  <2>1. CASE table[a] \in {Absent, Pending}
    <3>1. Explained(Absent) /\ Explained(Pending)
      BY DEF Absent, Pending, Explained
    <3> QED
      BY <2>1, <3>1
  <2>2. CASE \E r \in Request : tx[r] = "committed" /\ req[r].id = a
    BY <2>2 DEF DecisionInv, RequestInv, TableInv
  <2> QED
    BY <2>1, <2>2, TableShape
<1> QED
  BY <1>1, Invariance, PTL

(* Every change of a row is a submission or a first decision.              *)
THEOREM LifecycleTheorem == Spec => Lifecycle
<1> DEFINE Step(a) == table'[a] # table[a] =>
                          \/ table[a] = Absent /\ table'[a] = Pending
                          \/ table[a] = Pending /\ Decided(table'[a])
<1>1. DecisionInv /\ [Next]_vars => [\A a \in AppId : Step(a)]_vars
  <2> SUFFICES ASSUME DecisionInv, Next, NEW a \in AppId PROVE Step(a)
    OBVIOUS
  <2>1. ASSUME NEW b \in AppId, Create(b) PROVE Step(a)
    BY <2>1 DEF Create, DecisionInv, TypeOK
  <2>2. ASSUME NEW r \in Request, ServerCommit(r) PROVE Step(a)
    BY <2>2 DEF ServerCommit, DecisionInv, TypeOK, RequestInv, LockInv
  <2>3. CASE UNCHANGED table
    BY <2>3
  <2> QED
    BY <2>1, <2>2, <2>3
       DEF Next, ChangeRole, Arrive, RejectPath, RejectToken, LoadActor, LoadActorFails,
           Handle, BeginTx, BeginTxFails, SelectForUpdate, RefuseDecided, Update,
           StatementFails, SendCommit, CommitAcked, CommitFails, Rollback, ServerAbort,
           Crash, server
<1> QED
  BY <1>1, Invariance, PTL DEF Spec, Lifecycle
-----------------------------------------------------------------------------
(* Deadlock: who waits for whom.                                           *)

(* The handler, up to the transaction, holds nothing.                      *)
LEMMA HandlerHolds ==
    ASSUME DecisionInv, HoldInv, NEW r \in Request,
           Arrive(r) \/ RejectPath(r) \/ RejectToken(r) \/ LoadActor(r) \/ LoadActorFails(r)
           \/ Handle(r) \/ BeginTxFails(r)
    PROVE  HoldInv'
<1>1. PICK l \in {"auth", "handle", "begin", "done"} : pc' = [pc EXCEPT ![r] = l]
  BY DEF Arrive, RejectPath, RejectToken, LoadActor, LoadActorFails, Handle, BeginTxFails, Reply, Goto
<1>2. UNCHANGED <<conn, lock>> /\ pc[r] \in {"idle", "auth", "handle", "begin"}
  BY DEF Arrive, RejectPath, RejectToken, LoadActor, LoadActorFails, Handle, BeginTxFails, server
<1>3. pc \in [Request -> PC]
  BY DEF DecisionInv, TypeOK
<1> QED
  BY <1>1, <1>2, <1>3 DEF HoldInv

(* A connection is taken before any row lock, a row lock after it.         *)
LEMMA TransactionHolds ==
    ASSUME DecisionInv, HoldInv, NEW r \in Request,
           BeginTx(r) \/ SelectForUpdate(r) \/ RefuseDecided(r) \/ Update(r) \/ StatementFails(r)
           \/ SendCommit(r)
    PROVE  HoldInv'
<1>1. TypeOK
  BY DEF DecisionInv
<1>2. CASE BeginTx(r)
  BY <1>1, <1>2 DEF BeginTx, Goto, TypeOK, HoldInv
<1>3. CASE SelectForUpdate(r)
  BY <1>1, <1>3, NoRequestAssumption DEF SelectForUpdate, Goto, Fail, TypeOK, HoldInv
<1>4. CASE RefuseDecided(r) \/ Update(r) \/ SendCommit(r)
  <2>1. UNCHANGED conn /\ pc[r] \in {"update", "commit"}
    BY <1>4 DEF RefuseDecided, Update, SendCommit
  <2>2. PICK l \in {"commit", "committing", "rollback"} : pc' = [pc EXCEPT ![r] = l]
    BY <1>4 DEF RefuseDecided, Update, SendCommit, Fail, Goto
  <2>3. \A a \in AppId : lock'[a] \in {lock[a], NoRequest}
    BY <1>4 DEF RefuseDecided, Update, SendCommit, Unlock, server
  <2> QED
    BY <1>1, <2>1, <2>2, <2>3, NoRequestAssumption DEF TypeOK, HoldInv
<1>5. CASE StatementFails(r)
  <2>1. pc' = [pc EXCEPT ![r] = "rollback"] /\ pc[r] \in {"select", "update"}
    BY <1>5 DEF StatementFails, Fail, Goto
  <2>2. conn' = conn \/ conn' = [conn EXCEPT ![r] = "broken"]
    BY <1>5 DEF StatementFails
  <2>3. \A a \in AppId : lock'[a] \in {lock[a], NoRequest} \/ lock'[a] = r
    BY <1>1, <1>5 DEF StatementFails, Unlock, TypeOK
  <2> QED
    BY <1>1, <2>1, <2>2, <2>3, NoRequestAssumption DEF TypeOK, HoldInv
<1> QED
  BY <1>2, <1>3, <1>4, <1>5

(* An answer gives the connection back; what is left of the lock is no     *)
(* longer the handler's.                                                   *)
LEMMA AnswerHolds ==
    ASSUME DecisionInv, HoldInv, NEW r \in Request,
           CommitAcked(r) \/ CommitFails(r) \/ Rollback(r)
    PROVE  HoldInv'
<1>1. conn' = [conn EXCEPT ![r] = "none"] /\ pc' = [pc EXCEPT ![r] = "done"]
  BY DEF CommitAcked, CommitFails, Rollback, Reply, Goto
<1>2. \A a \in AppId : lock'[a] \in {lock[a], NoRequest}
  BY DEF CommitAcked, CommitFails, Rollback, Unlock, server
<1> QED
  BY <1>1, <1>2, NoRequestAssumption DEF DecisionInv, TypeOK, HoldInv

(* Neither PostgreSQL, nor the rest of the system, nor a crash gives a     *)
(* request anything to hold.                                               *)
LEMMA EnvironmentHolds ==
    ASSUME DecisionInv, HoldInv,
           \/ \E a \in AppId : Create(a)
           \/ \E u \in User : ChangeRole(u)
           \/ \E r \in Request : ServerCommit(r) \/ ServerAbort(r)
           \/ \E i \in Instance : Crash(i)
           \/ UNCHANGED vars
    PROVE  HoldInv'
<1>1. \A a \in AppId : lock'[a] \in {lock[a], NoRequest}
  BY DEF Create, ChangeRole, ServerCommit, ServerAbort, Crash, Unlock, server, vars
<1>2. \A r \in Request : \/ pc'[r] = pc[r] /\ conn'[r] = conn[r]
                         \/ pc'[r] = "crashed" /\ conn'[r] = "none"
  <2>1. CASE \E i \in Instance : Crash(i)
    BY <2>1 DEF Crash
  <2>2. CASE UNCHANGED <<pc, conn>>
    BY <2>2
  <2> QED
    BY <2>1, <2>2 DEF Create, ChangeRole, ServerCommit, ServerAbort, client, vars
<1> QED
  BY <1>1, <1>2, NoRequestAssumption DEF HoldInv

(* What a request holds, it took in the order connection, row lock.        *)
THEOREM Order == Spec => []HoldInv
<1>1. Init => HoldInv
  BY NoRequestAssumption DEF Init, HoldInv
<1>2. DecisionInv /\ HoldInv /\ [Next]_vars => HoldInv'
  BY HandlerHolds, TransactionHolds, AnswerHolds, EnvironmentHolds DEF Next
<1> QED
  BY <1>1, <1>2, Invariance, PTL DEF Spec

(* No deadlock for want of connections or row locks: every chain of        *)
(* requests that wait for each other ends after two.                       *)
THEOREM NoCircularWait == Spec => []WaitsEnd
<1>1. DecisionInv /\ HoldInv => WaitsEnd
  <2> SUFFICES ASSUME DecisionInv, HoldInv, NEW r \in Request, NEW s \in Request, NEW t \in Request,
                      NEW u \in Request, Waits(r, s), Waits(s, t), Waits(t, u)
               PROVE  FALSE
    BY DEF WaitsEnd
  <2>1. ASSUME NEW p \in Request, NEW q \in Request, Waits(p, q)
        PROVE  pc[q] \notin {"auth", "begin"} /\ (pc[p] = "select" => pc[q] # "select")
    <3>1. CASE pc[p] = "select"
      <4>1. req[p].id \in AppId /\ lock[req[p].id] = q
        BY <2>1, <3>1 DEF Waits, DecisionInv, RequestInv
      <4> QED
        BY <4>1 DEF HoldInv
    <3>2. CASE pc[p] # "select"
      BY <2>1, <3>2 DEF Waits, InUse, HoldInv
    <3> QED
      BY <3>1, <3>2
  <2>2. ASSUME NEW p \in Request, NEW q \in Request, Waits(p, q)
        PROVE  pc[p] \in {"auth", "begin", "select"}
    BY <2>2 DEF Waits
  <2>3. pc[s] = "select" /\ pc[t] = "select"
    BY <2>1, <2>2
  <2> QED
    BY <2>1, <2>3
<1> QED
  BY <1>1, Invariance, Order, PTL

(* The requests served by an instance that hold a connection are at most   *)
(* as many as its pool has.                                                *)
LEMMA PoolStep ==
    ASSUME PoolRespected, TypeOK, NEW r \in Request, BeginTx(r)
    PROVE  PoolRespected'
<1> SUFFICES ASSUME NEW i \in Instance
             PROVE  IsFiniteSet(InUse(i)') /\ Cardinality(InUse(i)') <= MaxConns
  BY DEF PoolRespected
<1> DEFINE Old == InUse(i)
           New == InUse(i)'
<1>1. IsFiniteSet(Old) /\ Cardinality(Old) \in Nat /\ Cardinality(Old) <= MaxConns
  BY FS_CardinalityType DEF PoolRespected
<1>2. CASE Home[r] = i
  <2>1. Cardinality(Old) < MaxConns
    BY <1>2 DEF BeginTx, FreeConnection
  <2>2. New = Old \cup {r}
    BY <1>2 DEF BeginTx, InUse, TypeOK
  <2> HIDE DEF Old, New
  <2>3. /\ IsFiniteSet(Old \cup {r})
        /\ Cardinality(Old \cup {r}) = IF r \in Old THEN Cardinality(Old) ELSE Cardinality(Old) + 1
    BY <1>1, FS_AddElement, Zenon
  <2>4. IsFiniteSet(New) /\ Cardinality(New) <= MaxConns
    BY <1>1, <2>1, <2>2, <2>3, MaxConnsAssumption
  <2> QED
    BY <2>4 DEF New
<1>3. CASE Home[r] # i
  <2>1. New = Old
    BY <1>3 DEF BeginTx, InUse, TypeOK
  <2> QED
    BY <1>1, <2>1
<1> QED
  BY <1>2, <1>3

(* Every other step leaves the connections in use or gives some back.      *)
LEMMA PoolShrinks ==
    ASSUME PoolRespected, TypeOK,
           \A r \in Request : conn'[r] # "none" => conn[r] # "none"
    PROVE  PoolRespected'
<1> SUFFICES ASSUME NEW i \in Instance
             PROVE  IsFiniteSet(InUse(i)') /\ Cardinality(InUse(i)') <= MaxConns
  BY DEF PoolRespected
<1>1. InUse(i)' \subseteq InUse(i)
  BY DEF InUse
<1>2. IsFiniteSet(InUse(i)) /\ Cardinality(InUse(i)) \in Nat /\ Cardinality(InUse(i)) <= MaxConns
  BY FS_CardinalityType DEF PoolRespected
<1>3. /\ IsFiniteSet(InUse(i)')
      /\ Cardinality(InUse(i)') \in Nat /\ Cardinality(InUse(i)') <= Cardinality(InUse(i))
  BY <1>1, <1>2, FS_Subset, FS_CardinalityType
<1> QED
  BY <1>2, <1>3, MaxConnsAssumption

(* The pool of no instance ever lends more connections than it has, and a  *)
(* request that has to wait for one waits for another that has one.        *)
THEOREM PoolBound == Spec => [](PoolRespected /\ WaitsForSomebody)
<1>1. Init => PoolRespected
  <2> SUFFICES ASSUME Init, NEW i \in Instance
               PROVE  IsFiniteSet(InUse(i)) /\ Cardinality(InUse(i)) <= MaxConns
    BY DEF PoolRespected
  <2>1. InUse(i) = {}
    BY DEF Init, InUse
  <2> QED
    BY <2>1, FS_EmptySet, MaxConnsAssumption
<1>2. DecisionInv /\ HoldInv /\ PoolRespected /\ [Next]_vars => PoolRespected'
  <2> SUFFICES ASSUME DecisionInv, HoldInv, PoolRespected, [Next]_vars PROVE PoolRespected'
    OBVIOUS
  <2>1. TypeOK
    BY DEF DecisionInv
  <2>2. ASSUME NEW r \in Request, BeginTx(r) PROVE PoolRespected'
    BY <2>1, <2>2, PoolStep
  <2>3. ASSUME NEW r \in Request, Arrive(r) \/ RejectPath(r) \/ RejectToken(r) \/ LoadActor(r)
                  \/ LoadActorFails(r) \/ Handle(r) \/ BeginTxFails(r) \/ SelectForUpdate(r)
                  \/ RefuseDecided(r) \/ Update(r) \/ SendCommit(r) \/ ServerCommit(r)
                  \/ ServerAbort(r)
        PROVE  UNCHANGED conn
    BY <2>3 DEF Arrive, RejectPath, RejectToken, LoadActor, LoadActorFails, Handle, BeginTxFails,
                SelectForUpdate, RefuseDecided, Update, SendCommit, ServerCommit, ServerAbort, client
  <2>4. ASSUME NEW r \in Request, CommitAcked(r) \/ CommitFails(r) \/ Rollback(r)
        PROVE  conn' = [conn EXCEPT ![r] = "none"]
    BY <2>4 DEF CommitAcked, CommitFails, Rollback
  <2>5. ASSUME NEW r \in Request, StatementFails(r)
        PROVE  \A s \in Request : conn'[s] # "none" => conn[s] # "none"
    <3>1. conn[r] # "none"
      BY <2>5 DEF StatementFails, DecisionInv, HoldInv
    <3>2. UNCHANGED conn \/ conn' = [conn EXCEPT ![r] = "broken"]
      BY <2>5 DEF StatementFails
    <3> QED
      BY <2>1, <3>1, <3>2 DEF TypeOK
  <2>6. CASE \/ \E a \in AppId : Create(a)
             \/ \E u \in User : ChangeRole(u)
             \/ \E i \in Instance : Crash(i)
             \/ UNCHANGED vars
    BY <2>6, <2>1, PoolShrinks DEF Create, ChangeRole, Crash, client, vars
  <2> QED
    BY <2>1, <2>2, <2>3, <2>4, <2>5, <2>6, PoolShrinks DEF Next, TypeOK
<1>3. PoolRespected => WaitsForSomebody
  <2> SUFFICES ASSUME PoolRespected, NEW r \in Request, ~FreeConnection(r), InUse(Home[r]) = {}
               PROVE  FALSE
    BY DEF WaitsForSomebody, InUse
  <2> QED
    BY FS_EmptySet, MaxConnsAssumption DEF FreeConnection
<1> QED
  BY <1>1, <1>2, <1>3, Invariance, Order, PTL DEF Spec
-----------------------------------------------------------------------------
(* The refinement of DecisionRegister.                                     *)

(* The register and the endpoints speak of the same rows.                  *)
LEMMA SameWords ==
    /\ Register!Absent = Absent /\ Register!Pending = Pending /\ Register!Row = Row
    /\ \A row : /\ Register!Decided(row) <=> Decided(row)
               /\ Register!CheckConstraint(row) <=> CheckConstraint(row)
BY DEF Absent, Pending, Row, Status, Reason, BodyClass, NoReason, Decided, CheckConstraint, Btrim,
       Register!Absent, Register!Pending, Register!Row, Register!Status, Register!Reason,
       Register!BodyClass, Register!NoReason, Register!Decided, Register!CheckConstraint,
       Register!Btrim

(* The calls, effects and answers of the register do not change when the   *)
(* variables they are computed from do not.                                *)
LEMMA SameBar ==
    /\ UNCHANGED req => UNCHANGED callBar
    /\ UNCHANGED tx => UNCHANGED effectiveBar
    /\ UNCHANGED <<pc, result>> => UNCHANGED answerBar
BY DEF callBar, effectiveBar, answerBar

(* A request that has arrived has called the register.                     *)
LEMMA Called ==
    ASSUME DecisionInv, NEW r \in Request, pc[r] # "idle"
    PROVE  callBar[r] # Register!NoCall
<1>1. req[r] \in Query
  BY QueryOf
<1>2. Decision(req[r]).status # "ABSENT"
  BY <1>1 DEF Query, Decision
<1> QED
  BY <1>2, SameWords, RowKinds DEF callBar, Register!NoCall

(* The handler of r ends with error e: the register answers r.             *)
LEMMA ReplyAnswers ==
    ASSUME DecisionInv, NEW r \in Request, InFlight(r), NEW e \in Outcome,
           Reply(r, e), UNCHANGED <<table, req, tx>>,
           \/ e = "ok" /\ tx[r] = "committed"
           \/ e = "internal"
           \/ e \in Register!Refusal /\ tx[r] # "committed"
    PROVE  Register!Answer(r)
<1>1. answerBar[r] = "none" /\ callBar[r] # Register!NoCall
  BY Called DEF InFlight, answerBar
<1>2. answerBar' = [answerBar EXCEPT ![r] = e]
  BY DEF DecisionInv, TypeOK, Reply, Goto, answerBar, Register!Refusal
<1>3. UNCHANGED <<table, callBar, effectiveBar>>
  BY SameBar
<1> QED
  BY <1>1, <1>2, <1>3 DEF Register!Answer, effectiveBar

(* The rolled-back request r ends with the error it has kept.              *)
LEMMA RollbackAnswers ==
    ASSUME DecisionInv, DecisionInv', NEW r \in Request, Rollback(r)
    PROVE  Register!Answer(r)
<1>1. answerBar[r] = "none" /\ callBar[r] # Register!NoCall
  BY Called DEF Rollback, answerBar
<1>2. answerBar' = [answerBar EXCEPT ![r] = result[r]]
  BY DEF DecisionInv, TypeOK, ResultInv, Rollback, Goto, answerBar
<1>3. UNCHANGED <<table, callBar, effectiveBar>> /\ r \notin effectiveBar
  BY SameBar DEF DecisionInv, TypeOK, PhaseInv, Rollback, effectiveBar
<1>4. CASE result[r] = "invalidState"
  <2>1. \E s \in effectiveBar : callBar[s].id = callBar[r].id
    BY <1>4 DEF DecisionInv, RefusalMeansDecided, effectiveBar, callBar
  <2> QED
    BY <1>1, <1>2, <1>3, <1>4, <2>1 DEF Register!Answer
<1>5. CASE result[r] \in {"notFound", "internal"}
  BY <1>1, <1>2, <1>3, <1>5 DEF Register!Answer, Register!Refusal
<1> QED
  BY <1>4, <1>5 DEF DecisionInv, ResultInv, Rollback

(* The commit of r's transaction is the moment its decision takes effect.  *)
LEMMA CommitDecides ==
    ASSUME DecisionInv, NEW r \in Request, ServerCommit(r)
    PROVE  Register!Decide(r)
<1>1. /\ req[r].id \in AppId /\ table[req[r].id] = Pending
      /\ Decided(Decision(req[r])) /\ CheckConstraint(Decision(req[r]))
  BY DEF DecisionInv, RequestInv, LockInv, ServerCommit
<1>2. callBar[r] = [id |-> req[r].id, row |-> Decision(req[r])]
  BY DEF callBar
<1>3. callBar[r] # Register!NoCall
  BY Called DEF DecisionInv, PhaseInv, ServerCommit
<1>4. answerBar[r] \in {"none", "internal"}
  BY DEF DecisionInv, TypeOK, Outcome, ResultInv, ServerCommit, answerBar
<1>5. effectiveBar' = effectiveBar \cup {r}
  BY DEF DecisionInv, TypeOK, ServerCommit, effectiveBar
<1>6. UNCHANGED <<callBar, answerBar>>
  BY SameBar DEF ServerCommit, client
<1> QED
  BY <1>1, <1>2, <1>3, <1>4, <1>5, <1>6, SameWords DEF Register!Decide, ServerCommit

(* The decision endpoints implement the write-once register, for any       *)
(* number of requests, instances and applications.                         *)
THEOREM Refinement == Spec => RegisterSpec
<1>1. Init => Register!Init
  BY SameWords DEF Init, Register!Init, Register!NoCall, callBar, effectiveBar, answerBar, NoQuery, Decision
<1>2. DecisionInv /\ DecisionInv' /\ [Next]_vars => [Register!Next]_(Register!vars)
  <2> SUFFICES ASSUME DecisionInv, DecisionInv', [Next]_vars
               PROVE  Register!Next \/ UNCHANGED <<table, callBar, effectiveBar, answerBar>>
    BY DEF Register!vars
  <2>1. ASSUME NEW a \in AppId, Create(a) PROVE Register!Submit(a)
    BY <2>1, SameBar, SameWords DEF Create, client, Register!Submit
  <2>2. ASSUME NEW r \in Request, Arrive(r) PROVE Register!Invoke(r)
    <3>1. callBar[r] = Register!NoCall
      BY <2>2, SameWords DEF DecisionInv, PhaseInv, Arrive, callBar, Register!NoCall, NoQuery, Decision
    <3>2. PICK q \in Query : req' = [req EXCEPT ![r] = q]
      BY <2>2 DEF Arrive
    <3>3. q.id \in AppId \cup BadId /\ Decision(q) \in Row
      BY DecisionType, PathIdAssumption DEF Query
    <3>4. callBar' = [callBar EXCEPT ![r] = [id |-> q.id, row |-> Decision(q)]]
      BY <3>2 DEF DecisionInv, TypeOK, callBar
    <3>5. UNCHANGED <<table, effectiveBar, answerBar>>
      BY <2>2, SameBar DEF DecisionInv, TypeOK, Arrive, Goto, server, answerBar
    <3> QED
      BY <3>1, <3>3, <3>4, <3>5, SameWords DEF Register!Invoke
  <2>3. ASSUME NEW r \in Request,
               RejectPath(r) \/ RejectToken(r) \/ LoadActorFails(r) \/ BeginTxFails(r) \/ CommitFails(r)
        PROVE  Register!Answer(r)
    BY <2>3, ReplyAnswers
       DEF DecisionInv, PhaseInv, RejectPath, RejectToken, LoadActorFails, BeginTxFails,
           CommitFails, InFlight, Outcome, server, Register!Refusal
  <2>4. ASSUME NEW r \in Request, LoadActor(r)
        PROVE  Register!Answer(r) \/ UNCHANGED <<table, callBar, effectiveBar, answerBar>>
    <3>1. CASE Goto(r, "handle") /\ UNCHANGED result
      BY <2>4, <3>1, SameBar DEF DecisionInv, TypeOK, LoadActor, Goto, server, answerBar
    <3>2. CASE Reply(r, "unauthorized") \/ Reply(r, "forbidden")
      BY <2>4, <3>2, ReplyAnswers
         DEF DecisionInv, PhaseInv, LoadActor, InFlight, Outcome, server, Register!Refusal
    <3> QED
      BY <2>4, <3>1, <3>2 DEF LoadActor
  <2>5. ASSUME NEW r \in Request, Handle(r)
        PROVE  Register!Answer(r) \/ UNCHANGED <<table, callBar, effectiveBar, answerBar>>
    <3>1. CASE Goto(r, "begin") /\ UNCHANGED result
      BY <2>5, <3>1, SameBar DEF DecisionInv, TypeOK, Handle, Goto, server, answerBar
    <3>2. CASE \E e \in {"validation", "tooLarge", "forbidden"} : Reply(r, e)
      BY <2>5, <3>2, ReplyAnswers
         DEF DecisionInv, PhaseInv, Handle, InFlight, Outcome, server, Register!Refusal
    <3>3. Precheck(req[r], role[r]) \in {"ok", "validation", "tooLarge", "forbidden"}
      BY <2>5, QueryOf, PrecheckType DEF Handle, DecisionInv, TypeOK
    <3> QED
      BY <2>5, <3>1, <3>2, <3>3 DEF Handle
  <2>6. ASSUME NEW r \in Request, CommitAcked(r) PROVE Register!Answer(r)
    BY <2>6, ReplyAnswers DEF CommitAcked, InFlight, Outcome, server
  <2>7. ASSUME NEW r \in Request, Rollback(r) PROVE Register!Answer(r)
    BY <2>7, RollbackAnswers
  <2>8. ASSUME NEW r \in Request, ServerCommit(r) PROVE Register!Decide(r)
    BY <2>8, CommitDecides
  <2>9. ASSUME NEW r \in Request,
               BeginTx(r) \/ SelectForUpdate(r) \/ RefuseDecided(r) \/ Update(r)
               \/ StatementFails(r) \/ SendCommit(r) \/ ServerAbort(r)
        PROVE  UNCHANGED <<table, callBar, effectiveBar, answerBar>>
    <3>1. UNCHANGED <<table, callBar>>
      BY <2>9, SameBar DEF BeginTx, SelectForUpdate, RefuseDecided, Update, StatementFails,
                           SendCommit, ServerAbort, server, client
    <3>2. UNCHANGED effectiveBar
      BY <2>9 DEF DecisionInv, TypeOK, PhaseInv, BeginTx, SelectForUpdate, RefuseDecided, Update,
                  StatementFails, SendCommit, ServerAbort, server, effectiveBar
    <3>3. UNCHANGED answerBar
      BY <2>9 DEF DecisionInv, TypeOK, BeginTx, SelectForUpdate, RefuseDecided, Update,
                  StatementFails, SendCommit, ServerAbort, client, Goto, Fail, answerBar
    <3> QED
      BY <3>1, <3>2, <3>3
  <2>10. ASSUME NEW i \in Instance, Crash(i)
         PROVE  UNCHANGED <<table, callBar, effectiveBar, answerBar>>
    BY <2>10, SameBar DEF DecisionInv, TypeOK, Crash, InFlight, server, answerBar
  <2>11. ASSUME NEW u \in User, ChangeRole(u) \/ UNCHANGED vars
         PROVE  UNCHANGED <<table, callBar, effectiveBar, answerBar>>
    BY <2>11, SameBar DEF ChangeRole, server, client, vars
  <2>12. CASE UNCHANGED vars
    BY <2>12, SameBar DEF vars
  <2> QED
    BY <2>1, <2>2, <2>3, <2>4, <2>5, <2>6, <2>7, <2>8, <2>9, <2>10, <2>11, <2>12
       DEF Next, Register!Next
<1> QED
  BY <1>1, <1>2, Invariance, PTL DEF Spec, RegisterSpec, Register!Spec
==============================================================================
