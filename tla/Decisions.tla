------------------------------ MODULE Decisions ------------------------------
(***************************************************************************)
(* The decision endpoints POST /project/application/external/{id}/accept   *)
(* and .../reject, from the HTTP middleware to the row in PostgreSQL:      *)
(*                                                                         *)
(*   transport/http/router.go    withAdmin, Accept..., Reject...           *)
(*   application/service.go      Accept..., Reject..., changeDecision      *)
(*   postgres/tx.go              WithinTransaction                         *)
(*   postgres/repositories.go    GetByIDForUpdate, UpdateDecision          *)
(*   postgres/db.go              the pool of connections                   *)
(*                                                                         *)
(* Each request is a process.  A step ends where the code waits for the    *)
(* database, so that between any two statements other requests, other      *)
(* instances of the service, role changes and failures may come.  The      *)
(* server side of a transaction (tx, lock) is kept apart from the client   *)
(* side (pc, conn): a connection can be lost, and the process can die,     *)
(* while the session lives on in PostgreSQL.                               *)
(***************************************************************************)
EXTENDS ApplicationDomain, FiniteSets

CONSTANTS Request,    \* the requests, each served once
          NoRequest,  \* the owner of a free row lock
          Instance,   \* the running copies of the service
          Home,       \* Home[r]: the instance that serves r
          User,       \* the user ids
          NoUser,     \* the owner of a missing, malformed or expired token
          Token,      \* the owners of the tokens that clients send
          AppId,      \* the ids external_applications may hold
          PathId,     \* what clients put in the path for {applicationId}
          Body,       \* the bodies that clients send
          MaxConns    \* config.MaxConns of the pool of an instance

ASSUME NoRequestAssumption == NoRequest \notin Request
ASSUME HomeAssumption      == Home \in [Request -> Instance]
ASSUME TokenAssumption     == NoUser \notin User /\ Token \subseteq User \cup {NoUser}
ASSUME BodyAssumption      == Body \subseteq BodyClass
ASSUME MaxConnsAssumption  == MaxConns \in Nat \ {0}

(* {applicationId} of the path: an id, an integer below 1, or no integer.  *)
BadId == {"nonPositive", "unparsable"}
ASSUME PathIdAssumption == AppId \cap BadId = {} /\ PathId \subseteq AppId \cup BadId

VARIABLES
    users,   \* users[u]: the role of u, or "NONE" when u has no row
    table,   \* table[a]: the committed row of application a
    lock,    \* lock[a]: the request whose transaction holds a's row lock
    tx,      \* tx[r]: r's transaction, as PostgreSQL knows it
    pc,      \* pc[r]: where r's handler is
    req,     \* req[r]: what r's client asked
    role,    \* role[r]: Actor.Role, the role withAdmin read
    seen,    \* seen[r]: application.Status, as r read it
    result,  \* result[r]: the error r's handler has (or "ok")
    conn,    \* conn[r]: the connection r holds
    admins   \* history: the requests whose user was ADMIN since they arrived

server == <<table, lock, tx>>
client == <<pc, req, role, seen, result, conn>>
vars == <<users, table, lock, tx, pc, req, role, seen, result, conn, admins>>

Role == {"ADMIN", "USER", "NONE"}
Outcome == {"none", "ok", "unauthorized", "forbidden", "validation", "tooLarge",
            "notFound", "invalidState", "constraint", "internal"}
PC == {"idle", "auth", "handle", "begin", "select", "update", "commit",
       "committing", "rollback", "done", "crashed"}

Query == [op : {"accept"}, user : Token, id : PathId, body : {NoReason}]
    \cup [op : {"reject"}, user : Token, id : PathId, body : Body]
NoQuery == [op |-> "none", user |-> NoUser, id |-> "unparsable", body |-> NoReason]

(* The row a request asks for: what UpdateDecision writes.                 *)
DecisionUntrimmed(q) ==
    CASE q.op = "accept" -> [status |-> "ACCEPTED", reason |-> NoReason]
      [] q.op = "reject" -> [status |-> "REJECTED", reason |-> q.body]
      [] OTHER           -> Absent

Decision(q) ==
    CASE q.op = "accept" -> [status |-> "ACCEPTED", reason |-> NoReason]
      [] q.op = "reject" -> [status |-> "REJECTED", reason |-> TrimSpace(q.body)]
      [] OTHER           -> Absent

InFlight(r) == pc[r] \notin {"idle", "done", "crashed"}
InUse(i) == {r \in Request : Home[r] = i /\ conn[r] # "none"}
FreeConnection(r) == Cardinality(InUse(Home[r])) < MaxConns

Init ==
    /\ users \in [User -> Role]
    /\ table = [a \in AppId |-> Absent]
    /\ lock = [a \in AppId |-> NoRequest]
    /\ tx = [r \in Request |-> "none"]
    /\ pc = [r \in Request |-> "idle"]
    /\ req = [r \in Request |-> NoQuery]
    /\ role = [r \in Request |-> "NONE"]
    /\ seen = [r \in Request |-> "unread"]
    /\ result = [r \in Request |-> "none"]
    /\ conn = [r \in Request |-> "none"]
    /\ admins = {}
-----------------------------------------------------------------------------
(* The rest of the system: initiators, and operators who edit table users. *)

(* ExternalApplicationRepository.Create inserts a PENDING row.             *)
Create(a) ==
    /\ table[a] = Absent
    /\ table' = [table EXCEPT ![a] = Pending]
    /\ UNCHANGED <<users, lock, tx, client, admins>>

(* A role is changed or a user deleted; ids come from a sequence, so that  *)
(* a deleted user does not come back under the same id.                    *)
ChangeRole(u) ==
    /\ users[u] # "NONE"
    /\ \E new \in Role \ {users[u]} :
          /\ users' = [users EXCEPT ![u] = new]
          /\ admins' = IF new = "ADMIN"
                       THEN admins \cup {r \in Request : InFlight(r) /\ req[r].user = u}
                       ELSE admins
    /\ UNCHANGED <<server, client>>
-----------------------------------------------------------------------------
(* The handler, up to the transaction.                                     *)

Goto(r, l) == pc' = [pc EXCEPT ![r] = l]
Reply(r, e) == Goto(r, "done") /\ result' = [result EXCEPT ![r] = e]

Arrive(r) ==
    /\ pc[r] = "idle"
    /\ \E q \in Query :
          /\ req' = [req EXCEPT ![r] = q]
          /\ admins' = IF q.user # NoUser /\ users[q.user] = "ADMIN"
                       THEN admins \cup {r} ELSE admins
    /\ Goto(r, "auth")
    /\ UNCHANGED <<users, server, role, seen, result, conn>>

(* The generated router cannot bind {applicationId}: handleGeneratedError. *)
RejectPath(r) ==
    /\ pc[r] = "auth" /\ req[r].id = "unparsable"
    /\ Reply(r, "validation")
    /\ UNCHANGED <<users, server, req, role, seen, conn, admins>>

(* withAdmin finds no token, a token that does not parse, or user id <= 0. *)
RejectToken(r) ==
    /\ pc[r] = "auth" /\ req[r].id # "unparsable"
    /\ req[r].user = NoUser
    /\ Reply(r, "unauthorized")
    /\ UNCHANGED <<users, server, req, role, seen, conn, admins>>

(* withAdmin reads the user again, whatever role the token claims.  The    *)
(* query takes a connection of the pool and gives it back.                 *)
LoadActorUnchecked(r) ==
    /\ pc[r] = "auth" /\ req[r].id # "unparsable"
    /\ req[r].user # NoUser /\ FreeConnection(r)
    /\ role' = [role EXCEPT ![r] = "ADMIN"]
    /\ Goto(r, "handle") /\ UNCHANGED result
    /\ UNCHANGED <<users, server, req, seen, conn, admins>>

LoadActor(r) ==
    /\ pc[r] = "auth" /\ req[r].id # "unparsable"
    /\ req[r].user # NoUser /\ FreeConnection(r)
    /\ LET current == users[req[r].user] IN
          /\ role' = [role EXCEPT ![r] = current]
          /\ CASE current = "NONE" -> Reply(r, "unauthorized")
               [] current = "USER" -> Reply(r, "forbidden")
               [] OTHER            -> Goto(r, "handle") /\ UNCHANGED result
    /\ UNCHANGED <<users, server, req, seen, conn, admins>>

LoadActorFails(r) ==
    /\ pc[r] = "auth" /\ req[r].id # "unparsable"
    /\ req[r].user # NoUser
    /\ Reply(r, "internal")
    /\ UNCHANGED <<users, server, req, role, seen, conn, admins>>

(* What AcceptExternalApplication and RejectExternalApplication, handler   *)
(* and service, find wrong with a request before they open a transaction.  *)
PrecheckBlankOnly(q, actor) ==
    IF q.id = "nonPositive" THEN "validation"
    ELSE IF q.op = "reject" /\ q.body = "malformed" THEN "validation"
    ELSE IF q.op = "reject" /\ q.body = "oversize" THEN "tooLarge"
    ELSE IF actor # "ADMIN" THEN "forbidden"
    ELSE IF q.op = "reject" /\ (Btrim(q.body) = "" \/ q.body = "long") THEN "validation"
    ELSE "ok"

Precheck(q, actor) ==
    IF q.id = "nonPositive" THEN "validation"
    ELSE IF q.op = "reject" /\ q.body = "malformed" THEN "validation"
    ELSE IF q.op = "reject" /\ q.body = "oversize" THEN "tooLarge"
    ELSE IF actor # "ADMIN" THEN "forbidden"
    ELSE IF q.op = "reject" /\ TrimSpace(q.body) \in {"", "long"} THEN "validation"
    ELSE "ok"

Handle(r) ==
    /\ pc[r] = "handle"
    /\ LET error == Precheck(req[r], role[r]) IN
          IF error = "ok" THEN Goto(r, "begin") /\ UNCHANGED result
                          ELSE Reply(r, error)
    /\ UNCHANGED <<users, server, req, role, seen, conn, admins>>
-----------------------------------------------------------------------------
(* WithinTransaction and changeDecision.                                   *)

BeginTx(r) ==
    /\ pc[r] = "begin" /\ FreeConnection(r)
    /\ conn' = [conn EXCEPT ![r] = "held"]
    /\ tx' = [tx EXCEPT ![r] = "open"]
    /\ Goto(r, "select")
    /\ UNCHANGED <<users, table, lock, req, role, seen, result, admins>>

BeginTxFails(r) ==
    /\ pc[r] = "begin"
    /\ Reply(r, "internal")
    /\ UNCHANGED <<users, server, req, role, seen, conn, admins>>

(* The row locks of r's transaction go when PostgreSQL ends it.            *)
Unlock(r) == lock' = [a \in AppId |-> IF lock[a] = r THEN NoRequest ELSE lock[a]]

Live(r) == conn[r] = "held" /\ tx[r] = "open"

(* fn has returned an error: WithinTransaction goes on with Rollback.      *)
Fail(r, e) == Goto(r, "rollback") /\ result' = [result EXCEPT ![r] = e]

(* GetByIDForUpdate: the row is locked if there is one; another session    *)
(* that holds the lock makes r wait.                                       *)
SelectForUpdateNoLock(r) ==
    /\ pc[r] = "select" /\ Live(r)
    /\ LET a == req[r].id IN
          \/ table[a] = Absent /\ Fail(r, "notFound") /\ UNCHANGED <<lock, seen>>
          \/ /\ table[a] # Absent
             /\ seen' = [seen EXCEPT ![r] = table[a].status]
             /\ Goto(r, "update") /\ UNCHANGED <<lock, result>>
    /\ UNCHANGED <<users, table, tx, req, role, conn, admins>>

SelectForUpdateNoRowIsState(r) ==
    /\ pc[r] = "select" /\ Live(r)
    /\ lock[req[r].id] = NoRequest
    /\ lock' = [lock EXCEPT ![req[r].id] = r]
    /\ seen' = [seen EXCEPT ![r] = table[req[r].id].status]
    /\ Goto(r, "update")
    /\ UNCHANGED <<users, table, tx, req, role, result, conn, admins>>

SelectForUpdate(r) ==
    /\ pc[r] = "select" /\ Live(r)
    /\ LET a == req[r].id IN
          \/ table[a] = Absent /\ Fail(r, "notFound") /\ UNCHANGED <<lock, seen>>
          \/ /\ table[a] # Absent /\ lock[a] = NoRequest
             /\ lock' = [lock EXCEPT ![a] = r]
             /\ seen' = [seen EXCEPT ![r] = table[a].status]
             /\ Goto(r, "update") /\ UNCHANGED result
    /\ UNCHANGED <<users, table, tx, req, role, conn, admins>>

RefuseDecided(r) ==
    /\ pc[r] = "update" /\ seen[r] # "PENDING"
    /\ Fail(r, "invalidState")
    /\ UNCHANGED <<users, server, req, role, seen, conn, admins>>

(* UpdateDecision: PostgreSQL refuses the reason as a text (22021) or the  *)
(* new row by its constraint (23514), either of which aborts the           *)
(* transaction; no row is changed; or the row is written, to be seen by    *)
(* others when the transaction commits.                                    *)
UpdateOutcome(r) ==
    IF ~Storable(Decision(req[r]).reason) THEN "internal"
    ELSE IF table[req[r].id] = Absent THEN "notFound"
    ELSE IF ~CheckConstraint(Decision(req[r])) THEN "constraint"
    ELSE "ok"

UpdateOnSecondConnection(r) ==
    /\ pc[r] = "update" /\ seen[r] = "PENDING" /\ Live(r)
    /\ FreeConnection(r)
    /\ Goto(r, "commit")
    /\ UNCHANGED <<users, server, req, role, seen, result, conn, admins>>

Update(r) ==
    /\ pc[r] = "update" /\ seen[r] = "PENDING" /\ Live(r)
    /\ LET error == UpdateOutcome(r) IN
          /\ IF error = "ok" THEN Goto(r, "commit") /\ UNCHANGED result
                             ELSE Fail(r, error)
          /\ IF error \in {"constraint", "internal"}
             THEN tx' = [tx EXCEPT ![r] = "aborted"] /\ Unlock(r)
             ELSE UNCHANGED <<tx, lock>>
    /\ UNCHANGED <<users, table, req, role, seen, conn, admins>>

(* A statement of fn fails, or its context is cancelled while it waits:    *)
(* PostgreSQL aborts the transaction and the connection survives, or pgx   *)
(* gives the connection up and PostgreSQL has yet to notice (and may have  *)
(* taken the row lock for a SELECT whose answer nobody reads).             *)
StatementFails(r) ==
    /\ pc[r] = "select" \/ (pc[r] = "update" /\ seen[r] = "PENDING")
    /\ Fail(r, "internal")
    /\ \/ /\ tx' = [tx EXCEPT ![r] = "aborted"] /\ Unlock(r)
          /\ UNCHANGED conn
       \/ /\ conn' = [conn EXCEPT ![r] = "broken"]
          /\ UNCHANGED tx
          /\ \/ UNCHANGED lock
             \/ /\ pc[r] = "select" /\ tx[r] = "open"
                /\ table[req[r].id] # Absent /\ lock[req[r].id] = NoRequest
                /\ lock' = [lock EXCEPT ![req[r].id] = r]
    /\ UNCHANGED <<users, table, req, role, seen, admins>>

(* fn returned nil: COMMIT is on its way.                                  *)
SendCommit(r) ==
    /\ pc[r] = "commit" /\ Live(r)
    /\ tx' = [tx EXCEPT ![r] = "commitSent"]
    /\ Goto(r, "committing")
    /\ UNCHANGED <<users, table, lock, req, role, seen, result, conn, admins>>

CommitAcked(r) ==
    /\ pc[r] = "committing" /\ tx[r] = "committed" /\ conn[r] = "held"
    /\ Reply(r, "ok")
    /\ conn' = [conn EXCEPT ![r] = "none"]
    /\ UNCHANGED <<users, server, req, role, seen, admins>>

(* Commit returns an error: it was never sent, PostgreSQL had aborted the  *)
(* transaction, or nobody will say what became of it.  The connection is   *)
(* closed in each case.                                                    *)
CommitFailsAnswersOk(r) ==
    /\ pc[r] \in {"commit", "committing"}
    /\ Reply(r, "ok")
    /\ conn' = [conn EXCEPT ![r] = "none"]
    /\ UNCHANGED <<users, server, req, role, seen, admins>>

CommitFails(r) ==
    /\ pc[r] \in {"commit", "committing"}
    /\ Reply(r, "internal")
    /\ conn' = [conn EXCEPT ![r] = "none"]
    /\ UNCHANGED <<users, server, req, role, seen, admins>>

(* Rollback reaches PostgreSQL, or fails (its context is the request's     *)
(* own, cancelled or not) and the connection is closed.  The error of fn   *)
(* is what the client is told either way.                                  *)
RollbackKeepsConnection(r) ==
    /\ pc[r] = "rollback"
    /\ Goto(r, "done")
    /\ \/ /\ conn[r] = "held"
          /\ tx' = [tx EXCEPT ![r] = "aborted"] /\ Unlock(r)
       \/ UNCHANGED <<tx, lock>>
    /\ UNCHANGED <<users, table, req, role, seen, result, conn, admins>>

RollbackCommits(r) ==
    /\ pc[r] = "rollback"
    /\ Goto(r, "done")
    /\ conn' = [conn EXCEPT ![r] = "none"]
    /\ tx' = [tx EXCEPT ![r] = IF @ = "open" THEN "commitSent" ELSE @]
    /\ UNCHANGED <<users, table, lock, req, role, seen, result, admins>>

Rollback(r) ==
    /\ pc[r] = "rollback"
    /\ Goto(r, "done")
    /\ conn' = [conn EXCEPT ![r] = "none"]
    /\ \/ /\ conn[r] = "held"
          /\ tx' = [tx EXCEPT ![r] = "aborted"] /\ Unlock(r)
       \/ UNCHANGED <<tx, lock>>
    /\ UNCHANGED <<users, table, req, role, seen, result, admins>>
-----------------------------------------------------------------------------
(* PostgreSQL.                                                             *)

ServerCommitKeepsLock(r) ==
    /\ tx[r] = "commitSent"
    /\ tx' = [tx EXCEPT ![r] = "committed"]
    /\ table' = [table EXCEPT ![req[r].id] = Decision(req[r])]
    /\ UNCHANGED <<users, lock, client, admins>>

ServerCommit(r) ==
    /\ tx[r] = "commitSent"
    /\ tx' = [tx EXCEPT ![r] = "committed"]
    /\ table' = [table EXCEPT ![req[r].id] = Decision(req[r])]
    /\ Unlock(r)
    /\ UNCHANGED <<users, client, admins>>

(* PostgreSQL drops a transaction: its client has gone, or an operator,    *)
(* a timeout or a restart of the server ends the session.                  *)
ServerAbort(r) ==
    /\ tx[r] \in {"open", "commitSent"}
    /\ tx' = [tx EXCEPT ![r] = "aborted"]
    /\ Unlock(r)
    /\ UNCHANGED <<users, table, client, admins>>
-----------------------------------------------------------------------------
(* An instance dies, or its graceful shutdown runs out of time; its        *)
(* clients get no answer and its sessions are left to PostgreSQL.          *)
Crash(i) ==
    LET lost == {r \in Request : Home[r] = i /\ InFlight(r)} IN
    /\ lost # {}
    /\ pc' = [r \in Request |-> IF r \in lost THEN "crashed" ELSE pc[r]]
    /\ conn' = [r \in Request |-> IF r \in lost THEN "none" ELSE conn[r]]
    /\ UNCHANGED <<users, server, req, role, seen, result, admins>>
-----------------------------------------------------------------------------
Next ==
    \/ \E a \in AppId : Create(a)
    \/ \E u \in User : ChangeRole(u)
    \/ \E r \in Request :
          \/ Arrive(r) \/ RejectPath(r) \/ RejectToken(r)
          \/ LoadActor(r) \/ LoadActorFails(r) \/ Handle(r)
          \/ BeginTx(r) \/ BeginTxFails(r)
          \/ SelectForUpdate(r) \/ RefuseDecided(r) \/ Update(r)
          \/ StatementFails(r)
          \/ SendCommit(r) \/ CommitAcked(r) \/ CommitFails(r) \/ Rollback(r)
          \/ ServerCommit(r) \/ ServerAbort(r)
    \/ \E i \in Instance : Crash(i)

(* What r's goroutine does when nothing fails, and what it does once its   *)
(* transaction has been aborted under it.                                  *)
Progress(r) ==
    \/ RejectPath(r) \/ RejectToken(r) \/ LoadActor(r) \/ Handle(r)
    \/ BeginTx(r) \/ SelectForUpdate(r) \/ RefuseDecided(r) \/ Update(r)
    \/ SendCommit(r) \/ CommitAcked(r) \/ Rollback(r)
    \/ tx[r] = "aborted" /\ (StatementFails(r) \/ CommitFails(r))

(* What PostgreSQL does: it completes the commits it was sent, and ends    *)
(* the sessions whose client has gone.                                     *)
ServerProgress(r) ==
    \/ ServerCommit(r)
    \/ conn[r] = "none" /\ ServerAbort(r)

Fairness ==
    \A r \in Request : WF_vars(Progress(r)) /\ WF_vars(ServerProgress(r))

Spec == Init /\ [][Next]_vars
FairSpec == Spec /\ Fairness
-----------------------------------------------------------------------------
(* Correctness.                                                            *)

TypeOK ==
    /\ users \in [User -> Role]
    /\ table \in [AppId -> Row]
    /\ lock \in [AppId -> Request \cup {NoRequest}]
    /\ tx \in [Request -> {"none", "open", "commitSent", "committed", "aborted"}]
    /\ pc \in [Request -> PC]
    /\ req \in [Request -> Query \cup {NoQuery}]
    /\ role \in [Request -> Role]
    /\ seen \in [Request -> Status \cup {"unread"}]
    /\ result \in [Request -> Outcome]
    /\ conn \in [Request -> {"none", "held", "broken"}]
    /\ admins \subseteq Request

(* A client that was answered 200 finds its decision, with its reason, in  *)
(* the table from then on, whatever fails afterwards (tx.go, Commit).      *)
AckedDecisionStands ==
    \A r \in Request :
        pc[r] = "done" /\ result[r] = "ok" => table[req[r].id] = Decision(req[r])

(* Of all the requests on an application at most one ever commits, however *)
(* their SELECT ... FOR UPDATE and UPDATE interleave (service.go,          *)
(* changeDecision).                                                        *)
SingleDecision ==
    \A r, s \in Request :
        tx[r] = "committed" /\ tx[s] = "committed" /\ r # s => req[r].id # req[s].id

(* README.md draws PENDING -> ACCEPTED and PENDING -> REJECTED: no row is   *)
(* changed in any other way, by any step of any actor.                     *)
Lifecycle ==
    [][\A a \in AppId : table'[a] # table[a] =>
           \/ table[a] = Absent /\ table'[a] = Pending
           \/ table[a] = Pending /\ Decided(table'[a])]_vars

(* "application is not in PENDING status" is told only to a client that    *)
(* another request has forestalled, never because of a transaction that    *)
(* did not commit, a missing row, or the request's own decision.           *)
RefusalMeansDecided ==
    \A r \in Request :
        result[r] = "invalidState" =>
            \E s \in Request \ {r} : tx[s] = "committed" /\ req[s].id = req[r].id

(* A decision in the table was asked for by a request whose user was an    *)
(* administrator at some moment since the request arrived, not merely when *)
(* its token was issued (router.go, withAdmin).                            *)
DecisionHasAuthor ==
    \A a \in AppId : Decided(table[a]) =>
        \E r \in admins : tx[r] = "committed" /\ req[r].id = a /\ Decision(req[r]) = table[a]

(* The service never writes what the constraint of migration 003 refuses:  *)
(* TrimSpace leaves nothing that btrim still finds blank.                  *)
ConstraintNeverFires == \A r \in Request : result[r] # "constraint"

(* A rejected application carries a reason that is trimmed, not blank and  *)
(* within 750 bytes; an accepted or pending one carries none.              *)
Explained(row) ==
    IF row.status = "REJECTED"
    THEN row.reason \notin {NoReason, "", "long"} /\ TrimSpace(row.reason) = row.reason
    ELSE row.reason = NoReason

(* So it is for every application at every moment (service.go, Reject:     *)
(* TrimSpace, the blank and the length check, then the very value checked  *)
(* is stored).                                                             *)
RejectionExplained == \A a \in AppId : Explained(table[a])

(* A client that was answered 4xx has changed nothing and never will, even *)
(* when the rollback was lost on the way (tx.go, Rollback).                *)
FailureIsClean ==
    \A r \in Request :
        pc[r] = "done" /\ result[r] \notin {"ok", "internal"} =>
            tx[r] \notin {"commitSent", "committed"}

-----------------------------------------------------------------------------
(* Why it is correct: the inductive invariant, by parts.                   *)

(* The handler's place and PostgreSQL's view of its transaction agree.     *)
PhaseInv ==
    \A r \in Request :
        /\ pc[r] \in {"idle", "auth", "handle", "begin"} => tx[r] = "none"
        /\ pc[r] \in {"select", "update", "commit", "rollback"} => tx[r] \in {"open", "aborted"}
        /\ pc[r] = "committing" => tx[r] \in {"commitSent", "committed", "aborted"}
        /\ (pc[r] = "idle") <=> (req[r] = NoQuery)

(* A request that gets as far as a transaction names an application, comes *)
(* from an administrator and asks for a row that the constraint accepts.   *)
RequestInv ==
    \A r \in Request :
        /\ InFlight(r) /\ req[r].user \in User /\ users[req[r].user] = "ADMIN" => r \in admins
        /\ pc[r] = "handle" =>
               /\ req[r].id # "unparsable"
               /\ req[r].user \in User
               /\ role[r] = "ADMIN" => r \in admins
        /\ pc[r] \in {"begin", "select", "update", "commit"} \/ tx[r] # "none" =>
               /\ r \in admins
               /\ req[r].id \in AppId
               /\ Decided(Decision(req[r])) /\ CheckConstraint(Decision(req[r]))
               /\ Explained(Decision(req[r]))

(* What r has read is still so while r holds the lock, and a request about *)
(* to commit holds the lock of a row that is PENDING.                      *)
LockInv ==
    \A r \in Request :
        /\ pc[r] = "update" /\ tx[r] = "open" =>
               lock[req[r].id] = r /\ seen[r] = table[req[r].id].status
        /\ pc[r] = "update" /\ seen[r] # "PENDING" => Decided(table[req[r].id])
        /\ (pc[r] = "commit" /\ tx[r] = "open") \/ tx[r] = "commitSent" =>
               lock[req[r].id] = r /\ table[req[r].id] = Pending

(* The table holds what committed requests have written and nothing else.  *)
TableInv ==
    /\ \A r \in Request : tx[r] = "committed" => table[req[r].id] = Decision(req[r])
    /\ \A a \in AppId :
           \/ table[a] \in {Absent, Pending}
           \/ \E r \in Request : tx[r] = "committed" /\ req[r].id = a

(* What a client is, or will be, told.                                     *)
ResultInv ==
    \A r \in Request :
        /\ pc[r] \notin {"rollback", "done", "crashed"} => result[r] = "none"
        /\ pc[r] = "rollback" => result[r] \in {"notFound", "invalidState", "internal"}
        /\ pc[r] = "crashed" => result[r] \in {"none", "notFound", "invalidState", "internal"}
        /\ pc[r] = "done" => result[r] # "none"
        /\ result[r] = "ok" => tx[r] = "committed"
        /\ result[r] \notin {"none", "ok", "internal"} => tx[r] \notin {"commitSent", "committed"}
        /\ result[r] # "constraint"

(* The inductive invariant: type, control, lock, table and answers agree   *)
(* at every step of every interleaving (service.go, changeDecision, within *)
(* tx.go, WithinTransaction).                                              *)
DecisionInv ==
    TypeOK /\ PhaseInv /\ RequestInv /\ LockInv /\ TableInv /\ ResultInv /\ SingleDecision /\ RefusalMeansDecided
-----------------------------------------------------------------------------
(* Deadlock.  r waits for a connection while the pool is exhausted, and    *)
(* for the row lock of another transaction (pgxpool Acquire and Begin, and *)
(* GetByIDForUpdate); it waits for nothing else that a request holds.      *)
Waits(r, s) ==
    \/ pc[r] \in {"auth", "begin"} /\ ~FreeConnection(r) /\ s \in InUse(Home[r])
    \/ pc[r] = "select" /\ lock[req[r].id] = s

(* Who has a connection is past waiting for one, who has a row lock is     *)
(* past waiting for that too.                                              *)
HoldInv ==
    \A r \in Request :
        /\ conn[r] # "none" <=> pc[r] \in {"select", "update", "commit", "committing", "rollback"}
        /\ \A a \in AppId : lock[a] = r =>
               pc[r] \in {"update", "commit", "committing", "rollback", "done", "crashed"}

(* Requests never wait in a circle, nor even in a long row: whom a request *)
(* waits for waits at most for one that waits for nobody, however many     *)
(* requests, instances and connections there are (service.go,              *)
(* changeDecision: one connection, then one row lock, in this order).      *)
WaitsEnd ==
    \A r, s, t, u \in Request : ~(Waits(r, s) /\ Waits(s, t) /\ Waits(t, u))

(* No instance ever has more than MaxConns connections in use, and a       *)
(* request that finds them all in use waits for somebody (db.go, MaxConns).*)
PoolRespected ==
    \A i \in Instance : IsFiniteSet(InUse(i)) /\ Cardinality(InUse(i)) <= MaxConns
WaitsForSomebody ==
    \A r \in Request : ~FreeConnection(r) => \E s \in Request : s \in InUse(Home[r])
-----------------------------------------------------------------------------
(* Liveness, and the promise as a whole.                                   *)

(* Every request is answered unless its instance dies: no request waits    *)
(* for ever for a connection, a row lock or a statement.                   *)
EveryRequestAnswered ==
    \A r \in Request : pc[r] = "auth" ~> pc[r] \in {"done", "crashed"}

(* No row stays locked, even when the request that locked it has lost its  *)
(* connection or its process.                                              *)
LocksReleased ==
    \A r \in Request, a \in AppId : lock[a] = r ~> lock[a] # r

(* What the endpoints show of themselves, in the terms of DecisionRegister. *)
callBar == [r \in Request |-> [id |-> req[r].id, row |-> Decision(req[r])]]
effectiveBar == {r \in Request : tx[r] = "committed"}
answerBar ==
    [r \in Request |-> IF pc[r] # "done" THEN "none"
                      ELSE IF result[r] = "constraint" THEN "validation" ELSE result[r]]

Register == INSTANCE DecisionRegister WITH
    row <- table, call <- callBar, effective <- effectiveBar, answer <- answerBar,
    PathId <- AppId \cup BadId

(* The decision endpoints implement the write-once register: every step of *)
(* the service, of PostgreSQL or of a failure is a step of the register or *)
(* changes nothing that it shows.                                          *)
RegisterSpec == Register!Spec
==============================================================================
