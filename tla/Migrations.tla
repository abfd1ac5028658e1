------------------------------ MODULE Migrations ------------------------------
(***************************************************************************)
(* postgres.RunMigrations (migrations.go), as main calls it at each start: *)
(* copies of the service that start together, die half way and are started *)
(* again, against one database.                                            *)
(*                                                                         *)
(* A boot is one run of the program; a restart is another boot.  What a    *)
(* boot's session is to PostgreSQL (session, tx, work, advisory) outlives  *)
(* the boot until PostgreSQL notices that the client has gone.             *)
(***************************************************************************)
EXTENDS Integers, FiniteSets, Sequences

CONSTANTS Boot,   \* the runs of the program, on any number of hosts
          NoBoot  \* the owner of a free advisory lock

ASSUME NoBootAssumption == NoBoot \notin Boot

(* The files of migrations/, in the order of their names.                  *)
Version == 1 .. 3

VARIABLES
    registered, \* the versions in table schema_migrations
    journal,    \* table schema_migrations exists
    schema,     \* the tables of 001 exist; the constraint is of 002 or 003
    legacy,     \* some row violates the constraint that 002 adds
    advisory,   \* the boot whose session holds the advisory lock
    pc,         \* pc[b]: where boot b is
    next,       \* next[b]: the version b is looking at
    session,    \* session[b]: b's connection, as PostgreSQL knows it
    tx,         \* tx[b]: the state of b's transaction
    line,       \* line[b]: the statement of its file that b's transaction is at
    work,       \* work[b]: the schema in b's transaction, or NoWork
    outcome     \* outcome[b]: what RunMigrations returns in b

database == <<registered, journal, schema, legacy>>
vars == <<registered, journal, schema, legacy, advisory, pc, next, session, tx, line, work,
          outcome>>

Schema == [tables : BOOLEAN, constraint : {"none", "002", "003"}]
NoWork == [tables |-> FALSE, constraint |-> "noWork"]

Ended == {"running", "exited", "crashed"}
PC == {"down", "lock", "journal", "check", "exec", "register", "commit", "committing",
       "unlock"} \cup Ended

(* What a database looks like in which the first k migrations were applied.*)
SchemaOf(k) == [tables |-> k >= 1,
                constraint |-> IF k = 3 THEN "003" ELSE IF k = 2 THEN "002" ELSE "none"]

(* A database of any earlier release, or one whose tables are older than   *)
(* the journal (001 says IF NOT EXISTS).                                   *)
Init ==
    /\ \E k \in 0 .. 3 :
          /\ registered = 1 .. k
          /\ journal \in {j \in BOOLEAN : k > 0 => j}
          /\ schema \in {SchemaOf(k)} \cup (IF k = 0 THEN {SchemaOf(1)} ELSE {})
          /\ legacy \in {l \in BOOLEAN : l => schema.tables /\ k <= 1}
    /\ advisory = NoBoot
    /\ pc = [b \in Boot |-> "down"]
    /\ next = [b \in Boot |-> 1]
    /\ session = [b \in Boot |-> "none"]
    /\ tx = [b \in Boot |-> "none"]
    /\ line = [b \in Boot |-> 1]
    /\ work = [b \in Boot |-> NoWork]
    /\ outcome = [b \in Boot |-> "none"]
-----------------------------------------------------------------------------
(* The statements of each file: 001 creates what is missing, 002 adds the  *)
(* constraint, 003 drops the constraint there is and adds its own.         *)
File == << <<"create">>, <<"add">>, <<"drop", "add">> >>

(* What statement k of file v makes of schema s.                           *)
Apply(v, k, s) ==
    CASE File[v][k] = "create" -> [s EXCEPT !.tables = TRUE]
      [] File[v][k] = "drop"   -> [s EXCEPT !.constraint = "none"]
      [] File[v][k] = "add"    -> [s EXCEPT !.constraint = IF v = 2 THEN "002" ELSE "003"]

(* A constraint is added to a table that exists, under a name that is free *)
(* and over rows that satisfy it.                                          *)
Refused(v, k, s) ==
    /\ File[v][k] # "create"
    /\ ~s.tables \/ (File[v][k] = "add" /\ (legacy \/ s.constraint # "none"))

Goto(b, l) == pc' = [pc EXCEPT ![b] = l]

(* RunMigrations is about to return; its deferred unlock comes first.      *)
Return(b, o) == Goto(b, "unlock") /\ outcome' = [outcome EXCEPT ![b] = o]
-----------------------------------------------------------------------------
Start(b) ==
    /\ pc[b] = "down"
    /\ Goto(b, "lock")
    /\ session' = [session EXCEPT ![b] = "live"]
    /\ UNCHANGED <<database, advisory, next, tx, line, work, outcome>>

StartFails(b) ==
    /\ pc[b] = "down"
    /\ Goto(b, "exited")
    /\ outcome' = [outcome EXCEPT ![b] = "lost"]
    /\ UNCHANGED <<database, advisory, next, session, tx, line, work>>

(* SELECT pg_advisory_lock($1)                                             *)
LockNotExclusive(b) ==
    /\ pc[b] = "lock"
    /\ advisory' = b
    /\ Goto(b, "journal")
    /\ UNCHANGED <<database, next, session, tx, line, work, outcome>>

Lock(b) ==
    /\ pc[b] = "lock" /\ advisory = NoBoot
    /\ advisory' = b
    /\ Goto(b, "journal")
    /\ UNCHANGED <<database, next, session, tx, line, work, outcome>>

(* CREATE TABLE IF NOT EXISTS schema_migrations                            *)
CreateJournal(b) ==
    /\ pc[b] = "journal"
    /\ journal' = TRUE
    /\ Goto(b, "check")
    /\ UNCHANGED <<registered, schema, legacy, advisory, next, session, tx, line, work, outcome>>

(* One turn of the loop: the end, a version already registered, or one to  *)
(* apply in a new transaction.                                             *)
CheckEveryVersion(b) ==
    /\ pc[b] = "check"
    /\ \/ /\ next[b] \notin Version
          /\ Return(b, "ok") /\ UNCHANGED <<next, tx, line>>
       \/ /\ next[b] \in Version
          /\ tx' = [tx EXCEPT ![b] = "open"] /\ line' = [line EXCEPT ![b] = 1]
          /\ Goto(b, "exec") /\ UNCHANGED <<next, outcome>>
    /\ UNCHANGED <<database, advisory, session, work>>

CheckAdvancesTwice(b) ==
    /\ pc[b] = "check"
    /\ \/ /\ next[b] \notin Version
          /\ Return(b, "ok") /\ UNCHANGED <<next, tx, line>>
       \/ /\ next[b] \in Version \cap registered
          /\ next' = [next EXCEPT ![b] = @ + 2]
          /\ UNCHANGED <<pc, tx, line, outcome>>
       \/ /\ next[b] \in Version \ registered
          /\ tx' = [tx EXCEPT ![b] = "open"] /\ line' = [line EXCEPT ![b] = 1]
          /\ Goto(b, "exec") /\ UNCHANGED <<next, outcome>>
    /\ UNCHANGED <<database, advisory, session, work>>

Check(b) ==
    /\ pc[b] = "check"
    /\ \/ /\ next[b] \notin Version
          /\ Return(b, "ok") /\ UNCHANGED <<next, tx, line>>
       \/ /\ next[b] \in Version \cap registered
          /\ next' = [next EXCEPT ![b] = @ + 1]
          /\ UNCHANGED <<pc, tx, line, outcome>>
       \/ /\ next[b] \in Version \ registered
          /\ tx' = [tx EXCEPT ![b] = "open"] /\ line' = [line EXCEPT ![b] = 1]
          /\ Goto(b, "exec") /\ UNCHANGED <<next, outcome>>
    /\ UNCHANGED <<database, advisory, session, work>>

(* tx.Exec of the file: its statements, one after the other, within the    *)
(* transaction.  Each waits for the table locks of any other migration.  A *)
(* refusal makes the file fail, and the transaction is rolled back.        *)
Seen(b) == IF line[b] = 1 THEN schema ELSE work[b]

ExecAutocommit(b) ==
    /\ pc[b] = "exec" /\ tx[b] = "open"
    /\ IF Refused(next[b], line[b], schema)
       THEN Return(b, "refused") /\ tx' = [tx EXCEPT ![b] = "none"]
            /\ UNCHANGED <<schema, line, work>>
       ELSE /\ schema' = Apply(next[b], line[b], schema)
            /\ work' = [work EXCEPT ![b] = schema']
            /\ IF line[b] < Len(File[next[b]])
               THEN line' = [line EXCEPT ![b] = @ + 1] /\ UNCHANGED pc
               ELSE Goto(b, "register") /\ UNCHANGED line
            /\ UNCHANGED <<tx, outcome>>
    /\ UNCHANGED <<registered, journal, legacy, advisory, next, session>>

Exec(b) ==
    /\ pc[b] = "exec" /\ tx[b] = "open"
    /\ \A c \in Boot \ {b} : work[c] = NoWork
    /\ IF Refused(next[b], line[b], Seen(b))
       THEN /\ Return(b, "refused") /\ tx' = [tx EXCEPT ![b] = "none"]
            /\ work' = [work EXCEPT ![b] = NoWork]
            /\ UNCHANGED line
       ELSE /\ work' = [work EXCEPT ![b] = Apply(next[b], line[b], Seen(b))]
            /\ IF line[b] < Len(File[next[b]])
               THEN line' = [line EXCEPT ![b] = @ + 1] /\ UNCHANGED pc
               ELSE Goto(b, "register") /\ UNCHANGED line
            /\ UNCHANGED <<tx, outcome>>
    /\ UNCHANGED <<database, advisory, next, session>>

(* INSERT INTO schema_migrations, within the same transaction.             *)
Register(b) ==
    /\ pc[b] = "register" /\ tx[b] = "open"
    /\ IF next[b] \in registered
       THEN /\ Return(b, "duplicate") /\ tx' = [tx EXCEPT ![b] = "none"]
            /\ work' = [work EXCEPT ![b] = NoWork]
       ELSE Goto(b, "commit") /\ UNCHANGED <<outcome, tx, work>>
    /\ UNCHANGED <<database, advisory, next, session, line>>

SendCommit(b) ==
    /\ pc[b] = "commit" /\ tx[b] = "open"
    /\ tx' = [tx EXCEPT ![b] = "commitSent"]
    /\ Goto(b, "committing")
    /\ UNCHANGED <<database, advisory, next, session, line, work, outcome>>

CommitAcked(b) ==
    /\ pc[b] = "committing" /\ tx[b] = "committed" /\ session[b] = "live"
    /\ tx' = [tx EXCEPT ![b] = "none"]
    /\ next' = [next EXCEPT ![b] = @ + 1]
    /\ Goto(b, "check")
    /\ UNCHANGED <<database, advisory, session, line, work, outcome>>

(* A statement fails and its transaction is rolled back, or the connection *)
(* is lost, maybe after the advisory lock was granted to it.               *)
StatementFails(b) ==
    /\ pc[b] \in {"lock", "journal", "check", "exec", "register"}
    /\ Return(b, "lost")
    /\ \/ /\ tx' = [tx EXCEPT ![b] = "none"] /\ work' = [work EXCEPT ![b] = NoWork]
          /\ UNCHANGED <<session, advisory>>
       \/ /\ session' = [session EXCEPT ![b] = "orphan"]
          /\ UNCHANGED <<tx, work>>
          /\ \/ UNCHANGED advisory
             \/ pc[b] = "lock" /\ advisory = NoBoot /\ advisory' = b
    /\ UNCHANGED <<database, next, line>>

(* Commit fails: pgx closes the connection, PostgreSQL decides.            *)
CommitFails(b) ==
    /\ pc[b] \in {"commit", "committing"}
    /\ Return(b, "lost")
    /\ session' = [session EXCEPT ![b] = "orphan"]
    /\ UNCHANGED <<database, advisory, next, tx, line, work>>

Disconnect(b) == session' = [session EXCEPT ![b] = IF @ = "live" THEN "orphan" ELSE @]

(* The deferred pg_advisory_unlock and conn.Release; main goes on to serve *)
(* or exits.  On a broken connection the unlock fails, and is ignored.     *)
UnlockForgotten(b) ==
    /\ pc[b] = "unlock"
    /\ Goto(b, IF outcome[b] = "ok" THEN "running" ELSE "exited")
    /\ UNCHANGED <<database, advisory, next, session, tx, line, work, outcome>>

Unlock(b) ==
    /\ pc[b] = "unlock"
    /\ Goto(b, IF outcome[b] = "ok" THEN "running" ELSE "exited")
    /\ \/ /\ session[b] = "live"
          /\ advisory' = IF advisory = b THEN NoBoot ELSE advisory
          /\ session' = [session EXCEPT ![b] = "none"]
       \/ /\ Disconnect(b)
          /\ UNCHANGED advisory
    /\ UNCHANGED <<database, next, tx, line, work, outcome>>

(* The process dies at any moment.                                         *)
Crash(b) ==
    /\ pc[b] \notin {"down"} \cup Ended
    /\ Goto(b, "crashed")
    /\ Disconnect(b)
    /\ UNCHANGED <<database, advisory, next, tx, line, work, outcome>>
-----------------------------------------------------------------------------
(* PostgreSQL.                                                             *)

ServerCommit(b) ==
    /\ tx[b] = "commitSent"
    /\ tx' = [tx EXCEPT ![b] = "committed"]
    /\ registered' = registered \cup {next[b]}
    /\ schema' = work[b]
    /\ work' = [work EXCEPT ![b] = NoWork]
    /\ UNCHANGED <<journal, legacy, advisory, pc, next, session, line, outcome>>

(* A session whose client has gone is ended: its transaction is dropped    *)
(* and its advisory lock is released.                                      *)
ServerEndsSession(b) ==
    /\ session[b] = "orphan"
    /\ session' = [session EXCEPT ![b] = "none"]
    /\ tx' = [tx EXCEPT ![b] = "none"]
    /\ work' = [work EXCEPT ![b] = NoWork]
    /\ advisory' = IF advisory = b THEN NoBoot ELSE advisory
    /\ UNCHANGED <<database, pc, next, line, outcome>>
-----------------------------------------------------------------------------
Progress(b) ==
    \/ Lock(b) \/ CreateJournal(b) \/ Check(b) \/ Exec(b) \/ Register(b)
    \/ SendCommit(b) \/ CommitAcked(b) \/ Unlock(b)

Next ==
    \E b \in Boot :
        \/ Start(b) \/ StartFails(b) \/ Progress(b)
        \/ StatementFails(b) \/ CommitFails(b) \/ Crash(b)
        \/ ServerCommit(b) \/ ServerEndsSession(b)

(* A boot goes on unless it fails or dies, PostgreSQL completes commits    *)
(* and clears away the sessions of the dead.                               *)
Fairness ==
    \A b \in Boot :
        WF_vars(Progress(b)) /\ WF_vars(ServerCommit(b)) /\ WF_vars(ServerEndsSession(b))

Spec == Init /\ [][Next]_vars
FairSpec == Spec /\ Fairness
-----------------------------------------------------------------------------
(* Correctness.                                                            *)

TypeOK ==
    /\ registered \subseteq Version
    /\ journal \in BOOLEAN /\ legacy \in BOOLEAN
    /\ schema \in Schema
    /\ advisory \in Boot \cup {NoBoot}
    /\ pc \in [Boot -> PC]
    /\ next \in [Boot -> 1 .. 4]
    /\ session \in [Boot -> {"none", "live", "orphan"}]
    /\ tx \in [Boot -> {"none", "open", "commitSent", "committed"}]
    /\ line \in [Boot -> 1 .. 2]
    /\ work \in [Boot -> Schema \cup {NoWork}]
    /\ outcome \in [Boot -> {"none", "ok", "refused", "duplicate", "lost"}]

(* The journal tells the truth: after any crash the registered versions    *)
(* are a prefix of the files and the schema is what they make (migrations. *)
(* go runs the file and its registration in one transaction).              *)
SchemaMatchesJournal ==
    \E k \in 0 .. 3 :
        /\ registered = 1 .. k
        /\ schema = SchemaOf(k) \/ (k = 0 /\ schema = SchemaOf(1))

(* A copy that serves requests does so on the schema it was written for.   *)
ReadyMeansMigrated ==
    \A b \in Boot : pc[b] = "running" => registered = Version /\ schema = SchemaOf(3)

(* README.md: the advisory lock keeps concurrent starts from racing.  No   *)
(* two transactions of migrations are ever open together, those of dead    *)
(* boots included.                                                         *)
OneMigrator ==
    \A b, c \in Boot :
        tx[b] \in {"open", "commitSent"} /\ tx[c] \in {"open", "commitSent"} => b = c

(* A migration is refused only because of rows it cannot accept: never for *)
(* having been applied before, by this boot, a concurrent or a dead one.   *)
RefusedOnlyForLegacyRows ==
    \A b \in Boot : outcome[b] \in {"refused", "duplicate"} => legacy

(* Once status and reason are tied by a constraint they stay so: no one    *)
(* ever sees the database between the DROP and the ADD of 003, even when   *)
(* the copy that runs the file fails, dies or is cut off between them.     *)
ConstraintNeverLost ==
    [][schema.constraint # "none" => schema'.constraint # "none"]_vars

(* What the copies make of the database, in the terms of MigrationLedger.  *)
appliedBar == Cardinality(registered)
servingBar == {b \in Boot : pc[b] = "running"}
Ledger == INSTANCE MigrationLedger
              WITH Latest <- 3, Made <- [k \in 0 .. 3 |-> SchemaOf(k)],
                   applied <- appliedBar, serving <- servingBar

(* Copies that start together, die and are started again implement the     *)
(* ledger: whoever looks at the database sees a migration whole or not at  *)
(* all, each once and in order, and all of them before a copy serves       *)
(* (migrations.go 17-95, main.go).                                         *)
LedgerSpec == Ledger!Spec

(* Every start ends, in service or with an error: no boot waits for ever   *)
(* for the advisory lock.                                                  *)
EveryBootEnds ==
    \A b \in Boot : pc[b] = "lock" ~> pc[b] \in Ended
-----------------------------------------------------------------------------
(* The inductive invariant, in parts.  Who applies migrations holds the    *)
(* advisory lock, as long as its transaction may still commit; what it     *)
(* applies is the first version that is missing, to the schema as it is.   *)
Holding == {"journal", "check", "exec", "register", "commit", "committing"}
AfterFile(v, s) == IF v = 3 THEN Apply(3, 2, Apply(3, 1, s)) ELSE Apply(v, 1, s)
Applied(b) == \A v \in Version : v < next[b] => v \in registered

LockInv ==
    \A b \in Boot :
        /\ pc[b] \in Holding \/ tx[b] # "none" => advisory = b
        /\ pc[b] \in Holding \cup {"lock"} => session[b] = "live"
        /\ pc[b] \in {"down", "lock", "journal", "check"} => tx[b] = "none"
        /\ pc[b] = "unlock" /\ session[b] = "live" => tx[b] = "none"
        /\ work[b] # NoWork => tx[b] \in {"open", "commitSent"}

PhaseInv ==
    \A b \in Boot :
        /\ pc[b] \in {"down", "lock", "journal"} => next[b] = 1
        /\ pc[b] \in Holding => Applied(b)
        /\ pc[b] \in {"exec", "register", "commit"} => tx[b] = "open"
        /\ pc[b] = "committing" => tx[b] \in {"commitSent", "committed"}
        /\ pc[b] \in {"exec", "register", "commit"} \/ tx[b] = "commitSent" =>
              next[b] \in Version \ registered /\ Applied(b)
        /\ pc[b] \in {"register", "commit"} \/ tx[b] = "commitSent" =>
              work[b] = AfterFile(next[b], schema)
        /\ pc[b] = "exec" /\ line[b] = 1 => work[b] = NoWork
        /\ pc[b] = "exec" /\ line[b] = 2 => next[b] = 3 /\ work[b] = Apply(3, 1, schema)
        /\ tx[b] = "committed" => next[b] \in registered /\ Applied(b)
        /\ outcome[b] = "ok" => registered = Version
        /\ pc[b] = "running" => outcome[b] = "ok"

MigrationInv ==
    TypeOK /\ LockInv /\ PhaseInv /\ SchemaMatchesJournal /\ RefusedOnlyForLegacyRows
==============================================================================
