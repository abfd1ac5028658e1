-------------------------------- MODULE Seeding --------------------------------
(***************************************************************************)
(* The demo seed (postgres/seed.go), which main runs after the migrations  *)
(* at each start with ENABLE_DEMO_SEED=true, on tables users and           *)
(* project_types (001_init.sql) that operators edit at any time.           *)
(*                                                                         *)
(* Its statements commit one by one, under no lock; starts may overlap and *)
(* die half way, with a statement still on its way to PostgreSQL.  The     *)
(* upsert of an account is one step, since the login is its only key that  *)
(* can conflict.  That of a type is two, the look for its id and the       *)
(* INSERT, since ON CONFLICT (id) says nothing of UNIQUE (name).           *)
(***************************************************************************)
EXTENDS Integers

CONSTANTS Boot,      \* the starts of copies of the service
          Enabled,   \* the starts with ENABLE_DEMO_SEED=true
          Password,  \* the passwords that are stored, by what they hash
          MaxEdits   \* bound: how often operators edit the tables

ASSUME BootAssumption == Enabled \subseteq Boot
ASSUME PasswordAssumption == {"admin123", "user123"} \subseteq Password
ASSUME MaxEditsAssumption == MaxEdits \in Nat

VARIABLES
    users,     \* table users: records [id, login, password, role]
    userSeq,   \* the sequence behind users.id
    types,     \* table project_types: records [id, name]
    typeSeq,   \* the sequence behind project_types.id
    boot,      \* boot[b]: where start b is in Seed
    next,      \* next[b]: the statement of Seed that b is at
    probed,    \* the starts whose INSERT of a type has found its id free
    edits,     \* how often operators have edited the tables
    failed,    \* history: the starts that met a failure
    beside,    \* history: the starts that have seeded while another one did
    disturbed, \* history: the starts whose work an operator has touched
    demoted,   \* history: the accounts that an operator has made USER
    deleted,   \* history: the accounts that an operator has deleted
    clash      \* history: an operator gave a demo name to another type

data == <<users, userSeq, types, typeSeq>>
operators == <<edits, disturbed, demoted, deleted, clash>>
seedVars == <<data, boot, next, probed, operators, failed, beside>>

Role == {"ADMIN", "USER"}
Login == {"admin", "user", "other"}
TypeName == {"Research", "Implementation", "Other"}

(* What Seed writes: two accounts, then project types 1 and 2.             *)
DemoAccount == <<[login |-> "admin", password |-> "admin123", role |-> "ADMIN"],
                 [login |-> "user",  password |-> "user123",  role |-> "USER"]>>
DemoType == <<"Research", "Implementation">>

SeedInit ==
    /\ users = {} /\ userSeq = 1
    /\ types = {} /\ typeSeq = 1
    /\ boot = [b \in Boot |-> "idle"]
    /\ next = [b \in Boot |-> 1]
    /\ probed = {} /\ edits = 0
    /\ failed = {} /\ beside = {} /\ disturbed = {} /\ demoted = {} /\ deleted = {}
    /\ clash = FALSE
-----------------------------------------------------------------------------
(* Operators.                                                              *)
Edit ==
    /\ edits < MaxEdits
    /\ edits' = edits + 1
    /\ disturbed' = disturbed \cup {b \in Boot : boot[b] # "idle"}
    /\ UNCHANGED <<boot, next, probed, failed, beside>>

AddAccount ==
    /\ \E l \in Login, p \in Password, r \in Role :
          /\ \A u \in users : u.login # l
          /\ users' = users \cup {[id |-> userSeq, login |-> l, password |-> p, role |-> r]}
    /\ userSeq' = userSeq + 1
    /\ Edit
    /\ UNCHANGED <<types, typeSeq, demoted, deleted, clash>>

ChangeAccount ==
    /\ \E u \in users, p \in Password, r \in Role :
          /\ p # u.password \/ r # u.role
          /\ users' = (users \ {u}) \cup {[u EXCEPT !.password = p, !.role = r]}
          /\ demoted' = IF r = "USER" THEN demoted \cup {u.id} ELSE demoted \ {u.id}
    /\ Edit
    /\ UNCHANGED <<userSeq, types, typeSeq, deleted, clash>>

DeleteAccount ==
    /\ \E u \in users : users' = users \ {u} /\ deleted' = deleted \cup {u.id}
    /\ Edit
    /\ UNCHANGED <<userSeq, types, typeSeq, demoted, clash>>

(* A type in table t bears a demo name and not the demo id of that name.   *)
Clashes(t) == \E row \in t, i \in 1 .. 2 : row.name = DemoType[i] /\ row.id # i

(* The id comes from the sequence, which explicit ids do not move: the     *)
(* INSERT fails when the seed has taken the id, or the name is taken.      *)
AddType ==
    /\ \E n \in TypeName :
          types' = IF \E row \in types : row.id = typeSeq \/ row.name = n THEN types
                   ELSE types \cup {[id |-> typeSeq, name |-> n]}
    /\ typeSeq' = typeSeq + 1
    /\ clash' = (clash \/ Clashes(types'))
    /\ Edit
    /\ UNCHANGED <<users, userSeq, demoted, deleted>>

RenameType ==
    /\ \E row \in types, n \in TypeName :
          /\ \A other \in types : other.name # n
          /\ types' = (types \ {row}) \cup {[row EXCEPT !.name = n]}
    /\ clash' = (clash \/ Clashes(types'))
    /\ Edit
    /\ UNCHANGED <<users, userSeq, typeSeq, demoted, deleted>>
-----------------------------------------------------------------------------
(* Seed.  A statement of start b is, or will be, with PostgreSQL.          *)
Running(b) == boot[b] \in {"exec", "orphan"}

InCompany == {b \in Boot : Running(b) /\ \E c \in Boot \ {b} : Running(c)}

StartAlwaysSeeds(b) ==
    /\ boot[b] = "idle"
    /\ boot' = [boot EXCEPT ![b] = "exec"]
    /\ beside' = beside \cup InCompany'
    /\ UNCHANGED <<data, next, probed, operators, failed>>

Start(b) ==
    /\ boot[b] = "idle"
    /\ boot' = [boot EXCEPT ![b] = IF b \in Enabled THEN "exec" ELSE "done"]
    /\ beside' = beside \cup InCompany'
    /\ UNCHANGED <<data, next, probed, operators, failed>>

Exits(b) ==
    /\ boot' = [boot EXCEPT ![b] = "exited"]
    /\ next' = [next EXCEPT ![b] = 1]
    /\ probed' = probed \ {b}

(* The process dies, or loses its connection and exits: before it has sent *)
(* its next statement or after PostgreSQL has executed it ("exited"), or   *)
(* in between ("orphan").                                                  *)
Dies(b) ==
    /\ boot[b] = "exec"
    /\ \/ Exits(b)
       \/ boot' = [boot EXCEPT ![b] = "orphan"] /\ UNCHANGED <<next, probed>>
    /\ failed' = failed \cup {b}
    /\ UNCHANGED <<data, operators, beside>>

(* The statement of a dead process never arrives, or is cancelled.         *)
Drop(b) ==
    /\ boot[b] = "orphan"
    /\ Exits(b)
    /\ UNCHANGED <<data, operators, failed, beside>>

(* PostgreSQL has executed b's statement, and b goes on to the next.       *)
Executed(b) ==
    /\ boot' = [boot EXCEPT ![b] = IF @ = "orphan" THEN "exited"
                                     ELSE IF next[b] = 4 THEN "done" ELSE "exec"]
    /\ next' = [next EXCEPT ![b] = IF boot[b] = "exec" /\ @ < 4 THEN @ + 1 ELSE 1]
    /\ probed' = probed \ {b}

(* PostgreSQL, which draws an id from the sequence before it finds that    *)
(* the login exists.                                                       *)
InsertAccountOnly(d) ==
    /\ users' = IF \E u \in users : u.login = d.login THEN users
                ELSE users \cup {[id |-> userSeq, login |-> d.login,
                                  password |-> d.password, role |-> d.role]}
    /\ userSeq' = userSeq + 1

ReplaceAccount(d) ==
    /\ users' = {u \in users : u.login # d.login}
                  \cup {[id |-> userSeq, login |-> d.login,
                         password |-> d.password, role |-> d.role]}
    /\ userSeq' = userSeq + 1

UpsertAccount(d) ==
    /\ users' = IF \E u \in users : u.login = d.login
                THEN {IF u.login = d.login
                      THEN [u EXCEPT !.password = d.password, !.role = d.role] ELSE u : u \in users}
                ELSE users \cup {[id |-> userSeq, login |-> d.login,
                                  password |-> d.password, role |-> d.role]}
    /\ userSeq' = userSeq + 1

(* The row of id i bears the demo name from now on.                        *)
PutType(i) == types' = {row \in types : row.id # i} \cup {[id |-> i, name |-> DemoType[i]]}

HasId(i) == \E row \in types : row.id = i
HasName(i) == \E row \in types : row.name = DemoType[i]

(* The seed has taken back what operators had decided about an account.    *)
Reinstated(d) == {u.id : u \in {v \in users : v.login = d.login}}

ExecuteAccount(b) ==
    /\ Running(b) /\ next[b] \in 1 .. 2
    /\ LET d == DemoAccount[next[b]] IN
          /\ UpsertAccount(d)
          /\ demoted' = IF b \in Enabled THEN demoted \ Reinstated(d) ELSE demoted
    /\ Executed(b)
    /\ UNCHANGED <<types, typeSeq, edits, disturbed, deleted, clash, failed, beside>>

(* A type.  PostgreSQL finds the id and updates the row, which UNIQUE      *)
(* (name) refuses when another row bears the name: then Seed returns the   *)
(* error and main exits.                                                   *)
NameTakenOrId(i) == \E row \in types : row.name = DemoType[i] \/ row.id = i

NameTaken(i) == \E row \in types : row.name = DemoType[i] /\ row.id # i

UpdateType(b) ==
    /\ Running(b) /\ next[b] \in 3 .. 4 /\ b \notin probed
    /\ LET i == next[b] - 2 IN
          /\ HasId(i)
          /\ IF NameTaken(i) THEN Exits(b) /\ UNCHANGED types
                            ELSE Executed(b) /\ PutType(i)
    /\ UNCHANGED <<users, userSeq, typeSeq, operators, failed, beside>>

(* Or it does not find it and goes on to insert.                           *)
ProbeType(b) ==
    /\ Running(b) /\ next[b] \in 3 .. 4 /\ b \notin probed
    /\ ~HasId(next[b] - 2)
    /\ probed' = probed \cup {b}
    /\ UNCHANGED <<data, boot, next, operators, failed, beside>>

(* By then a row may bear the name, even the very row of another start,    *)
(* and UNIQUE (name) refuses; or only the id, and it looks again.          *)
InsertType(b) ==
    /\ b \in probed
    /\ LET i == next[b] - 2 IN
          \/ HasName(i) /\ Exits(b) /\ UNCHANGED types
          \/ /\ ~HasName(i) /\ HasId(i)
             /\ probed' = probed \ {b} /\ UNCHANGED <<types, boot, next>>
          \/ ~HasName(i) /\ ~HasId(i) /\ Executed(b) /\ PutType(i)
    /\ UNCHANGED <<users, userSeq, typeSeq, operators, failed, beside>>
-----------------------------------------------------------------------------
Operator == AddAccount \/ ChangeAccount \/ DeleteAccount \/ AddType \/ RenameType
ExecuteType(b) == UpdateType(b) \/ ProbeType(b) \/ InsertType(b)
Seed(b) == Start(b) \/ Dies(b) \/ Drop(b) \/ ExecuteAccount(b) \/ ExecuteType(b)

SeedNext == Operator \/ \E b \in Boot : Seed(b)

SeedSpec == SeedInit /\ [][SeedNext]_seedVars
-----------------------------------------------------------------------------
Account == [id : Nat \ {0}, login : Login, password : Password, role : Role]

SeedTypeOK ==
    /\ users \subseteq Account /\ userSeq \in Nat \ {0}
    /\ types \subseteq [id : Nat \ {0}, name : TypeName] /\ typeSeq \in Nat \ {0}
    /\ boot \in [Boot -> {"idle", "exec", "done", "exited", "orphan"}]
    /\ next \in [Boot -> 1 .. 4]
    /\ edits \in 0 .. MaxEdits
    /\ probed \subseteq Boot
    /\ failed \subseteq Boot /\ beside \subseteq Boot /\ disturbed \subseteq Boot
    /\ demoted \subseteq Nat /\ deleted \subseteq Nat
    /\ clash \in BOOLEAN

(* An account that an operator has made USER is not ADMIN again unless an  *)
(* operator or a start with ENABLE_DEMO_SEED=true makes it so (main.go 42).*)
DemotedStaysDown ==
    \A u \in users : u.id \in demoted => u.role = "USER"

DemoData ==
    /\ \A i \in 1 .. 2 : \E u \in users :
          /\ u.login = DemoAccount[i].login
          /\ u.password = DemoAccount[i].password /\ u.role = DemoAccount[i].role
    /\ \A i \in 1 .. 2 : [id |-> i, name |-> DemoType[i]] \in types

(* A start whose seed has run leaves the demo data complete, whatever was  *)
(* there before and whichever other starts seed or die meanwhile, as long  *)
(* as no operator edits (seed.go 72-76).                                   *)
SeededUnlessEdited ==
    \A b \in Enabled : boot[b] = "done" /\ b \notin disturbed => DemoData

(* "Idempotent demo seed" (README.md 29): a start that meets no failure    *)
(* gets through the seed however often it has run, in part or in whole,    *)
(* whether its rows are there or others bear its ids, unless an operator   *)
(* has given a demo name to another type or edits while it seeds, or       *)
(* another start seeds beside it (seed.go 72-76).                          *)
AloneSeedGetsThrough ==
    \A b \in Boot : boot[b] = "exited" /\ b \notin failed =>
        clash \/ b \in disturbed \/ b \in beside

(* Starts change nothing but the demo rows, and those in place: rows keep  *)
(* their ids, other accounts and types stay as operators left them.        *)
SeedKeepsTheRest ==
    [][edits' = edits =>
          /\ \A row \in types : row.id \notin 1 .. 2 => row \in types'
          /\ \A u \in users : \E v \in users' :
                /\ v.id = u.id /\ v.login = u.login
                /\ u.login = "other" => v = u]_seedVars
-----------------------------------------------------------------------------
(* The inductive invariant, in parts.  Keys are unique and drawn from a    *)
(* sequence.                                                               *)
RowsInv ==
    /\ \A u, v \in users : u.login = v.login \/ u.id = v.id => u = v
    /\ \A u \in users : u.id < userSeq
    /\ \A n \in demoted : n < userSeq
    /\ \A r, s \in types : r.id = s.id \/ r.name = s.name => r = s

(* What statement n of Seed brings about.                                  *)
Placed(n) ==
    IF n <= 2
    THEN \E u \in users : /\ u.login = DemoAccount[n].login
                          /\ u.password = DemoAccount[n].password
                          /\ u.role = DemoAccount[n].role
    ELSE [id |-> n - 2, name |-> DemoType[n - 2]] \in types

(* What a start has executed is in place, until an operator edits.         *)
ProgressInv ==
    \A b \in Enabled \ disturbed, n \in 1 .. 4 :
        boot[b] = "done" \/ (boot[b] = "exec" /\ n < next[b]) => Placed(n)

StartInv ==
    \A b \in Boot :
        /\ Running(b) => b \in Enabled
        /\ boot[b] = "orphan" => b \in failed
        /\ boot[b] = "idle" => next[b] = 1
        /\ b \in probed => Running(b) /\ next[b] \in 3 .. 4

(* A start that inserts a type has its id to itself, unless it is not      *)
(* alone.                                                                  *)
AloneInv ==
    /\ InCompany \subseteq beside
    /\ \A b \in probed : HasId(next[b] - 2) => b \in disturbed \/ b \in beside

SeedInv ==
    /\ SeedTypeOK /\ RowsInv /\ ProgressInv /\ StartInv /\ AloneInv
    /\ DemotedStaysDown /\ AloneSeedGetsThrough
    /\ Clashes(types) => clash
==============================================================================
