--------------------------- MODULE MigrationsProofs ---------------------------
(***************************************************************************)
(* Proofs about module Migrations, for any number of boots.  One inductive *)
(* invariant, MigrationInv; the rest follows from it.                      *)
(***************************************************************************)
EXTENDS Migrations, FiniteSetTheorems, TLAPS

(* The statements of the files.                                            *)
LEMMA FileLines ==
    /\ Len(File[1]) = 1 /\ Len(File[2]) = 1 /\ Len(File[3]) = 2
    /\ File[1][1] = "create" /\ File[2][1] = "add" /\ File[3][1] = "drop" /\ File[3][2] = "add"
<1>1. File[1] = <<"create">> /\ File[2] = <<"add">> /\ File[3] = <<"drop", "add">>
  BY DEF File
<1> QED  BY <1>1

(* What each statement makes of a schema.                                  *)
LEMMA ApplyForms ==
    ASSUME NEW s \in Schema
    PROVE  /\ Apply(1, 1, s) \in Schema
           /\ Apply(1, 1, s).tables = TRUE /\ Apply(1, 1, s).constraint = s.constraint
           /\ Apply(2, 1, s) \in Schema
           /\ Apply(2, 1, s).tables = s.tables /\ Apply(2, 1, s).constraint = "002"
           /\ Apply(3, 1, s) \in Schema
           /\ Apply(3, 1, s).tables = s.tables /\ Apply(3, 1, s).constraint = "none"
           /\ Apply(3, 2, s) \in Schema
           /\ Apply(3, 2, s).tables = s.tables /\ Apply(3, 2, s).constraint = "003"
<1>1. /\ Apply(1, 1, s) \in Schema
      /\ Apply(1, 1, s).tables = TRUE /\ Apply(1, 1, s).constraint = s.constraint
  <2>1. Apply(1, 1, s) = [s EXCEPT !.tables = TRUE]
    BY FileLines DEF Apply
  <2>2. [s EXCEPT !.tables = TRUE] \in Schema
    BY DEF Schema
  <2>3. [s EXCEPT !.tables = TRUE].tables = TRUE
    BY DEF Schema
  <2>4. [s EXCEPT !.tables = TRUE].constraint = s.constraint
    BY DEF Schema
  <2> QED  BY <2>1, <2>2, <2>3, <2>4
<1>2. /\ Apply(2, 1, s) \in Schema
      /\ Apply(2, 1, s).tables = s.tables /\ Apply(2, 1, s).constraint = "002"
  <2>1. Apply(2, 1, s) = [s EXCEPT !.constraint = "002"]
    BY FileLines DEF Apply
  <2>2. [s EXCEPT !.constraint = "002"] \in Schema
    BY DEF Schema
  <2>3. [s EXCEPT !.constraint = "002"].tables = s.tables
    BY DEF Schema
  <2>4. [s EXCEPT !.constraint = "002"].constraint = "002"
    BY DEF Schema
  <2> QED  BY <2>1, <2>2, <2>3, <2>4
<1>3. /\ Apply(3, 1, s) \in Schema
      /\ Apply(3, 1, s).tables = s.tables /\ Apply(3, 1, s).constraint = "none"
  <2>1. Apply(3, 1, s) = [s EXCEPT !.constraint = "none"]
    BY FileLines DEF Apply
  <2>2. [s EXCEPT !.constraint = "none"] \in Schema
    BY DEF Schema
  <2>3. [s EXCEPT !.constraint = "none"].tables = s.tables
    BY DEF Schema
  <2>4. [s EXCEPT !.constraint = "none"].constraint = "none"
    BY DEF Schema
  <2> QED  BY <2>1, <2>2, <2>3, <2>4
<1>4. /\ Apply(3, 2, s) \in Schema
      /\ Apply(3, 2, s).tables = s.tables /\ Apply(3, 2, s).constraint = "003"
  <2>1. Apply(3, 2, s) = [s EXCEPT !.constraint = "003"]
    BY FileLines DEF Apply
  <2>2. [s EXCEPT !.constraint = "003"] \in Schema
    BY DEF Schema
  <2>3. [s EXCEPT !.constraint = "003"].tables = s.tables
    BY DEF Schema
  <2>4. [s EXCEPT !.constraint = "003"].constraint = "003"
    BY DEF Schema
  <2> QED  BY <2>1, <2>2, <2>3, <2>4
<1> QED  BY <1>1, <1>2, <1>3, <1>4

(* What a file makes of a schema.                                          *)
LEMMA FileForms ==
    ASSUME NEW s \in Schema
    PROVE  /\ AfterFile(1, s) \in Schema
           /\ AfterFile(1, s).tables = TRUE /\ AfterFile(1, s).constraint = s.constraint
           /\ AfterFile(2, s) \in Schema
           /\ AfterFile(2, s).tables = s.tables /\ AfterFile(2, s).constraint = "002"
           /\ AfterFile(3, s) \in Schema
           /\ AfterFile(3, s).tables = s.tables /\ AfterFile(3, s).constraint = "003"
<1>1. AfterFile(1, s) = Apply(1, 1, s) /\ AfterFile(2, s) = Apply(2, 1, s)
  BY DEF AfterFile
<1>2. AfterFile(3, s) = Apply(3, 2, Apply(3, 1, s))
  BY DEF AfterFile
<1>3. Apply(3, 1, s) \in Schema /\ Apply(3, 1, s).tables = s.tables
  BY ApplyForms
<1>4. /\ Apply(3, 2, Apply(3, 1, s)) \in Schema
      /\ Apply(3, 2, Apply(3, 1, s)).tables = s.tables
      /\ Apply(3, 2, Apply(3, 1, s)).constraint = "003"
  BY <1>3, ApplyForms, Zenon
<1>5. /\ AfterFile(1, s) \in Schema
      /\ AfterFile(1, s).tables = TRUE /\ AfterFile(1, s).constraint = s.constraint
  <2>1. /\ Apply(1, 1, s) \in Schema
        /\ Apply(1, 1, s).tables = TRUE /\ Apply(1, 1, s).constraint = s.constraint
    BY ApplyForms
  <2> QED  BY <1>1, <2>1, Zenon
<1>6. /\ AfterFile(2, s) \in Schema
      /\ AfterFile(2, s).tables = s.tables /\ AfterFile(2, s).constraint = "002"
  <2>1. /\ Apply(2, 1, s) \in Schema
        /\ Apply(2, 1, s).tables = s.tables /\ Apply(2, 1, s).constraint = "002"
    BY ApplyForms
  <2> QED  BY <1>1, <2>1, Zenon
<1>7. /\ AfterFile(3, s) \in Schema
      /\ AfterFile(3, s).tables = s.tables /\ AfterFile(3, s).constraint = "003"
  BY <1>2, <1>4, Zenon
<1> QED  BY <1>5, <1>6, <1>7

(* What migrations make of a schema is a schema.                           *)
LEMMA SchemaForms ==
    /\ NoWork \notin Schema
    /\ \A s \in Schema : /\ Apply(1, 1, s) \in Schema /\ Apply(2, 1, s) \in Schema
                         /\ Apply(3, 1, s) \in Schema /\ Apply(3, 2, s) \in Schema
    /\ \A v \in Version, s \in Schema : AfterFile(v, s) \in Schema
<1>1. NoWork \notin Schema
  BY DEF NoWork, Schema
<1>2. \A v \in Version : v = 1 \/ v = 2 \/ v = 3
  BY DEF Version
<1> QED  BY <1>1, <1>2, ApplyForms, FileForms

(* The schemas after no, one, two and three migrations.                    *)
LEMMA SchemaValues ==
    /\ SchemaOf(0) = [tables |-> FALSE, constraint |-> "none"]
    /\ SchemaOf(1) = [tables |-> TRUE, constraint |-> "none"]
    /\ SchemaOf(2) = [tables |-> TRUE, constraint |-> "002"]
    /\ SchemaOf(3) = [tables |-> TRUE, constraint |-> "003"]
    /\ \A k \in 0 .. 3 : SchemaOf(k) \in Schema
<1>1. /\ (0 >= 1) = FALSE /\ (1 >= 1) = TRUE /\ (2 >= 1) = TRUE /\ (3 >= 1) = TRUE
      /\ 0 # 3 /\ 0 # 2 /\ 1 # 3 /\ 1 # 2 /\ 2 # 3
  OBVIOUS
<1>2. /\ SchemaOf(0) = [tables |-> 0 >= 1, constraint |-> "none"]
      /\ SchemaOf(1) = [tables |-> 1 >= 1, constraint |-> "none"]
      /\ SchemaOf(2) = [tables |-> 2 >= 1, constraint |-> "002"]
      /\ SchemaOf(3) = [tables |-> 3 >= 1, constraint |-> "003"]
  BY <1>1 DEF SchemaOf
<1>3. \A t \in BOOLEAN, c \in {"none", "002", "003"} : [tables |-> t, constraint |-> c] \in Schema
  BY DEF Schema
<1>4. SchemaOf(0) \in Schema /\ SchemaOf(1) \in Schema /\ SchemaOf(2) \in Schema /\ SchemaOf(3) \in Schema
  BY <1>1, <1>2, <1>3, Zenon
<1>5. \A k \in 0 .. 3 : k = 0 \/ k = 1 \/ k = 2 \/ k = 3
  OBVIOUS
<1> QED BY <1>1, <1>2, <1>4, <1>5

(* Each file makes what its number says of what the one before made.       *)
LEMMA ApplyInOrder ==
    /\ AfterFile(1, SchemaOf(0)) = SchemaOf(1) /\ AfterFile(1, SchemaOf(1)) = SchemaOf(1)
    /\ AfterFile(2, SchemaOf(1)) = SchemaOf(2) /\ AfterFile(3, SchemaOf(2)) = SchemaOf(3)
<1>1. ASSUME NEW s \in Schema, NEW t \in Schema,
             s.tables = t.tables, s.constraint = t.constraint
      PROVE  s = t
  BY <1>1 DEF Schema
<1>2. /\ SchemaOf(0) \in Schema /\ SchemaOf(1) \in Schema
      /\ SchemaOf(2) \in Schema /\ SchemaOf(3) \in Schema
      /\ SchemaOf(0).constraint = "none" /\ SchemaOf(1).constraint = "none"
      /\ SchemaOf(2).constraint = "002" /\ SchemaOf(3).constraint = "003"
      /\ SchemaOf(1).tables = TRUE /\ SchemaOf(2).tables = TRUE /\ SchemaOf(3).tables = TRUE
  BY SchemaValues
<1>3. AfterFile(1, SchemaOf(0)) = SchemaOf(1)
  <2>1. /\ AfterFile(1, SchemaOf(0)) \in Schema
        /\ AfterFile(1, SchemaOf(0)).tables = SchemaOf(1).tables
        /\ AfterFile(1, SchemaOf(0)).constraint = SchemaOf(1).constraint
    BY FileForms, <1>2, Zenon
  <2> QED  BY <1>1, <1>2, <2>1, Zenon
<1>4. AfterFile(1, SchemaOf(1)) = SchemaOf(1)
  <2>1. /\ AfterFile(1, SchemaOf(1)) \in Schema
        /\ AfterFile(1, SchemaOf(1)).tables = SchemaOf(1).tables
        /\ AfterFile(1, SchemaOf(1)).constraint = SchemaOf(1).constraint
    BY FileForms, <1>2, Zenon
  <2> QED  BY <1>1, <1>2, <2>1, Zenon
<1>5. AfterFile(2, SchemaOf(1)) = SchemaOf(2)
  <2>1. /\ AfterFile(2, SchemaOf(1)) \in Schema
        /\ AfterFile(2, SchemaOf(1)).tables = SchemaOf(2).tables
        /\ AfterFile(2, SchemaOf(1)).constraint = SchemaOf(2).constraint
    BY FileForms, <1>2, Zenon
  <2> QED  BY <1>1, <1>2, <2>1, Zenon
<1>6. AfterFile(3, SchemaOf(2)) = SchemaOf(3)
  <2>1. /\ AfterFile(3, SchemaOf(2)) \in Schema
        /\ AfterFile(3, SchemaOf(2)).tables = SchemaOf(3).tables
        /\ AfterFile(3, SchemaOf(2)).constraint = SchemaOf(3).constraint
    BY FileForms, <1>2, Zenon
  <2> QED  BY <1>1, <1>2, <2>1, Zenon
<1> QED  BY <1>3, <1>4, <1>5, <1>6

(* The first missing version tells which versions are registered and what  *)
(* the schema is.                                                          *)
LEMMA FirstMissing ==
    ASSUME SchemaMatchesJournal, NEW n \in Version \ registered,
           \A v \in Version : v < n => v \in registered
    PROVE  /\ registered = 1 .. n - 1
           /\ schema = SchemaOf(n - 1) \/ (n = 1 /\ schema = SchemaOf(1))
<1>1. PICK k \in 0 .. 3 : /\ registered = 1 .. k
                          /\ schema = SchemaOf(k) \/ (k = 0 /\ schema = SchemaOf(1))
  BY DEF SchemaMatchesJournal
<1>2. n = k + 1
  <2>1. n \in 1 .. 3 /\ n > k
    BY <1>1 DEF Version
  <2>2. ~(n > k + 1)
    BY <1>1, <2>1 DEF Version
  <2> QED  BY <2>1, <2>2
<1> QED  BY <1>1, <1>2

(* A boot begins with no session and no lock.                              *)
LEMMA StartStep ==
    ASSUME MigrationInv, NEW b \in Boot, Start(b)
    PROVE  MigrationInv'
<1>1. TypeOK'
  BY DEF MigrationInv, Start, Goto, database, TypeOK, PC
<1>2. LockInv'
  BY DEF MigrationInv, Start, Goto, TypeOK, LockInv, Holding
<1>3. PhaseInv'
  BY DEF MigrationInv, Start, Goto, database, PhaseInv, Holding, Applied
<1>4. SchemaMatchesJournal'
  BY DEF MigrationInv, Start, database, SchemaMatchesJournal
<1>5. RefusedOnlyForLegacyRows'
  BY DEF MigrationInv, Start, database, RefusedOnlyForLegacyRows
<1>6. QED  BY <1>1, <1>2, <1>3, <1>4, <1>5 DEF MigrationInv

(* Nor has it one when it cannot connect.                                  *)
LEMMA StartFailsStep ==
    ASSUME MigrationInv, NEW b \in Boot, StartFails(b)
    PROVE  MigrationInv'
<1>1. TypeOK'
  BY DEF MigrationInv, StartFails, Goto, database, TypeOK, PC, Ended
<1>2. LockInv'
  BY DEF MigrationInv, StartFails, Goto, LockInv, Holding
<1>3. PhaseInv'
  BY DEF MigrationInv, StartFails, Goto, database, PhaseInv, Holding, Applied
<1>4. SchemaMatchesJournal'
  BY DEF MigrationInv, StartFails, database, SchemaMatchesJournal
<1>5. RefusedOnlyForLegacyRows'
  BY DEF MigrationInv, StartFails, database, RefusedOnlyForLegacyRows
<1>6. QED  BY <1>1, <1>2, <1>3, <1>4, <1>5 DEF MigrationInv

(* Only a free lock is taken.                                              *)
LEMMA LockStep ==
    ASSUME MigrationInv, NEW b \in Boot, Lock(b)
    PROVE  MigrationInv'
<1>1. TypeOK'
  BY NoBootAssumption DEF MigrationInv, Lock, Goto, database, TypeOK, PC
<1>2. LockInv'
  BY NoBootAssumption DEF MigrationInv, Lock, Goto, LockInv
<1>3. PhaseInv'
  BY NoBootAssumption DEF MigrationInv, Lock, Version, Goto, database, PhaseInv, Applied
<1>4. SchemaMatchesJournal'
  BY NoBootAssumption DEF MigrationInv, Lock, database, SchemaMatchesJournal
<1>5. RefusedOnlyForLegacyRows'
  BY NoBootAssumption DEF MigrationInv, Lock, database, RefusedOnlyForLegacyRows
<1>6. QED  BY <1>1, <1>2, <1>3, <1>4, <1>5 DEF MigrationInv

(* The journal is created under the lock.                                  *)
LEMMA CreateJournalStep ==
    ASSUME MigrationInv, NEW b \in Boot, CreateJournal(b)
    PROVE  MigrationInv'
<1>1. TypeOK'
  BY DEF MigrationInv, CreateJournal, Goto, TypeOK, PC
<1>2. LockInv'
  BY DEF MigrationInv, CreateJournal, Goto, LockInv, Holding
<1>3. PhaseInv'
  BY DEF MigrationInv, CreateJournal, Goto, PhaseInv, Holding, Applied
<1>4. SchemaMatchesJournal'
  BY DEF MigrationInv, CreateJournal, SchemaMatchesJournal
<1>5. RefusedOnlyForLegacyRows'
  BY DEF MigrationInv, CreateJournal, RefusedOnlyForLegacyRows
<1>6. QED  BY <1>1, <1>2, <1>3, <1>4, <1>5 DEF MigrationInv

(* A boot opens the transaction of the first version that is missing, or   *)
(* is done.                                                                *)
LEMMA CheckStep ==
    ASSUME MigrationInv, NEW b \in Boot, Check(b)
    PROVE  MigrationInv'
<1>1. TypeOK'
  BY DEF MigrationInv, Check, Return, Version, Goto, database, TypeOK, PC
<1>2. LockInv'
  BY DEF MigrationInv, Check, Return, Goto, TypeOK, LockInv, Holding
<1>3. PhaseInv'
  <2>1. pc[b] = "check" /\ next[b] \in 1 .. 4 /\ Applied(b) /\ registered \subseteq Version
    BY DEF MigrationInv, Check, TypeOK, PhaseInv, Holding
  <2>2. CASE next[b] \notin Version
    <3>1. registered = Version
      <4>1. \A v \in Version : v < next[b]
        BY <2>1, <2>2 DEF Version
      <4> QED  BY <2>1, <4>1 DEF Applied
    <3> QED  BY <2>1, <2>2, <3>1 DEF MigrationInv, Check, Return, Goto, database, TypeOK, LockInv,
        PhaseInv, Holding, Applied
  <2>3. CASE next[b] \in Version \cap registered
    <3>1. next' = [next EXCEPT ![b] = @ + 1] /\ UNCHANGED <<pc, tx, outcome, database, work>>
      BY <2>3 DEF Check
    <3>2. Applied(b)'
      BY <2>1, <2>3, <3>1 DEF MigrationInv, Applied, Version, database
    <3> QED  BY <2>1, <3>1, <3>2 DEF MigrationInv, database, TypeOK, LockInv, PhaseInv, Holding,
        Applied
  <2>4. CASE next[b] \in Version \ registered
    BY <2>1, <2>4 DEF MigrationInv, Check, Goto, database, TypeOK, LockInv, PhaseInv, Applied
  <2> QED  BY <2>2, <2>3, <2>4
<1>4. SchemaMatchesJournal'
  BY DEF MigrationInv, Check, database, SchemaMatchesJournal
<1>5. RefusedOnlyForLegacyRows'
  BY DEF MigrationInv, Check, Return, database, TypeOK, RefusedOnlyForLegacyRows
<1>6. QED  BY <1>1, <1>2, <1>3, <1>4, <1>5 DEF MigrationInv

(* Where a boot is in its file: what the statement it is at does, to a     *)
(* schema that its transaction has been through.                           *)
LEMMA ExecForms ==
    ASSUME MigrationInv, NEW b \in Boot, Exec(b)
    PROVE  /\ next[b] \in Version \ registered /\ tx[b] = "open" /\ pc[b] = "exec"
           /\ registered = 1 .. next[b] - 1
           /\ Seen(b) \in Schema
           /\ Apply(next[b], line[b], Seen(b)) \in Schema
           /\ line[b] \in 1 .. 2
           /\ line[b] < Len(File[next[b]]) =>
                 /\ next[b] = 3 /\ line[b] = 1
                 /\ Apply(next[b], line[b], Seen(b)) = Apply(3, 1, schema)
           /\ ~(line[b] < Len(File[next[b]])) =>
                 Apply(next[b], line[b], Seen(b)) = AfterFile(next[b], schema)
           /\ Refused(next[b], line[b], Seen(b)) => legacy
<1> DEFINE n == next[b]
           k == line[b]
<1>1. /\ n \in Version \ registered /\ \A v \in Version : v < n => v \in registered
      /\ tx[b] = "open" /\ pc[b] = "exec" /\ k \in 1 .. 2 /\ schema \in Schema
      /\ k = 2 => n = 3 /\ work[b] = Apply(3, 1, schema)
  BY DEF MigrationInv, Exec, PhaseInv, Applied, TypeOK
<1>2. /\ registered = 1 .. n - 1
      /\ schema = SchemaOf(n - 1) \/ (n = 1 /\ schema = SchemaOf(1))
  BY <1>1, FirstMissing DEF MigrationInv
<1>3. (n = 1 /\ k = 1) \/ (n = 2 /\ k = 1) \/ (n = 3 /\ k = 1) \/ (n = 3 /\ k = 2)
  BY <1>1 DEF Version
<1>4. CASE n = 1 /\ k = 1
  BY <1>1, <1>2, <1>4, SchemaForms, FileLines DEF Seen, AfterFile, Refused
<1>5. CASE n = 2 /\ k = 1
  <2>1. schema.tables = TRUE /\ schema.constraint = "none"
    BY <1>2, <1>5, SchemaValues
  <2> QED  BY <1>1, <1>2, <1>5, <2>1, SchemaForms, FileLines DEF Seen, AfterFile, Refused
<1>6. CASE n = 3 /\ k = 1
  <2>1. schema.tables = TRUE
    BY <1>2, <1>6, SchemaValues
  <2> QED  BY <1>1, <1>2, <1>6, <2>1, SchemaForms, FileLines DEF Seen, AfterFile, Refused
<1>7. CASE n = 3 /\ k = 2
  <2>1. /\ Apply(3, 1, schema) \in Schema
        /\ Apply(3, 1, schema).tables = schema.tables /\ Apply(3, 1, schema).constraint = "none"
    BY <1>1, ApplyForms
  <2>2. schema.tables = TRUE
    BY <1>2, <1>7, SchemaValues
  <2>3. Apply(3, 1, schema).tables = TRUE /\ Apply(3, 1, schema).constraint = "none"
    BY <2>1, <2>2
  <2> QED  BY <1>1, <1>2, <1>7, <2>1, <2>3, SchemaForms, FileLines DEF Seen, AfterFile, Refused
<1> QED  BY <1>3, <1>4, <1>5, <1>6, <1>7

(* A statement of a file changes the transaction's schema and no other, or *)
(* the whole transaction goes.                                             *)
LEMMA ExecStep ==
    ASSUME MigrationInv, NEW b \in Boot, Exec(b)
    PROVE  MigrationInv'
<1>1. TypeOK'
  BY ExecForms DEF MigrationInv, Exec, Return, Goto, database, TypeOK, PC, Ended
<1>2. LockInv'
  BY ExecForms DEF MigrationInv, Exec, Return, Goto, TypeOK, LockInv, Holding
<1>3. PhaseInv'
  <2>1. CASE Refused(next[b], line[b], Seen(b))
    BY <2>1, ExecForms DEF MigrationInv, Exec, Return, Goto, database, TypeOK, PhaseInv, Holding,
       Applied
  <2>2. CASE ~Refused(next[b], line[b], Seen(b)) /\ line[b] < Len(File[next[b]])
    BY <2>2, ExecForms DEF MigrationInv, Exec, database, TypeOK, PhaseInv, Holding, Applied
  <2>3. CASE ~Refused(next[b], line[b], Seen(b)) /\ ~(line[b] < Len(File[next[b]]))
    BY <2>3, ExecForms DEF MigrationInv, Exec, Goto, database, TypeOK, PhaseInv, Holding, Applied
  <2> QED  BY <2>1, <2>2, <2>3
<1>4. SchemaMatchesJournal'
  BY DEF MigrationInv, Exec, database, SchemaMatchesJournal
<1>5. RefusedOnlyForLegacyRows'
  BY ExecForms DEF MigrationInv, Exec, Return, database, RefusedOnlyForLegacyRows
<1>6. QED  BY <1>1, <1>2, <1>3, <1>4, <1>5 DEF MigrationInv

(* The version is registered in the same transaction.                      *)
LEMMA RegisterStep ==
    ASSUME MigrationInv, NEW b \in Boot, Register(b)
    PROVE  MigrationInv'
<1>1. TypeOK'
  BY DEF MigrationInv, Register, Return, Goto, database, TypeOK, PC
<1>2. LockInv'
  BY DEF MigrationInv, Register, Return, Goto, TypeOK, LockInv, Holding
<1>3. PhaseInv'
  BY DEF MigrationInv, Register, Goto, database, TypeOK, PhaseInv, Applied
<1>4. SchemaMatchesJournal'
  BY DEF MigrationInv, Register, database, SchemaMatchesJournal
<1>5. RefusedOnlyForLegacyRows'
  BY DEF MigrationInv, Register, database, PhaseInv, RefusedOnlyForLegacyRows
<1>6. QED  BY <1>1, <1>2, <1>3, <1>4, <1>5 DEF MigrationInv

(* What is sent to be committed is the file and its version together.      *)
LEMMA SendCommitStep ==
    ASSUME MigrationInv, NEW b \in Boot, SendCommit(b)
    PROVE  MigrationInv'
<1>1. TypeOK'
  BY DEF MigrationInv, SendCommit, Goto, database, TypeOK, PC
<1>2. LockInv'
  BY DEF MigrationInv, SendCommit, Goto, LockInv, Holding
<1>3. PhaseInv'
  BY DEF MigrationInv, SendCommit, Goto, database, TypeOK, PhaseInv, Applied
<1>4. SchemaMatchesJournal'
  BY DEF MigrationInv, SendCommit, database, SchemaMatchesJournal
<1>5. RefusedOnlyForLegacyRows'
  BY DEF MigrationInv, SendCommit, database, RefusedOnlyForLegacyRows
<1>6. QED  BY <1>1, <1>2, <1>3, <1>4, <1>5 DEF MigrationInv

(* A boot goes on to the next version after its commit.                    *)
LEMMA CommitAckedStep ==
    ASSUME MigrationInv, NEW b \in Boot, CommitAcked(b)
    PROVE  MigrationInv'
<1>1. TypeOK'
  <2>1. next[b] \in 1 .. 3
    BY DEF MigrationInv, TypeOK, CommitAcked, PhaseInv, Version
  <2> QED  BY <2>1 DEF MigrationInv, CommitAcked, Goto, database, TypeOK, PC, Ended
<1>2. LockInv'
  BY DEF MigrationInv, CommitAcked, Goto, TypeOK, LockInv
<1>3. PhaseInv'
  BY DEF MigrationInv, CommitAcked, Version, Goto, database, TypeOK, PhaseInv, Applied
<1>4. SchemaMatchesJournal'
  BY DEF MigrationInv, CommitAcked, database, SchemaMatchesJournal
<1>5. RefusedOnlyForLegacyRows'
  BY DEF MigrationInv, CommitAcked, database, RefusedOnlyForLegacyRows
<1>6. QED  BY <1>1, <1>2, <1>3, <1>4, <1>5 DEF MigrationInv

(* A statement that fails leaves the schema as it was.                     *)
LEMMA StatementFailsStep ==
    ASSUME MigrationInv, NEW b \in Boot, StatementFails(b)
    PROVE  MigrationInv'
<1>1. TypeOK'
  BY NoBootAssumption DEF MigrationInv, StatementFails, Return, Goto, database, TypeOK, PC
<1>2. LockInv'
  BY NoBootAssumption DEF MigrationInv, StatementFails, Return, Goto, TypeOK, LockInv, Holding
<1>3. PhaseInv'
  BY NoBootAssumption DEF MigrationInv, StatementFails, Return, Goto, database, TypeOK, PhaseInv,
     Holding, Applied
<1>4. SchemaMatchesJournal'
  BY NoBootAssumption DEF MigrationInv, StatementFails, database, SchemaMatchesJournal
<1>5. RefusedOnlyForLegacyRows'
  BY NoBootAssumption DEF MigrationInv, StatementFails, Return, database, RefusedOnlyForLegacyRows
<1>6. QED  BY <1>1, <1>2, <1>3, <1>4, <1>5 DEF MigrationInv

(* A commit that fails may still happen, while the session holds the lock. *)
LEMMA CommitFailsStep ==
    ASSUME MigrationInv, NEW b \in Boot, CommitFails(b)
    PROVE  MigrationInv'
<1>1. TypeOK'
  BY DEF MigrationInv, CommitFails, Return, Goto, database, TypeOK, PC
<1>2. LockInv'
  BY DEF MigrationInv, CommitFails, Return, Goto, TypeOK, LockInv, Holding
<1>3. PhaseInv'
  BY DEF MigrationInv, CommitFails, Return, Goto, database, PhaseInv, Applied
<1>4. SchemaMatchesJournal'
  BY DEF MigrationInv, CommitFails, database, SchemaMatchesJournal
<1>5. RefusedOnlyForLegacyRows'
  BY DEF MigrationInv, CommitFails, Return, database, RefusedOnlyForLegacyRows
<1>6. QED  BY <1>1, <1>2, <1>3, <1>4, <1>5 DEF MigrationInv

(* The lock is given back by the boot that holds it.                       *)
LEMMA UnlockStep ==
    ASSUME MigrationInv, NEW b \in Boot, Unlock(b)
    PROVE  MigrationInv'
<1>1. TypeOK'
  BY NoBootAssumption DEF MigrationInv, Unlock, Disconnect, Goto, database, TypeOK, PC, Ended
<1>2. LockInv'
  BY NoBootAssumption DEF MigrationInv, Unlock, Disconnect, Goto, TypeOK, LockInv, Holding
<1>3. PhaseInv'
  BY NoBootAssumption DEF MigrationInv, Unlock, Goto, database, PhaseInv, Holding, Applied
<1>4. SchemaMatchesJournal'
  BY NoBootAssumption DEF MigrationInv, Unlock, database, SchemaMatchesJournal
<1>5. RefusedOnlyForLegacyRows'
  BY NoBootAssumption DEF MigrationInv, Unlock, database, RefusedOnlyForLegacyRows
<1>6. QED  BY <1>1, <1>2, <1>3, <1>4, <1>5 DEF MigrationInv

(* A crash leaves the session, its lock and its commit to PostgreSQL.      *)
LEMMA CrashStep ==
    ASSUME MigrationInv, NEW b \in Boot, Crash(b)
    PROVE  MigrationInv'
<1>1. TypeOK'
  BY DEF MigrationInv, Crash, Disconnect, Ended, Goto, database, TypeOK, PC
<1>2. LockInv'
  BY DEF MigrationInv, Crash, Disconnect, Goto, TypeOK, LockInv, Holding
<1>3. PhaseInv'
  BY DEF MigrationInv, Crash, Goto, database, PhaseInv, Holding, Applied
<1>4. SchemaMatchesJournal'
  BY DEF MigrationInv, Crash, database, SchemaMatchesJournal
<1>5. RefusedOnlyForLegacyRows'
  BY DEF MigrationInv, Crash, database, RefusedOnlyForLegacyRows
<1>6. QED  BY <1>1, <1>2, <1>3, <1>4, <1>5 DEF MigrationInv

(* PostgreSQL makes the work of a transaction the schema.                  *)
LEMMA CommittedForms ==
    ASSUME MigrationInv, NEW b \in Boot, ServerCommit(b)
    PROVE  \E n \in Version :
              /\ n = next[b]
              /\ registered = 1 .. n - 1 /\ registered' = 1 .. n
              /\ schema = SchemaOf(n - 1) \/ (n = 1 /\ schema = SchemaOf(1))
              /\ schema' = SchemaOf(n) /\ schema' \in Schema
<1> DEFINE n == next[b]
<1>1. n \in Version \ registered /\ \A v \in Version : v < n => v \in registered
  BY DEF MigrationInv, ServerCommit, PhaseInv, Applied
<1>2. /\ registered = 1 .. n - 1
      /\ schema = SchemaOf(n - 1) \/ (n = 1 /\ schema = SchemaOf(1))
  BY <1>1, FirstMissing DEF MigrationInv
<1>3. registered' = 1 .. n
  BY <1>1, <1>2 DEF ServerCommit, Version
<1>4. schema' = AfterFile(n, schema)
  BY DEF MigrationInv, ServerCommit, PhaseInv
<1>5. schema' = SchemaOf(n) /\ schema' \in Schema
  <2>1. n = 1 \/ n = 2 \/ n = 3
    BY <1>1 DEF Version
  <2>2. CASE n = 1
    BY <2>2, <1>2, <1>4, SchemaValues, ApplyInOrder
  <2>3. CASE n = 2
    BY <2>3, <1>2, <1>4, SchemaValues, ApplyInOrder
  <2>4. CASE n = 3
    BY <2>4, <1>2, <1>4, SchemaValues, ApplyInOrder
  <2> QED  BY <2>1, <2>2, <2>3, <2>4
<1> QED  BY <1>1, <1>2, <1>3, <1>5

(* A commit takes the schema and the journal one version further,          *)
(* together.                                                               *)
LEMMA ServerCommitStep ==
    ASSUME MigrationInv, NEW b \in Boot, ServerCommit(b)
    PROVE  MigrationInv'
<1>1. TypeOK'
  <2>1. registered' \subseteq Version /\ schema' \in Schema
    BY CommittedForms DEF Version
  <2> QED  BY <2>1 DEF MigrationInv, ServerCommit, TypeOK, PC, Ended
<1>2. LockInv'
  BY CommittedForms DEF MigrationInv, ServerCommit, TypeOK, LockInv
<1>3. PhaseInv'
  BY CommittedForms DEF MigrationInv, ServerCommit, TypeOK, LockInv, PhaseInv, Applied
<1>4. SchemaMatchesJournal'
  BY CommittedForms DEF Version, SchemaMatchesJournal
<1>5. RefusedOnlyForLegacyRows'
  BY CommittedForms DEF MigrationInv, ServerCommit, RefusedOnlyForLegacyRows
<1>6. QED  BY <1>1, <1>2, <1>3, <1>4, <1>5 DEF MigrationInv

(* A session that ends gives back its lock and its open transaction.       *)
LEMMA ServerEndsSessionStep ==
    ASSUME MigrationInv, NEW b \in Boot, ServerEndsSession(b)
    PROVE  MigrationInv'
<1>1. TypeOK'
  BY NoBootAssumption DEF MigrationInv, ServerEndsSession, database, TypeOK
<1>2. LockInv'
  BY NoBootAssumption DEF MigrationInv, ServerEndsSession, TypeOK, LockInv
<1>3. PhaseInv'
  BY NoBootAssumption DEF MigrationInv, ServerEndsSession, database, TypeOK, LockInv, PhaseInv,
     Holding, Applied
<1>4. SchemaMatchesJournal'
  BY NoBootAssumption DEF MigrationInv, ServerEndsSession, database, SchemaMatchesJournal
<1>5. RefusedOnlyForLegacyRows'
  BY NoBootAssumption DEF MigrationInv, ServerEndsSession, database, RefusedOnlyForLegacyRows
<1>6. QED  BY <1>1, <1>2, <1>3, <1>4, <1>5 DEF MigrationInv

(* Nothing changes in a stuttering step.                                   *)
LEMMA StutterStep ==
    ASSUME MigrationInv, UNCHANGED vars
    PROVE  MigrationInv'
<1>1. TypeOK'
  BY DEF MigrationInv, vars, TypeOK
<1>2. LockInv'
  BY DEF MigrationInv, vars, LockInv
<1>3. PhaseInv'
  BY DEF MigrationInv, vars, PhaseInv, Applied
<1>4. SchemaMatchesJournal'
  BY DEF MigrationInv, vars, SchemaMatchesJournal
<1>5. RefusedOnlyForLegacyRows'
  BY DEF MigrationInv, vars, RefusedOnlyForLegacyRows
<1>6. QED  BY <1>1, <1>2, <1>3, <1>4, <1>5 DEF MigrationInv

(* The invariant holds in the database of any earlier release.             *)
LEMMA InitInv == Init => MigrationInv
<1> SUFFICES ASSUME Init PROVE MigrationInv
  OBVIOUS
<1>1. PICK k \in 0 .. 3 : /\ registered = 1 .. k
                          /\ journal \in BOOLEAN /\ legacy \in BOOLEAN
                          /\ schema \in {SchemaOf(k)} \cup (IF k = 0 THEN {SchemaOf(1)} ELSE {})
  BY DEF Init
<1>2. TypeOK
  <2>1. registered \subseteq Version
    BY <1>1 DEF Version
  <2>2. schema \in Schema
    BY <1>1, SchemaValues
  <2> QED  BY <1>1, <2>1, <2>2 DEF Init, TypeOK, PC, Ended
<1>3. LockInv
  BY DEF Init, LockInv, Holding
<1>4. PhaseInv
  BY DEF Init, PhaseInv, Holding
<1>5. SchemaMatchesJournal
  BY <1>1 DEF SchemaMatchesJournal
<1>6. RefusedOnlyForLegacyRows
  BY DEF Init, RefusedOnlyForLegacyRows
<1>7. QED  BY <1>2, <1>3, <1>4, <1>5, <1>6 DEF MigrationInv

(* The invariant holds.                                                    *)
THEOREM Invariance == Spec => []MigrationInv
<1>1. MigrationInv /\ [Next]_vars => MigrationInv'
  BY StartStep, StartFailsStep, LockStep, CreateJournalStep, CheckStep, ExecStep, RegisterStep,
     SendCommitStep, CommitAckedStep, StatementFailsStep, CommitFailsStep, UnlockStep, CrashStep,
     ServerCommitStep, ServerEndsSessionStep, StutterStep
  DEF Next, Progress
<1>2. QED  BY InitInv, <1>1, PTL DEF Spec

(* Every variable keeps its type.                                          *)
THEOREM TypeCorrect == Spec => []TypeOK
<1>1. MigrationInv => TypeOK
  BY DEF MigrationInv
<1>2. QED  BY Invariance, <1>1, PTL

(* After any crash the journal says what the schema is.                    *)
THEOREM JournalIsTrue == Spec => []SchemaMatchesJournal
<1>1. MigrationInv => SchemaMatchesJournal
  BY DEF MigrationInv
<1>2. QED  BY Invariance, <1>1, PTL

(* With every version registered, the schema is the one they make.         *)
LEMMA AllRegistered ==
    ASSUME SchemaMatchesJournal, registered = Version
    PROVE  schema = SchemaOf(3)
<1>1. PICK k \in 0 .. 3 : /\ registered = 1 .. k
                          /\ schema = SchemaOf(k) \/ (k = 0 /\ schema = SchemaOf(1))
  BY DEF SchemaMatchesJournal
<1>2. 3 \in 1 .. k
  <2>1. 3 \in Version
    BY DEF Version
  <2> QED  BY <2>1, <1>1, Zenon
<1>3. k = 3
  BY <1>2
<1> QED  BY <1>1, <1>3

(* A boot that goes on to serve finds every migration applied.             *)
THEOREM Readiness == Spec => []ReadyMeansMigrated
<1>1. MigrationInv => ReadyMeansMigrated
  <2> SUFFICES ASSUME MigrationInv, NEW b \in Boot, pc[b] = "running"
               PROVE  registered = Version /\ schema = SchemaOf(3)
    BY DEF ReadyMeansMigrated
  <2>1. registered = Version
    BY DEF MigrationInv, PhaseInv
  <2> QED  BY <2>1, AllRegistered DEF MigrationInv
<1>2. QED  BY Invariance, <1>1, PTL

(* No two boots have a transaction open that can still commit.             *)
THEOREM MutualExclusion == Spec => []OneMigrator
<1>1. MigrationInv => OneMigrator
  BY DEF MigrationInv, LockInv, OneMigrator
<1>2. QED  BY Invariance, <1>1, PTL

(* Only rows that it cannot accept make a migration fail.                  *)
THEOREM Refusals == Spec => []RefusedOnlyForLegacyRows
<1>1. MigrationInv => RefusedOnlyForLegacyRows
  BY DEF MigrationInv
<1>2. QED  BY Invariance, <1>1, PTL

(* The constraint on status and reason, once there, is always there: what  *)
(* lies between the DROP and the ADD of 003 is never committed.            *)
THEOREM ConstraintStays == Spec => ConstraintNeverLost
<1>1. ASSUME MigrationInv, [Next]_vars, schema.constraint # "none"
      PROVE  schema'.constraint # "none"
  <2>1. CASE UNCHANGED schema
    BY <1>1, <2>1
  <2>2. CASE \E b \in Boot : ServerCommit(b)
    <3>1. PICK b \in Boot : ServerCommit(b)
      BY <2>2
    <3>2. PICK n \in Version :
             /\ schema = SchemaOf(n - 1) \/ (n = 1 /\ schema = SchemaOf(1))
             /\ schema' = SchemaOf(n)
      BY <1>1, <3>1, CommittedForms
    <3>3. n = 1 \/ n = 2 \/ n = 3
      BY DEF Version
    <3>4. n # 1 /\ n # 2
      BY <1>1, <3>2, SchemaValues
    <3>5. schema' = SchemaOf(3)
      BY <3>2, <3>3, <3>4
    <3> QED  BY <3>5, SchemaValues
  <2>3. UNCHANGED schema \/ \E b \in Boot : ServerCommit(b)
    BY <1>1 DEF Next, Progress, Start, StartFails, Lock, CreateJournal, Check, Exec, Register,
                SendCommit, CommitAcked, StatementFails, CommitFails, Unlock, Crash,
                ServerEndsSession, database, vars
  <2> QED  BY <2>1, <2>2, <2>3
<1>2. MigrationInv /\ [Next]_vars => [schema.constraint # "none" => schema'.constraint # "none"]_vars
  BY <1>1
<1>3. QED  BY Invariance, <1>2, PTL DEF Spec, ConstraintNeverLost

(* The number of registered versions is the last of them.                  *)
LEMMA Count == \A k \in 0 .. 3 : Cardinality(1 .. k) = k
<1> SUFFICES ASSUME NEW k \in 0 .. 3 PROVE Cardinality(1 .. k) = k
  OBVIOUS
<1>1. 1 \in Int /\ k \in Int
  OBVIOUS
<1>2. Cardinality(1 .. k) = IF 1 > k THEN 0 ELSE k - 1 + 1
  BY FS_Interval, <1>1, Zenon
<1> QED  BY <1>2

(* A commit is one migration of the ledger.                                *)
LEMMA CommitMigrates ==
    ASSUME MigrationInv, NEW b \in Boot, ServerCommit(b)
    PROVE  Ledger!Migrate
<1>1. PICK n \in Version : /\ registered = 1 .. n - 1 /\ registered' = 1 .. n
                           /\ schema' = SchemaOf(n)
  BY CommittedForms
<1>2. n \in 0 .. 3 /\ n - 1 \in 0 .. 3 /\ n - 1 < 3 /\ n = (n - 1) + 1
  BY DEF Version
<1>3. appliedBar = n - 1 /\ appliedBar' = n
  BY <1>1, <1>2, Count DEF appliedBar
<1>4. UNCHANGED servingBar
  BY DEF ServerCommit, servingBar
<1> QED  BY <1>1, <1>2, <1>3, <1>4 DEF Ledger!Migrate

(* A boot that returns from RunMigrations without an error serves after    *)
(* the last migration; with one, it never does.                            *)
LEMMA UnlockServes ==
    ASSUME MigrationInv, NEW b \in Boot, Unlock(b)
    PROVE  Ledger!Serve(b) \/ UNCHANGED <<appliedBar, schema, servingBar>>
<1>1. pc \in [Boot -> PC] /\ pc[b] = "unlock" /\ UNCHANGED <<registered, schema>>
  BY DEF MigrationInv, TypeOK, Unlock, database
<1>2. UNCHANGED appliedBar
  BY <1>1 DEF appliedBar
<1>3. CASE outcome[b] = "ok"
  <2>1. registered = Version
    BY <1>3 DEF MigrationInv, PhaseInv
  <2>2. registered = 1 .. 3 /\ schema = SchemaOf(3)
    BY <2>1, AllRegistered DEF MigrationInv, Version
  <2>3. appliedBar = 3
    BY <2>2, Count DEF appliedBar
  <2>4. pc' = [pc EXCEPT ![b] = "running"]
    BY <1>3 DEF Unlock, Goto
  <2>5. b \notin servingBar /\ servingBar' = servingBar \cup {b}
    BY <1>1, <2>4 DEF servingBar
  <2> QED  BY <1>1, <1>2, <2>2, <2>3, <2>5 DEF Ledger!Serve
<1>4. CASE outcome[b] # "ok"
  <2>1. pc' = [pc EXCEPT ![b] = "exited"]
    BY <1>4 DEF Unlock, Goto
  <2>2. UNCHANGED servingBar
    BY <1>1, <2>1 DEF servingBar
  <2> QED  BY <1>1, <1>2, <2>2
<1> QED  BY <1>3, <1>4

(* Nothing else that a boot or PostgreSQL does is seen in the ledger.      *)
LEMMA OthersUnseen ==
    ASSUME MigrationInv, NEW b \in Boot,
           \/ Start(b) \/ StartFails(b) \/ Lock(b) \/ CreateJournal(b) \/ Check(b) \/ Exec(b)
           \/ Register(b) \/ SendCommit(b) \/ CommitAcked(b) \/ StatementFails(b)
           \/ CommitFails(b) \/ Crash(b) \/ ServerEndsSession(b)
    PROVE  UNCHANGED <<appliedBar, schema, servingBar>>
<1>1. UNCHANGED <<registered, schema>>
  BY DEF Start, StartFails, Lock, CreateJournal, Check, Exec, Register, SendCommit, CommitAcked,
         StatementFails, CommitFails, Crash, ServerEndsSession, database
<1>2. UNCHANGED pc \/ \E l \in PC \ {"running"} : pc[b] # "running" /\ Goto(b, l)
  BY DEF Start, StartFails, Lock, CreateJournal, Check, Exec, Register, SendCommit, CommitAcked,
         StatementFails, CommitFails, Crash, ServerEndsSession, Return, PC, Ended
<1>3. UNCHANGED servingBar
  BY <1>2 DEF MigrationInv, TypeOK, Goto, servingBar
<1> QED  BY <1>1, <1>3 DEF appliedBar

(* Copies that start together, fail, die and start again implement the     *)
(* ledger: each migration takes effect at one instant, once and in order,  *)
(* and a copy serves after the last.                                       *)
THEOREM Refinement == Spec => LedgerSpec
<1>1. Init => Ledger!Init
  <2> SUFFICES ASSUME Init PROVE Ledger!Init
    OBVIOUS
  <2>1. PICK k \in 0 .. 3 :
           /\ registered = 1 .. k
           /\ schema \in {SchemaOf(k)} \cup (IF k = 0 THEN {SchemaOf(1)} ELSE {})
    BY DEF Init
  <2>2. appliedBar = k
    BY <2>1, Count DEF appliedBar
  <2>3. schema = SchemaOf(k) \/ (k = 0 /\ schema = SchemaOf(1))
    BY <2>1
  <2>4. servingBar = {}
    BY DEF Init, servingBar
  <2> QED  BY <2>2, <2>3, <2>4 DEF Ledger!Init
<1>2. MigrationInv /\ [Next]_vars => [Ledger!Next]_(Ledger!vars)
  <2> SUFFICES ASSUME MigrationInv, [Next]_vars
               PROVE  Ledger!Next \/ UNCHANGED <<appliedBar, schema, servingBar>>
    BY DEF Ledger!vars
  <2>1. CASE UNCHANGED vars
    BY <2>1 DEF vars, appliedBar, servingBar
  <2>2. ASSUME NEW b \in Boot, ServerCommit(b) PROVE Ledger!Next
    BY <2>2, CommitMigrates DEF Ledger!Next
  <2>3. ASSUME NEW b \in Boot, Unlock(b)
        PROVE  Ledger!Next \/ UNCHANGED <<appliedBar, schema, servingBar>>
    BY <2>3, UnlockServes DEF Ledger!Next
  <2> QED  BY <2>1, <2>2, <2>3, OthersUnseen DEF Next, Progress
<1> QED  BY Invariance, <1>1, <1>2, PTL DEF Spec, LedgerSpec, Ledger!Spec
==============================================================================
