----------------------------- MODULE SeedingProofs -----------------------------
(***************************************************************************)
(* Proofs about module Seeding, for any number of starts and of operators' *)
(* edits.                                                                  *)
(***************************************************************************)
EXTENDS Seeding, TLAPS

(* The demo accounts are two, with logins that differ and are not "other". *)
LEMMA DemoAccounts ==
    ASSUME NEW i \in 1 .. 2
    PROVE  /\ DemoAccount[i] \in [login : Login, password : Password, role : Role]
           /\ DemoAccount[i].login # "other"
           /\ \A j \in 1 .. 2 : DemoAccount[j].login = DemoAccount[i].login => i = j
<1>1. CASE i = 1
  BY <1>1, PasswordAssumption DEF DemoAccount, Login, Role
<1>2. CASE i = 2
  BY <1>2, PasswordAssumption DEF DemoAccount, Login, Role
<1> QED  BY <1>1, <1>2

(* The demo types are two, with names that differ.                         *)
LEMMA DemoTypes ==
    ASSUME NEW i \in 1 .. 2
    PROVE  /\ DemoType[i] \in TypeName
           /\ \A j \in 1 .. 2 : DemoType[j] = DemoType[i] => i = j
<1>1. CASE i = 1
  BY <1>1 DEF DemoType, TypeName
<1>2. CASE i = 2
  BY <1>2 DEF DemoType, TypeName
<1> QED  BY <1>1, <1>2

(* What the upsert of an account makes of table users: the accounts that   *)
(* are there keep their ids, logins and, but for the demo account, all.    *)
LEMMA Upsert ==
    ASSUME SeedTypeOK, RowsInv, NEW i \in 1 .. 2, UpsertAccount(DemoAccount[i])
    PROVE  /\ users' \subseteq Account
           /\ userSeq' = userSeq + 1
           /\ \A u \in users : \E v \in users' :
                 v.id = u.id /\ v.login = u.login /\ (u.login # DemoAccount[i].login => v = u)
           /\ \A v, w \in users' : v.login = w.login \/ v.id = w.id => v = w
           /\ \A v \in users' :
                 \/ \E u \in users : /\ u.id = v.id /\ u.login = v.login
                                     /\ v = u \/ v.login = DemoAccount[i].login
                 \/ /\ v.id = userSeq /\ v.login = DemoAccount[i].login
                    /\ \A u \in users : u.login # v.login
           /\ \E v \in users' : /\ v.login = DemoAccount[i].login
                                /\ v.password = DemoAccount[i].password
                                /\ v.role = DemoAccount[i].role
<1> DEFINE d == DemoAccount[i]
           New == [id |-> userSeq, login |-> d.login, password |-> d.password, role |-> d.role]
           Up(u) == IF u.login = d.login
                    THEN [u EXCEPT !.password = d.password, !.role = d.role] ELSE u
<1>1. /\ d.login \in Login /\ d.password \in Password /\ d.role \in Role
  BY DemoAccounts
<1>2. /\ New \in Account /\ New.id = userSeq /\ New.login = d.login
      /\ New.password = d.password /\ New.role = d.role
  BY <1>1 DEF SeedTypeOK, Account
<1>3. \A u \in users : /\ Up(u) \in Account
                       /\ Up(u).id = u.id /\ Up(u).login = u.login
                       /\ u.login # d.login => Up(u) = u
                       /\ u.login = d.login => Up(u).password = d.password /\ Up(u).role = d.role
  BY <1>1 DEF SeedTypeOK, Account
<1>4. CASE \E u \in users : u.login = d.login
  <2>1. users' = {Up(u) : u \in users} /\ userSeq' = userSeq + 1
    BY <1>4 DEF UpsertAccount
  <2> HIDE DEF d, Up
  <2>2. \A v, w \in users' : v.login = w.login \/ v.id = w.id => v = w
    BY <1>3, <2>1 DEF RowsInv
  <2> QED  BY <1>3, <1>4, <2>1, <2>2 DEF d
<1>5. CASE ~ \E u \in users : u.login = d.login
  <2>1. users' = users \cup {New} /\ userSeq' = userSeq + 1
    BY <1>5 DEF UpsertAccount
  <2> HIDE DEF New
  <2>2. \A u \in users : u.id \in Nat /\ u.id # userSeq
    BY DEF SeedTypeOK, RowsInv, Account
  <2>3. \A v, w \in users' : v.login = w.login \/ v.id = w.id => v = w
    BY <1>2, <1>5, <2>1, <2>2 DEF RowsInv
  <2> QED  BY <1>2, <1>5, <2>1, <2>3 DEF d, SeedTypeOK
<1> QED  BY <1>4, <1>5
(* Where a start is after a statement: further, at the end, or gone.       *)
LEMMA Leaves ==
    ASSUME SeedInv, NEW b \in Boot, Running(b), Executed(b) \/ Exits(b)
    PROVE  /\ boot' \in [Boot -> {"idle", "exec", "done", "exited", "orphan"}]
           /\ next' \in [Boot -> 1 .. 4] /\ probed' = probed \ {b}
           /\ \A c \in Boot \ {b} : boot'[c] = boot[c] /\ next'[c] = next[c]
           /\ Exits(b) => boot'[b] = "exited"
           /\ Executed(b) =>
                 \/ boot[b] = "orphan" /\ boot'[b] = "exited"
                 \/ boot[b] = "exec" /\ boot'[b] = "done" /\ next[b] = 4
                 \/ boot[b] = "exec" /\ boot'[b] = "exec" /\ next'[b] = next[b] + 1
<1>1. /\ boot \in [Boot -> {"idle", "exec", "done", "exited", "orphan"}]
      /\ next \in [Boot -> 1 .. 4] /\ boot[b] \in {"exec", "orphan"}
  BY DEF SeedInv, SeedTypeOK, Running
<1>2. ASSUME Exits(b)
      PROVE  /\ boot' \in [Boot -> {"idle", "exec", "done", "exited", "orphan"}]
             /\ next' \in [Boot -> 1 .. 4] /\ probed' = probed \ {b}
             /\ \A c \in Boot \ {b} : boot'[c] = boot[c] /\ next'[c] = next[c]
             /\ boot'[b] = "exited"
  BY <1>1, <1>2 DEF Exits
<1>3. ASSUME Executed(b)
      PROVE  /\ boot' \in [Boot -> {"idle", "exec", "done", "exited", "orphan"}]
             /\ next' \in [Boot -> 1 .. 4] /\ probed' = probed \ {b}
             /\ \A c \in Boot \ {b} : boot'[c] = boot[c] /\ next'[c] = next[c]
             /\ \/ boot[b] = "orphan" /\ boot'[b] = "exited"
                \/ boot[b] = "exec" /\ boot'[b] = "done" /\ next[b] = 4
                \/ boot[b] = "exec" /\ boot'[b] = "exec" /\ next'[b] = next[b] + 1
  <2>1. CASE boot[b] = "orphan"
    BY <1>1, <1>3, <2>1 DEF Executed
  <2>2. CASE boot[b] = "exec" /\ next[b] = 4
    BY <1>1, <1>3, <2>2 DEF Executed
  <2>3. CASE boot[b] = "exec" /\ next[b] # 4
    BY <1>1, <1>3, <2>3 DEF Executed
  <2> QED  BY <1>1, <2>1, <2>2, <2>3
<1> QED  BY <1>2, <1>3

(* A statement that leaves in place what is there, and puts in place what  *)
(* it is about, keeps the parts of the invariant that are about starts.    *)
LEMMA Proceeds ==
    ASSUME SeedInv, NEW b \in Boot, Running(b), NEW m \in 1 .. 4, m = next[b],
           UNCHANGED <<disturbed, failed, beside, clash>>,
           \A n \in 1 .. 4 : Placed(n) => Placed(n)',
           \/ Executed(b) /\ Placed(m)'
           \/ Exits(b) /\ (clash \/ b \in disturbed \/ b \in beside)
    PROVE  /\ boot' \in [Boot -> {"idle", "exec", "done", "exited", "orphan"}]
           /\ next' \in [Boot -> 1 .. 4] /\ probed' \subseteq Boot
           /\ ProgressInv' /\ StartInv' /\ InCompany' \subseteq beside'
           /\ AloneSeedGetsThrough'
<1>1. /\ boot' \in [Boot -> {"idle", "exec", "done", "exited", "orphan"}]
      /\ next' \in [Boot -> 1 .. 4] /\ probed' = probed \ {b}
      /\ \A c \in Boot \ {b} : boot'[c] = boot[c] /\ next'[c] = next[c]
      /\ \/ boot'[b] = "exited" /\ (clash \/ b \in disturbed \/ b \in beside)
         \/ boot'[b] = "exited" /\ boot[b] = "orphan"
         \/ boot[b] = "exec" /\ boot'[b] = "done" /\ next[b] = 4 /\ Placed(m)'
         \/ /\ boot[b] = "exec" /\ boot'[b] = "exec" /\ next'[b] = next[b] + 1
            /\ Placed(m)'
  BY Leaves, Zenon
<1>2. /\ probed \subseteq Boot /\ next[b] \in 1 .. 4 /\ b \in Enabled
      /\ boot[b] \in {"exec", "orphan"} /\ Enabled \subseteq Boot
      /\ boot[b] = "orphan" => b \in failed
  BY BootAssumption DEF SeedInv, SeedTypeOK, StartInv, Running
<1>3. ProgressInv'
  <2> SUFFICES ASSUME NEW c \in Enabled \ disturbed, NEW n \in 1 .. 4,
                      boot'[c] = "done" \/ (boot'[c] = "exec" /\ n < next'[c])
               PROVE  Placed(n)'
    BY DEF ProgressInv
  <2>1. CASE c # b
    BY <1>1, <1>2, <2>1 DEF SeedInv, ProgressInv
  <2>2. CASE c = b
    <3>1. boot[b] = "exec" /\ Placed(m)' /\ (n < m \/ n = m)
      BY <1>1, <1>2, <2>2
    <3> QED  BY <3>1, <2>2 DEF SeedInv, ProgressInv
  <2> QED  BY <2>1, <2>2
<1>4. StartInv'
  <2> SUFFICES ASSUME NEW c \in Boot
               PROVE  /\ boot'[c] \in {"exec", "orphan"} => c \in Enabled
                      /\ boot'[c] = "orphan" => c \in failed
                      /\ boot'[c] = "idle" => next'[c] = 1
                      /\ c \in probed' => boot'[c] \in {"exec", "orphan"} /\ next'[c] \in 3 .. 4
    BY DEF StartInv, Running
  <2>1. CASE c # b
    BY <1>1, <2>1 DEF SeedInv, StartInv, Running
  <2>2. CASE c = b
    BY <1>1, <1>2, <2>2
  <2> QED  BY <2>1, <2>2
<1>5. \A c \in Boot : boot'[c] \in {"exec", "orphan"} => boot[c] \in {"exec", "orphan"}
  BY <1>1, <1>2
<1>6. InCompany' \subseteq beside'
  BY <1>5 DEF SeedInv, AloneInv, InCompany, Running
<1>7. AloneSeedGetsThrough'
  <2> SUFFICES ASSUME NEW c \in Boot, boot'[c] = "exited", c \notin failed
               PROVE  clash \/ c \in disturbed \/ c \in beside
    BY DEF AloneSeedGetsThrough
  <2>1. CASE c # b
    BY <1>1, <2>1 DEF SeedInv, AloneSeedGetsThrough
  <2>2. CASE c = b
    BY <1>1, <1>2, <2>2
  <2> QED  BY <2>1, <2>2
<1> QED  BY <1>1, <1>2, <1>3, <1>4, <1>6, <1>7

(* The upsert of an account by a start keeps the invariant.                *)
LEMMA ExecuteAccountStep ==
    ASSUME SeedInv, NEW b \in Boot, ExecuteAccount(b)
    PROVE  SeedInv'
<1> DEFINE i == next[b]
           d == DemoAccount[i]
<1>1. /\ i \in 1 .. 2 /\ b \in Enabled /\ UpsertAccount(d) /\ Running(b) /\ Executed(b)
      /\ demoted' = demoted \ Reinstated(d)
      /\ UNCHANGED <<types, typeSeq, edits, disturbed, deleted, clash, failed, beside>>
  BY DEF ExecuteAccount, SeedInv, StartInv
<1> HIDE DEF d
<1>2. b \notin probed /\ probed' = probed \ {b}
  BY <1>1 DEF SeedInv, StartInv, Executed
<1>3. /\ users' \subseteq Account
      /\ userSeq' = userSeq + 1
      /\ \A u \in users : \E v \in users' :
            v.id = u.id /\ v.login = u.login /\ (u.login # d.login => v = u)
      /\ \A v \in users' :
            \/ \E u \in users : u.id = v.id /\ u.login = v.login /\ (v = u \/ v.login = d.login)
            \/ v.id = userSeq /\ v.login = d.login /\ \A u \in users : u.login # v.login
      /\ \E v \in users' : v.login = d.login /\ v.password = d.password /\ v.role = d.role
  BY <1>1, Upsert DEF d, SeedInv
<1>4. \A n \in 1 .. 4 : Placed(n) \/ n = i => Placed(n)'
  <2> TAKE n \in 1 .. 4
  <2>1. CASE n \in 3 .. 4
    BY <1>1, <2>1 DEF Placed
  <2>2. CASE n \in 1 .. 2 /\ n # i
    BY <1>1, <1>3, <2>2, DemoAccounts DEF Placed, d
  <2>3. CASE n = i
    BY <1>1, <1>3, <2>3 DEF Placed, d
  <2> QED  BY <2>1, <2>2, <2>3
<1>5. /\ boot' \in [Boot -> {"idle", "exec", "done", "exited", "orphan"}]
      /\ next' \in [Boot -> 1 .. 4] /\ probed' \subseteq Boot
      /\ ProgressInv' /\ StartInv' /\ InCompany' \subseteq beside' /\ AloneSeedGetsThrough'
  <2>1. PICK m \in 1 .. 4 : m = i
    BY <1>1
  <2> QED  BY <1>1, <1>4, <2>1, Proceeds
<1>6. AloneInv'
  <2>1. \A c \in probed' : c # b /\ next'[c] = next[c]
    BY <1>1, <1>2, Leaves DEF SeedInv, SeedTypeOK
  <2> QED  BY <1>1, <1>2, <1>5, <2>1 DEF SeedInv, AloneInv, HasId
<1>7. SeedTypeOK'
  <2>1. userSeq' \in Nat \ {0}
    BY <1>3 DEF SeedInv, SeedTypeOK
  <2>2. demoted' \subseteq Nat
    BY <1>1, Zenon DEF SeedInv, SeedTypeOK
  <2> QED  BY <1>1, <1>3, <1>5, <2>1, <2>2, Zenon DEF SeedInv, SeedTypeOK
<1>8. RowsInv'
  <2>1. userSeq \in Nat /\ \A u \in users : u.id \in Nat
    BY DEF SeedInv, SeedTypeOK, Account
  <2>2. \A u, v \in users' : u.login = v.login \/ u.id = v.id => u = v
    BY <1>1, Upsert DEF d, SeedInv
  <2>3. \A u \in users' : u.id < userSeq'
    BY <1>3, <2>1 DEF SeedInv, RowsInv
  <2>4. \A n \in demoted' : n < userSeq'
    BY <1>1, <1>3, <2>1 DEF SeedInv, RowsInv, SeedTypeOK
  <2> QED  BY <1>1, <2>2, <2>3, <2>4 DEF SeedInv, RowsInv
<1>9. DemotedStaysDown'
  BY <1>1, <1>3 DEF SeedInv, DemotedStaysDown, RowsInv, Reinstated, SeedTypeOK
<1>10. (Clashes(types) => clash)'
  BY <1>1 DEF SeedInv, Clashes
<1> QED  BY <1>5, <1>6, <1>7, <1>8, <1>9, <1>10 DEF SeedInv

(* A type put in place, where no other row bears its name, keeps the rows  *)
(* apart and what else is in place.                                        *)
LEMMA Put ==
    ASSUME SeedInv, NEW i \in 1 .. 2, ~NameTaken(i), PutType(i), UNCHANGED clash
    PROVE  /\ types' \subseteq [id : Nat \ {0}, name : TypeName]
           /\ \A r, q \in types' : r.id = q.id \/ r.name = q.name => r = q
           /\ [id |-> i, name |-> DemoType[i]] \in types'
           /\ \A j \in 1 .. 2 : [id |-> j, name |-> DemoType[j]] \in types
                                => [id |-> j, name |-> DemoType[j]] \in types'
           /\ \A j \in (1 .. 2) \ {i} : HasId(j)' => HasId(j)
           /\ (Clashes(types) => clash)'
<1>1. types' = {row \in types : row.id # i} \cup {[id |-> i, name |-> DemoType[i]]}
  BY DEF PutType
<1>2. DemoType[i] \in TypeName /\ \A j \in 1 .. 2 : DemoType[j] = DemoType[i] => i = j
  BY DemoTypes
<1>3. types' \subseteq [id : Nat \ {0}, name : TypeName]
  BY <1>1, <1>2 DEF SeedInv, SeedTypeOK
<1>4. \A r, q \in types' : r.id = q.id \/ r.name = q.name => r = q
  BY <1>1 DEF SeedInv, RowsInv, NameTaken
<1>5. \A j \in (1 .. 2) \ {i} : HasId(j)' => HasId(j)
  BY <1>1 DEF HasId
<1>6. (Clashes(types) => clash)'
  BY <1>1, <1>2 DEF SeedInv, Clashes
<1> QED  BY <1>1, <1>3, <1>4, <1>5, <1>6

(* A statement about a type that PostgreSQL has executed, or refused for   *)
(* its name, keeps the invariant.                                          *)
LEMMA TypeStep ==
    ASSUME SeedInv, NEW b \in Boot, Running(b), next[b] \in 3 .. 4,
           UNCHANGED <<users, userSeq, typeSeq, operators, failed, beside>>,
           \/ Executed(b) /\ ~NameTaken(next[b] - 2) /\ PutType(next[b] - 2)
              /\ (~HasId(next[b] - 2) => b \in probed)
           \/ /\ Exits(b) /\ UNCHANGED types
              /\ clash \/ b \in disturbed \/ b \in beside
    PROVE  SeedInv'
<1> DEFINE i == next[b] - 2
<1>1. /\ i \in 1 .. 2 /\ b \in Enabled /\ next[b] = i + 2
      /\ UNCHANGED <<edits, disturbed, demoted, deleted, clash>>
  BY DEF SeedInv, StartInv, operators
<1>2. CASE Exits(b) /\ UNCHANGED types /\ (clash \/ b \in disturbed \/ b \in beside)
  <2>1. \A n \in 1 .. 4 : Placed(n) => Placed(n)'
    BY <1>2 DEF Placed
  <2>2. /\ boot' \in [Boot -> {"idle", "exec", "done", "exited", "orphan"}]
        /\ next' \in [Boot -> 1 .. 4] /\ probed' \subseteq Boot
        /\ ProgressInv' /\ StartInv' /\ InCompany' \subseteq beside' /\ AloneSeedGetsThrough'
    <3>1. PICK m \in 1 .. 4 : m = next[b]
      BY <1>1
    <3> QED  BY <1>1, <1>2, <2>1, <3>1, Proceeds
  <2>3. \A c \in probed' : c \in probed /\ next'[c] = next[c]
    BY <1>2, Leaves DEF SeedInv, SeedTypeOK
  <2>4. AloneInv'
    BY <1>1, <1>2, <2>2, <2>3 DEF SeedInv, AloneInv, HasId
  <2>5. SeedTypeOK' /\ RowsInv' /\ DemotedStaysDown' /\ (Clashes(types) => clash)'
    BY <1>1, <1>2, <2>2 DEF SeedInv, SeedTypeOK, RowsInv, DemotedStaysDown, Clashes
  <2> QED  BY <2>2, <2>4, <2>5 DEF SeedInv
<1>3. CASE Executed(b) /\ ~NameTaken(i) /\ PutType(i) /\ (~HasId(i) => b \in probed)
  <2>1. /\ types' \subseteq [id : Nat \ {0}, name : TypeName]
        /\ \A r, q \in types' : r.id = q.id \/ r.name = q.name => r = q
        /\ [id |-> i, name |-> DemoType[i]] \in types'
        /\ \A j \in 1 .. 2 : [id |-> j, name |-> DemoType[j]] \in types
                             => [id |-> j, name |-> DemoType[j]] \in types'
        /\ \A j \in (1 .. 2) \ {i} : HasId(j)' => HasId(j)
        /\ (Clashes(types) => clash)'
    BY <1>1, <1>3, Put
  <2>2. \A n \in 1 .. 4 : Placed(n) => Placed(n)'
    <3> SUFFICES ASSUME NEW n \in 1 .. 4, Placed(n) PROVE Placed(n)'
      OBVIOUS
    <3>1. CASE n <= 2
      BY <3>1 DEF Placed
    <3>2. CASE n > 2
      <4>1. n - 2 \in 1 .. 2
        BY <3>2
      <4> QED  BY <2>1, <3>2, <4>1 DEF Placed
    <3> QED  BY <3>1, <3>2
  <2>3. \A m \in 1 .. 4 : m = next[b] => Placed(m)'
    <3> SUFFICES ASSUME NEW m \in 1 .. 4, m = next[b] PROVE Placed(m)'
      OBVIOUS
    <3>1. m > 2 /\ m - 2 = i
      BY <1>1
    <3> QED  BY <2>1, <3>1 DEF Placed
  <2>4. /\ boot' \in [Boot -> {"idle", "exec", "done", "exited", "orphan"}]
        /\ next' \in [Boot -> 1 .. 4] /\ probed' \subseteq Boot
        /\ ProgressInv' /\ StartInv' /\ InCompany' \subseteq beside' /\ AloneSeedGetsThrough'
    <3>1. PICK m \in 1 .. 4 : m = next[b]
      BY <1>1
    <3> QED  BY <1>1, <1>3, <2>2, <2>3, <3>1, Proceeds
  <2>5. \A c \in probed' : c \in probed \ {b} /\ next'[c] = next[c]
    BY <1>3, Leaves DEF SeedInv, SeedTypeOK
  <2>6. AloneInv'
    <3> SUFFICES ASSUME NEW c \in probed', HasId(next[c] - 2)'
                 PROVE  c \in disturbed \/ c \in beside
      BY <1>1, <2>4, <2>5 DEF AloneInv
    <3>1. /\ c \in Boot \ {b} /\ Running(c) /\ next[c] - 2 \in 1 .. 2
      BY <2>5 DEF SeedInv, SeedTypeOK, StartInv
    <3>2. c \in InCompany
      BY <3>1 DEF InCompany
    <3> QED  BY <3>2 DEF SeedInv, AloneInv
  <2>7. SeedTypeOK' /\ RowsInv' /\ DemotedStaysDown'
    BY <1>1, <2>1, <2>4 DEF SeedInv, SeedTypeOK, RowsInv, DemotedStaysDown
  <2> QED  BY <2>1, <2>4, <2>6, <2>7 DEF SeedInv
<1> QED  BY <1>2, <1>3

(* So does a look for its id that finds none.                              *)
LEMMA ProbeTypeStep ==
    ASSUME SeedInv, NEW b \in Boot, ProbeType(b)
    PROVE  SeedInv'
<1>1. /\ Running(b) /\ next[b] \in 3 .. 4 /\ ~HasId(next[b] - 2)
      /\ probed' = probed \cup {b}
      /\ UNCHANGED <<users, userSeq, types, typeSeq, boot, next, edits, disturbed, demoted,
                     deleted, clash, failed, beside>>
  BY DEF ProbeType, data, operators
<1>2. SeedTypeOK' /\ RowsInv' /\ DemotedStaysDown' /\ (Clashes(types) => clash)'
  BY <1>1 DEF SeedInv, SeedTypeOK, RowsInv, DemotedStaysDown, Clashes
<1>3. ProgressInv' /\ AloneSeedGetsThrough'
  BY <1>1 DEF SeedInv, ProgressInv, Placed, AloneSeedGetsThrough
<1>4. StartInv'
  BY <1>1 DEF SeedInv, StartInv, Running
<1>5. AloneInv'
  BY <1>1 DEF SeedInv, AloneInv, InCompany, Running, HasId
<1> QED  BY <1>2, <1>3, <1>4, <1>5 DEF SeedInv

(* And what becomes of the row, found or not.                              *)
LEMMA ExecuteTypeStep ==
    ASSUME SeedInv, NEW b \in Boot, ExecuteType(b)
    PROVE  SeedInv'
<1> DEFINE i == next[b] - 2
<1>1. CASE UpdateType(b)
  <2>1. /\ Running(b) /\ next[b] \in 3 .. 4 /\ HasId(i)
        /\ UNCHANGED <<users, userSeq, typeSeq, operators, failed, beside>>
    BY <1>1 DEF UpdateType
  <2>2. NameTaken(i) => clash
    BY <2>1 DEF SeedInv, NameTaken, Clashes
  <2>3. \/ NameTaken(i) /\ Exits(b) /\ UNCHANGED types
        \/ ~NameTaken(i) /\ Executed(b) /\ PutType(i)
    BY <1>1 DEF UpdateType
  <2> QED  BY <2>1, <2>2, <2>3, TypeStep
<1>2. CASE ProbeType(b)
  BY <1>2, ProbeTypeStep
<1>3. CASE InsertType(b)
  <2>1. /\ b \in probed /\ Running(b) /\ next[b] \in 3 .. 4 /\ i \in 1 .. 2
        /\ UNCHANGED <<users, userSeq, typeSeq, operators, failed, beside>>
    BY <1>3 DEF InsertType, SeedInv, StartInv
  <2>2. CASE HasName(i) /\ Exits(b) /\ UNCHANGED types
    <3>1. clash \/ HasId(i)
      BY <2>1, <2>2 DEF HasName, HasId, SeedInv, Clashes
    <3>2. clash \/ b \in disturbed \/ b \in beside
      BY <2>1, <3>1 DEF SeedInv, AloneInv
    <3> QED  BY <2>1, <2>2, <3>2, TypeStep
  <2>3. CASE ~HasName(i) /\ Executed(b) /\ PutType(i)
    <3>1. ~NameTaken(i)
      BY <2>3 DEF HasName, NameTaken
    <3> QED  BY <2>1, <2>3, <3>1, TypeStep
  <2>4. CASE probed' = probed \ {b} /\ UNCHANGED <<types, boot, next>>
    <3>1. /\ probed' \subseteq probed
          /\ UNCHANGED <<users, userSeq, types, typeSeq, boot, next, edits, disturbed, demoted,
                         deleted, clash, failed, beside>>
      BY <2>1, <2>4 DEF operators
    <3>2. SeedTypeOK' /\ RowsInv' /\ DemotedStaysDown' /\ (Clashes(types) => clash)'
      BY <3>1 DEF SeedInv, SeedTypeOK, RowsInv, DemotedStaysDown, Clashes
    <3>3. ProgressInv' /\ AloneSeedGetsThrough'
      BY <3>1 DEF SeedInv, ProgressInv, Placed, AloneSeedGetsThrough
    <3>4. StartInv' /\ AloneInv'
      BY <3>1 DEF SeedInv, StartInv, AloneInv, InCompany, Running, HasId
    <3> QED  BY <3>2, <3>3, <3>4 DEF SeedInv
  <2>5. \/ HasName(i) /\ Exits(b) /\ UNCHANGED types
        \/ probed' = probed \ {b} /\ UNCHANGED <<types, boot, next>>
        \/ ~HasName(i) /\ Executed(b) /\ PutType(i)
    BY <1>3 DEF InsertType
  <2> QED  BY <2>2, <2>3, <2>4, <2>5
<1> QED  BY <1>1, <1>2, <1>3 DEF ExecuteType

(* An edit of operators disturbs every start under way.                    *)
LEMMA EditKeeps ==
    ASSUME SeedInv, Edit
    PROVE  /\ edits' \in 0 .. MaxEdits /\ disturbed' \subseteq Boot
           /\ UNCHANGED <<boot, next, probed, failed, beside>>
           /\ ProgressInv' /\ StartInv' /\ AloneInv'
           /\ \A b \in disturbed : b \in disturbed'
<1>1. edits' \in 0 .. MaxEdits /\ UNCHANGED <<boot, next, probed, failed, beside>>
  BY MaxEditsAssumption DEF Edit, SeedInv, SeedTypeOK
<1>2. disturbed' \subseteq Boot /\ \A b \in Boot \ disturbed' : boot[b] = "idle"
  BY DEF Edit, SeedInv, SeedTypeOK
<1>3. \A b \in disturbed : b \in disturbed'
  BY DEF Edit
<1>4. ProgressInv'
  BY <1>1, <1>2, BootAssumption DEF ProgressInv
<1>5. StartInv'
  BY <1>1 DEF SeedInv, StartInv, Running
<1>6. AloneInv'
  <2>1. \A b \in probed : b \in disturbed'
    BY <1>2 DEF SeedInv, StartInv, SeedTypeOK, Running
  <2> QED  BY <1>1, <2>1 DEF SeedInv, AloneInv, InCompany, Running
<1> QED  BY <1>1, <1>2, <1>4, <1>5, <1>3, <1>6

(* Edits of accounts keep the invariant.                                   *)
LEMMA AccountEdits ==
    ASSUME SeedInv, AddAccount \/ ChangeAccount \/ DeleteAccount
    PROVE  SeedInv'
<1>1. Edit /\ UNCHANGED <<types, typeSeq, clash>>
  BY DEF AddAccount, ChangeAccount, DeleteAccount
<1>2. /\ edits' \in 0 .. MaxEdits /\ disturbed' \subseteq Boot
      /\ UNCHANGED <<boot, next, probed, failed, beside>>
      /\ ProgressInv' /\ StartInv' /\ AloneInv' /\ \A b \in disturbed : b \in disturbed'
  BY <1>1, EditKeeps
<1>3. /\ userSeq \in Nat \ {0} /\ \A u \in users : u \in Account /\ u.id \in Nat /\ u.id < userSeq
      /\ \A n \in demoted : n \in Nat /\ n < userSeq
  BY DEF SeedInv, SeedTypeOK, RowsInv, Account
<1>4. /\ users' \subseteq Account /\ userSeq' \in Nat \ {0} /\ demoted' \subseteq Nat
      /\ deleted' \subseteq Nat /\ RowsInv' /\ DemotedStaysDown'
  <2>1. CASE AddAccount
    <3> PICK l \in Login, p \in Password, r \in Role :
          /\ \A u \in users : u.login # l
          /\ users' = users \cup {[id |-> userSeq, login |-> l, password |-> p, role |-> r]}
      BY <2>1 DEF AddAccount
    <3>1. userSeq' = userSeq + 1 /\ UNCHANGED <<demoted, deleted>>
      BY <2>1 DEF AddAccount
    <3> DEFINE New == [id |-> userSeq, login |-> l, password |-> p, role |-> r]
    <3>2. New \in Account /\ New.id = userSeq /\ New.login = l /\ users' = users \cup {New}
      BY <1>3 DEF Account
    <3> HIDE DEF New
    <3>3. RowsInv'
      BY <1>1, <1>3, <3>1, <3>2 DEF SeedInv, RowsInv
    <3>4. DemotedStaysDown'
      BY <1>3, <3>1, <3>2 DEF SeedInv, DemotedStaysDown
    <3> QED  BY <1>3, <3>1, <3>2, <3>3, <3>4 DEF SeedInv, SeedTypeOK
  <2>2. CASE ChangeAccount
    <3> PICK w \in users, p \in Password, r \in Role :
          /\ users' = (users \ {w}) \cup {[w EXCEPT !.password = p, !.role = r]}
          /\ demoted' = IF r = "USER" THEN demoted \cup {w.id} ELSE demoted \ {w.id}
      BY <2>2 DEF ChangeAccount
    <3>1. UNCHANGED <<userSeq, deleted>>
      BY <2>2 DEF ChangeAccount
    <3> DEFINE New == [w EXCEPT !.password = p, !.role = r]
    <3>2. /\ New \in Account /\ New.id = w.id /\ New.login = w.login /\ New.role = r
          /\ users' = (users \ {w}) \cup {New}
      BY <1>3 DEF Account
    <3> HIDE DEF New
    <3>3. RowsInv'
      BY <1>1, <1>3, <3>1, <3>2 DEF SeedInv, RowsInv
    <3>4. DemotedStaysDown'
      BY <1>3, <3>1, <3>2 DEF SeedInv, DemotedStaysDown, RowsInv, Role
    <3> QED  BY <1>3, <3>1, <3>2, <3>3, <3>4 DEF SeedInv, SeedTypeOK
  <2>3. CASE DeleteAccount
    <3> PICK w \in users : users' = users \ {w} /\ deleted' = deleted \cup {w.id}
      BY <2>3 DEF DeleteAccount
    <3>1. UNCHANGED <<userSeq, demoted>>
      BY <2>3 DEF DeleteAccount
    <3>2. RowsInv' /\ DemotedStaysDown'
      BY <1>1, <3>1 DEF SeedInv, RowsInv, DemotedStaysDown
    <3> QED  BY <1>3, <3>1, <3>2 DEF SeedInv, SeedTypeOK
  <2> QED  BY <2>1, <2>2, <2>3
<1>5. SeedTypeOK'
  BY <1>1, <1>2, <1>4 DEF SeedInv, SeedTypeOK
<1>6. AloneSeedGetsThrough' /\ (Clashes(types) => clash)'
  BY <1>1, <1>2 DEF SeedInv, AloneSeedGetsThrough, Clashes
<1> QED  BY <1>2, <1>4, <1>5, <1>6 DEF SeedInv

(* Edits of project types keep the invariant.                              *)
LEMMA TypeEdits ==
    ASSUME SeedInv, AddType \/ RenameType
    PROVE  SeedInv'
<1>1. /\ Edit /\ UNCHANGED <<users, userSeq, demoted, deleted>>
      /\ clash' = (clash \/ Clashes(types'))
  BY DEF AddType, RenameType
<1>2. /\ edits' \in 0 .. MaxEdits /\ disturbed' \subseteq Boot
      /\ UNCHANGED <<boot, next, probed, failed, beside>>
      /\ ProgressInv' /\ StartInv' /\ AloneInv' /\ \A b \in disturbed : b \in disturbed'
  BY <1>1, EditKeeps
<1>3. /\ types' \subseteq [id : Nat \ {0}, name : TypeName] /\ typeSeq' \in Nat \ {0}
      /\ \A r, s \in types' : r.id = s.id \/ r.name = s.name => r = s
  <2>1. CASE AddType
    <3> PICK n \in TypeName :
          types' = IF \E row \in types : row.id = typeSeq \/ row.name = n THEN types
                   ELSE types \cup {[id |-> typeSeq, name |-> n]}
      BY <2>1 DEF AddType
    <3>1. typeSeq' = typeSeq + 1
      BY <2>1 DEF AddType
    <3> QED  BY <3>1 DEF SeedInv, SeedTypeOK, RowsInv
  <2>2. CASE RenameType
    <3> PICK w \in types, n \in TypeName :
          /\ \A other \in types : other.name # n
          /\ types' = (types \ {w}) \cup {[w EXCEPT !.name = n]}
      BY <2>2 DEF RenameType
    <3> DEFINE New == [w EXCEPT !.name = n]
    <3>1. /\ New \in [id : Nat \ {0}, name : TypeName] /\ New.id = w.id /\ New.name = n
          /\ types' = (types \ {w}) \cup {New}
      BY DEF SeedInv, SeedTypeOK
    <3>2. UNCHANGED typeSeq
      BY <2>2 DEF RenameType
    <3> HIDE DEF New
    <3> QED  BY <3>1, <3>2 DEF SeedInv, SeedTypeOK, RowsInv
  <2> QED  BY <2>1, <2>2
<1>4. SeedTypeOK'
  BY <1>1, <1>2, <1>3 DEF SeedInv, SeedTypeOK
<1>5. RowsInv' /\ DemotedStaysDown'
  BY <1>1, <1>3 DEF SeedInv, RowsInv, DemotedStaysDown
<1>6. AloneSeedGetsThrough' /\ (Clashes(types) => clash)'
  BY <1>1, <1>2 DEF SeedInv, AloneSeedGetsThrough, Clashes
<1> QED  BY <1>2, <1>4, <1>5, <1>6 DEF SeedInv

(* Starting and dying keep the invariant.                                  *)
LEMMA StartSteps ==
    ASSUME SeedInv, NEW b \in Boot, Start(b) \/ Dies(b) \/ Drop(b)
    PROVE  SeedInv'
<1>1. UNCHANGED <<data, operators>>
  BY DEF Start, Dies, Drop
<1>2. /\ boot' \in [Boot -> {"idle", "exec", "done", "exited", "orphan"}]
      /\ next' \in [Boot -> 1 .. 4] /\ failed \subseteq failed' /\ failed' \subseteq Boot
      /\ probed' \subseteq probed
      /\ \A c \in Boot : c # b => boot'[c] = boot[c] /\ next'[c] = next[c]
      /\ \/ boot[b] = "idle" /\ boot'[b] = (IF b \in Enabled THEN "exec" ELSE "done") /\ next'[b] = next[b]
         \/ boot'[b] = "orphan" /\ boot[b] = "exec" /\ b \in failed'
         \/ boot'[b] = "exited" /\ boot[b] \in {"exec", "orphan"} /\ b \in failed'
  <2>1. CASE Start(b)
    BY <2>1 DEF Start, SeedInv, SeedTypeOK
  <2>2. CASE Dies(b)
    BY <2>2 DEF Dies, Exits, SeedInv, SeedTypeOK
  <2>3. CASE Drop(b)
    BY <2>3 DEF Drop, Exits, SeedInv, SeedTypeOK, StartInv
  <2> QED  BY <2>1, <2>2, <2>3
<1>3. /\ beside \subseteq beside' /\ beside' \subseteq Boot /\ InCompany' \subseteq beside'
      /\ \A c \in probed' : c \in probed /\ next'[c] = next[c]
  <2>1. CASE Start(b)
    BY <2>1 DEF Start, SeedInv, SeedTypeOK, StartInv, InCompany
  <2>2. CASE Dies(b) \/ Drop(b)
    <3>1. /\ beside' = beside
          /\ \A c \in Boot : boot'[c] \in {"exec", "orphan"} => boot[c] \in {"exec", "orphan"}
      BY <1>2, <2>2 DEF Dies, Drop
    <3>2. InCompany' \subseteq beside'
      BY <3>1 DEF SeedInv, AloneInv, InCompany, Running
    <3>3. \A c \in probed' : c \in probed /\ next'[c] = next[c]
      BY <1>2, <2>2 DEF Dies, Drop, Exits, SeedInv, SeedTypeOK
    <3> QED  BY <3>1, <3>2, <3>3 DEF SeedInv, SeedTypeOK
  <2> QED  BY <2>1, <2>2
<1>4. SeedTypeOK'
  BY <1>1, <1>2, <1>3 DEF SeedInv, SeedTypeOK, data, operators
<1>5. RowsInv' /\ DemotedStaysDown' /\ (Clashes(types) => clash)'
  BY <1>1 DEF SeedInv, RowsInv, DemotedStaysDown, Clashes, data, operators
<1>6. ProgressInv'
  <2>1. \A n \in 1 .. 4 : Placed(n) => Placed(n)'
    BY <1>1 DEF Placed, data
  <2> QED  BY <1>1, <1>2, <2>1, BootAssumption DEF SeedInv, ProgressInv, StartInv, SeedTypeOK,
      operators
<1>7. StartInv'
  <2> SUFFICES ASSUME NEW c \in Boot
               PROVE  /\ boot'[c] \in {"exec", "orphan"} => c \in Enabled
                      /\ boot'[c] = "orphan" => c \in failed'
                      /\ boot'[c] = "idle" => next'[c] = 1
                      /\ c \in probed' => boot'[c] \in {"exec", "orphan"} /\ next'[c] \in 3 .. 4
    BY DEF StartInv, Running
  <2>1. CASE c # b
    BY <1>2, <2>1 DEF SeedInv, StartInv, Running
  <2>2. CASE c = b
    <3>1. c \in probed' => boot'[c] \in {"exec", "orphan"}
      BY <2>2 DEF Start, Dies, Drop, Exits, SeedInv, SeedTypeOK, StartInv, Running
    <3> QED  BY <1>2, <1>3, <2>2, <3>1 DEF SeedInv, StartInv, Running
  <2> QED  BY <2>1, <2>2
<1>8. AloneInv'
  BY <1>1, <1>3 DEF SeedInv, AloneInv, HasId, data, operators
<1>9. AloneSeedGetsThrough'
  BY <1>1, <1>2, <1>3 DEF SeedInv, AloneSeedGetsThrough, operators
<1> QED  BY <1>4, <1>5, <1>6, <1>7, <1>8, <1>9 DEF SeedInv

(* Each step keeps the invariant.                                          *)
LEMMA SeedStep ==
    ASSUME SeedInv, SeedNext
    PROVE  SeedInv'
<1>1. CASE Operator
  BY <1>1, AccountEdits, TypeEdits DEF Operator
<1>2. CASE \E b \in Boot : Seed(b)
  BY <1>2, StartSteps, ExecuteAccountStep, ExecuteTypeStep DEF Seed
<1> QED  BY <1>1, <1>2 DEF SeedNext

(* It is about these variables only.                                       *)
LEMMA SeedStutters ==
    ASSUME SeedInv, UNCHANGED seedVars
    PROVE  SeedInv'
  BY DEF seedVars, data, operators, SeedInv, SeedTypeOK, RowsInv, ProgressInv, Placed,
     StartInv, AloneInv, InCompany, HasId, DemotedStaysDown, AloneSeedGetsThrough, Running,
     Clashes

(* It holds at the start.                                                  *)
LEMMA SeedStart ==
    ASSUME SeedInit
    PROVE  SeedInv
<1>1. SeedTypeOK
  <2>1. next \in [Boot -> 1 .. 4] /\ boot \in [Boot -> {"idle", "exec", "done", "exited", "orphan"}]
    BY DEF SeedInit
  <2>2. edits \in 0 .. MaxEdits /\ userSeq \in Nat \ {0} /\ typeSeq \in Nat \ {0}
    BY MaxEditsAssumption DEF SeedInit
  <2> QED  BY <2>1, <2>2, Zenon DEF SeedInit, SeedTypeOK
<1>2. RowsInv /\ DemotedStaysDown /\ (Clashes(types) => clash)
  BY DEF SeedInit, RowsInv, DemotedStaysDown, Clashes
<1>3. ProgressInv /\ StartInv /\ AloneInv /\ AloneSeedGetsThrough
  BY BootAssumption DEF SeedInit, ProgressInv, StartInv, AloneInv, InCompany,
     AloneSeedGetsThrough, Running
<1> QED  BY <1>1, <1>2, <1>3 DEF SeedInv

(* The invariant holds.                                                    *)
THEOREM Invariance == SeedSpec => []SeedInv
<1>1. SeedInit => SeedInv
  BY SeedStart
<1>2. SeedInv /\ [SeedNext]_seedVars => SeedInv'
  BY SeedStep, SeedStutters
<1> QED  BY <1>1, <1>2, PTL DEF SeedSpec

(* An account that operators made USER stays so, unless they or a start    *)
(* with ENABLE_DEMO_SEED=true say otherwise (main.go 38).                  *)
THEOREM Demotion == SeedSpec => []DemotedStaysDown
<1>1. SeedInv => DemotedStaysDown
  BY DEF SeedInv
<1> QED  BY <1>1, Invariance, PTL

(* A seed that runs alone and meets no failure is refused only where an    *)
(* operator has given a demo name to another type or edits meanwhile, from *)
(* whatever earlier seeds, whole, partial or half dead, have left.         *)
THEOREM Idempotence == SeedSpec => []AloneSeedGetsThrough
<1>1. SeedInv => AloneSeedGetsThrough
  BY DEF SeedInv
<1> QED  BY <1>1, Invariance, PTL

(* A start that has seeded leaves the demo data complete, whatever other   *)
(* starts do and die of, until an operator edits (seed.go 72-76).          *)
THEOREM Completeness == SeedSpec => []SeededUnlessEdited
<1>1. SeedInv => SeededUnlessEdited
  <2> SUFFICES ASSUME SeedInv, NEW b \in Enabled, boot[b] = "done", b \notin disturbed
               PROVE  DemoData
    BY DEF SeededUnlessEdited
  <2>1. \A n \in 1 .. 4 : Placed(n)
    BY DEF SeedInv, ProgressInv
  <2>2. Placed(1) /\ Placed(2) /\ Placed(3) /\ Placed(4)
    BY <2>1
  <2>3. \A i \in 1 .. 2 : [id |-> i, name |-> DemoType[i]] \in types
    BY <2>2 DEF Placed
  <2>4. \A i \in 1 .. 2 : Placed(i) /\ i <= 2
    BY <2>1
  <2> QED  BY <2>3, <2>4 DEF Placed, DemoData
<1> QED  BY <1>1, Invariance, PTL

(* Starts change nothing but the demo rows, and those in place.            *)
THEOREM Preservation == SeedSpec => SeedKeepsTheRest
<1> DEFINE Keeps ==
      edits' = edits =>
          /\ \A row \in types : row.id \notin 1 .. 2 => row \in types'
          /\ \A u \in users : \E v \in users' :
                /\ v.id = u.id /\ v.login = u.login
                /\ u.login = "other" => v = u
<1>1. SeedInv /\ [SeedNext]_seedVars => [Keeps]_seedVars
  <2> SUFFICES ASSUME SeedInv, SeedNext, edits' = edits PROVE Keeps
    OBVIOUS
  <2>1. CASE Operator
    <3>1. Edit
      BY <2>1 DEF Operator, AddAccount, ChangeAccount, DeleteAccount, AddType, RenameType
    <3> QED  BY <3>1 DEF Edit, SeedInv, SeedTypeOK
  <2>2. ASSUME NEW b \in Boot, Start(b) \/ Dies(b) \/ Drop(b) PROVE Keeps
    BY <2>2 DEF Start, Dies, Drop, data
  <2>3. ASSUME NEW b \in Boot, ExecuteAccount(b) PROVE Keeps
    <3>1. next[b] \in 1 .. 2 /\ UpsertAccount(DemoAccount[next[b]]) /\ UNCHANGED types
      BY <2>3 DEF ExecuteAccount
    <3> QED  BY <3>1, Upsert, DemoAccounts DEF SeedInv
  <2>4. ASSUME NEW b \in Boot, ExecuteType(b) PROVE Keeps
    <3>1. UNCHANGED users
      BY <2>4 DEF ExecuteType, UpdateType, ProbeType, InsertType, data
    <3>2. UNCHANGED types \/ PutType(next[b] - 2)
      BY <2>4 DEF ExecuteType, UpdateType, ProbeType, InsertType, data
    <3>3. next[b] - 2 \in 1 .. 2
      BY <2>4 DEF ExecuteType, UpdateType, ProbeType, InsertType, SeedInv, StartInv
    <3>4. \A row \in types : row.id \notin 1 .. 2 => row \in types'
      BY <3>2, <3>3 DEF PutType
    <3> QED  BY <3>1, <3>4
  <2> QED  BY <2>1, <2>2, <2>3, <2>4 DEF SeedNext, Seed
<1> QED  BY <1>1, Invariance, PTL DEF SeedSpec, SeedKeepsTheRest
==============================================================================
