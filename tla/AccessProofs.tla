------------------------------ MODULE AccessProofs ------------------------------
(***************************************************************************)
(* Proofs about module Access, for any number of clients, starts and edits,*)
(* any passwords and any credentials that clients may send.                *)
(***************************************************************************)
EXTENDS Access, SeedingProofs

(* What any step of operators or starts may do to table users: the id of   *)
(* an account keeps its login, and goes only by deletion.                  *)
LEMMA UsersStep ==
    ASSUME SeedInv, SeedNext
    PROVE  /\ userSeq' >= userSeq /\ deleted \subseteq deleted'
           /\ \A v \in users' : \/ \E u \in users : u.id = v.id /\ u.login = v.login
                                \/ v.id = userSeq
           /\ \A u \in users : u.id \in deleted' \/ \E v \in users' : v.id = u.id
<1>0. userSeq \in Nat /\ users \subseteq Account
  BY DEF SeedInv, SeedTypeOK
<1>1. CASE AddAccount
  <2> PICK l \in Login, p \in Password, r \in Role :
        users' = users \cup {[id |-> userSeq, login |-> l, password |-> p, role |-> r]}
    BY <1>1 DEF AddAccount
  <2> QED  BY <1>0, <1>1 DEF AddAccount
<1>2. CASE ChangeAccount
  <2> PICK w \in users, p \in Password, r \in Role :
        users' = (users \ {w}) \cup {[w EXCEPT !.password = p, !.role = r]}
    BY <1>2 DEF ChangeAccount
  <2> DEFINE New == [w EXCEPT !.password = p, !.role = r]
  <2>1. New.id = w.id /\ New.login = w.login /\ users' = (users \ {w}) \cup {New}
    BY <1>0 DEF Account
  <2>2. UNCHANGED <<userSeq, deleted>>
    BY <1>2 DEF ChangeAccount
  <2> HIDE DEF New
  <2> QED  BY <1>0, <2>1, <2>2
<1>3. CASE DeleteAccount
  BY <1>0, <1>3 DEF DeleteAccount
<1>4. CASE AddType \/ RenameType
  BY <1>0, <1>4 DEF AddType, RenameType
<1>5. ASSUME NEW b \in Boot, ExecuteAccount(b)
      PROVE  /\ userSeq' >= userSeq /\ deleted \subseteq deleted'
             /\ \A v \in users' : \/ \E u \in users : u.id = v.id /\ u.login = v.login
                                  \/ v.id = userSeq
             /\ \A u \in users : u.id \in deleted' \/ \E v \in users' : v.id = u.id
  <2>1. next[b] \in 1 .. 2 /\ UpsertAccount(DemoAccount[next[b]]) /\ UNCHANGED deleted
    BY <1>5 DEF ExecuteAccount
  <2> QED  BY <1>0, <2>1, Upsert DEF SeedInv
<1>6. ASSUME NEW b \in Boot, Start(b) \/ Dies(b) \/ Drop(b) \/ ExecuteType(b)
      PROVE  UNCHANGED <<users, userSeq, deleted>>
  BY <1>6 DEF Start, Dies, Drop, ExecuteType, UpdateType, ProbeType, InsertType, data,
     operators
<1> QED  BY <1>0, <1>1, <1>2, <1>3, <1>4, <1>5, <1>6 DEF SeedNext, Operator, Seed

(* So what a client knows of an id stays true.                             *)
LEMMA BearsStays ==
    ASSUME SeedInv, SeedNext, NEW x, x.id \in Nat, Bears(x)
    PROVE  /\ x.id < userSeq'
           /\ \A u \in users' : u.id = x.id => u.login = x.login
           /\ x.id = 0 \/ x.id \in deleted' \/ \E u \in users' : u.id = x.id
<1>0. userSeq \in Nat /\ users \subseteq Account
  BY DEF SeedInv, SeedTypeOK
<1>1. userSeq' \in Nat
  BY <1>0, SeedStep DEF SeedInv, SeedTypeOK
<1>2. x.id < userSeq'
  BY <1>0, <1>1, UsersStep DEF Bears
<1>3. \A u \in users' : u.id = x.id => u.login = x.login
  BY <1>0, UsersStep DEF Bears
<1>4. x.id = 0 \/ x.id \in deleted' \/ \E u \in users' : u.id = x.id
  BY UsersStep DEF Bears
<1> QED  BY <1>2, <1>3, <1>4

(* The tables change, and every call sees what they say.                   *)
LEMMA SurroundingsStep ==
    ASSUME AccessInv, Surroundings
    PROVE  AccessInv'
<1>1. SeedInv' /\ UNCHANGED <<pc, call, found, token, answer>>
  BY SeedStep DEF AccessInv, Surroundings, serving
<1>2. saw' = [c \in Client |-> saw[c] \cup Facts(c, users')]
  BY DEF Surroundings
<1>3. \A c \in Client : Facts(c, users') \subseteq {"match", "mismatch", "ADMIN", "USER", "GONE"}
  BY <1>1 DEF Facts, Fit, Standing, SeedInv, SeedTypeOK, Account, Role
<1>4. TypeOK'
  <2>1. saw' \in [Client -> SUBSET {"match", "mismatch", "ADMIN", "USER", "GONE"}]
    BY <1>2, <1>3 DEF AccessInv, TypeOK
  <2>2. UNCHANGED pc /\ UNCHANGED call /\ UNCHANGED found /\ UNCHANGED token /\ UNCHANGED answer
    BY <1>1
  <2> QED  BY <1>1, <2>1, <2>2, Zenon DEF AccessInv, TypeOK, SeedInv
<1>5. IdentityInv'
  <2> SUFFICES ASSUME NEW c \in Client
               PROVE  Bears(token[c])' /\ (pc[c] = "verify" => Bears(found[c]))'
                      /\ (token[c].live => token[c].id # 0)'
    BY DEF IdentityInv
  <2>1. token[c].id \in Nat /\ found[c].id \in Nat
    <3>1. token[c].id \in Nat
      BY DEF AccessInv, TypeOK
    <3>2. found[c] \in Account \/ found[c] = NoRow
      BY DEF AccessInv, TypeOK
    <3>3. CASE found[c] \in Account
      BY <3>1, <3>3 DEF Account
    <3>4. CASE found[c] = NoRow
      <4>1. NoRow.id \in Nat
        BY DEF NoRow
      <4> QED  BY <3>1, <3>4, <4>1
    <3> QED  BY <3>1, <3>2, <3>3, <3>4
  <2>2. Bears(token[c]) /\ (pc[c] = "verify" => Bears(found[c]))
        /\ (token[c].live => token[c].id # 0)
    BY DEF AccessInv, IdentityInv
  <2>3. Bears(token[c])'
    BY <1>1, <2>1, <2>2, BearsStays DEF AccessInv, Surroundings, Bears
  <2>4. ASSUME pc[c] = "verify" PROVE Bears(found[c])'
    BY <1>1, <2>1, <2>2, <2>4, BearsStays DEF AccessInv, Surroundings, Bears
  <2> QED  BY <1>1, <2>2, <2>3, <2>4
<1>6. CallInv'
  <2> SUFFICES ASSUME NEW c \in Client PROVE CallFits(c)'
    BY DEF CallInv
  <2>1. saw'[c] = saw[c] \cup Facts(c, users')
    BY <1>2
  <2>2. Typed(c)' = Typed(c) /\ LoggingIn(c)' = LoggingIn(c) /\ Asking(c)' = Asking(c)
    BY <1>1 DEF Typed, LoggingIn, Asking
  <2>3. Fit(c, users)' = Fit(c, users') /\ Standing(c, users)' = Standing(c, users')
    BY <1>1, <2>2 DEF Fit, Standing
  <2>4. LoggingIn(c) => Facts(c, users') = Fit(c, users')
    BY DEF Facts
  <2>5. Asking(c) => Facts(c, users') = Standing(c, users')
    BY DEF Facts, Asking, LoggingIn
  <2> QED  BY <1>1, <2>1, <2>2, <2>3, <2>4, <2>5 DEF AccessInv, CallInv, CallFits
<1>7. TokenSpeaksForItsOwner'
  BY <1>1 DEF AccessInv, TokenSpeaksForItsOwner
<1> QED  BY <1>1, <1>4, <1>5, <1>6, <1>7 DEF AccessInv

(* Nor do steps of calls change it.                                        *)
LEMMA BearsSame ==
    ASSUME UNCHANGED <<users, userSeq, deleted>>, NEW x, Bears(x)
    PROVE  /\ x.id < userSeq'
           /\ \A u \in users' : u.id = x.id => u.login = x.login
           /\ x.id = 0 \/ x.id \in deleted' \/ \E u \in users' : u.id = x.id
  BY DEF Bears

(* Whatever a client is told, and whatever token it gets for a row that it *)
(* has read, the invariant is kept.                                        *)
LEMMA ReplyKeeps ==
    ASSUME AccessInv, NEW c \in Client, UNCHANGED seedVars,
           NEW e \in Answers,
           Reply(c, e),
           NEW t \in [id : Nat, login : Login \cup {""}, role : Role, live : BOOLEAN],
           token' = [token EXCEPT ![c] = t], Bears(t), t.live => t.id # 0
    PROVE  AccessInv'
<1>1. SeedInv' /\ UNCHANGED <<users, userSeq, deleted>>
  BY SeedStutters DEF AccessInv, seedVars, data, operators
<1>2. /\ pc' = [pc EXCEPT ![c] = "idle"] /\ answer' = [answer EXCEPT ![c] = e]
      /\ call' = [call EXCEPT ![c] = NoCall] /\ found' = [found EXCEPT ![c] = NoRow]
      /\ saw' = [saw EXCEPT ![c] = {}]
  BY DEF Reply, Goto
<1>3. NoCall \in Calls
  BY DEF NoCall, Calls, Path
<1>4. TypeOK'
  <2>1. pc' \in [Client -> {"idle", "login", "verify", "bind", "auth", "get"}]
    BY <1>2 DEF AccessInv, TypeOK
  <2>2. call' \in [Client -> Calls]
    BY <1>2, <1>3 DEF AccessInv, TypeOK
  <2>3. found' \in [Client -> Account \cup {NoRow}]
    BY <1>2, Zenon DEF AccessInv, TypeOK
  <2>4. token' \in [Client -> [id : Nat, login : Login \cup {""}, role : Role, live : BOOLEAN]]
    BY Zenon DEF AccessInv, TypeOK
  <2>5. answer' \in [Client -> Answers]
    BY <1>2 DEF AccessInv, TypeOK
  <2>6. saw' \in [Client -> SUBSET {"match", "mismatch", "ADMIN", "USER", "GONE"}]
    BY <1>2 DEF AccessInv, TypeOK
  <2> QED  BY <1>1, <2>1, <2>2, <2>3, <2>4, <2>5, <2>6, Zenon DEF TypeOK, SeedInv
<1>5. /\ pc'[c] = "idle" /\ token'[c] = t
      /\ \A x \in Client \ {c} : /\ pc'[x] = pc[x] /\ answer'[x] = answer[x] /\ call'[x] = call[x]
                              /\ found'[x] = found[x] /\ saw'[x] = saw[x] /\ token'[x] = token[x]
  BY <1>2 DEF AccessInv, TypeOK
<1>6. IdentityInv'
  <2> SUFFICES ASSUME NEW x \in Client
               PROVE  Bears(token[x])' /\ (pc[x] = "verify" => Bears(found[x]))'
                      /\ (token[x].live => token[x].id # 0)'
    BY DEF IdentityInv
  <2>1. CASE x = c
    <3>1. /\ t.id < userSeq' /\ \A u \in users' : u.id = t.id => u.login = t.login
          /\ t.id = 0 \/ t.id \in deleted' \/ \E u \in users' : u.id = t.id
      BY <1>1, BearsSame
    <3>2. pc'[x] # "verify" /\ token'[x] = t
      BY <1>5, <2>1
    <3> QED  BY <3>1, <3>2, Zenon DEF Bears
  <2>2. CASE x # c
    <3>1. Bears(token[x]) /\ (pc[x] = "verify" => Bears(found[x]))
          /\ (token[x].live => token[x].id # 0)
      BY DEF AccessInv, IdentityInv
    <3>2. /\ pc'[x] = pc[x] /\ found'[x] = found[x] /\ token'[x] = token[x]
          /\ UNCHANGED <<users, userSeq, deleted>>
      BY <1>1, <1>5, <2>2
    <3>3. Bears(token[x])'
      <4>1. /\ token[x].id < userSeq' /\ \A u \in users' : u.id = token[x].id => u.login = token[x].login
            /\ token[x].id = 0 \/ token[x].id \in deleted' \/ \E u \in users' : u.id = token[x].id
        BY <3>1, <3>2, BearsSame
      <4> QED  BY <3>2, <4>1, Zenon DEF Bears
    <3>4. ASSUME pc[x] = "verify" PROVE Bears(found[x])'
      <4>1. /\ found[x].id < userSeq' /\ \A u \in users' : u.id = found[x].id => u.login = found[x].login
            /\ found[x].id = 0 \/ found[x].id \in deleted' \/ \E u \in users' : u.id = found[x].id
        BY <3>1, <3>4, <3>2, BearsSame
      <4> QED  BY <3>2, <4>1, Zenon DEF Bears
    <3> QED  BY <3>1, <3>2, <3>3, <3>4
  <2> QED  BY <2>1, <2>2
<1>7. CallInv'
  <2> SUFFICES ASSUME NEW x \in Client PROVE CallFits(x)'
    BY DEF CallInv
  <2>1. CASE x = c
    BY <1>5, <2>1 DEF CallFits, LoggingIn, Asking
  <2>2. CASE x # c
    <3>1. Typed(x)' = Typed(x) /\ LoggingIn(x)' = LoggingIn(x) /\ Asking(x)' = Asking(x)
      BY <1>5, <2>2 DEF Typed, LoggingIn, Asking
    <3>2. Fit(x, users)' = Fit(x, users) /\ Standing(x, users)' = Standing(x, users)
      <4>1. token'[x] = token[x] /\ users' = users
        BY <1>1, <1>5, <2>2
      <4> QED  BY <3>1, <4>1, Zenon DEF Fit, Standing
    <3> QED  BY <1>5, <2>2, <3>1, <3>2 DEF AccessInv, CallInv, CallFits
  <2> QED  BY <2>1, <2>2
<1>8. TokenSpeaksForItsOwner'
  <2> SUFFICES ASSUME NEW x \in Client, pc'[x] = "get"
               PROVE  found'[x].id = token'[x].id /\ found'[x].login = token'[x].login
    BY DEF TokenSpeaksForItsOwner
  <2>1. /\ pc[x] = "get" /\ found'[x] = found[x] /\ token'[x] = token[x]
    BY <1>5
  <2> QED  BY <2>1 DEF AccessInv, TokenSpeaksForItsOwner
<1> QED  BY <1>1, <1>4, <1>6, <1>7, <1>8 DEF AccessInv

(* A handler goes on to its next step with its token as it is.             *)
LEMMA GoOnKeeps ==
    ASSUME AccessInv, NEW c \in Client, UNCHANGED seedVars, UNCHANGED token,
           NEW l \in {"login", "verify", "bind", "auth", "get"},
           NEW k \in Calls,
           NEW row \in Account \cup {NoRow},
           NEW h \in SUBSET {"match", "mismatch", "ADMIN", "USER", "GONE"},
           pc' = [pc EXCEPT ![c] = l], call' = [call EXCEPT ![c] = k],
           found' = [found EXCEPT ![c] = row], answer' = [answer EXCEPT ![c] = "none"],
           saw' = [saw EXCEPT ![c] = h],
           l = "verify" => Bears(row), CallFits(c)',
           l = "get" => row.id = token[c].id /\ row.login = token[c].login
    PROVE  AccessInv'
<1>1. SeedInv' /\ UNCHANGED <<users, userSeq, deleted>>
  BY SeedStutters DEF AccessInv, seedVars, data, operators
<1>4. TypeOK'
  <2>1. pc' \in [Client -> {"idle", "login", "verify", "bind", "auth", "get"}]
    BY DEF AccessInv, TypeOK
  <2>2. call' \in [Client -> Calls]
    BY Zenon DEF AccessInv, TypeOK
  <2>3. found' \in [Client -> Account \cup {NoRow}]
    BY Zenon DEF AccessInv, TypeOK
  <2>4. answer' \in [Client -> Answers]
    BY DEF AccessInv, TypeOK, Answers
  <2>5. saw' \in [Client -> SUBSET {"match", "mismatch", "ADMIN", "USER", "GONE"}]
    BY Zenon DEF AccessInv, TypeOK
  <2> QED  BY <1>1, <2>1, <2>2, <2>3, <2>4, <2>5, Zenon DEF AccessInv, TypeOK, SeedInv
<1>5. /\ pc'[c] = l /\ found'[c] = row /\ token' = token
      /\ \A x \in Client \ {c} : /\ pc'[x] = pc[x] /\ answer'[x] = answer[x] /\ call'[x] = call[x]
                              /\ found'[x] = found[x] /\ saw'[x] = saw[x]
  BY DEF AccessInv, TypeOK
<1>6. IdentityInv'
  <2> SUFFICES ASSUME NEW x \in Client
               PROVE  Bears(token[x])' /\ (pc[x] = "verify" => Bears(found[x]))'
                      /\ (token[x].live => token[x].id # 0)'
    BY DEF IdentityInv
  <2>1. Bears(token[x]) /\ (pc[x] = "verify" => Bears(found[x]))
        /\ (token[x].live => token[x].id # 0)
    BY DEF AccessInv, IdentityInv
  <2>2. Bears(token[x])'
    <3>1. /\ token[x].id < userSeq' /\ \A u \in users' : u.id = token[x].id => u.login = token[x].login
          /\ token[x].id = 0 \/ token[x].id \in deleted' \/ \E u \in users' : u.id = token[x].id
      BY <1>1, <2>1, BearsSame
    <3> QED  BY <1>5, <3>1, ZenonT(60) DEF Bears
  <2>3. ASSUME pc'[x] = "verify" PROVE Bears(found[x])'
    <3> DEFINE y == IF x = c THEN row ELSE found[x]
    <3>1. Bears(y) /\ found'[x] = y
      BY <1>5, <2>1, <2>3
    <3> HIDE DEF y
    <3>2. /\ y.id < userSeq' /\ \A u \in users' : u.id = y.id => u.login = y.login
          /\ y.id = 0 \/ y.id \in deleted' \/ \E u \in users' : u.id = y.id
      BY <1>1, <3>1, BearsSame
    <3> QED  BY <3>1, <3>2, Zenon DEF Bears
  <2> QED  BY <1>5, <2>1, <2>2, <2>3
<1>7. CallInv'
  <2> SUFFICES ASSUME NEW x \in Client, x # c PROVE CallFits(x)'
    BY DEF CallInv
  <2>1. Typed(x)' = Typed(x) /\ LoggingIn(x)' = LoggingIn(x) /\ Asking(x)' = Asking(x)
    BY <1>5 DEF Typed, LoggingIn, Asking
  <2>2. Fit(x, users)' = Fit(x, users) /\ Standing(x, users)' = Standing(x, users)
    <3>1. token'[x] = token[x] /\ users' = users
      BY <1>1, <1>5
    <3> QED  BY <2>1, <3>1, Zenon DEF Fit, Standing
  <2> QED  BY <1>5, <2>1, <2>2 DEF AccessInv, CallInv, CallFits
<1>8. TokenSpeaksForItsOwner'
  BY <1>5 DEF AccessInv, TokenSpeaksForItsOwner
<1> QED  BY <1>1, <1>4, <1>6, <1>7, <1>8 DEF AccessInv

(* What a step leaves alone.                                               *)
LEMMA Stays ==
    ASSUME AccessInv, NEW c \in Client
    PROVE  /\ call[c] \in Calls
           /\ found[c] \in Account \cup {NoRow}
           /\ saw[c] \in SUBSET {"match", "mismatch", "ADMIN", "USER", "GONE"}
           /\ token[c] \in [id : Nat, login : Login \cup {""}, role : Role, live : BOOLEAN]
           /\ pc = [pc EXCEPT ![c] = pc[c]] /\ call = [call EXCEPT ![c] = call[c]]
           /\ found = [found EXCEPT ![c] = found[c]] /\ saw = [saw EXCEPT ![c] = saw[c]]
           /\ token = [token EXCEPT ![c] = token[c]]
           /\ pc[c] # "idle" => answer = [answer EXCEPT ![c] = "none"]
<1>1. TypeOK /\ CallFits(c)
  BY DEF AccessInv, CallInv
<1>2. pc[c] # "idle" => answer = [answer EXCEPT ![c] = "none"]
  BY <1>1, Zenon DEF TypeOK, CallFits
<1>3. /\ pc = [pc EXCEPT ![c] = pc[c]] /\ call = [call EXCEPT ![c] = call[c]]
      /\ found = [found EXCEPT ![c] = found[c]] /\ saw = [saw EXCEPT ![c] = saw[c]]
      /\ token = [token EXCEPT ![c] = token[c]]
  BY <1>1, Zenon DEF TypeOK
<1> QED  BY <1>1, <1>2, <1>3, Zenon DEF TypeOK

(* Refusals and answers from the handlers leave the token as it is.        *)
LEMMA AnswerKeeps ==
    ASSUME AccessInv, NEW c \in Client, UNCHANGED seedVars, UNCHANGED token,
           NEW e \in Answers,
           Reply(c, e)
    PROVE  AccessInv'
<1>1. Bears(token[c]) /\ (token[c].live => token[c].id # 0)
  BY DEF AccessInv, IdentityInv
<1>2. token' = [token EXCEPT ![c] = token[c]]
  BY Stays
<1>3. token[c] \in [id : Nat, login : Login \cup {""}, role : Role, live : BOOLEAN]
  BY Stays
<1> QED  BY <1>1, <1>2, <1>3, ReplyKeeps

(* A login begins: what fits now has been seen.                            *)
LEMMA SendLoginStep ==
    ASSUME AccessInv, NEW c \in Client, UNCHANGED seedVars, SendLogin(c)
    PROVE  AccessInv'
<1> DEFINE h == Fit(c, users)'
<1> PICK k \in Sent : call' = [call EXCEPT ![c] = [body |-> k.body, login |-> k.login,
                                                  password |-> k.password,
                                                  path |-> "unparsable"]]
  BY DEF SendLogin
<1> DEFINE new == [body |-> k.body, login |-> k.login, password |-> k.password,
                  path |-> "unparsable"]
<1>1. new \in Calls
  BY SentAssumption DEF Credentials, Calls, Path
<1>2. /\ pc' = [pc EXCEPT ![c] = "login"] /\ answer' = [answer EXCEPT ![c] = "none"]
      /\ saw' = [saw EXCEPT ![c] = h] /\ UNCHANGED <<found, token>>
  BY DEF SendLogin, Goto
<1>3. h \in SUBSET {"match", "mismatch", "ADMIN", "USER", "GONE"}
  BY DEF Fit
<1> HIDE DEF h
<1>4. pc'[c] = "login" /\ answer'[c] = "none" /\ saw'[c] = h
  BY <1>2 DEF AccessInv, TypeOK
<1>5. CallFits(c)'
  BY <1>4 DEF CallFits, LoggingIn, Asking, h
<1>6. call' = [call EXCEPT ![c] = new]
  OBVIOUS
<1>7. found' = [found EXCEPT ![c] = found[c]] /\ found[c] \in Account \cup {NoRow}
  BY <1>2, Stays
<1> HIDE DEF new
<1> QED  BY <1>1, <1>2, <1>3, <1>5, <1>6, <1>7, GoOnKeeps

(* The row that is read either fits what was typed or does not, and that   *)
(* is seen.                                                                *)
LEMMA LookUpStep ==
    ASSUME AccessInv, NEW c \in Client, UNCHANGED seedVars, LookUp(c)
    PROVE  AccessInv'
<1> DEFINE k == Typed(c)
           rows == {u \in users : u.login = k.login}
<1>1. pc[c] = "login" /\ UNCHANGED token
  BY DEF LookUp
<1>2. CASE k.login = "" \/ k.password = ""
  BY <1>1, <1>2, AnswerKeeps DEF LookUp, Answers
<1>3. CASE ~(k.login = "" \/ k.password = "") /\ rows = {}
  BY <1>1, <1>3, AnswerKeeps DEF LookUp, Answers
<1>4. CASE ~(k.login = "" \/ k.password = "") /\ rows # {}
  <2> DEFINE u == CHOOSE v \in rows : TRUE
  <2>1. /\ found' = [found EXCEPT ![c] = u] /\ pc' = [pc EXCEPT ![c] = "verify"]
        /\ UNCHANGED <<call, answer, saw>>
    BY <1>4 DEF LookUp, Goto
  <2>2. u \in users /\ u.login = k.login
    BY <1>4
  <2> HIDE DEF u
  <2>3. SeedTypeOK /\ RowsInv /\ users \subseteq Account
    BY DEF AccessInv, SeedInv, SeedTypeOK
  <2>4. u \in Account /\ u.id # 0
    BY <2>2, <2>3 DEF Account
  <2>5. Bears(u)
    BY <2>2, <2>3 DEF Bears, RowsInv
  <2>6. IF u.password = k.password THEN "match" \in saw[c] ELSE "mismatch" \in saw[c]
    <3>1. Fit(c, users) \subseteq saw[c]
      BY <1>1 DEF AccessInv, CallInv, CallFits, LoggingIn
    <3>2. (\E v \in users : v.login = k.login /\ v.password = k.password) <=> u.password = k.password
      BY <2>2, <2>3 DEF RowsInv
    <3> QED  BY <3>1, <3>2 DEF Fit
  <2>7. /\ pc'[c] = "verify" /\ found'[c] = u /\ Typed(c)' = k
        /\ saw'[c] = saw[c] /\ answer'[c] = "none"
    BY <1>1, <2>1 DEF AccessInv, TypeOK, CallInv, CallFits, Typed
  <2>8. Fit(c, users)' = Fit(c, users) /\ Fit(c, users) \subseteq saw[c]
    <3>1. users' = users
      BY DEF seedVars, data
    <3> QED  BY <1>1, <2>7, <3>1 DEF Fit, AccessInv, CallInv, CallFits, LoggingIn
  <2> HIDE DEF k
  <2>9. CallFits(c)'
    BY <2>4, <2>6, <2>7, <2>8 DEF CallFits, LoggingIn, Asking
  <2>10. /\ call' = [call EXCEPT ![c] = call[c]] /\ answer' = [answer EXCEPT ![c] = "none"]
         /\ saw' = [saw EXCEPT ![c] = saw[c]]
    BY <1>1, <2>1, Stays
  <2>11. /\ call[c] \in Calls
         /\ saw[c] \in SUBSET {"match", "mismatch", "ADMIN", "USER", "GONE"}
    BY Stays
  <2> QED  BY <1>1, <2>1, <2>4, <2>5, <2>9, <2>10, <2>11, GoOnKeeps, ZenonT(60)
<1> QED  BY <1>2, <1>3, <1>4

(* The token that is issued bears the identity of the row that was read.   *)
LEMMA VerifyStep ==
    ASSUME AccessInv, NEW c \in Client, UNCHANGED seedVars, Verify(c)
    PROVE  AccessInv'
<1>1. CASE Verified(c)
  <2> DEFINE t == Generate(found[c])
  <2>1. /\ pc[c] = "verify" /\ Reply(c, "token") /\ token' = [token EXCEPT ![c] = t]
    BY <1>1 DEF Verify
  <2>2. Bears(found[c]) /\ found[c].id # 0
    BY <2>1 DEF AccessInv, IdentityInv, CallInv, CallFits
  <2>3. found[c] \in Account
    <3>1. NoRow.id = 0
      BY DEF NoRow
    <3> QED  BY <2>2, <3>1, Stays
  <2>4. /\ t \in [id : Nat, login : Login \cup {""}, role : Role, live : BOOLEAN]
        /\ t.id = found[c].id /\ t.login = found[c].login
    BY <2>3 DEF Account, Generate
  <2> HIDE DEF t
  <2>5. Bears(t)
    BY <2>2, <2>4, Zenon DEF Bears
  <2>6. "token" \in Answers
    BY DEF Answers
  <2> QED  BY <2>1, <2>2, <2>4, <2>5, <2>6, ReplyKeeps
<1>2. CASE ~Verified(c)
  BY <1>2, AnswerKeeps DEF Verify, Answers
<1> QED  BY <1>1, <1>2

(* A token that expires still bears the same identity.                     *)
LEMMA ExpireStep ==
    ASSUME AccessInv, NEW c \in Client, UNCHANGED seedVars, Expire(c), UNCHANGED saw
    PROVE  AccessInv'
<1>1. SeedInv' /\ UNCHANGED <<users, userSeq, deleted>>
  BY SeedStutters DEF AccessInv, seedVars, data, operators
<1>2. UNCHANGED pc /\ UNCHANGED call /\ UNCHANGED found /\ UNCHANGED answer /\ UNCHANGED saw
  BY DEF Expire
<1>3. /\ token' \in [Client -> [id : Nat, login : Login \cup {""}, role : Role, live : BOOLEAN]]
      /\ \A x \in Client : /\ token'[x].id = token[x].id /\ token'[x].login = token[x].login
                           /\ token'[x].live => token[x].live
  BY ZenonT(60) DEF Expire, AccessInv, TypeOK
<1>4. TypeOK'
  BY <1>1, <1>2, <1>3, Zenon DEF AccessInv, TypeOK, SeedInv
<1>5. IdentityInv'
  <2> SUFFICES ASSUME NEW x \in Client
               PROVE  Bears(token[x])' /\ (pc[x] = "verify" => Bears(found[x]))'
                      /\ (token[x].live => token[x].id # 0)'
    BY DEF IdentityInv
  <2>1. Bears(token[x]) /\ (pc[x] = "verify" => Bears(found[x]))
        /\ (token[x].live => token[x].id # 0)
    BY DEF AccessInv, IdentityInv
  <2>2. Bears(token[x])'
    BY <1>1, <1>3, <2>1, Zenon DEF Bears
  <2>3. ASSUME pc[x] = "verify" PROVE Bears(found[x])'
    BY <1>1, <1>2, <2>1, <2>3, Zenon DEF Bears
  <2> QED  BY <1>2, <1>3, <2>1, <2>2, <2>3
<1>6. CallInv'
  <2> SUFFICES ASSUME NEW x \in Client PROVE CallFits(x)'
    BY DEF CallInv
  <2>1. Typed(x)' = Typed(x) /\ LoggingIn(x)' = LoggingIn(x) /\ Asking(x)' = Asking(x)
    BY <1>2 DEF Typed, LoggingIn, Asking
  <2>2. Fit(x, users)' = Fit(x, users) /\ Standing(x, users)' = Standing(x, users)
    <3>1. token'[x].id = token[x].id /\ users' = users
      BY <1>1, <1>3
    <3> QED  BY <2>1, <3>1, Zenon DEF Fit, Standing
  <2> QED  BY <1>2, <2>1, <2>2 DEF AccessInv, CallInv, CallFits
<1>7. TokenSpeaksForItsOwner'
  BY <1>2, <1>3 DEF AccessInv, TokenSpeaksForItsOwner
<1> QED  BY <1>1, <1>4, <1>5, <1>6, <1>7 DEF AccessInv

(* A request begins: the standing of its account has been seen.            *)
LEMMA SendGetStep ==
    ASSUME AccessInv, NEW c \in Client, UNCHANGED seedVars, SendGet(c)
    PROVE  AccessInv'
<1> PICK p \in Path : call' = [call EXCEPT ![c].path = p]
  BY DEF SendGet
<1> DEFINE h == Standing(c, users)
           new == [call[c] EXCEPT !.path = p]
<1>1. /\ pc' = [pc EXCEPT ![c] = "bind"] /\ answer' = [answer EXCEPT ![c] = "none"]
      /\ saw' = [saw EXCEPT ![c] = h] /\ UNCHANGED token
      /\ found' = [found EXCEPT ![c] = found[c]] /\ found[c] \in Account \cup {NoRow}
  BY Stays DEF SendGet, Goto
<1>2. call' = [call EXCEPT ![c] = new]
  OBVIOUS
<1>3. new \in Calls
  BY Stays, ZenonT(60) DEF Calls
<1>4. users' = users /\ token' = token
  BY <1>1 DEF seedVars, data
<1>5. h \in SUBSET {"match", "mismatch", "ADMIN", "USER", "GONE"}
  BY DEF Standing, AccessInv, SeedInv, SeedTypeOK, Account, Role
<1>6. Standing(c, users)' = h
  BY <1>4, Zenon DEF Standing
<1>7. CallFits(c)'
  <2> HIDE DEF h
  <2>1. pc'[c] = "bind" /\ answer'[c] = "none" /\ saw'[c] = h
    BY <1>1 DEF AccessInv, TypeOK
  <2> QED  BY <1>6, <2>1 DEF CallFits, LoggingIn, Asking
<1> HIDE DEF new, h
<1> QED  BY <1>1, <1>2, <1>3, <1>5, <1>7, GoOnKeeps

(* Binding the path reads no table.                                        *)
LEMMA BindStep ==
    ASSUME AccessInv, NEW c \in Client, UNCHANGED seedVars, Bind(c)
    PROVE  AccessInv'
<1>1. CASE call[c].path = "unparsable"
  BY <1>1, AnswerKeeps DEF Bind, Answers
<1>2. CASE call[c].path # "unparsable"
  <2>1. /\ pc[c] = "bind" /\ pc' = [pc EXCEPT ![c] = "auth"]
        /\ UNCHANGED call /\ UNCHANGED found /\ UNCHANGED answer /\ UNCHANGED saw /\ UNCHANGED token
    BY <1>2 DEF Bind, Goto
  <2>2. /\ call' = [call EXCEPT ![c] = call[c]] /\ found' = [found EXCEPT ![c] = found[c]]
        /\ answer' = [answer EXCEPT ![c] = "none"] /\ saw' = [saw EXCEPT ![c] = saw[c]]
    BY <2>1, Stays
  <2>3. /\ call[c] \in Calls
        /\ found[c] \in Account \cup {NoRow}
        /\ saw[c] \in SUBSET {"match", "mismatch", "ADMIN", "USER", "GONE"}
    BY Stays
  <2>4. CallFits(c)'
    <3>1. users' = users
      BY DEF seedVars, data
    <3>2. Standing(c, users)' = Standing(c, users)
      BY <2>1, <3>1, Zenon DEF Standing
    <3>3. /\ pc'[c] = "auth" /\ answer'[c] = answer[c] /\ saw'[c] = saw[c]
          /\ Standing(c, users) \subseteq saw[c] /\ answer[c] = "none"
      BY <2>1 DEF AccessInv, TypeOK, CallInv, CallFits, Asking
    <3> QED  BY <3>2, <3>3 DEF CallFits, LoggingIn, Asking
  <2>5. pc' = [pc EXCEPT ![c] = "auth"] /\ UNCHANGED token
    BY <2>1
  <2> QED  BY <2>2, <2>3, <2>4, <2>5, GoOnKeeps
<1> QED  BY <1>1, <1>2

(* Who is let in was ADMIN when the account was read.                      *)
LEMMA LoadActorStep ==
    ASSUME AccessInv, NEW c \in Client, UNCHANGED seedVars, LoadActor(c)
    PROVE  AccessInv'
<1> DEFINE u == CHOOSE v \in Actor(c) : TRUE
<1>1. CASE Actor(c) = {} \/ ~Admitted(c, u)
  BY <1>1, AnswerKeeps DEF LoadActor, Answers
<1>2. CASE Actor(c) # {} /\ Admitted(c, u)
  <2>1. /\ pc[c] = "auth" /\ pc' = [pc EXCEPT ![c] = "get"] /\ found' = [found EXCEPT ![c] = u]
        /\ UNCHANGED call /\ UNCHANGED answer /\ UNCHANGED saw /\ UNCHANGED token
    BY <1>2 DEF LoadActor, Goto
  <2>2. u \in users /\ u.id = token[c].id /\ u.role = "ADMIN"
    BY <1>2 DEF Actor, Admitted
  <2> HIDE DEF u
  <2>3. u \in Account
    BY <2>2 DEF AccessInv, SeedInv, SeedTypeOK
  <2>4. u.login = token[c].login
    BY <2>2 DEF AccessInv, IdentityInv, Bears
  <2>5. "ADMIN" \in saw[c] /\ Standing(c, users) \subseteq saw[c]
    <3>1. Standing(c, users) \subseteq saw[c]
      BY <2>1 DEF AccessInv, CallInv, CallFits, Asking
    <3>2. u.role \in Standing(c, users)
      BY <2>2 DEF Standing
    <3> QED  BY <2>2, <3>1, <3>2
  <2>6. /\ call' = [call EXCEPT ![c] = call[c]] /\ answer' = [answer EXCEPT ![c] = "none"]
        /\ saw' = [saw EXCEPT ![c] = saw[c]]
    BY <2>1, Stays
  <2>7. /\ call[c] \in Calls
        /\ saw[c] \in SUBSET {"match", "mismatch", "ADMIN", "USER", "GONE"}
    BY Stays
  <2>8. CallFits(c)'
    <3>1. users' = users
      BY DEF seedVars, data
    <3>2. Standing(c, users)' = Standing(c, users)
      BY <2>1, <3>1, Zenon DEF Standing
    <3>3. /\ pc'[c] = "get" /\ answer'[c] = "none" /\ saw'[c] = saw[c] /\ found'[c] = u
      BY <2>1, <2>6 DEF AccessInv, TypeOK
    <3> QED  BY <2>2, <2>5, <3>2, <3>3 DEF CallFits, LoggingIn, Asking
  <2> QED  BY <2>1, <2>2, <2>3, <2>4, <2>6, <2>7, <2>8, GoOnKeeps
<1> QED  BY <1>1, <1>2

(* RejectToken, GetApplication, QueryFails and RefuseBody only answer.     *)
LEMMA AnswerSteps ==
    ASSUME AccessInv, NEW c \in Client, UNCHANGED seedVars,
           RejectToken(c) \/ GetApplication(c) \/ QueryFails(c) \/ RefuseBody(c)
    PROVE  AccessInv'
<1>1. CASE RejectToken(c)
  BY <1>1, AnswerKeeps DEF RejectToken, Answers
<1>2. CASE GetApplication(c)
  BY <1>2, AnswerKeeps DEF GetApplication, Answers
<1>3. CASE QueryFails(c)
  BY <1>3, AnswerKeeps DEF QueryFails, Answers
<1>4. CASE RefuseBody(c)
  BY <1>4, AnswerKeeps DEF RefuseBody, Answers
<1> QED  BY <1>1, <1>2, <1>3, <1>4

(* The invariant holds.                                                    *)
THEOREM AccessInvariance == Spec => []AccessInv
<1>1. Init => AccessInv
  <2> SUFFICES ASSUME Init PROVE AccessInv
    OBVIOUS
  <2>1. SeedInv
    BY SeedStart DEF Init
  <2>2. TypeOK
    <3>1. pc \in [Client -> {"idle", "login", "verify", "bind", "auth", "get"}]
      BY DEF Init
    <3>2. call \in [Client -> Calls]
      BY DEF Init, NoCall, Calls, Path
    <3>3. found \in [Client -> Account \cup {NoRow}]
      BY Zenon DEF Init
    <3>4. token \in [Client -> [id : Nat, login : Login \cup {""}, role : Role, live : BOOLEAN]]
      BY DEF Init, NoToken, Role
    <3>5. answer \in [Client -> Answers]
      BY DEF Init, Answers
    <3>6. saw \in [Client -> SUBSET {"match", "mismatch", "ADMIN", "USER", "GONE"}]
      BY DEF Init
    <3> QED  BY <2>1, <3>1, <3>2, <3>3, <3>4, <3>5, <3>6, Zenon DEF TypeOK, SeedInv
  <2>3. IdentityInv
    <3>1. NoToken.id = 0 /\ NoToken.live = FALSE
      BY DEF NoToken
    <3>2. users = {} /\ userSeq = 1
      BY DEF Init, SeedInit
    <3>3. Bears(NoToken)
      BY <3>1, <3>2 DEF Bears
    <3> QED  BY <3>1, <3>3 DEF Init, IdentityInv
  <2>4. CallInv /\ TokenSpeaksForItsOwner
    BY DEF Init, CallInv, CallFits, LoggingIn, Asking, TokenSpeaksForItsOwner
  <2> QED  BY <2>1, <2>2, <2>3, <2>4 DEF AccessInv
<1>2. AccessInv /\ [Next]_vars => AccessInv'
  <2> SUFFICES ASSUME AccessInv, [Next]_vars PROVE AccessInv'
    OBVIOUS
  <2>1. CASE Surroundings
    BY <2>1, SurroundingsStep
  <2>2. ASSUME UNCHANGED seedVars, NEW c \in Client, Serve(c) PROVE AccessInv'
    <3>1. Expire(c) => UNCHANGED saw
      BY DEF Expire
    <3> QED  BY <2>2, <3>1, SendLoginStep, LookUpStep, VerifyStep, ExpireStep, SendGetStep,
        BindStep,
             LoadActorStep, AnswerSteps DEF Serve
  <2>3. CASE UNCHANGED vars
    <3>1. SeedInv'
      BY <2>3, SeedStutters DEF vars, AccessInv
    <3>2. /\ UNCHANGED pc /\ UNCHANGED call /\ UNCHANGED found /\ UNCHANGED token
          /\ UNCHANGED answer /\ UNCHANGED saw
          /\ UNCHANGED users /\ UNCHANGED userSeq /\ UNCHANGED deleted
      BY <2>3 DEF vars, serving, seedVars, data, operators
    <3>3. TypeOK'
      BY <3>1, <3>2, Zenon DEF AccessInv, TypeOK, SeedInv
    <3>4. IdentityInv'
      BY <3>2, Zenon DEF AccessInv, IdentityInv, Bears
    <3>5. CallInv' /\ TokenSpeaksForItsOwner'
      BY <3>2, Zenon DEF AccessInv, CallInv, CallFits, LoggingIn, Asking, Fit, Standing, Typed,
         TokenSpeaksForItsOwner
    <3> QED  BY <3>1, <3>3, <3>4, <3>5 DEF AccessInv
  <2> QED  BY <2>1, <2>2, <2>3 DEF Next
<1> QED  BY <1>1, <1>2, PTL DEF Spec

(* A token never speaks for another account.                               *)
THEOREM Ownership == Spec => []TokenSpeaksForItsOwner
<1>1. AccessInv => TokenSpeaksForItsOwner
  BY DEF AccessInv
<1> QED  BY <1>1, AccessInvariance, PTL

(* A client under way is told something only by a step of its own call.    *)
LEMMA ToldByItsCall ==
    ASSUME AccessInv, Next, NEW c \in Client, pc[c] # "idle", answer'[c] # "none"
    PROVE  Serve(c) /\ users' = users
<1>1. answer[c] = "none" /\ answer \in [Client -> Answers]
  BY DEF AccessInv, CallInv, CallFits, TypeOK
<1>2. CASE Surroundings
  BY <1>1, <1>2 DEF Surroundings, serving
<1>3. ASSUME UNCHANGED seedVars, NEW x \in Client, Serve(x), x # c PROVE FALSE
  <2>1. answer'[c] = answer[c]
    BY <1>1, <1>3 DEF Serve, SendLogin, RefuseBody, LookUp, Verify, Expire, SendGet, Bind,
       RejectToken, LoadActor, GetApplication, QueryFails, Reply
  <2> QED  BY <1>1, <2>1
<1>4. UNCHANGED seedVars => users' = users
  BY DEF seedVars, data
<1> QED  BY <1>2, <1>3, <1>4 DEF Next

(* Logging in succeeds or is refused as some moment of the call justifies. *)
THEOREM LoginTruth == Spec => LoginTrueDuringCall
<1> DEFINE True == \A c \in Client : LoggingIn(c) =>
              /\ answer'[c] = "token" => "match" \in saw[c]
              /\ answer'[c] = "credentials" => "mismatch" \in saw[c]
<1>1. AccessInv /\ [Next]_vars => [True]_vars
  <2> SUFFICES ASSUME AccessInv, Next, NEW c \in Client, LoggingIn(c),
                      answer'[c] \in {"token", "credentials"}
               PROVE  /\ answer'[c] = "token" => "match" \in saw[c]
                      /\ answer'[c] = "credentials" => "mismatch" \in saw[c]
    OBVIOUS
  <2>1. Serve(c) /\ pc[c] \in {"login", "verify"} /\ CallFits(c) /\ Fit(c, users) \subseteq saw[c]
    BY ToldByItsCall DEF LoggingIn, AccessInv, CallInv, CallFits
  <2>2. LookUp(c) \/ Verify(c)
    <3>1. answer[c] = "none" /\ answer \in [Client -> Answers]
      BY <2>1 DEF AccessInv, CallFits, TypeOK
    <3>2. ~Expire(c)
      BY <3>1 DEF Expire
    <3>3. ~QueryFails(c)
      BY <3>1 DEF QueryFails, Reply
    <3>4. ~RefuseBody(c)
      BY <3>1 DEF RefuseBody, Reply
    <3> QED  BY <2>1, <3>2, <3>3, <3>4 DEF Serve, SendLogin, SendGet, Bind, RejectToken,
        LoadActor, GetApplication
  <2>3. answer \in [Client -> Answers]
    BY DEF AccessInv, TypeOK
  <2>4. CASE LookUp(c)
    <3> DEFINE k == Typed(c)
               rows == {u \in users : u.login = k.login}
    <3>1. rows = {} /\ answer'[c] = "credentials"
      <4>1. CASE k.login = "" \/ k.password = ""
        BY <2>3, <2>4, <4>1 DEF LookUp, Reply
      <4>2. CASE ~(k.login = "" \/ k.password = "") /\ rows # {}
        <5>1. answer' = answer /\ answer[c] = "none"
          BY <2>1, <2>4, <4>2 DEF LookUp, CallFits
        <5> QED  BY <5>1
      <4>3. CASE ~(k.login = "" \/ k.password = "") /\ rows = {}
        BY <2>3, <2>4, <4>3 DEF LookUp, Reply
      <4> QED  BY <4>1, <4>2, <4>3
    <3>2. Fit(c, users) = {"mismatch"}
      BY <3>1 DEF Fit
    <3> QED  BY <2>1, <3>1, <3>2
  <2>5. CASE Verify(c)
    <3>1. answer'[c] = (IF Verified(c) THEN "token" ELSE "credentials") /\ pc[c] = "verify"
      BY <2>3, <2>5 DEF Verify, Reply
    <3> QED  BY <2>1, <3>1 DEF CallFits, Verified
  <2> QED  BY <2>2, <2>4, <2>5
<1> QED  BY <1>1, AccessInvariance, PTL DEF Spec, LoginTrueDuringCall

(* What withAdmin finds in the table is what the request has seen.         *)
LEMMA AnswerIsSeen ==
    ASSUME AccessInv, Next, NEW c \in Client, Asking(c), answer'[c] # "none"
    PROVE  /\ answer'[c] \in {"ok", "notFound"} => "ADMIN" \in saw[c]
           /\ answer'[c] = "forbidden" => "USER" \in saw[c]
           /\ answer'[c] = "unauthorized" /\ token[c].live => Actor(c) = {} /\ "GONE" \in saw[c]
<1>1. /\ Serve(c) /\ pc[c] \in {"bind", "auth", "get"}
      /\ CallFits(c) /\ Standing(c, users) \subseteq saw[c]
  BY ToldByItsCall DEF Asking, AccessInv, CallInv, CallFits
<1>2. answer[c] = "none" /\ answer \in [Client -> Answers]
  BY <1>1 DEF AccessInv, CallFits, TypeOK
<1>3. CASE Bind(c)
  <2>1. answer' = answer \/ answer'[c] = "validation"
    BY <1>2, <1>3 DEF Bind, Reply
  <2> QED  BY <1>2, <2>1
<1>4. CASE RejectToken(c)
  <2>1. answer'[c] = "unauthorized" /\ ~token[c].live
    BY <1>2, <1>4 DEF RejectToken, Reply
  <2> QED  BY <2>1
<1>5. CASE LoadActor(c)
  <2> DEFINE u == CHOOSE v \in Actor(c) : TRUE
  <2>1. CASE Actor(c) = {}
    <3>1. answer'[c] = "unauthorized"
      BY <1>2, <1>5, <2>1 DEF LoadActor, Reply
    <3>2. Standing(c, users) = {"GONE"}
      BY <2>1 DEF Actor, Standing
    <3> QED  BY <1>1, <2>1, <3>1, <3>2
  <2>2. CASE Actor(c) # {} /\ ~Admitted(c, u)
    <3>1. answer'[c] = "forbidden"
      BY <1>2, <1>5, <2>2 DEF LoadActor, Reply
    <3>2. u \in users /\ u.id = token[c].id /\ u.role # "ADMIN"
      BY <2>2 DEF Actor, Admitted
    <3>3. u.role = "USER" /\ u.role \in Standing(c, users)
      <4>1. u \in Account
        BY <3>2 DEF AccessInv, SeedInv, SeedTypeOK
      <4>2. u.role \in Standing(c, users)
        BY <3>2 DEF Standing
      <4> QED  BY <3>2, <4>1, <4>2 DEF Account, Role
    <3> QED  BY <1>1, <3>1, <3>3
  <2>3. CASE Actor(c) # {} /\ Admitted(c, u)
    <3>1. answer' = answer
      BY <1>5, <2>3 DEF LoadActor
    <3> QED  BY <1>2, <3>1
  <2> QED  BY <2>1, <2>2, <2>3
<1>6. CASE GetApplication(c)
  <2>1. pc[c] = "get" /\ found[c].role = "ADMIN" /\ "ADMIN" \in saw[c]
    BY <1>1, <1>6 DEF GetApplication, CallFits
  <2>2. answer'[c] \in {"validation", "ok", "notFound"}
    BY <1>2, <1>6, <2>1 DEF GetApplication, Reply
  <2> QED  BY <2>1, <2>2
<1>7. CASE QueryFails(c)
  <2>1. answer'[c] = "internal"
    BY <1>2, <1>7 DEF QueryFails, Reply
  <2> QED  BY <2>1
<1>8. ~Expire(c)
  BY <1>2 DEF Expire
<1> QED  BY <1>1, <1>3, <1>4, <1>5, <1>6, <1>7, <1>8 DEF Serve, SendLogin, RefuseBody, LookUp, Verify, SendGet

(* A request is let in or refused as its account was at some moment since  *)
(* it arrived, whatever role its token was issued for.                     *)
THEOREM AnswerTruth == Spec => AnswerTrueDuringRequest
<1> DEFINE True == \A c \in Client : Asking(c) =>
              /\ answer'[c] \in {"ok", "notFound"} => "ADMIN" \in saw[c]
              /\ answer'[c] = "forbidden" => "USER" \in saw[c]
              /\ answer'[c] = "unauthorized" /\ token[c].live => "GONE" \in saw[c]
<1>1. AccessInv /\ [Next]_vars => [True]_vars
  BY AnswerIsSeen
<1> QED  BY <1>1, AccessInvariance, PTL DEF Spec, AnswerTrueDuringRequest

(* Only an operator's deletion of its account makes a live token unknown.  *)
THEOREM TokenLife == Spec => TokenLivesAsLongAsItsAccount
<1> DEFINE Lives == \A c \in Client :
              Asking(c) /\ answer'[c] = "unauthorized" /\ token[c].live => token[c].id \in deleted
<1>1. AccessInv /\ [Next]_vars => [Lives]_vars
  <2> SUFFICES ASSUME AccessInv, Next, NEW c \in Client, Asking(c),
                      answer'[c] = "unauthorized", token[c].live
               PROVE  token[c].id \in deleted
    OBVIOUS
  <2>1. \A u \in users : u.id # token[c].id
    BY AnswerIsSeen DEF Actor
  <2>2. Bears(token[c]) /\ token[c].id # 0
    BY DEF AccessInv, IdentityInv
  <2> QED  BY <2>1, <2>2 DEF Bears
<1> QED  BY <1>1, AccessInvariance, PTL DEF Spec, TokenLivesAsLongAsItsAccount
==============================================================================
