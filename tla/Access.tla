-------------------------------- MODULE Access --------------------------------
(***************************************************************************)
(* Who is let in while accounts change: clients that log in and that ask   *)
(* for an application with the token they got, over the tables of module   *)
(* Seeding, which operators and restarts change under a call's feet.       *)
(*                                                                         *)
(*   transport/http/router.go    Login, withAdmin, GetExternalApplication  *)
(*   application/service.go      Login, GetExternalApplication             *)
(*   auth/token.go, password.go  Generate, Parse, VerifyPassword           *)
(*   postgres/repositories.go    GetByLogin, GetByID                       *)
(*                                                                         *)
(* One action per statement: a row that was read may have changed before   *)
(* the answer that is built on it.                                         *)
(***************************************************************************)
EXTENDS Seeding

CONSTANTS Client,  \* who logs in and asks for applications
          Sent     \* the bodies that clients send to log in

(* The body of POST /login; the rest matters if it decodes ("json").       *)
Credentials == [body : {"json", "malformed", "oversize"},
                login : Login \cup {"blank", "padded"},
                password : Password \cup {"blank", "padded"}]

ASSUME SentAssumption == Sent \subseteq Credentials
ASSUME PlainPasswordAssumption == Password \cap {"", "blank", "padded"} = {}

VARIABLES
    pc,     \* pc[c]: where the handler of c's call is
    call,   \* call[c]: what c has sent
    found,  \* found[c]: the row that the handler has read
    token,  \* token[c]: the token that c holds
    answer, \* answer[c]: what c was last told
    saw     \* history: saw[c]: what was true at some moment of c's call

serving == <<pc, call, found, token, answer>>
vars == <<seedVars, serving, saw>>

NoRow == [id |-> 0, login |-> "", password |-> "", role |-> "USER"]
NoToken == [id |-> 0, login |-> "", role |-> "USER", live |-> FALSE]

Path == {"unparsable", "nonPositive", "present", "missing"}
Calls == [body : {"json", "malformed", "oversize"}, login : Login \cup {"blank", "padded"},
          password : Password \cup {"blank", "padded"}, path : Path]
Answers == {"none", "token", "ok", "validation", "tooLarge", "credentials", "unauthorized",
            "forbidden", "notFound", "internal"}
NoCall == [body |-> "malformed", login |-> "blank", password |-> "blank", path |-> "unparsable"]

Trim(text, padded) ==
    CASE text = "blank"  -> ""
      [] text = "padded" -> padded
      [] OTHER           -> text

(* What c has typed, without the white space around it.                    *)
Typed(c) == [login    |-> Trim(call[c].login, "admin"),
             password |-> Trim(call[c].password, "admin123")]

LoggingIn(c) == pc[c] \in {"login", "verify"}
Asking(c) == pc[c] \in {"bind", "auth", "get"}

(* What table users, being t, says of c: whether what c has typed fits,    *)
(* and which role the account of its token has.                            *)
Fit(c, t) ==
    IF \E u \in t : u.login = Typed(c).login /\ u.password = Typed(c).password
    THEN {"match"} ELSE {"mismatch"}

Standing(c, t) ==
    IF \E u \in t : u.id = token[c].id
    THEN {u.role : u \in {v \in t : v.id = token[c].id}} ELSE {"GONE"}

Facts(c, t) ==
    IF LoggingIn(c) THEN Fit(c, t) ELSE IF Asking(c) THEN Standing(c, t) ELSE {}

Init ==
    /\ SeedInit
    /\ pc = [c \in Client |-> "idle"]
    /\ call = [c \in Client |-> NoCall]
    /\ found = [c \in Client |-> NoRow]
    /\ token = [c \in Client |-> NoToken]
    /\ answer = [c \in Client |-> "none"]
    /\ saw = [c \in Client |-> {}]
-----------------------------------------------------------------------------
Goto(c, l) == pc' = [pc EXCEPT ![c] = l]

Reply(c, e) ==
    /\ Goto(c, "idle")
    /\ answer' = [answer EXCEPT ![c] = e]
    /\ call' = [call EXCEPT ![c] = NoCall]
    /\ found' = [found EXCEPT ![c] = NoRow]
    /\ saw' = [saw EXCEPT ![c] = {}]

(* POST /login.                                                            *)
SendLogin(c) ==
    /\ pc[c] = "idle"
    /\ \E k \in Sent :
          call' = [call EXCEPT ![c] = [body |-> k.body, login |-> k.login,
                                       password |-> k.password, path |-> "unparsable"]]
    /\ Goto(c, "login")
    /\ answer' = [answer EXCEPT ![c] = "none"]
    /\ saw' = [saw EXCEPT ![c] = Fit(c, users)']
    /\ UNCHANGED <<found, token>>

(* decodeJSON: the body is not one JSON object of these two texts, or it   *)
(* is larger than maxRequestBodyBytes.                                     *)
RefuseBody(c) ==
    /\ pc[c] = "login" /\ call[c].body # "json"
    /\ Reply(c, IF call[c].body = "oversize" THEN "tooLarge" ELSE "validation")
    /\ UNCHANGED token

(* Login up to GetByLogin, which is not called without a login and a       *)
(* password.                                                               *)
LookUp(c) ==
    /\ pc[c] = "login" /\ call[c].body = "json"
    /\ LET k == Typed(c)
           rows == {u \in users : u.login = k.login} IN
          IF k.login = "" \/ k.password = "" THEN Reply(c, "validation")
          ELSE IF rows = {} THEN Reply(c, "credentials")
          ELSE /\ found' = [found EXCEPT ![c] = CHOOSE u \in rows : TRUE]
               /\ Goto(c, "verify") /\ UNCHANGED <<call, answer, saw>>
    /\ UNCHANGED token

VerifiedUntrimmed(c) == found[c].password = call[c].password

Verified(c) == found[c].password = Typed(c).password

(* The claims of a token for account u.                                    *)
Generate(u) == [id |-> u.id, login |-> u.login, role |-> u.role, live |-> TRUE]

(* VerifyPassword, which takes its time, against the row that was read.    *)
Verify(c) ==
    /\ pc[c] = "verify"
    /\ IF Verified(c)
       THEN token' = [token EXCEPT ![c] = Generate(found[c])] /\ Reply(c, "token")
       ELSE Reply(c, "credentials") /\ UNCHANGED token

(* Its 24 hours are over.                                                  *)
Expire(c) ==
    /\ token[c].live
    /\ token' = [token EXCEPT ![c].live = FALSE]
    /\ UNCHANGED <<pc, call, found, answer, saw>>
-----------------------------------------------------------------------------
(* GET /project/application/external/{applicationId}.                      *)
SendGet(c) ==
    /\ pc[c] = "idle"
    /\ \E p \in Path : call' = [call EXCEPT ![c].path = p]
    /\ Goto(c, "bind")
    /\ answer' = [answer EXCEPT ![c] = "none"]
    /\ saw' = [saw EXCEPT ![c] = Standing(c, users)]
    /\ UNCHANGED <<found, token>>

(* The generated wrapper binds {applicationId}, before anybody looks at    *)
(* the token.                                                              *)
Bind(c) ==
    /\ pc[c] = "bind"
    /\ IF call[c].path = "unparsable" THEN Reply(c, "validation")
       ELSE Goto(c, "auth") /\ UNCHANGED <<call, found, answer, saw>>
    /\ UNCHANGED token

(* withAdmin: the token, then the account as it is now.                    *)
RejectToken(c) ==
    /\ pc[c] = "auth" /\ ~token[c].live
    /\ Reply(c, "unauthorized")
    /\ UNCHANGED token

ActorByLogin(c) == {u \in users : u.login = token[c].login}

Actor(c) == {u \in users : u.id = token[c].id}

AdmittedByClaim(c, u) == token[c].role = "ADMIN"

Admitted(c, u) == u.role = "ADMIN"

LoadActor(c) ==
    /\ pc[c] = "auth" /\ token[c].live
    /\ IF Actor(c) = {} THEN Reply(c, "unauthorized")
       ELSE LET u == CHOOSE v \in Actor(c) : TRUE IN
               IF ~Admitted(c, u) THEN Reply(c, "forbidden")
               ELSE /\ found' = [found EXCEPT ![c] = u]
                    /\ Goto(c, "get") /\ UNCHANGED <<call, answer, saw>>
    /\ UNCHANGED token

(* The handler, the use case and its one statement.                        *)
GetApplication(c) ==
    /\ pc[c] = "get"
    /\ Reply(c, IF call[c].path = "nonPositive" THEN "validation"
                ELSE IF found[c].role # "ADMIN" THEN "forbidden"
                ELSE IF call[c].path = "present" THEN "ok" ELSE "notFound")
    /\ UNCHANGED token

(* The statement of this moment fails.                                     *)
QueryFails(c) ==
    /\ \/ /\ pc[c] = "login" /\ call[c].body = "json"
          /\ Typed(c).login # "" /\ Typed(c).password # ""
       \/ pc[c] = "auth" /\ token[c].live
       \/ pc[c] = "get" /\ call[c].path # "nonPositive"
    /\ Reply(c, "internal")
    /\ UNCHANGED token
-----------------------------------------------------------------------------
Serve(c) ==
    \/ SendLogin(c) \/ RefuseBody(c) \/ LookUp(c) \/ Verify(c) \/ Expire(c)
    \/ SendGet(c) \/ Bind(c) \/ RejectToken(c) \/ LoadActor(c) \/ GetApplication(c)
    \/ QueryFails(c)

(* The tables change before the eyes of every call.                        *)
Surroundings ==
    /\ SeedNext
    /\ saw' = [c \in Client |-> saw[c] \cup Facts(c, users')]
    /\ UNCHANGED serving

Next ==
    \/ Surroundings
    \/ UNCHANGED seedVars /\ \E c \in Client : Serve(c)

Spec == Init /\ [][Next]_vars
-----------------------------------------------------------------------------
TypeOK ==
    /\ SeedTypeOK
    /\ pc \in [Client -> {"idle", "login", "verify", "bind", "auth", "get"}]
    /\ call \in [Client -> Calls]
    /\ found \in [Client -> Account \cup {NoRow}]
    /\ token \in [Client -> [id : Nat, login : Login \cup {""}, role : Role, live : BOOLEAN]]
    /\ answer \in [Client -> Answers]
    /\ saw \in [Client -> SUBSET {"match", "mismatch", "ADMIN", "USER", "GONE"}]

(* A token never speaks for another account, also when its own has been    *)
(* deleted and the login given to somebody else (router.go, withAdmin).    *)
TokenSpeaksForItsOwner ==
    \A c \in Client : pc[c] = "get" =>
        found[c].id = token[c].id /\ found[c].login = token[c].login

(* Logging in succeeds or is refused as some moment of the call justifies, *)
(* though the row is read once and verified later: no token for a password *)
(* that was wrong all along, no refusal of one that was right all along    *)
(* (service.go, Login).                                                    *)
LoginTrueDuringCall ==
    [][\A c \in Client : LoggingIn(c) =>
          /\ answer'[c] = "token" => "match" \in saw[c]
          /\ answer'[c] = "credentials" => "mismatch" \in saw[c]]_vars

(* README.md 133-136: whatever role the token was issued for, a request is *)
(* let in only if its account was ADMIN at some moment since it arrived,   *)
(* and told 403 or, with a live token, 401 only if the account was USER or *)
(* gone at some moment (router.go, withAdmin).                             *)
AnswerTrueDuringRequest ==
    [][\A c \in Client : Asking(c) =>
          /\ answer'[c] \in {"ok", "notFound"} => "ADMIN" \in saw[c]
          /\ answer'[c] = "forbidden" => "USER" \in saw[c]
          /\ answer'[c] = "unauthorized" /\ token[c].live => "GONE" \in saw[c]]_vars

(* A live token is refused as unknown only after an operator has deleted   *)
(* its account: no restart, with or without the seed, takes it away        *)
(* (seed.go 30-36 keeps the id of a row it updates).                       *)
TokenLivesAsLongAsItsAccount ==
    [][\A c \in Client :
          Asking(c) /\ answer'[c] = "unauthorized" /\ token[c].live => token[c].id \in deleted]_vars
-----------------------------------------------------------------------------
(* The inductive invariant, in parts.  Who has read or been given an id    *)
(* knows the login that goes with it, for ever.                            *)
Bears(x) ==
    /\ x.id < userSeq
    /\ \A u \in users : u.id = x.id => u.login = x.login
    /\ x.id = 0 \/ x.id \in deleted \/ \E u \in users : u.id = x.id

IdentityInv ==
    \A c \in Client :
        /\ Bears(token[c])
        /\ pc[c] = "verify" => Bears(found[c])
        /\ token[c].live => token[c].id # 0

(* What has been read was true at some moment of the call.                 *)
CallFits(c) ==
    /\ pc[c] # "idle" => answer[c] = "none"
    /\ LoggingIn(c) => Fit(c, users) \subseteq saw[c]
    /\ Asking(c) => Standing(c, users) \subseteq saw[c]
    /\ pc[c] = "verify" =>
          /\ found[c].id # 0
          /\ IF found[c].password = Typed(c).password THEN "match" \in saw[c]
             ELSE "mismatch" \in saw[c]
    /\ pc[c] = "get" => found[c].role = "ADMIN" /\ "ADMIN" \in saw[c]

CallInv == \A c \in Client : CallFits(c)

AccessInv == SeedInv /\ TypeOK /\ IdentityInv /\ CallInv /\ TokenSpeaksForItsOwner
==============================================================================
