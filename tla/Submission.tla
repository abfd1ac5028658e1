------------------------------ MODULE Submission ------------------------------
(***************************************************************************)
(* POST /project/application/external, from the body of the request to the *)
(* row in PostgreSQL:                                                      *)
(*                                                                         *)
(*   transport/http/router.go    CreateExternalApplication, decodeJSON     *)
(*   application/service.go      CreateExternalApplication and validation  *)
(*   postgres/repositories.go    Exists, Create, mapDatabaseError          *)
(*                                                                         *)
(* The type is looked up and the row inserted by two statements in no      *)
(* transaction; operators edit project_types at any time.  A client that   *)
(* has no answer, or is told of an internal error, may send its body       *)
(* again.  An INSERT lives on in PostgreSQL when its client has gone.      *)
(***************************************************************************)
EXTENDS Integers, FiniteSets

CONSTANTS Client,       \* the initiators, each with one body to submit
          MaxAttempts,  \* bound: how often a client sends its body
          Type,         \* the ids project_types may hold
          Body          \* the bodies that clients send

ASSUME MaxAttemptsAssumption == MaxAttempts \in Nat \ {0}

(* A body by fields.  Of a text the code tells apart whether it is there,  *)
(* is white space, has white space around it, has more bytes than the      *)
(* limit ("wide": yet no more characters; "long"), or has a wrong format.  *)
(* A text with U+0000 ("nul") is of no format, and otherwise like any to   *)
(* the code, but not to PostgreSQL.                                        *)
Required == {"fullName", "email", "organisationName", "projectName", "expectedResults"}
Optional == {"phone", "organisationUrl", "additionalInformation"}
TextField == Required \cup Optional
Field == TextField \cup {"typeId", "isPayed", "envelope"}

Text(f) ==
    {"absent", "blank", "padded", "good"}
    \cup (IF f = "phone" THEN {} ELSE {"wide", "long"})
    \cup (IF f \in {"email", "phone", "organisationUrl"} THEN {"wrong"} ELSE {"nul"})

Values(f) ==
    CASE f \in TextField  -> Text(f)
      [] f = "typeId"     -> Type \cup {"nonPositive", "absent"}
      [] f = "isPayed"    -> {"true", "false", "absent"}
      [] f = "envelope"   -> {"json", "malformed", "oversize"}
IsBody(b) == DOMAIN b = Field /\ \A f \in Field : b[f] \in Values(f)

ASSUME BodyAssumption == \A b \in Body : IsBody(b)

(* An attempt of a client to submit its body.                              *)
Request == Client \X (1 .. MaxAttempts)

VARIABLES
    types,   \* the ids project_types holds
    rows,    \* external_applications: records [id, by, content]
    nextId,  \* the sequence behind external_applications.id
    body,    \* body[c]: what client c submits
    pc,      \* pc[r]: where r's handler is
    input,   \* input[r]: domain.CreateExternalApplicationInput
    stmt,    \* stmt[r]: r's INSERT, as PostgreSQL knows it
    answer,  \* answer[r]: what r's client is told
    faults   \* history: the requests a failure has met

server == <<types, rows, nextId, stmt>>
vars == <<types, rows, nextId, body, pc, input, stmt, answer, faults>>

NoAnswer == [kind |-> "none", id |-> 0, field |-> "none", fault |-> "none"]
Ok(n) == [NoAnswer EXCEPT !.kind = "ok", !.id = n]
Error(k) == [NoAnswer EXCEPT !.kind = k]
Invalid(f, fault) == [kind |-> "validation", id |-> 0, field |-> f, fault |-> fault]

InFlight(r) == pc[r] \in {"handle", "exists", "insert", "inserting"}

Init ==
    /\ types \in SUBSET Type
    /\ rows = {} /\ nextId = 1
    /\ body \in [Client -> Body]
    /\ pc = [r \in Request |-> "idle"]
    /\ input = [r \in Request |-> body[r[1]]]
    /\ stmt = [r \in Request |-> "none"]
    /\ answer = [r \in Request |-> NoAnswer]
    /\ faults = {}
-----------------------------------------------------------------------------
(* Operators.  The foreign key keeps a type that an application refers to. *)
AddType(t) ==
    /\ t \notin types
    /\ types' = types \cup {t}
    /\ UNCHANGED <<rows, nextId, body, pc, input, stmt, answer, faults>>

DeleteType(t) ==
    /\ t \in types
    /\ \A row \in rows : row.content["typeId"] # t
    /\ types' = types \ {t}
    /\ UNCHANGED <<rows, nextId, body, pc, input, stmt, answer, faults>>
-----------------------------------------------------------------------------
(* Decoding, normalisation, validation.                                    *)

(* encoding/json leaves the zero value where a field is missing or null:   *)
(* an empty text, a nil pointer, 0, false.                                 *)
Zero(f) ==
    CASE f \in Required -> ""
      [] f = "typeId"   -> "nonPositive"
      [] f = "isPayed"  -> "false"
      [] OTHER          -> "absent"
Decode(b) == [f \in Field |-> IF b[f] = "absent" THEN Zero(f) ELSE b[f]]

Trim(text) ==
    CASE text = "padded" -> "good"
      [] text = "blank"  -> ""
      [] OTHER           -> text

(* normalizeCreateInput; an optional text of white space is dropped.       *)
Normalise(i) ==
    [f \in Field |->
        IF f \notin TextField THEN i[f]
        ELSE IF f \in Optional /\ Trim(i[f]) = "" THEN "absent"
        ELSE Trim(i[f])]

(* What validateCreateInput finds wrong with one field.                    *)
Fault(f, value) ==
    IF f \in Required /\ value = "" THEN "required"
    ELSE IF f \in TextField /\ value \in {"wide", "long"} THEN "exceeds"
    ELSE IF value \in {"wrong", "nonPositive"} THEN "format"
    ELSE "none"

(* It reports the first field in this order that has a fault.              *)
FieldOrder == <<"fullName", "email", "organisationName", "projectName", "typeId",
                "expectedResults", "phone", "organisationUrl", "additionalInformation">>
ValidateRequiredOnly(i) ==
    LET wrong == {n \in 1 .. 6 : Fault(FieldOrder[n], i[FieldOrder[n]]) # "none"} IN
    IF wrong = {} THEN NoAnswer
    ELSE LET f == FieldOrder[CHOOSE n \in wrong : \A m \in wrong : n <= m]
         IN  Invalid(f, Fault(f, i[f]))

Validate(i) ==
    LET wrong == {n \in 1 .. 9 : Fault(FieldOrder[n], i[FieldOrder[n]]) # "none"} IN
    IF wrong = {} THEN NoAnswer
    ELSE LET f == FieldOrder[CHOOSE n \in wrong : \A m \in wrong : n <= m]
         IN  Invalid(f, Fault(f, i[f]))
-----------------------------------------------------------------------------
(* The handler.                                                            *)
Goto(r, l) == pc' = [pc EXCEPT ![r] = l]
Reply(r, a) == Goto(r, "done") /\ answer' = [answer EXCEPT ![r] = a]

(* The client sends its body: once, and again when it cannot know what     *)
(* became of the attempt before.                                           *)
Arrive(r) ==
    /\ pc[r] = "idle"
    /\ r[2] > 1 => LET before == <<r[1], r[2] - 1>> IN
                      pc[before] = "crashed" \/ answer[before].kind = "internal"
    /\ Goto(r, "handle")
    /\ UNCHANGED <<server, body, input, answer, faults>>

(* decodeJSON, and the service up to its first statement.                  *)
Handle(r) ==
    /\ pc[r] = "handle"
    /\ LET sent == body[r[1]]
           i == Normalise(Decode(sent))
           invalid == Validate(i) IN
          CASE sent["envelope"] = "malformed" ->
                  Reply(r, Invalid("envelope", "format")) /\ UNCHANGED input
            [] sent["envelope"] = "oversize" ->
                  Reply(r, Error("tooLarge")) /\ UNCHANGED input
            [] sent["envelope"] = "json" ->
                  /\ input' = [input EXCEPT ![r] = i]
                  /\ IF invalid # NoAnswer THEN Reply(r, invalid)
                     ELSE Goto(r, "exists") /\ UNCHANGED answer
    /\ UNCHANGED <<server, body, faults>>

CheckType(r) ==
    /\ pc[r] = "exists"
    /\ IF input[r]["typeId"] \in types
       THEN Goto(r, "insert") /\ UNCHANGED answer
       ELSE Reply(r, Invalid("typeId", "notFound"))
    /\ UNCHANGED <<server, body, input, faults>>

SendInsert(r) ==
    /\ pc[r] = "insert"
    /\ stmt' = [stmt EXCEPT ![r] = "sent"]
    /\ Goto(r, "inserting")
    /\ UNCHANGED <<types, rows, nextId, body, input, answer, faults>>

(* The answer of PostgreSQL: the id of the row; 23503 for a type that has  *)
(* gone, which mapDatabaseError makes a validation error; 22021 for a text *)
(* it cannot store, for which mapDatabaseError has no case.                *)
InsertAnsweredUnread(r) ==
    /\ pc[r] = "inserting"
    /\ \/ stmt[r] \in {"inserted", "unstorable"} /\ Reply(r, Error("internal"))
       \/ stmt[r] = "refused" /\ Reply(r, Invalid("typeId", "notFound"))
    /\ UNCHANGED <<server, body, input, faults>>

InsertAnsweredLatest(r) ==
    /\ pc[r] = "inserting"
    /\ \/ stmt[r] = "inserted" /\ Reply(r, Ok(nextId - 1))
       \/ stmt[r] = "refused" /\ Reply(r, Invalid("typeId", "notFound"))
       \/ stmt[r] = "unstorable" /\ Reply(r, Error("internal"))
    /\ UNCHANGED <<server, body, input, faults>>

InsertAnswered(r) ==
    /\ pc[r] = "inserting"
    /\ \/ \E row \in rows : row.by = r /\ Reply(r, Ok(row.id))
       \/ stmt[r] = "refused" /\ Reply(r, Invalid("typeId", "notFound"))
       \/ stmt[r] = "unstorable" /\ Reply(r, Error("internal"))
    /\ UNCHANGED <<server, body, input, faults>>

(* A statement fails, or its connection is lost before or after it is      *)
(* executed.                                                               *)
StatementFailsAsInvalid(r) ==
    /\ pc[r] \in {"exists", "insert", "inserting"}
    /\ Reply(r, Invalid("typeId", "notFound"))
    /\ faults' = faults \cup {r}
    /\ UNCHANGED <<server, body, input>>

StatementFails(r) ==
    /\ pc[r] \in {"exists", "insert", "inserting"}
    /\ Reply(r, Error("internal"))
    /\ faults' = faults \cup {r}
    /\ UNCHANGED <<server, body, input>>

(* The process dies, with every request it serves.                         *)
Crash ==
    LET lost == {r \in Request : InFlight(r)} IN
    /\ lost # {}
    /\ pc' = [r \in Request |-> IF r \in lost THEN "crashed" ELSE pc[r]]
    /\ faults' = faults \cup lost
    /\ UNCHANGED <<server, body, input, answer>>
-----------------------------------------------------------------------------
(* PostgreSQL executes the INSERT, in a transaction of its own: it takes   *)
(* no text with U+0000 among the parameters, and draws the id from the     *)
(* sequence before it checks the foreign key.                              *)
Storable(i) == \A f \in TextField : i[f] # "nul"

ServerInsert(r) ==
    /\ stmt[r] = "sent"
    /\ IF ~Storable(input[r])
       THEN UNCHANGED <<rows, nextId>> /\ stmt' = [stmt EXCEPT ![r] = "unstorable"]
       ELSE /\ nextId' = nextId + 1
            /\ IF input[r]["typeId"] \in types
               THEN /\ rows' = rows \cup {[id |-> nextId, by |-> r, content |-> input[r]]}
                    /\ stmt' = [stmt EXCEPT ![r] = "inserted"]
               ELSE UNCHANGED rows /\ stmt' = [stmt EXCEPT ![r] = "refused"]
    /\ UNCHANGED <<types, body, pc, input, answer, faults>>

(* The INSERT never arrives, or is cancelled.                              *)
ServerDrops(r) ==
    /\ stmt[r] = "sent"
    /\ stmt' = [stmt EXCEPT ![r] = "dropped"]
    /\ UNCHANGED <<types, rows, nextId, body, pc, input, answer, faults>>
-----------------------------------------------------------------------------
Handler(r) ==
    \/ Handle(r) \/ CheckType(r) \/ SendInsert(r) \/ InsertAnswered(r)
    \/ ServerInsert(r)
Failure(r) == StatementFails(r) \/ ServerDrops(r)

Next ==
    \/ \E t \in Type : AddType(t) \/ DeleteType(t)
    \/ \E r \in Request : Arrive(r) \/ Handler(r) \/ Failure(r)
    \/ Crash

Spec == Init /\ [][Next]_vars
-----------------------------------------------------------------------------
Answers ==
    [kind : {"none", "ok", "validation", "tooLarge", "internal"}, id : Nat,
     field : Field \cup {"none"}, fault : {"none", "required", "exceeds", "format", "notFound"}]

TypeOK ==
    /\ types \subseteq Type
    /\ nextId \in Nat \ {0}
    /\ \A row \in rows : row.id \in 1 .. nextId - 1 /\ row.by \in Request
    /\ body \in [Client -> Body]
    /\ pc \in [Request -> {"idle", "handle", "exists", "insert", "inserting",
                           "done", "crashed"}]
    /\ DOMAIN input = Request
    /\ stmt \in [Request -> {"none", "sent", "inserted", "refused", "unstorable", "dropped"}]
    /\ answer \in [Request -> Answers]
    /\ \A r \in Request : answer[r].id \in 0 .. nextId - 1
    /\ faults \subseteq Request

RowsOf(r) == {row \in rows : row.by = r}

(* The inductive invariant, in parts.  What gets to the statements is      *)
(* valid; phases of the handler and of its INSERT; rows and INSERTs are one *)
(* to one; answers tell the truth about the INSERT; a client has sent its  *)
(* body again only where it could not know what became of it.              *)
InputInv ==
    \A r \in Request : pc[r] \in {"exists", "insert", "inserting"} \/ stmt[r] # "none" =>
        input[r] = Normalise(Decode(body[r[1]])) /\ Validate(input[r]) = NoAnswer

PhaseInv ==
    \A r \in Request :
        /\ stmt[r] # "none" => pc[r] \in {"inserting", "done", "crashed"}
        /\ answer[r].kind # "none" => pc[r] = "done"
        /\ pc[r] = "crashed" => r \in faults

RowsInv ==
    /\ \A row \in rows : /\ stmt[row.by] = "inserted"
                         /\ row.content = input[row.by]
                         /\ row.content["typeId"] \in types
                         /\ Storable(row.content)
    /\ \A p, q \in rows : p.id = q.id \/ p.by = q.by => p = q
    /\ \A r \in Request : stmt[r] = "inserted" => RowsOf(r) # {}

AnswerInv ==
    \A r \in Request :
        /\ answer[r].kind = "ok" => \E row \in RowsOf(r) : row.id = answer[r].id
        /\ answer[r].kind \in {"validation", "tooLarge"} => stmt[r] \in {"none", "refused"}
        /\ answer[r].kind = "internal" => r \in faults \/ stmt[r] = "unstorable"

RetryInv ==
    \A r \in Request : pc[r] # "idle" =>
        \A n \in 1 .. r[2] - 1 :
            pc[<<r[1], n>>] = "crashed" \/ answer[<<r[1], n>>].kind = "internal"

SubmissionInv == TypeOK /\ InputInv /\ PhaseInv /\ RowsInv /\ AnswerInv /\ RetryInv

(* An acknowledged application exists, once, under the id its client was   *)
(* given, with the client's normalised body; no other row bears the id     *)
(* (router.go 217-242, repositories.go 105-124).                           *)
AckedExactlyOnce ==
    \A r \in Request : answer[r].kind = "ok" =>
        /\ RowsOf(r) = {row \in rows : row.id = answer[r].id}
        /\ \E row \in rows : /\ RowsOf(r) = {row}
                             /\ row.content = Normalise(Decode(body[r[1]]))

(* A client told that its body is refused has left no row, and none will   *)
(* appear later from an INSERT on its way: only an internal error leaves   *)
(* the outcome open.                                                       *)
RefusedLeavesNothing ==
    \A r \in Request : answer[r].kind \in {"validation", "tooLarge"} =>
        RowsOf(r) = {} /\ stmt[r] \in {"none", "refused"}

(* A body is stored a second time only if the attempt before met a         *)
(* failure: nothing else that an answer or its absence makes a client send *)
(* again, not even the internal error for a text that PostgreSQL refuses,  *)
(* leaves a duplicate (router.go 217-242, repositories.go 105-124).        *)
DuplicateOnlyAfterFailure ==
    \A p, q \in rows :
        p.by[1] = q.by[1] /\ p # q =>
            p.by[2] # q.by[2] /\ (p.by[2] < q.by[2] => p.by \in faults)

(* What the endpoint shows of itself, in the terms of SubmissionRegister.  *)
askedBar == [r \in Request |-> Normalise(Decode(body[r[1]]))]
Register == INSTANCE SubmissionRegister WITH asked <- askedBar

(* The endpoint implements the register: whatever fails or is retried, a   *)
(* request is stored at most once, as its client asked, and its answer     *)
(* holds for ever (router.go 217-242, service.go 95-110).                 *)
RegisterSpec == Register!Spec

(* Each row refers to a type that exists, and its texts are not blank, not *)
(* padded, within their limits and well formed (service.go 194-264).       *)
StoredFits ==
    \A row \in rows :
        /\ row.content["typeId"] \in types
        /\ row.content["isPayed"] \in {"true", "false"}
        /\ \A f \in Required : row.content[f] = "good"
        /\ \A f \in Optional : row.content[f] \in {"good", "absent"}

(* "fullName exceeds 150 characters" (service.go 199), and the like: a     *)
(* client is told so only of a text with more characters than that.        *)
ExceedsMeansTooLong ==
    \A r \in Request : answer[r].fault = "exceeds" => body[r[1]][answer[r].field] = "long"

(* Each stored application came with every field that the contract         *)
(* requires (api.json, CreateExternalApplicationModel.required).           *)
StoredHasRequiredFields ==
    \A row \in rows : \A f \in Required \cup {"typeId", "isPayed"} :
        body[row.by[1]][f] # "absent"
==============================================================================
