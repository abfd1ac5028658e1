--------------------------- MODULE SubmissionProofs ---------------------------
(***************************************************************************)
(* Proofs about module Submission.  One inductive invariant,               *)
(* SubmissionInv, is preserved by every action; what clients and readers   *)
(* of the table may rely on follows from it.                               *)
(***************************************************************************)
EXTENDS Submission, TLAPS

(* The answers a handler can give, and how to tell them apart.             *)
LEMMA AnswerForms ==
    /\ NoAnswer \in Answers /\ NoAnswer.kind = "none" /\ NoAnswer.id = 0
    /\ \A n \in Nat : /\ Ok(n) \in Answers /\ Ok(n).kind = "ok" /\ Ok(n).id = n
    /\ \A k \in {"tooLarge", "internal"} :
          Error(k) \in Answers /\ Error(k).kind = k /\ Error(k).id = 0
    /\ \A f \in Field, x \in {"required", "exceeds", "format", "notFound"} :
          /\ Invalid(f, x) \in Answers
          /\ Invalid(f, x).kind = "validation" /\ Invalid(f, x).id = 0
  BY DEF Answers, NoAnswer, Ok, Error, Invalid

(* Validation says that nothing is wrong, or names a field and its fault.  *)
LEMMA ValidateForms ==
    ASSUME NEW i
    PROVE  \/ Validate(i) = NoAnswer
           \/ \E f \in Field, x \in {"required", "exceeds", "format", "notFound"} :
                 Validate(i) = Invalid(f, x)
<1> DEFINE wrong == {n \in 1 .. 9 : Fault(FieldOrder[n], i[FieldOrder[n]]) # "none"}
<1>1. CASE wrong = {}
  BY <1>1 DEF Validate
<1>2. CASE wrong # {}
  <2> DEFINE first == CHOOSE n \in wrong : \A m \in wrong : n <= m
  <2>1. \E n \in wrong : \A m \in wrong : n <= m
    BY <1>2
  <2>2. first \in wrong
    BY <2>1
  <2>3. FieldOrder[first] \in Field
    <3>1. first \in {1, 2, 3, 4, 5, 6, 7, 8, 9}
      BY <2>2
    <3>2. \A n \in {1, 2, 3, 4, 5, 6, 7, 8, 9} :
             FieldOrder[n] \in Required \cup Optional \cup {"typeId"}
      BY DEF FieldOrder, Required, Optional
    <3> QED  BY <3>1, <3>2 DEF Field, TextField
  <2>4. Fault(FieldOrder[first], i[FieldOrder[first]]) \in {"required", "exceeds", "format"}
    BY <2>2, Zenon DEF Fault
  <2>5. Validate(i) = Invalid(FieldOrder[first], Fault(FieldOrder[first], i[FieldOrder[first]]))
    BY <1>2 DEF Validate
  <2> QED  BY <2>3, <2>4, <2>5, Zenon
<1> QED  BY <1>1, <1>2

(* When it says that nothing is wrong, no field it looks at has a fault.   *)
LEMMA ValidMeansFaultless ==
    ASSUME NEW i, Validate(i) = NoAnswer, NEW f \in Required \cup Optional \cup {"typeId"}
    PROVE  Fault(f, i[f]) = "none"
<1> DEFINE wrong == {n \in 1 .. 9 : Fault(FieldOrder[n], i[FieldOrder[n]]) # "none"}
<1>1. wrong = {}
  <2> SUFFICES ASSUME wrong # {} PROVE FALSE
    OBVIOUS
  <2>1. \E g, x : Validate(i) = [kind |-> "validation", id |-> 0, field |-> g, fault |-> x]
    BY DEF Validate, Invalid
  <2> QED  BY <2>1 DEF NoAnswer
<1>2. \E n \in {1, 2, 3, 4, 5, 6, 7, 8, 9} : FieldOrder[n] = f
  BY DEF FieldOrder, Required, Optional
<1>3. \A n \in {1, 2, 3, 4, 5, 6, 7, 8, 9} : n \in 1 .. 9
  OBVIOUS
<1> QED  BY <1>1, <1>2, <1>3

(* So that a valid body, normalised, has good texts in each required field *)
(* and good ones or none in the optional fields, whatever was sent, if     *)
(* PostgreSQL can store it.                                                *)
LEMMA ValidFields ==
    ASSUME NEW b, IsBody(b), NEW i, i = Normalise(Decode(b)), Validate(i) = NoAnswer,
           Storable(i)
    PROVE  /\ i["isPayed"] \in {"true", "false"}
           /\ \A f \in Required : i[f] = "good"
           /\ \A f \in Optional : i[f] \in {"good", "absent"}
<1>1. i["isPayed"] \in {"true", "false"}
  <2>1. b["isPayed"] \in {"true", "false", "absent"}
    BY DEF IsBody, Values, Field, TextField, Required, Optional
  <2> QED  BY <2>1 DEF Normalise, Decode, Zero, Field, TextField, Required, Optional
<1>2. ASSUME NEW f \in TextField
      PROVE  /\ f \in Field
             /\ b[f] \in {"absent", "blank", "padded", "good", "wide", "long", "wrong", "nul"}
  <2>1. f \in Field /\ f # "typeId" /\ f # "isPayed" /\ f # "envelope"
    BY DEF Field, TextField, Required, Optional
  <2>2. Values(f) = Text(f)
    BY <2>1 DEF Values
  <2>3. b[f] \in Text(f)
    BY <2>1, <2>2 DEF IsBody
  <2> QED  BY <2>1, <2>3 DEF Text
<1>3. ASSUME NEW f \in Required
      PROVE  i[f] = "good"
  <2>1. f \in TextField /\ f \notin Optional
    BY DEF TextField, Required, Optional
  <2>2. i[f] = Trim(IF b[f] = "absent" THEN "" ELSE b[f])
    <3>1. Zero(f) = "" \/ b[f] # "absent"
      BY <2>1 DEF Zero, Required
    <3>2. Decode(b)[f] = IF b[f] = "absent" THEN "" ELSE b[f]
      BY <1>2, <2>1, <3>1 DEF Decode
    <3> QED  BY <1>2, <2>1, <3>2 DEF Normalise
  <2>3. i[f] \in {"", "good", "wide", "long", "wrong", "nul"}
    BY <1>2, <2>1, <2>2 DEF Trim
  <2>4. Fault(f, i[f]) = "none"
    BY ValidMeansFaultless
  <2> QED  BY <2>1, <2>3, <2>4 DEF Fault, Storable
<1>4. ASSUME NEW f \in Optional
      PROVE  i[f] \in {"good", "absent"}
  <2>1. f \in TextField /\ f \notin Required /\ f # "typeId" /\ f # "isPayed"
    BY DEF TextField, Required, Optional
  <2>2. Decode(b)[f] = b[f]
    BY <1>2, <2>1 DEF Decode, Zero
  <2>3. i[f] = IF Trim(b[f]) = "" THEN "absent" ELSE Trim(b[f])
    BY <1>2, <2>1, <2>2 DEF Normalise
  <2>4. i[f] \in {"absent", "good", "wide", "long", "wrong", "nul"}
    BY <1>2, <2>1, <2>3 DEF Trim
  <2>5. Fault(f, i[f]) = "none"
    BY ValidMeansFaultless
  <2> QED  BY <2>1, <2>4, <2>5 DEF Fault, Storable
<1> QED  BY <1>1, <1>3, <1>4

(* The fields that are not texts.                                          *)
LEMMA FieldNames == {"typeId", "envelope", "isPayed"} \subseteq Field
  BY DEF Field

-----------------------------------------------------------------------------
(* Each action preserves the invariant.                                    *)

(* The attempts before a client's attempt are attempts of that client.     *)
LEMMA Before ==
    ASSUME NEW r \in Request, NEW n \in 1 .. r[2] - 1
    PROVE  <<r[1], n>> \in Request /\ <<r[1], n>>[1] = r[1] /\ <<r[1], n>>[2] = n
<1>1. r[1] \in Client /\ r[2] \in 1 .. MaxAttempts
  BY DEF Request
<1>2. n \in 1 .. MaxAttempts
  BY <1>1, MaxAttemptsAssumption
<1> QED  BY <1>1, <1>2 DEF Request

(* What made a client send its body again stays true, unless an attempt    *)
(* arrives.                                                                *)
LEMMA RetryKept ==
    ASSUME SubmissionInv,
           \A x \in Request :
              /\ pc'[x] # "idle" => pc[x] # "idle"
              /\ pc[x] = "crashed" => pc'[x] = "crashed"
              /\ answer[x].kind = "internal" => answer'[x].kind = "internal"
    PROVE  RetryInv'
  BY Before DEF SubmissionInv, RetryInv

(* More types only help the references of rows.                            *)
LEMMA AddTypeStep ==
    ASSUME SubmissionInv, NEW t \in Type, AddType(t)
    PROVE  SubmissionInv'
<1>1. TypeOK'
  BY DEF SubmissionInv, AddType, TypeOK
<1>2. InputInv'
  BY DEF SubmissionInv, AddType, InputInv
<1>3. PhaseInv'
  BY DEF SubmissionInv, AddType, PhaseInv
<1>4. RowsInv'
  BY DEF SubmissionInv, AddType, RowsInv, RowsOf
<1>5. AnswerInv'
  BY DEF SubmissionInv, AddType, RowsOf, AnswerInv
<1>6. RetryInv'
  BY RetryKept DEF SubmissionInv, PhaseInv, TypeOK, AddType
<1>7. QED  BY <1>1, <1>2, <1>3, <1>4, <1>5, <1>6 DEF SubmissionInv

(* The foreign key keeps the types that rows refer to.                     *)
LEMMA DeleteTypeStep ==
    ASSUME SubmissionInv, NEW t \in Type, DeleteType(t)
    PROVE  SubmissionInv'
<1>1. TypeOK'
  BY DEF SubmissionInv, DeleteType, TypeOK
<1>2. InputInv'
  BY DEF SubmissionInv, DeleteType, InputInv
<1>3. PhaseInv'
  BY DEF SubmissionInv, DeleteType, PhaseInv
<1>4. RowsInv'
  BY DEF SubmissionInv, DeleteType, RowsInv, RowsOf
<1>5. AnswerInv'
  BY DEF SubmissionInv, DeleteType, RowsOf, AnswerInv
<1>6. RetryInv'
  BY RetryKept DEF SubmissionInv, PhaseInv, TypeOK, DeleteType
<1>7. QED  BY <1>1, <1>2, <1>3, <1>4, <1>5, <1>6 DEF SubmissionInv

(* An arriving request has no INSERT and no answer.                        *)
LEMMA ArriveStep ==
    ASSUME SubmissionInv, NEW r \in Request, Arrive(r)
    PROVE  SubmissionInv'
<1>1. TypeOK'
  BY DEF SubmissionInv, Arrive, Goto, server, TypeOK
<1>2. InputInv'
  BY DEF SubmissionInv, Arrive, Goto, server, InputInv
<1>3. PhaseInv'
  BY DEF SubmissionInv, Arrive, Goto, server, PhaseInv
<1>4. RowsInv'
  BY DEF SubmissionInv, Arrive, server, RowsInv, RowsOf
<1>5. AnswerInv'
  BY DEF SubmissionInv, Arrive, server, RowsOf, AnswerInv
<1>6. RetryInv'
  <2>1. /\ pc \in [Request -> {"idle", "handle", "exists", "insert", "inserting", "done", "crashed"}]
        /\ pc[r] = "idle" /\ pc' = [pc EXCEPT ![r] = "handle"] /\ UNCHANGED answer
    BY DEF SubmissionInv, TypeOK, Arrive, Goto
  <2>2. \A x \in Request : pc[x] = "crashed" => pc'[x] = "crashed"
    BY <2>1
  <2>3. ASSUME NEW x \in Request, pc'[x] # "idle", NEW n \in 1 .. x[2] - 1
        PROVE  pc[<<x[1], n>>] = "crashed" \/ answer[<<x[1], n>>].kind = "internal"
    <3>1. CASE x # r
      BY <2>1, <2>3, <3>1 DEF SubmissionInv, RetryInv
    <3>2. CASE x = r
      <4> DEFINE before == <<r[1], r[2] - 1>>
      <4>1. r[2] \in Nat /\ n \in 1 .. r[2] - 1 /\ r[2] > 1
        BY <2>3, <3>2, MaxAttemptsAssumption DEF Request
      <4>2. before \in Request /\ before[1] = r[1] /\ before[2] = r[2] - 1
        <5>1. r[2] - 1 \in 1 .. r[2] - 1
          BY <4>1
        <5> QED  BY <5>1, Before
      <4>3. pc[before] = "crashed" \/ answer[before].kind = "internal"
        BY <4>1 DEF Arrive
      <4>4. CASE n = r[2] - 1
        BY <3>2, <4>3, <4>4
      <4>5. CASE n # r[2] - 1
        <5>1. n \in 1 .. before[2] - 1
          BY <4>1, <4>2, <4>5
        <5>2. pc[before] # "idle"
          BY <4>2, <4>3 DEF SubmissionInv, PhaseInv
        <5> QED  BY <3>2, <4>2, <5>1, <5>2 DEF SubmissionInv, RetryInv
      <4> QED  BY <4>4, <4>5
    <3> QED  BY <3>1, <3>2
  <2> QED  BY <2>1, <2>2, <2>3, Before DEF RetryInv
<1>7. QED  BY <1>1, <1>2, <1>3, <1>4, <1>5, <1>6 DEF SubmissionInv

(* Only a valid input goes on to the statements; a refusal leaves no       *)
(* INSERT.                                                                 *)
LEMMA HandleStep ==
    ASSUME SubmissionInv, NEW r \in Request, Handle(r)
    PROVE  SubmissionInv'
<1> DEFINE i == Normalise(Decode(body[r[1]]))
<1>a. /\ pc[r] = "handle" /\ UNCHANGED <<server, body, faults>>
      /\ stmt[r] = "none" /\ answer[r].kind = "none"
  BY DEF SubmissionInv, Handle, PhaseInv
<1>b. \/ /\ \E x \in Answers : /\ Reply(r, x) /\ x.id = 0
                                /\ x.kind \in {"validation", "tooLarge"}
         /\ UNCHANGED input \/ input' = [input EXCEPT ![r] = i]
      \/ /\ input' = [input EXCEPT ![r] = i] /\ Validate(i) = NoAnswer
         /\ Goto(r, "exists") /\ UNCHANGED answer
  <2>1. body[r[1]]["envelope"] \in {"malformed", "oversize", "json"}
    BY BodyAssumption DEF SubmissionInv, TypeOK, IsBody, Field, Values, TextField,
                          Required, Optional, Request
  <2>2. CASE body[r[1]]["envelope"] = "malformed"
    BY <2>2, AnswerForms, FieldNames DEF Handle
  <2>3. CASE body[r[1]]["envelope"] = "oversize"
    BY <2>3, AnswerForms DEF Handle
  <2>4. CASE body[r[1]]["envelope"] = "json"
    <3>1. /\ input' = [input EXCEPT ![r] = i]
          /\ IF Validate(i) # NoAnswer THEN Reply(r, Validate(i))
             ELSE Goto(r, "exists") /\ UNCHANGED answer
      BY <2>4 DEF Handle
    <3>2. Validate(i) # NoAnswer => /\ Validate(i) \in Answers /\ Validate(i).id = 0
                                    /\ Validate(i).kind = "validation"
      BY ValidateForms, AnswerForms
    <3> QED  BY <3>1, <3>2
  <2> QED  BY <2>1, <2>2, <2>3, <2>4
<1>1. TypeOK'
  BY <1>a, <1>b, AnswerForms DEF SubmissionInv, server, Goto, Reply, TypeOK, RowsOf
<1>2. InputInv'
  BY <1>a, <1>b, AnswerForms DEF SubmissionInv, server, Goto, Reply, TypeOK, InputInv
<1>3. PhaseInv'
  BY <1>a, <1>b, AnswerForms DEF SubmissionInv, server, Goto, Reply, TypeOK, PhaseInv
<1>4. RowsInv'
  BY <1>a, <1>b, AnswerForms DEF SubmissionInv, server, TypeOK, RowsInv, RowsOf
<1>5. AnswerInv'
  BY <1>a, <1>b, AnswerForms DEF SubmissionInv, server, Reply, TypeOK, RowsOf, AnswerInv
<1>6. RetryInv'
  BY <1>a, <1>b, RetryKept DEF SubmissionInv, PhaseInv, TypeOK, Goto, Reply, server
<1>7. QED  BY <1>1, <1>2, <1>3, <1>4, <1>5, <1>6 DEF SubmissionInv

(* A request refused for its type has sent no INSERT.                      *)
LEMMA CheckTypeStep ==
    ASSUME SubmissionInv, NEW r \in Request, CheckType(r)
    PROVE  SubmissionInv'
<1>1. TypeOK'
  <2>1. CASE input[r]["typeId"] \in types
    BY <2>1 DEF SubmissionInv, CheckType, Goto, server, TypeOK
  <2>2. CASE input[r]["typeId"] \notin types
    <3>1. /\ Invalid("typeId", "notFound") \in Answers /\ Invalid("typeId", "notFound").id = 0
          /\ 0 \in 0 .. nextId - 1
      BY AnswerForms, FieldNames DEF SubmissionInv, TypeOK
    <3> QED  BY <2>2, <3>1 DEF SubmissionInv, CheckType, Goto, Reply, server, TypeOK
  <2> QED  BY <2>1, <2>2
<1>2. InputInv'
  BY AnswerForms, FieldNames DEF SubmissionInv, CheckType, Goto, Reply, server, TypeOK, InputInv
<1>3. PhaseInv'
  BY AnswerForms, FieldNames DEF SubmissionInv, CheckType, Goto, Reply, server, TypeOK, PhaseInv
<1>4. RowsInv'
  BY AnswerForms, FieldNames DEF SubmissionInv, CheckType, server, RowsInv, RowsOf
<1>5. AnswerInv'
  BY AnswerForms, FieldNames DEF SubmissionInv, CheckType, Reply, server, TypeOK, PhaseInv, RowsOf,
     AnswerInv
<1>6. RetryInv'
  BY RetryKept DEF SubmissionInv, PhaseInv, TypeOK, CheckType, Goto, Reply, server
<1>7. QED  BY <1>1, <1>2, <1>3, <1>4, <1>5, <1>6 DEF SubmissionInv

(* The INSERT that is sent carries the valid input.                        *)
LEMMA SendInsertStep ==
    ASSUME SubmissionInv, NEW r \in Request, SendInsert(r)
    PROVE  SubmissionInv'
<1>1. TypeOK'
  BY DEF SubmissionInv, SendInsert, Goto, TypeOK
<1>2. InputInv'
  BY DEF SubmissionInv, SendInsert, Goto, InputInv
<1>3. PhaseInv'
  BY DEF SubmissionInv, SendInsert, Goto, TypeOK, PhaseInv
<1>4. RowsInv'
  BY DEF SubmissionInv, SendInsert, PhaseInv, RowsInv, RowsOf
<1>5. AnswerInv'
  BY DEF SubmissionInv, SendInsert, PhaseInv, RowsOf, AnswerInv
<1>6. RetryInv'
  BY RetryKept DEF SubmissionInv, PhaseInv, TypeOK, SendInsert, Goto
<1>7. QED  BY <1>1, <1>2, <1>3, <1>4, <1>5, <1>6 DEF SubmissionInv

(* The id in the answer is that of the row the request has inserted; a     *)
(* refusal comes from an INSERT that was refused.                          *)
LEMMA InsertAnsweredStep ==
    ASSUME SubmissionInv, NEW r \in Request, InsertAnswered(r)
    PROVE  SubmissionInv'
<1>a. /\ pc[r] = "inserting" /\ UNCHANGED <<server, body, input, faults>>
      /\ \/ \E row \in rows : row.by = r /\ Reply(r, Ok(row.id))
         \/ stmt[r] = "refused" /\ Reply(r, Invalid("typeId", "notFound"))
         \/ stmt[r] = "unstorable" /\ Reply(r, Error("internal"))
  BY DEF InsertAnswered
<1>b. \E x \in Answers :
         /\ Reply(r, x) /\ x.id \in 0 .. nextId - 1
         /\ \/ x.kind = "ok" /\ \E row \in RowsOf(r) : row.id = x.id
            \/ x.kind = "validation" /\ stmt[r] = "refused"
            \/ x.kind = "internal" /\ stmt[r] = "unstorable"
  <2>1. CASE \E row \in rows : row.by = r /\ Reply(r, Ok(row.id))
    <3>1. PICK row \in rows : row.by = r /\ Reply(r, Ok(row.id))
      BY <2>1
    <3>2. row.id \in Nat /\ row.id \in 0 .. nextId - 1 /\ row \in RowsOf(r)
      BY <3>1 DEF SubmissionInv, TypeOK, RowsOf
    <3> QED  BY <3>1, <3>2, AnswerForms
  <2>2. CASE stmt[r] = "refused" /\ Reply(r, Invalid("typeId", "notFound"))
    <3>1. 0 \in 0 .. nextId - 1
      BY DEF SubmissionInv, TypeOK
    <3> QED  BY <2>2, <3>1, AnswerForms, FieldNames
  <2>3. CASE stmt[r] = "unstorable" /\ Reply(r, Error("internal"))
    <3>1. 0 \in 0 .. nextId - 1
      BY DEF SubmissionInv, TypeOK
    <3> QED  BY <2>3, <3>1, AnswerForms
  <2> QED  BY <1>a, <2>1, <2>2, <2>3
<1>1. TypeOK'
  BY <1>a, <1>b DEF SubmissionInv, server, Goto, Reply, TypeOK
<1>2. InputInv'
  BY <1>a, <1>b DEF SubmissionInv, server, Goto, Reply, InputInv
<1>3. PhaseInv'
  BY <1>a, <1>b DEF SubmissionInv, server, Goto, Reply, TypeOK, PhaseInv
<1>4. RowsInv'
  BY <1>a, <1>b DEF SubmissionInv, server, RowsInv, RowsOf
<1>5. AnswerInv'
  BY <1>a, <1>b DEF SubmissionInv, server, Reply, RowsOf, AnswerInv
<1>6. RetryInv'
  BY <1>a, <1>b, RetryKept DEF SubmissionInv, PhaseInv, TypeOK, Goto, Reply, server
<1>7. QED  BY <1>1, <1>2, <1>3, <1>4, <1>5, <1>6 DEF SubmissionInv

(* After a failure the outcome is open, and the answer promises nothing.   *)
LEMMA StatementFailsStep ==
    ASSUME SubmissionInv, NEW r \in Request, StatementFails(r)
    PROVE  SubmissionInv'
<1>1. TypeOK'
  BY AnswerForms DEF SubmissionInv, StatementFails, Goto, Reply, server, TypeOK
<1>2. InputInv'
  BY AnswerForms DEF SubmissionInv, StatementFails, Goto, Reply, server, InputInv
<1>3. PhaseInv'
  BY AnswerForms DEF SubmissionInv, StatementFails, Goto, Reply, server, TypeOK, PhaseInv
<1>4. RowsInv'
  BY AnswerForms DEF SubmissionInv, StatementFails, server, RowsInv, RowsOf
<1>5. AnswerInv'
  BY AnswerForms DEF SubmissionInv, StatementFails, Reply, server, RowsOf, AnswerInv
<1>6. RetryInv'
  BY RetryKept DEF SubmissionInv, PhaseInv, TypeOK, StatementFails, Goto, Reply, server
<1>7. QED  BY <1>1, <1>2, <1>3, <1>4, <1>5, <1>6 DEF SubmissionInv

(* The sequence gives the new row an id of its own, and the foreign key a  *)
(* type that exists.                                                       *)
LEMMA ServerInsertStep ==
    ASSUME SubmissionInv, NEW r \in Request, ServerInsert(r)
    PROVE  SubmissionInv'
<1>1. TypeOK'
  BY DEF SubmissionInv, ServerInsert, TypeOK
<1>2. InputInv'
  BY DEF SubmissionInv, ServerInsert, TypeOK, InputInv
<1>3. PhaseInv'
  BY DEF SubmissionInv, ServerInsert, TypeOK, PhaseInv
<1>4. RowsInv'
  <2>1. /\ stmt[r] = "sent"
        /\ UNCHANGED <<types, body, pc, input, answer, faults>>
        /\ \A q \in rows : q.by # r /\ q.by \in Request /\ q.id # nextId
    BY DEF SubmissionInv, ServerInsert, TypeOK, RowsInv
  <2>2. CASE Storable(input[r]) /\ input[r]["typeId"] \in types
    <3> DEFINE new == [id |-> nextId, by |-> r, content |-> input[r]]
    <3>1. rows' = rows \cup {new} /\ stmt' = [stmt EXCEPT ![r] = "inserted"]
      BY <2>2 DEF ServerInsert
    <3>2. new.id = nextId /\ new.by = r /\ new.content = input[r]
      OBVIOUS
    <3>3. \A row \in rows' : /\ stmt'[row.by] = "inserted"
                             /\ row.content = input'[row.by]
                             /\ row.content["typeId"] \in types'
                             /\ Storable(row.content)
      BY <2>1, <2>2, <3>1, <3>2 DEF SubmissionInv, TypeOK, RowsInv
    <3>4. \A p, q \in rows' : p.id = q.id \/ p.by = q.by => p = q
      BY <2>1, <3>1, <3>2 DEF SubmissionInv, RowsInv
    <3>5. ASSUME NEW x \in Request, stmt'[x] = "inserted"
          PROVE  \E row \in rows' : row.by = x
      <4>1. CASE x = r
        BY <4>1, <3>1, <3>2
      <4>2. CASE x # r
        <5>1. stmt[x] = "inserted"
          BY <4>2, <3>1, <3>5 DEF SubmissionInv
        <5>2. \E row \in rows : row.by = x
          BY <5>1 DEF SubmissionInv, RowsInv, RowsOf
        <5> QED  BY <5>2, <3>1
      <4> QED  BY <4>1, <4>2
    <3> QED  BY <3>3, <3>4, <3>5 DEF RowsInv, RowsOf, Storable
  <2>3. CASE ~(Storable(input[r]) /\ input[r]["typeId"] \in types)
    BY <2>1, <2>3 DEF SubmissionInv, ServerInsert, TypeOK, RowsInv, RowsOf
  <2> QED  BY <2>2, <2>3
<1>5. AnswerInv'
  BY DEF SubmissionInv, ServerInsert, TypeOK, RowsOf, AnswerInv
<1>6. RetryInv'
  BY RetryKept DEF SubmissionInv, PhaseInv, TypeOK, ServerInsert
<1>7. QED  BY <1>1, <1>2, <1>3, <1>4, <1>5, <1>6 DEF SubmissionInv

(* An INSERT that is lost was not inserted, and nobody was told that it    *)
(* was.                                                                    *)
LEMMA ServerDropsStep ==
    ASSUME SubmissionInv, NEW r \in Request, ServerDrops(r)
    PROVE  SubmissionInv'
<1>1. TypeOK'
  BY DEF SubmissionInv, ServerDrops, TypeOK
<1>2. InputInv'
  BY DEF SubmissionInv, ServerDrops, InputInv
<1>3. PhaseInv'
  BY DEF SubmissionInv, ServerDrops, PhaseInv
<1>4. RowsInv'
  BY DEF SubmissionInv, ServerDrops, RowsInv, RowsOf
<1>5. AnswerInv'
  BY DEF SubmissionInv, ServerDrops, RowsOf, AnswerInv
<1>6. RetryInv'
  BY RetryKept DEF SubmissionInv, PhaseInv, TypeOK, ServerDrops
<1>7. QED  BY <1>1, <1>2, <1>3, <1>4, <1>5, <1>6 DEF SubmissionInv

(* A crash answers nobody.                                                 *)
LEMMA CrashStep ==
    ASSUME SubmissionInv, Crash
    PROVE  SubmissionInv'
<1>1. TypeOK'
  BY DEF SubmissionInv, Crash, server, TypeOK
<1>2. InputInv'
  BY DEF SubmissionInv, Crash, server, InputInv
<1>3. PhaseInv'
  BY DEF SubmissionInv, Crash, InFlight, server, PhaseInv
<1>4. RowsInv'
  BY DEF SubmissionInv, Crash, server, RowsInv, RowsOf
<1>5. AnswerInv'
  BY DEF SubmissionInv, Crash, server, RowsOf, AnswerInv
<1>6. RetryInv'
  BY RetryKept DEF SubmissionInv, PhaseInv, TypeOK, Crash, InFlight, server
<1>7. QED  BY <1>1, <1>2, <1>3, <1>4, <1>5, <1>6 DEF SubmissionInv

(* Nothing changes in a stuttering step.                                   *)
LEMMA StutterStep ==
    ASSUME SubmissionInv, UNCHANGED vars
    PROVE  SubmissionInv'
<1>1. TypeOK'
  BY DEF SubmissionInv, vars, TypeOK
<1>2. InputInv'
  BY DEF SubmissionInv, vars, InputInv
<1>3. PhaseInv'
  BY DEF SubmissionInv, vars, PhaseInv
<1>4. RowsInv'
  BY DEF SubmissionInv, vars, RowsInv, RowsOf
<1>5. AnswerInv'
  BY DEF SubmissionInv, vars, RowsOf, AnswerInv
<1>6. RetryInv'
  BY RetryKept DEF SubmissionInv, PhaseInv, TypeOK, vars
<1>7. QED  BY <1>1, <1>2, <1>3, <1>4, <1>5, <1>6 DEF SubmissionInv

(* The invariant holds at the start.                                       *)
LEMMA InitInv == Init => SubmissionInv
<1> SUFFICES ASSUME Init PROVE SubmissionInv
  OBVIOUS
<1>1. TypeOK
  BY AnswerForms DEF Init, TypeOK
<1>2. InputInv
  BY AnswerForms DEF Init, InputInv
<1>3. PhaseInv
  BY AnswerForms DEF Init, PhaseInv
<1>4. RowsInv
  BY AnswerForms DEF Init, RowsInv
<1>5. AnswerInv
  BY AnswerForms DEF Init, AnswerInv
<1>6. RetryInv
  BY DEF Init, RetryInv
<1>7. QED  BY <1>1, <1>2, <1>3, <1>4, <1>5, <1>6 DEF SubmissionInv

-----------------------------------------------------------------------------
(* The theorems.                                                           *)

(* The inductive invariant holds for any number of clients, attempts,      *)
(* types and bodies.                                                       *)
THEOREM Invariance == Spec => []SubmissionInv
<1>1. SubmissionInv /\ [Next]_vars => SubmissionInv'
  BY AddTypeStep, DeleteTypeStep, ArriveStep, HandleStep, CheckTypeStep, SendInsertStep,
     InsertAnsweredStep, StatementFailsStep, ServerInsertStep, ServerDropsStep, CrashStep,
     StutterStep DEF Next, Handler, Failure
<1>2. QED  BY InitInv, <1>1, PTL DEF Spec

(* Type correctness.                                                       *)
THEOREM TypeCorrect == Spec => []TypeOK
<1>1. SubmissionInv => TypeOK
  BY DEF SubmissionInv
<1>2. QED  BY Invariance, <1>1, PTL

(* A submission that is answered with an id is in the table, once, under   *)
(* that id, with the normalised body (router.go 217-242).                  *)
THEOREM Acknowledgement == Spec => []AckedExactlyOnce
<1>1. SubmissionInv => AckedExactlyOnce
  <2> SUFFICES ASSUME SubmissionInv, NEW r \in Request, answer[r].kind = "ok"
               PROVE  /\ RowsOf(r) = {row \in rows : row.id = answer[r].id}
                      /\ \E row \in rows : /\ RowsOf(r) = {row}
                                           /\ row.content = Normalise(Decode(body[r[1]]))
    BY DEF AckedExactlyOnce
  <2>1. PICK row \in rows : row.by = r /\ row.id = answer[r].id
    BY DEF SubmissionInv, AnswerInv, RowsOf
  <2>2. \A q \in rows : q.by = r \/ q.id = answer[r].id => q = row
    BY <2>1 DEF SubmissionInv, RowsInv
  <2>3. RowsOf(r) = {row} /\ {q \in rows : q.id = answer[r].id} = {row}
    BY <2>1, <2>2 DEF RowsOf
  <2>4. row.content = Normalise(Decode(body[r[1]]))
    BY <2>1 DEF SubmissionInv, RowsInv, InputInv
  <2> QED  BY <2>3, <2>4
<1>2. QED  BY Invariance, <1>1, PTL

(* A client told that its body is refused has left no row and will leave   *)
(* none, whatever is still on its way (service.go 95-110).                 *)
THEOREM Refusal == Spec => []RefusedLeavesNothing
<1>1. SubmissionInv => RefusedLeavesNothing
  BY DEF SubmissionInv, RefusedLeavesNothing, AnswerInv, RowsInv, RowsOf
<1>2. QED  BY Invariance, <1>1, PTL

(* Every row refers to a type that exists and holds texts as the           *)
(* validation wants them, whatever operators do to project_types meanwhile *)
(* (service.go 194-264, 001_init.sql 25).                                  *)
THEOREM Storage == Spec => []StoredFits
<1>1. SubmissionInv => StoredFits
  <2> SUFFICES ASSUME SubmissionInv, NEW row \in rows
               PROVE  /\ row.content["typeId"] \in types
                      /\ row.content["isPayed"] \in {"true", "false"}
                      /\ \A f \in Required : row.content[f] = "good"
                      /\ \A f \in Optional : row.content[f] \in {"good", "absent"}
    BY DEF StoredFits
  <2>1. row.by \in Request /\ stmt[row.by] = "inserted" /\ row.content = input[row.by]
        /\ row.content["typeId"] \in types
    BY DEF SubmissionInv, TypeOK, RowsInv
  <2>2. row.content = Normalise(Decode(body[row.by[1]])) /\ Validate(row.content) = NoAnswer
        /\ Storable(row.content)
    BY <2>1 DEF SubmissionInv, InputInv, RowsInv
  <2>3. IsBody(body[row.by[1]])
    BY <2>1, BodyAssumption DEF SubmissionInv, TypeOK, Request
  <2> QED  BY <2>1, <2>2, <2>3, ValidFields
<1>2. QED  BY Invariance, <1>1, PTL

(* However often a client sends its body again, two of its attempts are    *)
(* stored only where the earlier of them met a failure (router.go 217-242, *)
(* repositories.go 105-124).                                               *)
THEOREM Duplicates == Spec => []DuplicateOnlyAfterFailure
<1>1. SubmissionInv => DuplicateOnlyAfterFailure
  <2> SUFFICES ASSUME SubmissionInv, NEW p \in rows, NEW q \in rows,
                      p.by[1] = q.by[1], p # q
               PROVE  p.by[2] # q.by[2] /\ (p.by[2] < q.by[2] => p.by \in faults)
    BY DEF DuplicateOnlyAfterFailure
  <2>1. /\ p.by \in Request /\ q.by \in Request /\ p.by # q.by
        /\ stmt[p.by] = "inserted" /\ stmt[q.by] = "inserted"
    BY DEF SubmissionInv, TypeOK, RowsInv
  <2>2. p.by[2] # q.by[2]
    BY <2>1 DEF Request
  <2>3. ASSUME p.by[2] < q.by[2]
        PROVE  p.by \in faults
    <3>1. p.by[2] \in 1 .. q.by[2] - 1 /\ p.by = <<q.by[1], p.by[2]>>
      BY <2>1, <2>3, MaxAttemptsAssumption DEF Request
    <3>2. pc[q.by] # "idle"
      BY <2>1 DEF SubmissionInv, PhaseInv
    <3>3. pc[p.by] = "crashed" \/ answer[p.by].kind = "internal"
      BY <2>1, <3>1, <3>2 DEF SubmissionInv, RetryInv
    <3> QED  BY <2>1, <3>3 DEF SubmissionInv, PhaseInv, AnswerInv
  <2> QED  BY <2>2, <2>3
<1>2. QED  BY Invariance, <1>1, PTL
-----------------------------------------------------------------------------
(* The refinement of SubmissionRegister.                                   *)

(* A row is stored when PostgreSQL executes the INSERT, under an id that   *)
(* the sequence has given to no row before.                                *)
LEMMA InsertStores ==
    ASSUME SubmissionInv, NEW r \in Request, ServerInsert(r)
    PROVE  Register!Store(r) \/ UNCHANGED <<rows, answer>>
<1>1. CASE Storable(input[r]) /\ input[r]["typeId"] \in types
  <2> DEFINE new == [id |-> nextId, by |-> r, content |-> input[r]]
  <2>1. rows' = rows \cup {new} /\ stmt[r] = "sent" /\ UNCHANGED <<body, answer>>
    BY <1>1 DEF ServerInsert
  <2>2. input[r] = askedBar[r]
    BY <2>1 DEF SubmissionInv, InputInv, askedBar
  <2>3. \A row \in rows : row.by # r /\ row.id # nextId
    BY <2>1 DEF SubmissionInv, TypeOK, RowsInv
  <2>4. answer[r].kind \in {"none", "internal"}
    BY <2>1 DEF SubmissionInv, TypeOK, Answers, RowsOf, RowsInv, AnswerInv
  <2>5. nextId \in {row.id : row \in rows'}
    <3>1. new \in rows' /\ new.id = nextId
      BY <2>1
    <3> QED  BY <3>1
  <2>6. UNCHANGED askedBar
    BY <2>1 DEF askedBar
  <2> QED  BY <2>1, <2>2, <2>3, <2>4, <2>5, <2>6 DEF Register!Store
<1>2. CASE ~(Storable(input[r]) /\ input[r]["typeId"] \in types)
  BY <1>2 DEF ServerInsert
<1> QED  BY <1>1, <1>2

(* The handler of r ends with answer a: the register tells r's client.     *)
LEMMA ReplyTells ==
    ASSUME SubmissionInv, NEW r \in Request, InFlight(r), NEW a, Reply(r, a),
           UNCHANGED <<body, rows>>,
           \/ a.kind = "ok" /\ \E row \in rows : row.by = r /\ row.id = a.id
           \/ a.kind \in {"validation", "tooLarge"} /\ stmt[r] \in {"none", "refused"}
           \/ a.kind = "internal"
    PROVE  Register!Tell(r)
<1>1. answer[r].kind = "none"
  BY DEF SubmissionInv, PhaseInv, TypeOK, InFlight
<1>2. answer' = [answer EXCEPT ![r] = a] /\ answer'[r] = a
  BY DEF Reply, SubmissionInv, TypeOK
<1>3. stmt[r] \in {"none", "refused"} => \A row \in rows : row.by # r
  BY DEF SubmissionInv, RowsInv
<1>4. UNCHANGED askedBar
  BY DEF askedBar
<1> QED  BY <1>1, <1>2, <1>3, <1>4 DEF Register!Tell, Register!Refused

(* Up to its first statement, a handler goes on or refuses the body.       *)
LEMMA HandleTells ==
    ASSUME SubmissionInv, NEW r \in Request, Handle(r)
    PROVE  Register!Tell(r) \/ UNCHANGED answer
<1>1. /\ InFlight(r) /\ UNCHANGED <<body, rows>> /\ stmt[r] = "none"
  BY DEF SubmissionInv, PhaseInv, Handle, InFlight, server
<1>2. \/ \E a \in Answers : a.kind \in {"validation", "tooLarge"} /\ Reply(r, a)
      \/ UNCHANGED answer
  <2> DEFINE i == Normalise(Decode(body[r[1]]))
  <2>1. body[r[1]]["envelope"] \in {"malformed", "oversize", "json"}
    BY BodyAssumption DEF SubmissionInv, TypeOK, IsBody, Field, Values, TextField,
                          Required, Optional, Request
  <2>2. CASE body[r[1]]["envelope"] = "malformed"
    BY <2>2, AnswerForms, FieldNames DEF Handle
  <2>3. CASE body[r[1]]["envelope"] = "oversize"
    BY <2>3, AnswerForms DEF Handle
  <2>4. CASE body[r[1]]["envelope"] = "json"
    <3>1. IF Validate(i) # NoAnswer THEN Reply(r, Validate(i)) ELSE UNCHANGED answer
      BY <2>4 DEF Handle
    <3>2. Validate(i) # NoAnswer => Validate(i) \in Answers /\ Validate(i).kind = "validation"
      BY ValidateForms, AnswerForms
    <3> QED  BY <3>1, <3>2
  <2> QED  BY <2>1, <2>2, <2>3, <2>4
<1> QED  BY <1>1, <1>2, ReplyTells

(* The endpoint implements the register, for any number of clients,        *)
(* attempts, types and bodies: stored at most once, as asked, and answered *)
(* truthfully (router.go 217-242, service.go 95-110).                     *)
THEOREM Refinement == Spec => RegisterSpec
<1>1. Init => Register!Init
  BY DEF Init, NoAnswer, askedBar, Register!Init
<1>2. SubmissionInv /\ [Next]_vars => [Register!Next]_(Register!vars)
  <2> SUFFICES ASSUME SubmissionInv, [Next]_vars
               PROVE  Register!Next \/ UNCHANGED <<askedBar, rows, answer>>
    BY DEF Register!vars
  <2>1. UNCHANGED askedBar
    BY DEF askedBar, Next, Handler, Failure, AddType, DeleteType, Arrive, Handle, CheckType,
           SendInsert, InsertAnswered, ServerInsert, StatementFails, ServerDrops, Crash, vars
  <2>2. ASSUME NEW r \in Request, CheckType(r) PROVE Register!Tell(r) \/ UNCHANGED <<rows, answer>>
    BY <2>2, ReplyTells, AnswerForms, FieldNames
       DEF CheckType, InFlight, server, SubmissionInv, PhaseInv
  <2>3. ASSUME NEW r \in Request, InsertAnswered(r) PROVE Register!Tell(r)
    <3>1. UNCHANGED <<body, rows>> /\ InFlight(r)
      BY <2>3 DEF InsertAnswered, server, InFlight
    <3>2. CASE \E row \in rows : row.by = r /\ Reply(r, Ok(row.id))
      <4>1. PICK row \in rows : row.by = r /\ Reply(r, Ok(row.id))
        BY <3>2
      <4>2. Ok(row.id).kind = "ok" /\ Ok(row.id).id = row.id
        BY DEF Ok, NoAnswer
      <4> QED  BY <3>1, <4>1, <4>2, ReplyTells
    <3>3. CASE stmt[r] = "refused" /\ Reply(r, Invalid("typeId", "notFound"))
      BY <3>1, <3>3, ReplyTells, AnswerForms, FieldNames
    <3>4. CASE stmt[r] = "unstorable" /\ Reply(r, Error("internal"))
      BY <3>1, <3>4, ReplyTells, AnswerForms
    <3> QED  BY <2>3, <3>2, <3>3, <3>4 DEF InsertAnswered
  <2>4. ASSUME NEW r \in Request, StatementFails(r) PROVE Register!Tell(r)
    BY <2>4, ReplyTells, AnswerForms DEF StatementFails, InFlight, server
  <2>5. ASSUME NEW r \in Request, Handle(r) PROVE Register!Tell(r) \/ UNCHANGED <<rows, answer>>
    BY <2>5, HandleTells DEF Handle, server
  <2>6. ASSUME NEW r \in Request, Arrive(r) \/ SendInsert(r) \/ ServerDrops(r)
        PROVE  UNCHANGED <<rows, answer>>
    BY <2>6 DEF Arrive, SendInsert, ServerDrops, server
  <2>7. ASSUME NEW t \in Type, AddType(t) \/ DeleteType(t) PROVE UNCHANGED <<rows, answer>>
    BY <2>7 DEF AddType, DeleteType
  <2>8. CASE Crash \/ UNCHANGED vars
    BY <2>1, <2>8 DEF Crash, server, vars
  <2> QED
    BY <2>1, <2>2, <2>3, <2>4, <2>5, <2>6, <2>7, <2>8, InsertStores
       DEF Next, Handler, Failure, Register!Next
<1> QED  BY <1>1, <1>2, Invariance, PTL DEF Spec, RegisterSpec, Register!Spec
==============================================================================
