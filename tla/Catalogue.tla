------------------------------ MODULE Catalogue ------------------------------
(***************************************************************************)
(* GET /project/application/external/list, from the handler to the two     *)
(* statements it sends to PostgreSQL, and a client who walks through the   *)
(* list page by page while applications are submitted and decided:         *)
(*                                                                         *)
(*   transport/http/router.go    ListExternalApplications                  *)
(*   application/service.go      ListExternalApplications                  *)
(*   postgres/repositories.go    List, applyExternalApplicationsFilter     *)
(*                                                                         *)
(* COUNT and the page are separate statements in no transaction, each on   *)
(* a snapshot of its own.  Requests here have passed withAdmin, which is   *)
(* in module Decisions; one client is enough, since readers share nothing. *)
(***************************************************************************)
EXTENDS ApplicationDomain, SequencesExt

CONSTANTS AppId,         \* the ids external_applications may hold
          Stamp,         \* the values of updated_at
          Verdict,       \* the decisions that are taken
          Criteria,      \* what search and projectTypeId may ask for
          Matching,      \* Matching[c]: the applications that fit criteria c
          UnknownType,   \* the criteria whose projectTypeId names no type
          LimitInput, OffsetInput, SortInput,  \* what clients send
          Unset,         \* a query parameter that is not given
          Malformed,     \* one that is not of its type: "limit=ten", "active=maybe"
          DefaultLimit,  \* 20
          MaxLimit,      \* 100
          Word           \* 2^64, the number of values of a uint64

ASSUME StampAssumption == Stamp \subseteq Nat
ASSUME VerdictAssumption == Verdict \subseteq {"ACCEPTED", "REJECTED"}
ASSUME AppIdAssumption ==  \* ids are BIGINTs: half of what 64 bits tell apart
    IsFiniteSet(AppId) /\ 2 * Cardinality(AppId) <= Word
ASSUME CriteriaAssumption ==
    Criteria # {} /\ Matching \in [Criteria -> SUBSET AppId] /\ UnknownType \subseteq Criteria
ASSUME LimitAssumption ==
    /\ DefaultLimit \in Nat \ {0} /\ MaxLimit \in Nat
    /\ DefaultLimit <= MaxLimit /\ MaxLimit < Word /\ Word \in Nat
ASSUME InputAssumption ==
    /\ Unset \notin Int /\ Malformed \notin Int /\ Malformed \notin BOOLEAN
    /\ Malformed \notin Criteria /\ Malformed # Unset
    /\ LimitInput \subseteq Int \cup {Unset} /\ OffsetInput \subseteq Int \cup {Unset}
    /\ \A n \in (LimitInput \cup OffsetInput) \ {Unset} : 2 * n < Word /\ -2 * n <= Word
    /\ SortInput \subseteq {"ASC", "DESC", "other", Unset}

VARIABLES
    table,   \* table[a]: status and updated_at of a's row, or NoRow
    pc,      \* where the listing is
    filter,  \* domain.ListExternalApplicationsFilter
    count,   \* what COUNT(*) returned
    page,    \* the ids of the page, in order
    result,  \* the answer: "none" while there is none
    walk,    \* history: what the client has listed, and how the table moved
    written  \* history: a write was committed between COUNT and the page

listing == <<pc, filter, count, page, result>>
vars == <<table, pc, filter, count, page, result, walk, written>>

NoRow == [status |-> "ABSENT", updated |-> 0]
Rows  == [status : Status, updated : Stamp] \cup {NoRow}

(* applyExternalApplicationsFilter: status and immutable criteria.         *)
SelectedIn(t, f) ==
    {a \in Matching[f.criteria] :
        IF f.active THEN t[a].status = "PENDING" ELSE Decided(t[a])}
Selected == SelectedIn(table, filter)

(* A query string; "criteria" is search with projectTypeId.                *)
Query == [active : BOOLEAN \cup {Unset, Malformed}, criteria : Criteria \cup {Malformed},
          sort : SortInput, limit : LimitInput \cup {Malformed},
          offset : OffsetInput \cup {Malformed}]
Filters == [active : BOOLEAN, criteria : Criteria, sort : {"ASC", "DESC", "other"},
            limit : Int, offset : Int]
NoFilter == [active |-> TRUE, criteria |-> CHOOSE c \in Criteria : TRUE,
             sort |-> "DESC", limit |-> DefaultLimit, offset |-> 0]
Walks == [from : Int, start : SUBSET AppId, listed : Seq(AppId),
          left : BOOLEAN, joined : BOOLEAN, tied : BOOLEAN]
NoWalk == [from |-> 0, start |-> {}, listed |-> <<>>,
           left |-> FALSE, joined |-> FALSE, tied |-> FALSE]

Init ==
    /\ table = [a \in AppId |-> NoRow]
    /\ pc = "idle" /\ filter = NoFilter
    /\ count = 0 /\ page = <<>> /\ result = "none"
    /\ walk = NoWalk /\ written = FALSE
-----------------------------------------------------------------------------
(* Writers: Create stamps a row with NOW() of the database, UpdateDecision *)
(* with time.Now() of some instance, so that any stamp may follow any.     *)
Write(a, row) ==
    /\ table' = [table EXCEPT ![a] = row]
    /\ written' = (written \/ pc = "page")
    /\ LET before == Selected
           after  == SelectedIn(table', filter) IN
          walk' = IF pc \in {"idle", "done"} THEN walk
                  ELSE [walk EXCEPT !.left = @ \/ before \ after # {},
                                    !.joined = @ \/ after \ before # {}]
    /\ UNCHANGED listing

Create(a) ==
    /\ table[a] = NoRow
    /\ \E t \in Stamp : Write(a, [status |-> "PENDING", updated |-> t])

DecideAgain(a) ==
    /\ table[a] # NoRow
    /\ \E t \in Stamp, s \in Verdict :
          Write(a, [status |-> s, updated |-> t])

Decide(a) ==
    /\ table[a].status = "PENDING"
    /\ \E t \in Stamp, s \in Verdict :
          Write(a, [status |-> s, updated |-> t])
-----------------------------------------------------------------------------
(* The handler and the service.                                            *)
Default(value, default) == IF value = Unset THEN default ELSE value

(* A limit below 1 is replaced, not refused.                               *)
Normalise(q) ==
    LET limit == Default(q.limit, DefaultLimit) IN
    [active |-> Default(q.active, TRUE), criteria |-> q.criteria,
     sort |-> Default(q.sort, "DESC"),
     limit |-> IF limit <= 0 THEN DefaultLimit ELSE limit,
     offset |-> Default(q.offset, 0)]

RefusedLimitOnly(f) == f.limit > MaxLimit \/ f.sort = "other"
Refused(f) == f.offset < 0 \/ f.limit > MaxLimit \/ f.sort = "other"

Answer(e) == pc' = "answered" /\ result' = e

(* A request of the client, up to its first statement.                     *)
Handle(f) ==
    /\ filter' = f
    /\ IF Refused(f) THEN Answer("validation") ELSE pc' = "exists" /\ result' = "none"
    /\ count' = 0 /\ page' = <<>>
    /\ UNCHANGED <<table, written>>

(* Every parameter has its type; any text is a search or a sort order.     *)
Binds(q) ==
    /\ q.active # Malformed /\ q.criteria # Malformed
    /\ q.limit # Malformed /\ q.offset # Malformed

BeginWalk == walk' = [NoWalk EXCEPT !.from = filter'.offset,
                                    !.start = SelectedIn(table, filter')]

(* A query that does not bind is answered before the handler runs.         *)
Ask ==
    /\ pc = "idle"
    /\ \E q \in Query :
          \/ Binds(q) /\ Handle(Normalise(q)) /\ BeginWalk
          \/ /\ ~Binds(q) /\ Answer("validation")
             /\ UNCHANGED <<table, filter, count, page, walk, written>>

(* The client asks for what follows the page, unless the page was empty.   *)
AskNextPage ==
    /\ pc = "answered" /\ result = "ok" /\ page # <<>>
    /\ Handle([filter EXCEPT !.offset = @ + Len(page)])
    /\ UNCHANGED walk

EndWalk ==
    /\ pc = "answered" /\ (result # "ok" \/ page = <<>>)
    /\ pc' = "done"
    /\ UNCHANGED <<table, filter, count, page, result, walk, written>>

(* ProjectTypes.Exists: a statement when the criteria name a project type, *)
(* and nothing at all when they do not.                                    *)
CheckType ==
    /\ pc = "exists"
    /\ IF filter.criteria \in UnknownType THEN Answer("validation")
                                          ELSE pc' = "count" /\ UNCHANGED result
    /\ UNCHANGED <<table, filter, count, page, walk, written>>
-----------------------------------------------------------------------------
(* The repository.                                                         *)
CountAllRows ==
    /\ pc = "count"
    /\ count' = Cardinality({a \in Matching[filter.criteria] : table[a] # NoRow})
    /\ written' = FALSE
    /\ pc' = "page"
    /\ UNCHANGED <<table, filter, page, result, walk>>

CountRows ==
    /\ pc = "count"
    /\ count' = Cardinality(Selected)
    /\ written' = FALSE
    /\ pc' = "page"
    /\ UNCHANGED <<table, filter, page, result, walk>>

(* The conversion uint64(n) of a Go int.                                   *)
Uint64(n) == n % Word

(* ORDER BY updated_at: rows of one stamp come in any order, not          *)
(* necessarily the same for two statements.                                *)
Before(f, a, b) ==
    IF f.sort = "ASC" THEN table[a].updated <= table[b].updated
                      ELSE table[a].updated >= table[b].updated
OrderingsAnyhow(f) == SetToSeqs(SelectedIn(table, f))

Orderings(f) ==
    {s \in SetToSeqs(SelectedIn(table, f)) :
        \A i, j \in 1 .. Len(s) : i < j => Before(f, s[i], s[j])}

SliceByPageNumber(s, offset, limit) ==
    LET first == offset * limit IN
    SubSeq(s, first + 1, IF first + limit < Len(s) THEN first + limit ELSE Len(s))

Slice(s, offset, limit) ==
    SubSeq(s, offset + 1, IF offset + limit < Len(s) THEN offset + limit ELSE Len(s))

Tied == \E a, b \in Selected : a # b /\ table[a].updated = table[b].updated

PageRows ==
    /\ pc = "page"
    /\ \E s \in Orderings(filter) :
          page' = Slice(s, Uint64(filter.offset), Uint64(filter.limit))
    /\ walk' = [walk EXCEPT !.listed = @ \o page', !.tied = @ \/ Tied]
    /\ Answer("ok")
    /\ UNCHANGED <<table, filter, count, written>>

StatementFails ==
    /\ pc \in {"exists", "count", "page"}
    /\ Answer("internal")
    /\ UNCHANGED <<table, filter, count, page, walk, written>>
-----------------------------------------------------------------------------
Reader == Ask \/ AskNextPage \/ EndWalk \/ CheckType \/ CountRows \/ PageRows

Next ==
    \/ \E a \in AppId : Create(a) \/ Decide(a)
    \/ Reader
    \/ StatementFails

Spec == Init /\ [][Next]_vars
-----------------------------------------------------------------------------
TypeOK ==
    /\ table \in [AppId -> Rows]
    /\ pc \in {"idle", "exists", "count", "page", "answered", "done"}
    /\ filter \in Filters
    /\ count \in 0 .. Cardinality(AppId)
    /\ page \in Seq(AppId)
    /\ result \in {"none", "ok", "validation", "internal"}
    /\ walk \in Walks /\ written \in BOOLEAN

(* What reaches PostgreSQL is what the client asked for, after the default *)
(* for limits below 1: at most MaxLimit rows from an offset that did not   *)
(* wrap in its conversion to uint64 (service.go 149-157).                  *)
StatementInRange ==
    pc = "page" =>
        /\ Uint64(filter.limit) = filter.limit /\ filter.limit \in 1 .. MaxLimit
        /\ Uint64(filter.offset) = filter.offset

(* The count and the page of one answer agree, unless a write was committed *)
(* between the two statements (repositories.go 195-270).                   *)
CountAgreesUnlessWritten ==
    pc = "answered" /\ result = "ok" /\ ~written =>
        Len(page) = Len(Slice([i \in 1 .. count |-> i], filter.offset, filter.limit))

(* "count" is the number of applications of the filter without the limit   *)
(* (api.json, ExternalApplicationsModel.count): the rows before the page   *)
(* and those of the page are among them.                                   *)
CountCoversPage ==
    pc = "answered" /\ result = "ok" /\ page # <<>> =>
        count >= filter.offset + Len(page)

Walked == pc = "done" /\ result = "ok" /\ walk.from = 0 /\ ~walk.tied

(* A walk from the first page to the end lists every application that fits *)
(* the filter since it began, whatever is submitted meanwhile, unless some *)
(* application left the filter (a pending one was decided) or two of them  *)
(* share an updated_at.  This is what ORDER BY with OFFSET can promise.    *)
WalkMissesOnlyAfterDeparture ==
    Walked /\ ~walk.left => walk.start \subseteq ToSet(walk.listed)

(* Likewise, no application is listed twice unless one joined the filter.  *)
WalkRepeatsOnlyAfterArrival ==
    Walked /\ ~walk.joined => IsInjective(walk.listed)

(* A walk over the decided applications (active=false) misses none: a      *)
(* decision is never undone or stamped anew (service.go 185-187).          *)
DecidedWalkMissesNothing ==
    Walked /\ ~filter.active => walk.start \subseteq ToSet(walk.listed)
==============================================================================
