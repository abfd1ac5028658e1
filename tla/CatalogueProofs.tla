--------------------------- MODULE CatalogueProofs ---------------------------
(***************************************************************************)
(* Proofs about module Catalogue, for any table of finitely many           *)
(* applications, any stamps, criteria, page sizes and inputs.              *)
(*                                                                         *)
(* ORDER BY and OFFSET make a listing a matter of ranks: the rank of an    *)
(* application is the number of selected ones that come before it.  A page *)
(* is the applications whose rank lies between two offsets, and while      *)
(* nobody leaves the filter ranks only grow, while nobody joins it they    *)
(* only fall.  The inductive invariant CatalogueInv says where the client  *)
(* stands among the ranks.                                                 *)
(***************************************************************************)
EXTENDS Catalogue, FiniteSetTheorems, SequenceTheorems, TLAPS

(* Application a comes strictly before b in the order the client asked for. *)
Sooner(a, b) ==
    IF filter.sort = "ASC" THEN table[a].updated < table[b].updated
                           ELSE table[a].updated > table[b].updated

Ahead(a) == {b \in Selected : Sooner(b, a)}
Rank(a) == Cardinality(Ahead(a))

(* The rank that the next page starts at.                                  *)
Reached == IF pc = "answered" THEN filter.offset + Len(page) ELSE filter.offset

(* The walk goes on: statements are on their way or a page came back.      *)
Walking == \/ pc \in {"exists", "count", "page"}
           \/ pc = "answered" /\ result = "ok"

(* What the handler lets through to the repository, and how far a page     *)
(* can reach.                                                              *)
FilterInv ==
    /\ Walking =>
         /\ filter.sort \in {"ASC", "DESC"}
         /\ filter.limit \in 1 .. MaxLimit
         /\ filter.offset \in 0 .. Word - 1
    /\ pc = "answered" /\ result = "ok" /\ page # <<>> =>
         filter.offset + Len(page) <= Cardinality(AppId)
    /\ pc \in {"exists", "count", "page"} => result = "none"
    /\ pc = "answered" => result # "none"

(* The count is that of the table until a write is committed.              *)
CountInv ==
    /\ pc = "page" /\ ~written => count = Cardinality(Selected)
    /\ CountAgreesUnlessWritten

(* Whoever has been there from the start and is not listed is still ahead. *)
MissInv ==
    Walking /\ walk.from = 0 /\ ~walk.tied /\ ~walk.left =>
        /\ walk.start \subseteq Selected
        /\ \A a \in walk.start \ ToSet(walk.listed) : Rank(a) >= Reached

(* Whoever is listed and still selected is behind.                         *)
RepeatInv ==
    Walking /\ walk.from = 0 /\ ~walk.tied /\ ~walk.joined =>
        \A a \in ToSet(walk.listed) \cap Selected : Rank(a) < Reached

(* What the client knows at the end: an empty page came back, and then     *)
(* nothing of the start is missing, nothing is listed twice.               *)
EndInv ==
    /\ pc = "done" /\ result = "ok" => page = <<>>
    /\ /\ pc \in {"answered", "done"} /\ result = "ok" /\ page = <<>>
       /\ walk.from = 0 /\ ~walk.tied /\ ~walk.left
       => walk.start \subseteq ToSet(walk.listed)
    /\ /\ Walking \/ (pc = "done" /\ result = "ok")
       /\ walk.from = 0 /\ ~walk.tied /\ ~walk.joined
       => IsInjective(walk.listed)

(* Nothing leaves the decided applications.                                *)
DecidedInv == ~filter.active => ~walk.left

(* Unless somebody joined, whoever is selected or listed has been there    *)
(* from the start.                                                         *)
JoinInv ==
    /\ Walking /\ ~walk.joined => Selected \subseteq walk.start
    /\ (Walking \/ (pc = "done" /\ result = "ok")) /\ ~walk.joined
       => ToSet(walk.listed) \subseteq walk.start

CatalogueInv ==
    /\ TypeOK /\ FilterInv /\ CountInv
    /\ MissInv /\ RepeatInv /\ EndInv /\ JoinInv /\ DecidedInv

(* The promise of paging in one sentence: while nothing enters or leaves   *)
(* the filter and no two stamps are equal, a walk lists every application  *)
(* that fits the filter exactly once, and nothing else.                    *)
WalkListsExactly ==
    Walked /\ ~walk.left /\ ~walk.joined =>
        ToSet(walk.listed) = walk.start /\ IsInjective(walk.listed)
-----------------------------------------------------------------------------
(* A selection is a finite set of applications.                            *)
LEMMA SelectionFinite ==
    ASSUME NEW t, NEW f, f.criteria \in Criteria
    PROVE  /\ SelectedIn(t, f) \subseteq AppId
           /\ IsFiniteSet(SelectedIn(t, f))
           /\ Cardinality(SelectedIn(t, f)) \in Nat
           /\ Cardinality(SelectedIn(t, f)) <= Cardinality(AppId)
<1>1. SelectedIn(t, f) \subseteq AppId
  BY CriteriaAssumption DEF SelectedIn
<1> QED  BY <1>1, FS_Subset, FS_CardinalityType, AppIdAssumption

(* Offsets and limits that were not refused survive the conversion.        *)
LEMMA NoWrap == \A n \in 0 .. Word - 1 : Uint64(n) = n
<1> QED  BY LimitAssumption DEF Uint64

(* Offsets stay below the word as long as they stay within the table.      *)
LEMMA TableFitsWord == Cardinality(AppId) \in 0 .. Word - 1
<1>1. Cardinality(AppId) \in Nat
  BY AppIdAssumption, FS_CardinalityType
<1> QED  BY <1>1, AppIdAssumption, LimitAssumption

(* What OFFSET and LIMIT cut out of a sequence.                            *)
LEMMA SliceForm ==
    ASSUME NEW S, NEW s \in Seq(S), NEW o \in Nat, NEW l \in Nat
    PROVE  /\ Slice(s, o, l) \in Seq(S)
           /\ Len(Slice(s, o, l)) = IF o >= Len(s) THEN 0
                                    ELSE IF o + l < Len(s) THEN l ELSE Len(s) - o
           /\ \A i \in 1 .. Len(Slice(s, o, l)) :
                 o + i \in 1 .. Len(s) /\ Slice(s, o, l)[i] = s[o + i]
<1> DEFINE last == IF o + l < Len(s) THEN o + l ELSE Len(s)
<1>1. Len(s) \in Nat /\ DOMAIN s = 1 .. Len(s)
  BY LenProperties
<1>2. last \in Nat /\ last <= Len(s) /\ o + 1 \in Int
  BY <1>1
<1>3. \A i \in o + 1 .. last : s[i] \in S
  BY <1>1, <1>2, ElementOfSeq
<1> HIDE DEF last
<1>4. /\ SubSeq(s, o + 1, last) \in Seq(S)
      /\ Len(SubSeq(s, o + 1, last)) = IF o + 1 <= last THEN last - (o + 1) + 1 ELSE 0
      /\ \A i \in 1 .. last - (o + 1) + 1 : SubSeq(s, o + 1, last)[i] = s[o + 1 + i - 1]
  BY <1>2, <1>3, SubSeqProperties
<1>5. Slice(s, o, l) = SubSeq(s, o + 1, last)
  BY DEF Slice, last
<1>6. Len(Slice(s, o, l)) = IF o >= Len(s) THEN 0
                            ELSE IF o + l < Len(s) THEN l ELSE Len(s) - o
  BY <1>1, <1>4, <1>5 DEF last
<1>7. ASSUME NEW i \in 1 .. Len(Slice(s, o, l))
      PROVE  o + i \in 1 .. Len(s) /\ Slice(s, o, l)[i] = s[o + i]
  <2>1. i \in 1 .. last - (o + 1) + 1 /\ o + i \in 1 .. Len(s) /\ o + 1 + i - 1 = o + i
    BY <1>1, <1>2, <1>4, <1>5
  <2> QED  BY <2>1, <1>4, <1>5
<1> QED  BY <1>4, <1>5, <1>6, <1>7

(* A concatenation lists what its parts list.                              *)
LEMMA ListedTogether ==
    ASSUME NEW S, NEW s \in Seq(S), NEW t \in Seq(S)
    PROVE  ToSet(s \o t) = ToSet(s) \cup ToSet(t)
<1>1. /\ Len(s) \in Nat /\ Len(t) \in Nat /\ s \o t \in Seq(S)
      /\ DOMAIN s = 1 .. Len(s) /\ DOMAIN t = 1 .. Len(t)
      /\ DOMAIN (s \o t) = 1 .. Len(s) + Len(t)
  BY LenProperties, ConcatProperties
<1>2. \A i \in 1 .. Len(s) + Len(t) :
         (s \o t)[i] = IF i <= Len(s) THEN s[i] ELSE t[i - Len(s)]
  BY ConcatProperties
<1>3. \A i \in 1 .. Len(s) : (s \o t)[i] = s[i] /\ i \in 1 .. Len(s) + Len(t)
  BY <1>1, <1>2
<1>4. \A i \in 1 .. Len(t) : (s \o t)[Len(s) + i] = t[i] /\ Len(s) + i \in 1 .. Len(s) + Len(t)
  BY <1>1, <1>2
<1>5. \A i \in 1 .. Len(s) + Len(t) :
         \/ i \in 1 .. Len(s) /\ (s \o t)[i] = s[i]
         \/ i - Len(s) \in 1 .. Len(t) /\ (s \o t)[i] = t[i - Len(s)]
  BY <1>1, <1>2
<1>6. ToSet(s) = {s[i] : i \in 1 .. Len(s)} /\ ToSet(t) = {t[i] : i \in 1 .. Len(t)}
  BY <1>1 DEF ToSet
<1>7. ToSet(s \o t) = {(s \o t)[i] : i \in 1 .. Len(s) + Len(t)}
  BY <1>1 DEF ToSet
<1>8. ToSet(s \o t) \subseteq ToSet(s) \cup ToSet(t)
  BY <1>5, <1>6, <1>7
<1>9. ToSet(s) \subseteq ToSet(s \o t)
  BY <1>3, <1>6, <1>7, Zenon
<1>10. ToSet(t) \subseteq ToSet(s \o t)
  BY <1>4, <1>6, <1>7, Zenon
<1> QED  BY <1>8, <1>9, <1>10

(* Two listings without repetition that share nothing repeat nothing.      *)
LEMMA InjectiveTogether ==
    ASSUME NEW S, NEW s \in Seq(S), NEW t \in Seq(S),
           IsInjective(s), IsInjective(t), ToSet(s) \cap ToSet(t) = {}
    PROVE  IsInjective(s \o t)
<1>1. /\ Len(s) \in Nat /\ Len(t) \in Nat /\ s \o t \in Seq(S)
      /\ DOMAIN s = 1 .. Len(s) /\ DOMAIN t = 1 .. Len(t)
      /\ DOMAIN (s \o t) = 1 .. Len(s) + Len(t)
  BY LenProperties, ConcatProperties
<1>2. \A i \in 1 .. Len(s) + Len(t) :
         (s \o t)[i] = IF i <= Len(s) THEN s[i] ELSE t[i - Len(s)]
  BY ConcatProperties
<1> SUFFICES ASSUME NEW i \in 1 .. Len(s) + Len(t), NEW j \in 1 .. Len(s) + Len(t),
                    (s \o t)[i] = (s \o t)[j]
             PROVE  i = j
  BY <1>1 DEF IsInjective
<1>3. CASE i <= Len(s) /\ j <= Len(s)
  BY <1>1, <1>2, <1>3 DEF IsInjective
<1>4. CASE ~(i <= Len(s)) /\ ~(j <= Len(s))
  <2>1. i - Len(s) \in DOMAIN t /\ j - Len(s) \in DOMAIN t /\ t[i - Len(s)] = t[j - Len(s)]
    BY <1>1, <1>2, <1>4
  <2>2. i - Len(s) = j - Len(s)
    BY <2>1 DEF IsInjective
  <2> QED  BY <2>2, <1>1
<1>5. CASE i <= Len(s) /\ ~(j <= Len(s))
  <2>1. /\ i \in DOMAIN s /\ j - Len(s) \in DOMAIN t /\ s[i] = t[j - Len(s)]
    BY <1>1, <1>2, <1>5
  <2> QED  BY <2>1 DEF ToSet
<1>6. CASE ~(i <= Len(s)) /\ j <= Len(s)
  <2>1. /\ j \in DOMAIN s /\ i - Len(s) \in DOMAIN t /\ s[j] = t[i - Len(s)]
    BY <1>1, <1>2, <1>6
  <2> QED  BY <2>1 DEF ToSet
<1> QED  BY <1>3, <1>4, <1>5, <1>6
(* Stamps are numbers.                                                     *)
LEMMA StampsAreNumbers == \A t \in [AppId -> Rows], a \in AppId : t[a].updated \in Nat
<1>1. \A r \in [status : Status, updated : Stamp] : r.updated \in Stamp
  OBVIOUS
<1>2. NoRow.updated \in Nat
  BY DEF NoRow
<1>3. \A r \in Rows : r.updated \in Nat
  BY <1>1, <1>2, StampAssumption, Zenon DEF Rows
<1> QED  BY <1>3

(* ORDER BY returns every selected row, and each of them once.             *)
LEMMA OrderingForm ==
    ASSUME TypeOK, NEW s \in Orderings(filter)
    PROVE  /\ s \in Seq(AppId) /\ Len(s) = Cardinality(Selected)
           /\ IsInjective(s) /\ ToSet(s) = Selected
<1> DEFINE n == Cardinality(Selected)
<1>1. Selected \subseteq AppId /\ IsFiniteSet(Selected) /\ n \in Nat
  <2>1. filter.criteria \in Criteria
    BY DEF TypeOK, Filters
  <2> QED  BY <2>1, SelectionFinite DEF Selected
<1> HIDE DEF n
<1>2. /\ s \in [1 .. n -> Selected]
      /\ \A i, j \in 1 .. n : i # j => s[i] # s[j]
  BY DEF Orderings, SetToSeqs, Selected, n
<1>3. s \in Seq(AppId) /\ Len(s) = n /\ DOMAIN s = 1 .. n
  <2>1. s \in Seq(Selected)
    BY <1>1, <1>2, SeqDef
  <2> QED  BY <2>1, <1>1, <1>2, SeqMonotonic, LenProperties
<1>4. IsInjective(s)
  BY <1>2, <1>3 DEF IsInjective
<1>5. ToSet(s) = Selected
  <2>1. s \in Injection(1 .. n, Selected)
    BY <1>2, <1>4 DEF Injection
  <2>2. Cardinality(1 .. n) = Cardinality(Selected)
    BY <1>1, FS_Interval DEF n
  <2>3. s \in Surjection(1 .. n, Selected)
    BY <1>1, <2>1, <2>2, FS_Injection
  <2> QED  BY <2>3, <1>2, <1>3 DEF Surjection, ToSet
<1> QED  BY <1>3, <1>4, <1>5 DEF n

(* Without ties there is one order, and the place of an application in it  *)
(* is its rank.                                                            *)
LEMMA OrderedByRank ==
    ASSUME TypeOK, ~Tied, filter.sort \in {"ASC", "DESC"}, NEW s \in Orderings(filter)
    PROVE  \A i \in 1 .. Len(s) : Rank(s[i]) = i - 1
<1> DEFINE n == Len(s)
<1>1. /\ s \in Seq(AppId) /\ IsInjective(s) /\ ToSet(s) = Selected
      /\ n \in Nat /\ DOMAIN s = 1 .. n
  BY OrderingForm, LenProperties
<1> HIDE DEF n
<1>2. \A i, j \in 1 .. n : i # j => s[i] # s[j]
  BY <1>1 DEF IsInjective
<1>3. \A i, j \in 1 .. n : i < j => Before(filter, s[i], s[j])
  BY DEF Orderings, n
<1>4. \A i \in 1 .. n : s[i] \in Selected /\ table[s[i]].updated \in Nat
  <2>1. filter.criteria \in Criteria /\ table \in [AppId -> Rows]
    BY DEF TypeOK, Filters
  <2>2. Selected \subseteq AppId
    BY <2>1, SelectionFinite DEF Selected
  <2>3. \A i \in 1 .. n : s[i] \in Selected
    BY <1>1 DEF ToSet
  <2> QED  BY <2>1, <2>2, <2>3, StampsAreNumbers
<1>5. \A i, j \in 1 .. n : i # j => table[s[i]].updated # table[s[j]].updated
  BY <1>2, <1>4 DEF Tied
<1>6. \A i, j \in 1 .. n : Sooner(s[i], s[j]) <=> i < j
  <2> TAKE i, j \in 1 .. n
  <2>1. CASE i < j
    BY <2>1, <1>3, <1>4, <1>5 DEF Before, Sooner
  <2>2. CASE j < i
    BY <2>2, <1>3, <1>4, <1>5 DEF Before, Sooner
  <2>3. CASE i = j
    BY <2>3, <1>4 DEF Sooner
  <2> QED  BY <1>1, <2>1, <2>2, <2>3
<1>7. ASSUME NEW i \in 1 .. n
       PROVE  Rank(s[i]) = i - 1
  <2> DEFINE g == [j \in 1 .. i - 1 |-> s[j]]
  <2>1. i - 1 \in Nat /\ 1 .. i - 1 \subseteq 1 .. n
    BY <1>1
  <2>2. \A j \in 1 .. i - 1 : s[j] \in Ahead(s[i])
    BY <2>1, <1>4, <1>6, <1>1 DEF Ahead
  <2>3. \A b \in Ahead(s[i]) : \E j \in 1 .. i - 1 : s[j] = b
    <3> TAKE b \in Ahead(s[i])
    <3>1. b \in ToSet(s) /\ Sooner(b, s[i])
      BY <1>1 DEF Ahead
    <3>2. PICK j \in 1 .. n : s[j] = b
      BY <3>1, <1>1 DEF ToSet
    <3>3. j < i
      BY <3>1, <3>2, <1>6
    <3> QED  BY <3>2, <3>3, <1>1
  <2>4. g \in Bijection(1 .. i - 1, Ahead(s[i]))
    BY <2>1, <2>2, <2>3, <1>2 DEF Bijection, Injection, Surjection, IsInjective
  <2>5. ExistsBijection(1 .. i - 1, Ahead(s[i]))
    BY <2>4 DEF ExistsBijection
  <2> QED  BY <2>1, <2>5, FS_CountingElements DEF Rank
<1> QED  BY <1>7 DEF n
-----------------------------------------------------------------------------
(* What the service passes on, before it refuses: a filter of the right    *)
(* shape, a limit of at least 1, an offset that is an int64.               *)
LEMMA Normalised ==
    ASSUME NEW q \in Query, Binds(q)
    PROVE  /\ Normalise(q) \in Filters
           /\ Normalise(q).limit >= 1 /\ Normalise(q).offset < Word
<1> DEFINE limit == Default(q.limit, DefaultLimit)
           offset == Default(q.offset, 0)
           active == Default(q.active, TRUE)
           sort == Default(q.sort, "DESC")
           positive == IF limit <= 0 THEN DefaultLimit ELSE limit
<1>1. /\ q.limit \in LimitInput /\ q.offset \in OffsetInput /\ q.sort \in SortInput
      /\ q.active \in BOOLEAN \cup {Unset} /\ q.criteria \in Criteria
  BY DEF Query, Binds
<1>2. limit \in Int /\ positive \in Int /\ positive >= 1
  <2>1. limit \in Int
    <3>1. DefaultLimit \in Int /\ LimitInput \subseteq Int \cup {Unset}
      BY InputAssumption, LimitAssumption
    <3> QED  BY <1>1, <3>1, Zenon DEF Default
  <2> QED  BY <2>1, LimitAssumption
<1>3. offset \in Int /\ offset < Word
  <2>1. CASE q.offset = Unset
    BY <2>1, LimitAssumption DEF Default
  <2>2. CASE q.offset # Unset
    <3>1. q.offset \in Int /\ 2 * q.offset < Word
      BY <1>1, <2>2, InputAssumption
    <3>2. offset = q.offset
      BY <2>2 DEF Default
    <3> QED  BY <3>1, <3>2, LimitAssumption
  <2> QED  BY <2>1, <2>2
<1>4. active \in BOOLEAN
  BY <1>1, Zenon DEF Default
<1>5. sort \in {"ASC", "DESC", "other"}
  BY <1>1, InputAssumption, Zenon DEF Default
<1> HIDE DEF limit, offset, active, sort, positive
<1>6. Normalise(q) = [active |-> active, criteria |-> q.criteria, sort |-> sort,
                      limit |-> positive, offset |-> offset]
  BY DEF Normalise, limit, offset, active, sort, positive
<1>7. Normalise(q) \in Filters
  BY <1>1, <1>2, <1>3, <1>4, <1>5, <1>6 DEF Filters
<1>8. Normalise(q).limit = positive /\ Normalise(q).offset = offset
  BY <1>6
<1> QED  BY <1>2, <1>3, <1>7, <1>8

(* A request that is not refused is one the repository can serve.          *)
LEMMA Accepted ==
    ASSUME NEW f \in Filters, f.limit >= 1, f.offset < Word, ~Refused(f)
    PROVE  /\ f.sort \in {"ASC", "DESC"}
           /\ f.limit \in 1 .. MaxLimit /\ f.offset \in 0 .. Word - 1
<1>1. f.limit \in Int /\ f.offset \in Int /\ f.sort \in {"ASC", "DESC", "other"}
  BY DEF Filters
<1>2. ~(f.offset < 0) /\ ~(f.limit > MaxLimit) /\ f.sort # "other"
  BY DEF Refused
<1> QED  BY <1>1, <1>2, LimitAssumption

(* Ranks are numbers.                                                      *)
LEMMA RanksAreNumbers ==
    ASSUME NEW t, NEW f, f.criteria \in Criteria, NEW P \in SUBSET SelectedIn(t, f)
    PROVE  IsFiniteSet(P) /\ Cardinality(P) \in Nat
<1> QED  BY SelectionFinite, FS_Subset, FS_CardinalityType

(* As long as neither the table nor what is asked of it changes, nor do    *)
(* the ranks.                                                              *)
LEMMA RanksStand ==
    ASSUME UNCHANGED table, filter'.active = filter.active,
           filter'.criteria = filter.criteria, filter'.sort = filter.sort
    PROVE  Selected' = Selected /\ \A b : Rank(b)' = Rank(b)
<1>1. Selected' = Selected
  BY DEF Selected, SelectedIn
<1>2. \A b, c : Sooner(c, b)' <=> Sooner(c, b)
  BY DEF Sooner
<1>3. \A b : Ahead(b)' = Ahead(b)
  BY <1>1, <1>2 DEF Ahead
<1> QED  BY <1>1, <1>3 DEF Rank
-----------------------------------------------------------------------------
(* A write gives one row a new value.                                      *)
LEMMA WriteForm ==
    ASSUME CatalogueInv, NEW a \in AppId, NEW row \in [status : Status, updated : Stamp],
           Write(a, row)
    PROVE  /\ table' \in [AppId -> Rows] /\ table'[a] = row
           /\ \A b \in AppId : b # a => table'[b] = table[b]
           /\ UNCHANGED <<pc, filter, count, page, result>>
           /\ walk' \in Walks /\ written' \in BOOLEAN
           /\ walk'.from = walk.from /\ walk'.start = walk.start
           /\ walk'.listed = walk.listed /\ walk'.tied = walk.tied
           /\ written' = (written \/ pc = "page")
           /\ pc \in {"idle", "done"} => walk' = walk
           /\ ~(pc \in {"idle", "done"}) =>
                 /\ walk'.left = (walk.left \/ Selected \ Selected' # {})
                 /\ walk'.joined = (walk.joined \/ Selected' \ Selected # {})
<1>1. table \in [AppId -> Rows] /\ walk \in Walks /\ row \in Rows /\ written \in BOOLEAN
  BY DEF CatalogueInv, TypeOK, Rows
<1>2. UNCHANGED <<pc, filter, count, page, result>>
  BY DEF Write, listing
<1>3. table' = [table EXCEPT ![a] = row] /\ written' = (written \/ pc = "page")
  BY DEF Write
<1>4. written' \in BOOLEAN
  BY <1>1, <1>3, Zenon
<1>5. Selected' = SelectedIn(table', filter)
  BY <1>2 DEF Selected
<1>6. CASE pc \in {"idle", "done"}
  <2>1. walk' = walk
    BY <1>6 DEF Write
  <2> QED  BY <1>1, <1>2, <1>3, <1>4, <1>6, <2>1
<1>7. CASE ~(pc \in {"idle", "done"})
  <2> DEFINE left == walk.left \/ Selected \ Selected' # {}
             joined == walk.joined \/ Selected' \ Selected # {}
  <2>1. walk' = [walk EXCEPT !.left = left, !.joined = joined]
    BY <1>5, <1>7, Zenon DEF Write
  <2>2. left \in BOOLEAN /\ joined \in BOOLEAN
    OBVIOUS
  <2> HIDE DEF left, joined
  <2>3. /\ walk' \in Walks
        /\ walk'.from = walk.from /\ walk'.start = walk.start
        /\ walk'.listed = walk.listed /\ walk'.tied = walk.tied
        /\ walk'.left = left /\ walk'.joined = joined
    BY <1>1, <2>1, <2>2 DEF Walks
  <2> QED  BY <1>1, <1>2, <1>3, <1>4, <1>7, <2>3 DEF left, joined
<1> QED  BY <1>6, <1>7

(* A write that takes nobody out of the filter moves nobody forward, and   *)
(* one that brings nobody in moves nobody back.                            *)
LEMMA WriteMovesRanks ==
    ASSUME CatalogueInv, NEW a \in AppId, NEW row \in [status : Status, updated : Stamp],
           Write(a, row), ~(a \in Selected /\ a \in Selected')
    PROVE  /\ Selected \subseteq Selected' =>
                 \A b \in Selected : Rank(b)' \in Int /\ Rank(b) \in Int /\ Rank(b) <= Rank(b)'
           /\ Selected' \subseteq Selected =>
                 \A b \in Selected' : Rank(b)' \in Int /\ Rank(b) \in Int /\ Rank(b)' <= Rank(b)
<1>1. filter' = filter /\ \A b \in AppId : b # a => table'[b] = table[b]
  BY WriteForm
<1>2. filter.criteria \in Criteria /\ filter'.criteria \in Criteria
  BY <1>1 DEF CatalogueInv, TypeOK, Filters
<1>3. /\ Selected \subseteq AppId /\ IsFiniteSet(Selected)
      /\ Selected' \subseteq AppId /\ IsFiniteSet(Selected')
  BY <1>2, SelectionFinite DEF Selected
<1>4. \A b, c \in AppId : b # a /\ c # a => (Sooner(b, c)' <=> Sooner(b, c))
  BY <1>1 DEF Sooner
<1>5. ASSUME Selected \subseteq Selected', NEW b \in Selected
      PROVE  Rank(b)' \in Int /\ Rank(b) \in Int /\ Rank(b) <= Rank(b)'
  <2>1. a \notin Selected
    BY <1>5
  <2>2. Ahead(b) \subseteq Ahead(b)'
    BY <1>3, <1>4, <1>5, <2>1 DEF Ahead
  <2>3. IsFiniteSet(Ahead(b)')
    BY <1>3, FS_Subset DEF Ahead
  <2> QED  BY <2>2, <2>3, FS_Subset, FS_CardinalityType DEF Rank
<1>6. ASSUME Selected' \subseteq Selected, NEW b \in Selected'
      PROVE  Rank(b)' \in Int /\ Rank(b) \in Int /\ Rank(b)' <= Rank(b)
  <2>1. a \notin Selected'
    BY <1>6
  <2>2. Ahead(b)' \subseteq Ahead(b)
    BY <1>3, <1>4, <1>6, <2>1 DEF Ahead
  <2>3. IsFiniteSet(Ahead(b))
    BY <1>3, FS_Subset DEF Ahead
  <2> QED  BY <2>2, <2>3, FS_Subset, FS_CardinalityType DEF Rank
<1> QED  BY <1>5, <1>6
-----------------------------------------------------------------------------
(* A write preserves the invariant: one that takes an application out of   *)
(* the filter sets left, one that brings one in sets joined, and any other *)
(* leaves the ranks of the selected alone.                                 *)
LEMMA WriteStep ==
    ASSUME CatalogueInv, NEW a \in AppId, NEW row \in [status : Status, updated : Stamp],
           Write(a, row), ~(a \in Selected /\ a \in Selected'),
           ~filter.active => a \notin Selected
    PROVE  CatalogueInv'
<1>1. /\ table' \in [AppId -> Rows]
      /\ \A b \in AppId : b # a => table'[b] = table[b]
      /\ pc' = pc /\ filter' = filter /\ count' = count /\ page' = page /\ result' = result
      /\ walk' \in Walks /\ written' \in BOOLEAN
      /\ walk'.from = walk.from /\ walk'.start = walk.start
      /\ walk'.listed = walk.listed /\ walk'.tied = walk.tied
      /\ written' = (written \/ pc = "page")
  BY WriteForm
<1>2. /\ pc \in {"idle", "done"} => walk' = walk
      /\ ~(pc \in {"idle", "done"}) =>
            /\ walk'.left = (walk.left \/ Selected \ Selected' # {})
            /\ walk'.joined = (walk.joined \/ Selected' \ Selected # {})
  BY WriteForm
<1>3. TypeOK'
  BY <1>1 DEF CatalogueInv, TypeOK
<1>4. FilterInv'
  BY <1>1 DEF CatalogueInv, FilterInv, Walking
<1>5. CountInv'
  BY <1>1 DEF CatalogueInv, CountInv, CountAgreesUnlessWritten, Slice
<1>6. Reached' = Reached /\ (Walking' <=> Walking)
  BY <1>1 DEF Reached, Walking
<1>7. Reached \in Int
  BY EmptySeq, LenProperties DEF CatalogueInv, TypeOK, Filters, Reached
<1>8. Walking => pc \notin {"idle", "done"}
  BY DEF Walking
<1>9. MissInv'
  <2> SUFFICES ASSUME Walking, walk.from = 0, ~walk.tied, ~walk'.left
               PROVE  /\ walk.start \subseteq Selected'
                      /\ \A b \in walk.start \ ToSet(walk.listed) : Rank(b)' >= Reached
    BY <1>1, <1>6 DEF MissInv
  <2>1. ~walk.left /\ Selected \subseteq Selected'
    BY <1>2, <1>8
  <2>2. /\ walk.start \subseteq Selected
        /\ \A b \in walk.start \ ToSet(walk.listed) : Rank(b) >= Reached
    BY <2>1 DEF CatalogueInv, MissInv
  <2>3. \A b \in Selected : Rank(b)' \in Int /\ Rank(b) \in Int /\ Rank(b) <= Rank(b)'
    BY <2>1, WriteMovesRanks
  <2> QED  BY <2>1, <2>2, <2>3, <1>7
<1>10. RepeatInv'
  <2> SUFFICES ASSUME Walking, walk.from = 0, ~walk.tied, ~walk'.joined
               PROVE  \A b \in ToSet(walk.listed) \cap Selected' : Rank(b)' < Reached
    BY <1>1, <1>6 DEF RepeatInv
  <2>1. ~walk.joined /\ Selected' \subseteq Selected
    BY <1>2, <1>8
  <2>2. \A b \in ToSet(walk.listed) \cap Selected : Rank(b) < Reached
    BY <2>1 DEF CatalogueInv, RepeatInv
  <2>3. \A b \in Selected' : Rank(b)' \in Int /\ Rank(b) \in Int /\ Rank(b)' <= Rank(b)
    BY <2>1, WriteMovesRanks
  <2> QED  BY <2>1, <2>2, <2>3, <1>7
<1>11. (walk.left => walk'.left) /\ (walk.joined => walk'.joined)
  BY <1>2
<1>12. EndInv'
  BY <1>1, <1>6, <1>11 DEF CatalogueInv, EndInv
<1>13. JoinInv'
  <2>1. /\ Walking /\ ~walk'.joined => ~walk.joined /\ Selected' \subseteq Selected
        /\ ~walk'.joined => ~walk.joined
    BY <1>2, <1>8, <1>11
  <2> QED  BY <2>1, <1>1, <1>6 DEF CatalogueInv, JoinInv
<1>14. DecidedInv'
  <2>1. ASSUME ~filter.active PROVE Selected \subseteq Selected'
    <3>1. filter.criteria \in Criteria
      BY DEF CatalogueInv, TypeOK, Filters
    <3>2. Selected \subseteq AppId
      BY <3>1, SelectionFinite DEF Selected
    <3> QED  BY <2>1, <3>2, <1>1 DEF Selected, SelectedIn
  <2>2. ~filter.active => ~walk'.left
    BY <2>1, <1>2 DEF CatalogueInv, DecidedInv
  <2> QED  BY <2>2, <1>1 DEF DecidedInv
<1> QED  BY <1>3, <1>4, <1>5, <1>9, <1>10, <1>12, <1>13, <1>14 DEF CatalogueInv

(* An application comes to exist as a pending one.                         *)
LEMMA CreateStep ==
    ASSUME CatalogueInv, NEW a \in AppId, Create(a)
    PROVE  CatalogueInv'
<1>1. PICK t \in Stamp : Write(a, [status |-> "PENDING", updated |-> t])
  BY DEF Create
<1>2. [status |-> "PENDING", updated |-> t] \in [status : Status, updated : Stamp]
  BY DEF Status
<1>3. table[a].status = "ABSENT"
  BY DEF Create, NoRow
<1>4. a \notin Selected
  BY <1>3 DEF Selected, SelectedIn, Decided
<1> QED  BY <1>1, <1>2, <1>4, WriteStep

(* A pending application leaves the active filter or joins the other one.  *)
LEMMA DecideStep ==
    ASSUME CatalogueInv, NEW a \in AppId, Decide(a)
    PROVE  CatalogueInv'
<1>1. PICK t \in Stamp, s \in Verdict : Write(a, [status |-> s, updated |-> t])
  BY DEF Decide
<1>2. s \in {"ACCEPTED", "REJECTED"} /\ [status |-> s, updated |-> t].status = s
  BY VerdictAssumption
<1>3. [status |-> s, updated |-> t] \in [status : Status, updated : Stamp]
  BY <1>2 DEF Status
<1>4. table'[a].status = s /\ filter' = filter
  BY <1>1, <1>2, <1>3, WriteForm
<1>5. table[a].status = "PENDING"
  BY DEF Decide
<1>6. ~filter.active => a \notin Selected
  BY <1>5 DEF Selected, SelectedIn, Decided
<1>7. filter.active => a \notin Selected'
  BY <1>2, <1>4 DEF Selected, SelectedIn
<1> QED  BY <1>1, <1>3, <1>6, <1>7, WriteStep
-----------------------------------------------------------------------------
(* A request is refused before its first statement, or it can be served.   *)
LEMMA HandleStep ==
    ASSUME CatalogueInv, NEW f \in Filters, f.limit >= 1, f.offset < Word, Handle(f)
    PROVE  /\ filter' = f /\ count' = 0 /\ page' = <<>> /\ UNCHANGED <<table, written>>
           /\ \/ pc' = "exists" /\ result' = "none"
              \/ pc' = "answered" /\ result' = "validation"
           /\ FilterInv' /\ CountInv'
<1>1. /\ filter' = f /\ count' = 0 /\ page' = <<>> /\ UNCHANGED <<table, written>>
      /\ \/ ~Refused(f) /\ pc' = "exists" /\ result' = "none"
         \/ pc' = "answered" /\ result' = "validation"
  BY DEF Handle, Answer
<1>2. Walking' => ~Refused(f)
  BY <1>1 DEF Walking
<1>3. FilterInv'
  BY <1>1, <1>2, Accepted DEF FilterInv
<1>4. CountInv'
  BY <1>1 DEF CountInv, CountAgreesUnlessWritten
<1> QED  BY <1>1, <1>3, <1>4

(* The walk starts with nothing listed and everything ahead.               *)
LEMMA AskBoundStep ==
    ASSUME CatalogueInv, NEW q \in Query, Binds(q), Handle(Normalise(q)), BeginWalk
    PROVE  CatalogueInv'
<1>1. Normalise(q) \in Filters /\ Normalise(q).limit >= 1 /\ Normalise(q).offset < Word
  BY Normalised
<1>2. /\ filter' \in Filters /\ count' = 0 /\ page' = <<>> /\ UNCHANGED <<table, written>>
      /\ \/ pc' = "exists" /\ result' = "none"
         \/ pc' = "answered" /\ result' = "validation"
      /\ FilterInv' /\ CountInv'
  BY <1>1, HandleStep
<1>3. /\ Selected' \subseteq AppId
      /\ \A b : Rank(b)' \in Nat
  <2>1. filter'.criteria \in Criteria
    BY <1>2 DEF Filters
  <2>2. \A b : Ahead(b)' \subseteq SelectedIn(table', filter')
    BY DEF Ahead, Selected
  <2> QED  BY <2>1, <2>2, SelectionFinite, RanksAreNumbers DEF Selected, Rank
<1>4. Selected' = SelectedIn(table, filter')
  BY <1>2 DEF Selected
<1>5. /\ walk' \in Walks /\ walk'.from = filter'.offset /\ walk'.start = Selected'
      /\ walk'.listed = <<>> /\ walk'.left = FALSE
  <2>1. walk' = [NoWalk EXCEPT !.from = filter'.offset, !.start = Selected']
    BY <1>4 DEF BeginWalk
  <2>2. filter'.offset \in Int /\ <<>> \in Seq(AppId)
    BY <1>2, EmptySeq DEF Filters
  <2>3. walk' = [from |-> filter'.offset, start |-> Selected', listed |-> <<>>,
                 left |-> FALSE, joined |-> FALSE, tied |-> FALSE]
    BY <2>1 DEF NoWalk
  <2> QED  BY <1>3, <2>2, <2>3 DEF Walks
<1>6. TypeOK'
  <2>1. <<>> \in Seq(AppId) /\ 0 \in 0 .. Cardinality(AppId)
    BY EmptySeq, TableFitsWord
  <2> QED  BY <1>2, <1>5, <2>1 DEF CatalogueInv, TypeOK
<1>7. MissInv'
  <2> SUFFICES ASSUME Walking', walk'.from = 0
               PROVE  /\ walk'.start \subseteq Selected'
                      /\ \A b \in walk'.start \ ToSet(walk'.listed) : Rank(b)' >= Reached'
    BY DEF MissInv
  <2>1. Reached' = 0
    BY <1>2, <1>5 DEF Reached, Walking
  <2> QED  BY <1>3, <1>5, <2>1
<1>8. ToSet(walk'.listed) = {} /\ IsInjective(walk'.listed)
  <2>1. DOMAIN walk'.listed = {}
    BY <1>5
  <2> QED  BY <2>1 DEF ToSet, IsInjective
<1>9. RepeatInv' /\ EndInv' /\ JoinInv' /\ DecidedInv'
  BY <1>2, <1>5, <1>8 DEF RepeatInv, EndInv, JoinInv, DecidedInv
<1> QED  BY <1>2, <1>6, <1>7, <1>9 DEF CatalogueInv

(* A query that does not bind is answered, and that is all.                *)
LEMMA AskStep ==
    ASSUME CatalogueInv, Ask
    PROVE  CatalogueInv'
<1>1. CASE \E q \in Query : Binds(q) /\ Handle(Normalise(q)) /\ BeginWalk
  BY <1>1, AskBoundStep
<1>2. CASE Answer("validation") /\ UNCHANGED <<table, filter, count, page, walk, written>>
  <2>1. pc' = "answered" /\ result' = "validation" /\ ~Walking'
    BY <1>2 DEF Answer, Walking
  <2>2. TypeOK' /\ DecidedInv'
    BY <1>2, <2>1 DEF CatalogueInv, TypeOK, DecidedInv
  <2>3. FilterInv' /\ CountInv' /\ MissInv' /\ RepeatInv' /\ EndInv' /\ JoinInv'
    BY <2>1 DEF FilterInv, CountInv, CountAgreesUnlessWritten, MissInv, RepeatInv, EndInv,
                JoinInv
  <2> QED  BY <2>2, <2>3 DEF CatalogueInv
<1> QED  BY <1>1, <1>2 DEF Ask

(* The next page starts where the last one ended.                          *)
LEMMA AskNextPageStep ==
    ASSUME CatalogueInv, AskNextPage
    PROVE  CatalogueInv'
<1> DEFINE f == [filter EXCEPT !.offset = @ + Len(page)]
<1>1. /\ pc = "answered" /\ result = "ok" /\ page # <<>> /\ Walking
      /\ Handle(f) /\ walk' = walk
  BY DEF AskNextPage, Walking
<1>2. Len(page) \in Nat /\ filter \in Filters
  BY LenProperties DEF CatalogueInv, TypeOK
<1>3. /\ f \in Filters /\ f.offset = filter.offset + Len(page)
      /\ f.active = filter.active /\ f.criteria = filter.criteria
      /\ f.sort = filter.sort /\ f.limit = filter.limit
  BY <1>2 DEF Filters
<1>4. f.limit >= 1 /\ f.offset < Word
  <2>1. filter.limit \in 1 .. MaxLimit /\ f.offset <= Cardinality(AppId)
    BY <1>1, <1>3 DEF CatalogueInv, FilterInv
  <2> QED  BY <1>2, <1>3, <2>1, TableFitsWord, LimitAssumption DEF Filters
<1> HIDE DEF f
<1>5. /\ filter' = f /\ count' = 0 /\ page' = <<>> /\ UNCHANGED <<table, written>>
      /\ \/ pc' = "exists" /\ result' = "none"
         \/ pc' = "answered" /\ result' = "validation"
      /\ FilterInv' /\ CountInv'
  BY <1>1, <1>3, <1>4, HandleStep
<1>6. Selected' = Selected /\ \A b : Rank(b)' = Rank(b)
  BY <1>3, <1>5, RanksStand
<1>7. Walking' => Reached' = Reached
  BY <1>1, <1>3, <1>5 DEF Walking, Reached
<1>8. TypeOK'
  <2>1. <<>> \in Seq(AppId) /\ 0 \in 0 .. Cardinality(AppId)
    BY EmptySeq, TableFitsWord
  <2> QED  BY <1>1, <1>3, <1>5, <2>1 DEF CatalogueInv, TypeOK
<1>9. MissInv'
  BY <1>1, <1>6, <1>7 DEF CatalogueInv, MissInv
<1>10. RepeatInv'
  BY <1>1, <1>6, <1>7 DEF CatalogueInv, RepeatInv
<1>11. EndInv'
  BY <1>1, <1>5 DEF CatalogueInv, EndInv
<1>12. JoinInv'
  BY <1>1, <1>5, <1>6 DEF CatalogueInv, JoinInv
<1>13. DecidedInv'
  BY <1>1, <1>3, <1>5 DEF CatalogueInv, DecidedInv
<1> QED  BY <1>5, <1>8, <1>9, <1>10, <1>11, <1>12, <1>13 DEF CatalogueInv
-----------------------------------------------------------------------------
(* The client stops at an empty page or at an error.                       *)
LEMMA EndWalkStep ==
    ASSUME CatalogueInv, EndWalk
    PROVE  CatalogueInv'
<1>1. /\ pc = "answered" /\ (result # "ok" \/ page = <<>>) /\ pc' = "done" /\ ~Walking'
      /\ UNCHANGED <<table, filter, count, page, result, walk, written>>
  BY DEF EndWalk, Walking
<1>2. TypeOK'
  BY <1>1 DEF CatalogueInv, TypeOK
<1>3. FilterInv' /\ CountInv' /\ MissInv' /\ RepeatInv' /\ DecidedInv'
  BY <1>1 DEF CatalogueInv, FilterInv, CountInv, CountAgreesUnlessWritten, MissInv,
              RepeatInv, DecidedInv
<1>4. EndInv' /\ JoinInv'
  BY <1>1 DEF CatalogueInv, EndInv, JoinInv, Walking
<1> QED  BY <1>2, <1>3, <1>4 DEF CatalogueInv

(* Neither checking the project type, nor counting, nor an error moves the *)
(* client among the ranks.                                                 *)
LEMMA StatementStep ==
    ASSUME CatalogueInv, CheckType \/ CountRows \/ StatementFails
    PROVE  /\ pc \in {"exists", "count", "page"}
           /\ UNCHANGED <<table, filter, page, walk>>
           /\ \/ pc' \in {"count", "page"} /\ result' = result
              \/ pc' = "answered" /\ result' \in {"validation", "internal"}
           /\ FilterInv' /\ MissInv' /\ RepeatInv' /\ EndInv' /\ JoinInv' /\ DecidedInv'
<1>1. /\ pc \in {"exists", "count", "page"}
      /\ UNCHANGED <<table, filter, page, walk>>
      /\ \/ pc' \in {"count", "page"} /\ result' = result
         \/ pc' = "answered" /\ result' \in {"validation", "internal"}
  BY DEF CheckType, CountRows, StatementFails, Answer
<1>2. Walking /\ (Walking' => pc' # "answered")
  BY <1>1 DEF Walking
<1>3. Walking' => Reached' = Reached
  BY <1>1, <1>2 DEF Reached
<1>4. Selected' = Selected /\ \A b : Rank(b)' = Rank(b)
  BY <1>1, RanksStand
<1>5. FilterInv'
  BY <1>1, <1>2 DEF CatalogueInv, FilterInv
<1>6. MissInv'
  BY <1>1, <1>2, <1>3, <1>4 DEF CatalogueInv, MissInv
<1>7. RepeatInv'
  BY <1>1, <1>2, <1>3, <1>4 DEF CatalogueInv, RepeatInv
<1>8. EndInv'
  BY <1>1, <1>2 DEF CatalogueInv, EndInv
<1>9. JoinInv'
  BY <1>1, <1>2, <1>4 DEF CatalogueInv, JoinInv
<1>10. DecidedInv'
  BY <1>1 DEF CatalogueInv, DecidedInv
<1> QED  BY <1>1, <1>5, <1>6, <1>7, <1>8, <1>9, <1>10

LEMMA CheckTypeStep ==
    ASSUME CatalogueInv, CheckType
    PROVE  CatalogueInv'
<1>1. TypeOK'
  BY DEF CheckType, Answer, CatalogueInv, TypeOK
<1>2. CountInv'
  BY DEF CheckType, Answer, CatalogueInv, CountInv, CountAgreesUnlessWritten
<1> QED  BY <1>1, <1>2, StatementStep DEF CatalogueInv

LEMMA CountRowsStep ==
    ASSUME CatalogueInv, CountRows
    PROVE  CatalogueInv'
<1>1. /\ pc' = "page" /\ count' = Cardinality(Selected) /\ written' = FALSE
      /\ UNCHANGED <<table, filter, page, result, walk>>
  BY DEF CountRows
<1>2. Selected' = Selected
  BY <1>1 DEF Selected, SelectedIn
<1>3. count' \in 0 .. Cardinality(AppId)
  <2>1. filter.criteria \in Criteria
    BY DEF CatalogueInv, TypeOK, Filters
  <2> QED  BY <1>1, <2>1, SelectionFinite, TableFitsWord DEF Selected
<1>4. TypeOK'
  BY <1>1, <1>3 DEF CatalogueInv, TypeOK
<1>5. CountInv'
  BY <1>1, <1>2 DEF CountInv, CountAgreesUnlessWritten
<1> QED  BY <1>4, <1>5, StatementStep DEF CatalogueInv

LEMMA StatementFailsStep ==
    ASSUME CatalogueInv, StatementFails
    PROVE  CatalogueInv'
<1>1. TypeOK'
  BY DEF StatementFails, Answer, CatalogueInv, TypeOK
<1>2. CountInv'
  BY DEF StatementFails, Answer, CountInv, CountAgreesUnlessWritten
<1> QED  BY <1>1, <1>2, StatementStep DEF CatalogueInv
-----------------------------------------------------------------------------
(* The page is the selected applications of the ranks from the offset on:  *)
(* none of them was listed, unless somebody joined, and those still to be  *)
(* listed have the ranks behind it, unless somebody left.                  *)
LEMMA PageRowsStep ==
    ASSUME CatalogueInv, PageRows
    PROVE  CatalogueInv'
<1> DEFINE o == filter.offset
           l == filter.limit
<1>1. /\ pc = "page" /\ pc' = "answered" /\ result' = "ok"
      /\ UNCHANGED <<table, filter, count, written>>
      /\ walk' = [walk EXCEPT !.listed = @ \o page', !.tied = @ \/ Tied]
  BY DEF PageRows, Answer
<1>2. Walking /\ Walking' /\ TypeOK
  BY <1>1 DEF Walking, CatalogueInv
<1>3. /\ filter.sort \in {"ASC", "DESC"} /\ o \in Nat /\ l \in Nat /\ l >= 1
      /\ Uint64(o) = o /\ Uint64(l) = l
  <2>1. filter.sort \in {"ASC", "DESC"} /\ o \in 0 .. Word - 1 /\ l \in 1 .. MaxLimit
    BY <1>2 DEF CatalogueInv, FilterInv
  <2>2. l \in 0 .. Word - 1
    BY <2>1, LimitAssumption
  <2> QED  BY <2>1, <2>2, NoWrap, LimitAssumption
<1>4. PICK s \in Orderings(filter) : page' = Slice(s, o, l)
  BY <1>3 DEF PageRows
<1>5. /\ s \in Seq(AppId) /\ Len(s) = Cardinality(Selected) /\ Len(s) \in Nat
      /\ IsInjective(s) /\ ToSet(s) = Selected /\ DOMAIN s = 1 .. Len(s)
  BY <1>2, OrderingForm, LenProperties
<1>6. Selected' = Selected /\ \A b : Rank(b)' = Rank(b)
  BY <1>1, RanksStand
<1> HIDE DEF o, l
<1> DEFINE k == Len(page')
<1>7. /\ page' \in Seq(AppId) /\ k \in Nat /\ DOMAIN page' = 1 .. k
      /\ k = IF o >= Len(s) THEN 0 ELSE IF o + l < Len(s) THEN l ELSE Len(s) - o
      /\ \A i \in 1 .. k : o + i \in 1 .. Len(s) /\ page'[i] = s[o + i]
  <2> DEFINE c == Slice(s, o, l)
  <2>1. /\ c \in Seq(AppId)
        /\ Len(c) = IF o >= Len(s) THEN 0 ELSE IF o + l < Len(s) THEN l ELSE Len(s) - o
        /\ \A i \in 1 .. Len(c) : o + i \in 1 .. Len(s) /\ c[i] = s[o + i]
    BY <1>3, <1>5, SliceForm, ZenonT(60)
  <2> HIDE DEF c
  <2>2. Len(c) \in Nat /\ DOMAIN c = 1 .. Len(c)
    BY <2>1, LenProperties
  <2>3. page' = c
    BY <1>4 DEF c
  <2> QED  BY <2>1, <2>2, <2>3
<1>8. /\ walk' \in Walks
      /\ walk'.from = walk.from /\ walk'.start = walk.start
      /\ walk'.left = walk.left /\ walk'.joined = walk.joined
      /\ walk'.listed = walk.listed \o page'
      /\ ~walk'.tied => ~walk.tied /\ ~Tied
      /\ walk.listed \in Seq(AppId)
  <2> DEFINE tied == walk.tied \/ Tied
             listed == walk.listed \o page'
  <2>1. walk \in Walks
    BY <1>2 DEF TypeOK
  <2>2. listed \in Seq(AppId) /\ walk.listed \in Seq(AppId) /\ tied \in BOOLEAN
    BY <2>1, <1>7, ConcatProperties DEF Walks
  <2>3. walk' = [walk EXCEPT !.listed = listed, !.tied = tied]
    BY <1>1
  <2> HIDE DEF tied, listed
  <2>4. /\ walk' \in Walks
        /\ walk'.from = walk.from /\ walk'.start = walk.start
        /\ walk'.left = walk.left /\ walk'.joined = walk.joined
        /\ walk'.listed = listed /\ walk'.tied = tied
    BY <2>1, <2>2, <2>3 DEF Walks
  <2> QED  BY <2>2, <2>4 DEF tied, listed
<1>9. /\ ToSet(walk'.listed) = ToSet(walk.listed) \cup ToSet(page')
      /\ \A a \in ToSet(page') : \E i \in 1 .. k : a = page'[i]
      /\ \A i \in 1 .. k : page'[i] \in ToSet(page')
  <2>1. ToSet(page') = {page'[i] : i \in 1 .. k}
    BY <1>7 DEF ToSet
  <2>2. ToSet(walk.listed \o page') = ToSet(walk.listed) \cup ToSet(page')
    BY <1>7, <1>8, ListedTogether
  <2> HIDE DEF k
  <2> QED  BY <2>1, <2>2, <1>8
<1>10. Reached = o /\ Reached' = o + k
  BY <1>1 DEF Reached, o
<1> HIDE DEF k
<1>11. ASSUME ~walk'.tied
       PROVE  \A i \in 1 .. Len(s) : Rank(s[i]) = i - 1
  BY <1>2, <1>3, <1>8, <1>11, OrderedByRank
<1>12. TypeOK'
  BY <1>1, <1>2, <1>7, <1>8 DEF TypeOK
<1>13. FilterInv'
  <2>1. page' # <<>> => o + k <= Cardinality(AppId)
    <3>1. filter.criteria \in Criteria
      BY <1>2 DEF TypeOK, Filters
    <3>2. Len(s) <= Cardinality(AppId) /\ Cardinality(AppId) \in Nat
      BY <3>1, <1>5, SelectionFinite, TableFitsWord DEF Selected
    <3>3. page' # <<>> => k # 0
      BY <1>7, EmptySeq DEF k
    <3> QED  BY <3>2, <3>3, <1>3, <1>5, <1>7
  <2> QED  BY <2>1, <1>1, <1>2 DEF CatalogueInv, FilterInv, Walking, o, k
<1>14. CountInv'
  <2>1. ASSUME ~written PROVE k = Len(Slice([i \in 1 .. count |-> i], o, l))
    <3>1. count = Len(s)
      BY <2>1, <1>1, <1>5 DEF CatalogueInv, CountInv
    <3> DEFINE c == [i \in 1 .. count |-> i]
    <3>2. c \in Seq(Nat) /\ Len(c) = count
      BY <3>1, <1>5
    <3> HIDE DEF c
    <3>3. Len(Slice(c, o, l)) = IF o >= Len(c) THEN 0
                                ELSE IF o + l < Len(c) THEN l ELSE Len(c) - o
      BY <3>2, <1>3, SliceForm
    <3> QED  BY <3>1, <3>2, <3>3, <1>7 DEF c
  <2> QED  BY <2>1, <1>1 DEF CountInv, CountAgreesUnlessWritten, o, l, k
<1>15. MissInv'
  <2> SUFFICES ASSUME walk.from = 0, ~walk'.tied, ~walk.left
               PROVE  /\ walk.start \subseteq Selected
                      /\ \A a \in walk.start \ ToSet(walk'.listed) : Rank(a) >= o + k
    BY <1>6, <1>8, <1>10 DEF MissInv
  <2>1. /\ walk.start \subseteq Selected
        /\ \A a \in walk.start \ ToSet(walk.listed) : Rank(a) >= o
    BY <1>2, <1>8, <1>10 DEF CatalogueInv, MissInv
  <2>2. ASSUME NEW a \in walk.start \ ToSet(walk'.listed)
        PROVE  Rank(a) >= o + k
    <3>1. PICK i \in 1 .. Len(s) : s[i] = a
      BY <2>1, <1>5 DEF ToSet
    <3>2. i - 1 >= o /\ Rank(a) = i - 1
      BY <2>1, <2>2, <3>1, <1>9, <1>11
    <3>3. ASSUME i - 1 < o + k PROVE FALSE
      <4>1. i - o \in 1 .. k /\ o + (i - o) = i
        BY <3>2, <3>3, <1>3, <1>5, <1>7
      <4>2. page'[i - o] = a
        BY <4>1, <3>1, <1>7
      <4> QED  BY <4>1, <4>2, <2>2, <1>9
    <3> QED  BY <3>2, <3>3, <1>3, <1>5, <1>7
  <2> QED  BY <2>1, <2>2
<1>16. ASSUME ~walk'.tied, NEW a \in ToSet(page')
       PROVE  a \in Selected /\ o <= Rank(a) /\ Rank(a) < o + k
  <2>1. PICK i \in 1 .. k : a = page'[i]
    BY <1>9, <1>16
  <2>2. o + i \in 1 .. Len(s) /\ a = s[o + i]
    BY <2>1, <1>7
  <2>3. Rank(s[o + i]) = (o + i) - 1
    BY <2>2, <1>11, <1>16
  <2>4. a \in Selected
    BY <2>2, <1>5 DEF ToSet
  <2>5. o <= (o + i) - 1 /\ (o + i) - 1 < o + k
    BY <2>1, <1>3, <1>7
  <2> QED  BY <2>2, <2>3, <2>4, <2>5
<1>17. RepeatInv'
  <2> SUFFICES ASSUME walk.from = 0, ~walk'.tied, ~walk.joined,
                      NEW a \in ToSet(walk'.listed) \cap Selected
               PROVE  Rank(a) < o + k
    BY <1>6, <1>8, <1>10 DEF RepeatInv
  <2>1. CASE a \in ToSet(page')
    BY <2>1, <1>16
  <2>2. CASE a \in ToSet(walk.listed)
    <3>1. Rank(a) < o
      BY <2>2, <1>2, <1>8, <1>10 DEF CatalogueInv, RepeatInv
    <3>2. Rank(a) \in Int
      <4>1. PICK i \in 1 .. Len(s) : s[i] = a
        BY <1>5 DEF ToSet
      <4> QED  BY <4>1, <1>5, <1>11
    <3> QED  BY <3>1, <3>2, <1>3, <1>7
  <2> QED  BY <2>1, <2>2, <1>9
<1>18. EndInv'
  <2>1. ASSUME page' = <<>>, walk.from = 0, ~walk'.tied, ~walk.left
        PROVE  walk.start \subseteq ToSet(walk'.listed)
    <3>1. /\ walk.start \subseteq Selected
          /\ \A a \in walk.start \ ToSet(walk'.listed) : Rank(a) >= o + k
      BY <2>1, <1>2, <1>6, <1>8, <1>10, <1>15 DEF MissInv
    <3>2. k = 0
      BY <2>1, EmptySeq DEF k
    <3>3. o >= Len(s)
      BY <3>2, <1>3, <1>5, <1>7
    <3>4. \A a \in Selected : Rank(a) < Len(s) /\ Rank(a) \in Int
      <4> TAKE a \in Selected
      <4>1. PICK i \in 1 .. Len(s) : s[i] = a
        BY <1>5 DEF ToSet
      <4> QED  BY <4>1, <1>5, <1>11, <2>1
    <3> QED  BY <3>1, <3>2, <3>3, <3>4, <1>3, <1>5
  <2>2. ASSUME walk.from = 0, ~walk'.tied, ~walk.joined
        PROVE  IsInjective(walk'.listed)
    <3>1. IsInjective(walk.listed)
      BY <2>2, <1>2, <1>8 DEF CatalogueInv, EndInv
    <3>2. IsInjective(page')
      <4> SUFFICES ASSUME NEW i \in 1 .. k, NEW j \in 1 .. k, page'[i] = page'[j]
                   PROVE  i = j
        BY <1>7 DEF IsInjective
      <4>1. s[o + i] = s[o + j] /\ o + i \in DOMAIN s /\ o + j \in DOMAIN s
        BY <1>5, <1>7
      <4>2. o + i = o + j
        BY <4>1, <1>5 DEF IsInjective
      <4> QED  BY <4>2, <1>3
    <3>3. ToSet(walk.listed) \cap ToSet(page') = {}
      <4> SUFFICES ASSUME NEW a \in ToSet(walk.listed), a \in ToSet(page')
                   PROVE  FALSE
        OBVIOUS
      <4>1. a \in Selected /\ o <= Rank(a)
        BY <2>2, <1>16
      <4>2. Rank(a) < o
        BY <4>1, <2>2, <1>2, <1>8, <1>10 DEF CatalogueInv, RepeatInv
      <4>3. Rank(a) \in Int
        <5>1. PICK i \in 1 .. Len(s) : s[i] = a
          BY <4>1, <1>5 DEF ToSet
        <5> QED  BY <5>1, <1>5, <1>11, <2>2
      <4> QED  BY <4>1, <4>2, <4>3, <1>3
    <3> QED  BY <3>1, <3>2, <3>3, <1>7, <1>8, InjectiveTogether
  <2> QED  BY <2>1, <2>2, <1>1, <1>8 DEF EndInv
<1>19. JoinInv'
  <2>1. ToSet(page') \subseteq Selected
    BY <1>5, <1>7, <1>9 DEF ToSet
  <2>2. ~walk.joined => Selected \subseteq walk.start /\ ToSet(walk.listed) \subseteq walk.start
    BY <1>2 DEF CatalogueInv, JoinInv
  <2> QED  BY <2>1, <2>2, <1>6, <1>8, <1>9 DEF JoinInv
<1>20. DecidedInv'
  BY <1>1, <1>8 DEF CatalogueInv, DecidedInv
<1> QED  BY <1>12, <1>13, <1>14, <1>15, <1>17, <1>18, <1>19, <1>20 DEF CatalogueInv
-----------------------------------------------------------------------------
LEMMA InitHolds == Init => CatalogueInv
<1> SUFFICES ASSUME Init PROVE CatalogueInv
  OBVIOUS
<1>1. /\ table = [a \in AppId |-> NoRow] /\ pc = "idle" /\ filter = NoFilter
      /\ count = 0 /\ page = <<>> /\ result = "none" /\ walk = NoWalk /\ written = FALSE
  BY DEF Init
<1>2. NoFilter \in Filters
  <2>1. (CHOOSE c \in Criteria : TRUE) \in Criteria
    BY CriteriaAssumption
  <2>2. DefaultLimit \in Int
    BY LimitAssumption
  <2> QED  BY <2>1, <2>2 DEF NoFilter, Filters
<1>3. NoWalk \in Walks /\ NoWalk.left = FALSE
  <2>1. <<>> \in Seq(AppId)
    BY EmptySeq
  <2> QED  BY <2>1 DEF NoWalk, Walks
<1>4. TypeOK
  <2>1. <<>> \in Seq(AppId) /\ 0 \in 0 .. Cardinality(AppId)
    BY EmptySeq, TableFitsWord
  <2> QED  BY <1>1, <1>2, <1>3, <2>1 DEF TypeOK, Rows
<1>5. FilterInv /\ CountInv /\ MissInv /\ RepeatInv /\ EndInv /\ JoinInv
  BY <1>1 DEF FilterInv, CountInv, CountAgreesUnlessWritten, MissInv, RepeatInv, EndInv,
              JoinInv, Walking
<1>6. DecidedInv
  BY <1>1, <1>3 DEF DecidedInv
<1> QED  BY <1>4, <1>5, <1>6 DEF CatalogueInv

LEMMA StutterStep ==
    ASSUME CatalogueInv, UNCHANGED vars
    PROVE  CatalogueInv'
<1>1. UNCHANGED <<table, pc, filter, count, page, result, walk, written>>
  BY DEF vars
<1>2. /\ Selected' = Selected /\ \A b : Rank(b)' = Rank(b)
      /\ (Walking' <=> Walking) /\ Reached' = Reached
  BY <1>1, RanksStand DEF Walking, Reached
<1>3. TypeOK' /\ FilterInv' /\ DecidedInv'
  BY <1>1, <1>2 DEF CatalogueInv, TypeOK, FilterInv, DecidedInv
<1>4. CountInv'
  BY <1>1, <1>2 DEF CatalogueInv, CountInv, CountAgreesUnlessWritten, Slice
<1>5. MissInv' /\ RepeatInv' /\ EndInv' /\ JoinInv'
  BY <1>1, <1>2 DEF CatalogueInv, MissInv, RepeatInv, EndInv, JoinInv
<1> QED  BY <1>3, <1>4, <1>5 DEF CatalogueInv

LEMMA NextStep ==
    ASSUME CatalogueInv, [Next]_vars
    PROVE  CatalogueInv'
<1>1. ASSUME NEW a \in AppId, Create(a) PROVE CatalogueInv'
  BY <1>1, CreateStep
<1>2. ASSUME NEW a \in AppId, Decide(a) PROVE CatalogueInv'
  BY <1>2, DecideStep
<1>3. CASE Ask
  BY <1>3, AskStep
<1>4. CASE AskNextPage
  BY <1>4, AskNextPageStep
<1>5. CASE EndWalk
  BY <1>5, EndWalkStep
<1>6. CASE CheckType
  BY <1>6, CheckTypeStep
<1>7. CASE CountRows
  BY <1>7, CountRowsStep
<1>8. CASE PageRows
  BY <1>8, PageRowsStep
<1>9. CASE StatementFails
  BY <1>9, StatementFailsStep
<1>10. CASE UNCHANGED vars
  BY <1>10, StutterStep
<1> QED
  BY <1>1, <1>2, <1>3, <1>4, <1>5, <1>6, <1>7, <1>8, <1>9, <1>10 DEF Next, Reader

(* Every reachable state of the table, of the listing and of the client    *)
(* satisfies CatalogueInv.                                                 *)
THEOREM Invariance == Spec => []CatalogueInv
<1> QED  BY InitHolds, NextStep, PTL DEF Spec

(* The type invariant: rows, filter, count, page and walk keep their types *)
(* (domain.ListExternalApplicationsFilter, ExternalApplicationList).       *)
THEOREM TypeCorrect == Spec => []TypeOK
<1>1. CatalogueInv => TypeOK
  BY DEF CatalogueInv
<1> QED  BY <1>1, Invariance, PTL

(* The service lets no limit above the maximum through, and no offset that *)
(* wraps in its conversion to uint64, not even on the hundredth page.      *)
THEOREM StatementsAsAsked == Spec => []StatementInRange
<1>1. ASSUME CatalogueInv PROVE StatementInRange
  <2> SUFFICES ASSUME pc = "page"
               PROVE  /\ Uint64(filter.limit) = filter.limit /\ filter.limit \in 1 .. MaxLimit
                      /\ Uint64(filter.offset) = filter.offset
    BY DEF StatementInRange
  <2>1. filter.limit \in 1 .. MaxLimit /\ filter.offset \in 0 .. Word - 1
    BY <1>1 DEF CatalogueInv, FilterInv, Walking
  <2>2. filter.limit \in 0 .. Word - 1
    BY <2>1, LimitAssumption
  <2> QED  BY <2>1, <2>2, NoWrap
<1> QED  BY <1>1, Invariance, PTL

(* Count and page of one answer agree when no write comes between the two  *)
(* statements of List.                                                     *)
THEOREM CountAgreement == Spec => []CountAgreesUnlessWritten
<1>1. CatalogueInv => CountAgreesUnlessWritten
  BY DEF CatalogueInv, CountInv
<1> QED  BY <1>1, Invariance, PTL

(* Paging with ORDER BY updated_at and OFFSET misses an application only   *)
(* when some application left the filter meanwhile or two share a stamp.   *)
THEOREM NothingMissed == Spec => []WalkMissesOnlyAfterDeparture
<1>1. CatalogueInv => WalkMissesOnlyAfterDeparture
  BY DEF CatalogueInv, EndInv, WalkMissesOnlyAfterDeparture, Walked
<1> QED  BY <1>1, Invariance, PTL

(* It lists an application twice only when one joined the filter meanwhile *)
(* or two share a stamp.                                                   *)
THEOREM NothingRepeated == Spec => []WalkRepeatsOnlyAfterArrival
<1>1. CatalogueInv => WalkRepeatsOnlyAfterArrival
  BY DEF CatalogueInv, EndInv, WalkRepeatsOnlyAfterArrival, Walked
<1> QED  BY <1>1, Invariance, PTL

(* A walk over the decided applications misses none, since a decision is   *)
(* never undone.                                                           *)
THEOREM DecidedComplete == Spec => []DecidedWalkMissesNothing
<1>1. CatalogueInv => DecidedWalkMissesNothing
  BY DEF CatalogueInv, EndInv, DecidedInv, DecidedWalkMissesNothing, Walked
<1> QED  BY <1>1, Invariance, PTL

(* On a list that stands still paging is exact: what was there is listed,  *)
(* once, and nothing else is.                                              *)
THEOREM ExactWalk == Spec => []WalkListsExactly
<1>1. CatalogueInv => WalkListsExactly
  BY DEF CatalogueInv, EndInv, JoinInv, WalkListsExactly, Walked
<1> QED  BY <1>1, Invariance, PTL
==============================================================================
