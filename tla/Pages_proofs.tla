---------------------------- MODULE Pages_proofs ----------------------------
(***************************************************************************)
(* Proofs about what two views show.                                       *)
(*                                                                         *)
(* RecordPages, paging by the last id: for every set of ids, size of a     *)
(* page, set of filters and number of requests, the table is in order,     *)
(* skips nothing and shows what the filter of the address selects.         *)
(*                                                                         *)
(* GuiltyTables: for every query result, the rows of the table have the    *)
(* crashes of the query and the cells stand under their builds.            *)
(*                                                                         *)
(* What holds along a loop or a sequence is shown from a least             *)
(* counterexample (Least).                                                 *)
(***************************************************************************)
EXTENDS RecordPages, GuiltyTables, FiniteSetTheorems, WellFoundedInduction, TLAPS

-----------------------------------------------------------------------------
(* Orders                                                                  *)
(* A set of numbers has a least one.                                      *)
LEMMA Least ==
  ASSUME NEW T \in SUBSET Nat, T # {}
  PROVE  \E n \in T : \A m \in T : n <= m
  <1>. DEFINE R == OpToRel(<, Nat)
  <1>1. IsWellFoundedOn(R, Nat)
    BY NatLessThanWellFounded
  <1>2. \E n \in T : \A m \in T : ~(<<m, n>> \in R)
    <2>. HIDE DEF R
    <2>. QED BY <1>1, WFMin
  <1>3. \A n, m \in Nat : <<m, n>> \in R <=> m < n
    BY DEF OpToRel
  <1>4. PICK n \in T : \A m \in T : ~(<<m, n>> \in R)
    BY <1>2
  <1>5. ASSUME NEW m \in T PROVE n <= m
    <2>1. ~(m < n) /\ m \in Nat /\ n \in Nat
      BY <1>3, <1>4
    <2>. QED BY <2>1
  <1>. QED
    BY <1>4, <1>5

(* ... and a greatest of finitely many.                                    *)
LEMMA Greatest ==
  ASSUME NEW S \in SUBSET Nat, IsFiniteSet(S), S # {}
  PROVE  \E x \in S : \A y \in S : y <= x
  <1>. DEFINE Above(x) == {y \in S : y > x}
              T == {Cardinality(Above(x)) : x \in S}
  <1>1. ASSUME NEW x \in S
        PROVE  IsFiniteSet(Above(x)) /\ Cardinality(Above(x)) \in Nat
    <2>1. Above(x) \in SUBSET S
      OBVIOUS
    <2>. HIDE DEF Above
    <2>. QED
      BY <2>1, FS_Subset, FS_CardinalityType
  <1>2. PICK n \in T : \A m \in T : n <= m
    <2>1. T \in SUBSET Nat /\ T # {}
      BY <1>1
    <2>. HIDE DEF T
    <2>. QED
      BY <2>1, Least
  <1>3. PICK x \in S : n = Cardinality(Above(x))
    OBVIOUS
  <1>4. ASSUME NEW y \in S, y > x PROVE FALSE
    <2>0. y \in Nat /\ x \in Nat /\ \A z \in S : z \in Nat
      OBVIOUS
    <2>1. Above(y) \in SUBSET Above(x) /\ y \in Above(x) /\ y \notin Above(y)
      <3>1. \A z \in S : z > y => z > x
        BY <1>4, <2>0
      <3>2. ~(y > y)
        BY <2>0
      <3>. QED
        BY <1>4, <3>1, <3>2
    <2>2. Cardinality(Above(y)) \in T
      OBVIOUS
    <2>. HIDE DEF Above, T
    <2>3. Cardinality(Above(y)) <= Cardinality(Above(x))
          /\ Cardinality(Above(y)) # Cardinality(Above(x))
      BY <1>1, <2>1, FS_Subset
    <2>. QED
      BY <1>1, <1>2, <1>3, <2>2, <2>3
  <1>5. ASSUME NEW y \in S PROVE y <= x
    <2>1. CASE y > x
      BY <1>4, <2>1
    <2>2. y \in Nat /\ x \in Nat
      OBVIOUS
    <2>. QED
      BY <2>1, <2>2
  <1>. QED
    BY <1>5

LEMMA SeqDomain ==
  ASSUME NEW X, NEW s \in Seq(X)
  PROVE  IsFiniteSet(DOMAIN s) /\ Cardinality(DOMAIN s) = Len(s) /\ DOMAIN s = 1..Len(s)
         /\ Len(s) \in Nat
  <1>1. DOMAIN s = 1..Len(s) /\ Len(s) \in Nat
    OBVIOUS
  <1>2. IsFiniteSet(1..Len(s)) /\ Cardinality(1..Len(s)) = Len(s)
    BY <1>1, FS_Interval
  <1>. QED
    BY <1>1, <1>2

(* One cell or one entry more, or a larger total.                          *)

(* Two sequences in the order of their numbers that have the same          *)
(* elements are the same.                                                  *)
Falling(s, n, num) == \A i, j \in 1..n : i < j => num[s[i]] > num[s[j]]
Within(f, m, g, n) == \A i \in 1..m : \E j \in 1..n : f[i] = g[j]

LEMMA SameOrder ==
  ASSUME NEW B, NEW num, num \in [B -> Nat],
         NEW m, m \in Nat, NEW n, n \in Nat,
         NEW f, f \in [1..m -> B], NEW g, g \in [1..n -> B],
         Falling(f, m, num), Falling(g, n, num), Within(f, m, g, n), Within(g, n, f, m)
  PROVE  f = g
  <1>. USE DEF Falling, Within
  <1>0. \A b \in B : num[b] \in Nat
    OBVIOUS
  <1>1. ASSUME NEW k \in Nat, NEW h \in [1..k -> B],
               \A i, j \in 1..k : i < j => num[h[i]] > num[h[j]],
               NEW i \in 1..k, NEW j \in 1..k, h[i] = h[j]
        PROVE  i = j
    <2>1. num[h[i]] \in Nat /\ num[h[j]] \in Nat /\ i \in Nat /\ j \in Nat
      BY <1>0
    <2>2. ~(i < j) /\ ~(j < i)
      BY <1>1, <2>1
    <2>. QED
      BY <2>1, <2>2
  <1>11. \A i, j \in 1..m : f[i] = f[j] => i = j
    BY <1>1
  <1>12. \A i, j \in 1..n : g[i] = g[j] => i = j
    BY <1>1
  <1>2. \A i \in 1..m : i \in 1..n /\ f[i] = g[i]
    <2>. DEFINE T == {i \in 1..m : ~(i \in 1..n /\ f[i] = g[i])}
    <2>1. SUFFICES ASSUME T # {} PROVE FALSE
      OBVIOUS
    <2>2. T \in SUBSET Nat
      OBVIOUS
    <2>3. PICK d \in T : \A e \in T : d <= e
      <3>. HIDE DEF T
      <3>. QED BY <2>1, <2>2, Least
    <2>4. d \in 1..m /\ d \in Nat /\ ~(d \in 1..n /\ f[d] = g[d])
      OBVIOUS
    <2>5. ASSUME NEW i \in 1..m, i < d PROVE i \in 1..n /\ f[i] = g[i]
      <3>1. ~(d <= i)
        BY <2>4, <2>5
      <3>2. i \notin T
        BY <2>3, <3>1
      <3>. QED
        BY <3>2
    <2>. HIDE DEF T
    <2>6. PICK j \in 1..n : f[d] = g[j]
      BY <2>4
    <2>7. ~(j < d)
      <3>1. SUFFICES ASSUME j < d PROVE FALSE
        OBVIOUS
      <3>2. j \in 1..m /\ f[j] = g[j]
        BY <2>4, <2>5, <3>1
      <3>. QED
        BY <1>11, <2>4, <2>6, <3>1, <3>2
    <2>8. d \in 1..n /\ d < j
      <3>1. d \in 1..n
        BY <2>4, <2>7
      <3>2. d # j
        BY <2>4, <2>6, <3>1
      <3>. QED
        BY <2>4, <2>7, <3>1, <3>2
    <2>9. PICK i \in 1..m : f[i] = g[d]
      BY <2>8
    <2>10. ~(i < d)
      <3>1. SUFFICES ASSUME i < d PROVE FALSE
        OBVIOUS
      <3>2. i \in 1..n /\ f[i] = g[i]
        BY <2>4, <2>5, <3>1
      <3>3. g[i] = g[d]
        BY <2>9, <3>2
      <3>4. i = d
        BY <1>12, <2>8, <3>2, <3>3
      <3>. QED
        BY <2>4, <3>1, <3>4
    <2>11. d < i
      BY <2>4, <2>8, <2>9, <2>10
    <2>12. num[g[d]] > num[g[j]] /\ num[f[d]] > num[f[i]]
      BY <2>4, <2>8, <2>11
    <2>13. num[f[d]] \in Nat /\ num[g[d]] \in Nat
      BY <1>0, <2>4, <2>8
    <2>14. num[g[d]] > num[f[d]] /\ num[f[d]] > num[g[d]]
      BY <2>6, <2>9, <2>12
    <2>. QED
      BY <2>13, <2>14
  <1>3. m <= n
    BY <1>2
  <1>4. m = n
    <2>1. SUFFICES ASSUME m < n PROVE FALSE
      BY <1>3
    <2>2. PICK i \in 1..m : f[i] = g[n]
      BY <2>1
    <2>3. i \in 1..n /\ n \in 1..n /\ i < n /\ g[i] = g[n]
      BY <1>2, <2>1, <2>2
    <2>. QED
      BY <1>12, <2>3
  <1>. QED
    BY <1>2, <1>4

-----------------------------------------------------------------------------
(* No row of S that is as new as one of rows is missing in rows.           *)
Covers(rows, S) == \A id \in S : \A i \in DOMAIN rows : id >= rows[i] => id \in Range(rows)

(* Everything the filter of the address selects or selected.               *)
Selected == query_records(used, filter)

(* The kept rows that the filter selects.                                  *)
Kept == query_records(kept, filter)

(* What is in an answer is of the filter, and what it answers comes after  *)
(* the row the request was sent with.                                      *)
AnswersInv ==
    /\ Range(reload.ids) \subseteq Selected
    /\ Covers(reload.ids, query_records(keeping, filter))
    /\ \A c \in Click :
           /\ Range(more[c].ids) \subseteq Selected
           /\ \A i \in DOMAIN more[c].ids : more[c].ids[i] < more[c].lastid
           /\ (~mixed /\ more[c].stage = "answered") =>
                  Covers(more[c].ids, {id \in Kept : id < more[c].lastid})

(* Undisturbed, one load-more is under way at a time, the button is        *)
(* disabled, and the table still ends with the row it was sent with.       *)
OneMore ==
    ~mixed =>
        \A c \in Click : more[c].stage # "none" =>
            /\ disabled
            /\ table # <<>>
            /\ more[c].lastid = Last(table)
            /\ \A d \in Click : more[d].stage # "none" => d = c

IInv == TypeOK /\ AnswersInv /\ OneMore /\ NewestFirst /\ NothingSkipped /\ ShowsFilter
-----------------------------------------------------------------------------
(* Pages are sequences of ids, and so is what is appended of them.         *)
LEMMA AnswersType ==
  ASSUME NEW s \in Answers
  PROVE  s \in Seq(Id) /\ Descending(s) /\ Len(s) <= RECORDS_PER_PAGE
  BY PageAssumption DEF Answers, SeqOf

LEMMA LimitType ==
  ASSUME NEW S, NEW s \in Limit(S)
  PROVE  s \in Answers /\ s \in Seq(Id) /\ Descending(s) /\ Range(s) \subseteq S
  BY AnswersType DEF Limit

LEMMA EmptyAnswer == <<>> \in Answers /\ Range(<<>>) = {} /\ Descending(<<>>)
  BY PageAssumption DEF Answers, SeqOf, Range, Descending

LEMMA RangeOfAppended ==
  ASSUME NEW S, NEW s \in Seq(S), NEW t \in Seq(S)
  PROVE  Range(s \o t) = Range(s) \cup Range(t)
  <1>1. ASSUME NEW i \in DOMAIN s PROVE i \in DOMAIN (s \o t) /\ (s \o t)[i] = s[i]
    OBVIOUS
  <1>2. ASSUME NEW i \in DOMAIN t
        PROVE  Len(s) + i \in DOMAIN (s \o t) /\ (s \o t)[Len(s) + i] = t[i]
    OBVIOUS
  <1>3. ASSUME NEW i \in DOMAIN (s \o t)
        PROVE  (s \o t)[i] \in Range(s) \cup Range(t)
    <2>1. CASE i <= Len(s)
      BY <2>1 DEF Range
    <2>2. CASE i > Len(s)
      <3>1. i - Len(s) \in DOMAIN t /\ (s \o t)[i] = t[i - Len(s)]
        BY <2>2
      <3>. QED
        BY <3>1 DEF Range
    <2>. QED
      BY <2>1, <2>2
  <1>4. Range(s) \subseteq Range(s \o t)
    BY <1>1 DEF Range
  <1>5. Range(t) \subseteq Range(s \o t)
    BY <1>2 DEF Range
  <1>6. Range(s \o t) \subseteq Range(s) \cup Range(t)
    BY <1>3, Zenon DEF Range
  <1>. QED
    BY <1>4, <1>5, <1>6

(* A page leaves out older rows only.                                      *)
LEMMA LimitCovers ==
  ASSUME NEW S \in SUBSET Id, NEW s \in Limit(S)
  PROVE  Covers(s, S)
  <1>1. SUFFICES ASSUME NEW id \in S, NEW i \in DOMAIN s, id >= s[i], id \notin Range(s)
                 PROVE  FALSE
    BY DEF Covers
  <1>2. id < s[i]
    BY <1>1 DEF Limit
  <1>3. s[i] \in Nat /\ id \in Nat
    <2>1. s[i] \in Id
      BY LimitType
    <2>. QED
      BY <2>1, PageAssumption
  <1>. QED
    BY <1>1, <1>2, <1>3

(* The last row is the oldest.                                             *)
LEMMA LastIsLeast ==
  ASSUME NEW s \in Seq(Id), s # <<>>, Descending(s)
  PROVE  Last(s) = s[Len(s)] /\ Last(s) \in Id /\ Last(s) \in Range(s)
         /\ \A i \in DOMAIN s : s[i] >= Last(s)
  <1>1. Len(s) \in DOMAIN s /\ Last(s) = s[Len(s)]
    BY DEF Last
  <1>2. ASSUME NEW i \in DOMAIN s PROVE s[i] >= s[Len(s)]
    <2>1. i = Len(s) \/ i < Len(s)
      OBVIOUS
    <2>2. s[i] \in Nat /\ s[Len(s)] \in Nat
      <3>1. s[i] \in Id /\ s[Len(s)] \in Id
        BY <1>1
      <3>. QED
        BY <3>1, PageAssumption
    <2>. QED
      BY <2>1, <2>2, <1>1 DEF Descending
  <1>. QED
    BY <1>1, <1>2 DEF Range

(* A filter selects of fewer rows fewer, and of rows it selected those.    *)
LEMMA QueryMonotone ==
  ASSUME NEW S, NEW T, S \subseteq T, NEW asked
  PROVE  query_records(S, asked) \subseteq query_records(T, asked)
         /\ query_records(S, asked) \subseteq S
  BY DEF query_records

LEMMA CoversLess ==
  ASSUME NEW s, NEW S, NEW T, T \subseteq S, Covers(s, S)
  PROVE  Covers(s, T)
  BY DEF Covers

LEMMA NothingToCover == \A S : Covers(<<>>, S)
  BY DEF Covers

-----------------------------------------------------------------------------
(* Types                                                                   *)
LEMMA RequestType ==
  ASSUME NEW r \in Request
  PROVE  r.ids \in Answers /\ r.ids \in Seq(Id) /\ r.lastid \in Nat
  <1>1. r.ids \in Answers /\ r.lastid \in Id \cup {0}
    BY DEF Request
  <1>. QED
    <2>1. \A id \in Id \cup {0} : id \in Nat
      BY PageAssumption
    <2>. QED
      BY <1>1, <2>1, AnswersType

LEMMA NoRequestType ==
  NoRequest \in Request /\ NoRequest.ids = <<>> /\ NoRequest.stage = "none"
  BY EmptyAnswer DEF Request, NoRequest

LEMMA TypeInit == Init => TypeOK
  <1>1. Init => table \in Seq(Id)
    BY LimitType DEF Init
  <1>. QED
    BY <1>1, NoRequestType, FilterAssumption DEF Init, TypeOK

LEMMA TypeLoad ==
  ASSUME TypeOK, NEW S, NEW rows \in Limit(S), Load(rows), filter' \in Filter,
         refused' \in BOOLEAN
  PROVE  TypeOK'
  BY LimitType, NoRequestType DEF TypeOK, Load

LEMMA TypeStep == TypeOK /\ [Next]_vars => TypeOK'
  <1>. SUFFICES ASSUME TypeOK, [Next]_vars PROVE TypeOK'
    OBVIOUS
  <1>1. CASE Insert
    BY <1>1 DEF TypeOK, Insert, page, address, past
  <1>2. CASE Purge
    BY <1>2 DEF TypeOK, Purge, page, address
  <1>3. ASSUME NEW c \in Click, LoadMore(c) PROVE TypeOK'
    <2>1. Last(table) \in Id
      BY <1>3 DEF LoadMore, TypeOK, Last
    <2>2. [NoRequest EXCEPT !.stage = "sent", !.lastid = Last(table)] \in Request
      BY <2>1, EmptyAnswer DEF NoRequest, Request
    <2>. QED
      BY <1>3, <2>2 DEF TypeOK, LoadMore, address, past
  <1>4. ASSUME NEW c \in Click, AnswerMore(c) PROVE TypeOK'
    <2>1. PICK ids \in Limit(Before(more[c].lastid)) :
              more' = [more EXCEPT ![c].stage = "answered", ![c].ids = ids]
      BY <1>4 DEF AnswerMore
    <2>2. [more[c] EXCEPT !.stage = "answered", !.ids = ids] \in Request
      BY <2>1, LimitType DEF TypeOK, Request
    <2>. QED
      BY <1>4, <2>1, <2>2 DEF TypeOK, AnswerMore, page, address, past
  <1>5. ASSUME NEW c \in Click, AppendRows(c) PROVE TypeOK'
    <2>1. table' \in Seq(Id)
      BY <1>5, RequestType DEF TypeOK, AppendRows
    <2>. QED
      BY <1>5, <2>1, NoRequestType DEF TypeOK, AppendRows, address, past
  <1>6. ASSUME NEW c \in Click, FailMore(c) PROVE TypeOK'
    BY <1>6, NoRequestType DEF TypeOK, FailMore, address, past
  <1>7. ASSUME NEW asked \in Filter, Open(asked) PROVE TypeOK'
    BY <1>7, TypeLoad DEF Open
  <1>8. CASE Refuse
    BY <1>8, TypeLoad DEF Refuse, TypeOK
  <1>9. CASE Switch
    BY <1>9 DEF TypeOK, Switch, address
  <1>10. CASE Interval
    <2>1. [NoRequest EXCEPT !.stage = "sent"] \in Request
      BY EmptyAnswer DEF NoRequest, Request
    <2>. QED
      BY <1>10, <2>1 DEF TypeOK, Interval, page, address, past
  <1>11. CASE AnswerReload
    <2>1. PICK ids \in Limit(Matching) :
              reload' = [reload EXCEPT !.stage = "answered", !.ids = ids]
      BY <1>11 DEF AnswerReload
    <2>2. reload' \in Request
      BY <2>1, LimitType DEF TypeOK, Request
    <2>. QED
      BY <1>11, <2>2 DEF TypeOK, AnswerReload, page, address
  <1>12. CASE Replace
    BY <1>12, RequestType, NoRequestType DEF TypeOK, Replace, UnderWay
  <1>13. CASE FailReload
    BY <1>13, NoRequestType DEF TypeOK, FailReload, page, address
  <1>14. CASE UNCHANGED vars
    BY <1>14 DEF TypeOK, vars, page, address, past
  <1>. QED
    BY <1>1, <1>2, <1>3, <1>4, <1>5, <1>6, <1>7, <1>8, <1>9, <1>10, <1>11, <1>12, <1>13,
       <1>14 DEF Next

(* Whatever the browser, the collector and the purge do, the table has ids *)
(* and only rows that are there are kept.                                  *)
THEOREM TypeCorrect == Spec => []TypeOK
  BY TypeInit, TypeStep, PTL DEF Spec
-----------------------------------------------------------------------------
(* A new document has no answer under way.                                 *)
LEMMA LoadInv ==
  ASSUME TypeOK, NEW S \in SUBSET Id, NEW rows \in Limit(S), Load(rows)
  PROVE  AnswersInv' /\ OneMore' /\ NewestFirst'
         /\ \A T \in SUBSET S : Covers(table', T)
  <1>1. /\ reload'.ids = <<>>
        /\ \A c \in Click : more'[c].ids = <<>> /\ more'[c].stage = "none"
    BY NoRequestType DEF Load
  <1>2. AnswersInv'
    BY <1>1, EmptyAnswer, NothingToCover DEF AnswersInv
  <1>3. OneMore'
    BY <1>1 DEF OneMore
  <1>4. NewestFirst'
    BY LimitType DEF NewestFirst, Load
  <1>5. Covers(table', S)
    BY LimitCovers DEF Load
  <1>. QED
    BY <1>2, <1>3, <1>4, <1>5, CoversLess

(* What covers all rows down to its last skips none of them.               *)
LEMMA CoversLast ==
  ASSUME NEW s \in Seq(Id), NEW S, Covers(s, S), s # <<>>
  PROVE  \A id \in S : id >= Last(s) => id \in Range(s)
  BY DEF Covers, Last

LEMMA IInvInit == Init => IInv
  <1>. SUFFICES ASSUME Init PROVE IInv
    OBVIOUS
  <1>1. TypeOK
    BY TypeInit
  <1>2. /\ reload.ids = <<>>
        /\ \A c \in Click : more[c].ids = <<>> /\ more[c].stage = "none"
    BY NoRequestType DEF Init
  <1>3. AnswersInv
    BY <1>2, EmptyAnswer, NothingToCover DEF AnswersInv
  <1>4. OneMore
    BY <1>2 DEF OneMore
  <1>5. NewestFirst
    BY LimitType DEF NewestFirst, Init
  <1>6. query_records(live, {}) = live
    BY DEF query_records
  <1>7. NothingSkipped
    <2>1. Covers(table, query_records(kept, filter))
      BY <1>1, <1>6, LimitCovers DEF Init, TypeOK
    <2>. QED
      BY <1>1, <2>1, CoversLast DEF NothingSkipped, TypeOK
  <1>8. ShowsFilter
    BY <1>6, LimitType DEF ShowsFilter, Init
  <1>. QED
    BY <1>1, <1>3, <1>4, <1>5, <1>7, <1>8 DEF IInv

(* New and deleted rows leave what is shown, and what is under way, right. *)
LEMMA RowsInv ==
  ASSUME IInv, Insert \/ Purge
  PROVE  IInv'
  <1>1. TypeOK /\ TypeOK'
    BY TypeStep DEF IInv, Next
  <1>2. UNCHANGED <<table, streaming, disabled, filter, refused, more, reload, mixed>>
    BY DEF Insert, Purge, page, address, past
  <1>3. used \subseteq used' /\ kept' \subseteq kept /\ keeping' \subseteq keeping
    BY DEF Insert, Purge, past
  <1>4. /\ Selected \subseteq Selected'
        /\ Kept' \subseteq Kept
        /\ query_records(keeping', filter) \subseteq query_records(keeping, filter)
    BY <1>2, <1>3, QueryMonotone DEF Selected, Kept
  <1>5. AnswersInv'
    <2>1. Range(reload'.ids) \subseteq Selected'
      BY <1>2, <1>4 DEF IInv, AnswersInv
    <2>2. Covers(reload'.ids, query_records(keeping, filter)')
      BY <1>2, <1>4, CoversLess DEF IInv, AnswersInv
    <2>3. ASSUME NEW c \in Click
          PROVE  /\ Range(more'[c].ids) \subseteq Selected'
                 /\ \A i \in DOMAIN more'[c].ids : more'[c].ids[i] < more'[c].lastid
                 /\ (~mixed' /\ more'[c].stage = "answered") =>
                        Covers(more'[c].ids, {id \in Kept' : id < more'[c].lastid})
      <3>1. {id \in Kept' : id < more[c].lastid} \subseteq {id \in Kept : id < more[c].lastid}
        BY <1>4
      <3>2. (~mixed' /\ more'[c].stage = "answered") =>
                Covers(more[c].ids, {id \in Kept : id < more[c].lastid})
        BY <1>2 DEF IInv, AnswersInv
      <3>3. (~mixed' /\ more'[c].stage = "answered") =>
                Covers(more'[c].ids, {id \in Kept' : id < more'[c].lastid})
        BY <1>2, <3>1, <3>2, CoversLess, Zenon
      <3>. QED
        BY <1>2, <1>4, <3>3 DEF IInv, AnswersInv
    <2>. QED
      BY <2>1, <2>2, <2>3 DEF AnswersInv
  <1>6. OneMore' /\ NewestFirst'
    BY <1>2 DEF IInv, OneMore, NewestFirst
  <1>7. NothingSkipped'
    BY <1>2, <1>4 DEF IInv, NothingSkipped, Kept
  <1>8. ShowsFilter'
    BY <1>2, <1>4 DEF IInv, ShowsFilter, Selected
  <1>. QED
    BY <1>1, <1>5, <1>6, <1>7, <1>8 DEF IInv

(* A step that leaves the rows and the table alone.                        *)
LEMMA OtherInv ==
  ASSUME IInv, TypeOK', UNCHANGED <<live, used, table, filter, refused, kept>>,
         AnswersInv', OneMore', mixed' \in {mixed, TRUE}
  PROVE  IInv'
  BY DEF IInv, NewestFirst, NothingSkipped, ShowsFilter

LEMMA LoadMoreInv ==
  ASSUME IInv, NEW c \in Click, LoadMore(c)
  PROVE  IInv'
  <1>1. TypeOK /\ TypeOK'
    BY TypeStep DEF IInv, Next
  <1>2. /\ more'[c].stage = "sent" /\ more'[c].lastid = Last(table) /\ more'[c].ids = <<>>
        /\ \A d \in Click \ {c} : more'[d] = more[d]
    BY <1>1 DEF LoadMore, NoRequest, TypeOK
  <1>3. UNCHANGED <<live, used, table, filter, refused, kept, keeping, mixed, reload>>
    BY DEF LoadMore, address, past
  <1>4. AnswersInv'
    <2>1. Selected' = Selected /\ Kept' = Kept
      BY <1>3 DEF Selected, Kept
    <2>2. ASSUME NEW d \in Click
          PROVE  /\ Range(more'[d].ids) \subseteq Selected'
                 /\ \A i \in DOMAIN more'[d].ids : more'[d].ids[i] < more'[d].lastid
                 /\ (~mixed' /\ more'[d].stage = "answered") =>
                        Covers(more'[d].ids, {id \in Kept' : id < more'[d].lastid})
      <3>1. CASE d = c
        BY <3>1, <1>2, EmptyAnswer, NothingToCover
      <3>2. CASE d # c
        BY <3>2, <1>2, <1>3, <2>1 DEF IInv, AnswersInv
      <3>. QED
        BY <3>1, <3>2
    <2>. QED
      BY <1>3, <2>1, <2>2 DEF IInv, AnswersInv
  <1>5. OneMore'
    BY <1>2, <1>3 DEF IInv, OneMore, LoadMore
  <1>. QED
    BY <1>1, <1>3, <1>4, <1>5, OtherInv

LEMMA AnswerMoreInv ==
  ASSUME IInv, NEW c \in Click, AnswerMore(c)
  PROVE  IInv'
  <1>1. TypeOK /\ TypeOK'
    BY TypeStep DEF IInv, Next
  <1>2. PICK ids \in Limit(Before(more[c].lastid)) :
            more' = [more EXCEPT ![c].stage = "answered", ![c].ids = ids]
    BY DEF AnswerMore
  <1>3. /\ more'[c].stage = "answered" /\ more'[c].ids = ids /\ more[c].stage = "sent"
        /\ \A d \in Click : more'[d].lastid = more[d].lastid
        /\ \A d \in Click \ {c} : more'[d] = more[d]
    BY <1>1, <1>2 DEF AnswerMore, TypeOK, Request
  <1>4. UNCHANGED <<live, used, table, filter, refused, kept, keeping, mixed, disabled, reload>>
    BY DEF AnswerMore, page, address, past
  <1>5. Selected' = Selected /\ Kept' = Kept
    BY <1>4 DEF Selected, Kept
  <1>6. Matching \subseteq Selected /\ Kept \subseteq Matching /\ Matching \subseteq Id
    BY <1>1, QueryMonotone DEF TypeOK, Matching, Selected, Kept
  <1>7. /\ Range(ids) \subseteq Selected
        /\ \A i \in DOMAIN ids : ids[i] < more[c].lastid
        /\ Covers(ids, {id \in Kept : id < more[c].lastid})
    <2>1. Before(more[c].lastid) \in SUBSET Id /\ Before(more[c].lastid) \subseteq Selected
          /\ {id \in Kept : id < more[c].lastid} \subseteq Before(more[c].lastid)
      BY <1>6 DEF Before
    <2>2. \A i \in DOMAIN ids : ids[i] \in Before(more[c].lastid)
      BY LimitType DEF Range
    <2>. QED
      BY <2>1, <2>2, LimitType, LimitCovers, CoversLess DEF Before
  <1>8. AnswersInv'
    <2>1. ASSUME NEW d \in Click
          PROVE  /\ Range(more'[d].ids) \subseteq Selected'
                 /\ \A i \in DOMAIN more'[d].ids : more'[d].ids[i] < more'[d].lastid
                 /\ (~mixed' /\ more'[d].stage = "answered") =>
                        Covers(more'[d].ids, {id \in Kept' : id < more'[d].lastid})
      <3>1. CASE d = c
        BY <3>1, <1>3, <1>5, <1>7
      <3>2. CASE d # c
        BY <3>2, <1>3, <1>4, <1>5 DEF IInv, AnswersInv
      <3>. QED
        BY <3>1, <3>2
    <2>. QED
      BY <1>4, <1>5, <2>1 DEF IInv, AnswersInv
  <1>9. OneMore'
    BY <1>3, <1>4 DEF IInv, OneMore
  <1>. QED
    BY <1>1, <1>4, <1>8, <1>9, OtherInv

(* The rows of the answer go below the row it was sent with.               *)
LEMMA AppendRowsInv ==
  ASSUME IInv, NEW c \in Click, AppendRows(c)
  PROVE  IInv'
  <1>1. TypeOK /\ TypeOK'
    BY TypeStep DEF IInv, Next
  <1>2. /\ more'[c] = NoRequest
        /\ \A d \in Click \ {c} : more'[d] = more[d]
        /\ more[c].stage = "answered"
        /\ table' = table \o more[c].ids
    BY <1>1 DEF AppendRows, TypeOK
  <1>3. UNCHANGED <<live, used, filter, refused, kept, keeping, mixed, reload>>
    BY DEF AppendRows, address, past
  <1>4. Selected' = Selected /\ Kept' = Kept
    BY <1>3 DEF Selected, Kept
  <1>5. /\ table \in Seq(Id) /\ more[c].ids \in Seq(Id) /\ Descending(more[c].ids)
        /\ Range(table') = Range(table) \cup Range(more[c].ids)
    BY <1>1, <1>2, RangeOfAppended, RequestType, AnswersType DEF TypeOK
  <1>6. AnswersInv'
    <2>1. ASSUME NEW d \in Click
          PROVE  /\ Range(more'[d].ids) \subseteq Selected'
                 /\ \A i \in DOMAIN more'[d].ids : more'[d].ids[i] < more'[d].lastid
                 /\ (~mixed' /\ more'[d].stage = "answered") =>
                        Covers(more'[d].ids, {id \in Kept' : id < more'[d].lastid})
      <3>1. CASE d = c
        BY <3>1, <1>2, EmptyAnswer, NoRequestType, NothingToCover
      <3>2. CASE d # c
        BY <3>2, <1>2, <1>3, <1>4 DEF IInv, AnswersInv
      <3>. QED
        BY <3>1, <3>2
    <2>. QED
      BY <1>3, <1>4, <2>1 DEF IInv, AnswersInv
  <1>7. OneMore'
    BY <1>2, <1>3, NoRequestType DEF IInv, OneMore
  <1>8. ASSUME ~mixed
        PROVE  /\ table # <<>>
               /\ \A i \in DOMAIN table, j \in DOMAIN more[c].ids : table[i] > more[c].ids[j]
    <2>1. table # <<>> /\ more[c].lastid = Last(table) /\ Descending(table)
      BY <1>2, <1>8 DEF IInv, OneMore, NewestFirst
    <2>2. ASSUME NEW i \in DOMAIN table, NEW j \in DOMAIN more[c].ids
          PROVE  table[i] > more[c].ids[j]
      <3>1. table[i] >= Last(table) /\ more[c].ids[j] < Last(table)
        BY <2>1, <1>5, LastIsLeast DEF IInv, AnswersInv
      <3>2. table[i] \in Nat /\ more[c].ids[j] \in Nat /\ Last(table) \in Nat
        <4>1. table[i] \in Id /\ more[c].ids[j] \in Id /\ Last(table) \in Id
          BY <1>5, <2>1, LastIsLeast
        <4>. QED
          BY <4>1, PageAssumption
      <3>. QED
        BY <3>1, <3>2
    <2>. QED
      BY <2>1, <2>2
  <1>9. NewestFirst'
    <2>1. SUFFICES ASSUME ~mixed, NEW i \in DOMAIN table', NEW j \in DOMAIN table', i < j
                   PROVE  table'[i] > table'[j]
      BY <1>3 DEF NewestFirst, Descending
    <2>2. Descending(table)
      BY <2>1 DEF IInv, NewestFirst
    <2>3. CASE j <= Len(table)
      BY <2>1, <2>2, <2>3, <1>2, <1>5 DEF Descending
    <2>4. CASE i <= Len(table) /\ j > Len(table)
      <3>1. j - Len(table) \in DOMAIN more[c].ids /\ table'[j] = more[c].ids[j - Len(table)]
            /\ i \in DOMAIN table /\ table'[i] = table[i]
        BY <2>4, <1>2, <1>5
      <3>. QED
        BY <3>1, <2>1, <1>8
    <2>5. CASE i > Len(table)
      <3>1. /\ i - Len(table) \in DOMAIN more[c].ids /\ table'[i] = more[c].ids[i - Len(table)]
            /\ j - Len(table) \in DOMAIN more[c].ids /\ table'[j] = more[c].ids[j - Len(table)]
            /\ i - Len(table) < j - Len(table)
        BY <2>1, <2>5, <1>2, <1>5
      <3>. QED
        BY <3>1, <1>5 DEF Descending
    <2>. QED
      BY <2>3, <2>4, <2>5, <1>2, <1>5
  <1>10. NothingSkipped'
    <2>1. SUFFICES ASSUME ~mixed, table' # <<>>, NEW id \in Kept, id >= Last(table')
                   PROVE  id \in Range(table')
      BY <1>3 DEF NothingSkipped, Kept
    <2>2. more[c].lastid = Last(table) /\ Last(table) \in Nat /\ id \in Nat
      <3>1. Last(table) \in Id /\ id \in Id
        BY <1>1, <1>5, <1>8, <2>1, LastIsLeast, QueryMonotone
           DEF TypeOK, Kept, IInv, NewestFirst
      <3>2. more[c].lastid = Last(table)
        BY <1>2, <2>1 DEF IInv, OneMore
      <3>. QED
        BY <3>1, <3>2, PageAssumption
    <2>3. CASE id >= Last(table)
      BY <1>5, <1>8, <2>1, <2>3 DEF IInv, NothingSkipped, Kept
    <2>4. CASE id < Last(table) /\ more[c].ids = <<>>
      <3>1. table' = table
        BY <1>2, <1>5, <2>4
      <3>. QED
        BY <3>1, <2>1, <2>2, <2>4
    <2>5. CASE id < Last(table) /\ more[c].ids # <<>>
      <3>1. Last(table') = Last(more[c].ids)
        BY <1>2, <1>5, <2>5 DEF Last
      <3>2. Covers(more[c].ids, {k \in Kept : k < more[c].lastid})
        BY <1>2, <2>1 DEF IInv, AnswersInv
      <3>. QED
        BY <1>5, <2>1, <2>2, <2>5, <3>1, <3>2, CoversLast
    <2>. QED
      BY <2>2, <2>3, <2>4, <2>5
  <1>11. ShowsFilter'
    BY <1>3, <1>4, <1>5 DEF IInv, ShowsFilter, AnswersInv, Selected
  <1>. QED
    BY <1>1, <1>6, <1>7, <1>9, <1>10, <1>11 DEF IInv

LEMMA FailMoreInv ==
  ASSUME IInv, NEW c \in Click, FailMore(c)
  PROVE  IInv'
  <1>1. TypeOK /\ TypeOK'
    BY TypeStep DEF IInv, Next
  <1>2. /\ more'[c] = NoRequest
        /\ \A d \in Click \ {c} : more'[d] = more[d]
        /\ more[c].stage # "none"
    BY <1>1 DEF FailMore, TypeOK
  <1>3. UNCHANGED <<live, used, table, filter, refused, kept, keeping, mixed, reload>>
    BY DEF FailMore, address, past
  <1>4. Selected' = Selected /\ Kept' = Kept
    BY <1>3 DEF Selected, Kept
  <1>5. AnswersInv'
    <2>1. ASSUME NEW d \in Click
          PROVE  /\ Range(more'[d].ids) \subseteq Selected'
                 /\ \A i \in DOMAIN more'[d].ids : more'[d].ids[i] < more'[d].lastid
                 /\ (~mixed' /\ more'[d].stage = "answered") =>
                        Covers(more'[d].ids, {id \in Kept' : id < more'[d].lastid})
      <3>1. CASE d = c
        BY <3>1, <1>2, EmptyAnswer, NoRequestType, NothingToCover
      <3>2. CASE d # c
        BY <3>2, <1>2, <1>3, <1>4 DEF IInv, AnswersInv
      <3>. QED
        BY <3>1, <3>2
    <2>. QED
      BY <1>3, <1>4, <2>1 DEF IInv, AnswersInv
  <1>6. OneMore'
    BY <1>2, <1>3, NoRequestType DEF IInv, OneMore
  <1>. QED
    BY <1>1, <1>3, <1>5, <1>6, OtherInv

(* A new document starts over: what was under way belonged to the old one. *)
LEMMA OpenInv ==
  ASSUME IInv, NEW asked \in Filter, Open(asked)
  PROVE  IInv'
  <1>1. TypeOK /\ TypeOK'
    BY TypeStep DEF IInv, Next
  <1>. DEFINE S == query_records(live, asked)
  <1>2. PICK rows \in Limit(S) : Load(rows)
    BY DEF Open
  <1>3. S \in SUBSET Id /\ S \subseteq live
    BY <1>1, QueryMonotone DEF TypeOK
  <1>4. kept' = live /\ live' = live /\ used' = used /\ filter' = asked /\ table' = rows
    BY <1>2 DEF Load, Open
  <1>5. AnswersInv' /\ OneMore' /\ NewestFirst' /\ Covers(table', S)
    BY <1>1, <1>2, <1>3, LoadInv
  <1>6. NothingSkipped'
    BY <1>1, <1>4, <1>5, CoversLast DEF TypeOK, NothingSkipped
  <1>7. ShowsFilter'
    <2>1. S \subseteq query_records(used, asked)
      BY <1>1, QueryMonotone DEF TypeOK
    <2>. QED
      BY <1>2, <1>4, <2>1, LimitType DEF ShowsFilter
  <1>. QED
    BY <1>1, <1>5, <1>6, <1>7 DEF IInv

(* The rows of a refused form are more than its filter selects.            *)
LEMMA RefuseInv ==
  ASSUME IInv, Refuse
  PROVE  IInv'
  <1>1. TypeOK /\ TypeOK'
    BY TypeStep DEF IInv, Next
  <1>2. PICK rows \in Limit(live) : Load(rows)
    BY DEF Refuse
  <1>3. kept' = live /\ filter' = filter /\ refused' = TRUE /\ live \in SUBSET Id
    BY <1>1, <1>2 DEF Load, Refuse, TypeOK
  <1>4. query_records(kept', filter') \in SUBSET live
    BY <1>3, QueryMonotone
  <1>5. AnswersInv' /\ OneMore' /\ NewestFirst' /\ Covers(table', query_records(kept', filter'))
    BY <1>1, <1>2, <1>3, <1>4, LoadInv
  <1>6. NothingSkipped'
    BY <1>1, <1>5, CoversLast DEF TypeOK, NothingSkipped
  <1>7. ShowsFilter'
    BY <1>3 DEF ShowsFilter
  <1>. QED
    BY <1>1, <1>5, <1>6, <1>7 DEF IInv

(* The switch enables and disables the button behind a load-more's back:   *)
(* then mixed is set.                                                      *)
LEMMA SwitchInv ==
  ASSUME IInv, Switch
  PROVE  IInv'
  <1>1. TypeOK /\ TypeOK'
    BY TypeStep DEF IInv, Next
  <1>2. UNCHANGED <<live, used, table, filter, refused, kept, keeping, more, reload>>
        /\ mixed' = (mixed \/ UnderWay)
    BY DEF Switch, address
  <1>3. Selected' = Selected /\ Kept' = Kept
    BY <1>2 DEF Selected, Kept
  <1>4. AnswersInv'
    BY <1>2, <1>3 DEF IInv, AnswersInv
  <1>5. OneMore'
    BY <1>2 DEF OneMore, UnderWay
  <1>6. mixed' \in {mixed, TRUE}
    BY <1>1, <1>2 DEF TypeOK, UnderWay
  <1>. QED
    BY <1>1, <1>2, <1>4, <1>5, <1>6, OtherInv

LEMMA ReloadInv ==
  ASSUME IInv, Interval \/ AnswerReload \/ FailReload
  PROVE  IInv'
  <1>1. TypeOK /\ TypeOK'
    BY TypeStep DEF IInv, Next
  <1>2. UNCHANGED <<live, used, table, filter, refused, kept, mixed, more, disabled>>
    BY DEF Interval, AnswerReload, FailReload, page, address, past
  <1>3. Selected' = Selected /\ Kept' = Kept
    BY <1>2 DEF Selected, Kept
  <1>4. Range(reload'.ids) \subseteq Selected
        /\ Covers(reload'.ids, query_records(keeping', filter))
    <2>1. CASE Interval \/ FailReload
      <3>1. reload'.ids = <<>>
        BY <2>1 DEF Interval, FailReload, NoRequest
      <3>. QED
        BY <3>1, EmptyAnswer, NothingToCover
    <2>2. CASE AnswerReload
      <3>1. PICK ids \in Limit(Matching) :
                reload' = [reload EXCEPT !.stage = "answered", !.ids = ids]
        BY <2>2 DEF AnswerReload
      <3>2. reload'.ids = ids /\ keeping' = live
        BY <1>1, <2>2, <3>1 DEF AnswerReload, TypeOK, Request
      <3>3. Matching \in SUBSET Id /\ Matching \subseteq Selected
            /\ query_records(keeping', filter) = Matching
        BY <1>1, <3>2, QueryMonotone DEF TypeOK, Matching, Selected
      <3>. QED
        BY <3>1, <3>2, <3>3, LimitType, LimitCovers
    <2>. QED
      BY <2>1, <2>2
  <1>5. AnswersInv'
    BY <1>2, <1>3, <1>4 DEF IInv, AnswersInv
  <1>6. OneMore'
    BY <1>2 DEF IInv, OneMore
  <1>. QED
    BY <1>1, <1>2, <1>5, <1>6, OtherInv

(* The rows of a reload replace those of the table; the rows of a          *)
(* load-more that is under way then would no longer go below them.         *)
LEMMA ReplaceInv ==
  ASSUME IInv, Replace
  PROVE  IInv'
  <1>1. TypeOK /\ TypeOK'
    BY TypeStep DEF IInv, Next
  <1>2. /\ UNCHANGED <<live, used, filter, more>>
        /\ table' = reload.ids /\ kept' = keeping /\ mixed' = UnderWay
        /\ reload'.ids = <<>>
    BY NoRequestType DEF Replace
  <1>3. reload.ids \in Seq(Id) /\ Descending(reload.ids)
    BY <1>1, RequestType, AnswersType DEF TypeOK
  <1>4. Selected' = Selected
    BY <1>2 DEF Selected
  <1>5. AnswersInv'
    <2>1. ~mixed' => \A c \in Click : more[c].stage = "none"
      BY <1>2 DEF UnderWay
    <2>. QED
      BY <1>2, <1>4, <2>1, EmptyAnswer, NothingToCover DEF IInv, AnswersInv
  <1>6. OneMore'
    BY <1>2 DEF OneMore, UnderWay
  <1>7. NewestFirst'
    BY <1>2, <1>3 DEF NewestFirst
  <1>8. NothingSkipped'
    BY <1>2, <1>3, CoversLast DEF IInv, AnswersInv, NothingSkipped
  <1>9. ShowsFilter'
    BY <1>2, <1>4 DEF IInv, AnswersInv, ShowsFilter, Selected
  <1>. QED
    BY <1>1, <1>5, <1>6, <1>7, <1>8, <1>9 DEF IInv

-----------------------------------------------------------------------------
LEMMA IInvStep == IInv /\ [Next]_vars => IInv'
  <1>. SUFFICES ASSUME IInv, [Next]_vars PROVE IInv'
    OBVIOUS
  <1>1. CASE UNCHANGED vars
    <2>1. UNCHANGED <<live, used, table, streaming, disabled, filter, refused, more, reload,
                      kept, keeping, mixed>>
      BY <1>1 DEF vars, page, address, past
    <2>2. AnswersInv' /\ OneMore'
      BY <2>1 DEF IInv, AnswersInv, OneMore, Selected, Kept
    <2>. QED
      BY <1>1, <2>1, <2>2, TypeStep, OtherInv DEF IInv
  <1>. QED
    BY <1>1, RowsInv, LoadMoreInv, AnswerMoreInv, AppendRowsInv, FailMoreInv, OpenInv,
       RefuseInv, SwitchInv, ReloadInv, ReplaceInv DEF Next

LEMMA IInvHolds == Spec => []IInv
  BY IInvInit, IInvStep, PTL DEF Spec

(* However rows come and go and whatever requests fail, the table of       *)
(* records.html has no row twice and newer ones first, but for the switch. *)
THEOREM InOrder == Spec => []NewestFirst
  <1>1. IInv => NewestFirst
    BY DEF IInv
  <1>. QED
    BY <1>1, IInvHolds, PTL

(* Paging by the last id (query_records, model.py:191-211) leaves out no   *)
(* row of the filter that was there all the time.                          *)
THEOREM SkipsNothing == Spec => []NothingSkipped
  <1>1. IInv => NothingSkipped
    BY DEF IInv
  <1>. QED
    BY <1>1, IInvHolds, PTL

(* No answer, of whatever request and however late, brings in a row that   *)
(* the filter of the address does not select.                              *)
THEOREM OfTheFilter == Spec => []ShowsFilter
  <1>1. IInv => ShowsFilter
    BY DEF IInv
  <1>. QED
    BY <1>1, IInvHolds, PTL

(* The CSV of a filter of the form (filter_records) has what the page      *)
(* shows of it: what equals a choice is like it.                           *)
THEOREM ExportComplete == Spec => []ExportHasPage
  <1>1. IInv => ExportHasPage
    <2>1. SUFFICES ASSUME IInv, ~refused, \A c \in filter : c.param \in Rendered,
                          NEW id \in Range(table) \cap live, NEW c \in filter
                   PROVE  id \in c.ids
      BY DEF ExportHasPage, filter_records
    <2>2. id \in query_records(used, filter) /\ c.param \in OnPage
      BY <2>1 DEF IInv, ShowsFilter, OnPage
    <2>3. id \in Equal(c)
      BY <2>2 DEF query_records
    <2>. QED
      BY <2>3 DEF Equal
  <1>. QED
    BY <1>1, IInvHolds, PTL

-----------------------------------------------------------------------------
(* The query of a page                                                     *)
(* What a page of k rows of S is, if there are as many.                    *)
PageOf(S, s, k) ==
    /\ s \in Seq(Id) /\ Len(s) <= k
    /\ Descending(s)
    /\ Range(s) \subseteq S
    /\ \A id \in S \ Range(s) : Len(s) = k /\ \A i \in DOMAIN s : id < s[i]

LEMMA LimitIsPage ==
  ASSUME NEW S, NEW s
  PROVE  s \in Limit(S) <=> PageOf(S, s, RECORDS_PER_PAGE)
  <1>1. s \in SeqOf(Id, RECORDS_PER_PAGE) <=> s \in Seq(Id) /\ Len(s) <= RECORDS_PER_PAGE
    <2>1. ASSUME s \in Seq(Id), Len(s) <= RECORDS_PER_PAGE
          PROVE  s \in SeqOf(Id, RECORDS_PER_PAGE)
      <3>1. s \in [1..Len(s) -> Id] /\ Len(s) \in 0..RECORDS_PER_PAGE
        BY <2>1, PageAssumption
      <3>. QED
        BY <3>1 DEF SeqOf
    <2>2. ASSUME s \in SeqOf(Id, RECORDS_PER_PAGE)
          PROVE  s \in Seq(Id) /\ Len(s) <= RECORDS_PER_PAGE
      BY <2>2, PageAssumption DEF SeqOf
    <2>. QED
      BY <2>1, <2>2
  <1>. QED
    BY <1>1 DEF Limit, Answers, PageOf

LEMMA PageExists ==
  ASSUME NEW S, S \in SUBSET Id, IsFiniteSet(S), NEW n \in Nat
  PROVE  \E s : PageOf(S, s, n)
  <1>. DEFINE T == {k \in Nat : ~ \E s : PageOf(S, s, k)}
  <1>0. S \in SUBSET Nat
    BY PageAssumption
  <1>1. SUFFICES ASSUME T # {} PROVE FALSE
    OBVIOUS
  <1>2. PICK k \in T : \A l \in T : k <= l
    <2>1. T \in SUBSET Nat
      OBVIOUS
    <2>. HIDE DEF T
    <2>. QED
      BY <1>1, <2>1, Least
  <1>3. k \in Nat /\ ~ \E s : PageOf(S, s, k)
    OBVIOUS
  <1>4. k # 0
    <2>1. PageOf(S, <<>>, 0)
      BY EmptyAnswer DEF PageOf
    <2>. QED
      BY <1>3, <2>1
  <1>5. k - 1 \in Nat /\ ~(k <= k - 1)
    BY <1>3, <1>4
  <1>6. PICK s : PageOf(S, s, k - 1)
    <2>1. k - 1 \notin T
      BY <1>2, <1>5
    <2>. QED
      BY <1>5, <2>1
  <1>. HIDE DEF T
  <1>7. s \in Seq(Id) /\ Len(s) \in Nat /\ Len(s) <= k - 1 /\ Descending(s) /\ Range(s) \subseteq S
        /\ \A id \in S \ Range(s) : Len(s) = k - 1 /\ \A i \in DOMAIN s : id < s[i]
    BY <1>6 DEF PageOf
  <1>8. S \ Range(s) # {}
    <2>1. SUFFICES ASSUME S \ Range(s) = {} PROVE FALSE
      OBVIOUS
    <2>2. PageOf(S, s, k)
      BY <1>3, <1>7, <2>1 DEF PageOf
    <2>. QED
      BY <1>3, <2>2
  <1>9. PICK x \in S \ Range(s) : \A y \in S \ Range(s) : y <= x
    <2>1. S \ Range(s) \in SUBSET Nat /\ IsFiniteSet(S \ Range(s))
      BY <1>0, FS_Difference
    <2>. QED
      BY <1>8, <2>1, Greatest
  <1>. DEFINE t == Append(s, x)
  <1>10. Len(s) = k - 1 /\ x \in Id /\ \A i \in DOMAIN s : x < s[i]
    BY <1>7, <1>9
  <1>11. t \in Seq(Id) /\ Len(t) = k /\ t[k] = x /\ DOMAIN t = 1..k
         /\ \A i \in 1..(k - 1) : i \in DOMAIN s /\ t[i] = s[i]
    BY <1>3, <1>7, <1>10
  <1>12. DOMAIN s = 1..(k - 1)
    BY <1>7, <1>10
  <1>. HIDE DEF t
  <1>13. \A i \in DOMAIN t : i = k \/ i \in 1..(k - 1)
    BY <1>3, <1>11
  <1>14. Descending(t)
    <2>1. SUFFICES ASSUME NEW i \in DOMAIN t, NEW j \in DOMAIN t, i < j PROVE t[i] > t[j]
      BY DEF Descending
    <2>2. i \in 1..(k - 1) /\ i \in DOMAIN s
      BY <1>3, <1>11, <1>12, <2>1
    <2>3. CASE j = k
      BY <1>10, <1>11, <2>2, <2>3
    <2>4. CASE j \in 1..(k - 1)
      <3>1. j \in DOMAIN s /\ s[i] > s[j]
        BY <1>7, <1>12, <2>1, <2>2, <2>4 DEF Descending
      <3>. QED
        BY <1>11, <2>2, <2>4, <3>1
    <2>. QED
      BY <1>13, <2>3, <2>4
  <1>15. Range(t) = Range(s) \cup {x}
    <2>1. \A y : y \in Range(t) <=> (y = x \/ \E i \in 1..(k - 1) : y = s[i])
      <3>1. k \in DOMAIN t /\ \A i \in 1..(k - 1) : i \in DOMAIN t
        BY <1>3, <1>4, <1>11
      <3>. QED
        BY <1>11, <1>13, <3>1 DEF Range
    <2>2. \A y : y \in Range(s) <=> \E i \in 1..(k - 1) : y = s[i]
      BY <1>12 DEF Range
    <2>. QED
      BY <2>1, <2>2
  <1>16. ASSUME NEW id \in S \ Range(t), NEW i \in DOMAIN t
         PROVE  id < t[i]
    <2>1. id \in S \ Range(s) /\ id # x /\ id <= x /\ id \in Nat /\ x \in Nat
      BY <1>0, <1>9, <1>15
    <2>2. CASE i = k
      BY <1>11, <2>1, <2>2
    <2>3. CASE i \in 1..(k - 1)
      BY <1>7, <1>11, <2>1, <2>3
    <2>. QED
      BY <1>13, <2>2, <2>3
  <1>17. PageOf(S, t, k)
    <2>1. Range(t) \subseteq S /\ Len(t) <= k
      BY <1>3, <1>7, <1>9, <1>11, <1>15
    <2>. QED
      BY <1>11, <1>14, <1>16, <2>1 DEF PageOf
  <1>. QED
    BY <1>3, <1>17

(* Of two pages of the same rows neither has one that the other lacks.     *)
LEMMA PageWithin ==
  ASSUME NEW S, S \in SUBSET Id, NEW k, k \in Nat, NEW s, PageOf(S, s, k), NEW t, PageOf(S, t, k)
  PROVE  Range(s) \subseteq Range(t)
  <1>0. \A id \in Id : id \in Nat
    BY PageAssumption
  <1>1. SUFFICES ASSUME NEW x \in Range(s), x \notin Range(t) PROVE FALSE
    OBVIOUS
  <1>2. s \in Seq(Id) /\ t \in Seq(Id) /\ Len(s) <= k /\ Range(s) \subseteq S /\ Range(t) \subseteq S
        /\ Descending(s) /\ Descending(t)
    BY DEF PageOf
  <1>3. Len(t) = k /\ \A i \in DOMAIN t : x < t[i]
    BY <1>1, <1>2 DEF PageOf
  <1>4. ASSUME NEW i \in DOMAIN t PROVE t[i] \in Range(s)
    <2>1. SUFFICES ASSUME t[i] \notin Range(s) PROVE FALSE
      OBVIOUS
    <2>2. t[i] \in S
      BY <1>2 DEF Range
    <2>3. \A j \in DOMAIN s : t[i] < s[j]
      BY <2>1, <2>2 DEF PageOf
    <2>4. t[i] < x
      BY <1>1, <2>3 DEF Range
    <2>5. x < t[i] /\ x \in Nat /\ t[i] \in Nat
      BY <1>0, <1>1, <1>2, <1>3, <2>2
    <2>. QED
      BY <2>4, <2>5
  <1>5. PICK d \in DOMAIN s : s[d] = x
    BY <1>1 DEF Range
  (* The rows of t have k places in s, and x is at one more.               *)
  <1>. DEFINE q == [i \in 1..(k + 1) |-> IF i = k + 1 THEN d ELSE CHOOSE j \in DOMAIN s : s[j] = t[i]]
  <1>6. DOMAIN t = 1..k /\ DOMAIN s = 1..Len(s) /\ Len(s) \in Nat
    BY <1>2, <1>3
  <1>7. ASSUME NEW i \in 1..k PROVE q[i] \in DOMAIN s /\ s[q[i]] = t[i]
    <2>1. \E j \in DOMAIN s : s[j] = t[i]
      BY <1>4, <1>6 DEF Range
    <2>2. i \in 1..(k + 1) /\ i # k + 1
      OBVIOUS
    <2>. QED
      BY <2>1, <2>2
  <1>8. k + 1 \in 1..(k + 1) /\ q[k + 1] = d
    OBVIOUS
  <1>9. \A i \in 1..(k + 1) : i = k + 1 \/ i \in 1..k
    OBVIOUS
  <1>10. q \in [1..(k + 1) -> 1..Len(s)]
    <2>1. \A i \in 1..(k + 1) : q[i] \in 1..Len(s)
      BY <1>5, <1>6, <1>7, <1>8, <1>9
    <2>. QED
      BY <2>1
  <1>. HIDE DEF q
  <1>11. PICK i \in 1..(k + 1), j \in 1..(k + 1) : i # j /\ q[i] = q[j]
    <2>1. k + 1 \in Int /\ Len(s) \in Int /\ 1 \in Int
      BY <1>6
    <2>2. IsFiniteSet(1..(k + 1)) /\ Cardinality(1..(k + 1)) = k + 1
      BY <2>1, FS_Interval
    <2>3. IsFiniteSet(1..Len(s)) /\ Cardinality(1..Len(s)) = Len(s)
      BY <1>2, <1>6, SeqDomain
    <2>4. Cardinality(1..Len(s)) < Cardinality(1..(k + 1))
      BY <1>2, <1>6, <2>2, <2>3
    <2>. QED
      BY <1>10, <2>2, <2>3, <2>4, FS_PigeonHole
  <1>12. ASSUME NEW a \in 1..k, q[a] = d PROVE FALSE
    <2>1. t[a] = x
      BY <1>5, <1>7, <1>12
    <2>. QED
      BY <1>1, <1>6, <2>1 DEF Range
  <1>13. ASSUME NEW a \in 1..k, NEW b \in 1..k, a < b, q[a] = q[b] PROVE FALSE
    <2>1. t[a] = t[b] /\ t[a] > t[b]
      BY <1>2, <1>6, <1>7, <1>13 DEF Descending
    <2>2. t[a] \in Nat
      BY <1>0, <1>2, <1>6
    <2>. QED
      BY <2>1, <2>2
  <1>14. CASE i \in 1..k /\ j \in 1..k
    BY <1>11, <1>13, <1>14
  <1>. QED
    BY <1>8, <1>9, <1>11, <1>12, <1>14

LEMMA PageUnique ==
  ASSUME NEW S, S \in SUBSET Id, NEW k, k \in Nat, NEW s, PageOf(S, s, k), NEW t, PageOf(S, t, k)
  PROVE  s = t
  <1>. DEFINE m == Len(s)
              n == Len(t)
              num == [id \in Id |-> id]
  <1>1. s \in Seq(Id) /\ t \in Seq(Id) /\ Descending(s) /\ Descending(t)
    BY DEF PageOf
  <1>2. m \in Nat /\ n \in Nat /\ s \in [1..m -> Id] /\ t \in [1..n -> Id]
    BY <1>1
  <1>3. num \in [Id -> Nat]
    BY PageAssumption
  <1>4. Falling(s, m, num) /\ Falling(t, n, num)
    BY <1>1, <1>2 DEF Falling, Descending
  <1>5. Range(s) = Range(t)
    BY PageWithin
  <1>6. Within(s, m, t, n) /\ Within(t, n, s, m)
    BY <1>2, <1>5 DEF Within, Range
  <1>. HIDE DEF m, n, num
  <1>. QED
    BY <1>2, <1>3, <1>4, <1>6, SameOrder

(* The query of a page has exactly one answer, for every finite set of     *)
(* rows: the set Limit(S) leaves no choice and never blocks a step.        *)
THEOREM OneAnswer ==
  ASSUME NEW S, S \in SUBSET Id, IsFiniteSet(S)
  PROVE  \E s \in Limit(S) : \A t \in Limit(S) : t = s
  <1>1. RECORDS_PER_PAGE \in Nat
    BY PageAssumption
  <1>2. PICK s : PageOf(S, s, RECORDS_PER_PAGE)
    BY <1>1, PageExists
  <1>3. s \in Limit(S)
    BY <1>2, LimitIsPage
  <1>4. ASSUME NEW t \in Limit(S) PROVE t = s
    <2>1. PageOf(S, t, RECORDS_PER_PAGE)
      BY LimitIsPage
    <2>. QED
      BY <1>1, <1>2, <2>1, PageUnique
  <1>. QED
    BY <1>3, <1>4

-----------------------------------------------------------------------------
(* Sorting permutes, and puts larger keys first.                           *)
LEMMA SortedByPermutes ==
  ASSUME NEW X, NEW s \in Seq(X), NEW key \in [DOMAIN s -> Nat]
  PROVE  \E p \in [DOMAIN s -> DOMAIN s] :
             /\ SortedBy(s, key) = [k \in DOMAIN s |-> s[p[k]]]
             /\ \A i, j \in DOMAIN s : p[i] = p[j] => i = j
             /\ \A i \in DOMAIN s : \E k \in DOMAIN s : p[k] = i
             /\ \A i, j \in DOMAIN s : i < j => key[p[i]] >= key[p[j]]
  <1>. DEFINE D == DOMAIN s
              First(j, i) == key[j] > key[i] \/ (key[j] = key[i] /\ j <= i)
              B(i) == {j \in D : First(j, i)}
              r == [i \in D |-> Cardinality(B(i))]
              p == [k \in D |-> CHOOSE i \in D : r[i] = k]
  <1>1. D = 1..Len(s) /\ Len(s) \in Nat /\ IsFiniteSet(D) /\ Cardinality(D) = Len(s)
    BY FS_Interval
  <1>2. \A i \in D : key[i] \in Nat /\ i \in Nat
    BY <1>1
  <1>. HIDE DEF D
  <1>3. ASSUME NEW i \in D
        PROVE  B(i) \in SUBSET D /\ i \in B(i) /\ r[i] = Cardinality(B(i))
    BY <1>2
  <1>4. ASSUME NEW i \in D, NEW j \in D, i # j, First(j, i)
        PROVE  B(j) \in SUBSET B(i) /\ i \notin B(j)
    BY <1>2, <1>4
  <1>5. ASSUME NEW i \in D, NEW j \in D, i # j
        PROVE  First(j, i) \/ First(i, j)
    BY <1>2, <1>5
  <1>6. \A i, j \in D : ~First(j, i) => key[i] >= key[j]
    BY <1>2
  <1>7. SortedBy(s, key) = [k \in D |-> s[CHOOSE i \in D : r[i] = k]]
    BY DEF SortedBy, D
  <1>. HIDE DEF B, First
  <1>8. ASSUME NEW i \in D
        PROVE  IsFiniteSet(B(i)) /\ r[i] \in D /\ r[i] \in Nat
    <2>1. IsFiniteSet(B(i)) /\ Cardinality(B(i)) <= Cardinality(D)
      BY <1>1, <1>3, FS_Subset
    <2>2. Cardinality(B(i)) \in Nat /\ Cardinality(B(i)) # 0
      BY <1>3, <2>1, FS_CardinalityType, FS_EmptySet
    <2>. QED
      BY <1>1, <1>3, <2>1, <2>2
  <1>9. SortedBy(s, key) = [k \in D |-> s[p[k]]]
    BY <1>7, Zenon
  <1>10. r \in [D -> D]
    BY <1>3, <1>8
  <1>11. \A k \in D : p[k] = CHOOSE i \in D : r[i] = k
    OBVIOUS
  <1>. HIDE DEF r
  (* What comes first has the lower rank.                                  *)
  <1>12. ASSUME NEW i \in D, NEW j \in D, i # j, First(j, i) PROVE r[j] < r[i]
    <2>1. Cardinality(B(j)) <= Cardinality(B(i)) /\ Cardinality(B(j)) # Cardinality(B(i))
      BY <1>3, <1>4, <1>8, <1>12, FS_Subset
    <2>. QED
      BY <1>3, <1>8, <2>1
  <1>13. \A i, j \in D : r[i] = r[j] => i = j
    BY <1>5, <1>8, <1>12
  <1>14. \A k \in D : \E i \in D : r[i] = k
    <2>1. r \in Injection(D, D)
      BY <1>10, <1>13 DEF Injection, IsInjective
    <2>2. r \in Surjection(D, D)
      BY <2>1, <1>1, FS_Injection
    <2>. QED
      BY <2>2 DEF Surjection
  <1>15. ASSUME NEW k \in D PROVE p[k] \in D /\ r[p[k]] = k
    BY <1>11, <1>14
  <1>16. p \in [D -> D]
    BY <1>15
  <1>. HIDE DEF p
  <1>17. \A i, j \in D : p[i] = p[j] => i = j
    BY <1>15
  <1>18. \A i \in D : p[r[i]] = i
    BY <1>8, <1>13, <1>15
  <1>19. ASSUME NEW i \in D, NEW j \in D, i < j PROVE key[p[i]] >= key[p[j]]
    <2>1. p[i] \in D /\ p[j] \in D /\ r[p[i]] = i /\ r[p[j]] = j /\ i \in Nat /\ j \in Nat
      BY <1>15, <1>2
    <2>2. ~First(p[j], p[i])
      <3>1. SUFFICES ASSUME First(p[j], p[i]) PROVE FALSE
        OBVIOUS
      <3>2. r[p[j]] < r[p[i]]
        BY <2>1, <3>1, <1>12, <1>19
      <3>. QED
        BY <2>1, <3>2, <1>19
    <2>. QED
      BY <2>1, <2>2, <1>6
  <1>. USE DEF D
  <1>. QED
    BY <1>8, <1>9, <1>16, <1>17, <1>18, <1>19

-----------------------------------------------------------------------------
(* Sums                                                                    *)
LEMMA UnitsOf ==
  ASSUME NEW S, NEW f \in [S -> Nat]
  PROVE  \A u : u \in Units(f) <=> \E i \in S : \E k \in 1..f[i] : u = <<i, k>>
  BY DEF Units

LEMMA UnitsFinite ==
  ASSUME NEW S, IsFiniteSet(S), NEW f \in [S -> Nat]
  PROVE  IsFiniteSet(Units(f)) /\ SumOver(f) \in Nat
  <1>. DEFINE Of == [i \in S |-> {i} \X (1..f[i])]
              T == {{i} \X (1..f[i]) : i \in S}
  <1>1. Of \in Surjection(S, T)
    BY DEF Surjection
  <1>2. IsFiniteSet(T)
    BY <1>1, FS_Surjection
  <1>3. ASSUME NEW i \in S PROVE IsFiniteSet({i} \X (1..f[i]))
    <2>. DEFINE I == 1..f[i]
    <2>1. IsFiniteSet(I)
      <3>1. f[i] \in Int
        OBVIOUS
      <3>. QED
        BY <3>1, FS_Interval
    <2>2. IsFiniteSet({i})
      BY FS_Singleton
    <2>. HIDE DEF I
    <2>3. IsFiniteSet({i} \X I)
      BY <2>1, <2>2, FS_Product
    <2>. QED
      BY <2>3 DEF I
  <1>4. IsFiniteSet(UNION T)
    <2>1. \A X \in T : IsFiniteSet(X)
      BY <1>3
    <2>. HIDE DEF T
    <2>. QED
      BY <1>2, <2>1, FS_UNION
  <1>5. IsFiniteSet(Units(f))
    BY <1>4 DEF Units
  <1>. QED
    BY <1>5, FS_CardinalityType DEF SumOver

LEMMA SumEmpty ==
  ASSUME NEW f \in [{} -> Nat]
  PROVE  SumOver(f) = 0
  <1>1. Units(f) = {}
    BY UnitsOf
  <1>. QED
    BY <1>1, FS_EmptySet DEF SumOver

(* One term grows.                                                         *)
LEMMA SumRaised ==
  ASSUME NEW S, IsFiniteSet(S), NEW f \in [S -> Nat], NEW x \in S,
         NEW g \in [S -> Nat], g[x] >= f[x],
         \A i \in S \ {x} : g[i] = f[i]
  PROVE  SumOver(g) = SumOver(f) + (g[x] - f[x])
  <1>. DEFINE old == f[x]
              v == g[x] - f[x]
              New == {x} \X ((old + 1)..(old + v))
  <1>0. old \in Nat /\ v \in Nat /\ g[x] = old + v /\ old = f[x] /\ v = g[x] - f[x]
    OBVIOUS
  <1>. USE <1>0
  <1>. HIDE DEF old, v
  <1>1. Units(g) = Units(f) \cup New
    <2>1. ASSUME NEW i \in S, NEW k \in 1..g[i]
          PROVE  <<i, k>> \in Units(f) \cup New
      <3>1. CASE i # x
        BY <3>1, UnitsOf
      <3>2. CASE i = x /\ k <= old
        <4>1. x \in S /\ k \in 1..f[x]
          BY <3>2
        <4>. QED
          BY <4>1, <3>2, UnitsOf
      <3>3. CASE i = x /\ k > old
        BY <3>3
      <3>. QED
        BY <3>1, <3>2, <3>3
    <2>2. ASSUME NEW i \in S, NEW k \in 1..f[i] PROVE <<i, k>> \in Units(g)
      <3>1. k \in 1..g[i]
        BY <2>2
      <3>. QED
        BY <3>1, UnitsOf
    <2>3. ASSUME NEW k \in (old + 1)..(old + v) PROVE <<x, k>> \in Units(g)
      <3>1. k \in 1..g[x]
        OBVIOUS
      <3>. QED
        BY <3>1, UnitsOf
    <2>4. Units(g) \subseteq Units(f) \cup New
      BY <2>1, UnitsOf
    <2>5. Units(f) \subseteq Units(g)
      BY <2>2, UnitsOf
    <2>6. New \subseteq Units(g)
      BY <2>3
    <2>. QED
      BY <2>4, <2>5, <2>6
  <1>2. Units(f) \cap New = {}
    BY UnitsOf
  <1>3. IsFiniteSet(New) /\ Cardinality(New) = v
    <2>. DEFINE I == (old + 1)..(old + v)
    <2>1. IsFiniteSet(I) /\ Cardinality(I) = v
      <3>1. old + 1 \in Int /\ old + v \in Int /\ (old + 1 > old + v => v = 0)
            /\ (old + v) - (old + 1) + 1 = v
        OBVIOUS
      <3>. QED
        BY <3>1, FS_Interval
    <2>2. IsFiniteSet({x}) /\ Cardinality({x}) = 1
      BY FS_Singleton
    <2>. HIDE DEF I
    <2>3. IsFiniteSet({x} \X I) /\ Cardinality({x} \X I) = Cardinality({x}) * Cardinality(I)
      BY <2>1, <2>2, FS_Product
    <2>4. Cardinality({x}) * Cardinality(I) = v
      BY <2>1, <2>2
    <2>. QED
      BY <2>3, <2>4 DEF I
  <1>4. IsFiniteSet(Units(f)) /\ Cardinality(Units(f)) \in Nat
    BY UnitsFinite, FS_CardinalityType
  <1>. HIDE DEF New
  <1>5. Cardinality(Units(f) \cup New) = Cardinality(Units(f)) + v - Cardinality({})
    BY <1>2, <1>3, <1>4, FS_Union
  <1>. QED
    BY <1>1, <1>4, <1>5, FS_EmptySet DEF SumOver

(* There is one term more.                                                 *)
LEMMA SumExtended ==
  ASSUME NEW S, IsFiniteSet(S), NEW f \in [S -> Nat], NEW x, x \notin S,
         NEW T, T = S \cup {x}, NEW g \in [T -> Nat], \A i \in S : g[i] = f[i]
  PROVE  SumOver(g) = SumOver(f) + g[x]
  <1>. DEFINE h == [i \in T |-> IF i = x THEN 0 ELSE f[i]]
  <1>1. h \in [T -> Nat] /\ h[x] = 0 /\ \A i \in S : h[i] = f[i]
    OBVIOUS
  <1>2. Units(h) = Units(f)
    <2>. HIDE DEF h
    <2>1. Units(h) \subseteq Units(f)
      BY <1>1, UnitsOf
    <2>2. Units(f) \subseteq Units(h)
      BY <1>1, UnitsOf
    <2>. QED
      BY <2>1, <2>2
  <1>3. IsFiniteSet(T)
    BY FS_AddElement
  <1>4. x \in T /\ g \in [T -> Nat] /\ g[x] >= h[x] /\ \A i \in T \ {x} : g[i] = h[i]
    BY <1>1
  <1>. HIDE DEF h
  <1>5. SumOver(g) = SumOver(h) + (g[x] - h[x])
    BY <1>1, <1>3, <1>4, SumRaised
  <1>6. SumOver(h) = SumOver(f) /\ SumOver(f) \in Nat /\ g[x] \in Nat
    BY <1>2, <1>4, UnitsFinite DEF SumOver
  <1>. QED
    BY <1>1, <1>5, <1>6

(* The order of the terms does not matter.                                 *)
LEMMA SumPermuted ==
  ASSUME NEW S, IsFiniteSet(S), NEW f \in [S -> Nat], NEW p \in [S -> S],
         \A i, j \in S : p[i] = p[j] => i = j,
         \A i \in S : \E k \in S : p[k] = i
  PROVE  SumOver([k \in S |-> f[p[k]]]) = SumOver(f)
  <1>. DEFINE g == [k \in S |-> f[p[k]]]
              b == [u \in Units(g) |-> <<p[u[1]], u[2]>>]
  <1>1. g \in [S -> Nat]
    OBVIOUS
  <1>2. \A i \in S, k \in Nat : <<i, k>> \in Units(g) <=> k \in 1..f[p[i]]
    BY <1>1, UnitsOf
  <1>3. \A u \in Units(g) : \E i \in S : \E k \in 1..f[p[i]] : u = <<i, k>>
    BY <1>1, UnitsOf
  <1>. HIDE DEF g
  <1>4. b \in [Units(g) -> Units(f)]
    <2>1. ASSUME NEW u \in Units(g) PROVE <<p[u[1]], u[2]>> \in Units(f)
      BY <1>3, UnitsOf
    <2>. QED
      BY <2>1
  <1>5. \A u, w \in Units(g) : b[u] = b[w] => u = w
    BY <1>3
  <1>6. \A w \in Units(f) : \E u \in Units(g) : b[u] = w
    <2>1. SUFFICES ASSUME NEW w \in Units(f) PROVE \E u \in Units(g) : b[u] = w
      OBVIOUS
    <2>2. PICK i \in S : \E k \in 1..f[i] : w = <<i, k>>
      BY UnitsOf
    <2>3. PICK k \in 1..f[i] : w = <<i, k>>
      BY <2>2
    <2>4. PICK h \in S : p[h] = i
      OBVIOUS
    <2>5. <<h, k>> \in Units(g)
      BY <1>2, <2>4
    <2>. QED
      BY <2>3, <2>4, <2>5
  <1>7. IsFiniteSet(Units(g))
    BY <1>1, UnitsFinite
  <1>8. b \in Bijection(Units(g), Units(f))
    BY <1>4, <1>5, <1>6 DEF Bijection, Injection, IsInjective, Surjection
  <1>9. Cardinality(Units(f)) = Cardinality(Units(g))
    <2>1. ExistsBijection(Units(g), Units(f))
      BY <1>8 DEF ExistsBijection
    <2>. QED
      BY <1>7, <2>1, FS_Bijection
  <1>. QED
    BY <1>9 DEF SumOver, g

-----------------------------------------------------------------------------
(* The loop over the rows                                                  *)
CellType  == [build : Build, count : Nat]
EntryType == [guilty : Guilty, total : Nat, builds : Seq(CellType)]

Counts(cells) == [k \in DOMAIN cells |-> cells[k].count]
Totals(list)  == [i \in DOMAIN list |-> list[i].total]

(* The rows that are done with.                                            *)
Added(n) == {i \in WantedRows : i < n}

RowCounts(rows) == [i \in rows |-> guilties[i].count]

(* The totals are those of the rows so far, and of each entry's cells.     *)
TotalsInv ==
    /\ SumOver(Totals(newlist)) = SumOver(RowCounts(Added(next)))
    /\ \A i \in DOMAIN newlist : newlist[i].total = SumOver(Counts(newlist[i].builds))

(* A cell comes from a row, and an entry has no build twice.               *)
CellsInv ==
    \A i \in DOMAIN newlist :
        /\ \A k \in DOMAIN newlist[i].builds : \E r \in DOMAIN guilties :
               /\ r < next
               /\ guilties[r].guilty = newlist[i].guilty
               /\ guilties[r].build = newlist[i].builds[k].build
        /\ \A k, l \in DOMAIN newlist[i].builds :
               newlist[i].builds[k].build = newlist[i].builds[l].build => k = l

TablesInv == TablesTypeOK /\ TotalsInv /\ CellsInv

LEMMA QueryType ==
  ASSUME NEW q \in Query
  PROVE  q \in Seq(QueryRow) /\ DOMAIN q = 1..Len(q) /\ Len(q) \in Nat
         /\ \A i \in DOMAIN q : q[i].guilty \in Guilty /\ q[i].build \in Build
                                /\ q[i].count \in Nat
  <1>1. PICK n \in 0..MaxRows : q \in [1..n -> QueryRow]
    BY DEF Query
  <1>2. n \in Nat /\ q \in Seq(QueryRow)
    BY <1>1, TableAssumption
  <1>. QED
    <2>1. \A i \in DOMAIN q : q[i] \in QueryRow
      BY <1>2
    <2>2. \A c \in Count : c \in Nat
      BY TableAssumption
    <2>. QED
      BY <1>1, <1>2, <2>1, <2>2 DEF QueryRow

(* The entry with the count and the cell of one more row.                  *)
Extended(entry, g) ==
    [guilty |-> entry.guilty, total |-> entry.total + g.count,
     builds |-> Append(entry.builds, Cell(g))]

LEMMA AddToExtends ==
  ASSUME newlist \in Seq(EntryType), NEW i \in DOMAIN newlist, NEW g, g.count \in Nat,
         g.build \in Build, AddTo(i, g)
  PROVE  /\ newlist' = [newlist EXCEPT ![i] = Extended(newlist[i], g)]
         /\ Extended(newlist[i], g) \in EntryType
  <1>1. newlist[i] \in EntryType /\ Cell(g) \in CellType
    BY DEF Cell, CellType
  <1>2. Append(newlist[i].builds, Cell(g)) \in Seq(CellType) /\ newlist[i].total + g.count \in Nat
    BY <1>1 DEF EntryType
  <1>3. Extended(newlist[i], g) \in EntryType
    BY <1>1, <1>2 DEF Extended, EntryType
  <1>. QED
    BY <1>3 DEF AddTo, Extended

(* A step keeps the types and adds no second entry for a guilty.           *)
LEMMA TablesTypeStep == TablesTypeOK /\ [TablesNext]_tables_vars => TablesTypeOK'
  <1>. SUFFICES ASSUME TablesTypeOK, [TablesNext]_tables_vars PROVE TablesTypeOK'
    OBVIOUS
  <1>0. newlist \in Seq(EntryType) /\ guilties \in Query
    BY DEF TablesTypeOK, EntryType, CellType
  <1>1. CASE FoundEntry
    <2>. DEFINE g == guilties[next]
    <2>1. next \in DOMAIN guilties /\ next' \in 1..(Len(guilties) + 1)
      BY <1>1, QueryType DEF FoundEntry, TablesTypeOK
    <2>2. PICK i \in DOMAIN newlist : newlist[i].guilty = g.guilty /\ AddTo(i, g)
      BY <1>1 DEF FoundEntry
    <2>3. /\ newlist' = [newlist EXCEPT ![i] = Extended(newlist[i], g)]
          /\ Extended(newlist[i], g) \in EntryType
      BY <1>0, <2>1, <2>2, QueryType, AddToExtends
    <2>4. newlist' \in Seq(EntryType) /\ DOMAIN newlist' = DOMAIN newlist
      BY <1>0, <2>3
    <2>5. \A k \in DOMAIN newlist : newlist'[k].guilty = newlist[k].guilty
      BY <1>0, <2>3 DEF Extended
    <2>. QED
      BY <1>1, <2>1, <2>4, <2>5 DEF TablesTypeOK, FoundEntry, EntryType, CellType
  <1>2. CASE NewEntry
    <2>. DEFINE g == guilties[next]
                new == [guilty |-> g.guilty, total |-> g.count, builds |-> <<Cell(g)>>]
    <2>1. next \in DOMAIN guilties /\ next' \in 1..(Len(guilties) + 1)
      BY <1>2, QueryType DEF NewEntry, TablesTypeOK
    <2>2. Cell(g) \in CellType /\ g.count \in Nat /\ g.guilty \in Guilty
      BY <1>0, <2>1, QueryType DEF Cell, CellType
    <2>3. new \in EntryType
      BY <2>2 DEF EntryType
    <2>4. newlist' = Append(newlist, new) /\ new.guilty = g.guilty
      BY <1>2 DEF NewEntry
    <2>. HIDE DEF new
    <2>5. newlist' \in Seq(EntryType)
      BY <1>0, <2>3, <2>4
    <2>6. \A i, j \in DOMAIN newlist' : newlist'[i].guilty = newlist'[j].guilty => i = j
      <3>1. \A i \in DOMAIN newlist : newlist[i].guilty # new.guilty
        BY <1>2, <2>4 DEF NewEntry
      <3>2. \A i, j \in DOMAIN newlist : newlist[i].guilty = newlist[j].guilty => i = j
        BY DEF TablesTypeOK
      <3>3. \A i \in DOMAIN newlist' : \/ i \in DOMAIN newlist /\ newlist'[i] = newlist[i]
                                       \/ i = Len(newlist) + 1 /\ newlist'[i] = new
        BY <1>0, <2>4
      <3>. QED
        BY <3>1, <3>2, <3>3
    <2>. QED
      BY <1>2, <2>1, <2>5, <2>6 DEF TablesTypeOK, NewEntry, EntryType, CellType
  <1>3. CASE OtherBuild
    BY <1>3, QueryType DEF OtherBuild, TablesTypeOK
  <1>4. CASE UNCHANGED tables_vars
    BY <1>4 DEF tables_vars, TablesTypeOK
  <1>. QED
    BY <1>1, <1>2, <1>3, <1>4 DEF TablesNext

LEMMA TablesTypeInit == TablesInit => TablesTypeOK
  BY QueryType DEF TablesInit, TablesTypeOK

LEMMA CountsAppended ==
  \A cells \in Seq(CellType), c \in CellType :
      SumOver(Counts(Append(cells, c))) = SumOver(Counts(cells)) + c.count
  <1>0. SUFFICES ASSUME NEW cells, NEW c, cells \in Seq(CellType), c \in CellType
                 PROVE  SumOver(Counts(Append(cells, c))) = SumOver(Counts(cells)) + c.count
    OBVIOUS
  <1>. DEFINE x == Len(cells) + 1
              S == DOMAIN cells
              T == S \cup {x}
              f == Counts(cells)
              g == Counts(Append(cells, c))
  <1>1. (\A k \in S : cells[k].count \in Nat) /\ c.count \in Nat
    <2>1. \A k \in S : cells[k] \in CellType
      BY <1>0
    <2>. QED
      BY <1>0, <2>1 DEF CellType
  <1>2. /\ DOMAIN Append(cells, c) = T
        /\ Append(cells, c)[x] = c
        /\ \A k \in S : Append(cells, c)[k] = cells[k]
    BY <1>0
  <1>3. x \notin S /\ T = S \cup {x} /\ IsFiniteSet(S)
    BY <1>0, SeqDomain
  <1>4. f \in [S -> Nat]
    BY <1>1 DEF Counts
  <1>5. g \in [T -> Nat] /\ g[x] = c.count /\ \A k \in S : g[k] = f[k]
    BY <1>1, <1>2 DEF Counts
  <1>. HIDE DEF x, S, T, f, g
  <1>6. SumOver(g) = SumOver(f) + g[x]
    BY <1>3, <1>4, <1>5, SumExtended
  <1>. QED
    BY <1>5, <1>6 DEF f, g

LEMMA TotalsType ==
  ASSUME NEW list \in Seq(EntryType)
  PROVE  Totals(list) \in [DOMAIN list -> Nat] /\ \A i \in DOMAIN list : list[i].total \in Nat
  <1>1. \A i \in DOMAIN list : list[i] \in EntryType
    OBVIOUS
  <1>. QED
    BY <1>1 DEF Totals, EntryType

LEMMA TotalsAppended ==
  \A list \in Seq(EntryType), e \in EntryType :
      SumOver(Totals(Append(list, e))) = SumOver(Totals(list)) + e.total
  <1>0. SUFFICES ASSUME NEW list, NEW e, list \in Seq(EntryType), e \in EntryType
                 PROVE  SumOver(Totals(Append(list, e))) = SumOver(Totals(list)) + e.total
    OBVIOUS
  <1>. DEFINE x == Len(list) + 1
              S == DOMAIN list
              T == S \cup {x}
              f == Totals(list)
              g == Totals(Append(list, e))
  <1>1. (\A k \in S : list[k].total \in Nat) /\ e.total \in Nat
    BY <1>0, TotalsType DEF EntryType
  <1>2. /\ DOMAIN Append(list, e) = T
        /\ Append(list, e)[x] = e
        /\ \A k \in S : Append(list, e)[k] = list[k]
    BY <1>0
  <1>3. x \notin S /\ T = S \cup {x} /\ IsFiniteSet(S)
    BY <1>0, SeqDomain
  <1>4. f \in [S -> Nat]
    BY <1>1 DEF Totals
  <1>5. g \in [T -> Nat] /\ g[x] = e.total /\ \A k \in S : g[k] = f[k]
    BY <1>1, <1>2 DEF Totals
  <1>. HIDE DEF x, S, T, f, g
  <1>6. SumOver(g) = SumOver(f) + g[x]
    BY <1>3, <1>4, <1>5, SumExtended
  <1>. QED
    BY <1>5, <1>6 DEF f, g

LEMMA TotalsRaised ==
  \A list \in Seq(EntryType) : \A i \in DOMAIN list, e \in EntryType, v \in Nat :
      e.total = list[i].total + v =>
          SumOver(Totals([list EXCEPT ![i] = e])) = SumOver(Totals(list)) + v
  <1>0. SUFFICES ASSUME NEW list, list \in Seq(EntryType), NEW i \in DOMAIN list, NEW e,
                        e \in EntryType, NEW v \in Nat, e.total = list[i].total + v
                 PROVE  SumOver(Totals([list EXCEPT ![i] = e])) = SumOver(Totals(list)) + v
    OBVIOUS
  <1>. DEFINE S == DOMAIN list
              f == Totals(list)
              g == Totals([list EXCEPT ![i] = e])
  <1>1. f \in [S -> Nat] /\ e.total \in Nat /\ \A k \in S : list[k].total \in Nat
    BY <1>0, TotalsType DEF EntryType
  <1>2. f[i] = list[i].total
        /\ g \in [S -> Nat] /\ g[i] = e.total /\ \A k \in S \ {i} : g[k] = f[k]
    BY <1>0, <1>1 DEF Totals
  <1>3. IsFiniteSet(S) /\ i \in S
    BY <1>0, SeqDomain
  <1>. HIDE DEF S, f, g
  <1>4. f[i] \in Nat /\ g[i] = f[i] + v /\ g[i] >= f[i] /\ g[i] - f[i] = v
    BY <1>0, <1>1, <1>2, <1>3
  <1>5. SumOver(g) = SumOver(f) + (g[i] - f[i])
    BY <1>1, <1>2, <1>3, <1>4, SumRaised
  <1>. QED
    BY <1>4, <1>5 DEF f, g

(* A row that is taken adds its count to those of the rows so far.         *)
LEMMA RowTaken ==
  ASSUME TablesTypeOK, next <= Len(guilties), Wanted(guilties[next]), next' = next + 1,
         UNCHANGED <<guilties, build_filter>>
  PROVE  /\ guilties[next].count \in Nat
         /\ SumOver(RowCounts(Added(next)))'
                = SumOver(RowCounts(Added(next))) + guilties[next].count
  <1>1. /\ next \in DOMAIN guilties /\ next \in Nat
        /\ \A i \in DOMAIN guilties : guilties[i].count \in Nat /\ i \in Nat
        /\ IsFiniteSet(DOMAIN guilties)
    <2>1. guilties \in Seq(QueryRow) /\ DOMAIN guilties = 1..Len(guilties)
          /\ Len(guilties) \in Nat
          /\ \A i \in DOMAIN guilties : guilties[i].count \in Nat
      BY QueryType DEF TablesTypeOK
    <2>2. IsFiniteSet(DOMAIN guilties)
      BY <2>1, SeqDomain
    <2>. QED
      BY <2>1, <2>2 DEF TablesTypeOK
  <1>2. WantedRows' = WantedRows /\ WantedRows \in SUBSET DOMAIN guilties /\ next \in WantedRows
    BY <1>1 DEF WantedRows, Wanted
  <1>3. /\ Added(next)' = Added(next) \cup {next}
        /\ next \notin Added(next)
        /\ Added(next) \in SUBSET DOMAIN guilties
    BY <1>1, <1>2 DEF Added
  <1>4. IsFiniteSet(Added(next))
    BY <1>1, <1>3, FS_Subset
  <1>5. /\ RowCounts(Added(next)) \in [Added(next) -> Nat]
        /\ RowCounts(Added(next))' \in [Added(next) \cup {next} -> Nat]
        /\ RowCounts(Added(next))'[next] = guilties[next].count
        /\ \A i \in Added(next) \ {next} : RowCounts(Added(next))'[i] = RowCounts(Added(next))[i]
    BY <1>1, <1>3 DEF RowCounts
  <1>6. SumOver(RowCounts(Added(next))') = SumOver(RowCounts(Added(next))) + guilties[next].count
    <2>. DEFINE S == Added(next)
                T == S \cup {next}
                f == RowCounts(Added(next))
                g == RowCounts(Added(next))'
    <2>1. /\ IsFiniteSet(S) /\ next \notin S /\ T = S \cup {next}
          /\ f \in [S -> Nat]
          /\ \A i \in S : g[i] = f[i]
      BY <1>3, <1>4, <1>5
    <2>2. g \in [T -> Nat] /\ g[next] = guilties[next].count
      BY <1>5
    <2>. HIDE DEF S, T, f, g
    <2>3. SumOver(g) = SumOver(f) + g[next]
      BY <2>1, <2>2, SumExtended
    <2>. QED
      BY <2>2, <2>3 DEF f, g
  <1>. QED
    BY <1>1, <1>6 DEF SumOver, Units

(* The step of a row that has an entry, and of one that gets its own.      *)
LEMMA FoundStep ==
  ASSUME TablesTypeOK, FoundEntry
  PROVE  \E i \in DOMAIN newlist :
            /\ newlist[i].guilty = guilties[next].guilty
            /\ newlist' = [newlist EXCEPT ![i] = Extended(newlist[i], guilties[next])]
            /\ Extended(newlist[i], guilties[next]) \in EntryType
  <1>. DEFINE g == guilties[next]
  <1>0. newlist \in Seq(EntryType) /\ guilties \in Query
    BY DEF TablesTypeOK, EntryType, CellType
  <1>1. next \in DOMAIN guilties
    BY <1>0, QueryType DEF FoundEntry, TablesTypeOK
  <1>2. g.count \in Nat /\ g.build \in Build
    BY <1>0, <1>1, QueryType
  <1>3. PICK i \in DOMAIN newlist : newlist[i].guilty = g.guilty /\ AddTo(i, g)
    BY DEF FoundEntry
  <1>. HIDE DEF g
  <1>4. newlist' = [newlist EXCEPT ![i] = Extended(newlist[i], g)]
        /\ Extended(newlist[i], g) \in EntryType
    BY <1>0, <1>2, <1>3, AddToExtends
  <1>. QED
    BY <1>3, <1>4 DEF g

Single(g) == [guilty |-> g.guilty, total |-> g.count, builds |-> <<Cell(g)>>]

LEMMA NewStep ==
  ASSUME TablesTypeOK, NewEntry
  PROVE  /\ newlist' = Append(newlist, Single(guilties[next]))
         /\ Single(guilties[next]) \in EntryType
         /\ Cell(guilties[next]) \in CellType
  <1>1. guilties \in Query /\ next \in DOMAIN guilties
    BY QueryType DEF NewEntry, TablesTypeOK
  <1>2. Cell(guilties[next]) \in CellType /\ guilties[next].count \in Nat
        /\ guilties[next].guilty \in Guilty
    BY <1>1, QueryType DEF Cell, CellType
  <1>. QED
    BY <1>2 DEF NewEntry, Single, EntryType

LEMMA SingleSum ==
  ASSUME NEW c \in CellType
  PROVE  SumOver(Counts(<<c>>)) = c.count
  <1>1. <<c>> = Append(<<>>, c) /\ <<>> \in Seq(CellType)
    OBVIOUS
  <1>2. SumOver(Counts(<<c>>)) = SumOver(Counts(<<>>)) + c.count
    BY <1>1, CountsAppended
  <1>3. SumOver(Counts(<<>>)) = 0
    <2>1. Counts(<<>>) \in [{} -> Nat]
      BY DEF Counts
    <2>. QED
      BY <2>1, SumEmpty
  <1>4. c.count \in Nat
    BY DEF CellType
  <1>. QED
    BY <1>2, <1>3, <1>4

(* The totals and the rows that are done with grow by the same count.      *)
LEMMA TotalsStep ==
  ASSUME TablesTypeOK, TotalsInv, [TablesNext]_tables_vars
  PROVE  TotalsInv'
  <1>. DEFINE g == guilties[next]
  <1>0. newlist \in Seq(EntryType)
    BY DEF TablesTypeOK, EntryType, CellType
  <1>1. CASE FoundEntry
    <2>1. PICK i \in DOMAIN newlist :
            /\ newlist' = [newlist EXCEPT ![i] = Extended(newlist[i], g)]
            /\ Extended(newlist[i], g) \in EntryType
      BY <1>1, FoundStep
    <2>. DEFINE e == Extended(newlist[i], g)
    <2>2. g.count \in Nat
          /\ SumOver(RowCounts(Added(next)))' = SumOver(RowCounts(Added(next))) + g.count
      BY <1>1, RowTaken DEF FoundEntry
    <2>3. e.total = newlist[i].total + g.count /\ e.builds = Append(newlist[i].builds, Cell(g))
          /\ e \in EntryType
      BY <2>1 DEF Extended
    <2>4. Cell(g) \in CellType /\ newlist[i].builds \in Seq(CellType) /\ Cell(g).count = g.count
      <3>1. guilties \in Query /\ next \in DOMAIN guilties
        BY <1>1, QueryType DEF FoundEntry, TablesTypeOK
      <3>2. newlist[i] \in EntryType
        BY <1>0
      <3>. QED
        BY <2>2, <3>1, <3>2, QueryType DEF Cell, CellType, EntryType
    <2>5. newlist' = [newlist EXCEPT ![i] = e]
      BY <2>1
    <2>. HIDE DEF g, e
    <2>6. SumOver(Totals(newlist')) = SumOver(Totals(newlist)) + g.count
      BY <1>0, <2>2, <2>3, <2>5, TotalsRaised
    <2>7. SumOver(Counts(e.builds)) = SumOver(Counts(newlist[i].builds)) + g.count
      BY <2>3, <2>4, CountsAppended
    <2>8. ASSUME NEW k \in DOMAIN newlist'
          PROVE  newlist'[k].total = SumOver(Counts(newlist'[k].builds))
      <3>1. k \in DOMAIN newlist /\ newlist'[k] = IF k = i THEN e ELSE newlist[k]
        BY <1>0, <2>5
      <3>2. newlist[k].total = SumOver(Counts(newlist[k].builds))
        BY <3>1 DEF TotalsInv
      <3>. QED
        BY <2>3, <2>7, <3>1, <3>2
    <2>9. SumOver(Totals(newlist')) = SumOver(RowCounts(Added(next)))'
      BY <2>2, <2>6 DEF TotalsInv
    <2>. QED
      BY <2>8, <2>9 DEF TotalsInv, SumOver, Units, Totals, Counts
  <1>2. CASE NewEntry
    <2>. DEFINE e == Single(g)
    <2>1. newlist' = Append(newlist, e) /\ e \in EntryType /\ Cell(g) \in CellType
      BY <1>2, NewStep
    <2>2. g.count \in Nat
          /\ SumOver(RowCounts(Added(next)))' = SumOver(RowCounts(Added(next))) + g.count
      BY <1>2, RowTaken DEF NewEntry
    <2>3. e.total = g.count /\ e.builds = <<Cell(g)>> /\ Cell(g).count = g.count
      BY DEF Single, Cell
    <2>. HIDE DEF g, e
    <2>4. SumOver(Totals(newlist')) = SumOver(Totals(newlist)) + g.count
      BY <1>0, <2>1, <2>3, TotalsAppended
    <2>5. e.total = SumOver(Counts(e.builds))
      BY <2>1, <2>3, SingleSum
    <2>6. ASSUME NEW k \in DOMAIN newlist'
          PROVE  newlist'[k].total = SumOver(Counts(newlist'[k].builds))
      <3>1. \/ k \in DOMAIN newlist /\ newlist'[k] = newlist[k]
            \/ newlist'[k] = e
        BY <1>0, <2>1
      <3>. QED
        BY <2>5, <3>1 DEF TotalsInv
    <2>7. SumOver(Totals(newlist')) = SumOver(RowCounts(Added(next)))'
      BY <2>2, <2>4 DEF TotalsInv
    <2>. QED
      BY <2>6, <2>7 DEF TotalsInv, SumOver, Units, Totals, Counts
  <1>3. CASE OtherBuild
    <2>1. newlist' = newlist /\ guilties' = guilties /\ build_filter' = build_filter
          /\ next' = next + 1 /\ next \notin WantedRows
      BY <1>3 DEF OtherBuild, WantedRows
    <2>2. WantedRows' = WantedRows /\ \A i \in WantedRows : i \in Nat /\ next \in Nat
      BY <2>1, QueryType DEF WantedRows, Wanted, TablesTypeOK
    <2>3. Added(next)' = Added(next)
      BY <2>1, <2>2 DEF Added
    <2>. QED
      BY <2>1, <2>3 DEF TotalsInv, Totals, Counts, RowCounts, SumOver, Units
  <1>4. CASE UNCHANGED tables_vars
    <2>1. newlist' = newlist /\ guilties' = guilties /\ build_filter' = build_filter
          /\ next' = next
      BY <1>4 DEF tables_vars
    <2>2. Added(next)' = Added(next)
      BY <2>1 DEF Added, WantedRows, Wanted
    <2>3. SumOver(RowCounts(Added(next)))' = SumOver(RowCounts(Added(next)))
      BY <2>1, <2>2 DEF RowCounts, SumOver, Units
    <2>4. SumOver(Totals(newlist))' = SumOver(Totals(newlist))
      BY <2>1 DEF Totals, SumOver, Units
    <2>5. \A i \in DOMAIN newlist : newlist[i].total = SumOver(Counts(newlist[i].builds))
      BY DEF TotalsInv
    <2>6. (\A i \in DOMAIN newlist : newlist[i].total = SumOver(Counts(newlist[i].builds)))'
      BY <2>1, <2>5 DEF Counts, SumOver, Units
    <2>7. SumOver(Totals(newlist)) = SumOver(RowCounts(Added(next)))
      BY DEF TotalsInv
    <2>. QED
      BY <2>3, <2>4, <2>6, <2>7 DEF TotalsInv
  <1>. QED
    BY <1>1, <1>2, <1>3, <1>4 DEF TablesNext

(* A build comes twice in an entry only if the query has it twice.         *)
LEMMA CellsStep ==
  ASSUME TablesTypeOK, CellsInv, [TablesNext]_tables_vars
  PROVE  CellsInv'
  <1>. DEFINE g == guilties[next]
              From(entry, c, n) == \E r \in DOMAIN guilties :
                  r < n /\ guilties[r].guilty = entry.guilty /\ guilties[r].build = c.build
              Fine(entry, n) ==
                  /\ \A k \in DOMAIN entry.builds : From(entry, entry.builds[k], n)
                  /\ \A k, l \in DOMAIN entry.builds :
                         entry.builds[k].build = entry.builds[l].build => k = l
  <1>0. newlist \in Seq(EntryType) /\ guilties \in Query /\ next \in Nat
        /\ \A r \in DOMAIN guilties : r \in Nat
    BY QueryType DEF TablesTypeOK, EntryType, CellType
  <1>1. \A i \in DOMAIN newlist : Fine(newlist[i], next)
    BY DEF CellsInv
  <1>2. \A entry : Fine(entry, next) => Fine(entry, next + 1)
    BY <1>0
  <1>3. CASE FoundEntry
    <2>1. PICK i \in DOMAIN newlist :
            /\ newlist[i].guilty = g.guilty
            /\ newlist' = [newlist EXCEPT ![i] = Extended(newlist[i], g)]
            /\ Extended(newlist[i], g) \in EntryType
      BY <1>3, FoundStep
    <2>. DEFINE e == Extended(newlist[i], g)
                old == newlist[i].builds
    <2>2. e.guilty = g.guilty /\ e.builds = Append(old, Cell(g)) /\ Cell(g).build = g.build
      BY <2>1 DEF Extended, Cell
    <2>3. next \in DOMAIN guilties /\ next' = next + 1 /\ guilties' = guilties
      BY <1>3, QueryType DEF FoundEntry, TablesTypeOK
    <2>4. newlist[i] \in EntryType
      BY <1>0
    <2>5. old \in Seq(CellType)
      BY <2>4 DEF EntryType
    <2>6. \A k \in DOMAIN old : old[k].build # g.build
      <3>1. SUFFICES ASSUME NEW k \in DOMAIN old, old[k].build = g.build PROVE FALSE
        OBVIOUS
      <3>2. PICK r \in DOMAIN guilties : r < next /\ guilties[r].guilty = newlist[i].guilty
                                         /\ guilties[r].build = old[k].build
        BY <1>1
      <3>3. \A a, b \in DOMAIN guilties :
                a < b => (guilties[a].guilty = guilties[b].guilty
                              => guilties[a].build # guilties[b].build)
        BY <1>0 DEF Query
      <3>. QED
        BY <2>1, <2>3, <3>1, <3>2, <3>3
    <2>7. \A k \in DOMAIN e.builds : \/ k \in DOMAIN old /\ e.builds[k] = old[k]
                                     \/ k = Len(old) + 1 /\ e.builds[k] = Cell(g)
      BY <2>2, <2>5
    <2>8. From(e, Cell(g), next + 1)
      BY <1>0, <2>2, <2>3
    <2>9. \A k \in DOMAIN old : From(e, old[k], next + 1)
      BY <1>1, <1>2, <2>1, <2>2
    <2>10. \A k, l \in DOMAIN old : old[k].build = old[l].build => k = l
      BY <1>1
    <2>11. newlist' = [newlist EXCEPT ![i] = e]
      BY <2>1
    <2>. HIDE DEF e, g, old, From
    <2>12. Fine(e, next + 1)
      <3>1. \A k \in DOMAIN e.builds : From(e, e.builds[k], next + 1)
        BY <2>7, <2>8, <2>9
      <3>2. \A k, l \in DOMAIN e.builds : e.builds[k].build = e.builds[l].build => k = l
        BY <2>2, <2>6, <2>7, <2>10
      <3>. QED
        BY <3>1, <3>2
    <2>13. \A k \in DOMAIN newlist' : k \in DOMAIN newlist
                                      /\ newlist'[k] = IF k = i THEN e ELSE newlist[k]
      BY <1>0, <2>11
    <2>14. \A k \in DOMAIN newlist' : Fine(newlist'[k], next + 1)
      BY <1>1, <1>2, <2>12, <2>13
    <2>. QED
      BY <2>3, <2>14 DEF CellsInv, From
  <1>4. CASE NewEntry
    <2>. DEFINE e == Single(g)
    <2>1. newlist' = Append(newlist, e)
      BY <1>4, NewStep
    <2>2. e.guilty = g.guilty /\ e.builds = <<Cell(g)>> /\ Cell(g).build = g.build
      BY DEF Single, Cell
    <2>3. next \in DOMAIN guilties /\ next' = next + 1 /\ guilties' = guilties
      BY <1>4, QueryType DEF NewEntry, TablesTypeOK
    <2>4. Fine(e, next + 1)
      BY <1>0, <2>2, <2>3
    <2>. HIDE DEF e
    <2>5. \A k \in DOMAIN newlist' : \/ k \in DOMAIN newlist /\ newlist'[k] = newlist[k]
                                     \/ newlist'[k] = e
      BY <1>0, <2>1
    <2>6. \A k \in DOMAIN newlist' : Fine(newlist'[k], next + 1)
      <3>. HIDE DEF Fine
      <3>. QED BY <1>1, <1>2, <2>4, <2>5
    <2>. QED
      BY <2>3, <2>6 DEF CellsInv
  <1>5. CASE OtherBuild
    <2>1. newlist' = newlist /\ guilties' = guilties /\ next' = next + 1
      BY <1>5 DEF OtherBuild
    <2>2. \A k \in DOMAIN newlist : Fine(newlist[k], next + 1)
      <3>. HIDE DEF Fine
      <3>. QED BY <1>1, <1>2
    <2>. QED
      BY <2>1, <2>2 DEF CellsInv
  <1>6. CASE UNCHANGED tables_vars
    BY <1>6 DEF tables_vars, CellsInv
  <1>. QED
    BY <1>3, <1>4, <1>5, <1>6 DEF TablesNext

LEMMA TablesInvInit == TablesInit => TablesInv
  <1>. SUFFICES ASSUME TablesInit PROVE TablesInv
    OBVIOUS
  <1>1. TablesTypeOK
    BY TablesTypeInit
  <1>2. DOMAIN newlist = {}
    BY DEF TablesInit
  <1>3. Added(next) = {}
    BY QueryType DEF TablesInit, Added, WantedRows
  <1>4. SumOver(Totals(newlist)) = 0 /\ SumOver(RowCounts(Added(next))) = 0
    <2>1. Totals(newlist) \in [{} -> Nat]
      BY <1>2 DEF Totals
    <2>2. RowCounts(Added(next)) \in [{} -> Nat]
      BY <1>3 DEF RowCounts
    <2>. QED
      BY <2>1, <2>2, SumEmpty
  <1>. QED
    BY <1>1, <1>2, <1>4 DEF TablesInv, TotalsInv, CellsInv

LEMMA TablesInvHolds == TablesSpec => []TablesInv
  <1>1. TablesInv /\ [TablesNext]_tables_vars => TablesInv'
    BY TablesTypeStep, TotalsStep, CellsStep DEF TablesInv
  <1>. QED
    BY <1>1, TablesInvInit, PTL DEF TablesSpec

-----------------------------------------------------------------------------
(* The table                                                               *)
LEMMA TablePermutes ==
  ASSUME TablesTypeOK
  PROVE  \E p \in [DOMAIN newlist -> DOMAIN newlist] :
             /\ Table = [k \in DOMAIN newlist |-> newlist[p[k]]]
             /\ \A i, j \in DOMAIN newlist : p[i] = p[j] => i = j
             /\ \A i \in DOMAIN newlist : \E k \in DOMAIN newlist : p[k] = i
  <1>1. newlist \in Seq(EntryType)
    BY DEF TablesTypeOK, EntryType, CellType
  <1>. DEFINE key == [i \in DOMAIN newlist |-> newlist[i].total]
  <1>2. key \in [DOMAIN newlist -> Nat]
    BY <1>1, TotalsType
  <1>3. Table = SortedBy(newlist, key)
    BY DEF Table
  <1>. HIDE DEF key
  <1>4. PICK p \in [DOMAIN newlist -> DOMAIN newlist] :
             /\ SortedBy(newlist, key) = [k \in DOMAIN newlist |-> newlist[p[k]]]
             /\ \A i, j \in DOMAIN newlist : p[i] = p[j] => i = j
             /\ \A i \in DOMAIN newlist : \E k \in DOMAIN newlist : p[k] = i
             /\ \A i, j \in DOMAIN newlist : i < j => key[p[i]] >= key[p[j]]
    BY <1>1, <1>2, SortedByPermutes
  <1>. QED
    BY <1>3, <1>4

(* The loop over the rows of the query keeps the types, and a guilty has   *)
(* one entry, whatever the order of the rows (crash.py:257-276, 287-325).  *)
THEOREM TablesTypeCorrect == TablesSpec => []TablesTypeOK
  <1>1. TablesInv => TablesTypeOK
    BY DEF TablesInv
  <1>. QED
    BY <1>1, TablesInvHolds, PTL

(* The table has as many crashes as the rows of the query that the filter  *)
(* takes, whatever the rows are and however often a guilty comes up.       *)
THEOREM Conserved == TablesSpec => []TotalsConserved
  <1>1. TablesInv => TotalsConserved
    <2>. SUFFICES ASSUME TablesInv, Done PROVE
            SumOver([i \in DOMAIN Table |-> Table[i].total])
                = SumOver([i \in WantedRows |-> guilties[i].count])
      BY DEF TotalsConserved
    <2>1. TablesTypeOK /\ SumOver(Totals(newlist)) = SumOver(RowCounts(Added(next)))
      BY DEF TablesInv, TotalsInv
    <2>2. newlist \in Seq(EntryType)
      BY <2>1 DEF TablesTypeOK, EntryType, CellType
    <2>. DEFINE S == DOMAIN newlist
                f == Totals(newlist)
    <2>3. PICK p \in [S -> S] :
             /\ Table = [k \in S |-> newlist[p[k]]]
             /\ \A i, j \in S : p[i] = p[j] => i = j
             /\ \A i \in S : \E k \in S : p[k] = i
      BY <2>1, TablePermutes
    <2>4. [i \in DOMAIN Table |-> Table[i].total] = [k \in S |-> f[p[k]]]
      BY <2>3 DEF Totals
    <2>5. f \in [S -> Nat] /\ IsFiniteSet(S)
      BY <2>2, TotalsType, SeqDomain
    <2>6. Added(next) = WantedRows
      <3>1. \A i \in DOMAIN guilties : i < next
        BY <2>1, QueryType DEF Done, TablesTypeOK
      <3>. QED
        BY <3>1 DEF Added, WantedRows
    <2>. HIDE DEF S, f
    <2>7. SumOver([k \in S |-> f[p[k]]]) = SumOver(f)
      BY <2>3, <2>5, SumPermuted
    <2>. QED
      BY <2>1, <2>4, <2>6, <2>7 DEF RowCounts, f
  <1>. QED
    BY <1>1, TablesInvHolds, PTL

(* The total the table is sorted by is the sum of the counts its cells     *)
(* show, for every row.                                                    *)
THEOREM AddUp == TablesSpec => []TotalsAddUp
  <1>1. TablesInv => TotalsAddUp
    <2>. SUFFICES ASSUME TablesInv, NEW i \in DOMAIN Table
                  PROVE  Table[i].total = SumOver(Counts(Table[i].builds))
      BY DEF TotalsAddUp, Counts
    <2>1. PICK p \in [DOMAIN newlist -> DOMAIN newlist] :
             Table = [k \in DOMAIN newlist |-> newlist[p[k]]]
      BY TablePermutes DEF TablesInv
    <2>2. p[i] \in DOMAIN newlist /\ Table[i] = newlist[p[i]]
      BY <2>1
    <2>. QED
      BY <2>2 DEF TablesInv, TotalsInv
  <1>. QED
    BY <1>1, TablesInvHolds, PTL

LEMMA Inserted ==
  \A s \in Seq(CellType), k \in Nat, c \in CellType :
      k \in 1..(Len(s) + 1) =>
          /\ InsertAt(s, k, c) \in Seq(CellType)
          /\ Len(InsertAt(s, k, c)) = Len(s) + 1
          /\ \A i \in 1..(k - 1) : InsertAt(s, k, c)[i] = s[i]
          /\ InsertAt(s, k, c)[k] = c
          /\ \A i \in (k + 1)..(Len(s) + 1) : InsertAt(s, k, c)[i] = s[i - 1]
  <1>1. SUFFICES ASSUME NEW s, s \in Seq(CellType), NEW k \in Nat, NEW c, c \in CellType,
                        k \in 1..(Len(s) + 1)
                 PROVE  /\ InsertAt(s, k, c) \in Seq(CellType)
                        /\ Len(InsertAt(s, k, c)) = Len(s) + 1
                        /\ \A i \in 1..(k - 1) : InsertAt(s, k, c)[i] = s[i]
                        /\ InsertAt(s, k, c)[k] = c
                        /\ \A i \in (k + 1)..(Len(s) + 1) : InsertAt(s, k, c)[i] = s[i - 1]
    OBVIOUS
  <1>. DEFINE a == SubSeq(s, 1, k - 1)
              b == SubSeq(s, k, Len(s))
  <1>2. a \in Seq(CellType) /\ Len(a) = k - 1 /\ \A i \in 1..(k - 1) : a[i] = s[i]
    BY <1>1
  <1>3. b \in Seq(CellType) /\ Len(b) = Len(s) + 1 - k
        /\ \A i \in 1..(Len(s) + 1 - k) : b[i] = s[k + i - 1]
    BY <1>1
  <1>4. InsertAt(s, k, c) = (a \o <<c>>) \o b
    BY DEF InsertAt
  <1>. HIDE DEF a, b
  <1>5. Len(s) \in Nat
    BY <1>1
  <1>. DEFINE d == a \o <<c>>
  <1>6. d \in Seq(CellType) /\ Len(d) = k /\ d[k] = c /\ \A i \in 1..(k - 1) : d[i] = s[i]
    BY <1>1, <1>2
  <1>. HIDE DEF d
  <1>. DEFINE e == d \o b
  <1>7. e \in Seq(CellType) /\ Len(e) = Len(s) + 1 /\ (\A i \in 1..k : e[i] = d[i])
        /\ \A i \in (k + 1)..(Len(s) + 1) : e[i] = b[i - k]
    BY <1>1, <1>3, <1>5, <1>6
  <1>8. e = InsertAt(s, k, c)
    BY <1>4 DEF d
  <1>. HIDE DEF e
  <1>9. e[k] = c /\ \A i \in 1..(k - 1) : e[i] = s[i]
    BY <1>1, <1>6, <1>7
  <1>10. ASSUME NEW i \in (k + 1)..(Len(s) + 1) PROVE e[i] = s[i - 1]
    <2>1. i - k \in 1..(Len(s) + 1 - k) /\ k + (i - k) - 1 = i - 1
      BY <1>1, <1>5
    <2>. QED
      BY <1>3, <1>7, <2>1
  <1>. QED
    BY <1>7, <1>8, <1>9, <1>10

(* The builds of the table: finitely many, those of the cells.             *)
LEMMA BuildSetFinite ==
  ASSUME newlist \in Seq(EntryType)
  PROVE  /\ BuildSet \in SUBSET Build
         /\ IsFiniteSet(BuildSet)
         /\ \A i \in DOMAIN newlist : \A k \in DOMAIN newlist[i].builds :
                newlist[i].builds[k].build \in BuildSet
  <1>. DEFINE D == DOMAIN newlist
              T == {Range(newlist[i].builds) : i \in D}
              U == UNION T
              of == [i \in D |-> Range(newlist[i].builds)]
              bu == [c \in U |-> c.build]
  <1>1. \A i \in D : newlist[i].builds \in Seq(CellType)
    <2>1. \A i \in D : newlist[i] \in EntryType
      OBVIOUS
    <2>. QED
      BY <2>1 DEF EntryType
  <1>2. ASSUME NEW i \in D
        PROVE  IsFiniteSet(Range(newlist[i].builds)) /\ Range(newlist[i].builds) \subseteq CellType
    <2>. DEFINE c == newlist[i].builds
    <2>1. c \in Seq(CellType)
      BY <1>1
    <2>. HIDE DEF c
    <2>2. IsFiniteSet(DOMAIN c) /\ \A k \in DOMAIN c : c[k] \in CellType
      BY <2>1, SeqDomain
    <2>3. [k \in DOMAIN c |-> c[k]] \in Surjection(DOMAIN c, Range(c))
      BY DEF Surjection, Range
    <2>4. IsFiniteSet(Range(c)) /\ Range(c) \subseteq CellType
      BY <2>2, <2>3, FS_Surjection DEF Range
    <2>. QED
      BY <2>4 DEF c
  <1>3. IsFiniteSet(T)
    <2>1. of \in Surjection(D, T)
      BY DEF Surjection
    <2>2. IsFiniteSet(D)
      BY SeqDomain
    <2>. QED
      BY <2>1, <2>2, FS_Surjection
  <1>4. IsFiniteSet(U) /\ U \subseteq CellType
    <2>1. \A X \in T : IsFiniteSet(X) /\ X \subseteq CellType
      BY <1>2
    <2>. HIDE DEF T
    <2>. QED
      BY <1>3, <2>1, FS_UNION
  <1>5. BuildSet = {c.build : c \in U}
    BY DEF BuildSet
  <1>. HIDE DEF U
  <1>6. bu \in Surjection(U, BuildSet)
    BY <1>5 DEF Surjection
  <1>7. IsFiniteSet(BuildSet) /\ BuildSet \in SUBSET Build
    BY <1>4, <1>5, <1>6, FS_Surjection DEF CellType
  <1>8. ASSUME NEW i \in D, NEW k \in DOMAIN newlist[i].builds
        PROVE  newlist[i].builds[k].build \in BuildSet
    <2>1. newlist[i].builds[k] \in U
      BY DEF U, Range
    <2>. QED
      BY <1>5, <2>1
  <1>. QED
    BY <1>7, <1>8

(* The list of builds has each of them once, whatever its order.           *)
LEMMA BuildListType ==
  ASSUME newlist \in Seq(EntryType), NEW buildlist \in BuildLists
  PROVE  /\ buildlist \in Seq(Build)
         /\ \A k, l \in DOMAIN buildlist : buildlist[k] = buildlist[l] => k = l
         /\ \A b : b \in BuildSet <=> \E k \in DOMAIN buildlist : buildlist[k] = b
  <1>1. PICK bs \in SetToSeqs(BuildSet) :
            buildlist = SortedBy(bs, [k \in DOMAIN bs |-> FirstDigit[bs[k]]])
    BY DEF BuildLists
  <1>. DEFINE n == Cardinality(BuildSet)
              key == [k \in DOMAIN bs |-> FirstDigit[bs[k]]]
  <1>2. BuildSet \in SUBSET Build /\ IsFiniteSet(BuildSet) /\ n \in Nat
    BY BuildSetFinite, FS_CardinalityType
  <1>3. bs \in [1..n -> BuildSet] /\ \A i, j \in 1..n : i # j => bs[i] # bs[j]
    BY DEF SetToSeqs
  <1>4. \A b \in BuildSet : \E k \in 1..n : bs[k] = b
    <2>1. bs \in Injection(1..n, BuildSet)
      BY <1>3 DEF Injection, IsInjective
    <2>2. Cardinality(1..n) = n
      <3>. HIDE DEF n
      <3>. QED BY <1>2, FS_Interval
    <2>3. bs \in Surjection(1..n, BuildSet)
      BY <1>2, <2>1, <2>2, FS_Injection
    <2>. QED
      BY <2>3 DEF Surjection
  <1>. HIDE DEF n
  <1>5. bs \in Seq(Build) /\ DOMAIN bs = 1..n
    BY <1>2, <1>3
  <1>6. key \in [DOMAIN bs -> Nat]
    <2>1. \A k \in DOMAIN bs : bs[k] \in Build
      BY <1>2, <1>3
    <2>2. ASSUME NEW b \in Build PROVE FirstDigit[b] \in Nat
      <3>1. FirstDigit[b] \in 0..9
        BY TableAssumption
      <3>. QED
        BY <3>1
    <2>. QED
      BY <2>1, <2>2
  <1>7. buildlist = SortedBy(bs, key)
    BY <1>1
  <1>. HIDE DEF key
  <1>8. PICK p \in [DOMAIN bs -> DOMAIN bs] :
             /\ SortedBy(bs, key) = [k \in DOMAIN bs |-> bs[p[k]]]
             /\ \A i, j \in DOMAIN bs : p[i] = p[j] => i = j
             /\ \A i \in DOMAIN bs : \E k \in DOMAIN bs : p[k] = i
             /\ \A i, j \in DOMAIN bs : i < j => key[p[i]] >= key[p[j]]
    BY <1>5, <1>6, SortedByPermutes
  <1>9. buildlist = [k \in 1..n |-> bs[p[k]]] /\ p \in [1..n -> 1..n]
    BY <1>5, <1>7, <1>8
  <1>10. buildlist \in Seq(Build) /\ DOMAIN buildlist = 1..n
    BY <1>2, <1>3, <1>9
  <1>11. \A k, l \in 1..n : buildlist[k] = buildlist[l] => k = l
    BY <1>3, <1>5, <1>8, <1>9
  <1>12. \A b : b \in BuildSet <=> \E k \in 1..n : buildlist[k] = b
    <2>1. ASSUME NEW b \in BuildSet PROVE \E k \in 1..n : buildlist[k] = b
      <3>1. PICK j \in 1..n : bs[j] = b
        BY <1>4
      <3>2. PICK k \in 1..n : p[k] = j
        BY <1>5, <1>8
      <3>. QED
        BY <1>9, <3>1, <3>2
    <2>2. ASSUME NEW k \in 1..n PROVE buildlist[k] \in BuildSet
      BY <1>3, <1>9
    <2>. QED
      BY <2>1, <2>2
  <1>. QED
    BY <1>10, <1>11, <1>12

-----------------------------------------------------------------------------
(* The cells of a row                                                      *)
Lacks(entry, b) == \A i \in DOMAIN entry.builds : entry.builds[i].build # b

Once(cells) == \A k, l \in DOMAIN cells : cells[k].build = cells[l].build => k = l

HasBuild(cells, b) == \E k \in DOMAIN cells : cells[k].build = b

(* The loop over the list of builds is well defined: its values are those  *)
(* of a function.                                                          *)
LEMMA ZerosDefined ==
  ASSUME NEW entry, NEW buildlist, Len(buildlist) \in Nat
  PROVE  \E z : /\ WithZeros(entry, buildlist) = z[Len(buildlist)]
                /\ z[0] = entry.builds
                /\ \A k \in 1..Len(buildlist) :
                       z[k] = IF Lacks(entry, buildlist[k])
                              THEN InsertZero(z[k - 1], k, buildlist[k])
                              ELSE z[k - 1]
  <1>. DEFINE a == entry.builds
              n == Len(buildlist)
              Add(c, k) == IF \E i \in DOMAIN entry.builds : entry.builds[i].build = buildlist[k]
                            THEN c
                            ELSE InsertZero(c, k, buildlist[k])
              Loop(z, m) == z = [k \in 0..m |-> IF k = 0 THEN a ELSE Add(z[k - 1], k)]
              T == {m \in 0..n : ~ \E z : Loop(z, m)}
  <1>1. WithZeros(entry, buildlist) = (CHOOSE z : Loop(z, n))[n]
    BY DEF WithZeros
  <1>2. \A c : \A k : Add(c, k) = IF Lacks(entry, buildlist[k])
                                   THEN InsertZero(c, k, buildlist[k]) ELSE c
    BY DEF Lacks
  <1>. HIDE DEF Add, a, n
  <1>3. n \in Nat
    BY DEF n
  <1>4. T = {}
    <2>1. SUFFICES ASSUME T # {} PROVE FALSE
      OBVIOUS
    <2>2. T \in SUBSET Nat
      BY <1>3
    <2>3. PICK m \in T : \A l \in T : m <= l
      <3>. HIDE DEF T
      <3>. QED BY <2>1, <2>2, Least
    <2>4. m \in Nat /\ m \in 0..n /\ ~ \E z : Loop(z, m)
      BY <2>2
    <2>5. m # 0
      <3>1. SUFFICES ASSUME m = 0 PROVE FALSE
        OBVIOUS
      <3>2. Loop([k \in 0..0 |-> a], 0)
        OBVIOUS
      <3>. QED
        BY <2>4, <3>1, <3>2
    <2>6. m - 1 \in 0..n /\ ~(m <= m - 1)
      BY <1>3, <2>4, <2>5
    <2>7. PICK z : Loop(z, m - 1)
      <3>1. m - 1 \notin T
        BY <2>3, <2>6
      <3>. HIDE DEF Loop
      <3>. QED BY <2>6, <3>1
    <2>. DEFINE w == [k \in 0..m |-> IF k = 0 THEN a ELSE Add(z[k - 1], k)]
    <2>8. ASSUME NEW k \in 0..m
          PROVE  w[k] = IF k = 0 THEN a ELSE Add(w[k - 1], k)
      <3>1. CASE k = 0
        BY <3>1
      <3>2. CASE k # 0
        <4>1. k - 1 \in 0..(m - 1) /\ k - 1 \in 0..m
          BY <2>4, <3>2
        <4>2. z[k - 1] = w[k - 1]
          BY <2>7, <4>1
        <4>. QED
          BY <3>2, <4>2
      <3>. QED
        BY <3>1, <3>2
    <2>9. w = [k \in 0..m |-> IF k = 0 THEN a ELSE Add(w[k - 1], k)]
      <3>. DEFINE v == [k \in 0..m |-> IF k = 0 THEN a ELSE Add(w[k - 1], k)]
      <3>1. \A k \in 0..m : w[k] = v[k]
        BY <2>8
      <3>2. w = [k \in 0..m |-> w[k]] /\ v = [k \in 0..m |-> v[k]]
        OBVIOUS
      <3>. HIDE DEF w, v
      <3>3. w = v
        BY <3>1, <3>2
      <3>. QED
        BY <3>3 DEF v
    <2>10. Loop(w, m)
      <3>. HIDE DEF w
      <3>. QED BY <2>9
    <2>. QED
      BY <2>4, <2>10
  <1>5. PICK z : Loop(z, n) /\ WithZeros(entry, buildlist) = z[n]
    <2>1. n \in 0..n
      BY <1>3
    <2>. HIDE DEF Loop
    <2>2. \E z : Loop(z, n)
      BY <1>4, <2>1
    <2>. QED
      BY <1>1, <2>2
  <1>6. z[0] = a /\ \A k \in 1..n : z[k] = Add(z[k - 1], k)
    <2>1. 0 \in 0..n
      BY <1>3
    <2>2. \A k \in 1..n : k \in 0..n /\ k # 0
      BY <1>3
    <2>. QED
      BY <1>5, <2>1, <2>2
  <1>. QED
    BY <1>2, <1>5, <1>6 DEF a, n

(* A zero for a build that is not there: the cells have it as well, once.  *)
LEMMA ZeroInserted ==
  ASSUME NEW cells, cells \in Seq(CellType), NEW k \in Nat \ {0}, NEW b \in Build,
         Once(cells), ~HasBuild(cells, b)
  PROVE  /\ InsertZero(cells, k, b) \in Seq(CellType)
         /\ Once(InsertZero(cells, k, b))
         /\ \A c : HasBuild(InsertZero(cells, k, b), c) <=> HasBuild(cells, c) \/ c = b
  <1>. DEFINE at == IF k <= Len(cells) THEN k ELSE Len(cells) + 1
              zero == [build |-> b, count |-> 0]
              s == InsertAt(cells, at, zero)
              n == Len(cells)
  <1>1. n \in Nat /\ at \in Nat /\ at \in 1..(n + 1) /\ zero \in CellType /\ zero.build = b
    BY DEF CellType
  <1>2. InsertZero(cells, k, b) = s
    BY DEF InsertZero
  <1>. HIDE DEF at, zero
  <1>3. /\ s \in Seq(CellType)
        /\ Len(s) = n + 1
        /\ \A i \in 1..(at - 1) : s[i] = cells[i]
        /\ s[at] = zero
        /\ \A i \in (at + 1)..(n + 1) : s[i] = cells[i - 1]
    BY <1>1, Inserted
  <1>4. DOMAIN cells = 1..n
    OBVIOUS
  <1>. HIDE DEF s, n
  <1>5. DOMAIN s = 1..(n + 1)
    BY <1>3
  <1>6. ASSUME NEW i \in DOMAIN s
        PROVE  \/ i = at
               \/ i < at /\ i \in DOMAIN cells /\ s[i] = cells[i]
               \/ i > at /\ i - 1 \in DOMAIN cells /\ s[i] = cells[i - 1]
    <2>1. i \in 1..(n + 1)
      BY <1>5
    <2>2. CASE i < at
      <3>1. i \in 1..(at - 1) /\ i \in 1..n
        BY <1>1, <2>1, <2>2
      <3>. QED
        BY <1>3, <1>4, <2>2, <3>1
    <2>3. CASE i > at
      <3>1. i \in (at + 1)..(n + 1) /\ i - 1 \in 1..n
        BY <1>1, <2>1, <2>3
      <3>. QED
        BY <1>3, <1>4, <2>3, <3>1
    <2>. QED
      BY <1>1, <2>1, <2>2, <2>3
  <1>7. ASSUME NEW j \in DOMAIN cells
        PROVE  \E i \in DOMAIN s : s[i] = cells[j]
    <2>1. j \in 1..n
      BY <1>4
    <2>2. CASE j < at
      <3>1. j \in 1..(at - 1) /\ j \in DOMAIN s
        BY <1>1, <1>5, <2>1, <2>2
      <3>. QED
        BY <1>3, <3>1
    <2>3. CASE j >= at
      <3>1. j + 1 \in (at + 1)..(n + 1) /\ j + 1 \in DOMAIN s /\ (j + 1) - 1 = j
        BY <1>1, <1>5, <2>1, <2>3
      <3>2. s[j + 1] = cells[(j + 1) - 1]
        BY <1>3, <3>1
      <3>. QED
        BY <3>1, <3>2
    <2>. QED
      BY <1>1, <2>1, <2>2, <2>3
  <1>8. \A j \in DOMAIN cells : cells[j].build # b
    BY DEF HasBuild
  <1>9. at \in DOMAIN s /\ s[at].build = b
    BY <1>1, <1>3, <1>5
  <1>10. Once(s)
    <2>1. SUFFICES ASSUME NEW i \in DOMAIN s, NEW j \in DOMAIN s, s[i].build = s[j].build
                   PROVE  i = j
      BY DEF Once
    <2>2. i \in Int /\ j \in Int /\ at \in Int
      BY <1>1, <1>5
    <2>3. CASE i = at
      BY <1>6, <1>8, <1>9, <2>1, <2>3
    <2>4. CASE j = at
      BY <1>6, <1>8, <1>9, <2>1, <2>4
    <2>5. CASE i # at /\ j # at
      <3>1. \A x, y \in DOMAIN cells : cells[x].build = cells[y].build => x = y
        BY DEF Once
      <3>2. PICK x \in DOMAIN cells : s[i] = cells[x]
                 /\ ((x = i /\ i < at) \/ (x = i - 1 /\ i > at))
        <4>1. CASE i < at
          BY <1>6, <2>2, <2>5, <4>1
        <4>2. CASE i > at
          BY <1>6, <2>2, <2>5, <4>2
        <4>. QED
          BY <2>2, <2>5, <4>1, <4>2
      <3>3. PICK y \in DOMAIN cells : s[j] = cells[y]
                 /\ ((y = j /\ j < at) \/ (y = j - 1 /\ j > at))
        <4>1. CASE j < at
          BY <1>6, <2>2, <2>5, <4>1
        <4>2. CASE j > at
          BY <1>6, <2>2, <2>5, <4>2
        <4>. QED
          BY <2>2, <2>5, <4>1, <4>2
      <3>4. x = y
        BY <2>1, <3>1, <3>2, <3>3
      <3>. QED
        BY <2>2, <3>2, <3>3, <3>4
    <2>. QED
      BY <2>3, <2>4, <2>5
  <1>11. ASSUME NEW c
         PROVE  HasBuild(s, c) <=> HasBuild(cells, c) \/ c = b
    <2>1. ASSUME HasBuild(s, c) PROVE HasBuild(cells, c) \/ c = b
      BY <1>6, <1>9, <2>1 DEF HasBuild
    <2>2. ASSUME HasBuild(cells, c) PROVE HasBuild(s, c)
      BY <1>7, <2>2 DEF HasBuild
    <2>3. ASSUME c = b PROVE HasBuild(s, c)
      BY <1>9, <2>3 DEF HasBuild
    <2>. QED
      BY <2>1, <2>2, <2>3
  <1>. QED
    BY <1>2, <1>3, <1>10, <1>11

(* After the loop the cells have the builds of the entry and of the list,  *)
(* each once.                                                              *)
LEMMA ZerosFill ==
  ASSUME NEW entry, entry.builds \in Seq(CellType), Once(entry.builds),
         NEW buildlist, buildlist \in Seq(Build),
         \A k, l \in DOMAIN buildlist : buildlist[k] = buildlist[l] => k = l
  PROVE  /\ WithZeros(entry, buildlist) \in Seq(CellType)
         /\ Once(WithZeros(entry, buildlist))
         /\ \A b : HasBuild(WithZeros(entry, buildlist), b) <=>
                \/ HasBuild(entry.builds, b)
                \/ \E k \in DOMAIN buildlist : buildlist[k] = b
  <1>. DEFINE n == Len(buildlist)
              Good(c, k) == /\ c \in Seq(CellType)
                            /\ Once(c)
                            /\ \A b : HasBuild(c, b) <=>
                                   \/ HasBuild(entry.builds, b)
                                   \/ \E j \in 1..k : buildlist[j] = b
  <1>1. n \in Nat /\ DOMAIN buildlist = 1..n /\ \A k \in 1..n : buildlist[k] \in Build
    OBVIOUS
  <1>2. PICK z : /\ WithZeros(entry, buildlist) = z[n]
                 /\ z[0] = entry.builds
                 /\ \A k \in 1..n :
                       z[k] = IF Lacks(entry, buildlist[k])
                              THEN InsertZero(z[k - 1], k, buildlist[k])
                              ELSE z[k - 1]
    BY <1>1, ZerosDefined
  <1>3. \A k, l \in 1..n : buildlist[k] = buildlist[l] => k = l
    BY <1>1
  <1>. HIDE DEF n
  <1>4. Good(z[0], 0)
    <2>1. \A b : ~ \E j \in 1..0 : buildlist[j] = b
      OBVIOUS
    <2>. QED
      BY <1>2, <2>1
  <1>5. ASSUME NEW k \in 1..n, Good(z[k - 1], k - 1)
        PROVE  Good(z[k], k)
    <2>. DEFINE c == z[k - 1]
                b == buildlist[k]
    <2>1. k \in Nat \ {0} /\ b \in Build /\ k - 1 \in Nat /\ k - 1 \in 0..n
      BY <1>1
    <2>2. \A d : (\E j \in 1..k : buildlist[j] = d)
                    <=> ((\E j \in 1..(k - 1) : buildlist[j] = d) \/ d = b)
      <3>1. 1..k = 1..(k - 1) \cup {k}
        BY <2>1
      <3>. QED
        BY <3>1
    <2>3. c \in Seq(CellType) /\ Once(c)
          /\ \A d : HasBuild(c, d) <=> (HasBuild(entry.builds, d)
                                        \/ \E j \in 1..(k - 1) : buildlist[j] = d)
      BY <1>5
    <2>4. CASE Lacks(entry, b)
      <3>1. z[k] = InsertZero(c, k, b)
        BY <1>2, <2>4
      <3>2. ~HasBuild(c, b)
        <4>1. ~HasBuild(entry.builds, b)
          BY <2>4 DEF Lacks, HasBuild
        <4>2. \A j \in 1..(k - 1) : j \in 1..n /\ j # k
          BY <1>1, <2>1
        <4>3. ~ \E j \in 1..(k - 1) : buildlist[j] = b
          BY <1>3, <4>2
        <4>. QED
          BY <2>3, <4>1, <4>3
      <3>. HIDE DEF b, c
      <3>3. /\ z[k] \in Seq(CellType)
            /\ Once(z[k])
            /\ \A d : HasBuild(z[k], d) <=> HasBuild(c, d) \/ d = b
        BY <2>1, <2>3, <3>1, <3>2, ZeroInserted
      <3>. QED
        BY <2>2, <2>3, <3>3 DEF b
    <2>5. CASE ~Lacks(entry, b)
      <3>1. z[k] = c
        BY <1>2, <2>5
      <3>2. HasBuild(entry.builds, b)
        BY <2>5 DEF Lacks, HasBuild
      <3>. HIDE DEF b, c
      <3>. QED
        BY <2>2, <2>3, <3>1, <3>2 DEF b
    <2>. QED
      BY <2>4, <2>5
  <1>. HIDE DEF Good
  <1>6. \A k \in 0..n : Good(z[k], k)
    <2>. DEFINE T == {k \in 0..n : ~Good(z[k], k)}
    <2>1. SUFFICES ASSUME T # {} PROVE FALSE
      OBVIOUS
    <2>2. T \in SUBSET Nat
      BY <1>1
    <2>3. PICK k \in T : \A l \in T : k <= l
      <3>. HIDE DEF T
      <3>. QED BY <2>1, <2>2, Least
    <2>4. k \in 0..n /\ ~Good(z[k], k)
      OBVIOUS
    <2>5. k \in 1..n
      BY <1>4, <2>4
    <2>6. k - 1 \in 0..n /\ ~(k <= k - 1)
      BY <1>1, <2>5
    <2>7. Good(z[k - 1], k - 1)
      BY <2>3, <2>6
    <2>. QED
      BY <1>5, <2>4, <2>5, <2>7
  <1>7. n \in 0..n
    BY <1>1
  <1>8. Good(z[n], n)
    BY <1>6, <1>7
  <1>. QED
    BY <1>1, <1>2, <1>8 DEF Good

(* Sorted by the number of the build, cells that have a build once are in  *)
(* the order of the numbers, and the builds are the same.                  *)
LEMMA CellsSorted ==
  ASSUME Distinct, NEW cells, cells \in Seq(CellType), Once(cells)
  PROVE  LET s == SortedCells(cells)
         IN  /\ DOMAIN s = 1..Len(cells)
             /\ \A k \in DOMAIN s : s[k].build \in Build
             /\ \A i, j \in DOMAIN s : i < j => Number[s[i].build] > Number[s[j].build]
             /\ \A b : HasBuild(s, b) <=> HasBuild(cells, b)
  <1>. DEFINE key == [k \in DOMAIN cells |-> Number[cells[k].build]]
              D == DOMAIN cells
              s == SortedCells(cells)
  <1>1. \A k \in D : cells[k].build \in Build
    <2>1. \A k \in D : cells[k] \in CellType
      OBVIOUS
    <2>. QED
      BY <2>1 DEF CellType
  <1>2. \A b \in Build : Number[b] \in Nat
    BY TableAssumption
  <1>3. key \in [D -> Nat]
    BY <1>1, <1>2
  <1>4. s = SortedBy(cells, key)
    BY DEF SortedCells
  <1>5. \A k \in D : key[k] = Number[cells[k].build]
    OBVIOUS
  <1>. HIDE DEF key, s
  <1>6. PICK p \in [D -> D] :
            /\ SortedBy(cells, key) = [k \in D |-> cells[p[k]]]
            /\ \A i, j \in D : p[i] = p[j] => i = j
            /\ \A i \in D : \E k \in D : p[k] = i
            /\ \A i, j \in D : i < j => key[p[i]] >= key[p[j]]
    BY <1>3, SortedByPermutes
  <1>7. s = [k \in D |-> cells[p[k]]] /\ D = 1..Len(cells)
    BY <1>4, <1>6
  <1>. HIDE DEF D
  <1>8. \A k \in D : p[k] \in D /\ s[k] = cells[p[k]]
    BY <1>6, <1>7
  <1>9. ASSUME NEW i \in D, NEW j \in D, i < j
        PROVE  Number[s[i].build] > Number[s[j].build]
    <2>1. i \in Nat /\ j \in Nat
      BY <1>7
    <2>2. p[i] # p[j]
      BY <1>6, <1>9, <2>1
    <2>3. cells[p[i]].build # cells[p[j]].build
      BY <1>8, <2>2 DEF Once, D
    <2>4. Number[cells[p[i]].build] # Number[cells[p[j]].build]
      BY <1>1, <1>8, <2>3 DEF Distinct
    <2>5. Number[cells[p[i]].build] >= Number[cells[p[j]].build]
      BY <1>5, <1>6, <1>8, <1>9
    <2>6. Number[cells[p[i]].build] \in Nat /\ Number[cells[p[j]].build] \in Nat
      BY <1>1, <1>2, <1>8
    <2>. QED
      BY <1>8, <2>4, <2>5, <2>6
  <1>10. ASSUME NEW b PROVE HasBuild(s, b) <=> HasBuild(cells, b)
    <2>1. DOMAIN s = D
      BY <1>7
    <2>2. (\E k \in D : s[k].build = b) <=> (\E k \in D : cells[k].build = b)
      BY <1>6, <1>8
    <2>. QED
      BY <2>1, <2>2 DEF HasBuild, D
  <1>11. \A k \in D : s[k].build \in Build
    BY <1>1, <1>8
  <1>12. DOMAIN s = D
    BY <1>7
  <1>. QED
    BY <1>7, <1>9, <1>10, <1>11, <1>12 DEF s

LEMMA HeaderSorted ==
  ASSUME Distinct, NEW buildlist, buildlist \in Seq(Build),
         \A k, l \in DOMAIN buildlist : buildlist[k] = buildlist[l] => k = l
  PROVE  LET s == Header(buildlist)
         IN  /\ s \in [1..Len(buildlist) -> Build]
             /\ \A i, j \in DOMAIN s : i < j => Number[s[i]] > Number[s[j]]
             /\ \A b : (\E k \in DOMAIN s : s[k] = b) <=> \E k \in DOMAIN buildlist : buildlist[k] = b
  <1>. DEFINE key == [k \in DOMAIN buildlist |-> Number[buildlist[k]]]
              D == DOMAIN buildlist
              s == Header(buildlist)
  <1>1. \A k \in D : buildlist[k] \in Build
    OBVIOUS
  <1>2. \A b \in Build : Number[b] \in Nat
    BY TableAssumption
  <1>3. key \in [D -> Nat]
    BY <1>1, <1>2
  <1>4. s = SortedBy(buildlist, key)
    BY DEF Header
  <1>5. \A k \in D : key[k] = Number[buildlist[k]]
    OBVIOUS
  <1>. HIDE DEF key, s
  <1>6. PICK p \in [D -> D] :
            /\ SortedBy(buildlist, key) = [k \in D |-> buildlist[p[k]]]
            /\ \A i, j \in D : p[i] = p[j] => i = j
            /\ \A i \in D : \E k \in D : p[k] = i
            /\ \A i, j \in D : i < j => key[p[i]] >= key[p[j]]
    BY <1>3, SortedByPermutes
  <1>7. s = [k \in D |-> buildlist[p[k]]] /\ D = 1..Len(buildlist)
    BY <1>4, <1>6
  <1>13. \A k, l \in D : buildlist[k] = buildlist[l] => k = l
    OBVIOUS
  <1>. HIDE DEF D
  <1>8. \A k \in D : p[k] \in D /\ s[k] = buildlist[p[k]]
    BY <1>6, <1>7
  <1>9. ASSUME NEW i \in D, NEW j \in D, i < j
        PROVE  Number[s[i]] > Number[s[j]]
    <2>1. i \in Nat /\ j \in Nat
      BY <1>7
    <2>2. p[i] # p[j]
      BY <1>6, <1>9, <2>1
    <2>3. buildlist[p[i]] # buildlist[p[j]]
      BY <1>8, <1>13, <2>2
    <2>4. Number[buildlist[p[i]]] # Number[buildlist[p[j]]]
      BY <1>1, <1>8, <2>3 DEF Distinct
    <2>5. Number[buildlist[p[i]]] >= Number[buildlist[p[j]]]
      BY <1>5, <1>6, <1>8, <1>9
    <2>6. Number[buildlist[p[i]]] \in Nat /\ Number[buildlist[p[j]]] \in Nat
      BY <1>1, <1>2, <1>8
    <2>. QED
      BY <1>8, <2>4, <2>5, <2>6
  <1>10. ASSUME NEW b PROVE (\E k \in D : s[k] = b) <=> (\E k \in D : buildlist[k] = b)
    BY <1>6, <1>8
  <1>11. s \in [D -> Build] /\ DOMAIN s = D
    BY <1>1, <1>7, <1>8
  <1>. QED
    BY <1>7, <1>9, <1>10, <1>11 DEF s, D

(* Every cell of every row stands under its build: whatever order the set  *)
(* of builds comes in, the zeros that fill the gaps and the sort by number *)
(* give each row the columns of the header (crash.py:326-347).             *)
THEOREM Columns == TablesSpec => []ColumnsAligned
  <1>1. TablesInv => ColumnsAligned
    <2>. SUFFICES ASSUME TablesInv, Distinct, NEW buildlist \in BuildLists,
                         NEW i \in DOMAIN Table
                  PROVE  LET cells == Cells(Table[i], buildlist)
                         IN  [k \in DOMAIN cells |-> cells[k].build] = Header(buildlist)
      BY DEF ColumnsAligned, Aligned
    <2>. DEFINE full == WithZeros(Table[i], buildlist)
                cells == SortedCells(full)
                f == [k \in DOMAIN cells |-> cells[k].build]
                g == Header(buildlist)
                m == Len(full)
                n == Len(buildlist)
    <2>1. newlist \in Seq(EntryType)
      BY DEF TablesInv, TablesTypeOK, EntryType, CellType
    <2>2. PICK x \in DOMAIN newlist : Table[i] = newlist[x]
      <3>1. PICK p \in [DOMAIN newlist -> DOMAIN newlist] :
               Table = [k \in DOMAIN newlist |-> newlist[p[k]]]
        BY TablePermutes DEF TablesInv
      <3>2. p[i] \in DOMAIN newlist /\ Table[i] = newlist[p[i]]
        BY <3>1
      <3>. QED
        BY <3>2
    <2>3. Table[i].builds \in Seq(CellType) /\ Once(Table[i].builds)
      <3>1. newlist[x] \in EntryType
        BY <2>1
      <3>2. Once(newlist[x].builds)
        BY DEF TablesInv, CellsInv, Once
      <3>. QED
        BY <2>2, <3>1, <3>2 DEF EntryType
    <2>4. \A b : HasBuild(Table[i].builds, b) => b \in BuildSet
      BY <2>1, <2>2, BuildSetFinite DEF HasBuild
    <2>5. /\ buildlist \in Seq(Build)
          /\ \A k, l \in DOMAIN buildlist : buildlist[k] = buildlist[l] => k = l
          /\ \A b : b \in BuildSet <=> \E k \in DOMAIN buildlist : buildlist[k] = b
      BY <2>1, BuildListType
    <2>6. full \in Seq(CellType) /\ Once(full)
          /\ \A b : HasBuild(full, b) <=>
                \/ HasBuild(Table[i].builds, b)
                \/ \E k \in DOMAIN buildlist : buildlist[k] = b
      <3>. DEFINE entry == Table[i]
      <3>1. entry.builds \in Seq(CellType) /\ Once(entry.builds)
        BY <2>3
      <3>. HIDE DEF entry
      <3>2. WithZeros(entry, buildlist) \in Seq(CellType)
            /\ Once(WithZeros(entry, buildlist))
            /\ \A b : HasBuild(WithZeros(entry, buildlist), b) <=>
                   \/ HasBuild(entry.builds, b)
                   \/ \E k \in DOMAIN buildlist : buildlist[k] = b
        BY <2>5, <3>1, ZerosFill
      <3>. QED
        BY <3>2 DEF entry
    <2>7. Cells(Table[i], buildlist) = cells
      BY DEF Cells
    <2>. HIDE DEF full
    <2>8. /\ DOMAIN cells = 1..m
          /\ \A k \in DOMAIN cells : cells[k].build \in Build
          /\ \A a, b \in DOMAIN cells : a < b => Number[cells[a].build] > Number[cells[b].build]
          /\ \A b : HasBuild(cells, b) <=> HasBuild(full, b)
      BY <2>6, CellsSorted
    <2>9. /\ g \in [1..n -> Build]
          /\ \A a, b \in DOMAIN g : a < b => Number[g[a]] > Number[g[b]]
          /\ \A b : (\E k \in DOMAIN g : g[k] = b) <=> \E k \in DOMAIN buildlist : buildlist[k] = b
      BY <2>5, HeaderSorted
    <2>10. m \in Nat /\ n \in Nat
      BY <2>5, <2>6
    <2>. HIDE DEF cells, g, m, n
    <2>11. f \in [1..m -> Build] /\ \A k \in 1..m : f[k] = cells[k].build
      BY <2>8
    <2>. HIDE DEF f
    <2>12. Falling(f, m, Number)
      BY <2>8, <2>11 DEF Falling
    <2>13. Falling(g, n, Number)
      BY <2>9 DEF Falling
    <2>14. Within(f, m, g, n)
      <3>1. SUFFICES ASSUME NEW a \in 1..m PROVE \E b \in 1..n : f[a] = g[b]
        BY DEF Within
      <3>2. HasBuild(full, f[a])
        BY <2>8, <2>11 DEF HasBuild
      <3>3. f[a] \in BuildSet
        BY <2>4, <2>5, <2>6, <3>2
      <3>. QED
        BY <2>5, <2>9, <3>3
    <2>15. Within(g, n, f, m)
      <3>1. SUFFICES ASSUME NEW b \in 1..n PROVE \E a \in 1..m : g[b] = f[a]
        BY DEF Within
      <3>2. \E k \in DOMAIN buildlist : buildlist[k] = g[b]
        BY <2>9
      <3>3. HasBuild(cells, g[b])
        BY <2>6, <2>8, <3>2
      <3>. QED
        BY <2>8, <2>11, <3>3 DEF HasBuild
    <2>16. Number \in [Build -> Nat]
      BY TableAssumption
    <2>17. f \in [1..m -> Build]
      BY <2>11
    <2>18. g \in [1..n -> Build]
      BY <2>9
    <2>19. f = g
      BY <2>10, <2>12, <2>13, <2>14, <2>15, <2>16, <2>17, <2>18, SameOrder
    <2>. QED
      BY <2>7, <2>19 DEF f, g
  <1>. QED
    BY <1>1, TablesInvHolds, PTL
=============================================================================
