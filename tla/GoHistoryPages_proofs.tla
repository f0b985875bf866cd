----------------------- MODULE GoHistoryPages_proofs -----------------------
(***************************************************************************)
(* Proofs about GoHistoryPages, for any number of rows and any page sizes. *)
(*                                                                         *)
(* The rank of an id among the rows that match is its position in the      *)
(* list.  The argument about a walk is in terms of ranks: while no row     *)
(* comes to match, ranks only fall, so that what was shown stays above the *)
(* next page; while no row stops matching, they only rise, so that what    *)
(* was not shown yet stays below the pages shown.                          *)
(***************************************************************************)
EXTENDS GoHistoryPages, OrderedIds_proofs, SequenceTheorems

Rank(ids, x) == Cardinality({i \in ids : i >= x})

Decreasing(s) == \A j, k \in DOMAIN s : j < k => s[j] > s[k]

-----------------------------------------------------------------------------
(***************************************************************************)
(* The inductive invariant                                                 *)
(***************************************************************************)
Polls == [id : Ids \cup {0}, status : Statuses \cup {"404"}, found : BOOLEAN]

\* A row that its sync has yet to mark says PENDING_RETRY and was not seen by a
\* retry, and a row that a retry has found FAILED never says SUCCESSFUL.
WriterInv ==
    /\ open \subseteq 1 .. seq /\ checked \subseteq 1 .. seq
    /\ \A i \in DOMAIN rows :
          /\ i \in open => rows[i] = "PENDING_RETRY" /\ i \notin checked
          /\ i \in checked => rows[i] # "SUCCESSFUL"

TableInv ==
    /\ seq \in 0 .. MaxId
    /\ DOMAIN rows \subseteq 1 .. seq
    /\ \A i \in DOMAIN rows : rows[i] \in Statuses
    /\ WriterInv

QueryInv ==
    /\ pc \in {"idle", "count", "select", "answered", "finished"}
    /\ filter \in Filters
    /\ size \in Sizes
    /\ page \in Nat \ {0}

ListInv ==
    /\ total \in 0 .. seq
    /\ content \in Seq(Ids)
    /\ shown \in Seq(Ids)
    /\ steady \subseteq Matches(rows)

FlagInv ==
    /\ last \in BOOLEAN /\ entered \in BOOLEAN /\ left \in BOOLEAN
    /\ torn \in BOOLEAN /\ thinned \in BOOLEAN

StatsInv == stats \in [DOMAIN None -> 0 .. MaxId] /\ StatsHoldUp

\* What a client has polled: a row that is SUCCESSFUL or gone stays so.
PollInv ==
    /\ polled \in Polls
    /\ polled.found => polled.id \in 1 .. seq
    /\ polled.found /\ polled.status = "404" => polled.id \notin DOMAIN rows
    /\ polled.found /\ polled.status = "SUCCESSFUL" /\ polled.id \in DOMAIN rows =>
          rows[polled.id] = "SUCCESSFUL"

\* A page that is not the last is followed by one for which there are enough rows.
PageInv ==
    /\ WalkBounded
    /\ pc = "answered" /\ ~last => page + 1 <= seq
    /\ pc = "finished" => last

\* How many places of the list have been shown.
Shift == (IF pc \in {"answered", "finished"} THEN page ELSE page - 1) * SafeSize

\* While no row comes to match, what was shown stays in the first places.
ShownInv ==
    ~entered => /\ Decreasing(shown)
                /\ \A x \in ToSet(shown) : Rank(Matches(rows), x) <= Shift

\* While no row stops matching, what is still to be shown stays behind them.
LeftInv ==
    /\ ~left /\ ~torn =>
          \A x \in steady : x \in ToSet(shown) \/ Rank(Matches(rows), x) > Shift
    /\ pc = "select" /\ ~torn => total = Cardinality(Matches(rows))
    /\ pc \in {"answered", "finished"} /\ last /\ ~left /\ ~torn => steady \subseteq ToSet(shown)

IInv == /\ TableInv /\ QueryInv /\ ListInv /\ FlagInv /\ StatsInv /\ PollInv
        /\ PageInv /\ ShownInv /\ LeftInv

-----------------------------------------------------------------------------
(***************************************************************************)
(* Numbers, ranks and slices                                               *)
(***************************************************************************)
\* The number of pages is that of the elements divided by the size, rounded up.
LEMMA Pages ==
    ASSUME NEW t \in Nat, NEW n \in Nat \ {0}, NEW q, q = (t + n - 1) \div n
    PROVE  /\ q \in Nat
           /\ t <= q * n
           /\ q <= t
<1>1. \A a \in Nat : a \div n \in Int /\ n * (a \div n) <= a /\ a < n * (a \div n) + n
  OBVIOUS
<1>2. q \in Int /\ n * q <= t + n - 1 /\ t + n - 1 < n * q + n
  <2>1. t + n - 1 \in Nat
    OBVIOUS
  <2> QED
    BY <1>1, <2>1
<1>3. n * q \in Int
  BY <1>2
<1>4. t <= n * q /\ n * q <= t + n - 1
  BY <1>2, <1>3
<1>5. q >= 0
  <2> SUFFICES ASSUME q <= -1
               PROVE  FALSE
    BY <1>2
  <2>1. n * q <= n * (-1)
    BY <1>2
  <2> QED
    BY <1>2, <1>4, <2>1
<1>6. q <= t
  <2> SUFFICES ASSUME q >= t + 1
               PROVE  FALSE
    BY <1>2
  <2>1. n * q >= n * (t + 1)
    BY <1>2
  <2>2. n * (t + 1) = n * t + n /\ n * t >= t /\ n * t \in Nat
    OBVIOUS
  <2> QED
    BY <1>2, <1>4, <2>1, <2>2
<1>7. n * q = q * n
  BY <1>2
<1> QED
  BY <1>2, <1>4, <1>5, <1>6, <1>7

\* With more rows ranks can only be greater.
LEMMA RankGrows ==
    ASSUME NEW B, IsFiniteSet(B), NEW A \in SUBSET B, NEW x
    PROVE  /\ Rank(A, x) \in Nat /\ Rank(B, x) \in Nat
           /\ Rank(A, x) <= Rank(B, x)
           /\ Rank(B, x) <= Cardinality(B)
<1> DEFINE up(C) == {i \in C : i >= x}
<1>1. up(A) \in SUBSET up(B) /\ up(B) \in SUBSET B
  OBVIOUS
<1>2. IsFiniteSet(up(B)) /\ Cardinality(up(B)) <= Cardinality(B)
  BY <1>1, FS_Subset
<1>3. IsFiniteSet(up(A)) /\ Cardinality(up(A)) <= Cardinality(up(B))
  BY <1>1, <1>2, FS_Subset
<1> QED
  BY <1>2, <1>3, FS_CardinalityType DEF Rank

\* The list is in descending order, and its places are ranks.
LEMMA NewestRanks ==
    ASSUME NEW S, S \subseteq Int, IsFiniteSet(S)
    PROVE  LET s == Newest(S) IN
           /\ s \in Seq(S) /\ Len(s) = Cardinality(S) /\ DOMAIN s = 1 .. Len(s)
           /\ Decreasing(s)
           /\ \A x \in S : \E q \in DOMAIN s : s[q] = x
           /\ \A q \in DOMAIN s : Rank(S, s[q]) = q
<1> DEFINE s == Newest(S)
           n == Cardinality(S)
<1>1. s \in SetToSeqs(S) /\ Decreasing(s)
  BY DescendingExists DEF Newest, Decreasing
<1> HIDE DEF s
<1>2. /\ s \in Seq(S) /\ Len(s) = n /\ n \in Nat /\ DOMAIN s = 1 .. n
      /\ \A i, j \in DOMAIN s : i # j => s[i] # s[j]
      /\ \A x \in S : \E i \in DOMAIN s : s[i] = x
  BY <1>1, SeqsOfSet
<1> HIDE DEF n
<1>3. ASSUME NEW q \in DOMAIN s
      PROVE  Rank(S, s[q]) = q
  <2> DEFINE up == {i \in S : i >= s[q]}
             f == [k \in 1 .. q |-> s[k]]
  <2>0. q \in Nat /\ q <= n /\ \A k \in 1 .. q : k \in DOMAIN s
    BY <1>2
  <2>1. q \in Nat /\ q <= n /\ \A k \in 1 .. q : k \in DOMAIN s /\ s[k] \in S /\ s[k] \in Int
    <3>1. \A k \in DOMAIN s : s[k] \in S
      BY <1>2
    <3> QED
      BY <2>0, <3>1
  <2>2. \A k \in 1 .. q : s[k] >= s[q]
    <3> SUFFICES ASSUME NEW k \in 1 .. q
                 PROVE  s[k] >= s[q]
      OBVIOUS
    <3>1. CASE k = q
      BY <2>1, <3>1
    <3>2. CASE k < q
      BY <1>1, <2>1, <3>2 DEF Decreasing
    <3> QED
      BY <2>1, <3>1, <3>2
  <2>3. f \in [1 .. q -> up]
    BY <2>1, <2>2
  <2>4. \A x \in up : \E k \in 1 .. q : f[k] = x
    <3> SUFFICES ASSUME NEW x \in up
                 PROVE  \E k \in 1 .. q : s[k] = x
      BY <2>1
    <3>1. PICK k \in DOMAIN s : s[k] = x
      BY <1>2
    <3>2. ~(k > q)
      BY <1>1, <1>2, <2>1, <3>1 DEF Decreasing
    <3> QED
      BY <1>2, <2>1, <3>1, <3>2
  <2>5. f \in Surjection(1 .. q, up)
    BY <2>3, <2>4 DEF Surjection
  <2>6. f \in Injection(1 .. q, up)
    BY <1>2, <2>1, <2>3 DEF Injection, IsInjective
  <2>7. f \in Bijection(1 .. q, up)
    BY <2>5, <2>6 DEF Bijection
  <2>8. Cardinality(up) = q
    BY <2>1, <2>7, FS_CountingElements DEF ExistsBijection
  <2> QED
    BY <2>8 DEF Rank
<1> QED
  BY <1>1, <1>2, <1>3 DEF s, n

\* c has the elements of s at the places after offset, at most limit of them.
IsSlice(c, S, s, offset, limit) ==
    /\ c \in Seq(S)
    /\ \A k \in DOMAIN c : /\ k \in Nat \ {0} /\ k <= limit
                           /\ offset + k \in DOMAIN s /\ c[k] = s[offset + k]
    /\ \A q \in DOMAIN s : offset < q /\ q <= offset + limit =>
          q - offset \in DOMAIN c /\ c[q - offset] = s[q]

\* A slice is the part of a list from one place to another.
LEMMA Slices ==
    ASSUME NEW S, NEW s \in Seq(S), NEW offset \in Nat, NEW limit \in Nat
    PROVE  IsSlice(Slice(s, offset, limit), S, s, offset, limit)
<1> DEFINE to == IF offset + limit < Len(s) THEN offset + limit ELSE Len(s)
           c == SubSeq(s, offset + 1, to)
<1>1. /\ Len(s) \in Nat /\ DOMAIN s = 1 .. Len(s) /\ to \in Nat
      /\ to <= Len(s) /\ to <= offset + limit
      /\ \A q \in DOMAIN s : q <= offset + limit => q <= to
  OBVIOUS
<1> HIDE DEF to
<1>2. CASE offset + 1 <= to
  <2>1. /\ c \in Seq(S) /\ Len(c) = to - offset /\ DOMAIN c = 1 .. to - offset
        /\ \A k \in 1 .. to - offset : c[k] = s[offset + k]
    BY <1>1, <1>2
  <2> HIDE DEF c
  <2>2. \A k \in DOMAIN c : /\ k \in Nat \ {0} /\ k <= limit
                            /\ offset + k \in DOMAIN s /\ c[k] = s[offset + k]
    BY <1>1, <2>1
  <2>3. \A q \in DOMAIN s : offset < q /\ q <= offset + limit =>
            q - offset \in DOMAIN c /\ c[q - offset] = s[q]
    <3> SUFFICES ASSUME NEW q \in DOMAIN s, offset < q, q <= offset + limit
                 PROVE  q - offset \in DOMAIN c /\ c[q - offset] = s[q]
      OBVIOUS
    <3>1. q \in Nat /\ q <= to
      BY <1>1
    <3>2. q - offset \in 1 .. to - offset /\ offset + (q - offset) = q
      BY <1>1, <3>1
    <3> QED
      BY <2>1, <3>2
  <2> QED
    BY <2>1, <2>2, <2>3 DEF Slice, IsSlice, c, to
<1>3. CASE ~(offset + 1 <= to)
  <2>1. c = << >>
    BY <1>1, <1>3
  <2>2. \A q \in DOMAIN s : ~(offset < q /\ q <= offset + limit)
    BY <1>1, <1>3
  <2> HIDE DEF c
  <2>3. c \in Seq(S) /\ DOMAIN c = {}
    BY <2>1
  <2> QED
    BY <2>2, <2>3 DEF Slice, IsSlice, c, to
<1> QED
  BY <1>2, <1>3

-----------------------------------------------------------------------------
(***************************************************************************)
(* The table                                                               *)
(***************************************************************************)
Writes == InsertRow \/ DeleteRow \/ \E i \in Ids : MarkRow(i) \/ RetryWrite(i)

\* The rows that match are finitely many.
LEMMA MatchesFinite ==
    ASSUME NEW tbl, NEW n \in Nat, DOMAIN tbl \subseteq 1 .. n, NEW f
    PROVE  /\ IsFiniteSet(DOMAIN tbl) /\ Cardinality(DOMAIN tbl) \in 0 .. n
           /\ Matching(tbl, f) \subseteq 1 .. n /\ Matching(tbl, f) \subseteq Int
           /\ IsFiniteSet(Matching(tbl, f)) /\ Cardinality(Matching(tbl, f)) \in 0 .. n
<1>1. IsFiniteSet(1 .. n) /\ Cardinality(1 .. n) = n
  BY FS_Interval
<1>2. Matching(tbl, f) \in SUBSET (1 .. n) /\ DOMAIN tbl \in SUBSET (1 .. n)
  BY DEF Matching
<1>3. /\ IsFiniteSet(DOMAIN tbl) /\ Cardinality(DOMAIN tbl) <= n
      /\ IsFiniteSet(Matching(tbl, f)) /\ Cardinality(Matching(tbl, f)) <= n
  BY <1>1, <1>2, FS_Subset
<1>4. Cardinality(DOMAIN tbl) \in Nat /\ Cardinality(Matching(tbl, f)) \in Nat
  BY <1>3, FS_CardinalityType
<1> QED
  BY <1>2, <1>3, <1>4

\* What an UPDATE by id makes of the table.
LEMMA Updated ==
    ASSUME TableInv, NEW i, NEW st \in Statuses, Update(i, st)
    PROVE  /\ Change(rows') /\ DOMAIN rows' = DOMAIN rows
           /\ \A j \in DOMAIN rows : rows'[j] = IF j = i THEN st ELSE rows[j]
           /\ \A j \in DOMAIN rows : rows'[j] \in Statuses
<1> DEFINE tbl == [j \in DOMAIN rows |-> IF j = i THEN st ELSE rows[j]]
<1>1. Change(tbl) /\ rows' = tbl
  BY DEF Update, Change
<1>2. DOMAIN tbl = DOMAIN rows /\ \A j \in DOMAIN rows : tbl[j] = IF j = i THEN st ELSE rows[j]
  OBVIOUS
<1> HIDE DEF tbl
<1> QED
  BY <1>1, <1>2 DEF TableInv

\* What the other requests do: a row that comes has an id that was never used, and a
\* row that is SUCCESSFUL stays so.
LEMMA WritesChange ==
    ASSUME TableInv, Writes
    PROVE  /\ Change(rows')
           /\ seq' \in 0 .. MaxId /\ seq <= seq'
           /\ DOMAIN rows' \subseteq 1 .. seq'
           /\ \A i \in DOMAIN rows' : rows'[i] \in Statuses
           /\ \A i \in DOMAIN rows' : i \in DOMAIN rows \/ i > seq
           /\ \A i \in DOMAIN rows' : i \in DOMAIN rows /\ rows[i] = "SUCCESSFUL" =>
                 rows'[i] = "SUCCESSFUL"
           /\ WriterInv'
<1> USE DEF TableInv
<1>m. MaxId \in Nat
  BY MaxIdAssumption
<1>1. CASE InsertRow
  <2> DEFINE tbl == [i \in DOMAIN rows \cup {seq + 1} |->
                        IF i = seq + 1 THEN "PENDING_RETRY" ELSE rows[i]]
  <2>1. /\ seq < MaxId /\ seq' = seq + 1 /\ Change(tbl)
        /\ open' = open \cup {seq + 1} /\ checked' = checked
    BY <1>1 DEF InsertRow
  <2>2. rows' = tbl
    BY <2>1 DEF Change
  <2>3. /\ DOMAIN tbl = DOMAIN rows \cup {seq + 1}
        /\ \A i \in DOMAIN rows : i # seq + 1 /\ tbl[i] = rows[i]
        /\ tbl[seq + 1] = "PENDING_RETRY"
    BY <1>m
  <2> HIDE DEF tbl
  <2>4. seq' \in 0 .. MaxId /\ seq <= seq' /\ \A i \in DOMAIN tbl : i \in 1 .. seq'
    BY <1>m, <2>1, <2>3
  <2>5. WriterInv'
    <3>1. open' \subseteq 1 .. seq' /\ checked' \subseteq 1 .. seq'
      BY <1>m, <2>1 DEF WriterInv
    <3>2. seq + 1 \notin checked
      BY <1>m DEF WriterInv
    <3> QED
      BY <1>m, <2>1, <2>2, <2>3, <3>1, <3>2 DEF WriterInv
  <2> QED
    BY <1>m, <2>1, <2>2, <2>3, <2>4, <2>5 DEF Statuses
<1>2. ASSUME NEW i \in Ids, MarkRow(i)
      PROVE  /\ Change(rows') /\ seq' = seq /\ DOMAIN rows' = DOMAIN rows
             /\ \A j \in DOMAIN rows : /\ rows'[j] \in Statuses
                                       /\ rows[j] = "SUCCESSFUL" => rows'[j] = "SUCCESSFUL"
             /\ WriterInv'
  <2>1. PICK st \in {"SUCCESSFUL", "FAILED"} : Update(i, st)
    BY <1>2 DEF MarkRow
  <2>2. i \in open /\ open' = open \ {i} /\ checked' = checked /\ seq' = seq
    BY <1>2 DEF MarkRow
  <2>3. /\ Change(rows') /\ DOMAIN rows' = DOMAIN rows
        /\ \A j \in DOMAIN rows : rows'[j] = IF j = i THEN st ELSE rows[j]
        /\ \A j \in DOMAIN rows : rows'[j] \in Statuses
    BY <2>1, Updated DEF Statuses
  <2> QED
    BY <2>2, <2>3 DEF WriterInv
<1>3. ASSUME NEW i \in Ids, RetryWrite(i)
      PROVE  /\ Change(rows') /\ seq' = seq /\ DOMAIN rows' = DOMAIN rows
             /\ \A j \in DOMAIN rows : /\ rows'[j] \in Statuses
                                       /\ rows[j] = "SUCCESSFUL" => rows'[j] = "SUCCESSFUL"
             /\ WriterInv'
  <2>1. i \in checked /\ Update(i, "PENDING_RETRY") /\ UNCHANGED <<seq, open, checked>>
    BY <1>3 DEF RetryWrite
  <2>2. /\ Change(rows') /\ DOMAIN rows' = DOMAIN rows
        /\ \A j \in DOMAIN rows : rows'[j] = IF j = i THEN "PENDING_RETRY" ELSE rows[j]
        /\ \A j \in DOMAIN rows : rows'[j] \in Statuses
    BY <2>1, Updated DEF Statuses
  <2> QED
    BY <2>1, <2>2 DEF WriterInv
<1>4. CASE DeleteRow
  <2>1. PICK i \in DOMAIN rows : Change([j \in DOMAIN rows \ {i} |-> rows[j]])
    BY <1>4 DEF DeleteRow
  <2>2. rows' = [j \in DOMAIN rows \ {i} |-> rows[j]] /\ UNCHANGED <<seq, open, checked>>
    BY <1>4, <2>1 DEF Change, DeleteRow
  <2>3. Change(rows')
    BY <2>1, <2>2
  <2>4. WriterInv'
    BY <2>2 DEF WriterInv
  <2> QED
    BY <1>m, <2>2, <2>3, <2>4
<1> QED
  BY <1>m, <1>1, <1>2, <1>3, <1>4 DEF Writes

\* What the client and its reads see of the state.
rest == <<rows, seq, pc, query, reply, shown, marks, reads>>

\* The steps, but for what a retry has checked.
LEMMA NextCases ==
    ASSUME [Next]_vars
    PROVE  \/ Writes \/ Walk \/ Count \/ Select \/ NextPage \/ Finish \/ Stats
           \/ \E i \in Ids : GetHistory(i)
           \/ UNCHANGED rest
<1>1. ASSUME NEW i \in Ids, RetryCheck(i)
      PROVE  UNCHANGED rest
  BY <1>1 DEF RetryCheck, rest
<1>2. UNCHANGED vars => UNCHANGED rest
  BY DEF vars, table, rest
<1> QED
  BY <1>1, <1>2 DEF Next, Writes

\* The reads change no table.
LEMMA TableFrame ==
    ASSUME [Next]_vars
    PROVE  UNCHANGED <<rows, seq>> \/ Writes
<1>1. Walk \/ Count \/ Select \/ NextPage \/ Finish \/ Stats => UNCHANGED <<rows, seq>>
  BY DEF Walk, Count, Select, NextPage, Finish, Stats, table
<1>2. ASSUME NEW i \in Ids, GetHistory(i)
      PROVE  UNCHANGED <<rows, seq>>
  BY <1>2 DEF GetHistory, table
<1> QED
  BY <1>1, <1>2, NextCases DEF rest

LEMMA TableStep ==
    ASSUME TableInv, [Next]_vars
    PROVE  TableInv'
<1>1. CASE UNCHANGED table
  BY <1>1 DEF table, TableInv, WriterInv
<1>2. CASE Writes
  BY <1>2, WritesChange DEF TableInv
<1>3. ASSUME NEW i \in Ids, RetryCheck(i)
      PROVE  TableInv'
  BY <1>3 DEF RetryCheck, TableInv, WriterInv
<1>4. Walk \/ Count \/ Select \/ NextPage \/ Finish \/ Stats \/ UNCHANGED vars => UNCHANGED table
  BY DEF Walk, Count, Select, NextPage, Finish, Stats, vars
<1>5. (\E i \in Ids : GetHistory(i)) => UNCHANGED table
  BY DEF GetHistory
<1> QED
  BY <1>1, <1>2, <1>3, <1>4, <1>5 DEF Next, Writes

\* The query is changed by the client.
LEMMA QueryStep ==
    ASSUME QueryInv, TableInv, [Next]_vars
    PROVE  QueryInv'
<1> USE DEF QueryInv
<1>1. CASE Writes
  <2>1. UNCHANGED <<pc, query>>
    BY <1>1, WritesChange DEF Change
  <2> QED
    BY <2>1 DEF query
<1>2. CASE Walk \/ Count \/ Select \/ NextPage \/ Finish
  BY <1>2 DEF Walk, Count, Select, NextPage, Finish, query
<1>3. CASE Stats \/ UNCHANGED rest
  BY <1>3 DEF Stats, rest, query
<1>4. ASSUME NEW i \in Ids, GetHistory(i)
      PROVE  QueryInv'
  BY <1>4 DEF GetHistory, query
<1> QED
  BY <1>1, <1>2, <1>3, <1>4, NextCases

-----------------------------------------------------------------------------
(***************************************************************************)
(* Statistics and single rows                                              *)
(***************************************************************************)
\* The rows with a status are finitely many.
LEMMA WithFinite ==
    ASSUME TableInv, NEW st
    PROVE  IsFiniteSet({i \in DOMAIN rows : rows[i] = st}) /\ With(st) \in 0 .. seq
<1>1. seq \in Nat /\ DOMAIN rows \subseteq 1 .. seq
  BY MaxIdAssumption DEF TableInv
<1>2. IsFiniteSet(DOMAIN rows) /\ Cardinality(DOMAIN rows) \in 0 .. seq
  BY <1>1, MatchesFinite
<1>3. {i \in DOMAIN rows : rows[i] = st} \in SUBSET DOMAIN rows
  OBVIOUS
<1>4. /\ IsFiniteSet({i \in DOMAIN rows : rows[i] = st})
      /\ Cardinality({i \in DOMAIN rows : rows[i] = st}) <= Cardinality(DOMAIN rows)
  BY <1>2, <1>3, FS_Subset
<1>5. Cardinality({i \in DOMAIN rows : rows[i] = st}) \in Nat
  BY <1>4, FS_CardinalityType
<1> QED
  BY <1>1, <1>2, <1>4, <1>5 DEF With

\* Every row has one of the statuses that are counted.
LEMMA StatsAddUp ==
    ASSUME TableInv
    PROVE  /\ With("INVALID") = 0
           /\ Cardinality(DOMAIN rows) = With("SUCCESSFUL") + With("FAILED") + With("PENDING_RETRY")
<1> DEFINE of(st) == {i \in DOMAIN rows : rows[i] = st}
           S == of("SUCCESSFUL")
           F == of("FAILED")
           P == of("PENDING_RETRY")
<1>1. IsFiniteSet(S) /\ IsFiniteSet(F) /\ IsFiniteSet(P)
  BY WithFinite
<1>2. S \cap F = {} /\ (S \cup F) \cap P = {} /\ DOMAIN rows = (S \cup F) \cup P
  BY DEF TableInv, Statuses
<1>3. of("INVALID") = {}
  BY DEF TableInv, Statuses
<1> HIDE DEF of
<1>4. Cardinality({}) = 0
  BY FS_EmptySet
<1>5. /\ Cardinality(S) \in Nat /\ Cardinality(F) \in Nat /\ Cardinality(P) \in Nat
  BY <1>1, FS_CardinalityType
<1>6. IsFiniteSet(S \cup F) /\ Cardinality(S \cup F) = Cardinality(S) + Cardinality(F)
  <2>1. /\ IsFiniteSet(S \cup F)
        /\ Cardinality(S \cup F) = Cardinality(S) + Cardinality(F) - Cardinality(S \cap F)
    BY <1>1, FS_Union
  <2>2. Cardinality(S \cap F) = 0
    BY <1>2, <1>4, Zenon
  <2> QED
    BY <1>5, <2>1, <2>2
<1>7. Cardinality((S \cup F) \cup P) = Cardinality(S) + Cardinality(F) + Cardinality(P)
  <2>1. Cardinality((S \cup F) \cup P) =
            Cardinality(S \cup F) + Cardinality(P) - Cardinality((S \cup F) \cap P)
    BY <1>1, <1>6, FS_Union
  <2>2. Cardinality((S \cup F) \cap P) = 0
    BY <1>2, <1>4, Zenon
  <2> QED
    BY <1>5, <1>6, <2>1, <2>2
<1> QED
  BY <1>2, <1>3, <1>4, <1>7 DEF With, of

\* While no row is deleted the counts that are compared can only grow.
LEMMA CountsGrow ==
    ASSUME TableInv, TableInv', Writes, DOMAIN rows \subseteq DOMAIN rows'
    PROVE  /\ With("SUCCESSFUL") <= With("SUCCESSFUL")'
           /\ Cardinality(DOMAIN rows) <= Cardinality(DOMAIN rows')
<1> DEFINE A == {i \in DOMAIN rows : rows[i] = "SUCCESSFUL"}
           B == {i \in DOMAIN rows' : rows'[i] = "SUCCESSFUL"}
<1>1. A \in SUBSET B
  BY WritesChange
<1>2. IsFiniteSet(B) /\ IsFiniteSet(DOMAIN rows')
  <2>1. seq' \in Nat /\ DOMAIN rows' \subseteq 1 .. seq'
    BY MaxIdAssumption DEF TableInv
  <2>2. IsFiniteSet(DOMAIN rows')
    BY <2>1, MatchesFinite
  <2>3. B \in SUBSET DOMAIN rows'
    OBVIOUS
  <2> QED
    BY <2>2, <2>3, FS_Subset
<1> HIDE DEF A, B
<1>3. Cardinality(A) <= Cardinality(B)
  BY <1>1, <1>2, FS_Subset
<1>4. Cardinality(DOMAIN rows) <= Cardinality(DOMAIN rows')
  BY <1>2, FS_Subset
<1> QED
  BY <1>3, <1>4 DEF With, A, B

\* The statistics and what is known of them.
LEMMA StatsStep ==
    ASSUME TableInv, TableInv', FlagInv, StatsInv, [Next]_vars
    PROVE  StatsInv'
<1> USE DEF StatsInv, StatsHoldUp
<1>m. MaxId \in Nat /\ DOMAIN None = {"total", "successful", "failed", "pending_retry", "invalid"}
  BY MaxIdAssumption DEF None
<1>d. Cardinality(DOMAIN rows) \in 0 .. seq /\ seq \in 0 .. MaxId
  <2>1. seq \in Nat /\ seq \in 0 .. MaxId /\ DOMAIN rows \subseteq 1 .. seq
    BY <1>m DEF TableInv
  <2> QED
    BY <2>1, MatchesFinite
<1>w. With("SUCCESSFUL") \in 0 .. seq /\ With("FAILED") \in 0 .. seq
      /\ With("PENDING_RETRY") \in 0 .. seq /\ With("INVALID") \in 0 .. seq
  BY WithFinite
<1>1. CASE Writes
  <2>1. /\ stats' = stats
        /\ thinned' = (thinned \/ ~(DOMAIN rows \subseteq DOMAIN rows'))
    BY <1>1, WritesChange DEF Change
  <2>2. CASE thinned'
    BY <2>1, <2>2
  <2>3. CASE ~thinned'
    <3>1. ~thinned /\ DOMAIN rows \subseteq DOMAIN rows'
      BY <2>1, <2>3
    <3>2. /\ With("SUCCESSFUL") <= With("SUCCESSFUL")'
          /\ Cardinality(DOMAIN rows) <= Cardinality(DOMAIN rows')
      BY <1>1, <3>1, CountsGrow
    <3>3. stats.successful \in 0 .. MaxId /\ stats.total \in 0 .. MaxId
      BY <1>m
    <3>4. With("SUCCESSFUL")' \in Nat /\ Cardinality(DOMAIN rows') \in Nat
      <4>1. seq' \in Nat /\ DOMAIN rows' \subseteq 1 .. seq'
        BY MaxIdAssumption DEF TableInv
      <4>2. IsFiniteSet(DOMAIN rows') /\ Cardinality(DOMAIN rows') \in 0 .. seq'
        BY <4>1, MatchesFinite
      <4>3. {i \in DOMAIN rows' : rows'[i] = "SUCCESSFUL"} \in SUBSET DOMAIN rows'
        OBVIOUS
      <4>4. IsFiniteSet({i \in DOMAIN rows' : rows'[i] = "SUCCESSFUL"})
        BY <4>2, <4>3, FS_Subset
      <4> QED
        BY <4>1, <4>2, <4>4, FS_CardinalityType DEF With
    <3> QED
      BY <1>d, <1>m, <1>w, <2>1, <3>1, <3>2, <3>3, <3>4
  <2> QED
    BY <2>2, <2>3
<1>2. CASE Stats
  <2>1. stats' = StatsOf /\ rows' = rows
    BY <1>2 DEF Stats, table
  <2>2. /\ StatsOf.total = Cardinality(DOMAIN rows) /\ StatsOf.successful = With("SUCCESSFUL")
        /\ StatsOf.failed = With("FAILED") /\ StatsOf.pending_retry = With("PENDING_RETRY")
        /\ StatsOf.invalid = With("INVALID")
    BY DEF StatsOf
  <2>3. StatsOf \in [DOMAIN None -> 0 .. MaxId]
    BY <1>d, <1>m, <1>w DEF StatsOf
  <2>4. With("SUCCESSFUL")' = With("SUCCESSFUL")
    BY <2>1 DEF With
  <2> QED
    BY <1>d, <1>w, <2>1, <2>2, <2>3, <2>4, StatsAddUp
<1>3. CASE Walk
  <2>1. stats' = None
    BY <1>3 DEF Walk
  <2>2. None \in [DOMAIN None -> 0 .. MaxId]
    BY <1>m DEF None
  <2>3. /\ None.total = 0 /\ None.successful = 0 /\ None.failed = 0
        /\ None.pending_retry = 0 /\ None.invalid = 0
    BY DEF None
  <2>4. rows' = rows /\ With("SUCCESSFUL")' = With("SUCCESSFUL")
    BY <1>3 DEF Walk, table, With
  <2> QED
    BY <1>d, <1>w, <2>1, <2>2, <2>3, <2>4
<1>4. CASE UNCHANGED <<rows, stats, thinned>>
  BY <1>4 DEF With
<1>5. Count \/ Select \/ NextPage \/ Finish \/ UNCHANGED rest => UNCHANGED <<rows, stats, thinned>>
  BY DEF Count, Select, NextPage, Finish, rest, table, reads
<1>6. ASSUME NEW i \in Ids, GetHistory(i)
      PROVE  UNCHANGED <<rows, stats, thinned>>
  BY <1>6 DEF GetHistory, table
<1> QED
  BY <1>1, <1>2, <1>3, <1>4, <1>5, <1>6, NextCases

\* A row that was found does not come back once it is gone, and ends once.
LEMMA PollStep ==
    ASSUME TableInv, PollInv, [Next]_vars
    PROVE  PollInv'
<1>t. seq \in Nat /\ DOMAIN rows \subseteq 1 .. seq /\ \A i \in DOMAIN rows : rows[i] \in Statuses
  BY MaxIdAssumption DEF TableInv
<1>p. polled.id \in Nat /\ polled.found \in BOOLEAN
  BY MaxIdAssumption DEF PollInv, Polls, Ids
<1>1. CASE Writes
  <2>1. polled' = polled
    BY <1>1, WritesChange DEF Change
  <2>2. /\ seq' \in 0 .. MaxId /\ seq <= seq'
        /\ \A i \in DOMAIN rows' : i \in DOMAIN rows \/ i > seq
        /\ \A i \in DOMAIN rows' : i \in DOMAIN rows /\ rows[i] = "SUCCESSFUL" => rows'[i] = "SUCCESSFUL"
    BY <1>1, WritesChange
  <2>3. polled.found => polled.id \in 1 .. seq /\ ~(polled.id > seq)
    BY <1>t, <1>p DEF PollInv
  <2>4. polled.found => polled.id \in 1 .. seq'
    BY <1>t, <1>p, <2>2, <2>3
  <2> QED
    BY <2>1, <2>2, <2>3, <2>4 DEF PollInv
<1>2. ASSUME NEW i \in Ids, GetHistory(i)
      PROVE  PollInv'
  <2>1. polled.id \in {0, i} /\ rows' = rows /\ seq' = seq
    BY <1>2 DEF GetHistory, table
  <2>2. CASE i \in DOMAIN rows
    <3>1. polled' = [id |-> i, status |-> rows[i], found |-> TRUE]
      BY <1>2, <2>2 DEF GetHistory
    <3>2. polled' \in Polls
      BY <1>t, <2>2, <3>1 DEF Polls
    <3>3. polled'.id = i /\ polled'.status = rows[i] /\ rows[i] # "404"
      BY <1>t, <2>2, <3>1 DEF Statuses
    <3> QED
      BY <1>t, <2>1, <2>2, <3>2, <3>3 DEF PollInv
  <2>3. CASE i \notin DOMAIN rows
    <3>1. polled' = [polled EXCEPT !.id = i, !.status = "404"]
      BY <1>2, <2>3 DEF GetHistory
    <3>2. polled' \in Polls /\ polled'.id = i /\ polled'.status = "404" /\ polled'.found = polled.found
      BY <3>1 DEF PollInv, Polls
    <3>3. polled.found => polled.id = i
      BY <1>t, <2>1 DEF PollInv
    <3> QED
      BY <2>1, <2>3, <3>2, <3>3 DEF PollInv
  <2> QED
    BY <2>2, <2>3
<1>3. CASE Walk
  <2>1. polled' = Unpolled
    BY <1>3 DEF Walk
  <2>2. Unpolled \in Polls /\ Unpolled.found = FALSE
    BY DEF Unpolled, Polls
  <2> QED
    BY <2>1, <2>2 DEF PollInv
<1>4. CASE UNCHANGED <<rows, seq, polled>>
  BY <1>4 DEF PollInv
<1>5. Count \/ Select \/ NextPage \/ Finish \/ Stats \/ UNCHANGED rest => UNCHANGED <<rows, seq, polled>>
  BY DEF Count, Select, NextPage, Finish, Stats, rest, table, reads
<1> QED
  BY <1>1, <1>2, <1>3, <1>4, <1>5, NextCases

-----------------------------------------------------------------------------
(***************************************************************************)
(* The walk over the pages                                                 *)
(***************************************************************************)
\* The rows that match and the places shown are numbers one can reason with.
LEMMA Basics ==
    ASSUME TableInv, QueryInv
    PROVE  /\ seq \in Nat /\ MaxId \in Nat /\ seq <= MaxId
           /\ Matches(rows) \subseteq Int /\ Matches(rows) \subseteq Ids
           /\ IsFiniteSet(Matches(rows)) /\ Cardinality(Matches(rows)) \in 0 .. seq
           /\ SafeSize \in Nat \ {0} /\ page \in Nat \ {0}
           /\ Offset \in Nat /\ Offset = (page - 1) * SafeSize /\ page * SafeSize = Offset + SafeSize
           /\ Shift = IF pc \in {"answered", "finished"} THEN Offset + SafeSize ELSE Offset
<1>1. seq \in Nat /\ MaxId \in Nat /\ seq <= MaxId /\ DOMAIN rows \subseteq 1 .. seq
  BY MaxIdAssumption DEF TableInv
<1>2. /\ Matches(rows) \subseteq 1 .. seq /\ Matches(rows) \subseteq Int
      /\ IsFiniteSet(Matches(rows)) /\ Cardinality(Matches(rows)) \in 0 .. seq
  BY <1>1, MatchesFinite DEF Matches
<1>3. Matches(rows) \subseteq Ids
  BY <1>1, <1>2 DEF Ids
<1>4. SafeSize \in Nat \ {0} /\ page \in Nat \ {0}
  BY SizesAssumption DEF SafeSize, QueryInv
<1>5. /\ (page - 1) * SafeSize \in Nat
      /\ page * SafeSize = (page - 1) * SafeSize + SafeSize
  BY <1>4
<1> QED
  BY <1>1, <1>2, <1>3, <1>4, <1>5 DEF Offset, SafePage, Shift

\* A greater id has no greater rank.
LEMMA RankOrder ==
    ASSUME NEW S, S \subseteq Int, IsFiniteSet(S), NEW x \in Int, NEW y \in Int, Rank(S, x) < Rank(S, y)
    PROVE  x > y
<1> SUFFICES ASSUME x <= y
             PROVE  FALSE
  OBVIOUS
<1>0. \A i \in S : i >= y => i >= x
  OBVIOUS
<1>1. {i \in S : i >= x} \in SUBSET S /\ {i \in S : i >= y} \in SUBSET {i \in S : i >= x}
  BY <1>0, Zenon
<1>2. IsFiniteSet({i \in S : i >= x})
  BY <1>1, FS_Subset
<1>3. Rank(S, y) <= Rank(S, x)
  BY <1>1, <1>2, FS_Subset DEF Rank
<1>4. Rank(S, x) \in Nat /\ Rank(S, y) \in Nat
  BY RankGrows
<1> QED
  BY <1>3, <1>4

\* A page holds the rows of its places.
LEMMA SelectPage ==
    ASSUME TableInv, QueryInv, Select
    PROVE  /\ content' \in Seq(Ids) /\ Decreasing(content')
           /\ \A k \in DOMAIN content' :
                 /\ content'[k] \in Matches(rows)
                 /\ Offset < Rank(Matches(rows), content'[k])
                 /\ Rank(Matches(rows), content'[k]) <= Offset + SafeSize
           /\ \A x \in Matches(rows) :
                 Offset < Rank(Matches(rows), x) /\ Rank(Matches(rows), x) <= Offset + SafeSize =>
                     x \in ToSet(content')
<1> DEFINE S == Matches(rows)
           s == Newest(S)
           c == content'
<1>1. /\ S \subseteq Int /\ S \subseteq Ids /\ IsFiniteSet(S)
      /\ Offset \in Nat /\ SafeSize \in Nat \ {0}
  BY Basics
<1> HIDE DEF S
<1>2. /\ s \in Seq(S) /\ DOMAIN s = 1 .. Len(s) /\ Decreasing(s)
      /\ \A x \in S : \E q \in DOMAIN s : s[q] = x
      /\ \A q \in DOMAIN s : Rank(S, s[q]) = q
  BY <1>1, NewestRanks, Zenon
<1>3. c = Slice(s, Offset, SafeSize)
  BY DEF Select, S
<1> HIDE DEF s
<1>4. /\ c \in Seq(S)
      /\ \A k \in DOMAIN c : /\ k \in Nat \ {0} /\ k <= SafeSize
                             /\ Offset + k \in DOMAIN s /\ c[k] = s[Offset + k]
      /\ \A q \in DOMAIN s : Offset < q /\ q <= Offset + SafeSize =>
            q - Offset \in DOMAIN c /\ c[q - Offset] = s[q]
  <2>1. s \in Seq(S) /\ Offset \in Nat /\ SafeSize \in Nat
    BY <1>1, <1>2
  <2>2. IsSlice(c, S, s, Offset, SafeSize)
    BY <1>3, <2>1, Slices
  <2> QED
    BY <2>2 DEF IsSlice
<1> HIDE DEF c
<1>5. c \in Seq(Ids)
  <2>1. Len(c) \in Nat /\ c = [k \in 1 .. Len(c) |-> c[k]] /\ \A k \in 1 .. Len(c) : c[k] \in S
    BY <1>4
  <2> QED
    BY <1>1, <2>1
<1>6. Decreasing(c)
  <2> SUFFICES ASSUME NEW j \in DOMAIN c, NEW k \in DOMAIN c, j < k
               PROVE  c[j] > c[k]
    BY DEF Decreasing
  <2>1. Offset + j < Offset + k
    BY <1>1, <1>4
  <2> QED
    BY <1>2, <1>4, <2>1 DEF Decreasing
<1>7. \A k \in DOMAIN c : c[k] \in S /\ Offset < Rank(S, c[k]) /\ Rank(S, c[k]) <= Offset + SafeSize
  <2> SUFFICES ASSUME NEW k \in DOMAIN c
               PROVE  c[k] \in S /\ Offset < Rank(S, c[k]) /\ Rank(S, c[k]) <= Offset + SafeSize
    OBVIOUS
  <2>1. Rank(S, c[k]) = Offset + k /\ k \in Nat \ {0} /\ k <= SafeSize
    BY <1>2, <1>4
  <2>2. c[k] \in S
    BY <1>4
  <2> QED
    BY <1>1, <2>1, <2>2
<1>8. ASSUME NEW x \in S, Offset < Rank(S, x), Rank(S, x) <= Offset + SafeSize
      PROVE  x \in ToSet(c)
  <2>1. PICK q \in DOMAIN s : s[q] = x /\ Rank(S, x) = q
    BY <1>2
  <2>2. q - Offset \in DOMAIN c /\ c[q - Offset] = x
    BY <1>4, <1>8, <2>1
  <2> QED
    BY <2>2 DEF ToSet
<1> QED
  BY <1>5, <1>6, <1>7, <1>8 DEF S, c

\* What has been shown after a page.
LEMMA ShownAfter ==
    ASSUME ListInv, content' \in Seq(Ids), Select
    PROVE  /\ shown' = shown \o content' /\ shown' \in Seq(Ids)
           /\ ToSet(shown') = ToSet(shown) \cup ToSet(content')
<1>1. shown \in Seq(Ids) /\ shown' = shown \o content'
  BY DEF ListInv, Select
<1> DEFINE a == shown
           b == content'
           c == shown'
<1>2. /\ c \in Seq(Ids) /\ Len(a) \in Nat /\ Len(b) \in Nat /\ Len(c) = Len(a) + Len(b)
      /\ DOMAIN a = 1 .. Len(a) /\ DOMAIN b = 1 .. Len(b) /\ DOMAIN c = 1 .. Len(c)
      /\ \A i \in 1 .. Len(c) : c[i] = IF i <= Len(a) THEN a[i] ELSE b[i - Len(a)]
  BY <1>1, ConcatProperties
<1> HIDE DEF a, b, c
<1>3. \A i \in DOMAIN a : i \in DOMAIN c /\ c[i] = a[i]
  BY <1>2
<1>4. \A i \in DOMAIN b : Len(a) + i \in DOMAIN c /\ c[Len(a) + i] = b[i]
  BY <1>2
<1>5. \A i \in DOMAIN c : \/ i \in DOMAIN a /\ c[i] = a[i]
                          \/ i - Len(a) \in DOMAIN b /\ c[i] = b[i - Len(a)]
  BY <1>2
<1>6. ToSet(a) \subseteq ToSet(c) /\ ToSet(b) \subseteq ToSet(c)
  BY <1>3, <1>4 DEF ToSet
<1>7. ToSet(c) \subseteq ToSet(a) \cup ToSet(b)
  BY <1>5 DEF ToSet
<1>8. ToSet(c) = ToSet(a) \cup ToSet(b)
  BY <1>6, <1>7
<1> QED
  BY <1>1, <1>2, <1>8 DEF a, b, c

\* What the variables of a walk become when other requests change the table.
LEMMA WritesMatch ==
    ASSUME TableInv, QueryInv, Writes
    PROVE  /\ UNCHANGED <<pc, filter, size, page, total, content, last, shown>>
           /\ Matching(rows', filter) \subseteq Int
           /\ IsFiniteSet(Matching(rows', filter))
           /\ steady' = steady \ (Matching(rows, filter) \ Matching(rows', filter))
           /\ entered' = (entered \/ Matching(rows', filter) \ Matching(rows, filter) # {})
           /\ left' = (left \/ Matching(rows, filter) \ Matching(rows', filter) # {})
           /\ torn' = \/ torn
                      \/ /\ pc = "select"
                         /\ (Matching(rows', filter) \ Matching(rows, filter))
                            \cup (Matching(rows, filter) \ Matching(rows', filter)) # {}
<1>1. Change(rows') /\ seq' \in 0 .. MaxId /\ DOMAIN rows' \subseteq 1 .. seq'
  BY WritesChange
<1>2. seq' \in Nat
  BY <1>1, MaxIdAssumption
<1>3. Matching(rows', filter) \subseteq Int /\ IsFiniteSet(Matching(rows', filter))
  BY <1>1, <1>2, MatchesFinite
<1> QED
  BY <1>1, <1>3 DEF Change, Matches, query, reply

walk == <<rows, seq, pc, filter, size, page, total, content, last, shown, steady, entered, left, torn>>

\* A step is one of the other requests, one of the walk, or does not touch the walk.
LEMMA StepCases ==
    ASSUME [Next]_vars
    PROVE  Writes \/ Walk \/ Count \/ Select \/ NextPage \/ Finish \/ UNCHANGED walk
<1>1. Stats \/ UNCHANGED rest => UNCHANGED walk
  BY DEF Stats, rest, table, query, reply, marks, walk
<1>2. ASSUME NEW i \in Ids, GetHistory(i)
      PROVE  UNCHANGED walk
  BY <1>2 DEF GetHistory, table, query, reply, marks, walk
<1> QED
  BY <1>1, <1>2, NextCases

\* How many places have been shown after a step.
LEMMA ShiftStep ==
    ASSUME TableInv, QueryInv
    PROVE  /\ Writes \/ Count \/ NextPage \/ Finish \/ UNCHANGED walk => Shift' = Shift
           /\ Select => Shift = Offset /\ Shift' = Offset + SafeSize
           /\ Walk => Shift' = 0
<1>1. /\ page \in Nat \ {0} /\ SafeSize \in Nat \ {0} /\ page * SafeSize = Offset + SafeSize
      /\ Shift = IF pc \in {"answered", "finished"} THEN Offset + SafeSize ELSE Offset
      /\ Offset = (page - 1) * SafeSize
  BY Basics
<1>2. CASE Writes \/ UNCHANGED walk
  <2>1. pc' = pc /\ page' = page /\ size' = size
    BY <1>2, WritesMatch DEF walk
  <2>2. Shift' = Shift
    BY <2>1 DEF Shift, SafeSize
  <2>3. ~Select /\ ~Walk
    BY <2>1 DEF Select, Walk
  <2> QED
    BY <2>2, <2>3
<1>3. CASE Count \/ Finish
  <2>1. page' = page /\ size' = size /\ (pc' \in {"answered", "finished"} <=> pc \in {"answered", "finished"})
    BY <1>3 DEF Count, Finish, query
  <2>2. Shift' = Shift
    BY <2>1 DEF Shift, SafeSize
  <2>3. ~Select /\ ~Walk
    BY <1>3 DEF Select, Walk, Count, Finish
  <2> QED
    BY <2>2, <2>3
<1>4. CASE NextPage
  <2>1. page' = page + 1 /\ size' = size /\ pc = "answered" /\ pc' = "count"
    BY <1>4 DEF NextPage
  <2>2. SafeSize' = SafeSize
    BY <2>1 DEF SafeSize
  <2>3. Shift' = (page' - 1) * SafeSize' /\ Shift = page * SafeSize
    BY <2>1 DEF Shift
  <2>4. Shift' = Shift
    BY <1>1, <2>1, <2>2, <2>3
  <2>5. ~Select /\ ~Walk
    BY <2>1 DEF Select, Walk
  <2> QED
    BY <2>4, <2>5
<1>5. CASE Select
  <2>1. page' = page /\ size' = size /\ pc = "select" /\ pc' = "answered"
    BY <1>5 DEF Select, query
  <2>2. SafeSize' = SafeSize
    BY <2>1 DEF SafeSize
  <2>3. Shift' = page' * SafeSize' /\ Shift = Offset
    BY <1>1, <2>1 DEF Shift
  <2>4. Shift' = Offset + SafeSize
    BY <1>1, <2>1, <2>2, <2>3
  <2>5. ~Writes /\ ~Count /\ ~NextPage /\ ~Finish /\ ~Walk /\ ~UNCHANGED walk
    <3>1. ~Writes
      BY <2>1, WritesMatch
    <3> QED
      BY <2>1, <3>1 DEF Count, NextPage, Finish, Walk, walk
  <2> QED
    BY <2>3, <2>4, <2>5
<1>6. CASE Walk
  <2>1. page' = 1 /\ pc \in {"idle", "finished"} /\ pc' = "count" /\ size' \in Sizes
    BY <1>6 DEF Walk
  <2>2. SafeSize' \in Nat
    BY <2>1, SizesAssumption DEF SafeSize
  <2>3. Shift' = (1 - 1) * SafeSize'
    BY <2>1 DEF Shift
  <2>4. Shift' = 0
    <3>1. PICK n \in Nat : n = SafeSize'
      BY <2>2
    <3>2. (1 - 1) * n = 0
      <4>1. 1 - 1 = 0 /\ 0 * n = 0
        OBVIOUS
      <4> QED
        BY <4>1
    <3> QED
      BY <2>3, <3>1, <3>2
  <2>5. ~Writes /\ ~Count /\ ~NextPage /\ ~Finish /\ ~Select /\ ~UNCHANGED walk
    <3>1. ~Writes
      BY <2>1, WritesMatch
    <3> QED
      BY <2>1, <3>1 DEF Count, NextPage, Finish, Select, walk
  <2> QED
    BY <2>4, <2>5
<1> QED
  BY <1>2, <1>3, <1>4, <1>5, <1>6

\* The Boolean flags.
LEMMA FlagStep ==
    ASSUME FlagInv, TableInv, QueryInv, [Next]_vars
    PROVE  FlagInv'
<1> USE DEF FlagInv
<1>1. CASE Writes
  <2>1. Change(rows')
    BY <1>1, WritesChange
  <2>2. last' = last /\ entered' \in BOOLEAN /\ left' \in BOOLEAN
    BY <2>1 DEF Change, reply
  <2>3. torn' \in BOOLEAN /\ thinned' \in BOOLEAN
    BY <2>1 DEF Change
  <2> QED
    BY <2>2, <2>3
<1>2. CASE Walk
  BY <1>2 DEF Walk
<1>3. CASE Select
  <2>1. UNCHANGED <<entered, left, torn, thinned>>
    BY <1>3 DEF Select, marks, reads
  <2>2. last' \in BOOLEAN
    BY <1>3 DEF Select, IsLast
  <2> QED
    BY <2>1, <2>2
<1>4. CASE Count \/ NextPage \/ Finish \/ UNCHANGED rest
  <2>1. UNCHANGED <<last, entered, left, torn, thinned>>
    BY <1>4 DEF Count, NextPage, Finish, marks, reads, reply, rest
  <2> QED
    BY <2>1
<1>5. CASE Stats
  BY <1>5 DEF Stats, marks, reply
<1>6. ASSUME NEW i \in Ids, GetHistory(i)
      PROVE  FlagInv'
  <2>1. UNCHANGED <<last, entered, left, torn, thinned>>
    BY <1>6 DEF GetHistory, marks, reply
  <2> QED
    BY <2>1
<1> QED
  BY <1>1, <1>2, <1>3, <1>4, <1>5, <1>6, NextCases

\* The total counts rows that there were, and the steady rows match.
LEMMA ListStep ==
    ASSUME ListInv, TableInv, QueryInv, [Next]_vars
    PROVE  ListInv'
<1>1. seq \in Nat /\ Cardinality(Matches(rows)) \in 0 .. seq
  BY Basics
<1>2. total \in 0 .. seq /\ content \in Seq(Ids) /\ shown \in Seq(Ids) /\ steady \subseteq Matching(rows, filter)
  BY DEF ListInv, Matches
<1>3. SUFFICES /\ total' \in 0 .. seq' /\ content' \in Seq(Ids) /\ shown' \in Seq(Ids)
               /\ steady' \subseteq Matching(rows', filter')
  BY DEF ListInv, Matches
<1>4. CASE Writes
  <2>1. /\ total' = total /\ content' = content /\ shown' = shown /\ filter' = filter
        /\ steady' = steady \ (Matching(rows, filter) \ Matching(rows', filter))
    BY <1>4, WritesMatch
  <2>2. seq <= seq' /\ seq' \in Nat
    BY <1>4, WritesChange, MaxIdAssumption
  <2>3. total' \in 0 .. seq'
    BY <1>1, <1>2, <2>1, <2>2
  <2>4. steady' \subseteq Matching(rows', filter')
    BY <1>2, <2>1
  <2> QED
    BY <1>2, <2>1, <2>3, <2>4
<1>5. CASE Walk
  <2>1. /\ total' = 0 /\ content' = << >> /\ shown' = << >> /\ seq' = seq /\ rows' = rows
        /\ steady' = Matching(rows, filter')
    BY <1>5 DEF Walk, table
  <2>2. << >> \in Seq(Ids)
    OBVIOUS
  <2> QED
    BY <1>1, <2>1, <2>2
<1>6. CASE Count
  BY <1>1, <1>2, <1>6 DEF Count, table, query, marks
<1>7. CASE Select
  <2>1. content' \in Seq(Ids)
    BY <1>7, SelectPage
  <2>2. shown' \in Seq(Ids)
    BY <1>7, <2>1, ShownAfter
  <2>3. UNCHANGED <<total, seq, rows, filter, steady>>
    BY <1>7 DEF Select, table, query, marks
  <2> QED
    BY <1>2, <2>1, <2>2, <2>3
<1>8. CASE NextPage \/ Finish \/ UNCHANGED walk
  <2>1. UNCHANGED <<total, content, shown, seq, rows, filter, steady>>
    BY <1>8 DEF NextPage, Finish, walk, table, query, reply, marks
  <2> QED
    BY <1>2, <2>1
<1> QED
  BY <1>4, <1>5, <1>6, <1>7, <1>8, StepCases

\* The pages run out.
LEMMA PageStep ==
    ASSUME PageInv, ListInv, TableInv, QueryInv, [Next]_vars
    PROVE  PageInv'
<1>1. /\ seq \in Nat /\ page \in Nat \ {0} /\ SafeSize \in Nat \ {0}
  BY Basics
<1>2. total \in Nat /\ total <= seq
  BY <1>1 DEF ListInv
<1>3. CASE Writes
  <2>1. UNCHANGED <<pc, page, last>> /\ seq <= seq' /\ seq' \in Nat
    BY <1>3, WritesMatch, WritesChange, MaxIdAssumption
  <2> QED
    BY <1>1, <2>1 DEF PageInv, WalkBounded
<1>4. CASE Walk
  BY <1>4 DEF Walk, PageInv, WalkBounded
<1>5. CASE Select
  <2>1. UNCHANGED <<page, seq>> /\ pc' = "answered" /\ last' = IsLast
    BY <1>5 DEF Select, query, table
  <2>2. TotalPages \in Nat /\ TotalPages <= total
    BY <1>1, <1>2, Pages DEF TotalPages
  <2>3. ~IsLast => page + 1 <= TotalPages
    BY <1>1, <2>2 DEF IsLast, SafePage
  <2>4. ~last' => page' + 1 <= seq'
    BY <1>1, <1>2, <2>1, <2>2, <2>3
  <2> QED
    BY <2>1, <2>4 DEF PageInv, WalkBounded
<1>6. CASE Count \/ Finish
  BY <1>6 DEF Count, Finish, query, reply, table, PageInv, WalkBounded
<1>7. CASE NextPage
  BY <1>7 DEF NextPage, table, PageInv, WalkBounded
<1>8. CASE UNCHANGED walk
  BY <1>8 DEF walk, PageInv, WalkBounded
<1> QED
  BY <1>3, <1>4, <1>5, <1>6, <1>7, <1>8, StepCases

\* While no row comes to match, what was shown stays in the first places.
LEMMA ShownStep ==
    ASSUME ShownInv, ListInv, TableInv, QueryInv, FlagInv, [Next]_vars
    PROVE  ShownInv'
<1> DEFINE M == Matching(rows, filter)
           N == Matching(rows', filter')
<1>1. SUFFICES ASSUME ~entered'
               PROVE  Decreasing(shown') /\ \A x \in ToSet(shown') : Rank(N, x) <= Shift'
  BY DEF ShownInv, Matches
<1>2. ~entered => Decreasing(shown) /\ \A x \in ToSet(shown) : Rank(M, x) <= Shift
  BY DEF ShownInv, Matches
<1>3. /\ M \subseteq Int /\ IsFiniteSet(M) /\ Offset \in Nat /\ SafeSize \in Nat \ {0}
      /\ shown \in Seq(Ids) /\ Shift \in Nat
  BY Basics DEF ListInv, Matches
<1>4. CASE Writes
  <2>1. /\ shown' = shown /\ filter' = filter
        /\ entered' = (entered \/ N \ M # {})
    BY <1>4, WritesMatch
  <2>2. ~entered /\ N \in SUBSET M
    BY <1>1, <2>1
  <2>3. Shift' = Shift
    BY <1>4, ShiftStep
  <2> HIDE DEF M, N
  <2>4. \A x : Rank(N, x) \in Nat /\ Rank(M, x) \in Nat /\ Rank(N, x) <= Rank(M, x)
    BY <1>3, <2>2, RankGrows
  <2>5. ASSUME NEW x \in ToSet(shown)
        PROVE  Rank(N, x) <= Shift
    BY <1>2, <1>3, <2>2, <2>4
  <2> QED
    BY <1>2, <2>1, <2>2, <2>3, <2>5
<1>5. CASE Walk
  <2>1. shown' = << >>
    BY <1>5 DEF Walk
  <2>2. DOMAIN shown' = {} /\ ToSet(shown') = {}
    BY <2>1 DEF ToSet
  <2> QED
    BY <2>2 DEF Decreasing
<1>6. CASE Select
  <2> DEFINE a == shown
             b == content'
             c == shown'
  <2>1. entered' = entered /\ N = M
    BY <1>6 DEF Select, marks, table, query
  <2>2. Shift = Offset /\ Shift' = Offset + SafeSize
    BY <1>6, ShiftStep
  <2>3. /\ b \in Seq(Ids) /\ Decreasing(b)
        /\ \A k \in DOMAIN b : Offset < Rank(M, b[k]) /\ Rank(M, b[k]) <= Offset + SafeSize
    BY <1>6, SelectPage DEF Matches
  <2>4. c = a \o b /\ ToSet(c) = ToSet(a) \cup ToSet(b)
    BY <1>6, <2>3, ShownAfter
  <2>5. Decreasing(a) /\ \A x \in ToSet(a) : Rank(M, x) <= Offset
    BY <1>1, <1>2, <2>1, <2>2
  <2> HIDE DEF a, b, c, M, N
  <2>6. \A x : Rank(M, x) \in Nat
    BY <1>3, RankGrows
  <2>7. \A x \in ToSet(c) : Rank(M, x) <= Offset + SafeSize
    <3>1. \A x \in ToSet(a) : Rank(M, x) <= Offset + SafeSize
      BY <1>3, <2>5, <2>6
    <3>2. \A x \in ToSet(b) : Rank(M, x) <= Offset + SafeSize
      BY <2>3 DEF ToSet
    <3> QED
      BY <2>4, <3>1, <3>2
  <2>8. Decreasing(c)
    <3>1. a \in Seq(Ids)
      BY <1>3 DEF a
    <3>2. /\ Len(a) \in Nat /\ Len(b) \in Nat /\ Len(c) = Len(a) + Len(b)
          /\ DOMAIN a = 1 .. Len(a) /\ DOMAIN b = 1 .. Len(b) /\ DOMAIN c = 1 .. Len(c)
          /\ \A i \in 1 .. Len(c) : c[i] = IF i <= Len(a) THEN a[i] ELSE b[i - Len(a)]
      BY <2>3, <2>4, <3>1, ConcatProperties
    <3>3. /\ \A i \in DOMAIN a : a[i] \in Int /\ Rank(M, a[i]) <= Offset
          /\ \A i \in DOMAIN b : b[i] \in Int /\ Offset < Rank(M, b[i])
      <4>1. \A i \in DOMAIN a : a[i] \in Ids /\ a[i] \in ToSet(a)
        BY <3>1 DEF ToSet
      <4>2. \A i \in DOMAIN b : b[i] \in Ids
        BY <2>3
      <4>3. \A i \in Ids : i \in Int
        BY MaxIdAssumption DEF Ids
      <4> QED
        BY <2>3, <2>5, <4>1, <4>2, <4>3
    <3> SUFFICES ASSUME NEW j \in DOMAIN c, NEW k \in DOMAIN c, j < k
                 PROVE  c[j] > c[k]
      BY DEF Decreasing
    <3>4. CASE k <= Len(a)
      BY <2>5, <3>2, <3>4 DEF Decreasing
    <3>5. CASE j > Len(a)
      <4>1. j - Len(a) \in DOMAIN b /\ k - Len(a) \in DOMAIN b /\ j - Len(a) < k - Len(a)
        BY <3>2, <3>5
      <4>2. c[j] = b[j - Len(a)] /\ c[k] = b[k - Len(a)]
        BY <3>2, <3>5
      <4> QED
        BY <2>3, <4>1, <4>2 DEF Decreasing
    <3>6. CASE j <= Len(a) /\ k > Len(a)
      <4>1. j \in DOMAIN a /\ k - Len(a) \in DOMAIN b /\ c[j] = a[j] /\ c[k] = b[k - Len(a)]
        BY <3>2, <3>6
      <4>2. PICK x \in Int, y \in Int : x = c[j] /\ y = c[k] /\ Rank(M, x) <= Offset /\ Offset < Rank(M, y)
        BY <3>3, <4>1
      <4>3. Rank(M, x) < Rank(M, y)
        BY <1>3, <2>6, <4>2
      <4> QED
        BY <1>3, <4>2, <4>3, RankOrder
    <3> QED
      BY <3>2, <3>4, <3>5, <3>6
  <2> QED
    BY <2>1, <2>2, <2>7, <2>8 DEF c
<1>7. CASE Count \/ NextPage \/ Finish \/ UNCHANGED walk
  <2>1. UNCHANGED <<shown, entered, rows, filter>>
    BY <1>7 DEF Count, NextPage, Finish, walk, table, query, marks
  <2>2. Shift' = Shift
    BY <1>7, ShiftStep
  <2> QED
    BY <1>1, <1>2, <2>1, <2>2
<1> QED
  BY <1>4, <1>5, <1>6, <1>7, StepCases

\* While no row stops matching, what is still to be shown stays behind what was.
LEMMA LeftStep ==
    ASSUME LeftInv, ListInv, TableInv, QueryInv, FlagInv, [Next]_vars
    PROVE  LeftInv'
<1> DEFINE M == Matching(rows, filter)
           N == Matching(rows', filter')
<1>1. SUFFICES
        /\ ~left' /\ ~torn' => \A x \in steady' : x \in ToSet(shown') \/ Rank(N, x) > Shift'
        /\ pc' = "select" /\ ~torn' => total' = Cardinality(N)
        /\ pc' \in {"answered", "finished"} /\ last' /\ ~left' /\ ~torn' =>
              steady' \subseteq ToSet(shown')
  BY DEF LeftInv, Matches
<1>2. /\ ~left /\ ~torn => \A x \in steady : x \in ToSet(shown) \/ Rank(M, x) > Shift
      /\ pc = "select" /\ ~torn => total = Cardinality(M)
      /\ pc \in {"answered", "finished"} /\ last /\ ~left /\ ~torn => steady \subseteq ToSet(shown)
  BY DEF LeftInv, Matches
<1>3. /\ M \subseteq Int /\ IsFiniteSet(M) /\ Offset \in Nat /\ SafeSize \in Nat \ {0}
      /\ steady \subseteq M /\ Shift \in Nat
  BY Basics DEF ListInv, Matches
<1>4. CASE Writes
  <2>1. /\ UNCHANGED <<shown, filter, pc, total, last>>
        /\ N \subseteq Int /\ IsFiniteSet(N)
        /\ steady' = steady \ (M \ N)
        /\ left' = (left \/ M \ N # {})
        /\ torn' = (torn \/ (pc = "select" /\ (N \ M) \cup (M \ N) # {}))
    BY <1>4, WritesMatch
  <2>2. Shift' = Shift
    BY <1>4, ShiftStep
  <2> HIDE DEF M, N
  <2>3. ASSUME ~left', ~torn', NEW x \in steady'
        PROVE  x \in ToSet(shown') \/ Rank(N, x) > Shift'
    <3>1. ~left /\ ~torn /\ M \in SUBSET N /\ x \in steady
      BY <2>1, <2>3
    <3>2. Rank(M, x) \in Nat /\ Rank(N, x) \in Nat /\ Rank(M, x) <= Rank(N, x)
      BY <2>1, <3>1, RankGrows
    <3>3. x \in ToSet(shown) \/ Rank(M, x) > Shift
      BY <1>2, <3>1
    <3>4. Rank(M, x) > Shift => Rank(N, x) > Shift
      BY <1>3, <3>2
    <3> QED
      BY <2>1, <2>2, <3>3, <3>4
  <2>4. ASSUME pc' = "select", ~torn'
        PROVE  total' = Cardinality(N)
    <3>1. ~torn /\ N = M
      BY <2>1, <2>4
    <3> QED
      BY <1>2, <2>1, <2>4, <3>1
  <2>5. ASSUME pc' \in {"answered", "finished"}, last', ~left', ~torn'
        PROVE  steady' \subseteq ToSet(shown')
    BY <1>2, <2>1, <2>5
  <2> QED
    BY <2>3, <2>4, <2>5
<1>5. CASE Walk
  <2>1. rows' = rows /\ filter' \in Filters /\ pc' = "count" /\ steady' = Matching(rows, filter')
    BY <1>5 DEF Walk, table
  <2>2. N \subseteq Int /\ IsFiniteSet(N) /\ steady' = N
    <3>1. seq \in Nat /\ DOMAIN rows \subseteq 1 .. seq
      BY MaxIdAssumption DEF TableInv
    <3> QED
      BY <2>1, <3>1, MatchesFinite
  <2>3. Shift' = 0
    BY <1>5, ShiftStep
  <2> HIDE DEF N
  <2>4. ASSUME NEW x \in N
        PROVE  Rank(N, x) > 0
    <3> DEFINE up == {i \in N : i >= x}
    <3>1. x \in up /\ up \in SUBSET N
      BY <2>2
    <3>2. IsFiniteSet(up) /\ Cardinality(up) \in Nat
      BY <2>2, <3>1, FS_Subset, FS_CardinalityType
    <3>3. Cardinality(up) # 0
      BY <3>1, <3>2, FS_EmptySet
    <3> QED
      BY <3>2, <3>3 DEF Rank
  <2> QED
    BY <2>1, <2>2, <2>3, <2>4
<1>6. CASE Count
  <2>1. /\ UNCHANGED <<rows, filter, left, torn, steady, shown>> /\ pc' = "select"
        /\ total' = Cardinality(M)
    BY <1>6 DEF Count, table, query, marks, Matches
  <2>2. Shift' = Shift
    BY <1>6, ShiftStep
  <2> QED
    BY <1>2, <2>1, <2>2
<1>7. CASE Select
  <2>1. /\ UNCHANGED <<rows, filter, left, torn, steady, total>>
        /\ pc = "select" /\ pc' = "answered" /\ last' = IsLast
    BY <1>7 DEF Select, table, query, marks
  <2>2. Shift = Offset /\ Shift' = Offset + SafeSize
    BY <1>7, ShiftStep
  <2>3. /\ content' \in Seq(Ids)
        /\ \A x \in M : Offset < Rank(M, x) /\ Rank(M, x) <= Offset + SafeSize => x \in ToSet(content')
    BY <1>7, SelectPage DEF Matches
  <2>4. ToSet(shown') = ToSet(shown) \cup ToSet(content')
    BY <1>7, <2>3, ShownAfter
  <2>n. N = M
    BY <2>1
  <2> HIDE DEF M, N
  <2>5. \A x : Rank(M, x) \in Nat /\ Rank(M, x) <= Cardinality(M)
    BY <1>3, RankGrows
  <2>6. ASSUME ~left, ~torn, NEW x \in steady
        PROVE  x \in ToSet(shown') \/ Rank(M, x) > Offset + SafeSize
    <3>1. x \in ToSet(shown) \/ Rank(M, x) > Offset
      BY <1>2, <2>2, <2>6
    <3>2. Rank(M, x) <= Offset + SafeSize \/ Rank(M, x) > Offset + SafeSize
      BY <1>3, <2>5
    <3> QED
      BY <1>3, <2>3, <2>4, <3>1, <3>2
  <2>7. ASSUME last', ~torn
        PROVE  Cardinality(M) <= Offset + SafeSize
    <3>1. total \in Nat /\ page \in Nat \ {0} /\ page * SafeSize = Offset + SafeSize /\ total = Cardinality(M)
      <4>1. seq \in Nat /\ page \in Nat \ {0} /\ page * SafeSize = Offset + SafeSize
        BY Basics
      <4>2. total \in Nat
        BY <4>1 DEF ListInv
      <4> QED
        BY <1>2, <2>1, <2>7, <4>1, <4>2
    <3>2. TotalPages \in Nat /\ total <= TotalPages * SafeSize
      BY <1>3, <3>1, Pages DEF TotalPages
    <3>3. TotalPages <= page
      <4>1. page - 1 >= TotalPages - 1 \/ TotalPages = 0
        BY <2>1, <2>7 DEF IsLast, SafePage
      <4> QED
        BY <3>1, <3>2, <4>1
    <3>4. TotalPages * SafeSize <= page * SafeSize
      <4>1. \A p, q, n \in Nat : p <= q => p * n <= q * n
        OBVIOUS
      <4> QED
        BY <1>3, <3>1, <3>2, <3>3, <4>1
    <3>5. TotalPages * SafeSize \in Nat /\ page * SafeSize \in Nat
      BY <1>3, <3>1, <3>2
    <3> QED
      BY <1>3, <3>1, <3>2, <3>4, <3>5
  <2>8. ASSUME last', ~left, ~torn
        PROVE  steady \subseteq ToSet(shown')
    <3> SUFFICES ASSUME NEW x \in steady
                 PROVE  x \in ToSet(shown')
      OBVIOUS
    <3>1. Rank(M, x) <= Cardinality(M) /\ Cardinality(M) <= Offset + SafeSize /\ Rank(M, x) \in Nat
      BY <2>5, <2>7, <2>8
    <3>2. Cardinality(M) \in Nat
      BY <1>3, FS_CardinalityType
    <3>3. ~(Rank(M, x) > Offset + SafeSize)
      BY <1>3, <3>1, <3>2
    <3> QED
      BY <2>6, <2>8, <3>3
  <2> QED
    BY <2>1, <2>2, <2>n, <2>6, <2>8
<1>8. CASE NextPage \/ Finish \/ UNCHANGED walk
  <2>1. UNCHANGED <<rows, filter, left, torn, steady, shown, total, last>>
    BY <1>8 DEF NextPage, Finish, walk, table, query, reply, marks
  <2>2. Shift' = Shift
    BY <1>8, ShiftStep
  <2>3. /\ pc' = "select" => pc = "select"
        /\ pc' \in {"answered", "finished"} => pc \in {"answered", "finished"}
    BY <1>8 DEF NextPage, Finish, walk
  <2> QED
    BY <1>2, <2>1, <2>2, <2>3
<1> QED
  BY <1>4, <1>5, <1>6, <1>7, <1>8, StepCases

-----------------------------------------------------------------------------
(***************************************************************************)
(* The invariant and what follows from it                                  *)
(***************************************************************************)
LEMMA InitInv ==
    ASSUME Init
    PROVE  IInv
<1> USE DEF Init
<1>1. MaxId \in Nat /\ DOMAIN rows = {} /\ Cardinality({}) = 0
  BY MaxIdAssumption, FS_EmptySet
<1>2. TableInv
  BY <1>1 DEF TableInv, WriterInv
<1>3. QueryInv
  BY DEF QueryInv
<1>4. << >> \in Seq(Ids) /\ ToSet(<< >>) = {} /\ Decreasing(<< >>)
  BY DEF ToSet, Decreasing
<1>5. ListInv
  BY <1>1, <1>4 DEF ListInv
<1>6. FlagInv
  BY DEF FlagInv
<1>7. StatsInv
  <2>1. None \in [DOMAIN None -> 0 .. MaxId]
    BY <1>1 DEF None
  <2>2. /\ None.total = 0 /\ None.successful = 0 /\ None.failed = 0
        /\ None.pending_retry = 0 /\ None.invalid = 0
    BY DEF None
  <2>3. {i \in DOMAIN rows : rows[i] = "SUCCESSFUL"} = {}
    BY <1>1
  <2>4. With("SUCCESSFUL") = 0
    BY <1>1, <2>3, Zenon DEF With
  <2>5. Cardinality(DOMAIN rows) = 0
    BY <1>1, Zenon
  <2> QED
    BY <2>1, <2>2, <2>4, <2>5 DEF StatsInv, StatsHoldUp
<1>8. PollInv
  BY DEF PollInv, Polls, Unpolled
<1>9. PageInv
  BY DEF PageInv, WalkBounded
<1>10. ShownInv /\ LeftInv
  BY <1>4 DEF ShownInv, LeftInv
<1> QED
  BY <1>2, <1>3, <1>5, <1>6, <1>7, <1>8, <1>9, <1>10 DEF IInv

LEMMA StepInv ==
    ASSUME IInv, [Next]_vars
    PROVE  IInv'
<1> USE DEF IInv
<1>1. TableInv'
  BY TableStep
<1>2. QueryInv' /\ ListInv' /\ FlagInv'
  BY QueryStep, ListStep, FlagStep
<1>3. StatsInv' /\ PollInv'
  BY <1>1, StatsStep, PollStep
<1>4. PageInv' /\ ShownInv' /\ LeftInv'
  BY PageStep, ShownStep, LeftStep
<1> QED
  BY <1>1, <1>2, <1>3, <1>4

\* The inductive invariant holds in every state of every behaviour.
THEOREM Invariant == Spec => []IInv
<1>1. Init => IInv
  BY InitInv
<1>2. IInv /\ [Next]_vars => IInv'
  BY StepInv
<1> QED
  BY <1>1, <1>2, PTL DEF Spec

\* The table, the query of ListHistoryHandler and its answers, the statistics and the
\* polled row have their types, for any number of rows and any page sizes.
THEOREM TypeCorrect == Spec => []TypeOK
<1>1. IInv => TypeOK
  <2> SUFFICES ASSUME IInv
               PROVE  TypeOK
    OBVIOUS
  <2>1. /\ seq \in Nat /\ MaxId \in Nat /\ seq <= MaxId /\ Matches(rows) \subseteq Ids
    BY Basics DEF IInv
  <2>2. total \in 0 .. MaxId
    BY <2>1 DEF IInv, ListInv
  <2>3. steady \subseteq Ids /\ content \in Seq(Ids) /\ shown \in Seq(Ids)
    BY <2>1 DEF IInv, ListInv
  <2>4. {last, entered, left, torn, thinned} \subseteq BOOLEAN
    BY DEF IInv, FlagInv
  <2>5. /\ seq \in 0 .. MaxId /\ DOMAIN rows \subseteq 1 .. seq
        /\ \A i \in DOMAIN rows : rows[i] \in Statuses
    BY DEF IInv, TableInv
  <2>6. /\ pc \in {"idle", "count", "select", "answered", "finished"}
        /\ filter \in Filters /\ size \in Sizes /\ page \in Nat \ {0}
    BY DEF IInv, QueryInv
  <2>7. /\ stats \in [DOMAIN None -> 0 .. MaxId]
        /\ polled \in [id : Ids \cup {0}, status : Statuses \cup {"404"}, found : BOOLEAN]
    BY DEF IInv, StatsInv, PollInv, Polls
  <2>8. open \subseteq Ids /\ checked \subseteq Ids
    BY <2>1 DEF IInv, TableInv, WriterInv, Ids
  <2> QED
    BY <2>2, <2>3, <2>4, <2>5, <2>6, <2>7, <2>8 DEF TypeOK
<1> QED
  BY <1>1, Invariant, PTL

\* ListHistoryHandler: a walk to the last page misses no row that matched all the while,
\* whatever was inserted, unless a row stopped matching or a response was torn.
THEOREM Complete == Spec => []WalkComplete
<1>1. IInv => WalkComplete
  BY DEF IInv, LeftInv, PageInv, WalkComplete
<1> QED
  BY <1>1, Invariant, PTL

\* ListHistoryHandler: a walk shows no row twice unless a row came to match meanwhile.
THEOREM NoneTwice == Spec => []NoRepeats
<1>1. IInv => NoRepeats
  <2> SUFFICES ASSUME IInv, ~entered
               PROVE  Cardinality(ToSet(shown)) = Len(shown)
    BY DEF NoRepeats
  <2> DEFINE s == shown
  <2>1. s \in Seq(Ids) /\ Decreasing(s)
    BY DEF IInv, ListInv, ShownInv
  <2> HIDE DEF s
  <2>2. Len(s) \in Nat /\ DOMAIN s = 1 .. Len(s) /\ s = [k \in 1 .. Len(s) |-> s[k]]
        /\ \A k \in 1 .. Len(s) : s[k] \in Ids
    BY <2>1
  <2>3. \A j, k \in 1 .. Len(s) : j # k => s[j] # s[k]
    <3>1. \A i \in Ids : i \in Int
      BY MaxIdAssumption DEF Ids
    <3> QED
      BY <2>1, <2>2, <3>1 DEF Decreasing
  <2>4. /\ \A k \in 1 .. Len(s) : s[k] \in ToSet(s)
        /\ \A x \in ToSet(s) : \E k \in 1 .. Len(s) : s[k] = x
    BY <2>2 DEF ToSet
  <2>5. s \in [1 .. Len(s) -> ToSet(s)]
    BY <2>2, <2>4
  <2>6. s \in Surjection(1 .. Len(s), ToSet(s))
    BY <2>4, <2>5 DEF Surjection
  <2>7. s \in Injection(1 .. Len(s), ToSet(s))
    BY <2>3, <2>5 DEF Injection, IsInjective
  <2>8. ExistsBijection(1 .. Len(s), ToSet(s))
    BY <2>6, <2>7 DEF Bijection, ExistsBijection
  <2>9. Cardinality(ToSet(s)) = Len(s)
    BY <2>2, <2>8, FS_CountingElements
  <2> QED
    BY <2>9 DEF s
<1> QED
  BY <1>1, Invariant, PTL

\* ListHistoryHandler: the pages of a walk run out, also when rows go away under it.
THEOREM Bounded == Spec => []WalkBounded
<1>1. IInv => WalkBounded
  BY DEF IInv, PageInv
<1> QED
  BY <1>1, Invariant, PTL

\* StatsHandler: the parts add up, and successful rows are not lost without a deletion.
THEOREM StatsSound == Spec => []StatsHoldUp
<1>1. IInv => StatsHoldUp
  BY DEF IInv, StatsInv
<1> QED
  BY <1>1, Invariant, PTL

\* GetHistoryHandler: a polled row ends once, and once gone does not come back.
THEOREM OneLife == Spec => PollsSeeOneLife
<1>1. IInv /\ [Next]_vars =>
        [polled'.found /\ polled.found =>
           /\ polled.status = "SUCCESSFUL" => polled'.status \in {"SUCCESSFUL", "404"}
           /\ polled.status = "404" => polled'.status = "404"]_vars
  <2> SUFFICES ASSUME IInv, [Next]_vars, polled'.found, polled.found
               PROVE  /\ polled.status = "SUCCESSFUL" => polled'.status \in {"SUCCESSFUL", "404"}
                      /\ polled.status = "404" => polled'.status = "404"
    OBVIOUS
  <2>1. CASE polled' = polled
    BY <2>1
  <2>2. CASE polled' # polled
    <3>1. ~Walk
      BY DEF Walk, Unpolled
    <3>2. ~Writes
      BY <2>2, WritesChange DEF IInv, Change
    <3>3. ~Count /\ ~Select /\ ~NextPage /\ ~Finish /\ ~Stats /\ ~UNCHANGED rest
      BY <2>2 DEF Count, Select, NextPage, Finish, Stats, rest, reads
    <3>4. PICK i \in Ids : GetHistory(i)
      BY <3>1, <3>2, <3>3, NextCases
    <3>5. polled.id \in {0, i} /\ polled.id \in 1 .. seq /\ seq \in Nat
      BY <3>4, MaxIdAssumption DEF GetHistory, IInv, PollInv, TableInv
    <3>6. polled.id = i
      BY <3>5
    <3>7. CASE i \in DOMAIN rows
      <4>1. polled'.status = rows[i]
        BY <3>4, <3>7 DEF GetHistory
      <4> QED
        BY <3>6, <3>7, <4>1 DEF IInv, PollInv
    <3>8. CASE i \notin DOMAIN rows
      <4>1. polled' = [polled EXCEPT !.id = i, !.status = "404"]
        BY <3>4, <3>8 DEF GetHistory
      <4>2. polled'.status = "404"
        BY <4>1 DEF IInv, PollInv, Polls
      <4> QED
        BY <4>2
    <3> QED
      BY <3>7, <3>8
  <2> QED
    BY <2>1, <2>2
<1> QED
  BY <1>1, Invariant, PTL DEF Spec, PollsSeeOneLife
=============================================================================
