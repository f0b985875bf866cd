--------------------------- MODULE GoHistoryPages ---------------------------
(***************************************************************************)
(* The reads of sync_history in the Go service, while other requests       *)
(* insert, update and delete rows: ListHistoryHandler, page by page,       *)
(* newest first; StatsHandler; and GetHistoryHandler, asked again and      *)
(* again for the same row.                                                 *)
(*                                                                         *)
(* A page is made of two statements, a COUNT and a SELECT, with no         *)
(* transaction around them; the other reads are one statement.  The client *)
(* reads page after page until a response says that it was the last, and   *)
(* asks for statistics and single rows between two walks: reads change     *)
(* nothing, so one client at a time sees all that several would.           *)
(***************************************************************************)
EXTENDS Naturals, Sequences, FiniteSets, SequencesExt

CONSTANTS MaxId,        \* how many rows are ever inserted
          Sizes,        \* page sizes clients ask for; anything below 1 means 15
          Filters       \* status filters clients ask for; All for none

ASSUME MaxIdAssumption == MaxId \in Nat
ASSUME SizesAssumption == Sizes \subseteq Nat

Statuses == {"PENDING_RETRY", "SUCCESSFUL", "FAILED"}
All == "all"
ASSUME FiltersAssumption == Filters \subseteq Statuses \cup {All}

VARIABLES
    rows,       \* sync_history: a function from the ids in use to statuses
    seq,        \* the last id given out
    open,       \* the ids of the rows whose sync has yet to mark them
    checked,    \* the ids of the rows that a retry has found FAILED
    pc,         \* the client is "idle", or its request is at "count" or "select",
                \* or "answered"; after the last page it has "finished"
    filter,     \* the client's filter
    size,       \* the page size it asked for
    page,       \* the page it asks for, from 1
    total,      \* totalElements of the response under way
    content,    \* the ids on the page
    last,       \* "last" of the response
    shown,      \* history variable: all the ids the client has been shown
    steady,     \* history variable: ids that have matched since the walk began
    entered,    \* history variable: has a row come to match since then?
    left,       \* history variable: has a row stopped matching since then?
    torn,       \* history variable: did either happen inside a response?
    stats,      \* the last answer of StatsHandler; `None' before
    thinned,    \* history variable: has a row been deleted since?
    polled      \* the row GetHistoryHandler was asked for last, with its answer and
                \* whether it was ever found

table == <<rows, seq, open, checked>>
query == <<filter, size, page>>
reply == <<total, content, last>>
marks == <<steady, entered, left, torn>>
reads == <<stats, thinned, polled>>
vars  == <<table, pc, query, reply, shown, marks, reads>>

None == [total |-> 0, successful |-> 0, failed |-> 0, pending_retry |-> 0, invalid |-> 0]
Unpolled == [id |-> 0, status |-> "404", found |-> FALSE]

Ids == 1 .. MaxId

TypeOK ==
    /\ seq \in 0 .. MaxId
    /\ DOMAIN rows \subseteq 1 .. seq
    /\ \A i \in DOMAIN rows : rows[i] \in Statuses
    /\ open \subseteq Ids /\ checked \subseteq Ids
    /\ pc \in {"idle", "count", "select", "answered", "finished"}
    /\ filter \in Filters
    /\ size \in Sizes
    /\ page \in Nat \ {0}
    /\ total \in 0 .. MaxId
    /\ content \in Seq(Ids)
    /\ shown \in Seq(Ids)
    /\ steady \subseteq Ids
    /\ {last, entered, left, torn, thinned} \subseteq BOOLEAN
    /\ stats \in [DOMAIN None -> 0 .. MaxId]
    /\ polled \in [id : Ids \cup {0}, status : Statuses \cup {"404"}, found : BOOLEAN]

\* WHERE status = ?, or no condition
Matching(tbl, f) == {i \in DOMAIN tbl : f \in {All, tbl[i]}}
Matches(tbl) == Matching(tbl, filter)

Init ==
    /\ rows = [i \in {} |-> "FAILED"]
    /\ seq = 0
    /\ open = {}
    /\ checked = {}
    /\ pc = "idle"
    /\ filter \in Filters
    /\ size \in Sizes
    /\ page = 1
    /\ total = 0
    /\ content = << >>
    /\ last = FALSE
    /\ shown = << >>
    /\ steady = {}
    /\ entered = FALSE
    /\ left = FALSE
    /\ torn = FALSE
    /\ stats = None
    /\ thinned = FALSE
    /\ polled = Unpolled

-----------------------------------------------------------------------------
(***************************************************************************)
(* The other requests, by their statements on sync_history: a sync inserts *)
(* its row and marks it later, a retry checks a row and updates it later.  *)
(***************************************************************************)
Change(tbl) ==
    LET in  == Matches(tbl) \ Matches(rows)
        out == Matches(rows) \ Matches(tbl)
    IN  /\ rows' = tbl
        /\ steady' = steady \ out
        /\ entered' = (entered \/ in # {})
        /\ left' = (left \/ out # {})
        /\ torn' = (torn \/ (pc = "select" /\ in \cup out # {}))
        /\ thinned' = (thinned \/ ~(DOMAIN rows \subseteq DOMAIN tbl))
        /\ UNCHANGED <<pc, query, reply, shown, stats, polled>>

\* Seeded fault: the id is not remembered as given out (no AUTOINCREMENT).
InsertRowForgets ==
    /\ seq < MaxId
    /\ seq' = seq
    /\ Change([i \in DOMAIN rows \cup {seq + 1} |->
                  IF i = seq + 1 THEN "PENDING_RETRY" ELSE rows[i]])
    /\ open' = open \cup {seq + 1}
    /\ UNCHANGED checked

InsertRow ==
    /\ seq < MaxId
    /\ seq' = seq + 1
    /\ Change([i \in DOMAIN rows \cup {seq + 1} |->
                  IF i = seq + 1 THEN "PENDING_RETRY" ELSE rows[i]])
    /\ open' = open \cup {seq + 1}
    /\ UNCHANGED checked

\* UPDATE .. WHERE id = ?: a row that is not there is no error.
Update(i, st) == Change([j \in DOMAIN rows |-> IF j = i THEN st ELSE rows[j]])

\* The sync that inserted the row marks it, with the id it was given.
MarkRow(i) ==
    /\ i \in open
    /\ \E st \in {"SUCCESSFUL", "FAILED"} : Update(i, st)
    /\ open' = open \ {i}
    /\ UNCHANGED <<seq, checked>>

\* Seeded fault: a row is retried whatever its status.
RetryCheckAnyway(i) ==
    /\ i \in DOMAIN rows
    /\ checked' = checked \cup {i}
    /\ UNCHANGED <<rows, seq, open, pc, query, reply, shown, marks, reads>>

\* A retry reads the status; what it does about it comes later.
RetryCheck(i) ==
    /\ i \in DOMAIN rows /\ rows[i] = "FAILED"
    /\ checked' = checked \cup {i}
    /\ UNCHANGED <<rows, seq, open, pc, query, reply, shown, marks, reads>>

\* Seeded fault: a row that was deleted after the check is inserted again.
RetryWriteUpserts(i) ==
    /\ i \in checked
    /\ Change([j \in DOMAIN rows \cup {i} |-> IF j = i THEN "PENDING_RETRY" ELSE rows[j]])
    /\ UNCHANGED <<seq, open, checked>>

\* Any number of retries of a row may be between their two statements.
RetryWrite(i) ==
    /\ i \in checked
    /\ Update(i, "PENDING_RETRY")
    /\ UNCHANGED <<seq, open, checked>>

DeleteRow ==
    /\ \E i \in DOMAIN rows : Change([j \in DOMAIN rows \ {i} |-> rows[j]])
    /\ UNCHANGED <<seq, open, checked>>

-----------------------------------------------------------------------------
(***************************************************************************)
(* ListHistoryHandler                                                      *)
(***************************************************************************)
\* Parameters out of range are replaced by the defaults.
SafeSize == IF size < 1 THEN 15 ELSE size
SafePage == page - 1

\* Seeded fault: neighbouring pages share a row.
OffsetOverlaps == SafePage * (IF SafeSize > 1 THEN SafeSize - 1 ELSE 1)

Offset == SafePage * SafeSize

\* ORDER BY id DESC LIMIT size OFFSET offset
Newest(ids) == CHOOSE s \in SetToSeqs(ids) : \A j, k \in DOMAIN s : j < k => s[j] > s[k]
Slice(s, offset, limit) ==
    SubSeq(s, offset + 1, IF offset + limit < Len(s) THEN offset + limit ELSE Len(s))

\* Seeded fault: the last page is not counted unless it is full.
TotalPagesFloor == total \div SafeSize

\* int64(math.Ceil(float64(totalElements) / float64(size)))
TotalPages == (total + SafeSize - 1) \div SafeSize

\* Seeded fault: >= has become =.
IsLastExact == SafePage = TotalPages - 1 \/ TotalPages = 0

IsLast == SafePage >= TotalPages - 1 \/ TotalPages = 0

\* A client starts with the first page of a filter and a size of its choice.
Walk ==
    /\ pc \in {"idle", "finished"}
    /\ pc' = "count"
    /\ filter' \in Filters
    /\ size' \in Sizes
    /\ page' = 1
    /\ total' = 0
    /\ content' = << >>
    /\ last' = FALSE
    /\ shown' = << >>
    /\ steady' = Matching(rows, filter')
    /\ entered' = FALSE
    /\ left' = FALSE
    /\ torn' = FALSE
    /\ stats' = None
    /\ thinned' = FALSE
    /\ polled' = Unpolled
    /\ UNCHANGED table

Count ==
    /\ pc = "count"
    /\ total' = Cardinality(Matches(rows))
    /\ pc' = "select"
    /\ UNCHANGED <<table, query, content, last, shown, marks, reads>>

Select ==
    /\ pc = "select"
    /\ content' = Slice(Newest(Matches(rows)), Offset, SafeSize)
    /\ last' = IsLast
    /\ shown' = shown \o content'
    /\ pc' = "answered"
    /\ UNCHANGED <<table, query, total, marks, reads>>

\* The client asks for the next page, or has read the last.
NextPage ==
    /\ pc = "answered"
    /\ ~last
    /\ page' = page + 1
    /\ pc' = "count"
    /\ UNCHANGED <<table, filter, size, reply, shown, marks, reads>>

Finish ==
    /\ pc = "answered"
    /\ last
    /\ pc' = "finished"
    /\ UNCHANGED <<table, query, reply, shown, marks, reads>>

-----------------------------------------------------------------------------
(***************************************************************************)
(* StatsHandler and GetHistoryHandler, asked by a client before it walks   *)
(***************************************************************************)
With(st) == Cardinality({i \in DOMAIN rows : rows[i] = st})

\* The groups of SELECT status, COUNT( * ) .. GROUP BY status, and their sum.
StatsOf ==
    [total |-> Cardinality(DOMAIN rows), successful |-> With("SUCCESSFUL"),
     failed |-> With("FAILED"), pending_retry |-> With("PENDING_RETRY"),
     invalid |-> With("INVALID")]

Stats ==
    /\ pc = "idle"
    /\ stats' = StatsOf
    /\ thinned' = FALSE
    /\ UNCHANGED <<table, pc, query, reply, shown, marks, polled>>

\* An id that is not a number is refused (400) before any statement.  The client
\* stays with the row it asked for first.
GetHistory(i) ==
    /\ pc = "idle"
    /\ polled.id \in {0, i}
    /\ polled' = IF i \in DOMAIN rows THEN [id |-> i, status |-> rows[i], found |-> TRUE]
                 ELSE [polled EXCEPT !.id = i, !.status = "404"]
    /\ UNCHANGED <<table, pc, query, reply, shown, marks, stats, thinned>>

Next ==
    \/ InsertRow \/ DeleteRow
    \/ \E i \in Ids : MarkRow(i) \/ RetryCheck(i) \/ RetryWrite(i)
    \/ Walk \/ Count \/ Select \/ NextPage \/ Finish
    \/ Stats
    \/ \E i \in Ids : GetHistory(i)

Spec == Init /\ [][Next]_vars

-----------------------------------------------------------------------------
(***************************************************************************)
(* Properties                                                              *)
(***************************************************************************)
\* A walk to the last page shows every row that matched all the while, however
\* many rows were inserted meanwhile, unless a row stopped matching (those below
\* it move up a page) or a response was torn between its two statements.
WalkComplete ==
    pc = "finished" /\ ~left /\ ~torn => steady \subseteq ToSet(shown)

\* It shows no row twice unless a row came to match (those below it move down).
NoRepeats ==
    pc = "finished" /\ ~entered => Cardinality(ToSet(shown)) = Len(shown)

\* A walk asks for no more pages than there were ever rows, also when the rows
\* of later pages go away while it is under way: the pages run out.
WalkBounded == page <= 1 \/ page <= seq

\* The parts of the statistics add up to their total, and as long as no row is
\* deleted the next answer can only show more rows and more successful ones:
\* SUCCESSFUL is final whatever else the other handlers do.
StatsHoldUp ==
    /\ stats.total = stats.successful + stats.failed + stats.pending_retry + stats.invalid
    /\ ~thinned => /\ stats.successful <= With("SUCCESSFUL")
                   /\ stats.total <= Cardinality(DOMAIN rows)

\* A client that polls a row sees it end once: after SUCCESSFUL it reads only
\* SUCCESSFUL or 404, and a row it has found and then lost never comes back,
\* since the id is not given out again.
PollsSeeOneLife ==
    [][polled'.found /\ polled.found =>
           /\ polled.status = "SUCCESSFUL" => polled'.status \in {"SUCCESSFUL", "404"}
           /\ polled.status = "404" => polled'.status = "404"]_vars
=============================================================================
