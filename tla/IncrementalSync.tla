--------------------------- MODULE IncrementalSync ---------------------------
(***************************************************************************)
(* The syncs of one dataset of Connectivity: what _run_sync_for_dataset    *)
(* does to the source's cursor in PostgreSQL, to the Iceberg table and to  *)
(* sync_run, when it is started by the leading replica's scheduler and by  *)
(* POST /sync (services/connectivity/app/ingest_sync.py, cursor_window.py, *)
(* source_registry_base.py, iceberg_writer.py, ingest_scheduler.py).       *)
(*                                                                         *)
(* The source is read whole (overwrite), or incrementally by a property of *)
(* its rows, in one statement (property) or page by page (pages), or by    *)
(* the time and the name of its files (files).  A row may lack the         *)
(* property.  The source's clock does not run backwards: the time of a new *)
(* row or file is not below any there, but it may equal the newest one.    *)
(***************************************************************************)
EXTENDS Naturals, FiniteSets, FiniteSetsExt

CONSTANTS
    Replicas,     \* Connectivity's processes; bound: each runs one sync of the dataset at a time
    MaxRows,      \* bound: the rows or files of the source
    MaxCursor,    \* bound: cursor values
    MaxBoundary,  \* _MAX_BOUNDARY_KEYS
    MaxSnapshots, \* bound: snapshots of a dataset that is overwritten or has no row with a cursor value
    MaxEvents,    \* bound, by mode: requests, failures, lost locks, crashes and changes of quiesced
    None

Rows == 1 .. MaxRows \* numbered in the order of their names, or of their pages

\* last_cursor_value (0: NULL) and cursor_boundary_keys of a source.
CursorRow == [cur : 0 .. MaxCursor, keys : SUBSET Rows]

ASSUME SyncAssumption ==
    /\ MaxRows \in Nat /\ MaxCursor \in Nat /\ MaxBoundary \in Nat \ {0}
    /\ None \notin Replicas /\ None \notin CursorRow

VARIABLES
    mode,       \* how the source is read
    src,        \* the source: row -> cursor value, 0 while the row has none or does not exist
    bare,       \* the rows of the source whose cursor property is null
    table,      \* the Iceberg table: exists, current snapshot, its rows, the resume it carries
    cursor,     \* the cursor in the source's row of PostgreSQL
    announced,  \* snapshot_id of the newest sync_run row, whose event is in the outbox with it
    lock,       \* the replica whose session holds the scheduler's advisory lock
    loop,       \* each replica's scheduler: follow, lead, or lead without the lock with one poll to go or none
    quiesced,   \* connectivity_runtime.quiesced
    job,        \* the sync each replica has in flight
    events,     \* those so far
    overlapped, \* history: two syncs have been in flight together
    capped,     \* history: _cap_boundary dropped an identity
    late        \* history: files that came after a sync had read a later name of the same time, and
                \* rows that came on a page a sync had read, while it read the next ones

source == <<src, bare>>
stores == <<source, table, cursor, announced>>
sched == <<lock, loop, quiesced>>
vars == <<mode, stores, sched, job, events, overlapped, capped, late>>

Idle == [pc |-> "idle", kind |-> None, kept |-> {}, next |-> None, base |-> 0, from |-> None, at |-> 0]
Busy(j) == job[j].pc # "idle"
Happens == events < MaxEvents[mode] /\ events' = events + 1

Init ==
    /\ mode \in {"overwrite", "property", "pages", "files"}
    /\ src = [i \in Rows |-> 0] /\ bare = {}
    /\ table = [exists |-> FALSE, snap |-> 0, rows |-> [i \in Rows |-> 0], stamp |-> None]
    /\ cursor = [cur |-> 0, keys |-> {}]
    /\ announced = 0
    /\ lock = None /\ loop = [r \in Replicas |-> "follow"] /\ quiesced = FALSE
    /\ job = [r \in Replicas |-> Idle]
    /\ events = 0
    /\ overlapped = FALSE /\ capped = FALSE /\ late = {}

-----------------------------------------------------------------------------
(* The external source. *)

\* A sync has read row k, whether or not it has landed.
Taken(k) == table.rows[k] > 0 \/ \E j \in Replicas : k \in job[j].kept

\* A sync reads the source page by page and has row i's place behind it.
Passed(j, i) == mode = "pages" /\ job[j].pc \in {"page", "open"} /\ i <= job[j].at

\* At the newest time, or at the next tick.
InsertRow(i) ==
    /\ src[i] = 0 /\ i \notin bare
    /\ LET now == Max({src[k] : k \in Rows}) IN
         \E c \in {now, now + 1} \ {0} :
             /\ c <= MaxCursor
             /\ src' = [src EXCEPT ![i] = c]
             /\ late' = IF \/ mode = "files" /\ \E k \in Rows : k > i /\ src[k] = c /\ Taken(k)
                           \/ \E j \in Replicas : Passed(j, i)
                        THEN late \cup {i} ELSE late
    /\ UNCHANGED <<mode, bare, table, cursor, announced, sched, job, events, overlapped, capped>>

\* A row without a cursor value.
InsertBare(i) ==
    /\ mode \in {"property", "pages"}
    /\ src[i] = 0 /\ i \notin bare
    /\ bare' = bare \cup {i}
    /\ UNCHANGED <<mode, src, table, cursor, announced, sched, job, events, overlapped, capped, late>>

-----------------------------------------------------------------------------
(* The cursor: CursorTracker and make_property_cursor_commit, select_files and                *)
(* make_column_cursor_commit, where the one key of a cursor is the name of its newest file.     *)

Incremental == mode # "overwrite"

\* keep: rows at or after the cursor c, except the identities already stored at it; rows without
\* a cursor value as long as no cursor is stored.
KeepRows(c) ==
    {i \in Rows : src[i] > c.cur \/ (src[i] > 0 /\ src[i] = c.cur /\ i \notin c.keys)}
        \cup (IF c.cur = 0 THEN bare ELSE {})

\* select_files: pairs of time and name after the stored one.
SelectFiles == {i \in Rows : src[i] > cursor.cur \/ (src[i] > 0 /\ src[i] = cursor.cur /\ \A k \in cursor.keys : i > k)}

Selected ==
    CASE mode = "property" -> KeepRows(cursor)
      [] mode = "files" -> SelectFiles
      [] OTHER -> {i \in Rows : src[i] > 0}

\* The first identities in the order of their hashes, any fixed order here.
CapBoundary(keys) ==
    IF Cardinality(keys) <= MaxBoundary THEN keys
    ELSE CHOOSE some \in SUBSET keys : Cardinality(some) = MaxBoundary

\* result: the cursor to store once every kept row is written, from the one the sync started at.
Merged(from, kept) ==
    LET newest == Max({src[i] : i \in kept})
        ids == {i \in kept : src[i] = newest}
    IN  [cur |-> newest,
         keys |-> IF mode = "files" THEN {Max(ids)}
                  ELSE IF newest = from.cur THEN from.keys \cup ids ELSE ids]

Advance(from, kept) == [Merged(from, kept) EXCEPT !.keys = CapBoundary(Merged(from, kept).keys)]

\* resume_is_newer.
Newer(next) ==
    \/ next.cur > cursor.cur
    \/ mode = "files" /\ next.cur = cursor.cur /\ Max(next.keys) > Max(cursor.keys)

\* The write under FOR UPDATE: it never moves back, and identities at one position are joined.
Store(next) ==
    cursor' = IF Newer(next) THEN next
              ELSE IF mode # "files" /\ next.cur = cursor.cur THEN [cursor EXCEPT !.keys = @ \cup next.keys]
              ELSE cursor

-----------------------------------------------------------------------------
(* One sync. *)

\* Once a row has a cursor value an incremental dataset is not appended to for ever.
Dated == {i \in Rows : src[i] > 0}
Room == (Incremental /\ Dated # {}) \/ table.snap < MaxSnapshots

Start(j, kind) ==
    /\ ~Busy(j)
    /\ Room
    /\ job' = [job EXCEPT ![j].kind = kind, ![j].pc = IF Incremental THEN "adopt" ELSE "read"]
    /\ overlapped' = (overlapped \/ \E k \in Replicas : Busy(k))

\* POST /sync.
RunSync(r) ==
    /\ Happens
    /\ Start(r, "request")
    /\ UNCHANGED <<mode, stores, sched, capped, late>>

\* _submit_due_jobs, in a poll of a replica that believes it leads: not twice under one key.  The
\* interval has passed since the last run; a poll before that changes nothing.
SubmitDue(r) ==
    /\ loop[r] \in {"lead", "one"} /\ ~quiesced
    /\ Start(r, "scheduled")
    /\ loop' = IF loop[r] = "one" THEN [loop EXCEPT ![r] = "none"] ELSE loop
    /\ UNCHANGED <<mode, stores, lock, quiesced, events, capped, late>>

\* Mutant: the cursor a committed snapshot carries is not looked for.
AdoptResume_Skipped(j) ==
    /\ job[j].pc = "adopt"
    /\ job' = [job EXCEPT ![j].pc = "read"]
    /\ UNCHANGED <<mode, stores, sched, events, overlapped, capped, late>>

\* _adopt_committed_resume: the cursor the current snapshot carries is stored when it is not behind.
\* Its two reads and its write are one step: the write looks again, under a lock.
AdoptResume(j) ==
    /\ job[j].pc = "adopt"
    /\ IF table.stamp = None THEN UNCHANGED cursor ELSE Store(table.stamp)
    /\ job' = [job EXCEPT ![j].pc = "read"]
    /\ UNCHANGED <<mode, source, table, announced, sched, events, overlapped, capped, late>>

\* The rows have been read, from cursor from on: the cursor moves if one of them has a value.
Settle(j, from, kept, pc) ==
    LET dated == kept \cap Dated
        moves == Incremental /\ dated # {}
    IN  /\ job' = [job EXCEPT ![j].pc = IF kept = {} THEN "empty" ELSE pc, ![j].kept = kept,
                              ![j].next = IF moves THEN Advance(from, dated) ELSE None,
                              ![j].from = None, ![j].at = 0]
        /\ capped' = (capped \/ (moves /\ Advance(from, dated) # Merged(from, dated)))

\* fetch_for_dataset of a source that is read in one statement or from one list of files: the
\* cursor, then the rows, and what happens between the two touches neither.
Fetch(j) ==
    /\ job[j].pc = "read" /\ mode # "pages"
    /\ Settle(j, cursor, Selected, "open")
    /\ UNCHANGED <<mode, stores, sched, events, overlapped, late>>

\* fetch_for_dataset of a source with pages: the cursor is read, batches is yet to run.
OpenPages(j) ==
    /\ job[j].pc = "read" /\ mode = "pages"
    /\ job' = [job EXCEPT ![j].pc = "page", ![j].from = cursor]
    /\ UNCHANGED <<mode, stores, sched, events, overlapped, capped, late>>

\* One turn of batches' loop, a page being one row's place: the first page with a row opens the
\* transaction, and the source may change before the next one is asked for.
ReadPage(j) ==
    /\ job[j].pc = "page" /\ job[j].at < MaxRows
    /\ LET place == job[j].at + 1
           kept == job[j].kept \cup ({place} \cap KeepRows(job[j].from))
       IN  job' = [job EXCEPT ![j].at = place, ![j].kept = kept,
                              ![j].pc = IF job[j].kept = {} /\ kept # {} THEN "open" ELSE "page"]
    /\ UNCHANGED <<mode, stores, sched, events, overlapped, capped, late>>

\* The last page names no next one.
LastPage(j) ==
    /\ job[j].pc = "page" /\ job[j].at = MaxRows
    /\ Settle(j, job[j].from, job[j].kept, "commit")
    /\ UNCHANGED <<mode, stores, sched, events, overlapped, late>>

\* Mutant: the cursor is stored as soon as the rows are staged.
OpenTransaction_CursorFirst(j) ==
    /\ job[j].pc = "open"
    /\ table' = [table EXCEPT !.exists = TRUE]
    /\ IF job[j].next = None THEN UNCHANGED cursor ELSE Store(job[j].next)
    /\ job' = [job EXCEPT ![j].pc = IF mode = "pages" THEN "page" ELSE "commit", ![j].base = table.snap]
    /\ UNCHANGED <<mode, source, announced, sched, events, overlapped, capped, late>>

\* SnapshotWriter._open, at the first batch: the transaction's base is the snapshot of that moment.
OpenTransaction(j) ==
    /\ job[j].pc = "open"
    /\ table' = [table EXCEPT !.exists = TRUE]
    /\ job' = [job EXCEPT ![j].pc = IF mode = "pages" THEN "page" ELSE "commit", ![j].base = table.snap]
    /\ UNCHANGED <<mode, source, cursor, announced, sched, events, overlapped, capped, late>>

\* What the table is once j's transaction has landed: note_resume stamped the snapshot.
Landed(j) ==
    [exists |-> TRUE, snap |-> table.snap + 1, stamp |-> job[j].next,
     rows |-> [i \in Rows |-> (IF Incremental THEN table.rows[i] ELSE 0)
                              + (IF i \in job[j].kept THEN 1 ELSE 0)]]

\* commit_transaction, or an error of it that _landed sees through; the catalogue refuses a
\* transaction whose base is no longer the current snapshot.
CommitSnapshot(j) ==
    /\ job[j].pc = "commit"
    /\ IF table.snap = job[j].base
       THEN table' = Landed(j) /\ job' = [job EXCEPT ![j].pc = "cursor", ![j].base = table.snap + 1]
       ELSE job' = [job EXCEPT ![j] = Idle] /\ UNCHANGED table
    /\ UNCHANGED <<mode, source, cursor, announced, sched, events, overlapped, capped, late>>

\* The commit lands, its answer is lost and the catalogue cannot be asked: the sync has failed.
CommitUnknown(j) ==
    /\ job[j].pc = "commit" /\ table.snap = job[j].base /\ Happens
    /\ table' = Landed(j)
    /\ job' = [job EXCEPT ![j] = Idle]
    /\ UNCHANGED <<mode, source, cursor, announced, sched, overlapped, capped, late>>

\* Mutant: a sync that read no row ends there.
CommitEmpty_Silent(j) ==
    /\ job[j].pc = "empty"
    /\ job' = [job EXCEPT ![j] = Idle]
    /\ UNCHANGED <<mode, stores, sched, events, overlapped, capped, late>>

\* write_snapshot without rows: an append has nothing to create the table from, an overwrite
\* empties it, and the snapshot reported is the current one.
CommitEmpty(j) ==
    /\ job[j].pc = "empty"
    /\ IF Incremental /\ ~table.exists
       THEN job' = [job EXCEPT ![j] = Idle] /\ UNCHANGED table
       ELSE LET emptied == ~Incremental /\ table.exists IN
            /\ table' = IF emptied THEN Landed(j) ELSE table
            /\ job' = [job EXCEPT ![j].pc = "cursor", ![j].base = table.snap + (IF emptied THEN 1 ELSE 0)]
    /\ UNCHANGED <<mode, source, cursor, announced, sched, events, overlapped, capped, late>>

\* commit_cursor, after the snapshot.
CommitCursor(j) ==
    /\ job[j].pc = "cursor"
    /\ IF job[j].next = None THEN UNCHANGED cursor ELSE Store(job[j].next)
    /\ job' = [job EXCEPT ![j].pc = "finalize"]
    /\ UNCHANGED <<mode, source, table, announced, sched, events, overlapped, capped, late>>

\* _finalize_sync: the sync_run row and the event, in one transaction.
Finalize(j) ==
    /\ job[j].pc = "finalize"
    /\ announced' = job[j].base
    /\ job' = [job EXCEPT ![j] = Idle]
    /\ UNCHANGED <<mode, source, table, cursor, sched, events, overlapped, capped, late>>

\* The source, the catalogue or PostgreSQL raises, or the fetch times out: _record_sync_failure.
SyncFails(j) ==
    /\ Busy(j) /\ job[j].pc # "orphan" /\ Happens
    /\ job' = [job EXCEPT ![j] = Idle]
    /\ UNCHANGED <<mode, stores, sched, overlapped, capped, late>>

-----------------------------------------------------------------------------
(* Leadership: run_scheduler_forever. *)

TryLock(r) ==
    /\ loop[r] = "follow" /\ lock = None
    /\ lock' = r /\ loop' = [loop EXCEPT ![r] = "lead"]
    /\ UNCHANGED <<mode, stores, quiesced, job, events, overlapped, capped, late>>

\* PostgreSQL ends the leader's session and frees the lock; the leader may be about to poll.
LoseConnection ==
    /\ lock # None /\ Happens
    /\ lock' = None
    /\ loop' = [loop EXCEPT ![lock] = "one"]
    /\ UNCHANGED <<mode, stores, quiesced, job, overlapped, capped, late>>

\* cancel_all: a task is cancelled at its await, but a commit on a thread runs on.
Cancelled(state) ==
    IF state.kind = "request" THEN state
    ELSE IF state.pc \in {"commit", "empty", "orphan"} THEN [state EXCEPT !.pc = "orphan"]
    ELSE Idle

\* The leader's next SELECT 1 fails.
NoticeLoss(r) ==
    /\ loop[r] \in {"one", "none"}
    /\ loop' = [loop EXCEPT ![r] = "follow"]
    /\ job' = [job EXCEPT ![r] = Cancelled(@)]
    /\ UNCHANGED <<mode, stores, lock, quiesced, events, overlapped, capped, late>>

\* The thread of a cancelled job ends: its commit lands unless the table has moved on.
OrphanEnds(j) ==
    /\ job[j].pc = "orphan"
    /\ table' = IF job[j].kept # {} /\ table.snap = job[j].base THEN Landed(j) ELSE table
    /\ job' = [job EXCEPT ![j] = Idle]
    /\ UNCHANGED <<mode, source, cursor, announced, sched, events, overlapped, capped, late>>

Crash(r) ==
    /\ Happens /\ (loop[r] # "follow" \/ Busy(r))
    /\ loop' = [loop EXCEPT ![r] = "follow"]
    /\ lock' = IF lock = r THEN None ELSE lock
    /\ job' = [job EXCEPT ![r] = Idle]
    /\ UNCHANGED <<mode, stores, quiesced, overlapped, capped, late>>

\* POST /admin/quiesce.
Quiesce ==
    /\ Happens
    /\ quiesced' = ~quiesced
    /\ UNCHANGED <<mode, stores, lock, loop, job, overlapped, capped, late>>

-----------------------------------------------------------------------------
SyncStep(j) ==
    \/ AdoptResume(j) \/ Fetch(j) \/ OpenPages(j) \/ ReadPage(j) \/ LastPage(j) \/ OpenTransaction(j)
    \/ CommitSnapshot(j) \/ CommitEmpty(j) \/ CommitCursor(j) \/ Finalize(j) \/ OrphanEnds(j)

Poll(r) == TryLock(r) \/ SubmitDue(r) \/ NoticeLoss(r)

Next ==
    \/ \E i \in Rows : InsertRow(i) \/ InsertBare(i)
    \/ \E r \in Replicas : RunSync(r) \/ Poll(r) \/ Crash(r)
    \/ \E j \in Replicas : SyncStep(j) \/ CommitUnknown(j) \/ SyncFails(j)
    \/ LoseConnection \/ Quiesce

\* A replica's loop polls for ever, coroutines and threads go on.
Fairness ==
    /\ \A j \in Replicas : WF_vars(SyncStep(j))
    /\ \A r \in Replicas : WF_vars(TryLock(r)) /\ WF_vars(SubmitDue(r)) /\ WF_vars(NoticeLoss(r))

Spec == Init /\ [][Next]_vars /\ Fairness

-----------------------------------------------------------------------------
(* Properties. *)

\* As long as syncs do not overlap, a row with a cursor value is appended once, whatever fails or
\* crashes between the snapshot's commit and the cursor's (_adopt_committed_resume, note_resume); a
\* dataset that is overwritten never holds a row twice.  A row whose cursor property is null is
\* appended by every sync until the source has a cursor (CursorTracker.keep).
RowsLandOnce ==
    \A i \in Rows :
        (Incremental => ~overlapped /\ ~capped /\ i \notin bare) => table.rows[i] <= 1

\* A sync that resumes at cursor c does not read row i again.
Covers(c, i) ==
    \/ src[i] < c.cur
    \/ src[i] = c.cur /\ (i \in c.keys \/ (mode = "files" /\ \E k \in c.keys : i < k))

\* The stored cursor never passes a row with a cursor value that is not in the table, also when
\* syncs of two replicas overlap and while the source changes between two pages: no later sync
\* would read it (_run_sync_for_dataset commits the snapshot first).  The rows of late are the
\* exception, and so are those whose cursor property is null.
NothingSkipped ==
    Incremental =>
        \A i \in Dated \ late : Covers(cursor, i) => table.rows[i] > 0

\* Under the leader's schedule every such row reaches the table and the last snapshot is announced,
\* also after a commit that landed in a sync that failed (the next, empty, sync reports it).
EventuallyIngested ==
    <>[](Incremental /\ Dated # {} /\ ~quiesced =>
            /\ \A i \in Dated \ late : table.rows[i] > 0
            /\ announced = table.snap)
=============================================================================
