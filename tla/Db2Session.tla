----------------------------- MODULE Db2Session -----------------------------
(***************************************************************************)
(* One ADBC connection to Db2: the DRDA session (drda.Conn), the cursor    *)
(* objects it hands out (drda.Query), the record readers and statements    *)
(* built on them (driver/db2) and, as an external party, the server's one  *)
(* cursor section, its unit of work and its dynamic-SQL package.           *)
(*                                                                         *)
(* A worker is a goroutine that drives one statement and at most one live  *)
(* reader.  An API call is the sequence of steps between leaving and       *)
(* re-entering pc = "idle"; each step is one stretch of code that runs     *)
(* either without Conn.mu, or under it and with one round trip.            *)
(*                                                                         *)
(* Abstractions: rows and units of work are counted and identified, not    *)
(* valued; SQL text is reduced to the operation it belongs to; the sizes   *)
(* that end a batch (batchSize, batchBytes) are a free choice.             *)
(***************************************************************************)
EXTENDS Integers, FiniteSets

CONSTANTS
    Workers,      \* goroutines using the connection
    NoWorker,     \* "nil": no query, no cursor, mutex free
    MaxRows,      \* bound: rows of one result set
    MaxWork,      \* bound: row changes made over the connection's life
    Serial,       \* TRUE: callers overlap no two API calls on the connection
    Faults,       \* subset of FaultKinds the peer may show
    NoAutoBind    \* Config.NoAutoBind

\* "break":  the TCP connection may be lost;
\* "nopkg":  the dynamic-SQL package may be missing, or be dropped;
\* "decode": the driver may be unable to decode a reply;
\* "empty":  the server may keep answering CNTQRY with no rows and no end.
FaultKinds == {"break", "nopkg", "decode", "empty"}

ASSUME SessionAssumption ==
    /\ NoWorker \notin Workers
    /\ MaxRows \in Nat
    /\ MaxWork \in Nat
    /\ Serial \in BOOLEAN
    /\ Faults \subseteq FaultKinds
    /\ NoAutoBind \in BOOLEAN

VARIABLES
    \* drda.Conn and connectionImpl
    mu,             \* holder of Conn.mu
    openQuery,      \* Conn.openQuery: the worker that owns the query, or nil
    bindAttempted,  \* Conn.bindAttempted
    autoCommit,     \* connectionImpl.autoCommit
    connClosed,     \* connectionImpl.closed
    \* drda.Query and streamingRecordReader, one of each per worker
    query,
    reader,
    call,           \* each worker's control state: where it is in which operation,
                    \* and the row changes the operation has made
    \* the server and the link to it
    link,           \* the TCP connection is up
    cursor,         \* whose query is open in section 1
    pkg,            \* the dynamic-SQL package exists
    uow,            \* row changes of the current unit of work
    committed,      \* row changes made durable
    \* history
    made,           \* row changes handed out so far
    acked,          \* changes whose autocommitted call returned success
    orphan          \* changes left behind by calls that failed

connVars   == <<mu, openQuery, bindAttempted, autoCommit, connClosed>>
serverVars == <<link, cursor, pkg, uow, committed>>
history    == <<made, acked, orphan>>
vars == <<connVars, query, reader, call, serverVars, history>>

---------------------------------------------------------------------------
(* Types *)

WorkerOrNil == Workers \cup {NoWorker}
Work == 1..MaxWork

\* Operations that run SQL in section 1, and the ones that end the unit of work.
OpenOps   == {"query", "meta", "params"}
PrepOps   == {"describe", "prepbatch", "prepquery"}
SqlOps    == OpenOps \cup PrepOps \cup {"update", "set", "batch"}
BindOps   == {"query", "meta", "update", "set"} \cup PrepOps
CommitOps == {"commit", "autocommit", "finish", "enable"}
UndoOps   == {"rollback", "closerollback"}
Ops       == SqlOps \cup CommitOps \cup UndoOps \cup {"none"}

Pcs == {"idle", "ensure", "cmd", "bind", "autocommit", "flag", "sock",
        "next", "take", "fetch", "batch", "close", "finish"}

Activity == [pc: Pcs, op: Ops, work: SUBSET Work]

\* pending: Query.pending; left: rows of the result the server has not sent yet.
Query == [done: BOOLEAN, closed: BOOLEAN, pending: 0..MaxRows, left: 0..MaxRows]

\* buffered: streamingRecordReader.buffered (or the rows of queryAll); owed: rows of
\* the result not delivered yet; cut: another call closed the cursor.
Reader == [mode: {"none", "reader", "meta", "discard", "released"},
           buffered: Nat, owed: Int,
           err: BOOLEAN, done: BOOLEAN, closed: BOOLEAN, cut: BOOLEAN]

TypeOK ==
    /\ mu \in WorkerOrNil
    /\ openQuery \in WorkerOrNil
    /\ bindAttempted \in BOOLEAN
    /\ autoCommit \in BOOLEAN
    /\ connClosed \in BOOLEAN
    /\ query \in [Workers -> Query]
    /\ reader \in [Workers -> Reader]
    /\ call \in [Workers -> Activity]
    /\ link \in BOOLEAN
    /\ cursor \in WorkerOrNil
    /\ pkg \in BOOLEAN
    /\ uow \subseteq Work
    /\ committed \subseteq Work
    /\ made \in 0..MaxWork
    /\ acked \subseteq Work
    /\ orphan \subseteq Work

---------------------------------------------------------------------------
(* Initial state: Database.Open has connected; nothing has been executed. *)

NoQuery  == [done |-> TRUE, closed |-> TRUE, pending |-> 0, left |-> 0]
NoReader == [mode |-> "none", buffered |-> 0, owed |-> 0,
             err |-> FALSE, done |-> FALSE, closed |-> FALSE, cut |-> FALSE]
NoCall   == [pc |-> "idle", op |-> "none", work |-> {}]

Init ==
    /\ mu = NoWorker
    /\ openQuery = NoWorker
    /\ bindAttempted = FALSE
    /\ autoCommit = TRUE
    /\ connClosed = FALSE
    /\ query = [w \in Workers |-> NoQuery]
    /\ reader = [w \in Workers |-> NoReader]
    /\ call = [w \in Workers |-> NoCall]
    /\ link = TRUE
    /\ cursor = NoWorker
    /\ pkg \in {TRUE, "nopkg" \notin Faults}
    /\ uow = {}
    /\ committed = {}
    /\ made = 0
    /\ acked = {}
    /\ orphan = {}

---------------------------------------------------------------------------
(* Entering API calls *)

\* Worker w goes on at `where' of operation o; a call that returns is forgotten.
To(w, where, o, work) ==
    call' = [call EXCEPT ![w] =
                IF where = "idle" THEN NoCall ELSE [pc |-> where, op |-> o, work |-> work]]

Goto(w, where) == To(w, where, call[w].op, call[w].work)
Done(w) == Goto(w, "idle")

Idle(w) ==
    /\ call[w].pc = "idle"
    /\ Serial => \A v \in Workers : call[v].pc = "idle"

Enter(w, where, o) ==
    /\ Idle(w)
    /\ To(w, where, o, {})
    /\ UNCHANGED <<mu, openQuery, bindAttempted, serverVars, history>>

Call(w, o) ==
    /\ Enter(w, "ensure", o)
    /\ UNCHANGED <<autoCommit, connClosed, query, reader>>

\* Executing a statement again invalidates its earlier results, so a statement is
\* executed only once its reader has been released; other readers may be open.
Execute(w, o) == reader[w].mode = "none" /\ Call(w, o)

ExecuteQuery(w)       == Execute(w, "query")
ExecuteBoundQuery(w)  == Execute(w, "prepquery")
QueryAll(w)           == Execute(w, "meta")
ExecuteUpdate(w)      == Execute(w, "update")
ExecuteBoundUpdate(w) == Execute(w, "prepbatch")
ExecuteSchema(w)      == Execute(w, "describe")

\* SetOption for the current schema or the isolation level runs a SET statement.
SetSessionOption(w) == Call(w, "set")

\* Commit and Rollback are refused while autocommit is on.
Commit(w)   == ~autoCommit /\ Call(w, "commit")
Rollback(w) == ~autoCommit /\ Call(w, "rollback")

\* Turning autocommit on first commits what is pending; off is only a flag.
EnableAutoCommit(w) == ~autoCommit /\ Call(w, "enable")

DisableAutoCommit(w) ==
    /\ Enter(w, "idle", "none")
    /\ autoCommit' = FALSE
    /\ UNCHANGED <<connClosed, query, reader>>

\* Close rolls back first unless autocommit is on; the socket goes either way.
CloseConnection(w) ==
    /\ ~connClosed
    /\ connClosed' = TRUE
    /\ IF autoCommit THEN Enter(w, "sock", "none")
                     ELSE Enter(w, "ensure", "closerollback")
    /\ UNCHANGED <<autoCommit, query, reader>>

\* Query and reader are garbage once the reader is released.
Forget(w) ==
    /\ query' = [query EXCEPT ![w] = NoQuery]
    /\ reader' = [reader EXCEPT ![w] = NoReader]

\* RecordReader.Next: a reader that failed or ended answers false at once.
ReaderNext(w) ==
    /\ reader[w].mode = "reader"
    /\ ~reader[w].err /\ ~reader[w].done /\ ~reader[w].closed
    /\ Enter(w, "next", "none")
    /\ UNCHANGED <<autoCommit, connClosed, query, reader>>

\* RecordReader.Release, dropping the last reference.
ReaderRelease(w) ==
    /\ reader[w].mode = "reader"
    /\ IF reader[w].closed
       THEN /\ Enter(w, "idle", "none")
            /\ Forget(w)
       ELSE /\ Enter(w, "close", "none")
            /\ UNCHANGED query
            /\ reader' = [reader EXCEPT ![w].mode = "released", ![w].closed = TRUE]
    /\ UNCHANGED <<autoCommit, connClosed>>

---------------------------------------------------------------------------
(* Query.closeLocked, as the values it leaves behind *)

SendsCLSQRY(x) == ~query[x].closed /\ ~query[x].done

CloseFails(x) == SendsCLSQRY(x) /\ ~(link /\ cursor = x)

QueryClosed(x) ==
    IF query[x].closed
    THEN query
    ELSE [query EXCEPT ![x].closed = TRUE, ![x].pending = 0, ![x].done = @ \/ link]

CursorClosed(x) == IF SendsCLSQRY(x) /\ cursor = x THEN NoWorker ELSE cursor

---------------------------------------------------------------------------
(* Leaving a call with an error.  Every Conn method unlocks on the way out. *)

Abort(w) ==
    /\ mu' = NoWorker
    /\ Goto(w, IF call[w].op = "closerollback" THEN "sock" ELSE "idle")
    /\ orphan' = orphan \cup call[w].work

---------------------------------------------------------------------------
(* Conn.ensureNoOpenQuery, the first thing under the lock in every method *)

\* Seeded fault: commands are sent without closing the open cursor.
Bug_LeavesCursor == FALSE

NeedsClose == openQuery # NoWorker /\ ~query[openQuery].done

EnsureNoOpenQuery(w) ==
    /\ call[w].pc = "ensure"
    /\ mu = NoWorker
    /\ openQuery' = NoWorker
    /\ \/ /\ ~NeedsClose
          /\ UNCHANGED <<query, reader, cursor>>
       \/ /\ NeedsClose
          /\ query' = QueryClosed(openQuery)
          /\ cursor' = CursorClosed(openQuery)
          /\ reader' = [reader EXCEPT ![openQuery].cut = TRUE]
    /\ IF NeedsClose /\ CloseFails(openQuery)
       THEN Abort(w)
       ELSE /\ mu' = w
            /\ Goto(w, "cmd")
            /\ UNCHANGED orphan
    /\ UNCHANGED <<bindAttempted, autoCommit, connClosed, link, pkg,
                   uow, committed, made, acked>>

---------------------------------------------------------------------------
(* The command itself, under the lock *)

Holding(w) == call[w].pc = "cmd" /\ mu = w

Return(w, where) == mu' = NoWorker /\ Goto(w, where)

ServerDropsUow == uow' = {} /\ cursor' = NoWorker

\* The round trip fails: the link is gone.
CommandLinkDown(w) ==
    /\ Holding(w)
    /\ ~link
    /\ Abort(w)
    /\ UNCHANGED <<openQuery, bindAttempted, autoCommit, connClosed, query, reader,
                   serverVars, made, acked>>

\* Seeded fault: any failed statement is taken for a missing package.
Bug_AnyErrorBinds == TRUE

IsOurPackageNotFound == ~pkg

\* SQL0805N.  Only Query, ExecImmediate and Describe try to bind, once.
PackageMissing(w) ==
    /\ Holding(w)
    /\ link /\ IsOurPackageNotFound
    /\ call[w].op \in SqlOps
    /\ IF call[w].op \in BindOps /\ ~NoAutoBind /\ ~bindAttempted
       THEN /\ bindAttempted' = TRUE
            /\ Goto(w, "bind")
            /\ UNCHANGED <<mu, orphan>>
       ELSE /\ Abort(w)
            /\ UNCHANGED bindAttempted
    /\ UNCHANGED <<openQuery, autoCommit, connClosed, query, reader,
                   serverVars, made, acked>>

\* bindPackage ends with an RDBCMM, after which the operation is retried.
BindPackage(w) ==
    /\ call[w].pc = "bind"
    /\ \/ /\ link
          /\ pkg' = TRUE
          /\ committed' = committed \cup uow
          /\ uow' = {}
          /\ Goto(w, "cmd")
          /\ UNCHANGED <<mu, orphan>>
       \/ /\ Abort(w)
          /\ UNCHANGED <<pkg, uow, committed>>
    /\ UNCHANGED <<openQuery, bindAttempted, autoCommit, connClosed, query, reader,
                   link, cursor, made, acked>>

\* Row changes made under numbers not used before.
NewWork(n) == (made + 1)..(made + n)

WorkDone(w, n, where) ==
    /\ made' = made + n
    /\ uow' = uow \cup NewWork(n)
    /\ To(w, where, call[w].op, call[w].work \cup NewWork(n))

\* The server refuses the statement.  A deadlock or timeout (SQL0911N) also
\* rolls the unit of work back; a batch keeps the rows before the failing one.
StatementFails(w) ==
    /\ Holding(w)
    /\ link /\ pkg
    /\ call[w].op \in SqlOps
    /\ mu' = NoWorker
    /\ \/ /\ ServerDropsUow \/ UNCHANGED <<uow, cursor>>
          /\ Done(w)
          /\ orphan' = orphan \cup call[w].work
          /\ UNCHANGED made
       \/ /\ call[w].op = "batch" /\ cursor = NoWorker
          /\ \E n \in 1..(MaxWork - made) :
                /\ WorkDone(w, n, "idle")
                /\ orphan' = orphan \cup call[w].work \cup NewWork(n)
          /\ UNCHANGED cursor
    /\ UNCHANGED <<openQuery, bindAttempted, autoCommit, connClosed, query, reader,
                   link, pkg, committed, acked>>

StartReading(w, mode, rows) ==
    reader' = [reader EXCEPT ![w] = [NoReader EXCEPT !.mode = mode, !.owed = rows]]

\* PRPSQLSTT + OPNQRY: the first block may carry rows and even the end.  A
\* described column count that disagrees with QRYDSC makes ExecuteQuery close
\* the cursor again.
OpenCursor(w) ==
    /\ Holding(w)
    /\ link /\ pkg
    /\ call[w].op \in OpenOps
    /\ cursor = NoWorker
    /\ \E t \in 0..MaxRows, k \in 0..MaxRows, ended \in BOOLEAN :
          /\ k <= t
          /\ ended => k = t
          /\ query' = [query EXCEPT ![w] = [done |-> ended, closed |-> FALSE,
                                            pending |-> k, left |-> t - k]]
          /\ cursor' = IF ended THEN NoWorker ELSE w
          /\ \/ call[w].op # "meta" /\ StartReading(w, "reader", t) /\ Return(w, "idle")
             \/ call[w].op = "query" /\ StartReading(w, "discard", t) /\ Return(w, "close")
             \/ call[w].op = "meta" /\ StartReading(w, "meta", t) /\ Return(w, "next")
    /\ openQuery' = w
    /\ UNCHANGED <<bindAttempted, autoCommit, connClosed, link, pkg,
                   uow, committed, history>>

\* consume returns early on a reply it cannot decode: the caller gets an error
\* and Conn.openQuery is never set, though the server has opened the cursor.
OpenUndecodable(w) ==
    /\ "decode" \in Faults
    /\ Holding(w)
    /\ link /\ pkg
    /\ call[w].op \in OpenOps
    /\ cursor = NoWorker
    /\ cursor' = w
    /\ Abort(w)
    /\ UNCHANGED <<openQuery, bindAttempted, autoCommit, connClosed, query, reader,
                   link, pkg, uow, committed, made, acked>>

\* EXCSQLIMM, or EXCSQLSTT for a statement given to ExecuteQuery that turns out
\* to have no result set.
ExecuteStatement(w) ==
    /\ Holding(w)
    /\ link /\ pkg
    /\ call[w].op \in {"update", "set", "query"}
    /\ call[w].op = "query" => cursor = NoWorker
    /\ \E n \in {0, 1} :
          /\ made + n <= MaxWork
          /\ call[w].op = "set" => n = 0
          /\ WorkDone(w, n, "autocommit")
    /\ mu' = NoWorker
    /\ UNCHANGED <<openQuery, bindAttempted, autoCommit, connClosed, query, reader,
                   link, cursor, pkg, committed, acked, orphan>>

\* PRPSQLSTT + DSCSQLSTT; for bound statements the execution follows, in a
\* locked region of its own.
Describe(w) ==
    /\ Holding(w)
    /\ link /\ pkg
    /\ call[w].op \in PrepOps
    /\ cursor = NoWorker
    /\ mu' = NoWorker
    /\ \/ call[w].op = "describe"  /\ Done(w)
       \/ call[w].op = "prepquery" /\ To(w, "ensure", "params", {})
       \/ call[w].op = "prepbatch" /\ To(w, "ensure", "batch", {})
       \/ call[w].op = "prepbatch" /\ Goto(w, "autocommit")
    /\ UNCHANGED <<openQuery, bindAttempted, autoCommit, connClosed, query, reader,
                   link, cursor, pkg, uow, committed, history>>

\* One ExecBatch: prepare again, then every row.  More batches may follow.
ExecBatch(w) ==
    /\ Holding(w)
    /\ link /\ pkg
    /\ call[w].op = "batch"
    /\ cursor = NoWorker
    /\ \E n \in 1..(MaxWork - made), where \in {"ensure", "autocommit"} :
          WorkDone(w, n, where)
    /\ mu' = NoWorker
    /\ UNCHANGED <<openQuery, bindAttempted, autoCommit, connClosed, query, reader,
                   link, cursor, pkg, committed, acked, orphan>>

\* RDBCMM.  The server may refuse and roll back instead, or the link may break
\* after the commit but before its reply.
CommitReplies == {"ok", "refused"} \cup (IF "break" \in Faults THEN {"lost"} ELSE {})

\* Seeded fault: the SQLCODE of the reply to RDBCMM is not looked at.
Bug_IgnoresSqlcode(reply) == reply # "lost"

CommitSucceeds(reply) == reply = "ok"

SendCommit(w) ==
    /\ Holding(w)
    /\ link
    /\ call[w].op \in CommitOps
    /\ \E reply \in CommitReplies :
          /\ committed' = IF reply = "refused" THEN committed ELSE committed \cup uow
          /\ uow' = {}
          /\ cursor' = IF reply = "ok" THEN cursor ELSE NoWorker
          /\ link' = (reply # "lost")
          /\ IF CommitSucceeds(reply)
             THEN /\ Return(w, IF call[w].op = "enable" THEN "flag" ELSE "idle")
                  /\ acked' = IF call[w].op = "autocommit" THEN acked \cup call[w].work ELSE acked
                  /\ UNCHANGED orphan
             ELSE /\ Abort(w)
                  /\ UNCHANGED acked
    /\ UNCHANGED <<openQuery, bindAttempted, autoCommit, connClosed, query, reader,
                   pkg, made>>

\* RDBRLLBCK: the server also closes its cursors.
SendRollback(w) ==
    /\ Holding(w)
    /\ link
    /\ call[w].op \in UndoOps
    /\ ServerDropsUow
    /\ Return(w, IF call[w].op = "closerollback" THEN "sock" ELSE "idle")
    /\ UNCHANGED <<openQuery, bindAttempted, autoCommit, connClosed, query, reader,
                   link, pkg, committed, history>>

---------------------------------------------------------------------------
(* What the driver layer does after the command *)

\* Seeded fault: the flag is not looked at.
Bug_NeverCommits == FALSE

CommitsAfterStatement == autoCommit

Continue(w, o) ==
    /\ To(w, IF o = "none" THEN "idle" ELSE "ensure", o, call[w].work)
    /\ UNCHANGED <<connVars, query, reader, serverVars, history>>

AutoCommitIfNeeded(w) ==
    /\ call[w].pc = "autocommit"
    /\ Continue(w, IF CommitsAfterStatement THEN "autocommit" ELSE "none")

\* queryFinished ignores the outcome of its commit.
QueryFinished(w) ==
    /\ call[w].pc = "finish"
    /\ Continue(w, IF autoCommit THEN "finish" ELSE "none")

SetAutoCommitFlag(w) ==
    /\ call[w].pc = "flag"
    /\ autoCommit' = TRUE
    /\ Done(w)
    /\ UNCHANGED <<mu, openQuery, bindAttempted, connClosed, query, reader,
                   serverVars, history>>

CloseSocket(w) ==
    /\ call[w].pc = "sock"
    /\ mu = NoWorker
    /\ link' = FALSE
    /\ ServerDropsUow
    /\ Done(w)
    /\ UNCHANGED <<connVars, query, reader, pkg, committed, history>>

---------------------------------------------------------------------------
(* Reading rows: streamingRecordReader.takeRows and queryAll over Query.Next *)

\* Everything a step of Query.Next outside the lock leaves alone.
LocalStep == UNCHANGED <<connVars, serverVars, history>>

\* A nil batch: takeRows hands out what it buffered, or the reader is done and
\* closes itself; queryAll goes on to close its query.
EndOfRows(w) ==
    LET drained == reader[w].mode = "reader" /\ reader[w].buffered = 0 IN
    /\ Goto(w, IF reader[w].mode = "reader" /\ ~drained THEN "batch" ELSE "close")
    /\ reader' = [reader EXCEPT ![w].done = @ \/ drained, ![w].closed = @ \/ drained]

\* The batch is large enough: takeRows stops pulling.
StopTaking(w) ==
    /\ call[w].pc = "next"
    /\ reader[w].mode = "reader"
    /\ reader[w].buffered > 0
    /\ Goto(w, "batch")
    /\ UNCHANGED <<query, reader>>
    /\ LocalStep

\* Seeded faults: done is tested before the rows still pending, or not at all.
Bug_EndsEarly(w)  == query[w].done \/ query[w].closed
Bug_ForgetsDone(w) == query[w].pending = 0 /\ query[w].closed

Exhausted(w) == query[w].pending = 0 /\ (query[w].done \/ query[w].closed)

\* Query.Next looks at the query without the lock ...
QueryNext(w) ==
    /\ call[w].pc = "next"
    /\ \/ /\ Exhausted(w)
          /\ EndOfRows(w)
       \/ /\ ~Exhausted(w)
          /\ Goto(w, IF query[w].pending > 0 THEN "take" ELSE "fetch")
          /\ UNCHANGED reader
    /\ UNCHANGED query
    /\ LocalStep

\* Seeded fault: the rows handed out stay pending.
Bug_KeepsPending(w) == query

Taken(w) == [query EXCEPT ![w].pending = 0]

\* ... and takes the pending rows without it; a nil slice by then is the end.
TakePending(w) ==
    /\ call[w].pc = "take"
    /\ query' = Taken(w)
    /\ \/ /\ query[w].pending = 0
          /\ EndOfRows(w)
       \/ /\ query[w].pending > 0
          /\ Goto(w, "next")
          /\ reader' = [reader EXCEPT ![w].buffered = @ + query[w].pending]
    /\ LocalStep

\* A CNTQRY that brings rows, perhaps with ENDQRYRM.
FetchRows(w) ==
    /\ link /\ cursor = w
    /\ \E k \in 1..query[w].left, ended \in BOOLEAN :
          /\ ended => k = query[w].left
          /\ query' = [query EXCEPT ![w].left = @ - k, ![w].done = ended]
          /\ cursor' = IF ended THEN NoWorker ELSE w
          /\ reader' = [reader EXCEPT ![w].buffered = @ + k]
    /\ Goto(w, "next")
    /\ UNCHANGED uow

\* Seeded fault: empty replies are answered with another CNTQRY for ever.
Bug_AsksForever(w) ==
    /\ link /\ cursor = w
    /\ \/ /\ query[w].left = 0
          /\ cursor' = NoWorker
          /\ query' = [query EXCEPT ![w].done = TRUE]
          /\ EndOfRows(w)
       \/ /\ "empty" \in Faults
          /\ Goto(w, "next")
          /\ UNCHANGED <<query, reader, cursor>>
    /\ UNCHANGED uow

\* ENDQRYRM alone; or three empty replies in a row, after which the driver
\* treats the query as ended although the cursor is still open.
FetchEnd(w) ==
    /\ link /\ cursor = w
    /\ \/ query[w].left = 0 /\ cursor' = NoWorker
       \/ "empty" \in Faults /\ UNCHANGED cursor
    /\ query' = [query EXCEPT ![w].done = TRUE]
    /\ EndOfRows(w)
    /\ UNCHANGED uow

\* The link is down; the server knows no such cursor (QRYNOPRM); the server ends
\* the query with an error, with or without rolling back; or the block does not
\* decode, which leaves the cursor open on both sides.
FetchFails(w) ==
    /\ \/ (~link \/ ("decode" \in Faults /\ cursor = w)) /\ UNCHANGED <<query, cursor, uow>>
       \/ /\ link
          /\ query' = [query EXCEPT ![w].done = TRUE]
          /\ \/ cursor # w /\ UNCHANGED <<cursor, uow>>
             \/ cursor = w /\ cursor' = NoWorker /\ uow' \in {uow, {}}
    /\ IF reader[w].mode = "meta"
       THEN /\ Goto(w, "close")
            /\ reader' = [reader EXCEPT ![w].mode = "discard"]
       ELSE /\ Done(w)
            /\ reader' = [reader EXCEPT ![w].err = TRUE]

\* ... then locks and sends CNTQRY without looking at done and closed again.
Fetch(w) ==
    /\ call[w].pc = "fetch"
    /\ mu = NoWorker
    /\ FetchRows(w) \/ FetchEnd(w) \/ FetchFails(w)
    /\ UNCHANGED <<connVars, link, pkg, committed, history>>

\* Seeded fault: the cut runs one past the buffered rows.
Bug_CutsPastBuffer(w) == 1..(reader[w].buffered + 1)

BatchSizes(w) == 1..reader[w].buffered

\* Next returns a batch of up to batchSize rows, or fails to convert them.
Deliver(w) ==
    /\ call[w].pc = "batch"
    /\ \E n \in BatchSizes(w) :
          \/ reader' = [reader EXCEPT ![w].buffered = @ - n, ![w].owed = @ - n]
          \/ reader' = [reader EXCEPT ![w].buffered = @ - n, ![w].err = TRUE]
    /\ Done(w)
    /\ UNCHANGED query
    /\ LocalStep

\* Query.Close on behalf of the reader, of queryAll or of a failed ExecuteQuery.
CloseQuery(w) ==
    /\ call[w].pc = "close"
    /\ mu = NoWorker
    /\ cursor' = CursorClosed(w)
    /\ openQuery' = IF openQuery = w THEN NoWorker ELSE openQuery
    /\ IF reader[w].mode = "reader"
       THEN query' = QueryClosed(w) /\ UNCHANGED reader
       ELSE Forget(w)
    /\ LET mode == reader[w].mode IN
       Goto(w, CASE mode \in {"reader", "released"} -> "finish"
                 [] mode = "meta" /\ ~CloseFails(w) -> "autocommit"
                 [] OTHER -> "idle")
    /\ UNCHANGED <<mu, bindAttempted, autoCommit, connClosed,
                   link, pkg, uow, committed, history>>

---------------------------------------------------------------------------
(* The environment *)

\* The server discards the unit of work and the cursors of a lost client.
LinkBreaks ==
    /\ "break" \in Faults
    /\ link
    /\ link' = FALSE
    /\ ServerDropsUow
    /\ UNCHANGED <<connVars, query, reader, call, pkg, committed, history>>

\* A DBA drops the package; a unit of work that has used it holds a lock on it.
DropPackage ==
    /\ "nopkg" \in Faults
    /\ pkg
    /\ uow = {} /\ cursor = NoWorker
    /\ pkg' = FALSE
    /\ UNCHANGED <<connVars, query, reader, call, link, cursor, uow,
                   committed, history>>

---------------------------------------------------------------------------
(* The specification *)

StartCall(w) ==
    \/ ExecuteQuery(w) \/ ExecuteBoundQuery(w) \/ QueryAll(w)
    \/ ExecuteUpdate(w) \/ ExecuteBoundUpdate(w) \/ ExecuteSchema(w)
    \/ SetSessionOption(w)
    \/ Commit(w) \/ Rollback(w) \/ EnableAutoCommit(w) \/ DisableAutoCommit(w)
    \/ CloseConnection(w) \/ ReaderNext(w) \/ ReaderRelease(w)

Step(w) ==
    \/ EnsureNoOpenQuery(w)
    \/ CommandLinkDown(w) \/ PackageMissing(w) \/ BindPackage(w) \/ StatementFails(w)
    \/ OpenCursor(w) \/ OpenUndecodable(w) \/ ExecuteStatement(w) \/ Describe(w)
    \/ ExecBatch(w) \/ SendCommit(w) \/ SendRollback(w)
    \/ AutoCommitIfNeeded(w) \/ QueryFinished(w) \/ SetAutoCommitFlag(w) \/ CloseSocket(w)
    \/ StopTaking(w) \/ QueryNext(w) \/ TakePending(w) \/ Fetch(w) \/ Deliver(w)
    \/ CloseQuery(w)

Next ==
    \/ \E w \in Workers : StartCall(w) \/ Step(w)
    \/ LinkBreaks
    \/ DropPackage

Spec == Init /\ [][Next]_vars

\* A goroutine inside a call keeps running, and sync.Mutex lets no waiter starve
\* (its starvation mode hands the lock over); the server answers every request or
\* the link breaks.  Nothing obliges the application to start another call.
FairSpec == Spec /\ \A w \in Workers : SF_vars(Step(w))

---------------------------------------------------------------------------
(* Properties *)

\* A peer whose answers the driver can decode and that ends its queries.
PlainPeer == Faults \cap {"decode", "empty"} = {}

\* Conn.openQuery tracks every cursor the server has opened and not ended.
OpenQueryTracksCursor ==
    cursor # NoWorker =>
        openQuery = cursor /\ ~query[cursor].done /\ ~query[cursor].closed

\* With a PlainPeer the driver and the server agree on which cursor is open in
\* section 1: the server's cursor is Conn.openQuery, and an openQuery that
\* ensureNoOpenQuery would close is the server's cursor, so CLSQRY never misses.
CursorTracked ==
    PlainPeer =>
        /\ OpenQueryTracksCursor
        /\ (link /\ NeedsClose) => cursor = openQuery

\* With a PlainPeer no command is sent into the one section all statements share
\* while a cursor is open there.
SectionFree ==
    PlainPeer => \A w \in Workers : call[w].pc \in {"cmd", "bind"} => cursor = NoWorker

\* No row is lost or handed out twice on its way from the server through
\* Query.pending and the reader's buffer, unless the read failed or the cursor was
\* closed by another call.
RowsAccounted ==
    \A w \in Workers :
        LET q == query[w]
            r == reader[w]
        IN  (r.mode \in {"reader", "meta"} /\ ~r.err /\ ~r.cut) =>
                r.owed = r.buffered + q.pending + q.left

\* A reader that reported the end of its data without an error has delivered the
\* whole result, unless another call on the connection closed its cursor.
CompleteUnlessCut ==
    PlainPeer =>
        \A w \in Workers :
            LET r == reader[w] IN
            (r.mode = "reader" /\ r.done /\ ~r.err) =>
                r.owed = 0 \/ r.cut

\* A reader that reported the end of its data without an error has delivered the
\* whole result (query.go: "Returns nil, nil at end").
CompleteResult ==
    PlainPeer =>
        \A w \in Workers :
            LET r == reader[w] IN
            (r.mode = "reader" /\ r.done /\ ~r.err) => r.owed = 0

\* With calls serialized, changes whose call returned success under autocommit
\* are durable.
AckedDurable == Serial => acked \subseteq committed

\* With calls serialized and autocommit on, a quiet connection has nothing
\* uncommitted except what failed calls left behind.
AutoCommitLeavesOnlyFailures ==
    (Serial /\ autoCommit /\ \A w \in Workers : call[w].pc = "idle") => uow \subseteq orphan

\* With calls serialized and autocommit off, changes become durable only by
\* Commit or by turning autocommit on: no reader, metadata call or package bind
\* commits behind the application's back.
ManualCommitOnly ==
    [][(Serial /\ ~autoCommit /\ committed' # committed) =>
         \E w \in Workers : call[w].pc = "cmd" /\ call[w].op \in {"commit", "enable"}]_vars

\* With calls serialized, CNTQRY is sent only for the cursor that is open: nobody has
\* closed it between the unlocked check in Query.Next and the request, whatever failed
\* before.
SerialFetchHasCursor ==
    Serial => \A w \in Workers : (call[w].pc = "fetch" /\ link) => cursor = w

\* Every API call returns.
CallsReturn == \A w \in Workers : (call[w].pc # "idle") ~> (call[w].pc = "idle")

---------------------------------------------------------------------------
(* Inductive invariants behind the properties *)

\* Conn.mu is held exactly in a command or a bind ...
Locked == {"cmd", "bind"}
MutexHeld == \A w \in Workers : call[w].pc \in Locked <=> mu = w

\* ... and by then ensureNoOpenQuery has cleared Conn.openQuery.
OpenQueryCleared == mu # NoWorker => openQuery = NoWorker

NoCursorWithoutLink == ~link => cursor = NoWorker

\* A reader that closed itself has closed its query, or is about to.
ReaderClosesQuery ==
    \A w \in Workers :
        (reader[w].mode = "reader" /\ reader[w].closed /\ call[w].pc # "close") => query[w].closed

CursorInv ==
    /\ MutexHeld
    /\ OpenQueryCleared
    /\ NoCursorWithoutLink
    /\ ReaderClosesQuery
    /\ CursorTracked

\* What a worker knows of its query from the unlocked checks in Query.Next stays
\* true unless another call cuts the query.
Undisturbed(w) == reader[w].mode \in {"reader", "meta"} /\ ~reader[w].err /\ ~reader[w].cut

RowsOf(w) ==
    LET q == query[w]
        r == reader[w]
        closing == call[w].pc = "close" /\ r.mode = "reader"
    IN  /\ Undisturbed(w) => r.owed = r.buffered + q.pending + q.left
        /\ (call[w].pc = "fetch" \/ closing) => q.pending = 0
        /\ (call[w].pc = "take" /\ Undisturbed(w)) => q.pending > 0
        /\ (PlainPeer /\ Undisturbed(w)) =>
              /\ (q.done \/ q.closed \/ closing) => q.left = 0
              /\ r.done => r.owed = 0

RowsInv == \A w \in Workers : RowsOf(w)

\* With calls serialized at most one worker is inside a call ...
OneCall ==
    \A v, w \in Workers : (call[v].pc # "idle" /\ call[w].pc # "idle") => v = w

\* ... the row changes it has made are the server's, until a failure takes them back; it
\* commits on its own account only under autocommit, turns autocommit on only with an empty
\* unit of work, and binds only a package that is missing.
WorkOf(w) ==
    LET c == call[w] IN
    /\ c.pc = "idle" => c = NoCall
    /\ c.work # {} =>
          \/ c.pc = "autocommit"
          \/ c.pc \in {"ensure", "cmd"} /\ c.op \in {"batch", "autocommit"}
    /\ link => c.work \subseteq uow \cup committed
    /\ c.op \in {"autocommit", "finish"} => autoCommit
    /\ c.pc = "flag" => uow = {}
    /\ c.pc = "bind" => ~pkg

\* Every uncommitted change under autocommit is the call's in progress or a failed call's.
Ledger ==
    /\ acked \subseteq committed
    /\ ~pkg => uow = {}
    /\ autoCommit => uow \subseteq orphan \cup UNION {call[w].work : w \in Workers}

WorkInv == Serial => OneCall /\ (\A w \in Workers : WorkOf(w)) /\ Ledger

\* With calls serialized a query that is neither done nor closed is the server's cursor and
\* Conn.openQuery, and a worker about to send CNTQRY has such a query.
LiveQuery(w) == ~query[w].done /\ ~query[w].closed

LiveInv ==
    Serial => \A w \in Workers :
        /\ LiveQuery(w) /\ link => cursor = w /\ openQuery = w
        /\ call[w].pc = "fetch" => LiveQuery(w)

=============================================================================
