----------------------------- MODULE BulkIngest -----------------------------
(***************************************************************************)
(* Bulk ingest: statementImpl.executeIngest of several sessions into one   *)
(* target table.  The server, an external party, keeps the committed table *)
(* and one unit of work per session; DDL locks the table against everyone  *)
(* else, inserts lock it against DDL.  A value is reduced to its length.   *)
(***************************************************************************)
EXTENDS Integers, Sequences, SequencesExt

CONSTANTS
    Sessions,     \* connections, each with one ingesting statement
    AutoCommit,   \* the sessions in autocommit mode
    Lengths,      \* lengths of the values bound
    MaxRecords,   \* bound: records of a bound stream
    MaxRows,      \* bound: rows of a record
    BatchRows,    \* adbc.db2.ingest.batch_rows
    BatchBytes,   \* ingestBatchBytes
    MinLength,    \* minAutoVarcharLength
    MaxLength,    \* maxVarcharLength
    MaxAttempts,  \* bound: ingests started
    Breaks        \* TRUE: connections may be lost

ASSUME IngestAssumption ==
    /\ AutoCommit \subseteq Sessions
    /\ Lengths \subseteq Nat
    /\ {MaxRows, BatchBytes, MinLength, MaxLength, MaxAttempts} \subseteq Nat
    /\ {MaxRecords, BatchRows} \subseteq Nat \ {0}
    /\ Breaks \in BOOLEAN

VARIABLES
    up,        \* the session's connection is up
    bound,     \* statementImpl.bound or boundStream
    call,      \* where the session is in executeIngest
    attempts,  \* ingests started so far
    committed, \* the table as committed
    uow        \* the session's unit of work

vars == <<up, bound, call, attempts, committed, uow>>

---------------------------------------------------------------------------
(* Types *)

Modes == {"create", "append", "replace", "create_append"}

\* A record is the sequence of its values' lengths.
Records == BoundedSeq(Lengths, MaxRows)

\* A row of the table: the attempt that inserted it, 0 for none of these, and its place in
\* what was bound.
Row == [attempt: 0..MaxAttempts, at: Nat]

Table == [exists: BOOLEAN, width: Nat, rows: Seq(Row)]
NoTable  == [exists |-> FALSE, width |-> 0, rows |-> <<>>]
OldTable == [exists |-> TRUE, width |-> MaxLength, rows |-> <<[attempt |-> 0, at |-> 1]>>]

\* ddl: the table has been dropped or created, and is now base.  by: the mode of the
\* ingest that dropped it.  ins: rows inserted since.
Work == [ddl: BOOLEAN, by: Modes \cup {"none"}, base: Table, ins: Seq(Row)]
NoWork == [ddl |-> FALSE, by |-> "none", base |-> NoTable, ins |-> <<>>]

Call == [pc: {"idle", "exists", "drop", "create", "prepare", "batch", "next", "commit"},
         mode: Modes, attempt: 0..MaxAttempts,
         first: Records,          \* the record looked at before the DDL
         toSend: BOOLEAN,         \* it has still to be sent
         rec: Records,            \* the record being sent
         base: Nat,               \* rows of the records before it
         taken: Nat,              \* rows taken from the stream
         records: 0..MaxRecords,  \* records taken from the stream
         off: Nat, total: Nat, created: BOOLEAN,
         result: {"none", "ok", "error"}]
NoCall == [pc |-> "idle", mode |-> "create", attempt |-> 0, first |-> <<>>,
           toSend |-> FALSE, rec |-> <<>>, base |-> 0, taken |-> 0, records |-> 0,
           off |-> 0, total |-> 0, created |-> FALSE, result |-> "none"]

\* Types; in particular rows keep the places they have in what was bound.
TypeOK ==
    /\ up \in [Sessions -> BOOLEAN]
    /\ bound \in [Sessions -> BOOLEAN]
    /\ call \in [Sessions -> Call]
    /\ attempts \in 0..MaxAttempts
    /\ committed \in Table
    /\ uow \in [Sessions -> Work]

Init ==
    /\ up = [s \in Sessions |-> TRUE]
    /\ bound = [s \in Sessions |-> FALSE]
    /\ call = [s \in Sessions |-> NoCall]
    /\ attempts = 0
    /\ committed \in {NoTable, OldTable}
    /\ uow = [s \in Sessions |-> NoWork]

---------------------------------------------------------------------------
(* The server *)

\* The table as session s sees it.
View(s) ==
    IF uow[s].ddl
    THEN [uow[s].base EXCEPT !.rows = @ \o uow[s].ins]
    ELSE [committed EXCEPT !.rows = @ \o uow[s].ins]

Others(s) == Sessions \ {s}

\* Locks that DDL, or a use of the table, would have to wait for.
ExclusiveFree(s) == \A o \in Others(s) : ~uow[o].ddl /\ uow[o].ins = <<>>
SharedFree(s)    == \A o \in Others(s) : ~uow[o].ddl

CommitWork(s) ==
    /\ committed' = View(s)
    /\ uow' = [uow EXCEPT ![s] = NoWork]

RollbackWork(s) == uow' = [uow EXCEPT ![s] = NoWork]

---------------------------------------------------------------------------
(* The pure parts of executeIngest *)

\* Seeded fault: the place of a row is counted from the end of the batch before.
Bug_Place(c, i, j) == [k \in 1..(j - i) |-> [attempt |-> c.attempt, at |-> c.base - i + k - 2]]

\* Rows i+1 .. j of the record being sent, as they will appear in the table.
Rows(c, i, j) == [k \in 1..(j - i) |-> [attempt |-> c.attempt, at |-> c.base + i + k]]

approxRowBytes(rows) == FoldLeft(LAMBDA n, l : n + l + 3, 0, rows)

\* Seeded fault: a single row that is too large is halved too.
Bug_HalveOne(rows, off) ==
    LET half[n \in 0..BatchRows] ==
            IF n > 0 /\ approxRowBytes(SubSeq(rows, off + 1, off + n)) > BatchBytes
            THEN half[n \div 2] ELSE n
    IN  off + half[IF off + BatchRows > Len(rows) THEN Len(rows) - off ELSE BatchRows]

\* Where the batch that starts at off ends: at most BatchRows rows, halved while they
\* look too large and are more than one.
BatchEnd(rows, off) ==
    LET half[n \in 0..BatchRows] ==
            IF n > 1 /\ approxRowBytes(SubSeq(rows, off + 1, off + n)) > BatchBytes
            THEN half[n \div 2] ELSE n
    IN  off + half[IF off + BatchRows > Len(rows) THEN Len(rows) - off ELSE BatchRows]

maxValueLength(record) == Max({0} \cup Range(record))

\* Seeded fault: the column is no wider than the sample says, whatever it says.
Bug_NarrowColumn(sample) == MinLength

\* Sized from the first record, twice what it needs, within limits.
varcharLengths(sample) ==
    Min({MaxLength, Max({MinLength, 2 * maxValueLength(sample)})})

---------------------------------------------------------------------------
(* The application *)

\* Bind or BindStream: what was bound before is released.
Bind(s) ==
    /\ call[s].pc = "idle"
    /\ up[s]
    /\ attempts < MaxAttempts
    /\ bound' = [bound EXCEPT ![s] = TRUE]
    /\ UNCHANGED <<up, call, attempts, committed, uow>>

\* Commit in manual mode; in autocommit mode, any other statement that succeeds.
EndWork(s) ==
    /\ call[s].pc = "idle"
    /\ up[s]
    /\ CommitWork(s)
    /\ UNCHANGED <<up, bound, call, attempts>>

\* Rollback is refused in autocommit mode.
Rollback(s) ==
    /\ call[s].pc = "idle"
    /\ up[s]
    /\ s \notin AutoCommit
    /\ RollbackWork(s)
    /\ UNCHANGED <<up, bound, call, attempts, committed>>

---------------------------------------------------------------------------
(* executeIngest *)

\* The call returns; clearBound runs whatever the result.
Return(s, result) ==
    /\ call' = [call EXCEPT ![s] = [NoCall EXCEPT !.result = result]]
    /\ bound' = [bound EXCEPT ![s] = FALSE]

Goto(s, pc) ==
    /\ call' = [call EXCEPT ![s].pc = pc]
    /\ UNCHANGED bound

\* The tests of executeIngest and the first record, which sizes the columns.  A stream
\* without records may have ended or failed.
ExecuteIngest(s) ==
    /\ call[s].pc = "idle"
    /\ up[s]
    /\ bound[s]
    /\ attempts < MaxAttempts
    /\ attempts' = attempts + 1
    /\ \/ \E mode \in Modes, some \in BOOLEAN, first \in Records :
            /\ some \/ first = <<>>
            /\ call' = [call EXCEPT ![s] =
                  [NoCall EXCEPT !.pc = IF mode = "append" THEN "prepare" ELSE "exists",
                                 !.mode = mode, !.attempt = attempts', !.first = first,
                                 !.toSend = some, !.taken = Len(first),
                                 !.records = IF some THEN 1 ELSE 0]]
            /\ UNCHANGED bound
       \/ Return(s, "error")
    /\ UNCHANGED <<up, committed, uow>>

targetExists(s) == View(s).exists

\* Seeded fault: an existing table is replaced in mode create as well.
Bug_CreateReplaces(mode) == IF mode = "create_append" THEN "prepare" ELSE "drop"

\* What the ingest mode asks for when the table exists.
OnExisting(mode) ==
    CASE mode = "create"        -> "error"
      [] mode = "create_append" -> "prepare"
      [] mode = "replace"       -> "drop"

\* targetExists and the switch on the mode.  Reading the catalog is a query of its own:
\* in autocommit mode its end commits what the unit of work holds.
TargetExists(s) ==
    /\ call[s].pc = "exists"
    /\ LET next == IF targetExists(s) THEN OnExisting(call[s].mode) ELSE "create"
       IN  IF next = "error" THEN Return(s, "error") ELSE Goto(s, next)
    /\ IF s \in AutoCommit THEN CommitWork(s) ELSE UNCHANGED <<committed, uow>>
    /\ UNCHANGED <<up, attempts>>

\* DROP TABLE.  The table may be gone by now (-204).
DropTarget(s) ==
    /\ call[s].pc = "drop"
    /\ ExclusiveFree(s)
    /\ IF View(s).exists
       THEN /\ uow' = [uow EXCEPT ![s] = [NoWork EXCEPT !.ddl = TRUE, !.by = call[s].mode]]
            /\ Goto(s, "create")
       ELSE UNCHANGED uow /\ Return(s, "error")
    /\ UNCHANGED <<up, attempts, committed>>

\* CREATE TABLE.  Another session may have created it meanwhile (-601).
CreateTarget(s) ==
    /\ call[s].pc = "create"
    /\ ExclusiveFree(s)
    /\ IF View(s).exists
       THEN UNCHANGED uow /\ Return(s, "error")
       ELSE /\ uow' = [uow EXCEPT
                         ![s].ddl = TRUE, ![s].ins = <<>>,
                         ![s].base = [exists |-> TRUE, rows |-> <<>>,
                                      width |-> varcharLengths(call[s].first)]]
            /\ call' = [call EXCEPT ![s].pc = "prepare", ![s].created = TRUE]
            /\ UNCHANGED bound
    /\ UNCHANGED <<up, attempts, committed>>

\* PrepareParams of the INSERT; -204 when there is no table.
PrepareInsert(s) ==
    /\ call[s].pc = "prepare"
    /\ SharedFree(s)
    /\ IF View(s).exists THEN Goto(s, "next") ELSE Return(s, "error")
    /\ UNCHANGED <<up, attempts, committed, uow>>

\* Seeded fault: the record that was looked at to size the columns is not sent.
Bug_SkipFirst(s) ==
    /\ call[s].toSend
    /\ call' = [call EXCEPT ![s].pc = "batch", ![s].first = <<>>, ![s].toSend = FALSE]

\* The record that was looked at is sent before any other.
SendFirst(s) ==
    /\ call[s].toSend
    /\ call' = [call EXCEPT ![s].pc = "batch", ![s].rec = call[s].first,
                             ![s].first = <<>>, ![s].toSend = FALSE]

\* The stream's next record is sent.
SendNext(s) ==
    /\ ~call[s].toSend
    /\ call[s].records \in 1..(MaxRecords - 1)
    /\ \E r \in Records :
          call' = [call EXCEPT ![s].pc = "batch", ![s].rec = r, ![s].records = @ + 1,
                               ![s].base = call[s].taken, ![s].taken = @ + Len(r)]

\* The next record, or the end of the stream.  Values may not convert and the stream may
\* fail.
NextRecord(s) ==
    /\ call[s].pc = "next"
    /\ \/ (SendFirst(s) \/ SendNext(s)) /\ UNCHANGED bound
       \/ ~call[s].toSend /\ Goto(s, "commit")
       \/ Return(s, "error")
    /\ UNCHANGED <<up, attempts, committed, uow>>

\* The last of rows i+1 .. j before one that does not fit.
Fitting(s, i, j) ==
    LET bad == {k \in (i + 1)..j : call[s].rec[k] > View(s).width}
    IN  IF bad = {} THEN j ELSE Min(bad) - 1

\* Seeded fault: each batch is committed by itself in autocommit mode.
Bug_CommitBatch(s, rows) ==
    IF s \in AutoCommit
    THEN /\ committed' = [View(s) EXCEPT !.rows = @ \o rows]
         /\ uow' = [uow EXCEPT ![s] = NoWork]
    ELSE uow' = [uow EXCEPT ![s].ins = @ \o rows] /\ UNCHANGED committed

Insert(s, rows) == uow' = [uow EXCEPT ![s].ins = @ \o rows] /\ UNCHANGED committed

\* One ExecBatch of pump's loop.  A row that cannot be encoded stops the batch before
\* anything is sent; the server may refuse any row, does refuse one that does not fit,
\* and keeps the rows before it in the unit of work.
ExecBatch(s) ==
    LET c   == call[s]
        end == BatchEnd(c.rec, c.off)
    IN
    /\ c.pc = "batch"
    /\ \/ /\ c.off = Len(c.rec)
          /\ call' = [call EXCEPT ![s].pc = "next", ![s].rec = <<>>, ![s].off = 0]
          /\ UNCHANGED <<bound, committed, uow>>
       \/ /\ c.off < Len(c.rec)
          /\ SharedFree(s)
          /\ \E n \in c.off..(IF View(s).exists THEN Fitting(s, c.off, end) ELSE c.off) :
                /\ Insert(s, Rows(c, c.off, n))
                /\ IF n = end
                   THEN /\ call' = [call EXCEPT ![s].off = end, ![s].total = @ + (end - c.off)]
                        /\ UNCHANGED bound
                   ELSE Return(s, "error")
    /\ UNCHANGED <<up, attempts>>

\* autoCommitIfNeeded, and the return of the total.  The server may refuse the commit
\* and roll back.
Finish(s) ==
    /\ call[s].pc = "commit"
    /\ \/ s \notin AutoCommit /\ Return(s, "ok") /\ UNCHANGED <<committed, uow>>
       \/ s \in AutoCommit /\ CommitWork(s) /\ Return(s, "ok")
       \/ s \in AutoCommit /\ RollbackWork(s) /\ Return(s, "error")
          /\ UNCHANGED committed
    /\ UNCHANGED <<up, attempts>>

\* A lock is not granted in time, or a deadlock is resolved (-911): the server rolls back.
LockTimeout(s) ==
    /\ \/ call[s].pc \in {"drop", "create"} /\ ~ExclusiveFree(s)
       \/ call[s].pc \in {"prepare", "batch"} /\ ~SharedFree(s)
    /\ RollbackWork(s)
    /\ Return(s, "error")
    /\ UNCHANGED <<up, attempts, committed>>

\* The server refuses a command for another reason and keeps the unit of work.
CommandFails(s) ==
    /\ call[s].pc \in {"exists", "drop", "create", "prepare"}
    /\ Return(s, "error")
    /\ UNCHANGED <<up, attempts, committed, uow>>

\* The connection is lost during a command, which fails; the server discards the unit of
\* work.  Of a commit, the reply may be what is lost.
LinkBreaks(s) ==
    /\ Breaks
    /\ up[s]
    /\ \/ call[s].pc \in {"exists", "drop", "create", "prepare"}
       \/ call[s].pc = "batch" /\ call[s].off < Len(call[s].rec)
       \/ call[s].pc = "commit" /\ s \in AutoCommit
    /\ up' = [up EXCEPT ![s] = FALSE]
    /\ \/ RollbackWork(s) /\ UNCHANGED committed
       \/ call[s].pc = "commit" /\ CommitWork(s)
    /\ Return(s, "error")
    /\ UNCHANGED attempts

---------------------------------------------------------------------------
(* The specification *)

IngestStep(s) ==
    \/ TargetExists(s)
    \/ DropTarget(s)
    \/ CreateTarget(s)
    \/ PrepareInsert(s)
    \/ NextRecord(s)
    \/ ExecBatch(s)
    \/ Finish(s)
    \/ LockTimeout(s)

Next ==
    \E s \in Sessions :
        \/ Bind(s)
        \/ EndWork(s)
        \/ Rollback(s)
        \/ ExecuteIngest(s)
        \/ IngestStep(s)
        \/ CommandFails(s)
        \/ LinkBreaks(s)

Spec == Init /\ [][Next]_vars

\* A call goes on as long as the server answers, and the server lets no one wait for a
\* lock for ever.
FairSpec == Spec /\ \A s \in Sessions : WF_vars(IngestStep(s))

---------------------------------------------------------------------------
(* Properties *)

Returns(s) == call[s].pc # "idle" /\ call'[s].pc = "idle"

\* An ingest that succeeds has put every bound row into the table, once and in order,
\* after whatever else is there, and returns their number; one that created the table
\* (create, replace, create_append on a missing table) finds nothing else in it.  Records
\* are taken from the stream one ahead of the DDL, cut into batches and counted from the
\* replies, with other sessions dropping and creating the same table.
EveryRowOnce ==
    [][\A s \in Sessions :
         (Returns(s) /\ call'[s].result = "ok") =>
            LET n    == call[s].taken
                all  == View(s)'.rows
            IN  /\ call[s].total = n
                /\ SubSeq(all, Len(all) - n + 1, Len(all))
                       = [k \in 1..n |-> [attempt |-> call[s].attempt, at |-> k]]
                /\ call[s].created => Len(all) = n]_vars

\* While an ingest runs, nothing of it is committed: the DDL, all batches and the end of
\* the call are one unit of work, also in autocommit mode, where the queries the call
\* makes of the catalog do commit.
NothingCommittedEarly ==
    \A s \in Sessions :
        call[s].pc # "idle" =>
            \A i \in 1..Len(committed.rows) : committed.rows[i].attempt # call[s].attempt

\* Committed rows go away only when a unit of work is committed in which a replace has
\* dropped the table: no other mode destroys data, whatever the catalog said when it
\* was read.
OnlyReplaceDiscards ==
    [][committed'.rows # committed.rows =>
         \/ IsPrefix(committed.rows, committed'.rows)
         \/ \E s \in Sessions : uow[s].by = "replace" /\ uow'[s] = NoWork]_vars

\* A table created by an ingest has room for the values of the record that sized it,
\* unless they exceed what a VARCHAR can hold.
SampleFits ==
    \A s \in Sessions :
        (call[s].created /\ call[s].pc \in {"prepare", "next"}) =>
            \A k \in 1..Len(call[s].first) :
                call[s].first[k] <= View(s).width \/ call[s].first[k] > MaxLength

\* Every ingest returns: batches make progress, and sessions that wait for each other's
\* locks do not wait for ever.
IngestReturns == \A s \in Sessions : call[s].pc # "idle" ~> call[s].pc = "idle"

---------------------------------------------------------------------------
(* An inductive invariant that implies the safety properties above; it is what *)
(* BulkIngestProofs proves.                                                *)

\* The attempts that inserted these rows.
AttemptsOf(rows) == {rows[i].attempt : i \in 1..Len(rows)}

\* Where a call is, and what it has counted: until the first record is sent nothing, then
\* the records before this one and the part of this one that has been acknowledged.
Counted(c) ==
    /\ ~c.toSend => c.first = <<>>
    /\ (c.pc \in {"idle", "exists", "drop", "create", "prepare"} \/ c.toSend) =>
          c.total = 0 /\ c.base = 0 /\ c.off = 0 /\ c.taken = Len(c.first)
    /\ c.pc = "next" => c.off = 0
    /\ c.pc = "batch" => ~c.toSend /\ c.taken = c.base + Len(c.rec) /\ c.total = c.base + c.off
    /\ (c.pc \in {"next", "commit"} /\ ~c.toSend) => c.total = c.taken
    /\ c.pc = "commit" => ~c.toSend
    /\ c.pc = "exists" => c.mode # "append"
    /\ c.pc = "drop" => c.mode = "replace"
    /\ c.created => c.pc \in {"prepare", "next", "batch", "commit"}

\* The counted rows are the last of the unit of work w, in order.  Of a table the call
\* created they are all the rows, and it has room for the record that sized it.
InPlace(c, w) ==
    /\ c.total <= Len(w.ins)
    /\ \A k \in 1..c.total :
          w.ins[Len(w.ins) - c.total + k] = [attempt |-> c.attempt, at |-> k]
    /\ c.created =>
          /\ w.ddl
          /\ Len(w.ins) = c.total
          /\ \A k \in 1..Len(c.first) : c.first[k] <= w.base.width \/ c.first[k] > MaxLength

\* Rows carry the numbers of attempts made so far.  A running attempt's own rows are in
\* its own unit of work only, and not there either while it may still be committed.
Fresh ==
    /\ AttemptsOf(committed.rows) \subseteq 0..attempts
    /\ \A s \in Sessions :
          /\ AttemptsOf(uow[s].ins) \subseteq 0..attempts
          /\ call[s].attempt <= attempts
          /\ call[s].pc = "idle" => call[s].attempt = 0
          /\ call[s].pc # "idle" =>
                /\ call[s].attempt \notin {0} \cup AttemptsOf(committed.rows)
                /\ \A o \in Others(s) :
                      call[s].attempt \notin {call[o].attempt} \cup AttemptsOf(uow[o].ins)
          /\ call[s].pc = "exists" => call[s].attempt \notin AttemptsOf(uow[s].ins)

\* DDL locks every other session out.
Locked == \A s \in Sessions : uow[s].ddl => ExclusiveFree(s)

\* There are no rows where there is no table, and a unit of work with DDL in it started
\* from no rows, or a replace has dropped them.
Founded ==
    /\ ~committed.exists => committed.rows = <<>>
    /\ \A s \in Sessions :
          /\ uow[s].base.rows = <<>>
          /\ ~View(s).exists => uow[s].ins = <<>>
          /\ uow[s].ddl => uow[s].by = "replace" \/ committed.rows = <<>>

IngestInv ==
    /\ TypeOK
    /\ \A s \in Sessions : Counted(call[s]) /\ InPlace(call[s], uow[s])
    /\ Fresh
    /\ Locked
    /\ Founded

=============================================================================
