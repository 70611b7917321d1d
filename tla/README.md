# TLA+ verification of the Db2 ADBC driver

The repository is an ADBC driver for IBM Db2 that speaks DRDA itself: `internal/ddm`
frames messages, `internal/drda` runs sessions and cursors, `driver/db2` maps them to the
ADBC interfaces, `pkg/db2` exports these over a C ABI and `python/` loads the library.
This directory models the part that carries the protocol and the promises made to
applications, checks it with TLC and proves the central invariants with TLAPS.

Line numbers in `PROJECT.json` ("map") tie every definition to the source it stands for.

## Inventory

| Component | State | Operations | Hard because | Correct when |
|---|---|---|---|---|
| Session, `drda.Conn` | `mu`, `openQuery`, `bindAttempted`, the socket | ExecImmediate, Query, Describe, Commit, Rollback, Close | one mutex around each round trip, many error returns; all statements share section 1 | driver and server agree on the open cursor; every call returns |
| Cursor, `drda.Query` | `pending`, `partial`, `extdta`, `done`, `closed`, `corr` | Next, Close, consume, resolveLOBs | looked at without the lock; rows split over blocks, blocks without rows, LOBs matched by order | no row lost or repeated, each with its own LOB |
| Reply chains | the stream, correlation ids | send, flush, readChain | early chain ends, errors mid-chain, deadlines, uint16 ids | a call reads its own answer, whole |
| Connection setup | configuration, negotiated mechanism | dial, handshake, postConnect, Open | the server counters; failures at every round trip | explicit choice fails closed; no leaked socket |
| Auto-bind | `bindAttempted`, the package | autoBind, bindPackage | commits on the application's connection | never commits the application's work |
| Parameter statements | prepared section | PrepareParams, ExecBatch, QueryParams | thousands of chained commands | failed batch not acknowledged; rows counted |
| ADBC connection, statement | `autoCommit`, `closed` | Execute*, Commit, Rollback, SetOption, Close | commits happen at the end of readers too | acknowledged changes durable; manual mode commits on request only |
| Record reader | `buffered`, `done`, `err`, `closed` | Next, Release | batches cut by rows and bytes; another statement may cut it | a clean end means a complete result |
| Bulk ingest | bound data, target table, batches | Bind, executeIngest | test-then-create against other sessions; a record read ahead of the DDL; batches fail in the middle | all rows, once, or an error; nothing committed half way; only replace destroys rows |
| Metadata | none | queryAll, GetObjects | uses the same section as open readers | as above |
| DSS framing | the writer's buffer | WriteRequest, UnchainLast, Reset, Flush, ReadDSS | sizes at the segment boundaries; a batch given up half way | what is read is what was written |
| FD:OCA decoding | none that outlives a block | DecodeBlock | a block ends anywhere in a row | whole rows, and the rest carried over |
| Codecs, options, Arrow conversion, SQL rewriting, EBCDIC tables | none | pure functions | values at the limits of their types | round trips |
| C ABI | cgo handles to Go objects, contexts, stream errors in C memory, `globalPoison` | exported entry points | released in any order; Init fails half way; panics | everything has one owner and is given back |

Interaction: the ADBC layer calls `Conn` and `Query` directly. Statements and readers of a
connection share the `Conn`, and through it one server-side section: each method of `Conn`
first closes whatever cursor is open (`ensureNoOpenQuery`). A reader calls back into its
connection when it ends (`queryFinished`), which may commit. `connectionImpl.mu` is taken
in `Close` only, so goroutines meet at `Conn.mu`.

The hazards that follow from this are listed in `PROJECT.json`, each at its line and with
the properties that would catch it.

## Modules

**Db2Session** composes session, cursors, readers, the ADBC layer and, as the external
party, the server's cursor, unit of work and package. A *worker* is a goroutine that drives
one statement and at most one live reader. Its `call` says where it is in which operation;
an API call is the sequence of steps from leaving to re-entering `"idle"`. Each step is a
stretch of code that runs without `Conn.mu`, or under it with one round trip:

| `pc` | code |
|---|---|
| `ensure` | `ensureNoOpenQuery`, the first thing under the lock |
| `cmd` | the command: OpenCursor, ExecuteStatement, Describe, ExecBatch, SendCommit, SendRollback, or a failure of one |
| `bind` | `bindPackage`, still under the lock, then the command again |
| `autocommit`, `finish` | `autoCommitIfNeeded`, `queryFinished` |
| `next`, `take`, `fetch` | `Query.Next`: the unlocked tests, the unlocked take, CNTQRY under the lock |
| `batch` | `takeRows` cuts a batch, `Next` returns it |
| `close` | `Query.Close` of the reader, of `queryAll`, or of a failed ExecuteQuery |
| `flag`, `sock` | setting `autoCommit`, closing the socket |

`reader[w].owed` counts rows of the result not handed to the consumer yet, and `cut` records
that another call closed the cursor; `acked` and `orphan` are the row changes of calls that
returned success under autocommit and of calls that failed. These are history.
A call of `SetOption` for schema or isolation is a SET statement (`SetSessionOption`);
`GetObjects` and the like are sequences of `QueryAll`; a bound query with several
parameter rows is a sequence of bound queries read to their end.

**DrdaChain** is `readChain` against the stream of reply DSSs. The server may answer a
command with several DSSs, end the chain early between commands, or fail one and discard
the rest. `torn` says that a deadline struck inside a DSS, so that the next read finds
bytes that are no header. `CorrMod` stands for 2^16.

**DrdaHandshake** is `dialTraced`, `handshake`, `postConnect` and `Database.Open`, against a
server that may answer anything: accept, refuse and list mechanisms, list without refusing,
leave out its token, fail or hang up at each step.

**AbiHandles** is the C ABI. The C program's structs point, through `private_data`, to entries of
cgo's handle table, and these to Go objects; objects stay in the model after their handle is
deleted, so that what they still hold can be seen. An exported function is one action, its call
of the driver a choice between success, an error and a panic. `reader` follows the reference
count from `exportRecordReader` and the deferred `Release` of its caller to the release of the
stream; `adbcErr` counts the C blocks of a stream's error; `uncancelled` counts contexts.

**BulkIngest** is `executeIngest` of several sessions into one table, one action for each round
trip. The server keeps the committed table and a unit of work for each session; DDL excludes all
other users, inserts exclude DDL, and a wait ends in the lock or in `SQL0911N`. A value is its
length, which is what column sizing and batch cutting look at. A row in the table carries the
attempt it came from and its place in what was bound.

**DssFraming** holds the framing as operators on sequences of length words, headers and data
bytes: `WriteDSS` and `Segments` for the writer, `ReadDSS` for the reader. `HighBit` stands for
0x8000. **QueryWire** puts a connection and a server on the two ends of such streams. The driver
writes batches and queries; the server answers with query blocks cut anywhere, LOBs behind them,
ends, failures, and replies without a whole row; `Consume`, `DecodeBlock` and `resolveLOBs` put
the rows together. A row has an SQLCA group (null or a warning), an indicator, a column and a
LOB, which is enough for every place a block can end in. `ReadChain` reads up to the first DSS
that is not chained; correlation ids are DrdaChain's subject.

**ResultStream** is the abstract promise of a query: the rows of the result, in order, then the
end; or an error after some of them; and a consumer that goes on asking gets to one of the two.
`Safety` is the first part of it. `QueryWire!ImplementsStream` is the refinement, with the rows the
server holds for `result`.

**MCDb2Session** adds worker symmetry for TLC. **Db2SessionProofs**, **Db2WorkProofs** (the
session's unit of work), **DrdaChainProofs**, **DrdaHandshakeProofs**, **AbiHandlesProofs**,
**BulkIngestProofs**, **DssFramingProofs** and **QueryWireProofs** hold the theorems. The inductive
invariants are at the end of the modules they are about, where TLC can check them; only that of the
row data, `RowInv`, is in QueryWireProofs, because it is stated with notions of the proof.

## Runs

| Run | Shows | Bounds |
|---|---|---|
| session_rows | rows accounted for, complete results, cursor agreement, section free, with overlapping calls | 2 workers, 2 rows, link may break |
| session_work | acknowledged changes durable; only failed calls leave changes behind; manual mode commits on request only, auto-bind included; CNTQRY only for the open cursor | 2 workers, serialized, 2 row changes, link, decoding and package faults |
| session_liveness | every call returns | 2 workers, overlapping, link, decoding and never-ending-query faults |
| session_truncation | *violated*: a clean end means a complete result | 2 rows, no faults |
| chain_replies | own answer, whole answer, every command settled, rows counted, readChain returns | 2 transmissions, 3 commands, 2 DSSs each, deadlines |
| chain_deadline | *violated*: readChain ends on a reply to the last request | as above |
| chain_wrap | *violated*: every row of a batch is counted | 4 commands, 4 ids |
| handshake | mechanism choice, announcement, report, no socket leak | lists of up to 2 mechanisms |
| handshake_schema | *violated*: a configured schema is applied | as above |
| abi_handles | handles, sessions, readers, contexts, bound data and error blocks have one owner and are given back; options in force after Init; nothing happens after a panic | 1 database, connection and statement, 2 streams, 2 options, 5 handles, panics |
| bulk_ingest | every row once; nothing committed half way; only replace discards; columns fit their sample; every ingest returns | 2 sessions (one in autocommit mode), 2 ingests, streams of 2 records of 2 rows, short and long values |
| query_wire | requests arrive as they were meant, bytes accounted for between calls, refinement of ResultStream | 2 rows, 1 batch before the query, DSSs of 15 bytes, blocks of 2, 3 and 7 bytes, link may break |

Why these bounds are enough. The server has one section, so a third worker can only be
another one that cuts or is cut. Two rows give a block with rows and one after it, a batch
cut within a block, and rows pending when a cursor is closed. Two row changes tell changes
of a failed call from those of the next one. In `session_work` and `session_liveness` rows
do not matter: queries of zero rows still open, fetch from and close cursors. Three commands
give a first, a middle and a last one to fail; a second transmission is what can meet the
replies of the first. `CorrMod` = 8 is above every command number used, as 2^16 is for
batches of the default size; `chain_wrap` makes it equal to the largest.

Five handles let each kind of struct be used and one be created again after its release. Two
ingests meet each other in every mode, and a record of two rows in which a long value stands is
halved (`BatchBytes` = 8 is less than a long value and its overhead), fits a batch or fails in
the middle of it. With `HighBit` = 16 a body of 5 bytes just fits a DSS, one of 6 does not, one of
14 fills its last segment and one of 20 needs another. Blocks of 2 and 3 bytes end at every place
of a row, a block of 7 in the second row; three replies of `MinBlock` = 2 bytes are the longest
row (`ThreeRepliesHoldARow`).

Deadlock is checked in the session runs. The chain may stop once its requests are used up or
the connection is lost, the handshake ends, and a C program, an application that ingests or one
that queries may stop calling, so these runs do not check it.

### Fairness

`Db2Session!FairSpec` is strong fairness of each worker's steps within a call: goroutines are
scheduled, Go's mutex lets no waiter starve (starvation mode hands it over in order), and the
server answers or the link breaks. Nothing makes an application start another call.
`DrdaChain!FairSpec` is weak fairness of the reader and of the server. Neither assumes that
deadlines expire. `BulkIngest!FairSpec` is weak fairness of the steps of a running ingest: the
server answers, and ends a wait for a lock with the lock or a timeout. `QueryWire!Fairness` says
that steps go on happening while a request is under way or the consumer has an open query; it is
weak fairness of `Next` with its enabledness written out as `Busy`.

### What the violated runs mean

1. **A cut reader looks complete** (`query.go:324`). `closeLocked` drops `pending` and sets
   `closed`, and `Next` answers a closed query with `nil, nil`, which is documented as the
   end. An application that runs a second statement before it has drained the first
   result gets a shorter result and no error.
2. **Late replies answer the next call** (`conn.go:252`). A deadline leaves replies in the
   stream and the connection in use; correlation ids restart with each transmission.
3. **Correlation ids wrap** (`params.go:625`) with more than 65534 rows in one batch, which
   the ingest batch option allows.
4. **`current_schema` is not applied** (`conn.go:453`).

### Other observations

Things met while modelling that no run is about:

- `conn.go:70` says that the ADBC layer serializes access; `connectionImpl.mu` is taken in `Close`
  only. Goroutines that share a connection can close a cursor between the unlocked test in
  `Query.Next` and its CNTQRY. `session_rows`, `CursorAgreement` and `RowsAreAccounted` show
  what still holds; `SerialFetchHasCursor` needs serialized calls.
- `query.go:76`: when the replies to OPNQRY do not decode, `queryLocked` returns before it sets
  `openQuery`, and the server's cursor stays open in section 1. `conn.go:94` says that `openQuery`
  tracks every OPNQRY whose ENDQRYRM has not arrived; `OpenQueryTracksCursor` says the same, and one
  step of `OpenUndecodable` breaks it. This is why `CursorTracked` and `SectionFree` speak of a
  `PlainPeer`.
- `query.go:352`: after three replies without a whole row `Next` ends the query as if it were
  complete, bytes of a row carried over or not. Db2's blocks are larger than most rows, but
  `query_block_size` may be set as low as 512, and `query.go:13` counts on one block for each
  CNTQRY. `ThreeRepliesHoldARow` excludes it; with `MinBlock` = 1 in `QueryWire.cfg`, where a row
  may take six replies, TLC finds `ImplementsStream` violated by it.
- `bulk_ingest.go:209`: an ingest that fails under autocommit leaves its work in the unit of
  work, a dropped and recreated table included, and the next statement that succeeds commits it;
  for a second attempt that is its own catalog query. `create` then finds the table there, and
  `append` stores the rows of the first attempt too.
- `pkg/db2/driver.go:75` says that after a panic all calls fail. The functions of array streams
  neither look at `globalPoison` nor recover; a panic in them ends the process.
- `pkg/db2/driver.go:293`: `newContext` and `cancelContext` are not synchronised, although
  `AdbcStatementCancel` may be called from another thread; and the DRDA layer uses a context for
  its deadline only, so cancelling does not stop a running call.
- `params.go:167`: the FDODTA inside SQLDTA has a plain 16-bit length, and only values above
  32000 bytes leave it for an EXTDTA; several long values in one row together pass 32767.
- `params.go:197`: SMALLINT and INTEGER parameters are narrowed from `int64` without a range test.

## Proofs

`Db2SessionProofs` proves, for any set of workers, bounds and faults, with serialized or
overlapping calls, from `SessionAssumption` (types of the constants) only:

- `TypeCorrect`: the types, hence that no buffer runs negative. One lemma per action.
- `CursorAgreement` and `SectionIsFree`. `CursorTracked` is not inductive: that a new cursor
  finds none open needs `OpenQueryCleared` (whoever holds the mutex has cleared `openQuery`),
  which needs `MutexHeld` (the mutex is held exactly at `cmd` and `bind`); that a lost link
  cannot leave a tracked cursor behind needs `NoCursorWithoutLink`; that a released reader's
  query was closed needs `ReaderClosesQuery`. `CursorInv` is their conjunction.
- `RowsAreAccounted` and `ResultIsComplete`. `RowsInv` adds to the sum what a worker knows
  from the unlocked tests of `Query.Next` and what others may do to it meanwhile: `pending`
  is empty at `fetch` and at a closing end, not empty at `take`, and an undisturbed query
  that is done has nothing left at the server.

`Db2WorkProofs` proves the unit-of-work properties `AckedDurable`,
`AutoCommitLeavesOnlyFailures`, `ManualCommitOnly` and `SerialFetchHasCursor`. They speak of
serialized calls (`Serial`), as the properties do. `WorkInv` carries them: at most one worker is in
a call (`OneCall`); the changes it has made are in the server's unit of work or committed, it
commits on its own account only under autocommit, turns autocommit on only with nothing
uncommitted, and binds only a missing package (`WorkOf`); every uncommitted change is the call's
or a failed call's (`Ledger`). `LiveInv` says that a query which is neither done nor closed is the
server's cursor and `Conn.openQuery`.

`DrdaChainProofs` proves the types, and `OwnReplies`, `WholeAnswerRead`, `EveryCommandSettled`
and `RowsCounted` for chains of any length below the number of correlation ids (`NoWrap`). The
condition is needed: run `ChainWrap` shows what happens without it. None of the four is inductive,
since they speak of what readChain has, and the reason lies in what is still on the way. `InStep`
describes the whole answer, read or not (`Stream`): commands are settled in order, an unchained
DSS in the middle is one readChain goes on after, and the last one is one it stops at
(`Unfinished`, `Finished`).

`DrdaHandshakeProofs` proves the types, `NoSocketLeak`, `FailsClosed`, `CleartextOnlyOnRequest`,
`StrongestOffered`, `Announced` and `ReportsTheTruth` for lists of mechanisms of any length.
`HandshakeInv` says phase by phase which mechanism is in use and where it came from
(`MechanismInv`), that the server's pointer after a refusal is the strongest of its list
(`StrengthInv`, from a lemma on `PickSecMec`), and that past the security check the session is
accepted (`AcceptedInv`).

`AbiHandlesProofs` proves every safety property of `AbiHandles` for any structs, options and
number of handles: `HandlesOwned`, `SessionsOwned`, `ReadersOwned`, `ResourcesReturned`,
`OptionsInForce`, the types, and the action property `PoisonSticks`. `HandleInv` is a bijection
between live handles and structs (`Ownership`), with matching kinds (`Kinds`), and a condition on
each object that depends on whether its handle is live (`HandleOK`).

`BulkIngestProofs` proves `EveryRowOnce`, `NothingCommittedEarly`, `OnlyReplaceDiscards`,
`SampleFits` and the types for any sessions, records, lengths and limits. `IngestInv` has five
parts besides the types. `Counted`: at each point of the call, how total, offset and records taken
relate. `InPlace`: the counted rows are the last of the unit of work. `Fresh`: a running attempt's
rows are in its own unit of work only, and not yet there while a catalog query may commit it.
`Locked`: DDL excludes everyone else. `Founded`: without a table there are no rows, and DDL began
from no rows or after a replace. That `maxValueLength` is a bound rests on an induction over the
record's length, written as a least counterexample; the proofs need nothing of where `BatchEnd`
cuts a batch. Its progress belongs to `IngestReturns`.

`DssFramingProofs` proves what the framing operators compute, for any `HighBit` above 15 and
bodies of any length: `ReadsBack` (ReadDSS inverts WriteDSS, in as many segments as it takes),
`ReadsChainBack` and `ReadsWholeChain` (a chain is read to its end and not beyond), `LastUnchained`
(unchaining the last DSS afterwards gives the chain that ends there) and `CutChainUnread` (a chain
that breaks off is no chain). The recursive functions are first shown to exist and to satisfy their
equations (`CatExists` and the like), by induction over a set of numbers: `Induction` takes a set
and not an operator. `At(wire, p, s)` says that the stream has `s` from position `p` on; it splits
over concatenation, which carries the argument from segments to a DSS and from DSSs to a chain.

`QueryWireProofs` proves every safety property of `QueryWire`, for any rows, lengths, block sizes
and bounds that satisfy `WireAssumption` and `FramingAssumption`:

- `RequestsIntact`, from `WireInv`: only one party has bytes on the way, each transmission is one
  whole chain with nothing before or behind it, and a broken one is never a chain.
- `DecodeRows`: DecodeBlock on any stretch of the row data that begins with a row gives exactly the
  complete rows and the bytes left over. `Off(rows, k)` is where row k ends and `InRow(rows, m, u)`
  says that u bytes hold m complete rows; every byte of a row knows whether it ends it (`RowByte`).
- From it, by induction over the blocks of an answer and the LOBs behind each (`GotBlocks`,
  `GotLobs`), `WholeAnswer`: what `ConsumeAll` makes of any answer the server may give. The data of
  the n-th LOB fits the n-th placeholder because NULLs are not counted (`ExtOK`, `PutIsValue`).
- `TypeOK`, `BytesAccounted` and, as `QueryIsStream`, the safety half of `ImplementsStream`. None
  of them is inductive: they speak of a query between calls, and the reason lies in what is on the
  way. `RowInv` says that there are t, the bytes sent, and r0, the rows delivered, such that the
  server has the bytes behind t, an open query holds exactly the rows from r0 on that are complete
  at t and the bytes of the next (`Taken`), a query that waits for the n-th answer to CNTQRY holds
  at least n - 1 times `MinBlock` bytes of a row (`Waiting`), and an answer on its way leads to such
  a query or to an error (`AnswerOK`). That the loop in `Query.Next` never gives up inside a row
  (`ThirdAnswer`) holds if `ThreeRepliesHoldARow`, the hypothesis of `QueryIsStream`, which needs it,
  see the give-up at `query.go:352` above. The other theorems hold for replies of any size.

From assumptions on the constants only (their types; `IngestAssumption` and `ChainAssumption`
ask that some bounds are not zero; `WireAssumption` and `FramingAssumption` as said). All inductive
invariants were checked with TLC before they were proved, `RowInv` with `Off` and `Held` written
out, on the instance of `query_wire`.

Only model-checked: liveness (`CallsReturn`, `ReadReturns`, `IngestReturns`, and the liveness half
of `ImplementsStream`), which is out of the prover's reach.

## Assumptions about the server

Db2 and the network are modelled from how the code uses them. An error reply ends a query
and discards the commands chained behind the failed one. `SQL0911N` rolls the unit of work
back and closes its cursors; a commit keeps cursors (they are declared WITH HOLD). The server
discards cursors and work of a lost client. A unit of work that has used the package holds a
lock on it, so that it is not dropped under an open transaction; without this a bind could
commit the application's changes. A table an uncommitted unit of work has created, dropped or
inserted into is locked as described under BulkIngest, and a batch that fails keeps the rows
before the failing one. EXTDTA follow the block their placeholders end in, in order, and a reply
that does not end the query brings at least `MinBlock` bytes, and never none: the replies of
metadata only that `query.go:330` mentions are left to the fault "empty" of `Db2Session`. Every
wait for a lock ends, with the lock or with `SQL0911N`. Db2 sees to that for a deadlock, and for a
lock whose holder is idle only if LOCKTIMEOUT is set, since the driver has no bound of its own;
`IngestReturns` takes it for granted. BulkIngest takes the count of a batch for the number of its
rows, which holds for batches of up to 65534 rows (`NoWrap` of DrdaChain).

## Not modelled

- Torn reads of the slice header of `Query.pending` when goroutines race on one query: a
  query is used by one worker, others only close it.
- Statements executed again while their reader is live, and several readers per statement.
- Reference counts of readers in Db2Session (AbiHandles has them) and of records.
- Contents: SQL text, values, byte layouts, encryption, wording of errors, traces.
- Declared temporary tables as ingest targets, and the explicit column length option.
- Threads in the C ABI: calls are serialized, as `adbc.h` asks of the program, Cancel included.
- GetObjects assembly, option parsing, parameter encoding, the codecs and the Python package:
  pure functions of one call. The narrowing of the security mechanism option to 16 bits
  (`options.go:151`) falls under this; DrdaHandshake starts from the narrowed value.

## Plan

Done: session, chain, handshake, C ABI, bulk ingest, wire format and the refinement of the result
stream; proofs of every safety property of all of them.

Next: the unit of work as an abstract specification that `Db2Session` implements; `Decimals`,
the packed, zoned and DECFLOAT codecs against a reference definition; temporary ingest targets.
