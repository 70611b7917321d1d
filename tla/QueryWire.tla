----------------------------- MODULE QueryWire ------------------------------
(***************************************************************************)
(* What travels between one connection and the server, byte by byte: the   *)
(* transmissions the Writer builds for a batch and for a query, the query  *)
(* blocks and LOB data the server answers with, and how Query.consume puts *)
(* rows together from them.  The server, an external party, cuts the row   *)
(* data into blocks where it likes, inside rows too.                       *)
(* A row has an SQLCA group, an indicator, a fixed-width column and a LOB. *)
(***************************************************************************)
EXTENDS DssFraming

CONSTANTS
    MaxRows,     \* bound: rows of the result
    BodySizes,   \* lengths of the objects a request carries
    MinBlock,    \* the least number of row bytes in a reply that does not end the query
    BlockSizes,  \* the sizes of blocks the server may choose
    MaxBlocks,   \* bound: blocks of one reply
    MaxBatches   \* bound: batches sent before the query

CaLength == 2   \* bytes of an SQLCA that is not null

ASSUME WireAssumption ==
    /\ {MaxRows, MaxBlocks, MaxBatches} \subseteq Nat
    /\ BlockSizes \subseteq Nat \ {0}
    /\ BodySizes \subseteq Nat
    /\ MinBlock \in Nat

\* Query.Next asks three times for a row.  The longest row takes no more replies than that.
ThreeRepliesHoldARow == 3 * MinBlock >= CaLength + 4

VARIABLES
    result,    \* the rows the server holds: with a warning or not, with a LOB or NULL
    pc,        \* where the connection is
    attempt,   \* the round of the loop in Query.Next
    q,         \* the Query
    buf,       \* Writer.buf
    meant,     \* history: the objects of the transmission being sent
    toServer,  \* bytes sent and not read by the server
    fromServer, \* bytes sent by the server and not read
    rest,      \* row bytes the server has not sent
    batches,   \* batches sent
    got,       \* history: the objects the server has read
    delivered, \* rows handed to the consumer
    status,    \* what the consumer knows of the query
    cut        \* the link is broken

vars == <<result, pc, attempt, q, buf, meant, toServer, fromServer, rest, batches, got,
          delivered, status, cut>>

---------------------------------------------------------------------------
(* Bytes and rows *)

ResultRows == [warn: BOOLEAN, lob: BOOLEAN]

Byte(row, part) == [row |-> row, part |-> part]

\* A row's SQLCA group, indicator, fixed column and LOB placeholder.
EncodeRow(i, r) ==
    (IF r.warn THEN [k \in 1..CaLength |-> Byte(i, "ca")] ELSE <<Byte(i, "nullca")>>)
    \o <<Byte(i, "ind"), Byte(i, "col")>>
    \o (IF r.lob THEN <<Byte(i, "notnull"), Byte(i, "ref")>> ELSE <<Byte(i, "null")>>)

Encode(rows) == FlattenSeq([i \in 1..Len(rows) |-> EncodeRow(i, rows[i])])

\* A row as the consumer gets it: whose column it has and whose LOB, 0 for NULL.
Value(i, r) == [col |-> i, lob |-> IF r.lob THEN i ELSE 0]
Values(rows) == [i \in 1..Len(rows) |-> Value(i, rows[i])]

\* A LOB whose data has not been put in place.
LobRef == -1

---------------------------------------------------------------------------
(* DecodeBlock *)

\* Seeded fault: a row that ends where the body ends is taken for one that goes on.
Bug_EndsWithBody(body, p) ==
    LET lob == p + (IF body[p].part = "nullca" THEN 1 ELSE CaLength) + 2
    IN  IF lob >= Len(body) THEN 0
        ELSE IF body[lob].part = "null" THEN lob + 1
        ELSE IF lob + 1 >= Len(body) THEN 0
        ELSE lob + 2

\* The position after the row that begins at p, 0 if the body ends before it does.
RowEnd(body, p) ==
    LET ca  == IF body[p].part = "nullca" THEN 1 ELSE CaLength
        lob == p + ca + 2
    IN  IF lob > Len(body) THEN 0
        ELSE IF body[lob].part = "null" THEN lob + 1
        ELSE IF lob + 1 > Len(body) THEN 0
        ELSE lob + 2

DecodeRow(body, p) ==
    LET end == RowEnd(body, p) IN
    IF body[end - 1].part = "null"
    THEN [col |-> body[end - 2].row, lob |-> 0]
    ELSE [col |-> body[end - 3].row, lob |-> LobRef]

\* The rows that are complete, the bytes of one that is not, and whether an SQLCA with
\* +100 ended the block.
DecodeBlock(body) ==
    LET decode[p \in 1..(Len(body) + 1)] ==
            IF p > Len(body) THEN [rows |-> <<>>, leftover |-> <<>>, eod |-> FALSE]
            ELSE IF body[p].part = "eod" THEN [rows |-> <<>>, leftover |-> <<>>, eod |-> TRUE]
            ELSE IF RowEnd(body, p) = 0
            THEN [rows |-> <<>>, leftover |-> SubSeq(body, p, Len(body)), eod |-> FALSE]
            ELSE LET d == decode[RowEnd(body, p)] IN
                 [rows |-> <<DecodeRow(body, p)>> \o d.rows, leftover |-> d.leftover,
                  eod |-> d.eod]
    IN  decode[1]

---------------------------------------------------------------------------
(* Query.consume *)

NewQuery == [opened |-> FALSE, described |-> FALSE, done |-> FALSE, failed |-> FALSE,
             stop |-> FALSE, partial |-> <<>>, pending |-> <<>>, extdta |-> <<>>]

\* Seeded fault: the bytes carried over are put behind the next block.
Bug_AppendPartial(query, payload) == payload \o query.partial

\* The carried-over bytes come before the next block.
WithPartial(query, payload) == query.partial \o payload

ConsumeQRYDTA(query, payload) ==
    LET d == DecodeBlock(WithPartial(query, payload)) IN
    [query EXCEPT !.pending = @ \o d.rows, !.partial = d.leftover, !.done = @ \/ d.eod]

\* Seeded fault: a query may end with bytes of a row left over.
Bug_IgnoreLeftover(query) == [query EXCEPT !.done = TRUE]

\* At the end no bytes of a row may be left over.
ConsumeENDQRYRM(query) ==
    [query EXCEPT !.done = TRUE, !.stop = (query.partial # <<>>)]

\* One reply.  stop: consume has returned an error; failed: firstErr is set.
Consume(query, d) ==
    IF query.stop THEN query
    ELSE CASE d.cp = "OPNQRYRM" -> [query EXCEPT !.opened = TRUE]
           [] d.cp = "QRYDSC"   -> [query EXCEPT !.described = TRUE]
           [] d.cp = "QRYDTA"   -> IF query.described THEN ConsumeQRYDTA(query, d.body)
                                   ELSE [query EXCEPT !.stop = TRUE]
           [] d.cp = "EXTDTA"   -> [query EXCEPT !.extdta = Append(@, d.body)]
           [] d.cp = "ENDQRYRM" -> ConsumeENDQRYRM(query)
           [] d.cp = "SQLCARD"  -> IF d.body[1].part = "error"
                                   THEN [query EXCEPT !.failed = TRUE]
                                   ELSE [query EXCEPT !.done = TRUE]
           [] OTHER             -> query

\* Placeholders among the first k pending rows.
RefsUpTo(query, k) == Cardinality({j \in 1..k : query.pending[j].lob = LobRef})

\* Seeded fault: a NULL uses up a LOB too.
Bug_CountNulls(query) ==
    IF query.extdta = <<>> THEN query
    ELSE [query EXCEPT
            !.extdta = <<>>,
            !.pending = [k \in 1..Len(@) |->
               IF @[k].lob # LobRef THEN @[k]
               ELSE IF k > Len(query.extdta) THEN [@[k] EXCEPT !.lob = 0]
               ELSE [@[k] EXCEPT !.lob = query.extdta[k][2].row]]]

\* The LOB data received replaces the placeholders in order; behind its status byte.
resolveLOBs(query) ==
    IF query.extdta = <<>> THEN query
    ELSE [query EXCEPT
            !.extdta = <<>>,
            !.pending = [k \in 1..Len(@) |->
               IF @[k].lob # LobRef THEN @[k]
               ELSE IF RefsUpTo(query, k) > Len(query.extdta) THEN [@[k] EXCEPT !.lob = 0]
               ELSE [@[k] EXCEPT !.lob = query.extdta[RefsUpTo(query, k)][2].row]]]

ConsumeAll(query, replies) ==
    LET consumed[i \in 0..Len(replies)] ==
            IF i = 0 THEN query ELSE Consume(consumed[i - 1], replies[i])
        after == consumed[Len(replies)]
    IN  IF after.stop THEN after
        ELSE IF after.failed THEN [after EXCEPT !.done = TRUE]
        ELSE resolveLOBs(after)

---------------------------------------------------------------------------
(* The connection *)

Init ==
    /\ result \in BoundedSeq(ResultRows, MaxRows)
    /\ rest = Encode(result)
    /\ pc = "idle"
    /\ attempt = 0
    /\ q = NewQuery
    /\ buf = <<>>
    /\ meant = <<>>
    /\ toServer = <<>>
    /\ fromServer = <<>>
    /\ batches = 0
    /\ got = <<>>
    /\ delivered = <<>>
    /\ status = "none"
    /\ cut = FALSE

\* The text of a statement, the values of a row.
Content(n, part) == [k \in 1..n |-> Byte(k, part)]

\* Objects written one after the other; last: the final one is marked so.
Write(objects, last) ==
    buf \o FlattenSeq([i \in 1..Len(objects) |->
               WriteRequest(objects[i], last /\ i = Len(objects))])

Flush(bytes, objects, then) ==
    /\ toServer' = toServer \o bytes
    /\ buf' = <<>>
    /\ meant' = [i \in 1..Len(objects) |-> [cp |-> objects[i].cp, body |-> objects[i].body]]
    /\ got' = <<>>
    /\ pc' = then

\* Seeded fault: what was written before a row failed to encode stays in the buffer.
Bug_NoReset(written) == buf' = written

\* Writer.Reset.
Reset(written) == buf' = <<>>

\* ExecBatch: EXCSQLSTT and SQLDTA for each row, EXTDTA behind it for an oversized value;
\* all chained, the last one unchained afterwards.  A row that does not encode leaves
\* nothing behind.
ExecBatch ==
    /\ pc = "idle"
    /\ status = "none"
    /\ batches < MaxBatches
    /\ batches' = batches + 1
    /\ \E inline \in BodySizes, lob \in BodySizes \cup {0}, bad \in BOOLEAN :
         LET head    == <<NewObject("PRPSQLSTT", <<>>), NewObject("SQLSTT", Content(1, "sql"))>>
             row     == <<NewObject("EXCSQLSTT", <<>>), NewObject("SQLDTA", Content(inline, "par"))>>
                        \o (IF lob = 0 THEN <<>> ELSE <<NewObject("EXTDTA", Content(lob, "lob"))>>)
             objects == head \o row \o row
         IN  IF bad
             THEN /\ Reset(Write(head \o row, FALSE))
                  /\ UNCHANGED <<toServer, meant, got, pc>>
             ELSE Flush(UnchainLast(Write(objects, FALSE)), objects, "batch")
    /\ UNCHANGED <<result, attempt, q, fromServer, rest, delivered, status, cut>>

\* Conn.Query: PRPSQLSTT, SQLSTT and OPNQRY in one chain.
Query ==
    /\ pc = "idle"
    /\ status = "none"
    /\ \E n \in BodySizes :
         LET objects == <<NewObject("PRPSQLSTT", <<>>), NewObject("SQLSTT", Content(n, "sql")),
                          NewObject("OPNQRY", <<>>)>>
         IN  Flush(Write(objects, TRUE), objects, "open")
    /\ UNCHANGED <<result, attempt, q, fromServer, rest, batches, delivered, status, cut>>

SendCNTQRY(round) ==
    /\ attempt' = round
    /\ LET objects == <<NewObject("CNTQRY", <<>>)>>
       IN  Flush(Write(objects, TRUE), objects, "fetch")

\* Query.Next: rows that are waiting, the end, or another block.
QueryNext ==
    /\ pc = "idle"
    /\ status = "open"
    /\ \/ /\ q.pending # <<>>
          /\ delivered' = delivered \o q.pending
          /\ q' = [q EXCEPT !.pending = <<>>]
          /\ UNCHANGED <<pc, attempt, buf, meant, toServer, got, status>>
       \/ /\ q.pending = <<>> /\ q.done
          /\ status' = "end"
          /\ UNCHANGED <<pc, attempt, q, buf, meant, toServer, got, delivered>>
       \/ /\ q.pending = <<>> /\ ~q.done
          /\ SendCNTQRY(1)
          /\ UNCHANGED <<q, delivered, status>>
    /\ UNCHANGED <<result, fromServer, rest, batches, cut>>

Replies == ReadChain(fromServer)

\* The replies to a batch: SQLCARDs, counted elsewhere.
BatchDone ==
    /\ pc = "batch"
    /\ Replies.ok
    /\ fromServer' = Replies.rest
    /\ pc' = "idle"
    /\ UNCHANGED <<result, attempt, q, buf, meant, toServer, rest, batches, got, delivered,
                   status, cut>>

\* The replies to PRPSQLSTT and OPNQRY.
Opened ==
    /\ pc = "open"
    /\ Replies.ok
    /\ fromServer' = Replies.rest
    /\ pc' = "idle"
    /\ q' = ConsumeAll(q, Replies.chain)
    /\ status' = IF q'.stop \/ q'.failed \/ ~q'.opened THEN "error" ELSE "open"
    /\ UNCHANGED <<result, attempt, buf, meant, toServer, rest, batches, got, delivered, cut>>

\* Seeded fault: the loop ends after the first reply without rows.
Bug_AskOnce(round) == FALSE

AskAgain(round) == round < 3

\* The replies to CNTQRY.
Fetched ==
    LET after == ConsumeAll(q, Replies.chain) IN
    /\ pc = "fetch"
    /\ Replies.ok
    /\ fromServer' = Replies.rest
    /\ \/ /\ after.stop \/ after.failed
          /\ q' = after
          /\ pc' = "idle"
          /\ status' = "error"
          /\ UNCHANGED <<attempt, buf, meant, toServer, got, delivered>>
       \/ /\ ~after.stop /\ ~after.failed
          /\ after.pending = <<>> /\ ~after.done /\ AskAgain(attempt)
          /\ q' = after
          /\ SendCNTQRY(attempt + 1)
          /\ UNCHANGED <<delivered, status>>
       \/ /\ ~after.stop /\ ~after.failed
          /\ after.pending # <<>> \/ after.done \/ ~AskAgain(attempt)
          /\ delivered' = delivered \o after.pending
          /\ q' = [after EXCEPT !.pending = <<>>, !.done = @ \/ after.pending = <<>>]
          /\ status' = IF after.pending = <<>> THEN "end" ELSE status
          /\ pc' = "idle"
          /\ UNCHANGED <<attempt, buf, meant, toServer, got>>
    /\ UNCHANGED <<result, rest, batches, cut>>

\* The stream ends inside the answer: the bytes read so far are dropped with the error.
ReadFails ==
    /\ pc \in {"batch", "open", "fetch"}
    /\ cut
    /\ ~Replies.ok
    /\ pc' = "lost"
    /\ status' = IF pc = "batch" THEN "none" ELSE "error"
    /\ UNCHANGED <<result, attempt, q, buf, meant, toServer, fromServer, rest, batches, got,
                   delivered, cut>>

\* Query.Close; CLSQRY and its reply are left to Db2Session.
QueryClose ==
    /\ pc \in {"idle", "lost"}
    /\ status \in {"open", "end", "error"}
    /\ status' = "closed"
    /\ q' = [q EXCEPT !.pending = <<>>]
    /\ UNCHANGED <<result, pc, attempt, buf, meant, toServer, fromServer, rest, batches, got,
                   delivered, cut>>

---------------------------------------------------------------------------
(* The server *)

\* A block of row data and the LOBs of the rows that end in it, each with a status byte.
BlockReply(block) ==
    <<NewObject("QRYDTA", block)>>
    \o FlattenSeq([k \in 1..Len(block) |->
           IF block[k].part # "ref" THEN <<>>
           ELSE <<NewObject("EXTDTA", <<Byte(block[k].row, "status"), Byte(block[k].row, "lob")>>)>>])

\* The next n row bytes, in blocks of at most size bytes.
Blocks(n, size) ==
    FlattenSeq([i \in 1..((n + size - 1) \div size) |->
        BlockReply(SubSeq(rest, (i - 1) * size + 1, Min({n, i * size})))])

EndOfQuery == <<NewObject("ENDQRYRM", <<>>), NewObject("SQLCARD", <<Byte(0, "eod")>>)>>
Failure    == <<NewObject("SQLCARD", <<Byte(0, "error")>>)>>

\* What comes before the row data, and what comes behind it.
AnswerHead(to) ==
    IF to = "open" THEN <<NewObject("OPNQRYRM", <<>>), NewObject("QRYDSC", <<>>)>> ELSE <<>>
AnswerEnd(how) ==
    CASE how = "more"  -> <<>>
      [] how = "end"   -> EndOfQuery
      [] how = "short" -> EndOfQuery
      [] how = "eod"   -> <<NewObject("QRYDTA", <<Byte(0, "eod")>>)>>
      [] how = "error" -> Failure

\* Reply DSSs, all but the last chained.
Send(objects) ==
    fromServer' = fromServer \o FlattenSeq([i \in 1..Len(objects) |->
                      WriteDSS(objects[i], i < Len(objects), 0)])

Took == ReadChain(toServer)

\* The server reads a transmission and answers it.  A query's answer has a number of row
\* bytes, never fewer than MinBlock unless no more are left, and may say that this is the
\* end: with ENDQRYRM, or with an SQLCA in the row data.  It may fail, or stop inside a row.
Serve ==
    /\ toServer # <<>>
    /\ Took.ok
    /\ toServer' = Took.rest
    /\ got' = Took.chain
    /\ \/ pc = "batch" /\ Send(<<NewObject("SQLCARD", <<Byte(0, "ok")>>)>>) /\ UNCHANGED rest
       \/ /\ pc \in {"open", "fetch"}
          /\ \E n \in 0..Len(rest), size \in BlockSizes,
                how \in {"more", "end", "eod", "error", "short"} :
               LET last == n = Len(rest)
                   sent == SubSeq(rest, 1, n)
               IN
               /\ n <= size * MaxBlocks
               /\ n >= MinBlock \/ last \/ pc = "open" \/ how = "error"
               /\ how = "more" => pc = "open" \/ n > 0
               /\ how \in {"end", "eod"} => last
               /\ how = "short" => ~last /\ n > 0 /\ sent[n].part \notin {"null", "ref"}
               /\ rest' = SubSeq(rest, n + 1, Len(rest))
               /\ Send(AnswerHead(pc) \o Blocks(n, size) \o AnswerEnd(how))
    /\ UNCHANGED <<result, pc, attempt, q, buf, meant, batches, delivered, status, cut>>

\* The link breaks while a request or its answer is on the way: the rest never arrives.
LinkBreaks ==
    /\ ~cut
    /\ toServer # <<>> \/ fromServer # <<>>
    /\ cut' = TRUE
    /\ toServer' = <<>>
    /\ \E n \in 0..Max({0, Len(fromServer) - 1}) : fromServer' = SubSeq(fromServer, 1, n)
    /\ UNCHANGED <<result, pc, attempt, q, buf, meant, rest, batches, got, delivered, status>>

---------------------------------------------------------------------------
(* The specification *)

Next ==
    \/ QueryNext
    \/ QueryClose
    \/ ExecBatch
    \/ Query
    \/ BatchDone
    \/ Opened
    \/ Fetched
    \/ ReadFails
    \/ Serve
    \/ LinkBreaks

\* Somebody has something to do: the reader of a stream, or a consumer that has an open
\* query.
Busy ==
    \/ pc \in {"batch", "open", "fetch"}
    \/ pc = "idle" /\ status = "open"

\* Weak fairness of Next, with Busy for its enabledness: the consumer goes on calling Next
\* until it closes the query, the server answers unless the link breaks, and its answer is
\* read.
Fairness == <>[]~Busy \/ []<><<TRUE>>_vars

Spec == Init /\ [][Next]_vars /\ Fairness

---------------------------------------------------------------------------
(* Properties *)

\* The types; the bytes carried over are always less than a row.
TypeOK ==
    /\ result \in Seq(ResultRows)
    /\ pc \in {"idle", "batch", "open", "fetch", "lost"}
    /\ attempt \in 0..3
    /\ \A i \in 1..Len(q.pending) : q.pending[i].lob \in -1..Len(result)
    /\ Len(q.partial) < CaLength + 4
    /\ batches \in 0..MaxBatches
    /\ status \in {"none", "open", "end", "error", "closed"}

\* What the server reads is what the driver meant to send: objects at and over the
\* largest DSS are cut and put together again, every transmission ends where its chain
\* ends, and a batch given up in the middle leaves nothing in front of the next one.
\* An answer that arrives whole is read to its end.
RequestsIntact ==
    /\ got # <<>> => got = meant /\ toServer = <<>>
    /\ toServer # <<>> => Took.ok
    /\ fromServer # <<>> /\ ~cut => Replies.ok

\* Why that is so: only one party has bytes on the way, the buffer is empty between calls,
\* an answer is one chain and nothing behind it, and a broken one is never a chain.
WireInv ==
    /\ buf = <<>>
    /\ pc \in {"idle", "batch", "open", "fetch", "lost"}
    /\ pc = "idle" => toServer = <<>> /\ fromServer = <<>> /\ ~cut
    /\ cut => toServer = <<>> /\ ~Replies.ok
    /\ toServer # <<>> =>
         /\ fromServer = <<>> /\ got = <<>>
         /\ Took = [ok |-> TRUE, chain |-> meant, rest |-> <<>>]
    /\ got # <<>> => got = meant /\ toServer = <<>>
    /\ fromServer # <<>> /\ ~cut => Replies.ok /\ Replies.rest = <<>>

\* Between calls no byte of the result is lost or taken twice: the rows handed over and
\* waiting, the carried-over bytes and those the server still has are the whole result.
BytesAccounted ==
    (pc = "idle" /\ status = "open") =>
        LET rows == Len(delivered) + Len(q.pending) IN
        Encode(SubSeq(result, 1, rows)) \o q.partial \o rest = Encode(result)

\* The query keeps the promise of a result stream, whatever the blocks, segments and LOBs
\* are cut into: all rows with their own LOBs and then the end, or an error.
Stream == INSTANCE ResultStream WITH
              Rows <- [col: 1..MaxRows, lob: 0..MaxRows], result <- Values(result)
ImplementsStream == Stream!Spec

=============================================================================
