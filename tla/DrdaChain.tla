----------------------------- MODULE DrdaChain ------------------------------
(***************************************************************************)
(* Reply chains of one DRDA session: Conn.readChain against the stream of  *)
(* reply DSSs.  A transmission is a chain of commands numbered by          *)
(* correlation ids; the server, an external party, answers each command    *)
(* with one or more DSSs and marks the ones another follows as chained.    *)
(* Payloads are reduced to whether they report success or failure.         *)
(***************************************************************************)
EXTENDS Integers, Sequences, FiniteSets

CONSTANTS
    MaxRequests,  \* bound: transmissions sent over the session's life
    MaxCommands,  \* bound: the highest command number of a transmission
    MaxReplies,   \* bound: DSSs answering one command
    CorrMod,      \* correlation ids are computed modulo this (2^16 in the code)
    Deadlines     \* TRUE: the contexts of the calls carry deadlines

ASSUME ChainAssumption ==
    /\ MaxRequests \in Nat
    /\ MaxCommands \in Nat \ {0}
    /\ MaxReplies \in Nat \ {0}
    /\ CorrMod \in Nat \ {0, 1, 2}
    /\ Deadlines \in BOOLEAN

VARIABLES
    \* the connection
    up,        \* the TCP connection is up
    reading,   \* a readChain is running
    request,   \* the last transmission sent
    sawError,  \* readChain's local of that name
    replies,   \* readChain's local `out'
    outcome,   \* how the last readChain ended
    torn,      \* a deadline struck inside a DSS: the rest of it is read as a header
    failedOnce, \* history: some readChain has returned an error
    \* the server and the stream it writes
    inbox,     \* transmissions it has not finished
    answering, \* number of the command it answers, 0 between transmissions
    answered,  \* DSSs it has sent for that command
    failing,   \* that command has failed
    pipe       \* DSSs sent and not read

connVars   == <<reading, request, sawError, replies, outcome, torn, failedOnce>>
serverVars == <<inbox, answering, answered, failing>>
vars == <<up, connVars, serverVars, pipe>>

---------------------------------------------------------------------------
(* Types *)

Commands == 1..MaxCommands

\* Commands first..last of transmission number id.  Only a query is continued or
\* closed by a lone command numbered 2 (Query.corr).
Transmission == [id: 0..MaxRequests, first: {1, 2}, last: 0..MaxCommands]

\* Seeded fault: ids go on counting over the session and are not reduced.
Bug_SessionWide(command) == request.id * CorrMod + command

Corr(command) == command % CorrMod

Reply == [id: 1..MaxRequests, corr: 0..(CorrMod - 1), chained: BOOLEAN,
          kind: {"info", "ok", "error"}]

TypeOK ==
    /\ up \in BOOLEAN
    /\ reading \in BOOLEAN
    /\ request \in Transmission
    /\ sawError \in BOOLEAN
    /\ replies \in Seq(Reply)
    /\ outcome \in {"none", "chain", "error"}
    /\ torn \in BOOLEAN
    /\ failedOnce \in BOOLEAN
    /\ inbox \in Seq(Transmission)
    /\ answering \in 0..MaxCommands
    /\ answered \in 0..MaxReplies
    /\ failing \in BOOLEAN
    /\ pipe \in Seq(Reply)

Init ==
    /\ up = TRUE
    /\ reading = FALSE
    /\ request = [id |-> 0, first |-> 1, last |-> 0]
    /\ sawError = FALSE
    /\ replies = <<>>
    /\ outcome = "none"
    /\ torn = FALSE
    /\ failedOnce = FALSE
    /\ inbox = <<>>
    /\ answering = 0
    /\ answered = 0
    /\ failing = FALSE
    /\ pipe = <<>>

---------------------------------------------------------------------------
(* The connection *)

\* A method of Conn sends its chain of commands and calls readChain.
Send ==
    /\ ~reading
    /\ up
    /\ request.id < MaxRequests
    /\ \E first \in {1, 2}, last \in Commands :
          /\ first <= last
          /\ first = 2 => last = 2
          /\ request' = [id |-> request.id + 1, first |-> first, last |-> last]
    /\ inbox' = Append(inbox, request')
    /\ reading' = TRUE
    /\ sawError' = FALSE
    /\ replies' = <<>>
    /\ outcome' = "none"
    /\ UNCHANGED <<up, torn, failedOnce, answering, answered, failing, pipe>>

Finish(how) ==
    /\ reading' = FALSE
    /\ outcome' = how
    /\ failedOnce' = (failedOnce \/ how = "error")

\* Seeded fault: an error reply is not recognised.
Bug_NoError(d) == FALSE

IsErrorReply(d) == d.kind = "error"

\* Seeded fault: an unchained DSS alone ends the transmission.
Bug_FirstChainEnds(d, errorSeen) == ~d.chained

EndsTransmission(d, errorSeen) == ~d.chained /\ (d.corr >= Corr(request.last) \/ errorSeen)

\* One round of readChain's loop.
ReadReply ==
    /\ reading
    /\ ~torn
    /\ pipe # <<>>
    /\ LET d == Head(pipe) IN
       /\ pipe' = Tail(pipe)
       /\ replies' = Append(replies, d)
       /\ sawError' = (sawError \/ IsErrorReply(d))
       /\ IF EndsTransmission(d, sawError')
          THEN Finish("chain")
          ELSE UNCHANGED <<reading, outcome, failedOnce>>
    /\ UNCHANGED <<up, request, torn, serverVars>>

\* readDSS fails: end of file, or bytes that are no DSS header.  Each attempt at such
\* bytes uses some up, and the last of them puts the stream in step again.
ReadFails ==
    /\ reading
    /\ \/ ~up /\ pipe = <<>> /\ UNCHANGED <<torn, pipe>>
       \/ /\ torn /\ pipe # <<>>
          /\ \/ UNCHANGED <<torn, pipe>>
             \/ torn' = FALSE /\ pipe' = Tail(pipe)
    /\ Finish("error")
    /\ UNCHANGED <<up, request, sawError, replies, serverVars>>

\* The read deadline strikes between two DSSs, or inside the one that is arriving.
\* The connection stays in use.
DeadlineExpires ==
    /\ Deadlines
    /\ reading
    /\ Finish("error")
    /\ torn' \in {torn, torn \/ pipe # <<>>}
    /\ UNCHANGED <<up, request, sawError, replies, serverVars, pipe>>

---------------------------------------------------------------------------
(* The server *)

StartAnswering ==
    /\ up
    /\ answering = 0
    /\ inbox # <<>>
    /\ answering' = Head(inbox).first
    /\ answered' = 0
    /\ failing' = FALSE
    /\ UNCHANGED <<up, connVars, inbox, pipe>>

Put(kind, chained) ==
    pipe' = Append(pipe, [id |-> Head(inbox).id, corr |-> Corr(answering),
                          chained |-> chained, kind |-> kind])

\* A DSS that is not the command's last: a warning, a result, an error message that
\* an SQLCARD follows.
AnswerMore ==
    /\ up
    /\ answering > 0
    /\ answered + 1 < MaxReplies
    /\ answered' = answered + 1
    /\ \E fails \in BOOLEAN :
          /\ Put(IF fails THEN "error" ELSE "info", TRUE)
          /\ failing' = (failing \/ fails)
    /\ UNCHANGED <<up, connVars, inbox, answering>>

\* The last DSS of a command.  Between two commands the chain may end early; a
\* failed command ends it and the commands after it are discarded.
AnswerLast ==
    /\ up
    /\ answering > 0
    /\ answered < MaxReplies
    /\ answered' = 0
    /\ failing' = FALSE
    /\ \/ /\ ~failing
          /\ answering < Head(inbox).last
          /\ \E chained \in BOOLEAN : Put("ok", chained)
          /\ answering' = answering + 1
          /\ UNCHANGED inbox
       \/ /\ \/ Put("error", FALSE)
             \/ ~failing /\ answering = Head(inbox).last /\ Put("ok", FALSE)
          /\ answering' = 0
          /\ inbox' = Tail(inbox)
    /\ UNCHANGED <<up, connVars>>

\* The connection is lost; what has arrived can still be read.
Disconnect ==
    /\ up
    /\ up' = FALSE
    /\ UNCHANGED <<connVars, serverVars, pipe>>

---------------------------------------------------------------------------
(* The specification *)

Read   == ReadReply \/ ReadFails
Answer == StartAnswering \/ AnswerMore \/ AnswerLast

Next == Send \/ Read \/ DeadlineExpires \/ Answer \/ Disconnect

Spec == Init /\ [][Next]_vars

\* The reader keeps reading, and the server finishes what it has begun.
FairSpec == Spec /\ WF_vars(Read) /\ WF_vars(Answer)

---------------------------------------------------------------------------
(* Properties *)

\* Until a read fails, the replies readChain collects answer the transmission it was
\* called for.
OwnReplies == ~failedOnce => \A i \in DOMAIN replies : replies[i].id = request.id

\* Until a read fails, a readChain that returns has left nothing for the next one: the
\* stream is empty and the server has nothing more to say.
WholeAnswerRead ==
    (~failedOnce /\ ~reading) =>
        pipe = <<>> /\ inbox = <<>>

\* Until a read fails, when readChain returns either a command failed and its failure
\* is among the replies, or every command has been answered.
EveryCommandSettled ==
    (~failedOnce /\ ~reading) =>
        \/ \E i \in DOMAIN replies : replies[i].kind = "error"
        \/ \A c \in request.first..request.last :
              \E i \in DOMAIN replies : replies[i].corr = Corr(c) /\ replies[i].kind = "ok"

\* The rows ExecBatch counts, from the SQLCARDs of commands 2 and up.
CountedRows == {i \in DOMAIN replies : replies[i].kind = "ok" /\ replies[i].corr >= 2}

\* Until a read fails, a batch none of whose commands failed counts every row once.
RowsCounted ==
    (~failedOnce /\ ~reading /\ ~sawError) =>
        Cardinality(CountedRows) = Cardinality((request.first..request.last) \ {1})

\* "We are done when the reply belongs to the last request we sent" (conn.go).
DoneOnLastRequest ==
    (~reading /\ outcome = "chain") => replies[Len(replies)].id = request.id

\* Every readChain returns.
ReadReturns == reading ~> ~reading

---------------------------------------------------------------------------
(* The inductive invariants behind the properties *)

\* What waits at the server was sent, and only what waits is answered.
Queued ==
    /\ \A i \in DOMAIN inbox : inbox[i].id > 0 /\ inbox[i].first <= inbox[i].last
    /\ answering > 0 => inbox # <<>>

\* The answer to the last transmission as far as it was sent; readChain has taken a prefix.
Stream == replies \o pipe

Errors(s) == \E i \in DOMAIN s : s[i].kind = "error"
Settled(s, c) == \E i \in DOMAIN s : s[i].kind = "ok" /\ s[i].corr = c

\* Commands are settled in order, each once.
InOrder(s) ==
    \A i, j \in DOMAIN s :
        (i < j /\ s[i].kind = "ok" /\ s[j].kind = "ok") => s[i].corr < s[j].corr

\* An unchained DSS that is not the last of the answer settles a command before the last
\* one, and no error precedes it: readChain goes on after it.
GoesOn(s, i) ==
    ~s[i].chained => /\ s[i].kind = "ok" /\ s[i].corr < request.last
                     /\ \A k \in 1..i : s[k].kind # "error"

\* The server has not finished its answer ...
Unfinished(s) ==
    /\ inbox = <<request>> /\ reading
    /\ \A i \in DOMAIN s : GoesOn(s, i)
    /\ Errors(s) => failing /\ answering > 0
    /\ LET next == IF answering = 0 THEN request.first ELSE answering IN
       /\ next \in request.first..request.last
       /\ \A i \in DOMAIN s : s[i].kind = "ok" => s[i].corr \in request.first..(next - 1)
       /\ \A c \in request.first..(next - 1) : Settled(s, c)

\* ... or has: its last DSS makes readChain return, and everything is settled.
Finished(s) ==
    /\ inbox = <<>> /\ answering = 0
    /\ \A i \in DOMAIN s : i < Len(s) => GoesOn(s, i)
    /\ s # <<>> => LET d == s[Len(s)] IN ~d.chained /\ (d.kind = "error" \/ d.corr = request.last)
    /\ \A i \in DOMAIN s : s[i].kind = "ok" => s[i].corr \in request.first..request.last
    /\ Errors(s) \/ \A c \in request.first..request.last : Settled(s, c)
    /\ reading <=> pipe # <<>>

InStep ==
    /\ ~reading => pipe = <<>>
    /\ sawError <=> Errors(replies)
    /\ \A i \in DOMAIN Stream : Stream[i].id = request.id
    /\ InOrder(Stream)
    /\ Unfinished(Stream) \/ Finished(Stream)

\* While no transmission has more commands than there are correlation ids, and until a read
\* fails, readChain and the server are in step.
NoWrap   == MaxCommands < CorrMod
ChainInv == NoWrap /\ ~failedOnce => InStep

=============================================================================
