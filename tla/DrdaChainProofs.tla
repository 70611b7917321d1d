--------------------------- MODULE DrdaChainProofs ---------------------------
(***************************************************************************)
(* Proofs about DrdaChain: readChain stays in step with the server, for    *)
(* any number of transmissions, commands and replies, as long as no        *)
(* transmission has more commands than there are correlation ids.          *)
(***************************************************************************)
EXTENDS DrdaChain, FiniteSetTheorems, SequenceTheorems, TLAPS

---------------------------------------------------------------------------
(* Types *)

\* Correlation ids are below CorrMod, and those of a chain that does not wrap are the
\* numbers of its commands.
LEMMA CorrRange ==
    ASSUME NEW c \in 0..MaxCommands
    PROVE  /\ Corr(c) \in 0..(CorrMod - 1)
           /\ NoWrap => Corr(c) = c
BY ChainAssumption DEF ChainAssumption, Corr, NoWrap

\* A queue without its head.
LEMMA TailElements ==
    ASSUME NEW T, NEW q \in Seq(T), q # <<>>
    PROVE  /\ Head(q) = q[1] /\ Head(q) \in T
           /\ Tail(q) \in Seq(T) /\ Len(Tail(q)) = Len(q) - 1
           /\ \A i \in DOMAIN Tail(q) : i + 1 \in DOMAIN q /\ Tail(q)[i] = q[i + 1]
OBVIOUS

\* A queue with one more element.
LEMMA AppendElements ==
    ASSUME NEW T, NEW q \in Seq(T), NEW e \in T
    PROVE  /\ Append(q, e) \in Seq(T) /\ Len(Append(q, e)) = Len(q) + 1
           /\ DOMAIN Append(q, e) = 1..(Len(q) + 1) /\ DOMAIN q = 1..Len(q)
           /\ \A i \in DOMAIN q : Append(q, e)[i] = q[i]
           /\ Append(q, e)[Len(q) + 1] = e
OBVIOUS

TypeInv == TypeOK /\ Queued

\* What a DSS the server sends looks like.
LEMMA PutType ==
    ASSUME TypeInv, answering > 0, NEW kind \in {"info", "ok", "error"}, NEW chained \in BOOLEAN,
           Put(kind, chained)
    PROVE  \E d \in Reply : /\ pipe' = Append(pipe, d)
                            /\ d = [id |-> inbox[1].id, corr |-> Corr(answering),
                                    chained |-> chained, kind |-> kind]
<1>1. inbox # <<>> /\ inbox \in Seq(Transmission) /\ 1 \in DOMAIN inbox
  BY DEF TypeInv, TypeOK, Queued
<1>2. Head(inbox) = inbox[1] /\ inbox[1] \in Transmission /\ inbox[1].id > 0
  BY <1>1 DEF TypeInv, Queued
<1>3. inbox[1].id \in 1..MaxRequests
  BY <1>2, ChainAssumption DEF ChainAssumption, Transmission
<1>4. Corr(answering) \in 0..(CorrMod - 1)
  BY CorrRange DEF TypeInv, TypeOK
<1>5. [id |-> inbox[1].id, corr |-> Corr(answering), chained |-> chained, kind |-> kind] \in Reply
  BY <1>3, <1>4 DEF Reply
<1> QED BY <1>2, <1>5 DEF Put

\* A fresh session.
LEMMA InitTypes == Init => TypeInv
<1> SUFFICES ASSUME Init PROVE TypeInv
  OBVIOUS
<1>1. request \in Transmission
  BY ChainAssumption DEF ChainAssumption, Init, Transmission
<1>2. answering \in 0..MaxCommands /\ answered \in 0..MaxReplies
  BY ChainAssumption DEF ChainAssumption, Init
<1>3. replies \in Seq(Reply) /\ inbox \in Seq(Transmission) /\ pipe \in Seq(Reply)
  BY DEF Init
<1>4. Queued
  BY DEF Init, Queued
<1> QED BY <1>1, <1>2, <1>3, <1>4 DEF Init, TypeInv, TypeOK

\* What Send leaves: one more transmission, queued at the server.
LEMMA SendTypes ==
    ASSUME TypeInv, Send
    PROVE  TypeInv' /\ request'.first <= request'.last
<1>1. PICK first \in {1, 2}, last \in Commands :
        first <= last /\ request' = [id |-> request.id + 1, first |-> first, last |-> last]
  BY DEF Send
<1>2. request' \in Transmission /\ request'.id > 0 /\ request'.first <= request'.last
  <2>1. request.id + 1 \in 1..MaxRequests
    BY ChainAssumption DEF ChainAssumption, TypeInv, TypeOK, Transmission, Send
  <2> QED BY <1>1, <2>1, ChainAssumption DEF ChainAssumption, Transmission, Commands
<1>3. /\ inbox' \in Seq(Transmission)
      /\ \A i \in DOMAIN inbox' : inbox'[i].id > 0 /\ inbox'[i].first <= inbox'[i].last
      /\ inbox' # <<>>
  <2>1. PICK r \in Transmission : r = request'
    BY <1>2
  <2>2. inbox \in Seq(Transmission) /\ inbox' = Append(inbox, r)
    BY <2>1 DEF TypeInv, TypeOK, Send
  <2>3. /\ \A i \in DOMAIN inbox : inbox'[i] = inbox[i]
        /\ inbox'[Len(inbox) + 1] = r
        /\ DOMAIN inbox' = 1..(Len(inbox) + 1) /\ DOMAIN inbox = 1..Len(inbox)
    BY <2>2, AppendElements
  <2>4. Len(inbox) \in Nat
    BY <2>2
  <2> QED BY <1>2, <2>1, <2>2, <2>3, <2>4, AppendElements DEF TypeInv, Queued
<1>4. replies' \in Seq(Reply)
  BY DEF Send
<1> QED BY <1>2, <1>3, <1>4 DEF TypeInv, TypeOK, Queued, Send

\* Reading takes DSSs from the stream.
LEMMA ReadTypes ==
    ASSUME TypeInv, ReadReply \/ ReadFails \/ DeadlineExpires
    PROVE  TypeInv'
<1>0. pipe \in Seq(Reply) /\ replies \in Seq(Reply)
  BY DEF TypeInv, TypeOK
<1>1. CASE ReadReply
  <2>1. Head(pipe) \in Reply /\ pipe' = Tail(pipe) /\ replies' = Append(replies, Head(pipe))
    BY <1>0, <1>1, TailElements DEF ReadReply
  <2>2. pipe' \in Seq(Reply) /\ replies' \in Seq(Reply)
    BY <1>0, <1>1, <2>1, TailElements, AppendElements DEF ReadReply
  <2>3. sawError' \in BOOLEAN /\ reading' \in BOOLEAN /\ failedOnce' \in BOOLEAN
        /\ outcome' \in {"none", "chain", "error"}
    BY <1>1 DEF ReadReply, Finish, TypeInv, TypeOK
  <2> QED BY <1>1, <2>2, <2>3 DEF ReadReply, TypeInv, TypeOK, Queued, serverVars
<1>2. CASE ReadFails
  <2>1. pipe' \in Seq(Reply) /\ torn' \in BOOLEAN
    BY <1>0, <1>2, TailElements DEF ReadFails, TypeInv, TypeOK
  <2> QED BY <1>2, <2>1 DEF ReadFails, Finish, TypeInv, TypeOK, Queued, serverVars
<1>3. CASE DeadlineExpires
  <2>1. torn' \in BOOLEAN
    BY <1>3 DEF DeadlineExpires, TypeInv, TypeOK
  <2> QED BY <1>3, <2>1 DEF DeadlineExpires, Finish, TypeInv, TypeOK, Queued, serverVars
<1> QED BY <1>1, <1>2, <1>3

\* The server answers what is queued, within its bounds.
LEMMA AnswerTypes ==
    ASSUME TypeInv, StartAnswering \/ AnswerMore \/ AnswerLast
    PROVE  TypeInv'
<1>0. inbox \in Seq(Transmission) /\ pipe \in Seq(Reply) /\ answering \in 0..MaxCommands
      /\ answered \in 0..MaxReplies
  BY DEF TypeInv, TypeOK
<1>1. CASE StartAnswering
  <2>1. Head(inbox) \in Transmission /\ Head(inbox).first <= Head(inbox).last
    BY <1>0, <1>1, TailElements DEF StartAnswering, TypeInv, Queued
  <2>2. answering' \in 0..MaxCommands /\ answered' \in 0..MaxReplies
    BY <1>1, <2>1, ChainAssumption DEF ChainAssumption, StartAnswering, Transmission
  <2> QED BY <1>1, <2>2 DEF StartAnswering, TypeInv, TypeOK, Queued, connVars
<1>2. CASE AnswerMore
  <2>1. \E kind \in {"info", "error"} : Put(kind, TRUE)
    BY <1>2 DEF AnswerMore
  <2>2. \E d \in Reply : pipe' = Append(pipe, d)
    BY <1>2, <2>1, PutType DEF AnswerMore
  <2>3. pipe' \in Seq(Reply)
    BY <1>0, <2>2, AppendElements
  <2>4. answered' \in 0..MaxReplies
    BY <1>0, <1>2, ChainAssumption DEF ChainAssumption, AnswerMore
  <2>5. failing' \in BOOLEAN
    BY <1>2 DEF AnswerMore, TypeInv, TypeOK
  <2> QED BY <1>2, <2>3, <2>4, <2>5 DEF AnswerMore, TypeInv, TypeOK, Queued, connVars
<1>3. CASE AnswerLast
  <2>1. pipe' \in Seq(Reply)
    <3>1. \E kind \in {"ok", "error"}, chained \in BOOLEAN : Put(kind, chained)
      BY <1>3 DEF AnswerLast
    <3>2. \E d \in Reply : pipe' = Append(pipe, d)
      BY <1>3, <3>1, PutType DEF AnswerLast
    <3> QED BY <1>0, <3>2, AppendElements
  <2>2. inbox # <<>> /\ Head(inbox) \in Transmission
    BY <1>0, <1>3, TailElements DEF AnswerLast, TypeInv, Queued
  <2>3. answered' \in 0..MaxReplies /\ answering' \in 0..MaxCommands
    <3>1. /\ answered' = 0
          /\ \/ answering' = 0
             \/ answering < Head(inbox).last /\ answering' = answering + 1
      BY <1>3 DEF AnswerLast
    <3>2. Head(inbox).last \in 0..MaxCommands
      BY <2>2 DEF Transmission
    <3> QED BY <1>0, <3>1, <3>2, ChainAssumption DEF ChainAssumption
  <2>4. inbox' \in Seq(Transmission) /\ Queued'
    <3>1. CASE inbox' = inbox
      BY <1>0, <2>2, <3>1 DEF TypeInv, Queued
    <3>2. CASE inbox' = Tail(inbox) /\ answering' = 0
      BY <1>0, <2>2, <3>2, TailElements DEF TypeInv, Queued
    <3> QED BY <1>3, <3>1, <3>2 DEF AnswerLast
  <2> QED BY <1>3, <2>1, <2>3, <2>4 DEF AnswerLast, TypeInv, TypeOK, connVars
<1> QED BY <1>1, <1>2, <1>3

\* The types and bounds of the session hold in every reachable state.
LEMMA TypeInvariant == Spec => []TypeInv
<1>1. TypeInv /\ [Next]_vars => TypeInv'
  <2> SUFFICES ASSUME TypeInv, [Next]_vars PROVE TypeInv'
    OBVIOUS
  <2>1. CASE Disconnect \/ UNCHANGED vars
    BY <2>1 DEF Disconnect, vars, connVars, serverVars, TypeInv, TypeOK, Queued
  <2> QED BY <2>1, SendTypes, ReadTypes, AnswerTypes DEF Next, Read, Answer
<1> QED BY <1>1, InitTypes, PTL DEF Spec

\* No correlation id leaves its range, no command number and no reply count its bound.
THEOREM ChainTypes == Spec => []TypeOK
<1>1. TypeInv => TypeOK
  BY DEF TypeInv
<1> QED BY <1>1, TypeInvariant, PTL

---------------------------------------------------------------------------
(* The stream *)

\* Taking a DSS from the pipe leaves the stream as it is.
LEMMA ReadKeepsStream ==
    ASSUME NEW r \in Seq(Reply), NEW p \in Seq(Reply), p # <<>>
    PROVE  Append(r, Head(p)) \o Tail(p) = r \o p
<1> DEFINE a == Append(r, Head(p)) \o Tail(p)
           b == r \o p
<1>1. Head(p) = p[1] /\ Head(p) \in Reply /\ Tail(p) \in Seq(Reply) /\ Len(p) \in Nat /\ Len(p) > 0
  OBVIOUS
<1>2. Append(r, Head(p)) \in Seq(Reply) /\ Len(Append(r, Head(p))) = Len(r) + 1
  BY <1>1
<1>3. a \in Seq(Reply) /\ b \in Seq(Reply) /\ Len(a) = Len(b)
  BY <1>1, <1>2
<1>4. ASSUME NEW i \in 1..Len(a) PROVE a[i] = b[i]
  <2>1. CASE i <= Len(r)
    BY <1>1, <1>2, <2>1
  <2>2. CASE i = Len(r) + 1
    BY <1>1, <1>2, <2>2
  <2>3. CASE i > Len(r) + 1
    <3>1. a[i] = Tail(p)[i - (Len(r) + 1)]
      BY <1>1, <1>2, <2>3
    <3>2. Tail(p)[i - (Len(r) + 1)] = p[i - Len(r)]
      BY <1>1, <1>2, <1>3, <2>3
    <3>3. b[i] = p[i - Len(r)]
      BY <1>1, <1>3, <2>3
    <3> QED BY <3>1, <3>2, <3>3
  <2> QED BY <1>3, <2>1, <2>2, <2>3
<1> QED BY <1>3, <1>4, SeqEqual

\* A DSS that is sent comes at the end of the stream.
LEMMA PutExtendsStream ==
    ASSUME NEW r \in Seq(Reply), NEW p \in Seq(Reply), NEW d \in Reply
    PROVE  r \o Append(p, d) = Append(r \o p, d)
<1> DEFINE a == r \o Append(p, d)
           b == Append(r \o p, d)
<1>1. a \in Seq(Reply) /\ b \in Seq(Reply) /\ Len(a) = Len(b) /\ Len(a) = Len(r) + Len(p) + 1
  OBVIOUS
<1>2. ASSUME NEW i \in 1..Len(a) PROVE a[i] = b[i]
  BY <1>1
<1> QED BY <1>1, <1>2, SeqEqual

\* The stream, its length, and the prefix of it that readChain has taken.
LEMMA StreamElements ==
    ASSUME TypeOK
    PROVE  /\ Stream \in Seq(Reply) /\ Len(Stream) = Len(replies) + Len(pipe)
           /\ DOMAIN Stream = 1..Len(Stream) /\ DOMAIN replies = 1..Len(replies)
           /\ Len(replies) \in Nat /\ Len(pipe) \in Nat
           /\ \A i \in DOMAIN replies : Stream[i] = replies[i]
           /\ pipe # <<>> => Stream[Len(replies) + 1] = Head(pipe)
<1>1. replies \in Seq(Reply) /\ pipe \in Seq(Reply)
  BY DEF TypeOK
<1> QED BY <1>1 DEF Stream

\* One more DSS on a stream.
LEMMA Extended ==
    ASSUME NEW s \in Seq(Reply), NEW d \in Reply, NEW t, t = Append(s, d)
    PROVE  /\ t \in Seq(Reply) /\ Len(t) = Len(s) + 1 /\ Len(s) \in Nat
           /\ DOMAIN t = 1..(Len(s) + 1) /\ DOMAIN s = 1..Len(s)
           /\ t # <<>> /\ t[Len(t)] = d
           /\ \A i \in DOMAIN s : t[i] = s[i]
           /\ Errors(t) <=> Errors(s) \/ d.kind = "error"
           /\ \A c \in Int : Settled(s, c) => Settled(t, c)
           /\ d.kind = "ok" => Settled(t, d.corr)
<1>1. /\ t \in Seq(Reply) /\ Len(t) = Len(s) + 1 /\ Len(s) \in Nat
      /\ DOMAIN t = 1..(Len(s) + 1) /\ DOMAIN s = 1..Len(s)
      /\ t # <<>> /\ t[Len(t)] = d /\ t[Len(s) + 1] = d
      /\ \A i \in DOMAIN s : t[i] = s[i]
  BY AppendElements
<1>2. \A i \in DOMAIN t : i \in DOMAIN s \/ i = Len(s) + 1
  BY <1>1
<1>3. Len(s) + 1 \in DOMAIN t /\ DOMAIN s \subseteq DOMAIN t
  BY <1>1
<1>4. Errors(t) <=> Errors(s) \/ d.kind = "error"
  BY <1>1, <1>2, <1>3 DEF Errors
<1>5. \A c \in Int : Settled(s, c) => Settled(t, c)
  BY <1>1, <1>3 DEF Settled
<1>6. d.kind = "ok" => Settled(t, d.corr)
  BY <1>1, <1>3 DEF Settled
<1> QED BY <1>1, <1>4, <1>5, <1>6

\* The order of settled commands on an extended stream.
LEMMA ExtendedInOrder ==
    ASSUME NEW s \in Seq(Reply), NEW d \in Reply, NEW t, t = Append(s, d), InOrder(s),
           d.kind = "ok" => \A i \in DOMAIN s : s[i].kind = "ok" => s[i].corr < d.corr
    PROVE  InOrder(t)
<1>1. /\ DOMAIN t = 1..(Len(s) + 1) /\ DOMAIN s = 1..Len(s) /\ Len(s) \in Nat
      /\ \A i \in DOMAIN s : t[i] = s[i]
      /\ t[Len(s) + 1] = d
  BY Extended
<1> SUFFICES ASSUME NEW i \in DOMAIN t, NEW j \in DOMAIN t,
                    i < j, t[i].kind = "ok", t[j].kind = "ok"
             PROVE  t[i].corr < t[j].corr
  BY DEF InOrder
<1>2. i \in DOMAIN s /\ t[i] = s[i]
  BY <1>1
<1>3. CASE j \in DOMAIN s
  BY <1>1, <1>2, <1>3 DEF InOrder
<1>4. CASE j = Len(s) + 1
  BY <1>1, <1>2, <1>4
<1> QED BY <1>1, <1>3, <1>4

\* readChain goes on after the same DSSs when more follow.
LEMMA ExtendedGoesOn ==
    ASSUME NEW s \in Seq(Reply), NEW d \in Reply, NEW t, t = Append(s, d),
           NEW i \in DOMAIN s, GoesOn(s, i), request' = request
    PROVE  GoesOn(t, i)'
<1>1. DOMAIN s = 1..Len(s) /\ Len(s) \in Nat /\ \A k \in DOMAIN s : t[k] = s[k]
  BY Extended
<1>2. \A k \in 1..i : k \in DOMAIN s
  BY <1>1
<1> QED BY <1>1, <1>2 DEF GoesOn

\* What a step has to show for the stream it leaves.
LEMMA InStepIf ==
    ASSUME NEW t, Stream' = t,
           ~reading' => pipe' = <<>>,
           sawError' <=> Errors(replies'),
           \A i \in DOMAIN t : t[i].id = request'.id,
           InOrder(t),
           Unfinished(t)' \/ Finished(t)'
    PROVE  InStep'
<1>1. InOrder(Stream)'
  BY DEF InOrder
<1>2. (Unfinished(Stream) \/ Finished(Stream))'
  BY DEF Unfinished, Finished, GoesOn, Errors, Settled
<1>3. (sawError <=> Errors(replies))'
  BY DEF Errors
<1> QED BY <1>1, <1>2, <1>3 DEF InStep

\* Nothing has been sent on a fresh session.
LEMMA InitInStep == Init => InStep
<1> SUFFICES ASSUME Init PROVE InStep
  OBVIOUS
<1>1. Stream = <<>> /\ replies = <<>>
  BY DEF Init, Stream
<1>2. Finished(<<>>)
  BY DEF Init, Finished, Errors, Settled
<1> QED BY <1>1, <1>2 DEF Init, InStep, InOrder, Errors

\* A transmission is sent on an empty stream to a server that waits.
LEMMA SendInStep ==
    ASSUME TypeInv, InStep, Send
    PROVE  InStep'
<1>1. ~reading /\ pipe = <<>> /\ inbox = <<>> /\ answering = 0
  BY DEF InStep, Unfinished, Finished, Send
<1>2. /\ reading' = TRUE /\ sawError' = FALSE /\ replies' = <<>> /\ pipe' = <<>>
      /\ inbox' = Append(<<>>, request') /\ answering' = 0
  BY <1>1 DEF Send
<1>3. Stream' = <<>> /\ inbox' = <<request'>>
  BY <1>2 DEF Stream
<1>4. request'.first \in request'.first..request'.last
  BY SendTypes DEF TypeInv, TypeOK, Transmission
<1>5. request'.first \in Nat
  BY SendTypes DEF TypeInv, TypeOK, Transmission
<1>6. Unfinished(<<>>)'
  BY <1>2, <1>3, <1>4, <1>5 DEF Unfinished, Errors, Settled
<1> QED BY <1>2, <1>3, <1>6, InStepIf DEF InOrder, Errors

\* readChain returns on the last DSS of a finished answer and on no other.
LEMMA ReadInStep ==
    ASSUME NoWrap, TypeInv, InStep, ReadReply
    PROVE  InStep'
<1>0. TypeOK /\ request.last \in 0..MaxCommands /\ Corr(request.last) = request.last
  BY CorrRange DEF TypeInv, TypeOK, Transmission
<1>1. PICK s : s = Stream
  OBVIOUS
<1>2. PICK k : k = Len(replies) + 1
  OBVIOUS
<1>3. PICK d : d = Head(pipe)
  OBVIOUS
<1>4. /\ s \in Seq(Reply) /\ DOMAIN s = 1..Len(s) /\ Len(s) = Len(replies) + Len(pipe)
      /\ Len(replies) \in Nat /\ Len(pipe) \in Nat /\ Len(pipe) > 0 /\ s[k] = d /\ d \in Reply
      /\ \A i \in DOMAIN replies : s[i] = replies[i]
      /\ DOMAIN replies = 1..Len(replies)
  BY <1>0, <1>1, <1>2, <1>3, StreamElements, TailElements DEF ReadReply, TypeOK
<1>5. k \in DOMAIN s /\ k \in Nat /\ k <= Len(s)
  BY <1>2, <1>4
<1>6. Stream' = s
  BY <1>0, <1>1, ReadKeepsStream DEF ReadReply, Stream, TypeOK
<1>7. /\ sawError' = (sawError \/ IsErrorReply(d)) /\ reading
      /\ UNCHANGED <<request, inbox, answering, answered, failing>>
      /\ pipe' = Tail(pipe) /\ replies' = Append(replies, d)
      /\ Len(pipe') = Len(pipe) - 1
  BY <1>0, <1>3, TailElements DEF ReadReply, serverVars, TypeOK
<1>8. sawError' <=> Errors(replies')
  <2>1. Errors(replies') <=> Errors(replies) \/ d.kind = "error"
    BY <1>0, <1>4, <1>7, Extended DEF TypeOK
  <2> QED BY <1>7, <2>1 DEF InStep, IsErrorReply
<1>9. sawError => \E i \in 1..Len(replies) : s[i].kind = "error"
  BY <1>4 DEF InStep, Errors
<1>10. IF EndsTransmission(d, sawError') THEN reading' = FALSE ELSE reading' = TRUE
  BY <1>3, <1>7 DEF ReadReply, Finish
<1>11. /\ InOrder(s) /\ \A i \in DOMAIN s : s[i].id = request.id
       /\ Unfinished(s) \/ Finished(s)
  BY <1>1 DEF InStep
<1>12. GoesOn(s, k) => ~EndsTransmission(d, sawError')
  <2> SUFFICES ASSUME GoesOn(s, k), ~d.chained PROVE ~EndsTransmission(d, sawError')
    BY DEF EndsTransmission
  <2>1. /\ d.kind = "ok" /\ d.corr < request.last
        /\ \A i \in 1..k : s[i].kind # "error"
    BY <1>4 DEF GoesOn
  <2>2. ~sawError
    BY <1>2, <1>4, <1>9, <2>1
  <2>3. ~sawError'
    BY <1>7, <2>1, <2>2 DEF IsErrorReply
  <2>4. d.corr \in Int /\ request.last \in Int
    BY <1>0, <1>4, ChainAssumption DEF ChainAssumption, Reply
  <2> QED BY <1>0, <2>1, <2>3, <2>4 DEF EndsTransmission
<1>13. CASE Unfinished(s)
  <2>1. reading' = TRUE
    BY <1>5, <1>10, <1>12, <1>13 DEF Unfinished
  <2>2. Unfinished(s)'
    BY <1>7, <1>13, <2>1 DEF Unfinished, GoesOn
  <2> QED BY <1>6, <1>7, <1>8, <1>11, <2>1, <2>2, InStepIf
<1>14. CASE Finished(s) /\ k < Len(s)
  <2>1. reading' = TRUE
    BY <1>5, <1>10, <1>12, <1>14 DEF Finished
  <2>2. pipe' # <<>>
    BY <1>2, <1>4, <1>7, <1>14
  <2>3. Finished(s)'
    BY <1>7, <1>14, <2>1, <2>2 DEF Finished, GoesOn
  <2> QED BY <1>6, <1>7, <1>8, <1>11, <2>1, <2>3, InStepIf
<1>15. CASE Finished(s) /\ k = Len(s)
  <2>1. s # <<>> /\ ~d.chained /\ (d.kind = "error" \/ d.corr = request.last)
    BY <1>4, <1>5, <1>15 DEF Finished
  <2>2. EndsTransmission(d, sawError')
    <3>1. CASE d.kind = "error"
      <4>1. sawError'
        BY <1>7, <3>1 DEF IsErrorReply
      <4> QED BY <2>1, <4>1 DEF EndsTransmission
    <3>2. CASE d.corr = request.last
      <4>1. d.corr >= Corr(request.last)
        BY <1>0, <3>2
      <4> QED BY <2>1, <4>1 DEF EndsTransmission
    <3> QED BY <2>1, <3>1, <3>2
  <2>3. reading' = FALSE
    BY <1>10, <2>2
  <2>4. pipe' = <<>>
    <3>1. pipe' \in Seq(Reply) /\ Len(pipe') = 0
      BY <1>0, <1>2, <1>4, <1>7, <1>15, TailElements DEF ReadReply, TypeOK
    <3> QED BY <3>1
  <2>5. Finished(s)'
    BY <1>7, <1>15, <2>3, <2>4 DEF Finished, GoesOn
  <2> QED BY <1>6, <1>7, <1>8, <1>11, <2>4, <2>5, InStepIf
<1> QED BY <1>5, <1>11, <1>13, <1>14, <1>15

\* The first command of a transmission comes up.
LEMMA StartInStep ==
    ASSUME TypeInv, InStep, StartAnswering
    PROVE  InStep'
<1>1. /\ answering = 0 /\ inbox # <<>> /\ failing' = FALSE /\ answering' = Head(inbox).first
      /\ UNCHANGED <<reading, request, sawError, replies, inbox, pipe>>
  BY DEF StartAnswering, connVars
<1>2. PICK s : s = Stream
  OBVIOUS
<1>3. Unfinished(s) /\ InOrder(s) /\ \A i \in DOMAIN s : s[i].id = request.id
  BY <1>1, <1>2 DEF InStep, Finished
<1>4. ~Errors(s)
  BY <1>1, <1>3 DEF Unfinished
<1>5. inbox = <<request>> /\ answering' = request.first /\ request.first \in {1, 2}
  BY <1>1, <1>3 DEF Unfinished, TypeInv, TypeOK, Transmission
<1>6. Unfinished(s)'
  <2>1. request.first # 0
    BY <1>5
  <2> QED BY <1>1, <1>3, <1>4, <1>5, <2>1 DEF Unfinished, GoesOn
<1>7. Stream' = s
  BY <1>1, <1>2 DEF Stream
<1> QED BY <1>1, <1>3, <1>6, <1>7, InStepIf DEF InStep

\* Where the server is while it answers a command.
LEMMA Answering ==
    ASSUME TypeInv, InStep, answering > 0
    PROVE  /\ Unfinished(Stream) /\ inbox = <<request>> /\ inbox[1] = request /\ Head(inbox) = request
           /\ Stream \in Seq(Reply)
           /\ request.first \in {1, 2} /\ request.last \in 0..MaxCommands
           /\ answering \in request.first..request.last
<1>1. inbox # <<>>
  BY DEF TypeInv, Queued
<1>2. Unfinished(Stream)
  BY <1>1 DEF InStep, Finished
<1>3. inbox = <<request>>
  BY <1>2 DEF Unfinished
<1>4. answering \in request.first..request.last
  BY <1>2 DEF Unfinished
<1> QED BY <1>2, <1>3, <1>4, StreamElements DEF TypeInv, TypeOK, Transmission

\* A DSS within the answer to a command.
LEMMA MoreInStep ==
    ASSUME NoWrap, TypeInv, InStep, AnswerMore
    PROVE  InStep'
<1>1. answering > 0 /\ UNCHANGED <<reading, request, sawError, replies, inbox, answering>>
  BY DEF AnswerMore, connVars
<1>2. PICK fails \in BOOLEAN :
        Put(IF fails THEN "error" ELSE "info", TRUE) /\ failing' = (failing \/ fails)
  BY DEF AnswerMore
<1>3. PICK kind \in {"info", "error"} : Put(kind, TRUE) /\ (kind = "error" <=> fails)
  BY <1>2
<1>4. PICK d \in Reply : /\ pipe' = Append(pipe, d)
                         /\ d = [id |-> inbox[1].id, corr |-> Corr(answering),
                                 chained |-> TRUE, kind |-> kind]
  BY <1>1, <1>3, PutType
<1>5. PICK s \in Seq(Reply) : s = Stream
  BY <1>1, Answering
<1>6. PICK t : t = Append(s, d)
  OBVIOUS
<1>7. Stream' = t
  BY <1>1, <1>4, <1>5, <1>6, PutExtendsStream DEF Stream, TypeInv, TypeOK
<1>8. Unfinished(s) /\ InOrder(s) /\ inbox = <<request>> /\ inbox[1] = request
      /\ \A i \in DOMAIN s : s[i].id = request.id
  BY <1>1, <1>5, Answering DEF InStep
<1>9. /\ DOMAIN t = 1..(Len(s) + 1) /\ DOMAIN s = 1..Len(s) /\ Len(s) \in Nat
      /\ \A i \in DOMAIN s : t[i] = s[i]
      /\ t[Len(s) + 1] = d
      /\ Errors(t) <=> Errors(s) \/ kind = "error"
      /\ \A c \in Int : Settled(s, c) => Settled(t, c)
  <2>1. d.kind = kind
    BY <1>4
  <2>2. /\ DOMAIN t = 1..(Len(s) + 1) /\ DOMAIN s = 1..Len(s) /\ Len(s) \in Nat
        /\ Len(t) = Len(s) + 1 /\ t[Len(t)] = d
        /\ \A i \in DOMAIN s : t[i] = s[i]
    BY <1>6, Extended
  <2>3. \A c \in Int : Settled(s, c) => Settled(t, c)
    BY <1>6, Extended
  <2>4. Errors(t) <=> Errors(s) \/ d.kind = "error"
    BY <1>6, Extended
  <2>5. t[Len(s) + 1] = d
    BY <2>2
  <2> QED BY <2>1, <2>2, <2>3, <2>4, <2>5
<1>10. InOrder(t)
  BY <1>4, <1>6, <1>8, ExtendedInOrder
<1>11. \A i \in DOMAIN t : t[i].id = request'.id
  <2>1. d.id = request.id /\ request' = request
    BY <1>1, <1>4, <1>8
  <2>2. ASSUME NEW i \in DOMAIN t PROVE t[i].id = request.id
    <3>1. i \in DOMAIN s \/ i = Len(s) + 1
      BY <1>9
    <3> QED BY <1>8, <1>9, <2>1, <3>1
  <2> QED BY <2>1, <2>2
<1>12. \A i \in DOMAIN t : GoesOn(t, i)'
  <2>1. ASSUME NEW i \in DOMAIN s PROVE GoesOn(t, i)'
    BY <1>1, <1>6, <1>8, ExtendedGoesOn DEF Unfinished
  <2>2. GoesOn(t, Len(s) + 1)'
    BY <1>4, <1>9 DEF GoesOn
  <2> QED BY <1>9, <2>1, <2>2
<1>13. Errors(t) => failing'
  BY <1>2, <1>3, <1>8, <1>9 DEF Unfinished
<1>14. \A i \in DOMAIN t : t[i].kind = "ok" => t[i].corr \in request.first..(answering - 1)
  BY <1>1, <1>4, <1>8, <1>9 DEF Unfinished
<1>15. \A c \in request.first..(answering - 1) : Settled(t, c)
  BY <1>1, <1>8, <1>9 DEF Unfinished
<1>16. Unfinished(t)'
  BY <1>1, <1>8, <1>12, <1>13, <1>14, <1>15, Answering DEF Unfinished
<1>17. reading
  BY <1>8 DEF Unfinished
<1> QED BY <1>1, <1>7, <1>10, <1>11, <1>16, <1>17, InStepIf DEF InStep

\* What the last DSS of a command adds to the stream.
LEMMA LastPut ==
    ASSUME NoWrap, TypeInv, InStep, answering > 0, NEW kind \in {"ok", "error"},
           NEW chained \in BOOLEAN, Put(kind, chained), UNCHANGED <<request, replies>>
    PROVE  \E s \in Seq(Reply), d \in Reply, t \in Seq(Reply) :
              /\ s = Stream /\ Unfinished(s) /\ t = Append(s, d) /\ Stream' = t
              /\ d.corr = answering /\ d.chained = chained /\ d.kind = kind
              /\ InOrder(t)
              /\ \A i \in DOMAIN t : t[i].id = request.id
<1>1. PICK d \in Reply : /\ pipe' = Append(pipe, d)
                         /\ d = [id |-> inbox[1].id, corr |-> Corr(answering),
                                 chained |-> chained, kind |-> kind]
  BY PutType
<1>2. PICK s \in Seq(Reply) : s = Stream
  BY Answering
<1>3. PICK t : t = Append(s, d)
  OBVIOUS
<1>4. Stream' = t
  BY <1>1, <1>2, <1>3, PutExtendsStream DEF Stream, TypeInv, TypeOK
<1>5. Unfinished(s) /\ InOrder(s) /\ inbox[1] = request
      /\ \A i \in DOMAIN s : s[i].id = request.id
  BY <1>2, Answering DEF InStep
<1>6. answering \in 0..MaxCommands /\ Corr(answering) = answering
  BY CorrRange DEF TypeInv, TypeOK
<1>7. d.id = request.id /\ d.corr = answering /\ d.chained = chained /\ d.kind = kind
  BY <1>1, <1>5, <1>6
<1>8. /\ t \in Seq(Reply) /\ DOMAIN t = 1..(Len(s) + 1) /\ DOMAIN s = 1..Len(s) /\ Len(s) \in Nat
      /\ Len(t) = Len(s) + 1 /\ t[Len(t)] = d
      /\ \A i \in DOMAIN s : t[i] = s[i]
  BY <1>3, Extended
<1>9. \A i \in DOMAIN s : s[i].kind = "ok" => s[i].corr < d.corr
  <2>1. \A i \in DOMAIN s : s[i].kind = "ok" => s[i].corr \in request.first..(answering - 1)
    BY <1>5 DEF Unfinished
  <2>2. request.first \in Int /\ answering \in Int
    BY <1>6, Answering
  <2> QED BY <1>7, <2>1, <2>2
<1>10. InOrder(t)
  BY <1>3, <1>5, <1>9, ExtendedInOrder
<1>11. ASSUME NEW i \in DOMAIN t PROVE t[i].id = request.id
  <2>1. CASE i \in DOMAIN s
    BY <1>5, <1>8, <2>1
  <2>2. CASE i = Len(s) + 1
    BY <1>7, <1>8, <2>2
  <2> QED BY <1>8, <2>1, <2>2
<1> QED BY <1>2, <1>3, <1>4, <1>5, <1>7, <1>8, <1>10, <1>11

\* A command before the last one is settled and the next one comes up.
LEMMA SettledInStep ==
    ASSUME NoWrap, TypeInv, InStep, AnswerLast, ~failing, answering < Head(inbox).last,
           NEW chained \in BOOLEAN, Put("ok", chained), answering' = answering + 1, inbox' = inbox
    PROVE  InStep'
<1>1. answering > 0 /\ UNCHANGED <<reading, request, sawError, replies>> /\ failing' = FALSE
  BY DEF AnswerLast, connVars
<1>2. PICK s \in Seq(Reply), d \in Reply, t \in Seq(Reply) :
        /\ s = Stream /\ Unfinished(s) /\ t = Append(s, d) /\ Stream' = t
        /\ d.corr = answering /\ d.chained = chained /\ d.kind = "ok"
        /\ InOrder(t)
        /\ \A i \in DOMAIN t : t[i].id = request.id
  BY <1>1, LastPut
<1>3. /\ inbox = <<request>> /\ request.first \in Int /\ request.last \in Int /\ answering \in Int
      /\ answering \in request.first..request.last /\ answering < request.last
  BY <1>1, Answering DEF TypeInv, TypeOK
<1>4. ~Errors(s) /\ reading
  BY <1>2 DEF Unfinished
<1>5. /\ DOMAIN t = 1..(Len(s) + 1) /\ DOMAIN s = 1..Len(s) /\ Len(s) \in Nat
      /\ Len(t) = Len(s) + 1 /\ t[Len(t)] = d
      /\ \A i \in DOMAIN s : t[i] = s[i]
  BY <1>2, Extended
<1>6. ~Errors(t)
  BY <1>2, <1>4, Extended
<1>7. \A i \in DOMAIN t : GoesOn(t, i)'
  <2>1. ASSUME NEW i \in DOMAIN s PROVE GoesOn(t, i)'
    BY <1>1, <1>2, ExtendedGoesOn DEF Unfinished
  <2>2. GoesOn(t, Len(s) + 1)'
    BY <1>1, <1>2, <1>3, <1>5, <1>6 DEF GoesOn, Errors
  <2> QED BY <1>5, <2>1, <2>2
<1>8. ASSUME NEW i \in DOMAIN t, t[i].kind = "ok" PROVE t[i].corr \in request.first..answering
  <2>1. CASE i \in DOMAIN s
    <3>1. t[i].corr \in request.first..(answering - 1)
      BY <1>1, <1>2, <1>5, <1>8, <2>1 DEF Unfinished
    <3> QED BY <1>3, <3>1
  <2>2. CASE i = Len(s) + 1
    BY <1>2, <1>3, <1>5, <2>2
  <2> QED BY <1>5, <2>1, <2>2
<1>9. ASSUME NEW c \in request.first..answering PROVE Settled(t, c)
  <2>1. CASE c = answering
    BY <1>2, <2>1, Extended
  <2>2. CASE c \in request.first..(answering - 1)
    <3>1. Settled(s, c) /\ c \in Int
      BY <1>1, <1>2, <1>3, <2>2 DEF Unfinished
    <3> QED BY <1>2, <3>1, Extended
  <2> QED BY <1>3, <2>1, <2>2
<1>10. Unfinished(t)'
  <2>1. answering' # 0 /\ answering' - 1 = answering /\ answering' \in request.first..request.last
    BY <1>1, <1>3
  <2> QED BY <1>1, <1>3, <1>4, <1>6, <1>7, <1>8, <1>9, <2>1 DEF Unfinished
<1> QED BY <1>1, <1>2, <1>4, <1>10, InStepIf DEF InStep

\* The last DSS of an answer: readChain will return on it, and nothing follows it.
LEMMA EndInStep ==
    ASSUME NoWrap, TypeInv, InStep, AnswerLast, NEW kind \in {"ok", "error"}, Put(kind, FALSE),
           kind = "ok" => ~failing /\ answering = Head(inbox).last,
           answering' = 0, inbox' = Tail(inbox)
    PROVE  InStep'
<1>1. answering > 0 /\ UNCHANGED <<reading, request, sawError, replies>>
  BY DEF AnswerLast, connVars
<1>2. PICK s \in Seq(Reply), d \in Reply, t \in Seq(Reply) :
        /\ s = Stream /\ Unfinished(s) /\ t = Append(s, d) /\ Stream' = t
        /\ d.corr = answering /\ d.chained = FALSE /\ d.kind = kind
        /\ InOrder(t)
        /\ \A i \in DOMAIN t : t[i].id = request.id
  BY <1>1, LastPut
<1>3. /\ inbox = <<request>> /\ request.first \in Int /\ request.last \in Int /\ answering \in Int
      /\ answering \in request.first..request.last /\ Head(inbox) = request
  BY <1>1, Answering DEF TypeInv, TypeOK
<1>4. reading /\ inbox' = <<>>
  BY <1>2, <1>3 DEF Unfinished
<1>5. /\ DOMAIN t = 1..(Len(s) + 1) /\ DOMAIN s = 1..Len(s) /\ Len(s) \in Nat
      /\ Len(t) = Len(s) + 1 /\ t[Len(t)] = d /\ t # <<>>
      /\ \A i \in DOMAIN s : t[i] = s[i]
  BY <1>2, Extended
<1>6. ASSUME NEW i \in DOMAIN t, i < Len(t) PROVE GoesOn(t, i)'
  <2>1. i \in DOMAIN s
    BY <1>5, <1>6
  <2> QED BY <1>1, <1>2, <2>1, ExtendedGoesOn DEF Unfinished
<1>7. ASSUME NEW i \in DOMAIN t, t[i].kind = "ok" PROVE t[i].corr \in request.first..request.last
  <2>1. CASE i \in DOMAIN s
    <3>1. t[i].corr \in request.first..(answering - 1)
      BY <1>1, <1>2, <1>5, <1>7, <2>1 DEF Unfinished
    <3> QED BY <1>3, <3>1
  <2>2. CASE i = Len(s) + 1
    BY <1>2, <1>3, <1>5, <2>2
  <2> QED BY <1>5, <2>1, <2>2
<1>8. Errors(t) \/ \A c \in request.first..request.last : Settled(t, c)
  <2>1. CASE kind = "error"
    <3>1. Errors(t) <=> Errors(s) \/ d.kind = "error"
      BY <1>2, Extended
    <3> QED BY <1>2, <2>1, <3>1
  <2>2. ASSUME kind = "ok", NEW c \in request.first..request.last PROVE Settled(t, c)
    <3>1. CASE c = answering
      BY <1>2, <2>2, <3>1, Extended
    <3>2. CASE c \in request.first..(answering - 1)
      <4>1. Settled(s, c) /\ c \in Int
        BY <1>1, <1>2, <1>3, <3>2 DEF Unfinished
      <4> QED BY <1>2, <4>1, Extended
    <3> QED BY <1>3, <2>2, <3>1, <3>2
  <2> QED BY <2>1, <2>2
<1>9. pipe' # <<>>
  <2>1. PICK e \in Reply : pipe' = Append(pipe, e)
    BY PutType, <1>1
  <2>2. pipe \in Seq(Reply) /\ Len(pipe) \in Nat
    BY DEF TypeInv, TypeOK
  <2>3. Len(pipe') = Len(pipe) + 1
    BY <2>1, <2>2, AppendElements
  <2> QED BY <2>2, <2>3
<1>10. d.kind = "error" \/ d.corr = request'.last
  BY <1>1, <1>2, <1>3
<1>11. Finished(t)'
  BY <1>1, <1>2, <1>4, <1>5, <1>6, <1>7, <1>8, <1>9, <1>10 DEF Finished
<1> QED BY <1>1, <1>2, <1>4, <1>11, InStepIf DEF InStep

\* The last DSS of a command, in all its forms.
LEMMA LastInStep ==
    ASSUME NoWrap, TypeInv, InStep, AnswerLast
    PROVE  InStep'
<1>1. CASE /\ ~failing /\ answering < Head(inbox).last
           /\ \E chained \in BOOLEAN : Put("ok", chained)
           /\ answering' = answering + 1 /\ inbox' = inbox
  BY <1>1, SettledInStep
<1>2. CASE /\ \/ Put("error", FALSE)
              \/ ~failing /\ answering = Head(inbox).last /\ Put("ok", FALSE)
           /\ answering' = 0 /\ inbox' = Tail(inbox)
  BY <1>2, EndInStep
<1> QED BY <1>1, <1>2 DEF AnswerLast

\* readChain and the server are in step until a read fails.
LEMMA ChainInvariant == Spec => []ChainInv
<1>1. TypeInv /\ ChainInv /\ [Next]_vars => ChainInv'
  <2> SUFFICES ASSUME TypeInv, ChainInv, [Next]_vars, NoWrap, ~failedOnce' PROVE InStep'
    BY DEF ChainInv
  <2>1. ~failedOnce
    BY DEF Next, Send, Read, ReadReply, ReadFails, DeadlineExpires, Finish, Answer, StartAnswering,
       AnswerMore, AnswerLast, Disconnect, vars, connVars
  <2>2. InStep
    BY <2>1 DEF ChainInv
  <2>3. CASE Disconnect \/ UNCHANGED vars
    <3>1. UNCHANGED <<connVars, serverVars, pipe>>
      BY <2>3 DEF Disconnect, vars
    <3>2. PICK s : s = Stream
      OBVIOUS
    <3>3. Stream' = s
      BY <3>1, <3>2 DEF Stream, connVars
    <3>4. Unfinished(s)' \/ Finished(s)'
      BY <2>2, <3>1, <3>2 DEF InStep, Unfinished, Finished, GoesOn, connVars, serverVars
    <3> QED BY <2>2, <3>1, <3>2, <3>3, <3>4, InStepIf DEF InStep, connVars
  <2>4. ~ReadFails /\ ~DeadlineExpires
    BY DEF ReadFails, DeadlineExpires, Finish
  <2> QED BY <2>2, <2>3, <2>4, SendInStep, ReadInStep, StartInStep, MoreInStep, LastInStep
          DEF Next, Read, Answer
<1>2. Init => ChainInv
  BY InitInStep DEF ChainInv
<1> QED BY <1>1, <1>2, TypeInvariant, PTL DEF Spec

---------------------------------------------------------------------------
(* What follows for the replies *)

\* A readChain that has returned without an error has the whole answer.
LEMMA Returned ==
    ASSUME TypeInv, NoWrap, ~failedOnce, ChainInv, ~reading
    PROVE  /\ pipe = <<>> /\ inbox = <<>> /\ Stream = replies
           /\ Finished(replies) /\ InOrder(replies)
<1>1. InStep
  BY DEF ChainInv
<1>2. pipe = <<>> /\ Finished(Stream)
  BY <1>1 DEF InStep, Unfinished
<1>3. Stream = replies
  BY <1>2, ConcatEmptySeq DEF Stream, TypeInv, TypeOK
<1> QED BY <1>1, <1>2, <1>3 DEF InStep, Finished

\* Until a read fails, readChain collects replies to its own transmission only, if the
\* correlation ids of the transmission do not wrap.
THEOREM RepliesAreOwn == Spec => [](NoWrap => OwnReplies)
<1>1. TypeInv /\ ChainInv => (NoWrap => OwnReplies)
  <2> SUFFICES ASSUME TypeInv, ChainInv, NoWrap, ~failedOnce, NEW i \in DOMAIN replies
               PROVE  replies[i].id = request.id
    BY DEF OwnReplies
  <2>1. InStep
    BY DEF ChainInv
  <2>2. i \in DOMAIN Stream /\ Stream[i] = replies[i]
    BY StreamElements DEF TypeInv
  <2> QED BY <2>1, <2>2 DEF InStep
<1> QED BY <1>1, TypeInvariant, ChainInvariant, PTL

\* Until a read fails, a readChain that returns leaves nothing for the next one to trip
\* over, if correlation ids do not wrap.
THEOREM NothingLeftUnread == Spec => [](NoWrap => WholeAnswerRead)
<1>1. TypeInv /\ ChainInv => (NoWrap => WholeAnswerRead)
  BY Returned DEF WholeAnswerRead
<1> QED BY <1>1, TypeInvariant, ChainInvariant, PTL

\* Until a read fails, a readChain that returns has an error or the success of every
\* command among its replies, if correlation ids do not wrap.
THEOREM CommandsAreSettled == Spec => [](NoWrap => EveryCommandSettled)
<1>1. TypeInv /\ ChainInv => (NoWrap => EveryCommandSettled)
  <2> SUFFICES ASSUME TypeInv, ChainInv, NoWrap, ~failedOnce, ~reading, ~Errors(replies),
                      NEW c \in request.first..request.last
               PROVE  \E i \in DOMAIN replies : replies[i].corr = Corr(c) /\ replies[i].kind = "ok"
    BY DEF EveryCommandSettled, Errors
  <2>1. Settled(replies, c)
    BY Returned DEF Finished
  <2>2. Corr(c) = c
    <3>1. c \in 0..MaxCommands
      BY ChainAssumption DEF ChainAssumption, TypeInv, TypeOK, Transmission
    <3> QED BY <3>1, CorrRange
  <2> QED BY <2>1, <2>2 DEF Settled
<1> QED BY <1>1, TypeInvariant, ChainInvariant, PTL

\* Until a read fails, a batch without failed commands counts each of its rows once, if
\* correlation ids do not wrap; with more rows than ids it does not.
THEOREM BatchCountsRows == Spec => [](NoWrap => RowsCounted)
<1>1. TypeInv /\ ChainInv => (NoWrap => RowsCounted)
  <2> SUFFICES ASSUME TypeInv, ChainInv, NoWrap, ~failedOnce, ~reading, ~sawError
               PROVE  Cardinality(CountedRows) = Cardinality((request.first..request.last) \ {1})
    BY DEF RowsCounted
  <2> DEFINE Rows == (request.first..request.last) \ {1}
             f == [i \in CountedRows |-> replies[i].corr]
  <2>1. ~Errors(replies)
    BY DEF ChainInv, InStep
  <2>2. /\ InOrder(replies)
        /\ \A i \in DOMAIN replies : replies[i].kind = "ok"
              => replies[i].corr \in request.first..request.last
        /\ \A c \in request.first..request.last : Settled(replies, c)
    BY <2>1, Returned DEF Finished
  <2>3. request.first \in {1, 2} /\ request.last \in Int
    BY DEF TypeInv, TypeOK, Transmission
  <2>4. replies \in Seq(Reply) /\ DOMAIN replies = 1..Len(replies) /\ Len(replies) \in Nat
    BY DEF TypeInv, TypeOK
  <2>5. \A i \in CountedRows : i \in DOMAIN replies /\ replies[i].kind = "ok" /\ replies[i].corr >= 2
    BY DEF CountedRows
  <2>6. f \in [CountedRows -> Rows]
    BY <2>2, <2>3, <2>5
  <2>7. ASSUME NEW i \in CountedRows, NEW j \in CountedRows, f[i] = f[j] PROVE i = j
    <3>1. replies[i].corr = replies[j].corr /\ replies[i].corr \in Int
      BY <2>2, <2>3, <2>5, <2>7
    <3>2. ~(i < j) /\ ~(j < i)
      BY <2>2, <2>5, <3>1 DEF InOrder
    <3>3. i \in Int /\ j \in Int
      BY <2>4, <2>5
    <3> QED BY <3>2, <3>3
  <2>8. ASSUME NEW c \in Rows PROVE \E i \in CountedRows : f[i] = c
    <3>1. PICK i \in DOMAIN replies : replies[i].kind = "ok" /\ replies[i].corr = c
      BY <2>2 DEF Settled
    <3>2. c >= 2
      BY <2>3
    <3>3. i \in CountedRows
      BY <3>1, <3>2 DEF CountedRows
    <3> QED BY <3>1, <3>3
  <2>9. ExistsBijection(CountedRows, Rows)
    BY <2>6, <2>7, <2>8, Zenon DEF ExistsBijection, Bijection, Injection, Surjection, IsInjective
  <2>10. IsFiniteSet(Rows) /\ IsFiniteSet(CountedRows)
    <3>1. IsFiniteSet(request.first..request.last) /\ IsFiniteSet(1..Len(replies))
      BY <2>3, <2>4, FS_Interval
    <3>2. Rows \subseteq request.first..request.last /\ CountedRows \subseteq 1..Len(replies)
      BY <2>4 DEF CountedRows
    <3> QED BY <3>1, <3>2, FS_Subset
  <2> QED BY <2>9, <2>10, FS_Bijection
<1> QED BY <1>1, TypeInvariant, ChainInvariant, PTL

=============================================================================
