-------------------------- MODULE Db2SessionProofs --------------------------
(***************************************************************************)
(* Proofs about Db2Session, for any set of workers, any bounds and any     *)
(* peer: types, the driver's picture of the server's cursor, and rows.     *)
(***************************************************************************)
EXTENDS Db2Session, TLAPS

---------------------------------------------------------------------------
(* Types *)

\* What a control step leaves in `call' has the right type.
LEMMA ToType ==
    ASSUME NEW w \in Workers, NEW where \in Pcs, NEW o \in Ops, NEW work \in SUBSET Work,
           call \in [Workers -> Activity], To(w, where, o, work)
    PROVE  call' \in [Workers -> Activity]
BY DEF To, NoCall, Activity, Pcs, Ops

\* The same, for a step that stays in its operation.
LEMMA GotoType ==
    ASSUME NEW w \in Workers, NEW where \in Pcs,
           call \in [Workers -> Activity], Goto(w, where)
    PROVE  call' \in [Workers -> Activity]
<1>1. call[w].op \in Ops /\ call[w].work \in SUBSET Work
  BY DEF Activity
<1> QED BY <1>1, ToType DEF Goto

\* Leaving a call with an error keeps the types.
LEMMA AbortType ==
    ASSUME NEW w \in Workers, TypeOK, Abort(w)
    PROVE  mu' \in WorkerOrNil /\ call' \in [Workers -> Activity] /\ orphan' \subseteq Work
<1>1. mu' \in WorkerOrNil
  BY DEF Abort, WorkerOrNil
<1>2. call' \in [Workers -> Activity]
  BY GotoType DEF Abort, TypeOK, Pcs
<1>3. call[w].work \subseteq Work
  BY DEF TypeOK, Activity
<1> QED BY <1>1, <1>2, <1>3 DEF Abort, TypeOK

\* Fresh row changes stay within the bound.
LEMMA WorkDoneType ==
    ASSUME NEW w \in Workers, NEW where \in Pcs, NEW n \in Nat, made + n <= MaxWork,
           TypeOK, WorkDone(w, n, where)
    PROVE  /\ made' \in 0..MaxWork
           /\ uow' \subseteq Work
           /\ NewWork(n) \subseteq Work
           /\ call' \in [Workers -> Activity]
<1>1. made \in Nat /\ made' \in 0..MaxWork
  BY SessionAssumption DEF SessionAssumption, TypeOK, WorkDone
<1>2. NewWork(n) \subseteq Work
  BY <1>1, SessionAssumption DEF SessionAssumption, NewWork, Work
<1>3. call[w].op \in Ops /\ call[w].work \cup NewWork(n) \in SUBSET Work
  BY <1>2 DEF TypeOK, Activity
<1>4. call' \in [Workers -> Activity]
  BY <1>3, ToType DEF WorkDone, TypeOK
<1> QED BY <1>1, <1>2, <1>4 DEF WorkDone, TypeOK

\* A nil batch from Query.Next keeps the types.
LEMMA EndOfRowsType ==
    ASSUME NEW w \in Workers, TypeOK, EndOfRows(w)
    PROVE  reader' \in [Workers -> Reader] /\ call' \in [Workers -> Activity]
<1> DEFINE drained == reader[w].mode = "reader" /\ reader[w].buffered = 0
<1>1. reader' = [reader EXCEPT ![w].done = @ \/ drained, ![w].closed = @ \/ drained]
  BY DEF EndOfRows
<1> HIDE DEF drained
<1>2. reader' \in [Workers -> Reader]
  <2> DEFINE r == [reader[w] EXCEPT !.done = @ \/ drained, !.closed = @ \/ drained]
  <2>1. (reader[w].done \/ drained) \in BOOLEAN /\ (reader[w].closed \/ drained) \in BOOLEAN
    OBVIOUS
  <2>2. reader[w] \in Reader
    BY DEF TypeOK
  <2>3. r \in Reader
    BY <2>1, <2>2 DEF Reader
  <2>4. reader' = [reader EXCEPT ![w] = r]
    BY <1>1, <2>2 DEF TypeOK, Reader
  <2> QED BY <2>3, <2>4 DEF TypeOK
<1>3. call' \in [Workers -> Activity]
  BY GotoType DEF EndOfRows, TypeOK, Pcs
<1> QED BY <1>2, <1>3

\* A reader and query that are given up have the types of unused ones.
LEMMA ForgetType ==
    ASSUME NEW w \in Workers, TypeOK, Forget(w)
    PROVE  query' \in [Workers -> Query] /\ reader' \in [Workers -> Reader]
BY SessionAssumption DEF Forget, TypeOK, NoQuery, NoReader, Query, Reader

\* What closeLocked leaves behind has the right type.
LEMMA QueryClosedType ==
    ASSUME NEW x \in Workers, TypeOK
    PROVE  QueryClosed(x) \in [Workers -> Query]
<1> DEFINE q == query[x]
           c == [q EXCEPT !.closed = TRUE, !.pending = 0, !.done = @ \/ link]
<1>1. 0 \in 0..MaxRows
  BY SessionAssumption DEF SessionAssumption
<1>2. q \in Query /\ q.done \in BOOLEAN
  BY DEF TypeOK, Query
<1>3. (q.done \/ link) \in BOOLEAN
  OBVIOUS
<1>4. c \in Query
  BY <1>1, <1>2, <1>3 DEF Query
<1>5. [query EXCEPT ![x] = c] \in [Workers -> Query]
  BY <1>4 DEF TypeOK
<1>6. QueryClosed(x) \in {query, [query EXCEPT ![x] = c]}
  BY DEF QueryClosed, TypeOK, Query
<1> QED BY <1>5, <1>6 DEF TypeOK

\* A freshly opened connection has the right types.
LEMMA InitType == Init => TypeOK
<1> SUFFICES ASSUME Init PROVE TypeOK
  OBVIOUS
<1>1. pkg \in BOOLEAN
  BY DEF Init
<1>2. NoQuery \in Query /\ NoReader \in Reader /\ 0 \in 0..MaxWork
  BY SessionAssumption DEF SessionAssumption, NoQuery, NoReader, Query, Reader
<1>3. NoCall \in Activity
  BY DEF NoCall, Activity, Pcs, Ops
<1> QED BY <1>1, <1>2, <1>3 DEF Init, TypeOK, WorkerOrNil

\* Entering a call keeps the types.
LEMMA EnterType ==
    ASSUME NEW w \in Workers, NEW where \in Pcs, NEW o \in Ops, TypeOK, Enter(w, where, o),
           query' \in [Workers -> Query], reader' \in [Workers -> Reader],
           autoCommit' \in BOOLEAN, connClosed' \in BOOLEAN
    PROVE  TypeOK'
<1>1. call' \in [Workers -> Activity]
  BY ToType DEF Enter, TypeOK
<1> QED BY <1>1 DEF Enter, TypeOK, serverVars, history

\* Starting any API call keeps the types.
LEMMA StartCallType ==
    ASSUME NEW w \in Workers, TypeOK, StartCall(w)
    PROVE  TypeOK'
<1> USE DEF Pcs, Ops, SqlOps, OpenOps, PrepOps, CommitOps, UndoOps
<1>1. ASSUME NEW o \in Ops, Call(w, o) PROVE TypeOK'
  BY <1>1, EnterType DEF Call, TypeOK
<1>2. CASE DisableAutoCommit(w)
  BY <1>2, EnterType DEF DisableAutoCommit, TypeOK
<1>3. CASE CloseConnection(w)
  BY <1>3, EnterType DEF CloseConnection, TypeOK
<1>4. CASE ReaderNext(w)
  BY <1>4, EnterType DEF ReaderNext, TypeOK
<1>5. CASE ReaderRelease(w)
  <2>1. CASE reader[w].closed
    BY <1>5, <2>1, EnterType, ForgetType DEF ReaderRelease, TypeOK
  <2>2. CASE ~reader[w].closed
    <3>1. reader' \in [Workers -> Reader]
      BY <1>5, <2>2 DEF ReaderRelease, TypeOK, Reader
    <3> QED BY <1>5, <2>2, <3>1, EnterType DEF ReaderRelease, TypeOK
  <2> QED BY <2>1, <2>2
<1> QED
  BY <1>1, <1>2, <1>3, <1>4, <1>5
  DEF StartCall, Execute, ExecuteQuery, ExecuteBoundQuery, QueryAll, ExecuteUpdate,
      ExecuteBoundUpdate, ExecuteSchema, SetSessionOption, Commit, Rollback, EnableAutoCommit

\* What FetchRows, FetchEnd and FetchFails change has the right type.
LEMMA FetchType ==
    ASSUME NEW w \in Workers, TypeOK, Fetch(w)
    PROVE  TypeOK'
<1>0. /\ query[w] \in Query /\ reader[w] \in Reader
      /\ query[w].left \in Nat /\ query[w].left <= MaxRows /\ MaxRows \in Nat
  BY SessionAssumption DEF SessionAssumption, TypeOK, Query
<1>1. CASE FetchRows(w)
  <2>1. PICK k \in 1..query[w].left, ended \in BOOLEAN :
          /\ query' = [query EXCEPT ![w].left = @ - k, ![w].done = ended]
          /\ cursor' = IF ended THEN NoWorker ELSE w
          /\ reader' = [reader EXCEPT ![w].buffered = @ + k]
    BY <1>1 DEF FetchRows
  <2>2. query[w].left - k \in 0..MaxRows
    BY <1>0
  <2>3. query' \in [Workers -> Query]
    BY <2>1, <2>2 DEF TypeOK, Query
  <2>4. reader' \in [Workers -> Reader]
    BY <2>1, <1>0 DEF TypeOK, Reader
  <2>5. call' \in [Workers -> Activity]
    BY <1>1, GotoType DEF FetchRows, TypeOK, Pcs
  <2> QED BY <1>1, <2>1, <2>3, <2>4, <2>5 DEF FetchRows, Fetch, TypeOK, WorkerOrNil, connVars, history
<1>2. CASE FetchEnd(w)
  <2>1. query' \in [Workers -> Query] /\ cursor' \in WorkerOrNil
    BY <1>2 DEF FetchEnd, TypeOK, Query, WorkerOrNil
  <2>2. reader' \in [Workers -> Reader] /\ call' \in [Workers -> Activity]
    BY <1>2, EndOfRowsType DEF FetchEnd
  <2> QED BY <1>2, <2>1, <2>2 DEF FetchEnd, Fetch, TypeOK, connVars, history
<1>3. CASE FetchFails(w)
  <2>1. query' \in [Workers -> Query] /\ cursor' \in WorkerOrNil /\ uow' \subseteq Work
    BY <1>3 DEF FetchFails, TypeOK, Query, WorkerOrNil
  <2>2. reader' \in [Workers -> Reader]
    <3>1. PICK r \in Reader : reader' = [reader EXCEPT ![w] = r]
      <4>1. [reader[w] EXCEPT !.mode = "discard"] \in Reader /\ [reader[w] EXCEPT !.err = TRUE] \in Reader
        BY <1>0 DEF Reader
      <4> QED BY <4>1, <1>3 DEF FetchFails, TypeOK, Reader
    <3> QED BY <3>1 DEF TypeOK
  <2>3. call' \in [Workers -> Activity]
    BY <1>3, GotoType DEF FetchFails, Done, TypeOK, Pcs
  <2> QED BY <2>1, <2>2, <2>3 DEF Fetch, TypeOK, connVars, history
<1> QED BY <1>1, <1>2, <1>3 DEF Fetch

\* Closing another call's query keeps the types.
LEMMA EnsureNoOpenQueryType ==
    ASSUME NEW w \in Workers, TypeOK, EnsureNoOpenQuery(w)
    PROVE  TypeOK'
<1>1. query' \in [Workers -> Query]
  BY QueryClosedType DEF EnsureNoOpenQuery, NeedsClose, TypeOK, WorkerOrNil
<1>2. reader' \in [Workers -> Reader]
  <2>1. CASE NeedsClose
    <3>1. openQuery \in Workers /\ reader[openQuery] \in Reader
      BY <2>1 DEF NeedsClose, TypeOK, WorkerOrNil
    <3>2. [reader[openQuery] EXCEPT !.cut = TRUE] \in Reader
      BY <3>1 DEF Reader
    <3>3. reader' = [reader EXCEPT ![openQuery] = [reader[openQuery] EXCEPT !.cut = TRUE]]
      BY <2>1, <3>1 DEF EnsureNoOpenQuery, TypeOK, Reader
    <3> QED BY <3>1, <3>2, <3>3 DEF TypeOK
  <2>2. CASE ~NeedsClose
    BY <2>2 DEF EnsureNoOpenQuery, TypeOK
  <2> QED BY <2>1, <2>2
<1>3. cursor' \in WorkerOrNil /\ openQuery' \in WorkerOrNil
  BY DEF EnsureNoOpenQuery, CursorClosed, TypeOK, WorkerOrNil
<1>4. mu' \in WorkerOrNil /\ call' \in [Workers -> Activity] /\ orphan' \subseteq Work
  BY AbortType, GotoType DEF EnsureNoOpenQuery, TypeOK, WorkerOrNil, Pcs
<1> QED BY <1>1, <1>2, <1>3, <1>4 DEF EnsureNoOpenQuery, TypeOK

\* A first block has at most MaxRows rows, pending and still to come.
LEMMA OpenCursorType ==
    ASSUME NEW w \in Workers, TypeOK, OpenCursor(w)
    PROVE  TypeOK'
<1>1. PICK t \in 0..MaxRows, k \in 0..MaxRows, ended \in BOOLEAN :
        /\ k <= t
        /\ query' = [query EXCEPT ![w] = [done |-> ended, closed |-> FALSE,
                                          pending |-> k, left |-> t - k]]
        /\ cursor' = IF ended THEN NoWorker ELSE w
        /\ \/ StartReading(w, "reader", t) /\ Return(w, "idle")
           \/ StartReading(w, "discard", t) /\ Return(w, "close")
           \/ StartReading(w, "meta", t) /\ Return(w, "next")
  BY DEF OpenCursor
<1>2. t - k \in 0..MaxRows
  BY <1>1, SessionAssumption DEF SessionAssumption
<1>3. query' \in [Workers -> Query]
  BY <1>1, <1>2 DEF TypeOK, Query
<1>4. reader' \in [Workers -> Reader]
  <2>1. ASSUME NEW m \in {"reader", "discard", "meta"}
        PROVE  [NoReader EXCEPT !.mode = m, !.owed = t] \in Reader
    <3>1. NoReader \in Reader /\ t \in Int
      BY SessionAssumption DEF SessionAssumption, NoReader, Reader
    <3> QED BY <3>1 DEF Reader
  <2> QED BY <1>1, <2>1 DEF StartReading, TypeOK
<1>5. call' \in [Workers -> Activity] /\ mu' \in WorkerOrNil
  BY <1>1, GotoType DEF Return, TypeOK, Pcs, WorkerOrNil
<1> QED BY <1>1, <1>3, <1>4, <1>5 DEF OpenCursor, TypeOK, WorkerOrNil, history

\* A refused statement keeps the types, rows of a half-done batch included.
LEMMA StatementFailsType ==
    ASSUME NEW w \in Workers, TypeOK, StatementFails(w)
    PROVE  TypeOK'
<1>0. call[w].work \subseteq Work
  BY DEF TypeOK, Activity
<1>1. CASE /\ ServerDropsUow \/ UNCHANGED <<uow, cursor>>
           /\ Done(w)
           /\ orphan' = orphan \cup call[w].work
           /\ UNCHANGED made
  <2>1. call' \in [Workers -> Activity]
    BY <1>1, GotoType DEF Done, TypeOK, Pcs
  <2> QED BY <1>0, <1>1, <2>1 DEF StatementFails, ServerDropsUow, TypeOK, WorkerOrNil
<1>2. CASE /\ \E n \in 1..(MaxWork - made) :
                /\ WorkDone(w, n, "idle")
                /\ orphan' = orphan \cup call[w].work \cup NewWork(n)
           /\ UNCHANGED cursor
  <2>1. PICK n \in 1..(MaxWork - made) :
          WorkDone(w, n, "idle") /\ orphan' = orphan \cup call[w].work \cup NewWork(n)
    BY <1>2
  <2>2. n \in Nat /\ made + n <= MaxWork /\ "idle" \in Pcs
    BY SessionAssumption DEF SessionAssumption, TypeOK, Pcs
  <2>3. /\ made' \in 0..MaxWork /\ uow' \subseteq Work /\ NewWork(n) \subseteq Work
        /\ call' \in [Workers -> Activity]
    BY <2>1, <2>2, WorkDoneType
  <2> QED BY <1>0, <1>2, <2>1, <2>3 DEF StatementFails, TypeOK, WorkerOrNil
<1> QED BY <1>1, <1>2 DEF StatementFails

\* ExecuteStatement and ExecBatch: statements that change rows.
LEMMA ChangesType ==
    ASSUME NEW w \in Workers, TypeOK, ExecuteStatement(w) \/ ExecBatch(w)
    PROVE  TypeOK'
<1>1. PICK n \in Nat, where \in Pcs : made + n <= MaxWork /\ WorkDone(w, n, where)
  <2>1. CASE ExecuteStatement(w)
    BY <2>1 DEF ExecuteStatement, Pcs
  <2>2. CASE ExecBatch(w)
    BY <2>2, SessionAssumption DEF SessionAssumption, ExecBatch, TypeOK, Pcs
  <2> QED BY <2>1, <2>2
<1>2. made' \in 0..MaxWork /\ uow' \subseteq Work /\ call' \in [Workers -> Activity]
  BY <1>1, WorkDoneType
<1> QED BY <1>2 DEF ExecuteStatement, ExecBatch, TypeOK, WorkerOrNil

\* Every command under the lock keeps the types.
LEMMA CommandType ==
    ASSUME NEW w \in Workers, TypeOK,
           \/ CommandLinkDown(w) \/ PackageMissing(w) \/ BindPackage(w)
           \/ OpenUndecodable(w) \/ Describe(w) \/ SendCommit(w) \/ SendRollback(w)
    PROVE  TypeOK'
<1>0. call[w].work \subseteq Work /\ call[w].op \in Ops
  BY DEF TypeOK, Activity
<1>1. CASE CommandLinkDown(w)
  BY <1>1, AbortType DEF CommandLinkDown, TypeOK, serverVars
<1>2. CASE PackageMissing(w)
  BY <1>2, AbortType, GotoType DEF PackageMissing, TypeOK, serverVars, Pcs
<1>3. CASE BindPackage(w)
  BY <1>3, AbortType, GotoType DEF BindPackage, TypeOK, Pcs
<1>4. CASE OpenUndecodable(w)
  BY <1>4, AbortType DEF OpenUndecodable, TypeOK, WorkerOrNil
<1>5. CASE Describe(w)
  <2>1. call' \in [Workers -> Activity]
    BY <1>0, <1>5, ToType, GotoType
    DEF Describe, Done, TypeOK, Pcs, Ops, SqlOps, OpenOps, PrepOps
  <2> QED BY <1>5, <2>1 DEF Describe, TypeOK, WorkerOrNil, history
<1>6. CASE SendCommit(w)
  <2>1. /\ mu' \in WorkerOrNil /\ call' \in [Workers -> Activity]
        /\ orphan' \subseteq Work /\ acked' \subseteq Work
    BY <1>0, <1>6, AbortType, GotoType DEF SendCommit, Return, TypeOK, Pcs, WorkerOrNil
  <2>2. link' \in BOOLEAN /\ cursor' \in WorkerOrNil /\ committed' \subseteq Work /\ uow' \subseteq Work
    BY <1>6 DEF SendCommit, TypeOK, WorkerOrNil
  <2> QED BY <1>6, <2>1, <2>2 DEF SendCommit, TypeOK
<1>7. CASE SendRollback(w)
  <2>1. call' \in [Workers -> Activity]
    BY <1>7, GotoType DEF SendRollback, Return, TypeOK, Pcs
  <2> QED BY <1>7, <2>1 DEF SendRollback, Return, ServerDropsUow, TypeOK, WorkerOrNil, history
<1> QED BY <1>1, <1>2, <1>3, <1>4, <1>5, <1>6, <1>7

\* Every step after a command, and every step of a reader, keeps the types.
LEMMA DriverType ==
    ASSUME NEW w \in Workers, TypeOK,
           \/ AutoCommitIfNeeded(w) \/ QueryFinished(w) \/ SetAutoCommitFlag(w)
           \/ CloseSocket(w) \/ StopTaking(w) \/ QueryNext(w) \/ TakePending(w)
           \/ Deliver(w) \/ CloseQuery(w)
    PROVE  TypeOK'
<1> USE DEF Pcs
<1>0. /\ call[w].work \in SUBSET Work /\ call[w].op \in Ops
      /\ query[w] \in Query /\ reader[w] \in Reader
  BY DEF TypeOK, Activity
<1>1. ASSUME NEW o \in {"none", "autocommit", "finish"}, Continue(w, o)
      PROVE  TypeOK'
  <2>1. call' \in [Workers -> Activity]
    BY <1>0, <1>1, ToType DEF Continue, TypeOK, Ops, CommitOps
  <2> QED BY <1>1, <2>1 DEF Continue, TypeOK, connVars, serverVars, history
<1>2. CASE AutoCommitIfNeeded(w) \/ QueryFinished(w)
  BY <1>1, <1>2 DEF AutoCommitIfNeeded, QueryFinished
<1>3. CASE SetAutoCommitFlag(w)
  BY <1>3, GotoType DEF SetAutoCommitFlag, Done, TypeOK, serverVars, history
<1>4. CASE CloseSocket(w)
  BY <1>4, GotoType DEF CloseSocket, ServerDropsUow, Done, TypeOK, WorkerOrNil, connVars, history
<1>5. CASE StopTaking(w)
  BY <1>5, GotoType DEF StopTaking, LocalStep, TypeOK, connVars, serverVars, history
<1>6. CASE QueryNext(w)
  <2>1. reader' \in [Workers -> Reader] /\ call' \in [Workers -> Activity]
    BY <1>6, GotoType, EndOfRowsType DEF QueryNext, TypeOK
  <2> QED BY <1>6, <2>1 DEF QueryNext, LocalStep, TypeOK, connVars, serverVars, history
<1>7. CASE TakePending(w)
  <2>1. query' \in [Workers -> Query]
    BY <1>7, SessionAssumption DEF SessionAssumption, TakePending, Taken, TypeOK, Query
  <2>2. query[w].pending \in Nat
    BY <1>0, SessionAssumption DEF SessionAssumption, Query
  <2>3. [reader[w] EXCEPT !.buffered = @ + query[w].pending] \in Reader
    BY <1>0, <2>2 DEF Reader
  <2>4. reader' \in [Workers -> Reader] /\ call' \in [Workers -> Activity]
    BY <1>7, <2>3, GotoType, EndOfRowsType DEF TakePending, TypeOK
  <2> QED BY <1>7, <2>1, <2>4 DEF TakePending, LocalStep, TypeOK, connVars, serverVars, history
<1>8. CASE Deliver(w)
  <2>1. PICK n \in BatchSizes(w) :
          \/ reader' = [reader EXCEPT ![w].buffered = @ - n, ![w].owed = @ - n]
          \/ reader' = [reader EXCEPT ![w].buffered = @ - n, ![w].err = TRUE]
    BY <1>8 DEF Deliver
  <2>2. n \in Int /\ reader[w].buffered - n \in Nat /\ reader[w].owed - n \in Int
    BY <1>0 DEF BatchSizes, Reader
  <2>3. /\ [reader[w] EXCEPT !.buffered = @ - n, !.owed = @ - n] \in Reader
        /\ [reader[w] EXCEPT !.buffered = @ - n, !.err = TRUE] \in Reader
    BY <1>0, <2>2 DEF Reader
  <2>4. reader' \in [Workers -> Reader]
    BY <2>1, <2>3 DEF TypeOK
  <2> QED BY <1>8, <2>4, GotoType DEF Deliver, Done, LocalStep, TypeOK, connVars, serverVars, history
<1>9. CASE CloseQuery(w)
  <2>1. query' \in [Workers -> Query] /\ reader' \in [Workers -> Reader]
    BY <1>9, ForgetType, QueryClosedType DEF CloseQuery, TypeOK
  <2>2. call' \in [Workers -> Activity]
    BY <1>9, GotoType DEF CloseQuery, TypeOK
  <2>3. cursor' \in WorkerOrNil /\ openQuery' \in WorkerOrNil
    BY <1>9 DEF CloseQuery, CursorClosed, TypeOK, WorkerOrNil
  <2> QED BY <1>9, <2>1, <2>2, <2>3 DEF CloseQuery, TypeOK, history
<1> QED BY <1>2, <1>3, <1>4, <1>5, <1>6, <1>7, <1>8, <1>9

\* The types the model declares hold in every reachable state: buffers never go
\* negative, no step makes more row changes or rows than its bound.
THEOREM TypeCorrect == Spec => []TypeOK
<1>1. TypeOK /\ [Next]_vars => TypeOK'
  <2> SUFFICES ASSUME TypeOK, [Next]_vars PROVE TypeOK'
    OBVIOUS
  <2>1. CASE UNCHANGED vars
    BY <2>1 DEF vars, connVars, serverVars, history, TypeOK
  <2>2. CASE LinkBreaks
    BY <2>2 DEF LinkBreaks, ServerDropsUow, TypeOK, WorkerOrNil, connVars, history
  <2>3. CASE DropPackage
    BY <2>3 DEF DropPackage, TypeOK, connVars, history
  <2>4. ASSUME NEW w \in Workers, StartCall(w) PROVE TypeOK'
    BY <2>4, StartCallType
  <2>5. ASSUME NEW w \in Workers, Step(w) PROVE TypeOK'
    BY <2>5, EnsureNoOpenQueryType, OpenCursorType, StatementFailsType, ChangesType,
       CommandType, DriverType, FetchType
    DEF Step
  <2> QED BY <2>1, <2>2, <2>3, <2>4, <2>5 DEF Next
<1> QED BY InitType, <1>1, PTL DEF Spec

---------------------------------------------------------------------------
(* The cursor *)

\* The pc a control step leaves behind.
LEMMA ToPc ==
    ASSUME NEW w \in Workers, NEW where, NEW o, NEW work, TypeOK, To(w, where, o, work)
    PROVE  /\ call'[w].pc = where
           /\ \A v \in Workers \ {w} : call'[v] = call[v]
BY DEF To, NoCall, TypeOK, Activity

\* The same, for a step that stays in its operation.
LEMMA GotoPc ==
    ASSUME NEW w \in Workers, NEW where, TypeOK, Goto(w, where)
    PROVE  /\ call'[w].pc = where
           /\ \A v \in Workers \ {w} : call'[v] = call[v]
BY ToPc DEF Goto

\* A failed call leaves no worker at a locked pc.
LEMMA AbortPc ==
    ASSUME NEW w \in Workers, TypeOK, Abort(w)
    PROVE  /\ mu' = NoWorker
           /\ call'[w].pc \in {"idle", "sock"}
           /\ \A v \in Workers \ {w} : call'[v] = call[v]
BY GotoPc DEF Abort

\* Steps that touch neither side's cursor.
LEMMA QuietStep ==
    ASSUME NEW w \in Workers, TypeOK, CursorInv,
           UNCHANGED <<mu, openQuery, query, cursor, link>>,
           \A v \in Workers \ {w} : call'[v] = call[v] /\ reader'[v] = reader[v],
           call'[w].pc \in Locked <=> call[w].pc \in Locked,
           call'[w].pc = "close" \/ call[w].pc # "close",
           (reader'[w].mode = "reader" /\ reader'[w].closed)
              => \/ call'[w].pc = "close"
                 \/ reader[w].mode = "reader" /\ reader[w].closed
    PROVE  CursorInv'
<1>1. MutexHeld'
  BY DEF CursorInv, MutexHeld
<1>2. OpenQueryCleared' /\ NoCursorWithoutLink'
  BY DEF CursorInv, OpenQueryCleared, NoCursorWithoutLink
<1>3. ReaderClosesQuery'
  BY DEF CursorInv, ReaderClosesQuery
<1>4. CursorTracked'
  BY DEF CursorInv, CursorTracked, OpenQueryTracksCursor, NeedsClose
<1> QED BY <1>1, <1>2, <1>3, <1>4 DEF CursorInv

\* Nothing is open on a new connection.
LEMMA InitCursor == Init => CursorInv
BY SessionAssumption
DEF SessionAssumption, Init, CursorInv, MutexHeld, OpenQueryCleared, NoCursorWithoutLink,
    ReaderClosesQuery, CursorTracked, OpenQueryTracksCursor, NeedsClose, Locked, NoCall, NoReader

\* Starting a call touches no cursor.
LEMMA StartCallCursor ==
    ASSUME NEW w \in Workers, TypeOK, CursorInv, StartCall(w)
    PROVE  CursorInv'
<1> USE DEF Locked
<1>0. call[w].pc = "idle"
  BY DEF StartCall, Execute, ExecuteQuery, ExecuteBoundQuery, QueryAll, ExecuteUpdate,
     ExecuteBoundUpdate, ExecuteSchema, SetSessionOption, Commit, Rollback, EnableAutoCommit, Call,
     DisableAutoCommit, CloseConnection, ReaderNext, ReaderRelease, Enter, Idle
<1>1. ASSUME NEW where \in Pcs \ Locked, NEW o, Enter(w, where, o), UNCHANGED <<query, reader>>
      PROVE  CursorInv'
  BY <1>0, <1>1, ToPc, QuietStep DEF Enter, serverVars, CursorInv, MutexHeld
<1>2. CASE ~ReaderRelease(w)
  BY <1>1, <1>2
  DEF StartCall, Execute, ExecuteQuery, ExecuteBoundQuery, QueryAll, ExecuteUpdate,
      ExecuteBoundUpdate, ExecuteSchema, SetSessionOption, Commit, Rollback, EnableAutoCommit, Call,
      DisableAutoCommit, CloseConnection, ReaderNext, Pcs
<1>3. CASE ReaderRelease(w) /\ ~reader[w].closed
  <2>1. Enter(w, "close", "none") /\ UNCHANGED query
    BY <1>3 DEF ReaderRelease
  <2>2. reader'[w].mode = "released" /\ \A v \in Workers \ {w} : reader'[v] = reader[v]
    BY <1>3 DEF ReaderRelease, TypeOK, Reader
  <2> QED BY <1>0, <2>1, <2>2, ToPc, QuietStep DEF Enter, serverVars
<1>4. CASE ReaderRelease(w) /\ reader[w].closed
  <2>1. Enter(w, "idle", "none") /\ Forget(w)
    BY <1>4 DEF ReaderRelease
  <2>2. query[w].closed
    BY <1>0, <1>4 DEF ReaderRelease, CursorInv, ReaderClosesQuery
  <2>3. /\ UNCHANGED <<mu, openQuery, link, cursor>>
        /\ call'[w].pc = "idle" /\ \A v \in Workers \ {w} : call'[v] = call[v]
    BY <2>1, ToPc DEF Enter, serverVars
  <2>4. /\ reader'[w].mode = "none" /\ query'[w].done
        /\ \A v \in Workers \ {w} : reader'[v] = reader[v] /\ query'[v] = query[v]
    BY <2>1 DEF Forget, TypeOK, NoReader, NoQuery
  <2>5. MutexHeld' /\ OpenQueryCleared' /\ NoCursorWithoutLink' /\ ReaderClosesQuery'
    BY <1>0, <2>3, <2>4
    DEF CursorInv, MutexHeld, OpenQueryCleared, NoCursorWithoutLink, ReaderClosesQuery
  <2>6. CursorTracked'
    BY <2>2, <2>3, <2>4, SessionAssumption
    DEF SessionAssumption, CursorInv, CursorTracked, OpenQueryTracksCursor, NeedsClose, TypeOK, WorkerOrNil
  <2> QED BY <2>5, <2>6 DEF CursorInv
<1> QED BY <1>2, <1>3, <1>4

\* The caller ends up with the lock, a cleared Conn.openQuery and no cursor.
LEMMA EnsureNoOpenQueryCursor ==
    ASSUME NEW w \in Workers, TypeOK, CursorInv, EnsureNoOpenQuery(w)
    PROVE  CursorInv'
<1>0. mu = NoWorker /\ call[w].pc = "ensure" /\ openQuery' = NoWorker /\ link' = link
  BY DEF EnsureNoOpenQuery
<1>1. /\ \/ mu' = NoWorker /\ call'[w].pc \in {"idle", "sock"}
         \/ mu' = w /\ call'[w].pc = "cmd"
      /\ \A v \in Workers \ {w} : call'[v] = call[v]
  BY AbortPc, GotoPc DEF EnsureNoOpenQuery
<1>2. MutexHeld'
  BY <1>0, <1>1, SessionAssumption DEF SessionAssumption, CursorInv, MutexHeld, Locked
<1>3. cursor' \in {cursor, NoWorker}
  BY DEF EnsureNoOpenQuery, CursorClosed
<1>4. OpenQueryCleared' /\ NoCursorWithoutLink'
  BY <1>0, <1>3 DEF CursorInv, OpenQueryCleared, NoCursorWithoutLink
<1>5. \A v \in Workers : /\ query[v].closed => query'[v].closed
                         /\ reader'[v].mode = reader[v].mode
                         /\ reader'[v].closed = reader[v].closed
  BY DEF EnsureNoOpenQuery, NeedsClose, QueryClosed, TypeOK, WorkerOrNil, Query, Reader
<1>6. ReaderClosesQuery'
  BY <1>0, <1>1, <1>5 DEF CursorInv, ReaderClosesQuery
<1>7. PlainPeer => cursor' = NoWorker
  BY <1>0, SessionAssumption
  DEF SessionAssumption, EnsureNoOpenQuery, NeedsClose, CursorClosed, SendsCLSQRY, CursorInv,
      CursorTracked, OpenQueryTracksCursor, TypeOK, WorkerOrNil
<1>8. CursorTracked'
  BY <1>0, <1>7 DEF CursorTracked, OpenQueryTracksCursor, NeedsClose
<1> QED BY <1>2, <1>4, <1>6, <1>8 DEF CursorInv

\* Steps of a worker that holds the mutex and may give it up.
LEMMA CommandStep ==
    ASSUME NEW w \in Workers, TypeOK, CursorInv, call[w].pc \in Locked,
           UNCHANGED <<openQuery, query, reader>>,
           cursor' \in {cursor, NoWorker},
           link' => link,
           link' \/ cursor' = NoWorker,
           \A v \in Workers \ {w} : call'[v] = call[v],
           \/ mu' = NoWorker /\ call'[w].pc \notin Locked
           \/ mu' = mu /\ call'[w].pc \in Locked
    PROVE  CursorInv'
<1>1. mu = w /\ openQuery = NoWorker
  BY SessionAssumption DEF SessionAssumption, CursorInv, MutexHeld, OpenQueryCleared
<1>2. MutexHeld'
  BY <1>1, SessionAssumption DEF SessionAssumption, CursorInv, MutexHeld
<1>3. OpenQueryCleared' /\ NoCursorWithoutLink'
  BY <1>1 DEF CursorInv, OpenQueryCleared, NoCursorWithoutLink
<1>4. ReaderClosesQuery'
  BY DEF CursorInv, ReaderClosesQuery, Locked
<1>5. CursorTracked'
  BY <1>1 DEF CursorInv, CursorTracked, OpenQueryTracksCursor, NeedsClose
<1> QED BY <1>2, <1>3, <1>4, <1>5 DEF CursorInv

\* Commands other than opening a cursor leave none behind.
LEMMA CommandCursor ==
    ASSUME NEW w \in Workers, TypeOK, CursorInv,
           \/ CommandLinkDown(w) \/ PackageMissing(w) \/ BindPackage(w) \/ StatementFails(w)
           \/ ExecuteStatement(w) \/ Describe(w) \/ ExecBatch(w) \/ SendCommit(w) \/ SendRollback(w)
    PROVE  CursorInv'
<1> USE DEF Locked
<1>0. link \/ cursor = NoWorker
  BY DEF CursorInv, NoCursorWithoutLink
<1>1. CASE CommandLinkDown(w)
  BY <1>0, <1>1, AbortPc, CommandStep DEF CommandLinkDown, Holding, serverVars
<1>2. CASE PackageMissing(w)
  BY <1>0, <1>2, AbortPc, GotoPc, CommandStep DEF PackageMissing, Holding, serverVars
<1>3. CASE BindPackage(w)
  BY <1>0, <1>3, AbortPc, GotoPc, CommandStep DEF BindPackage
<1>4. CASE StatementFails(w)
  <2>1. call'[w].pc = "idle" /\ \A v \in Workers \ {w} : call'[v] = call[v]
    BY <1>4, GotoPc, ToPc DEF StatementFails, Done, WorkDone
  <2> QED BY <1>0, <1>4, <2>1, CommandStep DEF StatementFails, Holding, ServerDropsUow
<1>5. CASE ExecuteStatement(w) \/ ExecBatch(w)
  <2>1. /\ call'[w].pc \in {"ensure", "autocommit"}
        /\ \A v \in Workers \ {w} : call'[v] = call[v]
    BY <1>5, ToPc DEF ExecuteStatement, ExecBatch, WorkDone
  <2> QED BY <1>0, <1>5, <2>1, CommandStep DEF ExecuteStatement, ExecBatch, Holding
<1>6. CASE Describe(w)
  <2>1. /\ call'[w].pc \in {"idle", "ensure", "autocommit"}
        /\ \A v \in Workers \ {w} : call'[v] = call[v]
    BY <1>6, GotoPc, ToPc DEF Describe, Done
  <2> QED BY <1>0, <1>6, <2>1, CommandStep DEF Describe, Holding
<1>7. CASE SendCommit(w)
  <2>1. /\ mu' = NoWorker /\ call'[w].pc \in {"idle", "flag", "sock"}
        /\ \A v \in Workers \ {w} : call'[v] = call[v]
    BY <1>7, AbortPc, GotoPc DEF SendCommit, Return
  <2>2. /\ cursor' \in {cursor, NoWorker} /\ (link' => link) /\ (link' \/ cursor' = NoWorker)
    BY <1>7 DEF SendCommit
  <2> QED BY <1>7, <2>1, <2>2, CommandStep DEF SendCommit, Holding
<1>8. CASE SendRollback(w)
  BY <1>8, GotoPc, CommandStep DEF SendRollback, Return, Holding, ServerDropsUow
<1> QED BY <1>1, <1>2, <1>3, <1>4, <1>5, <1>6, <1>7, <1>8

\* Opening a cursor sets Conn.openQuery in the same locked region.
LEMMA OpenCursorCursor ==
    ASSUME NEW w \in Workers, TypeOK, CursorInv, OpenCursor(w) \/ OpenUndecodable(w)
    PROVE  CursorInv'
<1> USE DEF Locked
<1>1. mu = w /\ openQuery = NoWorker /\ link /\ link' = link /\ call[w].pc = "cmd"
  BY SessionAssumption
  DEF SessionAssumption, CursorInv, OpenQueryCleared, OpenCursor, OpenUndecodable, Holding
<1>2. CASE OpenCursor(w)
  <2>1. /\ mu' = NoWorker /\ openQuery' = w
        /\ call'[w].pc \in {"idle", "close", "next"}
        /\ \A v \in Workers \ {w} : call'[v] = call[v]
    BY <1>2, GotoPc DEF OpenCursor, Return
  <2>2. /\ reader'[w].closed = FALSE
        /\ \A v \in Workers \ {w} : reader'[v] = reader[v] /\ query'[v] = query[v]
    BY <1>2 DEF OpenCursor, StartReading, NoReader, TypeOK
  <2>3. /\ cursor' = IF query'[w].done THEN NoWorker ELSE w
        /\ query'[w].closed = FALSE
    BY <1>2 DEF OpenCursor, TypeOK
  <2>4. MutexHeld' /\ OpenQueryCleared' /\ NoCursorWithoutLink'
    BY <1>1, <2>1, SessionAssumption
    DEF SessionAssumption, CursorInv, MutexHeld, OpenQueryCleared, NoCursorWithoutLink
  <2>5. ReaderClosesQuery'
    BY <2>1, <2>2 DEF CursorInv, ReaderClosesQuery
  <2>6. CursorTracked'
    BY <2>1, <2>3, SessionAssumption
    DEF SessionAssumption, CursorTracked, OpenQueryTracksCursor, NeedsClose
  <2> QED BY <2>4, <2>5, <2>6 DEF CursorInv
<1>3. CASE OpenUndecodable(w)
  <2>1. ~PlainPeer'
    BY <1>3 DEF OpenUndecodable, PlainPeer
  <2>2. MutexHeld' /\ OpenQueryCleared' /\ NoCursorWithoutLink' /\ ReaderClosesQuery'
    BY <1>1, <1>3, AbortPc, SessionAssumption
    DEF SessionAssumption, OpenUndecodable, CursorInv, MutexHeld, OpenQueryCleared,
        NoCursorWithoutLink, ReaderClosesQuery
  <2> QED BY <2>1, <2>2 DEF CursorInv, CursorTracked
<1> QED BY <1>2, <1>3

\* EndOfRows sends a reader it closes to "close".
LEMMA EndOfRowsEffect ==
    ASSUME NEW w \in Workers, TypeOK, EndOfRows(w)
    PROVE  /\ call'[w].pc \in {"batch", "close"}
           /\ \A v \in Workers \ {w} : call'[v] = call[v] /\ reader'[v] = reader[v]
           /\ reader'[w].mode = reader[w].mode
           /\ reader'[w].closed => reader[w].closed \/ call'[w].pc = "close"
BY GotoPc DEF EndOfRows, TypeOK, Reader

\* Steps outside the lock do not change which cursor is open.
LEMMA DriverCursor ==
    ASSUME NEW w \in Workers, TypeOK, CursorInv,
           \/ AutoCommitIfNeeded(w) \/ QueryFinished(w) \/ SetAutoCommitFlag(w)
           \/ StopTaking(w) \/ QueryNext(w) \/ TakePending(w) \/ Deliver(w)
    PROVE  CursorInv'
<1> USE DEF Locked, LocalStep, connVars, serverVars
<1>1. CASE AutoCommitIfNeeded(w) \/ QueryFinished(w)
  BY <1>1, ToPc, QuietStep DEF AutoCommitIfNeeded, QueryFinished, Continue
<1>2. CASE SetAutoCommitFlag(w)
  BY <1>2, GotoPc, QuietStep DEF SetAutoCommitFlag, Done
<1>3. CASE StopTaking(w)
  BY <1>3, GotoPc, QuietStep DEF StopTaking
<1>4. CASE QueryNext(w)
  BY <1>4, GotoPc, EndOfRowsEffect, QuietStep DEF QueryNext
<1>5. CASE TakePending(w)
  <2>1. /\ call[w].pc = "take" /\ call'[w].pc \in {"next", "batch", "close"}
        /\ \A v \in Workers \ {w} : call'[v] = call[v] /\ reader'[v] = reader[v]
        /\ reader'[w].mode = reader[w].mode
        /\ reader'[w].closed => reader[w].closed \/ call'[w].pc = "close"
    BY <1>5, GotoPc, EndOfRowsEffect DEF TakePending, TypeOK, Reader
  <2>2. \A v \in Workers : query'[v].done = query[v].done /\ query'[v].closed = query[v].closed
    BY <1>5 DEF TakePending, Taken, TypeOK, Query
  <2>3. MutexHeld' /\ OpenQueryCleared' /\ NoCursorWithoutLink' /\ ReaderClosesQuery'
    BY <1>5, <2>1, <2>2
    DEF TakePending, CursorInv, MutexHeld, OpenQueryCleared, NoCursorWithoutLink, ReaderClosesQuery
  <2>4. CursorTracked'
    BY <1>5, <2>2
    DEF TakePending, CursorInv, CursorTracked, OpenQueryTracksCursor, NeedsClose, TypeOK, WorkerOrNil
  <2> QED BY <2>3, <2>4 DEF CursorInv
<1>6. CASE Deliver(w)
  <2>1. /\ \A v \in Workers \ {w} : reader'[v] = reader[v]
        /\ reader'[w].mode = reader[w].mode /\ reader'[w].closed = reader[w].closed
    BY <1>6 DEF Deliver, TypeOK, Reader
  <2> QED BY <1>6, <2>1, GotoPc, QuietStep DEF Deliver, Done
<1> QED BY <1>1, <1>2, <1>3, <1>4, <1>5, <1>6

\* What the three outcomes of a CNTQRY have in common.
LEMMA FetchEffect ==
    ASSUME NEW w \in Workers, TypeOK, Fetch(w)
    PROVE  /\ call[w].pc = "fetch" /\ mu = NoWorker /\ UNCHANGED <<mu, openQuery, link>>
           /\ call'[w].pc \in {"next", "batch", "close", "idle"}
           /\ \A v \in Workers \ {w} : /\ call'[v] = call[v] /\ reader'[v] = reader[v]
                                       /\ query'[v] = query[v]
           /\ reader'[w].mode = "reader" => reader[w].mode = "reader"
           /\ reader'[w].closed => reader[w].closed \/ call'[w].pc = "close"
           /\ query'[w].closed = query[w].closed
<1>0. call[w].pc = "fetch" /\ mu = NoWorker /\ UNCHANGED <<mu, openQuery, link>>
  BY DEF Fetch, connVars
<1>1. CASE FetchRows(w)
  <2>1. /\ query'[w].closed = query[w].closed
        /\ reader'[w].mode = reader[w].mode /\ reader'[w].closed = reader[w].closed
        /\ \A v \in Workers \ {w} : reader'[v] = reader[v] /\ query'[v] = query[v]
    BY <1>1 DEF FetchRows, TypeOK, Query, Reader
  <2>2. call'[w].pc = "next" /\ \A v \in Workers \ {w} : call'[v] = call[v]
    BY <1>1, GotoPc DEF FetchRows
  <2> QED BY <1>0, <2>1, <2>2
<1>2. CASE FetchEnd(w)
  BY <1>0, <1>2, EndOfRowsEffect DEF FetchEnd, TypeOK, Query
<1>3. CASE FetchFails(w)
  <2>1. /\ query'[w].closed = query[w].closed
        /\ \A v \in Workers \ {w} : query'[v] = query[v]
    BY <1>3 DEF FetchFails, TypeOK, Query
  <2>2. /\ reader'[w].mode = "reader" => reader[w].mode = "reader"
        /\ reader'[w].closed = reader[w].closed
        /\ \A v \in Workers \ {w} : reader'[v] = reader[v]
    BY <1>3 DEF FetchFails, TypeOK, Reader
  <2>3. call'[w].pc \in {"close", "idle"} /\ \A v \in Workers \ {w} : call'[v] = call[v]
    BY <1>3, GotoPc DEF FetchFails, Done
  <2> QED BY <1>0, <2>1, <2>2, <2>3
<1> QED BY <1>1, <1>2, <1>3 DEF Fetch

\* A CNTQRY that ends the query marks it done on both sides.
LEMMA FetchCursor ==
    ASSUME NEW w \in Workers, TypeOK, CursorInv, Fetch(w)
    PROVE  CursorInv'
<1>1. MutexHeld' /\ OpenQueryCleared' /\ ReaderClosesQuery'
  BY FetchEffect DEF CursorInv, MutexHeld, OpenQueryCleared, ReaderClosesQuery, Locked
<1>2. \/ cursor' = cursor /\ query'[w].done = query[w].done
      \/ link /\ cursor = w /\ cursor' = w /\ ~query'[w].done
      \/ link /\ cursor = w /\ cursor' = NoWorker /\ query'[w].done
      \/ cursor # w /\ cursor' = cursor /\ query'[w].done
      \/ ~PlainPeer /\ (link \/ cursor' = cursor)
  <2>1. CASE FetchRows(w)
    BY <2>1 DEF FetchRows, TypeOK, Query
  <2>2. CASE FetchEnd(w)
    BY <2>2 DEF FetchEnd, PlainPeer, TypeOK, Query
  <2>3. CASE FetchFails(w)
    BY <2>3 DEF FetchFails, PlainPeer, TypeOK, Query
  <2> QED BY <2>1, <2>2, <2>3 DEF Fetch
<1>3. NoCursorWithoutLink'
  BY <1>2, FetchEffect DEF CursorInv, NoCursorWithoutLink
<1>4. CursorTracked'
  <2> SUFFICES ASSUME PlainPeer
               PROVE  OpenQueryTracksCursor' /\ ((link /\ NeedsClose)' => cursor' = openQuery')
    BY DEF CursorTracked, PlainPeer
  <2>1. /\ UNCHANGED <<openQuery, link>> /\ query'[w].closed = query[w].closed
        /\ \A v \in Workers \ {w} : query'[v] = query[v]
    BY FetchEffect
  <2>2. OpenQueryTracksCursor /\ ((link /\ NeedsClose) => cursor = openQuery)
    BY DEF CursorInv, CursorTracked
  <2>3. OpenQueryTracksCursor'
    BY <1>2, <2>1, <2>2, SessionAssumption DEF SessionAssumption, OpenQueryTracksCursor, TypeOK, WorkerOrNil
  <2>4. (link /\ NeedsClose)' => cursor' = openQuery'
    BY <1>2, <2>1, <2>2, SessionAssumption
    DEF SessionAssumption, OpenQueryTracksCursor, NeedsClose, TypeOK, WorkerOrNil
  <2> QED BY <2>3, <2>4
<1> QED BY <1>1, <1>3, <1>4 DEF CursorInv

\* Query.Close drops Conn.openQuery together with the cursor.
LEMMA CloseQueryCursor ==
    ASSUME NEW w \in Workers, TypeOK, CursorInv, CloseQuery(w)
    PROVE  CursorInv'
<1>1. /\ call[w].pc = "close" /\ mu = NoWorker /\ UNCHANGED <<mu, link>>
      /\ call'[w].pc \in {"finish", "autocommit", "idle"}
      /\ \A v \in Workers \ {w} : call'[v] = call[v]
      /\ openQuery' = IF openQuery = w THEN NoWorker ELSE openQuery
      /\ cursor' = CursorClosed(w)
  BY GotoPc DEF CloseQuery
<1>2. /\ \A v \in Workers \ {w} : query'[v] = query[v] /\ reader'[v] = reader[v]
      /\ reader'[w].mode = "reader" => query'[w].closed
  BY DEF CloseQuery, Forget, QueryClosed, NoReader, NoQuery, TypeOK, Query, Reader
<1>3. MutexHeld' /\ OpenQueryCleared' /\ NoCursorWithoutLink' /\ ReaderClosesQuery'
  BY <1>1, <1>2
  DEF CursorClosed, CursorInv, MutexHeld, OpenQueryCleared, NoCursorWithoutLink, ReaderClosesQuery, Locked
<1>4. CursorTracked'
  BY <1>1, <1>2, SessionAssumption
  DEF SessionAssumption, CursorClosed, SendsCLSQRY, CursorInv, CursorTracked,
      OpenQueryTracksCursor, NeedsClose, TypeOK, WorkerOrNil
<1> QED BY <1>3, <1>4 DEF CursorInv

\* Losing the link loses the cursor; the package has nothing to do with it.
LEMMA EnvironmentCursor ==
    ASSUME TypeOK, CursorInv,
           LinkBreaks \/ DropPackage \/ (\E w \in Workers : CloseSocket(w))
    PROVE  CursorInv'
<1>1. /\ UNCHANGED <<mu, openQuery, query, reader>>
      /\ \A v \in Workers : call'[v].pc = call[v].pc \/ (call[v].pc = "sock" /\ call'[v].pc = "idle")
  BY GotoPc DEF LinkBreaks, DropPackage, CloseSocket, Done, connVars
<1>2. (cursor' = NoWorker /\ ~link') \/ (cursor' = cursor /\ link' = link)
  BY DEF LinkBreaks, DropPackage, CloseSocket, ServerDropsUow
<1>3. MutexHeld' /\ OpenQueryCleared' /\ NoCursorWithoutLink' /\ ReaderClosesQuery'
  BY <1>1, <1>2
  DEF CursorInv, MutexHeld, OpenQueryCleared, NoCursorWithoutLink, ReaderClosesQuery, Locked
<1>4. CursorTracked'
  BY <1>1, <1>2 DEF CursorInv, CursorTracked, OpenQueryTracksCursor, NeedsClose
<1> QED BY <1>3, <1>4 DEF CursorInv

\* The driver's and the server's view of the cursor agree in every reachable state.
LEMMA CursorInvariant == Spec => []CursorInv
<1>1. TypeOK /\ CursorInv /\ [Next]_vars => CursorInv'
  <2> SUFFICES ASSUME TypeOK, CursorInv, [Next]_vars PROVE CursorInv'
    OBVIOUS
  <2>1. CASE UNCHANGED vars
    BY <2>1
    DEF vars, connVars, serverVars, CursorInv, MutexHeld, OpenQueryCleared, NoCursorWithoutLink,
        ReaderClosesQuery, CursorTracked, OpenQueryTracksCursor, NeedsClose
  <2>2. CASE LinkBreaks \/ DropPackage
    BY <2>2, EnvironmentCursor
  <2>3. ASSUME NEW w \in Workers, StartCall(w) PROVE CursorInv'
    BY <2>3, StartCallCursor
  <2>4. ASSUME NEW w \in Workers, Step(w) PROVE CursorInv'
    BY <2>4, EnsureNoOpenQueryCursor, CommandCursor, OpenCursorCursor, DriverCursor,
       FetchCursor, CloseQueryCursor, EnvironmentCursor
    DEF Step
  <2> QED BY <2>1, <2>2, <2>3, <2>4 DEF Next
<1> QED BY InitCursor, TypeCorrect, <1>1, PTL DEF Spec

\* Whatever calls overlap, if the driver can decode the server's answers, its
\* Conn.openQuery is the server's open cursor, and a CLSQRY it would send finds it.
THEOREM CursorAgreement == Spec => []CursorTracked
BY CursorInvariant, PTL DEF CursorInv

\* No command enters section 1 while a cursor is open there.
THEOREM SectionIsFree == Spec => []SectionFree
<1>1. CursorInv => SectionFree
  BY SessionAssumption
  DEF SessionAssumption, CursorInv, MutexHeld, OpenQueryCleared, CursorTracked,
      OpenQueryTracksCursor, SectionFree, Locked
<1> QED BY <1>1, CursorInvariant, PTL

---------------------------------------------------------------------------
(* The rows *)

\* Each worker's rows depend on its own query, reader and pc only.
LEMMA RowsFrame ==
    ASSUME NEW v \in Workers, TypeOK, RowsOf(v),
           query'[v] = query[v], reader'[v] = reader[v],
           call'[v].pc \in {call[v].pc, "idle", "ensure", "cmd", "bind", "next", "batch",
                            "autocommit", "finish", "flag", "sock"}
    PROVE  RowsOf(v)'
BY DEF RowsOf, Undisturbed, PlainPeer

\* So a step that touches none of these keeps every worker's rows.
LEMMA RowsFrameAll ==
    ASSUME TypeOK, RowsInv, UNCHANGED <<query, reader>>,
           \A v \in Workers :
              call'[v].pc \in {call[v].pc, "idle", "ensure", "cmd", "bind", "next", "batch",
                               "autocommit", "finish", "flag", "sock"}
    PROVE  RowsInv'
BY RowsFrame DEF RowsInv

\* Nothing is read on a new connection.
LEMMA InitRows == Init => RowsInv
BY DEF Init, RowsInv, RowsOf, Undisturbed, NoReader, NoCall

\* Starting a call moves no rows.
LEMMA StartCallRows ==
    ASSUME NEW w \in Workers, TypeOK, RowsInv, StartCall(w)
    PROVE  RowsInv'
<1>1. ASSUME NEW where \in {"idle", "ensure", "sock", "next"}, NEW o, Enter(w, where, o),
             UNCHANGED <<query, reader>>
      PROVE  RowsInv'
  BY <1>1, ToPc, RowsFrameAll DEF Enter
<1>2. CASE ~ReaderRelease(w)
  BY <1>1, <1>2
  DEF StartCall, Execute, ExecuteQuery, ExecuteBoundQuery, QueryAll, ExecuteUpdate,
      ExecuteBoundUpdate, ExecuteSchema, SetSessionOption, Commit, Rollback, EnableAutoCommit, Call,
      DisableAutoCommit, CloseConnection, ReaderNext
<1>3. CASE ReaderRelease(w)
  <2>0. reader \in [Workers -> Reader] /\ query \in [Workers -> Query]
    BY DEF TypeOK
  <2>a. /\ call'[w].pc \in {"idle", "close"}
        /\ \A v \in Workers \ {w} : call'[v] = call[v]
    BY <1>3, ToPc DEF ReaderRelease, Enter
  <2>b. /\ reader'[w].mode \in {"none", "released"}
        /\ \A v \in Workers \ {w} : reader'[v] = reader[v] /\ query'[v] = query[v]
    <3>1. CASE reader[w].closed
      <4>1. Forget(w)
        BY <1>3, <3>1 DEF ReaderRelease
      <4> QED BY <4>1, <2>0 DEF Forget, NoReader
    <3>2. CASE ~reader[w].closed
      <4>1. /\ query' = query
            /\ reader' = [reader EXCEPT ![w].mode = "released", ![w].closed = TRUE]
        BY <1>3, <3>2 DEF ReaderRelease
      <4> QED BY <4>1, <2>0 DEF Reader
    <3> QED BY <3>1, <3>2
  <2>1. /\ reader'[w].mode \in {"none", "released"} /\ call'[w].pc \in {"idle", "close"}
        /\ \A v \in Workers \ {w} : /\ reader'[v] = reader[v] /\ query'[v] = query[v]
                                    /\ call'[v] = call[v]
    BY <2>a, <2>b
  <2>2. RowsOf(w)'
    BY <2>1 DEF RowsOf, Undisturbed
  <2> QED BY <2>1, <2>2, RowsFrame DEF RowsInv
<1> QED BY <1>2, <1>3

\* A query that another call closes is marked as cut.
LEMMA EnsureNoOpenQueryRows ==
    ASSUME NEW w \in Workers, TypeOK, RowsInv, EnsureNoOpenQuery(w)
    PROVE  RowsInv'
<1>1. /\ call[w].pc = "ensure" /\ call'[w].pc \in {"idle", "sock", "cmd"}
      /\ \A v \in Workers \ {w} : call'[v] = call[v]
  BY AbortPc, GotoPc DEF EnsureNoOpenQuery
<1>2. CASE ~NeedsClose
  BY <1>1, <1>2, RowsFrameAll DEF EnsureNoOpenQuery
<1>3. CASE NeedsClose
  <2>1. PICK x \in Workers : x = openQuery
    BY <1>3 DEF NeedsClose, TypeOK, WorkerOrNil
  <2>2. /\ reader'[x].cut /\ reader'[x].mode = reader[x].mode
        /\ \A v \in Workers \ {x} : reader'[v] = reader[v]
    BY <1>3, <2>1 DEF EnsureNoOpenQuery, TypeOK, Reader
  <2>3. /\ query'[x].pending \in {query[x].pending, 0}
        /\ \A v \in Workers \ {x} : query'[v] = query[v]
    BY <1>3, <2>1 DEF EnsureNoOpenQuery, QueryClosed, TypeOK, Query
  <2>4. \A v \in Workers : call'[v].pc \in {call[v].pc, "idle", "sock", "cmd"}
    BY <1>1
  <2>5. RowsOf(x)'
    BY <2>2, <2>3, <2>4 DEF RowsInv, RowsOf, Undisturbed
  <2> QED BY <2>2, <2>3, <2>4, <2>5, RowsFrame DEF RowsInv
<1> QED BY <1>2, <1>3

\* Commands other than opening a cursor move no rows.
LEMMA CommandRows ==
    ASSUME NEW w \in Workers, TypeOK, RowsInv,
           \/ CommandLinkDown(w) \/ PackageMissing(w) \/ BindPackage(w) \/ StatementFails(w)
           \/ OpenUndecodable(w) \/ ExecuteStatement(w) \/ Describe(w) \/ ExecBatch(w)
           \/ SendCommit(w) \/ SendRollback(w) \/ AutoCommitIfNeeded(w) \/ QueryFinished(w)
           \/ SetAutoCommitFlag(w) \/ CloseSocket(w) \/ StopTaking(w)
    PROVE  RowsInv'
<1>1. UNCHANGED <<query, reader>>
  BY DEF CommandLinkDown, PackageMissing, BindPackage, StatementFails, OpenUndecodable,
     ExecuteStatement, Describe, ExecBatch, SendCommit, SendRollback, AutoCommitIfNeeded,
     QueryFinished, Continue, SetAutoCommitFlag, CloseSocket, StopTaking
<1> DEFINE Quiet == {"idle", "ensure", "cmd", "bind", "batch", "autocommit", "flag", "sock"}
<1>2. call'[w].pc \in Quiet /\ \A v \in Workers \ {w} : call'[v] = call[v]
  <2>1. CASE CommandLinkDown(w) \/ PackageMissing(w) \/ BindPackage(w) \/ OpenUndecodable(w)
    BY <2>1, AbortPc, GotoPc DEF CommandLinkDown, PackageMissing, BindPackage, OpenUndecodable
  <2>2. CASE StatementFails(w) \/ ExecuteStatement(w) \/ ExecBatch(w) \/ Describe(w)
    BY <2>2, GotoPc, ToPc DEF StatementFails, ExecuteStatement, ExecBatch, Describe, WorkDone, Done
  <2>3. CASE SendCommit(w) \/ SendRollback(w)
    BY <2>3, AbortPc, GotoPc DEF SendCommit, SendRollback, Return
  <2>4. CASE AutoCommitIfNeeded(w) \/ QueryFinished(w)
    BY <2>4, ToPc DEF AutoCommitIfNeeded, QueryFinished, Continue
  <2>5. CASE SetAutoCommitFlag(w) \/ CloseSocket(w) \/ StopTaking(w)
    BY <2>5, GotoPc DEF SetAutoCommitFlag, CloseSocket, StopTaking, Done
  <2> QED BY <2>1, <2>2, <2>3, <2>4, <2>5
<1> QED BY <1>1, <1>2, RowsFrameAll

\* A new reader is owed exactly the rows of its result.
LEMMA OpenCursorRows ==
    ASSUME NEW w \in Workers, TypeOK, RowsInv, OpenCursor(w)
    PROVE  RowsInv'
<1>1. PICK t \in 0..MaxRows, k \in 0..MaxRows, ended \in BOOLEAN :
        /\ k <= t
        /\ ended => k = t
        /\ query' = [query EXCEPT ![w] = [done |-> ended, closed |-> FALSE,
                                          pending |-> k, left |-> t - k]]
        /\ \/ StartReading(w, "reader", t) /\ Return(w, "idle")
           \/ StartReading(w, "discard", t) /\ Return(w, "close")
           \/ StartReading(w, "meta", t) /\ Return(w, "next")
  BY DEF OpenCursor
<1>2. /\ \/ reader'[w].mode = "discard" /\ call'[w].pc = "close"
         \/ call'[w].pc \in {"idle", "next"}
      /\ \A v \in Workers \ {w} : call'[v] = call[v]
  BY <1>1, GotoPc DEF StartReading, Return, TypeOK, NoReader
<1>3. /\ reader'[w].owed = t /\ reader'[w].buffered = 0 /\ reader'[w].done = FALSE
      /\ \A v \in Workers \ {w} : reader'[v] = reader[v]
  BY <1>1 DEF StartReading, TypeOK, NoReader
<1>4. /\ query'[w].pending = k /\ query'[w].left = t - k
      /\ query'[w].done = ended /\ query'[w].closed = FALSE
      /\ \A v \in Workers \ {w} : query'[v] = query[v]
  BY <1>1 DEF TypeOK
<1>5. RowsOf(w)'
  BY <1>1, <1>2, <1>3, <1>4, SessionAssumption DEF SessionAssumption, RowsOf, Undisturbed
<1> QED BY <1>2, <1>3, <1>4, <1>5, RowsFrame DEF RowsInv

\* A nil batch is the end of the rows.
LEMMA EndOfRowsRows ==
    ASSUME NEW w \in Workers, TypeOK, RowsInv, EndOfRows(w),
           \A v \in Workers \ {w} : query'[v] = query[v],
           query'[w].pending = 0, query[w].pending = 0, query'[w].left = query[w].left,
           (PlainPeer /\ Undisturbed(w)) => query[w].left = 0
    PROVE  RowsInv'
<1>0. query[w] \in Query /\ reader[w] \in Reader
  BY DEF TypeOK
<1>1. /\ call'[w].pc \in {"batch", "close"}
      /\ \A v \in Workers \ {w} : call'[v] = call[v] /\ reader'[v] = reader[v]
  BY EndOfRowsEffect
<1>2. /\ reader'[w].mode = reader[w].mode /\ reader'[w].err = reader[w].err
      /\ reader'[w].cut = reader[w].cut /\ reader'[w].owed = reader[w].owed
      /\ reader'[w].buffered = reader[w].buffered
      /\ reader'[w].done => reader[w].done \/ reader[w].buffered = 0
  BY DEF EndOfRows, TypeOK, Reader
<1>3. RowsOf(w)
  BY DEF RowsInv
<1>4. RowsOf(w)'
  BY <1>0, <1>1, <1>2, <1>3, SessionAssumption
  DEF SessionAssumption, RowsOf, Undisturbed, PlainPeer, Query, Reader
<1> QED BY <1>1, <1>4, RowsFrame DEF RowsInv

\* Taking pending rows and delivering batches moves rows without losing any.
LEMMA ReadingRows ==
    ASSUME NEW w \in Workers, TypeOK, RowsInv, QueryNext(w) \/ TakePending(w) \/ Deliver(w)
    PROVE  RowsInv'
<1>0. /\ RowsOf(w) /\ query[w] \in Query /\ reader[w] \in Reader
      /\ query[w].pending \in Nat /\ query[w].left \in Nat /\ reader[w].buffered \in Nat
      /\ reader[w].owed \in Int
  BY SessionAssumption DEF SessionAssumption, RowsInv, TypeOK, Query, Reader
<1>1. CASE QueryNext(w)
  <2>1. CASE Exhausted(w) /\ EndOfRows(w)
    BY <1>0, <1>1, <2>1, EndOfRowsRows DEF QueryNext, Exhausted, RowsOf
  <2>2. CASE ~Exhausted(w) /\ Goto(w, IF query[w].pending > 0 THEN "take" ELSE "fetch") /\ UNCHANGED reader
    <3>1. /\ query' = query /\ reader' = reader
          /\ call'[w].pc = IF query[w].pending > 0 THEN "take" ELSE "fetch"
          /\ \A v \in Workers \ {w} : call'[v] = call[v]
      BY <1>1, <2>2, GotoPc DEF QueryNext
    <3>2. RowsOf(w)'
      BY <1>0, <3>1 DEF RowsOf, Undisturbed, PlainPeer
    <3> QED BY <3>1, <3>2, RowsFrame DEF RowsInv
  <2> QED BY <1>1, <2>1, <2>2 DEF QueryNext
<1>2. CASE TakePending(w)
  <2>1. /\ query'[w].pending = 0 /\ query'[w].left = query[w].left
        /\ query'[w].done = query[w].done /\ query'[w].closed = query[w].closed
        /\ \A v \in Workers \ {w} : query'[v] = query[v]
    BY <1>2, <1>0 DEF TakePending, Taken, TypeOK, Query
  <2>2. CASE query[w].pending = 0
    <3>1. ~Undisturbed(w)
      BY <1>0, <1>2, <2>2 DEF TakePending, RowsOf
    <3> QED BY <1>2, <2>1, <2>2, <3>1, EndOfRowsRows DEF TakePending
  <2>3. CASE query[w].pending > 0
    <3>1. /\ call'[w].pc = "next" /\ \A v \in Workers \ {w} : call'[v] = call[v]
      BY <1>2, <2>3, GotoPc DEF TakePending
    <3>2. /\ reader'[w].buffered = reader[w].buffered + query[w].pending
          /\ reader'[w].owed = reader[w].owed /\ reader'[w].mode = reader[w].mode
          /\ reader'[w].err = reader[w].err /\ reader'[w].cut = reader[w].cut
          /\ reader'[w].done = reader[w].done
          /\ \A v \in Workers \ {w} : reader'[v] = reader[v]
      BY <1>2, <2>3 DEF TakePending, TypeOK, Reader
    <3>3. RowsOf(w)'
      BY <1>0, <2>1, <3>1, <3>2 DEF RowsOf, Undisturbed, PlainPeer
    <3> QED BY <2>1, <3>1, <3>2, <3>3, RowsFrame DEF RowsInv
  <2> QED BY <1>0, <2>2, <2>3
<1>3. CASE Deliver(w)
  <2>1. PICK n \in 1..reader[w].buffered :
          \/ reader' = [reader EXCEPT ![w].buffered = @ - n, ![w].owed = @ - n]
          \/ reader' = [reader EXCEPT ![w].buffered = @ - n, ![w].err = TRUE]
    BY <1>3 DEF Deliver, BatchSizes
  <2>2. /\ query' = query /\ call'[w].pc = "idle"
        /\ \A v \in Workers \ {w} : call'[v] = call[v] /\ reader'[v] = reader[v]
    BY <1>3, <2>1, GotoPc DEF Deliver, Done, TypeOK
  <2>3. CASE reader'[w].err = TRUE
    BY <2>2, <2>3, RowsFrame DEF RowsInv, RowsOf, Undisturbed
  <2>4. CASE reader' = [reader EXCEPT ![w].buffered = @ - n, ![w].owed = @ - n]
    <3>1. /\ reader'[w].buffered = reader[w].buffered - n /\ reader'[w].owed = reader[w].owed - n
          /\ reader'[w].mode = reader[w].mode /\ reader'[w].done = reader[w].done
          /\ reader'[w].err = reader[w].err /\ reader'[w].cut = reader[w].cut
      BY <2>4 DEF TypeOK, Reader
    <3>2. RowsOf(w)'
      BY <1>0, <2>2, <3>1 DEF RowsOf, Undisturbed, PlainPeer
    <3> QED BY <2>2, <3>2, RowsFrame DEF RowsInv
  <2>5. reader'[w].err = TRUE \/ reader' = [reader EXCEPT ![w].buffered = @ - n, ![w].owed = @ - n]
    BY <2>1 DEF TypeOK, Reader
  <2> QED BY <2>3, <2>4, <2>5
<1> QED BY <1>1, <1>2, <1>3

\* A CNTQRY moves rows from the server to the reader, or ends with none left.
LEMMA FetchedRows ==
    ASSUME NEW w \in Workers, TypeOK, RowsInv, Fetch(w)
    PROVE  RowsInv'
<1>0. /\ RowsOf(w) /\ query[w] \in Query /\ reader[w] \in Reader
      /\ query[w].left \in Nat /\ reader[w].buffered \in Nat /\ reader[w].owed \in Int
      /\ query[w].pending = 0
  BY SessionAssumption DEF SessionAssumption, RowsInv, RowsOf, Fetch, TypeOK, Query, Reader
<1>1. CASE FetchRows(w)
  <2>1. PICK k \in 1..query[w].left, ended \in BOOLEAN :
          /\ ended => k = query[w].left
          /\ query' = [query EXCEPT ![w].left = @ - k, ![w].done = ended]
          /\ reader' = [reader EXCEPT ![w].buffered = @ + k]
    BY <1>1 DEF FetchRows
  <2>2. /\ query'[w].left = query[w].left - k /\ query'[w].pending = 0
        /\ query'[w].done = ended /\ query'[w].closed = query[w].closed
        /\ \A v \in Workers \ {w} : query'[v] = query[v]
    BY <1>0, <2>1 DEF TypeOK, Query
  <2>3. /\ reader'[w].buffered = reader[w].buffered + k
        /\ reader'[w].owed = reader[w].owed /\ reader'[w].mode = reader[w].mode
        /\ reader'[w].err = reader[w].err /\ reader'[w].cut = reader[w].cut
        /\ reader'[w].done = reader[w].done
        /\ \A v \in Workers \ {w} : reader'[v] = reader[v]
    BY <2>1 DEF TypeOK, Reader
  <2>4. call'[w].pc = "next" /\ \A v \in Workers \ {w} : call'[v] = call[v]
    BY <1>1, GotoPc DEF FetchRows
  <2>5. RowsOf(w)'
    BY <1>0, <2>1, <2>2, <2>3, <2>4 DEF RowsOf, Undisturbed, PlainPeer
  <2> QED BY <2>2, <2>3, <2>4, <2>5, RowsFrame DEF RowsInv
<1>2. CASE FetchEnd(w)
  <2>1. /\ query'[w].left = query[w].left /\ query'[w].pending = 0
        /\ \A v \in Workers \ {w} : query'[v] = query[v]
    BY <1>0, <1>2 DEF FetchEnd, TypeOK, Query
  <2>2. PlainPeer => query[w].left = 0
    BY <1>2 DEF FetchEnd, PlainPeer
  <2> QED BY <1>0, <1>2, <2>1, <2>2, EndOfRowsRows DEF FetchEnd
<1>3. CASE FetchFails(w)
  <2>1. \A v \in Workers \ {w} : reader'[v] = reader[v] /\ query'[v] = query[v] /\ call'[v] = call[v]
    BY FetchEffect
  <2>2. \/ reader'[w].mode = "discard" /\ call'[w].pc = "close"
        \/ reader'[w].err = TRUE /\ call'[w].pc = "idle"
    <3>1. reader \in [Workers -> Reader]
      BY DEF TypeOK
    <3>2. CASE reader[w].mode = "meta"
      <4>1. Goto(w, "close") /\ reader' = [reader EXCEPT ![w].mode = "discard"]
        BY <1>3, <3>2 DEF FetchFails
      <4> QED BY <3>1, <4>1, GotoPc DEF Reader
    <3>3. CASE reader[w].mode # "meta"
      <4>1. Goto(w, "idle") /\ reader' = [reader EXCEPT ![w].err = TRUE]
        BY <1>3, <3>3 DEF FetchFails, Done
      <4> QED BY <3>1, <4>1, GotoPc DEF Reader
    <3> QED BY <3>2, <3>3
  <2>3. RowsOf(w)'
    BY <2>2 DEF RowsOf, Undisturbed
  <2> QED BY <2>1, <2>3, RowsFrame DEF RowsInv
<1> QED BY <1>1, <1>2, <1>3 DEF Fetch

\* Closing a query drops no row of a reader that has not ended.
LEMMA CloseQueryRows ==
    ASSUME NEW w \in Workers, TypeOK, RowsInv, CloseQuery(w)
    PROVE  RowsInv'
<1>1. /\ call[w].pc = "close" /\ call'[w].pc \in {"finish", "autocommit", "idle"}
      /\ \A v \in Workers \ {w} : call'[v] = call[v]
  BY GotoPc DEF CloseQuery
<1>2. \A v \in Workers \ {w} : query'[v] = query[v] /\ reader'[v] = reader[v]
  BY DEF CloseQuery, Forget, QueryClosed, TypeOK
<1>3. RowsOf(w) /\ query[w] \in Query
  BY DEF RowsInv, TypeOK
<1>4. CASE reader[w].mode = "reader"
  <2>1. query'[w].pending = 0 /\ query'[w].left = query[w].left /\ reader' = reader
    BY <1>1, <1>3, <1>4 DEF CloseQuery, QueryClosed, RowsOf, TypeOK, Query
  <2>2. RowsOf(w)'
    BY <1>1, <1>3, <1>4, <2>1 DEF RowsOf, Undisturbed, PlainPeer
  <2> QED BY <1>1, <1>2, <2>2, RowsFrame DEF RowsInv
<1>5. CASE reader[w].mode # "reader"
  <2>1. reader'[w].mode = "none"
    BY <1>5 DEF CloseQuery, Forget, TypeOK, NoReader
  <2>2. RowsOf(w)'
    BY <1>1, <2>1 DEF RowsOf, Undisturbed
  <2> QED BY <1>1, <1>2, <2>2, RowsFrame DEF RowsInv
<1> QED BY <1>4, <1>5

\* Every worker's rows add up in every reachable state.
LEMMA RowsInvariant == Spec => []RowsInv
<1>1. TypeOK /\ RowsInv /\ [Next]_vars => RowsInv'
  <2> SUFFICES ASSUME TypeOK, RowsInv, [Next]_vars PROVE RowsInv'
    OBVIOUS
  <2>1. CASE UNCHANGED <<query, reader, call>>
    BY <2>1, RowsFrameAll
  <2>2. CASE LinkBreaks \/ DropPackage \/ UNCHANGED vars
    BY <2>1, <2>2 DEF LinkBreaks, DropPackage, vars
  <2>3. ASSUME NEW w \in Workers, StartCall(w) PROVE RowsInv'
    BY <2>3, StartCallRows
  <2>4. ASSUME NEW w \in Workers, Step(w) PROVE RowsInv'
    BY <2>4, EnsureNoOpenQueryRows, CommandRows, OpenCursorRows, ReadingRows, FetchedRows,
       CloseQueryRows
    DEF Step
  <2> QED BY <2>2, <2>3, <2>4 DEF Next
<1> QED BY InitRows, TypeCorrect, <1>1, PTL DEF Spec

\* Rows between the server, Query.pending, the reader's buffer and the consumer
\* always add up, for any interleaving, unless the read failed or was cut.
THEOREM RowsAreAccounted == Spec => []RowsAccounted
<1>1. RowsInv => RowsAccounted
  BY DEF RowsInv, RowsOf, Undisturbed, RowsAccounted
<1> QED BY <1>1, RowsInvariant, PTL

\* A reader that ends without an error and whose cursor no other call closed has
\* delivered the whole result, if the peer is plain.
THEOREM ResultIsComplete == Spec => []CompleteUnlessCut
<1>1. RowsInv => CompleteUnlessCut
  BY DEF RowsInv, RowsOf, Undisturbed, CompleteUnlessCut
<1> QED BY <1>1, RowsInvariant, PTL

=============================================================================
