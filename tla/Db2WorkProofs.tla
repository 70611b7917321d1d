---------------------------- MODULE Db2WorkProofs ----------------------------
(***************************************************************************)
(* Proofs about Db2Session with calls serialized, as the ADBC contract     *)
(* asks of the users of a connection: units of work, autocommit and the    *)
(* cursor that CNTQRY needs.                                               *)
(***************************************************************************)
EXTENDS Db2SessionProofs

---------------------------------------------------------------------------
(* One call at a time *)

\* What a control step leaves in `call'.
LEMMA ToFields ==
    ASSUME NEW w \in Workers, NEW where, NEW o, NEW work, TypeOK, To(w, where, o, work)
    PROVE  /\ call'[w].pc = where
           /\ where = "idle" => call'[w] = NoCall /\ call'[w].work = {} /\ call'[w].op = "none"
           /\ where # "idle" => call'[w].op = o /\ call'[w].work = work
           /\ \A v \in Workers \ {w} : call'[v] = call[v]
<1>1. CASE where = "idle"
  BY <1>1 DEF To, TypeOK, NoCall
<1>2. CASE where # "idle"
  BY <1>2 DEF To, TypeOK
<1> QED BY <1>1, <1>2

\* The same, for a step that stays in its operation.
LEMMA GotoFields ==
    ASSUME NEW w \in Workers, NEW where, TypeOK, Goto(w, where)
    PROVE  /\ call'[w].pc = where
           /\ where = "idle" => call'[w] = NoCall /\ call'[w].work = {} /\ call'[w].op = "none"
           /\ where # "idle" => call'[w].op = call[w].op /\ call'[w].work = call[w].work
           /\ \A v \in Workers \ {w} : call'[v] = call[v]
BY ToFields DEF Goto

\* A failing call gives up its row changes to the failed ones.
LEMMA AbortFields ==
    ASSUME NEW w \in Workers, TypeOK, Abort(w)
    PROVE  /\ mu' = NoWorker /\ orphan' = orphan \cup call[w].work
           /\ \/ call'[w] = NoCall
              \/ /\ call[w].op = "closerollback" /\ call'[w].pc = "sock"
                 /\ call'[w].op = call[w].op /\ call'[w].work = call[w].work
           /\ \A v \in Workers \ {w} : call'[v] = call[v]
BY GotoFields DEF Abort

\* A worker that acts is alone: whoever starts a call finds everyone idle, and whoever is in
\* a call is the only one.
LEMMA Alone ==
    ASSUME Serial, WorkInv, NEW w \in Workers,
           call[w].pc # "idle" \/ \A v \in Workers : call[v].pc = "idle"
    PROVE  /\ \A v \in Workers \ {w} : call[v] = NoCall
           /\ WorkOf(w)
           /\ acked \subseteq committed
           /\ ~pkg => uow = {}
           /\ autoCommit => uow \subseteq orphan \cup call[w].work
<1>1. \A v \in Workers \ {w} : call[v].pc = "idle"
  BY DEF WorkInv, OneCall
<1>2. \A v \in Workers \ {w} : call[v] = NoCall
  BY <1>1 DEF WorkInv, WorkOf
<1>3. \A v \in Workers \ {w} : call[v].work = {}
  BY <1>2 DEF NoCall
<1>4. UNION {call[v].work : v \in Workers} \subseteq call[w].work
  BY <1>3
<1> QED BY <1>2, <1>4 DEF WorkInv, Ledger

\* What a step of the only active worker has to show.
LEMMA AloneKeeps ==
    ASSUME NEW w \in Workers,
           \A v \in Workers \ {w} : call'[v] = NoCall,
           WorkOf(w)',
           acked' \subseteq committed',
           ~pkg' => uow' = {},
           autoCommit' => uow' \subseteq orphan' \cup call'[w].work
    PROVE  WorkInv'
<1>1. \A v \in Workers \ {w} : call'[v].pc = "idle" /\ call'[v].work = {} /\ call'[v].op = "none"
  BY DEF NoCall
<1>2. OneCall'
  BY <1>1 DEF OneCall
<1>3. \A v \in Workers : WorkOf(v)'
  BY <1>1 DEF WorkOf
<1>4. call'[w].work \subseteq UNION {call'[v].work : v \in Workers}
  OBVIOUS
<1>5. Ledger'
  BY <1>4 DEF Ledger
<1> QED BY <1>2, <1>3, <1>5 DEF WorkInv

\* A worker that has left its call satisfies its part.
LEMMA IdleWork ==
    ASSUME NEW w \in Workers, call'[w] = NoCall
    PROVE  WorkOf(w)' /\ call'[w].work = {}
BY DEF WorkOf, NoCall

---------------------------------------------------------------------------
(* The steps *)

\* No work and no call on a new connection.
LEMMA InitWork == Init => WorkInv
<1> SUFFICES ASSUME Init PROVE WorkInv
  OBVIOUS
<1>1. \A w \in Workers : call[w] = NoCall /\ call[w].pc = "idle" /\ call[w].work = {}
                         /\ call[w].op = "none"
  BY DEF Init, NoCall
<1>2. OneCall /\ (\A w \in Workers : WorkOf(w)) /\ Ledger
  BY <1>1 DEF Init, OneCall, WorkOf, Ledger
<1> QED BY <1>2 DEF WorkInv

\* A call starts with no work, on a connection nobody else is using.
LEMMA EnterWork ==
    ASSUME NEW w \in Workers, NEW where \in {"idle", "ensure", "sock", "next", "close"},
           NEW o \in Ops \ {"autocommit", "finish"}, TypeOK, Serial, WorkInv,
           Enter(w, where, o), autoCommit' => autoCommit
    PROVE  WorkInv'
<1>1. call[w].pc = "idle" /\ \A v \in Workers : call[v].pc = "idle"
  BY DEF Enter, Idle
<1>2. call[w] = NoCall /\ \A v \in Workers \ {w} : call[v] = NoCall
  BY <1>1 DEF WorkInv, WorkOf
<1>3. call[w].work = {}
  BY <1>2 DEF NoCall
<1>4. /\ call'[w].pc = where /\ call'[w].work = {}
      /\ where = "idle" => call'[w] = NoCall
      /\ call'[w].op \in {o, "none"}
      /\ \A v \in Workers \ {w} : call'[v] = NoCall
  BY <1>2, ToFields DEF Enter
<1>5. UNCHANGED <<link, pkg, uow, committed, acked, orphan>>
  BY DEF Enter, serverVars, history
<1>6. WorkOf(w)'
  BY <1>4 DEF WorkOf
<1>7. acked \subseteq committed /\ (~pkg => uow = {}) /\ (autoCommit => uow \subseteq orphan)
  BY <1>1, <1>3, Alone
<1> QED BY <1>4, <1>5, <1>6, <1>7, AloneKeeps

\* Starting any API call.
LEMMA StartCallWork ==
    ASSUME NEW w \in Workers, TypeOK, Serial, WorkInv, StartCall(w)
    PROVE  WorkInv'
<1> USE DEF Ops, SqlOps, OpenOps, PrepOps, CommitOps, UndoOps
<1>1. ASSUME NEW o \in Ops \ {"autocommit", "finish"}, Call(w, o) PROVE WorkInv'
  BY <1>1, EnterWork DEF Call
<1>2. CASE DisableAutoCommit(w) \/ CloseConnection(w) \/ ReaderNext(w) \/ ReaderRelease(w)
  BY <1>2, EnterWork DEF DisableAutoCommit, CloseConnection, ReaderNext, ReaderRelease
<1> QED
  BY <1>1, <1>2
  DEF StartCall, Execute, ExecuteQuery, ExecuteBoundQuery, QueryAll, ExecuteUpdate,
      ExecuteBoundUpdate, ExecuteSchema, SetSessionOption, Commit, Rollback, EnableAutoCommit

\* Steps that touch no unit of work and stay in the call, with their work kept only where
\* WorkOf lets it be.
LEMMA MoveWork ==
    ASSUME NEW w \in Workers, TypeOK, Serial, WorkInv,
           call[w].pc # "idle",
           \A v \in Workers \ {w} : call'[v] = call[v],
           UNCHANGED <<link, autoCommit, uow, committed, acked>>,
           orphan \subseteq orphan',
           pkg' = pkg,
           WorkOf(w)',
           autoCommit => call[w].work \subseteq orphan' \cup call'[w].work
    PROVE  WorkInv'
<1>1. /\ \A v \in Workers \ {w} : call[v] = NoCall
      /\ acked \subseteq committed
      /\ ~pkg => uow = {}
      /\ autoCommit => uow \subseteq orphan \cup call[w].work
  BY Alone
<1>2. \A v \in Workers \ {w} : call'[v] = NoCall
  BY <1>1
<1>3. autoCommit' => uow' \subseteq orphan' \cup call'[w].work
  BY <1>1
<1> QED BY <1>1, <1>2, <1>3, AloneKeeps

\* A step that only fails the call.
LEMMA AbortWork ==
    ASSUME NEW w \in Workers, TypeOK, Serial, WorkInv, Abort(w),
           call[w].pc \in {"ensure", "cmd", "bind"},
           UNCHANGED <<link, autoCommit, uow, committed, acked, pkg>>
    PROVE  WorkInv'
<1>1. WorkOf(w)
  BY DEF WorkInv
<1>2. /\ orphan' = orphan \cup call[w].work
      /\ \/ call'[w] = NoCall
         \/ /\ call[w].op = "closerollback" /\ call'[w].pc = "sock"
            /\ call'[w].op = call[w].op /\ call'[w].work = call[w].work
      /\ \A v \in Workers \ {w} : call'[v] = call[v]
  BY AbortFields
<1>3. WorkOf(w)'
  <2>1. CASE call'[w] = NoCall
    BY <2>1, IdleWork
  <2>2. CASE /\ call[w].op = "closerollback" /\ call'[w].pc = "sock"
             /\ call'[w].op = call[w].op /\ call'[w].work = call[w].work
    <3>1. call[w].work = {}
      BY <1>1, <2>2 DEF WorkOf
    <3> QED BY <1>1, <2>2, <3>1 DEF WorkOf
  <2> QED BY <1>2, <2>1, <2>2
<1> QED BY <1>2, <1>3, MoveWork

\* Waiting for the lock, losing the link, and finding the package missing.
LEMMA WaitWork ==
    ASSUME NEW w \in Workers, TypeOK, Serial, WorkInv,
           \/ EnsureNoOpenQuery(w) \/ CommandLinkDown(w) \/ PackageMissing(w) \/ OpenUndecodable(w)
    PROVE  WorkInv'
<1>0. call[w].pc \in {"ensure", "cmd"} /\ UNCHANGED <<link, autoCommit, uow, committed, acked, pkg>>
  BY DEF EnsureNoOpenQuery, CommandLinkDown, PackageMissing, OpenUndecodable, Holding, serverVars
<1>1. CASE Abort(w)
  BY <1>0, <1>1, AbortWork
<1>2. CASE EnsureNoOpenQuery(w) /\ Goto(w, "cmd") /\ UNCHANGED orphan
  <2>1. /\ call[w].pc = "ensure" /\ call'[w].pc = "cmd"
        /\ call'[w].op = call[w].op /\ call'[w].work = call[w].work
        /\ \A v \in Workers \ {w} : call'[v] = call[v]
    BY <1>2, GotoFields DEF EnsureNoOpenQuery
  <2>2. WorkOf(w)
    BY DEF WorkInv
  <2>3. WorkOf(w)'
    BY <1>0, <2>1, <2>2 DEF WorkOf
  <2> QED BY <1>0, <1>2, <2>1, <2>3, MoveWork
<1>3. CASE PackageMissing(w) /\ call[w].op \in BindOps /\ Goto(w, "bind") /\ UNCHANGED orphan
  <2>1. /\ call[w].pc = "cmd" /\ ~pkg /\ call'[w].pc = "bind"
        /\ call'[w].op = call[w].op /\ call'[w].work = call[w].work
        /\ \A v \in Workers \ {w} : call'[v] = call[v]
    BY <1>3, GotoFields DEF PackageMissing, Holding, IsOurPackageNotFound
  <2>2. WorkOf(w)
    BY DEF WorkInv
  <2>3. call[w].work = {}
    BY <1>3, <2>1, <2>2 DEF WorkOf, BindOps, PrepOps
  <2>4. WorkOf(w)'
    BY <1>0, <2>1, <2>2, <2>3 DEF WorkOf
  <2> QED BY <1>0, <1>3, <2>1, <2>3, <2>4, MoveWork
<1> QED
  BY <1>1, <1>2, <1>3
  DEF EnsureNoOpenQuery, CommandLinkDown, PackageMissing, OpenUndecodable

\* Binding commits a unit of work that is empty.
LEMMA BindWork ==
    ASSUME NEW w \in Workers, TypeOK, Serial, WorkInv, BindPackage(w)
    PROVE  WorkInv' /\ committed' = committed
<1>1. call[w].pc = "bind" /\ UNCHANGED <<link, autoCommit, acked>>
  BY DEF BindPackage
<1>2. /\ \A v \in Workers \ {w} : call[v] = NoCall
      /\ WorkOf(w) /\ acked \subseteq committed /\ (~pkg => uow = {})
  BY <1>1, Alone
<1>3. uow = {} /\ call[w].work = {}
  BY <1>1, <1>2 DEF WorkOf
<1>4. CASE Abort(w) /\ UNCHANGED <<pkg, uow, committed>>
  BY <1>1, <1>4, AbortWork
<1>5. CASE Goto(w, "cmd") /\ pkg' = TRUE /\ committed' = committed \cup uow /\ uow' = {}
           /\ UNCHANGED <<mu, orphan>>
  <2>1. /\ call'[w].pc = "cmd" /\ call'[w].op = call[w].op /\ call'[w].work = {}
        /\ \A v \in Workers \ {w} : call'[v] = NoCall
    BY <1>2, <1>3, <1>5, GotoFields
  <2>2. WorkOf(w)'
    BY <1>1, <1>2, <2>1 DEF WorkOf
  <2>3. WorkInv'
    BY <1>1, <1>2, <1>5, <2>1, <2>2, AloneKeeps
  <2> QED BY <1>3, <1>5, <2>3
<1> QED BY <1>4, <1>5 DEF BindPackage

\* Row changes join the unit of work and the call that made them.
LEMMA ChangesWork ==
    ASSUME NEW w \in Workers, TypeOK, Serial, WorkInv, ExecuteStatement(w) \/ ExecBatch(w)
    PROVE  WorkInv'
<1>1. /\ call[w].pc = "cmd" /\ pkg
      /\ UNCHANGED <<link, autoCommit, pkg, committed, acked, orphan>>
      /\ call[w].op \in {"update", "set", "query", "batch"}
  BY DEF ExecuteStatement, ExecBatch, Holding
<1>2. PICK n \in Nat, where \in {"ensure", "autocommit"} :
        WorkDone(w, n, where) /\ (where = "ensure" => call[w].op = "batch")
  <2>1. CASE ExecuteStatement(w)
    BY <2>1 DEF ExecuteStatement
  <2>2. CASE ExecBatch(w)
    BY <2>2, SessionAssumption DEF SessionAssumption, ExecBatch, TypeOK
  <2> QED BY <2>1, <2>2
<1>3. /\ \A v \in Workers \ {w} : call[v] = NoCall
      /\ WorkOf(w) /\ acked \subseteq committed
      /\ autoCommit => uow \subseteq orphan \cup call[w].work
  BY <1>1, Alone
<1>4. /\ call'[w].pc = where /\ call'[w].op = call[w].op
      /\ call'[w].work = call[w].work \cup NewWork(n) /\ uow' = uow \cup NewWork(n)
      /\ \A v \in Workers \ {w} : call'[v] = NoCall
  BY <1>2, <1>3, ToFields DEF WorkDone
<1>5. link' => call'[w].work \subseteq uow' \cup committed'
  BY <1>1, <1>3, <1>4 DEF WorkOf
<1>6. WorkOf(w)'
  BY <1>1, <1>2, <1>3, <1>4, <1>5 DEF WorkOf
<1>7. autoCommit' => uow' \subseteq orphan' \cup call'[w].work
  BY <1>1, <1>3, <1>4
<1> QED BY <1>1, <1>3, <1>4, <1>6, <1>7, AloneKeeps

\* A refused statement leaves its changes to the failed ones, or has them rolled back.
LEMMA StatementFailsWork ==
    ASSUME NEW w \in Workers, TypeOK, Serial, WorkInv, StatementFails(w)
    PROVE  WorkInv'
<1>1. /\ call[w].pc = "cmd" /\ pkg /\ UNCHANGED <<link, autoCommit, pkg, committed, acked>>
  BY DEF StatementFails, Holding
<1>2. /\ \A v \in Workers \ {w} : call[v] = NoCall
      /\ acked \subseteq committed
      /\ autoCommit => uow \subseteq orphan \cup call[w].work
  BY <1>1, Alone
<1>3. CASE /\ ServerDropsUow \/ UNCHANGED <<uow, cursor>>
           /\ Done(w)
           /\ orphan' = orphan \cup call[w].work
           /\ UNCHANGED made
  <2>1. call'[w] = NoCall /\ \A v \in Workers \ {w} : call'[v] = NoCall
    BY <1>2, <1>3, GotoFields DEF Done
  <2>2. uow' \in {uow, {}}
    BY <1>3 DEF ServerDropsUow
  <2> QED BY <1>1, <1>2, <1>3, <2>1, <2>2, IdleWork, AloneKeeps
<1>4. CASE \E n \in 1..(MaxWork - made) :
                /\ WorkDone(w, n, "idle")
                /\ orphan' = orphan \cup call[w].work \cup NewWork(n)
  <2>1. PICK n : WorkDone(w, n, "idle") /\ orphan' = orphan \cup call[w].work \cup NewWork(n)
    BY <1>4
  <2>2. /\ call'[w] = NoCall /\ uow' = uow \cup NewWork(n)
        /\ \A v \in Workers \ {w} : call'[v] = NoCall
    BY <1>2, <2>1, ToFields DEF WorkDone
  <2> QED BY <1>1, <1>2, <2>1, <2>2, IdleWork, AloneKeeps
<1> QED BY <1>3, <1>4 DEF StatementFails

\* Opening and describing make no row changes.
LEMMA OpenWork ==
    ASSUME NEW w \in Workers, TypeOK, Serial, WorkInv, OpenCursor(w) \/ Describe(w)
    PROVE  WorkInv'
<1>1. /\ call[w].pc = "cmd" /\ call[w].op \in OpenOps \cup PrepOps
      /\ UNCHANGED <<link, autoCommit, pkg, uow, committed, acked, orphan>>
  BY DEF OpenCursor, Describe, Holding, history
<1>2. WorkOf(w)
  BY DEF WorkInv
<1>3. call[w].work = {}
  BY <1>1, <1>2 DEF WorkOf, OpenOps, PrepOps
<1>4. /\ call'[w].pc \in {"idle", "ensure", "close", "next", "autocommit"} /\ call'[w].work = {}
      /\ call'[w].pc = "idle" => call'[w] = NoCall
      /\ call'[w].op \in OpenOps \cup PrepOps \cup {"batch", "none"}
      /\ \A v \in Workers \ {w} : call'[v] = call[v]
  <2>1. CASE OpenCursor(w)
    BY <1>1, <1>3, <2>1, GotoFields DEF OpenCursor, Return
  <2>2. CASE Describe(w)
    BY <1>1, <1>3, <2>2, GotoFields, ToFields DEF Describe, Done, OpenOps, PrepOps
  <2> QED BY <2>1, <2>2
<1>5. WorkOf(w)'
  BY <1>4 DEF WorkOf, OpenOps, PrepOps
<1> QED BY <1>1, <1>3, <1>4, <1>5, MoveWork

\* A commit makes durable what the call it belongs to has done.
LEMMA SendCommitWork ==
    ASSUME NEW w \in Workers, TypeOK, Serial, WorkInv, SendCommit(w)
    PROVE  WorkInv'
<1>1. call[w].pc = "cmd" /\ link /\ call[w].op \in CommitOps /\ UNCHANGED <<autoCommit, pkg>>
      /\ uow' = {}
  BY DEF SendCommit, Holding
<1>2. /\ \A v \in Workers \ {w} : call[v] = NoCall
      /\ WorkOf(w) /\ acked \subseteq committed
  BY <1>1, Alone
<1>3. PICK reply \in CommitReplies :
        /\ committed' = IF reply = "refused" THEN committed ELSE committed \cup uow
        /\ IF CommitSucceeds(reply)
           THEN /\ Return(w, IF call[w].op = "enable" THEN "flag" ELSE "idle")
                /\ acked' = IF call[w].op = "autocommit" THEN acked \cup call[w].work ELSE acked
                /\ UNCHANGED orphan
           ELSE Abort(w) /\ UNCHANGED acked
  BY DEF SendCommit
<1>4. CASE CommitSucceeds(reply)
  <2>1. committed' = committed \cup uow
    BY <1>3, <1>4 DEF CommitSucceeds
  <2>2. acked' \subseteq committed'
    BY <1>1, <1>2, <1>3, <1>4, <2>1 DEF WorkOf
  <2>3. /\ \A v \in Workers \ {w} : call'[v] = NoCall
        /\ call[w].op # "enable" => call'[w] = NoCall
        /\ call[w].op = "enable" => /\ call'[w].pc = "flag" /\ call'[w].op = "enable"
                                    /\ call'[w].work = call[w].work
    BY <1>2, <1>3, <1>4, GotoFields DEF Return
  <2>4. WorkOf(w)'
    <3>1. CASE call[w].op # "enable"
      BY <2>3, <3>1, IdleWork
    <3>2. CASE call[w].op = "enable"
      <4>1. call[w].work = {}
        BY <1>1, <1>2, <3>2 DEF WorkOf
      <4> QED BY <1>1, <2>3, <3>2, <4>1 DEF WorkOf
    <3> QED BY <3>1, <3>2
  <2> QED BY <1>1, <2>2, <2>3, <2>4, AloneKeeps
<1>5. CASE ~CommitSucceeds(reply)
  <2>1. call'[w] = NoCall /\ \A v \in Workers \ {w} : call'[v] = NoCall
    BY <1>1, <1>2, <1>3, <1>5, AbortFields DEF CommitOps
  <2>2. acked' \subseteq committed'
    BY <1>2, <1>3, <1>5
  <2> QED BY <1>1, <2>1, <2>2, IdleWork, AloneKeeps
<1> QED BY <1>4, <1>5

\* A rollback, and the end of the socket, empty the unit of work.
LEMMA DropWork ==
    ASSUME NEW w \in Workers, TypeOK, Serial, WorkInv, SendRollback(w) \/ CloseSocket(w)
    PROVE  WorkInv'
<1>1. /\ uow' = {} /\ UNCHANGED <<autoCommit, pkg, committed, acked, orphan>>
      /\ \/ call[w].pc = "cmd" /\ call[w].op \in UndoOps
         \/ call[w].pc = "sock"
  BY DEF SendRollback, CloseSocket, ServerDropsUow, Holding, connVars, history
<1>2. /\ \A v \in Workers \ {w} : call[v] = NoCall
      /\ WorkOf(w) /\ acked \subseteq committed
  BY <1>1, Alone
<1>3. /\ \A v \in Workers \ {w} : call'[v] = NoCall
      /\ \/ call'[w] = NoCall
         \/ /\ call[w].op \in UndoOps /\ call[w].pc = "cmd"
            /\ call'[w].pc = "sock" /\ call'[w].op = call[w].op /\ call'[w].work = call[w].work
  BY <1>2, GotoFields DEF SendRollback, CloseSocket, Return, Done, Holding
<1>4. WorkOf(w)'
  <2>1. CASE call'[w] = NoCall
    BY <2>1, IdleWork
  <2>2. CASE /\ call[w].op \in UndoOps /\ call[w].pc = "cmd"
             /\ call'[w].pc = "sock" /\ call'[w].op = call[w].op /\ call'[w].work = call[w].work
    <3>1. call[w].work = {}
      BY <1>2, <2>2 DEF WorkOf, UndoOps
    <3> QED BY <2>2, <3>1 DEF WorkOf, UndoOps
  <2> QED BY <1>3, <2>1, <2>2
<1> QED BY <1>1, <1>2, <1>3, <1>4, AloneKeeps

\* The steps of a reader make no row changes; a failing fetch may roll the others back.
LEMMA ReadWork ==
    ASSUME NEW w \in Workers, TypeOK, Serial, WorkInv,
           call[w].pc \in {"next", "take", "fetch", "batch", "close"},
           NEW where \in {"idle", "next", "take", "fetch", "batch", "close", "finish", "autocommit"},
           Goto(w, where),
           uow' \in {uow, {}},
           UNCHANGED <<autoCommit, link, pkg, committed, acked, orphan>>
    PROVE  WorkInv'
<1>1. /\ \A v \in Workers \ {w} : call[v] = NoCall
      /\ WorkOf(w) /\ acked \subseteq committed /\ (~pkg => uow = {})
      /\ autoCommit => uow \subseteq orphan \cup call[w].work
  BY Alone
<1>2. call[w].work = {}
  BY <1>1 DEF WorkOf
<1>3. /\ call'[w].pc = where /\ call'[w].work = {} /\ call'[w].op \in {call[w].op, "none"}
      /\ where = "idle" => call'[w] = NoCall
      /\ \A v \in Workers \ {w} : call'[v] = NoCall
  BY <1>1, <1>2, GotoFields
<1>4. WorkOf(w)'
  BY <1>1, <1>3 DEF WorkOf
<1> QED BY <1>1, <1>2, <1>3, <1>4, AloneKeeps

\* Reading, delivering and closing, one by one.
LEMMA ReaderWork ==
    ASSUME NEW w \in Workers, TypeOK, Serial, WorkInv,
           \/ StopTaking(w) \/ QueryNext(w) \/ TakePending(w) \/ Fetch(w) \/ Deliver(w)
           \/ CloseQuery(w)
    PROVE  WorkInv'
<1> DEFINE Where == {"idle", "next", "take", "fetch", "batch", "close", "finish", "autocommit"}
<1>1. CASE Fetch(w)
  <2>1. uow' \in {uow, {}} /\ call[w].pc = "fetch"
        /\ UNCHANGED <<autoCommit, link, pkg, committed, acked, orphan>>
    BY <1>1 DEF Fetch, FetchRows, FetchEnd, FetchFails, connVars, history
  <2>2. \E where \in Where : Goto(w, where)
    BY <1>1 DEF Fetch, FetchRows, FetchEnd, FetchFails, EndOfRows, Done
  <2> QED BY <2>1, <2>2, ReadWork
<1>2. CASE CloseQuery(w)
  <2>1. call[w].pc = "close" /\ UNCHANGED <<uow, autoCommit, link, pkg, committed, acked, orphan>>
    BY <1>2 DEF CloseQuery, history
  <2>2. \E where \in Where : Goto(w, where)
    BY <1>2 DEF CloseQuery
  <2> QED BY <2>1, <2>2, ReadWork
<1>3. CASE StopTaking(w) \/ QueryNext(w) \/ TakePending(w) \/ Deliver(w)
  <2>1. call[w].pc \in {"next", "take", "batch"}
        /\ UNCHANGED <<uow, autoCommit, link, pkg, committed, acked, orphan>>
    BY <1>3 DEF StopTaking, QueryNext, TakePending, Deliver, LocalStep, connVars, serverVars, history
  <2>2. \E where \in Where : Goto(w, where)
    BY <1>3 DEF StopTaking, QueryNext, TakePending, Deliver, EndOfRows, Done
  <2> QED BY <2>1, <2>2, ReadWork
<1> QED BY <1>1, <1>2, <1>3

\* What the driver does after a command: it commits if autocommit is on, or returns.
LEMMA AfterWork ==
    ASSUME NEW w \in Workers, TypeOK, Serial, WorkInv,
           AutoCommitIfNeeded(w) \/ QueryFinished(w) \/ SetAutoCommitFlag(w)
    PROVE  WorkInv'
<1>0. WorkOf(w)
  BY DEF WorkInv
<1>1. CASE AutoCommitIfNeeded(w) \/ QueryFinished(w)
  <2>1. call[w].pc \in {"autocommit", "finish"}
        /\ UNCHANGED <<uow, autoCommit, link, pkg, committed, acked, orphan>>
    BY <1>1 DEF AutoCommitIfNeeded, QueryFinished, Continue, connVars, serverVars, history
  <2>2. PICK o \in {"autocommit", "finish", "none"} :
          /\ To(w, IF o = "none" THEN "idle" ELSE "ensure", o, call[w].work)
          /\ o = "none" <=> ~autoCommit
          /\ o = "finish" => call[w].pc = "finish"
    BY <1>1, <2>1 DEF AutoCommitIfNeeded, QueryFinished, Continue, CommitsAfterStatement, TypeOK
  <2>3. /\ \A v \in Workers \ {w} : call'[v] = call[v]
        /\ o = "none" => call'[w] = NoCall
        /\ o # "none" => call'[w].pc = "ensure" /\ call'[w].op = o /\ call'[w].work = call[w].work
    BY <2>2, ToFields
  <2>4. WorkOf(w)'
    <3>1. CASE o = "none"
      BY <2>3, <3>1, IdleWork
    <3>2. CASE o # "none"
      BY <1>0, <2>1, <2>2, <2>3, <3>2 DEF WorkOf
    <3> QED BY <3>1, <3>2
  <2>5. autoCommit => call[w].work \subseteq orphan' \cup call'[w].work
    BY <2>2, <2>3
  <2> QED BY <2>1, <2>3, <2>4, <2>5, MoveWork
<1>2. CASE SetAutoCommitFlag(w)
  <2>1. call[w].pc = "flag" /\ UNCHANGED <<uow, link, pkg, committed, acked, orphan>>
    BY <1>2 DEF SetAutoCommitFlag, serverVars, history
  <2>2. uow = {} /\ acked \subseteq committed /\ \A v \in Workers \ {w} : call[v] = NoCall
    BY <1>0, <2>1, Alone DEF WorkOf
  <2>3. call'[w] = NoCall /\ \A v \in Workers \ {w} : call'[v] = NoCall
    BY <1>2, <2>2, GotoFields DEF SetAutoCommitFlag, Done
  <2> QED BY <2>1, <2>2, <2>3, IdleWork, AloneKeeps
<1> QED BY <1>1, <1>2

\* A lost link drops the unit of work; a package is dropped only with no work pending.
LEMMA EnvironmentWork ==
    ASSUME TypeOK, WorkInv, LinkBreaks \/ DropPackage \/ UNCHANGED vars
    PROVE  WorkInv'
<1> SUFFICES ASSUME Serial PROVE WorkInv'
  BY DEF WorkInv
<1>1. /\ UNCHANGED <<call, autoCommit, committed, acked, orphan>>
      /\ uow' \in {uow, {}} /\ (link' => link /\ uow' = uow)
      /\ \/ pkg' = pkg
         \/ pkg /\ ~pkg' /\ uow' = {}
  BY DEF LinkBreaks, DropPackage, ServerDropsUow, vars, connVars, serverVars, history
<1>2. OneCall'
  BY <1>1 DEF WorkInv, OneCall
<1>3. ASSUME NEW w \in Workers PROVE WorkOf(w)'
  BY <1>1 DEF WorkInv, WorkOf
<1>4. Ledger'
  BY <1>1 DEF WorkInv, Ledger
<1> QED BY <1>2, <1>3, <1>4 DEF WorkInv

\* A serialized connection keeps its books.
LEMMA WorkInvariant == Spec => []WorkInv
<1>1. TypeOK /\ WorkInv /\ [Next]_vars => WorkInv'
  <2> SUFFICES ASSUME TypeOK, WorkInv, [Next]_vars, Serial PROVE WorkInv'
    BY DEF WorkInv
  <2>1. ASSUME NEW w \in Workers, Step(w) PROVE WorkInv'
    BY <2>1, WaitWork, BindWork, ChangesWork, StatementFailsWork, OpenWork, SendCommitWork,
       DropWork, ReaderWork, AfterWork
    DEF Step
  <2> QED BY <2>1, StartCallWork, EnvironmentWork DEF Next
<1> QED BY <1>1, InitWork, TypeCorrect, PTL DEF Spec

---------------------------------------------------------------------------
(* What follows for the unit of work *)

\* Changes whose autocommitted call returned success are durable.
THEOREM AcknowledgedIsDurable == Spec => []AckedDurable
<1>1. WorkInv => AckedDurable
  BY DEF WorkInv, Ledger, AckedDurable
<1> QED BY <1>1, WorkInvariant, PTL

\* Under autocommit a quiet connection has nothing uncommitted but what failed calls left.
THEOREM NothingLeftUncommitted == Spec => []AutoCommitLeavesOnlyFailures
<1>1. WorkInv => AutoCommitLeavesOnlyFailures
  <2> SUFFICES ASSUME WorkInv, Serial, autoCommit, \A w \in Workers : call[w].pc = "idle"
               PROVE  uow \subseteq orphan
    BY DEF AutoCommitLeavesOnlyFailures
  <2>1. \A w \in Workers : call[w].work = {}
    BY DEF WorkInv, WorkOf, NoCall
  <2> QED BY <2>1 DEF WorkInv, Ledger
<1> QED BY <1>1, WorkInvariant, PTL

\* Without autocommit nothing becomes durable but by Commit or by turning autocommit on:
\* not by a reader that ends, a metadata call or a package bind.
THEOREM OnlyCommitCommits == Spec => ManualCommitOnly
<1>1. TypeOK /\ WorkInv /\ [Next]_vars
        => [(Serial /\ ~autoCommit /\ committed' # committed) =>
               \E w \in Workers : call[w].pc = "cmd" /\ call[w].op \in {"commit", "enable"}]_vars
  <2> SUFFICES ASSUME TypeOK, WorkInv, Next, Serial, ~autoCommit, committed' # committed
               PROVE  \E w \in Workers : call[w].pc = "cmd" /\ call[w].op \in {"commit", "enable"}
    OBVIOUS
  <2>1. ASSUME NEW w \in Workers, StartCall(w) PROVE FALSE
    BY <2>1
    DEF StartCall, Execute, ExecuteQuery, ExecuteBoundQuery, QueryAll, ExecuteUpdate,
        ExecuteBoundUpdate, ExecuteSchema, SetSessionOption, Commit, Rollback, EnableAutoCommit,
        Call, DisableAutoCommit, CloseConnection, ReaderNext, ReaderRelease, Enter, serverVars
  <2>2. PICK w \in Workers : Step(w)
    BY <2>1 DEF Next, LinkBreaks, DropPackage
  <2>3. ~BindPackage(w)
    BY BindWork
  <2>4. SendCommit(w)
    BY <2>2, <2>3
    DEF Step, EnsureNoOpenQuery, CommandLinkDown, PackageMissing, StatementFails, OpenCursor,
        OpenUndecodable, ExecuteStatement, Describe, ExecBatch, SendRollback, AutoCommitIfNeeded,
        QueryFinished, Continue, SetAutoCommitFlag, CloseSocket, StopTaking, QueryNext, TakePending,
        Fetch, Deliver, CloseQuery, LocalStep, serverVars
  <2>5. call[w].pc = "cmd" /\ call[w].op \in CommitOps /\ WorkOf(w)
    BY <2>4 DEF SendCommit, Holding, WorkInv
  <2> QED BY <2>5 DEF WorkOf, CommitOps
<1> QED BY <1>1, WorkInvariant, TypeCorrect, PTL DEF Spec, ManualCommitOnly

---------------------------------------------------------------------------
(* The cursor that CNTQRY needs *)

\* Steps that change no query and send no worker to fetch.
LEMMA StillLive ==
    ASSUME LiveInv, UNCHANGED <<query, cursor, openQuery>>, link' => link,
           \A v \in Workers : call'[v].pc = "fetch" => call[v].pc = "fetch"
    PROVE  LiveInv'
BY DEF LiveInv, LiveQuery

\* While somebody holds the lock no query is live, so a command may close the cursor.
LEMMA LockedLive ==
    ASSUME NEW w \in Workers, CursorInv, LiveInv, call[w].pc \in Locked,
           query' = query, link' => link,
           \A v \in Workers \ {w} : call'[v] = call[v],
           call'[w].pc # "fetch"
    PROVE  LiveInv'
<1>1. openQuery = NoWorker
  BY SessionAssumption DEF SessionAssumption, CursorInv, MutexHeld, OpenQueryCleared
<1>2. Serial => \A v \in Workers : ~(LiveQuery(v) /\ link)
  BY <1>1, SessionAssumption DEF SessionAssumption, LiveInv
<1> QED BY <1>2 DEF LiveInv, LiveQuery

\* Commands other than opening a cursor.
LEMMA CommandLive ==
    ASSUME NEW w \in Workers, TypeOK, CursorInv, LiveInv,
           \/ CommandLinkDown(w) \/ PackageMissing(w) \/ BindPackage(w) \/ StatementFails(w)
           \/ OpenUndecodable(w) \/ ExecuteStatement(w) \/ Describe(w) \/ ExecBatch(w)
           \/ SendCommit(w) \/ SendRollback(w)
    PROVE  LiveInv'
<1>1. call[w].pc \in Locked /\ query' = query /\ (link' => link)
  BY DEF CommandLinkDown, PackageMissing, BindPackage, StatementFails, OpenUndecodable,
     ExecuteStatement, Describe, ExecBatch, SendCommit, SendRollback, Holding, Locked, serverVars
<1>2. call'[w].pc # "fetch" /\ \A v \in Workers \ {w} : call'[v] = call[v]
  <2>1. CASE CommandLinkDown(w) \/ PackageMissing(w) \/ BindPackage(w) \/ OpenUndecodable(w)
    BY <2>1, AbortPc, GotoPc DEF CommandLinkDown, PackageMissing, BindPackage, OpenUndecodable
  <2>2. CASE StatementFails(w) \/ ExecuteStatement(w) \/ ExecBatch(w)
    <3>1. call'[w].pc \in {"idle", "ensure", "autocommit"}
          /\ \A v \in Workers \ {w} : call'[v] = call[v]
      BY <2>2, GotoPc, ToPc DEF StatementFails, ExecuteStatement, ExecBatch, WorkDone, Done
    <3> QED BY <3>1
  <2>3. CASE Describe(w)
    BY <2>3, GotoPc, ToPc DEF Describe, Done
  <2>4. CASE SendCommit(w) \/ SendRollback(w)
    BY <2>4, AbortPc, GotoPc DEF SendCommit, SendRollback, Return
  <2> QED BY <2>1, <2>2, <2>3, <2>4
<1> QED BY <1>1, <1>2, LockedLive

\* A query that is opened is the server's cursor, unless its first block ended it.
LEMMA OpenCursorLive ==
    ASSUME NEW w \in Workers, TypeOK, CursorInv, LiveInv, OpenCursor(w)
    PROVE  LiveInv'
<1>1. call[w].pc = "cmd" /\ mu = w /\ link' = link /\ openQuery' = w
  BY DEF OpenCursor, Holding
<1>2. openQuery = NoWorker
  BY <1>1, SessionAssumption DEF SessionAssumption, CursorInv, OpenQueryCleared
<1>3. Serial => \A v \in Workers : ~(LiveQuery(v) /\ link)
  BY <1>2, SessionAssumption DEF SessionAssumption, LiveInv
<1>4. PICK ended \in BOOLEAN :
        /\ query'[w].done = ended
        /\ cursor' = IF ended THEN NoWorker ELSE w
        /\ \A v \in Workers \ {w} : query'[v] = query[v]
  BY DEF OpenCursor, TypeOK
<1>5. call'[w].pc # "fetch" /\ \A v \in Workers \ {w} : call'[v] = call[v]
  BY GotoPc DEF OpenCursor, Return
<1> QED BY <1>1, <1>3, <1>4, <1>5 DEF LiveInv, LiveQuery

\* Afterwards no query is live.
LEMMA EnsureLive ==
    ASSUME NEW w \in Workers, TypeOK, Serial, WorkInv, LiveInv, EnsureNoOpenQuery(w)
    PROVE  LiveInv'
<1>1. call[w].pc = "ensure" /\ link' = link
  BY DEF EnsureNoOpenQuery
<1>2. call'[w].pc # "fetch" /\ \A v \in Workers \ {w} : call'[v].pc = "idle"
  <2>1. \A v \in Workers \ {w} : call[v].pc = "idle"
    BY <1>1, Alone DEF NoCall
  <2> QED BY <2>1, AbortPc, GotoPc DEF EnsureNoOpenQuery
<1>3. ASSUME NEW v \in Workers, link, LiveQuery(v)' PROVE FALSE
  <2>1. CASE NeedsClose
    <3>1. PICK x \in Workers : x = openQuery
      BY <2>1 DEF NeedsClose, TypeOK, WorkerOrNil
    <3>2. query'[x].closed /\ \A u \in Workers \ {x} : query'[u] = query[u]
      BY <2>1, <3>1 DEF EnsureNoOpenQuery, QueryClosed, TypeOK, Query
    <3> QED BY <1>3, <3>1, <3>2 DEF LiveInv, LiveQuery
  <2>2. CASE ~NeedsClose
    <3>1. query' = query
      BY <2>2 DEF EnsureNoOpenQuery
    <3>2. LiveQuery(v) /\ openQuery = v
      BY <1>3, <3>1 DEF LiveInv, LiveQuery
    <3> QED BY <2>2, <3>2, SessionAssumption DEF SessionAssumption, NeedsClose, LiveQuery
  <2> QED BY <2>1, <2>2
<1> QED BY <1>1, <1>2, <1>3 DEF LiveInv

\* Query.Next goes on to fetch only with a live query.
LEMMA NextLive ==
    ASSUME NEW w \in Workers, TypeOK, LiveInv,
           StopTaking(w) \/ QueryNext(w) \/ TakePending(w) \/ Deliver(w)
    PROVE  LiveInv'
<1>1. UNCHANGED <<link, cursor, openQuery>>
      /\ \A v \in Workers : LiveQuery(v)' <=> LiveQuery(v)
  BY DEF StopTaking, QueryNext, TakePending, Taken, Deliver, LocalStep, connVars, serverVars,
     LiveQuery, TypeOK, Query
<1>2. call'[w].pc = "fetch" => LiveQuery(w)
  <2>1. CASE QueryNext(w)
    <3>1. CASE Exhausted(w) /\ EndOfRows(w)
      BY <3>1, EndOfRowsEffect
    <3>2. CASE ~Exhausted(w) /\ Goto(w, IF query[w].pending > 0 THEN "take" ELSE "fetch")
      <4>1. query[w].pending \in Nat
        BY SessionAssumption DEF SessionAssumption, TypeOK, Query
      <4> QED BY <3>2, <4>1, GotoPc DEF Exhausted, LiveQuery
    <3> QED BY <2>1, <3>1, <3>2 DEF QueryNext
  <2>2. CASE StopTaking(w) \/ TakePending(w) \/ Deliver(w)
    BY <2>2, GotoPc, EndOfRowsEffect DEF StopTaking, TakePending, Deliver, Done
  <2> QED BY <2>1, <2>2
<1>3. \A v \in Workers \ {w} : call'[v] = call[v]
  BY GotoPc, EndOfRowsEffect DEF StopTaking, QueryNext, TakePending, Deliver, Done
<1> QED BY <1>1, <1>2, <1>3 DEF LiveInv

\* A fetch leaves its query live only if the cursor is still open.
LEMMA FetchLive ==
    ASSUME NEW w \in Workers, TypeOK, Serial, WorkInv, LiveInv, Fetch(w)
    PROVE  LiveInv'
<1>1. call[w].pc = "fetch" /\ UNCHANGED <<link, openQuery>>
  BY DEF Fetch, connVars
<1>2. LiveQuery(w) /\ (link => cursor = w /\ openQuery = w)
  BY <1>1 DEF LiveInv
<1>3. \A v \in Workers \ {w} : query'[v] = query[v] /\ call'[v].pc = "idle"
  <2>1. \A v \in Workers \ {w} : call[v].pc = "idle"
    BY <1>1, Alone DEF NoCall
  <2> QED BY <2>1, FetchEffect
<1>4. call'[w].pc # "fetch"
  BY FetchEffect
<1>5. link /\ LiveQuery(w)' => cursor' = w
  <2>1. CASE FetchRows(w)
    <3>1. PICK ended \in BOOLEAN : query'[w].done = ended /\ cursor' = IF ended THEN NoWorker ELSE w
      BY <2>1 DEF FetchRows, TypeOK, Query
    <3> QED BY <3>1 DEF LiveQuery
  <2>2. CASE FetchEnd(w)
    <3>1. query'[w].done = TRUE
      BY <2>2 DEF FetchEnd, TypeOK, Query
    <3> QED BY <3>1 DEF LiveQuery
  <2>3. CASE FetchFails(w)
    <3>1. ~link \/ cursor' = cursor \/ query'[w].done = TRUE
      BY <2>3 DEF FetchFails, TypeOK, Query
    <3> QED BY <1>2, <3>1 DEF LiveQuery
  <2> QED BY <2>1, <2>2, <2>3 DEF Fetch
<1>6. \A v \in Workers \ {w} : link => ~LiveQuery(v)'
  BY <1>2, <1>3 DEF LiveInv, LiveQuery
<1> QED BY <1>1, <1>2, <1>3, <1>4, <1>5, <1>6 DEF LiveInv

\* Closing a query leaves the live query of another reader alone.
LEMMA CloseLive ==
    ASSUME NEW w \in Workers, TypeOK, LiveInv, CloseQuery(w)
    PROVE  LiveInv'
<1>1. /\ link' = link /\ cursor' \in {cursor, NoWorker} /\ (cursor # w => cursor' = cursor)
      /\ openQuery # w => openQuery' = openQuery
  BY DEF CloseQuery, CursorClosed
<1>2. ~LiveQuery(w)' /\ \A v \in Workers \ {w} : query'[v] = query[v]
  BY DEF CloseQuery, Forget, QueryClosed, NoQuery, LiveQuery, TypeOK, Query
<1>3. call'[w].pc # "fetch" /\ \A v \in Workers \ {w} : call'[v] = call[v]
  BY GotoPc DEF CloseQuery
<1> QED BY <1>1, <1>2, <1>3 DEF LiveInv, LiveQuery

\* Entering a call, finishing one, and the environment.
LEMMA OtherLive ==
    ASSUME TypeOK, LiveInv,
           \/ \E w \in Workers : StartCall(w) \/ AutoCommitIfNeeded(w) \/ QueryFinished(w)
                                 \/ SetAutoCommitFlag(w) \/ CloseSocket(w)
           \/ LinkBreaks \/ DropPackage \/ UNCHANGED vars
    PROVE  LiveInv'
<1>1. CASE LinkBreaks \/ UNCHANGED vars
  BY <1>1, StillLive DEF LiveInv, LinkBreaks, vars, connVars, serverVars, LiveQuery
<1>2. CASE DropPackage
  BY <1>2, StillLive DEF DropPackage, connVars
<1>3. ASSUME NEW w \in Workers, NEW where \in Pcs \ {"fetch"}, NEW o, Enter(w, where, o),
             UNCHANGED <<query, reader>>
      PROVE  LiveInv'
  BY <1>3, ToPc, StillLive DEF Enter, serverVars
<1>4. ASSUME NEW w \in Workers, StartCall(w), ~ReaderRelease(w) PROVE LiveInv'
  BY <1>3, <1>4
  DEF StartCall, Execute, ExecuteQuery, ExecuteBoundQuery, QueryAll, ExecuteUpdate,
      ExecuteBoundUpdate, ExecuteSchema, SetSessionOption, Commit, Rollback, EnableAutoCommit, Call,
      DisableAutoCommit, CloseConnection, ReaderNext, Pcs
<1>5. ASSUME NEW w \in Workers, ReaderRelease(w) PROVE LiveInv'
  <2>1. CASE ~reader[w].closed
    BY <1>5, <2>1, ToPc, StillLive DEF ReaderRelease, Enter, serverVars
  <2>2. CASE reader[w].closed
    <3>1. /\ UNCHANGED <<link, cursor, openQuery>>
          /\ ~LiveQuery(w)' /\ \A v \in Workers \ {w} : query'[v] = query[v]
      BY <1>5, <2>2 DEF ReaderRelease, Enter, Forget, NoQuery, LiveQuery, TypeOK, serverVars
    <3>2. call'[w].pc = "idle" /\ \A v \in Workers \ {w} : call'[v] = call[v]
      BY <1>5, <2>2, ToPc DEF ReaderRelease, Enter
    <3> QED BY <3>1, <3>2 DEF LiveInv, LiveQuery
  <2> QED BY <2>1, <2>2
<1>6. ASSUME NEW w \in Workers, AutoCommitIfNeeded(w) \/ QueryFinished(w) \/ SetAutoCommitFlag(w)
      PROVE  LiveInv'
  BY <1>6, ToPc, GotoPc, StillLive
  DEF AutoCommitIfNeeded, QueryFinished, SetAutoCommitFlag, Continue, Done, connVars, serverVars
<1>7. ASSUME NEW w \in Workers, CloseSocket(w) PROVE LiveInv'
  BY <1>7, GotoPc DEF CloseSocket, Done, LiveInv, LiveQuery
<1> QED BY <1>1, <1>2, <1>4, <1>5, <1>6, <1>7

\* On a serialized connection a query that can still be fetched from is the server's cursor.
LEMMA LiveInvariant == Spec => []LiveInv
<1>1. Init => LiveInv
  BY DEF Init, LiveInv, LiveQuery, NoQuery, NoCall
<1>2. TypeOK /\ CursorInv /\ WorkInv /\ LiveInv /\ [Next]_vars => LiveInv'
  <2> SUFFICES ASSUME TypeOK, CursorInv, WorkInv, LiveInv, [Next]_vars, Serial PROVE LiveInv'
    BY DEF LiveInv
  <2>1. ASSUME NEW w \in Workers, Step(w) PROVE LiveInv'
    BY <2>1, CommandLive, OpenCursorLive, EnsureLive, NextLive, FetchLive, CloseLive, OtherLive
    DEF Step
  <2> QED BY <2>1, OtherLive DEF Next
<1> QED BY <1>1, <1>2, TypeCorrect, CursorInvariant, WorkInvariant, PTL DEF Spec

\* CNTQRY is sent only for the cursor that is open, whatever failed before.
THEOREM FetchFindsCursor == Spec => []SerialFetchHasCursor
<1>1. LiveInv => SerialFetchHasCursor
  BY DEF LiveInv, SerialFetchHasCursor
<1> QED BY <1>1, LiveInvariant, PTL

=============================================================================
