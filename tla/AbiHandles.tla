----------------------------- MODULE AbiHandles -----------------------------
(***************************************************************************)
(* The C ABI of the shared library (pkg/db2): the structs a C program      *)
(* holds (databases, connections, statements, array streams), the table of *)
(* cgo handles behind their private_data pointers, and the Go objects that *)
(* those handles keep alive.                                               *)
(*                                                                         *)
(* A call is one action: the C program serializes its calls, as adbc.h     *)
(* demands of it.  A call that fails its checks changes nothing and is no  *)
(* action.  What the driver underneath does is a choice of outcome: it     *)
(* succeeds, returns an error, or panics.                                  *)
(***************************************************************************)
EXTENDS Integers, FiniteSets

CONSTANTS
    Databases, Connections, Statements, Streams,  \* structs owned by the C program
    Keys,         \* option keys the program sets on a connection
    MaxHandles,   \* bound: handles issued over the life of the process
    Panics        \* the driver underneath may panic

Structs == Databases \cup Connections \cup Statements \cup Streams

ASSUME AbiAssumption ==
    /\ MaxHandles \in Nat
    /\ Panics \in BOOLEAN
    /\ Databases \cap Connections = {} /\ Databases \cap Statements = {}
    /\ Databases \cap Streams = {} /\ Connections \cap Statements = {}
    /\ Connections \cap Streams = {} /\ Statements \cap Streams = {}

VARIABLES
    up,           \* the process runs; an uncaught panic ends it
    globalPoison, \* some call panicked
    private_data, \* of each struct: a handle, or 0 for NULL
    handles,      \* runtime/cgo's table: handles not deleted yet
    issued,       \* the last handle issued
    object,       \* by handle: the Go object, kept after its handle is deleted
    reader,       \* by handle of the stream: the record reader exported through it
    adbcErr       \* by handle of the stream: its AdbcError, and the blocks allocated for it

vars == <<up, globalPoison, private_data, handles, issued, object, reader, adbcErr>>

Handle == 1..MaxHandles

---------------------------------------------------------------------------
(* Go objects *)

\* impl: the object of driver/db2 behind it (cdb.db, conn.cnxn, st.stmt): not there yet,
\* in use, or closed.  cancel: context.CancelFunc is set; uncancelled: contexts made for
\* the object and not cancelled.  session: its DRDA session is up; requested and ready are
\* history: the options the program set before Init, and that Init returned OK.
None      == [kind |-> "none"]
cDatabase == [kind |-> "database", impl |-> "nil"]
cConn     == [kind |-> "connection", impl |-> "nil", cancel |-> FALSE, uncancelled |-> 0,
              session |-> FALSE, initArgs |-> {}, applied |-> {}, requested |-> {},
              ready |-> FALSE]
cStmt(c)  == [kind |-> "statement", impl |-> "open", cancel |-> FALSE, uncancelled |-> 0,
              conn |-> c, bound |-> FALSE]
cArrayStream == [kind |-> "stream"]

\* Seeded fault: the cancel function stays set once it has been called.
Bug_CancelAgain(o) == [o EXCEPT !.uncancelled = @ - (IF o.cancel THEN 1 ELSE 0)]

\* cancellableContext
cancelContext(o) == [o EXCEPT !.uncancelled = @ - (IF o.cancel THEN 1 ELSE 0), !.cancel = FALSE]

\* Seeded fault: the previous context is forgotten without being cancelled.
Bug_ContextLeak(o) == [o EXCEPT !.uncancelled = @ + 1, !.cancel = TRUE]

newContext(o) ==
    LET p == cancelContext(o)
    IN  [p EXCEPT !.uncancelled = @ + 1, !.cancel = TRUE]

\* streamingRecordReader: close runs once, when the last reference goes.
NoReader   == [refs |-> 0, closes |-> 0]
NewReader  == [refs |-> 1, closes |-> 0]
Retain(r)  == [r EXCEPT !.refs = @ + 1]
Release(r) == IF r.refs = 1 THEN [refs |-> 0, closes |-> r.closes + 1]
                            ELSE [r EXCEPT !.refs = @ - 1]

\* An AdbcError: release is set while it holds a message (and details).  setErr frees what
\* the struct holds; the path of setErrWithDetails that stores details overwrites it.
NoError       == [release |-> FALSE, blocks |-> 0]
errRelease(e) == IF e.release THEN [release |-> FALSE, blocks |-> e.blocks - 1] ELSE e
setErr(e)     == [release |-> TRUE, blocks |-> errRelease(e).blocks + 1]
setErrWithDetails(e) == [release |-> TRUE, blocks |-> e.blocks + 1]

\* Seeded fault: the next error is stored over the previous one.
Bug_NoRelease(e, details) == IF details THEN setErrWithDetails(e) ELSE setErr(e)

\* maybeError frees the previous error of the stream before it stores the next one.
maybeError(e, details) ==
    IF details THEN setErrWithDetails(errRelease(e)) ELSE setErr(errRelease(e))

\* clearBound
clearBound(o) == [o EXCEPT !.bound = FALSE]

---------------------------------------------------------------------------
Init ==
    /\ up = TRUE
    /\ globalPoison = FALSE
    /\ private_data = [s \in Structs |-> 0]
    /\ handles = {}
    /\ issued = 0
    /\ object = [h \in Handle |-> None]
    /\ reader = [h \in Handle |-> NoReader]
    /\ adbcErr = [h \in Handle |-> NoError]

streamVars == <<reader, adbcErr>>

\* Seeded fault: globalPoison is not looked at.
Bug_NoPoison(s) == up /\ private_data[s] # 0

\* checkDBAlloc, checkConnAlloc, checkStmtAlloc; checkDBInit, checkConnInit, checkStmtInit.
checkAlloc(s) == up /\ ~globalPoison /\ private_data[s] # 0
checkInit(s)  == checkAlloc(s) /\ object[private_data[s]].impl # "nil"

\* The deferred recover of every entry point: the panic becomes an error and poisons.
Recovered(panics) == globalPoison' = panics
Outcomes == {"ok", "error"} \cup (IF Panics THEN {"panic"} ELSE {})

\* cgo.NewHandle and the store of the handle in the struct.
NewHandle(s, o) ==
    /\ issued < MaxHandles
    /\ issued' = issued + 1
    /\ handles' = handles \cup {issued + 1}
    /\ private_data' = [private_data EXCEPT ![s] = issued + 1]
    /\ object' = [object EXCEPT ![issued + 1] = o]

\* Seeded fault: the struct keeps the handle that is deleted.
Bug_Dangling(s) == handles' = handles \ {private_data[s]} /\ UNCHANGED private_data

\* private_data = nil, then h.Delete().
DeleteHandle(s) ==
    /\ handles' = handles \ {private_data[s]}
    /\ private_data' = [private_data EXCEPT ![s] = 0]

\* A call that changes the object behind s and nothing else.
Update(s, o) ==
    /\ object' = [object EXCEPT ![private_data[s]] = o]
    /\ UNCHANGED <<up, private_data, handles, issued, streamVars>>

---------------------------------------------------------------------------
(* Databases *)

DatabaseNew(d) ==
    /\ up /\ ~globalPoison
    /\ private_data[d] = 0
    /\ NewHandle(d, cDatabase)
    /\ UNCHANGED <<up, globalPoison, streamVars>>

\* NewDatabase parses the options; when it refuses them the struct stays uninitialized.
DatabaseInit(d) ==
    /\ checkAlloc(d)
    /\ object[private_data[d]].impl = "nil"
    /\ \E out \in Outcomes :
        /\ Recovered(out = "panic")
        /\ Update(d, [object[private_data[d]] EXCEPT !.impl = IF out = "ok" THEN "open" ELSE @])

\* databaseImpl.Close does nothing: connections opened from it live on.
DatabaseRelease(d) ==
    /\ checkAlloc(d)
    /\ DeleteHandle(d)
    /\ object' = [object EXCEPT ![private_data[d]].impl = "nil"]
    /\ UNCHANGED <<up, globalPoison, issued, streamVars>>

\* The getters and typed setters of a database, a connection and a statement look at or
\* store options and touch no handle; they can only poison.
DatabaseOption(d) ==
    /\ checkInit(d) /\ Panics
    /\ Recovered(TRUE)
    /\ Update(d, object[private_data[d]])

DatabaseSetOption(d) ==
    /\ checkAlloc(d) /\ Panics
    /\ Recovered(TRUE)
    /\ Update(d, object[private_data[d]])

---------------------------------------------------------------------------
(* Connections *)

ConnectionNew(c) ==
    /\ up /\ ~globalPoison
    /\ private_data[c] = 0
    /\ NewHandle(c, cConn)
    /\ UNCHANGED <<up, globalPoison, streamVars>>

\* Before Init an option is kept; afterwards it goes to the connection.
ConnectionSetOption(c, k) ==
    /\ checkAlloc(c)
    /\ LET o == object[private_data[c]] IN
       \/ /\ o.impl = "nil"
          /\ Recovered(FALSE)
          /\ Update(c, [o EXCEPT !.initArgs = @ \cup {k}, !.requested = @ \cup {k}])
       \/ /\ o.impl # "nil"
          /\ \E out \in Outcomes :
                /\ Recovered(out = "panic")
                /\ Update(c, [o EXCEPT !.applied = IF out = "ok" THEN @ \cup {k} ELSE @])

\* Seeded fault: the loop over the kept options returns after the first.
Bug_FirstOptionOnly(c, d) ==
    /\ checkAlloc(c) /\ checkInit(d)
    /\ LET o == object[private_data[c]] IN
       /\ o.impl = "nil"
       /\ Recovered(FALSE)
       /\ \E k \in o.initArgs :
            Update(c, [o EXCEPT !.impl = "open", !.session = TRUE, !.initArgs = {},
                                !.ready = TRUE, !.applied = {k}])

\* Database.Open, then the kept options one by one, in the order of a Go map's iteration:
\* any of them.  The first that fails ends Init with an error, and leaves the connection
\* open, the earlier options applied and all of them kept.
ConnectionInit(c, d) ==
    /\ checkAlloc(c) /\ checkInit(d)
    /\ LET o == object[private_data[c]] IN
       /\ o.impl = "nil"
       /\ \/ \E out \in Outcomes \ {"ok"} :      \* Open fails
                Recovered(out = "panic") /\ Update(c, o)
          \/ /\ Recovered(FALSE)                 \* every option is set
             /\ Update(c, [o EXCEPT !.impl = "open", !.session = TRUE, !.initArgs = {},
                                    !.ready = TRUE, !.applied = @ \cup o.initArgs])
          \/ \E out \in Outcomes \ {"ok"}, set \in SUBSET o.initArgs :
                /\ set # o.initArgs              \* one of the others fails
                /\ Recovered(out = "panic")
                /\ Update(c, [o EXCEPT !.impl = "open", !.session = TRUE,
                                       !.applied = @ \cup set])

\* Of a released cConn only the connection behind it is still looked at, by statements.
Unused(o) == [o EXCEPT !.initArgs = {}, !.applied = {}, !.requested = {}, !.ready = FALSE]

\* Seeded fault: a connection whose Init failed is not closed.
Bug_CloseOnlyReady(c) ==
    /\ checkAlloc(c)
    /\ DeleteHandle(c)
    /\ Recovered(FALSE)
    /\ object' = [object EXCEPT ![private_data[c]] =
                     [cancelContext(@) EXCEPT !.session = @ /\ ~object[private_data[c]].ready]]
    /\ UNCHANGED <<up, issued, streamVars>>

\* The deferred function runs when connectionImpl.Close panics too; the session may then
\* be left open, and Close, which has marked the connection closed, would not try again.
ConnectionRelease(c) ==
    /\ checkAlloc(c)
    /\ DeleteHandle(c)
    /\ LET o == cancelContext(object[private_data[c]]) IN
       \/ /\ o.impl = "nil" /\ Recovered(FALSE)
          /\ object' = [object EXCEPT ![private_data[c]] = Unused(o)]
       \/ /\ o.impl # "nil"
          /\ \E out \in Outcomes, session \in BOOLEAN :
                /\ Recovered(out = "panic")
                /\ session => out = "panic"
                /\ object' = [object EXCEPT ![private_data[c]] =
                                 [Unused(o) EXCEPT !.impl = "closed", !.session = session]]
    /\ UNCHANGED <<up, issued, streamVars>>

\* GetTableSchema, Commit and Rollback: a context, a call of the driver.
ConnectionCall(c) ==
    /\ checkInit(c)
    /\ \E out \in Outcomes : Recovered(out = "panic")
    /\ Update(c, newContext(object[private_data[c]]))

ConnectionOption(c) ==
    /\ checkInit(c) /\ Panics
    /\ Recovered(TRUE)
    /\ Update(c, object[private_data[c]])

ConnectionCancel(c) ==
    /\ checkInit(c)
    /\ Recovered(FALSE)
    /\ Update(c, cancelContext(object[private_data[c]]))

---------------------------------------------------------------------------
(* Array streams *)

\* Seeded fault: the stream keeps no reference of its own.
Bug_NoRetain(t) ==
    /\ private_data[t] = 0
    /\ reader' = [reader EXCEPT ![issued + 1] = Release(NewReader)]
    /\ UNCHANGED adbcErr

\* exportRecordReader retains the reader, the entry point's deferred Release drops the
\* reference the driver returned.  The caller passes a struct that holds no stream.
exportRecordReader(t) ==
    /\ private_data[t] = 0
    /\ reader' = [reader EXCEPT ![issued + 1] = Release(Retain(NewReader))]
    /\ UNCHANGED adbcErr

\* What a stream of the caller's object s (with its fresh context) changes.
ExportFrom(s, t, o) ==
    /\ issued < MaxHandles
    /\ exportRecordReader(t)
    /\ issued' = issued + 1
    /\ handles' = handles \cup {issued + 1}
    /\ private_data' = [private_data EXCEPT ![t] = issued + 1]
    /\ object' = [object EXCEPT ![private_data[s]] = o, ![issued + 1] = cArrayStream]
    /\ UNCHANGED up

\* GetInfo, GetObjects, GetTableTypes; ReadPartition and the statistics, which the driver
\* refuses.
ConnectionStream(c, t) ==
    /\ checkInit(c)
    /\ LET o == newContext(object[private_data[c]]) IN
       \/ Recovered(FALSE) /\ ExportFrom(c, t, o)
       \/ \E out \in Outcomes \ {"ok"} : Recovered(out = "panic") /\ Update(c, o)

\* GetNext and GetSchema: a batch, the end or an error.  Neither recovers from a panic,
\* nor looks at globalPoison.
ArrayStreamGet(t) ==
    /\ up /\ private_data[t] # 0
    /\ LET h == private_data[t] IN
       \/ \E details \in BOOLEAN :
             adbcErr' = [adbcErr EXCEPT ![h] = maybeError(@, details)] /\ UNCHANGED up
       \/ Panics /\ up' = FALSE /\ UNCHANGED adbcErr
    /\ UNCHANGED <<globalPoison, private_data, handles, issued, object, reader>>

ArrayStreamRelease(t) ==
    /\ up /\ private_data[t] # 0
    /\ LET h == private_data[t] IN
       /\ DeleteHandle(t)
       /\ reader' = [reader EXCEPT ![h] = Release(@)]
       /\ adbcErr' = [adbcErr EXCEPT ![h] = errRelease(@)]
    /\ UNCHANGED <<up, globalPoison, issued, object>>

---------------------------------------------------------------------------
(* Statements *)

\* connectionImpl.NewStatement needs an open connection, which a handle in use has.
StatementNew(c, s) ==
    /\ checkInit(c)
    /\ private_data[s] = 0
    /\ NewHandle(s, cStmt(private_data[c]))
    /\ UNCHANGED <<up, globalPoison, streamVars>>

\* statementImpl.Close releases the bound data.
StatementRelease(s) ==
    /\ checkAlloc(s)
    /\ DeleteHandle(s)
    /\ \E out \in Outcomes :
        /\ Recovered(out = "panic")
        /\ object' = [object EXCEPT ![private_data[s]] =
                         cancelContext([clearBound(@) EXCEPT !.impl = "closed"])]
    /\ UNCHANGED <<up, issued, streamVars>>

\* Prepare, ExecuteSchema, ExecutePartitions: a context, a call of the driver.
StatementCall(s) ==
    /\ checkInit(s)
    /\ \E out \in Outcomes : Recovered(out = "panic")
    /\ Update(s, newContext(object[private_data[s]]))

\* SetSqlQuery, SetSubstraitPlan, GetParameterSchema and the options: no context is made.
StatementOption(s) ==
    /\ checkInit(s) /\ Panics
    /\ Recovered(TRUE)
    /\ Update(s, object[private_data[s]])

\* Bind and BindStream: what was bound before is released.
StatementBind(s) ==
    /\ checkInit(s)
    /\ \E out \in Outcomes \ {"error"} :
        /\ Recovered(out = "panic")
        /\ Update(s, [newContext(clearBound(object[private_data[s]]))
                         EXCEPT !.bound = out = "ok"])

\* ExecuteQuery with and without a stream to fill.  Bound data is used up, unless there is
\* neither SQL nor a target; without an open session there is no result.
StatementExecuteQuery(s, t) ==
    /\ checkInit(s)
    /\ LET o == object[private_data[s]] IN
       \/ /\ object[o.conn].session
          /\ Recovered(FALSE) /\ ExportFrom(s, t, newContext(clearBound(o)))
       \/ \E out \in Outcomes :
             Recovered(out = "panic") /\ Update(s, newContext(clearBound(o)))
       \/ Recovered(FALSE) /\ Update(s, newContext(o))

StatementCancel(s) ==
    /\ checkInit(s)
    /\ Recovered(FALSE)
    /\ Update(s, cancelContext(object[private_data[s]]))

---------------------------------------------------------------------------
Next ==
    \/ \E d \in Databases :
          \/ DatabaseNew(d) \/ DatabaseInit(d) \/ DatabaseRelease(d)
          \/ DatabaseOption(d) \/ DatabaseSetOption(d)
    \/ \E c \in Connections :
          \/ ConnectionNew(c) \/ ConnectionRelease(c) \/ ConnectionCall(c)
          \/ ConnectionOption(c) \/ ConnectionCancel(c)
          \/ \E k \in Keys : ConnectionSetOption(c, k)
          \/ \E d \in Databases : ConnectionInit(c, d)
          \/ \E s \in Statements : StatementNew(c, s)
          \/ \E t \in Streams : ConnectionStream(c, t)
    \/ \E s \in Statements :
          \/ StatementRelease(s) \/ StatementCall(s) \/ StatementOption(s)
          \/ StatementBind(s) \/ StatementCancel(s)
          \/ \E t \in Streams : StatementExecuteQuery(s, t)
    \/ \E t \in Streams : ArrayStreamGet(t) \/ ArrayStreamRelease(t)

Spec == Init /\ [][Next]_vars

---------------------------------------------------------------------------
(* Properties *)

Owners(h) == {s \in Structs : private_data[s] = h}

ContextIsCurrent(o) == o.uncancelled = IF o.cancel THEN 1 ELSE 0

\* The Go objects behind handles, by kind.
DatabaseObject  == [kind: {"database"}, impl: {"nil", "open"}]
ConnObject      == [kind: {"connection"}, impl: {"nil", "open", "closed"}, cancel: BOOLEAN,
                    uncancelled: Nat, session: BOOLEAN, initArgs: SUBSET Keys,
                    applied: SUBSET Keys, requested: SUBSET Keys, ready: BOOLEAN]
StatementObject == [kind: {"statement"}, impl: {"open", "closed"}, cancel: BOOLEAN,
                    uncancelled: Nat, conn: Handle, bound: BOOLEAN]
Object == {None, cArrayStream} \cup DatabaseObject \cup ConnObject \cup StatementObject

\* Types; cancel functions are not called more often than contexts were made.
TypeOK ==
    /\ up \in BOOLEAN /\ globalPoison \in BOOLEAN
    /\ issued \in 0..MaxHandles
    /\ handles \subseteq 1..issued
    /\ private_data \in [Structs -> 0..MaxHandles]
    /\ object \in [Handle -> Object]
    /\ reader \in [Handle -> [refs: Nat, closes: Nat]]
    /\ adbcErr \in [Handle -> [release: BOOLEAN, blocks: Nat]]

\* The handle table and the C structs agree: a handle is in the table exactly while one
\* struct points to it, and that struct is of the object's kind.  A dangling private_data
\* would make Handle.Value panic in whatever call comes next; a handle without a struct
\* keeps its object alive for ever (the New, Release and export functions).
HandlesOwned ==
    /\ \A h \in Handle : Cardinality(Owners(h)) = IF h \in handles THEN 1 ELSE 0
    /\ \A h \in handles : Owners(h) \subseteq
          CASE object[h].kind = "database"   -> Databases
            [] object[h].kind = "connection" -> Connections
            [] object[h].kind = "statement"  -> Statements
            [] OTHER                         -> Streams

\* A DRDA session that is up can be closed by the C program: its connection has a handle.
\* This covers an Init that opened the session and then failed to set an option.  Only a
\* panic inside connectionImpl.Close can leave a session behind.
SessionsOwned ==
    \A h \in Handle :
        object[h].kind = "connection" /\ object[h].session => h \in handles \/ globalPoison

\* A reader has exactly one reference while its stream is not released, and is closed once
\* when it is (closing is what commits under autocommit): exportRecordReader's Retain and the
\* deferred Release of the entry point cancel out.
ReadersOwned ==
    \A h \in Handle : object[h].kind = "stream" =>
        reader[h] = IF h \in handles THEN [refs |-> 1, closes |-> 0]
                                     ELSE [refs |-> 0, closes |-> 1]

\* Release gives everything back.  Of the contexts made for a connection or statement at
\* most one is not cancelled, the one its cancel function would cancel, and none after
\* Release; a released statement holds no bound data; a stream holds at most one error
\* block, which its next error or its release frees.
ResourcesReturned ==
    \A h \in Handle :
        /\ object[h].kind \in {"connection", "statement"} =>
              /\ ContextIsCurrent(object[h])
              /\ h \notin handles => object[h].uncancelled = 0
        /\ object[h].kind = "statement" /\ h \notin handles => ~object[h].bound
        /\ adbcErr[h].blocks = IF adbcErr[h].release THEN 1 ELSE 0
        /\ h \notin handles => adbcErr[h].blocks = 0

\* Whatever the order Go's map iteration picks: when ConnectionInit has returned OK, every
\* option set before it is in force.
OptionsInForce ==
    \A h \in Handle :
        object[h].kind = "connection" /\ object[h].ready => object[h].requested \subseteq object[h].applied

\* "Afterwards all calls to driver will fail": once a call has panicked no handle is issued
\* any more and no database, connection or statement changes; streams may still be released.
PoisonSticks ==
    [][globalPoison => globalPoison' /\ UNCHANGED <<issued, object>>]_vars

---------------------------------------------------------------------------
(* The inductive invariant behind the properties *)

\* Structs and handles correspond one to one, and a struct's handle has an object of the
\* struct's kind.
Ownership ==
    /\ \A s \in Structs : private_data[s] # 0 => private_data[s] \in handles
    /\ \A s, t \in Structs : private_data[s] = private_data[t] => s = t \/ private_data[s] = 0
    /\ \A h \in handles : \E s \in Structs : private_data[s] = h

Fits(s, kind) ==
    /\ s \in Databases   => kind = "database"
    /\ s \in Connections => kind = "connection"
    /\ s \in Statements  => kind = "statement"
    /\ s \in Streams     => kind = "stream"

Kinds == \A s \in Structs : private_data[s] # 0 => Fits(s, object[private_data[s]].kind)

\* What is true of an object while its handle is live, and what is left of it afterwards.
ObjectOK(o, live) ==
    /\ o.kind \in {"connection", "statement"} =>
          ContextIsCurrent(o) /\ (~live => o.uncancelled = 0)
    /\ o.kind = "statement" /\ ~live => ~o.bound
    /\ o.kind = "connection" =>
          /\ o.ready => o.requested \subseteq o.applied
          /\ o.impl = "nil" => ~o.ready /\ ~o.session /\ o.requested \subseteq o.initArgs

ReaderOK(r, live) ==
    r = IF live THEN [refs |-> 1, closes |-> 0] ELSE [refs |-> 0, closes |-> 1]

ErrorOK(e, live) ==
    /\ e.blocks = IF e.release THEN 1 ELSE 0
    /\ ~live => e.blocks = 0

HandleOK(h) ==
    /\ h > issued => object[h] = None
    /\ ObjectOK(object[h], h \in handles)
    /\ object[h].kind = "connection" /\ object[h].session => h \in handles \/ globalPoison
    /\ object[h].kind = "stream" => ReaderOK(reader[h], h \in handles)
    /\ ErrorOK(adbcErr[h], h \in handles /\ object[h].kind = "stream")

HandleInv == TypeOK /\ Ownership /\ Kinds /\ \A h \in Handle : HandleOK(h)

=============================================================================
