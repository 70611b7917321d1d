-------------------------- MODULE AbiHandlesProofs --------------------------
(***************************************************************************)
(* Proofs about AbiHandles, for any number of structs, handles and option  *)
(* keys, with or without panics.                                           *)
(***************************************************************************)
EXTENDS AbiHandles, FiniteSetTheorems, TLAPS

---------------------------------------------------------------------------
(* The operations on objects, readers and errors *)

\* The kinds of objects tell them apart.
LEMMA KindOfObject ==
    ASSUME NEW o \in Object
    PROVE  /\ o.kind \in {"none", "database", "connection", "statement", "stream"}
           /\ o.kind = "none" <=> o = None
           /\ o.kind = "database" <=> o \in DatabaseObject
           /\ o.kind = "connection" <=> o \in ConnObject
           /\ o.kind = "statement" <=> o \in StatementObject
           /\ o.kind = "stream" <=> o = cArrayStream
  BY DEF Object, None, cArrayStream, DatabaseObject, ConnObject, StatementObject

\* Cancelling leaves no context behind, a new context replaces the one before.
LEMMA ContextValues ==
    ASSUME NEW o, ContextIsCurrent(o), o.cancel \in BOOLEAN
    PROVE  /\ cancelContext(o) = [o EXCEPT !.uncancelled = 0, !.cancel = FALSE]
           /\ newContext(o) = [cancelContext(o) EXCEPT !.uncancelled = @ + 1, !.cancel = TRUE]
<1>1. o.uncancelled - (IF o.cancel THEN 1 ELSE 0) = 0
  BY DEF ContextIsCurrent
<1> QED BY <1>1 DEF cancelContext, newContext

\* The contexts of a connection.
LEMMA ConnContext ==
    ASSUME NEW o \in ConnObject, ContextIsCurrent(o),
           NEW p, p = cancelContext(o) \/ p = newContext(o)
    PROVE  /\ p \in ConnObject
           /\ ContextIsCurrent(p)
           /\ p = cancelContext(o) => p.uncancelled = 0
           /\ p.impl = o.impl /\ p.session = o.session /\ p.initArgs = o.initArgs
           /\ p.applied = o.applied /\ p.requested = o.requested /\ p.ready = o.ready
<1> DEFINE c == cancelContext(o)
<1>1. o.cancel \in BOOLEAN
  BY DEF ConnObject
<1>2. c = [o EXCEPT !.uncancelled = 0, !.cancel = FALSE]
  BY <1>1, ContextValues
<1>3. newContext(o) = [c EXCEPT !.uncancelled = @ + 1, !.cancel = TRUE]
  BY <1>1, ContextValues
<1> HIDE DEF c
<1>4. /\ c \in ConnObject
      /\ c.uncancelled = 0 /\ c.cancel = FALSE
      /\ c.impl = o.impl /\ c.session = o.session /\ c.initArgs = o.initArgs
      /\ c.applied = o.applied /\ c.requested = o.requested /\ c.ready = o.ready
  BY <1>2 DEF ConnObject
<1>5. CASE p = newContext(o)
  <2>1. p = [c EXCEPT !.uncancelled = 1, !.cancel = TRUE]
    <3>1. c.uncancelled + 1 = 1
      BY <1>4
    <3> QED BY <1>3, <1>5, <3>1
  <2>2. /\ p \in ConnObject
        /\ p.uncancelled = 1 /\ p.cancel = TRUE
        /\ p.impl = c.impl /\ p.session = c.session /\ p.initArgs = c.initArgs
        /\ p.applied = c.applied /\ p.requested = c.requested /\ p.ready = c.ready
    BY <1>4, <2>1 DEF ConnObject
  <2> QED BY <1>4, <2>2 DEF ContextIsCurrent, c
<1>6. CASE p = cancelContext(o)
  BY <1>4, <1>6 DEF ContextIsCurrent, c
<1> QED BY <1>5, <1>6
\* The contexts of a statement.
LEMMA StatementContext ==
    ASSUME NEW o \in StatementObject, ContextIsCurrent(o),
           NEW p, p = cancelContext(o) \/ p = newContext(o)
    PROVE  /\ p \in StatementObject
           /\ ContextIsCurrent(p)
           /\ p = cancelContext(o) => p.uncancelled = 0
           /\ p.impl = o.impl /\ p.conn = o.conn /\ p.bound = o.bound
<1> DEFINE c == cancelContext(o)
<1>1. o.cancel \in BOOLEAN
  BY DEF StatementObject
<1>2. c = [o EXCEPT !.uncancelled = 0, !.cancel = FALSE]
  BY <1>1, ContextValues
<1>3. newContext(o) = [c EXCEPT !.uncancelled = @ + 1, !.cancel = TRUE]
  BY <1>1, ContextValues
<1> HIDE DEF c
<1>4. /\ c \in StatementObject
      /\ c.uncancelled = 0 /\ c.cancel = FALSE
      /\ c.impl = o.impl /\ c.conn = o.conn /\ c.bound = o.bound
  BY <1>2 DEF StatementObject
<1>5. CASE p = newContext(o)
  <2>1. p = [c EXCEPT !.uncancelled = 1, !.cancel = TRUE]
    <3>1. c.uncancelled + 1 = 1
      BY <1>4
    <3> QED BY <1>3, <1>5, <3>1
  <2>2. /\ p \in StatementObject
        /\ p.uncancelled = 1 /\ p.cancel = TRUE
        /\ p.impl = c.impl /\ p.conn = c.conn /\ p.bound = c.bound
    BY <1>4, <2>1 DEF StatementObject
  <2> QED BY <1>4, <2>2 DEF ContextIsCurrent, c
<1>6. CASE p = cancelContext(o)
  BY <1>4, <1>6 DEF ContextIsCurrent, c
<1> QED BY <1>5, <1>6

\* maybeError and errRelease keep one block per message, and releasing frees it.
LEMMA ErrorBlocks ==
    ASSUME NEW e \in [release: BOOLEAN, blocks: Nat], ErrorOK(e, TRUE), NEW details \in BOOLEAN
    PROVE  /\ maybeError(e, details) \in [release: BOOLEAN, blocks: Nat]
           /\ ErrorOK(maybeError(e, details), TRUE)
           /\ errRelease(e) \in [release: BOOLEAN, blocks: Nat]
           /\ ErrorOK(errRelease(e), FALSE)
<1> DEFINE f == errRelease(e)
<1>1. f \in [release: BOOLEAN, blocks: Nat] /\ f.release = FALSE /\ f.blocks = 0
  BY DEF errRelease, ErrorOK
<1> HIDE DEF f
<1>2. errRelease(f) = f
  BY <1>1 DEF errRelease
<1>3. maybeError(e, details) = [release |-> TRUE, blocks |-> f.blocks + 1]
  BY <1>2 DEF maybeError, setErr, setErrWithDetails, f
<1>4. maybeError(e, details) = [release |-> TRUE, blocks |-> 1]
  BY <1>1, <1>3
<1>5. ErrorOK(f, FALSE)
  BY <1>1 DEF ErrorOK
<1> QED BY <1>1, <1>4, <1>5 DEF ErrorOK, f

\* The entry point's reference and the stream's own cancel out; the stream's release closes
\* the reader.
LEMMA ReaderReferences ==
    /\ Release(Retain(NewReader)) = [refs |-> 1, closes |-> 0]
    /\ Release([refs |-> 1, closes |-> 0]) = [refs |-> 0, closes |-> 1]
<1>1. Retain(NewReader) = [refs |-> 2, closes |-> 0]
  BY DEF Retain, NewReader
<1>2. Release([refs |-> 2, closes |-> 0]) = [refs |-> 1, closes |-> 0]
  BY DEF Release
<1>3. Release([refs |-> 1, closes |-> 0]) = [refs |-> 0, closes |-> 1]
  BY DEF Release
<1> QED BY <1>1, <1>2, <1>3

---------------------------------------------------------------------------
(* The three shapes a call can have: it changes live objects, issues a handle, or deletes one *)

\* A handle a step leaves alone stays as it should be.
LEMMA HandleFrame ==
    ASSUME NEW h \in Handle, HandleOK(h), TypeOK,
           object'[h] = object[h], reader'[h] = reader[h], adbcErr'[h] = adbcErr[h],
           h \in handles' <=> h \in handles, globalPoison => globalPoison',
           issued' = issued \/ (issued' = issued + 1)
    PROVE  HandleOK(h)'
<1>1. h > issued' => h > issued
  BY DEF TypeOK, Handle
<1>2. ObjectOK(object[h], h \in handles)'
  BY DEF HandleOK, ObjectOK, ContextIsCurrent
<1>3. object'[h].kind = "stream" => ReaderOK(reader[h], h \in handles)'
  BY DEF HandleOK, ReaderOK
<1>4. ErrorOK(adbcErr[h], h \in handles /\ object[h].kind = "stream")'
  BY DEF HandleOK, ErrorOK
<1>5. object'[h].kind = "connection" /\ object'[h].session => h \in handles' \/ globalPoison'
  BY Zenon DEF HandleOK
<1>6. h > issued' => object'[h] = None
  BY <1>1 DEF HandleOK
<1> QED BY <1>2, <1>3, <1>4, <1>5, <1>6, Zenon DEF HandleOK

\* A struct that has a handle has a live one with an object of its kind.
LEMMA LiveHandle ==
    ASSUME HandleInv, NEW s \in Structs, private_data[s] # 0
    PROVE  /\ private_data[s] \in handles
           /\ private_data[s] \in Handle
           /\ private_data[s] <= issued
           /\ object[private_data[s]] \in Object
           /\ ObjectOK(object[private_data[s]], TRUE)
           /\ HandleOK(private_data[s])
           /\ Fits(s, object[private_data[s]].kind)
<1>1. private_data[s] \in handles /\ Fits(s, object[private_data[s]].kind)
  BY DEF HandleInv, Ownership, Kinds
<1>2. private_data[s] \in Handle /\ private_data[s] <= issued
  BY <1>1 DEF HandleInv, TypeOK, Handle
<1>3. HandleOK(private_data[s])
  BY <1>2 DEF HandleInv
<1>4. ObjectOK(object[private_data[s]], TRUE)
  <2>1. (private_data[s] \in handles) = TRUE
    BY <1>1
  <2> QED BY <1>3, <2>1 DEF HandleOK
<1> QED BY <1>1, <1>2, <1>3, <1>4 DEF HandleInv, TypeOK

\* A call that changes the object behind one struct, and may panic.
LEMMA UpdateKeeps ==
    ASSUME HandleInv, NEW s \in Structs, private_data[s] # 0, ~globalPoison,
           globalPoison' \in BOOLEAN, NEW o \in Object, Update(s, o),
           o.kind = object[private_data[s]].kind, ObjectOK(o, TRUE)
    PROVE  HandleInv'
<1>0. PICK g \in Handle : g = private_data[s]
  BY LiveHandle
<1>1. g \in handles /\ g <= issued /\ HandleOK(g) /\ o.kind = object[g].kind
  BY <1>0, LiveHandle
<1>2. /\ UNCHANGED <<up, private_data, handles, issued, reader, adbcErr>>
      /\ object' = [object EXCEPT ![g] = o]
  BY <1>0 DEF Update, streamVars
<1>3. object \in [Handle -> Object]
  BY DEF HandleInv, TypeOK
<1>4. object'[g] = o /\ \A h \in Handle \ {g} : object'[h] = object[h]
  BY <1>1, <1>2, <1>3
<1>5. TypeOK'
  BY <1>1, <1>2, <1>3 DEF HandleInv, TypeOK
<1>6. Ownership'
  BY <1>2 DEF HandleInv, Ownership
<1>7. Kinds'
  <2>1. \A t \in Structs : private_data[t] # 0 => private_data[t] \in Handle
    BY LiveHandle
  <2>2. \A h \in Handle : object'[h].kind = object[h].kind
    BY <1>1, <1>4
  <2> QED BY <1>2, <2>1, <2>2 DEF HandleInv, Kinds, Fits
<1>8. ASSUME NEW h \in Handle, h # g PROVE HandleOK(h)'
  BY <1>2, <1>4, <1>8, HandleFrame DEF HandleInv
<1>9. HandleOK(g)'
  <2>1. ~(g > issued')
    BY <1>1, <1>2 DEF HandleInv, TypeOK, Handle
  <2>2. ObjectOK(object[g], g \in handles)'
    BY <1>1, <1>2, <1>4 DEF ObjectOK, ContextIsCurrent
  <2>3. object'[g].kind = "stream" => ReaderOK(reader[g], g \in handles)'
    BY <1>1, <1>2, <1>4 DEF HandleOK, ReaderOK
  <2>4. ErrorOK(adbcErr[g], g \in handles /\ object[g].kind = "stream")'
    BY <1>1, <1>2 DEF HandleOK, ErrorOK
  <2> QED BY <1>1, <1>2, <2>1, <2>2, <2>3, <2>4 DEF HandleOK
<1> QED BY <1>5, <1>6, <1>7, <1>8, <1>9 DEF HandleInv

\* A call that issues a handle for an empty struct, and may change live objects.
LEMMA NewKeeps ==
    ASSUME HandleInv, NEW s \in Structs, private_data[s] = 0, ~globalPoison,
           UNCHANGED <<up, globalPoison, adbcErr>>,
           NEW n \in Handle, n = issued + 1, issued' = n, handles' = handles \cup {n},
           private_data' = [private_data EXCEPT ![s] = n],
           object' \in [Handle -> Object], reader' \in [Handle -> [refs: Nat, closes: Nat]],
           Fits(s, object'[n].kind), ObjectOK(object'[n], TRUE),
           object'[n].kind = "stream" => ReaderOK(reader'[n], TRUE),
           \A h \in Handle \ {n} :
              /\ reader'[h] = reader[h]
              /\ \/ object'[h] = object[h]
                 \/ h \in handles /\ object'[h].kind = object[h].kind /\ ObjectOK(object'[h], TRUE)
    PROVE  HandleInv'
<1>1. n \notin handles /\ n # 0 /\ issued \in Nat /\ 0 <= MaxHandles
  BY AbiAssumption DEF HandleInv, TypeOK, Handle
<1>2. private_data \in [Structs -> 0..MaxHandles]
  BY DEF HandleInv, TypeOK
<1>3. private_data'[s] = n /\ \A t \in Structs \ {s} : private_data'[t] = private_data[t]
  BY <1>2
<1>4. TypeOK'
  <2>1. issued' \in 0..MaxHandles
    BY <1>1 DEF Handle
  <2>2. handles' \subseteq 1..issued'
    BY <1>1 DEF HandleInv, TypeOK, Handle
  <2>3. private_data' \in [Structs -> 0..MaxHandles]
    BY <1>1, <1>2 DEF Handle
  <2> QED BY <2>1, <2>2, <2>3 DEF HandleInv, TypeOK
<1>5. Ownership'
  <2>1. \A t \in Structs : private_data[t] # n
    BY <1>1 DEF HandleInv, Ownership
  <2>2. \A t \in Structs : private_data'[t] # 0 => private_data'[t] \in handles'
    BY <1>3 DEF HandleInv, Ownership
  <2>3. \A t, u \in Structs : private_data'[t] = private_data'[u] => t = u \/ private_data'[t] = 0
    BY <1>3, <2>1 DEF HandleInv, Ownership
  <2>4. ASSUME NEW h \in handles' PROVE \E t \in Structs : private_data'[t] = h
    <3>1. CASE h = n
      BY <1>3, <3>1
    <3>2. CASE h \in handles
      <4>1. PICK t \in Structs : private_data[t] = h
        BY <3>2 DEF HandleInv, Ownership
      <4>2. h \in 1..issued
        BY <3>2 DEF HandleInv, TypeOK
      <4>3. t # s
        BY <4>1, <4>2
      <4> QED BY <1>3, <4>1, <4>3
    <3> QED BY <3>1, <3>2
  <2> QED BY <2>2, <2>3, <2>4 DEF Ownership
<1>6. Kinds'
  <2> SUFFICES ASSUME NEW t \in Structs, private_data'[t] # 0
               PROVE  Fits(t, object'[private_data'[t]].kind)
    BY DEF Kinds, Fits
  <2>1. CASE t = s
    BY <1>3, <2>1
  <2>2. CASE t # s
    <3>1. private_data'[t] = private_data[t]
      BY <1>3, <2>2
    <3>2. private_data[t] \in handles /\ private_data[t] \in Handle
          /\ Fits(t, object[private_data[t]].kind)
      BY <3>1, LiveHandle
    <3>3. object'[private_data[t]].kind = object[private_data[t]].kind
      BY <1>1, <3>2
    <3> QED BY <3>1, <3>2, <3>3
  <2> QED BY <2>1, <2>2
<1>7. HandleOK(n)'
  <2>1. ErrorOK(adbcErr[n], n \in handles /\ object[n].kind = "stream")'
    BY <1>1 DEF HandleInv, HandleOK, ErrorOK
  <2>2. ObjectOK(object[n], n \in handles)' /\ ~(n > issued')
    BY <1>1 DEF ObjectOK, ContextIsCurrent, Handle
  <2>3. object'[n].kind = "stream" => ReaderOK(reader[n], n \in handles)'
    BY DEF ReaderOK
  <2> QED BY <2>1, <2>2, <2>3 DEF HandleOK
<1>8. ASSUME NEW h \in Handle, h # n PROVE HandleOK(h)'
  <2>1. h \in handles' <=> h \in handles
    BY <1>8
  <2>2. HandleOK(h) /\ TypeOK
    BY DEF HandleInv
  <2>3. CASE object'[h] = object[h]
    BY <1>8, <2>1, <2>2, <2>3, HandleFrame
  <2>4. CASE h \in handles /\ object'[h].kind = object[h].kind /\ ObjectOK(object'[h], TRUE)
    <3>1. ~(h > issued')
      BY <1>1, <2>2, <2>4 DEF TypeOK, Handle
    <3>2. ObjectOK(object[h], h \in handles)'
      BY <2>1, <2>4 DEF ObjectOK, ContextIsCurrent
    <3>3. object'[h].kind = "stream" => ReaderOK(reader[h], h \in handles)'
      BY <1>8, <2>1, <2>2, <2>4 DEF HandleOK, ReaderOK
    <3>4. ErrorOK(adbcErr[h], h \in handles /\ object[h].kind = "stream")'
      BY <2>1, <2>2, <2>4 DEF HandleOK, ErrorOK
    <3> QED BY <2>1, <2>4, <3>1, <3>2, <3>3, <3>4 DEF HandleOK
  <2> QED BY <1>8, <2>3, <2>4
<1> QED BY <1>4, <1>5, <1>6, <1>7, <1>8 DEF HandleInv

\* A call that deletes the handle of a struct, and may change or close what was behind it.
LEMMA DeleteKeeps ==
    ASSUME HandleInv, NEW s \in Structs, private_data[s] # 0, DeleteHandle(s),
           UNCHANGED <<up, issued>>, globalPoison' \in BOOLEAN, globalPoison => globalPoison',
           object' \in [Handle -> Object], reader' \in [Handle -> [refs: Nat, closes: Nat]],
           adbcErr' \in [Handle -> [release: BOOLEAN, blocks: Nat]],
           NEW g \in Handle, g = private_data[s],
           object'[g].kind = object[g].kind, ObjectOK(object'[g], FALSE),
           object'[g].kind = "connection" /\ object'[g].session => globalPoison',
           object'[g].kind = "stream" => ReaderOK(reader'[g], FALSE),
           ErrorOK(adbcErr'[g], FALSE),
           \A h \in Handle \ {g} :
              object'[h] = object[h] /\ reader'[h] = reader[h] /\ adbcErr'[h] = adbcErr[h]
    PROVE  HandleInv'
<1>1. /\ handles' = handles \ {g}
      /\ private_data' = [private_data EXCEPT ![s] = 0]
  BY DEF DeleteHandle
<1>2. /\ private_data \in [Structs -> 0..MaxHandles]
      /\ g <= issued /\ g # 0
  BY LiveHandle DEF HandleInv, TypeOK
<1>3. private_data'[s] = 0 /\ \A t \in Structs \ {s} : private_data'[t] = private_data[t]
  BY <1>1, <1>2
<1>4. TypeOK'
  <2>1. private_data' \in [Structs -> 0..MaxHandles]
    BY <1>1, <1>2, AbiAssumption
  <2> QED BY <1>1, <2>1 DEF HandleInv, TypeOK
<1>5. Ownership'
  <2>1. \A t \in Structs : private_data'[t] # 0 => private_data'[t] \in handles'
    BY <1>1, <1>3 DEF HandleInv, Ownership
  <2>2. \A t, u \in Structs : private_data'[t] = private_data'[u] => t = u \/ private_data'[t] = 0
    BY <1>3 DEF HandleInv, Ownership
  <2>3. \A h \in handles' : \E t \in Structs : private_data'[t] = h
    BY <1>1, <1>3 DEF HandleInv, Ownership
  <2> QED BY <2>1, <2>2, <2>3 DEF Ownership
<1>6. Kinds'
  <2> SUFFICES ASSUME NEW t \in Structs, private_data'[t] # 0
               PROVE  Fits(t, object'[private_data'[t]].kind)
    BY DEF Kinds, Fits
  <2>1. t # s /\ private_data'[t] = private_data[t]
    BY <1>3
  <2>2. private_data[t] \in Handle /\ private_data[t] # g
    BY <2>1, LiveHandle DEF HandleInv, Ownership
  <2> QED BY <2>1, <2>2, LiveHandle
<1>7. HandleOK(g)'
  <2>1. ErrorOK(adbcErr[g], g \in handles /\ object[g].kind = "stream")'
    BY <1>1 DEF ErrorOK
  <2>2. ObjectOK(object[g], g \in handles)'
    BY <1>1 DEF ObjectOK, ContextIsCurrent
  <2>3. object'[g].kind = "stream" => ReaderOK(reader[g], g \in handles)'
    BY <1>1 DEF ReaderOK
  <2>4. ~(g > issued')
    BY <1>2 DEF HandleInv, TypeOK, Handle
  <2> QED BY <2>1, <2>2, <2>3, <2>4, Zenon DEF HandleOK
<1>8. ASSUME NEW h \in Handle, h # g PROVE HandleOK(h)'
  BY <1>1, <1>8, HandleFrame DEF HandleInv
<1> QED BY <1>4, <1>5, <1>6, <1>7, <1>8 DEF HandleInv

\* cgo.NewHandle for a database, a connection or a statement.
LEMMA NewHandleKeeps ==
    ASSUME HandleInv, NEW s \in Structs, private_data[s] = 0, ~globalPoison,
           NEW o \in Object, NewHandle(s, o), UNCHANGED <<up, globalPoison, streamVars>>,
           Fits(s, o.kind), o.kind # "stream", ObjectOK(o, TRUE)
    PROVE  HandleInv'
<1>0. issued < MaxHandles /\ issued \in Nat /\ MaxHandles \in Nat
  BY AbiAssumption DEF HandleInv, TypeOK, NewHandle
<1>1. PICK n \in Handle : n = issued + 1
  BY <1>0 DEF Handle
<1>2. object \in [Handle -> Object] /\ reader \in [Handle -> [refs: Nat, closes: Nat]]
  BY DEF HandleInv, TypeOK
<1>3. /\ issued' = n /\ handles' = handles \cup {n}
      /\ private_data' = [private_data EXCEPT ![s] = n]
      /\ object' = [object EXCEPT ![n] = o]
      /\ UNCHANGED <<up, globalPoison, reader, adbcErr>>
  BY <1>1 DEF NewHandle, streamVars
<1>4. object' \in [Handle -> Object] /\ object'[n] = o
      /\ \A h \in Handle \ {n} : object'[h] = object[h]
  BY <1>2, <1>3
<1> QED BY <1>1, <1>2, <1>3, <1>4, NewKeeps

\* The export of a record reader from a call on a connection or a statement.
LEMMA ExportKeeps ==
    ASSUME HandleInv, NEW s \in Structs, private_data[s] # 0, ~globalPoison,
           NEW t \in Streams, NEW o \in Object, ExportFrom(s, t, o), globalPoison' = FALSE,
           o.kind = object[private_data[s]].kind, ObjectOK(o, TRUE)
    PROVE  HandleInv'
<1>0. issued < MaxHandles /\ issued \in Nat /\ MaxHandles \in Nat
  BY AbiAssumption DEF HandleInv, TypeOK, ExportFrom
<1>1. PICK n \in Handle : n = issued + 1
  BY <1>0 DEF Handle
<1>2. PICK g \in Handle : g = private_data[s]
  BY LiveHandle
<1>3. g # n /\ g \in handles /\ o.kind = object[g].kind
  <2>1. g \in handles /\ g <= issued
    BY <1>2, LiveHandle
  <2> QED BY <1>0, <1>1, <1>2, <2>1
<1>4. object \in [Handle -> Object] /\ reader \in [Handle -> [refs: Nat, closes: Nat]]
  BY DEF HandleInv, TypeOK
<1>5. /\ issued' = n /\ handles' = handles \cup {n} /\ private_data[t] = 0
      /\ private_data' = [private_data EXCEPT ![t] = n]
      /\ object' = [object EXCEPT ![g] = o, ![n] = cArrayStream]
      /\ reader' = [reader EXCEPT ![n] = [refs |-> 1, closes |-> 0]]
      /\ UNCHANGED <<up, adbcErr>>
  BY <1>1, <1>2, ReaderReferences DEF ExportFrom, exportRecordReader
<1>6. cArrayStream \in Object /\ cArrayStream.kind = "stream"
  BY DEF Object, cArrayStream
<1>7. object' \in [Handle -> Object] /\ object'[n] = cArrayStream /\ object'[g] = o
      /\ \A h \in Handle \ {n, g} : object'[h] = object[h]
  BY <1>3, <1>4, <1>5, <1>6
<1>8. reader' \in [Handle -> [refs: Nat, closes: Nat]] /\ ReaderOK(reader'[n], TRUE)
      /\ \A h \in Handle \ {n} : reader'[h] = reader[h]
  BY <1>4, <1>5 DEF ReaderOK
<1>9. Fits(t, "stream") /\ ObjectOK(cArrayStream, TRUE) /\ t \in Structs
  BY <1>6, AbiAssumption DEF Fits, ObjectOK, Structs
<1>10. globalPoison' = globalPoison
  BY DEF HandleInv, TypeOK
<1>11. \A h \in Handle \ {n} :
          \/ object'[h] = object[h]
          \/ h \in handles /\ object'[h].kind = object[h].kind /\ ObjectOK(object'[h], TRUE)
  BY <1>3, <1>7
<1>12. Fits(t, object'[n].kind) /\ ObjectOK(object'[n], TRUE)
  BY <1>6, <1>7, <1>9
<1> QED BY <1>1, <1>5, <1>7, <1>8, <1>9, <1>10, <1>11, <1>12, NewKeeps

---------------------------------------------------------------------------
(* The calls *)

\* What is behind the structs of each kind.
LEMMA LiveDatabase ==
    ASSUME HandleInv, NEW d \in Databases, private_data[d] # 0
    PROVE  d \in Structs /\ object[private_data[d]] \in DatabaseObject
<1>1. d \in Structs
  BY DEF Structs
<1> QED BY <1>1, LiveHandle, KindOfObject DEF Fits

\* The same for connections.
LEMMA LiveConn ==
    ASSUME HandleInv, NEW c \in Connections, private_data[c] # 0
    PROVE  /\ c \in Structs /\ private_data[c] \in Handle
           /\ object[private_data[c]] \in ConnObject
           /\ ObjectOK(object[private_data[c]], TRUE)
           /\ ContextIsCurrent(object[private_data[c]])
           /\ object[private_data[c]].kind = "connection"
<1>1. c \in Structs
  BY DEF Structs
<1>2. /\ object[private_data[c]] \in Object /\ private_data[c] \in Handle
      /\ ObjectOK(object[private_data[c]], TRUE)
      /\ object[private_data[c]].kind = "connection"
  BY <1>1, LiveHandle DEF Fits
<1>3. ContextIsCurrent(object[private_data[c]])
  BY <1>2 DEF ObjectOK
<1> QED BY <1>1, <1>2, <1>3, KindOfObject

\* The same for statements.
LEMMA LiveStatement ==
    ASSUME HandleInv, NEW s \in Statements, private_data[s] # 0
    PROVE  /\ s \in Structs /\ private_data[s] \in Handle
           /\ object[private_data[s]] \in StatementObject
           /\ ContextIsCurrent(object[private_data[s]])
           /\ object[private_data[s]].kind = "statement"
<1>1. s \in Structs
  BY DEF Structs
<1>2. /\ object[private_data[s]] \in Object /\ private_data[s] \in Handle
      /\ ObjectOK(object[private_data[s]], TRUE)
      /\ object[private_data[s]].kind = "statement"
  BY <1>1, LiveHandle DEF Fits
<1>3. ContextIsCurrent(object[private_data[s]])
  BY <1>2 DEF ObjectOK
<1> QED BY <1>1, <1>2, <1>3, KindOfObject

\* A call on a database.
LEMMA DatabaseKeeps ==
    ASSUME HandleInv, NEW d \in Databases,
           \/ DatabaseNew(d) \/ DatabaseInit(d) \/ DatabaseRelease(d)
           \/ DatabaseOption(d) \/ DatabaseSetOption(d)
    PROVE  HandleInv'
<1>0. d \in Structs
  BY DEF Structs
<1>1. ASSUME NEW o \in DatabaseObject, NEW live
      PROVE  o \in Object /\ o.kind = "database" /\ ObjectOK(o, live)
  <2>1. o \in Object /\ o.kind = "database"
    BY <1>1 DEF Object, DatabaseObject
  <2> QED BY <2>1 DEF ObjectOK
<1>2. CASE DatabaseNew(d)
  <2>1. cDatabase \in DatabaseObject
    BY DEF cDatabase, DatabaseObject
  <2>2. Fits(d, "database")
    BY AbiAssumption DEF Fits
  <2> QED BY <1>0, <1>1, <1>2, <2>1, <2>2, NewHandleKeeps DEF DatabaseNew
<1>3. ASSUME NEW o \in DatabaseObject, checkAlloc(d), globalPoison' \in BOOLEAN, Update(d, o)
      PROVE  HandleInv'
  <2>1. private_data[d] # 0 /\ ~globalPoison
    BY <1>3 DEF checkAlloc
  <2>2. object[private_data[d]].kind = "database"
    BY <2>1, LiveDatabase DEF DatabaseObject
  <2> QED BY <1>0, <1>1, <1>3, <2>1, <2>2, UpdateKeeps
<1>4. CASE DatabaseInit(d)
  <2>1. checkAlloc(d) /\ private_data[d] # 0
    BY <1>4 DEF DatabaseInit, checkAlloc
  <2>2. PICK out \in Outcomes :
          /\ Recovered(out = "panic")
          /\ Update(d, [object[private_data[d]] EXCEPT !.impl = IF out = "ok" THEN "open" ELSE @])
    BY <1>4 DEF DatabaseInit
  <2>3. [object[private_data[d]] EXCEPT !.impl = IF out = "ok" THEN "open" ELSE @] \in DatabaseObject
    BY <2>1, LiveDatabase DEF DatabaseObject
  <2> QED BY <1>3, <2>1, <2>2, <2>3 DEF Recovered
<1>5. CASE DatabaseOption(d) \/ DatabaseSetOption(d)
  <2>1. checkAlloc(d) /\ private_data[d] # 0 /\ globalPoison' = TRUE
        /\ Update(d, object[private_data[d]])
    BY <1>5 DEF DatabaseOption, DatabaseSetOption, checkInit, checkAlloc, Recovered
  <2> QED BY <1>3, <2>1, LiveDatabase
<1>6. CASE DatabaseRelease(d)
  <2>1. private_data[d] # 0 /\ DeleteHandle(d)
        /\ object' = [object EXCEPT ![private_data[d]].impl = "nil"]
        /\ UNCHANGED <<up, globalPoison, issued, reader, adbcErr>>
    BY <1>6 DEF DatabaseRelease, checkAlloc, streamVars
  <2>2. PICK g \in Handle : g = private_data[d]
    BY <1>0, <2>1, LiveHandle
  <2>3. /\ object \in [Handle -> Object] /\ reader \in [Handle -> [refs: Nat, closes: Nat]]
        /\ adbcErr \in [Handle -> [release: BOOLEAN, blocks: Nat]] /\ globalPoison \in BOOLEAN
    BY DEF HandleInv, TypeOK
  <2>4. object[g] \in DatabaseObject
    BY <2>1, <2>2, LiveDatabase
  <2> DEFINE o == [object[g] EXCEPT !.impl = "nil"]
  <2>5. o \in DatabaseObject
    BY <2>4 DEF DatabaseObject
  <2>6. object' = [object EXCEPT ![g] = o]
    BY <2>1, <2>2
  <2> HIDE DEF o
  <2>7. object' \in [Handle -> Object] /\ object'[g] = o
        /\ \A h \in Handle \ {g} : object'[h] = object[h]
    BY <1>1, <2>3, <2>5, <2>6
  <2>8. object[g].kind = "database" /\ o.kind = "database" /\ ObjectOK(o, FALSE)
    BY <1>1, <2>4, <2>5
  <2>9. ErrorOK(adbcErr'[g], FALSE)
    <3>1. HandleOK(g)
      BY DEF HandleInv
    <3> QED BY <2>1, <2>8, <3>1 DEF HandleOK, ErrorOK
  <2> QED BY <1>0, <2>1, <2>2, <2>3, <2>7, <2>8, <2>9, DeleteKeeps
<1> QED BY <1>2, <1>4, <1>5, <1>6

\* A connection object is as it should be when its fields are.
LEMMA ConnOK ==
    ASSUME NEW o \in ConnObject, NEW live \in BOOLEAN, ContextIsCurrent(o),
           ~live => o.uncancelled = 0,
           o.ready => o.requested \subseteq o.applied,
           o.impl = "nil" => ~o.ready /\ ~o.session /\ o.requested \subseteq o.initArgs
    PROVE  o \in Object /\ o.kind = "connection" /\ ObjectOK(o, live)
<1>1. o \in Object /\ o.kind = "connection"
  BY DEF Object, ConnObject
<1> QED BY <1>1 DEF ObjectOK

\* Options kept before Init, and set afterwards.
LEMMA SetOptionObject ==
    ASSUME NEW o \in ConnObject, ObjectOK(o, TRUE), o.kind = "connection", NEW k \in Keys, NEW p,
           \/ /\ o.impl = "nil"
              /\ p = [o EXCEPT !.initArgs = @ \cup {k}, !.requested = @ \cup {k}]
           \/ /\ o.impl # "nil"
              /\ \/ p = [o EXCEPT !.applied = @ \cup {k}]
                 \/ p = [o EXCEPT !.applied = @]
    PROVE  p \in ConnObject /\ ObjectOK(p, TRUE)
<1>0. /\ ContextIsCurrent(o)
      /\ o.ready => o.requested \subseteq o.applied
      /\ o.impl = "nil" => ~o.ready /\ ~o.session /\ o.requested \subseteq o.initArgs
  BY DEF ObjectOK
<1> DEFINE Kept == /\ p \in ConnObject
                   /\ p.uncancelled = o.uncancelled /\ p.cancel = o.cancel /\ p.impl = o.impl
                   /\ p.ready = o.ready /\ p.session = o.session
<1>1. Kept /\ (p.ready => p.requested \subseteq p.applied)
      /\ (p.impl = "nil" => ~p.ready /\ ~p.session /\ p.requested \subseteq p.initArgs)
  <2>1. CASE o.impl = "nil"
    <3>1. p = [o EXCEPT !.initArgs = @ \cup {k}, !.requested = @ \cup {k}]
      BY <2>1
    <3>2. Kept /\ p.initArgs = o.initArgs \cup {k} /\ p.requested = o.requested \cup {k}
      BY <3>1 DEF ConnObject
    <3> QED BY <1>0, <2>1, <3>2
  <2>2. CASE o.impl # "nil"
    <3>1. p = [o EXCEPT !.applied = o.applied \cup {k}] \/ p = [o EXCEPT !.applied = o.applied]
      BY <2>2
    <3>2. Kept /\ p.requested = o.requested /\ o.applied \subseteq p.applied
      <4>1. CASE p = [o EXCEPT !.applied = o.applied \cup {k}]
        BY <4>1 DEF ConnObject
      <4>2. CASE p = [o EXCEPT !.applied = o.applied]
        BY <4>2 DEF ConnObject
      <4> QED BY <3>1, <4>1, <4>2
    <3> QED BY <1>0, <2>2, <3>2
  <2> QED BY <2>1, <2>2
<1>3. ContextIsCurrent(p)
  BY <1>0, <1>1 DEF ContextIsCurrent
<1> QED BY <1>1, <1>3, ConnOK

\* Init with every option set, or with only some.
LEMMA InitObject ==
    ASSUME NEW o \in ConnObject, ObjectOK(o, TRUE), o.kind = "connection", o.impl = "nil", NEW p,
           \/ p = [o EXCEPT !.impl = "open", !.session = TRUE, !.initArgs = {},
                            !.ready = TRUE, !.applied = @ \cup o.initArgs]
           \/ \E set \in SUBSET o.initArgs :
                 p = [o EXCEPT !.impl = "open", !.session = TRUE, !.applied = @ \cup set]
    PROVE  p \in ConnObject /\ ObjectOK(p, TRUE)
<1>0. ContextIsCurrent(o) /\ ~o.ready /\ o.requested \subseteq o.initArgs
      /\ o.initArgs \subseteq Keys
  BY DEF ObjectOK, ConnObject
<1>1. CASE p = [o EXCEPT !.impl = "open", !.session = TRUE, !.initArgs = {},
                         !.ready = TRUE, !.applied = @ \cup o.initArgs]
  <2>1. /\ p \in ConnObject
        /\ p.uncancelled = o.uncancelled /\ p.cancel = o.cancel /\ p.impl = "open"
        /\ p.requested = o.requested /\ p.applied = o.applied \cup o.initArgs
    BY <1>0, <1>1 DEF ConnObject
  <2>2. ContextIsCurrent(p)
    BY <1>0, <2>1 DEF ContextIsCurrent
  <2> QED BY <1>0, <2>1, <2>2, ConnOK
<1>2. ASSUME NEW set \in SUBSET o.initArgs,
             p = [o EXCEPT !.impl = "open", !.session = TRUE, !.applied = @ \cup set]
      PROVE  p \in ConnObject /\ ObjectOK(p, TRUE)
  <2>1. /\ p \in ConnObject
        /\ p.uncancelled = o.uncancelled /\ p.cancel = o.cancel /\ p.impl = "open"
        /\ p.ready = o.ready
    BY <1>0, <1>2 DEF ConnObject
  <2>2. ContextIsCurrent(p)
    BY <1>0, <2>1 DEF ContextIsCurrent
  <2> QED BY <1>0, <2>1, <2>2, ConnOK
<1> QED BY <1>1, <1>2

\* A new context, or none, for a connection in use.
LEMMA ContextObject ==
    ASSUME NEW o \in ConnObject, ObjectOK(o, TRUE), o.kind = "connection",
           NEW p, p = cancelContext(o) \/ p = newContext(o)
    PROVE  p \in ConnObject /\ ObjectOK(p, TRUE)
<1>0. /\ ContextIsCurrent(o)
      /\ o.ready => o.requested \subseteq o.applied
      /\ o.impl = "nil" => ~o.ready /\ ~o.session /\ o.requested \subseteq o.initArgs
  BY DEF ObjectOK
<1>1. /\ p \in ConnObject /\ ContextIsCurrent(p)
      /\ p.impl = o.impl /\ p.session = o.session /\ p.initArgs = o.initArgs
      /\ p.applied = o.applied /\ p.requested = o.requested /\ p.ready = o.ready
  BY <1>0, ConnContext
<1> QED BY <1>0, <1>1, ConnOK

\* What is left of a released connection.
LEMMA ReleasedObject ==
    ASSUME NEW o \in ConnObject, ObjectOK(o, TRUE), o.kind = "connection",
           NEW c, c = cancelContext(o), NEW session \in BOOLEAN, NEW p,
           \/ c.impl = "nil" /\ p = Unused(c)
           \/ c.impl # "nil" /\ p = [Unused(c) EXCEPT !.impl = "closed", !.session = session]
    PROVE  /\ p \in Object /\ p.kind = "connection" /\ ObjectOK(p, FALSE)
           /\ p.session => session /\ c.impl # "nil"
<1>0. /\ ContextIsCurrent(o)
      /\ o.impl = "nil" => ~o.session
  BY DEF ObjectOK
<1>1. /\ c \in ConnObject /\ ContextIsCurrent(c) /\ c.uncancelled = 0
      /\ c.impl = o.impl /\ c.session = o.session
  BY <1>0, ConnContext
<1> DEFINE u == Unused(c)
<1>2. u = [c EXCEPT !.initArgs = {}, !.applied = {}, !.requested = {}, !.ready = FALSE]
  BY DEF Unused
<1> HIDE DEF u
<1>3. /\ u \in ConnObject /\ u.uncancelled = 0 /\ u.cancel = c.cancel
      /\ u.requested = {} /\ ~u.ready /\ u.impl = c.impl /\ u.session = c.session
  BY <1>1, <1>2 DEF ConnObject
<1>4. /\ p \in ConnObject /\ p.uncancelled = 0 /\ p.cancel = c.cancel
      /\ p.requested = {} /\ ~p.ready
      /\ p.impl = "nil" => ~p.session
      /\ p.session => session /\ c.impl # "nil"
  <2>1. CASE c.impl = "nil" /\ p = u
    BY <1>0, <1>1, <1>3, <2>1
  <2>2. CASE c.impl # "nil" /\ p = [u EXCEPT !.impl = "closed", !.session = session]
    BY <1>3, <2>2 DEF ConnObject
  <2> QED BY <2>1, <2>2 DEF u
<1>5. ContextIsCurrent(p)
  BY <1>1, <1>4 DEF ContextIsCurrent
<1> QED BY <1>4, <1>5, ConnOK

\* A call on a connection, but for its release.
LEMMA ConnectionKeeps ==
    ASSUME HandleInv, NEW c \in Connections,
           \/ ConnectionNew(c) \/ ConnectionCall(c) \/ ConnectionOption(c) \/ ConnectionCancel(c)
           \/ \E k \in Keys : ConnectionSetOption(c, k)
           \/ \E d \in Databases : ConnectionInit(c, d)
           \/ \E t \in Streams : ConnectionStream(c, t)
    PROVE  HandleInv'
<1>0. c \in Structs
  BY DEF Structs
<1>1. CASE ConnectionNew(c)
  <2>1. cConn \in ConnObject
    BY DEF cConn, ConnObject
  <2>2. cConn \in Object /\ cConn.kind = "connection" /\ ObjectOK(cConn, TRUE)
    BY <2>1, ConnOK DEF cConn, ContextIsCurrent
  <2>3. Fits(c, "connection")
    BY AbiAssumption DEF Fits
  <2> QED BY <1>0, <1>1, <2>2, <2>3, NewHandleKeeps DEF ConnectionNew
<1>2. CASE ~ConnectionNew(c)
  <2>1. checkAlloc(c) /\ private_data[c] # 0 /\ ~globalPoison
    BY <1>2 DEF checkInit, checkAlloc, ConnectionCall, ConnectionOption, ConnectionCancel,
       ConnectionSetOption, ConnectionInit, ConnectionStream
  <2>2. PICK o \in ConnObject : o = object[private_data[c]]
    BY <2>1, LiveConn
  <2>3. ObjectOK(o, TRUE) /\ o.kind = "connection"
    BY <2>1, <2>2, LiveConn
  <2>4. ASSUME NEW p \in ConnObject, ObjectOK(p, TRUE), globalPoison' \in BOOLEAN, Update(c, p)
        PROVE  HandleInv'
    <3>1. p \in Object /\ p.kind = "connection"
      BY <2>4 DEF Object, ConnObject
    <3> QED BY <1>0, <2>1, <2>2, <2>3, <2>4, <3>1, UpdateKeeps
  <2>5. ASSUME NEW out \in Outcomes, Recovered(out = "panic")
        PROVE  globalPoison' \in BOOLEAN
    BY <2>5 DEF Recovered
  <2>6. newContext(o) \in ConnObject /\ ObjectOK(newContext(o), TRUE)
    BY <2>3, ContextObject
  <2>7. cancelContext(o) \in ConnObject /\ ObjectOK(cancelContext(o), TRUE)
    BY <2>3, ContextObject
  <2>8. CASE ConnectionCall(c)
    BY <2>2, <2>4, <2>6, <2>8 DEF ConnectionCall, Recovered
  <2>9. CASE ConnectionOption(c)
    BY <2>2, <2>3, <2>4, <2>9 DEF ConnectionOption, Recovered
  <2>10. CASE ConnectionCancel(c)
    BY <2>2, <2>4, <2>7, <2>10 DEF ConnectionCancel, Recovered
  <2>11. ASSUME NEW k \in Keys, ConnectionSetOption(c, k) PROVE HandleInv'
    <3>1. CASE o.impl = "nil"
      <4> DEFINE p == [o EXCEPT !.initArgs = @ \cup {k}, !.requested = @ \cup {k}]
      <4>1. Recovered(FALSE) /\ Update(c, p)
        BY <2>2, <2>11, <3>1 DEF ConnectionSetOption
      <4> HIDE DEF p
      <4>2. p \in ConnObject /\ ObjectOK(p, TRUE)
        BY <2>3, <3>1, SetOptionObject DEF p
      <4> QED BY <2>4, <4>1, <4>2 DEF Recovered
    <3>2. CASE o.impl # "nil"
      <4>1. PICK out \in Outcomes :
              /\ Recovered(out = "panic")
              /\ Update(c, [o EXCEPT !.applied = IF out = "ok" THEN @ \cup {k} ELSE @])
        BY <2>2, <2>11, <3>2 DEF ConnectionSetOption
      <4> DEFINE p == [o EXCEPT !.applied = IF out = "ok" THEN @ \cup {k} ELSE @]
      <4>2. p = [o EXCEPT !.applied = @ \cup {k}] \/ p = [o EXCEPT !.applied = @]
        OBVIOUS
      <4>3. Recovered(out = "panic") /\ Update(c, p)
        BY <4>1
      <4> HIDE DEF p
      <4>4. p \in ConnObject /\ ObjectOK(p, TRUE)
        BY <2>3, <3>2, <4>2, SetOptionObject
      <4> QED BY <2>4, <2>5, <4>3, <4>4
    <3> QED BY <3>1, <3>2
  <2>12. ASSUME NEW d \in Databases, ConnectionInit(c, d) PROVE HandleInv'
    <3>0. o.impl = "nil"
      BY <2>2, <2>12 DEF ConnectionInit
    <3>1. CASE \E out \in Outcomes \ {"ok"} : Recovered(out = "panic") /\ Update(c, o)
      BY <2>3, <2>4, <2>5, <3>1
    <3>2. ASSUME NEW p, Recovered(FALSE), Update(c, p),
                 p = [o EXCEPT !.impl = "open", !.session = TRUE, !.initArgs = {},
                               !.ready = TRUE, !.applied = @ \cup o.initArgs]
          PROVE  HandleInv'
      <4>1. p \in ConnObject /\ ObjectOK(p, TRUE)
        BY <2>3, <3>0, <3>2, InitObject
      <4> QED BY <2>4, <3>2, <4>1 DEF Recovered
    <3>3. ASSUME NEW out \in Outcomes \ {"ok"}, NEW set \in SUBSET o.initArgs, NEW p,
                 Recovered(out = "panic"), Update(c, p),
                 p = [o EXCEPT !.impl = "open", !.session = TRUE, !.applied = @ \cup set]
          PROVE  HandleInv'
      <4>1. p \in ConnObject /\ ObjectOK(p, TRUE)
        BY <2>3, <3>0, <3>3, InitObject
      <4> QED BY <2>4, <2>5, <3>3, <4>1
    <3> QED BY <2>2, <2>12, <3>1, <3>2, <3>3 DEF ConnectionInit
  <2>13. ASSUME NEW t \in Streams, ConnectionStream(c, t) PROVE HandleInv'
    <3>1. CASE Recovered(FALSE) /\ ExportFrom(c, t, newContext(o))
      <4>1. newContext(o) \in Object /\ newContext(o).kind = "connection"
        BY <2>6 DEF Object, ConnObject
      <4> QED BY <1>0, <2>1, <2>2, <2>3, <2>6, <3>1, <4>1, ExportKeeps DEF Recovered
    <3>2. CASE \E out \in Outcomes \ {"ok"} :
                 Recovered(out = "panic") /\ Update(c, newContext(o))
      BY <2>4, <2>5, <2>6, <3>2
    <3> QED BY <2>2, <2>13, <3>1, <3>2 DEF ConnectionStream
  <2> QED BY <1>2, <2>8, <2>9, <2>10, <2>11, <2>12, <2>13
<1> QED BY <1>1, <1>2

\* ConnectionRelease, whether connectionImpl.Close returns or panics.
LEMMA ConnectionReleaseKeeps ==
    ASSUME HandleInv, NEW c \in Connections, ConnectionRelease(c)
    PROVE  HandleInv'
<1>1. c \in Structs /\ private_data[c] # 0 /\ ~globalPoison /\ DeleteHandle(c)
      /\ UNCHANGED <<up, issued, reader, adbcErr>>
  BY DEF ConnectionRelease, checkAlloc, Structs, streamVars
<1>2. PICK g \in Handle : g = private_data[c]
  BY <1>1, LiveHandle
<1>3. /\ object \in [Handle -> Object] /\ reader \in [Handle -> [refs: Nat, closes: Nat]]
      /\ adbcErr \in [Handle -> [release: BOOLEAN, blocks: Nat]]
  BY DEF HandleInv, TypeOK
<1>4. PICK o \in ConnObject : o = object[g]
  BY <1>1, <1>2, LiveConn
<1>5. ObjectOK(o, TRUE) /\ o.kind = "connection"
  BY <1>1, <1>2, <1>4, LiveConn
<1>6. PICK k : k = cancelContext(o)
  OBVIOUS
<1> DEFINE Effect(p, session) ==
              /\ \/ k.impl = "nil" /\ p = Unused(k)
                 \/ /\ k.impl # "nil"
                    /\ p = [Unused(k) EXCEPT !.impl = "closed", !.session = session]
              /\ object' = [object EXCEPT ![g] = p]
              /\ globalPoison' \in BOOLEAN
              /\ session /\ k.impl # "nil" => globalPoison'
<1>7. \E p : \E session \in BOOLEAN : Effect(p, session)
  <2>1. CASE /\ k.impl = "nil" /\ Recovered(FALSE)
             /\ object' = [object EXCEPT ![g] = Unused(k)]
    <3>1. Effect(Unused(k), FALSE)
      BY <2>1 DEF Recovered
    <3> QED BY <3>1
  <2>2. ASSUME k.impl # "nil", NEW out \in Outcomes, NEW session \in BOOLEAN,
               Recovered(out = "panic"), session => out = "panic",
               object' = [object EXCEPT ![g] =
                             [Unused(k) EXCEPT !.impl = "closed", !.session = session]]
        PROVE  Effect([Unused(k) EXCEPT !.impl = "closed", !.session = session], session)
    BY <2>2 DEF Recovered
  <2> HIDE DEF Effect
  <2> QED BY <1>2, <1>4, <1>6, <2>1, <2>2 DEF ConnectionRelease
<1>8. PICK p : \E session \in BOOLEAN : Effect(p, session)
  BY <1>7
<1>9. PICK session \in BOOLEAN : Effect(p, session)
  BY <1>8
<1>10. /\ p \in Object /\ p.kind = "connection" /\ ObjectOK(p, FALSE)
       /\ p.session => session /\ k.impl # "nil"
  BY <1>5, <1>6, <1>9, ReleasedObject
<1>11. object' \in [Handle -> Object] /\ object'[g] = p
       /\ \A h \in Handle \ {g} : object'[h] = object[h]
  BY <1>3, <1>9, <1>10
<1>12. ErrorOK(adbcErr'[g], FALSE)
  <2>1. HandleOK(g)
    BY DEF HandleInv
  <2> QED BY <1>1, <1>4, <1>5, <2>1 DEF HandleOK, ErrorOK
<1> QED BY <1>1, <1>2, <1>3, <1>4, <1>5, <1>9, <1>10, <1>11, <1>12, DeleteKeeps

\* A statement object is as it should be when its context is current and, once released,
\* it holds neither a context nor bound data.
LEMMA StatementOK ==
    ASSUME NEW o \in StatementObject, NEW live \in BOOLEAN, ContextIsCurrent(o),
           ~live => o.uncancelled = 0 /\ ~o.bound
    PROVE  o \in Object /\ o.kind = "statement" /\ ObjectOK(o, live)
<1>1. o \in Object /\ o.kind = "statement"
  BY DEF Object, StatementObject
<1> QED BY <1>1 DEF ObjectOK

\* Releasing bound data, closing and binding change nothing about contexts.
LEMMA StatementFields ==
    ASSUME NEW o \in StatementObject, ContextIsCurrent(o), NEW b \in BOOLEAN, NEW p,
           \/ p = clearBound(o)
           \/ p = [clearBound(o) EXCEPT !.impl = "closed"]
           \/ p = [o EXCEPT !.bound = b]
    PROVE  p \in StatementObject /\ ContextIsCurrent(p) /\ (p.bound => p = [o EXCEPT !.bound = b])
<1> DEFINE u == clearBound(o)
<1>1. u = [o EXCEPT !.bound = FALSE]
  BY DEF clearBound
<1> HIDE DEF u
<1>2. u \in StatementObject /\ ~u.bound /\ u.cancel = o.cancel /\ u.uncancelled = o.uncancelled
  BY <1>1 DEF StatementObject
<1>3. CASE p = u
  BY <1>2, <1>3 DEF ContextIsCurrent
<1>4. CASE p = [u EXCEPT !.impl = "closed"]
  <2>1. p \in StatementObject /\ ~p.bound /\ p.cancel = u.cancel /\ p.uncancelled = u.uncancelled
    BY <1>2, <1>4 DEF StatementObject
  <2> QED BY <1>2, <2>1 DEF ContextIsCurrent
<1>5. CASE p = [o EXCEPT !.bound = b]
  <2>1. p \in StatementObject /\ p.cancel = o.cancel /\ p.uncancelled = o.uncancelled
    BY <1>5 DEF StatementObject
  <2> QED BY <1>5, <2>1 DEF ContextIsCurrent
<1> QED BY <1>3, <1>4, <1>5 DEF u

\* A call on a statement, but for its release.
LEMMA StatementKeeps ==
    ASSUME HandleInv, NEW s \in Statements,
           \/ \E c \in Connections : StatementNew(c, s)
           \/ StatementCall(s) \/ StatementOption(s) \/ StatementBind(s) \/ StatementCancel(s)
           \/ \E t \in Streams : StatementExecuteQuery(s, t)
    PROVE  HandleInv'
<1>0. s \in Structs
  BY DEF Structs
<1>1. ASSUME NEW c \in Connections, StatementNew(c, s) PROVE HandleInv'
  <2>0. private_data[c] # 0 /\ ~globalPoison /\ private_data[s] = 0
        /\ NewHandle(s, cStmt(private_data[c])) /\ UNCHANGED <<up, globalPoison, streamVars>>
    BY <1>1 DEF StatementNew, checkInit, checkAlloc
  <2>1. PICK o : o = cStmt(private_data[c])
    OBVIOUS
  <2>2. o \in StatementObject /\ o.uncancelled = 0 /\ o.cancel = FALSE
    BY <2>0, <2>1, LiveConn DEF cStmt, StatementObject
  <2>3. o \in Object /\ o.kind = "statement" /\ ObjectOK(o, TRUE)
    BY <2>2, StatementOK DEF ContextIsCurrent
  <2>4. Fits(s, "statement")
    BY AbiAssumption DEF Fits
  <2> QED BY <1>0, <2>0, <2>1, <2>3, <2>4, NewHandleKeeps
<1>2. ASSUME ~\E c \in Connections : StatementNew(c, s) PROVE HandleInv'
  <2>1. private_data[s] # 0 /\ ~globalPoison
    BY <1>2 DEF checkInit, checkAlloc, StatementCall, StatementOption, StatementBind,
       StatementCancel, StatementExecuteQuery
  <2>2. PICK o \in StatementObject : o = object[private_data[s]]
    BY <2>1, LiveStatement
  <2>3. ContextIsCurrent(o) /\ object[private_data[s]].kind = "statement"
    BY <2>1, <2>2, LiveStatement
  <2>4. ASSUME NEW p \in StatementObject, ContextIsCurrent(p), globalPoison' \in BOOLEAN,
               Update(s, p)
        PROVE  HandleInv'
    <3>1. p \in Object /\ p.kind = "statement" /\ ObjectOK(p, TRUE)
      BY <2>4, StatementOK
    <3> QED BY <1>0, <2>1, <2>3, <2>4, <3>1, UpdateKeeps
  <2>5. newContext(o) \in StatementObject /\ ContextIsCurrent(newContext(o))
    BY <2>3, StatementContext
  <2>6. cancelContext(o) \in StatementObject /\ ContextIsCurrent(cancelContext(o))
    BY <2>3, StatementContext
  <2>7. clearBound(o) \in StatementObject /\ ContextIsCurrent(clearBound(o))
    BY <2>3, StatementFields
  <2>8. newContext(clearBound(o)) \in StatementObject
        /\ ContextIsCurrent(newContext(clearBound(o)))
    BY <2>7, StatementContext
  <2>9. ASSUME NEW out \in Outcomes, Recovered(out = "panic")
        PROVE  globalPoison' \in BOOLEAN
    BY <2>9 DEF Recovered
  <2>10. CASE StatementCall(s)
    BY <2>2, <2>4, <2>5, <2>10 DEF StatementCall, Recovered
  <2>11. CASE StatementOption(s)
    BY <2>2, <2>3, <2>4, <2>11 DEF StatementOption, Recovered
  <2>12. CASE StatementCancel(s)
    BY <2>2, <2>4, <2>6, <2>12 DEF StatementCancel, Recovered
  <2>13. CASE StatementBind(s)
    <3>1. PICK out \in Outcomes : Recovered(out = "panic")
             /\ Update(s, [newContext(clearBound(o)) EXCEPT !.bound = out = "ok"])
      BY <2>2, <2>13 DEF StatementBind
    <3>2. PICK p : p = [newContext(clearBound(o)) EXCEPT !.bound = (out = "ok")]
      OBVIOUS
    <3>3. p \in StatementObject /\ ContextIsCurrent(p)
      BY <2>8, <3>2, StatementFields
    <3> QED BY <2>4, <2>9, <3>1, <3>2, <3>3
  <2>14. ASSUME NEW t \in Streams, StatementExecuteQuery(s, t) PROVE HandleInv'
    <3>1. CASE Recovered(FALSE) /\ ExportFrom(s, t, newContext(clearBound(o)))
      <4>1. newContext(clearBound(o)) \in Object
            /\ newContext(clearBound(o)).kind = "statement"
            /\ ObjectOK(newContext(clearBound(o)), TRUE)
        BY <2>8, StatementOK
      <4> QED BY <1>0, <2>1, <2>3, <3>1, <4>1, ExportKeeps DEF Recovered
    <3>2. CASE \E out \in Outcomes :
                 Recovered(out = "panic") /\ Update(s, newContext(clearBound(o)))
      BY <2>4, <2>8, <2>9, <3>2
    <3>3. CASE Recovered(FALSE) /\ Update(s, newContext(o))
      BY <2>4, <2>5, <3>3 DEF Recovered
    <3> QED BY <2>2, <2>14, <3>1, <3>2, <3>3 DEF StatementExecuteQuery
  <2> QED BY <1>2, <2>10, <2>11, <2>12, <2>13, <2>14
<1> QED BY <1>1, <1>2

\* StatementRelease.
LEMMA StatementReleaseKeeps ==
    ASSUME HandleInv, NEW s \in Statements, StatementRelease(s)
    PROVE  HandleInv'
<1>1. s \in Structs /\ private_data[s] # 0 /\ ~globalPoison /\ DeleteHandle(s)
      /\ UNCHANGED <<up, issued, reader, adbcErr>>
  BY DEF StatementRelease, checkAlloc, Structs, streamVars
<1>2. PICK g \in Handle : g = private_data[s]
  BY <1>1, LiveHandle
<1>3. /\ object \in [Handle -> Object] /\ reader \in [Handle -> [refs: Nat, closes: Nat]]
      /\ adbcErr \in [Handle -> [release: BOOLEAN, blocks: Nat]]
  BY DEF HandleInv, TypeOK
<1>4. PICK o \in StatementObject : o = object[g]
  BY <1>1, <1>2, LiveStatement
<1>5. ContextIsCurrent(o) /\ object[g].kind = "statement"
  BY <1>1, <1>2, <1>4, LiveStatement
<1>6. PICK k : k = [clearBound(o) EXCEPT !.impl = "closed"]
  OBVIOUS
<1>7. PICK p : p = cancelContext(k)
  OBVIOUS
<1>8. globalPoison' \in BOOLEAN /\ object' = [object EXCEPT ![g] = p]
  BY <1>2, <1>3, <1>4, <1>6, <1>7 DEF StatementRelease, Recovered
<1>9. k \in StatementObject /\ ContextIsCurrent(k) /\ ~k.bound
  <2>1. PICK u : u = clearBound(o)
    OBVIOUS
  <2>2. u \in StatementObject /\ ~u.bound
    BY <2>1 DEF clearBound, StatementObject
  <2>3. ~k.bound
    BY <1>6, <2>1, <2>2 DEF StatementObject
  <2> QED BY <1>5, <1>6, <2>3, StatementFields
<1>10. p \in StatementObject /\ ContextIsCurrent(p) /\ p.uncancelled = 0 /\ p.bound = k.bound
  BY <1>7, <1>9, StatementContext
<1>11. p \in Object /\ p.kind = "statement" /\ ObjectOK(p, FALSE)
  BY <1>9, <1>10, StatementOK
<1>12. object' \in [Handle -> Object] /\ object'[g] = p
       /\ \A h \in Handle \ {g} : object'[h] = object[h]
  BY <1>3, <1>8, <1>11
<1>13. ErrorOK(adbcErr'[g], FALSE)
  <2>1. HandleOK(g)
    BY DEF HandleInv
  <2> QED BY <1>1, <1>5, <2>1 DEF HandleOK, ErrorOK
<1> QED BY <1>1, <1>2, <1>3, <1>5, <1>8, <1>11, <1>12, <1>13, DeleteKeeps

\* What a struct of a stream points to: a reader with one reference.
LEMMA LiveStream ==
    ASSUME HandleInv, NEW t \in Streams, private_data[t] # 0
    PROVE  /\ t \in Structs /\ private_data[t] \in handles /\ private_data[t] \in Handle
           /\ object[private_data[t]].kind = "stream"
           /\ reader[private_data[t]] = [refs |-> 1, closes |-> 0]
           /\ adbcErr[private_data[t]] \in [release: BOOLEAN, blocks: Nat]
           /\ ErrorOK(adbcErr[private_data[t]], TRUE)
<1>1. t \in Structs
  BY DEF Structs
<1>2. /\ private_data[t] \in handles /\ private_data[t] \in Handle
      /\ object[private_data[t]].kind = "stream" /\ HandleOK(private_data[t])
  BY <1>1, LiveHandle DEF Fits
<1>3. ErrorOK(adbcErr[private_data[t]], TRUE) /\ ReaderOK(reader[private_data[t]], TRUE)
  BY <1>2 DEF HandleOK, ErrorOK, ReaderOK
<1> QED BY <1>1, <1>2, <1>3 DEF HandleInv, TypeOK, ReaderOK

\* GetNext and GetSchema store an error, or end the process.
LEMMA ArrayStreamGetKeeps ==
    ASSUME HandleInv, NEW t \in Streams, ArrayStreamGet(t)
    PROVE  HandleInv'
<1>1. private_data[t] # 0
      /\ UNCHANGED <<globalPoison, private_data, handles, issued, object, reader>>
  BY DEF ArrayStreamGet
<1>2. PICK g \in Handle : g = private_data[t]
  BY <1>1, LiveStream
<1>3. PICK e \in [release: BOOLEAN, blocks: Nat] :
         ErrorOK(e, TRUE) /\ adbcErr' = [adbcErr EXCEPT ![g] = e] /\ up' \in BOOLEAN
  <2>1. adbcErr[g] \in [release: BOOLEAN, blocks: Nat] /\ ErrorOK(adbcErr[g], TRUE)
        /\ up \in BOOLEAN /\ adbcErr \in [Handle -> [release: BOOLEAN, blocks: Nat]]
    BY <1>1, <1>2, LiveStream DEF HandleInv, TypeOK
  <2>2. ASSUME NEW details \in BOOLEAN, UNCHANGED up,
               adbcErr' = [adbcErr EXCEPT ![g] = maybeError(@, details)]
        PROVE  /\ maybeError(adbcErr[g], details) \in [release: BOOLEAN, blocks: Nat]
               /\ ErrorOK(maybeError(adbcErr[g], details), TRUE)
               /\ adbcErr' = [adbcErr EXCEPT ![g] = maybeError(adbcErr[g], details)]
               /\ up' \in BOOLEAN
    BY <2>1, <2>2, ErrorBlocks
  <2>3. CASE up' = FALSE /\ UNCHANGED adbcErr
    <3>1. adbcErr' = [adbcErr EXCEPT ![g] = adbcErr[g]]
      BY <2>1, <2>3
    <3> QED BY <2>1, <2>3, <3>1
  <2> QED BY <1>2, <2>2, <2>3 DEF ArrayStreamGet
<1>4. adbcErr \in [Handle -> [release: BOOLEAN, blocks: Nat]]
  BY DEF HandleInv, TypeOK
<1>5. adbcErr' \in [Handle -> [release: BOOLEAN, blocks: Nat]] /\ adbcErr'[g] = e
      /\ \A h \in Handle \ {g} : adbcErr'[h] = adbcErr[h]
  BY <1>3, <1>4
<1>6. TypeOK'
  BY <1>1, <1>3, <1>5 DEF HandleInv, TypeOK
<1>7. Ownership' /\ Kinds'
  BY <1>1 DEF HandleInv, Ownership, Kinds, Fits
<1>8. ASSUME NEW h \in Handle, h # g PROVE HandleOK(h)'
  BY <1>1, <1>5, <1>8, HandleFrame DEF HandleInv
<1>9. HandleOK(g)'
  <2>1. HandleOK(g) /\ g \in handles /\ object[g].kind = "stream"
    BY <1>1, <1>2, LiveStream DEF HandleInv
  <2>2. ErrorOK(adbcErr[g], g \in handles /\ object[g].kind = "stream")'
    BY <1>1, <1>3, <1>5, <2>1 DEF ErrorOK
  <2>3. ObjectOK(object[g], g \in handles)' /\ ReaderOK(reader[g], g \in handles)'
    BY <1>1, <2>1 DEF HandleOK, ObjectOK, ReaderOK, ContextIsCurrent
  <2> QED BY <1>1, <2>1, <2>2, <2>3 DEF HandleOK
<1> QED BY <1>6, <1>7, <1>8, <1>9 DEF HandleInv

\* The release of a stream closes its reader and frees its error.
LEMMA ArrayStreamReleaseKeeps ==
    ASSUME HandleInv, NEW t \in Streams, ArrayStreamRelease(t)
    PROVE  HandleInv'
<1>1. private_data[t] # 0 /\ DeleteHandle(t) /\ UNCHANGED <<up, globalPoison, issued, object>>
      /\ reader' = [reader EXCEPT ![private_data[t]] = Release(@)]
      /\ adbcErr' = [adbcErr EXCEPT ![private_data[t]] = errRelease(@)]
  BY DEF ArrayStreamRelease
<1>2. PICK g \in Handle : g = private_data[t]
  BY <1>1, LiveStream
<1>3. /\ object \in [Handle -> Object] /\ reader \in [Handle -> [refs: Nat, closes: Nat]]
      /\ adbcErr \in [Handle -> [release: BOOLEAN, blocks: Nat]] /\ globalPoison \in BOOLEAN
  BY DEF HandleInv, TypeOK
<1>4. /\ t \in Structs /\ object[g].kind = "stream" /\ reader[g] = [refs |-> 1, closes |-> 0]
      /\ adbcErr[g] \in [release: BOOLEAN, blocks: Nat] /\ ErrorOK(adbcErr[g], TRUE)
  BY <1>1, <1>2, LiveStream
<1>5. PICK e : e = errRelease(adbcErr[g])
  OBVIOUS
<1>6. e \in [release: BOOLEAN, blocks: Nat] /\ ErrorOK(e, FALSE)
  BY <1>4, <1>5, ErrorBlocks
<1>7. adbcErr' \in [Handle -> [release: BOOLEAN, blocks: Nat]] /\ adbcErr'[g] = e
      /\ \A h \in Handle \ {g} : adbcErr'[h] = adbcErr[h]
  BY <1>1, <1>2, <1>3, <1>5, <1>6
<1>8. reader' = [reader EXCEPT ![g] = [refs |-> 0, closes |-> 1]]
  BY <1>1, <1>2, <1>3, <1>4, ReaderReferences
<1>9. reader' \in [Handle -> [refs: Nat, closes: Nat]] /\ ReaderOK(reader'[g], FALSE)
      /\ \A h \in Handle \ {g} : reader'[h] = reader[h]
  BY <1>3, <1>8 DEF ReaderOK
<1>10. ObjectOK(object'[g], FALSE)
  BY <1>1, <1>4 DEF ObjectOK
<1> QED BY <1>1, <1>2, <1>3, <1>4, <1>6, <1>7, <1>9, <1>10, DeleteKeeps

---------------------------------------------------------------------------
(* The invariant and what follows from it *)

\* An empty table and empty structs agree.
LEMMA InitHandles == Init => HandleInv
<1> SUFFICES ASSUME Init PROVE HandleInv
  OBVIOUS
<1>1. TypeOK
  <2>1. None \in Object /\ NoReader \in [refs: Nat, closes: Nat]
        /\ NoError \in [release: BOOLEAN, blocks: Nat]
    BY DEF Object, NoReader, NoError
  <2>2. issued \in 0..MaxHandles /\ handles \subseteq 1..issued /\ 0 \in 0..MaxHandles
    BY AbiAssumption DEF Init
  <2> QED BY <2>1, <2>2 DEF Init, TypeOK
<1>2. Ownership /\ Kinds
  BY DEF Init, Ownership, Kinds
<1>3. ASSUME NEW h \in Handle PROVE HandleOK(h)
  BY DEF Init, HandleOK, ObjectOK, ErrorOK, None, NoError
<1> QED BY <1>1, <1>2, <1>3 DEF HandleInv

\* Handles, structs and the objects behind them agree after every call.
LEMMA HandleInvariant == Spec => []HandleInv
<1>1. HandleInv /\ [Next]_vars => HandleInv'
  <2> SUFFICES ASSUME HandleInv, [Next]_vars PROVE HandleInv'
    OBVIOUS
  <2>1. CASE UNCHANGED vars
    BY <2>1 DEF vars, HandleInv, TypeOK, Ownership, Kinds, Fits, HandleOK, ObjectOK, ReaderOK,
       ErrorOK, ContextIsCurrent
  <2> QED BY <2>1, DatabaseKeeps, ConnectionKeeps, ConnectionReleaseKeeps, StatementKeeps,
          StatementReleaseKeeps, ArrayStreamGetKeeps, ArrayStreamReleaseKeeps DEF Next
<1> QED BY <1>1, InitHandles, PTL DEF Spec

\* The state of the library keeps its types; no context is cancelled that was never made.
THEOREM AbiTypes == Spec => []TypeOK
<1>1. HandleInv => TypeOK
  BY DEF HandleInv
<1> QED BY <1>1, HandleInvariant, PTL

\* Every handle in the table belongs to exactly one struct, of the kind of its object, and no
\* struct points to a deleted handle: Handle.Value cannot panic, and nothing is kept alive
\* that C code cannot release.
THEOREM NoDanglingHandle == Spec => []HandlesOwned
<1>1. HandleInv => HandlesOwned
  <2> SUFFICES ASSUME HandleInv PROVE HandlesOwned
    OBVIOUS
  <2>1. ASSUME NEW h \in Handle
        PROVE  Cardinality(Owners(h)) = IF h \in handles THEN 1 ELSE 0
    <3>1. CASE h \in handles
      <4>1. PICK s \in Structs : private_data[s] = h
        BY <3>1 DEF HandleInv, Ownership
      <4>2. Owners(h) = {s}
        BY <4>1 DEF HandleInv, Ownership, Owners, Handle
      <4> QED BY <3>1, <4>2, FS_Singleton
    <3>2. CASE h \notin handles
      <4>1. Owners(h) = {}
        BY <3>2 DEF HandleInv, Ownership, Owners, Handle
      <4> QED BY <3>2, <4>1, FS_EmptySet
    <3> QED BY <3>1, <3>2
  <2>2. ASSUME NEW h \in handles
        PROVE  Owners(h) \subseteq CASE object[h].kind = "database"   -> Databases
                                     [] object[h].kind = "connection" -> Connections
                                     [] object[h].kind = "statement"  -> Statements
                                     [] OTHER                         -> Streams
    <3> SUFFICES ASSUME NEW s \in Structs, private_data[s] = h
                 PROVE  s \in CASE object[h].kind = "database"   -> Databases
                                [] object[h].kind = "connection" -> Connections
                                [] object[h].kind = "statement"  -> Statements
                                [] OTHER                         -> Streams
      BY DEF Owners
    <3>1. h # 0
      BY DEF HandleInv, TypeOK
    <3>2. Fits(s, object[h].kind)
      BY <3>1 DEF HandleInv, Kinds
    <3> QED BY <3>2 DEF Fits, Structs
  <2> QED BY <2>1, <2>2 DEF HandlesOwned
<1> QED BY <1>1, HandleInvariant, PTL

\* A DRDA session that is up has a handle through which C code can close it, unless the
\* driver has panicked.
THEOREM SessionsCanBeClosed == Spec => []SessionsOwned
<1>1. HandleInv => SessionsOwned
  BY DEF HandleInv, HandleOK, SessionsOwned
<1> QED BY <1>1, HandleInvariant, PTL

\* A record reader is referenced once while its stream lives and closed once when it is
\* released.
THEOREM ReadersClosedOnce == Spec => []ReadersOwned
<1>1. HandleInv => ReadersOwned
  BY DEF HandleInv, HandleOK, ReaderOK, ReadersOwned
<1> QED BY <1>1, HandleInvariant, PTL

\* Contexts, bound data and error messages do not outlive the handle they belong to, and
\* never more than one of each is held.
THEOREM ReleaseReturnsEverything == Spec => []ResourcesReturned
<1>1. HandleInv => ResourcesReturned
  BY DEF HandleInv, HandleOK, ObjectOK, ErrorOK, ResourcesReturned
<1> QED BY <1>1, HandleInvariant, PTL

\* An Init that returned OK has put every option set before it in force, in whatever order
\* the map of options was walked.
THEOREM InitAppliesOptions == Spec => []OptionsInForce
<1>1. HandleInv => OptionsInForce
  BY DEF HandleInv, HandleOK, ObjectOK, OptionsInForce
<1> QED BY <1>1, HandleInvariant, PTL

\* After a panic no call but those on streams does anything: every entry point tests
\* globalPoison before it issues a handle or touches an object.
THEOREM PoisonIsFinal == Spec => PoisonSticks
<1>1. [Next]_vars => [globalPoison => globalPoison' /\ UNCHANGED <<issued, object>>]_vars
  <2> SUFFICES ASSUME Next, globalPoison
               PROVE  globalPoison' /\ UNCHANGED <<issued, object>>
    OBVIOUS
  <2>1. ASSUME NEW d \in Databases,
               \/ DatabaseNew(d) \/ DatabaseInit(d) \/ DatabaseRelease(d)
               \/ DatabaseOption(d) \/ DatabaseSetOption(d)
        PROVE  FALSE
    BY <2>1 DEF DatabaseNew, DatabaseInit, DatabaseRelease, DatabaseOption, DatabaseSetOption,
       checkInit, checkAlloc
  <2>2. ASSUME NEW c \in Connections,
               \/ ConnectionNew(c) \/ ConnectionRelease(c) \/ ConnectionCall(c)
               \/ ConnectionOption(c) \/ ConnectionCancel(c)
               \/ \E k \in Keys : ConnectionSetOption(c, k)
               \/ \E d \in Databases : ConnectionInit(c, d)
               \/ \E s \in Statements : StatementNew(c, s)
               \/ \E t \in Streams : ConnectionStream(c, t)
        PROVE  FALSE
    BY <2>2 DEF ConnectionNew, ConnectionRelease, ConnectionCall, ConnectionOption,
       ConnectionCancel, ConnectionSetOption, ConnectionInit, StatementNew, ConnectionStream,
       checkInit, checkAlloc
  <2>3. ASSUME NEW s \in Statements,
               \/ StatementRelease(s) \/ StatementCall(s) \/ StatementOption(s)
               \/ StatementBind(s) \/ StatementCancel(s)
               \/ \E t \in Streams : StatementExecuteQuery(s, t)
        PROVE  FALSE
    BY <2>3 DEF StatementRelease, StatementCall, StatementOption, StatementBind,
       StatementCancel, StatementExecuteQuery, checkInit, checkAlloc
  <2>4. ASSUME NEW t \in Streams, ArrayStreamGet(t) \/ ArrayStreamRelease(t)
        PROVE  globalPoison' /\ UNCHANGED <<issued, object>>
    BY <2>4 DEF ArrayStreamGet, ArrayStreamRelease
  <2> QED BY <2>1, <2>2, <2>3, <2>4 DEF Next
<1> QED BY <1>1, PTL DEF Spec, PoisonSticks

=============================================================================
