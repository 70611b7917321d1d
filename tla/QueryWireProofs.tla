-------------------------- MODULE QueryWireProofs ---------------------------
(***************************************************************************)
(* Proofs about QueryWire: whatever the rows, the lengths of requests and  *)
(* values, and the blocks the server cuts its answers into.                *)
(***************************************************************************)
EXTENDS QueryWire, DssFramingProofs, FiniteSetTheorems

---------------------------------------------------------------------------
(* Numbers *)

LEMMA MaxOfTwo ==
    ASSUME NEW a \in Int, NEW b \in Int
    PROVE  Max({a, b}) = IF a >= b THEN a ELSE b
<1>1. \E x \in {a, b} : \A y \in {a, b} : x >= y
  OBVIOUS
<1>2. PICK m : m = Max({a, b})
  OBVIOUS
<1>3. m \in {a, b} /\ \A y \in {a, b} : m >= y
  BY <1>1, <1>2 DEF Max
<1> QED BY <1>2, <1>3

LEMMA DivBounds ==
    ASSUME NEW a \in Nat, NEW b \in Nat, b > 0
    PROVE  a \div b \in Nat /\ (a \div b) * b <= a /\ a < (a \div b) * b + b
OBVIOUS

LEMMA TimesMono ==
    ASSUME NEW a \in Nat, NEW b \in Nat, NEW c \in Nat, a <= b
    PROVE  a * c <= b * c
OBVIOUS

\* n bytes in blocks of size: every block but the last is full, and the last ends at n.
BlockCount(n, size) == (n + size - 1) \div size
Cut(n, size, i) == Min({n, i * size})

LEMMA CutLower ==
    ASSUME NEW n \in Nat, NEW size \in Nat, size > 0, NEW i \in 1..BlockCount(n, size)
    PROVE  (i - 1) * size \in Nat /\ (i - 1) * size < n /\ i * size = (i - 1) * size + size
<1> DEFINE k == BlockCount(n, size)
<1>1. n + size - 1 \in Nat
  OBVIOUS
<1>2. k \in Nat /\ k * size <= n + size - 1 /\ n + size - 1 < k * size + size
  BY <1>1, DivBounds DEF BlockCount
<1> HIDE DEF k
<1>3. i - 1 \in Nat /\ i - 1 <= k - 1 /\ k - 1 \in Nat
  BY <1>2 DEF k
<1>4. (i - 1) * size <= (k - 1) * size
  BY <1>3, TimesMono
<1>5. (k - 1) * size = k * size - size /\ i * size = (i - 1) * size + size
  BY <1>2, <1>3
<1> QED BY <1>2, <1>3, <1>4, <1>5

LEMMA BlockCuts ==
    ASSUME NEW n \in Nat, NEW size \in Nat, size > 0
    PROVE  /\ BlockCount(n, size) \in Nat
           /\ Cut(n, size, 0) = 0 /\ Cut(n, size, BlockCount(n, size)) = n
           /\ n > 0 => BlockCount(n, size) > 0
<1> DEFINE k == BlockCount(n, size)
<1>1. n + size - 1 \in Nat
  OBVIOUS
<1>2. k \in Nat /\ k * size <= n + size - 1 /\ n + size - 1 < k * size + size
  BY <1>1, DivBounds DEF BlockCount
<1> HIDE DEF k
<1>3. k * size \in Int /\ n <= k * size /\ 0 * size = 0
  BY <1>2
<1>4. Cut(n, size, k) = n
  BY <1>3, MinOfTwo DEF Cut
<1>5. Cut(n, size, 0) = 0
  BY <1>3, MinOfTwo DEF Cut
<1>6. n > 0 => k > 0
  <2>1. k = 0 => k * size = 0
    BY <1>2
  <2> QED BY <1>2, <1>3, <2>1
<1> QED BY <1>2, <1>4, <1>5, <1>6 DEF k

LEMMA CutStep ==
    ASSUME NEW n \in Nat, NEW size \in Nat, size > 0, NEW i \in 1..BlockCount(n, size)
    PROVE  /\ Cut(n, size, i) \in Nat /\ Cut(n, size, i - 1) \in Nat
           /\ Cut(n, size, i - 1) = (i - 1) * size
           /\ Cut(n, size, i - 1) < Cut(n, size, i) /\ Cut(n, size, i) <= n
<1>1. (i - 1) * size \in Nat /\ (i - 1) * size < n /\ i * size = (i - 1) * size + size
  BY CutLower
<1>2. PICK a : a = (i - 1) * size
  OBVIOUS
<1>3. PICK b : b = i * size
  OBVIOUS
<1>4. a \in Nat /\ a < n /\ b = a + size
  BY <1>1, <1>2, <1>3, Zenon
<1>5. Min({n, a}) = a /\ Min({n, b}) \in Nat /\ a < Min({n, b}) /\ Min({n, b}) <= n
  BY <1>4, MinOfTwo
<1> QED BY <1>2, <1>3, <1>4, <1>5, Zenon DEF Cut

---------------------------------------------------------------------------
(* Objects *)

\* Every byte on the wire is a byte of a row, of a request or of a status.
Parts == {"nullca", "ca", "ind", "col", "notnull", "null", "ref", "sql", "par", "lob", "status",
          "eod", "error", "ok"}
CodePoints == {"PRPSQLSTT", "SQLSTT", "EXCSQLSTT", "SQLDTA", "EXTDTA", "OPNQRY", "CNTQRY",
               "OPNQRYRM", "QRYDSC", "QRYDTA", "ENDQRYRM", "SQLCARD"}
WireByte == [row: Int, part: Parts]
Wire == WireByte \cup CodePoints
Objs == Objects(Wire)
WireTypes == rest \in Seq(WireByte) /\ fromServer \in Seq(Items(Wire))

LEMMA Names ==
    /\ "PRPSQLSTT" \in CodePoints /\ "SQLSTT" \in CodePoints /\ "EXCSQLSTT" \in CodePoints
    /\ "SQLDTA" \in CodePoints /\ "EXTDTA" \in CodePoints /\ "OPNQRY" \in CodePoints
    /\ "CNTQRY" \in CodePoints /\ "OPNQRYRM" \in CodePoints /\ "QRYDSC" \in CodePoints
    /\ "QRYDTA" \in CodePoints /\ "ENDQRYRM" \in CodePoints /\ "SQLCARD" \in CodePoints
    /\ "sql" \in Parts /\ "par" \in Parts /\ "lob" \in Parts /\ "status" \in Parts
    /\ "eod" \in Parts /\ "error" \in Parts /\ "ok" \in Parts /\ 0 \in Int
    /\ "nullca" \in Parts /\ "ca" \in Parts /\ "ind" \in Parts /\ "col" \in Parts
    /\ "notnull" \in Parts /\ "null" \in Parts /\ "ref" \in Parts
<1>1. 0 \in Int
  OBVIOUS
<1> QED BY <1>1, Zenon DEF CodePoints, Parts

LEMMA ByteType ==
    ASSUME NEW row \in Int, NEW part \in Parts
    PROVE  Byte(row, part) \in WireByte /\ Byte(row, part).row = row /\ Byte(row, part).part = part
BY DEF Byte, WireByte

LEMMA ObjType ==
    ASSUME NEW cp \in CodePoints, NEW body \in Seq(WireByte)
    PROVE  /\ NewObject(cp, body) \in Objs
           /\ NewObject(cp, body).cp = cp /\ NewObject(cp, body).body = body
<1>1. body \in Seq(Wire)
  BY DEF Wire
<1>2. cp \in Wire
  BY Zenon DEF Wire
<1> QED BY <1>1, <1>2, NewObjectType DEF Objs

LEMMA EmptyObj ==
    ASSUME NEW cp \in CodePoints
    PROVE  NewObject(cp, <<>>) \in Objs /\ NewObject(cp, <<>>).cp = cp /\ NewObject(cp, <<>>).body = <<>>
<1>1. <<>> \in Seq(WireByte)
  OBVIOUS
<1> QED BY <1>1, ObjType, Zenon

LEMMA ByteObj ==
    ASSUME NEW cp \in CodePoints, NEW row \in Int, NEW part \in Parts
    PROVE  /\ <<Byte(row, part)>> \in Seq(WireByte)
           /\ NewObject(cp, <<Byte(row, part)>>) \in Objs
           /\ NewObject(cp, <<Byte(row, part)>>).cp = cp
           /\ NewObject(cp, <<Byte(row, part)>>).body = <<Byte(row, part)>>
<1>1. <<Byte(row, part)>> \in Seq(WireByte)
  BY ByteType, SingleType, Zenon
<1> QED BY <1>1, ObjType, Zenon

LEMMA FcnSeq ==
    ASSUME NEW S, NEW n \in Nat, NEW f \in [1..n -> S]
    PROVE  f \in Seq(S) /\ Len(f) = n
OBVIOUS

LEMMA ContentType ==
    ASSUME NEW n \in Nat, NEW part \in Parts
    PROVE  Content(n, part) \in Seq(WireByte)
<1>1. \A k \in 1..n : Byte(k, part) \in WireByte
  BY DEF Byte, WireByte
<1>2. Content(n, part) \in [1..n -> WireByte]
  BY <1>1, Zenon DEF Content
<1> QED BY <1>2, FcnSeq, Zenon

---------------------------------------------------------------------------
(* Sending *)

\* A transmission is the chain of its objects, whether the last is marked when it is written
\* or afterwards.
LEMMA Written ==
    ASSUME NEW objects \in Seq(Objs), Len(objects) > 0, buf = <<>>
    PROVE  /\ Write(objects, TRUE) = FlattenSeq(Dsses(objects, TRUE, 4))
           /\ UnchainLast(Write(objects, FALSE)) = FlattenSeq(Dsses(objects, TRUE, 4))
<1>0. objects \in Seq(Objects(Wire))
  BY Zenon DEF Objs
<1>1. ASSUME NEW last \in BOOLEAN PROVE Write(objects, last) = FlattenSeq(Dsses(objects, last, 4))
  <2>1. 4 \in {0, 4}
    OBVIOUS
  <2>2. FlattenSeq(Dsses(objects, last, 4)) \in Seq(Items(Wire))
    BY <1>0, <2>1, ChainBytes, Zenon
  <2>3. PICK s : s = FlattenSeq(Dsses(objects, last, 4))
    OBVIOUS
  <2>4. <<>> \o s = s
    BY <2>2, <2>3
  <2>5. Write(objects, last) = buf \o FlattenSeq(Dsses(objects, last, 4))
    BY Zenon DEF Write, WriteRequest, Dsses
  <2> QED BY <2>3, <2>4, <2>5, Zenon
<1>2. 4 \in {0, 4} /\ TRUE \in BOOLEAN /\ FALSE \in BOOLEAN
  OBVIOUS
<1>3. Write(objects, TRUE) = FlattenSeq(Dsses(objects, TRUE, 4))
  BY <1>1, <1>2, Zenon
<1>4. Write(objects, FALSE) = FlattenSeq(Dsses(objects, FALSE, 4))
  BY <1>1, <1>2, Zenon
<1>5. UnchainLast(FlattenSeq(Dsses(objects, FALSE, 4))) = FlattenSeq(Dsses(objects, TRUE, 4))
  BY <1>0, <1>2, LastUnchained, Zenon
<1> QED BY <1>3, <1>4, <1>5, Zenon

LEMMA Flushed ==
    ASSUME NEW objects \in Seq(Objs), Len(objects) > 0, toServer = <<>>, NEW then,
           Flush(FlattenSeq(Dsses(objects, TRUE, 4)), objects, then)
    PROVE  /\ toServer' # <<>> /\ buf' = <<>> /\ got' = <<>> /\ pc' = then
           /\ Took' = [ok |-> TRUE, chain |-> meant', rest |-> <<>>]
<1>0. objects \in Seq(Objects(Wire)) /\ 4 \in {0, 4} /\ TRUE \in BOOLEAN
  BY Zenon DEF Objs
<1>1. PICK s : s = FlattenSeq(Dsses(objects, TRUE, 4))
  OBVIOUS
<1>2. s \in Seq(Items(Wire)) /\ s # <<>>
  BY <1>0, <1>1, ChainBytes, Zenon
<1>3. <<>> \o s = s
  BY <1>2
<1>4. toServer' = toServer \o s /\ buf' = <<>> /\ got' = <<>> /\ pc' = then
  BY <1>1, Zenon DEF Flush
<1>5. toServer' = s
  BY <1>3, <1>4, Zenon
<1>6. meant' = Messages(objects)
  BY Zenon DEF Flush, Messages
<1>7. ReadChain(s) = [ok |-> TRUE, chain |-> Messages(objects), rest |-> <<>>]
  BY <1>0, <1>1, ReadsWholeChain, Zenon
<1>8. Took' = ReadChain(toServer')
  BY Zenon DEF Took
<1> QED BY <1>2, <1>4, <1>5, <1>6, <1>7, <1>8, Zenon

---------------------------------------------------------------------------
(* Answers *)

LEMMA FlattenType ==
    ASSUME NEW I, NEW ss \in Seq(Seq(I))
    PROVE  FlattenSeq(ss) \in Seq(I)
<1>1. Len(ss) \in 0..Len(ss)
  OBVIOUS
<1> QED BY <1>1, FlattenIsCat, CatType, Zenon

LEMMA EmptyStream ==
    /\ ~ReadChain(<<>>).ok
    /\ ~Invalid.ok
<1>1. <<>> \in Seq(Items(Wire)) /\ Len(<<>>) = 0 /\ 1 > 0 /\ 1 \in 1..(Len(<<>>) + 1)
  OBVIOUS
<1>2. ~Invalid.ok
  BY DEF Invalid
<1>3. ReadDSS(<<>>, 1) = Invalid
  BY <1>1, Zenon DEF ReadDSS
<1>4. ReadChain(<<>>) = ChainStep(<<>>, ChainFcn(<<>>), 1)
  <2>1. PICK w : w = <<>>
    OBVIOUS
  <2>2. w \in Seq(Items(Wire)) /\ 1 \in 1..(Len(w) + 1)
    BY <1>1, <2>1, Zenon
  <2>3. ReadChain(w) = ChainFcn(w)[1]
    BY ReadChainIsFcn, Zenon
  <2>4. ChainFcn(w)[1] = ChainStep(w, ChainFcn(w), 1)
    BY <2>2, ChainFcnExists
  <2> QED BY <2>1, <2>3, <2>4, Zenon
<1>5. ReadChain(<<>>) = Invalid
  BY <1>2, <1>3, <1>4, Zenon DEF ChainStep
<1> QED BY <1>2, <1>5, Zenon

\* An answer is one chain, read whole.
LEMMA Answered ==
    ASSUME NEW objects \in Seq(Objs), Len(objects) > 0, fromServer = <<>>, Send(objects)
    PROVE  /\ fromServer' \in Seq(Items(Wire)) /\ fromServer' # <<>>
           /\ Replies' = [ok |-> TRUE, chain |-> Messages(objects), rest |-> <<>>]
<1>0. objects \in Seq(Objects(Wire)) /\ 0 \in {0, 4} /\ TRUE \in BOOLEAN
  BY Zenon DEF Objs
<1>1. PICK s : s = FlattenSeq(Dsses(objects, TRUE, 0))
  OBVIOUS
<1>2. s \in Seq(Items(Wire)) /\ s # <<>>
  BY <1>0, <1>1, ChainBytes, Zenon
<1>3. <<>> \o s = s
  BY <1>2
<1>4. \A i \in 1..Len(objects) : (i < Len(objects)) = (~(TRUE /\ i = Len(objects)))
  OBVIOUS
<1>5. [i \in 1..Len(objects) |-> WriteDSS(objects[i], i < Len(objects), 0)] = Dsses(objects, TRUE, 0)
  BY <1>4, Zenon DEF Dsses
<1>6. fromServer' = fromServer \o s
  BY <1>1, <1>5, Zenon DEF Send
<1>7. fromServer' = s
  BY <1>3, <1>6, Zenon
<1>8. ReadChain(s) = [ok |-> TRUE, chain |-> Messages(objects), rest |-> <<>>]
  BY <1>0, <1>1, ReadsWholeChain, Zenon
<1>9. Replies' = ReadChain(fromServer')
  BY Zenon DEF Replies
<1> QED BY <1>2, <1>7, <1>8, <1>9, Zenon

\* The LOBs that go with a block, byte by byte.
LobReplies(block) ==
    [k \in 1..Len(block) |->
        IF block[k].part # "ref" THEN <<>>
        ELSE <<NewObject("EXTDTA", <<Byte(block[k].row, "status"), Byte(block[k].row, "lob")>>)>>]

LEMMA LobObj ==
    ASSUME NEW row \in Int
    PROVE  /\ <<Byte(row, "status"), Byte(row, "lob")>> \in Seq(WireByte)
           /\ NewObject("EXTDTA", <<Byte(row, "status"), Byte(row, "lob")>>) \in Objs
<1>1. Byte(row, "status") \in WireByte /\ Byte(row, "lob") \in WireByte
  BY ByteType, Names, Zenon
<1>2. PICK a \in WireByte, b \in WireByte : a = Byte(row, "status") /\ b = Byte(row, "lob")
  BY <1>1, Zenon
<1>3. <<a, b>> \in Seq(WireByte)
  OBVIOUS
<1>4. <<Byte(row, "status"), Byte(row, "lob")>> \in Seq(WireByte)
  BY <1>2, <1>3, Zenon
<1> QED BY <1>4, ObjType, Names, Zenon

LEMMA LobRepliesType ==
    ASSUME NEW block \in Seq(WireByte)
    PROVE  LobReplies(block) \in Seq(Seq(Objs)) /\ Len(LobReplies(block)) = Len(block)
<1>1. ASSUME NEW k \in 1..Len(block)
      PROVE  (IF block[k].part # "ref" THEN <<>>
              ELSE <<NewObject("EXTDTA", <<Byte(block[k].row, "status"), Byte(block[k].row, "lob")>>)>>)
                \in Seq(Objs)
  <2>1. block[k] \in WireByte
    OBVIOUS
  <2>2. block[k].row \in Int
    BY <2>1 DEF WireByte
  <2>3. <<>> \in Seq(Objs)
    OBVIOUS
  <2>4. <<NewObject("EXTDTA", <<Byte(block[k].row, "status"), Byte(block[k].row, "lob")>>)>> \in Seq(Objs)
    BY <2>2, LobObj, SingleType, Zenon
  <2> QED BY <2>3, <2>4, Zenon
<1>2. LobReplies(block) \in [1..Len(block) -> Seq(Objs)]
  BY <1>1, Zenon DEF LobReplies
<1>3. Len(block) \in Nat
  OBVIOUS
<1> QED BY <1>2, <1>3, FcnSeq, Zenon

LEMMA BlockReplyType ==
    ASSUME NEW block \in Seq(WireByte)
    PROVE  /\ BlockReply(block) = <<NewObject("QRYDTA", block)>> \o FlattenSeq(LobReplies(block))
           /\ FlattenSeq(LobReplies(block)) \in Seq(Objs)
           /\ NewObject("QRYDTA", block) \in Objs
           /\ BlockReply(block) \in Seq(Objs) /\ Len(BlockReply(block)) > 0
<1>1. BlockReply(block) = <<NewObject("QRYDTA", block)>> \o FlattenSeq(LobReplies(block))
  BY Zenon DEF BlockReply, LobReplies
<1>2. FlattenSeq(LobReplies(block)) \in Seq(Objs)
  BY LobRepliesType, FlattenType, Zenon
<1>3. NewObject("QRYDTA", block) \in Objs
  BY ObjType, Names, Zenon
<1>4. PICK o \in Objs : o = NewObject("QRYDTA", block)
  BY <1>3, Zenon
<1>5. PICK t \in Seq(Objs) : t = FlattenSeq(LobReplies(block))
  BY <1>2, Zenon
<1>6. <<o>> \o t \in Seq(Objs) /\ Len(<<o>> \o t) > 0
  OBVIOUS
<1> QED BY <1>1, <1>2, <1>3, <1>4, <1>5, <1>6, Zenon

\* The blocks of an answer, each with its LOBs.
BlockList(n, size) ==
    [i \in 1..BlockCount(n, size) |-> BlockReply(SubSeq(rest, Cut(n, size, i - 1) + 1, Cut(n, size, i)))]

LEMMA BlockListType ==
    ASSUME rest \in Seq(WireByte), NEW n \in 0..Len(rest), NEW size \in Nat, size > 0
    PROVE  /\ BlockList(n, size) \in Seq(Seq(Objs))
           /\ Len(BlockList(n, size)) = BlockCount(n, size)
           /\ Blocks(n, size) = FlattenSeq(BlockList(n, size))
           /\ \A i \in 1..BlockCount(n, size) :
                /\ SubSeq(rest, Cut(n, size, i - 1) + 1, Cut(n, size, i)) \in Seq(WireByte)
                /\ Len(BlockList(n, size)[i]) > 0
<1>1. n \in Nat /\ n <= Len(rest) /\ Len(rest) \in Nat
  OBVIOUS
<1>2. BlockCount(n, size) \in Nat
  BY <1>1, BlockCuts
<1>3. ASSUME NEW i \in 1..BlockCount(n, size)
      PROVE  /\ SubSeq(rest, Cut(n, size, i - 1) + 1, Cut(n, size, i)) \in Seq(WireByte)
             /\ BlockReply(SubSeq(rest, Cut(n, size, i - 1) + 1, Cut(n, size, i))) \in Seq(Objs)
             /\ Len(BlockReply(SubSeq(rest, Cut(n, size, i - 1) + 1, Cut(n, size, i)))) > 0
             /\ SubSeq(rest, (i - 1) * size + 1, Min({n, i * size}))
                  = SubSeq(rest, Cut(n, size, i - 1) + 1, Cut(n, size, i))
  <2>1. /\ Cut(n, size, i) \in Nat /\ Cut(n, size, i - 1) \in Nat
        /\ Cut(n, size, i - 1) = (i - 1) * size
        /\ Cut(n, size, i - 1) < Cut(n, size, i) /\ Cut(n, size, i) <= n
    BY <1>1, CutStep
  <2>2. PICK a \in Nat, b \in Nat : a = Cut(n, size, i - 1) /\ b = Cut(n, size, i)
    BY <2>1, Zenon
  <2>3. a <= b /\ b <= Len(rest)
    BY <1>1, <2>1, <2>2
  <2>4. SubSeq(rest, a + 1, b) \in Seq(WireByte)
    BY <2>3, SubSeqType, Zenon
  <2>5. Cut(n, size, i) = Min({n, i * size})
    BY Zenon DEF Cut
  <2> QED BY <2>1, <2>2, <2>4, <2>5, BlockReplyType, Zenon
<1>4. BlockList(n, size) \in [1..BlockCount(n, size) -> Seq(Objs)]
  BY <1>3, Zenon DEF BlockList
<1>5. BlockList(n, size) \in Seq(Seq(Objs)) /\ Len(BlockList(n, size)) = BlockCount(n, size)
  BY <1>2, <1>4, FcnSeq, Zenon
<1>6. \A i \in 1..BlockCount(n, size) : Len(BlockList(n, size)[i]) > 0
  BY <1>3, Zenon DEF BlockList
<1>7. [i \in 1..((n + size - 1) \div size) |->
         BlockReply(SubSeq(rest, (i - 1) * size + 1, Min({n, i * size})))] = BlockList(n, size)
  <2>1. 1..((n + size - 1) \div size) = 1..BlockCount(n, size)
    BY Zenon DEF BlockCount
  <2> QED BY <1>3, <2>1, Zenon DEF BlockList
<1>8. Blocks(n, size) = FlattenSeq(BlockList(n, size))
  BY <1>7, Zenon DEF Blocks
<1> QED BY <1>3, <1>5, <1>6, <1>8, Zenon

LEMMA BlocksType ==
    ASSUME rest \in Seq(WireByte), NEW n \in 0..Len(rest), NEW size \in Nat, size > 0
    PROVE  Blocks(n, size) \in Seq(Objs) /\ (n > 0 => Len(Blocks(n, size)) > 0)
<1> DEFINE ss == BlockList(n, size)
           k == BlockCount(n, size)
<1>1. ss \in Seq(Seq(Objs)) /\ Len(ss) = k /\ Blocks(n, size) = FlattenSeq(ss)
  BY BlockListType
<1>2. \A i \in 1..k : Len(ss[i]) > 0
  BY BlockListType
<1> HIDE DEF ss
<1>3. Blocks(n, size) \in Seq(Objs)
  BY <1>1, FlattenType, Zenon
<1>4. ASSUME n > 0 PROVE Len(Blocks(n, size)) > 0
  <2>0. n \in Nat
    OBVIOUS
  <2>1. k \in Nat /\ k > 0
    BY <1>4, <2>0, BlockCuts
  <2> HIDE DEF k
  <2>2. k \in 1..Len(ss) /\ k - 1 \in 0..Len(ss) /\ k \in 1..k
    BY <1>1, <2>1
  <2>3. Cat(ss)[k] = Cat(ss)[k - 1] \o ss[k]
    BY <1>1, <2>2, CatNext, Zenon
  <2>4. Blocks(n, size) = Cat(ss)[k]
    BY <1>1, FlattenIsCat, Zenon
  <2>5. Cat(ss)[k - 1] \in Seq(Objs)
    BY <1>1, <2>2, CatType, Zenon
  <2>6. ss[k] \in Seq(Objs)
    BY <1>1, <2>2
  <2>7. PICK a \in Seq(Objs), b \in Seq(Objs) : a = Cat(ss)[k - 1] /\ b = ss[k]
    BY <2>5, <2>6, Zenon
  <2>8. Len(b) > 0
    BY <1>2, <2>2, <2>7, Zenon
  <2>9. Len(a \o b) > 0
    BY <2>8
  <2> QED BY <2>3, <2>4, <2>7, <2>9, Zenon
<1> QED BY <1>3, <1>4, Zenon

Hows == {"more", "end", "eod", "error", "short"}

LEMMA AnswerParts ==
    ASSUME NEW to, NEW how \in Hows
    PROVE  /\ AnswerHead(to) \in Seq(Objs) /\ AnswerEnd(how) \in Seq(Objs)
           /\ to = "open" => Len(AnswerHead(to)) > 0
           /\ how # "more" => Len(AnswerEnd(how)) > 0
<1>1. PICK a \in Objs, b \in Objs : a = NewObject("OPNQRYRM", <<>>) /\ b = NewObject("QRYDSC", <<>>)
  BY EmptyObj, Names, Zenon
<1>2. /\ <<>> \in Seq(Objs)
      /\ <<a, b>> \in Seq(Objs) /\ Len(<<a, b>>) > 0
  OBVIOUS
<1>3. AnswerHead(to) \in Seq(Objs) /\ (to = "open" => Len(AnswerHead(to)) > 0)
  BY <1>1, <1>2, Zenon DEF AnswerHead
<1>4. PICK e \in Objs, c \in Objs :
        e = NewObject("ENDQRYRM", <<>>) /\ c = NewObject("SQLCARD", <<Byte(0, "eod")>>)
  BY EmptyObj, ByteObj, Names, Zenon
<1>5. PICK d \in Objs, f \in Objs :
        /\ d = NewObject("QRYDTA", <<Byte(0, "eod")>>)
        /\ f = NewObject("SQLCARD", <<Byte(0, "error")>>)
  BY ByteObj, Names, Zenon
<1>6. /\ <<e, c>> \in Seq(Objs) /\ Len(<<e, c>>) > 0
      /\ <<d>> \in Seq(Objs) /\ Len(<<d>>) > 0
      /\ <<f>> \in Seq(Objs) /\ Len(<<f>>) > 0
  OBVIOUS
<1>7. CASE how = "more"
  <2>1. AnswerEnd(how) = <<>>
    BY <1>7 DEF AnswerEnd
  <2> QED BY <1>2, <1>3, <1>7, <2>1, Zenon
<1>8. CASE how \in {"end", "short"}
  <2>1. AnswerEnd(how) = EndOfQuery
    BY <1>8 DEF AnswerEnd
  <2>2. EndOfQuery = <<e, c>>
    BY <1>4, Zenon DEF EndOfQuery
  <2> QED BY <1>3, <1>6, <2>1, <2>2, Zenon
<1>9. CASE how = "eod"
  <2>1. AnswerEnd(how) = <<NewObject("QRYDTA", <<Byte(0, "eod")>>)>>
    BY <1>9 DEF AnswerEnd
  <2> QED BY <1>3, <1>5, <1>6, <2>1, Zenon
<1>10. CASE how = "error"
  <2>1. AnswerEnd(how) = Failure
    BY <1>10 DEF AnswerEnd
  <2>2. Failure = <<f>>
    BY <1>5, Zenon DEF Failure
  <2> QED BY <1>3, <1>6, <2>1, <2>2, Zenon
<1> QED BY <1>7, <1>8, <1>9, <1>10 DEF Hows

---------------------------------------------------------------------------
(* Rows *)

RowParts == {"nullca", "ca", "ind", "col", "notnull", "null", "ref"}
CaLen(r)  == IF r.warn THEN 2 ELSE 1
RowLen(r) == CaLen(r) + 2 + (IF r.lob THEN 2 ELSE 1)

\* What the bytes of an encoded row are.
RowShape(i, r, e) ==
    /\ e \in Seq(WireByte) /\ Len(e) = RowLen(r)
    /\ e[1].part = (IF r.warn THEN "ca" ELSE "nullca")
    /\ e[CaLen(r) + 3].part = (IF r.lob THEN "notnull" ELSE "null")
    /\ r.lob => e[CaLen(r) + 4].part = "ref"
    /\ \A k \in 1..Len(e) : e[k].row = i /\ e[k].part \in RowParts
    /\ \A k \in 1..(Len(e) - 1) : e[k].part \notin {"null", "ref"}

LEMMA EncodedRow ==
    ASSUME NEW i \in Int, NEW r \in ResultRows
    PROVE  RowShape(i, r, EncodeRow(i, r))
<1>0. ASSUME NEW part \in RowParts
      PROVE  \E b \in WireByte : b = Byte(i, part) /\ b.row = i /\ b.part = part
  <2>1. part \in Parts
    BY Zenon DEF RowParts, Parts
  <2> QED BY <2>1, ByteType, Zenon
<1>1. PICK nc \in WireByte : nc = Byte(i, "nullca") /\ nc.row = i /\ nc.part = "nullca"
  BY <1>0, Zenon DEF RowParts
<1>2. PICK ca \in WireByte : ca = Byte(i, "ca") /\ ca.row = i /\ ca.part = "ca"
  BY <1>0, Zenon DEF RowParts
<1>3. PICK d \in WireByte : d = Byte(i, "ind") /\ d.row = i /\ d.part = "ind"
  BY <1>0, Zenon DEF RowParts
<1>4. PICK c \in WireByte : c = Byte(i, "col") /\ c.row = i /\ c.part = "col"
  BY <1>0, Zenon DEF RowParts
<1>5. PICK nn \in WireByte : nn = Byte(i, "notnull") /\ nn.row = i /\ nn.part = "notnull"
  BY <1>0, Zenon DEF RowParts
<1>6. PICK nu \in WireByte : nu = Byte(i, "null") /\ nu.row = i /\ nu.part = "null"
  BY <1>0, Zenon DEF RowParts
<1>7. PICK re \in WireByte : re = Byte(i, "ref") /\ re.row = i /\ re.part = "ref"
  BY <1>0, Zenon DEF RowParts
<1>8. [k \in 1..CaLength |-> Byte(i, "ca")] = <<ca, ca>>
  BY <1>2 DEF CaLength
<1>9. EncodeRow(i, r) = (IF r.warn THEN <<ca, ca>> ELSE <<nc>>) \o <<d, c>>
                        \o (IF r.lob THEN <<nn, re>> ELSE <<nu>>)
  BY <1>1, <1>2, <1>3, <1>4, <1>5, <1>6, <1>7, <1>8, Zenon DEF EncodeRow
<1>10. CASE r.warn /\ r.lob
  <2>1. PICK e : e = <<ca, ca>> \o <<d, c>> \o <<nn, re>>
    OBVIOUS
  <2>2. PICK f : f = <<ca, ca>> \o <<d, c>>
    OBVIOUS
  <2>7. f \in Seq(WireByte) /\ Len(f) = 4 /\ f[1] = ca /\ f[2] = ca /\ f[3] = d /\ f[4] = c
    BY <2>2
  <2>8. e = f \o <<nn, re>>
    BY <2>1, <2>2, Zenon
  <2>9. PICK g : g = f \o <<nn, re>>
    OBVIOUS
  <2>10. /\ g \in Seq(WireByte) /\ Len(g) = Len(f) + 2
         /\ g[Len(f) + 1] = nn /\ g[Len(f) + 2] = re
         /\ \A k \in 1..Len(f) : g[k] = f[k]
    <3>1. f \in Seq(WireByte)
      BY <2>7, Zenon
    <3> QED BY <2>9, <3>1
  <2>3. EncodeRow(i, r) = e
    BY <1>9, <1>10, <2>1, Zenon
  <2>4. CaLen(r) = 2 /\ RowLen(r) = 6
    BY <1>10 DEF CaLen, RowLen
  <2>5. e \in Seq(WireByte) /\ Len(e) = 6 /\ e[1] = ca /\ e[2] = ca /\ e[3] = d /\ e[4] = c
        /\ e[5] = nn /\ e[6] = re
    BY <2>7, <2>8, <2>9, <2>10
  <2>6. RowShape(i, r, e)
    BY <1>2, <1>3, <1>4, <1>5, <1>7, <1>10, <2>4, <2>5 DEF RowShape, RowParts
  <2> QED BY <2>3, <2>6, Zenon
<1>11. CASE r.warn /\ ~r.lob
  <2>1. PICK e : e = <<ca, ca>> \o <<d, c>> \o <<nu>>
    OBVIOUS
  <2>2. PICK f : f = <<ca, ca>> \o <<d, c>>
    OBVIOUS
  <2>7. f \in Seq(WireByte) /\ Len(f) = 4 /\ f[1] = ca /\ f[2] = ca /\ f[3] = d /\ f[4] = c
    BY <2>2
  <2>8. e = f \o <<nu>>
    BY <2>1, <2>2, Zenon
  <2>9. PICK g : g = f \o <<nu>>
    OBVIOUS
  <2>10. /\ g \in Seq(WireByte) /\ Len(g) = Len(f) + 1
         /\ g[Len(f) + 1] = nu
         /\ \A k \in 1..Len(f) : g[k] = f[k]
    <3>1. f \in Seq(WireByte)
      BY <2>7, Zenon
    <3> QED BY <2>9, <3>1
  <2>3. EncodeRow(i, r) = e
    BY <1>9, <1>11, <2>1, Zenon
  <2>4. CaLen(r) = 2 /\ RowLen(r) = 5
    BY <1>11 DEF CaLen, RowLen
  <2>5. e \in Seq(WireByte) /\ Len(e) = 5 /\ e[1] = ca /\ e[2] = ca /\ e[3] = d /\ e[4] = c
        /\ e[5] = nu
    BY <2>7, <2>8, <2>9, <2>10
  <2>6. RowShape(i, r, e)
    BY <1>2, <1>3, <1>4, <1>6, <1>11, <2>4, <2>5 DEF RowShape, RowParts
  <2> QED BY <2>3, <2>6, Zenon
<1>12. CASE ~r.warn /\ r.lob
  <2>1. PICK e : e = <<nc>> \o <<d, c>> \o <<nn, re>>
    OBVIOUS
  <2>2. PICK f : f = <<nc>> \o <<d, c>>
    OBVIOUS
  <2>7. f \in Seq(WireByte) /\ Len(f) = 3 /\ f[1] = nc /\ f[2] = d /\ f[3] = c
    BY <2>2
  <2>8. e = f \o <<nn, re>>
    BY <2>1, <2>2, Zenon
  <2>9. PICK g : g = f \o <<nn, re>>
    OBVIOUS
  <2>10. /\ g \in Seq(WireByte) /\ Len(g) = Len(f) + 2
         /\ g[Len(f) + 1] = nn /\ g[Len(f) + 2] = re
         /\ \A k \in 1..Len(f) : g[k] = f[k]
    <3>1. f \in Seq(WireByte)
      BY <2>7, Zenon
    <3> QED BY <2>9, <3>1
  <2>3. EncodeRow(i, r) = e
    BY <1>9, <1>12, <2>1, Zenon
  <2>4. CaLen(r) = 1 /\ RowLen(r) = 5
    BY <1>12 DEF CaLen, RowLen
  <2>5. e \in Seq(WireByte) /\ Len(e) = 5 /\ e[1] = nc /\ e[2] = d /\ e[3] = c
        /\ e[4] = nn /\ e[5] = re
    BY <2>7, <2>8, <2>9, <2>10
  <2>6. RowShape(i, r, e)
    BY <1>1, <1>3, <1>4, <1>5, <1>7, <1>12, <2>4, <2>5 DEF RowShape, RowParts
  <2> QED BY <2>3, <2>6, Zenon
<1>13. CASE ~r.warn /\ ~r.lob
  <2>1. PICK e : e = <<nc>> \o <<d, c>> \o <<nu>>
    OBVIOUS
  <2>2. PICK f : f = <<nc>> \o <<d, c>>
    OBVIOUS
  <2>7. f \in Seq(WireByte) /\ Len(f) = 3 /\ f[1] = nc /\ f[2] = d /\ f[3] = c
    BY <2>2
  <2>8. e = f \o <<nu>>
    BY <2>1, <2>2, Zenon
  <2>9. PICK g : g = f \o <<nu>>
    OBVIOUS
  <2>10. /\ g \in Seq(WireByte) /\ Len(g) = Len(f) + 1
         /\ g[Len(f) + 1] = nu
         /\ \A k \in 1..Len(f) : g[k] = f[k]
    <3>1. f \in Seq(WireByte)
      BY <2>7, Zenon
    <3> QED BY <2>9, <3>1
  <2>3. EncodeRow(i, r) = e
    BY <1>9, <1>13, <2>1, Zenon
  <2>4. CaLen(r) = 1 /\ RowLen(r) = 4
    BY <1>13 DEF CaLen, RowLen
  <2>5. e \in Seq(WireByte) /\ Len(e) = 4 /\ e[1] = nc /\ e[2] = d /\ e[3] = c
        /\ e[4] = nu
    BY <2>7, <2>8, <2>9, <2>10
  <2>6. RowShape(i, r, e)
    BY <1>1, <1>3, <1>4, <1>6, <1>13, <2>4, <2>5 DEF RowShape, RowParts
  <2> QED BY <2>3, <2>6, Zenon
<1> QED BY <1>10, <1>11, <1>12, <1>13, Zenon

\* The rows' bytes one after the other.
EncodedRows(rows) == [i \in 1..Len(rows) |-> EncodeRow(i, rows[i])]

LEMMA EncodedType ==
    ASSUME NEW rows \in Seq(ResultRows)
    PROVE  /\ EncodedRows(rows) \in Seq(Seq(WireByte)) /\ Len(EncodedRows(rows)) = Len(rows)
           /\ Encode(rows) = Cat(EncodedRows(rows))[Len(rows)]
           /\ Encode(rows) \in Seq(WireByte)
           /\ \A i \in 1..Len(rows) : RowShape(i, rows[i], EncodedRows(rows)[i])
<1>1. ASSUME NEW i \in 1..Len(rows) PROVE RowShape(i, rows[i], EncodeRow(i, rows[i]))
  <2>1. i \in Int /\ rows[i] \in ResultRows
    OBVIOUS
  <2> QED BY <2>1, EncodedRow, Zenon
<1>2. \A i \in 1..Len(rows) : EncodeRow(i, rows[i]) \in Seq(WireByte)
  BY <1>1, Zenon DEF RowShape
<1>3. EncodedRows(rows) \in [1..Len(rows) -> Seq(WireByte)] /\ Len(rows) \in Nat
  <2>1. Len(rows) \in Nat
    OBVIOUS
  <2> QED BY <1>2, <2>1, Zenon DEF EncodedRows
<1>4. EncodedRows(rows) \in Seq(Seq(WireByte)) /\ Len(EncodedRows(rows)) = Len(rows)
  BY <1>3, FcnSeq, Zenon
<1>5. Encode(rows) = FlattenSeq(EncodedRows(rows))
  BY Zenon DEF Encode, EncodedRows
<1>6. \A i \in 1..Len(rows) : RowShape(i, rows[i], EncodedRows(rows)[i])
  BY <1>1, Zenon DEF EncodedRows
<1>7. Encode(rows) = Cat(EncodedRows(rows))[Len(rows)] /\ Encode(rows) \in Seq(WireByte)
  BY <1>4, <1>5, FlattenType, FlattenIsCat, Zenon
<1> QED BY <1>4, <1>6, <1>7, Zenon

---------------------------------------------------------------------------
(* Requests arrive as they were meant *)

LEMMA ResultType ==
    ASSUME Init
    PROVE  result \in Seq(ResultRows) /\ Len(result) \in Nat /\ Len(result) <= MaxRows
<1>1. MaxRows \in Nat
  BY WireAssumption
<1>2. PICK m \in 0..MaxRows : result \in [1..m -> ResultRows]
  BY <1>1 DEF Init, BoundedSeq, SeqOf
<1>3. m \in Nat /\ m <= MaxRows
  BY <1>1
<1>4. result \in Seq(ResultRows) /\ Len(result) = m
  BY <1>2, <1>3, FcnSeq, Zenon
<1> QED BY <1>3, <1>4, Zenon

LEMMA InitWire == Init => WireInv /\ WireTypes
<1> SUFFICES ASSUME Init PROVE WireInv /\ WireTypes
  OBVIOUS
<1>1. rest \in Seq(WireByte)
  BY ResultType, EncodedType, Zenon DEF Init
<1>2. <<>> \in Seq(Items(Wire))
  OBVIOUS
<1>3. WireTypes
  BY <1>1, <1>2, Zenon DEF WireTypes, Init
<1>4. WireInv
  BY Zenon DEF Init, WireInv
<1> QED BY <1>3, <1>4, Zenon

\* Only a stream that has something in it is read.
LEMMA Ready ==
    ASSUME WireInv, Replies.ok
    PROVE  fromServer # <<>> /\ ~cut /\ toServer = <<>> /\ Replies.rest = <<>> /\ buf = <<>>
<1>1. fromServer # <<>>
  BY EmptyStream, Zenon DEF Replies
<1> QED BY <1>1, Zenon DEF WireInv

LEMMA WireSame ==
    ASSUME WireInv, buf' = <<>>, UNCHANGED <<meant, toServer, fromServer, got, cut>>,
           pc' = pc \/ (pc' = "lost" /\ pc # "idle")
    PROVE  WireInv'
<1>1. Took' = Took /\ Replies' = Replies
  BY Zenon DEF Took, Replies
<1>2. /\ meant' = meant /\ toServer' = toServer /\ fromServer' = fromServer /\ got' = got
      /\ cut' = cut
  BY Zenon
<1>3. pc' \in {"idle", "batch", "open", "fetch", "lost"} /\ (pc' = "idle" => pc = "idle")
  BY Zenon DEF WireInv
<1>4. (cut' => cut) /\ (~cut' => ~cut) /\ (Replies'.ok <=> Replies.ok) /\ Replies'.rest = Replies.rest
  BY <1>1, <1>2
<1>5. pc' = "idle" => toServer' = <<>> /\ fromServer' = <<>> /\ ~cut'
  BY <1>2, <1>3, <1>4, Zenon DEF WireInv
<1>6. cut' => toServer' = <<>> /\ ~Replies'.ok
  BY <1>2, <1>4, Zenon DEF WireInv
<1>7. toServer' # <<>> =>
         /\ fromServer' = <<>> /\ got' = <<>>
         /\ Took' = [ok |-> TRUE, chain |-> meant', rest |-> <<>>]
  BY <1>1, <1>2, Zenon DEF WireInv
<1>8. /\ got' # <<>> => got' = meant' /\ toServer' = <<>>
      /\ fromServer' # <<>> /\ ~cut' => Replies'.ok /\ Replies'.rest = <<>>
  BY <1>2, <1>4, Zenon DEF WireInv
<1> QED BY <1>3, <1>5, <1>6, <1>7, <1>8, Zenon DEF WireInv

\* A request goes out when nothing is on the way.
LEMMA WireSends ==
    ASSUME WireInv, NEW objects \in Seq(Objs), Len(objects) > 0, toServer = <<>>,
           NEW then \in {"batch", "open", "fetch"},
           Flush(FlattenSeq(Dsses(objects, TRUE, 4)), objects, then),
           fromServer' = <<>>, ~cut'
    PROVE  WireInv'
<1>1. /\ toServer' # <<>> /\ buf' = <<>> /\ got' = <<>> /\ pc' = then
      /\ Took' = [ok |-> TRUE, chain |-> meant', rest |-> <<>>]
  BY Flushed, Zenon
<1>2. then # "idle" /\ then \in {"idle", "batch", "open", "fetch", "lost"}
  OBVIOUS
<1> QED BY <1>1, <1>2, Zenon DEF WireInv

\* An answer has been read to its end.
LEMMA WireReads ==
    ASSUME WireInv, Replies.ok, fromServer' = Replies.rest, pc' = "idle",
           UNCHANGED <<buf, meant, toServer, got, cut>>
    PROVE  WireInv'
<1>1. ~cut /\ toServer = <<>> /\ Replies.rest = <<>> /\ buf = <<>>
  BY Ready, Zenon
<1>2. toServer' = <<>> /\ fromServer' = <<>> /\ ~cut' /\ got' = got /\ meant' = meant /\ buf' = <<>>
  BY <1>1, Zenon
<1>3. got' # <<>> => got' = meant'
  BY <1>2, Zenon DEF WireInv
<1> QED BY <1>2, <1>3, Zenon DEF WireInv

\* The parts of a batch, and what a query sends, are objects.
LEMMA BatchObjects ==
    ASSUME NEW inline \in BodySizes, NEW lob \in BodySizes \cup {0}
    PROVE  LET head == <<NewObject("PRPSQLSTT", <<>>), NewObject("SQLSTT", Content(1, "sql"))>>
               row  == <<NewObject("EXCSQLSTT", <<>>), NewObject("SQLDTA", Content(inline, "par"))>>
                       \o (IF lob = 0 THEN <<>> ELSE <<NewObject("EXTDTA", Content(lob, "lob"))>>)
           IN  head \o row \o row \in Seq(Objs) /\ Len(head \o row \o row) > 0
<1>1. 1 \in Nat /\ inline \in Nat /\ lob \in Nat
  BY WireAssumption
<1>2. /\ Content(1, "sql") \in Seq(WireByte) /\ Content(inline, "par") \in Seq(WireByte)
      /\ Content(lob, "lob") \in Seq(WireByte)
  BY <1>1, ContentType, Names, Zenon
<1>3. PICK a \in Objs : a = NewObject("PRPSQLSTT", <<>>)
  BY EmptyObj, Names, Zenon
<1>4. PICK b \in Objs : b = NewObject("SQLSTT", Content(1, "sql"))
  BY <1>2, ObjType, Names, Zenon
<1>5. PICK c \in Objs : c = NewObject("EXCSQLSTT", <<>>)
  BY EmptyObj, Names, Zenon
<1>6. PICK d \in Objs : d = NewObject("SQLDTA", Content(inline, "par"))
  BY <1>2, ObjType, Names, Zenon
<1>7. PICK e \in Objs : e = NewObject("EXTDTA", Content(lob, "lob"))
  BY <1>2, ObjType, Names, Zenon
<1>8. PICK t \in Seq(Objs) : t = IF lob = 0 THEN <<>> ELSE <<e>>
  <2>1. <<>> \in Seq(Objs) /\ <<e>> \in Seq(Objs)
    OBVIOUS
  <2> QED BY <2>1, Zenon
<1>9. PICK row \in Seq(Objs) : row = <<c, d>> \o t
  <2>1. <<c, d>> \o t \in Seq(Objs)
    OBVIOUS
  <2> QED BY <2>1, Zenon
<1>10. <<a, b>> \o row \o row \in Seq(Objs) /\ Len(<<a, b>> \o row \o row) > 0
  OBVIOUS
<1> QED BY <1>3, <1>4, <1>5, <1>6, <1>7, <1>8, <1>9, <1>10, Zenon

LEMMA QueryObjects ==
    ASSUME NEW n \in BodySizes
    PROVE  LET objects == <<NewObject("PRPSQLSTT", <<>>), NewObject("SQLSTT", Content(n, "sql")),
                            NewObject("OPNQRY", <<>>)>>
           IN  objects \in Seq(Objs) /\ Len(objects) > 0
<1>1. n \in Nat
  BY WireAssumption
<1>2. Content(n, "sql") \in Seq(WireByte)
  BY <1>1, ContentType, Names, Zenon
<1>3. PICK a \in Objs : a = NewObject("PRPSQLSTT", <<>>)
  BY EmptyObj, Names, Zenon
<1>4. PICK b \in Objs : b = NewObject("SQLSTT", Content(n, "sql"))
  BY <1>2, ObjType, Names, Zenon
<1>5. PICK c \in Objs : c = NewObject("OPNQRY", <<>>)
  BY EmptyObj, Names, Zenon
<1>6. <<a, b, c>> \in Seq(Objs) /\ Len(<<a, b, c>>) > 0
  OBVIOUS
<1> QED BY <1>3, <1>4, <1>5, <1>6, Zenon

LEMMA NextObject == <<NewObject("CNTQRY", <<>>)>> \in Seq(Objs) /\ Len(<<NewObject("CNTQRY", <<>>)>>) > 0
<1>1. PICK a \in Objs : a = NewObject("CNTQRY", <<>>)
  BY EmptyObj, Names, Zenon
<1>2. <<a>> \in Seq(Objs) /\ Len(<<a>>) > 0
  OBVIOUS
<1> QED BY <1>1, <1>2, Zenon

LEMMA ExecBatchWire ==
    ASSUME WireInv, WireTypes, ExecBatch
    PROVE  WireInv' /\ WireTypes'
<1>1. pc = "idle" /\ UNCHANGED <<fromServer, rest, cut>>
  BY Zenon DEF ExecBatch
<1>2. buf = <<>> /\ toServer = <<>> /\ fromServer = <<>> /\ ~cut
  BY <1>1, Zenon DEF WireInv
<1>3. WireTypes'
  BY <1>1, Zenon DEF WireTypes
<1>4. PICK inline \in BodySizes, lob \in BodySizes \cup {0}, bad \in BOOLEAN :
         LET head    == <<NewObject("PRPSQLSTT", <<>>), NewObject("SQLSTT", Content(1, "sql"))>>
             row     == <<NewObject("EXCSQLSTT", <<>>), NewObject("SQLDTA", Content(inline, "par"))>>
                        \o (IF lob = 0 THEN <<>> ELSE <<NewObject("EXTDTA", Content(lob, "lob"))>>)
             objects == head \o row \o row
         IN  IF bad
             THEN /\ Reset(Write(head \o row, FALSE))
                  /\ UNCHANGED <<toServer, meant, got, pc>>
             ELSE Flush(UnchainLast(Write(objects, FALSE)), objects, "batch")
  BY Zenon DEF ExecBatch
<1> DEFINE head    == <<NewObject("PRPSQLSTT", <<>>), NewObject("SQLSTT", Content(1, "sql"))>>
           row     == <<NewObject("EXCSQLSTT", <<>>), NewObject("SQLDTA", Content(inline, "par"))>>
                      \o (IF lob = 0 THEN <<>> ELSE <<NewObject("EXTDTA", Content(lob, "lob"))>>)
           objects == head \o row \o row
<1>5. objects \in Seq(Objs) /\ Len(objects) > 0
  BY BatchObjects, Zenon
<1>6. CASE bad
  <2>1. Reset(Write(head \o row, FALSE)) /\ UNCHANGED <<toServer, meant, got, pc>>
    BY <1>4, <1>6, Zenon
  <2>2. buf' = <<>>
    BY <2>1, Zenon DEF Reset
  <2>3. UNCHANGED <<meant, toServer, fromServer, got, cut>> /\ pc' = pc
    BY <1>1, <2>1, Zenon
  <2> QED BY <1>3, <2>2, <2>3, WireSame, Zenon
<1>7. CASE ~bad
  <2>1. Flush(UnchainLast(Write(objects, FALSE)), objects, "batch")
    BY <1>4, <1>7, Zenon
  <2> HIDE DEF objects
  <2>2. Flush(FlattenSeq(Dsses(objects, TRUE, 4)), objects, "batch")
    BY <1>2, <1>5, <2>1, Written, Zenon
  <2>3. fromServer' = <<>> /\ ~cut' /\ "batch" \in {"batch", "open", "fetch"}
    BY <1>1, <1>2, Zenon
  <2> QED BY <1>2, <1>3, <1>5, <2>2, <2>3, WireSends, Zenon
<1> QED BY <1>6, <1>7, Zenon

LEMMA QueryWireStep ==
    ASSUME WireInv, WireTypes, Query
    PROVE  WireInv' /\ WireTypes'
<1>1. pc = "idle" /\ UNCHANGED <<fromServer, rest, cut>>
  BY Zenon DEF Query
<1>2. buf = <<>> /\ toServer = <<>> /\ fromServer = <<>> /\ ~cut
  BY <1>1, Zenon DEF WireInv
<1>3. WireTypes'
  BY <1>1, Zenon DEF WireTypes
<1>4. PICK n \in BodySizes :
         LET objects == <<NewObject("PRPSQLSTT", <<>>), NewObject("SQLSTT", Content(n, "sql")),
                          NewObject("OPNQRY", <<>>)>>
         IN  Flush(Write(objects, TRUE), objects, "open")
  BY Zenon DEF Query
<1> DEFINE objects == <<NewObject("PRPSQLSTT", <<>>), NewObject("SQLSTT", Content(n, "sql")),
                        NewObject("OPNQRY", <<>>)>>
<1>5. objects \in Seq(Objs) /\ Len(objects) > 0
  BY QueryObjects, Zenon
<1>6. Flush(Write(objects, TRUE), objects, "open")
  BY <1>4, Zenon
<1> HIDE DEF objects
<1>7. Flush(FlattenSeq(Dsses(objects, TRUE, 4)), objects, "open")
  BY <1>2, <1>5, <1>6, Written, Zenon
<1>8. fromServer' = <<>> /\ ~cut' /\ "open" \in {"batch", "open", "fetch"}
  BY <1>1, <1>2, Zenon
<1> QED BY <1>2, <1>3, <1>5, <1>7, <1>8, WireSends, Zenon

LEMMA SendCNTQRYWire ==
    ASSUME WireInv, buf = <<>>, toServer = <<>>, fromServer' = <<>>, ~cut', NEW round, SendCNTQRY(round)
    PROVE  WireInv'
<1> DEFINE objects == <<NewObject("CNTQRY", <<>>)>>
<1>1. objects \in Seq(Objs) /\ Len(objects) > 0
  BY NextObject, Zenon
<1>2. Flush(Write(objects, TRUE), objects, "fetch")
  BY Zenon DEF SendCNTQRY
<1> HIDE DEF objects
<1>3. Flush(FlattenSeq(Dsses(objects, TRUE, 4)), objects, "fetch") /\ "fetch" \in {"batch", "open", "fetch"}
  BY <1>1, <1>2, Written, Zenon
<1> QED BY <1>1, <1>3, WireSends, Zenon

LEMMA QueryNextWire ==
    ASSUME WireInv, WireTypes, QueryNext
    PROVE  WireInv' /\ WireTypes'
<1>1. pc = "idle" /\ UNCHANGED <<fromServer, rest, cut>>
  BY Zenon DEF QueryNext
<1>2. buf = <<>> /\ toServer = <<>> /\ fromServer = <<>> /\ ~cut
  BY <1>1, Zenon DEF WireInv
<1>3. WireTypes'
  BY <1>1, Zenon DEF WireTypes
<1>4. CASE UNCHANGED <<pc, attempt, buf, meant, toServer, got, status>>
  <2>1. buf' = <<>> /\ UNCHANGED <<meant, toServer, fromServer, got, cut>> /\ pc' = pc
    BY <1>1, <1>2, <1>4, Zenon
  <2> QED BY <1>3, <2>1, WireSame, Zenon
<1>5. CASE UNCHANGED <<pc, attempt, q, buf, meant, toServer, got, delivered>>
  <2>1. buf' = <<>> /\ UNCHANGED <<meant, toServer, fromServer, got, cut>> /\ pc' = pc
    BY <1>1, <1>2, <1>5, Zenon
  <2> QED BY <1>3, <2>1, WireSame, Zenon
<1>6. CASE SendCNTQRY(1)
  <2>1. fromServer' = <<>> /\ ~cut'
    BY <1>1, <1>2, Zenon
  <2> QED BY <1>2, <1>3, <1>6, <2>1, SendCNTQRYWire, Zenon
<1> QED BY <1>4, <1>5, <1>6, Zenon DEF QueryNext

LEMMA BatchDoneWire ==
    ASSUME WireInv, WireTypes, BatchDone
    PROVE  WireInv' /\ WireTypes'
<1>1. Replies.ok /\ fromServer' = Replies.rest /\ pc' = "idle"
      /\ UNCHANGED <<buf, meant, toServer, got, cut>> /\ UNCHANGED rest
  BY Zenon DEF BatchDone
<1>2. <<>> \in Seq(Items(Wire))
  OBVIOUS
<1>3. WireTypes'
  BY <1>1, <1>2, Ready, Zenon DEF WireTypes
<1> QED BY <1>1, <1>3, WireReads, Zenon

LEMMA OpenedWire ==
    ASSUME WireInv, WireTypes, Opened
    PROVE  WireInv' /\ WireTypes'
<1>1. Replies.ok /\ fromServer' = Replies.rest /\ pc' = "idle"
      /\ UNCHANGED <<buf, meant, toServer, got, cut>> /\ UNCHANGED rest
  BY Zenon DEF Opened
<1>2. <<>> \in Seq(Items(Wire))
  OBVIOUS
<1>3. WireTypes'
  BY <1>1, <1>2, Ready, Zenon DEF WireTypes
<1> QED BY <1>1, <1>3, WireReads, Zenon

LEMMA FetchedWire ==
    ASSUME WireInv, WireTypes, Fetched
    PROVE  WireInv' /\ WireTypes'
<1>1. Replies.ok /\ fromServer' = Replies.rest /\ UNCHANGED <<rest, cut>>
  BY Zenon DEF Fetched
<1>2. <<>> \in Seq(Items(Wire))
  OBVIOUS
<1>3. WireTypes' /\ fromServer' = <<>> /\ ~cut' /\ buf = <<>> /\ toServer = <<>>
  BY <1>1, <1>2, Ready, Zenon DEF WireTypes
<1>4. \/ /\ pc' = "idle"
         /\ UNCHANGED <<buf, meant, toServer, got>>
      \/ SendCNTQRY(attempt + 1)
  BY Zenon DEF Fetched
<1>5. CASE pc' = "idle" /\ UNCHANGED <<buf, meant, toServer, got>>
  <2>1. UNCHANGED <<buf, meant, toServer, got, cut>>
    BY <1>1, <1>5, Zenon
  <2> QED BY <1>1, <1>3, <1>5, <2>1, WireReads, Zenon
<1>6. CASE SendCNTQRY(attempt + 1)
  BY <1>3, <1>6, SendCNTQRYWire, Zenon
<1> QED BY <1>4, <1>5, <1>6, Zenon

LEMMA ReadFailsWire ==
    ASSUME WireInv, WireTypes, ReadFails
    PROVE  WireInv' /\ WireTypes'
<1>1. pc \in {"batch", "open", "fetch"} /\ pc' = "lost"
      /\ UNCHANGED <<meant, toServer, fromServer, got, cut>> /\ UNCHANGED <<buf, rest, fromServer>>
  BY Zenon DEF ReadFails
<1>2. buf' = <<>> /\ pc # "idle"
  BY <1>1, Zenon DEF WireInv
<1>3. WireTypes'
  BY <1>1, Zenon DEF WireTypes
<1> QED BY <1>1, <1>2, <1>3, WireSame, Zenon

LEMMA QueryCloseWire ==
    ASSUME WireInv, WireTypes, QueryClose
    PROVE  WireInv' /\ WireTypes'
<1>1. pc' = pc
      /\ UNCHANGED <<meant, toServer, fromServer, got, cut>> /\ UNCHANGED <<buf, rest, fromServer>>
  BY Zenon DEF QueryClose
<1>2. buf' = <<>>
  BY <1>1, Zenon DEF WireInv
<1>3. WireTypes'
  BY <1>1, Zenon DEF WireTypes
<1> QED BY <1>1, <1>2, <1>3, WireSame, Zenon

\* An answer to a query is at least one object.
LEMMA AnswerObjects ==
    ASSUME rest \in Seq(WireByte), NEW n \in 0..Len(rest), NEW size \in BlockSizes,
           NEW to, NEW how \in Hows, how = "more" => to = "open" \/ n > 0,
           NEW objects, objects = AnswerHead(to) \o Blocks(n, size) \o AnswerEnd(how)
    PROVE  objects \in Seq(Objs) /\ Len(objects) > 0 /\ size \in Nat /\ size > 0
<1>1. size \in Nat /\ size > 0
  BY WireAssumption
<1>2. Blocks(n, size) \in Seq(Objs) /\ (n > 0 => Len(Blocks(n, size)) > 0)
  BY <1>1, BlocksType
<1>3. /\ AnswerHead(to) \in Seq(Objs) /\ AnswerEnd(how) \in Seq(Objs)
      /\ to = "open" => Len(AnswerHead(to)) > 0
      /\ how # "more" => Len(AnswerEnd(how)) > 0
  BY AnswerParts
<1>4. PICK a \in Seq(Objs), b \in Seq(Objs), c \in Seq(Objs) :
        a = AnswerHead(to) /\ b = Blocks(n, size) /\ c = AnswerEnd(how)
  BY <1>2, <1>3, Zenon
<1>5. Len(a) > 0 \/ Len(b) > 0 \/ Len(c) > 0
  BY <1>2, <1>3, <1>4, Zenon
<1>6. a \o b \o c \in Seq(Objs) /\ Len(a \o b \o c) > 0
  <2>1. a \o b \o c \in Seq(Objs) /\ Len(a \o b \o c) = Len(a) + Len(b) + Len(c)
        /\ Len(a) \in Nat /\ Len(b) \in Nat /\ Len(c) \in Nat
    OBVIOUS
  <2> QED BY <1>5, <2>1
<1> QED BY <1>1, <1>4, <1>6, Zenon

\* What the server sends: one chain of objects.
LEMMA ServeSends ==
    ASSUME WireTypes, Serve, toServer # <<>>
    PROVE  /\ rest' \in Seq(WireByte)
           /\ \E objects \in Seq(Objs) : Len(objects) > 0 /\ Send(objects)
<1>0. rest \in Seq(WireByte)
  BY Zenon DEF WireTypes
<1>1. CASE /\ pc = "batch" /\ Send(<<NewObject("SQLCARD", <<Byte(0, "ok")>>)>>)
           /\ UNCHANGED rest
  <2>1. PICK o \in Objs : o = NewObject("SQLCARD", <<Byte(0, "ok")>>)
    BY ByteObj, Names, Zenon
  <2>2. <<o>> \in Seq(Objs) /\ Len(<<o>>) > 0
    OBVIOUS
  <2> QED BY <1>0, <1>1, <2>1, <2>2, Zenon
<1>2. ASSUME pc \in {"open", "fetch"}, NEW n \in 0..Len(rest), NEW size \in BlockSizes,
             NEW how \in Hows, how = "more" => pc = "open" \/ n > 0,
             rest' = SubSeq(rest, n + 1, Len(rest)),
             Send(AnswerHead(pc) \o Blocks(n, size) \o AnswerEnd(how))
      PROVE  /\ rest' \in Seq(WireByte)
             /\ \E objects \in Seq(Objs) : Len(objects) > 0 /\ Send(objects)
  <2>1. PICK objects : objects = AnswerHead(pc) \o Blocks(n, size) \o AnswerEnd(how)
    OBVIOUS
  <2>2. objects \in Seq(Objs) /\ Len(objects) > 0
    BY <1>0, <1>2, <2>1, AnswerObjects, Zenon
  <2>3. n \in Nat /\ Len(rest) \in Nat /\ n <= Len(rest) /\ Len(rest) <= Len(rest)
    BY <1>0
  <2>4. SubSeq(rest, n + 1, Len(rest)) \in Seq(WireByte)
    BY <1>0, <2>3, SubSeqType, Zenon
  <2> QED BY <1>2, <2>1, <2>2, <2>4, Zenon
<1> QED BY <1>1, <1>2, Zenon DEF Serve, Hows

LEMMA ServeWire ==
    ASSUME WireInv, WireTypes, Serve
    PROVE  WireInv' /\ WireTypes'
<1>1. toServer # <<>> /\ toServer' = Took.rest /\ got' = Took.chain
      /\ UNCHANGED <<pc, buf, meant, cut>>
  BY Zenon DEF Serve
<1>2. fromServer = <<>> /\ Took = [ok |-> TRUE, chain |-> meant, rest |-> <<>>] /\ ~cut /\ pc # "idle"
      /\ buf = <<>> /\ pc \in {"idle", "batch", "open", "fetch", "lost"}
  BY <1>1, Zenon DEF WireInv
<1>3. Took.rest = <<>> /\ Took.chain = meant
  BY <1>2
<1>4. PICK objects \in Seq(Objs) : Len(objects) > 0 /\ Send(objects)
  BY <1>1, ServeSends, Zenon
<1>5. rest' \in Seq(WireByte)
  BY <1>1, ServeSends, Zenon
<1>6. /\ fromServer' \in Seq(Items(Wire)) /\ fromServer' # <<>>
      /\ Replies' = [ok |-> TRUE, chain |-> Messages(objects), rest |-> <<>>]
  BY <1>2, <1>4, Answered, Zenon
<1>7. Replies'.ok /\ Replies'.rest = <<>>
  BY <1>6
<1>8. toServer' = <<>> /\ got' = meant' /\ ~cut' /\ pc' # "idle" /\ buf' = <<>>
      /\ pc' \in {"idle", "batch", "open", "fetch", "lost"}
  BY <1>1, <1>2, <1>3, Zenon
<1> QED BY <1>5, <1>6, <1>7, <1>8, Zenon DEF WireInv, WireTypes

LEMMA LinkBreaksWire ==
    ASSUME WireInv, WireTypes, LinkBreaks
    PROVE  WireInv' /\ WireTypes'
<1>1. /\ ~cut /\ (toServer # <<>> \/ fromServer # <<>>)
      /\ cut' = TRUE /\ toServer' = <<>> /\ UNCHANGED <<pc, buf, meant, rest, got>>
  BY Zenon DEF LinkBreaks
<1>2. PICK n \in 0..Max({0, Len(fromServer) - 1}) : fromServer' = SubSeq(fromServer, 1, n)
  BY Zenon DEF LinkBreaks
<1>3. PICK w \in Seq(Items(Wire)) : w = fromServer
  BY Zenon DEF WireTypes
<1>4. PICK v : v = SubSeq(w, 1, n)
  OBVIOUS
<1>5. n \in Nat /\ n <= Len(w) /\ (w # <<>> => n < Len(w))
  <2>1. 0 \in Int /\ Len(w) - 1 \in Int /\ Len(w) \in Nat /\ (w # <<>> => Len(w) > 0)
    OBVIOUS
  <2>2. n \in 0..Max({0, Len(w) - 1})
    BY <1>3, Zenon
  <2>3. PICK m : m = Max({0, Len(w) - 1})
    OBVIOUS
  <2>4. m = IF 0 >= Len(w) - 1 THEN 0 ELSE Len(w) - 1
    BY <2>1, <2>3, MaxOfTwo, Zenon
  <2>5. n \in 0..m
    BY <2>2, <2>3, Zenon
  <2> QED BY <2>1, <2>4, <2>5
<1>6. v \in Seq(Items(Wire)) /\ Len(v) = n /\ v = fromServer'
  <2>1. v \in Seq(Items(Wire)) /\ Len(v) = n
    BY <1>4, <1>5
  <2> QED BY <1>2, <1>3, <1>4, <2>1, Zenon
<1>7. ~ReadChain(v).ok
  <2>1. CASE w = <<>>
    <3>1. Len(w) = 0
      BY <2>1
    <3>2. v = <<>>
      BY <1>5, <1>6, <3>1
    <3> QED BY <3>2, EmptyStream, Zenon
  <2>2. CASE w # <<>>
    <3>1. Begins(v, w)
      BY <1>4, <1>5, <1>6 DEF Begins
    <3>2. 1 \in 1..(Len(v) + 1)
      BY <1>5, <1>6
    <3>3. \/ ChainFcn(v)[1] = Invalid
          \/ /\ ChainFcn(v)[1].ok /\ ChainFcn(w)[1].ok
             /\ Len(ChainFcn(v)[1].rest) \in Nat
             /\ Len(ChainFcn(w)[1].rest) = Len(ChainFcn(v)[1].rest) + (Len(w) - Len(v))
      BY <1>6, <3>1, <3>2, ChainStays, Zenon
    <3>4. ReadChain(v) = ChainFcn(v)[1] /\ ReadChain(w) = ChainFcn(w)[1]
      BY ReadChainIsFcn, Zenon
    <3>5. ReadChain(w).rest = <<>>
      BY <1>1, <1>3, <2>2, Zenon DEF WireInv, Replies
    <3>6. ASSUME Len(ChainFcn(v)[1].rest) \in Nat,
                 Len(ChainFcn(w)[1].rest) = Len(ChainFcn(v)[1].rest) + (Len(w) - Len(v))
          PROVE  FALSE
      <4>1. PICK x \in Nat : x = Len(ChainFcn(v)[1].rest)
        BY <3>6, Zenon
      <4>2. Len(<<>>) = x + (Len(w) - Len(v))
        BY <3>4, <3>5, <3>6, <4>1, Zenon
      <4> QED BY <1>5, <1>6, <2>2, <4>2
    <3> QED BY <3>3, <3>4, <3>6, EmptyStream, Zenon
  <2> QED BY <2>1, <2>2, Zenon
<1>8. ~Replies'.ok
  <2>1. Replies' = ReadChain(fromServer')
    BY Zenon DEF Replies
  <2> QED BY <1>6, <1>7, <2>1, Zenon
<1>9. pc # "idle"
  BY <1>1, Zenon DEF WireInv
<1>10. /\ pc' = pc /\ buf' = buf /\ meant' = meant /\ got' = got /\ rest' = rest
  BY <1>1, Zenon
<1>11. got' # <<>> => got' = meant'
  BY <1>10, Zenon DEF WireInv
<1>12. WireInv'
  <2>1. buf' = <<>> /\ pc' \in {"idle", "batch", "open", "fetch", "lost"} /\ pc' # "idle" /\ cut'
    BY <1>1, <1>9, <1>10, Zenon DEF WireInv
  <2> QED BY <1>1, <1>8, <1>11, <2>1, Zenon DEF WireInv
<1>13. WireTypes'
  BY <1>6, <1>10, Zenon DEF WireTypes
<1> QED BY <1>12, <1>13, Zenon

LEMMA NextWire == WireInv /\ WireTypes /\ [Next]_vars => WireInv' /\ WireTypes'
<1> SUFFICES ASSUME WireInv, WireTypes, [Next]_vars PROVE WireInv' /\ WireTypes'
  OBVIOUS
<1>1. CASE UNCHANGED vars
  <2>1. UNCHANGED <<meant, toServer, fromServer, got, cut>> /\ buf' = buf /\ pc' = pc /\ rest' = rest
    BY <1>1, Zenon DEF vars
  <2>2. buf' = <<>>
    BY <2>1, Zenon DEF WireInv
  <2>3. WireTypes'
    BY <2>1, Zenon DEF WireTypes
  <2> QED BY <2>1, <2>2, <2>3, WireSame, Zenon
<1> QED BY <1>1, QueryNextWire, QueryCloseWire, ExecBatchWire, QueryWireStep, BatchDoneWire,
           OpenedWire, FetchedWire, ReadFailsWire, ServeWire, LinkBreaksWire, Zenon DEF Next

LEMMA WireIntact == WireInv => RequestsIntact
<1> SUFFICES ASSUME WireInv PROVE RequestsIntact
  OBVIOUS
<1>1. toServer # <<>> => Took.ok
  <2> SUFFICES ASSUME toServer # <<>> PROVE Took.ok
    OBVIOUS
  <2>1. Took = [ok |-> TRUE, chain |-> meant, rest |-> <<>>]
    BY Zenon DEF WireInv
  <2> QED BY <2>1
<1> QED BY <1>1, Zenon DEF WireInv, RequestsIntact

\* Every request the driver sends is the one it meant, whatever the lengths of its objects
\* and wherever a batch was given up, and every answer that arrives whole is read to its end.
THEOREM RequestsArriveIntact == Spec => []RequestsIntact
<1>1. Init => WireInv /\ WireTypes
  BY InitWire
<1>2. WireInv /\ WireTypes /\ [Next]_vars => WireInv' /\ WireTypes'
  BY NextWire
<1>3. WireInv => RequestsIntact
  BY WireIntact
<1> QED BY <1>1, <1>2, <1>3, PTL DEF Spec

---------------------------------------------------------------------------
(* Where rows end *)

Off(rows, k) == Len(Cat(EncodedRows(rows))[k])

\* m rows are complete when u bytes are there.
InRow(rows, m, u) ==
    /\ m \in 0..Len(rows)
    /\ Off(rows, m) <= u
    /\ m < Len(rows) => u < Off(rows, m + 1)

LEMMA RowLens ==
    ASSUME NEW r \in ResultRows
    PROVE  /\ RowLen(r) \in Nat /\ RowLen(r) >= 4 /\ RowLen(r) <= CaLength + 4
           /\ CaLen(r) \in Nat /\ CaLen(r) >= 1 /\ CaLen(r) <= 2
BY DEF RowLen, CaLen, CaLength

LEMMA OffType ==
    ASSUME NEW rows \in Seq(ResultRows), NEW k \in 0..Len(rows)
    PROVE  Off(rows, k) \in Nat /\ Cat(EncodedRows(rows))[k] \in Seq(WireByte)
<1>1. EncodedRows(rows) \in Seq(Seq(WireByte)) /\ Len(EncodedRows(rows)) = Len(rows)
  BY EncodedType, Zenon
<1>2. PICK s : s = Cat(EncodedRows(rows))[k]
  OBVIOUS
<1>3. s \in Seq(WireByte)
  BY <1>1, <1>2, CatType, Zenon
<1>4. Len(s) \in Nat
  BY <1>3
<1> QED BY <1>2, <1>3, <1>4, Zenon DEF Off

LEMMA OffEnds ==
    ASSUME NEW rows \in Seq(ResultRows)
    PROVE  Off(rows, 0) = 0 /\ Off(rows, Len(rows)) = Len(Encode(rows)) /\ Len(rows) \in Nat
<1>1. EncodedRows(rows) \in Seq(Seq(WireByte)) /\ Len(EncodedRows(rows)) = Len(rows)
      /\ Encode(rows) = Cat(EncodedRows(rows))[Len(rows)]
  BY EncodedType, Zenon
<1>2. Cat(EncodedRows(rows))[0] = <<>> /\ Len(<<>>) = 0
  <2>1. Cat(EncodedRows(rows))[0] = <<>>
    BY <1>1, CatEmpty, Zenon
  <2>2. Len(<<>>) = 0
    OBVIOUS
  <2> QED BY <2>1, <2>2, Zenon
<1>3. Len(rows) \in Nat
  OBVIOUS
<1> QED BY <1>1, <1>2, <1>3, Zenon DEF Off

LEMMA OffNext ==
    ASSUME NEW rows \in Seq(ResultRows), NEW k \in 1..Len(rows)
    PROVE  /\ Off(rows, k) = Off(rows, k - 1) + RowLen(rows[k])
           /\ Off(rows, k) \in Nat /\ Off(rows, k - 1) \in Nat
           /\ rows[k] \in ResultRows
           /\ RowShape(k, rows[k], EncodedRows(rows)[k])
<1> DEFINE ee == EncodedRows(rows)
<1>1. ee \in Seq(Seq(WireByte)) /\ Len(ee) = Len(rows) /\ RowShape(k, rows[k], ee[k])
  BY EncodedType, Zenon
<1>2. k - 1 \in 0..Len(rows) /\ k \in 0..Len(rows) /\ rows[k] \in ResultRows
  OBVIOUS
<1>3. Off(rows, k) \in Nat /\ Off(rows, k - 1) \in Nat /\ Cat(ee)[k - 1] \in Seq(WireByte)
  BY <1>2, OffType, Zenon
<1> HIDE DEF ee
<1>4. Cat(ee)[k] = Cat(ee)[k - 1] \o ee[k]
  BY <1>1, CatNext, Zenon
<1>5. ee[k] \in Seq(WireByte) /\ Len(ee[k]) = RowLen(rows[k])
  BY <1>1, Zenon DEF RowShape
<1>6. Len(Cat(ee)[k - 1] \o ee[k]) = Len(Cat(ee)[k - 1]) + Len(ee[k])
  BY <1>3, <1>5, ConcatProps, Zenon
<1>7. Off(rows, k) = Off(rows, k - 1) + RowLen(rows[k])
  BY <1>4, <1>5, <1>6, Zenon DEF Off, ee
<1> QED BY <1>1, <1>2, <1>3, <1>7, Zenon DEF ee

LEMMA OffMono ==
    ASSUME NEW rows \in Seq(ResultRows), NEW j \in 0..Len(rows), NEW k \in 0..Len(rows), j <= k
    PROVE  Off(rows, j) <= Off(rows, k) /\ (j < k => Off(rows, j) < Off(rows, k))
<1> DEFINE S == {n \in Nat : j + n <= Len(rows) =>
                   Off(rows, j) <= Off(rows, j + n) /\ (0 < n => Off(rows, j) < Off(rows, j + n))}
<1>1. ASSUME NEW n \in Nat, \A m \in Nat : m < n => m \in S
      PROVE  n \in S
  <2> SUFFICES ASSUME j + n <= Len(rows)
               PROVE  Off(rows, j) <= Off(rows, j + n) /\ (0 < n => Off(rows, j) < Off(rows, j + n))
    OBVIOUS
  <2>1. CASE n = 0
    <3>1. j + 0 = j /\ Off(rows, j) \in Nat
      BY OffType
    <3> QED BY <2>1, <3>1
  <2>2. CASE n # 0
    <3>1. n - 1 \in Nat /\ n - 1 < n /\ j + (n - 1) <= Len(rows) /\ j + n \in 1..Len(rows)
          /\ j + n - 1 = j + (n - 1)
      BY <2>2
    <3>2. Off(rows, j) <= Off(rows, j + (n - 1))
      <4>1. n - 1 \in S
        BY <1>1, <3>1, Zenon
      <4> QED BY <3>1, <4>1
    <3>3. PICK i \in 1..Len(rows) : i = j + n
      BY <3>1, Zenon
    <3>4. /\ Off(rows, i) = Off(rows, i - 1) + RowLen(rows[i])
          /\ Off(rows, i) \in Nat /\ Off(rows, i - 1) \in Nat /\ rows[i] \in ResultRows
      BY OffNext, Zenon
    <3>5. RowLen(rows[i]) \in Nat /\ RowLen(rows[i]) >= 4
      BY <3>4, RowLens, Zenon
    <3>6. Off(rows, j) \in Nat
      BY OffType
    <3>7. i - 1 = j + (n - 1)
      BY <3>3
    <3>8. Off(rows, j) <= Off(rows, i - 1)
      BY <3>2, <3>7, Zenon
    <3>9. Off(rows, j) < Off(rows, i) /\ Off(rows, j) <= Off(rows, i)
      BY <3>4, <3>5, <3>6, <3>8
    <3> QED BY <3>3, <3>9, Zenon
  <2> QED BY <2>1, <2>2, Zenon
<1>2. k - j \in Nat /\ j + (k - j) <= Len(rows) /\ j + (k - j) = k /\ (j < k => 0 < k - j)
  OBVIOUS
<1>3. k - j \in S
  <2> HIDE DEF S
  <2> QED BY <1>1, <1>2, Induction
<1>4. Off(rows, j) <= Off(rows, j + (k - j)) /\ (0 < k - j => Off(rows, j) < Off(rows, j + (k - j)))
  BY <1>2, <1>3, Zenon
<1> QED BY <1>2, <1>4, Zenon

LEMMA ByteAt ==
    ASSUME NEW rows \in Seq(ResultRows), NEW k \in 1..Len(rows), NEW x \in 1..RowLen(rows[k])
    PROVE  /\ Encode(rows)[Off(rows, k - 1) + x] = EncodedRows(rows)[k][x]
           /\ Off(rows, k - 1) + x <= Len(Encode(rows))
<1> DEFINE ee == EncodedRows(rows)
           E == Encode(rows)
<1>1. ee \in Seq(Seq(WireByte)) /\ Len(ee) = Len(rows) /\ E = Cat(ee)[Len(rows)] /\ E \in Seq(WireByte)
  BY EncodedType, Zenon
<1>2. Len(ee[k]) = RowLen(rows[k]) /\ Off(rows, k - 1) \in Nat /\ RowLen(rows[k]) \in Nat
  <2>1. RowShape(k, rows[k], ee[k]) /\ Off(rows, k - 1) \in Nat /\ rows[k] \in ResultRows
    BY OffNext, Zenon
  <2> HIDE DEF ee
  <2>2. RowLen(rows[k]) \in Nat
    BY <2>1, RowLens, Zenon
  <2> QED BY <2>1, <2>2, Zenon DEF RowShape
<1> HIDE DEF ee, E
<1>3. At(E, 1, Cat(ee)[Len(ee)])
  <2>1. At(E, 1, E)
    BY <1>1 DEF At
  <2> QED BY <1>1, <2>1, Zenon
<1>4. 1 \in Nat /\ k \in 1..Len(ee)
  BY <1>1
<1>5. At(E, 1 + Len(Cat(ee)[k - 1]), ee[k])
  BY <1>1, <1>3, <1>4, AtCat, Zenon
<1>6. PICK o \in Nat : o = Off(rows, k - 1) /\ o = Len(Cat(ee)[k - 1])
  BY <1>2, Zenon DEF Off, ee
<1>7. At(E, 1 + o, ee[k]) /\ x \in 1..Len(ee[k])
  BY <1>2, <1>5, <1>6, Zenon
<1>8. E[1 + o + x - 1] = ee[k][x] /\ 1 + o + Len(ee[k]) - 1 <= Len(E)
  BY <1>7, Zenon DEF At
<1>9. 1 + o + x - 1 = o + x /\ o + x <= Len(E)
  <2>1. Len(E) \in Nat
    BY <1>1
  <2>2. PICK n \in Nat : n = Len(E)
    BY <2>1, Zenon
  <2>3. PICK l \in Nat : l = Len(ee[k]) /\ x \in 1..l
    BY <1>2, Zenon
  <2>4. 1 + o + l - 1 <= n
    BY <1>8, <2>2, <2>3, Zenon
  <2>5. PICK y \in Nat : y = x /\ y <= l
    <3>1. x \in 1..l
      BY <2>3, Zenon
    <3>2. x \in Nat /\ x <= l
      BY <3>1
    <3> QED BY <3>2, Zenon
  <2>6. 1 + o + y - 1 = o + y /\ o + y <= n
    <3>1. y <= l
      BY <2>5, Zenon
    <3> QED BY <2>4, <3>1
  <2> QED BY <2>2, <2>5, <2>6, Zenon
<1> QED BY <1>6, <1>8, <1>9, Zenon DEF E, ee

\* However many bytes are there, some number of rows is complete.
LEMMA RowExists ==
    ASSUME NEW rows \in Seq(ResultRows), NEW u \in 0..Len(Encode(rows))
    PROVE  \E m \in 0..Len(rows) : InRow(rows, m, u)
<1> DEFINE S == {n \in Nat : n <= Len(rows) =>
                   Off(rows, n) <= u \/ \E m \in 0..Len(rows) : InRow(rows, m, u)}
<1>0. u \in Nat /\ Len(rows) \in Nat
  BY OffEnds
<1>1. ASSUME NEW n \in Nat, \A m \in Nat : m < n => m \in S
      PROVE  n \in S
  <2> SUFFICES ASSUME n <= Len(rows), ~(Off(rows, n) <= u)
               PROVE  \E m \in 0..Len(rows) : InRow(rows, m, u)
    OBVIOUS
  <2>1. n # 0
    BY <1>0, OffEnds
  <2>2. n - 1 \in Nat /\ n - 1 < n /\ n - 1 <= Len(rows) /\ n - 1 < Len(rows) /\ n - 1 + 1 = n
        /\ n \in 0..Len(rows) /\ n - 1 \in 0..Len(rows)
    BY <1>0, <2>1
  <2>3. n - 1 \in S
    BY <1>1, <2>2, Zenon
  <2>4. CASE Off(rows, n - 1) <= u
    <3>1. Off(rows, n) \in Nat
      BY <2>2, OffType, Zenon
    <3>2. u < Off(rows, n)
      BY <1>0, <3>1
    <3>3. InRow(rows, n - 1, u)
      BY <2>2, <2>4, <3>2, Zenon DEF InRow
    <3> QED BY <2>2, <3>3, Zenon
  <2> QED BY <2>2, <2>3, <2>4, Zenon
<1>2. Len(rows) \in S
  <2> HIDE DEF S
  <2> QED BY <1>0, <1>1, Induction
<1>3. CASE Off(rows, Len(rows)) <= u
  <2>1. Len(rows) \in 0..Len(rows) /\ ~(Len(rows) < Len(rows))
    BY <1>0
  <2>2. InRow(rows, Len(rows), u)
    BY <1>3, <2>1, Zenon DEF InRow
  <2> QED BY <2>1, <2>2, Zenon
<1>4. Len(rows) <= Len(rows)
  BY <1>0
<1> QED BY <1>2, <1>3, <1>4, Zenon

LEMMA RowMono ==
    ASSUME NEW rows \in Seq(ResultRows), NEW m, NEW u \in Nat, InRow(rows, m, u),
           NEW n \in 0..Len(rows), Off(rows, n) <= u
    PROVE  n <= m /\ m \in 0..Len(rows) /\ Off(rows, m) <= u /\ Off(rows, m) \in Nat
<1>1. m \in 0..Len(rows) /\ Off(rows, m) <= u
  BY Zenon DEF InRow
<1>2. Off(rows, m) \in Nat /\ Off(rows, n) \in Nat
  BY <1>1, OffType, Zenon
<1>3. ASSUME n > m PROVE FALSE
  <2>1. m + 1 \in 0..Len(rows) /\ m + 1 <= n /\ m < Len(rows)
    BY <1>1, <1>3
  <2>2. Off(rows, m + 1) <= Off(rows, n) /\ Off(rows, m + 1) \in Nat
    BY <2>1, OffMono, OffType, Zenon
  <2>3. u < Off(rows, m + 1)
    BY <2>1, Zenon DEF InRow
  <2> QED BY <1>2, <2>2, <2>3
<1>4. n <= m
  BY <1>1, <1>3
<1> QED BY <1>1, <1>2, <1>4, Zenon

LEMMA RowUnique ==
    ASSUME NEW rows \in Seq(ResultRows), NEW m, NEW n, NEW u \in Nat, InRow(rows, m, u), InRow(rows, n, u)
    PROVE  m = n
<1>1. m \in 0..Len(rows) /\ Off(rows, m) <= u /\ n \in 0..Len(rows) /\ Off(rows, n) <= u
  BY Zenon DEF InRow
<1>2. n <= m
  BY <1>1, RowMono, Zenon
<1>3. m <= n
  BY <1>1, RowMono, Zenon
<1> QED BY <1>1, <1>2, <1>3

\* One more byte: it belongs to the next row, and it ends that row or it does not.
LEMMA RowByte ==
    ASSUME NEW rows \in Seq(ResultRows), NEW u \in Nat, u < Len(Encode(rows)), NEW m, InRow(rows, m, u)
    PROVE  /\ m + 1 \in 1..Len(rows)
           /\ Encode(rows)[u + 1].row = m + 1 /\ Encode(rows)[u + 1].part \in RowParts
           /\ \/ /\ InRow(rows, m, u + 1) /\ u + 1 < Off(rows, m + 1)
                 /\ Encode(rows)[u + 1].part \notin {"null", "ref"}
              \/ /\ InRow(rows, m + 1, u + 1) /\ u + 1 = Off(rows, m + 1)
                 /\ Encode(rows)[u + 1].part = (IF rows[m + 1].lob THEN "ref" ELSE "null")
<1>1. m \in 0..Len(rows) /\ Off(rows, m) <= u /\ Len(rows) \in Nat /\ Off(rows, m) \in Nat
  BY OffEnds, OffType, Zenon DEF InRow
<1>2. m < Len(rows)
  <2>1. ASSUME m = Len(rows) PROVE FALSE
    <3>1. Len(Encode(rows)) <= u
      BY <1>1, <2>1, OffEnds, Zenon
    <3>2. Len(Encode(rows)) \in Nat
      <4>1. Encode(rows) \in Seq(WireByte)
        BY EncodedType, Zenon
      <4> QED BY <4>1
    <3> QED BY <3>1, <3>2
  <2> QED BY <1>1, <2>1
<1>3. u < Off(rows, m + 1)
  BY <1>2, Zenon DEF InRow
<1>4. PICK k \in 1..Len(rows) : k = m + 1 /\ m = k - 1
  BY <1>1, <1>2
<1>5. /\ Off(rows, k) = Off(rows, m) + RowLen(rows[k]) /\ rows[k] \in ResultRows
      /\ RowShape(k, rows[k], EncodedRows(rows)[k]) /\ Off(rows, k) \in Nat
  BY <1>4, OffNext, Zenon
<1>6. RowLen(rows[k]) \in Nat /\ RowLen(rows[k]) >= 4 /\ CaLen(rows[k]) \in Nat
      /\ RowLen(rows[k]) = CaLen(rows[k]) + 2 + (IF rows[k].lob THEN 2 ELSE 1)
  BY <1>5, RowLens DEF RowLen
<1>7. PICK x : x = u + 1 - Off(rows, m)
  OBVIOUS
<1>8. x \in 1..RowLen(rows[k]) /\ Off(rows, m) + x = u + 1
  <2>1. PICK a \in Nat : a = Off(rows, m)
    BY <1>1, Zenon
  <2>2. PICK l \in Nat : l = RowLen(rows[k])
    BY <1>6, Zenon
  <2>3. a <= u /\ u < a + l /\ x = u + 1 - a
    BY <1>1, <1>3, <1>4, <1>5, <1>7, <2>1, <2>2, Zenon
  <2>4. x \in 1..l /\ a + x = u + 1
    BY <2>3
  <2> QED BY <2>1, <2>2, <2>4, Zenon
<1>9. Encode(rows)[u + 1] = EncodedRows(rows)[k][x]
  <2>1. Encode(rows)[Off(rows, k - 1) + x] = EncodedRows(rows)[k][x]
    BY <1>8, ByteAt, Zenon
  <2> QED BY <1>4, <1>8, <2>1, Zenon
<1>10. PICK e : e = EncodedRows(rows)[k]
  OBVIOUS
<1>11. Len(e) = RowLen(rows[k]) /\ e[x].row = k /\ e[x].part \in RowParts
  BY <1>5, <1>8, <1>10, Zenon DEF RowShape
<1>12. CASE u + 1 < Off(rows, m + 1)
  <2>1. InRow(rows, m, u + 1)
    <3>1. Off(rows, m) <= u + 1
      BY <1>1
    <3> QED BY <1>1, <1>12, <3>1, Zenon DEF InRow
  <2>2. x \in 1..(Len(e) - 1)
    <3>1. Len(e) = RowLen(rows[k])
      BY <1>11, Zenon
    <3> QED BY <1>1, <1>4, <1>5, <1>6, <1>8, <1>12, <3>1
  <2>3. e[x].part \notin {"null", "ref"}
    BY <1>5, <1>10, <2>2, Zenon DEF RowShape
  <2> QED BY <1>4, <1>9, <1>10, <1>11, <1>12, <2>1, <2>3, Zenon
<1>13. CASE u + 1 = Off(rows, m + 1)
  <2>1. InRow(rows, m + 1, u + 1)
    <3>1. m + 1 \in 0..Len(rows) /\ Off(rows, m + 1) <= u + 1
      BY <1>1, <1>2, <1>13
    <3>2. ASSUME m + 1 < Len(rows) PROVE u + 1 < Off(rows, m + 1 + 1)
      <4>1. m + 1 \in 0..Len(rows) /\ m + 1 + 1 \in 0..Len(rows) /\ m + 1 <= m + 1 + 1 /\ m + 1 < m + 1 + 1
        BY <1>1, <3>2
      <4>2. Off(rows, m + 1) < Off(rows, m + 1 + 1)
        BY <4>1, OffMono, Zenon
      <4> QED BY <1>13, <4>2, Zenon
    <3> QED BY <3>1, <3>2, Zenon DEF InRow
  <2>2. x = CaLen(rows[k]) + (IF rows[k].lob THEN 4 ELSE 3)
    BY <1>1, <1>4, <1>5, <1>6, <1>8, <1>13, SMTT(30)
  <2>3. e[x].part = (IF rows[k].lob THEN "ref" ELSE "null")
    <3>1. CASE rows[k].lob
      <4>1. x = CaLen(rows[k]) + 4
        BY <2>2, <3>1, Zenon
      <4>2. e[CaLen(rows[k]) + 4].part = "ref"
        BY <1>5, <1>10, <3>1, Zenon DEF RowShape
      <4> QED BY <3>1, <4>1, <4>2, Zenon
    <3>2. CASE ~rows[k].lob
      <4>1. x = CaLen(rows[k]) + 3
        BY <2>2, <3>2, Zenon
      <4>2. e[CaLen(rows[k]) + 3].part = "null"
        BY <1>5, <1>10, <3>2, Zenon DEF RowShape
      <4> QED BY <3>2, <4>1, <4>2, Zenon
    <3> QED BY <3>1, <3>2, Zenon
  <2> QED BY <1>4, <1>9, <1>10, <1>11, <1>13, <2>1, <2>3, Zenon
<1>14. u + 1 < Off(rows, m + 1) \/ u + 1 = Off(rows, m + 1)
  BY <1>3, <1>4, <1>5
<1> QED BY <1>12, <1>13, <1>14, Zenon

---------------------------------------------------------------------------
(* DecodeBlock *)

\* A row before its LOB is put in place.
Raw(k, r) == [col |-> k, lob |-> IF r.lob THEN LobRef ELSE 0]
RawRows(rows, i, j) == [x \in 1..(j - i) |-> Raw(i + x, rows[i + x])]

\* The body has e from p on, as far as it goes.
Covers(body, p, e) == \A x \in 1..Len(e) : p + x - 1 <= Len(body) => body[p + x - 1] = e[x]

\* Where the row ends whose LOB indicator is there.
EndAt(body, lob) ==
    IF lob > Len(body) THEN 0
    ELSE IF body[lob].part = "null" THEN lob + 1
    ELSE IF lob + 1 > Len(body) THEN 0
    ELSE lob + 2

\* What is known of the row at p, c its SQLCA's length.
RowAt(r, body, p, c) ==
    /\ RowEnd(body, p) = EndAt(body, p + c + 2)
    /\ body[p].part \in {"ca", "nullca"}
    /\ p + c + 2 <= Len(body) => body[p + c + 2].part = (IF r.lob THEN "notnull" ELSE "null")
    /\ c \in Nat /\ c >= 1
    /\ r.lob => RowLen(r) = c + 4
    /\ ~r.lob => RowLen(r) = c + 3

LEMMA RowEndLob ==
    ASSUME NEW k, NEW r \in ResultRows, NEW e, RowShape(k, r, e), NEW body, Len(body) \in Nat,
           NEW p \in Nat, p >= 1, p <= Len(body), Covers(body, p, e),
           NEW c, c = CaLen(r)
    PROVE  RowAt(r, body, p, c)
<1>1. c \in Nat /\ c >= 1 /\ (r.lob => RowLen(r) = c + 4) /\ (~r.lob => RowLen(r) = c + 3)
  BY RowLens DEF RowLen
<1>2. Len(e) = RowLen(r) /\ RowLen(r) \in Nat /\ RowLen(r) >= 4
  BY RowLens, Zenon DEF RowShape
<1>3. 1 \in 1..Len(e) /\ c + 3 \in 1..Len(e)
  BY <1>1, <1>2
<1>4. p + 1 - 1 = p /\ p + (c + 3) - 1 = p + c + 2
  BY <1>1
<1>5. body[p] = e[1]
  <2>1. p + 1 - 1 <= Len(body) => body[p + 1 - 1] = e[1]
    BY <1>3, Zenon DEF Covers
  <2> QED BY <1>4, <2>1, Zenon
<1>6. p + c + 2 <= Len(body) => body[p + c + 2] = e[c + 3]
  <2>1. p + (c + 3) - 1 <= Len(body) => body[p + (c + 3) - 1] = e[c + 3]
    BY <1>3, Zenon DEF Covers
  <2> QED BY <1>4, <2>1, Zenon
<1>7. e[1].part = (IF r.warn THEN "ca" ELSE "nullca") /\ e[c + 3].part = (IF r.lob THEN "notnull" ELSE "null")
  BY Zenon DEF RowShape
<1>8. (IF body[p].part = "nullca" THEN 1 ELSE CaLength) = c
  <2>1. "ca" # "nullca"
    OBVIOUS
  <2> QED BY <1>5, <1>7, <2>1, Zenon DEF CaLen, CaLength
<1>9. body[p].part \in {"ca", "nullca"}
  BY <1>5, <1>7, Zenon
<1>10. RowEnd(body, p) = EndAt(body, p + c + 2)
  <2>1. RowEnd(body, p) = EndAt(body, p + (IF body[p].part = "nullca" THEN 1 ELSE CaLength) + 2)
    BY Zenon DEF RowEnd, EndAt
  <2> QED BY <1>8, <2>1, Zenon
<1>11. p + c + 2 <= Len(body) => body[p + c + 2].part = (IF r.lob THEN "notnull" ELSE "null")
  BY <1>6, <1>7, Zenon
<1> QED BY <1>1, <1>9, <1>10, <1>11, Zenon DEF RowAt

LEMMA RowEndFull ==
    ASSUME NEW k, NEW r \in ResultRows, NEW e, RowShape(k, r, e), NEW body, Len(body) \in Nat,
           NEW p \in Nat, p >= 1, Covers(body, p, e), p + RowLen(r) - 1 <= Len(body)
    PROVE  RowEnd(body, p) = p + RowLen(r) /\ DecodeRow(body, p) = Raw(k, r)
           /\ p <= Len(body) /\ body[p].part \in {"ca", "nullca"}
<1>0. RowLen(r) \in Nat /\ RowLen(r) >= 4 /\ Len(e) = RowLen(r)
  BY RowLens, Zenon DEF RowShape
<1>1. p <= Len(body)
  BY <1>0
<1>2. PICK c : c = CaLen(r)
  OBVIOUS
<1>3. RowAt(r, body, p, c)
  BY <1>1, <1>2, RowEndLob, Zenon
<1>4. ASSUME NEW x \in 1..RowLen(r)
      PROVE  body[p + x - 1] = e[x] /\ body[p + x - 1].row = k
  <2>1. p + x - 1 <= Len(body)
    BY <1>0
  <2>2. x \in 1..Len(e)
    BY <1>0, Zenon
  <2>3. e[x].row = k
    BY <2>2, Zenon DEF RowShape
  <2>4. body[p + x - 1] = e[x]
    BY <2>1, <2>2, Zenon DEF Covers
  <2> QED BY <2>3, <2>4, Zenon
<1>5. CASE r.lob
  <2>1. RowLen(r) = c + 4
    BY <1>3, <1>5, Zenon DEF RowAt
  <2>2. ~(p + c + 2 > Len(body)) /\ p + c + 2 <= Len(body) /\ ~(p + c + 2 + 1 > Len(body))
        /\ p + c + 2 + 2 = p + RowLen(r) /\ p + RowLen(r) - 1 = p + (c + 4) - 1
        /\ p + RowLen(r) - 3 = p + (c + 2) - 1 /\ c + 4 \in 1..RowLen(r) /\ c + 2 \in 1..RowLen(r)
    <3>1. c \in Nat
      BY <1>3, Zenon DEF RowAt
    <3> QED BY <1>0, <2>1, <3>1
  <2>3. body[p + c + 2].part = "notnull" /\ "notnull" # "null" /\ "ref" # "null"
    <3>1. "notnull" # "null" /\ "ref" # "null"
      OBVIOUS
    <3> QED BY <1>3, <1>5, <2>2, <3>1, Zenon DEF RowAt
  <2>4. RowEnd(body, p) = p + RowLen(r)
    BY <1>3, <2>2, <2>3, Zenon DEF EndAt, RowAt
  <2>5. body[p + (c + 4) - 1].part = "ref"
    <3>1. e[c + 4].part = "ref"
      BY <1>2, <1>5, Zenon DEF RowShape
    <3> QED BY <1>4, <2>2, <3>1, Zenon
  <2>6. body[p + (c + 2) - 1].row = k
    <3>1. c + 2 \in 1..RowLen(r)
      BY <2>2, Zenon
    <3> QED BY <1>4, <3>1, Zenon
  <2>7. DecodeRow(body, p) = [col |-> k, lob |-> LobRef]
    <3>1. PICK n : n = p + RowLen(r)
      OBVIOUS
    <3>2. RowEnd(body, p) = n /\ body[n - 1].part # "null" /\ body[n - 3].row = k
      <4>1. n - 1 = p + (c + 4) - 1 /\ n - 3 = p + (c + 2) - 1
        <5>1. c \in Nat
          BY <1>3, Zenon DEF RowAt
        <5> QED BY <2>1, <3>1, <5>1
      <4> QED BY <2>3, <2>4, <2>5, <2>6, <3>1, <4>1, Zenon
    <3> QED BY <3>2, Zenon DEF DecodeRow
  <2> QED BY <1>1, <1>3, <1>5, <2>4, <2>7, Zenon DEF Raw, RowAt
<1>6. CASE ~r.lob
  <2>1. RowLen(r) = c + 3
    BY <1>3, <1>6, Zenon DEF RowAt
  <2>2. ~(p + c + 2 > Len(body)) /\ p + c + 2 <= Len(body)
        /\ p + c + 2 + 1 = p + RowLen(r) /\ p + RowLen(r) - 1 = p + c + 2
        /\ p + RowLen(r) - 2 = p + (c + 2) - 1 /\ c + 2 \in 1..RowLen(r)
    <3>1. c \in Nat
      BY <1>3, Zenon DEF RowAt
    <3> QED BY <1>0, <2>1, <3>1
  <2>3. body[p + c + 2].part = "null"
    BY <1>3, <1>6, <2>2, Zenon DEF RowAt
  <2>4. RowEnd(body, p) = p + RowLen(r)
    BY <1>3, <2>2, <2>3, Zenon DEF EndAt, RowAt
  <2>6. body[p + (c + 2) - 1].row = k
    <3>1. c + 2 \in 1..RowLen(r)
      BY <2>2, Zenon
    <3> QED BY <1>4, <3>1, Zenon
  <2>7. DecodeRow(body, p) = [col |-> k, lob |-> 0]
    <3>1. PICK n : n = p + RowLen(r)
      OBVIOUS
    <3>2. RowEnd(body, p) = n /\ body[n - 1].part = "null" /\ body[n - 2].row = k
      <4>1. n - 1 = p + c + 2 /\ n - 2 = p + (c + 2) - 1
        <5>1. c \in Nat
          BY <1>3, Zenon DEF RowAt
        <5> QED BY <2>1, <3>1, <5>1
      <4> QED BY <2>3, <2>4, <2>6, <3>1, <4>1, Zenon
    <3> QED BY <3>2, Zenon DEF DecodeRow
  <2> QED BY <1>1, <1>3, <1>6, <2>4, <2>7, Zenon DEF Raw, RowAt
<1> QED BY <1>5, <1>6, Zenon

LEMMA RowEndPart ==
    ASSUME NEW k, NEW r \in ResultRows, NEW e, RowShape(k, r, e), NEW body, Len(body) \in Nat,
           NEW p \in Nat, p >= 1, p <= Len(body), Covers(body, p, e), p + RowLen(r) - 1 > Len(body)
    PROVE  RowEnd(body, p) = 0 /\ body[p].part \in {"ca", "nullca"}
<1>2. PICK c : c = CaLen(r)
  OBVIOUS
<1>3. RowAt(r, body, p, c)
  BY <1>2, RowEndLob, Zenon
<1>4. c \in Nat
  BY <1>3, Zenon DEF RowAt
<1>5. CASE p + c + 2 > Len(body)
  BY <1>3, <1>5, Zenon DEF EndAt, RowAt
<1>6. CASE ~(p + c + 2 > Len(body))
  <2>1. p + c + 2 <= Len(body)
    BY <1>4, <1>6
  <2>2. r.lob
    <3>1. SUFFICES ASSUME ~r.lob PROVE FALSE
      BY Zenon
    <3>2. RowLen(r) = c + 3
      BY <1>3, <3>1, Zenon DEF RowAt
    <3> QED BY <1>4, <2>1, <3>2
  <2>3. RowLen(r) = c + 4
    BY <1>3, <2>2, Zenon DEF RowAt
  <2>4. p + c + 2 + 1 > Len(body)
    BY <1>4, <2>3
  <2>5. "notnull" # "null"
    OBVIOUS
  <2>6. body[p + c + 2].part # "null"
    BY <1>3, <2>1, <2>2, <2>5, Zenon DEF RowAt
  <2> QED BY <1>3, <1>6, <2>4, <2>6, Zenon DEF EndAt, RowAt
<1> QED BY <1>5, <1>6, Zenon

\* What DecodeBlock does at position p, g for the positions behind it.
DecEnd(leftover, eod) == [rows |-> <<>>, leftover |-> leftover, eod |-> eod]
DecRow(row, d) == [rows |-> <<row>> \o d.rows, leftover |-> d.leftover, eod |-> d.eod]
DecStep(body, g, p) ==
    IF p > Len(body) THEN DecEnd(<<>>, FALSE)
    ELSE IF body[p].part = "eod" THEN DecEnd(<<>>, TRUE)
    ELSE IF RowEnd(body, p) = 0 THEN DecEnd(SubSeq(body, p, Len(body)), FALSE)
    ELSE DecRow(DecodeRow(body, p), g[RowEnd(body, p)])
DecFcn(body) == CHOOSE g : g = [p \in 1..(Len(body) + 1) |-> DecStep(body, g, p)]

LEMMA RowEndRange ==
    ASSUME NEW body, Len(body) \in Nat, NEW p \in Nat, p >= 1
    PROVE  RowEnd(body, p) = 0 \/ RowEnd(body, p) \in (p + 1)..(Len(body) + 1)
<1>1. PICK c \in {1, 2} : c = (IF body[p].part = "nullca" THEN 1 ELSE CaLength)
  <2>1. (IF body[p].part = "nullca" THEN 1 ELSE CaLength) \in {1, 2}
    BY Zenon DEF CaLength
  <2> QED BY <2>1, Zenon
<1>2. PICK l \in Nat : l = p + c + 2 /\ l >= p + 1
  BY <1>1
<1>3. RowEnd(body, p) = EndAt(body, l)
  <2>1. RowEnd(body, p) = EndAt(body, p + (IF body[p].part = "nullca" THEN 1 ELSE CaLength) + 2)
    BY Zenon DEF RowEnd, EndAt
  <2> QED BY <1>1, <1>2, <2>1, Zenon
<1>4. EndAt(body, l) \in {0, l + 1, l + 2} /\ (EndAt(body, l) = 0 \/ EndAt(body, l) <= Len(body) + 1)
  <2>1. CASE l > Len(body)
    BY <2>1, Zenon DEF EndAt
  <2>2. CASE ~(l > Len(body)) /\ body[l].part = "null"
    <3>1. EndAt(body, l) = l + 1
      BY <2>2, Zenon DEF EndAt
    <3>2. l + 1 <= Len(body) + 1
      BY <2>2
    <3> QED BY <3>1, <3>2, Zenon
  <2>3. CASE ~(l > Len(body)) /\ body[l].part # "null" /\ l + 1 > Len(body)
    BY <2>3, Zenon DEF EndAt
  <2>4. CASE ~(l > Len(body)) /\ body[l].part # "null" /\ ~(l + 1 > Len(body))
    <3>1. EndAt(body, l) = l + 2
      BY <2>4, Zenon DEF EndAt
    <3>2. l + 2 <= Len(body) + 1
      BY <2>4
    <3> QED BY <3>1, <3>2, Zenon
  <2> QED BY <2>1, <2>2, <2>3, <2>4, Zenon
<1>5. PICK x : x = EndAt(body, l)
  OBVIOUS
<1>6. x \in {0, l + 1, l + 2} /\ (x = 0 \/ x <= Len(body) + 1)
  BY <1>4, <1>5, Zenon
<1>7. x = 0 \/ x \in (p + 1)..(Len(body) + 1)
  BY <1>2, <1>6
<1> QED BY <1>3, <1>5, <1>7, Zenon

LEMMA DecFcnExists ==
    ASSUME NEW body, Len(body) \in Nat
    PROVE  DecFcn(body) = [p \in 1..(Len(body) + 1) |-> DecStep(body, DecFcn(body), p)]
<1> DEFINE N == Len(body)
           Dom(k) == (N + 1 - k)..(N + 1)
           S == {k \in Nat : k <= N => \E g : g = [i \in Dom(k) |-> DecStep(body, g, i)]}
<1>1. N \in Nat
  OBVIOUS
<1>2. ASSUME NEW g, NEW h, NEW i \in 1..(N + 1), \A j \in (i + 1)..(N + 1) : g[j] = h[j]
      PROVE  DecStep(body, g, i) = DecStep(body, h, i)
  <2>1. i \in Nat /\ i >= 1
    BY <1>1
  <2>2. RowEnd(body, i) = 0 \/ RowEnd(body, i) \in (i + 1)..(N + 1)
    BY <2>1, RowEndRange, Zenon
  <2>3. CASE RowEnd(body, i) = 0
    BY <2>3, Zenon DEF DecStep
  <2>4. CASE RowEnd(body, i) \in (i + 1)..(N + 1)
    <3>1. g[RowEnd(body, i)] = h[RowEnd(body, i)]
      BY <1>2, <2>4, Zenon
    <3> QED BY <3>1, Zenon DEF DecStep
  <2> QED BY <2>2, <2>3, <2>4, Zenon
<1>3. ASSUME NEW k \in Nat, \A m \in Nat : m < k => m \in S
      PROVE  k \in S
  <2> SUFFICES ASSUME k <= N PROVE \E g : g = [i \in Dom(k) |-> DecStep(body, g, i)]
    OBVIOUS
  <2>1. PICK g : k # 0 => g = [i \in Dom(k - 1) |-> DecStep(body, g, i)]
    <3>1. CASE k = 0
      BY <3>1
    <3>2. CASE k # 0
      <4>0. k - 1 \in Nat /\ k - 1 < k
        BY <3>2
      <4>1. k - 1 \in S
        BY <1>3, <4>0, Zenon
      <4> QED BY <4>1, <1>1
    <3> QED BY <3>1, <3>2
  <2> DEFINE h == [i \in Dom(k) |-> IF i = N + 1 - k THEN DecStep(body, g, i) ELSE g[i]]
  <2>2. ASSUME NEW i \in Dom(k) PROVE h[i] = DecStep(body, h, i)
    <3>1. \A j \in (i + 1)..(N + 1) : g[j] = h[j]
      BY <1>1
    <3>2. DecStep(body, g, i) = DecStep(body, h, i)
      <4> HIDE DEF h
      <4> QED BY <3>1, <1>2, <1>1
    <3>3. i # N + 1 - k => g[i] = DecStep(body, g, i)
      BY <2>1, <1>1
    <3> QED BY <3>2, <3>3
  <2>3. h = [i \in Dom(k) |-> DecStep(body, h, i)]
    BY <2>2
  <2> QED BY <2>3
<1>4. N \in S
  <2> HIDE DEF S
  <2> QED BY <1>1, <1>3, Induction
<1>5. \E g : g = [i \in 1..(N + 1) |-> DecStep(body, g, i)]
  BY <1>1, <1>4
<1> QED BY <1>5 DEF DecFcn

LEMMA DecodeBlockIsFcn ==
    ASSUME NEW body
    PROVE  DecodeBlock(body) = DecFcn(body)[1]
BY DEF DecodeBlock, DecFcn, DecStep, DecEnd, DecRow

\* The end of the data in a block of its own.
LEMMA DecodeEod ==
    DecodeBlock(<<Byte(0, "eod")>>) = DecEnd(<<>>, TRUE)
<1>1. PICK body : body = <<Byte(0, "eod")>>
  OBVIOUS
<1>2. Len(body) = 1 /\ body[1].part = "eod" /\ ~(1 > 1) /\ 1 \in 1..2 /\ 1 + 1 = 2
  BY <1>1 DEF Byte
<1>3. Len(body) \in Nat
  BY <1>2
<1>4. DecFcn(body) = [p \in 1..(Len(body) + 1) |-> DecStep(body, DecFcn(body), p)]
  BY <1>3, DecFcnExists, Zenon
<1>5. DecFcn(body)[1] = DecStep(body, DecFcn(body), 1)
  BY <1>2, <1>4, Zenon
<1>6. DecStep(body, DecFcn(body), 1) = DecEnd(<<>>, TRUE)
  BY <1>2, Zenon DEF DecStep
<1> QED BY <1>1, <1>5, <1>6, DecodeBlockIsFcn, Zenon

\* The bytes of rows that begin at a row's beginning and end anywhere: the complete rows, and
\* the bytes of the one that is not.
LEMMA RowsFrom ==
    ASSUME NEW rows \in Seq(ResultRows), NEW m \in 0..Len(rows), NEW u \in 0..Len(Encode(rows)),
           Off(rows, m) <= u, NEW body, body = SubSeq(Encode(rows), Off(rows, m) + 1, u),
           NEW k \in 0..Len(rows), m <= k, k < Len(rows)
    PROVE  /\ Len(body) \in Nat /\ Len(body) = u - Off(rows, m)
           /\ Off(rows, k) - Off(rows, m) + 1 \in Nat /\ Off(rows, k) - Off(rows, m) + 1 >= 1
           /\ RowShape(k + 1, rows[k + 1], EncodedRows(rows)[k + 1])
           /\ rows[k + 1] \in ResultRows
           /\ Covers(body, Off(rows, k) - Off(rows, m) + 1, EncodedRows(rows)[k + 1])
<1> DEFINE E == Encode(rows)
<1>1. E \in Seq(WireByte) /\ Len(E) \in Nat
  <2>1. E \in Seq(WireByte)
    BY EncodedType, Zenon
  <2> QED BY <2>1
<1>2. u \in Nat /\ u <= Len(E)
  BY <1>1
<1>3. PICK a \in Nat : a = Off(rows, m)
  BY OffType, Zenon
<1>4. PICK b \in Nat : b = Off(rows, k) /\ a <= b
  BY <1>3, OffType, OffMono, Zenon
<1> HIDE DEF E
<1>5. /\ Len(body) = u - a
      /\ \A i \in 1..(u - a) : body[i] = E[a + i]
  <2>1. body = SubSeq(E, a + 1, u) /\ a <= u
    BY <1>3, Zenon DEF E
  <2>2. /\ SubSeq(E, a + 1, u) \in Seq(WireByte)
        /\ Len(SubSeq(E, a + 1, u)) = u - a
        /\ \A i \in 1..(u - a) : SubSeq(E, a + 1, u)[i] = E[a + i]
    BY <1>1, <1>2, <2>1, SubSeqType, Zenon
  <2> QED BY <2>1, <2>2, Zenon
<1>6. Len(body) \in Nat /\ b - a + 1 \in Nat /\ b - a + 1 >= 1
  <2>1. a <= u
    BY <1>3, Zenon
  <2>2. u - a \in Nat /\ b - a + 1 \in Nat /\ b - a + 1 >= 1
    BY <1>2, <1>4, <2>1
  <2> QED BY <1>5, <2>2, Zenon
<1>7. PICK j \in 1..Len(rows) : j = k + 1 /\ k = j - 1
  OBVIOUS
<1>8. RowShape(j, rows[j], EncodedRows(rows)[j]) /\ rows[j] \in ResultRows
  BY OffNext, Zenon
<1>9. PICK e : e = EncodedRows(rows)[j]
  OBVIOUS
<1>10. Len(e) = RowLen(rows[j])
  BY <1>8, <1>9, Zenon DEF RowShape
<1>11. ASSUME NEW x \in 1..Len(e), b - a + 1 + x - 1 <= Len(body)
       PROVE  body[b - a + 1 + x - 1] = e[x]
  <2>1. x \in 1..RowLen(rows[j])
    BY <1>10, Zenon
  <2>2. E[Off(rows, j - 1) + x] = EncodedRows(rows)[j][x]
    BY <2>1, ByteAt, Zenon DEF E
  <2>3. E[b + x] = e[x]
    BY <1>4, <1>7, <1>9, <2>2, Zenon
  <2>4. PICK y \in Nat : y = x /\ y >= 1
    <3>1. RowLen(rows[j]) \in Nat
      BY <1>8, RowLens, Zenon
    <3>2. x \in Nat /\ x >= 1
      BY <2>1, <3>1
    <3> QED BY <3>2, Zenon
  <2>5. b - a + 1 + y - 1 <= u - a
    BY <1>5, <1>11, <2>4, Zenon
  <2>6. a <= b
    BY <1>4, Zenon
  <2>7. b - a + 1 + y - 1 \in 1..(u - a) /\ a + (b - a + 1 + y - 1) = b + y
    BY <1>2, <2>4, <2>5, <2>6
  <2> QED BY <1>5, <2>3, <2>4, <2>7, Zenon
<1>12. Covers(body, b - a + 1, e)
  BY <1>11, Zenon DEF Covers
<1> QED BY <1>3, <1>4, <1>5, <1>6, <1>7, <1>8, <1>9, <1>12, Zenon

LEMMA SeqEq ==
    ASSUME NEW I, NEW s \in Seq(I), NEW t \in Seq(I), Len(s) = Len(t),
           \A x \in 1..Len(s) : s[x] = t[x]
    PROVE  s = t
OBVIOUS

\* A function with the domain 1..n.
OnFirst(f, n) == f = [x \in 1..n |-> f[x]]
Joins(f, g, h, n, m) ==
    /\ OnFirst(f, n + m) /\ OnFirst(g, n) /\ OnFirst(h, m)
    /\ \A x \in 1..n : f[x] = g[x]
    /\ \A x \in 1..m : f[n + x] = h[x]

\* A function is two others one behind the other.
LEMMA ConcatFcn ==
    ASSUME NEW n \in Nat, NEW m \in Nat, NEW f, NEW g, NEW h, Joins(f, g, h, n, m)
    PROVE  f = g \o h
<1>1. PICK I : I = {f[x] : x \in 1..(n + m)}
  OBVIOUS
<1>2. ASSUME NEW x \in 1..(n + m) PROVE f[x] \in I
  BY <1>1, Zenon
<1>3. f \in [1..(n + m) -> I]
  <2>1. f = [x \in 1..(n + m) |-> f[x]]
    BY Zenon DEF Joins, OnFirst
  <2> QED BY <1>2, <2>1
<1>4. g \in [1..n -> I]
  <2>1. ASSUME NEW x \in 1..n PROVE g[x] \in I
    <3>1. x \in 1..(n + m)
      OBVIOUS
    <3>2. f[x] = g[x]
      BY Zenon DEF Joins
    <3> QED BY <1>2, <3>1, <3>2, Zenon
  <2>2. g = [x \in 1..n |-> g[x]]
    BY Zenon DEF Joins, OnFirst
  <2> QED BY <2>1, <2>2
<1>5. h \in [1..m -> I]
  <2>1. ASSUME NEW x \in 1..m PROVE h[x] \in I
    <3>1. n + x \in 1..(n + m)
      OBVIOUS
    <3>2. f[n + x] = h[x]
      BY Zenon DEF Joins
    <3> QED BY <1>2, <3>1, <3>2, Zenon
  <2>2. h = [x \in 1..m |-> h[x]]
    BY Zenon DEF Joins, OnFirst
  <2> QED BY <2>1, <2>2
<1>6. f \in Seq(I) /\ Len(f) = n + m /\ g \in Seq(I) /\ Len(g) = n /\ h \in Seq(I) /\ Len(h) = m
  <2>1. n + m \in Nat
    OBVIOUS
  <2>2. f \in Seq(I) /\ Len(f) = n + m
    BY <1>3, <2>1, FcnSeq, Zenon
  <2>3. g \in Seq(I) /\ Len(g) = n
    BY <1>4, FcnSeq, Zenon
  <2>4. h \in Seq(I) /\ Len(h) = m
    BY <1>5, FcnSeq, Zenon
  <2> QED BY <2>2, <2>3, <2>4, Zenon
<1>7. g \o h \in Seq(I) /\ Len(g \o h) = n + m
  <2>1. g \o h \in Seq(I) /\ Len(g \o h) = Len(g) + Len(h)
    BY <1>6, ConcatProps, Zenon
  <2> QED BY <1>6, <2>1, Zenon
<1>8. ASSUME NEW x \in 1..Len(f) PROVE f[x] = (g \o h)[x]
  <2>0. x \in 1..(n + m)
    BY <1>6, Zenon
  <2>1. CASE x \in 1..n
    <3>1. x \in 1..Len(g)
      BY <1>6, <2>1, Zenon
    <3>2. (g \o h)[x] = g[x]
      BY <1>6, <3>1, ConcatLeft, Zenon
    <3> QED BY <2>1, <3>2, Zenon DEF Joins
  <2>2. CASE ~(x \in 1..n)
    <3>1. PICK y \in 1..m : x = n + y
      BY <2>0, <2>2
    <3>2. y \in 1..Len(h)
      BY <1>6, <3>1, Zenon
    <3>3. (g \o h)[Len(g) + y] = h[y]
      BY <1>6, <3>2, ConcatRight, Zenon
    <3>4. f[n + y] = h[y]
      BY Zenon DEF Joins
    <3> QED BY <1>6, <3>1, <3>3, <3>4, Zenon
  <2> QED BY <2>1, <2>2, Zenon
<1>9. Len(f) = Len(g \o h)
  BY <1>6, <1>7, Zenon
<1> QED BY <1>6, <1>7, <1>8, <1>9, SeqEq, Zenon

LEMMA RawRowsConcat ==
    ASSUME NEW rows, NEW i \in Nat, NEW k \in Nat, NEW j \in Nat, i <= k, k <= j
    PROVE  /\ RawRows(rows, i, k) \o RawRows(rows, k, j) = RawRows(rows, i, j)
           /\ RawRows(rows, j, j) = <<>>
<1>1. PICK n \in Nat : n = k - i
  OBVIOUS
<1>2. PICK m \in Nat : m = j - k
  OBVIOUS
<1>3. j - i = n + m /\ j - j = 0
  BY <1>1, <1>2
<1>4. PICK f : f = RawRows(rows, i, j)
  OBVIOUS
<1>5. PICK g : g = RawRows(rows, i, k)
  OBVIOUS
<1>6. PICK h : h = RawRows(rows, k, j)
  OBVIOUS
<1>7. /\ f = [x \in 1..(n + m) |-> Raw(i + x, rows[i + x])]
      /\ g = [x \in 1..n |-> Raw(i + x, rows[i + x])]
      /\ h = [x \in 1..m |-> Raw(k + x, rows[k + x])]
  BY <1>1, <1>2, <1>3, <1>4, <1>5, <1>6, Zenon DEF RawRows
<1>8. OnFirst(f, n + m) /\ OnFirst(g, n) /\ OnFirst(h, m)
  BY <1>7 DEF OnFirst
<1>9. ASSUME NEW x \in 1..n PROVE f[x] = g[x]
  <2>1. x \in 1..(n + m)
    OBVIOUS
  <2> QED BY <1>7, <2>1, Zenon
<1>10. ASSUME NEW x \in 1..m PROVE f[n + x] = h[x]
  <2>1. n + x \in 1..(n + m) /\ i + (n + x) = k + x
    BY <1>1
  <2> QED BY <1>7, <2>1, Zenon
<1>11. f = g \o h
  <2>1. Joins(f, g, h, n, m)
    BY <1>8, <1>9, <1>10, Zenon DEF Joins
  <2> QED BY <2>1, ConcatFcn, Zenon
<1>12. RawRows(rows, j, j) = <<>>
  BY DEF RawRows
<1> QED BY <1>4, <1>5, <1>6, <1>11, <1>12, Zenon

LEMMA RawRowOne ==
    ASSUME NEW rows, NEW k \in Nat
    PROVE  RawRows(rows, k, k + 1) = <<Raw(k + 1, rows[k + 1])>>
<1>1. PICK j \in Nat : j = k + 1 /\ j - k = 1
  OBVIOUS
<1>2. RawRows(rows, k, j) = [x \in 1..1 |-> Raw(k + x, rows[k + x])]
  BY <1>1, Zenon DEF RawRows
<1>3. PICK r : r = Raw(k + 1, rows[k + 1])
  OBVIOUS
<1>4. ASSUME NEW x \in 1..1 PROVE Raw(k + x, rows[k + x]) = r
  <2>1. x = 1
    OBVIOUS
  <2> QED BY <1>3, <2>1, Zenon
<1>5. [x \in 1..1 |-> Raw(k + x, rows[k + x])] = [x \in 1..1 |-> r]
  BY <1>4, Zenon
<1>6. [x \in 1..1 |-> r] = <<r>>
  OBVIOUS
<1> QED BY <1>1, <1>2, <1>3, <1>5, <1>6, Zenon

LEMMA SubSubSeq ==
    ASSUME NEW B, NEW s \in Seq(B), NEW a \in Nat, NEW b \in Nat, NEW u \in Nat,
           a <= b, b <= u, u <= Len(s)
    PROVE  SubSeq(SubSeq(s, a + 1, u), b - a + 1, u - a) = SubSeq(s, b + 1, u)
<1>1. PICK t : t = SubSeq(s, a + 1, u)
  OBVIOUS
<1>2. a <= u
  OBVIOUS
<1>3. t \in Seq(B) /\ Len(t) = u - a /\ \A k \in 1..(u - a) : t[k] = s[a + k]
  BY <1>1, <1>2, SubSeqType, Zenon
<1>4. PICK c \in Nat : c = b - a
  OBVIOUS
<1>5. PICK l \in Nat : l = u - a /\ c <= l /\ l <= Len(t) /\ l - c = u - b
  <2>1. PICK l \in Nat : l = u - a /\ c <= l /\ l - c = u - b
    BY <1>2, <1>4
  <2>2. Len(t) = l
    BY <1>3, <2>1, Zenon
  <2>3. l <= Len(t)
    BY <2>2
  <2> QED BY <2>1, <2>3, Zenon
<1>6. /\ SubSeq(t, c + 1, l) \in Seq(B)
      /\ Len(SubSeq(t, c + 1, l)) = l - c
      /\ \A k \in 1..(l - c) : SubSeq(t, c + 1, l)[k] = t[c + k]
  <2>1. t \in Seq(B) /\ c <= l /\ l <= Len(t)
    BY <1>3, <1>5, Zenon
  <2> QED BY <2>1, SubSeqType
<1>7. /\ SubSeq(s, b + 1, u) \in Seq(B)
      /\ Len(SubSeq(s, b + 1, u)) = u - b
      /\ \A k \in 1..(u - b) : SubSeq(s, b + 1, u)[k] = s[b + k]
  BY SubSeqType, Zenon
<1>8. ASSUME NEW k \in 1..(u - b) PROVE SubSeq(t, c + 1, l)[k] = SubSeq(s, b + 1, u)[k]
  <2>1. k \in 1..(l - c)
    BY <1>5, Zenon
  <2>2. SubSeq(t, c + 1, l)[k] = t[c + k]
    BY <1>6, <2>1, Zenon
  <2>3. c + k \in 1..(u - a) /\ a + (c + k) = b + k
    BY <1>4
  <2>4. t[c + k] = s[a + (c + k)]
    BY <1>3, <2>3, Zenon
  <2> QED BY <1>7, <2>2, <2>3, <2>4, Zenon
<1>9. SubSeq(t, c + 1, l) = SubSeq(s, b + 1, u)
  <2>1. Len(SubSeq(t, c + 1, l)) = Len(SubSeq(s, b + 1, u)) /\ Len(SubSeq(t, c + 1, l)) = u - b
    BY <1>5, <1>6, <1>7, Zenon
  <2>2. \A k \in 1..Len(SubSeq(t, c + 1, l)) : SubSeq(t, c + 1, l)[k] = SubSeq(s, b + 1, u)[k]
    BY <1>8, <2>1, Zenon
  <2> QED BY <1>6, <1>7, <2>1, <2>2, SeqEq, Zenon
<1> QED BY <1>1, <1>4, <1>5, <1>9, Zenon

LEMMA SubSeqNone ==
    ASSUME NEW B, NEW s \in Seq(B), NEW u \in Nat, u <= Len(s)
    PROVE  SubSeq(s, u + 1, u) = <<>>
<1>1. u <= u
  OBVIOUS
<1>2. SubSeq(s, u + 1, u) \in Seq(B) /\ Len(SubSeq(s, u + 1, u)) = u - u
  BY <1>1, SubSeqType, Zenon
<1>3. PICK t \in Seq(B) : t = SubSeq(s, u + 1, u) /\ Len(t) = u - u
  BY <1>2, Zenon
<1>4. t = <<>>
  <2>1. u - u = 0
    OBVIOUS
  <2>2. Len(t) = 0
    BY <1>3, <2>1, Zenon
  <2> QED BY <2>2
<1> QED BY <1>3, <1>4, Zenon

\* z is the part of s from i + 1 to j.
SubIs(B, s, i, j, z) ==
    z \in Seq(B) /\ Len(z) = j - i /\ \A k \in 1..(j - i) : z[k] = s[i + k]

LEMMA SubSeqIs ==
    ASSUME NEW B, NEW s \in Seq(B), NEW i \in Nat, NEW j \in Nat, i <= j, j <= Len(s),
           NEW z, z = SubSeq(s, i + 1, j)
    PROVE  SubIs(B, s, i, j, z)
BY SubSeqType DEF SubIs

\* Complete rows and the beginning of another.
Decoded(rows, k, m, u) ==
    [rows |-> RawRows(rows, k, m), leftover |-> SubSeq(Encode(rows), Off(rows, m) + 1, u), eod |-> FALSE]

\* DecodeBlock on any stretch of the row data that begins with a row: exactly the rows that are
\* complete in it, and the bytes of the next one as far as they go, wherever it was cut.
THEOREM DecodeRows ==
    ASSUME NEW rows \in Seq(ResultRows), NEW j \in 0..Len(rows), NEW u \in 0..Len(Encode(rows)),
           Off(rows, j) <= u, NEW m, InRow(rows, m, u)
    PROVE  /\ j <= m /\ m \in 0..Len(rows)
           /\ DecodeBlock(SubSeq(Encode(rows), Off(rows, j) + 1, u)) = Decoded(rows, j, m, u)
<1> DEFINE E == Encode(rows)
           P(k) == Off(rows, k) - Off(rows, j) + 1
<1>1. E \in Seq(WireByte) /\ Len(E) \in Nat /\ u \in Nat /\ u <= Len(E) /\ Len(rows) \in Nat
  <2>1. E \in Seq(WireByte)
    BY EncodedType, Zenon
  <2>2. Len(E) \in Nat
    BY <2>1
  <2>3. u \in Nat /\ u <= Len(E) /\ Len(rows) \in Nat
    BY <2>2
  <2> QED BY <2>1, <2>2, <2>3, Zenon
<1>2. j <= m /\ m \in 0..Len(rows) /\ Off(rows, m) <= u /\ Off(rows, m) \in Nat /\ Off(rows, j) \in Nat
  BY <1>1, RowMono, OffType, Zenon
<1>3. PICK body : body = SubSeq(E, Off(rows, j) + 1, u)
  OBVIOUS
<1>4. Len(body) \in Nat /\ Len(body) = u - Off(rows, j)
  <2>1. Len(SubSeq(E, Off(rows, j) + 1, u)) = u - Off(rows, j)
    <3> HIDE DEF E
    <3>1. PICK a \in Nat : a = Off(rows, j) /\ a <= u
      BY <1>2, Zenon
    <3>2. PICK z : z = SubSeq(E, a + 1, u)
      OBVIOUS
    <3>3. SubIs(WireByte, E, a, u, z)
      BY <1>1, <3>1, <3>2, SubSeqIs, Zenon
    <3>4. Len(z) = u - a
      BY <3>3, Zenon DEF SubIs
    <3> QED BY <3>1, <3>2, <3>4, Zenon
  <2>2. u - Off(rows, j) \in Nat
    BY <1>1, <1>2
  <2> QED BY <1>3, <2>1, <2>2, Zenon
<1> HIDE DEF E
<1>5. ASSUME NEW k \in 0..Len(rows), j <= k, k <= m
      PROVE  /\ P(k) \in Nat /\ P(k) >= 1 /\ Off(rows, k) \in Nat
             /\ DecFcn(body)[P(k)] = DecStep(body, DecFcn(body), P(k))
  <2>1. Off(rows, k) \in Nat /\ Off(rows, j) <= Off(rows, k) /\ Off(rows, k) <= Off(rows, m)
    BY <1>2, <1>5, OffType, OffMono, Zenon
  <2>2. P(k) \in Nat /\ P(k) >= 1 /\ P(k) \in 1..(Len(body) + 1)
    BY <1>1, <1>2, <1>4, <2>1
  <2>3. DecFcn(body) = [p \in 1..(Len(body) + 1) |-> DecStep(body, DecFcn(body), p)]
    BY <1>4, DecFcnExists, Zenon
  <2>4. DecFcn(body)[P(k)] = DecStep(body, DecFcn(body), P(k))
    <3> HIDE DEF P
    <3> QED BY <2>2, <2>3, Zenon
  <2> QED BY <2>1, <2>2, <2>4, Zenon
<1>6. DecFcn(body)[P(m)] = Decoded(rows, m, m, u)
  <2>1. m <= m
    BY <1>2
  <2>2. PICK p : p = P(m)
    OBVIOUS
  <2>3. p \in Nat /\ p >= 1 /\ DecFcn(body)[P(m)] = DecStep(body, DecFcn(body), p)
    BY <1>2, <1>5, <2>1, <2>2, Zenon
  <2>4. RawRows(rows, m, m) = <<>>
    <3>1. m \in Nat
      BY <1>2
    <3> QED BY <2>1, <3>1, RawRowsConcat, Zenon
  <2>5. CASE Off(rows, m) = u
    <3>1. p > Len(body)
      BY <1>1, <1>2, <1>4, <2>2, <2>5
    <3>2. DecStep(body, DecFcn(body), p) = DecEnd(<<>>, FALSE)
      BY <3>1, Zenon DEF DecStep
    <3>3. SubSeq(E, Off(rows, m) + 1, u) = <<>>
      BY <1>1, <2>5, SubSeqNone, Zenon
    <3> QED BY <2>3, <2>4, <3>2, <3>3, Zenon DEF DecEnd, Decoded, E
  <2>6. CASE Off(rows, m) # u
    <3>1. m < Len(rows)
      <4>1. m # Len(rows)
        <5>1. Off(rows, Len(rows)) = Len(E)
          BY OffEnds, Zenon DEF E
        <5> QED BY <1>1, <1>2, <2>6, <5>1
      <4> QED BY <1>1, <1>2, <4>1
    <3>2. /\ RowShape(m + 1, rows[m + 1], EncodedRows(rows)[m + 1])
          /\ rows[m + 1] \in ResultRows
          /\ Covers(body, p, EncodedRows(rows)[m + 1])
      <4>1. body = SubSeq(Encode(rows), Off(rows, j) + 1, u)
        BY <1>3, Zenon DEF E
      <4> QED BY <1>2, <2>2, <3>1, <4>1, RowsFrom, Zenon
    <3>3. p <= Len(body) /\ ~(p > Len(body))
      BY <1>1, <1>2, <1>4, <2>2, <2>6
    <3>4. p + RowLen(rows[m + 1]) - 1 > Len(body)
      <4>1. PICK i \in 1..Len(rows) : i = m + 1 /\ i - 1 = m
        BY <1>1, <1>2, <3>1
      <4>2. Off(rows, i) = Off(rows, i - 1) + RowLen(rows[i]) /\ Off(rows, i) \in Nat
        BY OffNext, Zenon
      <4>3. RowLen(rows[m + 1]) \in Nat
        BY <3>2, RowLens, Zenon
      <4>4. u < Off(rows, m) + RowLen(rows[m + 1])
        <5>1. u < Off(rows, m + 1)
          BY <3>1, Zenon DEF InRow
        <5> QED BY <4>1, <4>2, <5>1, Zenon
      <4>5. PICK a \in Nat : a = Off(rows, j)
        BY <1>2, Zenon
      <4>6. PICK b \in Nat : b = Off(rows, m)
        BY <1>2, Zenon
      <4>7. PICK l \in Nat : l = RowLen(rows[m + 1])
        BY <4>3, Zenon
      <4>8. p = b - a + 1 /\ u < b + l /\ Len(body) = u - a /\ u \in Nat
        BY <1>1, <1>4, <2>2, <4>4, <4>5, <4>6, <4>7, Zenon
      <4>9. PICK n : n = Len(body)
        OBVIOUS
      <4>10. p + l - 1 > n
        BY <4>8, <4>9
      <4> QED BY <4>7, <4>9, <4>10, Zenon
    <3>5. RowEnd(body, p) = 0 /\ body[p].part \in {"ca", "nullca"}
      BY <1>4, <2>3, <3>2, <3>3, <3>4, RowEndPart, Zenon
    <3>6. body[p].part # "eod"
      BY <3>5
    <3>7. DecStep(body, DecFcn(body), p) = DecEnd(SubSeq(body, p, Len(body)), FALSE)
      BY <3>3, <3>5, <3>6, Zenon DEF DecStep
    <3>8. SubSeq(body, p, Len(body)) = SubSeq(E, Off(rows, m) + 1, u)
      <4>1. Off(rows, j) <= Off(rows, m)
        BY <1>2, OffMono, Zenon
      <4>2. SubSeq(SubSeq(E, Off(rows, j) + 1, u), Off(rows, m) - Off(rows, j) + 1, u - Off(rows, j))
              = SubSeq(E, Off(rows, m) + 1, u)
        <5>1. PICK a \in Nat : a = Off(rows, j)
          BY <1>2, Zenon
        <5>2. PICK b \in Nat : b = Off(rows, m)
          BY <1>2, Zenon
        <5>3. a <= b /\ b <= u /\ u \in Nat /\ u <= Len(E) /\ E \in Seq(WireByte)
          BY <1>1, <1>2, <4>1, <5>1, <5>2, Zenon
        <5>4. SubSeq(SubSeq(E, a + 1, u), b - a + 1, u - a) = SubSeq(E, b + 1, u)
          BY <5>3, SubSubSeq
        <5> QED BY <5>1, <5>2, <5>4, Zenon
      <4> QED BY <1>3, <1>4, <2>2, <4>2, Zenon
    <3> QED BY <2>3, <2>4, <3>7, <3>8, Zenon DEF DecEnd, Decoded, E
  <2> QED BY <2>5, <2>6, Zenon
<1>7. ASSUME NEW k \in 0..Len(rows), j <= k, k < m, DecFcn(body)[P(k + 1)] = Decoded(rows, k + 1, m, u)
      PROVE  DecFcn(body)[P(k)] = Decoded(rows, k, m, u)
  <2>1. k <= m /\ k < Len(rows) /\ k + 1 \in 0..Len(rows) /\ k + 1 <= m /\ k \in Nat /\ m \in Nat
        /\ k + 1 \in Nat /\ k <= k + 1
    BY <1>1, <1>2, <1>7
  <2>2. PICK p : p = P(k)
    OBVIOUS
  <2>3. p \in Nat /\ p >= 1 /\ Off(rows, k) \in Nat /\ DecFcn(body)[P(k)] = DecStep(body, DecFcn(body), p)
    BY <1>5, <1>7, <2>1, <2>2, Zenon
  <2>4. /\ RowShape(k + 1, rows[k + 1], EncodedRows(rows)[k + 1])
        /\ rows[k + 1] \in ResultRows
        /\ Covers(body, p, EncodedRows(rows)[k + 1])
    <3>1. body = SubSeq(Encode(rows), Off(rows, j) + 1, u)
      BY <1>3, Zenon DEF E
    <3> QED BY <1>2, <1>7, <2>1, <2>2, <3>1, RowsFrom, Zenon
  <2>5. PICK l \in Nat : l = RowLen(rows[k + 1]) /\ l >= 4
    BY <2>4, RowLens, Zenon
  <2>6. Off(rows, k + 1) = Off(rows, k) + l /\ Off(rows, k + 1) \in Nat /\ Off(rows, k + 1) <= Off(rows, m)
    <3>1. PICK i \in 1..Len(rows) : i = k + 1 /\ i - 1 = k
      BY <1>1, <1>2, <2>1
    <3>2. Off(rows, i) = Off(rows, i - 1) + RowLen(rows[i]) /\ Off(rows, i) \in Nat
      BY OffNext, Zenon
    <3>3. Off(rows, k + 1) <= Off(rows, m)
      BY <1>2, <2>1, OffMono, Zenon
    <3> QED BY <2>5, <3>1, <3>2, <3>3, Zenon
  <2>7. p + l - 1 <= Len(body) /\ p + l = P(k + 1) /\ p + l # 0
    <3>1. PICK a \in Nat : a = Off(rows, j)
      BY <1>2, Zenon
    <3>2. PICK b \in Nat : b = Off(rows, k)
      BY <2>3, Zenon
    <3>3. PICK c \in Nat : c = Off(rows, k + 1)
      BY <2>6, Zenon
    <3>4. PICK d \in Nat : d = Off(rows, m)
      BY <1>2, Zenon
    <3>5. PICK n : n = Len(body)
      OBVIOUS
    <3>6. p = b - a + 1 /\ c = b + l /\ c <= d /\ d <= u /\ n = u - a /\ u \in Nat /\ p \in Nat
          /\ P(k + 1) = c - a + 1
      BY <1>1, <1>2, <1>4, <2>2, <2>3, <2>6, <3>1, <3>2, <3>3, <3>4, <3>5, Zenon
    <3>7. PICK x : x = P(k + 1)
      OBVIOUS
    <3> HIDE DEF P
    <3>8. p + l - 1 <= n /\ p + l = x /\ p + l # 0
      <4>1. x = c - a + 1
        BY <3>6, <3>7, Zenon
      <4>2. p = b - a + 1 /\ c = b + l /\ c <= d /\ d <= u /\ n = u - a /\ u \in Nat /\ p \in Nat
        BY <3>6, Zenon
      <4>3. l >= 4
        BY <2>5, Zenon
      <4> QED BY <4>1, <4>2, <4>3
    <3> QED BY <3>5, <3>7, <3>8, Zenon
  <2>8. RowEnd(body, p) = p + l /\ DecodeRow(body, p) = Raw(k + 1, rows[k + 1])
        /\ p <= Len(body) /\ body[p].part \in {"ca", "nullca"}
    <3>1. p + RowLen(rows[k + 1]) - 1 <= Len(body) /\ Len(body) \in Nat /\ p \in Nat /\ p >= 1
      BY <1>4, <2>3, <2>5, <2>7, Zenon
    <3>2. RowEnd(body, p) = p + RowLen(rows[k + 1]) /\ DecodeRow(body, p) = Raw(k + 1, rows[k + 1])
          /\ p <= Len(body) /\ body[p].part \in {"ca", "nullca"}
      BY <2>4, <3>1, RowEndFull, Zenon
    <3> QED BY <2>5, <3>2, Zenon
  <2>9. body[p].part # "eod" /\ ~(p > Len(body))
    <3>1. body[p].part # "eod"
      BY <2>8
    <3>2. p <= Len(body)
      BY <2>8, Zenon
    <3>3. ~(p > Len(body))
      BY <1>4, <2>3, <3>2
    <3> QED BY <3>1, <3>3, Zenon
  <2>10. DecStep(body, DecFcn(body), p) = DecRow(Raw(k + 1, rows[k + 1]), DecFcn(body)[p + l])
    BY <2>7, <2>8, <2>9, Zenon DEF DecStep
  <2>11. <<Raw(k + 1, rows[k + 1])>> \o RawRows(rows, k + 1, m) = RawRows(rows, k, m)
    <3>1. RawRows(rows, k, k + 1) = <<Raw(k + 1, rows[k + 1])>>
      BY <2>1, RawRowOne, Zenon
    <3>2. RawRows(rows, k, k + 1) \o RawRows(rows, k + 1, m) = RawRows(rows, k, m)
      BY <2>1, RawRowsConcat, ZenonT(60)
    <3> QED BY <3>1, <3>2, Zenon
  <2>12. DecRow(Raw(k + 1, rows[k + 1]), Decoded(rows, k + 1, m, u)) = Decoded(rows, k, m, u)
    <3>1. PICK d : d = Decoded(rows, k + 1, m, u)
      OBVIOUS
    <3>2. d.rows = RawRows(rows, k + 1, m) /\ d.leftover = SubSeq(Encode(rows), Off(rows, m) + 1, u)
          /\ d.eod = FALSE
      BY <3>1, Zenon DEF Decoded
    <3> QED BY <2>11, <3>1, <3>2, Zenon DEF DecRow, Decoded
  <2> QED BY <1>7, <2>3, <2>7, <2>10, <2>12, Zenon
<1> DEFINE S == {n \in Nat : n <= m - j => DecFcn(body)[P(m - n)] = Decoded(rows, m - n, m, u)}
<1>8. ASSUME NEW n \in Nat, \A i \in Nat : i < n => i \in S
      PROVE  n \in S
  <2> SUFFICES ASSUME n <= m - j PROVE DecFcn(body)[P(m - n)] = Decoded(rows, m - n, m, u)
    OBVIOUS
  <2> HIDE DEF P
  <2>1. CASE n = 0
    <3>1. m - n = m
      BY <1>2, <2>1
    <3> QED BY <1>6, <3>1, Zenon
  <2>2. CASE n # 0
    <3>1. n - 1 \in Nat /\ n - 1 < n /\ n - 1 <= m - j
      BY <1>2, <2>2
    <3>2. PICK k \in 0..Len(rows) : k = m - n /\ j <= k /\ k < m /\ k + 1 = m - (n - 1)
      BY <1>1, <1>2, <2>2
    <3>3. DecFcn(body)[P(m - (n - 1))] = Decoded(rows, m - (n - 1), m, u)
      <4>1. n - 1 \in S
        BY <1>8, <3>1, Zenon
      <4> QED BY <3>1, <4>1
    <3>4. DecFcn(body)[P(k + 1)] = Decoded(rows, k + 1, m, u)
      BY <3>2, <3>3, Zenon
    <3> QED BY <1>7, <3>2, <3>4, Zenon
  <2> QED BY <2>1, <2>2, Zenon
<1>9. PICK n \in Nat : n = m - j /\ n <= m - j /\ m - n = j
  BY <1>2
<1>10. n \in S
  <2> HIDE DEF S
  <2> QED BY <1>8, Induction
<1>11. DecFcn(body)[P(j)] = Decoded(rows, j, m, u)
  <2>1. DecFcn(body)[P(m - n)] = Decoded(rows, m - n, m, u)
    BY <1>9, <1>10
  <2> HIDE DEF P
  <2> QED BY <1>9, <2>1, Zenon
<1>12. P(j) = 1
  BY <1>2
<1>13. DecodeBlock(body) = Decoded(rows, j, m, u)
  <2> HIDE DEF P
  <2> QED BY <1>11, <1>12, DecodeBlockIsFcn, Zenon
<1> QED BY <1>2, <1>3, <1>13, Zenon DEF E

---------------------------------------------------------------------------
(* Consuming replies one after the other *)

\* Consume looks at the code point and the body alone.
ConsumeBy(query, cp, body) ==
    IF query.stop THEN query
    ELSE CASE cp = "OPNQRYRM" -> [query EXCEPT !.opened = TRUE]
           [] cp = "QRYDSC"   -> [query EXCEPT !.described = TRUE]
           [] cp = "QRYDTA"   -> IF query.described THEN ConsumeQRYDTA(query, body)
                                 ELSE [query EXCEPT !.stop = TRUE]
           [] cp = "EXTDTA"   -> [query EXCEPT !.extdta = Append(@, body)]
           [] cp = "ENDQRYRM" -> ConsumeENDQRYRM(query)
           [] cp = "SQLCARD"  -> IF body[1].part = "error"
                                 THEN [query EXCEPT !.failed = TRUE]
                                 ELSE [query EXCEPT !.done = TRUE]
           [] OTHER           -> query

LEMMA ConsumeIsBy ==
    ASSUME NEW query, NEW d
    PROVE  Consume(query, d) = ConsumeBy(query, d.cp, d.body)
BY Zenon DEF Consume, ConsumeBy

\* The query after the first i replies.
ConStep(query, ds, g, i) == IF i = 0 THEN query ELSE Consume(g[i - 1], ds[i])
ConFcn(query, ds) == CHOOSE g : g = [i \in 0..Len(ds) |-> ConStep(query, ds, g, i)]
ConEnd(query, ds) == ConFcn(query, ds)[Len(ds)]

\* What consume does when there are no more.
Settle(after) ==
    IF after.stop THEN after
    ELSE IF after.failed THEN [after EXCEPT !.done = TRUE]
    ELSE resolveLOBs(after)

LEMMA ConsumeAllIs ==
    ASSUME NEW query, NEW ds
    PROVE  ConsumeAll(query, ds) = Settle(ConEnd(query, ds))
BY DEF ConsumeAll, ConEnd, ConFcn, ConStep, Settle

LEMMA ConExists ==
    ASSUME NEW query, NEW ds, Len(ds) \in Nat
    PROVE  ConFcn(query, ds) = [k \in 0..Len(ds) |-> ConStep(query, ds, ConFcn(query, ds), k)]
<1> DEFINE S == {n \in Nat : \E g : g = [k \in 0..n |-> ConStep(query, ds, g, k)]}
<1>1. ASSUME NEW g, NEW h, NEW k \in Nat, k # 0 => g[k - 1] = h[k - 1]
      PROVE  ConStep(query, ds, g, k) = ConStep(query, ds, h, k)
  BY <1>1, Zenon DEF ConStep
<1>2. ASSUME NEW n \in Nat, \A m \in Nat : m < n => m \in S
      PROVE  n \in S
  <2>1. PICK g : n # 0 => g = [k \in 0..(n - 1) |-> ConStep(query, ds, g, k)]
    <3>1. CASE n = 0
      BY <3>1
    <3>2. CASE n # 0
      <4>0. n - 1 \in Nat /\ n - 1 < n
        BY <3>2
      <4>1. n - 1 \in S
        BY <1>2, <4>0, Zenon
      <4> QED BY <4>1
    <3> QED BY <3>1, <3>2
  <2> DEFINE h == [k \in 0..n |-> IF k = n THEN ConStep(query, ds, g, k) ELSE g[k]]
  <2>2. ASSUME NEW k \in 0..n PROVE h[k] = ConStep(query, ds, h, k)
    <3>1. k # 0 => g[k - 1] = h[k - 1]
      OBVIOUS
    <3>2. ConStep(query, ds, g, k) = ConStep(query, ds, h, k)
      <4> HIDE DEF h
      <4> QED BY <3>1, <1>1
    <3>3. k # n => g[k] = ConStep(query, ds, g, k)
      BY <2>1
    <3> QED BY <3>2, <3>3
  <2>3. h = [k \in 0..n |-> ConStep(query, ds, h, k)]
    BY <2>2
  <2> QED BY <2>3
<1>3. Len(ds) \in S
  <2> HIDE DEF S
  <2> QED BY <1>2, Induction
<1> QED BY <1>3 DEF ConFcn

Folds(f, query, ds) ==
    /\ f[0] = query
    /\ \A k \in 1..Len(ds) : f[k] = ConsumeBy(f[k - 1], ds[k].cp, ds[k].body)

LEMMA ConNext ==
    ASSUME NEW query, NEW ds, Len(ds) \in Nat
    PROVE  Folds(ConFcn(query, ds), query, ds)
<1>1. ConFcn(query, ds) = [k \in 0..Len(ds) |-> ConStep(query, ds, ConFcn(query, ds), k)]
  BY ConExists, Zenon
<1>2. ASSUME NEW k \in 0..Len(ds) PROVE ConFcn(query, ds)[k] = ConStep(query, ds, ConFcn(query, ds), k)
  BY <1>1, Zenon
<1>3. PICK f : f = ConFcn(query, ds)
  OBVIOUS
<1>4. f[0] = query
  <2>1. 0 \in 0..Len(ds)
    OBVIOUS
  <2>2. f[0] = ConStep(query, ds, f, 0)
    BY <1>2, <1>3, <2>1, Zenon
  <2> QED BY <2>2, Zenon DEF ConStep
<1>5. ASSUME NEW k \in 1..Len(ds) PROVE f[k] = ConsumeBy(f[k - 1], ds[k].cp, ds[k].body)
  <2>1. k \in 0..Len(ds) /\ k # 0
    OBVIOUS
  <2>2. f[k] = ConStep(query, ds, f, k)
    BY <1>2, <1>3, <2>1, Zenon
  <2>3. f[k] = Consume(f[k - 1], ds[k])
    BY <2>1, <2>2, Zenon DEF ConStep
  <2> QED BY <2>3, ConsumeIsBy, Zenon
<1>6. Folds(f, query, ds)
  BY <1>4, <1>5, Zenon DEF Folds
<1> QED BY <1>3, <1>6, Zenon

\* The same replies have the same effect, wherever they stand.
Same(d, e) == d.cp = e.cp /\ d.body = e.body
Agree(ds, es, a, n) ==
    a + n <= Len(ds) /\ n <= Len(es) /\ \A i \in 1..n : Same(ds[a + i], es[i])
Moves(query, ds, es, a, n) == ConFcn(query, ds)[a + n] = ConFcn(ConFcn(query, ds)[a], es)[n]

LEMMA ConAgree ==
    ASSUME NEW query, NEW ds, NEW es, Len(ds) \in Nat, Len(es) \in Nat, NEW a \in Nat, NEW n \in Nat,
           Agree(ds, es, a, n)
    PROVE  Moves(query, ds, es, a, n)
<1>1. PICK f : f = ConFcn(query, ds)
  OBVIOUS
<1>2. PICK g : g = ConFcn(f[a], es)
  OBVIOUS
<1>3. Folds(f, query, ds) /\ Folds(g, f[a], es)
  BY <1>1, <1>2, ConNext, Zenon
<1> DEFINE S == {k \in Nat : k <= n => f[a + k] = g[k]}
<1>5. ASSUME NEW k \in Nat, \A i \in Nat : i < k => i \in S
      PROVE  k \in S
  <2> SUFFICES ASSUME k <= n PROVE f[a + k] = g[k]
    OBVIOUS
  <2>1. CASE k = 0
    <3>1. a + k = a
      BY <2>1
    <3>2. g[0] = f[a]
      BY <1>3, Zenon DEF Folds
    <3> QED BY <2>1, <3>1, <3>2, Zenon
  <2>2. CASE k # 0
    <3>0. a + n <= Len(ds) /\ n <= Len(es)
      BY Zenon DEF Agree
    <3>1. k - 1 \in Nat /\ k - 1 < k /\ k - 1 <= n /\ k \in 1..n /\ k \in 1..Len(es) /\ a + k \in 1..Len(ds)
      BY <2>2, <3>0
    <3>2. f[a + (k - 1)] = g[k - 1]
      <4>1. k - 1 \in S
        BY <1>5, <3>1, Zenon
      <4> QED BY <3>1, <4>1, Zenon
    <3>3. PICK x : x = a + k
      OBVIOUS
    <3>4. f[x] = ConsumeBy(f[x - 1], ds[x].cp, ds[x].body)
      BY <1>3, <3>1, <3>3, Zenon DEF Folds
    <3>5. g[k] = ConsumeBy(g[k - 1], es[k].cp, es[k].body)
      BY <1>3, <3>1, Zenon DEF Folds
    <3>6. ds[x].cp = es[k].cp /\ ds[x].body = es[k].body
      BY <3>1, <3>3, Zenon DEF Same, Agree
    <3>7. f[x - 1] = g[k - 1]
      <4>1. x - 1 = a + (k - 1)
        BY <3>3
      <4> QED BY <3>2, <4>1, Zenon
    <3> QED BY <3>3, <3>4, <3>5, <3>6, <3>7, Zenon
  <2> QED BY <2>1, <2>2, Zenon
<1>6. n \in S
  <2> HIDE DEF S
  <2> QED BY <1>5, Induction
<1>7. n <= n
  OBVIOUS
<1>8. f[a + n] = g[n]
  BY <1>6, <1>7, Zenon
<1> QED BY <1>1, <1>2, <1>8, Zenon DEF Moves

LEMMA ConConcat ==
    ASSUME NEW query, NEW s \in Seq(Objs), NEW t \in Seq(Objs)
    PROVE  ConEnd(query, s \o t) = ConEnd(ConEnd(query, s), t)
<1>1. PICK ds : ds = s \o t
  OBVIOUS
<1>2. PICK a \in Nat : a = Len(s)
  OBVIOUS
<1>3. PICK b \in Nat : b = Len(t)
  OBVIOUS
<1>4. Len(ds) = a + b
  BY <1>1, <1>2, <1>3, ConcatProps, Zenon
<1>5. Len(ds) \in Nat /\ Len(s) \in Nat /\ Len(t) \in Nat /\ 0 + a = a /\ a <= Len(ds) /\ a <= Len(s)
      /\ a + b <= Len(ds) /\ b <= Len(t) /\ 0 \in Nat
  BY <1>2, <1>3, <1>4
<1>6. ASSUME NEW i \in 1..a PROVE Same(ds[0 + i], s[i])
  <2>1. 0 + i = i
    OBVIOUS
  <2>2. i \in 1..Len(s)
    BY <1>2, Zenon
  <2>3. ds[i] = s[i]
    BY <1>1, <2>2, ConcatLeft, Zenon
  <2> QED BY <2>1, <2>3, Zenon DEF Same
<1>7. ASSUME NEW i \in 1..b PROVE Same(ds[a + i], t[i])
  <2>1. i \in 1..Len(t)
    BY <1>3, Zenon
  <2>2. ds[Len(s) + i] = t[i]
    BY <1>1, <2>1, ConcatRight, Zenon
  <2> QED BY <1>2, <2>2, Zenon DEF Same
<1>8. ConFcn(query, ds)[0 + a] = ConFcn(ConFcn(query, ds)[0], s)[a]
  <2>1. 0 + a <= Len(ds)
    BY <1>5, Zenon
  <2>2. Agree(ds, s, 0, a)
    BY <1>5, <1>6, <2>1, Zenon DEF Agree
  <2>3. Moves(query, ds, s, 0, a)
    BY <1>5, <2>2, ConAgree, Zenon
  <2> QED BY <2>3, Zenon DEF Moves
<1>9. ConFcn(query, ds)[0] = query
  BY <1>5, ConNext, Zenon DEF Folds
<1>10. ConFcn(query, ds)[a] = ConEnd(query, s)
  BY <1>2, <1>5, <1>8, <1>9, Zenon DEF ConEnd
<1>11. ConFcn(query, ds)[a + b] = ConFcn(ConFcn(query, ds)[a], t)[b]
  <2>1. Agree(ds, t, a, b)
    BY <1>5, <1>7, Zenon DEF Agree
  <2>2. Moves(query, ds, t, a, b)
    BY <1>5, <2>1, ConAgree, Zenon
  <2> QED BY <2>2, Zenon DEF Moves
<1> QED BY <1>1, <1>3, <1>4, <1>10, <1>11, Zenon DEF ConEnd

LEMMA ConEmpty ==
    ASSUME NEW query
    PROVE  ConEnd(query, <<>>) = query
<1>1. PICK ds : ds = <<>>
  OBVIOUS
<1>2. Len(ds) = 0 /\ Len(ds) \in Nat
  BY <1>1
<1> QED BY <1>1, <1>2, ConNext, Zenon DEF ConEnd, Folds

LEMMA ConOne ==
    ASSUME NEW query, NEW d
    PROVE  ConEnd(query, <<d>>) = ConsumeBy(query, d.cp, d.body)
<1>1. PICK ds : ds = <<d>>
  OBVIOUS
<1>2. Len(ds) = 1 /\ Len(ds) \in Nat /\ ds[1] = d /\ 1 \in 1..Len(ds) /\ 1 - 1 = 0
  BY <1>1
<1>3. ConFcn(query, ds)[1] = ConsumeBy(ConFcn(query, ds)[1 - 1], ds[1].cp, ds[1].body)
  <2>1. Folds(ConFcn(query, ds), query, ds)
    BY <1>2, ConNext, Zenon
  <2>2. \A k \in 1..Len(ds) :
          ConFcn(query, ds)[k] = ConsumeBy(ConFcn(query, ds)[k - 1], ds[k].cp, ds[k].body)
    BY <2>1, Zenon DEF Folds
  <2>3. 1 \in 1..Len(ds)
    BY <1>2, Zenon
  <2> QED BY <2>2, <2>3
<1>4. ConFcn(query, ds)[0] = query
  BY <1>2, ConNext, Zenon DEF Folds
<1> QED BY <1>1, <1>2, <1>3, <1>4, Zenon DEF ConEnd

LEMMA ConMessages ==
    ASSUME NEW query, NEW s \in Seq(Objs)
    PROVE  ConEnd(query, Messages(s)) = ConEnd(query, s)
<1>1. PICK ds : ds = Messages(s)
  OBVIOUS
<1>2. Len(ds) = Len(s) /\ Len(s) \in Nat /\ 0 \in Nat /\ 0 + Len(s) = Len(s) /\ Len(s) <= Len(s)
  BY <1>1 DEF Messages
<1>3. ASSUME NEW i \in 1..Len(s) PROVE Same(ds[0 + i], s[i])
  <2>1. 0 + i = i
    OBVIOUS
  <2>2. ds[i] = [cp |-> s[i].cp, body |-> s[i].body]
    BY <1>1, Zenon DEF Messages
  <2>3. PICK d : d = s[i]
    OBVIOUS
  <2>4. ds[0 + i] = [cp |-> d.cp, body |-> d.body]
    BY <2>1, <2>2, <2>3, Zenon
  <2>5. Same(ds[0 + i], d)
    <3>1. [cp |-> d.cp, body |-> d.body].cp = d.cp /\ [cp |-> d.cp, body |-> d.body].body = d.body
      OBVIOUS
    <3> QED BY <2>4, <3>1, Zenon DEF Same
  <2> QED BY <2>3, <2>5, Zenon
<1>4. ConFcn(query, ds)[0 + Len(s)] = ConFcn(ConFcn(query, ds)[0], s)[Len(s)]
  <2>1. 0 + Len(s) <= Len(ds) /\ Len(ds) \in Nat
    BY <1>2, Zenon
  <2>2. Agree(ds, s, 0, Len(s))
    BY <1>2, <1>3, <2>1, Zenon DEF Agree
  <2>3. Moves(query, ds, s, 0, Len(s))
    BY <1>2, <2>1, <2>2, ConAgree, Zenon
  <2> QED BY <2>3, Zenon DEF Moves
<1>5. ConFcn(query, ds)[0] = query
  <2>1. Len(ds) \in Nat
    BY <1>2, Zenon
  <2> QED BY <2>1, ConNext, Zenon DEF Folds
<1> QED BY <1>1, <1>2, <1>4, <1>5, Zenon DEF ConEnd

---------------------------------------------------------------------------
(* What each reply does to a query *)

Qry(o, d, dn, f, st, pa, pe, ex) ==
    [opened |-> o, described |-> d, done |-> dn, failed |-> f, stop |-> st, partial |-> pa,
     pending |-> pe, extdta |-> ex]

\* Opaque to the provers, so that a field's value can be any term.
Yes == TRUE
No  == FALSE

LEMMA ByOPNQRYRM ==
    ASSUME NEW o, NEW d, NEW dn, NEW f, NEW pa, NEW pe, NEW ex, NEW body
    PROVE  ConsumeBy(Qry(o, d, dn, f, No, pa, pe, ex), "OPNQRYRM", body) = Qry(Yes, d, dn, f, No, pa, pe, ex)
<1>1. PICK query : query = Qry(o, d, dn, f, No, pa, pe, ex)
  OBVIOUS
<1>2. query.stop = No
  BY <1>1 DEF Qry
<1>3. ConsumeBy(query, "OPNQRYRM", body) = [query EXCEPT !.opened = Yes]
  BY <1>2 DEF ConsumeBy, Yes, No
<1>4. [query EXCEPT !.opened = Yes] = Qry(Yes, d, dn, f, No, pa, pe, ex)
  BY <1>1 DEF Qry
<1> QED BY <1>1, <1>3, <1>4, Zenon

LEMMA ByQRYDSC ==
    ASSUME NEW o, NEW d, NEW dn, NEW f, NEW pa, NEW pe, NEW ex, NEW body
    PROVE  ConsumeBy(Qry(o, d, dn, f, No, pa, pe, ex), "QRYDSC", body) = Qry(o, Yes, dn, f, No, pa, pe, ex)
<1>1. PICK query : query = Qry(o, d, dn, f, No, pa, pe, ex)
  OBVIOUS
<1>2. query.stop = No
  BY <1>1 DEF Qry
<1>3. ConsumeBy(query, "QRYDSC", body) = [query EXCEPT !.described = Yes]
  BY <1>2 DEF ConsumeBy, Yes, No
<1>4. [query EXCEPT !.described = Yes] = Qry(o, Yes, dn, f, No, pa, pe, ex)
  BY <1>1 DEF Qry
<1> QED BY <1>1, <1>3, <1>4, Zenon

LEMMA ByQRYDTA ==
    ASSUME NEW o, NEW dn, NEW f, NEW pa, NEW pe, NEW ex, NEW body, NEW rows, NEW left, NEW eod,
           DecodeBlock(pa \o body) = [rows |-> rows, leftover |-> left, eod |-> eod],
           NEW z, z = (dn \/ eod)
    PROVE  ConsumeBy(Qry(o, Yes, dn, f, No, pa, pe, ex), "QRYDTA", body)
             = Qry(o, Yes, z, f, No, left, pe \o rows, ex)
<1>1. PICK query : query = Qry(o, Yes, dn, f, No, pa, pe, ex)
  OBVIOUS
<1>2. query.stop = No /\ query.described = Yes /\ query.partial = pa /\ query.pending = pe /\ query.done = dn
  BY <1>1 DEF Qry
<1>3. ConsumeBy(query, "QRYDTA", body) = ConsumeQRYDTA(query, body)
  BY <1>2 DEF ConsumeBy, Yes, No
<1>4. PICK dec : dec = DecodeBlock(pa \o body)
  OBVIOUS
<1>5. dec.rows = rows /\ dec.leftover = left /\ dec.eod = eod
  BY <1>4
<1>6. ConsumeQRYDTA(query, body)
        = [query EXCEPT !.pending = query.pending \o dec.rows, !.partial = dec.leftover,
                        !.done = query.done \/ dec.eod]
  BY <1>2, <1>4, Zenon DEF ConsumeQRYDTA, WithPartial
<1>7. (query.done \/ dec.eod) = z
  BY <1>2, <1>5, Zenon
<1>8. [query EXCEPT !.pending = pe \o rows, !.partial = left, !.done = z]
        = Qry(o, Yes, z, f, No, left, pe \o rows, ex)
  <2>1. PICK x : x = pe \o rows
    OBVIOUS
  <2>2. PICK r : r = [query EXCEPT !.pending = x]
    OBVIOUS
  <2>3. r = Qry(o, Yes, dn, f, No, pa, x, ex)
    BY <1>1, <2>2 DEF Qry
  <2>4. PICK t : t = [r EXCEPT !.partial = left]
    OBVIOUS
  <2>5. t = Qry(o, Yes, dn, f, No, left, x, ex)
    BY <2>3, <2>4 DEF Qry
  <2>6. [t EXCEPT !.done = z] = Qry(o, Yes, z, f, No, left, x, ex)
    BY <2>5 DEF Qry
  <2> QED BY <2>1, <2>2, <2>4, <2>6, Zenon
<1>9. ConsumeQRYDTA(query, body) = [query EXCEPT !.pending = pe \o rows, !.partial = left, !.done = z]
  BY <1>2, <1>5, <1>6, <1>7, Zenon
<1> QED BY <1>1, <1>3, <1>8, <1>9, Zenon

LEMMA ByEXTDTA ==
    ASSUME NEW o, NEW d, NEW dn, NEW f, NEW pa, NEW pe, NEW ex, NEW body
    PROVE  ConsumeBy(Qry(o, d, dn, f, No, pa, pe, ex), "EXTDTA", body)
             = Qry(o, d, dn, f, No, pa, pe, Append(ex, body))
<1>1. PICK query : query = Qry(o, d, dn, f, No, pa, pe, ex)
  OBVIOUS
<1>2. query.stop = No /\ query.extdta = ex
  BY <1>1 DEF Qry
<1>3. ConsumeBy(query, "EXTDTA", body) = [query EXCEPT !.extdta = Append(query.extdta, body)]
  BY <1>2 DEF ConsumeBy, Yes, No
<1>4. [query EXCEPT !.extdta = Append(ex, body)] = Qry(o, d, dn, f, No, pa, pe, Append(ex, body))
  <2>1. PICK x : x = Append(ex, body)
    OBVIOUS
  <2>2. [query EXCEPT !.extdta = x] = Qry(o, d, dn, f, No, pa, pe, x)
    BY <1>1 DEF Qry
  <2> QED BY <2>1, <2>2, Zenon
<1> QED BY <1>1, <1>2, <1>3, <1>4, Zenon

LEMMA ByENDQRYRM ==
    ASSUME NEW o, NEW d, NEW dn, NEW f, NEW pa, NEW pe, NEW ex, NEW body, NEW st, st = (pa # <<>>)
    PROVE  ConsumeBy(Qry(o, d, dn, f, No, pa, pe, ex), "ENDQRYRM", body)
             = Qry(o, d, Yes, f, st, pa, pe, ex)
<1>1. PICK query : query = Qry(o, d, dn, f, No, pa, pe, ex)
  OBVIOUS
<1>2. query.stop = No /\ query.partial = pa
  BY <1>1 DEF Qry
<1>3. ConsumeBy(query, "ENDQRYRM", body) = ConsumeENDQRYRM(query)
  BY <1>2 DEF ConsumeBy, Yes, No
<1>4. ConsumeENDQRYRM(query) = [query EXCEPT !.done = Yes, !.stop = (query.partial # <<>>)]
  BY DEF ConsumeENDQRYRM, Yes
<1>5. (query.partial # <<>>) = st
  BY <1>2, Zenon
<1>6. [query EXCEPT !.done = Yes, !.stop = st] = Qry(o, d, Yes, f, st, pa, pe, ex)
  <2>1. PICK r : r = [query EXCEPT !.done = Yes]
    OBVIOUS
  <2>2. r = Qry(o, d, Yes, f, No, pa, pe, ex)
    BY <1>1, <2>1 DEF Qry
  <2>3. [r EXCEPT !.stop = st] = Qry(o, d, Yes, f, st, pa, pe, ex)
    BY <2>2 DEF Qry
  <2> QED BY <2>1, <2>3, Zenon
<1>7. ConsumeENDQRYRM(query) = [query EXCEPT !.done = Yes, !.stop = st]
  BY <1>4, <1>5, Zenon
<1> QED BY <1>1, <1>3, <1>6, <1>7, Zenon

LEMMA BySQLCARD ==
    ASSUME NEW o, NEW d, NEW dn, NEW f, NEW pa, NEW pe, NEW ex, NEW body
    PROVE  /\ body[1].part = "error" =>
                ConsumeBy(Qry(o, d, dn, f, No, pa, pe, ex), "SQLCARD", body)
                  = Qry(o, d, dn, Yes, No, pa, pe, ex)
           /\ body[1].part # "error" =>
                ConsumeBy(Qry(o, d, dn, f, No, pa, pe, ex), "SQLCARD", body)
                  = Qry(o, d, Yes, f, No, pa, pe, ex)
<1>1. PICK query : query = Qry(o, d, dn, f, No, pa, pe, ex)
  OBVIOUS
<1>2. query.stop = No
  BY <1>1 DEF Qry
<1>3. [query EXCEPT !.failed = Yes] = Qry(o, d, dn, Yes, No, pa, pe, ex)
      /\ [query EXCEPT !.done = Yes] = Qry(o, d, Yes, f, No, pa, pe, ex)
  BY <1>1 DEF Qry
<1>4. ASSUME body[1].part = "error" PROVE ConsumeBy(query, "SQLCARD", body) = [query EXCEPT !.failed = Yes]
  BY <1>2, <1>4 DEF ConsumeBy, Yes, No
<1>5. ASSUME body[1].part # "error" PROVE ConsumeBy(query, "SQLCARD", body) = [query EXCEPT !.done = Yes]
  BY <1>2, <1>5 DEF ConsumeBy, Yes, No
<1> QED BY <1>1, <1>3, <1>4, <1>5, Zenon

LEMMA ByStopped ==
    ASSUME NEW query, query.stop, NEW cp, NEW body
    PROVE  ConsumeBy(query, cp, body) = query
BY Zenon DEF ConsumeBy

---------------------------------------------------------------------------
(* LOBs *)

\* The rows among the k behind r0 that have a LOB, and how many they are.
LobRows(rows, r0, k) == {j \in 1..k : rows[r0 + j].lob}
Refs(rows, r0, k) == Cardinality(LobRows(rows, r0, k))

LEMMA LobRowsFinite ==
    ASSUME NEW rows, NEW r0 \in Nat, NEW k \in Nat
    PROVE  IsFiniteSet(LobRows(rows, r0, k)) /\ Refs(rows, r0, k) \in Nat
<1>1. IsFiniteSet(1..k)
  <2>1. 1 \in Int /\ k \in Int
    OBVIOUS
  <2> QED BY <2>1, FS_Interval, Zenon
<1>2. LobRows(rows, r0, k) \in SUBSET (1..k)
  BY Zenon DEF LobRows
<1>3. IsFiniteSet(LobRows(rows, r0, k))
  BY <1>1, <1>2, FS_Subset, Zenon
<1> QED BY <1>3, FS_CardinalityType, Zenon DEF Refs

LEMMA RefsNone ==
    ASSUME NEW rows, NEW r0
    PROVE  Refs(rows, r0, 0) = 0
<1>1. LobRows(rows, r0, 0) = {}
  BY DEF LobRows
<1> QED BY <1>1, FS_EmptySet, Zenon DEF Refs

\* One more row, with a LOB or without.
RefsGrow(rows, r0, k, j) ==
    /\ rows[r0 + j].lob => Refs(rows, r0, j) = Refs(rows, r0, k) + 1
    /\ ~rows[r0 + j].lob => Refs(rows, r0, j) = Refs(rows, r0, k)

LEMMA RefsNext ==
    ASSUME NEW rows, NEW r0 \in Nat, NEW k \in Nat, NEW j, j = k + 1
    PROVE  RefsGrow(rows, r0, k, j)
<1>1. IsFiniteSet(LobRows(rows, r0, k))
  BY LobRowsFinite, Zenon
<1>2. j \notin LobRows(rows, r0, k)
  BY DEF LobRows
<1>3. ASSUME rows[r0 + j].lob PROVE LobRows(rows, r0, j) = LobRows(rows, r0, k) \cup {j}
  <2>1. ASSUME NEW x PROVE x \in 1..j <=> (x \in 1..k \/ x = j)
    OBVIOUS
  <2> QED BY <1>3, <2>1, Zenon DEF LobRows
<1>4. ASSUME ~rows[r0 + j].lob PROVE LobRows(rows, r0, j) = LobRows(rows, r0, k)
  <2>1. ASSUME NEW x PROVE x \in 1..j <=> (x \in 1..k \/ x = j)
    OBVIOUS
  <2> QED BY <1>4, <2>1, Zenon DEF LobRows
<1>5. Cardinality(LobRows(rows, r0, k) \cup {j}) = Cardinality(LobRows(rows, r0, k)) + 1
  BY <1>1, <1>2, FS_AddElement, Zenon
<1> QED BY <1>3, <1>4, <1>5, Zenon DEF Refs, RefsGrow

LEMMA RefsMono ==
    ASSUME NEW rows, NEW r0 \in Nat, NEW k \in Nat, NEW j \in 1..k
    PROVE  /\ Refs(rows, r0, j) <= Refs(rows, r0, k)
           /\ Refs(rows, r0, j) \in Nat /\ Refs(rows, r0, k) \in Nat
           /\ rows[r0 + j].lob => Refs(rows, r0, j) >= 1
<1>1. j \in Nat /\ j - 1 \in Nat /\ j = (j - 1) + 1
  OBVIOUS
<1>2. IsFiniteSet(LobRows(rows, r0, k)) /\ Refs(rows, r0, k) \in Nat /\ Refs(rows, r0, j) \in Nat
      /\ Refs(rows, r0, j - 1) \in Nat
  BY <1>1, LobRowsFinite, Zenon
<1>3. LobRows(rows, r0, j) \in SUBSET LobRows(rows, r0, k)
  <2>1. ASSUME NEW x \in 1..j PROVE x \in 1..k
    OBVIOUS
  <2> QED BY <2>1, Zenon DEF LobRows
<1>4. Refs(rows, r0, j) <= Refs(rows, r0, k)
  BY <1>2, <1>3, FS_Subset, Zenon DEF Refs
<1>5. rows[r0 + j].lob => Refs(rows, r0, j) >= 1
  <2>1. rows[r0 + j].lob => Refs(rows, r0, j) = Refs(rows, r0, j - 1) + 1
    <3>1. RefsGrow(rows, r0, j - 1, j)
      BY <1>1, RefsNext, Zenon
    <3> QED BY <3>1, Zenon DEF RefsGrow
  <2>2. PICK a \in Nat : a = Refs(rows, r0, j - 1)
    BY <1>2, Zenon
  <2>3. a + 1 >= 1
    OBVIOUS
  <2> QED BY <2>1, <2>2, <2>3, Zenon
<1> QED BY <1>2, <1>4, <1>5, Zenon

\* The LOB data received: that of the rows behind r0 up to l that have one, in order.
ExtOK(rows, r0, l, ex) ==
    /\ ex \in Seq(Seq(WireByte))
    /\ Len(ex) = Refs(rows, r0, l - r0)
    /\ \A j \in 1..(l - r0) : rows[r0 + j].lob => ex[Refs(rows, r0, j)][2].row = r0 + j

LEMMA ExtNone ==
    ASSUME NEW rows, NEW r0 \in Nat
    PROVE  ExtOK(rows, r0, r0, <<>>)
<1>1. PICK ex : ex = <<>>
  OBVIOUS
<1>2. ex \in Seq(Seq(WireByte)) /\ Len(ex) = 0
  BY <1>1
<1>3. r0 - r0 = 0 /\ 1..0 = {}
  OBVIOUS
<1>4. Refs(rows, r0, 0) = 0
  BY RefsNone, Zenon
<1>5. ExtOK(rows, r0, r0, ex)
  BY <1>2, <1>3, <1>4, Zenon DEF ExtOK
<1> QED BY <1>1, <1>5, Zenon

\* A row without a LOB.
LEMMA ExtSkip ==
    ASSUME NEW rows, NEW r0 \in Nat, NEW l \in Nat, r0 <= l, NEW ex, ExtOK(rows, r0, l, ex),
           NEW n, n = l + 1, ~rows[n].lob
    PROVE  ExtOK(rows, r0, n, ex)
<1>1. PICK k \in Nat : k = l - r0
  OBVIOUS
<1>2. PICK j \in Nat : j = k + 1 /\ n - r0 = j /\ r0 + j = n
  BY <1>1
<1>3. ex \in Seq(Seq(WireByte)) /\ Len(ex) = Refs(rows, r0, k)
      /\ \A i \in 1..k : rows[r0 + i].lob => ex[Refs(rows, r0, i)][2].row = r0 + i
  BY <1>1, Zenon DEF ExtOK
<1>4. Refs(rows, r0, j) = Refs(rows, r0, k)
  <2>1. ~rows[r0 + j].lob /\ j = k + 1
    BY <1>2, Zenon
  <2>2. RefsGrow(rows, r0, k, j)
    BY <2>1, RefsNext, Zenon
  <2> QED BY <2>1, <2>2, Zenon DEF RefsGrow
<1>5. ASSUME NEW i \in 1..j, rows[r0 + i].lob PROVE ex[Refs(rows, r0, i)][2].row = r0 + i
  <2>1. i # j
    BY <1>2, <1>5, Zenon
  <2>2. i \in 1..k
    BY <1>2, <2>1
  <2> QED BY <1>3, <1>5, <2>2, Zenon
<1> QED BY <1>2, <1>3, <1>4, <1>5, Zenon DEF ExtOK

\* A row with a LOB, and its data.
LEMMA ExtMore ==
    ASSUME NEW rows, NEW r0 \in Nat, NEW l \in Nat, r0 <= l, NEW ex, ExtOK(rows, r0, l, ex),
           NEW n, n = l + 1, rows[n].lob, NEW x \in Seq(WireByte), x[2].row = n
    PROVE  ExtOK(rows, r0, n, Append(ex, x))
<1>1. PICK k \in Nat : k = l - r0
  OBVIOUS
<1>2. PICK j \in Nat : j = k + 1 /\ n - r0 = j /\ r0 + j = n
  BY <1>1
<1>3. ex \in Seq(Seq(WireByte)) /\ Len(ex) = Refs(rows, r0, k)
      /\ \A i \in 1..k : rows[r0 + i].lob => ex[Refs(rows, r0, i)][2].row = r0 + i
  BY <1>1, Zenon DEF ExtOK
<1>4. Refs(rows, r0, j) = Refs(rows, r0, k) + 1
  <2>1. RefsGrow(rows, r0, k, j)
    BY <1>2, RefsNext, Zenon
  <2> QED BY <1>2, <2>1, Zenon DEF RefsGrow
<1>5. PICK S : S = Seq(WireByte)
  OBVIOUS
<1>6. PICK y \in Seq(S) : y = ex
  BY <1>3, <1>5, Zenon
<1>7. PICK z : z = Append(y, x)
  OBVIOUS
<1>8. z \in Seq(S) /\ Len(z) = Len(y) + 1 /\ z[Len(y) + 1] = x /\ \A i \in 1..Len(y) : z[i] = y[i]
  <2>1. x \in S
    BY <1>5, Zenon
  <2> QED BY <1>6, <1>7, <2>1
<1>9. ASSUME NEW i \in 1..j, rows[r0 + i].lob PROVE z[Refs(rows, r0, i)][2].row = r0 + i
  <2>1. CASE i = j
    <3>1. z[Refs(rows, r0, j)] = x
      BY <1>3, <1>4, <1>6, <1>8, Zenon
    <3> QED BY <1>2, <2>1, <3>1, Zenon
  <2>2. CASE i # j
    <3>1. i \in 1..k
      BY <1>2, <2>2
    <3>2. Refs(rows, r0, i) <= Refs(rows, r0, k) /\ Refs(rows, r0, i) \in Nat /\ Refs(rows, r0, k) \in Nat
          /\ Refs(rows, r0, i) >= 1
      BY <1>9, <3>1, RefsMono, Zenon
    <3>3. PICK a \in Nat : a = Refs(rows, r0, i) /\ a >= 1
      BY <3>2, Zenon
    <3>4. PICK b \in Nat : b = Len(y) /\ a <= b
      BY <1>3, <1>6, <3>2, <3>3, Zenon
    <3>5. a \in 1..b
      BY <3>3, <3>4
    <3>6. z[a] = ex[a]
      BY <1>6, <1>8, <3>4, <3>5, Zenon
    <3> QED BY <1>3, <1>9, <3>1, <3>3, <3>6, Zenon
  <2> QED BY <2>1, <2>2, Zenon
<1>10. z \in Seq(Seq(WireByte)) /\ Len(z) = Refs(rows, r0, j)
  BY <1>3, <1>4, <1>5, <1>6, <1>8, Zenon
<1>11. ExtOK(rows, r0, n, z)
  BY <1>2, <1>9, <1>10, Zenon DEF ExtOK
<1> QED BY <1>6, <1>7, <1>11, Zenon

---------------------------------------------------------------------------
(* A query that has taken part of an answer *)

\* It has the row bytes up to t and the LOBs of the rows that end up to u; the rows behind r0
\* are pending.
Taking(rows, r0, t, m, ex) ==
    Qry(Yes, Yes, No, No, No, SubSeq(Encode(rows), Off(rows, m) + 1, t), RawRows(rows, r0, m), ex)
Got(rows, r0, t, u, query) ==
    \E m \in r0..Len(rows), l \in r0..Len(rows) : \E ex :
        /\ InRow(rows, m, t) /\ InRow(rows, l, u) /\ ExtOK(rows, r0, l, ex)
        /\ query = Taking(rows, r0, t, m, ex)

\* The LOB that may go with one byte.
LobReply(b) ==
    IF b.part # "ref" THEN <<>>
    ELSE <<NewObject("EXTDTA", <<Byte(b.row, "status"), Byte(b.row, "lob")>>)>>

\* What the byte behind u is, n the number of its row.
InsideRow(rows, n, u, b) == InRow(rows, n - 1, u + 1) /\ b.part \notin {"null", "ref"}
EndsRow(rows, n, u, b) == InRow(rows, n, u + 1) /\ b.part = (IF rows[n].lob THEN "ref" ELSE "null")

NextIs(rows, n, l, u, b) ==
    /\ n \in 1..Len(rows) /\ l = n - 1 /\ b.row = n
    /\ InsideRow(rows, n, u, b) \/ EndsRow(rows, n, u, b)

LEMMA NextByte ==
    ASSUME NEW rows \in Seq(ResultRows), NEW u \in Nat, u < Len(Encode(rows)), NEW l, InRow(rows, l, u),
           NEW b, b = Encode(rows)[u + 1], NEW n, n = l + 1
    PROVE  NextIs(rows, n, l, u, b)
<1>1. /\ l + 1 \in 1..Len(rows)
      /\ Encode(rows)[u + 1].row = l + 1
      /\ \/ InRow(rows, l, u + 1) /\ Encode(rows)[u + 1].part \notin {"null", "ref"}
         \/ /\ InRow(rows, l + 1, u + 1)
            /\ Encode(rows)[u + 1].part = (IF rows[l + 1].lob THEN "ref" ELSE "null")
  BY RowByte
<1>2. l \in 0..Len(rows)
  BY Zenon DEF InRow
<1>3. l = n - 1
  BY <1>2
<1> QED BY <1>1, <1>3, Zenon DEF InsideRow, EndsRow, NextIs

LEMMA TakingExt ==
    ASSUME NEW rows, NEW r0, NEW t, NEW m, NEW ex, NEW x
    PROVE  ConEnd(Taking(rows, r0, t, m, ex), <<NewObject("EXTDTA", x)>>)
             = Taking(rows, r0, t, m, Append(ex, x))
<1>1. PICK d : d = NewObject("EXTDTA", x)
  OBVIOUS
<1>2. d.cp = "EXTDTA" /\ d.body = x
  BY <1>1 DEF NewObject
<1>3. PICK pa : pa = SubSeq(Encode(rows), Off(rows, m) + 1, t)
  OBVIOUS
<1>4. PICK pe : pe = RawRows(rows, r0, m)
  OBVIOUS
<1>5. PICK query : query = Qry(Yes, Yes, No, No, No, pa, pe, ex)
  OBVIOUS
<1>6. ConEnd(query, <<d>>) = ConsumeBy(query, d.cp, d.body)
  BY ConOne, Zenon
<1>7. ConsumeBy(query, "EXTDTA", x) = Qry(Yes, Yes, No, No, No, pa, pe, Append(ex, x))
  <2>1. ConsumeBy(Qry(Yes, Yes, No, No, No, pa, pe, ex), "EXTDTA", x)
          = Qry(Yes, Yes, No, No, No, pa, pe, Append(ex, x))
    BY ByEXTDTA
  <2> QED BY <1>5, <2>1, Zenon
<1>8. query = Taking(rows, r0, t, m, ex)
      /\ Qry(Yes, Yes, No, No, No, pa, pe, Append(ex, x)) = Taking(rows, r0, t, m, Append(ex, x))
  BY <1>3, <1>4, <1>5, Zenon DEF Taking
<1> QED BY <1>1, <1>2, <1>6, <1>7, <1>8, Zenon

LEMMA GotLob ==
    ASSUME NEW rows \in Seq(ResultRows), NEW r0 \in 0..Len(rows), NEW t, NEW u \in Nat,
           u < Len(Encode(rows)), NEW query, Got(rows, r0, t, u, query),
           NEW b, b = Encode(rows)[u + 1]
    PROVE  Got(rows, r0, t, u + 1, ConEnd(query, LobReply(b)))
<1>0. PICK m \in r0..Len(rows), l \in r0..Len(rows) :
        \E ex :
          /\ InRow(rows, m, t) /\ InRow(rows, l, u) /\ ExtOK(rows, r0, l, ex)
          /\ query = Taking(rows, r0, t, m, ex)
  BY Zenon DEF Got
<1>1. PICK ex :
        /\ InRow(rows, m, t) /\ InRow(rows, l, u) /\ ExtOK(rows, r0, l, ex)
        /\ query = Taking(rows, r0, t, m, ex)
  BY <1>0, Zenon
<1>2. l \in Nat /\ r0 \in Nat /\ r0 <= l /\ Len(rows) \in Nat
  BY <1>1
<1>3. PICK n : n = l + 1
  OBVIOUS
<1>4. /\ n \in 1..Len(rows) /\ l = n - 1 /\ b.row = n
      /\ InsideRow(rows, n, u, b) \/ EndsRow(rows, n, u, b)
  <2>1. NextIs(rows, n, l, u, b)
    BY <1>1, <1>3, NextByte, Zenon
  <2> QED BY <2>1, Zenon DEF NextIs
<1>5. CASE InsideRow(rows, n, u, b)
  <2>1. LobReply(b) = <<>>
    BY <1>5, Zenon DEF InsideRow, LobReply
  <2>2. ConEnd(query, LobReply(b)) = query
    BY <2>1, ConEmpty, Zenon
  <2>3. InRow(rows, l, u + 1)
    BY <1>4, <1>5, Zenon DEF InsideRow
  <2> QED BY <1>1, <2>2, <2>3, Zenon DEF Got
<1>6. CASE EndsRow(rows, n, u, b)
  <2>0. n \in r0..Len(rows) /\ InRow(rows, n, u + 1)
    <3>1. n \in r0..Len(rows)
      BY <1>2, <1>3, <1>4
    <3> QED BY <1>6, <3>1, Zenon DEF EndsRow
  <2>1. CASE ~rows[n].lob
    <3>1. "null" # "ref"
      OBVIOUS
    <3>2. LobReply(b) = <<>>
      BY <1>6, <2>1, <3>1, Zenon DEF EndsRow, LobReply
    <3>3. ConEnd(query, LobReply(b)) = query
      BY <3>2, ConEmpty, Zenon
    <3>4. ExtOK(rows, r0, n, ex)
      BY <1>1, <1>2, <1>3, <2>1, ExtSkip, Zenon
    <3> QED BY <1>1, <2>0, <3>3, <3>4, Zenon DEF Got
  <2>2. CASE rows[n].lob
    <3>1. PICK x : x = <<Byte(n, "status"), Byte(n, "lob")>>
      OBVIOUS
    <3>2. x \in Seq(WireByte) /\ x[2].row = n
      <4>1. n \in Int
        BY <1>2, <1>3
      <4>2. x \in Seq(WireByte)
        BY <3>1, <4>1, LobObj, Zenon
      <4>3. x[2] = Byte(n, "lob")
        BY <3>1
      <4>4. Byte(n, "lob").row = n
        BY DEF Byte
      <4> QED BY <4>2, <4>3, <4>4, Zenon
    <3>3. LobReply(b) = <<NewObject("EXTDTA", x)>>
      BY <1>4, <1>6, <2>2, <3>1, Zenon DEF EndsRow, LobReply
    <3>4. ConEnd(query, LobReply(b)) = Taking(rows, r0, t, m, Append(ex, x))
      <4>1. ConEnd(Taking(rows, r0, t, m, ex), <<NewObject("EXTDTA", x)>>)
              = Taking(rows, r0, t, m, Append(ex, x))
        BY TakingExt
      <4> QED BY <1>1, <3>3, <4>1, Zenon
    <3>5. ExtOK(rows, r0, n, Append(ex, x))
      BY <1>1, <1>2, <1>3, <2>2, <3>2, ExtMore, Zenon
    <3> QED BY <1>1, <2>0, <3>4, <3>5, Zenon DEF Got
  <2> QED BY <2>1, <2>2, Zenon
<1> QED BY <1>4, <1>5, <1>6, Zenon

\* Those that go with a block.
LEMMA GotLobs ==
    ASSUME NEW rows \in Seq(ResultRows), NEW r0 \in 0..Len(rows), NEW t, NEW u \in Nat, NEW v \in Nat,
           u <= v, v <= Len(Encode(rows)), NEW query, Got(rows, r0, t, u, query),
           NEW block, block = SubSeq(Encode(rows), u + 1, v)
    PROVE  Got(rows, r0, t, v, ConEnd(query, FlattenSeq(LobReplies(block))))
<1>1. PICK E : E = Encode(rows)
  OBVIOUS
<1>2. E \in Seq(WireByte)
  BY <1>1, EncodedType, Zenon
<1>3. block \in Seq(WireByte) /\ Len(block) = v - u /\ \A k \in 1..(v - u) : block[k] = E[u + k]
  <2>1. block = SubSeq(E, u + 1, v) /\ v <= Len(E)
    BY <1>1, Zenon
  <2>2. /\ SubSeq(E, u + 1, v) \in Seq(WireByte) /\ Len(SubSeq(E, u + 1, v)) = v - u
        /\ \A k \in 1..(v - u) : SubSeq(E, u + 1, v)[k] = E[u + k]
    BY <1>2, <2>1, SubSeqType
  <2> QED BY <2>1, <2>2, Zenon
<1>4. PICK ss : ss = LobReplies(block)
  OBVIOUS
<1>5. ss \in Seq(Seq(Objs)) /\ Len(ss) = Len(block)
  BY <1>3, <1>4, LobRepliesType, Zenon
<1>6. PICK n \in Nat : n = v - u /\ Len(ss) = n /\ u + n = v
  <2>1. PICK n \in Nat : n = v - u /\ u + n = v
    OBVIOUS
  <2>2. Len(ss) = n
    BY <1>3, <1>5, <2>1, Zenon
  <2> QED BY <2>1, <2>2, Zenon
<1> DEFINE S == {k \in Nat : k <= n => Got(rows, r0, t, u + k, ConEnd(query, Cat(ss)[k]))}
<1>7. ASSUME NEW k \in Nat, \A i \in Nat : i < k => i \in S
      PROVE  k \in S
  <2> SUFFICES ASSUME k <= n PROVE Got(rows, r0, t, u + k, ConEnd(query, Cat(ss)[k]))
    OBVIOUS
  <2>1. CASE k = 0
    <3>1. Cat(ss)[0] = <<>>
      BY <1>5, CatEmpty, Zenon
    <3>2. u + k = u
      BY <2>1
    <3> QED BY <2>1, <3>1, <3>2, ConEmpty, Zenon
  <2>2. CASE k # 0
    <3>1. PICK j \in Nat : j = k - 1 /\ j < k /\ j <= n /\ u + k = u + j + 1
      BY <2>2
    <3>2. Got(rows, r0, t, u + j, ConEnd(query, Cat(ss)[j]))
      <4>1. j \in S
        BY <1>7, <3>1, Zenon
      <4> QED BY <3>1, <4>1, Zenon
    <3>3. k \in 1..n /\ u + j \in Nat /\ u + j < v
      <4>1. j < n
        BY <3>1
      <4> QED BY <1>6, <2>2, <3>1, <4>1
    <3>4. k \in 1..Len(ss) /\ k \in 1..Len(block) /\ k \in 1..(v - u)
      BY <1>5, <1>6, <3>3, Zenon
    <3>5. Cat(ss)[k] = Cat(ss)[k - 1] \o ss[k]
      BY <1>5, <3>4, CatNext, Zenon
    <3>6. Cat(ss)[j] \in Seq(Objs) /\ ss[k] \in Seq(Objs)
      <4>1. j \in 0..Len(ss)
        BY <1>6, <3>1
      <4>2. Cat(ss)[j] \in Seq(Objs)
        BY <1>5, <4>1, CatType, Zenon
      <4>3. ss[k] \in Seq(Objs)
        BY <1>5, <3>4
      <4> QED BY <4>2, <4>3, Zenon
    <3>7. ConEnd(query, Cat(ss)[k]) = ConEnd(ConEnd(query, Cat(ss)[j]), ss[k])
      <4>1. PICK c : c = Cat(ss)[j]
        OBVIOUS
      <4>2. PICK z : z = ss[k]
        OBVIOUS
      <4>3. c \in Seq(Objs) /\ z \in Seq(Objs)
        BY <3>6, <4>1, <4>2, Zenon
      <4>4. ConEnd(query, c \o z) = ConEnd(ConEnd(query, c), z)
        BY <4>3, ConConcat, Zenon
      <4>5. Cat(ss)[k] = c \o z
        <5>1. j = k - 1
          BY <3>1, Zenon
        <5> QED BY <3>5, <4>1, <4>2, <5>1, Zenon
      <4> QED BY <4>1, <4>2, <4>4, <4>5, Zenon
    <3>8. PICK b : b = block[k]
      OBVIOUS
    <3>9. b = E[u + j + 1]
      <4>1. block[k] = E[u + k]
        BY <1>3, <3>4, Zenon
      <4> QED BY <3>1, <3>8, <4>1, Zenon
    <3>10. ss[k] = LobReply(b)
      BY <1>4, <3>4, <3>8, Zenon DEF LobReplies, LobReply
    <3>11. u + j < Len(Encode(rows))
      <4>1. Len(E) \in Nat
        BY <1>2
      <4>2. v <= Len(E)
        BY <1>1, Zenon
      <4>3. u + j < Len(E)
        BY <3>3, <4>1, <4>2
      <4> QED BY <1>1, <4>3, Zenon
    <3>12. PICK w \in Nat : w = u + j
      BY <3>3, Zenon
    <3>13. PICK p : p = ConEnd(query, Cat(ss)[j])
      OBVIOUS
    <3>14. Got(rows, r0, t, w, p) /\ w < Len(Encode(rows)) /\ b = Encode(rows)[w + 1]
      BY <1>1, <3>2, <3>9, <3>11, <3>12, <3>13, Zenon
    <3>15. Got(rows, r0, t, w + 1, ConEnd(p, LobReply(b)))
      BY <3>14, GotLob, Zenon
    <3> QED BY <3>1, <3>7, <3>10, <3>12, <3>13, <3>15, Zenon
  <2> QED BY <2>1, <2>2, Zenon
<1>8. n \in S
  <2> HIDE DEF S
  <2> QED BY <1>7, Induction
<1>9. n <= n
  OBVIOUS
<1>10. Got(rows, r0, t, u + n, ConEnd(query, Cat(ss)[n]))
  BY <1>8, <1>9, Zenon
<1>11. FlattenSeq(ss) = Cat(ss)[Len(ss)]
  BY <1>5, FlattenIsCat, Zenon
<1> QED BY <1>4, <1>6, <1>10, <1>11, Zenon

RowsJoin(rows, i, k, j) == RawRows(rows, i, k) \o RawRows(rows, k, j) = RawRows(rows, i, j)

LEMMA RawRowsJoin ==
    ASSUME NEW rows, NEW i \in Nat, NEW k \in Nat, NEW j \in Nat, i <= k, k <= j
    PROVE  RowsJoin(rows, i, k, j)
BY RawRowsConcat, Zenon DEF RowsJoin

\* A block of row data.
LEMMA TakingBlock ==
    ASSUME NEW rows \in Seq(ResultRows), NEW r0 \in 0..Len(rows), NEW t \in Nat, NEW v \in Nat,
           t <= v, v <= Len(Encode(rows)), NEW m \in r0..Len(rows), NEW n, NEW ex,
           InRow(rows, m, t), InRow(rows, n, v)
    PROVE  /\ n \in r0..Len(rows)
           /\ ConEnd(Taking(rows, r0, t, m, ex), <<NewObject("QRYDTA", SubSeq(Encode(rows), t + 1, v))>>)
                = Taking(rows, r0, v, n, ex)
<1>1. PICK E : E = Encode(rows)
  OBVIOUS
<1>2. E \in Seq(WireByte) /\ v <= Len(E)
  BY <1>1, EncodedType, Zenon
<1>3. Len(E) \in Nat /\ v \in 0..Len(E)
  BY <1>2
<1>4. m \in 0..Len(rows) /\ Off(rows, m) <= t
  BY Zenon DEF InRow
<1>5. Off(rows, m) \in Nat
  BY <1>4, OffType, Zenon
<1>6. PICK a \in Nat : a = Off(rows, m) /\ a <= t
  BY <1>4, <1>5, Zenon
<1>7. a <= v
  BY <1>6
<1>8. m <= n /\ n \in 0..Len(rows)
  <2>1. Off(rows, m) <= v
    BY <1>6, <1>7, Zenon
  <2> QED BY <1>4, <2>1, RowMono, Zenon
<1>9. n \in r0..Len(rows) /\ m \in Nat /\ n \in Nat /\ r0 \in Nat /\ r0 <= m
  BY <1>8
<1>10. PICK pa : pa = SubSeq(E, a + 1, t)
  OBVIOUS
<1>11. PICK body : body = SubSeq(E, t + 1, v)
  OBVIOUS
<1>12. pa \o body = SubSeq(E, a + 1, v)
  BY <1>2, <1>6, <1>10, <1>11, SubSeqConcat, Zenon
<1>13. DecodeBlock(pa \o body) = Decoded(rows, m, n, v)
  <2>1. v \in 0..Len(Encode(rows)) /\ Off(rows, m) <= v
    BY <1>1, <1>3, <1>6, <1>7, Zenon
  <2>2. DecodeBlock(SubSeq(Encode(rows), Off(rows, m) + 1, v)) = Decoded(rows, m, n, v)
    BY <1>4, <2>1, DecodeRows, Zenon
  <2> QED BY <1>1, <1>6, <1>12, <2>2, Zenon
<1>14. PICK left : left = SubSeq(E, Off(rows, n) + 1, v)
  OBVIOUS
<1>15. PICK more : more = RawRows(rows, m, n)
  OBVIOUS
<1>16. PICK pe : pe = RawRows(rows, r0, m)
  OBVIOUS
<1>17. pe \o more = RawRows(rows, r0, n)
  <2>1. RawRows(rows, r0, m) \o RawRows(rows, m, n) = RawRows(rows, r0, n)
    <3>1. r0 \in Nat /\ m \in Nat /\ n \in Nat /\ r0 <= m /\ m <= n
      BY <1>8, <1>9, Zenon
    <3>2. RowsJoin(rows, r0, m, n)
      BY <3>1, RawRowsJoin, Zenon
    <3> QED BY <3>2, Zenon DEF RowsJoin
  <2> QED BY <1>15, <1>16, <2>1, Zenon
<1>18. DecodeBlock(pa \o body) = [rows |-> more, leftover |-> left, eod |-> FALSE]
  BY <1>1, <1>13, <1>14, <1>15, Zenon DEF Decoded
<1>19. No = (No \/ FALSE)
  BY Zenon DEF No
<1>20. ConsumeBy(Qry(Yes, Yes, No, No, No, pa, pe, ex), "QRYDTA", body)
         = Qry(Yes, Yes, No, No, No, left, pe \o more, ex)
  BY <1>18, <1>19, ByQRYDTA
<1>21. PICK d : d = NewObject("QRYDTA", body)
  OBVIOUS
<1>22. d.cp = "QRYDTA" /\ d.body = body
  BY <1>21 DEF NewObject
<1>23. PICK query : query = Qry(Yes, Yes, No, No, No, pa, pe, ex)
  OBVIOUS
<1>24. ConEnd(query, <<d>>) = ConsumeBy(query, d.cp, d.body)
  BY ConOne, Zenon
<1>25. query = Taking(rows, r0, t, m, ex)
  BY <1>1, <1>6, <1>10, <1>16, <1>23, Zenon DEF Taking
<1>26. Qry(Yes, Yes, No, No, No, left, pe \o more, ex) = Taking(rows, r0, v, n, ex)
  BY <1>1, <1>14, <1>17, Zenon DEF Taking
<1>27. ConEnd(query, <<d>>) = Taking(rows, r0, v, n, ex)
  BY <1>20, <1>22, <1>23, <1>24, <1>26, Zenon
<1> QED BY <1>1, <1>9, <1>11, <1>21, <1>25, <1>27, Zenon

\* A block and its LOBs.
LEMMA GotBlock ==
    ASSUME NEW rows \in Seq(ResultRows), NEW r0 \in 0..Len(rows), NEW t \in Nat, NEW v \in Nat,
           t <= v, v <= Len(Encode(rows)), NEW query, Got(rows, r0, t, t, query),
           NEW block, block = SubSeq(Encode(rows), t + 1, v)
    PROVE  Got(rows, r0, v, v, ConEnd(query, BlockReply(block)))
<1>0. PICK m \in r0..Len(rows), l \in r0..Len(rows) :
        \E ex :
          /\ InRow(rows, m, t) /\ InRow(rows, l, t) /\ ExtOK(rows, r0, l, ex)
          /\ query = Taking(rows, r0, t, m, ex)
  BY Zenon DEF Got
<1>1. PICK ex :
        /\ InRow(rows, m, t) /\ InRow(rows, l, t) /\ ExtOK(rows, r0, l, ex)
        /\ query = Taking(rows, r0, t, m, ex)
  BY <1>0, Zenon
<1>2. PICK n \in 0..Len(rows) : InRow(rows, n, v)
  <2>1. Encode(rows) \in Seq(WireByte)
    BY EncodedType, Zenon
  <2>2. v \in 0..Len(Encode(rows))
    BY <2>1
  <2> QED BY <2>2, RowExists, Zenon
<1>3. PICK d : d = NewObject("QRYDTA", block)
  OBVIOUS
<1>4. PICK p : p = ConEnd(query, <<d>>)
  OBVIOUS
<1>5. n \in r0..Len(rows) /\ p = Taking(rows, r0, v, n, ex)
  <2>1. n \in r0..Len(rows) /\ ConEnd(Taking(rows, r0, t, m, ex), <<NewObject("QRYDTA", SubSeq(Encode(rows), t + 1, v))>>)
                = Taking(rows, r0, v, n, ex)
    BY <1>1, <1>2, TakingBlock
  <2> QED BY <1>1, <1>3, <1>4, <2>1, Zenon
<1>6. Got(rows, r0, v, t, p)
  BY <1>1, <1>2, <1>5, Zenon DEF Got
<1>7. Got(rows, r0, v, v, ConEnd(p, FlattenSeq(LobReplies(block))))
  BY <1>6, GotLobs, Zenon
<1>8. block \in Seq(WireByte)
  <2>1. Encode(rows) \in Seq(WireByte)
    BY EncodedType, Zenon
  <2>2. SubSeq(Encode(rows), t + 1, v) \in Seq(WireByte)
    BY <2>1, SubSeqType
  <2> QED BY <2>2, Zenon
<1>9. PICK s : s = FlattenSeq(LobReplies(block))
  OBVIOUS
<1>10. BlockReply(block) = <<d>> \o s /\ s \in Seq(Objs) /\ d \in Objs
  BY <1>3, <1>8, <1>9, BlockReplyType, Zenon
<1>11. PICK c : c = <<d>>
  OBVIOUS
<1>12. c \in Seq(Objs)
  BY <1>10, <1>11, SingleType, Zenon
<1>13. ConEnd(query, c \o s) = ConEnd(ConEnd(query, c), s)
  BY <1>10, <1>12, ConConcat, Zenon
<1> QED BY <1>4, <1>7, <1>9, <1>10, <1>11, <1>13, Zenon

LEMMA SubOfSub ==
    ASSUME NEW B, NEW s \in Seq(B), NEW a \in Nat, NEW u \in Nat, NEW i \in Nat, NEW j \in Nat,
           a <= u, u <= Len(s), i <= j, j <= u - a
    PROVE  SubSeq(SubSeq(s, a + 1, u), i + 1, j) = SubSeq(s, (a + i) + 1, a + j)
<1>1. PICK t : t = SubSeq(s, a + 1, u)
  OBVIOUS
<1>2. t \in Seq(B) /\ Len(t) = u - a /\ \A k \in 1..(u - a) : t[k] = s[a + k]
  BY <1>1, SubSeqType, Zenon
<1>3. /\ SubSeq(t, i + 1, j) \in Seq(B)
      /\ Len(SubSeq(t, i + 1, j)) = j - i
      /\ \A k \in 1..(j - i) : SubSeq(t, i + 1, j)[k] = t[i + k]
  <2>1. j <= Len(t)
    BY <1>2, Zenon
  <2>2. PICK z : z = SubSeq(t, i + 1, j)
    OBVIOUS
  <2>3. SubIs(B, t, i, j, z)
    BY <1>2, <2>1, <2>2, SubSeqIs, Zenon
  <2> QED BY <2>2, <2>3, Zenon DEF SubIs
<1>4. a + i \in Nat /\ a + j \in Nat /\ a + i <= a + j /\ a + j <= Len(s) /\ (a + j) - (a + i) = j - i
  <2>1. Len(s) \in Nat
    OBVIOUS
  <2>2. PICK l \in Nat : l = Len(s)
    BY <2>1, Zenon
  <2>3. u <= l
    BY <2>2, Zenon
  <2>4. a + j <= l
    BY <2>3
  <2> QED BY <2>2, <2>4
<1>5. /\ SubSeq(s, (a + i) + 1, a + j) \in Seq(B)
      /\ Len(SubSeq(s, (a + i) + 1, a + j)) = j - i
      /\ \A k \in 1..(j - i) : SubSeq(s, (a + i) + 1, a + j)[k] = s[(a + i) + k]
  <2>1. PICK b \in Nat, c \in Nat : b = a + i /\ c = a + j
    BY <1>4, Zenon
  <2>2. b <= c /\ c <= Len(s) /\ c - b = j - i
    BY <1>4, <2>1, Zenon
  <2>3. /\ SubSeq(s, b + 1, c) \in Seq(B)
        /\ Len(SubSeq(s, b + 1, c)) = c - b
        /\ \A k \in 1..(c - b) : SubSeq(s, b + 1, c)[k] = s[b + k]
    BY <2>2, SubSeqType
  <2> QED BY <2>1, <2>2, <2>3, Zenon
<1>6. ASSUME NEW k \in 1..(j - i) PROVE SubSeq(t, i + 1, j)[k] = SubSeq(s, (a + i) + 1, a + j)[k]
  <2>1. i + k \in 1..(u - a) /\ a + (i + k) = (a + i) + k
    OBVIOUS
  <2>2. t[i + k] = s[a + (i + k)]
    BY <1>2, <2>1, Zenon
  <2> QED BY <1>3, <1>5, <2>1, <2>2, Zenon
<1>7. PICK x \in Seq(B), y \in Seq(B) : x = SubSeq(t, i + 1, j) /\ y = SubSeq(s, (a + i) + 1, a + j)
  BY <1>3, <1>5, Zenon
<1>8. Len(x) = j - i /\ Len(y) = j - i
  BY <1>3, <1>5, <1>7, Zenon
<1>9. \A k \in 1..Len(x) : x[k] = y[k]
  BY <1>6, <1>7, <1>8, Zenon
<1>10. x = y
  BY <1>8, <1>9, SeqEq, Zenon
<1> QED BY <1>1, <1>7, <1>10, Zenon

\* The blocks of an answer.
LEMMA GotBlocks ==
    ASSUME NEW rows \in Seq(ResultRows), NEW r0 \in 0..Len(rows), NEW t \in Nat, t <= Len(Encode(rows)),
           rest = SubSeq(Encode(rows), t + 1, Len(Encode(rows))),
           NEW n \in 0..Len(rest), NEW size \in Nat, size > 0,
           NEW query, Got(rows, r0, t, t, query)
    PROVE  Got(rows, r0, t + n, t + n, ConEnd(query, Blocks(n, size)))
<1> DEFINE K == BlockCount(n, size)
           P(k) == Got(rows, r0, t + Cut(n, size, k), t + Cut(n, size, k),
                       ConEnd(query, Cat(BlockList(n, size))[k]))
           S == {k \in Nat : k <= K => P(k)}
<1>1. PICK E : E = Encode(rows)
  OBVIOUS
<1>2. PICK L \in Nat : L = Len(E)
  <2>1. E \in Seq(WireByte)
    BY <1>1, EncodedType, Zenon
  <2> QED BY <2>1
<1>3. E \in Seq(WireByte) /\ t <= L /\ rest = SubSeq(E, t + 1, L) /\ L <= L
  <2>1. L <= L
    OBVIOUS
  <2> QED BY <1>1, <1>2, <2>1, EncodedType, Zenon
<1>4. rest \in Seq(WireByte) /\ Len(rest) = L - t
  BY <1>2, <1>3, SubSeqType
<1>5. n \in Nat /\ n <= L - t
  <2>1. n \in 0..(L - t)
    BY <1>4, Zenon
  <2> QED BY <2>1
<1>6. K \in Nat /\ Cut(n, size, 0) = 0 /\ Cut(n, size, K) = n
  BY <1>5, BlockCuts
<1>7. PICK ss : ss = BlockList(n, size)
  OBVIOUS
<1>8. ss \in Seq(Seq(Objs)) /\ Len(ss) = K /\ Blocks(n, size) = FlattenSeq(ss)
  BY <1>4, <1>7, BlockListType
<1>9. ASSUME NEW k \in 1..K, P(k - 1)
      PROVE  P(k)
  <2>1. /\ Cut(n, size, k) \in Nat /\ Cut(n, size, k - 1) \in Nat
        /\ Cut(n, size, k - 1) < Cut(n, size, k) /\ Cut(n, size, k) <= n
    BY <1>5, CutStep
  <2>2. PICK a \in Nat, b \in Nat : a = Cut(n, size, k - 1) /\ b = Cut(n, size, k)
    BY <2>1, Zenon
  <2>3. a < b /\ b <= n
    BY <2>1, <2>2, Zenon
  <2>4. a <= b /\ b <= L - t /\ t + a \in Nat /\ t + b \in Nat /\ t + a <= t + b /\ t + b <= L
    BY <1>5, <2>3
  <2>5. PICK block : block = SubSeq(rest, a + 1, b)
    OBVIOUS
  <2>6. block = SubSeq(E, (t + a) + 1, t + b)
    BY <1>2, <1>3, <2>4, <2>5, SubOfSub
  <2>7. ss[k] = BlockReply(block)
    BY <1>7, <2>2, <2>5, Zenon DEF BlockList
  <2>8. k \in 1..Len(ss) /\ k - 1 \in 0..Len(ss)
    BY <1>6, <1>8
  <2>9. Cat(ss)[k] = Cat(ss)[k - 1] \o ss[k]
    BY <1>8, <2>8, CatNext, Zenon
  <2>10. Cat(ss)[k - 1] \in Seq(Objs)
    BY <1>8, <2>8, CatType, Zenon
  <2>11. ss[k] \in Seq(Objs)
    BY <1>8, <2>8
  <2>12. PICK c : c = Cat(ss)[k - 1]
    OBVIOUS
  <2>13. PICK z : z = ss[k]
    OBVIOUS
  <2>14. c \in Seq(Objs) /\ z \in Seq(Objs)
    BY <2>10, <2>11, <2>12, <2>13, Zenon
  <2>15. ConEnd(query, c \o z) = ConEnd(ConEnd(query, c), z)
    BY <2>14, ConConcat, Zenon
  <2>16. PICK p : p = ConEnd(query, c)
    OBVIOUS
  <2>17. Got(rows, r0, t + a, t + a, p)
    BY <1>7, <1>9, <2>2, <2>12, <2>16, Zenon
  <2>18. PICK v \in Nat, w \in Nat : v = t + a /\ w = t + b
    BY <2>4, Zenon
  <2>19. v <= w /\ w <= Len(Encode(rows)) /\ Got(rows, r0, v, v, p) /\ block = SubSeq(Encode(rows), v + 1, w)
    BY <1>1, <1>2, <2>4, <2>6, <2>17, <2>18, Zenon
  <2>20. Got(rows, r0, w, w, ConEnd(p, BlockReply(block)))
    BY <2>19, GotBlock, Zenon
  <2> QED BY <1>7, <2>2, <2>7, <2>9, <2>12, <2>13, <2>15, <2>16, <2>18, <2>20, Zenon
<1>10. P(0)
  <2>1. Cat(ss)[0] = <<>>
    BY <1>8, CatEmpty, Zenon
  <2>2. t + 0 = t
    OBVIOUS
  <2> QED BY <1>6, <1>7, <2>1, <2>2, ConEmpty, Zenon
<1>11. ASSUME NEW k \in Nat, \A i \in Nat : i < k => i \in S
       PROVE  k \in S
  <2> HIDE DEF P, K
  <2> SUFFICES ASSUME k <= K PROVE P(k)
    OBVIOUS
  <2>1. CASE k = 0
    BY <1>10, <2>1, Zenon
  <2>2. CASE k # 0
    <3>1. k - 1 \in Nat /\ k - 1 < k /\ k - 1 <= K /\ k \in 1..K
      BY <1>6, <2>2
    <3>2. k - 1 \in S
      BY <1>11, <3>1, Zenon
    <3>3. P(k - 1)
      BY <3>1, <3>2, Zenon
    <3> QED BY <1>9, <3>1, <3>3, Zenon
  <2> QED BY <2>1, <2>2, Zenon
<1>12. K \in S
  <2> HIDE DEF S, K
  <2> QED BY <1>6, <1>11, Induction
<1>13. P(K)
  <2> HIDE DEF P, K
  <2>1. K <= K
    BY <1>6
  <2> QED BY <1>12, <2>1, Zenon
<1>14. FlattenSeq(ss) = Cat(ss)[K]
  <2> HIDE DEF K
  <2>1. FlattenSeq(ss) = Cat(ss)[Len(ss)]
    BY <1>8, FlattenIsCat, Zenon
  <2> QED BY <1>8, <2>1, Zenon
<1> QED BY <1>6, <1>7, <1>8, <1>13, <1>14, Zenon

---------------------------------------------------------------------------
(* The LOBs put in place *)

ValRows(rows, i, j) == [x \in 1..(j - i) |-> Value(i + x, rows[i + x])]

LEMMA RowCounts ==
    ASSUME NEW rows, NEW i \in Nat, NEW j \in Nat, i <= j, NEW n, n = j - i
    PROVE  /\ n \in Nat
           /\ Len(RawRows(rows, i, j)) = n /\ DOMAIN RawRows(rows, i, j) = 1..n
           /\ Len(ValRows(rows, i, j)) = n /\ DOMAIN ValRows(rows, i, j) = 1..n
<1>1. n \in Nat
  OBVIOUS
<1>2. PICK f : f = RawRows(rows, i, j)
  OBVIOUS
<1>3. f = [x \in 1..n |-> Raw(i + x, rows[i + x])]
  BY <1>2, Zenon DEF RawRows
<1>4. PICK g : g = ValRows(rows, i, j)
  OBVIOUS
<1>5. g = [x \in 1..n |-> Value(i + x, rows[i + x])]
  BY <1>4, Zenon DEF ValRows
<1>6. Len(f) = n /\ DOMAIN f = 1..n
  BY <1>1, <1>3
<1>7. Len(g) = n /\ DOMAIN g = 1..n
  BY <1>1, <1>5
<1> QED BY <1>1, <1>2, <1>4, <1>6, <1>7, Zenon

\* One row with its LOB.
Put(raw, refs, ex) ==
    IF raw.lob # LobRef THEN raw
    ELSE IF refs > Len(ex) THEN [raw EXCEPT !.lob = 0]
    ELSE [raw EXCEPT !.lob = ex[refs][2].row]

LEMMA PutIsValue ==
    ASSUME NEW rows, NEW r0 \in Nat, NEW m \in Nat, r0 <= m, NEW ex, ExtOK(rows, r0, m, ex),
           NEW n, n = m - r0, NEW k \in 1..n
    PROVE  Put(Raw(r0 + k, rows[r0 + k]), Refs(rows, r0, k), ex) = Value(r0 + k, rows[r0 + k])
<1>1. PICK i \in Nat : i = r0 + k
  OBVIOUS
<1>2. PICK r : r = rows[i]
  OBVIOUS
<1>3. 0 # LobRef
  BY DEF LobRef
<1>4. CASE ~r.lob
  <2>1. PICK raw : raw = Raw(i, r)
    OBVIOUS
  <2>2. raw.lob = 0 /\ raw = Value(i, r)
    BY <1>4, <2>1 DEF Raw, Value
  <2>3. Put(raw, Refs(rows, r0, k), ex) = raw
    BY <1>3, <2>2, Zenon DEF Put
  <2> QED BY <1>1, <1>2, <2>1, <2>2, <2>3, Zenon
<1>5. CASE r.lob
  <2>1. PICK raw : raw = Raw(i, r)
    OBVIOUS
  <2>2. raw = [col |-> i, lob |-> LobRef]
    BY <1>5, <2>1, Zenon DEF Raw
  <2>3. n \in Nat /\ k \in Nat
    OBVIOUS
  <2>4. Refs(rows, r0, k) <= Refs(rows, r0, n) /\ Refs(rows, r0, k) \in Nat /\ Refs(rows, r0, n) \in Nat
    BY <2>3, RefsMono, Zenon
  <2>5. Len(ex) = Refs(rows, r0, n) /\ ex[Refs(rows, r0, k)][2].row = i
    BY <1>1, <1>2, <1>5, Zenon DEF ExtOK
  <2>6. PICK a \in Nat : a = Refs(rows, r0, k)
    BY <2>4, Zenon
  <2>7. PICK b \in Nat : b = Len(ex) /\ a <= b
    BY <2>4, <2>5, <2>6, Zenon
  <2>8. ~(a > b)
    BY <2>7
  <2>9. Put(raw, a, ex) = [raw EXCEPT !.lob = i]
    <3>1. raw.lob = LobRef
      BY <2>2
    <3>2. ~(a > Len(ex))
      BY <2>7, <2>8, Zenon
    <3>3. ex[a][2].row = i
      BY <2>5, <2>6, Zenon
    <3> QED BY <3>1, <3>2, <3>3, Zenon DEF Put
  <2>10. [raw EXCEPT !.lob = i] = Value(i, r)
    BY <1>5, <2>2 DEF Value
  <2> QED BY <1>1, <1>2, <2>1, <2>6, <2>9, <2>10, Zenon
<1> QED BY <1>4, <1>5, Zenon

LEMMA ResolveRows ==
    ASSUME NEW rows, NEW r0 \in Nat, NEW m \in Nat, r0 <= m, NEW ex, ExtOK(rows, r0, m, ex),
           NEW o, NEW d, NEW dn, NEW f, NEW st, NEW pa
    PROVE  resolveLOBs(Qry(o, d, dn, f, st, pa, RawRows(rows, r0, m), ex))
             = Qry(o, d, dn, f, st, pa, ValRows(rows, r0, m), <<>>)
<1>1. PICK n \in Nat : n = m - r0
  OBVIOUS
<1>2. PICK pe : pe = RawRows(rows, r0, m)
  OBVIOUS
<1>3. PICK query : query = Qry(o, d, dn, f, st, pa, pe, ex)
  OBVIOUS
<1>4. query.extdta = ex /\ query.pending = pe
  BY <1>3 DEF Qry
<1>5. Len(pe) = n /\ pe = [x \in 1..n |-> Raw(r0 + x, rows[r0 + x])]
  <2>1. Len(RawRows(rows, r0, m)) = n
    BY <1>1, RowCounts
  <2> QED BY <1>1, <1>2, <2>1, Zenon DEF RawRows
<1>6. ASSUME NEW x \in 1..n PROVE pe[x] = Raw(r0 + x, rows[r0 + x])
  BY <1>5, Zenon
<1>7. ValRows(rows, r0, m) = [x \in 1..n |-> Value(r0 + x, rows[r0 + x])]
  BY <1>1, Zenon DEF ValRows
<1>8. CASE ex = <<>>
  <2>1. resolveLOBs(query) = query
    BY <1>4, <1>8, Zenon DEF resolveLOBs
  <2>2. Refs(rows, r0, n) = 0
    <3>1. Len(ex) = Refs(rows, r0, n)
      BY <1>1, Zenon DEF ExtOK
    <3>2. Len(ex) = 0
      BY <1>8
    <3> QED BY <3>1, <3>2, Zenon
  <2>3. ASSUME NEW x \in 1..n PROVE Raw(r0 + x, rows[r0 + x]) = Value(r0 + x, rows[r0 + x])
    <3>1. ~rows[r0 + x].lob
      <4>1. SUFFICES ASSUME rows[r0 + x].lob PROVE FALSE
        BY Zenon
      <4>2. Refs(rows, r0, x) <= Refs(rows, r0, n) /\ Refs(rows, r0, x) \in Nat /\ Refs(rows, r0, x) >= 1
        BY <4>1, RefsMono, Zenon
      <4>3. PICK a \in Nat : a = Refs(rows, r0, x)
        BY <4>2, Zenon
      <4>4. a <= 0 /\ a >= 1
        BY <2>2, <4>2, <4>3, Zenon
      <4> QED BY <4>4
    <3> QED BY <3>1, Zenon DEF Raw, Value
  <2>4. pe = ValRows(rows, r0, m)
    BY <1>5, <1>7, <2>3, Zenon
  <2> QED BY <1>2, <1>3, <1>8, <2>1, <2>4, Zenon
<1>9. CASE ex # <<>>
  <2>1. ASSUME NEW x \in 1..n PROVE RefsUpTo(query, x) = Refs(rows, r0, x)
    <3>1. ASSUME NEW j \in 1..x PROVE (query.pending[j].lob = LobRef) <=> rows[r0 + j].lob
      <4>1. j \in 1..n
        OBVIOUS
      <4>2. query.pending[j] = Raw(r0 + j, rows[r0 + j])
        BY <1>4, <1>6, <4>1, Zenon
      <4>3. 0 # LobRef
        BY DEF LobRef
      <4>4. Raw(r0 + j, rows[r0 + j]).lob = IF rows[r0 + j].lob THEN LobRef ELSE 0
        BY DEF Raw
      <4> QED BY <4>2, <4>3, <4>4, Zenon
    <3>2. {j \in 1..x : query.pending[j].lob = LobRef} = LobRows(rows, r0, x)
      BY <3>1, Zenon DEF LobRows
    <3> QED BY <3>2, Zenon DEF RefsUpTo, Refs
  <2>2. PICK pe2 : pe2 = [x \in 1..Len(pe) |-> Put(pe[x], RefsUpTo(query, x), ex)]
    OBVIOUS
  <2>3. resolveLOBs(query) = [query EXCEPT !.extdta = <<>>, !.pending = pe2]
    BY <1>4, <1>9, <2>2, Zenon DEF resolveLOBs, Put
  <2>4. ASSUME NEW x \in 1..n PROVE Put(pe[x], RefsUpTo(query, x), ex) = Value(r0 + x, rows[r0 + x])
    <3>1. Put(Raw(r0 + x, rows[r0 + x]), Refs(rows, r0, x), ex) = Value(r0 + x, rows[r0 + x])
      BY <1>1, PutIsValue
    <3> QED BY <1>6, <2>1, <3>1, Zenon
  <2>5. pe2 = ValRows(rows, r0, m)
    BY <1>5, <1>7, <2>2, <2>4, Zenon
  <2>6. [query EXCEPT !.extdta = <<>>, !.pending = pe2] = Qry(o, d, dn, f, st, pa, pe2, <<>>)
    <3>1. PICK none : none = <<>>
      OBVIOUS
    <3>2. PICK r : r = [query EXCEPT !.extdta = none]
      OBVIOUS
    <3>3. r = Qry(o, d, dn, f, st, pa, pe, none)
      BY <1>3, <3>2 DEF Qry
    <3>4. [r EXCEPT !.pending = pe2] = Qry(o, d, dn, f, st, pa, pe2, none)
      BY <3>3 DEF Qry
    <3> QED BY <3>1, <3>2, <3>4, Zenon
  <2> QED BY <1>2, <1>3, <2>3, <2>5, <2>6, Zenon
<1> QED BY <1>8, <1>9, Zenon

---------------------------------------------------------------------------
(* What an answer comes to *)

\* The bytes carried over are less than a row, and a LOB belongs to a row of the result.
IsQry(query) == \E o, d, dn, f, st, pa, pe, ex : query = Qry(o, d, dn, f, st, pa, pe, ex)

Short(rows, query) ==
    /\ IsQry(query)
    /\ \A i \in 1..Len(query.pending) : query.pending[i].lob \in -1..Len(rows)
    /\ Len(query.partial) < CaLength + 4

PartIs(rows, t, m, pa) ==
    /\ m \in 0..Len(rows) /\ Off(rows, m) \in Nat /\ Off(rows, m) <= t /\ t \in Nat
    /\ pa \in Seq(WireByte) /\ Len(pa) = t - Off(rows, m) /\ Len(pa) \in Nat
    /\ Len(pa) < CaLength + 4
    /\ t = Len(Encode(rows)) => m = Len(rows) /\ pa = <<>>

LEMMA PartialLen ==
    ASSUME NEW rows \in Seq(ResultRows), NEW t \in 0..Len(Encode(rows)), NEW m, InRow(rows, m, t),
           NEW pa, pa = SubSeq(Encode(rows), Off(rows, m) + 1, t)
    PROVE  PartIs(rows, t, m, pa)
<1>1. PICK E : E = Encode(rows)
  OBVIOUS
<1>2. PICK L \in Nat : L = Len(E)
  <2>1. E \in Seq(WireByte)
    BY <1>1, EncodedType, Zenon
  <2> QED BY <2>1
<1>3. E \in Seq(WireByte) /\ t \in Nat /\ t <= L
  <2>1. t \in 0..L
    BY <1>1, <1>2, Zenon
  <2>2. t \in Nat /\ t <= L
    BY <2>1
  <2> QED BY <1>1, <2>2, EncodedType, Zenon
<1>4. m \in 0..Len(rows) /\ Off(rows, m) <= t
  BY Zenon DEF InRow
<1>5. PICK a \in Nat : a = Off(rows, m) /\ a <= t
  BY <1>4, OffType, Zenon
<1>6. pa \in Seq(WireByte) /\ Len(pa) = t - a
  <2>1. pa = SubSeq(E, a + 1, t)
    BY <1>1, <1>5, Zenon
  <2> QED BY <1>2, <1>3, <1>5, <2>1, SubSeqType
<1>7. Off(rows, Len(rows)) = L /\ Len(rows) \in Nat
  BY <1>1, <1>2, OffEnds, Zenon
<1>8. m = Len(rows) => a = L
  BY <1>5, <1>7, Zenon
<1>9. ASSUME m # Len(rows)
      PROVE  t - a < CaLength + 4 /\ t < L
  <2>1. PICK k \in 1..Len(rows) : k = m + 1 /\ k - 1 = m /\ m < Len(rows)
    BY <1>4, <1>7, <1>9
  <2>2. Off(rows, k) = Off(rows, k - 1) + RowLen(rows[k]) /\ Off(rows, k) \in Nat /\ rows[k] \in ResultRows
    BY OffNext, Zenon
  <2>3. PICK l \in Nat : l = RowLen(rows[k]) /\ l <= CaLength + 4
    BY <2>2, RowLens, Zenon
  <2>4. t < Off(rows, k)
    BY <2>1, Zenon DEF InRow
  <2>5. PICK b \in Nat : b = Off(rows, k) /\ t < b /\ b = a + l
    BY <1>5, <2>1, <2>2, <2>3, <2>4, Zenon
  <2>6. b <= L
    <3>1. k \in 0..Len(rows) /\ Len(rows) \in 0..Len(rows) /\ k <= Len(rows)
      BY <1>7
    <3>2. Off(rows, k) <= Off(rows, Len(rows))
      BY <3>1, OffMono, Zenon
    <3> QED BY <1>7, <2>5, <3>2, Zenon
  <2>7. CaLength = 2
    BY DEF CaLength
  <2>8. t \in Nat /\ t < b /\ b = a + l
    BY <1>3, <2>5, Zenon
  <2>9. l <= 6
    <3>1. l <= CaLength + 4
      BY <2>3, Zenon
    <3> QED BY <2>7, <3>1
  <2>10. t - a < 6
    BY <2>8, <2>9
  <2>11. t < L
    BY <2>6, <2>8
  <2>12. CaLength + 4 = 6
    BY <2>7
  <2> QED BY <2>10, <2>11, <2>12, Zenon
<1>10. t - a \in Nat /\ t - a < CaLength + 4
  <2>1. CaLength = 2
    BY DEF CaLength
  <2>2. CASE m = Len(rows)
    <3>1. a = L
      BY <1>8, <2>2, Zenon
    <3> QED BY <1>3, <1>5, <2>1, <3>1
  <2>3. CASE m # Len(rows)
    BY <1>3, <1>5, <1>9, <2>3
  <2> QED BY <2>2, <2>3, Zenon
<1>11. ASSUME t = L PROVE m = Len(rows) /\ pa = <<>>
  <2>1. m = Len(rows)
    BY <1>3, <1>9, <1>11
  <2>2. t - a = 0
    BY <1>8, <1>11, <2>1
  <2>3. Len(pa) = 0
    BY <1>6, <2>2, Zenon
  <2>4. pa = <<>>
    BY <1>6, <2>3
  <2> QED BY <2>1, <2>4, Zenon
<1> QED BY <1>1, <1>2, <1>3, <1>4, <1>5, <1>6, <1>10, <1>11, Zenon DEF PartIs

LEMMA RowLobs ==
    ASSUME NEW rows, Len(rows) \in Nat, NEW r0 \in 0..Len(rows), NEW m \in r0..Len(rows),
           NEW pe \in {RawRows(rows, r0, m), ValRows(rows, r0, m)}, NEW x \in 1..Len(pe)
    PROVE  pe[x].lob \in -1..Len(rows)
<1>1. PICK n \in Nat : n = m - r0
  OBVIOUS
<1>2. r0 \in Nat /\ m \in Nat /\ r0 <= m /\ r0 + n <= Len(rows)
  BY <1>1
<1>3. Len(pe) = n
  <2>1. Len(RawRows(rows, r0, m)) = n /\ Len(ValRows(rows, r0, m)) = n
    BY <1>1, <1>2, RowCounts
  <2> QED BY <2>1, Zenon
<1>4. PICK i \in 1..Len(rows) : i = r0 + x
  <2>1. x \in 1..n
    BY <1>3, Zenon
  <2> QED BY <1>2, <2>1
<1>5. x \in 1..n
  BY <1>3, Zenon
<1>6. pe[x] = Raw(i, rows[i]) \/ pe[x] = Value(i, rows[i])
  <2>1. CASE pe = RawRows(rows, r0, m)
    BY <1>1, <1>4, <1>5, <2>1, Zenon DEF RawRows
  <2>2. CASE pe = ValRows(rows, r0, m)
    BY <1>1, <1>4, <1>5, <2>2, Zenon DEF ValRows
  <2> QED BY <2>1, <2>2, Zenon
<1>7. Raw(i, rows[i]).lob \in {-1, 0} /\ Value(i, rows[i]).lob \in {0, i}
  BY DEF Raw, Value, LobRef
<1>8. -1 \in -1..Len(rows) /\ 0 \in -1..Len(rows) /\ i \in -1..Len(rows)
  OBVIOUS
<1> QED BY <1>6, <1>7, <1>8, Zenon

LEMMA ShortQry ==
    ASSUME NEW rows \in Seq(ResultRows), NEW r0 \in 0..Len(rows), NEW t \in 0..Len(Encode(rows)),
           NEW m \in r0..Len(rows), InRow(rows, m, t),
           NEW pa, pa = SubSeq(Encode(rows), Off(rows, m) + 1, t),
           NEW pe \in {RawRows(rows, r0, m), ValRows(rows, r0, m)},
           NEW o, NEW d, NEW dn, NEW f, NEW st, NEW ex
    PROVE  Short(rows, Qry(o, d, dn, f, st, pa, pe, ex))
<1>1. PICK query : query = Qry(o, d, dn, f, st, pa, pe, ex)
  OBVIOUS
<1>2. query.pending = pe /\ query.partial = pa
  BY <1>1 DEF Qry
<1>3. Len(pa) < CaLength + 4
  BY PartialLen, Zenon DEF PartIs
<1>4. Len(rows) \in Nat
  OBVIOUS
<1>5. \A x \in 1..Len(pe) : pe[x].lob \in -1..Len(rows)
  BY <1>4, RowLobs, Zenon
<1>6. IsQry(query)
  BY <1>1, Zenon DEF IsQry
<1> QED BY <1>1, <1>2, <1>3, <1>5, <1>6, Zenon DEF Short

\* A query between calls: it has the row bytes up to t, and the rows from r0 to m are waiting.
Held(rows, r0, t, m, dn) ==
    Qry(Yes, Yes, dn, No, No, SubSeq(Encode(rows), Off(rows, m) + 1, t), ValRows(rows, r0, m), <<>>)

LEMMA SettleRows ==
    ASSUME NEW rows, NEW r0 \in Nat, NEW m \in Nat, r0 <= m, NEW ex, ExtOK(rows, r0, m, ex),
           NEW dn, NEW t
    PROVE  Settle(Qry(Yes, Yes, dn, No, No, SubSeq(Encode(rows), Off(rows, m) + 1, t),
                      RawRows(rows, r0, m), ex))
             = Held(rows, r0, t, m, dn)
<1>1. PICK pa : pa = SubSeq(Encode(rows), Off(rows, m) + 1, t)
  OBVIOUS
<1>2. PICK query : query = Qry(Yes, Yes, dn, No, No, pa, RawRows(rows, r0, m), ex)
  OBVIOUS
<1>3. query.stop = No /\ query.failed = No
  BY <1>2 DEF Qry
<1>4. Settle(query) = resolveLOBs(query)
  BY <1>3, Zenon DEF Settle, No
<1>5. resolveLOBs(Qry(Yes, Yes, dn, No, No, pa, RawRows(rows, r0, m), ex))
        = Qry(Yes, Yes, dn, No, No, pa, ValRows(rows, r0, m), <<>>)
  BY ResolveRows
<1> QED BY <1>1, <1>2, <1>4, <1>5, Zenon DEF Held

LEMMA ConObj ==
    ASSUME NEW query, NEW cp, NEW body, NEW s, s = <<NewObject(cp, body)>>
    PROVE  ConEnd(query, s) = ConsumeBy(query, cp, body)
<1>1. PICK d : d = NewObject(cp, body)
  OBVIOUS
<1>2. d.cp = cp /\ d.body = body
  BY <1>1 DEF NewObject
<1>3. ConEnd(query, <<d>>) = ConsumeBy(query, d.cp, d.body)
  BY ConOne, Zenon
<1> QED BY <1>1, <1>2, <1>3, Zenon

LEMMA TwoConcat ==
    ASSUME NEW I, NEW a \in I, NEW b \in I
    PROVE  <<a>> \o <<b>> = <<a, b>>
<1>1. PICK x : x = <<a>>
  OBVIOUS
<1>2. PICK y : y = <<b>>
  OBVIOUS
<1>3. PICK z : z = <<a, b>>
  OBVIOUS
<1>4. x \in Seq(I) /\ Len(x) = 1 /\ x[1] = a
  BY <1>1
<1>5. y \in Seq(I) /\ Len(y) = 1 /\ y[1] = b
  BY <1>2
<1>6. z \in Seq(I) /\ Len(z) = 2 /\ z[1] = a /\ z[2] = b
  BY <1>3
<1>7. x \o y = z
  <2>1. x \o y \in Seq(I) /\ Len(x \o y) = 2
    <3>1. x \o y \in Seq(I) /\ Len(x \o y) = Len(x) + Len(y)
      BY <1>4, <1>5, ConcatProps, Zenon
    <3>2. 1 + 1 = 2
      OBVIOUS
    <3> QED BY <1>4, <1>5, <3>1, <3>2, Zenon
  <2>2. (x \o y)[1] = a
    <3>1. 1 \in 1..Len(x)
      BY <1>4
    <3>2. (x \o y)[1] = x[1]
      BY <1>4, <1>5, <3>1, ConcatLeft
    <3> QED BY <1>4, <3>2, Zenon
  <2>3. (x \o y)[2] = b
    <3>1. PICK i \in 1..Len(y) : i = 1
      BY <1>5
    <3>2. x \in Seq(I) /\ y \in Seq(I)
      BY <1>4, <1>5, Zenon
    <3>3. (x \o y)[Len(x) + i] = y[i]
      BY <3>2, ConcatRight, Zenon
    <3>4. 1 + 1 = 2
      OBVIOUS
    <3> QED BY <1>4, <1>5, <3>1, <3>3, <3>4, Zenon
  <2>4. \A k \in 1..Len(x \o y) : (x \o y)[k] = z[k]
    <3>1. \A k \in 1..2 : k = 1 \/ k = 2
      OBVIOUS
    <3> QED BY <1>6, <2>1, <2>2, <2>3, <3>1, Zenon
  <2> QED BY <1>6, <2>1, <2>4, SeqEq, Zenon
<1> QED BY <1>1, <1>2, <1>3, <1>7, Zenon

LEMMA ConTwo ==
    ASSUME NEW query, NEW a \in Objs, NEW b \in Objs
    PROVE  ConEnd(query, <<a, b>>) = ConEnd(ConEnd(query, <<a>>), <<b>>)
<1>1. PICK s \in Seq(Objs), t \in Seq(Objs) : s = <<a>> /\ t = <<b>>
  BY SingleType, Zenon
<1>2. s \o t = <<a, b>>
  <2>1. <<a>> \o <<b>> = <<a, b>>
    BY TwoConcat, Zenon
  <2> QED BY <1>1, <2>1, Zenon
<1>3. ConEnd(query, s \o t) = ConEnd(ConEnd(query, s), t)
  BY ConConcat, Zenon
<1> QED BY <1>1, <1>2, <1>3, Zenon

\* ENDQRYRM and its SQLCARD: the end, or an error if bytes of a row are left over.
LEMMA ConEndOfQuery ==
    ASSUME NEW pa, NEW pe, NEW ex, NEW query, query = Qry(Yes, Yes, No, No, No, pa, pe, ex)
    PROVE  /\ pa = <<>> => ConEnd(query, EndOfQuery) = Qry(Yes, Yes, Yes, No, No, pa, pe, ex)
           /\ pa # <<>> => ConEnd(query, EndOfQuery) = Qry(Yes, Yes, Yes, No, Yes, pa, pe, ex)
<1>1. PICK body : body = <<Byte(0, "eod")>>
  OBVIOUS
<1>2. body[1].part # "error"
  BY <1>1 DEF Byte
<1>3. PICK a \in Objs, b \in Objs : a = NewObject("ENDQRYRM", <<>>) /\ b = NewObject("SQLCARD", body)
  BY <1>1, EmptyObj, ByteObj, Names, Zenon
<1>4. EndOfQuery = <<a, b>>
  BY <1>1, <1>3, Zenon DEF EndOfQuery
<1>5. ConEnd(query, EndOfQuery) = ConEnd(ConEnd(query, <<a>>), <<b>>)
  BY <1>4, ConTwo, Zenon
<1>6. PICK st : st = (pa # <<>>)
  OBVIOUS
<1>7. PICK p : p = Qry(Yes, Yes, Yes, No, st, pa, pe, ex)
  OBVIOUS
<1>8. ConEnd(query, <<a>>) = p
  <2>1. ConsumeBy(Qry(Yes, Yes, No, No, No, pa, pe, ex), "ENDQRYRM", <<>>)
          = Qry(Yes, Yes, Yes, No, st, pa, pe, ex)
    BY <1>6, ByENDQRYRM
  <2>2. ConEnd(query, <<a>>) = ConsumeBy(query, "ENDQRYRM", <<>>)
    BY <1>3, ConObj, Zenon
  <2> QED BY <1>7, <2>1, <2>2, Zenon
<1>9. ConEnd(p, <<b>>) = ConsumeBy(p, "SQLCARD", body)
  BY <1>3, ConObj, Zenon
<1>10. ASSUME pa = <<>> PROVE ConEnd(query, EndOfQuery) = Qry(Yes, Yes, Yes, No, No, pa, pe, ex)
  <2>1. st = No
    BY <1>6, <1>10 DEF No
  <2>2. ConsumeBy(Qry(Yes, Yes, Yes, No, No, pa, pe, ex), "SQLCARD", body)
          = Qry(Yes, Yes, Yes, No, No, pa, pe, ex)
    BY <1>2, BySQLCARD
  <2> QED BY <1>5, <1>7, <1>8, <1>9, <2>1, <2>2, Zenon
<1>11. ASSUME pa # <<>> PROVE ConEnd(query, EndOfQuery) = Qry(Yes, Yes, Yes, No, Yes, pa, pe, ex)
  <2>1. st = Yes
    BY <1>6, <1>11 DEF Yes
  <2>2. p.stop
    BY <1>7, <2>1 DEF Qry, Yes
  <2>3. ConsumeBy(p, "SQLCARD", body) = p
    BY <2>2, ByStopped, Zenon
  <2> QED BY <1>5, <1>7, <1>8, <1>9, <2>1, <2>3, Zenon
<1> QED BY <1>10, <1>11, Zenon

LEMMA ConEod ==
    ASSUME NEW pe, NEW ex, NEW query, query = Qry(Yes, Yes, No, No, No, <<>>, pe, ex),
           pe \o <<>> = pe
    PROVE  ConEnd(query, <<NewObject("QRYDTA", <<Byte(0, "eod")>>)>>)
             = Qry(Yes, Yes, Yes, No, No, <<>>, pe, ex)
<1>1. PICK body : body = <<Byte(0, "eod")>>
  OBVIOUS
<1>2. PICK none : none = <<>>
  OBVIOUS
<1>3. none \o body = body
  <2>1. <<>> \o <<Byte(0, "eod")>> = <<Byte(0, "eod")>>
    OBVIOUS
  <2> QED BY <1>1, <1>2, <2>1, Zenon
<1>4. DecodeBlock(none \o body) = [rows |-> none, leftover |-> none, eod |-> Yes]
  BY <1>1, <1>2, <1>3, DecodeEod, Zenon DEF DecEnd, Yes
<1>5. Yes = (No \/ Yes)
  BY DEF Yes, No
<1>6. ConsumeBy(Qry(Yes, Yes, No, No, No, none, pe, ex), "QRYDTA", body)
        = Qry(Yes, Yes, Yes, No, No, none, pe \o none, ex)
  BY <1>4, <1>5, ByQRYDTA
<1>7. ConEnd(query, <<NewObject("QRYDTA", body)>>) = ConsumeBy(query, "QRYDTA", body)
  BY ConObj, Zenon
<1> QED BY <1>1, <1>2, <1>6, <1>7, Zenon

LEMMA ConFailure ==
    ASSUME NEW o, NEW d, NEW dn, NEW pa, NEW pe, NEW ex, NEW query, query = Qry(o, d, dn, No, No, pa, pe, ex)
    PROVE  ConEnd(query, Failure) = Qry(o, d, dn, Yes, No, pa, pe, ex)
<1>1. PICK body : body = <<Byte(0, "error")>>
  OBVIOUS
<1>2. body[1].part = "error"
  BY <1>1 DEF Byte
<1>3. ConsumeBy(Qry(o, d, dn, No, No, pa, pe, ex), "SQLCARD", body) = Qry(o, d, dn, Yes, No, pa, pe, ex)
  BY <1>2, BySQLCARD
<1>4. ConEnd(query, Failure) = ConsumeBy(query, "SQLCARD", body)
  BY <1>1, ConObj, Zenon DEF Failure
<1> QED BY <1>3, <1>4, Zenon

\* An answer read to its end: an error, or the rows up to t.
Ended(rows, r0, t, how, after) ==
    /\ Short(rows, after)
    /\ \/ after.stop
       \/ after.failed
       \/ \E m \in r0..Len(rows), dn \in {Yes, No} :
             /\ InRow(rows, m, t) /\ after = Held(rows, r0, t, m, dn)
             /\ dn = Yes => t = Len(Encode(rows))
             /\ how \in {"end", "eod"} => dn = Yes
             /\ how \notin {"error", "short"}

\* What the end of the row data may be.
EndsAt(rows, t, how) ==
    /\ how \in {"end", "eod"} => t = Len(Encode(rows))
    /\ how = "short" => t > 0 /\ Encode(rows)[t].part \notin {"null", "ref"}

LEMMA ShortLeaves ==
    ASSUME NEW rows \in Seq(ResultRows), NEW t \in 0..Len(Encode(rows)), t > 0,
           Encode(rows)[t].part \notin {"null", "ref"}, NEW m, InRow(rows, m, t),
           NEW pa, pa = SubSeq(Encode(rows), Off(rows, m) + 1, t)
    PROVE  pa # <<>>
<1>1. PICK L \in Nat : L = Len(Encode(rows))
  <2>1. Encode(rows) \in Seq(WireByte)
    BY EncodedType, Zenon
  <2> QED BY <2>1
<1>2. PICK u \in Nat : t = u + 1 /\ u < L
  <2>1. t \in 0..L
    BY <1>1, Zenon
  <2> QED BY <2>1
<1>3. u < Len(Encode(rows)) /\ u \in 0..Len(Encode(rows))
  <2>1. u < L /\ u \in 0..L
    BY <1>2
  <2> QED BY <1>1, <2>1, Zenon
<1>4. PICK l \in 0..Len(rows) : InRow(rows, l, u)
  BY <1>3, RowExists, Zenon
<1>5. PICK n : n = l + 1
  OBVIOUS
<1>6. PICK b : b = Encode(rows)[u + 1]
  OBVIOUS
<1>7. NextIs(rows, n, l, u, b)
  BY <1>3, <1>4, <1>5, <1>6, NextByte, Zenon
<1>8. b.part \notin {"null", "ref"}
  BY <1>2, <1>6, Zenon
<1>9. ~EndsRow(rows, n, u, b)
  BY <1>8, Zenon DEF EndsRow
<1>10. InRow(rows, l, t)
  BY <1>2, <1>7, <1>9, Zenon DEF NextIs, InsideRow
<1>11. t \in Nat
  BY <1>2
<1>12. l = m
  BY <1>10, <1>11, RowUnique, Zenon
<1>13. Off(rows, m) <= u
  BY <1>4, <1>12, Zenon DEF InRow
<1>14. Off(rows, m) \in Nat /\ Len(pa) = t - Off(rows, m)
  <2>1. PartIs(rows, t, m, pa)
    BY PartialLen, Zenon
  <2> QED BY <2>1, Zenon DEF PartIs
<1>15. PICK a \in Nat : a = Off(rows, m) /\ a <= u
  BY <1>13, <1>14, Zenon
<1>16. Len(pa) = t - a
  BY <1>14, <1>15, Zenon
<1>17. t - a # 0
  BY <1>2, <1>15
<1>18. Len(<<>>) = 0
  OBVIOUS
<1> QED BY <1>16, <1>17, <1>18, Zenon

LEMMA AnswerEnds ==
    ASSUME NEW rows \in Seq(ResultRows), NEW r0 \in 0..Len(rows), NEW t \in 0..Len(Encode(rows)),
           NEW query, Got(rows, r0, t, t, query), NEW how \in Hows, EndsAt(rows, t, how),
           NEW after, after = Settle(ConEnd(query, AnswerEnd(how)))
    PROVE  Ended(rows, r0, t, how, after)
<1>0. PICK m \in r0..Len(rows), l \in r0..Len(rows) :
        \E ex :
          /\ InRow(rows, m, t) /\ InRow(rows, l, t) /\ ExtOK(rows, r0, l, ex)
          /\ query = Taking(rows, r0, t, m, ex)
  BY Zenon DEF Got
<1>1. PICK ex :
        /\ InRow(rows, m, t) /\ InRow(rows, l, t) /\ ExtOK(rows, r0, l, ex)
        /\ query = Taking(rows, r0, t, m, ex)
  BY <1>0, Zenon
<1>2. t \in Nat
  <2>1. Encode(rows) \in Seq(WireByte)
    BY EncodedType, Zenon
  <2> QED BY <2>1
<1>3. ExtOK(rows, r0, m, ex)
  <2>1. m = l
    BY <1>1, <1>2, RowUnique, Zenon
  <2> QED BY <1>1, <2>1, Zenon
<1>4. r0 \in Nat /\ m \in Nat /\ r0 <= m
  BY <1>1
<1>5. PICK pa : pa = SubSeq(Encode(rows), Off(rows, m) + 1, t)
  OBVIOUS
<1>6. PICK pe : pe = RawRows(rows, r0, m)
  OBVIOUS
<1>7. query = Qry(Yes, Yes, No, No, No, pa, pe, ex)
  BY <1>1, <1>5, <1>6, Zenon DEF Taking
<1>8. ASSUME NEW dn \in {Yes, No}, how \in {"more", "end", "eod"},
             ConEnd(query, AnswerEnd(how)) = Qry(Yes, Yes, dn, No, No, pa, pe, ex),
             dn = Yes => t = Len(Encode(rows)), how \in {"end", "eod"} => dn = Yes
      PROVE  Ended(rows, r0, t, how, after)
  <2>1. Settle(Qry(Yes, Yes, dn, No, No, SubSeq(Encode(rows), Off(rows, m) + 1, t), RawRows(rows, r0, m), ex))
          = Held(rows, r0, t, m, dn)
    BY <1>3, <1>4, SettleRows
  <2>2. after = Held(rows, r0, t, m, dn)
    BY <1>5, <1>6, <1>8, <2>1, Zenon
  <2>3. Short(rows, Qry(Yes, Yes, dn, No, No, pa, ValRows(rows, r0, m), <<>>))
    BY <1>1, <1>5, ShortQry
  <2>4. Short(rows, after)
    BY <1>5, <2>2, <2>3, Zenon DEF Held
  <2>5. how \notin {"error", "short"}
    BY <1>8
  <2> QED BY <1>1, <1>8, <2>2, <2>4, <2>5, Zenon DEF Ended
<1>9. ASSUME pa = <<>> \/ how # "end", how # "short", how # "error" PROVE Ended(rows, r0, t, how, after)
  <2>1. CASE how = "more"
    <3>1. AnswerEnd(how) = <<>>
      BY <2>1 DEF AnswerEnd
    <3>2. ConEnd(query, AnswerEnd(how)) = query
      BY <3>1, ConEmpty, Zenon
    <3>3. No # Yes /\ how \notin {"end", "eod"}
      BY <2>1 DEF No, Yes
    <3> QED BY <1>7, <1>8, <2>1, <3>2, <3>3, Zenon
  <2>2. CASE how = "end"
    <3>1. AnswerEnd(how) = EndOfQuery
      BY <2>2 DEF AnswerEnd
    <3>2. t = Len(Encode(rows))
      BY <2>2, Zenon DEF EndsAt
    <3>3. ConEnd(query, EndOfQuery) = Qry(Yes, Yes, Yes, No, No, pa, pe, ex)
      BY <1>7, <1>9, <2>2, ConEndOfQuery
    <3> QED BY <1>8, <2>2, <3>1, <3>2, <3>3, Zenon
  <2>3. CASE how = "eod"
    <3>1. AnswerEnd(how) = <<NewObject("QRYDTA", <<Byte(0, "eod")>>)>>
      BY <2>3 DEF AnswerEnd
    <3>2. t = Len(Encode(rows))
      BY <2>3, Zenon DEF EndsAt
    <3>3. pa = <<>>
      <4>1. PartIs(rows, t, m, pa)
        BY <1>1, <1>5, PartialLen, Zenon
      <4> QED BY <3>2, <4>1, Zenon DEF PartIs
    <3>4. pe \o <<>> = pe
      <4>1. m <= m
        BY <1>4
      <4>2. RowsJoin(rows, r0, m, m)
        BY <1>4, <4>1, RawRowsJoin, Zenon
      <4>3. RawRows(rows, m, m) = <<>>
        BY <1>4, <4>1, RawRowsConcat, Zenon
      <4> QED BY <1>6, <4>2, <4>3, Zenon DEF RowsJoin
    <3>5. ConEnd(query, <<NewObject("QRYDTA", <<Byte(0, "eod")>>)>>) = Qry(Yes, Yes, Yes, No, No, <<>>, pe, ex)
      BY <1>7, <3>3, <3>4, ConEod
    <3> QED BY <1>8, <2>3, <3>1, <3>2, <3>3, <3>5, Zenon
  <2> QED BY <1>9, <2>1, <2>2, <2>3 DEF Hows
<1>10. ASSUME how \in {"end", "short"}, pa # <<>> PROVE Ended(rows, r0, t, how, after)
  <2>1. AnswerEnd(how) = EndOfQuery
    BY <1>10 DEF AnswerEnd
  <2>2. PICK q1 : q1 = Qry(Yes, Yes, Yes, No, Yes, pa, pe, ex)
    OBVIOUS
  <2>3. ConEnd(query, EndOfQuery) = q1
    BY <1>7, <1>10, <2>2, ConEndOfQuery
  <2>4. q1.stop
    BY <2>2 DEF Qry, Yes
  <2>5. after = q1
    BY <2>1, <2>3, <2>4, Zenon DEF Settle
  <2>6. Short(rows, q1)
    BY <1>1, <1>5, <1>6, <2>2, ShortQry
  <2> QED BY <2>4, <2>5, <2>6, Zenon DEF Ended
<1>11. ASSUME how = "short" PROVE Ended(rows, r0, t, how, after)
  <2>1. t > 0 /\ Encode(rows)[t].part \notin {"null", "ref"}
    BY <1>11, Zenon DEF EndsAt
  <2>2. pa # <<>>
    BY <1>1, <1>5, <2>1, ShortLeaves, Zenon
  <2> QED BY <1>10, <1>11, <2>2, Zenon
<1>12. ASSUME how = "error" PROVE Ended(rows, r0, t, how, after)
  <2>1. AnswerEnd(how) = Failure
    BY <1>12 DEF AnswerEnd
  <2>2. PICK q1 : q1 = Qry(Yes, Yes, No, Yes, No, pa, pe, ex)
    OBVIOUS
  <2>3. ConEnd(query, Failure) = q1
    BY <1>7, <2>2, ConFailure
  <2>4. q1.stop = No /\ q1.failed = Yes
    BY <2>2 DEF Qry
  <2>5. after = [q1 EXCEPT !.done = Yes]
    BY <2>1, <2>3, <2>4, Zenon DEF Settle, Yes, No
  <2>6. after = Qry(Yes, Yes, Yes, Yes, No, pa, pe, ex)
    BY <2>2, <2>5 DEF Qry
  <2>7. Short(rows, after)
    BY <1>1, <1>5, <1>6, <2>6, ShortQry
  <2>8. after.failed
    BY <2>6 DEF Qry, Yes
  <2> QED BY <2>7, <2>8, Zenon DEF Ended
<1> QED BY <1>9, <1>10, <1>11, <1>12 DEF Hows

LEMMA NoRows ==
    ASSUME NEW rows, NEW r0 \in Nat
    PROVE  RawRows(rows, r0, r0) = <<>> /\ ValRows(rows, r0, r0) = <<>>
BY DEF RawRows, ValRows

LEMMA RowZero ==
    ASSUME NEW rows \in Seq(ResultRows)
    PROVE  /\ InRow(rows, 0, 0) /\ 0 \in 0..Len(rows) /\ Off(rows, 0) = 0
           /\ SubSeq(Encode(rows), Off(rows, 0) + 1, 0) = <<>>
<1>1. Off(rows, 0) = 0 /\ Len(rows) \in Nat
  BY OffEnds, Zenon
<1>2. 0 \in 0..Len(rows) /\ 0 <= 0
  BY <1>1
<1>3. ASSUME 0 < Len(rows) PROVE 0 < Off(rows, 0 + 1)
  <2>1. 0 + 1 \in 0..Len(rows) /\ 0 <= 0 + 1 /\ 0 < 0 + 1
    BY <1>1, <1>3
  <2>2. Off(rows, 0) < Off(rows, 0 + 1)
    BY <1>2, <2>1, OffMono
  <2> QED BY <1>1, <2>2, Zenon
<1>4. InRow(rows, 0, 0)
  BY <1>1, <1>2, <1>3, Zenon DEF InRow
<1>5. SubSeq(Encode(rows), 0 + 1, 0) = <<>>
  <2>1. Encode(rows) \in Seq(WireByte)
    BY EncodedType, Zenon
  <2>2. 0 <= Len(Encode(rows)) /\ 0 \in Nat
    BY <2>1
  <2> QED BY <2>1, <2>2, SubSeqNone, Zenon
<1> QED BY <1>1, <1>2, <1>4, <1>5, Zenon

LEMMA HeadOpen ==
    ASSUME NEW rows \in Seq(ResultRows), NEW query, query = NewQuery
    PROVE  Got(rows, 0, 0, 0, ConEnd(query, AnswerHead("open")))
<1>1. PICK none : none = <<>>
  OBVIOUS
<1>2. query = Qry(No, No, No, No, No, none, none, none)
  BY <1>1 DEF NewQuery, Qry, No
<1>3. PICK a \in Objs, b \in Objs : a = NewObject("OPNQRYRM", <<>>) /\ b = NewObject("QRYDSC", <<>>)
  BY EmptyObj, Names, Zenon
<1>4. AnswerHead("open") = <<a, b>>
  BY <1>3, Zenon DEF AnswerHead
<1>5. ConEnd(query, <<a, b>>) = ConEnd(ConEnd(query, <<a>>), <<b>>)
  BY ConTwo, Zenon
<1>6. PICK p : p = Qry(Yes, No, No, No, No, none, none, none)
  OBVIOUS
<1>7. ConEnd(query, <<a>>) = p
  <2>1. ConsumeBy(Qry(No, No, No, No, No, none, none, none), "OPNQRYRM", <<>>) = Qry(Yes, No, No, No, No, none, none, none)
    BY ByOPNQRYRM
  <2>2. ConEnd(query, <<a>>) = ConsumeBy(query, "OPNQRYRM", <<>>)
    BY <1>3, ConObj, Zenon
  <2> QED BY <1>2, <1>6, <2>1, <2>2, Zenon
<1>8. ConEnd(p, <<b>>) = Qry(Yes, Yes, No, No, No, none, none, none)
  <2>1. ConsumeBy(Qry(Yes, No, No, No, No, none, none, none), "QRYDSC", <<>>) = Qry(Yes, Yes, No, No, No, none, none, none)
    BY ByQRYDSC
  <2>2. ConEnd(p, <<b>>) = ConsumeBy(p, "QRYDSC", <<>>)
    BY <1>3, ConObj, Zenon
  <2> QED BY <1>6, <2>1, <2>2, Zenon
<1>9. Taking(rows, 0, 0, 0, none) = Qry(Yes, Yes, No, No, No, none, none, none)
  <2>1. SubSeq(Encode(rows), Off(rows, 0) + 1, 0) = none
    BY <1>1, RowZero, Zenon
  <2>2. RawRows(rows, 0, 0) = none
    <3>1. 0 \in Nat
      OBVIOUS
    <3> QED BY <1>1, <3>1, NoRows, Zenon
  <2> QED BY <2>1, <2>2, Zenon DEF Taking
<1>10. ExtOK(rows, 0, 0, none)
  <2>1. 0 \in Nat
    OBVIOUS
  <2> QED BY <1>1, <2>1, ExtNone, Zenon
<1>11. InRow(rows, 0, 0) /\ 0 \in 0..Len(rows)
  BY RowZero, Zenon
<1>12. Got(rows, 0, 0, 0, Taking(rows, 0, 0, 0, none))
  BY <1>10, <1>11, Zenon DEF Got
<1> QED BY <1>4, <1>5, <1>7, <1>8, <1>9, <1>12, Zenon

LEMMA HeadFetch ==
    ASSUME NEW rows \in Seq(ResultRows), NEW r0 \in 0..Len(rows), NEW t, InRow(rows, r0, t),
           NEW query, query = Held(rows, r0, t, r0, No)
    PROVE  Got(rows, r0, t, t, ConEnd(query, AnswerHead("fetch")))
<1>1. AnswerHead("fetch") = <<>>
  BY DEF AnswerHead
<1>2. ConEnd(query, AnswerHead("fetch")) = query
  BY <1>1, ConEmpty, Zenon
<1>3. r0 \in Nat /\ r0 \in r0..Len(rows)
  OBVIOUS
<1>4. PICK none : none = <<>>
  OBVIOUS
<1>5. RawRows(rows, r0, r0) = none /\ ValRows(rows, r0, r0) = none /\ ExtOK(rows, r0, r0, none)
  BY <1>3, <1>4, NoRows, ExtNone, Zenon
<1>6. query = Taking(rows, r0, t, r0, none)
  BY <1>4, <1>5, Zenon DEF Held, Taking
<1>7. Got(rows, r0, t, t, query)
  BY <1>3, <1>5, <1>6, Zenon DEF Got
<1> QED BY <1>2, <1>7, Zenon

\* A whole answer.
LEMMA WholeAnswer ==
    ASSUME NEW rows \in Seq(ResultRows), NEW r0 \in 0..Len(rows), NEW t \in 0..Len(Encode(rows)),
           rest = SubSeq(Encode(rows), t + 1, Len(Encode(rows))),
           NEW n \in 0..Len(rest), NEW size \in Nat, size > 0, NEW to, NEW query,
           Got(rows, r0, t, t, ConEnd(query, AnswerHead(to))),
           NEW how \in Hows, EndsAt(rows, t + n, how),
           NEW objects, objects = AnswerHead(to) \o Blocks(n, size) \o AnswerEnd(how)
    PROVE  t + n \in 0..Len(Encode(rows)) /\ Ended(rows, r0, t + n, how, ConsumeAll(query, Messages(objects)))
<1>1. PICK E : E = Encode(rows)
  OBVIOUS
<1>2. PICK L \in Nat : L = Len(E)
  <2>1. E \in Seq(WireByte)
    BY <1>1, EncodedType, Zenon
  <2> QED BY <2>1
<1>3. E \in Seq(WireByte) /\ t \in Nat /\ t <= L /\ L <= L
  <2>1. t \in 0..L
    BY <1>1, <1>2, Zenon
  <2>2. t \in Nat /\ t <= L /\ L <= L
    BY <2>1
  <2> QED BY <1>1, <2>2, EncodedType, Zenon
<1>4. rest \in Seq(WireByte) /\ Len(rest) = L - t
  <2>1. rest = SubSeq(E, t + 1, L)
    BY <1>1, <1>2, Zenon
  <2> QED BY <1>2, <1>3, <2>1, SubSeqType
<1>5. t + n \in 0..L
  <2>1. n \in 0..(L - t)
    BY <1>4, Zenon
  <2> QED BY <1>3, <2>1
<1>6. PICK a \in Seq(Objs), b \in Seq(Objs), c \in Seq(Objs) :
        a = AnswerHead(to) /\ b = Blocks(n, size) /\ c = AnswerEnd(how)
  <2>1. AnswerHead(to) \in Seq(Objs) /\ AnswerEnd(how) \in Seq(Objs)
    BY AnswerParts, Zenon
  <2>2. Blocks(n, size) \in Seq(Objs)
    BY <1>4, BlocksType
  <2> QED BY <2>1, <2>2, Zenon
<1>7. PICK ab : ab = a \o b
  OBVIOUS
<1>8. ab \in Seq(Objs) /\ objects = ab \o c
  BY <1>6, <1>7, ConcatProps, Zenon
<1>9. objects \in Seq(Objs)
  BY <1>8, ConcatProps, Zenon
<1>10. PICK p : p = ConEnd(query, a)
  OBVIOUS
<1>11. PICK r : r = ConEnd(p, b)
  OBVIOUS
<1>12. ConEnd(query, objects) = ConEnd(r, c)
  <2>1. ConEnd(query, ab \o c) = ConEnd(ConEnd(query, ab), c)
    BY <1>8, ConConcat, Zenon
  <2>2. ConEnd(query, a \o b) = ConEnd(ConEnd(query, a), b)
    BY ConConcat, Zenon
  <2> QED BY <1>7, <1>8, <1>10, <1>11, <2>1, <2>2, Zenon
<1>13. Got(rows, r0, t + n, t + n, r)
  <2>1. Got(rows, r0, t, t, p) /\ t <= Len(Encode(rows))
    BY <1>1, <1>2, <1>3, <1>6, <1>10, Zenon
  <2>2. Got(rows, r0, t + n, t + n, ConEnd(p, Blocks(n, size)))
    BY <1>3, <2>1, GotBlocks, Zenon
  <2> QED BY <1>6, <1>11, <2>2, Zenon
<1>14. PICK u : u = t + n
  OBVIOUS
<1>15. u \in 0..Len(Encode(rows)) /\ Got(rows, r0, u, u, r) /\ EndsAt(rows, u, how)
  BY <1>1, <1>2, <1>5, <1>13, <1>14, Zenon
<1>16. Ended(rows, r0, u, how, Settle(ConEnd(r, c)))
  <2>1. PICK after : after = Settle(ConEnd(r, AnswerEnd(how)))
    OBVIOUS
  <2>2. Ended(rows, r0, u, how, after)
    BY <1>15, <2>1, AnswerEnds, Zenon
  <2> QED BY <1>6, <2>1, <2>2, Zenon
<1>17. ConsumeAll(query, Messages(objects)) = Settle(ConEnd(r, c))
  <2>1. ConsumeAll(query, Messages(objects)) = Settle(ConEnd(query, Messages(objects)))
    BY ConsumeAllIs, Zenon
  <2>2. ConEnd(query, Messages(objects)) = ConEnd(query, objects)
    BY <1>9, ConMessages, Zenon
  <2> QED BY <1>12, <2>1, <2>2, Zenon
<1> QED BY <1>14, <1>15, <1>16, <1>17, Zenon

---------------------------------------------------------------------------
(* The rows of an open query *)

\* A query that has consumed whole answers.
Taken(rows, r0, t, query) ==
    \E m \in r0..Len(rows), dn \in {Yes, No} :
        /\ InRow(rows, m, t) /\ query = Held(rows, r0, t, m, dn)
        /\ dn = Yes => t = Len(Encode(rows))

\* After a answers to CNTQRY: rows, the end, or that much of a row.
Asked(query, a) == query.pending # <<>> \/ query.done \/ Len(query.partial) >= a * MinBlock

AnswerOK(rows, r0, t, a, after) ==
    /\ Short(rows, after)
    /\ after.stop \/ after.failed \/ (Taken(rows, r0, t, after) /\ Asked(after, a))

\* No row is waiting, and the bytes of one that is not complete are from the answers so far.
Waiting(rows, r0, t, a, query) ==
    /\ InRow(rows, r0, t) /\ query = Held(rows, r0, t, r0, No)
    /\ t - Off(rows, r0) >= a * MinBlock

HeldIs(rows, r0, t, m, dn, query) ==
    /\ query.opened = Yes /\ query.done = dn /\ query.stop = No /\ query.failed = No
    /\ query.partial = SubSeq(Encode(rows), Off(rows, m) + 1, t)
    /\ query.pending = ValRows(rows, r0, m) /\ query.extdta = <<>>

LEMMA HeldFields ==
    ASSUME NEW rows, NEW r0, NEW t, NEW m, NEW dn, NEW query, query = Held(rows, r0, t, m, dn)
    PROVE  HeldIs(rows, r0, t, m, dn, query)
<1>1. PICK none : none = <<>>
  OBVIOUS
<1>2. PICK pa : pa = SubSeq(Encode(rows), Off(rows, m) + 1, t)
  OBVIOUS
<1>3. PICK pe : pe = ValRows(rows, r0, m)
  OBVIOUS
<1>4. query = Qry(Yes, Yes, dn, No, No, pa, pe, none)
  BY <1>1, <1>2, <1>3, Zenon DEF Held
<1>5. /\ query.opened = Yes /\ query.done = dn /\ query.stop = No /\ query.failed = No
      /\ query.partial = pa /\ query.pending = pe /\ query.extdta = none
  BY <1>4 DEF Qry
<1> QED BY <1>1, <1>2, <1>3, <1>5, Zenon DEF HeldIs

LEMMA OpenAnswer ==
    ASSUME NEW rows \in Seq(ResultRows), NEW t \in 0..Len(Encode(rows)), NEW how, NEW after,
           Ended(rows, 0, t, how, after)
    PROVE  AnswerOK(rows, 0, t, 0, after)
<1>1. ASSUME NEW m \in 0..Len(rows), NEW dn \in {Yes, No}, InRow(rows, m, t),
             after = Held(rows, 0, t, m, dn), dn = Yes => t = Len(Encode(rows))
      PROVE  Taken(rows, 0, t, after) /\ Asked(after, 0)
  <2>1. Taken(rows, 0, t, after)
    BY <1>1, Zenon DEF Taken
  <2>2. PICK pa : pa = SubSeq(Encode(rows), Off(rows, m) + 1, t)
    OBVIOUS
  <2>3. after.partial = pa
    <3>1. HeldIs(rows, 0, t, m, dn, after)
      BY <1>1, HeldFields, Zenon
    <3> QED BY <2>2, <3>1, Zenon DEF HeldIs
  <2>4. Len(pa) \in Nat
    <3>1. PartIs(rows, t, m, pa)
      BY <1>1, <2>2, PartialLen, Zenon
    <3> QED BY <3>1, Zenon DEF PartIs
  <2>5. PICK l \in Nat : l = Len(pa)
    BY <2>4, Zenon
  <2>6. l >= 0 * MinBlock
    BY WireAssumption
  <2> QED BY <2>1, <2>3, <2>5, <2>6, Zenon DEF Asked
<1> QED BY <1>1, Zenon DEF Ended, AnswerOK

LEMMA FetchAnswer ==
    ASSUME NEW rows \in Seq(ResultRows), NEW r0 \in 0..Len(rows), NEW t \in 0..Len(Encode(rows)),
           NEW n \in Nat, t + n \in 0..Len(Encode(rows)), NEW a \in 1..3,
           InRow(rows, r0, t), t - Off(rows, r0) >= (a - 1) * MinBlock,
           NEW how, n >= MinBlock \/ t + n = Len(Encode(rows)) \/ how = "error",
           how = "more" => n > 0, how = "short" => t + n # Len(Encode(rows)), how \in Hows,
           NEW after, Ended(rows, r0, t + n, how, after)
    PROVE  AnswerOK(rows, r0, t + n, a, after)
<1>1. PICK u : u = t + n
  OBVIOUS
<1>2. PICK L \in Nat : L = Len(Encode(rows))
  <2>1. Encode(rows) \in Seq(WireByte)
    BY EncodedType, Zenon
  <2> QED BY <2>1
<1>3. t \in 0..L /\ u \in 0..L
  BY <1>1, <1>2, Zenon
<1>4. t \in Nat /\ u \in Nat /\ r0 \in Nat /\ Len(rows) \in Nat
  BY <1>3
<1>5. ASSUME NEW m \in r0..Len(rows), NEW dn \in {Yes, No}, InRow(rows, m, u),
             after = Held(rows, r0, u, m, dn), dn = Yes => u = L, how \in {"end", "eod"} => dn = Yes,
             how \notin {"error", "short"}
      PROVE  Taken(rows, r0, u, after) /\ Asked(after, a)
  <2>1. Taken(rows, r0, u, after)
    BY <1>2, <1>5, Zenon DEF Taken
  <2>2. PICK pa : pa = SubSeq(Encode(rows), Off(rows, m) + 1, u)
    OBVIOUS
  <2>3. after.partial = pa /\ after.pending = ValRows(rows, r0, m) /\ after.done = dn
    <3>1. HeldIs(rows, r0, u, m, dn, after)
      BY <1>5, HeldFields, Zenon
    <3> QED BY <2>2, <3>1, Zenon DEF HeldIs
  <2>4. PartIs(rows, u, m, pa)
    BY <1>1, <1>5, <2>2, PartialLen, Zenon
  <2>5. CASE m # r0
    <3>1. PICK k \in Nat : k = m - r0 /\ k # 0 /\ r0 <= m /\ m \in Nat
      BY <1>4, <2>5
    <3>2. Len(ValRows(rows, r0, m)) = k
      BY <1>4, <3>1, RowCounts
    <3>3. Len(<<>>) = 0
      OBVIOUS
    <3>4. after.pending # <<>>
      BY <2>3, <3>1, <3>2, <3>3, Zenon
    <3> QED BY <2>1, <3>4, Zenon DEF Asked
  <2>6. CASE m = r0 /\ n >= MinBlock
    <3>1. PICK b \in Nat : b = Off(rows, r0)
      BY <2>4, <2>6, Zenon DEF PartIs
    <3>2. Len(pa) = u - b
      BY <2>4, <2>6, <3>1, Zenon DEF PartIs
    <3>3. t - b >= (a - 1) * MinBlock
      BY <3>1, Zenon
    <3>4. MinBlock \in Nat
      BY WireAssumption, Zenon
    <3>5. PICK x \in Int : x = t - b
      BY <1>4
    <3>6. x >= (a - 1) * MinBlock
      BY <3>3, <3>5, Zenon
    <3>7. x + n >= a * MinBlock
      <4>1. a = 1 \/ a = 2 \/ a = 3
        OBVIOUS
      <4>2. n >= MinBlock
        BY <2>6, Zenon
      <4> QED BY <3>4, <3>6, <4>1, <4>2
    <3>8. u - b = x + n
      BY <1>1, <1>4, <3>5
    <3>9. Len(after.partial) >= a * MinBlock
      BY <2>3, <3>2, <3>7, <3>8, Zenon
    <3> QED BY <2>1, <3>9, Zenon DEF Asked
  <2>7. CASE m = r0 /\ u = L
    <3>1. m = Len(rows)
      BY <1>2, <2>4, <2>7, Zenon DEF PartIs
    <3>2. Off(rows, r0) = L
      BY <1>2, <2>7, <3>1, OffEnds, Zenon
    <3>3. Off(rows, r0) <= t
      BY Zenon DEF InRow
    <3>4. L <= t
      BY <3>2, <3>3, Zenon
    <3>5. n = 0
      BY <1>1, <1>3, <2>7, <3>4
    <3>6. how # "more"
      BY <3>5
    <3>7. dn = Yes
      BY <1>5, <3>6 DEF Hows
    <3>8. after.done
      BY <2>3, <3>7, Zenon DEF Yes
    <3> QED BY <2>1, <3>8, Zenon DEF Asked
  <2>8. how # "error"
    BY <1>5
  <2>9. n >= MinBlock \/ u = L
    BY <1>1, <1>2, <2>8, Zenon
  <2> QED BY <2>5, <2>6, <2>7, <2>9, Zenon
<1>6. AnswerOK(rows, r0, u, a, after)
  <2>1. Ended(rows, r0, u, how, after)
    BY <1>1, Zenon
  <2> QED BY <1>2, <1>5, <2>1, Zenon DEF Ended, AnswerOK
<1> QED BY <1>1, <1>6, Zenon

LEMMA ValRowsConcat ==
    ASSUME NEW rows, NEW i \in Nat, NEW k \in Nat, NEW j \in Nat, i <= k, k <= j
    PROVE  ValRows(rows, i, j) = ValRows(rows, i, k) \o ValRows(rows, k, j)
<1>1. PICK n \in Nat : n = k - i
  OBVIOUS
<1>2. PICK m \in Nat : m = j - k
  OBVIOUS
<1>3. j - i = n + m
  BY <1>1, <1>2
<1>4. PICK f : f = ValRows(rows, i, j)
  OBVIOUS
<1>5. PICK g : g = ValRows(rows, i, k)
  OBVIOUS
<1>6. PICK h : h = ValRows(rows, k, j)
  OBVIOUS
<1>7. /\ f = [x \in 1..(n + m) |-> Value(i + x, rows[i + x])]
      /\ g = [x \in 1..n |-> Value(i + x, rows[i + x])]
      /\ h = [x \in 1..m |-> Value(k + x, rows[k + x])]
  BY <1>1, <1>2, <1>3, <1>4, <1>5, <1>6, Zenon DEF ValRows
<1>8. OnFirst(f, n + m) /\ OnFirst(g, n) /\ OnFirst(h, m)
  BY <1>7 DEF OnFirst
<1>9. ASSUME NEW x \in 1..n PROVE f[x] = g[x]
  <2>1. x \in 1..(n + m)
    OBVIOUS
  <2> QED BY <1>7, <2>1, Zenon
<1>10. ASSUME NEW x \in 1..m PROVE f[n + x] = h[x]
  <2>1. n + x \in 1..(n + m) /\ i + (n + x) = k + x
    BY <1>1
  <2> QED BY <1>7, <2>1, Zenon
<1>11. f = g \o h
  <2>1. Joins(f, g, h, n, m)
    BY <1>8, <1>9, <1>10, Zenon DEF Joins
  <2> QED BY <2>1, ConcatFcn, Zenon
<1> QED BY <1>4, <1>5, <1>6, <1>11, Zenon

LEMMA NoneWaiting ==
    ASSUME NEW rows, NEW r0 \in Nat, NEW m \in Nat, r0 <= m, ValRows(rows, r0, m) = <<>>
    PROVE  m = r0
<1>1. PICK n : n = m - r0
  OBVIOUS
<1>2. Len(ValRows(rows, r0, m)) = n
  BY <1>1, RowCounts
<1>3. Len(<<>>) = 0
  OBVIOUS
<1>4. n = 0
  BY <1>2, <1>3, Zenon
<1> QED BY <1>1, <1>4

\* The query when its waiting rows are handed over.
Emptied(query) == [query EXCEPT !.pending = <<>>]

LEMMA HeldEmptied ==
    ASSUME NEW rows, NEW r0 \in Nat, NEW t, NEW m \in Nat, NEW dn, NEW query,
           query = Held(rows, r0, t, m, dn)
    PROVE  Emptied(query) = Held(rows, m, t, m, dn)
<1>1. PICK none : none = <<>>
  OBVIOUS
<1>2. PICK pa : pa = SubSeq(Encode(rows), Off(rows, m) + 1, t)
  OBVIOUS
<1>3. PICK pe : pe = ValRows(rows, r0, m)
  OBVIOUS
<1>4. query = Qry(Yes, Yes, dn, No, No, pa, pe, none)
  BY <1>1, <1>2, <1>3, Zenon DEF Held
<1>5. Emptied(query) = Qry(Yes, Yes, dn, No, No, pa, none, none)
  BY <1>1, <1>4 DEF Emptied, Qry
<1>6. ValRows(rows, m, m) = none
  BY <1>1, NoRows, Zenon
<1> QED BY <1>1, <1>2, <1>5, <1>6, Zenon DEF Held

\* The waiting rows are handed over: what was delivered and these are the first m rows.
HandsOver(rows, r0, t, m, query) ==
    /\ m \in r0..Len(rows)
    /\ ValRows(rows, 0, r0) \o query.pending = ValRows(rows, 0, m)
    /\ Taken(rows, m, t, Emptied(query))
    /\ query.pending # <<>> => r0 < m
    /\ query.pending = <<>> => m = r0

LEMMA TakeRows ==
    ASSUME NEW rows \in Seq(ResultRows), NEW r0 \in 0..Len(rows), NEW t, NEW query,
           Taken(rows, r0, t, query)
    PROVE  \E m \in r0..Len(rows) : HandsOver(rows, r0, t, m, query)
<1>1. PICK m \in r0..Len(rows), dn \in {Yes, No} :
        /\ InRow(rows, m, t) /\ query = Held(rows, r0, t, m, dn) /\ (dn = Yes => t = Len(Encode(rows)))
  BY Zenon DEF Taken
<1>2. r0 \in Nat /\ m \in Nat /\ r0 <= m /\ 0 <= r0 /\ m <= Len(rows) /\ Len(rows) \in Nat
  OBVIOUS
<1>3. query.pending = ValRows(rows, r0, m)
  <2>1. HeldIs(rows, r0, t, m, dn, query)
    BY <1>1, HeldFields, Zenon
  <2> QED BY <2>1, Zenon DEF HeldIs
<1>4. ValRows(rows, 0, m) = ValRows(rows, 0, r0) \o ValRows(rows, r0, m)
  <2>1. 0 \in Nat /\ r0 \in Nat /\ m \in Nat /\ 0 <= r0 /\ r0 <= m
    BY <1>2
  <2> QED BY <2>1, ValRowsConcat, ZenonT(60)
<1>5. Taken(rows, m, t, Emptied(query))
  <2>1. Emptied(query) = Held(rows, m, t, m, dn)
    BY <1>1, <1>2, HeldEmptied
  <2>2. m \in m..Len(rows)
    BY <1>2
  <2> QED BY <1>1, <2>1, <2>2, Zenon DEF Taken
<1>6. ASSUME query.pending # <<>> PROVE r0 < m
  <2>1. ASSUME m = r0 PROVE FALSE
    <3>1. ValRows(rows, r0, r0) = <<>>
      BY <1>2, NoRows, Zenon
    <3> QED BY <1>3, <1>6, <2>1, <3>1, Zenon
  <2> QED BY <1>2, <2>1
<1>7. ASSUME query.pending = <<>> PROVE m = r0
  <2>1. ValRows(rows, r0, m) = <<>>
    BY <1>3, <1>7, Zenon
  <2> QED BY <1>2, <2>1, NoneWaiting, Zenon
<1>8. HandsOver(rows, r0, t, m, query)
  BY <1>3, <1>4, <1>5, <1>6, <1>7, Zenon DEF HandsOver
<1> QED BY <1>8, Zenon

\* No row waits and the query is not done: it holds part of a row.
LEMMA TakenWaiting ==
    ASSUME NEW rows \in Seq(ResultRows), NEW r0 \in 0..Len(rows), NEW t \in 0..Len(Encode(rows)),
           NEW query, Taken(rows, r0, t, query), query.pending = <<>>, ~query.done
    PROVE  /\ InRow(rows, r0, t) /\ query = Held(rows, r0, t, r0, No)
           /\ Len(query.partial) = t - Off(rows, r0) /\ Len(query.partial) \in Nat
           /\ Len(query.partial) < CaLength + 4
<1>1. PICK m \in r0..Len(rows), dn \in {Yes, No} :
        /\ InRow(rows, m, t) /\ query = Held(rows, r0, t, m, dn) /\ (dn = Yes => t = Len(Encode(rows)))
  BY Zenon DEF Taken
<1>2. r0 \in Nat /\ m \in Nat /\ r0 <= m
  OBVIOUS
<1>3. HeldIs(rows, r0, t, m, dn, query)
  BY <1>1, HeldFields, Zenon
<1>4. m = r0
  <2>1. ValRows(rows, r0, m) = <<>>
    BY <1>3, Zenon DEF HeldIs
  <2> QED BY <1>2, <2>1, NoneWaiting, Zenon
<1>5. dn = No
  <2>1. ASSUME dn = Yes PROVE FALSE
    <3>1. query.done = Yes
      BY <1>3, <2>1, Zenon DEF HeldIs
    <3> QED BY <3>1, Zenon DEF Yes
  <2> QED BY <2>1
<1>6. PICK pa : pa = SubSeq(Encode(rows), Off(rows, m) + 1, t)
  OBVIOUS
<1>7. PartIs(rows, t, m, pa)
  BY <1>1, <1>6, PartialLen, Zenon
<1>8. query.partial = pa
  BY <1>3, <1>6, Zenon DEF HeldIs
<1>9. Len(query.partial) = t - Off(rows, r0) /\ Len(query.partial) \in Nat /\ Len(query.partial) < CaLength + 4
  BY <1>4, <1>7, <1>8, Zenon DEF PartIs
<1> QED BY <1>1, <1>4, <1>5, <1>9, Zenon

\* No row waits and the query is done: all rows were taken.
LEMMA TakenDone ==
    ASSUME NEW rows \in Seq(ResultRows), NEW r0 \in 0..Len(rows), NEW t \in 0..Len(Encode(rows)),
           NEW query, Taken(rows, r0, t, query), query.pending = <<>>, query.done
    PROVE  r0 = Len(rows)
<1>1. PICK m \in r0..Len(rows), dn \in {Yes, No} :
        /\ InRow(rows, m, t) /\ query = Held(rows, r0, t, m, dn) /\ (dn = Yes => t = Len(Encode(rows)))
  BY Zenon DEF Taken
<1>2. r0 \in Nat /\ m \in Nat /\ r0 <= m
  OBVIOUS
<1>3. HeldIs(rows, r0, t, m, dn, query)
  BY <1>1, HeldFields, Zenon
<1>4. m = r0
  <2>1. ValRows(rows, r0, m) = <<>>
    BY <1>3, Zenon DEF HeldIs
  <2> QED BY <1>2, <2>1, NoneWaiting, Zenon
<1>5. dn = Yes
  <2>1. ASSUME dn = No PROVE FALSE
    <3>1. query.done = No
      BY <1>3, <2>1, Zenon DEF HeldIs
    <3> QED BY <3>1, Zenon DEF No
  <2> QED BY <2>1
<1>6. PICK pa : pa = SubSeq(Encode(rows), Off(rows, m) + 1, t)
  OBVIOUS
<1>7. PartIs(rows, t, m, pa)
  BY <1>1, <1>6, PartialLen, Zenon
<1> QED BY <1>1, <1>4, <1>5, <1>7, Zenon DEF PartIs

---------------------------------------------------------------------------
(* The inductive invariant of the row data *)

Fixed ==
    /\ result \in Seq(ResultRows) /\ Len(result) <= MaxRows
    /\ Short(result, q) /\ attempt \in 0..3 /\ batches \in 0..MaxBatches
    /\ status \in {"none", "open", "end", "error", "closed"}

\* The server has sent t bytes of the result, and the consumer has r0 rows.
RowsAt(t, r0) ==
    /\ rest = SubSeq(Encode(result), t + 1, Len(Encode(result)))
    /\ delivered = ValRows(result, 0, r0)
    /\ status = "none" =>
         /\ q = NewQuery /\ r0 = 0 /\ pc \in {"idle", "batch", "open", "lost"}
         /\ (pc # "open" \/ toServer # <<>>) => t = 0
    /\ pc \in {"open", "batch"} => status = "none"
    /\ pc = "fetch" => status = "open" /\ attempt \in 1..3
    /\ status = "open" => pc \in {"idle", "fetch"}
    /\ (pc = "idle" /\ status = "open") => Taken(result, r0, t, q)
    /\ (pc = "fetch" /\ toServer # <<>>) => Waiting(result, r0, t, attempt - 1, q)
    /\ (pc = "open" /\ Replies.ok) => AnswerOK(result, 0, t, 0, ConsumeAll(q, Replies.chain))
    /\ (pc = "fetch" /\ Replies.ok) => AnswerOK(result, r0, t, attempt, ConsumeAll(q, Replies.chain))

RowInv ==
    /\ Fixed
    /\ \E t \in 0..Len(Encode(result)), r0 \in 0..Len(result) : RowsAt(t, r0)

LEMMA RowInvAt ==
    ASSUME result' = result, Fixed', NEW t \in 0..Len(Encode(result)), NEW r0 \in 0..Len(result),
           RowsAt(t, r0)'
    PROVE  RowInv'
BY Zenon DEF RowInv

LEMMA ShortNew == \A rows : Short(rows, NewQuery)
<1>1. PICK none : none = <<>>
  OBVIOUS
<1>2. NewQuery = Qry(FALSE, FALSE, FALSE, FALSE, FALSE, none, none, none)
  BY <1>1 DEF NewQuery, Qry
<1>3. IsQry(NewQuery)
  BY <1>2, Zenon DEF IsQry
<1>4. NewQuery.pending = <<>> /\ NewQuery.partial = <<>>
  BY DEF NewQuery
<1>5. Len(<<>>) < CaLength + 4 /\ 1..Len(<<>>) = {}
  BY DEF CaLength
<1> QED BY <1>3, <1>4, <1>5, Zenon DEF Short

LEMMA ShortEmptied ==
    ASSUME NEW rows, NEW query, Short(rows, query), NEW dn,
           NEW after, after = [query EXCEPT !.pending = <<>>, !.done = dn]
    PROVE  Short(rows, after) /\ after.pending = <<>> /\ Short(rows, Emptied(query))
<1>1. PICK o, d, dn1, f, st, pa, pe, ex : query = Qry(o, d, dn1, f, st, pa, pe, ex)
  BY Zenon DEF Short, IsQry
<1>2. PICK none : none = <<>>
  OBVIOUS
<1>3. PICK z : z = Qry(o, d, dn, f, st, pa, none, ex)
  OBVIOUS
<1>4. PICK y : y = Qry(o, d, dn1, f, st, pa, none, ex)
  OBVIOUS
<1>5. [query EXCEPT !.pending = none] = y
  BY <1>1, <1>4 DEF Qry
<1>6. [y EXCEPT !.done = dn] = z
  BY <1>3, <1>4 DEF Qry
<1>7. [query EXCEPT !.pending = none, !.done = dn] = [y EXCEPT !.done = dn]
  <2>1. [query EXCEPT !.pending = none, !.done = dn] = [[query EXCEPT !.pending = none] EXCEPT !.done = dn]
    BY Zenon
  <2> QED BY <1>5, <2>1, Zenon
<1>8. after = z /\ Emptied(query) = y
  BY <1>2, <1>5, <1>6, <1>7, Zenon DEF Emptied
<1>9. z.pending = none /\ z.partial = pa
  BY <1>3 DEF Qry
<1>10. y.pending = none /\ y.partial = pa
  BY <1>4 DEF Qry
<1>11. query.partial = pa
  BY <1>1 DEF Qry
<1>12. Len(pa) < CaLength + 4
  BY <1>11, Zenon DEF Short
<1>13. 1..Len(<<>>) = {}
  OBVIOUS
<1>14. IsQry(z)
  BY <1>3, Zenon DEF IsQry
<1>15. IsQry(y)
  BY <1>4, Zenon DEF IsQry
<1> QED BY <1>2, <1>8, <1>9, <1>10, <1>12, <1>13, <1>14, <1>15, Zenon DEF Short

LEMMA ExecBatchRows ==
    ASSUME Fixed, WireInv, ExecBatch, NEW t \in 0..Len(Encode(result)), NEW r0 \in 0..Len(result),
           RowsAt(t, r0)
    PROVE  RowInv'
<1>1. /\ pc = "idle" /\ status = "none" /\ batches < MaxBatches /\ batches' = batches + 1
      /\ UNCHANGED <<result, attempt, q, fromServer, rest, delivered, status, cut>>
  BY Zenon DEF ExecBatch
<1>2. pc' \in {"idle", "batch"}
  BY <1>1, Zenon DEF ExecBatch, Flush
<1>3. batches' \in 0..MaxBatches
  BY <1>1, WireAssumption DEF Fixed
<1>4. Fixed'
  BY <1>1, <1>3, Zenon DEF Fixed
<1>5. RowsAt(t, r0)'
  BY <1>1, <1>2, Zenon DEF RowsAt
<1> QED BY <1>1, <1>4, <1>5, RowInvAt, Zenon

LEMMA QueryRows ==
    ASSUME Fixed, WireInv, Query, NEW t \in 0..Len(Encode(result)), NEW r0 \in 0..Len(result),
           RowsAt(t, r0)
    PROVE  RowInv'
<1>1. /\ pc = "idle" /\ status = "none" /\ pc' = "open"
      /\ UNCHANGED <<result, attempt, q, fromServer, rest, batches, delivered, status, cut>>
  BY Zenon DEF Query, Flush
<1>2. ~Replies'.ok
  <2>1. fromServer' = <<>>
    BY <1>1, Zenon DEF WireInv
  <2> QED BY <2>1, EmptyStream, Zenon DEF Replies
<1>3. Fixed'
  BY <1>1, Zenon DEF Fixed
<1>4. RowsAt(t, r0)'
  BY <1>1, <1>2, Zenon DEF RowsAt
<1> QED BY <1>1, <1>3, <1>4, RowInvAt, Zenon

LEMMA BatchDoneRows ==
    ASSUME Fixed, WireInv, BatchDone, NEW t \in 0..Len(Encode(result)), NEW r0 \in 0..Len(result),
           RowsAt(t, r0)
    PROVE  RowInv'
<1>1. /\ pc = "batch" /\ pc' = "idle"
      /\ UNCHANGED <<result, attempt, q, toServer, rest, batches, delivered, status>>
  BY Zenon DEF BatchDone
<1>2. Fixed'
  BY <1>1, Zenon DEF Fixed
<1>3. RowsAt(t, r0)'
  BY <1>1, Zenon DEF RowsAt
<1> QED BY <1>1, <1>2, <1>3, RowInvAt, Zenon

LEMMA ReadFailsRows ==
    ASSUME Fixed, WireInv, ReadFails, NEW t \in 0..Len(Encode(result)), NEW r0 \in 0..Len(result),
           RowsAt(t, r0)
    PROVE  RowInv'
<1>1. /\ pc \in {"batch", "open", "fetch"} /\ pc' = "lost"
      /\ status' = IF pc = "batch" THEN "none" ELSE "error"
      /\ UNCHANGED <<result, attempt, q, toServer, rest, batches, delivered>>
  BY Zenon DEF ReadFails
<1>2. Fixed'
  BY <1>1, Zenon DEF Fixed
<1>3. RowsAt(t, r0)'
  <2>1. CASE pc = "batch"
    <3>1. status = "none" /\ status' = "none" /\ pc # "open"
      BY <1>1, <2>1, Zenon DEF RowsAt
    <3> QED BY <1>1, <3>1, Zenon DEF RowsAt
  <2>2. CASE pc # "batch"
    <3>1. status' = "error"
      BY <1>1, <2>2, Zenon
    <3> QED BY <1>1, <3>1, Zenon DEF RowsAt
  <2> QED BY <2>1, <2>2, Zenon
<1> QED BY <1>1, <1>2, <1>3, RowInvAt, Zenon

LEMMA QueryCloseRows ==
    ASSUME Fixed, WireInv, QueryClose, NEW t \in 0..Len(Encode(result)), NEW r0 \in 0..Len(result),
           RowsAt(t, r0)
    PROVE  RowInv'
<1>1. /\ pc \in {"idle", "lost"} /\ status' = "closed" /\ q' = Emptied(q)
      /\ UNCHANGED <<result, pc, attempt, rest, batches, delivered>>
  BY Zenon DEF QueryClose, Emptied
<1>2. Fixed'
  <2>1. Short(result, q')
    <3>1. Short(result, Emptied(q))
      BY ShortEmptied, Zenon DEF Fixed
    <3> QED BY <1>1, <3>1, Zenon
  <2> QED BY <1>1, <2>1, Zenon DEF Fixed
<1>3. RowsAt(t, r0)'
  BY <1>1, Zenon DEF RowsAt
<1> QED BY <1>1, <1>2, <1>3, RowInvAt, Zenon

LEMMA LinkBreaksRows ==
    ASSUME Fixed, WireInv', LinkBreaks, NEW t \in 0..Len(Encode(result)), NEW r0 \in 0..Len(result),
           RowsAt(t, r0)
    PROVE  RowInv'
<1>1. /\ cut' = TRUE /\ toServer' = <<>>
      /\ UNCHANGED <<result, pc, attempt, q, rest, batches, delivered, status>>
  BY Zenon DEF LinkBreaks
<1>2. ~Replies'.ok
  BY <1>1, Zenon DEF WireInv
<1>3. Fixed'
  BY <1>1, Zenon DEF Fixed
<1>4. RowsAt(t, r0)'
  BY <1>1, <1>2, Zenon DEF RowsAt
<1> QED BY <1>1, <1>3, <1>4, RowInvAt, Zenon

\* CNTQRY is sent for a query that holds part of a row.
LEMMA SendsRows ==
    ASSUME Fixed, NEW t \in 0..Len(Encode(result)), NEW r0 \in 0..Len(result), RowsAt(t, r0),
           status = "open", NEW round \in 1..3, SendCNTQRY(round), fromServer' = <<>>,
           Waiting(result, r0, t, round - 1, q'), Short(result, q'),
           UNCHANGED <<result, rest, batches, delivered, status>>
    PROVE  RowInv'
<1>1. pc' = "fetch" /\ attempt' = round
  BY Zenon DEF SendCNTQRY, Flush
<1>2. ~Replies'.ok
  BY EmptyStream, Zenon DEF Replies
<1>3. attempt' \in 0..3 /\ attempt' \in 1..3
  BY <1>1
<1>4. Fixed'
  BY <1>3, Zenon DEF Fixed
<1>5. RowsAt(t, r0)'
  BY <1>1, <1>2, <1>3, Zenon DEF RowsAt
<1> QED BY <1>4, <1>5, RowInvAt, Zenon

LEMMA WaitingFrom ==
    ASSUME NEW rows \in Seq(ResultRows), NEW r0 \in 0..Len(rows), NEW t \in 0..Len(Encode(rows)),
           NEW query, Taken(rows, r0, t, query), query.pending = <<>>, ~query.done,
           NEW a, a = 0 \/ Len(query.partial) >= a * MinBlock
    PROVE  Waiting(rows, r0, t, a, query)
<1>1. /\ InRow(rows, r0, t) /\ query = Held(rows, r0, t, r0, No)
      /\ Len(query.partial) = t - Off(rows, r0) /\ Len(query.partial) \in Nat
  BY TakenWaiting, Zenon
<1>2. PICK l \in Nat : l = Len(query.partial)
  BY <1>1, Zenon
<1>3. l >= 0 * MinBlock
  BY WireAssumption
<1>4. l >= a * MinBlock
  BY <1>2, <1>3, Zenon
<1> QED BY <1>1, <1>2, <1>4, Zenon DEF Waiting

LEMMA QueryNextRows ==
    ASSUME Fixed, WireInv, QueryNext, NEW t \in 0..Len(Encode(result)), NEW r0 \in 0..Len(result),
           RowsAt(t, r0)
    PROVE  RowInv'
<1>1. /\ pc = "idle" /\ status = "open" /\ UNCHANGED <<result, fromServer, rest, batches, cut>>
  BY Zenon DEF QueryNext
<1>2. result \in Seq(ResultRows) /\ Taken(result, r0, t, q) /\ delivered = ValRows(result, 0, r0)
  BY <1>1, Zenon DEF Fixed, RowsAt
<1>3. CASE /\ q.pending # <<>> /\ delivered' = delivered \o q.pending
           /\ q' = [q EXCEPT !.pending = <<>>] /\ UNCHANGED <<pc, attempt, toServer, status>>
  <2>1. PICK m \in r0..Len(result) : HandsOver(result, r0, t, m, q)
    BY <1>2, TakeRows, Zenon
  <2>2. q' = Emptied(q)
    BY <1>3, Zenon DEF Emptied
  <2>3. Taken(result, m, t, q') /\ delivered' = ValRows(result, 0, m)
    BY <1>2, <1>3, <2>1, <2>2, Zenon DEF HandsOver
  <2>4. Short(result, q')
    <3>1. Short(result, Emptied(q))
      BY ShortEmptied, Zenon DEF Fixed
    <3> QED BY <2>2, <3>1, Zenon
  <2>5. Fixed'
    BY <1>1, <1>3, <2>4, Zenon DEF Fixed
  <2>6. RowsAt(t, m)'
    BY <1>1, <1>3, <2>3, Zenon DEF RowsAt
  <2>7. m \in 0..Len(result)
    OBVIOUS
  <2> QED BY <1>1, <2>5, <2>6, <2>7, RowInvAt, Zenon
<1>4. CASE status' = "end" /\ UNCHANGED <<pc, attempt, q, toServer, delivered>>
  <2>1. Fixed'
    BY <1>1, <1>4, Zenon DEF Fixed
  <2>2. RowsAt(t, r0)'
    BY <1>1, <1>4, Zenon DEF RowsAt
  <2> QED BY <1>1, <2>1, <2>2, RowInvAt, Zenon
<1>5. CASE q.pending = <<>> /\ ~q.done /\ SendCNTQRY(1) /\ UNCHANGED <<q, delivered, status>>
  <2>1. Waiting(result, r0, t, 0, q)
    BY <1>2, <1>5, WaitingFrom, Zenon
  <2>2. Waiting(result, r0, t, 1 - 1, q')
    <3>1. 1 - 1 = 0
      OBVIOUS
    <3> QED BY <1>5, <2>1, <3>1, Zenon
  <2>3. Short(result, q')
    BY <1>5, Zenon DEF Fixed
  <2>4. fromServer' = <<>>
    BY <1>1, Zenon DEF WireInv
  <2>5. 1 \in 1..3
    OBVIOUS
  <2> QED BY <1>1, <1>5, <2>2, <2>3, <2>4, <2>5, SendsRows, Zenon
<1> QED BY <1>3, <1>4, <1>5, Zenon DEF QueryNext

LEMMA OpenedRows ==
    ASSUME Fixed, WireInv, Opened, NEW t \in 0..Len(Encode(result)), NEW r0 \in 0..Len(result),
           RowsAt(t, r0)
    PROVE  RowInv'
<1>1. /\ pc = "open" /\ Replies.ok /\ pc' = "idle" /\ q' = ConsumeAll(q, Replies.chain)
      /\ status' = IF q'.stop \/ q'.failed \/ ~q'.opened THEN "error" ELSE "open"
      /\ UNCHANGED <<result, attempt, toServer, rest, batches, delivered>>
  BY Zenon DEF Opened
<1>2. AnswerOK(result, 0, t, 0, q') /\ r0 = 0
  BY <1>1, Zenon DEF RowsAt
<1>3. Fixed'
  BY <1>1, <1>2, Zenon DEF Fixed, AnswerOK
<1>4. ASSUME status' = "open" PROVE Taken(result, r0, t, q')
  <2>1. ~q'.stop /\ ~q'.failed
    BY <1>1, <1>4
  <2> QED BY <1>2, <2>1, Zenon DEF AnswerOK
<1>5. status' # "none"
  BY <1>1
<1>6. RowsAt(t, r0)'
  BY <1>1, <1>4, <1>5, Zenon DEF RowsAt
<1> QED BY <1>1, <1>3, <1>6, RowInvAt, Zenon

\* Three answers without a row would hold more bytes than a row has.
LEMMA ThirdAnswer ==
    ASSUME ThreeRepliesHoldARow,
           NEW rows \in Seq(ResultRows), NEW r0 \in 0..Len(rows), NEW t \in 0..Len(Encode(rows)),
           NEW query, Taken(rows, r0, t, query), NEW a \in 1..3, Asked(query, a),
           query.pending = <<>>, ~query.done
    PROVE  AskAgain(a)
<1>1. PICK l \in Nat : l = Len(query.partial)
  BY TakenWaiting, Zenon
<1>2. l < CaLength + 4
  BY <1>1, TakenWaiting, Zenon
<1>3. l >= a * MinBlock
  BY <1>1, Zenon DEF Asked
<1>4. ASSUME a = 3 PROVE FALSE
  <2>1. 3 * MinBlock >= CaLength + 4 /\ MinBlock \in Nat
    BY WireAssumption, Zenon DEF ThreeRepliesHoldARow
  <2>2. l >= 3 * MinBlock
    BY <1>3, <1>4, Zenon
  <2> QED BY <1>2, <2>1, <2>2 DEF CaLength
<1> QED BY <1>4 DEF AskAgain

LEMMA TakenDoneType ==
    ASSUME NEW rows, NEW r0, NEW t, NEW query, Taken(rows, r0, t, query)
    PROVE  query.done \in BOOLEAN
<1>1. PICK m \in r0..Len(rows), dn \in {Yes, No} : query = Held(rows, r0, t, m, dn)
  BY Zenon DEF Taken
<1>2. HeldIs(rows, r0, t, m, dn, query)
  BY <1>1, HeldFields, Zenon
<1>3. query.done = dn
  BY <1>2, Zenon DEF HeldIs
<1> QED BY <1>3 DEF Yes, No

LEMMA EmptiedIs ==
    ASSUME NEW query, IsQry(query)
    PROVE  [query EXCEPT !.pending = <<>>, !.done = query.done] = Emptied(query)
<1>1. PICK o, d, dn, f, st, pa, pe, ex : query = Qry(o, d, dn, f, st, pa, pe, ex)
  BY Zenon DEF IsQry
<1>2. PICK none : none = <<>>
  OBVIOUS
<1>3. PICK y : y = Qry(o, d, dn, f, st, pa, none, ex)
  OBVIOUS
<1>4. [query EXCEPT !.pending = none] = y
  BY <1>1, <1>3 DEF Qry
<1>5. [y EXCEPT !.done = dn] = y
  BY <1>3 DEF Qry
<1>6. query.done = dn
  BY <1>1 DEF Qry
<1>7. [query EXCEPT !.pending = none, !.done = dn] = [[query EXCEPT !.pending = none] EXCEPT !.done = dn]
  BY Zenon
<1> QED BY <1>2, <1>4, <1>5, <1>6, <1>7, Zenon DEF Emptied

LEMMA FetchedRows ==
    ASSUME Fixed, WireInv, Fetched, NEW t \in 0..Len(Encode(result)), NEW r0 \in 0..Len(result),
           RowsAt(t, r0)
    PROVE  RowInv'
<1>1. PICK after : after = ConsumeAll(q, Replies.chain)
  OBVIOUS
<1>2. /\ pc = "fetch" /\ Replies.ok /\ fromServer' = Replies.rest
      /\ UNCHANGED <<result, rest, batches, cut>>
  BY Zenon DEF Fetched
<1>3. /\ status = "open" /\ attempt \in 1..3 /\ AnswerOK(result, r0, t, attempt, after)
      /\ delivered = ValRows(result, 0, r0) /\ result \in Seq(ResultRows)
  BY <1>1, <1>2, Zenon DEF RowsAt, Fixed
<1>4. Short(result, after)
  BY <1>3, Zenon DEF AnswerOK
<1>5. CASE q' = after /\ pc' = "idle" /\ status' = "error" /\ UNCHANGED <<attempt, toServer, delivered>>
  <2>1. Fixed'
    BY <1>2, <1>4, <1>5, Zenon DEF Fixed
  <2>2. RowsAt(t, r0)'
    BY <1>2, <1>5, Zenon DEF RowsAt
  <2> QED BY <1>2, <2>1, <2>2, RowInvAt, Zenon
<1>6. CASE /\ ~after.stop /\ ~after.failed /\ after.pending = <<>> /\ ~after.done /\ AskAgain(attempt)
           /\ q' = after /\ SendCNTQRY(attempt + 1) /\ UNCHANGED <<delivered, status>>
  <2>1. Taken(result, r0, t, after) /\ Asked(after, attempt)
    BY <1>3, <1>6, Zenon DEF AnswerOK
  <2>2. Len(after.partial) >= attempt * MinBlock
    BY <1>6, <2>1, Zenon DEF Asked
  <2>3. Waiting(result, r0, t, attempt, q')
    BY <1>3, <1>6, <2>1, <2>2, WaitingFrom, Zenon
  <2>4. PICK round \in 1..3 : round = attempt + 1 /\ round - 1 = attempt
    BY <1>3, <1>6 DEF AskAgain
  <2>5. fromServer' = <<>>
    BY <1>2, Ready, Zenon
  <2>6. Waiting(result, r0, t, round - 1, q') /\ SendCNTQRY(round) /\ Short(result, q')
    BY <1>4, <1>6, <2>3, <2>4, Zenon
  <2> QED BY <1>2, <1>3, <1>6, <2>5, <2>6, SendsRows, Zenon
<1>7. CASE /\ ~after.stop /\ ~after.failed
           /\ after.pending # <<>> \/ after.done \/ ~AskAgain(attempt)
           /\ delivered' = delivered \o after.pending
           /\ q' = [after EXCEPT !.pending = <<>>, !.done = @ \/ after.pending = <<>>]
           /\ status' = IF after.pending = <<>> THEN "end" ELSE status
           /\ pc' = "idle"
           /\ UNCHANGED <<attempt, toServer>>
  <2>1. Taken(result, r0, t, after)
    BY <1>3, <1>7, Zenon DEF AnswerOK
  <2>2. PICK m \in r0..Len(result) : HandsOver(result, r0, t, m, after)
    BY <1>3, <2>1, TakeRows, Zenon
  <2>3. delivered' = ValRows(result, 0, m) /\ m \in 0..Len(result)
    <3>1. m \in 0..Len(result)
      OBVIOUS
    <3> QED BY <1>3, <1>7, <2>2, <3>1, Zenon DEF HandsOver
  <2>4. PICK dn : dn = (after.done \/ after.pending = <<>>)
    OBVIOUS
  <2>5. q' = [after EXCEPT !.pending = <<>>, !.done = dn]
    BY <1>7, <2>4
  <2>6. Short(result, q')
    BY <1>4, <2>5, ShortEmptied, Zenon
  <2>7. Fixed'
    <3>1. status' \in {"open", "end"}
      BY <1>3, <1>7
    <3> QED BY <1>2, <1>7, <2>6, <3>1, Zenon DEF Fixed
  <2>8. CASE after.pending = <<>>
    <3>1. status' = "end"
      BY <1>7, <2>8, Zenon
    <3>2. RowsAt(t, m)'
      BY <1>2, <1>7, <2>3, <3>1, Zenon DEF RowsAt
    <3> QED BY <1>2, <2>3, <2>7, <3>2, RowInvAt, Zenon
  <2>9. CASE after.pending # <<>>
    <3>1. status' = "open"
      BY <1>3, <1>7, <2>9, Zenon
    <3>2. dn = after.done
      <4>1. after.done \in BOOLEAN
        BY <2>1, TakenDoneType, Zenon
      <4> QED BY <2>4, <2>9, <4>1
    <3>3. q' = Emptied(after)
      <4>1. IsQry(after)
        BY <1>4, Zenon DEF Short
      <4>2. [after EXCEPT !.pending = <<>>, !.done = after.done] = Emptied(after)
        BY <4>1, EmptiedIs
      <4> QED BY <2>5, <3>2, <4>2, Zenon
    <3>4. Taken(result, m, t, q')
      BY <2>2, <3>3, Zenon DEF HandsOver
    <3>5. RowsAt(t, m)'
      BY <1>2, <1>7, <2>3, <3>1, <3>4, Zenon DEF RowsAt
    <3> QED BY <1>2, <2>3, <2>7, <3>5, RowInvAt, Zenon
  <2> QED BY <2>8, <2>9, Zenon
<1> QED BY <1>1, <1>5, <1>6, <1>7, Zenon DEF Fetched

\* What is left of the result after n more bytes, and where they end.
LEMMA RestAfter ==
    ASSUME NEW rows \in Seq(ResultRows), NEW t \in 0..Len(Encode(rows)),
           rest = SubSeq(Encode(rows), t + 1, Len(Encode(rows))), NEW n \in 0..Len(rest),
           NEW how, how \in {"end", "eod"} => n = Len(rest),
           how = "short" => n > 0 /\ SubSeq(rest, 1, n)[n].part \notin {"null", "ref"}
    PROVE  /\ n \in Nat /\ t \in Nat /\ t + n \in 0..Len(Encode(rows))
           /\ SubSeq(rest, n + 1, Len(rest)) = SubSeq(Encode(rows), (t + n) + 1, Len(Encode(rows)))
           /\ n = Len(rest) <=> t + n = Len(Encode(rows))
           /\ EndsAt(rows, t + n, how)
<1>1. PICK E \in Seq(WireByte) : E = Encode(rows)
  BY EncodedType, Zenon
<1>2. PICK L \in Nat : L = Len(E)
  OBVIOUS
<1>3. t \in Nat /\ t <= L /\ L <= L
  <2>1. t \in 0..L
    BY <1>1, <1>2, Zenon
  <2> QED BY <2>1
<1>4. rest = SubSeq(E, t + 1, L)
  BY <1>1, <1>2, Zenon
<1>5. rest \in Seq(WireByte) /\ Len(rest) = L - t /\ \A k \in 1..(L - t) : rest[k] = E[t + k]
  BY <1>2, <1>3, <1>4, SubSeqType
<1>6. PICK l \in Nat : l = L - t /\ l = Len(rest) /\ t + l = L
  <2>1. PICK l \in Nat : l = L - t /\ t + l = L
    BY <1>3
  <2> QED BY <1>5, <2>1, Zenon
<1>7. n \in Nat /\ n <= l /\ l <= L - t /\ t + n \in 0..L /\ (n = l <=> t + n = L)
  <2>1. n \in 0..l
    BY <1>6, Zenon
  <2>2. l = L - t /\ t + l = L
    BY <1>6, Zenon
  <2> QED BY <1>3, <2>1, <2>2
<1>8. SubSeq(rest, n + 1, l) = SubSeq(E, (t + n) + 1, L)
  <2>1. SubSeq(SubSeq(E, t + 1, L), n + 1, l) = SubSeq(E, (t + n) + 1, t + l)
    BY <1>2, <1>3, <1>7, SubOfSub
  <2> QED BY <1>4, <1>6, <2>1, Zenon
<1>9. ASSUME how = "short" PROVE t + n > 0 /\ E[t + n].part \notin {"null", "ref"}
  <2>1. n > 0 /\ SubSeq(rest, 1, n)[n].part \notin {"null", "ref"}
    BY <1>9, Zenon
  <2>2. n \in 1..l
    BY <1>7, <2>1
  <2>3. SubSeq(rest, 0 + 1, n)[n] = rest[0 + n]
    <3>1. 0 \in Nat /\ 0 <= n /\ n \in 1..(n - 0)
      BY <1>7, <2>2
    <3>2. n <= Len(rest)
      BY <1>6, <1>7, Zenon
    <3>3. \A k \in 1..(n - 0) : SubSeq(rest, 0 + 1, n)[k] = rest[0 + k]
      BY <1>5, <1>7, <3>1, <3>2, SubSeqType
    <3> QED BY <3>1, <3>3, Zenon
  <2>4. 0 + 1 = 1 /\ 0 + n = n
    BY <1>7
  <2>5. rest[n] = E[t + n]
    BY <1>5, <1>6, <2>2, Zenon
  <2>6. E[t + n].part \notin {"null", "ref"}
    BY <2>1, <2>3, <2>4, <2>5, Zenon
  <2>7. t + n > 0
    BY <1>3, <1>7, <2>1
  <2> QED BY <2>6, <2>7, Zenon
<1>10. ASSUME how \in {"end", "eod"} PROVE t + n = L
  BY <1>6, <1>7, <1>10, Zenon
<1>11. EndsAt(rows, t + n, how)
  BY <1>1, <1>2, <1>9, <1>10, Zenon DEF EndsAt
<1> QED BY <1>1, <1>2, <1>3, <1>6, <1>7, <1>8, <1>11, Zenon

\* An answer to OPNQRY or CNTQRY carries on where the last one stopped.
LEMMA AnswerRows ==
    ASSUME Fixed, WireInv, NEW t \in 0..Len(Encode(result)), NEW r0 \in 0..Len(result),
           RowsAt(t, r0), WireTypes, toServer # <<>>, pc \in {"open", "fetch"},
           NEW n \in 0..Len(rest), NEW size \in BlockSizes, NEW how \in Hows,
           n >= MinBlock \/ n = Len(rest) \/ pc = "open" \/ how = "error",
           how = "more" => pc = "open" \/ n > 0,
           how \in {"end", "eod"} => n = Len(rest),
           how = "short" => /\ n # Len(rest) /\ n > 0
                            /\ SubSeq(rest, 1, n)[n].part \notin {"null", "ref"},
           NEW objects, objects = AnswerHead(pc) \o Blocks(n, size) \o AnswerEnd(how)
    PROVE  /\ t + n \in 0..Len(Encode(result))
           /\ SubSeq(rest, n + 1, Len(rest)) = SubSeq(Encode(result), (t + n) + 1, Len(Encode(result)))
           /\ pc = "open" => AnswerOK(result, 0, t + n, 0, ConsumeAll(q, Messages(objects)))
           /\ pc = "fetch" => AnswerOK(result, r0, t + n, attempt, ConsumeAll(q, Messages(objects)))
<1>1. /\ result \in Seq(ResultRows) /\ rest = SubSeq(Encode(result), t + 1, Len(Encode(result)))
      /\ pc = "open" => status = "none"
      /\ status = "none" => q = NewQuery /\ r0 = 0 /\ t = 0
      /\ pc = "fetch" => attempt \in 1..3 /\ Waiting(result, r0, t, attempt - 1, q)
  BY Zenon DEF Fixed, RowsAt
<1>2. /\ n \in Nat /\ t \in Nat /\ t + n \in 0..Len(Encode(result))
      /\ SubSeq(rest, n + 1, Len(rest)) = SubSeq(Encode(result), (t + n) + 1, Len(Encode(result)))
      /\ n = Len(rest) <=> t + n = Len(Encode(result))
      /\ EndsAt(result, t + n, how)
  BY <1>1, RestAfter
<1>3. size \in Nat /\ size > 0
  <2>1. rest \in Seq(WireByte)
    BY Zenon DEF WireTypes
  <2> QED BY <2>1, AnswerObjects, Zenon
<1>4. Got(result, r0, t, t, ConEnd(q, AnswerHead(pc)))
  <2>1. CASE pc = "open"
    <3>1. q = NewQuery /\ r0 = 0 /\ t = 0
      BY <1>1, <2>1, Zenon
    <3>2. Got(result, 0, 0, 0, ConEnd(q, AnswerHead("open")))
      BY <1>1, <3>1, HeadOpen, Zenon
    <3> QED BY <2>1, <3>1, <3>2, Zenon
  <2>2. CASE pc = "fetch"
    <3>1. InRow(result, r0, t) /\ q = Held(result, r0, t, r0, No)
      BY <1>1, <2>2, Zenon DEF Waiting
    <3>2. Got(result, r0, t, t, ConEnd(q, AnswerHead("fetch")))
      BY <1>1, <3>1, HeadFetch, Zenon
    <3> QED BY <2>2, <3>2, Zenon
  <2> QED BY <2>1, <2>2
<1>5. PICK after : after = ConsumeAll(q, Messages(objects))
  OBVIOUS
<1>6. Ended(result, r0, t + n, how, after)
  <2>1. Ended(result, r0, t + n, how, ConsumeAll(q, Messages(objects)))
    BY <1>1, <1>2, <1>3, <1>4, WholeAnswer
  <2> QED BY <1>5, <2>1, Zenon
<1>7. ASSUME pc = "open" PROVE AnswerOK(result, 0, t + n, 0, after)
  <2>1. r0 = 0
    BY <1>1, <1>7, Zenon
  <2>2. Ended(result, 0, t + n, how, after)
    BY <1>6, <2>1, Zenon
  <2> QED BY <1>1, <1>2, <2>2, OpenAnswer
<1>8. ASSUME pc = "fetch" PROVE AnswerOK(result, r0, t + n, attempt, after)
  <2>1. InRow(result, r0, t) /\ t - Off(result, r0) >= (attempt - 1) * MinBlock /\ attempt \in 1..3
    BY <1>1, <1>8, Zenon DEF Waiting
  <2>2. pc # "open"
    BY <1>8
  <2>3. n >= MinBlock \/ t + n = Len(Encode(result)) \/ how = "error"
    BY <1>2, <2>2, Zenon
  <2>4. (how = "more" => n > 0) /\ (how = "short" => t + n # Len(Encode(result)))
    BY <1>2, <2>2, Zenon
  <2>5. PICK a \in 1..3 : a = attempt
    BY <2>1, Zenon
  <2>6. t - Off(result, r0) >= (a - 1) * MinBlock
    BY <2>1, <2>5, Zenon
  <2>7. AnswerOK(result, r0, t + n, a, after)
    BY <1>1, <1>2, <1>6, <2>1, <2>3, <2>4, <2>6, FetchAnswer
  <2> QED BY <2>5, <2>7, Zenon
<1> QED BY <1>2, <1>5, <1>7, <1>8, Zenon

LEMMA ServeRows ==
    ASSUME Fixed, WireInv, WireTypes, Serve, NEW t \in 0..Len(Encode(result)),
           NEW r0 \in 0..Len(result), RowsAt(t, r0)
    PROVE  RowInv'
<1>1. /\ toServer # <<>> /\ toServer' = Took.rest
      /\ UNCHANGED <<result, pc, attempt, q, batches, delivered, status>>
  BY Zenon DEF Serve
<1>2. fromServer = <<>> /\ toServer' = <<>>
  <2>1. Took = [ok |-> TRUE, chain |-> meant, rest |-> <<>>]
    BY <1>1, Zenon DEF WireInv
  <2>2. Took.rest = <<>>
    BY <2>1
  <2> QED BY <1>1, <2>2, Zenon DEF WireInv
<1>3. Fixed'
  BY <1>1, Zenon DEF Fixed
<1>4. CASE pc = "batch" /\ UNCHANGED rest
  <2>1. RowsAt(t, r0)'
    BY <1>1, <1>2, <1>4, Zenon DEF RowsAt
  <2> QED BY <1>1, <1>3, <2>1, RowInvAt, Zenon
<1>5. ASSUME pc \in {"open", "fetch"}, NEW n \in 0..Len(rest), NEW size \in BlockSizes, NEW how \in Hows,
             n >= MinBlock \/ n = Len(rest) \/ pc = "open" \/ how = "error",
             how = "more" => pc = "open" \/ n > 0,
             how \in {"end", "eod"} => n = Len(rest),
             how = "short" => /\ n # Len(rest) /\ n > 0
                              /\ SubSeq(rest, 1, n)[n].part \notin {"null", "ref"},
             rest' = SubSeq(rest, n + 1, Len(rest)),
             Send(AnswerHead(pc) \o Blocks(n, size) \o AnswerEnd(how))
      PROVE  RowInv'
  <2>1. PICK objects : objects = AnswerHead(pc) \o Blocks(n, size) \o AnswerEnd(how)
    OBVIOUS
  <2>2. objects \in Seq(Objs) /\ Len(objects) > 0 /\ Send(objects)
    <3>1. rest \in Seq(WireByte)
      BY Zenon DEF WireTypes
    <3>2. objects \in Seq(Objs) /\ Len(objects) > 0
      BY <1>5, <2>1, <3>1, AnswerObjects, Zenon
    <3> QED BY <1>5, <2>1, <3>2, Zenon
  <2>3. Replies' = [ok |-> TRUE, chain |-> Messages(objects), rest |-> <<>>]
    BY <1>2, <2>2, Answered, Zenon
  <2>4. Replies'.chain = Messages(objects)
    BY <2>3
  <2>5. PICK u : u = t + n
    OBVIOUS
  <2>6. /\ t + n \in 0..Len(Encode(result))
        /\ SubSeq(rest, n + 1, Len(rest)) = SubSeq(Encode(result), (t + n) + 1, Len(Encode(result)))
        /\ pc = "open" => AnswerOK(result, 0, t + n, 0, ConsumeAll(q, Messages(objects)))
        /\ pc = "fetch" => AnswerOK(result, r0, t + n, attempt, ConsumeAll(q, Messages(objects)))
    BY <1>1, <1>5, <2>1, AnswerRows
  <2>7. u \in 0..Len(Encode(result)) /\ rest' = SubSeq(Encode(result), u + 1, Len(Encode(result)))
    BY <1>5, <2>5, <2>6, Zenon
  <2>8. /\ pc' = "open" => AnswerOK(result', 0, u, 0, ConsumeAll(q', Replies'.chain))
        /\ pc' = "fetch" => AnswerOK(result', r0, u, attempt', ConsumeAll(q', Replies'.chain))
    BY <1>1, <2>4, <2>5, <2>6, Zenon
  <2>9. pc' # "idle" /\ pc' # "batch"
    BY <1>1, <1>5
  <2>10. status' = "none" => pc' = "open"
    BY <1>1, <1>5, Zenon DEF RowsAt
  <2>11. RowsAt(u, r0)'
    BY <1>1, <1>2, <2>7, <2>8, <2>9, <2>10, Zenon DEF RowsAt
  <2> QED BY <1>1, <1>3, <2>7, <2>11, RowInvAt, Zenon
<1> QED BY <1>4, <1>5 DEF Serve, Hows

LEMMA SubSeqAll ==
    ASSUME NEW B, NEW s \in Seq(B)
    PROVE  SubSeq(s, 0 + 1, Len(s)) = s
<1>1. PICK z : z = SubSeq(s, 0 + 1, Len(s))
  OBVIOUS
<1>2. PICK n \in Nat : n = Len(s) /\ n - 0 = n /\ 0 \in Nat /\ 0 <= n /\ n <= n
  OBVIOUS
<1>3. z \in Seq(B) /\ Len(z) = n - 0 /\ \A k \in 1..(n - 0) : z[k] = s[0 + k]
  BY <1>1, <1>2, SubSeqType
<1>4. ASSUME NEW x \in 1..Len(z) PROVE z[x] = s[x]
  <2>1. x \in 1..n
    BY <1>2, <1>3, <1>4, Zenon
  <2>2. 0 + x = x
    BY <2>1
  <2> QED BY <1>2, <1>3, <2>1, <2>2, Zenon
<1>5. Len(z) = Len(s)
  BY <1>2, <1>3, Zenon
<1> QED BY <1>1, <1>3, <1>4, <1>5, SeqEq, Zenon

LEMMA InitRows == Init => RowInv
<1> SUFFICES ASSUME Init PROVE RowInv
  OBVIOUS
<1>1. /\ rest = Encode(result) /\ pc = "idle" /\ attempt = 0 /\ q = NewQuery /\ toServer = <<>>
      /\ fromServer = <<>> /\ batches = 0 /\ delivered = <<>> /\ status = "none"
  BY Zenon DEF Init
<1>2. result \in Seq(ResultRows) /\ Len(result) \in Nat /\ Len(result) <= MaxRows
  BY ResultType, Zenon
<1>3. attempt \in 0..3 /\ batches \in 0..MaxBatches
  BY <1>1, WireAssumption
<1>4. Fixed
  BY <1>1, <1>2, <1>3, ShortNew, Zenon DEF Fixed
<1>5. 0 \in 0..Len(result) /\ 0 \in 0..Len(Encode(result)) /\ 0 \in Nat
  <2>1. Encode(result) \in Seq(WireByte)
    BY <1>2, EncodedType, Zenon
  <2>2. Len(Encode(result)) \in Nat
    BY <2>1
  <2> QED BY <1>2, <2>2
<1>6. rest = SubSeq(Encode(result), 0 + 1, Len(Encode(result)))
  <2>1. Encode(result) \in Seq(WireByte)
    BY <1>2, EncodedType, Zenon
  <2> QED BY <1>1, <2>1, SubSeqAll, Zenon
<1>7. delivered = ValRows(result, 0, 0)
  BY <1>1, <1>5, NoRows, Zenon
<1>8. RowsAt(0, 0)
  BY <1>1, <1>6, <1>7, Zenon DEF RowsAt
<1> QED BY <1>4, <1>5, <1>8, Zenon DEF RowInv

LEMMA NextRows == RowInv /\ WireInv /\ WireTypes /\ WireInv' /\ [Next]_vars => RowInv'
<1> SUFFICES ASSUME RowInv, WireInv, WireTypes, WireInv', [Next]_vars PROVE RowInv'
  OBVIOUS
<1>1. Fixed
  BY Zenon DEF RowInv
<1>2. PICK t \in 0..Len(Encode(result)), r0 \in 0..Len(result) : RowsAt(t, r0)
  BY Zenon DEF RowInv
<1>3. CASE QueryNext
  BY <1>1, <1>2, <1>3, QueryNextRows, Zenon
<1>4. CASE QueryClose
  BY <1>1, <1>2, <1>4, QueryCloseRows, Zenon
<1>5. CASE ExecBatch
  BY <1>1, <1>2, <1>5, ExecBatchRows, Zenon
<1>6. CASE Query
  BY <1>1, <1>2, <1>6, QueryRows, Zenon
<1>7. CASE BatchDone
  BY <1>1, <1>2, <1>7, BatchDoneRows, Zenon
<1>8. CASE Opened
  BY <1>1, <1>2, <1>8, OpenedRows, Zenon
<1>9. CASE Fetched
  BY <1>1, <1>2, <1>9, FetchedRows, Zenon
<1>10. CASE ReadFails
  BY <1>1, <1>2, <1>10, ReadFailsRows, Zenon
<1>11. CASE Serve
  BY <1>1, <1>2, <1>11, ServeRows, Zenon
<1>12. CASE LinkBreaks
  BY <1>1, <1>2, <1>12, LinkBreaksRows, Zenon
<1>13. CASE UNCHANGED vars
  <2>1. UNCHANGED <<result, pc, attempt, q, toServer, fromServer, rest, batches, delivered, status>>
    BY <1>13, Zenon DEF vars
  <2>2. Replies' = Replies
    BY <2>1, Zenon DEF Replies
  <2>3. Fixed'
    BY <1>1, <2>1, Zenon DEF Fixed
  <2>4. RowsAt(t, r0)'
    BY <1>2, <2>1, <2>2, Zenon DEF RowsAt
  <2> QED BY <2>1, <2>3, <2>4, RowInvAt, Zenon
<1> QED BY <1>3, <1>4, <1>5, <1>6, <1>7, <1>8, <1>9, <1>10, <1>11, <1>12, <1>13, Zenon DEF Next

LEMMA WireAndRows == Spec => [](WireInv /\ WireTypes /\ RowInv)
<1>1. Init => WireInv /\ WireTypes /\ RowInv
  BY InitWire, InitRows, Zenon
<1>2. WireInv /\ WireTypes /\ RowInv /\ [Next]_vars => WireInv' /\ WireTypes' /\ RowInv'
  BY NextWire, NextRows, Zenon
<1> QED BY <1>1, <1>2, PTL DEF Spec

\* Between the calls of a query and inside them, its fields have their types, and the bytes
\* carried over from one block to the next are less than a row.
THEOREM WireTypeCorrect == Spec => []TypeOK
<1>1. WireInv /\ RowInv => TypeOK
  BY Zenon DEF WireInv, RowInv, Fixed, Short, TypeOK
<1> QED BY <1>1, WireAndRows, PTL

---------------------------------------------------------------------------
(* No byte of the result is lost *)

\* The bytes of row k.
LEMMA RowBytes ==
    ASSUME NEW rows \in Seq(ResultRows), NEW k \in 1..Len(rows)
    PROVE  EncodedRows(rows)[k] = SubSeq(Encode(rows), Off(rows, k - 1) + 1, Off(rows, k))
<1>1. PICK E \in Seq(WireByte) : E = Encode(rows)
  BY EncodedType, Zenon
<1>2. PICK e : e = EncodedRows(rows)[k]
  OBVIOUS
<1>3. /\ Off(rows, k) = Off(rows, k - 1) + RowLen(rows[k])
      /\ Off(rows, k) \in Nat /\ Off(rows, k - 1) \in Nat
      /\ rows[k] \in ResultRows /\ RowShape(k, rows[k], EncodedRows(rows)[k])
  BY OffNext, Zenon
<1>4. PICK a \in Nat : a = Off(rows, k - 1)
  BY <1>3, Zenon
<1>5. PICK b \in Nat : b = Off(rows, k)
  BY <1>3, Zenon
<1>6. PICK l \in Nat : l = RowLen(rows[k]) /\ b = a + l
  <2>1. RowLen(rows[k]) \in Nat
    BY <1>3, RowLens, Zenon
  <2> QED BY <1>3, <1>4, <1>5, <2>1, Zenon
<1>7. e \in Seq(WireByte) /\ Len(e) = l
  BY <1>2, <1>3, <1>6, Zenon DEF RowShape
<1>8. b <= Len(E)
  <2>1. Off(rows, k) <= Off(rows, Len(rows))
    <3>1. k \in 0..Len(rows) /\ Len(rows) \in 0..Len(rows) /\ k <= Len(rows)
      OBVIOUS
    <3> QED BY <3>1, OffMono, Zenon
  <2>2. Off(rows, Len(rows)) = Len(Encode(rows))
    BY OffEnds, Zenon
  <2> QED BY <1>1, <1>5, <2>1, <2>2, Zenon
<1>9. PICK z : z = SubSeq(E, a + 1, b)
  OBVIOUS
<1>10. a <= b /\ b - a = l
  BY <1>6
<1>11. z \in Seq(WireByte) /\ Len(z) = b - a /\ \A x \in 1..(b - a) : z[x] = E[a + x]
  BY <1>8, <1>9, <1>10, SubSeqType
<1>12. ASSUME NEW x \in 1..Len(e) PROVE e[x] = z[x]
  <2>1. x \in 1..RowLen(rows[k]) /\ x \in 1..(b - a)
    BY <1>6, <1>7, <1>10, Zenon
  <2>2. Encode(rows)[Off(rows, k - 1) + x] = EncodedRows(rows)[k][x]
    BY <2>1, ByteAt, Zenon
  <2> QED BY <1>1, <1>2, <1>4, <1>11, <2>1, <2>2, Zenon
<1>13. Len(e) = Len(z)
  BY <1>7, <1>10, <1>11, Zenon
<1>14. e = z
  BY <1>7, <1>11, <1>12, <1>13, SeqEq, Zenon
<1> QED BY <1>1, <1>2, <1>4, <1>5, <1>9, <1>14, Zenon

\* The first k rows end where the bytes of row k end.
LEMMA RowsBytes ==
    ASSUME NEW rows \in Seq(ResultRows), NEW k \in 0..Len(rows)
    PROVE  Cat(EncodedRows(rows))[k] = SubSeq(Encode(rows), 0 + 1, Off(rows, k))
<1> DEFINE S == {n \in Nat : n <= Len(rows) =>
                   Cat(EncodedRows(rows))[n] = SubSeq(Encode(rows), 0 + 1, Off(rows, n))}
<1>0. EncodedRows(rows) \in Seq(Seq(WireByte)) /\ Len(EncodedRows(rows)) = Len(rows)
  BY EncodedType, Zenon
<1>1. ASSUME NEW n \in Nat, \A m \in Nat : m < n => m \in S
      PROVE  n \in S
  <2> SUFFICES ASSUME n <= Len(rows)
               PROVE  Cat(EncodedRows(rows))[n] = SubSeq(Encode(rows), 0 + 1, Off(rows, n))
    OBVIOUS
  <2>0. PICK E \in Seq(WireByte) : E = Encode(rows)
    BY EncodedType, Zenon
  <2>1. CASE n = 0
    <3>1. Cat(EncodedRows(rows))[0] = <<>>
      BY <1>0, CatEmpty, Zenon
    <3>2. Off(rows, 0) = 0
      BY OffEnds, Zenon
    <3>3. 0 \in Nat /\ 0 <= Len(E)
      OBVIOUS
    <3>4. SubSeq(E, 0 + 1, 0) = <<>>
      BY <3>3, SubSeqNone, Zenon
    <3> QED BY <2>0, <2>1, <3>1, <3>2, <3>4, Zenon
  <2>2. CASE n # 0
    <3>1. n - 1 \in Nat /\ n - 1 < n /\ n - 1 <= Len(rows) /\ n \in 1..Len(rows)
      BY <2>2
    <3>2. Cat(EncodedRows(rows))[n - 1] = SubSeq(E, 0 + 1, Off(rows, n - 1))
      <4>1. n - 1 \in S
        BY <1>1, <3>1, Zenon
      <4> QED BY <2>0, <3>1, <4>1, Zenon
    <3>3. Cat(EncodedRows(rows))[n] = Cat(EncodedRows(rows))[n - 1] \o EncodedRows(rows)[n]
      <4>1. n \in 1..Len(EncodedRows(rows))
        BY <1>0, <3>1, Zenon
      <4> QED BY <1>0, <4>1, CatNext, Zenon
    <3>4. EncodedRows(rows)[n] = SubSeq(E, Off(rows, n - 1) + 1, Off(rows, n))
      <4>1. EncodedRows(rows)[n] = SubSeq(Encode(rows), Off(rows, n - 1) + 1, Off(rows, n))
        BY <3>1, RowBytes
      <4> QED BY <2>0, <4>1, Zenon
    <3>5. n - 1 \in 0..Len(rows) /\ n \in 0..Len(rows) /\ Len(rows) \in 0..Len(rows)
          /\ n - 1 <= n /\ n <= Len(rows)
      BY <3>1
    <3>6. Off(rows, n - 1) \in Nat /\ Off(rows, n) \in Nat
      BY <3>5, OffType, Zenon
    <3>7. PICK a \in Nat : a = Off(rows, n - 1)
      BY <3>6, Zenon
    <3>8. PICK b \in Nat : b = Off(rows, n)
      BY <3>6, Zenon
    <3>9. a <= b
      <4>1. Off(rows, n - 1) <= Off(rows, n)
        BY <3>5, OffMono, Zenon
      <4> QED BY <3>7, <3>8, <4>1, Zenon
    <3>10. b <= Len(E)
      <4>1. Off(rows, n) <= Off(rows, Len(rows))
        BY <3>5, OffMono, Zenon
      <4>2. Off(rows, Len(rows)) = Len(Encode(rows))
        BY OffEnds, Zenon
      <4> QED BY <2>0, <3>8, <4>1, <4>2, Zenon
    <3>11. SubSeq(E, 0 + 1, a) \o SubSeq(E, a + 1, b) = SubSeq(E, 0 + 1, b)
      <4>1. 0 \in Nat /\ 0 <= a
        OBVIOUS
      <4> QED BY <3>9, <3>10, <4>1, SubSeqConcat, Zenon
    <3> QED BY <2>0, <3>2, <3>3, <3>4, <3>7, <3>8, <3>11, Zenon
  <2> QED BY <2>1, <2>2, Zenon
<1>2. k \in Nat /\ k <= Len(rows)
  OBVIOUS
<1>3. k \in S
  <2> HIDE DEF S
  <2> QED BY <1>1, <1>2, Induction
<1> QED BY <1>2, <1>3, Zenon

\* Encoding the first m rows gives the first bytes of the encoding of all.
LEMMA EncodePrefix ==
    ASSUME NEW rows \in Seq(ResultRows), NEW m \in 0..Len(rows)
    PROVE  Encode(SubSeq(rows, 1, m)) = SubSeq(Encode(rows), 0 + 1, Off(rows, m))
<1>1. PICK part : part = SubSeq(rows, 1, m)
  OBVIOUS
<1>2. part \in Seq(ResultRows) /\ Len(part) = m /\ \A i \in 1..m : part[i] = rows[i]
  BY <1>1
<1>3. /\ EncodedRows(part) \in Seq(Seq(WireByte)) /\ Len(EncodedRows(part)) = m
      /\ Encode(part) = Cat(EncodedRows(part))[m]
  BY <1>2, EncodedType, Zenon
<1>4. EncodedRows(rows) \in Seq(Seq(WireByte)) /\ Len(EncodedRows(rows)) = Len(rows)
  BY EncodedType, Zenon
<1>5. ASSUME NEW i \in 1..m PROVE EncodedRows(part)[i] = EncodedRows(rows)[i]
  <2>1. i \in 1..Len(part) /\ i \in 1..Len(rows)
    <3>1. i \in 1..Len(rows)
      OBVIOUS
    <3> QED BY <1>2, <3>1, Zenon
  <2>2. EncodedRows(part)[i] = EncodeRow(i, part[i]) /\ EncodedRows(rows)[i] = EncodeRow(i, rows[i])
    BY <2>1, Zenon DEF EncodedRows
  <2> QED BY <1>2, <2>2, Zenon
<1>6. Cat(EncodedRows(part))[m] = Cat(EncodedRows(rows))[m]
  <2>1. m \in 0..m /\ m <= Len(rows)
    OBVIOUS
  <2>2. m \in 0..Len(EncodedRows(part)) /\ m <= Len(EncodedRows(rows))
    BY <1>3, <1>4, <2>1, Zenon
  <2> QED BY <1>3, <1>4, <1>5, <2>2, CatPrefix, Zenon
<1>7. Cat(EncodedRows(rows))[m] = SubSeq(Encode(rows), 0 + 1, Off(rows, m))
  BY RowsBytes
<1> QED BY <1>1, <1>3, <1>6, <1>7, Zenon

LEMMA RowsAccount == RowInv => BytesAccounted
<1> SUFFICES ASSUME RowInv, pc = "idle", status = "open"
             PROVE  LET rows == Len(delivered) + Len(q.pending) IN
                    Encode(SubSeq(result, 1, rows)) \o q.partial \o rest = Encode(result)
  BY Zenon DEF BytesAccounted
<1>1. PICK t \in 0..Len(Encode(result)), r0 \in 0..Len(result) : RowsAt(t, r0)
  BY Zenon DEF RowInv
<1>2. /\ result \in Seq(ResultRows) /\ Taken(result, r0, t, q) /\ delivered = ValRows(result, 0, r0)
      /\ rest = SubSeq(Encode(result), t + 1, Len(Encode(result)))
  BY <1>1, Zenon DEF RowInv, Fixed, RowsAt
<1>3. PICK m \in r0..Len(result), dn \in {Yes, No} : InRow(result, m, t) /\ q = Held(result, r0, t, m, dn)
  BY <1>2, Zenon DEF Taken
<1>4. HeldIs(result, r0, t, m, dn, q)
  BY <1>3, HeldFields, Zenon
<1>5. PICK E \in Seq(WireByte) : E = Encode(result)
  BY <1>2, EncodedType, Zenon
<1>6. PICK L \in Nat : L = Len(E)
  OBVIOUS
<1>7. PICK a \in Nat : a = Off(result, m) /\ a <= t /\ t \in Nat /\ m \in 0..Len(result)
  <2>1. PICK pa : pa = SubSeq(Encode(result), Off(result, m) + 1, t)
    OBVIOUS
  <2>2. PartIs(result, t, m, pa)
    BY <1>2, <1>3, <2>1, PartialLen, Zenon
  <2> QED BY <2>2, Zenon DEF PartIs
<1>8. t <= L /\ L <= L
  <2>1. t \in 0..L
    BY <1>5, <1>6, Zenon
  <2> QED BY <2>1
<1>9. Len(delivered) + Len(q.pending) = m
  <2>1. r0 \in Nat /\ m \in Nat /\ r0 <= m /\ 0 \in Nat /\ 0 <= r0
    BY <1>2, <1>3
  <2>2. PICK n \in Nat : n = m - r0 /\ r0 + n = m
    BY <2>1
  <2>3. Len(ValRows(result, r0, m)) = n
    BY <2>1, <2>2, RowCounts
  <2>4. PICK k : k = r0 - 0
    OBVIOUS
  <2>5. Len(ValRows(result, 0, r0)) = k
    BY <2>1, <2>4, RowCounts
  <2>6. k = r0
    BY <2>1, <2>4
  <2>7. q.pending = ValRows(result, r0, m)
    BY <1>4, Zenon DEF HeldIs
  <2> QED BY <1>2, <2>2, <2>3, <2>5, <2>6, <2>7, Zenon
<1>10. Encode(SubSeq(result, 1, m)) = SubSeq(E, 0 + 1, a)
  <2>1. Encode(SubSeq(result, 1, m)) = SubSeq(Encode(result), 0 + 1, Off(result, m))
    BY <1>2, <1>7, EncodePrefix
  <2> QED BY <1>5, <1>7, <2>1, Zenon
<1>11. q.partial = SubSeq(E, a + 1, t) /\ rest = SubSeq(E, t + 1, L)
  BY <1>2, <1>4, <1>5, <1>6, <1>7, Zenon DEF HeldIs
<1>12. SubSeq(E, 0 + 1, a) \o SubSeq(E, a + 1, t) = SubSeq(E, 0 + 1, t)
  <2>1. 0 \in Nat /\ 0 <= a /\ t <= Len(E)
    BY <1>6, <1>8
  <2> QED BY <1>7, <2>1, SubSeqConcat, ZenonT(60)
<1>13. SubSeq(E, 0 + 1, t) \o SubSeq(E, t + 1, L) = SubSeq(E, 0 + 1, L)
  <2>1. 0 \in Nat /\ t \in Nat /\ 0 <= t /\ t <= L /\ L <= Len(E)
    BY <1>6, <1>7, <1>8
  <2> QED BY <2>1, SubSeqConcat, Zenon
<1>14. SubSeq(E, 0 + 1, L) = E
  BY <1>6, SubSeqAll, Zenon
<1> QED BY <1>5, <1>9, <1>10, <1>11, <1>12, <1>13, <1>14, Zenon

\* Whatever the server cuts the rows into, no byte of the result is lost or taken twice:
\* what Query.consume has put together, carries over and has not received is the result.
THEOREM EveryByteAccounted == Spec => []BytesAccounted
<1>1. RowInv => BytesAccounted
  BY RowsAccount
<1> QED BY <1>1, WireAndRows, PTL

---------------------------------------------------------------------------
(* The query is a result stream *)

LEMMA ValuesAre ==
    ASSUME NEW rows \in Seq(ResultRows), NEW n \in 0..Len(rows)
    PROVE  ValRows(rows, 0, n) = SubSeq(Values(rows), 1, n) /\ Len(Values(rows)) = Len(rows)
           /\ (n = Len(rows) => ValRows(rows, 0, n) = Values(rows))
<1>1. PICK L \in Nat : L = Len(rows)
  OBVIOUS
<1>2. n \in Nat /\ n <= L /\ n - 0 = n
  <2>1. n \in 0..L
    BY <1>1, Zenon
  <2> QED BY <2>1
<1>3. PICK v : v = Values(rows)
  OBVIOUS
<1>4. v = [i \in 1..L |-> Value(i, rows[i])]
  BY <1>1, <1>3, Zenon DEF Values
<1>5. PICK I : I = {Value(i, rows[i]) : i \in 1..L}
  OBVIOUS
<1>6. v \in Seq(I) /\ Len(v) = L
  <2>1. ASSUME NEW i \in 1..L PROVE Value(i, rows[i]) \in I
    BY <1>5, Zenon
  <2>2. v \in [1..L -> I]
    BY <1>4, <2>1, Zenon
  <2> QED BY <2>2, FcnSeq, Zenon
<1>7. PICK f : f = ValRows(rows, 0, n)
  OBVIOUS
<1>8. f = [x \in 1..n |-> v[x]]
  <2>1. f = [x \in 1..n |-> Value(0 + x, rows[0 + x])]
    BY <1>2, <1>7, Zenon DEF ValRows
  <2>2. ASSUME NEW x \in 1..n PROVE Value(0 + x, rows[0 + x]) = v[x]
    <3>1. 0 + x = x /\ x \in 1..L
      BY <1>2
    <3> QED BY <1>4, <3>1, Zenon
  <2> QED BY <2>1, <2>2, Zenon
<1>9. SubSeq(v, 1, n) = [x \in 1..n |-> v[x]]
  <2>1. PICK z : z = SubSeq(v, 0 + 1, n)
    OBVIOUS
  <2>2. n <= Len(v) /\ 0 \in Nat /\ 0 <= n
    BY <1>2, <1>6
  <2>3. z \in Seq(I) /\ Len(z) = n - 0 /\ \A k \in 1..(n - 0) : z[k] = v[0 + k]
    BY <1>2, <1>6, <2>1, <2>2, SubSeqType
  <2>4. z = [x \in 1..n |-> z[x]]
    BY <1>2, <2>3
  <2>5. ASSUME NEW x \in 1..n PROVE z[x] = v[x]
    <3>1. 0 + x = x
      OBVIOUS
    <3> QED BY <1>2, <2>3, <3>1, Zenon
  <2>6. 0 + 1 = 1
    OBVIOUS
  <2> QED BY <2>1, <2>4, <2>5, <2>6, Zenon
<1>10. ASSUME n = L PROVE f = v
  <2>1. v = [x \in 1..L |-> v[x]]
    BY <1>4
  <2> QED BY <1>8, <1>10, <2>1, Zenon
<1> QED BY <1>1, <1>3, <1>6, <1>7, <1>8, <1>9, <1>10, Zenon

LEMMA ValuesType ==
    ASSUME NEW rows \in Seq(ResultRows), Len(rows) <= MaxRows
    PROVE  Values(rows) \in Seq([col: 1..MaxRows, lob: 0..MaxRows])
<1>1. PICK L \in Nat : L = Len(rows)
  OBVIOUS
<1>2. MaxRows \in Nat /\ L <= MaxRows
  BY <1>1, WireAssumption
<1>3. PICK S : S = [col: 1..MaxRows, lob: 0..MaxRows]
  OBVIOUS
<1>4. ASSUME NEW i \in 1..L PROVE Value(i, rows[i]) \in S
  <2>1. i \in 1..MaxRows /\ i \in 0..MaxRows /\ 0 \in 0..MaxRows
    BY <1>2
  <2> QED BY <1>3, <2>1 DEF Value
<1>5. Values(rows) = [i \in 1..L |-> Value(i, rows[i])]
  BY <1>1, Zenon DEF Values
<1>6. Values(rows) \in [1..L -> S]
  BY <1>4, <1>5
<1> QED BY <1>3, <1>6, FcnSeq, Zenon

LEMMA StreamInit == Init => Stream!Init
<1> SUFFICES ASSUME Init PROVE Stream!Init
  OBVIOUS
<1>1. Values(result) \in Seq([col: 1..MaxRows, lob: 0..MaxRows])
  BY ResultType, ValuesType, Zenon
<1>2. delivered = <<>> /\ status = "none"
  BY Zenon DEF Init
<1> QED BY <1>1, <1>2, Zenon DEF Stream!Init

\* A step that leaves the consumer as it is.
LEMMA StreamStutter ==
    ASSUME UNCHANGED <<result, delivered, status>>
    PROVE  UNCHANGED Stream!vars
BY Zenon DEF Stream!vars

LEMMA StreamDeliver ==
    ASSUME result \in Seq(ResultRows), status = "open", NEW r0 \in 0..Len(result),
           delivered = ValRows(result, 0, r0), NEW m \in r0..Len(result), r0 < m,
           delivered' = ValRows(result, 0, m), UNCHANGED <<result, status>>
    PROVE  Stream!Next
<1>1. m \in 0..Len(result) /\ r0 \in Nat /\ 0 \in Nat /\ 0 <= r0
  OBVIOUS
<1>2. delivered' = SubSeq(Values(result), 1, m) /\ Len(Values(result)) = Len(result)
  BY <1>1, ValuesAre, Zenon
<1>3. Len(delivered) = r0
  <2>1. PICK k : k = r0 - 0
    OBVIOUS
  <2>2. Len(ValRows(result, 0, r0)) = k
    BY <1>1, <2>1, RowCounts
  <2>3. k = r0
    BY <1>1, <2>1
  <2> QED BY <2>2, <2>3, Zenon
<1>4. m \in (r0 + 1)..Len(result)
  BY <1>1
<1>5. m \in (Len(delivered) + 1)..Len(Values(result))
  BY <1>2, <1>3, <1>4, Zenon
<1>6. Values(result)' = Values(result)
  BY Zenon
<1>7. Stream!Deliver
  BY <1>2, <1>5, <1>6, Zenon DEF Stream!Deliver
<1> QED BY <1>7, Zenon DEF Stream!Next

LEMMA StreamEnd ==
    ASSUME result \in Seq(ResultRows), status = "open", delivered = ValRows(result, 0, Len(result)),
           status' = "end", UNCHANGED <<result, delivered>>
    PROVE  Stream!Next
<1>1. Len(result) \in 0..Len(result)
  OBVIOUS
<1>2. delivered = Values(result)
  BY <1>1, ValuesAre, Zenon
<1>3. Stream!End
  BY <1>2, Zenon DEF Stream!End
<1> QED BY <1>3, Zenon DEF Stream!Next

LEMMA StreamStops ==
    ASSUME UNCHANGED <<result, delivered>>,
           \/ status = "none" /\ status' \in {"open", "error"}
           \/ status = "open" /\ status' = "error"
           \/ status # "none" /\ status' = "closed"
    PROVE  Stream!Next
BY Zenon DEF Stream!Next, Stream!Open, Stream!Fail, Stream!Close

LEMMA QueryNextStream ==
    ASSUME RowInv, QueryNext
    PROVE  Stream!Next \/ UNCHANGED Stream!vars
<1>1. PICK t \in 0..Len(Encode(result)), r0 \in 0..Len(result) : RowsAt(t, r0)
  BY Zenon DEF RowInv
<1>2. pc = "idle" /\ status = "open" /\ UNCHANGED result
  BY Zenon DEF QueryNext
<1>3. result \in Seq(ResultRows) /\ Taken(result, r0, t, q) /\ delivered = ValRows(result, 0, r0)
  BY <1>1, <1>2, Zenon DEF RowInv, Fixed, RowsAt
<1>4. CASE q.pending # <<>> /\ delivered' = delivered \o q.pending /\ UNCHANGED status
  <2>1. PICK m \in r0..Len(result) : HandsOver(result, r0, t, m, q)
    BY <1>3, TakeRows, Zenon
  <2>2. delivered' = ValRows(result, 0, m) /\ r0 < m
    BY <1>3, <1>4, <2>1, Zenon DEF HandsOver
  <2> QED BY <1>2, <1>3, <1>4, <2>2, StreamDeliver, Zenon
<1>5. CASE q.pending = <<>> /\ q.done /\ status' = "end" /\ UNCHANGED delivered
  <2>1. r0 = Len(result)
    BY <1>3, <1>5, TakenDone, Zenon
  <2> QED BY <1>2, <1>3, <1>5, <2>1, StreamEnd, Zenon
<1>6. CASE UNCHANGED <<delivered, status>>
  BY <1>2, <1>6, StreamStutter, Zenon
<1> QED BY <1>4, <1>5, <1>6, Zenon DEF QueryNext

LEMMA FetchedStream ==
    ASSUME ThreeRepliesHoldARow, RowInv, Fetched
    PROVE  Stream!Next \/ UNCHANGED Stream!vars
<1>1. PICK t \in 0..Len(Encode(result)), r0 \in 0..Len(result) : RowsAt(t, r0)
  BY Zenon DEF RowInv
<1>2. PICK after : after = ConsumeAll(q, Replies.chain)
  OBVIOUS
<1>3. pc = "fetch" /\ Replies.ok /\ UNCHANGED result
  BY Zenon DEF Fetched
<1>4. /\ status = "open" /\ attempt \in 1..3 /\ AnswerOK(result, r0, t, attempt, after)
      /\ delivered = ValRows(result, 0, r0) /\ result \in Seq(ResultRows)
  BY <1>1, <1>2, <1>3, Zenon DEF RowInv, RowsAt, Fixed
<1>5. CASE status' = "error" /\ UNCHANGED delivered
  BY <1>3, <1>4, <1>5, StreamStops, Zenon
<1>6. CASE UNCHANGED <<delivered, status>>
  BY <1>3, <1>6, StreamStutter, Zenon
<1>7. CASE /\ ~after.stop /\ ~after.failed
           /\ after.pending # <<>> \/ after.done \/ ~AskAgain(attempt)
           /\ delivered' = delivered \o after.pending
           /\ status' = IF after.pending = <<>> THEN "end" ELSE status
  <2>1. Taken(result, r0, t, after) /\ Asked(after, attempt)
    BY <1>4, <1>7, Zenon DEF AnswerOK
  <2>2. PICK m \in r0..Len(result) : HandsOver(result, r0, t, m, after)
    BY <1>4, <2>1, TakeRows, Zenon
  <2>3. delivered' = ValRows(result, 0, m)
    BY <1>4, <1>7, <2>2, Zenon DEF HandsOver
  <2>4. CASE after.pending # <<>>
    <3>1. status' = status
      BY <1>7, <2>4, Zenon
    <3>2. r0 < m
      BY <2>2, <2>4, Zenon DEF HandsOver
    <3> QED BY <1>3, <1>4, <2>3, <3>1, <3>2, StreamDeliver, Zenon
  <2>5. CASE after.pending = <<>>
    <3>1. status' = "end"
      BY <1>7, <2>5, Zenon
    <3>2. m = r0
      BY <2>2, <2>5, Zenon DEF HandsOver
    <3>3. after.done
      <4>1. ASSUME ~after.done PROVE FALSE
        <5>1. AskAgain(attempt)
          BY <1>4, <2>1, <2>5, <4>1, ThirdAnswer, Zenon
        <5> QED BY <1>7, <2>5, <4>1, <5>1, Zenon
      <4> QED BY <4>1, Zenon
    <3>4. r0 = Len(result)
      BY <1>4, <2>1, <2>5, <3>3, TakenDone, Zenon
    <3>5. delivered' = delivered
      BY <1>4, <2>3, <3>2, Zenon
    <3> QED BY <1>3, <1>4, <3>1, <3>4, <3>5, StreamEnd, Zenon
  <2> QED BY <2>4, <2>5, Zenon
<1> QED BY <1>2, <1>5, <1>6, <1>7, Zenon DEF Fetched

LEMMA StreamStep ==
    ASSUME ThreeRepliesHoldARow, RowInv, [Next]_vars
    PROVE  Stream!Next \/ UNCHANGED Stream!vars
<1>1. PICK t \in 0..Len(Encode(result)), r0 \in 0..Len(result) : RowsAt(t, r0)
  BY Zenon DEF RowInv
<1>2. CASE QueryNext
  BY <1>2, QueryNextStream, Zenon
<1>3. CASE Fetched
  BY <1>3, FetchedStream, Zenon
<1>4. CASE QueryClose
  <2>1. UNCHANGED <<result, delivered>> /\ status' = "closed" /\ status \in {"open", "end", "error"}
    BY <1>4, Zenon DEF QueryClose
  <2>2. status # "none"
    BY <2>1
  <2> QED BY <2>1, <2>2, StreamStops, Zenon
<1>5. CASE Opened
  <2>1. /\ pc = "open" /\ UNCHANGED <<result, delivered>>
        /\ status' = IF q'.stop \/ q'.failed \/ ~q'.opened THEN "error" ELSE "open"
    BY <1>5, Zenon DEF Opened
  <2>2. status = "none" /\ status' \in {"open", "error"}
    BY <1>1, <2>1, Zenon DEF RowsAt
  <2> QED BY <2>1, <2>2, StreamStops, Zenon
<1>6. CASE ReadFails
  <2>1. /\ pc \in {"batch", "open", "fetch"} /\ UNCHANGED <<result, delivered>>
        /\ status' = IF pc = "batch" THEN "none" ELSE "error"
    BY <1>6, Zenon DEF ReadFails
  <2>2. CASE pc = "batch"
    <3>1. status' = status
      BY <1>1, <2>1, <2>2, Zenon DEF RowsAt
    <3> QED BY <2>1, <3>1, StreamStutter, Zenon
  <2>3. CASE pc # "batch"
    <3>1. status \in {"none", "open"} /\ status' = "error"
      BY <1>1, <2>1, <2>3, Zenon DEF RowsAt
    <3> QED BY <2>1, <3>1, StreamStops, Zenon
  <2> QED BY <2>2, <2>3, Zenon
<1>7. CASE ExecBatch \/ Query \/ BatchDone \/ Serve \/ LinkBreaks \/ UNCHANGED vars
  <2>1. UNCHANGED <<result, delivered, status>>
    BY <1>7, Zenon DEF ExecBatch, Query, BatchDone, Serve, LinkBreaks, vars
  <2> QED BY <2>1, StreamStutter, Zenon
<1> QED BY <1>2, <1>3, <1>4, <1>5, <1>6, <1>7, Zenon DEF Next

\* A query is a result stream: the consumer gets the rows of the result, each once, in
\* order and with its own LOB, and the end only behind the last, or an error instead; if no
\* row takes more than the three replies Query.Next asks for.
THEOREM QueryIsStream ==
    ASSUME ThreeRepliesHoldARow
    PROVE  Spec => Stream!Safety
<1>1. Init => Stream!Init
  BY StreamInit
<1>2. RowInv /\ [Next]_vars => [Stream!Next]_(Stream!vars)
  BY StreamStep, Zenon
<1> QED BY <1>1, <1>2, WireAndRows, PTL DEF Spec, Stream!Safety

=============================================================================
