----------------------------- MODULE DssFraming -----------------------------
(***************************************************************************)
(* DSS framing: ddm.Writer and ddm.ReadDSS.  A byte stream is a sequence   *)
(* of items, each a data byte, a two-byte length word, an extended length  *)
(* byte or a header of ten bytes (DSS header and the start of the object). *)
(* HighBit stands for 0x8000; all length words are taken modulo 2 * HighBit*)
(***************************************************************************)
EXTENDS Integers, Sequences, SequencesExt

CONSTANT HighBit

\* A first segment must have room for its headers.
ASSUME FramingAssumption == HighBit \in Nat /\ HighBit > 15

MaxDSSLength == HighBit - 1

Header(len, obj, cp, chained) ==
    [kind |-> "header", len |-> len, obj |-> obj, cp |-> cp, chained |-> chained]
Word(len)  == [kind |-> "word", len |-> len]
ExtByte    == [kind |-> "ext"]
Data(byte) == [kind |-> "data", byte |-> byte]

Bytes(body) == [i \in 1..Len(body) |-> Data(body[i])]

NewObject(cp, body) == [len |-> (4 + Len(body)) % (2 * HighBit), cp |-> cp, body |-> body]

\* Seeded fault: the last segment is cut one byte early when it is full.
Bug_FullSegment(rest) ==
    LET seg[i \in 0..Len(rest)] ==
            LET n == Min({Len(rest) - i, MaxDSSLength - 2}) IN
            IF i = Len(rest) THEN <<>>
            ELSE <<Word(n + 2 + (IF n < MaxDSSLength - 2 THEN 0 ELSE HighBit))>>
                 \o Bytes(SubSeq(rest, i + 1, i + n)) \o seg[i + n]
    IN  seg[0]

\* The segments after the first: each a length word, whose high bit says that another
\* follows, and its bytes.
Segments(rest) ==
    LET seg[i \in 0..Len(rest)] ==
            LET n == Min({Len(rest) - i, MaxDSSLength - 2}) IN
            IF i = Len(rest) THEN <<>>
            ELSE <<Word(n + 2 + (IF i + n < Len(rest) THEN HighBit ELSE 0))>>
                 \o Bytes(SubSeq(rest, i + 1, i + n)) \o seg[i + n]
    IN  seg[0]

\* One DSS: as it is when it is short enough, else with an extended length of extLen
\* bytes after the code point and in segments.  WriteRequest uses four such bytes, Db2
\* also none.
WriteDSS(o, chained, extLen) ==
    LET body      == o.body
        firstData == Min({MaxDSSLength - 6 - 4 - extLen, Len(body)})
        rest      == SubSeq(body, firstData + 1, Len(body))
        more      == IF rest = <<>> THEN 0 ELSE HighBit
    IN
    IF Len(body) + 4 + 6 <= MaxDSSLength
    THEN <<Header(Len(body) + 10, o.len, o.cp, chained)>> \o Bytes(body)
    ELSE <<Header(6 + 4 + extLen + firstData + more, HighBit + 4 + extLen, o.cp, chained)>>
         \o [i \in 1..extLen |-> ExtByte]
         \o Bytes(SubSeq(body, 1, firstData)) \o Segments(rest)

\* What WriteRequest appends to the buffer.
WriteRequest(o, last) == WriteDSS(o, ~last, 4)

\* The chained flag of the last DSS in the buffer is cleared.
UnchainLast(buf) ==
    LET headers == {i \in 1..Len(buf) : buf[i].kind = "header"} IN
    IF headers = {} THEN buf ELSE [buf EXCEPT ![Max(headers)].chained = FALSE]

---------------------------------------------------------------------------
(* ReadDSS *)

Invalid == [ok |-> FALSE]

\* n data bytes from position p on.
HasData(wire, p, n) ==
    /\ n >= 0
    /\ p + n - 1 <= Len(wire)
    /\ \A i \in p..(p + n - 1) : wire[i].kind = "data"
Payload(wire, p, n) == [i \in 1..n |-> wire[p + i - 1].byte]

\* The segments from position p on: their payload and the position after them.
ReadSegments(wire, start) ==
    LET read[p \in 1..(Len(wire) + 1)] ==
            IF p > Len(wire) THEN Invalid
            ELSE IF wire[p].kind # "word" THEN Invalid
            ELSE LET n == (wire[p].len % HighBit) - 2 IN
                 IF ~HasData(wire, p + 1, n) THEN Invalid
                 ELSE IF wire[p].len < HighBit
                 THEN [ok |-> TRUE, payload |-> Payload(wire, p + 1, n), next |-> p + 1 + n]
                 ELSE LET r == read[p + 1 + n] IN
                      IF ~r.ok THEN Invalid
                      ELSE [ok |-> TRUE, payload |-> Payload(wire, p + 1, n) \o r.payload,
                            next |-> r.next]
    IN  read[start]

\* The bytes of extended length a header announces, and of data in the first segment.
ExtLen(h)   == IF h.obj >= HighBit THEN h.obj - (HighBit + 4) ELSE 0
FirstLen(h) == (h.len % HighBit) - 10 - ExtLen(h)

\* The DSS at position p: its code point, flag and payload, and the position after it.
ReadDSS(wire, p) ==
    IF p > Len(wire) THEN Invalid
    ELSE IF wire[p].kind # "header" THEN Invalid
    ELSE
    LET h    == wire[p]
        data == p + 1 + ExtLen(h)
        tail == ReadSegments(wire, data + FirstLen(h))
        result(payload, next) ==
            [ok |-> TRUE, cp |-> h.cp, chained |-> h.chained, payload |-> payload, next |-> next]
    IN
    IF h.len < HighBit /\ h.obj < HighBit
    THEN IF h.obj >= 4 /\ h.obj = h.len - 6 /\ HasData(wire, p + 1, h.obj - 4)
         THEN result(Payload(wire, p + 1, h.obj - 4), p + 1 + (h.obj - 4))
         ELSE Invalid
    ELSE IF ~(ExtLen(h) \in 0..8) THEN Invalid
    ELSE IF \E i \in (p + 1)..(p + ExtLen(h)) : i > Len(wire) \/ wire[i] # ExtByte THEN Invalid
    ELSE IF ~HasData(wire, data, FirstLen(h)) THEN Invalid
    ELSE IF h.len < HighBit THEN result(Payload(wire, data, FirstLen(h)), data + FirstLen(h))
    ELSE IF ~tail.ok THEN Invalid
    ELSE result(Payload(wire, data, FirstLen(h)) \o tail.payload, tail.next)

\* The DSSs from the start of the stream to the first that is not chained, and the rest of
\* the stream.
ReadChain(wire) ==
    LET read[p \in 1..(Len(wire) + 1)] ==
            LET d == ReadDSS(wire, p) IN
            IF ~d.ok THEN Invalid
            ELSE IF ~d.chained
            THEN [ok |-> TRUE, chain |-> <<[cp |-> d.cp, body |-> d.payload]>>,
                  rest |-> SubSeq(wire, d.next, Len(wire))]
            ELSE LET r == read[d.next] IN
                 IF ~r.ok THEN Invalid
                 ELSE [ok |-> TRUE, chain |-> <<[cp |-> d.cp, body |-> d.payload]>> \o r.chain,
                       rest |-> r.rest]
    IN  read[1]

=============================================================================
