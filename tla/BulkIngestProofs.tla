-------------------------- MODULE BulkIngestProofs --------------------------
(***************************************************************************)
(* Proofs about BulkIngest: what an ingest does to the table, for any      *)
(* number of sessions, records, rows and attempts, and any lengths.        *)
(***************************************************************************)
EXTENDS BulkIngest, SequenceTheorems, WellFoundedInduction, TLAPS

---------------------------------------------------------------------------
(* Numbers and records *)

\* The least of a set of natural numbers.
LEMMA LeastNat ==
    ASSUME NEW T, T \subseteq Nat, T # {}
    PROVE  \E x \in T : \A y \in T : x <= y
<1>1. PICK x \in T : \A y \in T : <<y, x>> \notin OpToRel(<, Nat)
  BY NatLessThanWellFounded, WFMin
<1>2. \A y \in T : ~(y < x)
  BY <1>1 DEF OpToRel
<1> QED BY <1>2

\* A record is a finite sequence of lengths.
LEMMA RecordTypes ==
    ASSUME NEW r \in Records
    PROVE  r \in Seq(Lengths) /\ r \in Seq(Nat) /\ Len(r) \in Nat
<1>1. PICK m \in 0..MaxRows : r \in [1..m -> Lengths]
  BY IngestAssumption DEF IngestAssumption, Records, BoundedSeq, SeqOf
<1>2. m \in Nat
  BY <1>1, IngestAssumption DEF IngestAssumption
<1>3. r \in [1..m -> Nat]
  BY <1>1, IngestAssumption DEF IngestAssumption
<1>4. r \in Seq(Lengths)
  BY <1>1, <1>2
<1>5. r \in Seq(Nat)
  BY <1>2, <1>3
<1> QED BY <1>4, <1>5

LEMMA NoRecord == <<>> \in Records
<1>1. <<>> \in [1..0 -> Lengths]
  OBVIOUS
<1>2. 0 \in 0..MaxRows
  BY IngestAssumption DEF IngestAssumption
<1> QED BY <1>1, <1>2 DEF Records, BoundedSeq, SeqOf

\* The values of a record are bounded: otherwise there is a shortest record whose values
\* are not.
LEMMA RecordBounded ==
    ASSUME NEW r \in Seq(Nat)
    PROVE  \E b \in Nat : \A k \in 1..Len(r) : r[k] <= b
<1> DEFINE Free == {m \in Nat : \E f \in [1..m -> Nat] : \A b \in Nat : \E k \in 1..m : f[k] > b}
<1>1. Free = {}
  <2> SUFFICES ASSUME Free # {} PROVE FALSE
    OBVIOUS
  <2>1. PICK m \in Free : \A n \in Free : m <= n
    BY LeastNat
  <2>2. PICK f \in [1..m -> Nat] : \A b \in Nat : \E k \in 1..m : f[k] > b
    BY <2>1
  <2>3. m \in Nat
    BY <2>1
  <2>4. m # 0
    <3>1. \E k \in 1..m : f[k] > 0
      BY <2>2
    <3> QED BY <3>1
  <2>5. m - 1 \in Nat /\ m - 1 \notin Free
    <3> HIDE DEF Free
    <3> QED BY <2>1, <2>3, <2>4
  <2>6. [k \in 1..(m - 1) |-> f[k]] \in [1..(m - 1) -> Nat]
    <3> HIDE DEF Free
    <3>1. \A k \in 1..(m - 1) : k \in 1..m
      BY <2>3
    <3>2. \A k \in 1..(m - 1) : f[k] \in Nat
      BY <2>2, <3>1
    <3> QED BY <3>2
  <2>7. PICK b \in Nat : \A k \in 1..(m - 1) : ~(f[k] > b)
    BY <2>5, <2>6
  <2> HIDE DEF Free
  <2>8. CASE f[m] > b
    <3>1. m \in 1..m /\ f[m] \in Nat
      BY <2>3, <2>4, <2>2
    <3>2. \A k \in 1..m : ~(f[k] > f[m])
      <4> SUFFICES ASSUME NEW k \in 1..m PROVE ~(f[k] > f[m])
        OBVIOUS
      <4>1. f[k] \in Nat
        BY <2>2
      <4>2. k = m \/ k \in 1..(m - 1)
        BY <2>3
      <4>3. k \in 1..(m - 1) => f[k] <= b
        BY <2>7, <4>1
      <4> QED BY <2>8, <3>1, <4>1, <4>2, <4>3
    <3> QED BY <2>2, <3>1, <3>2
  <2>9. CASE ~(f[m] > b)
    <3>1. \A k \in 1..m : ~(f[k] > b)
      BY <2>2, <2>3, <2>7, <2>9
    <3> QED BY <2>2, <3>1
  <2> QED BY <2>8, <2>9
<1>2. Len(r) \in Nat /\ r \in [1..Len(r) -> Nat]
  OBVIOUS
<1>3. PICK b \in Nat : \A k \in 1..Len(r) : ~(r[k] > b)
  BY <1>1, <1>2
<1>4. \A k \in 1..Len(r) : r[k] <= b
  BY <1>2, <1>3
<1> QED BY <1>4

\* maxValueLength is a number, and no value of the record is longer.
LEMMA MaxValue ==
    ASSUME NEW r \in Records
    PROVE  /\ maxValueLength(r) \in Nat
           /\ \A k \in 1..Len(r) : r[k] <= maxValueLength(r)
<1> DEFINE S == {0} \cup Range(r)
           U == {b \in Nat : \A k \in 1..Len(r) : r[k] <= b}
<1>1. r \in Seq(Nat) /\ Len(r) \in Nat /\ DOMAIN r = 1..Len(r)
  BY RecordTypes
<1>2. S \subseteq Nat
  BY <1>1 DEF Range
<1>3. PICK b \in U : \A c \in U : b <= c
  BY <1>1, RecordBounded, LeastNat
<1>4. \A y \in S : b >= y
  BY <1>1, <1>3 DEF Range
<1>5. b \in S
  <2> SUFFICES ASSUME b \notin S PROVE FALSE
    OBVIOUS
  <2>1. b - 1 \in Nat
    BY <1>3
  <2>2. \A k \in 1..Len(r) : r[k] # b /\ r[k] \in Nat /\ r[k] <= b
    BY <1>1, <1>3 DEF Range
  <2>3. b - 1 \in U
    BY <2>1, <2>2, <1>3
  <2> QED BY <1>3, <2>3
<1>6. Max(S) \in S /\ \A y \in S : Max(S) >= y
  BY <1>4, <1>5 DEF Max
<1>7. \A k \in 1..Len(r) : r[k] \in S
  BY <1>1 DEF Range
<1> QED BY <1>1, <1>2, <1>6, <1>7 DEF maxValueLength

\* A column sized from a record holds its values, as far as a VARCHAR can.
LEMMA ColumnFits ==
    ASSUME NEW r \in Records
    PROVE  /\ varcharLengths(r) \in Nat
           /\ \A k \in 1..Len(r) : r[k] <= varcharLengths(r) \/ r[k] > MaxLength
<1>1. PICK m \in Nat : m = maxValueLength(r) /\ \A k \in 1..Len(r) : r[k] <= m
  BY MaxValue
<1>2. MinLength \in Nat /\ MaxLength \in Nat
  BY IngestAssumption DEF IngestAssumption
<1>3. PICK h : h = Max({MinLength, 2 * m})
  OBVIOUS
<1>4. h \in Nat /\ h >= 2 * m
  <2>1. \E x \in {MinLength, 2 * m} : \A y \in {MinLength, 2 * m} : x >= y
    BY <1>1, <1>2
  <2>2. h \in {MinLength, 2 * m} /\ \A y \in {MinLength, 2 * m} : h >= y
    BY <1>3, <2>1 DEF Max
  <2> QED BY <1>1, <1>2, <2>2
<1>5. PICK v : v = Min({MaxLength, h})
  OBVIOUS
<1>6. v \in {MaxLength, h}
  <2>1. \E x \in {MaxLength, h} : \A y \in {MaxLength, h} : x <= y
    BY <1>2, <1>4
  <2> QED BY <1>5, <2>1 DEF Min
<1>7. varcharLengths(r) = v
  BY <1>1, <1>3, <1>5 DEF varcharLengths
<1>8. \A k \in 1..Len(r) : r[k] \in Nat
  BY RecordTypes
<1> QED BY <1>1, <1>2, <1>4, <1>6, <1>7, <1>8

---------------------------------------------------------------------------
(* Tables *)

\* The table a unit of work w makes of the table t.
Made(w, t) ==
    IF w.ddl THEN [w.base EXCEPT !.rows = @ \o w.ins] ELSE [t EXCEPT !.rows = @ \o w.ins]

LEMMA MadeParts ==
    ASSUME NEW w \in Work, NEW t \in Table
    PROVE  /\ Made(w, t) \in Table
           /\ w.ddl => /\ Made(w, t).exists = w.base.exists
                       /\ Made(w, t).width = w.base.width
                       /\ Made(w, t).rows = w.base.rows \o w.ins
           /\ ~w.ddl => /\ Made(w, t).exists = t.exists
                        /\ Made(w, t).width = t.width
                        /\ Made(w, t).rows = t.rows \o w.ins
<1>1. w.ddl \in BOOLEAN /\ w.base \in Table /\ w.ins \in Seq(Row)
  BY DEF Work
<1>2. w.base.rows \in Seq(Row) /\ t.rows \in Seq(Row)
  BY <1>1 DEF Table
<1>3. w.base.rows \o w.ins \in Seq(Row) /\ t.rows \o w.ins \in Seq(Row)
  BY <1>1, <1>2
<1> QED BY <1>1, <1>3 DEF Made, Table

LEMMA ConcatAttempts ==
    ASSUME NEW a \in Seq(Row), NEW b \in Seq(Row)
    PROVE  AttemptsOf(a \o b) \subseteq AttemptsOf(a) \cup AttemptsOf(b)
<1> SUFFICES ASSUME NEW i \in 1..Len(a \o b)
             PROVE  (a \o b)[i].attempt \in AttemptsOf(a) \cup AttemptsOf(b)
  BY DEF AttemptsOf
<1>1. Len(a) \in Nat /\ Len(b) \in Nat /\ Len(a \o b) = Len(a) + Len(b)
  OBVIOUS
<1>2. CASE i <= Len(a)
  <2>1. i \in 1..Len(a) /\ (a \o b)[i] = a[i]
    BY <1>1, <1>2
  <2> QED BY <2>1 DEF AttemptsOf
<1>3. CASE i > Len(a)
  <2>1. i - Len(a) \in 1..Len(b) /\ (a \o b)[i] = b[i - Len(a)]
    BY <1>1, <1>3
  <2> QED BY <2>1 DEF AttemptsOf
<1> QED BY <1>1, <1>2, <1>3

LEMMA ConcatPrefix ==
    ASSUME NEW a \in Seq(Row), NEW b \in Seq(Row)
    PROVE  IsPrefix(a, a \o b)
BY DEF IsPrefix

LEMMA NoAttempts == AttemptsOf(<<>>) = {}
BY DEF AttemptsOf

LEMMA ConstantTypes ==
    /\ NoTable \in Table /\ NoWork \in Work /\ NoTable.rows = <<>>
    /\ NoWork.ddl = FALSE /\ NoWork.ins = <<>> /\ NoWork.base = NoTable /\ NoWork.by = "none"
<1>1. <<>> \in Seq(Row)
  OBVIOUS
<1> QED BY <1>1 DEF NoTable, Table, NoWork, Work, Modes

\* What View means in this state and in the next.
LEMMA ViewIsMade ==
    ASSUME NEW s \in Sessions
    PROVE  View(s) = Made(uow[s], committed) /\ View(s)' = Made(uow'[s], committed')
BY DEF View, Made

---------------------------------------------------------------------------
(* Locks and tables, by what happens to the unit of work *)

LEMMA KeepWork ==
    ASSUME Locked, Founded, uow' = uow, committed' = committed
    PROVE  Locked' /\ Founded'
BY DEF Locked, Founded, View, ExclusiveFree, Others

LEMMA ClearWork ==
    ASSUME TypeOK, Locked, Founded, NEW s \in Sessions, RollbackWork(s), committed' = committed
    PROVE  Locked' /\ Founded'
<1>1. uow'[s] = NoWork /\ \A o \in Sessions : o # s => uow'[o] = uow[o]
  BY DEF RollbackWork, TypeOK
<1>2. Locked'
  BY <1>1, ConstantTypes DEF Locked, ExclusiveFree, Others
<1>3. ASSUME NEW o \in Sessions
      PROVE  /\ uow'[o].base.rows = <<>>
             /\ ~View(o)'.exists => uow'[o].ins = <<>>
             /\ uow'[o].ddl => uow'[o].by = "replace" \/ committed'.rows = <<>>
  <2>1. CASE o = s
    BY <1>1, <2>1, ConstantTypes
  <2>2. CASE o # s
    <3>1. View(o)' = View(o)
      BY <1>1, <2>2 DEF View
    <3> QED BY <1>1, <2>2, <3>1 DEF Founded
  <2> QED BY <2>1, <2>2
<1>4. ~committed'.exists => committed'.rows = <<>>
  BY DEF Founded
<1> QED BY <1>2, <1>3, <1>4 DEF Founded

LEMMA CommitWorkTables ==
    ASSUME TypeOK, Locked, Founded, NEW s \in Sessions, CommitWork(s)
    PROVE  Locked' /\ Founded'
<1>1. uow'[s] = NoWork /\ \A o \in Sessions : o # s => uow'[o] = uow[o]
  BY DEF CommitWork, TypeOK
<1>2. Locked'
  BY <1>1, ConstantTypes DEF Locked, ExclusiveFree, Others
<1>3. committed' = Made(uow[s], committed)
  BY ViewIsMade DEF CommitWork
<1>4. committed \in Table /\ uow[s] \in Work /\ uow[s].ins \in Seq(Row) /\ uow[s].ddl \in BOOLEAN
  BY DEF TypeOK, Work
<1>5. ~committed'.exists => committed'.rows = <<>>
  <2>1. ~View(s).exists => uow[s].ins = <<>>
    BY DEF Founded
  <2>2. uow[s].base.rows = <<>> /\ (~committed.exists => committed.rows = <<>>)
    BY DEF Founded
  <2>3. <<>> \o <<>> = <<>>
    OBVIOUS
  <2>4. View(s) = committed'
    BY <1>3, ViewIsMade
  <2>5. CASE uow[s].ddl
    <3>1. committed'.rows = uow[s].base.rows \o uow[s].ins
      BY <1>3, <1>4, <2>5, MadeParts
    <3> QED BY <2>1, <2>2, <2>3, <2>4, <3>1
  <2>6. CASE ~uow[s].ddl
    <3>1. committed'.rows = committed.rows \o uow[s].ins /\ committed'.exists = committed.exists
      BY <1>3, <1>4, <2>6, MadeParts
    <3> QED BY <2>1, <2>2, <2>3, <2>4, <3>1
  <2> QED BY <2>5, <2>6
<1>6. ASSUME NEW o \in Sessions
      PROVE  /\ uow'[o].base.rows = <<>>
             /\ ~View(o)'.exists => uow'[o].ins = <<>>
             /\ uow'[o].ddl => uow'[o].by = "replace" \/ committed'.rows = <<>>
  <2>1. CASE o = s
    BY <1>1, <2>1, ConstantTypes
  <2>2. CASE o # s /\ uow[s].ddl
    <3>1. uow'[o] = uow[o] /\ uow[o].ins = <<>> /\ ~uow[o].ddl
      BY <1>1, <2>2 DEF Locked, ExclusiveFree, Others
    <3> QED BY <3>1 DEF Founded
  <2>3. CASE o # s /\ ~uow[s].ddl
    <3>1. committed'.exists = committed.exists
      BY <1>3, <1>4, <2>3, MadeParts
    <3>2. uow[o] \in Work /\ committed' \in Table /\ uow'[o] = uow[o]
      BY <1>1, <1>3, <1>4, <2>3, MadeParts DEF TypeOK
    <3>3. View(o)'.exists = View(o).exists
      <4>1. View(o) = Made(uow[o], committed) /\ View(o)' = Made(uow[o], committed')
        BY <3>2, ViewIsMade
      <4>2. CASE uow[o].ddl
        <5>1. Made(uow[o], committed).exists = uow[o].base.exists
          BY <1>4, <3>2, <4>2, MadeParts
        <5>2. Made(uow[o], committed').exists = uow[o].base.exists
          BY <3>2, <4>2, MadeParts
        <5> QED BY <4>1, <5>1, <5>2
      <4>3. CASE ~uow[o].ddl
        <5>1. Made(uow[o], committed).exists = committed.exists
          BY <1>4, <3>2, <4>3, MadeParts
        <5>2. Made(uow[o], committed').exists = committed'.exists
          BY <3>2, <4>3, MadeParts
        <5> QED BY <3>1, <4>1, <5>1, <5>2
      <4> QED BY <4>2, <4>3
    <3>4. uow[o].ddl => committed' = committed
      <4> SUFFICES ASSUME uow[o].ddl PROVE committed' = committed
        OBVIOUS
      <4>1. uow[s].ins = <<>>
        BY <2>3 DEF Locked, ExclusiveFree, Others
      <4>2. committed.rows \o <<>> = committed.rows
        BY <1>4 DEF Table
      <4> QED BY <1>3, <1>4, <2>3, <4>1, <4>2 DEF Made, Table
    <3> QED BY <3>2, <3>3, <3>4 DEF Founded
  <2> QED BY <2>1, <2>2, <2>3
<1> QED BY <1>2, <1>5, <1>6 DEF Founded

\* DROP or CREATE: the session is alone, and its table has no rows.
LEMMA DdlWork ==
    ASSUME TypeOK, Locked, Founded, NEW s \in Sessions, ExclusiveFree(s), NEW w \in Work,
           uow' = [uow EXCEPT ![s] = w], committed' = committed,
           w.ddl, w.ins = <<>>, w.base.rows = <<>>, w.by = "replace" \/ committed.rows = <<>>
    PROVE  Locked' /\ Founded'
<1>1. uow'[s] = w /\ \A o \in Sessions : o # s => uow'[o] = uow[o]
  BY DEF TypeOK
<1>2. Locked'
  BY <1>1 DEF Locked, ExclusiveFree, Others
<1>3. ASSUME NEW o \in Sessions
      PROVE  /\ uow'[o].base.rows = <<>>
             /\ ~View(o)'.exists => uow'[o].ins = <<>>
             /\ uow'[o].ddl => uow'[o].by = "replace" \/ committed'.rows = <<>>
  <2>1. CASE o = s
    BY <1>1, <2>1
  <2>2. CASE o # s
    BY <1>1, <2>2 DEF Founded, ExclusiveFree, Others
  <2> QED BY <2>1, <2>2
<1> QED BY <1>2, <1>3 DEF Founded

\* An insert: nobody else has DDL, and rows go only into a table that exists.
LEMMA InsertWork ==
    ASSUME TypeOK, Locked, Founded, NEW s \in Sessions, SharedFree(s), NEW w \in Work,
           uow' = [uow EXCEPT ![s] = w], committed' = committed,
           w.ddl = uow[s].ddl, w.by = uow[s].by, w.base = uow[s].base,
           ~View(s).exists => w.ins = uow[s].ins
    PROVE  Locked' /\ Founded'
<1>1. uow'[s] = w /\ \A o \in Sessions : o # s => uow'[o] = uow[o]
  BY DEF TypeOK
<1>2. Locked'
  BY <1>1 DEF Locked, ExclusiveFree, SharedFree, Others
<1>3. uow[s] \in Work /\ committed \in Table /\ uow[s].ddl \in BOOLEAN
  BY DEF TypeOK, Work
<1>4. View(s)'.exists = View(s).exists
  <2>1. View(s) = Made(uow[s], committed) /\ View(s)' = Made(w, committed)
    BY <1>1, ViewIsMade
  <2>2. CASE w.ddl
    <3>1. Made(uow[s], committed).exists = uow[s].base.exists
      BY <1>3, <2>2, MadeParts
    <3>2. Made(w, committed).exists = w.base.exists
      BY <1>3, <2>2, MadeParts
    <3> QED BY <2>1, <3>1, <3>2
  <2>3. CASE ~w.ddl
    <3>1. Made(uow[s], committed).exists = committed.exists
      BY <1>3, <2>3, MadeParts
    <3>2. Made(w, committed).exists = committed.exists
      BY <1>3, <2>3, MadeParts
    <3> QED BY <2>1, <3>1, <3>2
  <2> QED BY <2>2, <2>3
<1>5. ASSUME NEW o \in Sessions
      PROVE  /\ uow'[o].base.rows = <<>>
             /\ ~View(o)'.exists => uow'[o].ins = <<>>
             /\ uow'[o].ddl => uow'[o].by = "replace" \/ committed'.rows = <<>>
  <2>1. CASE o = s
    BY <1>1, <1>4, <2>1 DEF Founded
  <2>2. CASE o # s
    <3>1. View(o)' = View(o)
      BY <1>1, <2>2 DEF View
    <3> QED BY <1>1, <2>2, <3>1 DEF Founded
  <2> QED BY <2>1, <2>2
<1> QED BY <1>2, <1>5 DEF Founded

---------------------------------------------------------------------------
(* Attempts *)

\* A step of session s: rows are committed from its unit of work and inserted with its
\* attempt; its attempt goes on, ends or is a new one.
LEMMA FreshStep ==
    ASSUME TypeOK, Fresh, NEW s \in Sessions, NEW d \in Call, NEW w \in Work, NEW t \in Table,
           call' = [call EXCEPT ![s] = d], uow' = [uow EXCEPT ![s] = w], committed' = t,
           attempts' \in Nat, attempts <= attempts',
           AttemptsOf(w.ins) \subseteq AttemptsOf(uow[s].ins) \cup {call[s].attempt},
           call[s].pc = "idle" => AttemptsOf(w.ins) \subseteq AttemptsOf(uow[s].ins),
           AttemptsOf(t.rows) \subseteq AttemptsOf(committed.rows) \cup AttemptsOf(uow[s].ins),
           \/ d.pc = "idle" /\ d.attempt = 0
           \/ /\ d.attempt = call[s].attempt
              /\ call[s].pc # "idle" /\ d.pc \notin {"idle", "exists"}
              /\ t = committed \/ call[s].pc = "exists"
           \/ /\ d.pc # "idle"
              /\ d.attempt = attempts + 1 /\ attempts' = attempts + 1
              /\ t = committed /\ w = uow[s]
    PROVE  Fresh'
<1> DEFINE A == AttemptsOf(committed.rows)
           B(o) == AttemptsOf(uow[o].ins)
<1>1. /\ call'[s] = d /\ uow'[s] = w
      /\ \A o \in Sessions : o # s => call'[o] = call[o] /\ uow'[o] = uow[o]
  BY DEF TypeOK
<1>2. /\ attempts \in Nat /\ \A o \in Sessions : call[o].attempt \in Nat
      /\ A \subseteq 0..attempts /\ \A o \in Sessions : B(o) \subseteq 0..attempts
  BY IngestAssumption DEF IngestAssumption, TypeOK, Call, Fresh
<1>3. \A o \in Sessions :
         /\ call[o].attempt <= attempts
         /\ call[o].pc = "idle" => call[o].attempt = 0
         /\ call[o].pc # "idle" =>
               /\ call[o].attempt # 0 /\ call[o].attempt \notin A
               /\ \A r \in Sessions : r # o => call[o].attempt # call[r].attempt
                                               /\ call[o].attempt \notin B(r)
         /\ call[o].pc = "exists" => call[o].attempt \notin B(o)
  BY DEF Fresh, Others
<1>4. AttemptsOf(t.rows) \subseteq 0..attempts' /\ AttemptsOf(w.ins) \subseteq 0..attempts'
  BY <1>2, <1>3
<1>5. d.attempt <= attempts' /\ d.attempt \in Nat
  BY <1>2, <1>3
<1>6. ASSUME NEW o \in Sessions, o # s, call[o].pc # "idle"
      PROVE  /\ call[o].attempt \notin AttemptsOf(t.rows) \cup AttemptsOf(w.ins)
             /\ call[o].attempt # d.attempt
  BY <1>2, <1>3, <1>6
<1>7. ASSUME d.pc # "idle", NEW r \in Sessions, r # s
      PROVE  /\ d.attempt \notin {0} \cup AttemptsOf(t.rows) \cup B(r)
             /\ d.attempt # call[r].attempt
  BY <1>2, <1>3, <1>7
<1>8. ASSUME d.pc # "idle" PROVE d.attempt \notin {0} \cup AttemptsOf(t.rows)
  BY <1>2, <1>3, <1>8
<1>9. d.pc = "exists" => d.attempt \notin AttemptsOf(w.ins)
  BY <1>2
<1> HIDE DEF A, B
<1>10. ASSUME NEW o \in Sessions
       PROVE  /\ AttemptsOf(uow'[o].ins) \subseteq 0..attempts'
              /\ call'[o].attempt <= attempts'
              /\ call'[o].pc = "idle" => call'[o].attempt = 0
              /\ call'[o].pc # "idle" =>
                    /\ call'[o].attempt \notin {0} \cup AttemptsOf(committed'.rows)
                    /\ \A r \in Sessions \ {o} :
                          call'[o].attempt \notin {call'[r].attempt} \cup AttemptsOf(uow'[r].ins)
              /\ call'[o].pc = "exists" => call'[o].attempt \notin AttemptsOf(uow'[o].ins)
  <2>1. CASE o = s
    <3>1. \A r \in Sessions \ {s} : call'[r] = call[r] /\ AttemptsOf(uow'[r].ins) = B(r)
      BY <1>1 DEF B
    <3> QED BY <1>1, <1>4, <1>5, <1>7, <1>8, <1>9, <2>1, <3>1
  <2>2. CASE o # s
    <3>1. AttemptsOf(uow'[o].ins) = B(o) /\ B(o) \subseteq 0..attempts'
      BY <1>1, <1>2, <2>2 DEF B
    <3>2. ASSUME call[o].pc # "idle", NEW r \in Sessions, r # o
          PROVE  call[o].attempt \notin {call'[r].attempt} \cup AttemptsOf(uow'[r].ins)
      <4>1. CASE r = s
        BY <1>1, <1>6, <2>2, <3>2, <4>1
      <4>2. CASE r # s
        <5>1. AttemptsOf(uow'[r].ins) = B(r) /\ call'[r] = call[r]
          BY <1>1, <4>2 DEF B
        <5> QED BY <1>3, <3>2, <5>1
      <4> QED BY <4>1, <4>2
    <3>3. call[o].attempt <= attempts'
      BY <1>2, <1>3
    <3> QED BY <1>1, <1>3, <1>6, <2>2, <3>1, <3>2, <3>3
  <2> QED BY <2>1, <2>2
<1>11. AttemptsOf(committed'.rows) \subseteq 0..attempts'
  BY <1>4
<1> QED BY <1>10, <1>11 DEF Fresh, Others

---------------------------------------------------------------------------
(* Steps of a call *)

\* What a step of session s establishes, put together.
LEMMA StepInv ==
    ASSUME IngestInv, NEW s \in Sessions, NEW d \in Call, NEW w \in Work,
           call' = [call EXCEPT ![s] = d], uow' = [uow EXCEPT ![s] = w],
           up' \in [Sessions -> BOOLEAN], bound' \in [Sessions -> BOOLEAN],
           attempts' \in 0..MaxAttempts, committed' \in Table,
           Counted(d), InPlace(d, w), Fresh', Locked', Founded'
    PROVE  IngestInv'
<1>1. TypeOK'
  BY DEF IngestInv, TypeOK
<1>2. ASSUME NEW o \in Sessions PROVE Counted(call[o])' /\ InPlace(call[o], uow[o])'
  <2>1. CASE o = s
    <3>1. call'[o] = d /\ uow'[o] = w
      BY <2>1 DEF IngestInv, TypeOK
    <3> QED BY <3>1 DEF Counted, InPlace
  <2>2. CASE o # s
    <3>1. call'[o] = call[o] /\ uow'[o] = uow[o] /\ Counted(call[o]) /\ InPlace(call[o], uow[o])
      BY <2>2 DEF IngestInv, TypeOK
    <3> QED BY <3>1 DEF Counted, InPlace
  <2> QED BY <2>1, <2>2
<1> QED BY <1>1, <1>2 DEF IngestInv

\* A call that returned has counted nothing and created nothing.
LEMMA Returned ==
    ASSUME TypeOK, NEW s \in Sessions, NEW r \in {"ok", "error"}, Return(s, r)
    PROVE  \E d \in Call : /\ call' = [call EXCEPT ![s] = d]
                           /\ Counted(d) /\ \A w \in Work : InPlace(d, w)
                           /\ d.pc = "idle" /\ d.attempt = 0
                           /\ bound' \in [Sessions -> BOOLEAN]
<1> DEFINE d == [NoCall EXCEPT !.result = r]
<1>1. <<>> \in Records /\ 0 \in 0..MaxAttempts /\ 0 \in 0..MaxRecords
  BY NoRecord, IngestAssumption DEF IngestAssumption
<1>2. d \in Call
  BY <1>1 DEF NoCall, Call, Modes
<1>3. Counted(d)
  BY DEF NoCall, Counted
<1>4. ASSUME NEW w \in Work PROVE InPlace(d, w)
  <2>1. Len(w.ins) \in Nat
    BY DEF Work
  <2> QED BY <2>1 DEF NoCall, InPlace
<1>5. d.pc = "idle" /\ d.attempt = 0
  BY DEF NoCall
<1>6. call' = [call EXCEPT ![s] = d] /\ bound' \in [Sessions -> BOOLEAN]
  BY DEF Return, TypeOK
<1> HIDE DEF d
<1> QED BY <1>2, <1>3, <1>4, <1>5, <1>6

\* The session's work is kept, rolled back or committed, while it has inserted nothing
\* or as the call returns.
LEMMA SettleInv ==
    ASSUME IngestInv, NEW s \in Sessions, NEW d \in Call, call' = [call EXCEPT ![s] = d],
           Counted(d), \A w \in Work : InPlace(d, w),
           up' \in [Sessions -> BOOLEAN], bound' \in [Sessions -> BOOLEAN],
           attempts' \in 0..MaxAttempts, attempts <= attempts',
           \/ d.pc = "idle" /\ d.attempt = 0
           \/ /\ call[s].pc = "exists" /\ d.pc \notin {"idle", "exists"}
              /\ d.attempt = call[s].attempt,
           \/ uow' = uow /\ committed' = committed
           \/ RollbackWork(s) /\ committed' = committed
           \/ CommitWork(s)
    PROVE  IngestInv'
<1>1. TypeOK /\ Fresh /\ Locked /\ Founded
  BY DEF IngestInv
<1>2. uow[s] \in Work /\ committed \in Table /\ uow \in [Sessions -> Work]
  BY <1>1 DEF TypeOK
<1>3. attempts' \in Nat /\ attempts \in Nat
  BY <1>1, IngestAssumption DEF IngestAssumption, TypeOK
<1>4. uow[s].ins \in Seq(Row) /\ committed.rows \in Seq(Row) /\ uow[s].base.rows = <<>>
  BY <1>1, <1>2 DEF Work, Table, Founded
<1>5. Locked' /\ Founded'
  BY <1>1, KeepWork, ClearWork, CommitWorkTables
<1>6. CASE uow' = uow /\ committed' = committed
  <2>1. uow' = [uow EXCEPT ![s] = uow[s]]
    BY <1>2, <1>6
  <2>2. Fresh'
    BY <1>1, <1>2, <1>3, <1>6, <2>1, FreshStep
  <2> QED BY <1>2, <1>5, <1>6, <2>1, <2>2, StepInv
<1>7. CASE uow' = [uow EXCEPT ![s] = NoWork]
  <2>1. NoWork \in Work /\ AttemptsOf(NoWork.ins) = {}
    BY ConstantTypes, NoAttempts
  <2>2. /\ committed' \in Table
        /\ AttemptsOf(committed'.rows) \subseteq AttemptsOf(committed.rows) \cup AttemptsOf(uow[s].ins)
    <3>1. CASE committed' = committed
      BY <1>2, <3>1
    <3>2. CASE committed' = View(s)
      <4>1. committed' = Made(uow[s], committed)
        BY <3>2, ViewIsMade
      <4>2. committed' \in Table
        BY <1>2, <4>1, MadeParts
      <4>3. committed'.rows = committed.rows \o uow[s].ins \/ committed'.rows = <<>> \o uow[s].ins
        BY <1>2, <1>4, <4>1, MadeParts
      <4>4. <<>> \o uow[s].ins = uow[s].ins
        BY <1>4
      <4> QED BY <1>4, <4>2, <4>3, <4>4, ConcatAttempts
    <3> QED BY <3>1, <3>2 DEF CommitWork
  <2>3. PICK t \in Table : t = committed'
    BY <2>2
  <2>4. Fresh'
    BY <1>1, <1>2, <1>3, <1>7, <2>1, <2>2, <2>3, FreshStep
  <2> QED BY <1>5, <1>7, <2>1, <2>2, <2>4, StepInv
<1> QED BY <1>6, <1>7 DEF RollbackWork, CommitWork

\* The call returns.
LEMMA ReturnInv ==
    ASSUME IngestInv, NEW s \in Sessions, NEW r \in {"ok", "error"}, Return(s, r),
           up' \in [Sessions -> BOOLEAN], attempts' \in 0..MaxAttempts, attempts <= attempts',
           \/ uow' = uow /\ committed' = committed
           \/ RollbackWork(s) /\ committed' = committed
           \/ CommitWork(s)
    PROVE  IngestInv'
<1>1. PICK d \in Call : /\ call' = [call EXCEPT ![s] = d]
                        /\ Counted(d) /\ \A w \in Work : InPlace(d, w)
                        /\ d.pc = "idle" /\ d.attempt = 0
                        /\ bound' \in [Sessions -> BOOLEAN]
  BY Returned DEF IngestInv
<1> QED BY <1>1, SettleInv

\* The call goes on without touching the table.
LEMMA MoveInv ==
    ASSUME IngestInv, NEW s \in Sessions, NEW d \in Call, call' = [call EXCEPT ![s] = d],
           UNCHANGED <<up, bound, attempts, committed, uow>>,
           call[s].pc # "idle", d.pc \notin {"idle", "exists"}, d.attempt = call[s].attempt,
           Counted(d), InPlace(d, uow[s])
    PROVE  IngestInv'
<1>1. TypeOK /\ Fresh /\ Locked /\ Founded
  BY DEF IngestInv
<1>2. uow[s] \in Work /\ committed \in Table /\ uow' = [uow EXCEPT ![s] = uow[s]]
  BY <1>1 DEF TypeOK
<1>3. attempts' \in Nat /\ attempts <= attempts' /\ attempts' \in 0..MaxAttempts
  BY <1>1, IngestAssumption DEF IngestAssumption, TypeOK
<1>4. Locked' /\ Founded'
  BY <1>1, KeepWork
<1>5. Fresh'
  <2>1. PICK w \in Work, t \in Table : w = uow[s] /\ t = committed
    BY <1>2
  <2>2. uow' = [uow EXCEPT ![s] = w] /\ committed' = t
    BY <1>2, <2>1
  <2> QED BY <1>1, <1>3, <2>1, <2>2, FreshStep
<1>6. up' \in [Sessions -> BOOLEAN] /\ bound' \in [Sessions -> BOOLEAN]
  BY <1>1 DEF TypeOK
<1> QED BY <1>2, <1>3, <1>4, <1>5, <1>6, StepInv

---------------------------------------------------------------------------
(* Every action preserves the invariant *)

\* What the invariant says of one session.
LEMMA SessionFacts ==
    ASSUME IngestInv, NEW s \in Sessions
    PROVE  /\ call[s] \in Call /\ uow[s] \in Work /\ committed \in Table
           /\ call \in [Sessions -> Call] /\ uow \in [Sessions -> Work]
           /\ up \in [Sessions -> BOOLEAN] /\ bound \in [Sessions -> BOOLEAN]
           /\ attempts \in Nat /\ attempts \in 0..MaxAttempts /\ MaxAttempts \in Nat
           /\ Counted(call[s]) /\ InPlace(call[s], uow[s])
           /\ uow[s].ins \in Seq(Row) /\ uow[s].base \in Table /\ uow[s].base.rows = <<>>
           /\ Len(uow[s].ins) \in Nat
           /\ call[s].first \in Records /\ call[s].rec \in Records
           /\ Len(call[s].first) \in Nat /\ Len(call[s].rec) \in Nat
<1>1. /\ call[s] \in Call /\ uow[s] \in Work /\ committed \in Table
      /\ call \in [Sessions -> Call] /\ uow \in [Sessions -> Work]
      /\ up \in [Sessions -> BOOLEAN] /\ bound \in [Sessions -> BOOLEAN]
      /\ attempts \in 0..MaxAttempts /\ Counted(call[s]) /\ InPlace(call[s], uow[s])
  BY DEF IngestInv, TypeOK
<1>2. uow[s].ins \in Seq(Row) /\ uow[s].base \in Table /\ uow[s].base.rows = <<>>
  BY <1>1 DEF Work, IngestInv, Founded
<1>3. call[s].first \in Records /\ call[s].rec \in Records
  BY <1>1 DEF Call
<1>4. Len(uow[s].ins) \in Nat
  BY <1>2
<1>5. MaxAttempts \in Nat
  BY IngestAssumption DEF IngestAssumption
<1> QED BY <1>1, <1>2, <1>3, <1>4, <1>5, RecordTypes

LEMMA BindInv ==
    ASSUME IngestInv, NEW s \in Sessions, Bind(s)
    PROVE  IngestInv'
<1>1. UNCHANGED <<up, call, attempts, committed, uow>> /\ bound' \in [Sessions -> BOOLEAN]
  BY SessionFacts DEF Bind
<1>2. Locked' /\ Founded'
  BY <1>1, KeepWork DEF IngestInv
<1>3. Fresh'
  BY <1>1 DEF IngestInv, Fresh, Others
<1>4. \A o \in Sessions : Counted(call[o])' /\ InPlace(call[o], uow[o])'
  BY <1>1 DEF IngestInv, Counted, InPlace
<1>5. TypeOK'
  BY <1>1 DEF IngestInv, TypeOK
<1> QED BY <1>2, <1>3, <1>4, <1>5 DEF IngestInv

\* A call that is not running, or has only just started, takes no part in the work.
LEMMA NothingInPlace ==
    ASSUME NEW d \in Call, Counted(d), d.pc \in {"idle", "exists", "drop", "create", "prepare"},
           ~d.created, NEW w \in Work
    PROVE  InPlace(d, w)
<1>1. d.total = 0 /\ Len(w.ins) \in Nat
  BY DEF Counted, Work
<1> QED BY <1>1 DEF InPlace

LEMMA IdleWorkInv ==
    ASSUME IngestInv, NEW s \in Sessions, EndWork(s) \/ Rollback(s)
    PROVE  IngestInv'
<1>1. PICK d \in Call : d = call[s]
  BY SessionFacts
<1>2. d.pc = "idle" /\ UNCHANGED <<up, bound, call, attempts>>
  BY <1>1 DEF EndWork, Rollback
<1>3. call' = [call EXCEPT ![s] = d]
  BY <1>1, <1>2, SessionFacts
<1>4. d.attempt = 0
  BY <1>1, <1>2 DEF IngestInv, Fresh
<1>5. Counted(d)
  BY <1>1, SessionFacts
<1>6. \A w \in Work : InPlace(d, w)
  BY <1>2, <1>5, NothingInPlace DEF Counted
<1>7. CommitWork(s) \/ (RollbackWork(s) /\ committed' = committed)
  BY DEF EndWork, Rollback
<1>8. /\ up' \in [Sessions -> BOOLEAN] /\ bound' \in [Sessions -> BOOLEAN]
      /\ attempts' \in 0..MaxAttempts /\ attempts <= attempts'
  BY <1>2, SessionFacts
<1> QED BY <1>2, <1>3, <1>4, <1>5, <1>6, <1>7, <1>8, SettleInv

LEMMA ExecuteIngestInv ==
    ASSUME IngestInv, NEW s \in Sessions, ExecuteIngest(s)
    PROVE  IngestInv'
<1>1. /\ call[s].pc = "idle" /\ attempts' = attempts + 1 /\ attempts' \in 0..MaxAttempts
      /\ UNCHANGED <<up, committed, uow>> /\ up' \in [Sessions -> BOOLEAN]
      /\ attempts' \in Nat /\ attempts <= attempts'
  <2>1. /\ call[s].pc = "idle" /\ attempts' = attempts + 1 /\ attempts < MaxAttempts
        /\ UNCHANGED <<up, committed, uow>>
    BY Zenon DEF ExecuteIngest
  <2> QED BY <2>1, SessionFacts
<1>2. CASE Return(s, "error")
  BY <1>1, <1>2, ReturnInv
<1> DEFINE Start(mode, some, first) ==
              /\ some \/ first = <<>>
              /\ call' = [call EXCEPT ![s] =
                  [NoCall EXCEPT !.pc = IF mode = "append" THEN "prepare" ELSE "exists",
                                 !.mode = mode, !.attempt = attempts', !.first = first,
                                 !.toSend = some, !.taken = Len(first),
                                 !.records = IF some THEN 1 ELSE 0]]
              /\ UNCHANGED bound
<1>3. \/ \E mode \in Modes, some \in BOOLEAN, first \in Records : Start(mode, some, first)
      \/ Return(s, "error")
  BY Zenon DEF ExecuteIngest
<1>4. ASSUME NEW mode \in Modes, NEW some \in BOOLEAN, NEW first \in Records,
             Start(mode, some, first)
      PROVE  IngestInv'
  <2> DEFINE d == [NoCall EXCEPT !.pc = IF mode = "append" THEN "prepare" ELSE "exists",
                                 !.mode = mode, !.attempt = attempts', !.first = first,
                                 !.toSend = some, !.taken = Len(first),
                                 !.records = IF some THEN 1 ELSE 0]
  <2>1. <<>> \in Records /\ {0, 1} \subseteq 0..MaxRecords /\ Len(first) \in Nat
    BY NoRecord, RecordTypes, IngestAssumption DEF IngestAssumption
  <2>2. d \in Call
    BY <1>1, <2>1 DEF NoCall, Call
  <2>3. /\ d.pc \in {"prepare", "exists"} /\ ~d.created /\ d.attempt = attempts + 1
        /\ d.pc = "exists" => d.mode # "append"
        /\ d.toSend = some /\ d.first = first /\ d.taken = Len(first)
        /\ d.total = 0 /\ d.base = 0 /\ d.off = 0
    BY <1>1 DEF NoCall
  <2>4. call' = [call EXCEPT ![s] = d]
    BY <1>4
  <2> HIDE DEF d
  <2>5. Counted(d)
    BY <1>4, <2>3 DEF Counted
  <2>6. PICK w \in Work : w = uow[s] /\ uow' = [uow EXCEPT ![s] = w]
    BY <1>1, SessionFacts
  <2>7. PICK t \in Table : t = committed /\ committed' = t
    BY <1>1, SessionFacts
  <2>8. InPlace(d, w)
    BY <2>2, <2>3, <2>5, NothingInPlace
  <2>9. Fresh'
    BY <1>1, <2>2, <2>3, <2>4, <2>6, <2>7, FreshStep DEF IngestInv
  <2>10. Locked' /\ Founded'
    BY <1>1, KeepWork DEF IngestInv
  <2>11. bound' \in [Sessions -> BOOLEAN]
    BY <1>4, SessionFacts
  <2> QED BY <1>1, <2>2, <2>4, <2>5, <2>6, <2>7, <2>8, <2>9, <2>10, <2>11, StepInv
<1> HIDE DEF Start
<1> QED BY <1>2, <1>3, <1>4

\* A call that only moves on.
LEMMA GotoCall ==
    ASSUME IngestInv, NEW s \in Sessions,
           NEW pc \in {"drop", "create", "prepare", "next", "commit"}, Goto(s, pc)
    PROVE  \E d \in Call : /\ call' = [call EXCEPT ![s] = d] /\ bound' = bound
                           /\ d = [call[s] EXCEPT !.pc = pc]
<1>1. PICK c \in Call : c = call[s]
  BY SessionFacts
<1>2. [c EXCEPT !.pc = pc] \in Call
  BY DEF Call
<1>3. call' = [call EXCEPT ![s] = [c EXCEPT !.pc = pc]] /\ bound' = bound
  BY <1>1, SessionFacts DEF Goto
<1> QED BY <1>1, <1>2, <1>3

LEMMA TargetExistsInv ==
    ASSUME IngestInv, NEW s \in Sessions, TargetExists(s)
    PROVE  IngestInv'
<1>1. /\ call[s].pc = "exists" /\ UNCHANGED <<up, attempts>>
      /\ CommitWork(s) \/ (uow' = uow /\ committed' = committed)
  BY DEF TargetExists
<1>2. PICK c \in Call : c = call[s]
  BY SessionFacts
<1>3. /\ Counted(c) /\ c.mode \in Modes \ {"append"} /\ ~c.created
      /\ c.total = 0 /\ c.base = 0 /\ c.off = 0 /\ c.taken = Len(c.first)
      /\ ~c.toSend => c.first = <<>>
  BY <1>1, <1>2, SessionFacts DEF Counted, Call
<1>4. PICK next : /\ next = IF targetExists(s) THEN OnExisting(c.mode) ELSE "create"
                  /\ IF next = "error" THEN Return(s, "error") ELSE Goto(s, next)
  BY <1>2 DEF TargetExists
<1>5. next \in {"error", "prepare", "drop", "create"} /\ (next = "drop" => c.mode = "replace")
  BY <1>3, <1>4 DEF OnExisting, Modes
<1>6. /\ up' \in [Sessions -> BOOLEAN] /\ attempts' \in 0..MaxAttempts /\ attempts <= attempts'
  BY <1>1, SessionFacts
<1>7. CASE next = "error"
  BY <1>1, <1>4, <1>6, <1>7, ReturnInv
<1>8. CASE next # "error"
  <2>1. PICK d \in Call : /\ call' = [call EXCEPT ![s] = d] /\ bound' = bound
                          /\ d = [c EXCEPT !.pc = next]
    BY <1>2, <1>4, <1>5, <1>8, GotoCall
  <2>2. /\ d.pc = next /\ d.attempt = c.attempt /\ d.mode = c.mode /\ d.created = c.created
        /\ d.total = c.total /\ d.base = c.base /\ d.off = c.off /\ d.taken = c.taken
        /\ d.first = c.first /\ d.toSend = c.toSend
    BY <2>1 DEF Call
  <2>3. Counted(d)
    BY <1>3, <1>5, <1>8, <2>2 DEF Counted
  <2>4. \A w \in Work : InPlace(d, w)
    BY <1>3, <1>5, <1>8, <2>2, <2>3, NothingInPlace
  <2>5. bound' \in [Sessions -> BOOLEAN]
    BY <2>1, SessionFacts
  <2>6. d.pc \notin {"idle", "exists"} /\ d.attempt = call[s].attempt
    BY <1>2, <1>5, <1>8, <2>2
  <2> QED BY <1>1, <1>6, <2>1, <2>3, <2>4, <2>5, <2>6, SettleInv
<1> QED BY <1>7, <1>8

LEMMA DropTargetInv ==
    ASSUME IngestInv, NEW s \in Sessions, DropTarget(s)
    PROVE  IngestInv'
<1>1. /\ call[s].pc = "drop" /\ ExclusiveFree(s) /\ UNCHANGED <<up, attempts, committed>>
      /\ up' \in [Sessions -> BOOLEAN] /\ attempts' \in 0..MaxAttempts /\ attempts <= attempts'
      /\ attempts' \in Nat
  BY SessionFacts DEF DropTarget
<1>2. CASE uow' = uow /\ Return(s, "error")
  BY <1>1, <1>2, ReturnInv
<1>3. CASE /\ uow' = [uow EXCEPT ![s] = [NoWork EXCEPT !.ddl = TRUE, !.by = call[s].mode]]
           /\ Goto(s, "create")
  <2>1. PICK c \in Call : c = call[s]
    BY SessionFacts
  <2>2. /\ Counted(c) /\ c.mode = "replace" /\ ~c.created
        /\ c.total = 0 /\ c.base = 0 /\ c.off = 0 /\ c.taken = Len(c.first)
        /\ ~c.toSend => c.first = <<>>
    BY <1>1, <2>1, SessionFacts DEF Counted
  <2>3. PICK d \in Call : /\ call' = [call EXCEPT ![s] = d] /\ bound' = bound
                          /\ d = [c EXCEPT !.pc = "create"]
    BY <1>3, <2>1, GotoCall
  <2>4. /\ d.pc = "create" /\ d.attempt = c.attempt /\ d.created = c.created
        /\ d.total = c.total /\ d.base = c.base /\ d.off = c.off /\ d.taken = c.taken
        /\ d.first = c.first /\ d.toSend = c.toSend
    BY <2>3 DEF Call
  <2>5. Counted(d)
    BY <2>2, <2>4 DEF Counted
  <2>6. PICK w : w = [NoWork EXCEPT !.ddl = TRUE, !.by = "replace"]
    OBVIOUS
  <2>7. w \in Work /\ w.ddl /\ w.ins = <<>> /\ w.base.rows = <<>> /\ w.by = "replace"
    BY <2>6, ConstantTypes DEF NoWork, Work, Modes
  <2>8. uow' = [uow EXCEPT ![s] = w]
    BY <1>3, <2>1, <2>2, <2>6
  <2>9. InPlace(d, w)
    BY <2>2, <2>4, <2>5, <2>7, NothingInPlace
  <2>10. Locked' /\ Founded'
    BY <1>1, <2>7, <2>8, DdlWork DEF IngestInv
  <2>11. PICK t \in Table : t = committed /\ committed' = t
    BY <1>1, SessionFacts
  <2>12. Fresh'
    <3>1. AttemptsOf(w.ins) = {}
      BY <2>7, NoAttempts
    <3> QED BY <1>1, <2>1, <2>3, <2>4, <2>7, <2>8, <2>11, <3>1, FreshStep DEF IngestInv
  <2>13. bound' \in [Sessions -> BOOLEAN]
    BY <2>3, SessionFacts
  <2> QED BY <1>1, <2>3, <2>5, <2>7, <2>8, <2>9, <2>10, <2>11, <2>12, <2>13, StepInv
<1> QED BY <1>2, <1>3 DEF DropTarget

LEMMA CreateTargetInv ==
    ASSUME IngestInv, NEW s \in Sessions, CreateTarget(s)
    PROVE  IngestInv'
<1>1. /\ call[s].pc = "create" /\ ExclusiveFree(s) /\ UNCHANGED <<up, attempts, committed>>
      /\ up' \in [Sessions -> BOOLEAN] /\ attempts' \in 0..MaxAttempts /\ attempts <= attempts'
      /\ attempts' \in Nat
  BY SessionFacts DEF CreateTarget
<1>2. CASE uow' = uow /\ Return(s, "error")
  BY <1>1, <1>2, ReturnInv
<1>3. CASE ~(uow' = uow /\ Return(s, "error"))
  <2>1. PICK c \in Call, u \in Work : c = call[s] /\ u = uow[s]
    BY SessionFacts
  <2>2. /\ ~View(s).exists
        /\ uow' = [uow EXCEPT ![s].ddl = TRUE, ![s].ins = <<>>,
                              ![s].base = [exists |-> TRUE, rows |-> <<>>,
                                           width |-> varcharLengths(call[s].first)]]
        /\ call' = [call EXCEPT ![s].pc = "prepare", ![s].created = TRUE]
        /\ bound' = bound
    BY <1>3 DEF CreateTarget
  <2>3. /\ Counted(c) /\ ~c.created /\ c.first \in Records
        /\ c.total = 0 /\ c.base = 0 /\ c.off = 0 /\ c.taken = Len(c.first)
        /\ ~c.toSend => c.first = <<>>
    BY <1>1, <2>1, SessionFacts DEF Counted
  <2>4. PICK d : d = [c EXCEPT !.pc = "prepare", !.created = TRUE]
    OBVIOUS
  <2>5. /\ d \in Call /\ d.pc = "prepare" /\ d.attempt = c.attempt /\ d.created
        /\ d.total = c.total /\ d.base = c.base /\ d.off = c.off /\ d.taken = c.taken
        /\ d.first = c.first /\ d.toSend = c.toSend
    BY <2>4 DEF Call
  <2>6. call' = [call EXCEPT ![s] = d]
    BY <2>1, <2>2, <2>4, SessionFacts
  <2>7. Counted(d)
    BY <2>3, <2>5 DEF Counted
  <2>8. PICK v \in Nat : /\ v = varcharLengths(c.first)
                         /\ \A k \in 1..Len(c.first) : c.first[k] <= v \/ c.first[k] > MaxLength
    BY <2>3, ColumnFits
  <2>9. PICK b : b = [exists |-> TRUE, rows |-> <<>>, width |-> v]
    OBVIOUS
  <2>10. b \in Table /\ b.rows = <<>> /\ b.width = v
    <3>1. <<>> \in Seq(Row)
      OBVIOUS
    <3> QED BY <2>9, <3>1 DEF Table
  <2>11. PICK w : w = [u EXCEPT !.ddl = TRUE, !.ins = <<>>, !.base = b]
    OBVIOUS
  <2>12. w \in Work /\ w.ddl /\ w.ins = <<>> /\ w.base = b /\ w.by = u.by
    <3>1. <<>> \in Seq(Row)
      OBVIOUS
    <3> QED BY <2>10, <2>11, <3>1 DEF Work
  <2>13. uow' = [uow EXCEPT ![s] = w]
    BY <2>1, <2>2, <2>8, <2>9, <2>11, SessionFacts
  <2>14. InPlace(d, w)
    <3>1. Len(w.ins) = 0
      BY <2>12
    <3> QED BY <2>3, <2>5, <2>8, <2>10, <2>12, <3>1 DEF InPlace
  <2>15. w.by = "replace" \/ committed.rows = <<>>
    <3>1. CASE u.ddl
      BY <2>1, <2>12, <3>1 DEF IngestInv, Founded
    <3>2. CASE ~u.ddl
      <4>1. View(s) = Made(u, committed) /\ committed \in Table
        BY <2>1, ViewIsMade, SessionFacts
      <4>2. Made(u, committed).exists = committed.exists
        BY <3>2, <4>1, MadeParts
      <4> QED BY <2>2, <4>1, <4>2 DEF IngestInv, Founded
    <3> QED BY <3>1, <3>2
  <2>16. Locked' /\ Founded'
    BY <1>1, <2>10, <2>12, <2>13, <2>15, DdlWork DEF IngestInv
  <2>17. PICK t \in Table : t = committed /\ committed' = t
    BY <1>1, SessionFacts
  <2>18. Fresh'
    <3>1. AttemptsOf(w.ins) = {}
      BY <2>12, NoAttempts
    <3> QED BY <1>1, <2>1, <2>5, <2>6, <2>12, <2>13, <2>17, <3>1, FreshStep DEF IngestInv
  <2>19. bound' \in [Sessions -> BOOLEAN]
    BY <2>2, SessionFacts
  <2> QED BY <1>1, <2>5, <2>6, <2>7, <2>12, <2>13, <2>14, <2>16, <2>17, <2>18, <2>19, StepInv
<1> QED BY <1>2, <1>3

LEMMA PrepareInsertInv ==
    ASSUME IngestInv, NEW s \in Sessions, PrepareInsert(s)
    PROVE  IngestInv'
<1>1. /\ call[s].pc = "prepare" /\ UNCHANGED <<up, attempts, committed, uow>>
      /\ up' \in [Sessions -> BOOLEAN] /\ attempts' \in 0..MaxAttempts /\ attempts <= attempts'
  BY SessionFacts DEF PrepareInsert
<1>2. CASE Return(s, "error")
  BY <1>1, <1>2, ReturnInv
<1>3. CASE Goto(s, "next")
  <2>1. PICK c \in Call, u \in Work : c = call[s] /\ u = uow[s]
    BY SessionFacts
  <2>2. /\ Counted(c) /\ InPlace(c, u)
        /\ c.total = 0 /\ c.base = 0 /\ c.off = 0 /\ c.taken = Len(c.first)
        /\ ~c.toSend => c.first = <<>>
    BY <1>1, <2>1, SessionFacts DEF Counted
  <2>3. PICK d \in Call : /\ call' = [call EXCEPT ![s] = d] /\ bound' = bound
                          /\ d = [c EXCEPT !.pc = "next"]
    BY <1>3, <2>1, GotoCall
  <2>4. /\ d.pc = "next" /\ d.attempt = c.attempt /\ d.created = c.created
        /\ d.total = c.total /\ d.base = c.base /\ d.off = c.off /\ d.taken = c.taken
        /\ d.first = c.first /\ d.toSend = c.toSend
    BY <2>3 DEF Call
  <2>5. Counted(d)
    <3>1. Len(<<>>) = 0
      OBVIOUS
    <3> QED BY <2>2, <2>4, <3>1 DEF Counted
  <2>6. InPlace(d, u)
    BY <2>2, <2>4 DEF InPlace
  <2> QED BY <1>1, <2>1, <2>3, <2>4, <2>5, <2>6, MoveInv
<1> QED BY <1>2, <1>3 DEF PrepareInsert

LEMMA NextRecordInv ==
    ASSUME IngestInv, NEW s \in Sessions, NextRecord(s)
    PROVE  IngestInv'
<1>1. /\ call[s].pc = "next" /\ UNCHANGED <<up, attempts, committed, uow>>
      /\ up' \in [Sessions -> BOOLEAN] /\ attempts' \in 0..MaxAttempts /\ attempts <= attempts'
  BY SessionFacts DEF NextRecord
<1>2. PICK c \in Call, u \in Work : c = call[s] /\ u = uow[s]
  BY SessionFacts
<1>3. /\ Counted(c) /\ InPlace(c, u) /\ c.off = 0
      /\ ~c.toSend => c.first = <<>> /\ c.total = c.taken
      /\ c.toSend => c.total = 0 /\ c.base = 0 /\ c.taken = Len(c.first)
      /\ c.first \in Records /\ Len(c.first) \in Nat /\ c.taken \in Nat /\ c.total \in Nat
      /\ c.records \in 0..MaxRecords
  BY <1>1, <1>2, SessionFacts DEF Counted, Call
<1>4. CASE Return(s, "error")
  BY <1>1, <1>4, ReturnInv
<1>5. CASE SendFirst(s) /\ bound' = bound
  <2>1. PICK d : d = [c EXCEPT !.pc = "batch", !.rec = c.first, !.first = <<>>, !.toSend = FALSE]
    OBVIOUS
  <2>2. /\ d \in Call /\ d.pc = "batch" /\ d.attempt = c.attempt /\ d.created = c.created
        /\ d.total = c.total /\ d.base = c.base /\ d.off = c.off /\ d.taken = c.taken
        /\ d.first = <<>> /\ d.toSend = FALSE /\ d.rec = c.first
    BY <1>3, <2>1, NoRecord DEF Call
  <2>3. c.toSend /\ call' = [call EXCEPT ![s] = d]
    BY <1>2, <1>5, <2>1, SessionFacts DEF SendFirst
  <2>4. Counted(d)
    BY <1>3, <2>2, <2>3 DEF Counted
  <2>5. InPlace(d, u)
    <3>1. Len(<<>>) = 0
      OBVIOUS
    <3> QED BY <1>3, <2>2, <3>1 DEF InPlace
  <2> QED BY <1>1, <1>2, <1>5, <2>2, <2>3, <2>4, <2>5, MoveInv
<1>6. CASE SendNext(s) /\ bound' = bound
  <2>1. PICK r \in Records :
          call' = [call EXCEPT ![s].pc = "batch", ![s].rec = r, ![s].records = @ + 1,
                               ![s].base = call[s].taken, ![s].taken = @ + Len(r)]
    BY <1>6 DEF SendNext
  <2>2. ~c.toSend
    BY <1>2, <1>6 DEF SendNext
  <2>3. PICK m \in 0..MaxRecords, n \in Nat : m = c.records + 1 /\ n = c.taken + Len(r)
    <3>1. c.records \in 1..(MaxRecords - 1)
      BY <1>2, <1>6 DEF SendNext
    <3>2. MaxRecords \in Nat
      BY IngestAssumption DEF IngestAssumption
    <3>3. c.records + 1 \in 0..MaxRecords
      BY <3>1, <3>2
    <3>4. c.taken + Len(r) \in Nat
      BY <1>3, RecordTypes
    <3> QED BY <3>3, <3>4
  <2>4. PICK d : d = [c EXCEPT !.pc = "batch", !.rec = r, !.records = m,
                               !.base = c.taken, !.taken = n]
    OBVIOUS
  <2>5. /\ d \in Call /\ d.pc = "batch" /\ d.attempt = c.attempt /\ d.created = c.created
        /\ d.total = c.total /\ d.base = c.taken /\ d.off = c.off /\ d.taken = n
        /\ d.first = c.first /\ d.toSend = c.toSend /\ d.rec = r
    BY <1>3, <2>4 DEF Call
  <2>6. call' = [call EXCEPT ![s] = d]
    <3>1. c.records + 1 = m /\ c.taken + Len(r) = n
      BY <2>3
    <3> QED BY <1>2, <2>1, <2>4, <3>1, SessionFacts
  <2>7. Counted(d)
    <3>1. d.taken = d.base + Len(d.rec) /\ d.total = d.base + d.off
      BY <1>3, <2>2, <2>3, <2>5
    <3> QED BY <1>3, <2>2, <2>5, <3>1 DEF Counted
  <2>8. InPlace(d, u)
    BY <1>3, <2>5 DEF InPlace
  <2> QED BY <1>1, <1>2, <1>6, <2>5, <2>6, <2>7, <2>8, MoveInv
<1>7. CASE ~call[s].toSend /\ Goto(s, "commit")
  <2>1. PICK d \in Call : /\ call' = [call EXCEPT ![s] = d] /\ bound' = bound
                          /\ d = [c EXCEPT !.pc = "commit"]
    BY <1>2, <1>7, GotoCall
  <2>2. /\ d.pc = "commit" /\ d.attempt = c.attempt /\ d.created = c.created
        /\ d.total = c.total /\ d.taken = c.taken
        /\ d.first = c.first /\ d.toSend = c.toSend
    BY <2>1 DEF Call
  <2>3. Counted(d)
    BY <1>2, <1>3, <1>7, <2>2 DEF Counted
  <2>4. InPlace(d, u)
    BY <1>3, <2>2 DEF InPlace
  <2> QED BY <1>1, <1>2, <2>1, <2>2, <2>3, <2>4, MoveInv
<1> QED BY <1>4, <1>5, <1>6, <1>7 DEF NextRecord

\* The rows of a batch: as many as it has, in the places after those sent before.
LEMMA RowsOfBatch ==
    ASSUME NEW c \in Call, NEW i \in Nat, NEW j \in Nat, i <= j
    PROVE  /\ Rows(c, i, j) \in Seq(Row) /\ Len(Rows(c, i, j)) = j - i
           /\ \A k \in 1..(j - i) :
                 Rows(c, i, j)[k] = [attempt |-> c.attempt, at |-> c.base + i + k]
           /\ AttemptsOf(Rows(c, i, j)) \subseteq {c.attempt}
           /\ i = j => Rows(c, i, j) = <<>>
<1>1. j - i \in Nat /\ c.attempt \in 0..MaxAttempts /\ c.base \in Nat
  BY DEF Call
<1>2. \A k \in 1..(j - i) : [attempt |-> c.attempt, at |-> c.base + i + k] \in Row
  BY <1>1 DEF Row
<1>3. Rows(c, i, j) \in [1..(j - i) -> Row]
  BY <1>2 DEF Rows
<1>4. Rows(c, i, j) \in Seq(Row) /\ Len(Rows(c, i, j)) = j - i
  BY <1>1, <1>3
<1>5. \A k \in 1..(j - i) : Rows(c, i, j)[k] = [attempt |-> c.attempt, at |-> c.base + i + k]
  BY DEF Rows
<1>6. AttemptsOf(Rows(c, i, j)) \subseteq {c.attempt}
  <2> SUFFICES ASSUME NEW k \in 1..Len(Rows(c, i, j)) PROVE Rows(c, i, j)[k].attempt = c.attempt
    BY DEF AttemptsOf
  <2>1. k \in 1..(j - i)
    BY <1>4
  <2> QED BY <2>1 DEF Rows
<1>7. i = j => Rows(c, i, j) = <<>>
  BY <1>4
<1> QED BY <1>4, <1>5, <1>6, <1>7

LEMMA ShiftByBatch ==
    \A L, b, i, j, k \in Int : (L + (j - i)) - (b + j) + k = L - (b + i) + k
OBVIOUS

\* A batch that was inserted whole continues what is in place.
LEMMA InPlaceBatch ==
    ASSUME NEW c \in Call, NEW d \in Call, NEW u \in Work, NEW w \in Work, NEW n \in Nat,
           Counted(c), c.pc = "batch", InPlace(c, u), c.off <= n,
           w.ins = u.ins \o Rows(c, c.off, n), w.ddl = u.ddl, w.base = u.base,
           d.total = c.base + n, d.attempt = c.attempt, d.created = c.created,
           d.first = <<>>
    PROVE  InPlace(d, w)
<1>1. c.off \in Nat /\ c.base \in Nat /\ c.total = c.base + c.off /\ d.total \in Nat
  BY DEF Call, Counted
<1>2. PICK L \in Nat, r \in Seq(Row) : L = Len(u.ins) /\ r = Rows(c, c.off, n) /\ u.ins \in Seq(Row)
  <2>1. u.ins \in Seq(Row) /\ Len(u.ins) \in Nat
    BY DEF Work
  <2>2. Rows(c, c.off, n) \in Seq(Row)
    BY <1>1, RowsOfBatch
  <2> QED BY <2>1, <2>2
<1>3. Len(r) = n - c.off /\ \A k \in 1..(n - c.off) :
                               r[k] = [attempt |-> c.attempt, at |-> c.base + c.off + k]
  <2>1. PICK i \in Nat : i = c.off /\ i <= n /\ Len(Rows(c, i, n)) = n - i
    BY <1>1, RowsOfBatch
  <2>2. r = [k \in 1..(n - c.off) |-> [attempt |-> c.attempt, at |-> c.base + c.off + k]]
    BY <1>2 DEF Rows
  <2> QED BY <1>2, <2>1, <2>2
<1>4. /\ w.ins = u.ins \o r /\ Len(w.ins) = L + (n - c.off)
      /\ \A m \in 1..L : w.ins[m] = u.ins[m]
      /\ \A m \in 1..(n - c.off) : w.ins[L + m] = r[m]
  <2>1. w.ins = u.ins \o r /\ Len(w.ins) = Len(u.ins) + Len(r)
    BY <1>2
  <2>2. \A i \in 1..(Len(u.ins) + Len(r)) :
           (u.ins \o r)[i] = IF i <= Len(u.ins) THEN u.ins[i] ELSE r[i - Len(u.ins)]
    BY <1>2, ConcatProperties
  <2>3. PICK M \in Nat : M = Len(r) /\ M = n - c.off
    BY <1>1, <1>3
  <2>4. ASSUME NEW m \in 1..L PROVE w.ins[m] = u.ins[m]
    <3>1. m \in 1..(L + M) /\ m <= L
      OBVIOUS
    <3> QED BY <1>2, <2>1, <2>2, <2>3, <3>1
  <2>5. ASSUME NEW m \in 1..M PROVE w.ins[L + m] = r[m]
    <3>1. PICK i \in 1..(L + M) : i = L + m /\ ~(i <= L) /\ i - L = m
      OBVIOUS
    <3>2. (u.ins \o r)[i] = r[i - L]
      BY <1>2, <2>2, <2>3, <3>1
    <3> QED BY <2>1, <3>1, <3>2
  <2> QED BY <1>2, <2>1, <2>3, <2>4, <2>5
<1>5. c.total <= L /\ \A k \in 1..c.total : u.ins[L - c.total + k] = [attempt |-> c.attempt, at |-> k]
  BY <1>2 DEF InPlace
<1>6. d.total <= Len(w.ins)
  BY <1>1, <1>4, <1>5
<1>7. ASSUME NEW k \in 1..d.total
      PROVE  w.ins[Len(w.ins) - d.total + k] = [attempt |-> d.attempt, at |-> k]
  <2>1. Len(w.ins) - d.total + k = L - c.total + k
    <3>1. (L + (n - c.off)) - (c.base + n) + k = L - (c.base + c.off) + k
      BY <1>1, ShiftByBatch
    <3>2. Len(w.ins) = L + (n - c.off)
      BY <1>4
    <3> QED BY <1>1, <3>1, <3>2
  <2>2. CASE k <= c.total
    <3>1. L - c.total + k \in 1..L /\ k \in 1..c.total
      BY <1>1, <1>5, <2>2
    <3> QED BY <1>4, <1>5, <2>1, <3>1
  <2>3. CASE k > c.total
    <3>1. PICK m \in 1..(n - c.off) : m = k - c.total
      BY <1>1, <2>3
    <3>2. L - c.total + k = L + m /\ c.base + c.off + m = k
      BY <1>1, <3>1
    <3> QED BY <1>3, <1>4, <2>1, <3>2
  <2>4. k <= c.total \/ k > c.total
    BY <1>1
  <2> QED BY <2>2, <2>3, <2>4
<1>8. d.created => /\ w.ddl
                   /\ Len(w.ins) = d.total
                   /\ \A k \in 1..Len(d.first) : d.first[k] <= w.base.width \/ d.first[k] > MaxLength
  <2>1. c.created => u.ddl /\ L = c.total
    BY <1>2 DEF InPlace
  <2>2. Len(<<>>) = 0
    OBVIOUS
  <2> QED BY <1>1, <1>4, <2>1, <2>2
<1> QED BY <1>6, <1>7, <1>8 DEF InPlace

\* The batch or its beginning is inserted.
LEMMA InsertInv ==
    ASSUME IngestInv, NEW s \in Sessions, call[s].pc = "batch", SharedFree(s),
           NEW n \in Nat, call[s].off <= n, View(s).exists \/ n = call[s].off,
           Insert(s, Rows(call[s], call[s].off, n)), UNCHANGED <<up, attempts>>,
           NEW d \in Call, call' = [call EXCEPT ![s] = d], bound' \in [Sessions -> BOOLEAN],
           Counted(d),
           \/ d.pc = "idle" /\ d.attempt = 0 /\ \A w \in Work : InPlace(d, w)
           \/ /\ d.pc = "batch" /\ d.attempt = call[s].attempt /\ d.first = <<>>
              /\ d.total = call[s].base + n /\ d.created = call[s].created
    PROVE  IngestInv'
<1>1. PICK c \in Call, u \in Work, t \in Table : c = call[s] /\ u = uow[s] /\ t = committed
  BY SessionFacts
<1>2. c.off \in Nat
  BY DEF Call
<1>3. PICK r \in Seq(Row) : /\ r = Rows(c, c.off, n) /\ AttemptsOf(r) \subseteq {c.attempt}
                            /\ c.off = n => r = <<>>
  BY <1>1, <1>2, RowsOfBatch
<1>4. PICK w : w = [u EXCEPT !.ins = @ \o r]
  OBVIOUS
<1>5. /\ u.ins \in Seq(Row) /\ u.ins \o r \in Seq(Row)
      /\ AttemptsOf(u.ins \o r) \subseteq AttemptsOf(u.ins) \cup {c.attempt}
      /\ r = <<>> => u.ins \o r = u.ins
  <2>1. u.ins \in Seq(Row)
    BY DEF Work
  <2>2. u.ins \o r \in Seq(Row) /\ (r = <<>> => u.ins \o r = u.ins)
    BY <1>3, <2>1, ConcatProperties, ConcatEmptySeq
  <2>3. AttemptsOf(u.ins \o r) \subseteq AttemptsOf(u.ins) \cup AttemptsOf(r)
    BY <1>3, <2>1, ConcatAttempts
  <2> QED BY <1>3, <2>1, <2>2, <2>3
<1>6. w \in Work /\ w.ins = u.ins \o r /\ w.ddl = u.ddl /\ w.by = u.by /\ w.base = u.base
  BY <1>4, <1>5 DEF Work
<1>7. uow' = [uow EXCEPT ![s] = w] /\ committed' = t
  BY <1>1, <1>3, <1>4, SessionFacts DEF Insert
<1>8. ~View(s).exists => w.ins = uow[s].ins
  BY <1>1, <1>3, <1>5, <1>6
<1>9. Locked' /\ Founded'
  BY <1>1, <1>6, <1>7, <1>8, InsertWork DEF IngestInv
<1>10. attempts' \in Nat /\ attempts <= attempts' /\ attempts' \in 0..MaxAttempts
  BY SessionFacts
<1>11. Fresh'
  BY <1>1, <1>5, <1>6, <1>7, <1>10, FreshStep DEF IngestInv
<1>12. InPlace(d, w)
  <2>1. Counted(c) /\ InPlace(c, u)
    BY <1>1, SessionFacts
  <2> QED BY <1>1, <1>3, <1>6, <2>1, InPlaceBatch
<1>13. up' \in [Sessions -> BOOLEAN]
  BY SessionFacts
<1> QED BY <1>6, <1>7, <1>9, <1>10, <1>11, <1>12, <1>13, StepInv

LEMMA ExecBatchInv ==
    ASSUME IngestInv, NEW s \in Sessions, ExecBatch(s)
    PROVE  IngestInv'
<1>1. PICK c \in Call, u \in Work : c = call[s] /\ u = uow[s]
  BY SessionFacts
<1>2. PICK end : end = BatchEnd(c.rec, c.off)
  OBVIOUS
<1>3. c.pc = "batch" /\ UNCHANGED <<up, attempts>>
  BY <1>1 DEF ExecBatch
<1>4. /\ Counted(c) /\ InPlace(c, u) /\ ~c.toSend /\ c.first = <<>>
      /\ c.taken = c.base + Len(c.rec) /\ c.total = c.base + c.off
      /\ c.off \in Nat /\ c.base \in Nat /\ c.total \in Nat
  BY <1>1, <1>3, SessionFacts DEF Counted, Call
<1>5. CASE /\ c.off = Len(c.rec)
           /\ call' = [call EXCEPT ![s].pc = "next", ![s].rec = <<>>, ![s].off = 0]
           /\ UNCHANGED <<bound, committed, uow>>
  <2>1. PICK d : d = [c EXCEPT !.pc = "next", !.rec = <<>>, !.off = 0]
    OBVIOUS
  <2>2. /\ d \in Call /\ d.pc = "next" /\ d.attempt = c.attempt /\ d.created = c.created
        /\ d.total = c.total /\ d.off = 0 /\ d.taken = c.taken
        /\ d.first = c.first /\ d.toSend = c.toSend
    BY <2>1, NoRecord DEF Call
  <2>3. call' = [call EXCEPT ![s] = d]
    BY <1>1, <1>5, <2>1, SessionFacts
  <2>4. Counted(d)
    BY <1>4, <1>5, <2>2 DEF Counted
  <2>5. InPlace(d, u)
    BY <1>4, <2>2 DEF InPlace
  <2> QED BY <1>1, <1>3, <1>5, <2>2, <2>3, <2>4, <2>5, MoveInv
<1>6. ASSUME SharedFree(s),
             NEW n \in c.off..(IF View(s).exists THEN Fitting(s, c.off, end) ELSE c.off),
             Insert(s, Rows(c, c.off, n)),
             \/ /\ n = end
                /\ call' = [call EXCEPT ![s].off = end, ![s].total = @ + (end - c.off)]
                /\ bound' = bound
             \/ Return(s, "error")
      PROVE  IngestInv'
  <2>1. n \in Nat /\ c.off <= n
    BY <1>4
  <2>2. View(s).exists \/ n = c.off
    BY <1>4
  <2>3. CASE Return(s, "error")
    <3>1. PICK d \in Call : /\ call' = [call EXCEPT ![s] = d]
                            /\ Counted(d) /\ \A w \in Work : InPlace(d, w)
                            /\ d.pc = "idle" /\ d.attempt = 0
                            /\ bound' \in [Sessions -> BOOLEAN]
      BY <2>3, Returned DEF IngestInv
    <3> QED BY <1>1, <1>3, <1>6, <2>1, <2>2, <3>1, InsertInv
  <2>4. CASE /\ n = end
             /\ call' = [call EXCEPT ![s].off = end, ![s].total = @ + (end - c.off)]
             /\ bound' = bound
    <3>1. PICK m \in Nat : m = c.total + (n - c.off) /\ m = c.base + n
      BY <1>4, <2>1
    <3>2. PICK d : d = [c EXCEPT !.off = n, !.total = m]
      OBVIOUS
    <3>3. /\ d \in Call /\ d.pc = "batch" /\ d.attempt = c.attempt /\ d.created = c.created
          /\ d.total = m /\ d.off = n /\ d.taken = c.taken /\ d.base = c.base /\ d.rec = c.rec
          /\ d.first = c.first /\ d.toSend = c.toSend
      BY <1>3, <2>1, <3>2 DEF Call
    <3>4. call' = [call EXCEPT ![s] = d]
      BY <1>1, <2>4, <3>1, <3>2, SessionFacts
    <3>5. Counted(d)
      BY <1>4, <3>1, <3>3 DEF Counted
    <3>6. bound' \in [Sessions -> BOOLEAN]
      BY <2>4, SessionFacts
    <3> QED BY <1>1, <1>3, <1>4, <1>6, <2>1, <2>2, <3>1, <3>3, <3>4, <3>5, <3>6, InsertInv
  <2> QED BY <1>6, <2>3, <2>4
<1> QED BY <1>1, <1>2, <1>5, <1>6 DEF ExecBatch

\* The steps that end a call or lose its work.
LEMMA EndingInv ==
    ASSUME IngestInv, NEW s \in Sessions,
           Finish(s) \/ LockTimeout(s) \/ CommandFails(s) \/ LinkBreaks(s)
    PROVE  IngestInv'
<1>1. /\ attempts' \in 0..MaxAttempts /\ attempts <= attempts'
  BY SessionFacts DEF Finish, LockTimeout, CommandFails, LinkBreaks
<1>2. up' \in [Sessions -> BOOLEAN]
  BY SessionFacts DEF Finish, LockTimeout, CommandFails, LinkBreaks
<1>3. PICK r \in {"ok", "error"} : Return(s, r)
  BY DEF Finish, LockTimeout, CommandFails, LinkBreaks
<1>4. \/ uow' = uow /\ committed' = committed
      \/ RollbackWork(s) /\ committed' = committed
      \/ CommitWork(s)
  BY DEF Finish, LockTimeout, CommandFails, LinkBreaks
<1> QED BY <1>1, <1>2, <1>3, <1>4, ReturnInv

---------------------------------------------------------------------------
(* The invariant *)

LEMMA InitInv == Init => IngestInv
<1> SUFFICES ASSUME Init PROVE IngestInv
  OBVIOUS
<1>1. NoCall \in Call /\ NoWork \in Work /\ NoTable \in Table
  <2>1. <<>> \in Records /\ 0 \in 0..MaxAttempts /\ 0 \in 0..MaxRecords
    BY NoRecord, IngestAssumption DEF IngestAssumption
  <2> QED BY <2>1, ConstantTypes DEF NoCall, Call, Modes
<1>2. /\ OldTable \in Table /\ OldTable.exists /\ AttemptsOf(OldTable.rows) \subseteq {0}
      /\ MaxAttempts \in Nat
  <2>1. MaxLength \in Nat /\ MaxAttempts \in Nat
    BY IngestAssumption DEF IngestAssumption
  <2>2. [attempt |-> 0, at |-> 1] \in Row
    BY <2>1 DEF Row
  <2>3. <<[attempt |-> 0, at |-> 1]>> \in Seq(Row)
    BY <2>2
  <2>4. OldTable.rows = <<[attempt |-> 0, at |-> 1]>> /\ Len(<<[attempt |-> 0, at |-> 1]>>) = 1
    BY DEF OldTable
  <2>5. ASSUME NEW i \in 1..1 PROVE <<[attempt |-> 0, at |-> 1]>>[i].attempt = 0
    OBVIOUS
  <2>6. AttemptsOf(OldTable.rows) \subseteq {0}
    BY <2>4, <2>5 DEF AttemptsOf
  <2> QED BY <2>1, <2>3, <2>6 DEF OldTable, Table
<1>3. /\ \A s \in Sessions : call[s] = NoCall /\ uow[s] = NoWork
      /\ attempts = 0 /\ committed \in {NoTable, OldTable}
  BY DEF Init
<1>4. TypeOK
  BY <1>1, <1>2 DEF Init, TypeOK
<1>5. Counted(NoCall) /\ InPlace(NoCall, NoWork)
  <2>1. Counted(NoCall)
    BY DEF Counted, NoCall
  <2> QED BY <1>1, <2>1, NothingInPlace DEF NoCall
<1>6. Fresh
  <2>1. AttemptsOf(committed.rows) \subseteq {0}
    BY <1>2, <1>3, ConstantTypes, NoAttempts
  <2>2. \A s \in Sessions : call[s].pc = "idle" /\ call[s].attempt = 0
    BY <1>3 DEF NoCall
  <2>3. \A s \in Sessions : AttemptsOf(uow[s].ins) = {}
    BY <1>3, ConstantTypes, NoAttempts
  <2> QED BY <1>3, <2>1, <2>2, <2>3 DEF Fresh
<1>7. Locked
  BY <1>3, ConstantTypes DEF Locked
<1>8. Founded
  BY <1>2, <1>3, ConstantTypes DEF Founded
<1> QED BY <1>3, <1>4, <1>5, <1>6, <1>7, <1>8 DEF IngestInv

LEMMA NextInv == IngestInv /\ [Next]_vars => IngestInv'
<1> SUFFICES ASSUME IngestInv, [Next]_vars PROVE IngestInv'
  OBVIOUS
<1>1. CASE UNCHANGED vars
  <2>1. UNCHANGED <<up, bound, call, attempts, committed, uow>>
    BY <1>1 DEF vars
  <2>2. Locked' /\ Founded'
    BY <2>1, KeepWork DEF IngestInv
  <2>3. TypeOK' /\ Fresh'
    BY <2>1 DEF IngestInv, TypeOK, Fresh, Others
  <2>4. \A o \in Sessions : Counted(call[o])' /\ InPlace(call[o], uow[o])'
    BY <2>1 DEF IngestInv, Counted, InPlace
  <2> QED BY <2>2, <2>3, <2>4 DEF IngestInv
<1>2. CASE Next
  <2>1. PICK s \in Sessions :
          \/ Bind(s) \/ EndWork(s) \/ Rollback(s) \/ ExecuteIngest(s)
          \/ IngestStep(s) \/ CommandFails(s) \/ LinkBreaks(s)
    BY <1>2 DEF Next
  <2>2. CASE IngestStep(s)
    BY <2>2, TargetExistsInv, DropTargetInv, CreateTargetInv, PrepareInsertInv, NextRecordInv,
       ExecBatchInv, EndingInv DEF IngestStep
  <2>3. CASE Bind(s) \/ EndWork(s) \/ Rollback(s) \/ ExecuteIngest(s)
    BY <2>3, BindInv, IdleWorkInv, ExecuteIngestInv
  <2>4. CASE CommandFails(s) \/ LinkBreaks(s)
    BY <2>4, EndingInv
  <2> QED BY <2>1, <2>2, <2>3, <2>4
<1> QED BY <1>1, <1>2

LEMMA Invariant == Spec => []IngestInv
BY InitInv, NextInv, PTL DEF Spec

---------------------------------------------------------------------------
(* Theorems *)

\* Every variable of an ingest and of the table keeps its type, whatever sessions do.
THEOREM IngestTypes == Spec => []TypeOK
<1>1. IngestInv => TypeOK
  BY DEF IngestInv
<1> QED BY <1>1, Invariant, PTL

\* No row of an ingest that is still running is in the committed table: the batches are
\* one unit of work, and the commits in between (catalog queries in autocommit mode,
\* other sessions) find none of them.
THEOREM IngestIsAtomic == Spec => []NothingCommittedEarly
<1>1. IngestInv => NothingCommittedEarly
  <2> SUFFICES ASSUME IngestInv, NEW s \in Sessions, call[s].pc # "idle",
                      NEW i \in 1..Len(committed.rows)
               PROVE  committed.rows[i].attempt # call[s].attempt
    BY DEF NothingCommittedEarly
  <2>1. call[s].attempt \notin AttemptsOf(committed.rows)
    BY DEF IngestInv, Fresh
  <2> QED BY <2>1 DEF AttemptsOf
<1> QED BY <1>1, Invariant, PTL

\* A table created by an ingest has room for the record it was sized from, whatever the
\* lengths and the limits are.
THEOREM CreatedTableFits == Spec => []SampleFits
<1>1. IngestInv => SampleFits
  <2> SUFFICES ASSUME IngestInv, NEW s \in Sessions, call[s].created,
                      NEW k \in 1..Len(call[s].first)
               PROVE  call[s].first[k] <= View(s).width \/ call[s].first[k] > MaxLength
    BY DEF SampleFits
  <2>1. uow[s].ddl /\ (call[s].first[k] <= uow[s].base.width \/ call[s].first[k] > MaxLength)
    BY SessionFacts DEF InPlace
  <2>2. View(s).width = uow[s].base.width
    <3>1. Made(uow[s], committed).width = uow[s].base.width
      BY <2>1, SessionFacts, MadeParts
    <3> QED BY <3>1, ViewIsMade
  <2> QED BY <2>1, <2>2
<1> QED BY <1>1, Invariant, PTL

\* Committed rows disappear only when a replace is committed.
THEOREM DataIsKept == Spec => OnlyReplaceDiscards
<1>1. ASSUME IngestInv, [Next]_vars, committed'.rows # committed.rows
      PROVE  \/ IsPrefix(committed.rows, committed'.rows)
             \/ \E s \in Sessions : uow[s].by = "replace" /\ uow'[s] = NoWork
  <2>1. committed' # committed
    BY <1>1
  <2>2. PICK s \in Sessions : CommitWork(s)
    <3>1. Next
      BY <1>1, <2>1 DEF vars
    <3>2. PICK s \in Sessions :
            \/ Bind(s) \/ EndWork(s) \/ Rollback(s) \/ ExecuteIngest(s)
            \/ IngestStep(s) \/ CommandFails(s) \/ LinkBreaks(s)
      BY <3>1 DEF Next
    <3>3. CASE IngestStep(s)
      <4>1. CASE ExecBatch(s)
        BY <2>1, <4>1 DEF ExecBatch, Insert
      <4> QED BY <2>1, <3>3, <4>1 DEF IngestStep, TargetExists, DropTarget, CreateTarget,
                 PrepareInsert, NextRecord, Finish, LockTimeout
    <3>4. CASE Bind(s) \/ EndWork(s) \/ Rollback(s) \/ CommandFails(s) \/ LinkBreaks(s)
      BY <2>1, <3>4 DEF Bind, EndWork, Rollback, CommandFails, LinkBreaks
    <3>5. CASE ExecuteIngest(s)
      BY <2>1, <3>5 DEF ExecuteIngest
    <3> QED BY <3>2, <3>3, <3>4, <3>5
  <2>3. /\ uow[s] \in Work /\ committed \in Table /\ uow[s].ins \in Seq(Row)
        /\ uow[s].base.rows = <<>> /\ uow \in [Sessions -> Work]
    BY <1>1, SessionFacts
  <2>4. committed' = Made(uow[s], committed) /\ uow'[s] = NoWork
    BY <2>2, <2>3, ViewIsMade DEF CommitWork
  <2>5. CASE uow[s].ddl
    <3>1. uow[s].by = "replace" \/ committed.rows = <<>>
      BY <1>1, <2>5 DEF IngestInv, Founded
    <3>2. committed'.rows = <<>> \o uow[s].ins
      <4>1. Made(uow[s], committed).rows = uow[s].base.rows \o uow[s].ins
        BY <2>3, <2>5, MadeParts
      <4> QED BY <2>3, <2>4, <4>1
    <3>3. CASE committed.rows = <<>>
      <4>1. <<>> \in Seq(Row)
        OBVIOUS
      <4> QED BY <2>3, <3>2, <3>3, <4>1, ConcatPrefix
    <3> QED BY <2>4, <3>1, <3>3
  <2>6. CASE ~uow[s].ddl
    <3>1. committed'.rows = committed.rows \o uow[s].ins
      BY <2>3, <2>4, <2>6, MadeParts
    <3>2. committed.rows \in Seq(Row)
      BY <2>3 DEF Table
    <3> QED BY <2>3, <3>1, <3>2, ConcatPrefix
  <2> QED BY <2>5, <2>6
<1>2. IngestInv /\ [Next]_vars =>
        [committed'.rows # committed.rows =>
           \/ IsPrefix(committed.rows, committed'.rows)
           \/ \E s \in Sessions : uow[s].by = "replace" /\ uow'[s] = NoWork]_vars
  BY <1>1
<1> QED BY <1>2, Invariant, PTL DEF Spec, OnlyReplaceDiscards

LEMMA PlaceOfLast ==
    ASSUME NEW P \in Nat, NEW Q \in Nat, NEW n \in Nat, n <= Q, NEW k \in 1..n
    PROVE  \E i \in 1..(P + Q) : /\ i = (P + Q - n + 1) + k - 1
                                 /\ ~(i <= P) /\ i - P = Q - n + k
<1>1. (P + Q - n + 1) + k - 1 \in 1..(P + Q)
  OBVIOUS
<1> QED BY <1>1

\* The last n rows of q are attempt a's rows 1 .. n.
EndsWith(q, n, a) ==
    /\ n <= Len(q)
    /\ \A k \in 1..n : q[Len(q) - n + k] = [attempt |-> a, at |-> k]

LastOf(q, n) == SubSeq(q, Len(q) - n + 1, Len(q))
FirstRows(n, a) == [k \in 1..n |-> [attempt |-> a, at |-> k]]

\* The end of a table are the last rows that were added to it.
LEMMA LastRows ==
    ASSUME NEW p \in Seq(Row), NEW q \in Seq(Row), NEW n \in Nat, NEW a \in Nat, EndsWith(q, n, a)
    PROVE  LastOf(p \o q, n) = FirstRows(n, a)
<1>1. PICK all \in Seq(Row), P \in Nat, Q \in Nat :
         /\ all = p \o q /\ P = Len(p) /\ Q = Len(q) /\ Len(all) = P + Q
         /\ \A i \in 1..(P + Q) : all[i] = IF i <= P THEN p[i] ELSE q[i - P]
  <2>1. p \o q \in Seq(Row) /\ Len(p) \in Nat /\ Len(q) \in Nat
    BY ConcatProperties
  <2>2. /\ Len(p \o q) = Len(p) + Len(q)
        /\ \A i \in 1..(Len(p) + Len(q)) :
              (p \o q)[i] = IF i <= Len(p) THEN p[i] ELSE q[i - Len(p)]
    BY ConcatProperties
  <2> QED BY <2>1, <2>2
<1>2. PICK m \in Nat : m = P + Q - n + 1 /\ m >= 1 /\ m > P /\ n <= Q
  <2>1. n <= Q
    BY <1>1 DEF EndsWith
  <2> QED BY <2>1
<1>3. PICK z : z = SubSeq(all, m, P + Q)
  OBVIOUS
<1>4. /\ z \in Seq(Row) /\ Len(z) = n
      /\ \A k \in 1..n : z[k] = all[m + k - 1]
  <2>1. ASSUME NEW i \in m..(P + Q) PROVE all[i] \in Row
    <3>1. i \in 1..Len(all)
      BY <1>1, <1>2
    <3> QED BY <3>1, ElementOfSeq
  <2>2. P + Q \in Int /\ m \in Int /\ P + Q - m + 1 = n
    BY <1>1, <1>2
  <2>3. /\ SubSeq(all, m, P + Q) \in Seq(Row)
        /\ Len(SubSeq(all, m, P + Q)) = IF m <= P + Q THEN P + Q - m + 1 ELSE 0
        /\ \A i \in 1..(P + Q - m + 1) : SubSeq(all, m, P + Q)[i] = all[m + i - 1]
    BY <2>1, <2>2, SubSeqProperties
  <2> QED BY <1>1, <1>2, <1>3, <2>2, <2>3
<1>5. ASSUME NEW k \in 1..n PROVE z[k] = [attempt |-> a, at |-> k]
  <2>1. PICK i \in 1..(P + Q) : i = m + k - 1 /\ ~(i <= P) /\ i - P = Q - n + k
    BY <1>2, PlaceOfLast
  <2>2. z[k] = q[i - P]
    BY <1>1, <1>4, <2>1
  <2> QED BY <1>1, <2>1, <2>2 DEF EndsWith
<1>6. z = [k \in 1..n |-> [attempt |-> a, at |-> k]]
  <2>1. DOMAIN z = 1..n /\ z = [k \in 1..n |-> z[k]]
    BY <1>4
  <2> QED BY <1>5, <2>1
<1> QED BY <1>1, <1>2, <1>3, <1>6 DEF LastOf, FirstRows

\* A call returns ok in Finish only.
LEMMA OkIsFinish ==
    ASSUME IngestInv, Next, NEW s \in Sessions, Returns(s), call'[s].result = "ok"
    PROVE  /\ call[s].pc = "commit"
           /\ CommitWork(s) \/ (uow' = uow /\ committed' = committed)
<1>1. PICK x \in Sessions :
         \/ Bind(x) \/ EndWork(x) \/ Rollback(x) \/ ExecuteIngest(x)
         \/ IngestStep(x) \/ CommandFails(x) \/ LinkBreaks(x)
  BY DEF Next
<1>2. call \in [Sessions -> Call] /\ call[s].pc # "idle" /\ call'[s].pc = "idle"
  BY SessionFacts DEF Returns
<1>3. \A y \in Sessions : Return(y, "error") => call'[y].result # "ok" \/ y # s
  BY <1>2 DEF Return, NoCall
<1>4. ASSUME NEW pc, Goto(x, pc), x = s PROVE call'[s].pc = pc
  BY <1>2, <1>4 DEF Goto, Call
<1>5. x = s
  <2> SUFFICES ASSUME x # s PROVE call'[s] = call[s]
    BY <1>2
  <2>1. CASE Bind(x) \/ EndWork(x) \/ Rollback(x)
    BY <2>1 DEF Bind, EndWork, Rollback
  <2>2. CASE ExecuteIngest(x)
    BY <1>2, <2>2 DEF ExecuteIngest, Return
  <2>3. CASE CommandFails(x) \/ LinkBreaks(x) \/ LockTimeout(x) \/ Finish(x)
    BY <1>2, <2>3 DEF CommandFails, LinkBreaks, LockTimeout, Finish, Return
  <2>4. CASE TargetExists(x) \/ DropTarget(x) \/ PrepareInsert(x)
    BY <1>2, <2>4 DEF TargetExists, DropTarget, PrepareInsert, Return, Goto
  <2>5. CASE CreateTarget(x)
    BY <1>2, <2>5 DEF CreateTarget, Return
  <2>6. CASE NextRecord(x)
    BY <1>2, <2>6 DEF NextRecord, Return, Goto, SendFirst, SendNext
  <2>7. CASE ExecBatch(x)
    BY <1>2, <2>7 DEF ExecBatch, Return
  <2> QED BY <1>1, <2>1, <2>2, <2>3, <2>4, <2>5, <2>6, <2>7 DEF IngestStep
<1>6. CASE Finish(s)
  BY <1>3, <1>6 DEF Finish
<1>7. ~(Bind(s) \/ EndWork(s) \/ Rollback(s) \/ ExecuteIngest(s))
  BY <1>2 DEF Bind, EndWork, Rollback, ExecuteIngest
<1>8. ~(CommandFails(s) \/ LinkBreaks(s) \/ LockTimeout(s))
  BY <1>3 DEF CommandFails, LinkBreaks, LockTimeout
<1>9. ~TargetExists(s)
  <2> SUFFICES ASSUME TargetExists(s) PROVE FALSE
    OBVIOUS
  <2>1. PICK next : /\ next = IF targetExists(s) THEN OnExisting(call[s].mode) ELSE "create"
                    /\ IF next = "error" THEN Return(s, "error") ELSE Goto(s, next)
    BY DEF TargetExists
  <2>2. call[s].mode \in Modes \ {"append"}
    BY SessionFacts DEF TargetExists, Counted, Call
  <2>3. next # "idle"
    BY <2>1, <2>2 DEF OnExisting, Modes
  <2> QED BY <1>2, <1>3, <1>4, <1>5, <2>1, <2>3
<1>10. ~(DropTarget(s) \/ PrepareInsert(s))
  BY <1>2, <1>3, <1>4, <1>5 DEF DropTarget, PrepareInsert
<1>11. ~CreateTarget(s)
  BY <1>2, <1>3 DEF CreateTarget, Call
<1>12. ~NextRecord(s)
  <2>1. ~(SendFirst(s) \/ SendNext(s))
    <3>1. ~SendFirst(s)
      BY <1>2 DEF SendFirst, Call
    <3>2. ASSUME NEW r \in Records,
                 call' = [call EXCEPT ![s].pc = "batch", ![s].rec = r, ![s].records = @ + 1,
                               ![s].base = call[s].taken, ![s].taken = @ + Len(r)]
          PROVE  FALSE
      BY <1>2, <3>2 DEF Call
    <3> QED BY <3>1, <3>2 DEF SendNext
  <2> QED BY <1>2, <1>3, <1>4, <1>5, <2>1 DEF NextRecord
<1>13. ~ExecBatch(s)
  BY <1>2, <1>3 DEF ExecBatch, Call
<1> QED BY <1>1, <1>5, <1>6, <1>7, <1>8, <1>9, <1>10, <1>11, <1>12, <1>13 DEF IngestStep

\* An ingest that succeeds has put every row bound into the table, once, in order and
\* after what else is there, has counted them right, and finds nothing else in a table it
\* created.
THEOREM IngestIsComplete == Spec => EveryRowOnce
<1> DEFINE Once(s) ==
              (Returns(s) /\ call'[s].result = "ok") =>
                 LET n    == call[s].taken
                     all  == View(s)'.rows
                 IN  /\ call[s].total = n
                     /\ SubSeq(all, Len(all) - n + 1, Len(all))
                            = [k \in 1..n |-> [attempt |-> call[s].attempt, at |-> k]]
                     /\ call[s].created => Len(all) = n
<1>1. ASSUME IngestInv, Next, NEW s \in Sessions PROVE Once(s)
  <2> SUFFICES ASSUME Returns(s), call'[s].result = "ok"
               PROVE  /\ call[s].total = call[s].taken
                      /\ SubSeq(View(s)'.rows, Len(View(s)'.rows) - call[s].taken + 1, Len(View(s)'.rows))
                            = [k \in 1..call[s].taken |-> [attempt |-> call[s].attempt, at |-> k]]
                      /\ call[s].created => Len(View(s)'.rows) = call[s].taken
    OBVIOUS
  <2>1. PICK c \in Call, u \in Work, t \in Table : c = call[s] /\ u = uow[s] /\ t = committed
    BY <1>1, SessionFacts
  <2>2. c.pc = "commit" /\ (CommitWork(s) \/ (uow' = uow /\ committed' = committed))
    BY <1>1, <2>1, OkIsFinish
  <2>3. /\ Counted(c) /\ InPlace(c, u) /\ u.ins \in Seq(Row) /\ u.base.rows = <<>>
        /\ t.rows \in Seq(Row) /\ u.ddl \in BOOLEAN
    BY <1>1, <2>1, SessionFacts DEF Work, Table
  <2>4. c.total = c.taken /\ c.total \in Nat /\ c.total <= Len(u.ins)
    BY <2>2, <2>3 DEF Counted, InPlace, Call
  <2>5. PICK p \in Seq(Row) : /\ Made(u, t).rows = p \o u.ins
                              /\ u.ddl => p = <<>>
    <3>1. <<>> \in Seq(Row)
      OBVIOUS
    <3>2. CASE u.ddl
      <4>1. Made(u, t).rows = u.base.rows \o u.ins
        BY <3>2, MadeParts
      <4> QED BY <2>3, <3>1, <4>1
    <3>3. CASE ~u.ddl
      <4>1. Made(u, t).rows = t.rows \o u.ins
        BY <3>3, MadeParts
      <4> QED BY <2>3, <3>3, <4>1
    <3> QED BY <3>2, <3>3
  <2>6. PICK q \in Seq(Row), all \in Seq(Row) :
           q = u.ins /\ all = p \o q /\ Len(all) = Len(p) + Len(q)
    <3>1. PICK q \in Seq(Row) : q = u.ins
      BY <2>3
    <3>2. p \o q \in Seq(Row) /\ Len(p \o q) = Len(p) + Len(q)
      BY ConcatProperties
    <3> QED BY <3>1, <3>2
  <2>7. View(s)'.rows = all
    <3>1. View(s)' = Made(uow'[s], committed') /\ View(s) = Made(u, t)
      BY <2>1, ViewIsMade
    <3>2. CASE uow' = uow /\ committed' = committed
      BY <2>1, <2>5, <2>6, <3>1, <3>2
    <3>3. CASE CommitWork(s)
      <4>1. PICK v \in Table : v = Made(u, t) /\ v.rows = all
        BY <2>5, <2>6, MadeParts
      <4>2. uow'[s] = NoWork /\ committed' = v
        BY <1>1, <3>1, <3>3, <4>1, SessionFacts DEF CommitWork
      <4>3. Made(NoWork, v).rows = v.rows \o <<>>
        <5>1. PICK e \in Work : e = NoWork /\ ~e.ddl /\ e.ins = <<>>
          BY ConstantTypes
        <5>2. Made(e, v).rows = v.rows \o e.ins
          BY <5>1, MadeParts
        <5> QED BY <5>1, <5>2
      <4>4. all \o <<>> = all
        BY ConcatEmptySeq
      <4> QED BY <3>1, <4>1, <4>2, <4>3, <4>4
    <3> QED BY <2>2, <3>2, <3>3
  <2>8. /\ c.total <= Len(q)
        /\ \A k \in 1..c.total : q[Len(q) - c.total + k] = [attempt |-> c.attempt, at |-> k]
    BY <2>3, <2>6 DEF InPlace
  <2>9. SubSeq(all, Len(all) - c.total + 1, Len(all))
           = [k \in 1..c.total |-> [attempt |-> c.attempt, at |-> k]]
    <3>1. PICK n \in Nat, a \in Nat : n = c.total /\ a = c.attempt
      BY <2>4 DEF Call
    <3>2. EndsWith(q, n, a)
      BY <2>8, <3>1 DEF EndsWith
    <3>3. LastOf(p \o q, n) = FirstRows(n, a)
      BY <3>2, LastRows
    <3> QED BY <2>6, <3>1, <3>3 DEF LastOf, FirstRows
  <2>10. c.created => Len(all) = c.total
    <3>1. c.created => u.ddl /\ Len(u.ins) = c.total
      BY <2>3 DEF InPlace
    <3>2. Len(<<>>) = 0
      OBVIOUS
    <3> QED BY <2>4, <2>5, <2>6, <3>1, <3>2
  <2> QED BY <2>1, <2>4, <2>7, <2>9, <2>10
<1>2. ASSUME UNCHANGED vars, NEW s \in Sessions PROVE Once(s)
  BY <1>2 DEF vars, Returns
<1> HIDE DEF Once
<1>3. IngestInv /\ [Next]_vars => [\A s \in Sessions : Once(s)]_vars
  BY <1>1, <1>2
<1> USE DEF Once
<1> QED BY <1>3, Invariant, PTL DEF Spec, EveryRowOnce

=============================================================================
