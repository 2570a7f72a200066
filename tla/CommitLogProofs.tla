--------------------------- MODULE CommitLogProofs ---------------------------
(***************************************************************************)
(* What TLAPS proves of CommitLog, for every value of the constants with a *)
(* single writer.  LogInv holds whatever is truncated: types, segments     *)
(* that tile the offsets, offsets given out once, reads that only a        *)
(* truncation changes.  If the highest offset is never truncated, IndInv   *)
(* holds too: acknowledged records are read back, and the log implements   *)
(* AbstractLog.                                                            *)
(***************************************************************************)
EXTENDS CommitLog, SetLemmas, SequenceTheorems, TLAPS

(***************************************************************************)
(* The operators the log is built from                                     *)
(***************************************************************************)

\* The greatest element of a set that has one.
LEMMA MaxIsGreatest ==
  ASSUME NEW S \in SUBSET Nat, NEW m \in S, \A x \in S : x <= m
  PROVE  Max(S) = m
<1>1. \A x \in S : m >= x
  BY SMT
<1>2. \A y \in S : (\A x \in S : y >= x) => y = m
  BY SMT
<1> QED BY <1>1, <1>2 DEF Max

\* The least element of a singleton, as Log.Read meets it.
LEMMA MinOfOne ==
  ASSUME NEW S \in SUBSET Nat, NEW m \in S, \A x \in S : x = m
  PROVE  Min(S) = m
<1>1. \A x \in S : m <= x
  BY SMT
<1> QED BY <1>1 DEF Min

\* Concatenation and appending commute.
LEMMA ConcatAppend ==
  ASSUME NEW S, NEW f \in Seq(S), NEW g \in Seq(S), NEW r \in S
  PROVE  /\ f \o Append(g, r) = Append(f \o g, r)
         /\ (f \o g) \o <<r>> = Append(f \o g, r)
         /\ f \o g \in Seq(S)
<1>1. <<r>> \in Seq(S) /\ f \o g \in Seq(S)
  BY ConcatProperties
<1>2. Append(g, r) = g \o <<r>> /\ Append(f \o g, r) = (f \o g) \o <<r>>
  BY <1>1, AppendIsConcat
<1>3. (f \o g) \o <<r>> = f \o (g \o <<r>>)
  BY <1>1, ConcatAssociative
<1> QED BY <1>1, <1>2, <1>3

\* store.Append adds the record at the end of what the store holds, whether
\* or not bufio has to write its buffer out first.
LEMMA BufferAppends ==
  ASSUME NEW f \in Seq(Record), NEW s \in Segment, NEW r \in Record
  PROVE  /\ Spilled(s) \in Seq(Record)
         /\ Buffer(s, r) \in Segment
         /\ Buffer(s, r).base = s.base
         /\ Buffer(s, r).next = s.next
         /\ Buffer(s, r).indexSize = s.indexSize
         /\ Buffer(s, r).storeSize = s.storeSize + 1
         /\ Len(s.buf) <= BufRecs => Len(Buffer(s, r).buf) <= BufRecs
         /\ (f \o Spilled(s)) \o Buffer(s, r).buf = Append(f \o s.buf, r)
<1> s.buf \in Seq(Record) /\ s.storeSize \in Nat
  BY DEF Segment
<1> DEFINE u == Buffer(s, r)
<1>1. u = [s EXCEPT !.buf = IF Len(s.buf) = BufRecs THEN <<r>> ELSE Append(s.buf, r),
                    !.storeSize = s.storeSize + 1]
  BY DEF Buffer
<1>2. u.buf = IF Len(s.buf) = BufRecs THEN <<r>> ELSE Append(s.buf, r)
  BY <1>1 DEF Segment
<1>3. u.base = s.base /\ u.next = s.next /\ u.indexSize = s.indexSize
      /\ u.storeSize = s.storeSize + 1
  BY <1>1 DEF Segment
<1>4. <<r>> \in Seq(Record) /\ Append(s.buf, r) \in Seq(Record)
  OBVIOUS
<1>5. u \in Segment
  <2> DEFINE R == Seq(Record)
             b == IF Len(s.buf) = BufRecs THEN <<r>> ELSE Append(s.buf, r)
  <2>1. b \in R /\ s.storeSize + 1 \in Nat
    BY <1>4
  <2>2. u = [s EXCEPT !.buf = b, !.storeSize = s.storeSize + 1]
    BY <1>1
  <2>3. s \in [base : Nat, next : Nat, buf : R, storeSize : Nat, indexSize : Nat]
    BY DEF Segment
  <2> HIDE DEF R, b, u
  <2>4. u \in [base : Nat, next : Nat, buf : R, storeSize : Nat, indexSize : Nat]
    BY <2>1, <2>2, <2>3
  <2> QED BY <2>4 DEF R, Segment
<1>6. Spilled(s) \in Seq(Record)
  BY DEF Spilled
<1>7. Len(s.buf) <= BufRecs => Len(u.buf) <= BufRecs
  BY <1>2, LimitsAssumption, Len(<<r>>) = 1, Len(Append(s.buf, r)) = Len(s.buf) + 1
<1>8. (f \o Spilled(s)) \o u.buf = Append(f \o s.buf, r)
  <2>1. CASE Len(s.buf) = BufRecs
    <3>1. Spilled(s) = s.buf /\ u.buf = <<r>>
      BY <2>1, <1>2 DEF Spilled
    <3> QED BY <3>1, ConcatAppend
  <2>2. CASE Len(s.buf) # BufRecs
    <3>1. Spilled(s) = <<>> /\ u.buf = Append(s.buf, r)
      BY <2>2, <1>2 DEF Spilled
    <3>2. f \o <<>> = f
      BY ConcatEmptySeq
    <3> QED BY <3>1, <3>2, ConcatAppend
  <2> QED BY <2>1, <2>2
<1> QED BY <1>3, <1>5, <1>6, <1>7, <1>8

(***************************************************************************)
(* What the invariant says of a state                                      *)
(***************************************************************************)

\* Where there is an active segment: it is the last one, and all fields are typed.
LEMMA StateFacts ==
  ASSUME TypeOK, Chain
  PROVE  /\ Last = active
         /\ active \in segments
         /\ DOMAIN segs = segments
         /\ HighestOffset \in Nat
         /\ HighestOffset = IF segs[active].next = 0 THEN 0 ELSE segs[active].next - 1
         /\ \A i \in segments :
              /\ i \in Nat
              /\ segs[i] \in Segment
              /\ segs[i].base \in Nat /\ segs[i].next \in Nat
              /\ segs[i].storeSize \in Nat /\ segs[i].indexSize \in Nat
              /\ segs[i].buf \in Seq(Record)
              /\ stores[segs[i].base] \in Seq(Record)
              /\ Content(i) \in Seq(Record)
<1>1. active \in segments /\ segments \in SUBSET Nat
  BY DEF TypeOK, Chain
<1>2. Last = active
  BY <1>1, MaxIsGreatest DEF Chain, Last
<1>3. DOMAIN segs = segments
  BY <1>1 DEF TypeOK
<1>4. ASSUME NEW i \in segments
      PROVE  /\ i \in Nat
             /\ segs[i] \in Segment
             /\ segs[i].base \in Nat /\ segs[i].next \in Nat
             /\ segs[i].storeSize \in Nat /\ segs[i].indexSize \in Nat
             /\ segs[i].buf \in Seq(Record)
             /\ stores[segs[i].base] \in Seq(Record)
             /\ Content(i) \in Seq(Record)
  <2>1. segs[i] \in Segment
    BY DEF TypeOK
  <2>2. /\ segs[i].base \in Nat /\ segs[i].next \in Nat
        /\ segs[i].storeSize \in Nat /\ segs[i].indexSize \in Nat
        /\ segs[i].buf \in Seq(Record)
    BY <2>1 DEF Segment
  <2>3. stores[segs[i].base] \in Seq(Record)
    BY DEF TypeOK
  <2>4. Content(i) \in Seq(Record)
    BY <2>2, <2>3, ConcatProperties DEF Content
  <2> QED BY <1>1, <2>1, <2>2, <2>3, <2>4
<1>5. HighestOffset = IF segs[active].next = 0 THEN 0 ELSE segs[active].next - 1
  BY <1>2 DEF HighestOffset
<1>6. HighestOffset \in Nat
  BY <1>1, <1>4, <1>5
<1> QED BY <1>1, <1>2, <1>3, <1>4, <1>5, <1>6

\* Ranges do not overlap: at most one segment holds an offset.
LEMMA OneHolder ==
  ASSUME TypeOK, Chain, NEW off \in Nat,
         NEW i \in Holders(off), NEW j \in Holders(off)
  PROVE  i = j
<1>1. i \in segments /\ j \in segments
  BY DEF Holders
<1>2. i \in Nat /\ j \in Nat
  BY <1>1, StateFacts
<1>3. ~(i < j)
  BY <1>1, <1>2, StateFacts DEF Chain, Holders
<1>4. ~(j < i)
  BY <1>1, <1>2, StateFacts DEF Chain, Holders
<1> QED BY <1>2, <1>3, <1>4

\* A read finds the record of its offset in the segment that holds it.
LEMMA ReadHeld ==
  ASSUME TypeOK, Chain, NEW off \in Nat, NEW i \in Holders(off), SegmentOK(i)
  PROVE  ReadRecord(off) = Content(i)[off - segs[i].base + 1]
<1> DEFINE k == off - segs[i].base + 1
<1>1. i \in segments /\ segs[i].base <= off /\ off < segs[i].next
  BY DEF Holders
<1>2. Holders(off) \in SUBSET Nat
  BY StateFacts DEF Holders
<1>3. Min(Holders(off)) = i
  <2>1. \A j \in Holders(off) : j = i
    BY OneHolder
  <2> QED BY <2>1, <1>2, MinOfOne
<1>4. segs[i].base \in Nat /\ segs[i].next \in Nat /\ segs[i].indexSize \in Nat
  BY <1>1, StateFacts
<1>5. k \in 1..segs[i].indexSize
  BY <1>1, <1>4 DEF SegmentOK
<1>6. indexes[segs[i].base][k].pos = k - 1 /\ Len(Content(i)) = segs[i].indexSize
  <2> HIDE DEF k
  <2>1. indexes[segs[i].base][k] = [off |-> k - 1, pos |-> k - 1]
    BY <1>5 DEF SegmentOK
  <2> QED BY <2>1 DEF SegmentOK
<1>7. k <= segs[i].indexSize /\ k - 1 < Len(Content(i)) /\ (k - 1) + 1 = k
  BY <1>5, <1>6, <1>4
<1> QED BY <1>3, <1>6, <1>7 DEF ReadRecord

\* The invariant implies that acknowledged records are read back.
LEMMA IndInvImpliesReadable ==
  ASSUME IndInv
  PROVE  AckedReadable
<1>1. SUFFICES ASSUME NEW r \in acked
               PROVE  \/ ReadRecord(r.offset) = r
                      \/ r.offset < keepFrom /\ Holders(r.offset) = {}
  BY DEF AckedReadable
<1>2. r.offset \in Nat
  BY DEF IndInv, TypeOK, Record
<1>3. CASE Holders(r.offset) = {}
  BY <1>3 DEF IndInv, AckedStored
<1>4. CASE Holders(r.offset) # {}
  <2>1. PICK i \in Holders(r.offset) : TRUE
    BY <1>4
  <2>2. SegmentOK(i)
    BY DEF IndInv, Holders
  <2>3. ReadRecord(r.offset) = Content(i)[r.offset - segs[i].base + 1]
    BY <1>2, <2>2, ReadHeld DEF IndInv
  <2> QED BY <2>3 DEF IndInv, AckedStored
<1> QED BY <1>3, <1>4

(***************************************************************************)
(* The inductive invariant of a log with one writer, whatever it truncates *)
(***************************************************************************)

\* Everything may be gone; otherwise the active segment is the last one.
Order ==
  /\ segments = {} \/ active \in segments
  /\ \A i \in segments : i <= active
  /\ \A i, j \in segments :
       i < j => segs[i].base < segs[i].next /\ segs[i].next <= segs[j].base

\* Of several segments none is empty.
Grown == \A i \in segments : i # active => segs[active].base < segs[active].next

\* The sizes of the active segment agree even when it has been removed.
ActiveOK ==
  /\ segs[active].storeSize = segs[active].indexSize
  /\ segs[active].next = segs[active].base + segs[active].indexSize

\* No one appends between the halves of the writer's Append, though the log may
\* be truncated.
HighKnown ==
  \A p \in pending :
    p.high = IF segs[active].next = 0 THEN 0 ELSE segs[active].next - 1

\* An acknowledged record is where its offset is looked for.
AckedHeld ==
  \A r \in acked :
    /\ r.offset < segs[active].next
    /\ \A i \in Holders(r.offset) : Content(i)[r.offset - segs[i].base + 1] = r

\* Nothing is in the log but acknowledged records.
OnlyAcked ==
  \A i \in segments : \A k \in 1..segs[i].indexSize : Content(i)[k] \in acked

LogInv ==
  /\ TypeOK
  /\ \A i \in segments : SegmentOK(i)
  /\ ActiveOK /\ Order /\ Grown
  /\ Contiguous /\ FilesMatch
  /\ HighKnown /\ AckedHeld /\ OnlyAcked /\ OffsetsUnique

\* What was acknowledged is held, unless it was truncated.
Kept ==
  /\ segments # {}
  /\ \A r \in acked : Holders(r.offset) = {} => r.offset < keepFrom

\* Of the segments there are, the active one is the last.
LEMMA ChainHolds ==
  ASSUME LogInv, segments # {}
  PROVE  /\ Chain
         /\ HighestOffset = IF segs[active].next = 0 THEN 0 ELSE segs[active].next - 1
         /\ HighIsCurrent
<1>1. TypeOK /\ Chain
  BY DEF LogInv, Order, Chain
<1>2. HighestOffset = IF segs[active].next = 0 THEN 0 ELSE segs[active].next - 1
  BY <1>1, StateFacts
<1> QED BY <1>1, <1>2 DEF LogInv, HighKnown, HighIsCurrent

\* With everything acknowledged in the log or truncated, this is IndInv.
LEMMA LogInvImpliesIndInv ==
  ASSUME LogInv, Kept
  PROVE  IndInv
BY ChainHolds DEF LogInv, Kept, IndInv, AckedHeld, AckedStored

\* The fields of a segment there is, and of the active one.
LEMMA SegmentFacts ==
  ASSUME TypeOK, NEW i \in segments \cup {active}
  PROVE  /\ segs[i] \in Segment
         /\ segs[i].base \in Nat /\ segs[i].next \in Nat
         /\ segs[i].storeSize \in Nat /\ segs[i].indexSize \in Nat
         /\ segs[i].buf \in Seq(Record)
         /\ Len(segs[i].buf) <= BufRecs
         /\ i \in Nat
<1>1. segs[i] \in Segment /\ DOMAIN segs = segments \cup {active}
  BY DEF TypeOK
<1> QED BY <1>1 DEF TypeOK, Segment

\* What a step does to what is read: an offset is lost by a truncation only, and
\* nothing that was acknowledged is forgotten.
Stay ==
  /\ acked \subseteq acked' /\ keepFrom <= keepFrom'
  /\ \A off \in Nat : Holders(off) # {} => Holders(off)' # {} \/ off < keepFrom'

\* A record that is acknowledged can be found.
NewHeld == \A r \in acked' \ acked : Holders(r.offset)' # {}

\* A step that shows nothing.
Quiet ==
  /\ \A off \in Nat : Holders(off)' # {} <=> Holders(off) # {}
  /\ segs'[active'].next = segs[active].next

\* A step that puts the record r at the end of the log.
Grows(r) ==
  /\ acked' = acked \cup {r} /\ keepFrom' = keepFrom /\ keepFrom \in Nat
  /\ r.offset = segs[active].next /\ r.offset \in Nat
  /\ segs'[active'].next = segs[active].next + 1
  /\ \A off \in Nat : Holders(off)' # {} <=> Holders(off) # {} \/ off = r.offset

\* An append loses nothing, and what it acknowledges is found.
LEMMA GrowsStay ==
  ASSUME NEW r, Grows(r)
  PROVE  Stay /\ NewHeld
<1>1. ASSUME NEW off \in Nat, off = r.offset PROVE Holders(off)' # {}
  BY <1>1 DEF Grows
<1>2. PICK off \in Nat : off = r.offset
  BY DEF Grows
<1> QED BY <1>1, <1>2 DEF Grows, Stay, NewHeld

(***************************************************************************)
(* The initial state and the steps that leave the files alone              *)
(***************************************************************************)

\* The log starts as one empty segment.
LEMMA InitLogInv ==
  ASSUME Init
  PROVE  LogInv /\ Kept
<1> USE DEF Init
<1>1. Padded(<<>>) \in [1..MaxIndexEnts -> Entry]
  BY LimitsAssumption DEF Padded, Entry, ZeroEntry
<1>2. TypeOK
  <2>1. segs[0] \in Segment /\ Len(segs[0].buf) = 0 /\ segs[0].indexSize = 0
    BY OffsetsAssumption DEF Segment
  <2>2. DOMAIN segs = {0} /\ segs \in [{0} -> Segment]
    BY <2>1
  <2>3. /\ \A b \in DOMAIN stores : stores[b] \in Seq(Record)
        /\ \A b \in DOMAIN indexes : indexes[b] \in [1..MaxIndexEnts -> Entry]
        /\ DOMAIN stores = {InitialOffset} /\ DOMAIN indexes = {InitialOffset}
    BY <1>1
  <2> QED BY <2>1, <2>2, <2>3, LimitsAssumption, OffsetsAssumption DEF TypeOK
<1>3. ActiveOK /\ \A i \in segments : SegmentOK(i)
  BY OffsetsAssumption DEF SegmentOK, ActiveOK, Content
<1>4. Order /\ Grown /\ Contiguous /\ FilesMatch /\ HighKnown
  BY DEF Order, Grown, Contiguous, FilesMatch, HighKnown
<1>5. AckedHeld /\ OnlyAcked /\ OffsetsUnique
  BY DEF AckedHeld, OnlyAcked, OffsetsUnique
<1> QED BY <1>2, <1>3, <1>4, <1>5 DEF LogInv, Kept

\* Two segments never share their files.
LEMMA DistinctBases ==
  ASSUME TypeOK, Chain, NEW i \in segments, NEW j \in segments, i # j
  PROVE  segs[i].base # segs[j].base
<1>1. i \in Nat /\ j \in Nat
  BY StateFacts
<1>2. CASE i < j
  BY <1>2, StateFacts DEF Chain
<1>3. CASE j < i
  BY <1>3, StateFacts DEF Chain
<1> QED BY <1>1, <1>2, <1>3

\* A segment whose fields, contents and entries stay as they are stays well
\* formed, whatever happens to the way its contents are split between buffer
\* and file.
LEMMA SegmentKept ==
  ASSUME NEW i, SegmentOK(i),
         segs'[i].base = segs[i].base, segs'[i].next = segs[i].next,
         segs'[i].storeSize = segs[i].storeSize,
         segs'[i].indexSize = segs[i].indexSize,
         Content(i)' = Content(i),
         indexes'[segs[i].base] = indexes[segs[i].base]
  PROVE  SegmentOK(i)'
BY DEF SegmentOK

\* A step that changes neither segments nor files keeps what is said of them.
LEMMA SameLog ==
  ASSUME LogInv, TypeOK', HighKnown',
         UNCHANGED <<segs, segments, active, stores, indexes, acked, keepFrom>>
  PROVE  LogInv' /\ Quiet /\ Stay /\ NewHeld
<1>1. \A i : Content(i)' = Content(i)
  BY DEF Content
<1>2. \A off : Holders(off)' = Holders(off)
  BY DEF Holders
<1>3. \A i \in segments' : SegmentOK(i)'
  BY <1>1, SegmentKept DEF LogInv
<1>4. ActiveOK' /\ Order' /\ Grown' /\ Contiguous' /\ FilesMatch'
  BY DEF LogInv, ActiveOK, Order, Grown, Contiguous, FilesMatch
<1>5. AckedHeld'
  BY <1>1, <1>2 DEF LogInv, AckedHeld
<1>6. OnlyAcked' /\ OffsetsUnique'
  BY <1>1 DEF LogInv, OnlyAcked, OffsetsUnique
<1>7. Quiet /\ Stay /\ NewHeld
  BY <1>2 DEF LogInv, TypeOK, Quiet, Stay, NewHeld
<1> QED BY <1>3, <1>4, <1>5, <1>6, <1>7 DEF LogInv

\* The first half of an Append reads the highest offset.
LEMMA AppendBeginLogInv ==
  ASSUME LogInv, NEW w \in Writers, AppendBegin(w)
  PROVE  LogInv' /\ Quiet /\ Stay /\ NewHeld
<1>1. /\ HighestOffset \in Nat
      /\ HighestOffset = IF segs[active].next = 0 THEN 0 ELSE segs[active].next - 1
  BY ChainHolds, StateFacts DEF LogInv, AppendBegin
<1>2. TypeOK'
  BY <1>1 DEF LogInv, TypeOK, AppendBegin, Content
<1>3. HighKnown'
  BY <1>1 DEF LogInv, HighKnown, AppendBegin
<1> QED BY <1>2, <1>3, SameLog DEF AppendBegin

\* An index out of range ends the process with the log as it is.
LEMMA OffsetPanicsLogInv ==
  ASSUME LogInv, OffsetPanics
  PROVE  LogInv' /\ Quiet /\ Stay /\ NewHeld
<1>1. TypeOK' /\ HighKnown'
  BY DEF LogInv, TypeOK, HighKnown, OffsetPanics
<1> QED BY <1>1, SameLog DEF OffsetPanics

(***************************************************************************)
(* Reading: a flush moves records from the buffer to the file              *)
(***************************************************************************)

\* Emptying the buffer into the file leaves the contents of the store as they
\* are, and nothing else changes.
LEMMA FlushLogInv ==
  ASSUME LogInv, NEW i \in segments, Flush(i)
  PROVE  LogInv' /\ Quiet /\ Stay /\ NewHeld
<1> USE DEF Flush
<1>1. TypeOK /\ Chain
  BY ChainHolds DEF LogInv
<1>2. DOMAIN segs = segments /\ segs[i] \in Segment /\ segs[i].base \in DOMAIN stores
  BY <1>1, StateFacts DEF TypeOK
<1>3. \A j \in segments :
        /\ segs'[j] = IF j = i THEN [segs[i] EXCEPT !.buf = <<>>] ELSE segs[j]
        /\ segs'[j].base = segs[j].base /\ segs'[j].next = segs[j].next
        /\ segs'[j].storeSize = segs[j].storeSize
        /\ segs'[j].indexSize = segs[j].indexSize
  BY <1>2 DEF Segment
<1>4. segs'[i].buf = <<>>
  BY <1>2, <1>3 DEF Segment
<1>5. \A j \in segments : Content(j)' = Content(j)
  <2>1. ASSUME NEW j \in segments, j # i PROVE Content(j)' = Content(j)
    <3>1. segs[j].base # segs[i].base
      BY <1>1, <2>1, DistinctBases
    <3>2. stores'[segs[j].base] = stores[segs[j].base]
      BY <1>1, <3>1 DEF TypeOK
    <3>3. segs'[j] = segs[j]
      BY <2>1, <1>3
    <3> QED BY <3>2, <3>3 DEF Content
  <2>2. Content(i)' = Content(i)
    <3>1. stores'[segs[i].base] = Content(i) /\ Content(i) \in Seq(Record)
      BY <1>1, <1>2, StateFacts
    <3>2. Content(i)' = stores'[segs[i].base] \o <<>>
      BY <1>3, <1>4 DEF Content
    <3> QED BY <3>1, <3>2, ConcatEmptySeq
  <2> QED BY <2>1, <2>2
<1>6. \A off : Holders(off)' = Holders(off)
  BY <1>3 DEF Holders
<1>7. TypeOK'
  <2>1. segs' \in [segments' \cup {active'} -> Segment]
    <3> DEFINE R == Seq(Record)
    <3>1. segs[i] \in [base : Nat, next : Nat, buf : R, storeSize : Nat, indexSize : Nat]
      BY <1>2 DEF Segment
    <3>2. <<>> \in R
      OBVIOUS
    <3> HIDE DEF R
    <3>3. [segs[i] EXCEPT !.buf = <<>>]
            \in [base : Nat, next : Nat, buf : R, storeSize : Nat, indexSize : Nat]
      BY <3>1, <3>2
    <3>4. [segs[i] EXCEPT !.buf = <<>>] \in Segment
      BY <3>3 DEF R, Segment
    <3> QED BY <1>1, <1>2, <3>4 DEF TypeOK
  <2>2. DOMAIN stores' = DOMAIN stores
    OBVIOUS
  <2>3. \A b \in DOMAIN stores' : stores'[b] \in Seq(Record)
    <3>1. Content(i) \in Seq(Record)
      BY <1>1, StateFacts
    <3> QED BY <1>1, <3>1 DEF TypeOK
  <2>4. \A j \in DOMAIN segs' : Len(segs'[j].buf) <= BufRecs
    BY <1>1, <1>2, <1>3, <1>4, LimitsAssumption DEF TypeOK
  <2>5. \A j \in DOMAIN segs' : segs'[j].indexSize <= MaxIndexEnts
    BY <1>1, <1>2, <1>3 DEF TypeOK
  <2>6. \A j \in segments' : segs'[j].base \in DOMAIN stores'
    BY <1>1, <1>3, <2>2 DEF TypeOK
  <2> QED BY <1>1, <2>1, <2>2, <2>3, <2>4, <2>5, <2>6 DEF TypeOK
<1>8. \A j \in segments' : SegmentOK(j)'
  BY <1>3, <1>5, SegmentKept DEF LogInv
<1>9. active \in segments
  BY <1>1 DEF Chain
<1>10. ActiveOK' /\ Order' /\ Grown' /\ Contiguous' /\ FilesMatch' /\ HighKnown'
  BY <1>3, <1>9 DEF LogInv, ActiveOK, Order, Grown, Contiguous, FilesMatch, HighKnown
<1>11. AckedHeld'
  BY <1>3, <1>5, <1>6, <1>9 DEF LogInv, AckedHeld, Holders
<1>12. OnlyAcked' /\ OffsetsUnique'
  BY <1>3, <1>5 DEF LogInv, OnlyAcked, OffsetsUnique
<1>13. Quiet /\ Stay /\ NewHeld
  BY <1>1, <1>3, <1>6, <1>9 DEF TypeOK, Quiet, Stay, NewHeld
<1> QED BY <1>7, <1>8, <1>10, <1>11, <1>12, <1>13 DEF LogInv

(***************************************************************************)
(* Truncating                                                              *)
(***************************************************************************)

\* What a truncation removes, it was allowed to.
LEMMA TruncatedStay ==
  ASSUME TypeOK, Chain, NEW lowest \in Nat,
         keepFrom' = IF lowest + 1 > keepFrom THEN lowest + 1 ELSE keepFrom, acked' = acked,
         \A off : Holders(off)' = Holders(off) \ {i \in segments : Expired(segs[i], lowest)}
  PROVE  Stay /\ NewHeld
<1>1. keepFrom \in Nat /\ keepFrom' \in Nat /\ keepFrom <= keepFrom' /\ lowest + 1 <= keepFrom'
  BY DEF TypeOK
<1>2. ASSUME NEW off \in Nat, Holders(off) # {}, Holders(off)' = {}
      PROVE  off < keepFrom'
  <2>1. PICK i \in Holders(off) : Expired(segs[i], lowest) /\ i \in segments
    BY <1>2 DEF Holders
  <2>2. off < segs[i].next /\ segs[i].next <= lowest + 1 /\ segs[i].next \in Nat
    BY <2>1, StateFacts DEF Holders, Expired
  <2>3. off < lowest + 1
    BY <2>2
  <2> QED BY <1>1, <2>3
<1> QED BY <1>1, <1>2 DEF Stay, NewHeld

\* A truncation that keeps the active segment.
LEMMA TruncateLogInv ==
  ASSUME LogInv, NEW lowest \in Nat, Truncate(lowest), ~Expired(segs[active], lowest)
  PROVE  LogInv' /\ Stay /\ NewHeld
<1> DEFINE gone  == {i \in segments : Expired(segs[i], lowest)}
           kept  == segments \ gone
           files == {segs[i].base : i \in kept}
<1>1. TypeOK /\ Chain /\ Contiguous
  BY ChainHolds DEF LogInv, Truncate
<1>2. /\ segments' = kept /\ active' = active
      /\ segs' = [i \in kept \cup {active} |->
                    IF i \in gone THEN [segs[i] EXCEPT !.buf = <<>>] ELSE segs[i]]
      /\ stores' = [b \in files |-> stores[b]]
      /\ indexes' = [b \in files |-> indexes[b]]
      /\ keepFrom' = IF lowest + 1 > keepFrom THEN lowest + 1 ELSE keepFrom
      /\ pending' = pending /\ panicked' = panicked /\ acked' = acked
  BY DEF Truncate, Restrict
<1>3. active \in kept
  BY <1>1 DEF Chain
<1>4. /\ kept \in SUBSET segments /\ DOMAIN segs' = kept
      /\ \A i \in kept : segs'[i] = segs[i]
  BY <1>2, <1>3
<1>5. \A i \in kept : stores'[segs[i].base] = stores[segs[i].base]
                   /\ indexes'[segs[i].base] = indexes[segs[i].base]
  BY <1>2
<1>6. \A i \in kept : Content(i)' = Content(i)
  BY <1>4, <1>5 DEF Content
<1>7. \A off : Holders(off)' = Holders(off) \ gone
  BY <1>2, <1>4 DEF Holders
<1>8. TypeOK'
  <2>1. segs' \in [segments' \cup {active'} -> Segment]
    BY <1>1, <1>2, <1>3, <1>4, StateFacts
  <2>2. DOMAIN stores' = files /\ DOMAIN indexes' = files /\ files \in SUBSET Nat
    BY <1>1, <1>2, <1>4, StateFacts
  <2>3. \A b \in files : stores'[b] \in Seq(Record)
    BY <1>1, <1>4, <1>5, StateFacts
  <2>4. \A b \in files : indexes'[b] \in [1..MaxIndexEnts -> Entry]
    <3> DEFINE T == [1..MaxIndexEnts -> Entry]
    <3>1. \A i \in kept : indexes[segs[i].base] \in T
      BY <1>1, <1>4 DEF TypeOK
    <3> HIDE DEF T
    <3>2. \A b \in files : indexes'[b] \in T
      BY <3>1, <1>5
    <3> QED BY <3>2 DEF T
  <2>5. keepFrom' \in Nat
    BY <1>1, <1>2 DEF TypeOK
  <2>6. \A i \in DOMAIN segs' : Len(segs'[i].buf) <= BufRecs
                               /\ segs'[i].indexSize <= MaxIndexEnts
    BY <1>1, <1>4, StateFacts DEF TypeOK
  <2>7. segments' \in SUBSET Nat /\ active' \in Nat
    BY <1>1, <1>2 DEF TypeOK
  <2>8. \A i \in segments' : segs'[i].base \in DOMAIN stores'
    BY <1>2, <1>4, <2>2
  <2> QED BY <1>1, <1>2, <2>1, <2>2, <2>3, <2>4, <2>5, <2>6, <2>7, <2>8 DEF TypeOK
<1>9. \A i \in segments' : SegmentOK(i)'
  <2>1. ASSUME NEW i \in kept PROVE SegmentOK(i)'
    <3>1. SegmentOK(i)
      BY <1>4 DEF LogInv
    <3> QED BY <3>1, <1>4, <1>5, <1>6, SegmentKept
  <2> QED BY <1>2, <2>1
<1>10. Order' /\ Grown' /\ ActiveOK'
  BY <1>1, <1>2, <1>3, <1>4 DEF Chain, Order, LogInv, Grown, ActiveOK
<1>11. Contiguous'
  <2>1. SUFFICES ASSUME NEW i \in kept, i # active
                 PROVE  i + 1 \in kept /\ segs[i].next = segs[i + 1].base
    BY <1>2, <1>4 DEF Contiguous
  <2>2. i + 1 \in segments /\ segs[i].next = segs[i + 1].base
    BY <1>1, <1>4, <2>1 DEF Contiguous
  <2>3. ~(segs[i].next <= lowest + 1)
    BY <1>4 DEF Expired
  <2>4. segs[i + 1].base <= segs[i + 1].next
    <3>1. SegmentOK(i + 1)
      BY <2>2 DEF LogInv
    <3> QED BY <1>1, <2>2, <3>1, StateFacts DEF SegmentOK
  <2>5. i \in segments
    BY <1>4
  <2>6. ~(segs[i + 1].next <= lowest + 1)
    BY <1>1, <2>2, <2>3, <2>4, <2>5, StateFacts
  <2> QED BY <2>2, <2>6 DEF Expired
<1>12. FilesMatch'
  BY <1>2, <1>4 DEF FilesMatch
<1>13. HighKnown' /\ OffsetsUnique'
  BY <1>2, <1>3, <1>4 DEF LogInv, HighKnown, OffsetsUnique
<1>14. \A off : Holders(off)' \in SUBSET kept
  BY <1>2 DEF Holders
<1>15. AckedHeld'
  BY <1>2, <1>3, <1>4, <1>6, <1>7, <1>14 DEF LogInv, AckedHeld
<1>16. OnlyAcked'
  BY <1>2, <1>4, <1>6 DEF LogInv, OnlyAcked
<1>17. Stay /\ NewHeld
  BY <1>1, <1>2, <1>7, TruncatedStay
<1> QED BY <1>8, <1>9, <1>10, <1>11, <1>12, <1>13, <1>15, <1>16, <1>17 DEF LogInv

\* A truncation that removes the active segment removes all of them.
LEMMA TruncateAllLogInv ==
  ASSUME LogInv, NEW lowest \in Nat, Truncate(lowest), Expired(segs[active], lowest)
  PROVE  LogInv' /\ Stay /\ NewHeld
<1> DEFINE gone == {i \in segments : Expired(segs[i], lowest)}
           u    == [segs[active] EXCEPT !.buf = <<>>]
<1>1. TypeOK /\ Chain /\ Contiguous /\ active \in segments
  BY ChainHolds DEF LogInv, Truncate, Chain
<1>2. gone = segments
  <2>1. ASSUME NEW i \in segments PROVE Expired(segs[i], lowest)
    <3>1. CASE i = active BY <3>1
    <3>2. CASE i # active
      <4>1. segs[i].next <= segs[active].base /\ segs[active].base <= segs[active].next
        BY <1>1, <3>2, StateFacts DEF Chain, LogInv, ActiveOK
      <4> QED BY <1>1, <4>1, StateFacts DEF Expired
    <3> QED BY <3>1, <3>2
  <2> QED BY <2>1
<1>3. /\ segments' = {} /\ active' = active
      /\ segs' = [i \in {active} |-> u]
      /\ stores' = [b \in {} |-> stores[b]] /\ indexes' = [b \in {} |-> indexes[b]]
      /\ keepFrom' = IF lowest + 1 > keepFrom THEN lowest + 1 ELSE keepFrom
      /\ pending' = pending /\ panicked' = panicked /\ acked' = acked
  <2>1. (segments \ gone) \cup {active} = {active} /\ segments \ gone = {}
    BY <1>2
  <2>2. {segs[i].base : i \in segments \ gone} = {}
    BY <2>1
  <2>3. active \in gone
    BY <1>1, <1>2
  <2> HIDE DEF gone
  <2> QED BY <2>1, <2>2, <2>3 DEF Truncate, Restrict, gone
<1>4. u \in Segment /\ Len(u.buf) = 0 /\ u.indexSize = segs[active].indexSize
      /\ u.base = segs[active].base /\ u.next = segs[active].next
      /\ u.storeSize = segs[active].storeSize
  <2> DEFINE R == Seq(Record)
  <2>1. segs[active] \in [base : Nat, next : Nat, buf : R, storeSize : Nat, indexSize : Nat]
    BY <1>1, StateFacts DEF Segment
  <2>2. <<>> \in R
    OBVIOUS
  <2> HIDE DEF R
  <2>3. /\ u \in [base : Nat, next : Nat, buf : R, storeSize : Nat, indexSize : Nat]
        /\ u.buf = <<>> /\ u.indexSize = segs[active].indexSize
        /\ u.base = segs[active].base /\ u.next = segs[active].next
        /\ u.storeSize = segs[active].storeSize
    BY <2>1, <2>2
  <2> QED BY <2>3 DEF R, Segment
<1> HIDE DEF u
<1>5. TypeOK'
  <2>1. segs' \in [segments' \cup {active'} -> Segment] /\ DOMAIN segs' = {active}
    BY <1>3, <1>4
  <2>2. segs'[active] = u
    BY <1>3
  <2>3. \A i \in DOMAIN segs' : Len(segs'[i].buf) <= BufRecs /\ segs'[i].indexSize <= MaxIndexEnts
    BY <1>1, <1>4, <2>1, <2>2, LimitsAssumption DEF TypeOK
  <2> QED BY <1>1, <1>3, <2>1, <2>3 DEF TypeOK
<1>6. /\ segs'[active'].next = segs[active].next /\ segs'[active'].base = segs[active].base
      /\ segs'[active'].storeSize = segs[active].storeSize
      /\ segs'[active'].indexSize = segs[active].indexSize
  BY <1>3, <1>4
<1>7. \A off : Holders(off)' = {}
  BY <1>3 DEF Holders
<1>8. ActiveOK' /\ Order' /\ Grown' /\ Contiguous' /\ HighKnown' /\ OffsetsUnique'
  BY <1>3, <1>6 DEF LogInv, ActiveOK, Order, Grown, Contiguous, HighKnown, OffsetsUnique
<1>9. FilesMatch'
  BY <1>3 DEF FilesMatch
<1>10. AckedHeld' /\ OnlyAcked' /\ \A i \in segments' : SegmentOK(i)'
  BY <1>3, <1>6, <1>7 DEF LogInv, AckedHeld, OnlyAcked
<1>11. Stay /\ NewHeld
  <2>1. \A off : Holders(off)' = Holders(off) \ gone
    BY <1>2, <1>7 DEF Holders
  <2> QED BY <1>1, <1>3, <2>1, TruncatedStay
<1> QED BY <1>5, <1>8, <1>9, <1>10, <1>11 DEF LogInv

(***************************************************************************)
(* Appending                                                               *)
(***************************************************************************)

\* The segment object after segment.Append.
LEMMA AppendedSegment ==
  ASSUME NEW s \in Segment, NEW r \in Record
  PROVE  LET u == Indexed(Buffer(s, r))
         IN  /\ u \in Segment
             /\ u.base = s.base
             /\ u.next = s.next + 1
             /\ u.indexSize = s.indexSize + 1
             /\ u.storeSize = s.storeSize + 1
             /\ u.buf = Buffer(s, r).buf
             /\ Len(s.buf) <= BufRecs => Len(u.buf) <= BufRecs
<1> DEFINE R == Seq(Record)
           t == Buffer(s, r)
           u == [t EXCEPT !.indexSize = t.indexSize + 1, !.next = t.next + 1]
<1>1. /\ t \in Segment /\ t.base = s.base /\ t.next = s.next
      /\ t.indexSize = s.indexSize /\ t.storeSize = s.storeSize + 1
      /\ Len(s.buf) <= BufRecs => Len(t.buf) <= BufRecs
  BY <<>> \in Seq(Record), BufferAppends
<1>2. t \in [base : Nat, next : Nat, buf : R, storeSize : Nat, indexSize : Nat]
  BY <1>1 DEF Segment
<1>3. Indexed(Buffer(s, r)) = u
  BY DEF Indexed
<1> HIDE DEF R, t
<1>4. u \in [base : Nat, next : Nat, buf : R, storeSize : Nat, indexSize : Nat]
  <2>1. t.indexSize + 1 \in Nat /\ t.next + 1 \in Nat
    BY <1>2
  <2> QED BY <1>2, <2>1
<1>5. u \in Segment
  BY <1>4 DEF R, Segment
<1>6. /\ u.base = t.base /\ u.next = t.next + 1 /\ u.buf = t.buf
      /\ u.indexSize = t.indexSize + 1 /\ u.storeSize = t.storeSize
  BY <1>2
<1> QED BY <1>1, <1>3, <1>5, <1>6 DEF t

\* segment.Append keeps store, index and range in agreement: one record, one
\* entry and one offset more.
LEMMA SegmentGrows ==
  ASSUME NEW i, NEW s \in Segment, NEW r \in Record,
         NEW c \in Seq(Record), NEW ix \in [1..MaxIndexEnts -> Entry],
         s.storeSize = s.indexSize, s.next = s.base + s.indexSize,
         Len(c) = s.indexSize, s.indexSize < MaxIndexEnts,
         \A k \in 1..s.indexSize :
           c[k].offset = s.base + (k - 1) /\ ix[k] = [off |-> k - 1, pos |-> k - 1],
         r.offset = s.next,
         segs'[i] = Indexed(Buffer(s, r)),
         Content(i)' = Append(c, r),
         indexes'[s.base] = [ix EXCEPT ![s.indexSize + 1] = NewEntry(s)]
  PROVE  SegmentOK(i)'
<1> DEFINE n == s.indexSize
           D == Append(c, r)
           X == [ix EXCEPT ![n + 1] = NewEntry(s)]
<1>1. s.base \in Nat /\ s.next \in Nat /\ n \in Nat
  BY DEF Segment
<1>2. /\ segs'[i].base = s.base /\ segs'[i].next = s.next + 1
      /\ segs'[i].indexSize = n + 1 /\ segs'[i].storeSize = n + 1
  BY AppendedSegment
<1>3. Len(D) = n + 1
  BY AppendProperties
<1>4. /\ \A k \in 1..n : D[k] = c[k]
      /\ D[n + 1] = r
  BY AppendProperties
<1>5. NewEntry(s) = [off |-> n, pos |-> n]
  BY <1>1 DEF NewEntry
<1>6. n + 1 \in 1..MaxIndexEnts
  BY <1>1, LimitsAssumption
<1>7. ASSUME NEW k \in 1..(n + 1)
      PROVE  D[k].offset = s.base + (k - 1) /\ X[k] = [off |-> k - 1, pos |-> k - 1]
  <2>1. CASE k = n + 1
    <3>1. X[k] = NewEntry(s)
      BY <2>1, <1>6
    <3>2. k - 1 = n
      BY <2>1, <1>1
    <3> QED BY <2>1, <3>1, <3>2, <1>4, <1>5
  <2>2. CASE k # n + 1
    <3>1. k \in 1..n /\ k \in 1..MaxIndexEnts
      <4>1. k \in Nat /\ 1 <= k /\ k <= n + 1 /\ MaxIndexEnts \in Nat /\ n + 1 <= MaxIndexEnts
        BY <1>1, <1>6, LimitsAssumption
      <4> HIDE DEF n
      <4> QED BY <4>1, <2>2, <1>1
    <3>2. X[k] = ix[k]
      BY <2>2, <3>1
    <3> QED BY <3>1, <3>2, <1>4
  <2> QED BY <2>1, <2>2
<1>8. segs'[i].next = segs'[i].base + segs'[i].indexSize
  BY <1>1, <1>2
<1> HIDE DEF D, X
<1>9. indexes'[segs'[i].base] = X /\ Content(i)' = D
  BY <1>2 DEF X, D
<1> QED BY <1>2, <1>3, <1>7, <1>8, <1>9 DEF SegmentOK

\* With one writer there is one call of Append at a time.
LEMMA OnePending ==
  ASSUME LogInv, SingleWriter, NEW p \in pending
  PROVE  pending \ {p} = {}
<1>1. ASSUME NEW q \in pending PROVE q = p
  <2>1. p \in [writer : Writers, high : Nat] /\ q \in [writer : Writers, high : Nat]
    BY DEF LogInv, TypeOK
  <2>2. q.high = p.high
    BY DEF LogInv, HighKnown
  <2>3. q.writer = p.writer
    BY <2>1 DEF SingleWriter
  <2> QED BY <2>1, <2>2, <2>3
<1> QED BY <1>1

\* An append to the active segment.
LEMMA AppendToActiveLogInv ==
  ASSUME LogInv, SingleWriter, NEW p \in pending, NEW v \in Values,
         AppendToActive(p, v)
  PROVE  LogInv' /\ \E r \in Record : r.value = v /\ Grows(r)
<1> DEFINE s == segs[active]
           r == NewRecord(s, v)
           u == Indexed(Buffer(s, r))
<1>1. TypeOK /\ Chain /\ Contiguous /\ SegmentOK(active)
  BY ChainHolds DEF LogInv, Chain, AppendToActive
<1>2. /\ active \in segments /\ segments \in SUBSET Nat /\ DOMAIN segs = segments
      /\ s \in Segment /\ s.base \in Nat /\ s.next \in Nat /\ s.indexSize \in Nat
      /\ s.base \in DOMAIN stores /\ s.base \in DOMAIN indexes
      /\ stores[s.base] \in Seq(Record) /\ Content(active) \in Seq(Record)
      /\ indexes[s.base] \in [1..MaxIndexEnts -> Entry]
  BY <1>1, StateFacts DEF TypeOK
<1>3. r \in Record /\ r.offset = s.next
  BY <1>2 DEF NewRecord, Record
<1>4. /\ u \in Segment /\ u.base = s.base /\ u.next = s.next + 1
      /\ u.indexSize = s.indexSize + 1 /\ u.buf = Buffer(s, r).buf
      /\ Len(s.buf) <= BufRecs => Len(u.buf) <= BufRecs
  BY <1>2, <1>3, AppendedSegment
<1>5. s.indexSize < MaxIndexEnts
  BY <1>2, LimitsAssumption DEF AppendToActive, IsMaxed
<1>6. /\ segments' = segments /\ active' = active
      /\ segs' = [segs EXCEPT ![active] = u]
      /\ stores' = [stores EXCEPT ![s.base] = stores[s.base] \o Spilled(s)]
      /\ indexes' = [indexes EXCEPT ![s.base] =
                        [indexes[s.base] EXCEPT ![s.indexSize + 1] = NewEntry(s)]]
      /\ acked' = acked \cup {r} /\ pending' = pending \ {p}
      /\ panicked' = panicked /\ keepFrom' = keepFrom
  BY DEF AppendToActive
<1>7. segs'[active] = u /\ \A j \in segments : j # active => segs'[j] = segs[j]
  BY <1>2, <1>6
<1>8. \A j \in segments : j # active =>
        /\ segs[j].base # s.base
        /\ stores'[segs[j].base] = stores[segs[j].base]
        /\ indexes'[segs[j].base] = indexes[segs[j].base]
        /\ Content(j)' = Content(j)
  <2>1. ASSUME NEW j \in segments, j # active
        PROVE  segs[j].base # s.base
    BY <1>1, <1>2, <2>1, DistinctBases
  <2>2. \A j \in segments : segs[j].base \in DOMAIN stores /\ segs[j].base \in DOMAIN indexes
    BY <1>1 DEF TypeOK
  <2> QED BY <2>1, <2>2, <1>6, <1>7 DEF Content
<1>9. stores'[s.base] = stores[s.base] \o Spilled(s)
      /\ indexes'[s.base] = [indexes[s.base] EXCEPT ![s.indexSize + 1] = NewEntry(s)]
  BY <1>2, <1>6
<1>10. Content(active)' = Append(Content(active), r)
  <2>1. (stores[s.base] \o Spilled(s)) \o Buffer(s, r).buf = Append(stores[s.base] \o s.buf, r)
    BY <1>2, <1>3, BufferAppends
  <2>2. Content(active)' = stores'[u.base] \o u.buf
    BY <1>6, <1>7 DEF Content
  <2> QED BY <2>1, <2>2, <1>4, <1>9 DEF Content
<1> HIDE DEF u
<1>11. ASSUME NEW j \in segments, j = active
       PROVE  SegmentOK(j)'
  <2>1. /\ s.storeSize = s.indexSize /\ s.next = s.base + s.indexSize
        /\ Len(Content(active)) = s.indexSize
        /\ \A k \in 1..s.indexSize :
             /\ Content(active)[k].offset = s.base + (k - 1)
             /\ indexes[s.base][k] = [off |-> k - 1, pos |-> k - 1]
    BY <1>1 DEF SegmentOK
  <2>2. segs'[j] = Indexed(Buffer(s, r))
    BY <1>7, <1>11 DEF u
  <2>3. Content(j)' = Append(Content(active), r)
    BY <1>6, <1>10, <1>11 DEF Content
  <2> HIDE DEF s, r
  <2> QED BY <2>1, <2>2, <2>3, <1>2, <1>3, <1>5, <1>9, SegmentGrows
<1>12. \A j \in segments' : SegmentOK(j)'
  <2>1. ASSUME NEW j \in segments, j # active PROVE SegmentOK(j)'
    <3>1. SegmentOK(j)
      BY DEF LogInv
    <3> QED BY <2>1, <3>1, <1>7, <1>8, SegmentKept
  <2> QED BY <1>2, <1>6, <1>11, <2>1
<1>13. TypeOK'
  <2>1. segs' \in [segments' \cup {active'} -> Segment]
    BY <1>1, <1>2, <1>4, <1>6 DEF TypeOK
  <2>2. DOMAIN stores' = DOMAIN stores /\ DOMAIN indexes' = DOMAIN indexes
    BY <1>6
  <2>3. \A b \in DOMAIN stores' : stores'[b] \in Seq(Record)
    <3>1. stores[s.base] \o Spilled(s) \in Seq(Record)
      BY <1>2, <1>3, BufferAppends, ConcatProperties
    <3> QED BY <1>1, <1>6, <3>1 DEF TypeOK
  <2>4. \A b \in DOMAIN indexes' : indexes'[b] \in [1..MaxIndexEnts -> Entry]
    <3>1. NewEntry(s) \in Entry
      BY <1>1, <1>2 DEF NewEntry, Entry, SegmentOK
    <3>2. [indexes[s.base] EXCEPT ![s.indexSize + 1] = NewEntry(s)] \in [1..MaxIndexEnts -> Entry]
      BY <1>2, <3>1
    <3> HIDE DEF s
    <3> QED BY <1>1, <1>6, <3>2 DEF TypeOK
  <2>5. \A j \in DOMAIN segs' : Len(segs'[j].buf) <= BufRecs
                               /\ segs'[j].indexSize <= MaxIndexEnts
    <3>1. s.indexSize + 1 <= MaxIndexEnts
      BY <1>2, <1>5, LimitsAssumption
    <3>2. Len(segs[active].buf) <= BufRecs
      BY <1>1, <1>2 DEF TypeOK
    <3>3. DOMAIN segs' = segments
      BY <1>2, <1>6
    <3> QED BY <1>1, <1>2, <1>4, <1>7, <3>1, <3>2, <3>3 DEF TypeOK
  <2>6. \A j \in segments' : segs'[j].base \in DOMAIN stores'
    BY <1>1, <1>2, <1>4, <1>6, <1>7, <2>2 DEF TypeOK
  <2> QED BY <1>1, <1>3, <1>6, <2>1, <2>2, <2>3, <2>4, <2>5, <2>6 DEF TypeOK
<1>14. Order' /\ Contiguous' /\ FilesMatch'
  <2>1. Order'
    BY <1>1, <1>2, <1>4, <1>6, <1>7 DEF Chain, Order
  <2>2. Contiguous'
    <3>1. SUFFICES ASSUME NEW j \in segments, j # active
                   PROVE  j + 1 \in segments /\ segs'[j].next = segs'[j + 1].base
      BY <1>6 DEF Contiguous
    <3>2. j + 1 \in segments /\ segs[j].next = segs[j + 1].base
      BY <1>1, <3>1 DEF Contiguous
    <3> QED BY <3>1, <3>2, <1>4, <1>7
  <2>3. \A j \in segments : segs'[j].base = segs[j].base
    BY <1>4, <1>7
  <2>4. FilesMatch'
    BY <2>3, <1>6 DEF LogInv, FilesMatch
  <2> QED BY <2>1, <2>2, <2>4
<1>15. HighKnown' /\ Grown' /\ ActiveOK'
  <2>1. pending' = {}
    BY <1>6, OnePending
  <2>2. segs'[active].base < segs'[active].next
    BY <1>1, <1>2, <1>4, <1>7 DEF SegmentOK
  <2>3. ActiveOK'
    BY <1>2, <1>6, <1>12 DEF ActiveOK, SegmentOK
  <2> QED BY <1>6, <2>1, <2>2, <2>3 DEF HighKnown, Grown
<1>16. /\ Len(Content(active)) = s.indexSize /\ s.next = s.base + s.indexSize
       /\ Append(Content(active), r)[s.indexSize + 1] = r
       /\ \A k \in 1..s.indexSize : Append(Content(active), r)[k] = Content(active)[k]
  BY <1>1, <1>2, <1>3, AppendProperties DEF SegmentOK
<1>17. ASSUME NEW off \in Nat, off < s.next PROVE Holders(off)' = Holders(off)
  BY <1>2, <1>4, <1>6, <1>7, <1>17 DEF Holders
<1>19. AckedHeld'
  <2>1. SUFFICES ASSUME NEW q \in acked'
                 PROVE  /\ q.offset < s.next + 1
                        /\ \A i \in Holders(q.offset)' :
                             (Content(i)')[q.offset - segs'[i].base + 1] = q
    BY <1>4, <1>6, <1>7 DEF AckedHeld
  <2>2. CASE q = r
    <3>1. ASSUME NEW i \in Holders(q.offset)' PROVE i = active
      <4>1. i \in segments /\ s.next < segs'[i].next
        BY <2>2, <1>3, <1>6 DEF Holders
      <4>2. ASSUME i # active PROVE FALSE
        <5>1. i < active
          BY <1>1, <1>2, <4>1, <4>2 DEF Chain
        <5>2. segs'[i].next = segs[i].next /\ segs[i].next \in Nat
          BY <1>1, <1>7, <4>1, <4>2, StateFacts
        <5>3. segs[i].next <= s.base
          BY <1>1, <1>2, <4>1, <5>1 DEF Chain
        <5> QED BY <1>2, <1>16, <4>1, <5>2, <5>3
      <4> QED BY <4>2
    <3>2. (Content(active)')[s.next - s.base + 1] = r
      <4>1. s.next - s.base + 1 = s.indexSize + 1
        BY <1>2, <1>16
      <4> QED BY <4>1, <1>10, <1>16
    <3>3. ASSUME NEW i \in Holders(q.offset)'
          PROVE  (Content(i)')[q.offset - segs'[i].base + 1] = q
      <4>1. Content(i)' = Content(active)' /\ segs'[i].base = s.base
        BY <3>1, <1>4, <1>6, <1>7 DEF Content
      <4> QED BY <2>2, <3>2, <4>1, <1>3
    <3>4. q.offset < s.next + 1
      BY <2>2, <1>2, <1>3
    <3> QED BY <3>3, <3>4
  <2>3. CASE q # r
    <3>1. q \in acked /\ q.offset \in Nat
      BY <2>3, <1>1, <1>6 DEF TypeOK, Record
    <3>2. /\ q.offset < s.next
          /\ \A i \in Holders(q.offset) : Content(i)[q.offset - segs[i].base + 1] = q
      BY <3>1 DEF LogInv, AckedHeld
    <3>3. Holders(q.offset)' = Holders(q.offset)
      BY <1>17, <3>1, <3>2
    <3>4. ASSUME NEW i \in Holders(q.offset)
          PROVE  (Content(i)')[q.offset - segs'[i].base + 1] = q
      <4>1. CASE i = active
        <5>1. q.offset - s.base + 1 \in 1..s.indexSize
          BY <4>1, <1>2, <1>16, <3>1, <3>2 DEF Holders
        <5>2. Content(i)' = Append(Content(active), r) /\ segs'[i].base = s.base
          BY <4>1, <1>4, <1>6, <1>7, <1>10 DEF Content
        <5>3. Content(active)[q.offset - s.base + 1] = q
          BY <4>1, <3>2
        <5> QED BY <5>1, <5>2, <5>3, <1>16
      <4>2. CASE i # active
        BY <4>2, <1>7, <1>8, <3>2 DEF Holders
      <4> QED BY <4>1, <4>2
    <3>5. q.offset < s.next + 1
      BY <1>2, <3>1, <3>2
    <3> QED BY <3>3, <3>4, <3>5
  <2> QED BY <2>2, <2>3
<1>20. OnlyAcked'
  <2>1. SUFFICES ASSUME NEW i \in segments, NEW k \in 1..segs'[i].indexSize
                 PROVE  (Content(i)')[k] \in acked \cup {r}
    BY <1>6 DEF OnlyAcked
  <2>2. CASE i # active
    <3>1. segs'[i] = segs[i] /\ Content(i)' = Content(i)
      BY <1>7, <1>8, <2>2
    <3> QED BY <2>1, <3>1 DEF LogInv, OnlyAcked
  <2>3. CASE i = active
    <3>1. k \in 1..(s.indexSize + 1) /\ Content(i)' = Append(Content(active), r)
      <4>1. segs'[active].indexSize = s.indexSize + 1
        BY <1>4, <1>7
      <4>2. Content(i)' = Append(Content(active), r)
        BY <2>3, <1>6, <1>10 DEF Content
      <4> QED BY <2>1, <2>3, <4>1, <4>2
    <3>2. CASE k \in 1..s.indexSize
      BY <3>1, <3>2, <1>2, <1>16 DEF LogInv, OnlyAcked
    <3>3. CASE k = s.indexSize + 1
      BY <3>1, <3>3, <1>16
    <3>4. s.indexSize \in Nat
      BY <1>2
    <3>5. k \in 1..s.indexSize \/ k = s.indexSize + 1
      <4> HIDE DEF s
      <4> QED BY <3>1, <3>4
    <3> QED BY <3>2, <3>3, <3>5
  <2> QED BY <2>2, <2>3
<1>21. OffsetsUnique'
  <2>1. \A q \in acked : q.offset # r.offset
    <3>1. \A q \in acked : q.offset \in Nat /\ q.offset < s.next
      BY <1>1 DEF LogInv, AckedHeld, TypeOK, Record
    <3> QED BY <1>2, <1>3, <3>1
  <2> HIDE DEF r
  <2> QED BY <1>6, <2>1 DEF LogInv, OffsetsUnique
<1>22. ASSUME NEW off \in Nat
       PROVE  Holders(off)' # {} <=> Holders(off) # {} \/ off = s.next
  <2>1. \A j \in segments :
          /\ segs'[j].base = segs[j].base /\ segs[j].base \in Nat /\ segs[j].next \in Nat
          /\ segs'[j].next = IF j = active THEN s.next + 1 ELSE segs[j].next
    BY <1>1, <1>4, <1>7, StateFacts
  <2>2. s.base <= s.next
    BY <1>2, <1>16
  <2>3. \A j \in segments :
          segs'[j].base <= off /\ off < segs'[j].next <=>
            (segs[j].base <= off /\ off < segs[j].next) \/ (j = active /\ off = s.next)
    BY <1>2, <2>1, <2>2
  <2> QED BY <1>2, <1>6, <2>3 DEF Holders
<1>23. Grows(r) /\ r.value = v
  <2>1. r.value = v
    BY DEF NewRecord
  <2>2. keepFrom' = keepFrom /\ keepFrom \in Nat
    BY <1>1, <1>6 DEF TypeOK
  <2>3. segs'[active'].next = segs[active].next + 1 /\ segs[active].next \in Nat
    BY <1>2, <1>4, <1>6, <1>7
  <2>4. r.offset = segs[active].next
    BY <1>3
  <2>5. acked' = acked \cup {r}
    BY <1>6
  <2> HIDE DEF r
  <2> QED BY <1>22, <2>1, <2>2, <2>3, <2>4, <2>5 DEF Grows
<1> QED
  BY <1>3, <1>12, <1>13, <1>14, <1>15, <1>19, <1>20, <1>21, <1>23 DEF LogInv

\* An append to a segment that is gone: nothing reaches the log.
LEMMA AppendToRemovedLogInv ==
  ASSUME LogInv, SingleWriter, NEW p \in pending, NEW v \in Values,
         AppendToRemoved(p, v)
  PROVE  LogInv' /\ Stay
<1> DEFINE s == segs[active]
           r == NewRecord(s, v)
           u == Indexed(Buffer(s, r))
<1>1. TypeOK /\ Order /\ ActiveOK /\ segments = {} /\ pending' = {}
  BY OnePending DEF LogInv, Order, AppendToRemoved
<1>2. /\ s \in Segment /\ s.base \in Nat /\ s.next \in Nat /\ s.indexSize \in Nat
      /\ s.storeSize \in Nat /\ s.buf \in Seq(Record) /\ Len(s.buf) <= BufRecs
  BY <1>1, SegmentFacts
<1>3. r \in Record /\ r.offset = s.next
  BY <1>2 DEF NewRecord, Record
<1>4. /\ u \in Segment /\ u.base = s.base /\ u.next = s.next + 1
      /\ u.indexSize = s.indexSize + 1 /\ u.storeSize = s.storeSize + 1
      /\ Len(u.buf) <= BufRecs
  BY <1>2, <1>3, AppendedSegment
<1>5. s.indexSize < MaxIndexEnts
  BY <1>2, LimitsAssumption DEF AppendToRemoved, IsMaxed
<1>6. /\ UNCHANGED <<segments, active, stores, indexes, keepFrom>>
      /\ panicked' \in BOOLEAN
      /\ \/ segs' = segs /\ acked' = acked
         \/ segs' = [segs EXCEPT ![active] = u] /\ acked' = acked \cup {r}
  BY DEF AppendToRemoved
<1>7. \A off : Holders(off) = {} /\ Holders(off)' = {}
  BY <1>1, <1>6 DEF Holders
<1>8. CASE segs' = segs /\ acked' = acked
  <2>1. TypeOK' /\ HighKnown'
    BY <1>1, <1>6, <1>8 DEF TypeOK, HighKnown
  <2> QED BY <1>6, <1>8, <2>1, SameLog
<1>9. CASE segs' = [segs EXCEPT ![active] = u] /\ acked' = acked \cup {r}
  <2> HIDE DEF u
  <2>1. DOMAIN segs = {active} /\ segs'[active] = u /\ DOMAIN segs' = {active}
    BY <1>1, <1>9 DEF TypeOK
  <2>2. TypeOK'
    <3>1. segs' \in [segments' \cup {active'} -> Segment]
      BY <1>1, <1>4, <1>6, <2>1, <1>9 DEF TypeOK
    <3>2. \A i \in DOMAIN segs' : Len(segs'[i].buf) <= BufRecs /\ segs'[i].indexSize <= MaxIndexEnts
      <4>1. s.indexSize + 1 <= MaxIndexEnts
        BY <1>2, <1>5, LimitsAssumption
      <4> QED BY <1>4, <2>1, <4>1
    <3>3. acked' \in SUBSET Record
      BY <1>1, <1>3, <1>9 DEF TypeOK
    <3> QED BY <1>1, <1>6, <3>1, <3>2, <3>3 DEF TypeOK
  <2>3. ActiveOK'
    BY <1>1, <1>2, <1>4, <1>6, <2>1 DEF ActiveOK
  <2>4. Order' /\ Grown' /\ Contiguous' /\ FilesMatch' /\ HighKnown' /\ OnlyAcked'
        /\ \A i \in segments' : SegmentOK(i)'
    BY <1>1, <1>6 DEF LogInv, Order, Grown, Contiguous, FilesMatch, HighKnown, OnlyAcked
  <2>5. \A q \in acked : q.offset \in Nat /\ q.offset < s.next
    BY <1>1 DEF LogInv, AckedHeld, TypeOK, Record
  <2>6. AckedHeld'
    <3>1. \A q \in acked' : q.offset < s.next + 1
      BY <1>2, <1>3, <1>9, <2>5
    <3> QED BY <1>4, <1>6, <1>7, <2>1, <3>1 DEF AckedHeld
  <2>7. OffsetsUnique'
    <3>1. \A q \in acked : q.offset # r.offset
      BY <1>2, <1>3, <2>5
    <3> HIDE DEF r
    <3> QED BY <1>9, <3>1 DEF LogInv, OffsetsUnique
  <2>8. Stay
    BY <1>1, <1>6, <1>7, <1>9 DEF Stay, TypeOK
  <2> QED BY <2>2, <2>3, <2>4, <2>6, <2>7, <2>8 DEF LogInv
<1> QED BY <1>6, <1>8, <1>9

\* The offset read before the lock is still that before the next one, so the new
\* segment begins where the active one ended, on files that do not exist yet.
LEMMA RotationIsFresh ==
  ASSUME LogInv, NEW p \in pending, IsMaxed(segs[active])
  PROVE  LET b == NewBase(p.high)
         IN  /\ b = segs[active].next
             /\ b \in Nat
             /\ \A i \in segments : segs[i].base < b /\ segs[i].next <= b
             /\ b \notin DOMAIN stores /\ b \notin DOMAIN indexes
             /\ StoreFile(b) = <<>> /\ IndexFile(b) = <<>>
             /\ OpenSegment(b) = [base |-> b, next |-> b, buf |-> <<>>,
                                  storeSize |-> 0, indexSize |-> 0]
<1> DEFINE s == segs[active]
           b == NewBase(p.high)
<1>1. TypeOK /\ Order /\ FilesMatch /\ ActiveOK
  BY DEF LogInv
<1>2. s.base \in Nat /\ s.next \in Nat /\ s.storeSize \in Nat /\ s.indexSize \in Nat
  BY <1>1, SegmentFacts
<1>3. s.base < s.next
  BY <1>1, <1>2, LimitsAssumption DEF IsMaxed, ActiveOK
<1>4. b = s.next
  <2>1. p.high = s.next - 1
    BY <1>2, <1>3 DEF LogInv, HighKnown
  <2> QED BY <2>1, <1>2 DEF NewBase
<1>5. ASSUME NEW i \in segments PROVE segs[i].base < b /\ segs[i].next <= b
  <2>1. i \in Nat /\ active \in Nat /\ i <= active
        /\ segs[i].base \in Nat /\ segs[i].next \in Nat
    BY <1>1, SegmentFacts DEF Order
  <2>2. CASE i = active
    BY <2>2, <1>2, <1>3, <1>4
  <2>3. CASE i < active
    <3>1. segs[i].base < segs[i].next /\ segs[i].next <= s.base
      BY <1>1, <2>3 DEF Order
    <3> QED BY <3>1, <2>1, <1>2, <1>3, <1>4
  <2> QED BY <2>1, <2>2, <2>3
<1>6. b \notin DOMAIN stores /\ b \notin DOMAIN indexes
  <2>1. \A i \in segments : segs[i].base # b
    BY <1>1, <1>2, <1>4, <1>5, SegmentFacts
  <2> QED BY <2>1, <1>1 DEF FilesMatch, TypeOK
<1>7. StoreFile(b) = <<>> /\ IndexFile(b) = <<>>
  BY <1>6 DEF StoreFile, IndexFile
<1>8. OpenSegment(b) = [base |-> b, next |-> b, buf |-> <<>>,
                       storeSize |-> 0, indexSize |-> 0]
  BY <1>7 DEF OpenSegment
<1> QED BY <1>2, <1>4, <1>5, <1>6, <1>7, <1>8

\* An append that begins a new segment, the first one of all perhaps.
LEMMA AppendToNewLogInv ==
  ASSUME LogInv, SingleWriter, NEW p \in pending, NEW v \in Values,
         AppendToNew(p, v)
  PROVE  LogInv' /\ \E r \in Record : r.value = v /\ Grows(r)
<1>1. TypeOK /\ Order /\ Contiguous /\ FilesMatch
  BY DEF LogInv
<1>2. IsMaxed(segs[active])
  BY DEF AppendToNew
<1>3. PICK b \in Nat, m \in Nat : b = NewBase(p.high) /\ m = active + 1
  <2>1. NewBase(p.high) \in Nat
    BY <1>2, RotationIsFresh
  <2>2. active + 1 \in Nat
    BY <1>1 DEF TypeOK
  <2> QED BY <2>1, <2>2
<1> DEFINE s == [base |-> b, next |-> b, buf |-> <<>>, storeSize |-> 0, indexSize |-> 0]
           r == NewRecord(s, v)
           u == Indexed(Buffer(s, r))
           ents == Padded(<<>>)
<1>4. /\ b = segs[active].next
      /\ \A i \in segments : segs[i].base < b /\ segs[i].next <= b
      /\ b \notin DOMAIN stores /\ b \notin DOMAIN indexes
      /\ StoreFile(b) = <<>> /\ IndexFile(b) = <<>> /\ OpenSegment(b) = s
  BY <1>2, <1>3, RotationIsFresh
<1>5. /\ s \in Segment /\ s.base = b /\ s.next = b /\ s.buf = <<>>
      /\ s.storeSize = 0 /\ s.indexSize = 0
  BY DEF Segment
<1>6. s.indexSize < MaxIndexEnts
  BY <1>5, LimitsAssumption
<1>7. r \in Record /\ r.offset = b
  BY <1>5 DEF NewRecord, Record
<1>8. ents \in [1..MaxIndexEnts -> Entry]
  BY LimitsAssumption DEF Padded, Entry, ZeroEntry
<1>9. /\ active' = m /\ segments' = segments \cup {m}
      /\ segs' = [i \in segments \cup {m} |-> IF i = m THEN u ELSE segs[i]]
      /\ stores' = [c \in DOMAIN stores \cup {b} |-> StoreFile(c)]
      /\ indexes' = [c \in DOMAIN indexes \cup {b} |->
                       IF c = b THEN [ents EXCEPT ![s.indexSize + 1] = NewEntry(s)]
                       ELSE indexes[c]]
      /\ acked' = acked \cup {r} /\ pending' = pending \ {p}
      /\ panicked' = panicked /\ keepFrom' = keepFrom
  <2> HIDE DEF s
  <2> QED BY <1>3, <1>4, <1>6 DEF AppendToNew
<1>10. /\ u \in Segment /\ u.base = b /\ u.next = b + 1
       /\ u.indexSize = 1 /\ u.buf = Buffer(s, r).buf
       /\ Len(u.buf) <= BufRecs
  <2>1. Len(s.buf) <= BufRecs
    BY <1>5, LimitsAssumption
  <2> HIDE DEF s, r
  <2> QED BY <1>5, <1>7, <2>1, AppendedSegment
<1> HIDE DEF u
<1>11. m \notin segments /\ \A i \in segments : i < m
  BY <1>1, <1>3, SegmentFacts DEF Order
<1>12. segs'[m] = u /\ \A i \in segments : segs'[i] = segs[i]
  BY <1>9, <1>11
<1>13. /\ \A c \in DOMAIN stores : stores'[c] = stores[c] /\ indexes'[c] = indexes[c]
       /\ stores'[b] = <<>>
       /\ indexes'[b] = [ents EXCEPT ![s.indexSize + 1] = NewEntry(s)]
  BY <1>1, <1>4, <1>9 DEF StoreFile, TypeOK
<1>14. \A i \in segments : Content(i)' = Content(i)
  BY <1>1, <1>12, <1>13 DEF Content, TypeOK
<1>15. Content(m)' = Append(<<>>, r)
  <2>1. Content(m)' = <<>> \o Buffer(s, r).buf
    BY <1>10, <1>12, <1>13 DEF Content
  <2>2. Spilled(s) = <<>>
    BY <1>5, LimitsAssumption DEF Spilled
  <2>3. (<<>> \o Spilled(s)) \o Buffer(s, r).buf = Append(<<>> \o s.buf, r)
    <3>1. <<>> \in Seq(Record)
      OBVIOUS
    <3> HIDE DEF s, r
    <3> QED BY <1>5, <1>7, <3>1, BufferAppends
  <2>4. <<>> \o <<>> = <<>>
    OBVIOUS
  <2> HIDE DEF s, r
  <2> QED BY <2>1, <2>2, <2>3, <2>4, <1>5
<1>16. SegmentOK(m)'
  <2>1. <<>> \in Seq(Record) /\ Len(<<>>) = 0
    OBVIOUS
  <2>2. segs'[m] = Indexed(Buffer(s, r))
    BY <1>12 DEF u
  <2>3. /\ s.next = s.base + s.indexSize /\ s.storeSize = s.indexSize
        /\ Len(<<>>) = s.indexSize /\ r.offset = s.next
    BY <1>5, <1>7, <2>1
  <2>4. \A k \in 1..s.indexSize :
          <<>>[k].offset = s.base + (k - 1) /\ ents[k] = [off |-> k - 1, pos |-> k - 1]
    BY <1>5
  <2>5. indexes'[s.base] = [ents EXCEPT ![s.indexSize + 1] = NewEntry(s)]
    BY <1>5, <1>13
  <2> HIDE DEF s, r, ents
  <2> QED BY <2>1, <2>2, <2>3, <2>4, <2>5, <1>5, <1>6, <1>7, <1>8, <1>15, SegmentGrows
<1>17. \A i \in segments' : SegmentOK(i)'
  <2>1. ASSUME NEW i \in segments PROVE SegmentOK(i)'
    <3>1. SegmentOK(i)
      BY DEF LogInv
    <3>2. indexes'[segs[i].base] = indexes[segs[i].base]
      BY <1>1, <1>13 DEF TypeOK
    <3> QED BY <3>1, <3>2, <1>12, <1>14, SegmentKept
  <2> QED BY <1>9, <1>16, <2>1
<1>18. TypeOK'
  <2>1. DOMAIN segs' = segments \cup {m} /\ segments' \cup {active'} = segments \cup {m}
    BY <1>9
  <2>2. \A i \in segments \cup {m} : segs'[i] \in Segment
    BY <1>1, <1>10, <1>12, SegmentFacts
  <2>3. segs' \in [segments' \cup {active'} -> Segment]
    BY <2>1, <2>2, <1>9
  <2>4. /\ DOMAIN stores' = DOMAIN stores \cup {b} /\ DOMAIN indexes' = DOMAIN stores'
        /\ DOMAIN stores' \in SUBSET Nat
    BY <1>1, <1>9 DEF TypeOK
  <2>5. \A c \in DOMAIN stores' : stores'[c] \in Seq(Record)
    <3>1. <<>> \in Seq(Record)
      OBVIOUS
    <3>2. \A c \in DOMAIN stores : stores[c] \in Seq(Record)
      BY <1>1 DEF TypeOK
    <3> HIDE DEF r
    <3> QED BY <1>13, <2>4, <3>1, <3>2
  <2>6. \A c \in DOMAIN indexes' : indexes'[c] \in [1..MaxIndexEnts -> Entry]
    <3>1. NewEntry(s) \in Entry
      BY <1>5 DEF NewEntry, Entry
    <3>2. indexes'[b] \in [1..MaxIndexEnts -> Entry]
      <4> HIDE DEF ents, s
      <4> QED BY <1>8, <1>13, <3>1
    <3> QED BY <1>1, <1>13, <2>4, <3>2 DEF TypeOK
  <2>7. \A i \in DOMAIN segs' : Len(segs'[i].buf) <= BufRecs
                               /\ segs'[i].indexSize <= MaxIndexEnts
    <3>1. 1 <= MaxIndexEnts
      BY LimitsAssumption
    <3>2. DOMAIN segs = segments \cup {active}
      BY <1>1 DEF TypeOK
    <3> QED BY <1>1, <1>10, <1>12, <2>1, <3>1, <3>2 DEF TypeOK
  <2>8. \A i \in segments' : segs'[i].base \in DOMAIN stores'
    BY <1>1, <1>9, <1>10, <1>12, <2>4 DEF TypeOK
  <2>9. segments' \in SUBSET Nat /\ active' \in Nat
    BY <1>1, <1>9 DEF TypeOK
  <2> HIDE DEF r
  <2> QED BY <1>1, <1>7, <1>9, <2>3, <2>4, <2>5, <2>6, <2>7, <2>8, <2>9 DEF TypeOK
<1>19. Order'
  <2>1. \A i \in segments : i <= m
    BY <1>1, <1>11, SegmentFacts
  <2>2. m <= m
    OBVIOUS
  <2>3. \A i, j \in segments' :
          i < j => segs'[i].base < segs'[i].next /\ segs'[i].next <= segs'[j].base
    <3>1. SUFFICES ASSUME NEW i \in segments', NEW j \in segments', i < j
                   PROVE  segs'[i].base < segs'[i].next /\ segs'[i].next <= segs'[j].base
      OBVIOUS
    <3>2. i \in segments
      <4>1. CASE i = m
        BY <4>1, <3>1, <1>1, <1>9, <1>11, SegmentFacts
      <4> QED BY <4>1, <1>9
    <3>3. CASE j \in segments
      BY <3>1, <3>2, <3>3, <1>1, <1>12 DEF Order
    <3>4. CASE j = m
      <4>1. segs[i].base < segs[i].next
        <5>1. CASE i = active
          BY <5>1, <1>4, <3>2
        <5>2. CASE i # active
          <6>1. i < active /\ active \in segments
            BY <1>1, <3>2, <5>2, SegmentFacts DEF Order
          <6> QED BY <1>1, <3>2, <6>1 DEF Order
        <5> QED BY <5>1, <5>2
      <4> QED BY <3>2, <3>4, <4>1, <1>4, <1>10, <1>12
    <3> QED BY <3>3, <3>4, <1>9
  <2> QED BY <1>9, <2>1, <2>2, <2>3 DEF Order
<1>20. Contiguous'
  <2>1. SUFFICES ASSUME NEW i \in segments
                 PROVE  i + 1 \in segments' /\ segs'[i].next = segs'[i + 1].base
    BY <1>9 DEF Contiguous
  <2>2. CASE i = active
    BY <2>2, <1>3, <1>4, <1>9, <1>10, <1>12
  <2>3. CASE i # active
    BY <2>3, <1>1, <1>9, <1>12 DEF Contiguous
  <2> QED BY <2>2, <2>3
<1>21. FilesMatch'
  BY <1>1, <1>9, <1>10, <1>12 DEF FilesMatch
<1>22. HighKnown' /\ Grown' /\ ActiveOK'
  <2>1. pending' = {}
    BY <1>9, OnePending
  <2>2. segs'[m].base < segs'[m].next
    BY <1>10, <1>12
  <2>3. ActiveOK'
    BY <1>9, <1>17 DEF ActiveOK, SegmentOK
  <2> QED BY <1>9, <2>1, <2>2, <2>3 DEF HighKnown, Grown
<1>23. ASSUME NEW off \in Nat
       PROVE  Holders(off)' # {} <=> Holders(off) # {} \/ off = b
  <2>1. m \in Holders(off)' <=> off = b
    BY <1>3, <1>9, <1>10, <1>12 DEF Holders
  <2>2. \A i \in segments : i \in Holders(off)' <=> i \in Holders(off)
    BY <1>9, <1>12 DEF Holders
  <2>3. Holders(off)' \subseteq segments \cup {m} /\ Holders(off) \subseteq segments
    BY <1>9 DEF Holders
  <2> QED BY <2>1, <2>2, <2>3
<1>24. \A q \in acked : q.offset \in Nat /\ q.offset < b
  BY <1>1, <1>4 DEF LogInv, AckedHeld, TypeOK, Record
<1>25. ASSUME NEW off \in Nat, off < b PROVE Holders(off)' = Holders(off)
  BY <1>9, <1>10, <1>12, <1>25 DEF Holders
<1>26. AckedHeld'
  <2>1. SUFFICES ASSUME NEW q \in acked'
                 PROVE  /\ q.offset < b + 1
                        /\ \A i \in Holders(q.offset)' :
                             (Content(i)')[q.offset - segs'[i].base + 1] = q
    <3>1. segs'[active'].next = b + 1
      BY <1>9, <1>10, <1>12
    <3> HIDE DEF r
    <3> QED BY <3>1 DEF AckedHeld
  <2>2. CASE q = r
    <3>1. ASSUME NEW i \in Holders(q.offset)' PROVE i = m
      <4>1. i \in segments' /\ b < segs'[i].next
        BY <2>2, <1>7 DEF Holders
      <4>2. i \in segments => segs'[i].next <= b /\ segs'[i].next \in Nat
        BY <1>1, <1>4, <1>12, SegmentFacts
      <4> QED BY <1>9, <4>1, <4>2
    <3>2. Append(<<>>, r)[1] = r
      BY <1>7
    <3>3. q.offset - segs'[m].base + 1 = 1
      BY <2>2, <1>7, <1>10, <1>12
    <3>4. q.offset < b + 1
      BY <2>2, <1>7
    <3> QED BY <2>2, <3>1, <3>2, <3>3, <3>4, <1>15
  <2>3. CASE q # r
    <3>1. q \in acked /\ q.offset \in Nat /\ q.offset < b
      BY <2>3, <1>9, <1>24
    <3>2. \A i \in Holders(q.offset) : Content(i)[q.offset - segs[i].base + 1] = q
      BY <3>1 DEF LogInv, AckedHeld
    <3>3. Holders(q.offset)' = Holders(q.offset)
      BY <1>25, <3>1
    <3>4. Holders(q.offset) \in SUBSET segments
      BY DEF Holders
    <3>5. q.offset < b + 1
      BY <3>1
    <3> QED BY <1>12, <1>14, <3>2, <3>3, <3>4, <3>5
  <2> QED BY <2>2, <2>3
<1>27. OnlyAcked'
  <2>1. SUFFICES ASSUME NEW i \in segments', NEW k \in 1..segs'[i].indexSize
                 PROVE  (Content(i)')[k] \in acked \cup {r}
    BY <1>9 DEF OnlyAcked
  <2>2. CASE i \in segments
    BY <1>12, <1>14, <2>1, <2>2 DEF LogInv, OnlyAcked
  <2>3. CASE i = m
    <3>1. k = 1
      BY <1>10, <1>12, <2>1, <2>3
    <3>2. Append(<<>>, r)[1] = r
      BY <1>7
    <3> QED BY <1>15, <2>3, <3>1, <3>2
  <2> QED BY <1>9, <2>2, <2>3
<1>28. OffsetsUnique'
  <2>1. \A q \in acked : q.offset # r.offset
    BY <1>7, <1>24
  <2> HIDE DEF r
  <2> QED BY <1>9, <2>1 DEF LogInv, OffsetsUnique
<1>29. Grows(r) /\ r.value = v
  BY <1>1, <1>4, <1>7, <1>9, <1>10, <1>12, <1>23 DEF Grows, NewRecord, TypeOK
<1> QED
  BY <1>7, <1>17, <1>18, <1>19, <1>20, <1>21, <1>22, <1>26, <1>27, <1>28, <1>29
  DEF LogInv

(***************************************************************************)
(* Every step                                                              *)
(***************************************************************************)

\* Read flushes the one segment that holds the offset.
LEMMA ReadFlushes ==
  ASSUME LogInv, NEW off \in Nat, Read(off)
  PROVE  \E i \in segments : Flush(i)
<1>1. PICK i \in Holders(off) : i \in segments
  BY DEF Read, Holders
<1>2. TypeOK /\ Chain
  BY <1>1, ChainHolds DEF LogInv
<1>3. Holders(off) \in SUBSET Nat
  BY <1>2, StateFacts DEF Holders
<1>4. \A j \in Holders(off) : j = i
  BY <1>2, OneHolder
<1>5. Min(Holders(off)) = i
  BY <1>3, <1>4, MinOfOne
<1> QED BY <1>1, <1>5 DEF Read

\* Every step keeps the invariant and loses an offset only by truncating.
LEMMA NextLogInv ==
  ASSUME SingleWriter, LogInv, [Next]_vars
  PROVE  /\ LogInv' /\ Stay
         /\ NewHeld \/ segments = {}
<1>1. CASE \E w \in Writers : AppendBegin(w)
  BY <1>1, AppendBeginLogInv
<1>2. CASE OffsetPanics
  BY <1>2, OffsetPanicsLogInv
<1>3. CASE \E p \in pending, v \in Values : AppendToActive(p, v)
  BY <1>3, AppendToActiveLogInv, GrowsStay
<1>4. CASE \E p \in pending, v \in Values : AppendToNew(p, v)
  BY <1>4, AppendToNewLogInv, GrowsStay
<1>5. CASE \E p \in pending, v \in Values : AppendToRemoved(p, v)
  <2>1. segments = {}
    BY <1>5 DEF AppendToRemoved, LogInv, Order
  <2> QED BY <1>5, <2>1, AppendToRemovedLogInv
<1>6. CASE \E off \in 0..MaxOffset : Read(off)
  BY <1>6, ReadFlushes, FlushLogInv, OffsetsAssumption
<1>7. CASE \E i \in segments : ReaderRead(i)
  BY <1>7, FlushLogInv DEF ReaderRead
<1>8. CASE \E lowest \in 0..MaxOffset : Truncate(lowest)
  <2>1. PICK lowest \in Nat : Truncate(lowest)
    BY <1>8, OffsetsAssumption
  <2> QED BY <2>1, TruncateLogInv, TruncateAllLogInv
<1>9. CASE UNCHANGED vars
  <2>1. TypeOK' /\ HighKnown'
    BY <1>9 DEF vars, LogInv, TypeOK, HighKnown
  <2> QED BY <1>9, <2>1, SameLog DEF vars
<1> QED BY <1>1, <1>2, <1>3, <1>4, <1>5, <1>6, <1>7, <1>8, <1>9 DEF Next

\* As long as the highest offset is not truncated, there are segments, and what
\* was acknowledged is in them or was truncated.
LEMMA NextKept ==
  ASSUME SingleWriter, ~WholeLog, LogInv, Kept, [Next]_vars
  PROVE  Kept'
<1>1. /\ TypeOK /\ TypeOK' /\ Stay /\ NewHeld
  BY NextLogInv DEF LogInv, Kept
<1>2. segments' # {}
  <2>1. active \in segments /\ TypeOK /\ Chain
    BY ChainHolds DEF LogInv, Kept, Chain
  <2>2. ASSUME NEW lowest \in Nat, Truncate(lowest) PROVE active \in segments'
    <3>1. lowest < HighestOffset /\ segs[active].next \in Nat
      BY <2>1, <2>2, StateFacts DEF Truncate
    <3>2. ~Expired(segs[active], lowest)
      BY <2>1, <2>2, <3>1, ChainHolds DEF Expired, Kept
    <3> QED BY <2>1, <2>2, <3>2 DEF Truncate
  <2>3. ASSUME Next, \A lowest \in 0..MaxOffset : ~Truncate(lowest)
        PROVE  segments \subseteq segments'
    BY <2>3 DEF Next, AppendBegin, OffsetPanics, AppendToActive, AppendToNew,
                AppendToRemoved, Read, ReaderRead, Flush
  <2>4. ASSUME UNCHANGED vars PROVE segments' = segments
    BY <2>4 DEF vars
  <2> QED BY <2>1, <2>2, <2>3, <2>4, OffsetsAssumption
<1>3. ASSUME NEW r \in acked', Holders(r.offset)' = {} PROVE r.offset < keepFrom'
  <2>1. r \in acked
    BY <1>1, <1>3 DEF NewHeld
  <2>2. r.offset \in Nat /\ keepFrom \in Nat /\ keepFrom' \in Nat
    BY <1>1, <2>1 DEF TypeOK, Record
  <2>3. CASE Holders(r.offset) = {}
    BY <1>1, <2>1, <2>2, <2>3 DEF Kept, Stay
  <2>4. CASE Holders(r.offset) # {}
    BY <1>1, <1>3, <2>2, <2>4 DEF Stay
  <2> QED BY <2>3, <2>4
<1> QED BY <1>2, <1>3 DEF Kept

\* What is read was acknowledged, at its offset.
LEMMA ReadIsAcked ==
  ASSUME LogInv, NEW off \in Nat, Holders(off) # {}
  PROVE  /\ ReadRecord(off) \in acked
         /\ ReadRecord(off).offset = off
<1>1. PICK i \in Holders(off) : i \in segments /\ segs[i].base <= off /\ off < segs[i].next
  BY DEF Holders
<1>2. TypeOK /\ Chain /\ SegmentOK(i)
  BY <1>1, ChainHolds DEF LogInv
<1>3. segs[i].base \in Nat /\ segs[i].next \in Nat /\ segs[i].indexSize \in Nat
  BY <1>1, <1>2, StateFacts
<1>4. PICK k \in 1..segs[i].indexSize : k = off - segs[i].base + 1
  BY <1>1, <1>2, <1>3 DEF SegmentOK
<1>5. ReadRecord(off) = Content(i)[k]
  BY <1>2, <1>4, ReadHeld
<1>6. Content(i)[k].offset = off
  <2>1. Content(i)[k].offset = segs[i].base + (k - 1)
    BY <1>2, <1>4 DEF SegmentOK
  <2> QED BY <1>3, <1>4, <2>1
<1> QED BY <1>1, <1>4, <1>5, <1>6 DEF LogInv, OnlyAcked

\* What was acknowledged is read, where its offset is held; and which offsets
\* the abstract log shows.
Shows ==
  /\ \A r \in acked : Holders(r.offset) # {} => ReadRecord(r.offset) = r
  /\ Readable = {off \in Nat : Holders(off) # {}}

\* Both follow from the invariant, in every state and so in the next one too.
LEMMA LogInvShows == LogInv => Shows
<1> SUFFICES ASSUME LogInv PROVE Shows
  OBVIOUS
<1>1. ASSUME NEW r \in acked, Holders(r.offset) # {}
      PROVE  ReadRecord(r.offset) = r
  <2>1. r.offset \in Nat
    BY DEF LogInv, TypeOK, Record
  <2>2. PICK i \in Holders(r.offset) : i \in segments
    BY <1>1 DEF Holders
  <2>3. TypeOK /\ Chain /\ SegmentOK(i)
    BY <2>2, ChainHolds DEF LogInv
  <2>4. ReadRecord(r.offset) = Content(i)[r.offset - segs[i].base + 1]
    BY <2>1, <2>3, ReadHeld
  <2> QED BY <2>4 DEF LogInv, AckedHeld
<1>2. ASSUME NEW i \in segments
      PROVE  segs[i].base..(segs[i].next - 1) = {off \in Nat : i \in Holders(off)}
  <2>1. segs[i].base \in Nat /\ segs[i].next \in Nat
    BY SegmentFacts DEF LogInv
  <2> QED BY <2>1 DEF Holders
<1>3. Readable = {off \in Nat : Holders(off) # {}}
  <2>1. \A off : Holders(off) \subseteq segments
    BY DEF Holders
  <2>2. \A off : off \in Readable <=> \E i \in segments : off \in segs[i].base..(segs[i].next - 1)
    BY DEF Readable
  <2> QED BY <1>2, <2>1, <2>2
<1> QED BY <1>1, <1>3 DEF Shows

\* So a step changes no read, except by truncating.
LEMMA ReadsStay ==
  ASSUME LogInv, Shows', Stay, NEW off \in Nat, Holders(off) # {}
  PROVE  \/ ReadRecord(off)' = ReadRecord(off)
         \/ Holders(off)' = {} /\ off < keepFrom'
<1>1. PICK r \in acked : r = ReadRecord(off) /\ r.offset = off
  BY ReadIsAcked
<1>2. r \in acked'
  BY DEF Stay
<1>3. Holders(off)' # {} => ReadRecord(off)' = r
  BY <1>1, <1>2 DEF Shows
<1> QED BY <1>1, <1>3 DEF Stay

(***************************************************************************)
(* The refinement                                                          *)
(***************************************************************************)

\* What a step can be, seen from outside.
LEMMA NextShapes ==
  ASSUME SingleWriter, LogInv, segments # {}, [Next]_vars
  PROVE  \/ Quiet
         \/ \E r \in Record : Grows(r)
         \/ \E lowest \in Nat : Truncate(lowest)
<1>1. CASE \E w \in Writers : AppendBegin(w)
  BY <1>1, AppendBeginLogInv
<1>2. CASE OffsetPanics
  BY <1>2, OffsetPanicsLogInv
<1>3. CASE \E p \in pending, v \in Values : AppendToActive(p, v)
  BY <1>3, AppendToActiveLogInv
<1>4. CASE \E p \in pending, v \in Values : AppendToNew(p, v)
  BY <1>4, AppendToNewLogInv
<1>5. CASE \E p \in pending, v \in Values : AppendToRemoved(p, v)
  BY <1>5, ChainHolds DEF AppendToRemoved, Chain
<1>6. CASE \E off \in 0..MaxOffset : Read(off)
  BY <1>6, ReadFlushes, FlushLogInv, OffsetsAssumption
<1>7. CASE \E i \in segments : ReaderRead(i)
  BY <1>7, FlushLogInv DEF ReaderRead
<1>8. CASE \E lowest \in 0..MaxOffset : Truncate(lowest)
  BY <1>8, OffsetsAssumption
<1>9. CASE UNCHANGED vars
  <2>1. TypeOK' /\ HighKnown'
    BY <1>9 DEF vars, LogInv, TypeOK, HighKnown
  <2> QED BY <1>9, <2>1, SameLog DEF vars
<1> QED BY <1>1, <1>2, <1>3, <1>4, <1>5, <1>6, <1>7, <1>8, <1>9 DEF Next

\* What is still held reads as it did.
LEMMA HeldReadsSame ==
  ASSUME LogInv, Shows', Stay, NEW off \in Nat, Holders(off) # {}, Holders(off)' # {}
  PROVE  ReadRecord(off)' = ReadRecord(off)
BY ReadsStay

\* An append of the log appends its value to the abstract log.
LEMMA GrowsAppends ==
  ASSUME LogInv, Shows, Shows', NEW r \in Record, Grows(r)
  PROVE  Abstract!AppendValue(r.value)
<1> DEFINE n == segs[active].next
<1>1. n \in Nat /\ r.offset = n /\ segs'[active'].next = n + 1
  BY DEF Grows
<1>2. Readable' = Readable \cup {n}
  BY <1>1 DEF Grows, Shows
<1>3. ASSUME NEW o \in Readable' PROVE
        ReadRecord(o).value' = IF o = n THEN r.value ELSE ReadRecord(o).value
  <2>1. o \in Nat /\ Holders(o)' # {}
    BY DEF Shows
  <2>2. CASE o = n
    <3>1. ReadRecord(o)' = r
      BY <1>1, <2>1, <2>2 DEF Grows, Shows
    <3> QED BY <2>2, <3>1
  <2>3. CASE o # n
    <3>1. Holders(o) # {}
      BY <1>1, <2>1, <2>3 DEF Grows
    <3>2. ReadRecord(o)' = ReadRecord(o)
      BY <2>1, <3>1, GrowsStay, HeldReadsSame
    <3> QED BY <2>3, <3>2
  <2> QED BY <2>2, <2>3
<1> QED BY <1>1, <1>2, <1>3 DEF Abstract!AppendValue

\* A step that shows nothing is a step of nothing.
LEMMA QuietStutters ==
  ASSUME LogInv, Shows, Shows', Stay, Quiet
  PROVE  UNCHANGED <<[o \in Readable |-> ReadRecord(o).value], segs[active].next>>
<1>1. Readable' = Readable
  BY DEF Quiet, Shows
<1>2. \A o \in Readable : ReadRecord(o)' = ReadRecord(o)
  <2>1. ASSUME NEW o \in Readable PROVE ReadRecord(o)' = ReadRecord(o)
    <3>1. o \in Nat /\ Holders(o) # {} /\ Holders(o)' # {}
      BY DEF Quiet, Shows
    <3> QED BY <3>1, HeldReadsSame
  <2> QED BY <2>1
<1> QED BY <1>1, <1>2 DEF Quiet

\* What a truncation that keeps the active segment removes.
LEMMA TruncateRemoves ==
  ASSUME LogInv, NEW lowest \in Nat, Truncate(lowest), ~Expired(segs[active], lowest)
  PROVE  /\ \A off : Holders(off)' = {i \in Holders(off) : ~Expired(segs[i], lowest)}
         /\ segs'[active'].next = segs[active].next
<1> DEFINE gone == {i \in segments : Expired(segs[i], lowest)}
           kept == segments \ gone
<1>1. active \in kept
  BY ChainHolds DEF Truncate, Chain
<1>2. segments' = kept /\ active' = active
  BY DEF Truncate
<1>3. \A i \in kept : segs'[i] = segs[i]
  BY <1>1 DEF Truncate
<1> QED BY <1>1, <1>2, <1>3 DEF Holders

\* A truncation drops the offsets below the first segment that stays.
LEMMA TruncateDrops ==
  ASSUME LogInv, Shows, Shows', NEW lowest \in Nat, Truncate(lowest),
         ~Expired(segs[active], lowest), Stay
  PROVE  \/ Quiet
         \/ \E o \in Readable : Abstract!DropBelow(o)
<1> DEFINE gone == {i \in segments : Expired(segs[i], lowest)}
           kept == segments \ gone
<1>1. TypeOK /\ Chain /\ Grown
  BY ChainHolds DEF LogInv, Truncate
<1>2. /\ \A off : Holders(off)' = {i \in Holders(off) : ~Expired(segs[i], lowest)}
      /\ segs'[active'].next = segs[active].next
  BY TruncateRemoves
<1>3. active \in kept /\ kept \in SUBSET Nat
  BY <1>1, StateFacts
<1>4. PICK m \in kept : \A i \in kept : m <= i
  BY <1>3, LeastOfSet
<1>5. \A i \in segments : i \in Nat /\ segs[i].base \in Nat /\ segs[i].next \in Nat
  BY <1>1, StateFacts
<1>6. CASE gone = {}
  <2>1. \A off : Holders(off)' = Holders(off)
    BY <1>2, <1>6 DEF Holders
  <2> QED BY <1>2, <2>1 DEF Quiet
<1>7. CASE gone # {}
  <2> DEFINE o == segs[m].base
  <2>1. segs[m].base < segs[m].next
    <3>1. CASE m = active
      BY <1>1, <1>3, <1>7, <3>1 DEF Grown
    <3>2. CASE m # active
      <4>1. m < active
        BY <1>3, <1>4, <1>5, <3>2
      <4> QED BY <1>1, <1>3, <4>1 DEF Chain
    <3> QED BY <3>1, <3>2
  <2>2. o \in Readable
    <3>1. m \in Holders(o)
      BY <1>5, <2>1 DEF Holders
    <3> QED BY <1>5, <3>1 DEF Shows
  <2>3. ASSUME NEW i \in segments, NEW off \in Nat, i \in Holders(off)
        PROVE  i \in kept <=> off >= o
    <3>1. segs[i].base <= off /\ off < segs[i].next
      BY <2>3 DEF Holders
    <3>2. CASE i = m
      BY <3>1, <3>2, <1>5
    <3>3. CASE i < m
      <4>1. segs[i].next <= o
        BY <1>1, <3>3 DEF Chain
      <4>2. i \notin kept
        BY <1>4, <1>5, <3>3
      <4> QED BY <1>5, <3>1, <4>1, <4>2
    <3>4. CASE m < i
      <4>1. segs[m].next <= segs[i].base
        BY <1>1, <3>4 DEF Chain
      <4>2. ~(segs[m].next <= lowest + 1)
        BY <1>4 DEF Expired
      <4>3. ~(segs[i].next <= lowest + 1)
        BY <1>5, <3>1, <4>1, <4>2
      <4>4. i \in kept
        BY <4>3 DEF Expired
      <4> QED BY <1>5, <2>1, <3>1, <4>1, <4>4
    <3> QED BY <1>5, <3>2, <3>3, <3>4
  <2>4. Readable' = {x \in Readable : x >= o}
    <3>1. \A x \in Nat : Holders(x)' = {i \in Holders(x) : x >= o}
      BY <1>2, <2>3 DEF Holders
    <3> QED BY <3>1 DEF Shows
  <2>5. \A x \in Readable' : ReadRecord(x)' = ReadRecord(x)
    <3>1. ASSUME NEW x \in Readable' PROVE ReadRecord(x)' = ReadRecord(x)
      <4>1. x \in Nat /\ Holders(x)' # {} /\ Holders(x) # {}
        BY <2>4 DEF Shows
      <4> QED BY <4>1, HeldReadsSame
    <3> QED BY <3>1
  <2> HIDE DEF o
  <2>6. Abstract!DropBelow(o)
    BY <1>2, <2>2, <2>4, <2>5 DEF Abstract!DropBelow, Abstract!Restrict
  <2> QED BY <2>2, <2>6
<1> QED BY <1>6, <1>7

\* The log begins empty.
LEMMA InitAbstract ==
  ASSUME Init
  PROVE  Abstract!Init
<1>1. segments = {0} /\ segs[0].base = InitialOffset /\ segs[0].next = InitialOffset
  BY DEF Init
<1>2. InitialOffset..(InitialOffset - 1) = {}
  BY OffsetsAssumption
<1>3. Readable = {}
  BY <1>1, <1>2 DEF Readable
<1> QED BY <1>3 DEF Init, Abstract!Init

\* Every step of the log is one of the abstract log or none.
LEMMA NextAbstract ==
  ASSUME SingleWriter, ~WholeLog, LogInv, Kept, Shows, Shows', [Next]_vars
  PROVE  [Abstract!Next]_<<[o \in Readable |-> ReadRecord(o).value], segs[active].next>>
<1>1. Stay /\ segments # {}
  BY NextLogInv DEF Kept
<1>2. CASE Quiet
  BY <1>1, <1>2, QuietStutters
<1>3. CASE \E r \in Record : Grows(r)
  <2>1. PICK r \in Record : Grows(r)
    BY <1>3
  <2>2. r.value \in Values
    BY DEF Record
  <2> QED BY <2>1, <2>2, GrowsAppends DEF Abstract!Next
<1>4. CASE \E lowest \in Nat : Truncate(lowest)
  <2>1. PICK lowest \in Nat : Truncate(lowest)
    BY <1>4
  <2>2. TypeOK /\ Chain
    BY <1>1, ChainHolds DEF LogInv
  <2>3. lowest < HighestOffset /\ segs[active].next \in Nat
    BY <2>1, <2>2, StateFacts DEF Truncate
  <2>4. ~Expired(segs[active], lowest)
    BY <2>2, <2>3, StateFacts DEF Expired
  <2>5. Quiet \/ \E o \in Readable : Abstract!DropBelow(o)
    BY <1>1, <2>1, <2>4, TruncateDrops
  <2> QED BY <1>2, <2>5 DEF Abstract!Next
<1> QED BY <1>1, <1>2, <1>3, <1>4, NextShapes

(***************************************************************************)
(* The theorems                                                            *)
(***************************************************************************)

\* The inductive invariant of a log that one goroutine writes, the raft FSM or
\* raft's log store (distributed.go:230, 427), whatever it truncates.
THEOREM LogInvHolds ==
  ASSUME SingleWriter
  PROVE  Spec => []LogInv
<1>1. Init => LogInv
  BY InitLogInv
<1>2. LogInv /\ [Next]_vars => LogInv'
  BY NextLogInv
<1> QED BY <1>1, <1>2, PTL DEF Spec

\* That of a log which is never truncated through its highest offset besides.
THEOREM IndInvHolds ==
  ASSUME SingleWriter, ~WholeLog
  PROVE  Spec => []IndInv
<1>1. Init => LogInv /\ Kept
  BY InitLogInv
<1>2. LogInv /\ Kept /\ [Next]_vars => (LogInv /\ Kept)'
  BY NextLogInv, NextKept
<1>3. LogInv /\ Kept => IndInv
  BY LogInvImpliesIndInv
<1> QED BY <1>1, <1>2, <1>3, PTL DEF Spec

\* Every variable keeps its type; in particular no index outgrows its file
\* (index.go:120-133) and no buffer its writer.
THEOREM TypeCorrect ==
  ASSUME SingleWriter
  PROVE  Spec => []TypeOK
<1>1. LogInv => TypeOK
  BY DEF LogInv
<1> QED BY <1>1, LogInvHolds, PTL

\* Segments tile the offsets without gap or overlap (log.go:151, 252).
THEOREM SegmentsTile ==
  ASSUME SingleWriter
  PROVE  Spec => []Contiguous
<1>1. LogInv => Contiguous
  BY DEF LogInv
<1> QED BY <1>1, LogInvHolds, PTL

\* No offset is given out twice (log.go:140), even when every segment has been
\* truncated away between the two halves of an Append.
THEOREM OffsetsGivenOnce ==
  ASSUME SingleWriter
  PROVE  Spec => []OffsetsUnique
<1>1. LogInv => OffsetsUnique
  BY DEF LogInv
<1> QED BY <1>1, LogInvHolds, PTL

\* No append, rotation or flush changes what an offset reads (log.go:167).
THEOREM ReadsAreStable ==
  ASSUME SingleWriter
  PROVE  Spec => StableReads
<1>1. LogInv /\ Shows' /\ [Next]_vars =>
        [\A off \in 0..MaxOffset + 1 :
           ReadRecord(off) # NoRecord =>
             ReadRecord(off)' = ReadRecord(off) \/ off < keepFrom']_vars
  <2> SUFFICES ASSUME LogInv, Shows', [Next]_vars, NEW off \in 0..MaxOffset + 1,
                      ReadRecord(off) # NoRecord
               PROVE  ReadRecord(off)' = ReadRecord(off) \/ off < keepFrom'
    OBVIOUS
  <2>1. Stay /\ off \in Nat
    BY NextLogInv, OffsetsAssumption
  <2>2. Holders(off) # {}
    BY DEF ReadRecord
  <2> QED BY <2>1, <2>2, ReadsStay
<1> QED BY <1>1, LogInvHolds, LogInvShows, PTL DEF Spec, StableReads

\* What Append returned an offset for is what Read returns for that offset
\* (log.go:140, 167), until a truncation at or above it.
THEOREM AcknowledgedReadable ==
  ASSUME SingleWriter, ~WholeLog
  PROVE  Spec => []AckedReadable
<1>1. IndInv => AckedReadable
  BY IndInvImpliesReadable
<1> QED BY <1>1, IndInvHolds, PTL

\* With one writer that never truncates the highest offset, the log is an array
\* that grows at its end and shrinks at its beginning: whatever segments, stores,
\* indexes and buffers do (log.go:128-259) stays hidden.
THEOREM ImplementsAbstractLogHolds ==
  ASSUME SingleWriter, ~WholeLog
  PROVE  Spec => ImplementsAbstractLog
<1>1. Init => LogInv /\ Kept /\ Abstract!Init
  BY InitLogInv, InitAbstract
<1>2. LogInv /\ Kept /\ [Next]_vars => (LogInv /\ Kept)'
  BY NextLogInv, NextKept
<1>3. LogInv /\ Kept /\ Shows /\ Shows' /\ [Next]_vars =>
        [Abstract!Next]_<<[o \in Readable |-> ReadRecord(o).value], segs[active].next>>
  BY NextAbstract
<1> QED BY <1>1, <1>2, <1>3, LogInvShows, PTL
        DEF Spec, ImplementsAbstractLog, Abstract!Spec

=============================================================================
