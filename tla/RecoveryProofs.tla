--------------------------- MODULE RecoveryProofs ---------------------------
(***************************************************************************)
(* What TLAPS proves of LogRecovery: the log of one writer whose highest   *)
(* offset is not truncated, closed, killed at any step on its files and    *)
(* opened again any number of times.  Whatever is killed, every segment is *)
(* opened once and their ranges are disjoint (Usable, FilesUsable); as     *)
(* long as nothing is, the log that comes back is the one that went        *)
(* (Closed), and the invariant of module CommitLogProofs goes on.          *)
(*                                                                         *)
(* The last sections prove FsmSnapshot, which is that log with a reader:   *)
(* what a snapshot holds is the beginning of the log.                      *)
(***************************************************************************)
EXTENDS FsmSnapshot, CommitLogProofs, FiniteSetTheorems

(***************************************************************************)
(* The invariant                                                           *)
(***************************************************************************)

\* The last entry of an index, from which newSegment takes the next offset.
LastOff(ents) == IF ents = <<>> THEN 0 ELSE ents[Len(ents)].off

\* The entries that can be the last of a segment's index file are within the
\* segment's range: the last one written, if the index is closed, and the one at
\* the end of the mapping, which is zero until the index is full.
EntriesWithin(i) ==
  LET s == segs[i]
  IN  /\ s.base <= s.next
      /\ s.indexSize > 0 => s.base < s.next
      /\ \A k \in {s.indexSize, MaxIndexEnts} \ {0} :
           indexes[s.base][k].off = 0 \/ s.base + indexes[s.base][k].off < s.next

\* An active segment without entries has no records either.
EmptyActive ==
  segs[active].indexSize = 0 => segs[active].storeSize = 0 /\ Content(active) = <<>>

\* What holds of a running log, also when a kill has made it forget records.
Usable ==
  /\ TypeOK
  /\ active \in segments /\ \A i \in segments : i <= active
  /\ \A i, j \in segments :
       i < j => segs[i].base < segs[j].base /\ segs[i].next <= segs[j].base
  /\ FilesMatch /\ HighKnown /\ EmptyActive
  /\ \A i \in segments : EntriesWithin(i)

\* The base offsets of which one file is missing.
Unpaired == {b \in Bases : b \notin DOMAIN stores \/ b \notin DOMAIN indexes}

FileTypes ==
  /\ Bases \in SUBSET Nat /\ IsFiniteSet(Bases)
  /\ \A b \in DOMAIN stores : stores[b] \in Seq(Record)
  /\ \A b \in DOMAIN indexes : indexes[b] \in Seq(Entry) /\ Len(indexes[b]) <= MaxIndexEnts

\* What holds of the files of a log that is down, whatever it was doing then: at
\* most one of them is missing, no index reaches into the next segment, and of the
\* last segment the index is not empty unless the store is.
FilesUsable ==
  /\ FileTypes /\ pending = {}
  /\ \A a, b \in Unpaired : a = b
  /\ \A b, c \in Bases : b < c => b + LastOff(IndexFile(b)) + 1 <= c
  /\ \A b \in Bases :
       (\A c \in Bases : c <= b) /\ IndexFile(b) = <<>> => StoreFile(b) = <<>>

\* The offsets of the records in the closed store at b.
InStore(b, off) == b <= off /\ off < b + Len(stores[b])

\* The files of one segment that was closed agree.
ClosedOK(b) ==
  /\ Len(indexes[b]) = Len(stores[b])
  /\ \A k \in 1..Len(stores[b]) :
       /\ stores[b][k].offset = b + (k - 1) /\ stores[b][k] \in acked
       /\ indexes[b][k] = [off |-> k - 1, pos |-> k - 1]

\* The files of a log that was closed hold all that was acknowledged.
Closed ==
  /\ Bases # {} /\ DOMAIN stores = DOMAIN indexes
  /\ \A b \in Bases : ClosedOK(b)
  /\ \A b, c \in Bases :
       b < c => stores[b] # <<>> /\ stores[c] # <<>> /\ b + Len(stores[b]) <= c
                /\ b + Len(stores[b]) \in Bases
  /\ \A r \in acked :
       /\ \E b \in Bases : r.offset < b + Len(stores[b])
       /\ \A b \in Bases : InStore(b, r.offset) => stores[b][r.offset - b + 1] = r
       /\ (\A b \in Bases : ~InStore(b, r.offset)) => r.offset < keepFrom

RInv ==
  /\ mode \in {"running", "down", "failed"} /\ dir \in BOOLEAN
  /\ restarts \in 0..MaxRestarts /\ killed \in BOOLEAN
  /\ panicked \in BOOLEAN /\ acked \in SUBSET Record /\ keepFrom \in Nat
  /\ mode = "running" => Usable
  /\ mode = "down" => FilesUsable
  /\ mode = "running" /\ ~killed => LogInv /\ Kept
  /\ mode = "down" /\ ~killed => Closed
  /\ ~killed => OffsetsUnique

(***************************************************************************)
(* Ranks                                                                   *)
(***************************************************************************)

\* The rank of an element is below the number of elements and grows with it.
LEMMA RankFacts ==
  ASSUME NEW S \in SUBSET Nat, IsFiniteSet(S)
  PROVE  /\ Cardinality(S) \in Nat
         /\ \A x \in S : Rank(S, x) \in 0..(Cardinality(S) - 1)
         /\ \A x, y \in S : x < y => Rank(S, x) < Rank(S, y)
         /\ \A x, y \in S : Rank(S, x) = Rank(S, y) => x = y
<1> DEFINE below(x) == {y \in S : y < x}
<1>1. Cardinality(S) \in Nat
  BY FS_CardinalityType
<1>2. \A x : IsFiniteSet(below(x)) /\ Cardinality(below(x)) \in Nat
  BY FS_Subset, FS_CardinalityType
<1>3. ASSUME NEW x \in S PROVE Cardinality(below(x)) <= Cardinality(S) - 1
  <2>1. IsFiniteSet(S \ {x}) /\ Cardinality(S \ {x}) = Cardinality(S) - 1
    BY FS_RemoveElement
  <2>2. below(x) \subseteq S \ {x}
    OBVIOUS
  <2> QED BY <2>1, <2>2, FS_Subset
<1>4. ASSUME NEW x \in S, NEW y \in S, x < y
      PROVE  Cardinality(below(x)) < Cardinality(below(y))
  <2>1. x \notin below(x) /\ below(x) \cup {x} \subseteq below(y)
    <3>1. \A z \in S : z < x => z < y
      BY <1>4
    <3>2. ~(x < x)
      OBVIOUS
    <3> QED BY <1>4, <3>1, <3>2
  <2>2. IsFiniteSet(below(x) \cup {x}) /\ Cardinality(below(x) \cup {x}) = Cardinality(below(x)) + 1
    BY <1>2, <2>1, FS_AddElement
  <2>3. Cardinality(below(x) \cup {x}) <= Cardinality(below(y))
    BY <1>2, <2>1, FS_Subset
  <2> QED BY <1>2, <2>2, <2>3
<1>5. \A x : Rank(S, x) = Cardinality(below(x))
  BY DEF Rank
<1> HIDE DEF below
<1>6. ASSUME NEW x \in S, NEW y \in S, Rank(S, x) = Rank(S, y) PROVE x = y
  <2>1. ~(x < y) /\ ~(y < x)
    BY <1>2, <1>4, <1>5, <1>6
  <2> QED BY <2>1
<1>7. ASSUME NEW x \in S PROVE Rank(S, x) \in 0..(Cardinality(S) - 1)
  BY <1>1, <1>2, <1>3, <1>5
<1>8. ASSUME NEW x \in S, NEW y \in S, x < y PROVE Rank(S, x) < Rank(S, y)
  BY <1>4, <1>5, <1>8
<1> QED BY <1>1, <1>6, <1>7, <1>8

\* Every rank below the number of elements is that of one of them.
LEMMA RankedFacts ==
  ASSUME NEW S \in SUBSET Nat, IsFiniteSet(S)
  PROVE  /\ \A n \in 0..(Cardinality(S) - 1) : Ranked(S, n) \in S /\ Rank(S, Ranked(S, n)) = n
         /\ \A x \in S : Ranked(S, Rank(S, x)) = x
         /\ \A m, n \in 0..(Cardinality(S) - 1) : m < n => Ranked(S, m) < Ranked(S, n)
<1> DEFINE C == Cardinality(S)
           R == 0..(C - 1)
           f == [x \in S |-> Rank(S, x)]
<1>1. /\ C \in Nat
      /\ \A x \in S : Rank(S, x) \in R
      /\ \A x, y \in S : x < y => Rank(S, x) < Rank(S, y)
      /\ \A x, y \in S : Rank(S, x) = Rank(S, y) => x = y
  BY RankFacts
<1>2. IsFiniteSet(R) /\ Cardinality(R) = C
  <2>1. C \in Nat
    BY <1>1
  <2> QED BY <2>1, CountBelow
<1>3. f \in Injection(S, R)
  BY <1>1 DEF Injection, IsInjective
<1>4. f \in Surjection(S, R)
  BY <1>2, <1>3, FS_Injection
<1>5. \A n \in R : \E x \in S : Rank(S, x) = n
  BY <1>4 DEF Surjection
<1>6. \A n \in R : Ranked(S, n) \in S /\ Rank(S, Ranked(S, n)) = n
  BY <1>5 DEF Ranked
<1>7. \A x \in S : Ranked(S, Rank(S, x)) = x
  BY <1>1, <1>6
<1>8. ASSUME NEW m \in R, NEW n \in R, m < n PROVE Ranked(S, m) < Ranked(S, n)
  <2>1. PICK x \in S : x = Ranked(S, m) /\ Rank(S, x) = m
    BY <1>6
  <2>2. PICK y \in S : y = Ranked(S, n) /\ Rank(S, y) = n
    BY <1>6
  <2>3. ~(y < x) /\ y # x
    BY <1>1, <1>8, <2>1, <2>2
  <2> QED BY <2>1, <2>2, <2>3
<1> QED BY <1>6, <1>7, <1>8

(***************************************************************************)
(* The loop over the directory                                             *)
(***************************************************************************)

\* The files of some base offsets are the stores and the indexes.
LEMMA EntriesAt ==
  ASSUME FileTypes, NEW T
  PROVE  /\ IsFiniteSet(DOMAIN stores \cap T) /\ IsFiniteSet(DOMAIN indexes \cap T)
         /\ Cardinality({e \in DirEntries : e[2] \in T})
              = Cardinality(DOMAIN stores \cap T) + Cardinality(DOMAIN indexes \cap T)
<1> DEFINE X == DOMAIN stores \cap T
           Y == DOMAIN indexes \cap T
           SX == {".store"} \X X
           SY == {".index"} \X Y
<1>1. IsFiniteSet(X) /\ IsFiniteSet(Y)
  BY FS_Subset DEF FileTypes, Bases
<1>2. /\ IsFiniteSet({".store"}) /\ Cardinality({".store"}) = 1
      /\ IsFiniteSet({".index"}) /\ Cardinality({".index"}) = 1
  BY FS_Singleton
<1>3. Cardinality(X) \in Nat /\ Cardinality(Y) \in Nat
  BY <1>1, FS_CardinalityType
<1> HIDE DEF X, Y
<1>4. /\ IsFiniteSet(SX) /\ Cardinality(SX) = 1 * Cardinality(X)
      /\ IsFiniteSet(SY) /\ Cardinality(SY) = 1 * Cardinality(Y)
  BY <1>1, <1>2, FS_Product
<1>5. SX \cap SY = {}
  <2>1. ".store" # ".index"
    OBVIOUS
  <2> QED BY <2>1
<1>6. Cardinality(SX \cup SY) = Cardinality(SX) + Cardinality(SY) - 0
  BY <1>4, <1>5, FS_Union, FS_EmptySet
<1>7. {e \in DirEntries : e[2] \in T} = SX \cup SY
  BY DEF DirEntries, X, Y
<1> HIDE DEF SX, SY
<1>8. Cardinality(SX \cup SY) = Cardinality(X) + Cardinality(Y)
  BY <1>3, <1>4, <1>6
<1>9. Cardinality({e \in DirEntries : e[2] \in T}) = Cardinality(X) + Cardinality(Y)
  BY <1>7, <1>8
<1> QED BY <1>1, <1>9 DEF X, Y

\* The number of even positions that one or two files take.
LEMMA EvenPositions ==
  ASSUME NEW m \in Nat
  PROVE  /\ Cardinality({k \in (m + m)..((m + m) + 1 - 1) : k % 2 = 0}) = 1
         /\ Cardinality({k \in (m + m)..((m + m) + 2 - 1) : k % 2 = 0}) = 1
         /\ Cardinality({k \in ((m + 1) + m)..(((m + 1) + m) + 2 - 1) : k % 2 = 0}) = 1
<1>1. {k \in (m + m)..((m + m) + 1 - 1) : k % 2 = 0} = {m + m}
  OBVIOUS
<1>2. {k \in (m + m)..((m + m) + 2 - 1) : k % 2 = 0} = {m + m}
  OBVIOUS
<1>3. {k \in ((m + 1) + m)..(((m + 1) + m) + 2 - 1) : k % 2 = 0} = {(m + 1) + m + 1}
  OBVIOUS
<1> QED BY <1>1, <1>2, <1>3, FS_Singleton

\* If one file at most is missing, the loop opens each base offset once.
LEMMA OpensEach ==
  ASSUME FileTypes, \A a, b \in Unpaired : a = b, NEW b \in Bases
  PROVE  TimesOpened(b) = 1
<1> DEFINE T == {c \in Nat : c < b}
           X == DOMAIN stores \cap T
           Y == DOMAIN indexes \cap T
<1>1. b \in Nat /\ Bases \subseteq Nat
  BY DEF FileTypes
<1>2. /\ IsFiniteSet(X) /\ IsFiniteSet(Y) /\ Cardinality(X) \in Nat /\ Cardinality(Y) \in Nat
      /\ FirstAt(b) = Cardinality(X) + Cardinality(Y)
  <2>1. {e \in DirEntries : e[2] < b} = {e \in DirEntries : e[2] \in T}
    BY <1>1 DEF DirEntries, Bases
  <2> QED BY <2>1, EntriesAt, FS_CardinalityType DEF FirstAt
<1>3. FilesOf(b) = Cardinality(DOMAIN stores \cap {b}) + Cardinality(DOMAIN indexes \cap {b})
  <2>1. {e \in DirEntries : e[2] = b} = {e \in DirEntries : e[2] \in {b}}
    OBVIOUS
  <2> QED BY <2>1, EntriesAt DEF FilesOf
<1>4. b \notin Unpaired => FilesOf(b) = 2
  <2> SUFFICES ASSUME b \notin Unpaired PROVE FilesOf(b) = 2
    OBVIOUS
  <2>1. DOMAIN stores \cap {b} = {b} /\ DOMAIN indexes \cap {b} = {b}
    BY DEF Unpaired
  <2>2. Cardinality({b}) = 1
    BY FS_Singleton
  <2>3. FilesOf(b) = 1 + 1
    BY <1>3, <2>1, <2>2
  <2> QED BY <2>3
<1>5. b \in Unpaired => FilesOf(b) = 1
  <2> SUFFICES ASSUME b \in Unpaired PROVE FilesOf(b) = 1
    OBVIOUS
  <2>1. \/ DOMAIN stores \cap {b} = {b} /\ DOMAIN indexes \cap {b} = {}
        \/ DOMAIN stores \cap {b} = {} /\ DOMAIN indexes \cap {b} = {b}
    BY DEF Unpaired, Bases
  <2>2. Cardinality({b}) = 1 /\ Cardinality({}) = 0
    BY FS_Singleton, FS_EmptySet
  <2> QED BY <1>3, <2>1, <2>2
<1>6. TimesOpened(b) = Cardinality({k \in FirstAt(b)..(FirstAt(b) + FilesOf(b) - 1) : k % 2 = 0})
  BY DEF TimesOpened
<1>7. CASE \A u \in Unpaired : ~(u < b)
  <2>1. X = Y
    BY <1>1, <1>7 DEF Unpaired, Bases
  <2>2. PICK m \in Nat : m = Cardinality(X)
    BY <1>2
  <2>3. FirstAt(b) = m + m
    BY <1>2, <2>1, <2>2
  <2> HIDE DEF X, Y
  <2> QED BY <1>4, <1>5, <1>6, <2>3, EvenPositions
<1>8. CASE \E u \in Unpaired : u < b
  <2>1. PICK u \in Unpaired : u < b
    BY <1>8
  <2>2. b \notin Unpaired /\ u \in T
    BY <1>1, <2>1 DEF Unpaired
  <2>3. CASE u \in DOMAIN stores
    <3>1. X = Y \cup {u} /\ u \notin Y
      BY <2>1, <2>2, <2>3 DEF Unpaired, Bases
    <3>2. Cardinality(X) = Cardinality(Y) + 1
      BY <1>2, <3>1, FS_AddElement
    <3>3. PICK m \in Nat : m = Cardinality(Y)
      BY <1>2
    <3>4. FirstAt(b) = (m + 1) + m
      BY <1>2, <3>2, <3>3
    <3> HIDE DEF X, Y
    <3> QED BY <1>4, <1>6, <2>2, <3>4, EvenPositions
  <2>4. CASE u \notin DOMAIN stores
    <3>1. Y = X \cup {u} /\ u \notin X
      BY <2>1, <2>2, <2>4 DEF Unpaired, Bases
    <3>2. Cardinality(Y) = Cardinality(X) + 1
      BY <1>2, <3>1, FS_AddElement
    <3>3. PICK m \in Nat : m = Cardinality(X)
      BY <1>2
    <3>4. FirstAt(b) = (m + 1) + m
      BY <1>2, <3>2, <3>3
    <3> HIDE DEF X, Y
    <3> QED BY <1>4, <1>6, <2>2, <3>4, EvenPositions
  <2> QED BY <2>3, <2>4
<1> QED BY <1>7, <1>8

(***************************************************************************)
(* The running log                                                         *)
(***************************************************************************)

\* The fields and the files of the segments there are.
LEMMA UsableFacts ==
  ASSUME Usable
  PROVE  /\ TypeOK /\ active \in segments /\ DOMAIN segs = segments
         /\ HighestOffset = IF segs[active].next = 0 THEN 0 ELSE segs[active].next - 1
         /\ HighestOffset \in Nat
         /\ \A i \in segments :
              /\ i \in Nat /\ segs[i] \in Segment
              /\ segs[i].base \in Nat /\ segs[i].next \in Nat
              /\ segs[i].storeSize \in Nat /\ segs[i].indexSize \in Nat
              /\ segs[i].buf \in Seq(Record) /\ Len(segs[i].buf) <= BufRecs
              /\ segs[i].indexSize <= MaxIndexEnts
              /\ segs[i].base \in DOMAIN stores /\ segs[i].base \in DOMAIN indexes
              /\ stores[segs[i].base] \in Seq(Record) /\ Content(i) \in Seq(Record)
              /\ indexes[segs[i].base] \in [1..MaxIndexEnts -> Entry]
         /\ \A i, j \in segments : i # j => segs[i].base # segs[j].base
<1>1. TypeOK /\ active \in segments /\ segments \in SUBSET Nat /\ \A i \in segments : i <= active
  BY DEF Usable, TypeOK
<1>2. DOMAIN segs = segments
  BY <1>1 DEF TypeOK
<1>3. ASSUME NEW i \in segments
      PROVE  /\ i \in Nat /\ segs[i] \in Segment
             /\ segs[i].base \in Nat /\ segs[i].next \in Nat
             /\ segs[i].storeSize \in Nat /\ segs[i].indexSize \in Nat
             /\ segs[i].buf \in Seq(Record) /\ Len(segs[i].buf) <= BufRecs
             /\ segs[i].indexSize <= MaxIndexEnts
             /\ segs[i].base \in DOMAIN stores /\ segs[i].base \in DOMAIN indexes
             /\ stores[segs[i].base] \in Seq(Record) /\ Content(i) \in Seq(Record)
             /\ indexes[segs[i].base] \in [1..MaxIndexEnts -> Entry]
  <2>1. /\ i \in Nat /\ segs[i] \in Segment
        /\ segs[i].base \in Nat /\ segs[i].next \in Nat
        /\ segs[i].storeSize \in Nat /\ segs[i].indexSize \in Nat
        /\ segs[i].buf \in Seq(Record) /\ Len(segs[i].buf) <= BufRecs
    BY <1>1, SegmentFacts
  <2>2. segs[i].indexSize <= MaxIndexEnts
    BY <1>1, <1>2 DEF TypeOK
  <2>3. segs[i].base \in DOMAIN stores /\ DOMAIN stores = DOMAIN indexes
    BY <1>1 DEF TypeOK
  <2>4. stores[segs[i].base] \in Seq(Record) /\ indexes[segs[i].base] \in [1..MaxIndexEnts -> Entry]
    BY <1>1, <2>3 DEF TypeOK
  <2>5. Content(i) \in Seq(Record)
    BY <2>1, <2>4, ConcatProperties DEF Content
  <2> QED BY <2>1, <2>2, <2>3, <2>4, <2>5
<1>4. HighestOffset = IF segs[active].next = 0 THEN 0 ELSE segs[active].next - 1
  BY <1>1, MaxIsGreatest DEF HighestOffset, Last
<1>5. segs[active].next \in Nat
  BY <1>1, <1>3
<1>6. ASSUME NEW i \in segments, NEW j \in segments, i # j PROVE segs[i].base # segs[j].base
  <2>1. i < j \/ j < i
    BY <1>3, <1>6
  <2>2. i < j => segs[i].base < segs[j].base
    BY DEF Usable
  <2>3. j < i => segs[j].base < segs[i].base
    BY DEF Usable
  <2> QED BY <1>3, <2>1, <2>2, <2>3
<1> QED BY <1>1, <1>2, <1>3, <1>4, <1>5, <1>6

\* A segment whose range and entries stay as they are stays within its range.
LEMMA EntriesKept ==
  ASSUME NEW i, EntriesWithin(i),
         segs'[i].base = segs[i].base, segs'[i].next = segs[i].next,
         segs'[i].indexSize = segs[i].indexSize,
         indexes'[segs[i].base] = indexes[segs[i].base]
  PROVE  EntriesWithin(i)'
BY DEF EntriesWithin

\* A step that changes neither segments nor files.
LEMMA SameFiles ==
  ASSUME Usable, TypeOK', HighKnown', UNCHANGED <<segs, segments, active, stores, indexes>>
  PROVE  Usable'
<1>1. EmptyActive' /\ FilesMatch'
  BY DEF Usable, EmptyActive, FilesMatch, Content
<1>2. \A i \in segments' : EntriesWithin(i)'
  BY EntriesKept DEF Usable
<1> QED BY <1>1, <1>2 DEF Usable

\* With one writer there is one call of Append at a time.
LEMMA OneCall ==
  ASSUME Usable, SingleWriter, NEW p \in pending
  PROVE  pending \ {p} = {}
<1>1. ASSUME NEW q \in pending PROVE q = p
  <2>1. p \in [writer : Writers, high : Nat] /\ q \in [writer : Writers, high : Nat]
    BY DEF Usable, TypeOK
  <2>2. q.high = p.high
    BY DEF Usable, HighKnown
  <2>3. q.writer = p.writer
    BY <2>1 DEF SingleWriter
  <2> QED BY <2>1, <2>2, <2>3
<1> QED BY <1>1

\* The first half of an Append.
LEMMA AppendBeginUsable ==
  ASSUME Usable, NEW w \in Writers, AppendBegin(w)
  PROVE  Usable'
<1>1. /\ HighestOffset \in Nat
      /\ HighestOffset = IF segs[active].next = 0 THEN 0 ELSE segs[active].next - 1
  BY UsableFacts
<1>2. TypeOK'
  BY <1>1 DEF Usable, TypeOK, AppendBegin, Content
<1>3. HighKnown'
  BY <1>1 DEF Usable, HighKnown, AppendBegin
<1> QED BY <1>2, <1>3, SameFiles DEF AppendBegin

\* A flush moves records from the buffer to the file.
LEMMA FlushUsable ==
  ASSUME Usable, NEW i \in segments, Flush(i)
  PROVE  Usable'
<1> USE DEF Flush
<1> DEFINE u == [segs[i] EXCEPT !.buf = <<>>]
<1>1. segs' = [segs EXCEPT ![i] = u] /\ stores' = [stores EXCEPT ![segs[i].base] = Content(i)]
  OBVIOUS
<1>2. /\ u \in Segment /\ u.base = segs[i].base /\ u.next = segs[i].next
      /\ u.storeSize = segs[i].storeSize /\ u.indexSize = segs[i].indexSize
      /\ u.buf = <<>>
  <2> DEFINE R == Seq(Record)
  <2>1. segs[i] \in [base : Nat, next : Nat, buf : R, storeSize : Nat, indexSize : Nat]
    BY UsableFacts DEF Segment
  <2>2. <<>> \in R
    OBVIOUS
  <2> HIDE DEF R
  <2>3. u \in [base : Nat, next : Nat, buf : R, storeSize : Nat, indexSize : Nat]
    BY <2>1, <2>2
  <2>4. /\ u.base = segs[i].base /\ u.next = segs[i].next
        /\ u.storeSize = segs[i].storeSize /\ u.indexSize = segs[i].indexSize
        /\ u.buf = <<>>
    BY <2>1, <2>2
  <2> QED BY <2>3, <2>4 DEF R, Segment
<1> HIDE DEF u
<1>3. TypeOK /\ active \in segments /\ DOMAIN segs = segments /\ DOMAIN segs' = segments
  BY <1>1, UsableFacts
<1>4. \A j \in segments :
        /\ segs'[j] = IF j = i THEN u ELSE segs[j]
        /\ segs'[j].base = segs[j].base /\ segs'[j].next = segs[j].next
        /\ segs'[j].storeSize = segs[j].storeSize
        /\ segs'[j].indexSize = segs[j].indexSize
  BY <1>1, <1>2, <1>3
<1>5. DOMAIN stores' = DOMAIN stores /\ indexes' = indexes
  BY <1>1
<1>6. TypeOK'
  <2>1. segs' \in [segments' \cup {active'} -> Segment]
    BY <1>1, <1>2, <1>3 DEF TypeOK
  <2>2. \A b \in DOMAIN stores' : stores'[b] \in Seq(Record)
    <3>1. Content(i) \in Seq(Record)
      BY UsableFacts
    <3> QED BY <1>1, <1>3, <3>1 DEF TypeOK
  <2>3. \A j \in DOMAIN segs' : Len(segs'[j].buf) <= BufRecs /\ segs'[j].indexSize <= MaxIndexEnts
    <3>1. Len(u.buf) <= BufRecs
      BY <1>2, LimitsAssumption
    <3> QED BY <1>3, <1>4, <3>1, UsableFacts
  <2>4. \A j \in segments' : segs'[j].base \in DOMAIN stores'
    BY <1>4, <1>5, UsableFacts
  <2> QED BY <1>3, <1>5, <2>1, <2>2, <2>3, <2>4 DEF TypeOK
<1>7. EmptyActive'
  <2>1. Content(active)' = Content(active)
    <3>1. CASE active = i
      <4>1. stores'[segs[i].base] = Content(i) /\ Content(i) \in Seq(Record)
        BY <1>1, UsableFacts
      <4>2. Content(active)' = stores'[segs[i].base] \o <<>>
        BY <3>1, <1>2, <1>3, <1>4 DEF Content
      <4> QED BY <3>1, <4>1, <4>2, ConcatEmptySeq
    <3>2. CASE active # i
      <4>1. segs'[active] = segs[active]
        BY <1>3, <1>4, <3>2
      <4>2. stores'[segs[active].base] = stores[segs[active].base]
        BY <1>1, <1>3, <3>2, UsableFacts
      <4> QED BY <4>1, <4>2 DEF Content
    <3> QED BY <3>1, <3>2
  <2> QED BY <1>3, <1>4, <2>1 DEF Usable, EmptyActive
<1>8. \A j \in segments' : EntriesWithin(j)'
  BY <1>4, <1>5, EntriesKept DEF Usable
<1>9. FilesMatch' /\ HighKnown'
  BY <1>3, <1>4, <1>5 DEF Usable, FilesMatch, HighKnown
<1> QED BY <1>3, <1>4, <1>6, <1>7, <1>8, <1>9 DEF Usable

\* A truncation below the highest offset keeps the active segment.
LEMMA TruncateUsable ==
  ASSUME Usable, ~WholeLog, NEW lowest \in Nat, Truncate(lowest)
  PROVE  Usable'
<1> DEFINE gone  == {i \in segments : Expired(segs[i], lowest)}
           kept  == segments \ gone
           files == {segs[i].base : i \in kept}
<1>1. /\ segments' = kept /\ active' = active
      /\ segs' = [i \in kept \cup {active} |->
                    IF i \in gone THEN [segs[i] EXCEPT !.buf = <<>>] ELSE segs[i]]
      /\ stores' = [b \in files |-> stores[b]]
      /\ indexes' = [b \in files |-> indexes[b]]
      /\ keepFrom' = IF lowest + 1 > keepFrom THEN lowest + 1 ELSE keepFrom
      /\ pending' = pending /\ panicked' = panicked /\ acked' = acked
      /\ lowest < HighestOffset
  BY DEF Truncate, Restrict
<1>2. active \in kept
  <2>1. /\ active \in segments /\ segs[active].next \in Nat
        /\ HighestOffset = IF segs[active].next = 0 THEN 0 ELSE segs[active].next - 1
    BY UsableFacts
  <2> QED BY <1>1, <2>1 DEF Expired
<1>3. /\ kept \in SUBSET segments /\ DOMAIN segs' = kept
      /\ \A i \in kept : segs'[i] = segs[i]
      /\ \A i \in kept : stores'[segs[i].base] = stores[segs[i].base]
                      /\ indexes'[segs[i].base] = indexes[segs[i].base]
  BY <1>1, <1>2
<1> HIDE DEF kept
<1>4. TypeOK'
  <2>1. segs' \in [segments' \cup {active'} -> Segment]
    BY <1>1, <1>2, <1>3, UsableFacts
  <2>2. DOMAIN stores' = files /\ DOMAIN indexes' = files /\ files \in SUBSET Nat
    BY <1>1, <1>3, UsableFacts
  <2>3. \A b \in files : stores'[b] \in Seq(Record)
    <3> DEFINE R == Seq(Record)
    <3>1. \A i \in kept : stores[segs[i].base] \in R
      BY <1>3, UsableFacts
    <3> HIDE DEF R
    <3>2. \A b \in files : stores'[b] \in R
      BY <3>1, <1>1
    <3> QED BY <3>2 DEF R
  <2>4. \A b \in files : indexes'[b] \in [1..MaxIndexEnts -> Entry]
    <3> DEFINE T == [1..MaxIndexEnts -> Entry]
    <3>1. \A i \in kept : indexes[segs[i].base] \in T
      BY <1>3, UsableFacts
    <3> HIDE DEF T
    <3>2. \A b \in files : indexes'[b] \in T
      BY <3>1, <1>1
    <3> QED BY <3>2 DEF T
  <2>5. keepFrom' \in Nat
    BY <1>1, UsableFacts DEF TypeOK
  <2>6. \A i \in DOMAIN segs' : Len(segs'[i].buf) <= BufRecs
                               /\ segs'[i].indexSize <= MaxIndexEnts
    BY <1>3, UsableFacts
  <2>7. segments' \in SUBSET Nat /\ active' \in Nat
    BY <1>1, <1>3, UsableFacts
  <2>8. \A i \in segments' : segs'[i].base \in DOMAIN stores'
    BY <1>1, <1>3, <2>2
  <2>9. /\ pending' \in SUBSET [writer : Writers, high : Nat]
        /\ panicked' \in BOOLEAN /\ acked' \in SUBSET Record
    BY <1>1 DEF Usable, TypeOK
  <2> QED BY <2>1, <2>2, <2>3, <2>4, <2>5, <2>6, <2>7, <2>8, <2>9 DEF TypeOK
<1>5. FilesMatch' /\ HighKnown'
  BY <1>1, <1>2, <1>3 DEF Usable, FilesMatch, HighKnown
<1>6. EmptyActive'
  BY <1>1, <1>2, <1>3 DEF Usable, EmptyActive, Content
<1>7. \A i \in segments' : EntriesWithin(i)'
  <2>1. ASSUME NEW i \in kept PROVE EntriesWithin(i)'
    <3>1. EntriesWithin(i)
      BY <1>3 DEF Usable
    <3> QED BY <1>3, <3>1, EntriesKept
  <2> QED BY <1>1, <2>1
<1>8. /\ active' \in segments' /\ \A i \in segments' : i <= active'
      /\ \A i, j \in segments' :
           i < j => segs'[i].base < segs'[j].base /\ segs'[i].next <= segs'[j].base
  BY <1>1, <1>2, <1>3 DEF Usable
<1> QED BY <1>4, <1>5, <1>6, <1>7, <1>8 DEF Usable

\* An append to the active segment.
LEMMA AppendToActiveUsable ==
  ASSUME Usable, SingleWriter, NEW p \in pending, NEW v \in Values, AppendToActive(p, v)
  PROVE  Usable'
<1> DEFINE s == segs[active]
           r == NewRecord(s, v)
           u == Indexed(Buffer(s, r))
           X == [indexes[s.base] EXCEPT ![s.indexSize + 1] = NewEntry(s)]
<1>1. /\ TypeOK /\ active \in segments /\ DOMAIN segs = segments /\ s \in Segment
      /\ s.base \in Nat /\ s.next \in Nat /\ s.indexSize \in Nat /\ s.base <= s.next
      /\ s.base \in DOMAIN stores /\ s.base \in DOMAIN indexes
      /\ stores[s.base] \in Seq(Record) /\ indexes[s.base] \in [1..MaxIndexEnts -> Entry]
      /\ Len(s.buf) <= BufRecs /\ s.storeSize \in Nat
  BY UsableFacts DEF Usable, EntriesWithin
<1>2. r \in Record
  BY <1>1 DEF NewRecord, Record
<1>3. /\ u \in Segment /\ u.base = s.base /\ u.next = s.next + 1
      /\ u.indexSize = s.indexSize + 1 /\ Len(u.buf) <= BufRecs
  BY <1>1, <1>2, AppendedSegment
<1>4. s.indexSize < MaxIndexEnts
  BY <1>1, LimitsAssumption DEF AppendToActive, IsMaxed
<1>5. /\ segments' = segments /\ active' = active
      /\ segs' = [segs EXCEPT ![active] = u]
      /\ stores' = [stores EXCEPT ![s.base] = stores[s.base] \o Spilled(s)]
      /\ indexes' = [indexes EXCEPT ![s.base] = X]
      /\ acked' = acked \cup {r} /\ pending' = pending \ {p}
      /\ panicked' = panicked /\ keepFrom' = keepFrom
  BY DEF AppendToActive
<1>6. /\ NewEntry(s) = [off |-> s.next - s.base, pos |-> s.storeSize]
      /\ NewEntry(s) \in Entry /\ NewEntry(s).off = s.next - s.base
  BY <1>1 DEF NewEntry, Entry
<1>7. /\ X \in [1..MaxIndexEnts -> Entry]
      /\ \A k \in 1..MaxIndexEnts :
           X[k] = IF k = s.indexSize + 1 THEN NewEntry(s) ELSE indexes[s.base][k]
  <2> HIDE DEF s
  <2> QED BY <1>1, <1>6
<1> HIDE DEF u, X
<1>8. segs'[active] = u /\ \A j \in segments : j # active => segs'[j] = segs[j]
  BY <1>1, <1>5
<1>9. /\ indexes'[s.base] = X
      /\ \A j \in segments : j # active => indexes'[segs[j].base] = indexes[segs[j].base]
  BY <1>1, <1>5, UsableFacts
<1>10. TypeOK'
  <2>1. segs' \in [segments' \cup {active'} -> Segment]
    BY <1>1, <1>3, <1>5 DEF TypeOK
  <2>2. DOMAIN stores' = DOMAIN stores /\ DOMAIN indexes' = DOMAIN indexes
    BY <1>5
  <2>3. \A b \in DOMAIN stores' : stores'[b] \in Seq(Record)
    <3>1. stores[s.base] \o Spilled(s) \in Seq(Record)
      BY <1>1, <1>2, BufferAppends, ConcatProperties
    <3> QED BY <1>1, <1>5, <3>1 DEF TypeOK
  <2>4. \A b \in DOMAIN indexes' : indexes'[b] \in [1..MaxIndexEnts -> Entry]
    <3> HIDE DEF s
    <3> QED BY <1>1, <1>5, <1>7 DEF TypeOK
  <2>5. \A j \in DOMAIN segs' : Len(segs'[j].buf) <= BufRecs
                               /\ segs'[j].indexSize <= MaxIndexEnts
    <3>1. s.indexSize + 1 <= MaxIndexEnts
      BY <1>1, <1>4, LimitsAssumption
    <3>2. DOMAIN segs' = segments
      BY <1>1, <1>5
    <3> QED BY <1>3, <1>8, <3>1, <3>2, UsableFacts
  <2>6. \A j \in segments' : segs'[j].base \in DOMAIN stores'
    BY <1>1, <1>3, <1>5, <1>8, <2>2, UsableFacts
  <2>7. acked' \in SUBSET Record /\ pending' \in SUBSET [writer : Writers, high : Nat]
    BY <1>1, <1>2, <1>5 DEF TypeOK
  <2> QED BY <1>1, <1>5, <2>1, <2>2, <2>3, <2>4, <2>5, <2>6, <2>7 DEF TypeOK
<1>11. EntriesWithin(active)'
  <2>1. /\ segs'[active].base = s.base /\ segs'[active].next = s.next + 1
        /\ segs'[active].indexSize = s.indexSize + 1
    BY <1>3, <1>8
  <2>2. ASSUME NEW k \in {s.indexSize + 1, MaxIndexEnts}
        PROVE  X[k].off = 0 \/ s.base + X[k].off < s.next + 1
    <3>1. k \in 1..MaxIndexEnts
      BY <1>1, <1>4, LimitsAssumption
    <3>2. CASE k = s.indexSize + 1
      <4>1. X[k].off = s.next - s.base
        BY <1>6, <1>7, <3>1, <3>2
      <4> QED BY <1>1, <4>1
    <3>3. CASE k # s.indexSize + 1
      <4>1. X[k] = indexes[s.base][k] /\ k = MaxIndexEnts /\ k \in {s.indexSize, MaxIndexEnts} \ {0}
        BY <1>7, <3>1, <3>3, LimitsAssumption
      <4>2. X[k].off = 0 \/ s.base + X[k].off < s.next
        BY <1>1, <4>1 DEF Usable, EntriesWithin
      <4>3. X[k].off \in Nat
        BY <1>7, <3>1 DEF Entry
      <4> HIDE DEF s
      <4> QED BY <1>1, <4>2, <4>3
    <3> QED BY <3>2, <3>3
  <2>3. s.base <= s.next + 1 /\ s.base < s.next + 1
    BY <1>1
  <2> QED BY <1>5, <1>9, <2>1, <2>2, <2>3 DEF EntriesWithin
<1>12. \A j \in segments' : EntriesWithin(j)'
  <2>1. ASSUME NEW j \in segments, j # active PROVE EntriesWithin(j)'
    <3>1. EntriesWithin(j)
      BY DEF Usable
    <3> QED BY <2>1, <3>1, <1>8, <1>9, EntriesKept
  <2> QED BY <1>5, <1>11, <2>1
<1>13. FilesMatch'
  <2>1. DOMAIN stores' = DOMAIN stores /\ \A j \in segments : segs'[j].base = segs[j].base
    BY <1>3, <1>5, <1>8
  <2> QED BY <1>5, <2>1 DEF Usable, FilesMatch
<1>14. EmptyActive' /\ HighKnown'
  <2>1. pending' = {} /\ segs'[active'].indexSize # 0
    BY <1>1, <1>3, <1>5, <1>8, OneCall
  <2> QED BY <2>1 DEF EmptyActive, HighKnown
<1>15. /\ active' \in segments' /\ \A i \in segments' : i <= active'
       /\ \A i, j \in segments' :
            i < j => segs'[i].base < segs'[j].base /\ segs'[i].next <= segs'[j].base
  <2>1. ASSUME NEW i \in segments, NEW j \in segments, i < j
        PROVE  segs'[i].base < segs'[j].base /\ segs'[i].next <= segs'[j].base
    <3>1. segs[i].base < segs[j].base /\ segs[i].next <= segs[j].base /\ j <= active
      BY <2>1 DEF Usable
    <3>2. i # active
      BY <2>1, <3>1, UsableFacts
    <3>3. segs'[i] = segs[i] /\ segs'[j].base = segs[j].base
      BY <1>3, <1>8, <3>2
    <3> QED BY <3>1, <3>3
  <2> QED BY <1>1, <1>5, <2>1 DEF Usable
<1> QED BY <1>10, <1>12, <1>13, <1>14, <1>15 DEF Usable

\* A full active segment is not empty, so a rotation goes to files that do not
\* exist yet, after all there are.
LEMMA RotationUsable ==
  ASSUME Usable, NEW p \in pending, IsMaxed(segs[active])
  PROVE  /\ NewBase(p.high) = segs[active].next /\ NewBase(p.high) \in Nat
         /\ \A i \in segments : segs[i].base < NewBase(p.high) /\ segs[i].next <= NewBase(p.high)
         /\ NewBase(p.high) \notin DOMAIN stores /\ NewBase(p.high) \notin DOMAIN indexes
         /\ StoreFile(NewBase(p.high)) = <<>> /\ IndexFile(NewBase(p.high)) = <<>>
<1> DEFINE s == segs[active]
           b == NewBase(p.high)
<1>1. /\ active \in segments /\ s.base \in Nat /\ s.next \in Nat
      /\ s.storeSize \in Nat /\ s.indexSize \in Nat
  BY UsableFacts
<1>2. s.base < s.next
  <2>1. s.indexSize > 0
    BY <1>1, LimitsAssumption DEF Usable, EmptyActive, IsMaxed
  <2> QED BY <1>1, <2>1 DEF Usable, EntriesWithin
<1>3. b = s.next
  <2>1. p.high = s.next - 1
    BY <1>1, <1>2 DEF Usable, HighKnown
  <2> QED BY <2>1, <1>1 DEF NewBase
<1>4. ASSUME NEW i \in segments PROVE segs[i].base < b /\ segs[i].next <= b
  <2>1. i \in Nat /\ active \in Nat /\ i <= active
        /\ segs[i].base \in Nat /\ segs[i].next \in Nat
    BY <1>1, UsableFacts DEF Usable
  <2>2. CASE i = active
    BY <2>2, <1>1, <1>2, <1>3
  <2>3. CASE i < active
    <3>1. segs[i].base < s.base /\ segs[i].next <= s.base
      BY <1>1, <2>3 DEF Usable
    <3> QED BY <3>1, <2>1, <1>1, <1>2, <1>3
  <2> QED BY <2>1, <2>2, <2>3
<1>5. b \notin DOMAIN stores /\ b \notin DOMAIN indexes
  <2>1. \A i \in segments : segs[i].base # b
    BY <1>1, <1>3, <1>4, UsableFacts
  <2> QED BY <2>1 DEF Usable, FilesMatch, TypeOK
<1>6. StoreFile(b) = <<>> /\ IndexFile(b) = <<>>
  BY <1>5 DEF StoreFile, IndexFile
<1> QED BY <1>1, <1>3, <1>4, <1>5, <1>6

\* An append that begins a new segment.
LEMMA AppendToNewUsable ==
  ASSUME Usable, SingleWriter, NEW p \in pending, NEW v \in Values, AppendToNew(p, v)
  PROVE  Usable'
<1>1. TypeOK /\ FilesMatch /\ active \in segments /\ IsMaxed(segs[active])
  BY DEF Usable, AppendToNew
<1>2. PICK b \in Nat, m \in Nat : b = NewBase(p.high) /\ m = active + 1
  <2>1. NewBase(p.high) \in Nat
    BY <1>1, RotationUsable
  <2>2. active + 1 \in Nat
    BY <1>1 DEF TypeOK
  <2> QED BY <2>1, <2>2
<1> DEFINE s == [base |-> b, next |-> b, buf |-> <<>>, storeSize |-> 0, indexSize |-> 0]
           r == NewRecord(s, v)
           u == Indexed(Buffer(s, r))
           ents == Padded(<<>>)
           X == [ents EXCEPT ![s.indexSize + 1] = NewEntry(s)]
<1>3. /\ \A i \in segments : segs[i].base < b /\ segs[i].next <= b
      /\ b \notin DOMAIN stores /\ b \notin DOMAIN indexes
      /\ StoreFile(b) = <<>> /\ IndexFile(b) = <<>>
  BY <1>1, <1>2, RotationUsable
<1>4. OpenSegment(b) = s
  BY <1>3 DEF OpenSegment
<1>5. /\ s \in Segment /\ s.base = b /\ s.next = b /\ s.buf = <<>>
      /\ s.storeSize = 0 /\ s.indexSize = 0
  BY DEF Segment
<1>6. s.indexSize < MaxIndexEnts
  BY <1>5, LimitsAssumption
<1>7. r \in Record
  BY <1>5 DEF NewRecord, Record
<1>8. ents \in [1..MaxIndexEnts -> Entry]
  BY LimitsAssumption DEF Padded, Entry, ZeroEntry
<1>9. /\ active' = m /\ segments' = segments \cup {m}
      /\ segs' = [i \in segments \cup {m} |-> IF i = m THEN u ELSE segs[i]]
      /\ stores' = [c \in DOMAIN stores \cup {b} |-> StoreFile(c)]
      /\ indexes' = [c \in DOMAIN indexes \cup {b} |-> IF c = b THEN X ELSE indexes[c]]
      /\ acked' = acked \cup {r} /\ pending' = pending \ {p}
      /\ panicked' = panicked /\ keepFrom' = keepFrom
  <2> HIDE DEF s
  <2> QED BY <1>2, <1>3, <1>4, <1>6 DEF AppendToNew
<1>10. /\ u \in Segment /\ u.base = b /\ u.next = b + 1 /\ u.indexSize = 1
       /\ Len(u.buf) <= BufRecs
  <2>1. Len(s.buf) <= BufRecs
    BY <1>5, LimitsAssumption
  <2> HIDE DEF s, r
  <2> QED BY <1>5, <1>7, <2>1, AppendedSegment
<1>11. X \in [1..MaxIndexEnts -> Entry] /\ \A k \in 1..MaxIndexEnts : X[k].off = 0
  <2>1. NewEntry(s) = [off |-> 0, pos |-> 0] /\ NewEntry(s) \in Entry
    BY <1>5 DEF NewEntry, Entry
  <2>2. \A k \in 1..MaxIndexEnts : ents[k] = [off |-> 0, pos |-> 0]
    BY DEF Padded, ZeroEntry
  <2> HIDE DEF ents, s
  <2>3. X \in [1..MaxIndexEnts -> Entry]
    BY <1>8, <2>1
  <2>4. \A k \in 1..MaxIndexEnts : X[k] = NewEntry(s) \/ X[k] = ents[k]
    BY <1>8
  <2>5. \A k \in 1..MaxIndexEnts : X[k] = [off |-> 0, pos |-> 0]
    BY <2>1, <2>2, <2>4
  <2> QED BY <2>3, <2>5
<1> HIDE DEF u, X
<1>12. m \notin segments /\ \A i \in segments : i < m
  BY <1>1, <1>2, UsableFacts DEF Usable
<1>13. segs'[m] = u /\ \A i \in segments : segs'[i] = segs[i]
  BY <1>9, <1>12
<1>14. /\ \A c \in DOMAIN stores : stores'[c] = stores[c] /\ indexes'[c] = indexes[c]
       /\ stores'[b] = <<>> /\ indexes'[b] = X
  BY <1>1, <1>3, <1>9 DEF StoreFile, TypeOK
<1>15. TypeOK'
  <2>1. DOMAIN segs' = segments \cup {m} /\ segments' \cup {active'} = segments \cup {m}
    BY <1>9
  <2>2. \A i \in segments \cup {m} : segs'[i] \in Segment
    BY <1>10, <1>13, UsableFacts
  <2>3. segs' \in [segments' \cup {active'} -> Segment]
    BY <2>1, <2>2, <1>9
  <2>4. /\ DOMAIN stores' = DOMAIN stores \cup {b} /\ DOMAIN indexes' = DOMAIN stores'
        /\ DOMAIN stores' \in SUBSET Nat
    BY <1>1, <1>9 DEF TypeOK
  <2>5. \A c \in DOMAIN stores' : stores'[c] \in Seq(Record)
    <3>1. <<>> \in Seq(Record)
      OBVIOUS
    <3>2. \A c \in DOMAIN stores : stores[c] \in Seq(Record)
      BY <1>1 DEF TypeOK
    <3> HIDE DEF r
    <3> QED BY <1>14, <2>4, <3>1, <3>2
  <2>6. \A c \in DOMAIN indexes' : indexes'[c] \in [1..MaxIndexEnts -> Entry]
    BY <1>1, <1>11, <1>14, <2>4 DEF TypeOK
  <2>7. \A i \in DOMAIN segs' : Len(segs'[i].buf) <= BufRecs
                               /\ segs'[i].indexSize <= MaxIndexEnts
    <3>1. 1 <= MaxIndexEnts
      BY LimitsAssumption
    <3> QED BY <1>10, <1>13, <2>1, <3>1, UsableFacts
  <2>8. \A i \in segments' : segs'[i].base \in DOMAIN stores'
    BY <1>9, <1>10, <1>13, <2>4, UsableFacts
  <2>9. segments' \in SUBSET Nat /\ active' \in Nat
    BY <1>1, <1>9 DEF TypeOK
  <2> HIDE DEF r
  <2> QED BY <1>1, <1>7, <1>9, <2>3, <2>4, <2>5, <2>6, <2>7, <2>8, <2>9 DEF TypeOK
<1>16. FilesMatch'
  BY <1>1, <1>9, <1>10, <1>13 DEF FilesMatch
<1>17. EmptyActive' /\ HighKnown'
  <2>1. pending' = {} /\ segs'[active'].indexSize = 1
    BY <1>9, <1>10, <1>13, OneCall
  <2> QED BY <2>1 DEF EmptyActive, HighKnown
<1>18. \A i \in segments' : EntriesWithin(i)'
  <2>1. ASSUME NEW i \in segments PROVE EntriesWithin(i)'
    <3>1. EntriesWithin(i)
      BY DEF Usable
    <3>2. indexes'[segs[i].base] = indexes[segs[i].base]
      BY <1>14, UsableFacts
    <3> QED BY <3>1, <3>2, <1>13, EntriesKept
  <2>2. EntriesWithin(m)'
    <3>1. /\ segs'[m].base = b /\ segs'[m].next = b + 1 /\ segs'[m].indexSize = 1
          /\ b <= b + 1 /\ b < b + 1
      BY <1>10, <1>13
    <3>2. 1 \in 1..MaxIndexEnts /\ MaxIndexEnts \in 1..MaxIndexEnts
      BY LimitsAssumption
    <3> QED BY <1>11, <1>14, <3>1, <3>2 DEF EntriesWithin
  <2> QED BY <1>9, <2>1, <2>2
<1>19. /\ active' \in segments' /\ \A i \in segments' : i <= active'
       /\ \A i, j \in segments' :
            i < j => segs'[i].base < segs'[j].base /\ segs'[i].next <= segs'[j].base
  <2>1. \A i \in segments : i \in Nat
    BY UsableFacts
  <2>2. ASSUME NEW i \in segments', NEW j \in segments', i < j
        PROVE  segs'[i].base < segs'[j].base /\ segs'[i].next <= segs'[j].base
    <3>1. i \in segments
      <4>1. CASE i = m
        BY <4>1, <2>1, <2>2, <1>9, <1>12
      <4> QED BY <4>1, <1>9
    <3>2. CASE j \in segments
      BY <2>2, <3>1, <3>2, <1>13 DEF Usable
    <3>3. CASE j = m
      BY <3>1, <3>3, <1>3, <1>10, <1>13
    <3> QED BY <3>2, <3>3, <1>9
  <2>3. \A i \in segments \cup {m} : i <= m
    BY <1>12, <2>1
  <2> HIDE DEF r
  <2> QED BY <1>9, <2>2, <2>3
<1> QED BY <1>15, <1>16, <1>17, <1>18, <1>19 DEF Usable

\* Every step of the running log.
LEMMA NextUsable ==
  ASSUME Usable, SingleWriter, ~WholeLog, Next
  PROVE  Usable'
<1>1. active \in segments
  BY DEF Usable
<1>2. CASE \E w \in Writers : AppendBegin(w)
  BY <1>2, AppendBeginUsable
<1>3. CASE OffsetPanics
  BY <1>1, <1>3 DEF OffsetPanics
<1>4. CASE \E p \in pending, v \in Values : AppendToActive(p, v)
  BY <1>4, AppendToActiveUsable
<1>5. CASE \E p \in pending, v \in Values : AppendToNew(p, v)
  BY <1>5, AppendToNewUsable
<1>6. CASE \E p \in pending, v \in Values : AppendToRemoved(p, v)
  BY <1>1, <1>6 DEF AppendToRemoved
<1>7. CASE \E off \in 0..MaxOffset : Read(off)
  <2>1. PICK off \in 0..MaxOffset : Read(off)
    BY <1>7
  <2>2. Holders(off) \in SUBSET Nat /\ Holders(off) # {}
    BY <2>1, UsableFacts DEF Read, Holders
  <2>3. Min(Holders(off)) \in segments
    BY <2>2, MinOfSet DEF Holders
  <2> QED BY <2>1, <2>3, FlushUsable DEF Read
<1>8. CASE \E i \in segments : ReaderRead(i)
  BY <1>8, FlushUsable DEF ReaderRead
<1>9. CASE \E lowest \in 0..MaxOffset : Truncate(lowest)
  BY <1>9, TruncateUsable, OffsetsAssumption
<1> QED BY <1>2, <1>3, <1>4, <1>5, <1>6, <1>7, <1>8, <1>9 DEF Next

(***************************************************************************)
(* The process goes                                                        *)
(***************************************************************************)

\* Every pair of files is that of one segment.
LEMMA SegmentOfFiles ==
  ASSUME Usable, NEW b \in DOMAIN stores
  PROVE  SegmentAt(b) \in segments /\ segs[SegmentAt(b)].base = b /\ b \in Nat
<1>1. PICK i \in segments : segs[i].base = b
  BY DEF Usable, FilesMatch
<1>2. b \in Nat
  BY <1>1, UsableFacts
<1> QED BY <1>1, <1>2 DEF SegmentAt

\* There are finitely many segments.
LEMMA SegmentsFinite ==
  ASSUME Usable
  PROVE  segments \in SUBSET Nat /\ IsFiniteSet(segments)
<1>1. segments \subseteq 0..active /\ active \in Nat
  BY UsableFacts DEF Usable
<1>2. IsFiniteSet(0..active)
  BY <1>1, FS_Interval
<1>3. IsFiniteSet(segments)
  BY <1>1, <1>2, FS_Subset
<1>4. segments \in SUBSET Nat
  BY UsableFacts
<1> QED BY <1>3, <1>4

\* What is left of an index, closed or not, is within the range of its segment.
LEMMA LeftIndex ==
  ASSUME Usable, NEW i \in segments, NEW ents \in {ClosedIndex(i), indexes[segs[i].base]}
  PROVE  /\ ents \in Seq(Entry) /\ Len(ents) <= MaxIndexEnts
         /\ \A c \in Nat : segs[i].base < c /\ segs[i].next <= c =>
                             segs[i].base + LastOff(ents) + 1 <= c
         /\ ents = <<>> => segs[i].indexSize = 0
<1> DEFINE full == indexes[segs[i].base]
           n    == segs[i].indexSize
<1>1. /\ full \in [1..MaxIndexEnts -> Entry] /\ n \in Nat /\ n <= MaxIndexEnts
      /\ segs[i].base \in Nat /\ segs[i].next \in Nat
  BY UsableFacts
<1>2. full \in Seq(Entry) /\ Len(full) = MaxIndexEnts
  <2> HIDE DEF full
  <2> QED BY <1>1, LimitsAssumption
<1>3. PICK m \in Nat : m = IF ents = full THEN MaxIndexEnts ELSE n
  BY <1>1, LimitsAssumption
<1>4. /\ ents \in Seq(Entry) /\ Len(ents) = m
      /\ m # 0 => ents[m] = full[m]
  <2>1. CASE ents = full
    BY <2>1, <1>2, <1>3
  <2>2. CASE ents # full
    <3>1. ents = SubSeq(full, 1, n) /\ m = n
      BY <1>3, <2>2 DEF ClosedIndex
    <3> HIDE DEF full, n
    <3>2. n = 0 => SubSeq(full, 1, n) \in Seq(Entry) /\ Len(SubSeq(full, 1, n)) = 0
      BY <1>1, <1>2
    <3>3. n # 0 => /\ SubSeq(full, 1, n) \in Seq(Entry) /\ Len(SubSeq(full, 1, n)) = n
                   /\ SubSeq(full, 1, n)[n] = full[n]
      BY <1>1, <1>2
    <3> QED BY <3>1, <3>2, <3>3
  <2> QED BY <2>1, <2>2
<1>5. m <= MaxIndexEnts /\ (m = 0 => n = 0)
  BY <1>1, <1>3, LimitsAssumption
<1>6. ents = <<>> => n = 0
  BY <1>4, <1>5
<1>7. LastOff(ents) \in Nat
      /\ (LastOff(ents) = 0 \/ segs[i].base + LastOff(ents) < segs[i].next)
  <2>1. CASE m = 0
    <3>1. ents = <<>>
      BY <1>4, <2>1
    <3> QED BY <3>1 DEF LastOff
  <2>2. CASE m # 0
    <3>1. LastOff(ents) = full[m].off
      <4>1. ents # <<>>
        BY <1>4, <2>2
      <4> QED BY <1>4, <2>2, <4>1 DEF LastOff
    <3>2. m \in 1..MaxIndexEnts
      BY <1>5, <2>2, LimitsAssumption
    <3>3. full[m].off \in Nat
      <4> HIDE DEF full
      <4> QED BY <1>1, <3>2 DEF Entry
    <3>4. m \in {n, MaxIndexEnts} \ {0}
      BY <1>3, <2>2
    <3>5. full[m].off = 0 \/ segs[i].base + full[m].off < segs[i].next
      BY <3>4 DEF Usable, EntriesWithin
    <3> QED BY <3>1, <3>3, <3>5
  <2> QED BY <2>1, <2>2
<1>8. ASSUME NEW c \in Nat, segs[i].base < c, segs[i].next <= c
      PROVE  segs[i].base + LastOff(ents) + 1 <= c
  <2>1. PICK o \in Nat : o = LastOff(ents)
    BY <1>7
  <2> QED BY <1>1, <1>7, <1>8, <2>1
<1> QED BY <1>4, <1>5, <1>6, <1>8

\* What is left of a store is its contents, or what the buffer was spilled to.
LEMMA LeftStore ==
  ASSUME Usable, NEW i \in segments, NEW recs \in {Content(i), stores[segs[i].base]}
  PROVE  recs \in Seq(Record) /\ (Content(i) = <<>> => recs = <<>>)
<1>1. /\ Content(i) \in Seq(Record) /\ stores[segs[i].base] \in Seq(Record)
      /\ segs[i].buf \in Seq(Record)
  BY UsableFacts
<1>2. Len(Content(i)) = Len(stores[segs[i].base]) + Len(segs[i].buf)
  BY <1>1, ConcatProperties DEF Content
<1>3. Content(i) = <<>> => stores[segs[i].base] = <<>>
  <2> SUFFICES ASSUME Content(i) = <<>> PROVE stores[segs[i].base] = <<>>
    OBVIOUS
  <2>1. Len(Content(i)) = 0
    OBVIOUS
  <2>2. PICK a \in Nat, b \in Nat : a = Len(stores[segs[i].base]) /\ b = Len(segs[i].buf)
    BY <1>1, LenProperties
  <2>3. a + b = 0
    BY <1>2, <2>1, <2>2
  <2>4. a = 0
    BY <2>3
  <2>5. Len(stores[segs[i].base]) = 0
    BY <2>2, <2>4
  <2> QED BY <1>1, <2>5, EmptySeq
<1> QED BY <1>1, <1>3

\* The bases of the segments are in the order of the segments.
LEMMA BaseOrder ==
  ASSUME Usable, NEW i \in segments, NEW j \in segments, segs[i].base < segs[j].base
  PROVE  i < j /\ segs[i].next <= segs[j].base
<1>1. ~(j < i) /\ i # j
  BY UsableFacts DEF Usable
<1>2. i < j
  BY <1>1, UsableFacts
<1> QED BY <1>2 DEF Usable

\* However many of the files are closed, and whichever are gone but those of the
\* active segment, what is left can be opened.
LEMMA LeftUsable ==
  ASSUME Usable, pending' = {},
         DOMAIN stores' \subseteq DOMAIN stores, DOMAIN indexes' \subseteq DOMAIN stores,
         segs[active].base \in DOMAIN stores' \cap DOMAIN indexes',
         \A b \in DOMAIN stores' : stores'[b] \in {Content(SegmentAt(b)), stores[b]},
         \A b \in DOMAIN indexes' : indexes'[b] \in {ClosedIndex(SegmentAt(b)), indexes[b]},
         \A a, b \in Unpaired' : a = b
  PROVE  FilesUsable'
<1>1. \A b \in DOMAIN stores :
        SegmentAt(b) \in segments /\ segs[SegmentAt(b)].base = b /\ b \in Nat
  BY SegmentOfFiles
<1>2. Bases' \subseteq DOMAIN stores /\ segs[active].base \in Bases'
  BY DEF Bases
<1>3. IsFiniteSet(DOMAIN stores)
  <2> DEFINE f == [i \in segments |-> segs[i].base]
  <2>1. f \in Surjection(segments, DOMAIN stores)
    BY UsableFacts DEF Surjection, Usable, FilesMatch
  <2> QED BY <2>1, SegmentsFinite, FS_Surjection
<1>4. ASSUME NEW b \in DOMAIN stores'
      PROVE  /\ stores'[b] \in Seq(Record)
             /\ Content(SegmentAt(b)) = <<>> => stores'[b] = <<>>
  <2>1. SegmentAt(b) \in segments /\ stores'[b] \in {Content(SegmentAt(b)), stores[segs[SegmentAt(b)].base]}
    BY <1>1
  <2> QED BY <2>1, LeftStore
<1>5. ASSUME NEW b \in DOMAIN indexes'
      PROVE  /\ indexes'[b] \in Seq(Entry) /\ Len(indexes'[b]) <= MaxIndexEnts
             /\ \A c \in Nat : b < c /\ segs[SegmentAt(b)].next <= c =>
                                 b + LastOff(indexes'[b]) + 1 <= c
             /\ indexes'[b] = <<>> => segs[SegmentAt(b)].indexSize = 0
  <2>1. /\ SegmentAt(b) \in segments /\ segs[SegmentAt(b)].base = b
        /\ indexes'[b] \in {ClosedIndex(SegmentAt(b)), indexes[segs[SegmentAt(b)].base]}
    BY <1>1
  <2> QED BY <2>1, LeftIndex
<1>6. FileTypes'
  <2>1. Bases' \in SUBSET Nat /\ IsFiniteSet(Bases')
    BY <1>1, <1>2, <1>3, FS_Subset
  <2> QED BY <2>1, <1>4, <1>5 DEF FileTypes
<1>7. \A b \in Bases' :
        IndexFile(b)' = IF b \in DOMAIN indexes' THEN indexes'[b] ELSE <<>>
  BY DEF IndexFile
<1>8. \A b \in Bases' :
        StoreFile(b)' = IF b \in DOMAIN stores' THEN stores'[b] ELSE <<>>
  BY DEF StoreFile
<1>9. ASSUME NEW b \in Bases', NEW c \in Bases', b < c
      PROVE  b + LastOff(IndexFile(b)') + 1 <= c
  <2>1. b \in Nat /\ c \in Nat /\ segs[SegmentAt(b)].next <= c
    <3>1. b \in DOMAIN stores /\ c \in DOMAIN stores
      BY <1>2
    <3> QED BY <1>1, <1>9, <3>1, BaseOrder
  <2>2. CASE b \in DOMAIN indexes'
    BY <1>5, <1>7, <1>9, <2>1, <2>2
  <2>3. CASE b \notin DOMAIN indexes'
    <3>1. LastOff(IndexFile(b)') = 0
      BY <1>7, <2>3 DEF LastOff
    <3> QED BY <1>9, <2>1, <3>1
  <2> QED BY <2>2, <2>3
<1>10. ASSUME NEW b \in Bases', \A c \in Bases' : c <= b, IndexFile(b)' = <<>>
       PROVE  StoreFile(b)' = <<>>
  <2>1. SegmentAt(b) \in segments /\ segs[SegmentAt(b)].base = b /\ b \in Nat
    BY <1>1, <1>2
  <2>2. active \in segments /\ active \in Nat /\ segs[active].base \in Nat
    BY UsableFacts
  <2>3. SegmentAt(b) = active
    <3>1. segs[active].base <= b
      BY <1>2, <1>10
    <3>2. ~(segs[active].base < segs[SegmentAt(b)].base)
      <4>1. segs[active].base < segs[SegmentAt(b)].base => active < SegmentAt(b)
        BY <2>1, <2>2, BaseOrder
      <4>2. SegmentAt(b) <= active /\ SegmentAt(b) \in Nat
        BY <2>1, UsableFacts DEF Usable
      <4> QED BY <2>2, <4>1, <4>2
    <3>3. segs[active].base = segs[SegmentAt(b)].base
      BY <2>1, <2>2, <3>1, <3>2
    <3> QED BY <2>1, <2>2, <3>3, UsableFacts
  <2>4. b \in DOMAIN indexes' /\ b \in DOMAIN stores'
    BY <2>1, <2>3
  <2>5. segs[active].indexSize = 0
    BY <1>5, <1>7, <1>10, <2>3, <2>4
  <2>6. Content(active) = <<>>
    BY <2>5 DEF Usable, EmptyActive
  <2> QED BY <1>4, <1>8, <2>3, <2>4, <2>6
<1> QED BY <1>6, <1>9, <1>10 DEF FilesUsable

\* Close, wherever it ends.
LEMMA CloseUsable ==
  ASSUME Usable, NEW n, Close(n)
  PROVE  FilesUsable'
<1>1. /\ pending' = {}
      /\ stores' = [b \in DOMAIN stores |->
           IF StoreCloseStep(SegmentAt(b)) <= n THEN Content(SegmentAt(b)) ELSE stores[b]]
      /\ indexes' = [b \in DOMAIN indexes |->
           IF IndexCloseStep(SegmentAt(b)) <= n THEN ClosedIndex(SegmentAt(b)) ELSE indexes[b]]
  BY DEF Close, Die
<1>2. DOMAIN stores' = DOMAIN stores /\ DOMAIN indexes' = DOMAIN stores
  BY <1>1, UsableFacts DEF TypeOK
<1>3. \A b \in DOMAIN stores' : stores'[b] \in {Content(SegmentAt(b)), stores[b]}
  BY <1>1
<1>4. \A b \in DOMAIN indexes' : indexes'[b] \in {ClosedIndex(SegmentAt(b)), indexes[b]}
  BY <1>1
<1>5. \A a, b \in Unpaired' : a = b
  BY <1>2 DEF Unpaired, Bases
<1>6. segs[active].base \in DOMAIN stores' \cap DOMAIN indexes'
  BY <1>2, UsableFacts
<1> QED BY <1>1, <1>2, <1>3, <1>4, <1>5, <1>6, LeftUsable

\* A truncation killed while it removes a segment leaves a store without its
\* index at most once.
LEMMA KillInTruncateUsable ==
  ASSUME Usable, NEW lowest \in Nat, NEW n \in Nat, KillInTruncate(lowest, n)
  PROVE  FilesUsable'
<1> DEFINE gone == {i \in segments : Expired(segs[i], lowest)}
           done(i, k) == i \in gone /\ 4 * Rank(gone, i) + k <= n
<1>1. /\ pending' = {} /\ lowest < HighestOffset
      /\ stores' = [b \in {c \in DOMAIN stores : ~done(SegmentAt(c), 4)} |->
           IF done(SegmentAt(b), 2) THEN Content(SegmentAt(b)) ELSE stores[b]]
      /\ indexes' = [b \in {c \in DOMAIN indexes : ~done(SegmentAt(c), 3)} |->
           IF done(SegmentAt(b), 1) THEN ClosedIndex(SegmentAt(b)) ELSE indexes[b]]
  BY DEF KillInTruncate, Die
<1>2. gone \in SUBSET Nat /\ IsFiniteSet(gone) /\ gone \subseteq segments
  BY SegmentsFinite, FS_Subset
<1>3. /\ \A i \in gone : Rank(gone, i) \in Nat
      /\ \A i, j \in gone : Rank(gone, i) = Rank(gone, j) => i = j
  <2>1. Cardinality(gone) \in Nat
    BY <1>2, FS_CardinalityType
  <2> HIDE DEF gone
  <2> QED BY <1>2, <2>1, RankFacts
<1>4. active \in segments \ gone
  <2>1. /\ active \in segments /\ segs[active].next \in Nat
        /\ HighestOffset = IF segs[active].next = 0 THEN 0 ELSE segs[active].next - 1
    BY UsableFacts
  <2> QED BY <1>1, <2>1 DEF Expired
<1> HIDE DEF gone
<1>5. DOMAIN stores = DOMAIN indexes
  BY UsableFacts DEF TypeOK
<1>6. /\ DOMAIN stores' = {c \in DOMAIN stores : ~done(SegmentAt(c), 4)}
      /\ DOMAIN indexes' = {c \in DOMAIN stores : ~done(SegmentAt(c), 3)}
  BY <1>1, <1>5
<1>7. \A b \in DOMAIN stores' : stores'[b] \in {Content(SegmentAt(b)), stores[b]}
  BY <1>1
<1>8. \A b \in DOMAIN indexes' : indexes'[b] \in {ClosedIndex(SegmentAt(b)), indexes[b]}
  BY <1>1
<1>9. segs[active].base \in DOMAIN stores' \cap DOMAIN indexes'
  <2>1. segs[active].base \in DOMAIN stores
    BY UsableFacts
  <2>2. SegmentAt(segs[active].base) = active
    BY <1>4, <2>1, SegmentOfFiles, UsableFacts
  <2> QED BY <1>4, <1>6, <2>1, <2>2
<1>10. ASSUME NEW b \in Unpaired'
       PROVE  b \in DOMAIN stores /\ SegmentAt(b) \in gone /\ n = 4 * Rank(gone, SegmentAt(b)) + 3
  <2>1. b \in DOMAIN stores /\ (b \notin DOMAIN stores' \/ b \notin DOMAIN indexes')
        /\ (b \in DOMAIN stores' \/ b \in DOMAIN indexes')
    BY <1>6 DEF Unpaired, Bases
  <2>2. PICK i : i = SegmentAt(b)
    OBVIOUS
  <2>3. i \in gone /\ ((done(i, 3) /\ ~done(i, 4)) \/ (done(i, 4) /\ ~done(i, 3)))
    BY <1>6, <2>1, <2>2
  <2>4. PICK k \in Nat : k = Rank(gone, i)
    BY <1>3, <2>3
  <2>5. n = 4 * k + 3
    BY <2>3, <2>4
  <2> QED BY <2>1, <2>2, <2>3, <2>4, <2>5
<1>11. ASSUME NEW a \in Unpaired', NEW b \in Unpaired' PROVE a = b
  <2>1. PICK k \in Nat, m \in Nat : /\ k = Rank(gone, SegmentAt(a)) /\ n = 4 * k + 3
                                    /\ m = Rank(gone, SegmentAt(b)) /\ n = 4 * m + 3
    BY <1>3, <1>10
  <2>2. k = m
    BY <2>1, FourTimes
  <2>3. SegmentAt(a) = SegmentAt(b)
    BY <1>3, <1>10, <2>1, <2>2
  <2> QED BY <1>10, <2>3, SegmentOfFiles
<1> QED BY <1>1, <1>6, <1>7, <1>8, <1>9, <1>11, LeftUsable

\* Extending an index adds no entry that reaches further.
LEMMA PaddedFacts ==
  ASSUME NEW e \in Seq(Entry), Len(e) <= MaxIndexEnts
  PROVE  /\ Padded(e) \in [1..MaxIndexEnts -> Entry]
         /\ Padded(e) \in Seq(Entry) /\ Len(Padded(e)) = MaxIndexEnts /\ Padded(e) # <<>>
         /\ \A k \in 1..Len(e) : Padded(e)[k] = e[k]
         /\ LastOff(e) \in Nat /\ LastOff(Padded(e)) \in {0, LastOff(e)}
         /\ Padded(e)[MaxIndexEnts].off \in {0, LastOff(e)}
<1>1. \A k \in 1..Len(e) : e[k] \in Entry
  BY ElementOfSeq
<1>2. ZeroEntry \in Entry /\ ZeroEntry.off = 0
  BY DEF ZeroEntry, Entry
<1>3. Padded(e) \in [1..MaxIndexEnts -> Entry]
  <2>1. ASSUME NEW k \in 1..MaxIndexEnts PROVE (IF k <= Len(e) THEN e[k] ELSE ZeroEntry) \in Entry
    <3>1. k <= Len(e) => k \in 1..Len(e)
      BY LenProperties
    <3> QED BY <1>1, <1>2, <3>1
  <2> QED BY <2>1 DEF Padded
<1>4. Padded(e) \in Seq(Entry) /\ Len(Padded(e)) = MaxIndexEnts
  BY <1>3, LimitsAssumption
<1>5. Padded(e) # <<>>
  BY <1>4, LimitsAssumption
<1>6. \A k \in 1..MaxIndexEnts : Padded(e)[k] = IF k <= Len(e) THEN e[k] ELSE ZeroEntry
  BY DEF Padded
<1>7. \A k \in 1..Len(e) : Padded(e)[k] = e[k]
  <2>1. Len(e) \in Nat /\ MaxIndexEnts \in Nat
    BY LenProperties, LimitsAssumption
  <2> QED BY <1>6, <2>1
<1>8. LastOff(e) \in Nat /\ (e # <<>> => LastOff(e) = e[Len(e)].off)
  <2>1. CASE e = <<>>
    BY <2>1 DEF LastOff
  <2>2. CASE e # <<>>
    <3>1. Len(e) \in 1..Len(e)
      BY <2>2, LenProperties, EmptySeq
    <3>2. e[Len(e)].off \in Nat
      BY <1>1, <3>1 DEF Entry
    <3> QED BY <2>2, <3>2 DEF LastOff
  <2> QED BY <2>1, <2>2
<1>9. Padded(e)[MaxIndexEnts].off \in {0, LastOff(e)}
  <2>1. MaxIndexEnts \in 1..MaxIndexEnts
    BY LimitsAssumption
  <2>2. CASE MaxIndexEnts <= Len(e)
    <3>1. Len(e) = MaxIndexEnts /\ e # <<>>
      BY <2>2, LenProperties, LimitsAssumption
    <3> QED BY <1>6, <1>8, <2>1, <2>2, <3>1
  <2>3. CASE ~(MaxIndexEnts <= Len(e))
    <3>1. Padded(e)[MaxIndexEnts] = ZeroEntry
      BY <1>6, <2>1, <2>3
    <3> QED BY <1>2, <3>1
  <2> QED BY <2>2, <2>3
<1>10. LastOff(Padded(e)) = Padded(e)[MaxIndexEnts].off
  BY <1>4, <1>5 DEF LastOff
<1> QED BY <1>3, <1>4, <1>5, <1>7, <1>8, <1>9, <1>10

\* An append killed while it creates the next segment leaves files without a
\* record at the end.
LEMMA KillInRotationUsable ==
  ASSUME Usable, NEW p \in pending, NEW n \in Nat, KillInRotation(p, n)
  PROVE  FilesUsable'
<1>1. IsMaxed(segs[active])
  BY DEF KillInRotation
<1>2. PICK b \in Nat : b = NewBase(p.high)
  BY <1>1, RotationUsable
<1>3. /\ \A i \in segments : segs[i].base < b /\ segs[i].next <= b
      /\ b \notin DOMAIN stores /\ b \notin DOMAIN indexes
      /\ StoreFile(b) = <<>> /\ IndexFile(b) = <<>>
  BY <1>1, <1>2, RotationUsable
<1>4. Rank({b}, b) = 0
  <2>1. {y \in {b} : y < b} = {}
    BY <1>2
  <2> QED BY <2>1, FS_EmptySet DEF Rank
<1> DEFINE S == {x \in {b} : 3 * Rank({b}, x) + 1 <= n}
           I == {x \in {b} : 3 * Rank({b}, x) + 2 <= n}
<1>5. /\ pending' = {}
      /\ stores' = [c \in DOMAIN stores \cup S |-> StoreFile(c)]
      /\ indexes' = [c \in DOMAIN indexes \cup I |->
                       IF c \in {b} /\ 3 * Rank({b}, c) + 3 <= n
                       THEN Padded(IndexFile(c)) ELSE IndexFile(c)]
  BY <1>2 DEF KillInRotation, Die, OpenedStores, OpenedIndexes
<1>6. S \subseteq {b} /\ I \subseteq {b} /\ DOMAIN stores = DOMAIN indexes
  BY UsableFacts DEF TypeOK
<1> HIDE DEF S, I
<1>7. \A c \in DOMAIN stores :
        /\ c \in DOMAIN stores' /\ c \in DOMAIN indexes'
        /\ stores'[c] = stores[c] /\ indexes'[c] = indexes[c]
  BY <1>3, <1>5, <1>6 DEF StoreFile, IndexFile
<1>8. /\ b \in DOMAIN stores' => stores'[b] = <<>>
      /\ b \in DOMAIN indexes' => indexes'[b] \in {<<>>, Padded(<<>>)}
      /\ DOMAIN stores' \subseteq DOMAIN stores \cup {b}
      /\ DOMAIN indexes' \subseteq DOMAIN stores \cup {b}
  BY <1>3, <1>5, <1>6
<1>9. Bases' \subseteq DOMAIN stores \cup {b}
  BY <1>8 DEF Bases
<1>10. IsFiniteSet(DOMAIN stores) /\ DOMAIN stores \in SUBSET Nat
  <2> DEFINE f == [i \in segments |-> segs[i].base]
  <2>1. f \in Surjection(segments, DOMAIN stores)
    BY UsableFacts DEF Surjection, Usable, FilesMatch
  <2>2. IsFiniteSet(DOMAIN stores)
    BY <2>1, SegmentsFinite, FS_Surjection
  <2> QED BY <2>2, UsableFacts DEF TypeOK
<1>11. \A c \in DOMAIN stores : c < b
  BY <1>3, SegmentOfFiles
<1>12. <<>> \in Seq(Entry) /\ Len(<<>>) <= MaxIndexEnts /\ <<>> \in Seq(Record)
  BY LimitsAssumption
<1>13. ASSUME NEW c \in DOMAIN stores
       PROVE  /\ indexes[c] \in Seq(Entry) /\ Len(indexes[c]) <= MaxIndexEnts
              /\ \A d \in Nat : c < d /\ segs[SegmentAt(c)].next <= d =>
                                  c + LastOff(indexes[c]) + 1 <= d
  <2>1. SegmentAt(c) \in segments /\ segs[SegmentAt(c)].base = c
    BY SegmentOfFiles
  <2> QED BY <2>1, LeftIndex
<1>14. FileTypes'
  <2>1. Bases' \in SUBSET Nat /\ IsFiniteSet(Bases')
    BY <1>9, <1>10, FS_AddElement, FS_Subset
  <2>2. \A c \in DOMAIN stores' : stores'[c] \in Seq(Record)
    BY <1>7, <1>8, <1>12, UsableFacts DEF TypeOK
  <2>3. Padded(<<>>) \in Seq(Entry) /\ Len(Padded(<<>>)) <= MaxIndexEnts
    <3>1. Padded(<<>>) \in Seq(Entry) /\ Len(Padded(<<>>)) = MaxIndexEnts
      BY <1>12, PaddedFacts
    <3> QED BY <3>1, LimitsAssumption
  <2>4. \A c \in DOMAIN indexes' : indexes'[c] \in Seq(Entry) /\ Len(indexes'[c]) <= MaxIndexEnts
    BY <1>7, <1>8, <1>12, <1>13, <2>3
  <2> QED BY <2>1, <2>2, <2>4 DEF FileTypes
<1>15. \A x, y \in Unpaired' : x = y
  BY <1>7, <1>9 DEF Unpaired
<1>16. ASSUME NEW c \in Bases', NEW d \in Bases', c < d
       PROVE  c + LastOff(IndexFile(c)') + 1 <= d
  <2>1. c \in DOMAIN stores
    BY <1>2, <1>9, <1>10, <1>11, <1>16
  <2>2. IndexFile(c)' = indexes[c]
    BY <1>7, <2>1 DEF IndexFile
  <2>3. d \in Nat /\ segs[SegmentAt(c)].next <= d
    <3>1. SegmentAt(c) \in segments /\ segs[SegmentAt(c)].base = c
      BY <2>1, SegmentOfFiles
    <3>2. CASE d = b
      BY <1>3, <3>1, <3>2
    <3>3. CASE d \in DOMAIN stores
      <4>1. SegmentAt(d) \in segments /\ segs[SegmentAt(d)].base = d /\ d \in Nat
        BY <3>3, SegmentOfFiles
      <4> QED BY <1>16, <3>1, <4>1, BaseOrder
    <3> QED BY <1>9, <3>2, <3>3
  <2> QED BY <1>13, <1>16, <2>1, <2>2, <2>3
<1>17. ASSUME NEW c \in Bases', \A d \in Bases' : d <= c, IndexFile(c)' = <<>>
       PROVE  StoreFile(c)' = <<>>
  <2>1. CASE c \in DOMAIN stores
    <3>1. IndexFile(c)' = indexes[c] /\ indexes[c] \in [1..MaxIndexEnts -> Entry]
      BY <1>6, <1>7, <2>1, UsableFacts DEF IndexFile, TypeOK
    <3>2. indexes[c] # <<>>
      BY <3>1, LimitsAssumption
    <3> QED BY <1>17, <3>1, <3>2
  <2>2. CASE c = b
    BY <1>8, <2>2 DEF StoreFile
  <2> QED BY <1>9, <2>1, <2>2
<1> QED BY <1>5, <1>14, <1>15, <1>16, <1>17 DEF FilesUsable

(***************************************************************************)
(* A Close that finishes                                                   *)
(***************************************************************************)

\* A Close that finishes leaves the contents of the stores and the entries in
\* use of the indexes.
LEMMA CleanCloseFiles ==
  ASSUME Usable, CleanClose
  PROVE  /\ DOMAIN stores' = DOMAIN stores /\ DOMAIN indexes' = DOMAIN stores
         /\ acked' = acked /\ keepFrom' = keepFrom
         /\ \A i \in segments : /\ stores'[segs[i].base] = Content(i)
                                /\ indexes'[segs[i].base] = ClosedIndex(i)
<1> DEFINE n == 2 * Cardinality(segments)
<1>1. /\ acked' = acked /\ keepFrom' = keepFrom
      /\ stores' = [b \in DOMAIN stores |->
           IF StoreCloseStep(SegmentAt(b)) <= n THEN Content(SegmentAt(b)) ELSE stores[b]]
      /\ indexes' = [b \in DOMAIN indexes |->
           IF IndexCloseStep(SegmentAt(b)) <= n THEN ClosedIndex(SegmentAt(b)) ELSE indexes[b]]
  BY DEF CleanClose, Close, Die
<1>2. ASSUME NEW i \in segments PROVE StoreCloseStep(i) <= n /\ IndexCloseStep(i) <= n
  <2>1. Cardinality(segments) \in Nat /\ Rank(segments, i) \in 0..(Cardinality(segments) - 1)
    BY SegmentsFinite, RankFacts
  <2>2. PICK c \in Nat, k \in Nat :
          c = Cardinality(segments) /\ k = Rank(segments, i) /\ k <= c - 1
    BY <2>1
  <2> QED BY <2>2 DEF StoreCloseStep, IndexCloseStep
<1>3. ASSUME NEW i \in segments PROVE segs[i].base \in DOMAIN stores /\ SegmentAt(segs[i].base) = i
  BY SegmentOfFiles, UsableFacts
<1>4. DOMAIN stores = DOMAIN indexes
  BY UsableFacts DEF TypeOK
<1> HIDE DEF n
<1> QED BY <1>1, <1>2, <1>3, <1>4

\* What a Close that finishes leaves of a log that was never killed is all that
\* was acknowledged and not truncated.
LEMMA CleanCloseClosed ==
  ASSUME Usable, LogInv, Kept, CleanClose
  PROVE  Closed'
<1>1. /\ DOMAIN stores' = DOMAIN stores /\ DOMAIN indexes' = DOMAIN stores
      /\ acked' = acked /\ keepFrom' = keepFrom
      /\ \A i \in segments : stores'[segs[i].base] = Content(i)
                          /\ indexes'[segs[i].base] = ClosedIndex(i)
  BY CleanCloseFiles
<1>2. Bases' = DOMAIN stores
  BY <1>1 DEF Bases
<1>3. \A b \in Bases' : \E i \in segments : segs[i].base = b
  BY <1>2 DEF LogInv, FilesMatch
<1>4. \A i \in segments : segs[i].base \in Bases'
  BY <1>2, UsableFacts
<1>5. ASSUME NEW i \in segments
      PROVE  /\ Len(Content(i)) = segs[i].indexSize /\ Content(i) \in Seq(Record)
             /\ segs[i].base \in Nat /\ segs[i].next \in Nat
             /\ segs[i].next = segs[i].base + Len(Content(i))
             /\ Len(ClosedIndex(i)) = segs[i].indexSize
             /\ \A k \in 1..segs[i].indexSize :
                  /\ Content(i)[k].offset = segs[i].base + (k - 1)
                  /\ Content(i)[k] \in acked
                  /\ ClosedIndex(i)[k] = [off |-> k - 1, pos |-> k - 1]
  <2> DEFINE s == segs[i]
             n == s.indexSize
             full == indexes[s.base]
  <2>1. /\ n \in Nat /\ n <= MaxIndexEnts /\ full \in [1..MaxIndexEnts -> Entry]
        /\ Content(i) \in Seq(Record) /\ s.base \in Nat /\ s.next \in Nat
    BY UsableFacts
  <2>2. /\ Len(Content(i)) = n /\ s.next = s.base + n
        /\ \A k \in 1..n : /\ Content(i)[k].offset = s.base + (k - 1)
                           /\ full[k] = [off |-> k - 1, pos |-> k - 1]
                           /\ Content(i)[k] \in acked
    BY DEF LogInv, SegmentOK, OnlyAcked
  <2>3. full \in Seq(Entry) /\ Len(full) = MaxIndexEnts
    <3> HIDE DEF full
    <3> QED BY <2>1, LimitsAssumption
  <2>4. Len(ClosedIndex(i)) = n /\ \A k \in 1..n : ClosedIndex(i)[k] = full[k]
    <3>1. ClosedIndex(i) = SubSeq(full, 1, n)
      BY DEF ClosedIndex
    <3> HIDE DEF full, n
    <3>2. Len(SubSeq(full, 1, n)) = n /\ \A k \in 1..n : SubSeq(full, 1, n)[k] = full[k]
      BY <2>1, <2>3
    <3> QED BY <3>1, <3>2
  <2> HIDE DEF n, full
  <2> QED BY <2>1, <2>2, <2>4 DEF n
<1>6. ASSUME NEW i \in segments, NEW j \in segments, segs[i].base < segs[j].base
      PROVE  /\ Len(Content(i)) > 0 /\ Len(Content(j)) > 0
             /\ segs[i].next <= segs[j].base /\ segs[i].next \in Bases'
  <2>1. i < j /\ i \in Nat /\ j \in Nat /\ active \in Nat /\ active \in segments
        /\ j <= active /\ i # active
    BY <1>6, BaseOrder, UsableFacts DEF Usable
  <2>2. segs[i].base < segs[i].next /\ segs[i].next <= segs[j].base
    BY <2>1 DEF LogInv, Order
  <2>3. segs[j].base < segs[j].next
    <3>1. CASE j = active
      BY <2>1, <3>1 DEF LogInv, Grown
    <3>2. CASE j # active
      <4>1. j < active
        BY <2>1, <3>2
      <4> QED BY <2>1, <4>1 DEF LogInv, Order
    <3> QED BY <3>1, <3>2
  <2>4. i + 1 \in segments /\ segs[i].next = segs[i + 1].base
    BY <2>1 DEF LogInv, Contiguous
  <2>5. segs[i].next \in Bases'
    BY <1>4, <2>4
  <2>6. \A k \in {i, j} : segs[k].base < segs[k].next => Len(Content(k)) > 0
    <3>1. ASSUME NEW k \in segments, segs[k].base < segs[k].next PROVE Len(Content(k)) > 0
      <4>1. PICK m \in Nat : m = Len(Content(k))
        BY <1>5, LenProperties
      <4>2. segs[k].base \in Nat /\ segs[k].next = segs[k].base + m
        BY <1>5, <4>1
      <4>3. m > 0
        BY <3>1, <4>2
      <4> QED BY <4>1, <4>3
    <3> QED BY <3>1
  <2> QED BY <2>2, <2>3, <2>5, <2>6
<1>7. ASSUME NEW b \in Bases' PROVE ClosedOK(b)'
  <2>1. PICK i \in segments : segs[i].base = b
    BY <1>3
  <2>2. stores'[b] = Content(i) /\ indexes'[b] = ClosedIndex(i)
    BY <1>1, <2>1
  <2> QED BY <1>1, <1>5, <2>1, <2>2 DEF ClosedOK
<1>8. \A b, c \in Bases' :
        b < c => stores'[b] # <<>> /\ stores'[c] # <<>> /\ b + Len(stores'[b]) <= c
                 /\ b + Len(stores'[b]) \in Bases'
  <2>1. ASSUME NEW b \in Bases', NEW c \in Bases', b < c
        PROVE  stores'[b] # <<>> /\ stores'[c] # <<>> /\ b + Len(stores'[b]) <= c
               /\ b + Len(stores'[b]) \in Bases'
    <3>1. PICK i \in segments, j \in segments : segs[i].base = b /\ segs[j].base = c
      BY <1>3
    <3>2. /\ Len(Content(i)) > 0 /\ Len(Content(j)) > 0
          /\ segs[i].next <= c /\ segs[i].next \in Bases'
      BY <1>6, <2>1, <3>1
    <3>3. stores'[b] = Content(i) /\ stores'[c] = Content(j) /\ segs[i].next = b + Len(Content(i))
      BY <1>1, <1>5, <3>1
    <3>4. Content(i) # <<>> /\ Content(j) # <<>>
      <4>1. \A q : q = <<>> => Len(q) = 0
        OBVIOUS
      <4> QED BY <3>2, <4>1
    <3> QED BY <3>2, <3>3, <3>4
  <2> QED BY <2>1
<1>9. ASSUME NEW r \in acked'
      PROVE  /\ \E b \in Bases' : r.offset < b + Len(stores'[b])
             /\ \A b \in Bases' : InStore(b, r.offset)' => stores'[b][r.offset - b + 1] = r
             /\ (\A b \in Bases' : ~InStore(b, r.offset)') => r.offset < keepFrom'
  <2>1. r \in acked
    BY <1>1
  <2>2. PICK off : off = r.offset
    OBVIOUS
  <2>3. ASSUME NEW i \in segments, NEW b, b = segs[i].base
        PROVE  InStore(b, off)' <=> i \in Holders(off)
    <3>1. InStore(b, off)' <=> b <= off /\ off < b + Len(stores'[b])
      BY DEF InStore
    <3>2. i \in Holders(off) <=> b <= off /\ off < segs[i].next
      BY <2>3 DEF Holders
    <3>3. segs[i].next = b + Len(stores'[b])
      BY <1>1, <1>5, <2>3
    <3> QED BY <3>1, <3>2, <3>3
  <2>4. \E b \in Bases' : off < b + Len(stores'[b])
    <3>1. active \in segments /\ off < segs[active].next
      BY <2>1, <2>2, UsableFacts DEF LogInv, AckedHeld
    <3>2. segs[active].next = segs[active].base + Len(stores'[segs[active].base])
      BY <1>1, <1>5, <3>1
    <3> QED BY <1>4, <3>1, <3>2
  <2>5. ASSUME NEW b \in Bases', InStore(b, off)'
        PROVE  stores'[b][off - b + 1] = r
    <3>1. PICK i \in segments : segs[i].base = b
      BY <1>3
    <3>2. i \in Holders(off)
      BY <2>3, <2>5, <3>1
    <3> QED BY <1>1, <2>1, <2>2, <3>1, <3>2 DEF LogInv, AckedHeld
  <2>6. ASSUME \A b \in Bases' : ~InStore(b, off)' PROVE off < keepFrom'
    <3>1. \A i \in segments : i \notin Holders(off)
      BY <1>4, <2>3, <2>6
    <3>2. Holders(off) = {}
      BY <3>1 DEF Holders
    <3> QED BY <1>1, <2>1, <2>2, <3>2 DEF Kept
  <2> QED BY <2>2, <2>4, <2>5, <2>6
<1>10. Bases' # {} /\ DOMAIN stores' = DOMAIN indexes'
  BY <1>1, <1>4, UsableFacts
<1> QED BY <1>7, <1>8, <1>9, <1>10 DEF Closed

(***************************************************************************)
(* The process comes back                                                  *)
(***************************************************************************)

\* setup opens every base offset that has a file, or the initial one.
LEMMA ToOpenFacts ==
  ASSUME FilesUsable
  PROVE  /\ ToOpen \in SUBSET Nat /\ IsFiniteSet(ToOpen) /\ ToOpen # {}
         /\ Cardinality(ToOpen) \in Nat /\ Cardinality(ToOpen) > 0
         /\ Bases \subseteq ToOpen
         /\ Bases # {} => ToOpen = Bases
         /\ \A a, b \in ToOpen : a \notin Bases => a = b
<1>1. CASE Bases = {}
  <2>1. ToOpen = {InitialOffset}
    BY <1>1 DEF ToOpen
  <2>2. IsFiniteSet(ToOpen) /\ Cardinality(ToOpen) = 1
    BY <2>1, FS_Singleton
  <2> QED BY <1>1, <2>1, <2>2, OffsetsAssumption
<1>2. CASE Bases # {}
  <2>1. \A b \in Bases : TimesOpened(b) = 1
    BY OpensEach DEF FilesUsable
  <2>2. ToOpen = Bases
    BY <1>2, <2>1 DEF ToOpen
  <2>3. Bases \in SUBSET Nat /\ IsFiniteSet(Bases)
    BY DEF FilesUsable, FileTypes
  <2>4. Cardinality(Bases) \in Nat /\ Cardinality(Bases) # 0
    BY <1>2, <2>3, FS_CardinalityType, FS_EmptySet
  <2> QED BY <1>2, <2>2, <2>3, <2>4
<1> QED BY <1>1, <1>2

\* The file of a base offset, there or not.
LEMMA FileFacts ==
  ASSUME FilesUsable, NEW b
  PROVE  /\ StoreFile(b) \in Seq(Record)
         /\ IndexFile(b) \in Seq(Entry) /\ Len(IndexFile(b)) <= MaxIndexEnts
         /\ b \notin Bases => StoreFile(b) = <<>> /\ IndexFile(b) = <<>>
<1>1. <<>> \in Seq(Record) /\ <<>> \in Seq(Entry) /\ Len(<<>>) <= MaxIndexEnts
  BY LimitsAssumption
<1> QED BY <1>1 DEF FilesUsable, FileTypes, StoreFile, IndexFile, Bases

\* A setup that is killed leaves the files it found, and some more.
LEMMA KillInOpenUsable ==
  ASSUME FilesUsable, NEW n \in Nat, KillInOpen(n)
  PROVE  FilesUsable'
<1> DEFINE S == {b \in ToOpen : 3 * Rank(ToOpen, b) + 1 <= n}
           I == {b \in ToOpen : 3 * Rank(ToOpen, b) + 2 <= n}
<1>1. /\ pending' = pending
      /\ stores' = [c \in DOMAIN stores \cup S |-> StoreFile(c)]
      /\ indexes' = [c \in DOMAIN indexes \cup I |->
                       IF c \in ToOpen /\ 3 * Rank(ToOpen, c) + 3 <= n
                       THEN Padded(IndexFile(c)) ELSE IndexFile(c)]
  BY DEF KillInOpen, OpenedStores, OpenedIndexes
<1>2. S \subseteq ToOpen /\ I \subseteq ToOpen
  OBVIOUS
<1> HIDE DEF S, I
<1>3. Bases \subseteq Bases' /\ Bases' \subseteq ToOpen
  BY <1>1, <1>2, ToOpenFacts DEF Bases
<1>4. \A b \in DOMAIN stores' : stores'[b] = StoreFile(b)
  BY <1>1
<1>5. \A b \in DOMAIN indexes' : indexes'[b] \in {IndexFile(b), Padded(IndexFile(b))}
  BY <1>1
<1>6. ASSUME NEW b
      PROVE  StoreFile(b)' = StoreFile(b) /\ IndexFile(b)' \in {IndexFile(b), Padded(IndexFile(b))}
  <2>1. StoreFile(b)' = StoreFile(b)
    <3>1. CASE b \in DOMAIN stores'
      BY <1>4, <3>1 DEF StoreFile
    <3>2. CASE b \notin DOMAIN stores'
      <4>1. b \notin DOMAIN stores
        BY <1>1, <3>2
      <4> QED BY <3>2, <4>1 DEF StoreFile
    <3> QED BY <3>1, <3>2
  <2>2. IndexFile(b)' \in {IndexFile(b), Padded(IndexFile(b))}
    <3>1. CASE b \in DOMAIN indexes'
      <4>1. IndexFile(b)' = indexes'[b]
        BY <3>1 DEF IndexFile
      <4> QED BY <1>5, <3>1, <4>1
    <3>2. CASE b \notin DOMAIN indexes'
      <4>1. b \notin DOMAIN indexes
        BY <1>1, <3>2
      <4> QED BY <3>2, <4>1 DEF IndexFile
    <3> QED BY <3>1, <3>2
  <2> QED BY <2>1, <2>2
<1>7. ASSUME NEW b
      PROVE  /\ Padded(IndexFile(b)) \in Seq(Entry) /\ Len(Padded(IndexFile(b))) <= MaxIndexEnts
             /\ Padded(IndexFile(b)) # <<>>
             /\ LastOff(IndexFile(b)) \in Nat
             /\ LastOff(Padded(IndexFile(b))) \in {0, LastOff(IndexFile(b))}
  <2>1. IndexFile(b) \in Seq(Entry) /\ Len(IndexFile(b)) <= MaxIndexEnts
    BY FileFacts
  <2>2. Len(Padded(IndexFile(b))) = MaxIndexEnts
    BY <2>1, PaddedFacts
  <2> QED BY <2>1, <2>2, PaddedFacts, LimitsAssumption
<1>8. FileTypes'
  <2>1. Bases' \in SUBSET Nat /\ IsFiniteSet(Bases')
    BY <1>3, ToOpenFacts, FS_Subset
  <2> QED BY <2>1, <1>4, <1>5, <1>7, FileFacts DEF FileTypes
<1>9. \A a, b \in Unpaired' : a = b
  <2>1. ASSUME NEW a \in Unpaired', NEW b \in Unpaired' PROVE a = b
    <3>1. a \in Bases' /\ b \in Bases'
      BY DEF Unpaired
    <3>2. CASE Bases = {}
      <4>1. a \in ToOpen /\ b \in ToOpen /\ a \notin Bases
        BY <1>3, <3>1, <3>2
      <4> QED BY <4>1, ToOpenFacts
    <3>3. CASE Bases # {}
      <4>1. a \in Bases /\ b \in Bases
        BY <1>3, <3>1, <3>3, ToOpenFacts
      <4>2. a \in Unpaired /\ b \in Unpaired
        BY <1>1, <4>1 DEF Unpaired
      <4> QED BY <4>2 DEF FilesUsable
    <3> QED BY <3>2, <3>3
  <2> QED BY <2>1
<1>10. ASSUME NEW b \in Bases', NEW c \in Bases', b < c
       PROVE  b + LastOff(IndexFile(b)') + 1 <= c
  <2>1. b \in Nat /\ c \in Nat /\ b \in Bases /\ c \in Bases
    <3>1. b \in ToOpen /\ c \in ToOpen /\ b \in Nat /\ c \in Nat
      BY <1>3, ToOpenFacts
    <3>2. b # c
      BY <1>10, <3>1
    <3> QED BY <3>1, <3>2, ToOpenFacts
  <2>2. PICK o \in Nat : o = LastOff(IndexFile(b))
    BY <1>7
  <2>3. b + o + 1 <= c
    BY <1>10, <2>1, <2>2 DEF FilesUsable
  <2>4. LastOff(IndexFile(b)') \in {0, o}
    BY <1>6, <1>7, <2>2
  <2> QED BY <2>1, <2>3, <2>4
<1>11. ASSUME NEW b \in Bases', \A c \in Bases' : c <= b, IndexFile(b)' = <<>>
       PROVE  StoreFile(b)' = <<>>
  <2>1. IndexFile(b) = <<>>
    BY <1>6, <1>7, <1>11
  <2>2. CASE b \in Bases
    <3>1. \A c \in Bases : c <= b
      BY <1>3, <1>11
    <3> QED BY <1>6, <2>1, <2>2, <3>1 DEF FilesUsable
  <2>3. CASE b \notin Bases
    BY <1>6, <2>3, FileFacts
  <2> QED BY <2>2, <2>3
<1>12. pending' = {}
  BY <1>1 DEF FilesUsable
<1> QED BY <1>8, <1>9, <1>10, <1>11, <1>12 DEF FilesUsable

\* The segments after setup, in the order of their base offsets.
LEMMA OpenShape ==
  ASSUME FilesUsable, Open
  PROVE  \E c \in Nat :
           /\ segments' = 0..c /\ active' = c
           /\ DOMAIN segs' = 0..c
           /\ \A i \in 0..c : \E b \in ToOpen :
                /\ segs'[i] = OpenSegment(b) /\ segs'[i].base = b /\ Rank(ToOpen, b) = i
           /\ \A b \in ToOpen : Rank(ToOpen, b) \in 0..c /\ segs'[Rank(ToOpen, b)].base = b
           /\ \A i, j \in 0..c : i < j <=> segs'[i].base < segs'[j].base
           /\ DOMAIN stores' = ToOpen /\ DOMAIN indexes' = ToOpen
           /\ \A b \in ToOpen : stores'[b] = StoreFile(b) /\ indexes'[b] = Padded(IndexFile(b))
<1> DEFINE T == ToOpen
           C == Cardinality(T)
<1>1. /\ T \in SUBSET Nat /\ IsFiniteSet(T) /\ C \in Nat /\ C > 0 /\ Bases \subseteq T
  BY ToOpenFacts
<1>2. /\ segments' = 0..(C - 1) /\ active' = C - 1
      /\ segs' = [i \in 0..(C - 1) |-> OpenSegment(Ranked(T, i))]
      /\ stores' = [c \in DOMAIN stores \cup {b \in T : 3 * Rank(T, b) + 1 <= 3 * C} |-> StoreFile(c)]
      /\ indexes' = [c \in DOMAIN indexes \cup {b \in T : 3 * Rank(T, b) + 2 <= 3 * C} |->
                       IF c \in T /\ 3 * Rank(T, c) + 3 <= 3 * C
                       THEN Padded(IndexFile(c)) ELSE IndexFile(c)]
  BY DEF Open, OpenedStores, OpenedIndexes
<1> HIDE DEF T
<1>3. \A b \in T : Rank(T, b) \in 0..(C - 1)
  BY <1>1, RankFacts
<1>4. /\ \A n \in 0..(C - 1) : Ranked(T, n) \in T /\ Rank(T, Ranked(T, n)) = n
      /\ \A x \in T : Ranked(T, Rank(T, x)) = x
      /\ \A m, n \in 0..(C - 1) : m < n => Ranked(T, m) < Ranked(T, n)
  BY <1>1, RankedFacts
<1>5. \A b \in T : /\ 3 * Rank(T, b) + 1 <= 3 * C /\ 3 * Rank(T, b) + 2 <= 3 * C
                   /\ 3 * Rank(T, b) + 3 <= 3 * C
  <2>1. ASSUME NEW k \in 0..(C - 1)
        PROVE  3 * k + 1 <= 3 * C /\ 3 * k + 2 <= 3 * C /\ 3 * k + 3 <= 3 * C
    <3>1. k + 1 <= C
      BY <1>1
    <3> HIDE DEF C
    <3> QED BY <1>1, <3>1
  <2> QED BY <1>3, <2>1
<1>6. /\ DOMAIN stores' = T /\ DOMAIN indexes' = T
      /\ \A b \in T : stores'[b] = StoreFile(b) /\ indexes'[b] = Padded(IndexFile(b))
  <2>1. {b \in T : 3 * Rank(T, b) + 1 <= 3 * C} = T /\ {b \in T : 3 * Rank(T, b) + 2 <= 3 * C} = T
    BY <1>5
  <2>2. DOMAIN stores \cup T = T /\ DOMAIN indexes \cup T = T
    BY <1>1 DEF Bases
  <2>3. stores' = [c \in T |-> StoreFile(c)]
    BY <1>2, <2>1, <2>2
  <2>4. indexes' = [c \in T |-> IF c \in T /\ 3 * Rank(T, c) + 3 <= 3 * C
                                THEN Padded(IndexFile(c)) ELSE IndexFile(c)]
    BY <1>2, <2>1, <2>2
  <2> HIDE DEF C
  <2> QED BY <1>5, <2>3, <2>4
<1>7. \A i \in 0..(C - 1) : segs'[i] = OpenSegment(Ranked(T, i)) /\ segs'[i].base = Ranked(T, i)
  BY <1>2 DEF OpenSegment
<1>8. PICK c \in Nat : c = C - 1
  BY <1>1
<1> HIDE DEF C
<1>9. \A i \in 0..c : \E b \in T :
        segs'[i] = OpenSegment(b) /\ segs'[i].base = b /\ Rank(T, b) = i
  BY <1>4, <1>7, <1>8
<1>10. \A b \in T : Rank(T, b) \in 0..c /\ segs'[Rank(T, b)].base = b
  BY <1>3, <1>4, <1>7, <1>8
<1>11. ASSUME NEW i \in 0..c, NEW j \in 0..c
       PROVE  i < j <=> segs'[i].base < segs'[j].base
  <2>1. PICK x \in T, y \in T : x = Ranked(T, i) /\ y = Ranked(T, j)
    BY <1>4, <1>8
  <2>2. (i < j => x < y) /\ (j < i => y < x) /\ (i = j => x = y)
    BY <1>4, <1>8, <2>1
  <2>3. x < y <=> i < j
    BY <1>1, <2>2
  <2> QED BY <1>7, <1>8, <2>1, <2>3
<1>12. segments' = 0..c /\ active' = c /\ DOMAIN segs' = 0..c
  BY <1>2, <1>8
<1> QED BY <1>6, <1>9, <1>10, <1>11, <1>12 DEF T

\* What newSegment makes of the files it finds.
LEMMA OpenSegmentFacts ==
  ASSUME FilesUsable, NEW b \in Nat
  PROVE  LET s == OpenSegment(b)
         IN  /\ s \in Segment /\ s.base = b /\ s.buf = <<>>
             /\ s.storeSize = Len(StoreFile(b)) /\ s.indexSize = Len(IndexFile(b))
             /\ s.next = IF IndexFile(b) = <<>> THEN b ELSE b + LastOff(IndexFile(b)) + 1
             /\ s.next \in Nat /\ s.indexSize \in Nat /\ LastOff(IndexFile(b)) \in Nat
<1> DEFINE s == OpenSegment(b)
           e == IndexFile(b)
           n == Len(e)
<1>1. e \in Seq(Entry) /\ StoreFile(b) \in Seq(Record) /\ n <= MaxIndexEnts
  BY FileFacts
<1>2. LastOff(e) \in Nat
  BY <1>1, PaddedFacts
<1>3. /\ s.base = b /\ s.buf = <<>> /\ s.storeSize = Len(StoreFile(b)) /\ s.indexSize = n
      /\ s.next = IF n = 0 THEN b ELSE b + e[n].off + 1
      /\ s = [base |-> s.base, next |-> s.next, buf |-> s.buf,
              storeSize |-> s.storeSize, indexSize |-> s.indexSize]
  BY DEF OpenSegment
<1>4. n = 0 <=> e = <<>>
  BY <1>1, EmptySeq
<1>5. s.next = IF e = <<>> THEN b ELSE b + LastOff(e) + 1
  BY <1>3, <1>4 DEF LastOff
<1>6. s.next \in Nat /\ n \in Nat /\ Len(StoreFile(b)) \in Nat /\ <<>> \in Seq(Record)
  BY <1>1, <1>2, <1>5, LenProperties
<1> HIDE DEF s, e
<1>7. s \in Segment
  BY <1>3, <1>6 DEF Segment
<1> QED BY <1>2, <1>3, <1>5, <1>6, <1>7 DEF s, e

\* However the process ended, the log that comes back can be used.
LEMMA OpenUsable ==
  ASSUME FilesUsable, Open,
         panicked \in BOOLEAN, acked \in SUBSET Record, keepFrom \in Nat
  PROVE  Usable'
<1>1. PICK c \in Nat :
        /\ segments' = 0..c /\ active' = c
        /\ DOMAIN segs' = 0..c
        /\ \A i \in 0..c : \E b \in ToOpen :
             /\ segs'[i] = OpenSegment(b) /\ segs'[i].base = b /\ Rank(ToOpen, b) = i
        /\ \A b \in ToOpen : Rank(ToOpen, b) \in 0..c /\ segs'[Rank(ToOpen, b)].base = b
        /\ \A i, j \in 0..c : i < j <=> segs'[i].base < segs'[j].base
        /\ DOMAIN stores' = ToOpen /\ DOMAIN indexes' = ToOpen
        /\ \A b \in ToOpen : stores'[b] = StoreFile(b) /\ indexes'[b] = Padded(IndexFile(b))
  BY OpenShape
<1>2. ToOpen \in SUBSET Nat /\ \A a, b \in ToOpen : a \notin Bases => a = b
  BY ToOpenFacts
<1>3. /\ UNCHANGED <<panicked, acked, keepFrom>> /\ pending' = {}
  BY DEF Open, FilesUsable
<1>4. ASSUME NEW i \in 0..c
      PROVE  \E b \in ToOpen :
               /\ segs'[i] \in Segment /\ segs'[i].base = b /\ segs'[i].buf = <<>> /\ b \in Nat
               /\ segs'[i].storeSize = Len(StoreFile(b))
               /\ segs'[i].indexSize = Len(IndexFile(b))
               /\ segs'[i].next = IF IndexFile(b) = <<>> THEN b ELSE b + LastOff(IndexFile(b)) + 1
               /\ segs'[i].next \in Nat /\ LastOff(IndexFile(b)) \in Nat
               /\ IndexFile(b) \in Seq(Entry) /\ Len(IndexFile(b)) <= MaxIndexEnts
               /\ StoreFile(b) \in Seq(Record)
               /\ stores'[b] = StoreFile(b) /\ indexes'[b] = Padded(IndexFile(b))
  <2>1. PICK b \in ToOpen : segs'[i] = OpenSegment(b) /\ segs'[i].base = b
    BY <1>1
  <2>2. b \in Nat
    BY <1>2
  <2>3. /\ segs'[i] \in Segment /\ segs'[i].buf = <<>>
        /\ segs'[i].storeSize = Len(StoreFile(b))
        /\ segs'[i].indexSize = Len(IndexFile(b))
        /\ segs'[i].next = IF IndexFile(b) = <<>> THEN b ELSE b + LastOff(IndexFile(b)) + 1
        /\ segs'[i].next \in Nat /\ LastOff(IndexFile(b)) \in Nat
    BY <2>1, <2>2, OpenSegmentFacts
  <2>4. /\ IndexFile(b) \in Seq(Entry) /\ Len(IndexFile(b)) <= MaxIndexEnts
        /\ StoreFile(b) \in Seq(Record)
    BY FileFacts
  <2>5. stores'[b] = StoreFile(b) /\ indexes'[b] = Padded(IndexFile(b))
    BY <1>1
  <2> QED BY <2>1, <2>2, <2>3, <2>4, <2>5
<1>5. TypeOK'
  <2>1. segs' \in [segments' \cup {active'} -> Segment]
    <3>1. \A i \in 0..c : segs'[i] \in Segment
      BY <1>4
    <3>2. segments' \cup {active'} = 0..c
      BY <1>1
    <3>3. segs' = [i \in 0..c |-> segs'[i]]
      <4>1. segs' = [i \in 0..(Cardinality(ToOpen) - 1) |-> OpenSegment(Ranked(ToOpen, i))]
        BY DEF Open
      <4>2. 0..(Cardinality(ToOpen) - 1) = 0..c
        BY <1>1, <4>1
      <4> QED BY <4>1, <4>2
    <3> QED BY <3>1, <3>2, <3>3
  <2>2. \A b \in ToOpen : stores'[b] \in Seq(Record)
    BY <1>1, FileFacts
  <2>3. ASSUME NEW b \in ToOpen PROVE indexes'[b] \in [1..MaxIndexEnts -> Entry]
    <3>1. IndexFile(b) \in Seq(Entry) /\ Len(IndexFile(b)) <= MaxIndexEnts
      BY FileFacts
    <3>2. Padded(IndexFile(b)) \in [1..MaxIndexEnts -> Entry]
      BY <3>1, PaddedFacts
    <3> QED BY <1>1, <3>2
  <2>4. ASSUME NEW i \in 0..c
        PROVE  /\ segs'[i].base \in ToOpen
               /\ Len(segs'[i].buf) <= BufRecs /\ segs'[i].indexSize <= MaxIndexEnts
    <3>1. Len(<<>>) <= BufRecs
      BY LimitsAssumption
    <3> QED BY <1>4, <3>1
  <2>5. segments' \in SUBSET Nat /\ active' \in Nat
    BY <1>1
  <2>6. /\ DOMAIN stores' = ToOpen /\ DOMAIN indexes' = ToOpen /\ DOMAIN segs' = 0..c
        /\ segments' = 0..c
    BY <1>1
  <2>7. pending' \in SUBSET [writer : Writers, high : Nat]
    BY <1>3
  <2>8. panicked' \in BOOLEAN /\ acked' \in SUBSET Record /\ keepFrom' \in Nat
    BY <1>3
  <2> QED BY <1>2, <2>1, <2>2, <2>3, <2>4, <2>5, <2>6, <2>7, <2>8 DEF TypeOK
<1>6. active' \in segments' /\ \A i \in segments' : i <= active'
  BY <1>1
<1>7. ASSUME NEW i \in 0..c, NEW j \in 0..c, i < j
      PROVE  segs'[i].base < segs'[j].base /\ segs'[i].next <= segs'[j].base
  <2>1. PICK b \in ToOpen :
          /\ segs'[i].base = b /\ b \in Nat
          /\ segs'[i].next = IF IndexFile(b) = <<>> THEN b ELSE b + LastOff(IndexFile(b)) + 1
    BY <1>4
  <2>2. PICK d \in ToOpen : segs'[j].base = d /\ d \in Nat
    BY <1>4
  <2>3. b < d
    BY <1>1, <1>7, <2>1, <2>2
  <2>4. b \in Bases /\ d \in Bases
    <3>1. b # d
      BY <2>1, <2>3
    <3> QED BY <1>2, <3>1
  <2>5. b + LastOff(IndexFile(b)) + 1 <= d
    BY <2>3, <2>4 DEF FilesUsable
  <2> QED BY <2>1, <2>2, <2>3, <2>5
<1>8. FilesMatch'
  <2>1. \A b \in ToOpen : \E i \in 0..c : segs'[i].base = b
    BY <1>1
  <2>2. \A i \in 0..c : segs'[i].base \in ToOpen
    BY <1>4
  <2>3. ToOpen = {segs'[i].base : i \in 0..c}
    BY <2>1, <2>2
  <2> QED BY <1>1, <2>3 DEF FilesMatch
<1>9. HighKnown'
  BY <1>3 DEF HighKnown
<1>10. EmptyActive'
  <2>1. PICK b \in ToOpen :
          /\ segs'[c].base = b /\ segs'[c].buf = <<>> /\ b \in Nat
          /\ segs'[c].storeSize = Len(StoreFile(b))
          /\ segs'[c].indexSize = Len(IndexFile(b))
          /\ IndexFile(b) \in Seq(Entry) /\ stores'[b] = StoreFile(b)
    <3>1. c \in 0..c
      OBVIOUS
    <3> QED BY <1>4, <3>1
  <2>2. SUFFICES ASSUME segs'[c].indexSize = 0
                 PROVE  segs'[c].storeSize = 0 /\ stores'[b] \o segs'[c].buf = <<>>
    BY <1>1, <2>1 DEF EmptyActive, Content
  <2>3. IndexFile(b) = <<>>
    BY <2>1, <2>2, EmptySeq
  <2>4. StoreFile(b) = <<>>
    <3>1. CASE b \notin Bases
      BY <3>1, FileFacts
    <3>2. CASE b \in Bases
      <4>1. ASSUME NEW d \in Bases PROVE d <= b
        <5>1. d \in ToOpen /\ d \in Nat
          BY <1>2, ToOpenFacts
        <5>2. PICK k \in 0..c : segs'[k].base = d
          BY <1>1, <5>1
        <5>3. ~(c < k) /\ c \in 0..c
          OBVIOUS
        <5>4. ~(b < d)
          BY <1>1, <2>1, <5>2, <5>3
        <5> QED BY <2>1, <5>1, <5>4
      <4> QED BY <2>3, <3>2, <4>1 DEF FilesUsable
    <3> QED BY <3>1, <3>2
  <2>5. <<>> \o <<>> = <<>> /\ Len(<<>>) = 0
    OBVIOUS
  <2> QED BY <2>1, <2>4, <2>5
<1>11. ASSUME NEW i \in segments' PROVE EntriesWithin(i)'
  <2>1. PICK b \in ToOpen :
          /\ segs'[i].base = b /\ b \in Nat
          /\ segs'[i].indexSize = Len(IndexFile(b))
          /\ segs'[i].next = IF IndexFile(b) = <<>> THEN b ELSE b + LastOff(IndexFile(b)) + 1
          /\ LastOff(IndexFile(b)) \in Nat
          /\ IndexFile(b) \in Seq(Entry) /\ Len(IndexFile(b)) <= MaxIndexEnts
          /\ indexes'[b] = Padded(IndexFile(b))
    BY <1>1, <1>4
  <2>2. PICK e \in Seq(Entry) : e = IndexFile(b) /\ Len(e) \in Nat /\ LastOff(e) \in Nat
    BY <2>1, LenProperties
  <2>3. PICK n \in Nat, o \in Nat : n = Len(e) /\ o = LastOff(e)
    BY <2>2
  <2>4. n = 0 <=> e = <<>>
    BY <2>1, <2>2, <2>3, EmptySeq
  <2>5. segs'[i].next = IF n = 0 THEN b ELSE b + o + 1
    BY <2>1, <2>2, <2>3, <2>4
  <2>6. ASSUME NEW k \in {n, MaxIndexEnts} \ {0}
        PROVE  Padded(e)[k].off = 0 \/ b + Padded(e)[k].off < segs'[i].next
    <3>1. Padded(e)[MaxIndexEnts].off \in {0, o} /\ \A m \in 1..n : Padded(e)[m] = e[m]
      BY <2>1, <2>2, <2>3, PaddedFacts
    <3>2. CASE k = n
      <4>1. n \in 1..n /\ n # 0
        BY <2>2, <2>3, <3>2
      <4>2. Padded(e)[n] = e[n] /\ o = e[n].off
        BY <2>2, <2>3, <2>4, <3>1, <4>1 DEF LastOff
      <4>3. Padded(e)[n].off = o
        BY <4>2
      <4>4. b + o < segs'[i].next
        BY <2>1, <2>5, <4>1
      <4> QED BY <3>2, <4>3, <4>4
    <3>3. CASE k = MaxIndexEnts
      <4>1. CASE n = 0
        <5>1. o = 0
          BY <2>2, <2>3, <2>4, <4>1 DEF LastOff
        <5> QED BY <3>1, <3>3, <5>1
      <4>2. CASE n # 0
        <5>1. b + o < segs'[i].next
          BY <2>1, <2>5, <4>2
        <5> QED BY <3>1, <3>3, <5>1
      <4> QED BY <4>1, <4>2
    <3> QED BY <3>2, <3>3
  <2>7. b <= segs'[i].next /\ (n > 0 => b < segs'[i].next)
    BY <2>1, <2>5
  <2> QED BY <2>1, <2>2, <2>3, <2>6, <2>7 DEF EntriesWithin
<1> QED BY <1>1, <1>5, <1>6, <1>7, <1>8, <1>9, <1>10, <1>11 DEF Usable

\* The log that comes back after a Close that finished is the one that went.
LEMMA OpenLogInv ==
  ASSUME FilesUsable, Closed, OffsetsUnique, Open,
         panicked \in BOOLEAN, acked \in SUBSET Record, keepFrom \in Nat
  PROVE  LogInv' /\ Kept'
<1>1. PICK c \in Nat :
        /\ segments' = 0..c /\ active' = c
        /\ DOMAIN segs' = 0..c
        /\ \A i \in 0..c : \E b \in ToOpen :
             /\ segs'[i] = OpenSegment(b) /\ segs'[i].base = b /\ Rank(ToOpen, b) = i
        /\ \A b \in ToOpen : Rank(ToOpen, b) \in 0..c /\ segs'[Rank(ToOpen, b)].base = b
        /\ \A i, j \in 0..c : i < j <=> segs'[i].base < segs'[j].base
        /\ DOMAIN stores' = ToOpen /\ DOMAIN indexes' = ToOpen
        /\ \A b \in ToOpen : stores'[b] = StoreFile(b) /\ indexes'[b] = Padded(IndexFile(b))
  BY OpenShape
<1>2. ToOpen = Bases /\ Bases \in SUBSET Nat /\ Bases = DOMAIN stores /\ Bases = DOMAIN indexes
  BY ToOpenFacts DEF Closed, Bases
<1>3. \A b \in Bases : StoreFile(b) = stores[b] /\ IndexFile(b) = indexes[b]
  BY <1>2 DEF StoreFile, IndexFile
<1>4. UNCHANGED <<panicked, acked, keepFrom>>
  BY DEF Open
<1>5. Usable'
  BY OpenUsable
<1>6. ASSUME NEW i \in 0..c
      PROVE  \E b \in Bases :
               /\ segs'[i].base = b /\ b \in Nat /\ segs'[i].buf = <<>>
               /\ segs'[i].storeSize = Len(stores[b]) /\ segs'[i].indexSize = Len(stores[b])
               /\ segs'[i].next = b + Len(stores[b]) /\ Len(stores[b]) \in Nat
               /\ Content(i)' = stores[b]
               /\ \A k \in 1..Len(stores[b]) :
                    indexes'[b][k] = [off |-> k - 1, pos |-> k - 1]
  <2>1. PICK b \in Bases : segs'[i] = OpenSegment(b) /\ segs'[i].base = b
    BY <1>1, <1>2
  <2>2. b \in Nat /\ ClosedOK(b)
    BY <1>2 DEF Closed
  <2>3. /\ stores[b] \in Seq(Record)
        /\ indexes[b] \in Seq(Entry) /\ Len(indexes[b]) <= MaxIndexEnts
    BY <1>3, FileFacts
  <2>4. PICK n \in Nat : n = Len(stores[b]) /\ n = Len(indexes[b])
    BY <2>2, <2>3, LenProperties DEF ClosedOK
  <2>5. /\ segs'[i].buf = <<>> /\ segs'[i].storeSize = n /\ segs'[i].indexSize = n
        /\ segs'[i].next = IF indexes[b] = <<>> THEN b ELSE b + LastOff(indexes[b]) + 1
    <3>1. /\ segs'[i].buf = <<>>
          /\ segs'[i].storeSize = Len(StoreFile(b)) /\ segs'[i].indexSize = Len(IndexFile(b))
          /\ segs'[i].next = IF IndexFile(b) = <<>> THEN b ELSE b + LastOff(IndexFile(b)) + 1
      BY <2>1, <2>2, OpenSegmentFacts
    <3> QED BY <1>3, <2>4, <3>1
  <2>6. segs'[i].next = b + n
    <3>1. CASE n = 0
      <4>1. indexes[b] = <<>>
        BY <2>3, <2>4, <3>1, EmptySeq
      <4> QED BY <2>2, <2>5, <3>1, <4>1
    <3>2. CASE n # 0
      <4>1. indexes[b] # <<>>
        BY <2>3, <2>4, <3>2, EmptySeq
      <4>2. indexes[b][n] = [off |-> n - 1, pos |-> n - 1]
        BY <2>2, <2>4, <3>2 DEF ClosedOK
      <4>3. LastOff(indexes[b]) = n - 1
        BY <2>4, <4>1, <4>2 DEF LastOff
      <4> QED BY <2>2, <2>5, <4>1, <4>3
    <3> QED BY <3>1, <3>2
  <2>7. Content(i)' = stores[b]
    <3>1. Content(i)' = stores'[b] \o <<>>
      BY <2>1, <2>5 DEF Content
    <3>2. stores'[b] = stores[b]
      BY <1>1, <1>2, <1>3
    <3> QED BY <2>3, <3>1, <3>2, ConcatEmptySeq
  <2>8. ASSUME NEW k \in 1..n PROVE indexes'[b][k] = [off |-> k - 1, pos |-> k - 1]
    <3>1. indexes'[b] = Padded(indexes[b])
      BY <1>1, <1>2, <1>3
    <3>2. Padded(indexes[b])[k] = indexes[b][k]
      BY <2>3, <2>4, PaddedFacts
    <3> QED BY <2>2, <2>4, <3>1, <3>2 DEF ClosedOK
  <2> QED BY <2>1, <2>2, <2>4, <2>5, <2>6, <2>7, <2>8
<1>6a. ASSUME NEW i \in 0..c PROVE segs'[i].base \in Nat /\ segs'[i].next \in Nat
  <2>1. PICK b \in Nat : segs'[i].base = b /\ segs'[i].next = b + Len(stores[b])
                         /\ Len(stores[b]) \in Nat
    BY <1>6
  <2> QED BY <2>1
<1>7. ASSUME NEW b \in Bases
      PROVE  \E i \in 0..c : segs'[i].base = b
  BY <1>1, <1>2
<1>8. /\ \A b \in Bases : ClosedOK(b)
      /\ \A b, d \in Bases :
           b < d => stores[b] # <<>> /\ stores[d] # <<>> /\ b + Len(stores[b]) <= d
                    /\ b + Len(stores[b]) \in Bases
  BY DEF Closed
<1>9. \A b \in Bases : stores[b] # <<>> => Len(stores[b]) > 0
  <2>1. ASSUME NEW b \in Bases, stores[b] # <<>> PROVE Len(stores[b]) > 0
    <3>1. stores[b] \in Seq(Record)
      BY <1>3, FileFacts
    <3>2. Len(stores[b]) \in Nat /\ Len(stores[b]) # 0
      BY <2>1, <3>1, LenProperties, EmptySeq
    <3> QED BY <3>2
  <2> QED BY <2>1
<1>10. \A i \in segments' : SegmentOK(i)'
  <2>1. ASSUME NEW i \in 0..c PROVE SegmentOK(i)'
    <3>1. PICK b \in Bases :
            /\ segs'[i].base = b /\ b \in Nat
            /\ segs'[i].storeSize = Len(stores[b]) /\ segs'[i].indexSize = Len(stores[b])
            /\ segs'[i].next = b + Len(stores[b])
            /\ Content(i)' = stores[b]
            /\ \A k \in 1..Len(stores[b]) :
                 indexes'[b][k] = [off |-> k - 1, pos |-> k - 1]
      BY <1>6
    <3>2. \A k \in 1..Len(stores[b]) : stores[b][k].offset = b + (k - 1)
      BY <1>8 DEF ClosedOK
    <3> QED BY <3>1, <3>2 DEF SegmentOK
  <2> QED BY <1>1, <2>1
<1>11. ASSUME NEW i \in 0..c, NEW j \in 0..c, i < j
       PROVE  /\ segs'[i].base < segs'[i].next /\ segs'[i].next <= segs'[j].base
              /\ segs'[j].base < segs'[j].next /\ segs'[i].next \in Bases
  <2>1. PICK b \in Bases : /\ segs'[i].base = b /\ b \in Nat /\ Len(stores[b]) \in Nat
                           /\ segs'[i].next = b + Len(stores[b])
    BY <1>6
  <2>2. PICK d \in Bases : /\ segs'[j].base = d /\ d \in Nat /\ Len(stores[d]) \in Nat
                           /\ segs'[j].next = d + Len(stores[d])
    BY <1>6
  <2>3. b < d
    BY <1>1, <1>11, <2>1, <2>2
  <2>4. /\ Len(stores[b]) > 0 /\ Len(stores[d]) > 0 /\ b + Len(stores[b]) <= d
        /\ b + Len(stores[b]) \in Bases
    BY <1>8, <1>9, <2>3
  <2> QED BY <2>1, <2>2, <2>4
<1>12. ActiveOK'
  <2>1. c \in segments'
    BY <1>1
  <2> QED BY <1>1, <1>10, <2>1 DEF SegmentOK, ActiveOK
<1>13. Order' /\ Grown'
  <2>1. ASSUME NEW i \in 0..c, i # c PROVE segs'[c].base < segs'[c].next
    <3>1. c \in 0..c /\ i < c
      BY <2>1
    <3> QED BY <1>11, <3>1
  <2>2. Order'
    BY <1>1, <1>11 DEF Order
  <2> QED BY <1>1, <2>1, <2>2 DEF Grown
<1>14. Contiguous'
  <2>1. SUFFICES ASSUME NEW i \in 0..c, i # c
                 PROVE  i + 1 \in 0..c /\ segs'[i].next = segs'[i + 1].base
    BY <1>1 DEF Contiguous
  <2>2. i + 1 \in 0..c /\ i < i + 1
    BY <2>1
  <2>3. PICK j \in 0..c : j = i + 1
    BY <2>2
  <2>4. /\ segs'[i].base < segs'[i].next /\ segs'[i].next <= segs'[j].base
        /\ segs'[i].next \in Bases
    BY <1>11, <2>2, <2>3
  <2>5. PICK k \in 0..c : segs'[k].base = segs'[i].next
    BY <1>7, <2>4
  <2>6. i < k
    BY <1>1, <2>4, <2>5
  <2>7. segs'[j].base \in Nat /\ segs'[k].base \in Nat /\ segs'[i].next \in Nat
    BY <1>2, <1>6, <2>4
  <2>8. ~(segs'[k].base < segs'[j].base)
    <3>1. ~(k < j)
      BY <2>3, <2>6
    <3> QED BY <1>1, <3>1
  <2>9. segs'[i].next = segs'[j].base
    BY <2>4, <2>5, <2>7, <2>8
  <2> QED BY <2>2, <2>3, <2>9
<1>15. ASSUME NEW off \in Nat, NEW i \in Holders(off)'
       PROVE  \E b \in Bases : segs'[i].base = b /\ Content(i)' = stores[b] /\ InStore(b, off)
  <2>1. i \in 0..c /\ segs'[i].base <= off /\ off < segs'[i].next
    BY <1>1 DEF Holders
  <2> QED BY <1>6, <2>1 DEF InStore
<1>16. ASSUME NEW r \in acked
       PROVE  /\ r.offset < segs'[c].next
              /\ \A i \in Holders(r.offset)' : (Content(i)')[r.offset - segs'[i].base + 1] = r
              /\ Holders(r.offset)' = {} => r.offset < keepFrom
  <2>1. PICK off \in Nat : off = r.offset
    BY DEF Record
  <2>2. /\ \E b \in Bases : off < b + Len(stores[b])
        /\ \A b \in Bases : InStore(b, off) => stores[b][off - b + 1] = r
        /\ (\A b \in Bases : ~InStore(b, off)) => off < keepFrom
    BY <2>1 DEF Closed
  <2>3. off < segs'[c].next
    <3>1. PICK b \in Bases : off < b + Len(stores[b])
      BY <2>2
    <3>2. PICK i \in 0..c : segs'[i].base = b
      BY <1>7
    <3>3. segs'[i].next = b + Len(stores[b]) /\ segs'[i].next \in Nat
      BY <1>6, <3>2
    <3>4. CASE i = c
      BY <3>1, <3>3, <3>4
    <3>5. CASE i # c
      <4>1. c \in 0..c /\ i < c
        BY <3>5
      <4>2. segs'[i].next <= segs'[c].base /\ segs'[c].base < segs'[c].next
        BY <1>11, <4>1
      <4>3. PICK x \in Nat : x = segs'[c].base
        BY <1>6a, <4>1
      <4>4. PICK y \in Nat : y = segs'[c].next
        BY <1>6a, <4>1
      <4>5. PICK z \in Nat : z = segs'[i].next
        BY <3>3
      <4>6. z <= x /\ x < y
        BY <4>2, <4>3, <4>4, <4>5
      <4>7. off < z
        BY <3>1, <3>3, <4>5
      <4> QED BY <4>4, <4>6, <4>7
    <3> QED BY <3>4, <3>5
  <2>4. ASSUME NEW i \in Holders(off)' PROVE (Content(i)')[off - segs'[i].base + 1] = r
    BY <1>15, <2>2, <2>4
  <2>5. ASSUME Holders(off)' = {} PROVE off < keepFrom
    <3>1. ASSUME NEW b \in Bases, InStore(b, off) PROVE FALSE
      <4>1. PICK i \in 0..c : segs'[i].base = b
        BY <1>7
      <4>2. segs'[i].next = b + Len(stores[b])
        BY <1>6, <4>1
      <4>3. i \in Holders(off)'
        BY <1>1, <3>1, <4>1, <4>2 DEF InStore, Holders
      <4> QED BY <2>5, <4>3
    <3> QED BY <2>2, <3>1
  <2>6. Holders(r.offset)' = Holders(off)'
    BY <1>4, <2>1 DEF Holders
  <2> QED BY <2>1, <2>3, <2>4, <2>5, <2>6
<1>17. AckedHeld' /\ Kept'
  <2>1. AckedHeld'
    BY <1>1, <1>4, <1>16 DEF AckedHeld
  <2>2. segments' # {}
    BY <1>1
  <2> QED BY <1>4, <1>16, <2>1, <2>2 DEF Kept
<1>18. OnlyAcked'
  <2>1. ASSUME NEW i \in 0..c, NEW k \in 1..segs'[i].indexSize
        PROVE  (Content(i)')[k] \in acked
    <3>1. PICK b \in Bases : segs'[i].indexSize = Len(stores[b]) /\ Content(i)' = stores[b]
      BY <1>6
    <3> QED BY <1>8, <2>1, <3>1 DEF ClosedOK
  <2> QED BY <1>1, <1>4, <2>1 DEF OnlyAcked
<1>19. OffsetsUnique'
  BY <1>4 DEF OffsetsUnique
<1> QED BY <1>5, <1>10, <1>12, <1>13, <1>14, <1>17, <1>18, <1>19 DEF Usable, LogInv

(***************************************************************************)
(* Every step                                                              *)
(***************************************************************************)

\* The first log is one empty segment.
LEMMA InitRecoveryInv ==
  ASSUME InitRecovery
  PROVE  RInv
<1> USE DEF InitRecovery
<1>1. LogInv /\ Kept
  BY InitLogInv
<1>2. /\ TypeOK /\ active = 0 /\ segments = {0} /\ FilesMatch /\ HighKnown /\ OffsetsUnique
      /\ segs[0].base = InitialOffset /\ segs[0].next = InitialOffset
      /\ segs[0].indexSize = 0 /\ segs[0].storeSize = 0 /\ segs[0].buf = <<>>
      /\ stores[InitialOffset] = <<>> /\ indexes[InitialOffset] = Padded(<<>>)
  BY <1>1 DEF LogInv, Init
<1>3. EmptyActive
  BY <1>2 DEF EmptyActive, Content
<1>4. EntriesWithin(0)
  <2>1. MaxIndexEnts \in 1..MaxIndexEnts /\ Padded(<<>>)[MaxIndexEnts].off = 0
    BY LimitsAssumption DEF Padded, ZeroEntry
  <2> QED BY <1>2, <2>1, OffsetsAssumption DEF EntriesWithin
<1>5. Usable
  BY <1>2, <1>3, <1>4 DEF Usable
<1>6. restarts \in 0..MaxRestarts
  BY RestartAssumption
<1> QED BY <1>1, <1>2, <1>5, <1>6 DEF RInv, TypeOK

\* The process is gone.
LEMMA DownKeepsRInv ==
  ASSUME RInv, mode' = "down", UNCHANGED <<panicked, acked, keepFrom, dir, restarts>>,
         killed' \in BOOLEAN, ~killed' => ~killed /\ Closed', FilesUsable'
  PROVE  RInv'
<1>1. ~killed => OffsetsUnique'
  BY DEF RInv, OffsetsUnique
<1> QED BY <1>1 DEF RInv

LEMMA CleanCloseKeepsRInv ==
  ASSUME RInv, CleanClose
  PROVE  RInv'
<1>1. /\ mode = "running" /\ Usable /\ (~killed => LogInv /\ Kept)
      /\ killed' = killed /\ killed \in BOOLEAN
  BY DEF CleanClose, Close, Die, RInv
<1>2. FilesUsable'
  BY <1>1, CloseUsable DEF CleanClose
<1>3. ~killed' => Closed'
  BY <1>1, CleanCloseClosed
<1> QED BY <1>1, <1>2, <1>3, DownKeepsRInv DEF CleanClose, Close, Die

LEMMA OpenKeepsRInv ==
  ASSUME RInv, Open
  PROVE  RInv'
<1>1. /\ mode = "down" /\ mode' = "running" /\ restarts' = restarts + 1
      /\ restarts < MaxRestarts
      /\ UNCHANGED <<panicked, acked, keepFrom, dir, killed>>
  BY DEF Open
<1>2. Usable'
  BY <1>1, OpenUsable DEF RInv
<1>3. ~killed => LogInv' /\ Kept'
  BY <1>1, OpenLogInv DEF RInv
<1>4. restarts' \in 0..MaxRestarts
  BY <1>1, RestartAssumption DEF RInv
<1>5. ~killed => OffsetsUnique'
  BY <1>3 DEF LogInv
<1> QED BY <1>1, <1>2, <1>3, <1>4, <1>5 DEF RInv

LEMMA SameKeepsRInv ==
  ASSUME SingleWriter, RInv, UNCHANGED rvars
  PROVE  RInv'
<1>1. /\ UNCHANGED <<segs, segments, active, stores, indexes, pending, panicked>>
      /\ UNCHANGED <<acked, keepFrom, mode, dir, restarts, killed>>
  BY DEF rvars
<1>2. /\ \A i : Content(i)' = Content(i)
      /\ \A off : Holders(off)' = Holders(off)
      /\ Bases' = Bases /\ \A b : StoreFile(b)' = StoreFile(b) /\ IndexFile(b)' = IndexFile(b)
  BY <1>1 DEF Content, Holders, Bases, StoreFile, IndexFile
<1>3. mode = "running" => Usable'
  <2>1. TypeOK' = TypeOK /\ HighKnown' = HighKnown
    BY <1>1 DEF TypeOK, HighKnown
  <2> QED BY <1>1, <2>1, SameFiles DEF RInv, Usable
<1>4. mode = "down" => FilesUsable'
  <2>1. FileTypes' = FileTypes /\ Unpaired' = Unpaired
    BY <1>1, <1>2 DEF FileTypes, Unpaired
  <2> QED BY <1>1, <1>2, <2>1 DEF RInv, FilesUsable
<1>5. mode = "running" /\ ~killed => LogInv' /\ Kept'
  <2>1. UNCHANGED vars
    BY <1>1 DEF vars
  <2>2. Kept => Kept'
    BY <1>1, <1>2 DEF Kept
  <2> QED BY <2>1, <2>2, NextLogInv DEF RInv
<1>6. mode = "down" /\ ~killed => Closed'
  <2>1. /\ \A b : ClosedOK(b)' = ClosedOK(b)
        /\ \A b, off : InStore(b, off)' = InStore(b, off)
    BY <1>1 DEF ClosedOK, InStore
  <2> QED BY <1>1, <1>2, <2>1 DEF RInv, Closed
<1>7. ~killed => OffsetsUnique'
  BY <1>1 DEF RInv, OffsetsUnique
<1> QED BY <1>1, <1>3, <1>4, <1>5, <1>6, <1>7 DEF RInv

\* Every step, of the running log or of one that goes and comes back.
LEMMA NextRecoveryInv ==
  ASSUME SingleWriter, ~WholeLog, RInv, [NextRecovery]_rvars
  PROVE  RInv'
<1>1. CASE mode = "running" /\ Next /\ UNCHANGED <<mode, dir, restarts, killed>>
  <2>1. Usable /\ Usable'
    BY <1>1, NextUsable DEF RInv
  <2>2. ~killed => (LogInv /\ Kept)'
    BY <1>1, NextLogInv, NextKept DEF RInv
  <2>3. /\ dir' \in BOOLEAN /\ restarts' \in 0..MaxRestarts /\ killed' \in BOOLEAN
        /\ panicked' \in BOOLEAN /\ acked' \in SUBSET Record /\ keepFrom' \in Nat
    BY <1>1, <2>1 DEF RInv, Usable, TypeOK
  <2>4. ~killed => OffsetsUnique'
    BY <2>2 DEF LogInv
  <2> QED BY <1>1, <2>1, <2>2, <2>3, <2>4 DEF RInv
<1>2. CASE CleanClose
  BY <1>2, CleanCloseKeepsRInv
<1>3. CASE \E n \in 0..MaxFiles : KillInClose(n)
  <2>1. PICK n \in 0..MaxFiles : KillInClose(n)
    BY <1>3
  <2>2. Usable /\ Close(n) /\ killed' = TRUE
    BY <2>1 DEF KillInClose, RInv
  <2>3. FilesUsable'
    BY <2>2, CloseUsable
  <2> QED BY DownKeepsRInv, <2>2, <2>3 DEF Close, Die
<1>4. CASE \E lowest \in 0..MaxOffset, n \in 1..(2 * MaxFiles) : KillInTruncate(lowest, n)
  <2>1. PICK lowest \in Nat, n \in Nat : KillInTruncate(lowest, n)
    BY <1>4, OffsetsAssumption DEF MaxFiles
  <2>2. Usable /\ killed' = TRUE
    BY <2>1 DEF KillInTruncate, RInv
  <2>3. FilesUsable'
    BY <2>1, <2>2, KillInTruncateUsable
  <2> QED BY DownKeepsRInv, <2>1, <2>2, <2>3 DEF KillInTruncate, Die
<1>5. CASE \E p \in pending, n \in 1..3 : KillInRotation(p, n)
  <2>1. PICK p \in pending, n \in Nat : KillInRotation(p, n)
    BY <1>5
  <2>2. Usable /\ killed' = TRUE
    BY <2>1 DEF KillInRotation, RInv
  <2>3. FilesUsable'
    BY <2>1, <2>2, KillInRotationUsable
  <2> QED BY DownKeepsRInv, <2>1, <2>2, <2>3 DEF KillInRotation, Die
<1>6. CASE Open
  BY <1>6, OpenKeepsRInv
<1>7. CASE \E n \in 1..(3 * MaxFiles) : KillInOpen(n)
  <2>1. PICK n \in Nat : KillInOpen(n)
    BY <1>7, OffsetsAssumption DEF MaxFiles
  <2>2. /\ mode = "down" /\ restarts' = restarts + 1 /\ restarts < MaxRestarts
        /\ killed' = TRUE /\ UNCHANGED <<panicked, acked, keepFrom, mode, dir>>
    BY <2>1 DEF KillInOpen
  <2>3. FilesUsable'
    BY <2>1, <2>2, KillInOpenUsable DEF RInv
  <2>4. restarts' \in 0..MaxRestarts
    BY <2>2, RestartAssumption DEF RInv
  <2> QED BY <2>2, <2>3, <2>4 DEF RInv
<1>8. CASE Reset
  <2>1. /\ dir' = FALSE /\ mode' = "failed"
        /\ UNCHANGED <<panicked, acked, keepFrom, restarts, killed>>
    BY <1>8 DEF Reset
  <2>2. ~killed' => OffsetsUnique'
    BY <2>1 DEF RInv, OffsetsUnique
  <2> QED BY <2>1, <2>2 DEF RInv
<1>9. CASE UNCHANGED rvars
  BY <1>9, SameKeepsRInv
<1> QED BY <1>1, <1>2, <1>3, <1>4, <1>5, <1>6, <1>7, <1>8, <1>9 DEF NextRecovery

(***************************************************************************)
(* The theorems                                                            *)
(***************************************************************************)

\* The inductive invariant of a log that is closed or killed, and opened again.
THEOREM RecoveryInvHolds ==
  ASSUME SingleWriter, ~WholeLog
  PROVE  SpecRecovery => []RInv
<1>1. InitRecovery => RInv
  BY InitRecoveryInv
<1>2. RInv /\ [NextRecovery]_rvars => RInv'
  BY NextRecoveryInv
<1> QED BY <1>1, <1>2, PTL DEF SpecRecovery

\* Every variable keeps its type, whatever files setup finds (log.go:88-122).
THEOREM TypeCorrectRecovery ==
  ASSUME SingleWriter, ~WholeLog
  PROVE  SpecRecovery => []TypeOKRecovery
<1>1. RInv => TypeOKRecovery
  BY DEF RInv, Usable, TypeOKRecovery
<1> QED BY <1>1, RecoveryInvHolds, PTL

\* The loop of setup over every other file name (log.go:108-114) opens each
\* segment once, wherever the process was killed.
THEOREM SetupOpensEachOnce ==
  ASSUME SingleWriter, ~WholeLog
  PROVE  SpecRecovery => []EverySegmentOpenedOnce
<1>1. RInv => EverySegmentOpenedOnce
  BY OpensEach DEF RInv, FilesUsable, EverySegmentOpenedOnce
<1> QED BY <1>1, RecoveryInvHolds, PTL

\* The ranges of the segments never overlap, though a kill makes a segment
\* forget records (segment.go:56-63), so Read (log.go:174) has one to choose.
THEOREM RangesDisjoint ==
  ASSUME SingleWriter, ~WholeLog
  PROVE  SpecRecovery => []SegmentsDisjoint
<1>1. RInv => SegmentsDisjoint
  BY DEF RInv, Usable, SegmentsDisjoint
<1> QED BY <1>1, RecoveryInvHolds, PTL

\* A log that was always closed is read back whole (log_test.go:67-104).
THEOREM ReopenedReadable ==
  ASSUME SingleWriter, ~WholeLog
  PROVE  SpecRecovery => []AckedReadableRecovery
<1>1. RInv => AckedReadableRecovery
  BY LogInvImpliesIndInv, IndInvImpliesReadable DEF RInv, AckedReadableRecovery
<1> QED BY <1>1, RecoveryInvHolds, PTL

\* Nor does it give an offset out again (segment.go:56-63, log.go:140).
THEOREM ReopenedOffsetsUnique ==
  ASSUME SingleWriter, ~WholeLog
  PROVE  SpecRecovery => []OffsetsUniqueRecovery
<1>1. RInv => OffsetsUniqueRecovery
  BY DEF RInv, OffsetsUniqueRecovery
<1> QED BY <1>1, RecoveryInvHolds, PTL

(***************************************************************************)
(* The finite state machine and its snapshots                              *)
(*                                                                         *)
(* Module FsmSnapshot closes this log before its process ends and never    *)
(* truncates it.  What a snapshot holds is stated of the acknowledged      *)
(* records, which outlive the process: a sequence of those with the        *)
(* offsets from the initial one on is the beginning of any log that is     *)
(* still to read them back.                                                *)
(***************************************************************************)

\* The log still begins where it was created.
BeginsAtInitial ==
  InitialOffset \in Bases /\ \A b \in Bases : InitialOffset <= b

\* The first records that were acknowledged, in order.
AckedPrefix(recs) ==
  /\ recs \in Seq(Record)
  /\ \A k \in 1..Len(recs) : recs[k] \in acked /\ recs[k].offset = InitialOffset + (k - 1)

\* The reader has copied all that is before the segment at hand, and what it has
\* read of that one; the segments it has still to read follow it, up to the one
\* that was active when Snapshot returned.
ReaderOK ==
  /\ mode = "running"
  /\ reader \in [todo : SUBSET Nat, read : Nat, sink : Seq(Record), upto : Nat]
  /\ reader.todo \subseteq segments /\ AckedPrefix(reader.sink)
  /\ reader.todo = {} => reader.upto <= InitialOffset + Len(reader.sink)
  /\ reader.todo # {} =>
       /\ reader.read <= segs[Current].indexSize
       /\ segs[Current].base + reader.read = InitialOffset + Len(reader.sink)
       /\ \E last \in segments :
            /\ reader.todo = {i \in segments : Current <= i /\ i <= last}
            /\ reader.upto <= segs[last].next

\* A snapshot file has all the records that were acknowledged before Snapshot.
SnapfileOK ==
  /\ snapfile \in [records : Seq(Record), upto : Nat]
  /\ AckedPrefix(snapfile.records)
  /\ snapfile.upto <= InitialOffset + Len(snapfile.records)

FInv ==
  /\ RInv /\ ~killed /\ keepFrom = 0
  /\ mode # "failed" => BeginsAtInitial
  /\ mode = "failed" => HasRecords
  /\ \A r \in acked : InitialOffset <= r.offset
  /\ reader # NoReader => ReaderOK
  /\ snapfile # NoSnapshot => SnapfileOK

LEMMA InitFsmInv == InitFsm => FInv
<1> SUFFICES ASSUME InitFsm PROVE FInv
  OBVIOUS
<1>1. RInv /\ ~killed /\ keepFrom = 0 /\ acked = {} /\ mode = "running"
  BY InitRecoveryInv DEF InitFsm, InitRecovery, Init
<1>2. Bases = {InitialOffset}
  BY DEF InitFsm, InitRecovery, Init, Bases
<1>3. BeginsAtInitial
  BY <1>2, OffsetsAssumption DEF BeginsAtInitial
<1> QED BY <1>1, <1>3 DEF FInv, InitFsm

\* What a log that is running, and was always closed before, is known to be.
LEMMA RunningFacts ==
  ASSUME FInv, mode = "running"
  PROVE  /\ Usable /\ LogInv /\ Kept /\ TypeOK /\ Chain /\ BeginsAtInitial
         /\ \A i \in segments :
              /\ i \in Nat /\ segs[i].base \in Nat /\ InitialOffset <= segs[i].base
              /\ segs[i].indexSize \in Nat /\ segs[i].next = segs[i].base + segs[i].indexSize
              /\ Content(i) \in Seq(Record) /\ Len(Content(i)) = segs[i].indexSize
         /\ \E i \in segments : segs[i].base = InitialOffset
<1>1. Usable /\ LogInv /\ Kept /\ BeginsAtInitial
  BY DEF FInv, RInv
<1>2. TypeOK /\ Chain
  BY <1>1, ChainHolds DEF Kept, Usable
<1>3. ASSUME NEW i \in segments
      PROVE  /\ i \in Nat /\ segs[i].base \in Nat /\ InitialOffset <= segs[i].base
             /\ segs[i].indexSize \in Nat /\ segs[i].next = segs[i].base + segs[i].indexSize
             /\ Content(i) \in Seq(Record) /\ Len(Content(i)) = segs[i].indexSize
  <2>1. /\ i \in Nat /\ segs[i].base \in Nat /\ segs[i].indexSize \in Nat
        /\ Content(i) \in Seq(Record) /\ segs[i].base \in DOMAIN stores
    BY <1>1, UsableFacts
  <2>2. SegmentOK(i)
    BY <1>1 DEF LogInv
  <2>3. segs[i].base \in Bases
    BY <2>1 DEF Bases
  <2> QED BY <1>1, <2>1, <2>2, <2>3 DEF SegmentOK, BeginsAtInitial
<1>4. \E i \in segments : segs[i].base = InitialOffset
  <2>1. Bases = DOMAIN stores
    BY <1>2 DEF TypeOK, Bases
  <2> QED BY <1>1, <2>1 DEF LogInv, FilesMatch, BeginsAtInitial
<1> QED BY <1>1, <1>2, <1>3, <1>4

(***************************************************************************)
(* The log under the reader                                                *)
(***************************************************************************)

\* Records are added behind those there are, in the last segment or a new one.
Extends ==
  /\ segments \subseteq segments' /\ \A i \in segments' \ segments, j \in segments : j < i
  /\ \A i \in segments : /\ segs'[i].base = segs[i].base
                        /\ segs[i].indexSize <= segs'[i].indexSize
                        /\ segs[i].next <= segs'[i].next
  /\ acked \subseteq acked'

LEMMA FlushShape ==
  ASSUME Usable, NEW i \in segments, Flush(i)
  PROVE  /\ Extends /\ segments' = segments /\ acked' = acked /\ Bases' = Bases
         /\ \A j \in segments : /\ segs'[j].base = segs[j].base
                               /\ segs'[j].indexSize = segs[j].indexSize
                               /\ segs'[j].next = segs[j].next
<1>1. DOMAIN segs = segments /\ \A j \in segments : segs[j].indexSize \in Nat /\ segs[j].next \in Nat
  BY UsableFacts
<1>2. \A j \in segments : /\ segs'[j].base = segs[j].base
                         /\ segs'[j].indexSize = segs[j].indexSize
                         /\ segs'[j].next = segs[j].next
  <2>1. segs[i] \in Segment
    BY UsableFacts
  <2> QED BY <1>1, <2>1 DEF Flush, Segment
<1>3. segments' = segments /\ acked' = acked /\ Bases' = Bases
  BY DEF Flush, Bases
<1> QED BY <1>1, <1>2, <1>3 DEF Extends

LEMMA AppendToActiveShape ==
  ASSUME FInv, mode = "running", NEW p \in pending, NEW v \in Values, AppendToActive(p, v)
  PROVE  Extends /\ Bases' = Bases
<1>1. /\ DOMAIN segs = segments /\ active \in segments
      /\ \A j \in segments : segs[j] \in Segment /\ segs[j].indexSize \in Nat /\ segs[j].next \in Nat
  BY RunningFacts, UsableFacts
<1> DEFINE s == segs[active]
           r == NewRecord(s, v)
           u == Indexed(Buffer(s, r))
<1>2. r \in Record
  BY <1>1 DEF NewRecord, Record
<1>3. u.base = s.base /\ u.next = s.next + 1 /\ u.indexSize = s.indexSize + 1
  BY <1>1, <1>2, AppendedSegment
<1>4. segs' = [segs EXCEPT ![active] = u] /\ segments' = segments /\ acked \subseteq acked'
  BY DEF AppendToActive
<1>5. Bases' = Bases
  BY DEF AppendToActive, Bases
<1> HIDE DEF u
<1> QED BY <1>1, <1>3, <1>4, <1>5 DEF Extends

LEMMA AppendToNewShape ==
  ASSUME FInv, mode = "running", NEW p \in pending, NEW v \in Values, AppendToNew(p, v)
  PROVE  Extends /\ Bases' = Bases \cup {segs[active].next}
<1>1. NewBase(p.high) = segs[active].next
  BY RunningFacts, RotationIsFresh DEF AppendToNew
<1>2. \A j \in segments : /\ j \in Nat /\ j <= active /\ segs[j].indexSize \in Nat
                         /\ segs[j].next \in Nat
  BY RunningFacts, UsableFacts DEF Usable
<1>3. active \in Nat
  BY RunningFacts DEF TypeOK
<1>4. /\ segments' = segments \cup {active + 1} /\ acked \subseteq acked'
      /\ \A j \in segments : j # active + 1 => segs'[j] = segs[j]
      /\ Bases' = Bases \cup {NewBase(p.high)}
  BY DEF AppendToNew, Bases
<1> QED BY <1>1, <1>2, <1>3, <1>4 DEF Extends

\* An append or a flush of the running log.
LogStep ==
  \/ \E w \in Writers : AppendBegin(w)
  \/ \E p \in pending, v \in Values : AppendToActive(p, v) \/ AppendToNew(p, v)
  \/ \E i \in segments : Flush(i)

LEMMA LogStepKept ==
  ASSUME SingleWriter, FInv, mode = "running", LogStep, UNCHANGED <<mode, dir, restarts, killed>>
  PROVE  /\ RInv' /\ ~killed' /\ keepFrom' = 0 /\ BeginsAtInitial' /\ Extends
         /\ \A r \in acked' : InitialOffset <= r.offset
<1>1. Usable /\ LogInv /\ Kept /\ BeginsAtInitial /\ TypeOK /\ active \in segments
  BY RunningFacts DEF Usable
<1>2. InitialOffset <= segs[active].next /\ segs[active].next \in Nat
  <2>1. /\ InitialOffset <= segs[active].base /\ segs[active].base \in Nat
        /\ segs[active].indexSize \in Nat
        /\ segs[active].next = segs[active].base + segs[active].indexSize
    BY <1>1, RunningFacts
  <2> QED BY <2>1, OffsetsAssumption
<1> DEFINE good == /\ Usable' /\ LogInv' /\ Stay /\ NewHeld /\ keepFrom' = keepFrom
                   /\ BeginsAtInitial' /\ Extends
                   /\ \A r \in acked' \ acked : InitialOffset <= r.offset
<1>3. ASSUME NEW w \in Writers, AppendBegin(w) PROVE good
  <2>1. Usable' /\ LogInv' /\ Stay /\ NewHeld
    BY <1>1, <1>3, AppendBeginUsable, AppendBeginLogInv
  <2>2. \A i \in segments : segs[i].indexSize \in Nat /\ segs[i].next \in Nat
    BY <1>1, UsableFacts
  <2>3. Extends /\ acked' = acked /\ keepFrom' = keepFrom /\ Bases' = Bases
    BY <1>3, <2>2 DEF AppendBegin, Extends, Bases
  <2> QED BY <1>1, <2>1, <2>3 DEF BeginsAtInitial
<1>4. ASSUME NEW p \in pending, NEW v \in Values, AppendToActive(p, v) PROVE good
  <2>1. Usable' /\ LogInv'
    BY <1>1, <1>4, AppendToActiveUsable, AppendToActiveLogInv
  <2>2. PICK r \in Record : Grows(r)
    BY <1>1, <1>4, AppendToActiveLogInv
  <2>3. Stay /\ NewHeld /\ keepFrom' = keepFrom /\ acked' = acked \cup {r}
        /\ r.offset = segs[active].next
    BY <2>2, GrowsStay DEF Grows
  <2>4. Extends /\ Bases' = Bases
    BY <1>4, AppendToActiveShape
  <2> QED BY <1>1, <1>2, <2>1, <2>3, <2>4 DEF BeginsAtInitial
<1>5. ASSUME NEW p \in pending, NEW v \in Values, AppendToNew(p, v) PROVE good
  <2>1. Usable' /\ LogInv'
    BY <1>1, <1>5, AppendToNewUsable, AppendToNewLogInv
  <2>2. PICK r \in Record : Grows(r)
    BY <1>1, <1>5, AppendToNewLogInv
  <2>3. Stay /\ NewHeld /\ keepFrom' = keepFrom /\ acked' = acked \cup {r}
        /\ r.offset = segs[active].next
    BY <2>2, GrowsStay DEF Grows
  <2>4. Extends /\ Bases' = Bases \cup {segs[active].next}
    BY <1>5, AppendToNewShape
  <2> QED BY <1>1, <1>2, <2>1, <2>3, <2>4 DEF BeginsAtInitial
<1>6. ASSUME NEW i \in segments, Flush(i) PROVE good
  <2>1. Usable' /\ LogInv' /\ Stay /\ NewHeld
    BY <1>1, <1>6, FlushUsable, FlushLogInv
  <2>2. Extends /\ acked' = acked /\ Bases' = Bases
    BY <1>1, <1>6, FlushShape
  <2>3. keepFrom' = keepFrom
    BY <1>6 DEF Flush
  <2> QED BY <1>1, <2>1, <2>2, <2>3 DEF BeginsAtInitial
<1>7. good
  BY <1>3, <1>4, <1>5, <1>6 DEF LogStep
<1> HIDE DEF good
<1>8. /\ Usable' /\ LogInv' /\ Stay /\ NewHeld /\ keepFrom' = keepFrom
      /\ BeginsAtInitial' /\ Extends
      /\ \A r \in acked' \ acked : InitialOffset <= r.offset
  BY <1>7 DEF good
<1>9. Kept'
  <2>1. segments' # {} /\ acked \in SUBSET Record /\ acked' \in SUBSET Record /\ keepFrom \in Nat
    BY <1>1, <1>8 DEF Usable, TypeOK
  <2>2. ASSUME NEW r \in acked', Holders(r.offset)' = {} PROVE r.offset < keepFrom'
    <3>1. r \in acked /\ r.offset \in Nat
      BY <1>8, <2>1, <2>2 DEF NewHeld, Record
    <3>2. CASE Holders(r.offset) = {}
      BY <1>1, <1>8, <3>1, <3>2 DEF Kept
    <3>3. CASE Holders(r.offset) # {}
      BY <1>8, <2>2, <3>1, <3>3 DEF Stay
    <3> QED BY <3>2, <3>3
  <2> QED BY <2>1, <2>2 DEF Kept
<1>10. RInv'
  <2>1. /\ panicked' \in BOOLEAN /\ acked' \in SUBSET Record /\ keepFrom' \in Nat
    BY <1>8 DEF Usable, TypeOK
  <2>2. OffsetsUnique'
    BY <1>8 DEF LogInv
  <2> QED BY <1>8, <1>9, <2>1, <2>2 DEF FInv, RInv
<1> QED BY <1>8, <1>10 DEF FInv

(***************************************************************************)
(* The reader and the file                                                 *)
(***************************************************************************)

\* What is appended behind the reader's back does not disturb it.
LEMMA ReaderKept ==
  ASSUME Usable, TypeOK', ReaderOK, Extends, UNCHANGED <<mode, reader>>
  PROVE  ReaderOK'
<1>1. /\ reader.todo \subseteq segments' /\ AckedPrefix(reader.sink)
  BY DEF ReaderOK, Extends
<1>2. AckedPrefix(reader.sink)'
  BY <1>1 DEF AckedPrefix, Extends
<1>3. Current' = Current
  BY DEF Current
<1>4. ASSUME reader.todo # {}
      PROVE  /\ reader.read <= segs'[Current].indexSize
             /\ segs'[Current].base + reader.read = InitialOffset + Len(reader.sink)
             /\ \E last \in segments' :
                  /\ reader.todo = {i \in segments' : Current <= i /\ i <= last}
                  /\ reader.upto <= segs'[last].next
  <2>1. PICK last \in segments : /\ reader.todo = {i \in segments : Current <= i /\ i <= last}
                                /\ reader.upto <= segs[last].next
    BY <1>4 DEF ReaderOK
  <2>2. /\ reader.todo \in SUBSET Nat /\ reader.read \in Nat /\ reader.upto \in Nat
        /\ reader.read <= segs[Current].indexSize
        /\ segs[Current].base + reader.read = InitialOffset + Len(reader.sink)
    BY <1>4 DEF ReaderOK
  <2>3. Current \in segments /\ Current \in Nat
    BY <1>4, <2>2, MinOfSet DEF Current, ReaderOK
  <2>4. /\ segs'[Current].base = segs[Current].base
        /\ segs[Current].indexSize <= segs'[Current].indexSize
        /\ segs[Current].indexSize \in Nat /\ segs[last].next <= segs'[last].next
        /\ segs[last].next \in Nat
    BY <2>1, <2>3, UsableFacts DEF Extends
  <2>5. segs'[Current].indexSize \in Nat /\ segs'[last].next \in Nat
    <3>1. segs'[Current] \in Segment /\ segs'[last] \in Segment
      BY <2>1, <2>3 DEF TypeOK, Extends
    <3> QED BY <3>1 DEF Segment
  <2>6. reader.read <= segs'[Current].indexSize /\ reader.upto <= segs'[last].next
    BY <2>1, <2>2, <2>4, <2>5
  <2>7. reader.todo = {i \in segments' : Current <= i /\ i <= last}
    <3>1. \A i \in segments' : i \in Nat
      BY DEF TypeOK
    <3>2. \A i \in segments' \ segments : ~(i <= last)
      BY <2>1, <3>1 DEF Extends
    <3> QED BY <2>1, <3>2 DEF Extends
  <2> QED BY <2>1, <2>2, <2>4, <2>6, <2>7 DEF Extends
<1>5. reader.todo = {} => reader.upto <= InitialOffset + Len(reader.sink)
  BY DEF ReaderOK
<1> HIDE DEF ReaderOK
<1>6. mode' = "running" /\ reader' \in [todo : SUBSET Nat, read : Nat, sink : Seq(Record), upto : Nat]
  BY DEF ReaderOK
<1>7. AckedPrefix(reader.sink)' /\ reader' = reader
  BY <1>2
<1> QED BY <1>1, <1>3, <1>4, <1>5, <1>6, <1>7 DEF ReaderOK

LEMMA SnapfileKept ==
  ASSUME SnapfileOK, acked \subseteq acked', snapfile' = snapfile
  PROVE  SnapfileOK'
BY DEF SnapfileOK, AckedPrefix

\* Snapshot: the first segment begins at the initial offset.
LEMMA SnapshotReader ==
  ASSUME FInv, Snapshot
  PROVE  ReaderOK'
<1>1. /\ mode = "running" /\ mode' = mode /\ UNCHANGED <<segs, segments, active, acked>>
      /\ reader' = [todo |-> segments, read |-> 0, sink |-> <<>>, upto |-> segs[active].next]
  BY DEF Snapshot, Running
<1>2. /\ Usable /\ TypeOK /\ Chain /\ segments \in SUBSET Nat /\ active \in segments
      /\ \A i \in segments : i <= active
  BY <1>1, RunningFacts DEF Usable, TypeOK
<1>3. /\ reader'.todo = segments /\ reader'.read = 0 /\ reader'.sink = <<>>
      /\ reader'.upto = segs[active].next /\ segs[active].next \in Nat
  BY <1>1, <1>2, UsableFacts
<1>4. Len(<<>>) = 0 /\ <<>> \in Seq(Record)
  BY EmptySeq
<1>5. reader' \in [todo : SUBSET Nat, read : Nat, sink : Seq(Record), upto : Nat]
  BY <1>1, <1>2, <1>3, <1>4
<1> DEFINE first == Min(segments)
<1>6. Current' = first /\ first \in segments /\ \A i \in segments : first <= i
  BY <1>2, <1>3, MinOfSet DEF Current
<1> HIDE DEF first
<1>7. segs[first].base = InitialOffset /\ segs[first].indexSize \in Nat
  <2>1. PICK i \in segments : segs[i].base = InitialOffset
    BY <1>1, RunningFacts
  <2>2. /\ segs[first].base \in Nat /\ InitialOffset <= segs[first].base
        /\ segs[first].indexSize \in Nat /\ first \in Nat /\ i \in Nat
    BY <1>1, <1>6, RunningFacts
  <2>3. first = i \/ first < i
    BY <1>6, <2>2
  <2>4. CASE first < i
    <3>1. segs[first].base < segs[i].base
      BY <1>2, <1>6, <2>4 DEF Usable
    <3> QED BY <2>1, <2>2, <3>1, OffsetsAssumption
  <2> QED BY <2>1, <2>2, <2>3, <2>4
<1>8. AckedPrefix(<<>>)'
  BY <1>4 DEF AckedPrefix
<1>9. reader'.todo = {i \in segments' : Current' <= i /\ i <= active}
  BY <1>1, <1>2, <1>3, <1>6
<1>10. /\ reader'.read <= segs'[Current'].indexSize
       /\ segs'[Current'].base + reader'.read = InitialOffset + Len(reader'.sink)
       /\ reader'.upto <= segs'[active].next
  BY <1>1, <1>3, <1>4, <1>6, <1>7, OffsetsAssumption
<1>11. reader'.todo # {}
  BY <1>2, <1>3
<1>12. AckedPrefix(reader.sink)'
  BY <1>3, <1>4, <1>8 DEF AckedPrefix
<1> QED BY <1>1, <1>2, <1>3, <1>5, <1>9, <1>10, <1>11, <1>12 DEF ReaderOK

\* What the reader has still to read of the segment at hand.
LEMMA UnreadFacts ==
  ASSUME FInv, ReaderOK, reader.todo # {}
  PROVE  /\ Current \in segments /\ Current \in Nat /\ \A i \in reader.todo : Current <= i
         /\ reader.read \in Nat /\ reader.read <= segs[Current].indexSize
         /\ Unread(Current) \in Seq(Record)
         /\ Len(Unread(Current)) = segs[Current].indexSize - reader.read
         /\ \A k \in 1..Len(Unread(Current)) :
              /\ Unread(Current)[k] \in acked
              /\ Unread(Current)[k].offset = segs[Current].base + reader.read + (k - 1)
<1>1. Current \in segments /\ Current \in Nat /\ \A i \in reader.todo : Current <= i
  <2>1. reader.todo \in SUBSET Nat /\ reader.todo \subseteq segments
    BY DEF ReaderOK
  <2> QED BY <2>1, MinOfSet DEF Current
<1>2. mode = "running"
  BY DEF ReaderOK
<1> DEFINE c == Content(Current)
           m == segs[Current].indexSize
           d == reader.read
<1>3. d \in Nat /\ m \in Nat /\ d <= m /\ c \in Seq(Record) /\ Len(c) = m /\ segs[Current].base \in Nat
  BY <1>1, <1>2, RunningFacts DEF ReaderOK
<1>4. \A k \in 1..m : c[k] \in acked /\ c[k].offset = segs[Current].base + (k - 1)
  BY <1>1, <1>2, RunningFacts DEF LogInv, SegmentOK, OnlyAcked
<1>5. Unread(Current) = SubSeq(c, d + 1, m)
  BY <1>3 DEF Unread
<1> HIDE DEF c, d, m
<1>6. \A k \in (d + 1)..m : c[k] \in Record
  BY <1>3, ElementOfSeq
<1>7. /\ SubSeq(c, d + 1, m) \in Seq(Record)
      /\ Len(SubSeq(c, d + 1, m)) = IF d + 1 <= m THEN m - (d + 1) + 1 ELSE 0
      /\ \A k \in 1..(m - (d + 1) + 1) : SubSeq(c, d + 1, m)[k] = c[(d + 1) + k - 1]
  BY <1>3, <1>6, SubSeqProperties
<1>8. Len(Unread(Current)) = m - d
  BY <1>3, <1>5, <1>7
<1>9. ASSUME NEW k \in 1..(m - d)
      PROVE  /\ Unread(Current)[k] \in acked
             /\ Unread(Current)[k].offset = segs[Current].base + d + (k - 1)
  <2>1. k \in 1..(m - (d + 1) + 1) /\ (d + 1) + k - 1 = d + k /\ d + k \in 1..m
    BY <1>3
  <2>2. Unread(Current)[k] = c[d + k]
    BY <1>5, <1>7, <2>1
  <2>3. c[d + k] \in acked /\ c[d + k].offset = segs[Current].base + ((d + k) - 1)
    BY <1>4, <2>1
  <2> DEFINE base == segs[Current].base
  <2>4. base \in Nat
    BY <1>3
  <2> HIDE DEF base
  <2>5. base + ((d + k) - 1) = base + d + (k - 1)
    BY <1>3, <2>4
  <2> QED BY <2>2, <2>3, <2>5 DEF base
<1> QED BY <1>1, <1>3, <1>5, <1>7, <1>8, <1>9 DEF d, m

\* The acknowledged records that follow a prefix make a longer one.
LEMMA PrefixGrows ==
  ASSUME NEW s1, NEW s2 \in Seq(Record), AckedPrefix(s1),
         \A j \in 1..Len(s2) :
           s2[j] \in acked /\ s2[j].offset = InitialOffset + Len(s1) + (j - 1)
  PROVE  AckedPrefix(s1 \o s2) /\ Len(s1 \o s2) = Len(s1) + Len(s2)
<1> DEFINE a == Len(s1)
           b == Len(s2)
           s == s1 \o s2
<1>1. s1 \in Seq(Record) /\ a \in Nat /\ b \in Nat
  BY LenProperties DEF AckedPrefix
<1>2. /\ s \in Seq(Record) /\ Len(s) = a + b
      /\ \A i \in 1..(a + b) : s[i] = IF i <= a THEN s1[i] ELSE s2[i - a]
  BY <1>1, ConcatProperties
<1>3. /\ \A i \in 1..a : s1[i] \in acked /\ s1[i].offset = InitialOffset + (i - 1)
      /\ \A j \in 1..b : s2[j] \in acked /\ s2[j].offset = InitialOffset + a + (j - 1)
  BY DEF AckedPrefix
<1> HIDE DEF a, b, s
<1>4. ASSUME NEW i \in 1..(a + b)
      PROVE  s[i] \in acked /\ s[i].offset = InitialOffset + (i - 1)
  <2>1. CASE i <= a
    <3>1. i \in 1..a /\ s[i] = s1[i]
      BY <1>1, <1>2, <2>1
    <3> QED BY <1>3, <3>1
  <2>2. CASE ~(i <= a)
    <3>1. i - a \in 1..b /\ InitialOffset + a + ((i - a) - 1) = InitialOffset + (i - 1)
      BY <1>1, <2>2, OffsetsAssumption
    <3>2. s[i] = s2[i - a]
      BY <1>2, <2>2
    <3> QED BY <1>3, <3>1, <3>2
  <2> QED BY <2>1, <2>2
<1>5. AckedPrefix(s)
  BY <1>2, <1>4 DEF AckedPrefix
<1> QED BY <1>2, <1>5 DEF a, b, s

\* PersistRead: what is copied follows what was copied before.
LEMMA PersistReadReader ==
  ASSUME FInv, NEW n \in Nat, PersistRead(n)
  PROVE  ReaderOK' /\ Flush(Current) /\ Current \in segments
<1>1. /\ mode = "running" /\ mode' = mode /\ reader # NoReader /\ reader.todo # {}
      /\ n <= Len(Unread(Current)) /\ Flush(Current)
      /\ reader' = [reader EXCEPT !.read = @ + n,
                                  !.sink = @ \o SubSeq(Unread(Current), 1, n)]
  BY DEF PersistRead, Running, ReaderRead
<1>2. ReaderOK
  BY <1>1 DEF FInv
<1> DEFINE u == Unread(Current)
           new == SubSeq(u, 1, n)
           at == segs[Current].base + reader.read
           top == segs[Current].indexSize
           copied == Len(reader.sink)
<1>3. /\ Current \in segments /\ Current \in Nat /\ reader.read \in Nat
      /\ u \in Seq(Record) /\ Len(u) = top - reader.read
      /\ \A k \in 1..Len(u) : u[k] \in acked /\ u[k].offset = at + (k - 1)
  BY <1>1, <1>2, UnreadFacts
<1>4. top \in Nat /\ segs[Current].base \in Nat
  BY <1>1, <1>3, RunningFacts
<1>5. /\ segments' = segments /\ acked' = acked
      /\ \A j \in segments : /\ segs'[j].base = segs[j].base
                             /\ segs'[j].indexSize = segs[j].indexSize
                             /\ segs'[j].next = segs[j].next
  BY <1>1, <1>3, RunningFacts, FlushShape
<1>6. /\ reader \in [todo : SUBSET Nat, read : Nat, sink : Seq(Record), upto : Nat]
      /\ reader.todo \subseteq segments /\ AckedPrefix(reader.sink) /\ at = InitialOffset + copied
  BY <1>1, <1>2 DEF ReaderOK
<1>7. PICK last \in segments : /\ reader.todo = {i \in segments : Current <= i /\ i <= last}
                               /\ reader.upto <= segs[last].next
  BY <1>1, <1>2 DEF ReaderOK
<1>8. /\ new \in Seq(Record) /\ Len(new) = n
      /\ \A j \in 1..n : new[j] = u[j] /\ j \in 1..Len(u)
  <2> HIDE DEF u
  <2>1. Len(u) \in Nat /\ n <= Len(u)
    BY <1>1, <1>3, LenProperties DEF u
  <2>2. \A j \in 1..n : j \in 1..Len(u)
    BY <2>1
  <2>3. \A j \in 1..n : u[j] \in Record
    BY <1>3, <2>2, ElementOfSeq
  <2>4. /\ SubSeq(u, 1, n) \in Seq(Record)
        /\ Len(SubSeq(u, 1, n)) = IF 1 <= n THEN n - 1 + 1 ELSE 0
        /\ \A j \in 1..(n - 1 + 1) : SubSeq(u, 1, n)[j] = u[1 + j - 1]
    BY <2>3, SubSeqProperties
  <2>5. n - 1 + 1 = n /\ \A j \in 1..n : 1 + j - 1 = j
    OBVIOUS
  <2> QED BY <2>2, <2>4, <2>5
<1>9. \A j \in 1..Len(new) : new[j] \in acked /\ new[j].offset = InitialOffset + copied + (j - 1)
  BY <1>3, <1>6, <1>8
<1>10. AckedPrefix(reader.sink \o new) /\ Len(reader.sink \o new) = copied + n
  <2> HIDE DEF new
  <2> QED BY <1>6, <1>8, <1>9, PrefixGrows
<1>11. /\ reader'.todo = reader.todo /\ reader'.upto = reader.upto
       /\ reader'.read = reader.read + n /\ reader'.sink = reader.sink \o new
       /\ Current' = Current
  BY <1>1, <1>6 DEF Current
<1>12. copied \in Nat
  BY <1>6, LenProperties
<1> HIDE DEF u, new
<1>13. /\ reader.read + n \in Nat /\ reader.read + n <= top
       /\ segs[Current].base + (reader.read + n) = InitialOffset + (copied + n)
  <2> DEFINE base == segs[Current].base
             d == reader.read
  <2>1. n <= top - d
    BY <1>1, <1>3 DEF u
  <2>2. base \in Nat /\ d \in Nat /\ top \in Nat /\ copied \in Nat
        /\ base + d = InitialOffset + copied
    BY <1>3, <1>4, <1>6, <1>12
  <2> HIDE DEF base, d, top, copied
  <2>3. d + n \in Nat /\ d + n <= top /\ base + (d + n) = InitialOffset + (copied + n)
    BY <2>1, <2>2, OffsetsAssumption
  <2> QED BY <2>3 DEF base, d, top, copied
<1>14. reader' \in [todo : SUBSET Nat, read : Nat, sink : Seq(Record), upto : Nat]
  <2>1. reader.sink \o new \in Seq(Record)
    BY <1>10 DEF AckedPrefix
  <2> QED BY <1>1, <1>6, <1>13, <2>1 DEF u, new
<1>15. AckedPrefix(reader.sink)'
  BY <1>5, <1>10, <1>11 DEF AckedPrefix
<1>16. /\ reader'.read <= segs'[Current'].indexSize
       /\ segs'[Current'].base + reader'.read = InitialOffset + Len(reader'.sink)
  BY <1>3, <1>5, <1>10, <1>11, <1>13
<1>17. \E l \in segments' : /\ reader'.todo = {i \in segments' : Current' <= i /\ i <= l}
                            /\ reader'.upto <= segs'[l].next
  BY <1>5, <1>7, <1>11
<1> QED BY <1>1, <1>3, <1>5, <1>6, <1>11, <1>14, <1>15, <1>16, <1>17 DEF ReaderOK

\* PersistNext: the next segment begins where the one that is read ends.
LEMMA PersistNextReader ==
  ASSUME FInv, PersistNext
  PROVE  ReaderOK' /\ Flush(Current) /\ Current \in segments
<1>1. /\ mode = "running" /\ mode' = mode /\ reader # NoReader /\ reader.todo # {}
      /\ Unread(Current) = <<>> /\ Flush(Current)
      /\ reader' = [reader EXCEPT !.read = 0, !.todo = @ \ {Current}]
  BY DEF PersistNext, Running, ReaderRead
<1>2. ReaderOK
  BY <1>1 DEF FInv
<1> DEFINE i == Current
           copied == Len(reader.sink)
<1>3. /\ i \in segments /\ i \in Nat /\ reader.read \in Nat
      /\ reader.read <= segs[i].indexSize
      /\ Len(Unread(i)) = segs[i].indexSize - reader.read
      /\ \A j \in reader.todo : i <= j
  BY <1>1, <1>2, UnreadFacts
<1>4. /\ \A j \in segments : /\ j \in Nat /\ segs[j].base \in Nat /\ segs[j].indexSize \in Nat
                             /\ segs[j].next = segs[j].base + segs[j].indexSize
      /\ Contiguous /\ \A j \in segments : j <= active
  BY <1>1, RunningFacts DEF LogInv, Usable
<1>5. /\ segments' = segments /\ acked' = acked
      /\ \A j \in segments : /\ segs'[j].base = segs[j].base
                             /\ segs'[j].indexSize = segs[j].indexSize
                             /\ segs'[j].next = segs[j].next
  BY <1>1, <1>3, RunningFacts, FlushShape
<1>6. /\ reader \in [todo : SUBSET Nat, read : Nat, sink : Seq(Record), upto : Nat]
      /\ reader.todo \subseteq segments /\ AckedPrefix(reader.sink)
      /\ segs[i].base + reader.read = InitialOffset + copied
  BY <1>1, <1>2 DEF ReaderOK
<1>7. PICK last \in segments : /\ reader.todo = {j \in segments : i <= j /\ j <= last}
                               /\ reader.upto <= segs[last].next
  BY <1>1, <1>2 DEF ReaderOK
<1>8. copied \in Nat /\ Len(<<>>) = 0
  BY <1>6, LenProperties
<1>9. segs[i].next = InitialOffset + copied
  <2>1. segs[i].indexSize - reader.read = 0
    BY <1>1, <1>3, <1>8
  <2>2. reader.read = segs[i].indexSize
    BY <1>3, <1>4, <2>1
  <2> QED BY <1>3, <1>4, <1>6, <2>2
<1>10. /\ reader'.todo = reader.todo \ {i} /\ reader'.upto = reader.upto /\ reader'.read = 0
       /\ reader'.sink = reader.sink
       /\ reader' \in [todo : SUBSET Nat, read : Nat, sink : Seq(Record), upto : Nat]
  BY <1>1, <1>6
<1>11. AckedPrefix(reader.sink)'
  BY <1>5, <1>6, <1>10 DEF AckedPrefix
<1> HIDE DEF i, copied
<1>12. ASSUME reader'.todo = {} PROVE reader'.upto <= InitialOffset + copied
  <2>1. last = i
    <3>1. reader.todo \subseteq {i} /\ reader.todo # {}
      BY <1>1, <1>10, <1>12
    <3>2. i <= last
      BY <1>7, <3>1
    <3> QED BY <1>4, <1>7, <3>1, <3>2
  <2> QED BY <1>7, <1>9, <1>10, <2>1
<1>13. ASSUME reader'.todo # {}
       PROVE  /\ reader'.read <= segs'[Current'].indexSize
              /\ segs'[Current'].base + reader'.read = InitialOffset + copied
              /\ \E l \in segments' : /\ reader'.todo = {j \in segments' : Current' <= j /\ j <= l}
                                      /\ reader'.upto <= segs'[l].next
  <2>1. PICK x \in reader.todo : x # i
    BY <1>10, <1>13
  <2>2. x \in segments /\ x \in Nat /\ i < x /\ x <= last /\ last \in Nat
    <3>1. x \in segments /\ i <= x /\ x <= last
      BY <1>7, <2>1
    <3>2. x \in Nat /\ last \in Nat
      BY <1>4, <3>1
    <3> QED BY <1>3, <2>1, <3>1, <3>2 DEF i
  <2>3. i # active /\ active \in Nat
    <3>1. active \in Nat
      BY <1>1, RunningFacts DEF TypeOK
    <3> QED BY <1>3, <1>4, <2>2, <3>1
  <2>4. i + 1 \in segments /\ segs[i].next = segs[i + 1].base
    BY <1>3, <1>4, <2>3 DEF Contiguous, i
  <2>5. i <= i + 1 /\ i + 1 <= last /\ i + 1 # i
    BY <1>3, <2>2 DEF i
  <2>6. i + 1 \in reader'.todo
    BY <1>7, <1>10, <2>4, <2>5
  <2>7. ASSUME NEW j \in segments PROVE i <= j /\ j # i <=> i + 1 <= j
    BY <1>3, <1>4 DEF i
  <2>8. reader'.todo = {j \in segments : i + 1 <= j /\ j <= last}
    BY <1>7, <1>10, <2>7
  <2>9. Current' = i + 1
    <3> DEFINE S == reader'.todo
               m == Min(S)
    <3>1. S \in SUBSET Nat
      BY <1>10
    <3> HIDE DEF S
    <3>2. m \in S /\ m <= i + 1
      BY <2>6, <3>1, MinOfSet DEF S
    <3> HIDE DEF m
    <3>3. i + 1 <= m /\ m \in Nat
      BY <2>8, <3>1, <3>2 DEF S
    <3>4. m = i + 1
      BY <1>3, <3>2, <3>3 DEF i
    <3> QED BY <3>4 DEF m, S, Current
  <2>10. segs[i + 1].base = InitialOffset + copied /\ segs[i + 1].base + 0 = segs[i + 1].base
         /\ 0 <= segs[i + 1].indexSize
    BY <1>4, <1>9, <2>4
  <2>11. /\ reader'.read <= segs'[Current'].indexSize
         /\ segs'[Current'].base + reader'.read = InitialOffset + copied
    BY <1>5, <1>10, <2>4, <2>9, <2>10
  <2>12. /\ reader'.todo = {j \in segments' : Current' <= j /\ j <= last}
         /\ reader'.upto <= segs'[last].next /\ last \in segments'
    BY <1>5, <1>7, <1>10, <2>8, <2>9
  <2> QED BY <2>11, <2>12
<1>14. reader'.todo \subseteq segments' /\ copied = Len(reader'.sink) /\ mode' = "running"
  BY <1>1, <1>5, <1>6, <1>10 DEF copied
<1>15. ReaderOK'
  BY <1>10, <1>11, <1>12, <1>13, <1>14 DEF ReaderOK
<1> QED BY <1>1, <1>3, <1>15 DEF i

(***************************************************************************)
(* Every step of the machine                                               *)
(***************************************************************************)

\* A step that appends or flushes, and may move the reader.
LEMMA LogStepKeepsFInv ==
  ASSUME SingleWriter, FInv, mode = "running", LogStep,
         UNCHANGED <<mode, dir, restarts, killed, snapfile>>,
         Usable' /\ Extends => (reader' # NoReader => ReaderOK')
  PROVE  FInv'
<1>1. /\ RInv' /\ ~killed' /\ keepFrom' = 0 /\ BeginsAtInitial' /\ Extends
      /\ \A r \in acked' : InitialOffset <= r.offset
  BY LogStepKept
<1>2. mode' = "running" /\ Usable'
  BY <1>1 DEF RInv
<1>3. snapfile # NoSnapshot => SnapfileOK'
  <2>1. acked \subseteq acked'
    BY <1>1 DEF Extends
  <2> QED BY <2>1, SnapfileKept DEF FInv
<1>4. reader' # NoReader => ReaderOK'
  BY <1>1, <1>2
<1> QED BY <1>1, <1>2, <1>3, <1>4 DEF FInv

LEMMA AppendOrReadKeepsFInv ==
  ASSUME SingleWriter, FInv, mode = "running", LogStep,
         UNCHANGED <<mode, dir, restarts, killed, reader, snapfile>>
  PROVE  FInv'
<1>1. ASSUME Usable', Extends, reader' # NoReader PROVE ReaderOK'
  <2>1. ReaderOK /\ Usable
    BY <1>1, RunningFacts DEF FInv
  <2>2. TypeOK'
    BY <1>1 DEF Usable
  <2> QED BY <1>1, <2>1, <2>2, ReaderKept
<1> QED BY <1>1, LogStepKeepsFInv

\* A step that leaves the log as it is.
LEMMA SameLogKeepsFInv ==
  ASSUME SingleWriter, FInv, UNCHANGED rvars,
         reader' # NoReader => ReaderOK', snapfile' # NoSnapshot => SnapfileOK',
         mode = "failed" => snapfile' = snapfile
  PROVE  FInv'
<1>1. /\ RInv' /\ mode' = mode /\ killed' = killed /\ keepFrom' = keepFrom /\ acked' = acked
      /\ stores' = stores /\ indexes' = indexes
  BY SameKeepsRInv DEF FInv, rvars
<1>2. BeginsAtInitial' <=> BeginsAtInitial
  BY <1>1 DEF BeginsAtInitial, Bases
<1>3. mode' = "failed" => HasRecords'
  BY <1>1 DEF FInv, HasRecords
<1> QED BY <1>1, <1>2, <1>3 DEF FInv

LEMMA ShutdownKeepsFInv ==
  ASSUME FInv, Shutdown
  PROVE  FInv'
<1>1. /\ CleanClose /\ mode = "running" /\ mode' = "down" /\ killed' = killed
      /\ reader' = NoReader /\ snapfile' = snapfile
  BY DEF Shutdown, CleanClose, Close, Die
<1>2. Usable /\ BeginsAtInitial /\ DOMAIN stores = DOMAIN indexes
  BY <1>1, RunningFacts DEF TypeOK
<1>3. RInv' /\ acked' = acked /\ keepFrom' = keepFrom /\ Bases' = Bases
  BY <1>1, <1>2, CleanCloseKeepsRInv, CleanCloseFiles DEF FInv, Bases
<1>4. BeginsAtInitial'
  BY <1>2, <1>3 DEF BeginsAtInitial
<1>5. snapfile' # NoSnapshot => SnapfileOK'
  BY <1>1, <1>3, SnapfileKept DEF FInv
<1> QED BY <1>1, <1>3, <1>4, <1>5 DEF FInv

\* Start without a record to restore: the log is opened with the files it had.
LEMMA OpenKeepsFInv ==
  ASSUME FInv, Open, UNCHANGED <<reader, snapfile>>
  PROVE  FInv'
<1>1. /\ mode = "down" /\ mode' = "running" /\ killed' = killed
      /\ acked' = acked /\ keepFrom' = keepFrom
  BY DEF Open
<1>2. RInv' /\ FilesUsable /\ Closed /\ BeginsAtInitial
  BY <1>1, OpenKeepsRInv DEF FInv, RInv
<1>3. ToOpen = Bases
  BY <1>2, ToOpenFacts DEF Closed
<1>4. DOMAIN stores' = ToOpen /\ DOMAIN indexes' = ToOpen
  BY <1>2, OpenShape
<1>5. BeginsAtInitial'
  BY <1>2, <1>3, <1>4 DEF BeginsAtInitial, Bases
<1>6. reader' = NoReader
  BY <1>1 DEF FInv, ReaderOK
<1>7. snapfile' # NoSnapshot => SnapfileOK'
  BY <1>1, SnapfileKept DEF FInv
<1> QED BY <1>1, <1>2, <1>5, <1>6, <1>7 DEF FInv

\* Start with a snapshot: the log is wiped, and the process does not come up.
LEMMA WipeKeepsFInv ==
  ASSUME FInv, Start, HasRecords
  PROVE  FInv'
<1>1. /\ mode = "down" /\ mode' = "failed" /\ dir' = FALSE
      /\ restarts < MaxRestarts /\ restarts' = restarts + 1
      /\ UNCHANGED <<panicked, acked, keepFrom, killed, reader, snapfile>>
  BY DEF Start
<1>2. restarts' \in 0..MaxRestarts
  BY <1>1, RestartAssumption DEF FInv, RInv
<1>3. RInv'
  BY <1>1, <1>2 DEF FInv, RInv, OffsetsUnique
<1>4. reader' = NoReader
  BY <1>1 DEF FInv, ReaderOK
<1>5. snapfile' # NoSnapshot => SnapfileOK'
  BY <1>1, SnapfileKept DEF FInv
<1>6. HasRecords'
  BY <1>1 DEF HasRecords
<1> QED BY <1>1, <1>3, <1>4, <1>5, <1>6 DEF FInv

LEMMA NextFsmInv == SingleWriter /\ FInv /\ [NextFsm]_fvars => FInv'
<1> SUFFICES ASSUME SingleWriter, FInv, [NextFsm]_fvars PROVE FInv'
  OBVIOUS
<1>1. CASE Apply
  <2>1. LogStep /\ mode = "running" /\ UNCHANGED <<mode, dir, restarts, killed, reader, snapfile>>
    BY <1>1 DEF Apply, Running, LogStep
  <2> QED BY <2>1, AppendOrReadKeepsFInv
<1>2. ASSUME NEW off \in 0..MaxOffset, ReadOffset(off) PROVE FInv'
  <2>1. Read(off) /\ mode = "running" /\ UNCHANGED <<mode, dir, restarts, killed, reader, snapfile>>
    BY <1>2 DEF ReadOffset, Running
  <2>2. LogStep
    BY <2>1, RunningFacts, ReadFlushes DEF LogStep
  <2> QED BY <2>1, <2>2, AppendOrReadKeepsFInv
<1>3. CASE Snapshot
  <2>1. ReaderOK' /\ mode = "running" /\ UNCHANGED rvars /\ snapfile' = snapfile
    BY <1>3, SnapshotReader DEF Snapshot, Running, rvars
  <2>2. snapfile # NoSnapshot => SnapfileOK'
    <3>1. acked' = acked
      BY <2>1 DEF rvars
    <3> QED BY <2>1, <3>1, SnapfileKept DEF FInv
  <2> QED BY <2>1, <2>2, SameLogKeepsFInv
<1>4. ASSUME NEW n \in 1..MaxOffset, PersistRead(n) PROVE FInv'
  <2>1. n \in Nat
    BY OffsetsAssumption
  <2>2. ReaderOK' /\ Flush(Current) /\ Current \in segments
    BY <1>4, <2>1, PersistReadReader
  <2>3. mode = "running" /\ UNCHANGED <<mode, dir, restarts, killed, snapfile>>
    BY <1>4 DEF PersistRead, Running
  <2>4. LogStep
    BY <2>2 DEF LogStep
  <2> QED BY <2>2, <2>3, <2>4, LogStepKeepsFInv
<1>5. CASE PersistNext
  <2>1. ReaderOK' /\ Flush(Current) /\ Current \in segments
    BY <1>5, PersistNextReader
  <2>2. mode = "running" /\ UNCHANGED <<mode, dir, restarts, killed, snapfile>>
    BY <1>5 DEF PersistNext, Running
  <2>3. LogStep
    BY <2>1 DEF LogStep
  <2> QED BY <2>1, <2>2, <2>3, LogStepKeepsFInv
<1>6. CASE PersistDone
  <2>1. /\ mode = "running" /\ reader # NoReader /\ reader.todo = {}
        /\ snapfile' = [records |-> reader.sink, upto |-> reader.upto]
        /\ reader' = NoReader /\ UNCHANGED rvars /\ acked' = acked
    BY <1>6 DEF PersistDone, Running, rvars
  <2>2. /\ reader \in [todo : SUBSET Nat, read : Nat, sink : Seq(Record), upto : Nat]
        /\ AckedPrefix(reader.sink) /\ reader.upto <= InitialOffset + Len(reader.sink)
    BY <2>1 DEF FInv, ReaderOK
  <2>3. snapfile'.records = reader.sink /\ snapfile'.upto = reader.upto
    BY <2>1
  <2>4. SnapfileOK'
    BY <2>1, <2>2, <2>3 DEF SnapfileOK, AckedPrefix
  <2> QED BY <2>1, <2>4, SameLogKeepsFInv
<1>7. CASE Shutdown
  BY <1>7, ShutdownKeepsFInv
<1>8. CASE Start
  <2>1. CASE HasRecords
    BY <1>8, <2>1, WipeKeepsFInv
  <2>2. CASE ~HasRecords
    BY <1>8, <2>2, OpenKeepsFInv DEF Start
  <2> QED BY <2>1, <2>2
<1>9. CASE UNCHANGED fvars
  <2>1. UNCHANGED rvars /\ reader' = reader /\ snapfile' = snapfile /\ mode' = mode
    BY <1>9 DEF fvars, rvars
  <2>2. UNCHANGED <<segs, segments, acked>>
    BY <1>9 DEF fvars
  <2>3. snapfile' # NoSnapshot => SnapfileOK'
    BY <2>1, <2>2, SnapfileKept DEF FInv
  <2>4. reader' # NoReader => ReaderOK'
    BY <2>1, <2>2 DEF FInv, ReaderOK, AckedPrefix, Current
  <2> QED BY <2>1, <2>3, <2>4, SameLogKeepsFInv
<1> QED BY <1>1, <1>2, <1>3, <1>4, <1>5, <1>6, <1>7, <1>8, <1>9 DEF NextFsm

\* The inductive invariant of the machine: its log begins at the initial offset,
\* and the reader and the snapshot file hold the records acknowledged first.
THEOREM FsmInvHolds ==
  ASSUME SingleWriter
  PROVE  SpecFsm => []FInv
<1>1. InitFsm => FInv
  BY InitFsmInv
<1>2. FInv /\ [NextFsm]_fvars => FInv'
  BY NextFsmInv
<1> QED BY <1>1, <1>2, PTL DEF SpecFsm

\* The first records acknowledged are what the running log reads first.
LEMMA PrefixIsRead ==
  ASSUME FInv, mode = "running", NEW recs, AckedPrefix(recs)
  PROVE  recs = RecordsBelow(InitialOffset + Len(recs))
<1> DEFINE n == Len(recs)
<1>1. recs \in Seq(Record) /\ n \in Nat
  BY LenProperties DEF AckedPrefix
<1>2. ASSUME NEW k \in 1..n PROVE recs[k] = ReadRecord(InitialOffset + k - 1)
  <2>1. recs[k] \in acked /\ recs[k].offset = InitialOffset + (k - 1)
    BY <1>2 DEF AckedPrefix
  <2>2. InitialOffset + (k - 1) = InitialOffset + k - 1 /\ InitialOffset + k - 1 \in Nat
    BY <1>1, OffsetsAssumption
  <2>3. Kept /\ Shows /\ keepFrom = 0
    BY RunningFacts, LogInvShows DEF FInv
  <2>4. recs[k].offset \in Nat /\ ~(recs[k].offset < keepFrom)
    BY <2>1, <2>2, <2>3
  <2>5. ReadRecord(recs[k].offset) = recs[k]
    BY <2>1, <2>3, <2>4 DEF Kept, Shows
  <2> QED BY <2>1, <2>2, <2>5
<1>3. recs = [k \in 1..n |-> recs[k]]
  BY <1>1, SeqDef
<1> HIDE DEF n
<1>4. 1..((InitialOffset + n) - InitialOffset) = 1..n
  BY <1>1, OffsetsAssumption
<1>5. RecordsBelow(InitialOffset + n) = [k \in 1..n |-> ReadRecord(InitialOffset + k - 1)]
  BY <1>4 DEF RecordsBelow
<1> QED BY <1>2, <1>3, <1>5 DEF n

\* Appends, rotations and flushes that fall between the reads of Persist
\* (distributed.go:315) leave no record out of the snapshot, repeat none and
\* change no order, and all that was applied before Snapshot is in it.
THEOREM SnapshotsArePrefixes ==
  ASSUME SingleWriter
  PROVE  SpecFsm => []SnapshotIsPrefix
<1>1. FInv => SnapshotIsPrefix
  <2> SUFFICES ASSUME FInv, Running, snapfile # NoSnapshot
               PROVE  /\ snapfile.records = RecordsBelow(InitialOffset + Len(snapfile.records))
                      /\ Len(snapfile.records) >= snapfile.upto - InitialOffset
    BY DEF SnapshotIsPrefix
  <2>1. /\ snapfile \in [records : Seq(Record), upto : Nat] /\ AckedPrefix(snapfile.records)
        /\ snapfile.upto <= InitialOffset + Len(snapfile.records)
    BY DEF FInv, SnapfileOK
  <2>2. snapfile.records = RecordsBelow(InitialOffset + Len(snapfile.records))
    BY <2>1, PrefixIsRead DEF Running
  <2>3. Len(snapfile.records) >= snapfile.upto - InitialOffset
    BY <2>1, LenProperties, OffsetsAssumption
  <2> QED BY <2>2, <2>3
<1> QED BY <1>1, FsmInvHolds, PTL

\* A start that has wiped the user log (log.go:219) and failed has lost none of
\* the records acknowledged before its snapshot: all are in the file.
THEOREM WipedRecordsAreInSnapshot ==
  ASSUME SingleWriter
  PROVE  SpecFsm => []WipedIsInSnapshot
<1>1. FInv => WipedIsInSnapshot
  <2> SUFFICES ASSUME FInv, mode = "failed", NEW r \in acked, r.offset < snapfile.upto
               PROVE  r \in Range(snapfile.records)
    BY DEF WipedIsInSnapshot
  <2> DEFINE recs == snapfile.records
             k == r.offset - InitialOffset + 1
  <2>1. SnapfileOK /\ OffsetsUnique /\ InitialOffset <= r.offset /\ r.offset \in Nat
    BY DEF FInv, HasRecords, RInv, Record
  <2>2. /\ recs \in Seq(Record) /\ AckedPrefix(recs) /\ snapfile.upto \in Nat
        /\ snapfile.upto <= InitialOffset + Len(recs) /\ Len(recs) \in Nat
    BY <2>1, LenProperties DEF SnapfileOK
  <2>3. k \in 1..Len(recs) /\ InitialOffset + (k - 1) = r.offset
    <3> DEFINE off == r.offset
               upto == snapfile.upto
               n == Len(recs)
    <3>1. off < upto /\ off \in Nat /\ upto \in Nat /\ n \in Nat
          /\ InitialOffset <= off /\ upto <= InitialOffset + n
      BY <2>1, <2>2
    <3> HIDE DEF off, upto, n
    <3>2. off - InitialOffset + 1 \in 1..n
          /\ InitialOffset + ((off - InitialOffset + 1) - 1) = off
      BY <3>1, OffsetsAssumption
    <3> QED BY <3>2 DEF off, upto, n
  <2> HIDE DEF k
  <2>4. recs[k] \in acked /\ recs[k].offset = r.offset
    BY <2>2, <2>3 DEF AckedPrefix
  <2>5. recs[k] = r
    BY <2>1, <2>4 DEF OffsetsUnique
  <2>6. DOMAIN recs = 1..Len(recs)
    BY <2>2, LenProperties
  <2> QED BY <2>3, <2>5, <2>6 DEF Range
<1> QED BY <1>1, FsmInvHolds, PTL

=============================================================================
