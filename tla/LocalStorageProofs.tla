-------------------------- MODULE LocalStorageProofs --------------------------
(***************************************************************************)
(* Theorems about the recordings on the server's disk, for any cameras,    *)
(* segment lengths and numbers of frames, crashes, restarts and faults.    *)
(*                                                                         *)
(* The argument: each camera has at most one segment under way, in the     *)
(* table of writers or on its way out of it, and unless it was opened over *)
(* an indexed one nothing in the index names its file.  So what happens to *)
(* that file while it is written, closed or lost happens to no recording   *)
(* that is in the index; and a file enters the index with the times and    *)
(* the size of what is in it.                                              *)
(***************************************************************************)
EXTENDS LocalStorage, SumTheorems, SequenceTheorems

(* The writer of a camera, which a task may have taken out to finalize it. *)
OpenWriter(s) ==
  IF closing # NoWriter /\ s = frame.source THEN closing ELSE writers[s]

OpenPath(s) == <<s, Seg(OpenWriter(s))>>

ControlSound ==
  /\ ~up => counts.crashes > 0
  /\ closing # NoWriter => pc = "closing"
  /\ up /\ pc = "closing" => closing # NoWriter
  /\ pc # "idle" => /\ frame \in Frame
                    /\ counts.restarts = 0 => frame.t = clock[frame.source]
  /\ pc \in {"closing", "creating"} => writers[frame.source] = NoWriter
  /\ pc = "writing" /\ HasWriter(frame.source) =>
       Seg(writers[frame.source]) = SegmentOf(frame.t)

HasTorn(f) == f # NoFile /\ Torn \in Range(f.contents)

(* The files of a camera hold frames of it, those of their segment only.   *)
FilesSound(s) ==
  \A g \in Segments :
    /\ \A f \in FramesOf(files[<<s, g>>]) :
         f \in Frame /\ f.source = s /\ SegmentOf(f.t) = g
    /\ HasTorn(files[<<s, g>>]) => counts.crashes + counts.faults > 0

WriterSound(s) ==
  OpenWriter(s) # NoWriter =>
    /\ SegmentOf(OpenWriter(s).end) = Seg(OpenWriter(s))
    /\ OpenPath(s) \notin reopened => ~Indexed(OpenPath(s))
    /\ counts.restarts = 0 =>
         /\ OpenWriter(s).start <= OpenWriter(s).end
         /\ OpenWriter(s).end <= clock[s]
         /\ \A f \in FramesOf(files[OpenPath(s)]) :
              f.t \in OpenWriter(s).start .. OpenWriter(s).end

EntriesSound(s) ==
  /\ \A i, j \in DOMAIN index[s] :
       index[s][i].seg = index[s][j].seg /\ i # j =>
         <<s, index[s][i].seg>> \in reopened
  /\ counts.crashes = 0 =>
       \A i \in DOMAIN index[s] :
         /\ SegmentOf(index[s][i].start) = index[s][i].seg
         /\ SegmentOf(index[s][i].end) = index[s][i].seg

(* The times of a file or an entry include a frame's.                      *)
Holds(e, f) == f.t \in e.start .. e.end

(* A frame of a finalized segment is where the index says.                 *)
Kept(s, f) ==
  LET p == <<s, SegmentOf(f.t)>>
  IN p \notin reopened =>
       /\ \E i \in DOMAIN index[s] :
            index[s][i].seg = SegmentOf(f.t) /\ Holds(index[s][i], f)
       /\ files[p] # NoFile
       /\ files[p].header /\ Holds(files[p], f) /\ f \in FramesOf(files[p])

DurableSound(s) ==
  counts.restarts = 0 => \A f \in durable[s] : Kept(s, f)

WriterCounted(s) ==
  OpenWriter(s) # NoWriter =>
    /\ files[OpenPath(s)] # NoFile
    /\ files[OpenPath(s)].header
    /\ OpenWriter(s).bytes = SizeOf(files[OpenPath(s)])

EntriesCounted(s) ==
  \A i \in DOMAIN index[s] :
    index[s][i].size = SizeOf(files[<<s, index[s][i].seg>>])

SizesSound(s) ==
  counts.faults = 0 /\ reopened = {} => WriterCounted(s) /\ EntriesCounted(s)

SourceSound(s) ==
  /\ FilesSound(s) /\ WriterSound(s) /\ EntriesSound(s)
  /\ DurableSound(s) /\ SizesSound(s)

TotalSound == total_bytes = BytesIn(index)

DiskSound == (\A s \in Sources : SourceSound(s)) /\ TotalSound

StorageInv == TypeOK /\ ControlSound /\ DiskSound

-----------------------------------------------------------------------------
(* Times, segments and paths.                                              *)

LEMMA SegmentsFollowTimes ==
  ASSUME NEW a \in Nat, NEW b \in Nat, a <= b
  PROVE  SegmentOf(a) \in Nat /\ SegmentOf(a) <= SegmentOf(b)
<1>1. SegmentDuration \in Nat /\ SegmentDuration > 0
  BY StorageAssumption
<1>2. ASSUME NEW d \in Nat, d > 0
      PROVE  a \div d \in Nat /\ a \div d <= b \div d
  BY <1>2, Z3T(30)
<1>3. QED
  BY <1>1, <1>2 DEF SegmentOf

LEMMA TimesAreNat == MaxTime \in Nat /\ Times \subseteq Nat
  BY StorageAssumption DEF Times

LEMMA PathParts ==
  /\ \A s, g : <<s, g>>[1] = s /\ <<s, g>>[2] = g
  /\ \A s \in Sources, g \in Segments : <<s, g>> \in Paths
  /\ \A p \in Paths : p[1] \in Sources /\ p[2] \in Segments /\ p = <<p[1], p[2]>>
  /\ \A t \in Times : SegmentOf(t) \in Segments
  BY DEF Paths, Segments

LEMMA IndexedBySegment ==
  ASSUME NEW s, NEW g
  PROVE  Indexed(<<s, g>>) <=> \E i \in DOMAIN index[s] : index[s][i].seg = g
  BY DEF Indexed

LEMMA SegmentsFinite == IsFiniteSet(Segments)
<1> DEFINE f == [t \in Times |-> SegmentOf(t)]
<1>1. IsFiniteSet(Times)
  BY StorageAssumption, FS_Interval DEF Times
<1>2. f \in Surjection(Times, Segments)
  BY DEF Surjection, Segments
<1>3. QED
  BY <1>1, <1>2, FS_Surjection

LEMMA TornIsNoFrame == Torn \notin Frame /\ \A f \in Frame : f # Torn
<1>1. \A f \in Frame : f.n # 0
  BY DEF Frame
<1>2. QED
  BY <1>1 DEF Torn

-----------------------------------------------------------------------------
(* What is in a sequence.                                                  *)

LEMMA SeqParts ==
  ASSUME NEW S, NEW c \in Seq(S)
  PROVE  /\ Range(c) \subseteq S /\ Len(c) \in Nat /\ DOMAIN c = 1 .. Len(c)
         /\ \A i \in DOMAIN c : c[i] \in S /\ c[i] \in Range(c)
<1>1. Len(c) \in Nat /\ DOMAIN c = 1 .. Len(c)
  OBVIOUS
<1>2. \A i \in 1 .. Len(c) : c[i] \in S
  OBVIOUS
<1>3. QED
  BY <1>1, <1>2 DEF Range

LEMMA RangeOfAppend ==
  ASSUME NEW S, NEW c \in Seq(S), NEW x \in S
  PROVE  /\ Append(c, x) \in Seq(S) /\ Len(Append(c, x)) = Len(c) + 1
         /\ Range(Append(c, x)) = Range(c) \cup {x}
<1> DEFINE n == Len(c)
           d == Append(c, x)
<1>1. n \in Nat /\ DOMAIN c = 1 .. n
  BY SeqParts
<1>2. d \in Seq(S) /\ Len(d) = n + 1 /\ DOMAIN d = 1 .. n + 1
  OBVIOUS
<1>3. (\A i \in 1 .. n : d[i] = c[i]) /\ d[n + 1] = x
  OBVIOUS
<1> HIDE DEF n, d
<1>4. \A i : i \in 1 .. n + 1 <=> i \in 1 .. n \/ i = n + 1
  BY <1>1
<1>5. ASSUME NEW y \in Range(d) PROVE y \in Range(c) \cup {x}
  <2>1. PICK i \in 1 .. n + 1 : y = d[i]
    BY <1>2, <1>5 DEF Range
  <2>2. QED
    BY <1>1, <1>3, <1>4, <2>1 DEF Range
<1>6. ASSUME NEW y \in Range(c) \cup {x} PROVE y \in Range(d)
  <2>1. CASE y = x
    BY <1>2, <1>3, <1>4, <2>1 DEF Range
  <2>2. CASE y \in Range(c)
    <3>1. PICK i \in 1 .. n : y = c[i]
      BY <1>1, <2>2 DEF Range
    <3>2. QED
      BY <1>2, <1>3, <1>4, <3>1 DEF Range
  <2>3. QED
    BY <1>6, <2>1, <2>2
<1>7. QED
  BY <1>2, <1>5, <1>6 DEF d, n

LEMMA RangeOfStart ==
  ASSUME NEW S, NEW c \in Seq(S), NEW k \in 0 .. Len(c)
  PROVE  /\ SubSeq(c, 1, k) \in Seq(S) /\ Range(SubSeq(c, 1, k)) \subseteq Range(c)
<1> DEFINE n == Len(c)
           d == SubSeq(c, 1, k)
<1>1. n \in Nat /\ DOMAIN c = 1 .. n
  BY SeqParts
<1>2. d \in Seq(S) /\ DOMAIN d = 1 .. k /\ \A i \in 1 .. k : d[i] = c[i]
  OBVIOUS
<1>3. 1 .. k \subseteq 1 .. n
  BY <1>1 DEF n
<1> HIDE DEF n, d
<1>4. Range(d) \subseteq Range(c)
  BY <1>1, <1>2, <1>3 DEF Range
<1>5. QED
  BY <1>2, <1>4 DEF d

(* What is left without some entries are the others.                       *)
WithoutStep(e, I, h, i) ==
  IF i = 0 THEN <<>> ELSE IF i \in I THEN h[i - 1] ELSE Append(h[i - 1], e[i])

LeavingOut(h, e, I, n) == h = [i \in 0 .. n |-> WithoutStep(e, I, h, i)]

LEMMA LeavingOutExists ==
  ASSUME NEW e, NEW I, NEW m \in Nat
  PROVE  \E h : LeavingOut(h, e, I, m)
<1> DEFINE T == {n \in Nat : \E h : LeavingOut(h, e, I, n)}
<1>1. 0 \in T
  <2>1. LeavingOut([i \in 0 .. 0 |-> <<>>], e, I, 0)
    BY DEF LeavingOut, WithoutStep
  <2>2. QED
    BY <2>1
<1>2. ASSUME NEW n \in Nat, n \in T PROVE n + 1 \in T
  <2>1. PICK g : LeavingOut(g, e, I, n)
    BY <1>2
  <2> DEFINE h == [i \in 0 .. n + 1 |-> WithoutStep(e, I, g, i)]
  <2>2. \A i \in 0 .. n : h[i] = g[i]
    BY <2>1 DEF LeavingOut
  <2>3. \A i \in 0 .. n + 1 : i # 0 => i - 1 \in 0 .. n
    OBVIOUS
  <2>4. \A i \in 0 .. n + 1 : WithoutStep(e, I, g, i) = WithoutStep(e, I, h, i)
    <3> HIDE DEF h
    <3>1. QED
      BY <2>2, <2>3 DEF WithoutStep
  <2>5. LeavingOut(h, e, I, n + 1)
    BY <2>4 DEF LeavingOut
  <2> HIDE DEF h
  <2>6. QED
    BY <2>5
<1>3. Nat \subseteq T
  <2> HIDE DEF T
  <2>1. QED
    BY <1>1, <1>2, AllNaturals
<1>4. QED
  BY <1>3

(* r is e at the places p, which are those of D.                           *)
PickedAt(r, e, p, D) ==
  /\ p \in [1 .. Len(r) -> D]
  /\ \A i, j \in 1 .. Len(r) : p[i] = p[j] => i = j
  /\ \A j \in D : \E i \in 1 .. Len(r) : p[i] = j
  /\ \A i \in 1 .. Len(r) : r[i] = e[p[i]]

LEMMA PickedAndAppended ==
  ASSUME NEW S, NEW e, NEW r \in Seq(S), NEW p, NEW D, PickedAt(r, e, p, D),
         NEW x, x \notin D, e[x] \in S
  PROVE  \E q : PickedAt(Append(r, e[x]), e, q, D \cup {x})
<1> DEFINE n == Len(r)
           a == Append(r, e[x])
           q == [i \in 1 .. n + 1 |-> IF i = n + 1 THEN x ELSE p[i]]
<1>1. n \in Nat
  OBVIOUS
<1>2. /\ Len(a) = n + 1 /\ a[n + 1] = e[x]
      /\ \A i \in 1 .. n : a[i] = r[i]
  OBVIOUS
<1>3. /\ p \in [1 .. n -> D]
      /\ \A i, j \in 1 .. n : p[i] = p[j] => i = j
      /\ \A j \in D : \E i \in 1 .. n : p[i] = j
      /\ \A i \in 1 .. n : r[i] = e[p[i]]
  BY DEF PickedAt
<1> HIDE DEF n, a
<1>4. \A i : i \in 1 .. n + 1 <=> (i \in 1 .. n /\ i # n + 1) \/ i = n + 1
  BY <1>1
<1>5. /\ q \in [1 .. n + 1 -> D \cup {x}]
      /\ q[n + 1] = x /\ \A i \in 1 .. n : q[i] = p[i] /\ q[i] \in D
  <2>1. \A i \in 1 .. n : p[i] \in D
    BY <1>3
  <2>2. ASSUME NEW i \in 1 .. n PROVE q[i] = p[i]
    <3>1. i \in 1 .. n + 1 /\ i # n + 1
      BY <1>1
    <3>2. QED
      BY <3>1
  <2>3. q[n + 1] = x
    BY <1>4
  <2>4. q = [i \in 1 .. n + 1 |-> q[i]]
    OBVIOUS
  <2> HIDE DEF q
  <2>5. \A i \in 1 .. n + 1 : q[i] \in D \cup {x}
    BY <1>4, <2>1, <2>2, <2>3
  <2>6. QED
    BY <2>1, <2>2, <2>3, <2>4, <2>5
<1> HIDE DEF q
<1>6. \A i, j \in 1 .. n + 1 : q[i] = q[j] => i = j
  BY <1>3, <1>4, <1>5
<1>7. \A j \in D \cup {x} : \E i \in 1 .. n + 1 : q[i] = j
  BY <1>3, <1>4, <1>5
<1>8. \A i \in 1 .. n + 1 : a[i] = e[q[i]]
  BY <1>2, <1>3, <1>4, <1>5
<1>9. PickedAt(a, e, q, D \cup {x})
  BY <1>2, <1>5, <1>6, <1>7, <1>8 DEF PickedAt
<1>10. QED
  BY <1>9 DEF a

LEMMA WithoutFacts ==
  ASSUME NEW S, NEW e \in Seq(S), NEW I
  PROVE  /\ Without(e, I) \in Seq(S)
         /\ \E p : PickedAt(Without(e, I), e, p, DOMAIN e \ I)
<1> DEFINE m == Len(e)
           h == CHOOSE k : LeavingOut(k, e, I, m)
           Out(i) == \E p : PickedAt(h[i], e, p, (1 .. i) \ I)
           C == {i \in Nat : i <= m => h[i] \in Seq(S) /\ Out(i)}
<1>1. m \in Nat /\ DOMAIN e = 1 .. m /\ \A i \in 1 .. m : e[i] \in S
  BY SeqParts
<1>2. Without(e, I) = h[m]
  BY DEF Without, LeavingOut, WithoutStep
<1>3. LeavingOut(h, e, I, m)
  BY <1>1, LeavingOutExists
<1> HIDE DEF h, m
<1>4. \A i \in 0 .. m : h[i] = WithoutStep(e, I, h, i)
  BY <1>3 DEF LeavingOut
<1>5. 0 \in C
  <2>1. h[0] = <<>> /\ (1 .. 0) \ I = {}
    BY <1>1, <1>4 DEF WithoutStep
  <2>2. <<>> \in Seq(S) /\ PickedAt(<<>>, e, <<>>, {})
    BY DEF PickedAt
  <2>3. QED
    BY <2>1, <2>2
<1>6. ASSUME NEW i \in Nat, i \in C PROVE i + 1 \in C
  <2>1. SUFFICES ASSUME i + 1 <= m
                 PROVE  h[i + 1] \in Seq(S) /\ Out(i + 1)
    <3> HIDE DEF Out
    <3>1. QED
      OBVIOUS
  <2>2. i <= m /\ i + 1 \in 1 .. m /\ i + 1 \in 0 .. m /\ i + 1 # 0 /\ (i + 1) - 1 = i
    BY <1>1, <2>1
  <2>3. h[i] \in Seq(S) /\ Out(i)
    <3> HIDE DEF Out
    <3>1. QED
      BY <1>6, <2>2
  <2>4. h[i + 1] = IF i + 1 \in I THEN h[i] ELSE Append(h[i], e[i + 1])
    BY <1>4, <2>2 DEF WithoutStep
  <2>5. e[i + 1] \in S
    BY <1>1, <2>2
  <2>6. i + 1 \notin 1 .. i /\ \A j : j \in 1 .. i + 1 <=> j \in 1 .. i \/ j = i + 1
    OBVIOUS
  <2>7. CASE i + 1 \in I
    <3>1. (1 .. i + 1) \ I = (1 .. i) \ I
      BY <2>6, <2>7
    <3>2. QED
      BY <2>3, <2>4, <2>7, <3>1
  <2>8. CASE i + 1 \notin I
    <3>1. (1 .. i + 1) \ I = ((1 .. i) \ I) \cup {i + 1} /\ i + 1 \notin (1 .. i) \ I
      BY <2>6, <2>8
    <3>2. \E q : PickedAt(Append(h[i], e[i + 1]), e, q, ((1 .. i) \ I) \cup {i + 1})
      BY <2>3, <2>5, <3>1, PickedAndAppended
    <3>3. Append(h[i], e[i + 1]) \in Seq(S)
      BY <2>3, <2>5
    <3>4. QED
      BY <2>4, <2>8, <3>1, <3>2, <3>3
  <2>9. QED
    BY <2>7, <2>8
<1>7. Nat \subseteq C
  <2> HIDE DEF C
  <2>1. QED
    BY <1>5, <1>6, AllNaturals
<1>8. h[m] \in Seq(S) /\ Out(m)
  <2>1. m <= m
    BY <1>1
  <2>2. m \in C
    <3> HIDE DEF C
    <3>1. QED
      BY <1>1, <1>7
  <2> HIDE DEF Out
  <2>3. QED
    BY <2>1, <2>2
<1>9. QED
  BY <1>1, <1>2, <1>8

(* What is found with a time each can be sorted by it: the one with the    *)
(* earliest first, then the others.                                        *)
LEMMA SortedExists ==
  ASSUME NEW S, IsFiniteSet(S), \A x \in S : x.start \in Nat
  PROVE  \E e \in [1 .. Cardinality(S) -> S] :
           /\ IsInjective(e)
           /\ \A i, j \in DOMAIN e : i < j => e[i].start <= e[j].start
<1> DEFINE InOrder(e, T, n) ==
             /\ e \in [1 .. n -> T]
             /\ \A i, j \in 1 .. n : e[i] = e[j] => i = j
             /\ \A i, j \in 1 .. n : i < j => e[i].start <= e[j].start
           C == {T \in SUBSET S : \E e : InOrder(e, T, Cardinality(T))}
<1>1. {} \in C
  <2>1. InOrder([i \in 1 .. 0 |-> i], {}, 0)
    OBVIOUS
  <2>2. Cardinality({}) = 0
    BY FS_EmptySet
  <2>3. QED
    BY <2>1, <2>2
<1>2. ASSUME NEW T \in SUBSET S, T # {}, \A x \in T : T \ {x} \in C PROVE T \in C
  <2>1. PICK m \in T : \A x \in T : m.start <= x.start
    <3>1. {x.start : x \in T} \subseteq Nat /\ {x.start : x \in T} # {}
      BY <1>2
    <3>2. \E a \in {x.start : x \in T} : \A b \in {x.start : x \in T} : a <= b
      BY <3>1, LeastElement
    <3>3. QED
      BY <3>2
  <2> DEFINE R == T \ {m}
             n == Cardinality(R)
  <2>2. IsFiniteSet(R) /\ n \in Nat /\ Cardinality(T) = n + 1
    <3>1. IsFiniteSet(T) /\ Cardinality(T) \in Nat
      BY FS_Subset, FS_CardinalityType
    <3>2. IsFiniteSet(R) /\ n = Cardinality(T) - 1
      BY <3>1, FS_RemoveElement
    <3>3. n \in Nat
      BY <3>2, FS_CardinalityType
    <3> HIDE DEF n
    <3>4. QED
      BY <3>1, <3>2, <3>3
  <2>3. PICK e : InOrder(e, R, n)
    BY <1>2
  <2> HIDE DEF n
  <2>4. /\ \A i \in 1 .. n : e[i] \in T /\ e[i] # m
        /\ \A i, j \in 1 .. n : e[i] = e[j] => i = j
        /\ \A i, j \in 1 .. n : i < j => e[i].start <= e[j].start
    BY <2>3
  <2> DEFINE d == [i \in 1 .. n + 1 |-> IF i = 1 THEN m ELSE e[i - 1]]
  <2>5. \A i \in 1 .. n + 1 : i = 1 \/ i - 1 \in 1 .. n
    BY <2>2
  <2>6. /\ d[1] = m
        /\ \A i \in 1 .. n + 1 : i # 1 => i - 1 \in 1 .. n /\ d[i] = e[i - 1]
        /\ \A i \in 1 .. n + 1 : d[i] \in T
    BY <2>2, <2>4, <2>5
  <2> HIDE DEF R
  <2>7. d \in [1 .. n + 1 -> T]
    BY <2>6
  <2> HIDE DEF d
  <2>8. ASSUME NEW i \in 1 .. n + 1, NEW j \in 1 .. n + 1, d[i] = d[j] PROVE i = j
    BY <2>2, <2>4, <2>6, <2>8
  <2>9. ASSUME NEW i \in 1 .. n + 1, NEW j \in 1 .. n + 1, i < j
        PROVE  d[i].start <= d[j].start
    <3>1. j # 1 /\ (i # 1 => i - 1 < j - 1)
      BY <2>2, <2>9
    <3>2. CASE i = 1
      BY <2>1, <2>6, <3>2
    <3>3. CASE i # 1
      BY <2>4, <2>6, <3>1, <3>3
    <3>4. QED
      BY <3>2, <3>3
  <2>10. InOrder(d, T, n + 1)
    BY <2>7, <2>8, <2>9
  <2> HIDE DEF InOrder
  <2>11. QED
    BY <2>2, <2>10
<1> HIDE DEF C
<1>3. SUBSET S \subseteq C
  BY <1>1, <1>2, AllSubsets
<1>4. S \in C
  BY <1>3
<1> USE DEF C
<1>5. PICK e : InOrder(e, S, Cardinality(S))
  BY <1>4
<1>6. DOMAIN e = 1 .. Cardinality(S) /\ IsInjective(e)
  BY <1>5 DEF IsInjective
<1>7. QED
  BY <1>5, <1>6

(* Sorted, a finite set has each element once.                             *)
LEMMA SortedFacts ==
  ASSUME NEW S, IsFiniteSet(S), \A x \in S : x.start \in Nat
  PROVE  /\ SortedByStart(S) \in Seq(S)
         /\ \A i, j \in DOMAIN SortedByStart(S) :
              SortedByStart(S)[i] = SortedByStart(S)[j] => i = j
         /\ \A x \in S : \E i \in DOMAIN SortedByStart(S) : SortedByStart(S)[i] = x
<1> DEFINE n == Cardinality(S)
           e == SortedByStart(S)
<1>1. n \in Nat /\ IsFiniteSet(1 .. n) /\ Cardinality(1 .. n) = n
  BY FS_CardinalityType, FS_Interval
<1>2. e \in [1 .. n -> S] /\ IsInjective(e)
  BY SortedExists DEF SortedByStart
<1> HIDE DEF e
<1>3. e \in Injection(1 .. n, S)
  BY <1>2 DEF Injection, IsInjective
<1>4. e \in Surjection(1 .. n, S)
  BY <1>1, <1>3, FS_Injection
<1>5. \A i, j \in DOMAIN e : e[i] = e[j] => i = j
  BY <1>2 DEF IsInjective
<1>6. \A x \in S : \E i \in DOMAIN e : e[i] = x
  BY <1>2, <1>4 DEF Surjection
<1>7. e \in Seq(S)
  BY <1>1, <1>2
<1>8. QED
  BY <1>5, <1>6, <1>7 DEF e

-----------------------------------------------------------------------------
(* Files, writers and entries.                                             *)

Content == Frame \cup {Torn}

LEMMA FileFields ==
  ASSUME NEW f \in File
  PROVE  /\ f # NoFile /\ f.header \in BOOLEAN /\ f.start \in Times /\ f.end \in Times
         /\ f.contents \in Seq(Content) /\ Len(f.contents) \in Nat
         /\ FramesOf(f) = Range(f.contents) \ {Torn} /\ FramesOf(f) \subseteq Frame
<1>1. f # NoFile
  BY SentinelAssumption
<1>2. /\ f.header \in BOOLEAN /\ f.start \in Times /\ f.end \in Times
      /\ f.contents \in Seq(Content)
  BY DEF File, Content
<1>3. Len(f.contents) \in Nat /\ Range(f.contents) \subseteq Content
  BY <1>2, SeqParts
<1>4. QED
  BY <1>1, <1>2, <1>3 DEF FramesOf, Content

LEMMA NoFrameInNoFile == FramesOf(NoFile) = {} /\ SizeOf(NoFile) = 0
  BY DEF FramesOf, SizeOf

LEMMA SizeIsNat ==
  ASSUME NEW f \in File \cup {NoFile}
  PROVE  SizeOf(f) \in Nat
<1>1. CASE f = NoFile
  BY <1>1 DEF SizeOf
<1>2. CASE f \in File
  <2> DEFINE d == Len(f.contents)
  <2>1. d \in Nat
    BY <1>2, FileFields
  <2> HIDE DEF d
  <2>2. 1 + d \in Nat
    BY <2>1
  <2>3. QED
    BY <2>2 DEF SizeOf, d
<1>3. QED
  BY <1>1, <1>2

LEMMA WriterFields ==
  ASSUME NEW w \in Writer
  PROVE  /\ w # NoWriter /\ w.start \in Times /\ w.end \in Times /\ w.bytes \in Nat
         /\ Seg(w) = SegmentOf(w.start) /\ Seg(w) \in Segments
         /\ EntryOf(w) \in Entry /\ EntryOf(w).seg = Seg(w) /\ EntryOf(w).size = w.bytes
         /\ EntryOf(w).start = w.start /\ EntryOf(w).end = w.end
<1>1. w # NoWriter
  BY SentinelAssumption
<1>2. w.start \in Times /\ w.end \in Times /\ w.bytes \in Nat
  BY DEF Writer
<1>3. Seg(w) = SegmentOf(w.start) /\ Seg(w) \in Segments
  BY <1>2, PathParts DEF Seg
<1>4. QED
  BY <1>1, <1>2, <1>3 DEF EntryOf, Entry

LEMMA WithHeaderFacts ==
  ASSUME NEW f \in File, NEW w \in Writer
  PROVE  /\ WithHeader(f, w) \in File /\ WithHeader(f, w).header = TRUE
         /\ WithHeader(f, w).start = w.start /\ WithHeader(f, w).end = w.end
         /\ WithHeader(f, w).contents = f.contents
         /\ [f EXCEPT !.start = w.start] \in File
         /\ [f EXCEPT !.start = w.start].contents = f.contents
<1> DEFINE a == [f EXCEPT !.header = TRUE]
           b == [a EXCEPT !.start = w.start]
           c == [b EXCEPT !.end = w.end]
<1>1. w.start \in Times /\ w.end \in Times /\ f # NoFile
  BY WriterFields, FileFields
<1>2. a \in File /\ a.header = TRUE /\ a.contents = f.contents
  BY DEF File
<1> HIDE DEF a
<1>3. b \in File /\ b.header = TRUE /\ b.start = w.start /\ b.contents = f.contents
  BY <1>1, <1>2 DEF File
<1>4. /\ c \in File /\ c.header = TRUE /\ c.start = w.start /\ c.end = w.end
      /\ c.contents = f.contents
  <2> HIDE DEF b
  <2>1. QED
    BY <1>1, <1>3 DEF File
<1>5. WithHeader(f, w) = c
  BY <1>1 DEF WithHeader, a, b, c
<1>6. [f EXCEPT !.start = w.start] \in File /\ [f EXCEPT !.start = w.start].contents = f.contents
  BY <1>1 DEF File
<1> HIDE DEF c
<1>7. QED
  BY <1>4, <1>5, <1>6

LEMMA WrittenFacts ==
  ASSUME NEW f \in File, NEW r \in Content
  PROVE  /\ Written(f, r) \in File /\ Written(f, r).header = f.header
         /\ Written(f, r).start = f.start /\ Written(f, r).end = f.end
         /\ Len(Written(f, r).contents) = Len(f.contents) + 1
         /\ Range(Written(f, r).contents) = Range(f.contents) \cup {r}
         /\ FramesOf(Written(f, r)) = FramesOf(f) \cup ({r} \ {Torn})
<1> DEFINE c == Append(f.contents, r)
           g == [f EXCEPT !.contents = c]
<1>1. f # NoFile /\ f.contents \in Seq(Content)
  BY FileFields
<1>2. /\ c \in Seq(Content) /\ Len(c) = Len(f.contents) + 1
      /\ Range(c) = Range(f.contents) \cup {r}
  BY <1>1, RangeOfAppend
<1> HIDE DEF c
<1>3. g \in File /\ g.header = f.header /\ g.start = f.start /\ g.end = f.end /\ g.contents = c
  BY <1>2 DEF File, Content
<1>4. Written(f, r) = g
  BY <1>1 DEF Written, c
<1> HIDE DEF g
<1>5. FramesOf(g) = Range(c) \ {Torn} /\ FramesOf(f) = Range(f.contents) \ {Torn}
  BY <1>3, FileFields
<1>6. QED
  BY <1>2, <1>3, <1>4, <1>5

LEMMA OpenedFacts ==
  ASSUME NEW f
  PROVE  /\ OpenedFile(f) \in File /\ OpenedFile(f).header = TRUE
         /\ OpenedFile(f).contents = <<>>
         /\ FramesOf(OpenedFile(f)) = {} /\ SizeOf(OpenedFile(f)) = 1
<1>1. 0 \in Times
  BY StorageAssumption DEF Times
<1>2. <<>> \in Seq(Frame \cup {Torn}) /\ Range(<<>>) = {} /\ Len(<<>>) = 0
  BY DEF Range
<1>3. OpenedFile(f) \in File /\ OpenedFile(f).header = TRUE /\ OpenedFile(f).contents = <<>>
  BY <1>1, <1>2 DEF OpenedFile, File
<1>4. OpenedFile(f) # NoFile
  BY <1>3, FileFields
<1>5. QED
  BY <1>2, <1>3, <1>4 DEF FramesOf, SizeOf

(* What may become of a file when its writer is lost: some of its frames.  *)
PartOf(g, f) ==
  /\ g \in File \cup {NoFile} /\ (g = NoFile <=> f = NoFile)
  /\ FramesOf(g) \subseteq FramesOf(f)

LEMMA HeaderInPartFacts ==
  ASSUME NEW f \in File \cup {NoFile}, NEW w \in Writer, NEW g \in HeaderInPart(f, w)
  PROVE  PartOf(g, f)
<1>1. CASE f = NoFile
  BY <1>1 DEF HeaderInPart, PartOf
<1>2. CASE f # NoFile
  <2>1. f \in File /\ g \in {f, [f EXCEPT !.start = w.start], WithHeader(f, w)}
    BY <1>2 DEF HeaderInPart
  <2>2. g \in File /\ g.contents = f.contents
    <3>1. CASE g = f
      BY <2>1, <3>1
    <3>2. CASE g = [f EXCEPT !.start = w.start]
      BY <2>1, <3>2, WithHeaderFacts
    <3>3. CASE g = WithHeader(f, w)
      BY <2>1, <3>3, WithHeaderFacts
    <3>4. QED
      BY <2>1, <3>1, <3>2, <3>3
  <2>3. g # NoFile /\ FramesOf(g) = FramesOf(f)
    BY <2>1, <2>2, FileFields
  <2>4. QED
    BY <1>2, <2>2, <2>3 DEF PartOf
<1>3. QED
  BY <1>1, <1>2

LEMMA OnDiskFacts ==
  ASSUME NEW f \in File \cup {NoFile}, NEW g \in OnDisk(f)
  PROVE  PartOf(g, f)
<1>1. CASE f = NoFile
  BY <1>1 DEF OnDisk, PartOf
<1>2. CASE f # NoFile
  <2>1. f \in File /\ f.contents \in Seq(Content) /\ Torn \in Content
    BY <1>2, FileFields DEF Content
  <2>2. \A c \in Seq(Content) : /\ [f EXCEPT !.contents = c] \in File
                                /\ [f EXCEPT !.contents = c].contents = c
    BY <2>1 DEF File, Content
  <2>3. ASSUME NEW c \in Seq(Content), g = [f EXCEPT !.contents = c],
               Range(c) \subseteq Range(f.contents) \cup {Torn}
        PROVE  PartOf(g, f)
    <3>1. g \in File /\ g.contents = c
      BY <2>2, <2>3
    <3>2. FramesOf(g) = Range(c) \ {Torn} /\ FramesOf(f) = Range(f.contents) \ {Torn}
          /\ g # NoFile
      BY <2>1, <3>1, FileFields
    <3>3. QED
      BY <1>2, <2>3, <3>1, <3>2 DEF PartOf
  <2>4. CASE g = [f EXCEPT !.header = FALSE, !.contents = <<>>]
    <3> DEFINE h == [f EXCEPT !.header = FALSE]
    <3>1. h \in File
      BY <2>1 DEF File
    <3>2. g = [h EXCEPT !.contents = <<>>]
      BY <2>1, <2>4 DEF File
    <3> HIDE DEF h
    <3>3. <<>> \in Seq(Frame \cup {Torn}) /\ Range(<<>>) = {}
      BY DEF Range
    <3>4. g \in File /\ g.contents = <<>>
      BY <3>1, <3>2, <3>3 DEF File
    <3>5. g # NoFile /\ FramesOf(g) = {}
      BY <3>3, <3>4, FileFields
    <3>6. QED
      BY <1>2, <3>4, <3>5 DEF PartOf
  <2>5. CASE \E k \in 0 .. Len(f.contents) :
               \/ g = [f EXCEPT !.contents = SubSeq(f.contents, 1, k)]
               \/ g = [f EXCEPT !.contents = Append(SubSeq(f.contents, 1, k), Torn)]
    <3>1. PICK k \in 0 .. Len(f.contents) :
               \/ g = [f EXCEPT !.contents = SubSeq(f.contents, 1, k)]
               \/ g = [f EXCEPT !.contents = Append(SubSeq(f.contents, 1, k), Torn)]
      BY <2>5
    <3> DEFINE some == SubSeq(f.contents, 1, k)
    <3>2. some \in Seq(Content) /\ Range(some) \subseteq Range(f.contents)
      BY <2>1, RangeOfStart
    <3> HIDE DEF some
    <3>3. Append(some, Torn) \in Seq(Content) /\ Range(Append(some, Torn)) = Range(some) \cup {Torn}
      BY <2>1, <3>2, RangeOfAppend
    <3>4. CASE g = [f EXCEPT !.contents = some]
      BY <2>3, <3>2, <3>4
    <3>5. CASE g = [f EXCEPT !.contents = Append(some, Torn)]
      BY <2>3, <3>2, <3>3, <3>5
    <3>6. QED
      BY <3>1, <3>4, <3>5 DEF some
  <2>6. QED
    BY <1>2, <2>4, <2>5 DEF OnDisk
<1>3. QED
  BY <1>1, <1>2

LEMMA WriterAfterFacts ==
  ASSUME NEW w \in Writer, NEW f \in Frame
  PROVE  /\ WriterAfter(w, f) \in Writer /\ WriterAfter(w, f).start = w.start
         /\ WriterAfter(w, f).end = f.t /\ WriterAfter(w, f).bytes = w.bytes + 1
         /\ Seg(WriterAfter(w, f)) = Seg(w)
<1> DEFINE a == [w EXCEPT !.end = f.t]
           b == [a EXCEPT !.bytes = @ + 1]
<1>1. f.t \in Times
  BY DEF Frame
<1>2. a \in Writer /\ a.start = w.start /\ a.end = f.t /\ a.bytes = w.bytes
  BY <1>1 DEF Writer
<1> HIDE DEF a
<1>3. b \in Writer /\ b.start = w.start /\ b.end = f.t /\ b.bytes = w.bytes + 1
  BY <1>2 DEF Writer
<1>4. WriterAfter(w, f) = b
  BY DEF WriterAfter, a, b
<1> HIDE DEF b
<1>5. QED
  BY <1>3, <1>4 DEF Seg

-----------------------------------------------------------------------------
(* The bytes of an index.                                                  *)

LEMMA EntryFields ==
  ASSUME NEW e \in Entry
  PROVE  /\ e.seg \in Segments /\ e.start \in Times /\ e.end \in Times /\ e.size \in Nat
  BY DEF Entry

LEMMA PlacesFinite ==
  ASSUME NEW S, NEW c \in Seq(S), NEW I \in SUBSET (DOMAIN c)
  PROVE  IsFiniteSet(I) /\ IsFiniteSet(DOMAIN c)
<1>1. Len(c) \in Nat /\ DOMAIN c = 1 .. Len(c)
  BY SeqParts
<1>2. IsFiniteSet(DOMAIN c)
  BY <1>1, FS_Interval
<1>3. QED
  BY <1>2, FS_Subset

LEMMA SizesAreNat ==
  ASSUME NEW c \in Seq(Entry), NEW I \in SUBSET (DOMAIN c)
  PROVE  SizesOf(c, I) \in Nat
<1> DEFINE sizes == [i \in I |-> c[i].size]
<1>1. IsFiniteSet(I)
  BY PlacesFinite
<1>2. \A i \in I : sizes[i] \in Nat
  BY SeqParts, EntryFields
<1> HIDE DEF sizes
<1>3. SumFunctionOnSet(sizes, I) \in Nat
  BY <1>1, <1>2, SumIsNat
<1>4. QED
  BY <1>3 DEF SizesOf, sizes

LEMMA SizesWithOneMore ==
  ASSUME NEW c \in Seq(Entry), NEW e \in Entry
  PROVE  SizesOf(Append(c, e), DOMAIN Append(c, e)) = SizesOf(c, DOMAIN c) + e.size
<1> DEFINE n == Len(c)
           d == Append(c, e)
           f == [i \in DOMAIN c |-> c[i].size]
           g == [i \in DOMAIN d |-> d[i].size]
<1>1. n \in Nat /\ DOMAIN c = 1 .. n
  BY SeqParts
<1>2. DOMAIN d = 1 .. n + 1 /\ d[n + 1] = e /\ \A i \in 1 .. n : d[i] = c[i]
  OBVIOUS
<1> HIDE DEF n, d
<1>3. 1 .. n + 1 = (1 .. n) \cup {n + 1} /\ n + 1 \notin 1 .. n
  BY <1>1
<1>4. /\ \A i \in 1 .. n : f[i] = c[i].size /\ g[i] = c[i].size
      /\ g[n + 1] = e.size
  BY <1>1, <1>2, <1>3
<1>5. IsFiniteSet(1 .. n)
  BY <1>1, FS_Interval
<1>6. \A i \in 1 .. n : c[i].size \in Int
  BY <1>1, SeqParts, EntryFields
<1>7. e.size \in Int
  BY EntryFields
<1> HIDE DEF f, g
<1> DEFINE I == 1 .. n
<1>8. SumFunctionOnSet(g, I \cup {n + 1}) = e.size + SumFunctionOnSet(g, I)
  <2>1. IsFiniteSet(I) /\ (\A i \in I : g[i] \in Int) /\ g[n + 1] \in Int /\ n + 1 \notin I
    BY <1>3, <1>4, <1>5, <1>6, <1>7
  <2> HIDE DEF I
  <2>2. QED
    BY <1>4, <2>1, SumTakesIn
<1>9. SumFunctionOnSet(f, I) = SumFunctionOnSet(g, I)
  <2>1. IsFiniteSet(I) /\ \A i \in I : f[i] = g[i]
    BY <1>4, <1>5
  <2> HIDE DEF I
  <2>2. QED
    BY <2>1, SumOfSame
<1>10. SumFunctionOnSet(f, I) \in Int
  BY <1>4, <1>5, <1>6, SumIsInt
<1>11. SizesOf(c, DOMAIN c) = SumFunctionOnSet(f, 1 .. n)
  BY <1>1 DEF SizesOf, f
<1>12. SizesOf(d, DOMAIN d) = SumFunctionOnSet(g, (1 .. n) \cup {n + 1})
  BY <1>2, <1>3 DEF SizesOf, g
<1>13. QED
  BY <1>7, <1>8, <1>9, <1>10, <1>11, <1>12 DEF d

(* The sizes of what is left and of what is left out are the sizes of all. *)
LEMMA SizesWithout ==
  ASSUME NEW c \in Seq(Entry), NEW I \in SUBSET (DOMAIN c)
  PROVE  SizesOf(c, DOMAIN c) =
           SizesOf(c, I) + SizesOf(Without(c, I), DOMAIN Without(c, I))
<1> DEFINE D == DOMAIN c
           r == Without(c, I)
           f == [i \in D |-> c[i].size]
           g == [i \in DOMAIN r |-> r[i].size]
           h == [i \in I |-> c[i].size]
<1>1. r \in Seq(Entry) /\ \E p : PickedAt(r, c, p, D \ I)
  BY WithoutFacts
<1> HIDE DEF r
<1>2. PICK p : PickedAt(r, c, p, D \ I)
  BY <1>1
<1>3. DOMAIN r = 1 .. Len(r) /\ IsFiniteSet(DOMAIN r)
  BY <1>1, SeqParts, PlacesFinite
<1>4. IsFiniteSet(D) /\ IsFiniteSet(I) /\ \A i \in D : c[i].size \in Int
  BY PlacesFinite, SeqParts, EntryFields
<1>5. SumFunctionOnSet(f, D) = SumFunctionOnSet(f, I) + SumFunctionOnSet(f, D \ I)
  BY <1>4, SumSplits
<1>6. SumFunctionOnSet(f, I) = SumFunctionOnSet(h, I)
  <2>1. \A i \in I : f[i] = h[i]
    OBVIOUS
  <2> HIDE DEF f, h
  <2>2. QED
    BY <1>4, <2>1, SumOfSame
<1>7. SumFunctionOnSet(g, DOMAIN r) = SumFunctionOnSet(f, D \ I)
  <2>1. \A i, j \in DOMAIN r : p[i] = p[j] => i = j
    BY <1>2, <1>3 DEF PickedAt
  <2>2. \A i \in DOMAIN r : p[i] \in D \ I /\ r[i] = c[p[i]]
    BY <1>2, <1>3 DEF PickedAt
  <2>3. \A i \in DOMAIN r : f[p[i]] \in Int /\ g[i] = f[p[i]]
    BY <1>4, <2>2
  <2>4. {p[i] : i \in DOMAIN r} = D \ I
    BY <1>2, <1>3, <2>2 DEF PickedAt
  <2> DEFINE J == DOMAIN r
  <2>5. /\ IsFiniteSet(J) /\ \A i, j \in J : p[i] = p[j] => i = j
        /\ \A i \in J : f[p[i]] \in Int /\ g[i] = f[p[i]]
    BY <1>3, <2>1, <2>3
  <2> HIDE DEF f, g, J
  <2>6. SumFunctionOnSet(g, J) = SumFunctionOnSet(f, {p[i] : i \in J})
    BY <2>5, SumRenamed
  <2>7. QED
    BY <2>4, <2>6 DEF J
<1>8. QED
  BY <1>5, <1>6, <1>7 DEF SizesOf, r

BytesOf(idx) == [s \in Sources |-> SizesOf(idx[s], DOMAIN idx[s])]

LEMMA BytesAreSum ==
  ASSUME NEW idx
  PROVE  BytesIn(idx) = SumFunctionOnSet(BytesOf(idx), Sources)
<1>1. DOMAIN BytesOf(idx) = Sources
  BY DEF BytesOf
<1>2. BytesIn(idx) = FoldFunction(+, 0, BytesOf(idx))
  BY DEF BytesIn, BytesOf
<1>3. QED
  BY <1>1, <1>2, FoldIsSum

LEMMA BytesAreNat ==
  ASSUME NEW idx \in [Sources -> Seq(Entry)]
  PROVE  BytesIn(idx) \in Nat /\ \A s \in Sources : BytesOf(idx)[s] \in Nat
<1>1. \A s \in Sources : BytesOf(idx)[s] \in Nat
  <2>1. ASSUME NEW s \in Sources PROVE BytesOf(idx)[s] \in Nat
    <3>1. idx[s] \in Seq(Entry)
      OBVIOUS
    <3>2. SizesOf(idx[s], DOMAIN idx[s]) \in Nat
      BY <3>1, SizesAreNat
    <3>3. QED
      BY <3>2 DEF BytesOf
  <2>2. QED
    BY <2>1
<1>2. IsFiniteSet(Sources)
  BY StorageAssumption
<1>3. QED
  BY <1>1, <1>2, BytesAreSum, SumIsNat

(* One more entry counts for its size.                                     *)
LEMMA BytesWithOneMore ==
  ASSUME NEW idx \in [Sources -> Seq(Entry)], NEW s \in Sources, NEW e \in Entry
  PROVE  BytesIn([idx EXCEPT ![s] = Append(@, e)]) = BytesIn(idx) + e.size
<1> DEFINE new == [idx EXCEPT ![s] = Append(@, e)]
           f == BytesOf(idx)
           g == BytesOf(new)
<1>1. idx[s] \in Seq(Entry) /\ e.size \in Nat
  BY EntryFields
<1>2. new[s] = Append(idx[s], e) /\ \A r \in Sources : r # s => new[r] = idx[r]
  OBVIOUS
<1> HIDE DEF new
<1>3. \A r \in Sources : f[r] \in Nat
  BY BytesAreNat
<1>4. g[s] = f[s] + e.size
  BY <1>1, <1>2, SizesWithOneMore DEF BytesOf
<1>5. \A r \in Sources : r # s => f[r] = g[r]
  BY <1>2 DEF BytesOf
<1> HIDE DEF f, g
<1>6. IsFiniteSet(Sources) /\ f[s] \in Int /\ g[s] \in Int
  BY <1>1, <1>3, <1>4, StorageAssumption
<1>7. SumFunctionOnSet(g, Sources) = SumFunctionOnSet(f, Sources) - f[s] + g[s]
  BY <1>3, <1>5, <1>6, SumOfChanged
<1>8. SumFunctionOnSet(f, Sources) \in Int
  BY <1>3, <1>6, SumIsInt
<1>9. SumFunctionOnSet(g, Sources) = SumFunctionOnSet(f, Sources) + e.size
  BY <1>1, <1>4, <1>6, <1>7, <1>8
<1>10. QED
  BY <1>9, BytesAreSum DEF f, g, new

(* A cleanup takes off what it deletes, never more than there is.          *)
LEMMA BytesAfterCleanup ==
  ASSUME NEW cutoff, index \in [Sources -> Seq(Entry)], TotalSound
  PROVE  TotalAfter(cutoff) =
           BytesIn([s \in Sources |-> Without(index[s], Deleted(s, cutoff))])
<1> DEFINE new == [s \in Sources |-> Without(index[s], Deleted(s, cutoff))]
           f == [s \in Sources |-> SizesOf(index[s], Deleted(s, cutoff))]
           g == BytesOf(new)
           h == BytesOf(index)
           bytes == SumFunctionOnSet(f, Sources)
           left == SumFunctionOnSet(g, Sources)
<1>1. IsFiniteSet(Sources)
  BY StorageAssumption
<1>2. ASSUME NEW s \in Sources
      PROVE  f[s] \in Nat /\ g[s] \in Nat /\ h[s] = f[s] + g[s]
  <2>1. index[s] \in Seq(Entry) /\ Deleted(s, cutoff) \in SUBSET (DOMAIN index[s])
    BY DEF Deleted
  <2> DEFINE r == Without(index[s], Deleted(s, cutoff))
  <2>2. r \in Seq(Entry)
    BY <2>1, WithoutFacts
  <2>3. /\ SizesOf(index[s], Deleted(s, cutoff)) \in Nat
        /\ SizesOf(r, DOMAIN r) \in Nat
    BY <2>1, <2>2, SizesAreNat
  <2>4. SizesOf(index[s], DOMAIN index[s]) =
          SizesOf(index[s], Deleted(s, cutoff)) + SizesOf(r, DOMAIN r)
    BY <2>1, SizesWithout
  <2>5. f[s] = SizesOf(index[s], Deleted(s, cutoff))
    OBVIOUS
  <2>6. g[s] = SizesOf(r, DOMAIN r)
    BY DEF BytesOf
  <2>7. h[s] = SizesOf(index[s], DOMAIN index[s])
    BY DEF BytesOf
  <2> HIDE DEF f, g, h, r
  <2>8. QED
    BY <2>3, <2>4, <2>5, <2>6, <2>7
<1>3. FoldFunction(+, 0, f) = bytes
  <2>1. DOMAIN f = Sources
    OBVIOUS
  <2> HIDE DEF f
  <2>2. QED
    BY <2>1, FoldIsSum
<1>4. total_bytes = SumFunctionOnSet(h, Sources)
  BY BytesAreSum DEF TotalSound
<1>5. TotalAfter(cutoff) = IF bytes > total_bytes THEN 0 ELSE total_bytes - bytes
  BY <1>3 DEF TotalAfter
<1> HIDE DEF f, g, h
<1>6. bytes \in Nat /\ left \in Nat
  BY <1>1, <1>2, SumIsNat
<1>7. SumFunctionOnSet(h, Sources) = bytes + left
  BY <1>1, <1>2, SumOfSums
<1> HIDE DEF bytes, left
<1>8. TotalAfter(cutoff) = left
  BY <1>4, <1>5, <1>6, <1>7
<1>9. QED
  BY <1>8, BytesAreSum DEF left, g

-----------------------------------------------------------------------------
(* The variables keep their types.                                         *)

LEMMA TypeParts ==
  ASSUME TypeOK
  PROVE  /\ \A p \in Paths : files[p] \in File \cup {NoFile}
         /\ \A s \in Sources :
              /\ writers[s] \in Writer \cup {NoWriter} /\ index[s] \in Seq(Entry)
              /\ clock[s] \in Times /\ clock[s] \in Nat
         /\ \A s \in Sources : \A i \in DOMAIN index[s] :
              index[s][i] \in Entry /\ <<s, index[s][i].seg>> \in Paths
         /\ \A event \in Event : counts[event] \in Nat
         /\ counts.frames \in Nat /\ counts.restarts \in Nat /\ counts.crashes \in Nat
         /\ counts.flushes \in Nat /\ counts.faults \in Nat
<1>1. \A p \in Paths : files[p] \in File \cup {NoFile}
  BY DEF TypeOK
<1>2. \A s \in Sources :
        /\ writers[s] \in Writer \cup {NoWriter} /\ index[s] \in Seq(Entry)
        /\ clock[s] \in Times /\ clock[s] \in Nat
  BY TimesAreNat DEF TypeOK
<1>3. \A s \in Sources : \A i \in DOMAIN index[s] :
        index[s][i] \in Entry /\ <<s, index[s][i].seg>> \in Paths
  <2>1. ASSUME NEW s \in Sources, NEW i \in DOMAIN index[s]
        PROVE  index[s][i] \in Entry /\ <<s, index[s][i].seg>> \in Paths
    <3>1. index[s] \in Seq(Entry)
      BY <1>2
    <3>2. index[s][i] \in Entry
      BY <3>1, SeqParts
    <3>3. QED
      BY <3>2, EntryFields, PathParts
  <2>2. QED
    BY <2>1
<1>4. \A event \in Event : counts[event] \in Nat
  BY DEF TypeOK
<1>5. QED
  BY <1>1, <1>2, <1>3, <1>4 DEF Event

LEMMA CountFacts ==
  ASSUME TypeOK, NEW event \in Event, Count(event)
  PROVE  /\ counts' \in [Event -> Nat] /\ counts'[event] > 0
         /\ \A e \in Event : counts'[e] >= counts[e]
         /\ \A e \in Event : e # event => counts'[e] = counts[e]
<1>1. /\ counts \in [Event -> Nat]
      /\ counts' = [counts EXCEPT ![event] = @ + 1]
  BY DEF TypeOK, Count
<1>2. counts[event] \in Nat /\ counts'[event] = counts[event] + 1
  BY <1>1
<1>3. counts'[event] \in Nat /\ counts'[event] > 0
  BY <1>2
<1>4. \A e \in Event : e # event => counts'[e] = counts[e]
  BY <1>1
<1>5. counts' \in [Event -> Nat]
  BY <1>1, <1>3
<1>6. \A e \in Event : counts'[e] >= counts[e]
  <2>1. \A e \in Event : counts[e] \in Nat
    BY <1>1
  <2>2. QED
    BY <1>2, <1>4, <2>1
<1>7. QED
  BY <1>3, <1>4, <1>5, <1>6

FileChanges(p, f) == files' = [files EXCEPT ![p] = f]

LEMMA FilesTyped ==
  ASSUME TypeOK, NEW p \in Paths, NEW f \in File \cup {NoFile}, FileChanges(p, f)
  PROVE  /\ files' \in [Paths -> File \cup {NoFile}]
         /\ files'[p] = f /\ \A q \in Paths : q # p => files'[q] = files[q]
  BY DEF TypeOK, FileChanges

LEMMA FinalizeTyped ==
  ASSUME TypeOK, NEW s \in Sources, NEW w \in Writer, Finalize(s, w)
  PROVE  /\ files' \in [Paths -> File \cup {NoFile}]
         /\ index' \in [Sources -> Seq(Entry)]
         /\ total_bytes' \in Nat
         /\ durable' \in [Sources -> SUBSET Frame]
<1> DEFINE p == <<s, Seg(w)>>
<1>1. p \in Paths /\ w.bytes \in Nat /\ EntryOf(w) \in Entry
  BY WriterFields, PathParts
<1>2. files[p] \in File \cup {NoFile}
  BY <1>1, TypeParts
<1>3. WithHeader(files[p], w) \in File \cup {NoFile}
  <2>1. CASE files[p] = NoFile
    BY <2>1 DEF WithHeader
  <2>2. CASE files[p] \in File
    BY <2>2, WithHeaderFacts
  <2>3. QED
    BY <1>2, <2>1, <2>2
<1>4. FramesOf(files[p]) \subseteq Frame
  <2>1. CASE files[p] = NoFile
    BY <2>1, NoFrameInNoFile
  <2>2. CASE files[p] \in File
    BY <2>2, FileFields
  <2>3. QED
    BY <1>2, <2>1, <2>2
<1>5. /\ files' = [files EXCEPT ![p] = WithHeader(files[p], w)]
      /\ index' = [index EXCEPT ![s] = Append(index[s], EntryOf(w))]
      /\ total_bytes' = total_bytes + w.bytes
      /\ durable' = [durable EXCEPT ![s] = durable[s] \cup FramesOf(files[p])]
  BY DEF Finalize
<1>6. Append(index[s], EntryOf(w)) \in Seq(Entry)
  BY <1>1, TypeParts
<1> HIDE DEF p
<1>7. QED
  BY <1>1, <1>3, <1>4, <1>5, <1>6 DEF TypeOK

LEMMA ScannedTyped ==
  ASSUME TypeOK, NEW s \in Sources
  PROVE  /\ IsFiniteSet(Scanned(s)) /\ Scanned(s) \subseteq Entry
         /\ SortedByStart(Scanned(s)) \in Seq(Entry)
<1> DEFINE G == {h \in Segments : SizeOf(files[<<s, h>>]) > 0}
           entry(g) == [seg |-> g, start |-> files[<<s, g>>].start,
                        end |-> files[<<s, g>>].end, size |-> SizeOf(files[<<s, g>>])]
           f == [g \in G |-> entry(g)]
<1>1. IsFiniteSet(G)
  BY SegmentsFinite, FS_Subset
<1>2. f \in Surjection(G, Scanned(s))
  BY DEF Surjection, Scanned
<1>3. IsFiniteSet(Scanned(s))
  BY <1>1, <1>2, FS_Surjection
<1>4. ASSUME NEW g \in G PROVE entry(g) \in Entry
  <2>1. <<s, g>> \in Paths /\ g \in Segments
    BY PathParts
  <2>2. files[<<s, g>>] \in File \cup {NoFile} /\ SizeOf(files[<<s, g>>]) > 0
    BY <2>1, TypeParts
  <2>3. files[<<s, g>>] # NoFile
    BY <2>2, NoFrameInNoFile
  <2>4. SizeOf(files[<<s, g>>]) \in Nat
    BY <2>2, SizeIsNat
  <2>5. QED
    BY <2>1, <2>2, <2>3, <2>4, FileFields DEF Entry
<1>5. Scanned(s) \subseteq Entry
  BY <1>4 DEF Scanned
<1>6. SortedByStart(Scanned(s)) \in Seq(Scanned(s))
  <2>1. \A x \in Scanned(s) : x.start \in Nat
    BY <1>5, EntryFields, TimesAreNat
  <2>2. QED
    BY <1>3, <2>1, SortedFacts
<1>7. QED
  BY <1>3, <1>5, <1>6

LEMMA WritersTyped ==
  ASSUME TypeOK, NEW s \in Sources, NEW w \in Writer \cup {NoWriter},
         writers' = [writers EXCEPT ![s] = w]
  PROVE  /\ writers' \in [Sources -> Writer \cup {NoWriter}]
         /\ writers'[s] = w /\ \A r \in Sources : r # s => writers'[r] = writers[r]
  BY DEF TypeOK

LEMMA TypesStart == Init => TypeOK
<1> SUFFICES ASSUME Init PROVE TypeOK
  OBVIOUS
<1>1. 0 \in Times /\ <<>> \in Seq(Entry)
  BY StorageAssumption DEF Times
<1>2. QED
  BY <1>1 DEF Init, TypeOK

LEMMA FrameIsNew ==
  ASSUME TypeOK, NEW s \in Sources, NEW t \in Times, StoreFrame(s, t)
  PROVE  frame' \in Frame
<1>1. counts.frames \in Nat /\ counts.frames < MaxFrames /\ MaxFrames \in Nat
  BY TypeParts, StorageAssumption DEF StoreFrame
<1>2. counts.frames + 1 \in 1 .. MaxFrames
  BY <1>1
<1>3. QED
  BY <1>2 DEF StoreFrame, Frame

LEMMA TypesKept ==
  ASSUME TypeOK, ControlSound, TotalSound, Next
  PROVE  TypeOK'
<1> USE DEF diskVars, taskVars, history
<1>1. /\ files \in [Paths -> File \cup {NoFile}]
      /\ writers \in [Sources -> Writer \cup {NoWriter}]
      /\ index \in [Sources -> Seq(Entry)]
      /\ total_bytes \in Nat /\ up \in BOOLEAN
      /\ pc \in {"idle", "opening", "closing", "creating", "writing"}
      /\ frame \in Frame \cup {NoFrame}
      /\ closing \in Writer \cup {NoWriter}
      /\ clock \in [Sources -> Times] /\ counts \in [Event -> Nat]
      /\ durable \in [Sources -> SUBSET Frame]
      /\ reopened \subseteq Paths
  BY DEF TypeOK
<1>2. pc # "idle" => frame \in Frame /\ frame.source \in Sources /\ frame.t \in Times
  BY DEF ControlSound, Frame
<1>3. \A event \in Event : Count(event) => counts' \in [Event -> Nat]
  BY CountFacts
<1>4. Event = {"frames", "restarts", "crashes", "flushes", "faults"}
  BY DEF Event
<1>5. \A p \in Paths : \A f \in File \cup {NoFile} :
        files' = [files EXCEPT ![p] = f] => files' \in [Paths -> File \cup {NoFile}]
  BY FilesTyped DEF FileChanges
<1>6. \A s \in Sources : \A w \in Writer \cup {NoWriter} :
        writers' = [writers EXCEPT ![s] = w] =>
          writers' \in [Sources -> Writer \cup {NoWriter}]
  BY WritersTyped
<1>7. \A p \in Paths : files[p] \in File \cup {NoFile}
  BY <1>1
<1>8. \A s \in Sources, w \in Writer : <<s, Seg(w)>> \in Paths
  BY WriterFields, PathParts
<1>9. ASSUME NEW s \in Sources, NEW t \in Times, StoreFrame(s, t) PROVE TypeOK'
  <2>1. frame' \in Frame
    BY <1>9, FrameIsNew
  <2>2. counts' \in [Event -> Nat]
    BY <1>3, <1>4, <1>9 DEF StoreFrame
  <2>3. clock' \in [Sources -> Times]
    BY <1>1, <1>9 DEF StoreFrame
  <2>4. QED
    BY <1>1, <1>9, <2>1, <2>2, <2>3 DEF StoreFrame, TypeOK
<1>10. ASSUME NEW s \in Sources, FlushSource(s) PROVE TypeOK'
  <2>1. writers[s] \in Writer
    BY <1>1, <1>10 DEF FlushSource, HasWriter
  <2>2. Finalize(s, writers[s])
    BY <1>10 DEF FlushSource
  <2>3. /\ files' \in [Paths -> File \cup {NoFile}]
        /\ index' \in [Sources -> Seq(Entry)]
        /\ total_bytes' \in Nat
        /\ durable' \in [Sources -> SUBSET Frame]
    BY <2>1, <2>2, FinalizeTyped
  <2>4. counts' \in [Event -> Nat] /\ writers' \in [Sources -> Writer \cup {NoWriter}]
    BY <1>3, <1>4, <1>6, <1>10 DEF FlushSource
  <2>5. UNCHANGED <<up, pc, frame, closing, clock, reopened>>
    BY <1>10 DEF FlushSource
  <2>6. QED
    BY <1>1, <2>3, <2>4, <2>5 DEF TypeOK
<1>11. ASSUME NEW s \in Sources, CameraRestarts(s) PROVE TypeOK'
  <2>1. counts' \in [Event -> Nat]
    BY <1>3, <1>4, <1>11 DEF CameraRestarts
  <2>2. clock' \in [Sources -> Times]
    BY <1>1, <1>11, StorageAssumption DEF CameraRestarts, Times
  <2>3. QED
    BY <1>1, <1>11, <2>1, <2>2 DEF CameraRestarts, TypeOK
<1>12. ASSUME NEW s \in Sources, LoseBuffer(s) PROVE TypeOK'
  <2>1. writers[s] \in Writer
    BY <1>1, <1>12 DEF LoseBuffer, HasWriter
  <2> DEFINE p == <<s, Seg(writers[s])>>
  <2>2. PICK f \in OnDisk(files[p]) : files' = [files EXCEPT ![p] = f]
    BY <1>12 DEF LoseBuffer
  <2>3. p \in Paths
    BY <1>8, <2>1
  <2>4. f \in File \cup {NoFile}
    BY <1>7, <2>3, OnDiskFacts DEF PartOf
  <2> HIDE DEF p
  <2>5. files' \in [Paths -> File \cup {NoFile}]
    BY <1>5, <2>2, <2>3, <2>4
  <2>6. writers' \in [Sources -> Writer \cup {NoWriter}]
    BY <1>6, <1>12 DEF LoseBuffer
  <2>7. QED
    BY <1>1, <1>12, <2>5, <2>6 DEF LoseBuffer, TypeOK
<1>13. CASE UseWriter
  BY <1>1, <1>13 DEF UseWriter, TypeOK
<1>14. CASE BeginClose
  <2>1. frame.source \in Sources /\ pc' = "closing"
    BY <1>2, <1>14 DEF BeginClose
  <2>2. /\ writers' \in [Sources -> Writer \cup {NoWriter}]
        /\ closing' \in Writer \cup {NoWriter}
    BY <1>1, <1>6, <1>14, <2>1 DEF BeginClose
  <2>3. QED
    BY <1>1, <1>14, <2>1, <2>2 DEF BeginClose, TypeOK
<1>15. CASE EndClose
  <2>1. frame.source \in Sources /\ closing \in Writer /\ Finalize(frame.source, closing)
    BY <1>1, <1>2, <1>15 DEF EndClose, ControlSound
  <2>2. /\ files' \in [Paths -> File \cup {NoFile}]
        /\ index' \in [Sources -> Seq(Entry)]
        /\ total_bytes' \in Nat
        /\ durable' \in [Sources -> SUBSET Frame]
    BY <2>1, FinalizeTyped
  <2>3. closing' = NoWriter /\ pc' = "creating"
        /\ UNCHANGED <<writers, up, frame, clock, counts, reopened>>
    BY <1>15 DEF EndClose
  <2>4. QED
    BY <1>1, <2>2, <2>3 DEF TypeOK
<1>16. CASE CloseFails
  <2>1. frame.source \in Sources /\ closing \in Writer
    BY <1>1, <1>2, <1>16 DEF CloseFails, ControlSound
  <2> DEFINE p == <<frame.source, Seg(closing)>>
  <2>2. PICK f \in HeaderInPart(files[p], closing) : files' = [files EXCEPT ![p] = f]
    BY <1>16 DEF CloseFails
  <2>3. p \in Paths
    BY <1>8, <2>1
  <2>4. f \in File \cup {NoFile}
    BY <1>7, <2>1, <2>3, HeaderInPartFacts DEF PartOf
  <2> HIDE DEF p
  <2>5. files' \in [Paths -> File \cup {NoFile}]
    BY <1>5, <2>2, <2>3, <2>4
  <2>6. counts' \in [Event -> Nat]
    BY <1>3, <1>4, <1>16 DEF CloseFails
  <2>7. QED
    BY <1>1, <1>16, <2>5, <2>6 DEF CloseFails, TypeOK
<1>17. CASE CreateWriter
  <2> DEFINE s == frame.source
             p == <<s, SegmentOf(frame.t)>>
             w == [start |-> frame.t, end |-> frame.t, bytes |-> 1]
  <2>1. s \in Sources /\ frame.t \in Times
    BY <1>2, <1>17 DEF CreateWriter, MayCreate
  <2>2. p \in Paths /\ w \in Writer
    BY <2>1, PathParts DEF Writer
  <2>3. /\ files' = [files EXCEPT ![p] = OpenedFile(files[p])]
        /\ writers' = [writers EXCEPT ![s] = w]
        /\ reopened' = reopened \cup {q \in {p} : Indexed(q)}
        /\ pc' = "writing"
        /\ UNCHANGED <<index, total_bytes, up, frame, closing, clock, counts, durable>>
    BY <1>17 DEF CreateWriter
  <2> HIDE DEF p, w, s
  <2>4. files' \in [Paths -> File \cup {NoFile}]
    BY <1>5, <2>2, <2>3, OpenedFacts
  <2>5. writers' \in [Sources -> Writer \cup {NoWriter}]
    BY <1>6, <2>1, <2>2, <2>3
  <2>6. QED
    BY <1>1, <2>2, <2>3, <2>4, <2>5 DEF TypeOK
<1>18. CASE CreateFails \/ WriterGone
  <2>1. counts' \in [Event -> Nat]
    BY <1>1, <1>3, <1>4, <1>18 DEF CreateFails, WriterGone
  <2>2. QED
    BY <1>1, <1>18, <2>1 DEF CreateFails, WriterGone, TypeOK
<1>19. CASE WriteFrame
  <2> DEFINE s == frame.source
             p == <<s, Seg(writers[s])>>
  <2>1. s \in Sources /\ frame \in Frame /\ writers[s] \in Writer
    BY <1>1, <1>2, <1>19 DEF WriteFrame, HasWriter
  <2>2. p \in Paths
    BY <1>8, <2>1
  <2>3. Written(files[p], frame) \in File \cup {NoFile}
    <3>1. CASE files[p] = NoFile
      BY <3>1 DEF Written
    <3>2. CASE files[p] \in File
      BY <2>1, <3>2, WrittenFacts DEF Content
    <3>3. QED
      BY <1>7, <2>2, <3>1, <3>2
  <2>4. WriterAfter(writers[s], frame) \in Writer
    BY <2>1, WriterAfterFacts
  <2>5. /\ files' = [files EXCEPT ![p] = Written(files[p], frame)]
        /\ writers' = [writers EXCEPT ![s] = WriterAfter(writers[s], frame)]
        /\ pc' = "idle"
        /\ UNCHANGED <<index, total_bytes, up, frame, closing, clock, counts, durable,
                       reopened>>
    BY <1>19 DEF WriteFrame
  <2> HIDE DEF p, s
  <2>6. files' \in [Paths -> File \cup {NoFile}]
    BY <1>5, <2>2, <2>3, <2>5
  <2>7. writers' \in [Sources -> Writer \cup {NoWriter}]
    BY <1>6, <2>1, <2>4, <2>5
  <2>8. QED
    BY <1>1, <2>5, <2>6, <2>7 DEF TypeOK
<1>20. CASE WriteFails
  <2> DEFINE s == frame.source
             p == <<s, Seg(writers[s])>>
  <2>1. s \in Sources /\ writers[s] \in Writer
    BY <1>1, <1>2, <1>20 DEF WriteFails, HasWriter
  <2>2. p \in Paths
    BY <1>8, <2>1
  <2>3. PICK f \in {files[p], Written(files[p], Torn)} : files' = [files EXCEPT ![p] = f]
    BY <1>20 DEF WriteFails
  <2>4. Written(files[p], Torn) \in File \cup {NoFile}
    <3>1. CASE files[p] = NoFile
      BY <3>1 DEF Written
    <3>2. CASE files[p] \in File
      BY <3>2, WrittenFacts DEF Content
    <3>3. QED
      BY <1>7, <2>2, <3>1, <3>2
  <2>5. f \in File \cup {NoFile}
    BY <1>7, <2>2, <2>3, <2>4
  <2> HIDE DEF p
  <2>6. files' \in [Paths -> File \cup {NoFile}]
    BY <1>5, <2>2, <2>3, <2>5
  <2>7. counts' \in [Event -> Nat]
    BY <1>3, <1>4, <1>20 DEF WriteFails
  <2>8. QED
    BY <1>1, <1>20, <2>6, <2>7 DEF WriteFails, TypeOK
<1>21. ASSUME NEW cutoff \in 1 .. MaxTime + 1, Cleanup(cutoff) PROVE TypeOK'
  <2>1. files' \in [Paths -> File \cup {NoFile}]
    <3>1. files' = [p \in Paths |->
                     IF \E i \in Deleted(p[1], cutoff) : index[p[1]][i].seg = p[2]
                       THEN NoFile ELSE files[p]]
      BY <1>21 DEF Cleanup
    <3>2. QED
      BY <1>7, <3>1
  <2>2. index' \in [Sources -> Seq(Entry)]
    <3>1. \A s \in Sources : Without(index[s], Deleted(s, cutoff)) \in Seq(Entry)
      BY <1>1, WithoutFacts
    <3>2. index' = [s \in Sources |-> Without(index[s], Deleted(s, cutoff))]
      BY <1>21 DEF Cleanup
    <3>3. QED
      BY <3>1, <3>2
  <2>3. total_bytes' \in Nat
    <3>1. total_bytes' = BytesIn(index')
      BY <1>1, <1>21, BytesAfterCleanup DEF Cleanup
    <3>2. QED
      BY <2>2, <3>1, BytesAreNat
  <2>4. durable' \in [Sources -> SUBSET Frame]
    <3>1. durable' = [s \in Sources |-> {f \in durable[s] : f.t >= cutoff}]
      BY <1>21 DEF Cleanup
    <3>2. QED
      BY <1>1, <3>1
  <2>5. UNCHANGED <<writers, up, pc, frame, closing, clock, counts, reopened>>
    BY <1>21 DEF Cleanup
  <2>6. QED
    BY <1>1, <2>1, <2>2, <2>3, <2>4, <2>5 DEF TypeOK
<1>22. CASE Crash
  <2>1. counts' \in [Event -> Nat]
    BY <1>3, <1>4, <1>22 DEF Crash
  <2>2. QED
    BY <1>1, <1>22, <2>1 DEF Crash, TypeOK
<1>23. CASE LoseClosing
  <2>1. frame.source \in Sources /\ closing \in Writer
    BY <1>1, <1>2, <1>23 DEF LoseClosing, ControlSound
  <2> DEFINE p == <<frame.source, Seg(closing)>>
  <2>2. PICK f \in OnDisk(files[p]) \cup HeaderInPart(files[p], closing) :
               files' = [files EXCEPT ![p] = f]
    BY <1>23 DEF LoseClosing
  <2>3. p \in Paths
    BY <1>8, <2>1
  <2>4. f \in File \cup {NoFile}
    BY <1>7, <2>1, <2>2, <2>3, HeaderInPartFacts, OnDiskFacts DEF PartOf
  <2> HIDE DEF p
  <2>5. files' \in [Paths -> File \cup {NoFile}]
    BY <1>5, <2>2, <2>3, <2>4
  <2>6. QED
    BY <1>1, <1>23, <2>5 DEF LoseClosing, TypeOK
<1>24. CASE Restart
  <2>1. index' \in [Sources -> Seq(Entry)]
    <3>1. \A s \in Sources : SortedByStart(Scanned(s)) \in Seq(Entry)
      BY ScannedTyped
    <3>2. index' = [s \in Sources |-> SortedByStart(Scanned(s))]
      BY <1>24 DEF Restart
    <3>3. QED
      BY <3>1, <3>2
  <2>2. total_bytes' \in Nat
    BY <1>24, <2>1, BytesAreNat DEF Restart
  <2>3. up' = TRUE /\ pc' = "idle"
        /\ UNCHANGED <<files, writers, frame, closing, clock, counts, durable, reopened>>
    BY <1>24 DEF Restart
  <2>4. QED
    BY <1>1, <2>1, <2>2, <2>3 DEF TypeOK
<1>25. QED
  BY <1>9, <1>10, <1>11, <1>12, <1>13, <1>14, <1>15, <1>16, <1>17, <1>18, <1>19, <1>20,
     <1>21, <1>22, <1>23, <1>24 DEF Next

-----------------------------------------------------------------------------
(* The recording task, its frame and the writers.                          *)

LEMMA ControlStart == Init => ControlSound
  BY DEF Init, ControlSound

LEMMA ControlKept ==
  ASSUME TypeOK, TypeOK', ControlSound, Next
  PROVE  ControlSound'
<1> USE DEF diskVars, taskVars, history
<1>1. /\ counts.restarts \in Nat /\ counts.crashes \in Nat
      /\ counts'.restarts \in Nat /\ counts'.crashes \in Nat
      /\ {"frames", "restarts", "crashes", "flushes", "faults"} \subseteq Event
  BY DEF TypeOK, Event
<1>2. \A e, a \in Event : Count(e) => /\ counts'[a] >= counts[a] /\ counts'[e] > 0
                                      /\ a # e => counts'[a] = counts[a]
  BY CountFacts
<1>3. /\ writers \in [Sources -> Writer \cup {NoWriter}] /\ clock \in [Sources -> Times]
      /\ pc # "idle" => frame \in Frame /\ frame.source \in Sources /\ frame.t \in Times
  BY DEF TypeOK, ControlSound, Frame
<1>4. ASSUME NEW s \in Sources, NEW t \in Times, StoreFrame(s, t) PROVE ControlSound'
  <2>1. frame' \in Frame
    BY <1>4, FrameIsNew
  <2>2. frame'.source = s /\ frame'.t = t /\ clock'[s] = t
    BY <1>3, <1>4 DEF StoreFrame
  <2>3. counts'.crashes = counts.crashes /\ pc' = "opening" /\ closing = NoWriter
        /\ UNCHANGED <<up, closing, writers>>
    BY <1>1, <1>2, <1>4 DEF StoreFrame, ControlSound
  <2>4. QED
    BY <2>1, <2>2, <2>3 DEF ControlSound
<1>5. ASSUME NEW s \in Sources, FlushSource(s) PROVE ControlSound'
  <2>1. /\ counts'.crashes = counts.crashes /\ counts'.restarts = counts.restarts
        /\ pc \notin {"closing", "creating"}
        /\ UNCHANGED <<up, pc, frame, closing, clock>>
        /\ writers' = [writers EXCEPT ![s] = NoWriter]
    BY <1>1, <1>2, <1>5 DEF FlushSource
  <2>2. \A r \in Sources : writers'[r] \in {writers[r], NoWriter}
    BY <1>3, <2>1
  <2>3. QED
    BY <1>3, <2>1, <2>2 DEF ControlSound, HasWriter
<1>6. ASSUME NEW s \in Sources, CameraRestarts(s) PROVE ControlSound'
  <2>1. /\ counts'.crashes = counts.crashes /\ counts'.restarts > 0
        /\ UNCHANGED <<up, pc, frame, closing, writers>>
    BY <1>1, <1>2, <1>6 DEF CameraRestarts
  <2>2. QED
    BY <1>1, <2>1 DEF ControlSound, HasWriter
<1>7. ASSUME NEW s \in Sources, LoseBuffer(s) PROVE ControlSound'
  <2>1. /\ ~up /\ UNCHANGED <<up, pc, frame, closing, clock, counts>>
        /\ writers' = [writers EXCEPT ![s] = NoWriter]
    BY <1>7 DEF LoseBuffer
  <2>2. \A r \in Sources : writers'[r] \in {writers[r], NoWriter}
    BY <1>3, <2>1
  <2>3. QED
    BY <1>3, <2>1, <2>2 DEF ControlSound, HasWriter
<1>8. CASE UseWriter
  BY <1>8 DEF UseWriter, Fits, ControlSound, HasWriter
<1>9. CASE BeginClose
  <2>1. /\ pc = "opening" /\ pc' = "closing" /\ closing' = writers[frame.source]
        /\ writers[frame.source] # NoWriter
        /\ writers' = [writers EXCEPT ![frame.source] = NoWriter]
        /\ UNCHANGED <<up, frame, clock, counts>>
    BY <1>9 DEF BeginClose, HasWriter
  <2>2. writers'[frame.source] = NoWriter
    BY <1>3, <2>1
  <2>3. QED
    BY <2>1, <2>2 DEF ControlSound
<1>10. CASE EndClose
  BY <1>10 DEF EndClose, ControlSound
<1>11. CASE CloseFails
  BY <1>1, <1>2, <1>11 DEF CloseFails, ControlSound
<1>12. CASE CreateWriter
  <2>1. /\ pc \in {"opening", "creating"} /\ pc' = "writing"
        /\ writers' = [writers EXCEPT ![frame.source] =
                         [start |-> frame.t, end |-> frame.t, bytes |-> 1]]
        /\ UNCHANGED <<up, frame, closing, clock, counts>>
    BY <1>12 DEF CreateWriter, MayCreate
  <2>2. Seg(writers'[frame.source]) = SegmentOf(frame.t)
    BY <1>3, <2>1 DEF Seg
  <2>3. closing = NoWriter
    BY <2>1 DEF ControlSound
  <2>4. QED
    BY <2>1, <2>2, <2>3 DEF ControlSound
<1>13. CASE CreateFails
  <2>1. /\ counts'.crashes = counts.crashes /\ pc \in {"opening", "creating"}
        /\ pc' = "idle" /\ UNCHANGED <<up, closing>>
    BY <1>1, <1>2, <1>13 DEF CreateFails, MayCreate
  <2>2. QED
    BY <2>1 DEF ControlSound
<1>14. CASE WriteFrame
  BY <1>14 DEF WriteFrame, ControlSound
<1>15. CASE WriteFails
  <2>1. /\ counts'.crashes = counts.crashes /\ pc = "writing"
        /\ pc' = "idle" /\ UNCHANGED <<up, closing>>
    BY <1>1, <1>2, <1>15 DEF WriteFails
  <2>2. QED
    BY <2>1 DEF ControlSound
<1>16. CASE WriterGone
  BY <1>16 DEF WriterGone, ControlSound
<1>17. ASSUME NEW cutoff \in 1 .. MaxTime + 1, Cleanup(cutoff) PROVE ControlSound'
  BY <1>17 DEF Cleanup, ControlSound, HasWriter
<1>18. CASE Crash
  <2>1. /\ counts'.crashes > 0 /\ counts'.restarts = counts.restarts /\ up' = FALSE
        /\ UNCHANGED <<pc, frame, closing, clock, writers>>
    BY <1>1, <1>2, <1>18 DEF Crash
  <2>2. QED
    BY <2>1 DEF ControlSound, HasWriter
<1>19. CASE LoseClosing
  BY <1>19 DEF LoseClosing, ControlSound, HasWriter
<1>20. CASE Restart
  BY <1>20 DEF Restart, ControlSound
<1>21. QED
  BY <1>4, <1>5, <1>6, <1>7, <1>8, <1>9, <1>10, <1>11, <1>12, <1>13, <1>14, <1>15, <1>16,
     <1>17, <1>18, <1>19, <1>20 DEF Next

-----------------------------------------------------------------------------
(* What a step does to the recordings of one camera.                       *)

(* Counts and, without a restart of a camera, clocks only grow, and so does *)
(* what was opened once more.                                              *)
Later ==
  /\ \A e \in Event : counts'[e] >= counts[e]
  /\ reopened \subseteq reopened'
  /\ counts'.restarts = 0 => \A s \in Sources : clock'[s] >= clock[s]

LEMMA LaterMeans ==
  ASSUME TypeOK, TypeOK', Later
  PROVE  /\ counts'.restarts = 0 => counts.restarts = 0
         /\ counts'.crashes = 0 => counts.crashes = 0
         /\ counts'.faults = 0 => counts.faults = 0
         /\ counts.crashes + counts.faults > 0 => counts'.crashes + counts'.faults > 0
         /\ reopened' = {} => reopened = {}
         /\ \A s \in Sources : clock[s] \in Nat /\ clock'[s] \in Nat
<1>1. /\ {"restarts", "crashes", "faults"} \subseteq Event
      /\ \A e \in Event : counts[e] \in Nat /\ counts'[e] \in Nat
  BY DEF TypeOK, Event
<1>2. /\ counts'.restarts >= counts.restarts /\ counts'.crashes >= counts.crashes
      /\ counts'.faults >= counts.faults
  BY <1>1 DEF Later
<1>3. /\ counts.restarts \in Nat /\ counts.crashes \in Nat /\ counts.faults \in Nat
      /\ counts'.restarts \in Nat /\ counts'.crashes \in Nat /\ counts'.faults \in Nat
  BY <1>1
<1>4. \A s \in Sources : clock[s] \in Nat /\ clock'[s] \in Nat
  BY TimesAreNat DEF TypeOK
<1>5. reopened' = {} => reopened = {}
  BY DEF Later
<1>6. QED
  BY <1>2, <1>3, <1>4, <1>5

LEMMA OpenWriterTyped ==
  ASSUME TypeOK, NEW s \in Sources
  PROVE  /\ OpenWriter(s) \in Writer \cup {NoWriter}
         /\ OpenWriter(s) # NoWriter =>
              /\ OpenWriter(s) \in Writer /\ OpenPath(s) \in Paths
              /\ OpenPath(s) = <<s, Seg(OpenWriter(s))>>
              /\ Seg(OpenWriter(s)) \in Segments
              /\ files[OpenPath(s)] \in File \cup {NoFile}
<1>1. OpenWriter(s) \in Writer \cup {NoWriter}
  BY DEF OpenWriter, TypeOK
<1>2. ASSUME OpenWriter(s) # NoWriter
      PROVE  /\ OpenWriter(s) \in Writer /\ OpenPath(s) \in Paths
             /\ Seg(OpenWriter(s)) \in Segments
    BY <1>1, <1>2, WriterFields, PathParts DEF OpenPath
<1>3. QED
  BY <1>1, <1>2, TypeParts DEF OpenPath

(* The files, entries and writer of a camera are as they were.             *)
Untouched(s) ==
  /\ index'[s] = index[s] /\ OpenWriter(s)' = OpenWriter(s)
  /\ durable'[s] = durable[s]
  /\ \A g \in Segments : files'[<<s, g>>] = files[<<s, g>>]
  /\ \A g \in Segments : <<s, g>> \in reopened' => <<s, g>> \in reopened

LEMMA UntouchedStays ==
  ASSUME TypeOK, TypeOK', Later, NEW s \in Sources, SourceSound(s), Untouched(s)
  PROVE  SourceSound(s)'
<1>1. /\ counts'.restarts = 0 => counts.restarts = 0
      /\ counts'.crashes = 0 => counts.crashes = 0
      /\ counts'.faults = 0 => counts.faults = 0
      /\ counts.crashes + counts.faults > 0 => counts'.crashes + counts'.faults > 0
      /\ reopened' = {} => reopened = {}
      /\ clock[s] \in Nat /\ clock'[s] \in Nat
  BY LaterMeans
<1>2. /\ OpenWriter(s)' = OpenWriter(s) /\ index'[s] = index[s] /\ durable'[s] = durable[s]
      /\ \A g \in Segments : files'[<<s, g>>] = files[<<s, g>>]
      /\ \A g \in Segments : <<s, g>> \in reopened' <=> <<s, g>> \in reopened
  BY DEF Untouched, Later
<1>3. OpenPath(s)' = OpenPath(s)
  BY <1>2 DEF OpenPath
<1>4. FilesSound(s)'
  BY <1>1, <1>2 DEF FilesSound, SourceSound
<1>5. WriterSound(s)'
  <2>1. SUFFICES ASSUME OpenWriter(s) # NoWriter PROVE WriterSound(s)'
    BY <1>2 DEF WriterSound
  <2>2. /\ OpenPath(s) = <<s, Seg(OpenWriter(s))>> /\ Seg(OpenWriter(s)) \in Segments
        /\ OpenWriter(s) \in Writer
    BY <2>1, OpenWriterTyped
  <2>3. Indexed(OpenPath(s))' = Indexed(OpenPath(s))
    BY <1>2, <1>3, <2>2, PathParts DEF Indexed
  <2>4. files'[OpenPath(s)] = files[OpenPath(s)]
        /\ (OpenPath(s) \in reopened' <=> OpenPath(s) \in reopened)
    BY <1>2, <2>2
  <2>5. OpenWriter(s).end \in Nat
    BY <2>2, WriterFields, TimesAreNat
  <2>6. counts'.restarts = 0 => clock'[s] >= clock[s]
    BY DEF Later
  <2>7. WriterSound(s)
    BY DEF SourceSound
  <2>8. QED
    BY <1>1, <1>2, <1>3, <2>3, <2>4, <2>5, <2>6, <2>7 DEF WriterSound
<1>6. \A i \in DOMAIN index[s] : index[s][i].seg \in Segments
  BY TypeParts, EntryFields
<1>7. EntriesSound(s)'
  BY <1>1, <1>2, <1>6 DEF EntriesSound, SourceSound
<1>8. DurableSound(s)'
  <2>1. \A f \in durable[s] : SegmentOf(f.t) \in Segments
    BY PathParts DEF TypeOK, Frame
  <2>2. \A f \in durable[s] : Kept(s, f) => Kept(s, f)'
    BY <1>2, <2>1 DEF Kept
  <2>3. QED
    BY <1>1, <1>2, <2>2 DEF DurableSound, SourceSound
<1>9. SizesSound(s)'
  <2>1. WriterCounted(s) => WriterCounted(s)'
    BY <1>2, <1>3, OpenWriterTyped DEF WriterCounted
  <2>2. EntriesCounted(s) => EntriesCounted(s)'
    BY <1>2, <1>6 DEF EntriesCounted
  <2>3. QED
    BY <1>1, <2>1, <2>2 DEF SizesSound, SourceSound
<1>10. QED
  BY <1>4, <1>5, <1>7, <1>8, <1>9 DEF SourceSound

(* The file of an open writer is in no entry that can still be read.       *)
LEMMA OpenIsNotIndexed ==
  ASSUME TypeOK, NEW s \in Sources, SourceSound(s), OpenWriter(s) # NoWriter
  PROVE  /\ \A i \in DOMAIN index[s] :
              <<s, index[s][i].seg>> \notin reopened => index[s][i].seg # Seg(OpenWriter(s))
         /\ \A f : Kept(s, f) /\ <<s, SegmentOf(f.t)>> \notin reopened =>
                     SegmentOf(f.t) # Seg(OpenWriter(s))
<1>1. OpenPath(s) = <<s, Seg(OpenWriter(s))>>
  BY DEF OpenPath
<1>2. OpenPath(s) \notin reopened =>
        ~ \E i \in DOMAIN index[s] : index[s][i].seg = Seg(OpenWriter(s))
  BY <1>1, IndexedBySegment DEF SourceSound, WriterSound
<1>3. QED
  BY <1>1, <1>2 DEF Kept

(* While a segment is open, only its own file changes.                     *)
Writing(s) ==
  /\ OpenWriter(s) # NoWriter
  /\ index'[s] = index[s] /\ durable'[s] = durable[s] /\ reopened' = reopened
  /\ \A g \in Segments :
       g # Seg(OpenWriter(s)) => files'[<<s, g>>] = files[<<s, g>>]

LEMMA WritingKeepsRecordings ==
  ASSUME TypeOK, TypeOK', Later, NEW s \in Sources, SourceSound(s), Writing(s)
  PROVE  /\ EntriesSound(s)' /\ DurableSound(s)'
         /\ counts'.faults = 0 /\ reopened' = {} => EntriesCounted(s)'
<1>1. /\ counts'.restarts = 0 => counts.restarts = 0
      /\ counts'.crashes = 0 => counts.crashes = 0
      /\ counts'.faults = 0 => counts.faults = 0
  BY LaterMeans
<1>2. /\ OpenWriter(s) # NoWriter
      /\ index'[s] = index[s] /\ durable'[s] = durable[s] /\ reopened' = reopened
      /\ \A g \in Segments :
           g # Seg(OpenWriter(s)) => files'[<<s, g>>] = files[<<s, g>>]
  BY DEF Writing
<1>3. EntriesSound(s)'
  BY <1>1, <1>2 DEF EntriesSound, SourceSound
<1>4. DurableSound(s)'
  <2>1. ASSUME NEW f \in durable[s], Kept(s, f) PROVE Kept(s, f)'
    <3>1. SegmentOf(f.t) \in Segments
      BY PathParts DEF TypeOK, Frame
    <3>2. CASE <<s, SegmentOf(f.t)>> \in reopened
      BY <1>2, <3>2 DEF Kept
    <3>3. CASE <<s, SegmentOf(f.t)>> \notin reopened
      <4>1. SegmentOf(f.t) # Seg(OpenWriter(s))
        BY <1>2, <2>1, <3>3, OpenIsNotIndexed
      <4>2. files'[<<s, SegmentOf(f.t)>>] = files[<<s, SegmentOf(f.t)>>]
        BY <1>2, <3>1, <4>1
      <4>3. QED
        BY <1>2, <2>1, <4>2 DEF Kept
    <3>4. QED
      BY <3>2, <3>3
  <2>2. QED
    BY <1>1, <1>2, <2>1 DEF DurableSound, SourceSound
<1>5. ASSUME counts'.faults = 0, reopened' = {} PROVE EntriesCounted(s)'
  <2>1. counts.faults = 0 /\ reopened = {} /\ EntriesCounted(s)
    BY <1>1, <1>2, <1>5 DEF SourceSound, SizesSound
  <2>2. ASSUME NEW i \in DOMAIN index[s]
        PROVE  files'[<<s, index[s][i].seg>>] = files[<<s, index[s][i].seg>>]
    <3>1. index[s][i].seg \in Segments
      BY TypeParts, EntryFields
    <3>2. index[s][i].seg # Seg(OpenWriter(s))
      BY <1>2, <2>1, OpenIsNotIndexed
    <3>3. QED
      BY <1>2, <3>1, <3>2
  <2>3. QED
    BY <1>2, <2>1, <2>2 DEF EntriesCounted
<1>6. QED
  BY <1>3, <1>4, <1>5

(* The writer is lost, and of its file some frames may be left.            *)
Loses(s) ==
  /\ Writing(s) /\ OpenWriter(s)' = NoWriter
  /\ counts'.crashes + counts'.faults > 0
  /\ PartOf(files'[OpenPath(s)], files[OpenPath(s)])

LEMMA LosingIsSound ==
  ASSUME TypeOK, TypeOK', Later, NEW s \in Sources, SourceSound(s), Loses(s)
  PROVE  SourceSound(s)'
<1>1. /\ EntriesSound(s)' /\ DurableSound(s)'
      /\ counts'.faults = 0 /\ reopened' = {} => EntriesCounted(s)'
  BY WritingKeepsRecordings DEF Loses
<1>2. OpenPath(s) = <<s, Seg(OpenWriter(s))>> /\ Seg(OpenWriter(s)) \in Segments
  BY OpenWriterTyped DEF Loses, Writing
<1>3. \A g \in Segments : FramesOf(files'[<<s, g>>]) \subseteq FramesOf(files[<<s, g>>])
  BY <1>2 DEF Loses, Writing, PartOf
<1>4. FilesSound(s)'
  BY <1>3 DEF Loses, SourceSound, FilesSound
<1>5. WriterSound(s)' /\ WriterCounted(s)'
  BY DEF Loses, WriterSound, WriterCounted
<1>6. QED
  BY <1>1, <1>4, <1>5 DEF SourceSound, SizesSound

(* A write fails, after a part of the frame or before.                     *)
Spoils(s) ==
  /\ Writing(s) /\ OpenWriter(s)' = OpenWriter(s)
  /\ counts'.faults > 0 /\ clock' = clock
  /\ FramesOf(files'[OpenPath(s)]) = FramesOf(files[OpenPath(s)])

LEMMA SpoilingIsSound ==
  ASSUME TypeOK, TypeOK', Later, NEW s \in Sources, SourceSound(s), Spoils(s)
  PROVE  SourceSound(s)'
<1>1. EntriesSound(s)' /\ DurableSound(s)'
  BY WritingKeepsRecordings DEF Spoils
<1>2. OpenPath(s) = <<s, Seg(OpenWriter(s))>> /\ Seg(OpenWriter(s)) \in Segments
  BY OpenWriterTyped DEF Spoils, Writing
<1>3. /\ OpenWriter(s)' = OpenWriter(s) /\ index'[s] = index[s] /\ reopened' = reopened
      /\ counts'.faults > 0 /\ clock' = clock
      /\ \A g \in Segments : FramesOf(files'[<<s, g>>]) = FramesOf(files[<<s, g>>])
  BY <1>2 DEF Spoils, Writing
<1>4. counts'.crashes + counts'.faults > 0
  <2>1. counts'.crashes \in Nat /\ counts'.faults \in Nat
    BY DEF TypeOK, Event
  <2>2. QED
    BY <1>3, <2>1
<1>5. FilesSound(s)'
  BY <1>3, <1>4 DEF SourceSound, FilesSound
<1>6. WriterSound(s)'
  <2>1. OpenPath(s)' = OpenPath(s)
    BY <1>3 DEF OpenPath
  <2>2. Indexed(OpenPath(s))' = Indexed(OpenPath(s))
    BY <1>2, <1>3, <2>1, PathParts DEF Indexed
  <2>3. counts'.restarts = 0 => counts.restarts = 0
    BY LaterMeans
  <2>4. WriterSound(s)
    BY DEF SourceSound
  <2>5. FramesOf(files'[OpenPath(s)]) = FramesOf(files[OpenPath(s)])
    BY DEF Spoils
  <2>6. QED
    BY <1>3, <2>1, <2>2, <2>3, <2>4, <2>5 DEF WriterSound
<1>7. QED
  BY <1>1, <1>3, <1>5, <1>6 DEF SourceSound, SizesSound

(* The frame is written to the segment it belongs to.                      *)
Writes(s) ==
  /\ Writing(s) /\ frame \in Frame /\ frame.source = s
  /\ SegmentOf(frame.t) = Seg(OpenWriter(s))
  /\ counts.restarts = 0 => frame.t = clock[s]
  /\ clock' = clock /\ counts' = counts
  /\ OpenWriter(s)' = WriterAfter(OpenWriter(s), frame)
  /\ files'[OpenPath(s)] = Written(files[OpenPath(s)], frame)

LEMMA WritingIsSound ==
  ASSUME TypeOK, TypeOK', Later, NEW s \in Sources, SourceSound(s), Writes(s)
  PROVE  SourceSound(s)'
<1> DEFINE w == OpenWriter(s)
           p == OpenPath(s)
<1>1. /\ EntriesSound(s)' /\ DurableSound(s)'
      /\ counts'.faults = 0 /\ reopened' = {} => EntriesCounted(s)'
  BY WritingKeepsRecordings DEF Writes
<1>2. /\ p = <<s, Seg(w)>> /\ Seg(w) \in Segments /\ w \in Writer
      /\ files[p] \in File \cup {NoFile}
  BY OpenWriterTyped DEF Writes, Writing
<1>3. /\ index'[s] = index[s] /\ reopened' = reopened
      /\ clock' = clock /\ counts' = counts
      /\ OpenWriter(s)' = WriterAfter(w, frame)
      /\ files'[p] = Written(files[p], frame)
      /\ \A g \in Segments : g # Seg(w) => files'[<<s, g>>] = files[<<s, g>>]
  BY DEF Writes, Writing
<1>4. /\ frame \in Frame /\ frame.source = s /\ SegmentOf(frame.t) = Seg(w)
      /\ counts.restarts = 0 => frame.t = clock[s]
      /\ frame \in Content /\ frame # Torn
  BY TornIsNoFrame DEF Writes, Content
<1>5. /\ OpenWriter(s)' \in Writer /\ OpenWriter(s)'.start = w.start
      /\ OpenWriter(s)'.end = frame.t /\ OpenWriter(s)'.bytes = w.bytes + 1
      /\ Seg(OpenWriter(s)') = Seg(w)
  BY <1>2, <1>3, <1>4, WriterAfterFacts
<1>6. OpenPath(s)' = p
  BY <1>2, <1>5 DEF OpenPath, Seg
<1>7. /\ FramesOf(files'[p]) \subseteq FramesOf(files[p]) \cup {frame}
      /\ HasTorn(files'[p]) => HasTorn(files[p])
  <2>1. CASE files[p] = NoFile
    BY <1>3, <2>1, NoFrameInNoFile DEF Written, HasTorn
  <2>2. CASE files[p] # NoFile
    <3>1. files[p] \in File
      BY <1>2, <2>2
    <3>2. /\ FramesOf(files'[p]) = FramesOf(files[p]) \cup ({frame} \ {Torn})
          /\ Range(files'[p].contents) = Range(files[p].contents) \cup {frame}
      <4> HIDE DEF w, p
      <4>1. \A f \in File :
              /\ FramesOf(Written(f, frame)) = FramesOf(f) \cup ({frame} \ {Torn})
              /\ Range(Written(f, frame).contents) = Range(f.contents) \cup {frame}
        BY <1>4, WrittenFacts
      <4>2. QED
        BY <1>3, <3>1, <4>1
    <3>3. QED
      BY <1>4, <2>2, <3>2 DEF HasTorn
  <2>3. QED
    BY <2>1, <2>2
<1> HIDE DEF w, p
<1>8. FilesSound(s)'
  <2>1. ASSUME NEW g \in Segments
        PROVE  /\ \A f \in FramesOf(files'[<<s, g>>]) :
                    f \in Frame /\ f.source = s /\ SegmentOf(f.t) = g
               /\ HasTorn(files'[<<s, g>>]) => counts.crashes + counts.faults > 0
    <3>1. CASE g = Seg(w)
      BY <1>2, <1>4, <1>7, <3>1 DEF SourceSound, FilesSound
    <3>2. CASE g # Seg(w)
      BY <1>3, <3>2 DEF SourceSound, FilesSound
    <3>3. QED
      BY <3>1, <3>2
  <2>2. QED
    BY <1>3, <2>1 DEF FilesSound
<1>9. WriterSound(s)'
  <2>1. /\ w # NoWriter /\ w.start \in Nat /\ w.end \in Nat /\ frame.t \in Nat
    BY <1>2, <1>4, WriterFields, TimesAreNat DEF Frame
  <2>2. /\ p \notin reopened => ~Indexed(p)
        /\ counts.restarts = 0 =>
             /\ w.start <= w.end /\ w.end <= clock[s]
             /\ \A f \in FramesOf(files[p]) : f.t \in w.start .. w.end
    BY <2>1 DEF SourceSound, WriterSound, w, p
  <2>3. Indexed(OpenPath(s))' = Indexed(p)
    BY <1>2, <1>3, <1>6, PathParts DEF Indexed
  <2>4. ASSUME counts'.restarts = 0
        PROVE  /\ OpenWriter(s)'.start <= OpenWriter(s)'.end
               /\ OpenWriter(s)'.end <= clock'[s]
               /\ \A f \in FramesOf(files'[p]) :
                    f.t \in OpenWriter(s)'.start .. OpenWriter(s)'.end
    <3>1. frame.t = clock[s] /\ w.start <= w.end /\ w.end <= frame.t
      BY <1>3, <1>4, <2>2, <2>4
    <3>2. ASSUME NEW f \in FramesOf(files'[p]) PROVE f.t \in w.start .. frame.t
      <4>1. CASE f = frame
        BY <2>1, <3>1, <4>1
      <4>2. CASE f \in FramesOf(files[p])
        <5>1. f.t \in w.start .. w.end
          BY <1>3, <2>2, <2>4, <4>2
        <5>2. QED
          BY <2>1, <3>1, <5>1
      <4>3. QED
        BY <1>7, <3>2, <4>1, <4>2
    <3>3. QED
      BY <1>3, <1>5, <2>1, <3>1, <3>2
  <2>5. SegmentOf(OpenWriter(s)'.end) = Seg(OpenWriter(s)')
    BY <1>4, <1>5
  <2>6. p \notin reopened' => ~Indexed(OpenPath(s))'
    BY <1>3, <2>2, <2>3
  <2>7. QED
    BY <1>5, <1>6, <2>4, <2>5, <2>6 DEF WriterSound, Seg
<1>10. ASSUME counts'.faults = 0, reopened' = {} PROVE WriterCounted(s)'
  <2>1. w # NoWriter /\ w.bytes \in Nat
    BY <1>2, WriterFields
  <2>2. files[p] # NoFile /\ files[p].header /\ w.bytes = SizeOf(files[p])
    BY <1>3, <1>10, <2>1 DEF SourceSound, SizesSound, WriterCounted, w, p
  <2>3. files[p] \in File
    BY <1>2, <2>2
  <2> DEFINE d == Len(files[p].contents)
  <2>4. /\ d \in Nat /\ files'[p] # NoFile /\ files'[p].header
        /\ Len(files'[p].contents) = d + 1
    BY <1>3, <1>4, <2>2, <2>3, WrittenFacts, FileFields
  <2>5. w.bytes = 1 + d
    BY <2>2 DEF SizeOf
  <2>6. SizeOf(files'[p]) = 1 + Len(files'[p].contents)
    BY <2>4 DEF SizeOf
  <2> HIDE DEF d
  <2>7. OpenWriter(s)'.bytes = SizeOf(files'[p])
    BY <1>5, <2>4, <2>5, <2>6
  <2>8. QED
    BY <1>6, <2>4, <2>7 DEF WriterCounted
<1>11. QED
  BY <1>1, <1>8, <1>9, <1>10 DEF SourceSound, SizesSound

(* A segment is opened for a frame, over whatever was in its file.         *)
Opens(s, t) ==
  /\ OpenWriter(s) = NoWriter /\ t \in Times
  /\ counts.restarts = 0 => t = clock[s]
  /\ clock' = clock /\ counts' = counts
  /\ index'[s] = index[s] /\ durable'[s] = durable[s]
  /\ OpenWriter(s)' = [start |-> t, end |-> t, bytes |-> 1]
  /\ files'[<<s, SegmentOf(t)>>] = OpenedFile(files[<<s, SegmentOf(t)>>])
  /\ \A g \in Segments : g # SegmentOf(t) => files'[<<s, g>>] = files[<<s, g>>]
  /\ reopened' = reopened \cup {q \in {<<s, SegmentOf(t)>>} : Indexed(q)}

LEMMA OpeningIsSound ==
  ASSUME TypeOK, TypeOK', Later, NEW s \in Sources, NEW t, SourceSound(s), Opens(s, t)
  PROVE  SourceSound(s)'
<1> DEFINE p == <<s, SegmentOf(t)>>
           w == OpenWriter(s)'
<1>1. /\ t \in Times
      /\ counts.restarts = 0 => t = clock[s]
      /\ clock' = clock /\ counts' = counts
      /\ index'[s] = index[s] /\ durable'[s] = durable[s]
      /\ w = [start |-> t, end |-> t, bytes |-> 1]
      /\ files'[p] = OpenedFile(files[p])
      /\ \A g \in Segments : g # SegmentOf(t) => files'[<<s, g>>] = files[<<s, g>>]
      /\ reopened' = reopened \cup {q \in {p} : Indexed(q)}
  BY DEF Opens
<1>2. /\ w \in Writer /\ w.start = t /\ w.end = t /\ w.bytes = 1 /\ Seg(w) = SegmentOf(t)
      /\ OpenPath(s)' = p /\ t \in Nat
  BY <1>1, TimesAreNat DEF Writer, Seg, OpenPath
<1>3. /\ FramesOf(files'[p]) = {} /\ ~HasTorn(files'[p])
      /\ files'[p] # NoFile /\ files'[p].header /\ SizeOf(files'[p]) = 1
  <2>1. /\ files'[p] \in File /\ files'[p].header = TRUE /\ files'[p].contents = <<>>
        /\ FramesOf(files'[p]) = {} /\ SizeOf(files'[p]) = 1
    BY <1>1, OpenedFacts
  <2>2. Range(<<>>) = {}
    BY DEF Range
  <2>3. files'[p] # NoFile
    BY <2>1, FileFields
  <2>4. QED
    BY <2>1, <2>2, <2>3 DEF HasTorn
<1>4. Indexed(p)' = Indexed(p) /\ (Indexed(p) => p \in reopened')
  BY <1>1, IndexedBySegment DEF Indexed
<1>5. FilesSound(s)'
  <2>1. ASSUME NEW g \in Segments
        PROVE  /\ \A f \in FramesOf(files'[<<s, g>>]) :
                    f \in Frame /\ f.source = s /\ SegmentOf(f.t) = g
               /\ HasTorn(files'[<<s, g>>]) => counts.crashes + counts.faults > 0
    <3>1. CASE g = SegmentOf(t)
      BY <1>3, <3>1
    <3>2. CASE g # SegmentOf(t)
      BY <1>1, <3>2 DEF SourceSound, FilesSound
    <3>3. QED
      BY <3>1, <3>2
  <2>2. QED
    BY <1>1, <2>1 DEF FilesSound
<1>6. WriterSound(s)'
  <2>1. counts'.restarts = 0 => w.end <= clock'[s]
    BY <1>1, <1>2
  <2>2. p \notin reopened' => ~Indexed(p)'
    BY <1>4
  <2>3. FramesOf(files'[p]) = {}
    BY <1>3
  <2> HIDE DEF p
  <2>4. QED
    BY <1>2, <2>1, <2>2, <2>3 DEF WriterSound, Seg
<1>7. EntriesSound(s)'
  BY <1>1 DEF SourceSound, EntriesSound
<1>8. \A i \in DOMAIN index[s] :
        p \notin reopened' => index[s][i].seg # SegmentOf(t)
  BY <1>4, IndexedBySegment
<1>9. DurableSound(s)'
  <2>1. ASSUME NEW f \in durable[s], Kept(s, f) PROVE Kept(s, f)'
    <3>1. SegmentOf(f.t) \in Segments
      BY PathParts DEF TypeOK, Frame
    <3>2. SUFFICES ASSUME <<s, SegmentOf(f.t)>> \notin reopened' PROVE Kept(s, f)'
      BY DEF Kept
    <3>3. <<s, SegmentOf(f.t)>> \notin reopened
      BY <1>1, <3>2
    <3>4. SegmentOf(f.t) # SegmentOf(t)
      BY <1>8, <2>1, <3>2, <3>3 DEF Kept
    <3>5. files'[<<s, SegmentOf(f.t)>>] = files[<<s, SegmentOf(f.t)>>]
      BY <1>1, <3>1, <3>4
    <3>6. QED
      BY <1>1, <2>1, <3>3, <3>5 DEF Kept
  <2>2. QED
    BY <1>1, <2>1 DEF DurableSound, SourceSound
<1>10. SizesSound(s)'
  <2>1. SUFFICES ASSUME counts'.faults = 0, reopened' = {}
                 PROVE  WriterCounted(s)' /\ EntriesCounted(s)'
    BY DEF SizesSound
  <2>2. counts.faults = 0 /\ reopened = {} /\ EntriesCounted(s)
    BY <1>1, <2>1 DEF SourceSound, SizesSound
  <2>3. ASSUME NEW i \in DOMAIN index[s]
        PROVE  files'[<<s, index[s][i].seg>>] = files[<<s, index[s][i].seg>>]
    <3>1. index[s][i].seg \in Segments
      BY TypeParts, EntryFields
    <3>2. QED
      BY <1>1, <1>8, <2>1, <3>1
  <2>4. EntriesCounted(s)'
    BY <1>1, <2>2, <2>3 DEF EntriesCounted
  <2>5. WriterCounted(s)'
    <3> HIDE DEF p
    <3>1. QED
      BY <1>2, <1>3 DEF WriterCounted
  <2>6. QED
    BY <2>4, <2>5
<1>11. QED
  BY <1>5, <1>6, <1>7, <1>9, <1>10 DEF SourceSound

(* The segment is finalized: its file gets its header, and it is indexed.  *)
Finalizes(s) ==
  /\ OpenWriter(s) # NoWriter /\ Finalize(s, OpenWriter(s))
  /\ OpenWriter(s)' = NoWriter
  /\ UNCHANGED <<clock, reopened>>

LEMMA FinalizingIsSound ==
  ASSUME TypeOK, TypeOK', Later, NEW s \in Sources, SourceSound(s), Finalizes(s)
  PROVE  SourceSound(s)'
<1> DEFINE w == OpenWriter(s)
           p == OpenPath(s)
           e == EntryOf(w)
           n == Len(index[s])
<1>1. /\ p = <<s, Seg(w)>> /\ p \in Paths /\ Seg(w) \in Segments /\ w \in Writer
      /\ files[p] \in File \cup {NoFile} /\ w # NoWriter
  BY OpenWriterTyped DEF Finalizes
<1>2. /\ files \in [Paths -> File \cup {NoFile}] /\ index \in [Sources -> Seq(Entry)]
      /\ index[s] \in Seq(Entry) /\ durable \in [Sources -> SUBSET Frame]
      /\ durable[s] \subseteq Frame
  BY DEF TypeOK
<1>3. /\ files' = [files EXCEPT ![p] = WithHeader(@, w)]
      /\ index' = [index EXCEPT ![s] = Append(@, e)]
      /\ durable' = [durable EXCEPT ![s] = @ \cup FramesOf(files[p])]
      /\ OpenWriter(s)' = NoWriter /\ clock' = clock /\ reopened' = reopened
  BY <1>1 DEF Finalizes, Finalize
<1>4. /\ files'[p] = WithHeader(files[p], w)
      /\ \A q \in Paths : q # p => files'[q] = files[q]
      /\ index'[s] = Append(index[s], e)
      /\ durable'[s] = durable[s] \cup FramesOf(files[p])
  <2> HIDE DEF p, w, e
  <2>1. QED
    BY <1>1, <1>2, <1>3
<1>5. \A g \in Segments : g # Seg(w) => files'[<<s, g>>] = files[<<s, g>>]
  BY <1>1, <1>4, PathParts
<1>6. /\ e \in Entry /\ e.seg = Seg(w) /\ e.size = w.bytes
      /\ e.start = w.start /\ e.end = w.end
  BY <1>1, WriterFields
<1>7. n \in Nat /\ DOMAIN index[s] = 1 .. n
  BY <1>2, SeqParts
<1>8. /\ DOMAIN index'[s] = 1 .. n + 1 /\ index'[s][n + 1] = e
      /\ \A i \in 1 .. n : index'[s][i] = index[s][i]
  <2> HIDE DEF e
  <2>1. QED
    BY <1>2, <1>4, <1>6
<1>9. /\ files[p] = NoFile => files'[p] = NoFile
      /\ files[p] # NoFile =>
           /\ files'[p] # NoFile /\ files'[p].header = TRUE
           /\ files'[p].start = w.start /\ files'[p].end = w.end
           /\ files'[p].contents = files[p].contents
  <2>1. CASE files[p] = NoFile
    BY <1>4, <2>1 DEF WithHeader
  <2>2. CASE files[p] # NoFile
    <3>1. files[p] \in File
      BY <1>1, <2>2
    <3> DEFINE f == files[p]
               h == WithHeader(f, w)
    <3>2. files'[p] = h /\ f \in File /\ w \in Writer
      BY <1>1, <1>4, <3>1
    <3> HIDE DEF p, w, f
    <3>3. /\ h \in File /\ h.header = TRUE /\ h.start = w.start /\ h.end = w.end
          /\ h.contents = f.contents
      BY <3>2, WithHeaderFacts
    <3>4. h # NoFile
      BY <3>3, FileFields
    <3>5. QED
      BY <2>2, <3>2, <3>3, <3>4 DEF f
  <2>3. QED
    BY <2>1, <2>2
<1>10. FramesOf(files'[p]) = FramesOf(files[p]) /\ HasTorn(files'[p]) = HasTorn(files[p])
  BY <1>9 DEF FramesOf, HasTorn
<1>11. /\ \A f \in FramesOf(files[p]) : SegmentOf(f.t) = Seg(w)
       /\ SegmentOf(w.start) = Seg(w) /\ SegmentOf(w.end) = Seg(w)
       /\ counts.restarts = 0 => \A f \in FramesOf(files[p]) : f.t \in w.start .. w.end
  BY <1>1 DEF SourceSound, FilesSound, WriterSound, Seg
<1>12. \A i \in 1 .. n : <<s, index[s][i].seg>> \notin reopened => index[s][i].seg # Seg(w)
  BY <1>1, <1>7, OpenIsNotIndexed
<1>13. /\ counts'.restarts = 0 => counts.restarts = 0
       /\ counts'.crashes = 0 => counts.crashes = 0
       /\ counts'.faults = 0 => counts.faults = 0
       /\ counts.crashes + counts.faults > 0 => counts'.crashes + counts'.faults > 0
  BY LaterMeans
<1>14. WriterSound(s)' /\ WriterCounted(s)'
  BY <1>3 DEF WriterSound, WriterCounted
<1> HIDE DEF w, p, e, n
<1>15. \A i : i \in 1 .. n + 1 <=> i \in 1 .. n \/ i = n + 1
  BY <1>7
<1>16. FilesSound(s)'
  <2>1. ASSUME NEW g \in Segments
        PROVE  /\ FramesOf(files'[<<s, g>>]) = FramesOf(files[<<s, g>>])
               /\ HasTorn(files'[<<s, g>>]) = HasTorn(files[<<s, g>>])
    <3>1. CASE g = Seg(w)
      BY <1>1, <1>10, <3>1
    <3>2. CASE g # Seg(w)
      BY <1>5, <3>2
    <3>3. QED
      BY <3>1, <3>2
  <2>2. QED
    BY <1>13, <2>1 DEF FilesSound, SourceSound
<1>17. EntriesSound(s)'
  <2>1. EntriesSound(s)
    BY DEF SourceSound
  <2>2. ASSUME NEW i \in 1 .. n + 1, NEW j \in 1 .. n + 1,
               index'[s][i].seg = index'[s][j].seg, i # j
        PROVE  <<s, index'[s][i].seg>> \in reopened
    <3>1. CASE i \in 1 .. n /\ j \in 1 .. n
      BY <1>7, <1>8, <2>1, <2>2, <3>1 DEF EntriesSound
    <3>2. CASE i \in 1 .. n /\ j = n + 1
      BY <1>6, <1>8, <1>12, <2>2, <3>2
    <3>3. CASE i = n + 1 /\ j \in 1 .. n
      BY <1>6, <1>8, <1>12, <2>2, <3>3
    <3>4. QED
      BY <1>15, <2>2, <3>1, <3>2, <3>3
  <2>3. ASSUME counts'.crashes = 0, NEW i \in 1 .. n + 1
        PROVE  /\ SegmentOf(index'[s][i].start) = index'[s][i].seg
               /\ SegmentOf(index'[s][i].end) = index'[s][i].seg
    <3>1. CASE i \in 1 .. n
      BY <1>7, <1>8, <1>13, <2>1, <2>3, <3>1 DEF EntriesSound
    <3>2. CASE i = n + 1
      BY <1>6, <1>8, <1>11, <3>2
    <3>3. QED
      BY <1>15, <3>1, <3>2
  <2> DEFINE D == DOMAIN index'[s]
  <2>4. D = 1 .. n + 1 /\ reopened' = reopened
    BY <1>3, <1>8
  <2> HIDE DEF D
  <2>5. \A i, j \in D : index'[s][i].seg = index'[s][j].seg /\ i # j =>
           <<s, index'[s][i].seg>> \in reopened'
    BY <2>2, <2>4
  <2>6. counts'.crashes = 0 =>
          \A i \in D : /\ SegmentOf(index'[s][i].start) = index'[s][i].seg
                      /\ SegmentOf(index'[s][i].end) = index'[s][i].seg
    BY <2>3, <2>4
  <2>7. QED
    BY <2>5, <2>6 DEF EntriesSound, D
<1>18. DurableSound(s)'
  <2>1. SUFFICES ASSUME counts'.restarts = 0, NEW f \in durable'[s],
                        <<s, SegmentOf(f.t)>> \notin reopened
                 PROVE  Kept(s, f)'
    BY <1>3 DEF DurableSound, Kept
  <2>2. counts.restarts = 0
    BY <1>13, <2>1
  <2>3. CASE f \in FramesOf(files[p])
    <3>1. SegmentOf(f.t) = Seg(w) /\ f.t \in w.start .. w.end
      BY <1>11, <2>2, <2>3
    <3>2. files[p] # NoFile
      BY <2>3, NoFrameInNoFile
    <3>3. n + 1 \in DOMAIN index'[s] /\ index'[s][n + 1] = e
      BY <1>8, <1>15
    <3>4. \E i \in DOMAIN index'[s] :
            index'[s][i].seg = SegmentOf(f.t) /\ Holds(index'[s][i], f)
      BY <1>6, <3>1, <3>3 DEF Holds
    <3>5. files'[p] # NoFile /\ files'[p].header /\ Holds(files'[p], f)
          /\ f \in FramesOf(files'[p])
      BY <1>9, <1>10, <2>3, <3>1, <3>2 DEF Holds
    <3>6. <<s, SegmentOf(f.t)>> = p
      BY <1>1, <3>1
    <3>7. QED
      BY <3>4, <3>5, <3>6 DEF Kept, Holds
  <2>4. CASE f \in durable[s]
    <3>1. Kept(s, f) /\ SegmentOf(f.t) \in Segments
      BY <1>2, <2>2, <2>4, PathParts DEF SourceSound, DurableSound, Frame
    <3>2. PICK i \in 1 .. n : index[s][i].seg = SegmentOf(f.t) /\ Holds(index[s][i], f)
      BY <1>7, <2>1, <3>1 DEF Kept
    <3>3. SegmentOf(f.t) # Seg(w)
      BY <1>12, <2>1, <3>2
    <3>4. files'[<<s, SegmentOf(f.t)>>] = files[<<s, SegmentOf(f.t)>>]
      BY <1>5, <3>1, <3>3
    <3>5. i \in DOMAIN index'[s] /\ index'[s][i] = index[s][i]
      BY <1>8, <1>15
    <3>6. QED
      BY <2>1, <3>1, <3>2, <3>4, <3>5 DEF Kept, Holds
  <2>5. QED
    BY <1>4, <2>1, <2>3, <2>4
<1>19. ASSUME counts'.faults = 0, reopened' = {} PROVE EntriesCounted(s)'
  <2>1. counts.faults = 0 /\ reopened = {} /\ EntriesCounted(s)
    BY <1>3, <1>13, <1>19 DEF SourceSound, SizesSound
  <2>2. files[p] # NoFile /\ files[p].header /\ w.bytes = SizeOf(files[p])
    BY <1>1, <2>1 DEF SourceSound, SizesSound, WriterCounted, w, p
  <2>3. ASSUME NEW i \in 1 .. n + 1
        PROVE  index'[s][i].size = SizeOf(files'[<<s, index'[s][i].seg>>])
    <3>1. CASE i \in 1 .. n
      <4>1. index[s][i].seg \in Segments
        BY <1>7, <3>1, TypeParts, EntryFields
      <4>2. files'[<<s, index[s][i].seg>>] = files[<<s, index[s][i].seg>>]
        BY <1>5, <1>12, <2>1, <3>1, <4>1
      <4>3. index[s][i].size = SizeOf(files[<<s, index[s][i].seg>>])
        BY <1>7, <2>1, <3>1 DEF EntriesCounted
      <4>4. QED
        BY <1>8, <3>1, <4>2, <4>3
    <3>2. CASE i = n + 1
      <4>1. SizeOf(files'[p]) = SizeOf(files[p])
        BY <1>9, <2>2 DEF SizeOf
      <4>2. QED
        BY <1>1, <1>6, <1>8, <2>2, <3>2, <4>1
    <3>3. QED
      BY <1>15, <3>1, <3>2
  <2>4. QED
    BY <1>8, <2>3 DEF EntriesCounted
<1>20. QED
  BY <1>14, <1>16, <1>17, <1>18, <1>19 DEF SourceSound, SizesSound

(* A cleanup deletes entries with their files.                             *)
Cleans(s, cutoff) ==
  /\ index'[s] = Without(index[s], Deleted(s, cutoff))
  /\ \A g \in Segments :
       files'[<<s, g>>] =
         IF \E i \in Deleted(s, cutoff) : index[s][i].seg = g
           THEN NoFile ELSE files[<<s, g>>]
  /\ durable'[s] = {f \in durable[s] : f.t >= cutoff}
  /\ OpenWriter(s)' = OpenWriter(s)
  /\ UNCHANGED <<clock, counts, reopened>>

LEMMA CleaningIsSound ==
  ASSUME TypeOK, TypeOK', NEW cutoff \in Nat, NEW s \in Sources,
         SourceSound(s), Cleans(s, cutoff)
  PROVE  SourceSound(s)'
<1> DEFINE D == Deleted(s, cutoff)
           old == index[s]
           new == index'[s]
<1>1. /\ new = Without(old, D)
      /\ \A g \in Segments :
           files'[<<s, g>>] = IF \E i \in D : old[i].seg = g THEN NoFile ELSE files[<<s, g>>]
      /\ durable'[s] = {f \in durable[s] : f.t >= cutoff}
      /\ OpenWriter(s)' = OpenWriter(s)
      /\ clock' = clock /\ counts' = counts /\ reopened' = reopened
  BY DEF Cleans
<1>2. /\ old \in Seq(Entry) /\ new \in Seq(Entry)
      /\ \A i \in DOMAIN old : old[i] \in Entry /\ old[i].seg \in Segments
  BY TypeParts, EntryFields DEF TypeOK
<1>3. /\ DOMAIN new = 1 .. Len(new)
      /\ \E at : PickedAt(new, old, at, DOMAIN old \ D)
  <2> HIDE DEF D, old, new
  <2>1. DOMAIN new = 1 .. Len(new)
    BY <1>2, SeqParts
  <2>2. \E at : PickedAt(Without(old, D), old, at, DOMAIN old \ D)
    BY <1>2, WithoutFacts
  <2>3. QED
    BY <1>1, <2>1, <2>2
<1>4. /\ D \subseteq DOMAIN old
      /\ \A i \in D : old[i].end < cutoff
  BY DEF Deleted, IsOld
<1>5. OpenPath(s)' = OpenPath(s)
  BY <1>1 DEF OpenPath
<1> HIDE DEF D, old, new
<1>6. PICK at : PickedAt(new, old, at, DOMAIN old \ D)
  BY <1>3
<1>7. /\ \A k \in DOMAIN new : at[k] \in DOMAIN old \ D /\ new[k] = old[at[k]]
      /\ \A k, l \in DOMAIN new : at[k] = at[l] => k = l
      /\ \A i \in DOMAIN old \ D : \E k \in DOMAIN new : at[k] = i
  BY <1>3, <1>6 DEF PickedAt
<1>8. /\ \A i, j \in DOMAIN old :
           old[i].seg = old[j].seg /\ i # j => <<s, old[i].seg>> \in reopened
      /\ counts.crashes = 0 =>
           \A i \in DOMAIN old :
             /\ SegmentOf(old[i].start) = old[i].seg
             /\ SegmentOf(old[i].end) = old[i].seg
  BY DEF SourceSound, EntriesSound, old
<1>9. EntriesSound(s)'
  <2>1. \A k, l \in DOMAIN new :
          new[k].seg = new[l].seg /\ k # l => <<s, new[k].seg>> \in reopened
    BY <1>7, <1>8
  <2>2. counts.crashes = 0 =>
          \A k \in DOMAIN new :
            /\ SegmentOf(new[k].start) = new[k].seg
            /\ SegmentOf(new[k].end) = new[k].seg
    BY <1>7, <1>8
  <2>3. QED
    BY <1>1, <2>1, <2>2 DEF EntriesSound, new
(* What an entry still names is there.                                     *)
<1>10. ASSUME NEW i \in DOMAIN old \ D, <<s, old[i].seg>> \notin reopened
       PROVE  files'[<<s, old[i].seg>>] = files[<<s, old[i].seg>>]
  <2>1. ~ \E j \in D : old[j].seg = old[i].seg
    BY <1>4, <1>8, <1>10
  <2>2. QED
    BY <1>1, <1>2, <2>1
<1>11. \A g \in Segments :
         /\ FramesOf(files'[<<s, g>>]) \subseteq FramesOf(files[<<s, g>>])
         /\ HasTorn(files'[<<s, g>>]) => HasTorn(files[<<s, g>>])
  <2>1. FramesOf(NoFile) = {} /\ ~HasTorn(NoFile)
    BY DEF FramesOf, HasTorn
  <2>2. QED
    BY <1>1, <2>1
<1>12. FilesSound(s)'
  BY <1>1, <1>11 DEF SourceSound, FilesSound
<1>13. WriterSound(s)'
  <2>1. SUFFICES ASSUME OpenWriter(s) # NoWriter PROVE WriterSound(s)'
    BY <1>1 DEF WriterSound
  <2>2. OpenPath(s) = <<s, Seg(OpenWriter(s))>> /\ Seg(OpenWriter(s)) \in Segments
    BY <2>1, OpenWriterTyped
  <2>3. OpenPath(s)[1] = s
    BY <2>2
  <2>4. Indexed(OpenPath(s))' => Indexed(OpenPath(s))
    BY <1>5, <1>7, <2>3 DEF Indexed, old, new
  <2>5. FramesOf(files'[OpenPath(s)]) \subseteq FramesOf(files[OpenPath(s)])
    BY <1>11, <2>2
  <2>6. WriterSound(s)
    BY DEF SourceSound
  <2>7. QED
    BY <1>1, <1>5, <2>1, <2>4, <2>5, <2>6 DEF WriterSound
<1>14. DurableSound(s)'
  <2>1. SUFFICES ASSUME counts.restarts = 0, NEW f \in durable[s], f.t >= cutoff,
                        <<s, SegmentOf(f.t)>> \notin reopened
                 PROVE  Kept(s, f)'
    BY <1>1 DEF DurableSound, Kept
  <2>2. Kept(s, f)
    BY <2>1 DEF SourceSound, DurableSound
  <2>3. PICK i \in DOMAIN old : old[i].seg = SegmentOf(f.t) /\ Holds(old[i], f)
    BY <2>1, <2>2 DEF Kept, old
  <2>4. i \notin D
    <3>1. old[i].end \in Nat /\ old[i].start \in Nat
      BY <1>2, EntryFields, TimesAreNat
    <3>2. f.t <= old[i].end /\ f.t \in Nat
      BY <2>3, <3>1 DEF Holds
    <3>3. ~(old[i].end < cutoff)
      BY <2>1, <3>1, <3>2
    <3>4. QED
      BY <1>4, <3>3
  <2>5. files'[<<s, SegmentOf(f.t)>>] = files[<<s, SegmentOf(f.t)>>]
    BY <1>10, <2>1, <2>3, <2>4
  <2>6. PICK k \in DOMAIN new : new[k] = old[i]
    BY <1>7, <2>3, <2>4
  <2>7. \E k2 \in DOMAIN index'[s] :
          index'[s][k2].seg = SegmentOf(f.t) /\ Holds(index'[s][k2], f)
    BY <2>3, <2>6 DEF new
  <2>8. QED
    BY <2>1, <2>2, <2>5, <2>7 DEF Kept, Holds
<1>15. SizesSound(s)'
  <2>1. SUFFICES ASSUME counts.faults = 0, reopened = {}
                 PROVE  WriterCounted(s)' /\ EntriesCounted(s)'
    BY <1>1 DEF SizesSound
  <2>2. WriterCounted(s) /\ EntriesCounted(s)
    BY <2>1 DEF SourceSound, SizesSound
  <2>3. WriterCounted(s)'
    <3>1. SUFFICES ASSUME OpenWriter(s) # NoWriter PROVE WriterCounted(s)'
      BY <1>1 DEF WriterCounted
    <3>2. OpenPath(s) = <<s, Seg(OpenWriter(s))>> /\ Seg(OpenWriter(s)) \in Segments
      BY <3>1, OpenWriterTyped
    <3>3. \A i \in DOMAIN old : old[i].seg # Seg(OpenWriter(s))
      BY <2>1, <3>1, OpenIsNotIndexed DEF old
    <3>4. files'[OpenPath(s)] = files[OpenPath(s)]
      BY <1>1, <1>4, <3>2, <3>3
    <3>5. QED
      BY <1>1, <1>5, <2>2, <3>4 DEF WriterCounted
  <2>4. ASSUME NEW k \in DOMAIN new
        PROVE  new[k].size = SizeOf(files'[<<s, new[k].seg>>])
    <3>1. at[k] \in DOMAIN old \ D /\ new[k] = old[at[k]]
      BY <1>7
    <3>2. files'[<<s, new[k].seg>>] = files[<<s, new[k].seg>>]
      BY <1>10, <2>1, <3>1
    <3>3. QED
      BY <2>2, <3>1, <3>2 DEF EntriesCounted, old
  <2>5. QED
    BY <2>3, <2>4 DEF EntriesCounted, new
<1>16. QED
  BY <1>9, <1>12, <1>13, <1>14, <1>15 DEF SourceSound

(* The scan of a restart makes an entry of each file with a header.        *)
Scans(s) ==
  /\ OpenWriter(s) = NoWriter /\ OpenWriter(s)' = NoWriter
  /\ index'[s] = SortedByStart(Scanned(s)) /\ counts.crashes > 0
  /\ UNCHANGED <<files, clock, counts, reopened, durable>>

LEMMA ScanningIsSound ==
  ASSUME TypeOK, TypeOK', NEW s \in Sources, SourceSound(s), Scans(s)
  PROVE  SourceSound(s)'
<1> DEFINE e == SortedByStart(Scanned(s))
<1>1. /\ index'[s] = e /\ counts.crashes > 0 /\ OpenWriter(s)' = NoWriter
      /\ files' = files /\ clock' = clock /\ counts' = counts
      /\ reopened' = reopened /\ durable' = durable
  BY DEF Scans
<1>2. /\ e \in Seq(Scanned(s))
      /\ \A i, j \in DOMAIN e : e[i] = e[j] => i = j
      /\ \A x \in Scanned(s) : \E i \in DOMAIN e : e[i] = x
  <2>1. IsFiniteSet(Scanned(s)) /\ \A x \in Scanned(s) : x.start \in Nat
    BY ScannedTyped, EntryFields, TimesAreNat
  <2>2. QED
    BY <2>1, SortedFacts
<1> HIDE DEF e
<1>3. \A i \in DOMAIN e : e[i] \in Scanned(s)
  BY <1>2, SeqParts
<1>4. \A x \in Scanned(s) :
        /\ x.size = SizeOf(files[<<s, x.seg>>])
        /\ x.start = files[<<s, x.seg>>].start /\ x.end = files[<<s, x.seg>>].end
        /\ x = [seg |-> x.seg, start |-> files[<<s, x.seg>>].start,
                end |-> files[<<s, x.seg>>].end, size |-> SizeOf(files[<<s, x.seg>>])]
  <2>1. SUFFICES ASSUME NEW x \in Scanned(s)
                 PROVE  /\ x.size = SizeOf(files[<<s, x.seg>>])
                        /\ x.start = files[<<s, x.seg>>].start
                        /\ x.end = files[<<s, x.seg>>].end
                        /\ x = [seg |-> x.seg, start |-> files[<<s, x.seg>>].start,
                                end |-> files[<<s, x.seg>>].end,
                                size |-> SizeOf(files[<<s, x.seg>>])]
    OBVIOUS
  <2>2. PICK g \in Segments :
          x = [seg |-> g, start |-> files[<<s, g>>].start,
               end |-> files[<<s, g>>].end, size |-> SizeOf(files[<<s, g>>])]
    BY DEF Scanned
  <2>3. x.seg = g
    BY <2>2
  <2>4. QED
    BY <2>2, <2>3
<1>5. FilesSound(s)'
  BY <1>1 DEF SourceSound, FilesSound
<1>6. WriterSound(s)' /\ WriterCounted(s)'
  BY <1>1 DEF WriterSound, WriterCounted
<1>7. EntriesSound(s)'
  <2>1. \A x, y \in Scanned(s) : x.seg = y.seg => x = y
    BY <1>4
  <2>2. \A i, j \in DOMAIN e : e[i].seg = e[j].seg => i = j
    BY <1>2, <1>3, <2>1
  <2>3. counts'.crashes # 0
    <3>1. counts.crashes \in Nat
      BY TypeParts
    <3>2. QED
      BY <1>1, <3>1
  <2>4. QED
    BY <1>1, <2>2, <2>3 DEF EntriesSound
<1>8. EntriesCounted(s)'
  BY <1>1, <1>3, <1>4 DEF EntriesCounted
<1>9. DurableSound(s)'
  <2>1. SUFFICES ASSUME counts.restarts = 0, NEW f \in durable[s],
                        <<s, SegmentOf(f.t)>> \notin reopened
                 PROVE  Kept(s, f)'
    BY <1>1 DEF DurableSound, Kept
  <2> DEFINE g == SegmentOf(f.t)
             p == <<s, g>>
  <2>2. /\ files[p] # NoFile /\ files[p].header /\ Holds(files[p], f)
        /\ f \in FramesOf(files[p])
    BY <2>1 DEF SourceSound, DurableSound, Kept
  <2>3. g \in Segments /\ p \in Paths
    BY PathParts DEF TypeOK, Frame
  <2>4. SizeOf(files[p]) > 0
    <3>1. files[p] \in File
      BY <2>2, <2>3, TypeParts
    <3> DEFINE d == Len(files[p].contents)
    <3>2. d \in Nat /\ SizeOf(files[p]) = 1 + d
      BY <2>2, <3>1, FileFields DEF SizeOf
    <3> HIDE DEF d
    <3>3. QED
      BY <3>2
  <2> DEFINE x == [seg |-> g, start |-> files[p].start, end |-> files[p].end,
                   size |-> SizeOf(files[p])]
  <2>5. x \in Scanned(s)
    BY <2>3, <2>4 DEF Scanned
  <2>6. PICK i \in DOMAIN e : e[i] = x
    BY <1>2, <2>5
  <2>7. e[i].seg = g /\ Holds(e[i], f)
    BY <2>2, <2>6 DEF Holds
  <2>8. \E k \in DOMAIN index'[s] :
          index'[s][k].seg = SegmentOf(f.t) /\ Holds(index'[s][k], f)
    BY <1>1, <2>6, <2>7
  <2>9. QED
    BY <1>1, <2>2, <2>8 DEF Kept, Holds
<1>10. QED
  BY <1>5, <1>6, <1>7, <1>8, <1>9 DEF SourceSound, SizesSound

-----------------------------------------------------------------------------
(* Every step.                                                             *)

LEMMA LaterKept ==
  ASSUME TypeOK, TypeOK', Next
  PROVE  Later
<1> USE DEF diskVars, taskVars, history
<1>1. Event = {"frames", "restarts", "crashes", "flushes", "faults"}
  BY DEF Event
<1>2. (\A e \in Event : counts[e] \in Nat) /\ \A s \in Sources : clock[s] \in Nat
  BY TypeParts
<1>3. ASSUME NEW event \in Event, Count(event)
      PROVE  counts'[event] > 0 /\ \A e \in Event : counts'[e] >= counts[e]
  BY <1>3, CountFacts
<1>4. ASSUME UNCHANGED counts PROVE \A e \in Event : counts'[e] >= counts[e]
  BY <1>2, <1>4
<1>5. ASSUME UNCHANGED clock PROVE \A s \in Sources : clock'[s] >= clock[s]
  BY <1>2, <1>5
<1>6. ASSUME NEW s \in Sources, NEW t \in Times, StoreFrame(s, t) PROVE Later
  <2>1. clock \in [Sources -> Times] /\ clock' = [clock EXCEPT ![s] = t] /\ t >= clock[s]
    BY <1>6 DEF StoreFrame, TypeOK
  <2>2. \A r \in Sources : clock'[r] >= clock[r]
    BY <1>2, <2>1
  <2>3. \A e \in Event : counts'[e] >= counts[e]
    BY <1>1, <1>3, <1>6 DEF StoreFrame
  <2>4. QED
    BY <1>6, <2>2, <2>3 DEF StoreFrame, Later
<1>7. ASSUME NEW s \in Sources, CameraRestarts(s) PROVE Later
  <2>1. counts'["restarts"] > 0 /\ \A e \in Event : counts'[e] >= counts[e]
    BY <1>1, <1>3, <1>7 DEF CameraRestarts
  <2>2. counts'.restarts # 0
    BY <2>1
  <2>3. QED
    BY <1>7, <2>1, <2>2 DEF CameraRestarts, Later
<1>8. ASSUME NEW s \in Sources, FlushSource(s) \/ LoseBuffer(s) PROVE Later
  <2>1. \A e \in Event : counts'[e] >= counts[e]
    BY <1>1, <1>3, <1>4, <1>8 DEF FlushSource, LoseBuffer
  <2>2. QED
    BY <1>5, <1>8, <2>1 DEF FlushSource, LoseBuffer, Later
<1>9. ASSUME UseWriter \/ BeginClose \/ EndClose \/ WriteFrame \/ WriterGone
               \/ LoseClosing \/ Restart \/ \E cutoff \in 1 .. MaxTime + 1 : Cleanup(cutoff)
      PROVE  Later
  <2>1. UNCHANGED <<counts, clock, reopened>>
    BY <1>9 DEF UseWriter, BeginClose, EndClose, WriteFrame, WriterGone, LoseClosing,
                Restart, Cleanup
  <2>2. QED
    BY <1>4, <1>5, <2>1 DEF Later
<1>10. ASSUME CloseFails \/ CreateFails \/ WriteFails \/ Crash PROVE Later
  <2>1. UNCHANGED <<clock, reopened>> /\ (Count("faults") \/ Count("crashes"))
    BY <1>10 DEF CloseFails, CreateFails, WriteFails, Crash
  <2>2. QED
    BY <1>1, <1>3, <1>5, <2>1 DEF Later
<1>11. ASSUME CreateWriter PROVE Later
  <2>1. UNCHANGED <<counts, clock>> /\ reopened \subseteq reopened'
    BY <1>11 DEF CreateWriter
  <2>2. QED
    BY <1>4, <1>5, <2>1 DEF Later
<1>12. QED
  BY <1>6, <1>7, <1>8, <1>9, <1>10, <1>11 DEF Next

(* Who has the writer of a camera.                                         *)
LEMMA TaskParts ==
  ASSUME TypeOK, ControlSound
  PROVE  /\ pc # "closing" => closing = NoWriter
         /\ pc # "idle" => /\ frame \in Frame /\ frame.source \in Sources
                           /\ frame.t \in Times
         /\ closing # NoWriter =>
              /\ pc = "closing" /\ frame \in Frame /\ frame.source \in Sources
              /\ closing \in Writer /\ Seg(closing) \in Segments
              /\ OpenWriter(frame.source) = closing
              /\ writers[frame.source] = NoWriter
         /\ \A s : closing = NoWriter \/ s # frame.source => OpenWriter(s) = writers[s]
         /\ closing' = NoWriter => \A s : OpenWriter(s)' = writers'[s]
<1>1. \A f \in Frame : f.source \in Sources /\ f.t \in Times
  BY DEF Frame
<1>2. closing # NoWriter => closing \in Writer
  BY DEF TypeOK
<1>3. QED
  BY <1>1, <1>2, WriterFields DEF ControlSound, OpenWriter

(* What a step that writes one file leaves alone.                          *)
LEMMA OneFile ==
  ASSUME TypeOK, NEW s \in Sources, NEW g \in Segments, NEW f \in File \cup {NoFile},
         FileChanges(<<s, g>>, f)
  PROVE  /\ files'[<<s, g>>] = f
         /\ \A h \in Segments : h # g => files'[<<s, h>>] = files[<<s, h>>]
         /\ \A r \in Sources, h \in Segments :
              r # s => files'[<<r, h>>] = files[<<r, h>>]
<1>1. <<s, g>> \in Paths
  BY PathParts
<1>2. files'[<<s, g>>] = f /\ \A q \in Paths : q # <<s, g>> => files'[q] = files[q]
  BY <1>1, FilesTyped
<1>3. \A r \in Sources, h \in Segments :
        /\ <<r, h>> \in Paths
        /\ r # s \/ h # g => <<r, h>> # <<s, g>>
  BY PathParts
<1>4. QED
  BY <1>2, <1>3

LEMMA OneSource ==
  ASSUME TypeOK, TypeOK', Later, DiskSound, NEW s \in Sources, NEW g \in Segments,
         NEW f \in File \cup {NoFile}, FileChanges(<<s, g>>, f),
         \A r \in Sources : r # s => /\ index'[r] = index[r] /\ durable'[r] = durable[r]
                                     /\ OpenWriter(r)' = OpenWriter(r),
         \A q \in reopened' : q \in reopened \/ q[1] = s,
         SourceSound(s)', TotalSound'
  PROVE  DiskSound'
<1>1. ASSUME NEW r \in Sources, r # s PROVE SourceSound(r)'
  <2>1. \A h \in Segments : files'[<<r, h>>] = files[<<r, h>>]
    BY <1>1, OneFile
  <2>2. \A h \in Segments : <<r, h>> \in reopened' => <<r, h>> \in reopened
    BY <1>1, PathParts
  <2>3. Untouched(r)
    BY <1>1, <2>1, <2>2 DEF Untouched
  <2>4. QED
    BY <2>3, UntouchedStays DEF DiskSound
<1>2. QED
  BY <1>1 DEF DiskSound

LEMMA TotalUnchanged ==
  ASSUME TotalSound, UNCHANGED <<index, total_bytes>>
  PROVE  TotalSound'
<1>1. BytesIn(index') = BytesIn(index)
  OBVIOUS
<1>2. QED
  BY <1>1 DEF TotalSound

LEMMA QuietIsSound ==
  ASSUME TypeOK, TypeOK', Later, DiskSound,
         UNCHANGED <<files, index, total_bytes, durable, reopened>>,
         \A s \in Sources : OpenWriter(s)' = OpenWriter(s)
  PROVE  DiskSound'
<1>1. ASSUME NEW s \in Sources PROVE SourceSound(s)'
  <2>1. Untouched(s)
    BY DEF Untouched
  <2>2. QED
    BY <2>1, UntouchedStays DEF DiskSound
<1>2. TotalSound'
  BY TotalUnchanged DEF DiskSound
<1>3. QED
  BY <1>1, <1>2 DEF DiskSound

LEMMA FinalizingKeepsDisk ==
  ASSUME TypeOK, TypeOK', Later, DiskSound, NEW s \in Sources, Finalizes(s),
         \A r \in Sources : r # s => OpenWriter(r)' = OpenWriter(r)
  PROVE  DiskSound'
<1> DEFINE w == OpenWriter(s)
           g == Seg(w)
           f == WithHeader(files[<<s, g>>], w)
           h == files[<<s, g>>]
<1>1. w \in Writer /\ g \in Segments /\ h \in File \cup {NoFile}
  BY OpenWriterTyped, PathParts, TypeParts DEF Finalizes
<1>2. /\ FileChanges(<<s, g>>, f) /\ index' = [index EXCEPT ![s] = Append(@, EntryOf(w))]
      /\ total_bytes' = total_bytes + w.bytes /\ reopened' = reopened
      /\ durable' = [durable EXCEPT ![s] = @ \cup FramesOf(h)]
  BY DEF Finalizes, Finalize, FileChanges
<1>3. /\ index \in [Sources -> Seq(Entry)] /\ durable \in [Sources -> SUBSET Frame]
      /\ EntryOf(w) \in Entry /\ EntryOf(w).size = w.bytes
  BY <1>1, WriterFields DEF TypeOK
<1>4. f \in File \cup {NoFile}
  BY <1>1, WithHeaderFacts DEF WithHeader
<1>5. TotalSound'
  BY <1>2, <1>3, BytesWithOneMore DEF DiskSound, TotalSound
<1>6. SourceSound(s)'
  BY FinalizingIsSound DEF DiskSound
<1> HIDE DEF w, g, f, h
<1>7. \A r \in Sources : r # s => index'[r] = index[r] /\ durable'[r] = durable[r]
  BY <1>2, <1>3
<1>8. QED
  BY <1>1, <1>2, <1>4, <1>5, <1>6, <1>7, OneSource

(* A step of the writer of s, which does not touch the index.              *)
LEMMA WritingKeepsDisk ==
  ASSUME TypeOK, TypeOK', Later, DiskSound, NEW s \in Sources, NEW g \in Segments,
         NEW f \in File \cup {NoFile}, FileChanges(<<s, g>>, f),
         UNCHANGED <<index, total_bytes, durable>>,
         \A r \in Sources : r # s => OpenWriter(r)' = OpenWriter(r),
         \A q \in reopened' : q \in reopened \/ q[1] = s,
         SourceSound(s)'
  PROVE  DiskSound'
<1>1. TotalSound'
  BY TotalUnchanged DEF DiskSound
<1>2. \A r \in Sources : index'[r] = index[r] /\ durable'[r] = durable[r]
  OBVIOUS
<1>3. QED
  BY <1>1, <1>2, OneSource

LEMMA QuietSteps ==
  ASSUME TypeOK, TypeOK', ControlSound, ControlSound', Later, DiskSound,
         \/ \E s \in Sources : CameraRestarts(s) \/ \E t \in Times : StoreFrame(s, t)
         \/ UseWriter \/ BeginClose \/ CreateFails \/ WriterGone \/ Crash
  PROVE  DiskSound'
<1> USE DEF diskVars, taskVars, history
<1>1. UNCHANGED <<files, index, total_bytes, durable, reopened>>
  BY DEF CameraRestarts, StoreFrame, UseWriter, BeginClose, CreateFails, WriterGone,
         Crash
<1>2. ASSUME NEW s \in Sources PROVE OpenWriter(s)' = OpenWriter(s)
  <2>1. CASE BeginClose
    <3>1. /\ closing = NoWriter /\ frame.source \in Sources
          /\ OpenWriter(s) = writers[s]
      BY <2>1, TaskParts DEF BeginClose
    <3>2. /\ frame' = frame /\ closing' = writers[frame.source]
          /\ writers' = [writers EXCEPT ![frame.source] = NoWriter]
      BY <2>1 DEF BeginClose
    <3>3. closing' # NoWriter
      BY <2>1, <3>2 DEF BeginClose, HasWriter
    <3>4. writers'[s] = IF s = frame.source THEN NoWriter ELSE writers[s]
      BY <3>2 DEF TypeOK
    <3>5. QED
      BY <3>1, <3>2, <3>3, <3>4 DEF OpenWriter
  <2>2. CASE \E r \in Sources, t \in Times : StoreFrame(r, t)
    <3>1. closing = NoWriter /\ closing' = NoWriter /\ writers' = writers
      BY <2>2, TaskParts DEF StoreFrame
    <3>2. QED
      BY <3>1, TaskParts
  <2>3. CASE (\E r \in Sources : CameraRestarts(r)) \/ UseWriter \/ CreateFails
               \/ WriterGone \/ Crash
    <3>1. UNCHANGED <<closing, writers, frame>>
      BY <2>3 DEF CameraRestarts, UseWriter, CreateFails, WriterGone, Crash
    <3>2. QED
      BY <3>1 DEF OpenWriter
  <2>4. QED
    BY <2>1, <2>2, <2>3
<1>3. QED
  BY <1>1, <1>2, QuietIsSound

LEMMA EndCloseStep ==
  ASSUME TypeOK, TypeOK', ControlSound, Later, DiskSound, EndClose
  PROVE  DiskSound'
<1> DEFINE s == frame.source
<1>1. closing # NoWriter
  BY DEF EndClose, ControlSound
<1>2. s \in Sources /\ OpenWriter(s) = closing /\ writers[s] = NoWriter
  BY <1>1, TaskParts
<1>3. closing' = NoWriter /\ writers' = writers /\ \A r : OpenWriter(r)' = writers'[r]
  BY TaskParts DEF EndClose
<1>4. Finalizes(s)
  BY <1>1, <1>2, <1>3 DEF EndClose, Finalizes
<1>5. \A r \in Sources : r # s => OpenWriter(r)' = OpenWriter(r)
  BY <1>3, TaskParts
<1>6. QED
  BY <1>2, <1>4, <1>5, FinalizingKeepsDisk

LEMMA FlushStep ==
  ASSUME TypeOK, TypeOK', ControlSound, Later, DiskSound, NEW s \in Sources,
         FlushSource(s)
  PROVE  DiskSound'
<1>1. closing = NoWriter /\ closing' = NoWriter
  BY TaskParts DEF FlushSource, taskVars
<1>2. \A r : OpenWriter(r) = writers[r] /\ OpenWriter(r)' = writers'[r]
  BY <1>1, TaskParts
<1>3. writers'[s] = NoWriter /\ \A r \in Sources : r # s => writers'[r] = writers[r]
  BY DEF FlushSource, TypeOK
<1>4. Finalizes(s)
  BY <1>2, <1>3 DEF FlushSource, HasWriter, Finalizes
<1>5. QED
  BY <1>2, <1>3, <1>4, FinalizingKeepsDisk

(* A writer that is lost, with what of its file is there.                  *)
LEMMA LosingKeepsDisk ==
  ASSUME TypeOK, TypeOK', Later, DiskSound, NEW s \in Sources,
         OpenWriter(s) # NoWriter, OpenWriter(s)' = NoWriter,
         \A r \in Sources : r # s => OpenWriter(r)' = OpenWriter(r),
         counts'.crashes + counts'.faults > 0,
         UNCHANGED <<index, total_bytes, durable, reopened>>,
         NEW f, PartOf(f, files[OpenPath(s)]), FileChanges(OpenPath(s), f)
  PROVE  DiskSound'
<1>1. /\ OpenPath(s) = <<s, Seg(OpenWriter(s))>> /\ Seg(OpenWriter(s)) \in Segments
      /\ f \in File \cup {NoFile}
  BY OpenWriterTyped DEF PartOf
<1>2. /\ files'[OpenPath(s)] = f
      /\ \A g \in Segments :
           g # Seg(OpenWriter(s)) => files'[<<s, g>>] = files[<<s, g>>]
  BY <1>1, OneFile
<1>3. Loses(s)
  BY <1>2 DEF Loses, Writing
<1>4. SourceSound(s)'
  BY <1>3, LosingIsSound DEF DiskSound
<1>5. QED
  BY <1>1, <1>4, WritingKeepsDisk

LEMMA CloseFailsStep ==
  ASSUME TypeOK, TypeOK', ControlSound, Later, DiskSound, CloseFails
  PROVE  DiskSound'
<1> DEFINE s == frame.source
<1>1. closing # NoWriter
  BY DEF CloseFails, ControlSound
<1>2. /\ s \in Sources /\ OpenWriter(s) = closing /\ writers[s] = NoWriter
      /\ closing \in Writer /\ Seg(closing) \in Segments
  BY <1>1, TaskParts
<1>3. closing' = NoWriter /\ writers' = writers /\ \A r : OpenWriter(r)' = writers'[r]
  BY TaskParts DEF CloseFails
<1>4. \A r \in Sources : r # s => OpenWriter(r)' = OpenWriter(r)
  BY <1>3, TaskParts
<1>5. OpenPath(s) = <<s, Seg(closing)>> /\ files[OpenPath(s)] \in File \cup {NoFile}
  BY <1>2, PathParts, TypeParts DEF OpenPath
<1>6. PICK f \in HeaderInPart(files[OpenPath(s)], closing) : FileChanges(OpenPath(s), f)
  BY <1>5 DEF CloseFails, FileChanges
<1>7. PartOf(f, files[OpenPath(s)])
  BY <1>2, <1>5, HeaderInPartFacts
<1>8. counts'.crashes + counts'.faults > 0
  <2>1. "faults" \in Event /\ Count("faults")
    BY DEF CloseFails, Event
  <2>2. counts'.faults > 0
    BY <2>1, CountFacts
  <2>3. counts'.crashes \in Nat /\ counts'.faults \in Nat
    BY DEF TypeOK, Event
  <2>4. QED
    BY <2>2, <2>3
<1>9. UNCHANGED <<index, total_bytes, durable, reopened>>
  BY DEF CloseFails, history
<1>10. QED
  BY <1>1, <1>2, <1>3, <1>4, <1>6, <1>7, <1>8, <1>9, LosingKeepsDisk

LEMMA CrashesCounted ==
  ASSUME TypeOK, TypeOK', ControlSound, ~up, UNCHANGED counts
  PROVE  counts'.crashes + counts'.faults > 0
<1>1. counts.crashes > 0 /\ counts.crashes \in Nat /\ counts.faults \in Nat
  BY TypeParts DEF ControlSound
<1>2. QED
  BY <1>1

LEMMA LoseBufferStep ==
  ASSUME TypeOK, TypeOK', ControlSound, Later, DiskSound, NEW s \in Sources,
         LoseBuffer(s)
  PROVE  DiskSound'
<1> USE DEF LoseBuffer, taskVars, history
<1>1. writers[s] # NoWriter /\ writers[s] \in Writer
  BY DEF HasWriter, TypeOK
<1>2. closing = NoWriter \/ s # frame.source
  BY <1>1, TaskParts
<1>3. OpenWriter(s) = writers[s] /\ closing' = closing /\ frame' = frame
  BY <1>2, TaskParts
<1>4. writers'[s] = NoWriter /\ \A r \in Sources : r # s => writers'[r] = writers[r]
  BY DEF TypeOK
<1>5. OpenWriter(s)' = NoWriter
  BY <1>2, <1>3, <1>4 DEF OpenWriter
<1>6. \A r \in Sources : r # s => OpenWriter(r)' = OpenWriter(r)
  BY <1>3, <1>4 DEF OpenWriter
<1>7. /\ OpenPath(s) = <<s, Seg(writers[s])>>
      /\ files[OpenPath(s)] \in File \cup {NoFile}
  BY <1>1, <1>3, OpenWriterTyped DEF OpenPath
<1>8. PICK f \in OnDisk(files[OpenPath(s)]) : FileChanges(OpenPath(s), f)
  BY <1>7 DEF FileChanges
<1>9. PartOf(f, files[OpenPath(s)])
  BY <1>7, OnDiskFacts
<1>10. counts'.crashes + counts'.faults > 0
  BY CrashesCounted
<1>11. UNCHANGED <<index, total_bytes, durable, reopened>>
  OBVIOUS
<1>12. QED
  BY <1>1, <1>3, <1>5, <1>6, <1>8, <1>9, <1>10, <1>11, LosingKeepsDisk

LEMMA LoseClosingStep ==
  ASSUME TypeOK, TypeOK', ControlSound, Later, DiskSound, LoseClosing
  PROVE  DiskSound'
<1> DEFINE s == frame.source
<1>1. closing # NoWriter
  BY DEF LoseClosing
<1>2. /\ s \in Sources /\ OpenWriter(s) = closing /\ writers[s] = NoWriter
      /\ closing \in Writer /\ Seg(closing) \in Segments
  BY <1>1, TaskParts
<1>3. closing' = NoWriter /\ writers' = writers /\ \A r : OpenWriter(r)' = writers'[r]
  BY TaskParts DEF LoseClosing
<1>4. \A r \in Sources : r # s => OpenWriter(r)' = OpenWriter(r)
  BY <1>3, TaskParts
<1>5. OpenPath(s) = <<s, Seg(closing)>> /\ files[OpenPath(s)] \in File \cup {NoFile}
  BY <1>2, PathParts, TypeParts DEF OpenPath
<1>6. PICK f \in OnDisk(files[OpenPath(s)]) \cup HeaderInPart(files[OpenPath(s)], closing) :
        FileChanges(OpenPath(s), f)
  BY <1>5 DEF LoseClosing, FileChanges
<1>7. PartOf(f, files[OpenPath(s)])
  BY <1>2, <1>5, <1>6, OnDiskFacts, HeaderInPartFacts
<1>8. counts'.crashes + counts'.faults > 0
  BY CrashesCounted DEF LoseClosing
<1>9. UNCHANGED <<index, total_bytes, durable, reopened>>
  BY DEF LoseClosing, history
<1>10. QED
  BY <1>1, <1>2, <1>3, <1>4, <1>6, <1>7, <1>8, <1>9, LosingKeepsDisk

LEMMA CreateStep ==
  ASSUME TypeOK, TypeOK', ControlSound, Later, DiskSound, CreateWriter
  PROVE  DiskSound'
<1> PICK s, t, g : s = frame.source /\ t = frame.t /\ g = SegmentOf(t)
  OBVIOUS
<1>1. /\ pc # "idle" /\ pc # "closing"
      /\ writers[s] = NoWriter
  BY DEF CreateWriter, MayCreate, HasWriter, ControlSound
<1>2. /\ s \in Sources /\ t \in Times /\ closing = NoWriter
      /\ \A r : OpenWriter(r) = writers[r]
      /\ counts.restarts = 0 => t = clock[s]
  BY <1>1, TaskParts DEF ControlSound
<1>3. closing' = NoWriter /\ \A r : OpenWriter(r)' = writers'[r]
  BY <1>2, TaskParts DEF CreateWriter
<1>4. /\ writers' = [writers EXCEPT ![s] = [start |-> t, end |-> t, bytes |-> 1]]
      /\ FileChanges(<<s, g>>, OpenedFile(files[<<s, g>>]))
      /\ reopened' = reopened \cup {q \in {<<s, g>>} : Indexed(q)}
      /\ UNCHANGED <<index, total_bytes, clock, counts, durable>>
  BY DEF CreateWriter, FileChanges
<1>5. /\ writers'[s] = [start |-> t, end |-> t, bytes |-> 1]
      /\ \A r \in Sources : r # s => writers'[r] = writers[r]
  BY <1>2, <1>4 DEF TypeOK
<1>6. g \in Segments /\ OpenedFile(files[<<s, g>>]) \in File \cup {NoFile}
  BY <1>2, PathParts, OpenedFacts
<1>7. /\ files'[<<s, g>>] = OpenedFile(files[<<s, g>>])
      /\ \A h \in Segments : h # g => files'[<<s, h>>] = files[<<s, h>>]
  BY <1>2, <1>4, <1>6, OneFile
<1>8. Opens(s, t)
  BY <1>1, <1>2, <1>3, <1>4, <1>5, <1>7 DEF Opens
<1>9. SourceSound(s)'
  BY <1>2, <1>8, OpeningIsSound DEF DiskSound
<1>10. \A q \in reopened' : q \in reopened \/ q[1] = s
  BY <1>4
<1>11. \A r \in Sources : r # s => OpenWriter(r)' = OpenWriter(r)
  BY <1>2, <1>3, <1>5
<1>12. QED
  BY <1>2, <1>4, <1>6, <1>9, <1>10, <1>11, WritingKeepsDisk

LEMMA WriteStep ==
  ASSUME TypeOK, TypeOK', ControlSound, Later, DiskSound, WriteFrame
  PROVE  DiskSound'
<1> PICK s, w, g, f : /\ s = frame.source /\ w = writers[s] /\ g = Seg(w)
                      /\ f = Written(files[<<s, g>>], frame)
  OBVIOUS
<1>1. pc = "writing" /\ w # NoWriter
  BY DEF WriteFrame, HasWriter
<1>2. /\ s \in Sources /\ frame \in Frame /\ closing = NoWriter
      /\ \A r : OpenWriter(r) = writers[r]
      /\ counts.restarts = 0 => frame.t = clock[s]
      /\ g = SegmentOf(frame.t)
  BY <1>1, TaskParts DEF ControlSound, HasWriter
<1>3. closing' = NoWriter /\ \A r : OpenWriter(r)' = writers'[r]
  BY <1>2, TaskParts DEF WriteFrame
<1>4. /\ writers' = [writers EXCEPT ![s] = WriterAfter(w, frame)]
      /\ FileChanges(<<s, g>>, f)
      /\ UNCHANGED <<index, total_bytes, clock, counts, durable, reopened>>
  BY <1>2 DEF WriteFrame, FileChanges, TypeOK, history
<1>5. /\ writers'[s] = WriterAfter(w, frame)
      /\ \A r \in Sources : r # s => writers'[r] = writers[r]
  BY <1>2, <1>4 DEF TypeOK
<1>6. /\ OpenPath(s) = <<s, g>> /\ g \in Segments
      /\ files[<<s, g>>] \in File \cup {NoFile}
  BY <1>1, <1>2, OpenWriterTyped
<1>7. f \in File \cup {NoFile}
  <2>1. frame \in Content
    BY <1>2 DEF Content
  <2>2. QED
    BY <1>6, <2>1, WrittenFacts DEF Written
<1>8. Writes(s)
  <2>1. /\ files'[<<s, g>>] = f
        /\ \A h \in Segments : h # g => files'[<<s, h>>] = files[<<s, h>>]
    BY <1>2, <1>4, <1>6, <1>7, OneFile
  <2>2. QED
    BY <1>1, <1>2, <1>3, <1>4, <1>5, <1>6, <2>1 DEF Writes, Writing
<1>9. SourceSound(s)'
  BY <1>2, <1>8, WritingIsSound DEF DiskSound
<1>10. \A r \in Sources : r # s => OpenWriter(r)' = OpenWriter(r)
  BY <1>2, <1>3, <1>5
<1>11. QED
  BY <1>2, <1>4, <1>6, <1>7, <1>9, <1>10, WritingKeepsDisk

LEMMA WriteFailsStep ==
  ASSUME TypeOK, TypeOK', ControlSound, Later, DiskSound, WriteFails
  PROVE  DiskSound'
<1> PICK s, w, p : s = frame.source /\ w = writers[s] /\ p = <<s, Seg(w)>>
  OBVIOUS
<1>1. pc = "writing" /\ w # NoWriter
  BY DEF WriteFails, HasWriter
<1>2. s \in Sources /\ closing = NoWriter /\ \A r : OpenWriter(r) = writers[r]
  BY <1>1, TaskParts
<1>3. /\ closing' = NoWriter /\ writers' = writers
      /\ \A r : OpenWriter(r)' = OpenWriter(r)
  BY <1>2, TaskParts DEF WriteFails
<1>4. /\ OpenPath(s) = p /\ Seg(w) \in Segments /\ files[p] \in File \cup {NoFile}
  BY <1>1, <1>2, OpenWriterTyped
<1>5. PICK f \in {files[p], Written(files[p], Torn)} : FileChanges(p, f)
  BY DEF WriteFails, FileChanges
<1>6. f \in File \cup {NoFile} /\ FramesOf(f) = FramesOf(files[p])
  <2>1. CASE f = files[p] \/ files[p] = NoFile
    BY <1>4, <1>5, <2>1 DEF Written
  <2>2. CASE f = Written(files[p], Torn) /\ files[p] \in File
    <3>1. Torn \in Content
      BY DEF Content
    <3>2. \A h \in File :
            /\ Written(h, Torn) \in File
            /\ FramesOf(Written(h, Torn)) = FramesOf(h) \cup ({Torn} \ {Torn})
      BY <3>1, WrittenFacts
    <3>3. QED
      BY <2>2, <3>2
  <2>3. QED
    BY <1>4, <1>5, <2>1, <2>2
<1>7. UNCHANGED <<index, total_bytes, durable, reopened, clock>>
  BY DEF WriteFails, history
<1>8. counts'.faults > 0
  <2>1. "faults" \in Event /\ Count("faults")
    BY DEF WriteFails, Event
  <2>2. QED
    BY <2>1, CountFacts
<1>9. Spoils(s)
  <2>1. /\ files'[p] = f
        /\ \A h \in Segments : h # Seg(w) => files'[<<s, h>>] = files[<<s, h>>]
    BY <1>2, <1>4, <1>5, <1>6, OneFile
  <2>2. QED
    BY <1>1, <1>2, <1>3, <1>4, <1>6, <1>7, <1>8, <2>1 DEF Spoils, Writing
<1>10. SourceSound(s)'
  BY <1>2, <1>9, SpoilingIsSound DEF DiskSound
<1>11. QED
  BY <1>2, <1>3, <1>4, <1>5, <1>6, <1>7, <1>10, WritingKeepsDisk

LEMMA CleanupStep ==
  ASSUME TypeOK, TypeOK', DiskSound, NEW cutoff \in 1 .. MaxTime + 1, Cleanup(cutoff)
  PROVE  DiskSound'
<1>1. cutoff \in Nat
  BY TimesAreNat
<1>2. ASSUME NEW s \in Sources PROVE SourceSound(s)'
  <2>1. /\ index'[s] = Without(index[s], Deleted(s, cutoff))
        /\ durable'[s] = {f \in durable[s] : f.t >= cutoff}
    BY DEF Cleanup
  <2>2. \A g \in Segments :
          files'[<<s, g>>] =
            IF \E i \in Deleted(s, cutoff) : index[s][i].seg = g
              THEN NoFile ELSE files[<<s, g>>]
    BY PathParts DEF Cleanup
  <2>3. UNCHANGED <<writers, closing, frame, clock, counts, reopened>>
    BY DEF Cleanup, taskVars
  <2>4. OpenWriter(s)' = OpenWriter(s)
    BY <2>3 DEF OpenWriter
  <2>5. Cleans(s, cutoff)
    BY <2>1, <2>2, <2>3, <2>4 DEF Cleans
  <2>6. QED
    BY <1>1, <2>5, CleaningIsSound DEF DiskSound
<1>3. TotalSound'
  <2>1. /\ total_bytes' = TotalAfter(cutoff)
        /\ index' = [s \in Sources |-> Without(index[s], Deleted(s, cutoff))]
    BY DEF Cleanup
  <2>2. TotalAfter(cutoff) =
          BytesIn([s \in Sources |-> Without(index[s], Deleted(s, cutoff))])
    BY BytesAfterCleanup DEF DiskSound, TypeOK
  <2>3. QED
    BY <2>1, <2>2 DEF TotalSound
<1>4. QED
  BY <1>2, <1>3 DEF DiskSound

LEMMA RestartStep ==
  ASSUME TypeOK, TypeOK', ControlSound, DiskSound, Restart
  PROVE  DiskSound'
<1>1. ASSUME NEW s \in Sources PROVE SourceSound(s)'
  <2>1. closing = NoWriter /\ closing' = NoWriter /\ writers' = writers
        /\ writers[s] = NoWriter
    BY DEF Restart, HasWriter
  <2>2. OpenWriter(s) = NoWriter /\ OpenWriter(s)' = NoWriter
    BY <2>1 DEF OpenWriter
  <2>3. counts.crashes > 0 /\ index'[s] = SortedByStart(Scanned(s))
    BY DEF Restart, ControlSound
  <2>4. Scans(s)
    BY <2>2, <2>3 DEF Scans, Restart, history
  <2>5. QED
    BY <2>4, ScanningIsSound DEF DiskSound
<1>2. TotalSound'
  BY DEF Restart, TotalSound
<1>3. QED
  BY <1>1, <1>2 DEF DiskSound

LEMMA DiskKept ==
  ASSUME TypeOK, TypeOK', ControlSound, ControlSound', DiskSound, Next
  PROVE  DiskSound'
<1>1. Later
  BY LaterKept
<1>2. CASE \/ \E s \in Sources : CameraRestarts(s) \/ \E t \in Times : StoreFrame(s, t)
           \/ UseWriter \/ BeginClose \/ CreateFails \/ WriterGone \/ Crash
  BY <1>1, <1>2, QuietSteps
<1>3. CASE \E s \in Sources : FlushSource(s) \/ LoseBuffer(s)
  BY <1>1, <1>3, FlushStep, LoseBufferStep
<1>4. CASE EndClose \/ CloseFails \/ LoseClosing
  BY <1>1, <1>4, EndCloseStep, CloseFailsStep, LoseClosingStep
<1>5. CASE CreateWriter \/ WriteFrame \/ WriteFails
  BY <1>1, <1>5, CreateStep, WriteStep, WriteFailsStep
<1>6. CASE Restart \/ \E cutoff \in 1 .. MaxTime + 1 : Cleanup(cutoff)
  BY <1>6, CleanupStep, RestartStep
<1>7. QED
  BY <1>2, <1>3, <1>4, <1>5, <1>6 DEF Next

LEMMA DiskStart == ASSUME Init PROVE DiskSound
<1>1. ASSUME NEW s \in Sources
      PROVE  /\ OpenWriter(s) = NoWriter /\ index[s] = <<>> /\ durable[s] = {}
             /\ \A g \in Segments : files[<<s, g>>] = NoFile
  BY PathParts DEF Init, OpenWriter
<1>2. ASSUME NEW s \in Sources PROVE SourceSound(s)
  <2>1. FilesSound(s)
    BY <1>1, NoFrameInNoFile DEF FilesSound, HasTorn
  <2>2. WriterSound(s) /\ WriterCounted(s)
    BY <1>1 DEF WriterSound, WriterCounted
  <2>3. EntriesSound(s) /\ EntriesCounted(s)
    BY <1>1 DEF EntriesSound, EntriesCounted
  <2>4. DurableSound(s)
    BY <1>1 DEF DurableSound
  <2>5. QED
    BY <2>1, <2>2, <2>3, <2>4 DEF SourceSound, SizesSound
<1>3. TotalSound
  <2>1. ASSUME NEW s \in Sources PROVE BytesOf(index)[s] = 0
    <3>1. index[s] = <<>> /\ DOMAIN index[s] = {}
      BY <1>1
    <3>2. SizesOf(index[s], {}) = 0
      BY SumOfNothing DEF SizesOf
    <3>3. QED
      BY <3>1, <3>2 DEF BytesOf
  <2>2. SumFunctionOnSet(BytesOf(index), Sources) = 0
    BY <2>1, StorageAssumption, SumOfZeros
  <2>3. QED
    BY <2>2, BytesAreSum DEF TotalSound, Init
<1>4. QED
  BY <1>2, <1>3 DEF DiskSound

LEMMA StorageInvHolds == Spec => []StorageInv
<1>1. Init => StorageInv
  BY TypesStart, ControlStart, DiskStart DEF StorageInv
<1>2. StorageInv /\ [Next]_vars => StorageInv'
  <2>1. ASSUME StorageInv, Next PROVE StorageInv'
    <3>1. TypeOK'
      BY <2>1, TypesKept DEF StorageInv, DiskSound
    <3>2. ControlSound'
      BY <2>1, <3>1, ControlKept DEF StorageInv
    <3>3. DiskSound'
      BY <2>1, <3>1, <3>2, DiskKept DEF StorageInv
    <3>4. QED
      BY <3>1, <3>2, <3>3 DEF StorageInv
  <2>2. ASSUME StorageInv, UNCHANGED vars PROVE StorageInv'
    <3>1. UNCHANGED <<files, writers, index, total_bytes, up, pc, frame, closing, clock,
                      counts, durable, reopened>>
      BY <2>2 DEF vars, diskVars, taskVars, history
    <3>2. TypeOK' /\ TotalSound'
      BY <2>2, <3>1 DEF StorageInv, DiskSound, TypeOK, TotalSound
    <3>3. ControlSound'
      BY <2>2, <3>1 DEF StorageInv, ControlSound, HasWriter
    <3>4. DiskSound'
      <4>1. \A s : OpenWriter(s)' = OpenWriter(s)
        BY <3>1 DEF OpenWriter
      <4>2. Later
        BY <2>2, <3>1, TypeParts DEF StorageInv, Later
      <4>3. QED
        BY <2>2, <3>1, <3>2, <4>1, <4>2, QuietIsSound DEF StorageInv
    <3>5. QED
      BY <3>2, <3>3, <3>4 DEF StorageInv
  <2>3. QED
    BY <2>1, <2>2
<1>3. QED
  BY <1>1, <1>2, PTL DEF Spec

-----------------------------------------------------------------------------
(* What is recorded is found, and the bytes in use are those of the disk.  *)

LEMMA KeptIsReturned ==
  ASSUME StorageInv, counts.restarts = 0, NEW s \in Sources, NEW f \in durable[s],
         <<s, SegmentOf(f.t)>> \notin reopened
  PROVE  /\ TimesReturned(s, f.t, f.t, f) = 1
         /\ counts.crashes + counts.faults = 0 => ~QueryFails(s, f.t, f.t)
<1> DEFINE t == f.t
           g == SegmentOf(t)
           found == {j \in Relevant(s, t, t) :
                       f \in FramesOf(files[<<s, index[s][j].seg>>])}
<1>1. t \in Times /\ t \in Nat /\ g \in Segments
  BY TimesAreNat, PathParts DEF StorageInv, TypeOK, Frame
<1>2. Kept(s, f) /\ FilesSound(s) /\ EntriesSound(s)
  BY DEF StorageInv, DiskSound, SourceSound, DurableSound
<1>3. PICK i \in DOMAIN index[s] : index[s][i].seg = g /\ Holds(index[s][i], f)
  BY <1>2 DEF Kept
<1>4. f \in FramesOf(files[<<s, g>>]) /\ files[<<s, g>>] # NoFile
  BY <1>2 DEF Kept
<1>5. \A j \in DOMAIN index[s] :
        /\ index[s][j].seg \in Segments
        /\ index[s][j].start \in Nat /\ index[s][j].end \in Nat
  BY TypeParts, EntryFields, TimesAreNat DEF StorageInv
<1>6. \A j \in Relevant(s, t, t) :
        j \in DOMAIN index[s] /\ index[s][j].start <= t /\ t <= index[s][j].end
  BY <1>1, <1>5 DEF Relevant, InRange
<1>7. i \in found
  <2>1. index[s][i].start <= t /\ t <= index[s][i].end
    BY <1>1, <1>3, <1>5 DEF Holds
  <2>2. i \in Relevant(s, t, t)
    BY <1>1, <1>5, <2>1 DEF Relevant, InRange
  <2>3. QED
    BY <1>3, <1>4, <2>2
<1>8. ASSUME NEW j \in found PROVE j = i
  <2>1. j \in DOMAIN index[s] /\ f \in FramesOf(files[<<s, index[s][j].seg>>])
    BY <1>6, <1>8
  <2>2. SegmentOf(f.t) = index[s][j].seg
    BY <1>2, <1>5, <2>1 DEF FilesSound
  <2>3. QED
    BY <1>2, <1>3, <2>1, <2>2 DEF EntriesSound
<1>9. found = {i}
  BY <1>7, <1>8
<1>10. TimesReturned(s, t, t, f) = 1
  <2>1. t \in t .. t
    BY <1>1
  <2>2. Cardinality({i}) = 1
    BY FS_Singleton
  <2>3. QED
    BY <1>9, <2>1, <2>2 DEF TimesReturned
<1>11. ASSUME counts.crashes + counts.faults = 0 PROVE ~QueryFails(s, t, t)
  <2>1. counts.crashes = 0
    BY <1>11, TypeParts DEF StorageInv
  <2>2. ASSUME NEW j \in Relevant(s, t, t) PROVE index[s][j].seg = g
    <3>1. /\ SegmentOf(index[s][j].start) = index[s][j].seg
          /\ SegmentOf(index[s][j].end) = index[s][j].seg
      BY <1>2, <1>6, <2>1 DEF EntriesSound
    <3>2. /\ SegmentOf(index[s][j].start) <= SegmentOf(t)
          /\ SegmentOf(t) <= SegmentOf(index[s][j].end)
          /\ SegmentOf(index[s][j].start) \in Nat /\ SegmentOf(t) \in Nat
      BY <1>1, <1>5, <1>6, SegmentsFollowTimes
    <3>3. QED
      BY <3>1, <3>2
  <2>3. ~HasTorn(files[<<s, g>>])
    <3>1. ~(counts.crashes + counts.faults > 0)
      BY <1>11
    <3>2. QED
      BY <1>1, <1>2, <3>1 DEF FilesSound
  <2>4. QED
    BY <1>4, <2>2, <2>3 DEF QueryFails, HasTorn
<1>12. QED
  BY <1>10, <1>11

(* A frame of a finalized segment is returned, once, by every query for    *)
(* its time, and the query succeeds unless a crash or a fault has spoiled  *)
(* a file (local.rs:290-340 over 112-155, 214-241, 342-370).               *)
THEOREM DurableIsReadable == Spec => []DurableFramesReadable
<1>1. StorageInv => DurableFramesReadable
  BY KeptIsReturned DEF DurableFramesReadable
<1>2. QED
  BY <1>1, StorageInvHolds, PTL

LEMMA EntriesAreFiles ==
  ASSUME StorageInv, counts.faults = 0, reopened = {}, NEW s \in Sources
  PROVE  BytesOf(index)[s] =
           SumFunctionOnSet([g \in Segments |-> SizeOf(files[<<s, g>>])],
                            {g \in Segments : Indexed(<<s, g>>)})
<1> DEFINE D == DOMAIN index[s]
           name == [i \in D |-> index[s][i].seg]
           sizes == [g \in Segments |-> SizeOf(files[<<s, g>>])]
           entries == [i \in D |-> index[s][i].size]
<1>1. EntriesSound(s) /\ EntriesCounted(s) /\ index[s] \in Seq(Entry)
  BY TypeParts DEF StorageInv, DiskSound, SourceSound, SizesSound
<1>2. IsFiniteSet(D)
  BY <1>1, PlacesFinite
<1>3. \A i \in D : index[s][i].seg \in Segments /\ index[s][i].size \in Nat
  BY TypeParts, EntryFields DEF StorageInv
<1>4. \A i, j \in D : name[i] = name[j] => i = j
  BY <1>1 DEF EntriesSound
<1>5. \A i \in D : sizes[name[i]] \in Int /\ entries[i] = sizes[name[i]]
  <2>1. ASSUME NEW i \in D
        PROVE  /\ entries[i] = index[s][i].size /\ entries[i] \in Int
               /\ sizes[name[i]] = SizeOf(files[<<s, index[s][i].seg>>])
    BY <1>3
  <2>2. \A i \in D : index[s][i].size = SizeOf(files[<<s, index[s][i].seg>>])
    BY <1>1 DEF EntriesCounted
  <2> HIDE DEF entries, sizes, name
  <2>3. QED
    BY <2>1, <2>2
<1>6. {name[i] : i \in D} = {g \in Segments : Indexed(<<s, g>>)}
  <2>1. \A g : Indexed(<<s, g>>) <=> \E i \in D : name[i] = g
    BY IndexedBySegment
  <2>2. \A i \in D : name[i] \in Segments
    BY <1>3
  <2> HIDE DEF D, name
  <2>3. QED
    BY <2>1, <2>2
<1>7. BytesOf(index)[s] = SumFunctionOnSet(entries, D)
  BY DEF BytesOf, SizesOf
<1> HIDE DEF D, name, sizes, entries
<1>8. SumFunctionOnSet(entries, D) = SumFunctionOnSet(sizes, {name[i] : i \in D})
  BY <1>2, <1>4, <1>5, SumRenamed
<1>9. QED
  BY <1>6, <1>7, <1>8 DEF sizes

(* The storage's accounts agree with the disk: the types, and the bytes in *)
(* use, through finalizing, cleanup and the scan of a restart              *)
(* (local.rs:133, 237, 367).                                               *)
THEOREM DiskIsAccounted == Spec => []DiskAccounted
<1>1. ASSUME StorageInv PROVE UsageIsDisk
  <2>1. SUFFICES ASSUME counts.faults = 0, reopened = {}
                 PROVE  total_bytes = StorageUsed
    BY DEF UsageIsDisk
  <2> DEFINE used == [s \in Sources |->
               SumFunctionOnSet([g \in Segments |-> SizeOf(files[<<s, g>>])],
                                {g \in Segments : Indexed(<<s, g>>)})]
  <2>2. StorageUsed = FoldFunction(+,0,used) /\ DOMAIN used = Sources
    BY DEF StorageUsed
  <2>3. \A s \in Sources : BytesOf(index)[s] = used[s]
    BY <1>1, <2>1, EntriesAreFiles
  <2> HIDE DEF used
  <2>4. StorageUsed = SumFunctionOnSet(used, Sources)
    BY <2>2, FoldIsSum
  <2>5. SumFunctionOnSet(BytesOf(index), Sources) = SumFunctionOnSet(used, Sources)
    BY <2>3, StorageAssumption, SumOfSame
  <2>6. total_bytes = SumFunctionOnSet(BytesOf(index), Sources)
    BY <1>1, BytesAreSum DEF StorageInv, DiskSound, TotalSound
  <2>7. QED
    BY <2>4, <2>5, <2>6
<1>2. StorageInv => DiskAccounted
  BY <1>1 DEF DiskAccounted, StorageInv
<1>3. QED
  BY <1>2, StorageInvHolds, PTL

===============================================================================
