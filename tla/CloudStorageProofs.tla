-------------------------- MODULE CloudStorageProofs --------------------------
(***************************************************************************)
(* The recordings in the cloud, for any cameras, any lives of their clocks *)
(* and any interval, size limit and number of faults: the bytes are right, *)
(* every frame is somewhere or was lost in a way that is counted, and a    *)
(* retrieval gives what was uploaded.                                      *)
(*                                                                         *)
(* A timestamp of a source is given out once.  So the segments of a source *)
(* are apart (Separate), those in the index are in the object store as     *)
(* they are (Kept), and a copy in the cache is that of a segment with the  *)
(* same first timestamp or of one that is gone (Downloaded).               *)
(***************************************************************************)
EXTENDS CloudStorage, SumTheorems, SequenceTheorems

(* The timestamps a camera has given out, and those of them that are not   *)
(* of the frame being stored.                                              *)
Arrived(s) == {t \in AllTimes :
                 \E l \in 1 .. life[s] : t \in Times[l] /\ (l = life[s] => t <= clock[s])}
InHand(s)  == IF step # "idle" /\ frame.source = s THEN {frame.t} ELSE {}
Spent(s)   == Arrived(s) \ InHand(s)

(* The segments there are of a source.                                     *)
Live(s) == {x \in index[s] \cup {local[s], IF frame.source = s THEN old ELSE NoSegment} :
              x # NoSegment}

(* They are of one interval each, have no frame in common, and none of     *)
(* their frames is lost.                                                   *)
Separate ==
  \A s \in Sources :
    /\ lost[s] \subseteq Spent(s)
    /\ \A x \in Live(s) :
         /\ x.start \in x.frames /\ x.frames \subseteq Spent(s)
         /\ \A t \in x.frames : Bucket(t) = Bucket(x.start)
         /\ x.frames \cap lost[s] = {}
         /\ \A y \in Live(s) : x = y \/ x.frames \cap y.frames = {}

(* A segment is open, in flight or indexed, and store's steps know which.  *)
Placed ==
  /\ \A s \in Sources : local[s] \notin index[s]
  /\ old \notin index[frame.source]
  /\ step # "idle" => frame.t \in Arrived(frame.source)
  /\ step \in {"uploading", "indexing"} => local[frame.source] = NoSegment /\ total < MaxSize
  /\ step = "writing" => \/ local[frame.source] = NoSegment
                         \/ Bucket(local[frame.source].start) = Bucket(frame.t)

(* What is indexed, or is about to be, was uploaded as it is.              *)
InStore(s, x) == x.start \in DOMAIN objects[s] /\ objects[s][x.start] = x.frames

Kept ==
  /\ \A s \in Sources : \A x \in index[s] : InStore(s, x)
  /\ step = "indexing" => InStore(frame.source, old)

(* A copy has the name of an interval, for a segment that was open when it *)
(* was made, or of a timestamp that was given out, and is then right for   *)
(* the segment there is of that name.                                      *)
Downloaded ==
  \A s \in Sources :
    /\ \A p \in DOMAIN cache[s] : p = Bucket(p) \/ p \in Spent(s)
    /\ \A x \in Live(s) : x.start # Bucket(x.start) /\ x.start \in DOMAIN cache[s]
                            => x \in index[s] /\ cache[s][x.start] = x.frames

Frames(L) == UNION {x.frames : x \in L}

(* What was stored is in a segment or is lost.                             *)
Counted == \A s \in Sources : stored[s] = Frames(Live(s)) \cup lost[s]

(* The bytes, with what the sums over the index need.                      *)
Accounts == IsFiniteSet(Indexed) /\ UsageIsIndexed /\ LimitOverrunBySegment

IInv == TypeOK /\ Separate /\ Placed /\ Kept /\ Downloaded /\ Counted /\ Accounts

-----------------------------------------------------------------------------
(* The constants.                                                          *)

LEMMA LivesAreNumbers ==
  /\ Len(Times) \in Nat /\ Lives = 1 .. Len(Times)
  /\ Times \in [Lives -> SUBSET (Nat \ {0})]
<1>1. Times \in Seq(SUBSET (Nat \ {0}))
  BY CloudAssumption
<1>2. QED
  BY <1>1, LenProperties DEF Lives

LEMMA TimesTypes ==
  /\ AllTimes \subseteq Nat \ {0}
  /\ \A l \in Lives : l \in Nat \ {0} /\ Times[l] \subseteq AllTimes
  /\ \A t \in AllTimes : \E l \in Lives : t \in Times[l]
  /\ \A l, m \in Lives : \A t \in AllTimes : t \in Times[l] /\ t \in Times[m] => l = m
<1>1. \A l \in Lives : Times[l] \in Range(Times)
  BY DEF Lives, Range
<1>2. \A l \in Lives : l \in Nat \ {0} /\ Times[l] \in SUBSET (Nat \ {0})
  BY LivesAreNumbers
<1>3. \A l, m \in Lives : l # m => Times[l] \cap Times[m] = {}
  BY CloudAssumption
<1>4. \A T \in Range(Times) : \E l \in Lives : T = Times[l]
  BY DEF Lives, Range
<1>5. /\ \A l \in Lives : Times[l] \subseteq AllTimes
      /\ \A t \in AllTimes : \E l \in Lives : t \in Times[l]
  BY <1>1, <1>4 DEF AllTimes
<1>6. QED
  BY <1>2, <1>3, <1>5

LEMMA Buckets ==
  ASSUME NEW t \in Nat
  PROVE  Bucket(t) \in Nat /\ Bucket(Bucket(t)) = Bucket(t)
<1> DEFINE k == t \div Duration
<1>1. Duration \in Nat \ {0}
  BY CloudAssumption
<1>2. k \in Nat
  BY <1>1
<1> HIDE DEF k
<1>3. Duration * k \in Nat /\ (Duration * k) \div Duration = k
  BY <1>1, <1>2
<1>4. QED
  BY <1>3 DEF Bucket, k

(* The segments of a source are records; no segment is none of them.       *)
LEMMA LiveTypes ==
  ASSUME TypeOK
  PROVE  /\ NoSegment \notin Segments
         /\ \A s \in Sources : Live(s) \subseteq Segments /\ index[s] \subseteq Live(s)
         /\ \A s \in Sources : local[s] # NoSegment => local[s] \in Live(s)
         /\ old # NoSegment => old \in Live(frame.source) /\ frame.source \in Sources
<1>1. NoSegment \notin Segments
  <2>1. Segments \subseteq [start : Nat, end : Nat, frames : SUBSET Nat]
    BY TimesTypes DEF Segments
  <2>2. QED
    BY <2>1, CloudAssumption
<1>2. \A s \in Sources : index[s] \subseteq Segments /\ local[s] \in Segments \cup {NoSegment}
  BY DEF TypeOK
<1>3. old \in Segments \cup {NoSegment} /\ frame.source \in Sources
  BY DEF TypeOK
<1> HIDE DEF Segments
<1>4. QED
  BY <1>1, <1>2, <1>3 DEF Live

-----------------------------------------------------------------------------
(* What has arrived.                                                       *)

LEMMA ArrivedStays ==
  ASSUME UNCHANGED cameras
  PROVE  \A s \in Sources : Arrived(s)' = Arrived(s)
  BY DEF Arrived, cameras

LEMMA Arrival ==
  ASSUME TypeOK, NEW s \in Sources, NEW t \in AllTimes, Arrives(s, t), UNCHANGED life
  PROVE  /\ \A z \in Sources : Arrived(z) \subseteq Arrived(z)'
         /\ t \in Arrived(s)' /\ t \notin Arrived(s)
<1>1. /\ t \in Times[life[s]] /\ clock[s] < t /\ clock' = [clock EXCEPT ![s] = t]
      /\ life[s] \in Lives /\ clock \in [Sources -> Nat] /\ life \in [Sources -> Nat \ {0}]
  <2>1. /\ t \in Times[life[s]] /\ t > clock[s] /\ clock' = [clock EXCEPT ![s] = t]
        /\ life \in [Sources -> Lives] /\ clock \in [Sources -> AllTimes \cup {0}]
    BY DEF Arrives, TypeOK
  <2>2. AllTimes \cup {0} \subseteq Nat /\ Lives \subseteq Nat \ {0} /\ t \in Nat
    BY TimesTypes
  <2>3. clock \in [Sources -> Nat] /\ life \in [Sources -> Nat \ {0}] /\ life[s] \in Lives
    BY <2>1, <2>2
  <2>4. clock[s] < t
    BY <2>1, <2>2, <2>3
  <2>5. QED
    BY <2>1, <2>3, <2>4
<1>2. t \notin Arrived(s)
  <2>1. ASSUME NEW l \in 1 .. life[s], t \in Times[l] PROVE l = life[s]
    <3>1. l \in Lives
      BY <1>1, LivesAreNumbers
    <3>2. QED
      BY <1>1, <2>1, <3>1, TimesTypes
  <2>2. t \in Nat
    BY TimesTypes
  <2>3. QED
    BY <1>1, <2>1, <2>2 DEF Arrived
<1>3. t \in Arrived(s)'
  <2>1. life[s] \in 1 .. life[s] /\ clock'[s] = t /\ life'[s] = life[s] /\ t <= t
    BY <1>1, TimesTypes
  <2>2. QED
    BY <1>1, <2>1 DEF Arrived
<1>4. ASSUME NEW z \in Sources PROVE Arrived(z) \subseteq Arrived(z)'
  <2>1. clock[z] <= clock'[z] /\ clock'[z] \in Nat /\ life'[z] = life[z]
    BY <1>1, TimesTypes
  <2>2. \A u \in AllTimes : u <= clock[z] => u <= clock'[z]
    BY <1>1, <2>1, TimesTypes
  <2>3. QED
    BY <2>1, <2>2 DEF Arrived
<1>5. QED
  BY <1>2, <1>3, <1>4

LEMMA NextLife ==
  ASSUME TypeOK, NEW s \in Sources, RestartCamera(s)
  PROVE  \A z \in Sources : Arrived(z) \subseteq Arrived(z)'
<1>1. ASSUME NEW z \in Sources, NEW u \in AllTimes, u \in Arrived(z) PROVE u \in Arrived(z)'
  <2>1. PICK l \in 1 .. life[z] : u \in Times[l] /\ (l = life[z] => u <= clock[z])
    BY <1>1 DEF Arrived
  <2>2. life[z] \in Nat /\ life \in [Sources -> Lives] /\ clock \in [Sources -> AllTimes \cup {0}]
    BY TimesTypes DEF TypeOK
  <2>3. CASE z = s
    <3>1. life'[z] = life[z] + 1
      BY <2>2, <2>3 DEF RestartCamera
    <3>2. l \in 1 .. life'[z] /\ l # life'[z]
      BY <2>2, <3>1
    <3>3. QED
      BY <2>1, <3>2 DEF Arrived
  <2>4. CASE z # s
    <3>1. life'[z] = life[z] /\ clock'[z] = clock[z]
      BY <2>2, <2>4 DEF RestartCamera
    <3>2. QED
      BY <1>1, <3>1 DEF Arrived
  <2>5. QED
    BY <2>3, <2>4
<1>2. QED
  BY <1>1 DEF Arrived

-----------------------------------------------------------------------------
(* What each step does to the segments there are and to the timestamps     *)
(* that are spent.                                                         *)

LEMMA StoreDoes ==
  ASSUME TypeOK, NEW s \in Sources, NEW t \in AllTimes, Store(s, t)
  PROVE  \A z \in Sources : Live(z)' = Live(z) /\ Spent(z) \subseteq Spent(z)'
<1>1. /\ step = "idle" /\ old = NoSegment /\ frame' = [source |-> s, t |-> t]
      /\ UNCHANGED <<life, index>> /\ local \in [Sources -> Segments \cup {NoSegment}]
  BY DEF Store, Arrives, TypeOK
<1>2. ASSUME NEW z \in Sources PROVE Live(z)' = Live(z)
  <2>1. CASE local[s] # NoSegment /\ Bucket(local[s].start) # Bucket(t)
    <3>1. old' = local[s] /\ local' = [local EXCEPT ![s] = NoSegment]
      BY <2>1 DEF Store
    <3>2. QED
      BY <1>1, <3>1 DEF Live
  <2>2. CASE ~(local[s] # NoSegment /\ Bucket(local[s].start) # Bucket(t))
    <3>1. old' = old /\ local' = local
      BY <2>2 DEF Store
    <3>2. QED
      BY <1>1, <3>1 DEF Live
  <2>3. QED
    BY <2>1, <2>2
<1>3. ASSUME NEW z \in Sources PROVE Spent(z) \subseteq Spent(z)'
  <2>1. Arrived(z) \subseteq Arrived(z)' /\ t \notin Arrived(s)
    BY <1>1, Arrival DEF Store
  <2>2. InHand(z)' \subseteq {t} /\ (z # s => InHand(z)' = {})
    BY <1>1 DEF InHand
  <2>3. QED
    BY <2>1, <2>2 DEF Spent
<1>4. QED
  BY <1>2, <1>3

LEMMA SkipDoes ==
  ASSUME TypeOK, NEW s \in Sources, NEW t \in AllTimes, Skip(s, t)
  PROVE  \A z \in Sources : Live(z)' = Live(z) /\ Spent(z) \subseteq Spent(z)'
<1>1. ASSUME NEW z \in Sources PROVE Live(z)' = Live(z)
  BY DEF Skip, Live, storing
<1>2. ASSUME NEW z \in Sources PROVE Spent(z) \subseteq Spent(z)'
  <2>1. Arrived(z) \subseteq Arrived(z)'
    BY Arrival DEF Skip
  <2>2. InHand(z)' = InHand(z)
    BY DEF Skip, InHand, storing
  <2>3. QED
    BY <2>1, <2>2 DEF Spent
<1>3. QED
  BY <1>1, <1>2

LEMMA RestartDoes ==
  ASSUME TypeOK, NEW s \in Sources, RestartCamera(s)
  PROVE  \A z \in Sources : Live(z)' = Live(z) /\ Spent(z) \subseteq Spent(z)'
<1>1. ASSUME NEW z \in Sources PROVE Live(z)' = Live(z)
  BY DEF RestartCamera, Live, storing
<1>2. ASSUME NEW z \in Sources PROVE Spent(z) \subseteq Spent(z)'
  <2>1. Arrived(z) \subseteq Arrived(z)'
    BY NextLife
  <2>2. InHand(z)' = InHand(z)
    BY DEF RestartCamera, InHand, storing
  <2>3. QED
    BY <2>1, <2>2 DEF Spent
<1>3. QED
  BY <1>1, <1>2

(* The steps that leave the frame in hand.                                 *)
LEMMA SpentStays ==
  ASSUME UNCHANGED <<cameras, frame>>, step # "idle" <=> step' # "idle"
  PROVE  \A z \in Sources : Spent(z)' = Spent(z)
<1>1. \A z \in Sources : InHand(z)' = InHand(z)
  BY DEF InHand
<1>2. QED
  BY <1>1, ArrivedStays DEF Spent

LEMMA UploadDoes ==
  ASSUME TypeOK, Upload
  PROVE  \A z \in Sources : Live(z)' = Live(z) /\ Spent(z)' = Spent(z)
<1>1. \A z \in Sources : Live(z)' = Live(z)
  BY DEF Upload, Live
<1>2. QED
  BY <1>1, SpentStays DEF Upload

LEMMA RetrieveDoes ==
  ASSUME NEW s \in Sources, NEW x \in index[s], Retrieve(s, x)
  PROVE  \A z \in Sources : Live(z)' = Live(z) /\ Spent(z)' = Spent(z)
<1>1. \A z \in Sources : Live(z)' = Live(z)
  BY DEF Retrieve, Live, storing
<1>2. QED
  BY <1>1, SpentStays DEF Retrieve, storing

LEMMA UploadFailsDoes ==
  ASSUME TypeOK, Placed, UploadFails
  PROVE  /\ \A z \in Sources : Spent(z) \subseteq Spent(z)'
         /\ \A z \in Sources :
              Live(z)' = IF z = frame.source THEN Live(z) \ {old} ELSE Live(z)
<1>1. /\ step = "uploading" /\ step' = "idle" /\ old' = NoSegment /\ old # NoSegment
      /\ UNCHANGED <<cameras, local, index>> /\ frame.source \in Sources
      /\ local[frame.source] = NoSegment /\ old \notin index[frame.source]
  BY DEF UploadFails, TypeOK, Placed
<1>2. \A z \in Sources : Arrived(z)' = Arrived(z) /\ InHand(z)' = {}
  BY <1>1, ArrivedStays DEF InHand
<1>3. \A z \in Sources : Spent(z) \subseteq Spent(z)'
  BY <1>1, <1>2 DEF Spent
<1>4. ASSUME NEW z \in Sources
      PROVE  Live(z)' = IF z = frame.source THEN Live(z) \ {old} ELSE Live(z)
  <2>1. Live(z)' = {x \in index[z] \cup {local[z], NoSegment} : x # NoSegment}
    BY <1>1 DEF Live
  <2>2. CASE z = frame.source
    <3>1. Live(z) = {x \in index[z] \cup {local[z], old} : x # NoSegment}
      BY <2>2 DEF Live
    <3>2. QED
      BY <1>1, <2>1, <2>2, <3>1
  <2>3. CASE z # frame.source
    <3>1. Live(z) = {x \in index[z] \cup {local[z], NoSegment} : x # NoSegment}
      BY <2>3 DEF Live
    <3>2. QED
      BY <2>1, <2>3, <3>1
  <2>4. QED
    BY <2>2, <2>3
<1>5. QED
  BY <1>3, <1>4

LEMMA IndexDoes ==
  ASSUME TypeOK, Index
  PROVE  \A z \in Sources : Live(z)' = Live(z) /\ Spent(z)' = Spent(z)
<1>1. /\ step = "indexing" /\ step' = "writing" /\ old' = NoSegment /\ old # NoSegment
      /\ index' = [index EXCEPT ![frame.source] = @ \cup {old}]
      /\ UNCHANGED <<local, frame>> /\ frame.source \in Sources
      /\ index \in [Sources -> SUBSET Segments]
  BY DEF Index, TypeOK
<1>2. \A z \in Sources : Live(z)' = Live(z)
  <2>1. \A z \in Sources :
          index'[z] = IF z = frame.source THEN index[z] \cup {old} ELSE index[z]
    BY <1>1
  <2>2. QED
    BY <1>1, <2>1 DEF Live
<1>3. QED
  BY <1>1, <1>2, SpentStays DEF Index

LEMMA WriteDoes ==
  ASSUME TypeOK, Placed, Write
  PROVE  /\ \A z \in Sources : Spent(z) \subseteq Spent(z)'
         /\ \A z \in Sources : z = frame.source => frame.t \in Spent(z)' /\ frame.t \notin Spent(z)
         /\ Extended(local[frame.source], frame.t) \in Segments
         /\ \A z \in Sources :
              Live(z)' = IF z = frame.source
                         THEN (Live(z) \ {local[z]}) \cup {Extended(local[z], frame.t)}
                         ELSE Live(z)
<1> DEFINE s == frame.source  t == frame.t  seg == Extended(local[s], t)
<1>1. /\ step = "writing" /\ step' = "idle" /\ old' = NoSegment /\ old = NoSegment
      /\ UNCHANGED <<cameras, index>> /\ s \in Sources
      /\ local \in [Sources -> Segments \cup {NoSegment}]
      /\ index \in [Sources -> SUBSET Segments]
      /\ local[s] \notin index[s] /\ t \in Arrived(s)
  BY DEF Write, TypeOK, Placed
<1>2. local' = [local EXCEPT ![s] = seg]
  BY DEF Write, Extended
<1>3. \A z \in Sources : Arrived(z)' = Arrived(z) /\ InHand(z)' = {}
  BY <1>1, ArrivedStays DEF InHand
<1>4. t \in InHand(s) /\ t \in AllTimes
  BY <1>1 DEF InHand, Arrived
<1>5. seg \in Segments
  BY <1>1, <1>4 DEF Extended, Segments
<1>6. seg # NoSegment
  BY <1>5, LiveTypes
<1> HIDE DEF s, t, seg
<1>7. \A z \in Sources : Live(z)' = IF z = s THEN (Live(z) \ {local[z]}) \cup {seg} ELSE Live(z)
  <2>1. \A z \in Sources : local'[z] = IF z = s THEN seg ELSE local[z]
    BY <1>1, <1>2
  <2>2. ASSUME NEW z \in Sources
        PROVE  Live(z)' = IF z = s THEN (Live(z) \ {local[z]}) \cup {seg} ELSE Live(z)
    <3>1. Live(z)' = {x \in index[z] \cup {local'[z], NoSegment} : x # NoSegment}
      BY <1>1 DEF Live
    <3>2. Live(z) = {x \in index[z] \cup {local[z], NoSegment} : x # NoSegment}
      BY <1>1 DEF Live
    <3>3. z = s => local[z] \notin index[z]
      BY <1>1
    <3>4. NoSegment \notin index[z]
      BY <1>1, LiveTypes
    <3>5. QED
      BY <1>6, <2>1, <3>1, <3>2, <3>3, <3>4
  <2>3. QED
    BY <2>2
<1>8. /\ \A z \in Sources : Spent(z) \subseteq Spent(z)'
      /\ \A z \in Sources : z = s => t \in Spent(z)' /\ t \notin Spent(z)
  BY <1>1, <1>3, <1>4 DEF Spent
<1>9. QED
  BY <1>5, <1>7, <1>8 DEF s, t, seg

LEMMA DeleteDoes ==
  ASSUME TypeOK, Placed, NEW D \in SUBSET Indexed, Delete(D),
         UNCHANGED <<cameras, local, storing>>
  PROVE  /\ \A z \in Sources : Live(z)' = Live(z) \ Of(D, z) /\ Spent(z)' = Spent(z)
         /\ \A z \in Sources : Of(D, z) \subseteq index[z]
         /\ Indexed' = Indexed \ D
<1>1. /\ index \in [Sources -> SUBSET Segments] /\ frame.source \in Sources
      /\ \A z \in Sources : local[z] \notin index[z]
      /\ old \notin index[frame.source] /\ UNCHANGED <<local, old, frame>>
  BY DEF TypeOK, Placed, storing
<1>2. \A z \in Sources : index'[z] = index[z] \ Of(D, z) /\ Of(D, z) \subseteq index[z]
  BY DEF Delete, Of
<1>3. ASSUME NEW z \in Sources PROVE Live(z)' = Live(z) \ Of(D, z)
  <2> DEFINE o == IF frame.source = z THEN old ELSE NoSegment
  <2>1. /\ Live(z) = {x \in index[z] \cup {local[z], o} : x # NoSegment}
        /\ Live(z)' = {x \in index'[z] \cup {local[z], o} : x # NoSegment}
    BY <1>1 DEF Live
  <2>2. o \notin index[z] /\ local[z] \notin index[z]
    <3>1. NoSegment \notin index[z]
      BY <1>1, LiveTypes
    <3>2. QED
      BY <1>1, <3>1
  <2> HIDE DEF o
  <2>3. QED
    BY <1>2, <2>1, <2>2
<1>4. \A z \in Sources : Spent(z)' = Spent(z)
  BY SpentStays DEF storing
<1>5. Indexed' = Indexed \ D
  <2>1. ASSUME NEW p PROVE p \in Indexed' <=> p \in Indexed \ D
    <3>1. p \in Indexed <=> \E z \in Sources : \E x \in index[z] : p = <<z, x>>
      BY DEF Indexed
    <3>2. p \in Indexed' <=> \E z \in Sources : \E x \in index'[z] : p = <<z, x>>
      BY DEF Indexed
    <3>3. \A z \in Sources : \A x : x \in index'[z] <=> x \in index[z] /\ <<z, x>> \notin D
      BY <1>2 DEF Of
    <3>4. QED
      BY <3>1, <3>2, <3>3
  <2>2. QED
    BY <2>1
<1>6. QED
  BY <1>2, <1>3, <1>4, <1>5

LEMMA CrashDoes ==
  ASSUME TypeOK, Crash
  PROVE  /\ \A z \in Sources : Live(z)' = {} /\ Spent(z) \subseteq Spent(z)'
         /\ Indexed' = {}
<1>1. /\ step' = "idle" /\ old' = NoSegment /\ UNCHANGED cameras
      /\ \A z \in Sources : index'[z] = {} /\ local'[z] = NoSegment
  BY DEF Crash
<1>2. \A z \in Sources : Live(z)' = {}
  BY <1>1 DEF Live
<1>3. \A z \in Sources : Arrived(z)' = Arrived(z) /\ InHand(z)' = {}
  BY <1>1, ArrivedStays DEF InHand
<1>4. Indexed' = {}
  BY <1>1 DEF Indexed
<1>5. QED
  BY <1>2, <1>3, <1>4 DEF Spent

(* A cleanup deletes some of what is indexed.                              *)
LEMMA CleanupDeletes ==
  ASSUME NEW cutoff, Cleanup(cutoff)
  PROVE  /\ \E D \in SUBSET Indexed : Delete(D)
         /\ UNCHANGED <<cameras, local, cache, storing, crashes, lost>>
  BY DEF Cleanup, Old

-----------------------------------------------------------------------------
(* The bytes.                                                              *)

LEMMA TimesAreFinite == IsFiniteSet(AllTimes)
<1>1. IsFiniteSet(Lives)
  BY LivesAreNumbers, FS_Interval
<1>2. Times \in Surjection(Lives, Range(Times))
  BY LivesAreNumbers DEF Surjection, Range
<1>3. IsFiniteSet(Range(Times))
  BY <1>1, <1>2, FS_Surjection
<1>4. \A T \in Range(Times) : IsFiniteSet(T)
  BY CloudAssumption DEF Range, Lives
<1>5. QED
  BY <1>3, <1>4, FS_UNION DEF AllTimes

LEMMA BucketsAreFinite ==
  ASSUME NEW b
  PROVE  /\ IsFiniteSet({t \in AllTimes : Bucket(t) = b})
         /\ Cardinality({t \in AllTimes : Bucket(t) = b}) \in Nat
  BY TimesAreFinite, FS_Subset, FS_CardinalityType

LEMMA SizesAreNumbers ==
  ASSUME NEW x \in Segments
  PROVE  Size(x) \in Nat
<1>1. x.frames \subseteq AllTimes
  BY DEF Segments
<1>2. QED
  BY <1>1, TimesAreFinite, FS_Subset, FS_CardinalityType DEF Size

(* What SizeOf adds up.                                                    *)
LEMMA SizesAddUp ==
  ASSUME NEW S, IsFiniteSet(S), \A p \in S : Size(p[2]) \in Nat
  PROVE  /\ SizeOf(S) \in Nat
         /\ \A D \in SUBSET S : SizeOf(D) \in Nat /\ SizeOf(S) = SizeOf(D) + SizeOf(S \ D)
<1> DEFINE f == [p \in S |-> Size(p[2])]
<1>1. ASSUME NEW D \in SUBSET S
      PROVE  SizeOf(D) = SumFunctionOnSet(f, D) /\ SizeOf(D) \in Nat
  <2> DEFINE g == [p \in D |-> Size(p[2])]
  <2>1. IsFiniteSet(D) /\ \A p \in D : f[p] = g[p] /\ g[p] \in Nat
    BY FS_Subset
  <2> HIDE DEF f, g
  <2>2. SumFunctionOnSet(g, D) = SumFunctionOnSet(f, D) /\ SumFunctionOnSet(g, D) \in Nat
    BY <2>1, SumOfSame, SumIsNat
  <2>3. QED
    BY <2>2 DEF SizeOf, g
<1>2. \A p \in S : f[p] \in Int
  OBVIOUS
<1> HIDE DEF f
<1>3. ASSUME NEW D \in SUBSET S PROVE SizeOf(S) = SizeOf(D) + SizeOf(S \ D)
  <2>1. SumFunctionOnSet(f, S) = SumFunctionOnSet(f, D) + SumFunctionOnSet(f, S \ D)
    BY <1>2, SumSplits
  <2>2. QED
    BY <1>1, <2>1
<1>4. QED
  BY <1>1, <1>3

LEMMA SizeOfOne ==
  ASSUME NEW p, Size(p[2]) \in Nat
  PROVE  SizeOf({p}) = Size(p[2])
<1> DEFINE f == [q \in {p} |-> Size(q[2])]
<1>1. IsFiniteSet({p}) /\ {p} \ {p} = {} /\ f[p] = Size(p[2])
  BY FS_Singleton
<1>2. \A x \in {p} : f[x] \in Int
  OBVIOUS
<1> HIDE DEF f
<1>3. SumFunctionOnSet(f, {p}) = f[p] + SumFunctionOnSet(f, {})
  BY <1>1, <1>2, SumTakesOut
<1>4. QED
  BY <1>1, <1>3, SumOfNothing DEF SizeOf, f

LEMMA IndexedSizes ==
  ASSUME TypeOK
  PROVE  \A p \in Indexed : Size(p[2]) \in Nat
<1>1. \A p \in Indexed : p[2] \in Segments
  BY DEF Indexed, TypeOK
<1>2. QED
  BY <1>1, SizesAreNumbers

(* A deletion takes off what it deletes.                                   *)
LEMMA DeleteCounts ==
  ASSUME TypeOK, Placed, Accounts, NEW D \in SUBSET Indexed, Delete(D),
         UNCHANGED <<cameras, local, storing>>
  PROVE  total' \in Nat /\ total' <= total /\ Accounts'
<1>1. Indexed' = Indexed \ D
  BY DeleteDoes
<1>2. total = SizeOf(Indexed) /\ total' = total - SizeOf(D) /\ IsFiniteSet(Indexed) /\ total \in Nat
  BY DEF Accounts, UsageIsIndexed, Delete, Subtract, TypeOK
<1>3. IsFiniteSet(Indexed \ D)
  BY <1>2, FS_Subset
<1>4. /\ SizeOf(Indexed \ D) \in Nat /\ SizeOf(D) \in Nat
      /\ SizeOf(Indexed) = SizeOf(D) + SizeOf(Indexed \ D)
  BY <1>2, SizesAddUp, IndexedSizes
<1>5. total' = SizeOf(Indexed \ D) /\ total' <= total /\ total' \in Nat
  BY <1>2, <1>4
<1>6. UsageIsIndexed'
  BY <1>1, <1>5 DEF UsageIsIndexed
<1>7. LimitOverrunBySegment'
  <2>1. PICK b \in {Bucket(t) : t \in AllTimes \cup {0}} :
               total < MaxSize + Cardinality({t \in AllTimes : Bucket(t) = b})
    BY DEF Accounts, LimitOverrunBySegment
  <2>2. Cardinality({t \in AllTimes : Bucket(t) = b}) \in Nat /\ MaxSize \in Nat
    BY BucketsAreFinite, CloudAssumption
  <2>3. total' < MaxSize + Cardinality({t \in AllTimes : Bucket(t) = b})
    BY <1>2, <1>5, <2>1, <2>2
  <2>4. QED
    BY <2>3 DEF LimitOverrunBySegment
<1>8. QED
  BY <1>1, <1>3, <1>5, <1>6, <1>7 DEF Accounts

(* A finished segment is of one interval, and the usage was below the      *)
(* limit when it was taken out.                                            *)
LEMMA IndexCounts ==
  ASSUME TypeOK, Separate, Placed, Accounts, Index
  PROVE  total' \in Nat /\ Accounts'
<1> DEFINE s == frame.source  B == {t \in AllTimes : Bucket(t) = Bucket(old.start)}
<1>1. /\ step = "indexing" /\ old # NoSegment /\ old \in Segments /\ s \in Sources
      /\ index' = [index EXCEPT ![s] = @ \cup {old}] /\ total' = total + Size(old)
      /\ index \in [Sources -> SUBSET Segments] /\ total \in Nat
      /\ old \notin index[s] /\ total < MaxSize
  BY DEF TypeOK, Placed, Index
<1>2. Indexed' = Indexed \cup {<<s, old>>} /\ <<s, old>> \notin Indexed
  <2>1. \A z \in Sources : index'[z] = IF z = s THEN index[z] \cup {old} ELSE index[z]
    BY <1>1
  <2>2. QED
    BY <1>1, <2>1 DEF Indexed
<1>3. /\ Size(old) \in Nat /\ IsFiniteSet(Indexed) /\ IsFiniteSet(Indexed \cup {<<s, old>>})
      /\ \A p \in Indexed \cup {<<s, old>>} : Size(p[2]) \in Nat
  <2>1. Size(old) \in Nat /\ <<s, old>>[2] = old
    BY <1>1, SizesAreNumbers
  <2>2. IsFiniteSet(Indexed) /\ IsFiniteSet(Indexed \cup {<<s, old>>})
    BY FS_AddElement DEF Accounts
  <2>3. \A p \in Indexed : Size(p[2]) \in Nat
    BY IndexedSizes
  <2>4. QED
    BY <2>1, <2>2, <2>3
<1>4. SizeOf({<<s, old>>}) = Size(old)
  <2> DEFINE p == <<s, old>>
  <2>1. p[2] = old
    OBVIOUS
  <2> HIDE DEF p
  <2>2. SizeOf({p}) = Size(p[2])
    BY <1>3, <2>1, SizeOfOne
  <2>3. QED
    BY <2>1, <2>2 DEF p
<1>5. SizeOf(Indexed \cup {<<s, old>>}) = SizeOf({<<s, old>>}) + SizeOf(Indexed)
  <2>1. (Indexed \cup {<<s, old>>}) \ {<<s, old>>} = Indexed
    BY <1>2
  <2>2. QED
    BY <1>3, <2>1, SizesAddUp
<1>6. UsageIsIndexed' /\ total' \in Nat
  <2>1. total = SizeOf(Indexed)
    BY DEF Accounts, UsageIsIndexed
  <2>2. total' = SizeOf(Indexed \cup {<<s, old>>}) /\ total' \in Nat
    BY <1>1, <1>3, <1>4, <1>5, <2>1
  <2>3. QED
    BY <1>2, <2>2 DEF UsageIsIndexed
<1>7. LimitOverrunBySegment'
  <2>1. old \in Live(s) /\ old.start \in AllTimes
    BY <1>1, LiveTypes DEF Segments
  <2>2. old.frames \subseteq B
    <3>1. \A t \in old.frames : Bucket(t) = Bucket(old.start)
      BY <1>1, <2>1 DEF Separate
    <3>2. QED
      BY <1>1, <3>1 DEF Segments
  <2>3. Cardinality(B) \in Nat /\ Size(old) <= Cardinality(B)
    BY <2>2, BucketsAreFinite, FS_Subset DEF Size
  <2>4. total' < MaxSize + Cardinality(B)
    BY <1>1, <1>3, <2>3, CloudAssumption
  <2>5. QED
    BY <2>1, <2>4 DEF LimitOverrunBySegment
<1>8. QED
  BY <1>2, <1>3, <1>6, <1>7 DEF Accounts

-----------------------------------------------------------------------------
(* Types.                                                                  *)

LEMMA PutHolds ==
  ASSUME NEW f, Holds(f), NEW p \in Paths, NEW x \in SUBSET AllTimes
  PROVE  Holds(Put(f, p, x))
  BY DEF Holds, Put

LEMMA DropHolds ==
  ASSUME NEW f, Holds(f), NEW S
  PROVE  Holds(DropKeys(f, S))
  BY DEF Holds, DropKeys, Restrict

LEMMA PathsOf ==
  ASSUME NEW x \in Segments
  PROVE  x.start \in Paths /\ Bucket(x.start) \in Paths /\ x.frames \subseteq AllTimes
  BY DEF Segments, Paths

LEMMA InitType == Init => TypeOK
<1> SUFFICES ASSUME Init PROVE TypeOK
  OBVIOUS
<1>1. 1 \in Lives
  BY LivesAreNumbers, CloudAssumption
<1>2. (CHOOSE s \in Sources : TRUE) \in Sources
  BY CloudAssumption
<1>3. Holds(Empty)
  BY DEF Holds, Empty
<1>4. 0 \in 0 .. MaxFaults /\ 0 \in 0 .. MaxCrashes
  BY CloudAssumption
<1>5. QED
  BY <1>1, <1>2, <1>3, <1>4 DEF Init, TypeOK, NoFrame

LEMMA NoFrameType == NoFrame \in [source : Sources, t : AllTimes \cup {0}]
<1>1. (CHOOSE s \in Sources : TRUE) \in Sources
  BY CloudAssumption
<1>2. QED
  BY <1>1 DEF NoFrame

LEMMA TypeStep ==
  ASSUME TypeOK, Separate, Placed, Kept, Accounts, [Next]_vars
  PROVE  TypeOK'
<1>1. ASSUME NEW s \in Sources, RestartCamera(s) PROVE TypeOK'
  BY <1>1 DEF TypeOK, RestartCamera, storing, history
<1>2. ASSUME NEW s \in Sources, NEW t \in AllTimes, Skip(s, t) PROVE TypeOK'
  BY <1>2 DEF TypeOK, Skip, Arrives, storing, history
<1>3. ASSUME NEW s \in Sources, NEW t \in AllTimes, Store(s, t) PROVE TypeOK'
  <2>1. CASE local[s] # NoSegment /\ Bucket(local[s].start) # Bucket(t)
    BY <1>3, <2>1 DEF TypeOK, Store, Arrives, history
  <2>2. CASE ~(local[s] # NoSegment /\ Bucket(local[s].start) # Bucket(t))
    BY <1>3, <2>2 DEF TypeOK, Store, Arrives, history
  <2>3. QED
    BY <2>1, <2>2
<1>4. ASSUME NEW s \in Sources, NEW x \in index[s], Retrieve(s, x) PROVE TypeOK'
  <2>1. x \in Segments
    BY DEF TypeOK
  <2>2. Holds(objects[s]) /\ Holds(cache[s]) /\ x.start \in DOMAIN objects[s]
    BY <1>4 DEF TypeOK, Retrieve, Key
  <2>3. objects[s][x.start] \in SUBSET AllTimes /\ x.start \in Paths
    BY <2>1, <2>2, PathsOf DEF Holds
  <2>4. Holds(Put(cache[s], x.start, objects[s][x.start]))
    BY <2>2, <2>3, PutHolds
  <2>5. QED
    BY <1>4, <2>4 DEF TypeOK, Retrieve, Key, cameras, storing, history
<1>5. ASSUME Upload PROVE TypeOK'
  <2>1. /\ step = "uploading" /\ step' = "indexing" /\ old \in Segments /\ frame.source \in Sources
        /\ Holds(objects[frame.source])
    BY <1>5 DEF TypeOK, Upload
  <2>2. Holds(Put(objects[frame.source], old.start, old.frames))
    BY <2>1, PathsOf, PutHolds
  <2>3. QED
    BY <1>5, <2>1, <2>2 DEF TypeOK, Upload, Key, cameras, history
<1>6. ASSUME UploadFails PROVE TypeOK'
  <2>1. /\ step = "uploading" /\ old \in Segments /\ frame.source \in Sources
    BY <1>6 DEF TypeOK, UploadFails
  <2>2. old.frames \subseteq AllTimes
    BY <2>1, PathsOf
  <2>3. faults' \in 0 .. MaxFaults
    BY <1>6, CloudAssumption DEF TypeOK, UploadFails, Fault
  <2>4. QED
    BY <1>6, <2>1, <2>2, <2>3, NoFrameType DEF TypeOK, UploadFails, cameras
<1>7. ASSUME Index PROVE TypeOK'
  <2>1. /\ step = "indexing" /\ step' = "writing" /\ old \in Segments /\ frame.source \in Sources
        /\ Holds(cache[frame.source])
    BY <1>7 DEF TypeOK, Index
  <2>2. Holds(DropKeys(cache[frame.source], {Bucket(old.start)}))
    BY <2>1, DropHolds
  <2>3. total' \in Nat
    BY <1>7, IndexCounts
  <2>4. QED
    BY <1>7, <2>1, <2>2, <2>3 DEF TypeOK, Index, cameras, history
<1>8. ASSUME Write PROVE TypeOK'
  <2> DEFINE seg == Extended(local[frame.source], frame.t)
  <2>1. /\ seg \in Segments /\ frame.source \in Sources /\ frame.t \in AllTimes
        /\ step = "writing" /\ step' = "idle"
    BY <1>8, WriteDoes DEF TypeOK, Placed, Arrived, Write
  <2>2. Holds(Put(cache[frame.source], Bucket(seg.start), seg.frames))
    BY <2>1, PathsOf, PutHolds DEF TypeOK
  <2>3. /\ local' = [local EXCEPT ![frame.source] = seg] /\ stored' = [stored EXCEPT ![frame.source] = @ \cup {frame.t}]
        /\ cache' = [cache EXCEPT ![frame.source] = Put(@, Bucket(seg.start), seg.frames)]
    BY <1>8 DEF Write
  <2> HIDE DEF seg
  <2>4. QED
    BY <1>8, <2>1, <2>2, <2>3, NoFrameType DEF TypeOK, Write, cameras
<1>9. ASSUME NEW cutoff, Cleanup(cutoff) PROVE TypeOK'
  <2>1. PICK D \in SUBSET Indexed : Delete(D)
    BY <1>9, CleanupDeletes
  <2>2. UNCHANGED <<cameras, local, cache, storing, crashes, lost>>
    BY <1>9, CleanupDeletes
  <2>3. total' \in Nat
    BY <2>1, <2>2, DeleteCounts
  <2>4. faults' \in 0 .. MaxFaults
    BY <1>9, CloudAssumption DEF TypeOK, Cleanup, Fault
  <2>5. ASSUME NEW s \in Sources PROVE Holds(objects'[s])
    <3> DEFINE gone == {Key(seg) : seg \in Of(D, s)}
    <3>1. objects'[s] = DropKeys(objects[s], gone)
      BY <2>1 DEF Delete
    <3> HIDE DEF gone
    <3>2. Holds(objects[s])
      BY DEF TypeOK
    <3>3. Holds(DropKeys(objects[s], gone))
      BY <3>2, DropHolds
    <3>4. QED
      BY <3>1, <3>3
  <2>6. /\ index' \in [Sources -> SUBSET Segments] /\ stored' \in [Sources -> SUBSET AllTimes]
        /\ DOMAIN objects' = Sources
    BY <2>1 DEF Delete, TypeOK
  <2>7. QED
    BY <2>2, <2>3, <2>4, <2>5, <2>6 DEF TypeOK, cameras, storing
<1>10. ASSUME Crash PROVE TypeOK'
  <2>1. crashes' \in 0 .. MaxCrashes
    BY <1>10, CloudAssumption DEF TypeOK, Crash
  <2>2. QED
    BY <1>10, <2>1, NoFrameType DEF TypeOK, Crash, cameras
<1>11. CASE UNCHANGED vars
  BY <1>11 DEF TypeOK, vars, cameras, storing, history
<1>12. QED
  BY <1>1, <1>2, <1>3, <1>4, <1>5, <1>6, <1>7, <1>8, <1>9, <1>10, <1>11 DEF Next

-----------------------------------------------------------------------------
(* Segments are apart: fewer of them, or a frame that is in none of them.  *)

LEMMA FewerAreApart ==
  ASSUME Separate, UNCHANGED lost,
         \A z \in Sources : Live(z)' \subseteq Live(z) /\ Spent(z) \subseteq Spent(z)'
  PROVE  Separate'
<1>1. ASSUME NEW z \in Sources
      PROVE  /\ lost'[z] \subseteq Spent(z)'
             /\ \A x \in Live(z)' :
                  /\ x.start \in x.frames /\ x.frames \subseteq Spent(z)'
                  /\ \A t \in x.frames : Bucket(t) = Bucket(x.start)
                  /\ x.frames \cap lost'[z] = {}
                  /\ \A y \in Live(z)' : x = y \/ x.frames \cap y.frames = {}
  BY <1>1 DEF Separate
<1>2. QED
  BY <1>1 DEF Separate

LEMMA SeparateStep ==
  ASSUME TypeOK, Separate, Placed, [Next]_vars
  PROVE  Separate'
<1>1. ASSUME NEW s \in Sources, RestartCamera(s) PROVE Separate'
  BY <1>1, RestartDoes, FewerAreApart DEF RestartCamera, history
<1>2. ASSUME NEW s \in Sources, NEW t \in AllTimes, Skip(s, t) PROVE Separate'
  BY <1>2, SkipDoes, FewerAreApart DEF Skip, history
<1>3. ASSUME NEW s \in Sources, NEW t \in AllTimes, Store(s, t) PROVE Separate'
  BY <1>3, StoreDoes, FewerAreApart DEF Store, history
<1>4. ASSUME NEW s \in Sources, NEW x \in index[s], Retrieve(s, x) PROVE Separate'
  BY <1>4, RetrieveDoes, FewerAreApart DEF Retrieve, history
<1>5. ASSUME Upload PROVE Separate'
  BY <1>5, UploadDoes, FewerAreApart DEF Upload, history
<1>6. ASSUME UploadFails PROVE Separate'
  <2> DEFINE s == frame.source
  <2>1. /\ old \in Live(s) /\ s \in Sources /\ lost' = [lost EXCEPT ![s] = @ \cup old.frames]
        /\ lost \in [Sources -> SUBSET AllTimes]
    BY <1>6, LiveTypes DEF UploadFails, TypeOK
  <2>2. \A z \in Sources : lost'[z] = IF z = s THEN lost[z] \cup old.frames ELSE lost[z]
    BY <2>1
  <2>3. \A z \in Sources : /\ Live(z)' = IF z = s THEN Live(z) \ {old} ELSE Live(z)
                           /\ Spent(z) \subseteq Spent(z)'
    BY <1>6, UploadFailsDoes
  <2> HIDE DEF s
  <2>4. ASSUME NEW z \in Sources
        PROVE  /\ lost'[z] \subseteq Spent(z)'
               /\ \A x \in Live(z)' :
                    /\ x.start \in x.frames /\ x.frames \subseteq Spent(z)'
                    /\ \A t \in x.frames : Bucket(t) = Bucket(x.start)
                    /\ x.frames \cap lost'[z] = {}
                    /\ \A y \in Live(z)' : x = y \/ x.frames \cap y.frames = {}
    BY <2>1, <2>2, <2>3 DEF Separate
  <2>5. QED
    BY <2>4 DEF Separate
<1>7. ASSUME Index PROVE Separate'
  BY <1>7, IndexDoes, FewerAreApart DEF Index, history
<1>8. ASSUME Write PROVE Separate'
  <2> DEFINE s == frame.source  t == frame.t  seg == Extended(local[s], t)
  <2>1. \A z \in Sources :
          /\ Spent(z) \subseteq Spent(z)' /\ (z = s => t \in Spent(z)' /\ t \notin Spent(z))
          /\ Live(z)' = IF z = s THEN (Live(z) \ {local[z]}) \cup {seg} ELSE Live(z)
    BY <1>8, WriteDoes
  <2>2. s \in Sources /\ UNCHANGED lost /\ step = "writing"
    BY <1>8 DEF Write, TypeOK
  <2> HIDE DEF s, t, seg
  <2>3. /\ seg.start \in seg.frames
        /\ \A u \in seg.frames : Bucket(u) = Bucket(seg.start)
        /\ seg.frames \subseteq {t} \cup (IF local[s] = NoSegment THEN {} ELSE local[s].frames)
    <3>1. CASE local[s] = NoSegment
      <4>1. seg = [start |-> t, end |-> t, frames |-> {t}]
        BY <3>1 DEF seg, Extended
      <4>2. QED
        BY <4>1
    <3>2. CASE local[s] # NoSegment
      <4>1. local[s] \in Live(s) /\ local[s] \in Segments
        BY <2>2, <3>2, LiveTypes
      <4>2. /\ seg.start = local[s].start /\ seg.frames = local[s].frames \cup {t}
        BY <3>2, <4>1 DEF seg, Extended, Segments
      <4>3. Bucket(local[s].start) = Bucket(t)
        BY <2>2, <3>2 DEF Placed, s, t
      <4>4. /\ local[s].start \in local[s].frames
            /\ \A u \in local[s].frames : Bucket(u) = Bucket(local[s].start)
        BY <2>2, <4>1 DEF Separate
      <4>5. QED
        BY <3>2, <4>2, <4>3, <4>4
    <3>3. QED
      BY <3>1, <3>2
  <2>4. /\ local[s] # NoSegment => local[s] \in Live(s)
    BY <2>2, LiveTypes
  <2>5. ASSUME NEW z \in Sources, NEW x \in Live(z)'
        PROVE  /\ x.start \in x.frames /\ x.frames \subseteq Spent(z)'
               /\ \A u \in x.frames : Bucket(u) = Bucket(x.start)
               /\ x.frames \cap lost[z] = {}
    <3>1. CASE x \in Live(z)
      BY <2>1, <3>1 DEF Separate
    <3>2. CASE x \notin Live(z)
      <4>1. z = s /\ x = seg
        BY <2>1, <2>5, <3>2
      <4>2. \A u \in seg.frames : u = t \/ (u \in Spent(z) /\ u \notin lost[z])
        BY <2>3, <2>4, <4>1 DEF Separate
      <4>3. lost[z] \subseteq Spent(z)
        BY DEF Separate
      <4>4. QED
        BY <2>1, <2>3, <4>1, <4>2, <4>3
    <3>3. QED
      BY <3>1, <3>2
  <2>6. ASSUME NEW z \in Sources, NEW x \in Live(z), NEW y \in Live(z)', x \in Live(z)', x # y
        PROVE  x.frames \cap y.frames = {}
    <3>1. CASE y \in Live(z)
      BY <2>6, <3>1 DEF Separate
    <3>2. CASE y \notin Live(z)
      <4>1. z = s /\ y = seg /\ x # local[s]
        BY <2>1, <2>6, <3>2
      <4>2. t \notin x.frames
        BY <2>1, <4>1 DEF Separate
      <4>3. local[s] # NoSegment => x.frames \cap local[s].frames = {}
        BY <2>4, <4>1 DEF Separate
      <4>4. QED
        BY <2>3, <4>1, <4>2, <4>3
    <3>3. QED
      BY <3>1, <3>2
  <2>7. ASSUME NEW z \in Sources, NEW x \in Live(z)', NEW y \in Live(z)'
        PROVE  x = y \/ x.frames \cap y.frames = {}
    <3>1. CASE x \in Live(z)
      BY <2>6, <3>1
    <3>2. CASE y \in Live(z)
      BY <2>6, <3>2
    <3>3. CASE x \notin Live(z) /\ y \notin Live(z)
      BY <2>1, <2>7, <3>3
    <3>4. QED
      BY <3>1, <3>2, <3>3
  <2>8. \A z \in Sources : lost'[z] \subseteq Spent(z)'
    BY <2>1, <2>2 DEF Separate
  <2>9. QED
    BY <2>2, <2>5, <2>7, <2>8 DEF Separate
<1>9. ASSUME NEW cutoff, Cleanup(cutoff) PROVE Separate'
  <2>1. PICK D \in SUBSET Indexed : Delete(D)
    BY <1>9, CleanupDeletes
  <2>2. UNCHANGED <<cameras, local, cache, storing, crashes, lost>>
    BY <1>9, CleanupDeletes
  <2>3. \A z \in Sources : Live(z)' = Live(z) \ Of(D, z) /\ Spent(z)' = Spent(z)
    BY <2>1, <2>2, DeleteDoes
  <2>4. QED
    BY <2>2, <2>3, FewerAreApart
<1>10. ASSUME Crash PROVE Separate'
  <2>1. \A z \in Sources : Live(z)' = {} /\ lost'[z] = {}
    BY <1>10, CrashDoes DEF Crash
  <2>2. QED
    BY <2>1 DEF Separate
<1>11. CASE UNCHANGED vars
  <2>1. \A z \in Sources : Live(z)' = Live(z) /\ Spent(z)' = Spent(z)
    BY <1>11, SpentStays DEF vars, storing, Live
  <2>2. QED
    BY <1>11, <2>1, FewerAreApart DEF vars, history
<1>12. QED
  BY <1>1, <1>2, <1>3, <1>4, <1>5, <1>6, <1>7, <1>8, <1>9, <1>10, <1>11 DEF Next

-----------------------------------------------------------------------------
(* Where the frame and the segments are.                                   *)

LEMMA PlacedStep ==
  ASSUME TypeOK, Separate, Placed, Accounts, [Next]_vars
  PROVE  Placed'
<1>1. ASSUME NEW s \in Sources, RestartCamera(s) PROVE Placed'
  <2>1. \A z \in Sources : Arrived(z) \subseteq Arrived(z)'
    BY <1>1, NextLife
  <2>2. UNCHANGED <<local, index, total, storing>> /\ frame.source \in Sources
    BY <1>1 DEF RestartCamera, TypeOK
  <2>3. QED
    BY <2>1, <2>2 DEF Placed, storing
<1>2. ASSUME NEW s \in Sources, NEW t \in AllTimes, Skip(s, t) PROVE Placed'
  <2>1. UNCHANGED <<local, index, total, storing>> /\ step = "idle"
    BY <1>2 DEF Skip, Arrives
  <2>2. QED
    BY <2>1 DEF Placed, storing
<1>3. ASSUME NEW s \in Sources, NEW t \in AllTimes, Store(s, t) PROVE Placed'
  <2>1. /\ UNCHANGED <<index, total>> /\ frame' = [source |-> s, t |-> t] /\ total < MaxSize
        /\ old = NoSegment /\ local \in [Sources -> Segments \cup {NoSegment}]
        /\ total \in Nat /\ index \in [Sources -> SUBSET Segments]
    BY <1>3, CloudAssumption DEF Store, LimitReached, Arrives, TypeOK
  <2>2. \A z \in Sources : z = s => t \in Arrived(z)'
    BY <1>3, Arrival DEF Store
  <2>3. NoSegment \notin index[s]
    BY <2>1, LiveTypes
  <2>4. CASE local[s] # NoSegment /\ Bucket(local[s].start) # Bucket(t)
    <3>1. /\ old' = local[s] /\ step' = "uploading"
          /\ local' = [local EXCEPT ![s] = NoSegment]
      BY <1>3, <2>4 DEF Store
    <3>2. QED
      BY <2>1, <2>2, <2>3, <3>1 DEF Placed
  <2>5. CASE ~(local[s] # NoSegment /\ Bucket(local[s].start) # Bucket(t))
    <3>1. UNCHANGED <<old, local>> /\ step' = "writing"
      BY <1>3, <2>5 DEF Store
    <3>2. QED
      BY <2>1, <2>2, <2>3, <2>5, <3>1 DEF Placed
  <2>6. QED
    BY <2>4, <2>5
<1>4. ASSUME NEW s \in Sources, NEW x \in index[s], Retrieve(s, x) PROVE Placed'
  <2>1. UNCHANGED <<cameras, local, index, total, storing>> /\ frame.source \in Sources
    BY <1>4 DEF Retrieve, TypeOK
  <2>2. QED
    BY <2>1, ArrivedStays DEF Placed, storing
<1>5. ASSUME Upload PROVE Placed'
  <2>1. /\ UNCHANGED <<cameras, local, index, total, frame, old>> /\ frame.source \in Sources
        /\ step = "uploading" /\ step' = "indexing"
    BY <1>5 DEF Upload, TypeOK
  <2>2. QED
    BY <2>1, ArrivedStays DEF Placed
<1>6. ASSUME UploadFails PROVE Placed'
  <2>1. /\ UNCHANGED <<local, index, total>> /\ step' = "idle" /\ old' = NoSegment
        /\ frame'.source \in Sources /\ index \in [Sources -> SUBSET Segments]
    BY <1>6, NoFrameType DEF UploadFails, TypeOK
  <2>2. QED
    BY <2>1, LiveTypes DEF Placed
<1>7. ASSUME Index PROVE Placed'
  <2>1. /\ UNCHANGED <<cameras, local, frame>> /\ step = "indexing" /\ step' = "writing"
        /\ old' = NoSegment /\ old # NoSegment
        /\ index' = [index EXCEPT ![frame.source] = @ \cup {old}]
        /\ frame.source \in Sources /\ index \in [Sources -> SUBSET Segments]
    BY <1>7 DEF Index, TypeOK
  <2>2. NoSegment \notin index[frame.source]
    BY <2>1, LiveTypes
  <2>3. \A z \in Sources : local[z] \notin index'[z]
    BY <2>1, <2>2 DEF Placed
  <2>4. frame.t \in Arrived(frame.source)' /\ local[frame.source] = NoSegment
    BY <2>1, ArrivedStays DEF Placed
  <2>5. QED
    BY <2>1, <2>2, <2>3, <2>4 DEF Placed
<1>8. ASSUME Write PROVE Placed'
  <2> DEFINE s == frame.source  seg == Extended(local[s], frame.t)
  <2>1. /\ UNCHANGED <<index, old>> /\ old = NoSegment /\ step' = "idle"
        /\ local' = [local EXCEPT ![s] = seg] /\ s \in Sources /\ frame'.source \in Sources
        /\ index \in [Sources -> SUBSET Segments] /\ local \in [Sources -> Segments \cup {NoSegment}]
    BY <1>8, NoFrameType DEF Write, TypeOK
  <2>2. frame.t \in seg.frames
    BY <1>8, WriteDoes DEF Extended, Segments, TypeOK
  <2>3. \A x \in index[s] : x \in Live(s) /\ frame.t \notin x.frames
    BY <1>8, <2>1, LiveTypes, WriteDoes DEF Separate
  <2>4. NoSegment \notin index[frame'.source]
    BY <2>1, LiveTypes
  <2> HIDE DEF s, seg
  <2>5. \A z \in Sources : local'[z] \notin index[z]
    BY <2>1, <2>2, <2>3 DEF Placed, s
  <2>6. QED
    BY <2>1, <2>4, <2>5 DEF Placed
<1>9. ASSUME NEW cutoff, Cleanup(cutoff) PROVE Placed'
  <2>1. PICK D \in SUBSET Indexed : Delete(D)
    BY <1>9, CleanupDeletes
  <2>2. UNCHANGED <<cameras, local, cache, storing, crashes, lost>>
    BY <1>9, CleanupDeletes
  <2>3. total' \in Nat /\ total' <= total /\ total \in Nat /\ MaxSize \in Nat
    BY <2>1, <2>2, DeleteCounts, CloudAssumption DEF TypeOK
  <2>4. \A z \in Sources : index'[z] \subseteq index[z]
    BY <2>1 DEF Delete
  <2>5. frame.source \in Sources /\ UNCHANGED <<frame, old, step, local>>
    BY <2>2 DEF TypeOK, storing
  <2>6. total < MaxSize => total' < MaxSize
    BY <2>3
  <2>7. QED
    BY <2>2, <2>4, <2>5, <2>6, ArrivedStays DEF Placed
<1>10. ASSUME Crash PROVE Placed'
  <2>1. /\ \A z \in Sources : index'[z] = {}
        /\ step' = "idle" /\ frame'.source \in Sources
    BY <1>10, NoFrameType DEF Crash
  <2>2. QED
    BY <2>1 DEF Placed
<1>11. CASE UNCHANGED vars
  <2>1. frame.source \in Sources
    BY DEF TypeOK
  <2>2. QED
    BY <1>11, <2>1, ArrivedStays DEF Placed, vars, storing
<1>12. QED
  BY <1>1, <1>2, <1>3, <1>4, <1>5, <1>6, <1>7, <1>8, <1>9, <1>10, <1>11 DEF Next

-----------------------------------------------------------------------------
(* What the object store and the cache hold.                               *)

LEMMA StartsDiffer ==
  ASSUME Separate, NEW s \in Sources, NEW x \in Live(s), NEW y \in Live(s), x # y
  PROVE  x.start # y.start
  BY DEF Separate

LEMMA KeptStep ==
  ASSUME TypeOK, Separate, Placed, Kept, [Next]_vars
  PROVE  Kept'
<1> USE DEF InStore
<1>1. ASSUME NEW s \in Sources, RestartCamera(s) PROVE Kept'
  BY <1>1 DEF Kept, RestartCamera, storing
<1>2. ASSUME NEW s \in Sources, NEW t \in AllTimes, Skip(s, t) PROVE Kept'
  BY <1>2 DEF Kept, Skip, storing
<1>3. ASSUME NEW s \in Sources, NEW t \in AllTimes, Store(s, t) PROVE Kept'
  <2>1. step' # "indexing"
    BY <1>3 DEF Store
  <2>2. QED
    BY <1>3, <2>1 DEF Kept, Store
<1>4. ASSUME NEW s \in Sources, NEW x \in index[s], Retrieve(s, x) PROVE Kept'
  BY <1>4 DEF Kept, Retrieve, storing
<1>5. ASSUME Upload PROVE Kept'
  <2> DEFINE s == frame.source
  <2>1. /\ s \in Sources /\ old \in Live(s) /\ old \in Segments /\ old \notin index[s]
        /\ UNCHANGED <<index, frame, old>>
        /\ objects' = [objects EXCEPT ![s] = Put(@, old.start, old.frames)]
        /\ DOMAIN objects = Sources /\ Holds(objects[s])
    BY <1>5, LiveTypes DEF Upload, Key, TypeOK, Placed
  <2> HIDE DEF s
  <2>2. \A z \in Sources : objects'[z] = IF z = s THEN Put(objects[z], old.start, old.frames)
                                         ELSE objects[z]
    BY <2>1
  <2>3. /\ DOMAIN objects'[s] = DOMAIN objects[s] \cup {old.start}
        /\ objects'[s][old.start] = old.frames
        /\ \A q \in DOMAIN objects[s] : q # old.start => objects'[s][q] = objects[s][q]
    <3> DEFINE put == Put(objects[s], old.start, old.frames)
    <3>1. /\ DOMAIN put = DOMAIN objects[s] \cup {old.start} /\ put[old.start] = old.frames
          /\ \A q \in DOMAIN objects[s] : q # old.start => put[q] = objects[s][q]
      BY DEF Put
    <3>2. objects'[s] = put
      BY <2>1, <2>2
    <3> HIDE DEF put
    <3>3. QED
      BY <3>1, <3>2
  <2>4. ASSUME NEW z \in Sources, NEW x \in index[z] PROVE InStore(z, x)'
    <3>1. CASE z = s
      <4>1. x.start # old.start
        BY <2>1, <3>1, LiveTypes, StartsDiffer
      <4>2. QED
        BY <2>3, <3>1, <4>1 DEF Kept
    <3>2. CASE z # s
      BY <2>2, <3>2 DEF Kept
    <3>3. QED
      BY <3>1, <3>2
  <2>5. InStore(frame.source, old)'
    BY <2>1, <2>3 DEF s
  <2>6. QED
    BY <2>1, <2>4, <2>5 DEF Kept
<1>6. ASSUME UploadFails PROVE Kept'
  BY <1>6 DEF Kept, UploadFails
<1>7. ASSUME Index PROVE Kept'
  <2>1. /\ InStore(frame.source, old) /\ UNCHANGED objects /\ step' = "writing"
        /\ \A z \in Sources : index'[z] \subseteq index[z] \cup (IF z = frame.source THEN {old} ELSE {})
    BY <1>7 DEF Index, Kept, TypeOK
  <2>2. QED
    BY <2>1 DEF Kept
<1>8. ASSUME Write PROVE Kept'
  BY <1>8 DEF Kept, Write
<1>9. ASSUME NEW cutoff, Cleanup(cutoff) PROVE Kept'
  <2>1. PICK D \in SUBSET Indexed : Delete(D)
    BY <1>9, CleanupDeletes
  <2>2. UNCHANGED <<cameras, local, cache, storing, crashes, lost>>
    BY <1>9, CleanupDeletes
  <2>3. ASSUME NEW z \in Sources, NEW x \in Live(z), x \notin Of(D, z), InStore(z, x)
        PROVE  InStore(z, x)'
    <3> DEFINE gone == {Key(seg) : seg \in Of(D, z)}
    <3>1. x.start \notin gone
      <4>1. ASSUME NEW y \in Of(D, z) PROVE y.start # x.start
        <5>1. y \in Live(z) /\ y # x
          BY <2>3, LiveTypes DEF Of
        <5>2. QED
          BY <5>1, StartsDiffer
      <4>2. QED
        BY <4>1 DEF Key
    <3>2. objects'[z] = DropKeys(objects[z], gone)
      BY <2>1 DEF Delete
    <3> HIDE DEF gone
    <3>3. /\ DOMAIN DropKeys(objects[z], gone) = DOMAIN objects[z] \ gone
          /\ \A q \in DOMAIN objects[z] \ gone : DropKeys(objects[z], gone)[q] = objects[z][q]
      BY DEF DropKeys, Restrict
    <3>4. QED
      BY <2>3, <3>1, <3>2, <3>3
  <2>4. ASSUME NEW z \in Sources, NEW x \in index'[z] PROVE InStore(z, x)'
    <3>1. x \in index[z] /\ x \notin Of(D, z)
      BY <2>1 DEF Delete
    <3>2. QED
      BY <2>3, <3>1, LiveTypes DEF Kept
  <2>5. ASSUME step' = "indexing" PROVE InStore(frame.source, old)'
    <3>1. /\ step = "indexing" /\ UNCHANGED <<frame, old>> /\ old # NoSegment
          /\ frame.source \in Sources /\ old \notin index[frame.source]
      BY <2>2, <2>5 DEF storing, TypeOK, Placed
    <3>2. /\ old \in Live(frame.source) /\ old \notin Of(D, frame.source)
          /\ InStore(frame.source, old)
      BY <3>1, LiveTypes DEF Of, Kept
    <3>3. objects'[frame.source] = objects'[frame'.source]
      BY <3>1
    <3>4. old.start \in DOMAIN objects'[frame.source] /\ objects'[frame.source][old.start] = old.frames
      BY <2>3, <3>1, <3>2
    <3>5. QED
      BY <3>1, <3>4
  <2>6. QED
    BY <2>4, <2>5 DEF Kept
<1>10. ASSUME Crash PROVE Kept'
  BY <1>10 DEF Kept, Crash
<1>11. CASE UNCHANGED vars
  BY <1>11 DEF Kept, vars, storing
<1>12. QED
  BY <1>1, <1>2, <1>3, <1>4, <1>5, <1>6, <1>7, <1>8, <1>9, <1>10, <1>11 DEF Next

LEMMA SameDownloads ==
  ASSUME Downloaded, UNCHANGED cache,
         \A z \in Sources : /\ Live(z)' \subseteq Live(z) /\ Spent(z) \subseteq Spent(z)'
                            /\ Live(z)' \cap index[z] \subseteq index'[z]
  PROVE  Downloaded'
<1>1. ASSUME NEW z \in Sources
      PROVE  /\ \A p \in DOMAIN cache'[z] : p = Bucket(p) \/ p \in Spent(z)'
             /\ \A x \in Live(z)' : x.start # Bucket(x.start) /\ x.start \in DOMAIN cache'[z]
                                      => x \in index'[z] /\ cache'[z][x.start] = x.frames
  BY <1>1 DEF Downloaded
<1>2. QED
  BY <1>1 DEF Downloaded

LEMMA DownloadedStep ==
  ASSUME TypeOK, Separate, Placed, Kept, Downloaded, [Next]_vars
  PROVE  Downloaded'
<1>1. ASSUME NEW s \in Sources, RestartCamera(s) PROVE Downloaded'
  BY <1>1, RestartDoes, SameDownloads DEF RestartCamera
<1>2. ASSUME NEW s \in Sources, NEW t \in AllTimes, Skip(s, t) PROVE Downloaded'
  BY <1>2, SkipDoes, SameDownloads DEF Skip
<1>3. ASSUME NEW s \in Sources, NEW t \in AllTimes, Store(s, t) PROVE Downloaded'
  BY <1>3, StoreDoes, SameDownloads DEF Store
<1>4. ASSUME NEW s \in Sources, NEW x \in index[s], Retrieve(s, x) PROVE Downloaded'
  <2> DEFINE put == Put(cache[s], x.start, x.frames)
  <2>1. /\ x \in Segments /\ x \in Live(s) /\ Holds(cache[s]) /\ DOMAIN cache = Sources
    BY LiveTypes DEF TypeOK
  <2>2. cache' = [cache EXCEPT ![s] = put] /\ UNCHANGED index
    BY <1>4 DEF Retrieve, Key, Kept, InStore
  <2>3. /\ DOMAIN put = DOMAIN cache[s] \cup {x.start} /\ put[x.start] = x.frames
        /\ \A q \in DOMAIN cache[s] : q # x.start => put[q] = cache[s][q]
    BY DEF Put
  <2>4. \A z \in Sources : cache'[z] = IF z = s THEN put ELSE cache[z]
    BY <2>1, <2>2
  <2> HIDE DEF put
  <2>5. \A z \in Sources : Live(z)' = Live(z) /\ Spent(z)' = Spent(z)
    BY <1>4, RetrieveDoes
  <2>6. x.start \in Spent(s)
    BY <2>1 DEF Separate
  <2>7. \A y \in Live(s) : y # x => y.start # x.start
    BY <2>1, StartsDiffer
  <2>8. ASSUME NEW z \in Sources
        PROVE  /\ \A p \in DOMAIN cache'[z] : p = Bucket(p) \/ p \in Spent(z)
               /\ \A y \in Live(z) : y.start # Bucket(y.start) /\ y.start \in DOMAIN cache'[z]
                                        => y \in index[z] /\ cache'[z][y.start] = y.frames
    <3>1. CASE z = s
      BY <2>3, <2>4, <2>6, <2>7, <3>1 DEF Downloaded
    <3>2. CASE z # s
      BY <2>4, <3>2 DEF Downloaded
    <3>3. QED
      BY <3>1, <3>2
  <2>9. QED
    BY <2>2, <2>5, <2>8 DEF Downloaded
<1>5. ASSUME Upload PROVE Downloaded'
  BY <1>5, UploadDoes, SameDownloads DEF Upload
<1>6. ASSUME UploadFails PROVE Downloaded'
  BY <1>6, UploadFailsDoes, SameDownloads DEF UploadFails
<1>7. ASSUME Index PROVE Downloaded'
  <2> DEFINE s == frame.source  drop == DropKeys(cache[s], {Bucket(old.start)})
  <2>1. /\ cache' = [cache EXCEPT ![s] = drop] /\ s \in Sources /\ DOMAIN cache = Sources
        /\ Holds(cache[s])
        /\ \A z \in Sources : index[z] \subseteq index'[z]
    BY <1>7 DEF Index, TypeOK
  <2>2. DOMAIN drop \subseteq DOMAIN cache[s] /\ \A q \in DOMAIN drop : drop[q] = cache[s][q]
    BY DEF DropKeys, Restrict
  <2>3. \A z \in Sources : cache'[z] = IF z = s THEN drop ELSE cache[z]
    BY <2>1
  <2> HIDE DEF s, drop
  <2>4. \A z \in Sources : /\ DOMAIN cache'[z] \subseteq DOMAIN cache[z]
                           /\ \A q \in DOMAIN cache'[z] : cache'[z][q] = cache[z][q]
    BY <2>2, <2>3
  <2>5. \A z \in Sources : Live(z)' = Live(z) /\ Spent(z)' = Spent(z)
    BY <1>7, IndexDoes
  <2>6. ASSUME NEW z \in Sources
        PROVE  /\ \A p \in DOMAIN cache'[z] : p = Bucket(p) \/ p \in Spent(z)
               /\ \A y \in Live(z) : y.start # Bucket(y.start) /\ y.start \in DOMAIN cache'[z]
                                        => y \in index'[z] /\ cache'[z][y.start] = y.frames
    BY <2>1, <2>4 DEF Downloaded
  <2>7. QED
    BY <2>5, <2>6 DEF Downloaded
<1>8. ASSUME Write PROVE Downloaded'
  <2> DEFINE s == frame.source  t == frame.t  seg == Extended(local[s], t)
             b == Bucket(seg.start)  put == Put(cache[s], b, seg.frames)
  <2>1. /\ cache' = [cache EXCEPT ![s] = put] /\ UNCHANGED index
        /\ s \in Sources /\ DOMAIN cache = Sources /\ Holds(cache[s])
    BY <1>8 DEF Write, TypeOK
  <2>2. /\ seg \in Segments
        /\ \A z \in Sources :
             /\ Spent(z) \subseteq Spent(z)' /\ (z = s => t \notin Spent(z))
             /\ Live(z)' = IF z = s THEN (Live(z) \ {local[z]}) \cup {seg} ELSE Live(z)
    BY <1>8, WriteDoes
  <2>3. b = Bucket(b)
    <3>1. seg.start \in Nat
      BY <2>2, TimesTypes DEF Segments
    <3>2. QED
      BY <3>1, Buckets
  <2>4. /\ DOMAIN put = DOMAIN cache[s] \cup {b}
        /\ \A q \in DOMAIN cache[s] : q # b => put[q] = cache[s][q]
    BY DEF Put
  <2>5. \A z \in Sources : cache'[z] = IF z = s THEN put ELSE cache[z]
    BY <2>1
  <2>6. IF local[s] = NoSegment THEN seg.start = t
        ELSE local[s] \in Live(s) /\ local[s] \notin index[s] /\ seg.start = local[s].start
    <3>1. local[s] # NoSegment => local[s] \in Segments
      BY <2>1 DEF TypeOK
    <3>2. local[s] # NoSegment => local[s] \in Live(s) /\ local[s] \notin index[s]
      BY <2>1, LiveTypes DEF Placed
    <3>3. QED
      BY <3>1, <3>2 DEF Extended, Segments
  <2> HIDE DEF s, t, seg, b, put
  <2>7. \A z \in Sources :
          \A q \in DOMAIN cache'[z] : q = Bucket(q) \/ (q \in DOMAIN cache[z] /\ cache'[z][q] = cache[z][q])
    BY <2>3, <2>4, <2>5
  <2>8. seg.start # Bucket(seg.start) => seg.start \notin DOMAIN cache[s]
    BY <2>1, <2>2, <2>6 DEF Downloaded
  <2>9. ASSUME NEW z \in Sources, NEW x \in Live(z)',
               x.start # Bucket(x.start), x.start \in DOMAIN cache'[z]
        PROVE  x \in index[z] /\ cache'[z][x.start] = x.frames
    <3>1. x.start \in DOMAIN cache[z] /\ cache'[z][x.start] = cache[z][x.start]
      BY <2>7, <2>9
    <3>2. x \in Live(z)
      BY <2>2, <2>8, <2>9, <3>1
    <3>3. QED
      BY <2>9, <3>1, <3>2 DEF Downloaded
  <2>10. \A z \in Sources : \A q \in DOMAIN cache'[z] : q = Bucket(q) \/ q \in Spent(z)'
    BY <2>2, <2>7 DEF Downloaded
  <2>11. QED
    BY <2>1, <2>9, <2>10 DEF Downloaded
<1>9. ASSUME NEW cutoff, Cleanup(cutoff) PROVE Downloaded'
  <2>1. PICK D \in SUBSET Indexed : Delete(D)
    BY <1>9, CleanupDeletes
  <2>2. UNCHANGED <<cameras, local, cache, storing, crashes, lost>>
    BY <1>9, CleanupDeletes
  <2>3. \A z \in Sources : Live(z)' = Live(z) \ Of(D, z) /\ Spent(z)' = Spent(z)
    BY <2>1, <2>2, DeleteDoes
  <2>4. \A z \in Sources : index'[z] = index[z] \ Of(D, z)
    BY <2>1 DEF Delete
  <2>5. QED
    BY <2>2, <2>3, <2>4, SameDownloads
<1>10. ASSUME Crash PROVE Downloaded'
  BY <1>10, CrashDoes, SameDownloads DEF Crash
<1>11. CASE UNCHANGED vars
  <2>1. \A z \in Sources : Live(z)' = Live(z) /\ Spent(z)' = Spent(z)
    BY <1>11, SpentStays DEF vars, storing, Live
  <2>2. QED
    BY <1>11, <2>1, SameDownloads DEF vars
<1>12. QED
  BY <1>1, <1>2, <1>3, <1>4, <1>5, <1>6, <1>7, <1>8, <1>9, <1>10, <1>11 DEF Next

-----------------------------------------------------------------------------
(* The frames that store took.                                             *)

LEMMA InFrames ==
  ASSUME NEW L, NEW t
  PROVE  t \in Frames(L) <=> \E x \in L : t \in x.frames
  BY DEF Frames

LEMMA FramesJoin ==
  ASSUME NEW L, NEW M
  PROVE  /\ Frames(L \cup M) = Frames(L) \cup Frames(M)
         /\ Frames({}) = {} /\ \A x : Frames({x}) = x.frames
<1>1. \A t : t \in Frames(L \cup M) <=> t \in Frames(L) \/ t \in Frames(M)
  BY InFrames
<1>2. \A t : t \notin Frames({})
  BY InFrames
<1>3. \A x, t : t \in Frames({x}) <=> t \in x.frames
  BY InFrames
<1>4. QED
  BY <1>1, <1>2, <1>3

LEMMA FramesWith ==
  ASSUME NEW L, NEW x
  PROVE  Frames(L \cup {x}) = Frames(L) \cup x.frames
<1>1. Frames(L \cup {x}) = Frames(L) \cup Frames({x})
  BY FramesJoin
<1>2. QED
  BY <1>1, FramesJoin

LEMMA FramesApart ==
  ASSUME NEW L, NEW G \in SUBSET L,
         \A x, y \in L : x = y \/ x.frames \cap y.frames = {}
  PROVE  Frames(L \ G) = Frames(L) \ Frames(G)
<1>1. \A t : t \in Frames(L \ G) <=> t \in Frames(L) /\ t \notin Frames(G)
  BY InFrames
<1>2. QED
  BY <1>1

LEMMA SameFrames ==
  ASSUME Counted, UNCHANGED history, \A z \in Sources : Live(z)' = Live(z)
  PROVE  Counted'
  BY DEF Counted, history

LEMMA CountedStep ==
  ASSUME TypeOK, Separate, Placed, Counted, [Next]_vars
  PROVE  Counted'
<1>1. ASSUME NEW s \in Sources, RestartCamera(s) PROVE Counted'
  BY <1>1, RestartDoes, SameFrames DEF RestartCamera
<1>2. ASSUME NEW s \in Sources, NEW t \in AllTimes, Skip(s, t) PROVE Counted'
  BY <1>2, SkipDoes, SameFrames DEF Skip
<1>3. ASSUME NEW s \in Sources, NEW t \in AllTimes, Store(s, t) PROVE Counted'
  BY <1>3, StoreDoes, SameFrames DEF Store
<1>4. ASSUME NEW s \in Sources, NEW x \in index[s], Retrieve(s, x) PROVE Counted'
  BY <1>4, RetrieveDoes, SameFrames DEF Retrieve
<1>5. ASSUME Upload PROVE Counted'
  BY <1>5, UploadDoes, SameFrames DEF Upload
<1>6. ASSUME UploadFails PROVE Counted'
  <2> DEFINE s == frame.source
  <2>1. /\ old \in Live(s) /\ s \in Sources /\ lost' = [lost EXCEPT ![s] = @ \cup old.frames]
        /\ lost \in [Sources -> SUBSET AllTimes] /\ UNCHANGED stored
    BY <1>6, LiveTypes DEF UploadFails, TypeOK
  <2>2. \A z \in Sources : lost'[z] = IF z = s THEN lost[z] \cup old.frames ELSE lost[z]
    BY <2>1
  <2>3. \A z \in Sources : Live(z)' = IF z = s THEN Live(z) \ {old} ELSE Live(z)
    BY <1>6, UploadFailsDoes
  <2> HIDE DEF s
  <2>4. ASSUME NEW z \in Sources
        PROVE  stored'[z] = Frames(Live(z)') \cup lost'[z]
    <3>1. stored[z] = Frames(Live(z)) \cup lost[z]
      BY DEF Counted
    <3>2. CASE z = s
      <4>1. /\ Live(z)' = Live(z) \ {old} /\ lost'[z] = lost[z] \cup Frames({old})
            /\ Live(z) = (Live(z) \ {old}) \cup {old}
        BY <2>1, <2>2, <2>3, <3>2, FramesJoin
      <4>2. Frames(Live(z)) = Frames(Live(z) \ {old}) \cup Frames({old})
        BY <4>1, FramesJoin
      <4>3. QED
        BY <2>1, <3>1, <4>1, <4>2
    <3>3. CASE z # s
      BY <2>1, <2>2, <2>3, <3>1, <3>3
    <3>4. QED
      BY <3>2, <3>3
  <2>5. QED
    BY <2>4 DEF Counted
<1>7. ASSUME Index PROVE Counted'
  BY <1>7, IndexDoes, SameFrames DEF Index
<1>8. ASSUME Write PROVE Counted'
  <2> DEFINE s == frame.source  t == frame.t  seg == Extended(local[s], t)
  <2>1. /\ s \in Sources /\ UNCHANGED lost /\ stored' = [stored EXCEPT ![s] = @ \cup {t}]
        /\ stored \in [Sources -> SUBSET AllTimes]
    BY <1>8 DEF Write, TypeOK
  <2>2. \A z \in Sources :
          Live(z)' = IF z = s THEN (Live(z) \ {local[z]}) \cup {seg} ELSE Live(z)
    BY <1>8, WriteDoes
  <2>3. IF local[s] = NoSegment THEN seg.frames = {t} /\ local[s] \notin Live(s)
        ELSE seg.frames = local[s].frames \cup {t} /\ local[s] \in Live(s)
    <3>1. local[s] # NoSegment => local[s] \in Segments /\ local[s] \in Live(s)
      BY <2>1, LiveTypes DEF TypeOK
    <3>2. NoSegment \notin Live(s)
      BY DEF Live
    <3>3. QED
      BY <3>1, <3>2 DEF Extended, Segments
  <2>4. \A z \in Sources : stored'[z] = IF z = s THEN stored[z] \cup {t} ELSE stored[z]
    BY <2>1
  <2> HIDE DEF s, t, seg
  <2>5. Frames((Live(s) \ {local[s]}) \cup {seg}) = Frames(Live(s)) \cup {t}
    <3> DEFINE R == Live(s) \ {local[s]}
    <3>1. Frames(R \cup {seg}) = Frames(R) \cup seg.frames
      BY FramesWith
    <3>2. CASE local[s] = NoSegment
      <4>1. R = Live(s) /\ seg.frames = {t}
        BY <2>3, <3>2
      <4>2. QED
        BY <3>1, <4>1
    <3>3. CASE local[s] # NoSegment
      <4>1. Live(s) = R \cup {local[s]} /\ seg.frames = local[s].frames \cup {t}
        BY <2>3, <3>3
      <4>2. Frames(R \cup {local[s]}) = Frames(R) \cup local[s].frames
        BY FramesWith
      <4> HIDE DEF R
      <4>3. Frames(R \cup {seg}) = Frames(Live(s)) \cup {t}
        BY <3>1, <4>1, <4>2
      <4>4. QED
        BY <4>3 DEF R
    <3>4. QED
      BY <3>2, <3>3
  <2>6. ASSUME NEW z \in Sources
        PROVE  stored'[z] = Frames(Live(z)') \cup lost'[z]
    <3>1. stored[z] = Frames(Live(z)) \cup lost[z]
      BY DEF Counted
    <3>2. CASE z = s
      <4>1. Live(z)' = (Live(s) \ {local[s]}) \cup {seg}
        BY <2>2, <3>2
      <4>2. Frames(Live(z)') = Frames(Live(z)) \cup {t}
        BY <2>5, <3>2, <4>1
      <4>3. QED
        BY <2>1, <2>4, <3>1, <3>2, <4>2
    <3>3. CASE z # s
      BY <2>1, <2>2, <2>4, <3>1, <3>3
    <3>4. QED
      BY <3>2, <3>3
  <2>7. QED
    BY <2>6 DEF Counted
<1>9. ASSUME NEW cutoff, Cleanup(cutoff) PROVE Counted'
  <2>1. PICK D \in SUBSET Indexed : Delete(D)
    BY <1>9, CleanupDeletes
  <2>2. UNCHANGED <<cameras, local, cache, storing, crashes, lost>>
    BY <1>9, CleanupDeletes
  <2>3. \A z \in Sources : Live(z)' = Live(z) \ Of(D, z) /\ Of(D, z) \subseteq index[z]
    BY <2>1, <2>2, DeleteDoes
  <2>4. ASSUME NEW z \in Sources
        PROVE  stored'[z] = Frames(Live(z)') \cup lost'[z]
    <3> DEFINE G == Of(D, z)  L == Live(z)
    <3>1. stored[z] = Frames(L) \cup lost[z]
      BY DEF Counted
    <3>2. stored'[z] = stored[z] \ Frames(G)
      BY <2>1 DEF Delete, Frames
    <3>3. G \in SUBSET L /\ Live(z)' = L \ G /\ lost'[z] = lost[z]
      BY <2>2, <2>3, LiveTypes
    <3>4. /\ \A x \in L : x.frames \cap lost[z] = {}
          /\ \A x, y \in L : x = y \/ x.frames \cap y.frames = {}
      BY DEF Separate
    <3> HIDE DEF G, L
    <3>5. Frames(L \ G) = Frames(L) \ Frames(G)
      BY <3>3, <3>4, FramesApart
    <3>6. Frames(G) \cap lost[z] = {}
      BY <3>3, <3>4, InFrames
    <3>7. stored'[z] = Frames(L \ G) \cup lost[z]
      BY <3>1, <3>2, <3>5, <3>6
    <3>8. QED
      BY <3>3, <3>7
  <2>5. QED
    BY <2>4 DEF Counted
<1>10. ASSUME Crash PROVE Counted'
  <2>1. \A z \in Sources : Live(z)' = {} /\ lost'[z] = {} /\ stored'[z] = {}
    BY <1>10, CrashDoes DEF Crash
  <2>2. QED
    BY <2>1, FramesJoin DEF Counted
<1>11. CASE UNCHANGED vars
  <2>1. \A z \in Sources : Live(z)' = Live(z)
    BY <1>11 DEF vars, storing, Live
  <2>2. QED
    BY <1>11, <2>1, SameFrames DEF vars
<1>12. QED
  BY <1>1, <1>2, <1>3, <1>4, <1>5, <1>6, <1>7, <1>8, <1>9, <1>10, <1>11 DEF Next

-----------------------------------------------------------------------------
(* The accounts and the whole invariant.                                   *)

LEMMA SameAccounts ==
  ASSUME Accounts, UNCHANGED <<index, total>>
  PROVE  Accounts'
<1>1. Indexed' = Indexed
  BY DEF Indexed
<1>2. QED
  BY <1>1 DEF Accounts, UsageIsIndexed, LimitOverrunBySegment

LEMMA NothingIsZero == SizeOf({}) = 0
<1> DEFINE f == [p \in {} |-> Size(p[2])]
<1>1. SizeOf({}) = SumFunctionOnSet(f, {})
  BY DEF SizeOf
<1> HIDE DEF f
<1>2. QED
  BY <1>1, SumOfNothing

LEMMA RoomForOne == 0 < MaxSize + Cardinality({t \in AllTimes : Bucket(t) = Bucket(0)})
<1> DEFINE n == Cardinality({t \in AllTimes : Bucket(t) = Bucket(0)})
<1>1. n \in Nat
  BY BucketsAreFinite
<1> HIDE DEF n
<1>2. MaxSize \in Nat \ {0}
  BY CloudAssumption
<1>3. 0 < MaxSize + n
  BY <1>1, <1>2
<1>4. QED
  BY <1>3 DEF n

LEMMA AccountsStep ==
  ASSUME TypeOK, Separate, Placed, Accounts, [Next]_vars
  PROVE  Accounts'
<1>1. ASSUME NEW s \in Sources, RestartCamera(s) PROVE Accounts'
  BY <1>1, SameAccounts DEF RestartCamera
<1>2. ASSUME NEW s \in Sources, NEW t \in AllTimes, Skip(s, t) PROVE Accounts'
  BY <1>2, SameAccounts DEF Skip
<1>3. ASSUME NEW s \in Sources, NEW t \in AllTimes, Store(s, t) PROVE Accounts'
  BY <1>3, SameAccounts DEF Store
<1>4. ASSUME NEW s \in Sources, NEW x \in index[s], Retrieve(s, x) PROVE Accounts'
  BY <1>4, SameAccounts DEF Retrieve
<1>5. ASSUME Upload PROVE Accounts'
  BY <1>5, SameAccounts DEF Upload
<1>6. ASSUME UploadFails PROVE Accounts'
  BY <1>6, SameAccounts DEF UploadFails
<1>7. ASSUME Index PROVE Accounts'
  BY <1>7, IndexCounts
<1>8. ASSUME Write PROVE Accounts'
  BY <1>8, SameAccounts DEF Write
<1>9. ASSUME NEW cutoff, Cleanup(cutoff) PROVE Accounts'
  <2>1. PICK D \in SUBSET Indexed : Delete(D)
    BY <1>9, CleanupDeletes
  <2>2. QED
    BY <1>9, <2>1, CleanupDeletes, DeleteCounts
<1>10. ASSUME Crash PROVE Accounts'
  <2>1. total' = 0 /\ Indexed' = {}
    BY <1>10, CrashDoes DEF Crash
  <2>2. SizeOf({}) = 0 /\ IsFiniteSet({})
    BY NothingIsZero, FS_EmptySet
  <2>3. 0 < MaxSize + Cardinality({t \in AllTimes : Bucket(t) = Bucket(0)})
    BY RoomForOne
  <2>4. QED
    BY <2>1, <2>2, <2>3 DEF Accounts, UsageIsIndexed, LimitOverrunBySegment
<1>11. CASE UNCHANGED vars
  BY <1>11, SameAccounts DEF vars
<1>12. QED
  BY <1>1, <1>2, <1>3, <1>4, <1>5, <1>6, <1>7, <1>8, <1>9, <1>10, <1>11 DEF Next

LEMMA InitInvariant == Init => IInv
<1> SUFFICES ASSUME Init PROVE IInv
  OBVIOUS
<1>1. TypeOK
  BY InitType
<1>2. \A z \in Sources : index[z] = {} /\ local[z] = NoSegment /\ old = NoSegment /\ Live(z) = {}
  BY DEF Init, Live
<1>3. Separate /\ Counted
  BY <1>2, FramesJoin DEF Init, Separate, Counted
<1>4. Placed /\ Kept
  BY <1>1, <1>2 DEF Init, TypeOK, Placed, Kept
<1>5. Downloaded
  BY <1>2 DEF Init, Downloaded, Empty
<1>6. Indexed = {} /\ total = 0
  BY <1>2 DEF Init, Indexed
<1>7. Accounts
  <2>1. SizeOf({}) = 0 /\ IsFiniteSet({})
    BY NothingIsZero, FS_EmptySet
  <2>2. 0 < MaxSize + Cardinality({t \in AllTimes : Bucket(t) = Bucket(0)})
    BY RoomForOne
  <2>3. QED
    BY <1>6, <2>1, <2>2 DEF Accounts, UsageIsIndexed, LimitOverrunBySegment
<1>8. QED
  BY <1>1, <1>3, <1>4, <1>5, <1>7 DEF IInv

LEMMA Invariant == Spec => []IInv
<1>1. IInv /\ [Next]_vars => IInv'
  <2> SUFFICES ASSUME IInv, [Next]_vars PROVE IInv'
    OBVIOUS
  <2>1. TypeOK /\ Separate /\ Placed /\ Kept /\ Downloaded /\ Counted /\ Accounts
    BY DEF IInv
  <2>2. TypeOK' /\ Separate' /\ Placed'
    BY <2>1, TypeStep, SeparateStep, PlacedStep
  <2>3. Kept' /\ Downloaded' /\ Counted' /\ Accounts'
    BY <2>1, KeptStep, DownloadedStep, CountedStep, AccountsStep
  <2>4. QED
    BY <2>2, <2>3 DEF IInv
<1>2. QED
  BY InitInvariant, <1>1, PTL DEF Spec

(* Bytes never leak from the accounts and the limit is overrun by the      *)
(* frames of one interval at most, for any number of cameras and any       *)
(* limit: an upload starts below the limit and only one is under way       *)
(* (cloud.rs:293-303 and 430-456, server/storage.rs:82-87).                *)
THEOREM AccountsAreRight == Spec => []UsageAccounted
<1>1. IInv => UsageAccounted
  BY DEF IInv, Accounts, UsageAccounted
<1>2. QED
  BY <1>1, Invariant, PTL

(* No frame that store took goes missing but by a failed upload, a cleanup *)
(* or a restart (cloud.rs:275-376, 430-456).                               *)
THEOREM NoFrameGoesMissing == Spec => []FramesAccountedFor
<1>1. IInv => FramesAccountedFor
  <2> SUFFICES ASSUME IInv, NEW s \in Sources
               PROVE  /\ \A x \in index[s] : Key(x) \in DOMAIN objects[s]
                      /\ stored[s] = Open(s) \cup InFlight(s) \cup Uploaded(s) \cup lost[s]
    BY DEF FramesAccountedFor
  <2>1. \A x \in index[s] : x.start \in DOMAIN objects[s] /\ objects[s][x.start] = x.frames
    BY DEF IInv, Kept, InStore
  <2>2. Uploaded(s) = Frames(index[s])
    BY <2>1 DEF Uploaded, Key, Frames
  <2>3. index[s] \subseteq Live(s) /\ NoSegment \notin index[s]
    BY LiveTypes DEF IInv, Live
  <2>4. Frames(Live(s)) = Frames(index[s]) \cup Open(s) \cup InFlight(s)
    <3> DEFINE o == IF frame.source = s THEN old ELSE NoSegment
    <3>1. Live(s) = index[s] \cup ({local[s]} \ {NoSegment}) \cup ({o} \ {NoSegment})
      BY <2>3 DEF Live
    <3>2. Frames({local[s]} \ {NoSegment}) = Open(s)
      <4>1. CASE local[s] = NoSegment
        BY <4>1, FramesJoin DEF Open
      <4>2. CASE local[s] # NoSegment
        <5>1. {local[s]} \ {NoSegment} = {local[s]}
          BY <4>2
        <5>2. QED
          BY <4>2, <5>1, FramesJoin DEF Open
      <4>3. QED
        BY <4>1, <4>2
    <3>3. Frames({o} \ {NoSegment}) = InFlight(s)
      <4>1. CASE o = NoSegment
        <5>1. {o} \ {NoSegment} = {} /\ InFlight(s) = {}
          BY <4>1 DEF InFlight
        <5>2. QED
          BY <5>1, FramesJoin
      <4>2. CASE o # NoSegment
        <5>1. {o} \ {NoSegment} = {o} /\ InFlight(s) = o.frames
          BY <4>2 DEF InFlight
        <5>2. QED
          BY <5>1, FramesJoin
      <4>3. QED
        BY <4>1, <4>2
    <3> HIDE DEF o
    <3> DEFINE A == index[s]  B == {local[s]} \ {NoSegment}  C == {o} \ {NoSegment}
    <3>4. Frames(Live(s)) = Frames(A) \cup Frames(B) \cup Frames(C)
      <4> HIDE DEF A, B, C
      <4>1. Frames(A \cup B) = Frames(A) \cup Frames(B)
        BY FramesJoin
      <4>2. Frames((A \cup B) \cup C) = Frames(A \cup B) \cup Frames(C)
        BY FramesJoin
      <4>3. Live(s) = (A \cup B) \cup C
        BY <3>1 DEF A, B, C
      <4>4. QED
        BY <4>1, <4>2, <4>3
    <3>5. QED
      BY <3>2, <3>3, <3>4
  <2>5. stored[s] = Frames(Live(s)) \cup lost[s]
    BY DEF IInv, Counted
  <2>6. stored[s] = Open(s) \cup InFlight(s) \cup Uploaded(s) \cup lost[s]
    BY <2>2, <2>4, <2>5
  <2>7. QED
    BY <2>1, <2>6 DEF Key
<1>2. QED
  BY <1>1, Invariant, PTL

(* What a retrieval reads is what was uploaded, unless the segment's first *)
(* frame fell on the start of an interval (cloud.rs:378-428).              *)
THEOREM RetrievalIsFaithful == Spec => []RetrievedIsUploaded
<1>1. IInv => RetrievedIsUploaded
  <2>1. IInv => TypeOK /\ Downloaded
    BY DEF IInv
  <2>2. QED
    BY <2>1, LiveTypes DEF Downloaded, RetrievedIsUploaded
<1>2. QED
  BY <1>1, Invariant, PTL
=============================================================================
