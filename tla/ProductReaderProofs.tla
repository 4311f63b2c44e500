-------------------------- MODULE ProductReaderProofs --------------------------
(***************************************************************************)
(* What ProductManager.read returns to a request that is alone with the    *)
(* shared field, for any number of reads and any product shapefiles.       *)
(***************************************************************************)
EXTENDS ProductReader, SequenceTheorems, TLAPS

Chunk(r) == read[r].file[read[r].chunk]
LastChunk(r) == read[r].file[Len(read[r].file)]

(* Reads that are in flight together are known to overlap.                 *)
OverlapsKnown == \A r, q \in Readers : Busy(r) /\ Busy(q) /\ r # q => r \in overlapped

(* While a read is alone, the field holds what it has read of its chunk.   *)
Collected(r) ==
    /\ read[r].at = "feature" =>
          /\ Len(features) = read[r].next - 1
          /\ \A i \in 1 .. Len(features) : features[i] = Chunk(r)[i]
    /\ read[r].at = "validate" => features = LastChunk(r)
    /\ read[r].at = "answered" => read[r].result = Judgement(LastChunk(r))

(* A read that has begun has a file, and it judges only files with chunks. *)
HasChunks(r) ==
    /\ read[r].at \in {"chunk", "feature"} => read[r].chunk \in DOMAIN read[r].file
    /\ read[r].at \in {"chunk", "feature", "validate", "answered"} =>
          read[r].file \in Files /\ Len(read[r].file) > 0

AloneInv ==
    /\ TypeOK
    /\ OverlapsKnown
    /\ \A r \in Readers : HasChunks(r) /\ (r \notin overlapped => Collected(r))

-----------------------------------------------------------------------------
(* The chunks of a shapefile are non-empty sequences of features.          *)
LEMMA ChunkTypes ==
    ASSUME NEW f \in Files
    PROVE  /\ Len(f) \in Nat /\ DOMAIN f = 1 .. Len(f)
           /\ \A c \in DOMAIN f :
                 /\ f[c] \in Seq(Features) /\ Len(f[c]) \in Nat \ {0}
                 /\ DOMAIN f[c] = 1 .. Len(f[c])
  <1>1. f \in Seq(Seq(Features) \ {<<>>})  BY ReaderAssumption
  <1>2. \A c \in DOMAIN f : f[c] \in Seq(Features) /\ f[c] # <<>>  BY <1>1
  <1>3. \A s \in Seq(Features) : Len(s) \in Nat /\ DOMAIN s = 1 .. Len(s) /\ (s # <<>> => Len(s) # 0)
    OBVIOUS
  <1> QED  BY <1>1, <1>2, <1>3

(* The verdict on a sequence of features is a feature or Invalid.          *)
LEMMA JudgementType == \A fs \in Seq(Features) : Judgement(fs) \in Features \cup {Invalid}
  BY DEF Judgement

(* Updates of a read's record.                                             *)
LEMMA ReadUpdates ==
    ASSUME NEW x \in Read
    PROVE  /\ LET w == [x EXCEPT !.next = @ + 1] IN
              w \in Read /\ w.file = x.file /\ w.at = x.at /\ w.chunk = x.chunk /\ w.next = x.next + 1
           /\ LET w == [x EXCEPT !.at = "chunk", !.chunk = @ + 1] IN
              w \in Read /\ w.file = x.file /\ w.at = "chunk" /\ w.chunk = x.chunk + 1
           /\ LET w == [x EXCEPT !.at = "validate"] IN
              w \in Read /\ w.file = x.file /\ w.at = "validate"
  <1>1. x.chunk + 1 \in Nat /\ x.next + 1 \in Nat  BY DEF Read
  <1> QED  BY <1>1 DEF Read

(* The invariant holds initially.                                          *)
LEMMA AloneInit == Init => AloneInv
  <1> SUFFICES ASSUME Init PROVE AloneInv  OBVIOUS
  <1>1. NoRead \in Read /\ NoRead.at = "idle"  BY DEF NoRead, Read
  <1>2. TypeOK  BY <1>1 DEF Init, TypeOK
  <1> QED  BY <1>1, <1>2 DEF Init, AloneInv, OverlapsKnown, HasChunks, Collected, Busy

(* The steps of a read other than r leave what r has read alone.           *)
LEMMA OthersKeep ==
    ASSUME AloneInv, NEW q \in Readers, NEW v, read' = [read EXCEPT ![q] = v], NEW r \in Readers, r # q
    PROVE  read'[r] = read[r] /\ (HasChunks(r) => HasChunks(r)') /\ Busy(r)' = Busy(r)
  BY DEF AloneInv, TypeOK, HasChunks, Busy

(* The invariant is inductive.                                             *)
LEMMA AloneStep == AloneInv /\ [Next]_vars => AloneInv'
  <1> SUFFICES ASSUME AloneInv, [Next]_vars PROVE AloneInv'  OBVIOUS
  <1> USE DEF AloneInv
  <1>0. /\ features \in Seq(Features) /\ read \in [Readers -> Read] /\ overlapped \in SUBSET Readers
        /\ \A r \in Readers : read[r] \in Read
    BY DEF TypeOK
  (* A read that is not alone need not be looked at; one that is, sees its *)
  (* own steps only.                                                       *)
  <1>own. ASSUME NEW q \in Readers, Busy(q), overlapped' = overlapped, NEW v \in Read,
               read' = [read EXCEPT ![q] = v], features' \in Seq(Features),
               v.at \in {"chunk", "feature"} => v.chunk \in DOMAIN v.file,
               v.at = "feature" => v.next \in DOMAIN v.file[v.chunk],
               HasChunks(q)', q \notin overlapped => Collected(q)'
        PROVE  AloneInv'
    <2>1. read'[q] = v /\ \A r \in Readers : r # q => read'[r] = read[r]  BY <1>0, <1>own
    <2>2. TypeOK'
      <3>1. read' \in [Readers -> Read]  BY <1>0, <1>own
      <3>2. \A r \in Readers :
              /\ read'[r].at \in {"chunk", "feature"} => read'[r].chunk \in DOMAIN read'[r].file
              /\ read'[r].at = "feature" => read'[r].next \in DOMAIN read'[r].file[read'[r].chunk]
        BY <1>own, <2>1 DEF TypeOK
      <3> QED  BY <1>0, <1>own, <3>1, <3>2 DEF TypeOK
    <2>3. OverlapsKnown'  BY <1>own, <2>1 DEF OverlapsKnown, Busy
    <2>4. ASSUME NEW r \in Readers  PROVE HasChunks(r)' /\ (r \notin overlapped' => Collected(r)')
      <3>1. CASE r = q  BY <1>own, <3>1
      <3>2. CASE r # q
        <4>1. HasChunks(r)'  BY <1>own, <3>2, OthersKeep
        <4>2. ASSUME r \notin overlapped  PROVE Collected(r)'
          <5>1. ~Busy(r)  BY <1>own, <3>2, <4>2 DEF OverlapsKnown
          <5>2. read'[r] = read[r] /\ read[r].at \notin {"feature", "validate"} /\ Collected(r)
            BY <2>1, <3>2, <4>2, <5>1 DEF Busy
          <5> QED  BY <5>2 DEF Collected, LastChunk
        <4> QED  BY <1>own, <4>1, <4>2
      <3> QED  BY <3>1, <3>2
    <2> QED  BY <2>2, <2>3, <2>4
  <1>1. ASSUME NEW q \in Readers, NEW f \in Files, StartRead(q, f)  PROVE AloneInv'
    <2> DEFINE v == [NoRead EXCEPT !.file = f, !.at = IF f = <<>> THEN "failed" ELSE "chunk"]
               others == {r \in Readers \ {q} : Busy(r)}
    <2>1. /\ v \in Read /\ v.file = f /\ v.chunk = 1 /\ v.at \in {"chunk", "failed"}
          /\ v.at = "chunk" => f # <<>>
      BY DEF Read, NoRead
    <2>2. read' = [read EXCEPT ![q] = v] /\ features' = features /\ read[q].at = "idle"
      BY <1>1 DEF StartRead
    <2>3. v.at = "chunk" => 1 \in DOMAIN f /\ Len(f) > 0
      BY <2>1, ReaderAssumption
    <2> HIDE DEF v
    <2>4. read'[q] = v /\ \A r \in Readers : r # q => read'[r] = read[r]  BY <1>0, <2>2
    <2>5. /\ overlapped' \subseteq Readers
          /\ \A r \in Readers : r # q /\ r \notin overlapped' => r \notin overlapped
          /\ \A r \in others : q \in overlapped' /\ r \in overlapped'
          /\ \A r \in Readers : r # q /\ r \in overlapped => r \in overlapped'
      BY <1>0, <1>1 DEF StartRead
    <2>6. TypeOK'
      <3>1. read' \in [Readers -> Read]  BY <1>0, <2>1, <2>2
      <3>2. \A r \in Readers :
              /\ read'[r].at \in {"chunk", "feature"} => read'[r].chunk \in DOMAIN read'[r].file
              /\ read'[r].at = "feature" => read'[r].next \in DOMAIN read'[r].file[read'[r].chunk]
        BY <2>1, <2>3, <2>4 DEF TypeOK
      <3> QED  BY <1>0, <2>2, <2>5, <3>1, <3>2 DEF TypeOK
    <2>7. OverlapsKnown'  BY <2>2, <2>4, <2>5 DEF OverlapsKnown, Busy
    <2>8. ASSUME NEW r \in Readers  PROVE HasChunks(r)' /\ (r \notin overlapped' => Collected(r)')
      <3>1. CASE r = q  BY <2>1, <2>3, <2>4, <3>1 DEF HasChunks, Collected
      <3>2. CASE r # q
        <4>1. read'[r] = read[r] /\ (r \notin overlapped' => r \notin overlapped)
          BY <2>4, <2>5, <3>2
        <4> QED  BY <2>2, <4>1 DEF HasChunks, Collected, Chunk, LastChunk
      <3> QED  BY <3>1, <3>2
    <2> QED  BY <2>6, <2>7, <2>8
  <1>2. ASSUME NEW q \in Readers, BeginChunk(q)  PROVE AloneInv'
    <2> DEFINE v == [read[q] EXCEPT !.at = "feature", !.next = 1]
    <2>1. v \in Read /\ v.at = "feature" /\ v.next = 1 /\ v.file = read[q].file /\ v.chunk = read[q].chunk
      BY <1>0 DEF Read
    <2>2. read[q].at = "chunk" /\ overlapped' = overlapped  BY <1>2 DEF BeginChunk
    <2>3. read' = [read EXCEPT ![q] = v]
      <3>1. read' = [read EXCEPT ![q].at = "feature", ![q].next = 1]  BY <1>2 DEF BeginChunk
      <3> QED  BY <1>0, <3>1 DEF Read
    <2>4. features' = <<>>  BY <1>0, <1>2 DEF BeginChunk
    <2>5. v.file \in Files /\ Len(v.file) > 0 /\ v.chunk \in DOMAIN v.file /\ 1 \in DOMAIN v.file[v.chunk]
      <3>1. read[q].file \in Files /\ Len(read[q].file) > 0 /\ read[q].chunk \in DOMAIN read[q].file
        BY <2>2 DEF HasChunks
      <3> QED  BY <2>1, <3>1, ChunkTypes
    <2> HIDE DEF v
    <2>6. read'[q] = v  BY <1>0, <2>3
    <2>7. HasChunks(q)' /\ Collected(q)'  BY <2>1, <2>4, <2>5, <2>6 DEF HasChunks, Collected
    <2>8. Busy(q) /\ features' \in Seq(Features)  BY <2>2, <2>4 DEF Busy
    <2> QED  BY <1>own, <2>1, <2>2, <2>3, <2>5, <2>7, <2>8
  <1>3. ASSUME NEW q \in Readers, PushFeature(q)  PROVE AloneInv'
    <2> DEFINE c == Chunk(q)
               last == read[q].next = Len(c)
               lastChunk == read[q].chunk = Len(read[q].file)
               v == CASE ~last -> [read[q] EXCEPT !.next = @ + 1]
                      [] last /\ ~lastChunk -> [read[q] EXCEPT !.at = "chunk", !.chunk = @ + 1]
                      [] OTHER -> [read[q] EXCEPT !.at = "validate"]
    <2>0. read[q] \in Read /\ read[q].at = "feature"
      BY <1>0, <1>3 DEF PushFeature
    <2>1. /\ read[q].at = "feature" /\ overlapped' = overlapped
          /\ features' = Append(features, c[read[q].next])
      BY <1>3 DEF PushFeature, Chunk
    <2>read. read' = [read EXCEPT ![q] = v]  BY <1>3, Zenon DEF PushFeature, Chunk
    <2>2. /\ read[q].file \in Files /\ Len(read[q].file) \in Nat \ {0}
          /\ read[q].chunk \in 1 .. Len(read[q].file)
          /\ c \in Seq(Features) /\ Len(c) \in Nat \ {0}
          /\ read[q].next \in 1 .. Len(c)
      <3>1. /\ read[q].file \in Files /\ Len(read[q].file) > 0 /\ read[q].chunk \in DOMAIN read[q].file
            /\ read[q].next \in DOMAIN c
        BY <2>1 DEF HasChunks, TypeOK, Chunk
      <3> QED  BY <3>1, ChunkTypes, SMTT(30) DEF Chunk
    <2>3. c[read[q].next] \in Features  BY <2>2
    <2>4. /\ features' \in Seq(Features) /\ Len(features') = Len(features) + 1
          /\ \A i \in 1 .. Len(features) : features'[i] = features[i]
          /\ features'[Len(features) + 1] = c[read[q].next]
      BY <1>0, <2>1, <2>3, AppendProperties
    <2>5. /\ v \in Read /\ v.file = read[q].file
          /\ v.at \in {"chunk", "feature"} => v.chunk \in DOMAIN v.file
          /\ v.at = "feature" => /\ ~last /\ v.chunk = read[q].chunk /\ v.next = read[q].next + 1
                                 /\ v.next \in DOMAIN v.file[v.chunk]
          /\ v.at = "validate" => last /\ read[q].chunk = Len(read[q].file)
          /\ v.at \in {"chunk", "feature", "validate"}
      <3>1. /\ DOMAIN read[q].file = 1 .. Len(read[q].file)
            /\ DOMAIN c = 1 .. Len(c)
        BY <2>2, ChunkTypes DEF Chunk
      <3>2. CASE ~last
        <4> DEFINE w == [read[q] EXCEPT !.next = @ + 1]
        <4>1. v = w  BY <3>2
        <4>2. /\ w \in Read /\ w.file = read[q].file
              /\ w.at = read[q].at /\ w.chunk = read[q].chunk /\ w.next = read[q].next + 1
          BY <2>0, ReadUpdates, Zenon
        <4>3. w.file[w.chunk] = c  BY <4>2 DEF Chunk
        <4> HIDE DEF c, w, v
        <4>4. w.next \in DOMAIN c  BY <2>2, <3>1, <3>2, <4>2
        <4>5. w.chunk \in DOMAIN w.file  BY <2>2, <3>1, <4>2
        <4>6. v.at = "feature"  BY <2>0, <4>1, <4>2
        <4>7. v.next \in DOMAIN v.file[v.chunk]  BY <4>1, <4>3, <4>4
        <4>8. v \in Read /\ v.file = read[q].file /\ v.chunk = read[q].chunk /\ v.next = read[q].next + 1
          BY <4>1, <4>2
        <4> HIDE DEF last
        <4> QED  BY <3>2, <4>1, <4>5, <4>6, <4>7, <4>8
      <3>3. CASE last /\ ~lastChunk
        <4> DEFINE w == [read[q] EXCEPT !.at = "chunk", !.chunk = @ + 1]
        <4>1. v = w  BY <3>3
        <4>2. /\ w \in Read /\ w.file = read[q].file
              /\ w.at = "chunk" /\ w.chunk = read[q].chunk + 1
          BY <2>0, ReadUpdates, Zenon
        <4> HIDE DEF w, v
        <4> QED  BY <2>2, <3>1, <3>3, <4>1, <4>2 DEF Chunk
      <3>4. CASE last /\ lastChunk
        <4> DEFINE w == [read[q] EXCEPT !.at = "validate"]
        <4>1. v = w  BY <3>4
        <4>2. /\ w \in Read /\ w.file = read[q].file
              /\ w.at = "validate"
          BY <2>0, ReadUpdates, Zenon
        <4> HIDE DEF w, v
        <4> QED  BY <2>2, <3>1, <3>4, <4>1, <4>2 DEF Chunk
      <3> QED  BY <3>2, <3>3, <3>4
    <2> HIDE DEF v
    <2>6. read'[q] = v  BY <1>0, <2>read
    <2>7. HasChunks(q)'  BY <2>2, <2>5, <2>6 DEF HasChunks
    <2>8. ASSUME q \notin overlapped  PROVE Collected(q)'
      <3>1. Len(features) = read[q].next - 1 /\ \A i \in 1 .. Len(features) : features[i] = c[i]
        BY <2>1, <2>8 DEF Collected
      <3>2. Len(features') = read[q].next /\ \A i \in 1 .. Len(features') : features'[i] = c[i]
        <4> HIDE DEF c
        <4>1. Len(features) \in Nat  BY <1>0
        <4>2. ASSUME NEW i \in 1 .. Len(features')  PROVE features'[i] = c[i]
          <5>1. CASE i \in 1 .. Len(features)  BY <2>4, <3>1, <5>1
          <5>2. CASE i = Len(features) + 1  BY <2>2, <2>4, <3>1, <5>2
          <5> QED  BY <2>4, <4>1, <5>1, <5>2
        <4> QED  BY <2>2, <2>4, <3>1, <4>1, <4>2, SMTT(30)
      <3>3. CASE v.at = "feature"
        <4>1. Chunk(q)' = c  BY <2>5, <2>6, <3>3 DEF Chunk
        <4> HIDE DEF c
        <4> QED  BY <2>2, <2>5, <2>6, <3>2, <3>3, <4>1 DEF Collected
      <3>4. CASE v.at = "validate"
        <4>1. LastChunk(q)' = c  BY <2>5, <2>6, <3>4 DEF LastChunk, Chunk
        <4>2. features' = c  BY <2>2, <2>4, <2>5, <3>2, <3>4, SeqEqual
        <4> HIDE DEF c
        <4> QED  BY <2>6, <3>4, <4>1, <4>2 DEF Collected
      <3>5. CASE v.at = "chunk"  BY <2>6, <3>5 DEF Collected
      <3> QED  BY <2>5, <3>3, <3>4, <3>5
    <2> QED  BY <1>own, <2>1, <2>read, <2>4, <2>5, <2>7, <2>8 DEF Busy
  <1>4. ASSUME NEW q \in Readers, ReadFails(q)  PROVE AloneInv'
    <2> DEFINE v == [read[q] EXCEPT !.at = "failed"]
    <2>1. v \in Read /\ v.at = "failed"  BY <1>0 DEF Read
    <2>2. read' = [read EXCEPT ![q] = v] /\ features' = features /\ overlapped' = overlapped
      BY <1>0, <1>4 DEF ReadFails
    <2>3. Busy(q)  BY <1>4 DEF ReadFails, Busy
    <2> HIDE DEF v
    <2>4. read'[q] = v  BY <1>0, <2>2
    <2>5. HasChunks(q)' /\ Collected(q)'  BY <2>1, <2>4 DEF HasChunks, Collected
    <2> QED  BY <1>0, <1>own, <2>1, <2>2, <2>3, <2>5
  <1>5. ASSUME NEW q \in Readers, ValidateProductFeature(q)  PROVE AloneInv'
    <2> DEFINE v == [read[q] EXCEPT !.at = "answered", !.result = Judgement(features)]
    <2>1. v \in Read /\ v.at = "answered" /\ v.file = read[q].file /\ v.result = Judgement(features)
      BY <1>0, JudgementType DEF Read
    <2>2. /\ read[q].at = "validate" /\ features' = features /\ overlapped' = overlapped
          /\ read' = [read EXCEPT ![q] = v]
      <3>1. read' = [read EXCEPT ![q].at = "answered", ![q].result = Judgement(features)]
        BY <1>5 DEF ValidateProductFeature
      <3> QED  BY <1>0, <1>5, <3>1 DEF ValidateProductFeature, Read
    <2> HIDE DEF v
    <2>3. read'[q] = v  BY <1>0, <2>2
    <2>4. HasChunks(q)'  BY <2>1, <2>2, <2>3 DEF HasChunks
    <2>5. q \notin overlapped => Collected(q)'
      BY <2>1, <2>2, <2>3 DEF Collected, LastChunk
    <2> QED  BY <1>0, <1>own, <2>1, <2>2, <2>4, <2>5 DEF Busy
  <1>6. ASSUME NEW q \in Readers, Forget(q)  PROVE AloneInv'
    <2>1. NoRead \in Read /\ NoRead.at = "idle"  BY DEF NoRead, Read
    <2>2. read' = [read EXCEPT ![q] = NoRead] /\ features' = features /\ overlapped' = overlapped
      BY <1>6 DEF Forget
    <2>3. read'[q] = NoRead /\ \A r \in Readers : r # q => read'[r] = read[r]  BY <1>0, <2>2
    <2>4. TypeOK'
      <3>1. read' \in [Readers -> Read]  BY <1>0, <2>1, <2>2
      <3> QED  BY <1>0, <2>1, <2>2, <2>3, <3>1 DEF TypeOK
    <2>5. OverlapsKnown'  BY <2>1, <2>2, <2>3 DEF OverlapsKnown, Busy
    <2>6. ASSUME NEW r \in Readers  PROVE HasChunks(r)' /\ (r \notin overlapped' => Collected(r)')
      <3>1. CASE r = q  BY <2>1, <2>3, <3>1 DEF HasChunks, Collected
      <3>2. CASE r # q
        BY <2>2, <2>3, <3>2 DEF HasChunks, Collected, Chunk, LastChunk
      <3> QED  BY <3>1, <3>2
    <2> QED  BY <2>4, <2>5, <2>6
  <1>7. CASE UNCHANGED vars
    BY <1>7 DEF vars, TypeOK, OverlapsKnown, Busy, HasChunks, Collected, Chunk, LastChunk
  <1> QED  BY <1>1, <1>2, <1>3, <1>4, <1>5, <1>6, <1>7 DEF Next

(* ProductManager.read: a read that was alone from start to end judges the *)
(* last chunk of its own file, for every history of reads before it.       *)
THEOREM ExactnessWhenAlone == Spec => []ExactWhenAlone
  <1>1. AloneInv => ExactWhenAlone  BY DEF AloneInv, ExactWhenAlone, Collected, LastChunk
  <1> QED  BY <1>1, AloneInit, AloneStep, PTL DEF Spec

(* The records of reads are well-typed: no chunk and no feature is asked   *)
(* for that the shapefile does not have.                                   *)
THEOREM ReadsTypeCorrect == Spec => []TypeOK
  <1>1. AloneInv => TypeOK  BY DEF AloneInv
  <1> QED  BY <1>1, AloneInit, AloneStep, PTL DEF Spec

OneReader == \A r, q \in Readers : r = q
NothingOverlaps == overlapped = {}

(* With one read at a time nothing overlaps.                               *)
LEMMA NoOverlap == OneReader /\ NothingOverlaps /\ [Next]_vars => NothingOverlaps'
  <1> SUFFICES ASSUME OneReader, overlapped = {}, [Next]_vars PROVE overlapped' = {}
    BY DEF NothingOverlaps
  <1>1. ASSUME NEW r \in Readers, NEW f \in Files, StartRead(r, f)  PROVE overlapped' = {}
    <2>1. {q \in Readers \ {r} : Busy(q)} = {}  BY DEF OneReader
    <2> QED  BY <1>1, <2>1 DEF StartRead
  <1>2. ASSUME NEW r \in Readers, BeginChunk(r) \/ PushFeature(r) \/ ReadFails(r) \/
               ValidateProductFeature(r) \/ Forget(r)
        PROVE  overlapped' = {}
    BY <1>2 DEF BeginChunk, PushFeature, ReadFails, ValidateProductFeature, Forget
  <1> QED  BY <1>1, <1>2 DEF Next, vars

(* "reset features array before each process": with one read at a time a   *)
(* request gets a feature of the file it asked for, which two overlapping  *)
(* reads do not (the run doc_product_mixed).                               *)
THEOREM OneReaderReturnsItsOwn == OneReader /\ Spec => []ReturnsOwnProduct
  <1>1. AloneInv /\ NothingOverlaps => ReturnsOwnProduct
    <2> SUFFICES ASSUME AloneInv, NothingOverlaps, NEW r \in Readers,
                        read[r].at = "answered", read[r].result # Invalid
                 PROVE  read[r].result \in FeaturesOf(read[r].file)
      BY DEF ReturnsOwnProduct
    <2> DEFINE f == read[r].file
    <2>1. f \in Files /\ Len(f) > 0 /\ read[r].result = Judgement(f[Len(f)])
      BY DEF AloneInv, NothingOverlaps, HasChunks, Collected, LastChunk
    <2>2. Len(f[Len(f)]) = 1 /\ read[r].result = f[Len(f)][1]  BY <2>1 DEF Judgement
    <2>3. Len(f) \in DOMAIN f /\ 1 \in DOMAIN f[Len(f)]  BY <2>1, <2>2, ChunkTypes
    <2> QED  BY <2>2, <2>3 DEF FeaturesOf
  <1>2. Init => NothingOverlaps  BY DEF Init, NothingOverlaps
  <1>3. OneReader => (NothingOverlaps /\ [Next]_vars => NothingOverlaps')  BY NoOverlap
  <1>4. CASE OneReader  BY <1>1, <1>2, <1>3, <1>4, AloneInit, AloneStep, PTL DEF Spec
  <1> QED  BY <1>4
=============================================================================
