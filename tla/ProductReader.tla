----------------------------- MODULE ProductReader -----------------------------
(***************************************************************************)
(* ProductManager.read (src/ingestion/models/productManager.ts): the       *)
(* product shapefile is read in chunks, the features of a chunk are        *)
(* collected in the field `features`, and the field is validated when the  *)
(* reader is done.  The manager is one object for all requests, so reads   *)
(* that overlap share the field.                                           *)
(***************************************************************************)
EXTENDS Naturals, Sequences

CONSTANTS
    Readers,    \* the reads that may be in flight
    Files,      \* product shapefiles: sequences of chunks, a chunk a sequence of features
    Features,
    Invalid     \* the outcome of a read that throws

ASSUME ReaderAssumption ==
    /\ Files \subseteq Seq(Seq(Features) \ {<<>>})
    /\ Invalid \notin Features

VARIABLES
    features,   \* the field of the manager
    read,       \* the reads in flight
    overlapped  \* history: the reads that were not alone from start to end

vars == <<features, read, overlapped>>

Read == [at : {"idle", "chunk", "feature", "validate", "answered", "failed"},
         file : Files \cup {<<>>}, chunk : Nat, next : Nat, result : Features \cup {Invalid}]

NoRead == [at |-> "idle", file |-> <<>>, chunk |-> 1, next |-> 1, result |-> Invalid]

Busy(r) == read[r].at \in {"chunk", "feature", "validate"}

TypeOK ==
    /\ features \in Seq(Features)
    /\ read \in [Readers -> Read]
    /\ \A r \in Readers :
          /\ read[r].at \in {"chunk", "feature"} => read[r].chunk \in DOMAIN read[r].file
          /\ read[r].at = "feature" => read[r].next \in DOMAIN read[r].file[read[r].chunk]
    /\ overlapped \in SUBSET Readers

Init ==
    /\ features = <<>>
    /\ read = [r \in Readers |-> NoRead]
    /\ overlapped = {}

-----------------------------------------------------------------------------
(* readAndProcess is called; a shapefile without features is refused.      *)
StartRead(r, f) ==
    /\ read[r].at = "idle"
    /\ read' = [read EXCEPT ![r] = [NoRead EXCEPT !.file = f,
                                      !.at = IF f = <<>> THEN "failed" ELSE "chunk"]]
    /\ overlapped' = LET others == {q \in Readers \ {r} : Busy(q)} IN
                     IF others = {} THEN overlapped \ {r} ELSE overlapped \cup others \cup {r}
    /\ UNCHANGED features

(* mutant: the features of the chunk before stay                           *)
BeginChunkKeep(r) ==
    /\ read[r].at = "chunk"
    /\ read' = [read EXCEPT ![r].at = "feature", ![r].next = 1]
    /\ UNCHANGED <<features, overlapped>>

(* process, up to the first await of its loop: the field is reset.         *)
BeginChunk(r) ==
    /\ read[r].at = "chunk"
    /\ features' = IF Len(features) > 0 THEN <<>> ELSE features
    /\ read' = [read EXCEPT ![r].at = "feature", ![r].next = 1]
    /\ UNCHANGED overlapped

(* mutant: the reader goes on after the last chunk                         *)
PushFeatureOn(r) ==
    /\ read[r].at = "feature"
    /\ LET chunk == read[r].file[read[r].chunk] IN
       /\ features' = Append(features, chunk[read[r].next])
       /\ read' = [read EXCEPT ![r] =
                     IF read[r].next # Len(chunk) THEN [read[r] EXCEPT !.next = @ + 1]
                     ELSE [read[r] EXCEPT !.at = "chunk", !.chunk = @ + 1]]
    /\ UNCHANGED overlapped

(* One turn of the loop of process; after the last feature the reader goes *)
(* on to the next chunk.                                                   *)
PushFeature(r) ==
    /\ read[r].at = "feature"
    /\ LET chunk == read[r].file[read[r].chunk]
           lastFeature == read[r].next = Len(chunk)
           lastChunk == read[r].chunk = Len(read[r].file) IN
       /\ features' = Append(features, chunk[read[r].next])
       /\ read' = [read EXCEPT ![r] =
                     CASE ~lastFeature -> [read[r] EXCEPT !.next = @ + 1]
                       [] lastFeature /\ ~lastChunk -> [read[r] EXCEPT !.at = "chunk", !.chunk = @ + 1]
                       [] OTHER -> [read[r] EXCEPT !.at = "validate"]]
    /\ UNCHANGED overlapped

(* The reader fails between two chunks; the field keeps what it holds.     *)
ReadFails(r) ==
    /\ read[r].at = "chunk"
    /\ read' = [read EXCEPT ![r].at = "failed"]
    /\ UNCHANGED <<features, overlapped>>

(* The schema wants exactly one feature.                                   *)
Judgement(fs) == IF Len(fs) = 1 THEN fs[1] ELSE Invalid

(* validateProductFeature: the field is validated, whatever it holds.      *)
ValidateProductFeature(r) ==
    /\ read[r].at = "validate"
    /\ read' = [read EXCEPT ![r].at = "answered", ![r].result = Judgement(features)]
    /\ UNCHANGED <<features, overlapped>>

(* The read returned or threw; its slot is free again.                     *)
Forget(r) ==
    /\ read[r].at \in {"answered", "failed"}
    /\ read' = [read EXCEPT ![r] = NoRead]
    /\ UNCHANGED <<features, overlapped>>

Next ==
    \E r \in Readers :
        \/ \E f \in Files : StartRead(r, f)
        \/ BeginChunk(r)
        \/ PushFeature(r)
        \/ ReadFails(r)
        \/ ValidateProductFeature(r)
        \/ Forget(r)

Spec == Init /\ [][Next]_vars

-----------------------------------------------------------------------------
FeaturesOf(f) == UNION {{f[c][n] : n \in DOMAIN f[c]} : c \in DOMAIN f}

(* A read that was alone from start to end judges the last chunk of its    *)
(* own file and nothing else, whatever earlier reads, failed ones too,     *)
(* left in the field.                                                      *)
ExactWhenAlone ==
    \A r \in Readers :
        read[r].at = "answered" /\ r \notin overlapped =>
            read[r].result = Judgement(read[r].file[Len(read[r].file)])

(* "reset features array before each process": the geometry a read returns *)
(* is that of a feature of the file it was asked to read.                  *)
ReturnsOwnProduct ==
    \A r \in Readers :
        read[r].at = "answered" /\ read[r].result # Invalid =>
            read[r].result \in FeaturesOf(read[r].file)
=============================================================================
