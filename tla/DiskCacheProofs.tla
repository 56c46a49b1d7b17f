-------------------------- MODULE DiskCacheProofs --------------------------
(***************************************************************************)
(* A hit reads the beginning of its own file, for any number of assets,    *)
(* requests, chunks and answers.  HitsReadOwnFile is not inductive: the    *)
(* bodies in memory, and the copies requests hold of them, must be known   *)
(* to come from the file as well.                                          *)
(***************************************************************************)
EXTENDS DiskCache, TLAPS

IInv == TypeOK /\ FilesHoldOwnChunks /\ MemoryFromFile /\ RequestsFromFile /\ OpenFileExists

USE DEF disk

(* Appending one element to a sequence, what a background write does.      *)
LEMMA AppendFacts ==
  ASSUME NEW S, NEW s \in Seq(S), NEW e \in S
  PROVE  /\ Append(s, e) \in Seq(S)
         /\ Len(Append(s, e)) = Len(s) + 1
         /\ \A i \in 1 .. Len(s) : Append(s, e)[i] = s[i]
         /\ Append(s, e)[Len(s) + 1] = e
  OBVIOUS

(* Whatever began a file still begins it after a chunk has landed. *)
LEMMA BeginsWithAppended ==
  ASSUME NEW S, NEW s \in Seq(S), NEW e \in S, NEW t \in Seq(S), BeginsWith(s, t)
  PROVE  BeginsWith(Append(s, e), t)
<1>1. Len(t) \in Nat /\ Len(s) \in Nat
  OBVIOUS
<1> QED
  BY <1>1, AppendFacts DEF BeginsWith

(* read_body extends what was read by the next chunk of the target. *)
LEMMA BeginsWithNext ==
  ASSUME NEW S, NEW s \in Seq(S), NEW t \in Seq(S), BeginsWith(s, t), Len(t) # Len(s)
  PROVE  /\ s[Len(t) + 1] \in S
         /\ BeginsWith(s, Append(t, s[Len(t) + 1]))
<1>1. Len(t) \in Nat /\ Len(s) \in Nat /\ Len(t) + 1 \in 1 .. Len(s)
  BY DEF BeginsWith
<1>2. s[Len(t) + 1] \in S
  BY <1>1
<1>3. \A i \in 1 .. Len(t) + 1 : i \in 1 .. Len(t) \/ i = Len(t) + 1
  BY <1>1
<1> QED
  BY <1>1, <1>2, <1>3, AppendFacts DEF BeginsWith

(* The beginning of a beginning is a beginning. *)
LEMMA BeginsWithTrans ==
  ASSUME NEW S, NEW s \in Seq(S), NEW t \in Seq(S), NEW u \in Seq(S),
         BeginsWith(s, t), BeginsWith(t, u)
  PROVE  BeginsWith(s, u)
<1>1. Len(s) \in Nat /\ Len(t) \in Nat /\ Len(u) \in Nat
  OBVIOUS
<1> QED
  BY <1>1 DEF BeginsWith

LEMMA BeginsWithEmpty ==
  ASSUME NEW S, NEW s \in Seq(S)
  PROVE  <<>> \in Seq(S) /\ BeginsWith(s, <<>>)
  BY DEF BeginsWith

(* What a request's phase says of its type. *)
LEMMA RequestKinds ==
  ASSUME TypeOK, NEW r \in Requests
  PROVE  /\ InPhase(r, "hit") \/ InPhase(r, "expired") => request[r] \in Hit
         /\ InPhase(r, "fetch") => request[r] \in Miss
         /\ InPhase(r, "write") => request[r] \in Write
  BY DEF TypeOK, InPhase, Hit, Miss, Write

(* A request whose record is replaced by one of the right type, with       *)
(* nothing else changed but freshness, metadata and counters.              *)
LEMMA ReplaceRequest ==
  ASSUME IInv, NEW r \in Requests, NEW q \in Hit \cup Miss \cup Write \cup {None},
         Becomes(r, q), UNCHANGED file, created \subseteq created',
         q \in Hit =>
           /\ BeginsWith(IF q.from = "memory" THEN q.body ELSE file[q.key], q.read)
           /\ BeginsWith(file[q.key], q.body),
         q \in Write /\ q.open => q.key \in created' /\ q.written < Chunks
  PROVE  /\ request' \in [Requests -> Hit \cup Miss \cup Write \cup {None}]
         /\ RequestsFromFile'
         /\ OpenFileExists'
<1>1. /\ request' \in [Requests -> Hit \cup Miss \cup Write \cup {None}]
      /\ request'[r] = q
      /\ \A p \in Requests \ {r} : request'[p] = request[p]
  BY DEF IInv, TypeOK, Becomes
<1>2. ASSUME NEW p \in Requests, InPhase(p, "hit")' \/ InPhase(p, "expired")'
      PROVE  /\ BeginsWith(Target(p)', request'[p].read)
             /\ BeginsWith(file'[request'[p].key], request'[p].body)
  <2>1. CASE p = r
    <3>1. q \in Hit
      BY <1>1, <1>2, <2>1, NoneFresh DEF InPhase, Hit, Miss, Write
    <3> QED
      BY <1>1, <2>1, <3>1 DEF Target
  <2>2. CASE p # r
    BY <1>1, <1>2, <2>2 DEF IInv, RequestsFromFile, InPhase, Target
  <2> QED
    BY <2>1, <2>2
<1>3. ASSUME NEW p \in Requests, Writing(p)', request'[p].open
      PROVE  request'[p].key \in created' /\ request'[p].written < Chunks
  <2>1. CASE p = r
    <3>1. q \in Write
      BY <1>1, <1>3, <2>1, NoneFresh DEF Writing, InPhase, Hit, Miss, Write
    <3> QED
      BY <1>1, <1>3, <2>1, <3>1
  <2>2. CASE p # r
    BY <1>1, <1>3, <2>2 DEF IInv, OpenFileExists, Writing, InPhase
  <2> QED
    BY <2>1, <2>2
<1> QED
  BY <1>1, <1>2, <1>3 DEF RequestsFromFile, OpenFileExists

LEMMA KindsApart == \A q \in Hit \cup Miss \cup {None} : q \notin Write
  BY NoneFresh DEF Hit, Miss, Write

(* The counters' and the metadata's part of a fetched answer. *)
LEMMA AnswerTypes ==
  ASSUME TypeOK, NEW k \in Keys, NextAnswer, WriteMetadata(k)
  PROVE  /\ fetches' \in Answers
         /\ fetches' \in 0 .. MaxFetches
         /\ fresh' \in SUBSET (1 .. fetches')
         /\ metadata' \in [Keys -> 0 .. MaxFetches]
<1>1. fetches' \in Answers /\ fetches' \in 0 .. MaxFetches /\ fresh' \in SUBSET (1 .. fetches')
  BY MaxFetchesType DEF TypeOK, NextAnswer, Answers
<1>2. metadata \in [Keys -> 0 .. MaxFetches]
  BY DEF TypeOK
<1> QED
  BY <1>1, <1>2 DEF WriteMetadata

(* The initial state: no files, nothing in memory. *)
LEMMA InvInit == Init => IInv
<1> SUFFICES ASSUME Init PROVE IInv
  OBVIOUS
<1>1. TypeOK
  BY MaxFetchesType, BeginsWithEmpty DEF Init, TypeOK
<1>2. FilesHoldOwnChunks
  BY DEF Init, FilesHoldOwnChunks
<1>3. MemoryFromFile /\ RequestsFromFile
  BY DEF Init, MemoryFromFile, RequestsFromFile, InPhase
<1>4. OpenFileExists
  BY DEF Init, OpenFileExists, Writing, InPhase
<1> QED
  BY <1>1, <1>2, <1>3, <1>4 DEF IInv

(* Lookups: the request starts to read a body that comes from its file. *)
LEMMA LookupStep ==
  ASSUME IInv, NEW r \in Requests, Lookup(r)
  PROVE  IInv'
<1> PICK k \in Keys : LookupMemory(r, k) \/ LookupDisk(r, k) \/ LookupMisses(r, k)
  BY DEF Lookup
<1>1. UNCHANGED <<disk, metadata, memory, fetches, fresh>>
  BY DEF LookupMemory, LookupDisk, LookupMisses
<1>2. \E q \in Hit \cup Miss \cup {None} :
        /\ Becomes(r, q)
        /\ q \in Hit =>
             /\ BeginsWith(IF q.from = "memory" THEN q.body ELSE file[q.key], q.read)
             /\ BeginsWith(file[q.key], q.body)
  <2>1. file[k] \in Seq(Chunk) /\ BeginsWith(file[k], <<>>) /\ <<>> \in Seq(Chunk)
    BY BeginsWithEmpty DEF IInv, TypeOK
  <2>2. CASE LookupMemory(r, k)
    <3> DEFINE q == [phase |-> HitFilter(memory[k].meta), key |-> k, from |-> "memory",
                     meta |-> memory[k].meta, body |-> memory[k].body, read |-> <<>>]
    <3>1. memory[k] \in Entry
      BY <2>2 DEF IInv, TypeOK, LookupMemory
    <3>2. memory[k].meta \in Answers /\ memory[k].body \in Seq(Chunk)
      BY <3>1 DEF Entry
    <3>3. BeginsWith(file[k], memory[k].body)
      BY <2>2 DEF IInv, MemoryFromFile, LookupMemory
    <3>4. HitFilter(memory[k].meta) \in {"hit", "expired"}
      BY DEF HitFilter
    <3>5. q \in Hit
      BY <2>1, <3>2, <3>4 DEF Hit
    <3>6. BeginsWith(memory[k].body, <<>>)
      BY <3>2, BeginsWithEmpty
    <3>7. Becomes(r, q)
      BY <2>2 DEF LookupMemory
    <3> QED
      BY <3>3, <3>5, <3>6, <3>7
  <2>3. CASE LookupDisk(r, k)
    <3> DEFINE q == [phase |-> HitFilter(metadata[k]), key |-> k, from |-> "disk",
                     meta |-> metadata[k], body |-> <<>>, read |-> <<>>]
    <3>1. metadata[k] \in Answers
      BY <2>3, MaxFetchesType DEF IInv, TypeOK, LookupDisk, Answers
    <3>2. HitFilter(metadata[k]) \in {"hit", "expired"}
      BY DEF HitFilter
    <3>3. q \in Hit
      BY <2>1, <3>1, <3>2 DEF Hit
    <3>4. Becomes(r, q)
      BY <2>3 DEF LookupDisk
    <3> QED
      BY <2>1, <3>3, <3>4
  <2>4. CASE LookupMisses(r, k)
    <3> DEFINE q == [phase |-> "fetch", key |-> k]
    <3>1. q \in Miss /\ Becomes(r, q)
      BY <2>4 DEF LookupMisses, Miss
    <3>2. q \notin Hit
      BY DEF Hit
    <3> QED
      BY <3>1, <3>2
  <2> QED
    BY <2>2, <2>3, <2>4
<1>3. request' \in [Requests -> Hit \cup Miss \cup Write \cup {None}] /\ RequestsFromFile'
      /\ OpenFileExists'
  BY <1>1, <1>2, KindsApart, ReplaceRequest
<1> QED
  BY <1>1, <1>3 DEF IInv, TypeOK, FilesHoldOwnChunks, MemoryFromFile

(* A step that only ends a request. *)
LEMMA EndStep ==
  ASSUME IInv, NEW r \in Requests, Becomes(r, None),
         UNCHANGED <<disk, metadata, memory, fetches, fresh>>
  PROVE  IInv'
<1>1. None \notin Hit
  BY NoneFresh
<1>2. request' \in [Requests -> Hit \cup Miss \cup Write \cup {None}] /\ RequestsFromFile'
      /\ OpenFileExists'
  BY <1>1, KindsApart, ReplaceRequest
<1> QED
  BY <1>2 DEF IInv, TypeOK, FilesHoldOwnChunks, MemoryFromFile

(* read_body *)
LEMMA ReadStep ==
  ASSUME IInv, NEW r \in Requests, ReadBody(r)
  PROVE  IInv'
<1> DEFINE q == [request[r] EXCEPT !.read = Append(@, Target(r)[Len(@) + 1])]
<1>1. request[r] \in Hit /\ BeginsWith(Target(r), request[r].read)
      /\ BeginsWith(file[request[r].key], request[r].body)
  BY RequestKinds DEF IInv, RequestsFromFile, ReadBody
<1>2. Target(r) \in Seq(Chunk) /\ request[r].read \in Seq(Chunk)
  BY <1>1 DEF IInv, TypeOK, Target, Hit
<1>3. Len(request[r].read) # Len(Target(r))
  BY DEF ReadBody, AtEnd
<1>4. /\ Target(r)[Len(request[r].read) + 1] \in Chunk
      /\ BeginsWith(Target(r), Append(request[r].read, Target(r)[Len(request[r].read) + 1]))
  BY <1>1, <1>2, <1>3, BeginsWithNext
<1>5. Append(request[r].read, Target(r)[Len(request[r].read) + 1]) \in Seq(Chunk)
  BY <1>2, <1>4
<1>6. q \in Hit /\ q.read = Append(request[r].read, Target(r)[Len(request[r].read) + 1])
      /\ q.key = request[r].key /\ q.body = request[r].body /\ q.from = request[r].from
  BY <1>1, <1>5 DEF Hit
<1>7. Becomes(r, q) /\ UNCHANGED <<disk, metadata, memory, fetches, fresh>>
  BY DEF ReadBody, Becomes
<1> HIDE DEF q
<1>8. request' \in [Requests -> Hit \cup Miss \cup Write \cup {None}] /\ RequestsFromFile'
      /\ OpenFileExists'
  BY <1>1, <1>4, <1>6, <1>7, KindsApart, ReplaceRequest DEF Target
<1> QED
  BY <1>7, <1>8 DEF IInv, TypeOK, FilesHoldOwnChunks, MemoryFromFile

(* finish of a hit: what was read from disk goes to memory. *)
LEMMA FinishHitStep ==
  ASSUME IInv, NEW r \in Requests, FinishHit(r)
  PROVE  IInv'
<1>1. CASE UNCHANGED memory
  BY <1>1, EndStep DEF FinishHit
<1>2. CASE request[r].from = "disk" /\ Remember(request[r].key, request[r].meta, request[r].read)
  <2>1. request[r] \in Hit /\ BeginsWith(file[request[r].key], request[r].read)
    BY <1>2, RequestKinds DEF IInv, RequestsFromFile, FinishHit, Target
  <2>2. [meta |-> request[r].meta, body |-> request[r].read] \in Entry
    BY <2>1 DEF Hit, Entry
  <2>3. memory' \in [Keys -> Entry \cup {None}]
    BY <1>2, <2>1, <2>2 DEF IInv, TypeOK, Remember, Hit
  <2>4. UNCHANGED <<disk, metadata, fetches, fresh>>
    BY DEF FinishHit
  <2>5. MemoryFromFile'
    BY <1>2, <2>1, <2>4 DEF IInv, TypeOK, MemoryFromFile, Remember, Hit
  <2>6. None \notin Hit /\ Becomes(r, None)
    BY NoneFresh DEF FinishHit
  <2>7. request' \in [Requests -> Hit \cup Miss \cup Write \cup {None}] /\ RequestsFromFile'
        /\ OpenFileExists'
    BY <2>4, <2>6, KindsApart, ReplaceRequest
  <2> QED
    BY <2>3, <2>4, <2>5, <2>7 DEF IInv, TypeOK, FilesHoldOwnChunks
<1> QED
  BY <1>1, <1>2 DEF FinishHit

(* update_meta after a revalidation. *)
LEMMA UpdateMetaStep ==
  ASSUME IInv, NEW r \in Requests, UpdateMeta(r)
  PROVE  IInv'
<1> DEFINE q == [request[r] EXCEPT !.phase = "hit"]
<1>1. request[r] \in Hit /\ BeginsWith(Target(r), request[r].read)
      /\ BeginsWith(file[request[r].key], request[r].body)
  BY RequestKinds DEF IInv, RequestsFromFile, UpdateMeta
<1>2. q \in Hit /\ q.read = request[r].read /\ q.key = request[r].key
      /\ q.body = request[r].body /\ q.from = request[r].from
  BY <1>1 DEF Hit
<1>3. Becomes(r, q) /\ UNCHANGED <<disk, memory>>
  BY DEF UpdateMeta
<1> HIDE DEF q
<1>4. request' \in [Requests -> Hit \cup Miss \cup Write \cup {None}] /\ RequestsFromFile'
      /\ OpenFileExists'
  BY <1>1, <1>2, <1>3, KindsApart, ReplaceRequest DEF Target
<1>5. request[r].key \in Keys
  BY <1>1 DEF Hit
<1>6. /\ fetches' \in 0 .. MaxFetches
      /\ fresh' \in SUBSET (1 .. fetches')
      /\ metadata' \in [Keys -> 0 .. MaxFetches]
  BY <1>5, AnswerTypes DEF IInv, UpdateMeta
<1> QED
  BY <1>3, <1>4, <1>6 DEF IInv, TypeOK, FilesHoldOwnChunks, MemoryFromFile

(* get_miss_handler *)
LEMMA GetMissHandlerStep ==
  ASSUME IInv, NEW r \in Requests, GetMissHandler(r)
  PROVE  IInv'
<1> DEFINE q == [phase |-> "write", key |-> request[r].key, answer |-> fetches', written |-> 0,
                 open |-> FALSE]
<1>1. request[r].key \in Keys
  BY RequestKinds DEF IInv, GetMissHandler, Hit, Miss
<1>2. /\ fetches' \in Answers
      /\ fetches' \in 0 .. MaxFetches
      /\ fresh' \in SUBSET (1 .. fetches')
      /\ metadata' \in [Keys -> 0 .. MaxFetches]
  BY <1>1, AnswerTypes DEF IInv, GetMissHandler
<1>3. q \in Write /\ q \notin Hit /\ ~q.open
  BY <1>1, <1>2, ChunksType DEF Write, Hit
<1>4. Becomes(r, q) /\ UNCHANGED <<disk, memory>>
  BY DEF GetMissHandler
<1> HIDE DEF q
<1>5. request' \in [Requests -> Hit \cup Miss \cup Write \cup {None}] /\ RequestsFromFile'
      /\ OpenFileExists'
  BY <1>3, <1>4, KindsApart, ReplaceRequest
<1> QED
  BY <1>2, <1>4, <1>5 DEF IInv, TypeOK, FilesHoldOwnChunks, MemoryFromFile

(* write_to_file opens the file, then hands the chunk over. *)
LEMMA OpenFileStep ==
  ASSUME IInv, NEW r \in Requests, OpenFile(r)
  PROVE  IInv'
<1> DEFINE q == [request[r] EXCEPT !.open = TRUE]
<1>1. request[r] \in Write /\ request[r].written < Chunks
  BY RequestKinds DEF IInv, OpenFile
<1>2. q \in Write /\ q.key = request[r].key /\ q.written = request[r].written /\ q.key \in Keys
  BY <1>1 DEF Write
<1>3. /\ Becomes(r, q) /\ created' = created \cup {q.key}
      /\ UNCHANGED <<file, landing, metadata, memory, fetches, fresh>>
  BY DEF OpenFile, Becomes
<1> HIDE DEF q
<1>4. request' \in [Requests -> Hit \cup Miss \cup Write \cup {None}] /\ RequestsFromFile'
      /\ OpenFileExists'
  BY <1>1, <1>2, <1>3, KindsApart, ReplaceRequest
<1> QED
  BY <1>2, <1>3, <1>4 DEF IInv, TypeOK, FilesHoldOwnChunks, MemoryFromFile

LEMMA WriteBodyStep ==
  ASSUME IInv, NEW r \in Requests, WriteBody(r)
  PROVE  IInv'
<1> DEFINE q == [request[r] EXCEPT !.written = @ + 1, !.open = FALSE]
<1>1. request[r] \in Write /\ request[r].written < Chunks
  BY RequestKinds DEF IInv, OpenFileExists, Writing, WriteBody
<1>2. q \in Write /\ ~q.open /\ NextChunk(r) \in Chunk
  <2>1. /\ request[r].written + 1 \in 0 .. Chunks /\ request[r].written + 1 \in 1 .. Chunks
        /\ request[r].key \in Keys /\ request[r].answer \in Answers
    BY <1>1, ChunksType DEF Write
  <2>2. NextChunk(r) \in Chunk
    BY <2>1 DEF Chunk, NextChunk
  <2>3. q \in Write /\ ~q.open
    BY <1>1, <2>1 DEF Write
  <2> QED
    BY <2>2, <2>3
<1>3. /\ Becomes(r, q) /\ landing' = landing \cup {NextChunk(r)}
      /\ UNCHANGED <<created, file, metadata, memory, fetches, fresh>>
  BY DEF WriteBody
<1> HIDE DEF q
<1>4. request' \in [Requests -> Hit \cup Miss \cup Write \cup {None}] /\ RequestsFromFile'
      /\ OpenFileExists'
  BY <1>2, <1>3, KindsApart, ReplaceRequest
<1> QED
  BY <1>2, <1>3, <1>4 DEF IInv, TypeOK, FilesHoldOwnChunks, MemoryFromFile

(* What a chunk that lands does to the files. *)
LEMMA LandedFile ==
  ASSUME TypeOK, NEW c \in Chunk, file' = [file EXCEPT ![c.key] = Append(@, c)]
  PROVE  /\ c.key \in Keys
         /\ file' \in [Keys -> Seq(Chunk)]
         /\ file'[c.key] = Append(file[c.key], c)
         /\ \A k \in Keys \ {c.key} : file'[k] = file[k]
         /\ \A k \in Keys : \A i \in 1 .. Len(file'[k]) :
              \/ file'[k][i] = c /\ k = c.key
              \/ i \in 1 .. Len(file[k]) /\ file'[k][i] = file[k][i]
<1>1. c.key \in Keys
  BY DEF Chunk
<1>2. /\ file' \in [Keys -> Seq(Chunk)]
      /\ file'[c.key] = Append(file[c.key], c)
      /\ \A k \in Keys \ {c.key} : file'[k] = file[k]
  BY <1>1 DEF TypeOK
<1>3. file[c.key] \in Seq(Chunk) /\ Len(file[c.key]) \in Nat
  BY <1>1 DEF TypeOK
<1>4. ASSUME NEW i \in 1 .. Len(file'[c.key])
      PROVE  \/ file'[c.key][i] = c
             \/ i \in 1 .. Len(file[c.key]) /\ file'[c.key][i] = file[c.key][i]
  <2>1. i \in 1 .. Len(file[c.key]) \/ i = Len(file[c.key]) + 1
    BY <1>2, <1>3, AppendFacts
  <2> QED
    BY <1>2, <1>3, <2>1, AppendFacts
<1>5. ASSUME NEW k \in Keys, NEW i \in 1 .. Len(file'[k])
      PROVE  \/ file'[k][i] = c /\ k = c.key
             \/ i \in 1 .. Len(file[k]) /\ file'[k][i] = file[k][i]
  <2>1. CASE k = c.key
    BY <1>4, <2>1
  <2>2. CASE k # c.key
    BY <1>2, <2>2
  <2> QED
    BY <2>1, <2>2
<1> QED
  BY <1>1, <1>2, <1>5

(* A chunk lands: files grow at their end while others read them. *)
LEMMA ChunkLandsStep ==
  ASSUME IInv, NEW c \in Chunk, ChunkLands(c)
  PROVE  IInv'
<1>1. TypeOK /\ UNCHANGED <<created, metadata, memory, request, fetches, fresh>>
      /\ file' = [file EXCEPT ![c.key] = Append(@, c)] /\ landing' = landing \ {c}
  BY DEF IInv, ChunkLands
<1>2. /\ c.key \in Keys
      /\ file' \in [Keys -> Seq(Chunk)]
      /\ file'[c.key] = Append(file[c.key], c)
      /\ \A k \in Keys \ {c.key} : file'[k] = file[k]
      /\ \A k \in Keys : \A i \in 1 .. Len(file'[k]) :
           \/ file'[k][i] = c /\ k = c.key
           \/ i \in 1 .. Len(file[k]) /\ file'[k][i] = file[k][i]
  BY <1>1, LandedFile
<1>3. TypeOK'
  BY <1>1, <1>2 DEF TypeOK
<1>4. ASSUME NEW k \in Keys, NEW t \in Seq(Chunk), BeginsWith(file[k], t)
      PROVE  BeginsWith(file'[k], t)
  <2>1. file[k] \in Seq(Chunk)
    BY <1>1 DEF TypeOK
  <2>2. CASE k = c.key
    BY <1>2, <1>4, <2>1, <2>2, BeginsWithAppended
  <2>3. CASE k # c.key
    BY <1>2, <1>4, <2>3
  <2> QED
    BY <2>2, <2>3
<1>5. FilesHoldOwnChunks'
  BY <1>2 DEF IInv, FilesHoldOwnChunks
<1>6. MemoryFromFile'
  BY <1>1, <1>4, NoneFresh DEF IInv, TypeOK, MemoryFromFile, Entry
<1>7. RequestsFromFile'
  <2>1. ASSUME NEW p \in Requests, InPhase(p, "hit")' \/ InPhase(p, "expired")'
        PROVE  /\ BeginsWith(Target(p)', request'[p].read)
               /\ BeginsWith(file'[request'[p].key], request'[p].body)
    <3>1. request'[p] = request[p] /\ (InPhase(p, "hit") \/ InPhase(p, "expired"))
      BY <1>1, <2>1 DEF InPhase
    <3>2. request[p] \in Hit /\ BeginsWith(Target(p), request[p].read)
          /\ BeginsWith(file[request[p].key], request[p].body)
      BY <3>1, RequestKinds DEF IInv, RequestsFromFile
    <3>3. request[p].key \in Keys /\ request[p].read \in Seq(Chunk)
          /\ request[p].body \in Seq(Chunk)
      BY <3>2 DEF Hit
    <3> QED
      BY <1>4, <3>1, <3>2, <3>3 DEF Target
  <2> QED
    BY <2>1 DEF RequestsFromFile
<1>8. OpenFileExists'
  BY <1>1 DEF IInv, OpenFileExists, Writing, InPhase
<1> QED
  BY <1>3, <1>5, <1>6, <1>7, <1>8 DEF IInv

(* Every step of the cache preserves the invariant. *)
LEMMA InvStep == IInv /\ [Next]_vars => IInv'
<1> SUFFICES ASSUME IInv, [Next]_vars PROVE IInv'
  OBVIOUS
<1>1. ASSUME NEW r \in Requests, Step(r) PROVE IInv'
  <2>1. CASE ReadBody(r)
    BY <2>1, ReadStep
  <2>2. CASE FinishHit(r)
    BY <2>2, FinishHitStep
  <2>3. CASE HitDropped(r) \/ NotAdmitted(r) \/ FinishMiss(r) \/ WriteDropped(r)
    BY <2>3, EndStep DEF HitDropped, NotAdmitted, FinishMiss, WriteDropped
  <2>4. CASE UpdateMeta(r)
    BY <2>4, UpdateMetaStep
  <2>5. CASE GetMissHandler(r)
    BY <2>5, GetMissHandlerStep
  <2>6. CASE OpenFile(r) \/ WriteBody(r)
    BY <2>6, OpenFileStep, WriteBodyStep
  <2> QED
    BY <1>1, <2>1, <2>2, <2>3, <2>4, <2>5, <2>6 DEF Step
<1>2. ASSUME NEW n \in Answers, Expire(n) PROVE IInv'
  BY <1>2 DEF IInv, TypeOK, FilesHoldOwnChunks, MemoryFromFile, RequestsFromFile, OpenFileExists, Writing,
              InPhase, Target, Expire
<1>3. CASE Restart
  <2>1. TypeOK'
    BY <1>3 DEF IInv, TypeOK, Restart
  <2> QED
    BY <1>3, <2>1 DEF IInv, FilesHoldOwnChunks, MemoryFromFile, RequestsFromFile, OpenFileExists, Writing,
                      InPhase, Restart
<1>4. CASE UNCHANGED vars
  BY <1>4 DEF IInv, TypeOK, FilesHoldOwnChunks, MemoryFromFile, RequestsFromFile, OpenFileExists, Writing,
              InPhase, Target, vars
<1>5. ASSUME NEW c \in landing, ChunkLands(c) \/ ChunkLost(c) PROVE IInv'
  <2>1. c \in Chunk
    BY DEF IInv, TypeOK
  <2>2. CASE ChunkLost(c)
    BY <2>2 DEF ChunkLost, IInv, TypeOK, FilesHoldOwnChunks, MemoryFromFile, RequestsFromFile,
                OpenFileExists, Writing, InPhase, Target
  <2> QED
    BY <1>5, <2>1, <2>2, ChunkLandsStep
<1> QED
  BY <1>1, <1>2, <1>3, <1>4, <1>5, LookupStep DEF Next

(* What the invariant says of a hit. *)
LEMMA InvImplies == IInv => HitsReadOwnFile
<1> SUFFICES ASSUME IInv, NEW r \in Requests, InPhase(r, "hit")
             PROVE  /\ BeginsWith(file[request[r].key], request[r].read)
                    /\ \A i \in 1 .. Len(request[r].read) :
                         request[r].read[i].key = request[r].key
  BY DEF HitsReadOwnFile
<1>1. request[r] \in Hit /\ BeginsWith(Target(r), request[r].read)
      /\ BeginsWith(file[request[r].key], request[r].body)
  BY RequestKinds DEF IInv, RequestsFromFile
<1>2. /\ request[r].key \in Keys /\ request[r].read \in Seq(Chunk)
      /\ request[r].body \in Seq(Chunk) /\ file[request[r].key] \in Seq(Chunk)
  BY <1>1 DEF IInv, TypeOK, Hit
<1>3. BeginsWith(file[request[r].key], request[r].read)
  <2>1. CASE request[r].from = "memory"
    BY <1>1, <1>2, <2>1, BeginsWithTrans DEF Target
  <2>2. CASE request[r].from # "memory"
    BY <1>1, <2>2 DEF Target
  <2> QED
    BY <2>1, <2>2
<1>4. Len(request[r].read) \in Nat /\ Len(file[request[r].key]) \in Nat
  BY <1>2
<1> QED
  BY <1>2, <1>3, <1>4 DEF BeginsWith, IInv, FilesHoldOwnChunks

(* Every reachable state of the disk cache is well typed. *)
THEOREM CacheTypeCorrect == Spec => []TypeOK
<1>1. IInv => TypeOK
  BY DEF IInv
<1> QED
  BY <1>1, InvInit, InvStep, PTL DEF Spec

(* What a hit sends is the beginning of its own asset's file: no           *)
(* interleaving of lookups, reads, writes, expiry and restarts mixes the   *)
(* bytes of two assets, or skips or repeats any.                           *)
THEOREM HitsStayHome == Spec => []HitsReadOwnFile
  BY InvInit, InvStep, InvImplies, PTL DEF Spec

LEMMA InvAlways == Spec => []IInv
  BY InvInit, InvStep, PTL DEF Spec

-----------------------------------------------------------------------------
(***************************************************************************)
(* What is stored: each answer by one writer, and nothing served before.   *)
(***************************************************************************)
Held == ServedIsStored /\ OneWriterPerAnswer /\ StoredWasHandedOver /\ LandsOnce

(* The numbers of answers are numbers, and no writer is ahead of them. *)
LEMMA AnswerNumbers ==
  ASSUME IInv, Held
  PROVE  /\ fetches \in Nat
         /\ \A c \in Chunk : c.answer \in Nat /\ c.part \in Nat
         /\ \A k \in Keys : \A i \in 1 .. Len(file[k]) : file[k][i] \in Chunk
         /\ landing \subseteq Chunk
         /\ \A p \in Requests : Writing(p) =>
              /\ request[p] \in Write /\ request[p].key \in Keys
              /\ request[p].answer \in Nat /\ request[p].written \in Nat
              /\ request[p].answer <= fetches
<1>1. fetches \in Nat /\ \A c \in Chunk : c.answer \in Nat /\ c.part \in Nat
  BY MaxFetchesType, ChunksType DEF IInv, TypeOK, Chunk, Answers
<1>2. landing \subseteq Chunk /\ \A k \in Keys : \A i \in 1 .. Len(file[k]) : file[k][i] \in Chunk
  BY DEF IInv, TypeOK
<1>3. \A p \in Requests : Writing(p) => request[p] \in Write
  BY RequestKinds DEF IInv, Writing
<1>4. \A q \in Write : q.key \in Keys /\ q.answer \in Nat /\ q.written \in Nat
  BY MaxFetchesType, ChunksType DEF Write, Answers
<1> QED
  BY <1>1, <1>2, <1>3, <1>4 DEF Held, OneWriterPerAnswer

(* Chunks that were handed over stay so; then the files and what is to     *)
(* land need no other look at the requests.                                *)
LEMMA HeldChunks ==
  ASSUME IInv, Held, UNCHANGED disk, \A c \in Chunk : HandedOver(c) => HandedOver(c)'
  PROVE  StoredWasHandedOver' /\ LandsOnce'
<1>1. landing \subseteq Chunk /\ \A k \in Keys : \A i \in 1 .. Len(file[k]) : file[k][i] \in Chunk
  BY AnswerNumbers
<1>2. StoredWasHandedOver'
  BY <1>1 DEF Held, StoredWasHandedOver
<1>3. LandsOnce'
  BY <1>1 DEF Held, LandsOnce
<1> QED
  BY <1>2, <1>3

(* A request's record is replaced, and no file is touched. *)
LEMMA HeldReplace ==
  ASSUME IInv, Held, NEW r \in Requests, NEW q, Becomes(r, q), UNCHANGED disk,
         fetches' \in Nat, fetches <= fetches',
         \A k \in Keys : memory'[k] # None => k \in created,
         q # None /\ q.phase \in {"hit", "expired"} => q.key \in created,
         q # None /\ q.phase = "expired" => q.read = <<>>,
         q # None /\ q.phase = "write" => q.answer = fetches' /\ fetches < fetches'
  PROVE  Held'
<1>1. request'[r] = q /\ \A p \in Requests \ {r} : request'[p] = request[p]
  BY DEF IInv, TypeOK, Becomes
<1>2. /\ fetches \in Nat
      /\ \A c \in Chunk : c.answer \in Nat
      /\ \A p \in Requests : Writing(p) => request[p].answer \in Nat /\ request[p].answer <= fetches
  BY AnswerNumbers
<1>3. \A p \in Requests \ {r} : \A x : InPhase(p, x)' <=> InPhase(p, x)
  BY <1>1 DEF InPhase
<1>4. \A x : InPhase(r, x)' <=> q # None /\ q.phase = x
  BY <1>1 DEF InPhase
<1>5. ServedIsStored'
  BY <1>1, <1>3, <1>4 DEF Held, ServedIsStored
<1>6. \A p \in Requests \ {r} : Writing(p)' => Writing(p) /\ request'[p] = request[p]
  BY <1>1, <1>3 DEF Writing
<1>7. Writing(r)' => request'[r].answer = fetches' /\ fetches < fetches'
  BY <1>1, <1>4 DEF Writing
<1>8. OneWriterPerAnswer'
  <2>1. ASSUME NEW p \in Requests, Writing(p)' PROVE request'[p].answer <= fetches'
    BY <1>2, <1>6, <1>7, <2>1
  <2>2. ASSUME NEW p \in Requests, NEW s \in Requests, Writing(p)', Writing(s)', p # s
        PROVE  request'[p].answer # request'[s].answer
    BY <1>2, <1>6, <1>7, <2>2 DEF Held, OneWriterPerAnswer
  <2> QED
    BY <2>1, <2>2 DEF OneWriterPerAnswer
<1>9. ASSUME NEW c \in Chunk, HandedOver(c) PROVE HandedOver(c)'
  BY <1>2, <1>6, <1>7, <1>9 DEF HandedOver
<1> QED
  BY <1>5, <1>8, <1>9, HeldChunks DEF Held

(* A writer goes on with its answer. *)
LEMMA WriterGoesOn ==
  ASSUME IInv, Held, NEW r \in Requests, Writing(r), NEW q, Becomes(r, q), q # None,
         q.phase = "write", q.answer = request[r].answer,
         q.written \in Nat, request[r].written <= q.written,
         UNCHANGED <<file, memory, fetches>>, created \subseteq created'
  PROVE  /\ ServedIsStored'
         /\ OneWriterPerAnswer'
         /\ \A c \in Chunk : HandedOver(c) => HandedOver(c)'
         /\ StoredWasHandedOver'
<1>1. request'[r] = q /\ \A p \in Requests \ {r} : request'[p] = request[p]
  BY DEF IInv, TypeOK, Becomes
<1>2. /\ \A c \in Chunk : c.part \in Nat
      /\ request[r].written \in Nat
      /\ \A k \in Keys : \A i \in 1 .. Len(file[k]) : file[k][i] \in Chunk
  BY AnswerNumbers
<1>3. \A p \in Requests \ {r} : \A x : InPhase(p, x)' <=> InPhase(p, x)
  BY <1>1 DEF InPhase
<1>4. \A x : InPhase(r, x)' => x = "write"
  BY <1>1 DEF InPhase
<1>5. ServedIsStored'
  BY <1>1, <1>3, <1>4 DEF Held, ServedIsStored
<1>6. \A p \in Requests : Writing(p)' => Writing(p) /\ request'[p].answer = request[p].answer
  BY <1>1, <1>3 DEF Writing
<1>7. OneWriterPerAnswer'
  BY <1>6 DEF Held, OneWriterPerAnswer
<1>8. ASSUME NEW c \in Chunk, HandedOver(c) PROVE HandedOver(c)'
  <2>1. ASSUME NEW p \in Requests, Writing(p)', request'[p].answer = c.answer
        PROVE  c.part <= request'[p].written
    <3>1. c.part <= request[p].written
      BY <1>6, <1>8, <2>1 DEF HandedOver
    <3> QED
      BY <1>1, <1>2, <3>1
  <2> QED
    BY <1>8, <2>1 DEF HandedOver
<1>9. StoredWasHandedOver'
  BY <1>2, <1>8 DEF Held, StoredWasHandedOver
<1> QED
  BY <1>5, <1>7, <1>8, <1>9

LEMMA StepHeld == IInv /\ Held /\ [Next]_vars => Held'
<1> SUFFICES ASSUME IInv, Held, [Next]_vars PROVE Held'
  OBVIOUS
<1>0. /\ fetches \in Nat /\ fetches <= fetches
      /\ \A k \in Keys : memory[k] # None => k \in created
      /\ \A r \in Requests : InPhase(r, "hit") \/ InPhase(r, "expired") => request[r].key \in created
      /\ \A r \in Requests : InPhase(r, "expired") => request[r].read = <<>>
  BY MaxFetchesType DEF IInv, TypeOK, Held, ServedIsStored
(* A request ends. *)
<1>1. ASSUME NEW r \in Requests, Becomes(r, None), UNCHANGED <<disk, fetches>>,
             \A k \in Keys : memory'[k] # None => k \in created
      PROVE  Held'
  BY <1>0, <1>1, HeldReplace
<1>2. ASSUME NEW r \in Requests, Lookup(r) PROVE Held'
  <2>1. PICK k \in Keys : LookupMemory(r, k) \/ LookupDisk(r, k) \/ LookupMisses(r, k)
    BY <1>2 DEF Lookup
  <2>2. UNCHANGED <<disk, memory, fetches>>
    BY <2>1 DEF LookupMemory, LookupDisk, LookupMisses
  <2>3. \E q : /\ Becomes(r, q)
               /\ q.phase \in {"hit", "expired"} => q.key \in created
               /\ q.phase = "expired" => q.read = <<>>
               /\ q.phase # "write"
    <3>1. CASE LookupMemory(r, k)
      <4> DEFINE q == [phase |-> HitFilter(memory[k].meta), key |-> k, from |-> "memory",
                       meta |-> memory[k].meta, body |-> memory[k].body, read |-> <<>>]
      <4>1. Becomes(r, q) /\ k \in created
        BY <3>1, <1>0 DEF LookupMemory
      <4>2. q.phase # "write"
        BY DEF HitFilter
      <4> QED
        BY <4>1, <4>2
    <3>2. CASE LookupDisk(r, k)
      <4> DEFINE q == [phase |-> HitFilter(metadata[k]), key |-> k, from |-> "disk",
                       meta |-> metadata[k], body |-> <<>>, read |-> <<>>]
      <4>1. Becomes(r, q) /\ k \in created
        BY <3>2 DEF LookupDisk
      <4>2. q.phase # "write"
        BY DEF HitFilter
      <4> QED
        BY <4>1, <4>2
    <3>3. CASE LookupMisses(r, k)
      <4>1. Becomes(r, [phase |-> "fetch", key |-> k])
        BY <3>3 DEF LookupMisses
      <4> QED
        BY <4>1
    <3> QED
      BY <2>1, <3>1, <3>2, <3>3
  <2> QED
    BY <2>2, <2>3, <1>0, HeldReplace
<1>3. ASSUME NEW r \in Requests, ReadBody(r) PROVE Held'
  <2> DEFINE q == [request[r] EXCEPT !.read = Append(@, Target(r)[Len(@) + 1])]
  <2>1. request[r] \in Hit /\ request[r].phase = "hit"
    BY <1>3, RequestKinds DEF IInv, ReadBody, InPhase
  <2>2. q.phase = "hit" /\ q.key = request[r].key
    BY <2>1 DEF Hit
  <2>3. Becomes(r, q) /\ UNCHANGED <<disk, memory, fetches>>
    BY <1>3 DEF ReadBody, Becomes
  <2>4. q.key \in created
    BY <2>2, <1>0, <1>3 DEF ReadBody
  <2> HIDE DEF q
  <2> QED
    BY <2>2, <2>3, <2>4, <1>0, HeldReplace
<1>4. ASSUME NEW r \in Requests, FinishHit(r) PROVE Held'
  <2>1. Becomes(r, None) /\ UNCHANGED <<disk, fetches>> /\ InPhase(r, "hit")
    BY <1>4 DEF FinishHit
  <2>2. request[r].key \in created
    BY <2>1, <1>0
  <2>3. \A k \in Keys : memory'[k] # None => k \in created
    BY <1>0, <1>4, <2>2 DEF FinishHit, Remember, IInv, TypeOK
  <2> QED
    BY <1>1, <2>1, <2>3
<1>5. ASSUME NEW r \in Requests,
             HitDropped(r) \/ NotAdmitted(r) \/ FinishMiss(r) \/ WriteDropped(r)
      PROVE  Held'
  BY <1>0, <1>1, <1>5 DEF HitDropped, NotAdmitted, FinishMiss, WriteDropped
<1>6. ASSUME NEW r \in Requests, UpdateMeta(r) PROVE Held'
  <2> DEFINE q == [request[r] EXCEPT !.phase = "hit"]
  <2>1. request[r] \in Hit
    BY <1>6, RequestKinds DEF IInv, UpdateMeta
  <2>2. q.phase = "hit" /\ q.key = request[r].key
    BY <2>1 DEF Hit
  <2>3. Becomes(r, q) /\ UNCHANGED <<disk, memory>>
    BY <1>6 DEF UpdateMeta
  <2>4. q.key \in created
    BY <2>2, <1>0, <1>6 DEF UpdateMeta
  <2>5. fetches' \in Nat /\ fetches <= fetches'
    BY <1>0, <1>6 DEF UpdateMeta, NextAnswer
  <2> HIDE DEF q
  <2> QED
    BY <2>2, <2>3, <2>4, <2>5, <1>0, HeldReplace
<1>7. ASSUME NEW r \in Requests, GetMissHandler(r) PROVE Held'
  <2> DEFINE q == [phase |-> "write", key |-> request[r].key, answer |-> fetches', written |-> 0,
                   open |-> FALSE]
  <2>1. Becomes(r, q) /\ UNCHANGED <<disk, memory>> /\ fetches' = fetches + 1
    BY <1>7 DEF GetMissHandler, NextAnswer
  <2>2. fetches' \in Nat /\ fetches <= fetches' /\ fetches < fetches'
    BY <2>1, <1>0
  <2>3. q.phase = "write" /\ q.answer = fetches'
    OBVIOUS
  <2> HIDE DEF q
  <2> QED
    BY <2>1, <2>2, <2>3, <1>0, HeldReplace
<1>8. ASSUME NEW r \in Requests, OpenFile(r) PROVE Held'
  <2> DEFINE q == [request[r] EXCEPT !.open = TRUE]
  <2>1. Writing(r) /\ request[r] \in Write /\ request[r].written \in Nat
    BY <1>8, AnswerNumbers DEF OpenFile, Writing
  <2>2. /\ q \in Write /\ q.phase = "write" /\ q.answer = request[r].answer
        /\ q.written = request[r].written
    BY <2>1 DEF Write
  <2>3. Becomes(r, q) /\ UNCHANGED <<file, landing, memory, fetches>> /\ created \subseteq created'
    BY <1>8 DEF OpenFile, Becomes
  <2>4. q # None
    BY <2>2, NoneFresh
  <2> HIDE DEF q
  <2>5. /\ ServedIsStored' /\ OneWriterPerAnswer' /\ StoredWasHandedOver'
        /\ \A c \in Chunk : HandedOver(c) => HandedOver(c)'
    BY <2>1, <2>2, <2>3, <2>4, WriterGoesOn
  <2>6. LandsOnce'
    BY <2>3, <2>5, AnswerNumbers DEF Held, LandsOnce
  <2> QED
    BY <2>5, <2>6 DEF Held
<1>12. ASSUME NEW r \in Requests, WriteBody(r) PROVE Held'
  <2> DEFINE q == [request[r] EXCEPT !.written = @ + 1, !.open = FALSE]
  <2>0. PICK c : c = NextChunk(r)
    OBVIOUS
  <2>1. /\ Writing(r) /\ request[r] \in Write /\ request[r].written \in Nat
        /\ request[r].answer <= fetches /\ request[r].key \in created
        /\ request[r].written < Chunks /\ request[r].key \in Keys
    BY <1>12, AnswerNumbers DEF IInv, OpenFileExists, WriteBody, Writing
  <2>2. /\ q \in Write /\ q.phase = "write" /\ q.answer = request[r].answer
        /\ q.written = request[r].written + 1 /\ q.written \in Nat
        /\ request[r].written <= q.written
    <3>1. request[r].written + 1 \in 0 .. Chunks /\ request[r].written + 1 \in Nat
      BY <2>1, ChunksType
    <3>2. /\ q \in Write /\ q.phase = "write" /\ q.answer = request[r].answer
          /\ q.written = request[r].written + 1
      BY <2>1, <3>1 DEF Write
    <3> QED
      BY <2>1, <3>1, <3>2
  <2>3. Becomes(r, q) /\ UNCHANGED <<created, file, memory, fetches>> /\ landing' = landing \cup {c}
    BY <1>12, <2>0 DEF WriteBody
  <2>4. q # None
    BY <2>2, NoneFresh
  <2>5. /\ c \in Chunk /\ c.key = request[r].key /\ c.answer = request[r].answer
        /\ c.part = request[r].written + 1
    BY <2>0, <2>1, ChunksType DEF NextChunk, Chunk, Write
  <2> HIDE DEF q
  <2>6. /\ ServedIsStored' /\ OneWriterPerAnswer' /\ StoredWasHandedOver'
        /\ \A d \in Chunk : HandedOver(d) => HandedOver(d)'
    BY <2>1, <2>2, <2>3, <2>4, WriterGoesOn
  <2>7. HandedOver(c)'
    <3>1. request'[r] = q /\ \A p \in Requests \ {r} : request'[p] = request[p]
      BY <2>3 DEF IInv, TypeOK, Becomes
    <3>2. \A p \in Requests \ {r} : Writing(p)' => Writing(p) /\ request'[p].answer # c.answer
      BY <2>1, <2>5, <3>1 DEF Held, OneWriterPerAnswer, Writing, InPhase
    <3>3. c.answer <= fetches' /\ c.part <= request'[r].written
      BY <2>1, <2>2, <2>3, <2>5, <3>1
    <3> QED
      BY <3>2, <3>3 DEF HandedOver
  <2>8. \A i \in 1 .. Len(file[c.key]) : file[c.key][i] # c
    <3>1. ASSUME NEW i \in 1 .. Len(file[c.key]), file[c.key][i] = c PROVE FALSE
      <4>1. HandedOver(c)
        BY <2>1, <2>5, <3>1 DEF Held, StoredWasHandedOver
      <4>2. c.part <= request[r].written
        BY <2>1, <2>5, <4>1 DEF HandedOver
      <4> QED
        BY <2>1, <2>5, <4>2
    <3> QED
      BY <3>1
  <2>9. LandsOnce'
    <3>1. ASSUME NEW d \in landing'
          PROVE  /\ HandedOver(d)'
                 /\ d.key \in created'
                 /\ \A i \in 1 .. Len(file'[d.key]) : file'[d.key][i] # d
      <4>1. CASE d = c
        <5>1. c.key \in created'
          BY <2>1, <2>3, <2>5
        <5>2. \A i \in 1 .. Len(file'[c.key]) : file'[c.key][i] # c
          BY <2>3, <2>8
        <5> QED
          BY <2>7, <4>1, <5>1, <5>2
      <4>2. CASE d \in landing
        BY <2>3, <2>6, <4>2, AnswerNumbers DEF Held, LandsOnce
      <4> QED
        BY <2>3, <3>1, <4>1, <4>2
    <3> QED
      BY <3>1 DEF LandsOnce
  <2> QED
    BY <2>6, <2>9 DEF Held
<1>13. ASSUME NEW c \in landing, ChunkLands(c) PROVE Held'
  <2>1. c \in Chunk /\ TypeOK /\ HandedOver(c)
    BY AnswerNumbers DEF IInv, Held, LandsOnce
  <2>2. /\ UNCHANGED <<created, memory, request, fetches>>
        /\ file' = [file EXCEPT ![c.key] = Append(@, c)] /\ landing' = landing \ {c}
    BY <1>13 DEF ChunkLands
  <2>3. /\ c.key \in Keys
        /\ \A k \in Keys : \A i \in 1 .. Len(file'[k]) :
             \/ file'[k][i] = c /\ k = c.key
             \/ i \in 1 .. Len(file[k]) /\ file'[k][i] = file[k][i]
    BY <2>1, <2>2, LandedFile
  <2>4. \A d : HandedOver(d)' <=> HandedOver(d)
    BY <2>2 DEF HandedOver, Writing, InPhase
  <2>5. ServedIsStored' /\ OneWriterPerAnswer'
    BY <2>2 DEF Held, ServedIsStored, OneWriterPerAnswer, Writing, InPhase
  <2>6. StoredWasHandedOver'
    BY <2>1, <2>3, <2>4 DEF Held, StoredWasHandedOver
  <2>7. LandsOnce'
    <3>1. ASSUME NEW d \in landing \ {c}
          PROVE  HandedOver(d) /\ d.key \in created
                 /\ \A i \in 1 .. Len(file'[d.key]) : file'[d.key][i] # d
      <4>1. d.key \in Keys
        BY <2>1, AnswerNumbers DEF Chunk
      <4> QED
        BY <2>3, <4>1 DEF Held, LandsOnce
    <3> QED
      BY <2>2, <2>4, <3>1 DEF LandsOnce
  <2> QED
    BY <2>5, <2>6, <2>7 DEF Held
<1>14. ASSUME NEW c \in landing, ChunkLost(c) PROVE Held'
  BY <1>14 DEF ChunkLost, Held, ServedIsStored, OneWriterPerAnswer, StoredWasHandedOver,
               LandsOnce, HandedOver, Writing, InPhase
<1>9. ASSUME NEW n \in Answers, Expire(n) PROVE Held'
  BY <1>9 DEF Expire, Held, ServedIsStored, OneWriterPerAnswer, StoredWasHandedOver,
              LandsOnce, HandedOver, Writing, InPhase
<1>10. CASE Restart
  <2>1. /\ \A k \in Keys : memory'[k] = None
        /\ \A r \in Requests : \A x : ~InPhase(r, x)'
        /\ UNCHANGED <<file, fetches>> /\ landing' = {}
    BY <1>10 DEF Restart, InPhase
  <2>2. ServedIsStored' /\ OneWriterPerAnswer' /\ LandsOnce'
    BY <2>1 DEF ServedIsStored, OneWriterPerAnswer, LandsOnce, Writing
  <2>3. StoredWasHandedOver'
    BY <2>1 DEF Held, StoredWasHandedOver, HandedOver, Writing
  <2> QED
    BY <2>2, <2>3 DEF Held
<1>11. CASE UNCHANGED vars
  BY <1>11 DEF vars, Held, ServedIsStored, OneWriterPerAnswer, StoredWasHandedOver,
               LandsOnce, HandedOver, Writing, InPhase
<1> QED
  BY <1>2, <1>3, <1>4, <1>5, <1>6, <1>7, <1>8, <1>9, <1>10, <1>11, <1>12, <1>13, <1>14
     DEF Next, Step

LEMMA HeldAlways == Spec => []Held
<1>1. Init => Held
  BY DEF Init, Held, ServedIsStored, OneWriterPerAnswer, StoredWasHandedOver, LandsOnce,
         Writing, InPhase
<1> QED
  BY <1>1, InvAlways, StepHeld, PTL DEF Spec

-----------------------------------------------------------------------------
(***************************************************************************)
(* The refinement.                                                         *)
(***************************************************************************)

(* What a client sees of a request whose record is q. *)
Seen(q) == IF q # None /\ q.phase = "hit" THEN [key |-> q.key, sent |-> q.read] ELSE None

LEMMA StreamsSeen == \A r \in Requests : Streams[r] = Seen(request[r])
  BY DEF Streams, Seen, InPhase

LEMMA StreamsBecome ==
  ASSUME TypeOK, NEW r \in Requests, NEW q, Becomes(r, q)
  PROVE  Streams' = [Streams EXCEPT ![r] = Seen(q)]
<1>1. request'[r] = q /\ \A p \in Requests \ {r} : request'[p] = request[p]
  BY DEF TypeOK, Becomes
<1>2. Streams' = [p \in Requests |-> Seen(request'[p])]
  BY DEF Streams, Seen, InPhase
<1>3. Streams = [p \in Requests |-> Seen(request[p])]
  BY DEF Streams, Seen, InPhase
<1> QED
  BY <1>1, <1>2, <1>3

(* The record changes in a way the client does not see. *)
LEMMA StreamsUnseen ==
  ASSUME TypeOK, NEW r \in Requests, NEW q, Becomes(r, q), Seen(q) = Streams[r]
  PROVE  Streams' = Streams
<1>1. Streams' = [Streams EXCEPT ![r] = Streams[r]]
  BY StreamsBecome
<1>2. Streams = [p \in Requests |-> Streams[p]]
  BY DEF Streams
<1> QED
  BY <1>1, <1>2

(* A request that ends closes its stream, if it has one. *)
LEMMA CloseStep ==
  ASSUME TypeOK, NEW r \in Requests, Becomes(r, None), UNCHANGED <<created, file>>
  PROVE  Promise!Next
<1>1. Streams' = [Streams EXCEPT ![r] = None]
  BY StreamsBecome DEF Seen
<1>2. Streams = [p \in Requests |-> Streams[p]]
  BY DEF Streams
<1>3. Streams' = [p \in Requests |-> IF p \in {r} THEN None ELSE Streams[p]]
  BY <1>1, <1>2
<1>4. Promise!Close({r})
  BY <1>3 DEF Promise!Close
<1> QED
  BY <1>4 DEF Promise!Next

(* A request that becomes a hit opens a stream. *)
LEMMA OpenStep ==
  ASSUME TypeOK, NEW r \in Requests, NEW q, NEW k \in Keys, Becomes(r, q),
         UNCHANGED <<created, file>>, Streams[r] = None, k \in created, Seen(q) = [key |-> k, sent |-> <<>>]
  PROVE  Promise!Next
<1>1. Streams' = [Streams EXCEPT ![r] = [key |-> k, sent |-> <<>>]]
  BY StreamsBecome
<1>2. Promise!Open(r, k)
  BY <1>1 DEF Promise!Open
<1> QED
  BY <1>2 DEF Promise!Next

LEMMA StepServes == IInv /\ Held /\ [Next]_vars => [Promise!Next]_Promise!vars
<1> SUFFICES ASSUME IInv, Held, [Next]_vars PROVE [Promise!Next]_Promise!vars
  OBVIOUS
<1>0. TypeOK
  BY DEF IInv
<1>1. ASSUME UNCHANGED <<created, file, Streams>> PROVE UNCHANGED Promise!vars
  BY <1>1 DEF Promise!vars
<1>2. ASSUME NEW r \in Requests, Lookup(r) PROVE [Promise!Next]_Promise!vars
  <2>1. PICK k \in Keys : LookupMemory(r, k) \/ LookupDisk(r, k) \/ LookupMisses(r, k)
    BY <1>2 DEF Lookup
  <2>2. UNCHANGED disk /\ request[r] = None
    BY <2>1 DEF LookupMemory, LookupDisk, LookupMisses
  <2>3. Streams[r] = None
    BY <2>2, StreamsSeen DEF Seen
  <2>4. ASSUME NEW q, q \in Hit, Becomes(r, q), q.key = k, q.read = <<>>, k \in created
        PROVE  [Promise!Next]_Promise!vars
    <3>1. q # None
      BY <2>4, NoneFresh
    <3>2. CASE q.phase = "hit"
      <4>1. Seen(q) = [key |-> k, sent |-> <<>>]
        BY <2>4, <3>1, <3>2 DEF Seen
      <4> QED
        BY <4>1, <2>2, <2>3, <2>4, <1>0, OpenStep
    <3>3. CASE q.phase # "hit"
      <4>1. Seen(q) = None
        BY <3>3 DEF Seen
      <4> QED
        BY <4>1, <2>2, <2>3, <2>4, <1>0, <1>1, StreamsUnseen
    <3> QED
      BY <3>2, <3>3
  <2>5. <<>> \in Seq(Chunk)
    OBVIOUS
  <2>6. CASE LookupMemory(r, k)
    <3> DEFINE q == [phase |-> HitFilter(memory[k].meta), key |-> k, from |-> "memory",
                     meta |-> memory[k].meta, body |-> memory[k].body, read |-> <<>>]
    <3>1. memory[k] \in Entry /\ k \in created
      BY <2>6 DEF IInv, TypeOK, LookupMemory, Held, ServedIsStored
    <3>2. memory[k].meta \in Answers /\ memory[k].body \in Seq(Chunk)
      BY <3>1 DEF Entry
    <3>3. HitFilter(memory[k].meta) \in {"hit", "expired"}
      BY DEF HitFilter
    <3>4. q \in Hit
      BY <2>5, <3>2, <3>3 DEF Hit
    <3>5. Becomes(r, q)
      BY <2>6 DEF LookupMemory
    <3> QED
      BY <3>1, <3>4, <3>5, <2>4
  <2>7. CASE LookupDisk(r, k)
    <3> DEFINE q == [phase |-> HitFilter(metadata[k]), key |-> k, from |-> "disk",
                     meta |-> metadata[k], body |-> <<>>, read |-> <<>>]
    <3>1. metadata[k] \in Answers /\ k \in created
      BY <2>7, MaxFetchesType DEF IInv, TypeOK, LookupDisk, Answers
    <3>2. HitFilter(metadata[k]) \in {"hit", "expired"}
      BY DEF HitFilter
    <3>3. q \in Hit
      BY <2>5, <3>1, <3>2 DEF Hit
    <3>4. Becomes(r, q)
      BY <2>7 DEF LookupDisk
    <3> QED
      BY <3>1, <3>3, <3>4, <2>4
  <2>8. CASE LookupMisses(r, k)
    <3> DEFINE q == [phase |-> "fetch", key |-> k]
    <3>1. Becomes(r, q) /\ Seen(q) = None
      BY <2>8 DEF LookupMisses, Seen
    <3> QED
      BY <3>1, <2>2, <2>3, <1>0, <1>1, StreamsUnseen
  <2> QED
    BY <2>1, <2>6, <2>7, <2>8
<1>3. ASSUME NEW r \in Requests, ReadBody(r) PROVE Promise!Next
  <2> DEFINE k == request[r].key
             s == request[r].read
             c == Target(r)[Len(s) + 1]
             q == [request[r] EXCEPT !.read = Append(@, Target(r)[Len(@) + 1])]
  <2>1. /\ request[r] \in Hit /\ InPhase(r, "hit") /\ BeginsWith(Target(r), s)
        /\ BeginsWith(file[k], request[r].body) /\ UNCHANGED <<created, file>>
    BY <1>0, <1>3, RequestKinds DEF IInv, RequestsFromFile, ReadBody
  <2>2. /\ Target(r) \in Seq(Chunk) /\ s \in Seq(Chunk) /\ k \in Keys /\ file[k] \in Seq(Chunk)
        /\ request[r].body \in Seq(Chunk)
    BY <1>0, <2>1 DEF TypeOK, Target, Hit
  <2>3. Len(s) # Len(Target(r))
    BY <1>3 DEF ReadBody, AtEnd
  <2>4. Len(s) < Len(Target(r)) /\ Len(s) \in Nat /\ Len(Target(r)) \in Nat /\ Len(file[k]) \in Nat
    BY <2>1, <2>2, <2>3 DEF BeginsWith
  <2>5. BeginsWith(file[k], Target(r))
    BY <2>1, <2>2 DEF Target, BeginsWith
  <2>6. Len(s) < Len(file[k]) /\ c = file[k][Len(s) + 1]
    BY <2>4, <2>5 DEF BeginsWith
  <2>7. q.phase = "hit" /\ q.key = k /\ q.read = Append(s, c) /\ q \in Hit
    <3>1. c \in Chunk
      BY <2>2, <2>4
    <3>2. Append(s, c) \in Seq(Chunk)
      BY <2>2, <3>1
    <3> QED
      BY <2>1, <3>2 DEF Hit, InPhase
  <2>8. Becomes(r, q)
    BY <1>3 DEF ReadBody, Becomes
  <2>9. Seen(q) = [key |-> k, sent |-> Append(s, c)]
    BY <2>7, NoneFresh DEF Seen
  <2>10. Streams[r] = [key |-> k, sent |-> s] /\ Streams[r] # None
    <3>1. Streams[r] = [key |-> k, sent |-> s]
      BY <2>1 DEF Streams
    <3>2. [key |-> k, sent |-> s] \in Stream
      BY <2>2 DEF Stream
    <3> QED
      BY <3>1, <3>2, NoneFresh
  <2> HIDE DEF k, s, c, q
  <2>11. Streams' = [Streams EXCEPT ![r] = [key |-> k, sent |-> Append(s, c)]]
    BY <2>8, <2>9, <1>0, StreamsBecome
  <2>12. Streams[r].key = k /\ Streams[r].sent = s
    BY <2>10
  <2>13. Promise!Deliver(r)
    BY <2>1, <2>6, <2>10, <2>11, <2>12 DEF Promise!Deliver
  <2> QED
    BY <2>13 DEF Promise!Next
<1>4. ASSUME NEW r \in Requests,
             \/ FinishHit(r) \/ HitDropped(r) \/ NotAdmitted(r) \/ FinishMiss(r)
             \/ WriteDropped(r)
      PROVE  Promise!Next
  BY <1>0, <1>4, CloseStep DEF FinishHit, HitDropped, NotAdmitted, FinishMiss, WriteDropped
<1>5. ASSUME NEW r \in Requests, UpdateMeta(r) PROVE Promise!Next
  <2> DEFINE q == [request[r] EXCEPT !.phase = "hit"]
  <2>1. request[r] \in Hit /\ InPhase(r, "expired") /\ UNCHANGED disk /\ Becomes(r, q)
    BY <1>0, <1>5, RequestKinds DEF UpdateMeta
  <2>2. request[r].read = <<>> /\ request[r].key \in created /\ request[r].key \in Keys
    BY <2>1 DEF Held, ServedIsStored, Hit
  <2>3. q \in Hit /\ q.phase = "hit" /\ q.key = request[r].key /\ q.read = <<>>
    BY <2>1, <2>2 DEF Hit
  <2>4. Streams[r] = None
    BY <2>1, StreamsSeen DEF Seen, InPhase
  <2>5. q # None
    BY <2>3, NoneFresh
  <2> HIDE DEF q
  <2>6. Seen(q) = [key |-> request[r].key, sent |-> <<>>]
    BY <2>3, <2>5 DEF Seen
  <2> QED
    BY <2>1, <2>2, <2>4, <2>6, <1>0, OpenStep
<1>6. ASSUME NEW r \in Requests, GetMissHandler(r) PROVE UNCHANGED Promise!vars
  <2> DEFINE q == [phase |-> "write", key |-> request[r].key, answer |-> fetches', written |-> 0,
                   open |-> FALSE]
  <2>1. Becomes(r, q) /\ UNCHANGED disk /\ (InPhase(r, "fetch") \/ InPhase(r, "expired"))
    BY <1>6 DEF GetMissHandler
  <2>2. Streams[r] = None
    BY <2>1, StreamsSeen DEF Seen, InPhase
  <2>3. Seen(q) = None
    BY DEF Seen
  <2> HIDE DEF q
  <2> QED
    BY <2>1, <2>2, <2>3, <1>0, <1>1, StreamsUnseen
<1>7. ASSUME NEW r \in Requests, OpenFile(r) \/ WriteBody(r) PROVE Streams' = Streams
  <2>1. request[r] \in Write /\ request[r].phase = "write" /\ Streams[r] = None
    BY <1>0, <1>7, RequestKinds, StreamsSeen DEF OpenFile, WriteBody, InPhase, Seen
  <2>2. \E q : Becomes(r, q) /\ q.phase = "write"
    <3>1. CASE OpenFile(r)
      <4>1. Becomes(r, [request[r] EXCEPT !.open = TRUE])
        BY <3>1 DEF OpenFile, Becomes
      <4>2. [request[r] EXCEPT !.open = TRUE].phase = "write"
        BY <2>1 DEF Write
      <4> QED
        BY <4>1, <4>2
    <3>2. CASE WriteBody(r)
      <4>1. Becomes(r, [request[r] EXCEPT !.written = @ + 1, !.open = FALSE])
        BY <3>2 DEF WriteBody
      <4>2. [request[r] EXCEPT !.written = @ + 1, !.open = FALSE].phase = "write"
        BY <2>1 DEF Write
      <4> QED
        BY <4>1, <4>2
    <3> QED
      BY <1>7, <3>1, <3>2
  <2>3. PICK q : Becomes(r, q) /\ q.phase = "write"
    BY <2>2
  <2>4. Seen(q) = None
    BY <2>3 DEF Seen
  <2> QED
    BY <1>0, <2>1, <2>3, <2>4, StreamsUnseen
<1>11. ASSUME NEW r \in Requests, OpenFile(r) PROVE Promise!Next
  <2>1. request[r].key \in Keys
    BY <1>0, <1>11, RequestKinds DEF OpenFile, Write
  <2>2. Promise!Create(request[r].key)
    BY <1>7, <1>11 DEF OpenFile, Promise!Create
  <2> QED
    BY <2>1, <2>2 DEF Promise!Next
<1>12. ASSUME NEW r \in Requests, WriteBody(r) PROVE UNCHANGED Promise!vars
  BY <1>1, <1>7, <1>12 DEF WriteBody
<1>13. ASSUME NEW c \in landing, ChunkLands(c) PROVE Promise!Next
  <2>1. c \in Chunk /\ c.key \in created /\ \A i \in 1 .. Len(file[c.key]) : file[c.key][i] # c
    BY AnswerNumbers DEF Held, LandsOnce
  <2>2. Streams' = Streams
    BY <1>13 DEF ChunkLands, Streams, InPhase
  <2>3. Promise!Store(c)
    BY <1>13, <2>1, <2>2 DEF ChunkLands, Promise!Store
  <2> QED
    BY <2>1, <2>3 DEF Promise!Next
<1>14. ASSUME NEW c \in landing, ChunkLost(c) PROVE UNCHANGED Promise!vars
  BY <1>14 DEF ChunkLost, Promise!vars, Streams, InPhase
<1>8. ASSUME NEW n \in Answers, Expire(n) PROVE UNCHANGED Promise!vars
  BY <1>8 DEF Expire, Promise!vars, Streams, InPhase
<1>9. CASE Restart
  <2>1. Streams' = [r \in Requests |-> IF r \in Requests THEN None ELSE Streams[r]]
    BY <1>9 DEF Restart, Streams, InPhase
  <2>2. UNCHANGED <<created, file>>
    BY <1>9 DEF Restart
  <2>3. Promise!Close(Requests)
    BY <2>1, <2>2 DEF Promise!Close
  <2> QED
    BY <2>3 DEF Promise!Next
<1>10. CASE UNCHANGED vars
  BY <1>10 DEF vars, Promise!vars, Streams, InPhase
<1> QED
  BY <1>2, <1>3, <1>4, <1>5, <1>6, <1>7, <1>8, <1>9, <1>10, <1>11, <1>12,
     <1>13, <1>14 DEF Next, Step

(* The disk cache, with its table in memory, its metadata, revalidations,  *)
(* background writes that land late, out of order or not at all, writers   *)
(* that are dropped and restarts, serves as ServedAssets says: a client is *)
(* only ever sent the next chunk of its own asset's file.                  *)
THEOREM CacheServesWhatIsStored == Spec => ImplementsServedAssets
<1>1. Init => Promise!Init
  BY DEF Init, Promise!Init, Streams, InPhase
<1>2. IInv /\ Held /\ [Next]_vars => [Promise!Next]_Promise!vars
  BY StepServes
<1> QED
  BY <1>1, <1>2, InvAlways, HeldAlways, PTL DEF Spec, ImplementsServedAssets, Promise!Spec
=============================================================================
