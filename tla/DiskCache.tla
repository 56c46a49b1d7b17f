----------------------------- MODULE DiskCache -----------------------------
(***************************************************************************)
(* The disk cache of HTTP responses (cache/disk) with its table of bodies  *)
(* in memory, DISK_MEMORY_CACHE, as requests of the proxy use it.          *)
(*                                                                         *)
(* A request looks the asset up, in memory and then on disk.  A fresh hit  *)
(* is read to its end and finished, which puts the body read from disk     *)
(* into memory.  An expired hit is revalidated or fetched again, a miss is *)
(* fetched; a fetched response that may be cached is written chunk by      *)
(* chunk while it is passed on.  Requests run on several threads.          *)
(*                                                                         *)
(* A chunk is written through a handle of its own, which is opened, is     *)
(* given the chunk and is dropped without a flush: tokio's threads write   *)
(* the chunk afterwards, in any order, and nobody learns that they failed. *)
(*                                                                         *)
(* pingora's cache lock is given up after one second (CACHE_LOCK) and a    *)
(* lookup comes before it, so it excludes neither readers nor, in the end, *)
(* a second writer: it is left out.                                        *)
(***************************************************************************)
EXTENDS Naturals, Sequences

CONSTANTS
  Keys,        \* cached assets: a host with a path and query
  Requests,    \* requests in progress at a time
  Chunks,      \* chunks of a response body
  MaxFetches,  \* bound: answers of the upstream in one behaviour
  None         \* no entry in memory, no request in progress

ASSUME ChunksType == Chunks \in Nat \ {0}

ASSUME MaxFetchesType == MaxFetches \in Nat

Answers == 1 .. MaxFetches

(* A chunk knows which asset and which answer of the upstream it is of.    *)
Chunk == [key : Keys, answer : Answers, part : 1 .. Chunks]

Whole(k, n) == [i \in 1 .. Chunks |-> [key |-> k, answer |-> n, part |-> i]]

(* A body in DISK_MEMORY_CACHE and the metadata stored with it, identified *)
(* by the answer it comes from.                                            *)
Entry == [meta : Answers, body : Seq(Chunk)]

(***************************************************************************)
(* A request: looking at an answer from memory ("memory") or from disk     *)
(* ("disk"), with what it has read so far; one of these that has expired;  *)
(* going to the upstream ("fetch"); or writing an answer, with the number   *)
(* of chunks it has handed over and whether the file is open for another.  *)
(***************************************************************************)
Hit == [phase : {"hit", "expired"}, key : Keys, from : {"memory", "disk"},
        meta : Answers, body : Seq(Chunk), read : Seq(Chunk)]

Miss == [phase : {"fetch"}, key : Keys]

Write == [phase : {"write"}, key : Keys, answer : Answers, written : 0 .. Chunks,
          open : BOOLEAN]

(* What an outsider sees of a request that is answered from the cache.     *)
Stream == [key : Keys, sent : Seq(Chunk)]

ASSUME NoneFresh == None \notin Entry \cup Hit \cup Miss \cup Write \cup Stream

VARIABLES
  created,  \* assets whose .cache file exists, be it still empty
  file,     \* per asset, what is in the .cache file
  landing,  \* chunks tokio was given and has not written yet
  metadata, \* per asset, the answer the .metadata file is of; 0 for no file
  memory,   \* DISK_MEMORY_CACHE
  request,  \* what each request is doing
  fetches,  \* answers of the upstream so far
  fresh     \* answers whose fresh_until has not passed

disk == <<created, file, landing>>

vars == <<created, file, landing, metadata, memory, request, fetches, fresh>>

InPhase(r, p) == request[r] # None /\ request[r].phase = p

Becomes(r, q) == request' = [request EXCEPT ![r] = q]

(* What the handler reads from: a copy of the body, or the open file, which *)
(* shows what is appended to it.                                            *)
Target(r) == IF request[r].from = "memory" THEN request[r].body ELSE file[request[r].key]

AtEnd(r) == Len(request[r].read) = Len(Target(r))

-----------------------------------------------------------------------------
(***************************************************************************)
(* Lookup.  Files and metadata are never removed, so opening the file and  *)
(* reading the metadata after it is one step.  cache_hit_filter forces an  *)
(* asset that is not fresh to expire.                                      *)
(***************************************************************************)
HitFilter(m) == IF m \in fresh THEN "hit" ELSE "expired"

(* Plausible bug: the key in memory leaves out the namespace. *)
LookupMemoryAnyHost(r, k) ==
  /\ request[r] = None
  /\ \E other \in Keys :
       /\ memory[other] # None
       /\ Becomes(r, [phase |-> HitFilter(memory[other].meta), key |-> k, from |-> "memory",
                      meta |-> memory[other].meta, body |-> memory[other].body, read |-> <<>>])
  /\ UNCHANGED <<disk, metadata, memory, fetches, fresh>>

LookupMemory(r, k) ==
  /\ request[r] = None
  /\ memory[k] # None
  /\ Becomes(r, [phase |-> HitFilter(memory[k].meta), key |-> k, from |-> "memory",
                 meta |-> memory[k].meta, body |-> memory[k].body, read |-> <<>>])
  /\ UNCHANGED <<disk, metadata, memory, fetches, fresh>>

LookupDisk(r, k) ==
  /\ request[r] = None
  /\ memory[k] = None
  /\ k \in created /\ metadata[k] # 0
  /\ Becomes(r, [phase |-> HitFilter(metadata[k]), key |-> k, from |-> "disk",
                 meta |-> metadata[k], body |-> <<>>, read |-> <<>>])
  /\ UNCHANGED <<disk, metadata, memory, fetches, fresh>>

(* A file is missing or cannot be read, or its metadata is being written. *)
LookupMisses(r, k) ==
  /\ request[r] = None
  /\ memory[k] = None
  /\ Becomes(r, [phase |-> "fetch", key |-> k])
  /\ UNCHANGED <<disk, metadata, memory, fetches, fresh>>

-----------------------------------------------------------------------------
(***************************************************************************)
(* A hit.                                                                  *)
(***************************************************************************)

ReadBody(r) ==
  /\ InPhase(r, "hit")
  /\ ~AtEnd(r)
  /\ request' = [request EXCEPT ![r].read = Append(@, Target(r)[Len(@) + 1])]
  /\ UNCHANGED <<disk, metadata, memory, fetches, fresh>>

(* finish skips an entry whose body is as long as the one it has. *)
Remember(k, m, b) ==
  memory' = [memory EXCEPT ![k] = IF @ # None /\ Len(@.body) = Len(b)
                                  THEN @ ELSE [meta |-> m, body |-> b]]

(* The request has read up to the end of the body, or was answered with    *)
(* the header alone.                                                       *)
FinishHit(r) ==
  /\ InPhase(r, "hit")
  /\ AtEnd(r) \/ request[r].read = <<>>
  /\ \/ /\ request[r].from = "disk"
        /\ Remember(request[r].key, request[r].meta, request[r].read)
     \/ /\ request[r].from = "memory"
        /\ UNCHANGED memory
  /\ Becomes(r, None)
  /\ UNCHANGED <<disk, metadata, fetches, fresh>>

(* The client goes away: the handler is dropped. *)
HitDropped(r) ==
  /\ InPhase(r, "hit")
  /\ Becomes(r, None)
  /\ UNCHANGED <<disk, metadata, memory, fetches, fresh>>

-----------------------------------------------------------------------------
(***************************************************************************)
(* The upstream.  Each answer that may be cached starts out fresh.  The    *)
(* result of writing the metadata is ignored.                              *)
(***************************************************************************)
NextAnswer ==
  /\ fetches < MaxFetches
  /\ fetches' = fetches + 1
  /\ fresh' = fresh \cup {fetches'}

WriteMetadata(k) == metadata' \in {metadata, [metadata EXCEPT ![k] = fetches']}

(* 304: update_meta, and the expired body is served.  The hit handler keeps *)
(* the metadata of its lookup.                                              *)
UpdateMeta(r) ==
  /\ InPhase(r, "expired")
  /\ NextAnswer
  /\ WriteMetadata(request[r].key)
  /\ Becomes(r, [request[r] EXCEPT !.phase = "hit"])
  /\ UNCHANGED <<disk, memory>>

(* response_cache_filter admits the response. *)
GetMissHandler(r) ==
  /\ InPhase(r, "fetch") \/ InPhase(r, "expired")
  /\ NextAnswer
  /\ WriteMetadata(request[r].key)
  /\ Becomes(r, [phase |-> "write", key |-> request[r].key,
                 answer |-> fetches', written |-> 0, open |-> FALSE])
  /\ UNCHANGED <<disk, memory>>

(* The fetch fails, the directory cannot be made, or response_cache_filter *)
(* does not admit the response: no cache, or not GET or HEAD.              *)
NotAdmitted(r) ==
  /\ InPhase(r, "fetch") \/ InPhase(r, "expired")
  /\ Becomes(r, None)
  /\ UNCHANGED <<disk, metadata, memory, fetches, fresh>>

(* write_to_file opens the file to append, and creates it. *)
OpenFile(r) ==
  /\ InPhase(r, "write")
  /\ request[r].written < Chunks /\ ~request[r].open
  /\ created' = created \cup {request[r].key}
  /\ request' = [request EXCEPT ![r].open = TRUE]
  /\ UNCHANGED <<file, landing, metadata, memory, fetches, fresh>>

NextChunk(r) ==
  [key |-> request[r].key, answer |-> request[r].answer, part |-> request[r].written + 1]

(* Plausible bug: the handle is kept for the next chunk, past the last one. *)
WriteBodyKeepsOpen(r) ==
  /\ InPhase(r, "write")
  /\ request[r].open
  /\ landing' = landing \cup {NextChunk(r)}
  /\ request' = [request EXCEPT ![r].written = @ + 1]
  /\ UNCHANGED <<created, file, metadata, memory, fetches, fresh>>

(* write_all hands the chunk over and is done; the flush is commented out. *)
WriteBody(r) ==
  /\ InPhase(r, "write")
  /\ request[r].open
  /\ landing' = landing \cup {NextChunk(r)}
  /\ Becomes(r, [request[r] EXCEPT !.written = @ + 1, !.open = FALSE])
  /\ UNCHANGED <<created, file, metadata, memory, fetches, fresh>>

(* A thread of tokio appends a chunk, whatever has become of its request. *)
ChunkLands(c) ==
  /\ c \in landing
  /\ file' = [file EXCEPT ![c.key] = Append(@, c)]
  /\ landing' = landing \ {c}
  /\ UNCHANGED <<created, metadata, memory, request, fetches, fresh>>

(* It fails to, and the handle that would tell is gone. *)
ChunkLost(c) ==
  /\ c \in landing
  /\ landing' = landing \ {c}
  /\ UNCHANGED <<created, file, metadata, memory, request, fetches, fresh>>

FinishMiss(r) ==
  /\ InPhase(r, "write")
  /\ request[r].written = Chunks
  /\ Becomes(r, None)
  /\ UNCHANGED <<disk, metadata, memory, fetches, fresh>>

(* The upstream or the client fails, or opening the file does: the handler *)
(* is dropped, and nothing undoes what it wrote or recalls what is still   *)
(* to land.                                                                *)
WriteDropped(r) ==
  /\ InPhase(r, "write")
  /\ request[r].written < Chunks
  /\ Becomes(r, None)
  /\ UNCHANGED <<disk, metadata, memory, fetches, fresh>>

-----------------------------------------------------------------------------
(* fresh_until passes. *)
Expire(n) ==
  /\ n \in fresh
  /\ fresh' = fresh \ {n}
  /\ UNCHANGED <<disk, metadata, memory, request, fetches>>

(* The process ends at any point; the files stay. *)
Restart ==
  /\ memory' = [k \in Keys |-> None]
  /\ request' = [r \in Requests |-> None]
  /\ landing' = {}
  /\ UNCHANGED <<created, file, metadata, fetches, fresh>>

Init ==
  /\ created = {}
  /\ file = [k \in Keys |-> <<>>]
  /\ landing = {}
  /\ metadata = [k \in Keys |-> 0]
  /\ memory = [k \in Keys |-> None]
  /\ request = [r \in Requests |-> None]
  /\ fetches = 0
  /\ fresh = {}

Lookup(r) ==
  \E k \in Keys : LookupMemory(r, k) \/ LookupDisk(r, k) \/ LookupMisses(r, k)

Step(r) ==
  \/ ReadBody(r) \/ FinishHit(r) \/ HitDropped(r)
  \/ UpdateMeta(r) \/ GetMissHandler(r) \/ NotAdmitted(r)
  \/ OpenFile(r) \/ WriteBody(r) \/ FinishMiss(r) \/ WriteDropped(r)

Next ==
  \/ \E r \in Requests : Lookup(r) \/ Step(r)
  \/ \E c \in landing : ChunkLands(c) \/ ChunkLost(c)
  \/ \E n \in Answers : Expire(n)
  \/ Restart

Spec == Init /\ [][Next]_vars

-----------------------------------------------------------------------------
(***************************************************************************)
(* Properties.                                                             *)
(***************************************************************************)

(* Every variable stays in its type. *)
TypeOK ==
  /\ created \subseteq Keys
  /\ landing \subseteq Chunk
  /\ file \in [Keys -> Seq(Chunk)]
  /\ metadata \in [Keys -> 0 .. MaxFetches]
  /\ memory \in [Keys -> Entry \cup {None}]
  /\ request \in [Requests -> Hit \cup Miss \cup Write \cup {None}]
  /\ fetches \in 0 .. MaxFetches
  /\ fresh \in SUBSET (1 .. fetches)

BeginsWith(s, t) == Len(t) <= Len(s) /\ \A i \in 1 .. Len(t) : t[i] = s[i]

(* However requests, expiry and restarts interleave, what a hit has sent   *)
(* to its client is the beginning of the asset's own file: never bytes of  *)
(* another host or path, none twice and none skipped, from memory or from  *)
(* a file that is being appended to.                                       *)
HitsReadOwnFile ==
  \A r \in Requests : InPhase(r, "hit") =>
    /\ BeginsWith(file[request[r].key], request[r].read)
    /\ \A i \in 1 .. Len(request[r].read) : request[r].read[i].key = request[r].key

Streams ==
  [r \in Requests |-> IF InPhase(r, "hit")
                     THEN [key |-> request[r].key, sent |-> request[r].read] ELSE None]

Promise == INSTANCE ServedAssets WITH exists <- created, stream <- Streams

(* Seen from its clients, the cache is what has been stored of each asset  *)
(* and nothing else: a chunk is stored with its own asset and once, in     *)
(* whatever order the background writes land, only an asset whose file     *)
(* exists is served, and each chunk served is the next one of that asset's *)
(* file, from memory, from disk, after a revalidation or while another     *)
(* request is appending.                                                   *)
ImplementsServedAssets == Promise!Spec

(* "When `self` is dropped without calling this function, the storage      *)
(* should consider this write failed": a hit that has sent its body to the *)
(* end has sent one whole response.                                        *)
HitsSendWholeResponse ==
  \A r \in Requests : InPhase(r, "hit") /\ AtEnd(r) =>
    \E n \in Answers : request[r].read = Whole(request[r].key, n)

-----------------------------------------------------------------------------
(* Inductive strengthening, used by DiskCacheProofs: files hold only their *)
(* own chunks, and every body in memory, or copied from there, is the      *)
(* beginning of its file.                                                  *)
FilesHoldOwnChunks == \A k \in Keys : \A i \in 1 .. Len(file[k]) : file[k][i].key = k

MemoryFromFile == \A k \in Keys : memory[k] # None => BeginsWith(file[k], memory[k].body)

RequestsFromFile ==
  \A r \in Requests : InPhase(r, "hit") \/ InPhase(r, "expired") =>
    /\ BeginsWith(Target(r), request[r].read)
    /\ BeginsWith(file[request[r].key], request[r].body)

(* Nothing was sent before a revalidation, and whatever may be served has  *)
(* a file.                                                                 *)
ServedIsStored ==
  /\ \A k \in Keys : memory[k] # None => k \in created
  /\ \A r \in Requests : InPhase(r, "hit") \/ InPhase(r, "expired") =>
       request[r].key \in created
  /\ \A r \in Requests : InPhase(r, "expired") => request[r].read = <<>>

Writing(r) == InPhase(r, "write")

(* Each answer has one writer at most, and what has landed of it, or is    *)
(* still to land, that one has handed over.                                *)
OneWriterPerAnswer ==
  /\ \A r \in Requests : Writing(r) => request[r].answer <= fetches
  /\ \A r, s \in Requests :
       Writing(r) /\ Writing(s) /\ r # s => request[r].answer # request[s].answer

HandedOver(c) ==
  /\ c.answer <= fetches
  /\ \A r \in Requests : Writing(r) /\ request[r].answer = c.answer =>
       c.part <= request[r].written

StoredWasHandedOver == \A k \in Keys : \A i \in 1 .. Len(file[k]) : HandedOver(file[k][i])

(* A chunk that is still to land has a file, and is not in it.             *)
LandsOnce ==
  \A c \in landing :
    /\ HandedOver(c)
    /\ c.key \in created
    /\ \A i \in 1 .. Len(file[c.key]) : file[c.key][i] # c

OpenFileExists == \A r \in Requests : Writing(r) /\ request[r].open =>
                    request[r].key \in created /\ request[r].written < Chunks
=============================================================================
