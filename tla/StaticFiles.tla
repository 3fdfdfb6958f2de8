----------------------------- MODULE StaticFiles -----------------------------
(***************************************************************************)
(* The handler of staticFiles() (extensions/http/src/StaticFiles.cc) with  *)
(* the file cache of its scheduler, an LRU list bounded by the bytes it    *)
(* holds.                                                                  *)
(*                                                                         *)
(* The handler never suspends, but another process may write the files     *)
(* while it runs: between stat() and fread() is a step.  A file is its     *)
(* version and its size; every change is visible in the modification time  *)
(* (one per version), which is what the validators of the code assume.     *)
(* "f" is a plain file, "f.gz" its precompressed variant.                  *)
(***************************************************************************)
EXTENDS Naturals, Sequences, SequencesExt, FiniteSetsExt

CONSTANTS Files,        \* plain files
          Gz(_),        \* the compressed variant of a file
          Sizes,        \* sizes a file may get
          MaxFileSize,  \* opts.cache_max_file_size
          MaxCacheSize, \* opts.cache_max_cache_size
          Ttl,          \* opts.cache_ttl
          ChunkSize,    \* kChunkSize
          MaxVersion,   \* bound: versions of a file
          MaxTime       \* bound: seconds

VARIABLES disk,   \* external: version, size and presence of each file
          now,    \* the clock
          lru,    \* the list of the cache with index_, most recent first
          size,   \* currentSize_
          req,    \* the running request
          resp    \* the last response; of a body the version, the length, and what stat() said

vars == <<disk, now, lru, size, req, resp>>

AllFiles == Files \union {Gz(f) : f \in Files}

None == [status |-> 0]
Idle == [pc |-> "idle"]

Init ==
    /\ disk \in [AllFiles -> [ver : {1}, size : {Min(Sizes)}, there : BOOLEAN]]
    /\ now = 0 /\ lru = <<>> /\ size = 0
    /\ req = Idle /\ resp = None

\* Another process writes or removes a file.
Change(f, s, there) ==
    /\ disk[f].ver < MaxVersion
    /\ disk' = [disk EXCEPT ![f] = [ver |-> @.ver + 1, size |-> s, there |-> there]]
    /\ UNCHANGED <<now, lru, size, req, resp>>

Tick ==
    /\ now < MaxTime
    /\ now' = now + 1
    /\ UNCHANGED <<disk, lru, size, req, resp>>

-----------------------------------------------------------------------------
\* FileCache: the list alone, index_ being the positions of its keys

At(l, k)    == {i \in DOMAIN l : l[i].key = k}
Bytes(l)    == FoldLeft(LAMBDA n, e : n + e.size, 0, l)

\* Bug: the bytes of an evicted entry stay counted.
Freed_Not(n, e) == n
Freed(n, e)     == n - e.size

Evict(l, k) == IF At(l, k) = {} THEN l ELSE RemoveAt(l, CHOOSE i \in At(l, k) : TRUE)

\* The entry of k leaves the list, if there is one.
Erase(k) ==
    /\ lru' = Evict(lru, k)
    /\ size' = IF At(lru, k) = {} THEN size ELSE Freed(size, lru[CHOOSE i \in At(lru, k) : TRUE])

\* get() of an unexpired entry moves it to the front.
Touch(k) ==
    /\ lru' = <<lru[CHOOSE i \in At(lru, k) : TRUE]>> \o Evict(lru, k)
    /\ UNCHANGED size

Expired(e) == now > e.expire

\* The longest prefix that leaves room for n bytes
Trim(l, n) ==
    SubSeq(l, 1, Max({0} \union {i \in 0..Len(l) : Bytes(SubSeq(l, 1, i)) + n <= MaxCacheSize}))

CachePut(e) ==
    LET kept == Evict(lru, e.key)
        held == IF At(lru, e.key) = {} THEN size ELSE Freed(size, lru[CHOOSE i \in At(lru, e.key) : TRUE])
        trim == Trim(kept, e.size)
        gone == SubSeq(kept, Len(trim) + 1, Len(kept))
    IN  /\ lru' = <<e>> \o trim
        /\ size' = FoldLeft(Freed, held, gone) + e.size

-----------------------------------------------------------------------------
\* The handler

Answer(status) == resp' = [status |-> status] /\ req' = Idle

Cacheable(s) == Ttl > 0 /\ s <= MaxFileSize

\* setBody() replaces the body and the Content-Length that is sent with it
SetBody(from, key, v, n, st) == [status |-> 200, from |-> from, key |-> key, ver |-> v, length |-> n, st |-> st]

\* The cached copy is compared with the validators of the plain file.
\* Bug: what is cached is not compared with the file.
Fresh_Always(e, plain) == TRUE
Fresh(e, plain)        == e.etag = plain.ver

\* Up to the look into the cache.  A path outside the root is refused; a directory stands for its
\* index file; If-Modified-Since and If-None-Match compare with the plain file.
Request(f, gzip, head, seen) ==
    LET plain == disk[f]
        key   == IF gzip /\ disk[Gz(f)].there THEN Gz(f) ELSE f
        st    == disk[key]
        hit   == Cacheable(st.size) /\ At(lru, key) # {}
        e     == lru[CHOOSE i \in At(lru, key) : TRUE]
        miss  == IF head THEN Answer(200)
                 ELSE /\ req' = [pc |-> "read", key |-> key, etag |-> plain.ver, st |-> st]
                      /\ UNCHANGED resp
    IN
    /\ req.pc = "idle"
    /\ UNCHANGED <<disk, now>>
    /\ \/ /\ ~plain.there /\ Answer(404)
          /\ UNCHANGED <<lru, size>>
       \/ /\ plain.there /\ seen = plain.ver /\ Answer(304)
          /\ UNCHANGED <<lru, size>>
       \/ /\ plain.there /\ seen # plain.ver /\ ~hit /\ miss
          /\ UNCHANGED <<lru, size>>
       \/ /\ plain.there /\ seen # plain.ver /\ hit /\ (Expired(e) \/ ~Fresh(e, plain)) /\ miss
          /\ Erase(key)
       \/ /\ plain.there /\ seen # plain.ver /\ hit /\ ~Expired(e) /\ Fresh(e, plain)
          /\ resp' = IF head THEN [status |-> 200]
                     ELSE SetBody("hit", key, e.ver, e.size, st)
          /\ req' = Idle /\ Touch(key)

RequestOutside ==
    /\ req.pc = "idle" /\ Answer(403)
    /\ UNCHANGED <<disk, now, lru, size>>

\* The bytes fread() gets of the n that stat() promised
Readable(f, n) == Min({n, disk[f].size})

FopenFails ==
    /\ req.pc = "read" /\ ~disk[req.key].there /\ Answer(500)
    /\ UNCHANGED <<disk, now, lru, size>>

\* The file is read as a whole and cached.  A short read is an error.
ReadCached ==
    /\ req.pc = "read" /\ disk[req.key].there /\ Cacheable(req.st.size)
    /\ IF Readable(req.key, req.st.size) < req.st.size
       THEN Answer(500) /\ UNCHANGED <<lru, size>>
       ELSE /\ CachePut([key |-> req.key, ver |-> disk[req.key].ver, size |-> req.st.size,
                         etag |-> req.etag, expire |-> now + Ttl])
            /\ resp' = SetBody("file", req.key, disk[req.key].ver, req.st.size, req.st)
            /\ req' = Idle
    /\ UNCHANGED <<disk, now>>

\* A file that is not cached is read in chunks, each of which is given to setBody().
LastChunk(n) == IF n = 0 THEN 0 ELSE ((n - 1) % ChunkSize) + 1

ReadChunks ==
    /\ req.pc = "read" /\ disk[req.key].there /\ ~Cacheable(req.st.size)
    /\ resp' = SetBody("file", req.key, disk[req.key].ver, LastChunk(Readable(req.key, req.st.size)), req.st)
    /\ req' = Idle
    /\ UNCHANGED <<disk, now, lru, size>>

Next ==
    \/ Tick \/ RequestOutside \/ FopenFails \/ ReadCached \/ ReadChunks
    \/ \E f \in AllFiles, s \in Sizes, there \in BOOLEAN : Change(f, s, there)
    \/ \E f \in Files, gzip, head \in BOOLEAN, seen \in 0..MaxVersion : Request(f, gzip, head, seen)

Spec == Init /\ [][Next]_vars

-----------------------------------------------------------------------------
HasBody == "from" \in DOMAIN resp

\* currentSize_ is the number of bytes in the list, a file is in the list once, and the list is
\* within cache_max_cache_size after every put(), eviction and expiry.
CacheAccounting ==
    /\ size = Bytes(lru)
    /\ size <= MaxCacheSize
    /\ \A i, j \in DOMAIN lru : lru[i].key = lru[j].key => i = j

\* "file modified (new mtime/etag) -> cache invalidated, new content served"
\* (static_files_test.cc:457): a hit for a plain file is the content the file has, even if the
\* file was written between the stat() and the read that filled the cache.
HitIsCurrent ==
    HasBody /\ resp.from = "hit" /\ resp.key \in Files => resp.ver = resp.st.ver

\* "File exceeding cache_max_file_size is not cached: always reads from disk"
\* (static_files_test.cc:488, which compares the body with the file): a response without error
\* carries every byte of the file.
WholeBody == HasBody => resp.length = resp.st.size
=============================================================================
