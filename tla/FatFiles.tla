------------------------------- MODULE FatFiles -------------------------------
(***************************************************************************)
(* The file system on the SD card (mcu/SdFat/FatLib): the table of clusters *)
(* with its copy, the directory, the cache of a block, and the files of the *)
(* robot that are open at the same time (map, log, program).                *)
(*                                                                          *)
(* The volume is small: the table and the directory have a block each, and  *)
(* the root directory cannot grow.  One operation at a time (SdCard shows    *)
(* why), but a long write or read goes block by block.  In a run either the  *)
(* power may fail between any two writes to the card, or files are cut and   *)
(* removed (both together lose files, see the README).                      *)
(***************************************************************************)
EXTENDS Integers, Sequences, SequencesExt, FiniteSetsExt

CONSTANTS
    Names,            \* of files
    ENTRIES,          \* of the directory
    m_lastCluster, m_blocksPerCluster,
    BYTES,            \* of a block, in the code 512
    Sizes,            \* of single writes and reads
    Places,           \* for seeking and cutting
    MAX_WRITES, MAX_SIZE,
    CRASHES,          \* power failures, in a run that cuts no file
    SEPARATE          \* USE_SEPARATE_FAT_CACHE, in a run without failures

VARIABLE fs           \* the volume, the files, and what is written in them

-----------------------------------------------------------------------------
(* Blocks: the table, its copy, the directory, the clusters.  A cluster of   *)
(* the table is free (0), the last of its file, or followed by another one. *)
FAT == 0
COPY == 1
DIR == 2
DATA == 3
EOC == 255
Clusters == 2 .. m_lastCluster
clusterStartBlock(c) == DATA + (c - 2) * m_blocksPerCluster
ClusterBytes == BYTES * m_blocksPerCluster

FREE == [name |-> "free", first |-> 0, size |-> 0]
Junk == [i \in 1 .. BYTES |-> 0]
NoLine == [lbn |-> -1, dirty |-> FALSE, mirror |-> FALSE, block |-> <<>>]

Mounted(disk) == [disk |-> disk, data |-> NoLine, fat |-> NoLine, m_allocSearchStart |-> 1,
                  past |-> {}]                    \* what was on the card while the step was under way
Empty == [b \in 0 .. clusterStartBlock(m_lastCluster + 1) - 1 |->
              CASE b \in {FAT, COPY} -> [c \in Clusters |-> 0]
                [] b = DIR -> [i \in 1 .. ENTRIES |-> FREE]
                [] OTHER -> Junk]

(* The cache writes a changed block back, the table also to its copy, before *)
(* it takes another one.                                                    *)
writeBlock(v, lbn, block) == [v EXCEPT !.disk[lbn] = block, !.past = @ \cup {v.disk}]

LineSync(v, line) ==
    LET l == v[line]
        once == writeBlock(v, l.lbn, l.block)
        both == IF l.mirror THEN writeBlock(once, COPY, l.block) ELSE once
    IN  IF l.dirty THEN [both EXCEPT ![line].dirty = FALSE] ELSE v
cacheSync(v) == LineSync(LineSync(v, "data"), "fat")

Taken(v, line, lbn, block) ==
    IF v[line].lbn = lbn THEN v
    ELSE [LineSync(v, line) EXCEPT ![line] = [lbn |-> lbn, dirty |-> FALSE, mirror |-> FALSE, block |-> block]]
LineRead(v, line, lbn, dirty, mirror, block) ==
    [Taken(v, line, lbn, block) EXCEPT ![line].dirty = @ \/ dirty, ![line].mirror = @ \/ mirror]

OnDisk(v, line, lbn) == LineSync(v, line).disk[lbn]
cacheFetchData(v, lbn, dirty) == LineRead(v, "data", lbn, dirty, FALSE, OnDisk(v, "data", lbn))
Reserve(v, lbn) == LineRead(v, "data", lbn, TRUE, FALSE, Junk)

FatLine == IF fs.separate THEN "fat" ELSE "data"
cacheFetchFat(v, dirty) == LineRead(v, FatLine, FAT, dirty, TRUE, OnDisk(v, FatLine, FAT))
Table(v) == cacheFetchFat(v, FALSE)[FatLine].block
fatPut(v, changes) == [cacheFetchFat(v, TRUE) EXCEPT ![FatLine].block = changes @@ @]

(* The chain of a file. *)
Follow(table, c) == IF c \in Clusters THEN table[c] ELSE EOC
Chain(table, first) ==
    LET at[n \in 0 .. m_lastCluster] == IF n = 0 THEN first ELSE Follow(table, at[n - 1])
        n == Max({k \in 0 .. m_lastCluster : \A j \in 0 .. k : at[j] \in Clusters} \cup {-1})
    IN  [i \in 1 .. n + 1 |-> at[i - 1]]

(* The next free cluster behind the current one, or behind the last first   *)
(* cluster; if there is none the search for a file's first cluster comes to *)
(* an end only where it has begun, and cluster 1 is never met.              *)
NextFree(table, start) ==
    LET Far(c) == IF c > start THEN c - start ELSE c - start + m_lastCluster
        free == {c \in Clusters : table[c] = 0}
    IN  IF free = {} THEN 0 ELSE CHOOSE c \in free : \A d \in free : Far(c) <= Far(d)
Allocated(v, current, start, find) ==
    CASE find = 0 -> [v |-> cacheFetchFat(v, FALSE), next |-> 0, hangs |-> start \notin Clusters]
      [] find # 0 /\ current # 0 ->
            [v |-> fatPut(v, (current :> find) @@ (find :> EOC)), next |-> find, hangs |-> FALSE]
      [] find # 0 /\ current = 0 ->
            [v |-> [fatPut(v, find :> EOC) EXCEPT !.m_allocSearchStart = find], next |-> find, hangs |-> FALSE]
allocateCluster(v, current) ==
    LET start == IF current # 0 THEN current ELSE v.m_allocSearchStart
    IN  Allocated(v, current, start, NextFree(Table(v), start))

Freed(v, freed) == [fatPut(v, [c \in freed |-> 0]) EXCEPT !.m_allocSearchStart = Min(freed \cup {@})]
freeChain(v, first) == Freed(v, Range(Chain(Table(v), first)))

-----------------------------------------------------------------------------
(* A file that is open. *)
NoJob == [op |-> "none", name |-> "", left |-> 0]
Closed == [entry |-> 0, first |-> 0, cur |-> 0, pos |-> 0, size |-> 0, dirty |-> FALSE]

(* What is written in the files, what was in them when they were flushed (-2 *)
(* where a later write has begun), and the operation under way.             *)
FatInit ==
    \E mode \in {"cut", "crash"} :
        fs = [v |-> Mounted(Empty), mode |-> mode, separate |-> mode = "cut" /\ SEPARATE,
              file |-> [n \in Names |-> Closed],
              job |-> NoJob,
              content |-> [n \in Names |-> <<>>], durable |-> [n \in Names |-> <<>>],
              misread |-> FALSE,                            \* a read has given something else
              writes |-> 0, crashes |-> 0, after |-> FALSE, hangs |-> FALSE]

(* What the card holds, and what is left when the power fails on the way. *)
Entry(disk, n) == {i \in 1 .. ENTRIES : disk[DIR][i].name = n}
Byte(disk, chain, i) ==
    LET block == clusterStartBlock(chain[((i - 1) \div ClusterBytes) + 1]) + (((i - 1) % ClusterBytes) \div BYTES)
    IN  disk[block][((i - 1) % BYTES) + 1]
Bytes(disk, first, size) ==
    LET chain == Chain(disk[FAT], first)
    IN  [i \in 1 .. size |-> IF (i - 1) \div ClusterBytes < Len(chain) THEN Byte(disk, chain, i) ELSE -1]
Stored(disk, n) ==
    IF Entry(disk, n) = {} THEN <<>>
    ELSE LET e == disk[DIR][Max(Entry(disk, n))] IN Bytes(disk, e.first, e.size)

Crashed(disk) ==
    [fs EXCEPT !.v = Mounted(disk), !.file = [n \in Names |-> Closed], !.job = NoJob,
               !.content = [n \in Names |-> Stored(disk, n)], !.after = TRUE, !.crashes = @ + 1]

Becomes(new) ==
    \/ fs' = [new EXCEPT !.v.past = {}]
    \/ /\ fs.mode = "crash" /\ fs.crashes < CRASHES
       /\ \E disk \in new.v.past \cup {new.v.disk} : fs' = Crashed(disk)

Idle == fs.job.op = "none" /\ ~fs.after /\ ~fs.hangs
IsOpen(n) == fs.file[n].entry # 0

(* FatVolume::init after a failure. *)
Mount == fs.after /\ fs' = [fs EXCEPT !.after = FALSE, !.durable = fs.content]

(* open() with O_CREAT looks for the name, and for a place it may have. *)
openCachedEntry(v, i, trunc) ==
    LET e == v.data.block[i]
        f == [Closed EXCEPT !.entry = i, !.dirty = trunc]
    IN  [v |-> IF trunc /\ e.first # 0 THEN freeChain(v, e.first) ELSE v,
         f |-> IF trunc THEN f ELSE [f EXCEPT !.first = e.first, !.size = e.size]]

Named(v, name) == {i \in 1 .. ENTRIES : v.data.block[i].name = name}
Opened(n, trunc, o) == Becomes([fs EXCEPT !.v = o.v, !.file[n] = o.f, !.content[n] = IF trunc THEN <<>> ELSE @])
OpenIn(v, n, trunc) ==
    /\ Named(v, n) \cup Named(v, "free") # {}
    /\ \E i \in {Min(IF Named(v, n) # {} THEN Named(v, n) ELSE Named(v, "free"))} :
           /\ trunc /\ fs.mode = "crash" => Named(v, n) = {} \/ v.data.block[i].first = 0
           /\ Opened(n, trunc,
                     openCachedEntry(IF Named(v, n) # {} THEN v
                                     ELSE [v EXCEPT !.data.block[i] = [FREE EXCEPT !.name = n], !.data.dirty = TRUE],
                                     i, trunc))
open(n, trunc) == Idle /\ ~IsOpen(n) /\ OpenIn(cacheFetchData(fs.v, DIR, FALSE), n, trunc)

(* sync() enters the size and the first cluster into the directory. *)
Synced(v, f) ==
    LET d == cacheFetchData(v, DIR, TRUE)
    IN  cacheSync(IF f.dirty THEN [d EXCEPT !.data.block[f.entry].first = f.first, !.data.block[f.entry].size = f.size]
                  ELSE v)
sync(n) == /\ Idle /\ IsOpen(n)
           /\ Becomes([fs EXCEPT !.v = Synced(@, fs.file[n]), !.file[n].dirty = FALSE,
                                 !.durable[n] = fs.content[n]])
close(n) == /\ Idle \/ (fs.job.op = "failed" /\ fs.job.name = n)
            /\ IsOpen(n)
            /\ Becomes([fs EXCEPT !.v = Synced(@, fs.file[n]), !.file[n] = Closed, !.job = NoJob,
                                  !.durable[n] = fs.content[n]])

(* seekSet() walks from the cluster it is in, or from the first one. *)
Sought(v, f, pos) ==
    LET nCur == (f.pos - 1) \div ClusterBytes
        nNew == (pos - 1) \div ClusterBytes
        chain == Chain(Table(v), IF nNew < nCur \/ f.pos = 0 THEN f.first ELSE f.cur)
        steps == IF nNew < nCur \/ f.pos = 0 THEN nNew ELSE nNew - nCur
    IN  CASE pos = f.pos -> f
          [] pos # f.pos /\ pos = 0 -> [f EXCEPT !.pos = 0, !.cur = 0]
          [] OTHER -> IF steps < Len(chain) THEN [f EXCEPT !.pos = pos, !.cur = chain[steps + 1]] ELSE f
Walks(f, pos) == pos \notin {0, f.pos} /\ (pos - 1) \div ClusterBytes # (f.pos - 1) \div ClusterBytes
seekSet(n, pos) ==
    /\ Idle /\ IsOpen(n) /\ pos <= fs.file[n].size
    /\ LET f == fs.file[n]
       IN  Becomes([fs EXCEPT !.v = IF Walks(f, pos) THEN cacheFetchFat(@, FALSE) ELSE @,
                              !.file[n] = Sought(fs.v, f, pos)])

(* truncate() gives back what is behind, and remove() everything. *)
CutBehind(cur, behind) ==
    IF behind \in Clusters THEN fatPut(freeChain(fs.v, behind), cur :> EOC) ELSE cacheFetchFat(fs.v, FALSE)
Cut(f, length) == IF length = 0 THEN freeChain(fs.v, f.first) ELSE CutBehind(f.cur, Follow(Table(fs.v), f.cur))
Truncated(n, length, v, g) ==
    Becomes([fs EXCEPT !.v = Synced(v, g),
                       !.file[n] = [Sought(v, g, Min({fs.file[n].pos, length})) EXCEPT !.dirty = FALSE],
                       !.content[n] = SubSeq(@, 1, length), !.durable[n] = SubSeq(fs.content[n], 1, length)])
TruncateAt(n, length, f) ==
    Truncated(n, length, Cut(f, length),
              [f EXCEPT !.size = length, !.first = IF length = 0 THEN 0 ELSE @, !.dirty = TRUE])
truncate(n, length) ==
    /\ Idle /\ IsOpen(n) /\ fs.mode = "cut" /\ length <= fs.file[n].size /\ fs.file[n].size # 0
    /\ TruncateAt(n, length, Sought(fs.v, fs.file[n], length))

remove(n) ==
    /\ Idle /\ IsOpen(n) /\ fs.mode = "cut"
    /\ LET f == fs.file[n]
           v == IF f.first # 0 THEN freeChain(fs.v, f.first) ELSE fs.v
           d == cacheFetchData(v, DIR, TRUE)
       IN  Becomes([fs EXCEPT !.v = cacheSync([d EXCEPT !.data.block[f.entry] = FREE]), !.file[n] = Closed,
                              !.content[n] = <<>>, !.durable[n] = <<>>])

-----------------------------------------------------------------------------
(* Reading and writing.  Where a cluster begins the next one is looked up,   *)
(* or allocated; whole blocks go past the cache, unless they are in it.      *)
Begins(f) == f.pos % ClusterBytes = 0
Piece(f, left) == Min({BYTES - (f.pos % BYTES), left})
BlockOf(f) == clusterStartBlock(f.cur) + (f.pos % ClusterBytes) \div BYTES

Over(s, n, pos, size, value) ==
    [i \in 1 .. n |-> IF i \in pos + 1 .. pos + size THEN value ELSE s[i]]

Start(op, n, size) ==
    /\ Idle /\ IsOpen(n)
    /\ op = "write" => fs.writes < MAX_WRITES /\ fs.file[n].pos + size <= MAX_SIZE
    /\ op = "read" => fs.file[n].pos < fs.file[n].size
    /\ fs' = [fs EXCEPT !.job = [op |-> op, name |-> n,
                                 left |-> IF op = "read" THEN Min({size, fs.file[n].size - fs.file[n].pos}) ELSE size],
                        !.writes = IF op = "write" THEN @ + 1 ELSE @,
                        !.durable[n] = IF op = "write" THEN Over(@, Len(@), fs.file[n].pos, size, -2) ELSE @]

Left(left) == IF left = 0 THEN NoJob ELSE [fs.job EXCEPT !.left = left]

ReadsFrom(v, f) ==
    IF ~Begins(f) THEN f
    ELSE [f EXCEPT !.cur = IF f.pos = 0 THEN f.first ELSE Follow(Table(v), f.cur)]

(* v is the volume behind the read, block what was read. *)
HasRead(f, v, block) ==
    LET n == fs.job.name
        size == Piece(f, fs.job.left)
    IN  Becomes([fs EXCEPT !.v = v, !.file[n] = [f EXCEPT !.pos = @ + size],
                           !.misread = @ \/ SubSeq(block, (f.pos % BYTES) + 1, (f.pos % BYTES) + size)
                                             # SubSeq(fs.content[n], f.pos + 1, f.pos + size),
                           !.job = Left(fs.job.left - size)])
ReadCached(f, v) == HasRead(f, v, v.data.block)
ReadIn(f, v) ==
    IF fs.job.left < BYTES \/ f.pos % BYTES # 0 \/ BlockOf(f) = v.data.lbn
    THEN ReadCached(f, cacheFetchData(v, BlockOf(f), FALSE))
    ELSE HasRead(f, v, v.disk[BlockOf(f)])
ReadBlock(f) == ReadIn(f, IF Begins(f) /\ f.pos # 0 THEN cacheFetchFat(fs.v, FALSE) ELSE fs.v)

read ==
    /\ fs.job.op = "read"
    /\ ReadBlock(ReadsFrom(fs.v, fs.file[fs.job.name]))

Added(f, a) ==
    [v |-> a.v, hangs |-> a.hangs, ok |-> a.next # 0,
     f |-> [f EXCEPT !.dirty = TRUE, !.cur = IF a.next # 0 THEN a.next ELSE @, !.first = IF @ = 0 THEN a.next ELSE @]]
addCluster(v, f) == Added(f, allocateCluster(v, f.cur))

(* Where a write goes: next is the cluster to write to, or 0 for a new one.  *)
Goes(v, f, next) ==
    IF next \notin Clusters THEN addCluster(v, f)
    ELSE [v |-> IF Begins(f) /\ f.cur # 0 THEN cacheFetchFat(v, FALSE) ELSE v,
          f |-> [f EXCEPT !.cur = next], ok |-> TRUE, hangs |-> FALSE]
WritesTo(v, f) ==
    Goes(v, f, CASE ~Begins(f) -> f.cur
                 [] Begins(f) /\ f.cur = 0 -> f.first
                 [] OTHER -> Follow(Table(v), f.cur))

(* A part of a block is changed in the cache, which is written when the      *)
(* block is full; a block behind the end need not be read before.           *)
Part(v, part, value) == [v EXCEPT !.data.block = [i \in 1 .. BYTES |-> IF i \in part THEN value ELSE @[i]]]
FullOut(v, part) == IF BYTES \in part THEN LineSync(v, "data") ELSE v
PutPart(v, f, size, value) ==
    LET part == (f.pos % BYTES) + 1 .. (f.pos % BYTES) + size
        fresh == f.pos % BYTES = 0 /\ f.pos >= f.size
    IN  FullOut(Part(IF fresh THEN Reserve(v, BlockOf(f)) ELSE cacheFetchData(v, BlockOf(f), TRUE), part, value), part)
PutBlock(v, f, value) ==
    LET w == IF v.data.lbn = BlockOf(f) THEN [v EXCEPT !.data = NoLine] ELSE v
    IN  writeBlock(w, BlockOf(f), [i \in 1 .. BYTES |-> value])

Written(f) == IF f.pos > f.size THEN [f EXCEPT !.size = f.pos, !.dirty = TRUE] ELSE f

(* v is the volume behind the write, f the file before it. *)
HasWritten(f, size, v) ==
    LET n == fs.job.name
        left == fs.job.left - size
        g == [f EXCEPT !.pos = @ + size]
    IN  Becomes([fs EXCEPT !.v = v, !.file[n] = IF left = 0 THEN Written(g) ELSE g,
                           !.content[n] = Over(@, Max({Len(@), f.pos + size}), f.pos, size, fs.writes),
                           !.job = Left(left)])
WriteFails(a) ==
    Becomes([fs EXCEPT !.v = a.v, !.file[fs.job.name] = a.f, !.hangs = a.hangs, !.job.op = "failed",
                       !.content[fs.job.name] = SubSeq(@, 1, a.f.size)])
WriteAt(a, f, size) ==
    IF ~a.ok THEN WriteFails(a)
    ELSE IF f.pos % BYTES = 0 /\ fs.job.left >= BYTES THEN HasWritten(f, size, PutBlock(a.v, f, fs.writes))
    ELSE HasWritten(f, size, PutPart(a.v, f, size, fs.writes))
WriteTo(a) == WriteAt(a, a.f, Piece(a.f, fs.job.left))

write == fs.job.op = "write" /\ WriteTo(WritesTo(fs.v, fs.file[fs.job.name]))

FatNext ==
    \/ Mount \/ read \/ write
    \/ \E n \in Names :
           \/ sync(n) \/ close(n) \/ remove(n)
           \/ \E trunc \in BOOLEAN : open(n, trunc)
           \/ \E pos \in Places : seekSet(n, pos) \/ truncate(n, pos)
           \/ \E size \in Sizes, op \in {"read", "write"} : Start(op, n, size)

-----------------------------------------------------------------------------
(* The card as it would be with the cache written back. *)
Now == cacheSync(fs.v).disk
Shown(disk, n) == CASE IsOpen(n) -> fs.file[n]
                    [] ~IsOpen(n) /\ Entry(disk, n) = {} -> FREE
                    [] ~IsOpen(n) /\ Entry(disk, n) # {} -> disk[DIR][Max(Entry(disk, n))]

(* What was written last is what is in a file, and what is read from it; a   *)
(* write that failed has not made it longer (FatFile.cpp:687-804, 1092-1146, *)
(* 1337-1493).                                                              *)
ContentIsKept ==
    /\ LET disk == Now
       IN  \A n \in Names :
               LET f == Shown(disk, n)
               IN  /\ Bytes(disk, f.first, f.size) = SubSeq(fs.content[n], 1, f.size)
                   /\ (fs.job.name = n /\ fs.job.op = "write") \/ f.size = Len(fs.content[n])
    /\ ~fs.misread

(* No cluster belongs to two files, and none to nobody as long as no write  *)
(* has been cut off; every byte of a file has a cluster, also when the power *)
(* has failed between any two writes (FatVolume.cpp:72-121, 348-372).       *)
ChainsAreApart ==
    LET disk == Now
        chain == [n \in Names |-> Chain(disk[FAT], Shown(disk, n).first)]
    IN  /\ \A n \in Names :
               /\ Shown(disk, n).size <= ClusterBytes * Len(chain[n])
               /\ chain[n] # <<>> => disk[FAT][Last(chain[n])] = EOC
               /\ \A m \in Names \ {n} : Range(chain[n]) \cap Range(chain[m]) = {}
        /\ fs.crashes = 0 => \A c \in Clusters : disk[FAT][c] # 0 => \E m \in Names : c \in Range(chain[m])

(* What was in a file when it was flushed is in it after a power failure, up *)
(* to what has been written over since (FatFile.cpp:1153-1192).             *)
FlushedIsSafe ==
    fs.after => \A n \in Names : /\ Len(fs.content[n]) >= Len(fs.durable[n])
                                 /\ \A i \in DOMAIN fs.durable[n] :
                                        fs.durable[n][i] # -2 => fs.content[n][i] = fs.durable[n][i]
=============================================================================
