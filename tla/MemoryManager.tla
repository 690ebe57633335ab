----------------------------- MODULE MemoryManager -----------------------------
(***************************************************************************)
(* memoryManager: chunks of executable memory.  Blocks of _allocationSize  *)
(* bytes are cut into chunks whose size is a power of two; the free chunks *)
(* of a size are linked through their first word, which holds the index of *)
(* the list while the chunk is handed out.  Larger requests get a region   *)
(* of their own.                                                           *)
(*                                                                         *)
(* The callers are array::createInt, nativeCode::create and                *)
(* jumpTable::create.  They compute the number of bytes they need in a     *)
(* size_t, so alloc is asked for that number modulo the word size.         *)
(***************************************************************************)
EXTENDS Memory, FiniteSets

CONSTANTS
  WordSize,        \* 2^32
  HeaderSize,      \* sizeof(_allocedChunk)
  MinChunkSize,    \* _minChunkSize
  AllocationSize,  \* _allocationSize and _maxChunkSize
  Needs            \* the numbers of bytes callers need

ASSUME SizeAssumption ==
  /\ WordSize \in Nat \ {0}
  /\ HeaderSize \in Nat \ {0}
  /\ MinChunkSize \in Nat
  /\ AllocationSize \in Nat
  /\ HeaderSize < MinChunkSize
  /\ Needs \subseteq Nat

VARIABLES
  regions,    \* the regions VirtualAlloc has returned, each with its size
  blocks,     \* _blocks, each with the size of its chunks
  allChunks,  \* _allChunks: the first free chunk of each size
  words,      \* the first word of every chunk, a link or an index
  live,       \* the pointers handed out, each with the bytes its owner uses
  outcome     \* how the last call ended

vars == << regions, blocks, allChunks, words, live, outcome >>

-----------------------------------------------------------------------------
\* _allChunkSizes
ChunkSizes ==
  { s \in MinChunkSize .. AllocationSize : \E k \in 0 .. AllocationSize : s = 2^k }

\* A chunk size stands for its index in _allChunkSizes, 0 for _bigChunkIndex.
BigChunkIndex == 0

Link(p)  == [kind |-> "next", next |-> p]
Index(c) == [kind |-> "index", index |-> c]

\* The chunks a region is cut into.
Chunks(r, c) ==
  { Address(r, k * c) : k \in 0 .. (AllocationSize \div c) - 1 }

\* The chunk of a pointer and the pointer to a chunk.
Chunk(p) == Plus(p, - HeaderSize)
Body(p)  == Plus(p, HeaderSize)

\* What alloc looks for a chunk of: size + sizeof(_allocedChunk) in a size_t.
UnheadedSize(need) == need % WordSize
ChunkBytes(need)   == ((need % WordSize) + HeaderSize) % WordSize

\* lower_bound in _allChunkSizes
Serves(c, need) ==
  /\ ChunkBytes(need) <= c
  /\ \A d \in ChunkSizes : ChunkBytes(need) <= d => c <= d

IsBig(need) == \A c \in ChunkSizes : c < ChunkBytes(need)

-----------------------------------------------------------------------------
Init ==
  /\ regions = << >>
  /\ blocks = << >>
  /\ allChunks = [c \in ChunkSizes |-> Null]
  /\ words = << >>
  /\ live = << >>
  /\ outcome = "constructed"

Usable == outcome # "destroyed"

With(f, x, y) == [z \in DOMAIN f \union {x} |-> IF z = x THEN y ELSE f[z]]

Without(f, S) == [z \in DOMAIN f \ S |-> f[z]]

InRegions(S) == { p \in DOMAIN words : p.region \in S }

\* VirtualAlloc returned region r, of n bytes.
Mapped(r, n) ==
  /\ r \in Regions \ DOMAIN regions
  /\ regions' = With(regions, r, n)

\* alloc returns b.  In live a pointer that somebody has already would vanish,
\* so the outcome remembers it.
Returns(b, need) ==
  /\ live' = With(live, b, need)
  /\ outcome' = IF b \in DOMAIN live THEN "shared" ELSE "returned"

\* The chunk p at the head of its list, in memory, is handed out.
HeadKept(p, c, memory) == p
NextHead(p, c, memory) == memory[p].next

HandsOut(p, c, need, memory) ==
  /\ allChunks' = [allChunks EXCEPT ![c] = NextHead(p, c, memory)]
  /\ words' = [memory EXCEPT ![p] = Index(c)]
  /\ Returns(Body(p), need)

AllocFromList(need, c) ==
  /\ Usable
  /\ c \in ChunkSizes /\ Serves(c, need)
  /\ allChunks[c] # Null
  /\ HandsOut(allChunks[c], c, need, words)
  /\ UNCHANGED << regions, blocks >>

\* prepareNewBlock: every chunk is linked to the one that follows it.
LinkedPastTheEnd(r, c) ==
  [p \in DOMAIN words \union Chunks(r, c) |->
     IF p \in Chunks(r, c) THEN Link(Plus(p, c)) ELSE words[p]]
Linked(r, c) ==
  [p \in DOMAIN words \union Chunks(r, c) |->
     IF p \in Chunks(r, c)
     THEN Link(IF Plus(p, c) \in Chunks(r, c) THEN Plus(p, c) ELSE Null)
     ELSE words[p]]

AllocFromNewBlock(need, c, r) ==
  /\ Usable
  /\ c \in ChunkSizes /\ Serves(c, need)
  /\ allChunks[c] = Null
  /\ Mapped(r, AllocationSize)
  /\ blocks' = With(blocks, r, c)
  /\ HandsOut(Address(r, 0), c, need, Linked(r, c))

AllocBig(need, r) ==
  /\ Usable
  /\ IsBig(need)
  /\ Mapped(r, ChunkBytes(need))
  /\ words' = With(words, Address(r, 0), Index(BigChunkIndex))
  /\ Returns(Body(Address(r, 0)), need)
  /\ UNCHANGED << blocks, allChunks >>

\* VirtualAlloc returned null, for a big chunk or for a new block.
AllocThrows(need) ==
  /\ Usable
  /\ IsBig(need) \/ \E c \in ChunkSizes : Serves(c, need) /\ allChunks[c] = Null
  /\ outcome' = "systemError"
  /\ UNCHANGED << regions, blocks, allChunks, words, live >>

\* _blocks.push_back throws when the new block has been mapped already: it stays
\* mapped, and is cut into no chunks.
BlockNotRecorded(need, c, r) ==
  /\ Usable
  /\ c \in ChunkSizes /\ Serves(c, need)
  /\ allChunks[c] = Null
  /\ Mapped(r, AllocationSize)
  /\ outcome' = "bad_alloc"
  /\ UNCHANGED << blocks, allChunks, words, live >>

-----------------------------------------------------------------------------
IndexOf(p) == words[Chunk(p)].index

\* The word of a chunk that is put back before the rest of its list.
LinkLost(c) == Link(Null)
LinkToHead(c) == Link(allChunks[c])

Release(p) ==
  /\ Usable
  /\ p \in DOMAIN live
  /\ IndexOf(p) # BigChunkIndex
  /\ words' = [words EXCEPT ![Chunk(p)] = LinkToHead(IndexOf(p))]
  /\ allChunks' = [allChunks EXCEPT ![IndexOf(p)] = Chunk(p)]
  /\ live' = Without(live, {p})
  /\ outcome' = "returned"
  /\ UNCHANGED << regions, blocks >>

\* VirtualFree gets the pointer the caller had, which is not the base of the
\* region.  Its documentation asks for the base; an implementation that rounds
\* down to a page accepts it.  Both are possible here.
ReleaseBig(p) ==
  /\ Usable
  /\ p \in DOMAIN live
  /\ IndexOf(p) = BigChunkIndex
  /\ regions' = Without(regions, {p.region})
  /\ words' = Without(words, InRegions({p.region}))
  /\ live' = Without(live, {p})
  /\ outcome' = "returned"
  /\ UNCHANGED << blocks, allChunks >>

ReleaseBigThrows(p) ==
  /\ Usable
  /\ p \in DOMAIN live
  /\ IndexOf(p) = BigChunkIndex
  /\ live' = Without(live, {p})
  /\ outcome' = "systemError"
  /\ UNCHANGED << regions, blocks, allChunks, words >>

\* The destructor frees the blocks, and with them every chunk that was not
\* released; big chunks that were not released stay.
Destroy ==
  /\ Usable
  /\ regions' = Without(regions, DOMAIN blocks)
  /\ words' = Without(words, InRegions(DOMAIN blocks))
  /\ blocks' = << >>
  /\ allChunks' = << >>
  /\ live' = << >>
  /\ outcome' = "destroyed"

Next ==
  \/ \E need \in Needs :
       \/ \E c \in ChunkSizes : AllocFromList(need, c)
       \/ \E c \in ChunkSizes, r \in Regions : AllocFromNewBlock(need, c, r)
       \/ \E c \in ChunkSizes, r \in Regions : BlockNotRecorded(need, c, r)
       \/ \E r \in Regions : AllocBig(need, r)
       \/ AllocThrows(need)
  \/ \E p \in DOMAIN live : Release(p) \/ ReleaseBig(p) \/ ReleaseBigThrows(p)
  \/ Destroy

Spec == Init /\ [][Next]_vars

-----------------------------------------------------------------------------
AllChunks == UNION { Chunks(r, blocks[r]) : r \in DOMAIN blocks }

\* The first words of the other regions, but for those of blocks that were not
\* recorded.
BigChunks ==
  { Address(r, 0) : r \in DOMAIN regions \ DOMAIN blocks } \intersect DOMAIN words

FreeChunks(c) ==
  { p \in AllChunks : blocks[p.region] = c /\ words[p].kind = "next" }

\* The bytes of a chunk, its header included.
Extent(p) ==
  IF p.region \in DOMAIN blocks THEN blocks[p.region] ELSE regions[p.region]

\* The type of every variable: each block was cut for one size, each chunk of
\* it has a first word, and no other region has more than one.
TypeOK ==
  /\ DOMAIN regions \subseteq Regions
  /\ \A r \in DOMAIN regions : regions[r] \in Nat
  /\ DOMAIN blocks \subseteq DOMAIN regions
  /\ \A r \in DOMAIN blocks :
       blocks[r] \in ChunkSizes /\ regions[r] = AllocationSize
  /\ DOMAIN allChunks = IF Usable THEN ChunkSizes ELSE {}
  /\ DOMAIN words = AllChunks \union BigChunks
  /\ \A p \in AllChunks :
       \/ words[p] = Index(blocks[p.region])
       \/ words[p] \in { Link(q) : q \in AllChunks \union {Null} }
  /\ \A p \in BigChunks : words[p] = Index(BigChunkIndex)
  /\ \A b \in DOMAIN live : live[b] \in Needs
  /\ outcome \in {"constructed", "returned", "shared", "systemError", "bad_alloc",
                 "destroyed"}

\* A pointer that is handed out is the body of a chunk that is not on a list
\* and that is large enough.
LiveInChunks ==
  \A b \in DOMAIN live :
    /\ b = Body(Chunk(b))
    /\ Chunk(b) \in DOMAIN words
    /\ words[Chunk(b)].kind = "index"
    /\ HeaderSize + live[b] <= Extent(Chunk(b))

\* The list of a size holds free chunks of that size only, and no chunk is
\* reached twice: links do not meet and none leads back to the first chunk.
ListsLinkFreeChunks ==
  \A c \in DOMAIN allChunks :
    /\ allChunks[c] \in FreeChunks(c) \union {Null}
    /\ \A p \in FreeChunks(c) :
         /\ words[p].next \in FreeChunks(c) \union {Null}
         /\ words[p].next = Null \/ words[p].next # allChunks[c]
         /\ \A q \in FreeChunks(c) :
              words[p].next = words[q].next => p = q \/ words[p].next = Null

\* What every call preserves if no size computation wraps.
InductiveInvariant ==
  /\ TypeOK
  /\ LiveInChunks
  /\ ListsLinkFreeChunks
  /\ outcome # "shared"

NoSizeWraps == \A need \in Needs : need + HeaderSize < WordSize

\* Two callers never get memory that overlaps, or the same pointer, however allocations
\* of all sizes and releases are interleaved and whichever of them fail; what
\* they get is mapped to the last byte.
LiveApart ==
  /\ outcome # "shared"
  /\ \A b \in DOMAIN live :
       /\ b.region \in DOMAIN regions
       /\ b.offset + live[b] <= regions[b.region]
       /\ \A d \in DOMAIN live : b # d => Apart(b, live[b], d, live[d])

\* A caller that writes all its bytes never hits a word of the manager: neither
\* the index its own or another chunk is released by nor the link of a free one
\* (memoryManager::_freeChunk, _allocedChunk).
WordsOutOfReach ==
  \A b \in DOMAIN live, p \in DOMAIN words : Apart(b, live[b], p, HeaderSize)

\* The chunks on the list of a size, followed from the first.
OnList(c) ==
  LET followed[n \in 0 .. Cardinality(DOMAIN words)] ==
        IF n = 0 THEN allChunks[c]
        ELSE IF followed[n - 1] \in DOMAIN words
             THEN words[followed[n - 1]].next ELSE Null
  IN { followed[n] : n \in DOMAIN followed } \ {Null}

\* No chunk is ever lost: one that nobody holds is on the list of its size, so
\* that a new block is made only when every chunk of the size is in use.
UnusedChunksListed ==
  \A c \in DOMAIN allChunks :
    OnList(c) = { p \in AllChunks : blocks[p.region] = c /\ Body(p) \notin DOMAIN live }

\* The memory an array gets holds the number of platters it is created for
\* (array.h:38), native code its bytes and a jump table its entries.
HoldsNeed ==
  \A b \in DOMAIN live : HeaderSize + live[b] <= Extent(Chunk(b))
==============================================================================
