-------------------------- MODULE MemoryManagerProofs --------------------------
(***************************************************************************)
(* Safety of memoryManager for any block size, header size and number of   *)
(* regions, provided no size computation wraps, and whichever calls run    *)
(* out of memory; and that its free lists lose no chunk.                   *)
(***************************************************************************)
EXTENDS MemoryManager, FiniteSetTheorems, TLAPS

-----------------------------------------------------------------------------
\* Chunk sizes are positive and leave room for a header.
LEMMA ChunkSizeFacts ==
  ASSUME NEW c \in ChunkSizes
  PROVE  c \in Nat /\ HeaderSize < c /\ c <= AllocationSize
BY SizeAssumption DEF ChunkSizes

\* There is room for a chunk at each of the first a \div c multiples of c.
LEMMA MultipleFits ==
  ASSUME NEW a \in Nat, NEW c \in Nat, c > 0, NEW k \in 0 .. (a \div c) - 1
  PROVE  k * c \in Nat /\ k * c + c <= a
<1> DEFINE n == a \div c
<1>1. n \in Nat /\ n * c <= a
  OBVIOUS
<1>2. PICK d \in Nat : n = k + 1 + d
  <2>1. n - (k + 1) \in Nat /\ n = k + 1 + (n - (k + 1))
    BY <1>1
  <2>2. QED BY <2>1
<1>3. n * c = k * c + c + d * c /\ d * c \in Nat /\ k * c \in Nat
  BY <1>1, <1>2
<1> QED BY <1>1, <1>3

\* Different multiples of c are at least c apart.
LEMMA MultiplesApart ==
  ASSUME NEW c \in Nat, NEW k \in Nat, NEW m \in Nat, k < m
  PROVE  k * c + c <= m * c
<1>1. PICK d \in Nat : m = k + 1 + d
  <2>1. m - (k + 1) \in Nat /\ m = k + 1 + (m - (k + 1))
    OBVIOUS
  <2>2. QED BY <2>1
<1>2. m * c = k * c + c + d * c /\ d * c \in Nat /\ k * c \in Nat
  BY <1>1
<1> QED BY <1>2

\* A chunk lies inside its region.
LEMMA ChunkPlace ==
  ASSUME NEW c \in ChunkSizes, NEW r, NEW p \in Chunks(r, c)
  PROVE  /\ p = Address(r, p.offset)
         /\ p.region = r
         /\ p.offset \in Nat
         /\ p.offset + c <= AllocationSize
<1>1. PICK k \in 0 .. (AllocationSize \div c) - 1 : p = Address(r, k * c)
  BY DEF Chunks
<1>2. c \in Nat /\ c > 0 /\ AllocationSize \in Nat
  BY ChunkSizeFacts, SizeAssumption
<1>3. k * c \in Nat /\ k * c + c <= AllocationSize
  BY <1>2, MultipleFits
<1> QED BY <1>1, <1>3 DEF Address

\* The chunks of a block do not overlap.
LEMMA ChunksApart ==
  ASSUME NEW c \in ChunkSizes, NEW r,
         NEW p \in Chunks(r, c), NEW q \in Chunks(r, c), p # q
  PROVE  p.offset + c <= q.offset \/ q.offset + c <= p.offset
<1>1. PICK k \in 0 .. (AllocationSize \div c) - 1 : p = Address(r, k * c)
  BY DEF Chunks
<1>2. PICK m \in 0 .. (AllocationSize \div c) - 1 : q = Address(r, m * c)
  BY DEF Chunks
<1>3. c \in Nat
  BY ChunkSizeFacts
<1>4. k < m \/ m < k
  BY <1>1, <1>2
<1>5. k * c + c <= m * c \/ m * c + c <= k * c
  BY <1>3, <1>4, MultiplesApart
<1> QED BY <1>1, <1>2, <1>5 DEF Address

\* A block has at least one chunk, at its first byte.
LEMMA FirstChunk ==
  ASSUME NEW c \in ChunkSizes, NEW r
  PROVE  Address(r, 0) \in Chunks(r, c)
<1>1. c \in Nat /\ c > 0 /\ c <= AllocationSize /\ AllocationSize \in Nat
  BY ChunkSizeFacts, SizeAssumption
<1>2. (AllocationSize \div c) >= 1
  BY <1>1
<1>3. 0 \in 0 .. (AllocationSize \div c) - 1 /\ 0 * c = 0
  BY <1>1, <1>2
<1> QED BY <1>3 DEF Chunks

-----------------------------------------------------------------------------
\* A chunk of a block is one its region has been cut into.
LEMMA InBlock ==
  ASSUME NEW p
  PROVE  p \in AllChunks <=>
           \E r \in DOMAIN blocks : p \in Chunks(r, blocks[r])
BY DEF AllChunks

\* A chunk of a block, its place and its size.
LEMMA ChunkOfBlock ==
  ASSUME TypeOK, NEW p \in AllChunks
  PROVE  /\ p.region \in DOMAIN blocks
         /\ p \in Chunks(p.region, blocks[p.region])
         /\ blocks[p.region] \in ChunkSizes
         /\ p = Address(p.region, p.offset)
         /\ p.offset \in Nat
         /\ p.offset + blocks[p.region] <= AllocationSize
<1>1. PICK r \in DOMAIN blocks : p \in Chunks(r, blocks[r])
  BY InBlock
<1>2. blocks[r] \in ChunkSizes
  BY DEF TypeOK
<1> QED BY <1>1, <1>2, ChunkPlace

\* The null pointer is not a chunk.
LEMMA NullNotChunk ==
  ASSUME TypeOK
  PROVE  Null \notin AllChunks
<1>1. SUFFICES ASSUME Null \in AllChunks PROVE FALSE
  OBVIOUS
<1>2. Null.region \in Regions
  BY <1>1, ChunkOfBlock DEF TypeOK
<1> QED BY <1>2, NoRegionAssumption DEF Null, Address

\* What has a first word lies in a region, header and all.
LEMMA WordPlace ==
  ASSUME TypeOK, NEW p \in DOMAIN words
  PROVE  /\ p.region \in DOMAIN regions
         /\ p = Address(p.region, p.offset)
         /\ p.offset \in Nat
         /\ Extent(p) \in Nat
         /\ p.offset + Extent(p) <= regions[p.region]
         /\ p.region \in DOMAIN blocks <=> p \in AllChunks
         /\ p.region \notin DOMAIN blocks => p.offset = 0
<1>1. CASE p \in AllChunks
  <2>1. p.region \in DOMAIN regions /\ regions[p.region] = AllocationSize
    BY <1>1, ChunkOfBlock DEF TypeOK
  <2>2. Extent(p) = blocks[p.region] /\ Extent(p) \in Nat
    BY <1>1, ChunkOfBlock, ChunkSizeFacts DEF Extent
  <2>3. QED BY <1>1, <2>1, <2>2, ChunkOfBlock
<1>2. CASE p \notin AllChunks
  <2>1. PICK r \in DOMAIN regions \ DOMAIN blocks : p = Address(r, 0)
    BY <1>2 DEF TypeOK, BigChunks
  <2>2. p.region = r /\ p.offset = 0 /\ p = Address(p.region, p.offset)
    BY <2>1 DEF Address
  <2>3. Extent(p) = regions[r] /\ regions[r] \in Nat
    BY <2>2 DEF Extent, TypeOK
  <2>4. QED BY <1>2, <2>1, <2>2, <2>3
<1> QED BY <1>1, <1>2

\* Two chunks of any kind do not overlap.
LEMMA ExtentsApart ==
  ASSUME TypeOK, NEW p \in DOMAIN words, NEW q \in DOMAIN words, p # q
  PROVE  /\ Apart(p, Extent(p), q, Extent(q))
         /\ p.region = q.region => p \in AllChunks /\ q \in AllChunks
<1>1. CASE p.region # q.region
  BY <1>1 DEF Apart
<1>2. CASE p.region = q.region
  <2>1. p.region \in DOMAIN blocks
    BY <1>2, WordPlace DEF Address
  <2>2. p \in AllChunks /\ q \in AllChunks
    BY <1>2, <2>1, WordPlace
  <2>3. blocks[p.region] \in ChunkSizes
        /\ p \in Chunks(p.region, blocks[p.region])
        /\ q \in Chunks(p.region, blocks[p.region])
    BY <1>2, <2>2, ChunkOfBlock
  <2>4. Extent(p) = blocks[p.region] /\ Extent(q) = blocks[p.region]
    BY <1>2, <2>1 DEF Extent
  <2>5. QED BY <2>2, <2>3, <2>4, ChunksApart DEF Apart
<1> QED BY <1>1, <1>2

\* A pointer that is handed out and its chunk.
LEMMA LivePlace ==
  ASSUME InductiveInvariant, NEW b \in DOMAIN live
  PROVE  /\ Chunk(b) \in DOMAIN words
         /\ b.region = Chunk(b).region
         /\ b.offset = Chunk(b).offset + HeaderSize
         /\ b = Body(Chunk(b))
         /\ live[b] \in Nat
         /\ HeaderSize + live[b] <= Extent(Chunk(b))
         /\ words[Chunk(b)].kind = "index"
<1>1. Chunk(b) \in DOMAIN words /\ b = Body(Chunk(b))
  BY DEF InductiveInvariant, LiveInChunks
<1>2. b.region = Chunk(b).region /\ b.offset = Chunk(b).offset + HeaderSize
  BY <1>1 DEF Body, Plus, Address
<1>3. live[b] \in Nat
  BY SizeAssumption DEF InductiveInvariant, TypeOK
<1> QED BY <1>1, <1>2, <1>3 DEF InductiveInvariant, LiveInChunks

\* Two pointers that are handed out never share a chunk.
LEMMA DifferentChunks ==
  ASSUME InductiveInvariant, NEW b \in DOMAIN live, NEW d \in DOMAIN live,
         Chunk(b) = Chunk(d)
  PROVE  b = d
BY LivePlace

\* A chunk goes to the caller as a body and comes back as the same chunk.
LEMMA ChunkOfBody ==
  ASSUME NEW r, NEW o \in Int
  PROVE  Chunk(Body(Address(r, o))) = Address(r, o)
BY SizeAssumption DEF Chunk, Body, Plus, Address

\* Bodies of different chunks do not overlap.
LEMMA InvariantLiveApart == InductiveInvariant => LiveApart
<1> SUFFICES ASSUME InductiveInvariant PROVE LiveApart
  OBVIOUS
<1> USE DEF InductiveInvariant
<1>1. ASSUME NEW b \in DOMAIN live
      PROVE  b.region \in DOMAIN regions /\ b.offset + live[b] <= regions[b.region]
  <2>1. regions[b.region] \in Nat
    BY LivePlace, WordPlace DEF TypeOK
  <2>2. QED BY <2>1, LivePlace, WordPlace, SizeAssumption
<1>2. ASSUME NEW b \in DOMAIN live, NEW d \in DOMAIN live, b # d
      PROVE  Apart(b, live[b], d, live[d])
  <2> DEFINE p == Chunk(b)
             q == Chunk(d)
  <2>1. p \in DOMAIN words /\ q \in DOMAIN words /\ p # q
    BY <1>2, LivePlace, DifferentChunks
  <2>2. Apart(p, Extent(p), q, Extent(q))
    BY <2>1, ExtentsApart
  <2>3. /\ p.offset \in Nat /\ Extent(p) \in Nat
        /\ q.offset \in Nat /\ Extent(q) \in Nat
    BY <2>1, WordPlace
  <2>4. /\ b.region = p.region /\ b.offset = p.offset + HeaderSize
        /\ live[b] \in Nat /\ HeaderSize + live[b] <= Extent(p)
    BY LivePlace
  <2>5. /\ d.region = q.region /\ d.offset = q.offset + HeaderSize
        /\ live[d] \in Nat /\ HeaderSize + live[d] <= Extent(q)
    BY LivePlace
  <2> HIDE DEF p, q
  <2>6. QED BY <2>2, <2>3, <2>4, <2>5, SizeAssumption DEF Apart
<1> QED BY <1>1, <1>2 DEF LiveApart

\* A body lies between its own header and the next chunk's.
LEMMA InvariantWordsOutOfReach == InductiveInvariant => WordsOutOfReach
<1> SUFFICES ASSUME InductiveInvariant, NEW b \in DOMAIN live, NEW p \in DOMAIN words
             PROVE  Apart(b, live[b], p, HeaderSize)
  BY DEF WordsOutOfReach
<1> USE DEF InductiveInvariant
<1> DEFINE q == Chunk(b)
<1>1. q \in DOMAIN words /\ q.offset \in Nat /\ p.offset \in Nat /\ Extent(q) \in Nat
  BY LivePlace, WordPlace
<1>2. /\ b.region = q.region /\ b.offset = q.offset + HeaderSize
      /\ live[b] \in Nat /\ HeaderSize + live[b] <= Extent(q)
  BY LivePlace
<1>3. CASE p = q
  BY <1>1, <1>2, <1>3, SizeAssumption DEF Apart
<1>4. CASE p # q /\ p.region = q.region
  <2>1. Apart(q, Extent(q), p, Extent(p)) /\ p \in AllChunks
    BY <1>1, <1>4, ExtentsApart
  <2>2. Extent(p) \in Nat /\ HeaderSize < Extent(p)
    BY <2>1, ChunkOfBlock, ChunkSizeFacts DEF Extent
  <2>3. QED BY <1>1, <1>2, <1>4, <2>1, <2>2, SizeAssumption DEF Apart
<1>5. CASE p.region # q.region
  BY <1>2, <1>5 DEF Apart
<1> QED BY <1>3, <1>4, <1>5

-----------------------------------------------------------------------------
\* The constructor leaves nothing mapped and nothing handed out.
LEMMA InitInvariant == Init => InductiveInvariant
<1> SUFFICES ASSUME Init PROVE InductiveInvariant
  OBVIOUS
<1> USE DEF Init
<1>1. AllChunks = {} /\ BigChunks = {} /\ DOMAIN words = {}
  BY DEF AllChunks, BigChunks
<1>2. TypeOK
  BY <1>1 DEF TypeOK, Usable
<1>3. LiveInChunks
  BY DEF LiveInChunks
<1>4. ListsLinkFreeChunks
  BY <1>1 DEF ListsLinkFreeChunks, FreeChunks
<1> QED BY <1>2, <1>3, <1>4 DEF InductiveInvariant

\* Where nothing about the blocks changes, neither do the chunks.
LEMMA SameChunks ==
  ASSUME blocks' = blocks
  PROVE  AllChunks' = AllChunks
BY DEF AllChunks

\* A request that lower_bound serves with c fits in c next to the header.
LEMMA ServesNeed ==
  ASSUME NoSizeWraps, NEW need \in Needs
  PROVE  /\ need \in Nat
         /\ ChunkBytes(need) = HeaderSize + need
<1>1. /\ need \in Nat /\ HeaderSize \in Nat /\ WordSize \in Nat \ {0}
      /\ need + HeaderSize < WordSize
  BY SizeAssumption DEF NoSizeWraps
<1>2. need % WordSize = need
  BY <1>1
<1>3. (need + HeaderSize) % WordSize = need + HeaderSize
  BY <1>1
<1> QED BY <1>1, <1>2, <1>3 DEF ChunkBytes

\* A free chunk is on the list of its block's size only.
LEMMA FreeChunkFacts ==
  ASSUME TypeOK, NEW c, NEW p \in FreeChunks(c)
  PROVE  /\ p \in AllChunks /\ p \in DOMAIN words /\ blocks[p.region] = c
         /\ c \in ChunkSizes /\ words[p].kind = "next"
         /\ p # Null /\ p = Address(p.region, p.offset) /\ p.offset \in Nat
BY ChunkOfBlock, NullNotChunk DEF FreeChunks, TypeOK

\* Nobody has the pointer to a free chunk.
LEMMA FreeBodyNotLive ==
  ASSUME InductiveInvariant, NEW c, NEW p \in FreeChunks(c)
  PROVE  Body(p) \notin DOMAIN live
<1>1. /\ p = Address(p.region, p.offset) /\ p.offset \in Nat
      /\ words[p].kind = "next"
  BY FreeChunkFacts DEF InductiveInvariant
<1>2. Chunk(Body(p)) = p
  BY <1>1, ChunkOfBody
<1> QED BY <1>1, <1>2, LivePlace

\* Nobody has a pointer into a region that was not mapped.
LEMMA NewBodyNotLive ==
  ASSUME InductiveInvariant, NEW r, r \notin DOMAIN regions
  PROVE  Body(Address(r, 0)) \notin DOMAIN live
<1>1. \A d \in DOMAIN live : d.region \in DOMAIN regions
  BY LivePlace, WordPlace DEF InductiveInvariant
<1>2. Body(Address(r, 0)).region = r
  BY DEF Body, Plus, Address
<1> QED BY <1>1, <1>2

\* The chunk at the head of a list is taken off it: no other leads to the next.
LEMMA AllocFromListInvariant ==
  ASSUME InductiveInvariant, NoSizeWraps,
         NEW need \in Needs, NEW c \in ChunkSizes, AllocFromList(need, c)
  PROVE  InductiveInvariant'
<1>0. PICK p : p = allChunks[c]
  OBVIOUS
<1> USE DEF InductiveInvariant
<1>1. /\ DOMAIN allChunks = ChunkSizes
      /\ regions' = regions /\ blocks' = blocks /\ AllChunks' = AllChunks
      /\ BigChunks' = BigChunks
  BY SameChunks DEF AllocFromList, HandsOut, TypeOK, BigChunks
<1>2. p \in FreeChunks(c)
  BY <1>0, <1>1 DEF AllocFromList, ListsLinkFreeChunks
<1>3. /\ allChunks' = [allChunks EXCEPT ![c] = words[p].next]
      /\ words' = [words EXCEPT ![p] = Index(c)]
      /\ live' = With(live, Body(p), need)
      /\ outcome' = "returned"
      /\ Serves(c, need)
  BY <1>0, <1>2, FreeBodyNotLive DEF AllocFromList, HandsOut, Returns, NextHead
<1>4. /\ p \in AllChunks /\ p \in DOMAIN words /\ blocks[p.region] = c
      /\ p = Address(p.region, p.offset) /\ p.offset \in Nat /\ p # Null
      /\ words[p].kind = "next"
  BY <1>2, FreeChunkFacts
<1>5. /\ words'[p] = Index(c) /\ DOMAIN words' = DOMAIN words
      /\ \A q \in DOMAIN words : q # p => words'[q] = words[q]
  BY <1>3, <1>4
<1>6. TypeOK'
  <2>1. \A q \in AllChunks' :
          words'[q] = Index(blocks'[q.region])
          \/ words'[q] \in { Link(x) : x \in AllChunks' \union {Null} }
    BY <1>1, <1>4, <1>5 DEF TypeOK
  <2>2. \A q \in BigChunks' : words'[q] = Index(BigChunkIndex)
    <3> SUFFICES ASSUME NEW q \in BigChunks' PROVE words'[q] = Index(BigChunkIndex)
      OBVIOUS
    <3>1. q \in BigChunks /\ words[q] = Index(BigChunkIndex) /\ q \in DOMAIN words
      BY <1>1 DEF TypeOK
    <3>2. q # p
      BY <3>1, <1>4 DEF Index
    <3> QED BY <1>5, <3>1, <3>2
  <2>3. \A b \in DOMAIN live' : live'[b] \in Needs
    BY <1>3 DEF TypeOK, With
  <2>4. DOMAIN allChunks' = IF Usable' THEN ChunkSizes ELSE {}
    BY <1>1, <1>3 DEF Usable
  <2> QED BY <1>1, <1>3, <1>5, <2>1, <2>2, <2>3, <2>4 DEF TypeOK
<1>7. LiveInChunks'
  <2> SUFFICES ASSUME NEW b \in DOMAIN live'
               PROVE  /\ b = Body(Chunk(b))
                      /\ Chunk(b) \in DOMAIN words'
                      /\ words'[Chunk(b)].kind = "index"
                      /\ HeaderSize + live'[b] <= Extent(Chunk(b))'
    BY DEF LiveInChunks
  <2>1. CASE b = Body(p)
    <3>1. Chunk(b) = p
      BY <2>1, <1>4, ChunkOfBody
    <3>2. live'[b] = need /\ HeaderSize + need <= c
      BY <2>1, <1>3, ServesNeed DEF With, Serves
    <3>3. Extent(p)' = c
      BY <1>1, <1>4, ChunkOfBlock DEF Extent
    <3> QED BY <2>1, <1>5, <1>4, <3>1, <3>2, <3>3 DEF Index
  <2>2. CASE b # Body(p)
    <3>1. b \in DOMAIN live /\ live'[b] = live[b]
      BY <2>2, <1>3 DEF With
    <3>2. Chunk(b) # p
      BY <3>1, <1>4, LivePlace
    <3>3. Extent(Chunk(b))' = Extent(Chunk(b))
      BY <1>1 DEF Extent
    <3> QED BY <3>1, <3>2, <3>3, <1>5, LivePlace
  <2> QED BY <2>1, <2>2
<1>8. ListsLinkFreeChunks'
  <2>1. \A d : FreeChunks(d)' = FreeChunks(d) \ {p}
    BY <1>1, <1>4, <1>5 DEF FreeChunks, Index, TypeOK
  <2>2. DOMAIN allChunks' = ChunkSizes
        /\ allChunks'[c] = words[p].next
        /\ \A d \in ChunkSizes : d # c => allChunks'[d] = allChunks[d]
    BY <1>1, <1>3
  <2>3. \A d \in ChunkSizes : d # c => p \notin FreeChunks(d)
    BY <1>4 DEF FreeChunks
  <2> SUFFICES ASSUME NEW d \in ChunkSizes
               PROVE  /\ allChunks'[d] \in FreeChunks(d)' \union {Null}
                      /\ \A x \in FreeChunks(d)' :
                           /\ words'[x].next \in FreeChunks(d)' \union {Null}
                           /\ words'[x].next = Null \/ words'[x].next # allChunks'[d]
                           /\ \A y \in FreeChunks(d)' :
                                words'[x].next = words'[y].next
                                  => x = y \/ words'[x].next = Null
    BY <2>2 DEF ListsLinkFreeChunks
  <2>4. \A x \in FreeChunks(d)' : words'[x] = words[x]
    BY <2>1, <1>5, FreeChunkFacts
  <2>5. CASE d # c
    BY <2>1, <2>2, <2>3, <2>4, <2>5, <1>1 DEF ListsLinkFreeChunks
  <2>6. CASE d = c
    <3>1. words[p].next \in FreeChunks(c) \union {Null}
          /\ (words[p].next = Null \/ words[p].next # p)
      BY <1>0, <1>1, <1>2 DEF ListsLinkFreeChunks
    <3>2. \A x \in FreeChunks(c) :
            /\ words[x].next \in FreeChunks(c) \union {Null}
            /\ words[x].next = Null \/ words[x].next # p
            /\ words[x].next = words[p].next => x = p \/ words[x].next = Null
      BY <1>0, <1>1, <1>2 DEF ListsLinkFreeChunks
    <3> QED BY <3>1, <3>2, <2>1, <2>2, <2>4, <2>6, <1>1, <1>4 DEF ListsLinkFreeChunks
  <2> QED BY <2>5, <2>6
<1> QED BY <1>3, <1>6, <1>7, <1>8

\* The links of a new block lead from each of its chunks but the last to
\* another that is not the first, and no two to the same.
LEMMA NewLinks ==
  ASSUME NEW c \in ChunkSizes, NEW r \in Regions \ DOMAIN regions, TypeOK
  PROVE  /\ DOMAIN Linked(r, c) = DOMAIN words \union Chunks(r, c)
         /\ \A p \in DOMAIN words : p \notin Chunks(r, c) /\ Linked(r, c)[p] = words[p]
         /\ \A p \in Chunks(r, c) :
              /\ Linked(r, c)[p].kind = "next"
              /\ Linked(r, c)[p] = Link(Linked(r, c)[p].next)
              /\ Linked(r, c)[p].next \in (Chunks(r, c) \ {Address(r, 0)}) \union {Null}
              /\ \A q \in Chunks(r, c) :
                   Linked(r, c)[p].next = Linked(r, c)[q].next
                     => p = q \/ Linked(r, c)[p].next = Null
<1>1. \A p \in DOMAIN words : p \notin Chunks(r, c)
  BY ChunkPlace, WordPlace
<1>2. \A p \in Chunks(r, c) : Plus(p, c) # Address(r, 0)
  <2> SUFFICES ASSUME NEW p \in Chunks(r, c) PROVE Plus(p, c) # Address(r, 0)
    OBVIOUS
  <2>1. p.offset \in Nat /\ c \in Nat /\ c > 0
    BY ChunkPlace, ChunkSizeFacts, SizeAssumption
  <2>2. Plus(p, c).offset = p.offset + c /\ Address(r, 0).offset = 0
    BY DEF Plus, Address
  <2> QED BY <2>1, <2>2
<1>3. \A p, q \in Chunks(r, c) : Plus(p, c) = Plus(q, c) => p = q
  <2> SUFFICES ASSUME NEW p \in Chunks(r, c), NEW q \in Chunks(r, c),
                      Plus(p, c) = Plus(q, c)
               PROVE  p = q
    OBVIOUS
  <2>1. /\ p = Address(r, p.offset) /\ p.offset \in Nat
        /\ q = Address(r, q.offset) /\ q.offset \in Nat /\ c \in Nat
    BY ChunkPlace, ChunkSizeFacts
  <2>2. p.offset + c = q.offset + c
    BY DEF Plus, Address
  <2> QED BY <2>1, <2>2
<1>4. DOMAIN Linked(r, c) = DOMAIN words \union Chunks(r, c)
  BY DEF Linked
<1>5. \A p \in DOMAIN words : Linked(r, c)[p] = words[p]
  BY <1>1 DEF Linked
<1>6. \A p \in Chunks(r, c) :
        Linked(r, c)[p] = Link(IF Plus(p, c) \in Chunks(r, c) THEN Plus(p, c) ELSE Null)
  BY DEF Linked
<1>7. \A x : Link(x).kind = "next" /\ Link(x).next = x
  BY DEF Link
<1> QED BY <1>1, <1>2, <1>3, <1>4, <1>5, <1>6, <1>7

\* A new block adds its chunks to one list and hands out the first of them.
LEMMA AllocFromNewBlockInvariant ==
  ASSUME InductiveInvariant, NoSizeWraps,
         NEW need \in Needs, NEW c \in ChunkSizes, NEW r \in Regions,
         AllocFromNewBlock(need, c, r)
  PROVE  InductiveInvariant'
<1>0. PICK p, memory : p = Address(r, 0) /\ memory = Linked(r, c)
  OBVIOUS
<1> USE DEF InductiveInvariant
<1>1. /\ Usable /\ Serves(c, need) /\ allChunks[c] = Null
      /\ r \in Regions \ DOMAIN regions
      /\ regions' = With(regions, r, AllocationSize)
      /\ blocks' = With(blocks, r, c)
      /\ allChunks' = [allChunks EXCEPT ![c] = memory[p].next]
      /\ words' = [memory EXCEPT ![p] = Index(c)]
      /\ live' = With(live, Body(p), need)
      /\ outcome' = "returned"
  BY <1>0, NewBodyNotLive DEF AllocFromNewBlock, HandsOut, Returns, Mapped, NextHead
<1>2. /\ DOMAIN allChunks = ChunkSizes
      /\ r \notin DOMAIN blocks
      /\ DOMAIN blocks' = DOMAIN blocks \union {r}
      /\ DOMAIN regions' = DOMAIN regions \union {r}
      /\ blocks'[r] = c /\ regions'[r] = AllocationSize
      /\ \A x \in DOMAIN blocks : blocks'[x] = blocks[x]
      /\ \A x \in DOMAIN regions : regions'[x] = regions[x]
  BY <1>1 DEF TypeOK, With
<1>3. /\ p \in Chunks(r, c) /\ p.region = r /\ p.offset = 0
      /\ p = Address(p.region, p.offset) /\ p # Null
  BY <1>0, FirstChunk, NoRegionAssumption DEF Address, Null
<1>4. AllChunks' = AllChunks \union Chunks(r, c)
  BY <1>2 DEF AllChunks
<1>5. /\ DOMAIN words' = DOMAIN words \union Chunks(r, c)
      /\ words'[p] = Index(c)
      /\ \A x \in DOMAIN words : x \notin Chunks(r, c) /\ words'[x] = words[x]
      /\ \A x \in Chunks(r, c) \ {p} :
           /\ words'[x].kind = "next"
           /\ words'[x] = Link(words'[x].next)
           /\ words'[x].next \in (Chunks(r, c) \ {p}) \union {Null}
           /\ \A y \in Chunks(r, c) \ {p} :
                words'[x].next = words'[y].next => x = y \/ words'[x].next = Null
  <2>1. /\ DOMAIN memory = DOMAIN words \union Chunks(r, c)
        /\ \A x \in DOMAIN words : x \notin Chunks(r, c) /\ memory[x] = words[x]
        /\ \A x \in Chunks(r, c) :
             /\ memory[x].kind = "next"
             /\ memory[x] = Link(memory[x].next)
             /\ memory[x].next \in (Chunks(r, c) \ {p}) \union {Null}
             /\ \A y \in Chunks(r, c) :
                  memory[x].next = memory[y].next => x = y \/ memory[x].next = Null
    BY <1>0, <1>1, NewLinks
  <2>2. /\ DOMAIN words' = DOMAIN memory
        /\ words'[p] = Index(c)
        /\ \A x \in DOMAIN memory : x # p => words'[x] = memory[x]
    BY <1>1, <1>3, <2>1
  <2> QED BY <2>1, <2>2, <1>3
<1>6. /\ memory[p].next \in (Chunks(r, c) \ {p}) \union {Null}
      /\ \A x \in Chunks(r, c) \ {p} :
           words'[x].next = memory[p].next => words'[x].next = Null
  BY <1>0, <1>1, <1>3, NewLinks
<1>7. \A x \in Chunks(r, c) : x.region = r /\ x # Null
  BY <1>1, ChunkPlace, NoRegionAssumption DEF Null, Address
<1>8. BigChunks' = BigChunks
  <2>1. \A x : x \in DOMAIN regions' \ DOMAIN blocks'
              <=> x \in DOMAIN regions \ DOMAIN blocks /\ x # r
    BY <1>1, <1>2
  <2>2. \A x : x # r => Address(x, 0) \notin Chunks(r, c)
    BY <1>7 DEF Address
  <2>3. \A x \in DOMAIN regions \ DOMAIN blocks : x # r
    BY <1>1
  <2> QED BY <2>1, <2>2, <2>3, <1>5 DEF BigChunks
<1>9. TypeOK'
  <2>1. \A q \in AllChunks' :
          words'[q] = Index(blocks'[q.region])
          \/ words'[q] \in { Link(x) : x \in AllChunks' \union {Null} }
    <3> SUFFICES ASSUME NEW q \in AllChunks'
                 PROVE  words'[q] = Index(blocks'[q.region])
                        \/ words'[q] \in { Link(x) : x \in AllChunks' \union {Null} }
      OBVIOUS
    <3>1. CASE q = p
      BY <3>1, <1>2, <1>3, <1>5
    <3>2. CASE q \in Chunks(r, c) \ {p}
      BY <3>2, <1>4, <1>5
    <3>3. CASE q \in AllChunks
      <4>1. q \in DOMAIN words /\ words'[q] = words[q] /\ q.region \in DOMAIN blocks
        BY <3>3, <1>5, ChunkOfBlock DEF TypeOK
      <4> QED BY <3>3, <4>1, <1>2, <1>4 DEF TypeOK
    <3> QED BY <3>1, <3>2, <3>3, <1>4
  <2>2. \A q \in BigChunks' : words'[q] = Index(BigChunkIndex)
    BY <1>8, <1>5 DEF TypeOK
  <2>3. \A b \in DOMAIN live' : live'[b] \in Needs
    BY <1>1 DEF TypeOK, With
  <2>4. DOMAIN allChunks' = IF Usable' THEN ChunkSizes ELSE {}
    BY <1>1, <1>2 DEF Usable
  <2>5. DOMAIN words' = AllChunks' \union BigChunks'
    BY <1>4, <1>8, <1>5 DEF TypeOK
  <2>6. /\ DOMAIN regions' \subseteq Regions
        /\ \A x \in DOMAIN regions' : regions'[x] \in Nat
        /\ DOMAIN blocks' \subseteq DOMAIN regions'
        /\ \A x \in DOMAIN blocks' :
             blocks'[x] \in ChunkSizes /\ regions'[x] = AllocationSize
    BY <1>2, SizeAssumption DEF TypeOK
  <2> QED BY <1>1, <2>1, <2>2, <2>3, <2>4, <2>5, <2>6 DEF TypeOK
<1>10. LiveInChunks'
  <2> SUFFICES ASSUME NEW b \in DOMAIN live'
               PROVE  /\ b = Body(Chunk(b))
                      /\ Chunk(b) \in DOMAIN words'
                      /\ words'[Chunk(b)].kind = "index"
                      /\ HeaderSize + live'[b] <= Extent(Chunk(b))'
    BY DEF LiveInChunks
  <2>1. CASE b = Body(p)
    <3>1. Chunk(b) = p
      BY <2>1, <1>3, ChunkOfBody
    <3>2. live'[b] = need /\ HeaderSize + need <= c
      BY <2>1, <1>1, ServesNeed DEF With, Serves
    <3>3. Extent(p)' = c
      BY <1>2, <1>3 DEF Extent
    <3> QED BY <2>1, <1>3, <1>5, <3>1, <3>2, <3>3 DEF Index
  <2>2. CASE b # Body(p)
    <3>1. b \in DOMAIN live /\ live'[b] = live[b]
      BY <2>2, <1>1 DEF With
    <3>2. Chunk(b) \in DOMAIN words /\ Chunk(b).region \in DOMAIN regions
      BY <3>1, LivePlace, WordPlace
    <3>3. Extent(Chunk(b))' = Extent(Chunk(b))
      BY <3>2, <1>1, <1>2 DEF Extent
    <3> QED BY <3>1, <3>2, <3>3, <1>5, LivePlace
  <2> QED BY <2>1, <2>2
<1>11. ListsLinkFreeChunks'
  <2>1. \A d : d # c => FreeChunks(d)' = FreeChunks(d)
    <3> SUFFICES ASSUME NEW d, d # c PROVE FreeChunks(d)' = FreeChunks(d)
      OBVIOUS
    <3>1. \A x \in AllChunks : x.region \in DOMAIN blocks /\ x \in DOMAIN words
      BY ChunkOfBlock DEF TypeOK
    <3> QED BY <3>1, <1>2, <1>4, <1>5, <1>7 DEF FreeChunks
  <2>2. FreeChunks(c)' = FreeChunks(c) \union (Chunks(r, c) \ {p})
    <3>1. \A x \in AllChunks : x.region \in DOMAIN blocks /\ x \in DOMAIN words
      BY ChunkOfBlock DEF TypeOK
    <3>2. words'[p].kind # "next"
      BY <1>5 DEF Index
    <3> QED BY <3>1, <3>2, <1>2, <1>4, <1>5, <1>7 DEF FreeChunks
  <2>3. /\ DOMAIN allChunks' = ChunkSizes
        /\ allChunks'[c] = memory[p].next
        /\ \A d \in ChunkSizes : d # c => allChunks'[d] = allChunks[d]
    BY <1>1, <1>2
  <2>4. \A d \in ChunkSizes : \A x \in FreeChunks(d) :
          words'[x] = words[x] /\ x \notin Chunks(r, c)
    BY <1>5, FreeChunkFacts
  <2> SUFFICES ASSUME NEW d \in ChunkSizes
               PROVE  /\ allChunks'[d] \in FreeChunks(d)' \union {Null}
                      /\ \A x \in FreeChunks(d)' :
                           /\ words'[x].next \in FreeChunks(d)' \union {Null}
                           /\ words'[x].next = Null \/ words'[x].next # allChunks'[d]
                           /\ \A y \in FreeChunks(d)' :
                                words'[x].next = words'[y].next
                                  => x = y \/ words'[x].next = Null
    BY <2>3 DEF ListsLinkFreeChunks
  <2>5. CASE d # c
    BY <2>1, <2>3, <2>4, <2>5, <1>2 DEF ListsLinkFreeChunks
  <2>6. CASE d = c
    <3>1. \A x \in FreeChunks(c) :
            /\ words'[x].next \in FreeChunks(c) \union {Null}
            /\ \A y \in FreeChunks(c) :
                 words'[x].next = words'[y].next => x = y \/ words'[x].next = Null
      BY <2>4, <1>2 DEF ListsLinkFreeChunks
    <3>2. FreeChunks(c) \intersect Chunks(r, c) = {}
      BY <2>4
    <3> QED BY <2>2, <2>3, <2>6, <3>1, <3>2, <1>5, <1>6
  <2> QED BY <2>5, <2>6
<1> QED BY <1>1, <1>9, <1>10, <1>11

\* A big chunk is a region of its own and on no list.
LEMMA AllocBigInvariant ==
  ASSUME InductiveInvariant, NoSizeWraps,
         NEW need \in Needs, NEW r \in Regions, AllocBig(need, r)
  PROVE  InductiveInvariant'
<1>0. PICK p : p = Address(r, 0)
  OBVIOUS
<1> USE DEF InductiveInvariant
<1>1. /\ Usable /\ r \in Regions \ DOMAIN regions
      /\ regions' = With(regions, r, HeaderSize + need)
      /\ words' = With(words, p, Index(BigChunkIndex))
      /\ live' = With(live, Body(p), need)
      /\ outcome' = "returned"
      /\ blocks' = blocks /\ allChunks' = allChunks /\ AllChunks' = AllChunks
  BY <1>0, ServesNeed, SameChunks, NewBodyNotLive DEF AllocBig, Returns, Mapped
<1>2. /\ r \notin DOMAIN blocks
      /\ DOMAIN regions' = DOMAIN regions \union {r}
      /\ regions'[r] = HeaderSize + need /\ HeaderSize + need \in Nat
      /\ \A x \in DOMAIN regions : regions'[x] = regions[x]
  BY <1>1, ServesNeed, SizeAssumption DEF TypeOK, With
<1>3. p.region = r /\ p.offset = 0 /\ p = Address(p.region, p.offset)
  BY <1>0 DEF Address
<1>4. p \notin DOMAIN words
  BY <1>1, <1>3, WordPlace
<1>5. /\ DOMAIN words' = DOMAIN words \union {p}
      /\ words'[p] = Index(BigChunkIndex)
      /\ \A x \in DOMAIN words : words'[x] = words[x]
  BY <1>1, <1>4 DEF With
<1>6. BigChunks' = BigChunks \union {p}
  BY <1>0, <1>1, <1>2, <1>5 DEF BigChunks
<1>7. TypeOK'
  <2>1. DOMAIN words' = AllChunks' \union BigChunks'
    BY <1>1, <1>6, <1>5 DEF TypeOK
  <2>2. \A q \in AllChunks' :
          words'[q] = Index(blocks'[q.region])
          \/ words'[q] \in { Link(x) : x \in AllChunks' \union {Null} }
    BY <1>1, <1>5 DEF TypeOK
  <2>3. \A q \in BigChunks' : words'[q] = Index(BigChunkIndex)
    BY <1>6, <1>5 DEF TypeOK
  <2>4. \A b \in DOMAIN live' : live'[b] \in Needs
    BY <1>1 DEF TypeOK, With
  <2>5. DOMAIN allChunks' = IF Usable' THEN ChunkSizes ELSE {}
    BY <1>1 DEF Usable, TypeOK
  <2>6. /\ DOMAIN regions' \subseteq Regions
        /\ \A x \in DOMAIN regions' : regions'[x] \in Nat
        /\ DOMAIN blocks' \subseteq DOMAIN regions'
        /\ \A x \in DOMAIN blocks' :
             blocks'[x] \in ChunkSizes /\ regions'[x] = AllocationSize
    BY <1>1, <1>2 DEF TypeOK
  <2> QED BY <1>1, <2>1, <2>2, <2>3, <2>4, <2>5, <2>6 DEF TypeOK
<1>8. LiveInChunks'
  <2> SUFFICES ASSUME NEW b \in DOMAIN live'
               PROVE  /\ b = Body(Chunk(b))
                      /\ Chunk(b) \in DOMAIN words'
                      /\ words'[Chunk(b)].kind = "index"
                      /\ HeaderSize + live'[b] <= Extent(Chunk(b))'
    BY DEF LiveInChunks
  <2>1. CASE b = Body(p)
    <3>1. Chunk(b) = p
      BY <2>1, <1>3, ChunkOfBody
    <3>2. live'[b] = need
      BY <2>1, <1>1 DEF With
    <3>3. Extent(p)' = HeaderSize + need
      BY <1>1, <1>2, <1>3 DEF Extent
    <3> QED BY <2>1, <1>2, <1>5, <3>1, <3>2, <3>3 DEF Index
  <2>2. CASE b # Body(p)
    <3>1. b \in DOMAIN live /\ live'[b] = live[b]
      BY <2>2, <1>1 DEF With
    <3>2. Chunk(b) \in DOMAIN words /\ Chunk(b).region \in DOMAIN regions
      BY <3>1, LivePlace, WordPlace
    <3>3. Extent(Chunk(b))' = Extent(Chunk(b))
      BY <3>2, <1>1, <1>2 DEF Extent
    <3> QED BY <3>1, <3>2, <3>3, <1>5, LivePlace
  <2> QED BY <2>1, <2>2
<1>9. ListsLinkFreeChunks'
  <2>1. \A x \in AllChunks : words'[x] = words[x]
    BY <1>5 DEF TypeOK
  <2>2. \A d : FreeChunks(d)' = FreeChunks(d)
    BY <2>1, <1>1 DEF FreeChunks
  <2>3. \A d : \A x \in FreeChunks(d) : words'[x] = words[x]
    BY <2>1 DEF FreeChunks
  <2> QED BY <1>1, <2>2, <2>3 DEF ListsLinkFreeChunks
<1> QED BY <1>1, <1>7, <1>8, <1>9

\* Where only callers give up memory, the manager's state is as it was.
LEMMA FewerLiveInvariant ==
  ASSUME InductiveInvariant,
         UNCHANGED << regions, blocks, allChunks, words >>,
         outcome' \in {"returned", "systemError"}, Usable,
         DOMAIN live' \subseteq DOMAIN live,
         \A b \in DOMAIN live' : live'[b] = live[b]
  PROVE  InductiveInvariant'
<1> USE DEF InductiveInvariant
<1>1. AllChunks' = AllChunks /\ BigChunks' = BigChunks
  BY SameChunks DEF BigChunks
<1>2. TypeOK'
  BY <1>1 DEF TypeOK, Usable
<1>3. LiveInChunks'
  BY DEF LiveInChunks, Extent
<1>4. ListsLinkFreeChunks'
  BY <1>1 DEF ListsLinkFreeChunks, FreeChunks
<1> QED BY <1>2, <1>3, <1>4

\* A call for which the system has no memory changes nothing.
LEMMA AllocThrowsInvariant ==
  ASSUME InductiveInvariant, NEW need \in Needs, AllocThrows(need)
  PROVE  InductiveInvariant'
BY FewerLiveInvariant DEF AllocThrows

\* A block that could not be recorded has no chunk and no word.
LEMMA BlockNotRecordedInvariant ==
  ASSUME InductiveInvariant, NEW need \in Needs, NEW c \in ChunkSizes, NEW r \in Regions,
         BlockNotRecorded(need, c, r)
  PROVE  InductiveInvariant'
<1> USE DEF InductiveInvariant
<1>1. /\ Usable /\ r \in Regions \ DOMAIN regions
      /\ regions' = With(regions, r, AllocationSize)
      /\ outcome' = "bad_alloc"
      /\ UNCHANGED << blocks, allChunks, words, live >>
  BY DEF BlockNotRecorded, Mapped
<1>2. /\ DOMAIN regions' = DOMAIN regions \union {r} /\ regions'[r] = AllocationSize
      /\ \A x \in DOMAIN regions : regions'[x] = regions[x]
  BY <1>1 DEF With
<1>3. \A x \in DOMAIN words : x.region \in DOMAIN regions
  BY WordPlace
<1>4. AllChunks' = AllChunks /\ BigChunks' = BigChunks
  <2>1. Address(r, 0) \notin DOMAIN words
    BY <1>1, <1>3 DEF Address
  <2> QED BY <1>1, <1>2, <2>1, SameChunks DEF BigChunks
<1>5. TypeOK'
  <2>1. /\ DOMAIN regions' \subseteq Regions
        /\ \A x \in DOMAIN regions' : regions'[x] \in Nat
        /\ DOMAIN blocks' \subseteq DOMAIN regions'
        /\ \A x \in DOMAIN blocks' :
             blocks'[x] \in ChunkSizes /\ regions'[x] = AllocationSize
    BY <1>1, <1>2, SizeAssumption DEF TypeOK
  <2> QED BY <1>1, <1>4, <2>1 DEF TypeOK, Usable
<1>6. LiveInChunks'
  <2> SUFFICES ASSUME NEW b \in DOMAIN live
               PROVE  HeaderSize + live[b] <= Extent(Chunk(b))'
    BY <1>1 DEF LiveInChunks
  <2>1. Chunk(b).region \in DOMAIN regions
    BY <1>3 DEF LiveInChunks
  <2> QED BY <2>1, <1>1, <1>2 DEF LiveInChunks, Extent
<1>7. ListsLinkFreeChunks'
  BY <1>1, <1>4 DEF ListsLinkFreeChunks, FreeChunks
<1> QED BY <1>1, <1>5, <1>6, <1>7

\* A big chunk that VirtualFree did not take stays mapped, and nobody has it.
LEMMA ReleaseBigThrowsInvariant ==
  ASSUME InductiveInvariant, NEW p \in DOMAIN live, ReleaseBigThrows(p)
  PROVE  InductiveInvariant'
BY FewerLiveInvariant DEF ReleaseBigThrows, Without

\* A released chunk was on no list; it becomes the head of the one its word says.
LEMMA ReleaseInvariant ==
  ASSUME InductiveInvariant, NEW b \in DOMAIN live, Release(b)
  PROVE  InductiveInvariant'
<1>0. PICK p, c : p = Chunk(b) /\ c = IndexOf(b)
  OBVIOUS
<1> USE DEF InductiveInvariant
<1>1. /\ Usable /\ c # BigChunkIndex
      /\ words' = [words EXCEPT ![p] = Link(allChunks[c])]
      /\ allChunks' = [allChunks EXCEPT ![c] = p]
      /\ live' = Without(live, {b})
      /\ outcome' = "returned"
      /\ regions' = regions /\ blocks' = blocks
      /\ AllChunks' = AllChunks /\ BigChunks' = BigChunks
      /\ DOMAIN allChunks = ChunkSizes
  BY <1>0, SameChunks DEF Release, LinkToHead, BigChunks, TypeOK
<1>2. p \in DOMAIN words /\ words[p].kind = "index" /\ c = words[p].index
  BY <1>0, LivePlace DEF IndexOf
<1>3. p \in AllChunks /\ c = blocks[p.region] /\ c \in ChunkSizes
  <2>1. p \notin BigChunks
    BY <1>1, <1>2 DEF TypeOK, Index
  <2>2. p \in AllChunks
    BY <2>1, <1>2 DEF TypeOK
  <2>3. words[p] = Index(blocks[p.region])
    BY <2>2, <1>2 DEF TypeOK, Link
  <2> QED BY <2>2, <2>3, <1>2, ChunkOfBlock DEF Index
<1>4. /\ words'[p] = Link(allChunks[c]) /\ DOMAIN words' = DOMAIN words
      /\ \A x \in DOMAIN words : x # p => words'[x] = words[x]
  BY <1>1, <1>2
<1>5. allChunks[c] \in FreeChunks(c) \union {Null}
  BY <1>1, <1>3 DEF ListsLinkFreeChunks
<1>6. TypeOK'
  <2>1. allChunks[c] \in AllChunks \union {Null}
    BY <1>5 DEF FreeChunks
  <2>2. \A q \in AllChunks' :
          words'[q] = Index(blocks'[q.region])
          \/ words'[q] \in { Link(x) : x \in AllChunks' \union {Null} }
    BY <2>1, <1>1, <1>4 DEF TypeOK
  <2>3. \A q \in BigChunks' : words'[q] = Index(BigChunkIndex)
    <3> SUFFICES ASSUME NEW q \in BigChunks PROVE words'[q] = Index(BigChunkIndex)
      BY <1>1
    <3>1. q # p
      BY <1>1, <1>2 DEF TypeOK, Index
    <3> QED BY <3>1, <1>4 DEF TypeOK
  <2>4. \A x \in DOMAIN live' : live'[x] \in Needs
    BY <1>1 DEF TypeOK, Without
  <2>5. DOMAIN allChunks' = IF Usable' THEN ChunkSizes ELSE {}
    BY <1>1 DEF Usable
  <2> QED BY <1>1, <1>4, <2>2, <2>3, <2>4, <2>5 DEF TypeOK
<1>7. LiveInChunks'
  <2> SUFFICES ASSUME NEW d \in DOMAIN live'
               PROVE  /\ d = Body(Chunk(d))
                      /\ Chunk(d) \in DOMAIN words'
                      /\ words'[Chunk(d)].kind = "index"
                      /\ HeaderSize + live'[d] <= Extent(Chunk(d))'
    BY DEF LiveInChunks
  <2>1. d \in DOMAIN live /\ d # b /\ live'[d] = live[d]
    BY <1>1 DEF Without
  <2>2. Chunk(d) # p
    BY <2>1, <1>0, DifferentChunks
  <2>3. Extent(Chunk(d))' = Extent(Chunk(d))
    BY <1>1 DEF Extent
  <2> QED BY <2>1, <2>2, <2>3, <1>4, LivePlace
<1>8. ListsLinkFreeChunks'
  <2>1. \A d : p \notin FreeChunks(d)
    BY <1>2 DEF FreeChunks
  <2>2. FreeChunks(c)' = FreeChunks(c) \union {p}
    <3>1. words'[p].kind = "next"
      BY <1>4 DEF Link
    <3> QED BY <3>1, <1>1, <1>3, <1>4 DEF FreeChunks, TypeOK
  <2>3. \A d : d # c => FreeChunks(d)' = FreeChunks(d)
    BY <1>1, <1>3, <1>4 DEF FreeChunks, TypeOK
  <2>4. /\ DOMAIN allChunks' = ChunkSizes /\ allChunks'[c] = p
        /\ \A d \in ChunkSizes : d # c => allChunks'[d] = allChunks[d]
    BY <1>1, <1>3
  <2>5. \A d : \A x \in FreeChunks(d) : words'[x] = words[x] /\ x # p
    BY <2>1, <1>4 DEF FreeChunks, TypeOK
  <2> SUFFICES ASSUME NEW d \in ChunkSizes
               PROVE  /\ allChunks'[d] \in FreeChunks(d)' \union {Null}
                      /\ \A x \in FreeChunks(d)' :
                           /\ words'[x].next \in FreeChunks(d)' \union {Null}
                           /\ words'[x].next = Null \/ words'[x].next # allChunks'[d]
                           /\ \A y \in FreeChunks(d)' :
                                words'[x].next = words'[y].next
                                  => x = y \/ words'[x].next = Null
    BY <2>4 DEF ListsLinkFreeChunks
  <2>6. CASE d # c
    BY <2>3, <2>4, <2>5, <2>6, <1>1 DEF ListsLinkFreeChunks
  <2>7. CASE d = c
    <3>1. words'[p].next = allChunks[c]
      BY <1>4 DEF Link
    <3>2. \A x \in FreeChunks(c) :
            /\ words'[x].next \in FreeChunks(c) \union {Null}
            /\ words'[x].next = Null \/ words'[x].next # allChunks[c]
            /\ \A y \in FreeChunks(c) :
                 words'[x].next = words'[y].next => x = y \/ words'[x].next = Null
      BY <2>5, <1>1, <1>3 DEF ListsLinkFreeChunks
    <3>3. p # Null
      BY <1>3, NullNotChunk
    <3> QED BY <2>1, <2>2, <2>4, <2>7, <3>1, <3>2, <3>3, <1>5
  <2> QED BY <2>6, <2>7
<1> QED BY <1>1, <1>6, <1>7, <1>8

\* A region that goes away held the one big chunk and nothing else.
LEMMA ReleaseBigInvariant ==
  ASSUME InductiveInvariant, NEW b \in DOMAIN live, ReleaseBig(b)
  PROVE  InductiveInvariant'
<1>0. PICK p : p = Chunk(b)
  OBVIOUS
<1> USE DEF InductiveInvariant
<1>1. /\ Usable
      /\ regions' = Without(regions, {b.region})
      /\ words' = Without(words, InRegions({b.region}))
      /\ live' = Without(live, {b})
      /\ outcome' = "returned"
      /\ blocks' = blocks /\ allChunks' = allChunks /\ AllChunks' = AllChunks
  BY SameChunks DEF ReleaseBig
<1>2. /\ p \in DOMAIN words /\ p.region = b.region
      /\ words[p].kind = "index" /\ words[p].index = BigChunkIndex
  BY <1>0, LivePlace DEF ReleaseBig, IndexOf
<1>3. p \notin AllChunks
  <2> SUFFICES ASSUME p \in AllChunks PROVE FALSE
    OBVIOUS
  <2>1. words[p] = Index(blocks[p.region])
    BY <1>2 DEF TypeOK, Link
  <2>2. blocks[p.region] \in ChunkSizes /\ blocks[p.region] = BigChunkIndex
    BY <2>1, <1>2, ChunkOfBlock DEF Index
  <2> QED BY <2>2, ChunkSizeFacts, SizeAssumption DEF BigChunkIndex
<1>4. p.region \notin DOMAIN blocks /\ p.region \in DOMAIN regions
      /\ p.offset = 0 /\ p = Address(p.region, 0)
  BY <1>2, <1>3, WordPlace
<1>5. \A x \in DOMAIN words : x.region = p.region => x = p
  <2> SUFFICES ASSUME NEW x \in DOMAIN words, x.region = p.region PROVE x = p
    OBVIOUS
  <2>1. x.offset = 0 /\ x = Address(x.region, x.offset)
    BY <1>4, WordPlace
  <2> QED BY <2>1, <1>4
<1>6. /\ DOMAIN words' = DOMAIN words \ {p}
      /\ \A x \in DOMAIN words' : words'[x] = words[x]
  BY <1>1, <1>2, <1>5 DEF Without, InRegions
<1>7. /\ DOMAIN regions' = DOMAIN regions \ {p.region}
      /\ \A x \in DOMAIN regions' : regions'[x] = regions[x]
  BY <1>1, <1>2 DEF Without
<1>8. BigChunks' = BigChunks \ {p}
  <2>1. \A x : x \in BigChunks <=>
          /\ \E r \in DOMAIN regions \ DOMAIN blocks : x = Address(r, 0)
          /\ x \in DOMAIN words
    BY DEF BigChunks
  <2>2. \A x : x \in BigChunks' <=>
          /\ \E r \in (DOMAIN regions \ {p.region}) \ DOMAIN blocks : x = Address(r, 0)
          /\ x \in DOMAIN words \ {p}
    BY <1>1, <1>6, <1>7 DEF BigChunks
  <2>3. \A r : Address(r, 0) = p <=> r = p.region
    BY <1>4 DEF Address
  <2> QED BY <2>1, <2>2, <2>3
<1>9. TypeOK'
  <2>1. DOMAIN words' = AllChunks' \union BigChunks'
    BY <1>1, <1>3, <1>6, <1>8 DEF TypeOK
  <2>2. \A q \in AllChunks' :
          words'[q] = Index(blocks'[q.region])
          \/ words'[q] \in { Link(x) : x \in AllChunks' \union {Null} }
    BY <1>1, <1>3, <1>6 DEF TypeOK
  <2>3. \A q \in BigChunks' : words'[q] = Index(BigChunkIndex)
    BY <1>6, <1>8 DEF TypeOK
  <2>4. \A x \in DOMAIN live' : live'[x] \in Needs
    BY <1>1 DEF TypeOK, Without
  <2>5. DOMAIN allChunks' = IF Usable' THEN ChunkSizes ELSE {}
    BY <1>1 DEF Usable, TypeOK
  <2>6. /\ DOMAIN regions' \subseteq Regions
        /\ \A x \in DOMAIN regions' : regions'[x] \in Nat
        /\ DOMAIN blocks' \subseteq DOMAIN regions'
        /\ \A x \in DOMAIN blocks' :
             blocks'[x] \in ChunkSizes /\ regions'[x] = AllocationSize
    BY <1>1, <1>4, <1>7 DEF TypeOK
  <2> QED BY <1>1, <2>1, <2>2, <2>3, <2>4, <2>5, <2>6 DEF TypeOK
<1>10. LiveInChunks'
  <2> SUFFICES ASSUME NEW d \in DOMAIN live'
               PROVE  /\ d = Body(Chunk(d))
                      /\ Chunk(d) \in DOMAIN words'
                      /\ words'[Chunk(d)].kind = "index"
                      /\ HeaderSize + live'[d] <= Extent(Chunk(d))'
    BY DEF LiveInChunks
  <2>1. d \in DOMAIN live /\ d # b /\ live'[d] = live[d]
    BY <1>1 DEF Without
  <2>2. Chunk(d) \in DOMAIN words'
    BY <2>1, <1>0, <1>6, DifferentChunks, LivePlace
  <2>3. Chunk(d).region \in DOMAIN regions /\ Chunk(d).region # p.region
    BY <2>2, <1>5, <1>6, WordPlace
  <2>4. Extent(Chunk(d))' = Extent(Chunk(d))
    BY <2>3, <1>1, <1>7 DEF Extent
  <2> QED BY <2>1, <2>2, <2>4, <1>6, LivePlace
<1>11. ListsLinkFreeChunks'
  <2>1. \A x \in AllChunks : words'[x] = words[x]
    BY <1>3, <1>6 DEF TypeOK
  <2>2. \A d : FreeChunks(d)' = FreeChunks(d)
    BY <2>1, <1>1 DEF FreeChunks
  <2>3. \A d : \A x \in FreeChunks(d) : words'[x] = words[x]
    BY <2>1 DEF FreeChunks
  <2>4. DOMAIN allChunks' = DOMAIN allChunks
        /\ \A d \in DOMAIN allChunks : allChunks'[d] = allChunks[d]
    BY <1>1
  <2> HIDE DEF InductiveInvariant
  <2>5. ListsLinkFreeChunks
    BY DEF InductiveInvariant
  <2> QED BY <2>2, <2>3, <2>4, <2>5 DEF ListsLinkFreeChunks
<1> QED BY <1>1, <1>9, <1>10, <1>11

\* What the destructor leaves mapped are big chunks.
LEMMA DestroyInvariant ==
  ASSUME InductiveInvariant, Destroy
  PROVE  InductiveInvariant'
<1> USE DEF InductiveInvariant
<1>1. /\ regions' = Without(regions, DOMAIN blocks)
      /\ words' = Without(words, InRegions(DOMAIN blocks))
      /\ DOMAIN blocks' = {} /\ DOMAIN allChunks' = {} /\ DOMAIN live' = {}
      /\ outcome' = "destroyed"
  BY DEF Destroy
<1>2. AllChunks' = {}
  BY <1>1 DEF AllChunks
<1>3. BigChunks' = BigChunks
  <2>1. DOMAIN regions' \ DOMAIN blocks' = DOMAIN regions \ DOMAIN blocks
    BY <1>1 DEF Without
  <2>2. \A x \in DOMAIN regions \ DOMAIN blocks :
          Address(x, 0) \in DOMAIN words' <=> Address(x, 0) \in DOMAIN words
    BY <1>1 DEF Without, InRegions, Address
  <2> QED BY <2>1, <2>2 DEF BigChunks
<1>4. \A x \in DOMAIN words : x \in BigChunks <=> x.region \notin DOMAIN blocks
  <2> SUFFICES ASSUME NEW x \in DOMAIN words
               PROVE  x \in BigChunks <=> x.region \notin DOMAIN blocks
    OBVIOUS
  <2>1. x \in BigChunks => x.region \notin DOMAIN blocks
    BY DEF BigChunks, Address
  <2>2. x.region \notin DOMAIN blocks => x \notin AllChunks
    BY WordPlace
  <2> QED BY <2>1, <2>2 DEF TypeOK
<1>5. /\ DOMAIN words' = BigChunks
      /\ \A x \in BigChunks : words'[x] = words[x]
  BY <1>1, <1>4 DEF Without, InRegions, TypeOK
<1>6. TypeOK'
  BY <1>1, <1>2, <1>3, <1>5 DEF TypeOK, Usable, Without
<1>7. LiveInChunks'
  BY <1>1 DEF LiveInChunks
<1>8. ListsLinkFreeChunks'
  BY <1>1 DEF ListsLinkFreeChunks
<1> QED BY <1>1, <1>6, <1>7, <1>8

\* Every step preserves the invariant.
LEMMA NextInvariant ==
  ASSUME InductiveInvariant, NoSizeWraps, [Next]_vars
  PROVE  InductiveInvariant'
<1>1. CASE UNCHANGED vars
  <2> USE <1>1 DEF vars
  <2>1. AllChunks' = AllChunks /\ BigChunks' = BigChunks
    BY DEF AllChunks, BigChunks
  <2>2. TypeOK'
    BY <2>1 DEF InductiveInvariant, TypeOK, Usable
  <2>3. LiveInChunks'
    BY DEF InductiveInvariant, LiveInChunks, Extent
  <2>4. ListsLinkFreeChunks'
    BY <2>1 DEF InductiveInvariant, ListsLinkFreeChunks, FreeChunks
  <2> QED BY <2>2, <2>3, <2>4 DEF InductiveInvariant
<1>2. ASSUME NEW need \in Needs, NEW c \in ChunkSizes, AllocFromList(need, c)
      PROVE  InductiveInvariant'
  BY <1>2, AllocFromListInvariant
<1>3. ASSUME NEW need \in Needs, NEW c \in ChunkSizes, NEW r \in Regions,
             AllocFromNewBlock(need, c, r)
      PROVE  InductiveInvariant'
  BY <1>3, AllocFromNewBlockInvariant
<1>4. ASSUME NEW need \in Needs, NEW r \in Regions, AllocBig(need, r)
      PROVE  InductiveInvariant'
  BY <1>4, AllocBigInvariant
<1>5. ASSUME NEW need \in Needs, AllocThrows(need)
      PROVE  InductiveInvariant'
  BY <1>5, AllocThrowsInvariant
<1>6. ASSUME NEW p \in DOMAIN live, Release(p) \/ ReleaseBig(p) \/ ReleaseBigThrows(p)
      PROVE  InductiveInvariant'
  BY <1>6, ReleaseInvariant, ReleaseBigInvariant, ReleaseBigThrowsInvariant
<1>7. CASE Destroy
  BY <1>7, DestroyInvariant
<1>8. ASSUME NEW need \in Needs, NEW c \in ChunkSizes, NEW r \in Regions,
             BlockNotRecorded(need, c, r)
      PROVE  InductiveInvariant'
  BY <1>8, BlockNotRecordedInvariant
<1> QED BY <1>1, <1>2, <1>3, <1>4, <1>5, <1>6, <1>7, <1>8 DEF Next

-----------------------------------------------------------------------------
\* Every pointer handed out is a chunk of its own, and every list links free
\* chunks of its size, after any sequence of calls.
THEOREM Invariance ==
  ASSUME NoSizeWraps
  PROVE  Spec => []InductiveInvariant
<1>1. Init => InductiveInvariant
  BY InitInvariant
<1>2. InductiveInvariant /\ [Next]_vars => InductiveInvariant'
  BY NextInvariant
<1> QED BY <1>1, <1>2, PTL DEF Spec

\* Two callers never get memory that overlaps (memoryManager::alloc).
THEOREM MemoryApart ==
  ASSUME NoSizeWraps
  PROVE  Spec => []LiveApart
BY Invariance, InvariantLiveApart, PTL

\* No caller can reach a link or an index of the manager's.
THEOREM WordsSafe ==
  ASSUME NoSizeWraps
  PROVE  Spec => []WordsOutOfReach
BY Invariance, InvariantWordsOutOfReach, PTL

-----------------------------------------------------------------------------
\* A set of numbers with a member has a least one.
LEMMA LeastNumber ==
  ASSUME NEW T, T \subseteq Nat, T # {}
  PROVE  \E m \in T : \A k \in T : m <= k
<1>1. IsWellFoundedOn(OpToRel(<, Nat), Nat)
  BY NatLessThanWellFounded
<1>2. PICK m \in T : \A k \in T : ~(<<k, m>> \in OpToRel(<, Nat))
  BY <1>1, WFMin
<1>3. \A k \in T : ~(k < m)
  BY <1>2 DEF OpToRel
<1> QED BY <1>3

\* Induction over a set of numbers, for the walks along a list.
LEMMA SetInduction ==
  ASSUME NEW T, 0 \in T, \A n \in T : n \in Nat => n + 1 \in T
  PROVE  Nat \subseteq T
<1> SUFFICES ASSUME ~(Nat \subseteq T) PROVE FALSE
  OBVIOUS
<1>1. PICK m \in Nat \ T : \A k \in Nat \ T : m <= k
  BY LeastNumber
<1> QED BY <1>1

-----------------------------------------------------------------------------
\* The chunk of a block whose word is an index belongs to a caller.
IndicesHeld ==
  \A p \in AllChunks : words[p].kind = "index" => Body(p) \in DOMAIN live

\* The list of a size never leads out of S.
StaysIn(S, c) ==
  /\ allChunks[c] \in S \union {Null}
  /\ \A p \in S : words[p].next \in S \union {Null}

\* No set of free chunks but all of them holds a list: the list of a size
\* leads to every free chunk of it.
ListsReachFreeChunks ==
  \A c \in DOMAIN allChunks : \A S \in SUBSET FreeChunks(c) :
    StaysIn(S, c) => S = FreeChunks(c)

\* What makes UnusedChunksListed inductive.
ListInvariant ==
  /\ InductiveInvariant
  /\ IsFiniteSet(DOMAIN words)
  /\ IndicesHeld
  /\ ListsReachFreeChunks

-----------------------------------------------------------------------------
\* The walk along a list, for as many links as there are chunks.
Walk(c, f, N) ==
  f = [n \in 0 .. N |->
         IF n = 0 THEN allChunks[c]
         ELSE IF f[n - 1] \in DOMAIN words THEN words[f[n - 1]].next ELSE Null]

\* There is a walk of any length.
LEMMA WalkExists ==
  ASSUME NEW c, NEW N \in Nat
  PROVE  \E f : Walk(c, f, N)
<1> DEFINE T == { m \in Nat : \E f : Walk(c, f, m) }
<1>1. 0 \in T
  <2> DEFINE f == [n \in 0 .. 0 |-> allChunks[c]]
  <2>1. f = [n \in 0 .. 0 |->
              IF n = 0 THEN allChunks[c]
              ELSE IF f[n - 1] \in DOMAIN words THEN words[f[n - 1]].next ELSE Null]
    OBVIOUS
  <2> HIDE DEF f
  <2> QED BY <2>1 DEF Walk
<1>2. ASSUME NEW m \in T PROVE m + 1 \in T
  <2>1. PICK f : Walk(c, f, m)
    OBVIOUS
  <2> DEFINE next == IF f[m] \in DOMAIN words THEN words[f[m]].next ELSE Null
             g == [n \in 0 .. m + 1 |-> IF n = m + 1 THEN next ELSE f[n]]
             h == [n \in 0 .. m + 1 |->
                     IF n = 0 THEN allChunks[c]
                     ELSE IF g[n - 1] \in DOMAIN words THEN words[g[n - 1]].next
                     ELSE Null]
  <2>2. \A n \in 0 .. m : f[n] = IF n = 0 THEN allChunks[c]
                                 ELSE IF f[n - 1] \in DOMAIN words
                                      THEN words[f[n - 1]].next ELSE Null
    BY <2>1 DEF Walk
  <2>3. m \in Nat
    OBVIOUS
  <2>4. ASSUME NEW n \in 0 .. m + 1 PROVE g[n] = h[n]
    <3>1. CASE n = m + 1
      BY <2>3, <3>1
    <3>2. CASE n \in 1 .. m
      <4>1. g[n] = f[n] /\ g[n - 1] = f[n - 1] /\ n \in 0 .. m /\ n # 0
        BY <2>3, <3>2
      <4> QED BY <4>1, <2>2
    <3>3. CASE n = 0
      BY <2>2, <2>3, <3>3
    <3> QED BY <2>3, <3>1, <3>2, <3>3
  <2>5. g = h
    BY <2>4
  <2> HIDE DEF next, g
  <2>6. Walk(c, g, m + 1)
    BY <2>5 DEF Walk
  <2> QED BY <2>3, <2>6
<1> HIDE DEF T
<1>3. Nat \subseteq T
  BY <1>1, <1>2, SetInduction
<1> QED BY <1>3 DEF T

\* The chunks on a list are those a walk comes to.
LEMMA OnListIsWalked ==
  ASSUME NEW c, Cardinality(DOMAIN words) \in Nat
  PROVE  \E f : /\ Walk(c, f, Cardinality(DOMAIN words))
                /\ OnList(c) = { f[n] : n \in 0 .. Cardinality(DOMAIN words) } \ {Null}
<1> DEFINE N == Cardinality(DOMAIN words)
           followed[n \in 0 .. Cardinality(DOMAIN words)] ==
             IF n = 0 THEN allChunks[c]
             ELSE IF followed[n - 1] \in DOMAIN words
                  THEN words[followed[n - 1]].next ELSE Null
<1>1. \E f : Walk(c, f, N)
  BY WalkExists
<1>2. Walk(c, followed, N)
  BY <1>1 DEF Walk
<1>3. DOMAIN followed = 0 .. N
  BY <1>2 DEF Walk
<1>4. OnList(c) = { followed[n] : n \in DOMAIN followed } \ {Null}
  BY DEF OnList
<1> HIDE DEF followed
<1> QED BY <1>2, <1>3, <1>4

\* A walk comes to free chunks of its size, and then to none.
LEMMA WalkIsFree ==
  ASSUME InductiveInvariant, NEW c \in DOMAIN allChunks,
         NEW N \in Nat, NEW f, Walk(c, f, N)
  PROVE  /\ f[0] = allChunks[c]
         /\ \A n \in 0 .. N : f[n] \in FreeChunks(c) \union {Null}
         /\ \A n \in 1 .. N : f[n] # Null =>
              f[n - 1] \in FreeChunks(c) /\ f[n] = words[f[n - 1]].next
         /\ \A n \in 1 .. N : f[n - 1] \in FreeChunks(c) => f[n] = words[f[n - 1]].next
<1>1. \A n \in 0 .. N : f[n] = IF n = 0 THEN allChunks[c]
                               ELSE IF f[n - 1] \in DOMAIN words
                                    THEN words[f[n - 1]].next ELSE Null
  BY DEF Walk
<1>2. /\ allChunks[c] \in FreeChunks(c) \union {Null}
      /\ \A p \in FreeChunks(c) :
           p \in DOMAIN words /\ words[p].next \in FreeChunks(c) \union {Null}
  BY FreeChunkFacts DEF InductiveInvariant, ListsLinkFreeChunks
<1>3. Null \notin DOMAIN words
  <2>1. Null.region \notin DOMAIN regions
    BY NoRegionAssumption DEF Null, Address, InductiveInvariant, TypeOK
  <2> QED BY <2>1, WordPlace DEF InductiveInvariant
<1>4. f[0] = allChunks[c]
  BY <1>1
<1> DEFINE T == { n \in Nat : n <= N => f[n] \in FreeChunks(c) \union {Null} }
<1>5. 0 \in T
  BY <1>2, <1>4
<1>6. ASSUME NEW n \in T PROVE n + 1 \in T
  <2> SUFFICES ASSUME n + 1 <= N PROVE f[n + 1] \in FreeChunks(c) \union {Null}
    OBVIOUS
  <2>1. /\ n + 1 \in 0 .. N /\ n + 1 # 0 /\ n + 1 - 1 = n
        /\ f[n] \in FreeChunks(c) \union {Null}
    OBVIOUS
  <2>2. f[n + 1] = IF f[n] \in DOMAIN words THEN words[f[n]].next ELSE Null
    BY <2>1, <1>1
  <2> QED BY <2>1, <2>2, <1>2, <1>3
<1> HIDE DEF T
<1>7. Nat \subseteq T
  BY <1>5, <1>6, SetInduction
<1>8. \A n \in 0 .. N : f[n] \in FreeChunks(c) \union {Null}
  BY <1>7 DEF T
<1>9. ASSUME NEW n \in 1 .. N
      PROVE  /\ f[n - 1] \in FreeChunks(c) \union {Null}
             /\ f[n] = IF f[n - 1] \in DOMAIN words THEN words[f[n - 1]].next ELSE Null
  <2>1. n \in 0 .. N /\ n # 0 /\ n - 1 \in 0 .. N
    OBVIOUS
  <2> QED BY <2>1, <1>1, <1>8
<1> QED BY <1>2, <1>3, <1>4, <1>8, <1>9

\* A walk does not come to a chunk twice: links do not meet and none leads
\* back to the first chunk.
LEMMA WalkNeverReturns ==
  ASSUME InductiveInvariant, NEW c \in DOMAIN allChunks,
         NEW N \in Nat, NEW f, Walk(c, f, N),
         NEW i \in 0 .. N, NEW j \in 0 .. N, i < j, f[j] # Null
  PROVE  f[i] # f[j]
<1> DEFINE T == { n \in Nat :
                    \A m \in 0 .. N : n < m /\ f[m] # Null => f[n] # f[m] }
<1>1. \A p \in FreeChunks(c) :
        /\ words[p].next = Null \/ words[p].next # allChunks[c]
        /\ \A q \in FreeChunks(c) :
             words[p].next = words[q].next => p = q \/ words[p].next = Null
  BY DEF InductiveInvariant, ListsLinkFreeChunks
<1>2. /\ f[0] = allChunks[c]
      /\ \A n \in 1 .. N : f[n] # Null =>
           f[n - 1] \in FreeChunks(c) /\ f[n] = words[f[n - 1]].next
  BY WalkIsFree
<1>3. 0 \in T
  <2> SUFFICES ASSUME NEW m \in 0 .. N, 0 < m, f[m] # Null PROVE f[0] # f[m]
    OBVIOUS
  <2>1. m \in 1 .. N
    OBVIOUS
  <2> QED BY <2>1, <1>1, <1>2
<1>4. ASSUME NEW n \in T PROVE n + 1 \in T
  <2> SUFFICES ASSUME NEW m \in 0 .. N, n + 1 < m, f[m] # Null, f[n + 1] = f[m]
               PROVE  FALSE
    OBVIOUS
  <2>1. n + 1 \in 1 .. N /\ m \in 1 .. N /\ n + 1 - 1 = n /\ f[n + 1] # Null
        /\ m - 1 \in 0 .. N /\ n < m - 1 /\ n \in Nat
    OBVIOUS
  <2>2. f[n] \in FreeChunks(c) /\ f[n + 1] = words[f[n]].next
    BY <2>1, <1>2
  <2>3. f[m - 1] \in FreeChunks(c) /\ f[m] = words[f[m - 1]].next
    BY <2>1, <1>2
  <2>4. f[n] = f[m - 1]
    BY <2>2, <2>3, <1>1
  <2>5. f[m - 1] # Null
    BY <2>3, FreeChunkFacts DEF InductiveInvariant
  <2> QED BY <2>1, <2>4, <2>5
<1> HIDE DEF T
<1>5. Nat \subseteq T
  BY <1>3, <1>4, SetInduction
<1>6. i \in T
  BY <1>5
<1> QED BY <1>6 DEF T

\* A walk of as many links as there are chunks has come to an end.
LEMMA WalkEnds ==
  ASSUME InductiveInvariant, IsFiniteSet(DOMAIN words), NEW c \in DOMAIN allChunks,
         NEW f, Walk(c, f, Cardinality(DOMAIN words))
  PROVE  f[Cardinality(DOMAIN words)] = Null
<1> DEFINE N == Cardinality(DOMAIN words)
<1>1. N \in Nat
  BY FS_CardinalityType
<1> SUFFICES ASSUME f[N] # Null PROVE FALSE
  OBVIOUS
<1> DEFINE T == { n \in Nat : n <= N => f[N - n] \in FreeChunks(c) }
<1>2. \A n \in 1 .. N : f[n] # Null => f[n - 1] \in FreeChunks(c)
  BY <1>1, WalkIsFree
<1>3. \A p \in FreeChunks(c) : p \in DOMAIN words /\ p # Null
  BY FreeChunkFacts DEF InductiveInvariant
<1>4. f[N] \in FreeChunks(c)
  BY <1>1, WalkIsFree
<1> HIDE DEF N
<1>5. 0 \in T
  BY <1>1, <1>4
<1>6. ASSUME NEW n \in T PROVE n + 1 \in T
  <2> SUFFICES ASSUME n + 1 <= N PROVE f[N - (n + 1)] \in FreeChunks(c)
    OBVIOUS
  <2>1. n \in Nat /\ N - n \in 1 .. N /\ f[N - n] \in FreeChunks(c)
        /\ N - (n + 1) = (N - n) - 1
    BY <1>1
  <2> QED BY <2>1, <1>2, <1>3
<1> HIDE DEF T
<1>7. Nat \subseteq T
  BY <1>5, <1>6, SetInduction
<1>8. \A n \in 0 .. N : f[n] \in FreeChunks(c)
  <2> SUFFICES ASSUME NEW n \in 0 .. N PROVE f[n] \in FreeChunks(c)
    OBVIOUS
  <2>1. N - n \in Nat /\ N - n <= N /\ N - (N - n) = n
    BY <1>1
  <2>2. N - n \in T
    BY <1>7, <2>1
  <2> QED BY <2>1, <2>2 DEF T
<1> DEFINE g == [n \in 0 .. N |-> f[n]]
<1>9. g \in [0 .. N -> DOMAIN words]
  BY <1>3, <1>8
<1>10. IsFiniteSet(0 .. N) /\ Cardinality(0 .. N) = N + 1
  BY <1>1, FS_Interval
<1>11. PICK i, j \in 0 .. N : i # j /\ g[i] = g[j]
  <2>1. Cardinality(DOMAIN words) < Cardinality(0 .. N)
    BY <1>1, <1>10 DEF N
  <2> HIDE DEF g
  <2> QED BY <1>9, <1>10, <2>1, FS_PigeonHole
<1>12. f[i] = f[j] /\ f[i] # Null /\ f[j] # Null /\ (i < j \/ j < i)
  BY <1>1, <1>3, <1>8, <1>11
<1>13. Walk(c, f, N)
  BY DEF N
<1> QED BY <1>1, <1>12, <1>13, WalkNeverReturns

\* The list of a size leads to every free chunk of it and to nothing else.
LEMMA ListIsFreeChunks ==
  ASSUME ListInvariant, NEW c \in DOMAIN allChunks
  PROVE  OnList(c) = FreeChunks(c)
<1> DEFINE N == Cardinality(DOMAIN words)
<1>1. InductiveInvariant /\ IsFiniteSet(DOMAIN words) /\ N \in Nat
  BY FS_CardinalityType DEF ListInvariant
<1>2. PICK f : Walk(c, f, N) /\ OnList(c) = { f[n] : n \in 0 .. N } \ {Null}
  BY <1>1, OnListIsWalked
<1>3. f[N] = Null
  BY <1>1, <1>2, WalkEnds
<1> HIDE DEF N
<1>4. /\ f[0] = allChunks[c]
      /\ \A n \in 0 .. N : f[n] \in FreeChunks(c) \union {Null}
      /\ \A n \in 1 .. N : f[n - 1] \in FreeChunks(c) => f[n] = words[f[n - 1]].next
  BY <1>1, <1>2, WalkIsFree
<1>5. OnList(c) \subseteq FreeChunks(c)
  BY <1>2, <1>4
<1>6. ASSUME NEW p \in OnList(c) PROVE words[p].next \in OnList(c) \union {Null}
  <2>1. PICK n \in 0 .. N : p = f[n] /\ p # Null
    BY <1>2
  <2>2. n + 1 \in 1 .. N /\ n + 1 \in 0 .. N /\ n + 1 - 1 = n
    BY <1>1, <1>3, <2>1
  <2>3. f[n + 1] = words[p].next
    BY <1>4, <1>5, <2>1, <2>2
  <2> QED BY <1>2, <2>2, <2>3
<1>7. allChunks[c] \in OnList(c) \union {Null}
  BY <1>1, <1>2, <1>4
<1>8. StaysIn(OnList(c), c)
  BY <1>6, <1>7 DEF StaysIn
<1> QED BY <1>5, <1>8 DEF ListInvariant, ListsReachFreeChunks

\* The free chunks of a size are the chunks of it that nobody holds.
LEMMA FreeIsUnheld ==
  ASSUME ListInvariant, NEW c
  PROVE  FreeChunks(c) =
           { p \in AllChunks : blocks[p.region] = c /\ Body(p) \notin DOMAIN live }
<1>1. InductiveInvariant /\ IndicesHeld
  BY DEF ListInvariant
<1>2. \A p \in AllChunks : words[p].kind = "next" \/ words[p].kind = "index"
  BY <1>1 DEF InductiveInvariant, TypeOK, Index, Link
<1>3. \A p \in FreeChunks(c) : Body(p) \notin DOMAIN live
  BY <1>1, FreeBodyNotLive
<1> QED BY <1>1, <1>2, <1>3 DEF FreeChunks, IndicesHeld

\* So no chunk is lost.
LEMMA ListImplies == ListInvariant => UnusedChunksListed
BY ListIsFreeChunks, FreeIsUnheld DEF UnusedChunksListed

-----------------------------------------------------------------------------
\* A list that is as it was leads to the chunks it led to.
LEMMA SameListReaches ==
  ASSUME NEW c, FreeChunks(c)' = FreeChunks(c), allChunks'[c] = allChunks[c],
         \A p \in FreeChunks(c) : words'[p] = words[p],
         \A S \in SUBSET FreeChunks(c) : StaysIn(S, c) => S = FreeChunks(c)
  PROVE  \A S \in SUBSET FreeChunks(c)' : StaysIn(S, c)' => S = FreeChunks(c)'
<1> SUFFICES ASSUME NEW S \in SUBSET FreeChunks(c), StaysIn(S, c)'
             PROVE  S = FreeChunks(c)
  OBVIOUS
<1>1. /\ allChunks'[c] \in S \union {Null}
      /\ \A p \in S : words'[p].next \in S \union {Null}
  BY DEF StaysIn
<1>2. StaysIn(S, c)
  BY <1>1 DEF StaysIn
<1> QED BY <1>2

\* A call that leaves the blocks, the lists and the words of their chunks alone
\* and takes none of them from a caller loses none.
LEMMA SameListsInvariant ==
  ASSUME ListInvariant, InductiveInvariant', IsFiniteSet(DOMAIN words'),
         blocks' = blocks, allChunks' = allChunks,
         \A p \in AllChunks : words'[p] = words[p],
         \A p \in AllChunks : Body(p) \in DOMAIN live => Body(p) \in DOMAIN live'
  PROVE  ListInvariant'
<1> USE DEF ListInvariant
<1>1. AllChunks' = AllChunks
  BY SameChunks
<1>2. IndicesHeld'
  BY <1>1 DEF IndicesHeld
<1>3. \A c : FreeChunks(c)' = FreeChunks(c)
  BY <1>1 DEF FreeChunks
<1>4. \A c : \A p \in FreeChunks(c) : words'[p] = words[p]
  BY DEF FreeChunks
<1>5. ASSUME NEW c \in DOMAIN allChunks'
      PROVE  \A S \in SUBSET FreeChunks(c)' : StaysIn(S, c)' => S = FreeChunks(c)'
  <2>1. \A S \in SUBSET FreeChunks(c) : StaysIn(S, c) => S = FreeChunks(c)
    BY DEF ListsReachFreeChunks
  <2> QED BY <1>3, <1>4, <2>1, SameListReaches
<1>6. ListsReachFreeChunks'
  BY <1>5 DEF ListsReachFreeChunks
<1> QED BY <1>2, <1>6

\* A chunk that is taken off the head of its list leaves the others on it.
LEMMA AllocFromListReaches ==
  ASSUME ListInvariant, NoSizeWraps,
         NEW need \in Needs, NEW c \in ChunkSizes, AllocFromList(need, c)
  PROVE  ListInvariant'
<1>0. PICK p : p = allChunks[c]
  OBVIOUS
<1>1. InductiveInvariant /\ InductiveInvariant'
  BY AllocFromListInvariant DEF ListInvariant
<1>2. /\ DOMAIN allChunks = ChunkSizes /\ blocks' = blocks /\ AllChunks' = AllChunks
      /\ p # Null
  BY <1>0, <1>1, SameChunks DEF AllocFromList, InductiveInvariant, TypeOK
<1>3. p \in FreeChunks(c)
  BY <1>0, <1>1, <1>2 DEF InductiveInvariant, ListsLinkFreeChunks
<1>4. /\ allChunks' = [allChunks EXCEPT ![c] = words[p].next]
      /\ words' = [words EXCEPT ![p] = Index(c)]
      /\ live' = With(live, Body(p), need)
  BY <1>0 DEF AllocFromList, HandsOut, Returns, NextHead
<1>5. p \in AllChunks /\ p \in DOMAIN words /\ blocks[p.region] = c
  BY <1>1, <1>3, FreeChunkFacts DEF InductiveInvariant
<1>6. /\ words'[p] = Index(c) /\ DOMAIN words' = DOMAIN words
      /\ \A q \in DOMAIN words : q # p => words'[q] = words[q]
      /\ AllChunks \subseteq DOMAIN words
  BY <1>1, <1>4, <1>5 DEF InductiveInvariant, TypeOK
<1>7. IsFiniteSet(DOMAIN words')
  BY <1>6 DEF ListInvariant
<1>8. IndicesHeld'
  BY <1>2, <1>4, <1>6 DEF ListInvariant, IndicesHeld, With
<1>9. \A d : FreeChunks(d)' = FreeChunks(d) \ {p}
  BY <1>2, <1>5, <1>6 DEF FreeChunks, Index
<1>10. \A d : \A x \in FreeChunks(d) \ {p} : words'[x] = words[x]
  BY <1>6 DEF FreeChunks
<1>11. ASSUME NEW d \in ChunkSizes
       PROVE  \A S \in SUBSET FreeChunks(d)' : StaysIn(S, d)' => S = FreeChunks(d)'
  <2>1. \A S \in SUBSET FreeChunks(d) : StaysIn(S, d) => S = FreeChunks(d)
    BY <1>2 DEF ListInvariant, ListsReachFreeChunks
  <2>2. CASE d # c
    <3>1. p \notin FreeChunks(d)
      BY <1>5, <2>2 DEF FreeChunks
    <3>2. FreeChunks(d)' = FreeChunks(d) /\ allChunks'[d] = allChunks[d]
      BY <1>2, <1>4, <1>9, <2>2, <3>1
    <3> QED BY <1>10, <2>1, <3>1, <3>2, SameListReaches
  <2>3. CASE d = c
    <3> SUFFICES ASSUME NEW S \in SUBSET FreeChunks(c)', StaysIn(S, c)'
                 PROVE  S = FreeChunks(c)'
      BY <2>3
    <3>1. allChunks'[c] = words[p].next
      BY <1>2, <1>4
    <3>2. /\ words[p].next \in S \union {Null}
          /\ \A x \in S : words'[x].next \in S \union {Null}
      BY <3>1 DEF StaysIn
    <3>3. S \subseteq FreeChunks(c) \ {p}
      BY <1>9
    <3>4. \A x \in S : words[x].next \in S \union {Null}
      BY <1>10, <3>2, <3>3
    <3>5. StaysIn(S \union {p}, c)
      BY <1>0, <3>2, <3>4 DEF StaysIn
    <3>6. S \union {p} = FreeChunks(c)
      BY <1>3, <2>1, <2>3, <3>3, <3>5
    <3> QED BY <1>9, <3>3, <3>6
  <2> QED BY <2>2, <2>3
<1>12. ListsReachFreeChunks'
  BY <1>2, <1>4, <1>11 DEF ListsReachFreeChunks
<1> QED BY <1>1, <1>7, <1>8, <1>12 DEF ListInvariant

\* A region is cut into finitely many chunks.
LEMMA ChunksFinite ==
  ASSUME NEW c \in ChunkSizes, NEW r
  PROVE  IsFiniteSet(Chunks(r, c))
<1> DEFINE K == 0 .. (AllocationSize \div c) - 1
           f == [k \in K |-> Address(r, k * c)]
<1>1. c \in Nat /\ c > 0 /\ AllocationSize \in Nat
  BY ChunkSizeFacts, SizeAssumption
<1>2. (AllocationSize \div c) - 1 \in Int
  BY <1>1
<1>3. IsFiniteSet(K)
  BY <1>2, FS_Interval
<1>4. \A p \in Chunks(r, c) : \E k \in K : p = f[k]
  BY DEF Chunks
<1>5. \A k \in K : f[k] \in Chunks(r, c)
  BY DEF Chunks
<1> HIDE DEF K
<1>6. f \in Surjection(K, Chunks(r, c))
  <2>1. f \in [K -> Chunks(r, c)]
    BY <1>5
  <2> QED BY <1>4, <2>1 DEF Surjection
<1> QED BY <1>3, <1>6, FS_Surjection

\* The links of a new block lead from its first chunk to all the others.
LEMMA NewBlockReached ==
  ASSUME NEW c \in ChunkSizes, NEW r, NEW S, NEW next,
         next = [p \in Chunks(r, c) |->
                   IF Plus(p, c) \in Chunks(r, c) THEN Plus(p, c) ELSE Null],
         Null \notin Chunks(r, c),
         next[Address(r, 0)] \in S \union {Null},
         \A p \in S : p \in Chunks(r, c) /\ next[p] \in S \union {Null}
  PROVE  Chunks(r, c) \ {Address(r, 0)} \subseteq S
<1> DEFINE N == AllocationSize \div c
           T == { k \in Nat : k = 0 \/ k >= N \/ Address(r, k * c) \in S }
<1>1. c \in Nat /\ c > 0 /\ AllocationSize \in Nat /\ N \in Nat
  BY ChunkSizeFacts, SizeAssumption
<1>2. \A k \in Nat : k < N => Address(r, k * c) \in Chunks(r, c)
  BY <1>1 DEF Chunks
<1> HIDE DEF N
<1>3. 0 \in T
  OBVIOUS
<1>4. ASSUME NEW k \in T PROVE k + 1 \in T
  <2> SUFFICES ASSUME k + 1 < N PROVE Address(r, (k + 1) * c) \in S
    BY <1>1
  <2>1. k \in Nat /\ k < N /\ k + 1 \in Nat
    BY <1>1
  <2>2. k * c + c = (k + 1) * c
    BY <1>1, <2>1
  <2>3. Plus(Address(r, k * c), c) = Address(r, (k + 1) * c)
    BY <2>2 DEF Plus, Address
  <2>4. next[Address(r, k * c)] = Address(r, (k + 1) * c)
        /\ Address(r, (k + 1) * c) # Null
    BY <1>2, <2>1, <2>3
  <2>5. next[Address(r, k * c)] \in S \union {Null}
    <3>1. CASE k = 0
      <4>1. Address(r, k * c) = Address(r, 0)
        BY <1>1, <3>1
      <4> QED BY <4>1
    <3>2. CASE k # 0
      BY <2>1, <3>2, <1>1
    <3> QED BY <3>1, <3>2
  <2> QED BY <2>4, <2>5
<1> HIDE DEF T
<1>5. Nat \subseteq T
  BY <1>3, <1>4, SetInduction
<1> SUFFICES ASSUME NEW p \in Chunks(r, c), p # Address(r, 0) PROVE p \in S
  OBVIOUS
<1>6. PICK k \in 0 .. N - 1 : p = Address(r, k * c)
  BY DEF Chunks, N
<1>7. k \in Nat /\ k < N /\ k # 0
  BY <1>1, <1>6
<1> QED BY <1>1, <1>5, <1>6, <1>7 DEF T

\* A new block is made when every chunk of its size is in use, and its list
\* leads to all its chunks but the one handed out.
LEMMA AllocFromNewBlockReaches ==
  ASSUME ListInvariant, NoSizeWraps,
         NEW need \in Needs, NEW c \in ChunkSizes, NEW r \in Regions,
         AllocFromNewBlock(need, c, r)
  PROVE  ListInvariant'
<1>0. PICK p, memory : p = Address(r, 0) /\ memory = Linked(r, c)
  OBVIOUS
<1>1. InductiveInvariant /\ InductiveInvariant'
  BY AllocFromNewBlockInvariant DEF ListInvariant
<1>2. /\ allChunks[c] = Null
      /\ r \in Regions \ DOMAIN regions
      /\ blocks' = With(blocks, r, c)
      /\ allChunks' = [allChunks EXCEPT ![c] = memory[p].next]
      /\ words' = [memory EXCEPT ![p] = Index(c)]
      /\ live' = With(live, Body(p), need)
  BY <1>0 DEF AllocFromNewBlock, HandsOut, Returns, Mapped, NextHead
<1>3. /\ DOMAIN allChunks = ChunkSizes /\ r \notin DOMAIN blocks
      /\ DOMAIN blocks' = DOMAIN blocks \union {r} /\ blocks'[r] = c
      /\ \A x \in DOMAIN blocks : blocks'[x] = blocks[x]
  BY <1>1, <1>2 DEF AllocFromNewBlock, InductiveInvariant, TypeOK, With
<1>4. /\ p \in Chunks(r, c)
      /\ \A x \in Chunks(r, c) : x.region = r /\ x # Null
  BY <1>0, <1>2, FirstChunk, ChunkPlace, NoRegionAssumption DEF Null, Address
<1>5. /\ DOMAIN memory = DOMAIN words \union Chunks(r, c)
      /\ \A x \in DOMAIN words : x \notin Chunks(r, c) /\ memory[x] = words[x]
      /\ \A x \in Chunks(r, c) : memory[x].kind = "next"
  BY <1>0, <1>1, <1>2, NewLinks DEF InductiveInvariant
<1>6. \A x \in Chunks(r, c) :
        memory[x].next = IF Plus(x, c) \in Chunks(r, c) THEN Plus(x, c) ELSE Null
  BY <1>0 DEF Linked, Link
<1>7. /\ DOMAIN words' = DOMAIN words \union Chunks(r, c)
      /\ words'[p] = Index(c)
      /\ \A x \in DOMAIN words : x \notin Chunks(r, c) /\ words'[x] = words[x]
      /\ \A x \in Chunks(r, c) \ {p} : words'[x] = memory[x]
  BY <1>2, <1>4, <1>5
<1>8. AllChunks' = AllChunks \union Chunks(r, c)
  BY <1>3 DEF AllChunks
<1>9. \A x \in AllChunks : x.region \in DOMAIN blocks /\ x \in DOMAIN words
  BY <1>1, ChunkOfBlock DEF InductiveInvariant, TypeOK
<1>10. IsFiniteSet(DOMAIN words')
  BY <1>7, ChunksFinite, FS_Union DEF ListInvariant
<1>11. IndicesHeld'
  <2> SUFFICES ASSUME NEW x \in AllChunks', words'[x].kind = "index"
               PROVE  Body(x) \in DOMAIN live'
    BY DEF IndicesHeld
  <2>1. CASE x \in AllChunks
    BY <1>2, <1>7, <1>9, <2>1 DEF ListInvariant, IndicesHeld, With
  <2>2. CASE x = p
    BY <1>2, <2>2 DEF With
  <2>3. CASE x \in Chunks(r, c) \ {p}
    BY <1>5, <1>7, <2>3
  <2> QED BY <1>8, <2>1, <2>2, <2>3
<1>12. FreeChunks(c) = {}
  <2>1. StaysIn({}, c)
    BY <1>2 DEF StaysIn
  <2> QED BY <1>3, <2>1 DEF ListInvariant, ListsReachFreeChunks
<1>13. \A d : d # c => FreeChunks(d)' = FreeChunks(d)
  BY <1>3, <1>4, <1>7, <1>8, <1>9 DEF FreeChunks
<1>14. FreeChunks(c)' = Chunks(r, c) \ {p}
  <2>1. words'[p].kind # "next"
    BY <1>7 DEF Index
  <2>2. FreeChunks(c)' = FreeChunks(c) \union (Chunks(r, c) \ {p})
    BY <2>1, <1>3, <1>4, <1>5, <1>7, <1>8, <1>9 DEF FreeChunks
  <2> QED BY <1>12, <2>2
<1>15. ASSUME NEW d \in ChunkSizes
       PROVE  \A S \in SUBSET FreeChunks(d)' : StaysIn(S, d)' => S = FreeChunks(d)'
  <2>1. CASE d # c
    <3>1. FreeChunks(d)' = FreeChunks(d) /\ allChunks'[d] = allChunks[d]
      BY <1>2, <1>3, <1>13, <2>1
    <3>2. \A x \in FreeChunks(d) : words'[x] = words[x]
      BY <1>7, <1>9 DEF FreeChunks
    <3>3. \A S \in SUBSET FreeChunks(d) : StaysIn(S, d) => S = FreeChunks(d)
      BY <1>3 DEF ListInvariant, ListsReachFreeChunks
    <3> QED BY <3>1, <3>2, <3>3, SameListReaches
  <2>2. CASE d = c
    <3> SUFFICES ASSUME NEW S \in SUBSET FreeChunks(c)', StaysIn(S, c)'
                 PROVE  FreeChunks(c)' \subseteq S
      BY <2>2
    <3> DEFINE next == [x \in Chunks(r, c) |->
                          IF Plus(x, c) \in Chunks(r, c) THEN Plus(x, c) ELSE Null]
    <3>1. allChunks'[c] = next[p]
      BY <1>2, <1>3, <1>4, <1>6
    <3>2. /\ next[p] \in S \union {Null}
          /\ \A x \in S : words'[x].next \in S \union {Null}
      BY <3>1 DEF StaysIn
    <3>3. \A x \in S : x \in Chunks(r, c) /\ next[x] \in S \union {Null}
      BY <1>6, <1>7, <1>14, <3>2
    <3>4. next = [x \in Chunks(r, c) |->
                    IF Plus(x, c) \in Chunks(r, c) THEN Plus(x, c) ELSE Null]
      OBVIOUS
    <3>5. Null \notin Chunks(r, c) /\ next[Address(r, 0)] \in S \union {Null}
      BY <1>0, <1>4, <3>2
    <3> HIDE DEF next
    <3>6. Chunks(r, c) \ {Address(r, 0)} \subseteq S
      BY <3>3, <3>4, <3>5, NewBlockReached
    <3> QED BY <1>0, <1>14, <3>6
  <2> QED BY <2>1, <2>2
<1>16. ListsReachFreeChunks'
  BY <1>2, <1>3, <1>15 DEF ListsReachFreeChunks
<1> QED BY <1>1, <1>10, <1>11, <1>16 DEF ListInvariant

\* A released chunk becomes the head of its list and leads to the head it had.
LEMMA ReleaseReaches ==
  ASSUME ListInvariant, NEW b \in DOMAIN live, Release(b)
  PROVE  ListInvariant'
<1>0. PICK p, c : p = Chunk(b) /\ c = IndexOf(b)
  OBVIOUS
<1>1. InductiveInvariant /\ InductiveInvariant'
  BY ReleaseInvariant DEF ListInvariant
<1>2. /\ Usable /\ c # BigChunkIndex
      /\ words' = [words EXCEPT ![p] = Link(allChunks[c])]
      /\ allChunks' = [allChunks EXCEPT ![c] = p]
      /\ live' = Without(live, {b})
      /\ blocks' = blocks /\ AllChunks' = AllChunks
      /\ DOMAIN allChunks = ChunkSizes
  BY <1>0, <1>1, SameChunks DEF Release, LinkToHead, InductiveInvariant, TypeOK
<1>3. /\ p \in DOMAIN words /\ words[p].kind = "index" /\ c = words[p].index
      /\ b = Body(p)
  BY <1>0, <1>1, LivePlace DEF IndexOf
<1>4. p \in AllChunks /\ c = blocks[p.region] /\ c \in ChunkSizes
  <2>1. p \notin BigChunks
    BY <1>1, <1>2, <1>3 DEF InductiveInvariant, TypeOK, Index
  <2>2. p \in AllChunks
    BY <1>1, <1>3, <2>1 DEF InductiveInvariant, TypeOK
  <2>3. words[p] = Index(blocks[p.region])
    BY <1>1, <1>3, <2>2 DEF InductiveInvariant, TypeOK, Link
  <2> QED BY <1>1, <1>3, <2>2, <2>3, ChunkOfBlock DEF Index, InductiveInvariant
<1>5. /\ words'[p] = Link(allChunks[c]) /\ DOMAIN words' = DOMAIN words
      /\ \A x \in DOMAIN words : x # p => words'[x] = words[x]
      /\ AllChunks \subseteq DOMAIN words
  BY <1>1, <1>2, <1>3 DEF InductiveInvariant, TypeOK
<1>6. IsFiniteSet(DOMAIN words')
  BY <1>5 DEF ListInvariant
<1>7. IndicesHeld'
  <2> SUFFICES ASSUME NEW x \in AllChunks, words'[x].kind = "index"
               PROVE  Body(x) \in DOMAIN live'
    BY <1>2 DEF IndicesHeld
  <2>1. x # p
    BY <1>5 DEF Link
  <2>2. Body(x) \in DOMAIN live
    BY <1>5, <2>1 DEF ListInvariant, IndicesHeld
  <2>3. Body(x) # b
    <3>1. x = Address(x.region, x.offset) /\ x.offset \in Int
      BY <1>1, ChunkOfBlock DEF InductiveInvariant
    <3>2. Chunk(Body(x)) = x
      BY <3>1, ChunkOfBody
    <3> QED BY <1>0, <2>1, <3>2
  <2> QED BY <1>2, <2>2, <2>3 DEF Without
<1>8. \A d : p \notin FreeChunks(d)
  BY <1>3 DEF FreeChunks
<1>9. /\ FreeChunks(c)' = FreeChunks(c) \union {p}
      /\ \A d : d # c => FreeChunks(d)' = FreeChunks(d)
  <2>1. words'[p].kind = "next"
    BY <1>5 DEF Link
  <2> QED BY <2>1, <1>2, <1>4, <1>5 DEF FreeChunks
<1>10. \A d : \A x \in FreeChunks(d) : words'[x] = words[x]
  BY <1>5, <1>8 DEF FreeChunks
<1>11. ASSUME NEW d \in ChunkSizes
       PROVE  \A S \in SUBSET FreeChunks(d)' : StaysIn(S, d)' => S = FreeChunks(d)'
  <2>1. \A S \in SUBSET FreeChunks(d) : StaysIn(S, d) => S = FreeChunks(d)
    BY <1>2 DEF ListInvariant, ListsReachFreeChunks
  <2>2. CASE d # c
    <3>1. FreeChunks(d)' = FreeChunks(d) /\ allChunks'[d] = allChunks[d]
      BY <1>2, <1>4, <1>9, <2>2
    <3> QED BY <1>10, <2>1, <3>1, SameListReaches
  <2>3. CASE d = c
    <3> SUFFICES ASSUME NEW S \in SUBSET FreeChunks(c)', StaysIn(S, c)'
                 PROVE  S = FreeChunks(c)'
      BY <2>3
    <3>1. /\ p \in S \union {Null}
          /\ \A x \in S : words'[x].next \in S \union {Null}
      BY <1>2, <1>4 DEF StaysIn
    <3>2. p \in S
      BY <1>1, <1>4, <3>1, NullNotChunk DEF InductiveInvariant
    <3>3. allChunks[c] \in S \union {Null} /\ allChunks[c] # p
      <4>1. allChunks[c] \in S \union {Null}
        BY <1>5, <3>1, <3>2 DEF Link
      <4>2. allChunks[c] \in FreeChunks(c) \union {Null}
        BY <1>1, <1>2, <1>4 DEF InductiveInvariant, ListsLinkFreeChunks
      <4>3. p # Null
        BY <1>1, <1>4, NullNotChunk DEF InductiveInvariant
      <4> QED BY <1>8, <4>1, <4>2, <4>3
    <3>4. S \ {p} \subseteq FreeChunks(c)
      BY <1>9
    <3>5. ASSUME NEW x \in S \ {p} PROVE words[x].next \in (S \ {p}) \union {Null}
      <4>1. words[x].next \in S \union {Null}
        BY <1>10, <3>1, <3>4
      <4>2. words[x].next \in FreeChunks(c) \union {Null}
        BY <1>1, <1>2, <1>4, <3>4 DEF InductiveInvariant, ListsLinkFreeChunks
      <4> QED BY <1>8, <4>1, <4>2
    <3>6. StaysIn(S \ {p}, c)
      BY <3>3, <3>5 DEF StaysIn
    <3>7. S \ {p} = FreeChunks(c)
      BY <2>1, <2>3, <3>4, <3>6
    <3> QED BY <1>9, <3>2, <3>7
  <2> QED BY <2>2, <2>3
<1>12. ListsReachFreeChunks'
  BY <1>2, <1>4, <1>11 DEF ListsReachFreeChunks
<1> QED BY <1>1, <1>6, <1>7, <1>12 DEF ListInvariant

\* Big chunks come and go without the lists.
LEMMA AllocBigReaches ==
  ASSUME ListInvariant, NoSizeWraps,
         NEW need \in Needs, NEW r \in Regions, AllocBig(need, r)
  PROVE  ListInvariant'
<1>1. InductiveInvariant /\ InductiveInvariant'
  BY AllocBigInvariant DEF ListInvariant
<1>2. /\ words' = With(words, Address(r, 0), Index(BigChunkIndex))
      /\ live' = With(live, Body(Address(r, 0)), need)
      /\ blocks' = blocks /\ allChunks' = allChunks
      /\ r \notin DOMAIN regions
  BY DEF AllocBig, Returns, Mapped
<1>3. Address(r, 0) \notin DOMAIN words
  BY <1>1, <1>2, WordPlace DEF InductiveInvariant, Address
<1>4. IsFiniteSet(DOMAIN words')
  <2>1. DOMAIN words' = DOMAIN words \union {Address(r, 0)}
    BY <1>2 DEF With
  <2> QED BY <2>1, FS_AddElement DEF ListInvariant
<1>5. \A p \in AllChunks : words'[p] = words[p]
  BY <1>1, <1>2, <1>3 DEF With, InductiveInvariant, TypeOK
<1>6. DOMAIN live \subseteq DOMAIN live'
  BY <1>2 DEF With
<1> QED BY <1>1, <1>2, <1>4, <1>5, <1>6, SameListsInvariant

\* A pointer whose word is the index of big chunks is not one into a block.
LEMMA BigChunkNotInBlock ==
  ASSUME InductiveInvariant, NEW b \in DOMAIN live, IndexOf(b) = BigChunkIndex
  PROVE  /\ Chunk(b) \notin AllChunks
         /\ \A p \in AllChunks : p.region # b.region /\ Body(p) # b
<1>1. /\ Chunk(b) \in DOMAIN words /\ words[Chunk(b)].kind = "index"
      /\ words[Chunk(b)].index = BigChunkIndex /\ Chunk(b).region = b.region
  BY LivePlace DEF IndexOf
<1>2. Chunk(b) \notin AllChunks
  <2> SUFFICES ASSUME Chunk(b) \in AllChunks PROVE FALSE
    OBVIOUS
  <2>1. words[Chunk(b)] = Index(blocks[Chunk(b).region])
    BY <1>1 DEF InductiveInvariant, TypeOK, Link
  <2>2. 0 \in ChunkSizes
    BY <1>1, <2>1, ChunkOfBlock DEF Index, BigChunkIndex, InductiveInvariant
  <2> QED BY <2>2, ChunkSizeFacts, SizeAssumption
<1>3. b.region \notin DOMAIN blocks
  BY <1>1, <1>2, WordPlace DEF InductiveInvariant
<1>4. \A p \in AllChunks : p.region \in DOMAIN blocks
  BY ChunkOfBlock DEF InductiveInvariant
<1>5. \A p : Body(p).region = p.region
  BY DEF Body, Plus, Address
<1> QED BY <1>2, <1>3, <1>4, <1>5

\* A region that goes away held no chunk of a block.
LEMMA ReleaseBigReaches ==
  ASSUME ListInvariant, NEW b \in DOMAIN live, ReleaseBig(b)
  PROVE  ListInvariant'
<1>1. InductiveInvariant /\ InductiveInvariant'
  BY ReleaseBigInvariant DEF ListInvariant
<1>2. /\ words' = Without(words, InRegions({b.region}))
      /\ live' = Without(live, {b})
      /\ blocks' = blocks /\ allChunks' = allChunks
      /\ IndexOf(b) = BigChunkIndex
  BY DEF ReleaseBig
<1>3. \A p \in AllChunks : p.region # b.region /\ Body(p) # b
  BY <1>1, <1>2, BigChunkNotInBlock
<1>4. DOMAIN words' \subseteq DOMAIN words
  BY <1>2 DEF Without
<1>5. IsFiniteSet(DOMAIN words')
  BY <1>4, FS_Subset DEF ListInvariant
<1>6. \A p \in AllChunks : words'[p] = words[p]
  BY <1>1, <1>2, <1>3 DEF Without, InRegions, InductiveInvariant, TypeOK
<1>7. \A p \in AllChunks : Body(p) \in DOMAIN live => Body(p) \in DOMAIN live'
  BY <1>2, <1>3 DEF Without
<1> QED BY <1>1, <1>2, <1>5, <1>6, <1>7, SameListsInvariant

\* Nor is one lost with a region VirtualFree does not take.
LEMMA ReleaseBigThrowsReaches ==
  ASSUME ListInvariant, NEW b \in DOMAIN live, ReleaseBigThrows(b)
  PROVE  ListInvariant'
<1>1. InductiveInvariant /\ InductiveInvariant'
  BY ReleaseBigThrowsInvariant DEF ListInvariant
<1>2. /\ words' = words /\ live' = Without(live, {b})
      /\ blocks' = blocks /\ allChunks' = allChunks
      /\ IndexOf(b) = BigChunkIndex
  BY DEF ReleaseBigThrows
<1>3. \A p \in AllChunks : Body(p) # b
  BY <1>1, <1>2, BigChunkNotInBlock
<1>4. \A p \in AllChunks : Body(p) \in DOMAIN live => Body(p) \in DOMAIN live'
  BY <1>2, <1>3 DEF Without
<1>5. IsFiniteSet(DOMAIN words')
  BY <1>2 DEF ListInvariant
<1> QED BY <1>1, <1>2, <1>4, <1>5, SameListsInvariant

\* After the destructor there are no lists.
LEMMA DestroyReaches ==
  ASSUME ListInvariant, Destroy
  PROVE  ListInvariant'
<1>1. InductiveInvariant'
  BY DestroyInvariant DEF ListInvariant
<1>2. /\ DOMAIN words' \subseteq DOMAIN words
      /\ DOMAIN blocks' = {} /\ DOMAIN allChunks' = {}
  BY DEF Destroy, Without
<1>3. IsFiniteSet(DOMAIN words')
  BY <1>2, FS_Subset DEF ListInvariant
<1>4. AllChunks' = {}
  BY <1>2 DEF AllChunks
<1> QED BY <1>1, <1>2, <1>3, <1>4 DEF ListInvariant, IndicesHeld, ListsReachFreeChunks

\* The constructor starts with empty lists and no chunks.
LEMMA InitList == Init => ListInvariant
<1> SUFFICES ASSUME Init PROVE ListInvariant
  OBVIOUS
<1>1. DOMAIN words = {} /\ AllChunks = {}
  BY DEF Init, AllChunks
<1>2. IsFiniteSet(DOMAIN words)
  BY <1>1, FS_EmptySet
<1>3. \A c : FreeChunks(c) = {}
  BY <1>1 DEF FreeChunks
<1> QED BY <1>1, <1>2, <1>3, InitInvariant
        DEF ListInvariant, IndicesHeld, ListsReachFreeChunks

\* Every step keeps every free chunk on its list.
LEMMA NextList ==
  ASSUME ListInvariant, NoSizeWraps, [Next]_vars
  PROVE  ListInvariant'
<1>1. InductiveInvariant'
  BY NextInvariant DEF ListInvariant
<1>2. ASSUME UNCHANGED << blocks, allChunks, words, live >>
      PROVE  ListInvariant'
  BY <1>1, <1>2, SameListsInvariant DEF ListInvariant
<1>3. ASSUME NEW need \in Needs, NEW c \in ChunkSizes, AllocFromList(need, c)
      PROVE  ListInvariant'
  BY <1>3, AllocFromListReaches
<1>4. ASSUME NEW need \in Needs, NEW c \in ChunkSizes, NEW r \in Regions,
             AllocFromNewBlock(need, c, r)
      PROVE  ListInvariant'
  BY <1>4, AllocFromNewBlockReaches
<1>5. ASSUME NEW need \in Needs, NEW r \in Regions, AllocBig(need, r)
      PROVE  ListInvariant'
  BY <1>5, AllocBigReaches
<1>6. ASSUME NEW need \in Needs, AllocThrows(need)
      PROVE  ListInvariant'
  BY <1>2, <1>6 DEF AllocThrows
<1>7. ASSUME NEW p \in DOMAIN live, Release(p) \/ ReleaseBig(p) \/ ReleaseBigThrows(p)
      PROVE  ListInvariant'
  BY <1>7, ReleaseReaches, ReleaseBigReaches, ReleaseBigThrowsReaches
<1>8. CASE Destroy
  BY <1>8, DestroyReaches
<1>9. CASE UNCHANGED vars
  BY <1>2, <1>9 DEF vars
<1>10. ASSUME NEW need \in Needs, NEW c \in ChunkSizes, NEW r \in Regions,
              BlockNotRecorded(need, c, r)
       PROVE  ListInvariant'
  BY <1>2, <1>10 DEF BlockNotRecorded
<1> QED BY <1>3, <1>4, <1>5, <1>6, <1>7, <1>8, <1>9, <1>10 DEF Next

\* No chunk is ever lost, whatever the sizes and however many blocks there are:
\* one that no caller has is on the list of its size, and alloc finds it there
\* before it makes a new block.
THEOREM NoChunkLost ==
  ASSUME NoSizeWraps
  PROVE  Spec => []UnusedChunksListed
<1>1. ListInvariant /\ [Next]_vars => ListInvariant'
  BY NextList
<1> QED BY <1>1, InitList, ListImplies, PTL DEF Spec

\* Every variable keeps its type: each block stays cut for one size, and each
\* chunk of it has a first word that is a link to a chunk or its own index.
THEOREM TypeCorrect ==
  ASSUME NoSizeWraps
  PROVE  Spec => []TypeOK
<1>1. InductiveInvariant => TypeOK
  BY DEF InductiveInvariant
<1> QED BY <1>1, Invariance, PTL
==============================================================================
