--------------------------- MODULE MCMemoryManager ---------------------------
\* memoryManager on a block of eight bytes with a header of one.
EXTENDS MemoryManager, TLC

\* On either side of where the header makes the next size necessary: 1 and 2,
\* 7 and 8.  2 and 3 are served by chunks of one size.
ChunkNeeds == {1, 2, 3, 7, 8}

\* The need of an array whose size in bytes does not fit in a word, and of one whose
\* size does but not with the header.
WrappingNeeds == {3, WordSize - 1, WordSize + 1}

Symmetry == Permutations(Regions)
==============================================================================
