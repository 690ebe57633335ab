-------------------------------- MODULE Memory --------------------------------
(***************************************************************************)
(* The address space as far as an allocator can tell.  The operating       *)
(* system hands out regions that do not overlap, so an address is a region *)
(* and an offset in it, and pointer arithmetic stays in its region.        *)
(***************************************************************************)
EXTENDS Integers

CONSTANTS
  Regions,   \* base addresses of regions
  NoRegion   \* the region of the null pointer

ASSUME NoRegionAssumption == NoRegion \notin Regions

Address(r, o) == [region |-> r, offset |-> o]

Null == Address(NoRegion, 0)

Plus(p, n) == Address(p.region, p.offset + n)

\* m bytes at p and n bytes at q have no byte in common.
Apart(p, m, q, n) ==
  \/ p.region # q.region
  \/ p.offset + m <= q.offset
  \/ q.offset + n <= p.offset
==============================================================================
