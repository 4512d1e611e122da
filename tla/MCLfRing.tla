------------------------------- MODULE MCLfRing -------------------------------
(***************************************************************************)
(* A small instance of LfRing for TLC.  The macro cache_remap of lfcore.hpp *)
(* with order 1 and BUFFIO_RING_MIN 1; its two operands have no bit in     *)
(* common, so the bitwise or is a sum.                                     *)
(***************************************************************************)
EXTENDS LfRing, TLC

CONSTANTS p1, p2, c1, c2

Order == 1
RingMin == 1

CacheRemap(index, order, n) ==
  ((index % n) \div 2^(order - RingMin)) + ((index * 2^RingMin) % n)

MCHalf == 2^Order
MCRemap == [i \in 0 .. 2 * MCHalf - 1 |-> CacheRemap(i, Order + 1, 2 * MCHalf)]
MCCalls == p1 :> 2 @@ p2 :> 1 @@ c1 :> 2

MCIndexRemap == [i \in 0 .. MCHalf - 1 |-> CacheRemap(i, Order, MCHalf)]
=============================================================================
