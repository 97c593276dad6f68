---------------------------- MODULE MCSlidingList ----------------------------
(* SlidingList for TLC: malloc may return any free address, and no address *)
(* differs from another but by what it holds.                              *)
EXTENDS SlidingList, TLC

AddressSymmetry == Permutations(Address)
=============================================================================
