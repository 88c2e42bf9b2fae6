--------------------------- MODULE MCAddressSpace ---------------------------
(***************************************************************************)
(* AddressSpace for TLC: two memory regions with a hole between them that  *)
(* share an arena, six frames to allocate and one for the bookkeeping.     *)
(***************************************************************************)
EXTENDS AddressSpace

MCMemoryRegions == {<<<<1, 3>>, <<4, 9>>>>}

Symmetry == Permutations(Cpus)
=============================================================================
