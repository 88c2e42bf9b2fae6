---------------------------- MODULE MCRegionTree ----------------------------
(***************************************************************************)
(* Nine pages of which one is reserved at boot, mappings of one and of two *)
(* pages.                                                                  *)
(***************************************************************************)
EXTENDS RegionTree

MCReserved == <<<<4, 5>>>>

=============================================================================
