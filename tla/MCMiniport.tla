---------------------------- MODULE MCMiniport ----------------------------
(***************************************************************************)
(* Instances of Miniport for TLC.  Addresses, devices, threads and handles *)
(* are interchangeable, which the run with two threads uses.               *)
(***************************************************************************)
EXTENDS MiniportProperties, TLC

Symmetry ==
  Permutations(Addr) \union Permutations(IfIndex)
    \union Permutations(Thread) \union Permutations(Handle)

=============================================================================
