------------------------------ MODULE MCDriver ------------------------------
(***************************************************************************)
(* Instances of Driver for TLC.  Addresses, devices, threads and handles   *)
(* are interchangeable where no liveness is checked.                       *)
(***************************************************************************)
EXTENDS Driver, TLC

SystemSymmetry ==
  Permutations(Addr) \union Permutations(IfIndex) \union Permutations(Thread)
    \union Permutations(Handle)

=============================================================================
