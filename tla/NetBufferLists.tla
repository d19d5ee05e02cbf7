--------------------------- MODULE NetBufferLists ---------------------------
(***************************************************************************)
(* What a miniport owes NDIS for the net buffer lists it is sent: a list   *)
(* is owned by one side at a time, NDIS gives it away only when it owns    *)
(* it, and the miniport gives back once what it was given.  A machine that *)
(* starts again finds every list with NDIS.                                *)
(***************************************************************************)
CONSTANT List

VARIABLE owner      \* who owns each net buffer list

Owner == {"ndis", "miniport"}

TypeOK == owner \in [List -> Owner]

Init == owner = [l \in List |-> "ndis"]

Send(l) ==
  /\ owner[l] = "ndis"
  /\ owner' = [owner EXCEPT ![l] = "miniport"]

Complete(l) ==
  /\ owner[l] = "miniport"
  /\ owner' = [owner EXCEPT ![l] = "ndis"]

Restart == owner' = [l \in List |-> "ndis"]

Next == (\E l \in List : Send(l) \/ Complete(l)) \/ Restart

Spec == Init /\ [][Next]_owner

=============================================================================
