---------------------------- MODULE AX25Adapter ----------------------------
(***************************************************************************)
(* The AX25Adapter objects of the driver and the non-paged pool they are   *)
(* allocated in.                                                           *)
(*                                                                         *)
(* An address of the pool is free or holds one block, which the pool tag   *)
(* names: a Miniport or an AX25Adapter.  Of an AX25Adapter the model keeps *)
(* the fields that the code reads after construction.  The operations here *)
(* are the member functions as their callers see them: Miniport.tla says   *)
(* which callback calls them, on which address, and what happens when that *)
(* address holds no adapter.                                               *)
(***************************************************************************)

CONSTANTS
  Addr,     \* addresses at which the non-paged pool can place a block
  Handle,   \* driver handles that NDIS can grant
  NULL      \* nullptr

ASSUME NULLAssumption == NULL \notin Addr /\ NULL \notin Handle

VARIABLES
  pool,       \* the pool tag of the block at each address, or "free"
  adapterAt   \* the AX25Adapter object stored at each address

memory == <<pool, adapterAt>>

(***************************************************************************)
(* enum AX25Adapter::State, with the members the code never assigns.       *)
(***************************************************************************)
State == {"Halted", "Initializing", "Paused", "Restarting", "Running",
          "Pausing", "Shutdown"}

Object == [state                  : State,
           driverHandle           : Handle \union {NULL},
           miniportAdapterContext : Addr \union {NULL}]

\* What an address holds while no adapter lives there.
Garbage == [state |-> "Halted", driverHandle |-> NULL,
            miniportAdapterContext |-> NULL]

FreeBlocks == {a \in Addr : pool[a] = "free"}

IsAdapter(a) == a \in Addr /\ pool[a] = "adapter"

LiveAdapters == {a \in Addr : pool[a] = "adapter"}

MemoryInit ==
  /\ pool = [a \in Addr |-> "free"]
  /\ adapterAt = [a \in Addr |-> Garbage]

MemoryTypeOK ==
  /\ pool \in [Addr -> {"free", "miniport", "adapter"}]
  /\ adapterAt \in [Addr -> Object]

-----------------------------------------------------------------------------
(***************************************************************************)
(* new(h) AX25Adapter(h).  The constructor passes through Initializing     *)
(* while nobody else has the pointer and leaves the object Paused; the     *)
(* registration attributes carry the object's own address to NDIS.         *)
(***************************************************************************)

\* Mutant: the constructor does not store the driver handle.
ConstructedWithoutHandle(a, h) ==
  [state |-> "Paused", driverHandle |-> NULL, miniportAdapterContext |-> a]

\* Mutant: the constructor leaves the state it starts from.
ConstructedInitializing(a, h) ==
  [state |-> "Initializing", driverHandle |-> h, miniportAdapterContext |-> a]

\* Mutant: the registration attributes carry no context.
ConstructedWithoutContext(a, h) ==
  [state |-> "Paused", driverHandle |-> h, miniportAdapterContext |-> NULL]

Constructed(a, h) ==
  [state |-> "Paused", driverHandle |-> h, miniportAdapterContext |-> a]

NewAdapter(a, h) ==
  /\ h # NULL
  /\ pool[a] = "free"
  /\ pool' = [pool EXCEPT ![a] = "adapter"]
  /\ adapterAt' = [adapterAt EXCEPT ![a] = Constructed(a, h)]

(***************************************************************************)
(* Destroy(): the destructor, then operator delete, which leaves the block *)
(* allocated when the object carries no driver handle.                     *)
(***************************************************************************)
DestroyAdapter(a) ==
  IF adapterAt[a].driverHandle = NULL
  THEN UNCHANGED memory
  ELSE /\ pool' = [pool EXCEPT ![a] = "free"]
       /\ adapterAt' = [adapterAt EXCEPT ![a] = Garbage]

\* Pause() and Restart() assign the state and report success at once.
PauseAdapter(a) ==
  /\ adapterAt' = [adapterAt EXCEPT ![a].state = "Paused"]
  /\ UNCHANGED pool

RestartAdapter(a) ==
  /\ adapterAt' = [adapterAt EXCEPT ![a].state = "Running"]
  /\ UNCHANGED pool

\* HandleOidRequest() changes nothing: every request is refused.
OidRequestStatus(a) ==
  IF adapterAt[a].state = "Halted" THEN "NOT_ACCEPTED" ELSE "NOT_IMPLEMENTED"

=============================================================================
