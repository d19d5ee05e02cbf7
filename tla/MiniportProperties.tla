------------------------ MODULE MiniportProperties ------------------------
(***************************************************************************)
(* What must hold of the Miniport, its table and its adapters.             *)
(*                                                                         *)
(* The first group holds when initialisations exclude each other, the      *)
(* second however they interleave.  The third states what the repository's *)
(* comments and messages say and the code does not do.                     *)
(***************************************************************************)
EXTENDS Miniport, FiniteSets

\* At most one call is inside miniportInitializeEx.
OneInitialize ==
  \A t, u \in Thread :
    pc[t] \in InitializeSteps /\ pc[u] \in InitializeSteps => t = u

(***************************************************************************)
(* The driver under an NDIS that initialises one device at a time, or with *)
(* a lock around miniportInitializeEx: every other callback may still be   *)
(* made between any two steps of an initialisation.                        *)
(***************************************************************************)
ExclusiveSpec == Init /\ [][Next /\ OneInitialize']_vars

InUse(s) == adapters[s].inUse

\* Devices that NDIS has been told are initialised.
Started == {d \in IfIndex : phase[d] \in {"paused", "running"}}

-----------------------------------------------------------------------------
(* Properties of calls whose initialisations exclude each other.           *)

(***************************************************************************)
(* No adapter becomes unreachable: every AX25Adapter in memory, those of   *)
(* failed initialisations included, is the adapter of a slot in use, so    *)
(* ~Miniport (which walks the slots in use) can destroy it, and none       *)
(* outlives the driver image.                                              *)
(***************************************************************************)
NoOrphan ==
  \A a \in LiveAdapters : \E s \in Slot : InUse(s) /\ adapters[s].adapter = a

(***************************************************************************)
(* What NDIS passes as MiniportAdapterContext of an initialised device,    *)
(* taken from the registration attributes, is the device's own live        *)
(* AX25Adapter: every callback casts and uses it without a check.          *)
(***************************************************************************)
ContextLive ==
  /\ \A d \in Started : IsAdapter(context[d])
  /\ \A d, e \in Started : context[d] = context[e] => d = e

(***************************************************************************)
(* The table maps the interface number of every initialised device to the  *)
(* adapter that NDIS uses for it, although nothing keeps the slot of an    *)
(* earlier device with the same number out of the table.                   *)
(***************************************************************************)
TableMapsInterface ==
  \A d \in Started : \E s \in Slot :
    adapters[s] = [adapter |-> context[d], adapterNumber |-> d, inUse |-> TRUE]

(***************************************************************************)
(* No callback of a loaded driver touches memory that is not an adapter,   *)
(* whatever allocations and registrations failed before it: only ~Miniport *)
(* can, when it destroys a slot's adapter that is gone or was never there. *)
(***************************************************************************)
FaultOnlyInUnload ==
  [][fault' \notin {fault, "none"} => image = "unloading"]_vars

\* The state of a device as AdapterLifecycle counts it.
LifecycleState(d) ==
  CASE phase[d] = "absent"   -> "Halted"
    [] phase[d] = "starting" -> "Initializing"
    [] OTHER -> IF context[d] \in Addr THEN adapterAt[context[d]].state
                                       ELSE "Halted"

lifecycle == [d \in IfIndex |-> LifecycleState(d)]

Abstract == INSTANCE AdapterLifecycle WITH
  Device <- IfIndex,
  state  <- lifecycle

(***************************************************************************)
(* The states that the adapter objects hold are those that NDIS has asked  *)
(* for: each device follows the documented life cycle, and no call for one *)
(* device changes the state of another.                                    *)
(***************************************************************************)
Lifecycle == Abstract!Spec

-----------------------------------------------------------------------------
(* Properties of every interleaving.                                       *)

(***************************************************************************)
(* The slots in use are the first ones: calls that search and claim at the *)
(* same time leave no gap, so a free slot below a used one never exists    *)
(* before the destructor runs.                                             *)
(***************************************************************************)
SlotsFillInOrder ==
  image = "loaded" =>
    \A s, r \in Slot : InUse(s) /\ r < s => InUse(r)

(***************************************************************************)
(* A search that has passed a slot passed one that is in use and still is: *)
(* the answer that the table is full is never stale when it is acted on.   *)
(***************************************************************************)
SearchedSlotsInUse ==
  image = "loaded" =>
    \A t \in Thread, s \in Slot : pc[t] = "scan" /\ s < slot[t] => InUse(s)

(***************************************************************************)
(* The branch of AX25Adapter::operator delete that leaves the block        *)
(* allocated "should be impossible": every adapter in memory carries the   *)
(* driver handle of the Miniport it is freed under.                        *)
(***************************************************************************)
DeletableAdapter ==
  \A t \in Thread :
    DestroyingSlot(t) /\ IsAdapter(adapters[slot[t]].adapter) =>
      /\ adapterAt[adapters[slot[t]].adapter].driverHandle # NULL
      /\ adapterAt[adapters[slot[t]].adapter].driverHandle
           = miniportDriverHandle

(***************************************************************************)
(* The Miniport that NDIS passes to miniportInitializeEx, and the one that *)
(* unload is destroying, is an allocated Miniport until its last use; no   *)
(* call is inside it once the destructor has begun.                        *)
(***************************************************************************)
MiniportAlive ==
  /\ image = "loaded" =>
       activeContext \in Addr /\ pool[activeContext] = "miniport"
  /\ image = "unloading" =>
       \A t \in Thread : pc[t] # "idle" =>
         /\ pc[t] = "destroySlots"
         /\ ptr[t] \in Addr
         /\ pool[ptr[t]] = "miniport"

\* How many steps the call of thread t has left, at most.
Remaining(t) ==
  CASE pc[t] = "idle"            -> 0
    [] pc[t] = "setGeneral"      -> 1
    [] pc[t] = "setRegistration" -> 2
    [] pc[t] = "check"           -> 3
    [] pc[t] = "allocate"        -> 4
    [] pc[t] = "claim"           -> 5
    [] pc[t] = "scan"            -> 6 + (NumSlots + 1 - slot[t])
    [] pc[t] = "destroySlots"    -> 1 + (NumSlots + 1 - slot[t])

(***************************************************************************)
(* A call never goes back, and no other call sends it back: each of its    *)
(* steps leaves it fewer to take, unless the machine stops, and whatever   *)
(* others do to the table in between leaves it no more.  So neither the    *)
(* search nor the destructor's walk can go on for ever, whoever else is in *)
(* the driver.                                                             *)
(***************************************************************************)
CallsShrink ==
  [][\A t \in Thread :
       /\ InitializeStep(t) \/ UnloadStep(t) =>
            Remaining(t)' < Remaining(t) \/ image' = "bugcheck"
       /\ Remaining(t)' > Remaining(t) => Idle(t)]_vars

-----------------------------------------------------------------------------
(***************************************************************************)
(* The inductive invariants behind the two groups.                         *)
(***************************************************************************)

\* Which steps a call can be at, by what has become of the image.
CallsMatchImage ==
  /\ image = "unloaded" => AllIdle
  /\ image = "loaded" => \A t \in Thread : pc[t] # "destroySlots"
  /\ image = "unloading" =>
       /\ \A t \in Thread : pc[t] \in {"idle", "destroySlots"}
       /\ \A t, u \in Thread :
            pc[t] = "destroySlots" /\ pc[u] = "destroySlots" => t = u

\* A slot about to be claimed, free or already lost to another call, has
\* only used slots below it.
ClaimsInOrder ==
  image = "loaded" =>
    \A t \in Thread, s \in Slot : pc[t] = "claim" /\ s < slot[t] => InUse(s)

\* No entry of the table leads to an adapter of an earlier load.
HandlesMatch ==
  \A s \in Slot : IsAdapter(adapters[s].adapter) =>
    /\ adapterAt[adapters[s].adapter].driverHandle = miniportDriverHandle
    /\ miniportDriverHandle # NULL

(***************************************************************************)
(* However calls interleave, the table is filled from its beginning, its   *)
(* entries belong to this load of the driver and the Miniport outlives     *)
(* every call.                                                             *)
(***************************************************************************)
InterleavedInv ==
  /\ CallsMatchImage
  /\ SlotsFillInOrder
  /\ SearchedSlotsInUse
  /\ ClaimsInOrder
  /\ HandlesMatch
  /\ MiniportAlive

\* Devices exist only while the driver is loaded.
DevicesNeedDriver ==
  image # "loaded" => \A d \in IfIndex : phase[d] = "absent"

\* A slot that is not in use never had an adapter or has given it up.
FreeSlots ==
  /\ image = "loaded" =>
       \A s \in Slot : ~ InUse(s) => adapters[s].adapter = NULL
  /\ image = "unloaded" => \A s \in Slot : ~ InUse(s)
  /\ image = "unloading" =>
       \A t \in Thread, s \in Slot :
         pc[t] = "destroySlots" /\ s < slot[t] => ~ InUse(s)

\* What the adapter object of each initialised device says of itself.
StartedAdapters ==
  \A d \in Started :
    /\ IsAdapter(context[d])
    /\ adapterAt[context[d]].state =
         IF phase[d] = "paused" THEN "Paused" ELSE "Running"

\* Adapter p, just constructed, is known to NDIS for no initialised device.
NewlyBuilt(p) ==
  /\ IsAdapter(p)
  /\ adapterAt[p] = Constructed(p, miniportDriverHandle)
  /\ miniportDriverHandle # NULL
  /\ \A d \in Started : context[d] # p

\* What a call of miniportInitializeEx has achieved, by its next step.
InitializeProgress(t) ==
  /\ pc[t] \in InitializeSteps =>
       device[t] \in IfIndex /\ phase[device[t]] = "starting"
  /\ pc[t] = "claim" => slot[t] \in Slot /\ ~ InUse(slot[t])
  /\ pc[t] = "allocate" =>
       /\ slot[t] \in Slot
       /\ adapters[slot[t]] = [adapter |-> NULL, adapterNumber |-> device[t],
                               inUse |-> TRUE]
  /\ pc[t] \in {"check", "setRegistration", "setGeneral"} =>
       /\ slot[t] \in Slot
       /\ adapters[slot[t]] = [adapter |-> ptr[t], adapterNumber |-> device[t],
                               inUse |-> TRUE]
       /\ (pc[t] = "check" /\ ptr[t] = NULL) \/ NewlyBuilt(ptr[t])
  /\ pc[t] = "setGeneral" => context[device[t]] = ptr[t]

(***************************************************************************)
(* When initialisations exclude each other, every adapter in memory is     *)
(* owned by a slot in use, and every device that NDIS knows by a context   *)
(* has an adapter of its own, at that address, in the state asked for.     *)
(***************************************************************************)
ExclusiveInv ==
  /\ DevicesNeedDriver
  /\ FreeSlots
  /\ NoOrphan
  /\ StartedAdapters
  /\ ContextLive
  /\ TableMapsInterface
  /\ \A t \in Thread : InitializeProgress(t)

-----------------------------------------------------------------------------
(* What the repository says, and the code does not keep to.                *)

(***************************************************************************)
(* Destroy(): "After calling this function, the object is no longer valid" *)
(* (AX25Adapter.cpp:388).  So no destroyed adapter is used; but            *)
(* miniportHaltExCallback leaves the slot in use, and ~Miniport destroys   *)
(* its adapter once more.                                                  *)
(***************************************************************************)
NoUseAfterFree == fault # "useAfterFree"

(***************************************************************************)
(* "Cannot allocate miniport adapter: all slots are in use" (Miniport.cpp: *)
(* 256).  So an initialisation that finds no slot finds the table full of  *)
(* adapters; but halted and failed devices keep their slots.               *)
(***************************************************************************)
RefusedOnlyWhenFull ==
  \A t \in Thread :
    pc[t] = "scan" /\ slot[t] = NumSlots + 1 =>
      Cardinality(LiveAdapters) = NumSlots

(***************************************************************************)
(* "Structure which maps adapter objects to their interface numbers"       *)
(* (Miniport.h:180).  So between calls an entry in use that no halt has    *)
(* emptied has an adapter; but a failed allocation leaves one without.     *)
(***************************************************************************)
EntriesHaveAdapters ==
  image = "loaded" /\ AllIdle =>
    \A s \in Slot : InUse(s) => adapters[s].adapter # NULL

(***************************************************************************)
(* "Each individual adapter will have its own AX25Adapter object"          *)
(* (AX25Adapter.h:31).  Two devices initialised at the same time can claim *)
(* the same slot and end with one object.                                  *)
(***************************************************************************)
OneObjectPerDevice ==
  \A d, e \in Started : context[d] = context[e] => d = e

(***************************************************************************)
(* "This class is a singleton" (Miniport.h:29).  A DriverEntry that cannot *)
(* register with NDIS leaves its Miniport allocated, and the next attempt  *)
(* to load makes a second one.                                             *)
(***************************************************************************)
MiniportIsSingleton ==
  Cardinality({a \in Addr : pool[a] = "miniport"}) <= 1

=============================================================================
