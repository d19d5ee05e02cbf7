------------------------------ MODULE Miniport ------------------------------
(***************************************************************************)
(* The Miniport object, its adapter table, the driver's entry point and    *)
(* the callbacks it registers, under an NDIS that calls them.              *)
(*                                                                         *)
(* NDIS runs callbacks on the threads of Thread.  It serialises the PnP    *)
(* callbacks of one device, and nothing in the driver orders those of two: *)
(* with one thread in Thread the calls follow one another, with more of    *)
(* them the steps of two miniportInitializeEx calls interleave.            *)
(* miniportInitializeEx, which reads and writes the shared table several   *)
(* times, is split at those accesses; ~Miniport is split at each slot; the *)
(* other callbacks touch one adapter, which no other call is using, and    *)
(* are single steps.                                                       *)
(***************************************************************************)
EXTENDS AX25Adapter, Naturals

CONSTANTS
  NumSlots,   \* length of Miniport::adapters (16 in the code)
  IfIndex,    \* the devices, by interface number
  Thread      \* the threads on which NDIS runs PnP callbacks

ASSUME NumSlotsAssumption == NumSlots \in Nat \ {0}
ASSUME IfIndexAssumption == NULL \notin IfIndex

VARIABLES
  image,                \* the driver image: unloaded, loaded, unloading, or
                        \* "bugcheck" when the machine has stopped
  activeContext,        \* Miniport::activeContext
  miniportDriverHandle, \* of the Miniport at activeContext
  adapters,             \* of the Miniport at activeContext
  phase,                \* NDIS: what it has been told of each device
  context,              \* NDIS: MiniportAdapterContext of each device
  pc,                   \* the next step of each thread's call
  slot,                 \* the table index the call is working on
  ptr,                  \* the pointer the call holds
  device,               \* the device the call is for
  status,               \* the NDIS_STATUS that the last call to end returned
  fault                 \* memory error committed since the machine started

driver == <<image, activeContext, miniportDriverHandle, adapters>>
ndis   == <<phase, context>>
calls  == <<pc, slot, ptr, device, status>>
vars   == <<memory, driver, ndis, calls, fault>>

Slot == 1 .. NumSlots

\* struct Miniport::Adapter, and its value after RtlZeroMemory.
Adapter == [adapter       : Addr \union {NULL},
            adapterNumber : IfIndex \union {NULL},
            inUse         : BOOLEAN]

ZeroAdapter == [adapter |-> NULL, adapterNumber |-> NULL, inUse |-> FALSE]

InitializeSteps == {"scan", "claim", "allocate", "check", "setRegistration",
                    "setGeneral"}

Status == {"none", "SUCCESS", "RESOURCES", "FAILURE", "NO_MEMORY",
           "INVALID_PARAMETER", "INVALID_PARAMETER_1", "INVALID_PARAMETER_2",
           "INVALID_ADDRESS", "NOT_IMPLEMENTED", "NOT_ACCEPTED"}

DriverTypeOK ==
  /\ image \in {"unloaded", "loaded", "unloading", "bugcheck"}
  /\ activeContext \in Addr \union {NULL}
  /\ miniportDriverHandle \in Handle \union {NULL}
  /\ adapters \in [Slot -> Adapter]

NdisTypeOK ==
  /\ phase \in [IfIndex -> {"absent", "starting", "paused", "running"}]
  /\ context \in [IfIndex -> Addr \union {NULL}]

CallsTypeOK ==
  /\ pc \in [Thread -> {"idle", "destroySlots"} \union InitializeSteps]
  /\ slot \in [Thread -> 1 .. NumSlots + 1]
  /\ ptr \in [Thread -> Addr \union {NULL}]
  /\ device \in [Thread -> IfIndex \union {NULL}]
  /\ status \in Status

TypeOK ==
  /\ MemoryTypeOK
  /\ DriverTypeOK
  /\ NdisTypeOK
  /\ CallsTypeOK
  /\ fault \in {"none", "nullDereference", "useAfterFree"}

Init ==
  /\ MemoryInit
  /\ image = "unloaded"
  /\ activeContext = NULL
  /\ miniportDriverHandle = NULL
  /\ adapters = [s \in Slot |-> ZeroAdapter]
  /\ phase = [d \in IfIndex |-> "absent"]
  /\ context = [d \in IfIndex |-> NULL]
  /\ pc = [t \in Thread |-> "idle"]
  /\ slot = [t \in Thread |-> 1]
  /\ ptr = [t \in Thread |-> NULL]
  /\ device = [t \in Thread |-> NULL]
  /\ status = "none"
  /\ fault = "none"

-----------------------------------------------------------------------------
(* Steps that several callbacks share.                                     *)

Idle(t) == pc[t] = "idle"

AllIdle == \A t \in Thread : pc[t] = "idle"

\* A callback that runs to completion in one step and returns s.
Returned(s) ==
  /\ status' = s
  /\ UNCHANGED <<pc, slot, ptr, device>>

\* The last step of a call that took several: its locals are gone.
Return(t, s) ==
  /\ pc' = [pc EXCEPT ![t] = "idle"]
  /\ slot' = [slot EXCEPT ![t] = 1]
  /\ ptr' = [ptr EXCEPT ![t] = NULL]
  /\ device' = [device EXCEPT ![t] = NULL]
  /\ status' = s

\* Thread t is about to take step l, on a machine that still runs.
At(t, l) == pc[t] = l /\ image # "bugcheck"

Goto(t, l) == pc' = [pc EXCEPT ![t] = l]

\* The call used a pointer to no object: the machine stops.
Bugcheck(f) ==
  /\ image' = "bugcheck"
  /\ fault' = f
  /\ UNCHANGED <<memory, activeContext, miniportDriverHandle, adapters, ndis,
                 calls>>

\* What goes wrong when p, which points to no adapter, is used as one.
Misuse(p) == IF p = NULL THEN "nullDereference" ELSE "useAfterFree"

-----------------------------------------------------------------------------
(***************************************************************************)
(* DriverEntry.  A fresh image starts with activeContext null; a failed    *)
(* entry makes the system discard the image, statics included, and nothing *)
(* on that path frees the Miniport.                                        *)
(***************************************************************************)

\* operator new: the pool has room.  When it has none it raises, and
\* operator new turns the exception into nullptr: DriverEntryNoMemory.
NewMiniport(a) == a \in FreeBlocks /\ pool' = [pool EXCEPT ![a] = "miniport"]

\* Mutant: the constructor does not make itself the active context.
ConstructMiniportInactive(a) ==
  /\ activeContext' = NULL
  /\ adapters' = [s \in Slot |-> ZeroAdapter]

\* The constructor, as far as an image that stays loaded shows it.
ConstructMiniport(a) ==
  /\ activeContext' = a
  /\ adapters' = [s \in Slot |-> ZeroAdapter]

DriverEntryNoMemory(t) ==
  /\ image = "unloaded"
  /\ Returned("NO_MEMORY")
  /\ UNCHANGED <<memory, driver, ndis, fault>>

DriverEntryRegisterFails(t) ==
  /\ image = "unloaded"
  /\ \E a \in Addr : NewMiniport(a)
  /\ Returned("FAILURE")
  /\ UNCHANGED <<adapterAt, driver, ndis, fault>>

\* RegisterWithNdis stores the handle that NDIS grants.
DriverEntryRegisters(t) ==
  /\ image = "unloaded"
  /\ \E a \in Addr : NewMiniport(a) /\ ConstructMiniport(a)
  /\ miniportDriverHandle' \in Handle
  /\ image' = "loaded"
  /\ Returned("SUCCESS")
  /\ UNCHANGED <<adapterAt, ndis, fault>>

-----------------------------------------------------------------------------
(***************************************************************************)
(* miniportInitializeExCallback(h, c, ...), which NDIS calls for a device  *)
(* it has no adapter for, and miniportInitializeEx behind its two checks.  *)
(***************************************************************************)
InitializeCalled(t, d) == image = "loaded" /\ Idle(t) /\ phase[d] = "absent"

InitializeRejected(t, d) ==
  /\ InitializeCalled(t, d)
  /\ \E h \in Handle, c \in {activeContext, NULL} :
       /\ c = NULL \/ h # miniportDriverHandle
       /\ Returned(IF c = NULL THEN "INVALID_PARAMETER_2"
                                  ELSE "INVALID_PARAMETER_1")
  /\ UNCHANGED <<memory, driver, ndis, fault>>

\* The search begins at the slot first.
StartSearch(t, d, first) ==
  /\ InitializeCalled(t, d)
  /\ \E h \in Handle : h = miniportDriverHandle
  /\ phase' = [phase EXCEPT ![d] = "starting"]
  /\ device' = [device EXCEPT ![t] = d]
  /\ slot' = [slot EXCEPT ![t] = first]
  /\ Goto(t, "scan")
  /\ UNCHANGED <<memory, driver, context, ptr, status, fault>>

\* Mutants: the search begins before the table, or past its first slot.
InitializeAcceptedAtZero(t, d) == StartSearch(t, d, 0)

InitializeAcceptedAtTwo(t, d) == StartSearch(t, d, 2)

InitializeAccepted(t, d) == StartSearch(t, d, 1)

\* findFirstMatchingAdapter: one look at one slot.

\* Mutant: the search leaves a slot whatever its inUse says.
ScanNextAny(t) ==
  /\ At(t, "scan") /\ slot[t] \in Slot
  /\ slot' = [slot EXCEPT ![t] = @ + 1]
  /\ UNCHANGED <<memory, driver, ndis, pc, ptr, device, status, fault>>

\* Mutant: the search goes back to the first slot after the last.
ScanNextAround(t) ==
  /\ At(t, "scan") /\ slot[t] \in Slot
  /\ adapters[slot[t]].inUse
  /\ slot' = [slot EXCEPT ![t] = IF @ = NumSlots THEN 1 ELSE @ + 1]
  /\ UNCHANGED <<memory, driver, ndis, pc, ptr, device, status, fault>>

ScanNext(t) ==
  /\ At(t, "scan") /\ slot[t] \in Slot
  /\ adapters[slot[t]].inUse
  /\ slot' = [slot EXCEPT ![t] = @ + 1]
  /\ UNCHANGED <<memory, driver, ndis, pc, ptr, device, status, fault>>

\* Mutant: the search matches a slot whatever its inUse says.
ScanFoundAny(t) ==
  /\ At(t, "scan") /\ slot[t] \in Slot
  /\ Goto(t, "claim")
  /\ UNCHANGED <<memory, driver, ndis, slot, ptr, device, status, fault>>

ScanFound(t) ==
  /\ At(t, "scan") /\ slot[t] \in Slot
  /\ ~ adapters[slot[t]].inUse
  /\ Goto(t, "claim")
  /\ UNCHANGED <<memory, driver, ndis, slot, ptr, device, status, fault>>

\* The call fails: NDIS forgets what it had learnt of the device.
InitializeFails(t, s) ==
  /\ phase' = [phase EXCEPT ![device[t]] = "absent"]
  /\ context' = [context EXCEPT ![device[t]] = NULL]
  /\ Return(t, s)

NoSlotLeft(t) ==
  /\ At(t, "scan") /\ slot[t] = NumSlots + 1
  /\ InitializeFails(t, "RESOURCES")
  /\ UNCHANGED <<memory, driver, fault>>

\* Mutant: the slot does not get the interface number.
ClaimWithoutNumber(t) ==
  /\ At(t, "claim")
  /\ adapters' = [adapters EXCEPT ![slot[t]].inUse = TRUE]
  /\ Goto(t, "allocate")
  /\ UNCHANGED <<memory, image, activeContext, miniportDriverHandle, ndis,
                 slot, ptr, device, status, fault>>

Claim(t) ==
  /\ At(t, "claim")
  /\ adapters' = [adapters EXCEPT ![slot[t]].inUse = TRUE,
                                  ![slot[t]].adapterNumber = device[t]]
  /\ Goto(t, "allocate")
  /\ UNCHANGED <<memory, image, activeContext, miniportDriverHandle, ndis,
                 slot, ptr, device, status, fault>>

\* operator new and the constructor run, and the table gets the pointer.
Allocate(t) ==
  /\ At(t, "allocate")
  /\ \E a \in Addr :
       /\ NewAdapter(a, miniportDriverHandle)
       /\ adapters' = [adapters EXCEPT ![slot[t]].adapter = a]
       /\ ptr' = [ptr EXCEPT ![t] = a]
  /\ Goto(t, "check")
  /\ UNCHANGED <<image, activeContext, miniportDriverHandle, ndis, slot,
                 device, status, fault>>

AllocateFails(t) ==
  /\ At(t, "allocate")
  /\ adapters' = [adapters EXCEPT ![slot[t]].adapter = NULL]
  /\ ptr' = [ptr EXCEPT ![t] = NULL]
  /\ Goto(t, "check")
  /\ UNCHANGED <<memory, image, activeContext, miniportDriverHandle, ndis,
                 slot, device, status, fault>>

(***************************************************************************)
(* thisAdapter->adapter, read again after it was stored.  When two calls   *)
(* share the slot the accesses race, and the build may read the slot anew  *)
(* or keep the value it has just stored.                                   *)
(***************************************************************************)
Reads(t) == {ptr[t], adapters[slot[t]].adapter}

CheckFails(t) ==
  /\ At(t, "check")
  /\ NULL \in Reads(t)
  /\ InitializeFails(t, "RESOURCES")
  /\ UNCHANGED <<memory, driver, fault>>

\* Mutant: the pointer is not checked.
CheckPassesAlways(t) ==
  /\ At(t, "check")
  /\ Goto(t, "setRegistration")
  /\ UNCHANGED <<memory, driver, ndis, slot, ptr, device, status, fault>>

CheckPasses(t) ==
  /\ At(t, "check")
  /\ \E p \in Reads(t) : p # NULL
  /\ Goto(t, "setRegistration")
  /\ UNCHANGED <<memory, driver, ndis, slot, ptr, device, status, fault>>

(***************************************************************************)
(* AX25Adapter::SetMiniportAttributes on the adapter p just read: the      *)
(* registration attributes give NDIS the context it passes from then on,   *)
(* the general attributes complete the call.  NDIS can refuse either.      *)
(***************************************************************************)
SetRegistration(t) ==
  /\ At(t, "setRegistration")
  /\ \E p \in Reads(t) :
       /\ IsAdapter(p)
       /\ IF adapterAt[p].driverHandle = NULL
          THEN InitializeFails(t, "INVALID_ADDRESS")
          ELSE /\ context' = [context EXCEPT
                                ![device[t]] = adapterAt[p].miniportAdapterContext]
               /\ ptr' = [ptr EXCEPT ![t] = p]
               /\ Goto(t, "setGeneral")
               /\ UNCHANGED <<phase, slot, device, status>>
  /\ UNCHANGED <<memory, driver, fault>>

SetRegistrationFails(t) ==
  /\ At(t, "setRegistration")
  /\ \E p \in Reads(t) : IsAdapter(p)
  /\ InitializeFails(t, "FAILURE")
  /\ UNCHANGED <<memory, driver, fault>>

SetGeneral(t) ==
  /\ At(t, "setGeneral")
  /\ IsAdapter(ptr[t])
  /\ phase' = [phase EXCEPT ![device[t]] = "paused"]
  /\ Return(t, "SUCCESS")
  /\ UNCHANGED <<memory, driver, context, fault>>

SetGeneralFails(t) ==
  /\ At(t, "setGeneral")
  /\ IsAdapter(ptr[t])
  /\ InitializeFails(t, "FAILURE")
  /\ UNCHANGED <<memory, driver, fault>>

\* The adapter of the call was destroyed, or was never there.
SetAttributesFaults(t) ==
  \/ /\ At(t, "setRegistration")
     /\ \E p \in Reads(t) : ~ IsAdapter(p) /\ Bugcheck(Misuse(p))
  \/ /\ At(t, "setGeneral")
     /\ ~ IsAdapter(ptr[t])
     /\ Bugcheck(Misuse(ptr[t]))

-----------------------------------------------------------------------------
(***************************************************************************)
(* The callbacks of a device that NDIS believes initialised.               *)
(***************************************************************************)
CalledIn(t, d, phases) ==
  image = "loaded" /\ Idle(t) /\ phase[d] \in phases

\* Mutant: the callback takes the adapter from the table's first slot.
HaltExFirstSlot(t, d) ==
  /\ CalledIn(t, d, {"paused"})
  /\ IsAdapter(adapters[1].adapter)
  /\ DestroyAdapter(adapters[1].adapter)
  /\ phase' = [phase EXCEPT ![d] = "absent"]
  /\ context' = [context EXCEPT ![d] = NULL]
  /\ UNCHANGED <<driver, calls, fault>>

\* miniportHaltExCallback: the table still holds the adapter afterwards.
HaltEx(t, d) ==
  /\ CalledIn(t, d, {"paused"})
  /\ IsAdapter(context[d])
  /\ DestroyAdapter(context[d])
  /\ phase' = [phase EXCEPT ![d] = "absent"]
  /\ context' = [context EXCEPT ![d] = NULL]
  /\ UNCHANGED <<driver, calls, fault>>

Pause(t, d) ==
  /\ CalledIn(t, d, {"running"})
  /\ IsAdapter(context[d])
  /\ PauseAdapter(context[d])
  /\ phase' = [phase EXCEPT ![d] = "paused"]
  /\ Returned("SUCCESS")
  /\ UNCHANGED <<driver, context, fault>>

Restart(t, d) ==
  /\ CalledIn(t, d, {"paused"})
  /\ IsAdapter(context[d])
  /\ RestartAdapter(context[d])
  /\ phase' = [phase EXCEPT ![d] = "running"]
  /\ Returned("SUCCESS")
  /\ UNCHANGED <<driver, context, fault>>

OidRequest(t, d) ==
  /\ CalledIn(t, d, {"paused", "running"})
  /\ IsAdapter(context[d])
  /\ Returned(OidRequestStatus(context[d]))
  /\ UNCHANGED <<memory, driver, ndis, fault>>

\* A null context, or null parameters with it: the callback only complains.
NullArgument(t, d) ==
  /\ CalledIn(t, d, {"paused", "running"})
  /\ \E s \in {"INVALID_PARAMETER", "INVALID_PARAMETER_1",
               "INVALID_PARAMETER_2"} : Returned(s)
  /\ UNCHANGED <<memory, driver, ndis, fault>>

DeviceCallFaults(t, d) ==
  /\ CalledIn(t, d, {"paused", "running"})
  /\ ~ IsAdapter(context[d])
  /\ Bugcheck(Misuse(context[d]))

-----------------------------------------------------------------------------
(***************************************************************************)
(* miniportDriverUnloadCallback, once every device is gone: the destructor *)
(* of the Miniport clears activeContext and destroys what each slot in use *)
(* points to; operator delete frees the Miniport.                          *)
(***************************************************************************)
BeginUnload(t) ==
  /\ image = "loaded"
  /\ AllIdle
  /\ \A d \in IfIndex : phase[d] = "absent"
  /\ image' = "unloading"
  /\ activeContext' = NULL
  /\ ptr' = [ptr EXCEPT ![t] = activeContext]
  /\ slot' = [slot EXCEPT ![t] = 1]
  /\ Goto(t, "destroySlots")
  /\ UNCHANGED <<adapterAt, miniportDriverHandle, adapters, ndis, device,
                 status, fault>>

\* Mutant: operator delete frees the block before the destructor runs.
UnloadFreesFirst(t) ==
  /\ BeginUnload(t)
  /\ pool' = [pool EXCEPT ![activeContext] = "free"]

Unload(t) == BeginUnload(t) /\ UNCHANGED pool

DestroyingSlot(t) == At(t, "destroySlots") /\ slot[t] \in Slot

NextSlot(t) ==
  /\ slot' = [slot EXCEPT ![t] = @ + 1]
  /\ UNCHANGED <<pc, ptr, device, status>>

SkipSlot(t) ==
  /\ DestroyingSlot(t)
  /\ ~ adapters[slot[t]].inUse
  /\ NextSlot(t)
  /\ UNCHANGED <<memory, driver, ndis, fault>>

Release(s) == adapters' = [adapters EXCEPT ![s].inUse = FALSE]

\* Mutant: the slot stays in use.
DestroySlotOnly(t) ==
  /\ DestroyingSlot(t)
  /\ adapters[slot[t]].inUse
  /\ IsAdapter(adapters[slot[t]].adapter)
  /\ DestroyAdapter(adapters[slot[t]].adapter)
  /\ NextSlot(t)
  /\ UNCHANGED <<driver, ndis, fault>>

DestroySlot(t) ==
  /\ DestroyingSlot(t)
  /\ adapters[slot[t]].inUse
  /\ IsAdapter(adapters[slot[t]].adapter)
  /\ DestroyAdapter(adapters[slot[t]].adapter)
  /\ Release(slot[t])
  /\ NextSlot(t)
  /\ UNCHANGED <<image, activeContext, miniportDriverHandle, ndis, fault>>

\* Destroy() on nullptr, or on an adapter that a halt has destroyed.
DestroySlotFaults(t) ==
  /\ DestroyingSlot(t)
  /\ adapters[slot[t]].inUse
  /\ ~ IsAdapter(adapters[slot[t]].adapter)
  /\ Bugcheck(Misuse(adapters[slot[t]].adapter))

\* The second destruction of a block can also pass unnoticed.
DestroySlotAgain(t) ==
  /\ DestroyingSlot(t)
  /\ adapters[slot[t]].inUse
  /\ adapters[slot[t]].adapter # NULL
  /\ ~ IsAdapter(adapters[slot[t]].adapter)
  /\ fault' = "useAfterFree"
  /\ Release(slot[t])
  /\ NextSlot(t)
  /\ UNCHANGED <<memory, image, activeContext, miniportDriverHandle, ndis>>

DeleteMiniport(t) ==
  /\ At(t, "destroySlots") /\ slot[t] = NumSlots + 1
  /\ pool' = [pool EXCEPT ![ptr[t]] = "free"]
  /\ adapters' = [s \in Slot |-> ZeroAdapter]
  /\ miniportDriverHandle' = NULL
  /\ image' = "unloaded"
  /\ Return(t, status)
  /\ UNCHANGED <<adapterAt, activeContext, ndis, fault>>

\* A stopped machine starts again with nothing of the driver in memory.
Reboot ==
  /\ image = "bugcheck"
  /\ image' = "unloaded"
  /\ pool' = [a \in Addr |-> "free"]
  /\ adapterAt' = [a \in Addr |-> Garbage]
  /\ activeContext' = NULL
  /\ miniportDriverHandle' = NULL
  /\ adapters' = [s \in Slot |-> ZeroAdapter]
  /\ phase' = [d \in IfIndex |-> "absent"]
  /\ context' = [d \in IfIndex |-> NULL]
  /\ pc' = [t \in Thread |-> "idle"]
  /\ slot' = [t \in Thread |-> 1]
  /\ ptr' = [t \in Thread |-> NULL]
  /\ device' = [t \in Thread |-> NULL]
  /\ status' = "none"
  /\ fault' = "none"

-----------------------------------------------------------------------------
DriverEntry(t) ==
  \/ DriverEntryNoMemory(t)
  \/ DriverEntryRegisterFails(t)
  \/ DriverEntryRegisters(t)

\* The steps of a call that has begun.
SearchStep(t) ==
  ScanNext(t) \/ ScanFound(t) \/ NoSlotLeft(t) \/ Claim(t)

AttributesStep(t) ==
  \/ CheckFails(t) \/ CheckPasses(t)
  \/ SetRegistration(t) \/ SetRegistrationFails(t)
  \/ SetGeneral(t) \/ SetGeneralFails(t)
  \/ SetAttributesFaults(t)

InitializeStep(t) ==
  SearchStep(t) \/ Allocate(t) \/ AllocateFails(t) \/ AttributesStep(t)

UnloadStep(t) ==
  \/ SkipSlot(t) \/ DestroySlot(t) \/ DestroySlotFaults(t)
  \/ DestroySlotAgain(t) \/ DeleteMiniport(t)

DeviceCall(t, d) ==
  \/ InitializeRejected(t, d) \/ InitializeAccepted(t, d)
  \/ HaltEx(t, d) \/ Pause(t, d) \/ Restart(t, d)
  \/ OidRequest(t, d) \/ NullArgument(t, d) \/ DeviceCallFaults(t, d)

Next ==
  \/ \E t \in Thread :
       \/ DriverEntry(t)
       \/ Unload(t)
       \/ InitializeStep(t)
       \/ UnloadStep(t)
       \/ \E d \in IfIndex : DeviceCall(t, d)
  \/ Reboot

Spec == Init /\ [][Next]_vars

=============================================================================
