-------------------------- MODULE MiniportProofs --------------------------
(***************************************************************************)
(* Proofs about Miniport for every table length and all sets of addresses, *)
(* devices, handles and threads.                                           *)
(***************************************************************************)
EXTENDS MiniportProperties, TLAPS

-----------------------------------------------------------------------------
(* Type correctness, part by part of TypeOK.                               *)

LEMMA InitType == Init => TypeOK
<1> SUFFICES ASSUME Init PROVE TypeOK
  OBVIOUS
<1> USE DEF Init
<1>1. MemoryTypeOK
  BY DEF MemoryInit, MemoryTypeOK, Garbage, Object, State
<1>2. DriverTypeOK
  BY DEF DriverTypeOK, ZeroAdapter, Adapter
<1>3. NdisTypeOK
  BY DEF NdisTypeOK
<1>4. CallsTypeOK
  BY NumSlotsAssumption DEF CallsTypeOK, Status
<1> QED BY <1>1, <1>2, <1>3, <1>4 DEF TypeOK

(* Variables that a step leaves alone keep their types.                    *)

LEMMA MemoryFrame == MemoryTypeOK /\ UNCHANGED memory => MemoryTypeOK'
BY DEF MemoryTypeOK, memory

LEMMA DriverFrame == DriverTypeOK /\ UNCHANGED driver => DriverTypeOK'
BY DEF DriverTypeOK, driver

LEMMA NdisFrame == NdisTypeOK /\ UNCHANGED ndis => NdisTypeOK'
BY DEF NdisTypeOK, ndis

LEMMA CallsFrame == CallsTypeOK /\ UNCHANGED calls => CallsTypeOK'
BY DEF CallsTypeOK, calls

(* What the shared steps do to the types.                                  *)

LEMMA ReturnedType ==
  ASSUME CallsTypeOK, NEW s \in Status, Returned(s) PROVE CallsTypeOK'
BY DEF Returned, CallsTypeOK

LEMMA ReturnType ==
  ASSUME CallsTypeOK, NEW t \in Thread, NEW s \in Status, Return(t, s)
  PROVE  CallsTypeOK'
<1>1. 1 \in 1 .. NumSlots + 1
  BY NumSlotsAssumption
<1> QED BY <1>1 DEF Return, CallsTypeOK

LEMMA GotoType ==
  ASSUME CallsTypeOK, NEW t \in Thread,
         NEW l \in InitializeSteps \union {"destroySlots"}, Goto(t, l),
         UNCHANGED <<slot, ptr, device, status>>
  PROVE  CallsTypeOK'
BY DEF Goto, CallsTypeOK

LEMMA NextSlotType ==
  ASSUME CallsTypeOK, NEW t \in Thread, slot[t] \in Slot, NextSlot(t)
  PROVE  CallsTypeOK'
<1>1. slot[t] + 1 \in 1 .. NumSlots + 1
  BY NumSlotsAssumption DEF Slot
<1> QED BY <1>1 DEF NextSlot, CallsTypeOK

LEMMA InitializeFailsType ==
  ASSUME NdisTypeOK, CallsTypeOK, NEW t \in Thread, NEW s \in Status,
         InitializeFails(t, s)
  PROVE  NdisTypeOK' /\ CallsTypeOK'
<1>1. CallsTypeOK'
  BY ReturnType DEF InitializeFails
<1>2. NdisTypeOK'
  BY DEF InitializeFails, NdisTypeOK
<1> QED BY <1>1, <1>2

LEMMA BugcheckType ==
  ASSUME TypeOK, NEW p, Bugcheck(Misuse(p)) PROVE TypeOK'
<1>1. MemoryTypeOK' /\ NdisTypeOK' /\ CallsTypeOK'
  BY MemoryFrame, NdisFrame, CallsFrame DEF Bugcheck, TypeOK
<1>2. DriverTypeOK'
  BY DEF Bugcheck, TypeOK, DriverTypeOK
<1>3. fault' \in {"nullDereference", "useAfterFree"}
  BY DEF Bugcheck, Misuse
<1> QED BY <1>1, <1>2, <1>3 DEF TypeOK

LEMMA DestroyType ==
  ASSUME MemoryTypeOK, NEW a, DestroyAdapter(a) PROVE MemoryTypeOK'
BY DEF DestroyAdapter, MemoryTypeOK, memory, Garbage, Object, State

-----------------------------------------------------------------------------
LEMMA EntryType ==
  ASSUME TypeOK, NEW t \in Thread, DriverEntry(t) PROVE TypeOK'
<1> USE DEF TypeOK
<1>1. CASE DriverEntryNoMemory(t)
  BY <1>1, MemoryFrame, DriverFrame, NdisFrame, ReturnedType
     DEF DriverEntryNoMemory, Status
<1>2. CASE DriverEntryRegisterFails(t)
  <2>1. DriverTypeOK' /\ NdisTypeOK' /\ CallsTypeOK' /\ UNCHANGED fault
    BY <1>2, DriverFrame, NdisFrame, ReturnedType
       DEF DriverEntryRegisterFails, Status
  <2>2. MemoryTypeOK'
    BY <1>2 DEF DriverEntryRegisterFails, NewMiniport, MemoryTypeOK
  <2> QED BY <2>1, <2>2
<1>3. CASE DriverEntryRegisters(t)
  <2>1. NdisTypeOK' /\ CallsTypeOK' /\ UNCHANGED fault
    BY <1>3, NdisFrame, ReturnedType DEF DriverEntryRegisters, Status
  <2>2. MemoryTypeOK'
    BY <1>3 DEF DriverEntryRegisters, NewMiniport, MemoryTypeOK
  <2>3. DriverTypeOK'
    BY <1>3 DEF DriverEntryRegisters, ConstructMiniport, DriverTypeOK,
                ZeroAdapter, Adapter
  <2> QED BY <2>1, <2>2, <2>3
<1> QED BY <1>1, <1>2, <1>3 DEF DriverEntry

LEMMA ScanType ==
  ASSUME TypeOK, NEW t \in Thread,
         ScanNext(t) \/ ScanFound(t) \/ NoSlotLeft(t) \/ Claim(t)
  PROVE  TypeOK'
<1> USE DEF TypeOK
<1>1. CASE ScanNext(t)
  <2>1. CallsTypeOK'
    BY <1>1, NextSlotType DEF ScanNext, NextSlot
  <2> QED BY <1>1, <2>1, MemoryFrame, DriverFrame, NdisFrame DEF ScanNext
<1>2. CASE ScanFound(t)
  BY <1>2, MemoryFrame, DriverFrame, NdisFrame, GotoType
     DEF ScanFound, InitializeSteps
<1>3. CASE NoSlotLeft(t)
  BY <1>3, MemoryFrame, DriverFrame, InitializeFailsType
     DEF NoSlotLeft, Status
<1>4. CASE Claim(t)
  <2>1. MemoryTypeOK' /\ NdisTypeOK' /\ CallsTypeOK' /\ UNCHANGED fault
    BY <1>4, MemoryFrame, NdisFrame, GotoType DEF Claim, InitializeSteps
  <2>2. DriverTypeOK'
    BY <1>4 DEF Claim, DriverTypeOK, CallsTypeOK, Adapter
  <2> QED BY <2>1, <2>2
<1> QED BY <1>1, <1>2, <1>3, <1>4

LEMMA AllocateType ==
  ASSUME TypeOK, NEW t \in Thread,
         Allocate(t) \/ AllocateFails(t) \/ CheckFails(t) \/ CheckPasses(t)
  PROVE  TypeOK'
<1> USE DEF TypeOK
<1>1. CASE Allocate(t)
  <2>1. PICK a \in Addr :
          /\ NewAdapter(a, miniportDriverHandle)
          /\ adapters' = [adapters EXCEPT ![slot[t]].adapter = a]
          /\ ptr' = [ptr EXCEPT ![t] = a]
    BY <1>1 DEF Allocate
  <2>2. MemoryTypeOK'
    BY <2>1 DEF NewAdapter, Constructed, MemoryTypeOK, DriverTypeOK, Object,
                State
  <2>3. DriverTypeOK'
    BY <1>1, <2>1 DEF Allocate, DriverTypeOK, Adapter
  <2>4. CallsTypeOK'
    BY <1>1, <2>1 DEF Allocate, Goto, CallsTypeOK, InitializeSteps
  <2> QED BY <1>1, <2>2, <2>3, <2>4, NdisFrame DEF Allocate
<1>2. CASE AllocateFails(t)
  <2>1. DriverTypeOK'
    BY <1>2 DEF AllocateFails, DriverTypeOK, Adapter
  <2>2. CallsTypeOK'
    BY <1>2 DEF AllocateFails, Goto, CallsTypeOK, InitializeSteps
  <2> QED BY <1>2, <2>1, <2>2, MemoryFrame, NdisFrame DEF AllocateFails
<1>3. CASE CheckFails(t)
  BY <1>3, MemoryFrame, DriverFrame, InitializeFailsType
     DEF CheckFails, Status
<1>4. CASE CheckPasses(t)
  BY <1>4, MemoryFrame, DriverFrame, NdisFrame, GotoType
     DEF CheckPasses, InitializeSteps
<1> QED BY <1>1, <1>2, <1>3, <1>4

LEMMA SetAttributesType ==
  ASSUME TypeOK, NEW t \in Thread,
         \/ SetRegistration(t) \/ SetRegistrationFails(t)
         \/ SetGeneral(t) \/ SetGeneralFails(t) \/ SetAttributesFaults(t)
  PROVE  TypeOK'
<1> USE DEF TypeOK
<1>1. CASE SetRegistration(t)
  <2>1. MemoryTypeOK' /\ DriverTypeOK' /\ UNCHANGED fault
    BY <1>1, MemoryFrame, DriverFrame DEF SetRegistration
  <2>2. PICK p \in Reads(t) :
          /\ IsAdapter(p)
          /\ IF adapterAt[p].driverHandle = NULL
             THEN InitializeFails(t, "INVALID_ADDRESS")
             ELSE /\ context' = [context EXCEPT
                         ![device[t]] = adapterAt[p].miniportAdapterContext]
                  /\ ptr' = [ptr EXCEPT ![t] = p]
                  /\ Goto(t, "setGeneral")
                  /\ UNCHANGED <<phase, slot, device, status>>
    BY <1>1 DEF SetRegistration
  <2>3. p \in Addr /\ adapterAt[p].miniportAdapterContext \in Addr \union {NULL}
    BY <2>2 DEF IsAdapter, MemoryTypeOK, Object
  <2>4. CASE adapterAt[p].driverHandle = NULL
    BY <2>1, <2>2, <2>4, InitializeFailsType DEF Status
  <2>5. CASE adapterAt[p].driverHandle # NULL
    <3>1. NdisTypeOK'
      BY <2>2, <2>3, <2>5 DEF NdisTypeOK
    <3>2. CallsTypeOK'
      BY <2>2, <2>3, <2>5 DEF Goto, CallsTypeOK, InitializeSteps
    <3> QED BY <2>1, <3>1, <3>2
  <2> QED BY <2>4, <2>5
<1>2. CASE SetRegistrationFails(t)
  BY <1>2, MemoryFrame, DriverFrame, InitializeFailsType
     DEF SetRegistrationFails, Status
<1>3. CASE SetGeneral(t)
  <2>1. NdisTypeOK'
    BY <1>3 DEF SetGeneral, NdisTypeOK
  <2> QED BY <1>3, <2>1, MemoryFrame, DriverFrame, ReturnType
          DEF SetGeneral, Status
<1>4. CASE SetGeneralFails(t)
  BY <1>4, MemoryFrame, DriverFrame, InitializeFailsType
     DEF SetGeneralFails, Status
<1>5. CASE SetAttributesFaults(t)
  BY <1>5, BugcheckType DEF SetAttributesFaults
<1> QED BY <1>1, <1>2, <1>3, <1>4, <1>5

LEMMA UnloadType ==
  ASSUME TypeOK, NEW t \in Thread, Unload(t) \/ UnloadStep(t) PROVE TypeOK'
<1> USE DEF TypeOK
<1>1. CASE Unload(t)
  <2>1. MemoryTypeOK' /\ NdisTypeOK' /\ UNCHANGED fault
    BY <1>1, NdisFrame, MemoryFrame DEF Unload, BeginUnload, memory
  <2>2. DriverTypeOK'
    BY <1>1 DEF Unload, BeginUnload, DriverTypeOK
  <2>3. CallsTypeOK'
    <3>1. 1 \in 1 .. NumSlots + 1
      BY NumSlotsAssumption
    <3> QED BY <1>1, <3>1
            DEF Unload, BeginUnload, Goto, CallsTypeOK, DriverTypeOK
  <2> QED BY <2>1, <2>2, <2>3
<1>2. CASE SkipSlot(t)
  BY <1>2, MemoryFrame, DriverFrame, NdisFrame, NextSlotType
     DEF SkipSlot, DestroyingSlot
<1>3. CASE DestroySlot(t)
  <2>1. MemoryTypeOK'
    BY <1>3, DestroyType DEF DestroySlot
  <2>2. DriverTypeOK'
    BY <1>3 DEF DestroySlot, Release, DriverTypeOK, Adapter
  <2> QED BY <1>3, <2>1, <2>2, NdisFrame, NextSlotType
          DEF DestroySlot, DestroyingSlot
<1>4. CASE DestroySlotFaults(t)
  BY <1>4, BugcheckType DEF DestroySlotFaults
<1>5. CASE DestroySlotAgain(t)
  <2>1. DriverTypeOK'
    BY <1>5 DEF DestroySlotAgain, Release, DriverTypeOK, Adapter
  <2> QED BY <1>5, <2>1, MemoryFrame, NdisFrame, NextSlotType
          DEF DestroySlotAgain, DestroyingSlot
<1>6. CASE DeleteMiniport(t)
  <2>1. MemoryTypeOK'
    BY <1>6 DEF DeleteMiniport, MemoryTypeOK
  <2>2. DriverTypeOK'
    BY <1>6 DEF DeleteMiniport, DriverTypeOK, ZeroAdapter, Adapter
  <2>3. CallsTypeOK'
    BY <1>6, ReturnType DEF DeleteMiniport, CallsTypeOK
  <2> QED BY <1>6, <2>1, <2>2, <2>3, NdisFrame DEF DeleteMiniport
<1> QED BY <1>1, <1>2, <1>3, <1>4, <1>5, <1>6 DEF UnloadStep

LEMMA DeviceType ==
  ASSUME TypeOK, NEW t \in Thread, NEW d \in IfIndex, DeviceCall(t, d)
  PROVE  TypeOK'
<1> USE DEF TypeOK
<1>1. CASE InitializeRejected(t, d)
  BY <1>1, MemoryFrame, DriverFrame, NdisFrame, ReturnedType
     DEF InitializeRejected, Status
<1>2. CASE InitializeAccepted(t, d)
  <2>1. NdisTypeOK'
    BY <1>2 DEF InitializeAccepted, StartSearch, NdisTypeOK
  <2>2. CallsTypeOK'
    <3>1. 1 \in 1 .. NumSlots + 1
      BY NumSlotsAssumption
    <3> QED BY <1>2, <3>1 DEF InitializeAccepted, StartSearch, Goto,
                              CallsTypeOK, InitializeSteps
  <2> QED BY <1>2, <2>1, <2>2, MemoryFrame, DriverFrame
          DEF InitializeAccepted, StartSearch
<1>3. CASE HaltEx(t, d)
  <2>1. NdisTypeOK'
    BY <1>3 DEF HaltEx, NdisTypeOK
  <2> QED BY <1>3, <2>1, DestroyType, DriverFrame, CallsFrame DEF HaltEx
<1>4. CASE Pause(t, d)
  <2>1. NdisTypeOK'
    BY <1>4 DEF Pause, NdisTypeOK
  <2>2. MemoryTypeOK'
    BY <1>4 DEF Pause, PauseAdapter, IsAdapter, MemoryTypeOK, Object, State
  <2> QED BY <1>4, <2>1, <2>2, DriverFrame, ReturnedType DEF Pause, Status
<1>5. CASE Restart(t, d)
  <2>1. NdisTypeOK'
    BY <1>5 DEF Restart, NdisTypeOK
  <2>2. MemoryTypeOK'
    BY <1>5 DEF Restart, RestartAdapter, IsAdapter, MemoryTypeOK, Object, State
  <2> QED BY <1>5, <2>1, <2>2, DriverFrame, ReturnedType DEF Restart, Status
<1>6. CASE OidRequest(t, d)
  BY <1>6, MemoryFrame, DriverFrame, NdisFrame, ReturnedType
     DEF OidRequest, OidRequestStatus, Status
<1>7. CASE NullArgument(t, d)
  BY <1>7, MemoryFrame, DriverFrame, NdisFrame, ReturnedType
     DEF NullArgument, Status
<1>8. CASE DeviceCallFaults(t, d)
  BY <1>8, BugcheckType DEF DeviceCallFaults
<1> QED BY <1>1, <1>2, <1>3, <1>4, <1>5, <1>6, <1>7, <1>8 DEF DeviceCall

\* Reboot restores Init.
LEMMA RebootInit == Reboot => Init'
BY DEF Reboot, Init, MemoryInit

LEMMA TypeStep == TypeOK /\ [Next]_vars => TypeOK'
<1> SUFFICES ASSUME TypeOK, [Next]_vars PROVE TypeOK'
  OBVIOUS
<1>1. CASE UNCHANGED vars
  BY <1>1, MemoryFrame, DriverFrame, NdisFrame, CallsFrame DEF vars, TypeOK
<1>2. ASSUME NEW t \in Thread, InitializeStep(t) PROVE TypeOK'
  BY <1>2, ScanType, AllocateType, SetAttributesType
     DEF InitializeStep, SearchStep, AttributesStep
<1>3. ASSUME Reboot PROVE TypeOK'
  BY <1>3, RebootInit, InitType, PTL
<1>4. CASE Next
  BY <1>2, <1>3, <1>4, EntryType, UnloadType, DeviceType DEF Next
<1> QED BY <1>1, <1>4

(***************************************************************************)
(* Every variable keeps its type, whatever calls NDIS makes and however    *)
(* they interleave.                                                        *)
(***************************************************************************)
THEOREM TypeCorrect == Spec => []TypeOK
<1>1. TypeOK /\ [Next]_vars => TypeOK'
  BY TypeStep
<1> QED BY <1>1, InitType, PTL DEF Spec

=============================================================================
