---------------------------- MODULE DriverProofs ----------------------------
(***************************************************************************)
(* Proofs about the whole driver, for any number of devices, threads,      *)
(* processors, lists and slots.                                            *)
(*                                                                         *)
(* Every step of the driver is a step of Miniport or leaves its variables  *)
(* alone (StepOfMiniport), so what is proved of Miniport carries over; the *)
(* rest of SystemInv is shown part by part.                                *)
(***************************************************************************)
EXTENDS Driver, InterleavingProofs

LEMMA ActiveContext == ASSUME TypeOK, SystemInv PROVE ActiveContextAtUse
<1> SUFFICES ASSUME NEW c \in Cpu, InCall(c, "send") \/ InCall(c, "return")
             PROVE  ActiveContextReadable /\ miniportDriverHandle # NULL
  BY DEF ActiveContextAtUse
<1>1. image = "loaded"
  BY DEF InCall, SystemInv, DataCallsNeedDriver, NoDataCalls, TypeOK,
         DriverTypeOK
<1>2. ActiveContextReadable
  BY <1>1 DEF SystemInv, InterleavedInv, MiniportAlive, ActiveContextReadable
<1>3. miniportDriverHandle # NULL
  BY <1>1, NULLAssumption DEF SystemInv, DevicesOfImage
<1> QED BY <1>2, <1>3

\* The steps of a constructor that come before its last.
InnerStep(t) ==
  \/ NewBlock(t) \/ InitializeRegistrationAttributes(t)
  \/ InitializeGeneralAttributes(t) \/ FillPowerManagement(t)
  \/ PublishPowerManagement(t) \/ CopySupportedOids(t)

LEMMA InnerStepQuiet ==
  ASSUME NEW t \in Thread, InnerStep(t) PROVE UNCHANGED vars
BY DEF InnerStep, NewBlock, InitializeRegistrationAttributes,
       InitializeGeneralAttributes, FillPowerManagement,
       PublishPowerManagement, CopySupportedOids, Continue

\* A data call does not touch what Miniport and the constructors have.
LEMMA DataPathQuiet ==
  ASSUME TypeOK, SystemInv, NEW c \in Cpu, DataPathStep(c)
  PROVE  UNCHANGED <<vars, attributes>>
<1>1. UNCHANGED attributes
  BY DEF DataPathStep
<1>2. CASE \E d \in IfIndex : SendCalled(c, d) \/ ReturnCalled(c, d)
  BY <1>1, <1>2 DEF SendCalled, ReturnCalled, Enter
<1>3. CASE DataStep(c)
  <2>1. CASE RefuseSend(c) \/ RefuseReturn(c)
    <3>1. ActiveContextReadable
      BY <2>1, ActiveContext DEF ActiveContextAtUse, RefuseSend, RefuseReturn
    <3> QED BY <1>1, <2>1, <3>1 DEF RefuseSend, RefuseReturn
  <2>2. CASE ~ (RefuseSend(c) \/ RefuseReturn(c))
    BY <1>1, <1>3, <2>2 DEF DataStep, RefusedSendReturns, IgnoreEmptySend,
       SendNetBufferLists, IgnoreEmptyReturn, ReturnNetBufferLists
  <2> QED BY <2>1, <2>2
<1> QED BY <1>2, <1>3 DEF DataPathStep

\* A PnP step that does not run inside a constructor.
LEMMA PnpStepOfMiniport ==
  ASSUME NEW t \in Thread, PnpStep(t) PROVE Next \/ UNCHANGED vars
<1>1. CASE Load(t)
  BY <1>1 DEF Load, Next
<1>2. CASE \E d \in IfIndex : Call(t, d)
  BY <1>2 DEF Call, Next
<1>3. CASE InitializeCallStep(t)
  <2>1. CASE SearchStep(t) \/ AttributesStep(t)
    BY <2>1 DEF InitializeStep, Next
  <2>2. CASE ConstructorStep(t)
    <3>1. CASE StoreAdapter(t) \/ StoreNull(t)
      BY <3>1 DEF StoreAdapter, StoreNull, InitializeStep, Next
    <3>2. CASE InnerStep(t)
      BY <3>2, InnerStepQuiet
    <3> QED BY <2>2, <3>1, <3>2 DEF ConstructorStep, InnerStep
  <2> QED BY <1>3, <2>1, <2>2 DEF InitializeCallStep
<1>4. CASE BeginUnloadCall(t)
  BY <1>4 DEF BeginUnloadCall, Next
<1>5. CASE UnloadCallStep(t)
  BY <1>5 DEF UnloadCallStep, Next
<1> QED BY <1>1, <1>2, <1>3, <1>4, <1>5 DEF PnpStep

LEMMA StepOfMiniport ==
  TypeOK /\ SystemInv /\ [SystemNext]_system => [Next]_vars
<1> SUFFICES ASSUME TypeOK, SystemInv, [SystemNext]_system
             PROVE  Next \/ UNCHANGED vars
  OBVIOUS
<1>1. CASE UNCHANGED system
  BY <1>1 DEF system
<1>2. ASSUME NEW t \in Thread, PnpStep(t) PROVE Next \/ UNCHANGED vars
  BY <1>2, PnpStepOfMiniport
<1>3. ASSUME NEW c \in Cpu, DataPathStep(c) PROVE Next \/ UNCHANGED vars
  BY <1>3, DataPathQuiet
<1>4. CASE SystemReboot
  BY <1>4 DEF SystemReboot, Next
<1> QED BY <1>1, <1>2, <1>3, <1>4 DEF SystemNext

-----------------------------------------------------------------------------
(* The parts of SystemInv that are about Miniport alone.                   *)

DevicesInv == DevicesOfImage /\ DevicesOfCalls /\ PointersOfCalls

LEMMA InitDevices == Init => DevicesInv
BY DEF Init, DevicesInv, DevicesOfImage, DevicesOfCalls, PointersOfCalls,
       InitializeSteps

\* A step that moves no device and no pointer.
LEMMA DevicesFrame ==
  ASSUME DevicesInv, UNCHANGED <<ndis, pc, ptr, device>>,
         image' \in {"unloaded", "unloading"} =>
           image \in {"unloaded", "unloading"},
         image' = "loaded" => miniportDriverHandle' \in Handle,
         \A u \in Thread : pc[u] \in InitializeSteps \ {"scan"} =>
           slot'[u] = slot[u]
  PROVE  DevicesInv'
BY DEF DevicesInv, DevicesOfImage, DevicesOfCalls, PointersOfCalls, ndis

LEMMA EntryDevices ==
  ASSUME TypeOK, DevicesInv, NEW t \in Thread, DriverEntry(t)
  PROVE  DevicesInv'
<1>1. image = "unloaded" /\ UNCHANGED <<ndis, pc, slot, ptr, device>>
  BY DEF DriverEntry, DriverEntryNoMemory, DriverEntryRegisterFails,
         DriverEntryRegisters, Returned
<1>2. image' = "loaded" => miniportDriverHandle' \in Handle
  BY DEF DriverEntry, DriverEntryNoMemory, DriverEntryRegisterFails,
         DriverEntryRegisters, driver
<1> QED BY <1>1, <1>2, DevicesFrame

\* A call that starts a device fails.
LEMMA FailureDevices ==
  ASSUME TypeOK, DevicesInv, image = "loaded", NEW t \in Thread,
         pc[t] \in InitializeSteps, NEW s, InitializeFails(t, s),
         UNCHANGED driver
  PROVE  DevicesInv'
<1> USE DEF TypeOK, CallsTypeOK, NdisTypeOK, driver
<1>1. /\ phase' = [phase EXCEPT ![device[t]] = "absent"]
      /\ context' = [context EXCEPT ![device[t]] = NULL]
      /\ pc' = [pc EXCEPT ![t] = "idle"]
      /\ ptr' = [ptr EXCEPT ![t] = NULL]
      /\ device' = [device EXCEPT ![t] = NULL]
      /\ slot' = [slot EXCEPT ![t] = 1]
  BY DEF InitializeFails, Return
<1>2. DevicesOfImage'
  BY <1>1 DEF DevicesInv, DevicesOfImage
<1>3. DevicesOfCalls'
  BY <1>1 DEF DevicesInv, DevicesOfCalls, InitializeSteps
<1>4. PointersOfCalls'
  BY <1>1 DEF DevicesInv, PointersOfCalls
<1> QED BY <1>2, <1>3, <1>4 DEF DevicesInv

\* A step of a call that starts a device and goes on.
LEMMA ProgressDevices ==
  ASSUME TypeOK, DevicesInv, image' = image,
         NEW t \in Thread, pc[t] \in InitializeSteps,
         NEW l \in InitializeSteps, Goto(t, l),
         UNCHANGED <<miniportDriverHandle, phase, slot, device>>,
         slot[t] \in Slot,
         \A d \in IfIndex : d # device[t] => context'[d] = context[d],
         \A u \in Thread : u # t => ptr'[u] = ptr[u],
         l \in {"scan", "claim", "allocate"} => ptr'[t] = NULL
  PROVE  DevicesInv'
<1> USE DEF TypeOK, CallsTypeOK, NdisTypeOK
<1>1. pc' = [pc EXCEPT ![t] = l]
  BY DEF Goto
<1>2. DevicesOfImage'
  BY DEF DevicesInv, DevicesOfImage, DevicesOfCalls
<1>3. DevicesOfCalls'
  BY <1>1 DEF DevicesInv, DevicesOfCalls
<1>4. PointersOfCalls'
  BY <1>1 DEF DevicesInv, PointersOfCalls, InitializeSteps
<1> QED BY <1>2, <1>3, <1>4 DEF DevicesInv

LEMMA InitializeDevices ==
  ASSUME TypeOK, InterleavedInv, DevicesInv, NEW t \in Thread,
         InitializeStep(t)
  PROVE  DevicesInv'
<1> USE DEF InitializeSteps
<1>1. pc[t] \in InitializeSteps /\ image # "bugcheck"
  BY DEF InitializeStep, SearchStep, AttributesStep, ScanNext, ScanFound,
         NoSlotLeft, Claim, Allocate, AllocateFails, CheckFails, CheckPasses,
         SetRegistration, SetRegistrationFails, SetGeneral, SetGeneralFails,
         SetAttributesFaults, At
<1>2. image = "loaded"
  BY <1>1, StepImage
<1>3. CASE ScanNext(t)
  <2>1. \A u \in Thread : pc[u] # "scan" => slot'[u] = slot[u]
    BY <1>3 DEF ScanNext, At, TypeOK, CallsTypeOK
  <2> QED BY <1>2, <1>3, <2>1, DevicesFrame
          DEF ScanNext, driver, DevicesInv, DevicesOfImage
<1>4. CASE ScanFound(t) \/ Claim(t)
  <2>1. ptr[t] = NULL /\ slot[t] \in Slot
    BY <1>4 DEF ScanFound, Claim, At, DevicesInv, PointersOfCalls,
                DevicesOfCalls
  <2> QED BY <1>1, <1>4, <2>1, ProgressDevices
          DEF ScanFound, Claim, driver, ndis
<1>5. CASE \/ NoSlotLeft(t) \/ CheckFails(t)
           \/ SetRegistrationFails(t) \/ SetGeneralFails(t)
  BY <1>1, <1>2, <1>5, FailureDevices
     DEF NoSlotLeft, CheckFails, SetRegistrationFails, SetGeneralFails
<1>6. CASE Allocate(t) \/ AllocateFails(t)
  <2>1. \A u \in Thread : u # t => ptr'[u] = ptr[u]
    BY <1>6 DEF Allocate, AllocateFails, TypeOK, CallsTypeOK
  <2>2. slot[t] \in Slot
    BY <1>6 DEF Allocate, AllocateFails, At, DevicesInv, DevicesOfCalls
  <2> QED BY <1>1, <1>6, <2>1, <2>2, ProgressDevices
          DEF Allocate, AllocateFails, ndis
<1>7. CASE CheckPasses(t)
  BY <1>1, <1>7, ProgressDevices
     DEF CheckPasses, At, driver, ndis, DevicesInv, DevicesOfCalls
<1>8. CASE SetRegistration(t)
  <2>1. PICK p \in Reads(t) :
          /\ IsAdapter(p)
          /\ IF adapterAt[p].driverHandle = NULL
             THEN InitializeFails(t, "INVALID_ADDRESS")
             ELSE /\ context' = [context EXCEPT
                         ![device[t]] = adapterAt[p].miniportAdapterContext]
                  /\ ptr' = [ptr EXCEPT ![t] = p]
                  /\ Goto(t, "setGeneral")
                  /\ UNCHANGED <<phase, slot, device, status>>
    BY <1>8 DEF SetRegistration
  <2>2. UNCHANGED driver
    BY <1>8 DEF SetRegistration
  <2>3. CASE adapterAt[p].driverHandle = NULL
    BY <1>1, <1>2, <2>1, <2>2, <2>3, FailureDevices
  <2>4. CASE adapterAt[p].driverHandle # NULL
    <3>0. slot[t] \in Slot
      BY <1>8 DEF SetRegistration, At, DevicesInv, DevicesOfCalls
    <3>1. /\ \A d \in IfIndex : d # device[t] => context'[d] = context[d]
          /\ \A u \in Thread : u # t => ptr'[u] = ptr[u]
      BY <2>1, <2>4 DEF TypeOK, NdisTypeOK, CallsTypeOK
    <3> QED BY <1>1, <2>1, <2>2, <2>4, <3>0, <3>1, ProgressDevices DEF driver
  <2> QED BY <2>3, <2>4
<1>9. CASE SetGeneral(t)
  <2>1. /\ phase' = [phase EXCEPT ![device[t]] = "paused"]
        /\ pc' = [pc EXCEPT ![t] = "idle"]
        /\ ptr' = [ptr EXCEPT ![t] = NULL]
        /\ device' = [device EXCEPT ![t] = NULL]
        /\ slot' = [slot EXCEPT ![t] = 1]
        /\ UNCHANGED <<driver, context>>
    BY <1>9 DEF SetGeneral, Return
  <2> USE DEF TypeOK, CallsTypeOK, NdisTypeOK, driver
  <2>2. DevicesOfImage'
    BY <1>2, <2>1 DEF DevicesInv, DevicesOfImage
  <2>3. DevicesOfCalls'
    BY <1>1, <2>1 DEF DevicesInv, DevicesOfCalls
  <2>4. PointersOfCalls'
    BY <2>1 DEF DevicesInv, PointersOfCalls
  <2> QED BY <2>2, <2>3, <2>4 DEF DevicesInv
<1>10. CASE SetAttributesFaults(t)
  BY <1>10, DevicesFrame DEF SetAttributesFaults, Bugcheck, calls
<1> QED BY <1>3, <1>4, <1>5, <1>6, <1>7, <1>8, <1>9, <1>10
        DEF InitializeStep, SearchStep, AttributesStep

LEMMA CallDevices ==
  ASSUME TypeOK, DevicesInv, NEW t \in Thread, NEW d \in IfIndex,
         DeviceCall(t, d)
  PROVE  DevicesInv'
<1> USE DEF TypeOK, CallsTypeOK, NdisTypeOK
<1>1. CASE InitializeRejected(t, d) \/ OidRequest(t, d) \/ NullArgument(t, d)
  BY <1>1, DevicesFrame DEF InitializeRejected, OidRequest, NullArgument,
     Returned, driver, DevicesInv, DevicesOfImage
<1>2. CASE DeviceCallFaults(t, d)
  BY <1>2, DevicesFrame DEF DeviceCallFaults, Bugcheck, calls
<1>3. CASE InitializeAccepted(t, d)
  <2>1. /\ image = "loaded" /\ pc[t] = "idle" /\ phase[d] = "absent"
        /\ phase' = [phase EXCEPT ![d] = "starting"]
        /\ device' = [device EXCEPT ![t] = d]
        /\ pc' = [pc EXCEPT ![t] = "scan"]
        /\ slot' = [slot EXCEPT ![t] = 1]
        /\ UNCHANGED <<driver, context, ptr>>
    BY <1>3 DEF InitializeAccepted, StartSearch, InitializeCalled, Idle, Goto
  <2>2. DevicesOfImage'
    BY <2>1 DEF DevicesInv, DevicesOfImage, driver
  <2>3. DevicesOfCalls'
    BY <2>1 DEF DevicesInv, DevicesOfCalls, InitializeSteps
  <2>4. PointersOfCalls'
    BY <2>1 DEF DevicesInv, PointersOfCalls
  <2> QED BY <2>2, <2>3, <2>4 DEF DevicesInv
<1>4. CASE HaltEx(t, d) \/ Pause(t, d) \/ Restart(t, d)
  <2>1. /\ phase[d] \in {"paused", "running"}
        /\ \/ /\ phase' = [phase EXCEPT ![d] = "absent"]
              /\ context' = [context EXCEPT ![d] = NULL]
           \/ /\ phase' \in {[phase EXCEPT ![d] = "paused"],
                             [phase EXCEPT ![d] = "running"]}
              /\ UNCHANGED context
        /\ image = "loaded" /\ UNCHANGED <<driver, pc, slot, ptr, device>>
    BY <1>4 DEF HaltEx, Pause, Restart, CalledIn, Returned, calls
  <2>2. DevicesOfImage'
    BY <2>1 DEF DevicesInv, DevicesOfImage, driver
  <2>3. DevicesOfCalls'
    BY <2>1 DEF DevicesInv, DevicesOfCalls
  <2>4. PointersOfCalls'
    BY <2>1 DEF DevicesInv, PointersOfCalls
  <2> QED BY <2>2, <2>3, <2>4 DEF DevicesInv
<1> QED BY <1>1, <1>2, <1>3, <1>4 DEF DeviceCall

LEMMA UnloadDevices ==
  ASSUME TypeOK, InterleavedInv, DevicesInv, NEW t \in Thread,
         Unload(t) \/ UnloadStep(t)
  PROVE  DevicesInv'
<1> USE DEF TypeOK, CallsTypeOK
<1>1. CASE Unload(t)
  <2>1. /\ \A d \in IfIndex : phase[d] = "absent"
        /\ \A u \in Thread : pc[u] = "idle"
        /\ pc' = [pc EXCEPT ![t] = "destroySlots"]
        /\ ptr' = [ptr EXCEPT ![t] = activeContext]
        /\ image' = "unloading" /\ UNCHANGED <<ndis, device>>
    BY <1>1 DEF Unload, BeginUnload, AllIdle, Goto
  <2>2. DevicesOfImage'
    BY <2>1 DEF DevicesInv, DevicesOfImage, ndis
  <2>3. DevicesOfCalls'
    BY <2>1 DEF DevicesOfCalls, InitializeSteps
  <2>4. PointersOfCalls'
    BY <2>1 DEF DevicesInv, PointersOfCalls
  <2> QED BY <2>2, <2>3, <2>4 DEF DevicesInv
<1>2. CASE DeleteMiniport(t)
  <2>1. /\ image = "unloading" /\ image' = "unloaded"
        /\ pc' = [pc EXCEPT ![t] = "idle"]
        /\ ptr' = [ptr EXCEPT ![t] = NULL]
        /\ device' = [device EXCEPT ![t] = NULL]
        /\ slot' = [slot EXCEPT ![t] = 1]
        /\ UNCHANGED ndis
    BY <1>2, StepImage DEF DeleteMiniport, At, Return
  <2>2. DevicesOfImage'
    BY <2>1 DEF DevicesInv, DevicesOfImage, ndis
  <2>3. DevicesOfCalls'
    BY <2>1 DEF DevicesInv, DevicesOfCalls, InitializeSteps, ndis
  <2>4. PointersOfCalls'
    BY <2>1 DEF DevicesInv, PointersOfCalls
  <2> QED BY <2>2, <2>3, <2>4 DEF DevicesInv
<1>3. CASE SkipSlot(t) \/ DestroySlot(t) \/ DestroySlotAgain(t)
           \/ DestroySlotFaults(t)
  <2>1. image = "unloading" /\ pc[t] = "destroySlots"
    BY <1>3, StepImage DEF SkipSlot, DestroySlot, DestroySlotAgain,
       DestroySlotFaults, DestroyingSlot, At
  <2>2. \A u \in Thread : u # t => slot'[u] = slot[u]
    BY <1>3 DEF SkipSlot, DestroySlot, DestroySlotAgain, DestroySlotFaults,
                NextSlot, Bugcheck, calls
  <2> QED BY <1>3, <2>1, <2>2, DevicesFrame
          DEF SkipSlot, DestroySlot, DestroySlotAgain, DestroySlotFaults,
              NextSlot, Bugcheck, driver, calls, InitializeSteps
<1> QED BY <1>1, <1>2, <1>3 DEF UnloadStep

LEMMA DevicesStep ==
  TypeOK /\ InterleavedInv /\ DevicesInv /\ [Next]_vars => DevicesInv'
<1> SUFFICES ASSUME TypeOK, InterleavedInv, DevicesInv, [Next]_vars
             PROVE  DevicesInv'
  OBVIOUS
<1>1. CASE UNCHANGED vars
  BY <1>1, DevicesFrame DEF vars, driver, calls, DevicesInv, DevicesOfImage
<1>2. ASSUME Reboot PROVE DevicesInv'
  BY <1>2, RebootInit, InitDevices, PTL
<1>3. CASE Next
  BY <1>2, <1>3, EntryDevices, UnloadDevices, InitializeDevices, CallDevices
     DEF Next
<1> QED BY <1>1, <1>3

-----------------------------------------------------------------------------
(* The parts that are about the constructors.                              *)

ConstructorsInv == Constructors /\ Progress /\ NothingBuilt

\* What a step outside the constructors keeps of the memory and the calls.
KeepsConstructors ==
  /\ \A u \in Thread : pc[u] = "allocate" => pc'[u] = "allocate"
  /\ \A a \in Addr : pool[a] = "free" => pool'[a] = "free"
  /\ \A a \in Addr : pool'[a] = "adapter" => pool[a] = "adapter"

\* Pointers that such a step leads to are older than the step.
KeepsNothingBuilt ==
  /\ image' # "unloaded" => image # "unloaded"
  /\ \A s \in Slot : adapters[s].adapter = NULL => adapters'[s].adapter = NULL
  /\ \A u \in Thread : pc'[u] # "destroySlots" =>
       ptr'[u] = NULL \/ (pc[u] # "destroySlots" /\ ptr'[u] = ptr[u])
  /\ \A d \in IfIndex : context'[d] \in {context[d], NULL}

LEMMA ConstructorsFrame ==
  ASSUME ConstructorsInv, UNCHANGED attributes, KeepsConstructors,
         powerManagement = PowerManagementMembers \/ KeepsNothingBuilt
           \/ image' = "unloaded"
  PROVE  ConstructorsInv'
<1> USE DEF attributes
<1>1. Constructors'
  BY DEF ConstructorsInv, Constructors, KeepsConstructors
<1>2. Progress'
  BY DEF ConstructorsInv, Progress, KeepsConstructors, LiveAdapters
<1>3. NothingBuilt'
  BY DEF ConstructorsInv, NothingBuilt, KeepsNothingBuilt
<1> QED BY <1>1, <1>2, <1>3 DEF ConstructorsInv

LEMMA SearchKeeps ==
  ASSUME TypeOK, InterleavedInv, NEW t \in Thread, SearchStep(t)
  PROVE  KeepsConstructors /\ KeepsNothingBuilt
<1> USE DEF TypeOK, CallsTypeOK, NdisTypeOK
<1>1. image = "loaded" /\ pc[t] \in {"scan", "claim"}
  BY StepImage DEF SearchStep, ScanNext, ScanFound, NoSlotLeft, Claim, At,
                   InitializeSteps
<1>2. /\ image' = image /\ pool' = pool
      /\ pc'[t] # "destroySlots"
      /\ \A u \in Thread : u # t => pc'[u] = pc[u] /\ ptr'[u] = ptr[u]
      /\ ptr'[t] \in {ptr[t], NULL}
  BY <1>1 DEF SearchStep, ScanNext, ScanFound, NoSlotLeft, Claim, Goto,
              InitializeFails, Return, memory, driver
<1>3. \A s \in Slot : adapters'[s].adapter = adapters[s].adapter
  BY DEF SearchStep, ScanNext, ScanFound, NoSlotLeft, Claim, DriverTypeOK,
         Adapter, driver
<1>4. \A d \in IfIndex : context'[d] \in {context[d], NULL}
  BY DEF SearchStep, ScanNext, ScanFound, NoSlotLeft, Claim, InitializeFails,
         ndis
<1> QED BY <1>1, <1>2, <1>3, <1>4 DEF KeepsConstructors, KeepsNothingBuilt

LEMMA AttributesKeeps ==
  ASSUME TypeOK, InterleavedInv, DevicesInv, ConstructorsInv,
         NEW t \in Thread, AttributesStep(t)
  PROVE  /\ KeepsConstructors
         /\ powerManagement = PowerManagementMembers \/ KeepsNothingBuilt
<1> USE DEF TypeOK, CallsTypeOK, NdisTypeOK
<1>1. image = "loaded" /\ pc[t] \in {"check", "setRegistration", "setGeneral"}
  BY StepImage DEF AttributesStep, CheckFails, CheckPasses, SetRegistration,
     SetRegistrationFails, SetGeneral, SetGeneralFails, SetAttributesFaults, At,
     InitializeSteps
<1>2. /\ pool' = pool /\ adapters' = adapters /\ image' # "unloaded"
      /\ pc'[t] # "destroySlots"
      /\ \A u \in Thread : u # t => pc'[u] = pc[u] /\ ptr'[u] = ptr[u]
  BY <1>1 DEF AttributesStep, CheckFails, CheckPasses, SetRegistration,
     SetRegistrationFails, SetGeneral, SetGeneralFails, SetAttributesFaults,
     Goto, InitializeFails, Return, Bugcheck, memory, calls, driver
<1>3. KeepsConstructors
  BY <1>1, <1>2 DEF KeepsConstructors
<1>4. CASE SetRegistration(t)
  <2>1. PICK p \in Reads(t) : IsAdapter(p)
    BY <1>4 DEF SetRegistration
  <2>2. slot[t] \in Slot
    BY <1>1 DEF DevicesInv, DevicesOfCalls, InitializeSteps
  <2>3. powerManagement = PowerManagementMembers
    BY <1>1, <2>1, <2>2, NULLAssumption
       DEF Reads, IsAdapter, ConstructorsInv, NothingBuilt
  <2> QED BY <1>3, <2>3
<1>5. CASE ~ SetRegistration(t)
  <2>1. ptr'[t] \in {ptr[t], NULL}
    BY <1>5 DEF AttributesStep, CheckFails, CheckPasses, SetRegistrationFails,
       SetGeneral, SetGeneralFails, SetAttributesFaults, InitializeFails,
       Return, Bugcheck, calls
  <2>2. \A d \in IfIndex : context'[d] \in {context[d], NULL}
    BY <1>5 DEF AttributesStep, CheckFails, CheckPasses, SetRegistrationFails,
       SetGeneral, SetGeneralFails, SetAttributesFaults, InitializeFails,
       Bugcheck, ndis
  <2> QED BY <1>1, <1>2, <1>3, <2>1, <2>2 DEF KeepsNothingBuilt
<1> QED BY <1>4, <1>5

LEMMA CallKeeps ==
  ASSUME TypeOK, NEW t \in Thread, NEW d \in IfIndex, DeviceCall(t, d)
  PROVE  KeepsConstructors /\ KeepsNothingBuilt
<1> USE DEF TypeOK, MemoryTypeOK, CallsTypeOK, NdisTypeOK
<1>1. CASE \/ InitializeRejected(t, d) \/ OidRequest(t, d)
           \/ NullArgument(t, d) \/ DeviceCallFaults(t, d)
  <2>1. /\ image' \in {image, "bugcheck"} /\ image # "unloaded"
        /\ UNCHANGED <<memory, adapters, ndis, pc, ptr>>
    BY <1>1 DEF InitializeRejected, InitializeCalled, OidRequest, NullArgument,
       DeviceCallFaults, CalledIn, Bugcheck, Returned, calls, driver
  <2> QED BY <2>1 DEF KeepsConstructors, KeepsNothingBuilt, memory, ndis
<1>2. CASE InitializeAccepted(t, d)
  BY <1>2 DEF InitializeAccepted, StartSearch, InitializeCalled, Idle, Goto,
     memory, driver, KeepsConstructors, KeepsNothingBuilt
<1>3. CASE HaltEx(t, d) \/ Pause(t, d) \/ Restart(t, d)
  <2>1. /\ UNCHANGED <<image, adapters, pc, ptr>>
        /\ \A e \in IfIndex : context'[e] \in {context[e], NULL}
    BY <1>3 DEF HaltEx, Pause, Restart, Returned, calls, driver
  <2>2. /\ \A a \in Addr : pool[a] = "free" => pool'[a] = "free"
        /\ \A a \in Addr : pool'[a] = "adapter" => pool[a] = "adapter"
    BY <1>3 DEF HaltEx, Pause, Restart, DestroyAdapter, PauseAdapter,
                RestartAdapter, memory
  <2>3. image # "unloaded"
    BY <1>3 DEF HaltEx, Pause, Restart, CalledIn
  <2>4. \A u \in Thread : pc'[u] # "destroySlots" => pc[u] # "destroySlots"
    BY <2>1
  <2> QED BY <2>1, <2>2, <2>3, <2>4 DEF KeepsConstructors, KeepsNothingBuilt
<1> QED BY <1>1, <1>2, <1>3 DEF DeviceCall

LEMMA UnloadKeeps ==
  ASSUME TypeOK, InterleavedInv, NEW t \in Thread, Unload(t) \/ UnloadStep(t)
  PROVE  /\ KeepsConstructors
         /\ KeepsNothingBuilt \/ image' = "unloaded"
<1> USE DEF TypeOK, MemoryTypeOK, CallsTypeOK
<1>1. CASE Unload(t)
  BY <1>1 DEF Unload, BeginUnload, AllIdle, Goto, ndis, KeepsConstructors,
              KeepsNothingBuilt
<1>2. CASE UnloadStep(t)
  <2>1. pc[t] = "destroySlots" /\ image = "unloading"
    BY <1>2, StepImage DEF UnloadStep, SkipSlot, DestroySlot,
       DestroySlotFaults, DestroySlotAgain, DeleteMiniport, DestroyingSlot, At
  <2>2. KeepsConstructors
    BY <1>2, <2>1 DEF UnloadStep, SkipSlot, DestroySlot, DestroySlotFaults,
       DestroySlotAgain, DeleteMiniport, DestroyAdapter, IsAdapter, NextSlot,
       Return, Bugcheck, memory, calls, KeepsConstructors
  <2>3. CASE DeleteMiniport(t)
    BY <2>2, <2>3 DEF DeleteMiniport
  <2>4. CASE ~ DeleteMiniport(t)
    <3>1. UNCHANGED <<pc, ptr, ndis>>
      BY <1>2, <2>4 DEF UnloadStep, SkipSlot, DestroySlot, DestroySlotFaults,
         DestroySlotAgain, NextSlot, Bugcheck, calls
    <3>2. \A s \in Slot : adapters'[s].adapter = adapters[s].adapter
      BY <1>2, <2>4 DEF UnloadStep, SkipSlot, DestroySlot, DestroySlotFaults,
         DestroySlotAgain, Release, Bugcheck, driver, DriverTypeOK, Adapter
    <3> QED BY <2>1, <2>2, <3>1, <3>2 DEF KeepsNothingBuilt, ndis
  <2> QED BY <2>3, <2>4
<1> QED BY <1>1, <1>2

\* A fresh image: every call has returned, so no constructor runs.
LEMMA LoadConstructors ==
  ASSUME TypeOK, InterleavedInv, DevicesInv, ConstructorsInv,
         NEW t \in Thread, Load(t)
  PROVE  ConstructorsInv'
<1>1. DriverEntry(t) /\ image = "unloaded"
  BY DEF Load, DriverEntry, DriverEntryNoMemory, DriverEntryRegisterFails,
         DriverEntryRegisters
<1>2. \A u \in Thread : pc[u] = "idle" /\ stage[u] = "none"
                        /\ building[u] = NULL /\ ptr[u] = NULL
  BY <1>1 DEF InterleavedInv, CallsMatchImage, AllIdle, ConstructorsInv,
              Constructors, DevicesInv, PointersOfCalls
<1>3. /\ UNCHANGED <<ptr, context, oidCount, building, stage>>
      /\ \A a \in Addr : pool'[a] = "adapter" => pool[a] = "adapter"
  BY <1>1 DEF Load, DriverEntry, DriverEntryNoMemory,
     DriverEntryRegisterFails, DriverEntryRegisters, NewMiniport, Returned,
     memory, ndis, TypeOK, MemoryTypeOK
<1>4. Constructors' /\ Progress'
  BY <1>2, <1>3 DEF ConstructorsInv, Constructors, Progress, LiveAdapters
<1>5. NothingBuilt'
  <2>1. image' # "unloaded" => \A s \in Slot : adapters'[s].adapter = NULL
    BY <1>1 DEF DriverEntry, DriverEntryNoMemory, DriverEntryRegisterFails,
                DriverEntryRegisters, ConstructMiniport, ZeroAdapter, driver
  <2>2. \A d \in IfIndex : context[d] = NULL
    BY <1>1 DEF DevicesInv, DevicesOfImage
  <2> QED BY <1>2, <1>3, <2>1, <2>2 DEF NothingBuilt
<1> QED BY <1>4, <1>5 DEF ConstructorsInv

LEMMA InnerConstructors ==
  ASSUME TypeOK, AttributesTypeOK, ConstructorsInv,
         NEW t \in Thread, InnerStep(t)
  PROVE  ConstructorsInv'
<1> USE DEF AttributesTypeOK
<1>1. UNCHANGED vars /\ pc[t] = "allocate"
  BY InnerStepQuiet DEF InnerStep, NewBlock, InitializeRegistrationAttributes,
     InitializeGeneralAttributes, FillPowerManagement,
     PublishPowerManagement, CopySupportedOids, Constructing, At
<1> USE <1>1 DEF vars, memory, driver, ndis, calls
<1>2. CASE NewBlock(t)
  <2>1. PICK a \in Addr :
          /\ pool[a] = "free" /\ \A u \in Thread : building[u] # a
          /\ building' = [building EXCEPT ![t] = a]
          /\ oidCount' = [oidCount EXCEPT ![a] = 0]
          /\ stage' = [stage EXCEPT ![t] = "registration"]
          /\ UNCHANGED powerManagement
    BY <1>2 DEF NewBlock, FreeBlocks
  <2>2. Constructors'
    BY <2>1, NULLAssumption DEF ConstructorsInv, Constructors
  <2>3. Progress'
    BY <2>1 DEF ConstructorsInv, Constructors, Progress, LiveAdapters
  <2>4. NothingBuilt'
    BY <2>1 DEF ConstructorsInv, NothingBuilt
  <2> QED BY <2>2, <2>3, <2>4 DEF ConstructorsInv
<1>3. CASE ~ NewBlock(t)
  <2>1. /\ stage[t] # "none" /\ building' = building
        /\ \E l \in Stage \ {"none"} : stage' = [stage EXCEPT ![t] = l]
    BY <1>3 DEF InnerStep, InitializeRegistrationAttributes,
       InitializeGeneralAttributes, FillPowerManagement,
       PublishPowerManagement, CopySupportedOids, Constructing, Continue, Stage
  <2>5. powerManagement = PowerManagementMembers =>
          powerManagement' = PowerManagementMembers
    BY <1>3 DEF InnerStep, InitializeRegistrationAttributes,
       InitializeGeneralAttributes, FillPowerManagement,
       PublishPowerManagement, CopySupportedOids
  <2>2. Constructors'
    BY <2>1 DEF ConstructorsInv, Constructors
  <2>3. Progress'
    <3>1. CASE \/ InitializeRegistrationAttributes(t)
               \/ InitializeGeneralAttributes(t)
      BY <3>1 DEF InitializeRegistrationAttributes,
         InitializeGeneralAttributes, Continue, ConstructorsInv, Progress,
         LiveAdapters
    <3>2. CASE FillPowerManagement(t)
      <4>1. \E l \in {"power", "publish"} :
              /\ stage' = [stage EXCEPT ![t] = l]
              /\ l = "publish" => powerManagement' = PowerManagementMembers
        BY <3>2 DEF FillPowerManagement, Continue
      <4>2. UNCHANGED <<oidCount, building>>
        BY <3>2 DEF FillPowerManagement, Continue
      <4> QED BY <2>5, <4>1, <4>2 DEF ConstructorsInv, Progress, LiveAdapters
    <3>4. CASE PublishPowerManagement(t)
      BY <3>4 DEF PublishPowerManagement, Constructing, Continue,
         ConstructorsInv, Progress, LiveAdapters
    <3>3. CASE CopySupportedOids(t)
      <4>1. /\ stage[t] = "oids" /\ building[t] \in Addr
            /\ oidCount' = [oidCount EXCEPT ![building[t]] = OID_LIST_LENGTH]
            /\ stage' = [stage EXCEPT ![t] = "built"]
            /\ UNCHANGED <<building, powerManagement>>
        BY <3>3 DEF CopySupportedOids, Constructing, Continue,
                    ConstructorsInv, Constructors
      <4> QED BY <4>1 DEF ConstructorsInv, Progress, LiveAdapters
    <3> QED BY <1>3, <3>1, <3>2, <3>3, <3>4 DEF InnerStep
  <2>4. NothingBuilt'
    BY <2>5 DEF ConstructorsInv, NothingBuilt
  <2> QED BY <2>2, <2>3, <2>4 DEF ConstructorsInv
<1> QED BY <1>2, <1>3

LEMMA StoreConstructors ==
  ASSUME TypeOK, AttributesTypeOK, InterleavedInv, ConstructorsInv,
         NEW t \in Thread, StoreAdapter(t) \/ StoreNull(t)
  PROVE  ConstructorsInv'
<1> USE DEF TypeOK, MemoryTypeOK, CallsTypeOK, DriverTypeOK, AttributesTypeOK
<1>1. CASE StoreAdapter(t)
  <2>1. PICK a \in Addr :
          /\ NewAdapter(a, miniportDriverHandle)
          /\ ptr' = [ptr EXCEPT ![t] = a]
    BY <1>1 DEF StoreAdapter, Allocate
  <2>2. /\ stage[t] = "built" /\ a = building[t]
        /\ pool' = [pool EXCEPT ![a] = "adapter"]
        /\ pc' = [pc EXCEPT ![t] = "check"]
        /\ building' = [building EXCEPT ![t] = NULL]
        /\ stage' = [stage EXCEPT ![t] = "none"]
        /\ UNCHANGED <<oidCount, powerManagement, context>>
    BY <1>1, <2>1 DEF StoreAdapter, Constructing, NewAdapter, Allocate, Goto,
                      ndis
  <2>3. Constructors'
    BY <2>2 DEF ConstructorsInv, Constructors
  <2>4. Progress'
    BY <2>2 DEF ConstructorsInv, Constructors, Progress, LiveAdapters
  <2>5. NothingBuilt'
    BY <2>2 DEF ConstructorsInv, Progress, NothingBuilt
  <2> QED BY <2>3, <2>4, <2>5 DEF ConstructorsInv
<1>2. CASE StoreNull(t)
  <2>1. /\ stage[t] = "none"
        /\ pc' = [pc EXCEPT ![t] = "check"]
        /\ ptr' = [ptr EXCEPT ![t] = NULL]
        /\ UNCHANGED <<memory, image, ndis, attributes>>
    BY <1>2 DEF StoreNull, Constructing, AllocateFails, Goto
  <2>2. \A s \in Slot : adapters'[s].adapter \in {adapters[s].adapter, NULL}
    BY <1>2 DEF StoreNull, AllocateFails, Adapter
  <2>3. Constructors'
    BY <2>1 DEF ConstructorsInv, Constructors, memory, attributes
  <2>4. Progress'
    BY <2>1 DEF ConstructorsInv, Progress, LiveAdapters, memory, attributes
  <2>5. NothingBuilt'
    BY <2>1, <2>2 DEF ConstructorsInv, NothingBuilt, ndis, attributes
  <2> QED BY <2>3, <2>4, <2>5 DEF ConstructorsInv
<1> QED BY <1>1, <1>2

LEMMA PnpConstructors ==
  ASSUME TypeOK, AttributesTypeOK, InterleavedInv, DevicesInv,
         ConstructorsInv, NEW t \in Thread, PnpStep(t)
  PROVE  ConstructorsInv'
<1>1. CASE Load(t)
  BY <1>1, LoadConstructors
<1>2. CASE \E d \in IfIndex : Call(t, d)
  BY <1>2, CallKeeps, ConstructorsFrame DEF Call
<1>3. CASE InitializeCallStep(t)
  <2>1. CASE ConstructorStep(t)
    BY <2>1, InnerConstructors, StoreConstructors
       DEF ConstructorStep, InnerStep
  <2>2. CASE (SearchStep(t) \/ AttributesStep(t)) /\ UNCHANGED attributes
    BY <2>2, SearchKeeps, AttributesKeeps, ConstructorsFrame
  <2> QED BY <1>3, <2>1, <2>2 DEF InitializeCallStep
<1>4. CASE BeginUnloadCall(t) \/ UnloadCallStep(t)
  BY <1>4, UnloadKeeps, ConstructorsFrame DEF BeginUnloadCall, UnloadCallStep
<1> QED BY <1>1, <1>2, <1>3, <1>4 DEF PnpStep

-----------------------------------------------------------------------------
(* The parts that are about the data path.                                 *)

DataPathInv == DataCallsNeedDriver /\ ListsInCalls

LEMMA PnpDataPath ==
  ASSUME TypeOK, InterleavedInv, DataPathInv, NEW t \in Thread, PnpStep(t)
  PROVE  UNCHANGED dataPath /\ DataPathInv'
<1>1. UNCHANGED dataPath
  BY DEF PnpStep, Load, Call, InitializeCallStep, BeginUnloadCall,
         UnloadCallStep
<1>2. image' \in {"unloaded", "unloading"} => NoDataCalls
  <2>1. CASE Load(t)
    BY <2>1 DEF Load, DriverEntry, DriverEntryNoMemory,
       DriverEntryRegisterFails, DriverEntryRegisters, DataPathInv,
       DataCallsNeedDriver
  <2>2. CASE BeginUnloadCall(t)
    BY <2>2 DEF BeginUnloadCall
  <2>3. CASE UnloadCallStep(t)
    <3>1. image = "unloading"
      BY <2>3, StepImage DEF UnloadCallStep, UnloadStep, SkipSlot,
         DestroySlot, DestroySlotFaults, DestroySlotAgain, DeleteMiniport,
         DestroyingSlot, At
    <3> QED BY <3>1 DEF DataPathInv, DataCallsNeedDriver
  <2>4. CASE \E d \in IfIndex : Call(t, d)
    <3>1. image' \in {image, "bugcheck"}
      BY <2>4 DEF Call, DeviceCall, InitializeRejected, InitializeAccepted,
         StartSearch, HaltEx, Pause, Restart, OidRequest, NullArgument,
         DeviceCallFaults, Bugcheck, driver
    <3> QED BY <3>1 DEF DataPathInv, DataCallsNeedDriver
  <2>5. CASE InitializeCallStep(t)
    <3>1. CASE (SearchStep(t) \/ AttributesStep(t))
      <4>1. image' \in {image, "bugcheck"}
        BY <3>1 DEF SearchStep, ScanNext, ScanFound, NoSlotLeft, Claim,
           AttributesStep, CheckFails, CheckPasses, SetRegistration,
           SetRegistrationFails, SetGeneral, SetGeneralFails,
           SetAttributesFaults, Bugcheck, driver
      <4> QED BY <4>1 DEF DataPathInv, DataCallsNeedDriver
    <3>2. CASE StoreAdapter(t) \/ StoreNull(t)
      BY <3>2 DEF StoreAdapter, StoreNull, Allocate, AllocateFails,
                  DataPathInv, DataCallsNeedDriver
    <3>3. CASE InnerStep(t)
      BY <3>3, InnerStepQuiet DEF vars, driver, DataPathInv,
                                  DataCallsNeedDriver
    <3> QED BY <2>5, <3>1, <3>2, <3>3
            DEF InitializeCallStep, ConstructorStep, InnerStep
  <2> QED BY <2>1, <2>2, <2>3, <2>4, <2>5 DEF PnpStep
<1>3. DataPathInv'
  BY <1>1, <1>2 DEF dataPath, DataPathInv, DataCallsNeedDriver, NoDataCalls,
                    ListsInCalls
<1> QED BY <1>1, <1>3

(***************************************************************************)
(* What each data path step does to the lists, without its context: NDIS   *)
(* sends a list it owns, or a call leaves and completes at most its own.   *)
(***************************************************************************)
SendsList(c) ==
  /\ image = "loaded" /\ call[c] = "none"
  /\ call' = [call EXCEPT ![c] = "send"]
  /\ \E l \in List, d \in IfIndex :
       /\ balance[l] = 0
       /\ balance' = [balance EXCEPT ![l] = @ + 1]
       /\ sentTo' = [sentTo EXCEPT ![l] = d]
       /\ \E r \in Request : r.list = l /\ request' = [request EXCEPT ![c] = r]

PassesOther(c) ==
  /\ image = "loaded" /\ call[c] = "none"
  /\ \E f \in {"send", "return"}, r \in Request :
       /\ f = "return" \/ r.list = NULL
       /\ call' = [call EXCEPT ![c] = f]
       /\ request' = [request EXCEPT ![c] = r]
  /\ UNCHANGED <<balance, sentTo>>

LeavesQuietly(c) == Leave(c) /\ UNCHANGED <<balance, sentTo>>

Completes(c) == call[c] = "send" /\ SendComplete(c, request[c].list, 1)

LEMMA DataPathSteps ==
  ASSUME TypeOK, SystemInv, NEW c \in Cpu, DataPathStep(c)
  PROVE  SendsList(c) \/ PassesOther(c) \/ LeavesQuietly(c) \/ Completes(c)
<1>1. ASSUME NEW d \in IfIndex, SendCalled(c, d) \/ ReturnCalled(c, d)
      PROVE  SendsList(c) \/ PassesOther(c)
  <2>1. ASSUME NEW f, NEW l \in List \union {NULL}, Enter(c, d, f, l)
        PROVE  /\ image = "loaded" /\ call[c] = "none"
               /\ call' = [call EXCEPT ![c] = f]
               /\ \E r \in Request :
                    r.list = l /\ request' = [request EXCEPT ![c] = r]
    <3>1. PICK a \in {context[d], NULL} :
            request' = [request EXCEPT ![c] = [device |-> d, context |-> a,
                                               list |-> l]]
      BY <2>1 DEF Enter
    <3>2. [device |-> d, context |-> a, list |-> l] \in Request
      BY DEF Request, TypeOK, NdisTypeOK
    <3> QED BY <2>1, <3>1, <3>2 DEF Enter
  <2>2. CASE ReturnCalled(c, d)
    BY <2>1, <2>2 DEF ReturnCalled, PassesOther
  <2>3. CASE SendCalled(c, d)
    <3>1. CASE Enter(c, d, "send", NULL) /\ UNCHANGED <<balance, sentTo>>
      BY <2>1, <3>1 DEF PassesOther
    <3>2. CASE \E l \in List :
                 /\ balance[l] = 0
                 /\ Enter(c, d, "send", l)
                 /\ balance' = [balance EXCEPT ![l] = @ + 1]
                 /\ sentTo' = [sentTo EXCEPT ![l] = d]
      <4>1. PICK l \in List :
              /\ balance[l] = 0
              /\ Enter(c, d, "send", l)
              /\ balance' = [balance EXCEPT ![l] = @ + 1]
              /\ sentTo' = [sentTo EXCEPT ![l] = d]
        BY <3>2
      <4>2. /\ image = "loaded" /\ call[c] = "none"
            /\ call' = [call EXCEPT ![c] = "send"]
            /\ \E r \in Request :
                 r.list = l /\ request' = [request EXCEPT ![c] = r]
        BY <2>1, <4>1
      <4> QED BY <4>1, <4>2 DEF SendsList
    <3> QED BY <2>3, <3>1, <3>2 DEF SendCalled
  <2> QED BY <1>1, <2>2, <2>3
<1>2. CASE DataStep(c)
  <2>1. CASE RefuseSend(c) \/ RefuseReturn(c)
    <3>1. ActiveContextReadable
      BY <2>1, ActiveContext DEF ActiveContextAtUse, RefuseSend, RefuseReturn
    <3> QED BY <2>1, <3>1
            DEF RefuseSend, RefuseReturn, InCall, Completes, LeavesQuietly
  <2>2. CASE ~ (RefuseSend(c) \/ RefuseReturn(c))
    BY <1>2, <2>2 DEF DataStep, RefusedSendReturns, IgnoreEmptySend,
       SendNetBufferLists, IgnoreEmptyReturn, ReturnNetBufferLists,
       LeavesQuietly
  <2> QED BY <2>1, <2>2
<1> QED BY <1>1, <1>2 DEF DataPathStep

LEMMA DataPathInvariant ==
  ASSUME TypeOK, DataPathTypeOK, DataPathInv, image' = image, NEW c \in Cpu,
         SendsList(c) \/ PassesOther(c) \/ LeavesQuietly(c) \/ Completes(c)
  PROVE  DataPathTypeOK' /\ DataPathInv'
<1> USE ListAssumption DEF DataPathTypeOK
<1>1. CASE SendsList(c)
  <2>1. PICK l \in List, d \in IfIndex, r \in Request :
          /\ balance[l] = 0 /\ r.list = l
          /\ balance' = [balance EXCEPT ![l] = @ + 1]
          /\ sentTo' = [sentTo EXCEPT ![l] = d]
          /\ request' = [request EXCEPT ![c] = r]
          /\ call' = [call EXCEPT ![c] = "send"]
    BY <1>1 DEF SendsList
  <2>2. DataPathTypeOK'
    BY <2>1
  <2>3. DataCallsNeedDriver'
    BY <1>1 DEF SendsList, DataCallsNeedDriver
  <2>4. \A b \in Cpu : call[b] = "send" => request[b].list # l
    BY <2>1 DEF DataPathInv, ListsInCalls
  <2>5. balance' = [balance EXCEPT ![l] = 1]
    BY <2>1
  <2>6. ListsInCalls'
    BY <1>1, <2>1, <2>4, <2>5
       DEF SendsList, DataPathInv, ListsInCalls, Request
  <2> QED BY <2>2, <2>3, <2>6 DEF DataPathInv
<1>2. CASE PassesOther(c)
  <2>1. DataPathTypeOK' /\ DataCallsNeedDriver'
    BY <1>2 DEF PassesOther, DataCallsNeedDriver
  <2>2. ListsInCalls'
    BY <1>2 DEF PassesOther, DataPathInv, ListsInCalls
  <2> QED BY <2>1, <2>2 DEF DataPathInv
<1>3. CASE LeavesQuietly(c)
  BY <1>3 DEF LeavesQuietly, Leave, NoRequest, Request, DataPathInv,
              DataCallsNeedDriver, NoDataCalls, ListsInCalls
<1>4. CASE Completes(c)
  <2>1. /\ call[c] = "send"
        /\ call' = [call EXCEPT ![c] = "complete"]
        /\ request' = request
    BY <1>4 DEF Completes, SendComplete
  <2>2. \A l \in List :
          /\ balance'[l] = IF l = request[c].list THEN 0 ELSE balance[l]
          /\ sentTo'[l] \in {sentTo[l], NULL}
    BY <1>4 DEF Completes, SendComplete, DataPathInv, ListsInCalls
  <2>3. /\ balance' = [l \in List |-> balance'[l]]
        /\ sentTo' = [l \in List |-> sentTo'[l]]
    BY <1>4 DEF Completes, SendComplete
  <2>4. DataPathTypeOK'
    <3>1. /\ balance' \in [List -> {0, 1}]
          /\ sentTo' \in [List -> IfIndex \union {NULL}]
      BY <2>2, <2>3
    <3> QED BY <2>1, <3>1
  <2>5. DataCallsNeedDriver'
    BY <2>1 DEF DataPathInv, DataCallsNeedDriver, NoDataCalls
  <2>6. ListsInCalls'
    BY <2>1, <2>2 DEF DataPathInv, ListsInCalls, Request
  <2> QED BY <2>4, <2>5, <2>6 DEF DataPathInv
<1> QED BY <1>1, <1>2, <1>3, <1>4

-----------------------------------------------------------------------------
(* The contexts that data calls hold.                                      *)

\* A step that keeps every device with a data call, and the data calls.
LEMMA RequestsFrame ==
  ASSUME RequestsCurrent, UNCHANGED dataPath, image' = "loaded",
         image = "loaded",
         \A d \in Started : InDriverFor(d) =>
           d \in Started' /\ context'[d] = context[d]
  PROVE  RequestsCurrent'
BY DEF RequestsCurrent, dataPath, InDriverFor

LEMMA CallRequests ==
  ASSUME TypeOK, RequestsCurrent, NEW t \in Thread, NEW d \in IfIndex,
         Call(t, d), image' = "loaded"
  PROVE  RequestsCurrent'
<1> USE DEF TypeOK, NdisTypeOK
<1>1. UNCHANGED dataPath /\ DeviceCall(t, d)
  BY DEF Call
<1>2. image = "loaded"
  BY <1>1 DEF DeviceCall, InitializeRejected, InitializeAccepted, StartSearch,
     InitializeCalled, HaltEx, Pause, Restart, OidRequest, NullArgument,
     CalledIn, DeviceCallFaults
<1>3. CASE UNCHANGED ndis
  BY <1>1, <1>2, <1>3, RequestsFrame DEF ndis, Started
<1>4. CASE InitializeAccepted(t, d)
  <2>1. /\ phase[d] = "absent" /\ context' = context
        /\ phase' = [phase EXCEPT ![d] = "starting"]
    BY <1>4 DEF InitializeAccepted, StartSearch, InitializeCalled
  <2>2. \A e \in Started : e \in Started'
    BY <2>1 DEF Started
  <2> QED BY <1>1, <1>2, <2>1, <2>2, RequestsFrame
<1>5. CASE HaltEx(t, d)
  <2>1. /\ phase' = [phase EXCEPT ![d] = "absent"]
        /\ context' = [context EXCEPT ![d] = NULL]
    BY <1>5 DEF HaltEx
  <2>2. ~ InDriverFor(d)
    BY <2>1 DEF Call
  <2>3. \A e \in Started : e # d => e \in Started' /\ context'[e] = context[e]
    BY <2>1 DEF Started
  <2> QED BY <1>1, <1>2, <2>2, <2>3, RequestsFrame
<1>6. CASE Pause(t, d) \/ Restart(t, d)
  <2>1. /\ phase' \in {[phase EXCEPT ![d] = "paused"],
                       [phase EXCEPT ![d] = "running"]}
        /\ context' = context
    BY <1>6 DEF Pause, Restart
  <2>2. \A e \in Started : e \in Started'
    BY <2>1 DEF Started
  <2> QED BY <1>1, <1>2, <2>1, <2>2, RequestsFrame
<1>7. CASE DeviceCallFaults(t, d)
  BY <1>7 DEF DeviceCallFaults, Bugcheck
<1> QED BY <1>1, <1>3, <1>4, <1>5, <1>6, <1>7
        DEF DeviceCall, InitializeRejected, OidRequest, NullArgument

LEMMA InitializeRequests ==
  ASSUME TypeOK, InterleavedInv, DevicesInv, RequestsCurrent,
         NEW t \in Thread, InitializeCallStep(t), image' = "loaded"
  PROVE  RequestsCurrent'
<1> USE DEF TypeOK, NdisTypeOK
<1>1. UNCHANGED dataPath
  BY DEF InitializeCallStep
<1>2. image # "bugcheck" /\ pc[t] \in InitializeSteps
  BY DEF InitializeCallStep, SearchStep, ScanNext, ScanFound, NoSlotLeft,
     Claim, AttributesStep, CheckFails, CheckPasses, SetRegistration,
     SetRegistrationFails, SetGeneral, SetGeneralFails, SetAttributesFaults,
     ConstructorStep, NewBlock, InitializeRegistrationAttributes,
     InitializeGeneralAttributes, FillPowerManagement, PublishPowerManagement,
     CopySupportedOids, StoreAdapter, StoreNull, Constructing, At,
     InitializeSteps
<1>3. image = "loaded"
  BY <1>2, StepImage
<1>4. device[t] \notin Started
  BY <1>2 DEF DevicesInv, DevicesOfCalls, Started
<1>5. \A d \in IfIndex : d # device[t] =>
        phase'[d] = phase[d] /\ context'[d] = context[d]
  <2>1. CASE ConstructorStep(t)
    BY <2>1, InnerStepQuiet
       DEF ConstructorStep, InnerStep, StoreAdapter, StoreNull, Allocate,
           AllocateFails, vars, ndis
  <2>2. CASE SearchStep(t) \/ AttributesStep(t)
    BY <2>2 DEF SearchStep, ScanNext, ScanFound, NoSlotLeft, Claim,
       AttributesStep, CheckFails, CheckPasses, SetRegistration,
       SetRegistrationFails, SetGeneral, SetGeneralFails, SetAttributesFaults,
       InitializeFails, Bugcheck, ndis
  <2> QED BY <2>1, <2>2 DEF InitializeCallStep
<1>6. \A d \in Started : d \in Started' /\ context'[d] = context[d]
  BY <1>4, <1>5 DEF Started
<1> QED BY <1>1, <1>3, <1>6, RequestsFrame

LEMMA PnpRequests ==
  ASSUME TypeOK, SystemInv, NEW t \in Thread, PnpStep(t)
  PROVE  RequestsCurrent'
<1> SUFFICES ASSUME image' = "loaded" PROVE RequestsCurrent'
  BY DEF RequestsCurrent
<1>1. RequestsCurrent /\ InterleavedInv /\ DevicesInv
  BY DEF SystemInv, DevicesInv
<1>2. CASE Load(t)
  <2>1. NoDataCalls /\ UNCHANGED dataPath
    BY <1>2 DEF Load, DriverEntry, DriverEntryNoMemory,
       DriverEntryRegisterFails, DriverEntryRegisters, SystemInv,
       DataCallsNeedDriver
  <2> QED BY <2>1 DEF NoDataCalls, RequestsCurrent, dataPath
<1>3. CASE \E d \in IfIndex : Call(t, d)
  BY <1>1, <1>3, CallRequests
<1>4. CASE InitializeCallStep(t)
  BY <1>1, <1>4, InitializeRequests
<1>5. CASE BeginUnloadCall(t)
  BY <1>5 DEF BeginUnloadCall, Unload, BeginUnload
<1>6. CASE UnloadCallStep(t)
  <2>1. image = "unloading"
    BY <1>1, <1>6, StepImage DEF UnloadCallStep, UnloadStep, SkipSlot,
       DestroySlot, DestroySlotFaults, DestroySlotAgain, DeleteMiniport,
       DestroyingSlot, At
  <2> QED BY <1>6, <2>1 DEF UnloadCallStep, UnloadStep, SkipSlot,
       DestroySlot, DestroySlotFaults, DestroySlotAgain, DeleteMiniport,
       Bugcheck, driver
<1> QED BY <1>2, <1>3, <1>4, <1>5, <1>6 DEF PnpStep

LEMMA DataPathRequests ==
  ASSUME TypeOK, DataPathTypeOK, SystemInv, NEW c \in Cpu, DataPathStep(c)
  PROVE  RequestsCurrent'
<1> USE DEF DataPathTypeOK
<1>1. UNCHANGED vars
  BY DataPathQuiet
<1>2. RequestsCurrent
  BY DEF SystemInv
<1>3. CASE Leave(c)
  BY <1>1, <1>2, <1>3 DEF Leave, RequestsCurrent, vars, driver, ndis, Started
<1>4. ASSUME NEW d \in Started, NEW f, NEW l, Enter(c, d, f, l)
      PROVE  RequestsCurrent'
  <2>1. PICK a \in {context[d], NULL} :
          request' = [request EXCEPT ![c] = [device |-> d, context |-> a,
                                             list |-> l]]
    BY <1>4 DEF Enter
  <2>2. call' = [call EXCEPT ![c] = f]
    BY <1>4 DEF Enter
  <2> QED BY <1>1, <1>2, <2>1, <2>2
          DEF RequestsCurrent, vars, driver, ndis, Started
<1>5. CASE \E d \in IfIndex : SendCalled(c, d) \/ ReturnCalled(c, d)
  BY <1>4, <1>5 DEF SendCalled, ReturnCalled, Started
<1>6. CASE DataStep(c)
  <2>1. CASE RefuseSend(c) \/ RefuseReturn(c)
    <3>1. ActiveContextReadable
      BY <2>1, ActiveContext DEF ActiveContextAtUse, RefuseSend, RefuseReturn
    <3>2. CASE RefuseSend(c)
      <4>1. /\ call[c] = "send" /\ request' = request
            /\ call' = [call EXCEPT ![c] = "complete"]
        BY <3>1, <3>2 DEF RefuseSend, InCall, SendComplete
      <4> QED BY <1>1, <1>2, <4>1
              DEF RequestsCurrent, vars, driver, ndis, Started
    <3> QED BY <1>3, <2>1, <3>1, <3>2 DEF RefuseReturn
  <2>2. CASE ~ (RefuseSend(c) \/ RefuseReturn(c))
    BY <1>3, <1>6, <2>2 DEF DataStep, RefusedSendReturns, IgnoreEmptySend,
       SendNetBufferLists, IgnoreEmptyReturn, ReturnNetBufferLists
  <2> QED BY <2>1, <2>2
<1> QED BY <1>5, <1>6 DEF DataPathStep

-----------------------------------------------------------------------------
(* The whole.                                                              *)

LEMMA SystemInvParts ==
  SystemInv <=> /\ InterleavedInv /\ DevicesInv /\ ConstructorsInv
                /\ DataPathInv /\ RequestsCurrent
BY DEF SystemInv, DevicesInv, ConstructorsInv, DataPathInv

LEMMA SystemInitCorrect == SystemInit => SystemTypeOK /\ SystemInv
<1> SUFFICES ASSUME SystemInit PROVE SystemTypeOK /\ SystemInv
  OBVIOUS
<1> USE DEF SystemInit
<1>1. TypeOK /\ InterleavedInv /\ DevicesInv
  BY InitType, InitInterleaved, InitDevices
<1>2. AttributesTypeOK
  BY DEF AttributesInit, AttributesTypeOK, OID_LIST_LENGTH, Stage
<1>3. DataPathTypeOK
  BY DEF DataPathInit, DataPathTypeOK, NoRequest, Request
<1>4. ConstructorsInv
  BY DEF Init, MemoryInit, AttributesInit, ConstructorsInv, Constructors,
         Progress, NothingBuilt, LiveAdapters
<1>5. DataPathInv
  BY DEF DataPathInit, DataPathInv, DataCallsNeedDriver, NoDataCalls,
         ListsInCalls
<1>6. RequestsCurrent
  BY DEF Init, RequestsCurrent
<1> QED BY <1>1, <1>2, <1>3, <1>4, <1>5, <1>6, SystemInvParts
        DEF SystemTypeOK

LEMMA AttributesFrame ==
  AttributesTypeOK /\ UNCHANGED attributes => AttributesTypeOK'
BY DEF AttributesTypeOK, attributes

LEMMA QuietConstructors ==
  ASSUME AttributesTypeOK, ConstructorsInv, UNCHANGED <<vars, attributes>>
  PROVE  AttributesTypeOK' /\ ConstructorsInv'
<1>1. KeepsConstructors /\ KeepsNothingBuilt
  BY DEF KeepsConstructors, KeepsNothingBuilt, vars, memory, driver, ndis,
         calls
<1> QED BY <1>1, AttributesFrame, ConstructorsFrame

LEMMA PnpAttributesType ==
  ASSUME AttributesTypeOK, ConstructorsInv, NEW t \in Thread, PnpStep(t)
  PROVE  AttributesTypeOK'
<1> USE DEF AttributesTypeOK
<1>1. CASE Load(t)
  BY <1>1 DEF Load
<1>2. CASE ConstructorStep(t)
  <2>1. CASE NewBlock(t)
    BY <2>1 DEF NewBlock, FreeBlocks, Stage, OID_LIST_LENGTH
  <2>2. CASE FillPowerManagement(t)
    BY <2>2 DEF FillPowerManagement, Continue, Stage
  <2>3. CASE CopySupportedOids(t)
    <3>1. OID_LIST_LENGTH \in 0 .. OID_LIST_LENGTH
      BY DEF OID_LIST_LENGTH
    <3>2. oidCount' \in [Addr -> 0 .. OID_LIST_LENGTH]
      BY <2>3, <3>1 DEF CopySupportedOids
    <3>3. stage' \in [Thread -> Stage]
      BY <2>3 DEF CopySupportedOids, Continue, Stage
    <3> QED BY <2>3, <3>2, <3>3 DEF CopySupportedOids, Continue
  <2>4. CASE InitializeRegistrationAttributes(t)
    BY <2>4 DEF InitializeRegistrationAttributes, Assign, Continue, Stage
  <2>5. CASE InitializeGeneralAttributes(t) \/ PublishPowerManagement(t)
    <3>1. {"PowerManagementCapabilitiesEx"} \subseteq GeneralMembers
          /\ GeneralAssigned \subseteq GeneralMembers
      BY DEF GeneralMembers, GeneralAssigned
    <3> QED BY <2>5, <3>1
            DEF InitializeGeneralAttributes, PublishPowerManagement, Assign,
                Continue, Stage
  <2>6. CASE StoreAdapter(t) \/ StoreNull(t)
    BY <2>6 DEF StoreAdapter, StoreNull, attributes, Stage
  <2> QED BY <1>2, <2>1, <2>2, <2>3, <2>4, <2>5, <2>6 DEF ConstructorStep
<1>3. CASE UNCHANGED attributes
  BY <1>3, AttributesFrame
<1> QED BY <1>1, <1>2, <1>3 DEF PnpStep, Call, InitializeCallStep,
        BeginUnloadCall, UnloadCallStep

LEMMA RebootSystemInit == SystemReboot => SystemInit'
BY RebootInit DEF SystemReboot, SystemInit, AttributesReboot, AttributesInit,
   DataPathReboot, DataPathInit

LEMMA SystemStep ==
  SystemTypeOK /\ SystemInv /\ [SystemNext]_system =>
    SystemTypeOK' /\ SystemInv'
<1> SUFFICES ASSUME SystemTypeOK, SystemInv, [SystemNext]_system
             PROVE  SystemTypeOK' /\ SystemInv'
  OBVIOUS
<1> USE DEF SystemTypeOK
<1>1. /\ InterleavedInv /\ DevicesInv /\ ConstructorsInv
      /\ DataPathInv /\ RequestsCurrent
  BY SystemInvParts
<1>2. TypeOK' /\ InterleavedInv' /\ DevicesInv'
  BY <1>1, StepOfMiniport, TypeStep, InterleavedStep, DevicesStep
<1>3. SUFFICES /\ AttributesTypeOK' /\ DataPathTypeOK'
               /\ ConstructorsInv' /\ DataPathInv' /\ RequestsCurrent'
  <2>1. SystemInv' <=> /\ InterleavedInv' /\ DevicesInv' /\ ConstructorsInv'
                       /\ DataPathInv' /\ RequestsCurrent'
    BY DEF SystemInv, DevicesInv, ConstructorsInv, DataPathInv
  <2> QED BY <1>2, <2>1
<1>4. ASSUME NEW t \in Thread, PnpStep(t)
      PROVE  /\ AttributesTypeOK' /\ DataPathTypeOK'
             /\ ConstructorsInv' /\ DataPathInv' /\ RequestsCurrent'
  <2>1. AttributesTypeOK' /\ ConstructorsInv'
    BY <1>1, <1>4, PnpAttributesType, PnpConstructors
  <2>2. UNCHANGED dataPath /\ DataPathInv'
    BY <1>1, <1>4, PnpDataPath
  <2>3. DataPathTypeOK'
    BY <2>2 DEF DataPathTypeOK, dataPath
  <2> QED BY <1>4, <2>1, <2>2, <2>3, PnpRequests
<1>5. CASE UNCHANGED system
  <2>1. AttributesTypeOK' /\ ConstructorsInv'
    BY <1>1, <1>5, QuietConstructors DEF system
  <2>2. DataPathTypeOK' /\ DataPathInv'
    BY <1>1, <1>5
       DEF system, vars, driver, dataPath, DataPathTypeOK, DataPathInv,
           DataCallsNeedDriver, NoDataCalls, ListsInCalls
  <2>3. RequestsCurrent'
    BY <1>1, <1>5
       DEF system, vars, driver, ndis, dataPath, RequestsCurrent, Started
  <2> QED BY <2>1, <2>2, <2>3
<1>6. CASE SystemReboot
  <2>1. SystemTypeOK' /\ SystemInv'
    BY <1>6, RebootSystemInit, SystemInitCorrect, PTL
  <2> QED BY <2>1 DEF SystemInv, DevicesInv, ConstructorsInv, DataPathInv
<1>7. ASSUME NEW c \in Cpu, DataPathStep(c)
      PROVE  /\ AttributesTypeOK' /\ DataPathTypeOK'
             /\ ConstructorsInv' /\ DataPathInv' /\ RequestsCurrent'
  <2>1. UNCHANGED <<vars, attributes>>
    BY <1>7, DataPathQuiet
  <2>2. AttributesTypeOK' /\ ConstructorsInv'
    BY <1>1, <2>1, QuietConstructors
  <2>3. image' = image
    BY <2>1 DEF vars, driver
  <2>4. DataPathTypeOK' /\ DataPathInv'
    BY <1>1, <1>7, <2>3, DataPathSteps, DataPathInvariant
  <2> QED BY <1>7, <2>2, <2>4, DataPathRequests
<1> QED BY <1>4, <1>5, <1>6, <1>7 DEF SystemNext

-----------------------------------------------------------------------------
(***************************************************************************)
(* The inductive invariant of the whole driver, and its types, hold in     *)
(* every state: whatever the constructors and the data path interleave     *)
(* with.                                                                   *)
(***************************************************************************)
THEOREM SystemCorrect == SystemSpec => [](SystemTypeOK /\ SystemInv)
BY SystemInitCorrect, SystemStep, PTL DEF SystemSpec

(***************************************************************************)
(* Every variable of the whole driver keeps to its type, the members       *)
(* assigned by a constructor and the arguments of the data calls included. *)
(***************************************************************************)
THEOREM SystemTypeCorrect == SystemSpec => []SystemTypeOK
BY SystemCorrect, PTL

(***************************************************************************)
(* The driver implements Miniport, so what is true of Miniport's calls is  *)
(* true of the whole.                                                      *)
(***************************************************************************)
LEMMA ImplementsMiniport == SystemSpec => Spec
<1>1. SystemTypeOK /\ SystemInv /\ [SystemNext]_system => [Next]_vars
  BY StepOfMiniport DEF SystemTypeOK
<1>2. SystemInit => Init
  BY DEF SystemInit
<1> QED BY <1>1, <1>2, SystemCorrect, PTL DEF SystemSpec, Spec

(***************************************************************************)
(* In the whole driver the table fills in order and is searched soundly,   *)
(* every adapter can be deleted and the Miniport outlives its calls,       *)
(* whatever constructors, calls and data calls interleave.                 *)
(***************************************************************************)
THEOREM DriverKeepsTable ==
  SystemSpec => [](/\ SlotsFillInOrder /\ SearchedSlotsInUse
                   /\ DeletableAdapter /\ MiniportAlive)
BY ImplementsMiniport, TableFillsInOrder, SearchIsSound, DeleteAlwaysFrees,
   MiniportOutlivesCalls, PTL

(***************************************************************************)
(* In the whole driver, too, no call is sent back, and each step of        *)
(* Miniport's leaves its call fewer to take.                               *)
(***************************************************************************)
THEOREM DriverCallsGetShorter == SystemSpec => CallsShrink
BY ImplementsMiniport, CallsGetShorter, PTL

(***************************************************************************)
(* NDIS never reads an OID list or a static structure that some            *)
(* constructor has filled only in part.                                    *)
(***************************************************************************)
THEOREM ReferencesStayReadable == SystemSpec => []ReferencesReadable
<1>1. SystemTypeOK /\ SystemInv => ReferencesReadable
  <2> SUFFICES ASSUME SystemTypeOK, SystemInv,
                      NEW a \in KnownToNdis, IsAdapter(a)
               PROVE  /\ oidCount[a] = OID_LIST_LENGTH
                      /\ powerManagement = PowerManagementMembers
    BY DEF ReferencesReadable
  <2> USE DEF SystemTypeOK, TypeOK, DriverTypeOK
  <2>1. oidCount[a] = OID_LIST_LENGTH
    BY DEF SystemInv, Progress, IsAdapter, LiveAdapters
  <2>2. a # NULL
    BY NULLAssumption DEF IsAdapter
  <2>3. CASE \E d \in Started : a = context[d]
    <3>1. image # "unloaded"
      BY <2>3 DEF Started, SystemInv, DevicesOfImage
    <3> QED BY <2>1, <2>2, <2>3, <3>1 DEF Started, SystemInv, NothingBuilt
  <2>4. CASE \E t \in Thread : pc[t] = "setGeneral" /\ a = ptr[t]
    <3>1. image # "unloaded"
      BY <2>4 DEF SystemInv, InterleavedInv, CallsMatchImage, AllIdle
    <3> QED BY <2>1, <2>2, <2>4, <3>1 DEF SystemInv, NothingBuilt
  <2> QED BY <2>3, <2>4 DEF KnownToNdis
<1> QED BY <1>1, SystemCorrect, PTL

(***************************************************************************)
(* A data call without a context finds the active Miniport alive and       *)
(* registered, whenever it looks.                                          *)
(***************************************************************************)
THEOREM ActiveContextIsThere == SystemSpec => []ActiveContextAtUse
<1>1. SystemTypeOK /\ SystemInv => ActiveContextAtUse
  BY ActiveContext DEF SystemTypeOK
<1> QED BY <1>1, SystemCorrect, PTL

LEMMA OwnershipInit == SystemInit => Lists!Init
BY DEF SystemInit, DataPathInit, Lists!Init, listOwner

LEMMA OwnershipStep ==
  SystemTypeOK /\ SystemInv /\ [SystemNext]_system =>
    [Lists!Next]_listOwner
<1> SUFFICES ASSUME SystemTypeOK, SystemInv, [SystemNext]_system
             PROVE  Lists!Next \/ UNCHANGED listOwner
  OBVIOUS
<1> USE DEF SystemTypeOK, DataPathTypeOK
<1>1. CASE UNCHANGED balance
  BY <1>1 DEF listOwner
<1>2. ASSUME NEW t \in Thread, PnpStep(t) PROVE UNCHANGED balance
  BY <1>2, PnpDataPath, SystemInvParts DEF dataPath
<1>3. ASSUME NEW c \in Cpu, DataPathStep(c)
      PROVE  Lists!Next \/ UNCHANGED listOwner
  <2>1. CASE PassesOther(c) \/ LeavesQuietly(c)
    BY <1>1, <2>1 DEF PassesOther, LeavesQuietly
  <2>2. CASE SendsList(c)
    <3>1. PICK l \in List :
            balance[l] = 0 /\ balance' = [balance EXCEPT ![l] = @ + 1]
      BY <2>2 DEF SendsList
    <3>2. balance' = [balance EXCEPT ![l] = 1]
      BY <3>1
    <3>3. listOwner[l] = "ndis"
      BY <3>1 DEF listOwner
    <3>4. \A m \in List : balance'[m] = IF m = l THEN 1 ELSE balance[m]
      BY <3>2
    <3>5. listOwner' = [m \in List |-> IF m = l THEN "miniport"
                                      ELSE listOwner[m]]
      BY <3>4 DEF listOwner
    <3>6. [listOwner EXCEPT ![l] = "miniport"] =
            [m \in List |-> IF m = l THEN "miniport" ELSE listOwner[m]]
      BY DEF listOwner
    <3> QED BY <3>3, <3>5, <3>6 DEF Lists!Next, Lists!Send
  <2>3. CASE Completes(c)
    <3> DEFINE l == request[c].list
    <3>1. balance' = [m \in List |-> IF m = l THEN balance[m] - 1
                                              ELSE balance[m]]
      BY <2>3 DEF Completes, SendComplete
    <3>2. CASE l = NULL
      <4>1. balance' = balance
        BY <3>1, <3>2, ListAssumption
      <4> QED BY <4>1, <1>1
    <3>3. CASE l # NULL
      <4>1. l \in List /\ balance[l] = 1
        BY <2>3, <3>3 DEF Completes, SystemInv, ListsInCalls, Request
      <4>2. listOwner[l] = "miniport"
        BY <4>1 DEF listOwner
      <4>3. \A m \in List : balance'[m] = IF m = l THEN 0 ELSE balance[m]
        BY <3>1, <4>1
      <4>4. listOwner' = [m \in List |-> IF m = l THEN "ndis"
                                        ELSE listOwner[m]]
        BY <4>3 DEF listOwner
      <4>5. [listOwner EXCEPT ![l] = "ndis"] =
              [m \in List |-> IF m = l THEN "ndis" ELSE listOwner[m]]
        BY DEF listOwner
      <4> HIDE DEF l
      <4> QED BY <4>1, <4>2, <4>4, <4>5 DEF Lists!Next, Lists!Complete
    <3> QED BY <3>2, <3>3
  <2> QED BY <1>3, <2>1, <2>2, <2>3, DataPathSteps
<1>4. CASE SystemReboot
  BY <1>4 DEF SystemReboot, DataPathReboot, Lists!Next, Lists!Restart,
              listOwner
<1>5. CASE UNCHANGED system
  BY <1>1, <1>5 DEF system, dataPath
<1> QED BY <1>1, <1>2, <1>3, <1>4, <1>5 DEF SystemNext

(***************************************************************************)
(* The data path implements NetBufferLists: every list is completed at     *)
(* most once for each time it was sent, on however many processors.        *)
(***************************************************************************)
THEOREM OwnershipImplemented == SystemSpec => Ownership
BY OwnershipInit, OwnershipStep, SystemCorrect, PTL
   DEF SystemSpec, Ownership, Lists!Spec

=============================================================================
