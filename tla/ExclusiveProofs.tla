-------------------------- MODULE ExclusiveProofs --------------------------
(***************************************************************************)
(* Proofs of the properties that hold when no two devices are initialised  *)
(* at the same time, by the inductive invariant ExclusiveInv.              *)
(***************************************************************************)
EXTENDS InterleavingProofs

Known == TypeOK /\ InterleavedInv /\ ExclusiveInv /\ OneInitialize

-----------------------------------------------------------------------------
(* Steps that several actions share.                                       *)

\* A step of the call inside miniportInitializeEx leaves the other threads
\* outside it.
LEMMA OthersOutside ==
  ASSUME Known, NEW t \in Thread, pc[t] \in InitializeSteps,
         \A u \in Thread \ {t} : pc'[u] = pc[u], InitializeProgress(t)'
  PROVE  \A u \in Thread : InitializeProgress(u)'
<1>1. \A u \in Thread \ {t} : pc'[u] \notin InitializeSteps
  BY DEF Known, OneInitialize
<1> QED BY <1>1 DEF InitializeProgress, InitializeSteps

(***************************************************************************)
(* A step of the one call in progress that neither fails nor changes       *)
(* memory, the table or what NDIS knows.                                   *)
(***************************************************************************)
LEMMA ProgressStep ==
  ASSUME Known, NEW t \in Thread, image = "loaded",
         pc[t] \in InitializeSteps, \A u \in Thread \ {t} : pc'[u] = pc[u],
         UNCHANGED <<memory, driver, ndis>>, InitializeProgress(t)'
  PROVE  ExclusiveInv'
<1> USE DEF Known, ExclusiveInv, memory, driver, ndis
<1>1. DevicesNeedDriver' /\ FreeSlots'
  BY DEF DevicesNeedDriver, FreeSlots, InUse
<1>2. NoOrphan'
  BY DEF NoOrphan, LiveAdapters, InUse
<1>3. StartedAdapters' /\ ContextLive'
  BY DEF StartedAdapters, ContextLive, Started, IsAdapter
<1>4. TableMapsInterface'
  BY DEF TableMapsInterface, Started
<1>5. \A u \in Thread : InitializeProgress(u)'
  BY OthersOutside
<1> QED BY <1>1, <1>2, <1>3, <1>4, <1>5

\* The one call in progress returns an error.
LEMMA FailStep ==
  ASSUME Known, NEW t \in Thread, NEW s,
         image = "loaded", pc[t] \in InitializeSteps,
         UNCHANGED <<memory, driver>>, InitializeFails(t, s)
  PROVE  ExclusiveInv'
<1> USE DEF Known, ExclusiveInv, memory, driver
<1>1. device[t] \in IfIndex /\ phase[device[t]] = "starting"
  BY DEF InitializeProgress
<1>2. /\ Started' = Started
      /\ \A d \in Started : phase'[d] = phase[d] /\ context'[d] = context[d]
  BY <1>1 DEF InitializeFails, Started, TypeOK, NdisTypeOK
<1>3. DevicesNeedDriver' /\ FreeSlots'
  BY DEF DevicesNeedDriver, FreeSlots, InUse
<1>4. NoOrphan'
  BY DEF NoOrphan, LiveAdapters, InUse
<1>5. StartedAdapters' /\ ContextLive'
  BY <1>2 DEF StartedAdapters, ContextLive, IsAdapter
<1>6. TableMapsInterface'
  BY <1>2 DEF TableMapsInterface
<1>7. \A u \in Thread : InitializeProgress(u)'
  <2>1. pc' = [pc EXCEPT ![t] = "idle"] /\ pc'[t] = "idle"
    BY DEF InitializeFails, Return, TypeOK, CallsTypeOK
  <2>2. InitializeProgress(t)'
    BY <2>1 DEF InitializeProgress, InitializeSteps
  <2> QED BY <2>1, <2>2, OthersOutside
<1> QED BY <1>3, <1>4, <1>5, <1>6, <1>7

\* A call of one step that touches neither adapters nor what NDIS knows.
LEMMA QuietStep ==
  ASSUME Known, UNCHANGED <<adapterAt, driver, ndis, pc, slot, ptr, device>>,
         \A a \in Addr : pool'[a] = "adapter" <=> pool[a] = "adapter"
  PROVE  ExclusiveInv'
<1> USE DEF Known, ExclusiveInv, driver, ndis
<1>1. DevicesNeedDriver' /\ FreeSlots'
  BY DEF DevicesNeedDriver, FreeSlots, InUse
<1>2. NoOrphan'
  BY DEF NoOrphan, LiveAdapters, InUse
<1>3. StartedAdapters' /\ ContextLive'
  BY DEF StartedAdapters, ContextLive, Started, IsAdapter
<1>4. TableMapsInterface'
  BY DEF TableMapsInterface, Started
<1>5. \A u \in Thread : InitializeProgress(u)'
  BY DEF InitializeProgress, NewlyBuilt, InUse, IsAdapter, Started, Constructed
<1> QED BY <1>1, <1>2, <1>3, <1>4, <1>5

-----------------------------------------------------------------------------
LEMMA InitExclusive == Init => ExclusiveInv
<1> SUFFICES ASSUME Init PROVE ExclusiveInv
  OBVIOUS
<1> USE DEF Init, MemoryInit
<1>1. DevicesNeedDriver /\ FreeSlots
  BY DEF DevicesNeedDriver, FreeSlots, InUse, ZeroAdapter
<1>2. NoOrphan
  BY DEF NoOrphan, LiveAdapters
<1>3. StartedAdapters /\ ContextLive /\ TableMapsInterface
  BY DEF StartedAdapters, ContextLive, TableMapsInterface, Started
<1>4. \A u \in Thread : InitializeProgress(u)
  BY DEF InitializeProgress, InitializeSteps
<1> QED BY <1>1, <1>2, <1>3, <1>4 DEF ExclusiveInv

LEMMA EntryExclusive ==
  ASSUME Known, NEW t \in Thread, DriverEntry(t)
  PROVE  ExclusiveInv'
<1>1. CASE DriverEntryNoMemory(t)
  BY <1>1, QuietStep DEF DriverEntryNoMemory, Returned, memory
<1>2. CASE DriverEntryRegisterFails(t)
  <2>1. PICK a \in FreeBlocks : pool' = [pool EXCEPT ![a] = "miniport"]
    BY <1>2 DEF DriverEntryRegisterFails, NewMiniport
  <2>2. \A b \in Addr : pool'[b] = "adapter" <=> pool[b] = "adapter"
    BY <2>1 DEF FreeBlocks, Known, TypeOK, MemoryTypeOK
  <2> QED BY <1>2, <2>2, QuietStep DEF DriverEntryRegisterFails, Returned
<1>3. CASE DriverEntryRegisters(t)
  <2>1. PICK a \in FreeBlocks : pool' = [pool EXCEPT ![a] = "miniport"]
    BY <1>3 DEF DriverEntryRegisters, NewMiniport
  <2>2. /\ image = "unloaded" /\ image' = "loaded"
        /\ adapters' = [s \in Slot |-> ZeroAdapter]
        /\ UNCHANGED <<pc, phase>>
    BY <1>3 DEF DriverEntryRegisters, ConstructMiniport, Returned, ndis
  <2>3. /\ \A d \in IfIndex : phase[d] = "absent"
        /\ \A s \in Slot : ~ InUse(s)
        /\ \A u \in Thread : pc[u] = "idle"
    BY <2>2 DEF Known, ExclusiveInv, DevicesNeedDriver, FreeSlots,
                InterleavedInv, CallsMatchImage, AllIdle
  <2>4. \A b \in Addr : pool'[b] # "adapter"
    BY <2>1, <2>3 DEF Known, ExclusiveInv, NoOrphan, LiveAdapters,
                      TypeOK, MemoryTypeOK, FreeBlocks
  <2>5. DevicesNeedDriver' /\ FreeSlots'
    BY <2>2 DEF DevicesNeedDriver, FreeSlots, ZeroAdapter
  <2>6. NoOrphan'
    BY <2>4 DEF NoOrphan, LiveAdapters
  <2>7. StartedAdapters' /\ ContextLive' /\ TableMapsInterface'
    BY <2>2, <2>3 DEF StartedAdapters, ContextLive, TableMapsInterface, Started
  <2>8. \A u \in Thread : InitializeProgress(u)'
    BY <2>2, <2>3 DEF InitializeProgress, InitializeSteps
  <2> QED BY <2>5, <2>6, <2>7, <2>8 DEF ExclusiveInv
<1> QED BY <1>1, <1>2, <1>3 DEF DriverEntry

LEMMA ScanExclusive ==
  ASSUME Known, NEW t \in Thread,
         ScanNext(t) \/ ScanFound(t) \/ NoSlotLeft(t)
  PROVE  ExclusiveInv'
<1>1. image = "loaded" /\ pc[t] = "scan"
  BY StepImage DEF Known, ScanNext, ScanFound, NoSlotLeft, At, InitializeSteps
<1>2. device[t] \in IfIndex /\ phase[device[t]] = "starting"
  BY <1>1 DEF Known, ExclusiveInv, InitializeProgress, InitializeSteps
<1>3. CASE ScanNext(t)
  <2>1. InitializeProgress(t)'
    BY <1>1, <1>2, <1>3 DEF ScanNext, InitializeProgress, ndis
  <2> QED BY <1>1, <1>3, <2>1, ProgressStep DEF ScanNext, InitializeSteps
<1>4. CASE ScanFound(t)
  <2>1. pc'[t] = "claim"
    BY <1>4 DEF ScanFound, Goto, Known, TypeOK, CallsTypeOK
  <2>2. InitializeProgress(t)'
    BY <1>2, <1>4, <2>1 DEF ScanFound, InitializeProgress, InUse, ndis, driver
  <2>3. \A u \in Thread \ {t} : pc'[u] = pc[u]
    BY <1>4 DEF ScanFound, Goto
  <2> QED BY <1>1, <1>4, <2>2, <2>3, ProgressStep DEF ScanFound, InitializeSteps
<1>5. CASE NoSlotLeft(t)
  BY <1>1, <1>5, FailStep DEF NoSlotLeft, InitializeSteps
<1> QED BY <1>3, <1>4, <1>5

LEMMA ClaimExclusive ==
  ASSUME Known, NEW t \in Thread, Claim(t)
  PROVE  ExclusiveInv'
<1> USE DEF Known, TypeOK, CallsTypeOK, DriverTypeOK, ExclusiveInv
<1>1. image = "loaded" /\ pc[t] = "claim"
  BY StepImage DEF Claim, At, InitializeSteps
<1>2. /\ device[t] \in IfIndex /\ phase[device[t]] = "starting"
      /\ slot[t] \in Slot /\ ~ InUse(slot[t])
  BY <1>1 DEF InitializeProgress, InitializeSteps
<1>3. adapters[slot[t]].adapter = NULL
  BY <1>1, <1>2 DEF FreeSlots
<1>4. /\ pc'[t] = "allocate"
      /\ UNCHANGED <<memory, image, miniportDriverHandle, ndis, slot, device>>
  BY DEF Claim, Goto
<1>5. /\ adapters'[slot[t]] = [adapter |-> NULL, adapterNumber |-> device[t],
                              inUse |-> TRUE]
      /\ \A s \in Slot : s # slot[t] => adapters'[s] = adapters[s]
  <2>1. adapters[slot[t]] \in Adapter
    BY <1>2
  <2>2. adapters'[slot[t]] = [adapters[slot[t]] EXCEPT
                               !.inUse = TRUE, !.adapterNumber = device[t]]
    BY <1>2 DEF Claim
  <2>3. \A s \in Slot : s # slot[t] => adapters'[s] = adapters[s]
    BY <1>2 DEF Claim
  <2> QED BY <1>3, <2>1, <2>2, <2>3 DEF Adapter
<1>6. DevicesNeedDriver' /\ FreeSlots'
  BY <1>1, <1>4, <1>5 DEF DevicesNeedDriver, FreeSlots, InUse, ndis
<1>7. NoOrphan'
  BY <1>2, <1>4, <1>5 DEF NoOrphan, LiveAdapters, InUse, memory
<1>8. StartedAdapters' /\ ContextLive'
  BY <1>4 DEF StartedAdapters, ContextLive, Started, IsAdapter, memory, ndis
<1>9. TableMapsInterface'
  BY <1>2, <1>4, <1>5 DEF TableMapsInterface, Started, InUse, ndis
<1>10. \A u \in Thread : InitializeProgress(u)'
  <2>1. InitializeProgress(t)'
    BY <1>2, <1>4, <1>5 DEF InitializeProgress, ndis
  <2>2. \A u \in Thread \ {t} : pc'[u] = pc[u]
    BY DEF Claim, Goto
  <2> QED BY <1>1, <2>1, <2>2, OthersOutside DEF InitializeSteps
<1> QED BY <1>6, <1>7, <1>8, <1>9, <1>10

LEMMA AllocateExclusive ==
  ASSUME Known, NEW t \in Thread, Allocate(t) \/ AllocateFails(t)
  PROVE  ExclusiveInv'
<1> USE DEF Known, TypeOK, CallsTypeOK, DriverTypeOK, MemoryTypeOK, ExclusiveInv
<1>1. image = "loaded" /\ pc[t] = "allocate"
  BY StepImage DEF Allocate, AllocateFails, At, InitializeSteps
<1>2. /\ device[t] \in IfIndex /\ phase[device[t]] = "starting"
      /\ slot[t] \in Slot
      /\ adapters[slot[t]] = [adapter |-> NULL, adapterNumber |-> device[t],
                             inUse |-> TRUE]
  BY <1>1 DEF InitializeProgress, InitializeSteps
<1>3. /\ pc'[t] = "check"
      /\ UNCHANGED <<image, miniportDriverHandle, ndis, slot, device>>
  BY DEF Allocate, AllocateFails, Goto
<1>4. Started' = Started
  BY <1>3 DEF Started, ndis
<1>5. /\ DevicesNeedDriver'
      /\ InitializeProgress(t)' => \A u \in Thread : InitializeProgress(u)'
  <2>1. DevicesNeedDriver'
    BY <1>1, <1>3 DEF DevicesNeedDriver
  <2>2. \A u \in Thread \ {t} : pc'[u] = pc[u]
    BY DEF Allocate, AllocateFails, Goto
  <2> QED BY <1>1, <2>1, <2>2, OthersOutside DEF InitializeSteps
<1>6. ASSUME NEW a,
             adapters' = [adapters EXCEPT ![slot[t]].adapter = a]
      PROVE  /\ adapters'[slot[t]] = [adapter |-> a, adapterNumber |-> device[t],
                                inUse |-> TRUE]
             /\ \A s \in Slot : s # slot[t] => adapters'[s] = adapters[s]
             /\ FreeSlots'
             /\ TableMapsInterface'
  <2>1. /\ adapters'[slot[t]] = [adapter |-> a, adapterNumber |-> device[t],
                                inUse |-> TRUE]
        /\ \A s \in Slot : s # slot[t] => adapters'[s] = adapters[s]
    <3>1. adapters'[slot[t]] = [adapters[slot[t]] EXCEPT !.adapter = a]
      BY <1>2, <1>6
    <3>2. \A s \in Slot : s # slot[t] => adapters'[s] = adapters[s]
      BY <1>2, <1>6
    <3>3. adapters[slot[t]] \in Adapter
      BY <1>2
    <3>4. adapters[slot[t]].adapterNumber = device[t]
      BY <1>2
    <3>5. adapters[slot[t]].inUse = TRUE
      BY <1>2
    <3> QED BY <3>1, <3>2, <3>3, <3>4, <3>5 DEF Adapter
  <2>2. FreeSlots'
    BY <1>1, <1>2, <1>3, <2>1 DEF FreeSlots, InUse
  <2>3. TableMapsInterface'
    <3>1. \A d \in Started : context[d] # NULL
      BY NULLAssumption DEF ContextLive, IsAdapter
    <3> QED BY <1>2, <1>3, <1>4, <2>1, <3>1 DEF TableMapsInterface, ndis
  <2> QED BY <2>1, <2>2, <2>3
<1>7. CASE Allocate(t)
  <2>1. PICK a \in Addr :
          /\ NewAdapter(a, miniportDriverHandle)
          /\ adapters' = [adapters EXCEPT ![slot[t]].adapter = a]
          /\ ptr' = [ptr EXCEPT ![t] = a]
    BY <1>7 DEF Allocate
  <2>2. /\ miniportDriverHandle # NULL /\ pool[a] = "free"
        /\ pool' = [pool EXCEPT ![a] = "adapter"]
        /\ adapterAt'[a] = Constructed(a, miniportDriverHandle)
        /\ \A b \in Addr \ {a} : adapterAt'[b] = adapterAt[b]
    BY <2>1 DEF NewAdapter
  <2>3. /\ adapters'[slot[t]] = [adapter |-> a, adapterNumber |-> device[t],
                                inUse |-> TRUE]
        /\ \A s \in Slot : s # slot[t] => adapters'[s] = adapters[s]
        /\ FreeSlots' /\ TableMapsInterface'
    BY <1>6, <2>1
  <2>4. NoOrphan'
    <3> SUFFICES ASSUME NEW b \in Addr, pool'[b] = "adapter"
                 PROVE  \E s \in Slot : InUse(s)' /\ adapters'[s].adapter = b
      BY DEF NoOrphan, LiveAdapters
    <3>1. CASE b = a
      BY <1>2, <2>3, <3>1 DEF InUse
    <3>2. CASE b # a
      <4>1. PICK s \in Slot : InUse(s) /\ adapters[s].adapter = b
        BY <2>2, <3>2 DEF NoOrphan, LiveAdapters
      <4>2. s # slot[t]
        BY <1>2, <4>1, NULLAssumption
      <4> QED BY <2>3, <4>1, <4>2 DEF InUse
    <3> QED BY <3>1, <3>2
  <2>5. \A d \in Started : context[d] \in Addr /\ context[d] # a
    BY <2>2 DEF ContextLive, IsAdapter
  <2>6. StartedAdapters' /\ ContextLive'
    BY <1>3, <1>4, <2>2, <2>5 DEF StartedAdapters, ContextLive, IsAdapter, ndis
  <2>7. InitializeProgress(t)'
    <3>1. ptr'[t] = a
      BY <2>1
    <3>2. NewlyBuilt(a)'
      BY <1>3, <1>4, <2>2, <2>5 DEF NewlyBuilt, IsAdapter, Constructed, ndis
    <3> QED BY <1>2, <1>3, <2>3, <3>1, <3>2 DEF InitializeProgress, ndis
  <2> QED BY <1>5, <2>3, <2>4, <2>6, <2>7
<1>8. CASE AllocateFails(t)
  <2>1. /\ adapters' = [adapters EXCEPT ![slot[t]].adapter = NULL]
        /\ ptr'[t] = NULL /\ UNCHANGED memory
    BY <1>8 DEF AllocateFails
  <2>2. /\ adapters'[slot[t]] = [adapter |-> NULL, adapterNumber |-> device[t],
                                inUse |-> TRUE]
        /\ \A s \in Slot : s # slot[t] => adapters'[s] = adapters[s]
        /\ FreeSlots' /\ TableMapsInterface'
    BY <1>6, <2>1
  <2>3. NoOrphan'
    BY <1>2, <2>1, <2>2, NULLAssumption
       DEF NoOrphan, LiveAdapters, InUse, memory
  <2>4. StartedAdapters' /\ ContextLive'
    BY <1>3, <1>4, <2>1
       DEF StartedAdapters, ContextLive, IsAdapter, ndis, memory
  <2>5. InitializeProgress(t)'
    BY <1>2, <1>3, <2>1, <2>2 DEF InitializeProgress, ndis
  <2> QED BY <1>5, <2>2, <2>3, <2>4, <2>5
<1> QED BY <1>7, <1>8

\* What SetMiniportAttributes finds when no other call shares the slot.
LEMMA ReadsOwnPointer ==
  ASSUME Known, NEW t \in Thread,
         pc[t] \in {"check", "setRegistration", "setGeneral"}
  PROVE  /\ Reads(t) = {ptr[t]}
         /\ device[t] \in IfIndex /\ phase[device[t]] = "starting"
         /\ slot[t] \in Slot
         /\ adapters[slot[t]] = [adapter |-> ptr[t], adapterNumber |-> device[t],
                                inUse |-> TRUE]
         /\ pc[t] # "check" \/ ptr[t] # NULL => NewlyBuilt(ptr[t])
         /\ pc[t] = "setGeneral" => context[device[t]] = ptr[t]
<1>1. InitializeProgress(t)
  BY DEF Known, ExclusiveInv
<1>2. /\ device[t] \in IfIndex /\ phase[device[t]] = "starting"
      /\ slot[t] \in Slot
      /\ adapters[slot[t]] = [adapter |-> ptr[t], adapterNumber |-> device[t],
                             inUse |-> TRUE]
  BY <1>1 DEF InitializeProgress, InitializeSteps
<1>3. adapters[slot[t]].adapter = ptr[t]
  BY <1>2
<1>4. /\ pc[t] # "check" \/ ptr[t] # NULL => NewlyBuilt(ptr[t])
      /\ pc[t] = "setGeneral" => context[device[t]] = ptr[t]
  BY <1>1 DEF InitializeProgress
<1> QED BY <1>2, <1>3, <1>4 DEF Reads

LEMMA AttributesExclusive ==
  ASSUME Known, NEW t \in Thread,
         \/ CheckFails(t) \/ CheckPasses(t)
         \/ SetRegistration(t) \/ SetRegistrationFails(t)
         \/ SetGeneral(t) \/ SetGeneralFails(t)
  PROVE  ExclusiveInv'
<1> USE DEF Known, TypeOK, CallsTypeOK, NdisTypeOK
<1>1. pc[t] \in {"check", "setRegistration", "setGeneral"} /\ image # "bugcheck"
  BY DEF CheckFails, CheckPasses, SetRegistration, SetRegistrationFails,
         SetGeneral, SetGeneralFails, At
<1>2. image = "loaded" /\ pc[t] \in InitializeSteps
  BY <1>1, StepImage DEF InitializeSteps
<1>3. /\ Reads(t) = {ptr[t]}
      /\ device[t] \in IfIndex /\ phase[device[t]] = "starting"
      /\ slot[t] \in Slot
      /\ adapters[slot[t]] = [adapter |-> ptr[t], adapterNumber |-> device[t],
                             inUse |-> TRUE]
      /\ pc[t] # "check" \/ ptr[t] # NULL => NewlyBuilt(ptr[t])
      /\ pc[t] = "setGeneral" => context[device[t]] = ptr[t]
  BY <1>1, ReadsOwnPointer
<1>4. CASE CheckFails(t) \/ SetRegistrationFails(t) \/ SetGeneralFails(t)
  BY <1>2, <1>4, FailStep DEF CheckFails, SetRegistrationFails, SetGeneralFails
<1>5. CASE CheckPasses(t)
  <2>1. NewlyBuilt(ptr[t])
    BY <1>3, <1>5 DEF CheckPasses
  <2>2. pc'[t] = "setRegistration"
    BY <1>5 DEF CheckPasses, Goto
  <2>3. UNCHANGED <<memory, driver, ndis, slot, ptr, device>>
    BY <1>5 DEF CheckPasses
  <2>4. InitializeProgress(t)'
    BY <1>3, <2>1, <2>2, <2>3
       DEF InitializeProgress, NewlyBuilt, IsAdapter, Constructed, Started,
           memory, driver, ndis
  <2>5. \A u \in Thread \ {t} : pc'[u] = pc[u]
    BY <1>5 DEF CheckPasses, Goto
  <2> QED BY <1>2, <2>3, <2>4, <2>5, ProgressStep
<1>6. CASE SetRegistration(t)
  <2>1. pc[t] = "setRegistration"
    BY <1>6 DEF SetRegistration, At
  <2>2. NewlyBuilt(ptr[t])
    BY <1>3, <2>1
  <2>3. /\ adapterAt[ptr[t]].driverHandle # NULL
        /\ adapterAt[ptr[t]].miniportAdapterContext = ptr[t]
    BY <2>2 DEF NewlyBuilt, Constructed
  <2>4. /\ context' = [context EXCEPT ![device[t]] = ptr[t]]
        /\ ptr'[t] = ptr[t] /\ pc'[t] = "setGeneral"
        /\ UNCHANGED <<memory, driver, phase, slot, device>>
    BY <1>3, <1>6, <2>3 DEF SetRegistration, Goto
  <2>5. /\ Started' = Started
        /\ \A d \in Started : context'[d] = context[d]
    BY <1>3, <2>4 DEF Started
  <2>6. DevicesNeedDriver' /\ FreeSlots' /\ NoOrphan'
    BY <1>2, <2>4 DEF ExclusiveInv, DevicesNeedDriver, FreeSlots, NoOrphan,
                      LiveAdapters, InUse, memory, driver
  <2>7. StartedAdapters' /\ ContextLive'
    BY <2>4, <2>5 DEF ExclusiveInv, StartedAdapters, ContextLive, IsAdapter,
                      memory
  <2>8. TableMapsInterface'
    BY <2>4, <2>5 DEF ExclusiveInv, TableMapsInterface, driver
  <2>9. NewlyBuilt(ptr[t])'
    BY <2>2, <2>4, <2>5
       DEF NewlyBuilt, IsAdapter, Constructed, memory, driver
  <2>10. InitializeProgress(t)'
    BY <1>3, <2>4, <2>9 DEF InitializeProgress, driver
  <2>11. \A u \in Thread \ {t} : pc'[u] = pc[u]
    BY <1>6, <2>3, <1>3 DEF SetRegistration, Goto
  <2>12. \A u \in Thread : InitializeProgress(u)'
    BY <1>2, <2>10, <2>11, OthersOutside
  <2> QED BY <2>6, <2>7, <2>8, <2>12 DEF ExclusiveInv
<1>7. CASE SetGeneral(t)
  <2>1. pc[t] = "setGeneral"
    BY <1>7 DEF SetGeneral, At
  <2>2. /\ phase' = [phase EXCEPT ![device[t]] = "paused"] /\ pc'[t] = "idle"
        /\ UNCHANGED <<memory, driver, context>>
    BY <1>7 DEF SetGeneral, Return
  <2>3. /\ NewlyBuilt(ptr[t]) /\ context[device[t]] = ptr[t]
        /\ adapterAt[ptr[t]].state = "Paused"
    BY <1>3, <2>1 DEF NewlyBuilt, Constructed
  <2>4. /\ Started' = Started \union {device[t]}
        /\ device[t] \notin Started
        /\ \A d \in Started : phase'[d] = phase[d]
        /\ phase'[device[t]] = "paused"
    BY <1>3, <2>2 DEF Started
  <2>5. DevicesNeedDriver' /\ FreeSlots' /\ NoOrphan'
    BY <1>2, <2>2 DEF ExclusiveInv, DevicesNeedDriver, FreeSlots, NoOrphan,
                      LiveAdapters, InUse, memory, driver
  <2>6. StartedAdapters' /\ ContextLive'
    BY <2>2, <2>3, <2>4 DEF ExclusiveInv, StartedAdapters, ContextLive,
                            NewlyBuilt, IsAdapter, memory
  <2>7. TableMapsInterface'
    BY <1>3, <2>2, <2>3, <2>4 DEF ExclusiveInv, TableMapsInterface, driver
  <2>8. InitializeProgress(t)'
    BY <2>2 DEF InitializeProgress, InitializeSteps
  <2>9. \A u \in Thread \ {t} : pc'[u] = pc[u]
    BY <1>7 DEF SetGeneral, Return
  <2>10. \A u \in Thread : InitializeProgress(u)'
    BY <1>2, <2>8, <2>9, OthersOutside
  <2> QED BY <2>5, <2>6, <2>7, <2>10 DEF ExclusiveInv
<1> QED BY <1>4, <1>5, <1>6, <1>7

-----------------------------------------------------------------------------
(* No call but an unload meets a pointer to no adapter.                    *)

LEMMA AttributesNeverFault ==
  ASSUME Known, NEW t \in Thread PROVE ~ SetAttributesFaults(t)
<1>1. pc[t] \in {"setRegistration", "setGeneral"} =>
        Reads(t) = {ptr[t]} /\ IsAdapter(ptr[t])
  BY ReadsOwnPointer DEF NewlyBuilt
<1> QED BY <1>1 DEF SetAttributesFaults, At

LEMMA DeviceCallsNeverFault ==
  ASSUME Known, NEW t \in Thread, NEW d \in IfIndex
  PROVE  ~ DeviceCallFaults(t, d)
BY DEF Known, ExclusiveInv, ContextLive, Started, DeviceCallFaults, CalledIn

-----------------------------------------------------------------------------
LEMMA DeviceExclusive ==
  ASSUME Known, OneInitialize', NEW t \in Thread, NEW d \in IfIndex,
         DeviceCall(t, d)
  PROVE  ExclusiveInv'
<1> USE DEF Known, TypeOK, CallsTypeOK, NdisTypeOK, MemoryTypeOK
<1>1. CASE \/ InitializeRejected(t, d) \/ OidRequest(t, d)
           \/ NullArgument(t, d)
  <2>1. UNCHANGED <<memory, driver, ndis, pc, slot, ptr, device>>
    BY <1>1 DEF InitializeRejected, OidRequest, NullArgument, Returned
  <2> QED BY <2>1, QuietStep DEF memory
<1>2. CASE InitializeAccepted(t, d)
  <2>1. /\ image = "loaded" /\ phase[d] = "absent"
        /\ phase' = [phase EXCEPT ![d] = "starting"]
        /\ pc'[t] = "scan" /\ device'[t] = d
        /\ UNCHANGED <<memory, driver, context>>
    BY <1>2 DEF InitializeAccepted, StartSearch, InitializeCalled, Goto
  <2>2. Started' = Started /\ \A e \in Started : phase'[e] = phase[e]
    BY <2>1 DEF Started
  <2>3. DevicesNeedDriver' /\ FreeSlots' /\ NoOrphan'
    BY <2>1 DEF ExclusiveInv, DevicesNeedDriver, FreeSlots, NoOrphan,
                LiveAdapters, InUse, memory, driver
  <2>4. StartedAdapters' /\ ContextLive'
    BY <2>1, <2>2 DEF ExclusiveInv, StartedAdapters, ContextLive, IsAdapter,
                      memory
  <2>5. TableMapsInterface'
    BY <2>1, <2>2 DEF ExclusiveInv, TableMapsInterface, driver
  <2>6. InitializeProgress(t)'
    BY <2>1 DEF InitializeProgress
  <2>7. \A u \in Thread \ {t} : pc'[u] \notin InitializeSteps
    BY <2>1 DEF OneInitialize, InitializeSteps
  <2>8. \A u \in Thread : InitializeProgress(u)'
    BY <2>6, <2>7 DEF InitializeProgress, InitializeSteps
  <2> QED BY <2>3, <2>4, <2>5, <2>8 DEF ExclusiveInv
<1>3. CASE HaltEx(t, d) \/ Pause(t, d) \/ Restart(t, d)
  <2>1. /\ image = "loaded" /\ pc[t] = "idle" /\ d \in Started
        /\ UNCHANGED <<driver, pc, slot, ptr, device>>
    BY <1>3 DEF HaltEx, Pause, Restart, CalledIn, Idle, Started, Returned, calls
  <2>2. context[d] \in Addr /\ pool[context[d]] = "adapter"
    BY <2>1 DEF ExclusiveInv, ContextLive, IsAdapter
  <2>3. \A e \in Started \ {d} : context[e] \in Addr \ {context[d]}
    BY <2>1 DEF ExclusiveInv, ContextLive, IsAdapter
  <2>4. /\ \A a \in Addr \ {context[d]} :
             pool'[a] = pool[a] /\ adapterAt'[a] = adapterAt[a]
        /\ \A a \in Addr : pool'[a] = "adapter" => pool[a] = "adapter"
    BY <1>3, <2>2 DEF HaltEx, Pause, Restart, DestroyAdapter, PauseAdapter,
                      RestartAdapter, memory
  <2>5. /\ \A e \in IfIndex \ {d} : phase'[e] = phase[e]
        /\ \A e \in IfIndex \ {d} : context'[e] = context[e]
        /\ Started' \subseteq Started
    BY <1>3, <2>1 DEF HaltEx, Pause, Restart, Started
  <2>6. d \in Started' =>
          /\ context'[d] = context[d] /\ pool'[context[d]] = "adapter"
          /\ adapterAt'[context[d]].state =
               IF phase'[d] = "paused" THEN "Paused" ELSE "Running"
    BY <1>3, <2>2 DEF HaltEx, Pause, Restart, PauseAdapter, RestartAdapter,
                      Started, Object
  <2>7. DevicesNeedDriver' /\ FreeSlots'
    BY <2>1 DEF ExclusiveInv, DevicesNeedDriver, FreeSlots, InUse, driver
  <2>8. NoOrphan'
    BY <2>1, <2>4 DEF ExclusiveInv, NoOrphan, LiveAdapters, InUse, driver
  <2>9. StartedAdapters'
    <3> SUFFICES ASSUME NEW e \in Started'
                 PROVE  /\ IsAdapter(context[e])'
                        /\ adapterAt'[context'[e]].state =
                             IF phase'[e] = "paused" THEN "Paused"
                                                     ELSE "Running"
      BY DEF StartedAdapters
    <3>1. CASE e = d
      BY <2>2, <2>6, <3>1 DEF IsAdapter
    <3>2. CASE e # d
      <4>1. e \in Started /\ e \in IfIndex
        BY <2>5 DEF Started
      <4>2. context'[e] = context[e] /\ phase'[e] = phase[e]
        BY <2>5, <3>2, <4>1
      <4>3. context[e] \in Addr \ {context[d]}
        BY <2>3, <3>2, <4>1
      <4> QED BY <2>4, <4>1, <4>2, <4>3
              DEF ExclusiveInv, StartedAdapters, IsAdapter
    <3> QED BY <3>1, <3>2
  <2>10. \A e \in Started' : context'[e] = context[e]
    BY <2>5, <2>6 DEF Started
  <2>11. ContextLive'
    BY <2>5, <2>9, <2>10 DEF ExclusiveInv, ContextLive, StartedAdapters
  <2>12. TableMapsInterface'
    BY <2>1, <2>5, <2>10 DEF ExclusiveInv, TableMapsInterface, driver
  <2>13. \A u \in Thread : InitializeProgress(u)'
    <3> SUFFICES ASSUME NEW u \in Thread, pc[u] \in InitializeSteps
                 PROVE  InitializeProgress(u)'
      BY <2>1 DEF InitializeProgress, InitializeSteps
    <3>1. InitializeProgress(u)
      BY DEF ExclusiveInv
    <3>2. device[u] \in IfIndex \ {d} /\ phase[device[u]] = "starting"
      BY <2>1, <3>1 DEF InitializeProgress, Started
    <3>3. /\ phase'[device[u]] = "starting"
          /\ context'[device[u]] = context[device[u]]
      BY <2>5, <3>2
    <3>4. NewlyBuilt(ptr[u]) => NewlyBuilt(ptr[u])'
      BY <2>1, <2>4, <2>5, <2>10
         DEF NewlyBuilt, IsAdapter, Constructed, driver
    <3> QED BY <2>1, <3>1, <3>2, <3>3, <3>4
            DEF InitializeProgress, InUse, driver
  <2> QED BY <2>7, <2>8, <2>9, <2>11, <2>12, <2>13 DEF ExclusiveInv
<1> QED BY <1>1, <1>2, <1>3, DeviceCallsNeverFault DEF DeviceCall

LEMMA UnloadExclusive ==
  ASSUME Known, NEW t \in Thread, Unload(t) \/ UnloadStep(t)
  PROVE  ExclusiveInv'
<1> USE DEF Known, TypeOK, CallsTypeOK, DriverTypeOK, MemoryTypeOK
<1> DEFINE Quiet == /\ \A d \in IfIndex : phase'[d] = "absent"
                    /\ \A u \in Thread : pc'[u] \notin InitializeSteps
<1>1. ASSUME Quiet, NoOrphan', FreeSlots' PROVE ExclusiveInv'
  <2>1. Started' = {}
    BY <1>1 DEF Started
  <2>2. DevicesNeedDriver'
    BY <1>1 DEF DevicesNeedDriver
  <2>3. StartedAdapters' /\ ContextLive' /\ TableMapsInterface'
    BY <2>1 DEF StartedAdapters, ContextLive, TableMapsInterface
  <2>4. \A u \in Thread : InitializeProgress(u)'
    BY <1>1 DEF InitializeProgress, InitializeSteps
  <2> QED BY <1>1, <2>2, <2>3, <2>4 DEF ExclusiveInv
<1> HIDE DEF Quiet
<1>2. CASE Unload(t)
  <2>1. /\ \A d \in IfIndex : phase'[d] = "absent"
        /\ image' = "unloading" /\ pc'[t] = "destroySlots" /\ slot'[t] = 1
        /\ UNCHANGED <<pool, adapters>>
    BY <1>2 DEF Unload, BeginUnload, Goto, ndis
  <2>2. Quiet
    BY <1>2, <2>1 DEF Quiet, InitializeSteps, Unload, BeginUnload, AllIdle, Goto
  <2>3. NoOrphan'
    BY <2>1 DEF ExclusiveInv, NoOrphan, LiveAdapters, InUse
  <2>4. FreeSlots'
    <3>1. \A s \in Slot : ~ (s < 1)
      BY NumSlotsAssumption DEF Slot
    <3>2. \A u \in Thread \ {t} : pc'[u] = "idle"
      BY <1>2 DEF Unload, BeginUnload, AllIdle, Goto
    <3> QED BY <2>1, <3>1, <3>2 DEF FreeSlots
  <2> QED BY <1>1, <2>2, <2>3, <2>4
<1>3. CASE UnloadStep(t)
  <2>1. image = "unloading" /\ pc[t] = "destroySlots"
    BY <1>3, StepImage
       DEF UnloadStep, SkipSlot, DestroySlot, DestroySlotFaults,
           DestroySlotAgain, DeleteMiniport, DestroyingSlot, At
  <2>2. /\ \A d \in IfIndex : phase[d] = "absent"
        /\ \A s \in Slot : s < slot[t] => ~ InUse(s)
    BY <2>1 DEF ExclusiveInv, DevicesNeedDriver, FreeSlots
  <2>3. Quiet
    <3>1. phase' = phase
      BY <1>3 DEF UnloadStep, SkipSlot, DestroySlot, DestroySlotFaults,
                  DestroySlotAgain, DeleteMiniport, Bugcheck, ndis
    <3>2. pc'[t] \in {"idle", "destroySlots"}
      BY <1>3, <2>1
         DEF UnloadStep, SkipSlot, DestroySlot, DestroySlotFaults,
             DestroySlotAgain, DeleteMiniport, Bugcheck, NextSlot, Return, calls
    <3>3. \A u \in Thread \ {t} : pc'[u] = "idle"
      <4>1. \A u \in Thread \ {t} : pc[u] = "idle"
        BY <2>1 DEF InterleavedInv, CallsMatchImage
      <4> QED BY <1>3, <4>1
              DEF UnloadStep, SkipSlot, DestroySlot, DestroySlotFaults,
                  DestroySlotAgain, DeleteMiniport, Bugcheck, NextSlot, Return,
                  calls
    <3> QED BY <2>2, <3>1, <3>2, <3>3 DEF Quiet, InitializeSteps
  <2>4. CASE SkipSlot(t) \/ DestroySlot(t) \/ DestroySlotAgain(t)
    <3>1. slot[t] \in Slot
      BY <2>4 DEF SkipSlot, DestroySlot, DestroySlotAgain, DestroyingSlot
    <3>2. /\ ~ adapters'[slot[t]].inUse
          /\ \A s \in Slot : s # slot[t] => adapters'[s] = adapters[s]
      <4>1. adapters[slot[t]] \in Adapter
        BY <3>1
      <4>2. CASE SkipSlot(t)
        BY <4>2 DEF SkipSlot, driver, InUse
      <4>3. CASE DestroySlot(t) \/ DestroySlotAgain(t)
        BY <3>1, <4>1, <4>3
           DEF DestroySlot, DestroySlotAgain, Release, InUse, Adapter
      <4> QED BY <2>4, <4>2, <4>3
    <3>3. image' = "unloading" /\ slot'[t] = slot[t] + 1
      BY <2>1, <2>4
         DEF SkipSlot, DestroySlot, DestroySlotAgain, NextSlot, driver
    <3>4. \A a \in Addr : pool'[a] = "adapter" =>
            /\ pool[a] = "adapter"
            /\ InUse(slot[t]) => adapters[slot[t]].adapter # a
      <4>1. CASE SkipSlot(t)
        BY <4>1 DEF SkipSlot, InUse, memory
      <4>2. CASE DestroySlotAgain(t)
        BY <4>2 DEF DestroySlotAgain, IsAdapter, memory
      <4>3. CASE DestroySlot(t)
        <5>1. adapterAt[adapters[slot[t]].adapter].driverHandle # NULL
          BY <3>1, <4>3 DEF DestroySlot, InterleavedInv, HandlesMatch
        <5>2. pool' = [pool EXCEPT ![adapters[slot[t]].adapter] = "free"]
          BY <4>3, <5>1 DEF DestroySlot, DestroyAdapter
        <5> QED BY <5>2
      <4> QED BY <2>4, <4>1, <4>2, <4>3
    <3>5. NoOrphan'
      <4> SUFFICES ASSUME NEW a \in Addr, pool'[a] = "adapter"
                   PROVE  \E s \in Slot : InUse(s)' /\ adapters'[s].adapter = a
        BY DEF NoOrphan, LiveAdapters
      <4>1. PICK s \in Slot : InUse(s) /\ adapters[s].adapter = a
        BY <3>4 DEF ExclusiveInv, NoOrphan, LiveAdapters
      <4>2. s # slot[t]
        BY <3>4, <4>1
      <4> QED BY <3>2, <4>1, <4>2 DEF InUse
    <3>6. FreeSlots'
      <4>1. \A s \in Slot : s < slot[t] + 1 => s < slot[t] \/ s = slot[t]
        BY <3>1, NumSlotsAssumption DEF Slot
      <4>2. \A s \in Slot : s < slot'[t] => ~ InUse(s)'
        BY <2>2, <3>2, <3>3, <4>1, Zenon DEF InUse
      <4>3. \A u \in Thread : pc'[u] = "destroySlots" => u = t
        BY <2>1, <2>4 DEF InterleavedInv, CallsMatchImage, SkipSlot,
                          DestroySlot, DestroySlotAgain, NextSlot
      <4> QED BY <3>3, <4>2, <4>3 DEF FreeSlots
    <3> QED BY <1>1, <2>3, <3>5, <3>6
  <2>5. CASE DestroySlotFaults(t)
    <3>1. image' = "bugcheck" /\ UNCHANGED <<pool, adapters>>
      BY <2>5 DEF DestroySlotFaults, Bugcheck, memory
    <3>2. NoOrphan' /\ FreeSlots'
      BY <3>1 DEF ExclusiveInv, NoOrphan, LiveAdapters, InUse, FreeSlots
    <3> QED BY <1>1, <2>3, <3>2
  <2>6. CASE DeleteMiniport(t)
    <3>1. /\ slot[t] = NumSlots + 1 /\ image' = "unloaded"
          /\ pool' = [pool EXCEPT ![ptr[t]] = "free"]
          /\ adapters' = [s \in Slot |-> ZeroAdapter]
      BY <2>6 DEF DeleteMiniport
    <3>2. \A s \in Slot : ~ InUse(s)
      BY <2>2, <3>1, NumSlotsAssumption DEF Slot
    <3>3. \A a \in Addr : pool'[a] # "adapter"
      BY <3>1, <3>2 DEF ExclusiveInv, NoOrphan, LiveAdapters
    <3>4. NoOrphan'
      BY <3>3 DEF NoOrphan, LiveAdapters
    <3>5. FreeSlots'
      BY <3>1 DEF FreeSlots, InUse, ZeroAdapter
    <3> QED BY <1>1, <2>3, <3>4, <3>5
  <2> QED BY <1>3, <2>4, <2>5, <2>6 DEF UnloadStep
<1> QED BY <1>2, <1>3

LEMMA ExclusiveStep ==
  Known /\ [Next /\ OneInitialize']_vars => ExclusiveInv'
<1> SUFFICES ASSUME Known, [Next /\ OneInitialize']_vars PROVE ExclusiveInv'
  OBVIOUS
<1>1. CASE UNCHANGED vars
  BY <1>1, QuietStep DEF vars, memory, calls
<1>2. ASSUME NEW t \in Thread, InitializeStep(t) PROVE ExclusiveInv'
  BY <1>2, ScanExclusive, ClaimExclusive, AllocateExclusive,
     AttributesExclusive, AttributesNeverFault
     DEF InitializeStep, SearchStep, AttributesStep
<1>3. ASSUME Reboot PROVE ExclusiveInv'
  <2>1. Init'
    BY <1>3, RebootInit
  <2>2. Init' => ExclusiveInv'
    BY InitExclusive, PTL
  <2> QED BY <2>1, <2>2
<1>4. CASE Next /\ OneInitialize'
  BY <1>2, <1>3, <1>4, EntryExclusive, UnloadExclusive, DeviceExclusive
     DEF Next
<1> QED BY <1>1, <1>4

-----------------------------------------------------------------------------
LEMMA InitKnown == Init => Known
<1>1. Init => OneInitialize
  BY DEF Init, OneInitialize, InitializeSteps
<1> QED BY <1>1, InitType, InitInterleaved, InitExclusive DEF Known

LEMMA KnownStep == Known /\ [Next /\ OneInitialize']_vars => Known'
<1> SUFFICES ASSUME Known, [Next /\ OneInitialize']_vars PROVE Known'
  OBVIOUS
<1>1. OneInitialize'
  BY DEF Known, OneInitialize, vars, calls
<1>2. TypeOK' /\ InterleavedInv'
  BY TypeStep, InterleavedStep DEF Known
<1> QED BY <1>1, <1>2, ExclusiveStep DEF Known

(***************************************************************************)
(* The inductive invariant holds in every state, on any number of threads, *)
(* when initialisations exclude each other.                                *)
(***************************************************************************)
THEOREM ExclusiveCorrect ==
  ExclusiveSpec => [](TypeOK /\ InterleavedInv /\ ExclusiveInv)
<1>1. Known => TypeOK /\ InterleavedInv /\ ExclusiveInv
  BY DEF Known
<1> QED BY <1>1, InitKnown, KnownStep, PTL DEF ExclusiveSpec

(***************************************************************************)
(* Every adapter in memory can be reached, and destroyed, through a slot   *)
(* in use.                                                                 *)
(***************************************************************************)
THEOREM NothingOrphaned == ExclusiveSpec => []NoOrphan
<1>1. ExclusiveInv => NoOrphan
  BY DEF ExclusiveInv
<1> QED BY <1>1, ExclusiveCorrect, PTL

(***************************************************************************)
(* The context of an initialised device is its own live adapter.           *)
(***************************************************************************)
THEOREM ContextsAreLive == ExclusiveSpec => []ContextLive
<1>1. ExclusiveInv => ContextLive
  BY DEF ExclusiveInv
<1> QED BY <1>1, ExclusiveCorrect, PTL

(***************************************************************************)
(* The table maps the number of an initialised device to its adapter.      *)
(***************************************************************************)
THEOREM TableIsRight == ExclusiveSpec => []TableMapsInterface
<1>1. ExclusiveInv => TableMapsInterface
  BY DEF ExclusiveInv
<1> QED BY <1>1, ExclusiveCorrect, PTL

(***************************************************************************)
(* Only the destructor of the Miniport touches memory that is no adapter.  *)
(***************************************************************************)
LEMMA FaultStep ==
  ASSUME Known, [Next]_vars, fault' \notin {fault, "none"}
  PROVE  image = "unloading"
<1>1. CASE UNCHANGED vars
  BY <1>1 DEF vars
<1>2. ASSUME NEW t \in Thread, DriverEntry(t) \/ Unload(t) PROVE FALSE
  BY <1>2 DEF DriverEntry, DriverEntryNoMemory, DriverEntryRegisterFails,
     DriverEntryRegisters, Unload, BeginUnload
<1>3. ASSUME NEW t \in Thread, InitializeStep(t) PROVE FALSE
  BY <1>3, AttributesNeverFault
  DEF InitializeStep, SearchStep, AttributesStep, ScanNext, ScanFound,
     NoSlotLeft, Claim, Allocate, AllocateFails, CheckFails, CheckPasses,
     SetRegistration, SetRegistrationFails, SetGeneral, SetGeneralFails
<1>4. ASSUME NEW t \in Thread, UnloadStep(t) PROVE image = "unloading"
  BY <1>4, StepImage
     DEF Known, UnloadStep, SkipSlot, DestroySlot, DestroySlotFaults,
         DestroySlotAgain, DeleteMiniport, DestroyingSlot, At
<1>5. ASSUME NEW t \in Thread, NEW d \in IfIndex, DeviceCall(t, d) PROVE FALSE
  BY <1>5, DeviceCallsNeverFault DEF DeviceCall, InitializeRejected,
     InitializeAccepted, StartSearch, HaltEx, Pause, Restart, OidRequest,
     NullArgument
<1>6. CASE Reboot
  BY <1>6 DEF Reboot
<1> QED BY <1>1, <1>2, <1>3, <1>4, <1>5, <1>6 DEF Next

THEOREM FaultsOnlyInUnload == ExclusiveSpec => FaultOnlyInUnload
<1>1. Known /\ [Next /\ OneInitialize']_vars =>
        [fault' \notin {fault, "none"} => image = "unloading"]_vars
  BY FaultStep
<1> QED BY <1>1, InitKnown, KnownStep, PTL DEF ExclusiveSpec, FaultOnlyInUnload

=============================================================================
