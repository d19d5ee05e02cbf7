------------------------ MODULE InterleavingProofs ------------------------
(***************************************************************************)
(* Proofs of the properties that hold however the calls interleave, by     *)
(* the inductive invariant InterleavedInv.                                 *)
(***************************************************************************)
EXTENDS MiniportProofs

-----------------------------------------------------------------------------
(* Two kinds of step cover most actions.                                   *)

(***************************************************************************)
(* A step of one call that changes neither memory nor the driver's state,  *)
(* and searches or claims only beyond slots in use.                        *)
(***************************************************************************)
LEMMA CallStep ==
  ASSUME InterleavedInv, image = "loaded", UNCHANGED <<memory, driver>>,
         NEW t \in Thread,
         \A u \in Thread : u # t => pc'[u] = pc[u] /\ slot'[u] = slot[u],
         pc'[t] # "destroySlots",
         pc'[t] \in {"scan", "claim"} =>
           \A s \in Slot : s < slot'[t] => InUse(s)
  PROVE  InterleavedInv'
<1> USE DEF memory, driver
<1>1. CallsMatchImage'
  BY DEF InterleavedInv, CallsMatchImage
<1>2. SlotsFillInOrder'
  BY DEF InterleavedInv, SlotsFillInOrder, InUse
<1>3. SearchedSlotsInUse'
  BY DEF InterleavedInv, SearchedSlotsInUse, InUse
<1>4. ClaimsInOrder'
  BY DEF InterleavedInv, ClaimsInOrder, InUse
<1>5. HandlesMatch'
  BY DEF InterleavedInv, HandlesMatch, IsAdapter
<1>6. MiniportAlive'
  BY DEF InterleavedInv, MiniportAlive
<1> QED BY <1>1, <1>2, <1>3, <1>4, <1>5, <1>6 DEF InterleavedInv

(***************************************************************************)
(* A step that changes only memory, makes no adapter and frees no Miniport.*)
(***************************************************************************)
LEMMA MemoryStep ==
  ASSUME InterleavedInv, UNCHANGED <<driver, pc, slot, ptr>>,
         \A a \in Addr : pool[a] = "miniport" => pool'[a] = "miniport",
         \A a \in Addr : pool'[a] = "adapter" =>
           /\ pool[a] = "adapter"
           /\ adapterAt'[a].driverHandle = adapterAt[a].driverHandle
  PROVE  InterleavedInv'
<1> USE DEF driver
<1>1. CallsMatchImage'
  BY DEF InterleavedInv, CallsMatchImage, AllIdle
<1>2. SlotsFillInOrder' /\ SearchedSlotsInUse' /\ ClaimsInOrder'
  BY DEF InterleavedInv, SlotsFillInOrder, SearchedSlotsInUse, ClaimsInOrder,
         InUse
<1>3. HandlesMatch'
  BY DEF InterleavedInv, HandlesMatch, IsAdapter
<1>4. MiniportAlive'
  BY DEF InterleavedInv, MiniportAlive
<1> QED BY <1>1, <1>2, <1>3, <1>4 DEF InterleavedInv

(***************************************************************************)
(* A bugcheck leaves nothing to keep but the table.                        *)
(***************************************************************************)
LEMMA BugcheckStep ==
  ASSUME InterleavedInv, NEW f, Bugcheck(f) PROVE InterleavedInv'
BY DEF Bugcheck, memory, calls, InterleavedInv, CallsMatchImage,
       SlotsFillInOrder, SearchedSlotsInUse, ClaimsInOrder, HandlesMatch,
       IsAdapter, MiniportAlive

\* Which image a call in progress runs in.
LEMMA StepImage ==
  ASSUME TypeOK, InterleavedInv, image # "bugcheck", NEW t \in Thread
  PROVE  /\ pc[t] \in InitializeSteps => image = "loaded"
         /\ pc[t] = "destroySlots" => image = "unloading"
BY DEF TypeOK, DriverTypeOK, InterleavedInv, CallsMatchImage, AllIdle,
       InitializeSteps

-----------------------------------------------------------------------------
(* The actions.                                                            *)

LEMMA InitInterleaved == Init => InterleavedInv
BY DEF Init, MemoryInit, ZeroAdapter, InterleavedInv, CallsMatchImage, AllIdle,
       SlotsFillInOrder, SearchedSlotsInUse, ClaimsInOrder, HandlesMatch,
       IsAdapter, MiniportAlive

LEMMA EntryInterleaved ==
  ASSUME TypeOK, InterleavedInv, NEW t \in Thread, DriverEntry(t)
  PROVE  InterleavedInv'
<1>1. CASE DriverEntryNoMemory(t)
  BY <1>1, MemoryStep DEF DriverEntryNoMemory, Returned, memory
<1>2. CASE DriverEntryRegisterFails(t)
  <2>1. PICK a \in FreeBlocks : pool' = [pool EXCEPT ![a] = "miniport"]
    BY <1>2 DEF DriverEntryRegisterFails, NewMiniport
  <2>2. UNCHANGED <<adapterAt, driver, pc, slot, ptr>>
    BY <1>2 DEF DriverEntryRegisterFails, Returned
  <2> QED BY <2>1, <2>2, MemoryStep DEF FreeBlocks, TypeOK, MemoryTypeOK
<1>3. CASE DriverEntryRegisters(t)
  <2>1. PICK a \in FreeBlocks :
          pool' = [pool EXCEPT ![a] = "miniport"] /\ activeContext' = a
    BY <1>3 DEF DriverEntryRegisters, NewMiniport, ConstructMiniport
  <2>2. /\ image = "unloaded" /\ image' = "loaded"
        /\ adapters' = [s \in Slot |-> ZeroAdapter]
        /\ pc' = pc
    BY <1>3 DEF DriverEntryRegisters, ConstructMiniport, Returned
  <2>3. \A u \in Thread : pc[u] = "idle"
    BY <2>2 DEF InterleavedInv, CallsMatchImage, AllIdle
  <2>4. CallsMatchImage' /\ SearchedSlotsInUse' /\ ClaimsInOrder'
    BY <2>2, <2>3 DEF CallsMatchImage, SearchedSlotsInUse, ClaimsInOrder
  <2>5. SlotsFillInOrder'
    BY <2>2 DEF SlotsFillInOrder, InUse, ZeroAdapter
  <2>6. HandlesMatch'
    BY <2>2, NULLAssumption DEF HandlesMatch, IsAdapter, ZeroAdapter
  <2>7. MiniportAlive'
    BY <2>1, <2>2 DEF MiniportAlive, FreeBlocks, TypeOK, MemoryTypeOK
  <2> QED BY <2>4, <2>5, <2>6, <2>7 DEF InterleavedInv
<1> QED BY <1>1, <1>2, <1>3 DEF DriverEntry

LEMMA ScanInterleaved ==
  ASSUME TypeOK, InterleavedInv, NEW t \in Thread,
         ScanNext(t) \/ ScanFound(t) \/ NoSlotLeft(t)
  PROVE  InterleavedInv'
<1> USE DEF TypeOK, CallsTypeOK
<1>1. image = "loaded" /\ pc[t] = "scan"
  BY StepImage DEF ScanNext, ScanFound, NoSlotLeft, At, InitializeSteps
<1>2. \A s \in Slot : s < slot[t] => InUse(s)
  BY <1>1 DEF InterleavedInv, SearchedSlotsInUse
<1>3. CASE ScanNext(t)
  <2>1. /\ slot[t] \in Slot /\ InUse(slot[t])
        /\ slot' = [slot EXCEPT ![t] = @ + 1] /\ pc' = pc
        /\ UNCHANGED <<memory, driver>>
    BY <1>3 DEF ScanNext, InUse
  <2>2. \A s \in Slot : s < slot'[t] => InUse(s)
    BY <2>1, <1>2, NumSlotsAssumption DEF Slot
  <2> QED BY <1>1, <2>1, <2>2, CallStep
<1>4. CASE ScanFound(t)
  BY <1>1, <1>2, <1>4, CallStep DEF ScanFound, Goto
<1>5. CASE NoSlotLeft(t)
  BY <1>1, <1>5, CallStep DEF NoSlotLeft, InitializeFails, Return
<1> QED BY <1>3, <1>4, <1>5

LEMMA ClaimInterleaved ==
  ASSUME TypeOK, InterleavedInv, NEW t \in Thread, Claim(t)
  PROVE  InterleavedInv'
<1> USE DEF TypeOK, CallsTypeOK, DriverTypeOK
<1>1. image = "loaded" /\ pc[t] = "claim"
  BY StepImage DEF Claim, At, InitializeSteps
<1>2. /\ pc' = [pc EXCEPT ![t] = "allocate"] /\ slot' = slot /\ image' = image
      /\ UNCHANGED <<memory, activeContext, miniportDriverHandle>>
      /\ adapters' = [adapters EXCEPT ![slot[t]].inUse = TRUE,
                                      ![slot[t]].adapterNumber = device[t]]
  BY DEF Claim, Goto
<1>3. \A s \in Slot : /\ InUse(s)' <=> InUse(s) \/ s = slot[t]
                      /\ adapters'[s].adapter = adapters[s].adapter
  BY <1>2 DEF InUse, Adapter
<1>4. \A s \in Slot : s < slot[t] => InUse(s)
  BY <1>1 DEF InterleavedInv, ClaimsInOrder
<1>5. CallsMatchImage'
  BY <1>1, <1>2 DEF InterleavedInv, CallsMatchImage
<1>6. SlotsFillInOrder'
  BY <1>1, <1>2, <1>3, <1>4, NumSlotsAssumption
     DEF InterleavedInv, SlotsFillInOrder, Slot
<1>7. SearchedSlotsInUse'
  BY <1>2, <1>3 DEF InterleavedInv, SearchedSlotsInUse
<1>8. ClaimsInOrder'
  BY <1>2, <1>3 DEF InterleavedInv, ClaimsInOrder
<1>9. HandlesMatch'
  BY <1>2, <1>3 DEF InterleavedInv, HandlesMatch, IsAdapter, memory
<1>10. MiniportAlive'
  BY <1>1, <1>2 DEF InterleavedInv, MiniportAlive, memory
<1> QED BY <1>5, <1>6, <1>7, <1>8, <1>9, <1>10 DEF InterleavedInv

LEMMA AllocateInterleaved ==
  ASSUME TypeOK, InterleavedInv, NEW t \in Thread,
         Allocate(t) \/ AllocateFails(t)
  PROVE  InterleavedInv'
<1> USE DEF TypeOK, CallsTypeOK, DriverTypeOK, MemoryTypeOK
<1>1. image = "loaded"
  BY StepImage DEF Allocate, AllocateFails, At, InitializeSteps
<1>2. /\ pc' = [pc EXCEPT ![t] = "check"]
      /\ UNCHANGED <<image, activeContext, miniportDriverHandle, slot>>
  BY DEF Allocate, AllocateFails, Goto
<1>3. \A s \in Slot : adapters'[s].inUse = adapters[s].inUse
  BY DEF Allocate, AllocateFails, Adapter
<1>4. CallsMatchImage'
  BY <1>1, <1>2 DEF InterleavedInv, CallsMatchImage
<1>5. SlotsFillInOrder' /\ SearchedSlotsInUse' /\ ClaimsInOrder'
  BY <1>2, <1>3 DEF InterleavedInv, SlotsFillInOrder, SearchedSlotsInUse,
                    ClaimsInOrder, InUse
<1>6. HandlesMatch' /\ MiniportAlive'
  <2>1. CASE Allocate(t)
    <3>1. PICK a \in Addr :
            /\ NewAdapter(a, miniportDriverHandle)
            /\ adapters' = [adapters EXCEPT ![slot[t]].adapter = a]
      BY <2>1 DEF Allocate
    <3>2. /\ miniportDriverHandle # NULL /\ pool[a] = "free"
          /\ pool' = [pool EXCEPT ![a] = "adapter"]
          /\ adapterAt'[a].driverHandle = miniportDriverHandle
          /\ \A b \in Addr \ {a} : adapterAt'[b] = adapterAt[b]
      BY <3>1 DEF NewAdapter, Constructed
    <3>3. \A s \in Slot :
            adapters'[s].adapter = a \/ adapters'[s].adapter = adapters[s].adapter
      BY <3>1 DEF Adapter
    <3>4. HandlesMatch'
      BY <1>2, <3>2, <3>3 DEF InterleavedInv, HandlesMatch, IsAdapter
    <3>5. MiniportAlive'
      BY <1>1, <1>2, <3>2 DEF InterleavedInv, MiniportAlive
    <3> QED BY <3>4, <3>5
  <2>2. CASE AllocateFails(t)
    <3>1. UNCHANGED memory
      BY <2>2 DEF AllocateFails
    <3>2. \A s \in Slot : \/ adapters'[s].adapter = NULL
                          \/ adapters'[s].adapter = adapters[s].adapter
      BY <2>2 DEF AllocateFails, Adapter
    <3>3. HandlesMatch'
      BY <1>2, <3>1, <3>2, NULLAssumption
         DEF InterleavedInv, HandlesMatch, IsAdapter, memory
    <3>4. MiniportAlive'
      BY <1>1, <1>2, <3>1 DEF InterleavedInv, MiniportAlive, memory
    <3> QED BY <3>3, <3>4
  <2> QED BY <2>1, <2>2
<1> QED BY <1>4, <1>5, <1>6 DEF InterleavedInv

LEMMA AttributesInterleaved ==
  ASSUME TypeOK, InterleavedInv, NEW t \in Thread,
         \/ CheckFails(t) \/ CheckPasses(t)
         \/ SetRegistration(t) \/ SetRegistrationFails(t)
         \/ SetGeneral(t) \/ SetGeneralFails(t) \/ SetAttributesFaults(t)
  PROVE  InterleavedInv'
<1> USE DEF TypeOK, CallsTypeOK
<1>1. image = "loaded"
  BY StepImage DEF CheckFails, CheckPasses, SetRegistration,
     SetRegistrationFails, SetGeneral, SetGeneralFails, SetAttributesFaults, At,
     InitializeSteps
<1>2. CASE CheckFails(t) \/ SetRegistrationFails(t) \/ SetGeneralFails(t)
  BY <1>1, <1>2, CallStep DEF CheckFails, SetRegistrationFails,
     SetGeneralFails, InitializeFails, Return
<1>3. CASE CheckPasses(t)
  BY <1>1, <1>3, CallStep DEF CheckPasses, Goto
<1>4. CASE SetRegistration(t)
  BY <1>1, <1>4, CallStep DEF SetRegistration, InitializeFails, Return, Goto
<1>5. CASE SetGeneral(t)
  BY <1>1, <1>5, CallStep DEF SetGeneral, Return
<1>6. CASE SetAttributesFaults(t)
  BY <1>6, BugcheckStep DEF SetAttributesFaults
<1> QED BY <1>2, <1>3, <1>4, <1>5, <1>6

LEMMA DeviceInterleaved ==
  ASSUME TypeOK, InterleavedInv, NEW t \in Thread, NEW d \in IfIndex,
         DeviceCall(t, d)
  PROVE  InterleavedInv'
<1> USE DEF TypeOK, MemoryTypeOK, CallsTypeOK
<1>1. CASE \/ InitializeRejected(t, d) \/ OidRequest(t, d)
           \/ NullArgument(t, d)
  <2>1. UNCHANGED <<memory, driver, pc, slot, ptr>>
    BY <1>1 DEF InitializeRejected, OidRequest, NullArgument, Returned
  <2> QED BY <2>1, MemoryStep DEF memory
<1>2. CASE InitializeAccepted(t, d)
  <2>1. \A s \in Slot : ~ (s < 1)
    BY NumSlotsAssumption DEF Slot
  <2> QED BY <1>2, <2>1, CallStep
          DEF InitializeAccepted, StartSearch, InitializeCalled, Goto
<1>3. CASE HaltEx(t, d)
  <2>1. /\ IsAdapter(context[d]) /\ DestroyAdapter(context[d])
        /\ UNCHANGED <<driver, pc, slot, ptr>>
    BY <1>3 DEF HaltEx, calls
  <2> QED BY <2>1, MemoryStep DEF IsAdapter, DestroyAdapter, memory
<1>4. CASE Pause(t, d) \/ Restart(t, d)
  <2>1. /\ UNCHANGED <<pool, driver, pc, slot, ptr>>
        /\ \A a \in Addr :
             adapterAt'[a].driverHandle = adapterAt[a].driverHandle
    BY <1>4 DEF Pause, Restart, PauseAdapter, RestartAdapter, Returned, Object
  <2> QED BY <2>1, MemoryStep
<1>5. CASE DeviceCallFaults(t, d)
  BY <1>5, BugcheckStep DEF DeviceCallFaults
<1> QED BY <1>1, <1>2, <1>3, <1>4, <1>5 DEF DeviceCall

LEMMA UnloadInterleaved ==
  ASSUME TypeOK, InterleavedInv, NEW t \in Thread, Unload(t) \/ UnloadStep(t)
  PROVE  InterleavedInv'
<1> USE DEF TypeOK, MemoryTypeOK, CallsTypeOK, DriverTypeOK
<1>1. CASE Unload(t)
  <2>1. /\ image = "loaded" /\ image' = "unloading"
        /\ \A u \in Thread : pc[u] = "idle"
        /\ pc' = [pc EXCEPT ![t] = "destroySlots"]
        /\ ptr' = [ptr EXCEPT ![t] = activeContext]
        /\ UNCHANGED <<pool, adapterAt, miniportDriverHandle, adapters>>
    BY <1>1 DEF Unload, BeginUnload, AllIdle, Goto
  <2>2. CallsMatchImage'
    BY <2>1 DEF CallsMatchImage
  <2>3. SlotsFillInOrder' /\ SearchedSlotsInUse' /\ ClaimsInOrder'
    BY <2>1 DEF SlotsFillInOrder, SearchedSlotsInUse, ClaimsInOrder
  <2>4. HandlesMatch'
    BY <2>1 DEF InterleavedInv, HandlesMatch, IsAdapter
  <2>5. MiniportAlive'
    BY <2>1 DEF InterleavedInv, MiniportAlive
  <2> QED BY <2>2, <2>3, <2>4, <2>5 DEF InterleavedInv
<1>2. CASE UnloadStep(t)
  <2>1. image # "bugcheck" /\ pc[t] = "destroySlots"
    BY <1>2 DEF UnloadStep, SkipSlot, DestroySlot, DestroySlotFaults,
                DestroySlotAgain, DeleteMiniport, DestroyingSlot, At
  <2>2. image = "unloading"
    BY <2>1, StepImage
  <2>3. CASE DestroySlotFaults(t)
    BY <2>3, BugcheckStep DEF DestroySlotFaults
  <2>4. CASE DeleteMiniport(t)
    <3>1. /\ image' = "unloaded" /\ pc' = [pc EXCEPT ![t] = "idle"]
          /\ adapters' = [s \in Slot |-> ZeroAdapter]
      BY <2>4 DEF DeleteMiniport, Return
    <3>2. \A u \in Thread : pc[u] # "idle" => u = t
      BY <2>1, <2>2 DEF InterleavedInv, CallsMatchImage
    <3>3. CallsMatchImage'
      BY <3>1, <3>2 DEF CallsMatchImage, AllIdle
    <3>4. SlotsFillInOrder' /\ SearchedSlotsInUse' /\ ClaimsInOrder'
          /\ MiniportAlive'
      BY <3>1 DEF SlotsFillInOrder, SearchedSlotsInUse, ClaimsInOrder,
                  MiniportAlive
    <3>5. HandlesMatch'
      BY <3>1, NULLAssumption DEF HandlesMatch, IsAdapter, ZeroAdapter
    <3> QED BY <3>3, <3>4, <3>5 DEF InterleavedInv
  <2>5. CASE SkipSlot(t) \/ DestroySlot(t) \/ DestroySlotAgain(t)
    <3>1. UNCHANGED <<image, miniportDriverHandle, pc, ptr>>
      BY <2>5 DEF SkipSlot, DestroySlot, DestroySlotAgain, NextSlot, driver
    <3>2. \A s \in Slot : adapters'[s].adapter = adapters[s].adapter
      BY <2>5 DEF SkipSlot, DestroySlot, DestroySlotAgain, Release, driver,
                  Adapter
    <3>3. /\ \A a \in Addr : pool[a] = "miniport" => pool'[a] = "miniport"
          /\ \A a \in Addr : pool'[a] = "adapter" =>
               pool[a] = "adapter" /\ adapterAt'[a] = adapterAt[a]
      BY <2>5 DEF SkipSlot, DestroySlot, DestroySlotAgain, DestroyAdapter,
                  IsAdapter, memory
    <3>4. CallsMatchImage'
      BY <2>2, <3>1 DEF InterleavedInv, CallsMatchImage
    <3>5. SlotsFillInOrder' /\ SearchedSlotsInUse' /\ ClaimsInOrder'
      BY <2>2, <3>1 DEF SlotsFillInOrder, SearchedSlotsInUse, ClaimsInOrder
    <3>6. HandlesMatch'
      BY <3>1, <3>2, <3>3 DEF InterleavedInv, HandlesMatch, IsAdapter
    <3>7. MiniportAlive'
      BY <2>2, <3>1, <3>3 DEF InterleavedInv, MiniportAlive
    <3> QED BY <3>4, <3>5, <3>6, <3>7 DEF InterleavedInv
  <2> QED BY <1>2, <2>3, <2>4, <2>5 DEF UnloadStep
<1> QED BY <1>1, <1>2

LEMMA InterleavedStep ==
  TypeOK /\ InterleavedInv /\ [Next]_vars => InterleavedInv'
<1> SUFFICES ASSUME TypeOK, InterleavedInv, [Next]_vars PROVE InterleavedInv'
  OBVIOUS
<1>1. CASE UNCHANGED vars
  BY <1>1, MemoryStep DEF vars, memory, calls
<1>2. ASSUME NEW t \in Thread, InitializeStep(t) PROVE InterleavedInv'
  BY <1>2, ScanInterleaved, ClaimInterleaved, AllocateInterleaved,
     AttributesInterleaved DEF InitializeStep, SearchStep, AttributesStep
<1>3. ASSUME Reboot PROVE InterleavedInv'
  BY <1>3, RebootInit, InitInterleaved, PTL
<1>4. CASE Next
  BY <1>2, <1>3, <1>4, EntryInterleaved, UnloadInterleaved, DeviceInterleaved
     DEF Next
<1> QED BY <1>1, <1>4

-----------------------------------------------------------------------------
(***************************************************************************)
(* The inductive invariant holds in every state, for any number of threads *)
(* inside the driver at once.                                              *)
(***************************************************************************)
THEOREM InterleavedCorrect == Spec => []InterleavedInv
BY InitInterleaved, InterleavedStep, TypeCorrect, PTL DEF Spec

(***************************************************************************)
(* Searches and claims that interleave leave no free slot below a used     *)
(* one.                                                                    *)
(***************************************************************************)
THEOREM TableFillsInOrder == Spec => []SlotsFillInOrder
<1>1. InterleavedInv => SlotsFillInOrder
  BY DEF InterleavedInv
<1> QED BY <1>1, InterleavedCorrect, PTL

(***************************************************************************)
(* A slot that a search has passed is in use, so a search that reaches the *)
(* end is right that no slot is free.                                      *)
(***************************************************************************)
THEOREM SearchIsSound == Spec => []SearchedSlotsInUse
<1>1. InterleavedInv => SearchedSlotsInUse
  BY DEF InterleavedInv
<1> QED BY <1>1, InterleavedCorrect, PTL

(***************************************************************************)
(* The branch of operator delete that "should be impossible" is: every     *)
(* adapter that ~Miniport deletes carries this Miniport's driver handle.   *)
(***************************************************************************)
THEOREM DeleteAlwaysFrees == Spec => []DeletableAdapter
<1>1. InterleavedInv => DeletableAdapter
  BY DEF InterleavedInv, HandlesMatch, DeletableAdapter, DestroyingSlot
<1> QED BY <1>1, InterleavedCorrect, PTL

(***************************************************************************)
(* The Miniport is allocated whenever a callback can use it.               *)
(***************************************************************************)
THEOREM MiniportOutlivesCalls == Spec => []MiniportAlive
<1>1. InterleavedInv => MiniportAlive
  BY DEF InterleavedInv
<1> QED BY <1>1, InterleavedCorrect, PTL

-----------------------------------------------------------------------------
(* The steps that a call has left.                                         *)

LEMMA RemainingType ==
  ASSUME TypeOK, TypeOK', NEW t \in Thread
  PROVE  Remaining(t) \in Nat /\ Remaining(t)' \in Nat
<1>1. /\ pc[t] \in {"idle", "destroySlots"} \union InitializeSteps
      /\ NumSlots + 1 - slot[t] \in Nat
  BY NumSlotsAssumption DEF TypeOK, CallsTypeOK
<1>2. /\ pc'[t] \in {"idle", "destroySlots"} \union InitializeSteps
      /\ NumSlots + 1 - slot'[t] \in Nat
  BY NumSlotsAssumption DEF TypeOK, CallsTypeOK
<1> QED BY <1>1, <1>2 DEF Remaining, InitializeSteps

LEMMA InitializeShrinks ==
  ASSUME CallsTypeOK, NEW t \in Thread, InitializeStep(t)
  PROVE  Remaining(t)' < Remaining(t) \/ image' = "bugcheck"
<1> USE NumSlotsAssumption DEF CallsTypeOK, Remaining, Slot
<1>1. CASE ScanNext(t)
  BY <1>1 DEF ScanNext, At
<1>2. CASE ScanFound(t)
  BY <1>2 DEF ScanFound, At, Goto
<1>3. CASE NoSlotLeft(t)
  BY <1>3 DEF NoSlotLeft, InitializeFails, Return, At
<1>4. CASE Claim(t)
  BY <1>4 DEF Claim, Goto, At
<1>5. CASE Allocate(t) \/ AllocateFails(t)
  BY <1>5 DEF Allocate, AllocateFails, Goto, At
<1>6. CASE CheckFails(t) \/ SetRegistrationFails(t) \/ SetGeneralFails(t)
  BY <1>6 DEF CheckFails, SetRegistrationFails, SetGeneralFails,
              InitializeFails, Return, At
<1>7. CASE CheckPasses(t)
  BY <1>7 DEF CheckPasses, Goto, At
<1>8. CASE SetRegistration(t)
  BY <1>8 DEF SetRegistration, InitializeFails, Return, Goto, At
<1>9. CASE SetGeneral(t)
  BY <1>9 DEF SetGeneral, Return, At
<1>10. CASE SetAttributesFaults(t)
  BY <1>10 DEF SetAttributesFaults, Bugcheck
<1> QED BY <1>1, <1>2, <1>3, <1>4, <1>5, <1>6, <1>7, <1>8, <1>9, <1>10
        DEF InitializeStep, SearchStep, AttributesStep

LEMMA UnloadShrinks ==
  ASSUME CallsTypeOK, NEW t \in Thread, UnloadStep(t)
  PROVE  Remaining(t)' < Remaining(t) \/ image' = "bugcheck"
<1> USE NumSlotsAssumption DEF CallsTypeOK, Remaining, Slot
<1>1. CASE SkipSlot(t) \/ DestroySlot(t) \/ DestroySlotAgain(t)
  BY <1>1 DEF SkipSlot, DestroySlot, DestroySlotAgain, DestroyingSlot,
              NextSlot, At
<1>2. CASE DestroySlotFaults(t)
  BY <1>2 DEF DestroySlotFaults, Bugcheck
<1>3. CASE DeleteMiniport(t)
  BY <1>3 DEF DeleteMiniport, Return, At
<1> QED BY <1>1, <1>2, <1>3 DEF UnloadStep

(***************************************************************************)
(* A step of one thread leaves the calls of the others where they are.     *)
(***************************************************************************)
LEMMA OthersKeepRemaining ==
  ASSUME CallsTypeOK, NEW t \in Thread, NEW u \in Thread, u # t,
         \/ DriverEntry(t) \/ Unload(t)
         \/ InitializeStep(t) \/ UnloadStep(t)
         \/ \E d \in IfIndex : DeviceCall(t, d)
  PROVE  pc'[u] = pc[u] /\ slot'[u] = slot[u]
<1> USE DEF CallsTypeOK, calls, Returned, Return, Goto, Bugcheck, NextSlot
<1>1. CASE DriverEntry(t)
  BY <1>1 DEF DriverEntry, DriverEntryNoMemory, DriverEntryRegisterFails,
              DriverEntryRegisters
<1>2. CASE Unload(t) \/ UnloadStep(t)
  BY <1>2 DEF Unload, BeginUnload, UnloadStep, SkipSlot, DestroySlot,
              DestroySlotFaults, DestroySlotAgain, DeleteMiniport
<1>3. CASE InitializeStep(t)
  BY <1>3 DEF InitializeStep, SearchStep, AttributesStep, ScanNext, ScanFound,
              NoSlotLeft, Claim, Allocate, AllocateFails, CheckFails,
              CheckPasses, SetRegistration, SetRegistrationFails, SetGeneral,
              SetGeneralFails, SetAttributesFaults, InitializeFails
<1>4. CASE \E d \in IfIndex : DeviceCall(t, d)
  BY <1>4 DEF DeviceCall, InitializeRejected, InitializeAccepted, StartSearch,
              HaltEx, Pause, Restart, OidRequest, NullArgument,
              DeviceCallFaults
<1> QED BY <1>1, <1>2, <1>3, <1>4

LEMMA FirstStepsFromIdle ==
  ASSUME CallsTypeOK, NEW t \in Thread,
         \/ DriverEntry(t) \/ Unload(t)
         \/ \E d \in IfIndex : DeviceCall(t, d)
  PROVE  Idle(t) \/ UNCHANGED <<pc, slot>>
<1> USE DEF CallsTypeOK, calls, Returned, Bugcheck
<1>1. CASE DriverEntry(t)
  BY <1>1 DEF DriverEntry, DriverEntryNoMemory, DriverEntryRegisterFails,
              DriverEntryRegisters
<1>2. CASE Unload(t)
  BY <1>2 DEF Unload, BeginUnload, AllIdle, Idle
<1>3. CASE \E d \in IfIndex : DeviceCall(t, d)
  BY <1>3 DEF DeviceCall, InitializeRejected, InitializeAccepted, StartSearch,
              InitializeCalled, HaltEx, Pause, Restart, OidRequest,
              NullArgument, DeviceCallFaults
<1> QED BY <1>1, <1>2, <1>3

LEMMA BugcheckKeepsCalls ==
  ASSUME NEW t \in Thread, InitializeStep(t) \/ UnloadStep(t),
         image' = "bugcheck"
  PROVE  UNCHANGED <<pc, slot>>
<1> USE DEF calls, Bugcheck, At
<1>1. CASE InitializeStep(t)
  BY <1>1 DEF InitializeStep, SearchStep, AttributesStep, ScanNext, ScanFound,
              NoSlotLeft, Claim, Allocate, AllocateFails, CheckFails,
              CheckPasses, SetRegistration, SetRegistrationFails, SetGeneral,
              SetGeneralFails, SetAttributesFaults, driver
<1>2. CASE UnloadStep(t)
  BY <1>2 DEF UnloadStep, DestroyingSlot, SkipSlot, DestroySlot,
              DestroySlotFaults, DestroySlotAgain, DeleteMiniport, driver
<1> QED BY <1>1, <1>2

LEMMA NoStepLengthens ==
  ASSUME TypeOK, TypeOK', [Next]_vars, NEW t \in Thread,
         Remaining(t)' > Remaining(t)
  PROVE  Idle(t)
<1>1. Remaining(t) \in Nat /\ Remaining(t)' \in Nat
  BY RemainingType
<1>2. CASE pc'[t] = pc[t] /\ slot'[t] = slot[t]
  <2>1. Remaining(t)' = Remaining(t)
    BY <1>2 DEF Remaining
  <2> QED BY <1>1, <2>1
<1>3. CASE UNCHANGED vars
  BY <1>2, <1>3 DEF vars, calls
<1>4. CASE Reboot
  <2>1. Remaining(t)' = 0
    BY <1>4 DEF Reboot, Remaining
  <2> QED BY <1>1, <2>1
<1>5. ASSUME NEW u \in Thread,
             \/ DriverEntry(u) \/ Unload(u)
             \/ InitializeStep(u) \/ UnloadStep(u)
             \/ \E d \in IfIndex : DeviceCall(u, d)
      PROVE  Idle(t)
  <2>1. CASE u # t
    BY <1>2, <1>5, <2>1, OthersKeepRemaining DEF TypeOK
  <2>2. CASE u = t /\ (InitializeStep(t) \/ UnloadStep(t))
    <3>1. CASE image' = "bugcheck"
      BY <1>2, <2>2, <3>1, BugcheckKeepsCalls
    <3>2. CASE Remaining(t)' < Remaining(t)
      BY <1>1, <3>2
    <3> QED BY <2>2, <3>1, <3>2, InitializeShrinks, UnloadShrinks DEF TypeOK
  <2>3. CASE u = t /\ ~ (InitializeStep(t) \/ UnloadStep(t))
    BY <1>2, <1>5, <2>3, FirstStepsFromIdle DEF TypeOK
  <2> QED BY <2>1, <2>2, <2>3
<1> QED BY <1>3, <1>4, <1>5 DEF Next

(***************************************************************************)
(* Every call takes at most NumSlots + 6 steps after its first one,        *)
(* whatever the other calls do in between.                                 *)
(***************************************************************************)
THEOREM CallsGetShorter == Spec => CallsShrink
<1>1. TypeOK /\ TypeOK' /\ [Next]_vars =>
        \A t \in Thread :
          /\ InitializeStep(t) \/ UnloadStep(t) =>
               Remaining(t)' < Remaining(t) \/ image' = "bugcheck"
          /\ Remaining(t)' > Remaining(t) => Idle(t)
  BY NoStepLengthens, InitializeShrinks, UnloadShrinks DEF TypeOK
<1> QED BY <1>1, TypeCorrect, PTL DEF Spec, CallsShrink

=============================================================================
