-------------------------- MODULE LifecycleProofs --------------------------
(***************************************************************************)
(* Proof that the driver implements AdapterLifecycle when initialisations  *)
(* exclude each other.                                                     *)
(***************************************************************************)
EXTENDS ExclusiveProofs

\* The life-cycle state that NDIS attributes to a device.
PhaseState(p) ==
  CASE p = "absent"   -> "Halted"
    [] p = "starting" -> "Initializing"
    [] p = "paused"   -> "Paused"
    [] p = "running"  -> "Running"

\* The pairs of phases that one call takes a device from and to.
PhaseMoves == {<<"absent", "starting">>, <<"starting", "absent">>,
               <<"starting", "paused">>, <<"paused", "running">>,
               <<"running", "paused">>, <<"paused", "absent">>}

(***************************************************************************)
(* The adapter objects are in the states that NDIS attributes to them.     *)
(***************************************************************************)
LEMMA LifecycleIsPhase ==
  Known => lifecycle = [d \in IfIndex |-> PhaseState(phase[d])]
<1> SUFFICES ASSUME Known, NEW d \in IfIndex
             PROVE  LifecycleState(d) = PhaseState(phase[d])
  BY Zenon DEF lifecycle
<1>1. phase[d] \in {"absent", "starting", "paused", "running"}
  BY DEF Known, TypeOK, NdisTypeOK
<1>2. CASE phase[d] \in {"absent", "starting"}
  BY <1>2 DEF LifecycleState, PhaseState
<1>3. CASE phase[d] \in {"paused", "running"}
  <2>1. /\ context[d] \in Addr
        /\ adapterAt[context[d]].state =
             IF phase[d] = "paused" THEN "Paused" ELSE "Running"
    BY <1>3 DEF Known, ExclusiveInv, StartedAdapters, Started, IsAdapter
  <2> QED BY <1>3, <2>1 DEF LifecycleState, PhaseState
<1> QED BY <1>1, <1>2, <1>3

(***************************************************************************)
(* One call moves at most one device, along one of PhaseMoves.             *)
(***************************************************************************)
LEMMA PhaseStep ==
  ASSUME Known, [Next]_vars
  PROVE  \/ UNCHANGED phase
         \/ \E d \in IfIndex,
               p \in {"absent", "starting", "paused", "running"} :
              /\ phase' = [phase EXCEPT ![d] = p]
              /\ <<phase[d], p>> \in PhaseMoves
<1> DEFINE Moves(d, p) == /\ phase' = [phase EXCEPT ![d] = p]
                          /\ <<phase[d], p>> \in PhaseMoves
<1>1. CASE UNCHANGED vars
  BY <1>1 DEF vars, ndis
<1>2. ASSUME NEW t \in Thread, DriverEntry(t) \/ Unload(t) \/ UnloadStep(t)
      PROVE  UNCHANGED phase
  BY <1>2 DEF DriverEntry, DriverEntryNoMemory, DriverEntryRegisterFails,
     DriverEntryRegisters, Unload, BeginUnload, UnloadStep, SkipSlot,
     DestroySlot, DestroySlotFaults, DestroySlotAgain, DeleteMiniport, Bugcheck,
     ndis
<1>3. ASSUME NEW t \in Thread, InitializeStep(t)
      PROVE  \/ UNCHANGED phase
             \/ \E d \in IfIndex : Moves(d, "absent") \/ Moves(d, "paused")
  <2>1. pc[t] \in InitializeSteps
    BY <1>3, AttributesNeverFault
       DEF InitializeStep, SearchStep, AttributesStep, ScanNext, ScanFound,
           NoSlotLeft, Claim, Allocate, AllocateFails, CheckFails,
           CheckPasses, SetRegistration,
           SetRegistrationFails, SetGeneral, SetGeneralFails, At,
           InitializeSteps
  <2>2. device[t] \in IfIndex /\ phase[device[t]] = "starting"
    BY <2>1 DEF Known, ExclusiveInv, InitializeProgress
  <2>3. \/ UNCHANGED phase
        \/ phase' = [phase EXCEPT ![device[t]] = "absent"]
        \/ phase' = [phase EXCEPT ![device[t]] = "paused"]
    BY <1>3, AttributesNeverFault
       DEF InitializeStep, SearchStep, AttributesStep, ScanNext, ScanFound,
           NoSlotLeft, Claim, Allocate, AllocateFails, CheckFails,
           CheckPasses, SetRegistration,
           SetRegistrationFails, SetGeneral, SetGeneralFails, InitializeFails,
           ndis
  <2> QED BY <2>2, <2>3 DEF PhaseMoves
<1>4. ASSUME NEW t \in Thread, NEW d \in IfIndex, DeviceCall(t, d)
      PROVE  \/ UNCHANGED phase
             \/ Moves(d, "starting") \/ Moves(d, "absent")
             \/ Moves(d, "paused") \/ Moves(d, "running")
  <2>1. CASE InitializeRejected(t, d) \/ OidRequest(t, d) \/ NullArgument(t, d)
    BY <2>1 DEF InitializeRejected, OidRequest, NullArgument, ndis
  <2>2. CASE InitializeAccepted(t, d)
    BY <2>2 DEF InitializeAccepted, StartSearch, InitializeCalled, PhaseMoves
  <2>3. CASE HaltEx(t, d) \/ Pause(t, d) \/ Restart(t, d)
    BY <2>3 DEF HaltEx, Pause, Restart, CalledIn, PhaseMoves
  <2> QED BY <1>4, <2>1, <2>2, <2>3, DeviceCallsNeverFault DEF DeviceCall
<1>5. CASE Reboot
  <2>1. \A d \in IfIndex : phase[d] = "absent"
    BY <1>5 DEF Reboot, Known, ExclusiveInv, DevicesNeedDriver
  <2> QED BY <1>5, <2>1 DEF Reboot, Known, TypeOK, NdisTypeOK
<1> QED BY <1>1, <1>2, <1>3, <1>4, <1>5 DEF Next

LEMMA LifecycleStep ==
  ASSUME Known, Known', [Next]_vars
  PROVE  [Abstract!Next]_lifecycle
<1>1. lifecycle = [d \in IfIndex |-> PhaseState(phase[d])]
  BY LifecycleIsPhase
<1>2. lifecycle' = [d \in IfIndex |-> PhaseState(phase'[d])]
  <2>1. (Known => lifecycle = [d \in IfIndex |-> PhaseState(phase[d])])'
    BY LifecycleIsPhase, PTL
  <2> QED BY <2>1 DEF PhaseState
<1>3. CASE UNCHANGED phase
  BY <1>1, <1>2, <1>3
<1>4. ASSUME NEW d \in IfIndex,
             NEW p \in {"absent", "starting", "paused", "running"},
             phase' = [phase EXCEPT ![d] = p],
             <<phase[d], p>> \in PhaseMoves
      PROVE  Abstract!Next
  <2>1. lifecycle' = [lifecycle EXCEPT ![d] = PhaseState(p)]
    BY <1>1, <1>2, <1>4 DEF Known, TypeOK, NdisTypeOK
  <2>2. lifecycle[d] = PhaseState(phase[d])
    BY <1>1
  <2>3. \/ lifecycle[d] = "Halted" /\ PhaseState(p) = "Initializing"
        \/ /\ lifecycle[d] = "Initializing"
           /\ PhaseState(p) \in {"Halted", "Paused"}
        \/ lifecycle[d] = "Paused" /\ PhaseState(p) \in {"Running", "Halted"}
        \/ lifecycle[d] = "Running" /\ PhaseState(p) = "Paused"
    BY <1>4, <2>2 DEF PhaseMoves, PhaseState
  <2> QED BY <2>1, <2>3
          DEF Abstract!Next, Abstract!Move, Abstract!Initialize,
              Abstract!Initialized, Abstract!Restart, Abstract!Pause,
              Abstract!Halt
<1> QED BY <1>3, <1>4, PhaseStep

(***************************************************************************)
(* When initialisations exclude each other, the driver implements the      *)
(* documented life cycle: the state of each adapter object changes as      *)
(* AdapterLifecycle allows, one device at a time.                          *)
(***************************************************************************)
THEOREM LifecycleImplemented == ExclusiveSpec => Lifecycle
<1>1. Init => Abstract!Init
  BY DEF Init, Abstract!Init, lifecycle, LifecycleState
<1>2. Known /\ Known' /\ [Next /\ OneInitialize']_vars =>
        [Abstract!Next]_lifecycle
  BY LifecycleStep
<1> QED BY <1>1, <1>2, InitKnown, KnownStep, PTL
        DEF ExclusiveSpec, Lifecycle, Abstract!Spec

=============================================================================
