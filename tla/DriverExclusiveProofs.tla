----------------------- MODULE DriverExclusiveProofs -----------------------
(***************************************************************************)
(* What is proved of Miniport when initialisations exclude each other,     *)
(* carried over to the whole driver, and what follows for the data path.   *)
(***************************************************************************)
EXTENDS DriverProofs, LifecycleProofs

LEMMA ExclusiveSystemCorrect ==
  ExclusiveSystemSpec => [](SystemTypeOK /\ SystemInv)
BY SystemInitCorrect, SystemStep, PTL DEF ExclusiveSystemSpec

(***************************************************************************)
(* The whole driver implements Miniport under exclusive initialisation:    *)
(* constructors that run write by write and data calls in between make no  *)
(* difference.                                                             *)
(***************************************************************************)
LEMMA ImplementsExclusiveMiniport == ExclusiveSystemSpec => ExclusiveSpec
<1>1. SystemTypeOK /\ SystemInv /\ [SystemNext /\ OneInitialize']_system =>
        [Next /\ OneInitialize']_vars
  <2> SUFFICES ASSUME SystemTypeOK, SystemInv,
                      [SystemNext /\ OneInitialize']_system
               PROVE  [Next /\ OneInitialize']_vars
    OBVIOUS
  <2>1. [Next]_vars
    BY StepOfMiniport DEF SystemTypeOK
  <2> QED BY <2>1 DEF system
<1>2. SystemInit => Init
  BY DEF SystemInit
<1> QED BY <1>1, <1>2, ExclusiveSystemCorrect, PTL
        DEF ExclusiveSystemSpec, ExclusiveSpec

(***************************************************************************)
(* So the whole driver keeps every adapter reachable, gives NDIS live      *)
(* contexts of its own for each device and maps each to its interface      *)
(* number.                                                                 *)
(***************************************************************************)
THEOREM DriverKeepsAdapters ==
  ExclusiveSystemSpec => [](NoOrphan /\ ContextLive /\ TableMapsInterface)
BY ImplementsExclusiveMiniport, NothingOrphaned, ContextsAreLive,
   TableIsRight, PTL

(***************************************************************************)
(* The whole driver implements the documented life cycle of its adapters.  *)
(***************************************************************************)
THEOREM DriverImplementsLifecycle == ExclusiveSystemSpec => Lifecycle
BY ImplementsExclusiveMiniport, LifecycleImplemented

(***************************************************************************)
(* No callback of the whole driver but unload touches memory that is no    *)
(* adapter.                                                                *)
(***************************************************************************)
THEOREM DriverFaultsOnlyInUnload == ExclusiveSystemSpec => FaultOnlyInUnload
BY ImplementsExclusiveMiniport, FaultsOnlyInUnload

(***************************************************************************)
(* A send or return that is about to use the context it was called with    *)
(* uses the device's own live adapter, whatever PnP calls came in between. *)
(***************************************************************************)
THEOREM DataCallsUseLiveAdapters == ExclusiveSystemSpec => []AdapterAtUse
<1>1. SystemTypeOK /\ SystemInv /\ ExclusiveInv => AdapterAtUse
  <2> SUFFICES ASSUME SystemTypeOK, SystemInv, ExclusiveInv, NEW c \in Cpu,
                      InCall(c, "send") \/ InCall(c, "return"),
                      request[c].context # NULL
               PROVE  /\ request[c].context = context[request[c].device]
                      /\ IsAdapter(request[c].context)
    BY DEF AdapterAtUse
  <2>1. image = "loaded" /\ call[c] # "none"
    BY DEF InCall, SystemInv, DataCallsNeedDriver, NoDataCalls, SystemTypeOK,
           TypeOK, DriverTypeOK
  <2>2. /\ request[c].device \in Started
        /\ request[c].context = context[request[c].device]
    BY <2>1 DEF SystemInv, RequestsCurrent
  <2> QED BY <2>2 DEF ExclusiveInv, StartedAdapters
<1> QED BY <1>1, ExclusiveSystemCorrect, ImplementsExclusiveMiniport,
           ExclusiveCorrect, PTL

=============================================================================
