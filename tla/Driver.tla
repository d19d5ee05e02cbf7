------------------------------- MODULE Driver -------------------------------
(***************************************************************************)
(* The whole driver: the PnP callbacks of Miniport, the constructor of     *)
(* AX25Adapter write by write (AdapterAttributes), and the data path       *)
(* (DataPath), in one system.                                              *)
(*                                                                         *)
(* NDIS halts a device only when no data call for it is in the driver, and *)
(* unloads the driver only when none is.  A pause waits for nothing.       *)
(***************************************************************************)
EXTENDS MiniportProperties, AdapterAttributes, DataPath

system == <<vars, attributes, dataPath>>

SystemInit == Init /\ AttributesInit /\ DataPathInit

\* A fresh image has a fresh static.
Load(t) ==
  /\ DriverEntry(t)
  /\ powerManagement' = {}
  /\ UNCHANGED <<assigned, oidCount, building, stage, dataPath>>

Call(t, d) ==
  /\ DeviceCall(t, d)
  /\ phase'[d] = "absent" => ~ InDriverFor(d)
  /\ UNCHANGED <<attributes, dataPath>>

InitializeCallStep(t) ==
  \/ (SearchStep(t) \/ AttributesStep(t)) /\ UNCHANGED <<attributes, dataPath>>
  \/ ConstructorStep(t) /\ UNCHANGED dataPath

BeginUnloadCall(t) ==
  /\ Unload(t)
  /\ NoDataCalls
  /\ UNCHANGED <<attributes, dataPath>>

UnloadCallStep(t) == UnloadStep(t) /\ UNCHANGED <<attributes, dataPath>>

SystemReboot == Reboot /\ AttributesReboot /\ DataPathReboot

PnpStep(t) ==
  \/ Load(t)
  \/ \E d \in IfIndex : Call(t, d)
  \/ InitializeCallStep(t)
  \/ BeginUnloadCall(t)
  \/ UnloadCallStep(t)

DataPathStep(c) ==
  /\ \/ \E d \in IfIndex : SendCalled(c, d) \/ ReturnCalled(c, d)
     \/ DataStep(c)
  /\ UNCHANGED attributes

SystemNext ==
  \/ \E t \in Thread : PnpStep(t)
  \/ \E c \in Cpu : DataPathStep(c)
  \/ SystemReboot

SystemSpec == SystemInit /\ [][SystemNext]_system

(***************************************************************************)
(* A thread or processor that is inside a callback keeps running.  NDIS    *)
(* owes nobody a call.                                                     *)
(***************************************************************************)
SystemFairness ==
  /\ \A t \in Thread : WF_system(InitializeCallStep(t) \/ UnloadCallStep(t))
  /\ \A c \in Cpu : WF_system(DataStep(c) /\ UNCHANGED attributes)

FairSystemSpec == SystemSpec /\ SystemFairness

\* The driver under an NDIS that initialises one device at a time.
ExclusiveSystemSpec == SystemInit /\ [][SystemNext /\ OneInitialize']_system

-----------------------------------------------------------------------------
(* Properties.                                                             *)

\* The adapters whose attributes NDIS reads: those of initialised devices,
\* and those that a call is passing to it.
KnownToNdis ==
  {context[d] : d \in Started} \union
    {ptr[t] : t \in {u \in Thread : pc[u] = "setGeneral"}}

(***************************************************************************)
(* What the attributes of an adapter that NDIS knows point to is complete  *)
(* whenever NDIS looks, also while another adapter is constructed: the OID *)
(* list holds as many entries as NDIS was told, although the pointer to it *)
(* is stored before it is filled, and the static power management          *)
(* structure, which all constructors write, is never seen half filled.     *)
(***************************************************************************)
ReferencesReadable ==
  \A a \in KnownToNdis : IsAdapter(a) =>
    /\ oidCount[a] = OID_LIST_LENGTH
    /\ powerManagement = PowerManagementMembers

(***************************************************************************)
(* A send or return without a context reads activeContext, which the       *)
(* destructor of the Miniport clears and a driver entry sets, at a time    *)
(* that has nothing to do with the call: it is an allocated Miniport with  *)
(* a driver handle whenever a data call is about to read it.               *)
(***************************************************************************)
ActiveContextAtUse ==
  \A c \in Cpu :
    InCall(c, "send") \/ InCall(c, "return") =>
      ActiveContextReadable /\ miniportDriverHandle # NULL

(***************************************************************************)
(* The MiniportAdapterContext that a send or return casts and calls was    *)
(* taken when NDIS made the call, and the device may have been paused, or  *)
(* another one halted, since: it still is the device's own live adapter.   *)
(***************************************************************************)
AdapterAtUse ==
  \A c \in Cpu :
    (InCall(c, "send") \/ InCall(c, "return")) /\ request[c].context # NULL =>
      /\ request[c].context = context[request[c].device]
      /\ IsAdapter(request[c].context)

\* Who owns each list, as NetBufferLists counts it.
listOwner == [l \in List |-> IF balance[l] = 0 THEN "ndis"
                             ELSE IF balance[l] = 1 THEN "miniport"
                                  ELSE "nobody"]

Lists == INSTANCE NetBufferLists WITH owner <- listOwner

(***************************************************************************)
(* No list is completed that was not sent, and none twice, whatever order  *)
(* the callbacks' checks and the calls of several processors come in: NDIS *)
(* may send a list again, on any processor and to any device, while the    *)
(* call that completed it is still in the driver.                          *)
(***************************************************************************)
Ownership == Lists!Spec

(***************************************************************************)
(* A list that the driver refuses to send goes back to NDIS, unless the    *)
(* machine stops: none of the early returns of the send callback, taken on *)
(* any processor while others send and complete, leaves it with a driver   *)
(* that has no adapter to answer for it.                                   *)
(***************************************************************************)
RefusedSendsComplete ==
  \A c \in Cpu, l \in List :
    call[c] = "send" /\ request[c].context = NULL /\ request[c].list = l
      ~> balance[l] = 0 \/ image = "bugcheck"

-----------------------------------------------------------------------------
(* The inductive invariant.                                                *)

\* A device that NDIS has given up has no context, and no device is left
\* when the driver is unloaded.
DevicesOfImage ==
  /\ \A d \in IfIndex : phase[d] = "absent" => context[d] = NULL
  /\ image \in {"unloaded", "unloading"} =>
       \A d \in IfIndex : phase[d] = "absent"
  /\ image = "loaded" => miniportDriverHandle \in Handle

\* Every call that starts a device is alone in that, and what it works on
\* after the search is a slot.
DevicesOfCalls ==
  /\ \A t \in Thread : pc[t] \in InitializeSteps =>
       device[t] \in IfIndex /\ phase[device[t]] = "starting"
  /\ \A t, u \in Thread :
       /\ pc[t] \in InitializeSteps /\ pc[u] \in InitializeSteps
       /\ device[t] = device[u]
       => t = u
  /\ \A t \in Thread : pc[t] \in InitializeSteps \ {"scan"} =>
       slot[t] \in Slot

\* A call holds a pointer only after its allocation.
PointersOfCalls ==
  \A t \in Thread : pc[t] \in {"idle", "scan", "claim", "allocate"} =>
    ptr[t] = NULL

\* The constructor runs in a block of its own, inside its call.
Constructors ==
  /\ \A t \in Thread : stage[t] # "none" =>
       pc[t] = "allocate" /\ building[t] \in Addr
  /\ \A t, u \in Thread : building[t] = building[u] /\ t # u =>
       building[t] = NULL
  /\ \A t \in Thread : stage[t] = "none" => building[t] = NULL
  /\ \A t \in Thread : building[t] # NULL => pool[building[t]] = "free"

\* How far each constructor has come, and what every adapter has.
Progress ==
  /\ \A t \in Thread : stage[t] \in {"publish", "oids", "built"} =>
       powerManagement = PowerManagementMembers
  /\ \A t \in Thread : stage[t] = "built" =>
       oidCount[building[t]] = OID_LIST_LENGTH
  /\ \A a \in LiveAdapters : oidCount[a] = OID_LIST_LENGTH

\* Until a constructor has filled the static of this image, it has built
\* no adapter that anything leads to.
NothingBuilt ==
  image # "unloaded" /\ powerManagement # PowerManagementMembers =>
      /\ \A s \in Slot : adapters[s].adapter = NULL
      /\ \A t \in Thread : pc[t] # "destroySlots" => ptr[t] = NULL
      /\ \A d \in IfIndex : context[d] = NULL

\* Nobody is in the data path of a driver that is not loaded.
DataCallsNeedDriver ==
  image \in {"unloaded", "unloading"} => NoDataCalls

\* A list that a send is about to handle was sent, and by that call.
ListsInCalls ==
  /\ \A c \in Cpu : call[c] = "send" /\ request[c].list # NULL =>
       balance[request[c].list] = 1
  /\ \A b, c \in Cpu :
       /\ call[b] = "send" /\ call[c] = "send"
       /\ request[b].list = request[c].list /\ request[b].list # NULL
       => b = c

\* A device stays initialised, with the same context, while data calls for
\* it are in the driver.
RequestsCurrent ==
  image = "loaded" =>
    \A c \in Cpu : call[c] # "none" =>
      /\ request[c].device \in Started
      /\ request[c].context \in {context[request[c].device], NULL}

SystemInv ==
  /\ InterleavedInv
  /\ DevicesOfImage
  /\ DevicesOfCalls
  /\ PointersOfCalls
  /\ Constructors
  /\ Progress
  /\ NothingBuilt
  /\ DataCallsNeedDriver
  /\ ListsInCalls
  /\ RequestsCurrent

SystemTypeOK == TypeOK /\ AttributesTypeOK /\ DataPathTypeOK

-----------------------------------------------------------------------------
(* What the repository says, and the code does not keep to.                *)

(***************************************************************************)
(* "The attributes should already have been set as part of the state of    *)
(* this object" (AX25Adapter.cpp:207).  So when NDIS is given a structure, *)
(* all its members have been assigned; but initializeGeneralAttributes     *)
(* leaves three out, MacAddressLength among them.                          *)
(***************************************************************************)
AttributesAssigned ==
  \A t \in Thread :
    pc[t] = "setGeneral" /\ IsAdapter(ptr[t]) =>
      RegistrationMembers \union GeneralMembers \subseteq assigned[ptr[t]]

(***************************************************************************)
(* "Nothing to do - there's no list here" (Miniport.cpp:451), in the send  *)
(* callback.  So what it completes is a list; but a send that has neither  *)
(* a context nor a list is answered, before that check, by the completion  *)
(* of a null chain.                                                        *)
(***************************************************************************)
NothingToDoWithoutList ==
  \A c \in Cpu : InCall(c, "complete") => request[c].list # NULL

(***************************************************************************)
(* "The adapter must: Complete all active transmissions" (AX25Adapter.cpp: *)
(* 400-401).  So a list that was sent to a device which is then paused     *)
(* comes back; but the adapter forgets the lists it is sent, and Pause     *)
(* succeeds at once.                                                       *)
(***************************************************************************)
SendsCompleteByPause ==
  \A l \in List :
    (\E d \in IfIndex : sentTo[l] = d /\ phase[d] = "paused") ~>
      (balance[l] = 0 \/ image = "bugcheck")

=============================================================================
