------------------------- MODULE AdapterAttributes -------------------------
(***************************************************************************)
(* What the constructor of AX25Adapter writes, and in which order.         *)
(*                                                                         *)
(* NDIS does not copy the attribute structures that SetMiniportAttributes  *)
(* passes: it reads them, and what they point to, for as long as the       *)
(* adapter lives.  Two pointers lead out of them: SupportedOidList to an   *)
(* array of the same adapter, and PowerManagementCapabilitiesEx to one     *)
(* static structure, which every constructor fills again while the         *)
(* adapters built before it are in use.                                    *)
(*                                                                         *)
(* Miniport's Allocate is here the last of several steps; the block of an  *)
(* adapter under construction is the constructor's own until then.  A      *)
(* value is abstracted to whether it has been assigned: the block comes    *)
(* from a pool that does not clear it.                                     *)
(***************************************************************************)
EXTENDS Miniport

VARIABLES
  assigned,         \* the members assigned in the attributes at each address
  oidCount,         \* how many of the supportedOids at each address are set
  powerManagement,  \* the members set in the static powerManagementCapabilities
  building,         \* the block in which each thread's constructor runs
  stage             \* the constructor's next step

attributes == <<assigned, oidCount, powerManagement, building, stage>>

OID_LIST_LENGTH == 44

RegistrationMembers ==
  {"RegistrationHeader", "MiniportAdapterContext", "AttributeFlags",
   "CheckForHangTimeInSeconds", "InterfaceType"}

GeneralMembers ==
  {"GeneralHeader", "Flags", "MediaType", "PhysicalMediumType", "MtuSize",
   "MaxXmitLinkSpeed", "XmitLinkSpeed", "MaxRcvLinkSpeed", "RcvLinkSpeed",
   "MediaConnectState", "MediaDuplexState", "LookaheadSize",
   "PowerManagementCapabilities", "MacOptions", "SupportedPacketFilters",
   "MaxMulticastListSize", "MacAddressLength", "PermanentMacAddress",
   "CurrentMacAddress", "RecvScaleCapabilities", "AccessType",
   "DirectionType", "ConnectionType", "IfType", "IfConnectorPresent",
   "SupportedStatistics", "SupportedPauseFunctions", "DataBackFillSize",
   "ContextBackFillSize", "SupportedOidList", "SupportedOidListLength",
   "AutoNegotiationFlags", "PowerManagementCapabilitiesEx"}

\* A static starts as zeroes, which is what the other members are set to.
PowerManagementMembers == {"Type", "Revision", "Size"}

Stage == {"none", "registration", "general", "power", "publish", "oids",
          "built"}

AttributesTypeOK ==
  /\ assigned \in [Addr -> SUBSET (RegistrationMembers \union GeneralMembers)]
  /\ oidCount \in [Addr -> 0 .. OID_LIST_LENGTH]
  /\ powerManagement \subseteq PowerManagementMembers
  /\ building \in [Thread -> Addr \union {NULL}]
  /\ stage \in [Thread -> Stage]

AttributesInit ==
  /\ assigned = [a \in Addr |-> {}]
  /\ oidCount = [a \in Addr |-> 0]
  /\ powerManagement = {}
  /\ building = [t \in Thread |-> NULL]
  /\ stage = [t \in Thread |-> "none"]

-----------------------------------------------------------------------------
\* The constructor that thread t runs is about to take step l.
Constructing(t, l) == At(t, "allocate") /\ stage[t] = l

Continue(t, l) ==
  /\ stage' = [stage EXCEPT ![t] = l]
  /\ UNCHANGED <<vars, building>>

Assign(t, members) ==
  assigned' = [assigned EXCEPT ![building[t]] = @ \union members]

\* operator new has found a block, which no other constructor runs in.
NewBlock(t) ==
  /\ Constructing(t, "none")
  /\ miniportDriverHandle # NULL
  /\ \E a \in FreeBlocks :
       /\ \A u \in Thread : building[u] # a
       /\ building' = [building EXCEPT ![t] = a]
       /\ assigned' = [assigned EXCEPT ![a] = {}]
       /\ oidCount' = [oidCount EXCEPT ![a] = 0]
  /\ stage' = [stage EXCEPT ![t] = "registration"]
  /\ UNCHANGED <<vars, powerManagement>>

InitializeRegistrationAttributes(t) ==
  /\ Constructing(t, "registration")
  /\ Assign(t, RegistrationMembers)
  /\ Continue(t, "general")
  /\ UNCHANGED <<oidCount, powerManagement>>

\* initializeGeneralAttributes, up to the power management capabilities.
GeneralAssigned ==
  GeneralMembers \ {"Flags", "PowerManagementCapabilities", "MacAddressLength",
                    "PowerManagementCapabilitiesEx"}

\* Mutant: the static structure is cleared before it is filled.
InitializeGeneralAttributesClearing(t) ==
  /\ Constructing(t, "general")
  /\ Assign(t, GeneralAssigned)
  /\ powerManagement' = {}
  /\ Continue(t, "power")
  /\ UNCHANGED oidCount

InitializeGeneralAttributes(t) ==
  /\ Constructing(t, "general")
  /\ Assign(t, GeneralAssigned)
  /\ Continue(t, "power")
  /\ UNCHANGED <<oidCount, powerManagement>>

\* One member, in any order; a member that is set gets the same value again.
FillPowerManagement(t) ==
  /\ Constructing(t, "power")
  /\ \E m \in PowerManagementMembers :
       powerManagement' = powerManagement \union {m}
  /\ Continue(t, IF powerManagement' = PowerManagementMembers
                 THEN "publish" ELSE "power")
  /\ UNCHANGED <<assigned, oidCount>>

PublishPowerManagement(t) ==
  /\ Constructing(t, "publish")
  /\ Assign(t, {"PowerManagementCapabilitiesEx"})
  /\ Continue(t, "oids")
  /\ UNCHANGED <<oidCount, powerManagement>>

\* Mutant: the copy stops one entry short of the length that NDIS is told.
CopySupportedOidsShort(t) ==
  /\ Constructing(t, "oids")
  /\ oidCount' = [oidCount EXCEPT ![building[t]] = OID_LIST_LENGTH - 1]
  /\ Continue(t, "built")
  /\ UNCHANGED <<assigned, powerManagement>>

CopySupportedOids(t) ==
  /\ Constructing(t, "oids")
  /\ oidCount' = [oidCount EXCEPT ![building[t]] = OID_LIST_LENGTH]
  /\ Continue(t, "built")
  /\ UNCHANGED <<assigned, powerManagement>>

\* The constructor ends, and the table gets the pointer.
StoreAdapter(t) ==
  /\ Constructing(t, "built")
  /\ Allocate(t)
  /\ ptr'[t] = building[t]
  /\ building' = [building EXCEPT ![t] = NULL]
  /\ stage' = [stage EXCEPT ![t] = "none"]
  /\ UNCHANGED <<assigned, oidCount, powerManagement>>

StoreNull(t) ==
  /\ Constructing(t, "none")
  /\ AllocateFails(t)
  /\ UNCHANGED attributes

\* What Reboot leaves of all this.
AttributesReboot ==
  /\ assigned' = [a \in Addr |-> {}]
  /\ oidCount' = [a \in Addr |-> 0]
  /\ powerManagement' = {}
  /\ building' = [t \in Thread |-> NULL]
  /\ stage' = [t \in Thread |-> "none"]

ConstructorStep(t) ==
  \/ NewBlock(t)
  \/ InitializeRegistrationAttributes(t)
  \/ InitializeGeneralAttributes(t)
  \/ FillPowerManagement(t)
  \/ PublishPowerManagement(t)
  \/ CopySupportedOids(t)
  \/ StoreAdapter(t)
  \/ StoreNull(t)

=============================================================================
