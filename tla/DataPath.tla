------------------------------ MODULE DataPath ------------------------------
(***************************************************************************)
(* The two net buffer list callbacks.  NDIS calls them on any processor,   *)
(* several at a time, while the PnP callbacks run: a send begins on a      *)
(* running device and may still be inside the driver when the device       *)
(* pauses.                                                                 *)
(*                                                                         *)
(* A net buffer list stands for a whole chain of them.  What a call passes *)
(* is captured in request when NDIS makes it; the body runs later, and a   *)
(* processor that completes a chain is still in the driver when NDIS has   *)
(* the chain back and may send it again.  The adapter's own functions have *)
(* empty bodies and do not look at this.                                   *)
(***************************************************************************)
EXTENDS Miniport, Integers

CONSTANTS
  Cpu,    \* the processors on which NDIS calls the data path
  List    \* the net buffer lists that NDIS has

ASSUME ListAssumption == NULL \notin List

VARIABLES
  call,       \* the callback that each processor is in
  request,    \* the arguments of that call, and the device it is for
  balance,    \* how often each list was sent, less how often completed
  sentTo      \* the device that holds each list, or NULL

dataPath == <<call, request, balance, sentTo>>

NoRequest == [device |-> NULL, context |-> NULL, list |-> NULL]

Request == [device  : IfIndex \union {NULL},
            context : Addr \union {NULL},
            list    : List \union {NULL}]

DataPathTypeOK ==
  /\ call \in [Cpu -> {"none", "send", "complete", "return"}]
  /\ request \in [Cpu -> Request]
  /\ balance \in [List -> {0, 1}]
  /\ sentTo \in [List -> IfIndex \union {NULL}]

DataPathInit ==
  /\ call = [c \in Cpu |-> "none"]
  /\ request = [c \in Cpu |-> NoRequest]
  /\ balance = [l \in List |-> 0]
  /\ sentTo = [l \in List |-> NULL]

\* A processor is inside the driver, for device d or for any.
InDriverFor(d) == \E c \in Cpu : call[c] # "none" /\ request[c].device = d

NoDataCalls == \A c \in Cpu : call[c] = "none"

-----------------------------------------------------------------------------
(***************************************************************************)
(* NDIS makes a call: with the context of the device, or with none, a case *)
(* that the callbacks provide for.                                         *)
(***************************************************************************)
Enter(c, d, f, l) ==
  /\ image = "loaded"
  /\ call[c] = "none"
  /\ call' = [call EXCEPT ![c] = f]
  /\ \E a \in {context[d], NULL} :
       request' = [request EXCEPT ![c] = [device |-> d, context |-> a,
                                          list |-> l]]
  /\ UNCHANGED vars

SendCalled(c, d) ==
  /\ phase[d] = "running"
  /\ \/ \E l \in List :
          /\ balance[l] = 0
          /\ Enter(c, d, "send", l)
          /\ balance' = [balance EXCEPT ![l] = @ + 1]
          /\ sentTo' = [sentTo EXCEPT ![l] = d]
     \/ Enter(c, d, "send", NULL) /\ UNCHANGED <<balance, sentTo>>

ReturnCalled(c, d) ==
  /\ phase[d] \in {"running", "paused"}
  /\ \E l \in List \union {NULL} : Enter(c, d, "return", l)
  /\ UNCHANGED <<balance, sentTo>>

-----------------------------------------------------------------------------
InCall(c, f) == call[c] = f /\ image # "bugcheck"

Leave(c) ==
  /\ call' = [call EXCEPT ![c] = "none"]
  /\ request' = [request EXCEPT ![c] = NoRequest]

\* activeContext->miniportDriverHandle can be read.
ActiveContextReadable ==
  activeContext \in Addr /\ pool[activeContext] = "miniport"

\* NdisMSendNetBufferListsComplete on the chain l, given to NDIS as it is:
\* a chain without lists too.
SendComplete(c, l, times) ==
  /\ balance' = [m \in List |-> IF m = l THEN balance[m] - times
                                         ELSE balance[m]]
  /\ sentTo' = [m \in List |-> IF m = l THEN NULL ELSE sentTo[m]]
  /\ call' = [call EXCEPT ![c] = "complete"]
  /\ UNCHANGED request

\* Mutant: the list is completed where it is marked as failed, and again.
RefuseSendTwice(c) ==
  /\ InCall(c, "send")
  /\ request[c].context = NULL
  /\ SendComplete(c, request[c].list, 2)
  /\ UNCHANGED vars

\* Mutant: the call returns before it completes the list.
RefuseSendSilently(c) ==
  /\ InCall(c, "send")
  /\ request[c].context = NULL
  /\ Leave(c)
  /\ UNCHANGED <<vars, balance, sentTo>>

\* Mutant: no return after the completion, so that the call goes on with a
\* list that NDIS may send again on another processor.
RefuseSendGoesOn(c) ==
  /\ InCall(c, "send")
  /\ request[c].context = NULL
  /\ balance' = [m \in List |-> IF m = request[c].list THEN balance[m] - 1
                                                       ELSE balance[m]]
  /\ UNCHANGED <<vars, call, request, sentTo>>

\* No context: the chain goes back at once, under the active driver handle,
\* before anything asks whether there is one.
RefuseSend(c) ==
  /\ InCall(c, "send")
  /\ request[c].context = NULL
  /\ IF ActiveContextReadable
     THEN SendComplete(c, request[c].list, 1) /\ UNCHANGED vars
     ELSE Bugcheck(Misuse(activeContext)) /\ UNCHANGED dataPath

\* The completion returns, and then the callback.
RefusedSendReturns(c) ==
  /\ InCall(c, "complete")
  /\ Leave(c)
  /\ UNCHANGED <<vars, balance, sentTo>>

IgnoreEmptySend(c) ==
  /\ InCall(c, "send")
  /\ request[c].context # NULL
  /\ request[c].list = NULL
  /\ Leave(c)
  /\ UNCHANGED <<vars, balance, sentTo>>

\* AX25Adapter::SendNetBufferLists keeps nothing of the list.
SendNetBufferLists(c) ==
  /\ InCall(c, "send")
  /\ request[c].context # NULL
  /\ request[c].list # NULL
  /\ Leave(c)
  /\ UNCHANGED <<vars, balance, sentTo>>

\* No context: the loss is logged, under the active driver handle.
RefuseReturn(c) ==
  /\ InCall(c, "return")
  /\ request[c].context = NULL
  /\ IF ActiveContextReadable
     THEN Leave(c) /\ UNCHANGED <<vars, balance, sentTo>>
     ELSE Bugcheck(Misuse(activeContext)) /\ UNCHANGED dataPath

IgnoreEmptyReturn(c) ==
  /\ InCall(c, "return")
  /\ request[c].context # NULL
  /\ request[c].list = NULL
  /\ Leave(c)
  /\ UNCHANGED <<vars, balance, sentTo>>

ReturnNetBufferLists(c) ==
  /\ InCall(c, "return")
  /\ request[c].context # NULL
  /\ request[c].list # NULL
  /\ Leave(c)
  /\ UNCHANGED <<vars, balance, sentTo>>

\* What Reboot leaves of all this: NDIS has its lists back.
DataPathReboot ==
  /\ call' = [c \in Cpu |-> "none"]
  /\ request' = [c \in Cpu |-> NoRequest]
  /\ balance' = [l \in List |-> 0]
  /\ sentTo' = [l \in List |-> NULL]

DataStep(c) ==
  \/ RefuseSend(c) \/ RefusedSendReturns(c)
  \/ IgnoreEmptySend(c) \/ SendNetBufferLists(c)
  \/ RefuseReturn(c) \/ IgnoreEmptyReturn(c) \/ ReturnNetBufferLists(c)

=============================================================================
