---------------------------- MODULE KernelMocks ----------------------------
(***************************************************************************)
(* The kernel functions that the unit tests are linked with instead of     *)
(* NDIS: each stores its arguments, counts its calls and returns what a    *)
(* test has assigned to its result.  All of that is static data, which     *)
(* nothing resets between two tests.                                       *)
(*                                                                         *)
(* A mock is declared by one list of types and names, which the macros     *)
(* count and then take apart two at a time, by families of macros that     *)
(* exist for even counts up to sixteen.                                    *)
(***************************************************************************)
EXTENDS Sequences, Functions

CONSTANT NULL

VARIABLES
  arguments,  \* KernelMockData::<function>_Arguments
  result,     \* KernelMockData::<function>_Result
  callCount,  \* KernelMockData::<function>_CallCount
  passed      \* what the last call of each function really passed

mocks == <<arguments, result, callCount, passed>>

Declaration ==
  [NdisAllocateMemoryWithTagPriority |->
     <<"NDIS_HANDLE", "NdisHandle", "UINT", "Length", "ULONG", "Tag",
       "EX_POOL_PRIORITY", "Priority">>,
   NdisFreeMemoryWithTagPriority |->
     <<"NDIS_HANDLE", "NdisHandle", "void*", "VirtualAddress", "ULONG", "Tag">>,
   ExRaiseStatus |-> <<"NTSTATUS", "Status">>,
   NdisMSetMiniportAttributes |->
     <<"NDIS_HANDLE", "NDisMiniportAdapterHandle",
       "NDIS_MINIPORT_ADAPTER_ATTRIBUTES*", "MiniportAttributes">>,
   KeInitializeDpc |->
     <<"KDPC*", "Dpc", "void*", "DeferredRoutine", "void*", "DeferredContext">>]

KernelFunction == DOMAIN Declaration

\* The eighteenth argument of COUNT_ARGS_IMPL(0, args, 16, 15, ..., 0).
COUNT_ARGS(args) == (<<0>> \o args \o [i \in 1 .. 17 |-> 17 - i])[18]

(***************************************************************************)
(* The names in an argument list, as KERNEL_MOCK_ENUMERATE_ARGUMENTS,      *)
(* ..._LIST_... and ..._ASSIGN_... find them: the macro for n handles one  *)
(* pair and passes the rest to the macro for n - 2.                        *)
(***************************************************************************)
Names(args) == [i \in 1 .. COUNT_ARGS(args) \div 2 |-> args[2 * i]]

Parameters(f) == Names(Declaration[f])

\* The members of <function>_ArgumentData.
Members(f) == Range(Parameters(f))

\* Mutant: the macro for the last pair assigns nothing.
AssignArgumentsButLast(f, actuals) ==
  [n \in Members(f) |->
     LET i == CHOOSE i \in DOMAIN Parameters(f) : Parameters(f)[i] = n
     IN  IF i = Len(actuals) THEN arguments[f][n] ELSE actuals[i]]

(***************************************************************************)
(* One assignment for each name: the structure's member from the parameter *)
(* that is called the same.                                                *)
(***************************************************************************)
AssignArguments(f, actuals) ==
  [n \in Members(f) |->
     actuals[CHOOSE i \in DOMAIN Parameters(f) : Parameters(f)[i] = n]]

\* Mutant: the call is counted when it begins and when it ends.
MockCallCountedTwice(f, actuals) ==
  /\ arguments' = [arguments EXCEPT ![f] = AssignArguments(f, actuals)]
  /\ callCount' = [callCount EXCEPT ![f] = @ + 2]
  /\ passed' = [passed EXCEPT ![f] = actuals]
  /\ UNCHANGED result

\* The body of a mock whose implementation block is empty.
MockCall(f, actuals) ==
  /\ arguments' = [arguments EXCEPT ![f] = AssignArguments(f, actuals)]
  /\ callCount' = [callCount EXCEPT ![f] = @ + 1]
  /\ passed' = [passed EXCEPT ![f] = actuals]
  /\ UNCHANGED result

\* Statics start as zeroes, and value() makes a null pointer.
MocksInit ==
  /\ arguments = [f \in KernelFunction |-> [n \in Members(f) |-> NULL]]
  /\ result = [f \in KernelFunction |-> NULL]
  /\ callCount = [f \in KernelFunction |-> 0]
  /\ passed = [f \in KernelFunction |-> <<>>]

=============================================================================
