----------------------------- MODULE UnitTests -----------------------------
(***************************************************************************)
(* The unit tests of AX25Adapter and Miniport, run by Google Test in one   *)
(* process: in any order (--gtest_shuffle), any selection (--gtest_filter) *)
(* and repeatedly (--gtest_repeat).                                        *)
(*                                                                         *)
(* One fixture's memory is allocated at a time, so a block is allocated    *)
(* while it is the fixture's.  What a write to a freed block leads to is   *)
(* undefined: it may be kept, be overwritten by the heap, or fault, which  *)
(* Google Test reports as a failure of the test.                           *)
(***************************************************************************)
EXTENDS KernelMocks

CONSTANTS
  Block,     \* blocks that malloc can return
  MaxTests   \* bound on the tests that one process runs

ASSUME MaxTestsAssumption == MaxTests \in Nat
ASSUME BlockAssumption == NULL \notin Block

\* The handle that the tests pass is no null pointer.
DRIVER_HANDLE == "DRIVER_HANDLE"

ASSUME HandleAssumption == NULL # DRIVER_HANDLE

VARIABLES
  test,           \* the test that runs
  pc,             \* its next statement
  memory,         \* the fixture's memory
  ptr,            \* the test's pointer to the adapter
  handleAt,       \* the driverHandle of the adapter in each block
  activeContext,  \* Miniport::activeContext
  destroyed,      \* calls of the mock adapter's Destroy()
  failed,         \* tests that have failed
  misused,        \* tests that have used memory that was freed
  ran             \* tests started so far

locals == <<test, pc, memory, ptr, handleAt, activeContext, destroyed>>
verdicts == <<failed, misused, ran>>
vars == <<mocks, locals, verdicts>>

Fixture == {"InvalidAllocations", "ValidAllocations", "DeleteNullptr",
            "ValidDeallocation"}

Test == Fixture \union {"DestroyOnHalt"}

TypeOK ==
  /\ DOMAIN arguments = KernelFunction
  /\ \A f \in KernelFunction : DOMAIN arguments[f] = Members(f)
  /\ result \in [KernelFunction -> Block \union {NULL}]
  /\ callCount \in [KernelFunction -> 0 .. MaxTests]
  /\ DOMAIN passed = KernelFunction
  /\ test \in Test \union {"none"}
  /\ memory \in Block \union {NULL}
  /\ ptr \in Block \union {NULL}
  /\ handleAt \in [Block -> {DRIVER_HANDLE, "garbage", NULL}]
  /\ activeContext \in {"miniport", NULL}
  /\ destroyed \in 0 .. 1
  /\ failed \subseteq Test
  /\ misused \subseteq Test
  /\ ran \in 0 .. MaxTests

Init ==
  /\ MocksInit
  /\ test = "none" /\ pc = "none"
  /\ memory = NULL /\ ptr = NULL
  /\ handleAt = [b \in Block |-> "garbage"]
  /\ activeContext = NULL
  /\ destroyed = 0
  /\ failed = {} /\ misused = {} /\ ran = 0

-----------------------------------------------------------------------------
\* RUN_ALL_TESTS takes up the next test.
Start(t) ==
  /\ test = "none" /\ ran < MaxTests
  /\ test' = t /\ pc' = "begin"
  /\ ran' = ran + 1
  /\ ptr' = NULL /\ destroyed' = 0
  /\ UNCHANGED <<mocks, activeContext, failed, misused>>

\* The fixture's constructor: the memory is not initialised.
StartFixture ==
  /\ \E t \in Fixture : Start(t)
  /\ memory' \in Block
  /\ handleAt' = [handleAt EXCEPT ![memory'] = "garbage"]

StartMiniportTest == Start("DestroyOnHalt") /\ UNCHANGED <<memory, handleAt>>

\* The fixture's destructor frees the memory.
End ==
  /\ pc = "end"
  /\ test' = "none" /\ pc' = "none"
  /\ memory' = NULL
  /\ UNCHANGED <<mocks, ptr, handleAt, activeContext, destroyed, verdicts>>

In(t, l) == test = t /\ pc = l

Goto(l) == pc' = l /\ UNCHANGED <<test, memory, activeContext, destroyed>>

\* EXPECT_EQ and the like: the test goes on, but has failed.
Expect(condition) ==
  failed' = IF condition THEN failed ELSE failed \union {test}

\* The test uses the block b.
Uses(b) == misused' = IF b = memory THEN misused ELSE misused \union {test}

-----------------------------------------------------------------------------
(* AX25Adapter.                                                            *)

\* new(handle): AX25Adapter::operator new.
OperatorNew(handle) ==
  IF handle = NULL
  THEN ptr' = NULL /\ UNCHANGED mocks
  ELSE /\ MockCall("NdisAllocateMemoryWithTagPriority",
                   <<handle, "sizeof(AX25Adapter)", "AX25_ADAPTER_TAG",
                     "NormalPoolPriority">>)
       /\ ptr' = result["NdisAllocateMemoryWithTagPriority"]

\* What the constructor passes to KeInitializeDpc.
InitializeDpc(this) ==
  MockCall("KeInitializeDpc", <<this, "receiveDpcCallback", this>>)

New ==
  /\ In("ValidAllocations", "new") \/ In("ValidDeallocation", "begin")
  /\ OperatorNew(DRIVER_HANDLE)
  /\ Goto("construct")
  /\ UNCHANGED <<handleAt, verdicts>>

\* No constructor runs in what operator new did not return.
NotConstructed ==
  /\ pc = "construct" /\ ptr = NULL
  /\ Goto("constructed")
  /\ UNCHANGED <<mocks, ptr, handleAt, verdicts>>

\* Mutant: the constructor does not store the handle.
ConstructWithoutHandle ==
  /\ pc = "construct" /\ ptr # NULL
  /\ InitializeDpc(ptr)
  /\ Uses(ptr)
  /\ Goto("constructed")
  /\ UNCHANGED <<ptr, handleAt, failed, ran>>

Construct ==
  /\ pc = "construct" /\ ptr # NULL
  /\ InitializeDpc(ptr)
  /\ \E h \in IF ptr = memory THEN {DRIVER_HANDLE}
                              ELSE {DRIVER_HANDLE, "garbage", NULL} :
       handleAt' = [handleAt EXCEPT ![ptr] = h]
  /\ Uses(ptr)
  /\ Goto("constructed")
  /\ UNCHANGED <<ptr, failed, ran>>

\* The use of a freed block faults, in the constructor or in delete.
Faults ==
  /\ pc \in {"construct", "delete"} /\ ptr \notin {NULL, memory}
  /\ Uses(ptr)
  /\ Expect(FALSE)
  /\ Goto("end")
  /\ UNCHANGED <<mocks, ptr, handleAt, ran>>

-----------------------------------------------------------------------------
(* AX25AdapterTests.cpp.                                                   *)

InvalidAllocations ==
  /\ In("InvalidAllocations", "begin")
  /\ OperatorNew(NULL)
  /\ Expect(ptr' = NULL)
  /\ Goto("end")
  /\ UNCHANGED <<handleAt, misused, ran>>

\* Mutant: a result that an earlier test has assigned is kept.
ArrangeValidAllocationsOnce ==
  /\ In("ValidAllocations", "begin")
  /\ result' = [result EXCEPT !["NdisAllocateMemoryWithTagPriority"] =
                  IF @ = NULL THEN memory ELSE @]
  /\ Goto("new")
  /\ UNCHANGED <<arguments, callCount, passed, ptr, handleAt, verdicts>>

ArrangeValidAllocations ==
  /\ In("ValidAllocations", "begin")
  /\ result' = [result EXCEPT !["NdisAllocateMemoryWithTagPriority"] = memory]
  /\ Goto("new")
  /\ UNCHANGED <<arguments, callCount, passed, ptr, handleAt, verdicts>>

ExpectValidAllocations ==
  /\ In("ValidAllocations", "constructed")
  /\ LET seen == arguments["NdisAllocateMemoryWithTagPriority"]
     IN  Expect(/\ ptr = memory
                /\ seen.NdisHandle = DRIVER_HANDLE
                /\ seen.Length = "sizeof(AX25Adapter)"
                /\ seen.Priority = "NormalPoolPriority")
  /\ Goto("end")
  /\ UNCHANGED <<mocks, ptr, handleAt, misused, ran>>

\* delete of a null pointer does nothing.
DeleteNullptr ==
  /\ In("DeleteNullptr", "begin")
  /\ Goto("end")
  /\ UNCHANGED <<mocks, ptr, handleAt, verdicts>>

\* Mutant: the count is not reset.
ResetCallCountNot ==
  /\ In("ValidDeallocation", "constructed")
  /\ Goto("delete")
  /\ UNCHANGED <<mocks, ptr, handleAt, verdicts>>

ResetCallCount ==
  /\ In("ValidDeallocation", "constructed")
  /\ callCount' = [callCount EXCEPT !["NdisFreeMemoryWithTagPriority"] = 0]
  /\ Goto("delete")
  /\ UNCHANGED <<arguments, result, passed, ptr, handleAt, verdicts>>

\* AX25Adapter::operator delete takes the handle from the adapter, and frees
\* nothing when it finds none there.
Delete ==
  /\ In("ValidDeallocation", "delete")
  /\ IF ptr = NULL
     THEN UNCHANGED <<mocks, misused>>
     ELSE /\ Uses(ptr)
          /\ IF handleAt[ptr] = NULL
             THEN UNCHANGED mocks
             ELSE MockCall("NdisFreeMemoryWithTagPriority",
                           <<handleAt[ptr], ptr, "AX25_ADAPTER_TAG">>)
  /\ Goto("expect")
  /\ UNCHANGED <<ptr, handleAt, failed, ran>>

ExpectValidDeallocation ==
  /\ In("ValidDeallocation", "expect")
  /\ LET seen == arguments["NdisFreeMemoryWithTagPriority"]
     IN  Expect(/\ callCount["NdisFreeMemoryWithTagPriority"] = 1
                /\ seen.NdisHandle = DRIVER_HANDLE
                /\ seen.VirtualAddress = ptr)
  /\ Goto("end")
  /\ UNCHANGED <<mocks, ptr, handleAt, misused, ran>>

-----------------------------------------------------------------------------
(* MiniportTests.cpp, with the adapter of AX25AdapterMock.h.               *)

MockAdapter ==
  /\ In("DestroyOnHalt", "begin")
  /\ InitializeDpc("mockAdapter")
  /\ Goto("miniport")
  /\ UNCHANGED <<ptr, handleAt, verdicts>>

ConstructMiniport ==
  /\ In("DestroyOnHalt", "miniport")
  /\ activeContext' = "miniport"
  /\ pc' = "halt"
  /\ UNCHANGED <<mocks, test, memory, ptr, handleAt, destroyed, verdicts>>

\* miniportHaltExCallback calls Destroy(), which the mock only counts.
Halt ==
  /\ In("DestroyOnHalt", "halt")
  /\ destroyed' = destroyed + 1
  /\ pc' = "leave"
  /\ UNCHANGED <<mocks, test, memory, ptr, handleAt, activeContext, verdicts>>

\* Mutant: the destructor leaves activeContext.
LeaveScopeDangling ==
  /\ In("DestroyOnHalt", "leave")
  /\ Expect(destroyed = 1)
  /\ Goto("end")
  /\ UNCHANGED <<mocks, ptr, handleAt, misused, ran>>

\* ~Miniport, then the mock adapter verifies its expectation.
LeaveScope ==
  /\ In("DestroyOnHalt", "leave")
  /\ activeContext' = NULL
  /\ Expect(destroyed = 1)
  /\ pc' = "end"
  /\ UNCHANGED <<mocks, test, memory, ptr, handleAt, destroyed, misused, ran>>

-----------------------------------------------------------------------------
Next ==
  \/ StartFixture \/ StartMiniportTest \/ End
  \/ New \/ NotConstructed \/ Construct \/ Faults
  \/ InvalidAllocations
  \/ ArrangeValidAllocations \/ ExpectValidAllocations
  \/ DeleteNullptr
  \/ ResetCallCount \/ Delete \/ ExpectValidDeallocation
  \/ MockAdapter \/ ConstructMiniport \/ Halt \/ LeaveScope

Spec == Init /\ [][Next]_vars

-----------------------------------------------------------------------------
(* Properties.                                                             *)

(***************************************************************************)
(* After any sequence of tests and calls, what a mock has recorded is what *)
(* the last call passed: the macros pair each name with its own argument.  *)
(***************************************************************************)
ArgumentsRecorded ==
  \A f \in KernelFunction :
    passed[f] # <<>> =>
      \A i \in 1 .. Len(Declaration[f]) \div 2 :
        arguments[f][Declaration[f][2 * i]] = passed[f][i]

(***************************************************************************)
(* The statics that outlive a test decide the verdict of no other test     *)
(* than ValidDeallocation, which leaves it to an earlier ValidAllocations  *)
(* to arrange what operator new returns: when its adapter is in the        *)
(* fixture's memory it passes, whatever ran before.                        *)
(***************************************************************************)
FailsOnlyWithoutMemory ==
  [][failed' # failed => test = "ValidDeallocation" /\ ptr # memory]_vars

(***************************************************************************)
(* The only test that constructs or deletes an adapter in memory that an   *)
(* earlier fixture has freed is ValidDeallocation.                         *)
(***************************************************************************)
FreedMemoryUse == misused \subseteq {"ValidDeallocation"}

(***************************************************************************)
(* The assertion of the Miniport's constructor, that no Miniport is        *)
(* active, holds in every order and repetition of the tests.               *)
(***************************************************************************)
NoMiniportActive ==
  test = "DestroyOnHalt" /\ pc = "miniport" => activeContext = NULL

-----------------------------------------------------------------------------
(* The inductive invariant of the tests.                                   *)

\* The statements each test reaches.
Statements ==
  [none |-> {"none"},
   InvalidAllocations |-> {"begin", "end"},
   ValidAllocations |-> {"begin", "new", "construct", "constructed", "end"},
   DeleteNullptr |-> {"begin", "end"},
   ValidDeallocation |->
     {"begin", "construct", "constructed", "delete", "expect", "end"},
   DestroyOnHalt |-> {"begin", "miniport", "halt", "leave", "end"}]

AtStatement == test \in DOMAIN Statements /\ pc \in Statements[test]

\* Memory is the fixture's as long as its test runs.
FixtureMemory == IF test \in Fixture THEN memory \in Block ELSE memory = NULL

\* The functions that the running test may still call.
StillToCall ==
  {f \in KernelFunction :
     \/ pc \in {"begin", "new"}
     \/ f = "KeInitializeDpc" /\ pc = "construct"
     \/ f = "NdisFreeMemoryWithTagPriority"
          /\ pc \in {"construct", "constructed", "delete"}}

\* No test calls a function twice, and one that is still to be called has
\* been called by earlier tests only.
CallsCounted ==
  \A f \in KernelFunction :
    callCount[f] + (IF f \in StillToCall THEN 1 ELSE 0) <= ran

\* What ValidAllocations has arranged is what operator new returns to it.
OwnMemory ==
  test = "ValidAllocations" =>
    /\ pc = "new" => result["NdisAllocateMemoryWithTagPriority"] = memory
    /\ pc \in {"construct", "constructed"} =>
         /\ ptr = memory
         /\ passed["NdisAllocateMemoryWithTagPriority"] =
              <<DRIVER_HANDLE, "sizeof(AX25Adapter)", "AX25_ADAPTER_TAG",
                "NormalPoolPriority">>

\* An adapter in memory that is allocated keeps its handle until delete.
OwnAdapter ==
  test = "ValidDeallocation" =>
    /\ pc = "delete" => callCount["NdisFreeMemoryWithTagPriority"] = 0
    /\ ptr = memory /\ pc \in {"constructed", "delete"} =>
         handleAt[ptr] = DRIVER_HANDLE
    /\ ptr = memory /\ pc = "expect" =>
         /\ callCount["NdisFreeMemoryWithTagPriority"] = 1
         /\ passed["NdisFreeMemoryWithTagPriority"] =
              <<DRIVER_HANDLE, ptr, "AX25_ADAPTER_TAG">>

\* A Miniport is active from its constructor to its destructor, and halts
\* its adapter once.
OneMiniport ==
  /\ pc \notin {"halt", "leave"} => activeContext = NULL
  /\ pc \in {"begin", "miniport", "halt"} => destroyed = 0
  /\ pc = "leave" => destroyed = 1

(***************************************************************************)
(* What a test finds of the statics that earlier tests have left, and of   *)
(* what it has arranged itself, at each of its statements: the call        *)
(* counts, the result of the allocation, the handle in the adapter's       *)
(* memory, the arguments last recorded and the active Miniport.            *)
(***************************************************************************)
TestInv ==
  /\ AtStatement /\ FixtureMemory /\ CallsCounted
  /\ OwnMemory /\ OwnAdapter /\ OneMiniport

=============================================================================
