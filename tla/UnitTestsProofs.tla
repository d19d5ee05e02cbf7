-------------------------- MODULE UnitTestsProofs --------------------------
(***************************************************************************)
(* Proofs about the mocks and the unit tests, for any blocks that malloc   *)
(* can return and any number of tests in one process.                      *)
(***************************************************************************)
EXTENDS UnitTests, SequenceTheorems, TLAPS

-----------------------------------------------------------------------------
(* The macros.                                                             *)

(***************************************************************************)
(* COUNT_ARGS counts the arguments of every list of up to sixteen: the     *)
(* more arguments there are, the further the numbers move to the right.    *)
(***************************************************************************)
THEOREM ArgumentsCounted ==
  ASSUME NEW S, NEW args \in Seq(S), NEW n \in 0 .. 16, Len(args) = n
  PROVE  COUNT_ARGS(args) = n
<1> DEFINE numbers == [i \in 1 .. 17 |-> 17 - i]
           front == <<0>> \o args
<1>1. numbers \in Seq(Nat) /\ Len(numbers) = 17
  OBVIOUS
<1>2. front \in Seq(S \union {0}) /\ Len(front) = n + 1
  OBVIOUS
<1>3. (front \o numbers)[18] = numbers[17 - n]
  <2> HIDE DEF front, numbers
  <2>1. front \in Seq(S \union Nat) /\ numbers \in Seq(S \union Nat)
    BY <1>1, <1>2, SeqMonotonic
  <2>2. \A i \in 1 .. Len(front) + Len(numbers) :
          (front \o numbers)[i] =
            IF i <= Len(front) THEN front[i] ELSE numbers[i - Len(front)]
    BY <2>1, ConcatProperties
  <2>3. 18 \in 1 .. (n + 1) + 17 /\ ~(18 <= n + 1) /\ 18 - (n + 1) = 17 - n
    OBVIOUS
  <2>4. QED
    BY <1>1, <1>2, <2>2, <2>3
<1>4. numbers[17 - n] = n
  OBVIOUS
<1>5. QED
  BY <1>3, <1>4 DEF COUNT_ARGS

\* The names of an argument list are its even positions.
LEMMA EvenPositions ==
  ASSUME NEW f, NEW S, NEW n \in {1, 2, 3, 4},
         Declaration[f] \in Seq(S), Len(Declaration[f]) = 2 * n
  PROVE  Parameters(f) = [i \in 1 .. n |-> Declaration[f][2 * i]]
<1>1. 2 * n \in 0 .. 16 /\ (2 * n) \div 2 = n
  OBVIOUS
<1>2. COUNT_ARGS(Declaration[f]) \div 2 = n
  BY <1>1, ArgumentsCounted
<1>3. QED
  BY <1>2 DEF Parameters, Names

\* No two names of a declaration are the same.
LEMMA Declared ==
  ASSUME NEW f \in KernelFunction
  PROVE  \E n \in {1, 2, 3, 4} :
           /\ Parameters(f) = [i \in 1 .. n |-> Declaration[f][2 * i]]
           /\ Len(Declaration[f]) = 2 * n
           /\ \A i, j \in 1 .. n :
                Declaration[f][2 * i] = Declaration[f][2 * j] => i = j
<1> DEFINE d == Declaration[f]
<1>1. CASE f = "NdisAllocateMemoryWithTagPriority"
  <2>1. /\ d \in Seq({"NDIS_HANDLE", "NdisHandle", "UINT", "Length", "ULONG",
                      "Tag", "EX_POOL_PRIORITY", "Priority"})
        /\ Len(d) = 2 * 4
        /\ \A i, j \in 1 .. 4 : d[2 * i] = d[2 * j] => i = j
    BY <1>1 DEF Declaration
  <2>2. QED
    BY <2>1, EvenPositions
<1>2. CASE f = "NdisFreeMemoryWithTagPriority"
  <2>1. /\ d \in Seq({"NDIS_HANDLE", "NdisHandle", "void*",
                      "VirtualAddress", "ULONG", "Tag"})
        /\ Len(d) = 2 * 3
        /\ \A i, j \in 1 .. 3 : d[2 * i] = d[2 * j] => i = j
    BY <1>2 DEF Declaration
  <2>2. QED
    BY <2>1, EvenPositions
<1>3. CASE f = "ExRaiseStatus"
  <2>1. /\ d \in Seq({"NTSTATUS", "Status"})
        /\ Len(d) = 2 * 1
        /\ \A i, j \in 1 .. 1 : d[2 * i] = d[2 * j] => i = j
    BY <1>3 DEF Declaration
  <2>2. QED
    BY <2>1, EvenPositions
<1>4. CASE f = "NdisMSetMiniportAttributes"
  <2>1. /\ d \in Seq({"NDIS_HANDLE", "NDisMiniportAdapterHandle",
                      "NDIS_MINIPORT_ADAPTER_ATTRIBUTES*",
                      "MiniportAttributes"})
        /\ Len(d) = 2 * 2
        /\ \A i, j \in 1 .. 2 : d[2 * i] = d[2 * j] => i = j
    BY <1>4 DEF Declaration
  <2>2. QED
    BY <2>1, EvenPositions
<1>5. CASE f = "KeInitializeDpc"
  <2>1. /\ d \in Seq({"KDPC*", "Dpc", "void*", "DeferredRoutine",
                      "DeferredContext"})
        /\ Len(d) = 2 * 3
        /\ \A i, j \in 1 .. 3 : d[2 * i] = d[2 * j] => i = j
    BY <1>5 DEF Declaration
  <2>2. QED
    BY <2>1, EvenPositions
<1>6. QED
  BY <1>1, <1>2, <1>3, <1>4, <1>5 DEF KernelFunction, Declaration

(***************************************************************************)
(* Each member receives the argument that was passed at the place where    *)
(* its name is declared.                                                   *)
(***************************************************************************)
LEMMA MembersAssigned ==
  ASSUME NEW f \in KernelFunction, NEW actuals
  PROVE  /\ DOMAIN AssignArguments(f, actuals) = Members(f)
         /\ \A i \in 1 .. Len(Declaration[f]) \div 2 :
              AssignArguments(f, actuals)[Declaration[f][2 * i]] = actuals[i]
<1>1. DOMAIN AssignArguments(f, actuals) = Members(f)
  BY DEF AssignArguments
<1>2. ASSUME NEW i \in 1 .. Len(Declaration[f]) \div 2
      PROVE  AssignArguments(f, actuals)[Declaration[f][2 * i]] = actuals[i]
  <2>1. PICK n \in {1, 2, 3, 4} :
               /\ Parameters(f) = [j \in 1 .. n |-> Declaration[f][2 * j]]
               /\ Len(Declaration[f]) = 2 * n
               /\ \A j, k \in 1 .. n :
                    Declaration[f][2 * j] = Declaration[f][2 * k] => j = k
    BY Declared
  <2>2. Len(Declaration[f]) \div 2 = n
    BY <2>1
  <2>3. i \in DOMAIN Parameters(f) /\ Parameters(f)[i] = Declaration[f][2 * i]
    BY <2>1, <2>2
  <2>4. \A j \in DOMAIN Parameters(f) :
          Parameters(f)[j] = Declaration[f][2 * i] => j = i
    BY <2>1, <2>2
  <2>5. Declaration[f][2 * i] \in Members(f)
    BY <2>3 DEF Members, Range
  <2>6. (CHOOSE j \in DOMAIN Parameters(f) :
           Parameters(f)[j] = Declaration[f][2 * i]) = i
    BY <2>3, <2>4
  <2>7. QED
    BY <2>5, <2>6 DEF AssignArguments
<1>3. QED
  BY <1>1, <1>2

-----------------------------------------------------------------------------
(* The mocks.                                                              *)

LEMMA KernelFunctions ==
  KernelFunction = {"NdisAllocateMemoryWithTagPriority",
                    "NdisFreeMemoryWithTagPriority", "ExRaiseStatus",
                    "NdisMSetMiniportAttributes", "KeInitializeDpc"}
BY DEF KernelFunction, Declaration

\* What the mocks keep right, whatever calls them.
MocksOK ==
  /\ DOMAIN arguments = KernelFunction
  /\ \A f \in KernelFunction : DOMAIN arguments[f] = Members(f)
  /\ callCount \in [KernelFunction -> Nat]
  /\ DOMAIN passed = KernelFunction
  /\ ArgumentsRecorded

\* A call is recorded, counted once, and changes no other function's data.
LEMMA MockCallRecords ==
  ASSUME MocksOK, NEW f \in KernelFunction, NEW actuals, MockCall(f, actuals)
  PROVE  /\ MocksOK'
         /\ passed' = [passed EXCEPT ![f] = actuals]
         /\ callCount' = [callCount EXCEPT ![f] = @ + 1]
         /\ result' = result
<1> USE DEF MocksOK, MockCall
<1>1. \A g \in KernelFunction :
        /\ arguments'[g] =
             IF g = f THEN AssignArguments(f, actuals) ELSE arguments[g]
        /\ passed'[g] = IF g = f THEN actuals ELSE passed[g]
  OBVIOUS
<1>2. DOMAIN arguments' = KernelFunction /\ DOMAIN passed' = KernelFunction
  OBVIOUS
<1>3. \A g \in KernelFunction : DOMAIN arguments'[g] = Members(g)
  BY <1>1, MembersAssigned
<1>4. callCount' \in [KernelFunction -> Nat]
  OBVIOUS
<1>5. ArgumentsRecorded'
  <2>1. SUFFICES ASSUME NEW g \in KernelFunction, passed'[g] # <<>>,
                        NEW i \in 1 .. Len(Declaration[g]) \div 2
                 PROVE  arguments'[g][Declaration[g][2 * i]] = passed'[g][i]
    BY DEF ArgumentsRecorded
  <2>2. CASE g = f
    <3>1. AssignArguments(f, actuals)[Declaration[f][2 * i]] = actuals[i]
      BY <2>2, MembersAssigned
    <3>2. QED
      BY <1>1, <2>2, <3>1
  <2>3. CASE g # f
    BY <1>1, <2>1, <2>3 DEF ArgumentsRecorded
  <2>4. QED
    BY <2>2, <2>3
<1>6. QED
  BY <1>2, <1>3, <1>4, <1>5

LEMMA MocksFrame == MocksOK /\ UNCHANGED mocks => MocksOK'
BY DEF MocksOK, ArgumentsRecorded, mocks

-----------------------------------------------------------------------------
(* The tests.                                                              *)

UnitInv == TypeOK /\ ArgumentsRecorded /\ TestInv

LEMMA MocksAreOK == UnitInv => MocksOK
BY MaxTestsAssumption DEF UnitInv, TypeOK, MocksOK

\* The table of statements, row by row.
LEMMA StatementTable ==
  ASSUME NEW t, NEW l
  PROVE  (t \in DOMAIN Statements /\ l \in Statements[t]) <=>
           \/ t = "none" /\ l = "none"
           \/ t = "InvalidAllocations" /\ l \in {"begin", "end"}
           \/ /\ t = "ValidAllocations"
              /\ l \in {"begin", "new", "construct", "constructed", "end"}
           \/ t = "DeleteNullptr" /\ l \in {"begin", "end"}
           \/ /\ t = "ValidDeallocation"
              /\ l \in {"begin", "construct", "constructed", "delete",
                         "expect", "end"}
           \/ /\ t = "DestroyOnHalt"
              /\ l \in {"begin", "miniport", "halt", "leave", "end"}
<1>1. DOMAIN Statements =
        {"none", "InvalidAllocations", "ValidAllocations", "DeleteNullptr",
         "ValidDeallocation", "DestroyOnHalt"}
  BY DEF Statements
<1>2. /\ Statements["none"] = {"none"}
      /\ Statements["InvalidAllocations"] = {"begin", "end"}
      /\ Statements["ValidAllocations"] =
           {"begin", "new", "construct", "constructed", "end"}
      /\ Statements["DeleteNullptr"] = {"begin", "end"}
      /\ Statements["ValidDeallocation"] =
           {"begin", "construct", "constructed", "delete", "expect", "end"}
      /\ Statements["DestroyOnHalt"] =
           {"begin", "miniport", "halt", "leave", "end"}
  BY DEF Statements
<1>3. QED
  BY <1>1, <1>2

LEMMA InitUnit == Init => UnitInv
<1> SUFFICES ASSUME Init PROVE UnitInv
  OBVIOUS
<1> USE DEF Init, MocksInit
<1>1. TypeOK
  BY MaxTestsAssumption DEF TypeOK, Test
<1>2. ArgumentsRecorded
  BY DEF ArgumentsRecorded
<1>3. AtStatement
  BY StatementTable DEF AtStatement
<1>4. FixtureMemory /\ OwnMemory /\ OwnAdapter /\ OneMiniport
  BY DEF FixtureMemory, Fixture, OwnMemory, OwnAdapter, OneMiniport
<1>5. CallsCounted
  BY DEF CallsCounted, StillToCall
<1>6. QED
  BY <1>1, <1>2, <1>3, <1>4, <1>5 DEF UnitInv, TestInv

-----------------------------------------------------------------------------
(* One lemma for each statement of the runner and of the tests.            *)

\* Where a test is.
LEMMA Here ==
  AtStatement =>
    /\ pc = "construct" =>
         test \in {"ValidAllocations", "ValidDeallocation"}
    /\ pc = "delete" => test = "ValidDeallocation"
    /\ pc \in {"none", "begin", "new", "construct", "constructed", "delete",
               "expect", "miniport", "halt", "leave", "end"}
    /\ test \in Test \union {"none"}
    /\ test = "none" <=> pc = "none"
BY StatementTable DEF AtStatement, Test, Fixture

\* A count of calls is bounded by the number of tests.
LEMMA CountBounded ==
  ASSUME CallsCounted', ran' \in 0 .. MaxTests,
         callCount' \in [KernelFunction -> Nat]
  PROVE  callCount' \in [KernelFunction -> 0 .. MaxTests]
<1>1. ASSUME NEW f \in KernelFunction PROVE callCount'[f] \in 0 .. MaxTests
  <2>1. callCount'[f] + (IF f \in StillToCall' THEN 1 ELSE 0) <= ran'
    BY DEF CallsCounted
  <2>2. QED
    BY <2>1, MaxTestsAssumption
<1>2. QED
  BY <1>1

LEMMA StartFixtureStep == UnitInv /\ StartFixture => UnitInv'
<1> SUFFICES ASSUME UnitInv, StartFixture PROVE UnitInv'
  OBVIOUS
<1> USE DEF UnitInv, TestInv, Start, mocks
<1>1. TypeOK'
  <2>1. ran' \in 0 .. MaxTests
    BY MaxTestsAssumption DEF TypeOK, StartFixture
  <2>2. handleAt' \in [Block -> {DRIVER_HANDLE, "garbage", NULL}]
    BY DEF TypeOK, StartFixture
  <2>3. QED
    BY <2>1, <2>2 DEF TypeOK, Test, StartFixture
<1>2. ArgumentsRecorded'
  BY DEF ArgumentsRecorded, StartFixture
<1>3. AtStatement'
  BY StatementTable DEF AtStatement, Fixture, StartFixture
<1>4. FixtureMemory'
  BY DEF FixtureMemory, StartFixture
<1>5. CallsCounted'
  BY DEF CallsCounted, TypeOK, StartFixture
<1>6. OwnMemory'
  BY DEF OwnMemory, StartFixture
<1>7. OwnAdapter'
  BY DEF OwnAdapter, StartFixture
<1>8. OneMiniport'
  BY Here DEF OneMiniport, StartFixture
<1>9. QED
  BY <1>1, <1>2, <1>3, <1>4, <1>5, <1>6, <1>7, <1>8

LEMMA StartMiniportTestStep == UnitInv /\ StartMiniportTest => UnitInv'
<1> SUFFICES ASSUME UnitInv, StartMiniportTest PROVE UnitInv'
  OBVIOUS
<1> USE DEF UnitInv, TestInv, Start, mocks
<1>1. TypeOK'
  <2>1. ran' \in 0 .. MaxTests
    BY MaxTestsAssumption DEF TypeOK, StartMiniportTest
  <2>2. QED
    BY <2>1 DEF TypeOK, Test, StartMiniportTest
<1>2. ArgumentsRecorded'
  BY DEF ArgumentsRecorded, StartMiniportTest
<1>3. AtStatement'
  BY StatementTable DEF AtStatement, StartMiniportTest
<1>4. FixtureMemory'
  BY DEF FixtureMemory, Fixture, StartMiniportTest
<1>5. CallsCounted'
  BY DEF CallsCounted, TypeOK, StartMiniportTest
<1>6. OwnMemory'
  BY DEF OwnMemory, StartMiniportTest
<1>7. OwnAdapter'
  BY DEF OwnAdapter, StartMiniportTest
<1>8. OneMiniport'
  BY Here DEF OneMiniport, StartMiniportTest
<1>9. QED
  BY <1>1, <1>2, <1>3, <1>4, <1>5, <1>6, <1>7, <1>8

LEMMA EndStep == UnitInv /\ End => UnitInv'
<1> SUFFICES ASSUME UnitInv, End PROVE UnitInv'
  OBVIOUS
<1> USE DEF UnitInv, TestInv, mocks, verdicts
<1>1. TypeOK'
  BY DEF TypeOK, End
<1>2. ArgumentsRecorded'
  BY DEF ArgumentsRecorded, End
<1>3. AtStatement'
  BY StatementTable DEF AtStatement, End
<1>4. FixtureMemory'
  BY DEF FixtureMemory, Fixture, End
<1>5. CallsCounted'
  BY DEF CallsCounted, StillToCall, End
<1>6. OwnMemory'
  BY DEF OwnMemory, End
<1>7. OwnAdapter'
  BY DEF OwnAdapter, End
<1>8. OneMiniport'
  BY DEF OneMiniport, End
<1>9. QED
  BY <1>1, <1>2, <1>3, <1>4, <1>5, <1>6, <1>7, <1>8

LEMMA NotConstructedStep == UnitInv /\ NotConstructed => UnitInv'
<1> SUFFICES ASSUME UnitInv, NotConstructed PROVE UnitInv'
  OBVIOUS
<1> USE DEF UnitInv, TestInv, Goto, mocks, verdicts
<1>1. TypeOK'
  BY DEF TypeOK, NotConstructed
<1>2. ArgumentsRecorded'
  BY DEF ArgumentsRecorded, NotConstructed
<1>3. AtStatement'
  BY StatementTable DEF AtStatement, NotConstructed
<1>4. FixtureMemory'
  BY DEF FixtureMemory, NotConstructed
<1>5. CallsCounted'
  BY DEF CallsCounted, StillToCall, TypeOK, NotConstructed
<1>6. OwnMemory'
  BY DEF OwnMemory, NotConstructed
<1>7. OwnAdapter'
  BY BlockAssumption DEF OwnAdapter, FixtureMemory, Fixture, NotConstructed
<1>8. OneMiniport'
  BY DEF OneMiniport, NotConstructed
<1>9. QED
  BY <1>1, <1>2, <1>3, <1>4, <1>5, <1>6, <1>7, <1>8

LEMMA FaultsStep == UnitInv /\ Faults => UnitInv'
<1> SUFFICES ASSUME UnitInv, Faults PROVE UnitInv'
  OBVIOUS
<1> USE DEF UnitInv, TestInv, Goto, Expect, Uses, mocks
<1>1. TypeOK'
  BY Here DEF TypeOK, Faults
<1>2. ArgumentsRecorded'
  BY DEF ArgumentsRecorded, Faults
<1>3. AtStatement'
  BY StatementTable DEF AtStatement, Faults
<1>4. FixtureMemory'
  BY DEF FixtureMemory, Faults
<1>5. CallsCounted'
  BY DEF CallsCounted, StillToCall, TypeOK, Faults
<1>6. OwnMemory'
  BY DEF OwnMemory, Faults
<1>7. OwnAdapter'
  BY DEF OwnAdapter, Faults
<1>8. OneMiniport'
  BY DEF OneMiniport, Faults
<1>9. QED
  BY <1>1, <1>2, <1>3, <1>4, <1>5, <1>6, <1>7, <1>8

LEMMA ArrangeValidAllocationsStep ==
  UnitInv /\ ArrangeValidAllocations => UnitInv'
<1> SUFFICES ASSUME UnitInv, ArrangeValidAllocations PROVE UnitInv'
  OBVIOUS
<1> USE DEF UnitInv, TestInv, In, Goto, verdicts
<1>1. TypeOK'
  BY DEF TypeOK, ArrangeValidAllocations
<1>2. ArgumentsRecorded'
  BY DEF ArgumentsRecorded, ArrangeValidAllocations
<1>3. AtStatement'
  BY StatementTable DEF AtStatement, ArrangeValidAllocations
<1>4. FixtureMemory'
  BY DEF FixtureMemory, ArrangeValidAllocations
<1>5. CallsCounted'
  BY DEF CallsCounted, StillToCall, ArrangeValidAllocations
<1>6. OwnMemory'
  BY KernelFunctions DEF OwnMemory, TypeOK, ArrangeValidAllocations
<1>7. OwnAdapter'
  BY DEF OwnAdapter, ArrangeValidAllocations
<1>8. OneMiniport'
  BY DEF OneMiniport, ArrangeValidAllocations
<1>9. QED
  BY <1>1, <1>2, <1>3, <1>4, <1>5, <1>6, <1>7, <1>8

LEMMA ExpectValidAllocationsStep ==
  UnitInv /\ ExpectValidAllocations => UnitInv'
<1> SUFFICES ASSUME UnitInv, ExpectValidAllocations PROVE UnitInv'
  OBVIOUS
<1> USE DEF UnitInv, TestInv, In, Goto, Expect, mocks
<1>1. TypeOK'
  BY DEF TypeOK, ExpectValidAllocations
<1>2. ArgumentsRecorded'
  BY DEF ArgumentsRecorded, ExpectValidAllocations
<1>3. AtStatement'
  BY StatementTable DEF AtStatement, ExpectValidAllocations
<1>4. FixtureMemory'
  BY DEF FixtureMemory, ExpectValidAllocations
<1>5. CallsCounted'
  BY DEF CallsCounted, StillToCall, TypeOK, ExpectValidAllocations
<1>6. OwnMemory'
  BY DEF OwnMemory, ExpectValidAllocations
<1>7. OwnAdapter'
  BY DEF OwnAdapter, ExpectValidAllocations
<1>8. OneMiniport'
  BY DEF OneMiniport, ExpectValidAllocations
<1>9. QED
  BY <1>1, <1>2, <1>3, <1>4, <1>5, <1>6, <1>7, <1>8

LEMMA DeleteNullptrStep == UnitInv /\ DeleteNullptr => UnitInv'
<1> SUFFICES ASSUME UnitInv, DeleteNullptr PROVE UnitInv'
  OBVIOUS
<1> USE DEF UnitInv, TestInv, In, Goto, mocks, verdicts
<1>1. TypeOK'
  BY DEF TypeOK, DeleteNullptr
<1>2. ArgumentsRecorded'
  BY DEF ArgumentsRecorded, DeleteNullptr
<1>3. AtStatement'
  BY StatementTable DEF AtStatement, DeleteNullptr
<1>4. FixtureMemory'
  BY DEF FixtureMemory, DeleteNullptr
<1>5. CallsCounted'
  BY DEF CallsCounted, StillToCall, TypeOK, DeleteNullptr
<1>6. OwnMemory'
  BY DEF OwnMemory, DeleteNullptr
<1>7. OwnAdapter'
  BY DEF OwnAdapter, DeleteNullptr
<1>8. OneMiniport'
  BY DEF OneMiniport, DeleteNullptr
<1>9. QED
  BY <1>1, <1>2, <1>3, <1>4, <1>5, <1>6, <1>7, <1>8

LEMMA ResetCallCountStep == UnitInv /\ ResetCallCount => UnitInv'
<1> SUFFICES ASSUME UnitInv, ResetCallCount PROVE UnitInv'
  OBVIOUS
<1> USE DEF UnitInv, TestInv, In, Goto, verdicts
<1>1. TypeOK'
  <2>1. 0 \in 0 .. MaxTests
    BY MaxTestsAssumption
  <2>2. QED
    BY <2>1 DEF TypeOK, ResetCallCount
<1>2. ArgumentsRecorded'
  BY DEF ArgumentsRecorded, ResetCallCount
<1>3. AtStatement'
  BY StatementTable DEF AtStatement, ResetCallCount
<1>4. FixtureMemory'
  BY DEF FixtureMemory, ResetCallCount
<1>5. CallsCounted'
  BY DEF CallsCounted, StillToCall, TypeOK, ResetCallCount
<1>6. OwnMemory'
  BY DEF OwnMemory, ResetCallCount
<1>7. OwnAdapter'
  BY KernelFunctions DEF OwnAdapter, TypeOK, ResetCallCount
<1>8. OneMiniport'
  BY DEF OneMiniport, ResetCallCount
<1>9. QED
  BY <1>1, <1>2, <1>3, <1>4, <1>5, <1>6, <1>7, <1>8

LEMMA ExpectValidDeallocationStep ==
  UnitInv /\ ExpectValidDeallocation => UnitInv'
<1> SUFFICES ASSUME UnitInv, ExpectValidDeallocation PROVE UnitInv'
  OBVIOUS
<1> USE DEF UnitInv, TestInv, In, Goto, Expect, mocks
<1>1. TypeOK'
  BY DEF TypeOK, ExpectValidDeallocation
<1>2. ArgumentsRecorded'
  BY DEF ArgumentsRecorded, ExpectValidDeallocation
<1>3. AtStatement'
  BY StatementTable DEF AtStatement, ExpectValidDeallocation
<1>4. FixtureMemory'
  BY DEF FixtureMemory, ExpectValidDeallocation
<1>5. CallsCounted'
  BY DEF CallsCounted, StillToCall, ExpectValidDeallocation
<1>6. OwnMemory'
  BY DEF OwnMemory, ExpectValidDeallocation
<1>7. OwnAdapter'
  BY DEF OwnAdapter, ExpectValidDeallocation
<1>8. OneMiniport'
  BY DEF OneMiniport, ExpectValidDeallocation
<1>9. QED
  BY <1>1, <1>2, <1>3, <1>4, <1>5, <1>6, <1>7, <1>8

LEMMA ConstructMiniportStep == UnitInv /\ ConstructMiniport => UnitInv'
<1> SUFFICES ASSUME UnitInv, ConstructMiniport PROVE UnitInv'
  OBVIOUS
<1> USE DEF UnitInv, TestInv, In, mocks, verdicts
<1>1. TypeOK'
  BY DEF TypeOK, ConstructMiniport
<1>2. ArgumentsRecorded'
  BY DEF ArgumentsRecorded, ConstructMiniport
<1>3. AtStatement'
  BY StatementTable DEF AtStatement, ConstructMiniport
<1>4. FixtureMemory'
  BY DEF FixtureMemory, ConstructMiniport
<1>5. CallsCounted'
  BY DEF CallsCounted, StillToCall, ConstructMiniport
<1>6. OwnMemory'
  BY DEF OwnMemory, ConstructMiniport
<1>7. OwnAdapter'
  BY DEF OwnAdapter, ConstructMiniport
<1>8. OneMiniport'
  BY DEF OneMiniport, ConstructMiniport
<1>9. QED
  BY <1>1, <1>2, <1>3, <1>4, <1>5, <1>6, <1>7, <1>8

LEMMA HaltStep == UnitInv /\ Halt => UnitInv'
<1> SUFFICES ASSUME UnitInv, Halt PROVE UnitInv'
  OBVIOUS
<1> USE DEF UnitInv, TestInv, In, mocks, verdicts
<1>1. TypeOK'
  BY DEF TypeOK, OneMiniport, Halt
<1>2. ArgumentsRecorded'
  BY DEF ArgumentsRecorded, Halt
<1>3. AtStatement'
  BY StatementTable DEF AtStatement, Halt
<1>4. FixtureMemory'
  BY DEF FixtureMemory, Halt
<1>5. CallsCounted'
  BY DEF CallsCounted, StillToCall, Halt
<1>6. OwnMemory'
  BY DEF OwnMemory, Halt
<1>7. OwnAdapter'
  BY DEF OwnAdapter, Halt
<1>8. OneMiniport'
  BY DEF OneMiniport, Halt
<1>9. QED
  BY <1>1, <1>2, <1>3, <1>4, <1>5, <1>6, <1>7, <1>8

LEMMA LeaveScopeStep == UnitInv /\ LeaveScope => UnitInv'
<1> SUFFICES ASSUME UnitInv, LeaveScope PROVE UnitInv'
  OBVIOUS
<1> USE DEF UnitInv, TestInv, In, Expect, mocks
<1>1. TypeOK'
  BY DEF TypeOK, LeaveScope
<1>2. ArgumentsRecorded'
  BY DEF ArgumentsRecorded, LeaveScope
<1>3. AtStatement'
  BY StatementTable DEF AtStatement, LeaveScope
<1>4. FixtureMemory'
  BY DEF FixtureMemory, LeaveScope
<1>5. CallsCounted'
  BY DEF CallsCounted, StillToCall, LeaveScope
<1>6. OwnMemory'
  BY DEF OwnMemory, LeaveScope
<1>7. OwnAdapter'
  BY DEF OwnAdapter, LeaveScope
<1>8. OneMiniport'
  BY DEF OneMiniport, LeaveScope
<1>9. QED
  BY <1>1, <1>2, <1>3, <1>4, <1>5, <1>6, <1>7, <1>8

LEMMA NewStep == UnitInv /\ New => UnitInv'
<1> SUFFICES ASSUME UnitInv, New PROVE UnitInv'
  OBVIOUS
<1> DEFINE request == <<DRIVER_HANDLE, "sizeof(AX25Adapter)",
                        "AX25_ADAPTER_TAG", "NormalPoolPriority">>
<1> USE DEF UnitInv, TestInv, In, Goto, verdicts
<1>1. /\ MockCall("NdisAllocateMemoryWithTagPriority", request)
      /\ ptr' = result["NdisAllocateMemoryWithTagPriority"]
  BY HandleAssumption DEF New, OperatorNew
<1>2. /\ MocksOK'
      /\ passed' = [passed EXCEPT !["NdisAllocateMemoryWithTagPriority"] =
                      request]
      /\ callCount' =
           [callCount EXCEPT !["NdisAllocateMemoryWithTagPriority"] = @ + 1]
      /\ result' = result
  BY <1>1, KernelFunctions, MockCallRecords, MocksAreOK
<1>3. CallsCounted'
  BY <1>2 DEF CallsCounted, StillToCall, TypeOK, New
<1>4. TypeOK'
  <2>1. callCount' \in [KernelFunction -> 0 .. MaxTests]
    BY <1>2, <1>3, CountBounded DEF MocksOK, TypeOK, New
  <2>2. QED
    BY <1>1, <1>2, <2>1 DEF TypeOK, MocksOK, New
<1>5. AtStatement'
  BY StatementTable DEF AtStatement, New
<1>6. FixtureMemory'
  BY DEF FixtureMemory, New
<1>7. OwnMemory'
  BY <1>1, <1>2 DEF OwnMemory, MocksOK, New
<1>8. OwnAdapter'
  BY DEF OwnAdapter, New
<1>9. OneMiniport'
  BY DEF OneMiniport, New
<1>10. QED
  BY <1>2, <1>3, <1>4, <1>5, <1>6, <1>7, <1>8, <1>9 DEF MocksOK

LEMMA ConstructStep == UnitInv /\ Construct => UnitInv'
<1> SUFFICES ASSUME UnitInv, Construct PROVE UnitInv'
  OBVIOUS
<1> USE DEF UnitInv, TestInv, In, Goto, verdicts
<1>1. MockCall("KeInitializeDpc", <<ptr, "receiveDpcCallback", ptr>>)
  BY DEF Construct, InitializeDpc
<1>2. /\ MocksOK'
      /\ passed' = [passed EXCEPT !["KeInitializeDpc"] =
                      <<ptr, "receiveDpcCallback", ptr>>]
      /\ callCount' = [callCount EXCEPT !["KeInitializeDpc"] = @ + 1]
      /\ result' = result
  BY <1>1, KernelFunctions, MockCallRecords, MocksAreOK
<1>3. CallsCounted'
  BY <1>2 DEF CallsCounted, StillToCall, TypeOK, Construct
<1>4. TypeOK'
  <2>1. callCount' \in [KernelFunction -> 0 .. MaxTests]
    BY <1>2, <1>3, CountBounded DEF MocksOK, TypeOK, Construct
  <2>2. QED
    BY <1>2, <2>1, Here DEF TypeOK, MocksOK, Uses, Construct
<1>5. AtStatement'
  BY StatementTable DEF AtStatement, Construct
<1>6. FixtureMemory'
  BY DEF FixtureMemory, Construct
<1>7. OwnMemory'
  BY <1>2 DEF OwnMemory, Construct
<1>8. OwnAdapter'
  BY <1>2 DEF OwnAdapter, TypeOK, Construct
<1>9. OneMiniport'
  BY DEF OneMiniport, Construct
<1>10. QED
  BY <1>2, <1>3, <1>4, <1>5, <1>6, <1>7, <1>8, <1>9 DEF MocksOK

LEMMA MockAdapterStep == UnitInv /\ MockAdapter => UnitInv'
<1> SUFFICES ASSUME UnitInv, MockAdapter PROVE UnitInv'
  OBVIOUS
<1> USE DEF UnitInv, TestInv, In, Goto, verdicts
<1>1. MockCall("KeInitializeDpc",
               <<"mockAdapter", "receiveDpcCallback", "mockAdapter">>)
  BY DEF MockAdapter, InitializeDpc
<1>2. /\ MocksOK'
      /\ passed' = [passed EXCEPT !["KeInitializeDpc"] =
                      <<"mockAdapter", "receiveDpcCallback", "mockAdapter">>]
      /\ callCount' = [callCount EXCEPT !["KeInitializeDpc"] = @ + 1]
      /\ result' = result
  BY <1>1, KernelFunctions, MockCallRecords, MocksAreOK
<1>3. CallsCounted'
  BY <1>2 DEF CallsCounted, StillToCall, TypeOK, MockAdapter
<1>4. TypeOK'
  <2>1. callCount' \in [KernelFunction -> 0 .. MaxTests]
    BY <1>2, <1>3, CountBounded DEF MocksOK, TypeOK, MockAdapter
  <2>2. QED
    BY <1>2, <2>1 DEF TypeOK, MocksOK, MockAdapter
<1>5. AtStatement'
  BY StatementTable DEF AtStatement, MockAdapter
<1>6. FixtureMemory'
  BY DEF FixtureMemory, MockAdapter
<1>7. OwnMemory'
  BY <1>2 DEF OwnMemory, MockAdapter
<1>8. OwnAdapter'
  BY <1>2 DEF OwnAdapter, MockAdapter
<1>9. OneMiniport'
  BY DEF OneMiniport, MockAdapter
<1>10. QED
  BY <1>2, <1>3, <1>4, <1>5, <1>6, <1>7, <1>8, <1>9 DEF MocksOK

LEMMA InvalidAllocationsStep == UnitInv /\ InvalidAllocations => UnitInv'
<1> SUFFICES ASSUME UnitInv, InvalidAllocations PROVE UnitInv'
  OBVIOUS
<1> USE DEF UnitInv, TestInv, In, Goto, mocks, OperatorNew
<1>1. TypeOK'
  BY DEF TypeOK, Expect, InvalidAllocations
<1>2. ArgumentsRecorded'
  BY DEF ArgumentsRecorded, InvalidAllocations
<1>3. AtStatement'
  BY StatementTable DEF AtStatement, InvalidAllocations
<1>4. FixtureMemory'
  BY DEF FixtureMemory, InvalidAllocations
<1>5. CallsCounted'
  BY DEF CallsCounted, StillToCall, TypeOK, InvalidAllocations
<1>6. OwnMemory' /\ OwnAdapter'
  BY DEF OwnMemory, OwnAdapter, InvalidAllocations
<1>7. OneMiniport'
  BY DEF OneMiniport, InvalidAllocations
<1>8. QED
  BY <1>1, <1>2, <1>3, <1>4, <1>5, <1>6, <1>7

LEMMA DeleteStep == UnitInv /\ Delete => UnitInv'
<1> SUFFICES ASSUME UnitInv, Delete PROVE UnitInv'
  OBVIOUS
<1> DEFINE deletion == <<handleAt[ptr], ptr, "AX25_ADAPTER_TAG">>
<1> USE DEF UnitInv, TestInv, In, Goto
<1>1. CASE ptr = NULL \/ handleAt[ptr] = NULL
  <2> USE <1>1 DEF mocks
  <2>0. UNCHANGED mocks /\ misused' \subseteq Test
    BY Here DEF TypeOK, Uses, Delete
  <2>1. TypeOK'
    BY <2>0 DEF TypeOK, Delete
  <2>2. ArgumentsRecorded'
    BY <2>0 DEF ArgumentsRecorded
  <2>3. AtStatement'
    BY StatementTable DEF AtStatement, Delete
  <2>4. FixtureMemory'
    BY DEF FixtureMemory, Delete
  <2>5. CallsCounted'
    BY <2>0 DEF CallsCounted, StillToCall, TypeOK, Delete
  <2>6. OwnMemory' /\ OwnAdapter'
    BY BlockAssumption, HandleAssumption
    DEF OwnMemory, OwnAdapter, FixtureMemory, Fixture, Delete
  <2>7. OneMiniport'
    BY DEF OneMiniport, Delete
  <2>8. QED
    BY <2>1, <2>2, <2>3, <2>4, <2>5, <2>6, <2>7
<1>2. CASE ptr # NULL /\ handleAt[ptr] # NULL
  <2>1. MockCall("NdisFreeMemoryWithTagPriority", deletion)
    BY <1>2 DEF Delete
  <2>2. /\ MocksOK'
        /\ passed' = [passed EXCEPT !["NdisFreeMemoryWithTagPriority"] =
                        deletion]
        /\ callCount' =
             [callCount EXCEPT !["NdisFreeMemoryWithTagPriority"] = @ + 1]
        /\ result' = result
    BY <2>1, KernelFunctions, MockCallRecords, MocksAreOK
  <2>3. CallsCounted'
    BY <2>2 DEF CallsCounted, StillToCall, TypeOK, Delete
  <2>4. TypeOK'
    <3>1. callCount' \in [KernelFunction -> 0 .. MaxTests]
      BY <2>2, <2>3, CountBounded DEF MocksOK, TypeOK, Delete
    <3>2. QED
      BY <1>2, <2>2, <3>1 DEF TypeOK, MocksOK, Uses, Delete
  <2>5. AtStatement'
    BY StatementTable DEF AtStatement, Delete
  <2>6. FixtureMemory'
    BY DEF FixtureMemory, Delete
  <2>7. OwnMemory'
    BY DEF OwnMemory, Delete
  <2>8. OwnAdapter'
    BY <2>2 DEF OwnAdapter, MocksOK, Delete
  <2>9. OneMiniport'
    BY DEF OneMiniport, Delete
  <2>10. QED
    BY <2>2, <2>3, <2>4, <2>5, <2>6, <2>7, <2>8, <2>9 DEF MocksOK
<1>3. QED
  BY <1>1, <1>2

LEMMA UnitStep == UnitInv /\ [Next]_vars => UnitInv'
<1> SUFFICES ASSUME UnitInv, [Next]_vars PROVE UnitInv'
  OBVIOUS
<1>1. CASE Next
  BY <1>1, StartFixtureStep, StartMiniportTestStep, EndStep, NewStep,
     NotConstructedStep, ConstructStep, FaultsStep, InvalidAllocationsStep,
     ArrangeValidAllocationsStep, ExpectValidAllocationsStep,
     DeleteNullptrStep, ResetCallCountStep, DeleteStep,
     ExpectValidDeallocationStep, MockAdapterStep, ConstructMiniportStep,
     HaltStep, LeaveScopeStep DEF Next
<1>2. CASE UNCHANGED vars
  <2>1. UNCHANGED <<mocks, locals, verdicts>>
    BY <1>2 DEF vars
  <2>2. TypeOK' /\ ArgumentsRecorded'
    BY <2>1 DEF UnitInv, TypeOK, ArgumentsRecorded, mocks, locals, verdicts
  <2>3. AtStatement' /\ FixtureMemory' /\ OwnMemory'
    BY <2>1 DEF UnitInv, TestInv, AtStatement, FixtureMemory, OwnMemory,
       mocks, locals, verdicts
  <2>4. CallsCounted'
    BY <2>1 DEF UnitInv, TestInv, CallsCounted, StillToCall, mocks, locals,
       verdicts
  <2>5. OwnAdapter' /\ OneMiniport'
    BY <2>1 DEF UnitInv, TestInv, OwnAdapter, OneMiniport, mocks, locals,
       verdicts
  <2> QED BY <2>2, <2>3, <2>4, <2>5 DEF UnitInv, TestInv
<1>3. QED
  BY <1>1, <1>2

\* Every variable of the tests and the mocks keeps its type: no counter of
\* calls passes the number of tests.
THEOREM UnitTypeCorrect == Spec => []TypeOK
<1>1. UnitInv => TypeOK
  BY DEF UnitInv
<1>2. QED
  BY <1>1, InitUnit, UnitStep, PTL DEF Spec

(***************************************************************************)
(* In every order, selection and repetition of the tests, for every number *)
(* of tests and whatever blocks malloc returns, each test finds what       *)
(* TestInv says: its own arrangement, and counters that the tests before   *)
(* it have left.                                                           *)
(***************************************************************************)
THEOREM UnitCorrect == Spec => []TestInv
<1>1. UnitInv => TestInv
  BY DEF UnitInv
<1>2. QED
  BY <1>1, InitUnit, UnitStep, PTL DEF Spec

(***************************************************************************)
(* The macros of the mocks pair every name with its own argument: after    *)
(* any sequence of calls, the structures hold what the last call passed.   *)
(***************************************************************************)
THEOREM ArgumentsAreRecorded == Spec => []ArgumentsRecorded
<1>1. UnitInv => ArgumentsRecorded
  BY DEF UnitInv
<1>2. QED
  BY <1>1, InitUnit, UnitStep, PTL DEF Spec

(***************************************************************************)
(* The Miniport's constructor finds no other Miniport active, in whatever  *)
(* order the tests run.                                                    *)
(***************************************************************************)
THEOREM NoOtherMiniport == Spec => []NoMiniportActive
<1>1. UnitInv => NoMiniportActive
  BY DEF UnitInv, TestInv, OneMiniport, NoMiniportActive
<1>2. QED
  BY <1>1, InitUnit, UnitStep, PTL DEF Spec

-----------------------------------------------------------------------------
(* Verdicts.                                                               *)

LEMMA MisuseStep ==
  UnitInv /\ FreedMemoryUse /\ [Next]_vars => FreedMemoryUse'
<1> SUFFICES ASSUME UnitInv, FreedMemoryUse, [Next]_vars
             PROVE  FreedMemoryUse'
  OBVIOUS
<1> USE DEF UnitInv, TestInv, FreedMemoryUse
<1>1. ASSUME Uses(ptr), pc \in {"construct", "delete"} PROVE FreedMemoryUse'
  BY <1>1, Here DEF Uses, OwnMemory
<1>2. CASE Construct
  BY <1>1, <1>2 DEF Construct
<1>3. CASE Faults
  BY <1>1, <1>3 DEF Faults
<1>4. CASE Delete
  BY <1>1, <1>4 DEF Delete, In
<1>5. CASE ~(Construct \/ Faults \/ Delete)
  <2>1. misused' = misused
    BY <1>5 DEF Next, vars, verdicts, Start, StartFixture, StartMiniportTest,
       End, New, NotConstructed, InvalidAllocations, ArrangeValidAllocations,
       ExpectValidAllocations, DeleteNullptr, ResetCallCount,
       ExpectValidDeallocation, MockAdapter, ConstructMiniport, Halt,
       LeaveScope
  <2>2. QED
    BY <2>1
<1>6. QED
  BY <1>2, <1>3, <1>4, <1>5

(***************************************************************************)
(* No test but ValidDeallocation uses memory that is freed, whatever       *)
(* results and counts earlier tests have left in the mocks.                *)
(***************************************************************************)
THEOREM OthersUseOwnMemory == Spec => []FreedMemoryUse
<1>1. Init => FreedMemoryUse
  BY DEF Init, FreedMemoryUse
<1>2. QED
  BY <1>1, InitUnit, UnitStep, MisuseStep, PTL DEF Spec

\* What the mock of f has recorded, by name.
LEMMA Recorded ==
  ASSUME ArgumentsRecorded
  PROVE  /\ LET f == "NdisAllocateMemoryWithTagPriority"
            IN  passed[f] # <<>> =>
                  /\ arguments[f].NdisHandle = passed[f][1]
                  /\ arguments[f].Length = passed[f][2]
                  /\ arguments[f].Priority = passed[f][4]
         /\ LET f == "NdisFreeMemoryWithTagPriority"
            IN  passed[f] # <<>> =>
                  /\ arguments[f].NdisHandle = passed[f][1]
                  /\ arguments[f].VirtualAddress = passed[f][2]
<1>1. /\ Declaration["NdisAllocateMemoryWithTagPriority"] =
           <<"NDIS_HANDLE", "NdisHandle", "UINT", "Length", "ULONG", "Tag",
             "EX_POOL_PRIORITY", "Priority">>
      /\ Declaration["NdisFreeMemoryWithTagPriority"] =
           <<"NDIS_HANDLE", "NdisHandle", "void*", "VirtualAddress", "ULONG",
             "Tag">>
  BY DEF Declaration
<1>2. ASSUME NEW f \in KernelFunction, passed[f] # <<>>
      PROVE  \A i \in 1 .. Len(Declaration[f]) \div 2 :
               arguments[f][Declaration[f][2 * i]] = passed[f][i]
  BY <1>2 DEF ArgumentsRecorded
<1>3. LET f == "NdisAllocateMemoryWithTagPriority"
      IN  passed[f] # <<>> =>
            \A i \in {1, 2, 4} :
              arguments[f][Declaration[f][2 * i]] = passed[f][i]
  <2>1. {1, 2, 4} \subseteq
          1 .. Len(Declaration["NdisAllocateMemoryWithTagPriority"]) \div 2
    BY <1>1
  <2>2. QED
    BY <1>2, <2>1, KernelFunctions
<1>4. LET f == "NdisFreeMemoryWithTagPriority"
      IN  passed[f] # <<>> =>
            \A i \in {1, 2} :
              arguments[f][Declaration[f][2 * i]] = passed[f][i]
  <2>1. {1, 2} \subseteq
          1 .. Len(Declaration["NdisFreeMemoryWithTagPriority"]) \div 2
    BY <1>1
  <2>2. QED
    BY <1>2, <2>1, KernelFunctions
<1>5. QED
  BY <1>1, <1>3, <1>4

LEMMA VerdictStep ==
  ASSUME UnitInv, [Next]_vars, failed' # failed
  PROVE  test = "ValidDeallocation" /\ ptr # memory
<1> USE DEF UnitInv, TestInv, In, Expect
<1>1. CASE Faults
  BY <1>1, Here DEF Faults, OwnMemory
<1>2. CASE ExpectValidAllocations
  BY <1>2, Recorded DEF ExpectValidAllocations, OwnMemory
<1>3. CASE ExpectValidDeallocation
  <2>1. SUFFICES ASSUME ptr = memory PROVE FALSE
    BY <1>3 DEF ExpectValidDeallocation
  <2>2. /\ callCount["NdisFreeMemoryWithTagPriority"] = 1
        /\ passed["NdisFreeMemoryWithTagPriority"] =
             <<DRIVER_HANDLE, ptr, "AX25_ADAPTER_TAG">>
    BY <1>3, <2>1 DEF ExpectValidDeallocation, OwnAdapter
  <2>3. QED
    BY <1>3, <2>2, Recorded DEF ExpectValidDeallocation
<1>4. CASE LeaveScope
  BY <1>4 DEF LeaveScope, OneMiniport
<1>5. CASE InvalidAllocations
  BY <1>5 DEF InvalidAllocations, OperatorNew
<1>6. CASE ~(\/ Faults \/ ExpectValidAllocations \/ ExpectValidDeallocation
            \/ LeaveScope \/ InvalidAllocations)
  BY <1>6 DEF Next, vars, verdicts, Start, StartFixture, StartMiniportTest,
     End, New, NotConstructed, Construct, ArrangeValidAllocations,
     DeleteNullptr, ResetCallCount, Delete, MockAdapter, ConstructMiniport,
     Halt
<1>7. QED
  BY <1>1, <1>2, <1>3, <1>4, <1>5, <1>6

(***************************************************************************)
(* Only ValidDeallocation can fail, and only when its adapter is not in    *)
(* its own memory: no order of the other tests decides a verdict.          *)
(***************************************************************************)
THEOREM VerdictsAreTheTestsOwn == Spec => FailsOnlyWithoutMemory
<1>1. UnitInv /\ [Next]_vars =>
        [failed' # failed => test = "ValidDeallocation" /\ ptr # memory]_vars
  BY VerdictStep
<1>2. QED
  BY <1>1, InitUnit, UnitStep, PTL DEF Spec, FailsOnlyWithoutMemory

=============================================================================
