# A TLA+ model of the VirtualAX25 miniport driver

VirtualAX25 is a Windows NDIS miniport driver that presents an AX.25 packet-radio
link as an Ethernet-like adapter. At this commit the driver registers with NDIS,
creates and destroys one `AX25Adapter` object per device, follows the
pause/restart states and refuses every OID request; sending and receiving are
stubs. What can go wrong in it is therefore mostly about *object life*: which
block of the non-paged pool each pointer leads to, after which sequence of NDIS
calls, with which allocations and registrations failing on the way, and with how
many calls inside the driver at once. Around that, the project models what the
constructor has and has not written when NDIS looks, who owns the net buffer
lists, and the unit tests with the static data of their mocks.

File names below are relative to `src/VirtualAx25/`, those of the unit tests to
`src/VirtualAx25UnitTests/`.

## Inventory

| component | state | operations | talks to |
|---|---|---|---|
| `DriverEntry` (Driver.cpp 50-82) | none of its own | allocate the Miniport, register with NDIS | Miniport, NDIS |
| `Miniport` (Miniport.h/.cpp) | `activeContext` (static), `miniportDriverHandle`, `driverObject`, `adapters[16]` of {`adapter`, `adapterNumber`, `inUse`} | constructor, `operator new/delete`, destructor, `RegisterWithNdis`, the callbacks initialise, halt, unload, pause, restart, OID request, send, return | NDIS calls it; it calls AX25Adapter and the pool |
| `AX25Adapter` (AX25Adapter.h/.cpp) | `state`, `driverHandle`, attribute structures, OID list, buffers, receive DPC; VLAN, filter, multicast list (never used) | constructor, `operator new/delete`, `Destroy`, `SetMiniportAttributes`, `Pause`, `Restart`, `HandleOidRequest`, `SendNetBufferLists`, `ReturnNetBufferLists`, `receiveDpcCallback` | called by Miniport; calls NDIS |
| Utility.h, ErrorCodes.h | none | tag packing, error constants | - |
| Trace.h, Driver.h, Public.h, pch.h | none | WPP tracing, includes | - |
| unit tests (AX25AdapterTests.cpp, MiniportTests.cpp, AX25AdapterMock.h, main.cpp) | a fixture's block of memory, a mock adapter | five tests, of `operator new`, `operator delete` and halt | AX25Adapter, Miniport, the mocks |
| kernel mocks (KernelMocks.h/.cpp) | for each function, static arguments, result and call count | record the arguments, count the call, return the result | called by the driver's code in the tests |

Interaction is by direct call and by pointer: NDIS is given the Miniport at
registration and passes it to `miniportInitializeExCallback`; the registration
attributes of an adapter (`MiniportAdapterContext = this`, AX25Adapter.cpp:349)
give NDIS the adapter's address, which every later callback casts back and uses
with at most a null check. `miniportDriverUnloadCallback` gets neither and uses
the static `activeContext`. No lock exists anywhere in the driver.

Hard behaviours: calls for different devices that interleave in
`miniportInitializeEx` (search, claim, allocate, re-read, four separate accesses
to the shared table); a constructor that publishes pointers before it fills what they lead
to, and fills one static structure again for each adapter; sends and returns that
arrive on several processors at any time, a pause or an unload included; failures of the Miniport's or an adapter's allocation, of
registration, and of either of the two `NdisMSetMiniportAttributes` calls;
devices that come and go under one load of the driver, blocks reused at the same
address, and reloads of the driver after all that. The complete list, each at
its line and with the properties that cover it, is `hazards` in PROJECT.json.

What makes each component correct: every adapter that is allocated stays
reachable until it is destroyed, exactly once; the pointer NDIS holds is live and
belongs to one device; the table maps interface numbers to those adapters; the
states of the adapter objects follow the life cycle documented in
`AX25Adapter::State`; the Miniport outlives every call; what NDIS reads
through the attributes is complete; a list has one owner and is completed once for
each time it is sent; a test's verdict depends on that test.

Facts about this commit that the model does not depend on: the tree does not link
(`markNetBufferListWithFailure` and six registered callbacks - cancel send, check
for hang, reset, PnP event, shutdown, cancel OID - have no definition, and
`ReturnNetBufferLists` is defined as a free function), and
`NdisMDeregisterMiniportDriver` is never called at unload.

## Modules

- **AX25Adapter** - the pool and the adapter objects in it. `pool[a]` is the tag
  of the block at address `a` (`free`, `miniport`, `adapter`), `adapterAt[a]` the
  fields the code reads after construction (`state`, `driverHandle`, and
  `miniportAdapterContext` of the registration attributes). Operations are the
  member functions as callers see them: `NewAdapter` (operator new and the
  constructor), `DestroyAdapter` (`Destroy()`: destructor and operator delete,
  which frees nothing if the handle is null), `PauseAdapter`, `RestartAdapter`,
  `OidRequestStatus`.
- **Miniport** (EXTENDS AX25Adapter) - `DriverEntry`, the Miniport object, its
  table, the callbacks, and as much of NDIS as decides which call can come next:
  `phase[d]` is what NDIS has been told of device `d`, `context[d]` the
  `MiniportAdapterContext` it holds. `image` says whether the driver is loaded,
  unloading, unloaded, or the machine has stopped. `pc`, `slot`, `ptr`, `device`
  are the program counter and locals of the call each thread is in; `status` is
  the status the last call to end returned. The multi-access calls are split at each
  access to shared state:

  | code | actions |
  |---|---|
  | DriverEntry, constructor, `RegisterWithNdis` | `DriverEntryNoMemory`, `DriverEntryRegisterFails`, `DriverEntryRegisters` |
  | `miniportInitializeExCallback` checks | `InitializeRejected`, `InitializeAccepted` |
  | `findFirstMatchingAdapter` | `ScanNext`, `ScanFound`, `NoSlotLeft` |
  | Miniport.cpp 261-263, 264, 266-273 | `Claim`; `Allocate`, `AllocateFails`; `CheckFails`, `CheckPasses` |
  | `SetMiniportAttributes`, its two NDIS calls | `SetRegistration`(`Fails`), `SetGeneral`(`Fails`), `SetAttributesFaults` |
  | halt, pause, restart, OID request | `HaltEx`, `Pause`, `Restart`, `OidRequest`, `NullArgument`, `DeviceCallFaults` |
  | unload, `~Miniport`, `operator delete` | `Unload`, `SkipSlot`, `DestroySlot`, `DestroySlotFaults`, `DestroySlotAgain`, `DeleteMiniport` |

- **MiniportProperties** (EXTENDS Miniport) - every property, the inductive
  invariants of the proofs, and the refinement mapping to AdapterLifecycle.
- **AdapterLifecycle** - the abstract specification: each device moves through
  Halted, Initializing, Paused, (Restarting,) Running, (Pausing,) Paused, Halted, on
  its own, one device per step.
- **AdapterAttributes** (EXTENDS Miniport) - the constructor of AX25Adapter, one action per
  group of writes that something else can tell apart: `NewBlock` (operator new),
  `InitializeRegistrationAttributes`, `InitializeGeneralAttributes` (which stores the
  pointer to the OID list), `FillPowerManagement` (the static structure, one member per
  step) and `PublishPowerManagement` (the pointer to it), `CopySupportedOids`, `StoreAdapter` (Miniport.cpp
  264) or `StoreNull`. `stage[t]` and `building[t]` say where the constructor of thread
  `t` is and in which block; `assigned[a]` and `oidCount[a]` what has been written there,
  `powerManagement` what of the static structure.
- **DataPath** (EXTENDS Miniport) - the send and return callbacks. A call is two
  steps: NDIS makes it (`SendCalled`, `ReturnCalled`), which fixes its arguments in
  `request`, and later its body runs (`RefuseSend`, `IgnoreEmptySend`, `SendNetBufferLists`
  and the same for returns), so anything can happen in between. A refused send takes one
  step more: `SendComplete` gives the chain to NDIS and leaves `call` at `complete`, with the
  chain still in `request`, until `RefusedSendReturns`; a chain that NDIS has back can be sent
  again meanwhile, and that a null one was given to NDIS can be seen. `balance[l]` counts how
  often list `l` was sent less how often it was completed.
- **Driver** (EXTENDS MiniportProperties, AdapterAttributes, DataPath) - the
  composition: Miniport's calls with `Allocate` replaced by the constructor's steps, the
  data path beside them, and what NDIS waits for (below). It has the properties of the
  whole, the inductive invariant `SystemInv`, and the refinement `Ownership`, the data path
  as an implementation of NetBufferLists.
- **NetBufferLists** - the abstract specification of the data path: each list is owned by
  NDIS or by the miniport.
- **KernelMocks** - the mocks' statics, and the macros that declare and define a
  mock from one list of types and names (`COUNT_ARGS`, `Names`, `AssignArguments`).
- **UnitTests** (EXTENDS KernelMocks) - the five tests statement by statement, run in any
  order, selection and repetition, as Google Test's flags allow. `passed` keeps what was really
  passed to each mock, `misused` which tests have used freed memory.
- **MCMiniport**, **MCDriver**, **MCUnitTests** - the TLC instances: the symmetry sets.
- **MiniportProofs**, **InterleavingProofs**, **ExclusiveProofs**,
  **LifecycleProofs** - the proofs about Miniport, each extending the one before.
- **DriverProofs** (EXTENDS Driver, InterleavingProofs) and **DriverExclusiveProofs**
  (EXTENDS DriverProofs, LifecycleProofs) - the proofs about the composition.
- **UnitTestsProofs** (EXTENDS UnitTests) - the proofs about the tests and their mocks.

### Modelling decisions

- *Exclusive and interleaved initialisation.* Nothing in the driver orders the PnP calls
  of two devices, and NDIS only serialises those of one device. `Spec` and `SystemSpec` let
  them interleave. `ExclusiveSpec` and `ExclusiveSystemSpec` add one thing, that no two
  calls are inside `miniportInitializeEx` at once (`OneInitialize`), which an NDIS that starts one
  device at a time gives, or one lock would; halts, pauses, OID requests, sends and
  returns still come between any two steps of an initialisation. Both are checked, because the
  driver keeps many more of its promises in the second case. Calls that follow one another
  are a special case of it.
- *Invalid pointers.* Using a pointer to no adapter is undefined behaviour. The
  model lets the machine stop (`Bugcheck`, with `fault` recording the cause, then
  `Reboot`), and for a second destruction also lets it pass unnoticed
  (`DestroySlotAgain`). A freed address can be allocated again, so a stale pointer
  can lead to a later adapter.
- *Racy reads.* `thisAdapter->adapter` is read again at Miniport.cpp:266 and 275.
  When calls share the slot, that races, and the model takes either the slot's
  value or the one this call stored (`Reads`).
- *Failed loads.* When `DriverEntry` fails the system discards the image, so the
  next load has fresh statics; the pool block of the Miniport stays.
- *Failed initialisation.* NDIS does not halt a device whose initialisation
  failed; it forgets the context (`InitializeFails`).
- *Handles.* `miniportInitializeExCallback` compares the handle it gets with the
  driver handle, and its comment requires them to be equal; so the model has NDIS pass that
  handle, or another one, which is rejected.
- *What NDIS waits for.* A device is halted only when no send or return for it is inside
  the driver, and the driver is unloaded only when none is. A pause waits for nothing: the
  callback itself has to complete what is outstanding.
- *Calls without a context or a list.* Both data callbacks check both arguments for null, so
  NDIS may pass either, and both at once; that it ever does is an assumption
  taken from those checks alone. A send with neither is refused for its context, and the null
  chain is marked and completed before anything looks at the list (Miniport.cpp 443-445): the
  model shows that as the step `complete` with no list, and does not model what
  the external functions do with it.
- *Adapter's data functions.* `AX25Adapter::SendNetBufferLists` and `ReturnNetBufferLists`
  have empty bodies and read nothing of the object, so a dead context stops no
  machine there. That the context is alive is a property of its own (`AdapterAtUse`).
- *Uninitialised members.* The pool does not clear a block. A value is abstracted to
  whether it has been assigned; the other members of the static power management structure are
  assigned the zero they start with, so three of them tell its states apart.
- *Freed memory in the tests.* What a test reads from a block that an earlier fixture freed
  may be what was written there, null or anything else, or the access may fault
  (`Construct`, `Faults`); `operator delete` frees nothing when it finds null (`Delete`). `malloc` does not fail. The `__imp_` symbol of a mock is
  taken as the function it stands for.
- *Abstracted.* Trace and error-log calls; the size arguments of `operator new`
  (the compiler passes the right one); the values in the attribute structures; the
  DISPATCH_LEVEL flag of sends, which is passed on and decides nothing; `driverObject`
  (stored, never read); IRQLs.

## Runs

Bounds: `NumSlots` 1 or 2 stands for 16 (the code treats every slot alike), chosen per
run below; 2 or 3 addresses (the Miniport, and an adapter for each device). Nothing else is
bounded: devices come and go, lists are sent again and the driver is reloaded without
limit. Sets of model values are symmetric where no liveness is checked. Only
`unit_tests` disables deadlock checking: a test program ends.

The three runs of the driver look at it from three sides, and every action of it is in at least one:

- `parallel` has two threads without restriction, so that a constructor runs beside another
  constructor, a search, a halt and an unload; two devices, two slots (two racing claims of
  one slot, with a slot left, then none), three addresses, and two driver handles, of which one
  is wrong. There are no data calls: they change
  nothing that the driver's PnP callbacks read, and only delay a halt or an unload.
- `data_path` has two processors and two lists, so that a list can be sent again on one while the
  other is still in the call that completed it, or that completes another; one thread, one device,
  one slot: a device that is started, paused, halted and started again, and driver reloads.
- `exclusive` has the two together, with two threads, two devices, two slots (for two live
  devices, or for a live one and the stale entry of a halted one) and one processor, so that
  a data call holds its context while another device is halted or fails to start.

`ExclusiveSpec` alone was also checked with three slots, four addresses and two handles
(89,175 states); the proofs cover any number. `unit_tests` runs up to `MaxTests` = 6 of the
five tests in one process over two blocks, so that every test can run before, between and
after any two others, in a block that is new or one that was freed.

| run | question | result |
|---|---|---|
| `exclusive` | The whole driver, 2 threads that do not initialise at the same time, 2 devices, 2 slots, 3 addresses, 1 processor. Are adapters reachable (`NoOrphan`), contexts live and distinct (`ContextLive`), the table right (`TableMapsInterface`), the adapter that a data call uses alive (`AdapterAtUse`), faults confined to the destructor (`FaultOnlyInUnload`), and is `AdapterLifecycle` implemented (`Lifecycle`)? Also the invariant of the proof, `ExclusiveInv`. | holds |
| `parallel` | The whole driver without data calls, 2 threads, 2 devices, 2 slots, 3 addresses, 2 handles. What survives interleaving: does the table fill in order (`SlotsFillInOrder`), is what a search has seen still true (`SearchedSlotsInUse`), does delete always free (`DeletableAdapter`), does the Miniport outlive its calls (`MiniportAlive`), is what NDIS reads through an adapter complete (`ReferencesReadable`), and does no step leave a call with more to do (`CallsShrink`)? Also the invariant of the proof, `SystemInv`. | holds |
| `data_path` | The whole driver, 1 thread, 1 device, 2 processors, 2 lists. Is the active Miniport there for every data call that may read it (`ActiveContextAtUse`), is no list completed twice or unsent (`Ownership`), and is a refused one completed (`RefusedSendsComplete`)? Also `SystemInv`. | holds |
| `stale_slot` | Is a destroyed adapter ever used? | yes: halt leaves the entry in use, unload destroys it again |
| `leaked_slot` | Is a start refused for lack of slots only when there are as many adapters? | no: halted and failed devices keep their slots |
| `empty_slot` | Does an entry in use between calls have an adapter? | no: a failed allocation leaves it null, and unload dereferences it |
| `shared_adapter` | Does every device have its own object under interleaving? | no: two calls claim one slot |
| `leaked_miniport` | Is the Miniport a singleton? | no: a failed registration leaks it |
| `unset_attribute` | Are all members of the attributes assigned when NDIS is given them? | no: `Flags`, `PowerManagementCapabilities` and `MacAddressLength` never are |
| `unfinished_send` | Does a list sent to a device come back once the device is paused? | no: the adapter drops it and `Pause` succeeds at once |
| `empty_send` | Does the send callback do nothing when there is no list? | no: without a context it completes the null chain |
| `unit_tests` | Do the mocks record what they were passed (`ArgumentsRecorded`), and which tests do statics that outlive a test affect (`FailsOnlyWithoutMemory`, `FreedMemoryUse`, `NoMiniportActive`)? Also the invariant of the proof, `TestInv`. | `ValidDeallocation` only |

The eight violations are disagreements between the code and its own comments or
messages; each is an entry of `findings`. The first, in the
simplest scenario there is (start a device, halt it, unload), is reached by every
ordinary removal of the driver. `FaultOnlyInUnload` shows how far they
go: when initialisations exclude each other, none of them lets any callback but unload touch invalid memory.

`ValidDeallocation` (AX25AdapterTests.cpp 69-78) never sets the result of the allocation mock.
After `ValidAllocations`, which in the usual order runs before it, that result is the
freed block of another fixture, in which it constructs its adapter; alone
(`--gtest_filter`), it is null, and the test fails. `FailsOnlyWithoutMemory` says that this
is the only way in which any test's verdict depends on the others: a test fails only
if it is this one and its adapter is not in its own fixture's memory.

*Fairness.* `FairSystemSpec` asserts weak fairness of the steps of a call that has begun,
for each thread and for each processor: the scheduler runs a thread that is inside a callback,
and the code never waits for anything. Nothing obliges NDIS to make a call, load the driver or
reboot.

*Mutants.* Each property has, beside the definition it tests, a mutated definition
that a plausible slip would produce (marked `Mutant:` in the modules): a search that
starts at the wrong slot, does not look at `inUse` or goes round; a halt
that takes the table's first adapter; a claim without the
interface number; a null check dropped; a constructor that forgets a field; a
destructor that keeps the slot or runs after the free; a constructor that clears the static
structure before it fills it, copies one OID too few, or does not set `activeContext`; a refused send that is
completed twice, not at all, or goes on after its completion; a mock that forgets its last argument or counts twice; a test that
does not reset a count or keeps an old result.

## Proofs

Everything below holds for every number of slots, and every set of addresses, devices,
handles, threads, processors, lists, blocks and tests. The only assumptions are those of the
modules: `NULL` is no address, handle, device, list or block (`NULLAssumption`, `IfIndexAssumption`,
`ListAssumption`, `BlockAssumption`, `HandleAssumption`), the table has at least one slot
(`NumSlotsAssumption`), and the number of tests is a number (`MaxTestsAssumption`).

1. **MiniportProofs**: `TypeCorrect`, `Spec => []TypeOK`. `TypeOK` is inductive; it
   is proved part by part (memory, driver, NDIS, calls), with frame lemmas for the
   parts a step leaves alone.
2. **InterleavingProofs**: `InterleavedCorrect`, `Spec => []InterleavedInv`, for any
   interleaving, and its corollaries `TableFillsInOrder`, `SearchIsSound`,
   `DeleteAlwaysFrees` and `MiniportOutlivesCalls`. `SlotsFillInOrder` alone is not
   inductive: a claim preserves it only because a call that is about to claim has
   seen all slots below in use, and still does (`SearchedSlotsInUse`, `ClaimsInOrder`), which needs that
   nobody releases a slot while a call searches (`CallsMatchImage`). `DeletableAdapter`
   needs that even stale entries lead to adapters of this load (`HandlesMatch`). Two lemmas,
   `CallStep` and `MemoryStep`, cover all but eight of the actions.

   `CallsGetShorter`, `Spec => CallsShrink`: `Remaining(t)` bounds the steps that the
   call of thread `t` has left. Each of its own steps lowers it (`InitializeShrinks`,
   `UnloadShrinks`) or stops the machine, and nobody else's raises it (`NoStepLengthens`), so
   a call takes at most `NumSlots + 6` steps of Miniport after its first.

3. **ExclusiveProofs**, for `ExclusiveSpec` on any number of threads: `ExclusiveCorrect`
   and its corollaries `NothingOrphaned`, `ContextsAreLive`, `TableIsRight`,
   `FaultsOnlyInUnload`. At most one thread is in `InitializeSteps` (`OneInitialize`), so
   what that call has achieved stays true while others halt, pause or restart their
   devices: they change one adapter that NDIS knows, and the call's own is unknown to NDIS
   until it is initialised (`OthersOutside`, `NewlyBuilt`). `NoOrphan` needs `FreeSlots` (a slot that is claimed holds no
   pointer that would be lost; the destructor has released what it has passed) and
   `HandlesMatch` (so that every destruction in the destructor frees the block).
   `ContextLive` and `TableMapsInterface` need `InitializeProgress`, which says what
   a call in progress has achieved.
4. **LifecycleProofs**: `LifecycleImplemented`, `ExclusiveSpec => Lifecycle`, which is
   `AdapterLifecycle`'s specification. By `ExclusiveInv` the objects are in the state NDIS attributes to them
   (`LifecycleIsPhase`), a step moves at most one device's phase (`PhaseStep`), and each
   such move is one of AdapterLifecycle's.

5. **DriverProofs**, for any number of threads and processors: `SystemCorrect`,
   `SystemSpec => [](SystemTypeOK /\ SystemInv)`, and from it
   - `SystemTypeCorrect`: the types;
   - `DriverKeepsTable` and `DriverCallsGetShorter`: what 2 proves of Miniport holds of the whole
     driver. The lemma `ImplementsMiniport` carries it over: every step of the driver is one of
     Miniport's or leaves Miniport's variables alone (`StepOfMiniport`), because the block of a
     constructor is still free at its last step (`Constructors`), and no data
     call stops the machine (`ActiveContextAtUse`);
   - `ReferencesStayReadable`: no adapter that NDIS knows of has a short OID list
     (`Progress`), and the static structure is full from the first construction under an image on,
     since until then no pointer to an adapter exists (`NothingBuilt`); filling it again
     writes the same values;
   - `ActiveContextIsThere`: no data call is in a driver that is not loaded
     (`DataCallsNeedDriver`), and a loaded driver's Miniport is active (`InterleavedInv`)
     and has its handle (`DevicesOfImage`);
   - `OwnershipImplemented`: a list that a send will complete was sent, by that
     send and no other (`ListsInCalls`).

   `SystemInv` is proved in three groups, each with frame lemmas for the others' steps:
   the devices and calls of Miniport (`DevicesStep`), the constructors
   (`PnpConstructors`), the data path (`DataPathInvariant`); and `RequestsCurrent`, that a
   device with a data call inside the driver stays initialised with the context the call
   holds, is kept by the calls because NDIS halts no such device and a failing start is
   another device's (`PnpRequests`, `DataPathRequests`). `SystemStep` puts
   them together with `InterleavedInv`, which is inductive by 2.

6. **DriverExclusiveProofs**: the lemma `ImplementsExclusiveMiniport`, `ExclusiveSystemSpec
   => ExclusiveSpec`, by the same step refinement, carries 3 and 4 over to the whole driver:
   `DriverKeepsAdapters` (`NoOrphan`, `ContextLive`, `TableMapsInterface`),
   `DriverImplementsLifecycle`, `DriverFaultsOnlyInUnload`. `DataCallsUseLiveAdapters` puts
   the two invariants together: the context of a data call is still its device's
   (`RequestsCurrent`), and that device's context is a live adapter (`ExclusiveInv`).

7. **UnitTestsProofs**: `UnitCorrect`, `Spec => []TestInv`, for any number of tests and any
   blocks, with `UnitTypeCorrect`, `ArgumentsAreRecorded`, `NoOtherMiniport`,
   `OthersUseOwnMemory` and `VerdictsAreTheTestsOwn`. `FailsOnlyWithoutMemory` is not inductive:
   why a test's expectations hold depends on what it arranged itself, statements before, and on
   which statics it resets. `TestInv` says that at each statement - the running test still owns its
   block (`FixtureMemory`), the mock will return or has returned that block (`OwnMemory`), an
   adapter in allocated memory keeps its handle and its delete is the only one counted
   (`OwnAdapter`), one Miniport is active (`OneMiniport`), and the counters are at most
   the tests run (`CallsCounted`, for the types).
   `ArgumentsCounted`: `COUNT_ARGS` counts every list of up to sixteen arguments, by
   cases over the length.

Only model-checked: `RefusedSendsComplete`, a liveness property, which the prover has no means
for, and, by nature, the eight violations. Every other property of a run is a theorem.

Worth proving next: that a constructor split into its writes ends as well (`Remaining` for
`InitializeCallStep`), and the violations' positive halves, as what a repaired
`miniportHaltExCallback` would have to guarantee for `FaultOnlyInUnload` to become
"no fault at all".

## Not modelled

- The receive DPC: it is initialised and never queued, and its routine only stops the
  machine (AX25Adapter.cpp 370-385).
- The six registered callbacks without a body, and the four `AX25Adapter` members that are
  never read (VLAN, filter, multicast list, buffers): there is no behaviour to model.
- IRQL annotations: static checks of the compiler with no state at run time.
- Packing of pool tags and of the MAC address, error codes, media and link constants:
  compile-time values on which nothing in the driver depends.
- The mocks of `ExRaiseStatus` and `KeBugCheckEx`, which raise exceptions: no test calls them.
- Tracing, the printer of test results, build files, the INF, Google Test: no logic of the
  driver.
- Receiving, OID requests, cancelling and anything else whose body is a `TODO`: when the code
  is written, `DataPath` is where sends that wait in the adapter belong, with
  `NetBufferLists` and `SendsCompleteByPause` as what they owe.
