------------------------- MODULE AdapterLifecycle -------------------------
(***************************************************************************)
(* What the driver promises of its adapters: each device goes through the  *)
(* states that enum AX25Adapter::State documents, on its own, one device   *)
(* at a time.  A device that has no AX25Adapter object is Halted.          *)
(*                                                                         *)
(* Pause and restart may complete at once or pass through Pausing and      *)
(* Restarting, as the comments of Pause() and miniportRestartCallback      *)
(* allow; a device is halted only when it is Paused.                       *)
(***************************************************************************)
CONSTANT Device

VARIABLE state      \* the state of each device's adapter

AdapterState == {"Halted", "Initializing", "Paused", "Restarting", "Running",
                 "Pausing"}

TypeOK == state \in [Device -> AdapterState]

Init == state = [d \in Device |-> "Halted"]

\* Device d moves from one of the states in From to one in To.
Move(d, From, To) ==
  /\ state[d] \in From
  /\ \E s \in To : state' = [state EXCEPT ![d] = s]

Initialize(d)  == Move(d, {"Halted"}, {"Initializing"})
Initialized(d) == Move(d, {"Initializing"}, {"Paused", "Halted"})
Restart(d)     == Move(d, {"Paused"}, {"Restarting", "Running"})
Restarted(d)   == Move(d, {"Restarting"}, {"Running", "Paused"})
Pause(d)       == Move(d, {"Running"}, {"Pausing", "Paused"})
PauseDone(d)   == Move(d, {"Pausing"}, {"Paused"})
Halt(d)        == Move(d, {"Paused"}, {"Halted"})

Next == \E d \in Device :
  \/ Initialize(d) \/ Initialized(d)
  \/ Restart(d) \/ Restarted(d)
  \/ Pause(d) \/ PauseDone(d)
  \/ Halt(d)

Spec == Init /\ [][Next]_state

=============================================================================
