--------------------------- MODULE BridgeContract ---------------------------
(***************************************************************************)
(* What the bridge (wavemaker_controller/src/wavemaker_bridge.cpp)         *)
(* promises the clients that watch its state topic: the order of the       *)
(* published states, that a wave only begins while the client's heartbeat  *)
(* is alive, and that neither a stop nor a wave without a heartbeat lasts. *)
(* WavemakerBridge implements it; WebServer is built on it.                *)
(***************************************************************************)

VARIABLES
  active,  \* the lifecycle state is active
  st,      \* state_, as published on wavemaker_state
  alive    \* heartbeat_alive()

contractVars == <<active, st, alive>>

Watched == {"Starting", "Running"}     \* states in which watch() looks
Busy    == Watched \cup {"Stopping"}   \* states of a wave
States  == Busy \cup {"Inactive", "Idle"}

ContractInit == active = FALSE /\ st = "Inactive" /\ alive = FALSE

Activated ==
  /\ ~active /\ active' = TRUE /\ st = "Inactive" /\ st' = "Idle"
  /\ UNCHANGED alive
Left == active /\ active' = FALSE /\ st' = "Inactive" /\ UNCHANGED alive

Begun    == st = "Idle" /\ alive /\ st' = "Starting"
Accepted == st = "Starting" /\ st' = "Running"
\* A goal request that outlived a deactivation is stopped from idle.
Halted   == st \in Busy \cup {"Idle"} /\ st' = "Stopping"
Ended    == st \in Busy /\ st' = "Idle"
Wave     == (Begun \/ Accepted \/ Halted \/ Ended) /\ UNCHANGED <<active, alive>>

Beat == alive' \in BOOLEAN /\ (alive' => alive \/ active) /\ UNCHANGED <<active, st>>

ContractNext == Activated \/ Left \/ Wave \/ Beat

\* No stop lasts, and no wave outlives the heartbeat.
Promise ==
  /\ []<>(st # "Stopping")
  /\ <>[]~alive => <>[](st \notin Watched)

Order == ContractInit /\ [][ContractNext]_contractVars
Contract == Order /\ Promise
=============================================================================
