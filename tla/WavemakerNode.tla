---------------------------- MODULE WavemakerNode ----------------------------
(***************************************************************************)
(* The lifecycle controller node of the wavemaker                          *)
(* (wavemaker_controller/src/wavemaker_node.cpp).                          *)
(*                                                                         *)
(* Five threads share the node's members:                                  *)
(*   "life"  the default callback group: lifecycle services, fault timer;  *)
(*   "act"   the action server's group: goal, accepted, cancel callbacks;  *)
(*   "ret"   the return_to_upright service;                                *)
(*   "ctx"   the signal thread of a context shutdown, then the destructor; *)
(*   the worker, execution_thread_, which runs one goal or one return.     *)
(* goal_mutex_ only guards straight-line sections, so each of them is one  *)
(* action.  execution_mutex_ is held across a join and is modelled by its  *)
(* owner.  A label names the statement a thread executes next.             *)
(***************************************************************************)
EXTENDS Naturals, FiniteSets

CONSTANTS
  Goals,          \* identities of move_wavemaker goals
  Returns,        \* identities of return_to_upright requests
  None,           \* the null pointer, "nobody"
  Pregenerated,   \* wavemaker_mode_pregenerated_: only such a goal can complete
  Interruptible,  \* may Ctrl-C shut the context down?
  SlowStart       \* does starting the drive outlast the last instructions of
                  \* a callback that a deactivation overtook?

ASSUME NodeAssumption ==
  /\ Goals \cap Returns = {}
  /\ None \notin Goals \cup Returns
  /\ {Pregenerated, Interruptible, SlowStart} \subseteq BOOLEAN

VARIABLES
  state,             \* lifecycle state
  bond,              \* bond_ is alive
  why,               \* what a "life" or "ctx" stop_activity() is part of
  accepting_goals, goal_handle, goal_pending, returning_to_upright,
  stop_execution, execution_mutex,
  pc,                \* next statement of each callback thread
  arg,               \* the goal or return request that thread holds
  wpc, wjob,         \* the worker: its next statement and its job
  gstate,            \* action-server state of each goal
  claimed,           \* return requests that are under way, not yet answered
  trajectory,        \* the goal trajectory_ / pregenerated_ was configured for
  soft_stopped, soft_stop_fresh,
  drive,             \* actuator_: absent, or off, hold, moving, faulted
  fault_pending, fault_transition_pending,
  ok                 \* rclcpp::ok()

lifeVars  == <<state, bond, why>>
goalVars  == <<accepting_goals, goal_handle, goal_pending, returning_to_upright>>
execVars  == <<stop_execution, execution_mutex>>
workVars  == <<wpc, wjob>>
jobVars   == <<gstate, claimed, trajectory>>
softVars  == <<soft_stopped, soft_stop_fresh>>
faultVars == <<fault_pending, fault_transition_pending>>
vars == <<lifeVars, goalVars, execVars, pc, arg, workVars, jobVars, softVars,
          drive, faultVars, ok>>

Threads    == {"life", "ctx", "act", "ret"}
Stoppers   == {"life", "ctx"}
Jobs       == Goals \cup Returns
Live       == {"accepted", "executing", "canceling"}
Terminal   == {"succeeded", "aborted", "canceled"}
Enabled    == {"hold", "moving"}
StopLabels == {"s_accept", "s_take", "s_abort", "s_lock", "s_join",
               "s_actuator", "s_bond"}
ThreadLabels == StopLabels \cup
  {"idle", "a_start", "a_bond", "release", "f_accept", "f_take", "f_abort",
   "accepted", "x_lock", "x_join", "x_fail", "x_drop", "d_wait", "done"}
WorkerLabels ==
  {"none", "execute", "loop", "is_canceling", "soft_stop", "write",
   "halt", "clear", "abort", "c_halt", "c_clear", "canceled",
   "f_clear", "f_signal", "f_stop", "done_halt", "succeed", "done_clear",
   "r_begin", "r_loop", "r_soft_stop", "r_write", "r_halt", "r_clear",
   "respond"}

FlagsOK ==
  /\ bond \in BOOLEAN
  /\ accepting_goals \in BOOLEAN
  /\ goal_pending \in BOOLEAN
  /\ returning_to_upright \in BOOLEAN
  /\ stop_execution \in BOOLEAN
  /\ soft_stopped \in BOOLEAN
  /\ soft_stop_fresh \in BOOLEAN
  /\ fault_pending \in BOOLEAN
  /\ fault_transition_pending \in BOOLEAN
  /\ ok \in BOOLEAN

TypeOK ==
  /\ FlagsOK
  /\ state \in {"unconfigured", "inactive", "active", "finalized"}
  /\ why \in [Stoppers -> {"none", "deactivate", "cleanup", "error", "shutdown",
                           "context", "destroy"}]
  /\ goal_handle \in Goals \cup {None}
  /\ execution_mutex \in Threads \cup {None}
  /\ pc \in [Threads -> ThreadLabels]
  /\ arg \in [Threads -> Jobs \cup {None}]
  /\ arg["act"] \in Goals \cup {None} /\ arg["ret"] \in Returns \cup {None}
  /\ \A t \in Stoppers : arg[t] \in Goals \cup {None}
  /\ wpc \in WorkerLabels
  /\ wjob \in Jobs \cup {None}
  /\ gstate \in [Goals -> {"unsent"} \cup Live \cup Terminal]
  /\ claimed \subseteq Returns
  /\ trajectory \in Goals \cup {None}
  /\ drive \in {"absent", "off", "faulted"} \cup Enabled

Init ==
  /\ state = "unconfigured" /\ bond = FALSE
  /\ why = [t \in Stoppers |-> "none"]
  /\ accepting_goals = FALSE /\ goal_handle = None
  /\ goal_pending = FALSE /\ returning_to_upright = FALSE
  /\ stop_execution = FALSE /\ execution_mutex = None
  /\ pc = [t \in Threads |-> "idle"]
  /\ arg = [t \in Threads |-> None]
  /\ wpc = "none" /\ wjob = None
  /\ gstate = [g \in Goals |-> "unsent"]
  /\ claimed = {}
  /\ trajectory = None
  /\ soft_stopped = TRUE /\ soft_stop_fresh = FALSE
  /\ drive = "absent"
  /\ fault_pending = FALSE /\ fault_transition_pending = FALSE
  /\ ok = TRUE
-----------------------------------------------------------------------------
Goto(t, label) == pc' = [pc EXCEPT ![t] = label]

\* A callback of t's group is dispatched: the executor runs one at a time.
Dispatch(t, label) == ok /\ pc[t] = "idle" /\ Goto(t, label)

\* Mutant: silence on the topic is not a stop.
soft_stopMutantDeaf == soft_stopped
soft_stop_active == soft_stopped \/ ~soft_stop_fresh

\* rcl_action's goal states.  abort() of a goal that never executed throws, and
\* abort_goal() swallows the exception; a handle destroyed before a terminal
\* state cancels its goal.
\* Mutant: a goal being canceled is not aborted.
AfterAbortMutant(s) == IF s = "executing" THEN "aborted" ELSE s
AfterAbort(s) == IF s \in {"executing", "canceling"} THEN "aborted" ELSE s
AfterDrop(s) == IF AfterAbort(s) = "accepted" THEN "canceled" ELSE AfterAbort(s)

\* actuator_->stop() and actuator_->halt().
StopDrive == drive' = IF drive = "absent" THEN "absent" ELSE "off"
HaltDrive == drive' = IF drive = "moving" THEN "hold" ELSE drive
-----------------------------------------------------------------------------
(* Lifecycle transitions, run by the "life" thread. *)

\* on_configure that succeeds; one that fails leaves the node as it was.
\* fault_pending_ keeps its value.
OnConfigure ==
  /\ Dispatch("life", "idle") /\ state = "unconfigured"
  /\ state' = "inactive"
  /\ drive' = "off"
  /\ soft_stopped' = TRUE /\ soft_stop_fresh' = FALSE
  /\ UNCHANGED <<bond, why, goalVars, execVars, arg, workVars, jobVars,
                 faultVars, ok>>

OnActivate ==
  /\ state = "inactive" /\ Dispatch("life", "a_start")
  /\ UNCHANGED <<lifeVars, goalVars, execVars, arg, workVars, jobVars, softVars,
                 drive, faultVars, ok>>

\* actuator_->start(): connect, wait for data, enable.  It forgets the fault of
\* an earlier run; on failure the driver is stopped again, and the reason may
\* have been a fault that was signalled on the way.
ActuatorStart ==
  /\ pc["life"] = "a_start"
  /\ SlowStart => pc["act"] = "idle" /\ pc["ret"] = "idle"
  /\ \/ /\ drive' = "hold" /\ Goto("life", "a_bond")
        /\ UNCHANGED fault_pending
     \/ /\ drive' = "off" /\ Goto("life", "idle")
        /\ fault_pending' \in {fault_pending, TRUE}
  /\ UNCHANGED <<lifeVars, goalVars, execVars, arg, workVars, jobVars, softVars,
                 fault_transition_pending, ok>>

\* The bond is created and goals are admitted, or its creation throws.
FinishActivate ==
  /\ pc["life"] = "a_bond" /\ Goto("life", "idle")
  /\ \/ /\ bond' = TRUE /\ accepting_goals' = TRUE /\ state' = "active"
        /\ UNCHANGED drive
     \/ /\ StopDrive
        /\ UNCHANGED <<bond, accepting_goals, state>>
  /\ UNCHANGED <<why, goal_handle, goal_pending, returning_to_upright, execVars,
                 arg, workVars, jobVars, softVars, faultVars, ok>>

\* The operator's or lifecycle manager's request to leave a state.
Leave(from, reason) ==
  /\ state \in from /\ Dispatch("life", "s_accept")
  /\ why' = [why EXCEPT !["life"] = reason]
  /\ UNCHANGED <<state, bond, goalVars, execVars, arg, workVars, jobVars,
                 softVars, drive, faultVars, ok>>

OnDeactivate == Leave({"active"}, "deactivate")
OnCleanup    == Leave({"inactive"}, "cleanup")
OnShutdown   == Leave({"unconfigured", "inactive", "active"}, "shutdown")

\* release_resources(): the action server, services, timer and actuator go.
ReleaseResources ==
  /\ pc["life"] = "release" /\ Goto("life", "idle")
  /\ state' = IF why["life"] = "shutdown" THEN "finalized" ELSE "unconfigured"
  /\ why' = [why EXCEPT !["life"] = "none"]
  /\ drive' = "absent"
  /\ UNCHANGED <<bond, goalVars, execVars, arg, workVars, jobVars, softVars,
                 faultVars, ok>>
-----------------------------------------------------------------------------
(* stop_activity(), for a lifecycle transition or a context shutdown; the   *)
(* destructor runs it from s_take.                                          *)

StopAccepting(t) ==
  /\ pc[t] = "s_accept" /\ Goto(t, "s_take")
  /\ accepting_goals' = FALSE
  /\ UNCHANGED <<lifeVars, goal_handle, goal_pending, returning_to_upright,
                 execVars, arg, workVars, jobVars, softVars, drive, faultVars, ok>>

\* abort_active_goal(), its section under goal_mutex_.
TakeGoal(t) ==
  /\ \/ pc[t] = "s_take" /\ Goto(t, "s_abort")
     \/ pc[t] = "f_take" /\ Goto(t, "f_abort")
  /\ arg' = [arg EXCEPT ![t] = goal_handle]
  /\ goal_handle' = None
  /\ goal_pending' = FALSE
  /\ UNCHANGED <<lifeVars, accepting_goals, returning_to_upright, execVars,
                 workVars, jobVars, softVars, drive, faultVars, ok>>

\* abort_active_goal(), after the unlock.  In process_driver_fault() the
\* DEACTIVATE transition follows, marked to end in the error state.
AbortTaken(t) ==
  /\ gstate' = [g \in Goals |-> IF g = arg[t] THEN AfterAbort(gstate[g])
                                             ELSE gstate[g]]
  /\ arg' = [arg EXCEPT ![t] = None]
  /\ \/ /\ pc[t] = "s_abort" /\ Goto(t, "s_lock")
        /\ UNCHANGED <<why, fault_transition_pending>>
     \/ /\ pc[t] = "f_abort" /\ Goto(t, "s_accept")
        /\ why' = [why EXCEPT ![t] = "deactivate"]
        /\ fault_transition_pending' = TRUE
  /\ UNCHANGED <<state, bond, goalVars, execVars, workVars, claimed, trajectory,
                 softVars, drive, fault_pending, ok>>

\* stop_execution() and start_execution(): lock, and tell the worker to stop.
LockExecution(t) ==
  /\ execution_mutex = None
  /\ execution_mutex' = t
  /\ stop_execution' = TRUE
  /\ \/ pc[t] = "s_lock" /\ Goto(t, "s_join")
     \/ pc[t] = "x_lock" /\ Goto(t, "x_join")
  /\ UNCHANGED <<lifeVars, goalVars, arg, workVars, jobVars, softVars, drive,
                 faultVars, ok>>

\* stop_execution() returns: the lock is released once the join is over.
\* Mutant: the worker is told to stop but not joined.
LeaveStopExecution(t, joined) ==
  /\ pc[t] = "s_join" /\ joined
  /\ Goto(t, "s_actuator")
  /\ execution_mutex' = None
  /\ UNCHANGED <<lifeVars, goalVars, stop_execution, arg, workVars, jobVars,
                 softVars, drive, faultVars, ok>>
JoinMutant(t)  == LeaveStopExecution(t, TRUE)
JoinStopped(t) == LeaveStopExecution(t, wpc = "none")

StopActuator(t) ==
  /\ pc[t] = "s_actuator" /\ Goto(t, "s_bond")
  /\ StopDrive
  /\ UNCHANGED <<lifeVars, goalVars, execVars, arg, workVars, jobVars, softVars,
                 faultVars, ok>>

\* The bond is broken; what follows depends on the caller of stop_activity().
\* on_deactivate fails after a driver fault, and on_error follows at once.
FinishStop(t) ==
  /\ pc[t] = "s_bond"
  /\ bond' = FALSE
  /\ \/ /\ why[t] = "deactivate" /\ fault_transition_pending
        /\ why' = [why EXCEPT ![t] = "error"] /\ Goto(t, "s_accept")
        /\ UNCHANGED <<state, drive, ok>>
     \/ /\ why[t] = "deactivate" /\ ~fault_transition_pending
        /\ why' = [why EXCEPT ![t] = "none"] /\ Goto(t, "idle")
        /\ state' = "inactive"
        /\ UNCHANGED <<drive, ok>>
     \/ /\ why[t] \in {"cleanup", "error", "shutdown"}
        /\ Goto(t, "release")
        /\ UNCHANGED <<state, drive, why, ok>>
     \/ /\ why[t] = "context"
        /\ ok' = FALSE /\ Goto(t, "d_wait")
        /\ UNCHANGED <<state, drive, why>>
     \/ /\ why[t] = "destroy"
        /\ drive' = "absent" /\ Goto(t, "done")
        /\ UNCHANGED <<state, why, ok>>
  /\ fault_transition_pending' = IF why[t] = "deactivate" THEN FALSE
                                 ELSE fault_transition_pending
  /\ UNCHANGED <<goalVars, execVars, arg, workVars, jobVars, softVars,
                 fault_pending>>

\* Ctrl-C: the pre-shutdown callback runs stop_activity() on its own thread.
PreShutdown ==
  /\ Interruptible /\ Dispatch("ctx", "s_accept")
  /\ why' = [why EXCEPT !["ctx"] = "context"]
  /\ UNCHANGED <<state, bond, goalVars, execVars, arg, workVars, jobVars,
                 softVars, drive, faultVars, ok>>

\* spin() has returned once every callback has, then main() drops the node.
Destructor ==
  /\ pc["ctx"] = "d_wait" /\ \A t \in Threads \ {"ctx"} : pc[t] = "idle"
  /\ Goto("ctx", "s_take")
  /\ why' = [why EXCEPT !["ctx"] = "destroy"]
  /\ UNCHANGED <<state, bond, goalVars, execVars, arg, workVars, jobVars,
                 softVars, drive, faultVars, ok>>
-----------------------------------------------------------------------------
(* Driver faults. *)

\* The drive's poll thread latches a fault and calls handle_driver_fault().
DriverFault ==
  /\ drive \in Enabled
  /\ drive' = "faulted" /\ fault_pending' = TRUE
  /\ UNCHANGED <<lifeVars, goalVars, execVars, pc, arg, workVars, jobVars,
                 softVars, fault_transition_pending, ok>>

\* process_driver_fault(), on the fault timer.
ProcessDriverFault ==
  /\ drive # "absent" /\ fault_pending /\ Dispatch("life", "f_accept")
  /\ fault_pending' = FALSE
  /\ UNCHANGED <<lifeVars, goalVars, execVars, arg, workVars, jobVars, softVars,
                 drive, fault_transition_pending, ok>>

\* Only an active node has a goal to abort and a state to leave.
\* Mutant: it stops accepting goals and leaves it at that.
StopForFault(next) ==
  /\ pc["life"] = "f_accept" /\ Goto("life", next)
  /\ accepting_goals' = FALSE
  /\ UNCHANGED <<lifeVars, goal_handle, goal_pending, returning_to_upright,
                 execVars, arg, workVars, jobVars, softVars, drive, faultVars, ok>>
FaultMutant == StopForFault("idle")
FaultStopsAccepting == StopForFault(IF state = "active" THEN "f_take" ELSE "idle")
-----------------------------------------------------------------------------
(* The action server and the return_to_upright service.  A rejected request *)
(* changes nothing (the client may repeat it), so only prepare_goal()'s      *)
(* rejections, which have already overwritten the trajectory, are actions.   *)

\* The checks of goal_callback(), under goal_mutex_, before prepare_goal().
\* Mutants: one of the three reasons to be busy is forgotten.
GoalRunning == goal_handle # None /\ gstate[goal_handle] \in Live
Ready == accepting_goals /\ drive \in Enabled /\ ~soft_stop_active
AdmitWhileReturning == Ready /\ ~goal_pending /\ ~GoalRunning
AdmitWhileRunning   == Ready /\ ~goal_pending /\ ~returning_to_upright
GoalAdmissible ==
  Ready /\ ~goal_pending /\ ~returning_to_upright /\ ~GoalRunning

\* No thread holds g: its identity may stand for a new goal.
Unknown(g) == /\ gstate[g] \notin Live /\ goal_handle # g /\ wjob # g
              /\ \A t \in Threads : arg[t] # g

\* goal_callback(): ACCEPT_AND_DEFER, then the accepted callback is due.
GoalCallback(g) ==
  /\ Unknown(g) /\ Dispatch("act", "accepted")
  /\ GoalAdmissible
  /\ trajectory' = g
  /\ goal_pending' = TRUE
  /\ gstate' = [gstate EXCEPT ![g] = "accepted"]
  /\ arg' = [arg EXCEPT !["act"] = g]
  /\ UNCHANGED <<lifeVars, accepting_goals, goal_handle, returning_to_upright,
                 execVars, workVars, claimed, softVars, drive, faultVars, ok>>

\* goal_callback() when prepare_goal() finds the trajectory out of limits.
PrepareGoalFails(g) ==
  /\ Unknown(g) /\ Dispatch("act", "idle")
  /\ GoalAdmissible
  /\ trajectory' = g
  /\ UNCHANGED <<lifeVars, goalVars, execVars, arg, workVars, gstate, claimed,
                 softVars, drive, faultVars, ok>>

\* handle_accepted_callback(), its section under goal_mutex_.
HandleAccepted ==
  /\ pc["act"] = "accepted"
  /\ goal_pending' = FALSE
  /\ goal_handle' = IF accepting_goals THEN arg["act"] ELSE goal_handle
  /\ Goto("act", IF accepting_goals THEN "x_lock" ELSE "x_drop")
  /\ UNCHANGED <<lifeVars, accepting_goals, returning_to_upright, execVars, arg,
                 workVars, jobVars, softVars, drive, faultVars, ok>>

\* The claim of the return_to_upright service, under goal_mutex_.
ReturnToUpright(r) ==
  /\ r \notin claimed /\ Dispatch("ret", "x_lock")
  /\ Ready
  /\ ~goal_pending /\ ~returning_to_upright /\ goal_handle = None
  /\ returning_to_upright' = TRUE
  /\ claimed' = claimed \cup {r}
  /\ arg' = [arg EXCEPT !["ret"] = r]
  /\ UNCHANGED <<lifeVars, accepting_goals, goal_handle, goal_pending, execVars,
                 workVars, gstate, trajectory, softVars, drive, faultVars, ok>>

\* start_execution() after its join: start the worker, unless the node has
\* stopped accepting goals.
StartExecution(t) ==
  /\ pc[t] = "x_join" /\ wpc = "none"
  /\ execution_mutex' = None
  /\ \/ /\ accepting_goals
        /\ stop_execution' = FALSE
        /\ wjob' = arg[t]
        /\ wpc' = IF t = "act" THEN "execute" ELSE "r_begin"
        /\ arg' = [arg EXCEPT ![t] = None] /\ Goto(t, "idle")
     \/ /\ ~accepting_goals
        /\ Goto(t, "x_fail")
        /\ UNCHANGED <<stop_execution, wjob, wpc, arg>>
  /\ UNCHANGED <<lifeVars, goalVars, jobVars, softVars, drive,
                 faultVars, ok>>

\* A goal that could not start is unregistered, then its handle is dropped.
GoalNotStarted ==
  /\ pc["act"] = "x_fail" /\ Goto("act", "x_drop")
  /\ goal_handle' = IF goal_handle = arg["act"] THEN None ELSE goal_handle
  /\ UNCHANGED <<lifeVars, accepting_goals, goal_pending, returning_to_upright,
                 execVars, arg, workVars, jobVars, softVars, drive, faultVars, ok>>

DropGoal ==
  /\ pc["act"] = "x_drop" /\ Goto("act", "idle")
  /\ gstate' = [gstate EXCEPT ![arg["act"]] = AfterDrop(@)]
  /\ arg' = [arg EXCEPT !["act"] = None]
  /\ UNCHANGED <<lifeVars, goalVars, execVars, workVars, claimed, trajectory,
                 softVars, drive, faultVars, ok>>

\* A return that could not start gives the controller back and is answered.
\* Mutants: the claim is kept; the request is not answered.
GiveUpReturn(claim, answered) ==
  /\ pc["ret"] = "x_fail" /\ Goto("ret", "idle")
  /\ returning_to_upright' = claim
  /\ claimed' = claimed \ answered
  /\ arg' = [arg EXCEPT !["ret"] = None]
  /\ UNCHANGED <<lifeVars, accepting_goals, goal_handle, goal_pending, execVars,
                 workVars, gstate, trajectory, softVars, drive, faultVars, ok>>
KeepsClaimMutant == GiveUpReturn(TRUE, {arg["ret"]})
UnansweredMutant == GiveUpReturn(FALSE, {})
ReturnNotStarted == GiveUpReturn(FALSE, {arg["ret"]})

\* cancel_callback() accepts every cancel request, also those that the
\* cancel_all_goals service sends for all goals.
CancelGoals(G) ==
  /\ drive # "absent" /\ Dispatch("act", "idle")
  /\ \A g \in G : gstate[g] \in {"accepted", "executing"}
  /\ gstate' = [g \in Goals |-> IF g \in G THEN "canceling" ELSE gstate[g]]
  /\ UNCHANGED <<lifeVars, goalVars, execVars, arg, workVars, claimed, trajectory,
                 softVars, drive, faultVars, ok>>
-----------------------------------------------------------------------------
(* The worker. *)

\* Under goal_mutex_: forget the goal if it is still the registered one.
\* Mutant: whoever is registered is forgotten.
ClearMutant == goal_handle' = None /\ goal_pending' = FALSE
ClearIfMine ==
  IF goal_handle = wjob
  THEN goal_handle' = None /\ goal_pending' = FALSE
  ELSE UNCHANGED <<goal_handle, goal_pending>>

WorkerEnds == wpc' = "none" /\ wjob' = None

\* A step of the worker that only decides where to continue.
Branch(from, to) ==
  /\ wpc = from /\ wpc' = to
  /\ UNCHANGED <<lifeVars, goalVars, execVars, pc, arg, wjob, jobVars,
                 softVars, drive, faultVars, ok>>

\* execute_goal(): execute() throws unless the goal is in its accepted state;
\* every exception ends in release_goal(), which is halt, clear, abort.
Execute ==
  /\ wpc = "execute"
  /\ IF gstate[wjob] = "accepted"
     THEN gstate' = [gstate EXCEPT ![wjob] = "executing"] /\ wpc' = "loop"
     ELSE UNCHANGED gstate /\ wpc' = "halt"
  /\ UNCHANGED <<lifeVars, goalVars, execVars, pc, arg, wjob, claimed,
                 trajectory, softVars, drive, faultVars, ok>>

\* Mutant: a worker that ignores stop_execution_.
KeepRunningMutant == ok
KeepRunning == ok /\ ~stop_execution

CheckLoop     == Branch("loop", IF KeepRunning THEN "is_canceling" ELSE "halt")
\* Mutants: a cancel request is not looked at; it is honoured without a halt.
CheckCancelMutant1 == Branch("is_canceling", "soft_stop")
CheckCancelMutant2 == Branch("is_canceling", IF gstate[wjob] = "canceling"
                                             THEN "c_clear" ELSE "soft_stop")
CheckCancel   == Branch("is_canceling", IF gstate[wjob] = "canceling"
                                        THEN "c_halt" ELSE "soft_stop")
CheckSoftStop == Branch("soft_stop", IF soft_stop_active THEN "halt" ELSE "write")

\* publish_and_write_setpoint(): the drive follows, or refuses when it is not
\* enabled.  A pregenerated trajectory may be complete with this sample.
WriteSetpoint ==
  /\ wpc = "write"
  /\ IF drive \in Enabled
     THEN /\ drive' = "moving"
          /\ wpc' \in IF Pregenerated THEN {"loop", "done_halt"} ELSE {"loop"}
     ELSE UNCHANGED drive /\ wpc' = "f_clear"
  /\ UNCHANGED <<lifeVars, goalVars, execVars, pc, arg, wjob, jobVars,
                 softVars, faultVars, ok>>

Halt ==
  /\ \/ wpc = "halt"      /\ wpc' = "clear"
     \/ wpc = "c_halt"    /\ wpc' = "c_clear"
     \/ wpc = "done_halt" /\ wpc' = "succeed"
     \/ wpc = "r_halt"    /\ wpc' = "r_clear"
  /\ HaltDrive
  /\ UNCHANGED <<lifeVars, goalVars, execVars, pc, arg, wjob, jobVars,
                 softVars, faultVars, ok>>

\* The sections under goal_mutex_ that precede the report of a goal's end.
Clear ==
  /\ \/ wpc = "clear"   /\ wpc' = "abort"    /\ UNCHANGED accepting_goals
     \/ wpc = "c_clear" /\ wpc' = "canceled" /\ UNCHANGED accepting_goals
     \/ wpc = "f_clear" /\ wpc' = "f_signal" /\ accepting_goals' = FALSE
  /\ ClearIfMine
  /\ UNCHANGED <<lifeVars, returning_to_upright, execVars, pc, arg, wjob,
                 jobVars, softVars, drive, faultVars, ok>>

Abort ==
  /\ wpc = "abort" /\ WorkerEnds
  /\ gstate' = [gstate EXCEPT ![wjob] = AfterAbort(@)]
  /\ UNCHANGED <<lifeVars, goalVars, execVars, pc, arg, claimed, trajectory,
                 softVars, drive, faultVars, ok>>

\* canceled() throws if a lifecycle transition has aborted the goal meanwhile.
Canceled ==
  /\ wpc = "canceled"
  /\ IF gstate[wjob] = "canceling"
     THEN gstate' = [gstate EXCEPT ![wjob] = "canceled"] /\ WorkerEnds
     ELSE UNCHANGED <<gstate, wjob>> /\ wpc' = "halt"
  /\ UNCHANGED <<lifeVars, goalVars, execVars, pc, arg, claimed, trajectory,
                 softVars, drive, faultVars, ok>>

\* succeed() comes before the section under goal_mutex_, and throws as well.
Succeed ==
  /\ wpc = "succeed"
  /\ IF gstate[wjob] \in Live
     THEN gstate' = [gstate EXCEPT ![wjob] = "succeeded"] /\ wpc' = "done_clear"
     ELSE UNCHANGED gstate /\ wpc' = "halt"
  /\ UNCHANGED <<lifeVars, goalVars, execVars, pc, arg, wjob, claimed,
                 trajectory, softVars, drive, faultVars, ok>>

ClearSucceeded ==
  /\ wpc = "done_clear" /\ WorkerEnds
  /\ ClearIfMine
  /\ UNCHANGED <<lifeVars, accepting_goals, returning_to_upright, execVars, pc,
                 arg, jobVars, softVars, drive, faultVars, ok>>

\* handle_driver_fault() after a refused setpoint, then actuator_->stop().
SignalFault ==
  /\ wpc = "f_signal" /\ wpc' = "f_stop"
  /\ fault_pending' = TRUE
  /\ UNCHANGED <<lifeVars, goalVars, execVars, pc, arg, wjob, jobVars,
                 softVars, drive, fault_transition_pending, ok>>

StopAfterFault ==
  /\ wpc = "f_stop" /\ wpc' = "abort"
  /\ StopDrive
  /\ UNCHANGED <<lifeVars, goalVars, execVars, pc, arg, wjob, jobVars,
                 softVars, faultVars, ok>>

\* move_to_upright(), whose ReturnStatus only decides the answer's status code:
\* an invalid position is answered without a halt, upright already reached with.
BeginReturn ==
  /\ wpc = "r_begin" /\ wpc' \in {"r_clear", "r_halt", "r_loop"}
  /\ UNCHANGED <<lifeVars, goalVars, execVars, pc, arg, wjob, jobVars, softVars,
                 drive, faultVars, ok>>

CheckReturnLoop == Branch("r_loop", IF KeepRunning THEN "r_soft_stop" ELSE "r_halt")
CheckReturnSoftStop ==
  Branch("r_soft_stop", IF soft_stop_active THEN "r_halt" ELSE "r_write")

\* A fault seen first or a refused setpoint, else a setpoint that may reach
\* upright or the deadline.
WriteReturn ==
  /\ wpc = "r_write"
  /\ IF drive \in Enabled
     THEN drive' = "moving" /\ wpc' \in {"r_loop", "r_halt"}
     ELSE UNCHANGED drive /\ wpc' = "r_halt"
  /\ UNCHANGED <<lifeVars, goalVars, execVars, pc, arg, wjob, jobVars, softVars,
                 faultVars, ok>>

ClearReturning ==
  /\ wpc = "r_clear" /\ wpc' = "respond"
  /\ returning_to_upright' = FALSE
  /\ UNCHANGED <<lifeVars, accepting_goals, goal_handle, goal_pending, execVars,
                 pc, arg, wjob, jobVars, softVars, drive, faultVars, ok>>

Respond ==
  /\ wpc = "respond" /\ WorkerEnds
  /\ claimed' = claimed \ {wjob}
  /\ UNCHANGED <<lifeVars, goalVars, execVars, pc, arg, gstate, trajectory,
                 softVars, drive, faultVars, ok>>
-----------------------------------------------------------------------------
(* The environment. *)

\* A soft_stop message; each one restarts the liveness deadline.
SoftStopMessage(data) ==
  /\ drive # "absent" /\ ok
  /\ soft_stopped' = data /\ soft_stop_fresh' = TRUE
  /\ UNCHANGED <<lifeVars, goalVars, execVars, pc, arg, workVars, jobVars, drive,
                 faultVars, ok>>

\* soft_stop_timeout_s passes without a message.
SoftStopSilence ==
  /\ soft_stop_fresh /\ soft_stop_fresh' = FALSE
  /\ UNCHANGED <<lifeVars, goalVars, execVars, pc, arg, workVars, jobVars,
                 soft_stopped, drive, faultVars, ok>>
-----------------------------------------------------------------------------
\* What each thread does once it has begun; these steps cannot be refused.
LifeStep ==
  \/ ActuatorStart \/ FinishActivate \/ ReleaseResources \/ FaultStopsAccepting
StopStep(t) ==
  \/ StopAccepting(t) \/ TakeGoal(t) \/ AbortTaken(t) \/ JoinStopped(t)
  \/ StopActuator(t) \/ FinishStop(t)
ActStep == HandleAccepted \/ StartExecution("act") \/ GoalNotStarted \/ DropGoal
RetStep == StartExecution("ret") \/ ReturnNotStarted
GoalWorkerStep ==
  \/ Execute \/ CheckLoop \/ CheckCancel \/ CheckSoftStop \/ WriteSetpoint
  \/ Clear \/ Abort \/ Canceled \/ Succeed \/ ClearSucceeded
  \/ SignalFault \/ StopAfterFault
ReturnWorkerStep ==
  \/ BeginReturn \/ CheckReturnLoop \/ CheckReturnSoftStop \/ WriteReturn
  \/ ClearReturning \/ Respond
WorkerStep == Halt \/ GoalWorkerStep \/ ReturnWorkerStep

Requests ==
  \/ OnConfigure \/ OnActivate \/ OnDeactivate \/ OnCleanup \/ OnShutdown
  \/ PreShutdown
  \/ \E g \in Goals : GoalCallback(g) \/ PrepareGoalFails(g)
  \/ \E G \in SUBSET Goals \ {{}} : CancelGoals(G)
  \/ \E r \in Returns : ReturnToUpright(r)
Environment ==
  \/ DriverFault \/ SoftStopSilence
  \/ \E data \in BOOLEAN : SoftStopMessage(data)

\* The node has been shut down and nothing is left to happen.
Finished ==
  /\ state = "finalized" \/ pc["ctx"] = "done"
  /\ UNCHANGED vars

Next ==
  \/ LifeStep \/ ActStep \/ RetStep \/ WorkerStep
  \/ \E t \in Stoppers : StopStep(t)
  \/ \E t \in Threads : LockExecution(t)
  \/ ProcessDriverFault \/ Destructor
  \/ Requests \/ Environment \/ Finished

Spec == Init /\ [][Next]_vars

\* Every thread that can run does, one waiting for execution_mutex_ gets it
\* although lifecycle transitions keep taking it, the fault timer keeps
\* firing, a return reaches its deadline and a shutdown runs to the end.
Fairness ==
  /\ WF_vars(LifeStep) /\ WF_vars(ActStep) /\ WF_vars(RetStep)
  /\ WF_vars(WorkerStep)
  /\ WF_vars(StopStep("life")) /\ WF_vars(LockExecution("life"))
  /\ SF_vars(LockExecution("act")) /\ SF_vars(LockExecution("ret"))
  /\ WF_vars(ProcessDriverFault)
  /\ SF_vars(WriteReturn /\ wpc' = "r_halt")
ShutdownFairness ==
  WF_vars(StopStep("ctx")) /\ SF_vars(LockExecution("ctx")) /\ WF_vars(Destructor)
FairSpec == Spec /\ Fairness
FairShutdownSpec == FairSpec /\ ShutdownFairness
-----------------------------------------------------------------------------
(* Properties. *)

GoalLoop   == {"execute", "loop", "is_canceling", "soft_stop", "write"}
ReturnLoop == {"r_begin", "r_loop", "r_soft_stop", "r_write", "r_halt", "r_clear"}

\* "Claim the controller before anyone else can": a return is never under way
\* while a goal is pending or registered (return_to_upright's checks against
\* goal_callback's and handle_accepted_callback's, each under goal_mutex_ but
\* with unlocked stretches in between).
ControllerExclusive ==
  ~(returning_to_upright /\ (goal_pending \/ goal_handle # None))

\* The worker samples the trajectory that prepare_goal() configured for its own
\* goal: trajectory_ is never overwritten under a worker that still reads it.
WorkerFollowsOwnTrajectory ==
  wjob \in Goals /\ wpc \in GoalLoop => trajectory = wjob

\* While goals are admitted, a running job is visible to the admission checks: a
\* goal as goal_handle_, a return as returning_to_upright_.
RunningJobIsRegistered ==
  accepting_goals =>
    /\ wpc \in GoalLoop => goal_handle = wjob
    /\ wpc \in ReturnLoop => returning_to_upright

\* A transition that leaves the active state leaves nothing behind: no worker
\* (whose actuator_ may be freed next), no enabled drive, no registered goal.
QuietWhenNotActive ==
  pc["life"] = "idle" /\ state # "active" =>
    /\ wpc = "none" /\ drive \notin Enabled
    /\ goal_handle = None /\ ~goal_pending /\ ~accepting_goals

\* An accepted goal or a claimed return always has a thread that will report
\* its end; no path through stop, fault, cancel or exception drops it.
NoLostJob ==
  /\ \A g \in Goals : gstate[g] \in Live => wjob = g \/ arg["act"] = g
  /\ \A r \in Returns : r \in claimed => wjob = r \/ arg["ret"] = r

\* The controller is never left busy by nobody: a registered goal or a claim for
\* a return belongs to a thread that will release it.
NoStuckClaim ==
  /\ goal_handle # None => goal_handle \in {wjob, arg["act"]}
  /\ goal_pending => pc["act"] = "accepted"
  /\ returning_to_upright => pc["ret"] # "idle" \/ wpc \in ReturnLoop

\* "Goal canceled; actuator halted": the paddle is not following setpoints when a
\* goal is reported canceled.
CanceledAfterHalt ==
  [][\A g \in Goals : gstate[g] # "canceled" /\ gstate'[g] = "canceled"
                        => drive # "moving"]_vars

\* A cancel that was accepted ends the goal.
CancelEnds ==
  \A g \in Goals : gstate[g] = "canceling" ~> gstate[g] \in Terminal

\* A soft stop that stays engaged, or a soft_stop publisher that stays silent,
\* stops the paddle for good.
SoftStopStops ==
  <>[](soft_stopped \/ ~soft_stop_fresh) => <>[](drive # "moving")

\* Every lifecycle transition and fault timer callback completes: its joins and
\* mutexes never wait for ever.
TransitionsComplete == pc["life"] # "idle" ~> pc["life"] = "idle"

\* A drive fault takes the node out of the active state.
FaultLeavesActive == state = "active" /\ drive = "faulted" ~> state # "active"

\* Every claimed return_to_upright request is answered.
ReturnAnswered ==
  \A r \in Returns : r \in claimed ~> r \notin claimed

\* Ctrl-C ends with the drive stopped and every goal in a terminal state.
ShutdownCompletes ==
  pc["ctx"] # "idle" ~>
    /\ pc["ctx"] = "done" /\ drive = "absent"
    /\ \A g \in Goals : gstate[g] \notin Live
=============================================================================
