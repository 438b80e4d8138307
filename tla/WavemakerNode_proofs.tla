------------------------ MODULE WavemakerNode_proofs ------------------------
(***************************************************************************)
(* Safety of the controller node for any number of goals and returns.      *)
(***************************************************************************)
EXTENDS WavemakerNode, TLAPS

GoalLabels   == {"execute", "loop", "is_canceling", "soft_stop", "write", "halt",
                 "clear", "abort", "c_halt", "c_clear", "canceled", "f_clear",
                 "f_signal", "f_stop", "done_halt", "succeed", "done_clear"}
ReturnLabels == ReturnLoop \cup {"respond"}

\* The conditions the invariant below is about: no Ctrl-C, and no callback that sleeps
\* through a whole deactivation and reactivation.
Orderly == ~Interruptible /\ SlowStart

\* The same with regular waves, which never complete.
Regular == ~Pregenerated /\ Orderly

\* The worker has reported the registered goal's success and not yet unregistered it.
\* Admission takes the controller for free meanwhile.
Unclaimed == wpc = "done_clear" /\ goal_handle = wjob

\* Which job a thread holds where.
Holding ==
  /\ pc["ctx"] = "idle"
  /\ wpc \in GoalLabels \cup ReturnLabels \cup {"none"}
  /\ wpc = "none" => wjob = None
  /\ wpc \in GoalLabels => wjob \in Goals
  /\ wpc \in ReturnLabels => wjob \in Returns /\ wjob \in claimed
  /\ pc["act"] \in {"idle", "accepted", "x_lock", "x_join", "x_fail", "x_drop"}
  /\ IF pc["act"] = "idle" THEN arg["act"] = None ELSE arg["act"] \in Goals
  /\ pc["ret"] \in {"idle", "x_lock", "x_join", "x_fail"}
  /\ IF pc["ret"] = "idle" THEN arg["ret"] = None
                           ELSE arg["ret"] \in Returns /\ arg["ret"] \in claimed
  /\ wjob # None => arg["act"] # wjob /\ arg["ret"] # wjob

\* The worker runs, the drive is on and a goal is registered only where the
\* lifecycle lets them.
Lifecycle ==
  /\ accepting_goals => state = "active" /\ pc["life"] \in {"idle", "s_accept", "f_accept"}
  /\ pc["life"] = "a_start" => state = "inactive"
  /\ pc["life"] = "a_bond" => /\ state = "inactive"
                              /\ pc["act"] = "idle" /\ pc["ret"] = "idle"
  /\ pc["life"] \in {"f_take", "f_abort"} => state = "active"
  /\ state # "active" \/ pc["life"] \in {"s_actuator", "s_bond", "release"}
       => wpc = "none"
  /\ state # "active" /\ pc["life"] # "a_bond" => drive \notin Enabled
  /\ pc["life"] \in {"s_bond", "release"} => drive \notin Enabled
  /\ state # "active" => goal_handle = None /\ ~goal_pending
  /\ pc["life"] \in {"s_abort", "f_abort", "s_lock", "s_join", "s_actuator",
                     "s_bond", "release"} => goal_handle = None /\ ~goal_pending

\* Who owns the registration of a goal and the claim of a return.
Ownership ==
  /\ pc["act"] = "accepted" =>
       /\ goal_handle = None \/ Unclaimed
       /\ gstate[arg["act"]] \in Live
       /\ accepting_goals /\ ~Pregenerated => goal_pending
       /\ pc["life"] \in {"s_abort", "f_abort"} => arg["life"] # arg["act"]
  /\ pc["act"] \in {"x_lock", "x_join"} /\ accepting_goals => goal_handle = arg["act"]
  /\ pc["act"] = "x_drop" => goal_handle # arg["act"]
  /\ pc["act"] \in {"accepted", "x_lock", "x_join"} => trajectory = arg["act"]
  /\ goal_handle # None => gstate[goal_handle] \in Live \/ Unclaimed
  /\ wpc \in {"abort", "canceled", "f_signal", "f_stop"} => goal_handle # wjob
  /\ wpc \in GoalLabels \ {"execute"} => gstate[wjob] # "accepted"
  /\ pc["ret"] # "idle" => returning_to_upright /\ wpc \notin ReturnLoop
  /\ wpc \in {"done_halt", "succeed", "done_clear"} => Pregenerated
  /\ wpc = "done_clear" => gstate[wjob] \notin Live

Safe ==
  /\ ~Pregenerated => ControllerExclusive
  /\ WorkerFollowsOwnTrajectory
  /\ RunningJobIsRegistered
  /\ NoLostJob
  /\ NoStuckClaim

IInv == TypeOK /\ Holding /\ Lifecycle /\ Ownership /\ Safe
-----------------------------------------------------------------------------
(* One step. *)

\* Every step keeps the flags Boolean.
LEMMA FlagStep == FlagsOK /\ [Next]_vars => FlagsOK'
<1> SUFFICES ASSUME FlagsOK, [Next]_vars PROVE FlagsOK'
  OBVIOUS
<1> USE DEF FlagsOK, lifeVars, goalVars, execVars, workVars, jobVars,
      softVars, faultVars
<1>1. CASE ActuatorStart
  BY <1>1 DEF ActuatorStart, Goto
<1>2. CASE FinishActivate
  BY <1>2 DEF FinishActivate, Goto, StopDrive
<1>3. CASE ReleaseResources
  BY <1>3 DEF ReleaseResources, Goto
<1>4. CASE FaultStopsAccepting
  BY <1>4 DEF FaultStopsAccepting, StopForFault, Goto
<1>5. CASE HandleAccepted
  BY <1>5 DEF HandleAccepted, Goto
<1>6. ASSUME NEW t \in {"act", "ret"}, StartExecution(t) PROVE FlagsOK'
  BY <1>6 DEF StartExecution, Goto
<1>7. CASE GoalNotStarted
  BY <1>7 DEF GoalNotStarted, Goto
<1>8. CASE DropGoal
  BY <1>8 DEF DropGoal, AfterDrop, AfterAbort, Goto
<1>9. CASE ReturnNotStarted
  BY <1>9 DEF ReturnNotStarted, GiveUpReturn, Goto
<1>10. ASSUME NEW t \in Stoppers, StopAccepting(t) PROVE FlagsOK'
  BY <1>10 DEF StopAccepting, Goto
<1>11. ASSUME NEW t \in Stoppers, TakeGoal(t) PROVE FlagsOK'
  BY <1>11 DEF TakeGoal, Goto
<1>12. ASSUME NEW t \in Stoppers, AbortTaken(t) PROVE FlagsOK'
  BY <1>12 DEF AbortTaken, AfterAbort, Goto
<1>13. ASSUME NEW t \in Stoppers, JoinStopped(t) PROVE FlagsOK'
  BY <1>13 DEF JoinStopped, LeaveStopExecution, Goto
<1>14. ASSUME NEW t \in Stoppers, StopActuator(t) PROVE FlagsOK'
  BY <1>14 DEF StopActuator, StopDrive, Goto
<1>15. ASSUME NEW t \in Stoppers, FinishStop(t) PROVE FlagsOK'
  BY <1>15 DEF FinishStop, Goto
<1>16. ASSUME NEW t \in Threads, LockExecution(t) PROVE FlagsOK'
  BY <1>16 DEF LockExecution, Goto
<1>17. CASE ProcessDriverFault
  BY <1>17 DEF ProcessDriverFault, Dispatch, Goto
<1>18. CASE Destructor
  BY <1>18 DEF Destructor, Goto
<1>19. CASE OnConfigure
  BY <1>19 DEF OnConfigure, Dispatch, Goto
<1>20. CASE OnActivate
  BY <1>20 DEF OnActivate, Dispatch, Goto
<1>21. CASE OnDeactivate \/ OnCleanup \/ OnShutdown
  BY <1>21 DEF OnDeactivate, OnCleanup, OnShutdown, Leave, Dispatch, Goto
<1>22. CASE PreShutdown
  BY <1>22 DEF PreShutdown, Dispatch, Goto
<1>23. ASSUME NEW g \in Goals, GoalCallback(g) PROVE FlagsOK'
  BY <1>23 DEF GoalCallback, GoalAdmissible, GoalRunning, Ready, Unknown,
      Dispatch, Goto
<1>24. ASSUME NEW g \in Goals, PrepareGoalFails(g) PROVE FlagsOK'
  BY <1>24 DEF PrepareGoalFails, GoalAdmissible, GoalRunning, Ready, Unknown,
      Dispatch, Goto
<1>25. ASSUME NEW G \in SUBSET Goals, CancelGoals(G) PROVE FlagsOK'
  BY <1>25 DEF CancelGoals, Dispatch, Goto
<1>26. ASSUME NEW r \in Returns, ReturnToUpright(r) PROVE FlagsOK'
  BY <1>26 DEF ReturnToUpright, Ready, Dispatch, Goto
<1>27. CASE DriverFault
  BY <1>27 DEF DriverFault
<1>28. CASE SoftStopSilence
  BY <1>28 DEF SoftStopSilence
<1>29. ASSUME NEW data \in BOOLEAN, SoftStopMessage(data) PROVE FlagsOK'
  BY <1>29 DEF SoftStopMessage
<1>30. CASE Execute
  BY <1>30 DEF Execute
<1>31. CASE CheckLoop \/ CheckCancel \/ CheckSoftStop
  BY <1>31 DEF CheckLoop, CheckCancel, CheckSoftStop, Branch
<1>32. CASE WriteSetpoint
  BY <1>32 DEF WriteSetpoint
<1>33. CASE Halt
  BY <1>33 DEF Halt, HaltDrive
<1>34. CASE Clear
  BY <1>34 DEF Clear, ClearIfMine
<1>35. CASE Abort
  BY <1>35 DEF Abort, WorkerEnds, AfterAbort
<1>36. CASE Canceled
  BY <1>36 DEF Canceled, WorkerEnds
<1>37. CASE Succeed
  BY <1>37 DEF Succeed
<1>38. CASE ClearSucceeded
  BY <1>38 DEF ClearSucceeded, ClearIfMine, WorkerEnds
<1>39. CASE SignalFault
  BY <1>39 DEF SignalFault
<1>40. CASE StopAfterFault
  BY <1>40 DEF StopAfterFault, StopDrive
<1>41. CASE BeginReturn
  BY <1>41 DEF BeginReturn
<1>42. CASE CheckReturnLoop \/ CheckReturnSoftStop
  BY <1>42 DEF CheckReturnLoop, CheckReturnSoftStop, Branch
<1>43. CASE WriteReturn
  BY <1>43 DEF WriteReturn
<1>44. CASE ClearReturning
  BY <1>44 DEF ClearReturning
<1>45. CASE Respond
  BY <1>45 DEF Respond, WorkerEnds
<1>46. CASE UNCHANGED vars
  BY <1>46 DEF vars
<1> QED
  BY <1>1, <1>2, <1>3, <1>4, <1>5, <1>6, <1>7, <1>8, <1>9, <1>10, <1>11,
      <1>12, <1>13, <1>14, <1>15, <1>16, <1>17, <1>18, <1>19, <1>20, <1>21,
      <1>22, <1>23, <1>24, <1>25, <1>26, <1>27, <1>28, <1>29, <1>30, <1>31,
      <1>32, <1>33, <1>34, <1>35, <1>36, <1>37, <1>38, <1>39, <1>40, <1>41,
      <1>42, <1>43, <1>44, <1>45, <1>46 DEF Next, LifeStep, ActStep, RetStep,
      StopStep, WorkerStep, GoalWorkerStep, ReturnWorkerStep, Requests,
      Environment, Finished

\* Every step preserves the type invariant.
LEMMA TypeStep == TypeOK /\ [Next]_vars => TypeOK'
<1> SUFFICES ASSUME TypeOK, [Next]_vars PROVE TypeOK'
  OBVIOUS
<1> USE NodeAssumption DEF TypeOK, Jobs, Threads, Stoppers, StopLabels,
      ThreadLabels, WorkerLabels, Live, Terminal, Enabled, lifeVars, goalVars,
      execVars, workVars, jobVars, softVars, faultVars
<1>0. FlagsOK'
  BY FlagStep DEF TypeOK
<1>1. CASE ActuatorStart
  <2>1. /\ drive' \in {"hold", "off"}
        /\ \E label \in {"a_bond", "idle"} : pc' = [pc EXCEPT !["life"] = label]
    BY <1>1 DEF ActuatorStart, Goto
  <2>2. /\ UNCHANGED <<state, why, goal_handle, execution_mutex, arg, workVars>>
        /\ UNCHANGED jobVars
    BY <1>1 DEF ActuatorStart
  <2> QED
    BY <1>0, <2>1, <2>2
<1>2. CASE FinishActivate
  BY <1>0, <1>2 DEF FinishActivate, Goto, StopDrive
<1>3. CASE ReleaseResources
  BY <1>0, <1>3 DEF ReleaseResources, Goto
<1>4. CASE FaultStopsAccepting
  BY <1>0, <1>4 DEF FaultStopsAccepting, StopForFault, Goto
<1>5. CASE HandleAccepted
  BY <1>0, <1>5 DEF HandleAccepted, Goto
<1>6. ASSUME NEW t \in {"act", "ret"}, StartExecution(t) PROVE TypeOK'
  BY <1>0, <1>6 DEF StartExecution, Goto
<1>7. CASE GoalNotStarted
  BY <1>0, <1>7 DEF GoalNotStarted, Goto
<1>8. CASE DropGoal
  <2>1. gstate' = [g \in Goals |-> IF g = arg["act"] THEN AfterDrop(gstate[g]) ELSE gstate[g]]
    BY <1>8 DEF DropGoal
  <2>2. ASSUME NEW g \in Goals PROVE AfterDrop(gstate[g]) \in {"unsent"} \cup Live \cup Terminal
    BY DEF AfterDrop, AfterAbort
  <2>3. gstate' \in [Goals -> {"unsent"} \cup Live \cup Terminal]
    BY <2>1, <2>2
  <2> QED
    BY <1>0, <1>8, <2>3 DEF DropGoal, Goto
<1>9. CASE ReturnNotStarted
  BY <1>0, <1>9 DEF ReturnNotStarted, GiveUpReturn, Goto
<1>10. ASSUME NEW t \in Stoppers, StopAccepting(t) PROVE TypeOK'
  BY <1>0, <1>10 DEF StopAccepting, Goto
<1>11. ASSUME NEW t \in Stoppers, TakeGoal(t) PROVE TypeOK'
  BY <1>0, <1>11 DEF TakeGoal, Goto
<1>12. ASSUME NEW t \in Stoppers, AbortTaken(t) PROVE TypeOK'
  BY <1>0, <1>12 DEF AbortTaken, AfterAbort, Goto
<1>13. ASSUME NEW t \in Stoppers, JoinStopped(t) PROVE TypeOK'
  BY <1>0, <1>13 DEF JoinStopped, LeaveStopExecution, Goto
<1>14. ASSUME NEW t \in Stoppers, StopActuator(t) PROVE TypeOK'
  BY <1>0, <1>14 DEF StopActuator, StopDrive, Goto
<1>15. ASSUME NEW t \in Stoppers, FinishStop(t) PROVE TypeOK'
  BY <1>0, <1>15 DEF FinishStop, Goto
<1>16. ASSUME NEW t \in Threads, LockExecution(t) PROVE TypeOK'
  BY <1>0, <1>16 DEF LockExecution, Goto
<1>17. CASE ProcessDriverFault
  BY <1>0, <1>17 DEF ProcessDriverFault, Dispatch, Goto
<1>18. CASE Destructor
  BY <1>0, <1>18 DEF Destructor, Goto
<1>19. CASE OnConfigure
  BY <1>0, <1>19 DEF OnConfigure, Dispatch, Goto
<1>20. CASE OnActivate
  BY <1>0, <1>20 DEF OnActivate, Dispatch, Goto
<1>21. CASE OnDeactivate \/ OnCleanup \/ OnShutdown
  BY <1>0, <1>21 DEF OnDeactivate, OnCleanup, OnShutdown, Leave, Dispatch, Goto
<1>22. CASE PreShutdown
  BY <1>0, <1>22 DEF PreShutdown, Dispatch, Goto
<1>23. ASSUME NEW g \in Goals, GoalCallback(g) PROVE TypeOK'
  BY <1>0, <1>23 DEF GoalCallback, GoalAdmissible, GoalRunning, Ready, Unknown,
      Dispatch, Goto
<1>24. ASSUME NEW g \in Goals, PrepareGoalFails(g) PROVE TypeOK'
  BY <1>0, <1>24 DEF PrepareGoalFails, GoalAdmissible, GoalRunning, Ready, Unknown,
      Dispatch, Goto
<1>25. ASSUME NEW G \in SUBSET Goals, CancelGoals(G) PROVE TypeOK'
  BY <1>0, <1>25 DEF CancelGoals, Dispatch, Goto
<1>26. ASSUME NEW r \in Returns, ReturnToUpright(r) PROVE TypeOK'
  BY <1>0, <1>26 DEF ReturnToUpright, Ready, Dispatch, Goto
<1>27. CASE DriverFault
  BY <1>0, <1>27 DEF DriverFault
<1>28. CASE SoftStopSilence
  BY <1>0, <1>28 DEF SoftStopSilence
<1>29. ASSUME NEW data \in BOOLEAN, SoftStopMessage(data) PROVE TypeOK'
  BY <1>0, <1>29 DEF SoftStopMessage
<1>30. CASE Execute
  BY <1>0, <1>30 DEF Execute
<1>31. CASE CheckLoop \/ CheckCancel \/ CheckSoftStop
  BY <1>0, <1>31 DEF CheckLoop, CheckCancel, CheckSoftStop, Branch
<1>32. CASE WriteSetpoint
  BY <1>0, <1>32 DEF WriteSetpoint
<1>33. CASE Halt
  BY <1>0, <1>33 DEF Halt, HaltDrive
<1>34. CASE Clear
  BY <1>0, <1>34 DEF Clear, ClearIfMine
<1>35. CASE Abort
  <2>1. gstate' = [g \in Goals |-> IF g = wjob THEN AfterAbort(gstate[g]) ELSE gstate[g]]
    BY <1>35 DEF Abort
  <2>2. ASSUME NEW g \in Goals PROVE AfterAbort(gstate[g]) \in {"unsent"} \cup Live \cup Terminal
    BY DEF AfterAbort
  <2>3. gstate' \in [Goals -> {"unsent"} \cup Live \cup Terminal]
    BY <2>1, <2>2
  <2> QED
    BY <1>0, <1>35, <2>3 DEF Abort, WorkerEnds
<1>36. CASE Canceled
  BY <1>0, <1>36 DEF Canceled, WorkerEnds
<1>37. CASE Succeed
  BY <1>0, <1>37 DEF Succeed
<1>38. CASE ClearSucceeded
  BY <1>0, <1>38 DEF ClearSucceeded, ClearIfMine, WorkerEnds
<1>39. CASE SignalFault
  BY <1>0, <1>39 DEF SignalFault
<1>40. CASE StopAfterFault
  BY <1>0, <1>40 DEF StopAfterFault, StopDrive
<1>41. CASE BeginReturn
  BY <1>0, <1>41 DEF BeginReturn
<1>42. CASE CheckReturnLoop \/ CheckReturnSoftStop
  BY <1>0, <1>42 DEF CheckReturnLoop, CheckReturnSoftStop, Branch
<1>43. CASE WriteReturn
  BY <1>0, <1>43 DEF WriteReturn
<1>44. CASE ClearReturning
  BY <1>0, <1>44 DEF ClearReturning
<1>45. CASE Respond
  BY <1>0, <1>45 DEF Respond, WorkerEnds
<1>46. CASE UNCHANGED vars
  BY <1>0, <1>46 DEF vars
<1> QED
  BY <1>0, <1>1, <1>2, <1>3, <1>4, <1>5, <1>6, <1>7, <1>8, <1>9, <1>10, <1>11,
      <1>12, <1>13, <1>14, <1>15, <1>16, <1>17, <1>18, <1>19, <1>20, <1>21,
      <1>22, <1>23, <1>24, <1>25, <1>26, <1>27, <1>28, <1>29, <1>30, <1>31,
      <1>32, <1>33, <1>34, <1>35, <1>36, <1>37, <1>38, <1>39, <1>40, <1>41,
      <1>42, <1>43, <1>44, <1>45, <1>46 DEF Next, LifeStep, ActStep, RetStep,
      StopStep, WorkerStep, GoalWorkerStep, ReturnWorkerStep, Requests,
      Environment, Finished

\* Every step preserves Holding.
LEMMA HoldingStep == Orderly /\ TypeOK /\ Holding /\ [Next]_vars => Holding'
<1> SUFFICES ASSUME Orderly /\ TypeOK /\ Holding, [Next]_vars PROVE Holding'
  OBVIOUS
<1> USE NodeAssumption DEF Orderly, TypeOK, Holding, GoalLoop, ReturnLoop,
      GoalLabels, ReturnLabels, Jobs, Threads, Stoppers, Live, Terminal,
      Enabled, lifeVars, goalVars, execVars, workVars, jobVars, softVars,
      faultVars
<1>1. CASE ActuatorStart
  BY <1>1 DEF ActuatorStart, Goto
<1>2. CASE FinishActivate
  BY <1>2 DEF FinishActivate, Goto, StopDrive
<1>3. CASE ReleaseResources
  BY <1>3 DEF ReleaseResources, Goto
<1>4. CASE FaultStopsAccepting
  BY <1>4 DEF FaultStopsAccepting, StopForFault, Goto
<1>5. CASE HandleAccepted
  BY <1>5 DEF HandleAccepted, Goto
<1>6. ASSUME NEW t \in {"act", "ret"}, StartExecution(t) PROVE Holding'
  BY <1>6 DEF StartExecution, Goto
<1>7. CASE GoalNotStarted
  BY <1>7 DEF GoalNotStarted, Goto
<1>8. CASE DropGoal
  BY <1>8 DEF DropGoal, AfterDrop, AfterAbort, Goto
<1>9. CASE ReturnNotStarted
  BY <1>9 DEF ReturnNotStarted, GiveUpReturn, Goto
<1>10. ASSUME NEW t \in Stoppers, StopAccepting(t) PROVE Holding'
  BY <1>10 DEF StopAccepting, Goto
<1>11. ASSUME NEW t \in Stoppers, TakeGoal(t) PROVE Holding'
  BY <1>11 DEF TakeGoal, Goto
<1>12. ASSUME NEW t \in Stoppers, AbortTaken(t) PROVE Holding'
  BY <1>12 DEF AbortTaken, AfterAbort, Goto
<1>13. ASSUME NEW t \in Stoppers, JoinStopped(t) PROVE Holding'
  BY <1>13 DEF JoinStopped, LeaveStopExecution, Goto
<1>14. ASSUME NEW t \in Stoppers, StopActuator(t) PROVE Holding'
  BY <1>14 DEF StopActuator, StopDrive, Goto
<1>15. ASSUME NEW t \in Stoppers, FinishStop(t) PROVE Holding'
  BY <1>15 DEF FinishStop, Goto
<1>16. ASSUME NEW t \in Threads, LockExecution(t) PROVE Holding'
  BY <1>16 DEF LockExecution, Goto
<1>17. CASE ProcessDriverFault
  BY <1>17 DEF ProcessDriverFault, Dispatch, Goto
<1>18. CASE Destructor
  BY <1>18 DEF Destructor, Goto
<1>19. CASE OnConfigure
  BY <1>19 DEF OnConfigure, Dispatch, Goto
<1>20. CASE OnActivate
  BY <1>20 DEF OnActivate, Dispatch, Goto
<1>21. CASE OnDeactivate \/ OnCleanup \/ OnShutdown
  BY <1>21 DEF OnDeactivate, OnCleanup, OnShutdown, Leave, Dispatch, Goto
<1>22. CASE PreShutdown
  BY <1>22 DEF PreShutdown, Dispatch, Goto
<1>23. ASSUME NEW g \in Goals, GoalCallback(g) PROVE Holding'
  BY <1>23 DEF GoalCallback, GoalAdmissible, GoalRunning, Ready, Unknown,
      Dispatch, Goto
<1>24. ASSUME NEW g \in Goals, PrepareGoalFails(g) PROVE Holding'
  BY <1>24 DEF PrepareGoalFails, GoalAdmissible, GoalRunning, Ready, Unknown,
      Dispatch, Goto
<1>25. ASSUME NEW G \in SUBSET Goals, CancelGoals(G) PROVE Holding'
  BY <1>25 DEF CancelGoals, Dispatch, Goto
<1>26. ASSUME NEW r \in Returns, ReturnToUpright(r) PROVE Holding'
  BY <1>26 DEF ReturnToUpright, Ready, Dispatch, Goto
<1>27. CASE DriverFault
  BY <1>27 DEF DriverFault
<1>28. CASE SoftStopSilence
  BY <1>28 DEF SoftStopSilence
<1>29. ASSUME NEW data \in BOOLEAN, SoftStopMessage(data) PROVE Holding'
  BY <1>29 DEF SoftStopMessage
<1>30. CASE Execute
  BY <1>30 DEF Execute
<1>31. CASE CheckLoop \/ CheckCancel \/ CheckSoftStop
  BY <1>31 DEF CheckLoop, CheckCancel, CheckSoftStop, Branch
<1>32. CASE WriteSetpoint
  BY <1>32 DEF WriteSetpoint
<1>33. CASE Halt
  BY <1>33 DEF Halt, HaltDrive
<1>34. CASE Clear
  BY <1>34 DEF Clear, ClearIfMine
<1>35. CASE Abort
  BY <1>35 DEF Abort, WorkerEnds, AfterAbort
<1>36. CASE Canceled
  BY <1>36 DEF Canceled, WorkerEnds
<1>37. CASE Succeed
  BY <1>37 DEF Succeed
<1>38. CASE ClearSucceeded
  BY <1>38 DEF ClearSucceeded, ClearIfMine, WorkerEnds
<1>39. CASE SignalFault
  BY <1>39 DEF SignalFault
<1>40. CASE StopAfterFault
  BY <1>40 DEF StopAfterFault, StopDrive
<1>41. CASE BeginReturn
  BY <1>41 DEF BeginReturn
<1>42. CASE CheckReturnLoop \/ CheckReturnSoftStop
  BY <1>42 DEF CheckReturnLoop, CheckReturnSoftStop, Branch
<1>43. CASE WriteReturn
  BY <1>43 DEF WriteReturn
<1>44. CASE ClearReturning
  BY <1>44 DEF ClearReturning
<1>45. CASE Respond
  BY <1>45 DEF Respond, WorkerEnds
<1>46. CASE UNCHANGED vars
  BY <1>46 DEF vars
<1> QED
  BY <1>1, <1>2, <1>3, <1>4, <1>5, <1>6, <1>7, <1>8, <1>9, <1>10, <1>11,
      <1>12, <1>13, <1>14, <1>15, <1>16, <1>17, <1>18, <1>19, <1>20, <1>21,
      <1>22, <1>23, <1>24, <1>25, <1>26, <1>27, <1>28, <1>29, <1>30, <1>31,
      <1>32, <1>33, <1>34, <1>35, <1>36, <1>37, <1>38, <1>39, <1>40, <1>41,
      <1>42, <1>43, <1>44, <1>45, <1>46 DEF Next, LifeStep, ActStep, RetStep,
      StopStep, WorkerStep, GoalWorkerStep, ReturnWorkerStep, Requests,
      Environment, Finished

\* Every step preserves Lifecycle.
LEMMA LifecycleStep == Orderly /\ TypeOK /\ Holding /\ Lifecycle /\ [Next]_vars => Lifecycle'
<1> SUFFICES ASSUME Orderly /\ TypeOK /\ Holding /\ Lifecycle, [Next]_vars
      PROVE Lifecycle'
  OBVIOUS
<1> USE NodeAssumption DEF Orderly, TypeOK, Holding, Lifecycle, GoalLoop,
      ReturnLoop, GoalLabels, ReturnLabels, Jobs, Threads, Stoppers, Live,
      Terminal, Enabled, lifeVars, goalVars, execVars, workVars, jobVars,
      softVars, faultVars
<1>1. CASE ActuatorStart
  BY <1>1 DEF ActuatorStart, Goto
<1>2. CASE FinishActivate
  BY <1>2 DEF FinishActivate, Goto, StopDrive
<1>3. CASE ReleaseResources
  BY <1>3 DEF ReleaseResources, Goto
<1>4. CASE FaultStopsAccepting
  BY <1>4 DEF FaultStopsAccepting, StopForFault, Goto
<1>5. CASE HandleAccepted
  BY <1>5 DEF HandleAccepted, Goto
<1>6. ASSUME NEW t \in {"act", "ret"}, StartExecution(t) PROVE Lifecycle'
  BY <1>6 DEF StartExecution, Goto
<1>7. CASE GoalNotStarted
  BY <1>7 DEF GoalNotStarted, Goto
<1>8. CASE DropGoal
  BY <1>8 DEF DropGoal, AfterDrop, AfterAbort, Goto
<1>9. CASE ReturnNotStarted
  BY <1>9 DEF ReturnNotStarted, GiveUpReturn, Goto
<1>10. ASSUME NEW t \in Stoppers, StopAccepting(t) PROVE Lifecycle'
  BY <1>10 DEF StopAccepting, Goto
<1>11. ASSUME NEW t \in Stoppers, TakeGoal(t) PROVE Lifecycle'
  BY <1>11 DEF TakeGoal, Goto
<1>12. ASSUME NEW t \in Stoppers, AbortTaken(t) PROVE Lifecycle'
  BY <1>12 DEF AbortTaken, AfterAbort, Goto
<1>13. ASSUME NEW t \in Stoppers, JoinStopped(t) PROVE Lifecycle'
  BY <1>13 DEF JoinStopped, LeaveStopExecution, Goto
<1>14. ASSUME NEW t \in Stoppers, StopActuator(t) PROVE Lifecycle'
  BY <1>14 DEF StopActuator, StopDrive, Goto
<1>15. ASSUME NEW t \in Stoppers, FinishStop(t) PROVE Lifecycle'
  BY <1>15 DEF FinishStop, Goto
<1>16. ASSUME NEW t \in Threads, LockExecution(t) PROVE Lifecycle'
  BY <1>16 DEF LockExecution, Goto
<1>17. CASE ProcessDriverFault
  BY <1>17 DEF ProcessDriverFault, Dispatch, Goto
<1>18. CASE Destructor
  BY <1>18 DEF Destructor, Goto
<1>19. CASE OnConfigure
  BY <1>19 DEF OnConfigure, Dispatch, Goto
<1>20. CASE OnActivate
  BY <1>20 DEF OnActivate, Dispatch, Goto
<1>21. CASE OnDeactivate \/ OnCleanup \/ OnShutdown
  BY <1>21 DEF OnDeactivate, OnCleanup, OnShutdown, Leave, Dispatch, Goto
<1>22. CASE PreShutdown
  BY <1>22 DEF PreShutdown, Dispatch, Goto
<1>23. ASSUME NEW g \in Goals, GoalCallback(g) PROVE Lifecycle'
  BY <1>23 DEF GoalCallback, GoalAdmissible, GoalRunning, Ready, Unknown,
      Dispatch, Goto
<1>24. ASSUME NEW g \in Goals, PrepareGoalFails(g) PROVE Lifecycle'
  BY <1>24 DEF PrepareGoalFails, GoalAdmissible, GoalRunning, Ready, Unknown,
      Dispatch, Goto
<1>25. ASSUME NEW G \in SUBSET Goals, CancelGoals(G) PROVE Lifecycle'
  BY <1>25 DEF CancelGoals, Dispatch, Goto
<1>26. ASSUME NEW r \in Returns, ReturnToUpright(r) PROVE Lifecycle'
  BY <1>26 DEF ReturnToUpright, Ready, Dispatch, Goto
<1>27. CASE DriverFault
  BY <1>27 DEF DriverFault
<1>28. CASE SoftStopSilence
  BY <1>28 DEF SoftStopSilence
<1>29. ASSUME NEW data \in BOOLEAN, SoftStopMessage(data) PROVE Lifecycle'
  BY <1>29 DEF SoftStopMessage
<1>30. CASE Execute
  BY <1>30 DEF Execute
<1>31. CASE CheckLoop \/ CheckCancel \/ CheckSoftStop
  BY <1>31 DEF CheckLoop, CheckCancel, CheckSoftStop, Branch
<1>32. CASE WriteSetpoint
  BY <1>32 DEF WriteSetpoint
<1>33. CASE Halt
  BY <1>33 DEF Halt, HaltDrive
<1>34. CASE Clear
  BY <1>34 DEF Clear, ClearIfMine
<1>35. CASE Abort
  BY <1>35 DEF Abort, WorkerEnds, AfterAbort
<1>36. CASE Canceled
  BY <1>36 DEF Canceled, WorkerEnds
<1>37. CASE Succeed
  BY <1>37 DEF Succeed
<1>38. CASE ClearSucceeded
  BY <1>38 DEF ClearSucceeded, ClearIfMine, WorkerEnds
<1>39. CASE SignalFault
  BY <1>39 DEF SignalFault
<1>40. CASE StopAfterFault
  BY <1>40 DEF StopAfterFault, StopDrive
<1>41. CASE BeginReturn
  BY <1>41 DEF BeginReturn
<1>42. CASE CheckReturnLoop \/ CheckReturnSoftStop
  BY <1>42 DEF CheckReturnLoop, CheckReturnSoftStop, Branch
<1>43. CASE WriteReturn
  BY <1>43 DEF WriteReturn
<1>44. CASE ClearReturning
  BY <1>44 DEF ClearReturning
<1>45. CASE Respond
  BY <1>45 DEF Respond, WorkerEnds
<1>46. CASE UNCHANGED vars
  BY <1>46 DEF vars
<1> QED
  BY <1>1, <1>2, <1>3, <1>4, <1>5, <1>6, <1>7, <1>8, <1>9, <1>10, <1>11,
      <1>12, <1>13, <1>14, <1>15, <1>16, <1>17, <1>18, <1>19, <1>20, <1>21,
      <1>22, <1>23, <1>24, <1>25, <1>26, <1>27, <1>28, <1>29, <1>30, <1>31,
      <1>32, <1>33, <1>34, <1>35, <1>36, <1>37, <1>38, <1>39, <1>40, <1>41,
      <1>42, <1>43, <1>44, <1>45, <1>46 DEF Next, LifeStep, ActStep, RetStep,
      StopStep, WorkerStep, GoalWorkerStep, ReturnWorkerStep, Requests,
      Environment, Finished

\* Every step preserves Ownership.
LEMMA OwnershipStep == Orderly /\ IInv /\ [Next]_vars => Ownership'
<1> SUFFICES ASSUME Orderly /\ IInv, [Next]_vars PROVE Ownership'
  OBVIOUS
<1> USE NodeAssumption DEF Orderly, IInv, TypeOK, Holding, Lifecycle,
      Ownership, Unclaimed, Safe, ControllerExclusive, RunningJobIsRegistered, GoalLoop,
      ReturnLoop, GoalLabels, ReturnLabels, Jobs, Threads, Stoppers, Live,
      Terminal, Enabled, lifeVars, goalVars, execVars, workVars, jobVars,
      softVars, faultVars
<1>1. CASE ActuatorStart
  BY <1>1 DEF ActuatorStart, Goto
<1>2. CASE FinishActivate
  BY <1>2 DEF FinishActivate, Goto, StopDrive
<1>3. CASE ReleaseResources
  BY <1>3 DEF ReleaseResources, Goto
<1>4. CASE FaultStopsAccepting
  BY <1>4 DEF FaultStopsAccepting, StopForFault, Goto
<1>5. CASE HandleAccepted
  BY <1>5 DEF HandleAccepted, Goto
<1>6. ASSUME NEW t \in {"act", "ret"}, StartExecution(t) PROVE Ownership'
  BY <1>6 DEF StartExecution, Goto
<1>7. CASE GoalNotStarted
  BY <1>7 DEF GoalNotStarted, Goto
<1>8. CASE DropGoal
  BY <1>8 DEF DropGoal, AfterDrop, AfterAbort, Goto
<1>9. CASE ReturnNotStarted
  BY <1>9 DEF ReturnNotStarted, GiveUpReturn, Goto
<1>10. ASSUME NEW t \in Stoppers, StopAccepting(t) PROVE Ownership'
  BY <1>10 DEF StopAccepting, Goto
<1>11. ASSUME NEW t \in Stoppers, TakeGoal(t) PROVE Ownership'
  BY <1>11 DEF TakeGoal, Goto
<1>12. ASSUME NEW t \in Stoppers, AbortTaken(t) PROVE Ownership'
  <2>0. pc[t] \in {"s_abort", "f_abort"}
    BY <1>12 DEF AbortTaken
  <2>1. t = "life" /\ pc["life"] \in {"s_abort", "f_abort"} /\ goal_handle = None
    BY <1>12, <2>0
  <2>2. \A g \in Goals : g # arg["life"] => gstate'[g] = gstate[g]
    BY <1>12, <2>1 DEF AbortTaken
  <2>3. \A g \in Goals : /\ gstate[g] # "accepted" => gstate'[g] # "accepted"
                         /\ gstate[g] \notin Live => gstate'[g] \notin Live
    BY <1>12 DEF AbortTaken, AfterAbort
  <2>4. UNCHANGED <<goalVars, workVars, trajectory>>
    BY <1>12 DEF AbortTaken
  <2>5. /\ pc'["life"] \in {"s_lock", "s_accept"}
        /\ pc'["act"] = pc["act"] /\ pc'["ret"] = pc["ret"]
        /\ arg'["act"] = arg["act"] /\ arg'["ret"] = arg["ret"]
    BY <1>12, <2>1 DEF AbortTaken, Goto
  <2>6. pc["act"] = "accepted" => gstate'[arg["act"]] = gstate[arg["act"]]
    BY <2>1, <2>2
  <2> QED
    BY <2>1, <2>3, <2>4, <2>5, <2>6
<1>13. ASSUME NEW t \in Stoppers, JoinStopped(t) PROVE Ownership'
  BY <1>13 DEF JoinStopped, LeaveStopExecution, Goto
<1>14. ASSUME NEW t \in Stoppers, StopActuator(t) PROVE Ownership'
  BY <1>14 DEF StopActuator, StopDrive, Goto
<1>15. ASSUME NEW t \in Stoppers, FinishStop(t) PROVE Ownership'
  BY <1>15 DEF FinishStop, Goto
<1>16. ASSUME NEW t \in Threads, LockExecution(t) PROVE Ownership'
  BY <1>16 DEF LockExecution, Goto
<1>17. CASE ProcessDriverFault
  BY <1>17 DEF ProcessDriverFault, Dispatch, Goto
<1>18. CASE Destructor
  BY <1>18 DEF Destructor, Goto
<1>19. CASE OnConfigure
  BY <1>19 DEF OnConfigure, Dispatch, Goto
<1>20. CASE OnActivate
  BY <1>20 DEF OnActivate, Dispatch, Goto
<1>21. CASE OnDeactivate \/ OnCleanup \/ OnShutdown
  BY <1>21 DEF OnDeactivate, OnCleanup, OnShutdown, Leave, Dispatch, Goto
<1>22. CASE PreShutdown
  BY <1>22 DEF PreShutdown, Dispatch, Goto
<1>23. ASSUME NEW g \in Goals, GoalCallback(g) PROVE Ownership'
  BY <1>23 DEF GoalCallback, GoalAdmissible, GoalRunning, Ready, Unknown,
      Dispatch, Goto
<1>24. ASSUME NEW g \in Goals, PrepareGoalFails(g) PROVE Ownership'
  BY <1>24 DEF PrepareGoalFails, GoalAdmissible, GoalRunning, Ready, Unknown,
      Dispatch, Goto
<1>25. ASSUME NEW G \in SUBSET Goals, CancelGoals(G) PROVE Ownership'
  BY <1>25 DEF CancelGoals, Dispatch, Goto
<1>26. ASSUME NEW r \in Returns, ReturnToUpright(r) PROVE Ownership'
  BY <1>26 DEF ReturnToUpright, Ready, Dispatch, Goto
<1>27. CASE DriverFault
  BY <1>27 DEF DriverFault
<1>28. CASE SoftStopSilence
  BY <1>28 DEF SoftStopSilence
<1>29. ASSUME NEW data \in BOOLEAN, SoftStopMessage(data) PROVE Ownership'
  BY <1>29 DEF SoftStopMessage
<1>30. CASE Execute
  BY <1>30 DEF Execute
<1>31. CASE CheckLoop \/ CheckCancel \/ CheckSoftStop
  BY <1>31 DEF CheckLoop, CheckCancel, CheckSoftStop, Branch
<1>32. CASE WriteSetpoint
  BY <1>32 DEF WriteSetpoint
<1>33. CASE Halt
  BY <1>33 DEF Halt, HaltDrive
<1>34. CASE Clear
  BY <1>34 DEF Clear, ClearIfMine
<1>35. CASE Abort
  BY <1>35 DEF Abort, WorkerEnds, AfterAbort
<1>36. CASE Canceled
  BY <1>36 DEF Canceled, WorkerEnds
<1>37. CASE Succeed
  BY <1>37 DEF Succeed
<1>38. CASE ClearSucceeded
  BY <1>38 DEF ClearSucceeded, ClearIfMine, WorkerEnds
<1>39. CASE SignalFault
  BY <1>39 DEF SignalFault
<1>40. CASE StopAfterFault
  BY <1>40 DEF StopAfterFault, StopDrive
<1>41. CASE BeginReturn
  BY <1>41 DEF BeginReturn
<1>42. CASE CheckReturnLoop \/ CheckReturnSoftStop
  BY <1>42 DEF CheckReturnLoop, CheckReturnSoftStop, Branch
<1>43. CASE WriteReturn
  BY <1>43 DEF WriteReturn
<1>44. CASE ClearReturning
  BY <1>44 DEF ClearReturning
<1>45. CASE Respond
  BY <1>45 DEF Respond, WorkerEnds
<1>46. CASE UNCHANGED vars
  BY <1>46 DEF vars
<1> QED
  BY <1>1, <1>2, <1>3, <1>4, <1>5, <1>6, <1>7, <1>8, <1>9, <1>10, <1>11,
      <1>12, <1>13, <1>14, <1>15, <1>16, <1>17, <1>18, <1>19, <1>20, <1>21,
      <1>22, <1>23, <1>24, <1>25, <1>26, <1>27, <1>28, <1>29, <1>30, <1>31,
      <1>32, <1>33, <1>34, <1>35, <1>36, <1>37, <1>38, <1>39, <1>40, <1>41,
      <1>42, <1>43, <1>44, <1>45, <1>46 DEF Next, LifeStep, ActStep, RetStep,
      StopStep, WorkerStep, GoalWorkerStep, ReturnWorkerStep, Requests,
      Environment, Finished

\* Every step preserves the safety properties.
LEMMA SafeStep == Orderly /\ IInv /\ [Next]_vars => Safe'
<1> SUFFICES ASSUME Orderly /\ IInv, [Next]_vars PROVE Safe'
  OBVIOUS
<1> USE NodeAssumption DEF Orderly, IInv, TypeOK, Holding, Lifecycle,
      Ownership, Unclaimed, Safe, ControllerExclusive, WorkerFollowsOwnTrajectory,
      RunningJobIsRegistered, NoLostJob, NoStuckClaim, GoalLoop, ReturnLoop,
      GoalLabels, ReturnLabels, Jobs, Threads, Stoppers, Live, Terminal,
      Enabled, lifeVars, goalVars, execVars, workVars, jobVars, softVars,
      faultVars
<1>1. CASE ActuatorStart
  BY <1>1 DEF ActuatorStart, Goto
<1>2. CASE FinishActivate
  BY <1>2 DEF FinishActivate, Goto, StopDrive
<1>3. CASE ReleaseResources
  BY <1>3 DEF ReleaseResources, Goto
<1>4. CASE FaultStopsAccepting
  BY <1>4 DEF FaultStopsAccepting, StopForFault, Goto
<1>5. CASE HandleAccepted
  BY <1>5 DEF HandleAccepted, Goto
<1>6. ASSUME NEW t \in {"act", "ret"}, StartExecution(t) PROVE Safe'
  BY <1>6 DEF StartExecution, Goto
<1>7. CASE GoalNotStarted
  BY <1>7 DEF GoalNotStarted, Goto
<1>8. CASE DropGoal
  BY <1>8 DEF DropGoal, AfterDrop, AfterAbort, Goto
<1>9. CASE ReturnNotStarted
  BY <1>9 DEF ReturnNotStarted, GiveUpReturn, Goto
<1>10. ASSUME NEW t \in Stoppers, StopAccepting(t) PROVE Safe'
  BY <1>10 DEF StopAccepting, Goto
<1>11. ASSUME NEW t \in Stoppers, TakeGoal(t) PROVE Safe'
  BY <1>11 DEF TakeGoal, Goto
<1>12. ASSUME NEW t \in Stoppers, AbortTaken(t) PROVE Safe'
  BY <1>12 DEF AbortTaken, AfterAbort, Goto
<1>13. ASSUME NEW t \in Stoppers, JoinStopped(t) PROVE Safe'
  BY <1>13 DEF JoinStopped, LeaveStopExecution, Goto
<1>14. ASSUME NEW t \in Stoppers, StopActuator(t) PROVE Safe'
  BY <1>14 DEF StopActuator, StopDrive, Goto
<1>15. ASSUME NEW t \in Stoppers, FinishStop(t) PROVE Safe'
  BY <1>15 DEF FinishStop, Goto
<1>16. ASSUME NEW t \in Threads, LockExecution(t) PROVE Safe'
  BY <1>16 DEF LockExecution, Goto
<1>17. CASE ProcessDriverFault
  BY <1>17 DEF ProcessDriverFault, Dispatch, Goto
<1>18. CASE Destructor
  BY <1>18 DEF Destructor, Goto
<1>19. CASE OnConfigure
  BY <1>19 DEF OnConfigure, Dispatch, Goto
<1>20. CASE OnActivate
  BY <1>20 DEF OnActivate, Dispatch, Goto
<1>21. CASE OnDeactivate \/ OnCleanup \/ OnShutdown
  BY <1>21 DEF OnDeactivate, OnCleanup, OnShutdown, Leave, Dispatch, Goto
<1>22. CASE PreShutdown
  BY <1>22 DEF PreShutdown, Dispatch, Goto
<1>23. ASSUME NEW g \in Goals, GoalCallback(g) PROVE Safe'
  <2>1. goal_handle = None \/ Unclaimed
    BY <1>23 DEF GoalCallback, GoalAdmissible, GoalRunning
  <2>2. ~returning_to_upright /\ wpc \notin GoalLoop
    BY <1>23, <2>1 DEF GoalCallback, GoalAdmissible, Ready
  <2>3. /\ goal_handle' = goal_handle /\ ~returning_to_upright' /\ pc'["act"] = "accepted"
        /\ UNCHANGED <<accepting_goals, workVars, claimed>>
    BY <1>23, <2>2 DEF GoalCallback, Dispatch, Goto
  <2>4. /\ pc["act"] = "idle" /\ pc'["ret"] = pc["ret"]
        /\ arg'["act"] = g /\ arg'["ret"] = arg["ret"]
    BY <1>23 DEF GoalCallback, Dispatch, Goto
  <2>5. \A h \in Goals : h # g => gstate'[h] = gstate[h]
    BY <1>23 DEF GoalCallback
  <2>6. wpc \notin ReturnLoop
    BY <2>2, <1>23 DEF GoalCallback, GoalAdmissible, Ready
  <2>7. NoLostJob'
    BY <2>3, <2>4, <2>5
  <2> QED
    BY <2>1, <2>2, <2>3, <2>4, <2>6, <2>7
<1>24. ASSUME NEW g \in Goals, PrepareGoalFails(g) PROVE Safe'
  BY <1>24 DEF PrepareGoalFails, GoalAdmissible, GoalRunning, Ready, Unknown,
      Dispatch, Goto
<1>25. ASSUME NEW G \in SUBSET Goals, CancelGoals(G) PROVE Safe'
  BY <1>25 DEF CancelGoals, Dispatch, Goto
<1>26. ASSUME NEW r \in Returns, ReturnToUpright(r) PROVE Safe'
  <2>1. /\ goal_handle = None /\ ~goal_pending /\ ~returning_to_upright
        /\ UNCHANGED <<goal_handle, goal_pending, accepting_goals>>
        /\ UNCHANGED <<workVars, gstate, trajectory>>
    BY <1>26 DEF ReturnToUpright
  <2>2. /\ returning_to_upright' /\ claimed' = claimed \cup {r}
        /\ pc["ret"] = "idle" /\ pc'["ret"] = "x_lock" /\ arg'["ret"] = r
        /\ pc'["act"] = pc["act"] /\ arg'["act"] = arg["act"]
    BY <1>26 DEF ReturnToUpright, Dispatch, Goto
  <2>3. arg["ret"] \notin claimed
    BY <2>1, <2>2
  <2>4. NoLostJob'
    BY <2>1, <2>2, <2>3
  <2> QED
    BY <2>1, <2>2, <2>4
<1>27. CASE DriverFault
  BY <1>27 DEF DriverFault
<1>28. CASE SoftStopSilence
  BY <1>28 DEF SoftStopSilence
<1>29. ASSUME NEW data \in BOOLEAN, SoftStopMessage(data) PROVE Safe'
  BY <1>29 DEF SoftStopMessage
<1>30. CASE Execute
  BY <1>30 DEF Execute
<1>31. CASE CheckLoop \/ CheckCancel \/ CheckSoftStop
  BY <1>31 DEF CheckLoop, CheckCancel, CheckSoftStop, Branch
<1>32. CASE WriteSetpoint
  BY <1>32 DEF WriteSetpoint
<1>33. CASE Halt
  BY <1>33 DEF Halt, HaltDrive
<1>34. CASE Clear
  BY <1>34 DEF Clear, ClearIfMine
<1>35. CASE Abort
  BY <1>35 DEF Abort, WorkerEnds, AfterAbort
<1>36. CASE Canceled
  BY <1>36 DEF Canceled, WorkerEnds
<1>37. CASE Succeed
  BY <1>37 DEF Succeed
<1>38. CASE ClearSucceeded
  BY <1>38 DEF ClearSucceeded, ClearIfMine, WorkerEnds
<1>39. CASE SignalFault
  BY <1>39 DEF SignalFault
<1>40. CASE StopAfterFault
  BY <1>40 DEF StopAfterFault, StopDrive
<1>41. CASE BeginReturn
  BY <1>41 DEF BeginReturn
<1>42. CASE CheckReturnLoop \/ CheckReturnSoftStop
  BY <1>42 DEF CheckReturnLoop, CheckReturnSoftStop, Branch
<1>43. CASE WriteReturn
  BY <1>43 DEF WriteReturn
<1>44. CASE ClearReturning
  BY <1>44 DEF ClearReturning
<1>45. CASE Respond
  BY <1>45 DEF Respond, WorkerEnds
<1>46. CASE UNCHANGED vars
  BY <1>46 DEF vars
<1> QED
  BY <1>1, <1>2, <1>3, <1>4, <1>5, <1>6, <1>7, <1>8, <1>9, <1>10, <1>11,
      <1>12, <1>13, <1>14, <1>15, <1>16, <1>17, <1>18, <1>19, <1>20, <1>21,
      <1>22, <1>23, <1>24, <1>25, <1>26, <1>27, <1>28, <1>29, <1>30, <1>31,
      <1>32, <1>33, <1>34, <1>35, <1>36, <1>37, <1>38, <1>39, <1>40, <1>41,
      <1>42, <1>43, <1>44, <1>45, <1>46 DEF Next, LifeStep, ActStep, RetStep,
      StopStep, WorkerStep, GoalWorkerStep, ReturnWorkerStep, Requests,
      Environment, Finished
-----------------------------------------------------------------------------
(* The specification. *)

\* Type correctness, whatever the configuration: goal states that rcl_action
\* knows, a lifecycle state, and threads at statements they really have.
THEOREM TypeCorrect == Spec => []TypeOK
<1>1. ASSUME Init PROVE TypeOK
  <2>1. FlagsOK
    BY <1>1 DEF Init, FlagsOK
  <2> QED
    BY <1>1, <2>1, NodeAssumption
    DEF Init, TypeOK, Jobs, Threads, Stoppers, StopLabels, ThreadLabels,
        WorkerLabels, Enabled, Live, Terminal
<1> QED
  BY <1>1, TypeStep, PTL DEF Spec

\* The initial state satisfies the inductive invariant.
LEMMA InitIInv == Orderly /\ Init => IInv
<1> SUFFICES ASSUME Orderly, Init PROVE IInv
  OBVIOUS
<1> USE NodeAssumption DEF Init, Jobs, Threads, Stoppers, Live, Terminal, Enabled
<1>1. TypeOK
  BY DEF TypeOK, FlagsOK, StopLabels, ThreadLabels, WorkerLabels
<1>2. Holding
  BY DEF Holding, GoalLabels, ReturnLabels, ReturnLoop
<1>3. Lifecycle
  BY DEF Lifecycle
<1>4. Ownership
  BY DEF Ownership, GoalLabels, ReturnLabels, ReturnLoop
<1>5. Safe
  BY DEF Safe, ControllerExclusive, WorkerFollowsOwnTrajectory, NoLostJob,
      RunningJobIsRegistered, NoStuckClaim, GoalLoop, ReturnLoop
<1> QED
  BY <1>1, <1>2, <1>3, <1>4, <1>5 DEF IInv

\* IInv is an invariant of the node, whichever kind of waves it makes.
LEMMA Invariance == Orderly /\ Spec => []IInv
<1>1. Orderly /\ IInv /\ [Next]_vars => IInv'
  BY TypeStep, HoldingStep, LifecycleStep, OwnershipStep, SafeStep DEF IInv
<1>2. Orderly => Orderly'
  BY DEF Orderly
<1> QED
  BY <1>1, <1>2, InitIInv, PTL DEF Spec

\* A return_to_upright is never under way while a goal is pending or registered:
\* the two admission checks, each atomic under goal_mutex_, exclude each other
\* although the goal is registered only two unlocked stretches later.
THEOREM Exclusive == Regular /\ Spec => []ControllerExclusive
<1>1. Regular /\ IInv => ControllerExclusive
  BY DEF Regular, IInv, Safe
<1>2. Regular => Orderly /\ Regular'
  BY DEF Regular, Orderly
<1> QED
  BY <1>1, <1>2, Invariance, PTL

\* The worker samples the trajectory prepare_goal() made for its own goal: no
\* other goal's preparation comes between the two.
THEOREM OwnTrajectory == Orderly /\ Spec => []WorkerFollowsOwnTrajectory
  BY Invariance, PTL DEF IInv, Safe

\* The admission checks see the job the worker runs, from its admission to its
\* end, through every stop and fault in between.
THEOREM JobIsRegistered == Orderly /\ Spec => []RunningJobIsRegistered
  BY Invariance, PTL DEF IInv, Safe

\* No path through stop, fault, cancel or exception drops an accepted goal or a
\* claimed return.
THEOREM JobsAreKept == Orderly /\ Spec => []NoLostJob
  BY Invariance, PTL DEF IInv, Safe

\* Nor does one leave the controller claimed by nobody.
THEOREM ClaimsAreReleased == Orderly /\ Spec => []NoStuckClaim
  BY Invariance, PTL DEF IInv, Safe

\* When on_deactivate, on_cleanup, on_error or on_shutdown returns there is no
\* worker, no enabled drive and no registered goal.
THEOREM Quiet == Orderly /\ Spec => []QuietWhenNotActive
<1>1. IInv => QuietWhenNotActive
  BY DEF IInv, Lifecycle, QuietWhenNotActive
<1> QED
  BY <1>1, Invariance, PTL
-----------------------------------------------------------------------------
(* A goal reported canceled. *)

\* The statements between a worker's setpoint and its halt.
Driving == {"loop", "is_canceling", "soft_stop", "write", "halt", "c_halt",
            "r_loop", "r_soft_stop", "r_write", "r_halt"}

\* The drive follows setpoints only under a worker that has yet to halt it; and none
\* does while the accepted callback holds a goal that may be dropped.
Rest ==
  /\ drive = "moving" => wpc \in Driving
  /\ pc["act"] # "idle" => /\ drive # "moving" /\ wpc \notin GoalLoop
                           /\ wpc \notin ReturnLoop \ {"r_halt", "r_clear"}
  /\ pc["act"] \in {"x_fail", "x_drop"} => ~accepting_goals
  /\ accepting_goals /\ drive = "moving" /\ wpc \in {"halt", "c_halt"} =>
       goal_handle = wjob

\* Every step preserves Rest.
LEMMA RestStep == Regular /\ IInv /\ Rest /\ [Next]_vars => Rest'
<1> SUFFICES ASSUME Regular, IInv, Rest, [Next]_vars PROVE Rest'
  OBVIOUS
<1> USE NodeAssumption DEF Regular, Orderly, IInv, TypeOK, Holding, Lifecycle,
      Ownership, Unclaimed, Safe, ControllerExclusive, RunningJobIsRegistered, GoalLoop,
      ReturnLoop, GoalLabels, ReturnLabels, Threads, Stoppers, Enabled, Rest, Driving,
      lifeVars, goalVars, execVars, workVars, jobVars, softVars, faultVars
<1>1. CASE ActuatorStart \/ FinishActivate \/ ReleaseResources
  <2>1. CASE ActuatorStart
    BY <2>1 DEF ActuatorStart, Goto
  <2>2. CASE FinishActivate
    BY <2>2 DEF FinishActivate, StopDrive, Goto
  <2>3. CASE ReleaseResources
    BY <2>3 DEF ReleaseResources, Goto
  <2> QED
    BY <1>1, <2>1, <2>2, <2>3
<1>2. CASE FaultStopsAccepting
  BY <1>2 DEF FaultStopsAccepting, StopForFault, Goto
<1>3. CASE HandleAccepted \/ GoalNotStarted \/ DropGoal
  BY <1>3 DEF HandleAccepted, GoalNotStarted, DropGoal, Goto
<1>4. CASE StartExecution("act") \/ StartExecution("ret")
  BY <1>4 DEF StartExecution, Goto
<1>5. CASE ReturnNotStarted
  BY <1>5 DEF ReturnNotStarted, GiveUpReturn, Goto
<1>6. ASSUME NEW t \in Stoppers, StopAccepting(t) \/ TakeGoal(t) \/ AbortTaken(t) PROVE Rest'
  BY <1>6 DEF StopAccepting, TakeGoal, AbortTaken, Goto
<1>7. ASSUME NEW t \in Stoppers, JoinStopped(t) \/ StopActuator(t) PROVE Rest'
  BY <1>7 DEF JoinStopped, LeaveStopExecution, StopActuator, StopDrive, Goto
<1>8. ASSUME NEW t \in Stoppers, FinishStop(t) PROVE Rest'
  BY <1>8 DEF FinishStop, Goto
<1>9. ASSUME NEW t \in Threads, LockExecution(t) PROVE Rest'
  BY <1>9 DEF LockExecution, Goto
<1>10. CASE ProcessDriverFault \/ Destructor \/ OnConfigure \/ OnActivate \/ PreShutdown
  BY <1>10 DEF ProcessDriverFault, Destructor, OnConfigure, OnActivate, PreShutdown,
      Dispatch, Goto
<1>11. CASE OnDeactivate \/ OnCleanup \/ OnShutdown
  BY <1>11 DEF OnDeactivate, OnCleanup, OnShutdown, Leave, Dispatch, Goto
<1>12. ASSUME NEW g \in Goals, GoalCallback(g) \/ PrepareGoalFails(g) PROVE Rest'
  BY <1>12 DEF GoalCallback, PrepareGoalFails, GoalAdmissible, GoalRunning, Ready,
      Dispatch, Goto
<1>13. ASSUME NEW G \in SUBSET Goals, CancelGoals(G) PROVE Rest'
  BY <1>13 DEF CancelGoals, Dispatch, Goto
<1>14. ASSUME NEW r \in Returns, ReturnToUpright(r) PROVE Rest'
  BY <1>14 DEF ReturnToUpright, Ready, Dispatch, Goto
<1>15. CASE DriverFault \/ SoftStopSilence \/ \E data \in BOOLEAN : SoftStopMessage(data)
  BY <1>15 DEF DriverFault, SoftStopSilence, SoftStopMessage
<1>16. CASE Execute \/ CheckLoop \/ CheckCancel \/ CheckSoftStop
  BY <1>16 DEF Execute, CheckLoop, CheckCancel, CheckSoftStop, Branch
<1>17. CASE WriteSetpoint \/ Halt
  BY <1>17 DEF WriteSetpoint, Halt, HaltDrive
<1>18. CASE Clear \/ Abort \/ Canceled \/ Succeed \/ ClearSucceeded
  BY <1>18 DEF Clear, ClearIfMine, Abort, Canceled, Succeed, ClearSucceeded, WorkerEnds
<1>19. CASE SignalFault \/ StopAfterFault
  BY <1>19 DEF SignalFault, StopAfterFault, StopDrive
<1>20. CASE BeginReturn \/ CheckReturnLoop \/ CheckReturnSoftStop
  BY <1>20 DEF BeginReturn, CheckReturnLoop, CheckReturnSoftStop, Branch
<1>21. CASE WriteReturn \/ ClearReturning \/ Respond
  BY <1>21 DEF WriteReturn, ClearReturning, Respond, WorkerEnds
<1>22. CASE UNCHANGED vars
  BY <1>22 DEF vars
<1> QED
  BY <1>1, <1>2, <1>3, <1>4, <1>5, <1>6, <1>7, <1>8, <1>9, <1>10, <1>11, <1>12,
      <1>13, <1>14, <1>15, <1>16, <1>17, <1>18, <1>19, <1>20, <1>21, <1>22
   DEF Next, LifeStep, ActStep, RetStep, StopStep, WorkerStep, GoalWorkerStep,
      ReturnWorkerStep, Requests, Environment, Finished

\* A goal is reported canceled by its worker, or dropped before it had one.
LEMMA CanceledStep ==
  ASSUME TypeOK, [Next]_vars, NEW g \in Goals,
         gstate[g] # "canceled", gstate'[g] = "canceled"
  PROVE  wpc = "canceled" \/ pc["act"] = "x_drop"
<1> USE DEF TypeOK, Threads, Stoppers, Live, Terminal, jobVars
<1>1. ASSUME UNCHANGED gstate PROVE FALSE
  BY <1>1
<1>2. CASE Canceled \/ DropGoal
  BY <1>2 DEF Canceled, DropGoal
<1>3. CASE Execute \/ Abort \/ Succeed
  BY <1>3 DEF Execute, Abort, Succeed, AfterAbort
<1>4. ASSUME NEW t \in Stoppers, AbortTaken(t) PROVE FALSE
  BY <1>4 DEF AbortTaken, AfterAbort
<1>5. ASSUME NEW h \in Goals, GoalCallback(h) PROVE FALSE
  BY <1>5 DEF GoalCallback
<1>6. ASSUME NEW G \in SUBSET Goals, CancelGoals(G) PROVE FALSE
  BY <1>6 DEF CancelGoals
<1>7. ASSUME LifeStep \/ RetStep \/ ProcessDriverFault \/ Destructor \/ Environment
      PROVE  UNCHANGED gstate
  BY <1>7 DEF LifeStep, ActuatorStart, FinishActivate, ReleaseResources, FaultStopsAccepting,
      StopForFault, RetStep, StartExecution, ReturnNotStarted, GiveUpReturn,
      ProcessDriverFault, Destructor, Environment, DriverFault, SoftStopSilence, SoftStopMessage
<1>8. ASSUME NEW t \in Stoppers, StopStep(t), ~AbortTaken(t) PROVE UNCHANGED gstate
  BY <1>8 DEF StopStep, StopAccepting, TakeGoal, JoinStopped, LeaveStopExecution,
      StopActuator, FinishStop
<1>9. ASSUME NEW t \in Threads, LockExecution(t) PROVE UNCHANGED gstate
  BY <1>9 DEF LockExecution
<1>10. ASSUME OnConfigure \/ OnActivate \/ OnDeactivate \/ OnCleanup \/ OnShutdown \/ PreShutdown
       PROVE  UNCHANGED gstate
  BY <1>10 DEF OnConfigure, OnActivate, OnDeactivate, OnCleanup, OnShutdown, Leave, PreShutdown
<1>11. ASSUME NEW h \in Goals, PrepareGoalFails(h) PROVE UNCHANGED gstate
  BY <1>11 DEF PrepareGoalFails
<1>12. ASSUME NEW r \in Returns, ReturnToUpright(r) PROVE UNCHANGED gstate
  BY <1>12 DEF ReturnToUpright
<1>13. ASSUME HandleAccepted \/ StartExecution("act") \/ GoalNotStarted PROVE UNCHANGED gstate
  BY <1>13 DEF HandleAccepted, StartExecution, GoalNotStarted
<1>14. ASSUME \/ Halt \/ CheckLoop \/ CheckCancel \/ CheckSoftStop \/ WriteSetpoint \/ Clear
              \/ ClearSucceeded \/ SignalFault \/ StopAfterFault
       PROVE  UNCHANGED gstate
  BY <1>14 DEF Halt, CheckLoop, CheckCancel, CheckSoftStop, Branch, WriteSetpoint, Clear,
      ClearSucceeded, SignalFault, StopAfterFault
<1>15. ASSUME ReturnWorkerStep PROVE UNCHANGED gstate
  BY <1>15 DEF ReturnWorkerStep, BeginReturn, CheckReturnLoop, CheckReturnSoftStop, Branch,
      WriteReturn, ClearReturning, Respond
<1>16. ASSUME UNCHANGED vars PROVE UNCHANGED gstate
  BY <1>16 DEF vars
<1> QED
  BY <1>1, <1>2, <1>3, <1>4, <1>5, <1>6, <1>7, <1>8, <1>9, <1>10, <1>11, <1>12, <1>13,
      <1>14, <1>15, <1>16
   DEF Next, ActStep, WorkerStep, GoalWorkerStep, Requests, Finished

\* When a client hears that its goal is canceled the paddle has been halted: by the
\* worker before it reported, and where a goal is dropped unstarted no other worker
\* is still moving it.
THEOREM HaltsFirst == Regular /\ Spec => CanceledAfterHalt
<1>1. Init => Rest
  BY DEF Init, Rest, Threads
<1>2. IInv /\ Rest /\ [Next]_vars =>
        [\A g \in Goals : gstate[g] # "canceled" /\ gstate'[g] = "canceled"
                            => drive # "moving"]_vars
  <2> SUFFICES ASSUME IInv, Rest, [Next]_vars, NEW g \in Goals,
                      gstate[g] # "canceled", gstate'[g] = "canceled"
               PROVE  drive # "moving"
    OBVIOUS
  <2>1. wpc = "canceled" \/ pc["act"] = "x_drop"
    BY CanceledStep DEF IInv
  <2> QED
    BY <2>1 DEF Rest, Driving
<1>3. Regular => Orderly /\ Regular'
  BY DEF Regular, Orderly
<1> QED
  BY <1>1, <1>2, <1>3, RestStep, Invariance, PTL DEF Spec, CanceledAfterHalt
=============================================================================
