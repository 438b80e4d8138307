# TLA+ models of the wavemaker control stack

This directory models the software that drives a wave maker: a ROS 2 lifecycle
controller, the driver of an IndraDrive servo behind a Moxa MGate gateway, and the
bridge and the web server in front of them. Module names and definitions follow the
source; `PROJECT.json` maps each definition to the lines it stands for.

## The system

```
web page -> web_server.py -> topics -> wavemaker_bridge -> action/services
                                                               |
 soft_stop.py --(soft_stop topic)--------------------> wavemaker_node
                                                               | WavemakerActuator
                                                     IndraDriveActuator
                                                               |
                                       IndraDrive -> MGateDriver -> ModbusTcpClient
                                                               |
                                           MGate gateway -> PROFIBUS -> drive
```

| Component | State | Operations | What makes it correct |
|---|---|---|---|
| controller node (`wavemaker_node.cpp`) | lifecycle state, `accepting_goals_`, `goal_handle_`, `goal_pending_`, `returning_to_upright_`, worker thread, soft stop, pending fault | lifecycle transitions, goal/accepted/cancel callbacks, two services, fault timer, worker loops, Ctrl-C | one motion at a time, each job ends exactly once, nothing runs outside *active*, faults and stops always take effect |
| actuator and drive (`indradrive_actuator.cpp`, `indradrive.cpp`) | `enabled_`, `fault_`, staged control word and target | start, setpoint, halt, stop; `on_cycle()` on the poll thread | no jump on activation, no torque behind a fault, failures noticed and reported |
| gateway driver (`mgate_driver.cpp`) | output image and dirty span, inputs, status, `running_`, `online_`, `have_data_` | tag writes, poll cycle, reconnect, start, stop | what is staged reaches the gateway, in an order that pairs values correctly; `stop()` returns |
| Modbus client (`modbus_tcp.cpp`) | socket, transaction id | connect, transact | answers belong to their requests; leftovers in the socket do no lasting harm |
| process image (`process_image.cpp`) | byte buffers | encode, decode, registers | values arrive as they were meant, and keep their place |
| bridge (`wavemaker_bridge.cpp`) | Idle/Starting/Running/Stopping, goal handle, heartbeat | start, stop, goal response and result, watchdog | never reports idle with a wave running |
| soft stop (`soft_stop.py`) | pin history | tick | a released button is never reported too early |
| web server (`web_server.py`) | heartbeat, pending start, idle timer | HTTP handlers, timers | an unattended wave is stopped, an attended one is not |
| trajectories, wave maths | configured wave | configure, sample, peak speed, range | what is admitted can be made by the drive |

Hard behaviours: five threads in the controller share members under a mutex that
is released between check and use; a worker is joined under another mutex; the
poll thread and the command thread share the control word without a lock; the
link fails in the middle of a transfer; status words are stale by a cycle;
silence, faults and Ctrl-C arrive at any moment. `PROJECT.json` lists them as
hazards, each with its line and the properties that cover it.

## Modules

* **`WavemakerNode`** - the controller. Four callback threads (`pc`, one label for
  each statement between unlocked points) and the worker (`wpc`). A section under
  `goal_mutex_` is one action; `execution_mutex_` is a variable because it is held
  across a join. Goals live in `gstate` as `rcl_action` keeps them, including the
  exceptions that `execute()`, `canceled()` and `succeed()` throw. A goal identity
  may be used again once no thread holds it, so behaviours are unbounded.
  The drive is one of absent, off, hold, moving, faulted. `trajectory` says for
  which goal `prepare_goal()` last configured the shared trajectory. Requests that
  are rejected before they change anything are not actions.
* **`MGateDriver`** - the gateway driver: the owner's `Write`, `Start`, `Stop`,
  `Join`, and the poll thread's cycle, with `flush_outputs()` cut at every unlock
  and every transaction. The image is bytes, so word alignment, chunks and the
  dirty span are those of the code. A failed transaction may have taken effect.
* **`MGateOutputs`** - that driver with `move_to()`'s two writes, other writers and
  a start/stop owner; history variables record what was staged since the copy and
  whether this poll thread has read anything.
* **`IndraDrive`** - extends `MGateDriver` with `on_cycle()` and `latch_fault()`
  statement by statement on the poll thread, and `IndraDriveActuator`'s commands
  on the command thread. The drive, the axis and the bus are external: the drive
  obeys the gateway's word some time later, the water moves an axis without
  torque, the drive fails at any time and is repaired once the gateway no longer
  asks for torque.
* **`WavemakerBridge`** - the bridge. Its executor has one thread, so each callback is
  one action on the record of its members. Goal requests, answers, results and
  cancels are messages that overtake each other; the controller's action server is
  external: it accepts or rejects, cancels, ends goals on its own, and may vanish
  and come back. A goal stands for the generation it was sent with and may be used
  again once nothing of it is on its way.
* **`BridgeContract`** - the abstract specification of the bridge, as its clients see
  it on the state topic: which state may follow which, that a wave only begins under
  a live heartbeat, that stops end and that no wave outlives the heartbeat.
  `WavemakerBridge` implements it (`Clients == INSTANCE BridgeContract WITH active <-
  lc = "active", st <- b.st`; the property `KeepsContract`).
* **`WebServer`** - the web server, composed with `BridgeContract` in place of the
  bridge. The bridge's part may make every transition of the contract at any time, with
  one exception: it is activated only while the server is up and no automatic stop has
  begun, because the lifecycle manager that activates it belongs to the same launch.
  Under that condition the results of `web` carry over to any bridge that keeps the
  contract, and so to `WavemakerBridge`. HTTP handlers, ROS callbacks, the check thread of each start and the
  automatic stop interleave; `height`, `period`, `start` and `stop` are unordered;
  the status topics hold one sample. Each request has values of its own, so a
  request stands for its height and its period. Other clients send values, starts, stops
  and heartbeats of their own. The lifecycle manager may take the bridge down after a
  controller fault or a broken bond, and may fail when it is asked to; the server may
  crash; heartbeats get lost.
* **`ModbusTcp`** - the client's `connect()` and `transact()`, one action for each
  receive. `wire` is what this connection will still deliver, in headers, bodies and
  torn rests. The actions of an unhealthy gateway (late, lost or malformed replies,
  a closed connection) are only possible while `healthy` is false; leftovers of that
  time are still there when it is true again.
* **`ProcessImage`**, **`Trajectory`** - pure operators: tags, byte orders, scaling and
  registers; the two trajectories with their ranges, durations and peak speeds. All
  in integers, with the unit chosen so small that nothing relevant is lost.
* **`SetpointPath`** - a goal or return from its admission over the worker's cycles,
  the clamp, the actuator's conversion, `move_to()`'s limits and the process image to
  the registers the drive reads, and the measured position on its way back. A return
  has the tolerance of its request, or the node's default when that is 0.
* **`MC_*`** - values of the constants for TLC.
* **`WavemakerNode_proofs`**, **`MGateOutputs_proofs`**, **`IndraDrive_proofs`**,
  **`ModbusTcp_proofs`**, **`WavemakerBridge_proofs`**, **`WebServer_proofs`**,
  **`SetpointPath_proofs`** - the theorems about each module, with the inductive
  invariants they need; **`MGateDriver_proofs`** -
  lemmas on the gateway driver's steps that the proofs about its two users share.

How they fit together:

```
WebServer -- extends --> BridgeContract <== implemented by == WavemakerBridge
                                                                  | (goals, cancels)
                        SetpointPath (data) . . . . . . . . .  WavemakerNode (control)
                        | extends                                 | (start, write, halt, stop)
                 Trajectory, ProcessImage                     IndraDrive -- extends --> MGateDriver
                                                              MGateOutputs -- extends --^   . ModbusTcp
```

`IndraDrive` abstracts from velocity (see `MGateOutputs` and `SetpointPath`) and
merges the waits for operating mode and power. `MGateDriver` takes a transaction's
outcome as given; `ModbusTcp` says how it comes about. `SetpointPath` takes jobs one
at a time on an enabled drive without faults, which is what `WavemakerNode` and
`IndraDrive` are about.

## Runs

| Run | Constants | Shows |
|---|---|---|
| `node_safety` | 2 goals, 1 return, pregenerated | the worker follows its own trajectory and is visible to admission; nothing runs outside *active*; no job lost, no claim left behind |
| `node_waves` | 1 goal, 1 return, regular waves, fair | goal and return exclude each other; a goal is reported canceled only after the halt; cancels, soft stops, faults, transitions, returns end |
| `node_shutdown` | 1 goal, Ctrl-C, fair | Ctrl-C at any moment ends with the drive stopped and all goals terminal |
| `mgate_outputs` | 4 words, chunks of 3, 2 moves | a successful cycle delivers all that was staged before its copy; target never ahead of velocity; data never of an earlier thread; `stop()` returns |
| `drive_commands` | 2 positions | no jump, no torque at a reconnect, confirmed off is off, no torque left behind a fault, faults reported |
| `drive_watchdog` | 1 position, fair | an enabled drive's failure is noticed |
| `bridge` | 2 goals, 2 stop callers, fair | no wave of the bridge runs unattended; every stop ends, and its registered caller is answered unless a later one takes its place; loss of the heartbeat ends the wave; the contract is kept |
| `web` | 1 request, another client, timeout of 2 ticks, fair | a wave with other values than its start asked for is stopped; without a page and without another client's heartbeat no wave stays; the automatic stop begins only after quiet ticks and, once begun, completes |
| `link` | 8 identifiers, 4 attempts, up to 7 requests behind, fair | an accepted answer is its request's own; a recovered gateway costs one failed transaction at most |
| `setpoint_path` | 4 configurations, 2 jobs, 39 position goals, 3 amplitudes, 3 tolerances of a return | no admitted setpoint is refused, clipped, out of reach at its speed, or changed on the wire; tags keep their values and places |
| `node_exclusive` | as `node_safety` | **violated**: see findings |
| `mgate_dirty` | `write_only_dirty` on | **violated** |

Why the bounds are enough: at most one goal is pending, one registered and one in
an old worker, and the old and the new are what the races need: two goals. The
return service handles one request at a time. Four registers in chunks of three
make the second chunk shorter than the first and keep target and velocity in one
chunk, as the code's limit of over a hundred registers does; two moves give an old
and a new pair. Two positions tell "here"
from "elsewhere". The bridge needs an abandoned goal and its successor, and a stop
caller and the one that displaces it. The web
server's races are between one start and anything else: another client's values
stand for those of a second request. `link` needs more late replies than attempts,
and identifiers that wrap. `setpoint_path` uses bytes of three bits, which keeps
values small while negative positions still fill all four bytes; both kinds of waves, both kinds of upright and every start position
up to the tolerance outside the limits; two jobs, so that the second starts where the
first left the paddle; control cycles up to `MaxJitter` late. `Moves`
(the calls of `move_to()` in a behaviour) and `MaxCancels` are the only other caps: a
cancel-all sent while one is on its way merges with it and still arrives after it was
sent; one that comes late and meets a later goal is among the behaviours. Deadlock is not checked in `setpoint_path`, whose
behaviours end after `MaxJobs` jobs of at most `MaxElapsed`, nor in `web`, where
everything stops once the server has exited.

### Fairness

Every thread that can run does (weak fairness of its steps): the executor is
multi-threaded, loops sleep on the steady clock and every wait has a deadline. A
thread that waits for `execution_mutex_` gets it although others keep taking it
(strong fairness, for threads in competition). The fault timer keeps firing, and a
return's deadline passes (strong fairness of the exit of its loop). Requests,
faults and soft-stop messages are never fair. In `WavemakerBridge` the executor
runs its timers and what arrives, messages to and from a controller that stays
arrive, and the controller handles them and ends what is cancelled; that it stays
is not assumed. In `ModbusTcp` every receive has a timeout and the poll thread goes
on. In `WebServer` the automatic stop's thread runs, a heartbeat that nobody
sends times out (whether other clients send it is free), the bridge's timer watches (promised by `BridgeContract`), and the
launch ends the bridge once the server has exited. Neither messages nor the start
checks need to be fair: `WrongWaveStops` says who has the stop in hand.

### Assumptions about time

* `SlowStart`: `actuator_->start()` sleeps for at least 200 ms and exchanges several
  cycles; an action or service callback that has only a few statements left
  finishes meanwhile. With `SlowStart = FALSE` a stalled callback starts its
  worker in the next activation, and `WorkerFollowsOwnTrajectory`,
  `RunningJobIsRegistered` and `ControllerExclusive` fail, contrary to the comment
  at `wavemaker_node.cpp:843-845`.
* `Prompt`: the command thread gets from a passed wait to its next one while the
  poll thread sleeps (`poll_interval_ms`, or `reconnect_ms` after a failure), and
  `start()`'s 200 ms are enough for the drive to obey the word that is on the
  gateway and for a cycle to tell. With `Prompt = FALSE` the control word written
  after a failed cycle is what the reconnect sends, and `ReconnectSendsOff`,
  `NoJump`, `FaultedRestsOff` and `ConfirmedOff` fail.
* Ctrl-C during `on_activate` can leave a job running behind the shutdown's back
  for a while, so the exclusion properties are checked and proved without it
  (`Interruptible = FALSE`); `node_shutdown` checks where it ends.

### Other assumptions

* `ModbusTcp`: the gateway answers in order and is never `Late` or more requests
  behind on one connection; bytes read out of step are never taken for the header of
  the awaited reply.
* `SetpointPath`: exact arithmetic; for a linear drive, that `min_position_m` and
  `max_position_m` agree with `wavemaker_minimum` and `wavemaker_maximum` (the code
  reads them from different parameters and does not compare them).
* `WebServer`: `START_CHECK_S` outlasts the way of a start to the bridge and of its
  announcement back, and a tick of the idle count is longer than either; the server
  runs under `lab.launch.py`, which ends everything with it. With `web.launch.py`
  alone, a failed lifecycle manager leaves bridge and controller running.

## Findings

1. `node_exclusive`: `succeed()` precedes the section that unregisters the goal. A
   goal admitted in between loses its `goal_pending_`, and a return can be claimed
   beside it. Only pregenerated trajectories complete, so only they are affected;
   `CanceledAfterHalt` fails there for the same reason.
2. `mgate_dirty`: with `write_only_dirty`, a write inside the transmitted span during
   the transfer is forgotten. The controller runs with it off; the driver's own
   default is on.
3. `bridge`: open item 12 of `src/TODO.md` (lines 19-20) says that the bridge can get
   stuck in `stopping` because the timeout is only armed for stop-service calls. The
   code arms it for every stop of its own goal and gives the goal up at once when the
   action server is absent (`wavemaker_bridge.cpp:275-284`); `StopEnds` and the promise
   in `KeepsContract` hold, so the item is out of date. (Item 5 is too: the default of
   `write_only_dirty` in `indradrive_actuator.cpp:46` is already `false`.)

Behaviours the models contain and no property forbids:

* a fault signalled late stays pending across configure and activate, and takes the
  new activation down (`wavemaker_node.cpp:1222`);
* a latched fault and a control word with drive ON coexist until the command thread's
  next wait gives up (`indradrive.cpp:207`; `FaultedRestsOff` shows that no command
  ends like that);
* a second call of the bridge's stop service during a stop takes the place of the
  first, whose caller is not answered (`wavemaker_bridge.cpp:273`; `StopEnds` says that
  this is the only way for a caller to go without an answer to a stop of the bridge's goal);
* while another client sends heartbeats, as `COMMISSIONING.md:328` does from a terminal,
  losing the page does not stop the wave. `src/README.md:255` says that closing the page
  stops the wave, and names other open pages as the only exception; `NoPageNoWave` is
  stated for the case that no other client beats;
* the automatic stop may begin over a wave that began after the last tick, whose state
  the server has not received or received after its check (`wave.recent` in
  `NoEarlyStop`), and a wave that comes and goes between two ticks does not restart the
  count; the stop then takes everything down (`AutoStopEnds`);
* a goal the bridge gave up because the action server looked absent (`unconfirmed`;
  the message says so), and a goal whose client `on_cleanup()` destroyed (`orphans`),
  run on; `Supervised` exempts both;
* the announcement of a wave is overwritten on its one-sample topic before the web
  server takes it, or the wave begins after its check has ended: its values are not
  compared (`wave.watched`, exempt from `WrongWaveStops`).

## Proofs

TLAPS proves the following for every value of the constants that satisfies the named
assumptions. None of the properties is inductive as it stands, so each module has an
inductive invariant, a lemma for each part of it (or for each action), and a last
step that combines them. TLC finds the invariants of the controller, the gateway driver,
the drive, the client, the bridge and the web server to hold with the constants of the
runs `node_safety`, `node_waves`, `mgate_outputs`, `drive_commands`, `link`, `bridge` and
`web`.

| Module | Theorem | States | Hypotheses |
|---|---|---|---|
| `WavemakerNode_proofs` | `TypeCorrect` | `TypeOK` | |
| | `OwnTrajectory`, `JobIsRegistered`, `JobsAreKept`, `ClaimsAreReleased`, `Quiet` | `WorkerFollowsOwnTrajectory`, `RunningJobIsRegistered`, `NoLostJob`, `NoStuckClaim`, `QuietWhenNotActive` | `Orderly` |
| | `Exclusive`, `HaltsFirst` | `ControllerExclusive`, `CanceledAfterHalt` | `Regular` |
| `MGateOutputs_proofs` | `TypeCorrect`, `FreshData` | `TypeOK`, `DataIsFresh` | |
| | `Delivers` | `CycleDelivers` | `SendsAll` |
| | `VelocityLeads` | `NoStaleVelocity` | `SendsAll`, `DriveLayout` |
| `IndraDrive_proofs` | `TypeCorrect`, `FaultsAreReported` | `TypeInv`, `FaultIsReported` | |
| | `ReconnectsOff`, `FaultedIsOff`, `StaysOff`, `NoJumps` | `ReconnectSendsOff`, `FaultedRestsOff`, `ConfirmedOff`, `NoJump` | `Prompt` |
| `ModbusTcp_proofs` | `TypeCorrect`, `OwnAnswer`, `RecoveryAtOnce` | `TypeOK`, `AnswerIsOwn`, `RecoversAtOnce` | |
| `WavemakerBridge_proofs` | `TypeCorrect`, `WavesAreSupervised` | `TypeOK`, `Supervised` | |
| | `KeepsOrder` | `Clients!Order`, the transitions of `KeepsContract` | |
| `WebServer_proofs` | `TypeCorrect`, `WrongWavesStop`, `NotEarly` | `TypeOK`, `WrongWaveStops`, `NoEarlyStop` | |
| `SetpointPath_proofs` | `TagsAreKept` | `SetInt` and `GetInt`, for every image, tag and value | `Bytes256` |
| | `PathHolds` | `PathInv`, the inductive invariant | `Bytes256` |
| | `SetpointsAreTaken`, `WavesAreWhole`, `WireIsTrue`, `ImageIsTrue` | `NeverRefused`, `WaveIsNotClipped`, `WireCarriesSetpoint`, `ImageKeepsTags` | `Bytes256` |

### Hypotheses and assumptions

* `Orderly`: no Ctrl-C, and `SlowStart`; both are explained under the assumptions about
  time. `Regular`: the same with regular waves only. The two properties under it are
  false for pregenerated waves (finding 1).
* `Bytes256`: a byte has 256 values, as in the code. The run uses smaller bytes because
  TLC's integers have 32 bits, and shares all definitions.
* `SendsAll`: `write_only_dirty` is off, as the controller configures the driver;
  `CycleDelivers` is false otherwise (finding 2).
* `DriveLayout`: tags do not overlap, and target and velocity begin within the first
  transaction. The drive's outputs take a few words; a transaction carries 123.
  Two transactions may be torn apart by a failure, so the order of a target and a
  velocity in different ones is not the driver's to keep.
* `Prompt`: see the assumptions about time. It is what orders a command thread that
  has seen a good cycle against the poll thread that has just seen a bad one.
* `MGateAssumption`: the tags lie within the image. `IndraAssumption`: control word
  and target do not overlap and are sent by the first transaction; every cycle sends
  all outputs. `ModbusAssumption`: `Late` is less than the number of identifiers,
  without which an old answer would carry a new request's identifier.
  `MovesAssumption`, `NodeAssumption`, `BridgeAssumption` and `WebAssumption` only
  keep kinds of values apart and bounds positive.
* `PathAssumption`: what the node and the drive object check when they are configured
  (ordered limits, positive steps and speeds, an upright within the limits), and that
  the drive's limits are whole numbers of the model's unit away from upright.
  `TagAssumption`: limits and speeds fit their tags of 32 bits, the words theirs of 16.
  `SlackAssumption`: a return's duration, in the model's small units, bounds the rounding
  that `WaveIsNotClipped` tolerates at its end. `TrajectoryAssumption`: a sine between
  -1 and 1; nothing else of the table is used. TLC evaluates all assumptions in the runs.

### Arguments

* **Node.** `IInv` is the conjunction of `TypeOK`, `Holding` (which job each thread
  holds at each of the labels it can reach), `Lifecycle` (a worker, an energised drive
  and a registration exist only where the lifecycle lets them), `Ownership` (which
  thread owns the registration of a goal, its trajectory and the claim of a return)
  and `Safe` (the properties themselves). With pregenerated waves the worker reports
  success before it unregisters its goal; `Unclaimed` is that window, in which another
  goal may be admitted, and in which a pending goal may lose its mark. The goal it leads
  to is still registered and started alone, which is why only the exclusion of a return
  depends on the kind of waves. `CanceledAfterHalt` is about steps, and
  needs `Rest` besides: the drive follows setpoints only under a worker that has yet
  to halt it, and no worker of a goal runs while the accepted callback holds one.
* **Gateway driver.** `Delivery` follows the copied span through its transactions:
  what has been sent is in the gateway, and what was staged since the copy is in
  `written`. `Pairing` says that velocity is ahead of target in the image, in the
  registers of a flush and in the gateway, and that a transaction carries both.
* **Drive.** Each step is first reduced to what it does to the control word, the
  target and the flags (`StepView`: one of `CommandMoves`, `CycleMoves`,
  `CallbackMoves`, `PlantMoves`), so that the invariants are proved on scalars and
  the image's layout is dealt with once. `WordsInv` is about the copies of the two
  tags, `ThreadInv` about when the poll thread lives, `LatchInv` about the fault being
  latched; they need no hypothesis. `PromptInv` adds the rest of the argument in the
  order in which torque comes and goes: `OfflineInv` (a lost link), `DataInv`,
  `CleanInv` and `BeforeRun` (nothing of an earlier connection is left when `enable()`
  begins), `FaultInv`, `RisingInv` and `UpInv` (torque requested is torque confirmed),
  `OffInv` (after `disable()`), and `SentInv`, `RegsInv`, `ImageInv` (wherever a word
  says *follow*, its target is where the axis is held). `ReconnectSendsOff` and
  `NoJump` are action properties that follow from it.
* **Modbus client.** The identifier of a piece on the wire and its age add up, modulo
  the identifiers, to the client's counter (`SentBefore`), and pieces lie in the order
  of their requests, at most two to a request (`InOrder`). An answer whose identifier
  matches therefore has age 0 or `TidSpace`, and no piece gets that old. `CalmInv`
  says what one failure in a calm time leaves: a new connection with nothing on it.
* **Bridge.** `StateInv` ties the published state to the members, `GoalInv` and
  `CurrentInv` say what the messages of a goal under way imply, and `Watching` is the
  property itself for goals nobody has been told to stop. From the same invariant every
  callback is shown to be a step of `BridgeContract` or to leave what it sees
  unchanged (`StepShows`), which is the refinement's safety part.
* **Web server.** `CheckInv` says what has become of the check of the present
  wave's start: its announcement is still to be taken, was compared with the right
  result, or the stop is sent. `CountInv` keeps the idle count at most a tick
  ahead of the silence, and `RecentInv` says that a wave from before the last tick
  keeps the silence at zero. The bridge makes the
  transitions of `BridgeContract`, so the two theorems hold behind any bridge that keeps
  them and is activated only as said above.
* **Setpoint path.** The encoding is undone by the decoding (`Encoded`, `Horner`), each
  byte order is its own inverse (`ReorderTwice`), and bits are told apart by their powers
  of two (`BitsApart`); `TagsAreKept` follows. A rounded value is within half a step
  (`RoundNear`) and rounding keeps order (`RoundOrder`), so that values within the limits
  fit their tags. The blend and the interpolation stay between their ends (`Parts`,
  `Between`), the node's limits are the drive's (`Limits`), and an admitted peak bounds
  the cap (`Caps`). That a peak, the maximum of a family of samples, exists needs an
  induction over the samples; it is derived from the pigeonhole theorem (`SetInduction`,
  `FamilyMax`). `PathInv` says that a job in hand was admitted within the limits
  (`JobInv`), that the image carries the last command and none was refused
  (`CommandInv`), and that the registers and the inputs carry what was last sent and
  reported (`BusInv`).

### Only model-checked

* Liveness, which is out of the prover's reach: what the runs state with `<>` or `~>` under
  fairness, and `KeepsContract`'s `Promise`.
* The controller after Ctrl-C (`node_shutdown`).
* `DriveCanFollow`: how far a wave moves in a control cycle is the slope of the sine table
  and the margin that `peak_velocity()` adds to its samples, so it holds for constants
  that fit each other and not for all; over several samples it is a sum as well.

## Not modelled

* `soft_stop.py`: one thread that publishes a pin's level on a timer. Its receiver,
  with messages and silence in any order, is in `WavemakerNode`.
* The dispersion relation, the stroke's transfer functions and the gain table:
  transcendental functions without state. The amplitude they give is a parameter.
* Floating and raw tags of the process image: the drive has none.
* `clear_errors()`, `wait_in_position()`, `halt()`, `shutdown()` and `request_abort()` of
  `IndraDrive`: only the driver's examples call them.
* `play_dat.py`, the web page, the examples and probes, launch files: clients and
  tools without state the system depends on.

## What could follow

* `DriveCanFollow` for pregenerated waves and returns, where no sine is involved.
* The controller's invariant after Ctrl-C, where the signal thread's `stop_activity()`
  runs beside a transition's.
* `soft_stop.py`'s debouncing as a component of its own in front of `WavemakerNode`.
