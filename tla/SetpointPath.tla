---------------------------- MODULE SetpointPath ----------------------------
(***************************************************************************)
(* The way of a setpoint: admitted by the node (prepare_goal()), sampled   *)
(* by its worker (execute_goal(), move_to_upright()), clamped, converted   *)
(* and limited by the actuator and the drive object, encoded in the        *)
(* process image, carried in registers, decoded by the drive; and the way  *)
(* of the measured position back.                                          *)
(*                                                                         *)
(* Arithmetic is exact: this module is about limits, speeds and encodings, *)
(* not about the rounding of doubles.  The drive is an angular one; with   *)
(* DegreesPerUnit = 1 it is a linear one whose limits agree with the       *)
(* node's.                                                                 *)
(***************************************************************************)
EXTENDS ProcessImage, Trajectory

CONSTANTS
  Configs,           \* set of [pregenerated, at_minimum, upright, angle]
  PositionGoals,     \* set of [positions, interval]
  Amplitudes,        \* of the regular waves
  MinDegrees, MaxDegrees, DegreesPerUnit,
  MaxFeed,           \* max_velocity_rpm, as degrees per unit of time
  HoldFeed, MinFeed, \* hold_velocity_rpm and 0.1 rpm, likewise
  PositionStep,      \* degrees per raw step of the position tags
  FeedStep,          \* the same for the velocity tag
  ReturnVelocity, ReturnMinDuration, ReturnMargin,
  Tolerance,         \* return_default_tolerance_m_
  ReturnTolerances,  \* of the requests to return, 0 for the default
  CapPercent,        \* positioning_velocity_margin in hundredths
  RunWord,           \* the control word of a drive that follows
  FullOverride,      \* raw 100 %
  MaxElapsed,        \* bound: how long a job is followed
  MaxJobs,           \* bound: the goals and returns of a behaviour
  MaxJitter,         \* bound: how long a control cycle may take
  Slack              \* bound: how far rounding moves a sampled position

VARIABLES
  config,
  jobs,              \* how many there have been
  active, job,       \* the running goal or return: its trajectory and cap
  elapsed,           \* of its last control cycle, -1 before the first
  wanted, setpoint,  \* the sampled position, and after the clamp
  cmd, has_target,   \* last_target_ and the feed; whether there is one
  refused,           \* move_to() has refused a setpoint
  out, in,           \* out_ and in_ of the gateway driver
  regs,              \* the registers the gateway passes to the drive
  sent,              \* history: cmd when they were sent
  paddle, polled     \* the axis in raw steps, and when it was last read

jobVars  == <<jobs, active, job, elapsed, wanted, setpoint>>
busVars  == <<in, regs, sent, polled>>
vars == <<config, jobVars, cmd, has_target, refused, out, busVars, paddle>>
-----------------------------------------------------------------------------
(* The tags of IndraDrive's constructor. *)
TagAt(type, off, scale) == [type |-> type, offset |-> off, bit |-> 0, order |-> "big",
                            scale |-> scale, bias |-> 0]
PositionTag == TagAt("i32", 2, PositionStep)
ControlTag  == TagAt("u16", 0, 1)
TargetTag   == TagAt("i32", 2, PositionStep)
FeedTag     == TagAt("i32", 6, FeedStep)
OverrideTag == TagAt("u16", 10, 1)
NoJob == [kind |-> "none"]
InBytes  == 0 .. 13
OutBytes == 0 .. 11

(* What the drive makes of its registers and puts in them: big-endian words. *)
DriveReads(r) == ToSigned(regs[r] * ByteSize ^ 2 + regs[r + 1], 4)
DriveWrites(v) == [r \in 0 .. 6 |-> CASE r = 1 -> (v % ByteSize ^ 4) \div ByteSize ^ 2
                                      [] r = 2 -> v % ByteSize ^ 2
                                      [] OTHER -> 0]
-----------------------------------------------------------------------------
(* The actuator: metres and degrees. *)

\* position_deg(), actual_position_m()
PositionDegrees == GetScaled(in, PositionTag)
ActualPosition == config.upright + (PositionDegrees - config.angle) \div DegreesPerUnit

\* to_actuator_setpoint(), for positions and for velocities
ToDegrees(position) == config.angle + (position - config.upright) * DegreesPerUnit
ToFeed(velocity) == velocity * DegreesPerUnit

MaxVelocity == MaxFeed \div DegreesPerUnit

\* on_configure(): the limits of the paddle are those of the drive.
LimitOf(degrees) == config.upright + (degrees - config.angle) \div DegreesPerUnit
GoalMinimum == LimitOf(MinDegrees)
GoalMaximum == LimitOf(MaxDegrees)

ASSUME PathAssumption ==
  /\ {MinDegrees, MaxDegrees} \subseteq Int /\ MinDegrees < MaxDegrees
  /\ {DegreesPerUnit, PositionStep, FeedStep} \subseteq Nat \ {0}
  /\ {HoldFeed, MinFeed} \subseteq 1 .. MaxFeed /\ MaxFeed \in Nat
  /\ ReturnVelocity \in 1 .. MaxFeed \div DegreesPerUnit
  /\ {ReturnMinDuration, Tolerance} \subseteq Nat \ {0} /\ ReturnMargin \in Nat
  /\ CapPercent \in Nat /\ CapPercent >= 100
  /\ Slack \in Nat /\ MaxJitter \in Nat /\ MaxJobs \in Nat /\ MaxElapsed \in Nat
  /\ Amplitudes \subseteq Nat /\ ReturnTolerances \subseteq Nat
  /\ \A g \in PositionGoals : g.positions \in Seq(Int) /\ g.interval \in Int
  /\ \A c \in Configs : /\ c.pregenerated \in BOOLEAN /\ c.at_minimum \in BOOLEAN
                        /\ c.upright \in Int /\ c.angle \in MinDegrees .. MaxDegrees
                        /\ c.at_minimum => c.angle = MinDegrees
                        \* units are so small that the limits are whole numbers of them
                        /\ (MinDegrees - c.angle) % DegreesPerUnit = 0
                        /\ (MaxDegrees - c.angle) % DegreesPerUnit = 0

\* IndraDrive::move_to(): the velocity is staged before the target.
Staged(position, feed) == SetScaled(SetScaled(out, FeedTag, feed), TargetTag, position)
MoveTo(position, feed) ==
  IF \/ position < MinDegrees \/ position > MaxDegrees
     \/ feed <= 0 \/ feed > MaxFeed
  THEN refused' = TRUE /\ UNCHANGED <<cmd, out>>
  ELSE /\ out' = Staged(position, feed)
       /\ cmd' = [position |-> position, feed |-> feed]
       /\ UNCHANGED refused

\* write_setpoint()
WriteSetpoint(position, velocity) ==
  /\ MoveTo(ToDegrees(position), Max({MinFeed, Magnitude(ToFeed(velocity))}))
  /\ has_target' = (has_target \/ ~refused')

\* halt(): hold the last commanded target, or where the axis is.
Halt ==
  /\ MoveTo(Clamp(IF has_target THEN cmd.position ELSE PositionDegrees,
                  MinDegrees, MaxDegrees), HoldFeed)
  /\ UNCHANGED has_target
-----------------------------------------------------------------------------
(* The node: admission. *)

\* velocity_cap(), within_speed_limit()
\* Mutant: the margin may lift the cap over the drive's limit.
UncappedMutant(peak) == (peak * CapPercent) \div 100
VelocityCap(peak) == Min({(peak * CapPercent) \div 100, MaxVelocity})
WithinSpeedLimit(peak) == peak <= MaxVelocity

StartInLimits(p) == p >= GoalMinimum - Tolerance /\ p <= GoalMaximum + Tolerance

\* The duration of a return, and of a blend into a pregenerated wave.
ReturnDuration(distance) ==
  Max({QuinticDuration(distance, ReturnVelocity), ReturnMinDuration})
BlendDuration(distance) == IF distance <= Tolerance THEN 0 ELSE ReturnDuration(distance)

\* Rounding moves the end of a return by less than its duration.
ASSUME SlackAssumption ==
  ReturnDuration((MaxDegrees - MinDegrees) \div DegreesPerUnit + Tolerance) <= Slack

Free == ~active /\ ~refused /\ jobs < MaxJobs

\* The trajectory is in place and the worker starts.
Starts(j) ==
  /\ active' = TRUE /\ job' = j /\ jobs' = jobs + 1 /\ elapsed' = -1
  /\ wanted' = j.start /\ setpoint' = j.start
  /\ UNCHANGED <<config, cmd, has_target, refused, out, busVars, paddle>>

\* prepare_goal(), pregenerated mode
Pregenerated(goal) ==
  LET first == goal.positions[1]
  IN  [kind |-> "pregenerated", positions |-> goal.positions, interval |-> goal.interval,
       start |-> ActualPosition, blend |-> BlendDuration(Magnitude(first - ActualPosition))]

AcceptPregenerated(goal) ==
  LET tr == Pregenerated(goal)
      peak == PregeneratedPeakVelocity(tr)
  IN  /\ Free /\ config.pregenerated
      /\ StartInLimits(ActualPosition)
      /\ goal.positions # <<>> /\ goal.interval > 0
      /\ \A i \in DOMAIN goal.positions : /\ goal.positions[i] >= GoalMinimum
                                          /\ goal.positions[i] <= GoalMaximum
      /\ WithinSpeedLimit(peak)
      /\ Starts([tr |-> tr, kind |-> "pregenerated", start |-> ActualPosition,
                 blend |-> tr.blend, cap |-> VelocityCap(peak)])

\* prepare_goal(), regular waves
AcceptWave(amplitude) ==
  LET tr == [amplitude |-> amplitude, upright |-> config.upright,
             at_minimum |-> config.at_minimum, start |-> ActualPosition]
      peak == WavePeakVelocity(tr)
  IN  /\ Free /\ ~config.pregenerated
      /\ StartInLimits(ActualPosition)
      /\ RequiredMinimum(tr) >= GoalMinimum /\ RequiredMaximum(tr) <= GoalMaximum
      /\ WithinSpeedLimit(peak)
      /\ Starts([tr |-> tr, kind |-> "wave", start |-> ActualPosition,
                 blend |-> Period, cap |-> VelocityCap(peak)])

\* The return service and move_to_upright() before its loop.  The request may ask
\* for another tolerance than the default, which still bounds the start.
Delta == config.upright - ActualPosition
Asked(tolerance) == IF tolerance = 0 THEN Tolerance ELSE tolerance

ReturnStarts(tolerance) ==
  /\ Free /\ StartInLimits(ActualPosition)
  /\ Magnitude(Delta) > Asked(tolerance)
  /\ LET d == ReturnDuration(Magnitude(Delta))
     IN  Starts([tr |-> [delta |-> Delta, tolerance |-> Asked(tolerance)],
                 kind |-> "return", start |-> ActualPosition, blend |-> d,
                 cap |-> VelocityCap(QuinticPeak(Magnitude(Delta), d))])

ReturnIsThere(tolerance) ==
  /\ ~active /\ ~refused /\ StartInLimits(ActualPosition)
  /\ Magnitude(Delta) <= Asked(tolerance)
  /\ Halt
  /\ UNCHANGED <<config, jobVars, busVars, paddle>>
-----------------------------------------------------------------------------
(* The worker. *)

\* sample_goal(), and the blend of move_to_upright()
SampleAt(t) ==
  CASE job.kind = "pregenerated" -> PregeneratedSample(job.tr, t)
    [] job.kind = "wave" -> [position |-> WaveSample(job.tr, t).position, done |-> FALSE]
    [] job.kind = "return" ->
         [position |-> job.start
                         + BlendPart(QuinticBlend(t, job.blend).s, job.tr.delta, job.blend),
          done |-> t >= job.blend /\ Magnitude(Delta) <= job.tr.tolerance]

\* publish_and_write_setpoint()'s clamp
Clamped(p) == Clamp(p, GoalMinimum, GoalMaximum)

\* One control cycle, dt after the last one: sample, clamp, write.
Cycle(dt) ==
  LET t == elapsed + dt
      p == SampleAt(t).position
  IN  /\ active /\ t <= MaxElapsed
      /\ elapsed' = t /\ wanted' = p /\ setpoint' = Clamped(p)
      /\ WriteSetpoint(setpoint', job.cap)
      /\ active' = ~refused'
      /\ UNCHANGED <<config, jobs, job, busVars, paddle>>

\* The trajectory is complete, the return has arrived or timed out, or the job is
\* cancelled or stopped.
Ended ==
  /\ elapsed >= 0
  /\ \/ SampleAt(elapsed).done
     \/ job.kind = "return" /\ elapsed >= job.blend + ReturnMargin

Ends ==
  /\ active /\ active' = FALSE
  /\ job' = NoJob /\ elapsed' = -1
  /\ wanted' = config.upright /\ setpoint' = config.upright
  /\ Halt
  /\ UNCHANGED <<config, jobs, busVars, paddle>>

Works(dt) == ~Ended /\ Cycle(dt)
-----------------------------------------------------------------------------
(* One exchange of the gateway driver; the drive follows its target. *)
Exchange ==
  /\ regs' = StoreToRegisters(out, 6, 0) /\ sent' = cmd
  /\ in' = LoadFromRegisters(in, DriveWrites(paddle), 7, 0) /\ polled' = paddle
  /\ <<regs', in'>> # <<regs, in>>
  /\ UNCHANGED <<config, jobVars, cmd, has_target, refused, out, paddle>>

DriveMoves ==
  /\ paddle # DriveReads(1) /\ paddle' = DriveReads(1)
  /\ UNCHANGED <<config, jobVars, cmd, has_target, refused, out, busVars>>

\* start() has enabled the drive with the paddle anywhere a job may start.
Raw(degrees) == LLRound(degrees, PositionStep)

\* The drive's limits and words fit the tags that carry them.
ASSUME TagAssumption ==
  /\ 2 * Raw(MinDegrees - Tolerance * DegreesPerUnit) >= -(ByteSize ^ 4)
  /\ 2 * Raw(MaxDegrees + Tolerance * DegreesPerUnit) < ByteSize ^ 4
  /\ 2 * LLRound(MaxFeed, FeedStep) < ByteSize ^ 4
  /\ {RunWord, FullOverride} \subseteq 0 .. ByteSize ^ 2 - 1

ParkedAt(raw) ==
  LET o == [b \in OutBytes |-> 0]
  IN  SetScaled(SetScaled(SetInt(SetInt(o, ControlTag, RunWord), OverrideTag, FullOverride),
                          FeedTag, HoldFeed), TargetTag, raw * PositionStep)

Init ==
  /\ config \in Configs
  /\ paddle \in Raw(ToDegrees(GoalMinimum - Tolerance)) .. Raw(ToDegrees(GoalMaximum + Tolerance))
  /\ active = FALSE /\ elapsed = -1 /\ refused = FALSE /\ has_target = FALSE
  /\ jobs = 0 /\ job = NoJob /\ wanted = config.upright /\ setpoint = config.upright
  /\ in = LoadFromRegisters([b \in InBytes |-> 0], DriveWrites(paddle), 7, 0)
  /\ polled = paddle
  /\ out = ParkedAt(paddle) /\ regs = StoreToRegisters(ParkedAt(paddle), 6, 0)
  /\ cmd = [position |-> paddle * PositionStep, feed |-> HoldFeed] /\ sent = cmd

Next ==
  \/ \E goal \in PositionGoals : AcceptPregenerated(goal)
  \/ \E amplitude \in Amplitudes : AcceptWave(amplitude)
  \/ \E tolerance \in ReturnTolerances : ReturnStarts(tolerance) \/ ReturnIsThere(tolerance)
  \/ \E dt \in 1 .. MaxJitter : Works(dt)
  \/ Ends
  \/ Exchange \/ DriveMoves

Spec == Init /\ [][Next]_vars
-----------------------------------------------------------------------------
\* No setpoint of an admitted goal or return is refused by the drive object, be it
\* for its position or its speed: "Rejects a trajectory the drive would refuse
\* part-way through".
NeverRefused == ~refused

\* From one control cycle to the next, however late it comes, a setpoint moves no
\* further than the drive may travel at the speed it was given; the first is no
\* further from the paddle than the tolerance beyond that.
DriveCanFollow ==
  [][active /\ elapsed' > elapsed
      => LET from == IF elapsed < 0 THEN job.start ELSE setpoint
             time == elapsed' - Max({elapsed, 0})
         IN  Magnitude(setpoint' - from)
               <= job.cap * time + Slack + (IF elapsed < 0 THEN Tolerance ELSE 0)]_vars

\* Once the blend is over the wave that was admitted is the wave that is made: the
\* clamp, which is there for a start outside the limits, changes no setpoint.
WaveIsNotClipped ==
  active /\ elapsed >= job.blend => Magnitude(setpoint - wanted) <= Slack

\* What the drive reads from its registers is the setpoint it was sent, to half a
\* step, in a telegram whose other words are intact; and what the node takes for
\* the paddle's position is where the drive last reported it.
WireCarriesSetpoint ==
  /\ 2 * Magnitude(DriveReads(1) * PositionStep - sent.position) <= PositionStep
  /\ 2 * Magnitude(DriveReads(3) * FeedStep - sent.feed) <= FeedStep
  /\ regs[0] = RunWord /\ regs[5] = FullOverride
  /\ PositionDegrees = polled * PositionStep

\* ByteOrder's table: where the bytes A, B, C, D of a value lie in memory.
Layout == [big |-> <<1, 2, 3, 4>>, little |-> <<4, 3, 2, 1>>,
           big_swap |-> <<3, 4, 1, 2>>, little_swap |-> <<2, 1, 4, 3>>]

\* Whatever else the image holds, a value stored under any type, byte order and
\* offset is read back, within the type's range, has its bytes where the byte order
\* says, and disturbs no other byte.
ImageKeepsTags ==
  jobs = 0 =>
    \A type \in DataTypes, order \in ByteOrders, off \in {1, 4}, v \in {-3, 0, 6, 77} :
      LET tag == [type |-> type, offset |-> off, bit |-> 1, order |-> order,
                  scale |-> 1, bias |-> 0]
          img == SetInt(out, tag, v)
      IN  /\ GetInt(img, tag) = Wrapped(v, type)
          /\ TypeSize[type] = 4 =>
               \A i \in 1 .. 4 : img[off + i - 1] = ToBytes(v, 4)[Layout[order][i]]
          /\ \A b \in OutBytes \ (off .. off + TypeSize[type] - 1) : img[b] = out[b]
=============================================================================
