----------------------------- MODULE Trajectory -----------------------------
(***************************************************************************)
(* The trajectories of a goal and of the return to upright                 *)
(* (wavemaker_controller/src/wave_trajectory.cpp and quintic_blend() of    *)
(* wave_math.cpp), as functions of the elapsed time.                       *)
(*                                                                         *)
(* Positions and times are integers in small units, velocities are units   *)
(* of position per unit of time.  The quintic blend is exact as long as    *)
(* its duration's fifth power divides the distance, and rounds down        *)
(* otherwise.  The wave's amplitude stands for what the height, the        *)
(* dispersion relation and the transfer function give.                     *)
(***************************************************************************)
EXTENDS Integers, Sequences, FiniteSetsExt

CONSTANTS
  Period,     \* the wave's period; also the samples of peak_velocity()'s blend
  Sine,       \* [0 .. Period - 1 -> Int]: sin(2 pi t / Period) in thousandths
  TwoPi,      \* 2 pi in thousandths
  Margin      \* kSamplingMargin in hundredths, for Period samples

ASSUME TrajectoryAssumption ==
  /\ Period \in Nat \ {0} /\ Period % 4 = 0
  /\ Sine \in [0 .. Period - 1 -> -1000 .. 1000]
  /\ TwoPi \in Nat /\ Margin \in Nat

Magnitude(x) == IF x < 0 THEN -x ELSE x
Clamp(x, low, high) == Max({low, Min({x, high})})

SinAt(t) == Sine[t % Period]
CosAt(t) == Sine[(t + Period \div 4) % Period]
-----------------------------------------------------------------------------
(* quintic_blend(): s and ds, both in d^-5. *)
QuinticBlend(elapsed, d) ==
  LET i  == Clamp(elapsed, 0, d)
      i2 == i * i
      i3 == i2 * i
      i4 == i3 * i
  IN  [s  |-> 10 * i3 * d * d - 15 * i4 * d + 6 * i4 * i,
       ds |-> 30 * i2 * d * d - 60 * i3 * d + 30 * i4]

BlendPart(factor, delta, d) == ((delta \div d) * factor) \div (d * d * d * d)

\* kQuinticPeakVelocityFactor * distance / duration, and the duration that gives
\* the velocity v.
\* Mutant: the mean velocity of the blend is taken for its peak.
MeanVelocityMutant(distance, d) == distance \div d
QuinticPeak(distance, d) == (15 * distance) \div (8 * d)
QuinticDuration(distance, v) == (15 * distance) \div (8 * v)
-----------------------------------------------------------------------------
(* PregeneratedWaveTrajectory: [positions, interval, start, blend]. *)

Samples(tr) == Len(tr.positions)

PregeneratedDuration(tr) == tr.blend + tr.interval * (Samples(tr) - 1)

StepsPeak(tr) ==
  Max({0} \cup {Magnitude(tr.positions[i] - tr.positions[i - 1]) \div tr.interval :
                 i \in 2 .. Samples(tr)})
BlendPeak(tr) ==
  IF tr.blend = 0 THEN 0 ELSE QuinticPeak(Magnitude(tr.positions[1] - tr.start), tr.blend)
PregeneratedPeakVelocity(tr) == Max({BlendPeak(tr), StepsPeak(tr)})

\* sample_pregenerated(), the samples counted from 1.
SamplePregenerated(tr, elapsed) ==
  LET index == Min({elapsed \div tr.interval, Samples(tr) - 2}) + 1
      delta == tr.positions[index + 1] - tr.positions[index]
      part  == elapsed - (index - 1) * tr.interval
  IN  IF elapsed >= PregeneratedDuration(tr) - tr.blend
      THEN [position |-> tr.positions[Samples(tr)], done |-> TRUE]
      ELSE [position |-> tr.positions[index] + (delta * part) \div tr.interval,
            done |-> FALSE]

PregeneratedSample(tr, elapsed) ==
  IF elapsed < tr.blend
  THEN [position |-> tr.start + BlendPart(QuinticBlend(elapsed, tr.blend).s,
                                          tr.positions[1] - tr.start, tr.blend),
        done |-> FALSE]
  ELSE SamplePregenerated(tr, elapsed - tr.blend)
-----------------------------------------------------------------------------
(* WaveTrajectory: [amplitude, upright, at_minimum, start]; the blend lasts *)
(* one period.                                                              *)

RequiredMinimum(tr) == IF tr.at_minimum THEN tr.upright ELSE tr.upright - tr.amplitude

\* Mutant: the wave of a paddle that is upright at its minimum swings both ways.
RequiredMutant(tr) == tr.upright + tr.amplitude
RequiredMaximum(tr) == tr.upright + tr.amplitude * (IF tr.at_minimum THEN 2 ELSE 1)

AmplitudeOmega(tr) == (tr.amplitude * TwoPi) \div (1000 * Period)

\* sample(): the wave alone, then with the blend from the start position.
WaveTime(tr, elapsed) ==
  IF tr.at_minimum /\ elapsed < Period THEN elapsed ELSE elapsed - Period
WavePosition(tr, t) ==
  tr.upright + (tr.amplitude * (IF tr.at_minimum THEN 1000 - CosAt(t) ELSE SinAt(t)))
                 \div 1000
WaveVelocity(tr, t) ==
  (AmplitudeOmega(tr) * (IF tr.at_minimum THEN SinAt(t) ELSE CosAt(t))) \div 1000

WaveSample(tr, elapsed) ==
  LET t == WaveTime(tr, elapsed)
      b == QuinticBlend(elapsed, Period)
      d == WavePosition(tr, t) - tr.start
  IN  IF elapsed >= Period
      THEN [position |-> WavePosition(tr, t), velocity |-> WaveVelocity(tr, t)]
      ELSE [position |-> tr.start + BlendPart(b.s, d, Period),
            velocity |-> BlendPart(b.ds, d, Period)
                           + BlendPart(b.s, WaveVelocity(tr, t), Period)]

WavePeakVelocity(tr) ==
  (Max({AmplitudeOmega(tr)} \cup
       {Magnitude(WaveSample(tr, i).velocity) : i \in 0 .. Period})
     * (100 + Margin)) \div 100
=============================================================================
