----------------------------- MODULE MC_Setpoint -----------------------------
EXTENDS SetpointPath

\* One step of the position tags in units of position: divisible by the fourth
\* power of every blend's duration.
Step == 20736

MCSine == [t \in 0 .. 11 |->
             <<0, 500, 866, 1000, 866, 500, 0, -500, -866, -1000, -866, -500>>[t + 1]]

\* The paddle's limits are 0 and 3 steps.
MCConfigs ==
  {[pregenerated |-> p, at_minimum |-> m, upright |-> IF m THEN 0 ELSE Step,
    angle |-> IF m THEN -4 * Step ELSE -2 * Step] : p, m \in BOOLEAN}
MCMinDegrees == -4 * Step
MCMaxDegrees == 2 * Step

\* One sample to hold, two in quick succession, three at leisure.
MCPositionGoals ==
  UNION {{[positions |-> [j \in 1 .. n |-> f[j] * Step], interval |-> IF n = 3 THEN 2 ELSE 1] :
            f \in [1 .. n -> {0, 1, 3}]} : n \in 1 .. 3}
MCAmplitudes == {Step, (3 * Step) \div 2, 2 * Step}
MCPositionStep == 2 * Step
MCFeedStep == Step \div 4
MCMaxFeed == 4 * Step
MCHoldFeed == Step
MCMinFeed == Step \div 16
MCReturnVelocity == (15 * Step) \div 8
MCTolerance == Step
\* The default, a finer and a coarser one.
MCReturnTolerances == {0, Step \div 2, 3 * Step}
=============================================================================
