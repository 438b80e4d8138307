---------------------------- MODULE MGateOutputs ----------------------------
(***************************************************************************)
(* The gateway driver under load: one thread stages the moves of           *)
(* IndraDrive::move_to(), velocity before target, while others write the   *)
(* control word and start and stop the poll thread, whenever they like.    *)
(***************************************************************************)
EXTENDS MGateDriver

CONSTANT Moves   \* bound: the number of move_to() calls in a behaviour

ASSUME MovesAssumption ==
  /\ Moves \in Nat \ {0} /\ 0 .. Moves \subseteq Values /\ Zero = 0
  /\ Tags = {"control", "target", "velocity", "override"}

VARIABLES
  moves,     \* move_to() calls that have begun
  mpc,       \* "idle", or "target" between the two writes of a call
  written,   \* history: bytes changed since they were last copied
  fresh      \* history: this poll thread has read the inputs

vars == <<mgateVars, moves, mpc, written, fresh>>

Init ==
  /\ \E in0 \in Inputs, st0 \in Statuses : InitWith(in0, st0)
  /\ moves = 0 /\ mpc = "idle"
  /\ written = {} /\ fresh = FALSE

\* move_to(), the number of the call standing for its target and its velocity.
\* Mutant: the target is staged first.
StageFirst(t) ==
  /\ mpc = "idle" /\ moves < Moves
  /\ Write(t, moves + 1)
  /\ moves' = moves + 1 /\ mpc' = "target"
StageSecond(t) ==
  /\ mpc = "target" /\ mpc' = "idle"
  /\ Write(t, moves)
  /\ UNCHANGED moves
MoveMutant  == StageFirst("target") \/ StageSecond("velocity")
MoveTo      == StageFirst("velocity") \/ StageSecond("target")

\* The writes of enable(), disable() and latch_fault().
WriteOther ==
  /\ Write("override", 1) \/ \E v \in {0, 1} : Write("control", v)
  /\ UNCHANGED <<moves, mpc>>

PollStep ==
  /\ \/ NextCycle
     \/ \E in \in Inputs, st \in Statuses : Cycle(in, st)
  /\ UNCHANGED <<moves, mpc>>

Owner == (Start \/ Stop \/ Join \/ GatewayRestarts) /\ UNCHANGED <<moves, mpc>>

\* What the history variables record of a step.
History ==
  /\ written' = IF StoreRegs THEN written \ BytesOfWords(FirstWord, LastWord)
                ELSE written \cup {b \in Bytes : out'[b] # out[b]}
  /\ fresh' = (ppc' # "off" /\ (fresh \/ ppc' = "read_status"))

Next == (MoveTo \/ WriteOther \/ PollStep \/ Owner) /\ History

Spec == Init /\ [][Next]_vars

\* The poll thread is scheduled, its transactions time out, and stop() joins.
FairSpec == Spec /\ WF_vars(PollStep /\ History) /\ WF_vars(Owner /\ Join /\ History)
-----------------------------------------------------------------------------
Succeeded == ppc = "callback" /\ ok

\* Once flush_outputs() has succeeded, the gateway holds everything that was
\* staged before the copy, in every chunk, whatever failed in earlier cycles.
CycleDelivers ==
  connected = "yes" /\ (ppc \in {"clear", "read", "read_status"} \/ Succeeded)
    => \A b \in Bytes \ written : image[b] = out[b]

\* "The new target is never paired with a stale velocity", also when a cycle
\* goes out between the two writes of move_to(), or a flush fails half-way.
NoStaleVelocity == image[Offset["velocity"]] >= image[Offset["target"]]

\* have_data_, which start() waits for, is about this poll thread: it never
\* vouches for inputs read before the last stop().
DataIsFresh == have_data => fresh

\* stop() returns, however the link misbehaves.
StopReturns == ~running ~> ppc = "off" \/ running

\* "Only clear what we actually transmitted": with write_only_dirty, a byte the
\* gateway does not hold yet stays in the dirty span.
UnsentIsDirty ==
  WriteOnlyDirty /\ connected = "yes" /\ ppc \in {"read", "read_status"}
    => \A b \in Bytes : image[b] # out[b] => b \in dirty_lo .. dirty_hi - 1
=============================================================================
