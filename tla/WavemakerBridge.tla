--------------------------- MODULE WavemakerBridge ---------------------------
(***************************************************************************)
(* The bridge between topic-based clients and the controller               *)
(* (wavemaker_controller/src/wavemaker_bridge.cpp): start and stop topics, *)
(* a stop service and a heartbeat become goals and cancels of the action   *)
(* move_wavemaker.                                                         *)
(*                                                                         *)
(* The bridge's executor has one thread, so every callback is one action,  *)
(* and the handlers are operators on the record of its members.  Goal      *)
(* requests, their answers, results and cancels are messages that overtake *)
(* each other.  A goal stands for the goal_generation_ it was sent with.   *)
(***************************************************************************)
EXTENDS Naturals

CONSTANTS
  Goals,       \* goals the bridge sends
  Requests,    \* calls of the stop service
  None,
  MaxCancels   \* bound: more cancel-all messages on their way merge with the last

ASSUME BridgeAssumption ==
  /\ Goals \cap Requests = {} /\ None \notin Goals \cup Requests
  /\ MaxCancels \in Nat \ {0}

VARIABLES
  lc,          \* lifecycle state, or "down" after Ctrl-C
  client,      \* action_client_ exists
  b,           \* the members, see Members
  alive,       \* heartbeat_alive()
  ready,       \* action_server_is_ready()
  srv,         \* the controller's view of each goal
  answer,      \* the answer to a goal request that is on its way
  results,     \* goals whose result is on its way
  cancel_one, cancel_all,  \* cancels on their way
  awaiting,    \* stop requests answered by the callback of a cancel-all
  orphans      \* goals whose client has been destroyed

netVars == <<answer, results, cancel_one, cancel_all, awaiting>>
vars == <<lc, client, b, alive, ready, srv, netVars, orphans>>

Members ==
  [st : {"Inactive", "Idle", "Starting", "Running", "Stopping"},
   requested : BOOLEAN,           \* goal_requested_
   cancel_on_accept : BOOLEAN,
   handle : Goals \cup {None},    \* goal_handle_
   current : Goals \cup {None},   \* the goal of goal_generation_
   timer : BOOLEAN,               \* stop_timeout_
   done : Requests \cup {None},   \* stop_done_
   owed : SUBSET Requests,        \* stop requests not answered yet
   unconfirmed : SUBSET Goals]    \* history: given up without a cancel, and said so

TypeOK ==
  /\ lc \in {"unconfigured", "inactive", "active", "finalized", "down"}
  /\ client \in BOOLEAN /\ alive \in BOOLEAN /\ ready \in BOOLEAN
  /\ b \in Members /\ b.done \in b.owed \cup {None}
  /\ srv \in [Goals -> {"none", "sent", "live", "canceling"}]
  /\ answer \in [Goals -> {"none", "accepted", "rejected"}]
  /\ results \subseteq Goals /\ cancel_one \subseteq Goals
  /\ cancel_all \in 0 .. MaxCancels
  /\ awaiting \subseteq b.owed /\ orphans \subseteq Goals

Init ==
  /\ lc = "unconfigured" /\ client = FALSE
  /\ b = [st |-> "Inactive", requested |-> FALSE, cancel_on_accept |-> FALSE,
          handle |-> None, current |-> None, timer |-> FALSE, done |-> None,
          owed |-> {}, unconfirmed |-> {}]
  /\ alive = FALSE /\ ready \in BOOLEAN
  /\ srv = [g \in Goals |-> "none"]
  /\ answer = [g \in Goals |-> "none"]
  /\ results = {} /\ cancel_one = {} /\ cancel_all = 0
  /\ awaiting = {} /\ orphans = {}
-----------------------------------------------------------------------------
(* Handlers, as operators on the members s. *)

\* Mutant: a late answer makes an inactive bridge idle.
AlwaysIdle(s) == "Idle"
idle_unless_inactive(s) == IF s.st = "Inactive" THEN "Inactive" ELSE "Idle"

finish_stop(s) == [s EXCEPT !.timer = FALSE, !.owed = @ \ {s.done}, !.done = None]

abandon_goal(s) ==
  finish_stop([s EXCEPT !.current = None, !.handle = None, !.requested = FALSE,
                        !.cancel_on_accept = FALSE,
                        !.st = idle_unless_inactive(s)])

\* stop() is about a goal of ours.
Ours == b.requested \/ b.handle # None
Available == client /\ ready

\* The first half of stop(), for a goal of ours; q is the caller to answer.
\* Mutant: nothing limits the wait for the result.
Untimed(q) ==
  [b EXCEPT !.cancel_on_accept = @ \/ b.requested, !.st = "Stopping",
            !.done = IF q = None THEN @ ELSE q,
            !.owed = @ \cup ({q} \ {None})]
Stopping(q) == [Untimed(q) EXCEPT !.timer = TRUE]

\* The members after stop(), and the caller its cancel-all is to answer.
Stopped(q) ==
  CASE Ours /\ Available  -> Stopping(q)
    [] Ours /\ ~Available ->
         abandon_goal([Stopping(q) EXCEPT !.unconfirmed = @ \cup
                                            ({b.handle} \ {None})])
    [] ~Ours /\ Available -> [b EXCEPT !.owed = @ \cup ({q} \ {None})]
    [] OTHER              -> b
Asking(q) == IF ~Ours /\ Available THEN {q} \ {None} ELSE {}

\* stop() sends its cancel to all goals of the server.
SendCancelAll(q) ==
  /\ cancel_all' = IF Available /\ cancel_all < MaxCancels THEN cancel_all + 1
                                                           ELSE cancel_all
  /\ awaiting' = awaiting \cup Asking(q)
  /\ UNCHANGED <<answer, results, cancel_one>>

Stop(q) ==
  /\ b' = Stopped(q) /\ SendCancelAll(q)
  /\ UNCHANGED <<lc, client, alive, ready, srv, orphans>>
-----------------------------------------------------------------------------
(* Lifecycle. *)

\* The client goes, and with it the callbacks of what is on its way.
DropClient ==
  /\ answer' = [g \in Goals |-> "none"] /\ results' = {}
  /\ orphans' = {g \in Goals : srv[g] # "none"}
  /\ awaiting' = {} /\ UNCHANGED <<cancel_one, cancel_all>>

OnConfigure ==
  /\ lc = "unconfigured" /\ lc' = "inactive"
  /\ client' = TRUE /\ DropClient
  /\ b' = [b EXCEPT !.st = "Inactive", !.owed = @ \ awaiting]
  /\ UNCHANGED <<alive, ready, srv>>

OnActivate ==
  /\ lc = "inactive" /\ lc' = "active"
  /\ b' = [b EXCEPT !.st = "Idle"]
  /\ UNCHANGED <<client, alive, ready, srv, netVars, orphans>>

\* cleanup_helper(), in on_deactivate, on_shutdown and, when on_activate throws,
\* in on_error.
CleanupHelper(from, to) ==
  /\ lc \in from /\ lc' = to
  /\ b' = [finish_stop(Stopped(None)) EXCEPT !.st = "Inactive"]
  /\ SendCancelAll(None)
  /\ UNCHANGED <<client, alive, ready, srv, orphans>>
OnDeactivate == CleanupHelper({"active"}, "inactive")
OnShutdown   == CleanupHelper({"unconfigured", "inactive", "active"}, "finalized")
OnError      == CleanupHelper({"inactive"}, "unconfigured")

OnCleanup ==
  /\ lc = "inactive" /\ lc' = "unconfigured"
  /\ client' = FALSE /\ DropClient
  /\ b' = [b EXCEPT !.owed = @ \ awaiting]
  /\ UNCHANGED <<alive, ready, srv>>

\* Ctrl-C: the pre-shutdown callback stops the wave, then the process ends.
PreShutdown ==
  /\ lc = "active" /\ lc' = "down"
  /\ b' = [finish_stop(Stopped(None)) EXCEPT !.st = "Inactive", !.owed = {}]
  /\ client' = FALSE
  /\ cancel_all' = IF Available THEN MaxCancels ELSE cancel_all
  /\ answer' = [g \in Goals |-> "none"] /\ results' = {} /\ awaiting' = {}
  /\ orphans' = {g \in Goals : srv[g] # "none"}
  /\ UNCHANGED <<alive, ready, srv, cancel_one>>
-----------------------------------------------------------------------------
(* Callbacks of an active bridge. *)

\* start() with valid values.  A refused start changes nothing.
Unknown(g) == /\ srv[g] = "none" /\ answer[g] = "none"
              /\ g \notin results \cup cancel_one /\ b.handle # g
Start(g) ==
  /\ lc = "active" /\ b.st = "Idle" /\ alive /\ Available /\ Unknown(g)
  /\ b' = [b EXCEPT !.current = g, !.requested = TRUE, !.st = "Starting",
                    !.unconfirmed = @ \ {g}]
  /\ srv' = [srv EXCEPT ![g] = "sent"]
  /\ orphans' = orphans \ {g}
  /\ UNCHANGED <<lc, client, alive, ready, netVars>>

StopTopic      == lc = "active" /\ Stop(None)
StopService(q) == lc = "active" /\ q \notin b.owed /\ Stop(q)

\* watch().  Mutant: only a wave that is starting is watched.
WatchStarting == b.st = "Starting" /\ ~alive
HeartbeatLost == b.st \in {"Starting", "Running"} /\ ~alive
Watch == lc = "active" /\ HeartbeatLost /\ Stop(None)

StopTimeout ==
  /\ b.timer /\ lc # "down"
  /\ b' = abandon_goal(b)
  /\ UNCHANGED <<lc, client, alive, ready, srv, netVars, orphans>>

\* on_goal_response() for the goal of the current generation; the goals it
\* cancels.
Responded(g) ==
  IF answer[g] = "rejected"
  THEN finish_stop([b EXCEPT !.requested = FALSE, !.cancel_on_accept = FALSE,
                             !.st = idle_unless_inactive(b)])
  ELSE [b EXCEPT !.requested = FALSE, !.cancel_on_accept = FALSE, !.handle = g,
                 !.st = IF b.cancel_on_accept THEN @ ELSE "Running"]
\* Mutant: an abandoned goal that is accepted is left alone.
CancelMine(g) == b.current = g /\ b.cancel_on_accept
CancelsOnAccept(g) == b.current # g \/ b.cancel_on_accept

GoalResponse(g) ==
  /\ answer[g] # "none" /\ client
  /\ b' = IF b.current = g THEN Responded(g) ELSE b
  /\ cancel_one' = IF answer[g] = "accepted" /\ CancelsOnAccept(g)
                   THEN cancel_one \cup {g} ELSE cancel_one
  /\ answer' = [answer EXCEPT ![g] = "none"]
  /\ UNCHANGED <<lc, client, alive, ready, srv, results, cancel_all, awaiting,
                 orphans>>

\* on_goal_result(), for the current generation; others are ignored.
GoalResult(g) ==
  /\ g \in results /\ answer[g] = "none" /\ client
  /\ results' = results \ {g}
  /\ b' = IF b.current = g
          THEN finish_stop([b EXCEPT !.handle = None,
                                     !.st = idle_unless_inactive(b)])
          ELSE b
  /\ UNCHANGED <<lc, client, alive, ready, srv, answer, cancel_one, cancel_all,
                 awaiting, orphans>>
-----------------------------------------------------------------------------
(* The clients' heartbeat and the controller's action server. *)

bridgeVars == <<lc, client, b, alive, ready>>

Heartbeat ==
  /\ alive' \in BOOLEAN \ {alive} /\ (alive' => lc = "active")
  /\ UNCHANGED <<lc, client, b, ready, srv, netVars, orphans>>

Discovery ==
  /\ ready' = ~ready
  /\ UNCHANGED <<lc, client, b, alive, srv, netVars, orphans>>

\* A goal may be accepted before the end of the one before is reported; a client
\* that is gone gets no answer.
AnswerGoal(g) ==
  /\ srv[g] = "sent"
  /\ \/ /\ srv' = [srv EXCEPT ![g] = "live"]
        /\ answer' = IF g \in orphans THEN answer
                     ELSE [answer EXCEPT ![g] = "accepted"]
     \/ /\ srv' = [srv EXCEPT ![g] = "none"]
        /\ answer' = IF g \in orphans THEN answer
                     ELSE [answer EXCEPT ![g] = "rejected"]
  /\ UNCHANGED <<bridgeVars, results, cancel_one, cancel_all, awaiting, orphans>>

Canceling(G) ==
  srv' = [g \in Goals |-> IF g \in G /\ srv[g] = "live" THEN "canceling"
                                                       ELSE srv[g]]
CancelAll ==
  /\ cancel_all > 0 /\ cancel_all' = cancel_all - 1
  /\ Canceling(Goals)
  /\ \E Q \in SUBSET awaiting :
       /\ cancel_all' = 0 => Q = awaiting
       /\ awaiting' = awaiting \ Q /\ b' = [b EXCEPT !.owed = @ \ Q]
  /\ UNCHANGED <<lc, client, alive, ready, answer, results, cancel_one, orphans>>

CancelOne(g) ==
  /\ g \in cancel_one /\ cancel_one' = cancel_one \ {g}
  /\ Canceling({g})
  /\ UNCHANGED <<bridgeVars, answer, results, cancel_all, awaiting, orphans>>

\* A canceled goal ends; the controller ends others on a fault or a soft stop.
EndGoal(g, from) ==
  /\ srv[g] = from /\ srv' = [srv EXCEPT ![g] = "none"]
  /\ results' = IF g \in orphans THEN results ELSE results \cup {g}
  /\ UNCHANGED <<bridgeVars, answer, cancel_one, cancel_all, awaiting, orphans>>

\* The controller is cleaned up: what was on its way to it is lost, what it sent
\* may be.
ServerLost ==
  /\ ready' = FALSE
  /\ srv' = [g \in Goals |-> "none"] /\ cancel_one' = {} /\ cancel_all' = 0
  /\ \/ UNCHANGED <<answer, results>>
     \/ answer' = [g \in Goals |-> "none"] /\ results' = {}
  /\ UNCHANGED <<lc, client, b, alive, awaiting, orphans>>
-----------------------------------------------------------------------------
Controller ==
  \/ CancelAll
  \/ \E g \in Goals : AnswerGoal(g) \/ CancelOne(g) \/ EndGoal(g, "canceling")
Answers == \E g \in Goals : GoalResponse(g) \/ GoalResult(g)

Next ==
  \/ OnConfigure \/ OnActivate \/ OnDeactivate \/ OnShutdown \/ OnError
  \/ OnCleanup \/ PreShutdown
  \/ StopTopic \/ Watch \/ StopTimeout \/ Answers
  \/ \E g \in Goals : Start(g) \/ EndGoal(g, "live")
  \/ \E q \in Requests : StopService(q)
  \/ Heartbeat \/ Discovery \/ Controller \/ ServerLost

Spec == Init /\ [][Next]_vars

\* The executor runs timers and what arrives, messages arrive, and the controller
\* handles them and ends what is canceled.
Fairness ==
  /\ WF_vars(Watch) /\ WF_vars(StopTimeout) /\ WF_vars(CancelAll)
  /\ \A g \in Goals :
       /\ WF_vars(GoalResponse(g)) /\ WF_vars(GoalResult(g))
       /\ WF_vars(AnswerGoal(g)) /\ WF_vars(CancelOne(g))
       /\ WF_vars(EndGoal(g, "canceling"))
FairSpec == Spec /\ Fairness
-----------------------------------------------------------------------------
\* A wave of the bridge never runs unattended: it is the one watch() looks after
\* or a stop waits for, or a cancel for it is on its way, or its acceptance still
\* has to arrive and will be answered by a cancel.  Exempt are waves the bridge
\* gave up in public ("stop not confirmed") and those whose client was destroyed.
Supervised ==
  \A g \in Goals : srv[g] = "live" =>
    \/ b.current = g /\ b.st \in {"Starting", "Running", "Stopping"}
    \/ cancel_all > 0 \/ g \in cancel_one
    \/ answer[g] = "accepted" /\ (b.current # g \/ b.cancel_on_accept)
    \/ g \in b.unconfirmed \cup orphans

\* The bridge keeps the contract its clients are built on: published states
\* follow each other as it says whatever arrives late, so that an inactive bridge
\* stays inactive and a stopped wave never shows as running again, and stops and
\* waves without a heartbeat end.
Clients == INSTANCE BridgeContract WITH active <- lc = "active", st <- b.st
KeepsContract == Clients!Contract

\* Every stop of a wave ends, although the controller may never answer, and the
\* caller of the stop service that is registered for it does not wait for ever: it
\* is answered, unless a later caller takes its place.  That one's stop is then the
\* only one that is answered (stop_done_ is overwritten).
StopEnds ==
  /\ []<>(b.st # "Stopping" /\ b.done = None)
  /\ [][\A q \in Requests : b.done = q /\ b.done' # q =>
          q \notin b.owed' \/ \E p \in Requests \ {q} : StopService(p)]_vars

\* When the client's heartbeat stays away, no wave goes on.
HeartbeatLossStops ==
  <>[]~alive =>
    <>[](\A g \in Goals : srv[g] = "live" => g \in b.unconfirmed \cup orphans)
=============================================================================
