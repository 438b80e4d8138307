----------------------- MODULE WavemakerBridge_proofs -----------------------
(***************************************************************************)
(* The bridge never leaves a wave unattended, and publishes its states in  *)
(* the order its clients rely on, for any number of goals and stops.       *)
(***************************************************************************)
EXTENDS WavemakerBridge, TLAPS

\* A stop request is answered by finish_stop() or by a cancel-all, not by both.
AnsweredOnce == b.done \notin awaiting

\* The published state and the members it goes with.
StateInv ==
  /\ lc = "active" <=> b.st # "Inactive"
  /\ b.timer <=> b.st = "Stopping"
  /\ b.requested /\ ~b.cancel_on_accept => b.st = "Starting"

\* What the server and the network know of a goal.
GoalInv(g) ==
  /\ answer[g] # "none" => srv[g] # "sent"
  /\ answer[g] = "rejected" => srv[g] = "none"
  /\ g \in results => srv[g] = "none"

\* What the bridge knows of its current goal.
CurrentInv(g) ==
  b.current = g =>
    /\ answer[g] # "none" => b.requested
    /\ srv[g] = "sent" /\ g \notin orphans => b.requested
    /\ b.requested /\ srv[g] \in {"live", "canceling"} /\ g \notin orphans
         => answer[g] # "none"
    /\ b.requested /\ g \in results => answer[g] # "none"
    /\ srv[g] = "live" /\ g \notin orphans => b.requested \/ b.handle = g

\* Someone will stop the goal without being told to.
Attended(g) ==
  \/ cancel_all > 0 \/ g \in cancel_one
  \/ answer[g] = "accepted" /\ (b.current # g \/ b.cancel_on_accept)
  \/ g \in b.unconfirmed \/ g \in orphans

\* A goal nobody will stop is one that watch() looks after.
Watching(g) ==
  srv[g] = "live" => Attended(g) \/ (b.current = g /\ b.st \in {"Starting", "Running"})

IInv ==
  /\ TypeOK /\ AnsweredOnce /\ StateInv
  /\ \A g \in Goals : GoalInv(g) /\ CurrentInv(g) /\ Watching(g)
-----------------------------------------------------------------------------
(* The handlers, member by member. *)

\* The members r after finish_stop(), and after abandon_goal().
Finished(r, s) ==
  /\ r \in Members /\ r.timer = FALSE /\ r.done = None
  /\ r.owed = s.owed \ {s.done} /\ r.st = s.st
  /\ r.requested = s.requested /\ r.cancel_on_accept = s.cancel_on_accept
  /\ r.handle = s.handle /\ r.current = s.current
  /\ r.unconfirmed = s.unconfirmed
Abandoned(r, s) ==
  /\ r \in Members /\ r.timer = FALSE /\ r.done = None
  /\ r.owed = s.owed \ {s.done} /\ r.st = idle_unless_inactive(s)
  /\ r.requested = FALSE /\ r.cancel_on_accept = FALSE
  /\ r.handle = None /\ r.current = None
  /\ r.unconfirmed = s.unconfirmed

LEMMA FinishMembers == \A s \in Members : Finished(finish_stop(s), s)
BY DEF Finished, finish_stop, Members

LEMMA AbandonMembers == \A s \in Members : Abandoned(abandon_goal(s), s)
<1> SUFFICES ASSUME NEW s \in Members PROVE Abandoned(abandon_goal(s), s)
  OBVIOUS
<1> DEFINE i == idle_unless_inactive(s)
           p == [s EXCEPT !.current = None, !.handle = None, !.requested = FALSE,
                          !.cancel_on_accept = FALSE, !.st = i]
<1>1. i \in {"Inactive", "Idle"}
  BY DEF idle_unless_inactive
<1> HIDE DEF i
<1>2. /\ p \in Members /\ p.current = None /\ p.handle = None /\ p.requested = FALSE
      /\ p.cancel_on_accept = FALSE /\ p.st = i /\ p.owed = s.owed /\ p.done = s.done
      /\ p.unconfirmed = s.unconfirmed
  BY <1>1 DEF Members
<1>3. abandon_goal(s) = finish_stop(p)
  BY DEF abandon_goal, i
<1> HIDE DEF p
<1>4. Finished(abandon_goal(s), p)
  BY <1>2, <1>3, FinishMembers
<1> QED
  BY <1>2, <1>4 DEF Finished, Abandoned, i

\* The members after the first half of stop(), and after stop() in each case.
StopBegun(r, q) ==
  /\ r \in Members /\ r.timer = TRUE /\ r.st = "Stopping"
  /\ r.done = (IF q = None THEN b.done ELSE q)
  /\ r.owed = b.owed \cup ({q} \ {None})
  /\ r.requested = b.requested
  /\ r.cancel_on_accept = (b.cancel_on_accept \/ b.requested)
  /\ r.handle = b.handle /\ r.current = b.current
  /\ r.unconfirmed = b.unconfirmed
StopGaveUp(r, q) ==
  /\ r \in Members /\ r.timer = FALSE /\ r.st = "Idle" /\ r.done = None
  /\ r.owed = (b.owed \cup ({q} \ {None})) \ {IF q = None THEN b.done ELSE q}
  /\ r.requested = FALSE /\ r.cancel_on_accept = FALSE
  /\ r.handle = None /\ r.current = None
  /\ r.unconfirmed = b.unconfirmed \cup ({b.handle} \ {None})
StopOther(r, q) ==
  /\ r \in Members
  /\ r.timer = b.timer /\ r.st = b.st /\ r.done = b.done
  /\ r.owed = (IF Available THEN b.owed \cup ({q} \ {None}) ELSE b.owed)
  /\ r.requested = b.requested /\ r.cancel_on_accept = b.cancel_on_accept
  /\ r.handle = b.handle /\ r.current = b.current
  /\ r.unconfirmed = b.unconfirmed

LEMMA StoppingMembers ==
  ASSUME b \in Members, NEW q \in Requests \cup {None} PROVE StopBegun(Stopping(q), q)
BY DEF StopBegun, Stopping, Untimed, Members

LEMMA StoppedMembers ==
  ASSUME b \in Members, NEW q \in Requests \cup {None}
  PROVE  /\ Ours /\ Available => StopBegun(Stopped(q), q)
         /\ Ours /\ ~Available => StopGaveUp(Stopped(q), q)
         /\ ~Ours => StopOther(Stopped(q), q)
         /\ Stopped(q) \in Members
<1>1. CASE Ours /\ Available
  <2>1. Stopped(q) = Stopping(q)
    BY <1>1 DEF Stopped
  <2>2. StopBegun(Stopped(q), q)
    BY <2>1, StoppingMembers
  <2> QED
    BY <1>1, <2>2 DEF StopBegun
<1>2. CASE Ours /\ ~Available
  <2> DEFINE p == Stopping(q)
             s == [p EXCEPT !.unconfirmed = @ \cup ({b.handle} \ {None})]
  <2>1. Stopped(q) = abandon_goal(s)
    BY <1>2 DEF Stopped
  <2>2. StopBegun(p, q)
    BY StoppingMembers
  <2> HIDE DEF p
  <2>3. /\ s \in Members /\ s.st = "Stopping"
        /\ s.done = (IF q = None THEN b.done ELSE q)
        /\ s.owed = b.owed \cup ({q} \ {None})
        /\ s.unconfirmed = b.unconfirmed \cup ({b.handle} \ {None})
    BY <2>2 DEF StopBegun, Members
  <2> HIDE DEF s
  <2>4. Abandoned(Stopped(q), s)
    BY <2>1, <2>3, AbandonMembers
  <2>5. StopGaveUp(Stopped(q), q)
    BY <2>3, <2>4 DEF Abandoned, StopGaveUp, idle_unless_inactive
  <2> QED
    BY <1>2, <2>5 DEF StopGaveUp
<1>3. CASE ~Ours /\ Available
  <2>1. Stopped(q) = [b EXCEPT !.owed = @ \cup ({q} \ {None})]
    BY <1>3 DEF Stopped
  <2>2. StopOther(Stopped(q), q)
    BY <1>3, <2>1 DEF Members, StopOther
  <2> QED
    BY <1>3, <2>2 DEF StopOther
<1>4. CASE ~Ours /\ ~Available
  <2>1. Stopped(q) = b
    BY <1>4 DEF Stopped
  <2>2. StopOther(Stopped(q), q)
    BY <1>4, <2>1 DEF StopOther
  <2> QED
    BY <1>4, <2>2 DEF StopOther
<1> QED
  BY <1>1, <1>2, <1>3, <1>4
-----------------------------------------------------------------------------
(* Every step keeps the invariant. *)

\* A stop by topic, service or watchdog.
LEMMA StopStep ==
  ASSUME IInv, lc = "active", NEW q \in Requests \cup {None}, q \notin b.owed, Stop(q)
  PROVE  IInv'
<1>1. TypeOK /\ b \in Members /\ None \notin Requests /\ None \notin Goals
  BY BridgeAssumption DEF IInv, TypeOK
<1>2. /\ Ours /\ Available => StopBegun(b', q)
      /\ Ours /\ ~Available => StopGaveUp(b', q)
      /\ ~Ours => StopOther(b', q)
      /\ b' \in Members
  BY <1>1, StoppedMembers DEF Stop
<1>3. /\ cancel_all' \in 0 .. MaxCancels /\ (Available => cancel_all' > 0)
      /\ cancel_all > 0 => cancel_all' > 0
      /\ UNCHANGED <<lc, client, alive, ready, srv, orphans, answer, results, cancel_one>>
      /\ awaiting' = awaiting \cup Asking(q)
  BY <1>1, BridgeAssumption DEF Stop, SendCancelAll, TypeOK
<1>4. b'.done \in b'.owed \cup {None} /\ awaiting' \subseteq b'.owed /\ b'.done \notin awaiting'
  <2>1. /\ b.done \in b.owed \cup {None} /\ awaiting \subseteq b.owed /\ b.done \notin awaiting
        /\ b.owed \subseteq Requests
    BY <1>1 DEF IInv, TypeOK, AnsweredOnce, Members
  <2>2. CASE Ours /\ Available
    BY <1>1, <1>2, <1>3, <2>1, <2>2 DEF StopBegun, Asking
  <2>3. CASE Ours /\ ~Available
    BY <1>1, <1>2, <1>3, <2>1, <2>3 DEF StopGaveUp, Asking
  <2>4. CASE ~Ours
    BY <1>1, <1>2, <1>3, <2>1, <2>4 DEF StopOther, Asking
  <2> QED
    BY <2>2, <2>3, <2>4
<1>5. TypeOK' /\ AnsweredOnce'
  BY <1>1, <1>2, <1>3, <1>4 DEF TypeOK, AnsweredOnce
<1>6. StateInv'
  BY <1>1, <1>2, <1>3 DEF IInv, StateInv, Ours, StopBegun, StopGaveUp, StopOther
<1>7. ASSUME NEW g \in Goals PROVE GoalInv(g)' /\ CurrentInv(g)' /\ Watching(g)'
  <2>1. GoalInv(g) /\ CurrentInv(g) /\ Watching(g)
    BY DEF IInv
  <2>2. GoalInv(g)'
    BY <1>3, <2>1 DEF GoalInv
  <2>3. CurrentInv(g)'
    BY <1>1, <1>2, <1>3, <2>1 DEF CurrentInv, StopBegun, StopGaveUp, StopOther
  <2>4. Watching(g)'
    <3>1. CASE Available
      BY <1>3, <3>1 DEF Watching, Attended
    <3>2. CASE ~Available /\ ~Ours
      BY <1>2, <1>3, <2>1, <3>2 DEF Watching, Attended, StopOther
    <3>3. CASE ~Available /\ Ours
      BY <1>1, <1>2, <1>3, <2>1, <3>3
         DEF Watching, Attended, CurrentInv, GoalInv, TypeOK, StopGaveUp
    <3> QED
      BY <3>1, <3>2, <3>3
  <2> QED
    BY <2>2, <2>3, <2>4
<1> QED
  BY <1>5, <1>6, <1>7 DEF IInv

\* What holds of the members when the bridge is cleaned up or the process ends.
LEMMA CleanMembers ==
  ASSUME IInv, NEW r, r = [finish_stop(Stopped(None)) EXCEPT !.st = "Inactive"]
  PROVE  /\ r \in Members /\ r.st = "Inactive" /\ r.timer = FALSE /\ r.done = None
         /\ r.requested => r.cancel_on_accept
         /\ r.requested = b.requested \/ r.requested = FALSE
         /\ awaiting \subseteq r.owed
         /\ r.current \in {b.current, None}
         /\ r.current = b.current /\ None # b.current =>
              r.requested = b.requested /\ r.handle = b.handle
         /\ b.unconfirmed \subseteq r.unconfirmed
         /\ ~Available => /\ Ours => r.current = None
                          /\ b.handle # None => b.handle \in r.unconfirmed
<1> DEFINE p == Stopped(None)
           f == finish_stop(p)
<1>1. /\ b \in Members /\ None \in Requests \cup {None} /\ None \notin Requests
      /\ awaiting \subseteq b.owed /\ b.done \notin awaiting /\ b.owed \subseteq Requests
      /\ None \notin awaiting
  BY BridgeAssumption DEF IInv, TypeOK, AnsweredOnce, Members
<1>2. /\ Ours /\ Available => StopBegun(p, None)
      /\ Ours /\ ~Available => StopGaveUp(p, None)
      /\ ~Ours => StopOther(p, None)
      /\ p \in Members
  BY <1>1, StoppedMembers
<1> HIDE DEF p
<1>3. Finished(f, p)
  BY <1>2, FinishMembers
<1>4. r = [f EXCEPT !.st = "Inactive"]
  BY DEF p
<1> HIDE DEF f
<1>5. /\ r \in Members /\ r.st = "Inactive" /\ r.timer = FALSE /\ r.done = None
      /\ r.owed = p.owed \ {p.done} /\ r.requested = p.requested
      /\ r.cancel_on_accept = p.cancel_on_accept /\ r.handle = p.handle
      /\ r.current = p.current /\ r.unconfirmed = p.unconfirmed
  BY <1>3, <1>4 DEF Finished, Members
<1>6. CASE Ours /\ Available
  BY <1>1, <1>2, <1>5, <1>6 DEF StopBegun
<1>7. CASE Ours /\ ~Available
  BY <1>1, <1>2, <1>5, <1>7 DEF StopGaveUp, Ours
<1>8. CASE ~Ours
  BY <1>1, <1>2, <1>5, <1>8 DEF StopOther, Ours
<1> QED
  BY <1>6, <1>7, <1>8

LEMMA CleanupStep ==
  ASSUME IInv, OnDeactivate \/ OnShutdown \/ OnError PROVE IInv'
<1>1. TypeOK /\ None \notin Goals
  BY BridgeAssumption DEF IInv, TypeOK
<1>2. /\ b' = [finish_stop(Stopped(None)) EXCEPT !.st = "Inactive"]
      /\ lc' \in {"unconfigured", "inactive", "finalized"}
      /\ SendCancelAll(None) /\ UNCHANGED <<client, alive, ready, srv, orphans>>
  BY DEF OnDeactivate, OnShutdown, OnError, CleanupHelper
<1>3. /\ cancel_all' \in 0 .. MaxCancels /\ (Available => cancel_all' > 0)
      /\ cancel_all > 0 => cancel_all' > 0
      /\ UNCHANGED <<answer, results, cancel_one>>
      /\ awaiting' = awaiting
  BY <1>1, <1>2, BridgeAssumption DEF SendCancelAll, TypeOK, Asking
<1>4. /\ b' \in Members /\ b'.st = "Inactive" /\ b'.timer = FALSE /\ b'.done = None
      /\ b'.requested => b'.cancel_on_accept
      /\ awaiting \subseteq b'.owed /\ b.unconfirmed \subseteq b'.unconfirmed
  BY <1>2, CleanMembers
<1>5. /\ b'.current \in {b.current, None}
      /\ b'.current = b.current /\ None # b.current =>
           b'.requested = b.requested /\ b'.handle = b.handle
      /\ ~Available => /\ Ours => b'.current = None
                       /\ b.handle # None => b.handle \in b'.unconfirmed
  BY <1>2, CleanMembers
<1>6. TypeOK' /\ AnsweredOnce'
  <2>1. None \notin awaiting
    BY BridgeAssumption DEF IInv, TypeOK, Members
  <2> QED
    BY <1>1, <1>2, <1>3, <1>4, <2>1 DEF TypeOK, AnsweredOnce
<1>7. StateInv'
  BY <1>2, <1>4 DEF StateInv
<1>8. ASSUME NEW g \in Goals PROVE GoalInv(g)' /\ CurrentInv(g)' /\ Watching(g)'
  <2>1. GoalInv(g) /\ CurrentInv(g) /\ Watching(g)
    BY DEF IInv
  <2>2. GoalInv(g)'
    BY <1>2, <1>3, <2>1 DEF GoalInv
  <2>3. CurrentInv(g)'
    BY <1>1, <1>2, <1>3, <1>5, <2>1 DEF CurrentInv
  <2>4. Watching(g)'
    <3>1. CASE Available
      BY <1>3, <3>1 DEF Watching, Attended
    <3>2. CASE ~Available
      BY <1>1, <1>2, <1>3, <1>4, <1>5, <2>1, <3>2
         DEF Watching, Attended, CurrentInv, GoalInv, TypeOK, Ours
    <3> QED
      BY <3>1, <3>2
  <2> QED
    BY <2>2, <2>3, <2>4
<1> QED
  BY <1>6, <1>7, <1>8 DEF IInv

LEMMA PreShutdownStep == ASSUME IInv, PreShutdown PROVE IInv'
<1>1. TypeOK
  BY DEF IInv
<1> DEFINE r == [finish_stop(Stopped(None)) EXCEPT !.st = "Inactive"]
<1>2. /\ r \in Members /\ r.st = "Inactive" /\ r.timer = FALSE /\ r.done = None
      /\ r.requested => r.cancel_on_accept
  BY CleanMembers
<1>3. b' = [r EXCEPT !.owed = {}]
  <2>1. b' = [finish_stop(Stopped(None)) EXCEPT !.st = "Inactive", !.owed = {}]
    BY DEF PreShutdown
  <2>2. finish_stop(Stopped(None)) \in Members
    BY <1>1, StoppedMembers, FinishMembers DEF TypeOK, Finished
  <2> QED
    BY <2>1, <2>2 DEF Members
<1> HIDE DEF r
<1>4. /\ b' \in Members /\ b'.st = "Inactive" /\ b'.timer = FALSE /\ b'.done = None
      /\ b'.requested => b'.cancel_on_accept
      /\ b'.owed = {}
  BY <1>2, <1>3 DEF Members
<1>5. TypeOK'
  <2>1. cancel_all' \in 0 .. MaxCancels
    BY <1>1, BridgeAssumption DEF TypeOK, PreShutdown
  <2>2. /\ lc' = "down" /\ client' = FALSE
        /\ answer' = [g \in Goals |-> "none"] /\ results' = {} /\ awaiting' = {}
        /\ orphans' \subseteq Goals /\ UNCHANGED <<alive, ready, srv, cancel_one>>
    BY DEF PreShutdown
  <2>3. answer' \in [Goals -> {"none", "accepted", "rejected"}]
    BY <2>2
  <2> QED
    BY <1>1, <1>4, <2>1, <2>2, <2>3 DEF TypeOK
<1>6. StateInv' /\ AnsweredOnce'
  BY <1>4 DEF StateInv, AnsweredOnce, PreShutdown
<1>7. \A g \in Goals : GoalInv(g)' /\ CurrentInv(g)' /\ Watching(g)'
  BY <1>1 DEF GoalInv, CurrentInv, Watching, Attended, PreShutdown, TypeOK
<1> QED
  BY <1>5, <1>6, <1>7 DEF IInv

LEMMA ClientStep == ASSUME IInv, OnConfigure \/ OnCleanup PROVE IInv'
<1>1. TypeOK /\ StateInv /\ b \in Members /\ b.done \notin awaiting
  BY DEF IInv, TypeOK, AnsweredOnce
<1>2. /\ b' = [b EXCEPT !.owed = @ \ awaiting] /\ lc' \in {"inactive", "unconfigured"}
      /\ client' \in BOOLEAN /\ DropClient /\ UNCHANGED <<alive, ready, srv>>
      /\ b.st = "Inactive"
  <2>1. b.st = "Inactive"
    BY <1>1 DEF StateInv, OnConfigure, OnCleanup
  <2>2. CASE OnConfigure
    BY <1>1, <2>1, <2>2 DEF OnConfigure, Members
  <2>3. CASE OnCleanup
    BY <2>1, <2>3 DEF OnCleanup
  <2> QED
    BY <2>2, <2>3
<1>3. /\ b' \in Members /\ b'.st = "Inactive" /\ b'.timer = b.timer /\ b'.done = b.done
      /\ b'.requested = b.requested /\ b'.cancel_on_accept = b.cancel_on_accept
      /\ b'.owed = b.owed \ awaiting
  BY <1>1, <1>2 DEF Members
<1>4. TypeOK' /\ AnsweredOnce'
  BY <1>1, <1>2, <1>3 DEF TypeOK, AnsweredOnce, DropClient
<1>5. StateInv'
  BY <1>1, <1>2, <1>3 DEF StateInv
<1>6. \A g \in Goals : GoalInv(g)' /\ CurrentInv(g)' /\ Watching(g)'
  BY <1>1, <1>2 DEF GoalInv, CurrentInv, Watching, Attended, DropClient, TypeOK
<1> QED
  BY <1>4, <1>5, <1>6 DEF IInv

LEMMA ActivateStep == ASSUME IInv, OnActivate PROVE IInv'
<1> USE DEF OnActivate, netVars
<1>1. TypeOK /\ StateInv /\ b \in Members /\ b.st = "Inactive"
  BY DEF IInv, TypeOK, StateInv
<1>2. /\ b' \in Members /\ b'.st = "Idle" /\ b'.timer = b.timer /\ b'.done = b.done
      /\ b'.requested = b.requested /\ b'.cancel_on_accept = b.cancel_on_accept
      /\ b'.owed = b.owed /\ b'.current = b.current /\ b'.handle = b.handle
      /\ b'.unconfirmed = b.unconfirmed
  BY <1>1 DEF Members
<1>3. TypeOK' /\ AnsweredOnce'
  BY <1>1, <1>2 DEF IInv, TypeOK, AnsweredOnce
<1>4. StateInv'
  BY <1>1, <1>2 DEF StateInv
<1>5. \A g \in Goals : GoalInv(g)' /\ CurrentInv(g)' /\ Watching(g)'
  BY <1>1, <1>2 DEF IInv, GoalInv, CurrentInv, Watching, Attended
<1> QED
  BY <1>3, <1>4, <1>5 DEF IInv

LEMMA StartStep == ASSUME IInv, NEW g \in Goals, Start(g) PROVE IInv'
<1> USE DEF Start, Unknown, netVars
<1>1. TypeOK /\ StateInv /\ b \in Members
  BY DEF IInv, TypeOK
<1>2. /\ b' \in Members /\ b'.st = "Starting" /\ b'.timer = b.timer /\ b'.done = b.done
      /\ b'.requested = TRUE /\ b'.cancel_on_accept = b.cancel_on_accept
      /\ b'.owed = b.owed /\ b'.current = g /\ b'.handle = b.handle
      /\ b'.unconfirmed = b.unconfirmed \ {g}
  BY <1>1 DEF Members
<1>3. TypeOK' /\ AnsweredOnce'
  BY <1>1, <1>2 DEF IInv, TypeOK, AnsweredOnce
<1>4. StateInv'
  BY <1>1, <1>2 DEF StateInv
<1>5. ASSUME NEW h \in Goals PROVE GoalInv(h)' /\ CurrentInv(h)' /\ Watching(h)'
  <2>1. GoalInv(h) /\ CurrentInv(h) /\ Watching(h)
    BY DEF IInv
  <2>2. srv'[h] = IF h = g THEN "sent" ELSE srv[h]
    BY <1>1 DEF TypeOK
  <2>3. GoalInv(h)' /\ CurrentInv(h)'
    BY <1>2, <2>1, <2>2 DEF GoalInv, CurrentInv
  <2>4. Watching(h)'
    BY <1>2, <2>1, <2>2 DEF Watching, Attended
  <2> QED
    BY <2>3, <2>4
<1> QED
  BY <1>3, <1>4, <1>5 DEF IInv

LEMMA TimeoutStep == ASSUME IInv, StopTimeout PROVE IInv'
<1> USE DEF StopTimeout, netVars
<1>1. /\ TypeOK /\ StateInv /\ b \in Members /\ b.done \notin awaiting
      /\ None \notin Goals /\ None \notin awaiting
  BY BridgeAssumption DEF IInv, TypeOK, AnsweredOnce, Members
<1>2. Abandoned(b', b) /\ b'.st = "Idle" /\ b.st = "Stopping"
  BY <1>1, AbandonMembers DEF Abandoned, idle_unless_inactive, StateInv
<1>3. TypeOK' /\ AnsweredOnce'
  BY <1>1, <1>2 DEF TypeOK, AnsweredOnce, Abandoned
<1>4. StateInv'
  BY <1>1, <1>2 DEF StateInv, Abandoned
<1>5. \A g \in Goals : GoalInv(g)' /\ CurrentInv(g)' /\ Watching(g)'
  BY <1>1, <1>2 DEF IInv, GoalInv, CurrentInv, Watching, Attended, Abandoned
<1> QED
  BY <1>3, <1>4, <1>5 DEF IInv

LEMMA ResponseStep == ASSUME IInv, NEW g \in Goals, GoalResponse(g) PROVE IInv'
<1> USE DEF GoalResponse
<1>1. /\ TypeOK /\ StateInv /\ b \in Members /\ b.done \notin awaiting
      /\ b.done \in b.owed \cup {None} /\ awaiting \subseteq b.owed
      /\ None \notin Goals /\ None \notin awaiting
  BY BridgeAssumption DEF IInv, TypeOK, AnsweredOnce, Members
<1>2. \A h \in Goals : answer'[h] = IF h = g THEN "none" ELSE answer[h]
  BY <1>1 DEF TypeOK
<1>3. answer' \in [Goals -> {"none", "accepted", "rejected"}] /\ cancel_one' \subseteq Goals
  BY <1>1 DEF TypeOK
<1>4. CASE b.current # g
  <2>1. b' = b /\ (answer[g] = "accepted" => g \in cancel_one') /\ cancel_one \subseteq cancel_one'
    BY <1>4 DEF CancelsOnAccept
  <2>2. TypeOK' /\ AnsweredOnce' /\ StateInv'
    BY <1>1, <1>3, <2>1 DEF TypeOK, AnsweredOnce, StateInv
  <2>3. \A h \in Goals : GoalInv(h)' /\ CurrentInv(h)' /\ Watching(h)'
    BY <1>2, <1>4, <2>1 DEF IInv, GoalInv, CurrentInv, Watching, Attended
  <2> QED
    BY <2>2, <2>3 DEF IInv
<1>5. CASE b.current = g /\ answer[g] = "rejected"
  <2> DEFINE i == idle_unless_inactive(b)
             p == [b EXCEPT !.requested = FALSE, !.cancel_on_accept = FALSE, !.st = i]
  <2>1. i = IF lc = "active" THEN "Idle" ELSE "Inactive"
    BY <1>1 DEF idle_unless_inactive, StateInv
  <2>2. b' = finish_stop(p) /\ cancel_one' = cancel_one
    BY <1>5 DEF Responded
  <2> HIDE DEF i
  <2>3. /\ p \in Members /\ p.requested = FALSE /\ p.cancel_on_accept = FALSE /\ p.st = i
        /\ p.done = b.done /\ p.owed = b.owed /\ p.handle = b.handle
        /\ p.current = b.current /\ p.unconfirmed = b.unconfirmed
    BY <1>1, <2>1 DEF Members
  <2> HIDE DEF p
  <2>4. Finished(b', p)
    BY <2>2, <2>3, FinishMembers
  <2>5. /\ b' \in Members /\ b'.requested = FALSE /\ b'.cancel_on_accept = FALSE
        /\ b'.st = i /\ b'.timer = FALSE /\ b'.done = None /\ b'.owed = b.owed \ {b.done}
        /\ b'.current = g /\ b'.unconfirmed = b.unconfirmed
    BY <1>5, <2>3, <2>4 DEF Finished
  <2>6. TypeOK' /\ AnsweredOnce'
    BY <1>1, <1>3, <2>2, <2>5 DEF TypeOK, AnsweredOnce
  <2>7. StateInv'
    BY <1>1, <2>1, <2>5 DEF StateInv
  <2>8. \A h \in Goals : GoalInv(h)' /\ CurrentInv(h)' /\ Watching(h)'
    BY <1>2, <1>5, <2>2, <2>5 DEF IInv, GoalInv, CurrentInv, Watching, Attended
  <2> QED
    BY <2>6, <2>7, <2>8 DEF IInv
<1>6. CASE b.current = g /\ answer[g] = "accepted"
  <2>1. b.requested /\ CurrentInv(g) /\ GoalInv(g)
    BY <1>6 DEF IInv, CurrentInv
  <2>2. b' = [b EXCEPT !.requested = FALSE, !.cancel_on_accept = FALSE, !.handle = g,
                       !.st = IF b.cancel_on_accept THEN b.st ELSE "Running"]
    BY <1>6 DEF Responded
  <2>3. /\ b' \in Members /\ b'.requested = FALSE /\ b'.handle = g /\ b'.current = g
        /\ b'.st = (IF b.cancel_on_accept THEN b.st ELSE "Running")
        /\ b'.timer = b.timer /\ b'.done = b.done /\ b'.owed = b.owed
        /\ b'.unconfirmed = b.unconfirmed
    BY <1>1, <1>6, <2>2 DEF Members
  <2>4. cancel_one' = IF b.cancel_on_accept THEN cancel_one \cup {g} ELSE cancel_one
    BY <1>6 DEF CancelsOnAccept
  <2>5. TypeOK' /\ AnsweredOnce'
    BY <1>1, <1>3, <2>3 DEF TypeOK, AnsweredOnce
  <2>6. StateInv'
    BY <1>1, <2>1, <2>3 DEF StateInv
  <2>7. ASSUME NEW h \in Goals PROVE GoalInv(h)' /\ CurrentInv(h)' /\ Watching(h)'
    <3>1. GoalInv(h) /\ CurrentInv(h) /\ Watching(h)
      BY DEF IInv
    <3>2. GoalInv(h)' /\ CurrentInv(h)'
      BY <1>2, <1>6, <2>1, <2>3, <3>1 DEF GoalInv, CurrentInv
    <3>3. Watching(h)'
      BY <1>2, <1>6, <2>1, <2>3, <2>4, <3>1 DEF Watching, Attended
    <3> QED
      BY <3>2, <3>3
  <2> QED
    BY <2>5, <2>6, <2>7 DEF IInv
<1>7. answer[g] \in {"accepted", "rejected"}
  BY <1>1 DEF TypeOK
<1> QED
  BY <1>4, <1>5, <1>6, <1>7

LEMMA ResultStep == ASSUME IInv, NEW g \in Goals, GoalResult(g) PROVE IInv'
<1> USE DEF GoalResult
<1>1. /\ TypeOK /\ StateInv /\ b \in Members /\ b.done \notin awaiting
      /\ b.done \in b.owed \cup {None} /\ awaiting \subseteq b.owed
      /\ None \notin Goals /\ None \notin awaiting
  BY BridgeAssumption DEF IInv, TypeOK, AnsweredOnce, Members
<1>2. CASE b.current # g
  <2>1. TypeOK' /\ AnsweredOnce' /\ StateInv'
    BY <1>1, <1>2 DEF TypeOK, AnsweredOnce, StateInv
  <2>2. \A h \in Goals : GoalInv(h)' /\ CurrentInv(h)' /\ Watching(h)'
    BY <1>2 DEF IInv, GoalInv, CurrentInv, Watching, Attended
  <2> QED
    BY <2>1, <2>2 DEF IInv
<1>3. CASE b.current = g
  <2> DEFINE i == idle_unless_inactive(b)
             p == [b EXCEPT !.handle = None, !.st = i]
  <2>1. i = IF lc = "active" THEN "Idle" ELSE "Inactive"
    BY <1>1 DEF idle_unless_inactive, StateInv
  <2>2. b' = finish_stop(p) /\ ~b.requested /\ srv[g] = "none"
    BY <1>3 DEF IInv, CurrentInv, GoalInv
  <2> HIDE DEF i
  <2>3. /\ p \in Members /\ p.requested = b.requested /\ p.st = i
        /\ p.cancel_on_accept = b.cancel_on_accept
        /\ p.done = b.done /\ p.owed = b.owed /\ p.handle = None
        /\ p.current = b.current /\ p.unconfirmed = b.unconfirmed
    BY <1>1, <2>1 DEF Members
  <2> HIDE DEF p
  <2>4. Finished(b', p)
    BY <2>2, <2>3, FinishMembers
  <2>5. /\ b' \in Members /\ ~b'.requested /\ b'.cancel_on_accept = b.cancel_on_accept
        /\ b'.st = i /\ b'.timer = FALSE /\ b'.done = None /\ b'.owed = b.owed \ {b.done}
        /\ b'.current = g /\ b'.unconfirmed = b.unconfirmed
    BY <1>3, <2>2, <2>3, <2>4 DEF Finished
  <2>6. TypeOK' /\ AnsweredOnce'
    BY <1>1, <2>5 DEF TypeOK, AnsweredOnce
  <2>7. StateInv'
    BY <1>1, <2>1, <2>5 DEF StateInv
  <2>8. ASSUME NEW h \in Goals PROVE GoalInv(h)' /\ CurrentInv(h)' /\ Watching(h)'
    <3>1. GoalInv(h) /\ CurrentInv(h) /\ Watching(h)
      BY DEF IInv
    <3> QED
      BY <1>3, <2>2, <2>5, <3>1 DEF GoalInv, CurrentInv, Watching, Attended
  <2> QED
    BY <2>6, <2>7, <2>8 DEF IInv
<1> QED
  BY <1>2, <1>3

\* The heartbeat comes and goes, and the server is found and lost from sight.
LEMMA SightStep == ASSUME IInv, Heartbeat \/ Discovery PROVE IInv'
<1> USE DEF Heartbeat, Discovery, netVars
<1>1. TypeOK' /\ AnsweredOnce' /\ StateInv'
  BY DEF IInv, TypeOK, AnsweredOnce, StateInv
<1>2. \A g \in Goals : GoalInv(g)' /\ CurrentInv(g)' /\ Watching(g)'
  BY DEF IInv, GoalInv, CurrentInv, Watching, Attended
<1> QED
  BY <1>1, <1>2 DEF IInv

LEMMA AnswerStep == ASSUME IInv, NEW g \in Goals, AnswerGoal(g) PROVE IInv'
<1> USE DEF AnswerGoal, bridgeVars
<1>1. TypeOK /\ GoalInv(g) /\ CurrentInv(g) /\ answer[g] = "none"
  BY DEF IInv, TypeOK, GoalInv
<1>2. TypeOK' /\ AnsweredOnce' /\ StateInv'
  BY DEF IInv, TypeOK, AnsweredOnce, StateInv
<1>3. PICK v \in {"live", "none"}, a \in {"accepted", "rejected"} :
        /\ v = "live" <=> a = "accepted"
        /\ srv' = [srv EXCEPT ![g] = v]
        /\ answer' = IF g \in orphans THEN answer ELSE [answer EXCEPT ![g] = a]
  OBVIOUS
<1>4. \A h \in Goals : /\ srv'[h] = IF h = g THEN v ELSE srv[h]
                       /\ answer'[h] = IF h = g /\ g \notin orphans THEN a ELSE answer[h]
  BY <1>1, <1>3 DEF TypeOK
<1>5. ASSUME NEW h \in Goals PROVE GoalInv(h)' /\ CurrentInv(h)' /\ Watching(h)'
  <2>1. GoalInv(h) /\ CurrentInv(h) /\ Watching(h) /\ StateInv
    BY DEF IInv
  <2>2. CASE h # g
    BY <1>3, <1>4, <2>1, <2>2 DEF GoalInv, CurrentInv, Watching, Attended
  <2>3. CASE h = g
    <3>1. GoalInv(h)' /\ CurrentInv(h)'
      BY <1>1, <1>3, <1>4, <2>1, <2>3 DEF GoalInv, CurrentInv
    <3>2. Watching(h)'
      BY <1>1, <1>3, <1>4, <2>1, <2>3 DEF CurrentInv, Watching, Attended, StateInv
    <3> QED
      BY <3>1, <3>2
  <2> QED
    BY <2>2, <2>3
<1> QED
  BY <1>2, <1>5 DEF IInv

LEMMA CancelAllStep == ASSUME IInv, CancelAll PROVE IInv'
<1> USE DEF CancelAll, Canceling
<1>1. /\ TypeOK /\ StateInv /\ b \in Members /\ b.done \notin awaiting
      /\ b.done \in b.owed \cup {None} /\ awaiting \subseteq b.owed
  BY DEF IInv, TypeOK, AnsweredOnce
<1>2. PICK Q \in SUBSET awaiting : awaiting' = awaiting \ Q /\ b' = [b EXCEPT !.owed = @ \ Q]
  OBVIOUS
<1>3. /\ b' \in Members /\ b'.owed = b.owed \ Q /\ b'.st = b.st /\ b'.timer = b.timer
      /\ b'.done = b.done /\ b'.requested = b.requested /\ b'.handle = b.handle
      /\ b'.cancel_on_accept = b.cancel_on_accept /\ b'.current = b.current
      /\ b'.unconfirmed = b.unconfirmed
  BY <1>1, <1>2 DEF Members
<1>4. srv' = [g \in Goals |-> IF srv[g] = "live" THEN "canceling" ELSE srv[g]]
  OBVIOUS
<1>5. TypeOK' /\ AnsweredOnce'
  <2>1. cancel_all' \in 0 .. MaxCancels
    BY <1>1, BridgeAssumption DEF TypeOK
  <2> QED
    BY <1>1, <1>2, <1>3, <1>4, <2>1 DEF TypeOK, AnsweredOnce
<1>6. StateInv'
  BY <1>1, <1>3 DEF StateInv
<1>7. ASSUME NEW g \in Goals PROVE GoalInv(g)' /\ CurrentInv(g)' /\ Watching(g)'
  <2>1. GoalInv(g) /\ CurrentInv(g) /\ srv'[g] = IF srv[g] = "live" THEN "canceling" ELSE srv[g]
    BY <1>4 DEF IInv
  <2> QED
    BY <1>3, <2>1 DEF GoalInv, CurrentInv, Watching
<1> QED
  BY <1>5, <1>6, <1>7 DEF IInv

LEMMA CancelOneStep == ASSUME IInv, NEW g \in Goals, CancelOne(g) PROVE IInv'
<1> USE DEF CancelOne, Canceling, bridgeVars
<1>1. TypeOK' /\ AnsweredOnce' /\ StateInv'
  BY DEF IInv, TypeOK, AnsweredOnce, StateInv
<1>2. ASSUME NEW h \in Goals PROVE GoalInv(h)' /\ CurrentInv(h)' /\ Watching(h)'
  <2>1. /\ GoalInv(h) /\ CurrentInv(h) /\ Watching(h)
        /\ srv'[h] = IF h = g /\ srv[h] = "live" THEN "canceling" ELSE srv[h]
    BY DEF IInv
  <2> QED
    BY <2>1 DEF GoalInv, CurrentInv, Watching, Attended
<1> QED
  BY <1>1, <1>2 DEF IInv

LEMMA EndStep ==
  ASSUME IInv, NEW g \in Goals, NEW from \in {"live", "canceling"}, EndGoal(g, from)
  PROVE  IInv'
<1> USE DEF EndGoal, bridgeVars
<1>1. TypeOK' /\ AnsweredOnce' /\ StateInv'
  BY DEF IInv, TypeOK, AnsweredOnce, StateInv
<1>2. ASSUME NEW h \in Goals PROVE GoalInv(h)' /\ CurrentInv(h)' /\ Watching(h)'
  <2>1. /\ GoalInv(h) /\ CurrentInv(h) /\ Watching(h)
        /\ srv'[h] = IF h = g THEN "none" ELSE srv[h]
    BY DEF IInv, TypeOK
  <2> QED
    BY <2>1 DEF GoalInv, CurrentInv, Watching, Attended
<1> QED
  BY <1>1, <1>2 DEF IInv

LEMMA ServerLostStep == ASSUME IInv, ServerLost PROVE IInv'
<1> USE DEF ServerLost
<1>1. TypeOK' /\ AnsweredOnce' /\ StateInv'
  <2>1. TypeOK /\ AnsweredOnce /\ StateInv
    BY DEF IInv
  <2>2. /\ answer' \in [Goals -> {"none", "accepted", "rejected"}]
        /\ srv' \in [Goals -> {"none", "sent", "live", "canceling"}]
        /\ results' \subseteq Goals /\ cancel_one' \subseteq Goals
    BY <2>1 DEF TypeOK
  <2>3. 0 \in 0 .. MaxCancels
    BY BridgeAssumption
  <2>4. TypeOK'
    BY <2>1, <2>2, <2>3 DEF TypeOK
  <2> QED
    BY <2>1, <2>4 DEF AnsweredOnce, StateInv
<1>2. ASSUME NEW g \in Goals PROVE GoalInv(g)' /\ CurrentInv(g)' /\ Watching(g)'
  <2>1. GoalInv(g) /\ CurrentInv(g) /\ srv'[g] = "none"
    BY DEF IInv
  <2> QED
    BY <2>1 DEF GoalInv, CurrentInv, Watching
<1> QED
  BY <1>1, <1>2 DEF IInv

LEMMA Step == IInv /\ [Next]_vars => IInv'
<1> SUFFICES ASSUME IInv, [Next]_vars PROVE IInv'
  OBVIOUS
<1>1. CASE UNCHANGED vars
  <2>1. TypeOK' /\ AnsweredOnce' /\ StateInv'
    BY <1>1 DEF IInv, TypeOK, AnsweredOnce, StateInv, vars, netVars
  <2>2. \A g \in Goals : GoalInv(g)' /\ CurrentInv(g)' /\ Watching(g)'
    BY <1>1 DEF IInv, GoalInv, CurrentInv, Watching, Attended, vars, netVars
  <2> QED
    BY <2>1, <2>2 DEF IInv
<1>2. None \notin b.owed
  BY BridgeAssumption DEF IInv, TypeOK, Members
<1>3. CASE StopTopic \/ Watch
  BY <1>2, <1>3, StopStep DEF StopTopic, Watch
<1>4. ASSUME NEW q \in Requests, StopService(q) PROVE IInv'
  BY <1>4, StopStep DEF StopService
<1>5. CASE OnConfigure \/ OnCleanup
  BY <1>5, ClientStep
<1>6. CASE OnDeactivate \/ OnShutdown \/ OnError
  BY <1>6, CleanupStep
<1>7. CASE Answers
  BY <1>7, ResponseStep, ResultStep DEF Answers
<1>8. CASE Controller
  BY <1>8, CancelAllStep, AnswerStep, CancelOneStep, EndStep DEF Controller
<1>9. ASSUME NEW g \in Goals, Start(g) \/ EndGoal(g, "live") PROVE IInv'
  BY <1>9, StartStep, EndStep
<1>10. CASE OnActivate \/ PreShutdown \/ StopTimeout \/ ServerLost \/ Heartbeat \/ Discovery
  BY <1>10, ActivateStep, PreShutdownStep, TimeoutStep, ServerLostStep, SightStep
<1> QED
  BY <1>1, <1>3, <1>4, <1>5, <1>6, <1>7, <1>8, <1>9, <1>10 DEF Next

LEMMA InitHolds == Init => IInv
<1> SUFFICES ASSUME Init PROVE IInv
  OBVIOUS
<1> USE BridgeAssumption DEF Init
<1>1. TypeOK /\ AnsweredOnce
  <2>1. b \in Members
    BY DEF Members
  <2>2. /\ srv \in [Goals -> {"none", "sent", "live", "canceling"}]
        /\ answer \in [Goals -> {"none", "accepted", "rejected"}]
    OBVIOUS
  <2>3. cancel_all \in 0 .. MaxCancels
    OBVIOUS
  <2> QED
    BY <2>1, <2>2, <2>3 DEF TypeOK, AnsweredOnce
<1>2. StateInv
  BY DEF StateInv
<1>3. \A g \in Goals : GoalInv(g) /\ CurrentInv(g) /\ Watching(g)
  BY DEF GoalInv, CurrentInv, Watching
<1> QED
  BY <1>1, <1>2, <1>3 DEF IInv

\* The invariant holds in every state the bridge reaches.
LEMMA Inductive == Spec => []IInv
BY InitHolds, Step, PTL DEF Spec
-----------------------------------------------------------------------------
(* What it shows. *)

\* The bridge's members stay within their types, and the caller of a stop who is
\* still to be answered is known as such.
THEOREM TypeCorrect == Spec => []TypeOK
<1>1. IInv => TypeOK
  BY DEF IInv
<1> QED
  BY <1>1, Inductive, PTL

\* No wave of the bridge runs on without anyone to stop it, in whatever order
\* answers, results, cancels, timeouts and transitions come, for any number of
\* goals and stop requests.
THEOREM WavesAreSupervised == Spec => []Supervised
<1>1. IInv => Supervised
  BY DEF IInv, Watching, Attended, Supervised
<1> QED
  BY <1>1, Inductive, PTL
-----------------------------------------------------------------------------
(* The bridge implements the order of its contract. *)

\* A step of the contract, or none, as the bridge's variables show it.
ContractStep == Clients!ContractNext \/ UNCHANGED Clients!contractVars

\* Of the states of a wave only the current one's end, stop or acceptance shows.
LEMMA WaveSteps ==
  ASSUME IInv, lc' = lc, alive' = alive,
         \/ b'.st = b.st
         \/ lc = "active" /\ b'.st \in {"Stopping", "Idle"}
         \/ b.st = "Starting" /\ b'.st = "Running"
         \/ b.st = "Idle" /\ alive /\ b'.st = "Starting"
  PROVE  ContractStep
<1> USE DEF ContractStep, Clients!ContractNext, Clients!contractVars, Clients!Wave
<1>1. CASE b'.st = b.st
  BY <1>1
<1>2. CASE lc = "active" /\ b'.st \in {"Stopping", "Idle"} /\ b'.st # b.st
  <2>1. b.st \in {"Idle", "Starting", "Running", "Stopping"}
    BY <1>2 DEF IInv, StateInv, TypeOK, Members
  <2> QED
    BY <1>2, <2>1 DEF Clients!Halted, Clients!Ended, Clients!Busy, Clients!Watched
<1>3. CASE b.st = "Starting" /\ b'.st = "Running"
  BY <1>3 DEF Clients!Accepted
<1>4. CASE b.st = "Idle" /\ alive /\ b'.st = "Starting"
  BY <1>4 DEF Clients!Begun
<1> QED
  BY <1>1, <1>2, <1>3, <1>4

LEMMA StopShows ==
  ASSUME IInv, lc = "active", NEW q \in Requests \cup {None}, Stop(q)
  PROVE  ContractStep
<1>1. b \in Members
  BY DEF IInv, TypeOK
<1>2. /\ Ours /\ Available => StopBegun(b', q)
      /\ Ours /\ ~Available => StopGaveUp(b', q)
      /\ ~Ours => StopOther(b', q)
  BY <1>1, StoppedMembers DEF Stop
<1>3. b'.st = b.st \/ b'.st \in {"Stopping", "Idle"}
  BY <1>2 DEF StopBegun, StopGaveUp, StopOther
<1>4. lc' = lc /\ alive' = alive
  BY DEF Stop
<1> QED
  BY <1>3, <1>4, WaveSteps

\* Leaving the active state, or a transition of a bridge that was not active.
LEMMA LeaveShows ==
  ASSUME IInv, OnDeactivate \/ OnShutdown \/ OnError \/ PreShutdown PROVE ContractStep
<1> DEFINE f == finish_stop(Stopped(None))
<1>1. f \in Members
  BY StoppedMembers, FinishMembers DEF IInv, TypeOK, Finished
<1>2. \/ b' = [f EXCEPT !.st = "Inactive"]
      \/ b' = [f EXCEPT !.st = "Inactive", !.owed = {}]
  BY DEF OnDeactivate, OnShutdown, OnError, CleanupHelper, PreShutdown
<1> HIDE DEF f
<1>3. b'.st = "Inactive"
  BY <1>1, <1>2 DEF Members
<1>4. lc' # "active" /\ alive' = alive
  BY DEF OnDeactivate, OnShutdown, OnError, CleanupHelper, PreShutdown
<1>5. lc # "active" => b.st = "Inactive"
  BY DEF IInv, StateInv
<1> QED
  BY <1>3, <1>4, <1>5 DEF ContractStep, Clients!ContractNext, Clients!Left, Clients!contractVars

LEMMA ActivateShows == ASSUME IInv, OnActivate PROVE ContractStep
<1>1. b'.st = "Idle" /\ b.st = "Inactive"
  BY DEF IInv, StateInv, TypeOK, Members, OnActivate
<1> QED
  BY <1>1 DEF OnActivate, ContractStep, Clients!ContractNext, Clients!Activated

LEMMA AnswersShow ==
  ASSUME IInv, NEW g \in Goals, GoalResponse(g) \/ GoalResult(g) PROVE ContractStep
<1>1. /\ b \in Members /\ StateInv /\ lc' = lc /\ alive' = alive
      /\ answer[g] \in {"none", "accepted", "rejected"}
  BY DEF IInv, TypeOK, GoalResponse, GoalResult
<1>2. idle_unless_inactive(b) = IF lc = "active" THEN "Idle" ELSE "Inactive"
  BY <1>1 DEF idle_unless_inactive, StateInv
<1>3. CASE b.current # g
  BY <1>1, <1>3, WaveSteps DEF GoalResponse, GoalResult
<1>4. CASE b.current = g /\ GoalResponse(g) /\ answer[g] = "accepted"
  <2>1. b.requested
    BY <1>4 DEF IInv, CurrentInv
  <2>2. b'.st = IF b.cancel_on_accept THEN b.st ELSE "Running"
    BY <1>1, <1>4 DEF GoalResponse, Responded, Members
  <2>3. ~b.cancel_on_accept => b.st = "Starting"
    BY <1>1, <2>1 DEF StateInv
  <2> QED
    BY <1>1, <2>2, <2>3, WaveSteps
<1>5. CASE b.current = g /\ (GoalResult(g) \/ (GoalResponse(g) /\ answer[g] = "rejected"))
  <2> DEFINE i == idle_unless_inactive(b)
             p == IF GoalResult(g) THEN [b EXCEPT !.handle = None, !.st = i]
                  ELSE [b EXCEPT !.requested = FALSE, !.cancel_on_accept = FALSE, !.st = i]
  <2>1. b' = finish_stop(p)
    BY <1>5 DEF GoalResponse, GoalResult, Responded
  <2> HIDE DEF i
  <2>2. i \in {"Idle", "Inactive"}
    BY <1>2 DEF i
  <2>3. p \in Members /\ p.st = i
    BY <1>1, <1>5, <2>2 DEF Members
  <2> HIDE DEF p
  <2>4. b'.st = i
    BY <2>1, <2>3, FinishMembers DEF Finished
  <2>5. b'.st = IF lc = "active" THEN "Idle" ELSE b.st
    BY <1>1, <1>2, <2>4 DEF i, StateInv
  <2> QED
    BY <1>1, <2>5, WaveSteps
<1>6. answer[g] \in {"accepted", "rejected"} \/ GoalResult(g)
  BY <1>1 DEF GoalResponse
<1> QED
  BY <1>3, <1>4, <1>5, <1>6

LEMMA StepShows == IInv /\ [Next]_vars => ContractStep
<1> SUFFICES ASSUME IInv, [Next]_vars PROVE ContractStep
  OBVIOUS
<1>1. b \in Members
  BY DEF IInv, TypeOK
<1>2. CASE UNCHANGED vars
  BY <1>2, WaveSteps DEF vars
<1>3. CASE StopTopic \/ Watch \/ \E q \in Requests : StopService(q)
  BY <1>3, StopShows DEF StopTopic, Watch, StopService
<1>4. CASE OnConfigure \/ OnCleanup
  <2>1. b.st = "Inactive" /\ lc # "active" /\ lc' # "active" /\ alive' = alive
    BY <1>4 DEF IInv, StateInv, OnConfigure, OnCleanup
  <2>2. b'.st = "Inactive"
    BY <1>1, <1>4, <2>1 DEF OnConfigure, OnCleanup, Members
  <2> QED
    BY <2>1, <2>2 DEF ContractStep, Clients!contractVars
<1>5. CASE OnDeactivate \/ OnShutdown \/ OnError \/ PreShutdown
  BY <1>5, LeaveShows
<1>6. CASE OnActivate
  BY <1>6, ActivateShows
<1>7. CASE Answers
  BY <1>7, AnswersShow DEF Answers
<1>8. CASE StopTimeout
  <2>1. Abandoned(b', b) /\ b.st = "Stopping" /\ lc = "active"
    BY <1>1, <1>8, AbandonMembers DEF StopTimeout, IInv, StateInv
  <2> QED
    BY <1>8, <2>1, WaveSteps DEF Abandoned, idle_unless_inactive, StopTimeout
<1>9. ASSUME NEW g \in Goals, Start(g) PROVE ContractStep
  <2>1. b'.st = "Starting"
    BY <1>1, <1>9 DEF Start, Members
  <2> QED
    BY <1>9, <2>1, WaveSteps DEF Start
<1>10. CASE CancelAll
  <2>1. b'.st = b.st
    BY <1>1, <1>10 DEF CancelAll, Members
  <2> QED
    BY <1>10, <2>1, WaveSteps DEF CancelAll
<1>11. ASSUME NEW g \in Goals, NEW from,
              AnswerGoal(g) \/ CancelOne(g) \/ EndGoal(g, from)
       PROVE  ContractStep
  BY <1>11, WaveSteps DEF AnswerGoal, CancelOne, EndGoal, bridgeVars
<1>12. CASE Discovery \/ ServerLost
  BY <1>12, WaveSteps DEF Discovery, ServerLost
<1>13. CASE Heartbeat
  BY <1>13 DEF Heartbeat, ContractStep, Clients!ContractNext, Clients!Beat
<1> QED
  BY <1>2, <1>3, <1>4, <1>5, <1>6, <1>7, <1>8, <1>9, <1>10, <1>11, <1>12, <1>13
     DEF Next, Controller

\* The bridge implements the order of states its clients are built on: whatever
\* arrives late, an inactive bridge stays inactive, a wave begins only while the
\* heartbeat is alive, and a stopped wave never shows as running again.
THEOREM KeepsOrder == Spec => Clients!Order
<1>1. Init => Clients!ContractInit
  BY DEF Init, Clients!ContractInit
<1>2. IInv /\ [Next]_vars => [Clients!ContractNext]_(Clients!contractVars)
  BY StepShows DEF ContractStep
<1> QED
  BY <1>1, <1>2, Inductive, PTL DEF Spec, Clients!Order
=============================================================================
