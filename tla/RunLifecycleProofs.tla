------------------------ MODULE RunLifecycleProofs -------------------------
(* Theorems about RunLifecycle, for any number of operations, stops, closes,   *)
(* waiting calls and polls.                                                   *)
EXTENDS RunLifecycle, TLAPS

----------------------------------------------------------------------------
(* Types.                                                                   *)

Cleanups == [target : Maybe, gen : Nat, polls : 0..MaxPolls, timedOut : BOOLEAN,
             releasing : BOOLEAN, released : BOOLEAN, poll : BOOLEAN, timer : BOOLEAN]
Shutdowns == [on : BOOLEAN, target : Maybe, polls : 0..MaxPolls]
Quits    == [open : BOOLEAN, op : Ops, target : Maybe]
Workers  == [pc : WorkerPcs, op : Ops, paused : BOOLEAN, stopped : BOOLEAN, killed : BOOLEAN]
Threads  == [kind : {"none", "resolve", "recheck"}, op : Ops, target : Maybe]
Releases == [gen : Nat, force : BOOLEAN, at : Targets \cup {"done"}]
Calls    == [call : {"preflight", "ended", "stop", "resume", "quit", "released", "exit"},
             op : Nat, target : Maybe, kind : {"none", "resolve", "recheck"}]

\* TypeOK in parts.
IdTypes     == op \in Ops /\ ops \in Ops
WindowTypes == running \in Maybe /\ closes \in Nat /\ canStop \in BOOLEAN /\ closing \in BOOLEAN
FlagTypes   == preflight \in BOOLEAN /\ downloads \in BOOLEAN
DialogTypes == plan \in Maybe /\ stopDialog \in Ops /\ timeoutDialog \in Ops /\ quitDialog \in Quits
CoordTypes  == cleanup \in Cleanups /\ shutdown \in Shutdowns /\ exit \in {"no", "pending", "exited"}
RunnerTypes == w \in [Targets -> Workers] /\ pf \in Threads
CallTypes   == rels \subseteq Releases /\ idle \in Seq(Calls)

Types == /\ IdTypes /\ WindowTypes /\ FlagTypes /\ DialogTypes
         /\ CoordTypes /\ RunnerTypes /\ CallTypes

LEMMA TypesAreTypeOK == Types => TypeOK
  BY DEF TypeOK, Types, IdTypes, WindowTypes, FlagTypes, DialogTypes, CoordTypes, RunnerTypes,
         CallTypes, Cleanups, Shutdowns, Quits, Workers, Threads, Releases, Calls

\* What stopping, pausing and clearing do to a runner.
LEMMA StoppedFacts ==
  ASSUME NEW x \in Workers, NEW force \in BOOLEAN
  PROVE  /\ Stopped(x, force) \in Workers
         /\ Stopped(x, force).pc = x.pc /\ Stopped(x, force).op = x.op
         /\ x.pc # "dead" => ~Stopped(x, force).paused
  BY DEF Stopped, Workers

LEMMA PausedFacts ==
  ASSUME NEW x \in Workers, NEW on \in BOOLEAN
  PROVE  /\ Paused(x, on) \in Workers
         /\ Paused(x, on).pc = x.pc /\ Paused(x, on).op = x.op
         /\ x.pc # "dead" => Paused(x, on).paused = on
  BY DEF Paused, Workers

LEMMA DeadFacts == Dead \in Workers /\ Dead.pc = "dead" /\ Dead.op = 0 /\ Dead.paused = FALSE
  BY LifecycleAssumption DEF Dead, Workers, WorkerPcs, Ops

\* What the coordinator's operations make of a cleanup.
LEMMA CleanupFacts ==
  ASSUME NEW c \in Cleanups, NEW t \in Maybe
  PROVE  /\ Cancelled(c) \in Cleanups /\ Cancelled(c).target = None
         /\ Resumed(c) \in Cleanups /\ Resumed(c).target = c.target
         /\ Scheduled(c, t) \in Cleanups /\ Scheduled(c, t).target = t
         /\ Counted(c) \in Cleanups /\ Counted(c).target = c.target
  <1> USE LifecycleAssumption DEF Cleanups
  <1>1. NoCleanup \in Cleanups /\ NoCleanup.target = None
    BY DEF NoCleanup, Maybe
  <1>2. Cancelled(c) \in Cleanups /\ Cancelled(c).target = None
    BY <1>1 DEF Cancelled
  <1>3. \A d \in Cleanups : Resumed(d) \in Cleanups /\ Resumed(d).target = d.target
    BY DEF Resumed
  <1>4. [NoCleanup EXCEPT !.target = t, !.gen = c.gen + 1] \in Cleanups
        /\ [NoCleanup EXCEPT !.target = t, !.gen = c.gen + 1].target = t
    <2>1. c.gen + 1 \in Nat /\ 0 \in 0..MaxPolls
      OBVIOUS
    <2> QED BY <2>1 DEF NoCleanup
  <1>5. Scheduled(c, t) \in Cleanups /\ Scheduled(c, t).target = t
    BY <1>3, <1>4 DEF Scheduled
  <1>6. Counted(c) \in Cleanups /\ Counted(c).target = c.target
    BY DEF Counted
  <1> QED BY <1>2, <1>3, <1>5, <1>6

\* The common updates of several actions.
LEMMA UpdateTypes ==
  ASSUME Types
  PROVE  /\ \A t \in Maybe : StopTarget(t) => w' \in [Targets -> Workers]
         /\ \A t \in Maybe, on \in BOOLEAN : PauseTarget(t, on) => w' \in [Targets -> Workers]
         /\ StopAll => w' \in [Targets -> Workers]
         /\ BeginExit => exit' \in {"no", "pending", "exited"} /\ rels' \subseteq Releases
  <1> USE DEF Types, RunnerTypes, CoordTypes, CallTypes
  <1>1. \A t \in Maybe : StopTarget(t) => w' \in [Targets -> Workers]
    BY StoppedFacts DEF StopTarget
  <1>2. \A t \in Maybe, on \in BOOLEAN : PauseTarget(t, on) => w' \in [Targets -> Workers]
    BY PausedFacts DEF PauseTarget
  <1>3. StopAll => w' \in [Targets -> Workers]
    BY StoppedFacts DEF StopAll
  <1>4. BeginExit => exit' \in {"no", "pending", "exited"} /\ rels' \subseteq Releases
    <2>1. [gen |-> 0, force |-> TRUE, at |-> "separation"] \in Releases
      BY DEF Releases, Targets
    <2> QED BY <2>1 DEF BeginExit
  <1> QED BY <1>1, <1>2, <1>3, <1>4

LEMMA EndRunTypes ==
  ASSUME Types, RestoreIdle
  PROVE  /\ cleanup' \in Cleanups /\ running' \in Maybe /\ canStop' \in BOOLEAN
         /\ stopDialog' \in Ops /\ timeoutDialog' \in Ops
  <1>1. cleanup' \in Cleanups
    BY CleanupFacts DEF Types, RestoreIdle, CoordTypes, Maybe
  <1>2. 0 \in Ops /\ None \in Maybe
    BY LifecycleAssumption DEF Ops, Maybe
  <1> QED BY <1>1, <1>2 DEF RestoreIdle

\* A call that the main loop takes, and one that is posted.
LEMMA ReceivedTypes ==
  ASSUME Types, NEW name, Received(name)
  PROVE  Head(idle) \in Calls /\ Head(idle).call = name /\ idle' \in Seq(Calls) /\ idle' = Tail(idle)
  BY DEF Types, CallTypes, Received

LEMMA PostedTypes ==
  ASSUME Types, NEW m \in Calls, idle' = Append(idle, m) PROVE idle' \in Seq(Calls)
  BY DEF Types, CallTypes

LEMMA CallIsCall ==
  ASSUME NEW o \in Nat, NEW t \in Maybe,
         NEW name \in {"ended", "stop", "resume", "quit", "released", "exit"}
  PROVE  Call(name, o, t) \in Calls
  BY DEF Call, Calls

LEMMA LaunchTypes ==
  ASSUME Types, NEW t \in Maybe, NEW kind \in {"resolve", "recheck"}, Launch(kind, t)
  PROVE  op' \in Ops /\ preflight' \in BOOLEAN /\ pf' \in Threads
  BY DEF Types, IdTypes, Launch, Threads

LEMMA AcceptTypes ==
  ASSUME Types, NEW t \in Maybe, AcceptPlan(t)
  PROVE  op' \in Ops /\ preflight' \in BOOLEAN /\ pf' \in Threads
  <1>1. 0 \in Ops /\ pf \in Threads
    BY LifecycleAssumption DEF Types, Ops, RunnerTypes
  <1> QED BY <1>1, LaunchTypes DEF AcceptPlan, GiveUp

LEMMA StartTypes ==
  ASSUME Types, NEW t \in Targets,
         HandleStart(t) \/ PreflightThread \/ ClosePlan \/ OpenStop \/ Wait(t) \/ Resume(t)
         \/ Verdict(t) \/ ThreadEnds(t)
  PROVE  Types'
  <1> USE LifecycleAssumption DEF Types
  <1>1. CASE HandleStart(t)
    <2>1. IdTypes' /\ FlagTypes' /\ RunnerTypes'
      <3>1. ops' \in Ops /\ op' \in Ops /\ UNCHANGED <<downloads, w>>
        BY <1>1 DEF HandleStart, IdTypes, Ops
      <3>2. [kind |-> "resolve", op |-> ops', target |-> t] \in Threads
        BY <3>1 DEF Threads, Maybe
      <3> QED BY <1>1, <3>1, <3>2 DEF HandleStart, IdTypes, FlagTypes, RunnerTypes
    <2> QED BY <1>1, <2>1 DEF HandleStart, WindowTypes, DialogTypes, CoordTypes, CallTypes, FlagTypes,
            dialogs, window, coord
  <1>2. CASE PreflightThread
    <2>1. [call |-> "preflight", op |-> pf.op, target |-> pf.target, kind |-> pf.kind] \in Calls
      BY DEF RunnerTypes, Threads, Calls, Ops
    <2>2. NoThread \in Threads
      BY DEF NoThread, Threads, Ops, Maybe
    <2>3. idle' \in Seq(Calls)
      BY <1>2, <2>1, PostedTypes DEF PreflightThread
    <2> QED BY <1>2, <2>2, <2>3 DEF PreflightThread, IdTypes, FlagTypes, RunnerTypes, WindowTypes,
            DialogTypes, CoordTypes, CallTypes, ids, dialogs, window, coord
  <1>3. CASE ClosePlan
    <2>1. op' \in Ops /\ preflight' \in BOOLEAN /\ pf' \in Threads
      BY <1>3, AcceptTypes DEF ClosePlan, DialogTypes
    <2> QED BY <1>3, <2>1 DEF ClosePlan, IdTypes, FlagTypes, RunnerTypes, WindowTypes, DialogTypes,
            CoordTypes, CallTypes, window, coord, Maybe
  <1>4. CASE OpenStop
    <2>1. w' \in [Targets -> Workers]
      BY <1>4, UpdateTypes DEF OpenStop, WindowTypes
    <2> QED BY <1>4, <2>1 DEF OpenStop, IdTypes, FlagTypes, RunnerTypes, WindowTypes, DialogTypes,
            CoordTypes, CallTypes, ids, coord
  <1>5. CASE Wait(t) \/ Resume(t) \/ Verdict(t) \/ ThreadEnds(t)
    <2>1. w' \in [Targets -> Workers]
      BY <1>5, DeadFacts DEF Wait, Resume, Verdict, ThreadEnds, Work, RunnerTypes, Workers, WorkerPcs
    <2>2. idle' \in Seq(Calls)
      <3>1. w[t].op \in Nat /\ None \in Maybe
        BY DEF RunnerTypes, Workers, Ops, Maybe
      <3> QED BY <1>5, <3>1, CallIsCall, PostedTypes DEF Wait, Resume, Verdict, ThreadEnds, Work, CallTypes
    <2> QED BY <1>5, <2>1, <2>2 DEF Wait, Resume, Verdict, ThreadEnds, Work, IdTypes, FlagTypes,
            RunnerTypes, WindowTypes, DialogTypes, CoordTypes, CallTypes, ids, dialogs, window, coord
  <1> QED BY <1>1, <1>2, <1>3, <1>4, <1>5

LEMMA FinishTypes ==
  ASSUME Types, NEW t \in Maybe, FinishPreflight(t) \/ (FinishRecheck(t) /\ UNCHANGED plan)
  PROVE  /\ op' \in Ops /\ preflight' \in BOOLEAN /\ pf' \in Threads /\ plan' \in Maybe
         /\ running' \in Maybe /\ canStop' \in BOOLEAN
         /\ stopDialog' \in Ops /\ timeoutDialog' \in Ops
         /\ cleanup' \in Cleanups /\ w' \in [Targets -> Workers]
  <1> USE DEF Types
  <1>0. /\ 0 \in Ops /\ op \in Ops /\ preflight \in BOOLEAN /\ pf \in Threads
        /\ plan \in Maybe /\ running \in Maybe /\ canStop \in BOOLEAN /\ stopDialog \in Ops
        /\ timeoutDialog \in Ops /\ cleanup \in Cleanups /\ w \in [Targets -> Workers]
    BY LifecycleAssumption
    DEF Ops, Maybe, IdTypes, FlagTypes, RunnerTypes, DialogTypes, WindowTypes, CoordTypes
  <1>1. CASE FinishPreflight(t)
    <2>1. op' \in Ops /\ preflight' \in BOOLEAN /\ pf' \in Threads
      BY <1>0, <1>1, AcceptTypes DEF FinishPreflight
    <2> QED BY <1>0, <1>1, <2>1 DEF FinishPreflight
  <1>2. CASE FinishRecheck(t) /\ UNCHANGED plan
    <2>1. CASE /\ GiveUp \/ Launch("resolve", t)
               /\ preflight' = (pf'.kind # "none")
               /\ UNCHANGED <<running, canStop, stopDialog, timeoutDialog, cleanup, w>>
      <3>1. op' \in Ops /\ pf' \in Threads
        BY <1>0, <2>1, LaunchTypes DEF GiveUp
      <3> QED BY <1>0, <1>2, <2>1, <3>1
    <2>2. CASE preflight' = FALSE /\ UNCHANGED pf /\ StartTarget(t)
      <3>1. [Dead EXCEPT !.pc = "body", !.op = op] \in Workers
        BY <1>0, DeadFacts DEF Workers, WorkerPcs
      <3>2. CASE RunnerStart(t) /\ UNCHANGED <<op, stopDialog, timeoutDialog, cleanup>>
                 /\ running' = t /\ canStop' = TRUE
        <4>1. w' \in [Targets -> Workers]
          BY <1>0, <3>1, <3>2 DEF RunnerStart
        <4> QED BY <1>0, <1>2, <2>2, <3>2, <4>1
      <3>3. CASE EndRun /\ UNCHANGED w
        BY <1>0, <1>2, <2>2, <3>3, EndRunTypes DEF EndRun
      <3>4. CASE op' = 0 /\ UNCHANGED <<running, canStop, stopDialog, timeoutDialog, cleanup, w>>
        BY <1>0, <1>2, <2>2, <3>4
      <3> QED BY <2>2, <3>2, <3>3, <3>4 DEF StartTarget
    <2> QED BY <1>2, <2>1, <2>2 DEF FinishRecheck
  <1> QED BY <1>1, <1>2

\* The steps of the main loop for the preflight and for the verdicts.
LEMMA DeliverTypes ==
  ASSUME Types, DeliverPreflight \/ DeliverEnded \/ DeliverStop \/ DeliverResume \/ DeliverQuit
                \/ DeliverExit
  PROVE  Types'
  <1> DEFINE m == Head(idle)
  <1>1. m \in Calls /\ idle' \in Seq(Calls)
    BY ReceivedTypes DEF DeliverPreflight, DeliverEnded, DeliverStop, DeliverResume, DeliverQuit,
                         DeliverExit
  <1>2. m.target \in Maybe /\ m.kind \in {"none", "resolve", "recheck"}
    BY <1>1 DEF Calls
  <1> HIDE DEF m
  <1> USE LifecycleAssumption DEF Types
  <1>3. CASE DeliverPreflight
    <2>1. CASE ~Current(m.op)
      BY <1>1, <1>3, <2>1 DEF DeliverPreflight, m, IdTypes, FlagTypes, RunnerTypes, WindowTypes, DialogTypes,
            CoordTypes, CallTypes
    <2>2. CASE Current(m.op)
      <3>1. \/ FinishPreflight(m.target)
            \/ FinishRecheck(m.target) /\ UNCHANGED plan
        BY <1>3, <2>2 DEF DeliverPreflight, m
      <3> QED BY <1>1, <1>2, <1>3, <3>1, FinishTypes DEF DeliverPreflight, IdTypes, FlagTypes, RunnerTypes, WindowTypes, DialogTypes,
            CoordTypes, CallTypes
    <2> QED BY <2>1, <2>2
  <1>4. CASE DeliverEnded
    <2>1. op' \in Ops /\ running' \in Maybe /\ canStop' \in BOOLEAN /\ stopDialog' \in Ops
          /\ timeoutDialog' \in Ops /\ cleanup' \in Cleanups
      BY <1>4, EndRunTypes DEF DeliverEnded, EndRun, IdTypes, WindowTypes, DialogTypes, CoordTypes, Ops
    <2> QED BY <1>1, <1>4, <2>1 DEF DeliverEnded, IdTypes, FlagTypes, RunnerTypes, WindowTypes, DialogTypes,
            CoordTypes, CallTypes
  <1>5. CASE DeliverStop
    <2>1. w' \in [Targets -> Workers] /\ cleanup' \in Cleanups
      BY <1>2, <1>5, UpdateTypes, CleanupFacts DEF DeliverStop, m, RunnerTypes, CoordTypes
    <2> QED BY <1>1, <1>5, <2>1 DEF DeliverStop, dialogs, ids, IdTypes, FlagTypes, RunnerTypes, WindowTypes, DialogTypes,
            CoordTypes, CallTypes
  <1>6. CASE DeliverResume
    <2>1. w' \in [Targets -> Workers]
      BY <1>2, <1>6, UpdateTypes DEF DeliverResume, m, RunnerTypes
    <2> QED BY <1>1, <1>6, <2>1 DEF DeliverResume, dialogs, ids, coord, IdTypes, FlagTypes, RunnerTypes, WindowTypes, DialogTypes,
            CoordTypes, CallTypes
  <1>7. CASE DeliverQuit
    <2>1. w' \in [Targets -> Workers] /\ cleanup' \in Cleanups
      BY <1>2, <1>7, UpdateTypes, CleanupFacts DEF DeliverQuit, m, CoordTypes, Maybe
    <2>2. [on |-> TRUE, target |-> m.target, polls |-> 0] \in Shutdowns /\ 0 \in Ops
      BY <1>2 DEF Shutdowns, Ops
    <2> QED BY <1>1, <1>7, <2>1, <2>2 DEF DeliverQuit, dialogs, m, Maybe, IdTypes, FlagTypes, RunnerTypes, WindowTypes, DialogTypes,
            CoordTypes, CallTypes
  <1>8. CASE DeliverExit
    BY <1>1, <1>8 DEF DeliverExit, ids, dialogs, window, IdTypes, FlagTypes, RunnerTypes, WindowTypes, DialogTypes,
            CoordTypes, CallTypes
  <1> QED BY <1>3, <1>4, <1>5, <1>6, <1>7, <1>8

\* A poll, and what it posts or ends.
LEMMA PollTypes ==
  ASSUME Types, NEW c \in Cleanups, PollCleanup(c)
  PROVE  /\ op' \in Ops /\ running' \in Maybe /\ canStop' \in BOOLEAN
         /\ stopDialog' \in Ops /\ timeoutDialog' \in Ops
         /\ cleanup' \in Cleanups /\ rels' \subseteq Releases
  <1> DEFINE d == Counted(c)
             keep == UNCHANGED <<op, running, canStop, stopDialog, timeoutDialog>>
  <1>0. d \in Cleanups /\ None \in Maybe
    BY CleanupFacts DEF Maybe
  <1>1. /\ cleanup' = [c EXCEPT !.poll = FALSE] => cleanup' \in Cleanups
        /\ cleanup' = [d EXCEPT !.poll = d.released] => cleanup' \in Cleanups
        /\ cleanup' = [d EXCEPT !.releasing = TRUE, !.poll = FALSE] => cleanup' \in Cleanups
    BY <1>0 DEF Cleanups
  <1>2. [gen |-> d.gen, force |-> Alive(d.target), at |-> "separation"] \in Releases
    BY <1>0 DEF Cleanups, Releases, Targets, Alive
  <1>3. keep => /\ op' \in Ops /\ running' \in Maybe /\ canStop' \in BOOLEAN
                /\ stopDialog' \in Ops /\ timeoutDialog' \in Ops
    BY DEF Types, IdTypes, WindowTypes, DialogTypes
  <1>4. UNCHANGED rels => rels' \subseteq Releases
    BY DEF Types, CallTypes
  <1> HIDE DEF d
  <1>5. CASE d.target = None \/ d.timedOut
    BY <1>1, <1>3, <1>4, <1>5 DEF PollCleanup, d
  <1>6. CASE d.target # None /\ ~d.timedOut /\ d.releasing
    <2>1. UNCHANGED rels /\ (StopCleanedUp(d.target) \/ (cleanup' = [d EXCEPT !.poll = d.released] /\ keep))
      BY <1>6 DEF PollCleanup, d
    <2>2. CASE StopCleanedUp(d.target)
      <3>1. CASE EndRun
        BY <1>4, <2>1, <3>1, EndRunTypes, LifecycleAssumption DEF EndRun, Ops
      <3>2. CASE cleanup' = Cancelled(cleanup) /\ keep
        BY <1>0, <1>3, <1>4, <2>1, <3>2, CleanupFacts DEF Types, CoordTypes
      <3> QED BY <2>2, <3>1, <3>2 DEF StopCleanedUp
    <2> QED BY <1>1, <1>3, <1>4, <2>1, <2>2
  <1>7. CASE d.target # None /\ ~d.timedOut /\ ~d.releasing
    <2>1. /\ keep
          /\ \/ /\ cleanup' = [d EXCEPT !.releasing = TRUE, !.poll = FALSE]
                /\ rels' = rels \cup {[gen |-> d.gen, force |-> Alive(d.target), at |-> "separation"]}
             \/ cleanup' = d /\ UNCHANGED rels
      BY <1>7 DEF PollCleanup, d
    <2>2. rels' \subseteq Releases
      BY <1>2, <2>1 DEF Types, CallTypes
    <2> QED BY <1>0, <1>1, <1>3, <2>1, <2>2
  <1> QED BY <1>5, <1>6, <1>7

LEMMA CoordTypesStep ==
  ASSUME Types, Poll \/ DeliverReleased \/ Expire \/ WaitLonger
  PROVE  Types'
  <1> USE LifecycleAssumption DEF Types
  <1>1. CASE Poll
    <2>1. cleanup \in Cleanups
      BY DEF CoordTypes
    <2> QED BY <1>1, <2>1, PollTypes DEF Poll, IdTypes, FlagTypes, RunnerTypes, WindowTypes, DialogTypes,
            CoordTypes, CallTypes
  <1>2. CASE DeliverReleased
    <2>1. idle' \in Seq(Calls)
      BY <1>2, ReceivedTypes DEF DeliverReleased
    <2>2. [cleanup EXCEPT !.released = TRUE, !.poll = TRUE] \in Cleanups
      BY DEF CoordTypes, Cleanups
    <2>3. CASE PollCleanup([cleanup EXCEPT !.released = TRUE, !.poll = TRUE])
      BY <1>2, <2>1, <2>2, <2>3, PollTypes DEF DeliverReleased, IdTypes, FlagTypes, RunnerTypes, WindowTypes, DialogTypes,
            CoordTypes, CallTypes
    <2>4. CASE UNCHANGED <<op, running, canStop, stopDialog, timeoutDialog, cleanup, rels>>
      BY <1>2, <2>1, <2>4 DEF DeliverReleased, IdTypes, FlagTypes, RunnerTypes, WindowTypes, DialogTypes,
            CoordTypes, CallTypes
    <2> QED BY <1>2, <2>3, <2>4 DEF DeliverReleased
  <1>3. CASE Expire
    <2>1. cleanup' \in Cleanups
      BY <1>3 DEF Expire, CoordTypes, Cleanups
    <2> QED BY <1>3, <2>1 DEF Expire, ids, IdTypes, FlagTypes, RunnerTypes, WindowTypes, DialogTypes,
            CoordTypes, CallTypes
  <1>4. CASE WaitLonger
    <2>1. cleanup' \in Cleanups /\ 0 \in Ops
      BY <1>4, CleanupFacts DEF WaitLonger, CoordTypes, Ops, Maybe
    <2> QED BY <1>4, <2>1 DEF WaitLonger, ids, window, IdTypes, FlagTypes, RunnerTypes, WindowTypes, DialogTypes,
            CoordTypes, CallTypes
  <1> QED BY <1>1, <1>2, <1>3, <1>4

LEMMA DialogTypesStep ==
  ASSUME Types, NEW yes \in BOOLEAN, AnswerStop(yes) \/ AnswerQuit(yes)
  PROVE  Types'
  <1> USE LifecycleAssumption DEF Types
  <1>0. /\ 0 \in Ops /\ None \in Maybe /\ NoQuit \in Quits /\ stopDialog \in Nat /\ running \in Maybe
        /\ quitDialog.op \in Nat /\ quitDialog.target \in Maybe /\ w \in [Targets -> Workers]
    BY DEF Ops, Maybe, NoQuit, Quits, DialogTypes, WindowTypes, RunnerTypes
  <1>1. CASE AnswerStop(yes)
    <2>1. w' \in [Targets -> Workers]
      BY <1>0, <1>1, UpdateTypes DEF AnswerStop
    <2>2. idle' \in Seq(Calls)
      <3>1. Call(IF yes THEN "stop" ELSE "resume", stopDialog, running) \in Calls
        BY <1>0, CallIsCall
      <3> QED BY <1>1, <3>1, PostedTypes DEF AnswerStop, CallTypes
    <2> QED BY <1>0, <1>1, <2>1, <2>2 DEF AnswerStop, ids, window, coord, IdTypes, FlagTypes, RunnerTypes, WindowTypes, DialogTypes,
            CoordTypes, CallTypes
  <1>2. CASE AnswerQuit(yes)
    <2>1. w' \in [Targets -> Workers]
      BY <1>0, <1>2, StoppedFacts DEF AnswerQuit
    <2>2. idle' \in Seq(Calls)
      <3> DEFINE target == IF running # None THEN running ELSE quitDialog.target
      <3>1. Call("quit", 0, target) \in Calls /\ Call("resume", quitDialog.op, quitDialog.target) \in Calls
        BY <1>0, CallIsCall
      <3> QED BY <1>2, <3>1, PostedTypes DEF AnswerQuit
    <2> QED BY <1>0, <1>2, <2>1, <2>2 DEF AnswerQuit, ids, window, coord, IdTypes, FlagTypes, RunnerTypes, WindowTypes, DialogTypes,
            CoordTypes, CallTypes
  <1> QED BY <1>1, <1>2

LEMMA CloseTypes ==
  ASSUME Types, CloseRequest \/ PollShutdown \/ QuitAnyway \/ ExitTimeout \/ DownloadsChange
                \/ UNCHANGED vars
  PROVE  Types'
  <1> USE LifecycleAssumption DEF Types
  <1>0. /\ 0 \in Ops /\ None \in Maybe /\ NoShutdown \in Shutdowns /\ running \in Maybe
        /\ cleanup \in Cleanups
    BY DEF Ops, Maybe, NoShutdown, Shutdowns, WindowTypes, CoordTypes
  <1>1. CASE CloseRequest
    <2>1. w' \in [Targets -> Workers]
      BY <1>0, <1>1, UpdateTypes DEF CloseRequest
    <2>2. quitDialog' \in Quits
      <3>1. [open |-> TRUE, op |-> op, target |-> running] \in Quits
        BY <1>0 DEF Quits, IdTypes
      <3> QED BY <1>1, <3>1 DEF CloseRequest, DialogTypes
    <2>3. exit' \in {"no", "pending", "exited"} /\ rels' \subseteq Releases
      BY <1>1, UpdateTypes DEF CloseRequest, CoordTypes, CallTypes
    <2>4. /\ closes' \in Nat /\ closing' \in BOOLEAN
          /\ UNCHANGED <<op, ops, plan, timeoutDialog, running, canStop, preflight, downloads,
                         cleanup, shutdown, pf, idle>> /\ stopDialog' = 0
      <3>1. closes \in Nat /\ closing \in BOOLEAN
        BY DEF WindowTypes
      <3> HIDE DEF Types
      <3>2. closes' = closes + 1 /\ (closing' = TRUE \/ closing' = closing)
        BY <1>1 DEF CloseRequest
      <3>3. closes' \in Nat
        BY <3>1, <3>2
      <3>4. closing' \in BOOLEAN
        BY <3>1, <3>2
      <3> QED BY <1>1, <3>3, <3>4 DEF CloseRequest, ids
    <2> HIDE DEF Types
    <2>5. IdTypes' /\ FlagTypes' /\ WindowTypes'
      BY <2>4 DEF Types, IdTypes, FlagTypes, WindowTypes
    <2>6. DialogTypes' /\ CoordTypes'
      BY <1>0, <2>2, <2>3, <2>4 DEF Types, DialogTypes, CoordTypes
    <2>7. RunnerTypes' /\ CallTypes'
      BY <2>1, <2>3, <2>4 DEF Types, RunnerTypes, CallTypes
    <2> QED BY <2>5, <2>6, <2>7 DEF Types
  <1>2. ASSUME CompleteShutdown
        PROVE  /\ cleanup' \in Cleanups /\ shutdown' \in Shutdowns /\ w' \in [Targets -> Workers]
               /\ exit' \in {"no", "pending", "exited"} /\ rels' \subseteq Releases
    BY <1>0, <1>2, UpdateTypes, CleanupFacts DEF CompleteShutdown
  <1>3. CASE PollShutdown
    <2>1. CASE CompleteShutdown
      BY <1>2, <1>3, <2>1 DEF PollShutdown, ids, dialogs, window, IdTypes, FlagTypes, RunnerTypes, WindowTypes, DialogTypes,
            CoordTypes, CallTypes
    <2>2. CASE shutdown' = Counted(shutdown) /\ UNCHANGED <<cleanup, exit, w, rels>>
      <3>1. Counted(shutdown) \in Shutdowns
        BY DEF Counted, Shutdowns, CoordTypes
      <3> QED BY <1>3, <2>2, <3>1 DEF PollShutdown, ids, dialogs, window, IdTypes, FlagTypes, RunnerTypes, WindowTypes, DialogTypes,
            CoordTypes, CallTypes
    <2> QED BY <1>3, <2>1, <2>2 DEF PollShutdown
  <1>4. CASE QuitAnyway
    <2>1. CASE CompleteShutdown /\ closing' = TRUE
      BY <1>0, <1>2, <1>4, <2>1 DEF QuitAnyway, ids, IdTypes, FlagTypes, RunnerTypes, WindowTypes, DialogTypes,
            CoordTypes, CallTypes
    <2>2. CASE UNCHANGED <<closing, cleanup, shutdown, exit, w, rels>>
      BY <1>0, <1>4, <2>2 DEF QuitAnyway, ids, IdTypes, FlagTypes, RunnerTypes, WindowTypes, DialogTypes,
            CoordTypes, CallTypes
    <2> QED BY <1>4, <2>1, <2>2 DEF QuitAnyway
  <1>5. CASE ExitTimeout
    BY <1>5, UpdateTypes DEF ExitTimeout, ids, dialogs, window, IdTypes, FlagTypes, RunnerTypes, WindowTypes, DialogTypes,
            CoordTypes, CallTypes
  <1>6. CASE DownloadsChange
    BY <1>6 DEF DownloadsChange, ids, dialogs, window, coord, IdTypes, FlagTypes, RunnerTypes, WindowTypes, DialogTypes,
            CoordTypes, CallTypes
  <1>7. CASE UNCHANGED vars
    BY <1>7 DEF vars, ids, dialogs, window, coord, IdTypes, FlagTypes, RunnerTypes, WindowTypes, DialogTypes,
            CoordTypes, CallTypes
  <1> QED BY <1>1, <1>3, <1>4, <1>5, <1>6, <1>7

LEMMA ReleaseTypes ==
  ASSUME Types, NEW r \in rels, ReleaseStep(r) PROVE Types'
  <1> USE DEF Types
  <1>0. r \in Releases /\ None \in Maybe /\ r.gen \in Nat /\ w \in [Targets -> Workers]
    BY DEF CallTypes, Releases, Maybe, RunnerTypes
  <1>1. CASE r.at = "done"
    <2>1. Call("exit", 0, None) \in Calls /\ Call("released", r.gen, None) \in Calls
      BY <1>0, CallIsCall
    <2>2. idle' \in Seq(Calls)
      BY <1>1, <2>1, PostedTypes DEF ReleaseStep
    <2> QED BY <1>1, <2>2 DEF ReleaseStep, ids, dialogs, window, coord, IdTypes, FlagTypes, RunnerTypes, WindowTypes, DialogTypes,
            CoordTypes, CallTypes
  <1>2. CASE r.at # "done"
    <2>1. [r EXCEPT !.at = IF @ = "separation" THEN "tools" ELSE "done"] \in Releases
      BY <1>0 DEF Releases, Targets
    <2>2. rels' \subseteq Releases
      BY <1>2, <2>1 DEF ReleaseStep, CallTypes
    <2>3. w' \in [Targets -> Workers]
      <3>1. r.at \in Targets
        BY <1>0, <1>2 DEF Releases
      <3>2. Stopped(w[r.at], TRUE) \in Workers
        BY <1>0, <3>1, StoppedFacts
      <3> QED BY <1>0, <1>2, <3>1, <3>2 DEF ReleaseStep
    <2> QED BY <1>2, <2>2, <2>3 DEF ReleaseStep, ids, dialogs, window, coord, IdTypes, FlagTypes, RunnerTypes, WindowTypes, DialogTypes,
            CoordTypes, CallTypes
  <1> QED BY <1>1, <1>2

LEMMA StepTypes == Types /\ [Next]_vars => Types'
  <1> SUFFICES ASSUME Types, [Next]_vars PROVE Types'
    OBVIOUS
  <1>1. CASE User
    BY <1>1, StartTypes, DialogTypesStep, CloseTypes, CoordTypesStep DEF User, Targets
  <1>2. CASE Deliver
    BY <1>2, DeliverTypes, CoordTypesStep DEF Deliver
  <1>3. CASE \E t \in Targets : Worker(t)
    BY <1>3, StartTypes DEF Worker
  <1>4. CASE \E r \in rels : ReleaseStep(r)
    BY <1>4, ReleaseTypes
  <1>5. CASE Poll \/ Expire \/ PollShutdown \/ ExitTimeout \/ DownloadsChange \/ UNCHANGED vars
    BY <1>5, CoordTypesStep, CloseTypes
  <1>6. CASE PreflightThread
    BY <1>6, StartTypes DEF Targets
  <1> QED BY <1>1, <1>2, <1>3, <1>4, <1>5, <1>6 DEF Next

LEMMA InitTypes == Init => Types
  <1> SUFFICES ASSUME Init PROVE Types
    OBVIOUS
  <1> USE LifecycleAssumption DEF Init
  <1>1. IdTypes
    BY DEF IdTypes, Ops
  <1>6. FlagTypes
    BY DEF FlagTypes
  <1>5. WindowTypes
    <2>1. running \in Maybe /\ closes \in Nat
      BY DEF Maybe
    <2>2. canStop \in BOOLEAN /\ closing \in BOOLEAN
      OBVIOUS
    <2> QED BY <2>1, <2>2 DEF WindowTypes
  <1>2. DialogTypes
    BY DEF DialogTypes, Ops, Maybe, NoQuit, Quits
  <1>3. CoordTypes
    BY DEF CoordTypes, Maybe, NoCleanup, Cleanups, NoShutdown, Shutdowns
  <1>4. RunnerTypes /\ CallTypes
    BY DeadFacts DEF RunnerTypes, CallTypes, NoThread, Threads, Ops, Maybe
  <1> QED BY <1>1, <1>2, <1>3, <1>4, <1>5, <1>6 DEF Types

\* Every variable has its type, whatever the user, the threads and the timers do.
THEOREM LifecycleTypes == Spec => []TypeOK
  BY InitTypes, StepTypes, TypesAreTypeOK, PTL DEF Spec

----------------------------------------------------------------------------
(* The invariant.                                                           *)

Active == {"body", "waiting"}

\* An operation id is handed out once: a worker and a verdict carry one of those made so far.
Numbered == /\ op <= ops
            /\ \A t \in Targets : w[t].op <= ops /\ (w[t].pc # "dead" => w[t].op # 0)
            /\ \A i \in DOMAIN idle : idle[i].call = "ended" => /\ idle[i].op # 0
                                                                /\ idle[i].op <= ops

Posted(name) == \E i \in DOMAIN idle : idle[i].call = name

Single(calls) == \A i, j \in DOMAIN calls :
                   calls[i].call = "preflight" /\ calls[j].call = "preflight" => i = j

Preparing == pf.kind # "none" \/ Posted("preflight") \/ plan # None

\* The preflight of the operation is in one place: with its thread, on its way to the main
\* loop, or in the dialog of the plan; and nothing runs meanwhile.
Preflight ==
  /\ pf.kind # "none" => pf.op = op /\ preflight /\ plan = None /\ ~Posted("preflight")
  /\ \A i \in DOMAIN idle : idle[i].call = "preflight" =>
       idle[i].op = op /\ preflight /\ plan = None
  /\ Single(idle)
  /\ plan # None => ~preflight
  /\ Preparing => op # 0 /\ running = None

\* The verdict of the operation says that its worker has ended, and comes before the run
\* is over.
Verdicts ==
  \A i \in DOMAIN idle : idle[i].call = "ended" /\ idle[i].op = op =>
    running # None /\ \A t \in Targets : w[t].pc \notin Active

RunIsNamed == running # None => op # 0

\* As PauseIsLifted, with the target that the answer resumes or stops.
Lifted ==
  \A t \in Targets : w[t].paused /\ w[t].pc \in Active =>
    \/ stopDialog = op
    \/ quitDialog.open /\ quitDialog.op = op /\ quitDialog.target = t
    \/ \E i \in DOMAIN idle : \/ /\ idle[i].call \in {"resume", "stop"}
                                 /\ idle[i].op = op /\ idle[i].target = t
                              \/ idle[i].call = "quit"

Opened == Numbered /\ Preflight /\ Verdicts /\ RunIsNamed

NInv == CleanupIsOfTheRun /\ NoOrphanWorker /\ (~closing => Opened)
OInv == Types /\ NInv
IInv == OInv /\ (~closing => Lifted)

\* The calls behind the first one, and those before a new one, are what they were.
LEMMA TailFacts ==
  ASSUME NEW S, NEW q \in Seq(S), q # <<>>
  PROVE  /\ 1 \in DOMAIN q /\ Head(q) = q[1]
         /\ \A i \in DOMAIN Tail(q) : i + 1 \in DOMAIN q /\ Tail(q)[i] = q[i + 1]
         /\ \A i \in DOMAIN q \ {1} : i - 1 \in DOMAIN Tail(q) /\ Tail(q)[i - 1] = q[i]
  OBVIOUS

LEMMA AppendFacts ==
  ASSUME NEW S, NEW q \in Seq(S), NEW x \in S
  PROVE  /\ DOMAIN Append(q, x) = DOMAIN q \cup {Len(q) + 1} /\ Len(q) + 1 \notin DOMAIN q
         /\ Append(q, x)[Len(q) + 1] = x
         /\ \A i \in DOMAIN q : Append(q, x)[i] = q[i]
  OBVIOUS

\* A step that posts neither a preflight nor a verdict.
QuietCalls == \/ idle' = idle
              \/ idle # <<>> /\ idle' = Tail(idle)
              \/ \E m \in Calls : m.call \notin {"preflight", "ended"} /\ idle' = Append(idle, m)

LEMMA QuietCallsFacts ==
  ASSUME Types, QuietCalls
  PROVE  /\ \A i \in DOMAIN idle' : idle'[i].call \in {"preflight", "ended"} =>
              \E j \in DOMAIN idle : idle[j] = idle'[i]
         /\ Single(idle) => Single(idle')
  <1>0. idle \in Seq(Calls)
    BY DEF Types, CallTypes
  <1>1. CASE idle' = idle
    BY <1>1
  <1>2. CASE idle # <<>> /\ idle' = Tail(idle)
    <2>1. \A i \in DOMAIN idle' : i \in Nat /\ i + 1 \in DOMAIN idle /\ idle'[i] = idle[i + 1]
      BY <1>0, <1>2, TailFacts
    <2> QED BY <2>1 DEF Single
  <1>3. CASE \E m \in Calls : m.call \notin {"preflight", "ended"} /\ idle' = Append(idle, m)
    <2>1. PICK m \in Calls : m.call \notin {"preflight", "ended"} /\ idle' = Append(idle, m)
      BY <1>3
    <2>2. \A i \in DOMAIN idle' : idle'[i] = m \/ (i \in DOMAIN idle /\ idle'[i] = idle[i])
      BY <1>0, <2>1, AppendFacts
    <2> QED BY <2>1, <2>2 DEF Single
  <1> QED BY <1>1, <1>2, <1>3 DEF QuietCalls

\* A step that leaves every worker in its operation, or dead, and starts none.
QuietWorkers ==
  \A t \in Targets : \/ w'[t] = Dead
                     \/ /\ w'[t].op = w[t].op
                        /\ w'[t].pc # "dead" => w[t].pc # "dead"
                        /\ w'[t].pc \in Active => w[t].pc \in Active

LEMMA QuietStep ==
  ASSUME OInv, UNCHANGED <<op, ops, running, pf, preflight, plan>>, closing => closing',
         QuietCalls, QuietWorkers
  PROVE  NoOrphanWorker' /\ (~closing' => Opened')
  <1> SUFFICES ASSUME ~closing' PROVE NoOrphanWorker' /\ Opened'
    BY DEF NoOrphanWorker
  <1>1. Opened /\ NoOrphanWorker /\ ~closing /\ Types
    BY DEF OInv, NInv
  <1>2. \A t \in Targets : w'[t].pc \in Active =>
          w[t].pc \in Active /\ w'[t].op = w[t].op
    BY DeadFacts DEF QuietWorkers, Active
  <1>3. NoOrphanWorker'
    BY <1>1, <1>2 DEF NoOrphanWorker, Active
  <1>4. \A i \in DOMAIN idle' : idle'[i].call \in {"preflight", "ended"} =>
          \E j \in DOMAIN idle : idle[j] = idle'[i]
    BY <1>1, QuietCallsFacts
  <1>5. Numbered'
    <2>1. op' <= ops'
      BY <1>1 DEF Opened, Numbered
    <2>2. \A t \in Targets : w'[t].op <= ops' /\ (w'[t].pc # "dead" => w'[t].op # 0)
      <3> SUFFICES ASSUME NEW t \in Targets
                   PROVE  w'[t].op <= ops' /\ (w'[t].pc # "dead" => w'[t].op # 0)
        OBVIOUS
      <3>1. w[t].op <= ops /\ (w[t].pc # "dead" => w[t].op # 0)
        BY <1>1 DEF Opened, Numbered
      <3>2. 0 <= ops
        BY <1>1 DEF Types, IdTypes, Ops
      <3> QED BY <3>1, <3>2, DeadFacts DEF QuietWorkers
    <2>3. \A i \in DOMAIN idle' : idle'[i].call = "ended" => idle'[i].op # 0 /\ idle'[i].op <= ops'
      BY <1>1, <1>4 DEF Opened, Numbered
    <2> QED BY <2>1, <2>2, <2>3 DEF Numbered
  <1>6. Preflight'
    <2>1. Posted("preflight")' => Posted("preflight")
      BY <1>4 DEF Posted
    <2>2. Preparing' => Preparing
      BY <2>1 DEF Preparing
    <2>3. Single(idle)'
      BY <1>1, QuietCallsFacts DEF Opened, Preflight
    <2>4. \A i \in DOMAIN idle' : idle'[i].call = "preflight" =>
            idle'[i].op = op' /\ preflight' /\ plan' = None
      BY <1>1, <1>4 DEF Opened, Preflight
    <2> QED BY <1>1, <2>1, <2>2, <2>3, <2>4 DEF Opened, Preflight
  <1>7. Verdicts'
    BY <1>1, <1>2, <1>4 DEF Opened, Verdicts
  <1> QED BY <1>1, <1>3, <1>5, <1>6, <1>7 DEF Opened, RunIsNamed

\* The operation is over, when nothing works for it any more.
LEMMA OverStep ==
  ASSUME OInv, op' = 0, running' = None, UNCHANGED ops, closing => closing', UNCHANGED w,
         QuietCalls, ~Preparing',
         ~closing => \A t \in Targets : w[t].pc \notin Active
  PROVE  NoOrphanWorker' /\ (~closing' => Opened')
  <1> SUFFICES ASSUME ~closing' PROVE NoOrphanWorker' /\ Opened'
    BY DEF NoOrphanWorker
  <1>1. Opened /\ ~closing /\ Types
    BY DEF OInv, NInv
  <1>2. NoOrphanWorker'
    BY <1>1 DEF NoOrphanWorker, Active
  <1>4. \A i \in DOMAIN idle' : idle'[i].call \in {"preflight", "ended"} =>
          \E j \in DOMAIN idle : idle[j] = idle'[i]
    BY <1>1, QuietCallsFacts
  <1>5. \A i \in DOMAIN idle' : idle'[i].call = "ended" => idle'[i].op # 0 /\ idle'[i].op <= ops'
    BY <1>1, <1>4 DEF Opened, Numbered
  <1>6. Numbered'
    BY <1>1, <1>5 DEF Numbered, Opened, Types, IdTypes, Ops
  <1>7. Preflight'
    <2>1. Single(idle)'
      BY DEF Preparing, Posted, Single
    <2> QED BY <2>1 DEF Preflight, Preparing, Posted
  <1>8. Verdicts' /\ RunIsNamed'
    BY <1>5 DEF Verdicts, RunIsNamed
  <1> QED BY <1>2, <1>6, <1>7, <1>8 DEF Opened

LEMMA QuietUpdates ==
  ASSUME Types
  PROVE  /\ UNCHANGED w => QuietWorkers
         /\ StopAll => QuietWorkers
         /\ \A t \in Maybe : StopTarget(t) => QuietWorkers
         /\ \A t \in Maybe, on \in BOOLEAN : PauseTarget(t, on) => QuietWorkers
         /\ \A m \in Calls : idle' = Append(idle, m) /\ m.call \notin {"preflight", "ended"} => QuietCalls
  <1>0. w \in [Targets -> Workers]
    BY DEF Types, RunnerTypes
  <1>1. UNCHANGED w => QuietWorkers
    BY <1>0 DEF QuietWorkers
  <1>2. StopAll => QuietWorkers
    BY <1>0, StoppedFacts DEF QuietWorkers, StopAll
  <1>3. \A t \in Maybe : StopTarget(t) => QuietWorkers
    BY <1>0, StoppedFacts DEF QuietWorkers, StopTarget
  <1>4. \A t \in Maybe, on \in BOOLEAN : PauseTarget(t, on) => QuietWorkers
    BY <1>0, PausedFacts DEF QuietWorkers, PauseTarget
  <1>5. \A m \in Calls : idle' = Append(idle, m) /\ m.call \notin {"preflight", "ended"} => QuietCalls
    BY DEF QuietCalls
  <1> QED BY <1>1, <1>2, <1>3, <1>4, <1>5

\* A call that is neither a preflight nor a verdict.
LEMMA QuietCall ==
  ASSUME Types, NEW o \in Nat, NEW t \in Maybe,
         NEW name \in {"stop", "resume", "quit", "released", "exit"},
         idle' = Append(idle, Call(name, o, t))
  PROVE  QuietCalls
  <1>1. Call(name, o, t) \in Calls /\ Call(name, o, t).call = name
    BY CallIsCall DEF Call
  <1> QED BY <1>1, QuietUpdates

\* The steps of the user that change no operation.
LEMMA UserNInv ==
  ASSUME OInv, NEW yes \in BOOLEAN,
         OpenStop \/ AnswerStop(yes) \/ WaitLonger \/ CloseRequest \/ AnswerQuit(yes)
         \/ QuitAnyway
  PROVE  NInv'
  <1> USE DEF OInv, NInv, ids, dialogs, window, coord
  <1>0. /\ stopDialog \in Nat /\ running \in Maybe /\ None \in Maybe /\ cleanup \in Cleanups
        /\ quitDialog.op \in Nat /\ quitDialog.target \in Maybe /\ w \in [Targets -> Workers]
    BY LifecycleAssumption
    DEF Types, Ops, Maybe, NoQuit, Quits, DialogTypes, WindowTypes, RunnerTypes, CoordTypes
  <1>1. CASE OpenStop
    <2>1. QuietWorkers /\ QuietCalls
      BY <1>0, <1>1, QuietUpdates DEF OpenStop, QuietCalls
    <2> QED BY <1>1, <2>1, QuietStep DEF OpenStop, CleanupIsOfTheRun
  <1>2. CASE AnswerStop(yes)
    <2>1. QuietWorkers
      BY <1>0, <1>2, QuietUpdates DEF AnswerStop
    <2>2. QuietCalls
      BY <1>0, <1>2, QuietCall DEF AnswerStop, QuietCalls
    <2> QED BY <1>2, <2>1, <2>2, QuietStep DEF AnswerStop, CleanupIsOfTheRun
  <1>3. CASE WaitLonger
    <2>1. QuietWorkers /\ QuietCalls
      BY <1>3, QuietUpdates DEF WaitLonger, QuietCalls
    <2>2. cleanup'.target = cleanup.target
      BY <1>0, <1>3, CleanupFacts DEF WaitLonger
    <2> QED BY <1>3, <2>1, <2>2, QuietStep DEF WaitLonger, CleanupIsOfTheRun
  <1>4. CASE CloseRequest
    <2>1. QuietWorkers /\ QuietCalls
      BY <1>0, <1>4, QuietUpdates DEF CloseRequest, QuietCalls
    <2>2. closing => closing'
      BY <1>4 DEF CloseRequest
    <2> QED BY <1>4, <2>1, <2>2, QuietStep DEF CloseRequest, CleanupIsOfTheRun
  <1>5. CASE AnswerQuit(yes)
    <2>1. QuietWorkers
      <3>1. \A t \in Targets : w'[t] = w[t] \/ w'[t] = Stopped(w[t], FALSE)
        BY <1>0, <1>5 DEF AnswerQuit
      <3> QED BY <1>0, <3>1, StoppedFacts DEF QuietWorkers
    <2>2. QuietCalls
      BY <1>0, <1>5, QuietCall DEF AnswerQuit
    <2> QED BY <1>5, <2>1, <2>2, QuietStep DEF AnswerQuit, CleanupIsOfTheRun
  <1>6. CASE QuitAnyway
    <2>1. QuietWorkers /\ QuietCalls
      BY <1>6, QuietUpdates DEF QuitAnyway, CompleteShutdown, QuietCalls
    <2>2. cleanup'.target \in {None, cleanup.target} /\ (closing => closing')
      BY <1>0, <1>6, CleanupFacts DEF QuitAnyway, CompleteShutdown
    <2> QED BY <1>6, <2>1, <2>2, QuietStep DEF QuitAnyway, CleanupIsOfTheRun
  <1> QED BY <1>1, <1>2, <1>3, <1>4, <1>5, <1>6

\* The timers, the threads that release memory, and the calls that change no operation.
LEMMA TimerNInv ==
  ASSUME OInv, DeliverStop \/ DeliverResume \/ DeliverExit \/ Expire \/ PollShutdown \/ ExitTimeout
               \/ DownloadsChange \/ (\E r \in rels : ReleaseStep(r)) \/ UNCHANGED vars
  PROVE  NInv'
  <1> USE DEF OInv, NInv, ids, dialogs, window, coord
  <1>0. /\ running \in Maybe /\ None \in Maybe /\ cleanup \in Cleanups /\ w \in [Targets -> Workers]
        /\ \A name : Received(name) => Head(idle).target \in Maybe /\ QuietCalls
    BY ReceivedTypes DEF Types, Maybe, WindowTypes, RunnerTypes, CoordTypes, Calls, QuietCalls, Received
  <1>1. CASE DeliverStop
    <2>1. QuietWorkers /\ QuietCalls
      BY <1>0, <1>1, QuietUpdates DEF DeliverStop
    <2>2. CleanupIsOfTheRun'
      BY <1>0, <1>1, CleanupFacts DEF DeliverStop, CleanupIsOfTheRun
    <2> QED BY <1>1, <2>1, <2>2, QuietStep DEF DeliverStop
  <1>2. CASE DeliverResume
    <2>1. QuietWorkers /\ QuietCalls
      BY <1>0, <1>2, QuietUpdates DEF DeliverResume
    <2> QED BY <1>2, <2>1, QuietStep DEF DeliverResume, CleanupIsOfTheRun
  <1>3. CASE DeliverExit
    <2>1. QuietWorkers /\ QuietCalls
      BY <1>0, <1>3, QuietUpdates DEF DeliverExit
    <2> QED BY <1>3, <2>1, QuietStep DEF DeliverExit, CleanupIsOfTheRun
  <1>4. CASE Expire
    <2>1. QuietWorkers /\ QuietCalls
      BY <1>4, QuietUpdates DEF Expire, QuietCalls
    <2>2. cleanup'.target = cleanup.target
      BY <1>0, <1>4 DEF Expire, Cleanups
    <2> QED BY <1>4, <2>1, <2>2, QuietStep DEF Expire, CleanupIsOfTheRun
  <1>5. CASE PollShutdown
    <2>1. QuietWorkers /\ QuietCalls
      BY <1>5, QuietUpdates DEF PollShutdown, CompleteShutdown, QuietCalls
    <2>2. cleanup'.target \in {None, cleanup.target}
      BY <1>0, <1>5, CleanupFacts DEF PollShutdown, CompleteShutdown
    <2> QED BY <1>5, <2>1, <2>2, QuietStep DEF PollShutdown, CleanupIsOfTheRun
  <1>6. CASE ExitTimeout
    <2>1. QuietWorkers /\ QuietCalls
      BY <1>6, QuietUpdates DEF ExitTimeout, QuietCalls
    <2> QED BY <1>6, <2>1, QuietStep DEF ExitTimeout, CleanupIsOfTheRun
  <1>7. CASE DownloadsChange
    <2>1. QuietWorkers /\ QuietCalls
      BY <1>7, QuietUpdates DEF DownloadsChange, QuietCalls
    <2> QED BY <1>7, <2>1, QuietStep DEF DownloadsChange, CleanupIsOfTheRun
  <1>8. ASSUME NEW r \in rels, ReleaseStep(r) PROVE NInv'
    <2>1. r.gen \in Nat /\ r.at \in Targets \cup {"done"}
      BY DEF Types, CallTypes, Releases
    <2>2. QuietCalls
      BY <1>0, <1>8, <2>1, QuietCall DEF ReleaseStep, QuietCalls
    <2>3. QuietWorkers
      <3>1. \A t \in Targets : w'[t] = w[t] \/ w'[t] = Stopped(w[t], TRUE)
        BY <1>0, <1>8, <2>1 DEF ReleaseStep
      <3> QED BY <1>0, <3>1, StoppedFacts DEF QuietWorkers
    <2> QED BY <1>8, <2>2, <2>3, QuietStep DEF ReleaseStep, CleanupIsOfTheRun
  <1>9. CASE UNCHANGED vars
    <2>1. QuietWorkers /\ QuietCalls
      BY <1>9, QuietUpdates DEF vars, QuietCalls
    <2> QED BY <1>9, <2>1, QuietStep DEF vars, CleanupIsOfTheRun
  <1> QED BY <1>1, <1>2, <1>3, <1>4, <1>5, <1>6, <1>7, <1>8, <1>9

\* The worker's own steps; its verdict is the first of its operation.
LEMMA WorkerNInv ==
  ASSUME OInv, NEW t \in Targets, Worker(t) PROVE NInv'
  <1> USE DEF OInv, NInv, ids, dialogs, window, coord
  <1>0. w \in [Targets -> Workers] /\ idle \in Seq(Calls)
    BY DEF Types, RunnerTypes, CallTypes
  <1>1. CASE Wait(t) \/ Resume(t) \/ ThreadEnds(t)
    <2>1. QuietWorkers
      BY <1>0, <1>1 DEF Wait, Resume, ThreadEnds, Work, QuietWorkers, Active, Workers
    <2>2. QuietCalls
      BY <1>1 DEF Wait, Resume, ThreadEnds, QuietCalls
    <2> QED BY <1>1, <2>1, <2>2, QuietStep DEF Wait, Resume, ThreadEnds, Work, CleanupIsOfTheRun
  <1>2. CASE Verdict(t)
    <2> DEFINE m == Call("ended", w[t].op, None)
    <2>1. /\ w[t].pc = "body" /\ w' = [w EXCEPT ![t].pc = "after"] /\ idle' = Append(idle, m)
          /\ UNCHANGED <<op, ops, running, pf, preflight, plan, closing, cleanup>>
      BY <1>2 DEF Verdict, Work
    <2>2. /\ w'[t].pc = "after" /\ w'[t].op = w[t].op
          /\ \A u \in Targets \ {t} : w'[u] = w[u]
      BY <1>0, <2>1 DEF Workers
    <2>3. CleanupIsOfTheRun'
      BY <2>1 DEF CleanupIsOfTheRun
    <2>4. NoOrphanWorker'
      BY <2>1, <2>2 DEF NoOrphanWorker
    <2>5. ASSUME ~closing PROVE Opened'
      <3>1. running = t /\ w[t].op = op
        BY <2>1, <2>5 DEF NoOrphanWorker
      <3>2. m \in Calls /\ m.call = "ended" /\ m.op = op
        <4>1. w[t].op \in Nat /\ None \in Maybe
          BY <1>0 DEF Workers, Ops, Maybe
        <4> QED BY <3>1, <4>1, CallIsCall DEF Call
      <3> HIDE DEF m
      <3>3. \A i \in DOMAIN idle' : idle'[i] = m \/ (i \in DOMAIN idle /\ idle'[i] = idle[i])
        BY <1>0, <2>1, <3>2, AppendFacts
      <3>4. op # 0 /\ op <= ops
        BY <2>1, <2>5, <3>1 DEF Opened, Numbered
      <3>5. Numbered'
        <4>1. \A u \in Targets : w'[u].op <= ops' /\ (w'[u].pc # "dead" => w'[u].op # 0)
          BY <2>1, <2>2, <2>5, <3>1, <3>4 DEF Opened, Numbered
        <4>2. \A i \in DOMAIN idle' : idle'[i].call = "ended" => idle'[i].op # 0 /\ idle'[i].op <= ops'
          BY <2>1, <2>5, <3>2, <3>3, <3>4 DEF Opened, Numbered
        <4> QED BY <2>1, <3>4, <4>1, <4>2 DEF Numbered
      <3>6. Preflight'
        <4>1. \A i \in DOMAIN idle' : idle'[i].call = "preflight" =>
                i \in DOMAIN idle /\ idle'[i] = idle[i]
          BY <3>2, <3>3
        <4>2. Single(idle)' /\ (Posted("preflight")' => Posted("preflight"))
          BY <2>5, <4>1 DEF Opened, Preflight, Single, Posted
        <4> QED BY <2>1, <2>5, <4>1, <4>2 DEF Opened, Preflight, Preparing
      <3>7. Verdicts'
        <4>1. \A u \in Targets : w'[u].pc \notin Active
          BY <2>2, <2>5, <3>1 DEF NoOrphanWorker, Active
        <4> QED BY <2>1, <3>1, <4>1 DEF Verdicts, Targets, None
      <3> QED BY <2>1, <2>5, <3>5, <3>6, <3>7 DEF Opened, RunIsNamed
    <2> QED BY <2>1, <2>3, <2>4, <2>5
  <1> QED BY <1>1, <1>2 DEF Worker

\* A step of the preflight leaves the runs alone.
LEMMA PreflightStep ==
  ASSUME OInv, UNCHANGED <<op, ops, running, w, closing, cleanup>>, ~closing => Preflight',
         \A i \in DOMAIN idle' : idle'[i].call = "ended" => \E j \in DOMAIN idle : idle[j] = idle'[i]
  PROVE  NInv'
  <1> USE DEF OInv, NInv
  <1>1. CleanupIsOfTheRun' /\ NoOrphanWorker'
    BY DEF CleanupIsOfTheRun, NoOrphanWorker
  <1>2. ASSUME ~closing PROVE Numbered' /\ Verdicts' /\ RunIsNamed'
    BY <1>2 DEF Opened, Numbered, Verdicts, RunIsNamed
  <1> QED BY <1>1, <1>2 DEF Opened

LEMMA ThreadNInv ==
  ASSUME OInv, PreflightThread PROVE NInv'
  <1> USE DEF OInv, NInv, ids, dialogs, window, coord
  <1> DEFINE m == [call |-> "preflight", op |-> pf.op, target |-> pf.target, kind |-> pf.kind]
  <1>0. idle \in Seq(Calls) /\ m \in Calls
    BY DEF Types, RunnerTypes, CallTypes, Threads, Calls, Ops
  <1>1. /\ pf.kind # "none" /\ pf' = NoThread /\ idle' = Append(idle, m)
        /\ UNCHANGED <<op, ops, running, w, closing, cleanup, plan, preflight>>
    BY DEF PreflightThread
  <1>2. m.call = "preflight" /\ m.op = pf.op
    OBVIOUS
  <1> HIDE DEF m
  <1>3. \A i \in DOMAIN idle' : (i = Len(idle) + 1 /\ idle'[i] = m) \/ (i \in DOMAIN idle /\ idle'[i] = idle[i])
    BY <1>0, <1>1, AppendFacts
  <1>4. \A i \in DOMAIN idle' : idle'[i].call = "ended" => \E j \in DOMAIN idle : idle[j] = idle'[i]
    BY <1>2, <1>3
  <1>5. ASSUME ~closing PROVE Preflight'
    <2>1. pf.op = op /\ preflight /\ plan = None /\ ~Posted("preflight") /\ op # 0 /\ running = None
      BY <1>1, <1>5 DEF Opened, Preflight, Preparing
    <2>2. pf'.kind = "none"
      BY <1>1 DEF NoThread
    <2>3. Single(idle)'
      BY <1>3, <2>1 DEF Single, Posted
    <2>4. \A i \in DOMAIN idle' : idle'[i].call = "preflight" => idle'[i].op = op
      BY <1>2, <1>3, <2>1 DEF Posted
    <2> QED BY <1>1, <2>1, <2>2, <2>3, <2>4 DEF Preflight
  <1> QED BY <1>1, <1>4, <1>5, PreflightStep

\* An operation id that has not been given out yet.
LEMMA HandleStartNInv ==
  ASSUME OInv, NEW t \in Targets, HandleStart(t) PROVE NInv'
  <1> USE DEF OInv, NInv, ids, dialogs, window, coord
  <1>0. ops \in Nat /\ op \in Nat
    BY DEF Types, IdTypes, Ops
  <1>1. /\ ~closing /\ running = None /\ ~preflight /\ plan = None /\ ops' = ops + 1
        /\ UNCHANGED <<plan, running, closing, cleanup, w, idle>>
        /\ \/ op' = ops' /\ preflight' = TRUE /\ pf' = [kind |-> "resolve", op |-> ops', target |-> t]
           \/ op' = 0 /\ UNCHANGED <<preflight, pf>>
    BY DEF HandleStart, NoDialog
  <1>2. ~Posted("preflight") /\ pf.kind = "none" /\ Opened
    BY <1>1 DEF Opened, Preflight, Posted
  <1>3. \A u \in Targets : w[u].pc \notin Active
    BY <1>1 DEF NoOrphanWorker, Active, Targets, None
  <1>4. CleanupIsOfTheRun' /\ NoOrphanWorker'
    BY <1>1, <1>3 DEF CleanupIsOfTheRun, NoOrphanWorker, Active
  <1>5. Numbered'
    <2>1. \A u \in Targets : w[u].op \in Nat
      BY DEF Types, RunnerTypes, Workers, Ops
    <2>2. \A i \in DOMAIN idle : idle[i].op \in Nat
      <3>1. \A i \in DOMAIN idle : idle[i] \in Calls
        BY DEF Types, CallTypes
      <3> QED BY <3>1 DEF Calls
    <2>3. op' <= ops' /\ \A n \in Nat : n <= ops => n <= ops'
      BY <1>0, <1>1
    <2> QED BY <1>1, <1>2, <2>1, <2>2, <2>3 DEF Opened, Numbered
  <1>6. Preflight'
    <2>1. Single(idle)' /\ ~Posted("preflight")'
      BY <1>1, <1>2 DEF Single, Posted
    <2>2. ops' # 0
      BY <1>0, <1>1
    <2>3. pf'.kind # "none" => pf'.op = op' /\ preflight' /\ op' # 0
      BY <1>1, <1>2, <2>2
    <2> QED BY <1>1, <2>1, <2>3 DEF Preflight, Preparing, Posted
  <1>7. Verdicts'
    <2> SUFFICES ASSUME NEW i \in DOMAIN idle, idle[i].call = "ended", idle[i].op = op'
                 PROVE  FALSE
      BY <1>1 DEF Verdicts
    <2>1. idle[i].op # 0 /\ idle[i].op <= ops
      BY <1>2 DEF Opened, Numbered
    <2> QED BY <1>0, <1>1, <2>1
  <1> QED BY <1>1, <1>4, <1>5, <1>6, <1>7 DEF Opened, RunIsNamed

\* The call of a preflight that the main loop takes is of the current operation, and the
\* only trace of it.
LEMMA HeadFacts ==
  ASSUME OInv, ~closing, Received("preflight")
  PROVE  /\ Current(Head(idle).op) /\ op # 0 /\ running = None /\ preflight /\ plan = None
         /\ pf.kind = "none" /\ ~Posted("preflight")' /\ QuietCalls /\ Opened /\ Types
         /\ \A t \in Targets : w[t].pc \notin Active
         /\ cleanup.target = None
  <1> USE DEF OInv, NInv
  <1>0. idle \in Seq(Calls) /\ idle # <<>> /\ Head(idle).call = "preflight" /\ idle' = Tail(idle)
    BY DEF Types, CallTypes, Received
  <1>1. 1 \in DOMAIN idle /\ Head(idle) = idle[1]
    BY <1>0, TailFacts
  <1>2. op # 0 /\ running = None /\ preflight /\ plan = None /\ Head(idle).op = op /\ Single(idle)
    BY <1>0, <1>1 DEF Opened, Preflight, Preparing, Posted
  <1>3. pf.kind = "none"
    BY <1>0, <1>1 DEF Opened, Preflight, Posted
  <1>4. ~Posted("preflight")'
    <2> SUFFICES ASSUME NEW i \in DOMAIN idle', idle'[i].call = "preflight" PROVE FALSE
      BY DEF Posted
    <2>1. i \in Nat /\ i # 0 /\ i + 1 \in DOMAIN idle /\ idle[i + 1] = idle'[i]
      BY <1>0, TailFacts
    <2>2. i + 1 = 1
      BY <1>0, <1>1, <1>2, <2>1 DEF Single
    <2> QED BY <2>1, <2>2
  <1>5. \A t \in Targets : w[t].pc \notin Active
    BY <1>2 DEF NoOrphanWorker, Active, Targets, None
  <1>6. cleanup.target = None
    BY <1>2 DEF CleanupIsOfTheRun
  <1> QED BY <1>0, <1>2, <1>3, <1>4, <1>5, <1>6 DEF Current, QuietCalls

\* The plan is accepted: the job is on its way again, or given up.
LEMMA AcceptNInv ==
  ASSUME OInv, ~closing, op # 0, running = None, plan' = None, ~Posted("preflight")',
         pf.kind = "none", NEW t, AcceptPlan(t), QuietCalls,
         UNCHANGED <<ops, running, w, closing, cleanup>>
  PROVE  NInv'
  <1> USE DEF OInv, NInv
  <1>1. CASE \E kind \in {"recheck", "resolve"} : Launch(kind, t)
    <2>1. pf'.kind # "none" /\ pf'.op = op /\ op' = op /\ preflight' = TRUE
      BY <1>1 DEF Launch
    <2>2. Single(idle)'
      BY DEF Single, Posted
    <2>3. Preflight'
      BY <2>1, <2>2 DEF Preflight, Preparing, Posted
    <2> QED BY <2>1, <2>3, PreflightStep, QuietCallsFacts
  <1>2. CASE GiveUp /\ preflight' = FALSE
    <2>1. ~Preparing' /\ op' = 0 /\ running' = None
      BY <1>2 DEF GiveUp, Preparing
    <2>2. \A u \in Targets : w[u].pc \notin Active
      BY DEF NoOrphanWorker, Active, Targets, None
    <2>3. CleanupIsOfTheRun'
      BY DEF CleanupIsOfTheRun
    <2> QED BY <2>1, <2>2, <2>3, OverStep
  <1> QED BY <1>1, <1>2 DEF AcceptPlan

LEMMA ClosePlanNInv ==
  ASSUME OInv, ClosePlan PROVE NInv'
  <1>1. /\ plan # None /\ ~closing /\ plan' = None /\ AcceptPlan(plan)
        /\ UNCHANGED <<ops, running, w, closing, cleanup, idle>>
    BY DEF ClosePlan, window, coord
  <1>2. op # 0 /\ running = None /\ ~Posted("preflight") /\ pf.kind = "none"
    BY <1>1 DEF OInv, NInv, Opened, Preflight, Preparing, Posted
  <1>3. QuietCalls /\ ~Posted("preflight")'
    BY <1>1, <1>2 DEF QuietCalls, Posted
  <1> QED BY <1>1, <1>2, <1>3, AcceptNInv

\* A run starts: it is the only one, and no verdict of its operation is on its way.
LEMMA StartNInv ==
  ASSUME OInv, ~closing, Received("preflight"), NEW t \in Maybe, StartTarget(t),
         preflight' = FALSE, UNCHANGED <<ops, pf, plan, closing>>
  PROVE  NInv'
  <1>0. ~Preparing' /\ w \in [Targets -> Workers] /\ pf.kind = "none" /\ op # 0 /\ running = None
        /\ plan = None /\ QuietCalls /\ Opened /\ Types /\ cleanup.target = None
        /\ ~Posted("preflight")' /\ \A u \in Targets : w[u].pc \notin Active
    BY HeadFacts DEF Preparing, Types, RunnerTypes
  <1>1. CASE EndRun /\ UNCHANGED w
    <2>1. op' = 0 /\ running' = None /\ cleanup'.target = None
      BY <1>0, <1>1, CleanupFacts DEF EndRun, RestoreIdle, Types, CoordTypes, Maybe
    <2> QED BY <1>0, <1>1, <2>1, OverStep DEF CleanupIsOfTheRun, NInv
  <1>2. CASE op' = 0 /\ UNCHANGED <<running, canStop, stopDialog, timeoutDialog, cleanup, w>>
    BY <1>0, <1>2, OverStep DEF CleanupIsOfTheRun, NInv
  <1>3. CASE running' = t /\ canStop' = TRUE /\ RunnerStart(t)
             /\ UNCHANGED <<op, stopDialog, timeoutDialog, cleanup>>
    <2>1. \A u \in Targets : \/ w'[u] = w[u]
                             \/ u = t /\ w'[u].pc = "body" /\ w'[u].op = op
      <3> DEFINE x == [Dead EXCEPT !.pc = "body", !.op = op]
      <3>1. x.pc = "body" /\ x.op = op
        BY DeadFacts DEF Workers
      <3> HIDE DEF x
      <3>2. w' = w \/ w' = [w EXCEPT ![t] = x]
        BY <1>3 DEF RunnerStart, x
      <3>3. CASE w' = w
        BY <3>3
      <3>4. CASE w' = [w EXCEPT ![t] = x]
        BY <1>0, <3>1, <3>4
      <3> QED BY <3>2, <3>3, <3>4
    <2>2. NoOrphanWorker' /\ CleanupIsOfTheRun'
      BY <1>0, <1>3, <2>1 DEF NoOrphanWorker, CleanupIsOfTheRun, Active
    <2>3. \A i \in DOMAIN idle' : idle'[i].call = "ended" => \E j \in DOMAIN idle : idle[j] = idle'[i]
      BY <1>0, QuietCallsFacts
    <2>4. Numbered'
      BY <1>0, <1>3, <2>1, <2>3 DEF Opened, Numbered
    <2>5. Preflight'
      BY <1>0, <1>3 DEF Preflight, Preparing, Posted, Single
    <2>6. Verdicts'
      BY <1>0, <1>3, <2>3 DEF Opened, Verdicts
    <2>7. RunIsNamed'
      BY <1>0, <1>3 DEF RunIsNamed
    <2> QED BY <2>2, <2>4, <2>5, <2>6, <2>7 DEF Opened, NInv
  <1> QED BY <1>1, <1>2, <1>3 DEF StartTarget

LEMMA DeliverPreflightNInv ==
  ASSUME OInv, DeliverPreflight PROVE NInv'
  <1> DEFINE m == Head(idle)
  <1>0. Received("preflight") /\ UNCHANGED <<ops, closing>> /\ Types
    BY DEF DeliverPreflight, OInv
  <1>1. CASE closing
    <2>1. UNCHANGED <<running, cleanup>>
      BY <1>1 DEF DeliverPreflight, Current
    <2> QED BY <1>0, <1>1, <2>1 DEF OInv, NInv, CleanupIsOfTheRun, NoOrphanWorker
  <1>2. CASE ~closing
    <2>0. m.target \in Maybe
      BY <1>0, ReceivedTypes DEF Calls
    <2>1. FinishPreflight(m.target) \/ (FinishRecheck(m.target) /\ UNCHANGED plan)
      BY <1>0, <1>2, HeadFacts DEF DeliverPreflight
    <2> HIDE DEF m
    <2>2. CASE FinishPreflight(m.target)
      <3>1. UNCHANGED <<running, w, cleanup>>
        BY <2>2 DEF FinishPreflight
      <3>2. CASE AcceptPlan(m.target) /\ UNCHANGED plan
        <4> HIDE DEF OInv
        <4> QED BY <1>0, <1>2, <3>1, <3>2, HeadFacts, AcceptNInv
      <3>3. CASE plan' = m.target /\ preflight' = FALSE /\ UNCHANGED <<op, pf>>
        <4>1. Preflight'
          BY <1>0, <1>2, <3>1, <3>3, HeadFacts DEF Preflight, Preparing, Posted, Single
        <4> QED BY <1>0, <1>2, <3>1, <3>3, <4>1, HeadFacts, PreflightStep, QuietCallsFacts
      <3> QED BY <2>2, <3>2, <3>3 DEF FinishPreflight
    <2>3. CASE FinishRecheck(m.target) /\ UNCHANGED plan
      <3>1. CASE preflight' = FALSE /\ UNCHANGED pf /\ StartTarget(m.target)
        BY <1>0, <1>2, <2>0, <2>3, <3>1, StartNInv
      <3>2. CASE /\ GiveUp \/ Launch("resolve", m.target)
                 /\ preflight' = (pf'.kind # "none")
                 /\ UNCHANGED <<running, canStop, stopDialog, timeoutDialog, cleanup, w>>
        <4>1. CASE GiveUp
          <5>1. preflight' = FALSE
            BY <1>0, <1>2, <3>2, <4>1, HeadFacts DEF GiveUp
          <5> QED BY <1>0, <1>2, <2>3, <3>2, <4>1, <5>1, HeadFacts, AcceptNInv DEF AcceptPlan
        <4>2. CASE Launch("resolve", m.target)
          BY <1>0, <1>2, <2>3, <3>2, <4>2, HeadFacts, AcceptNInv DEF AcceptPlan
        <4> QED BY <3>2, <4>1, <4>2
      <3> QED BY <2>3, <3>1, <3>2 DEF FinishRecheck
    <2> QED BY <2>1, <2>2, <2>3
  <1> QED BY <1>1, <1>2

\* A run ends while it is on screen: nothing is being prepared then.
LEMMA EndRunNInv ==
  ASSUME OInv, EndRun, running # None, UNCHANGED <<ops, pf, preflight, plan, closing, w>>, QuietCalls,
         ~closing => \A t \in Targets : w[t].pc \notin Active
  PROVE  NInv'
  <1> USE DEF OInv, NInv
  <1>1. op' = 0 /\ running' = None /\ cleanup'.target = None
    BY CleanupFacts DEF EndRun, RestoreIdle, Types, CoordTypes, Maybe
  <1>2. CASE closing
    BY <1>1, <1>2 DEF CleanupIsOfTheRun, NoOrphanWorker
  <1>3. CASE ~closing
    <2>1. ~Preparing /\ Types
      BY <1>3 DEF Opened, Preflight
    <2>2. ~Preparing'
      BY <2>1, QuietCallsFacts DEF Preparing, Posted
    <2> QED BY <1>1, <1>3, <2>2, OverStep DEF CleanupIsOfTheRun
  <1> QED BY <1>2, <1>3

LEMMA DeliverEndedNInv ==
  ASSUME OInv, DeliverEnded PROVE NInv'
  <1>0. /\ UNCHANGED <<ops, plan, closing, preflight, w, pf>> /\ Received("ended") /\ Types
        /\ QuietCalls
    BY DEF DeliverEnded, Received, QuietCalls, OInv
  <1>1. CASE Current(Head(idle).op)
    <2>1. idle \in Seq(Calls) /\ idle # <<>> /\ Head(idle).call = "ended"
      BY <1>0 DEF Types, CallTypes, Received
    <2>2. 1 \in DOMAIN idle /\ idle[1].call = "ended" /\ idle[1].op = op
      BY <1>1, <2>1, TailFacts DEF Current
    <2>3. running # None /\ \A t \in Targets : w[t].pc \notin Active
      BY <1>1, <2>2 DEF OInv, NInv, Opened, Verdicts, Current
    <2> QED BY <1>0, <1>1, <2>3, EndRunNInv DEF DeliverEnded
  <1>2. CASE ~Current(Head(idle).op)
    <2>1. UNCHANGED <<op, running, cleanup>>
      BY <1>2 DEF DeliverEnded
    <2>2. QuietWorkers
      BY <1>0, QuietUpdates
    <2> QED BY <1>0, <2>1, <2>2, QuietStep DEF OInv, NInv, CleanupIsOfTheRun
  <1> QED BY <1>1, <1>2

\* The cleanup of a stop ends the run when its worker is dead.
LEMMA PollNInv ==
  ASSUME OInv, NEW c \in Cleanups, PollCleanup(c), c.target = cleanup.target, QuietCalls,
         UNCHANGED <<ops, plan, closing, preflight, w, pf>>
  PROVE  NInv'
  <1> DEFINE d == Counted(c)
             keep == UNCHANGED <<op, running, canStop, stopDialog, timeoutDialog>>
  <1>0. d \in Cleanups /\ d.target = cleanup.target /\ Types
    BY CleanupFacts DEF Maybe, OInv
  <1> HIDE DEF d
  <1>1. ASSUME keep, cleanup'.target \in {None, cleanup.target} PROVE NInv'
    <2>1. QuietWorkers
      BY <1>0, QuietUpdates
    <2> QED BY <1>1, <2>1, QuietStep DEF OInv, NInv, CleanupIsOfTheRun
  <1>2. CASE d.target = None \/ d.timedOut
    <2>1. cleanup' = [c EXCEPT !.poll = FALSE] /\ keep
      BY <1>2 DEF PollCleanup, d
    <2>2. cleanup'.target = cleanup.target
      BY <2>1 DEF Cleanups
    <2> QED BY <1>1, <2>1, <2>2
  <1>3. CASE d.target # None /\ ~d.timedOut /\ d.releasing
    <2>1. IF CleanedUp(d) THEN StopCleanedUp(d.target)
          ELSE cleanup' = [d EXCEPT !.poll = d.released] /\ keep
      BY <1>3 DEF PollCleanup, d
    <2>2. CASE CleanedUp(d)
      <3>1. running = d.target
        BY <1>0, <1>3 DEF OInv, NInv, CleanupIsOfTheRun
      <3>2. EndRun
        BY <2>1, <2>2, <3>1 DEF StopCleanedUp
      <3>3. ~closing => \A t \in Targets : w[t].pc \notin Active
        BY <1>3, <2>2, <3>1 DEF CleanedUp, Alive, OInv, NInv, NoOrphanWorker, Active
      <3> QED BY <1>3, <3>1, <3>2, <3>3, EndRunNInv
    <2>3. CASE ~CleanedUp(d)
      <3>1. cleanup'.target = cleanup.target
        BY <1>0, <2>1, <2>3 DEF Cleanups
      <3> QED BY <1>1, <2>1, <2>3, <3>1
    <2> QED BY <2>2, <2>3
  <1>4. CASE d.target # None /\ ~d.timedOut /\ ~d.releasing
    <2>1. keep /\ (cleanup' = [d EXCEPT !.releasing = TRUE, !.poll = FALSE] \/ cleanup' = d)
      BY <1>4 DEF PollCleanup, d
    <2>2. cleanup'.target = cleanup.target
      BY <1>0, <2>1 DEF Cleanups
    <2> QED BY <1>1, <2>1, <2>2
  <1> QED BY <1>2, <1>3, <1>4

LEMMA CleanupNInv ==
  ASSUME OInv, Poll \/ DeliverReleased PROVE NInv'
  <1>0. cleanup \in Cleanups /\ Types
    BY DEF OInv, Types, CoordTypes
  <1>1. CASE Poll
    <2>1. QuietCalls
      BY <1>1 DEF Poll, QuietCalls
    <2> QED BY <1>0, <1>1, <2>1, PollNInv DEF Poll
  <1>2. CASE DeliverReleased
    <2>1. QuietCalls
      BY <1>2 DEF DeliverReleased, Received, QuietCalls
    <2>2. [cleanup EXCEPT !.released = TRUE, !.poll = TRUE] \in Cleanups
          /\ [cleanup EXCEPT !.released = TRUE, !.poll = TRUE].target = cleanup.target
      BY <1>0 DEF Cleanups
    <2>3. CASE PollCleanup([cleanup EXCEPT !.released = TRUE, !.poll = TRUE])
      BY <1>2, <2>1, <2>2, <2>3, PollNInv DEF DeliverReleased
    <2>4. CASE UNCHANGED <<op, running, canStop, stopDialog, timeoutDialog, cleanup, rels>>
      <3>1. QuietWorkers
        BY <1>0, <1>2, QuietUpdates DEF DeliverReleased
      <3> QED BY <1>2, <2>1, <2>4, <3>1, QuietStep DEF DeliverReleased, OInv, NInv, CleanupIsOfTheRun
    <2> QED BY <1>2, <2>3, <2>4 DEF DeliverReleased
  <1> QED BY <1>1, <1>2

LEMMA DeliverQuitNInv ==
  ASSUME OInv, DeliverQuit PROVE NInv'
  <1>1. closing' = TRUE /\ cleanup'.target = None
    BY CleanupFacts DEF DeliverQuit, OInv, Types, CoordTypes, Maybe
  <1> QED BY <1>1 DEF NInv, CleanupIsOfTheRun, NoOrphanWorker

LEMMA StepOInv == OInv /\ [Next]_vars => OInv'
  <1> SUFFICES ASSUME OInv, [Next]_vars PROVE NInv'
    BY StepTypes DEF OInv
  <1>1. CASE User
    BY <1>1, HandleStartNInv, ClosePlanNInv, UserNInv DEF User
  <1>2. CASE Deliver
    BY <1>2, DeliverPreflightNInv, DeliverEndedNInv, TimerNInv, CleanupNInv, DeliverQuitNInv DEF Deliver
  <1>3. CASE \E t \in Targets : Worker(t)
    BY <1>3, WorkerNInv
  <1>4. CASE Poll \/ PreflightThread
    BY <1>4, CleanupNInv, ThreadNInv
  <1>5. CASE \/ Expire \/ PollShutdown \/ ExitTimeout \/ DownloadsChange
             \/ (\E r \in rels : ReleaseStep(r)) \/ UNCHANGED vars
    BY <1>5, TimerNInv
  <1> QED BY <1>1, <1>2, <1>3, <1>4, <1>5 DEF Next

LEMMA InitOInv == Init => OInv
  <1> SUFFICES ASSUME Init PROVE NInv
    BY InitTypes DEF OInv
  <1> USE DEF Init
  <1>1. CleanupIsOfTheRun
    BY DEF CleanupIsOfTheRun, NoCleanup
  <1>2. NoOrphanWorker
    BY DeadFacts DEF NoOrphanWorker
  <1>3. Numbered
    BY DeadFacts DEF Numbered
  <1>4. Preflight
    BY DEF Preflight, Preparing, Posted, Single, NoThread
  <1>5. Verdicts /\ RunIsNamed
    BY DEF Verdicts, RunIsNamed
  <1> QED BY <1>1, <1>2, <1>3, <1>4, <1>5 DEF NInv, Opened

\* No orphan works behind an idle window: a worker that still computes is the one of the run
\* on screen, and its verdict will be taken for that run's.
THEOREM NoOrphanWorkerHolds == Spec => []NoOrphanWorker
  <1>1. OInv => NoOrphanWorker
    BY DEF OInv, NInv
  <1> QED BY <1>1, InitOInv, StepOInv, PTL DEF Spec

\* A stop under way is the one of the run on screen: it ends no later run.
THEOREM CleanupIsOfTheRunHolds == Spec => []CleanupIsOfTheRun
  <1>1. OInv => CleanupIsOfTheRun
    BY DEF OInv, NInv
  <1> QED BY <1>1, InitOInv, StepOInv, PTL DEF Spec

----------------------------------------------------------------------------
(* Pauses are lifted.                                                       *)

\* The answers of dialogs that are on their way stay there.
KeptCalls == \A i \in DOMAIN idle : idle[i].call \in {"resume", "stop", "quit"} =>
                                    \E j \in DOMAIN idle' : idle'[j] = idle[i]

KeptPauses == \A t \in Targets : w'[t].paused /\ w'[t].pc \in Active =>
                                 w[t].paused /\ w[t].pc \in Active

LEMMA KeptCallsFacts ==
  ASSUME Types
  PROVE  /\ UNCHANGED idle => KeptCalls
         /\ \A m \in Calls : idle' = Append(idle, m) =>
              KeptCalls /\ \E j \in DOMAIN idle' : idle'[j] = m
         /\ \A name \in {"preflight", "ended", "released", "exit"} : Received(name) => KeptCalls
         /\ \A name : Received(name) => \A i \in DOMAIN idle :
              idle[i] = Head(idle) \/ \E j \in DOMAIN idle' : idle'[j] = idle[i]
  <1>0. idle \in Seq(Calls)
    BY DEF Types, CallTypes
  <1>1. UNCHANGED idle => KeptCalls
    BY DEF KeptCalls
  <1>2. ASSUME NEW m \in Calls, idle' = Append(idle, m)
        PROVE  KeptCalls /\ \E j \in DOMAIN idle' : idle'[j] = m
    <2>1. /\ \A i \in DOMAIN idle : i \in DOMAIN idle' /\ idle'[i] = idle[i]
          /\ Len(idle) + 1 \in DOMAIN idle' /\ idle'[Len(idle) + 1] = m
      BY <1>0, <1>2, AppendFacts
    <2> QED BY <2>1 DEF KeptCalls
  <1>3. ASSUME NEW name, Received(name), NEW i \in DOMAIN idle
        PROVE  idle[i] = Head(idle) \/ \E j \in DOMAIN idle' : idle'[j] = idle[i]
    <2>1. idle # <<>> /\ idle' = Tail(idle)
      BY <1>3 DEF Received
    <2>2. CASE i = 1
      BY <1>0, <2>1, <2>2, TailFacts
    <2>3. CASE i # 1
      BY <1>0, <2>1, <2>3, TailFacts
    <2> QED BY <2>2, <2>3
  <1>4. ASSUME NEW name \in {"preflight", "ended", "released", "exit"}, Received(name)
        PROVE  KeptCalls
    BY <1>3, <1>4 DEF KeptCalls, Received
  <1> QED BY <1>1, <1>2, <1>3, <1>4

LEMMA KeptPausesFacts ==
  ASSUME Types
  PROVE  /\ UNCHANGED w => KeptPauses
         /\ StopAll => KeptPauses
         /\ \A t \in Maybe : StopTarget(t) =>
              KeptPauses /\ ~(w'[t].paused /\ w'[t].pc \in Active /\ t \in Targets)
         /\ \A t \in Maybe : PauseTarget(t, FALSE) =>
              KeptPauses /\ ~(w'[t].paused /\ w'[t].pc \in Active /\ t \in Targets)
  <1>0. w \in [Targets -> Workers]
    BY DEF Types, RunnerTypes
  <1>1. UNCHANGED w => KeptPauses
    BY <1>0 DEF KeptPauses
  <1>5. \A u \in Targets, force \in BOOLEAN :
          LET x == Stopped(w[u], force) IN ~(x.paused /\ x.pc \in Active)
    BY <1>0, StoppedFacts DEF Active
  <1>6. \A u \in Targets :
          LET x == Paused(w[u], FALSE) IN ~(x.paused /\ x.pc \in Active)
    BY <1>0, PausedFacts DEF Active
  <1>2. StopAll => KeptPauses
    BY <1>5 DEF KeptPauses, StopAll
  <1>3. \A t \in Maybe : StopTarget(t) =>
          KeptPauses /\ ~(w'[t].paused /\ w'[t].pc \in Active /\ t \in Targets)
    <2> SUFFICES ASSUME NEW t \in Maybe, StopTarget(t)
                 PROVE  KeptPauses /\ ~(w'[t].paused /\ w'[t].pc \in Active /\ t \in Targets)
      OBVIOUS
    <2>1. \A u \in Targets : w'[u] = IF u = t THEN Stopped(w[u], FALSE) ELSE w[u]
      BY DEF StopTarget
    <2> QED BY <1>5, <2>1 DEF KeptPauses
  <1>4. \A t \in Maybe : PauseTarget(t, FALSE) =>
          KeptPauses /\ ~(w'[t].paused /\ w'[t].pc \in Active /\ t \in Targets)
    <2> SUFFICES ASSUME NEW t \in Maybe, PauseTarget(t, FALSE)
                 PROVE  KeptPauses /\ ~(w'[t].paused /\ w'[t].pc \in Active /\ t \in Targets)
      OBVIOUS
    <2>1. \A u \in Targets : w'[u] = IF u = t THEN Paused(w[u], FALSE) ELSE w[u]
      BY DEF PauseTarget
    <2> QED BY <1>6, <2>1 DEF KeptPauses
  <1> QED BY <1>1, <1>2, <1>3, <1>4

\* A step that pauses nobody, closes no dialog and takes no answer.
LEMMA LiftedStays ==
  ASSUME Lifted, UNCHANGED <<op, stopDialog, quitDialog>>, KeptCalls, KeptPauses
  PROVE  Lifted'
  <1> SUFFICES ASSUME NEW t \in Targets, w'[t].paused, w'[t].pc \in Active,
                      stopDialog # op, ~(quitDialog.open /\ quitDialog.op = op /\ quitDialog.target = t)
               PROVE  \E i \in DOMAIN idle' : \/ /\ idle'[i].call \in {"resume", "stop"}
                                                 /\ idle'[i].op = op /\ idle'[i].target = t
                                              \/ idle'[i].call = "quit"
    BY DEF Lifted
  <1>1. w[t].paused /\ w[t].pc \in Active
    BY DEF KeptPauses
  <1>2. PICK i \in DOMAIN idle : \/ /\ idle[i].call \in {"resume", "stop"}
                                   /\ idle[i].op = op /\ idle[i].target = t
                                \/ idle[i].call = "quit"
    BY <1>1 DEF Lifted
  <1> QED BY <1>2 DEF KeptCalls

LEMMA UserLifted ==
  ASSUME OInv, OInv', ~closing, ~closing', Lifted, NEW t \in Targets, NEW yes \in BOOLEAN,
         HandleStart(t) \/ ClosePlan \/ OpenStop \/ CloseRequest \/ WaitLonger \/ QuitAnyway
         \/ AnswerStop(yes) \/ AnswerQuit(yes)
  PROVE  Lifted'
  <1> USE DEF ids, dialogs, window, coord
  <1>0. /\ Types /\ NoOrphanWorker /\ NoOrphanWorker' /\ w \in [Targets -> Workers]
        /\ stopDialog \in Nat /\ running \in Maybe /\ quitDialog.op \in Nat /\ quitDialog.target \in Maybe
        /\ None \in Maybe
    BY LifecycleAssumption
    DEF OInv, NInv, Types, RunnerTypes, DialogTypes, WindowTypes, Quits, Ops, Maybe
  <1>1. CASE HandleStart(t)
    <2>1. running' = None
      BY <1>1 DEF HandleStart
    <2> QED BY <1>0, <2>1 DEF NoOrphanWorker, Lifted, Active, Targets, None
  <1>2. CASE ClosePlan
    <2>1. running' = None
      BY <1>2 DEF ClosePlan, OInv, NInv, Opened, Preflight, Preparing
    <2> QED BY <1>0, <2>1 DEF NoOrphanWorker, Lifted, Active, Targets, None
  <1>3. CASE OpenStop
    BY <1>3 DEF OpenStop, Lifted
  <1>4. CASE CloseRequest
    <2>1. quitDialog' = [open |-> TRUE, op |-> op, target |-> running] /\ UNCHANGED <<op, running>>
      BY <1>4 DEF CloseRequest
    <2>2. quitDialog'.open = TRUE /\ quitDialog'.op = op' /\ quitDialog'.target = running'
      BY <2>1
    <2> QED BY <1>0, <2>2 DEF Lifted, NoOrphanWorker, Active
  <1>5. CASE WaitLonger
    BY <1>0, <1>5, KeptCallsFacts, KeptPausesFacts, LiftedStays DEF WaitLonger
  <1>6. CASE QuitAnyway
    BY <1>0, <1>6, KeptCallsFacts, KeptPausesFacts, LiftedStays DEF QuitAnyway
  <1>7. CASE AnswerStop(yes)
    <2> DEFINE m == Call(IF yes THEN "stop" ELSE "resume", stopDialog, running)
    <2>1. CASE Current(stopDialog)
      <3>1. m \in Calls /\ m.call \in {"resume", "stop"} /\ m.op = op /\ m.target = running
        BY <1>0, <2>1, CallIsCall DEF Call, Current
      <3>2. idle' = Append(idle, m) /\ UNCHANGED <<op, running>>
        BY <1>7, <2>1 DEF AnswerStop
      <3> HIDE DEF m
      <3>3. PICK j \in DOMAIN idle' : idle'[j] = m
        BY <1>0, <3>1, <3>2, KeptCallsFacts
      <3> QED BY <1>0, <3>1, <3>2, <3>3 DEF Lifted, NoOrphanWorker, Active
    <2>2. CASE ~Current(stopDialog)
      <3>1. stopDialog # op /\ UNCHANGED <<op, quitDialog, w, idle>>
        BY <1>7, <2>2 DEF AnswerStop, Current
      <3> QED BY <3>1 DEF Lifted
    <2> QED BY <2>1, <2>2
  <1>8. CASE AnswerQuit(yes)
    <2> DEFINE target == IF running # None THEN running ELSE quitDialog.target
               m == IF yes THEN Call("quit", 0, target) ELSE Call("resume", quitDialog.op, quitDialog.target)
    <2>1. m \in Calls /\ idle' = Append(idle, m) /\ UNCHANGED <<op, stopDialog>>
      BY <1>0, <1>8, CallIsCall DEF AnswerQuit
    <2>2. CASE yes
      <3>1. m.call = "quit"
        BY <2>2 DEF Call
      <3> HIDE DEF m
      <3>2. PICK j \in DOMAIN idle' : idle'[j] = m
        BY <1>0, <2>1, KeptCallsFacts
      <3> QED BY <3>1, <3>2 DEF Lifted
    <2>3. CASE ~yes
      <3>1. m.call = "resume" /\ m.op = quitDialog.op /\ m.target = quitDialog.target /\ UNCHANGED w
        BY <1>8, <2>3 DEF Call, AnswerQuit
      <3> HIDE DEF m
      <3>2. KeptCalls /\ \E j \in DOMAIN idle' : idle'[j] = m
        BY <1>0, <2>1, KeptCallsFacts
      <3> QED BY <2>1, <3>1, <3>2 DEF Lifted, KeptCalls
    <2> QED BY <2>2, <2>3
  <1> QED BY <1>1, <1>2, <1>3, <1>4, <1>5, <1>6, <1>7, <1>8

\* What the main loop takes: an answer is of the run on screen, or of none.
LEMMA DeliverLifted ==
  ASSUME OInv, OInv', ~closing, ~closing', Lifted, Deliver PROVE Lifted'
  <1> USE DEF ids, dialogs, window, coord
  <1>0. /\ Types /\ NoOrphanWorker /\ NoOrphanWorker' /\ w \in [Targets -> Workers]
        /\ running \in Maybe
    BY DEF OInv, NInv, Types, RunnerTypes, WindowTypes
  <1>1. ASSUME running' = None PROVE Lifted'
    BY <1>0, <1>1 DEF NoOrphanWorker, Lifted, Active, Targets, None
  <1>2. CASE DeliverPreflight
    <2> DEFINE m == Head(idle)
    <2>0. Received("preflight") /\ UNCHANGED <<ops, closing>>
      BY <1>2 DEF DeliverPreflight
    <2>1. running = None
      BY <2>0, HeadFacts
    <2>2. FinishPreflight(m.target) \/ FinishRecheck(m.target)
      BY <1>2, <2>0, HeadFacts DEF DeliverPreflight
    <2>3. CASE StartTarget(m.target) /\ running' = m.target /\ RunnerStart(m.target)
      <3>1. \A t \in Targets : w[t].pc \notin Active
        BY <2>0, HeadFacts
      <3>2. \A t \in Targets : w'[t] = w[t] \/ w'[t].paused = FALSE
        <4> DEFINE x == [Dead EXCEPT !.pc = "body", !.op = op]
        <4>1. x.paused = FALSE
          BY DeadFacts DEF Workers
        <4> HIDE DEF x
        <4>2. w' = w \/ w' = [w EXCEPT ![m.target] = x]
          BY <2>3 DEF RunnerStart, x
        <4> HIDE DEF m
        <4> QED BY <1>0, <4>1, <4>2
      <3> QED BY <3>1, <3>2 DEF Lifted
    <2>4. CASE ~(StartTarget(m.target) /\ running' = m.target /\ RunnerStart(m.target))
      <3>1. running' = None
        BY <2>1, <2>2, <2>4 DEF FinishPreflight, FinishRecheck, StartTarget, EndRun, RestoreIdle
      <3> QED BY <1>1, <3>1
    <2> QED BY <2>3, <2>4
  <1>3. CASE DeliverEnded
    <2>1. CASE Current(Head(idle).op)
      BY <1>1, <1>3, <2>1 DEF DeliverEnded, EndRun, RestoreIdle
    <2>2. CASE ~Current(Head(idle).op)
      BY <1>0, <1>3, <2>2, KeptCallsFacts, KeptPausesFacts, LiftedStays DEF DeliverEnded
    <2> QED BY <2>1, <2>2
  <1>4. CASE DeliverStop \/ DeliverResume
    <2> DEFINE m == Head(idle)
    <2>1. /\ m.call \in {"stop", "resume"} /\ UNCHANGED <<op, stopDialog, quitDialog, running>>
          /\ \A i \in DOMAIN idle : idle[i] = m \/ \E j \in DOMAIN idle' : idle'[j] = idle[i]
      BY <1>0, <1>4, KeptCallsFacts DEF DeliverStop, DeliverResume, Received
    <2>2. m.target \in Maybe
      BY <1>0, <1>4, ReceivedTypes DEF DeliverStop, DeliverResume, Calls
    <2>3. \/ UNCHANGED w /\ (m.op = op => running # m.target /\ DeliverStop)
          \/ StopTarget(m.target) \/ PauseTarget(m.target, FALSE)
      BY <1>4 DEF DeliverStop, DeliverResume, Current
    <2> HIDE DEF m
    <2>4. KeptPauses
      BY <1>0, <2>2, <2>3, KeptPausesFacts
    <2> SUFFICES ASSUME NEW t \in Targets, w'[t].paused, w'[t].pc \in Active,
                        stopDialog # op,
                        ~(quitDialog.open /\ quitDialog.op = op /\ quitDialog.target = t)
                 PROVE  \E i \in DOMAIN idle' : \/ /\ idle'[i].call \in {"resume", "stop"}
                                                   /\ idle'[i].op = op /\ idle'[i].target = t
                                                \/ idle'[i].call = "quit"
      BY <2>1 DEF Lifted
    <2>5. w[t].paused /\ w[t].pc \in Active /\ running = t
      BY <1>0, <2>4 DEF KeptPauses, NoOrphanWorker, Active
    <2>6. ~(m.op = op /\ m.target = t)
      BY <1>0, <2>2, <2>3, <2>5, KeptPausesFacts
    <2>7. PICK i \in DOMAIN idle : \/ /\ idle[i].call \in {"resume", "stop"}
                                     /\ idle[i].op = op /\ idle[i].target = t
                                  \/ idle[i].call = "quit"
      BY <2>5 DEF Lifted
    <2> QED BY <2>1, <2>6, <2>7
  <1>5. CASE DeliverReleased
    <2>1. UNCHANGED <<w, quitDialog>> /\ KeptCalls
      BY <1>0, <1>5, KeptCallsFacts DEF DeliverReleased
    <2>2. UNCHANGED <<op, stopDialog>> \/ running' = None
      BY <1>5 DEF DeliverReleased, PollCleanup, StopCleanedUp, EndRun, RestoreIdle
    <2> QED BY <1>0, <1>1, <2>1, <2>2, KeptPausesFacts, LiftedStays
  <1>6. CASE DeliverQuit
    BY <1>6 DEF DeliverQuit
  <1>7. CASE DeliverExit
    BY <1>0, <1>7, KeptCallsFacts, KeptPausesFacts, LiftedStays DEF DeliverExit
  <1> QED BY <1>2, <1>3, <1>4, <1>5, <1>6, <1>7 DEF Deliver

\* The threads and the timers.
LEMMA OtherLifted ==
  ASSUME OInv, OInv', ~closing, ~closing', Lifted,
         \/ Poll \/ Expire \/ PollShutdown \/ ExitTimeout \/ PreflightThread \/ DownloadsChange
         \/ (\E t \in Targets : Worker(t)) \/ (\E r \in rels : ReleaseStep(r)) \/ UNCHANGED vars
  PROVE  Lifted'
  <1> USE DEF ids, dialogs, window, coord
  <1>0. /\ Types /\ NoOrphanWorker' /\ w \in [Targets -> Workers] /\ None \in Maybe
    BY DEF OInv, NInv, Types, RunnerTypes, Maybe
  <1>1. CASE Poll
    <2>1. UNCHANGED <<w, quitDialog, idle>>
      BY <1>1 DEF Poll
    <2>2. CASE UNCHANGED <<op, stopDialog>>
      BY <1>0, <2>1, <2>2, KeptCallsFacts, KeptPausesFacts, LiftedStays
    <2>3. CASE running' = None
      BY <1>0, <2>3 DEF NoOrphanWorker, Lifted, Active, Targets, None
    <2>4. UNCHANGED <<op, stopDialog>> \/ running' = None
      BY <1>1 DEF Poll, PollCleanup, StopCleanedUp, EndRun, RestoreIdle
    <2> QED BY <2>2, <2>3, <2>4
  <1>2. CASE Expire
    BY <1>0, <1>2, KeptCallsFacts, KeptPausesFacts, LiftedStays DEF Expire
  <1>3. CASE PollShutdown
    BY <1>0, <1>3, KeptCallsFacts, KeptPausesFacts, LiftedStays DEF PollShutdown, CompleteShutdown
  <1>4. CASE ExitTimeout
    BY <1>0, <1>4, KeptCallsFacts, KeptPausesFacts, LiftedStays DEF ExitTimeout
  <1>5. CASE PreflightThread
    <2>1. [call |-> "preflight", op |-> pf.op, target |-> pf.target, kind |-> pf.kind] \in Calls
      BY <1>0 DEF Types, RunnerTypes, Threads, Calls, Ops
    <2> QED BY <1>0, <1>5, <2>1, KeptCallsFacts, KeptPausesFacts, LiftedStays DEF PreflightThread
  <1>6. CASE DownloadsChange
    BY <1>0, <1>6, KeptCallsFacts, KeptPausesFacts, LiftedStays DEF DownloadsChange
  <1>7. ASSUME NEW t \in Targets, Worker(t) PROVE Lifted'
    <2>1. w[t].op \in Nat
      BY <1>0 DEF Workers, Ops
    <2>2. KeptCalls
      BY <1>0, <1>7, <2>1, KeptCallsFacts, CallIsCall
      DEF Worker, Wait, Resume, Verdict, ThreadEnds, Work
    <2>3. KeptPauses
      BY <1>0, <1>7, DeadFacts
      DEF Worker, Wait, Resume, Verdict, ThreadEnds, Work, KeptPauses, Workers, Active
    <2> QED BY <1>7, <2>2, <2>3, LiftedStays DEF Worker, Wait, Resume, Verdict, ThreadEnds, Work
  <1>8. ASSUME NEW r \in rels, ReleaseStep(r) PROVE Lifted'
    <2>1. r.gen \in Nat /\ r.at \in Targets \cup {"done"}
      BY <1>0 DEF Types, CallTypes, Releases
    <2>2. KeptCalls
      <3>1. Call("exit", 0, None) \in Calls /\ Call("released", r.gen, None) \in Calls
        BY <1>0, <2>1, CallIsCall
      <3> QED BY <1>0, <1>8, <3>1, KeptCallsFacts DEF ReleaseStep
    <2>3. KeptPauses
      <3>1. \A t \in Targets : w'[t] = w[t] \/ w'[t] = Stopped(w[t], TRUE)
        BY <1>0, <1>8, <2>1 DEF ReleaseStep
      <3>2. \A t \in Targets : LET x == Stopped(w[t], TRUE) IN ~(x.paused /\ x.pc \in Active)
        BY <1>0, StoppedFacts DEF Active
      <3> QED BY <3>1, <3>2 DEF KeptPauses
    <2> QED BY <1>8, <2>2, <2>3, LiftedStays DEF ReleaseStep
  <1>9. CASE UNCHANGED vars
    BY <1>0, <1>9, KeptCallsFacts, KeptPausesFacts, LiftedStays DEF vars
  <1> QED BY <1>1, <1>2, <1>3, <1>4, <1>5, <1>6, <1>7, <1>8, <1>9

\* The decision to close is not taken back.
LEMMA ClosingStays == ASSUME closing, [Next]_vars PROVE closing'
  <1> USE DEF window, vars
  <1>1. CASE User
    BY <1>1 DEF User, HandleStart, ClosePlan, OpenStop, CloseRequest, WaitLonger, QuitAnyway,
                AnswerStop, AnswerQuit
  <1>2. CASE Deliver
    BY <1>2 DEF Deliver, DeliverPreflight, DeliverEnded, DeliverStop, DeliverResume, DeliverReleased,
                DeliverQuit, DeliverExit
  <1>3. CASE Poll \/ Expire \/ PollShutdown \/ ExitTimeout \/ PreflightThread \/ DownloadsChange
    BY <1>3 DEF Poll, Expire, PollShutdown, ExitTimeout, PreflightThread, DownloadsChange
  <1>4. CASE (\E t \in Targets : Worker(t)) \/ (\E r \in rels : ReleaseStep(r))
    BY <1>4 DEF Worker, Wait, Resume, Verdict, ThreadEnds, Work, ReleaseStep
  <1> QED BY <1>1, <1>2, <1>3, <1>4 DEF Next

LEMMA StepIInv == IInv /\ [Next]_vars => IInv'
  <1> SUFFICES ASSUME IInv, [Next]_vars PROVE IInv'
    OBVIOUS
  <1>1. OInv /\ OInv'
    BY StepOInv DEF IInv
  <1>2. closing => closing'
    BY ClosingStays
  <1>3. ASSUME ~closing, ~closing' PROVE Lifted'
    <2>1. Lifted
      BY <1>3 DEF IInv
    <2>2. "tools" \in Targets /\ TRUE \in BOOLEAN
      BY DEF Targets
    <2>3. CASE User
      BY <1>1, <1>3, <2>1, <2>2, <2>3, UserLifted DEF User
    <2>4. CASE Deliver
      BY <1>1, <1>3, <2>1, <2>4, DeliverLifted
    <2>5. CASE \/ Poll \/ Expire \/ PollShutdown \/ ExitTimeout \/ PreflightThread \/ DownloadsChange
               \/ (\E t \in Targets : Worker(t)) \/ (\E r \in rels : ReleaseStep(r)) \/ UNCHANGED vars
      BY <1>1, <1>3, <2>1, <2>5, OtherLifted
    <2> QED BY <2>3, <2>4, <2>5 DEF Next
  <1> QED BY <1>1, <1>2, <1>3 DEF IInv

\* A pause is lifted: while a worker is paused by a confirmation, a dialog is on screen whose
\* every answer resumes or stops it, or the answer is on its way.
THEOREM PauseIsLiftedHolds == Spec => []PauseIsLifted
  <1>1. Init => IInv
    BY InitOInv, DeadFacts DEF IInv, Init, Lifted
  <1>2. IInv => PauseIsLifted
    BY DEF IInv, Lifted, PauseIsLifted, Active
  <1> QED BY <1>1, <1>2, StepIInv, PTL DEF Spec

----------------------------------------------------------------------------
(* Only a preflight that is taken before closing starts a worker.           *)

LEMMA OthersStartNone ==
  ASSUME Types, closing, [Next]_vars PROVE QuietWorkers
  <1> USE DEF ids, dialogs, window, coord
  <1>0. /\ w \in [Targets -> Workers] /\ running \in Maybe /\ quitDialog.target \in Maybe
        /\ \A name : Received(name) => Head(idle).target \in Maybe
    BY ReceivedTypes DEF Types, RunnerTypes, WindowTypes, DialogTypes, Quits, Calls
  <1>1. ASSUME User PROVE QuietWorkers
    <2>1. ASSUME NEW t \in Targets, HandleStart(t) PROVE QuietWorkers
      BY <2>1 DEF HandleStart
    <2>2. ASSUME ClosePlan \/ WaitLonger PROVE QuietWorkers
      BY <2>2, QuietUpdates DEF ClosePlan, WaitLonger
    <2>3. ASSUME OpenStop PROVE QuietWorkers
      BY <1>0, <2>3, QuietUpdates DEF OpenStop
    <2>4. ASSUME CloseRequest PROVE QuietWorkers
      BY <1>0, <2>4, QuietUpdates DEF CloseRequest
    <2>5. ASSUME QuitAnyway PROVE QuietWorkers
      BY <2>5, QuietUpdates DEF QuitAnyway, CompleteShutdown
    <2>6. ASSUME NEW yes \in BOOLEAN, AnswerStop(yes) PROVE QuietWorkers
      BY <1>0, <2>6, QuietUpdates DEF AnswerStop
    <2>7. ASSUME NEW yes \in BOOLEAN, AnswerQuit(yes) PROVE QuietWorkers
      <3>1. \A t \in Targets : w'[t] = w[t] \/ w'[t] = Stopped(w[t], FALSE)
        BY <1>0, <2>7 DEF AnswerQuit
      <3> QED BY <1>0, <3>1, StoppedFacts DEF QuietWorkers
    <2> QED BY <1>1, <2>1, <2>2, <2>3, <2>4, <2>5, <2>6, <2>7 DEF User
  <1>2. ASSUME Deliver PROVE QuietWorkers
    <2>1. ASSUME DeliverPreflight PROVE QuietWorkers
      BY <2>1, QuietUpdates DEF DeliverPreflight, Current
    <2>2. ASSUME DeliverEnded \/ DeliverReleased \/ DeliverExit PROVE QuietWorkers
      BY <2>2, QuietUpdates DEF DeliverEnded, DeliverReleased, DeliverExit
    <2>3. ASSUME DeliverStop PROVE QuietWorkers
      BY <1>0, <2>3, QuietUpdates DEF DeliverStop
    <2>4. ASSUME DeliverResume PROVE QuietWorkers
      BY <1>0, <2>4, QuietUpdates DEF DeliverResume
    <2>5. ASSUME DeliverQuit PROVE QuietWorkers
      BY <1>0, <2>5, QuietUpdates DEF DeliverQuit
    <2> QED BY <1>2, <2>1, <2>2, <2>3, <2>4, <2>5 DEF Deliver
  <1>3. ASSUME Poll \/ Expire \/ PreflightThread \/ DownloadsChange \/ UNCHANGED vars
        PROVE  QuietWorkers
    BY <1>3, QuietUpdates DEF Poll, Expire, PreflightThread, DownloadsChange, vars
  <1>4. ASSUME PollShutdown \/ ExitTimeout PROVE QuietWorkers
    BY <1>4, QuietUpdates DEF PollShutdown, CompleteShutdown, ExitTimeout
  <1>5. ASSUME NEW t \in Targets, Worker(t) PROVE QuietWorkers
    <2>1. ASSUME Wait(t) \/ Resume(t) PROVE QuietWorkers
      <3>1. PICK pc \in Active : w' = [w EXCEPT ![t].pc = pc]
        BY <2>1 DEF Wait, Resume, Work, Active
      <3>2. w[t].pc \in Active
        BY <2>1 DEF Wait, Resume, Active
      <3>3. /\ w'[t].pc = pc /\ w'[t].op = w[t].op
            /\ \A u \in Targets \ {t} : w'[u] = w[u]
        BY <1>0, <3>1 DEF Workers
      <3> QED BY <3>2, <3>3 DEF QuietWorkers, Active
    <2>3. ASSUME ThreadEnds(t) PROVE QuietWorkers
      BY <1>0, <2>3 DEF ThreadEnds, QuietWorkers
    <2>2. ASSUME Verdict(t) PROVE QuietWorkers
      BY <1>0, <2>2 DEF Verdict, Work, QuietWorkers, Active, Workers
    <2> QED BY <1>5, <2>1, <2>2, <2>3 DEF Worker
  <1>6. ASSUME NEW r \in rels, ReleaseStep(r) PROVE QuietWorkers
    <2>1. r.at \in Targets \cup {"done"}
      BY DEF Types, CallTypes, Releases
    <2>2. \A t \in Targets : w'[t] = w[t] \/ w'[t] = Stopped(w[t], TRUE)
      BY <1>0, <1>6, <2>1 DEF ReleaseStep
    <2> QED BY <1>0, <2>2, StoppedFacts DEF QuietWorkers
  <1> QED BY <1>1, <1>2, <1>3, <1>4, <1>5, <1>6 DEF Next

\* Once closing is decided no worker starts, not even for the preflight that was under way.
THEOREM NoStartWhileClosingHolds == Spec => NoStartWhileClosing
  <1>1. Types /\ [Next]_vars =>
          [closing => \A t \in Targets : w[t].pc = "dead" => w'[t].pc = "dead"]_vars
    BY OthersStartNone, DeadFacts DEF QuietWorkers
  <1> QED BY <1>1, InitTypes, StepTypes, PTL DEF Spec, NoStartWhileClosing
=============================================================================
