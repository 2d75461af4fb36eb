--------------------------- MODULE RunLifecycle ----------------------------
(***************************************************************************)
(* ui/run_control.py, ui/run_lifecycle.py and core/job_runner.py: how the   *)
(* window starts, stops and ends a run, and how it quits.  The main loop    *)
(* runs every handler below to its end; beside it run one preflight thread, *)
(* one worker thread per runner, and the threads that release the memory of *)
(* the inference and kill workers that do not stop.  The threads reach the  *)
(* main loop through idle_on_main, whose calls are served in order.         *)
(*                                                                         *)
(* The page "separation" stands for itself and for "ensemble": they share   *)
(* the runner of the context.  The page "tools" has a runner of its own.    *)
(***************************************************************************)
EXTENDS Naturals, Sequences

CONSTANTS MaxOps,    \* bound: operation ids handed out
          MaxStops,  \* bound: confirmed stops
          MaxCloses, \* bound: close gestures
          MaxIdle,   \* bound: calls waiting while the user opens a dialog
          MaxPolls   \* polls before a worker is killed (80 in the code)

ASSUME LifecycleAssumption == /\ MaxOps \in Nat /\ MaxStops \in Nat
                                /\ MaxCloses \in Nat /\ MaxIdle \in Nat
                                /\ MaxPolls \in Nat \ {0}

Targets == {"separation", "tools"}
None    == "none"
Maybe   == Targets \cup {None}

VARIABLES op, ops,       \* _operation_id (0: None), and how many were made
          running,       \* _running_target
          canStop,       \* the Stop button is enabled
          preflight,     \* _preflight_in_progress
          plan,          \* _plan_dialog: its target
          stopDialog,    \* _stop_confirm_dialog: its operation, 0 if closed
          quitDialog,    \* _shutdown_dialog: its operation and target
          timeoutDialog, \* _stop_timeout_dialog: its operation, 0 if closed
          closing,       \* _closing
          closes,        \* close gestures made
          downloads,     \* active_download_count() > 0
          cleanup,       \* the RunShutdownCoordinator of a stop
          shutdown,      \* ... of closing the window: its poll
          exit,          \* ... and of the exit
          w,             \* the two runners and their worker threads
          pf,            \* the preflight thread
          rels,          \* the threads of _schedule_release_inference_memory
          idle           \* the calls waiting for the main loop

ids     == <<op, ops>>
dialogs == <<plan, stopDialog, quitDialog, timeoutDialog>>
window  == <<running, canStop, closing, closes>>
coord   == <<cleanup, shutdown, exit>>
vars    == <<ids, dialogs, window, preflight, downloads, coord, w, pf, rels, idle>>

NoCleanup  == [target |-> None, gen |-> 0, polls |-> 0, timedOut |-> FALSE,
               releasing |-> FALSE, released |-> FALSE, poll |-> FALSE, timer |-> FALSE]
NoShutdown == [on |-> FALSE, target |-> None, polls |-> 0]
NoQuit   == [open |-> FALSE, op |-> 0, target |-> None]
NoThread == [kind |-> "none", op |-> 0, target |-> None]
Dead     == [pc |-> "dead", op |-> 0, paused |-> FALSE, stopped |-> FALSE, killed |-> FALSE]

Ops == 0..MaxOps
\* "waiting" in wait_if_paused, "after" its verdict
WorkerPcs == {"dead", "body", "waiting", "after"}

TypeOK ==
  /\ op \in Ops /\ ops \in Ops
  /\ running \in Maybe /\ plan \in Maybe
  /\ closes \in Nat
  /\ {canStop, preflight, closing, downloads} \subseteq BOOLEAN
  /\ stopDialog \in Ops /\ timeoutDialog \in Ops
  /\ quitDialog \in [open : BOOLEAN, op : Ops, target : Maybe]
  /\ cleanup \in [target : Maybe, gen : Nat, polls : 0..MaxPolls, timedOut : BOOLEAN,
                  releasing : BOOLEAN, released : BOOLEAN, poll : BOOLEAN, timer : BOOLEAN]
  /\ shutdown \in [on : BOOLEAN, target : Maybe, polls : 0..MaxPolls]
  /\ exit \in {"no", "pending", "exited"}
  /\ w \in [Targets -> [pc : WorkerPcs, op : Ops, paused : BOOLEAN, stopped : BOOLEAN,
                        killed : BOOLEAN]]
  /\ pf \in [kind : {"none", "resolve", "recheck"}, op : Ops, target : Maybe]
  /\ rels \subseteq [gen : Nat, force : BOOLEAN, at : Targets \cup {"done"}]
  /\ idle \in Seq([call : {"preflight", "ended", "stop", "resume", "quit", "released", "exit"},
                   op : Nat, target : Maybe, kind : {"none", "resolve", "recheck"}])

Init ==
  /\ op = 0 /\ ops = 0 /\ running = None /\ plan = None
  /\ canStop = FALSE /\ preflight = FALSE /\ closing = FALSE
  /\ downloads = FALSE /\ closes = 0
  /\ stopDialog = 0 /\ timeoutDialog = 0 /\ quitDialog = NoQuit
  /\ cleanup = NoCleanup /\ shutdown = NoShutdown
  /\ exit = "no"
  /\ w = [t \in Targets |-> Dead]
  /\ pf = NoThread /\ rels = {} /\ idle = <<>>

----------------------------------------------------------------------------
(* Helpers.                                                                 *)

\* A mutant: the window that closes is forgotten.
CurrentOp(o) == op = o

\* _operation_is_current
Current(o) == ~closing /\ op = o

Alive(t) == t # None /\ w[t].pc # "dead"

NoDialog == plan = None /\ stopDialog = 0 /\ ~quitDialog.open /\ timeoutDialog = 0

Call(name, o, t) == [call |-> name, op |-> o, target |-> t, kind |-> "none"]

\* JobRunner.stop, pause and unpause.  The flags of a runner without a thread
\* mean nothing: _reset_run_state clears them before the next one.
Stopped(x, force) == IF x.pc = "dead" THEN x
                     ELSE [x EXCEPT !.paused = FALSE, !.stopped = TRUE, !.killed = @ \/ force]
Paused(x, on) == IF x.pc = "dead" THEN x ELSE [x EXCEPT !.paused = on]

\* A mutant: what is paused stays paused.
PauseTargetOnly(t, on) == w' = [u \in Targets |-> IF u = t THEN Paused(w[u], TRUE) ELSE w[u]]

StopTarget(t)   == w' = [u \in Targets |-> IF u = t THEN Stopped(w[u], FALSE) ELSE w[u]]
PauseTarget(t, on) == w' = [u \in Targets |-> IF u = t THEN Paused(w[u], on) ELSE w[u]]
StopAll         == w' = [u \in Targets |-> Stopped(w[u], TRUE)]

\* A mutant: the target of a cancelled cleanup is kept.
CancelledTimers(c) == [c EXCEPT !.poll = FALSE, !.timer = FALSE]

\* cancel_inference_cleanup.  The target is None until the next schedule, which
\* tells the generations apart and starts with new counts and flags.
Cancelled(c) == [NoCleanup EXCEPT !.gen = c.gen]

\* A mutant: the ten seconds are not counted.
ResumedPoll(c) == [c EXCEPT !.timedOut = FALSE, !.poll = TRUE]

\* resume_inference_cleanup
Resumed(c) == [c EXCEPT !.timedOut = FALSE, !.timer = TRUE, !.poll = TRUE]

\* schedule_inference_cleanup
Scheduled(c, t) == Resumed([NoCleanup EXCEPT !.target = t, !.gen = c.gen + 1])

\* _restore_idle_controls and _set_running(False)
RestoreIdle ==
  /\ cleanup' = Cancelled(cleanup)
  /\ running' = None /\ canStop' = FALSE
  /\ stopDialog' = 0 /\ timeoutDialog' = 0

\* _finish_operation, after or before it
EndRun == RestoreIdle /\ op' = 0

\* begin_exit_cleanup; the exit's release has generation 0
BeginExit == IF exit = "no"
             THEN exit' = "pending" /\ rels' = rels \cup {[gen |-> 0, force |-> TRUE, at |-> "separation"]}
             ELSE UNCHANGED <<exit, rels>>

----------------------------------------------------------------------------
(* Start: preflight, confirmation and recheck.                              *)

\* handle_start of a ready page, with _begin_preflight.  A dialog on screen is
\* modal; build_job_spec may raise, which ends the operation.
HandleStart(t) ==
  /\ ~closing /\ running = None /\ ~preflight /\ NoDialog
  /\ ops < MaxOps
  /\ ops' = ops + 1
  /\ \/ /\ op' = ops' /\ preflight' = TRUE
        /\ pf' = [kind |-> "resolve", op |-> ops', target |-> t]
     \/ op' = 0 /\ UNCHANGED <<preflight, pf>>
  /\ UNCHANGED <<dialogs, window, downloads, coord, w, rels, idle>>

\* The preflight thread posts its result.
PreflightThread ==
  /\ pf.kind # "none"
  /\ idle' = Append(idle, [call |-> "preflight", op |-> pf.op, target |-> pf.target, kind |-> pf.kind])
  /\ pf' = NoThread
  /\ UNCHANGED <<ids, dialogs, window, preflight, downloads, coord, w, rels>>

Received(name) == idle # <<>> /\ Head(idle).call = name /\ idle' = Tail(idle)

\* _begin_preflight and the thread of _accept_plan
Launch(kind, t) == preflight' = TRUE /\ pf' = [kind |-> kind, op |-> op, target |-> t] /\ UNCHANGED op

GiveUp == op' = 0 /\ UNCHANGED pf

\* _accept_plan: the job is rechecked, resolved again if it has changed, or
\* given up if it cannot be built any more.
AcceptPlan(t) == \/ Launch("recheck", t) \/ Launch("resolve", t)
                 \/ GiveUp /\ preflight' = FALSE

\* _finish_preflight: an error or a rejected plan ends the operation; the plan
\* is accepted at once or shown first.
FinishPreflight(t) ==
  /\ \/ AcceptPlan(t) /\ UNCHANGED plan
     \/ plan' = t /\ preflight' = FALSE /\ UNCHANGED <<op, pf>>
  /\ UNCHANGED <<running, canStop, stopDialog, timeoutDialog, cleanup, w>>

\* JobRunner._start_worker and AudioToolRunner.start: no-op while a thread lives.
RunnerStart(t) == IF Alive(t) THEN UNCHANGED w
                  ELSE w' = [w EXCEPT ![t] = [Dead EXCEPT !.pc = "body", !.op = op]]

\* _start_target: begin_run and the runner's start; a start that raises, which
\* fail_to_start takes back; a page that returns before begin_run.
StartTarget(t) ==
  \/ /\ running' = t /\ canStop' = TRUE
     /\ RunnerStart(t)
     /\ UNCHANGED <<op, stopDialog, timeoutDialog, cleanup>>
  \/ EndRun /\ UNCHANGED w
  \/ /\ t = "tools" /\ op' = 0
     /\ UNCHANGED <<running, canStop, stopDialog, timeoutDialog, cleanup, w>>

\* _finish_plan_recheck
FinishRecheck(t) ==
  \/ /\ GiveUp \/ Launch("resolve", t)
     /\ preflight' = (pf'.kind # "none")
     /\ UNCHANGED <<running, canStop, stopDialog, timeoutDialog, cleanup, w>>
  \/ preflight' = FALSE /\ UNCHANGED pf /\ StartTarget(t)

DeliverPreflight ==
  LET m == Head(idle)
  IN /\ Received("preflight")
     /\ IF ~Current(m.op)
        THEN UNCHANGED <<op, plan, running, canStop, stopDialog, timeoutDialog,
                         cleanup, preflight, w, pf>>
        ELSE IF m.kind = "resolve" THEN FinishPreflight(m.target)
             ELSE FinishRecheck(m.target) /\ UNCHANGED plan
     /\ UNCHANGED <<ops, quitDialog, closing, closes, downloads, shutdown, exit, rels>>

\* ReviewPlanDialog is closed, accepted or not.  While it is open no other
\* operation can begin, so that its own is current until closing.
ClosePlan ==
  /\ plan # None /\ ~closing
  /\ plan' = None
  /\ AcceptPlan(plan)
  /\ UNCHANGED <<ops, stopDialog, quitDialog, timeoutDialog, window, downloads, coord, w, rels, idle>>

----------------------------------------------------------------------------
(* The worker thread of a runner.                                           *)

Work(t, pc) == /\ w' = [w EXCEPT ![t].pc = pc]
               /\ UNCHANGED <<ids, dialogs, window, preflight, downloads, coord, pf, rels>>

\* wait_if_paused, from check_stopped.
Wait(t)   == w[t].pc = "body" /\ w[t].paused /\ ~w[t].stopped /\ Work(t, "waiting") /\ UNCHANGED idle
Resume(t) == w[t].pc = "waiting" /\ (~w[t].paused \/ w[t].stopped) /\ Work(t, "body") /\ UNCHANGED idle

\* with_worker_lifecycle posts the verdict of this thread's operation: complete,
\* stopped or error, which make no difference to the lifecycle.
Verdict(t) == /\ w[t].pc = "body"
              /\ idle' = Append(idle, Call("ended", w[t].op, None))
              /\ Work(t, "after")

\* The thread has released its resources, or terminate() has reached it.
ThreadEnds(t) ==
  /\ \/ w[t].pc = "after"
     \/ w[t].pc # "dead" /\ w[t].killed
  /\ w' = [w EXCEPT ![t] = Dead]
  /\ UNCHANGED <<ids, dialogs, window, preflight, downloads, coord, pf, rels, idle>>

\* _on_complete, _on_stopped and _on_error, behind current_run.
DeliverEnded ==
  /\ Received("ended")
  /\ IF Current(Head(idle).op) THEN EndRun
     ELSE UNCHANGED <<op, running, canStop, stopDialog, timeoutDialog, cleanup>>
  /\ UNCHANGED <<ops, plan, quitDialog, closing, closes, preflight, downloads, shutdown, exit, w, pf, rels>>

----------------------------------------------------------------------------
(* Stop.                                                                    *)

\* handle_stop, and _suspend_run_ui_for_dialog
OpenStop ==
  /\ canStop /\ NoDialog /\ cleanup.gen < MaxStops /\ Len(idle) < MaxIdle
  /\ stopDialog' = op
  /\ PauseTarget(running, TRUE)
  /\ UNCHANGED <<ids, plan, quitDialog, timeoutDialog, running, canStop, closing, closes, preflight,
                 downloads, coord, pf, rels, idle>>

\* The responses of the stop dialog; what they defer is tied to its operation.
AnswerStop(yes) ==
  /\ stopDialog # 0
  /\ stopDialog' = 0
  /\ IF ~Current(stopDialog) THEN UNCHANGED <<w, idle>>
     ELSE /\ idle' = Append(idle, Call(IF yes THEN "stop" ELSE "resume", stopDialog, running))
          /\ IF yes THEN StopTarget(running) ELSE UNCHANGED w
  /\ UNCHANGED <<ids, plan, quitDialog, timeoutDialog, window, preflight, downloads, coord, pf, rels>>

\* _confirm_stop
DeliverStop ==
  LET m == Head(idle)
  IN /\ Received("stop")
     /\ IF Current(m.op) /\ running = m.target
        THEN /\ canStop' = FALSE
             /\ StopTarget(m.target)
             /\ cleanup' = Scheduled(cleanup, m.target)
        ELSE UNCHANGED <<canStop, w, cleanup>>
     /\ UNCHANGED <<ids, dialogs, running, closing, closes, preflight, downloads, shutdown, exit, pf, rels>>

\* _resume_after_dialog_cancel, behind _deliver_operation
DeliverResume ==
  LET m == Head(idle)
  IN /\ Received("resume")
     /\ IF Current(m.op) THEN PauseTarget(m.target, FALSE)
        ELSE UNCHANGED w
     /\ UNCHANGED <<ids, dialogs, running, canStop, closing, closes, preflight, downloads, coord, pf, rels>>

\* on_stop_cleanup, once the worker is dead and its memory released
StopCleanedUp(t) == IF running = t THEN EndRun
                    ELSE /\ cleanup' = Cancelled(cleanup)
                         /\ UNCHANGED <<op, running, canStop, stopDialog, timeoutDialog>>

\* A mutant: polls that are not counted.
CountedNot(c)  == c

\* One more attempt of a coordinator; only the comparison with the last matters.
Counted(c) == [c EXCEPT !.polls = IF @ < MaxPolls THEN @ + 1 ELSE @]

\* A mutant: the worker is not asked for.
ReleasedOnly(c) == c.released

\* The end of a cleanup that has released the memory.
CleanedUp(c) == c.released /\ ~Alive(c.target)

\* poll_inference_cleanup of the cleanup c; a release is forced on a worker that
\* is still alive after the last poll.
PollCleanup(c0) ==
  LET c     == Counted(c0)
      alive == Alive(c.target)
      keep  == UNCHANGED <<op, running, canStop, stopDialog, timeoutDialog>>
  IN CASE c.target = None \/ c.timedOut ->
            cleanup' = [c0 EXCEPT !.poll = FALSE] /\ UNCHANGED rels /\ keep
       [] c.target # None /\ ~c.timedOut /\ c.releasing ->
            /\ UNCHANGED rels
            /\ IF CleanedUp(c) THEN StopCleanedUp(c.target)
               ELSE cleanup' = [c EXCEPT !.poll = c.released] /\ keep
       [] c.target # None /\ ~c.timedOut /\ ~c.releasing ->
            /\ keep
            /\ IF ~alive \/ c.polls = MaxPolls
               THEN /\ cleanup' = [c EXCEPT !.releasing = TRUE, !.poll = FALSE]
                    /\ rels' = rels \cup {[gen |-> c.gen, force |-> alive, at |-> "separation"]}
               ELSE cleanup' = c /\ UNCHANGED rels

Poll == /\ cleanup.poll
        /\ PollCleanup(cleanup)
        /\ UNCHANGED <<ops, plan, quitDialog, closing, closes, preflight, downloads, shutdown, exit, w, pf, idle>>

\* released() of a stop: dropped when its cleanup is over.
DeliverReleased ==
  /\ Received("released")
  /\ IF cleanup.target # None /\ cleanup.gen = Head(idle).op
     THEN PollCleanup([cleanup EXCEPT !.released = TRUE, !.poll = TRUE])
     ELSE UNCHANGED <<op, running, canStop, stopDialog, timeoutDialog, cleanup, rels>>
  /\ UNCHANGED <<ops, plan, quitDialog, closing, closes, preflight, downloads, shutdown, exit, w, pf>>

\* expired(), 10 s after the stop: _on_stop_timeout
Expire ==
  /\ cleanup.timer
  /\ cleanup' = [cleanup EXCEPT !.timer = FALSE, !.timedOut = TRUE, !.poll = FALSE]
  /\ IF ~closing /\ running = cleanup.target THEN timeoutDialog' = op /\ canStop' = FALSE
     ELSE UNCHANGED <<timeoutDialog, canStop>>
  /\ UNCHANGED <<ids, plan, stopDialog, quitDialog, running, closing, closes, preflight,
                 downloads, shutdown, exit, w, pf, rels, idle>>

\* "Wait Longer"
WaitLonger ==
  /\ timeoutDialog # 0
  /\ timeoutDialog' = 0
  /\ cleanup' = IF Current(timeoutDialog) /\ cleanup.target # None THEN Resumed(cleanup) ELSE cleanup
  /\ UNCHANGED <<ids, plan, stopDialog, quitDialog, window, preflight, downloads, shutdown, exit,
                 w, pf, rels, idle>>

----------------------------------------------------------------------------
(* Closing the window.                                                      *)

\* _complete_shutdown
CompleteShutdown ==
  /\ cleanup' = Cancelled(cleanup)
  /\ shutdown' = NoShutdown
  /\ StopAll
  /\ BeginExit

\* handle_close_request.  A run or a download asks first; the confirmation of a
\* stop gives way to the one of quitting, which pauses the run in its turn.
CloseRequest ==
  /\ ~quitDialog.open /\ closes < MaxCloses /\ Len(idle) < MaxIdle
  /\ closes' = closes + 1
  /\ stopDialog' = 0
  /\ IF running # None \/ downloads
     THEN /\ quitDialog' = [open |-> TRUE, op |-> op, target |-> running]
          /\ PauseTarget(running, TRUE)
          /\ UNCHANGED <<closing, exit, rels>>
     ELSE /\ closing' = TRUE
          /\ StopAll /\ BeginExit
          /\ UNCHANGED quitDialog
  /\ UNCHANGED <<ids, plan, timeoutDialog, running, canStop, preflight, downloads, cleanup,
                 shutdown, pf, idle>>

\* The responses of the quit dialog; "quit" also stops the context's runner.
AnswerQuit(yes) ==
  LET target == IF running # None THEN running ELSE quitDialog.target
  IN /\ quitDialog.open
     /\ quitDialog' = NoQuit
     /\ IF yes
        THEN /\ idle' = Append(idle, Call("quit", 0, target))
             /\ w' = [t \in Targets |-> IF t \in {target, "separation"} THEN Stopped(w[t], FALSE)
                                        ELSE w[t]]
        ELSE idle' = Append(idle, Call("resume", quitDialog.op, quitDialog.target)) /\ UNCHANGED w
     /\ UNCHANGED <<ids, plan, stopDialog, timeoutDialog, window, preflight, downloads, coord, pf, rels>>

\* _confirm_shutdown_stop
DeliverQuit ==
  LET t == Head(idle).target
  IN /\ Received("quit")
     /\ closing' = TRUE /\ canStop' = FALSE /\ running' = None
     /\ op' = 0
     /\ StopTarget(t)
     /\ cleanup' = Cancelled(cleanup)
     /\ shutdown' = [on |-> TRUE, target |-> t, polls |-> 0]
     /\ UNCHANGED <<ops, dialogs, closes, preflight, downloads, exit, pf, rels>>

\* poll_shutdown: until worker and downloads have ended, or for the last time.
PollShutdown ==
  LET s == Counted(shutdown)
  IN /\ shutdown.on
     /\ IF ~(Alive(s.target) \/ downloads) \/ s.polls = MaxPolls
        THEN CompleteShutdown
        ELSE shutdown' = s /\ UNCHANGED <<cleanup, exit, w, rels>>
     /\ UNCHANGED <<ids, dialogs, window, preflight, downloads, pf, idle>>

\* "Quit" of the dialog that says the worker has not stopped
QuitAnyway ==
  /\ timeoutDialog # 0
  /\ timeoutDialog' = 0
  /\ IF Current(timeoutDialog) THEN closing' = TRUE /\ CompleteShutdown
     ELSE UNCHANGED <<closing, cleanup, shutdown, exit, w, rels>>
  /\ UNCHANGED <<ids, plan, stopDialog, quitDialog, running, canStop, closes, preflight,
                 downloads, pf, idle>>

\* finish_exit_cleanup: the application quits.
DeliverExit ==
  /\ Received("exit")
  /\ exit' = "exited"
  /\ UNCHANGED <<ids, dialogs, window, preflight, downloads, cleanup, shutdown, w, pf, rels>>

\* on_exit_cleanup_timeout
ExitTimeout ==
  /\ exit = "pending"
  /\ StopAll /\ exit' = "exited"
  /\ UNCHANGED <<ids, dialogs, window, preflight, downloads, cleanup, shutdown, pf, rels, idle>>

----------------------------------------------------------------------------
(* The threads that release memory, and the downloads.                      *)

\* release_inference_memory of the context's runner and then of the tools': a
\* forced one kills whatever worker it finds alive.
ReleaseStep(r) ==
  /\ r \in rels
  /\ IF r.at = "done"
     THEN /\ rels' = rels \ {r}
          /\ idle' = Append(idle, IF r.gen = 0 THEN Call("exit", 0, None)
                                               ELSE Call("released", r.gen, None))
          /\ UNCHANGED w
     ELSE /\ rels' = (rels \ {r}) \cup
                       {[r EXCEPT !.at = IF @ = "separation" THEN "tools" ELSE "done"]}
          /\ w' = IF r.force THEN [w EXCEPT ![r.at] = Stopped(@, TRUE)] ELSE w
          /\ UNCHANGED idle
  /\ UNCHANGED <<ids, dialogs, window, preflight, downloads, coord, pf>>

\* The download queue becomes busy, unless the application is on its way out, or
\* idle again.
DownloadsChange ==
  /\ downloads \/ (NoDialog /\ ~closing)
  /\ downloads' = ~downloads
  /\ UNCHANGED <<ids, dialogs, window, preflight, coord, w, pf, rels, idle>>

----------------------------------------------------------------------------
User == \/ \E t \in Targets : HandleStart(t)
        \/ ClosePlan \/ OpenStop \/ CloseRequest \/ WaitLonger \/ QuitAnyway
        \/ \E yes \in BOOLEAN : AnswerStop(yes) \/ AnswerQuit(yes)

\* What the main loop serves by itself: the idle calls, in order.
Deliver == \/ DeliverPreflight \/ DeliverEnded \/ DeliverStop \/ DeliverResume
           \/ DeliverReleased \/ DeliverQuit \/ DeliverExit

Worker(t) == Wait(t) \/ Resume(t) \/ Verdict(t) \/ ThreadEnds(t)

\* quit() ends the main loop, and with it the process.
Next == /\ exit # "exited"
        /\ \/ User \/ Deliver \/ Poll \/ Expire \/ PollShutdown \/ ExitTimeout
           \/ PreflightThread \/ DownloadsChange
           \/ \E t \in Targets : Worker(t)
           \/ \E r \in rels : ReleaseStep(r)

\* A result that finds the job as it was, so that it is not resolved once more.
Settled(kind) == /\ exit # "exited" /\ DeliverPreflight
                 /\ Head(idle).kind = kind /\ pf'.kind # "resolve"

\* The main loop serves its calls and its timers, the preflight thread ends, and
\* the user does not edit the job under every preflight.  Nothing is asked of the
\* user otherwise, nor of a worker, of a release or of a download.
Spec == /\ Init /\ [][Next]_vars
        /\ WF_vars(exit # "exited" /\ Deliver)
        /\ WF_vars(exit # "exited" /\ Poll) /\ WF_vars(exit # "exited" /\ Expire)
        /\ WF_vars(exit # "exited" /\ PollShutdown) /\ WF_vars(exit # "exited" /\ ExitTimeout)
        /\ WF_vars(exit # "exited" /\ PreflightThread)
        /\ \A kind \in {"resolve", "recheck"} : SF_vars(Settled(kind))

----------------------------------------------------------------------------
(* Properties.                                                              *)

\* A worker that still computes is the one of the run on screen, and its verdict
\* will be delivered: no orphan works behind an idle window
\* (run_control.py:929-931, run_lifecycle.py:128-135).
NoOrphanWorker ==
  ~closing => \A t \in Targets :
                w[t].pc \in {"body", "waiting"} => running = t /\ w[t].op = op

\* A pause is lifted: while a worker is paused by a confirmation, a dialog is on
\* screen whose every answer resumes or stops it, or the answer is on its way;
\* closing stops every worker (run_control.py:611-742, 799-805).
PauseIsLifted ==
  ~closing => \A t \in Targets :
    w[t].paused /\ w[t].pc \in {"body", "waiting"} =>
      \/ stopDialog = op
      \/ quitDialog.open
      \/ \E i \in DOMAIN idle : \/ idle[i].call \in {"resume", "stop"} /\ idle[i].op = op
                                \/ idle[i].call = "quit"

\* A stop under way is the one of the run on screen: it can end no later run
\* (run_lifecycle.py:58-82, run_control.py:1151-1155).
CleanupIsOfTheRun == cleanup.target # None => running = cleanup.target

\* Once closing is decided no worker starts, not even for the preflight that was
\* under way (run_control.py:200-207, 346-353, 460-470).
NoStartWhileClosing ==
  [][closing => \A t \in Targets : w[t].pc = "dead" => w'[t].pc = "dead"]_vars

\* A stop ends the run, or tells the user that it could not
\* (run_lifecycle.py:76-95), whatever the worker and the release do.
StopEnds == cleanup.target # None ~> (cleanup.target = None \/ timeoutDialog # 0)

\* Once closing is decided the application quits, whatever workers, downloads
\* and the release of the memory do (run_lifecycle.py:151-202).
CloseEnds == closing ~> exit = "exited"

\* begin_run is "shared bookkeeping when any run target starts its worker"
\* (run_control.py:505): a run on screen, not being stopped, has a worker whose
\* verdict is still to come or on its way.
RunHasWorker ==
  running # None /\ ~closing /\ cleanup.target = None =>
    \/ w[running].pc \in {"body", "waiting"} /\ w[running].op = op
    \/ \E i \in DOMAIN idle : idle[i].call = "ended" /\ idle[i].op = op

\* "A cooperative terminal callback may already have cancelled this cleanup, or
\* the same page may have started a later run" (run_lifecycle.py:129-130): what a
\* cleanup kills has been asked to stop.
OnlyStoppedWorkersAreKilled ==
  [][\A t \in Targets :
       w[t].pc \in {"body", "waiting"} /\ ~w[t].killed /\ w'[t].killed
         => w[t].stopped \/ closing']_vars
=============================================================================
