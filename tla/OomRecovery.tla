----------------------------- MODULE OomRecovery ----------------------------
(***************************************************************************)
(* core/separator_run.py, core/job_callbacks.py, ui/oom_dialog.py and the   *)
(* part of ui/run_control.py that asks the user, in the loop of             *)
(* core/run_loop.py over the files, models and windows of a job; when the   *)
(* device runs out of memory the worker asks for a choice and polls for the *)
(* answer, the main loop shows a dialog, and the worker retries with        *)
(* smaller segments, exports the members that are complete, or stops.  A    *)
(* run that is not bound to a window answers "auto" by itself and, as       *)
(* JobRunner.start_resolved does, may go on after an input that failed.     *)
(***************************************************************************)
EXTENDS OomSegment, AudioChunking, FiniteSets

CONSTANTS Names,    \* the models of the runs
          Config,   \* [Names -> Models], as resolved for a run
          Order,    \* the models of a run, in order
          Secondary, \* the models that a model runs besides itself
          Ensemble, \* process_kind = "ensemble"
          Mixes,    \* the samples of each input
          Missing,  \* the inputs that are no file any more
          ChunkSamples, OverlapSamples, \* the settings for long files
          MaxRuns   \* bound: runs started

ASSUME RecoveryAssumption == /\ Config \in [Names -> Models]
                               /\ Order \in Seq(Names)
                               /\ Secondary \in [Names -> SUBSET Names]
                               /\ Ensemble \in BOOLEAN /\ MaxRuns \in Nat
                               /\ Mixes \in Seq(Nat) /\ Missing \subseteq DOMAIN Mixes
                               /\ ChunkSamples \in Nat /\ OverlapSamples \in Nat

VARIABLES bound,    \* on_oom_choice is set: the window's runs
          failFast, \* an input that fails ends a run without a window
          op,       \* _operation_id of the window, 0: none
          runs,     \* operation ids made
          target,   \* _running_target is set
          closing,  \* _closing
          dialog,   \* _oom_dialog: its request, 0: None
          asks,     \* the requests made so far, each with its dialog and box
          idle,     \* calls waiting for the main loop
          pc,       \* the worker
          stopped,  \* _is_stopped
          file,     \* its place in Mixes
          pos,      \* its place in Order
          chunk,    \* its place in the windows of the file
          model,    \* the models of the run, changed by overrides
          override, \* _mdx_segment_override, 0: None
          parts,    \* stem_parts of the model: the sources of each window
          members,  \* _ensemble_salvage_members
          cache,    \* the source mappers: what each model made its source of
          listed,   \* all_models is not empty, as the engines of the window see it
          cands,    \* the candidates that are left
          mode,     \* "first" attempt, a "retry", an "auto" retry
          failed    \* ghost: the sizes that ran out of memory in this call

window == <<op, runs, target, closing, dialog>>
place  == <<file, pos, chunk>>
tracks == <<parts, members, cache, listed>>
sizes  == <<model, override, cands, mode, failed>>
job    == <<place, tracks, sizes>>
fixed  == <<bound, failFast>>
vars   == <<fixed, window, asks, idle, pc, stopped, job>>

Choices  == {"export", "stop", "retry"}
Pcs      == {"off", "file", "model", "chunk", "infer", "ask", "wait", "retry"}
Requests == [op : 1..MaxRuns, canExport : BOOLEAN, canRetry : BOOLEAN,
             view : {"queued", "open", "settled", "closed"},
             reply : Choices \cup {"none"}]
Sources  == Nat \X Nat   \* what a source was made of: a file and its window
Spans    == [from : Nat, to : Nat]
Calls    == [call : {"ask", "ended"}, op : 1..MaxRuns, req : Nat]

TypeOK ==
  /\ bound \in BOOLEAN /\ failFast \in BOOLEAN
  /\ op \in 0..MaxRuns /\ runs \in 0..MaxRuns
  /\ target \in BOOLEAN /\ closing \in BOOLEAN
  /\ asks \in Seq(Requests)
  /\ dialog \in 0..Len(asks)
  /\ idle \in Seq(Calls)
  /\ pc \in Pcs /\ stopped \in BOOLEAN
  /\ file \in Nat /\ pos \in Nat /\ chunk \in Nat
  /\ parts \in Seq(SUBSET Sources) /\ cache \in [Names -> Sources]
  /\ members \in Seq([model : Names, parts : Seq(SUBSET Sources), joined : Seq(Spans)])
  /\ listed \in BOOLEAN
  /\ model \in [Names -> Models]
  /\ override \in Stops \cup {0}
  /\ cands \subseteq Stops /\ failed \subseteq Stops
  /\ mode \in {"first", "retry", "auto"}

Nothing == <<0, 0>>
Empty   == [n \in Names |-> Nothing]   \* _cached_sources_clear

Init ==
  /\ bound \in BOOLEAN /\ failFast \in BOOLEAN /\ (bound => failFast)
  /\ op = 0 /\ runs = 0 /\ target = FALSE /\ closing = FALSE /\ dialog = 0
  /\ asks = <<>> /\ idle = <<>>
  /\ pc = "off" /\ stopped = FALSE
  /\ file = 1 /\ pos = 1 /\ chunk = 1
  /\ parts = <<>> /\ members = <<>> /\ cache = Empty /\ listed = TRUE
  /\ model = Config /\ override = 0 /\ cands = {} /\ mode = "first" /\ failed = {}

----------------------------------------------------------------------------
(* Helpers.                                                                 *)

Current(o) == ~closing /\ op = o      \* _operation_is_current
Name       == Order[pos]
Segment    == Effective(model[Name])  \* what an engine built now would use

Cut        == Windows(Mixes[file], ChunkSamples, OverlapSamples)   \* slice_mix

\* The engines of a pass, and those among them that the run has twice, whose sources
\* cache_source keeps.
Engines   == {Name} \cup Secondary[Name]
Shared(n) == Cardinality({i \in DOMAIN Order : Order[i] = n})
               + Cardinality({i \in DOMAIN Order : n \in Secondary[Order[i]]}) > 1

\* A mutant: only the next input forgets the sources.
AllSources == cache

\* Where the input has windows, none finds a source of the one before.
ChunkSources == IF Len(Cut) > 1 THEN Empty ELSE cache

\* An engine takes its source from the cache, or makes it of the window at hand.
Source(n) == IF cache[n] = Nothing THEN <<file, chunk>> ELSE cache[n]
Pass      == {Source(n) : n \in Engines}

\* A mutant: the worker does not know the answer "export".
OnlyStop == {"stop"}

\* The answers that end the run: Stop, Export (which may fail), or an unknown one.
EndingAnswers == {"stop", "export"}

\* A mutant: the request keeps the dialog of the controller.
KeepDialog(r) == dialog' = dialog

\* on_choice: the controller lets go of the dialog before the worker may ask again.
DropDialog(r) == dialog' = 0

\* A mutant: a dialog that closes answers again.
FinishAgain(a, choice) == [a EXCEPT !.view = "settled", !.reply = choice]

\* A mutant: a dialog that is closed without a button gives no answer.
FinishButtons(a, choice) ==
  IF a.view # "open" THEN a
  ELSE [a EXCEPT !.view = "settled", !.reply = IF choice = "stop" THEN "none" ELSE choice]

\* finish() in present_oom_choice_dialog: the first choice settles the dialog.
Finish(a, choice) == IF a.view = "open"
                     THEN [a EXCEPT !.view = "settled", !.reply = choice] ELSE a

\* request.respond(OOM_CHOICE_STOP) without a dialog
Refuse(r) == asks' = [asks EXCEPT ![r].view = "closed", ![r].reply = "stop"]

\* What the functions under way, and their release, leave for the next input.
Unwind(next) ==
  /\ file' = next /\ pos' = 1 /\ chunk' = 1 /\ parts' = <<>>
  /\ cache' = Empty /\ listed' = TRUE
  /\ cands' = {} /\ mode' = "first" /\ failed' = {}

\* The last callback of a worker.  In the window the main loop serves it.
End == /\ pc' = "off"
       /\ Unwind(1) /\ model' = Config /\ UNCHANGED <<override, members>>
       /\ IF bound THEN /\ idle' = Append(idle, [call |-> "ended", op |-> runs, req |-> 0])
                        /\ UNCHANGED window
          ELSE /\ op' = 0 /\ target' = FALSE
               /\ UNCHANGED <<runs, closing, dialog, idle>>

----------------------------------------------------------------------------
(* The worker: run_models_on_files and run_separator.                       *)

\* begin_run and JobRunner.start: _reset_run_state, a new list of models.
StartRun ==
  /\ op = 0 /\ ~closing /\ pc = "off" /\ runs < MaxRuns
  /\ op' = runs + 1 /\ runs' = runs + 1 /\ target' = TRUE
  /\ pc' = "file" /\ stopped' = FALSE
  /\ Unwind(1) /\ model' = Config /\ override' = 0 /\ members' = <<>>
  /\ UNCHANGED <<fixed, closing, dialog, asks, idle>>

\* The next input.  Without a window, each is a run of its own over the same models.
NextFile(sources) ==
  /\ pc' = "file"
  /\ IF bound THEN /\ file' = file + 1 /\ pos' = 1 /\ chunk' = 1 /\ cache' = sources
                   /\ UNCHANGED <<parts, listed, cands, mode, failed>>
     ELSE Unwind(file + 1)
  /\ UNCHANGED <<window, idle, members, model, override>>

\* An error ends the run; without a window, an input that fails may be left behind.
InputFails == IF bound \/ stopped \/ failFast THEN End ELSE NextFile(Empty)

\* An input that is missing is no error in the loop, but the result of a run of its own
\* lacks its files.
SkipFile ==
  /\ pc = "file" /\ ~stopped /\ file \in Missing
  /\ IF bound THEN NextFile(Empty) ELSE InputFails
  /\ UNCHANGED <<fixed, asks, stopped>>

\* The mix is read and cut, and before_file forgets the members of the file before.
OpenFile ==
  /\ pc = "file" /\ ~stopped /\ file \in DOMAIN Mixes \ Missing
  /\ pc' = "model" /\ members' = <<>> /\ cache' = Empty
  /\ UNCHANGED <<fixed, window, asks, idle, stopped, place, parts, listed, sizes>>

NextModel ==
  /\ pc = "model" /\ ~stopped /\ pos <= Len(Order)
  /\ pc' = "chunk" /\ chunk' = 1
  /\ UNCHANGED <<fixed, window, asks, idle, stopped, file, pos, tracks, sizes>>

\* An engine is built under the override of the run, and run_separator begins.
NextChunk ==
  /\ pc = "chunk" /\ ~stopped
  /\ model' = [model EXCEPT ![Name] = Overridden(@, override)]
  /\ cache' = ChunkSources
  /\ pc' = "infer"
  /\ UNCHANGED <<fixed, window, asks, idle, stopped, place, parts, members, listed, override,
                 cands, mode, failed>>

\* run_separator returns.  Its engines keep sources for the rest of the file, and if they
\* ran out of memory before, the next ones find all_models empty.
Returns ==
  /\ cache' = [n \in Names |-> IF n \in Engines /\ Shared(n) /\ listed THEN Source(n)
                               ELSE cache[n]]
  /\ listed' = (listed /\ failed = {})
  /\ cands' = {} /\ mode' = "first" /\ failed' = {}
  /\ UNCHANGED <<fixed, window, asks, idle, stopped, file, model, override>>

\* after_chunk.
ChunkOk ==
  /\ pc = "infer" /\ chunk < Len(Cut)
  /\ parts' = Append(parts, Pass)
  /\ pc' = "chunk" /\ chunk' = chunk + 1
  /\ Returns /\ UNCHANGED <<pos, members>>

\* after_chunk of the last window and after_model: the parts are joined, and an ensemble
\* keeps the member for a salvage.
ModelOk ==
  /\ pc = "infer" /\ chunk = Len(Cut)
  /\ parts' = <<>>
  /\ members' = IF Ensemble THEN Append(members, [model |-> Name, parts |-> Append(parts, Pass),
                                                  joined |-> Joined(Cut)])
                ELSE members
  /\ pc' = "model" /\ pos' = pos + 1 /\ chunk' = 1
  /\ Returns

\* after_file: the members are combined, and the input is reported.
FileOk ==
  /\ pc = "model" /\ pos > Len(Order)
  /\ NextFile(cache) /\ UNCHANGED <<fixed, asks, stopped>>

AllDone ==
  /\ pc = "file" /\ file > Len(Mixes)
  /\ End /\ UNCHANGED <<fixed, asks, stopped>>

\* check_stopped, wherever the worker reaches one.
WorkerStops ==
  /\ pc # "off" /\ stopped
  /\ End /\ UNCHANGED <<fixed, asks, stopped>>

\* An error that is not about memory: the mix cannot be read, an engine cannot be built
\* or fails, or the members cannot be combined.
Fails ==
  /\ \/ pc = "file" /\ file \in DOMAIN Mixes \ Missing
     \/ pc = "infer"
     \/ pc = "model" /\ pos > Len(Order)
  /\ InputFails /\ UNCHANGED <<fixed, asks, stopped>>

\* What out of memory does to the sources: release_inference_memory.
Release == cache' = Empty /\ UNCHANGED <<parts, members, listed>>

\* The first attempt runs out of memory: the candidates are those below it.
FirstOom ==
  /\ pc = "infer" /\ mode = "first"
  /\ failed' = {Segment} /\ cands' = Retries(model[Name], Segment)
  /\ pc' = "ask" /\ Release
  /\ UNCHANGED <<fixed, window, asks, idle, stopped, place, model, override, mode>>

\* A retry runs out of memory, and there is a smaller candidate.
RetryOom ==
  /\ pc = "infer" /\ mode # "first" /\ cands # {}
  /\ failed' = failed \cup {Segment}
  /\ pc' = "retry" /\ Release
  /\ UNCHANGED <<fixed, window, asks, idle, stopped, place, model, override, cands, mode>>

\* The last candidate ran out of memory: the sizes are read again, and the user
\* is asked again.
Exhausted ==
  /\ pc = "infer" /\ mode = "retry" /\ cands = {}
  /\ failed' = failed \cup {Segment} /\ cands' = Retries(model[Name], Segment)
  /\ pc' = "ask" /\ Release
  /\ UNCHANGED <<fixed, window, asks, idle, stopped, place, model, override, mode>>

\* ... and without a user the last error is raised.
AutoFails ==
  /\ pc = "infer" /\ mode = "auto" /\ cands = {}
  /\ InputFails /\ UNCHANGED <<fixed, asks, stopped>>

\* request_oom_choice without a window: "auto".
AskNobody ==
  /\ pc = "ask" /\ ~stopped /\ ~bound /\ cands # {}
  /\ pc' = "retry" /\ mode' = "auto"
  /\ UNCHANGED <<fixed, window, asks, idle, stopped, place, tracks, model, override, cands, failed>>

NobodyToAsk ==
  /\ pc = "ask" /\ ~stopped /\ ~bound /\ cands = {}
  /\ InputFails /\ UNCHANGED <<fixed, asks, stopped>>

\* request_oom_choice: a box, and a call that the main loop will serve.
Ask ==
  /\ pc = "ask" /\ ~stopped /\ bound
  /\ asks' = Append(asks, [op |-> runs, canRetry |-> cands # {},
                           canExport |-> Ensemble /\ members # <<>>,
                           view |-> "queued", reply |-> "none"])
  /\ idle' = Append(idle, [call |-> "ask", op |-> runs, req |-> Len(asks')])
  /\ pc' = "wait"
  /\ UNCHANGED <<fixed, window, stopped, job>>

\* The box of the worker's own request.
Answer == asks[Len(asks)].reply

TakeStop ==
  /\ pc = "wait" /\ Answer \in EndingAnswers
  /\ End /\ UNCHANGED <<fixed, asks, stopped>>

TakeRetry ==
  /\ pc = "wait" /\ Answer = "retry"
  /\ IF cands = {} THEN pc' = "ask" /\ UNCHANGED mode
                   ELSE pc' = "retry" /\ mode' = "retry"
  /\ UNCHANGED <<fixed, window, asks, idle, stopped, place, tracks, model, override, cands, failed>>

\* The next candidate becomes the override of the run, and the engine is built.
Retry ==
  /\ pc = "retry" /\ ~stopped
  /\ \E c \in cands :
       /\ \A d \in cands : d <= c
       /\ override' = c /\ cands' = cands \ {c}
       /\ model' = [model EXCEPT ![Name] = Overridden(@, c)]
  /\ pc' = "infer"
  /\ UNCHANGED <<fixed, window, asks, idle, stopped, place, tracks, mode, failed>>

Worker == \/ SkipFile \/ OpenFile \/ NextModel \/ NextChunk \/ ChunkOk \/ ModelOk \/ FileOk
          \/ AllDone \/ WorkerStops \/ Fails \/ FirstOom \/ RetryOom \/ Exhausted
          \/ AutoFails \/ AskNobody \/ NobodyToAsk \/ Ask \/ TakeStop \/ TakeRetry \/ Retry

----------------------------------------------------------------------------
(* The main loop and the user.                                              *)

Served(name) == /\ idle # <<>> /\ Head(idle).call = name
                /\ idle' = Tail(idle)

\* oom_choice and _on_oom_choice: a dialog for the operation that runs.
ShowDialog ==
  /\ Served("ask")
  /\ LET r == Head(idle).req IN
       IF Current(Head(idle).op) /\ dialog = 0
       THEN dialog' = r /\ asks' = [asks EXCEPT ![r].view = "open"]
       ELSE Refuse(r) /\ UNCHANGED dialog
  /\ UNCHANGED <<fixed, op, runs, target, closing, pc, stopped, job>>

\* A response of the dialog, closing it included (its close response is Stop).
Choose(r, choice) ==
  /\ asks[r].view = "open"
  /\ choice = "export" => asks[r].canExport
  /\ choice = "retry" => asks[r].canRetry
  /\ IF Current(asks[r].op) /\ target
     THEN asks' = [asks EXCEPT ![r] = Finish(@, choice)] /\ DropDialog(r)
     ELSE asks' = [asks EXCEPT ![r] = Finish(@, "stop")] /\ UNCHANGED dialog
  /\ UNCHANGED <<fixed, op, runs, target, closing, idle, pc, stopped, job>>

\* The closed signal that follows a response.
Closed(r) ==
  /\ asks[r].view = "settled"
  /\ asks' = [asks EXCEPT ![r] = [Finish(@, "stop") EXCEPT !.view = "closed"]]
  /\ UNCHANGED <<fixed, window, idle, pc, stopped, job>>

\* _on_complete, _on_error, _on_stopped: _restore_idle_controls force-closes the
\* dialog, whose closed handler finds no running target.
ServeEnded ==
  /\ Served("ended")
  /\ IF Current(Head(idle).op)
     THEN /\ op' = 0 /\ target' = FALSE /\ dialog' = 0
          /\ asks' = [r \in DOMAIN asks |->
                        IF r = dialog THEN [Finish(asks[r], "stop") EXCEPT !.view = "closed"]
                        ELSE asks[r]]
     ELSE UNCHANGED <<op, target, dialog, asks>>
  /\ UNCHANGED <<fixed, runs, closing, pc, stopped, job>>

\* A confirmed stop, or the first half of a confirmed quit.
Stop ==
  /\ op # 0 /\ target /\ ~stopped
  /\ stopped' = TRUE
  /\ UNCHANGED <<fixed, window, asks, idle, pc, job>>

\* _confirm_shutdown_stop, or closing a window in which nothing runs.
ShutDown ==
  /\ bound /\ ~closing /\ (op = 0 \/ stopped)
  /\ closing' = TRUE /\ op' = 0 /\ target' = FALSE
  /\ UNCHANGED <<fixed, runs, dialog, asks, idle, pc, stopped, job>>

MainLoop == ShowDialog \/ ServeEnded
User     == \E r \in DOMAIN asks : \E choice \in Choices : Choose(r, choice)

Next == \/ StartRun \/ Worker \/ MainLoop \/ User \/ Stop \/ ShutDown
        \/ \E r \in DOMAIN asks : Closed(r)

Spec == Init /\ [][Next]_vars

\* The worker thread and the main loop go on, and the user answers a dialog.
FairSpec == Spec /\ WF_vars(Worker) /\ WF_vars(MainLoop) /\ WF_vars(User)

----------------------------------------------------------------------------
(* Properties.                                                              *)

\* A worker that waits for a choice can still be given one: its request is on its
\* way to the main loop, or its dialog is open, or it is answered, or the run is
\* being stopped.  Code: the poll of request_oom_choice has no timeout.
WaiterHasAnswerer ==
  pc = "wait" =>
    LET r == Len(asks) IN
      \/ stopped \/ asks[r].reply # "none"
      \/ asks[r].view = "open"
      \/ \E i \in DOMAIN idle : idle[i].call = "ask" /\ idle[i].req = r

\* The request of the run that goes on never finds an older dialog in its way, for
\* which _on_oom_choice would stop the run without asking.
NoAskBehindDialog ==
  \A i \in DOMAIN idle :
    idle[i].call = "ask" /\ Current(idle[i].op) => dialog = 0

\* A choice that was given stands: the closed signal that follows every response
\* must not turn Retry into Stop before the worker's next poll reads the box.
ReplyStands ==
  [][\A r \in DOMAIN asks :
       asks[r].reply # "none" => asks'[r].reply = asks[r].reply]_asks

\* Every retry of a call runs at a segment below all those that ran out of memory
\* in it, also after the candidates were exhausted and read again.
RetryShrinks == pc = "infer" => \A c \in failed : Segment < c

\* What an export would save while the user is asked, and what the ensemble will combine:
\* of every model before the one at hand its stem of the file at hand, made of each window
\* once and in order, from no source of another window or file, with every part joined at
\* the place it was cut from; through retries, missing inputs and inputs that failed.
\* Code: before_file and after_model (run_hooks.py:165-317), the loops of
\* run_models_on_files, slice_mix and concat_stems.
WholeTrack(m) ==
  /\ m.parts = [k \in DOMAIN Cut |-> {<<file, k>>}]
  /\ m.joined = Cut
  /\ m.joined[Len(Cut)].to = Mixes[file]

SalvageIsWhole ==
  pc \in {"model", "chunk", "infer", "ask", "wait", "retry"} /\ Ensemble =>
    /\ Len(members) = pos - 1
    /\ \A i \in DOMAIN members : members[i].model = Order[i] /\ WholeTrack(members[i])

\* A run ends, even if every attempt runs out of memory and the user answers Retry
\* as long as it is offered.
RunEnds == \A o \in 1..MaxRuns : (op = o) ~> (op # o)
=============================================================================
