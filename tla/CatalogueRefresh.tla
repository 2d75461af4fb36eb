-------------------------- MODULE CatalogueRefresh --------------------------
(***************************************************************************)
(* core/remote_catalog_cache.py (RemoteJsonSource: one source, its content  *)
(* in memory, its one request at a time) and core/catalogue_coordinator.py  *)
(* (CatalogueCoordinator: loads of all sources, coalesced forced refreshes, *)
(* and the publication of snapshots built from their contents).  Threads:   *)
(* the callers of refresh, the background thread that a stale load starts   *)
(* for a source, and one thread per source of a forced refresh.  A content  *)
(* is its version; the sources have been loaded from disk.  A snapshot is   *)
(* the contents it was built from and the report it carries; a report is    *)
(* what came of the sources, in the order in which it came.                 *)
(***************************************************************************)
EXTENDS Naturals, Sequences, FiniteSets

CONSTANTS Sources, Callers, Versions,
          OnDisk,       \* the version that was loaded
          MaxCalls,     \* bound: refreshes
          MaxChanges,   \* bound: changes of what a server serves
          MaxFetches,   \* bound: background requests
          MaxFaults     \* bound: failed requests, waits of 120 s, and the close

None     == "none"
NoReport == {}       \* a report is {results}
Failed   == 0        \* no version

ASSUME CatalogueAssumption ==
  /\ Versions \subseteq Nat \ {Failed} /\ OnDisk \in Versions
  /\ {MaxCalls, MaxChanges, MaxFetches, MaxFaults} \subseteq Nat
  /\ Sources \cap Callers = {}

Pullers == Callers \X Sources      \* the threads of the forced refresh of a caller
Publishers == Callers \cup Sources \* callers, and background threads by their source

VARIABLES served,     \* the version that each server has
          content,    \* _state.content, by source
          error,      \* whether _state.status.error is set
          flight,     \* _flight and _flight_force, by source, and the stage of the request
          calls,      \* the callers
          pullers,    \* the threads of forced refreshes
          pub,        \* _publish, by thread
          snapshots,  \* _snapshots
          latest,     \* _latest
          lastReport, \* _last_report
          pending,    \* _pending_force: the caller that owns it
          closed,     \* _closed
          budget,     \* what is left of the bounds
          why         \* ghost: why the latest snapshot may not be of the contents

vars == <<served, content, error, flight, calls, pullers, pub, snapshots, latest,
          lastReport, pending, closed, budget, why>>

NoFlight  == [force |-> FALSE, stage |-> "none", got |-> Failed, ok |-> FALSE]
NoPuller  == [pc |-> "none", forced |-> FALSE, fresh |-> FALSE, late |-> FALSE]
Resting   == [pc |-> "idle", todo |-> {}, results |-> <<>>]
NoPublish == [stage |-> "none", of |-> <<>>, report |-> NoReport, snap |-> None]
Loaded    == [of |-> [s \in Sources |-> OnDisk], report |-> NoReport]

Init ==
  /\ served = [s \in Sources |-> OnDisk]
  /\ content = Loaded.of /\ error = [s \in Sources |-> FALSE]
  /\ flight = [s \in Sources |-> NoFlight]
  /\ calls = [c \in Callers |-> Resting] /\ pullers = [t \in Pullers |-> NoPuller]
  /\ pub = [p \in Publishers |-> NoPublish]
  /\ snapshots = {Loaded} /\ latest = Loaded /\ lastReport = NoReport
  /\ pending = None /\ closed = FALSE /\ why = {}
  /\ budget = [calls |-> MaxCalls, changes |-> MaxChanges, fetches |-> MaxFetches,
               faults |-> MaxFaults]

Spend(what) == budget[what] > 0 /\ budget' = [budget EXCEPT ![what] = @ - 1]

Serve ==
  /\ Spend("changes")
  /\ \E s \in Sources, v \in Versions : v # served[s] /\ served' = [served EXCEPT ![s] = v]
  /\ UNCHANGED <<content, error, flight, calls, pullers, pub, snapshots, latest, lastReport,
                 pending, closed, why>>

----------------------------------------------------------------------------
(* A request of a source: its owner is the background thread or a puller.   *)

Flying(s, stage) == flight[s].stage = stage

\* _fetch, up to the answer.
Ask(s) ==
  /\ Flying(s, "ask")
  /\ \/ ~closed /\ flight' = [flight EXCEPT ![s].stage = "answer", ![s].got = served[s]]
        /\ UNCHANGED budget
     \/ ~closed /\ Spend("faults")
        /\ flight' = [flight EXCEPT ![s].stage = "answer", ![s].got = Failed]
     \/ closed /\ UNCHANGED budget
        /\ flight' = [flight EXCEPT ![s].stage = IF flight[s].force THEN "set" ELSE "notify"]
  /\ UNCHANGED <<served, content, error, calls, pullers, pub, snapshots, latest, lastReport,
                 pending, closed, why>>

\* Those whose thread is past its part of the publication.
GoneOn(c) == calls[c].pc # "join" /\ pub[c].stage # "look"

\* _publish_content, or _mark_failure.
Answer(s) ==
  /\ Flying(s, "answer")
  /\ LET ok == flight[s].got # Failed IN
       /\ content' = IF ok THEN [content EXCEPT ![s] = flight[s].got] ELSE content
       /\ error' = [error EXCEPT ![s] = ~ok]
       /\ pullers' = [t \in Pullers |->
            [pullers[t] EXCEPT !.fresh = @ \/ (ok /\ t[2] = s /\ pullers[t].pc # "none")]]
       /\ flight' = [flight EXCEPT ![s].stage = IF flight[s].force THEN "set" ELSE "notify", ![s].ok = ok]
  /\ why' = IF /\ content' # content
               /\ \E c \in Callers : pullers[<<c, s>>].pc = "own" /\ GoneOn(c)
            THEN why \cup {"orphaned"} ELSE why
  /\ UNCHANGED <<served, calls, pub, snapshots, latest, lastReport, pending, closed, budget>>

\* A mutant: only a forced refresh makes the callback publish.
DeafUnforced == closed \/ lastReport = NoReport

\* No callback any more.
Deaf == closed

\* _notify_update and _on_source_updated.
Notify(s) ==
  /\ Flying(s, "notify")
  /\ flight' = [flight EXCEPT ![s].stage = IF Deaf THEN "set" ELSE "publish"]
  /\ pub' = IF Deaf THEN pub
            ELSE [pub EXCEPT ![s] = [NoPublish EXCEPT !.stage = "look", !.report = lastReport]]
  /\ UNCHANGED <<served, content, error, calls, pullers, snapshots, latest, lastReport,
                 pending, closed, budget, why>>

\* event.set(), after the publication if there was one: who waits for it may go on.
SetEvent(s) ==
  /\ Flying(s, "set") \/ (Flying(s, "publish") /\ pub[s].stage = "done")
  /\ flight' = [flight EXCEPT ![s].stage = "clear"]
  /\ pub' = [pub EXCEPT ![s] = NoPublish]
  /\ pullers' = [t \in Pullers |-> IF t[2] = s /\ pullers[t].pc = "wait"
                                   THEN [pullers[t] EXCEPT !.pc = "woken"] ELSE pullers[t]]
  /\ UNCHANGED <<served, content, error, calls, snapshots, latest, lastReport, pending, closed,
                 budget, why>>

\* _flight is None again; a puller that owned it returns.
ClearFlight(s) ==
  /\ Flying(s, "clear")
  /\ flight' = [flight EXCEPT ![s] = NoFlight]
  /\ pullers' = [t \in Pullers |-> IF t[2] = s /\ pullers[t].pc = "own"
                                   THEN [pullers[t] EXCEPT !.pc = "report"] ELSE pullers[t]]
  /\ UNCHANGED <<served, content, error, calls, pub, snapshots, latest, lastReport,
                 pending, closed, budget, why>>

----------------------------------------------------------------------------
(* _force_fetch, in the threads of a forced refresh.                        *)

Puller(t, pc) == pullers[t].pc = pc

TakeOff(force) ==
  [force |-> force, stage |-> "ask", got |-> Failed, ok |-> FALSE]

\* It starts the request, or joins the one that is under way.
Pull(t) ==
  /\ Puller(t, "load")
  /\ LET s == t[2] IN
       \/ /\ closed
          /\ pullers' = [pullers EXCEPT ![t].pc = "report"] /\ UNCHANGED flight
       \/ /\ ~closed /\ Flying(s, "none")
          /\ flight' = [flight EXCEPT ![s] = TakeOff(TRUE)]
          /\ pullers' = [pullers EXCEPT ![t].pc = "own"]
       \/ /\ ~closed /\ ~Flying(s, "none")
          /\ pullers' = [pullers EXCEPT ![t].forced = flight[s].force,
                           ![t].pc = IF Flying(s, "clear") THEN "woken" ELSE "wait",
                           ![t].fresh = @ \/ (flight[s].ok /\ flight[s].stage \in {"set", "clear"})]
          /\ UNCHANGED flight
  /\ UNCHANGED <<served, content, error, calls, pub, snapshots, latest, lastReport, pending,
                 closed, budget, why>>

\* A mutant: whoever waited takes what there is.
TakesIt(t) == TRUE

\* A narrower request does not do: then the thread asks itself.
Satisfied(t) == pullers[t].forced \/ closed

\* The event is set, or 120 s are over.
Woken(t) ==
  /\ \/ Puller(t, "woken") /\ UNCHANGED budget
     \/ Puller(t, "wait") /\ Spend("faults")
  /\ pullers' = [pullers EXCEPT ![t].pc = IF Satisfied(t) THEN "report" ELSE "load",
                                ![t].late = @ \/ Puller(t, "wait")]
  /\ UNCHANGED <<served, content, error, flight, calls, pub, snapshots, latest, lastReport,
                 pending, closed, why>>

Joined(c) == calls[c].pc \in {"join", "publish"}

\* run_source, after the load; nobody reads it when the refresh has been reported.
Report(t) ==
  /\ Puller(t, "report")
  /\ IF Joined(t[1])
     THEN /\ pullers' = [pullers EXCEPT ![t].pc = "done"]
          /\ calls' = [calls EXCEPT ![t[1]].results = Append(@, <<t[2], ~error[t[2]]>>)]
     ELSE /\ pullers' = [pullers EXCEPT ![t] = NoPuller]
          /\ UNCHANGED calls
  /\ UNCHANGED <<served, content, error, flight, pub, snapshots, latest, lastReport, pending,
                 closed, budget, why>>

----------------------------------------------------------------------------
(* _publish, by any thread.                                                 *)

\* The publication that has been asked for returns the snapshot of a cached digest, unless it
\* carries a report of its own.
Reusable(p) ==
  {x \in snapshots : /\ x.of = content
                     /\ pub[p].report = NoReport \/ x.report = pub[p].report}

\* The contents are read and looked up.
Look(p) ==
  /\ pub[p].stage = "look"
  /\ pub' = [pub EXCEPT ![p] =
       IF closed THEN [@ EXCEPT !.stage = "done", !.snap = latest]
       ELSE IF Reusable(p) # {}
            THEN [@ EXCEPT !.stage = "done", !.snap = CHOOSE x \in Reusable(p) : TRUE]
            ELSE [@ EXCEPT !.stage = "build", !.of = content]]
  /\ why' = IF ~closed /\ Reusable(p) # {} /\ latest.of # content
            THEN why \cup {"reused"} ELSE why
  /\ UNCHANGED <<served, content, error, flight, calls, pullers, snapshots, latest, lastReport,
                 pending, closed, budget>>

\* What the publication of a snapshot leaves to be wondered at.
Doubts(x) == IF x.of = content THEN {} ELSE why \cup {"overtaken"}

Filed(x) == {y \in snapshots : y.of # x.of} \cup {x}

\* The snapshot is built, and becomes the latest; the delta is sent.
Publish(p) ==
  /\ pub[p].stage = "build"
  /\ LET x == [of |-> pub[p].of, report |-> pub[p].report] IN
       /\ snapshots' = Filed(x) /\ latest' = x /\ why' = Doubts(x)
       /\ pub' = [pub EXCEPT ![p].stage = "done", ![p].snap = x]
  /\ UNCHANGED <<served, content, error, flight, calls, pullers, lastReport, pending, closed,
                 budget>>

----------------------------------------------------------------------------
(* refresh, by a caller.                                                    *)

Call(c, pc) == calls[c].pc = pc

\* Stale while revalidate, or offline.
StartStale(c) ==
  /\ Call(c, "idle") /\ ~closed /\ Spend("calls")
  /\ calls' = [calls EXCEPT ![c] = [Resting EXCEPT !.pc = "load", !.todo = Sources]]
  /\ UNCHANGED <<served, content, error, flight, pullers, pub, snapshots, latest, lastReport,
                 pending, closed, why>>

\* load: a stale content (whether it is, and the backoff, are a matter of time) is asked for
\* in the background, when the source has no request under way.
Load(c) ==
  /\ Call(c, "load")
  /\ \E s \in calls[c].todo :
       /\ calls' = [calls EXCEPT ![c].todo = @ \ {s},
                                 ![c].pc = IF calls[c].todo = {s} THEN "show" ELSE "load"]
       /\ pub' = IF calls[c].todo = {s} THEN [pub EXCEPT ![c].stage = "look"] ELSE pub
       /\ \/ UNCHANGED <<flight, budget>>
          \/ /\ ~closed /\ Flying(s, "none") /\ Spend("fetches")
             /\ flight' = [flight EXCEPT ![s] = TakeOff(FALSE)]
  /\ UNCHANGED <<served, content, error, pullers, snapshots, latest, lastReport, pending,
                 closed, why>>

Shown(c) ==
  /\ Call(c, "show") /\ pub[c].stage = "done"
  /\ calls' = [calls EXCEPT ![c] = Resting] /\ pub' = [pub EXCEPT ![c] = NoPublish]
  /\ UNCHANGED <<served, content, error, flight, pullers, snapshots, latest, lastReport, pending,
                 closed, budget, why>>

\* _coalesced_force: one forced refresh at a time; a thread for every source.
StartForce(c) ==
  /\ Call(c, "idle") /\ ~closed /\ Spend("calls")
  /\ \A s \in Sources : Puller(<<c, s>>, "none")   \* bound
  /\ IF pending = None
     THEN /\ pending' = c
          /\ calls' = [calls EXCEPT ![c] = [Resting EXCEPT !.pc = "join"]]
          /\ pullers' = [t \in Pullers |-> IF t[1] = c THEN [NoPuller EXCEPT !.pc = "load"]
                                           ELSE pullers[t]]
     ELSE /\ calls' = [calls EXCEPT ![c] = [Resting EXCEPT !.pc = "await"]]
          /\ UNCHANGED <<pending, pullers>>
  /\ UNCHANGED <<served, content, error, flight, pub, snapshots, latest, lastReport, closed, why>>

\* The event of the other's refresh is set, or 120 s are over.
Await(c) ==
  /\ Call(c, "await")
  /\ IF pending = None \/ closed THEN UNCHANGED budget ELSE Spend("faults")
  /\ calls' = [calls EXCEPT ![c] = Resting]
  /\ UNCHANGED <<served, content, error, flight, pullers, pub, snapshots, latest, lastReport,
                 pending, closed, why>>

\* The threads are joined, or 120 s are over.
Join(c) ==
  /\ Call(c, "join")
  /\ IF \A s \in Sources : Puller(<<c, s>>, "done") THEN UNCHANGED budget ELSE Spend("faults")
  /\ calls' = [calls EXCEPT ![c].pc = "publish"]
  /\ pub' = [pub EXCEPT ![c].stage = "look"]
  /\ UNCHANGED <<served, content, error, flight, pullers, snapshots, latest, lastReport, pending,
                 closed, why>>

\* The snapshot with its report is the latest.
Stamp(c) ==
  /\ Call(c, "publish") /\ pub[c].stage = "done"
  /\ LET x == [of |-> pub[c].snap.of, report |-> {calls[c].results}] IN
       snapshots' = Filed(x) /\ latest' = x /\ why' = Doubts(x)
  /\ calls' = [calls EXCEPT ![c].pc = "stamped"] /\ pub' = [pub EXCEPT ![c] = NoPublish]
  /\ pullers' = [t \in Pullers |-> IF t[1] = c /\ Puller(t, "done") THEN NoPuller ELSE pullers[t]]
  /\ UNCHANGED <<served, content, error, flight, lastReport, pending, closed, budget>>

\* The report is the last, and the event is set.
Finish(c) ==
  /\ Call(c, "stamped")
  /\ lastReport' = {calls[c].results} /\ pending' = None
  /\ calls' = [calls EXCEPT ![c] = Resting]
  /\ UNCHANGED <<served, content, error, flight, pullers, pub, snapshots, latest, closed, budget,
                 why>>

Close ==
  /\ ~closed /\ closed' = TRUE /\ Spend("faults")
  /\ UNCHANGED <<served, content, error, flight, calls, pullers, pub, snapshots, latest,
                 lastReport, pending, why>>

----------------------------------------------------------------------------
Quiet == /\ \A s \in Sources : Flying(s, "none")
         /\ \A c \in Callers : Call(c, "idle")
         /\ \A t \in Pullers : Puller(t, "none")

Finished == Quiet /\ UNCHANGED vars

Request(s) == Ask(s) \/ Answer(s) \/ Notify(s) \/ SetEvent(s) \/ ClearFlight(s)
Pulling(t) == Pull(t) \/ Woken(t) \/ Report(t)
Calling(c) == \/ StartStale(c) \/ Load(c) \/ Shown(c)
              \/ StartForce(c) \/ Await(c) \/ Join(c) \/ Stamp(c) \/ Finish(c)

Next == \/ \E s \in Sources : Request(s)
        \/ \E t \in Pullers : Pulling(t)
        \/ \E p \in Publishers : Look(p) \/ Publish(p)
        \/ \E c \in Callers : Calling(c)
        \/ Serve \/ Close \/ Finished

Spec == Init /\ [][Next]_vars

----------------------------------------------------------------------------
(* Properties.                                                              *)

\* A source that a forced refresh reports as succeeded has answered since the refresh began,
\* to its own request or to one it joined: neither a narrower refresh that had already
\* its answer, nor the status an earlier one left, passes for it.  (Not so when the
\* coordinator is closed, or the wait for another's forced request takes 120 s.)
SucceededIsFresh ==
  \A c \in Callers, s \in Sources :
    LET t == <<c, s>> IN
      /\ Puller(t, "done") /\ ~closed /\ ~pullers[t].late
      /\ \E i \in DOMAIN calls[c].results : calls[c].results[i] = <<s, TRUE>>
      => pullers[t].fresh

\* When nothing is under way, the latest snapshot is of what the sources hold, but for three
\* reasons: the publication of older contents came last, a snapshot of these contents
\* was found in the cache and handed out without becoming the latest again, or a source
\* answered a forced refresh that no longer waited for it.
StaleHasReason ==
  Quiet /\ ~closed /\ latest.of # content => why # {}

\* core/catalogue_coordinator.py publishes again when a background request ends
\* (tests/test_catalogue_coordinator.py:855-867): when both have ended, in any order,
\* the latest snapshot has the contents of both.
LatestCatchesUp ==
  (Quiet /\ ~closed) => latest.of = content
=============================================================================
