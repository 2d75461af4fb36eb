-------------------------- MODULE CatalogueProofs ---------------------------
(* Theorems about CatalogueRefresh, for every set of sources and callers and any *)
(* number of refreshes, background requests, changes of the servers and faults.  *)
EXTENDS CatalogueRefresh, TLAPS

PullerRecs == [pc : {"none", "load", "own", "wait", "woken", "report", "done"},
               forced : BOOLEAN, fresh : BOOLEAN, late : BOOLEAN]
FlightRecs == [force : BOOLEAN, ok : BOOLEAN, got : Versions \cup {Failed},
               stage : {"none", "ask", "answer", "notify", "publish", "set", "clear"}]
CallRecs   == [pc : {"idle", "load", "show", "join", "await", "publish", "stamped"},
               todo : SUBSET Sources, results : Seq(Sources \X BOOLEAN)]

ServerTypes == served \in [Sources -> Versions]
ErrorTypes  == error \in [Sources -> BOOLEAN] /\ closed \in BOOLEAN
FlightTypes == flight \in [Sources -> FlightRecs]
PullerTypes == pullers \in [Pullers -> PullerRecs]
CallTypes   == calls \in [Callers -> CallRecs]

Types == ServerTypes /\ ErrorTypes /\ FlightTypes /\ PullerTypes /\ CallTypes

----------------------------------------------------------------------------
(* A result is of its source, or there is a reason that it is not.              *)

\* The source has answered since the refresh began, or has an error to report.
Good(t) == pullers[t].fresh \/ error[t[2]] \/ pullers[t].late \/ closed

\* The request that will tell is still to come.
Underway(s) == flight[s].stage \in {"ask", "answer"}

Knows(t) == /\ Puller(t, "own") => Underway(t[2]) \/ Good(t)
            /\ Puller(t, "wait") /\ pullers[t].forced => Underway(t[2]) \/ Good(t)
            /\ Puller(t, "woken") /\ pullers[t].forced => Good(t)
            /\ Puller(t, "report") => Good(t)

\* A forced request that has ended and was not answered has left an error.
Ended(s) ==
  /\ flight[s].stage \in {"notify", "publish"} => ~flight[s].force
  /\ flight[s].stage \in {"set", "clear"} /\ flight[s].force /\ ~flight[s].ok
       => error[s] \/ closed

\* There is one result of a source: that of the thread which is done.
OneResult(c, s) ==
  Joined(c) /\ ~Puller(<<c, s>>, "done") =>
    \A i \in DOMAIN calls[c].results : calls[c].results[i][1] # s

\* What SucceededIsFresh says of one source.
Succeeded(c, s) == \E i \in DOMAIN calls[c].results : calls[c].results[i] = <<s, TRUE>>
IsFresh(c, s) ==
  Puller(<<c, s>>, "done") /\ Succeeded(c, s) =>
    closed \/ pullers[<<c, s>>].late \/ pullers[<<c, s>>].fresh

IInv == /\ Types
        /\ \A t \in Pullers : Knows(t)
        /\ \A s \in Sources : Ended(s)
        /\ \A c \in Callers, s \in Sources : OneResult(c, s) /\ IsFresh(c, s)

----------------------------------------------------------------------------
LEMMA PullerFacts == \A t \in Pullers : /\ t[1] \in Callers /\ t[2] \in Sources
                                        /\ t = <<t[1], t[2]>>
  BY DEF Pullers

LEMMA InitTypes == Init => Types
  <1> SUFFICES ASSUME Init PROVE Types
    OBVIOUS
  <1> USE DEF Init
  <1>1. ServerTypes /\ ErrorTypes
    BY CatalogueAssumption DEF ServerTypes, ErrorTypes
  <1>2. FlightTypes
    BY DEF FlightTypes, NoFlight, FlightRecs, Failed
  <1>3. PullerTypes
    BY DEF PullerTypes, NoPuller, PullerRecs
  <1>4. CallTypes
    BY DEF CallTypes, Resting, CallRecs
  <1> QED BY <1>1, <1>2, <1>3, <1>4 DEF Types

\* What each step leaves alone.
LEMMA RequestFrame ==
  ASSUME NEW s \in Sources, Request(s)
  PROVE  UNCHANGED <<served, calls, closed>>
  BY DEF Request, Ask, Answer, Notify, SetEvent, ClearFlight

LEMMA CallingFrame ==
  ASSUME NEW c \in Callers, Calling(c) PROVE UNCHANGED <<served, error, closed>>
  BY DEF Calling, StartStale, Load, Shown, StartForce, Await, Join, Stamp, Finish

LEMMA StepServerTypes == Types /\ [Next]_vars => ServerTypes' /\ ErrorTypes'
  <1> SUFFICES ASSUME Types, [Next]_vars PROVE ServerTypes' /\ ErrorTypes'
    OBVIOUS
  <1> USE DEF Types, ServerTypes, ErrorTypes
  <1>1. ASSUME NEW s \in Sources, Request(s) PROVE ServerTypes' /\ ErrorTypes'
    <2>1. CASE Answer(s)
      <3>1. UNCHANGED <<served, closed>>
            /\ error' = [error EXCEPT ![s] = ~(flight[s].got # Failed)]
        BY <2>1 DEF Answer
      <3> QED BY <3>1
    <2>2. CASE ~Answer(s)
      BY <1>1, <2>2 DEF Request, Ask, Notify, SetEvent, ClearFlight
    <2> QED BY <2>1, <2>2
  <1>2. ASSUME NEW t \in Pullers, Pulling(t) PROVE UNCHANGED <<served, error, closed>>
    BY <1>2 DEF Pulling, Pull, Woken, Report
  <1>3. ASSUME NEW p \in Publishers, Look(p) \/ Publish(p)
        PROVE  UNCHANGED <<served, error, closed>>
    BY <1>3 DEF Look, Publish
  <1>4. CASE Serve
    BY <1>4 DEF Serve
  <1>5. CASE Close
    BY <1>5 DEF Close
  <1>6. CASE Finished \/ UNCHANGED vars
    BY <1>6 DEF Finished, vars
  <1> QED BY <1>1, <1>2, <1>3, <1>4, <1>5, <1>6, CallingFrame DEF Next

LEMMA StepFlightTypes == Types /\ [Next]_vars => FlightTypes'
  <1> SUFFICES ASSUME Types, [Next]_vars PROVE FlightTypes'
    OBVIOUS
  <1> USE CatalogueAssumption DEF Types, FlightTypes
  <1>0. NoFlight \in FlightRecs /\ TakeOff(TRUE) \in FlightRecs /\ TakeOff(FALSE) \in FlightRecs
    BY DEF NoFlight, TakeOff, FlightRecs, Failed
  <1>1. ASSUME NEW s \in Sources, Request(s) PROVE FlightTypes'
    <2>1. CASE Ask(s)
      <3>1. served[s] \in Versions
        BY DEF ServerTypes
      <3> QED BY <2>1, <3>1 DEF Ask, FlightRecs
    <2>2. CASE Answer(s)
      <3>1. \E b \in BOOLEAN, x \in {"set", "notify"} :
              flight' = [flight EXCEPT ![s].stage = x, ![s].ok = b]
        <4> DEFINE b == flight[s].got # Failed
                   x == IF flight[s].force THEN "set" ELSE "notify"
        <4>1. flight' = [flight EXCEPT ![s].stage = x, ![s].ok = b]
          BY <2>2 DEF Answer
        <4>2. b \in BOOLEAN /\ x \in {"set", "notify"}
          OBVIOUS
        <4> HIDE DEF b, x
        <4> QED BY <4>1, <4>2
      <3>2. PICK b \in BOOLEAN, x \in {"set", "notify"} :
              flight' = [flight EXCEPT ![s].stage = x, ![s].ok = b]
        BY <3>1
      <3>3. [flight[s] EXCEPT !.stage = x, !.ok = b] \in FlightRecs
        BY DEF FlightRecs
      <3>4. flight' = [flight EXCEPT ![s] = [flight[s] EXCEPT !.stage = x, !.ok = b]]
        BY <3>2
      <3> QED BY <3>3, <3>4
    <2>3. CASE Notify(s)
      BY <2>3 DEF Notify, FlightRecs
    <2>4. CASE SetEvent(s)
      BY <2>4 DEF SetEvent, FlightRecs
    <2>5. CASE ClearFlight(s)
      BY <1>0, <2>5 DEF ClearFlight
    <2> QED BY <1>1, <2>1, <2>2, <2>3, <2>4, <2>5 DEF Request
  <1>2. ASSUME NEW t \in Pullers, Pulling(t) PROVE FlightTypes'
    BY <1>0, <1>2, PullerFacts DEF Pulling, Pull, Woken, Report
  <1>3. ASSUME NEW p \in Publishers, Look(p) \/ Publish(p) PROVE UNCHANGED flight
    BY <1>3 DEF Look, Publish
  <1>4. ASSUME NEW c \in Callers, Calling(c) PROVE FlightTypes'
    <2>1. CASE Load(c)
      <3>1. calls[c].todo \subseteq Sources
        BY DEF CallTypes, CallRecs
      <3> QED BY <1>0, <2>1, <3>1 DEF Load
    <2>2. CASE ~Load(c)
      BY <1>4, <2>2 DEF Calling, StartStale, Shown, StartForce, Await, Join, Stamp, Finish
    <2> QED BY <2>1, <2>2
  <1>5. CASE Serve \/ Close \/ Finished \/ UNCHANGED vars
    BY <1>5 DEF Serve, Close, Finished, vars
  <1> QED BY <1>1, <1>2, <1>3, <1>4, <1>5 DEF Next

LEMMA StepPullerTypes == Types /\ [Next]_vars => PullerTypes'
  <1> SUFFICES ASSUME Types, [Next]_vars PROVE PullerTypes'
    OBVIOUS
  <1> USE DEF Types, PullerTypes
  <1>0. NoPuller \in PullerRecs /\ [NoPuller EXCEPT !.pc = "load"] \in PullerRecs
    BY DEF NoPuller, PullerRecs
  <1>1. ASSUME NEW s \in Sources, Request(s) PROVE PullerTypes'
    <2>1. CASE Answer(s)
      BY <2>1 DEF Answer, PullerRecs
    <2>2. CASE SetEvent(s) \/ ClearFlight(s)
      BY <2>2 DEF SetEvent, ClearFlight, PullerRecs
    <2>3. CASE Ask(s) \/ Notify(s)
      BY <2>3 DEF Ask, Notify
    <2> QED BY <1>1, <2>1, <2>2, <2>3 DEF Request
  <1>2. ASSUME NEW t \in Pullers, Pulling(t) PROVE PullerTypes'
    <2>0. flight[t[2]].force \in BOOLEAN /\ flight[t[2]].ok \in BOOLEAN
      BY PullerFacts DEF FlightTypes, FlightRecs
    <2>1. CASE Pull(t)
      <3>1. \/ UNCHANGED pullers
            \/ \E x \in {"own", "report"} : pullers' = [pullers EXCEPT ![t].pc = x]
            \/ \E x \in {"wait", "woken"}, b \in BOOLEAN, d \in BOOLEAN :
                 pullers' = [pullers EXCEPT ![t].forced = b, ![t].pc = x, ![t].fresh = d]
        <4>1. CASE closed \/ Flying(t[2], "none")
          BY <2>1, <4>1 DEF Pull
        <4>2. CASE ~closed /\ ~Flying(t[2], "none")
          <5> DEFINE x == IF Flying(t[2], "clear") THEN "woken" ELSE "wait"
                     d == pullers[t].fresh \/ (flight[t[2]].ok /\
                            flight[t[2]].stage \in {"set", "clear"})
          <5>1. pullers' = [pullers EXCEPT ![t].forced = flight[t[2]].force, ![t].pc = x,
                                           ![t].fresh = d]
            BY <2>1, <4>2 DEF Pull
          <5>2. x \in {"wait", "woken"} /\ d \in BOOLEAN
            OBVIOUS
          <5> HIDE DEF x, d
          <5> QED BY <2>0, <5>1, <5>2
        <4> QED BY <4>1, <4>2
      <3>2. CASE \E x \in {"wait", "woken"}, b \in BOOLEAN, d \in BOOLEAN :
                 pullers' = [pullers EXCEPT ![t].forced = b, ![t].pc = x, ![t].fresh = d]
        <4>1. PICK x \in {"wait", "woken"}, b \in BOOLEAN, d \in BOOLEAN :
                 pullers' = [pullers EXCEPT ![t].forced = b, ![t].pc = x, ![t].fresh = d]
          BY <3>2
        <4>2. [pullers[t] EXCEPT !.forced = b, !.pc = x, !.fresh = d] \in PullerRecs
          BY DEF PullerRecs
        <4>3. pullers' = [pullers EXCEPT ![t] = [pullers[t] EXCEPT !.forced = b, !.pc = x,
                                                                   !.fresh = d]]
          BY <4>1
        <4> QED BY <4>2, <4>3
      <3>3. CASE \E x \in {"own", "report"} : pullers' = [pullers EXCEPT ![t].pc = x]
        BY <3>3 DEF PullerRecs
      <3> QED BY <3>1, <3>2, <3>3
    <2>2. CASE Woken(t)
      <3> DEFINE d == pullers[t].late \/ Puller(t, "wait")
                 x == IF Satisfied(t) THEN "report" ELSE "load"
      <3>1. pullers' = [pullers EXCEPT ![t].pc = x, ![t].late = d]
        BY <2>2 DEF Woken
      <3>2. x \in {"report", "load"} /\ d \in BOOLEAN
        OBVIOUS
      <3> HIDE DEF x, d
      <3> QED BY <3>1, <3>2 DEF PullerRecs
    <2>3. CASE Report(t)
      BY <1>0, <2>3 DEF Report, PullerRecs
    <2> QED BY <1>2, <2>1, <2>2, <2>3 DEF Pulling
  <1>3. ASSUME NEW p \in Publishers, Look(p) \/ Publish(p) PROVE UNCHANGED pullers
    BY <1>3 DEF Look, Publish
  <1>4. ASSUME NEW c \in Callers, Calling(c) PROVE PullerTypes'
    <2>1. CASE StartForce(c) \/ Stamp(c)
      BY <1>0, <2>1 DEF StartForce, Stamp
    <2>2. CASE ~StartForce(c) /\ ~Stamp(c)
      BY <1>4, <2>2 DEF Calling, StartStale, Load, Shown, Await, Join, Finish
    <2> QED BY <2>1, <2>2
  <1>5. CASE Serve \/ Close \/ Finished \/ UNCHANGED vars
    BY <1>5 DEF Serve, Close, Finished, vars
  <1> QED BY <1>1, <1>2, <1>3, <1>4, <1>5 DEF Next

LEMMA StepCallTypes == Types /\ [Next]_vars => CallTypes'
  <1> SUFFICES ASSUME Types, [Next]_vars PROVE CallTypes'
    OBVIOUS
  <1> USE DEF Types, CallTypes
  <1>0. Resting \in CallRecs
        /\ \A k \in {"await", "join"} : [Resting EXCEPT !.pc = k] \in CallRecs
        /\ [Resting EXCEPT !.pc = "load", !.todo = Sources] \in CallRecs
    <2>1. <<>> \in Seq(Sources \X BOOLEAN) /\ {} \subseteq Sources
      OBVIOUS
    <2> HIDE DEF Types, CallTypes
    <2> QED BY <2>1 DEF Resting, CallRecs
  <1>1. ASSUME NEW t \in Pullers, Pulling(t) PROVE CallTypes'
    <2>1. CASE Report(t)
      <3>1. error[t[2]] \in BOOLEAN /\ <<t[2], ~error[t[2]]>> \in Sources \X BOOLEAN
        BY PullerFacts DEF ErrorTypes
      <3>2. calls[t[1]] \in CallRecs /\ calls[t[1]].results \in Seq(Sources \X BOOLEAN)
        BY PullerFacts DEF CallRecs
      <3>3. Append(calls[t[1]].results, <<t[2], ~error[t[2]]>>) \in Seq(Sources \X BOOLEAN)
        BY <3>1, <3>2
      <3>4. [calls[t[1]] EXCEPT !.results = Append(@, <<t[2], ~error[t[2]]>>)] \in CallRecs
        BY <3>2, <3>3 DEF CallRecs
      <3> QED BY <2>1, <3>4 DEF Report
    <2>2. CASE Pull(t) \/ Woken(t)
      BY <2>2 DEF Pull, Woken
    <2> QED BY <1>1, <2>1, <2>2 DEF Pulling
  <1>2. ASSUME NEW p \in Publishers, Look(p) \/ Publish(p) PROVE UNCHANGED calls
    BY <1>2 DEF Look, Publish
  <1>3. ASSUME NEW c \in Callers, Calling(c) PROVE CallTypes'
    <2>1. CASE StartStale(c) \/ StartForce(c) \/ Shown(c) \/ Await(c) \/ Finish(c)
      BY <1>0, <2>1 DEF StartStale, StartForce, Shown, Await, Finish
    <2>2. CASE Load(c)
      <3>1. PICK s \in calls[c].todo :
              calls' = [calls EXCEPT ![c].todo = @ \ {s},
                          ![c].pc = IF calls[c].todo = {s} THEN "show" ELSE "load"]
        BY <2>2 DEF Load
      <3>2. calls[c] \in CallRecs
        OBVIOUS
      <3>3. [calls[c] EXCEPT !.todo = @ \ {s},
                             !.pc = IF calls[c].todo = {s} THEN "show" ELSE "load"] \in CallRecs
        BY <3>2 DEF CallRecs
      <3> QED BY <3>1, <3>3
    <2>3. CASE Join(c)
      BY <2>3 DEF Join, CallRecs
    <2>4. CASE Stamp(c)
      BY <2>4 DEF Stamp, CallRecs
    <2> QED BY <1>3, <2>1, <2>2, <2>3, <2>4 DEF Calling
  <1>4. CASE Serve \/ Close \/ Finished \/ UNCHANGED vars
    BY <1>4 DEF Serve, Close, Finished, vars
  <1> QED BY <1>1, <1>2, <1>3, <1>4, RequestFrame DEF Next

\* The threads, requests and callers keep their shape, and the results their sources.
THEOREM TypeCorrect == Spec => []Types
  <1>1. Types /\ [Next]_vars => Types'
    BY StepServerTypes, StepFlightTypes, StepPullerTypes, StepCallTypes DEF Types
  <1> QED BY <1>1, InitTypes, PTL DEF Spec

----------------------------------------------------------------------------
LEMMA InitIInv == Init => IInv
  <1> SUFFICES ASSUME Init PROVE IInv
    OBVIOUS
  <1>1. \A t \in Pullers : Knows(t)
    BY DEF Init, Knows, Puller, NoPuller
  <1>2. \A s \in Sources : Ended(s)
    BY DEF Init, Ended, NoFlight
  <1>3. \A c \in Callers, s \in Sources : OneResult(c, s) /\ IsFresh(c, s)
    BY DEF Init, OneResult, IsFresh, Joined, Resting, Puller, NoPuller, Pullers
  <1> QED BY <1>1, <1>2, <1>3, InitTypes DEF IInv

\* What leaves a thread where it is, and takes nothing from it.
LEMMA KnowsStays ==
  ASSUME NEW t \in Pullers, Knows(t),
         pullers'[t].pc = pullers[t].pc, pullers'[t].forced = pullers[t].forced,
         Good(t) => Good(t)', Underway(t[2]) => Underway(t[2])' \/ Good(t)'
  PROVE  Knows(t)'
  BY DEF Knows, Puller

\* What leaves the results, and the threads that have given them, as they are.
LEMMA ResultsStay ==
  ASSUME NEW c \in Callers, NEW s \in Sources, OneResult(c, s), IsFresh(c, s),
         calls'[c].results = calls[c].results, Joined(c)' => Joined(c),
         Puller(<<c, s>>, "done") <=> Puller(<<c, s>>, "done")',
         pullers[<<c, s>>].late => pullers'[<<c, s>>].late,
         pullers[<<c, s>>].fresh => pullers'[<<c, s>>].fresh,
         closed => closed'
  PROVE  OneResult(c, s)' /\ IsFresh(c, s)'
  BY DEF OneResult, IsFresh, Succeeded

\* The steps of a request.
LEMMA RequestKnows ==
  ASSUME IInv, NEW s \in Sources, Request(s), NEW t \in Pullers
  PROVE  /\ Knows(t)'
         /\ Puller(t, "done") <=> Puller(t, "done")'
         /\ pullers[t].late => pullers'[t].late
         /\ pullers[t].fresh => pullers'[t].fresh
  <1> USE PullerFacts DEF IInv, Types
  <1>0. UNCHANGED closed
    BY RequestFrame
  <1>1. CASE Ask(s)
    <2>1. UNCHANGED <<pullers, error>>
      BY <1>1 DEF Ask
    <2>2. Underway(t[2]) => Underway(t[2])' \/ closed
      BY <1>1 DEF Ask, Underway, FlightTypes, FlightRecs
    <2> QED BY <1>0, <2>1, <2>2, KnowsStays DEF Good, Puller
  <1>2. CASE Answer(s)
    <2> DEFINE ok == flight[s].got # Failed
    <2>1. pullers'[t] = [pullers[t] EXCEPT !.fresh =
                           @ \/ (ok /\ t[2] = s /\ pullers[t].pc # "none")]
      BY <1>2 DEF Answer
    <2>2. /\ pullers'[t].pc = pullers[t].pc /\ pullers'[t].forced = pullers[t].forced
          /\ pullers'[t].late = pullers[t].late
          /\ pullers'[t].fresh = (pullers[t].fresh \/ (ok /\ t[2] = s /\ pullers[t].pc # "none"))
      BY <2>1 DEF PullerTypes, PullerRecs
    <2>3. error' = [error EXCEPT ![s] = ~ok]
      BY <1>2 DEF Answer
    <2>4. CASE t[2] = s
      <3>1. pullers[t].pc # "none" => pullers'[t].fresh \/ error'[t[2]]
        BY <2>2, <2>3, <2>4 DEF ErrorTypes
      <3>2. Knows(t)'
        BY <2>2, <3>1 DEF Knows, Puller, Good
      <3> QED BY <2>2, <3>2 DEF Puller
    <2>5. CASE t[2] # s
      <3>1. error'[t[2]] = error[t[2]]
        BY <2>3, <2>5 DEF ErrorTypes
      <3>2. Underway(t[2]) => Underway(t[2])'
        BY <1>2, <2>5 DEF Answer, Underway, FlightTypes
      <3> QED BY <1>0, <2>2, <3>1, <3>2, KnowsStays DEF Good, Puller
    <2> QED BY <2>4, <2>5
  <1>3. CASE Notify(s)
    <2>1. UNCHANGED <<pullers, error>>
      BY <1>3 DEF Notify
    <2>2. Underway(t[2]) => Underway(t[2])'
      BY <1>3 DEF Notify, Underway, Flying, FlightTypes
    <2> QED BY <1>0, <2>1, <2>2, KnowsStays DEF Good, Puller
  <1>4. CASE SetEvent(s)
    <2>1. pullers'[t] = IF t[2] = s /\ pullers[t].pc = "wait"
                        THEN [pullers[t] EXCEPT !.pc = "woken"] ELSE pullers[t]
      BY <1>4 DEF SetEvent
    <2>2. UNCHANGED error /\ ~Underway(s)
      BY <1>4 DEF SetEvent, Underway, Flying
    <2>3. Underway(t[2]) => Underway(t[2])'
      BY <1>4, <2>2 DEF SetEvent, Underway, FlightTypes
    <2>4. CASE t[2] = s /\ pullers[t].pc = "wait"
      <3>1. /\ pullers'[t].pc = "woken" /\ pullers'[t].forced = pullers[t].forced
            /\ pullers'[t].fresh = pullers[t].fresh /\ pullers'[t].late = pullers[t].late
        BY <2>1, <2>4 DEF PullerTypes, PullerRecs
      <3>2. Knows(t)'
        BY <1>0, <2>2, <2>4, <3>1 DEF Knows, Puller, Good
      <3> QED BY <2>4, <3>1, <3>2 DEF Puller
    <2>5. CASE ~(t[2] = s /\ pullers[t].pc = "wait")
      BY <1>0, <2>1, <2>2, <2>3, <2>5, KnowsStays DEF Good, Puller
    <2> QED BY <2>4, <2>5
  <1>5. CASE ClearFlight(s)
    <2>1. pullers'[t] = IF t[2] = s /\ pullers[t].pc = "own"
                        THEN [pullers[t] EXCEPT !.pc = "report"] ELSE pullers[t]
      BY <1>5 DEF ClearFlight
    <2>2. UNCHANGED error /\ ~Underway(s)
      BY <1>5 DEF ClearFlight, Underway, Flying
    <2>3. Underway(t[2]) => Underway(t[2])'
      BY <1>5, <2>2 DEF ClearFlight, Underway, FlightTypes
    <2>4. CASE t[2] = s /\ pullers[t].pc = "own"
      <3>1. /\ pullers'[t].pc = "report"
            /\ pullers'[t].fresh = pullers[t].fresh /\ pullers'[t].late = pullers[t].late
        BY <2>1, <2>4 DEF PullerTypes, PullerRecs
      <3>2. Knows(t)'
        BY <1>0, <2>2, <2>4, <3>1 DEF Knows, Puller, Good
      <3> QED BY <2>4, <3>1, <3>2 DEF Puller
    <2>5. CASE ~(t[2] = s /\ pullers[t].pc = "own")
      BY <1>0, <2>1, <2>2, <2>3, <2>5, KnowsStays DEF Good, Puller
    <2> QED BY <2>4, <2>5
  <1> QED BY <1>1, <1>2, <1>3, <1>4, <1>5 DEF Request

LEMMA RequestEnded ==
  ASSUME IInv, NEW s \in Sources, Request(s), NEW q \in Sources PROVE Ended(q)'
  <1> USE DEF IInv, Types
  <1>0. UNCHANGED closed
    BY RequestFrame
  <1>1. CASE q # s
    <2>1. flight'[q] = flight[q]
      BY <1>1 DEF Request, Ask, Answer, Notify, SetEvent, ClearFlight, FlightTypes
    <2>2. error'[q] = error[q]
      BY <1>1 DEF Request, Ask, Answer, Notify, SetEvent, ClearFlight, ErrorTypes
    <2> QED BY <1>0, <2>1, <2>2 DEF Ended
  <1>2. CASE q = s /\ Ask(s)
    <2>1. CASE closed
      <3>1. flight' = [flight EXCEPT ![s].stage = IF flight[s].force THEN "set" ELSE "notify"]
        BY <1>2, <2>1 DEF Ask
      <3>2. /\ flight'[s].stage = IF flight[s].force THEN "set" ELSE "notify"
            /\ flight'[s].force = flight[s].force
        BY <3>1 DEF FlightTypes, FlightRecs
      <3> QED BY <1>0, <1>2, <2>1, <3>2 DEF Ended
    <2>2. CASE ~closed
      <3>1. flight'[s].stage = "answer"
        BY <1>2, <2>2 DEF Ask, FlightTypes, FlightRecs
      <3> QED BY <1>2, <3>1 DEF Ended
    <2> QED BY <2>1, <2>2
  <1>3. CASE q = s /\ Answer(s)
    <2> DEFINE ok == flight[s].got # Failed
    <2>1. /\ flight' = [flight EXCEPT ![s].stage = IF flight[s].force THEN "set" ELSE "notify",
                                      ![s].ok = ok]
          /\ error' = [error EXCEPT ![s] = ~ok]
      BY <1>3 DEF Answer
    <2>2. /\ flight'[s].stage = IF flight[s].force THEN "set" ELSE "notify"
          /\ flight'[s].force = flight[s].force /\ flight'[s].ok = ok
          /\ error'[s] = ~ok
      BY <2>1 DEF FlightTypes, FlightRecs, ErrorTypes
    <2> HIDE DEF ok
    <2> QED BY <1>3, <2>2 DEF Ended
  <1>4. CASE q = s /\ Notify(s)
    <2>1. /\ flight'[s].stage \in {"set", "publish"} /\ flight'[s].force = flight[s].force
          /\ flight[s].stage = "notify"
      BY <1>4 DEF Notify, Flying, FlightTypes, FlightRecs
    <2> QED BY <1>4, <2>1 DEF Ended
  <1>5. CASE q = s /\ SetEvent(s)
    <2>1. /\ flight'[s].stage = "clear" /\ flight'[s].force = flight[s].force
          /\ flight'[s].ok = flight[s].ok /\ flight[s].stage \in {"set", "publish"}
          /\ UNCHANGED error
      BY <1>5 DEF SetEvent, Flying, FlightTypes, FlightRecs
    <2> QED BY <1>0, <1>5, <2>1 DEF Ended
  <1>6. CASE q = s /\ ClearFlight(s)
    <2>1. flight'[s].stage = "none"
      BY <1>6 DEF ClearFlight, NoFlight, FlightTypes
    <2> QED BY <1>6, <2>1 DEF Ended
  <1> QED BY <1>1, <1>2, <1>3, <1>4, <1>5, <1>6 DEF Request

LEMMA RequestIInv == ASSUME IInv, NEW s \in Sources, Request(s) PROVE
                     /\ \A t \in Pullers : Knows(t)'
                     /\ \A q \in Sources : Ended(q)'
                     /\ \A c \in Callers, q \in Sources : OneResult(c, q)' /\ IsFresh(c, q)'
  <1>1. \A t \in Pullers : Knows(t)'
    BY RequestKnows
  <1>2. \A q \in Sources : Ended(q)'
    BY RequestEnded
  <1>3. ASSUME NEW c \in Callers, NEW q \in Sources
        PROVE  OneResult(c, q)' /\ IsFresh(c, q)'
    <2>1. <<c, q>> \in Pullers
      BY DEF Pullers
    <2>2. UNCHANGED <<calls, closed>>
      BY RequestFrame
    <2> QED BY <2>1, <2>2, RequestKnows, ResultsStay DEF IInv, Joined
  <1> QED BY <1>1, <1>2, <1>3

\* The steps of a thread of a forced refresh.
LEMMA PullIInv == ASSUME IInv, NEW t \in Pullers, Pull(t) PROVE
                  /\ \A u \in Pullers : Knows(u)'
                  /\ \A q \in Sources : Ended(q)'
                  /\ \A c \in Callers, q \in Sources : OneResult(c, q)' /\ IsFresh(c, q)'
  <1> USE PullerFacts DEF IInv, Types
  <1> DEFINE s == t[2]
  <1>0. UNCHANGED <<error, closed, calls>> /\ Puller(t, "load") /\ s \in Sources
        /\ \A u \in Pullers \ {t} : pullers'[u] = pullers[u]
    BY DEF Pull, PullerTypes
  <1>1. /\ pullers'[t].pc \in {"own", "wait", "woken", "report"}
        /\ \A q \in Sources : flight'[q] = flight[q]
                              \/ (flight[q].stage = "none" /\ flight'[q].stage = "ask")
    <2>1. CASE closed
      BY <2>1 DEF Pull, PullerTypes, PullerRecs
    <2>2. CASE ~closed /\ Flying(s, "none")
      BY <2>2 DEF Pull, PullerTypes, PullerRecs, Flying, TakeOff, FlightTypes
    <2>3. CASE ~closed /\ ~Flying(s, "none")
      <3>1. UNCHANGED flight
        BY <2>3 DEF Pull
      <3>2. pullers'[t].pc = IF Flying(s, "clear") THEN "woken" ELSE "wait"
        <4> DEFINE pc == IF Flying(s, "clear") THEN "woken" ELSE "wait"
                   ok == pullers[t].fresh \/ (flight[s].ok /\ flight[s].stage \in {"set", "clear"})
        <4>1. pullers[t] \in PullerRecs /\ t \in DOMAIN pullers
          BY DEF PullerTypes
        <4>2. pullers' = [pullers EXCEPT ![t].forced = flight[s].force, ![t].pc = pc,
                                         ![t].fresh = ok]
          BY <2>3 DEF Pull
        <4> HIDE DEF pc, ok
        <4>3. pullers'[t].pc = pc
          BY <4>1, <4>2 DEF PullerRecs
        <4> QED BY <4>3 DEF pc
      <3> QED BY <3>1, <3>2
    <2> QED BY <2>1, <2>2, <2>3
  <1>2. Knows(t)'
    <2>1. CASE closed
      BY <1>0, <2>1 DEF Knows, Good
    <2>2. CASE ~closed /\ Flying(s, "none")
      <3>1. pullers'[t].pc = "own" /\ flight'[s].stage = "ask"
        BY <2>2 DEF Pull, PullerTypes, PullerRecs, Flying, TakeOff, FlightTypes
      <3> QED BY <3>1 DEF Knows, Puller, Underway
    <2>3. CASE ~closed /\ ~Flying(s, "none")
      <3> DEFINE fresh == pullers[t].fresh \/ (flight[s].ok /\ flight[s].stage \in {"set", "clear"})
      <3>1. UNCHANGED flight
            /\ pullers' = [pullers EXCEPT ![t].forced = flight[s].force,
                             ![t].pc = IF Flying(s, "clear") THEN "woken" ELSE "wait",
                             ![t].fresh = fresh]
        BY <2>3 DEF Pull
      <3>2. /\ pullers'[t].forced = flight[s].force /\ pullers'[t].fresh = fresh
            /\ pullers'[t].pc = IF Flying(s, "clear") THEN "woken" ELSE "wait"
        BY <3>1 DEF PullerTypes, PullerRecs
      <3>3. flight[s].stage \in {"ask", "answer", "notify", "publish", "set", "clear"}
        BY <1>0, <2>3 DEF FlightTypes, FlightRecs, Flying
      <3>4. flight[s].force /\ ~Underway(s) => fresh \/ error[s] \/ closed
        BY <1>0, <3>3 DEF Ended, Underway
      <3>5. Flying(s, "clear") => ~Underway(s)
        BY DEF Flying, Underway
      <3> HIDE DEF fresh
      <3> QED BY <1>0, <3>1, <3>2, <3>4, <3>5 DEF Knows, Puller, Good, Underway
    <2> QED BY <2>1, <2>2, <2>3
  <1>3. ASSUME NEW u \in Pullers \ {t} PROVE Knows(u)'
    BY <1>0, <1>1, <1>3, KnowsStays DEF Good, Underway
  <1>4. ASSUME NEW q \in Sources PROVE Ended(q)'
    BY <1>0, <1>1, <1>4 DEF Ended
  <1>5. ASSUME NEW c \in Callers, NEW q \in Sources
        PROVE  OneResult(c, q)' /\ IsFresh(c, q)'
    <2>0. <<c, q>> \in Pullers
      BY DEF Pullers
    <2>1. CASE <<c, q>> # t
      BY <1>0, <2>0, <2>1, ResultsStay DEF Puller, Joined
    <2>2. CASE <<c, q>> = t
      BY <1>0, <1>1, <2>2 DEF OneResult, IsFresh, Puller, Joined
    <2> QED BY <2>1, <2>2
  <1> QED BY <1>2, <1>3, <1>4, <1>5

LEMMA WokenIInv == ASSUME IInv, NEW t \in Pullers, Woken(t) PROVE
                   /\ \A u \in Pullers : Knows(u)'
                   /\ \A q \in Sources : Ended(q)'
                   /\ \A c \in Callers, q \in Sources : OneResult(c, q)' /\ IsFresh(c, q)'
  <1> USE PullerFacts DEF IInv, Types
  <1> DEFINE late == pullers[t].late \/ Puller(t, "wait")
  <1>1. UNCHANGED <<error, closed, calls, flight>> /\ (Puller(t, "woken") \/ Puller(t, "wait"))
        /\ pullers' = [pullers EXCEPT ![t].pc = IF Satisfied(t) THEN "report" ELSE "load",
                                      ![t].late = late]
    BY DEF Woken
  <1>2. /\ pullers'[t].pc = IF Satisfied(t) THEN "report" ELSE "load"
        /\ pullers'[t].late = late /\ pullers'[t].fresh = pullers[t].fresh
        /\ \A u \in Pullers \ {t} : pullers'[u] = pullers[u]
    BY <1>1 DEF PullerTypes, PullerRecs
  <1>3. Satisfied(t) => late \/ closed \/ Good(t)
    BY <1>1 DEF Satisfied, Knows
  <1>4. Good(t) => pullers[t].fresh \/ error[t[2]] \/ late \/ closed
    BY DEF Good
  <1> HIDE DEF late
  <1>5. Knows(t)'
    BY <1>1, <1>2, <1>3, <1>4 DEF Knows, Puller, Good
  <1>6. ASSUME NEW u \in Pullers \ {t} PROVE Knows(u)'
    BY <1>1, <1>2, <1>6, KnowsStays DEF Good, Underway
  <1>7. \A q \in Sources : Ended(q)'
    BY <1>1 DEF Ended
  <1>8. ASSUME NEW c \in Callers, NEW q \in Sources
        PROVE  OneResult(c, q)' /\ IsFresh(c, q)'
    <2>0. <<c, q>> \in Pullers
      BY DEF Pullers
    <2>1. CASE <<c, q>> # t
      <3>1. pullers'[<<c, q>>] = pullers[<<c, q>>]
        BY <1>2, <2>0, <2>1
      <3>2. OneResult(c, q) /\ IsFresh(c, q)
        OBVIOUS
      <3> HIDE DEF IInv, Types
      <3> QED BY <1>1, <3>1, <3>2, ResultsStay DEF Puller, Joined
    <2>2. CASE <<c, q>> = t
      <3>1. ~Puller(<<c, q>>, "done") /\ ~Puller(<<c, q>>, "done")'
        <4>1. pullers[t].pc \in {"woken", "wait"}
          BY <1>1 DEF Puller
        <4>2. pullers'[t].pc \in {"report", "load"}
          BY <1>2
        <4> HIDE DEF IInv
        <4> QED BY <2>2, <4>1, <4>2 DEF Puller
      <3> QED BY <1>1, <3>1 DEF OneResult, IsFresh, Joined
    <2> QED BY <2>1, <2>2
  <1> QED BY <1>5, <1>6, <1>7, <1>8

LEMMA ReportIInv == ASSUME IInv, NEW t \in Pullers, Report(t) PROVE
                    /\ \A u \in Pullers : Knows(u)'
                    /\ \A q \in Sources : Ended(q)'
                    /\ \A c \in Callers, q \in Sources : OneResult(c, q)' /\ IsFresh(c, q)'
  <1> USE PullerFacts DEF IInv, Types
  <1> DEFINE result == <<t[2], ~error[t[2]]>>
  <1>1. UNCHANGED <<error, closed, flight>> /\ Puller(t, "report")
        /\ \A u \in Pullers \ {t} : pullers'[u] = pullers[u]
    BY DEF Report, PullerTypes
  <1>2. pullers'[t].pc \in {"done", "none"}
    BY DEF Report, PullerTypes, PullerRecs, NoPuller
  <1>3. Knows(t)'
    BY <1>2 DEF Knows, Puller
  <1>4. ASSUME NEW u \in Pullers \ {t} PROVE Knows(u)'
    BY <1>1, <1>4, KnowsStays DEF Good, Underway
  <1>5. \A q \in Sources : Ended(q)'
    BY <1>1 DEF Ended
  <1>6. ASSUME NEW c \in Callers, NEW q \in Sources
        PROVE  OneResult(c, q)' /\ IsFresh(c, q)'
    <2>0. <<c, q>> \in Pullers
      BY DEF Pullers
    <2>1. CASE c # t[1] \/ ~Joined(t[1])
      <3>1. calls'[c].results = calls[c].results /\ calls'[c].pc = calls[c].pc
        BY <2>1 DEF Report, CallTypes, CallRecs
      <3>2. CASE <<c, q>> # t
        BY <1>1, <2>0, <3>1, <3>2, ResultsStay DEF Puller, Joined
      <3>3. CASE <<c, q>> = t
        <4>1. ~Joined(c)' /\ pullers'[t].pc = "none"
          BY <2>1, <3>1, <3>3 DEF Report, Joined, PullerTypes, NoPuller
        <4> QED BY <3>3, <4>1 DEF OneResult, IsFresh, Puller
      <3> QED BY <3>2, <3>3
    <2>2. CASE c = t[1] /\ Joined(t[1])
      <3>1. calls[c].results \in Seq(Sources \X BOOLEAN)
        BY DEF CallTypes, CallRecs
      <3>2. result \in Sources \X BOOLEAN
        BY DEF ErrorTypes
      <3>3. calls'[c].results = Append(calls[c].results, result)
        BY <2>2 DEF Report, CallTypes, CallRecs
      <3>4. \A i \in DOMAIN calls'[c].results :
              \/ calls'[c].results[i] = result
              \/ i \in DOMAIN calls[c].results /\ calls'[c].results[i] = calls[c].results[i]
        <4> HIDE DEF result
        <4> QED BY <3>1, <3>2, <3>3
      <3>5. pullers'[t].pc = "done" /\ pullers'[t].fresh = pullers[t].fresh
            /\ pullers'[t].late = pullers[t].late
        BY <2>2 DEF Report, PullerTypes, PullerRecs
      <3>6. CASE q = t[2]
        <4>1. \A i \in DOMAIN calls[c].results : calls[c].results[i][1] # q
          BY <1>1, <2>0, <2>2, <3>6 DEF OneResult, Puller
        <4>2. Succeeded(c, q)' => ~error[q]
          <5>1. SUFFICES ASSUME NEW i \in DOMAIN calls'[c].results,
                                calls'[c].results[i] = <<q, TRUE>>
                         PROVE  ~error[q]
            BY DEF Succeeded
          <5>2. <<q, TRUE>>[1] = q /\ <<q, TRUE>>[2] = TRUE
                /\ result[2] = (~error[t[2]])
            OBVIOUS
          <5>3. calls'[c].results[i] = result
            <6> HIDE DEF result, IInv, Types
            <6>1. CASE calls'[c].results[i] = result
              BY <6>1
            <6>2. CASE i \in DOMAIN calls[c].results /\ calls'[c].results[i] = calls[c].results[i]
              BY <4>1, <5>1, <5>2, <6>2
            <6> QED BY <3>4, <5>1, <6>1, <6>2
          <5> HIDE DEF result
          <5>4. result[2] = TRUE
            BY <5>1, <5>2, <5>3
          <5> QED BY <3>6, <5>2, <5>4
        <4>3. Good(t)
          BY <1>1 DEF Knows
        <4> QED BY <1>1, <2>2, <3>5, <3>6, <4>2, <4>3 DEF OneResult, IsFresh, Good, Puller
      <3>7. CASE q # t[2]
        <4>1. pullers'[<<c, q>>] = pullers[<<c, q>>]
          BY <1>1, <2>0, <3>7
        <4>2. OneResult(c, q)'
          <5>1. ~Puller(<<c, q>>, "done") =>
                  \A i \in DOMAIN calls[c].results : calls[c].results[i][1] # q
            BY <2>2 DEF OneResult
          <5> QED BY <3>4, <3>7, <4>1, <5>1 DEF OneResult, Puller
        <4>3. Succeeded(c, q)' => Succeeded(c, q)
          <5>1. result[1] # q /\ <<q, TRUE>>[1] = q
            BY <3>7
          <5> HIDE DEF result
          <5> QED BY <3>4, <5>1 DEF Succeeded
        <4> QED BY <1>1, <4>1, <4>2, <4>3 DEF IsFresh, Puller
      <3> QED BY <3>6, <3>7
    <2> QED BY <2>1, <2>2
  <1> QED BY <1>3, <1>4, <1>5, <1>6

\* The steps of a caller.
LEMMA CallingIInv == ASSUME IInv, NEW c \in Callers, Calling(c) PROVE
                     /\ \A t \in Pullers : Knows(t)'
                     /\ \A s \in Sources : Ended(s)'
                     /\ \A d \in Callers, s \in Sources : OneResult(d, s)' /\ IsFresh(d, s)'
  <1> USE PullerFacts DEF IInv, Types
  <1>0. UNCHANGED <<error, closed>>
    BY CallingFrame
  <1>1. \A q \in Sources : flight'[q] = flight[q]
                           \/ (flight[q].stage = "none" /\ flight'[q].stage = "ask")
    <2>1. CASE Load(c)
      BY <2>1 DEF Load, Flying, TakeOff, FlightTypes
    <2>2. CASE ~Load(c)
      BY <2>2 DEF Calling, StartStale, Shown, StartForce, Await, Join, Stamp, Finish
    <2> QED BY <2>1, <2>2
  <1>2. \A t \in Pullers : \/ pullers'[t] = pullers[t]
                           \/ t[1] = c /\ pullers'[t].pc \in {"load", "none"}
    <2>1. CASE StartForce(c)
      BY <2>1 DEF StartForce, NoPuller
    <2>2. CASE Stamp(c)
      BY <2>2 DEF Stamp, NoPuller
    <2>3. CASE ~StartForce(c) /\ ~Stamp(c)
      BY <2>3 DEF Calling, StartStale, Load, Shown, Await, Join, Finish
    <2> QED BY <2>1, <2>2, <2>3
  <1>3. \A d \in Callers \ {c} : calls'[d] = calls[d]
    BY DEF Calling, StartStale, Load, Shown, StartForce, Await, Join, Stamp, Finish, CallTypes
  <1>4. \/ calls'[c].results = <<>>
        \/ /\ calls'[c].results = calls[c].results
           /\ ~Joined(c)' \/ (Joined(c) /\ UNCHANGED pullers)
    <2>1. CASE StartStale(c) \/ Shown(c) \/ StartForce(c) \/ Await(c) \/ Finish(c)
      <3>1. calls'[c].results = Resting.results
        <4>1. CASE StartStale(c)
          BY <4>1 DEF StartStale, Resting, CallTypes
        <4>2. CASE StartForce(c)
          BY <4>2 DEF StartForce, Resting, CallTypes
        <4>3. CASE Shown(c) \/ Await(c) \/ Finish(c)
          BY <4>3 DEF Shown, Await, Finish, CallTypes
        <4> QED BY <2>1, <4>1, <4>2, <4>3
      <3> QED BY <3>1 DEF Resting
    <2>2. CASE Load(c)
      <3>1. PICK s \in calls[c].todo :
              calls' = [calls EXCEPT ![c].todo = @ \ {s},
                          ![c].pc = IF calls[c].todo = {s} THEN "show" ELSE "load"]
        BY <2>2 DEF Load
      <3>2. calls'[c].results = calls[c].results /\ calls'[c].pc \in {"show", "load"}
        BY <3>1 DEF CallTypes, CallRecs
      <3> QED BY <3>2 DEF Joined
    <2>3. CASE Join(c)
      BY <2>3 DEF Join, Joined, Call, CallTypes, CallRecs
    <2>4. CASE Stamp(c)
      BY <2>4 DEF Stamp, Joined, CallTypes, CallRecs
    <2> QED BY <2>1, <2>2, <2>3, <2>4 DEF Calling
  <1>5. ASSUME NEW t \in Pullers PROVE Knows(t)'
    <2>1. CASE pullers'[t] = pullers[t]
      BY <1>0, <1>1, <2>1, KnowsStays DEF Good, Underway
    <2>2. CASE pullers'[t].pc \in {"load", "none"}
      BY <2>2 DEF Knows, Puller
    <2> QED BY <1>2, <2>1, <2>2
  <1>6. ASSUME NEW q \in Sources PROVE Ended(q)'
    BY <1>0, <1>1, <1>6 DEF Ended
  <1>7. ASSUME NEW d \in Callers \ {c}, NEW s \in Sources
        PROVE  OneResult(d, s)' /\ IsFresh(d, s)'
    <2>1. <<d, s>> \in Pullers /\ <<d, s>>[1] # c
      BY DEF Pullers
    <2> QED BY <1>0, <1>2, <1>3, <2>1, ResultsStay DEF Puller, Joined
  <1>8. ASSUME NEW s \in Sources PROVE OneResult(c, s)' /\ IsFresh(c, s)'
    <2>1. <<c, s>> \in Pullers
      BY DEF Pullers
    <2>2. CASE calls'[c].results = <<>>
      BY <2>2 DEF OneResult, IsFresh, Succeeded
    <2>3. CASE /\ calls'[c].results = calls[c].results
               /\ ~Joined(c)' \/ (Joined(c) /\ UNCHANGED pullers)
      <3>1. OneResult(c, s)'
        BY <2>3 DEF OneResult, Puller
      <3>2. IsFresh(c, s)'
        BY <1>0, <1>2, <2>1, <2>3 DEF IsFresh, Puller, Succeeded
      <3> QED BY <3>1, <3>2
    <2> QED BY <1>4, <2>2, <2>3
  <1> QED BY <1>3, <1>5, <1>6, <1>7, <1>8

LEMMA StepIInv == IInv /\ [Next]_vars => IInv'
  <1> SUFFICES ASSUME IInv, [Next]_vars PROVE IInv'
    OBVIOUS
  <1>1. Types'
    BY StepServerTypes, StepFlightTypes, StepPullerTypes, StepCallTypes DEF Types, IInv
  <1>2. ASSUME UNCHANGED <<error, flight, calls, pullers>>, closed => closed'
        PROVE  /\ \A t \in Pullers : Knows(t)'
               /\ \A s \in Sources : Ended(s)'
               /\ \A c \in Callers, s \in Sources : OneResult(c, s)' /\ IsFresh(c, s)'
    <2>1. \A t \in Pullers : Knows(t)'
      BY <1>2 DEF IInv, Knows, Puller, Good, Underway
    <2>2. \A s \in Sources : Ended(s)'
      BY <1>2 DEF IInv, Ended
    <2>3. \A c \in Callers, s \in Sources : OneResult(c, s)' /\ IsFresh(c, s)'
      BY <1>2 DEF IInv, OneResult, IsFresh, Succeeded, Puller, Joined
    <2> QED BY <2>1, <2>2, <2>3
  <1>3. CASE Serve \/ Close \/ Finished \/ UNCHANGED vars
    <2>1. UNCHANGED <<error, flight, calls, pullers>> /\ (closed => closed')
      BY <1>3 DEF Serve, Close, Finished, vars
    <2> QED BY <1>1, <1>2, <2>1 DEF IInv
  <1>4. ASSUME NEW p \in Publishers, Look(p) \/ Publish(p) PROVE IInv'
    <2>1. UNCHANGED <<error, flight, calls, pullers>> /\ (closed => closed')
      BY <1>4 DEF Look, Publish
    <2> QED BY <1>1, <1>2, <2>1 DEF IInv
  <1>5. ASSUME NEW s \in Sources, Request(s) PROVE IInv'
    BY <1>1, <1>5, RequestIInv DEF IInv
  <1>6. ASSUME NEW t \in Pullers, Pulling(t) PROVE IInv'
    <2>1. CASE Pull(t)
      BY <1>1, <2>1, PullIInv DEF IInv
    <2>2. CASE Woken(t)
      BY <1>1, <2>2, WokenIInv DEF IInv
    <2>3. CASE Report(t)
      BY <1>1, <2>3, ReportIInv DEF IInv
    <2> QED BY <1>6, <2>1, <2>2, <2>3 DEF Pulling
  <1>7. ASSUME NEW c \in Callers, Calling(c) PROVE IInv'
    BY <1>1, <1>7, CallingIInv DEF IInv
  <1> QED BY <1>3, <1>4, <1>5, <1>6, <1>7 DEF Next

\* A source that a forced refresh reports as succeeded has answered since it began, unless
\* the coordinator was closed or a wait of 120 s ran out (catalogue_coordinator.py:348-419,
\* remote_catalog_cache.py:313-341): however the requests of threads overlap.
THEOREM SucceededIsFreshHolds == Spec => []SucceededIsFresh
  <1>1. IInv => SucceededIsFresh
    BY DEF IInv, IsFresh, Succeeded, SucceededIsFresh
  <1> QED BY <1>1, InitIInv, StepIInv, PTL DEF Spec

----------------------------------------------------------------------------
(* The latest snapshot catches up with the contents, or there is a reason.      *)

Contents  == [Sources -> Versions]
Reports   == SUBSET Seq(Sources \X BOOLEAN)
Snapshots == [of : Contents, report : Reports]
PubRecs   == [stage : {"none", "look", "build", "done"}, of : Contents \cup {<<>>},
              report : Reports, snap : Snapshots \cup {None}]

\* A thread is in _publish at its place in the code, and returns with a snapshot.
InPlace ==
  /\ \A s \in Sources : pub[s].stage # "none" <=> Flying(s, "publish")
  /\ \A c \in Callers : pub[c].stage # "none" <=> calls[c].pc \in {"show", "publish"}

Drafts == \A p \in Publishers : /\ pub[p].stage = "build" => pub[p].of \in Contents
                                /\ pub[p].stage = "done" => pub[p].snap \in Snapshots

PubTypes == /\ content \in Contents /\ latest \in Snapshots /\ snapshots \subseteq Snapshots
            /\ lastReport \in Reports /\ pub \in [Publishers -> PubRecs] /\ Drafts

\* A forced request is the one of a puller.
Owned == \A s \in Sources : ~Flying(s, "none") /\ flight[s].force =>
           \E c \in Callers : Puller(<<c, s>>, "own")

\* Somebody will still publish what the sources hold.
Due == \/ \E s \in Sources : Flying(s, "notify")
       \/ \E c \in Callers : Call(c, "join")
       \/ \E p \in Publishers : \/ pub[p].stage = "look"
                                \/ pub[p].stage = "build" /\ pub[p].of = content

CatchesUp == latest.of # content /\ ~closed /\ why = {} => Due

UInv == Types /\ PubTypes /\ InPlace /\ Owned /\ CatchesUp

LEMMA Threads == Sources \subseteq Publishers /\ Callers \subseteq Publishers
                 /\ \A s \in Sources, c \in Callers : s # c
  BY CatalogueAssumption DEF Publishers

LEMMA InitUInv == Init => UInv
  <1> SUFFICES ASSUME Init PROVE UInv
    OBVIOUS
  <1>1. Loaded \in Snapshots /\ Loaded.of \in Contents
    BY CatalogueAssumption DEF Loaded, Snapshots, Contents, Reports, NoReport
  <1>2. NoReport \in Reports /\ NoPublish \in PubRecs
    BY DEF NoReport, Reports, NoPublish, PubRecs
  <1>3. PubTypes
    BY <1>1, <1>2 DEF Init, PubTypes, Drafts, NoPublish
  <1>4. InPlace /\ Owned /\ CatchesUp
    BY Threads DEF Init, InPlace, Owned, CatchesUp, Flying, NoFlight, NoPublish, Resting, Loaded
  <1> QED BY <1>3, <1>4, InitTypes DEF UInv

\* The steps of a request.
LEMMA RequestUInv == ASSUME UInv, NEW s \in Sources, Request(s)
                     PROVE  PubTypes' /\ InPlace' /\ Owned' /\ CatchesUp'
  <1> USE Threads, PullerFacts DEF UInv, Types
  <1>0. /\ UNCHANGED <<latest, snapshots, lastReport, calls, closed>>
        /\ ~Flying(s, "none") /\ \A q \in Sources \ {s} : flight'[q] = flight[q]
    BY DEF Request, Ask, Answer, Notify, SetEvent, ClearFlight, FlightTypes, Flying
  <1>1. flight'[s].force => flight[s].force
    BY DEF Request, Ask, Answer, Notify, SetEvent, ClearFlight, FlightTypes, FlightRecs, NoFlight
  <1>2. ASSUME NEW c \in Callers, NEW q \in Sources, Puller(<<c, q>>, "own"), ~Flying(q, "none")'
        PROVE  Puller(<<c, q>>, "own")'
    <2>0. <<c, q>> \in Pullers /\ <<c, q>>[2] = q
      BY DEF Pullers
    <2>1. CASE Ask(s) \/ Notify(s)
      BY <1>2, <2>1 DEF Ask, Notify, Puller
    <2>2. CASE Answer(s)
      BY <1>2, <2>0, <2>2 DEF Answer, Puller, PullerTypes, PullerRecs
    <2>3. CASE SetEvent(s)
      BY <1>2, <2>0, <2>3 DEF SetEvent, Puller
    <2>4. CASE ClearFlight(s)
      BY <1>2, <2>0, <2>4 DEF ClearFlight, Puller, FlightTypes, NoFlight, Flying
    <2> QED BY <2>1, <2>2, <2>3, <2>4 DEF Request
  <1>3. Owned'
    <2> SUFFICES ASSUME NEW q \in Sources, ~Flying(q, "none")', flight'[q].force
                 PROVE  \E c \in Callers : Puller(<<c, q>>, "own")'
      BY DEF Owned
    <2>1. ~Flying(q, "none") /\ flight[q].force
      BY <1>0, <1>1 DEF Flying
    <2> QED BY <1>2, <2>1 DEF Owned
  <1>4. CASE Ask(s)
    <2>1. UNCHANGED <<content, pub, why>> /\ Flying(s, "ask")
          /\ flight'[s].stage \in {"answer", "set", "notify"}
      BY <1>4 DEF Ask, FlightTypes, FlightRecs
    <2>2. PubTypes'
      BY <1>0, <2>1 DEF PubTypes, Drafts
    <2>3. InPlace'
      BY <1>0, <2>1 DEF InPlace, Flying
    <2>4. CatchesUp'
      BY <1>0, <2>1 DEF CatchesUp, Due, Flying, Call
    <2> QED BY <1>3, <2>2, <2>3, <2>4
  <1>5. CASE Answer(s)
    <2> DEFINE next == IF flight[s].force THEN "set" ELSE "notify"
    <2>1. UNCHANGED pub /\ Flying(s, "answer") /\ flight'[s].stage = next
      BY <1>5 DEF Answer, FlightTypes, FlightRecs
    <2>2. content' \in Contents
      BY <1>5 DEF Answer, PubTypes, Contents, FlightTypes, FlightRecs
    <2>3. PubTypes'
      BY <1>0, <2>1, <2>2 DEF PubTypes, Drafts
    <2>4. InPlace'
      BY <1>0, <2>1 DEF InPlace, Flying
    <2>5. CatchesUp'
      <3>1. CASE content' = content
        <4>1. why' = why
          BY <1>5, <3>1 DEF Answer
        <4> QED BY <1>0, <2>1, <3>1, <4>1 DEF CatchesUp, Due, Flying, Call
      <3>2. CASE ~flight[s].force
        BY <2>1, <3>2 DEF CatchesUp, Due, Flying
      <3>3. CASE content' # content /\ flight[s].force
        <4>1. PICK c \in Callers : Puller(<<c, s>>, "own")
          BY <1>0, <3>3 DEF Owned
        <4>2. CASE GoneOn(c)
          <5>1. why' = why \cup {"orphaned"}
            BY <1>5, <3>3, <4>1, <4>2 DEF Answer, Puller
          <5> QED BY <5>1 DEF CatchesUp
        <4>3. CASE ~GoneOn(c)
          BY <1>0, <2>1, <4>3 DEF GoneOn, CatchesUp, Due, Call
        <4> QED BY <4>2, <4>3
      <3> QED BY <3>1, <3>2, <3>3
    <2> QED BY <1>3, <2>3, <2>4, <2>5
  <1>6. CASE Notify(s)
    <2> DEFINE asked == [NoPublish EXCEPT !.stage = "look", !.report = lastReport]
    <2>1. UNCHANGED <<content, why>> /\ Flying(s, "notify")
      BY <1>6 DEF Notify
    <2>2. CASE closed
      <3>1. UNCHANGED pub /\ flight'[s].stage = "set"
        BY <1>6, <2>2 DEF Notify, Deaf, FlightTypes, FlightRecs
      <3>2. PubTypes'
        BY <1>0, <2>1, <3>1 DEF PubTypes, Drafts
      <3>3. InPlace'
        BY <1>0, <2>1, <3>1 DEF InPlace, Flying
      <3>4. CatchesUp'
        BY <1>0, <2>2 DEF CatchesUp
      <3> QED BY <1>3, <3>2, <3>3, <3>4
    <2>3. CASE ~closed
      <3>1. asked \in PubRecs /\ asked.stage = "look"
        BY DEF NoPublish, PubRecs, PubTypes, Reports, NoReport
      <3>2. pub' = [pub EXCEPT ![s] = asked] /\ flight'[s].stage = "publish"
        BY <1>6, <2>3 DEF Notify, Deaf, FlightTypes, FlightRecs
      <3> HIDE DEF asked
      <3>3. pub'[s] = asked /\ \A p \in Publishers \ {s} : pub'[p] = pub[p]
        BY <3>2 DEF PubTypes
      <3>4. Drafts'
        BY <3>1, <3>3 DEF PubTypes, Drafts
      <3>5. PubTypes'
        BY <1>0, <2>1, <3>1, <3>2, <3>4 DEF PubTypes
      <3>6. InPlace'
        BY <1>0, <2>1, <3>1, <3>2, <3>3 DEF InPlace, Flying
      <3>7. CatchesUp'
        BY <3>1, <3>3 DEF CatchesUp, Due
      <3> QED BY <1>3, <3>5, <3>6, <3>7
    <2> QED BY <2>2, <2>3
  <1>7. CASE SetEvent(s)
    <2>1. UNCHANGED <<content, why>> /\ flight'[s].stage = "clear"
          /\ pub' = [pub EXCEPT ![s] = NoPublish]
          /\ pub[s].stage \in {"none", "done"} /\ ~Flying(s, "notify")
      BY <1>7 DEF SetEvent, FlightTypes, FlightRecs, InPlace, Flying
    <2>2. NoPublish \in PubRecs /\ NoPublish.stage = "none"
      BY DEF NoPublish, PubRecs, Reports, NoReport
    <2>3. PubTypes'
      BY <1>0, <2>1, <2>2 DEF PubTypes, Drafts
    <2>4. InPlace'
      BY <1>0, <2>1, <2>2 DEF InPlace, Flying, PubTypes
    <2>5. Due => Due'
      BY <1>0, <2>1, <2>2 DEF Due, PubTypes, Flying, Call
    <2>6. CatchesUp'
      BY <1>0, <2>1, <2>5 DEF CatchesUp
    <2> QED BY <1>3, <2>3, <2>4, <2>6
  <1>8. CASE ClearFlight(s)
    <2>1. UNCHANGED <<content, pub, why>> /\ Flying(s, "clear") /\ flight'[s].stage = "none"
      BY <1>8 DEF ClearFlight, FlightTypes, NoFlight
    <2>2. PubTypes'
      BY <1>0, <2>1 DEF PubTypes, Drafts
    <2>3. InPlace'
      BY <1>0, <2>1 DEF InPlace, Flying
    <2>4. CatchesUp'
      BY <1>0, <2>1 DEF CatchesUp, Due, Flying, Call
    <2> QED BY <1>3, <2>2, <2>3, <2>4
  <1> QED BY <1>4, <1>5, <1>6, <1>7, <1>8 DEF Request

\* The steps of a puller.
LEMMA PullingUInv == ASSUME UInv, NEW t \in Pullers, Pulling(t)
                     PROVE  PubTypes' /\ InPlace' /\ Owned' /\ CatchesUp'
  <1> USE Threads, PullerFacts DEF UInv, Types
  <1>0. /\ UNCHANGED <<content, latest, snapshots, lastReport, pub, closed, why>>
        /\ \A c \in Callers : calls'[c].pc = calls[c].pc
    <2>1. UNCHANGED <<content, latest, snapshots, lastReport, pub, closed, why>>
      BY DEF Pulling, Pull, Woken, Report
    <2>2. UNCHANGED calls \/ \E r : calls' = [calls EXCEPT ![t[1]].results = r]
      BY DEF Pulling, Pull, Woken, Report
    <2>3. ASSUME NEW r, calls' = [calls EXCEPT ![t[1]].results = r], NEW c \in Callers
          PROVE  calls'[c].pc = calls[c].pc
      <3>1. calls'[c] = calls[c] \/ calls'[c] = [calls[c] EXCEPT !.results = r]
        BY <2>3 DEF CallTypes
      <3>2. [calls[c] EXCEPT !.results = r].pc = calls[c].pc
        BY DEF CallTypes, CallRecs
      <3> QED BY <3>1, <3>2
    <2> QED BY <2>1, <2>2, <2>3
  <1>1. PubTypes'
    BY <1>0 DEF PubTypes, Drafts
  <1>2. \A u \in Pullers \ {t} : pullers'[u] = pullers[u]
    BY DEF Pulling, Pull, Woken, Report, PullerTypes
  <1>3. CASE Pull(t)
    <2>1. \A q \in Sources \ {t[2]} : flight'[q] = flight[q]
      BY <1>3 DEF Pull, FlightTypes
    <2>2. \/ UNCHANGED flight
          \/ /\ Flying(t[2], "none") /\ flight'[t[2]].stage = "ask"
             /\ pullers'[t].pc = "own"
      BY <1>3 DEF Pull, FlightTypes, TakeOff, PullerTypes, PullerRecs
    <2>3. \A s \in Sources : flight'[s].stage \in {"notify", "publish"}
                               \/ flight[s].stage \in {"notify", "publish"}
                               => flight'[s].stage = flight[s].stage
      BY <2>1, <2>2 DEF Flying
    <2>4. InPlace' /\ CatchesUp'
      BY <1>0, <2>3 DEF InPlace, CatchesUp, Due, Flying, Call
    <2>5. Owned'
      <3> SUFFICES ASSUME NEW q \in Sources, ~Flying(q, "none")', flight'[q].force
                   PROVE  \E c \in Callers : Puller(<<c, q>>, "own")'
        BY DEF Owned
      <3>1. CASE flight'[q] = flight[q]
        <4>1. PICK c \in Callers : Puller(<<c, q>>, "own")
          BY <3>1 DEF Owned, Flying
        <4>2. <<c, q>> \in Pullers /\ <<c, q>> # t
          BY <1>3, <4>1 DEF Pullers, Pull, Puller
        <4> QED BY <1>2, <4>1, <4>2 DEF Puller
      <3>2. CASE q = t[2] /\ pullers'[t].pc = "own"
        <4>1. t = <<t[1], q>> /\ t[1] \in Callers
          BY <3>2
        <4> QED BY <3>2, <4>1 DEF Puller
      <3> QED BY <2>1, <2>2, <3>1, <3>2
    <2> QED BY <1>1, <2>4, <2>5
  <1>4. CASE Woken(t) \/ Report(t)
    <2>1. UNCHANGED flight /\ ~Puller(t, "own")
      BY <1>4 DEF Woken, Report, Puller
    <2>2. InPlace' /\ CatchesUp'
      BY <1>0, <2>1 DEF InPlace, CatchesUp, Due, Flying, Call
    <2>3. \A c \in Callers, q \in Sources :
            Puller(<<c, q>>, "own") => Puller(<<c, q>>, "own")'
      BY <1>2, <2>1 DEF Puller, Pullers
    <2> QED BY <1>1, <2>1, <2>2, <2>3 DEF Owned, Flying
  <1> QED BY <1>3, <1>4 DEF Pulling

\* The two halves of _publish.
LEMMA PublisherUInv == ASSUME UInv, NEW p \in Publishers, Look(p) \/ Publish(p)
                       PROVE  PubTypes' /\ InPlace' /\ Owned' /\ CatchesUp'
  <1> USE Threads DEF UInv, Types
  <1>0. /\ UNCHANGED <<content, lastReport, flight, calls, pullers, closed>>
        /\ \A q \in Publishers \ {p} : pub'[q] = pub[q]
        /\ pub[p].stage # "none"
    BY DEF Look, Publish, PubTypes
  <1>1. Owned'
    BY <1>0 DEF Owned, Flying, Puller
  <1>2. ASSUME pub'[p].stage # "none" PROVE InPlace'
    BY <1>0, <1>2 DEF InPlace, Flying
  <1>3. CASE Look(p)
    <2>0. UNCHANGED <<latest, snapshots>>
      BY <1>3 DEF Look
    <2>1. CASE closed
      <3>1. pub' = [pub EXCEPT ![p] = [pub[p] EXCEPT !.stage = "done", !.snap = latest]]
        BY <1>3, <2>1 DEF Look
      <3>2. pub'[p] = [pub[p] EXCEPT !.stage = "done", !.snap = latest]
        BY <3>1 DEF PubTypes
      <3>3. pub'[p].stage = "done" /\ pub'[p].snap \in Snapshots /\ pub'[p] \in PubRecs
        BY <3>2 DEF PubTypes, PubRecs
      <3>4. Drafts'
        BY <1>0, <3>3 DEF PubTypes, Drafts
      <3>5. PubTypes'
        BY <1>0, <2>0, <3>1, <3>2, <3>3, <3>4 DEF PubTypes
      <3> QED BY <1>0, <1>1, <1>2, <2>1, <3>3, <3>5 DEF CatchesUp
    <2>2. CASE ~closed /\ Reusable(p) # {}
      <3> DEFINE x == CHOOSE y \in Reusable(p) : TRUE
      <3>0. x \in Snapshots
        BY <2>2 DEF Reusable, PubTypes
      <3>1. pub' = [pub EXCEPT ![p] = [pub[p] EXCEPT !.stage = "done", !.snap = x]]
        BY <1>3, <2>2 DEF Look
      <3> HIDE DEF x
      <3>2. pub'[p] = [pub[p] EXCEPT !.stage = "done", !.snap = x]
        BY <3>1 DEF PubTypes
      <3>3. pub'[p].stage = "done" /\ pub'[p].snap \in Snapshots /\ pub'[p] \in PubRecs
        BY <3>0, <3>2 DEF PubTypes, PubRecs
      <3>4. Drafts'
        BY <1>0, <3>3 DEF PubTypes, Drafts
      <3>5. PubTypes'
        BY <1>0, <2>0, <3>1, <3>2, <3>3, <3>4 DEF PubTypes
      <3>6. CatchesUp'
        <4>1. latest.of # content => why' = why \cup {"reused"}
          BY <1>3, <2>2 DEF Look
        <4> QED BY <1>0, <2>0, <4>1 DEF CatchesUp
      <3> QED BY <1>1, <1>2, <3>3, <3>5, <3>6
    <2>3. CASE ~closed /\ Reusable(p) = {}
      <3>1. pub' = [pub EXCEPT ![p] = [pub[p] EXCEPT !.stage = "build", !.of = content]]
        BY <1>3, <2>3 DEF Look
      <3>2. pub'[p] = [pub[p] EXCEPT !.stage = "build", !.of = content]
        BY <3>1 DEF PubTypes
      <3>3. pub'[p].stage = "build" /\ pub'[p].of = content /\ pub'[p] \in PubRecs
        BY <3>2 DEF PubTypes, PubRecs
      <3>4. Drafts'
        BY <1>0, <3>3 DEF PubTypes, Drafts
      <3>5. PubTypes'
        BY <1>0, <2>0, <3>1, <3>2, <3>3, <3>4 DEF PubTypes
      <3>6. CatchesUp'
        BY <1>0, <3>3 DEF CatchesUp, Due
      <3> QED BY <1>1, <1>2, <3>3, <3>5, <3>6
    <2> QED BY <2>1, <2>2, <2>3
  <1>4. CASE Publish(p)
    <2> DEFINE x == [of |-> pub[p].of, report |-> pub[p].report]
    <2>1. /\ snapshots' = Filed(x) /\ latest' = x /\ why' = Doubts(x)
          /\ pub' = [pub EXCEPT ![p] = [pub[p] EXCEPT !.stage = "done", !.snap = x]]
      BY <1>4 DEF Publish
    <2>2. x \in Snapshots
      BY <1>4 DEF Publish, PubTypes, Drafts, PubRecs, Snapshots
    <2>3. x.of # content => why' = why \cup {"overtaken"}
      BY <2>1 DEF Doubts
    <2> HIDE DEF x
    <2>4. pub'[p] = [pub[p] EXCEPT !.stage = "done", !.snap = x]
      BY <2>1 DEF PubTypes
    <2>5. pub'[p].stage = "done" /\ pub'[p].snap \in Snapshots /\ pub'[p] \in PubRecs
      BY <2>2, <2>4 DEF PubTypes, PubRecs
    <2>6. Drafts'
      BY <1>0, <2>5 DEF PubTypes, Drafts
    <2>7. snapshots' \subseteq Snapshots
      BY <2>1, <2>2 DEF Filed, PubTypes
    <2>8. PubTypes'
      BY <1>0, <2>1, <2>2, <2>4, <2>5, <2>6, <2>7 DEF PubTypes
    <2>9. CatchesUp'
      BY <1>0, <2>1, <2>3 DEF CatchesUp
    <2> QED BY <1>1, <1>2, <2>5, <2>8, <2>9
  <1> QED BY <1>3, <1>4

\* The steps of a caller.
LEMMA CallingUInv == ASSUME UInv, NEW c \in Callers, Calling(c)
                     PROVE  PubTypes' /\ InPlace' /\ Owned' /\ CatchesUp'
  <1> USE Threads DEF UInv, Types
  <1>0. UNCHANGED <<content, closed>> /\ \A d \in Callers \ {c} : calls'[d] = calls[d]
    BY DEF Calling, StartStale, Load, Shown, StartForce, Await, Join, Stamp, Finish, CallTypes
  <1>1. Owned'
    <2>1. CASE Load(c)
      <3>1. \A q \in Sources : flight'[q] = flight[q] \/ flight'[q] = TakeOff(FALSE)
        BY <2>1 DEF Load, FlightTypes
      <3>2. UNCHANGED pullers
        BY <2>1 DEF Load
      <3> QED BY <3>1, <3>2 DEF Owned, Flying, Puller, TakeOff
    <2>2. CASE ~Load(c)
      <3>1. UNCHANGED flight
        BY <2>2 DEF Calling, StartStale, Shown, StartForce, Await, Join, Stamp, Finish
      <3>2. ASSUME NEW d \in Callers, NEW q \in Sources, Puller(<<d, q>>, "own")
            PROVE  Puller(<<d, q>>, "own")'
        <4>0. <<d, q>> \in Pullers /\ <<d, q>>[1] = d
          BY DEF Pullers
        <4>1. CASE StartForce(c)
          BY <3>2, <4>0, <4>1 DEF StartForce, Puller
        <4>2. CASE Stamp(c)
          BY <3>2, <4>0, <4>2 DEF Stamp, Puller
        <4>3. CASE ~StartForce(c) /\ ~Stamp(c)
          BY <2>2, <3>2, <4>3 DEF Calling, StartStale, Shown, Await, Join, Finish, Puller
        <4> QED BY <4>1, <4>2, <4>3
      <3> QED BY <3>1, <3>2 DEF Owned, Flying
    <2> QED BY <2>1, <2>2
  <1>2. CASE StartStale(c) \/ StartForce(c) \/ Await(c) \/ Finish(c)
    <2>1. UNCHANGED <<latest, snapshots, pub, flight, why>>
      BY <1>2 DEF StartStale, StartForce, Await, Finish
    <2>2. lastReport' \in Reports
      BY <1>2 DEF StartStale, StartForce, Await, Finish, PubTypes, Reports, CallTypes, CallRecs
    <2>3. PubTypes'
      BY <1>0, <2>1, <2>2 DEF PubTypes, Drafts
    <2>4. calls[c].pc \in {"idle", "await", "stamped"}
          /\ calls'[c].pc \in {"idle", "load", "join", "await"}
      <3>1. CASE StartStale(c)
        BY <3>1 DEF StartStale, Call, Resting, CallTypes
      <3>2. CASE StartForce(c)
        BY <3>2 DEF StartForce, Call, Resting, CallTypes
      <3>3. CASE Await(c) \/ Finish(c)
        BY <3>3 DEF Await, Finish, Call, Resting, CallTypes
      <3> QED BY <1>2, <3>1, <3>2, <3>3
    <2>5. InPlace'
      BY <1>0, <2>1, <2>4 DEF InPlace, Flying
    <2>6. Due => Due'
      BY <1>0, <2>1, <2>4 DEF Due, Flying, Call
    <2>7. CatchesUp'
      BY <1>0, <2>1, <2>6 DEF CatchesUp
    <2> QED BY <1>1, <2>3, <2>5, <2>7
  <1>3. ASSUME Load(c) \/ Join(c),
               UNCHANGED <<latest, snapshots, lastReport, why>>,
               \A s \in Sources : flight'[s] = flight[s]
                                  \/ (Flying(s, "none") /\ Flying(s, "ask")'),
               calls[c].pc \in {"load", "join"},
               \/ pub' = pub /\ calls'[c].pc = "load" /\ calls[c].pc = "load"
               \/ /\ pub' = [pub EXCEPT ![c].stage = "look"]
                  /\ calls'[c].pc \in {"show", "publish"}
        PROVE  PubTypes' /\ InPlace' /\ CatchesUp'
    <2>1. \A s \in Sources : pub'[s] = pub[s]
                             /\ (Flying(s, "publish") <=> Flying(s, "publish")')
                             /\ (Flying(s, "notify") => Flying(s, "notify")')
      BY <1>3 DEF PubTypes, Flying
    <2>2. CASE pub' = pub /\ calls'[c].pc = "load" /\ calls[c].pc = "load"
      <3>1. PubTypes'
        BY <1>0, <1>3, <2>2 DEF PubTypes, Drafts
      <3>2. InPlace'
        BY <1>0, <2>1, <2>2 DEF InPlace
      <3>3. Due => Due'
        BY <1>0, <2>1, <2>2 DEF Due, Call
      <3>4. CatchesUp'
        BY <1>0, <1>3, <3>3 DEF CatchesUp
      <3> QED BY <3>1, <3>2, <3>4
    <2>3. CASE /\ pub' = [pub EXCEPT ![c].stage = "look"]
               /\ calls'[c].pc \in {"show", "publish"}
      <3>1. pub'[c].stage = "look" /\ pub'[c] \in PubRecs
            /\ \A p \in Publishers \ {c} : pub'[p] = pub[p]
        BY <2>3 DEF PubTypes, PubRecs
      <3>2. Drafts'
        BY <3>1 DEF PubTypes, Drafts
      <3>3. PubTypes'
        BY <1>0, <1>3, <2>3, <3>1, <3>2 DEF PubTypes
      <3>4. InPlace'
        BY <1>0, <2>1, <2>3, <3>1 DEF InPlace
      <3>5. CatchesUp'
        BY <3>1 DEF CatchesUp, Due
      <3> QED BY <3>3, <3>4, <3>5
    <2> QED BY <1>3, <2>2, <2>3
  <1>4. CASE Load(c)
    <2>1. PICK s \in calls[c].todo :
            /\ calls' = [calls EXCEPT ![c].todo = @ \ {s},
                           ![c].pc = IF calls[c].todo = {s} THEN "show" ELSE "load"]
            /\ pub' = IF calls[c].todo = {s} THEN [pub EXCEPT ![c].stage = "look"] ELSE pub
            /\ \/ UNCHANGED flight
               \/ Flying(s, "none") /\ flight' = [flight EXCEPT ![s] = TakeOff(FALSE)]
      BY <1>4 DEF Load
    <2>2. \A q \in Sources : flight'[q] = flight[q] \/ (Flying(q, "none") /\ Flying(q, "ask")')
      BY <2>1 DEF FlightTypes, Flying, TakeOff
    <2>3. UNCHANGED <<latest, snapshots, lastReport, why>> /\ calls[c].pc = "load"
      BY <1>4 DEF Load, Call
    <2>4. calls'[c].pc = IF calls[c].todo = {s} THEN "show" ELSE "load"
      BY <2>1 DEF CallTypes, CallRecs
    <2>5. PubTypes' /\ InPlace' /\ CatchesUp'
      BY <1>3, <1>4, <2>1, <2>2, <2>3, <2>4
    <2> QED BY <1>1, <2>5
  <1>5. CASE Join(c)
    <2>1. /\ UNCHANGED <<latest, snapshots, lastReport, why, flight>> /\ calls[c].pc = "join"
          /\ pub' = [pub EXCEPT ![c].stage = "look"]
      BY <1>5 DEF Join, Call
    <2>2. calls'[c].pc = "publish"
      BY <1>5 DEF Join, CallTypes, CallRecs
    <2>3. PubTypes' /\ InPlace' /\ CatchesUp'
      BY <1>3, <1>5, <2>1, <2>2
    <2> QED BY <1>1, <2>3
  <1>6. CASE Shown(c) \/ Stamp(c)
    <2>1. /\ UNCHANGED <<lastReport, flight>> /\ pub[c].stage = "done"
          /\ pub' = [pub EXCEPT ![c] = NoPublish]
          /\ calls[c].pc \in {"show", "publish"}
      BY <1>6 DEF Shown, Stamp, Call
    <2>2. calls'[c].pc \in {"idle", "stamped"}
      BY <1>6 DEF Shown, Stamp, Resting, CallTypes, CallRecs
    <2>3. NoPublish \in PubRecs /\ NoPublish.stage = "none"
      BY DEF NoPublish, PubRecs, Reports, NoReport
    <2>4. pub'[c] = NoPublish /\ \A p \in Publishers \ {c} : pub'[p] = pub[p]
      BY <2>1 DEF PubTypes
    <2>5. Drafts'
      BY <2>3, <2>4 DEF PubTypes, Drafts
    <2>6. InPlace'
      BY <1>0, <2>1, <2>2, <2>3, <2>4 DEF InPlace, Flying
    <2>7. CASE Shown(c)
      <3>1. UNCHANGED <<latest, snapshots, why>>
        BY <2>7 DEF Shown
      <3>2. PubTypes'
        BY <1>0, <2>1, <2>3, <2>4, <2>5, <3>1 DEF PubTypes
      <3>3. Due => Due'
        BY <1>0, <2>1, <2>4 DEF Due, Flying, Call
      <3> QED BY <1>0, <1>1, <2>6, <3>1, <3>2, <3>3 DEF CatchesUp
    <2>8. CASE Stamp(c)
      <3> DEFINE x == [of |-> pub[c].snap.of, report |-> {calls[c].results}]
      <3>1. snapshots' = Filed(x) /\ latest' = x /\ why' = Doubts(x)
        BY <2>8 DEF Stamp
      <3>2. x \in Snapshots
        <4>1. {calls[c].results} \in Reports
          BY DEF Reports, CallTypes, CallRecs
        <4>2. pub[c].snap \in Snapshots
          BY <2>1 DEF PubTypes, Drafts
        <4> QED BY <4>1, <4>2 DEF Snapshots
      <3>3. x.of # content => why' = why \cup {"overtaken"}
        BY <3>1 DEF Doubts
      <3> HIDE DEF x
      <3>4. snapshots' \subseteq Snapshots
        BY <3>1, <3>2 DEF Filed, PubTypes
      <3>5. PubTypes'
        BY <1>0, <2>1, <2>3, <2>4, <2>5, <3>1, <3>2, <3>4 DEF PubTypes
      <3>6. CatchesUp'
        BY <1>0, <3>1, <3>3 DEF CatchesUp
      <3> QED BY <1>1, <2>6, <3>5, <3>6
    <2> QED BY <1>6, <2>7, <2>8
  <1> QED BY <1>2, <1>4, <1>5, <1>6 DEF Calling

LEMMA StepUInv == UInv /\ [Next]_vars => UInv'
  <1> SUFFICES ASSUME UInv, [Next]_vars PROVE UInv'
    OBVIOUS
  <1>1. Types'
    BY StepServerTypes, StepFlightTypes, StepPullerTypes, StepCallTypes DEF Types, UInv
  <1>2. CASE Serve \/ Close \/ Finished \/ UNCHANGED vars
    <2>1. /\ UNCHANGED <<content, flight, calls, pullers, pub, latest, snapshots, lastReport, why>>
          /\ ~closed' => ~closed
      BY <1>2 DEF Serve, Close, Finished, vars
    <2> QED
      BY <1>1, <2>1 DEF UInv, PubTypes, Drafts, InPlace, Owned, CatchesUp, Due, Flying, Call, Puller
  <1>3. ASSUME NEW s \in Sources, Request(s) PROVE UInv'
    BY <1>1, <1>3, RequestUInv DEF UInv
  <1>4. ASSUME NEW t \in Pullers, Pulling(t) PROVE UInv'
    BY <1>1, <1>4, PullingUInv DEF UInv
  <1>5. ASSUME NEW p \in Publishers, Look(p) \/ Publish(p) PROVE UInv'
    BY <1>1, <1>5, PublisherUInv DEF UInv
  <1>6. ASSUME NEW c \in Callers, Calling(c) PROVE UInv'
    BY <1>1, <1>6, CallingUInv DEF UInv
  <1> QED BY <1>2, <1>3, <1>4, <1>5, <1>6 DEF Next

\* When nothing is under way the latest snapshot is of what the sources hold, unless one of
\* three things has happened since it was: nothing else in the code loses an update
\* (catalogue_coordinator.py:342-347, 461-514), for any threads and requests.
THEOREM StaleHasReasonHolds == Spec => []StaleHasReason
  <1>1. ASSUME UInv PROVE StaleHasReason
    <2> SUFFICES ASSUME Quiet PROVE ~Due
      BY <1>1 DEF UInv, CatchesUp, StaleHasReason
    <2>1. \A s \in Sources : pub[s].stage \notin {"look", "build"}
      BY <1>1 DEF UInv, InPlace, Quiet, Flying
    <2>2. \A c \in Callers : pub[c].stage \notin {"look", "build"}
      BY <1>1 DEF UInv, InPlace, Quiet, Call
    <2> QED BY <2>1, <2>2 DEF Due, Quiet, Flying, Call, Publishers
  <1> QED BY <1>1, InitUInv, StepUInv, PTL DEF Spec
=============================================================================
