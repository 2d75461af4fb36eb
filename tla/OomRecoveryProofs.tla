-------------------------- MODULE OomRecoveryProofs -------------------------
(* Theorems about OomSegment, AudioChunking and OomRecovery, for every list of *)
(* models, every size of their segments, mixes, windows and overlaps of any    *)
(* length, and any number of runs.                                             *)
EXTENDS OomRecovery, WellFoundedInduction, TLAPS

\* Every size that is snapped is one of the slider's, and these are left alone.
LEMMA SnapStops == /\ \A v \in Nat : Snap(v) \in Stops
                   /\ \A c \in Stops : Snap(c) = c /\ c \in Nat \ {0}
  <1>1. ASSUME NEW v \in Nat PROVE Snap(v) \in Stops
    <2>1. CASE v < Step
      BY <2>1 DEF Snap, Stops, Step
    <2>2. CASE v >= Top
      <3>1. Top = Step * 125
        BY DEF Top, Step
      <3> QED BY <2>2, <3>1 DEF Snap, Stops, Step, Top
    <2>3. CASE ~(v < Step) /\ ~(v >= Top)
      <3>1. v \div Step \in 1..125
        BY <2>3 DEF Step, Top
      <3> QED BY <2>3, <3>1 DEF Snap, Stops
    <2> QED BY <2>1, <2>2, <2>3
  <1>2. ASSUME NEW c \in Stops PROVE Snap(c) = c /\ c \in Nat \ {0}
    <2>1. PICK k \in 1..125 : c = Step * k
      BY DEF Stops
    <2>2. c \in Nat \ {0} /\ ~(c < Step) /\ c <= Top
      BY <2>1 DEF Step, Top
    <2>3. Step * (c \div Step) = c
      BY <2>1 DEF Step
    <2> QED BY <2>2, <2>3 DEF Snap, Top
  <1> QED BY <1>1, <1>2

LEMMA DefaultStops == \A m \in Models : Default(m) \in Stops /\ Effective(m) \in Stops
  <1> SUFFICES ASSUME NEW m \in Models PROVE Default(m) \in Stops /\ Effective(m) \in Stops
    OBVIOUS
  <1>1. DefaultDimT = Step * 8 /\ DefaultDimT \in Stops
    BY DEF DefaultDimT, Step, Stops
  <1>2. m.dimT \in Nat /\ m.size \in Nat
    BY DEF Models
  <1>3. Default(m) \in Stops
    BY <1>1, <1>2, SnapStops DEF Default
  <1>4. Effective(m) \in Stops
    BY <1>1, <1>2, <1>3, SnapStops DEF Effective
  <1> QED BY <1>3, <1>4

\* The candidates are smaller than what ran out of memory.
LEMMA RetriesShrink ==
  ASSUME NEW m \in Models, NEW current \in Stops
  PROVE  /\ Retries(m, current) \subseteq Stops
         /\ \A c \in Retries(m, current) : c < current
  <1>1. current \div 2 \in Nat /\ Default(m) \in Nat
    BY SnapStops, DefaultStops
  <1>2. Snap(current \div 2) \in Stops /\ Snap(Default(m)) \in Stops
    BY <1>1, SnapStops
  <1> QED BY <1>2 DEF Retries, Candidates

\* A model with an override runs at it.
LEMMA OverrideRuns ==
  ASSUME NEW m \in Models, NEW c \in Stops
  PROVE  Overridden(m, c) \in Models /\ Effective(Overridden(m, c)) = c
  <1>1. c \in Nat \ {0} /\ Snap(c) = c
    BY SnapStops
  <1>2. Overridden(m, c) = [m EXCEPT !.size = c, !.segDef = FALSE]
    BY <1>1 DEF Overridden
  <1>3. Overridden(m, c).size = c /\ Overridden(m, c).segDef = FALSE
    BY <1>2 DEF Models
  <1>4. Overridden(m, c) \in Models
    BY <1>1, <1>2 DEF Models
  <1> QED BY <1>1, <1>3, <1>4 DEF Effective

----------------------------------------------------------------------------
JobTypes ==
  /\ pos \in Nat \ {0} /\ model \in [Names -> Models] /\ override \in Stops \cup {0}
  /\ cands \subseteq Stops /\ failed \subseteq Stops
  /\ mode \in {"first", "retry", "auto"} /\ pc \in Pcs

\* What has not been tried is smaller than what has failed.
Smaller(these, than) == \A c \in these, d \in than : c < d

Shrinking ==
  /\ pc \in {"chunk", "infer", "ask", "wait", "retry"} => pos <= Len(Order)
  /\ pc \in {"file", "model", "chunk"} => failed = {} /\ cands = {} /\ mode = "first"
  /\ pc = "infer" /\ mode = "first" => failed = {}
  /\ pc = "infer" /\ mode # "first" => Smaller(cands, {Segment})
  /\ pc \in {"ask", "wait", "retry"} => Smaller(cands, failed)
  /\ pc = "retry" => mode # "first"

IInv == JobTypes /\ Shrinking /\ RetryShrinks

LEMMA NameInNames == JobTypes /\ pos <= Len(Order) => Name \in Names
  BY RecoveryAssumption DEF JobTypes, Name

LEMMA SegmentStops == JobTypes /\ pos <= Len(Order) => Segment \in Stops
  BY NameInNames, DefaultStops DEF JobTypes, Segment

LEMMA InitIInv == Init => IInv
  BY RecoveryAssumption DEF Init, IInv, JobTypes, Shrinking, RetryShrinks, Pcs, Smaller

\* A step that leaves the job alone, and the worker where it is.
LEMMA JobStays ==
  ASSUME IInv, UNCHANGED <<job, pc>> PROVE IInv'
  <1>1. JobTypes'
    BY DEF IInv, JobTypes, job, place, sizes, Pcs
  <1>2. Segment' = Segment
    BY DEF job, place, sizes, Segment, Name
  <1>3. Shrinking' /\ RetryShrinks'
    BY <1>2 DEF IInv, Shrinking, RetryShrinks, job, place, sizes, Smaller
  <1> QED BY <1>1, <1>3 DEF IInv

\* The worker turns to the next input.
Turns == /\ bound => pc \in {"file", "model"}
         /\ \E sources \in {cache, Empty} : NextFile(sources)

\* The worker is done with an input, or with all of them.
LEMMA InputEnds ==
  ASSUME IInv, End \/ Turns PROVE IInv'
  <1>1. /\ pc' \in {"off", "file"} /\ pos' = 1 /\ model' \in {model, Config}
        /\ UNCHANGED override /\ cands' \in {cands, {}} /\ failed' \in {failed, {}}
        /\ mode' \in {mode, "first"}
        /\ pc' = "file" => failed' = {} /\ cands' = {} /\ mode' = "first"
    BY DEF End, Turns, NextFile, Unwind, IInv, Shrinking
  <1>2. JobTypes'
    BY <1>1, RecoveryAssumption DEF IInv, JobTypes, Pcs
  <1> QED BY <1>1, <1>2 DEF IInv, Shrinking, RetryShrinks

LEMMA WorkerIInv == IInv /\ Worker => IInv'
  <1> SUFFICES ASSUME IInv, Worker PROVE IInv'
    OBVIOUS
  <1> USE DEF IInv
  <1>1. CASE NextChunk
    <2>1. Name' = Name /\ UNCHANGED <<pos, override, cands, mode, failed>> /\ pc' = "infer"
      BY <1>1 DEF NextChunk, place, Name
    <2>2. pos <= Len(Order) /\ Name \in Names /\ failed = {} /\ cands = {} /\ mode = "first"
      BY <1>1, NameInNames DEF NextChunk, Shrinking
    <2>3. Overridden(model[Name], override) \in Models
      <3>1. CASE override = 0
        BY <2>2, <3>1 DEF Overridden, JobTypes
      <3>2. CASE override \in Stops
        BY <2>2, <3>2, OverrideRuns DEF JobTypes
      <3> QED BY <3>1, <3>2 DEF JobTypes
    <2>4. JobTypes'
      BY <1>1, <2>1, <2>3 DEF NextChunk, JobTypes, Pcs
    <2> QED BY <2>1, <2>2, <2>4 DEF Shrinking, RetryShrinks
  <1>2. CASE SkipFile \/ FileOk \/ AllDone \/ WorkerStops \/ Fails \/ AutoFails \/ NobodyToAsk
             \/ TakeStop
    <2>1. End \/ Turns
      BY <1>2 DEF SkipFile, FileOk, AllDone, WorkerStops, Fails, AutoFails, NobodyToAsk, TakeStop,
                  InputFails, Turns
    <2> QED BY <2>1, InputEnds
  <1>3. CASE OpenFile \/ NextModel \/ ChunkOk \/ ModelOk
    <2>1. JobTypes'
      BY <1>3 DEF OpenFile, NextModel, ChunkOk, ModelOk, Returns, place, sizes, JobTypes, Pcs
    <2>2. /\ pc' \in {"model", "chunk"} /\ (pc' = "chunk" => pos' <= Len(Order))
          /\ failed' = {} /\ cands' = {} /\ mode' = "first"
      BY <1>3 DEF OpenFile, NextModel, ChunkOk, ModelOk, Returns, place, sizes, Shrinking
    <2> QED BY <2>1, <2>2 DEF Shrinking, RetryShrinks
  <1>4. CASE FirstOom
    <2>1. pos <= Len(Order) /\ Segment \in Stops /\ model[Name] \in Models
      BY <1>4, SegmentStops, NameInNames DEF FirstOom, Shrinking, JobTypes
    <2>2. cands' \subseteq Stops /\ Smaller(cands, failed)'
      BY <1>4, <2>1, RetriesShrink DEF FirstOom, Smaller
    <2>3. JobTypes'
      BY <1>4, <2>1, <2>2 DEF FirstOom, place, JobTypes, Pcs
    <2> QED BY <1>4, <2>1, <2>2, <2>3 DEF FirstOom, place, Shrinking, RetryShrinks
  <1>5. CASE RetryOom
    <2>1. pos <= Len(Order) /\ Segment \in Stops
      BY <1>5, SegmentStops DEF RetryOom, Shrinking
    <2>2. Smaller(cands, failed)'
      <3>1. \A c \in cands, d \in failed : c < Segment /\ Segment < d
        BY <1>5 DEF RetryOom, place, Shrinking, RetryShrinks, Smaller
      <3>2. \A c \in cands : c \in Nat
        BY SnapStops DEF JobTypes
      <3>3. \A d \in failed : d \in Nat
        BY SnapStops DEF JobTypes
      <3>4. Segment \in Nat
        BY <2>1, SnapStops
      <3>5. \A c \in cands, d \in failed : c < d
        BY <3>1, <3>2, <3>3, <3>4
      <3>6. \A c \in cands : c < Segment
        BY <1>5 DEF RetryOom, Shrinking, Smaller
      <3> HIDE DEF IInv
      <3> QED BY <1>5, <3>5, <3>6 DEF RetryOom, Smaller
    <2>3. JobTypes'
      BY <1>5, <2>1 DEF RetryOom, place, JobTypes, Pcs
    <2> QED BY <1>5, <2>1, <2>2, <2>3 DEF RetryOom, place, Shrinking, RetryShrinks
  <1>6. CASE Exhausted
    <2>1. pos <= Len(Order) /\ Segment \in Stops /\ model[Name] \in Models
      BY <1>6, SegmentStops, NameInNames DEF Exhausted, Shrinking, JobTypes
    <2>2. cands' \subseteq Stops /\ \A c \in cands' : c < Segment
      BY <1>6, <2>1, RetriesShrink DEF Exhausted
    <2>3. \A d \in failed : Segment < d /\ d \in Nat
      BY <1>6, SnapStops DEF Exhausted, RetryShrinks, JobTypes
    <2>4. Smaller(cands, failed)'
      <3>1. Segment \in Nat /\ \A c \in cands' : c \in Nat
        BY <2>1, <2>2, SnapStops
      <3>2. \A c \in cands', d \in failed : c < d
        BY <2>2, <2>3, <3>1
      <3> QED BY <1>6, <2>2, <3>2 DEF Exhausted, Smaller
    <2>5. JobTypes'
      BY <1>6, <2>1, <2>2 DEF Exhausted, place, JobTypes, Pcs
    <2> QED BY <1>6, <2>1, <2>4, <2>5 DEF Exhausted, place, Shrinking, RetryShrinks
  <1>7. CASE AskNobody \/ TakeRetry \/ Ask
    BY <1>7 DEF AskNobody, TakeRetry, Ask, JobTypes, Shrinking, RetryShrinks, Pcs, job, place, sizes,
                Smaller
  <1>8. CASE Retry
    <2>1. PICK c \in cands :
            /\ \A d \in cands : d <= c
            /\ override' = c /\ cands' = cands \ {c}
            /\ model' = [model EXCEPT ![Name] = Overridden(@, c)]
      BY <1>8 DEF Retry
    <2>2. pos <= Len(Order) /\ Name \in Names /\ c \in Stops /\ model[Name] \in Models
          /\ UNCHANGED <<pos, mode, failed>> /\ Smaller(cands, failed)
      BY <1>8, NameInNames DEF Retry, place, Shrinking, JobTypes
    <2>3. Overridden(model[Name], c) \in Models /\ Segment' = c
      <3>1. Name' = Name /\ model'[Name] = Overridden(model[Name], c)
        BY <2>1, <2>2 DEF JobTypes, Name
      <3> QED BY <2>2, <3>1, OverrideRuns DEF Segment
    <2>4. JobTypes'
      BY <1>8, <2>1, <2>2, <2>3 DEF Retry, JobTypes, Pcs
    <2>5. Smaller(cands, {Segment})'
      <3>1. \A d \in cands : d \in Nat
        BY SnapStops DEF JobTypes
      <3>2. \A d \in cands \ {c} : d < c
        BY <2>1, <3>1
      <3> QED BY <2>1, <2>3, <3>2 DEF Smaller
    <2>6. \A d \in failed : c < d
      BY <2>2 DEF Smaller
    <2>7. mode' = "first" => failed' = {}
      BY <1>8, <2>2 DEF Retry, Shrinking
    <2> QED BY <1>8, <2>2, <2>3, <2>4, <2>5, <2>6, <2>7 DEF Retry, Shrinking, RetryShrinks
  <1> QED BY <1>1, <1>2, <1>3, <1>4, <1>5, <1>6, <1>7, <1>8 DEF Worker

LEMMA StepIInv == IInv /\ [Next]_vars => IInv'
  <1> SUFFICES ASSUME IInv, [Next]_vars PROVE IInv'
    OBVIOUS
  <1>1. CASE StartRun
    BY <1>1, RecoveryAssumption
       DEF StartRun, Unwind, IInv, JobTypes, Shrinking, RetryShrinks, Pcs, Smaller
  <1>2. CASE MainLoop \/ User \/ Stop \/ ShutDown \/ (\E r \in DOMAIN asks : Closed(r))
    <2>1. UNCHANGED <<job, pc>>
      BY <1>2 DEF MainLoop, ShowDialog, ServeEnded, User, Choose, Stop, ShutDown, Closed
    <2> QED BY <2>1, JobStays
  <1>3. CASE UNCHANGED vars
    BY <1>3, JobStays DEF vars
  <1> QED BY <1>1, <1>2, <1>3, WorkerIInv DEF Next

\* Every retry runs at a segment below all those that ran out of memory in the call, also
\* after the candidates were exhausted and read again (separator_run.py:137-261,
\* oom_segment.py:13-89), for whatever sizes the models have.
THEOREM RetryShrinksHolds == Spec => []RetryShrinks
  <1>1. IInv => RetryShrinks
    BY DEF IInv
  <1> QED BY <1>1, InitIInv, StepIInv, PTL DEF Spec

----------------------------------------------------------------------------
(* The choices.  A request is on its way to the main loop once, and has no reply *)
(* as long as it is on its way or its dialog is open.                            *)

AskTypes == asks \in Seq(Requests) /\ idle \in Seq(Calls)

Unanswered(r) == /\ r \in DOMAIN asks
                 /\ asks[r].view = "queued" /\ asks[r].reply = "none"

Queued ==
  /\ \A i \in DOMAIN idle : idle[i].call = "ask" => Unanswered(idle[i].req)
  /\ \A i, j \in DOMAIN idle :
       i # j /\ idle[i].call = "ask" /\ idle[j].call = "ask" => idle[i].req # idle[j].req
  /\ \A r \in DOMAIN asks : asks[r].view = "open" => asks[r].reply = "none"

Shown == dialog # 0 => dialog \in DOMAIN asks /\ asks[dialog].view # "queued"

RunsTypes == /\ runs \in 0..MaxRuns
             /\ pc # "off" => runs > 0

Asking == AskTypes /\ RunsTypes /\ Queued /\ Shown

LEMMA InitAsking == Init => Asking
  <1> SUFFICES ASSUME Init PROVE Asking
    OBVIOUS
  <1>1. AskTypes
    BY DEF Init, AskTypes
  <1>2. RunsTypes
    BY RecoveryAssumption DEF Init, RunsTypes
  <1>3. Queued
    BY DEF Init, Queued
  <1>4. Shown
    BY DEF Init, Shown
  <1> QED BY <1>1, <1>2, <1>3, <1>4 DEF Asking

LEMMA AppendFacts ==
  ASSUME NEW S, NEW s \in Seq(S), NEW e \in S
  PROVE  /\ Append(s, e) \in Seq(S) /\ Len(Append(s, e)) = Len(s) + 1
         /\ DOMAIN Append(s, e) = DOMAIN s \cup {Len(s) + 1}
         /\ \A i \in DOMAIN s : Append(s, e)[i] = s[i] /\ i # Len(s) + 1
         /\ Append(s, e)[Len(s) + 1] = e
  OBVIOUS

LEMMA TailFacts ==
  ASSUME NEW S, NEW s \in Seq(S), s # <<>>
  PROVE  /\ Tail(s) \in Seq(S) /\ Head(s) = s[1] /\ 1 \in DOMAIN s
         /\ \A i \in DOMAIN Tail(s) : Tail(s)[i] = s[i + 1] /\ i + 1 \in DOMAIN s /\ i + 1 # 1
         /\ \A i, j \in DOMAIN Tail(s) : i # j => i + 1 # j + 1
  OBVIOUS

\* The requests are still the same ones, and those that were on their way are so.
LEMMA QueueStays ==
  ASSUME Asking, UNCHANGED <<asks, idle>> PROVE AskTypes' /\ Queued'
  BY DEF Asking, AskTypes, Queued, Unanswered

LEMMA QueueEnded ==
  ASSUME Asking, UNCHANGED asks, runs \in 1..MaxRuns,
         idle' = Append(idle, [call |-> "ended", op |-> runs, req |-> 0])
  PROVE  AskTypes' /\ Queued'
  <1> DEFINE e == [call |-> "ended", op |-> runs, req |-> 0]
  <1>1. e \in Calls /\ e.call # "ask"
    BY DEF Calls
  <1> HIDE DEF e
  <1>2. /\ idle' \in Seq(Calls) /\ DOMAIN idle' = DOMAIN idle \cup {Len(idle) + 1}
        /\ \A i \in DOMAIN idle : idle'[i] = idle[i] /\ i # Len(idle) + 1
        /\ idle'[Len(idle) + 1] = e
    BY <1>1, AppendFacts DEF Asking, AskTypes, e
  <1>3. AskTypes'
    BY <1>2 DEF Asking, AskTypes
  <1>4. \A i \in DOMAIN idle' : idle'[i].call = "ask" => i \in DOMAIN idle
    BY <1>1, <1>2
  <1>5. Queued'
    BY <1>2, <1>4 DEF Asking, Queued, Unanswered
  <1> QED BY <1>3, <1>5

LEMMA QueueAsk ==
  ASSUME Asking, runs \in 1..MaxRuns, Ask
  PROVE  AskTypes' /\ Queued' /\ Len(asks') = Len(asks) + 1
         /\ \A r \in DOMAIN asks : asks'[r] = asks[r]
  <1>0. PICK n \in Nat : n = Len(asks) + 1
    BY DEF Asking, AskTypes
  <1>1. PICK q \in Requests : /\ q.view = "queued" /\ q.reply = "none"
                             /\ asks' = Append(asks, q)
    <2> DEFINE v == [op |-> runs, canRetry |-> cands # {},
                     canExport |-> Ensemble /\ members # <<>>,
                     view |-> "queued", reply |-> "none"]
    <2>1. (cands # {}) \in BOOLEAN /\ (Ensemble /\ members # <<>>) \in BOOLEAN
      OBVIOUS
    <2>2. v \in Requests
      BY <2>1 DEF Requests
    <2>3. v.view = "queued" /\ v.reply = "none" /\ asks' = Append(asks, v)
      BY DEF Ask
    <2> HIDE DEF v
    <2> QED BY <2>2, <2>3
  <1>4. /\ asks' \in Seq(Requests) /\ Len(asks') = n /\ DOMAIN asks' = DOMAIN asks \cup {n}
        /\ \A r \in DOMAIN asks : asks'[r] = asks[r] /\ r # n
        /\ asks'[n] = q
    BY <1>0, <1>1, AppendFacts DEF Asking, AskTypes
  <1>5. PICK e \in Calls : e.call = "ask" /\ e.req = n /\ idle' = Append(idle, e)
    <2> DEFINE v == [call |-> "ask", op |-> runs, req |-> n]
    <2>1. v \in Calls /\ v.call = "ask" /\ v.req = n
      BY DEF Calls
    <2>2. idle' = Append(idle, v)
      BY <1>4 DEF Ask
    <2> HIDE DEF v
    <2> QED BY <2>1, <2>2
  <1>6. /\ idle' \in Seq(Calls) /\ DOMAIN idle' = DOMAIN idle \cup {Len(idle) + 1}
        /\ \A i \in DOMAIN idle : idle'[i] = idle[i] /\ i # Len(idle) + 1
        /\ idle'[Len(idle) + 1] = e
    BY <1>5, AppendFacts DEF Asking, AskTypes
  <1>7. AskTypes'
    BY <1>4, <1>6 DEF AskTypes
  <1>8. \A i \in DOMAIN idle : idle[i].call = "ask" => idle[i].req \in DOMAIN asks
    BY DEF Asking, Queued, Unanswered
  <1>9. Queued'
    <2>1. \A i \in DOMAIN idle' : idle'[i].call = "ask" => Unanswered(idle[i].req)'
      <3>1. ASSUME NEW i \in DOMAIN idle, idle'[i].call = "ask"
            PROVE  Unanswered(idle[i].req)'
        BY <1>4, <1>6, <1>8, <3>1 DEF Asking, Queued, Unanswered
      <3>2. Unanswered(n)'
        BY <1>1, <1>4 DEF Unanswered
      <3> QED BY <1>5, <1>6, <3>1, <3>2
    <2>2. \A i, j \in DOMAIN idle' :
            i # j /\ idle'[i].call = "ask" /\ idle'[j].call = "ask"
              => idle'[i].req # idle'[j].req
      BY <1>4, <1>5, <1>6, <1>8 DEF Asking, Queued
    <2>3. \A r \in DOMAIN asks' : asks'[r].view = "open" => asks'[r].reply = "none"
      BY <1>1, <1>4 DEF Asking, Queued
    <2> QED BY <2>1, <2>2, <2>3 DEF Queued
  <1> QED BY <1>0, <1>4, <1>7, <1>9

LEMMA FinishFacts ==
  ASSUME NEW a \in Requests, NEW choice \in Choices
  PROVE  /\ Finish(a, choice) \in Requests
         /\ [Finish(a, choice) EXCEPT !.view = "closed"] \in Requests
         /\ Finish(a, choice).view # "open"
         /\ a.view # "queued" => Finish(a, choice).view # "queued"
         /\ a.view # "open" => Finish(a, choice) = a
         /\ [Finish(a, choice) EXCEPT !.view = "closed"].view = "closed"
         /\ [Finish(a, choice) EXCEPT !.view = "closed"].reply = Finish(a, choice).reply
  BY DEF Finish, Requests, Choices

\* One request that is not on its way changes; it is not opened.
LEMMA QueueOne ==
  ASSUME Asking, NEW r \in DOMAIN asks, NEW a \in Requests, UNCHANGED idle,
         asks' = [asks EXCEPT ![r] = a], asks[r].view # "queued",
         a.view \notin {"queued", "open"}
  PROVE  AskTypes' /\ Queued' /\ (dialog' \in {0, dialog} => Shown')
  <1>1. asks' \in Seq(Requests) /\ DOMAIN asks' = DOMAIN asks
        /\ asks'[r] = a /\ \A q \in DOMAIN asks \ {r} : asks'[q] = asks[q]
    BY DEF Asking, AskTypes
  <1>2. AskTypes'
    BY <1>1 DEF Asking, AskTypes
  <1>3. Queued'
    BY <1>1 DEF Asking, Queued, Unanswered
  <1>4. dialog' \in {0, dialog} => Shown'
    BY <1>1 DEF Asking, Shown
  <1> QED BY <1>2, <1>3, <1>4

LEMMA QueueChoose ==
  ASSUME Asking, NEW r \in DOMAIN asks, NEW choice \in Choices, Choose(r, choice)
  PROVE  /\ AskTypes' /\ Queued' /\ Shown'
         /\ \A q \in DOMAIN asks : asks[q].reply # "none" => asks'[q].reply = asks[q].reply
  <1>1. PICK c \in Choices : asks' = [asks EXCEPT ![r] = Finish(asks[r], c)]
    BY DEF Choose, Choices
  <1>2. asks[r] \in Requests /\ asks[r].view = "open" /\ asks[r].reply = "none"
    BY DEF Choose, Asking, AskTypes, Queued
  <1>3. Finish(asks[r], c) \in Requests /\ Finish(asks[r], c).view \notin {"queued", "open"}
    <2>1. Finish(asks[r], c) = [asks[r] EXCEPT !.view = "settled", !.reply = c]
      BY <1>2 DEF Finish
    <2> QED BY <1>2, <2>1 DEF Requests, Choices
  <1>4. dialog' \in {0, dialog} /\ UNCHANGED idle
    BY DEF Choose, DropDialog
  <1>5. AskTypes' /\ Queued' /\ Shown'
    BY <1>1, <1>2, <1>3, <1>4, QueueOne
  <1>6. \A q \in DOMAIN asks \ {r} : asks'[q] = asks[q]
    BY <1>1
  <1> QED BY <1>2, <1>5, <1>6

LEMMA QueueClosed ==
  ASSUME Asking, NEW r \in DOMAIN asks, Closed(r)
  PROVE  /\ AskTypes' /\ Queued' /\ Shown'
         /\ \A q \in DOMAIN asks : asks[q].reply # "none" => asks'[q].reply = asks[q].reply
  <1> DEFINE a == [Finish(asks[r], "stop") EXCEPT !.view = "closed"]
  <1>1. asks' = [asks EXCEPT ![r] = a] /\ UNCHANGED <<idle, dialog>> /\ asks[r].view = "settled"
    BY DEF Closed, window
  <1>2. asks[r] \in Requests /\ "stop" \in Choices
    BY DEF Asking, AskTypes, Choices
  <1>3. a \in Requests /\ a.view = "closed" /\ a.reply = asks[r].reply
    BY <1>1, <1>2, FinishFacts
  <1> HIDE DEF a
  <1>4. AskTypes' /\ Queued' /\ Shown'
    BY <1>1, <1>3, QueueOne
  <1>5. \A q \in DOMAIN asks \ {r} : asks'[q] = asks[q]
    BY <1>1
  <1>6. asks'[r] = a
    BY <1>1
  <1> QED BY <1>3, <1>4, <1>5, <1>6

LEMMA QueueShow ==
  ASSUME Asking, ShowDialog
  PROVE  /\ AskTypes' /\ Queued' /\ Shown'
         /\ \A q \in DOMAIN asks : asks[q].reply # "none" => asks'[q].reply = asks[q].reply
  <1>1. idle # <<>> /\ idle[1].call = "ask" /\ idle' = Tail(idle) /\ 1 \in DOMAIN idle
    BY TailFacts DEF ShowDialog, Served, Asking, AskTypes
  <1>2. PICK r \in DOMAIN asks : r = idle[1].req /\ Unanswered(r)
    BY <1>1 DEF Asking, Queued, Unanswered
  <1>3. /\ idle' \in Seq(Calls)
        /\ \A i \in DOMAIN idle' : idle'[i] = idle[i + 1] /\ i + 1 \in DOMAIN idle /\ i + 1 # 1
        /\ \A i, j \in DOMAIN idle' : i # j => i + 1 # j + 1
    BY <1>1, TailFacts DEF Asking, AskTypes
  <1>4. PICK a \in Requests :
          /\ asks' = [asks EXCEPT ![r] = a] /\ a.view # "queued"
          /\ a.view = "open" => a.reply = "none"
          /\ dialog' = dialog \/ dialog' = r
    <2>0. Head(idle).req = r /\ asks[r] \in Requests /\ asks[r].reply = "none"
      BY <1>1, <1>2, TailFacts DEF Asking, AskTypes, Unanswered
    <2>1. CASE Current(Head(idle).op) /\ dialog = 0
      <3>1. [asks[r] EXCEPT !.view = "open"] \in Requests
            /\ [asks[r] EXCEPT !.view = "open"].reply = "none"
        BY <2>0 DEF Requests
      <3>2. asks' = [asks EXCEPT ![r] = [asks[r] EXCEPT !.view = "open"]] /\ dialog' = r
        BY <2>0, <2>1 DEF ShowDialog
      <3>3. [asks[r] EXCEPT !.view = "open"].view = "open"
        BY <2>0 DEF Requests
      <3> QED BY <3>1, <3>2, <3>3
    <2>2. CASE ~(Current(Head(idle).op) /\ dialog = 0)
      <3>1. [asks[r] EXCEPT !.view = "closed", !.reply = "stop"] \in Requests
            /\ [asks[r] EXCEPT !.view = "closed", !.reply = "stop"].view = "closed"
        BY <2>0 DEF Requests, Choices
      <3>2. asks' = [asks EXCEPT ![r] = [asks[r] EXCEPT !.view = "closed", !.reply = "stop"]]
            /\ dialog' = dialog
        BY <2>0, <2>2 DEF ShowDialog, Refuse
      <3> QED BY <3>1, <3>2
    <2> QED BY <2>1, <2>2
  <1>5. asks' \in Seq(Requests) /\ DOMAIN asks' = DOMAIN asks
        /\ asks'[r] = a /\ \A q \in DOMAIN asks \ {r} : asks'[q] = asks[q]
    BY <1>4 DEF Asking, AskTypes
  <1>6. AskTypes'
    BY <1>3, <1>5 DEF AskTypes
  <1>7. \A i \in DOMAIN idle' : idle'[i].call = "ask" => idle[i + 1].req # r
    BY <1>1, <1>2, <1>3 DEF Asking, Queued
  <1>8. Queued'
    <2>1. \A i \in DOMAIN idle' : idle'[i].call = "ask" => Unanswered(idle[i].req)'
      BY <1>3, <1>5, <1>7 DEF Asking, Queued, Unanswered
    <2>2. \A i, j \in DOMAIN idle' :
            i # j /\ idle'[i].call = "ask" /\ idle'[j].call = "ask"
              => idle'[i].req # idle'[j].req
      <3> SUFFICES ASSUME NEW i \in DOMAIN idle', NEW j \in DOMAIN idle', i # j,
                          idle'[i].call = "ask", idle'[j].call = "ask"
                   PROVE  idle'[i].req # idle'[j].req
        OBVIOUS
      <3>1. /\ i + 1 \in DOMAIN idle /\ j + 1 \in DOMAIN idle /\ i + 1 # j + 1
            /\ idle'[i] = idle[i + 1] /\ idle'[j] = idle[j + 1]
        BY <1>3
      <3> QED BY <3>1 DEF Asking, Queued
    <2>3. \A q \in DOMAIN asks' : asks'[q].view = "open" => asks'[q].reply = "none"
      BY <1>4, <1>5 DEF Asking, Queued
    <2> QED BY <2>1, <2>2, <2>3 DEF Queued
  <1>9. Shown'
    BY <1>4, <1>5 DEF Asking, Shown
  <1> QED BY <1>2, <1>5, <1>6, <1>8, <1>9 DEF Unanswered

LEMMA QueueServeEnded ==
  ASSUME Asking, ServeEnded
  PROVE  /\ AskTypes' /\ Queued' /\ Shown'
         /\ \A q \in DOMAIN asks : asks[q].reply # "none" => asks'[q].reply = asks[q].reply
  <1>1. idle # <<>> /\ idle' = Tail(idle)
    BY DEF ServeEnded, Served
  <1>2. /\ idle' \in Seq(Calls)
        /\ \A i \in DOMAIN idle' : idle'[i] = idle[i + 1] /\ i + 1 \in DOMAIN idle /\ i + 1 # 1
        /\ \A i, j \in DOMAIN idle' : i # j => i + 1 # j + 1
    BY <1>1, TailFacts DEF Asking, AskTypes
  <1>3. /\ asks' \in Seq(Requests) /\ DOMAIN asks' = DOMAIN asks
        /\ \A q \in DOMAIN asks :
             \/ asks'[q] = asks[q]
             \/ /\ asks[q].view # "queued" /\ asks'[q].view = "closed"
                /\ asks[q].reply # "none" => asks'[q].reply = asks[q].reply
        /\ dialog' = 0 \/ dialog' = dialog
    <2>1. CASE Current(Head(idle).op)
      <3> DEFINE a(r) == [Finish(asks[r], "stop") EXCEPT !.view = "closed"]
      <3>1. \A r \in DOMAIN asks :
              /\ a(r) \in Requests /\ a(r).view = "closed"
              /\ asks[r].reply # "none" => a(r).reply = asks[r].reply
        <4> SUFFICES ASSUME NEW r \in DOMAIN asks
                     PROVE  /\ a(r) \in Requests /\ a(r).view = "closed"
                            /\ asks[r].reply # "none" => a(r).reply = asks[r].reply
          OBVIOUS
        <4>1. asks[r] \in Requests /\ "stop" \in Choices
          BY DEF Asking, AskTypes, Choices
        <4>2. asks[r].view = "open" => asks[r].reply = "none"
          BY DEF Asking, Queued
        <4> QED BY <4>1, <4>2, FinishFacts
      <3>2. asks' = [r \in DOMAIN asks |-> IF r = dialog THEN a(r) ELSE asks[r]] /\ dialog' = 0
        BY <2>1 DEF ServeEnded
      <3>3. dialog \in DOMAIN asks => asks[dialog].view # "queued"
        BY DEF Asking, Shown, AskTypes
      <3> HIDE DEF a
      <3>4. \A r \in DOMAIN asks : asks'[r] = IF r = dialog THEN a(r) ELSE asks[r]
        BY <3>2
      <3>5. asks' \in Seq(Requests) /\ DOMAIN asks' = DOMAIN asks
        <4>1. DOMAIN asks = 1..Len(asks) /\ Len(asks) \in Nat
              /\ \A r \in DOMAIN asks : asks[r] \in Requests
          BY DEF Asking, AskTypes
        <4>2. DOMAIN asks' = 1..Len(asks) /\ \A r \in 1..Len(asks) : asks'[r] \in Requests
          BY <3>1, <3>2, <4>1
        <4>3. asks' \in [1..Len(asks) -> Requests]
          BY <3>1, <3>2, <4>1
        <4> QED BY <4>1, <4>2, <4>3
      <3> QED BY <3>1, <3>2, <3>3, <3>4, <3>5
    <2>2. CASE ~Current(Head(idle).op)
      BY <2>2 DEF ServeEnded, Asking, AskTypes
    <2> QED BY <2>1, <2>2
  <1>4. AskTypes'
    BY <1>2, <1>3 DEF AskTypes
  <1>5. Queued'
    <2>1. \A i \in DOMAIN idle' : idle'[i].call = "ask" => Unanswered(idle[i].req)'
      <3> SUFFICES ASSUME NEW i \in DOMAIN idle', idle'[i].call = "ask"
                   PROVE  Unanswered(idle[i].req)'
        OBVIOUS
      <3>1. idle'[i] = idle[i + 1] /\ i + 1 \in DOMAIN idle
        BY <1>2
      <3>2. Unanswered(idle[i + 1].req)
        BY <3>1 DEF Asking, Queued
      <3> QED BY <1>3, <3>1, <3>2 DEF Unanswered
    <2>2. \A i, j \in DOMAIN idle' :
            i # j /\ idle'[i].call = "ask" /\ idle'[j].call = "ask"
              => idle'[i].req # idle'[j].req
      <3> SUFFICES ASSUME NEW i \in DOMAIN idle', NEW j \in DOMAIN idle', i # j,
                          idle'[i].call = "ask", idle'[j].call = "ask"
                   PROVE  idle'[i].req # idle'[j].req
        OBVIOUS
      <3>1. /\ i + 1 \in DOMAIN idle /\ j + 1 \in DOMAIN idle /\ i + 1 # j + 1
            /\ idle'[i] = idle[i + 1] /\ idle'[j] = idle[j + 1]
        BY <1>2
      <3> QED BY <3>1 DEF Asking, Queued
    <2>3. \A q \in DOMAIN asks' : asks'[q].view = "open" => asks'[q].reply = "none"
      BY <1>3 DEF Asking, Queued
    <2> QED BY <2>1, <2>2, <2>3 DEF Queued
  <1>6. Shown'
    BY <1>3 DEF Asking, Shown
  <1> QED BY <1>3, <1>4, <1>5, <1>6

\* No step takes back a reply.
Kept == \A r \in DOMAIN asks : asks[r].reply # "none" => asks'[r].reply = asks[r].reply

LEMMA StepQueue ==
  ASSUME Asking, [Next]_vars
  PROVE  AskTypes' /\ Queued' /\ Shown' /\ Kept
  <1>1. CASE Ask
    <2>1. runs \in 1..MaxRuns
      BY <1>1 DEF Ask, Asking, RunsTypes
    <2>2. UNCHANGED dialog
      BY <1>1 DEF Ask, window
    <2>3. Shown'
      BY <1>1, <2>1, <2>2, QueueAsk DEF Asking, Shown, AskTypes
    <2> QED BY <1>1, <2>1, <2>3, QueueAsk DEF Kept
  <1>2. CASE Worker /\ ~Ask
    <2>1. UNCHANGED asks /\ (UNCHANGED <<idle, dialog>> \/ End)
      BY <1>2 DEF Worker, SkipFile, OpenFile, NextModel, NextChunk, ChunkOk, ModelOk, FileOk,
                  AllDone, WorkerStops, Fails, FirstOom, RetryOom, Exhausted, AutoFails, AskNobody,
                  NobodyToAsk, TakeStop, TakeRetry, Retry, InputFails, NextFile, Returns, window
    <2>2. CASE UNCHANGED <<idle, dialog>>
      BY <2>1, <2>2, QueueStays DEF Asking, Shown, Kept
    <2>3. CASE End
      <3>1. runs \in 1..MaxRuns /\ UNCHANGED dialog
        BY <1>2, <2>3 DEF Asking, RunsTypes, End, window, Worker, SkipFile, OpenFile, NextModel,
              NextChunk, ChunkOk, ModelOk, FileOk, AllDone, WorkerStops, Fails, FirstOom, RetryOom,
              Exhausted, AutoFails, AskNobody, NobodyToAsk, TakeStop, TakeRetry, Retry, InputFails,
              NextFile, Returns
      <3>2. AskTypes' /\ Queued'
        BY <2>1, <2>3, <3>1, QueueStays, QueueEnded DEF End
      <3> QED BY <2>1, <3>1, <3>2 DEF Asking, Shown, Kept
    <2> QED BY <2>1, <2>2, <2>3
  <1>3. CASE MainLoop
    BY <1>3, QueueShow, QueueServeEnded DEF MainLoop, Kept
  <1>4. CASE User
    BY <1>4, QueueChoose DEF User, Kept
  <1>5. ASSUME NEW r \in DOMAIN asks, Closed(r) PROVE AskTypes' /\ Queued' /\ Shown' /\ Kept
    BY <1>5, QueueClosed DEF Kept
  <1>6. CASE StartRun \/ Stop \/ ShutDown \/ UNCHANGED vars
    <2>1. UNCHANGED <<asks, idle, dialog>>
      BY <1>6 DEF StartRun, Stop, ShutDown, vars, window
    <2> QED BY <2>1, QueueStays DEF Asking, Shown, Kept
  <1> QED BY <1>1, <1>2, <1>3, <1>4, <1>5, <1>6 DEF Next

LEMMA StepRuns == Asking /\ [Next]_vars => RunsTypes'
  <1> SUFFICES ASSUME Asking, [Next]_vars PROVE RunsTypes'
    OBVIOUS
  <1> USE DEF Asking, RunsTypes
  <1>1. CASE StartRun
    BY <1>1, RecoveryAssumption DEF StartRun
  <1>2. CASE Worker
    <2>1. UNCHANGED runs /\ (pc' # "off" => pc # "off")
      BY <1>2 DEF Worker, SkipFile, OpenFile, NextModel, NextChunk, ChunkOk, ModelOk, FileOk,
            AllDone, WorkerStops, Fails, FirstOom, RetryOom, Exhausted, AutoFails, AskNobody,
            NobodyToAsk, Ask, TakeStop, TakeRetry, Retry, End, InputFails, NextFile, Returns,
            window
    <2> QED BY <2>1
  <1>3. CASE MainLoop \/ User \/ Stop \/ ShutDown \/ (\E r \in DOMAIN asks : Closed(r))
             \/ UNCHANGED vars
    BY <1>3 DEF MainLoop, ShowDialog, ServeEnded, User, Choose, Stop, ShutDown, Closed, window,
                vars
  <1> QED BY <1>1, <1>2, <1>3 DEF Next

\* A choice that was given stands, whatever closes the dialog and whenever: the signal after
\* a response, the end of the run or a later request (oom_dialog.py:101-113,
\* run_control.py:836-884).
THEOREM ReplyStandsHolds == Spec => ReplyStands
  <1>1. Asking /\ [Next]_vars => Asking'
    BY StepQueue, StepRuns DEF Asking
  <1>2. Asking /\ [Next]_vars =>
          [\A r \in DOMAIN asks : asks[r].reply # "none" => asks'[r].reply = asks[r].reply]_asks
    BY StepQueue DEF Kept
  <1> QED BY <1>1, <1>2, InitAsking, PTL DEF Spec, ReplyStands

----------------------------------------------------------------------------
(* One request at a time.  A request of the run that goes on which has no reply   *)
(* yet is the last one, and its worker waits for it or has left it behind; the    *)
(* dialog of the window is the one of such a request.                             *)

Named == \A i \in DOMAIN idle : idle[i].call = "ask" => asks[idle[i].req].op = idle[i].op

Numbered == /\ op \in 0..runs
            /\ \A r \in DOMAIN asks : asks[r].op \in 1..runs
            /\ ~bound => asks = <<>>
            /\ ~closing => (target <=> op # 0)

InFront == ~closing /\ dialog # 0 => asks[dialog].view = "open" /\ asks[dialog].op = op

Lone == ~closing => \A r \in DOMAIN asks :
          asks[r].reply = "none" /\ asks[r].op = op => r = Len(asks) /\ pc \in {"wait", "off"}

Waiting == Asking /\ Named /\ Numbered /\ InFront /\ Lone /\ WaiterHasAnswerer

\* What a step of the worker other than Ask does to the requests and the window.
LEMMA WorkerStep ==
  ASSUME Worker, ~Ask
  PROVE  /\ UNCHANGED <<bound, asks, stopped, runs, closing, dialog>>
         /\ pc # "off"
         /\ pc = "wait" => stopped \/ Answer # "none"
         /\ \/ UNCHANGED <<op, target, idle>> /\ pc' \notin {"wait", "off"}
            \/ pc' = "off" /\ ~bound /\ op' = 0 /\ target' = FALSE /\ UNCHANGED idle
            \/ /\ pc' = "off" /\ UNCHANGED <<op, target>>
               /\ idle' = Append(idle, [call |-> "ended", op |-> runs, req |-> 0])
  <1> USE DEF fixed, window, End, NextFile, Unwind, InputFails
  <1>1. CASE SkipFile \/ OpenFile \/ NextModel \/ NextChunk \/ FileOk \/ AllDone
    BY <1>1 DEF SkipFile, OpenFile, NextModel, NextChunk, FileOk, AllDone
  <1>2. CASE ChunkOk \/ ModelOk
    BY <1>2 DEF ChunkOk, ModelOk, Returns
  <1>3. CASE Fails \/ AutoFails \/ NobodyToAsk
    BY <1>3 DEF Fails, AutoFails, NobodyToAsk
  <1>4. CASE FirstOom \/ RetryOom \/ Exhausted \/ AskNobody \/ Retry
    BY <1>4 DEF FirstOom, RetryOom, Exhausted, AskNobody, Retry
  <1>5. CASE WorkerStops
    BY <1>5 DEF WorkerStops
  <1>6. CASE TakeStop
    BY <1>6 DEF TakeStop, EndingAnswers
  <1>7. CASE TakeRetry
    BY <1>7 DEF TakeRetry
  <1> QED BY <1>1, <1>2, <1>3, <1>4, <1>5, <1>6, <1>7 DEF Worker

\* What becomes of a request that is taken up or answered.
Settles(q) == /\ asks' \in Seq(Requests) /\ Len(asks') = Len(asks) /\ DOMAIN asks' = DOMAIN asks
              /\ \A r \in DOMAIN asks \ {q} : asks'[r] = asks[r]
              /\ q \in DOMAIN asks =>
                   /\ asks'[q].op = asks[q].op
                   /\ asks'[q].reply # "none" \/ asks'[q].view = "open"
                   /\ asks[q].reply # "none" => asks'[q].reply # "none"

\* A step that settles a request and leaves the worker alone.
LEMMA SettledStep ==
  ASSUME Waiting, NEW q, Settles(q), UNCHANGED <<bound, runs, pc, stopped>>,
         (closing => closing') /\ (op' = op \/ (op' = 0 /\ (~closing' => ~target'))),
         ~closing' /\ op' = op => (target' <=> target),
         \/ UNCHANGED idle
         \/ /\ idle # <<>> /\ idle' = Tail(idle)
            /\ Head(idle).call = "ask" => Head(idle).req = q
  PROVE  Named' /\ Numbered' /\ Lone' /\ WaiterHasAnswerer'
  <1> USE DEF Waiting, Asking, AskTypes
  <1>1. /\ asks' \in Seq(Requests) /\ DOMAIN asks' = DOMAIN asks /\ Len(asks') = Len(asks)
        /\ \A r \in DOMAIN asks : asks'[r].op = asks[r].op
        /\ \A r \in DOMAIN asks : asks[r].reply # "none" => asks'[r].reply # "none"
    BY DEF Settles
  <1>2. \A i \in DOMAIN idle' : \E j \in DOMAIN idle : idle'[i] = idle[j]
    BY TailFacts
  <1>3. Named'
    <2> SUFFICES ASSUME NEW i \in DOMAIN idle', idle'[i].call = "ask"
                 PROVE  asks'[idle'[i].req].op = idle'[i].op
      BY DEF Named
    <2>1. PICK j \in DOMAIN idle : idle'[i] = idle[j]
      BY <1>2
    <2>2. idle[j].req \in DOMAIN asks /\ asks[idle[j].req].op = idle[j].op
      BY <2>1 DEF Named, Queued, Unanswered
    <2> QED BY <1>1, <2>1, <2>2
  <1>4. Numbered'
    <2>1. op' \in 0..runs
      BY DEF Numbered, RunsTypes
    <2>2. ~bound => asks' = <<>>
      BY <1>1 DEF Numbered
    <2>3. ~closing' => (target' <=> op' # 0)
      BY DEF Numbered
    <2> QED BY <1>1, <2>1, <2>2, <2>3 DEF Numbered
  <1>5. Lone'
    <2> SUFFICES ASSUME ~closing', NEW r \in DOMAIN asks, asks'[r].reply = "none", asks'[r].op = op'
                 PROVE  r = Len(asks) /\ pc \in {"wait", "off"}
      BY <1>1 DEF Lone
    <2>1. ~closing /\ asks[r].reply = "none" /\ asks[r].op \in 1..runs /\ asks[r].op = op'
      BY <1>1 DEF Numbered
    <2>2. op' = op
      BY <2>1 DEF RunsTypes
    <2> QED BY <2>1, <2>2 DEF Lone
  <1>6. WaiterHasAnswerer'
    <2> SUFFICES ASSUME pc = "wait", ~stopped PROVE WaiterHasAnswerer'
      BY DEF WaiterHasAnswerer
    <2> DEFINE r == Len(asks)
    <2>1. CASE q \in DOMAIN asks /\ q = r
      BY <1>1, <2>1 DEF WaiterHasAnswerer, Settles
    <2>2. CASE asks[r].reply # "none"
      <3>1. CASE r \in DOMAIN asks
        BY <1>1, <2>2, <3>1 DEF WaiterHasAnswerer
      <3>2. CASE r \notin DOMAIN asks
        <4>1. asks = <<>> /\ asks' = <<>>
          BY <1>1, <3>2
        <4> QED BY <2>2, <4>1 DEF WaiterHasAnswerer
      <3> QED BY <3>1, <3>2
    <2>3. CASE asks[r].reply = "none" /\ asks[r].view = "open" /\ ~(q \in DOMAIN asks /\ q = r)
      <3>1. asks'[r] = asks[r]
        <4>1. CASE r \in DOMAIN asks
          BY <2>3, <4>1 DEF Settles
        <4>2. CASE r \notin DOMAIN asks
          <5>1. asks = <<>> /\ asks' = <<>>
            BY <1>1, <4>2
          <5> QED BY <5>1
        <4> QED BY <4>1, <4>2
      <3> QED BY <1>1, <2>3, <3>1 DEF WaiterHasAnswerer
    <2>4. ASSUME NEW i \in DOMAIN idle, idle[i].call = "ask", idle[i].req = r,
                 ~(q \in DOMAIN asks /\ q = r)
          PROVE  WaiterHasAnswerer'
      <3>1. r \in DOMAIN asks /\ r # q
        BY <2>4 DEF Queued, Unanswered
      <3>2. \E j \in DOMAIN idle' : idle'[j] = idle[i]
        <4>1. CASE UNCHANGED idle
          BY <2>4, <4>1
        <4>2. CASE idle # <<>> /\ idle' = Tail(idle)
          <5>1. i # 1
            BY <2>4, <3>1, <4>2, TailFacts
          <5>2. i - 1 \in DOMAIN Tail(idle) /\ Tail(idle)[i - 1] = idle[i]
            BY <2>4, <4>2, <5>1
          <5> QED BY <4>2, <5>2
        <4> QED BY <4>1, <4>2
      <3> QED BY <1>1, <2>4, <3>2 DEF WaiterHasAnswerer
    <2> QED BY <2>1, <2>2, <2>3, <2>4 DEF WaiterHasAnswerer
  <1> QED BY <1>3, <1>4, <1>5, <1>6

\* A choice, the closing of a dialog and the end of a run settle at most one request.
LEMMA ChooseWaiting ==
  ASSUME Waiting, NEW r \in DOMAIN asks, NEW choice \in Choices, Choose(r, choice)
  PROVE  Named' /\ Numbered' /\ InFront' /\ Lone' /\ WaiterHasAnswerer'
  <1> USE DEF Waiting, Asking, AskTypes, fixed
  <1>1. PICK c \in Choices : asks' = [asks EXCEPT ![r] = Finish(asks[r], c)]
    BY DEF Choose, Choices
  <1>2. asks[r] \in Requests /\ asks[r].view = "open" /\ asks[r].reply = "none"
    BY DEF Choose, Queued
  <1>3. /\ Finish(asks[r], c) \in Requests /\ Finish(asks[r], c).op = asks[r].op
        /\ Finish(asks[r], c).reply = c
    <2>1. Finish(asks[r], c) = [asks[r] EXCEPT !.view = "settled", !.reply = c]
      BY <1>2 DEF Finish
    <2> QED BY <1>2, <2>1 DEF Requests, Choices
  <1>4. Settles(r)
    <2>1. asks' \in Seq(Requests) /\ DOMAIN asks' = DOMAIN asks /\ Len(asks') = Len(asks)
          /\ asks'[r] = Finish(asks[r], c) /\ \A q \in DOMAIN asks \ {r} : asks'[q] = asks[q]
      BY <1>1, <1>3
    <2> QED BY <1>2, <1>3, <2>1 DEF Settles, Choices
  <1>5. UNCHANGED <<bound, runs, pc, stopped, op, target, closing, idle>>
    BY DEF Choose
  <1>6. Named' /\ Numbered' /\ Lone' /\ WaiterHasAnswerer'
    BY <1>4, <1>5, SettledStep
  <1>7. InFront'
    <2> SUFFICES ASSUME ~closing, dialog' # 0
                 PROVE  asks'[dialog'].view = "open" /\ asks'[dialog'].op = op
      BY <1>5 DEF InFront
    <2>1. ~(Current(asks[r].op) /\ target) /\ dialog' = dialog
      BY DEF Choose, DropDialog
    <2>2. asks[dialog].view = "open" /\ asks[dialog].op = op /\ dialog \in DOMAIN asks
      BY <2>1 DEF InFront, Shown
    <2>3. target
      BY <2>2 DEF Numbered
    <2>4. dialog # r
      BY <2>1, <2>2, <2>3 DEF Current
    <2> QED BY <1>4, <2>1, <2>2, <2>4 DEF Settles
  <1> QED BY <1>6, <1>7

LEMMA ClosedWaiting ==
  ASSUME Waiting, NEW r \in DOMAIN asks, Closed(r)
  PROVE  Named' /\ Numbered' /\ InFront' /\ Lone' /\ WaiterHasAnswerer'
  <1> USE DEF Waiting, Asking, AskTypes, fixed, window
  <1> DEFINE a == [Finish(asks[r], "stop") EXCEPT !.view = "closed"]
  <1>1. asks' = [asks EXCEPT ![r] = a] /\ asks[r].view = "settled"
    BY DEF Closed
  <1>2. Finish(asks[r], "stop") = asks[r] /\ asks[r] \in Requests
    BY <1>1 DEF Finish
  <1>3. a \in Requests /\ a.op = asks[r].op /\ a.reply = asks[r].reply
    BY <1>2 DEF Requests
  <1>4. UNCHANGED <<bound, runs, pc, stopped, op, target, closing, idle, dialog>>
    BY DEF Closed
  <1> HIDE DEF a
  <1>5. /\ asks' \in Seq(Requests) /\ DOMAIN asks' = DOMAIN asks /\ Len(asks') = Len(asks)
        /\ asks'[r] = a /\ \A q \in DOMAIN asks \ {r} : asks'[q] = asks[q]
    BY <1>1, <1>3
  <1>6. \A q \in DOMAIN asks : asks'[q].op = asks[q].op /\ asks'[q].reply = asks[q].reply
    BY <1>3, <1>5
  <1>7. InFront'
    <2> SUFFICES ASSUME ~closing, dialog # 0 PROVE asks'[dialog].view = "open" /\ asks'[dialog].op = op
      BY <1>4 DEF InFront
    <2>1. asks[dialog].view = "open" /\ asks[dialog].op = op /\ dialog \in DOMAIN asks
      BY DEF InFront, Shown
    <2> QED BY <1>1, <1>5, <2>1
  <1>8. Named' /\ Numbered' /\ Lone'
    <2>1. Named'
      BY <1>4, <1>6 DEF Named, Queued, Unanswered
    <2>2. Numbered'
      <3>1. ~bound => asks' = <<>>
        BY <1>5 DEF Numbered
      <3> QED BY <1>4, <1>5, <1>6, <3>1 DEF Numbered
    <2>3. Lone'
      BY <1>4, <1>5, <1>6 DEF Lone
    <2> QED BY <2>1, <2>2, <2>3
  <1>9. WaiterHasAnswerer'
    <2> SUFFICES ASSUME pc = "wait", ~stopped, asks'[Len(asks)].reply = "none"
                 PROVE  \/ asks'[Len(asks)].view = "open"
                        \/ \E i \in DOMAIN idle : idle[i].call = "ask" /\ idle[i].req = Len(asks)
      BY <1>4, <1>5 DEF WaiterHasAnswerer
    <2>1. Len(asks) \in DOMAIN asks
      BY DEF Lone
    <2>2. asks[Len(asks)].reply = "none"
      BY <1>6, <2>1
    <2>3. asks[Len(asks)].view # "open" \/ asks'[Len(asks)] = asks[Len(asks)]
      BY <1>1, <1>5, <2>1
    <2> QED BY <2>2, <2>3 DEF WaiterHasAnswerer
  <1> QED BY <1>7, <1>8, <1>9

LEMMA EndedWaiting ==
  ASSUME Waiting, ServeEnded
  PROVE  Named' /\ Numbered' /\ InFront' /\ Lone' /\ WaiterHasAnswerer'
  <1> USE DEF Waiting, Asking, AskTypes, fixed
  <1>1. idle # <<>> /\ idle' = Tail(idle) /\ Head(idle).call # "ask"
        /\ UNCHANGED <<bound, runs, pc, stopped, closing>>
    BY DEF ServeEnded, Served
  <1>2. CASE ~Current(Head(idle).op)
    <2>1. UNCHANGED <<op, target, dialog, asks>>
      BY <1>2 DEF ServeEnded
    <2>2. Settles(0)
      BY <2>1 DEF Settles
    <2>3. Named' /\ Numbered' /\ Lone' /\ WaiterHasAnswerer'
      BY <1>1, <2>1, <2>2, SettledStep
    <2> QED BY <1>1, <2>1, <2>3 DEF InFront
  <1>3. CASE Current(Head(idle).op)
    <2> DEFINE a(r) == [Finish(asks[r], "stop") EXCEPT !.view = "closed"]
    <2>1. /\ op' = 0 /\ target' = FALSE /\ dialog' = 0
          /\ asks' = [r \in DOMAIN asks |-> IF r = dialog THEN a(r) ELSE asks[r]]
      BY <1>3 DEF ServeEnded
    <2>2. ~closing /\ (op' = op => (target' <=> target))
      <3>1. ~closing
        BY <1>3 DEF Current
      <3> QED BY <2>1, <3>1 DEF Numbered
    <2>3. CASE dialog = 0
      <3>1. asks' = asks
        BY <2>1, <2>3
      <3>2. Settles(0)
        BY <3>1 DEF Settles
      <3>3. Named' /\ Numbered' /\ Lone' /\ WaiterHasAnswerer'
        BY <1>1, <2>1, <2>2, <3>2, SettledStep
      <3> QED BY <2>1, <3>3 DEF InFront
    <2>4. CASE dialog # 0
      <3>1. dialog \in DOMAIN asks /\ asks[dialog] \in Requests /\ asks[dialog].view = "open"
        BY <2>2, <2>4 DEF InFront, Shown
      <3>2. Finish(asks[dialog], "stop") = [asks[dialog] EXCEPT !.view = "settled", !.reply = "stop"]
        BY <3>1 DEF Finish
      <3>3. a(dialog) \in Requests /\ a(dialog).op = asks[dialog].op /\ a(dialog).reply = "stop"
        BY <3>1, <3>2 DEF Requests, Choices
      <3> HIDE DEF a
      <3>4. asks' = [asks EXCEPT ![dialog] = a(dialog)]
        BY <2>1, <3>1
      <3>5. Settles(dialog)
        <4>1. asks' \in Seq(Requests) /\ DOMAIN asks' = DOMAIN asks /\ Len(asks') = Len(asks)
              /\ asks'[dialog] = a(dialog) /\ \A q \in DOMAIN asks \ {dialog} : asks'[q] = asks[q]
          BY <3>1, <3>3, <3>4
        <4> QED BY <3>3, <4>1 DEF Settles
      <3>6. Named' /\ Numbered' /\ Lone' /\ WaiterHasAnswerer'
        BY <1>1, <2>1, <2>2, <3>5, SettledStep
      <3> QED BY <2>1, <3>6 DEF InFront
    <2> QED BY <2>3, <2>4
  <1> QED BY <1>2, <1>3

LEMMA ShowWaiting ==
  ASSUME Waiting, ShowDialog
  PROVE  Named' /\ Numbered' /\ InFront' /\ Lone' /\ WaiterHasAnswerer'
  <1> USE DEF Waiting, Asking, AskTypes, fixed
  <1>1. idle # <<>> /\ idle' = Tail(idle) /\ Head(idle) = idle[1] /\ idle[1].call = "ask"
        /\ 1 \in DOMAIN idle /\ UNCHANGED <<bound, runs, pc, stopped, closing, op, target>>
    BY TailFacts DEF ShowDialog, Served
  <1>2. PICK r \in DOMAIN asks : r = idle[1].req /\ Unanswered(r) /\ asks[r].op = idle[1].op
    BY <1>1 DEF Queued, Unanswered, Named
  <1>3. PICK a \in Requests :
          /\ asks' = [asks EXCEPT ![r] = a] /\ a.op = asks[r].op
          /\ a.reply # "none" \/ a.view = "open"
          /\ \/ dialog' = dialog /\ (dialog # 0 \/ closing \/ op # asks[r].op)
             \/ dialog' = r /\ a.view = "open" /\ op = asks[r].op
    <2>0. Head(idle).req = r /\ Head(idle).op = asks[r].op /\ asks[r] \in Requests
      BY <1>1, <1>2
    <2>1. CASE Current(Head(idle).op) /\ dialog = 0
      <3>1. [asks[r] EXCEPT !.view = "open"] \in Requests
            /\ [asks[r] EXCEPT !.view = "open"].op = asks[r].op
            /\ [asks[r] EXCEPT !.view = "open"].view = "open"
        BY <2>0 DEF Requests
      <3>2. asks' = [asks EXCEPT ![r] = [asks[r] EXCEPT !.view = "open"]] /\ dialog' = r
        BY <2>0, <2>1 DEF ShowDialog
      <3> QED BY <2>0, <2>1, <3>1, <3>2 DEF Current
    <2>2. CASE ~(Current(Head(idle).op) /\ dialog = 0)
      <3>1. [asks[r] EXCEPT !.view = "closed", !.reply = "stop"] \in Requests
            /\ [asks[r] EXCEPT !.view = "closed", !.reply = "stop"].op = asks[r].op
            /\ [asks[r] EXCEPT !.view = "closed", !.reply = "stop"].reply = "stop"
        BY <2>0 DEF Requests, Choices
      <3>2. asks' = [asks EXCEPT ![r] = [asks[r] EXCEPT !.view = "closed", !.reply = "stop"]]
            /\ dialog' = dialog
        BY <2>0, <2>2 DEF ShowDialog, Refuse
      <3> QED BY <2>0, <2>2, <3>1, <3>2 DEF Current
    <2> QED BY <2>1, <2>2
  <1>4. /\ asks' \in Seq(Requests) /\ DOMAIN asks' = DOMAIN asks /\ Len(asks') = Len(asks)
        /\ asks'[r] = a /\ \A q \in DOMAIN asks \ {r} : asks'[q] = asks[q]
    <2>1. asks' = [asks EXCEPT ![r] = a] /\ asks \in Seq(Requests)
      BY <1>3
    <2> QED BY <2>1
  <1>5. Settles(r)
    <2>1. asks[r].reply = "none"
      BY <1>2 DEF Unanswered
    <2>2. asks'[r].op = asks[r].op /\ (asks'[r].reply # "none" \/ asks'[r].view = "open")
      BY <1>3, <1>4
    <2> QED BY <1>4, <2>1, <2>2 DEF Settles
  <1>6. Named' /\ Numbered' /\ Lone' /\ WaiterHasAnswerer'
    BY <1>1, <1>2, <1>5, SettledStep
  <1>7. InFront'
    <2>1. CASE dialog' = r /\ a.view = "open" /\ op = asks[r].op
      <3>1. asks'[r].view = "open" /\ asks'[r].op = op /\ dialog' = r /\ op' = op
        BY <1>1, <1>3, <1>4, <2>1
      <3> QED BY <3>1 DEF InFront
    <2>2. CASE dialog' = dialog /\ ~closing /\ dialog # 0
      <3>1. asks[dialog].view = "open" /\ asks[dialog].op = op /\ dialog \in DOMAIN asks
        BY <2>2 DEF InFront, Shown
      <3>2. dialog # r
        BY <1>2, <3>1 DEF Unanswered
      <3> QED BY <1>1, <1>4, <2>2, <3>1, <3>2 DEF InFront
    <2>3. CASE dialog' = dialog /\ (closing \/ dialog = 0)
      BY <1>1, <2>3 DEF InFront
    <2> QED BY <1>3, <2>1, <2>2, <2>3
  <1> QED BY <1>6, <1>7

\* The request that the worker makes is the first of the run that goes on without a reply.
LEMMA AskWaiting ==
  ASSUME Waiting, Ask
  PROVE  Named' /\ Numbered' /\ InFront' /\ Lone' /\ WaiterHasAnswerer'
  <1> USE DEF Waiting, Asking, AskTypes, fixed, window
  <1>1. /\ pc = "ask" /\ pc' = "wait" /\ runs \in 1..MaxRuns /\ bound
        /\ UNCHANGED <<bound, op, runs, target, closing, dialog>>
    BY DEF Ask, RunsTypes
  <1>0. PICK n \in Nat : n = Len(asks) + 1
    OBVIOUS
  <1>2. PICK q \in Requests : q.op = runs /\ asks' = Append(asks, q)
    <2> DEFINE v == [op |-> runs, canRetry |-> cands # {},
                     canExport |-> Ensemble /\ members # <<>>,
                     view |-> "queued", reply |-> "none"]
    <2>1. (cands # {}) \in BOOLEAN /\ (Ensemble /\ members # <<>>) \in BOOLEAN
      OBVIOUS
    <2>2. v \in Requests /\ v.op = runs
      BY <1>1, <2>1 DEF Requests
    <2>3. asks' = Append(asks, v)
      BY DEF Ask
    <2> HIDE DEF v
    <2> QED BY <2>2, <2>3
  <1>3. /\ Len(asks') = n /\ DOMAIN asks' = DOMAIN asks \cup {n} /\ asks' # <<>>
        /\ \A r \in DOMAIN asks : asks'[r] = asks[r] /\ r # n
        /\ asks'[n] = q
    BY <1>0, <1>2, AppendFacts
  <1>4. PICK e \in Calls : e.call = "ask" /\ e.req = n /\ e.op = runs /\ idle' = Append(idle, e)
    <2> DEFINE v == [call |-> "ask", op |-> runs, req |-> n]
    <2>1. v \in Calls /\ v.call = "ask" /\ v.req = n /\ v.op = runs
      BY <1>1 DEF Calls
    <2>2. idle' = Append(idle, v)
      BY <1>3 DEF Ask
    <2> HIDE DEF v
    <2> QED BY <2>1, <2>2
  <1>5. /\ DOMAIN idle' = DOMAIN idle \cup {Len(idle) + 1}
        /\ \A i \in DOMAIN idle : idle'[i] = idle[i]
        /\ idle'[Len(idle) + 1] = e
    BY <1>4, AppendFacts
  <1>6. Named'
    <2>1. ASSUME NEW i \in DOMAIN idle, idle[i].call = "ask"
          PROVE  asks'[idle[i].req].op = idle[i].op
      BY <1>3, <2>1 DEF Named, Queued, Unanswered
    <2>2. asks'[e.req].op = e.op
      BY <1>2, <1>3, <1>4
    <2>3. ASSUME NEW i \in DOMAIN idle', idle'[i].call = "ask"
          PROVE  asks'[idle'[i].req].op = idle'[i].op
      <3>1. CASE i \in DOMAIN idle
        BY <1>5, <2>1, <2>3, <3>1
      <3>2. CASE i = Len(idle) + 1
        BY <1>5, <2>2, <3>2
      <3> QED BY <1>5, <3>1, <3>2
    <2> QED BY <2>3 DEF Named
  <1>7. Numbered'
    <2>1. \A r \in DOMAIN asks' : asks'[r].op \in 1..runs
      BY <1>1, <1>2, <1>3 DEF Numbered
    <2> QED BY <1>1, <2>1 DEF Numbered
  <1>8. InFront'
    BY <1>1, <1>3 DEF InFront, Shown
  <1>9. Lone'
    BY <1>1, <1>3 DEF Lone
  <1>10. WaiterHasAnswerer'
    BY <1>3, <1>4, <1>5 DEF WaiterHasAnswerer
  <1> QED BY <1>6, <1>7, <1>8, <1>9, <1>10

LEMMA WorkerWaiting ==
  ASSUME Waiting, Worker, ~Ask
  PROVE  Named' /\ Numbered' /\ InFront' /\ Lone' /\ WaiterHasAnswerer'
  <1> USE DEF Waiting, Asking, AskTypes
  <1>1. UNCHANGED <<bound, asks, stopped, runs, closing, dialog>> /\ pc # "off" /\ pc' # "wait"
    BY WorkerStep
  <1>2. WaiterHasAnswerer'
    BY <1>1 DEF WaiterHasAnswerer
  <1>3. runs \in 1..MaxRuns /\ Len(asks) \in Nat
    BY <1>1 DEF RunsTypes
  <1>4. CASE UNCHANGED <<op, target, idle>>
    <2>1. Named' /\ Numbered' /\ InFront'
      BY <1>1, <1>4 DEF Named, Numbered, InFront
    <2>2. Lone'
      <3> SUFFICES ASSUME ~closing, NEW r \in DOMAIN asks, asks[r].reply = "none", asks[r].op = op
                   PROVE  r = Len(asks) /\ pc' \in {"wait", "off"}
        BY <1>1, <1>4 DEF Lone
      <3>1. r = Len(asks) /\ pc = "wait"
        BY <1>1 DEF Lone
      <3>2. stopped \/ Answer # "none"
        BY <3>1, WorkerStep
      <3>3. stopped
        BY <3>1, <3>2 DEF Answer
      <3> QED BY <3>1, <3>3 DEF Worker, SkipFile, OpenFile, NextModel, NextChunk, ChunkOk, ModelOk,
            FileOk, AllDone, WorkerStops, Fails, FirstOom, RetryOom, Exhausted, AutoFails, AskNobody,
            NobodyToAsk, TakeStop, TakeRetry, Retry, End, EndingAnswers, Answer
    <2> QED BY <1>2, <2>1, <2>2
  <1>5. CASE pc' = "off" /\ ~bound /\ op' = 0 /\ target' = FALSE /\ UNCHANGED idle
    <2>1. asks = <<>>
      BY <1>5 DEF Numbered
    <2>2. \A i \in DOMAIN idle : idle[i].call # "ask"
      BY <2>1 DEF Queued, Unanswered
    <2>3. Named' /\ Lone'
      BY <1>1, <1>5, <2>1, <2>2 DEF Named, Lone
    <2>4. Numbered'
      BY <1>1, <1>3, <1>5, <2>1 DEF Numbered
    <2>5. InFront'
      BY <1>1, <2>1 DEF InFront, Shown
    <2> QED BY <1>2, <2>3, <2>4, <2>5
  <1>6. CASE /\ pc' = "off" /\ UNCHANGED <<op, target>>
             /\ idle' = Append(idle, [call |-> "ended", op |-> runs, req |-> 0])
    <2>1. PICK e \in Calls : e.call = "ended" /\ idle' = Append(idle, e)
      <3> DEFINE v == [call |-> "ended", op |-> runs, req |-> 0]
      <3>1. v \in Calls /\ v.call = "ended" /\ idle' = Append(idle, v)
        BY <1>3, <1>6 DEF Calls
      <3> HIDE DEF v
      <3> QED BY <3>1
    <2>2. /\ DOMAIN idle' = DOMAIN idle \cup {Len(idle) + 1}
          /\ \A i \in DOMAIN idle : idle'[i] = idle[i]
          /\ idle'[Len(idle) + 1] = e
      BY <2>1, AppendFacts
    <2>3. Named'
      BY <1>1, <2>1, <2>2 DEF Named
    <2>4. Numbered' /\ InFront'
      BY <1>1, <1>6 DEF Numbered, InFront
    <2>5. Lone'
      <3> SUFFICES ASSUME ~closing, NEW r \in DOMAIN asks, asks[r].reply = "none", asks[r].op = op
                   PROVE  r = Len(asks)
        BY <1>1, <1>6 DEF Lone
      <3> QED BY DEF Lone
    <2> QED BY <1>2, <2>3, <2>4, <2>5
  <1> QED BY <1>4, <1>5, <1>6, WorkerStep

LEMMA StepWaiting == Waiting /\ [Next]_vars => Waiting'
  <1> SUFFICES ASSUME Waiting, [Next]_vars PROVE Waiting'
    OBVIOUS
  <1>0. Asking'
    BY StepQueue, StepRuns DEF Waiting, Asking
  <1>1. CASE Worker
    BY <1>0, <1>1, AskWaiting, WorkerWaiting DEF Waiting
  <1>2. CASE MainLoop
    BY <1>0, <1>2, ShowWaiting, EndedWaiting DEF MainLoop, Waiting
  <1>3. CASE User
    BY <1>0, <1>3, ChooseWaiting DEF User, Waiting
  <1>4. ASSUME NEW r \in DOMAIN asks, Closed(r) PROVE Waiting'
    BY <1>0, <1>4, ClosedWaiting DEF Waiting
  <1>5. CASE StartRun
    <2>1. /\ op = 0 /\ ~closing /\ pc = "off" /\ op' = runs + 1 /\ runs' = runs + 1 /\ target' = TRUE
          /\ pc' = "file" /\ UNCHANGED <<bound, closing, dialog, asks, idle>>
      BY <1>5 DEF StartRun, fixed
    <2>2. runs \in Nat
      BY DEF Waiting, Asking, RunsTypes
    <2>3. \A r \in DOMAIN asks : asks[r].op \in 1..runs /\ asks[r].op # op /\ asks[r].op # runs + 1
      BY <2>1, <2>2 DEF Waiting, Numbered
    <2>4. Numbered'
      <3>1. op' \in 0..runs' /\ \A r \in DOMAIN asks' : asks'[r].op \in 1..runs'
        BY <2>1, <2>2, <2>3
      <3>2. op' # 0
        BY <2>1, <2>2
      <3> QED BY <2>1, <3>1, <3>2 DEF Waiting, Numbered
    <2>5. dialog = 0
      BY <2>1, <2>3 DEF Waiting, InFront, Asking, Shown
    <2>6. Named' /\ InFront' /\ WaiterHasAnswerer'
      BY <2>1, <2>5 DEF Waiting, Named, InFront, WaiterHasAnswerer
    <2>7. Lone'
      BY <2>1, <2>3 DEF Lone
    <2> QED BY <1>0, <2>4, <2>6, <2>7 DEF Waiting
  <1>6. CASE Stop \/ UNCHANGED vars
    <2>1. /\ UNCHANGED <<bound, window, asks, idle, pc>>
          /\ stopped' = stopped \/ stopped' = TRUE
      BY <1>6 DEF Stop, vars, fixed
    <2>2. Named' /\ Numbered' /\ InFront' /\ Lone'
      BY <2>1 DEF Waiting, Named, Numbered, InFront, Lone, window
    <2>3. WaiterHasAnswerer'
      BY <2>1 DEF Waiting, WaiterHasAnswerer
    <2> QED BY <1>0, <2>2, <2>3 DEF Waiting
  <1>7. CASE ShutDown
    <2>1. /\ closing' = TRUE /\ op' = 0 /\ UNCHANGED <<bound, runs, asks, idle, pc, stopped>>
      BY <1>7 DEF ShutDown, fixed
    <2>2. Named' /\ InFront' /\ Lone' /\ WaiterHasAnswerer'
      BY <2>1 DEF Waiting, Named, InFront, Lone, WaiterHasAnswerer
    <2>3. Numbered'
      BY <2>1 DEF Waiting, Numbered, Asking, RunsTypes
    <2> QED BY <1>0, <2>2, <2>3 DEF Waiting
  <1> QED BY <1>1, <1>2, <1>3, <1>4, <1>5, <1>6, <1>7 DEF Next

LEMMA InitWaiting == Init => Waiting
  <1> SUFFICES ASSUME Init PROVE Waiting
    OBVIOUS
  <1>1. Named /\ InFront /\ Lone /\ WaiterHasAnswerer
    BY DEF Init, Named, InFront, Lone, WaiterHasAnswerer
  <1>2. Numbered
    BY DEF Init, Numbered
  <1> QED BY <1>1, <1>2, InitAsking DEF Waiting

\* A worker that waits for a choice can still be given one, although the poll of
\* request_oom_choice has no timeout: its request is on its way, its dialog is open, or it
\* is answered or stopped (job_callbacks.py, oom_dialog.py, run_control.py:836-884).
THEOREM WaiterHasAnswererHolds == Spec => []WaiterHasAnswerer
  <1>1. Waiting => WaiterHasAnswerer
    BY DEF Waiting
  <1> QED BY <1>1, InitWaiting, StepWaiting, PTL DEF Spec

\* The request of the run that goes on never finds an older dialog in its way, for which
\* _on_oom_choice would stop the run without asking.
THEOREM NoAskBehindDialogHolds == Spec => []NoAskBehindDialog
  <1>1. Waiting => NoAskBehindDialog
    <2> SUFFICES ASSUME Waiting, NEW i \in DOMAIN idle, idle[i].call = "ask", ~closing,
                        op = idle[i].op, dialog # 0
                 PROVE  FALSE
      BY DEF NoAskBehindDialog, Current
    <2> USE DEF Waiting, Asking
    <2>1. /\ idle[i].req \in DOMAIN asks /\ asks[idle[i].req].view = "queued"
          /\ asks[idle[i].req].reply = "none" /\ asks[idle[i].req].op = op
      BY DEF Queued, Unanswered, Named
    <2>2. dialog \in DOMAIN asks /\ asks[dialog].view = "open" /\ asks[dialog].op = op
      BY DEF InFront, Shown
    <2>3. asks[dialog].reply = "none"
      BY <2>2 DEF Queued
    <2>4. dialog = Len(asks) /\ idle[i].req = Len(asks)
      BY <2>1, <2>2, <2>3 DEF Lone
    <2> QED BY <2>1, <2>2, <2>4
  <1> QED BY <1>1, InitWaiting, StepWaiting, PTL DEF Spec

----------------------------------------------------------------------------
(* Windows.  chunk is called size here. *)

LEMMA DivFacts ==
  ASSUME NEW a \in Nat, NEW s \in Nat \ {0}
  PROVE  /\ a \div s \in Nat
         /\ (a \div s) * s <= a /\ a < (a \div s) * s + s
  OBVIOUS

LEMMA StrideFacts ==
  ASSUME NEW size \in Nat \ {0}, NEW overlap \in Nat
  PROVE  Stride(size, overlap) \in 1..size
  BY DEF Stride

\* There are enough windows of one stride to reach the end, and not one too many.
LEMMA CountFacts ==
  ASSUME NEW total \in Nat, NEW size \in Nat \ {0}, NEW overlap \in Nat, total > size
  PROVE  LET n == Count(total, size, overlap)
             s == Stride(size, overlap)
         IN /\ n \in Nat /\ n >= 2
            /\ (n - 2) * s <= total - size /\ total - size <= (n - 1) * s
  <1> DEFINE s == Stride(size, overlap)
             d == total - size
             q == (d + s - 1) \div s
  <1>1. s \in Nat \ {0} /\ d \in Nat \ {0} /\ d + s - 1 \in Nat
    <2>1. s \in 1..size
      BY StrideFacts
    <2> HIDE DEF s
    <2> QED BY <2>1
  <1>2. Count(total, size, overlap) = 1 + q
    BY DEF Count
  <1>3. q \in Nat /\ q * s <= d + s - 1 /\ d + s - 1 < q * s + s
    <2> HIDE DEF s, d
    <2> QED BY <1>1, DivFacts
  <1>4. q >= 1
    <2> HIDE DEF s, d, q
    <2>1. CASE q = 0
      BY <1>1, <1>3, <2>1
    <2> QED BY <1>3, <2>1
  <1> HIDE DEF s, d, q
  <1>5. (q - 1) * s = q * s - s /\ q * s \in Int
    BY <1>1, <1>3
  <1>6. (q - 1) * s <= d /\ d <= q * s
    BY <1>1, <1>3, <1>5
  <1>7. (1 + q) - 2 = q - 1 /\ (1 + q) - 1 = q
    BY <1>3
  <1> QED BY <1>2, <1>3, <1>4, <1>6, <1>7 DEF s, d

\* The windows begin at 0, end with the mix, leave no gap, and each goes on at or behind
\* the one before.
LEMMA WindowFacts ==
  ASSUME NEW total \in Nat, NEW size \in Nat, NEW overlap \in Nat,
         NEW ws, ws = Windows(total, size, overlap),
         NEW n, n = Count(total, size, overlap)
  PROVE  /\ n \in Nat \ {0} /\ DOMAIN ws = 1..n /\ ws = [k \in 1..n |-> ws[k]]
         /\ ws[1].from = 0 /\ ws[n].to = total
         /\ \A k \in 1..n : /\ ws[k] = [from |-> ws[k].from, to |-> ws[k].to]
                            /\ ws[k].from \in Nat /\ ws[k].to \in Nat
                            /\ ws[k].from <= ws[k].to
         /\ \A k \in 1..(n - 1) : /\ ws[k].from <= ws[k + 1].from
                                  /\ ws[k + 1].from <= ws[k].to
                                  /\ ws[k].to <= ws[k + 1].to
  <1> DEFINE s == Stride(size, overlap)
  <1>1. CASE size = 0 \/ total <= size
    <2>1. n = 1
      BY <1>1 DEF Count
    <2>2. ws = [k \in 1..1 |-> [from |-> 0, to |-> total]]
      BY <2>1 DEF Windows
    <2>3. 1..(n - 1) = {} /\ 1..n = {1}
      BY <2>1
    <2> QED BY <2>1, <2>2, <2>3
  <1>2. CASE size # 0 /\ total > size
    <2>1. s \in 1..size
      BY <1>2, StrideFacts
    <2>2. /\ n \in Nat /\ n >= 2
          /\ (n - 2) * s <= total - size /\ total - size <= (n - 1) * s
      BY <1>2, CountFacts
    <2> DEFINE start(k) == IF k = n THEN total - size ELSE (k - 1) * s
    <2>3. ws = [k \in 1..n |-> [from |-> start(k), to |-> start(k) + size]]
      <3> DEFINE piece(k) ==
            IF n = 1 THEN [from |-> 0, to |-> total]
            ELSE LET from == IF k = n THEN total - size ELSE (k - 1) * s
                 IN [from |-> from, to |-> from + size]
      <3>1. ws = [k \in 1..n |-> piece(k)]
        BY DEF Windows
      <3>2. n # 1
        BY <2>2
      <3> QED BY <3>1, <3>2
    <2> HIDE DEF s
    <2>4. ASSUME NEW k \in 1..n
          PROVE  start(k) \in Nat
      <3>1. k - 1 \in Nat /\ s \in Nat /\ (k - 1) * s \in Nat
        BY <2>1, <2>2
      <3> QED BY <1>2, <3>1
    <2>5. ASSUME NEW k \in 1..(n - 1)
          PROVE  start(k) <= start(k + 1) /\ start(k + 1) <= start(k) + size
      <3>1. CASE k + 1 = n
        <4>1. k - 1 = n - 2 /\ k # n /\ n - 1 \in Int /\ n - 2 \in Int /\ s \in Int
          BY <2>1, <2>2, <3>1
        <4>2. start(k) = (n - 2) * s /\ start(k + 1) = total - size
          BY <3>1, <4>1
        <4>3. (n - 1) * s = (n - 2) * s + s /\ (n - 2) * s \in Int
          <5>1. n - 1 = (n - 2) + 1
            BY <2>2
          <5>2. ((n - 2) + 1) * s = (n - 2) * s + s
            BY <4>1
          <5> QED BY <4>1, <5>1, <5>2
        <4> QED BY <1>2, <2>1, <2>2, <4>2, <4>3
      <3>2. CASE k + 1 # n
        <4>1. k # n /\ k \in Int /\ s \in Int /\ (k + 1) - 1 = k
          BY <2>1, <2>2
        <4>2. start(k) = (k - 1) * s /\ start(k + 1) = k * s
          BY <3>2, <4>1
        <4>3. k * s = (k - 1) * s + s /\ (k - 1) * s \in Int
          BY <4>1
        <4> QED BY <2>1, <4>2, <4>3
      <3> QED BY <3>1, <3>2
    <2>6. start(1) = 0 /\ start(n) = total - size
      BY <2>1, <2>2
    <2> HIDE DEF start
    <2>7. n \in Nat \ {0} /\ DOMAIN ws = 1..n /\ 1 \in 1..n /\ n \in 1..n
      BY <2>2, <2>3
    <2>8. ws[1].from = 0 /\ ws[n].to = total
      BY <1>2, <2>3, <2>6, <2>7
    <2>9. ASSUME NEW k \in 1..n
          PROVE  /\ ws[k] = [from |-> ws[k].from, to |-> ws[k].to]
                 /\ ws[k].from \in Nat /\ ws[k].to \in Nat
                 /\ ws[k].from <= ws[k].to
      BY <2>3, <2>4
    <2>10. ASSUME NEW k \in 1..(n - 1)
           PROVE  /\ ws[k].from <= ws[k + 1].from
                  /\ ws[k + 1].from <= ws[k].to
                  /\ ws[k].to <= ws[k + 1].to
      <3>1. k \in 1..n /\ k + 1 \in 1..n
        BY <2>7
      <3> QED BY <2>3, <2>4, <2>5, <3>1
    <2>11. ws = [k \in 1..n |-> ws[k]]
      BY <2>3
    <2> QED BY <2>7, <2>8, <2>9, <2>10, <2>11
  <1> QED BY <1>1, <1>2

\* A set of numbers that is not empty has a least one.
LEMMA LeastNumber ==
  ASSUME NEW T \in SUBSET Nat, T # {}
  PROVE  \E x \in T : \A y \in T : ~ (y < x)
  <1>1. \E x \in T : \A y \in T : ~ (<<y, x>> \in OpToRel(<, Nat))
    BY WFMin, NatLessThanWellFounded
  <1> QED BY <1>1 DEF OpToRel

\* The recursive definition of Ends has one solution on the windows of a mix.
LEMMA EndsWhereCut ==
  ASSUME NEW total \in Nat, NEW size \in Nat, NEW overlap \in Nat
  PROVE  LET ws == Windows(total, size, overlap)
         IN Ends(ws) = [k \in DOMAIN ws |-> ws[k].to]
  <1> DEFINE ws == Windows(total, size, overlap)
             n  == Count(total, size, overlap)
  <1>1. /\ n \in Nat \ {0} /\ DOMAIN ws = 1..n /\ ws = [k \in 1..n |-> ws[k]]
        /\ ws[1].from = 0 /\ ws[n].to = total
        /\ \A k \in 1..n : /\ ws[k] = [from |-> ws[k].from, to |-> ws[k].to]
                           /\ ws[k].from \in Nat /\ ws[k].to \in Nat
                           /\ ws[k].from <= ws[k].to
        /\ \A k \in 1..(n - 1) : /\ ws[k].from <= ws[k + 1].from
                                 /\ ws[k + 1].from <= ws[k].to
                                 /\ ws[k].to <= ws[k + 1].to
    BY WindowFacts
  <1> DEFINE step(f, k) ==
               IF k = 1 THEN Length(ws[1])
               ELSE LET before  == f[k - 1]
                        blended == Least(JoinOverlap(ws, k - 1), Least(before, Length(ws[k])))
                    IN before + Length(ws[k]) - blended
             cut == [k \in DOMAIN ws |-> ws[k].to]
  <1>2. Ends(ws) = CHOOSE f : f = [k \in DOMAIN ws |-> step(f, k)]
    BY DEF Ends
  <1> HIDE DEF ws, n
  <1>3. ASSUME NEW k \in DOMAIN ws, NEW f, k # 1 => f[k - 1] = ws[k - 1].to
        PROVE  step(f, k) = ws[k].to
    <2>1. CASE k = 1
      BY <1>1, <2>1 DEF Length
    <2>2. CASE k # 1
      <3>1. k - 1 \in 1..(n - 1) /\ k - 1 \in 1..n /\ k \in 1..n /\ (k - 1) + 1 = k
        BY <1>1, <2>2
      <3>2. /\ ws[k - 1].to \in Nat /\ ws[k].to \in Nat /\ ws[k].from \in Nat
            /\ ws[k - 1].from \in Nat /\ ws[k - 1].from <= ws[k].from
            /\ ws[k].from <= ws[k - 1].to /\ ws[k - 1].to <= ws[k].to
        BY <1>1, <3>1
      <3>3. JoinOverlap(ws, k - 1) = ws[k - 1].to - ws[k].from
        BY <3>1, <3>2 DEF JoinOverlap
      <3>4. Least(JoinOverlap(ws, k - 1), Least(ws[k - 1].to, Length(ws[k])))
              = ws[k - 1].to - ws[k].from
        BY <3>2, <3>3 DEF Least, Length
      <3> QED BY <1>3, <2>2, <3>2, <3>4 DEF Length
    <2> QED BY <2>1, <2>2
  <1>4. cut = [k \in DOMAIN ws |-> step(cut, k)]
    <2>1. ASSUME NEW k \in DOMAIN ws
          PROVE  step(cut, k) = ws[k].to
      <3>1. k # 1 => k - 1 \in DOMAIN ws
        BY <1>1
      <3>2. k # 1 => cut[k - 1] = ws[k - 1].to
        BY <3>1
      <3> HIDE DEF cut, step
      <3> QED BY <1>3, <3>2
    <2> HIDE DEF step
    <2> QED BY <2>1
  <1> HIDE DEF step
  <1>5. Ends(ws) = [k \in DOMAIN ws |-> step(Ends(ws), k)]
    <2> DEFINE sol(f) == f = [k \in DOMAIN ws |-> step(f, k)]
    <2>1. Ends(ws) = CHOOSE f : sol(f)
      BY <1>2
    <2>2. sol(cut)
      BY <1>4
    <2> HIDE DEF sol
    <2>3. sol(Ends(ws))
      BY <2>1, <2>2
    <2> QED BY <2>3 DEF sol
  <1> DEFINE E   == Ends(ws)
             Bad == {k \in DOMAIN ws : E[k] # ws[k].to}
  <1>6. Bad = {}
    <2> SUFFICES ASSUME Bad # {} PROVE FALSE
      OBVIOUS
    <2>1. Bad \in SUBSET Nat
      BY <1>1
    <2> HIDE DEF Bad
    <2>2. PICK m \in Bad : \A y \in Bad : ~ (y < m)
      BY <2>1, LeastNumber
    <2>3. m \in DOMAIN ws /\ E[m] # ws[m].to
      BY <2>2 DEF Bad
    <2>4. ASSUME m # 1
          PROVE  E[m - 1] = ws[m - 1].to
      <3>1. m - 1 \in DOMAIN ws /\ m - 1 < m
        BY <1>1, <2>3, <2>4
      <3> QED BY <2>2, <3>1 DEF Bad
    <2>5. step(E, m) = ws[m].to
      BY <1>3, <2>3, <2>4
    <2>6. E[m] = step(E, m)
      BY <1>5, <2>3
    <2> QED BY <2>3, <2>5, <2>6
  <1>7. \A k \in DOMAIN ws : E[k] = ws[k].to
    BY <1>6
  <1>8. E = [k \in DOMAIN ws |-> E[k]]
    <2> DEFINE G == [k \in DOMAIN ws |-> step(E, k)]
    <2>1. E = G
      BY <1>5
    <2>2. G = [k \in DOMAIN ws |-> G[k]]
      OBVIOUS
    <2> HIDE DEF E, G
    <2> QED BY <2>1, <2>2
  <1> QED BY <1>7, <1>8 DEF ws

\* What the windows of a mix give is joined at the very places they were cut from, however
\* uneven the last overlap is, and the whole has the length of the mix.  Code: slice_mix
\* pulls the last window back (chunk_bounds_for_samples), and concat_stems blends each
\* part by the overlap of its own join (overlaps_for_chunks).
THEOREM JoinedWhereCut ==
  ASSUME NEW total \in Nat, NEW size \in Nat, NEW overlap \in Nat
  PROVE  LET ws == Windows(total, size, overlap)
         IN Joined(ws) = ws /\ Joined(ws)[Len(ws)].to = total
  <1> DEFINE ws == Windows(total, size, overlap)
             n  == Count(total, size, overlap)
  <1>1. /\ n \in Nat \ {0} /\ DOMAIN ws = 1..n /\ ws[n].to = total
        /\ ws = [k \in 1..n |-> ws[k]]
        /\ \A k \in 1..n : /\ ws[k] = [from |-> ws[k].from, to |-> ws[k].to]
                           /\ ws[k].from \in Nat /\ ws[k].to \in Nat
    BY WindowFacts
  <1>2. Ends(ws) = [k \in DOMAIN ws |-> ws[k].to]
    BY EndsWhereCut
  <1> HIDE DEF ws, n
  <1>4. ASSUME NEW k \in 1..n
        PROVE  [from |-> Ends(ws)[k] - Length(ws[k]), to |-> Ends(ws)[k]] = ws[k]
    <2>1. Ends(ws)[k] = ws[k].to
      BY <1>1, <1>2
    <2>2. ws[k].to - (ws[k].to - ws[k].from) = ws[k].from
      BY <1>1
    <2> QED BY <1>1, <2>1, <2>2 DEF Length
  <1>6. Joined(ws) = ws
    BY <1>1, <1>4 DEF Joined
  <1>7. Len(ws) = n
    BY <1>1
  <1> QED BY <1>1, <1>6, <1>7 DEF ws

----------------------------------------------------------------------------
(* Salvage. *)

Busy   == {"infer", "ask", "wait", "retry"}   \* run_separator is under way
InFile == {"model", "chunk"} \cup Busy
Track  == [model : Names, parts : Seq(SUBSET Sources), joined : Seq(Spans)]

TrackTypes ==
  /\ file \in Nat \ {0} /\ pos \in Nat \ {0} /\ chunk \in Nat \ {0} /\ pc \in Pcs
  /\ cache \in [Names -> Sources] /\ parts \in Seq(SUBSET Sources) /\ members \in Seq(Track)

Placed ==
  /\ pc = "file" => pos = 1
  /\ pc \in InFile => file \in DOMAIN Mixes
  /\ pc \in InFile \ {"model"} => pos \in DOMAIN Order /\ chunk \in DOMAIN Cut

\* The parts of the model at hand are those of the windows behind it.
Begun ==
  /\ pc \in {"file", "model"} => parts = <<>>
  /\ pc \in InFile \ {"model"} => parts = [k \in 1..(chunk - 1) |-> {<<file, k>>}]

\* A source that is kept is of the only window; if there are more, none is kept from one
\* call to the next.
Fresh ==
  /\ pc \in InFile /\ Len(Cut) = 1 => \A n \in Names : cache[n] \in {Nothing, <<file, 1>>}
  /\ pc \in Busy /\ Len(Cut) > 1 => cache = Empty

SInv == TrackTypes /\ Placed /\ Begun /\ Fresh /\ SalvageIsWhole

LEMMA CutFacts ==
  ASSUME file \in DOMAIN Mixes
  PROVE  /\ Cut \in Seq(Spans) /\ Len(Cut) \in Nat \ {0} /\ DOMAIN Cut = 1..Len(Cut)
         /\ Joined(Cut) = Cut /\ Cut[Len(Cut)].to = Mixes[file]
  <1>1. Mixes[file] \in Nat /\ ChunkSamples \in Nat /\ OverlapSamples \in Nat
    BY RecoveryAssumption
  <1>2. PICK n : n = Count(Mixes[file], ChunkSamples, OverlapSamples)
    OBVIOUS
  <1>3. /\ n \in Nat \ {0} /\ DOMAIN Cut = 1..n /\ Cut = [k \in 1..n |-> Cut[k]]
        /\ Cut[1].from = 0 /\ Cut[n].to = Mixes[file]
        /\ \A k \in 1..n : /\ Cut[k] = [from |-> Cut[k].from, to |-> Cut[k].to]
                           /\ Cut[k].from \in Nat /\ Cut[k].to \in Nat
                           /\ Cut[k].from <= Cut[k].to
        /\ \A k \in 1..(n - 1) : /\ Cut[k].from <= Cut[k + 1].from
                                 /\ Cut[k + 1].from <= Cut[k].to
                                 /\ Cut[k].to <= Cut[k + 1].to
    BY <1>1, <1>2, WindowFacts DEF Cut
  <1>4. \A k \in 1..n : Cut[k] \in Spans
    BY <1>3 DEF Spans
  <1>5. Len(Cut) = n /\ Cut \in Seq(Spans)
    BY <1>3, <1>4
  <1>6. Joined(Cut) = Cut
    BY <1>1, JoinedWhereCut DEF Cut
  <1> QED BY <1>3, <1>5, <1>6

\* A pass blends sources of the window at hand only.
LEMMA PassFacts ==
  ASSUME SInv, pc \in Busy
  PROVE  /\ Name \in Names /\ Pass = {<<file, chunk>>}
         /\ \A n \in Engines : n \in Names /\ Source(n) = <<file, chunk>>
  <1>1. pos \in DOMAIN Order /\ chunk \in DOMAIN Cut /\ file \in DOMAIN Mixes
    BY DEF SInv, Placed, Busy, InFile
  <1>2. Name \in Names /\ Engines \subseteq Names /\ Name \in Engines
    BY <1>1, RecoveryAssumption DEF Name, Engines
  <1>3. ASSUME NEW n \in Engines PROVE Source(n) = <<file, chunk>>
    <2>1. CASE Len(Cut) = 1
      <3>1. chunk = 1
        BY <1>1, <2>1, CutFacts
      <3> QED BY <1>2, <2>1, <3>1 DEF SInv, Fresh, InFile, Source
    <2>2. CASE Len(Cut) > 1
      BY <1>2, <2>2 DEF SInv, Fresh, Empty, Source
    <2> QED BY <1>1, <2>1, <2>2, CutFacts
  <1> QED BY <1>2, <1>3 DEF Pass

LEMMA InitSInv == Init => SInv
  BY RecoveryAssumption DEF Init, SInv, TrackTypes, Placed, Begun, Fresh, SalvageIsWhole, InFile,
     Busy, Pcs, Empty, Nothing, Sources

\* An input is done, or not begun.
LEMMA BetweenFiles ==
  ASSUME SInv, pc' \in {"off", "file"}, parts' = <<>>, cache' \in {cache, Empty},
         members' \in {members, <<>>}, pos' = 1, chunk' = 1, file' \in Nat \ {0}
  PROVE  SInv'
  <1>1. TrackTypes'
    <2>1. cache' \in [Names -> Sources]
      BY DEF SInv, TrackTypes, Empty, Nothing, Sources
    <2>2. parts' \in Seq(SUBSET Sources) /\ members' \in Seq(Track)
      <3>1. \A S : <<>> \in Seq(S)
        OBVIOUS
      <3>2. parts' = <<>> /\ (members' = members \/ members' = <<>>) /\ members \in Seq(Track)
        BY DEF SInv, TrackTypes
      <3> HIDE DEF Track, Sources
      <3> QED BY <3>1, <3>2
    <2> QED BY <2>1, <2>2 DEF TrackTypes, Pcs
  <1> QED BY <1>1 DEF SInv, Placed, Begun, Fresh, SalvageIsWhole, InFile, Busy

LEMMA InputEndsSalvage ==
  ASSUME SInv, End \/ Turns PROVE SInv'
  <1>1. pc' \in {"off", "file"} /\ cache' \in {cache, Empty} /\ members' = members
        /\ pos' = 1 /\ chunk' = 1
    BY DEF End, Turns, NextFile, Unwind
  <1>2. parts' = <<>> /\ file' \in Nat \ {0}
    BY DEF End, Turns, NextFile, Unwind, SInv, Begun, TrackTypes
  <1> QED BY <1>1, <1>2, BetweenFiles

\* A step that leaves the place and the tracks as they are, and at most empties the cache.
LEMMA SameTracks ==
  ASSUME SInv, UNCHANGED <<place, parts, members>>, cache' \in {cache, Empty},
         pc' = pc \/ (pc \in Busy /\ pc' \in Busy)
  PROVE  SInv'
  <1>1. Cut' = Cut /\ UNCHANGED <<file, pos, chunk, parts, members>>
    BY DEF place, Cut
  <1>2. TrackTypes'
    BY <1>1 DEF SInv, TrackTypes, Pcs, Busy, Empty, Nothing, Sources
  <1>3. \A m : WholeTrack(m)' <=> WholeTrack(m)
    BY <1>1 DEF WholeTrack
  <1>4. Placed' /\ Begun' /\ SalvageIsWhole'
    BY <1>1, <1>3 DEF SInv, Placed, Begun, SalvageIsWhole, InFile, Busy
  <1>5. Fresh'
    BY <1>1 DEF SInv, Fresh, InFile, Busy, Empty
  <1> QED BY <1>2, <1>4, <1>5 DEF SInv

\* What is kept after a call is still of the only window.
LEMMA ReturnsFacts ==
  ASSUME SInv, pc = "infer", Returns
  PROVE  /\ cache' \in [Names -> Sources] /\ UNCHANGED file
         /\ Len(Cut) = 1 => \A n \in Names : cache'[n] \in {Nothing, <<file, 1>>}
  <1>1. pc \in Busy /\ chunk \in DOMAIN Cut /\ file \in DOMAIN Mixes
        /\ file \in Nat /\ chunk \in Nat
    BY DEF SInv, Placed, TrackTypes, Busy, InFile
  <1>2. \A n \in Engines : n \in Names /\ Source(n) = <<file, chunk>>
    BY <1>1, PassFacts
  <1>3. cache' \in [Names -> Sources]
    BY <1>1, <1>2 DEF Returns, SInv, TrackTypes, Sources
  <1>4. ASSUME Len(Cut) = 1, NEW n \in Names PROVE cache'[n] \in {Nothing, <<file, 1>>}
    <2>1. chunk = 1
      BY <1>1, <1>4, CutFacts
    <2>2. cache[n] \in {Nothing, <<file, 1>>}
      BY <1>1, <1>4 DEF SInv, Fresh, InFile
    <2>3. cache'[n] \in {cache[n], Source(n)} /\ (cache'[n] # cache[n] => n \in Engines)
      BY DEF Returns
    <2> QED BY <1>2, <2>1, <2>2, <2>3
  <1> QED BY <1>3, <1>4 DEF Returns

LEMMA ChunkOkSalvage ==
  ASSUME SInv, ChunkOk PROVE SInv'
  <1>1. /\ pc = "infer" /\ pc \in Busy /\ pc' = "chunk" /\ chunk < Len(Cut) /\ chunk' = chunk + 1
        /\ parts' = Append(parts, Pass) /\ Returns /\ UNCHANGED <<file, pos, members>>
    BY DEF ChunkOk, Busy, Returns
  <1>2. /\ file \in Nat \ {0} /\ pos \in Nat \ {0} /\ chunk \in Nat \ {0}
        /\ parts \in Seq(SUBSET Sources) /\ members \in Seq(Track)
        /\ file \in DOMAIN Mixes /\ pos \in DOMAIN Order
        /\ parts = [k \in 1..(chunk - 1) |-> {<<file, k>>}]
    BY <1>1 DEF SInv, TrackTypes, Placed, Begun, InFile
  <1>3. Pass = {<<file, chunk>>} /\ Pass \in SUBSET Sources
    BY <1>1, <1>2, PassFacts DEF Sources
  <1>4. parts' = [k \in 1..chunk |-> {<<file, k>>}] /\ parts' \in Seq(SUBSET Sources)
    <2>1. Len(parts) = chunk - 1
      BY <1>2
    <2>2. parts' \in Seq(SUBSET Sources) /\ Len(parts') = chunk
      BY <1>1, <1>2, <1>3, <2>1
    <2>3. \A k \in 1..chunk : parts'[k] = {<<file, k>>}
      BY <1>1, <1>2, <1>3, <2>1
    <2> QED BY <2>2, <2>3
  <1>5. Cut' = Cut /\ \A m : WholeTrack(m)' <=> WholeTrack(m)
    BY <1>1 DEF Cut, WholeTrack
  <1>6. TrackTypes'
    BY <1>1, <1>2, <1>4, ReturnsFacts DEF TrackTypes, Pcs
  <1>7. Placed'
    BY <1>1, <1>2, <1>5, CutFacts DEF Placed, InFile, Busy
  <1>8. Begun'
    <2>1. chunk' - 1 = chunk
      BY <1>1, <1>2
    <2> QED BY <1>1, <1>4, <2>1 DEF Begun
  <1>9. Fresh'
    BY <1>1, <1>5, ReturnsFacts DEF Fresh, InFile, Busy
  <1>10. SalvageIsWhole'
    BY <1>1, <1>5 DEF SInv, SalvageIsWhole
  <1> QED BY <1>6, <1>7, <1>8, <1>9, <1>10 DEF SInv

LEMMA ModelOkSalvage ==
  ASSUME SInv, ModelOk PROVE SInv'
  <1> DEFINE t == [model |-> Name, parts |-> Append(parts, Pass), joined |-> Joined(Cut)]
  <1>1. /\ pc = "infer" /\ pc \in Busy /\ pc' = "model" /\ chunk = Len(Cut) /\ chunk' = 1
        /\ pos' = pos + 1 /\ parts' = <<>> /\ Returns /\ UNCHANGED file
        /\ members' = IF Ensemble THEN Append(members, t) ELSE members
    BY DEF ModelOk, Busy, Returns
  <1>2. /\ file \in Nat \ {0} /\ pos \in Nat \ {0} /\ chunk \in Nat \ {0}
        /\ parts \in Seq(SUBSET Sources) /\ members \in Seq(Track)
        /\ file \in DOMAIN Mixes /\ pos \in DOMAIN Order
        /\ parts = [k \in 1..(chunk - 1) |-> {<<file, k>>}]
    BY <1>1 DEF SInv, TrackTypes, Placed, Begun, InFile
  <1>3. Pass = {<<file, chunk>>} /\ Pass \in SUBSET Sources /\ Name \in Names
    BY <1>1, <1>2, PassFacts DEF Sources
  <1>4. /\ Append(parts, Pass) = [k \in DOMAIN Cut |-> {<<file, k>>}]
        /\ Append(parts, Pass) \in Seq(SUBSET Sources)
    <2> DEFINE q == Append(parts, Pass)
    <2>1. Len(parts) = chunk - 1
      BY <1>2
    <2>2. q \in Seq(SUBSET Sources) /\ Len(q) = chunk
      BY <1>2, <1>3, <2>1
    <2>3. \A k \in 1..chunk : q[k] = {<<file, k>>}
      BY <1>2, <1>3, <2>1
    <2>4. DOMAIN Cut = 1..chunk
      BY <1>1, <1>2, CutFacts
    <2> HIDE DEF q
    <2>5. q = [k \in DOMAIN Cut |-> {<<file, k>>}]
      BY <2>2, <2>3, <2>4
    <2> QED BY <2>2, <2>5 DEF q
  <1>5. Cut' = Cut /\ \A m : WholeTrack(m)' <=> WholeTrack(m)
    BY <1>1 DEF Cut, WholeTrack
  <1>6. t \in Track /\ t.model = Order[pos] /\ WholeTrack(t)
    BY <1>2, <1>3, <1>4, CutFacts DEF Track, WholeTrack, Name
  <1> HIDE DEF t
  <1>7. TrackTypes'
    <2>1. members' \in Seq(Track)
      BY <1>1, <1>2, <1>6
    <2> QED BY <1>1, <1>2, <2>1, ReturnsFacts DEF TrackTypes, Pcs
  <1>8. Placed' /\ Begun'
    BY <1>1, <1>2, <1>5 DEF Placed, Begun, InFile, Busy
  <1>9. Fresh'
    BY <1>1, <1>5, ReturnsFacts DEF Fresh, InFile, Busy
  <1>10. SalvageIsWhole'
    <2> SUFFICES ASSUME Ensemble
                 PROVE  /\ Len(members') = pos' - 1
                        /\ \A i \in DOMAIN members' :
                             members'[i].model = Order[i] /\ WholeTrack(members'[i])
      BY <1>5 DEF SalvageIsWhole
    <2>1. /\ Len(members) = pos - 1
          /\ \A i \in DOMAIN members : members[i].model = Order[i] /\ WholeTrack(members[i])
      BY <1>1 DEF SInv, SalvageIsWhole, Busy
    <2>2. members' = Append(members, t)
      BY <1>1
    <2>3. /\ Len(members') = pos /\ DOMAIN members' = DOMAIN members \cup {pos}
          /\ \A i \in DOMAIN members : members'[i] = members[i]
          /\ members'[pos] = t
      BY <1>2, <1>6, <2>1, <2>2
    <2> QED BY <1>1, <1>2, <1>6, <2>1, <2>3
  <1> QED BY <1>7, <1>8, <1>9, <1>10 DEF SInv

LEMMA WorkerSalvage == SInv /\ Worker => SInv'
  <1> SUFFICES ASSUME SInv, Worker PROVE SInv'
    OBVIOUS
  <1>1. CASE SkipFile \/ FileOk \/ AllDone \/ WorkerStops \/ Fails \/ AutoFails \/ NobodyToAsk
             \/ TakeStop
    <2>1. End \/ Turns
      BY <1>1 DEF SkipFile, FileOk, AllDone, WorkerStops, Fails, AutoFails, NobodyToAsk, TakeStop,
                  InputFails, Turns
    <2> QED BY <2>1, InputEndsSalvage
  <1>2. CASE OpenFile
    <2>1. /\ pc = "file" /\ pc' = "model" /\ members' = <<>> /\ cache' = Empty
          /\ UNCHANGED <<file, pos, chunk, parts>> /\ file \in DOMAIN Mixes
      BY <1>2 DEF OpenFile, place
    <2>2. TrackTypes'
      BY <2>1 DEF SInv, TrackTypes, Pcs, Empty, Nothing, Sources
    <2>3. pos = 1 /\ parts = <<>>
      BY <2>1 DEF SInv, Placed, Begun
    <2>4. Placed' /\ Begun' /\ SalvageIsWhole'
      BY <2>1, <2>3 DEF Placed, Begun, SalvageIsWhole, InFile, Busy
    <2>5. Fresh'
      BY <2>1 DEF Fresh, InFile, Busy, Empty
    <2> QED BY <2>2, <2>4, <2>5 DEF SInv
  <1>3. CASE NextModel
    <2>1. /\ pc = "model" /\ pc' = "chunk" /\ chunk' = 1 /\ pos <= Len(Order)
          /\ UNCHANGED <<file, pos, parts, members, cache>>
      BY <1>3 DEF NextModel, tracks
    <2>2. file \in DOMAIN Mixes /\ parts = <<>> /\ pos \in DOMAIN Order
      BY <2>1, RecoveryAssumption DEF SInv, TrackTypes, Placed, Begun, InFile
    <2>3. Cut' = Cut /\ \A m : WholeTrack(m)' <=> WholeTrack(m)
      BY <2>1 DEF Cut, WholeTrack
    <2>4. TrackTypes'
      BY <2>1 DEF SInv, TrackTypes, Pcs
    <2>5. Placed' /\ Begun'
      BY <2>1, <2>2, <2>3, CutFacts DEF Placed, Begun, InFile, Busy
    <2>6. Fresh' /\ SalvageIsWhole'
      BY <2>1, <2>3 DEF SInv, Fresh, SalvageIsWhole, InFile, Busy
    <2> QED BY <2>4, <2>5, <2>6 DEF SInv
  <1>4. CASE NextChunk
    <2>1. /\ pc = "chunk" /\ pc' = "infer" /\ UNCHANGED <<file, pos, chunk, parts, members>>
          /\ cache' = IF Len(Cut) > 1 THEN Empty ELSE cache
      BY <1>4 DEF NextChunk, ChunkSources, place
    <2>2. Cut' = Cut /\ \A m : WholeTrack(m)' <=> WholeTrack(m)
      BY <2>1 DEF Cut, WholeTrack
    <2>3. TrackTypes'
      BY <2>1 DEF SInv, TrackTypes, Pcs, Empty, Nothing, Sources
    <2>4. Placed' /\ Begun' /\ SalvageIsWhole'
      BY <2>1, <2>2 DEF SInv, Placed, Begun, SalvageIsWhole, InFile, Busy
    <2>5. Fresh'
      <3>1. Len(Cut) \in Nat
        BY <2>1, CutFacts DEF SInv, Placed, InFile
      <3> QED BY <2>1, <2>2, <3>1 DEF SInv, Fresh, InFile
    <2> QED BY <2>3, <2>4, <2>5 DEF SInv
  <1>5. CASE FirstOom \/ RetryOom \/ Exhausted \/ AskNobody \/ Ask \/ TakeRetry \/ Retry
    <2>1. UNCHANGED <<place, parts, members>> /\ cache' \in {cache, Empty}
          /\ pc \in Busy /\ pc' \in Busy
      BY <1>5 DEF FirstOom, RetryOom, Exhausted, AskNobody, Ask, TakeRetry, Retry, Release, job,
                  tracks, Busy
    <2> QED BY <2>1, SameTracks
  <1> QED BY <1>1, <1>2, <1>3, <1>4, <1>5, ChunkOkSalvage, ModelOkSalvage DEF Worker

LEMMA StepSInv == SInv /\ [Next]_vars => SInv'
  <1> SUFFICES ASSUME SInv, [Next]_vars PROVE SInv'
    OBVIOUS
  <1>1. CASE StartRun
    <2>1. pc' = "file" /\ parts' = <<>> /\ cache' = Empty /\ members' = <<>>
          /\ pos' = 1 /\ chunk' = 1 /\ file' = 1
      BY <1>1 DEF StartRun, Unwind
    <2> QED BY <2>1, BetweenFiles
  <1>2. CASE MainLoop \/ User \/ Stop \/ ShutDown \/ (\E r \in DOMAIN asks : Closed(r))
             \/ UNCHANGED vars
    <2>1. UNCHANGED <<place, parts, members, cache, pc>>
      BY <1>2 DEF MainLoop, ShowDialog, ServeEnded, User, Choose, Stop, ShutDown, Closed, vars,
                  job, tracks
    <2> QED BY <2>1, SameTracks
  <1> QED BY <1>1, <1>2, WorkerSalvage DEF Next

\* Of each model that is done, what an export would save and the ensemble will combine is the
\* stem of the file at hand: each window once, in order, blended from no other window or file,
\* and joined where it was cut (run_loop.py:334-493, run_hooks.py:165-317), for any inputs,
\* windows and models, through every retry and failure.
THEOREM SalvageIsWholeHolds == Spec => []SalvageIsWhole
  <1>1. SInv => SalvageIsWhole
    BY DEF SInv
  <1> QED BY <1>1, InitSInv, StepSInv, PTL DEF Spec
----------------------------------------------------------------------------
(* Types.  What the four parts above do not type are flags. *)

Flags == /\ bound \in BOOLEAN /\ failFast \in BOOLEAN /\ target \in BOOLEAN
         /\ closing \in BOOLEAN /\ stopped \in BOOLEAN /\ listed \in BOOLEAN

LEMMA StepFlags == Flags /\ [Next]_vars => Flags'
  <1> SUFFICES ASSUME Flags, [Next]_vars PROVE Flags'
    OBVIOUS
  <1>1. UNCHANGED <<bound, failFast>>
    BY DEF Next, StartRun, Worker, SkipFile, OpenFile, NextModel, NextChunk, ChunkOk, ModelOk,
           FileOk, AllDone, WorkerStops, Fails, FirstOom, RetryOom, Exhausted, AutoFails,
           AskNobody, NobodyToAsk, Ask, TakeStop, TakeRetry, Retry, Returns, MainLoop,
           ShowDialog, ServeEnded, User, Choose, Stop, ShutDown, Closed, vars, fixed
  <1>2. target' \in {target, TRUE, FALSE} /\ closing' \in {closing, TRUE}
        /\ stopped' \in {stopped, TRUE, FALSE}
    BY DEF Next, StartRun, Worker, SkipFile, OpenFile, NextModel, NextChunk, ChunkOk, ModelOk,
           FileOk, AllDone, WorkerStops, Fails, FirstOom, RetryOom, Exhausted, AutoFails,
           AskNobody, NobodyToAsk, Ask, TakeStop, TakeRetry, Retry, End, InputFails, NextFile,
           Returns, MainLoop, ShowDialog, ServeEnded, User, Choose, Stop, ShutDown, Closed,
           vars, window
  <1>3. listed' \in BOOLEAN
    <2>1. CASE StartRun
      BY <2>1 DEF StartRun, Unwind
    <2>2. CASE Worker
      BY <2>2 DEF Flags, Worker, SkipFile, OpenFile, NextModel, NextChunk, ChunkOk, ModelOk,
           FileOk, AllDone, WorkerStops, Fails, FirstOom, RetryOom, Exhausted, AutoFails,
           AskNobody, NobodyToAsk, Ask, TakeStop, TakeRetry, Retry, End, InputFails, NextFile,
           Returns, Unwind, Release, job, tracks
    <2>3. CASE MainLoop \/ User \/ Stop \/ ShutDown \/ (\E r \in DOMAIN asks : Closed(r))
               \/ UNCHANGED vars
      BY <2>3 DEF Flags, MainLoop, ShowDialog, ServeEnded, User, Choose, Stop, ShutDown, Closed,
                  vars, job, tracks
    <2> QED BY <2>1, <2>2, <2>3 DEF Next
  <1> QED BY <1>1, <1>2, <1>3 DEF Flags

\* Every variable of a run keeps its type, for any inputs, models, sizes and answers; the
\* dialog of the window is one that was asked for (run_control.py:836-884).
THEOREM RecoveryTypes == Spec => []TypeOK
  <1>1. Init => Flags
    BY DEF Init, Flags
  <1>2. IInv /\ Waiting /\ SInv /\ Flags => TypeOK
    <2> SUFFICES ASSUME IInv, Waiting, SInv, Flags PROVE TypeOK
      OBVIOUS
    <2>1. op \in 0..MaxRuns /\ runs \in 0..MaxRuns
      BY RecoveryAssumption DEF Waiting, Asking, RunsTypes, Numbered
    <2>2. asks \in Seq(Requests) /\ idle \in Seq(Calls)
      BY DEF Waiting, Asking, AskTypes
    <2>3. dialog \in 0..Len(asks)
      BY <2>2 DEF Waiting, Asking, Shown
    <2>4. /\ model \in [Names -> Models] /\ override \in Stops \cup {0}
          /\ cands \subseteq Stops /\ failed \subseteq Stops
          /\ mode \in {"first", "retry", "auto"} /\ pc \in Pcs
      BY DEF IInv, JobTypes
    <2>5. /\ file \in Nat /\ pos \in Nat /\ chunk \in Nat
          /\ parts \in Seq(SUBSET Sources) /\ cache \in [Names -> Sources]
          /\ members \in Seq(Track)
      BY DEF SInv, TrackTypes
    <2> QED BY <2>1, <2>2, <2>3, <2>4, <2>5 DEF TypeOK, Flags, Track
  <1> QED
    BY <1>1, <1>2, InitIInv, StepIInv, InitWaiting, StepWaiting, InitSInv, StepSInv,
       StepFlags, PTL DEF Spec
=============================================================================
