------------------------- MODULE DownloadQueueProofs -------------------------
(***************************************************************************)
(* Proofs about DownloadQueue for every number of threads, items, models,  *)
(* retries and windows.                                                    *)
(***************************************************************************)
EXTENDS DownloadQueue, TLAPS

USE QueueAssumption
USE DEF StillFree, Retryable, AfterCancel, Announce, IsFirst, PublishIf, HasQueued

\* The strengthening.  _worker_active is a mutex on the loop of _worker_main ...
OneLoop ==
    /\ \A v, w \in Workers : wpc[v] \in Loop /\ wpc[w] \in Loop => v = w
    /\ \A w \in Workers : wpc[w] \in Loop => workerActive
    /\ workerActive => \E w \in Workers : wpc[w] \in Loop

\* ... so that the thread inside it owns the item it took, ...
HoldsItem ==
    \A w \in Workers : wpc[w] \in InItem =>
        /\ witem[w] \in Ids
        /\ status[witem[w]] = "downloading"
        /\ wpc[w] = "record" => result[w] \in Success /\ witem[w] \in installed

\* ... every item that is being downloaded has such an owner, ...
Owned ==
    \A i \in Ids : status[i] = "downloading" =>
        \E w \in Workers : wpc[w] \in InItem /\ witem[w] = i

\* ... and the rows after the last one do not exist yet.
Allocated == \A i \in Ids : status[i] = "unborn" <=> i > count

IInv == TypeOK /\ OneLoop /\ HoldsItem /\ Owned /\ Allocated /\ PublishedIsShown

-----------------------------------------------------------------------------
\* Every variable keeps its type.
LEMMA TypeStep == TypeOK /\ HoldsItem /\ [Next]_vars => TypeOK'
<1> SUFFICES ASSUME TypeOK, HoldsItem, [Next]_vars PROVE TypeOK'
  OBVIOUS
<1> USE DEF TypeOK, ItemsOK, ThreadsOK, WindowOK, Ids, Statuses, Active, Success, Terminal, Results, InItem, Loop,
            Leaving, ClientPcs, shared, worker, client, window
<1>1. ASSUME NEW c \in Clients, ClientCalls(c) PROVE TypeOK'
  <2>1. ASSUME NEW m \in Models, EnqueueCheck(c, m) PROVE TypeOK'
    BY <2>1 DEF EnqueueCheck, CGoto
  <2>2. ASSUME NEW i \in Ids, Retry(c, i) PROVE TypeOK'
    BY <2>2 DEF Retry, CGoto, SetStatus
  <2>3. ASSUME NEW S, CancelItems(c, S) PROVE TypeOK'
    BY <2>3 DEF CancelItems, CGoto
  <2>4. CASE ClearFinished(c)
    BY <2>4 DEF ClearFinished, CGoto
  <2> QED
    BY <1>1, <2>1, <2>2, <2>3, <2>4 DEF ClientCalls, Cancel, CancelAll
<1>2. ASSUME NEW c \in Clients, ClientReturns(c) PROVE TypeOK'
  <2>1. AModel \in Models
    BY DEF AModel
  <2>2. CASE EnqueueAppend(c)
    BY <2>1, <2>2 DEF EnqueueAppend, CGoto, SetStatus
  <2>3. CASE EnqueueRefused(c)
    BY <2>1, <2>3 DEF EnqueueRefused, CGoto
  <2>4. CASE ClientNotify(c)
    BY <2>4 DEF ClientNotify, CGoto
  <2>5. CASE ClientCall(c)
    BY <2>5 DEF ClientCall, CGoto
  <2>6. CASE ClientEnsure(c)
    BY <2>6 DEF ClientEnsure, CGoto, StartWorker, WGoto
  <2> QED
    BY <1>2, <2>2, <2>3, <2>4, <2>5, <2>6 DEF ClientReturns
<1>3. ASSUME NEW w \in Workers, WorkerStep(w) \/ Progress(w) PROVE TypeOK'
  <2> USE DEF WGoto, LeaveGoto, SetStatus, AfterTest, Queued
  <2>1. CASE NextItem(w) BY <2>1 DEF NextItem
  <2>2. CASE NoItem(w) BY <2>2 DEF NoItem
  <2>3. CASE CheckStopped(w)
    <3>1. \E s \in Statuses : Finish(w, s)
      BY <2>3 DEF CheckStopped, HoldsItem
    <3>2. ItemsOK' /\ WindowOK'
      BY <3>1, <2>3 DEF CheckStopped, Finish, HoldsItem
    <3>3. ThreadsOK'
      BY <3>1, <2>3 DEF CheckStopped, Finish, HoldsItem
    <3> QED
      BY <3>2, <3>3 DEF TypeOK
  <2>4. CASE BeginTransfer(w) BY <2>4 DEF BeginTransfer
  <2>5. CASE TransferEnds(w) BY <2>5 DEF TransferEnds
  <2>6. CASE NotTransferred(w)
    <3>1. \E s \in Statuses : Finish(w, s)
      BY <2>6 DEF NotTransferred, Unfinished, HoldsItem
    <3>2. ItemsOK' /\ WindowOK'
      BY <3>1, <2>6 DEF NotTransferred, Finish, HoldsItem
    <3>3. ThreadsOK'
      BY <3>1, <2>6 DEF NotTransferred, Finish, HoldsItem
    <3> QED
      BY <3>2, <3>3 DEF TypeOK
  <2>7. CASE FinalizeReady(w)
    <3>0. witem[w] \in Ids
      BY <2>7 DEF FinalizeReady, HoldsItem
    <3>1. ItemsOK'
      BY <2>7, <3>0 DEF FinalizeReady
    <3>2. ThreadsOK' /\ WindowOK'
      BY <2>7 DEF FinalizeReady
    <3> QED
      BY <3>1, <3>2
  <2>8. CASE FinalizeNotReady(w)
    <3>1. \E s \in Statuses : Finish(w, s)
      BY <2>8 DEF FinalizeNotReady, HoldsItem
    <3>2. ItemsOK' /\ WindowOK'
      BY <3>1, <2>8 DEF FinalizeNotReady, Finish, HoldsItem
    <3>3. ThreadsOK'
      BY <3>1, <2>8 DEF FinalizeNotReady, Finish, HoldsItem
    <3> QED
      BY <3>2, <3>3 DEF TypeOK
  <2>9. CASE Record(w)
    <3>0. result[w] \in Success
      BY <2>9 DEF Record, HoldsItem
    <3>1. \E s \in Statuses : Finish(w, s)
      BY <2>9, <3>0 DEF Record
    <3>2. ItemsOK' /\ WindowOK'
      BY <3>1, <2>9 DEF Record, Finish, HoldsItem
    <3>3. ThreadsOK'
      BY <3>1, <2>9 DEF Record, Finish, HoldsItem
    <3> QED
      BY <3>2, <3>3 DEF TypeOK
  <2>10. CASE WorkerNotify(w) BY <2>10 DEF WorkerNotify
  <2>11. CASE WorkerCall(w) BY <2>11 DEF WorkerCall
  <2>12. CASE Leave(w) BY <2>12 DEF Leave
  <2>13. CASE Batch(w) BY <2>13 DEF Batch
  <2>14. CASE Recheck(w) BY <2>14 DEF Recheck
  <2>15. CASE Restart(w) BY <2>15 DEF Restart
  <2>16. CASE Progress(w) BY <2>16 DEF Progress
  <2> QED
    BY <1>3, <2>1, <2>2, <2>3, <2>4, <2>5, <2>6, <2>7, <2>8, <2>9, <2>10, <2>11, <2>12,
       <2>13, <2>14, <2>15, <2>16 DEF WorkerStep
<1>4. CASE Unbind
  <2>0. unbinds' \in 0..MaxUnbinds
    BY <1>4 DEF Unbind
  <2>1. WindowOK'
    BY <1>4, <2>0 DEF Unbind
  <2>2. ItemsOK' /\ ThreadsOK'
    BY <1>4 DEF Unbind
  <2> QED
    BY <2>1, <2>2
<1>5. CASE Bind BY <1>5 DEF Bind
<1>6. CASE UNCHANGED vars BY <1>6 DEF vars
<1> QED
  BY <1>1, <1>2, <1>3, <1>4, <1>5, <1>6 DEF Next

\* At most one thread is inside the loop, because starting one and leaving it
\* change _worker_active.
LEMMA LoopStep == TypeOK /\ OneLoop /\ [Next]_vars => OneLoop'
<1> SUFFICES ASSUME TypeOK, OneLoop, [Next]_vars PROVE OneLoop'
  OBVIOUS
<1> USE DEF TypeOK, ThreadsOK, OneLoop, Loop, Leaving, InItem
<1>1. ASSUME UNCHANGED <<workerActive, wpc>> PROVE OneLoop'
  BY <1>1
<1>2. ASSUME NEW c \in Clients, ClientCalls(c) \/ ClientReturns(c) PROVE OneLoop'
  <2>1. CASE ClientEnsure(c)
    BY <2>1 DEF ClientEnsure, StartWorker, WGoto, worker
  <2>2. CASE ~ClientEnsure(c)
    BY <1>2, <2>2, <1>1 DEF ClientCalls, ClientReturns, EnqueueCheck, Retry, Cancel, CancelAll,
       CancelItems, ClearFinished, EnqueueAppend, EnqueueRefused, ClientNotify, ClientCall, worker
  <2> QED
    BY <2>1, <2>2
<1>3. ASSUME NEW w \in Workers, WorkerStep(w) PROVE OneLoop'
  <2> USE DEF WGoto, LeaveGoto
  <2>1. CASE NextItem(w) BY <2>1 DEF NextItem
  <2>2. CASE NoItem(w) BY <2>2 DEF NoItem
  <2>3. CASE CheckStopped(w) BY <2>3 DEF CheckStopped, Finish
  <2>4. CASE BeginTransfer(w) BY <2>4 DEF BeginTransfer
  <2>5. CASE TransferEnds(w) BY <2>5 DEF TransferEnds
  <2>6. CASE NotTransferred(w) BY <2>6 DEF NotTransferred, Finish
  <2>7. CASE FinalizeReady(w) BY <2>7 DEF FinalizeReady
  <2>8. CASE FinalizeNotReady(w) BY <2>8 DEF FinalizeNotReady, Finish
  <2>9. CASE Record(w) BY <2>9 DEF Record, Finish
  <2>10. CASE WorkerNotify(w) BY <2>10 DEF WorkerNotify, AfterTest
  <2>11. CASE WorkerCall(w) BY <2>11 DEF WorkerCall, AfterTest
  <2>12. CASE Leave(w) BY <2>12 DEF Leave
  <2>13. CASE Batch(w) BY <2>13 DEF Batch, AfterTest
  <2>14. CASE Recheck(w) BY <2>14 DEF Recheck
  <2>15. CASE Restart(w) BY <2>15 DEF Restart
  <2> QED
    BY <1>3, <2>1, <2>2, <2>3, <2>4, <2>5, <2>6, <2>7, <2>8, <2>9, <2>10, <2>11, <2>12,
       <2>13, <2>14, <2>15 DEF WorkerStep
<1>4. ASSUME NEW w \in Workers, Progress(w) PROVE OneLoop'
  BY <1>4, <1>1 DEF Progress, worker
<1>5. CASE Unbind \/ Bind
  BY <1>5, <1>1 DEF Unbind, Bind, worker
<1>6. CASE UNCHANGED vars
  BY <1>6, <1>1 DEF vars, worker
<1> QED
  BY <1>2, <1>3, <1>4, <1>5, <1>6 DEF Next

\* What the items and the frames of the workers have to do with each other.
Rows == HoldsItem /\ Owned /\ Allocated /\ PublishedIsShown

\* A step that leaves the items and the frames inside them alone.
LEMMA RowsQuiet ==
  ASSUME TypeOK, Rows, UNCHANGED <<count, status, installed, witem, result>>,
         \A w \in Workers : wpc[w] \in InItem <=> wpc'[w] \in InItem,
         \A w \in Workers : wpc[w] = "record" <=> wpc'[w] = "record"
  PROVE  Rows'
BY DEF Rows, HoldsItem, Owned, Allocated, PublishedIsShown

\* A client changes rows that no worker holds: queued, ended or new ones.
LEMMA RowsClient ==
  ASSUME TypeOK, OneLoop, Rows, NEW c \in Clients, ClientCalls(c) \/ ClientReturns(c)
  PROVE  Rows'
<1> USE DEF TypeOK, ItemsOK, ThreadsOK
<1>1. ASSUME NEW m \in Models, EnqueueCheck(c, m) PROVE Rows'
  BY <1>1, RowsQuiet DEF EnqueueCheck, shared, worker
<1>2. CASE EnqueueRefused(c) \/ ClientNotify(c) \/ ClientCall(c)
  BY <1>2, RowsQuiet DEF EnqueueRefused, ClientNotify, ClientCall, shared, worker
<1>3. CASE ClientEnsure(c)
  BY <1>3, RowsQuiet DEF ClientEnsure, StartWorker, WGoto, InItem, shared, worker
<1>4. CASE EnqueueAppend(c)
  BY <1>4 DEF EnqueueAppend, SetStatus, worker, Rows, HoldsItem, Owned, Allocated,
     PublishedIsShown, Ids, Success
<1>5. ASSUME NEW i \in Ids, Retry(c, i) PROVE Rows'
  BY <1>5 DEF Retry, SetStatus, worker, Rows, HoldsItem, Owned, Allocated,
     PublishedIsShown, Ids, Success
<1>6. ASSUME NEW S, CancelItems(c, S) PROVE Rows'
  BY <1>6 DEF CancelItems, worker, Rows, HoldsItem, Owned, Allocated,
     PublishedIsShown, Ids, Success
<1>7. CASE ClearFinished(c)
  BY <1>7 DEF ClearFinished, worker, Rows, HoldsItem, Owned, Allocated,
     PublishedIsShown, Ids, Success
<1> QED
  BY <1>1, <1>2, <1>3, <1>4, <1>5, <1>6, <1>7 DEF ClientCalls, ClientReturns, Cancel, CancelAll

\* The worker changes the row it holds, and no other worker holds one.
LEMMA RowsFinish ==
  ASSUME TypeOK, OneLoop, Rows, NEW w \in Workers, wpc[w] \in InItem, NEW s \in Terminal,
         Finish(w, s), s \in Success => wpc[w] = "record",
         wpc[w] = "record" => s \in Success, UNCHANGED <<count, installed>>
  PROVE  Rows'
<1> USE DEF TypeOK, ItemsOK, ThreadsOK
<1>1. PICK i \in Ids : i = witem[w] /\ status[i] = "downloading"
  BY DEF Rows, HoldsItem
<1>2. /\ status' = [status EXCEPT ![i] = s] /\ witem' = [witem EXCEPT ![w] = 0]
      /\ wpc' = [wpc EXCEPT ![w] = "notify"]
  BY <1>1 DEF Finish, SetStatus, WGoto
<1>3. \A v \in Workers : wpc'[v] \notin InItem
  BY <1>2 DEF OneLoop, Loop, InItem
<1>4. HoldsItem'
  BY <1>3 DEF HoldsItem
<1>5. Owned'
  <2>1. \A j \in Ids : status[j] = "downloading" => j = i
    BY <1>1 DEF Rows, Owned, OneLoop, Loop
  <2> QED
    BY <1>2, <2>1 DEF Owned, Terminal, Success
<1>6. Allocated'
  BY <1>1, <1>2 DEF Rows, Allocated, Terminal, Success
<1>7. PublishedIsShown'
  <2>1. ASSUME NEW j \in installed PROVE status'[j] \in Success \cup {"cleared"}
    <3>1. \A v \in Workers : wpc[v] = "record" => v = w
      BY DEF OneLoop, Loop, InItem
    <3>2. CASE j = i
      BY <1>1, <1>2, <2>1, <3>1, <3>2 DEF Rows, PublishedIsShown, Success
    <3>3. CASE j # i
      BY <1>1, <1>2, <2>1, <3>1, <3>3 DEF Rows, PublishedIsShown
    <3> QED
      BY <3>2, <3>3
  <2> QED
    BY <2>1 DEF PublishedIsShown
<1> QED
  BY <1>4, <1>5, <1>6, <1>7 DEF Rows

LEMMA RowsWorker ==
  ASSUME TypeOK, OneLoop, Rows, NEW w \in Workers, WorkerStep(w) PROVE Rows'
<1> USE DEF TypeOK, ItemsOK, ThreadsOK
<1>1. CASE NextItem(w)
  <2>1. \A v \in Workers : wpc[v] \notin InItem
    BY <1>1 DEF NextItem, OneLoop, Loop, InItem
  <2>2. PICK i \in Ids : /\ status[i] = "queued"
                         /\ status' = [status EXCEPT ![i] = "downloading"]
                         /\ witem' = [witem EXCEPT ![w] = i]
    BY <1>1 DEF NextItem, SetStatus, Queued
  <2>3. wpc' = [wpc EXCEPT ![w] = "check"]
    BY <1>1 DEF NextItem, WGoto
  <2>4. HoldsItem'
    BY <2>1, <2>2, <2>3 DEF HoldsItem, InItem
  <2>5. Owned'
    BY <2>1, <2>2, <2>3 DEF Rows, Owned, InItem
  <2>6. Allocated'
    BY <1>1, <2>2 DEF NextItem, Rows, Allocated
  <2>7. PublishedIsShown'
    BY <1>1, <2>1, <2>2 DEF NextItem, Rows, PublishedIsShown, InItem, Success
  <2> QED
    BY <2>4, <2>5, <2>6, <2>7 DEF Rows
<1>2. CASE NoItem(w) \/ BeginTransfer(w) \/ Leave(w) \/ Recheck(w) \/ Restart(w)
  BY <1>2, RowsQuiet DEF NoItem, BeginTransfer, Leave, Recheck, Restart, LeaveGoto, WGoto,
     InItem, shared
<1>3. CASE WorkerNotify(w) \/ WorkerCall(w) \/ Batch(w)
  BY <1>3, RowsQuiet DEF WorkerNotify, WorkerCall, Batch, AfterTest, LeaveGoto, WGoto,
     InItem, shared
<1>4. CASE TransferEnds(w)
  <2>1. \A v \in Workers : /\ wpc[v] \in InItem <=> wpc'[v] \in InItem
                           /\ wpc[v] = "record" <=> wpc'[v] = "record"
                           /\ wpc[v] = "record" => result'[v] = result[v]
    BY <1>4 DEF TransferEnds, WGoto, InItem
  <2> QED
    BY <1>4, <2>1 DEF TransferEnds, shared, Rows, HoldsItem, Owned, Allocated, PublishedIsShown
<1>5. CASE CheckStopped(w) \/ NotTransferred(w) \/ FinalizeNotReady(w)
  <2>1. \E s \in {"cancelled", "failed"} : Finish(w, s)
    BY <1>5 DEF CheckStopped, NotTransferred, FinalizeNotReady, Unfinished
  <2>2. wpc[w] \in InItem /\ wpc[w] # "record" /\ UNCHANGED <<count, installed>>
    BY <1>5 DEF CheckStopped, NotTransferred, FinalizeNotReady, InItem
  <2> QED
    BY <2>1, <2>2, RowsFinish DEF Terminal, Success
<1>6. CASE Record(w)
  <2>1. result[w] \in Success /\ wpc[w] \in InItem
    BY <1>6 DEF Record, Rows, HoldsItem, InItem
  <2> QED
    BY <1>6, <2>1, RowsFinish DEF Record, Terminal
<1>7. CASE FinalizeReady(w)
  <2>1. /\ wpc[w] = "returned" /\ wpc' = [wpc EXCEPT ![w] = "record"]
        /\ installed' = installed \cup {witem[w]} /\ result[w] \in Success
        /\ UNCHANGED <<count, status, witem, result>>
    BY <1>7 DEF FinalizeReady, WGoto
  <2>2. HoldsItem'
    BY <2>1 DEF Rows, HoldsItem, InItem
  <2>3. Owned'
    BY <2>1 DEF Rows, Owned, InItem
  <2>4. Allocated'
    BY <2>1 DEF Rows, Allocated
  <2>5. PublishedIsShown'
    BY <2>1 DEF Rows, PublishedIsShown
  <2> QED
    BY <2>2, <2>3, <2>4, <2>5 DEF Rows
<1> QED
  BY <1>1, <1>2, <1>3, <1>4, <1>5, <1>6, <1>7 DEF WorkerStep

-----------------------------------------------------------------------------
\* The strengthened invariant.
LEMMA IInvInit == Init => IInv
<1> SUFFICES ASSUME Init PROVE IInv
  OBVIOUS
<1>1. TypeOK
  <2>1. AModel \in Models
    BY DEF AModel
  <2>2. ItemsOK
    BY <2>1 DEF Init, ItemsOK, Ids, Statuses
  <2>3. /\ workerActive \in BOOLEAN /\ processed \in [Workers -> BOOLEAN]
        /\ wpc \in [Workers -> {"off"} \cup Loop \cup Leaving]
    BY DEF Init
  <2>4. /\ witem \in [Workers -> 0..MaxItems] /\ result \in [Workers -> Results]
        /\ cpc \in [Clients -> ClientPcs] /\ want \in [Clients -> Models]
    BY <2>1 DEF Init, Results, ClientPcs
  <2>5. bound \in BOOLEAN /\ dirty \in BOOLEAN
    BY DEF Init
  <2>6. retries \in 0..MaxRetries /\ unbinds \in 0..MaxUnbinds
    BY DEF Init
  <2> QED
    BY <2>2, <2>3, <2>4, <2>5, <2>6 DEF TypeOK, ThreadsOK, WindowOK
<1>2. OneLoop /\ HoldsItem
  BY DEF Init, OneLoop, HoldsItem, Loop, InItem
<1>3. Owned /\ Allocated /\ PublishedIsShown
  BY DEF Init, Owned, Allocated, PublishedIsShown, Ids
<1> QED
  BY <1>1, <1>2, <1>3 DEF IInv

LEMMA IInvStep == IInv /\ [Next]_vars => IInv'
<1> SUFFICES ASSUME IInv, [Next]_vars PROVE IInv'
  OBVIOUS
<1>1. TypeOK /\ OneLoop /\ Rows
  BY DEF IInv, Rows
<1>2. TypeOK' /\ OneLoop'
  BY <1>1, TypeStep, LoopStep DEF Rows
<1>3. Rows'
  <2>1. ASSUME NEW c \in Clients, ClientCalls(c) \/ ClientReturns(c) PROVE Rows'
    BY <1>1, <2>1, RowsClient
  <2>2. ASSUME NEW w \in Workers, WorkerStep(w) PROVE Rows'
    BY <1>1, <2>2, RowsWorker
  <2>3. ASSUME UNCHANGED <<shared, worker>> PROVE Rows'
    BY <1>1, <2>3, RowsQuiet DEF shared, worker
  <2>4. CASE Unbind \/ Bind \/ UNCHANGED vars \/ \E w \in Workers : Progress(w)
    BY <2>3, <2>4 DEF Unbind, Bind, Progress, vars
  <2> QED
    BY <2>1, <2>2, <2>4 DEF Next
<1> QED
  BY <1>2, <1>3 DEF IInv, Rows

LEMMA IInvHolds == Spec => []IInv
  BY IInvInit, IInvStep, PTL DEF Spec

\* Every variable keeps its type, in every execution.
THEOREM QueueTypes == Spec => []TypeOK
  BY IInvHolds, PTL DEF IInv

\* At most one thread works on an item, for every number of threads and items.
THEOREM OneTransferHolds == Spec => []OneTransfer
<1>1. IInv => OneTransfer
  BY DEF IInv, OneLoop, OneTransfer, Loop
<1> QED
  BY <1>1, IInvHolds, PTL

\* No row is left downloading without a thread that works on it, and no thread
\* works on a row that is not downloading.
THEOREM DownloadingIsOwnedHolds == Spec => []DownloadingIsOwned
<1>1. IInv => DownloadingIsOwned
  BY DEF IInv, HoldsItem, Owned, DownloadingIsOwned
<1> QED
  BY <1>1, IInvHolds, PTL

\* A published model always has a row that says so.
THEOREM PublishedIsShownHolds == Spec => []PublishedIsShown
  BY IInvHolds, PTL DEF IInv

-----------------------------------------------------------------------------
\* The threads implement the sequential list of rows.
LEMMA PromiseStep ==
  ASSUME IInv, [Next]_vars PROVE [Promise!SNext]_<<status, installed>>
<1> USE DEF IInv, TypeOK, ItemsOK, ThreadsOK
<1> DEFINE Kept == UNCHANGED <<status, installed>>
<1>1. ASSUME NEW c \in Clients, ClientCalls(c) \/ ClientReturns(c)
      PROVE  Promise!SNext \/ Kept
  <2>1. ASSUME NEW m \in Models, EnqueueCheck(c, m) PROVE Kept
    BY <2>1 DEF EnqueueCheck, shared
  <2>2. ASSUME NEW i \in Ids, Retry(c, i) PROVE Promise!RetryRow(i)
    BY <2>2 DEF Retry, SetStatus, Promise!RetryRow, Promise!In, Promise!Set
  <2>3. ASSUME NEW S, CancelItems(c, S) PROVE Promise!SNext \/ Kept
    <3> DEFINE Q == {i \in Ids : i \in S /\ status[i] = "queued"}
    <3>1. status' = [i \in Ids |-> IF i \in Q THEN "cancelled" ELSE status[i]] /\ UNCHANGED installed
      BY <2>3 DEF CancelItems
    <3>2. CASE Q = {}
      BY <3>1, <3>2
    <3>3. CASE Q # {}
      <4>1. Promise!Withdraw(Q) /\ Q \in SUBSET Ids
        BY <3>1, <3>3 DEF Promise!Withdraw, Promise!In
      <4> QED
        BY <4>1 DEF Promise!SNext
    <3> QED
      BY <3>2, <3>3
  <2>4. CASE ClearFinished(c)
    BY <2>4 DEF ClearFinished, Success, Promise!SNext, Promise!Clear
  <2>5. CASE EnqueueAppend(c)
    <3>1. count + 1 \in Ids /\ status[count + 1] = "unborn"
      BY <2>5 DEF EnqueueAppend, Allocated, Ids
    <3>2. \A j \in Ids : status[j] = "unborn" => count + 1 <= j
      BY DEF Allocated, Ids
    <3>3. Promise!Add(count + 1)
      BY <2>5, <3>1, <3>2 DEF EnqueueAppend, SetStatus, Promise!Add, Promise!In, Promise!Set
    <3> QED
      BY <3>1, <3>3 DEF Promise!SNext
  <2>6. CASE EnqueueRefused(c) \/ ClientNotify(c) \/ ClientCall(c) \/ ClientEnsure(c)
    BY <2>6 DEF EnqueueRefused, ClientNotify, ClientCall, ClientEnsure, shared
  <2> QED
    BY <1>1, <2>1, <2>2, <2>3, <2>4, <2>5, <2>6
       DEF ClientCalls, ClientReturns, Cancel, CancelAll, Promise!SNext
<1>2. ASSUME NEW w \in Workers, WorkerStep(w) PROVE Promise!SNext \/ Kept
  <2>1. CASE NextItem(w)
    <3>1. Promise!In("downloading") = {}
      BY <2>1 DEF NextItem, Promise!In, Owned, OneLoop, Loop, InItem
    <3>2. \E i \in Ids : Promise!Start(i)
      BY <2>1, <3>1 DEF NextItem, SetStatus, Queued, Promise!Start, Promise!In, Promise!Set
    <3> QED
      BY <3>2 DEF Promise!SNext
  <2>2. ASSUME wpc[w] \in {"check", "returned"}
        PROVE  /\ witem[w] \in Ids /\ status[witem[w]] = "downloading"
               /\ witem[w] \notin installed
    <3>1. witem[w] \in Ids /\ status[witem[w]] = "downloading"
      BY <2>2 DEF HoldsItem, InItem
    <3>2. \A v \in Workers : wpc[v] # "record"
      BY <2>2 DEF OneLoop, Loop, InItem
    <3> QED
      BY <3>1, <3>2 DEF PublishedIsShown, Success
  <2>3. CASE CheckStopped(w) \/ NotTransferred(w) \/ FinalizeNotReady(w)
    <3>1. /\ wpc[w] \in {"check", "returned"} /\ UNCHANGED installed
          /\ \E s \in {"failed", "cancelled"} : status' = [status EXCEPT ![witem[w]] = s]
      BY <2>3 DEF CheckStopped, NotTransferred, FinalizeNotReady, Unfinished, Finish, SetStatus
    <3>2. \E s \in {"failed", "cancelled"} : Promise!GiveUp(witem[w], s)
      BY <2>2, <3>1 DEF Promise!GiveUp, Promise!In, Promise!Set
    <3> QED
      BY <2>2, <3>1, <3>2 DEF Promise!SNext
  <2>4. CASE FinalizeReady(w)
    <3>1. Promise!Publish(witem[w])
      BY <2>2, <2>4 DEF FinalizeReady, Promise!Publish, Promise!In
    <3> QED
      BY <2>2, <2>4, <3>1 DEF FinalizeReady, Promise!SNext
  <2>5. CASE Record(w)
    <3>1. /\ witem[w] \in Ids /\ status[witem[w]] = "downloading"
          /\ witem[w] \in installed /\ result[w] \in Success
      BY <2>5 DEF Record, HoldsItem, InItem
    <3>2. Promise!Succeed(witem[w], result[w])
      BY <2>5, <3>1 DEF Record, Finish, SetStatus, Success, Promise!Succeed, Promise!In, Promise!Set
    <3> QED
      BY <3>1, <3>2 DEF Promise!SNext, Success
  <2>6. CASE NoItem(w) \/ BeginTransfer(w) \/ TransferEnds(w) \/ WorkerNotify(w) \/ WorkerCall(w)
             \/ Leave(w) \/ Batch(w) \/ Recheck(w) \/ Restart(w)
    BY <2>6 DEF NoItem, BeginTransfer, TransferEnds, WorkerNotify, WorkerCall, Leave, Batch,
       Recheck, Restart, shared
  <2> QED
    BY <1>2, <2>1, <2>3, <2>4, <2>5, <2>6 DEF WorkerStep
<1>3. CASE Unbind \/ Bind \/ UNCHANGED vars \/ \E w \in Workers : Progress(w)
  BY <1>3 DEF Unbind, Bind, Progress, vars, shared
<1> QED
  BY <1>1, <1>2, <1>3 DEF Next

\* The queue and its threads implement SequentialDownloads: one row at a time, in
\* list order, published once and only on its way to success.
THEOREM QueueImplementsPromise == Spec => ImplementsPromise
<1>1. Init => Promise!SInit
  BY DEF Init, Promise!SInit
<1>2. IInv /\ [Next]_vars => [Promise!SNext]_<<status, installed>>
  BY PromiseStep
<1> QED
  BY <1>1, <1>2, IInvHolds, PTL DEF Spec, ImplementsPromise, Promise!SSpec, Promise!svars

\* A cancelled or successful row can only be cleared, a failed one only retried.
THEOREM EndedStaysEndedHolds == Spec => EndedStaysEnded
<1> DEFINE Ended == \A i \in Ids :
       /\ status[i] \in Success \cup {"cancelled"} => status'[i] \in {status[i], "cleared"}
       /\ status[i] = "failed" => status'[i] \in {"failed", "queued"}
<1>1. ASSUME IInv, [Next]_vars PROVE Ended
  <2> USE DEF IInv, TypeOK, ItemsOK, Success, Promise!In, Promise!Set
  <2>1. CASE UNCHANGED status
    BY <2>1
  <2>2. ASSUME NEW i \in Ids,
               \/ Promise!Add(i) \/ Promise!Start(i) \/ Promise!Publish(i) \/ Promise!RetryRow(i)
               \/ \E s \in {"complete", "exists"} : Promise!Succeed(i, s)
               \/ \E s \in {"failed", "cancelled"} : Promise!GiveUp(i, s)
        PROVE  Ended
    <3>1. ASSUME NEW s, status' = [status EXCEPT ![i] = s],
                 \/ status[i] \in {"unborn", "queued", "downloading"}
                 \/ status[i] = "failed" /\ s = "queued"
          PROVE  Ended
      BY <3>1
    <3>2. CASE Promise!Add(i) \/ Promise!Start(i) \/ Promise!RetryRow(i)
      BY <3>1, <3>2 DEF Promise!Add, Promise!Start, Promise!RetryRow
    <3>3. CASE Promise!Publish(i)
      BY <3>3, <2>1 DEF Promise!Publish
    <3>4. ASSUME NEW s, Promise!Succeed(i, s) \/ Promise!GiveUp(i, s) PROVE Ended
      BY <3>1, <3>4 DEF Promise!Succeed, Promise!GiveUp
    <3> QED
      BY <2>2, <3>2, <3>3, <3>4
  <2>3. ASSUME NEW S \in SUBSET Ids, Promise!Withdraw(S) PROVE Ended
    BY <2>3 DEF Promise!Withdraw
  <2>4. CASE Promise!Clear
    BY <2>4 DEF Promise!Clear
  <2> QED
    BY <1>1, PromiseStep, <2>1, <2>2, <2>3, <2>4 DEF Promise!SNext
<1>2. IInv /\ [Next]_vars => [Ended]_vars
  BY <1>1
<1> QED
  BY <1>2, IInvHolds, PTL DEF Spec, EndedStaysEnded

\* If no window detaches its callbacks, the wake-up at a worker's exit is never
\* lost, for every number of threads.
NoWindowLeaves == MaxUnbinds = 0 => bound

LEMMA BoundStep == NoWindowLeaves /\ IInv /\ [Next]_vars => NoWindowLeaves'
<1> SUFFICES ASSUME NoWindowLeaves, IInv, [Next]_vars, MaxUnbinds = 0 PROVE bound'
  BY DEF NoWindowLeaves
<1>1. bound /\ unbinds \in 0..0
  BY DEF NoWindowLeaves, IInv, TypeOK, WindowOK
<1>2. CASE UNCHANGED bound
  BY <1>1, <1>2
<1>3. CASE Unbind
  BY <1>1, <1>3 DEF Unbind
<1>4. CASE Bind
  BY <1>4 DEF Bind
<1> QED
  BY <1>2, <1>3, <1>4 DEF Next, vars, window, ClientCalls, ClientReturns, WorkerStep, EnqueueCheck,
     EnqueueAppend, EnqueueRefused, Retry, Cancel, CancelAll, CancelItems, ClearFinished,
     ClientNotify, ClientCall, ClientEnsure, NextItem, NoItem, CheckStopped, BeginTransfer,
     Progress, TransferEnds, NotTransferred, FinalizeReady, FinalizeNotReady, Record,
     WorkerNotify, WorkerCall, Leave, Batch, Recheck, Restart

LEMMA AwakeStep ==
  ASSUME IInv, bound, NoStrandedItem, [Next]_vars PROVE NoStrandedItem'
<1> DEFINE Pending == {"notifyEnsure", "callEnsure", "ensure"}
           Awake == \/ \E w \in Workers : wpc[w] \in Loop \cup Leaving
                    \/ \E c \in Clients : cpc[c] \in Pending
<1> SUFFICES ASSUME Queued' # {} PROVE Awake'
  BY DEF NoStrandedItem
<1> USE DEF IInv, TypeOK, ThreadsOK, Loop, Leaving, InItem
<1>1. ASSUME NEW c \in Clients, ClientCalls(c) \/ ClientReturns(c) PROVE Awake'
  <2> USE DEF CGoto
  <2>1. CASE EnqueueAppend(c)
    BY <2>1 DEF EnqueueAppend
  <2>2. ASSUME NEW i \in Ids, Retry(c, i) PROVE Awake'
    BY <2>2 DEF Retry
  <2>3. CASE ClientEnsure(c)
    BY <2>3 DEF ClientEnsure, StartWorker, WGoto, OneLoop, worker
  <2>4. CASE ClientNotify(c) \/ ClientCall(c)
    <3>1. Queued # {} /\ UNCHANGED wpc
      BY <2>4 DEF ClientNotify, ClientCall, Queued, shared, worker
    <3>2. CASE \E w \in Workers : wpc[w] \in Loop \cup Leaving
      BY <3>1, <3>2
    <3>3. CASE \E d \in Clients : cpc[d] \in Pending
      BY <2>4, <3>3 DEF ClientNotify, ClientCall
    <3> QED
      BY <3>1, <3>2, <3>3 DEF NoStrandedItem
  <2>5. ASSUME Queued # {}, UNCHANGED wpc, cpc[c] \notin Pending, NEW pc, CGoto(c, pc) PROVE Awake'
    BY <2>5 DEF NoStrandedItem
  <2>6. ASSUME NEW m \in Models, EnqueueCheck(c, m) PROVE Awake'
    BY <2>6, <2>5 DEF EnqueueCheck, Queued, shared, worker
  <2>7. CASE EnqueueRefused(c)
    BY <2>7, <2>5 DEF EnqueueRefused, Queued, shared, worker
  <2>8. ASSUME NEW S, CancelItems(c, S) PROVE Awake'
    <3>1. Queued # {}
      BY <2>8 DEF CancelItems, Queued
    <3> QED
      BY <2>8, <2>5, <3>1 DEF CancelItems, worker
  <2>9. CASE ClearFinished(c)
    <3>1. Queued # {}
      BY <2>9 DEF ClearFinished, Queued, Success
    <3> QED
      BY <2>9, <2>5, <3>1 DEF ClearFinished, worker
  <2> QED
    BY <1>1, <2>1, <2>2, <2>3, <2>4, <2>6, <2>7, <2>8, <2>9
       DEF ClientCalls, ClientReturns, Cancel, CancelAll
<1>2. ASSUME NEW w \in Workers, WorkerStep(w) PROVE Awake'
  <2>1. ASSUME wpc'[w] \in Loop \cup Leaving PROVE Awake'
    BY <2>1
  <2>2. CASE Recheck(w)
    <3>1. Queued # {}
      BY <2>2 DEF Recheck, Queued, shared
    <3> QED
      BY <2>2, <3>1 DEF Recheck, LeaveGoto, WGoto
  <2>3. CASE Restart(w)
    <3>1. CASE workerActive
      BY <2>3, <3>1 DEF Restart, LeaveGoto, WGoto, OneLoop
    <3>2. CASE ~workerActive
      BY <2>3, <3>2 DEF Restart, LeaveGoto, WGoto
    <3> QED
      BY <3>1, <3>2
  <2>4. CASE WorkerNotify(w) \/ WorkerCall(w) \/ Batch(w)
    BY <2>4, <2>1 DEF WorkerNotify, WorkerCall, Batch, AfterTest, LeaveGoto, WGoto
  <2>5. CASE NextItem(w) \/ NoItem(w) \/ CheckStopped(w) \/ BeginTransfer(w) \/ TransferEnds(w)
    BY <2>5, <2>1 DEF NextItem, NoItem, CheckStopped, BeginTransfer, TransferEnds, Finish, WGoto
  <2>6. CASE NotTransferred(w) \/ FinalizeReady(w) \/ FinalizeNotReady(w) \/ Record(w) \/ Leave(w)
    BY <2>6, <2>1 DEF NotTransferred, FinalizeReady, FinalizeNotReady, Record, Leave, Finish, WGoto
  <2> QED
    BY <1>2, <2>2, <2>3, <2>4, <2>5, <2>6 DEF WorkerStep
<1>3. ASSUME UNCHANGED <<status, wpc, cpc>> PROVE Awake'
  BY <1>3 DEF NoStrandedItem, Queued
<1>4. CASE Unbind \/ Bind \/ UNCHANGED vars \/ \E w \in Workers : Progress(w)
  BY <1>3, <1>4 DEF Unbind, Bind, Progress, vars, shared, worker, client
<1> QED
  BY <1>1, <1>2, <1>4 DEF Next

THEOREM NoStrandedItemHolds ==
  ASSUME MaxUnbinds = 0 PROVE Spec => []NoStrandedItem
<1> DEFINE Inv == IInv /\ NoWindowLeaves /\ NoStrandedItem
<1>1. Init => Inv
  BY IInvInit DEF Init, NoWindowLeaves, NoStrandedItem, Queued
<1>2. Inv /\ [Next]_vars => Inv'
  BY IInvStep, BoundStep, AwakeStep DEF NoWindowLeaves
<1> QED
  BY <1>1, <1>2, PTL DEF Spec

-----------------------------------------------------------------------------
\* A status that changed while callbacks are set has a thread that is yet to call them,
\* whichever windows come and go.
LEMMA RefreshStep ==
  ASSUME IInv, NoLostRefresh, [Next]_vars PROVE NoLostRefresh'
<1> DEFINE Telling == Loop \cup {"leaveNotify", "leaveCall"}
           Due == {"notify", "call", "notifyEnsure", "callEnsure"}
           Told == \/ \E w \in Workers : wpc[w] \in Telling
                   \/ \E c \in Clients : cpc[c] \in Due
<1> SUFFICES ASSUME bound', dirty' PROVE Told'
  BY DEF NoLostRefresh
<1> USE DEF IInv, TypeOK, ThreadsOK, Loop, InItem
<1>1. ASSUME NEW c \in Clients, ClientCalls(c) \/ ClientReturns(c) PROVE Told'
  <2> USE DEF CGoto
  <2>1. CASE cpc'[c] \in Due
    BY <2>1
  <2>2. ASSUME bound, dirty, cpc[c] \notin Due, UNCHANGED wpc, NEW pc, CGoto(c, pc) PROVE Told'
    BY <2>2 DEF NoLostRefresh
  <2>3. CASE EnqueueAppend(c)
    BY <2>3, <2>1 DEF EnqueueAppend
  <2>4. ASSUME NEW i \in Ids, Retry(c, i) PROVE Told'
    BY <2>4, <2>1 DEF Retry
  <2>5. ASSUME NEW S, CancelItems(c, S) PROVE Told'
    BY <2>5, <2>1 DEF CancelItems
  <2>6. CASE ClearFinished(c)
    BY <2>6, <2>1 DEF ClearFinished
  <2>7. ASSUME NEW m \in Models, EnqueueCheck(c, m) PROVE Told'
    BY <2>7, <2>2 DEF EnqueueCheck, worker, window
  <2>8. CASE EnqueueRefused(c)
    BY <2>8, <2>2 DEF EnqueueRefused, worker, window
  <2>9. CASE ClientNotify(c)
    BY <2>9, <2>1 DEF ClientNotify, window
  <2>10. CASE ClientCall(c)
    BY <2>10 DEF ClientCall
  <2>11. CASE ClientEnsure(c)
    <3>1. bound /\ dirty /\ cpc[c] \notin Due
      BY <2>11 DEF ClientEnsure, window
    <3>2. CASE UNCHANGED wpc
      BY <2>11, <3>1, <3>2, <2>2 DEF ClientEnsure
    <3>3. CASE \E w \in Workers : StartWorker(w) /\ WGoto(w, "next")
      BY <3>3 DEF WGoto
    <3> QED
      BY <2>11, <3>2, <3>3 DEF ClientEnsure, worker
  <2> QED
    BY <1>1, <2>3, <2>4, <2>5, <2>6, <2>7, <2>8, <2>9, <2>10, <2>11
       DEF ClientCalls, ClientReturns, Cancel, CancelAll
<1>2. ASSUME NEW w \in Workers, WorkerStep(w) PROVE Told'
  <2>1. ASSUME wpc'[w] \in Telling PROVE Told'
    BY <2>1
  <2>2. CASE Batch(w) \/ Recheck(w) \/ Restart(w)
    <3>1. bound /\ dirty /\ UNCHANGED cpc
      BY <2>2 DEF Batch, Recheck, Restart, window, client
    <3>2. wpc[w] \notin Telling /\ \A v \in Workers \ {w} : wpc'[v] = wpc[v]
      BY <2>2 DEF Batch, Recheck, Restart, AfterTest, LeaveGoto, WGoto
    <3> QED
      BY <3>1, <3>2 DEF NoLostRefresh
  <2>3. CASE WorkerNotify(w)
    BY <2>3, <2>1 DEF WorkerNotify, AfterTest, LeaveGoto, WGoto, window
  <2>4. CASE WorkerCall(w)
    BY <2>4 DEF WorkerCall
  <2>5. CASE NextItem(w) \/ NoItem(w) \/ CheckStopped(w) \/ BeginTransfer(w) \/ TransferEnds(w)
    BY <2>5, <2>1 DEF NextItem, NoItem, CheckStopped, BeginTransfer, TransferEnds, Finish, WGoto
  <2>6. CASE NotTransferred(w) \/ FinalizeReady(w) \/ FinalizeNotReady(w) \/ Record(w) \/ Leave(w)
    BY <2>6, <2>1 DEF NotTransferred, FinalizeReady, FinalizeNotReady, Record, Leave, Finish, WGoto
  <2> QED
    BY <1>2, <2>2, <2>3, <2>4, <2>5, <2>6 DEF WorkerStep
<1>3. CASE Unbind \/ Bind \/ \E w \in Workers : Progress(w)
  BY <1>3 DEF Unbind, Bind, Progress
<1>4. CASE UNCHANGED vars
  BY <1>4 DEF NoLostRefresh, vars, worker, client, window
<1> QED
  BY <1>1, <1>2, <1>3, <1>4 DEF Next

\* Every change of a status is followed by a call of on_changed, for every number of threads,
\* and although windows detach their callbacks in the middle of it.
THEOREM NoLostRefreshHolds == Spec => []NoLostRefresh
<1>1. Init => NoLostRefresh
  BY DEF Init, NoLostRefresh
<1>2. IInv /\ NoLostRefresh /\ [Next]_vars => NoLostRefresh'
  BY RefreshStep
<1> QED
  BY <1>1, <1>2, IInvHolds, PTL DEF Spec

\* The second check of enqueue, under the lock: no enqueue adds a row for a model that has an
\* active one, for every number of clients between their two checks.
THEOREM EnqueueAddsNoDuplicateHolds == Spec => EnqueueAddsNoDuplicate
<1>1. ASSUME IInv, [Next]_vars, count' > count PROVE ActiveItems(model'[count']) = {}
  <2>1. count \in Nat
    BY <1>1 DEF IInv, TypeOK, ItemsOK
  <2>2. PICK c \in Clients : EnqueueAppend(c)
    <3>1. count' # count
      BY <1>1, <2>1
    <3>2. ASSUME NEW c \in Clients, ClientCalls(c) \/ ClientReturns(c), ~EnqueueAppend(c)
          PROVE  UNCHANGED count
      BY <3>2 DEF ClientCalls, ClientReturns, EnqueueCheck, EnqueueRefused, Retry, Cancel, CancelAll,
         CancelItems, ClearFinished, ClientNotify, ClientCall, ClientEnsure, shared
    <3>3. ASSUME NEW w \in Workers, WorkerStep(w) \/ Progress(w) PROVE UNCHANGED count
      BY <3>3 DEF WorkerStep, NextItem, NoItem, CheckStopped, BeginTransfer, Progress, TransferEnds,
         NotTransferred, FinalizeReady, FinalizeNotReady, Record, WorkerNotify, WorkerCall, Leave,
         Batch, Recheck, Restart, shared
    <3>4. ASSUME Unbind \/ Bind \/ UNCHANGED vars PROVE UNCHANGED count
      BY <3>4 DEF Unbind, Bind, vars, shared
    <3> QED
      BY <1>1, <3>1, <3>2, <3>3, <3>4 DEF Next
  <2>3. count + 1 \in Ids
    BY <2>1, <2>2 DEF EnqueueAppend, Ids
  <2>4. model'[count'] = want[c]
    BY <1>1, <2>2, <2>3 DEF EnqueueAppend, IInv, TypeOK, ItemsOK
  <2> QED
    BY <2>2, <2>4 DEF EnqueueAppend
<1>2. IInv /\ [Next]_vars => [count' > count => ActiveItems(model'[count']) = {}]_vars
  BY <1>1
<1> QED
  BY <1>2, IInvHolds, PTL DEF Spec, EnqueueAddsNoDuplicate
=============================================================================
