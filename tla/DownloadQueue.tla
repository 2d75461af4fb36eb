--------------------------- MODULE DownloadQueue ---------------------------
(***************************************************************************)
(* core/download_queue.py: the model download queue shared by the windows  *)
(* of the application.  Client threads call enqueue, retry, cancel,        *)
(* cancel_all and clear_finished; one daemon worker thread at a time pops  *)
(* the queued items in list order, transfers each and publishes the model. *)
(* The list, the QUEUED statuses and _worker_active are guarded by a lock; *)
(* the worker writes the statuses of its own item WITHOUT it, and runs the *)
(* callbacks of the window outside it.                                     *)
(*                                                                         *)
(* An atomic action is one critical section, or the code between two of    *)
(* them that another thread can observe.  Items are numbered in the order  *)
(* they are appended, so the list order is the order of the numbers.       *)
(***************************************************************************)
EXTENDS Naturals

CONSTANTS Clients,      \* threads that call the queue's methods
          Main,         \* the one of them that runs the windows
          Workers,      \* identities of worker threads, reused once they end
          Models,       \* (selection, arch_type) pairs
          MaxItems,     \* bound: items ever enqueued
          MaxRetries,   \* bound: accepted retries
          MaxUnbinds    \* bound: windows that detach their callbacks

ASSUME QueueAssumption == /\ Models # {}
                          /\ Main \in Clients
                          /\ MaxItems \in Nat /\ MaxRetries \in Nat
                          /\ MaxUnbinds \in Nat

VARIABLES count,        \* items appended so far
          model,        \* item.selection and item.arch_type
          status,       \* item.status ("unborn"/"cleared": not in _items)
          stop,         \* item.stop_event.is_set()
          installed,    \* items whose model finalize_downloaded_model published
          workerActive, \* _worker_active
          wpc, witem, result, processed,   \* one frame of _worker_main each
          cpc, want,    \* the call a client is inside, and enqueue's argument
          bound,        \* the window's callbacks are set
          dirty,        \* a status changed since on_changed last ran
          retries, unbinds

shared == <<count, model, status, stop, installed>>
worker == <<wpc, witem, result, processed>>
client == <<cpc, want>>
window == <<bound, dirty, unbinds>>
vars == <<shared, workerActive, worker, client, window, retries>>

Ids       == 1..MaxItems
Active    == {"queued", "downloading"}
Success   == {"complete", "exists"}
Terminal  == Success \cup {"failed", "cancelled"}
Statuses  == {"unborn", "cleared"} \cup Active \cup Terminal
Results   == {"raise", "stopped"} \cup Success
\* the worker's frame while it owns _worker_active ...
InItem    == {"check", "transfer", "returned", "record"}
Loop      == InItem \cup {"next", "notify", "call", "leave"}
\* ... and in the rest of its finally block
Leaving   == {"leaveNotify", "leaveCall", "batch", "batchCall", "recheck", "restart"}
ClientPcs == {"idle", "resolve", "notify", "call", "notifyEnsure", "callEnsure", "ensure"}

ItemsOK ==
    /\ count \in 0..MaxItems
    /\ model \in [Ids -> Models]
    /\ status \in [Ids -> Statuses]
    /\ stop \in [Ids -> BOOLEAN]
    /\ installed \subseteq Ids

ThreadsOK ==
    /\ workerActive \in BOOLEAN
    /\ wpc \in [Workers -> {"off"} \cup Loop \cup Leaving]
    /\ witem \in [Workers -> 0..MaxItems]
    /\ result \in [Workers -> Results]
    /\ processed \in [Workers -> BOOLEAN]
    /\ cpc \in [Clients -> ClientPcs]
    /\ want \in [Clients -> Models]

WindowOK ==
    /\ bound \in BOOLEAN /\ dirty \in BOOLEAN
    /\ retries \in 0..MaxRetries /\ unbinds \in 0..MaxUnbinds

TypeOK == ItemsOK /\ ThreadsOK /\ WindowOK

AModel == CHOOSE m \in Models : TRUE

Init ==
    /\ count = 0
    /\ model = [i \in Ids |-> AModel]
    /\ status = [i \in Ids |-> "unborn"]
    /\ stop = [i \in Ids |-> FALSE]
    /\ installed = {}
    /\ workerActive = FALSE
    /\ wpc = [w \in Workers |-> "off"]
    /\ witem = [w \in Workers |-> 0]
    /\ result = [w \in Workers |-> "raise"]
    /\ processed = [w \in Workers |-> FALSE]
    /\ cpc = [c \in Clients |-> "idle"]
    /\ want = [c \in Clients |-> AModel]
    /\ bound = TRUE /\ dirty = FALSE
    /\ retries = 0 /\ unbinds = 0

-----------------------------------------------------------------------------
(* Helpers *)

Queued == {i \in Ids : status[i] = "queued"}

ActiveItems(m) == {i \in Ids : status[i] \in Active /\ model[i] = m}

WGoto(w, pc) == wpc' = [wpc EXCEPT ![w] = pc]
CGoto(c, pc) == cpc' = [cpc EXCEPT ![c] = pc]

SetStatus(i, s) == /\ status' = [status EXCEPT ![i] = s]
                   /\ dirty' = TRUE

\* _ensure_worker: claim _worker_active under the lock, then start a thread.
\* (Mutant: without the test.)
StartAnyWorker(w) == wpc[w] = "off" /\ workerActive' = TRUE
StartWorker(w) == ~workerActive /\ wpc[w] = "off" /\ workerActive' = TRUE

\* The worker is done with its item, whose final status is s; its locals die.
Finish(w, s) ==
    /\ SetStatus(witem[w], s)
    /\ WGoto(w, "notify")
    /\ witem' = [witem EXCEPT ![w] = 0]
    /\ result' = [result EXCEPT ![w] = "raise"]

\* The worker goes to pc; `processed_any` dies with the thread.
LeaveGoto(w, pc) ==
    /\ WGoto(w, pc)
    /\ processed' = [processed EXCEPT ![w] = @ /\ wpc[w] # "restart" /\ pc # "off"]

-----------------------------------------------------------------------------
(* Client calls *)

\* enqueue, up to manager.resolve, which runs outside the lock
EnqueueCheck(c, m) ==
    /\ cpc[c] = "idle" /\ count < MaxItems
    /\ ActiveItems(m) = {}
    /\ CGoto(c, "resolve")
    /\ want' = [want EXCEPT ![c] = m]
    /\ UNCHANGED <<shared, workerActive, worker, window, retries>>

\* resolve found jobs: check again and append under the lock
\* (mutant: without the second check)
Unchecked(c) == TRUE
StillFree(c) == ActiveItems(want[c]) = {}

EnqueueAppend(c) ==
    /\ cpc[c] = "resolve" /\ count < MaxItems
    /\ StillFree(c)
    /\ count' = count + 1
    /\ model' = [model EXCEPT ![count + 1] = want[c]]
    /\ SetStatus(count + 1, "queued")
    /\ CGoto(c, "notifyEnsure")
    /\ want' = [want EXCEPT ![c] = AModel]
    /\ UNCHANGED <<stop, installed, workerActive, worker, bound, unbinds, retries>>

\* resolve found nothing, or the model became active meanwhile
EnqueueRefused(c) ==
    /\ cpc[c] = "resolve"
    /\ CGoto(c, "idle")
    /\ want' = [want EXCEPT ![c] = AModel]
    /\ UNCHANGED <<shared, workerActive, worker, window, retries>>

\* (mutant: a cancelled item can be retried too)
RetryableToo(i) == status[i] \in {"failed", "cancelled"}
Retryable(i) == status[i] = "failed"

Retry(c, i) ==
    /\ cpc[c] = "idle" /\ retries < MaxRetries
    /\ Retryable(i)
    /\ SetStatus(i, "queued")
    /\ stop' = [stop EXCEPT ![i] = FALSE]
    /\ retries' = retries + 1
    /\ CGoto(c, "notifyEnsure")
    /\ UNCHANGED <<count, model, installed, workerActive, worker, want, bound, unbinds>>

\* A queued item is cancelled at once, a downloading one only signalled.
\* (Mutant: both are marked at once.)
CancelledAtOnce(i) == "cancelled"
AfterCancel(i) == IF status[i] = "queued" THEN "cancelled" ELSE status[i]

\* The callers that only change rows notify the window.  (Mutant: they do not.)
Silent(c) == UNCHANGED cpc
Announce(c) == CGoto(c, "notify")

\* cancel(item_id), and cancel_all for every active item
CancelItems(c, items) ==
    /\ cpc[c] = "idle"
    /\ items # {} /\ \A i \in items : status[i] \in Active
    /\ stop' = [i \in Ids |-> stop[i] \/ i \in items]
    /\ status' = [i \in Ids |-> IF i \in items THEN AfterCancel(i) ELSE status[i]]
    /\ dirty' = TRUE
    /\ Announce(c)
    /\ UNCHANGED <<count, model, installed, workerActive, worker, want, bound, unbinds, retries>>

Cancel(c, i) == CancelItems(c, {i})
CancelAll(c) == CancelItems(c, {i \in Ids : status[i] \in Active})

\* keeps the active rows, and the failed ones for retry
ClearFinished(c) ==
    /\ cpc[c] = "idle"
    /\ \E i \in Ids : status[i] \in Success \cup {"cancelled"}
    /\ status' = [i \in Ids |-> IF status[i] \in Success \cup {"cancelled"}
                                THEN "cleared" ELSE status[i]]
    /\ dirty' = TRUE
    /\ Announce(c)
    /\ UNCHANGED <<count, model, stop, installed, workerActive, worker, want, bound, unbinds, retries>>

\* _notify tests the callback and then calls it; a callback that was detached
\* in between is None and the call raises.  A client that raises is left idle.
ClientNotify(c) ==
    /\ \E pc \in {"notify", "notifyEnsure"} :
         /\ cpc[c] = pc
         /\ CGoto(c, IF bound THEN (IF pc = "notify" THEN "call" ELSE "callEnsure")
                              ELSE (IF pc = "notify" THEN "idle" ELSE "ensure"))
    /\ UNCHANGED <<shared, workerActive, worker, want, window, retries>>

ClientCall(c) ==
    /\ cpc[c] \in {"call", "callEnsure"}
    /\ CGoto(c, IF bound /\ cpc[c] = "callEnsure" THEN "ensure" ELSE "idle")
    /\ dirty' = IF bound THEN FALSE ELSE dirty
    /\ UNCHANGED <<shared, workerActive, worker, want, bound, unbinds, retries>>

ClientEnsure(c) ==
    /\ cpc[c] = "ensure"
    /\ CGoto(c, "idle")
    /\ \/ workerActive /\ UNCHANGED <<workerActive, worker>>
       \/ /\ \E w \in Workers : StartWorker(w) /\ WGoto(w, "next")
          /\ UNCHANGED <<witem, result, processed>>
    /\ UNCHANGED <<shared, want, window, retries>>

-----------------------------------------------------------------------------
(* The worker thread *)

\* _next_queued: the first queued item of the list (mutant: the last)
IsLast(i) == \A j \in Queued : i >= j
IsFirst(i) == \A j \in Queued : i <= j

NextItem(w) ==
    /\ wpc[w] = "next"
    /\ \E i \in Queued :
         /\ IsFirst(i)
         /\ SetStatus(i, "downloading")
         /\ witem' = [witem EXCEPT ![w] = i]
    /\ processed' = [processed EXCEPT ![w] = TRUE]
    /\ WGoto(w, "check")
    /\ UNCHANGED <<count, model, stop, installed, workerActive, result, client, bound, unbinds, retries>>

NoItem(w) ==
    /\ wpc[w] = "next"
    /\ Queued = {}
    /\ WGoto(w, "leave")
    /\ UNCHANGED <<shared, workerActive, witem, result, processed, client, window, retries>>

\* the stop event is tested before the transfer
CheckStopped(w) ==
    /\ wpc[w] = "check" /\ stop[witem[w]]
    /\ Finish(w, "cancelled")
    /\ UNCHANGED <<count, model, stop, installed, workerActive, processed, client,
                   bound, unbinds, retries>>

BeginTransfer(w) ==
    /\ wpc[w] = "check" /\ ~stop[witem[w]]
    /\ WGoto(w, "transfer")
    /\ UNCHANGED <<shared, workerActive, witem, result, processed, client, window, retries>>

\* on_progress and on_info notify the window during the transfer
Progress(w) ==
    /\ wpc[w] = "transfer"
    /\ bound /\ dirty
    /\ dirty' = FALSE
    /\ UNCHANGED <<shared, workerActive, worker, client, bound, unbinds, retries>>

\* manager.download returns or raises (module DownloadTransfer): it returns
\* "stopped" only when it saw the stop event, and tests it once more after the
\* last file landed, before it returns anything else (mutant: it does not)
MayReturnUntested(w, r) == r = "stopped" => stop[witem[w]]
MayReturn(w, r) == /\ r = "stopped" => stop[witem[w]]
                   /\ r \in Success => ~stop[witem[w]]

TransferEnds(w) ==
    /\ wpc[w] = "transfer"
    /\ \E r \in Results : MayReturn(w, r) /\ result' = [result EXCEPT ![w] = r]
    /\ WGoto(w, "returned")
    /\ UNCHANGED <<shared, workerActive, witem, processed, client, window, retries>>

\* The transfer raised or was stopped: the stop event, as it is now, decides.
Unfinished(w) == IF stop[witem[w]] \/ result[w] = "stopped" THEN "cancelled" ELSE "failed"

NotTransferred(w) ==
    /\ wpc[w] = "returned" /\ result[w] \in {"raise", "stopped"}
    /\ Finish(w, Unfinished(w))
    /\ UNCHANGED <<count, model, stop, installed, workerActive, processed, client,
                   bound, unbinds, retries>>

\* _finalize_item: publish the model if it is usable, else fail the item
\* (mutant: it is published before it is found unusable)
PublishAnyway(w, ready) == installed' = installed \cup {witem[w]}
PublishIf(w, ready) == installed' = installed \cup (IF ready THEN {witem[w]} ELSE {})

FinalizeReady(w) ==
    /\ wpc[w] = "returned" /\ result[w] \in Success
    /\ PublishIf(w, TRUE)
    /\ WGoto(w, "record")
    /\ UNCHANGED <<count, model, status, stop, workerActive, witem, result, processed,
                   client, window, retries>>

FinalizeNotReady(w) ==
    /\ wpc[w] = "returned" /\ result[w] \in Success
    /\ PublishIf(w, FALSE)
    /\ Finish(w, "failed")
    /\ UNCHANGED <<count, model, stop, workerActive, processed, client, bound, unbinds, retries>>

\* map_download_result
Record(w) ==
    /\ wpc[w] = "record"
    /\ Finish(w, result[w])
    /\ UNCHANGED <<count, model, stop, installed, workerActive, processed, client,
                   bound, unbinds, retries>>

\* Where the worker goes after a callback it tests and calls.  A call that
\* raises inside the loop enters the finally block; one that raises inside the
\* finally block ends the thread.
AfterTest(w, called, skipped) ==
    LeaveGoto(w, IF bound THEN called ELSE skipped)

WorkerNotify(w) ==
    /\ \/ wpc[w] = "notify" /\ AfterTest(w, "call", "next")
       \/ wpc[w] = "leaveNotify" /\ AfterTest(w, "leaveCall", "batch")
    /\ UNCHANGED <<shared, workerActive, witem, result, client, window, retries>>

WorkerCall(w) ==
    /\ \/ wpc[w] = "call" /\ AfterTest(w, "next", "leave")
       \/ wpc[w] = "leaveCall" /\ AfterTest(w, "batch", "off")
    /\ dirty' = IF bound THEN FALSE ELSE dirty
    /\ UNCHANGED <<shared, workerActive, witem, result, client, bound, unbinds, retries>>

\* finally: the worker gives _worker_active up under the lock
Leave(w) ==
    /\ wpc[w] = "leave"
    /\ workerActive' = FALSE
    /\ WGoto(w, "leaveNotify")
    /\ UNCHANGED <<shared, witem, result, processed, client, window, retries>>

Batch(w) ==
    /\ \/ wpc[w] = "batch" /\ LeaveGoto(w, IF processed[w] /\ bound THEN "batchCall" ELSE "recheck")
       \/ wpc[w] = "batchCall" /\ AfterTest(w, "recheck", "off")
    /\ UNCHANGED <<shared, workerActive, witem, result, client, window, retries>>

\* _has_queued, then _ensure_worker: the thread it starts takes the identity of
\* this one, which ends.  (Mutant: the worker does not look again.)
NoLook == FALSE
HasQueued == Queued # {}

Recheck(w) ==
    /\ wpc[w] = "recheck"
    /\ LeaveGoto(w, IF HasQueued THEN "restart" ELSE "off")
    /\ UNCHANGED <<shared, workerActive, witem, result, client, window, retries>>

Restart(w) ==
    /\ wpc[w] = "restart"
    /\ LeaveGoto(w, IF workerActive THEN "off" ELSE "next")
    /\ workerActive' = TRUE
    /\ UNCHANGED <<shared, witem, result, client, window, retries>>

-----------------------------------------------------------------------------
(* The window: clear_callbacks when it is disposed, set_on_changed and       *)
(* set_on_batch_complete (and one refresh) when the next one binds.          *)

Unbind ==
    /\ cpc[Main] = "idle" /\ bound /\ unbinds < MaxUnbinds
    /\ bound' = FALSE /\ unbinds' = unbinds + 1
    /\ UNCHANGED <<shared, workerActive, worker, client, dirty, retries>>

Bind ==
    /\ cpc[Main] = "idle" /\ ~bound
    /\ bound' = TRUE /\ dirty' = FALSE
    /\ UNCHANGED <<shared, workerActive, worker, client, unbinds, retries>>

-----------------------------------------------------------------------------
ClientReturns(c) ==
    \/ EnqueueAppend(c) \/ EnqueueRefused(c)
    \/ ClientNotify(c) \/ ClientCall(c) \/ ClientEnsure(c)

ClientCalls(c) ==
    \/ \E m \in Models : EnqueueCheck(c, m)
    \/ \E i \in Ids : Retry(c, i) \/ Cancel(c, i)
    \/ CancelAll(c) \/ ClearFinished(c)

WorkerStep(w) ==
    \/ NextItem(w) \/ NoItem(w) \/ CheckStopped(w) \/ BeginTransfer(w) \/ TransferEnds(w)
    \/ NotTransferred(w) \/ FinalizeReady(w) \/ FinalizeNotReady(w) \/ Record(w)
    \/ WorkerNotify(w) \/ WorkerCall(w)
    \/ Leave(w) \/ Batch(w) \/ Recheck(w) \/ Restart(w)

Next ==
    \/ \E c \in Clients : ClientCalls(c) \/ ClientReturns(c)
    \/ \E w \in Workers : WorkerStep(w) \/ Progress(w)
    \/ Unbind \/ Bind

Spec == Init /\ [][Next]_vars

\* Threads are scheduled, and a transfer ends (sockets time out): a thread that
\* is inside the queue's code keeps running.  Nobody is obliged to call it.
Fairness == /\ \A w \in Workers : WF_vars(WorkerStep(w))
            /\ \A c \in Clients : WF_vars(ClientReturns(c))

FairSpec == Spec /\ Fairness

-----------------------------------------------------------------------------
(* Properties *)

\* "the queue runs one item at a time" (core/download_status.py:50): whatever
\* the interleaving of enqueue, retry and a worker that is leaving, at most one
\* thread is between _next_queued and the end of _process_item.
OneTransfer ==
    \A v, w \in Workers : wpc[v] \in InItem /\ wpc[w] \in InItem => v = w

\* An item is DOWNLOADING exactly while a live worker thread works on it, so no
\* row is left spinning by a thread that ended, and no cancel, retry or clear
\* takes an item away from the worker.
DownloadingIsOwned ==
    /\ \A i \in Ids : status[i] = "downloading"
                        => \E w \in Workers : wpc[w] \in InItem /\ witem[w] = i
    /\ \A w \in Workers : wpc[w] \in InItem => status[witem[w]] = "downloading"

\* The wake-up cannot be lost at the worker's exit: while an item is queued,
\* either a worker will look at the list again, or a thread is on its way to
\* start one.  (_worker_active is given up before the list is read again.)
NoStrandedItem ==
    Queued # {} =>
        \/ \E w \in Workers : wpc[w] \in Loop \cup Leaving
        \/ \E c \in Clients : cpc[c] \in {"notifyEnsure", "callEnsure", "ensure"}

\* Every change of a status is followed by a call of on_changed: the window
\* shows an old status only while some thread still has its call to make.
NoLostRefresh ==
    bound /\ dirty =>
        \/ \E w \in Workers : wpc[w] \in Loop \cup {"leaveNotify", "leaveCall"}
        \/ \E c \in Clients : cpc[c] \in {"notify", "call", "notifyEnsure", "callEnsure"}

\* A published model belongs to a row that says so: the model of a cancelled or
\* failed row is never in the pickers because of that row, however late the
\* cancel came.
PublishedIsShown ==
    \A i \in installed :
        \/ status[i] \in Success \cup {"cleared"}
        \/ \E w \in Workers : wpc[w] = "record" /\ witem[w] = i

\* The second check of enqueue, under the lock: no enqueue adds a row for a
\* model that has an active one, although resolve ran outside the lock.
EnqueueAddsNoDuplicate ==
    [][count' > count => ActiveItems(model'[count']) = {}]_vars

\* A row that ended stays as it ended: cancelled and successful rows can only be
\* cleared, and a failed one only queued again.
EndedStaysEnded ==
    [][\A i \in Ids :
         /\ status[i] \in Success \cup {"cancelled"} => status'[i] \in {status[i], "cleared"}
         /\ status[i] = "failed" => status'[i] \in {"failed", "queued"}]_vars

\* Every queued item is taken or cancelled: the queue never goes quiet with work
\* in its list, unless a window detached its callbacks under a leaving worker.
QueuedIsServed ==
    \A i \in Ids : status[i] = "queued" ~> (status[i] # "queued" \/ unbinds > 0)

\* A cancel that arrives while the file is still being transferred ends with a
\* cancelled row, never with a complete one.
CancelLands ==
    \A i \in Ids :
        (stop[i] /\ \E w \in Workers : wpc[w] \in {"check", "transfer"} /\ witem[w] = i)
            ~> status[i] \in {"cancelled", "cleared"}

\* The threads together behave like a list of rows served one after the other
\* (module SequentialDownloads).
Promise == INSTANCE SequentialDownloads WITH Rows <- Ids, row <- status, usable <- installed

ImplementsPromise == Promise!SSpec
=============================================================================
