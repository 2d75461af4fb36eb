------------------------- MODULE DownloadTransfer --------------------------
(***************************************************************************)
(* core/download_transfer.py: DownloadTransfer.download, which writes the   *)
(* files of one model one after the other.  A file is streamed into         *)
(* "<path>.part" and renamed when it is complete; a failed stream is tried  *)
(* once more from a mirror; the stop event of the queue item may be set by  *)
(* another thread between any two steps, and the process may end at any     *)
(* step.  A file is the number of units of it on disk; a unit stands for    *)
(* one chunk of 64 KiB.  Jobs and files have the same numbers, in order.    *)
(***************************************************************************)
EXTENDS Integers, FiniteSets, FiniteSetsExt

CONSTANTS NumFiles,     \* length of the jobs argument
          Size,         \* units of each file, at its source and its mirror
          Mirrored,     \* files whose URL has a fallback_url
          Announced,    \* files whose responses carry a Content-Length
          MaxAttempts,  \* bound: calls of download() for these jobs
          MaxCrashes    \* bound: ends of the process within a call

Files == 1..NumFiles

ASSUME TransferAssumption == /\ NumFiles \in Nat
                             /\ Size \in [Files -> Nat \ {0}]
                             /\ Mirrored \subseteq Files
                             /\ Announced \subseteq Files
                             /\ MaxAttempts \in Nat /\ MaxCrashes \in Nat

VARIABLES saved,      \* units at each save_path, or Absent
          part,       \* units at each save_path + ".part", or Absent
          stuck,      \* ghost: files at which os.remove or os.replace raised OSError
          stop,       \* stop_event.is_set()
          pc,         \* where download() is; "idle" between the calls
          result,     \* what the last call returned, "error" if it raised
          job,        \* index of the job at hand
          pending,    \* pending_jobs: the files absent when the call began
          known,      \* those of them whose remote size is known
          mirror,     \* the stream at hand is the fallback's
          got,        \* downloaded, of the stream at hand
          bytesDone, pendingIndex, anyDownloaded,
          shown,      \* the fraction last given to on_progress, unclamped
          attempts, crashes

disk  == <<saved, part, stuck>>
call  == <<job, pending, known, anyDownloaded>>
count == <<bytesDone, pendingIndex>>
vars  == <<disk, stop, pc, result, call, mirror, got, count, shown, attempts, crashes>>

Absent  == -1
Results == {"none", "complete", "exists", "stopped", "error", "crashed"}
Pcs     == {"idle", "job", "open", "loop", "read", "failed", "check", "final",
            "replace", "after", "done"}

FileStates == [Files -> Nat \cup {Absent}]

CallTypes == /\ saved \in FileStates /\ part \in FileStates /\ stuck \subseteq Files
             /\ stop \in BOOLEAN /\ pc \in Pcs /\ result \in Results
             /\ job \in 1..(NumFiles + 1) /\ pending \subseteq Files /\ known \subseteq pending
             /\ mirror \in BOOLEAN /\ anyDownloaded \in BOOLEAN
             /\ got \in Nat /\ bytesDone \in Nat /\ pendingIndex \in Nat
             /\ attempts \in Nat /\ crashes \in Nat

\* Every variable has its type; the sizes known are those of pending files, and
\* job never runs further than one past the last.
TypeOK == CallTypes /\ shown \in Nat \X Nat

\* The model's files may be on disk already, each whole.
Init == /\ \E there \in SUBSET Files :
             saved = [f \in Files |-> IF f \in there THEN Size[f] ELSE Absent]
        /\ part = [f \in Files |-> Absent] /\ stuck = {}
        /\ stop = FALSE /\ pc = "idle" /\ result = "none"
        /\ job = 1 /\ pending = {} /\ known = {} /\ anyDownloaded = FALSE
        /\ mirror = FALSE /\ got = 0
        /\ bytesDone = 0 /\ pendingIndex = 0 /\ shown = <<0, 1>>
        /\ attempts = 0 /\ crashes = 0

----------------------------------------------------------------------------
(* The denominator of the progress bar.                                     *)

\* The sizes HEAD requests found, summed up.
TotalBytes == MapThenSumSet(LAMBDA f : Size[f], known)

AnyKnown == known # {}   \* mutant
ByteWeighted == known = pending /\ pending # {}

PendingTotal == Cardinality(pending)

\* report(), before the clamp to [0, 1]; a response without a length reports
\* nothing unless bytes are weighed.
Fraction(downloaded) ==
  IF ByteWeighted THEN <<bytesDone + downloaded, TotalBytes>>
  ELSE IF job \in Announced
       THEN <<pendingIndex * Size[job] + downloaded, PendingTotal * Size[job]>>
       ELSE shown

----------------------------------------------------------------------------
(* download(): from one job to the next.                                    *)

AnyFile(f) == TRUE   \* mutant
Missing(f) == saved[f] = Absent

SizesOf(files) == SUBSET files

Start == /\ pc = "idle" /\ attempts < MaxAttempts
         /\ pending' = {f \in Files : saved[f] = Absent}
         /\ known' \in SizesOf(pending')
         /\ attempts' = attempts + 1
         /\ pc' = "job" /\ result' = "none" /\ job' = 1 /\ anyDownloaded' = FALSE
         /\ bytesDone' = 0 /\ pendingIndex' = 0 /\ shown' = <<0, 1>>
         /\ UNCHANGED <<disk, stop, mirror, got, crashes>>

Return(r) == pc' = "done" /\ result' = r

JobStopped == /\ pc = "job" /\ job \in Files /\ stop
              /\ Return("stopped")
              /\ UNCHANGED <<disk, stop, call, mirror, got, count, shown, attempts, crashes>>

JobPresent == /\ pc = "job" /\ job \in Files /\ ~stop /\ ~Missing(job)
              /\ job' = job + 1
              /\ UNCHANGED <<disk, stop, pc, result, pending, known, anyDownloaded, mirror,
                             got, count, shown, attempts, crashes>>

JobBegin == /\ pc = "job" /\ job \in Files /\ ~stop /\ Missing(job)
            /\ pc' = "open" /\ anyDownloaded' = TRUE /\ mirror' = FALSE
            /\ UNCHANGED <<disk, stop, result, job, pending, known, got, count, shown,
                           attempts, crashes>>

NoMoreJobs == /\ pc = "job" /\ job \notin Files
              /\ Return(IF anyDownloaded THEN "complete" ELSE "exists")
              /\ shown' = <<1, 1>>
              /\ UNCHANGED <<disk, stop, call, mirror, got, count, attempts, crashes>>

----------------------------------------------------------------------------
(* _download_file_url: one stream into the .part file.                      *)

\* os.remove of the .part file, its OSError swallowed.
KeepPart == UNCHANGED <<part, stuck>>   \* mutant
RemovePart == \/ part' = [part EXCEPT ![job] = Absent] /\ UNCHANGED stuck
              \/ stuck' = stuck \cup {job} /\ UNCHANGED part

\* An exception leaves the first stream into the handler of _download_file;
\* it leaves the mirror's, which runs in that handler, for good.
Raised == IF mirror THEN Return("error") ELSE pc' = "failed" /\ UNCHANGED result

StreamRaises == /\ RemovePart /\ Raised
                /\ UNCHANGED <<saved, stop, call, mirror, got, count, shown, attempts, crashes>>

\* _open_url, or the open of the .part file.
OpenFails == pc = "open" /\ StreamRaises

Open == /\ pc = "open"
        /\ part' = [part EXCEPT ![job] = 0]
        /\ got' = 0 /\ pc' = "loop"
        /\ UNCHANGED <<saved, stuck, stop, result, call, mirror, count, shown, attempts, crashes>>

ReadOn == /\ pc = "loop" /\ ~stop
          /\ pc' = "read"
          /\ UNCHANGED <<disk, stop, result, call, mirror, got, count, shown, attempts, crashes>>

StopInLoop == /\ pc = "loop" /\ stop
              /\ RemovePart
              /\ pc' = "check"
              /\ UNCHANGED <<saved, stop, result, call, mirror, got, count, shown, attempts, crashes>>

Chunk == /\ pc = "read" /\ got < Size[job]
         /\ part' = [part EXCEPT ![job] = got + 1]
         /\ got' = got + 1
         /\ shown' = Fraction(got + 1)
         /\ pc' = "loop"
         /\ UNCHANGED <<saved, stuck, stop, result, call, mirror, count, attempts, crashes>>

\* The read, the write to the .part file or a callback of report() raises.
ReadFails == pc = "read" /\ StreamRaises

AcceptsAny(downloaded) == TRUE   \* mutant
Accepts(downloaded) == job \in Announced => downloaded = Size[job]

\* The connection ends, early or not: a wrong length raises where it is known.
EndOfStream == /\ pc = "read" /\ Accepts(got)
               /\ pc' = "check"
               /\ UNCHANGED <<disk, stop, result, call, mirror, got, count, shown, attempts, crashes>>

Truncated == pc = "read" /\ ~Accepts(got) /\ StreamRaises

----------------------------------------------------------------------------
(* _download_file and _finalize_part_file: what becomes of the stream.      *)

\* The handler of the first stream.
Fallback == /\ pc = "failed" /\ ~stop /\ job \in Mirrored
            /\ RemovePart
            /\ mirror' = TRUE /\ pc' = "open"
            /\ UNCHANGED <<saved, stop, result, call, got, count, shown, attempts, crashes>>

PassedOver == pc' = "after" /\ UNCHANGED result   \* mutant
Unrecovered == Return("error")

NoFallback == /\ pc = "failed" /\ ~stop /\ job \notin Mirrored
              /\ RemovePart /\ Unrecovered
              /\ UNCHANGED <<saved, stop, call, mirror, got, count, shown, attempts, crashes>>

FailedStopped == /\ pc = "failed" /\ stop
                 /\ pc' = "after"
                 /\ UNCHANGED <<disk, stop, result, call, mirror, got, count, shown, attempts, crashes>>

\* _download_stopped, in _download_file and again in _finalize_part_file.
CheckStop == /\ pc \in {"check", "final"}
             /\ pc' = IF stop THEN "after" ELSE IF pc = "check" THEN "final" ELSE "replace"
             /\ UNCHANGED <<disk, stop, result, call, mirror, got, count, shown, attempts, crashes>>

Replace == /\ pc = "replace"
           /\ saved' = [saved EXCEPT ![job] = part[job]]
           /\ part' = [part EXCEPT ![job] = Absent]
           /\ pc' = "after"
           /\ UNCHANGED <<stuck, stop, result, call, mirror, got, count, shown, attempts, crashes>>

ReplaceFails == /\ pc = "replace"
                /\ stuck' = stuck \cup {job}
                /\ Raised
                /\ UNCHANGED <<saved, part, stop, call, mirror, got, count, shown, attempts, crashes>>

----------------------------------------------------------------------------
(* download(): after _download_file has returned.                           *)

AfterJob == /\ pc = "after" /\ ~stop
            /\ bytesDone' = bytesDone + saved[job]   \* getsize
            /\ pendingIndex' = pendingIndex + 1
            /\ job' = job + 1 /\ pc' = "job"
            /\ UNCHANGED <<disk, stop, result, pending, known, anyDownloaded, mirror, got,
                           shown, attempts, crashes>>

\* os.remove of the file a late stop found renamed, its OSError swallowed.
KeepSaved == UNCHANGED <<saved, stuck>>   \* mutant
RemoveSaved == \/ saved' = [saved EXCEPT ![job] = Absent] /\ UNCHANGED stuck
               \/ stuck' = stuck \cup {job} /\ UNCHANGED saved

AfterStop == /\ pc = "after" /\ stop
             /\ RemoveSaved
             /\ Return("stopped")
             /\ UNCHANGED <<part, stop, call, mirror, got, count, shown, attempts, crashes>>

----------------------------------------------------------------------------
(* The environment: the queue that stops and retries, and the process.      *)

\* DownloadQueue.cancel and cancel_all, on any thread.
SetStop == /\ pc # "done" /\ ~stop
           /\ stop' = TRUE
           /\ UNCHANGED <<disk, pc, result, call, mirror, got, count, shown, attempts, crashes>>

\* DownloadQueue.retry, with an Event of its own.
Retry == /\ pc = "done" /\ attempts < MaxAttempts
         /\ pc' = "idle" /\ stop' = FALSE
         /\ UNCHANGED <<disk, result, call, mirror, got, count, shown, attempts, crashes>>

Crash == /\ pc \notin {"idle", "done"} /\ crashes < MaxCrashes
         /\ crashes' = crashes + 1
         /\ pc' = "done" /\ result' = "crashed" /\ stop' = FALSE
         /\ UNCHANGED <<disk, call, mirror, got, count, shown, attempts>>

Step == \/ Start \/ JobStopped \/ JobPresent \/ JobBegin \/ NoMoreJobs
        \/ OpenFails \/ Open \/ ReadOn \/ StopInLoop \/ Chunk \/ ReadFails
        \/ EndOfStream \/ Truncated \/ Fallback \/ NoFallback \/ FailedStopped
        \/ CheckStop \/ Replace \/ ReplaceFails \/ AfterJob \/ AfterStop

Next == Step \/ SetStop \/ Retry \/ Crash

Spec == Init /\ [][Next]_vars

----------------------------------------------------------------------------
(* Properties.                                                              *)

\* Where the server announces a length, a file at its save path is whole:
\* whatever streams break, mirrors answer, stops arrive or processes end, and
\* also when os.remove and os.replace fail (download_transfer.py:139, 228).
AnnouncedIsWhole == \A f \in Announced : saved[f] \in {Absent, Size[f]}

\* A call that returns "complete" or "exists" leaves every file in place: no
\* failed stream is passed over (download_transfer.py:113-121, 172-177).
CompleteMeansAll == result \in {"complete", "exists"} => \A f \in Files : saved[f] # Absent

\* The fraction of the progress bar never passes 1 before its clamp, although
\* streams are repeated and sizes are partly unknown (download_transfer.py:67-76).
ProgressWithinOne == shown[1] <= shown[2]

\* A file on disk is never replaced or removed, except the one whose rename a
\* stop overtook (download_transfer.py:94-95, 103-110).
FinishedFilesStay ==
  [][\A f \in Files : saved[f] # Absent => \/ saved'[f] = saved[f]
                                           \/ f = job /\ pc = "after" /\ stop]_vars

\* A stopped call leaves neither the file it was at nor a later one, even when
\* the stop came after the rename, unless the disk would not let it remove the
\* file (download_transfer.py:103-110).
StoppedLeavesNoFile ==
  result = "stopped" => \A f \in pending \ stuck : f >= job => saved[f] = Absent

\* A call that raises or returns normally leaves no .part file, not even that of an
\* earlier stopped or crashed call, but where the disk refused to remove or rename
\* it (download_transfer.py:162-177, 232-238).
OnlyStopsLeaveParts ==
  result \in {"complete", "exists", "error"} => \A f \in Files \ stuck : part[f] = Absent
=============================================================================
