---------------------- MODULE DownloadTransferProofs -----------------------
(* Theorems about DownloadTransfer, for every number and size of files, every  *)
(* set of mirrors and of announced lengths, and any number of calls and       *)
(* crashes.                                                                   *)
EXTENDS DownloadTransfer, FiniteSetTheorems, WellFoundedInduction, TLAPS

\* The program counters between JobBegin and the end of the job.
InJob == {"open", "loop", "read", "failed", "check", "final", "replace", "after"}

\* What has been streamed is what is in the .part file, and only a stream of an
\* accepted length gets as far as the rename.
Streamed == /\ pc \in InJob => job \in Files
            /\ pc \in {"loop", "read"} => part[job] = got
            /\ pc \in {"final", "replace"} \/ (pc = "check" /\ ~stop)
                 => part[job] # Absent /\ Accepts(part[job])

\* The jobs passed are saved, the one at hand is not before its rename.
Passed == /\ pc \notin {"idle", "done"} => \A f \in Files : f < job => saved[f] # Absent
          /\ pc = "after" => stop \/ saved[job] # Absent
          /\ pc \in InJob \ {"after"} => saved[job] = Absent

Ended == result \in {"complete", "exists"} => pc \in {"idle", "done"}

IInv == /\ CallTypes /\ Streamed /\ AnnouncedIsWhole /\ Passed /\ Ended
        /\ CompleteMeansAll

LEMMA InitIInv == Init => IInv
  <1> SUFFICES ASSUME Init PROVE IInv
    OBVIOUS
  <1> USE TransferAssumption DEF Init
  <1>1. CallTypes
    <2>1. saved \in FileStates /\ part \in FileStates /\ stuck \subseteq Files
      BY DEF FileStates
    <2>2. job \in 1..(NumFiles + 1)
      OBVIOUS
    <2> QED BY <2>1, <2>2 DEF CallTypes, Pcs, Results
  <1>2. Streamed /\ Passed /\ Ended /\ CompleteMeansAll
    BY DEF Streamed, Passed, Ended, CompleteMeansAll, InJob
  <1>3. AnnouncedIsWhole
    BY DEF AnnouncedIsWhole, Files
  <1> QED BY <1>1, <1>2, <1>3 DEF IInv

\* The steps that leave the files and the position in them as they are.
LEMMA QuietSteps ==
  ASSUME IInv, \/ ReadOn \/ EndOfStream \/ FailedStopped \/ CheckStop \/ SetStop
  PROVE  IInv'
  <1> USE TransferAssumption DEF IInv, disk, call, count
  <1>1. CallTypes'
    BY DEF CallTypes, FileStates, Pcs, Results, ReadOn, EndOfStream, FailedStopped, CheckStop,
           SetStop
  <1>2. Streamed'
    BY DEF Streamed, CallTypes, FileStates, InJob, Accepts, Absent,
           ReadOn, EndOfStream, FailedStopped, CheckStop, SetStop
  <1>3. Passed' /\ Ended'
    BY DEF Passed, Ended, CallTypes, InJob, ReadOn, EndOfStream, FailedStopped, CheckStop,
           SetStop
  <1>4. AnnouncedIsWhole' /\ CompleteMeansAll'
    BY DEF AnnouncedIsWhole, CompleteMeansAll, ReadOn, EndOfStream, FailedStopped, CheckStop,
           SetStop
  <1> QED BY <1>1, <1>2, <1>3, <1>4

\* The steps of download() between two files.
LEMMA JobSteps ==
  ASSUME IInv, Start \/ JobStopped \/ JobPresent \/ JobBegin \/ NoMoreJobs \/ AfterJob
  PROVE  IInv'
  <1> USE TransferAssumption DEF IInv, disk, call, count, Return, SizesOf, Missing
  <1>1. CASE Start
    <2>1. CallTypes'
      <3>1. pending' \subseteq Files /\ known' \subseteq pending'
        BY <1>1 DEF Start
      <3>2. job' \in 1..(NumFiles + 1) /\ attempts' \in Nat /\ bytesDone' \in Nat
            /\ pendingIndex' \in Nat
        BY <1>1 DEF Start, CallTypes
      <3>3. pc' \in Pcs /\ result' \in Results /\ anyDownloaded' \in BOOLEAN
        BY <1>1 DEF Start, Pcs, Results
      <3>4. UNCHANGED <<saved, part, stuck, stop, mirror, got, crashes>>
        BY <1>1 DEF Start
      <3> QED BY <3>1, <3>2, <3>3, <3>4 DEF CallTypes
    <2>2. Streamed' /\ Ended'
      BY <1>1 DEF Streamed, Ended, CallTypes, InJob, Absent, Files, Start
    <2>3. Passed'
      BY <1>1 DEF Passed, CallTypes, InJob, Streamed, Absent, Files, Start
    <2>4. AnnouncedIsWhole' /\ CompleteMeansAll'
      BY <1>1 DEF AnnouncedIsWhole, CompleteMeansAll, CallTypes, Ended, Passed, Files, Start
    <2> QED BY <2>1, <2>2, <2>3, <2>4
  <1>2. CASE JobStopped
    <2>1. CallTypes'
      BY <1>2 DEF CallTypes, FileStates, Pcs, Results, Files, Absent, Passed, Streamed, InJob,
                  JobStopped
    <2>2. Streamed' /\ Ended'
      BY <1>2 DEF Streamed, Ended, CallTypes, InJob, Absent, Files, JobStopped
    <2>3. Passed'
      BY <1>2 DEF Passed, CallTypes, InJob, Streamed, Absent, Files, JobStopped
    <2>4. AnnouncedIsWhole' /\ CompleteMeansAll'
      BY <1>2 DEF AnnouncedIsWhole, CompleteMeansAll, CallTypes, Ended, Passed, Files,
                  JobStopped
    <2> QED BY <2>1, <2>2, <2>3, <2>4
  <1>3. CASE JobPresent
    <2>1. CallTypes'
      BY <1>3 DEF CallTypes, FileStates, Pcs, Results, Files, Absent, Passed, Streamed, InJob,
                  JobPresent
    <2>2. Streamed' /\ Ended'
      BY <1>3 DEF Streamed, Ended, CallTypes, InJob, Absent, Files, JobPresent
    <2>3. Passed'
      BY <1>3 DEF Passed, CallTypes, InJob, Streamed, Absent, Files, JobPresent
    <2>4. AnnouncedIsWhole' /\ CompleteMeansAll'
      BY <1>3 DEF AnnouncedIsWhole, CompleteMeansAll, CallTypes, Ended, Passed, Files,
                  JobPresent
    <2> QED BY <2>1, <2>2, <2>3, <2>4
  <1>4. CASE JobBegin
    <2>1. CallTypes'
      BY <1>4 DEF CallTypes, FileStates, Pcs, Results, Files, Absent, Passed, Streamed, InJob,
                  JobBegin
    <2>2. Streamed' /\ Ended'
      BY <1>4 DEF Streamed, Ended, CallTypes, InJob, Absent, Files, JobBegin
    <2>3. Passed'
      BY <1>4 DEF Passed, CallTypes, InJob, Streamed, Absent, Files, JobBegin
    <2>4. AnnouncedIsWhole' /\ CompleteMeansAll'
      BY <1>4 DEF AnnouncedIsWhole, CompleteMeansAll, CallTypes, Ended, Passed, Files, JobBegin
    <2> QED BY <2>1, <2>2, <2>3, <2>4
  <1>5. CASE NoMoreJobs
    <2>1. CallTypes'
      BY <1>5 DEF CallTypes, FileStates, Pcs, Results, Files, Absent, Passed, Streamed, InJob,
                  NoMoreJobs
    <2>2. Streamed' /\ Ended'
      BY <1>5 DEF Streamed, Ended, CallTypes, InJob, Absent, Files, NoMoreJobs
    <2>3. Passed'
      BY <1>5 DEF Passed, CallTypes, InJob, Streamed, Absent, Files, NoMoreJobs
    <2>4. AnnouncedIsWhole' /\ CompleteMeansAll'
      BY <1>5 DEF AnnouncedIsWhole, CompleteMeansAll, CallTypes, Ended, Passed, Files,
                  NoMoreJobs
    <2> QED BY <2>1, <2>2, <2>3, <2>4
  <1>6. CASE AfterJob
    <2>1. CallTypes'
      <3>1. /\ job' \in 1..(NumFiles + 1) /\ pc' \in Pcs /\ result' \in Results
        BY <1>6 DEF CallTypes, Pcs, Results, Files, Streamed, InJob, AfterJob
      <3>2. /\ bytesDone' \in Nat /\ pendingIndex' \in Nat
        <4>1. job \in Files /\ saved[job] # Absent
          BY <1>6 DEF Streamed, Passed, InJob, AfterJob
        <4>2. saved[job] \in Nat
          BY <4>1 DEF CallTypes, FileStates
        <4> QED BY <1>6, <4>2 DEF CallTypes, AfterJob
      <3> QED BY <1>6, <3>1, <3>2 DEF CallTypes, AfterJob
    <2>2. Streamed' /\ Ended'
      BY <1>6 DEF Streamed, Ended, CallTypes, InJob, Absent, Files, AfterJob
    <2>3. Passed'
      BY <1>6 DEF Passed, CallTypes, InJob, Streamed, Absent, Files, AfterJob
    <2>4. AnnouncedIsWhole' /\ CompleteMeansAll'
      BY <1>6 DEF AnnouncedIsWhole, CompleteMeansAll, CallTypes, Ended, Passed, Files, AfterJob
    <2> QED BY <2>1, <2>2, <2>3, <2>4
  <1> QED BY <1>1, <1>2, <1>3, <1>4, <1>5, <1>6

\* The steps of a stream that touch the .part file.
LEMMA StreamSteps ==
  ASSUME IInv, \/ Open \/ StopInLoop \/ Chunk \/ Fallback \/ NoFallback
               \/ OpenFails \/ ReadFails \/ Truncated
  PROVE  IInv'
  <1> USE TransferAssumption DEF IInv, disk, call, count, Return, RemovePart, StreamRaises,
                                 Raised, Unrecovered
  <1>1. CallTypes'
    <2>5. stuck' \subseteq Files
      BY DEF CallTypes, Streamed, InJob, Open, StopInLoop, Chunk, Fallback, NoFallback, OpenFails,
             ReadFails, Truncated
    <2>1. part' \in FileStates
      BY DEF CallTypes, FileStates, Streamed, InJob, Absent, Open, StopInLoop, Chunk,
             Fallback, NoFallback, OpenFails, ReadFails, Truncated
    <2>2. got' \in Nat
      BY DEF CallTypes, Open, StopInLoop, Chunk, Fallback, NoFallback, OpenFails, ReadFails,
             Truncated
    <2>3. pc' \in Pcs /\ result' \in Results /\ mirror' \in BOOLEAN
      BY DEF CallTypes, Pcs, Results, Open, StopInLoop, Chunk, Fallback, NoFallback, OpenFails,
             ReadFails, Truncated
    <2>4. UNCHANGED <<saved, stop, job, pending, known, anyDownloaded, bytesDone,
                      pendingIndex, attempts, crashes>>
      BY DEF Open, StopInLoop, Chunk, Fallback, NoFallback, OpenFails, ReadFails, Truncated
    <2> QED BY <2>1, <2>2, <2>3, <2>4, <2>5 DEF CallTypes
  <1>2. Streamed'
    BY DEF Streamed, CallTypes, FileStates, InJob, Accepts, Absent, Files, Open, StopInLoop,
           Chunk, Fallback, NoFallback, OpenFails, ReadFails, Truncated
  <1>3. Passed' /\ Ended'
    BY DEF Passed, Ended, CallTypes, FileStates, InJob, Streamed, Absent, Files, Open,
           StopInLoop, Chunk, Fallback, NoFallback, OpenFails, ReadFails, Truncated
  <1>4. AnnouncedIsWhole' /\ CompleteMeansAll'
    BY DEF AnnouncedIsWhole, CompleteMeansAll, CallTypes, FileStates, Passed, Streamed,
           Accepts, InJob, Absent, Files, Ended, Open, StopInLoop, Chunk, Fallback, NoFallback,
           OpenFails, ReadFails, Truncated
  <1> QED BY <1>1, <1>2, <1>3, <1>4

\* The steps that install a file, fail to, or remove it.
LEMMA FileSteps ==
  ASSUME IInv, Replace \/ ReplaceFails \/ AfterStop
  PROVE  IInv'
  <1> USE TransferAssumption DEF IInv, disk, call, count, Return, RemoveSaved, Raised
  <1>1. CallTypes'
    <2>1. saved' \in FileStates /\ part' \in FileStates /\ stuck' \subseteq Files
      BY DEF CallTypes, FileStates, Streamed, InJob, Absent, Replace, ReplaceFails, AfterStop
    <2> QED BY <2>1 DEF CallTypes, Pcs, Results, Replace, ReplaceFails, AfterStop
  <1>2. Streamed'
    BY DEF Streamed, CallTypes, FileStates, InJob, Accepts, Absent, Files, Replace,
           ReplaceFails, AfterStop
  <1>3. Passed' /\ Ended'
    BY DEF Passed, Ended, CallTypes, FileStates, InJob, Streamed, Absent, Files, Replace,
           ReplaceFails, AfterStop
  <1>4. AnnouncedIsWhole' /\ CompleteMeansAll'
    BY DEF AnnouncedIsWhole, CompleteMeansAll, CallTypes, FileStates, Passed, Streamed,
           Accepts, InJob, Absent, Files, Ended, Replace, ReplaceFails, AfterStop
  <1> QED BY <1>1, <1>2, <1>3, <1>4

\* The steps between two calls.
LEMMA OuterSteps ==
  ASSUME IInv, Retry \/ Crash
  PROVE  IInv'
  <1> USE TransferAssumption DEF IInv, disk, call, count, Return
  <1>1. CallTypes'
    <2>1. pc' \in Pcs /\ result' \in Results /\ stop' \in BOOLEAN
      BY DEF CallTypes, Pcs, Results, Retry, Crash
    <2>2. crashes' \in Nat
      BY DEF CallTypes, Retry, Crash
    <2>3. UNCHANGED <<saved, part, stuck, job, pending, known, anyDownloaded, mirror, got,
                      bytesDone, pendingIndex, attempts>>
      BY DEF Retry, Crash
    <2> QED BY <2>1, <2>2, <2>3 DEF CallTypes
  <1>2. Streamed'
    BY DEF Streamed, CallTypes, FileStates, InJob, Accepts, Absent, Files, Retry, Crash
  <1>3. Passed' /\ Ended'
    BY DEF Passed, Ended, CallTypes, FileStates, InJob, Streamed, Absent, Files, Retry, Crash
  <1>4. AnnouncedIsWhole' /\ CompleteMeansAll'
    BY DEF AnnouncedIsWhole, CompleteMeansAll, CallTypes, FileStates, Passed, Streamed,
           Accepts, InJob, Absent, Files, Ended, Retry, Crash
  <1> QED BY <1>1, <1>2, <1>3, <1>4

LEMMA StepIInv == IInv /\ [Next]_vars => IInv'
  <1> SUFFICES ASSUME IInv, [Next]_vars PROVE IInv'
    OBVIOUS
  <1>1. CASE Step \/ SetStop \/ Retry \/ Crash
    BY <1>1, QuietSteps, JobSteps, StreamSteps, FileSteps, OuterSteps DEF Step
  <1>2. CASE UNCHANGED vars
    BY <1>2 DEF IInv, CallTypes, Streamed, Passed, Ended, AnnouncedIsWhole, CompleteMeansAll,
                Accepts, vars, disk, call, count
  <1> QED BY <1>1, <1>2 DEF Next

LEMMA Inductive == Spec => []IInv
  <1> QED BY InitIInv, StepIInv, PTL DEF Spec

\* A file with an announced length is whole or absent (download_transfer.py:139, 228),
\* for any number of files and sizes, failing disks, stops, retries and crashes.
THEOREM AnnouncedIsWholeHolds == Spec => []AnnouncedIsWhole
  <1>1. IInv => AnnouncedIsWhole
    BY DEF IInv
  <1> QED BY <1>1, Inductive, PTL

\* "complete" and "exists" mean that every file is there (download_transfer.py:113-121).
THEOREM CompleteMeansAllHolds == Spec => []CompleteMeansAll
  <1>1. IInv => CompleteMeansAll
    BY DEF IInv
  <1> QED BY <1>1, Inductive, PTL

\* No step replaces or removes a file that is on disk, but the one a late stop
\* takes back (download_transfer.py:94-95, 103-110).
THEOREM FinishedFilesStayHolds == Spec => FinishedFilesStay
  <1>1. ASSUME IInv, [Next]_vars, NEW f \in Files, saved[f] # Absent
        PROVE  saved'[f] = saved[f] \/ (f = job /\ pc = "after" /\ stop)
    <2>1. CASE Replace
      BY <1>1, <2>1 DEF IInv, Passed, InJob, CallTypes, FileStates, Replace
    <2>2. CASE AfterStop
      BY <1>1, <2>2 DEF IInv, CallTypes, FileStates, AfterStop, RemoveSaved
    <2>3. CASE ~Replace /\ ~AfterStop
      <3>1. UNCHANGED saved
        BY <1>1, <2>3 DEF Next, Step, vars, disk, Start, JobStopped, JobPresent, JobBegin,
           NoMoreJobs, OpenFails, Open, ReadOn, StopInLoop, Chunk, ReadFails, EndOfStream,
           Truncated, Fallback, NoFallback, FailedStopped, CheckStop, ReplaceFails, AfterJob,
           SetStop, Retry, Crash, StreamRaises
      <3> QED BY <3>1
    <2> QED BY <2>1, <2>2, <2>3
  <1>2. IInv /\ [Next]_vars =>
          (\A f \in Files : saved[f] # Absent => \/ saved'[f] = saved[f]
                                                 \/ f = job /\ pc = "after" /\ stop)
    BY <1>1
  <1> QED BY <1>2, Inductive, PTL DEF Spec, FinishedFilesStay

----------------------------------------------------------------------------
(* What a stop leaves.                                                      *)

\* The pending files from the one at hand on are not saved, where the disk obeys.
Ahead == /\ result = "stopped" => pc \in {"idle", "done"}
         /\ pc \notin {"idle", "done"} \/ result = "stopped"
              => \A f \in pending \ stuck : f > job => saved[f] = Absent
         /\ pc = "job" \/ result = "stopped"
              => \A f \in pending \ stuck : f = job => saved[f] = Absent

LEMMA StepAhead ==
  ASSUME IInv, Ahead, [Next]_vars
  PROVE  Ahead'
  <1> USE DEF Ahead, disk, call, count, Return
  <1>1. CASE Start \/ JobStopped \/ JobPresent \/ JobBegin \/ NoMoreJobs
    <2>1. CASE Start
      BY <2>1 DEF Start
    <2>2. CASE JobPresent
      BY <2>2 DEF JobPresent, IInv, CallTypes, Files
    <2>3. CASE JobStopped \/ JobBegin
      BY <2>3 DEF JobStopped, JobBegin
    <2>4. CASE NoMoreJobs
      BY <2>4 DEF NoMoreJobs
    <2> QED BY <1>1, <2>1, <2>2, <2>3, <2>4
  <1>2. CASE AfterJob
    BY <1>2 DEF AfterJob, IInv, CallTypes, Files
  <1>3. CASE AfterStop
    BY <1>3 DEF AfterStop, RemoveSaved, IInv, CallTypes, FileStates, Files, Absent
  <1>4. CASE Replace
    BY <1>4 DEF Replace, IInv, CallTypes, FileStates, Files
  <1>5. CASE \/ OpenFails \/ Open \/ ReadOn \/ StopInLoop \/ Chunk \/ ReadFails \/ EndOfStream
             \/ Truncated \/ Fallback \/ NoFallback \/ FailedStopped \/ CheckStop \/ ReplaceFails
    <2>1. stuck \subseteq stuck' /\ UNCHANGED <<saved, pending, job>>
      BY <1>5 DEF OpenFails, Open, ReadOn, StopInLoop, Chunk, ReadFails, EndOfStream, Truncated,
                  Fallback, NoFallback, FailedStopped, CheckStop, ReplaceFails, StreamRaises,
                  RemovePart
    <2>2. pc' # "job" /\ pc \notin {"idle", "done", "job"} /\ (result' # "stopped" \/ result' = result)
          /\ (pc' \notin {"idle", "done"} \/ result' # "stopped")
      BY <1>5 DEF OpenFails, Open, ReadOn, StopInLoop, Chunk, ReadFails, EndOfStream, Truncated,
                  Fallback, NoFallback, FailedStopped, CheckStop, ReplaceFails, StreamRaises,
                  Raised, Unrecovered
    <2> QED BY <2>1, <2>2
  <1>6. CASE SetStop \/ Retry \/ Crash
    BY <1>6 DEF SetStop, Retry, Crash
  <1>7. CASE UNCHANGED vars
    BY <1>7 DEF vars
  <1> QED BY <1>1, <1>2, <1>3, <1>4, <1>5, <1>6, <1>7 DEF Next, Step

\* A stopped call leaves neither the file it was at nor a later one
\* (download_transfer.py:103-110), for all files the disk lets it remove.
THEOREM StoppedLeavesNoFileHolds == Spec => []StoppedLeavesNoFile
  <1>1. Init => Ahead
    BY DEF Init, Ahead
  <1>2. IInv /\ Ahead /\ [Next]_vars => Ahead'
    BY StepAhead
  <1>3. IInv /\ Ahead => StoppedLeavesNoFile
    BY DEF IInv, CallTypes, Files, Ahead, StoppedLeavesNoFile
  <1> QED BY <1>1, <1>2, <1>3, Inductive, PTL DEF Spec

----------------------------------------------------------------------------
(* What an error or a success leaves.                                       *)

\* A .part file belongs to the first file that is not saved, and while a file is at
\* hand, to that one.
Tidy == /\ \A f \in Files \ stuck : part[f] # Absent =>
             saved[f] = Absent /\ \A g \in Files : g < f => saved[g] # Absent
        /\ pc \in InJob => \A f \in Files \ stuck : part[f] # Absent => f = job
        /\ result \in {"complete", "exists", "error"} => pc \in {"idle", "done"}
        /\ OnlyStopsLeaveParts

LEMMA StepTidy ==
  ASSUME IInv, Tidy, [Next]_vars
  PROVE  Tidy'
  <1> USE DEF IInv, Tidy, OnlyStopsLeaveParts, disk, call, count, Return
  <1>1. CASE Start \/ JobStopped \/ JobPresent \/ NoMoreJobs
    <2>1. CASE Start
      BY <2>1 DEF Start, InJob
    <2>2. CASE JobStopped \/ JobPresent
      BY <2>2 DEF JobStopped, JobPresent, InJob
    <2>3. CASE NoMoreJobs
      BY <2>3, TransferAssumption DEF NoMoreJobs, InJob, Passed, CallTypes, Files
    <2> QED BY <1>1, <2>1, <2>2, <2>3
  <1>2. CASE JobBegin
    BY <1>2 DEF JobBegin, InJob, Passed, CallTypes, Files, Missing
  <1>3. CASE OpenFails \/ ReadFails \/ Truncated
    BY <1>3 DEF OpenFails, ReadFails, Truncated, StreamRaises, RemovePart, Raised, InJob, CallTypes,
                FileStates, Streamed
  <1>4. CASE Open \/ Chunk
    BY <1>4 DEF Open, Chunk, InJob, CallTypes, FileStates, Streamed, Passed
  <1>5. CASE ReadOn \/ EndOfStream \/ FailedStopped \/ CheckStop
    BY <1>5 DEF ReadOn, EndOfStream, FailedStopped, CheckStop, InJob
  <1>6. CASE StopInLoop \/ Fallback \/ NoFallback
    BY <1>6 DEF StopInLoop, Fallback, NoFallback, RemovePart, Unrecovered, InJob, CallTypes,
                FileStates, Streamed
  <1>7. CASE Replace
    BY <1>7 DEF Replace, InJob, CallTypes, FileStates, Streamed
  <1>8. CASE ReplaceFails
    BY <1>8 DEF ReplaceFails, Raised, InJob, CallTypes, Streamed
  <1>9. CASE AfterJob
    BY <1>9 DEF AfterJob, InJob
  <1>10. CASE AfterStop
    BY <1>10 DEF AfterStop, RemoveSaved, InJob, CallTypes, FileStates, Streamed, Files
  <1>11. CASE SetStop \/ Retry \/ Crash
    BY <1>11 DEF SetStop, Retry, Crash, InJob
  <1>12. CASE UNCHANGED vars
    BY <1>12 DEF vars
  <1> QED BY <1>1, <1>2, <1>3, <1>4, <1>5, <1>6, <1>7, <1>8, <1>9, <1>10, <1>11, <1>12
          DEF Next, Step

\* No .part file outlives a call that ends by itself, whatever earlier stops and
\* crashes have left, where the disk obeys (download_transfer.py:162-177, 232-238).
THEOREM OnlyStopsLeavePartsHolds == Spec => []OnlyStopsLeaveParts
  <1>1. Init => Tidy
    BY DEF Init, Tidy, OnlyStopsLeaveParts, InJob
  <1>2. IInv /\ Tidy /\ [Next]_vars => Tidy'
    BY StepTidy
  <1>3. Tidy => OnlyStopsLeaveParts
    BY DEF Tidy
  <1> QED BY <1>1, <1>2, <1>3, Inductive, PTL DEF Spec

----------------------------------------------------------------------------
(* The sum of the sizes.  The bytes of files are counted as a set, of which    *)
(* the sum that the code forms, in any order, is the cardinality.              *)

Units(S) == {u \in Files \X Nat : u[1] \in S /\ u[2] \in 1..Size[u[1]]}
Bytes(S) == Cardinality(Units(S))

LEMMA FilesAreFinite == IsFiniteSet(Files)
  BY TransferAssumption, FS_Interval DEF Files

\* Of some sets of files there is one that contains no other.
LEMMA SmallestSet ==
  ASSUME NEW B \in SUBSET (SUBSET Files), B # {}
  PROVE  \E T \in B : \A f \in T : T \ {f} \notin B
  <1>1. IsWellFoundedOn(StrictSubsetOrdering(Files), SUBSET Files)
    BY FilesAreFinite, FS_StrictSubsetOrderingWellFounded, FS_FiniteSubsetsOfFinite
  <1>2. PICK T \in B : \A U \in B : <<U, T>> \notin StrictSubsetOrdering(Files)
    BY <1>1, WFMin
  <1>3. ASSUME NEW f \in T, T \ {f} \in B PROVE FALSE
    <2>1. <<T \ {f}, T>> \in StrictSubsetOrdering(Files)
      BY <1>3 DEF StrictSubsetOrdering
    <2> QED BY <1>2, <1>3, <2>1
  <1> QED BY <1>3

LEMMA UnitsOfOne ==
  ASSUME NEW f \in Files
  PROVE  IsFiniteSet(Units({f})) /\ Bytes({f}) = Size[f]
  <1>1. Size[f] \in Nat
    BY TransferAssumption
  <1>2. Units({f}) = {f} \X (1..Size[f])
    BY <1>1 DEF Units
  <1>3. IsFiniteSet(1..Size[f]) /\ Cardinality(1..Size[f]) = Size[f]
    BY <1>1, FS_Interval
  <1>4. IsFiniteSet({f}) /\ Cardinality({f}) = 1
    BY FS_Singleton
  <1>5. IsFiniteSet({f} \X (1..Size[f]))
        /\ Cardinality({f} \X (1..Size[f])) = Cardinality({f}) * Cardinality(1..Size[f])
    BY <1>3, <1>4, FS_Product
  <1>6. Cardinality({f} \X (1..Size[f])) = Size[f]
    BY <1>1, <1>3, <1>4, <1>5
  <1> QED BY <1>2, <1>5, <1>6 DEF Bytes

LEMMA UnitsAreFinite == \A S \in SUBSET Files : IsFiniteSet(Units(S))
  <1> DEFINE B == {S \in SUBSET Files : ~ IsFiniteSet(Units(S))}
  <1>1. SUFFICES ASSUME B # {} PROVE FALSE
    OBVIOUS
  <1>2. PICK T \in B : \A f \in T : T \ {f} \notin B
    BY <1>1, SmallestSet
  <1>3. CASE T = {}
    BY <1>3, FS_EmptySet DEF Units
  <1>4. ASSUME NEW f \in T PROVE FALSE
    <2>1. IsFiniteSet(Units(T \ {f})) /\ IsFiniteSet(Units({f}))
      BY <1>2, UnitsOfOne
    <2>2. Units(T) = Units(T \ {f}) \cup Units({f})
      BY DEF Units
    <2>3. IsFiniteSet(Units(T \ {f}) \cup Units({f}))
      BY <2>1, FS_Union
    <2> QED BY <1>2, <2>2, <2>3
  <1> QED BY <1>3, <1>4

LEMMA BytesAdd ==
  ASSUME NEW S \in SUBSET Files, NEW f \in Files \ S
  PROVE  Bytes(S) \in Nat /\ Bytes(S \cup {f}) = Bytes(S) + Size[f]
  <1>1. IsFiniteSet(Units(S)) /\ Bytes(S) \in Nat
    BY UnitsAreFinite, FS_CardinalityType DEF Bytes
  <1>2. Units(S \cup {f}) = Units(S) \cup Units({f}) /\ Units(S) \cap Units({f}) = {}
    BY DEF Units
  <1>3. IsFiniteSet(Units({f})) /\ Cardinality(Units({f})) = Size[f] /\ Size[f] \in Nat
    BY UnitsOfOne, TransferAssumption DEF Bytes
  <1>4. Cardinality(Units(S) \cup Units({f})) = Cardinality(Units(S)) + Cardinality(Units({f}))
    <2>1. Cardinality(Units(S) \cup Units({f})) =
            Cardinality(Units(S)) + Cardinality(Units({f})) - Cardinality(Units(S) \cap Units({f}))
      BY <1>1, <1>3, FS_Union
    <2>2. Cardinality({}) = 0 /\ Cardinality(Units(S)) \in Nat /\ Cardinality(Units({f})) \in Nat
      BY <1>1, <1>3, FS_EmptySet DEF Bytes
    <2>3. Cardinality(Units(S) \cap Units({f})) = 0
      BY <1>2, <2>2
    <2> QED BY <2>1, <2>2, <2>3
  <1> QED BY <1>1, <1>2, <1>3, <1>4 DEF Bytes

LEMMA BytesGrow ==
  ASSUME NEW S \in SUBSET Files, NEW T \in SUBSET S
  PROVE  Bytes(S) \in Nat /\ Bytes(T) \in Nat /\ Bytes(T) <= Bytes(S)
  <1>1. Units(T) \subseteq Units(S)
    BY DEF Units
  <1> QED BY <1>1, UnitsAreFinite, FS_Subset, FS_CardinalityType DEF Bytes

\* The fold takes the files one by one, in an order it chooses.
LEMMA TotalIsBytes == known \subseteq Files => TotalBytes = Bytes(known)
  <1> SUFFICES ASSUME known \subseteq Files PROVE TotalBytes = Bytes(known)
    OBVIOUS
  <1> DEFINE pick(s) == CHOOSE x \in s : TRUE
             step(g, s) == IF s = {} THEN 0 ELSE Size[pick(s)] + g[s \ {pick(s)}]
             sol(g) == g = [s \in SUBSET known |-> step(g, s)]
             E == CHOOSE g : sol(g)
             bytes == [s \in SUBSET known |-> Bytes(s)]
  <1>1. TotalBytes = E[known]
    BY DEF TotalBytes, MapThenSumSet, MapThenFoldSet
  <1>2. ASSUME NEW s \in SUBSET known, s # {}
        PROVE  /\ pick(s) \in s /\ pick(s) \in Files /\ s \ {pick(s)} \in SUBSET known
               /\ Bytes(s) = Size[pick(s)] + Bytes(s \ {pick(s)})
    <2>1. pick(s) \in s
      BY <1>2
    <2> HIDE DEF pick
    <2>2. s \ {pick(s)} \in SUBSET Files /\ pick(s) \in Files \ (s \ {pick(s)})
          /\ (s \ {pick(s)}) \cup {pick(s)} = s
      BY <2>1
    <2>3. Bytes(s \ {pick(s)}) \in Nat /\ Bytes(s) = Bytes(s \ {pick(s)}) + Size[pick(s)]
      BY <2>2, BytesAdd
    <2>4. Size[pick(s)] \in Nat
      BY <2>2, TransferAssumption
    <2> QED BY <2>1, <2>2, <2>3, <2>4
  <1>3. Bytes({}) = 0
    BY FS_EmptySet DEF Bytes, Units
  <1> HIDE DEF pick
  <1>4. sol(bytes)
    <2>1. ASSUME NEW s \in SUBSET known PROVE Bytes(s) = step(bytes, s)
      BY <1>2, <1>3
    <2> HIDE DEF step
    <2> QED BY <2>1
  <1>5. sol(E)
    <2> HIDE DEF sol, bytes
    <2> QED BY <1>4
  <1> DEFINE B == {s \in SUBSET known : E[s] # Bytes(s)}
  <1>6. B = {}
    <2> SUFFICES ASSUME B # {} PROVE FALSE
      OBVIOUS
    <2>1. B \in SUBSET (SUBSET Files)
      OBVIOUS
    <2> HIDE DEF B
    <2>2. PICK s \in B : \A f \in s : s \ {f} \notin B
      BY <2>1, SmallestSet
    <2>3. s \in SUBSET known /\ E[s] # Bytes(s)
      BY <2>2 DEF B
    <2> HIDE DEF E
    <2>4. E[s] = step(E, s)
      <3> HIDE DEF step
      <3> QED BY <1>5, <2>3
    <2>5. CASE s = {}
      BY <1>3, <2>3, <2>4, <2>5
    <2>6. CASE s # {}
      <3>1. E[s \ {pick(s)}] = Bytes(s \ {pick(s)})
        BY <1>2, <2>2, <2>3, <2>6 DEF B
      <3> QED BY <1>2, <2>3, <2>4, <2>6, <3>1
    <2> QED BY <2>5, <2>6
  <1> HIDE DEF E
  <1> QED BY <1>1, <1>6

----------------------------------------------------------------------------
(* The progress bar.                                                        *)

Fits == \A f \in Files : part[f] <= Size[f] /\ saved[f] <= Size[f]

Behind == {f \in pending : f < job}

\* What the bar has counted is of the pending files behind the one at hand, which is pending.
Counted ==
  pc \notin {"idle", "done"} =>
    /\ \A f \in Files : f >= job /\ saved[f] = Absent => f \in pending
    /\ pc \in InJob => job \in pending
    /\ pendingIndex <= Cardinality(Behind) /\ bytesDone <= Bytes(Behind)

Within == shown \in Nat \X Nat /\ ProgressWithinOne

LEMMA SizeFacts == \A f \in Files : Size[f] \in Nat /\ Size[f] > 0 /\ f \in Nat
  BY TransferAssumption DEF Files

LEMMA StepFits ==
  ASSUME IInv, Fits, [Next]_vars
  PROVE  Fits'
  <1> USE SizeFacts DEF IInv, CallTypes, FileStates, Fits, Absent, disk
  <1>1. CASE \/ OpenFails \/ StopInLoop \/ ReadFails \/ Truncated \/ Fallback \/ NoFallback
    <2>1. UNCHANGED saved /\ (UNCHANGED part \/ part' = [part EXCEPT ![job] = Absent])
      BY <1>1 DEF OpenFails, StopInLoop, ReadFails, Truncated, Fallback, NoFallback, StreamRaises,
                  RemovePart
    <2> QED BY <2>1
  <1>2. CASE Open \/ Chunk
    BY <1>2 DEF Open, Chunk, Streamed, InJob
  <1>3. CASE Replace
    BY <1>3 DEF Replace, Streamed, InJob
  <1>4. CASE AfterStop
    BY <1>4 DEF AfterStop, RemoveSaved
  <1>5. CASE \/ Start \/ JobStopped \/ JobPresent \/ JobBegin \/ NoMoreJobs \/ ReadOn \/ EndOfStream
             \/ FailedStopped \/ CheckStop \/ ReplaceFails \/ AfterJob \/ SetStop \/ Retry \/ Crash
    BY <1>5 DEF Start, JobStopped, JobPresent, JobBegin, NoMoreJobs, ReadOn, EndOfStream,
                FailedStopped, CheckStop, ReplaceFails, AfterJob, SetStop, Retry, Crash
  <1>6. CASE UNCHANGED vars
    BY <1>6 DEF vars
  <1> QED BY <1>1, <1>2, <1>3, <1>4, <1>5, <1>6 DEF Next, Step

LEMMA BehindFacts ==
  ASSUME CallTypes
  PROVE  /\ Behind \in SUBSET pending /\ pending \in SUBSET Files
         /\ IsFiniteSet(Behind) /\ IsFiniteSet(pending) /\ Cardinality(pending) \in Nat
         /\ Cardinality(Behind) \in Nat /\ Cardinality(Behind) <= Cardinality(pending)
  <1>1. Behind \in SUBSET pending /\ pending \in SUBSET Files
    BY DEF CallTypes, Behind
  <1>2. IsFiniteSet(pending)
    BY <1>1, FilesAreFinite, FS_Subset
  <1> QED BY <1>1, <1>2, FS_Subset, FS_CardinalityType

\* With the file at hand the files behind it are one more.
LEMMA NextFacts ==
  ASSUME CallTypes, job \in pending
  PROVE  /\ job \in Files /\ Behind \cup {job} \in SUBSET pending
         /\ Cardinality(Behind \cup {job}) = Cardinality(Behind) + 1
         /\ Cardinality(Behind) + 1 <= Cardinality(pending)
         /\ Bytes(Behind \cup {job}) = Bytes(Behind) + Size[job]
         /\ Bytes(Behind) \in Nat /\ Bytes(pending) \in Nat
         /\ Bytes(Behind) + Size[job] <= Bytes(pending)
  <1>1. job \in Files /\ job \notin Behind /\ Behind \cup {job} \in SUBSET pending
    BY SizeFacts DEF CallTypes, Behind
  <1>2. Cardinality(Behind \cup {job}) = Cardinality(Behind) + 1
    BY <1>1, BehindFacts, FS_AddElement
  <1>3. Cardinality(Behind \cup {job}) <= Cardinality(pending)
    BY <1>1, BehindFacts, FS_Subset
  <1>4. Bytes(Behind) \in Nat /\ Bytes(Behind \cup {job}) = Bytes(Behind) + Size[job]
    BY <1>1, BehindFacts, BytesAdd
  <1>5. Bytes(pending) \in Nat /\ Bytes(Behind \cup {job}) <= Bytes(pending)
    BY <1>1, BehindFacts, BytesGrow
  <1> QED BY <1>1, <1>2, <1>3, <1>4, <1>5

LEMMA StepCounted ==
  ASSUME IInv, Fits, Counted, [Next]_vars
  PROVE  Counted'
  <1> USE SizeFacts DEF IInv, InJob, disk, call, count, Return
  <1>1. CASE Start
    <2>1. pendingIndex' = 0 /\ bytesDone' = 0 /\ UNCHANGED saved
          /\ pending' = {f \in Files : saved[f] = Absent} /\ pc' = "job"
      BY <1>1 DEF Start
    <2>2. Behind' \in SUBSET Files
      BY <2>1 DEF Behind
    <2>3. Bytes(Behind') \in Nat /\ Cardinality(Behind') \in Nat
      BY <2>2, BytesGrow, FilesAreFinite, FS_Subset, FS_CardinalityType
    <2> QED BY <2>1, <2>3 DEF Counted
  <1>2. CASE JobPresent
    <2>1. UNCHANGED <<saved, pending, pendingIndex, bytesDone, pc>> /\ job' = job + 1
          /\ pc = "job" /\ saved[job] # Absent
      BY <1>2 DEF JobPresent, Missing
    <2>2. Behind \in SUBSET Behind' /\ Behind' \in SUBSET pending
      BY <2>1 DEF Behind, CallTypes
    <2>3. Bytes(Behind) <= Bytes(Behind') /\ Cardinality(Behind) <= Cardinality(Behind')
          /\ Bytes(Behind) \in Nat /\ Bytes(Behind') \in Nat
          /\ Cardinality(Behind) \in Nat /\ Cardinality(Behind') \in Nat
      <3>1. Behind' \in SUBSET Files /\ IsFiniteSet(Behind')
        BY <2>2, BehindFacts, FS_Subset
      <3> QED BY <2>2, <3>1, BytesGrow, FS_Subset, FS_CardinalityType
    <2>4. pendingIndex' <= Cardinality(Behind') /\ bytesDone' <= Bytes(Behind')
      BY <2>1, <2>3 DEF Counted, CallTypes
    <2>5. \A f \in Files : f >= job' /\ saved'[f] = Absent => f \in pending'
      BY <2>1 DEF Counted, CallTypes
    <2> QED BY <2>1, <2>4, <2>5 DEF Counted
  <1>3. CASE AfterJob
    <2>1. /\ UNCHANGED <<saved, pending>> /\ job' = job + 1 /\ pc' = "job" /\ pc = "after"
          /\ bytesDone' = bytesDone + saved[job] /\ pendingIndex' = pendingIndex + 1
      BY <1>3 DEF AfterJob
    <2>2. job \in pending
      BY <2>1 DEF Counted
    <2>3. Behind' = Behind \cup {job}
      <3>1. job \in Nat /\ \A f \in pending : f \in Nat
        BY DEF CallTypes
      <3>2. \A f \in pending : f < job + 1 <=> f < job \/ f = job
        BY <3>1
      <3> QED BY <2>1, <2>2, <3>2 DEF Behind
    <2>4. saved[job] <= Size[job] /\ saved[job] \in Int
      BY <2>2 DEF Fits, CallTypes, FileStates, Absent
    <2>5. pendingIndex' <= Cardinality(Behind') /\ bytesDone' <= Bytes(Behind')
      BY <2>1, <2>2, <2>3, <2>4, NextFacts, BehindFacts DEF Counted, CallTypes
    <2>6. \A f \in Files : f >= job' /\ saved'[f] = Absent => f \in pending'
      BY <2>1 DEF Counted, CallTypes
    <2> QED BY <2>1, <2>5, <2>6 DEF Counted
  <1>4. ASSUME UNCHANGED <<pending, job, pendingIndex, bytesDone>>,
               pc' \notin {"idle", "done"} => pc \notin {"idle", "done"},
               \A f \in Files : saved'[f] = Absent /\ pc' # "done" => saved[f] = Absent,
               pc' \in InJob => pc \in InJob \/ (job \in Files /\ saved[job] = Absent)
        PROVE  Counted'
    <2>1. Behind' = Behind
      BY <1>4 DEF Behind
    <2>2. ASSUME pc' \notin {"idle", "done"}, pc' \in InJob PROVE job \in pending
      BY <1>4, <2>2 DEF Counted
    <2> QED BY <1>4, <2>1, <2>2 DEF Counted
  <1>5. CASE JobBegin
    BY <1>4, <1>5 DEF JobBegin, Missing
  <1>6. CASE Replace
    BY <1>4, <1>6 DEF Replace, Streamed, CallTypes, FileStates
  <1>7. CASE AfterStop
    BY <1>4, <1>7 DEF AfterStop
  <1>8. CASE JobStopped \/ NoMoreJobs \/ SetStop \/ Retry \/ Crash \/ UNCHANGED vars
    BY <1>4, <1>8 DEF JobStopped, NoMoreJobs, SetStop, Retry, Crash, vars
  <1>9. CASE \/ OpenFails \/ Open \/ ReadOn \/ StopInLoop \/ Chunk \/ ReadFails \/ EndOfStream
             \/ Truncated \/ Fallback \/ NoFallback \/ FailedStopped \/ CheckStop \/ ReplaceFails
    <2>1. UNCHANGED <<pending, job, pendingIndex, bytesDone, saved>> /\ pc \in InJob
      BY <1>9 DEF OpenFails, Open, ReadOn, StopInLoop, Chunk, ReadFails, EndOfStream, Truncated,
                  Fallback, NoFallback, FailedStopped, CheckStop, ReplaceFails, StreamRaises
    <2> QED BY <1>4, <2>1
  <1> QED BY <1>1, <1>2, <1>3, <1>5, <1>6, <1>7, <1>8, <1>9 DEF Next, Step

\* One more chunk of the file at hand.
LEMMA ChunkWithin ==
  ASSUME IInv, Fits, Counted, Within, Chunk
  PROVE  Within'
  <1> USE SizeFacts DEF IInv, call, count, disk
  <1>1. got \in Nat /\ got + 1 <= Size[job] /\ shown' = Fraction(got + 1) /\ pc = "read"
        /\ UNCHANGED <<job, pending>>
    BY DEF Chunk, CallTypes, Streamed, InJob
  <1>2. job \in pending /\ pendingIndex <= Cardinality(Behind) /\ bytesDone <= Bytes(Behind)
    BY <1>1 DEF Counted, InJob
  <1>3. bytesDone \in Nat /\ pendingIndex \in Nat /\ Size[job] \in Nat
    BY <1>2, NextFacts DEF CallTypes
  <1>4. CASE ByteWeighted
    <2>1. TotalBytes = Bytes(pending)
      BY <1>4, BehindFacts, TotalIsBytes DEF ByteWeighted, CallTypes
    <2>2. shown' = <<bytesDone + (got + 1), TotalBytes>>
      BY <1>1, <1>4 DEF Fraction
    <2>3. bytesDone + (got + 1) <= Bytes(pending) /\ Bytes(pending) \in Nat
      BY <1>1, <1>2, <1>3, NextFacts DEF CallTypes
    <2> QED BY <1>1, <1>3, <2>1, <2>2, <2>3 DEF Within, ProgressWithinOne
  <1>5. CASE ~ByteWeighted /\ job \in Announced
    <2>1. shown' = <<pendingIndex * Size[job] + (got + 1), PendingTotal * Size[job]>>
      BY <1>1, <1>5 DEF Fraction
    <2>2. pendingIndex + 1 <= PendingTotal /\ PendingTotal \in Nat
      BY <1>2, <1>3, NextFacts, BehindFacts DEF PendingTotal
    <2>3. (pendingIndex + 1) * Size[job] <= PendingTotal * Size[job]
      <3> HIDE DEF IInv
      <3>1. ASSUME NEW a \in Nat, NEW b \in Nat, NEW n \in Nat, a <= b PROVE a * n <= b * n
        BY <3>1
      <3> QED BY <1>3, <2>2, <3>1
    <2>4. pendingIndex * Size[job] + (got + 1) <= (pendingIndex + 1) * Size[job]
      <3> HIDE DEF IInv
      <3>1. ASSUME NEW a \in Nat, NEW n \in Nat PROVE (a + 1) * n = a * n + n /\ a * n \in Nat
        BY <3>1
      <3>2. (pendingIndex + 1) * Size[job] = pendingIndex * Size[job] + Size[job]
            /\ pendingIndex * Size[job] \in Nat
        BY <1>3, <3>1
      <3> QED BY <1>1, <1>3, <3>2
    <2>5. pendingIndex * Size[job] + (got + 1) \in Nat /\ PendingTotal * Size[job] \in Nat
          /\ (pendingIndex + 1) * Size[job] \in Nat
      BY <1>1, <1>3, <2>2
    <2>6. pendingIndex * Size[job] + (got + 1) <= PendingTotal * Size[job]
      BY <2>3, <2>4, <2>5
    <2> QED BY <2>1, <2>5, <2>6 DEF Within, ProgressWithinOne
  <1>6. CASE ~ByteWeighted /\ job \notin Announced
    BY <1>1, <1>6 DEF Fraction, Within, ProgressWithinOne
  <1> QED BY <1>4, <1>5, <1>6

LEMMA Measured == Spec => [](IInv /\ Fits /\ Counted /\ Within)
  <1>1. Init => Fits
    BY SizeFacts DEF Init, Fits, Absent
  <1>2. Init => Counted
    BY DEF Init, Counted
  <1>3. Init => Within
    BY DEF Init, Within, ProgressWithinOne
  <1>4. ASSUME IInv, Fits, Counted, Within, [Next]_vars PROVE Within'
    <2>1. CASE Start \/ NoMoreJobs
      BY <2>1 DEF Start, NoMoreJobs, Within, ProgressWithinOne
    <2>2. CASE Chunk
      BY <1>4, <2>2, ChunkWithin
    <2>3. CASE ~Start /\ ~NoMoreJobs /\ ~Chunk
      <3>1. UNCHANGED shown
        BY <1>4, <2>3 DEF Next, Step, vars, JobStopped, JobPresent, JobBegin, OpenFails, Open,
           ReadOn, StopInLoop, ReadFails, EndOfStream, Truncated, Fallback, NoFallback,
           FailedStopped, CheckStop, Replace, ReplaceFails, AfterJob, AfterStop, SetStop, Retry,
           Crash, StreamRaises
      <3> QED BY <1>4, <3>1 DEF Within, ProgressWithinOne
    <2> QED BY <2>1, <2>2, <2>3
  <1>5. IInv /\ Fits /\ Counted /\ Within /\ [Next]_vars => (Fits /\ Counted /\ Within)'
    BY <1>4, StepFits, StepCounted
  <1> QED BY <1>1, <1>2, <1>3, <1>5, Inductive, PTL DEF Spec

\* Every variable has its type, the fraction of the progress bar among them, whose parts are
\* sums over the files.
THEOREM TransferTypes == Spec => []TypeOK
  <1>1. IInv /\ Within => TypeOK
    BY DEF IInv, Within, TypeOK
  <1> QED BY <1>1, Measured, PTL

\* The bar never passes 1, weighted by bytes or by files, for any number and sizes of files,
\* whichever lengths are known, and whatever streams are broken off and repeated
\* (download_transfer.py:67-86, 113-118).
THEOREM ProgressWithinOneHolds == Spec => []ProgressWithinOne
  <1>1. Within => ProgressWithinOne
    BY DEF Within
  <1> QED BY <1>1, Measured, PTL
=============================================================================
