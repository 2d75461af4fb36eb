------------------------ MODULE SequentialDownloads ------------------------
(***************************************************************************)
(* What the download queue promises to the rows of its window, whatever    *)
(* its threads do (core/download_queue.py, core/download_status.py): rows  *)
(* are served one at a time in list order, a row is published at most once *)
(* and only on its way to success, a row that ended stays as it ended      *)
(* unless it failed and is retried.  DownloadQueue implements this.        *)
(***************************************************************************)
EXTENDS Naturals

CONSTANT Rows      \* the positions of the list, numbers

VARIABLES row,     \* the status of each row
          usable   \* the rows whose model was published
svars == <<row, usable>>

In(s) == {i \in Rows : row[i] = s}
Set(i, s) == row' = [row EXCEPT ![i] = s]

SInit == row = [i \in Rows |-> "unborn"] /\ usable = {}

\* a new row goes to the end of the list
Add(i) == /\ i \in In("unborn") /\ \A j \in In("unborn") : i <= j
          /\ Set(i, "queued") /\ UNCHANGED usable

\* one row at a time, the first that waits
Start(i) == /\ In("downloading") = {}
            /\ i \in In("queued") /\ \A j \in In("queued") : i <= j
            /\ Set(i, "downloading") /\ UNCHANGED usable

Publish(i) == /\ i \in In("downloading") \ usable
              /\ usable' = usable \cup {i} /\ UNCHANGED row

Succeed(i, s) == /\ i \in In("downloading") \cap usable
                 /\ s \in {"complete", "exists"}
                 /\ Set(i, s) /\ UNCHANGED usable

GiveUp(i, s) == /\ i \in In("downloading") \ usable
                /\ s \in {"failed", "cancelled"}
                /\ Set(i, s) /\ UNCHANGED usable

\* cancelling takes effect at once for the rows that wait
Withdraw(S) == /\ S # {} /\ S \subseteq In("queued")
               /\ row' = [i \in Rows |-> IF i \in S THEN "cancelled" ELSE row[i]]
               /\ UNCHANGED usable

RetryRow(i) == /\ i \in In("failed") /\ Set(i, "queued") /\ UNCHANGED usable

Clear == /\ row' = [i \in Rows |-> IF row[i] \in {"complete", "exists", "cancelled"}
                                   THEN "cleared" ELSE row[i]]
         /\ UNCHANGED usable

SNext == \/ \E i \in Rows : Add(i) \/ Start(i) \/ Publish(i) \/ RetryRow(i)
         \/ \E i \in Rows, s \in {"complete", "exists"} : Succeed(i, s)
         \/ \E i \in Rows, s \in {"failed", "cancelled"} : GiveUp(i, s)
         \/ \E S \in SUBSET Rows : Withdraw(S)
         \/ Clear

SSpec == SInit /\ [][SNext]_svars
=============================================================================
