---------------------------- MODULE AudioChunking ---------------------------
(***************************************************************************)
(* core/audio_chunking.py: a long mix is cut into windows of the same       *)
(* length that overlap, and the stems of the windows are joined.  Lengths   *)
(* are samples; chunk = 0 means that chunking is off.                       *)
(***************************************************************************)
EXTENDS Integers, Sequences

\* The distance of two windows.  An overlap that would fill the window, which rounding
\* can produce, is replaced by half of it.
Stride(chunk, overlap) ==
  chunk - (IF overlap >= chunk THEN chunk \div 2 ELSE overlap)

\* How many windows there are: the first that reaches the end is the last one.
Count(total, chunk, overlap) ==
  IF chunk = 0 \/ total <= chunk THEN 1
  ELSE 1 + (total - chunk + Stride(chunk, overlap) - 1) \div Stride(chunk, overlap)

\* chunk_bounds_for_samples: the last window is pulled back to end with the mix.
Windows(total, chunk, overlap) ==
  LET n == Count(total, chunk, overlap) IN
    [k \in 1..n |->
       IF n = 1 THEN [from |-> 0, to |-> total]
       ELSE LET from == IF k = n THEN total - chunk ELSE (k - 1) * Stride(chunk, overlap)
            IN [from |-> from, to |-> from + chunk]]

Length(w) == w.to - w.from

\* overlaps_for_chunks: by how much window k reaches into the next one.
JoinOverlap(ws, k) ==
  IF ws[k].to > ws[k + 1].from THEN ws[k].to - ws[k + 1].from ELSE 0

Least(a, b) == IF a < b THEN a ELSE b

\* concat_stems: the part of window k is blended into the end of what was joined
\* before it, and what remains of it is added behind.  Where each part ends:
Ends(ws) ==
  LET end[k \in DOMAIN ws] ==
        IF k = 1 THEN Length(ws[1])
        ELSE LET before  == end[k - 1]
                 blended == Least(JoinOverlap(ws, k - 1), Least(before, Length(ws[k])))
             IN before + Length(ws[k]) - blended
  IN end

Joined(ws) == [k \in DOMAIN ws |-> [from |-> Ends(ws)[k] - Length(ws[k]), to |-> Ends(ws)[k]]]
=============================================================================
