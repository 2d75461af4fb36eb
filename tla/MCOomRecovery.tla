--------------------------- MODULE MCOomRecovery ---------------------------
(* Two members of an ensemble: one runs at the default of its yaml file, the *)
(* other at the size of the settings, off the slider's grid; the first runs  *)
(* the second as its secondary model.  An input that is missing, one of      *)
(* three windows, and one of a single window.                                *)
EXTENDS OomRecovery

CONSTANTS big, small

TwoNames  == {big, small}
TwoOrder  == <<big, small>>
SmallToo  == [n \in TwoNames |-> IF n = big THEN {small} ELSE {}]
TwoConfig == [n \in TwoNames |->
                IF n = big THEN [size |-> 0, segDef |-> TRUE, dimT |-> 70, backoff |-> TRUE]
                ELSE [size |-> 140, segDef |-> FALSE, dimT |-> 40, backoff |-> TRUE]]
ThreeMixes == <<5, 9, 3>>
OneMissing == {1}

\* The loop of chunk_bounds_for_samples, window by window.
RECURSIVE Loop(_, _, _, _)
Loop(start, total, size, stride) ==
  IF start + size >= total
  THEN <<[from |-> IF start > 0 THEN total - size ELSE 0, to |-> total]>>
  ELSE <<[from |-> start, to |-> start + size]>> \o Loop(start + stride, total, size, stride)

\* Windows is what the loop appends, and the windows are joined where they were cut.
ASSUME WindowsAreTheLoop ==
  \A total \in 0..20, size \in 1..7, overlap \in 0..7 :
    LET ws == Windows(total, size, overlap) IN
      /\ ws = Loop(0, total, size, Stride(size, overlap))
      /\ Joined(ws) = ws
=============================================================================
