----------------------------- MODULE OomSegment -----------------------------
(***************************************************************************)
(* core/oom_segment.py: the segment sizes an engine runs at, and the sizes  *)
(* to try after the device ran out of memory.  Sizes are those of the       *)
(* slider MDX_SEGMENTS = range(32, 4001, 32).                               *)
(***************************************************************************)
EXTENDS Integers

Step        == 32
Top         == 4000
DefaultDimT == 256
Stops       == {Step * k : k \in 1..125}

\* snap_segment_down
Snap(v) == IF v < Step THEN Step
           ELSE IF v >= Top THEN Top
           ELSE Step * (v \div Step)

\* A model: mdx_segment_size, is_mdx_c_seg_def, yaml_dim_t (0: None) and
\* supports_segment_backoff.
Models == [size : Nat, segDef : BOOLEAN, dimT : Nat, backoff : BOOLEAN]

\* default_segment
Default(m) == IF m.dimT = 0 THEN DefaultDimT ELSE Snap(m.dimT)

\* effective_segment
Effective(m) == IF m.segDef THEN Default(m)
                ELSE IF m.size = 0 THEN DefaultDimT ELSE Snap(m.size)

\* A mutant: the default is tried whatever its size.
AnyDefault(current, default) == {Snap(current \div 2), Snap(default)} \ {current}

\* backoff_candidates.  The caller tries them from the largest to the smallest.
Candidates(current, default) ==
  {c \in {Snap(current \div 2), Snap(default)} : c < current}

\* What run_separator may retry with.
Retries(m, current) == IF m.backoff THEN Candidates(current, Default(m)) ELSE {}

\* apply_segment_override: the override of the run replaces the model's size.
Overridden(m, override) == IF override = 0 THEN m
                           ELSE [m EXCEPT !.size = override, !.segDef = FALSE]
=============================================================================
