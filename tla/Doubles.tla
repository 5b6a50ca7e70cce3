------------------------------- MODULE Doubles --------------------------------
(***************************************************************************)
(* What the code relies on when it compares doubles: NaN compares false    *)
(* with everything, and the functions of <algorithm> are made of such      *)
(* comparisons.  Other numbers are integers here.                          *)
(***************************************************************************)
EXTENDS Integers

CONSTANT NaN

ASSUME NaNAssumption == NaN \notin Int

Double == Int \cup {NaN}

Less(a, b) == a # NaN /\ b # NaN /\ a < b
Leq(a, b)  == a # NaN /\ b # NaN /\ a <= b

Magnitude(v) == IF v = NaN THEN NaN ELSE IF v < 0 THEN -v ELSE v
Negated(v)   == IF v = NaN THEN NaN ELSE -v

\* std::min, std::max and std::clamp as the standard defines them.
StdMin(a, b) == IF Less(b, a) THEN b ELSE a
StdMax(a, b) == IF Less(a, b) THEN b ELSE a
StdClamp(v, lo, hi) == IF Less(v, lo) THEN lo ELSE IF Less(hi, v) THEN hi ELSE v

===============================================================================
