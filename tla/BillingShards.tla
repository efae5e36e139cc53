--------------------------- MODULE BillingShards ---------------------------
(***************************************************************************)
(* How a billing report cuts its period into bounded usage queries.        *)
(*                                                                         *)
(* The period is first cut into windows of INITIAL_SHARD_DAYS; a window    *)
(* the usage service cannot answer is cut in two, never below one hour.    *)
(* Time is counted in whole hours from the start of the period: billing    *)
(* periods begin and end at midnight, windows are whole days and midpoints *)
(* whole hours, so every boundary the code computes is a whole hour.       *)
(***************************************************************************)
EXTENDS Integers

CONSTANT WindowHours        \* INITIAL_SHARD_DAYS in hours
ASSUME WindowHoursAssumption == WindowHours \in Nat \ {0}

Earlier(a, b) == IF a <= b THEN a ELSE b

\* The windows that _windows yields for the period 0 .. end.
Windows(end) ==
  {[from |-> k * WindowHours, to |-> Earlier((k + 1) * WindowHours, end)] :
     k \in {i \in 0..end : i * WindowHours < end}}

Hours(w) == w.to - w.from

\* _split_shard refuses to cut a window of one hour.
Splittable(w) == Hours(w) > 1

Midpoint(w) ==
  LET half == Hours(w) \div 2
  IN  w.from + (IF half > 1 THEN half ELSE 1)

Halves(w) ==
  {[from |-> w.from, to |-> Midpoint(w)], [from |-> Midpoint(w), to |-> w.to]}

-----------------------------------------------------------------------------
\* The reference: what it means to query each hour of the period once.

Holds(w, hour) == w.from <= hour /\ hour < w.to

\* Every window is a non-empty part of the period, and each hour of the
\* period lies in exactly one of them.
Tiles(ws, end) ==
  /\ \A w \in ws : 0 <= w.from /\ w.from < w.to /\ w.to <= end
  /\ \A hour \in 0..(end - 1) : \E w \in ws : Holds(w, hour)
  /\ \A v, w \in ws : \A hour \in 0..(end - 1) :
        Holds(v, hour) /\ Holds(w, hour) => v = w

=============================================================================
