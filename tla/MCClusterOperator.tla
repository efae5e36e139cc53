-------------------------- MODULE MCClusterOperator --------------------------
(***************************************************************************)
(* Instances of ClusterOperator for TLC.                                   *)
(***************************************************************************)
EXTENDS ClusterOperator

CONSTANTS p, q, k1, k2, x1

Plain == [name |-> p, core |-> k1, extra |-> {}, external |-> FALSE]
Extended == [Plain EXCEPT !.extra = {x1}]
Rebuilt == [Plain EXCEPT !.core = k2]
External == [Plain EXCEPT !.external = TRUE]
Renamed == [Plain EXCEPT !.name = q]

\* A plan says besides which spec the second record has at first, if it has one.
PlanOf(kind, wishes, number, threads, led, first) ==
  [kinds |-> [c \in Records |-> IF c = 1 THEN "domain" ELSE kind],
   wishes |-> [c \in Records |-> IF c = 1 THEN {} ELSE wishes],
   events |-> number, threads |-> threads, led |-> led, first |-> first]

\* A record of each kind that is edited while handlers and timers fail.
Single(kind) == PlanOf(kind, {Plain, Extended, Rebuilt, Renamed}, 2, 2, FALSE, Plain)
\* An import that is stuck, fails or is lost.
Import == PlanOf("image", {Plain}, 2, 2, FALSE, NoWish)
\* A record whose handler crashes, or that is renamed, and that is deleted: its
\* resource is an orphan, which a domain's daemon collects.
Orphan == PlanOf("flavor", {Plain, Renamed}, 3, 1, TRUE, Plain)

\* An image that becomes somebody else's or the operator's, one handler at a time.
Changing == PlanOf("image", {Plain, External}, 2, 1, FALSE, NoWish)
Renaming == PlanOf("image", {Plain, Renamed}, 2, 1, FALSE, Plain)

LedPlans == {Single(k) : k \in Kinds \ {"image"}} \cup {Import, Changing, Renaming, Orphan}
ExternalPlans == {PlanOf("image", {External}, 4, 3, FALSE, NoWish)}

\* Where the plan says so, the first record is a domain that was created before,
\* and the second one has just been created.
LedInit ==
  /\ plan \in Plans
  /\ stock = IF plan.led THEN {NewRow(1, "domain", Plain, TRUE)} ELSE {}
  /\ ids = IF plan.led THEN 1 ELSE 0
  /\ registry = [k \in Kinds |-> IF plan.led /\ k = "domain"
                                 THEN [EmptyBlob EXCEPT ![p] = [id |-> 1, cr |-> 1]] ELSE EmptyBlob]
  /\ cr = [c \in Records |->
             IF c = 1 /\ plan.led
             THEN [Absent EXCEPT !.at = "live", !.spec = Plain, !.handled = Plain, !.held = TRUE,
                                 !.phase = "Ready", !.id = 1]
             ELSE IF c = 2 /\ plan.first # NoWish
             THEN [Absent EXCEPT !.at = "live", !.spec = plan.first]
             ELSE Absent]
  /\ events = IF plan.first = NoWish THEN 0 ELSE 1
  /\ imports = [c \in Records |-> 0]
  /\ task = [t \in Threads |-> Idle] /\ gc = NoGc

LedSpec == LedInit /\ [][Next]_vars /\ Fairness
=============================================================================
