-------------------------- MODULE MCProjectOperator --------------------------
(***************************************************************************)
(* Instances of ProjectOperator for TLC.                                   *)
(***************************************************************************)
EXTENDS ProjectOperator, TLC

CONSTANTS p, q, r, u, k1, k2, net1

\* p and r sanitize to one name, as a.b and a-b do.
AliasedGroups == [n \in Names |-> IF n = r THEN p ELSE n]

Plain == [name |-> p, bindings |-> <<{u}>>, managed |-> FALSE, fed |-> TRUE,
          contract |-> k1, enabled |-> TRUE, network |-> None, security_group |-> {},
          repair |-> 0]

Other == [Plain EXCEPT !.name = q]
Alias == [Plain EXCEPT !.name = r, !.bindings = <<{}>>]
Unmapped(w) == [w EXCEPT !.fed = FALSE]
Managed == [Plain EXCEPT !.managed = TRUE]
Moved == [Plain EXCEPT !.contract = k2]
Equipped == [Moved EXCEPT !.network = net1, !.security_group = {net1}]
Emptied == [Plain EXCEPT !.bindings = <<>>, !.repair = 1]
Repair == [Plain EXCEPT !.repair = 1]

Wishes(first, second2) == [c \in Records |-> IF c = 1 THEN first ELSE second2]
PlanOf(wishes, logins, number, threads) ==
  [wishes |-> wishes, logins |-> logins, events |-> number, threads |-> threads]

\* Two records of one project: who adopts it, who deletes it.
Contested == PlanOf(Wishes({Plain}, {Plain}), {}, 3, 2)
\* Two records of two projects: their rules share one mapping.
Shared == PlanOf(Wishes({Plain}, {Other}), {}, 2, 2)
\* One record that is edited, with networks and without users.
Edited == PlanOf(Wishes({Plain, Equipped, Emptied, Repair}, {}), {u}, 3, 2)
\* One record is renamed, the other may take the name it had, or the one it has.
Renamed == PlanOf(Wishes({Unmapped(Plain), Unmapped(Other)}, {Unmapped(Plain)}), {}, 3, 2)
\* Two projects that share a group.
Aliased == PlanOf(Wishes({Plain}, {Alias}), {}, 2, 2)

SafetyPlans == {Contested, Shared, Edited, Renamed, Aliased}
-----------------------------------------------------------------------------
(* Instances that start where the operator got to before: records in        *)
(* settled have been handled, and a project is left of a record of a name in *)
(* orphans whose deletion went wrong.                                      *)

Later(wishes, logins, number, threads, settled, orphans) ==
  [wishes |-> wishes, logins |-> logins, events |-> number, threads |-> threads,
   settled |-> settled, orphans |-> orphans]

\* Two settled records: timers and a user's change race for the mapping.
Mapped == Later(Wishes({Plain, Managed}, {Other}), {}, 1, 2, {1, 2}, {})
\* An orphan next to a settled record; its name may be taken again.
Adopted == Later(Wishes({Plain}, {Other}), {}, 2, 1, {2}, {p})
\* A user logs in after the record was handled, with or without a notification.
FirstLogin == Later(Wishes({Plain}, {Other}), {u}, 1, 2, {1}, {})
\* A new record whose handlers fail or crash.
Troubled == Later(Wishes({Unmapped(Plain)}, {}), {}, 3, 1, {}, {})

\* A settled record is renamed, next to a new one of the name it had.
Moving == Later(Wishes({Plain, Unmapped(Other)}, {Plain}), {}, 2, 1, {1}, {})
\* A record whose group another project shares for a while.
Sharing == Later(Wishes({Plain}, {Alias}), {}, 2, 1, {1}, {})

RepairPlans == {Mapped, Adopted, FirstLogin, Troubled, Moving, Sharing}

First(c) == IF c = 1 THEN Plain ELSE Other
ProjectOf(c) == 2 * c - 1
UsersGroupOf(c) == 2 * c
Owner(n) == CHOOSE c \in Records : First(c).name = n
Kept(n) == n # r /\ (n \in plan.orphans \/ Owner(n) \in plan.settled)

SettledInit ==
  /\ plan \in Plans
  /\ cr = [c \in Records |-> IF c \notin plan.settled THEN Absent ELSE
             [at |-> "live", born |-> c, stamp |-> c, renamed |-> FALSE, spec |-> First(c), handled |-> First(c),
              held |-> TRUE, phase |-> "Ready", pid |-> ProjectOf(c), gid |-> UsersGroupOf(c),
              parts |-> NoParts]]
  /\ born = 2 /\ second = 2 /\ events = 0
  /\ project = [n \in Names |-> IF ~Kept(n) THEN NoProject ELSE
                  [id |-> ProjectOf(Owner(n)), tagged |-> TRUE, contract |-> k1, enabled |-> TRUE]]
  /\ group = [n \in GroupNames |-> IF ~Kept(n) THEN NoGroup ELSE
                [id |-> UsersGroupOf(Owner(n)), members |-> Users \ plan.logins]]
  /\ rules = [n \in GroupNames |-> IF Kept(n) THEN Users ELSE {}]
  /\ keys = {ProjectOf(Owner(n)) : n \in {m \in Names : Kept(m)}}
  /\ direct = [n \in Names |-> {}] /\ parts = {} /\ ids = 4
  /\ known = Users \ plan.logins
  /\ task = [c \in Records |-> NoTask] /\ tick = [c \in Records |-> NoTick]
  /\ loop = FreeLoop /\ waived = {} /\ news = {}

SettledSpec == SettledInit /\ [][Next]_vars /\ Fairness
=============================================================================
