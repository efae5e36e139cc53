------------------------ MODULE MCBillingConsistency ------------------------
(***************************************************************************)
(* Two instances of BillingReports in one run: workers that race for one   *)
(* report, and handlers that ask for reports of one job's period.          *)
(***************************************************************************)
EXTENDS MCBillingReports

VARIABLE limits  \* reports, processes that work at a time, faults, requests and faults, time

Races == [reports |-> 1, workers |-> 2, faults |-> 2, events |-> 4, elapses |-> TRUE]
Periods == [reports |-> 2, workers |-> 1, faults |-> 0, events |-> 3, elapses |-> FALSE]

Within(l) ==
  /\ \A r \in Reports : r > l.reports => report[r].status = "unused"
  /\ Cardinality({w \in Workers : worker[w] # IdleWorker}) <= l.workers
  /\ faults <= l.faults /\ asked + faults <= l.events
  /\ \A r \in Reports : report[r].expiry = "due" => l.elapses

LimitedSpec ==
  /\ Init /\ limits \in {Races, Periods}
  /\ [][Next /\ limits' = limits /\ Within(limits)']_<<vars, limits>>
=============================================================================
