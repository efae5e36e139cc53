-------------------------- MODULE BillingReports ---------------------------
(***************************************************************************)
(* Durable billing reports: the request handlers of BillingRequests and    *)
(* the worker processes of BillingWorker over the tables of BillingTables, *)
(* and what they must guarantee together.                                  *)
(***************************************************************************)
EXTENDS BillingWorker

vars == <<tables, requests, workers, delivery, faults, overrun, unfenced>>

Init ==
  /\ report = [r \in Reports |-> Unused]
  /\ run = [r \in Reports |-> "none"]
  /\ shards = [r \in Reports |-> {}]
  /\ outputs = [r \in Reports |-> NoOutputs]
  /\ rendered = [r \in Reports |-> {}]
  /\ jobs = Jobs
  /\ client = [c \in Clients |-> IdleClient]
  /\ asked = 0
  /\ worker = [w \in Workers |-> IdleWorker]
  /\ outer = [r \in Reports |-> NoWorker]
  /\ inner = [r \in Reports |-> NoWorker]
  /\ accepted = [r \in Reports |-> [f \in Files |-> 0]]
  /\ lost = [r \in Reports |-> [f \in Files |-> 0]]
  /\ faults = 0
  /\ overrun = {}
  /\ unfenced = {}

Next == \/ Requesting /\ UNCHANGED <<workers, delivery, faults, overrun, unfenced>>
        \/ Working

Spec == Init /\ [][Next]_vars

\* A worker process is restarted when it dies and never stops between two
\* steps for ever; external calls answer or time out.  Requests, faults and
\* the passing of time owe nothing.
FairSpec == Spec /\ \A w \in Workers : WF_vars(Work(w))

-----------------------------------------------------------------------------
TypeOK ==
  /\ report \in [Reports -> Row]
  /\ run \in [Reports -> RunStatus]
  /\ shards \in [Reports -> SUBSET Shard]
  /\ outputs \in [Reports -> [Files -> FileStatus]]
  /\ rendered \in [Reports -> SUBSET Shard]
  /\ jobs \subseteq Jobs
  /\ client \in [Clients -> ClientState]
  /\ asked \in 0..MaxRetries
  /\ worker \in [Workers -> WorkerState]
  /\ outer \in [Reports -> Workers \cup {NoWorker}]
  /\ inner \in [Reports -> Workers \cup {NoWorker}]
  /\ accepted \in [Reports -> [Files -> Nat]]
  /\ lost \in [Reports -> [Files -> Nat]]
  /\ faults \in 0..MaxFaults
  /\ overrun \subseteq Reports
  /\ unfenced \subseteq Reports

\* At most one thread processes a report, even after the outer lock of the
\* first one was lost and a second worker claimed the report: the inner lock
\* of process_report, as long as that one is not lost too.
OneProcessor ==
  \A v, w \in Workers :
    /\ worker[v].pc \in Processing
    /\ worker[w].pc \in Processing
    /\ At(v) = At(w)
    /\ At(v) \notin unfenced
    => v = w

\* A job's run tells the state of its report: an active run belongs to a
\* report that is queued or running, and a report ends together with its run
\* - through claims, retries, failures and purges, but not when a purge took
\* the report from a live owner or a stale claim set it running.
RunAgrees(r) ==
  CASE report[r].status \in Live -> run[r] = "running"
    [] report[r].status = "succeeded" -> run[r] = "success"
    [] report[r].status = "failed" -> run[r] = "error"
    [] report[r].status = "expired" -> run[r] \in {"success", "error"}
    [] OTHER -> run[r] = "none"

RunMatchesReport ==
  \A r \in Reports \ overrun : HasRun(r) => RunAgrees(r)

\* A job's period never has two reports under way.
OneLiveReportPerJob ==
  \A q, r \in Reports \ overrun :
    /\ HasRun(r)
    /\ report[q].job = report[r].job
    /\ report[q].status \in Live
    /\ report[r].status \in Live
    => q = r

\* Outputs, once rendered, sum the usage of every hour of the period exactly
\* once, however often the report was split, interrupted and resumed.
RenderedInFull ==
  \A r \in Reports \ overrun :
    outputs[r] # NoOutputs => TilesPeriod(rendered[r])

\* A delivered report that succeeded has had every file accepted.
SucceededMeansDelivered ==
  \A r \in Reports \ overrun :
    /\ report[r].status = "succeeded"
    /\ report[r].delivery
    /\ outputs[r] # NoOutputs
    => \A f \in Files : outputs[r][f] = "sent" /\ accepted[r][f] > 0

\* A report that succeeded and is not expired can be downloaded.
SucceededMeansDownloadable ==
  \A r \in Reports \ overrun :
    report[r].status = "succeeded" /\ ~report[r].delivery => report[r].artifact

\* A file is delivered again only for an acceptance whose checkpoint was
\* lost: retries, resumes and second workers never repeat a delivery, unless
\* two threads got to deliver the report because its inner lock was lost.
RepeatedOnlyIfLost ==
  \A r \in Reports \ (overrun \cup unfenced), f \in Files :
    accepted[r][f] <= lost[r][f] + 1

\* A report that was delivered is never queued, run or failed again, not
\* even by a retry that read it as failed before it succeeded.
DeliveredIsFinal ==
  [][\A r \in Reports :
       report[r].status = "succeeded" /\ report[r].delivery
       => report'[r].status \in {"succeeded", "expired", "deleted"}]_vars

\* As long as no process died and no lock was lost, what run_one sets running
\* is live, however long its claim was under way - unless a purge took it.
ClaimsWhatIsLive ==
  [][\A r \in Reports \ overrun :
       faults = 0 /\ report'[r].status = "running" => report[r].status \in Live]_vars

\* Work that was accepted ends: a queued or interrupted report eventually
\* succeeds, fails, expires or is deleted.
ReportsSettle ==
  \A r \in Reports : report[r].status \in Live ~> report[r].status \notin Live

\* An active run does not stay active for ever and block its period, unless
\* its report was overrun.
RunsSettle ==
  \A r \in Reports :
    run[r] = "running" ~> (run[r] # "running" \/ r \in overrun)

-----------------------------------------------------------------------------
\* What the repository's own words say and the code does not do.

\* "Reclaim expired artifacts and their no-longer-resumable checkpoints"
\* (purge_expired): a report that is queued or running is not reclaimed.
PurgeSparesLiveReports ==
  [][\A r \in Reports :
       report[r].status \in Live => report'[r].status # "expired"]_vars

=============================================================================
