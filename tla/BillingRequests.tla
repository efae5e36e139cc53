-------------------------- MODULE BillingRequests --------------------------
(***************************************************************************)
(* The requests that create, retry and delete billing work: the routes of  *)
(* routers/billing.py and execute_job, which the schedule trigger and a    *)
(* manual run share.  A handler reads, then writes by primary key and      *)
(* commits; what it read may be stale by then, and only the database's     *)
(* constraints stand between.  A handler is a client with a program        *)
(* counter; its reads and its commit are separate steps.                   *)
(***************************************************************************)
EXTENDS BillingTables

CONSTANTS
  Clients,      \* request handlers running at a time
  MaxRetries    \* bound: retries and runs requested by clients

ASSUME RequestsAssumption == MaxRetries \in Nat

VARIABLES
  client,       \* where each handler stands and what it holds in memory
  asked         \* retries and job runs requested so far

requests == <<client, asked>>

NoReport == 0

ClientState ==
  [pc: {"idle", "requeue", "find", "check", "insert"},
   report: Reports \cup {NoReport},
   job: Jobs \cup {NoJob}]

IdleClient == [pc |-> "idle", report |-> NoReport, job |-> NoJob]

Goes(c, pc) == client' = [client EXCEPT ![c].pc = pc]
Done(c) == client' = [client EXCEPT ![c] = IdleClient]

FreeRows == {r \in Reports : report[r].status = "unused"}

\* Rows are numbered in order of insertion.
NextRow(r) == r \in FreeRows /\ \A q \in FreeRows : r <= q

-----------------------------------------------------------------------------
\* retry_report: the handler reads the report, and answers 409 unless failed.
Retry(c, r) ==
  /\ client[c].pc = "idle"
  /\ asked < MaxRetries
  /\ report[r].status = "failed"
  /\ client' = [client EXCEPT ![c] = [pc |-> "requeue", report |-> r, job |-> NoJob]]
  /\ asked' = asked + 1
  /\ UNCHANGED tables

Requeued(row) == [row EXCEPT !.status = "queued", !.expiry = "none"]

\* The UPDATE finds its row and breaks no constraint of the database.
MayRequeue(r) ==
  /\ Present(r)
  /\ Admits(Requeued(report[r]))
  /\ HasRun(r) => IndexAdmits(r, report[r].job)

\* requeue_failed_report and the commit after it.
Requeue(c) ==
  LET r == client[c].report IN
  /\ client[c].pc = "requeue"
  /\ MayRequeue(r)
  /\ report' = [report EXCEPT ![r] = Requeued(@)]
  /\ run' = [run EXCEPT ![r] = IF HasRun(r) THEN "running" ELSE @]
  /\ Done(c)
  /\ UNCHANGED <<shards, outputs, rendered, jobs, asked>>

\* The UPDATE matches no row or a constraint refuses it: rolled back, 500.
RequeueRefused(c) ==
  /\ client[c].pc = "requeue"
  /\ ~MayRequeue(client[c].report)
  /\ Done(c)
  /\ UNCHANGED <<tables, asked>>

-----------------------------------------------------------------------------
\* manual_run: the handler has loaded the job and calls execute_job.
ManualRun(c, j) ==
  /\ client[c].pc = "idle"
  /\ asked < MaxRetries
  /\ j \in jobs
  /\ client' = [client EXCEPT ![c] = [pc |-> "find", report |-> NoReport, job |-> j]]
  /\ asked' = asked + 1
  /\ UNCHANGED tables

\* run_due_jobs, for one job whose schedule is due.
RunDue(c, j) ==
  /\ ~\E r \in Reports : report[r].job = j /\ run[r] \in {"running", "success"}
  /\ ManualRun(c, j)

FailedRuns(j) == {r \in Reports : report[r].job = j /\ run[r] = "error"}

\* execute_job, first SELECT: the job's latest run in error.
FindFailedRun(c) ==
  /\ client[c].pc = "find"
  /\ IF FailedRuns(client[c].job) = {}
     THEN Goes(c, "insert")
     ELSE \E r \in FailedRuns(client[c].job) :
            /\ \A q \in FailedRuns(client[c].job) : q <= r
            /\ client' = [client EXCEPT ![c].pc = "check", ![c].report = r]
  /\ UNCHANGED <<tables, asked>>

\* execute_job, second SELECT: the run's report, if it is still failed.
CheckFailedReport(c) ==
  /\ client[c].pc = "check"
  /\ Goes(c, IF report[client[c].report].status = "failed" THEN "requeue" ELSE "insert")
  /\ UNCHANGED <<tables, asked>>

\* The row of a new report: with no contract to bill it succeeds at once.
NewRow(j, delivers, contracts) ==
  [Unused EXCEPT !.status = IF contracts THEN "queued" ELSE "succeeded",
                 !.job = j,
                 !.delivery = delivers,
                 !.config = delivers /\ contracts]

MayInsert(r, j) == j \in jobs /\ IndexAdmits(r, j)

\* execute_job inserts a run and its report in one commit.
InsertRun(c, r, contracts) ==
  LET j == client[c].job IN
  /\ client[c].pc = "insert"
  /\ NextRow(r)
  /\ MayInsert(r, j)
  /\ report' = [report EXCEPT ![r] = NewRow(j, TRUE, contracts)]
  /\ run' = [run EXCEPT ![r] = IF contracts THEN "running" ELSE "success"]
  /\ Done(c)
  /\ UNCHANGED <<shards, outputs, rendered, jobs, asked>>

\* The unique index answers with the active run, or the job is gone (or the
\* model has no row left, MaxReports).
InsertRefused(c) ==
  /\ client[c].pc = "insert"
  /\ \A r \in FreeRows : ~MayInsert(r, client[c].job)
  /\ Done(c)
  /\ UNCHANGED <<tables, asked>>

-----------------------------------------------------------------------------
\* create_report and run_once: an ad hoc report, downloaded or delivered.
\* A download without contracts is refused with 400.
EnqueueReport(r, delivers, contracts) ==
  /\ NextRow(r)
  /\ delivers \/ contracts
  /\ report' = [report EXCEPT ![r] = NewRow(NoJob, delivers, contracts)]
  /\ UNCHANGED <<run, shards, outputs, rendered, jobs, requests>>

\* delete_job: the rows of its runs and reports go with it.
DeleteJob(j) ==
  LET gone(r) == report[r].job = j IN
  /\ j \in jobs
  /\ jobs' = jobs \ {j}
  /\ report' = [r \in Reports |->
       IF gone(r) THEN [Unused EXCEPT !.status = "deleted"] ELSE report[r]]
  /\ run' = [r \in Reports |-> IF gone(r) THEN "none" ELSE run[r]]
  /\ shards' = [r \in Reports |-> IF gone(r) THEN {} ELSE shards[r]]
  /\ outputs' = [r \in Reports |-> IF gone(r) THEN NoOutputs ELSE outputs[r]]
  /\ rendered' = [r \in Reports |-> IF gone(r) THEN {} ELSE rendered[r]]
  /\ UNCHANGED requests

Requesting ==
  \/ \E c \in Clients :
       \/ \E r \in Reports : Retry(c, r)
       \/ \E j \in Jobs : ManualRun(c, j) \/ RunDue(c, j)
       \/ Requeue(c) \/ RequeueRefused(c)
       \/ FindFailedRun(c) \/ CheckFailedReport(c)
       \/ \E r \in Reports, contracts \in BOOLEAN : InsertRun(c, r, contracts)
       \/ InsertRefused(c)
  \/ \E r \in Reports, delivers, contracts \in BOOLEAN :
       EnqueueReport(r, delivers, contracts)
  \/ \E j \in Jobs : DeleteJob(j)

=============================================================================
