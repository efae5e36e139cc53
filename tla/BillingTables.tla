--------------------------- MODULE BillingTables ---------------------------
(***************************************************************************)
(* The PostgreSQL tables of durable billing reports and the constraints    *)
(* the database itself enforces on every commit.                           *)
(*                                                                         *)
(* One billing period is modelled. A job's run and its report are created  *)
(* by one commit, deleted together and unique to each other, so both are   *)
(* indexed by the report; reports are numbered in order of creation.       *)
(***************************************************************************)
EXTENDS BillingShards, FiniteSets

CONSTANTS
  MaxReports,   \* bound: rows ever inserted in billing_report
  Jobs,         \* saved billing jobs
  NoJob,        \* of an ad hoc report
  Series,       \* (metric, project) pairs of the query plan
  Files,        \* files a report renders to: one, or one per contract
  PeriodHours   \* length of the billing period

ASSUME TablesAssumption ==
  /\ MaxReports \in Nat \ {0}
  /\ PeriodHours \in Nat \ {0}
  /\ NoJob \notin Jobs
  /\ Files # {}

VARIABLES
  report,    \* billing_report rows
  run,       \* status of the billing_job_run a report belongs to
  shards,    \* billing_report_shard rows of a report
  outputs,   \* delivery state of a report's billing_report_output rows
  rendered,  \* the shards whose usage the outputs' content sums
  jobs       \* billing_job rows that exist

tables == <<report, run, shards, outputs, rendered, jobs>>

Reports == 1..MaxReports

Live == {"queued", "running"}
Stored == Live \cup {"succeeded", "failed", "expired"}

Row == [status: Stored \cup {"unused", "deleted"},
        job: Jobs \cup {NoJob},
        delivery: BOOLEAN,      \* delivery_method is not NULL
        config: BOOLEAN,        \* delivery_config is not NULL
        snapshot: BOOLEAN,      \* input_snapshot_json is not NULL
        artifact: BOOLEAN,      \* result_content is not NULL
        expiry: {"none", "set", "due"}]   \* expires_at: NULL, later, past

Shard == [series: Series, from: Nat, to: Nat,
          status: {"pending", "success", "split"}]

RunStatus == {"none", "running", "success", "error"}
FileStatus == {"none", "pending", "ready", "sent"}

Unused == [status |-> "unused", job |-> NoJob, delivery |-> FALSE,
           config |-> FALSE, snapshot |-> FALSE, artifact |-> FALSE,
           expiry |-> "none"]

Present(r) == report[r].status \in Stored
HasRun(r) == report[r].job # NoJob

NoOutputs == [f \in Files |-> "none"]

-----------------------------------------------------------------------------
\* The database's own constraints.

\* A constraint that forgets that work to deliver needs its configuration.
AdmitsAny(row) == TRUE

\* ck_billing_report_delivery
Admits(row) ==
  \/ ~row.delivery /\ ~row.config
  \/ row.delivery /\ (row.config \/ row.status \in {"succeeded", "expired"})

\* An index that forgets to be unique.
IndexIgnored(r, j) == TRUE

\* uq_billing_job_run_active_period: r may become job j's running run.
IndexAdmits(r, j) ==
  \A q \in Reports \ {r} : report[q].job = j => run[q] # "running"

-----------------------------------------------------------------------------
\* Shards.

NewShard(x, w) == [series |-> x, from |-> w.from, to |-> w.to, status |-> "pending"]

InitialShards == {NewShard(x, w) : x \in Series, w \in Windows(PeriodHours)}

Pending(r) == {s \in shards[r] : s.status = "pending"}
Successful(r) == {s \in shards[r] : s.status = "success"}
Unsplit(set) == {s \in set : s.status # "split"}

Answered(set, s) == (set \ {s}) \cup {[s EXCEPT !.status = "success"]}

\* A slip: the halves are added and the parent is left to be queried too.
SplitKeepingParent(set, s) ==
  set \cup {NewShard(s.series, w) : w \in Halves(s)}

SplitUp(set, s) ==
  (set \ {s})
    \cup {[s EXCEPT !.status = "split"]}
    \cup {NewShard(s.series, w) : w \in Halves(s)}

\* The given shards query each hour of each series exactly once.
TilesPeriod(set) ==
  \A x \in Series : Tiles({s \in set : s.series = x}, PeriodHours)

=============================================================================
