--------------------------- MODULE BillingWorker ---------------------------
(***************************************************************************)
(* The billing worker processes: run_one claims a report under a session   *)
(* advisory lock (the outer lock), process_report runs in a thread under a *)
(* second one (the inner lock) and checkpoints every step by a commit; an  *)
(* hourly purge_expired reclaims reports whose retention has passed.       *)
(*                                                                         *)
(* process_report reads the report row once and never refreshes it; its    *)
(* transactions are REPEATABLE READ, so each either commits as one step or *)
(* fails (Fail) when a row it writes was changed or deleted meanwhile.     *)
(***************************************************************************)
EXTENDS BillingRequests

CONSTANTS
  Workers,      \* worker processes
  NoWorker,     \* of a free lock
  NoFile,       \* of a worker that is not delivering
  MaxFaults,    \* bound: crashes, lost lock connections, lost checkpoints
  Elapses       \* whether the modelled time reaches the end of a retention

ASSUME WorkerAssumption ==
  /\ NoWorker \notin Workers
  /\ NoFile \notin Files
  /\ MaxFaults \in Nat
  /\ Elapses \in BOOLEAN

VARIABLES
  worker,       \* where each worker stands and what it holds in memory
  outer,        \* holder of the advisory lock billing-report of a report
  inner,        \* holder of the advisory lock billing-report-processor
  accepted,     \* how often the external server accepted a file
  lost,         \* acceptances whose sent checkpoint was never committed
  faults,       \* faults so far
  overrun,      \* reports that purge_expired took from a live owner, or that a
                \* stale claim set running
  unfenced      \* reports whose inner lock was lost while they were processed

workers == <<worker, outer, inner>>
delivery == <<accepted, lost>>

\* The steps of process_report, all under the inner lock.
Processing == {"capture", "plan", "query", "deliver", "accepted"}

\* The steps of run_one for the report whose outer lock it took.
Owning == {"claiming", "claimed", "failing", "recording"} \cup Processing

WorkerState ==
  [pc: {"idle", "purge"} \cup Owning,
   at: Reports \cup {NoReport},
   config: BOOLEAN,               \* delivery_config as read at the start
   todo: SUBSET Files,            \* outputs read as not sent
   file: Files \cup {NoFile},     \* the file being delivered
   ids: SUBSET Reports]           \* ids purge_expired selected

IdleWorker == [pc |-> "idle", at |-> NoReport, config |-> FALSE,
               todo |-> {}, file |-> NoFile, ids |-> {}]

At(w) == worker[w].at
Processed(r) == \E w \in Workers : worker[w].pc \in Processing /\ At(w) = r
Stands(w, pc) == worker[w].pc = pc
Moves(w, pc) == worker' = [worker EXCEPT ![w].pc = pc]
Rests(w) == worker' = [worker EXCEPT ![w] = IdleWorker]

\* Unlocking releases what this worker's session still holds.
Releases(lock, w) == [r \in Reports |-> IF lock[r] = w THEN NoWorker ELSE lock[r]]

-----------------------------------------------------------------------------
\* A slip: only new work is discovered, an interrupted report is not.
WorkableIfQueued(r) == report[r].status = "queued"

\* run_one's candidates.
Workable(r) == report[r].status \in Live

\* A slip: the outer lock is not consulted.
OuterFreeAlways(r) == TRUE

OuterFree(r) == outer[r] = NoWorker

\* run_one takes the outer lock and reads the report again: a queued report
\* is still to be set running, a running one was interrupted and is resumed.
Claim(w, r) ==
  /\ Stands(w, "idle")
  /\ Workable(r)
  /\ OuterFree(r)
  /\ outer' = [outer EXCEPT ![r] = w]
  /\ worker' = [worker EXCEPT
       ![w].pc = IF report[r].status = "queued" THEN "claiming" ELSE "claimed",
       ![w].at = r]
  /\ UNCHANGED <<tables, requests, inner, delivery, faults, overrun, unfenced>>

Started(row) == [row EXCEPT !.status = "running"]

\* run_one commits the claim by primary key, whatever the row has become; a
\* report that is no longer live is thereby overrun.
Begin(w) ==
  LET r == At(w) IN
  /\ Stands(w, "claiming")
  /\ Present(r) /\ Admits(Started(report[r]))
  /\ report' = [report EXCEPT ![r] = Started(@)]
  /\ overrun' = IF Workable(r) THEN overrun ELSE overrun \cup {r}
  /\ Moves(w, "claimed")
  /\ UNCHANGED <<run, shards, outputs, rendered, jobs, requests, outer, inner,
                 delivery, faults, unfenced>>

\* A slip: the second lock is not consulted.
ProcessorFreeAlways(r) == TRUE

ProcessorFree(r) == inner[r] = NoWorker

\* process_report returns False: another thread owns the report, or its row
\* is gone.
Yield(w) ==
  /\ Stands(w, "claimed")
  /\ ~ProcessorFree(At(w)) \/ ~Present(At(w))
  /\ Rests(w)
  /\ outer' = Releases(outer, w)
  /\ UNCHANGED <<tables, requests, inner, delivery, faults, overrun, unfenced>>

\* Without a snapshot there may be no shards: that is an error.
FirstStep(r) ==
  IF report[r].snapshot THEN "plan"
  ELSE IF shards[r] = {} THEN "capture" ELSE "failing"

\* process_report takes the inner lock and reads the report.
Start(w) ==
  LET r == At(w) IN
  /\ Stands(w, "claimed")
  /\ ProcessorFree(r)
  /\ Present(r)
  /\ worker' = [worker EXCEPT ![w].pc = FirstStep(r), ![w].config = report[r].config]
  /\ inner' = IF FirstStep(r) = "failing" THEN inner ELSE [inner EXCEPT ![r] = w]
  /\ UNCHANGED <<tables, requests, outer, delivery, faults, overrun, unfenced>>

\* The input snapshot is captured and committed.
Capture(w) ==
  /\ Stands(w, "capture")
  /\ Present(At(w))
  /\ report' = [report EXCEPT ![At(w)].snapshot = TRUE]
  /\ Moves(w, "plan")
  /\ UNCHANGED <<run, shards, outputs, rendered, jobs, requests, outer, inner,
                 delivery, faults, overrun, unfenced>>

\* The shards of the whole period are inserted, unless there are some.
Plan(w) ==
  LET r == At(w) IN
  /\ Stands(w, "plan")
  /\ Present(r)
  /\ shards' = [shards EXCEPT ![r] = IF @ = {} THEN InitialShards ELSE @]
  /\ Moves(w, "query")
  /\ UNCHANGED <<report, run, outputs, rendered, jobs, requests, outer, inner,
                 delivery, faults, overrun, unfenced>>

\* A pending shard is answered, and its usage committed.  The code takes the
\* lowest id; any order is allowed here.
Query(w, s) ==
  /\ Stands(w, "query")
  /\ s \in Pending(At(w))
  /\ shards' = [shards EXCEPT ![At(w)] = Answered(@, s)]
  /\ UNCHANGED <<report, run, outputs, rendered, jobs, requests, workers,
                 delivery, faults, overrun, unfenced>>

\* A query that timed out or answered too much: the shard is cut in two.
Split(w, s) ==
  /\ Stands(w, "query")
  /\ s \in Pending(At(w))
  /\ Splittable(s)
  /\ shards' = [shards EXCEPT ![At(w)] = SplitUp(@, s)]
  /\ UNCHANGED <<report, run, outputs, rendered, jobs, requests, workers,
                 delivery, faults, overrun, unfenced>>

\* Slips: files already sent are delivered again on a resume; the files
\* that wait to be sent are mistaken for files to be downloaded.
ToDeliverAll(r, files) == IF report[r].delivery THEN Files ELSE {}

ToDeliverReady(r, files) ==
  IF report[r].delivery THEN {f \in Files : files[f] = "ready"} ELSE {}

\* The delivery loop skips the outputs it read as sent.
ToDeliver(r, files) ==
  IF report[r].delivery THEN {f \in Files : files[f] # "sent"} ELSE {}

AnsweredAll(r) == Pending(r) = {}

\* No shard is pending: outputs are rendered and committed, unless there are
\* some, and delivery begins (without its configuration: ValueError).
Render(w) ==
  LET r == At(w)
      fresh == outputs[r] = NoOutputs
      files == IF fresh
               THEN [f \in Files |-> IF report[r].delivery THEN "pending" ELSE "ready"]
               ELSE outputs[r]
      lacks == report[r].delivery /\ ~worker[w].config
  IN
  /\ Stands(w, "query")
  /\ AnsweredAll(r)
  /\ Present(r)
  /\ outputs' = [outputs EXCEPT ![r] = files]
  /\ rendered' = [rendered EXCEPT ![r] = IF fresh THEN Successful(r) ELSE @]
  /\ report' = [report EXCEPT ![r].artifact = @ \/ (fresh /\ ~report[r].delivery)]
  /\ worker' = [worker EXCEPT ![w].pc = IF lacks THEN "failing" ELSE "deliver",
                              ![w].todo = ToDeliver(r, files)]
  /\ inner' = IF lacks THEN Releases(inner, w) ELSE inner
  /\ UNCHANGED <<run, shards, jobs, requests, outer, delivery, faults, overrun,
                 unfenced>>

\* The WebDAV or SMTP server accepts a file.
Send(w, f) ==
  /\ Stands(w, "deliver")
  /\ f \in worker[w].todo
  /\ accepted' = [accepted EXCEPT ![At(w)][f] = @ + 1]
  /\ worker' = [worker EXCEPT ![w].pc = "accepted", ![w].file = f]
  /\ UNCHANGED <<tables, requests, outer, inner, lost, faults, overrun, unfenced>>

\* The sent checkpoint is committed.
Checkpoint(w) ==
  LET f == worker[w].file IN
  /\ Stands(w, "accepted")
  /\ outputs[At(w)][f] # "none"
  /\ outputs' = [outputs EXCEPT ![At(w)][f] = "sent"]
  /\ worker' = [worker EXCEPT ![w].pc = "deliver", ![w].file = NoFile,
                              ![w].todo = @ \ {f}]
  /\ UNCHANGED <<report, run, shards, rendered, jobs, requests, outer, inner,
                 delivery, faults, overrun, unfenced>>

\* The final commit: report and run succeed together.  If the connection of
\* the inner lock is gone, unlocking raises after the commit.
Finish(w) ==
  LET r == At(w) IN
  /\ Stands(w, "deliver")
  /\ worker[w].todo = {}
  /\ Present(r)
  /\ report' = [report EXCEPT ![r].status = "succeeded", ![r].config = FALSE,
                              ![r].expiry = "set"]
  /\ run' = [run EXCEPT ![r] = IF HasRun(r) THEN "success" ELSE @]
  /\ \/ /\ inner[r] = w
        /\ Rests(w)
        /\ inner' = Releases(inner, w)
        /\ outer' = Releases(outer, w)
     \/ /\ inner[r] # w
        /\ Moves(w, "failing")
        /\ UNCHANGED <<inner, outer>>
  /\ UNCHANGED <<shards, outputs, rendered, jobs, requests, delivery, faults,
                 overrun, unfenced>>

-----------------------------------------------------------------------------
\* Any exception inside process_report before a file is accepted: no database
\* session, a query, a rendering, a delivery or a commit fails, or a shard of
\* one hour is still too large.
Fail(w) ==
  /\ worker[w].pc \in {"claimed"} \cup (Processing \ {"accepted"})
  /\ Moves(w, "failing")
  /\ inner' = Releases(inner, w)
  /\ UNCHANGED <<tables, requests, outer, delivery, faults, overrun, unfenced>>

\* The sent checkpoint does not commit, though the file was accepted: its
\* row is gone, the database refuses, or the server's answer was lost and
\* _deliver raised.
FailCheckpoint(w) ==
  LET r == At(w) IN
  /\ Stands(w, "accepted")
  /\ \/ outputs[r][worker[w].file] = "none" /\ UNCHANGED faults
     \/ faults < MaxFaults /\ faults' = faults + 1
  /\ lost' = [lost EXCEPT ![r][worker[w].file] = @ + 1]
  /\ worker' = [worker EXCEPT ![w].pc = "failing", ![w].file = NoFile]
  /\ inner' = Releases(inner, w)
  /\ UNCHANGED <<tables, requests, outer, accepted, overrun, unfenced>>

\* run_one's handler reads the report, and rests if it is not running.
ReadFailure(w) ==
  LET r == At(w) IN
  /\ Stands(w, "failing")
  /\ IF report[r].status = "running"
     THEN Moves(w, "recording") /\ UNCHANGED outer
     ELSE Rests(w) /\ outer' = Releases(outer, w)
  /\ UNCHANGED <<tables, requests, inner, delivery, faults, overrun, unfenced>>

Failed(row) == [row EXCEPT !.status = "failed", !.expiry = "set"]

\* A slip: the job's run is forgotten.
RunKeptRunning(r) == run[r]

\* The run is read after the report.
RunAfterFailure(r) == IF run[r] = "running" THEN "error" ELSE run[r]

\* The failure is committed by primary key, whatever the row has become.
RecordFailure(w) ==
  LET r == At(w) IN
  /\ Stands(w, "recording")
  /\ Present(r) /\ Admits(Failed(report[r]))
  /\ report' = [report EXCEPT ![r] = Failed(@)]
  /\ run' = [run EXCEPT ![r] = RunAfterFailure(r)]
  /\ Rests(w)
  /\ outer' = Releases(outer, w)
  /\ UNCHANGED <<shards, outputs, rendered, jobs, requests, inner, delivery,
                 faults, overrun, unfenced>>

\* The claim or the failure does not commit: its row is gone, or the CHECK
\* constraint refuses it.
Refused(w) ==
  LET r == At(w) IN
  /\ \/ Stands(w, "claiming") /\ ~(Present(r) /\ Admits(Started(report[r])))
     \/ Stands(w, "recording") /\ ~(Present(r) /\ Admits(Failed(report[r])))
  /\ Rests(w)
  /\ outer' = Releases(outer, w)
  /\ UNCHANGED <<tables, requests, inner, delivery, faults, overrun, unfenced>>

\* The process dies; its database sessions end and with them its locks.
Crash(w) ==
  /\ worker[w].pc # "idle"
  /\ faults < MaxFaults
  /\ faults' = faults + 1
  /\ lost' = IF Stands(w, "accepted")
             THEN [lost EXCEPT ![At(w)][worker[w].file] = @ + 1] ELSE lost
  /\ Rests(w)
  /\ outer' = Releases(outer, w)
  /\ inner' = Releases(inner, w)
  /\ UNCHANGED <<tables, requests, accepted, overrun, unfenced>>

\* The idle connection of the outer lock drops while its worker works on.
LoseOuter(w) ==
  /\ worker[w].pc \in Owning
  /\ outer[At(w)] = w
  /\ faults < MaxFaults
  /\ faults' = faults + 1
  /\ outer' = Releases(outer, w)
  /\ UNCHANGED <<tables, requests, worker, inner, delivery, overrun, unfenced>>

\* The idle connection of the inner lock drops while its thread works on.
LoseInner(w) ==
  /\ worker[w].pc \in Processing
  /\ inner[At(w)] = w
  /\ faults < MaxFaults
  /\ faults' = faults + 1
  /\ inner' = Releases(inner, w)
  /\ unfenced' = unfenced \cup {At(w)}
  /\ UNCHANGED <<tables, requests, worker, outer, delivery, overrun>>

-----------------------------------------------------------------------------
\* Seven days pass since a report was completed.
Elapse(r) ==
  /\ Elapses
  /\ report[r].expiry = "set"
  /\ report' = [report EXCEPT ![r].expiry = "due"]
  /\ UNCHANGED <<run, shards, outputs, rendered, jobs, requests, workers,
                 delivery, faults, overrun, unfenced>>

Expirable(r) ==
  report[r].expiry = "due" /\ report[r].status \in {"succeeded", "failed"}

\* purge_expired, the SELECT.
SelectExpired(w) ==
  LET ids == {r \in Reports : Expirable(r)} IN
  /\ Stands(w, "idle")
  /\ ids # {}
  /\ worker' = [worker EXCEPT ![w].pc = "purge", ![w].ids = ids]
  /\ UNCHANGED <<tables, requests, outer, inner, delivery, faults, overrun, unfenced>>

\* A slip: a status the table does not know.
ExpiredAsPurged(row) == [row EXCEPT !.status = "purged", !.config = FALSE]

Expired(row) == [row EXCEPT !.status = "expired", !.config = FALSE,
                            !.snapshot = FALSE, !.artifact = FALSE]

\* A slip: the outputs stay when the artifact goes.
OutputsKept(r) == outputs[r]

OutputsDeleted(r) == NoOutputs

\* purge_expired, the DELETEs and the UPDATE by id, in one commit.
Purge(w) ==
  LET ids == {r \in worker[w].ids : Present(r)} IN
  /\ Stands(w, "purge")
  /\ report' = [r \in Reports |-> IF r \in ids THEN Expired(report[r]) ELSE report[r]]
  /\ shards' = [r \in Reports |-> IF r \in ids THEN {} ELSE shards[r]]
  /\ outputs' = [r \in Reports |-> IF r \in ids THEN OutputsDeleted(r) ELSE outputs[r]]
  /\ rendered' = [r \in Reports |-> IF r \in ids THEN {} ELSE rendered[r]]
  /\ overrun' = overrun \cup
       {r \in ids : report[r].status \in Live \/ Processed(r)}
  /\ Rests(w)
  /\ UNCHANGED <<run, jobs, requests, outer, inner, delivery, faults, unfenced>>

-----------------------------------------------------------------------------
\* What a running worker does next.
Work(w) ==
  \/ \E r \in Reports : Claim(w, r)
  \/ Begin(w) \/ Yield(w) \/ Start(w) \/ Capture(w) \/ Plan(w)
  \/ Stands(w, "query") /\ \E s \in Pending(At(w)) : Query(w, s) \/ Split(w, s)
  \/ Render(w)
  \/ \E f \in Files : Send(w, f)
  \/ Checkpoint(w) \/ Finish(w)
  \/ Fail(w) \/ FailCheckpoint(w)
  \/ ReadFailure(w) \/ RecordFailure(w) \/ Refused(w)
  \/ Purge(w)

Working ==
  \/ \E w \in Workers :
       Work(w) \/ SelectExpired(w) \/ Crash(w) \/ LoseOuter(w) \/ LoseInner(w)
  \/ \E r \in Reports : Elapse(r)

=============================================================================
