------------------------ MODULE BillingContentProofs -----------------------
(***************************************************************************)
(* What a report contains and whom it reaches: for any period, window      *)
(* length and number of series, files, workers, handlers and faults, the   *)
(* usage of every hour is summed once, and deliveries are complete and not *)
(* repeated without cause.                                                 *)
(***************************************************************************)
EXTENDS BillingReportsProofs

-----------------------------------------------------------------------------
\* The unsplit shards of a report tile the period, and stay a tiling when a
\* shard is answered or cut in two.

Of(set, x) == {s \in set : s.series = x}

LEMMA InitialShardsTile == TilesPeriod(Unsplit(InitialShards))
<1> SUFFICES ASSUME NEW x \in Series
             PROVE  Tiles(Of(Unsplit(InitialShards), x), PeriodHours)
  BY DEF TilesPeriod, Of
<1>1. Tiles(Windows(PeriodHours), PeriodHours)
  BY WindowsTile, TablesAssumption
<1>2. ASSUME NEW s \in Of(Unsplit(InitialShards), x)
      PROVE  \E w \in Windows(PeriodHours) : s = NewShard(x, w)
  BY DEF Of, Unsplit, InitialShards, NewShard
<1>3. ASSUME NEW w \in Windows(PeriodHours)
      PROVE  /\ NewShard(x, w) \in Of(Unsplit(InitialShards), x)
             /\ NewShard(x, w).from = w.from /\ NewShard(x, w).to = w.to
  BY DEF Of, Unsplit, InitialShards, NewShard
<1>4. QED
  BY <1>1, <1>2, <1>3 DEF Tiles, Holds

LEMMA AnsweredTiles ==
  ASSUME NEW set \in SUBSET Shard, NEW s \in set, s.status = "pending",
         TilesPeriod(Unsplit(set))
  PROVE  TilesPeriod(Unsplit(Answered(set, s)))
<1> DEFINE t == [s EXCEPT !.status = "success"]
<1>1. /\ t.series = s.series /\ t.from = s.from /\ t.to = s.to /\ t.status = "success"
      /\ s \in Unsplit(set)
  BY DEF Shard, Unsplit
<1>2. Unsplit(Answered(set, s)) = (Unsplit(set) \ {s}) \cup {t}
  BY <1>1 DEF Unsplit, Answered
<1> SUFFICES ASSUME NEW x \in Series
             PROVE  Tiles(Of(Unsplit(Answered(set, s)), x), PeriodHours)
  BY DEF TilesPeriod, Of
<1>3. Tiles(Of(Unsplit(set), x), PeriodHours)
  BY DEF TilesPeriod, Of
<1>4. CASE s.series # x
  <2>1. Of(Unsplit(Answered(set, s)), x) = Of(Unsplit(set), x)
    BY <1>1, <1>2, <1>4 DEF Of
  <2>2. QED  BY <1>3, <2>1
<1>5. CASE s.series = x
  <2>1. Of(Unsplit(Answered(set, s)), x) = (Of(Unsplit(set), x) \ {s}) \cup {t}
    BY <1>1, <1>2, <1>5 DEF Of
  <2>2. s \in Of(Unsplit(set), x)
    BY <1>1, <1>5 DEF Of
  <2> HIDE DEF t
  <2>3. QED  BY <1>1, <1>3, <2>1, <2>2 DEF Tiles, Holds
<1>6. QED  BY <1>4, <1>5

LEMMA SplitUpTiles ==
  ASSUME NEW set \in SUBSET Shard, NEW s \in set, s.status = "pending",
         Splittable(s), TilesPeriod(Unsplit(set))
  PROVE  TilesPeriod(Unsplit(SplitUp(set, s)))
<1> DEFINE new == {NewShard(s.series, w) : w \in Halves(s)}
<1>1. /\ [s EXCEPT !.status = "split"].status = "split"
      /\ s \in Unsplit(set) /\ s.from \in Nat /\ s.to \in Nat
      /\ \A n \in new : n.status = "pending" /\ n.series = s.series
  BY DEF Shard, Unsplit, NewShard
<1>2. Unsplit(SplitUp(set, s)) = (Unsplit(set) \ {s}) \cup new
  BY <1>1 DEF Unsplit, SplitUp
<1> SUFFICES ASSUME NEW x \in Series
             PROVE  Tiles(Of(Unsplit(SplitUp(set, s)), x), PeriodHours)
  BY DEF TilesPeriod, Of
<1>3. Tiles(Of(Unsplit(set), x), PeriodHours)
  BY DEF TilesPeriod, Of
<1>4. CASE s.series # x
  <2>1. Of(Unsplit(SplitUp(set, s)), x) = Of(Unsplit(set), x)
    BY <1>1, <1>2, <1>4 DEF Of
  <2>2. QED  BY <1>3, <2>1
<1>5. CASE s.series = x
  <2> DEFINE old == Of(Unsplit(set), x)
  <2>1. Of(Unsplit(SplitUp(set, s)), x) = (old \ {s}) \cup new
    BY <1>1, <1>2, <1>5 DEF Of
  <2>2. s \in old /\ \A o \in old : o.from \in Nat /\ o.to \in Nat
    BY <1>1, <1>5 DEF Of, Unsplit, Shard
  <2>3. /\ \A w \in Halves(s) : s.from <= w.from /\ w.from < w.to /\ w.to <= s.to
                                  /\ w.from \in Int /\ w.to \in Int
    BY <1>1, MidpointInside DEF Halves
  <2>4. ASSUME NEW hour \in Int
        PROVE  /\ Holds(s, hour) <=> \E n \in new : Holds(n, hour)
               /\ \A m, n \in new : Holds(m, hour) /\ Holds(n, hour) => m = n
    <3>1. ASSUME NEW w \in Halves(s)
          PROVE  Holds(NewShard(s.series, w), hour) <=> Holds(w, hour)
      BY DEF NewShard, Holds
    <3>2. QED  BY <1>1, <3>1, HalvesPartition
  <2>5. \A n \in new : 0 <= n.from /\ n.from < n.to /\ n.to <= PeriodHours
    <3>1. 0 <= s.from /\ s.to <= PeriodHours
      BY <1>3, <2>2 DEF Tiles
    <3>2. ASSUME NEW w \in Halves(s)
          PROVE  NewShard(s.series, w).from = w.from /\ NewShard(s.series, w).to = w.to
      BY DEF NewShard
    <3>3. PeriodHours \in Nat
      BY TablesAssumption
    <3>4. QED  BY <1>1, <2>3, <3>1, <3>2, <3>3
  <2> HIDE DEF new, old
  <2>6. \A v \in (old \ {s}) \cup new : 0 <= v.from /\ v.from < v.to /\ v.to <= PeriodHours
    BY <1>3, <2>5 DEF Tiles, old
  <2>7. ASSUME NEW hour \in 0..(PeriodHours - 1)
        PROVE  \E v \in (old \ {s}) \cup new : Holds(v, hour)
    BY <1>3, <2>2, <2>4 DEF Tiles, old
  <2>8. ASSUME NEW hour \in 0..(PeriodHours - 1),
               NEW u \in (old \ {s}) \cup new, NEW v \in (old \ {s}) \cup new,
               Holds(u, hour), Holds(v, hour)
        PROVE  u = v
    BY <1>3, <2>2, <2>4, <2>8 DEF Tiles, old
  <2>9. QED  BY <2>1, <2>6, <2>7, <2>8 DEF Tiles
<1>6. QED  BY <1>4, <1>5

-----------------------------------------------------------------------------
\* What a step can and cannot do to a report's row.

\* A row that was inserted does not return to unused, nor a deleted one to
\* the table; what it says of its delivery stays, and a configuration it
\* gave up does not come back.
\* A row that was in the table before the step is there after it.
StillThere(r) == report'[r].status \in Stored

RowLasts(r) ==
  /\ report'[r].status # "unused"
  /\ StillThere(r) => /\ Present(r)
                      /\ report'[r].delivery = report[r].delivery
                      /\ report'[r].config => report[r].config

LEMMA RowsLast ==
  ASSUME Safe, [Next]_vars, NEW r \in Reports, report[r].status # "unused"
  PROVE  RowLasts(r)
<1>0. /\ \A q \in Reports : report[q] \in Row
      /\ report \in [Reports -> Row]
      /\ r \notin FreeRows
      /\ LockInv
  BY DEF Safe, TypeOK, FreeRows
<1>1. CASE report'[r] = report[r]
  BY <1>1 DEF RowLasts, Present, StillThere
<1>2. ASSUME report'[r].status \in Stored, Present(r),
             report'[r].delivery = report[r].delivery,
             report'[r].config => report[r].config
      PROVE  RowLasts(r)
  BY <1>2 DEF RowLasts, Stored, Live
<1>3. ASSUME NEW c \in Clients, Requeue(c)
      PROVE  RowLasts(r)
  <2>1. CASE client[c].report = r
    <3>1. report'[r] = Requeued(report[r]) /\ Present(r)
      BY <1>0, <1>3, <2>1 DEF Requeue, MayRequeue
    <3>2. /\ report'[r].status \in Stored
          /\ report'[r].delivery = report[r].delivery
          /\ report'[r].config = report[r].config
      BY <1>0, <3>1 DEF Requeued, Row, Stored, Live
    <3>3. QED  BY <1>2, <3>1, <3>2
  <2>2. CASE client[c].report # r
    BY <1>0, <1>1, <1>3, <2>2 DEF Requeue
  <2>3. QED  BY <2>1, <2>2
<1>4. ASSUME NEW c \in Clients, NEW q \in Reports, NEW b \in BOOLEAN, InsertRun(c, q, b)
      PROVE  RowLasts(r)
  BY <1>0, <1>1, <1>4 DEF InsertRun, NextRow
<1>5. ASSUME NEW q \in Reports, NEW d \in BOOLEAN, NEW b \in BOOLEAN, EnqueueReport(q, d, b)
      PROVE  RowLasts(r)
  BY <1>0, <1>1, <1>5 DEF EnqueueReport, NextRow
<1>6. ASSUME NEW j \in Jobs, DeleteJob(j)
      PROVE  RowLasts(r)
  <2>1. CASE report'[r] = [Unused EXCEPT !.status = "deleted"]
    BY <2>1 DEF RowLasts, StillThere, Unused, Stored, Live
  <2>2. QED  BY <1>1, <1>6, <2>1 DEF DeleteJob
<1>7. ASSUME NEW w \in Workers, Begin(w)
      PROVE  RowLasts(r)
  <2>1. CASE At(w) = r
    <3>1. /\ report'[r].status = "running" /\ Present(r)
          /\ report'[r].delivery = report[r].delivery
          /\ report'[r].config = report[r].config
      BY <1>0, <1>7, <2>1 DEF Begin, Started, Row
    <3>2. QED  BY <1>2, <3>1 DEF Stored, Live
  <2>2. CASE At(w) # r
    BY <1>0, <1>1, <1>7, <2>2 DEF Begin
  <2>3. QED  BY <2>1, <2>2
<1>8. ASSUME NEW w \in Workers, Capture(w) \/ Render(w) \/ Finish(w)
      PROVE  RowLasts(r)
  <2>1. CASE At(w) = r
    <3>1. /\ report'[r].status \in {report[r].status, "succeeded"} /\ Present(r)
          /\ report'[r].delivery = report[r].delivery
          /\ report'[r].config => report[r].config
      BY <1>0, <1>8, <2>1 DEF Capture, Render, Finish, Row
    <3>2. QED  BY <1>2, <3>1 DEF Present, Stored
  <2>2. CASE At(w) # r
    BY <1>0, <1>1, <1>8, <2>2 DEF Capture, Render, Finish
  <2>3. QED  BY <2>1, <2>2
<1>9. ASSUME NEW w \in Workers, RecordFailure(w)
      PROVE  RowLasts(r)
  <2>1. CASE At(w) = r
    <3>1. /\ report'[r].status = "failed" /\ Present(r)
          /\ report'[r].delivery = report[r].delivery
          /\ report'[r].config = report[r].config
      BY <1>0, <1>9, <2>1 DEF RecordFailure, Failed, Row
    <3>2. QED  BY <1>2, <3>1 DEF Stored
  <2>2. CASE At(w) # r
    BY <1>0, <1>1, <1>9, <2>2 DEF RecordFailure
  <2>3. QED  BY <2>1, <2>2
<1>10. ASSUME NEW w \in Workers, Purge(w)
       PROVE  RowLasts(r)
  <2>1. CASE report'[r] = Expired(report[r]) /\ Present(r)
    <3>1. /\ report'[r].status = "expired" /\ ~report'[r].config
          /\ report'[r].delivery = report[r].delivery
      BY <1>0, <2>1 DEF Expired, Row
    <3>2. QED  BY <1>2, <2>1, <3>1 DEF Stored
  <2>2. QED  BY <1>1, <1>10, <2>1 DEF Purge
<1>11. ASSUME NEW q \in Reports, Elapse(q)
       PROVE  RowLasts(r)
  <2>1. CASE q = r
    <3>1. /\ report'[r].status = report[r].status
          /\ report'[r].delivery = report[r].delivery
          /\ report'[r].config = report[r].config
      BY <1>0, <1>11, <2>1 DEF Elapse, Row
    <3>2. QED  BY <3>1 DEF RowLasts, Present, StillThere
  <2>2. CASE q # r
    BY <1>0, <1>1, <1>11, <2>2 DEF Elapse
  <2>3. QED  BY <2>1, <2>2
<1>12. CASE UNCHANGED report
  BY <1>1, <1>12
<1>13. CASE Requesting
  BY <1>3, <1>4, <1>5, <1>6, <1>12, <1>13
     DEF Requesting, Retry, ManualRun, RunDue, RequeueRefused, FindFailedRun,
         CheckFailedReport, InsertRefused, tables
<1>14. ASSUME NEW w \in Workers, Work(w)
       PROVE  RowLasts(r)
  <2>1. ASSUME NEW s, Query(w, s) \/ Split(w, s)
        PROVE  RowLasts(r)
    BY <1>12, <2>1 DEF Query, Split
  <2>2. ASSUME NEW f \in Files, Send(w, f)
        PROVE  RowLasts(r)
    BY <1>12, <2>2 DEF Send, tables
  <2>3. CASE \/ Yield(w) \/ Start(w) \/ Plan(w) \/ Checkpoint(w) \/ Fail(w)
               \/ FailCheckpoint(w) \/ ReadFailure(w) \/ Refused(w)
    BY <1>12, <2>3 DEF Yield, Start, Plan, Checkpoint, Fail, FailCheckpoint,
                       ReadFailure, Refused, tables
  <2>4. ASSUME NEW q \in Reports, Claim(w, q)
        PROVE  RowLasts(r)
    BY <1>12, <2>4 DEF Claim, tables
  <2>5. QED
    BY <1>7, <1>8, <1>9, <1>10, <1>14, <2>1, <2>2, <2>3, <2>4 DEF Work
<1>15. ASSUME NEW w \in Workers, SelectExpired(w) \/ Crash(w) \/ LoseOuter(w) \/ LoseInner(w)
       PROVE  RowLasts(r)
  BY <1>12, <1>15 DEF SelectExpired, Crash, LoseOuter, LoseInner, tables
<1>16. QED
  BY <1>11, <1>12, <1>13, <1>14, <1>15 DEF Next, Working, vars, tables

\* What belongs to a report besides its row.
Kept(r) == /\ shards'[r] = shards[r]
           /\ outputs'[r] = outputs[r]
           /\ report'[r].config = report[r].config
           /\ report'[r].delivery = report[r].delivery

Counted(r) == accepted'[r] = accepted[r] /\ lost'[r] = lost[r]

\* What a second thread leaves alone that got to process the report because
\* the inner lock of the first was lost: shards and outputs do not go, what
\* is sent stays sent, and what was accepted stays accepted.
Advanced(r) ==
  /\ report'[r].delivery = report[r].delivery
  /\ shards'[r] = {} => shards[r] = {}
  /\ outputs[r] # NoOutputs => outputs'[r] # NoOutputs
  /\ \A f \in Files : outputs[r][f] = "sent" => outputs'[r][f] = "sent"

Grown(r) == \A f \in Files : accepted[r][f] > 0 => accepted'[r][f] > 0

LEMMA KeptIsAdvanced ==
  ASSUME NEW r
  PROVE  (Kept(r) => Advanced(r)) /\ (Counted(r) => Grown(r))
BY DEF Kept, Advanced, Counted, Grown

\* No worker undoes what a report has come to while another processes it; a
\* purge and a deletion ask for no lock, but they leave a mark.
LEMMA AdvancedByWorkers ==
  ASSUME Safe, NEW v \in Workers, NEW w \in Workers,
         worker[v].pc \in Processing,
         Work(w) \/ SelectExpired(w) \/ Crash(w) \/ LoseOuter(w) \/ LoseInner(w)
  PROVE  /\ Grown(At(v))
         /\ At(v) \notin overrun' /\ StillThere(At(v)) => Advanced(At(v))
<1> DEFINE r == At(v)
           Onward == Grown(r) /\ (r \notin overrun' /\ StillThere(r) => Advanced(r))
<1>0. /\ r \in Reports
      /\ report \in [Reports -> Row] /\ report[r] \in Row
      /\ shards \in [Reports -> SUBSET Shard]
      /\ outputs \in [Reports -> [Files -> FileStatus]]
      /\ accepted \in [Reports -> [Files -> Nat]]
      /\ Files # {}
      /\ worker[w].pc \in Owning => At(w) \in Reports
      /\ worker[w].pc = "accepted" => worker[w].file \in Files
  BY TablesAssumption DEF Safe, LockInv, Placed, Owning, TypeOK
<1>1. ASSUME report'[r].delivery = report[r].delivery,
             UNCHANGED <<shards, outputs, accepted>>
      PROVE  Onward
  BY <1>1 DEF Advanced, Grown
<1>2. CASE Begin(w) \/ Capture(w) \/ Finish(w) \/ RecordFailure(w)
  <2>1. report'[r].delivery = report[r].delivery
    <3>1. CASE Begin(w)
      BY <1>0, <3>1 DEF Begin, Started, Row
    <3>2. CASE Capture(w)
      BY <1>0, <3>2 DEF Capture, Row
    <3>3. CASE Finish(w)
      BY <1>0, <3>3 DEF Finish, Row
    <3>4. CASE RecordFailure(w)
      BY <1>0, <3>4 DEF RecordFailure, Failed, Row
    <3>5. QED  BY <1>2, <3>1, <3>2, <3>3, <3>4
  <2>2. QED
    BY <1>1, <1>2, <2>1 DEF Begin, Capture, Finish, RecordFailure, delivery
<1>3. CASE \/ Yield(w) \/ Start(w) \/ Fail(w) \/ FailCheckpoint(w) \/ ReadFailure(w)
           \/ Refused(w) \/ SelectExpired(w) \/ Crash(w) \/ LoseOuter(w) \/ LoseInner(w)
  BY <1>1, <1>3 DEF Yield, Start, Fail, FailCheckpoint, ReadFailure, Refused,
                    SelectExpired, Crash, LoseOuter, LoseInner, tables, delivery
<1>4. ASSUME NEW q \in Reports, Claim(w, q)
      PROVE  Onward
  BY <1>1, <1>4 DEF Claim, tables, delivery
<1>5. CASE Plan(w)
  <2>1. shards'[r] = {} => shards[r] = {}
    BY <1>0, <1>5 DEF Plan
  <2>2. QED  BY <1>5, <2>1 DEF Plan, Advanced, Grown, delivery
<1>6. ASSUME NEW s \in Pending(At(w)), Query(w, s) \/ Split(w, s)
      PROVE  Onward
  <2>1. shards'[r] = {} => shards[r] = {}
    BY <1>0, <1>6 DEF Query, Split, Answered, SplitUp
  <2>2. QED  BY <1>6, <2>1 DEF Query, Split, Advanced, Grown, delivery
<1>7. CASE Render(w)
  <2>1. report'[r].delivery = report[r].delivery
    <3>1. \E b : report' = [report EXCEPT ![At(w)].artifact = b]
      BY <1>7 DEF Render
    <3>2. QED  BY <1>0, <3>1 DEF Row
  <2>2. CASE outputs[r] = NoOutputs
    <3>1. \A f \in Files : outputs[r][f] # "sent"
      BY <2>2 DEF NoOutputs
    <3>2. At(w) # r => outputs'[r] = outputs[r]
      BY <1>0, <1>7 DEF Render
    <3>3. QED  BY <1>7, <2>1, <2>2, <3>1, <3>2 DEF Render, Advanced, Grown, delivery
  <2>3. CASE outputs[r] # NoOutputs
    <3>1. outputs'[r] = outputs[r]
      BY <1>0, <1>7, <2>3 DEF Render
    <3>2. QED  BY <1>7, <2>1, <2>3, <3>1 DEF Render, Advanced, Grown, delivery
  <2>4. QED  BY <2>2, <2>3
<1>8. CASE Checkpoint(w)
  <2>1. CASE At(w) = r
    <3>1. PICK f \in Files : f = worker[w].file
      BY <1>0, <1>8 DEF Checkpoint, Stands
    <3>2. /\ outputs'[r] = [outputs[r] EXCEPT ![f] = "sent"]
          /\ UNCHANGED <<report, shards, accepted>>
      BY <1>0, <1>8, <2>1, <3>1 DEF Checkpoint, delivery
    <3>3. outputs'[r] # NoOutputs
      BY <1>0, <3>2 DEF NoOutputs
    <3>4. QED  BY <1>0, <3>2, <3>3 DEF Advanced, Grown
  <2>2. CASE At(w) # r
    BY <1>0, <1>8, <2>2 DEF Checkpoint, delivery, Advanced, Grown
  <2>3. QED  BY <2>1, <2>2
<1>9. ASSUME NEW f \in Files, Send(w, f)
      PROVE  Onward
  <2>1. \A g \in Files : accepted[r][g] > 0 => accepted'[r][g] > 0
    BY <1>0, <1>9 DEF Send
  <2>2. QED  BY <1>9, <2>1 DEF Send, tables, Advanced, Grown
<1>10. CASE Purge(w)
  <2>1. CASE r \in worker[w].ids /\ Present(r)
    <3>1. r \in overrun'
      BY <1>0, <1>10, <2>1 DEF Purge, Processed
    <3>2. QED  BY <1>10, <3>1 DEF Purge, Grown, delivery
  <2>2. CASE ~(r \in worker[w].ids /\ Present(r))
    BY <1>0, <1>10, <2>2 DEF Purge, Advanced, Grown, delivery
  <2>3. QED  BY <2>1, <2>2
<1>11. QED
  BY <1>2, <1>3, <1>4, <1>5, <1>6, <1>7, <1>8, <1>9, <1>10 DEF Work

\* Its inner lock, as long as it is not lost, keeps every other worker away
\* from what a worker processes.
LEMMA FencedFromWorkers ==
  ASSUME Safe, NEW v \in Workers, NEW w \in Workers, v # w,
         worker[v].pc \in Processing, At(v) \notin unfenced,
         Work(w) \/ SelectExpired(w) \/ Crash(w) \/ LoseOuter(w) \/ LoseInner(w)
  PROVE  /\ Counted(At(v))
         /\ At(v) \notin overrun' /\ StillThere(At(v)) => Kept(At(v))
<1> DEFINE r == At(v)
           Alone == Counted(r) /\ (r \notin overrun' /\ StillThere(r) => Kept(r))
<1>0. /\ r \in Reports /\ inner[r] = v /\ v # NoWorker
      /\ worker[w].pc \in Processing => At(w) # r
      /\ report[r] \in Row
      /\ worker[w].pc \in Owning => At(w) \in Reports
  BY WorkerAssumption DEF Safe, LockInv, Placed, HoldsInner, Owning, TypeOK
<1>1. CASE Begin(w)
  <2>1. /\ report'[r].config = report[r].config
        /\ report'[r].delivery = report[r].delivery
    BY <1>0, <1>1 DEF Begin, Started, Safe, TypeOK, Row
  <2>2. QED  BY <1>1, <2>1 DEF Begin, Kept, Counted, delivery
<1>2. CASE \/ Yield(w) \/ Start(w) \/ Fail(w) \/ ReadFailure(w) \/ Refused(w)
           \/ SelectExpired(w) \/ LoseOuter(w) \/ LoseInner(w)
  BY <1>2 DEF Yield, Start, Fail, ReadFailure, Refused, SelectExpired, LoseOuter,
              LoseInner, Kept, Counted, tables, delivery
<1>10. ASSUME NEW q \in Reports, Claim(w, q)
       PROVE  Alone
  BY <1>10 DEF Claim, Kept, Counted, tables, delivery
<1>3. CASE Capture(w) \/ Plan(w) \/ Render(w) \/ Checkpoint(w) \/ Finish(w)
  <2>1. At(w) # r
    BY <1>0, <1>3 DEF Capture, Plan, Render, Checkpoint, Finish, Stands, Processing
  <2>2. QED
    BY <1>0, <1>3, <2>1
       DEF Capture, Plan, Render, Checkpoint, Finish, Kept, Counted, delivery,
           Safe, TypeOK
<1>4. ASSUME NEW s, Query(w, s) \/ Split(w, s)
      PROVE  Alone
  <2>1. At(w) # r
    BY <1>0, <1>4 DEF Query, Split, Stands, Processing
  <2>2. QED
    BY <1>0, <1>4, <2>1 DEF Query, Split, Kept, Counted, delivery, Safe, TypeOK
<1>5. ASSUME NEW f \in Files, Send(w, f)
      PROVE  Alone
  <2>1. At(w) # r
    BY <1>0, <1>5 DEF Send, Stands, Processing
  <2>2. QED
    BY <1>0, <1>5, <2>1 DEF Send, Kept, Counted, tables, Safe, TypeOK
<1>6. CASE FailCheckpoint(w) \/ Crash(w)
  <2>1. Stands(w, "accepted") => At(w) # r
    BY <1>0 DEF Stands, Processing
  <2>2. QED
    BY <1>0, <1>6, <2>1 DEF FailCheckpoint, Crash, Kept, Counted, tables, Safe, TypeOK
<1>7. CASE RecordFailure(w)
  <2>1. /\ report'[r].config = report[r].config
        /\ report'[r].delivery = report[r].delivery
    BY <1>0, <1>7 DEF RecordFailure, Failed, Safe, TypeOK, Row
  <2>2. QED  BY <1>7, <2>1 DEF RecordFailure, Kept, Counted, delivery
<1>8. CASE Purge(w)
  <2>1. CASE r \in worker[w].ids /\ Present(r)
    BY <1>0, <1>8, <2>1 DEF Purge, Processed, Counted, delivery
  <2>2. CASE ~(r \in worker[w].ids /\ Present(r))
    BY <1>0, <1>8, <2>2 DEF Purge, Kept, Counted, delivery
  <2>3. QED  BY <2>1, <2>2
<1>9. QED
  BY <1>1, <1>2, <1>3, <1>4, <1>5, <1>6, <1>7, <1>8, <1>10 DEF Work

LEMMA UndisturbedByRequests ==
  ASSUME Safe, NEW r \in Reports, report[r].status # "unused",
         \/ Requesting /\ UNCHANGED <<workers, delivery, faults, overrun, unfenced>>
         \/ \E q \in Reports : Elapse(q)
  PROVE  /\ Counted(r)
         /\ StillThere(r) => Kept(r)
<1> DEFINE Alone == Counted(r) /\ (StillThere(r) => Kept(r))
<1>0. report[r] \in Row /\ report \in [Reports -> Row] /\ r \notin FreeRows
  BY DEF Safe, TypeOK, FreeRows
<1>1. ASSUME UNCHANGED delivery, UNCHANGED tables
      PROVE  Alone
  BY <1>1 DEF tables, delivery, Kept, Counted
<1>2. ASSUME UNCHANGED delivery, NEW c \in Clients, Requeue(c)
      PROVE  Alone
  <2>1. /\ report'[r].config = report[r].config
        /\ report'[r].delivery = report[r].delivery
    BY <1>0, <1>2 DEF Requeue, Requeued, Row
  <2>2. QED  BY <1>2, <2>1 DEF Requeue, Kept, Counted, delivery
<1>3. ASSUME UNCHANGED delivery, NEW c \in Clients, NEW q \in Reports,
             NEW b \in BOOLEAN, InsertRun(c, q, b)
      PROVE  Alone
  BY <1>0, <1>3 DEF InsertRun, NextRow, Kept, Counted, delivery
<1>4. ASSUME UNCHANGED delivery, NEW q \in Reports, NEW d \in BOOLEAN,
             NEW b \in BOOLEAN, EnqueueReport(q, d, b)
      PROVE  Alone
  BY <1>0, <1>4 DEF EnqueueReport, NextRow, Kept, Counted, delivery
<1>5. ASSUME UNCHANGED delivery, NEW j \in Jobs, DeleteJob(j)
      PROVE  Alone
  <2>1. CASE report[r].job = j
    <3>1. ~StillThere(r)
      BY <1>5, <2>1 DEF DeleteJob, StillThere, Unused, Stored, Live
    <3>2. QED  BY <1>5, <3>1 DEF Counted, delivery
  <2>2. CASE report[r].job # j
    BY <1>5, <2>2 DEF DeleteJob, Kept, Counted, delivery
  <2>3. QED  BY <2>1, <2>2
<1>6. ASSUME NEW q \in Reports, Elapse(q)
      PROVE  Alone
  <2>1. /\ report'[r].config = report[r].config
        /\ report'[r].delivery = report[r].delivery
    BY <1>0, <1>6 DEF Elapse, Row
  <2>2. QED  BY <1>6, <2>1 DEF Elapse, Kept, Counted, delivery
<1>7. QED
  BY <1>1, <1>2, <1>3, <1>4, <1>5, <1>6
     DEF Requesting, Retry, ManualRun, RunDue, RequeueRefused, FindFailedRun,
         CheckFailedReport, InsertRefused

-----------------------------------------------------------------------------
\* Content.

\* A worker owns a report that was inserted.
Known(w) == worker[w].pc \in Owning => report[At(w)].status # "unused"

\* Nothing is left of a report that is not in the table, and nothing was
\* sent of one that never was.
Fresh(r) ==
  /\ report[r].status = "unused" => \A f \in Files : accepted[r][f] = 0
  /\ ~Present(r) => outputs[r] = NoOutputs /\ ~report[r].config

ShardsTile(r) == shards[r] # {} => TilesPeriod(Unsplit(shards[r]))

ContentTiles(r) ==
  r \notin overrun /\ outputs[r] # NoOutputs => TilesPeriod(rendered[r])

\* Whoever queries has planned.
QueryTiles(w) ==
  /\ worker[w].pc = "query"
  /\ At(w) \notin overrun
  /\ Present(At(w))
  => TilesPeriod(Unsplit(shards[At(w)]))

ContentInv ==
  /\ \A w \in Workers : Known(w) /\ QueryTiles(w)
  /\ \A r \in Reports : Fresh(r) /\ ShardsTile(r) /\ ContentTiles(r)

\* A worker comes to own a report by claiming it and in no other way.
LEMMA OwnedByClaim ==
  ASSUME TypeOK, NEW w \in Workers,
         Work(w) \/ SelectExpired(w) \/ Crash(w) \/ LoseOuter(w) \/ LoseInner(w),
         worker'[w].pc \in Owning
  PROVE  \/ worker[w].pc \in Owning /\ At(w)' = At(w)
         \/ \E r \in Reports : Claim(w, r) /\ At(w)' = r
<1> DEFINE Goal == \/ worker[w].pc \in Owning /\ At(w)' = At(w)
                   \/ \E r \in Reports : Claim(w, r) /\ At(w)' = r
<1>0. worker \in [Workers -> WorkerState] /\ worker[w] \in WorkerState
  BY DEF TypeOK
<1>1. ASSUME NEW r \in Reports, Claim(w, r)
      PROVE  Goal
  <2>1. At(w)' = r
    BY <1>0, <1>1 DEF Claim, At, WorkerState
  <2>2. QED  BY <1>1, <2>1
<1>2. CASE \/ Yield(w) \/ RecordFailure(w) \/ Refused(w)
           \/ Purge(w) \/ Crash(w)
  <2>1. worker'[w].pc = "idle"
    BY <1>0, <1>2 DEF Yield, RecordFailure, Refused, Purge, Crash, Rests, IdleWorker
  <2>2. QED  BY <2>1 DEF Owning, Processing
<1>11. CASE Finish(w)
  <2>1. \/ worker'[w].pc = "idle"
        \/ worker[w].pc = "deliver" /\ At(w)' = At(w)
    BY <1>0, <1>11 DEF Finish, Moves, Rests, IdleWorker, Stands, At, WorkerState
  <2>2. QED  BY <2>1 DEF Owning, Processing
<1>3. CASE SelectExpired(w)
  <2>1. worker'[w].pc = "purge"
    BY <1>0, <1>3 DEF SelectExpired, WorkerState
  <2>2. QED  BY <2>1 DEF Owning, Processing
<1>4. CASE Begin(w) \/ Start(w) \/ Capture(w) \/ Plan(w) \/ Render(w)
  BY <1>0, <1>4 DEF Begin, Start, Capture, Plan, Render, Moves, Stands, At, Owning,
                    Processing, WorkerState
<1>10. CASE ReadFailure(w)
  <2>1. \/ worker'[w].pc = "idle"
        \/ worker[w].pc = "failing" /\ At(w)' = At(w)
    BY <1>0, <1>10 DEF ReadFailure, Moves, Rests, IdleWorker, Stands, At, WorkerState
  <2>2. QED  BY <2>1 DEF Owning, Processing
<1>5. CASE Checkpoint(w) \/ Fail(w) \/ FailCheckpoint(w)
  BY <1>0, <1>5 DEF Checkpoint, Fail, FailCheckpoint, Moves, Stands, At, Owning,
                    Processing, WorkerState
<1>6. ASSUME NEW f \in Files, Send(w, f)
      PROVE  Goal
  BY <1>0, <1>6 DEF Send, Stands, At, Owning, Processing, WorkerState
<1>7. ASSUME NEW s, Query(w, s) \/ Split(w, s)
      PROVE  Goal
  BY <1>7 DEF Query, Split, workers, At
<1>8. CASE LoseOuter(w) \/ LoseInner(w)
  BY <1>8 DEF LoseOuter, LoseInner, At, Owning
<1>9. QED
  BY <1>1, <1>2, <1>3, <1>4, <1>5, <1>6, <1>7, <1>8, <1>10, <1>11 DEF Work

LEMMA KnownStep ==
  ASSUME Safe, Safe', ContentInv, [Next]_vars, NEW v \in Workers
  PROVE  Known(v)'
<1>0. worker[v].pc \in Owning => At(v) \in Reports
  BY DEF Safe, LockInv, Placed, Owning
<1>1. ASSUME worker[v].pc \in Owning, At(v)' = At(v)
      PROVE  Known(v)'
  <2>1. RowLasts(At(v))
    BY <1>0, <1>1, RowsLast DEF ContentInv, Known
  <2>2. QED  BY <1>1, <2>1 DEF Known, RowLasts
<1>2. CASE worker'[v] = worker[v]
  BY <1>1, <1>2 DEF Known, At
<1>3. ASSUME NEW w \in Workers, Work(w) \/ SelectExpired(w) \/ Crash(w) \/ LoseOuter(w) \/ LoseInner(w)
      PROVE  Known(v)'
  <2>1. CASE v # w
    BY <1>2, <1>3, <2>1, OthersStay DEF Safe
  <2>2. CASE v = w /\ worker'[v].pc \in Owning
    <3>1. ASSUME NEW r \in Reports, Claim(w, r), At(w)' = r
          PROVE  Known(v)'
      <4>1. report'[r].status \in Live
        BY <3>1 DEF Claim, Workable, tables
      <4>2. QED  BY <2>2, <3>1, <4>1 DEF Known, Live
    <3>2. QED  BY <1>1, <1>3, <2>2, <3>1, OwnedByClaim DEF Safe
  <2>3. CASE worker'[v].pc \notin Owning
    BY <2>3 DEF Known
  <2>4. QED  BY <2>1, <2>2, <2>3
<1>4. CASE UNCHANGED worker
  BY <1>2, <1>4
<1>5. QED
  BY <1>3, <1>4 DEF Next, Working, Elapse, vars, workers

LEMMA FreshStep ==
  ASSUME Safe, ContentInv, [Next]_vars, NEW r \in Reports
  PROVE  Fresh(r)'
<1>0. /\ report \in [Reports -> Row] /\ report[r] \in Row
      /\ outputs \in [Reports -> [Files -> FileStatus]]
      /\ accepted \in [Reports -> [Files -> Nat]]
      /\ Fresh(r)
  BY DEF Safe, TypeOK, ContentInv
<1>1. ASSUME report'[r].status \in Stored, report'[r].status # "unused"
      PROVE  Fresh(r)'
  BY <1>1 DEF Fresh, Present
<1>2. ASSUME report'[r] = report[r],
             outputs'[r] = outputs[r] \/ Present(r),
             accepted'[r] = accepted[r] \/ report[r].status # "unused"
      PROVE  Fresh(r)'
  BY <1>0, <1>2 DEF Fresh, Present
<1>3. ASSUME NEW c \in Clients, Requeue(c), UNCHANGED delivery
      PROVE  Fresh(r)'
  <2>1. CASE client[c].report = r
    <3>1. report'[r].status = "queued"
      BY <1>0, <1>3, <2>1 DEF Requeue, Requeued, Row
    <3>2. QED  BY <1>1, <3>1 DEF Stored, Live
  <2>2. CASE client[c].report # r
    BY <1>0, <1>2, <1>3, <2>2 DEF Requeue, delivery
  <2>3. QED  BY <2>1, <2>2
<1>4. ASSUME NEW q \in Reports, NEW j, NEW d \in BOOLEAN, NEW b \in BOOLEAN,
             report' = [report EXCEPT ![q] = NewRow(j, d, b)],
             UNCHANGED <<outputs, delivery>>
      PROVE  Fresh(r)'
  <2>1. CASE q = r
    <3>1. report'[r].status \in {"queued", "succeeded"}
      BY <1>0, <1>4, <2>1 DEF NewRow, Unused
    <3>2. QED  BY <1>1, <3>1 DEF Stored, Live
  <2>2. CASE q # r
    BY <1>0, <1>2, <1>4, <2>2 DEF delivery
  <2>3. QED  BY <2>1, <2>2
<1>5. ASSUME NEW j \in Jobs, DeleteJob(j), UNCHANGED delivery
      PROVE  Fresh(r)'
  <2>1. CASE report[r].job = j
    BY <1>5, <2>1 DEF DeleteJob, Fresh, Unused
  <2>2. CASE report[r].job # j
    BY <1>2, <1>5, <2>2 DEF DeleteJob, delivery
  <2>3. QED  BY <2>1, <2>2
<1>6. ASSUME NEW w \in Workers, Begin(w)
      PROVE  Fresh(r)'
  <2>1. CASE At(w) = r
    <3>1. report'[r].status = "running"
      BY <1>0, <1>6, <2>1 DEF Begin, Started, Row
    <3>2. QED  BY <1>1, <3>1 DEF Stored, Live
  <2>2. CASE At(w) # r
    BY <1>0, <1>2, <1>6, <2>2 DEF Begin, delivery
  <2>3. QED  BY <2>1, <2>2
<1>7. ASSUME NEW w \in Workers, Capture(w) \/ Render(w) \/ Finish(w)
      PROVE  Fresh(r)'
  <2>1. CASE At(w) = r
    <3>1. report'[r].status \in {report[r].status, "succeeded"} /\ Present(r)
      BY <1>0, <1>7, <2>1 DEF Capture, Render, Finish, Row
    <3>2. QED  BY <1>1, <3>1 DEF Present, Stored, Live
  <2>2. CASE At(w) # r
    BY <1>0, <1>2, <1>7, <2>2 DEF Capture, Render, Finish, delivery
  <2>3. QED  BY <2>1, <2>2
<1>8. ASSUME NEW w \in Workers, Checkpoint(w)
      PROVE  Fresh(r)'
  <2>1. CASE At(w) = r
    <3>1. worker[w].file \in Files /\ outputs[r][worker[w].file] # "none"
      BY <1>8, <2>1 DEF Checkpoint, Stands, Safe, LockInv, Placed
    <3>2. Present(r)
      BY <1>0, <3>1 DEF Fresh, NoOutputs
    <3>3. QED  BY <1>2, <1>8, <3>2 DEF Checkpoint, delivery
  <2>2. CASE At(w) # r
    BY <1>0, <1>2, <1>8, <2>2 DEF Checkpoint, delivery
  <2>3. QED  BY <2>1, <2>2
<1>9. ASSUME NEW w \in Workers, NEW f \in Files, Send(w, f)
      PROVE  Fresh(r)'
  <2>1. CASE At(w) = r
    <3>1. report[r].status # "unused"
      BY <1>9, <2>1 DEF Send, Stands, ContentInv, Known, Owning, Processing
    <3>2. QED  BY <1>2, <1>9, <3>1 DEF Send, tables
  <2>2. CASE At(w) # r
    BY <1>0, <1>2, <1>9, <2>2 DEF Send, tables
  <2>3. QED  BY <2>1, <2>2
<1>10. ASSUME NEW w \in Workers, RecordFailure(w)
       PROVE  Fresh(r)'
  <2>1. CASE At(w) = r
    <3>1. report'[r].status = "failed"
      BY <1>0, <1>10, <2>1 DEF RecordFailure, Failed, Row
    <3>2. QED  BY <1>1, <3>1 DEF Stored
  <2>2. CASE At(w) # r
    BY <1>0, <1>2, <1>10, <2>2 DEF RecordFailure, delivery
  <2>3. QED  BY <2>1, <2>2
<1>11. ASSUME NEW w \in Workers, Purge(w)
       PROVE  Fresh(r)'
  <2>1. CASE report'[r] = Expired(report[r])
    <3>1. report'[r].status = "expired"
      BY <1>0, <2>1 DEF Expired, Row
    <3>2. QED  BY <1>1, <3>1 DEF Stored
  <2>2. CASE ~(r \in worker[w].ids /\ Present(r))
    BY <1>2, <1>11, <2>2 DEF Purge, delivery
  <2>3. QED  BY <1>11, <2>1, <2>2 DEF Purge
<1>12. ASSUME NEW q \in Reports, Elapse(q)
       PROVE  Fresh(r)'
  <2>1. /\ report'[r].status = report[r].status
        /\ report'[r].config = report[r].config
    BY <1>0, <1>12 DEF Elapse, Row
  <2>2. QED  BY <1>0, <1>12, <2>1 DEF Elapse, Fresh, Present, delivery
<1>13. CASE UNCHANGED <<report, outputs, accepted>>
  BY <1>2, <1>13
<1>14. ASSUME Requesting, UNCHANGED delivery
       PROVE  Fresh(r)'
  <2>1. ASSUME NEW c \in Clients, NEW q \in Reports, NEW b \in BOOLEAN, InsertRun(c, q, b)
        PROVE  Fresh(r)'
    BY <1>4, <1>14, <2>1 DEF InsertRun
  <2>2. ASSUME NEW q \in Reports, NEW d \in BOOLEAN, NEW b \in BOOLEAN, EnqueueReport(q, d, b)
        PROVE  Fresh(r)'
    BY <1>4, <1>14, <2>2 DEF EnqueueReport
  <2>3. QED
    BY <1>3, <1>5, <1>13, <1>14, <2>1, <2>2
       DEF Requesting, Retry, ManualRun, RunDue, RequeueRefused, FindFailedRun,
           CheckFailedReport, InsertRefused, tables, delivery
<1>15. ASSUME NEW w \in Workers, Work(w)
       PROVE  Fresh(r)'
  <2>1. ASSUME NEW s, Query(w, s) \/ Split(w, s)
        PROVE  Fresh(r)'
    BY <1>13, <2>1 DEF Query, Split, delivery
  <2>2. CASE \/ Yield(w) \/ Start(w) \/ Plan(w) \/ Fail(w) \/ FailCheckpoint(w)
               \/ ReadFailure(w) \/ Refused(w)
    BY <1>13, <2>2 DEF Yield, Start, Plan, Fail, FailCheckpoint, ReadFailure,
                       Refused, tables, delivery
  <2>3. ASSUME NEW q \in Reports, Claim(w, q)
        PROVE  Fresh(r)'
    BY <1>13, <2>3 DEF Claim, tables, delivery
  <2>4. QED
    BY <1>6, <1>7, <1>8, <1>9, <1>10, <1>11, <1>15, <2>1, <2>2, <2>3 DEF Work
<1>16. ASSUME NEW w \in Workers, SelectExpired(w) \/ Crash(w) \/ LoseOuter(w) \/ LoseInner(w)
       PROVE  Fresh(r)'
  BY <1>13, <1>16 DEF SelectExpired, Crash, LoseOuter, LoseInner, tables, delivery
<1>17. QED
  BY <1>12, <1>13, <1>14, <1>15, <1>16 DEF Next, Working, vars, tables, delivery

LEMMA ShardsStep ==
  ASSUME Safe, ContentInv, [Next]_vars, NEW r \in Reports
  PROVE  ShardsTile(r)'
<1>0. /\ shards \in [Reports -> SUBSET Shard] /\ ShardsTile(r) /\ LockInv
  BY DEF Safe, TypeOK, ContentInv
<1>1. CASE shards'[r] = shards[r] \/ shards'[r] = {}
  BY <1>0, <1>1 DEF ShardsTile
<1>2. ASSUME NEW j \in Jobs, DeleteJob(j)
      PROVE  ShardsTile(r)'
  BY <1>1, <1>2 DEF DeleteJob
<1>3. ASSUME NEW w \in Workers, Plan(w)
      PROVE  ShardsTile(r)'
  <2>1. \/ shards'[r] = shards[r]
        \/ shards'[r] = InitialShards
    BY <1>0, <1>3 DEF Plan
  <2>2. QED  BY <1>1, <2>1, InitialShardsTile DEF ShardsTile
<1>4. ASSUME NEW w \in Workers, NEW s \in Pending(At(w)), Stands(w, "query"),
             Query(w, s) \/ Split(w, s)
      PROVE  ShardsTile(r)'
  <2>1. CASE At(w) = r
    <3>1. s \in shards[r] /\ s.status = "pending" /\ shards[r] \in SUBSET Shard
            /\ TilesPeriod(Unsplit(shards[r]))
      BY <1>0, <1>4, <2>1 DEF Pending, ShardsTile
    <3>2. CASE Query(w, s)
      <4>1. shards'[r] = Answered(shards[r], s)
        BY <1>0, <2>1, <3>2 DEF Query
      <4>2. QED  BY <3>1, <4>1, AnsweredTiles DEF ShardsTile
    <3>3. CASE Split(w, s)
      <4>1. shards'[r] = SplitUp(shards[r], s) /\ Splittable(s)
        BY <1>0, <2>1, <3>3 DEF Split
      <4>2. QED  BY <3>1, <4>1, SplitUpTiles DEF ShardsTile
    <3>4. QED  BY <1>4, <3>2, <3>3
  <2>2. CASE At(w) # r
    BY <1>0, <1>1, <1>4, <2>2 DEF Query, Split
  <2>3. QED  BY <2>1, <2>2
<1>5. ASSUME NEW w \in Workers, Purge(w)
      PROVE  ShardsTile(r)'
  BY <1>1, <1>5 DEF Purge
<1>6. CASE UNCHANGED shards
  BY <1>1, <1>6
<1>7. CASE Requesting
  BY <1>2, <1>6, <1>7
     DEF Requesting, Retry, ManualRun, RunDue, Requeue, RequeueRefused, FindFailedRun,
         CheckFailedReport, InsertRun, InsertRefused, EnqueueReport, tables
<1>8. ASSUME NEW w \in Workers, Work(w)
      PROVE  ShardsTile(r)'
  <2>1. ASSUME NEW q \in Reports, Claim(w, q)
        PROVE  ShardsTile(r)'
    BY <1>6, <2>1 DEF Claim, tables
  <2>2. CASE Yield(w) \/ Start(w) \/ Capture(w) \/ Render(w) \/ Checkpoint(w) \/ Finish(w)
    BY <1>6, <2>2 DEF Yield, Start, Capture, Render, Checkpoint, Finish, tables
  <2>3. CASE \/ Begin(w) \/ Fail(w) \/ FailCheckpoint(w)
               \/ ReadFailure(w) \/ RecordFailure(w) \/ Refused(w)
    BY <1>6, <2>3 DEF Begin, Fail, FailCheckpoint, ReadFailure, RecordFailure,
                      Refused, tables
  <2>4. ASSUME NEW f \in Files, Send(w, f)
        PROVE  ShardsTile(r)'
    BY <1>6, <2>4 DEF Send, tables
  <2>5. QED
    BY <1>3, <1>4, <1>5, <1>8, <2>1, <2>2, <2>3, <2>4 DEF Work
<1>9. ASSUME NEW w \in Workers, SelectExpired(w) \/ Crash(w) \/ LoseOuter(w) \/ LoseInner(w)
      PROVE  ShardsTile(r)'
  BY <1>6, <1>9 DEF SelectExpired, Crash, LoseOuter, LoseInner, tables
<1>10. ASSUME NEW q \in Reports, Elapse(q)
       PROVE  ShardsTile(r)'
  BY <1>6, <1>10 DEF Elapse
<1>11. QED
  BY <1>6, <1>7, <1>8, <1>9, <1>10 DEF Next, Working, vars, tables

LEMMA OverrunGrows ==
  ASSUME [Next]_vars
  PROVE  overrun \subseteq overrun'
<1>1. ASSUME NEW w \in Workers, Work(w)
      PROVE  overrun \subseteq overrun'
  BY <1>1 DEF Work, Claim, Begin, Yield, Start, Capture, Plan, Query, Split, Render,
              Send, Checkpoint, Finish, Fail, FailCheckpoint, ReadFailure,
              RecordFailure, Refused, Purge
<1>2. ASSUME NEW w \in Workers, SelectExpired(w) \/ Crash(w) \/ LoseOuter(w) \/ LoseInner(w)
      PROVE  overrun \subseteq overrun'
  BY <1>2 DEF SelectExpired, Crash, LoseOuter, LoseInner
<1>3. QED
  BY <1>1, <1>2 DEF Next, Working, Elapse, vars

\* A step of worker w.
Steps(w) == Work(w) \/ SelectExpired(w) \/ Crash(w) \/ LoseOuter(w) \/ LoseInner(w)

\* What a processing worker may rely on between two steps of its own, and
\* what more while its report's inner lock has not been lost.
LEMMA Undisturbed ==
  ASSUME Safe, ContentInv, [Next]_vars, NEW v \in Workers,
         worker[v].pc \in Processing, ~Steps(v)
  PROVE  /\ worker'[v] = worker[v] /\ At(v)' = At(v)
         /\ Grown(At(v))
         /\ At(v) \notin overrun' /\ StillThere(At(v))
              => Advanced(At(v)) /\ At(v) \notin overrun /\ Present(At(v))
         /\ At(v) \notin unfenced =>
              /\ Counted(At(v))
              /\ At(v) \notin overrun' /\ StillThere(At(v)) => Kept(At(v))
<1>1. At(v) \in Reports /\ report[At(v)].status # "unused"
  BY DEF Safe, LockInv, Placed, ContentInv, Known, Owning
<1>2. RowLasts(At(v))
  BY <1>1, RowsLast
<1>3. \/ Requesting /\ UNCHANGED <<workers, delivery, faults, overrun, unfenced>>
      \/ \E q \in Reports : Elapse(q)
      \/ \E w \in Workers \ {v} : Steps(w)
      \/ UNCHANGED vars
  BY DEF Next, Working, Steps
<1>4. worker'[v] = worker[v]
  BY <1>3, OthersStay DEF Steps, Safe, Elapse, workers, vars
<1> DEFINE Left == \/ UNCHANGED vars
                   \/ Requesting /\ UNCHANGED <<workers, delivery, faults, overrun, unfenced>>
                   \/ \E q \in Reports : Elapse(q)
<1>5. CASE Left
  <2>1. Counted(At(v)) /\ (StillThere(At(v)) => Kept(At(v)))
    <3>1. CASE UNCHANGED vars
      BY <3>1 DEF vars, tables, delivery, Kept, Counted
    <3>2. CASE ~UNCHANGED vars
      BY <1>1, <1>5, <3>2, UndisturbedByRequests
    <3>3. QED  BY <3>1, <3>2
  <2>2. QED
    BY <1>2, <1>4, <2>1, OverrunGrows, KeptIsAdvanced DEF RowLasts, At
<1>6. ASSUME NEW w \in Workers, v # w, Steps(w)
      PROVE  /\ Grown(At(v))
             /\ At(v) \notin overrun' /\ StillThere(At(v)) => Advanced(At(v))
             /\ At(v) \notin unfenced =>
                  /\ Counted(At(v))
                  /\ At(v) \notin overrun' /\ StillThere(At(v)) => Kept(At(v))
  <2>1. Work(w) \/ SelectExpired(w) \/ Crash(w) \/ LoseOuter(w) \/ LoseInner(w)
    BY <1>6 DEF Steps
  <2>2. /\ Grown(At(v))
        /\ At(v) \notin overrun' /\ StillThere(At(v)) => Advanced(At(v))
    BY <2>1, AdvancedByWorkers
  <2>3. ASSUME At(v) \notin unfenced
        PROVE  /\ Counted(At(v))
               /\ At(v) \notin overrun' /\ StillThere(At(v)) => Kept(At(v))
    BY <1>6, <2>1, <2>3, FencedFromWorkers
  <2>4. QED  BY <2>2, <2>3
<1>7. CASE ~Left
  <2>1. PICK w \in Workers : v # w /\ Steps(w)
    BY <1>3, <1>7
  <2>2. QED
    BY <1>2, <1>4, <1>6, <2>1, OverrunGrows DEF RowLasts, At
<1>8. QED  BY <1>5, <1>7

LEMMA QueryStep ==
  ASSUME Safe, Safe', ContentInv, [Next]_vars, NEW v \in Workers,
         \A r \in Reports : ShardsTile(r)'
  PROVE  QueryTiles(v)'
<1> SUFFICES ASSUME worker'[v].pc = "query", At(v)' \notin overrun', Present(At(v))'
             PROVE  TilesPeriod(Unsplit(shards'[At(v)']))
  BY DEF QueryTiles
<1>0. /\ worker \in [Workers -> WorkerState] /\ worker[v] \in WorkerState
      /\ shards \in [Reports -> SUBSET Shard]
      /\ worker[v].pc \in Owning => At(v) \in Reports
      /\ QueryTiles(v)
  BY DEF Safe, TypeOK, LockInv, Placed, ContentInv
<1>1. CASE ~Steps(v)
  <2>1. worker'[v] = worker[v]
    BY <1>1, OthersStay DEF Next, Working, Steps, Elapse, vars, workers, Safe
  <2>2. worker[v].pc = "query"
    BY <2>1
  <2>3. /\ At(v)' = At(v) /\ At(v) \in Reports
        /\ Advanced(At(v)) /\ At(v) \notin overrun /\ Present(At(v))
    BY <1>0, <1>1, <2>2, Undisturbed DEF Processing, Owning, Present, StillThere
  <2>4. CASE shards'[At(v)] = {}
    BY <1>0, <2>2, <2>3, <2>4 DEF Advanced, QueryTiles
  <2>5. CASE shards'[At(v)] # {}
    BY <2>3, <2>5 DEF ShardsTile
  <2>6. QED  BY <2>4, <2>5
<1>2. CASE Plan(v)
  <2>2. At(v)' = At(v) /\ At(v) \in Reports
    BY <1>0, <1>2 DEF Plan, Moves, Stands, Owning, Processing, At, WorkerState
  <2>3. shards'[At(v)] = IF shards[At(v)] = {} THEN InitialShards ELSE shards[At(v)]
    BY <1>0, <1>2, <2>2 DEF Plan
  <2>4. ShardsTile(At(v))
    BY <2>2 DEF ContentInv
  <2>5. QED  BY <2>2, <2>3, <2>4, InitialShardsTile DEF ShardsTile
<1>3. ASSUME NEW s \in Pending(At(v)), Stands(v, "query"), Query(v, s) \/ Split(v, s)
      PROVE  TilesPeriod(Unsplit(shards'[At(v)']))
  <2>1. At(v)' = At(v) /\ At(v) \in Reports
    BY <1>0, <1>3 DEF Query, Split, workers, Stands, Owning, Processing, At
  <2>2. shards'[At(v)] # {}
    BY <1>0, <1>3, <2>1 DEF Query, Split, Answered, SplitUp
  <2>3. QED  BY <2>1, <2>2 DEF ShardsTile
<1>4. ASSUME NEW r \in Reports, Claim(v, r)
      PROVE  FALSE
  <2>1. worker'[v].pc \in {"claiming", "claimed"}
    BY <1>0, <1>4 DEF Claim, WorkerState
  <2>2. QED  BY <2>1
<1>5. CASE \/ Yield(v) \/ Finish(v) \/ ReadFailure(v) \/ RecordFailure(v)
           \/ Refused(v) \/ Purge(v) \/ Crash(v)
  <2>1. worker'[v].pc \in {"idle", "recording", "failing"}
    BY <1>0, <1>5 DEF Yield, Finish, ReadFailure, RecordFailure, Refused, Purge,
                      Crash, Moves, Rests, IdleWorker, WorkerState
  <2>2. QED  BY <2>1
<1>6. CASE Begin(v) \/ Start(v) \/ Capture(v) \/ SelectExpired(v)
  <2>1. worker'[v].pc \in {"claimed", "plan", "capture", "failing", "purge"}
    BY <1>0, <1>6 DEF Begin, Start, FirstStep, Capture, SelectExpired, Moves,
                      WorkerState
  <2>2. QED  BY <2>1
<1>7. CASE Render(v) \/ Checkpoint(v) \/ Fail(v) \/ FailCheckpoint(v)
  <2>1. worker'[v].pc \in {"failing", "deliver"}
    BY <1>0, <1>7 DEF Render, Checkpoint, Fail, FailCheckpoint, Moves, WorkerState
  <2>2. QED  BY <2>1
<1>8. ASSUME NEW f \in Files, Send(v, f)
      PROVE  FALSE
  <2>1. worker'[v].pc = "accepted"
    BY <1>0, <1>8 DEF Send, WorkerState
  <2>2. QED  BY <2>1
<1>9. CASE LoseOuter(v) \/ LoseInner(v)
  BY <1>0, <1>9 DEF LoseOuter, LoseInner, tables, QueryTiles, Present, At
<1>10. QED
  BY <1>1, <1>2, <1>3, <1>4, <1>5, <1>6, <1>7, <1>8, <1>9 DEF Steps, Work

\* With no shard pending, what was answered is everything that is not split.
LEMMA NothingPending ==
  ASSUME NEW set \in SUBSET Shard, {s \in set : s.status = "pending"} = {}
  PROVE  {s \in set : s.status = "success"} = Unsplit(set)
BY DEF Unsplit, Shard

LEMMA ContentStep ==
  ASSUME Safe, ContentInv, [Next]_vars, NEW r \in Reports
  PROVE  ContentTiles(r)'
<1>0. /\ outputs \in [Reports -> [Files -> FileStatus]]
      /\ rendered \in [Reports -> SUBSET Shard]
      /\ shards \in [Reports -> SUBSET Shard]
      /\ ContentTiles(r)
      /\ overrun \subseteq overrun'
  BY OverrunGrows DEF Safe, TypeOK, ContentInv
<1>1. CASE outputs'[r] = outputs[r] /\ rendered'[r] = rendered[r]
  BY <1>0, <1>1 DEF ContentTiles
<1>2. CASE outputs'[r] = NoOutputs
  BY <1>2 DEF ContentTiles
<1>3. ASSUME NEW j \in Jobs, DeleteJob(j)
      PROVE  ContentTiles(r)'
  BY <1>1, <1>2, <1>3 DEF DeleteJob
<1>4. ASSUME NEW w \in Workers, Render(w)
      PROVE  ContentTiles(r)'
  <2>1. CASE At(w) = r /\ outputs[r] = NoOutputs
    <3>1. /\ rendered'[r] = Successful(r) /\ Pending(r) = {} /\ Present(r)
          /\ worker[w].pc = "query"
      BY <1>0, <1>4, <2>1 DEF Render, Stands, AnsweredAll
    <3>2. r \notin overrun => TilesPeriod(Unsplit(shards[r]))
      BY <2>1, <3>1 DEF ContentInv, QueryTiles
    <3>3. Successful(r) = Unsplit(shards[r])
      BY <1>0, <3>1, NothingPending DEF Pending, Successful
    <3>4. QED  BY <1>0, <3>1, <3>2, <3>3 DEF ContentTiles
  <2>2. CASE At(w) # r \/ outputs[r] # NoOutputs
    BY <1>0, <1>1, <1>4, <2>2 DEF Render
  <2>3. QED  BY <2>1, <2>2
<1>5. ASSUME NEW w \in Workers, Checkpoint(w)
      PROVE  ContentTiles(r)'
  <2>1. CASE At(w) = r
    <3>1. worker[w].file \in Files /\ outputs[r][worker[w].file] # "none"
      BY <1>5, <2>1 DEF Checkpoint, Stands, Safe, LockInv, Placed
    <3>2. outputs[r] # NoOutputs
      BY <3>1 DEF NoOutputs
    <3>3. QED  BY <1>0, <1>5, <3>2 DEF Checkpoint, ContentTiles
  <2>2. CASE At(w) # r
    BY <1>0, <1>1, <1>5, <2>2 DEF Checkpoint
  <2>3. QED  BY <2>1, <2>2
<1>6. ASSUME NEW w \in Workers, Purge(w)
      PROVE  ContentTiles(r)'
  BY <1>1, <1>2, <1>6 DEF Purge, OutputsDeleted
<1>7. CASE UNCHANGED <<outputs, rendered>>
  BY <1>1, <1>7
<1>8. CASE Requesting
  BY <1>3, <1>7, <1>8
     DEF Requesting, Retry, ManualRun, RunDue, Requeue, RequeueRefused, FindFailedRun,
         CheckFailedReport, InsertRun, InsertRefused, EnqueueReport, tables
<1>9. ASSUME NEW w \in Workers, Work(w)
      PROVE  ContentTiles(r)'
  <2>1. ASSUME NEW q \in Reports, Claim(w, q)
        PROVE  ContentTiles(r)'
    BY <1>7, <2>1 DEF Claim, tables
  <2>2. CASE Yield(w) \/ Start(w) \/ Capture(w) \/ Plan(w) \/ Finish(w)
    BY <1>7, <2>2 DEF Yield, Start, Capture, Plan, Finish, tables
  <2>3. CASE \/ Begin(w) \/ Fail(w) \/ FailCheckpoint(w)
               \/ ReadFailure(w) \/ RecordFailure(w) \/ Refused(w)
    BY <1>7, <2>3 DEF Begin, Fail, FailCheckpoint, ReadFailure, RecordFailure,
                      Refused, tables
  <2>4. ASSUME NEW f \in Files, Send(w, f)
        PROVE  ContentTiles(r)'
    BY <1>7, <2>4 DEF Send, tables
  <2>5. ASSUME NEW s, Query(w, s) \/ Split(w, s)
        PROVE  ContentTiles(r)'
    BY <1>7, <2>5 DEF Query, Split
  <2>6. QED
    BY <1>4, <1>5, <1>6, <1>9, <2>1, <2>2, <2>3, <2>4, <2>5 DEF Work
<1>10. ASSUME NEW w \in Workers, SelectExpired(w) \/ Crash(w) \/ LoseOuter(w) \/ LoseInner(w)
       PROVE  ContentTiles(r)'
  BY <1>7, <1>10 DEF SelectExpired, Crash, LoseOuter, LoseInner, tables
<1>11. ASSUME NEW q \in Reports, Elapse(q)
       PROVE  ContentTiles(r)'
  BY <1>7, <1>11 DEF Elapse
<1>12. QED
  BY <1>7, <1>8, <1>9, <1>10, <1>11 DEF Next, Working, vars, tables

LEMMA ContentInitially == Init => ContentInv
BY DEF Init, ContentInv, Known, QueryTiles, Fresh, ShardsTile, ContentTiles,
       IdleWorker, Owning, Processing, NoOutputs, Unused, Present, Stored, Live

LEMMA ContentInvStep == Safe /\ ContentInv /\ [Next]_vars => ContentInv'
<1> SUFFICES ASSUME Safe, ContentInv, [Next]_vars
             PROVE  ContentInv'
  OBVIOUS
<1>1. Safe'
  BY SafeStep
<1>2. \A r \in Reports : Fresh(r)' /\ ShardsTile(r)' /\ ContentTiles(r)'
  BY FreshStep, ShardsStep, ContentStep
<1>3. \A w \in Workers : Known(w)' /\ QueryTiles(w)'
  BY <1>1, <1>2, KnownStep, QueryStep
<1>4. QED  BY <1>2, <1>3 DEF ContentInv

LEMMA AlwaysContent == Spec => [](Safe /\ ContentInv)
<1>1. Init => Safe /\ ContentInv
  BY InitType, LockInitially, RowsInitially, ContentInitially DEF Safe
<1>2. QED  BY <1>1, SafeStep, ContentInvStep, PTL DEF Spec

\* However a report's period is cut, and however often the work is split,
\* interrupted, retried and resumed, its outputs sum the usage of every hour
\* exactly once; only an overrun report is excepted.
THEOREM EveryHourOnce == Spec => []RenderedInFull
<1>1. ContentInv => RenderedInFull
  BY DEF ContentInv, ContentTiles, RenderedInFull
<1>2. QED  BY <1>1, AlwaysContent, PTL

=============================================================================
