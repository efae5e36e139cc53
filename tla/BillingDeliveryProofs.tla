----------------------- MODULE BillingDeliveryProofs -----------------------
(***************************************************************************)
(* Deliveries and downloads: a delivered report that succeeded has reached *)
(* its destination completely, one to be downloaded has its artifact, and  *)
(* no file is delivered twice unless the checkpoint of its first delivery  *)
(* was lost. And the outer lock as a fence: as long as no process died and *)
(* no lock was lost, a claim that is under way still finds its report      *)
(* queued.                                                                 *)
(***************************************************************************)
EXTENDS BillingContentProofs

Delivering == {"deliver", "accepted"}

\* A file is marked as sent only after it was accepted.
SentWasAccepted(r) == \A f \in Files : outputs[r][f] = "sent" => accepted[r][f] > 0

AcceptedOnce(w) ==
  worker[w].pc = "accepted" => accepted[At(w)][worker[w].file] > 0

AllSent(r) == \A f \in Files : outputs[r][f] = "sent"

DeliveredInFull(r) ==
  /\ r \notin overrun
  /\ report[r].status = "succeeded"
  /\ report[r].delivery
  /\ outputs[r] # NoOutputs
  => AllSent(r)

HasArtifact(r) == outputs[r] # NoOutputs /\ ~report[r].delivery => report[r].artifact

RenderedForDownload(r) ==
  r \notin overrun /\ report[r].status = "succeeded" /\ ~report[r].delivery
  => outputs[r] # NoOutputs

\* A delivered report that succeeded while another worker was about to start
\* on it is not rendered again.
NotRenderedAgain(w) ==
  /\ worker[w].pc \in Owning
  /\ At(w) \notin overrun
  /\ report[At(w)].status = "succeeded"
  /\ report[At(w)].delivery
  => outputs[At(w)] # NoOutputs

\* What is not to be sent any more has been sent.
OnlyTodoUnsent(w) ==
  /\ worker[w].pc \in Delivering
  /\ At(w) \notin overrun
  /\ Present(At(w))
  => /\ outputs[At(w)] # NoOutputs
     /\ report[At(w)].delivery =>
          \A f \in Files \ worker[w].todo : outputs[At(w)][f] = "sent"

CompleteInv ==
  /\ \A r \in Reports : /\ SentWasAccepted(r)
                        /\ DeliveredInFull(r)
                        /\ HasArtifact(r)
                        /\ RenderedForDownload(r)
  /\ \A w \in Workers : AcceptedOnce(w) /\ NotRenderedAgain(w) /\ OnlyTodoUnsent(w)

-----------------------------------------------------------------------------
\* Deliveries and downloads are complete.

LEMMA CompleteRows ==
  ASSUME Safe, ContentInv, CompleteInv, [Next]_vars, NEW r \in Reports
  PROVE  SentWasAccepted(r)' /\ DeliveredInFull(r)' /\ HasArtifact(r)'
           /\ RenderedForDownload(r)'
<1> DEFINE Complete == SentWasAccepted(r)' /\ DeliveredInFull(r)' /\ HasArtifact(r)'
                         /\ RenderedForDownload(r)'
<1>0. /\ report \in [Reports -> Row] /\ report[r] \in Row
      /\ outputs \in [Reports -> [Files -> FileStatus]]
      /\ accepted \in [Reports -> [Files -> Nat]]
      /\ SentWasAccepted(r) /\ DeliveredInFull(r) /\ HasArtifact(r)
      /\ RenderedForDownload(r)
      /\ overrun \subseteq overrun' /\ Files # {}
  BY OverrunGrows, TablesAssumption DEF Safe, TypeOK, CompleteInv
<1>1. ASSUME outputs'[r] = outputs[r],
             \A f \in Files : accepted[r][f] > 0 => accepted'[r][f] > 0,
             report'[r].status \in {report[r].status, "queued", "running", "failed", "expired"},
             report'[r].delivery = report[r].delivery,
             report'[r].artifact = report[r].artifact
      PROVE  Complete
  BY <1>0, <1>1 DEF SentWasAccepted, DeliveredInFull, HasArtifact, RenderedForDownload,
                    AllSent
<1>2. ASSUME outputs'[r] = NoOutputs,
             ~(report'[r].status = "succeeded" /\ ~report'[r].delivery)
      PROVE  Complete
  BY <1>2 DEF SentWasAccepted, DeliveredInFull, HasArtifact, RenderedForDownload,
              NoOutputs
<1>3. ASSUME UNCHANGED <<report, outputs, accepted>>
      PROVE  Complete
  BY <1>1, <1>3
<1>4. ASSUME NEW c \in Clients, Requeue(c), UNCHANGED delivery
      PROVE  Complete
  <2>1. CASE client[c].report = r
    <3>1. /\ report'[r].status = "queued"
          /\ report'[r].delivery = report[r].delivery
          /\ report'[r].artifact = report[r].artifact
      BY <1>0, <1>4, <2>1 DEF Requeue, Requeued, Row
    <3>2. QED  BY <1>1, <1>4, <3>1 DEF Requeue, delivery
  <2>2. CASE client[c].report # r
    BY <1>0, <1>1, <1>4, <2>2 DEF Requeue, delivery
  <2>3. QED  BY <2>1, <2>2
<1>5. ASSUME NEW q \in Reports, NEW j, NEW d \in BOOLEAN, NEW b \in BOOLEAN,
             d \/ b, NextRow(q), report' = [report EXCEPT ![q] = NewRow(j, d, b)],
             UNCHANGED <<outputs, delivery>>
      PROVE  Complete
  <2>1. CASE q = r
    <3>1. outputs[r] = NoOutputs
      BY <1>5, <2>1 DEF NextRow, FreeRows, ContentInv, Fresh, Present, Stored, Live
    <3>2. report'[r].delivery = d /\ (report'[r].status = "succeeded" => ~b)
      BY <1>0, <1>5, <2>1 DEF NewRow, Unused
    <3>3. QED  BY <1>2, <1>5, <3>1, <3>2
  <2>2. CASE q # r
    BY <1>0, <1>1, <1>5, <2>2 DEF delivery
  <2>3. QED  BY <2>1, <2>2
<1>6. ASSUME NEW j \in Jobs, DeleteJob(j), UNCHANGED delivery
      PROVE  Complete
  <2>1. CASE report[r].job = j
    <3>1. report'[r].status = "deleted" /\ outputs'[r] = NoOutputs
      BY <1>6, <2>1 DEF DeleteJob, Unused
    <3>2. QED  BY <1>2, <3>1
  <2>2. CASE report[r].job # j
    BY <1>1, <1>6, <2>2 DEF DeleteJob, delivery
  <2>3. QED  BY <2>1, <2>2
<1>7. ASSUME NEW w \in Workers, Begin(w)
      PROVE  Complete
  <2>1. /\ report'[r].status \in {report[r].status, "running"}
        /\ report'[r].delivery = report[r].delivery
        /\ report'[r].artifact = report[r].artifact
    BY <1>0, <1>7 DEF Begin, Started, Row
  <2>2. QED  BY <1>1, <1>7, <2>1 DEF Begin, delivery
<1>8. ASSUME NEW w \in Workers, Capture(w)
      PROVE  Complete
  <2>1. /\ report'[r].status = report[r].status
        /\ report'[r].delivery = report[r].delivery
        /\ report'[r].artifact = report[r].artifact
    BY <1>0, <1>8 DEF Capture, Row
  <2>2. QED  BY <1>1, <1>8, <2>1 DEF Capture, delivery
<1>9. ASSUME NEW w \in Workers, Render(w)
      PROVE  Complete
  <2>1. CASE At(w) = r /\ outputs[r] = NoOutputs
    <3>1. /\ outputs'[r] = [f \in Files |-> IF report[r].delivery THEN "pending" ELSE "ready"]
          /\ report'[r] = [report[r] EXCEPT !.artifact = @ \/ ~report[r].delivery]
          /\ overrun' = overrun /\ worker[w].pc = "query"
      BY <1>0, <1>9, <2>1 DEF Render, Stands
    <3>2. /\ report'[r].status = report[r].status
          /\ report'[r].delivery = report[r].delivery
          /\ ~report[r].delivery => report'[r].artifact
      BY <1>0, <3>1 DEF Row
    <3>3. outputs'[r] # NoOutputs /\ \A f \in Files : outputs'[r][f] # "sent"
      BY <1>0, <3>1 DEF NoOutputs
    <3>4. ~(report[r].status = "succeeded" /\ report[r].delivery /\ r \notin overrun)
      BY <2>1, <3>1 DEF CompleteInv, NotRenderedAgain, Owning, Processing
    <3>5. QED
      BY <3>1, <3>2, <3>3, <3>4
         DEF SentWasAccepted, DeliveredInFull, HasArtifact, RenderedForDownload
  <2>2. CASE At(w) = r /\ outputs[r] # NoOutputs
    <3>1. /\ outputs'[r] = outputs[r]
          /\ report'[r] = [report[r] EXCEPT !.artifact = @ \/ FALSE]
      BY <1>0, <1>9, <2>2 DEF Render
    <3>2. /\ report'[r].status = report[r].status
          /\ report'[r].delivery = report[r].delivery
          /\ report'[r].artifact = report[r].artifact
      BY <1>0, <3>1 DEF Row
    <3>3. QED  BY <1>1, <1>9, <3>1, <3>2 DEF Render, delivery
  <2>3. CASE At(w) # r
    BY <1>0, <1>1, <1>9, <2>3 DEF Render, delivery
  <2>4. QED  BY <2>1, <2>2, <2>3
<1>10. ASSUME NEW w \in Workers, Checkpoint(w)
       PROVE  Complete
  <2>1. CASE At(w) = r
    <3>1. PICK f \in Files : f = worker[w].file
      BY <1>10 DEF Checkpoint, Stands, Safe, LockInv, Placed
    <3>2. /\ outputs'[r] = [outputs[r] EXCEPT ![f] = "sent"]
          /\ outputs[r][f] # "none"
          /\ accepted[r][f] > 0
          /\ report' = report /\ accepted' = accepted /\ overrun' = overrun
      BY <1>0, <1>10, <2>1, <3>1
         DEF Checkpoint, Stands, CompleteInv, AcceptedOnce, delivery
    <3>3. outputs[r] # NoOutputs /\ outputs'[r] # NoOutputs
      BY <1>0, <3>2 DEF NoOutputs
    <3>4. QED
      BY <1>0, <3>2, <3>3
         DEF SentWasAccepted, DeliveredInFull, HasArtifact, RenderedForDownload, AllSent
  <2>2. CASE At(w) # r
    BY <1>0, <1>1, <1>10, <2>2 DEF Checkpoint, delivery
  <2>3. QED  BY <2>1, <2>2
<1>11. ASSUME NEW w \in Workers, NEW f \in Files, Send(w, f)
       PROVE  Complete
  <2>1. \A g \in Files : accepted[r][g] > 0 => accepted'[r][g] > 0
    BY <1>0, <1>11 DEF Send
  <2>2. QED  BY <1>1, <1>11, <2>1 DEF Send, tables
<1>12. ASSUME NEW w \in Workers, Finish(w)
       PROVE  Complete
  <2>1. CASE At(w) = r
    <3>1. /\ outputs' = outputs /\ accepted' = accepted /\ overrun' = overrun
          /\ worker[w].todo = {} /\ worker[w].pc = "deliver" /\ Present(r)
      BY <1>12, <2>1 DEF Finish, Stands, delivery
    <3>2. /\ report'[r].delivery = report[r].delivery
          /\ report'[r].artifact = report[r].artifact
      BY <1>0, <1>12, <2>1 DEF Finish, Row
    <3>3. r \notin overrun =>
            outputs[r] # NoOutputs /\ (report[r].delivery => AllSent(r))
      BY <2>1, <3>1 DEF CompleteInv, OnlyTodoUnsent, Delivering, AllSent
    <3>4. QED
      BY <1>0, <3>1, <3>2, <3>3
         DEF SentWasAccepted, DeliveredInFull, HasArtifact, RenderedForDownload, AllSent
  <2>2. CASE At(w) # r
    BY <1>0, <1>1, <1>12, <2>2 DEF Finish, delivery
  <2>3. QED  BY <2>1, <2>2
<1>13. ASSUME NEW w \in Workers, RecordFailure(w)
       PROVE  Complete
  <2>1. /\ report'[r].status \in {report[r].status, "failed"}
        /\ report'[r].delivery = report[r].delivery
        /\ report'[r].artifact = report[r].artifact
    BY <1>0, <1>13 DEF RecordFailure, Failed, Row
  <2>2. QED  BY <1>1, <1>13, <2>1 DEF RecordFailure, delivery
<1>14. ASSUME NEW w \in Workers, Purge(w)
       PROVE  Complete
  <2>1. CASE r \in worker[w].ids /\ Present(r)
    <3>1. report'[r] = Expired(report[r]) /\ outputs'[r] = NoOutputs
      BY <1>14, <2>1 DEF Purge, OutputsDeleted
    <3>2. report'[r].status = "expired"
      BY <1>0, <3>1 DEF Expired, Row
    <3>3. QED  BY <1>2, <3>1, <3>2
  <2>2. CASE ~(r \in worker[w].ids /\ Present(r))
    BY <1>1, <1>14, <2>2 DEF Purge, delivery
  <2>3. QED  BY <2>1, <2>2
<1>15. ASSUME NEW q \in Reports, Elapse(q)
       PROVE  Complete
  <2>1. /\ report'[r].status = report[r].status
        /\ report'[r].delivery = report[r].delivery
        /\ report'[r].artifact = report[r].artifact
    BY <1>0, <1>15 DEF Elapse, Row
  <2>2. QED  BY <1>1, <1>15, <2>1 DEF Elapse, delivery
<1>16. ASSUME Requesting, UNCHANGED delivery
       PROVE  Complete
  <2>1. ASSUME NEW c \in Clients, NEW q \in Reports, NEW b \in BOOLEAN, InsertRun(c, q, b)
        PROVE  Complete
    BY <1>5, <1>16, <2>1 DEF InsertRun
  <2>2. ASSUME NEW q \in Reports, NEW d \in BOOLEAN, NEW b \in BOOLEAN, EnqueueReport(q, d, b)
        PROVE  Complete
    BY <1>5, <1>16, <2>2 DEF EnqueueReport
  <2>3. QED
    BY <1>3, <1>4, <1>6, <1>16, <2>1, <2>2
       DEF Requesting, Retry, ManualRun, RunDue, RequeueRefused, FindFailedRun,
           CheckFailedReport, InsertRefused, tables, delivery
<1>17. ASSUME NEW w \in Workers, Work(w)
       PROVE  Complete
  <2>1. ASSUME NEW s, Query(w, s) \/ Split(w, s)
        PROVE  Complete
    BY <1>3, <2>1 DEF Query, Split, delivery
  <2>2. CASE \/ Yield(w) \/ Start(w) \/ Plan(w) \/ Fail(w) \/ FailCheckpoint(w)
               \/ ReadFailure(w) \/ Refused(w)
    BY <1>3, <2>2 DEF Yield, Start, Plan, Fail, FailCheckpoint, ReadFailure, Refused,
                      tables, delivery
  <2>3. ASSUME NEW q \in Reports, Claim(w, q)
        PROVE  Complete
    BY <1>3, <2>3 DEF Claim, tables, delivery
  <2>4. QED
    BY <1>7, <1>8, <1>9, <1>10, <1>11, <1>12, <1>13, <1>14, <1>17, <2>1, <2>2, <2>3
       DEF Work
<1>18. ASSUME NEW w \in Workers, SelectExpired(w) \/ Crash(w) \/ LoseOuter(w) \/ LoseInner(w)
       PROVE  Complete
  BY <1>3, <1>18 DEF SelectExpired, Crash, LoseOuter, LoseInner, tables, delivery
<1>19. QED
  BY <1>3, <1>15, <1>16, <1>17, <1>18 DEF Next, Working, vars, tables, delivery

\* Only Finish makes a report succeed that has been in the table, and only
\* what ends or removes a report removes its outputs.
LEMMA SucceedsRendered ==
  ASSUME Safe, CompleteInv, [Next]_vars, NEW r \in Reports,
         report[r].status # "unused", r \notin overrun',
         report'[r].status = "succeeded", outputs'[r] = NoOutputs
  PROVE  report[r].status = "succeeded" /\ outputs[r] = NoOutputs
<1> DEFINE Was == report[r].status = "succeeded" /\ outputs[r] = NoOutputs
<1>0. /\ report \in [Reports -> Row] /\ report[r] \in Row /\ r \notin FreeRows
      /\ outputs \in [Reports -> [Files -> FileStatus]]
      /\ Files # {}
  BY TablesAssumption DEF Safe, TypeOK, FreeRows
<1>1. CASE outputs'[r] = outputs[r] /\ report'[r].status = report[r].status
  BY <1>1
<1>2. ASSUME NEW c \in Clients, Requeue(c)
      PROVE  Was
  <2>1. CASE client[c].report = r
    <3>1. report'[r].status = "queued"
      BY <1>0, <1>2, <2>1 DEF Requeue, Requeued, Row
    <3>2. QED  BY <3>1
  <2>2. CASE client[c].report # r
    BY <1>0, <1>1, <1>2, <2>2 DEF Requeue
  <2>3. QED  BY <2>1, <2>2
<1>3. ASSUME NEW q \in Reports, NextRow(q), NEW row, report' = [report EXCEPT ![q] = row],
             UNCHANGED outputs
      PROVE  Was
  BY <1>0, <1>1, <1>3 DEF NextRow
<1>4. ASSUME NEW j \in Jobs, DeleteJob(j)
      PROVE  Was
  <2>1. report[r].job # j
    BY <1>4 DEF DeleteJob, Unused
  <2>2. QED  BY <1>1, <1>4, <2>1 DEF DeleteJob
<1>5. ASSUME NEW w \in Workers, Begin(w)
      PROVE  Was
  <2>1. At(w) # r
    BY <1>0, <1>5 DEF Begin, Started, Row
  <2>2. QED  BY <1>0, <1>1, <1>5, <2>1 DEF Begin
<1>6. ASSUME NEW w \in Workers, Capture(w)
      PROVE  Was
  BY <1>0, <1>1, <1>6 DEF Capture, Row
<1>7. ASSUME NEW w \in Workers, Render(w)
      PROVE  Was
  <2>1. report'[r].status = report[r].status
    BY <1>0, <1>7 DEF Render, Row
  <2>2. CASE At(w) = r
    <3>1. outputs'[r] # NoOutputs
      BY <1>0, <1>7, <2>2 DEF Render, NoOutputs
    <3>2. QED  BY <3>1
  <2>3. CASE At(w) # r
    BY <1>0, <1>1, <1>7, <2>1, <2>3 DEF Render
  <2>4. QED  BY <2>2, <2>3
<1>8. ASSUME NEW w \in Workers, Checkpoint(w)
      PROVE  Was
  <2>1. CASE At(w) = r
    <3>1. worker[w].file \in Files
      BY <1>8 DEF Checkpoint, Stands, Safe, LockInv, Placed
    <3>2. outputs'[r][worker[w].file] = "sent"
      BY <1>0, <1>8, <2>1, <3>1 DEF Checkpoint
    <3>3. QED  BY <3>1, <3>2 DEF NoOutputs
  <2>2. CASE At(w) # r
    BY <1>0, <1>1, <1>8, <2>2 DEF Checkpoint
  <2>3. QED  BY <2>1, <2>2
<1>9. ASSUME NEW w \in Workers, Finish(w)
      PROVE  Was
  <2>1. CASE At(w) = r
    <3>1. outputs[r] # NoOutputs
      BY <1>9, <2>1 DEF Finish, Stands, CompleteInv, OnlyTodoUnsent, Delivering
    <3>2. QED  BY <1>9, <3>1 DEF Finish
  <2>2. CASE At(w) # r
    BY <1>0, <1>1, <1>9, <2>2 DEF Finish
  <2>3. QED  BY <2>1, <2>2
<1>10. ASSUME NEW w \in Workers, RecordFailure(w)
       PROVE  Was
  <2>1. At(w) # r
    BY <1>0, <1>10 DEF RecordFailure, Failed, Row
  <2>2. QED  BY <1>0, <1>1, <1>10, <2>1 DEF RecordFailure
<1>11. ASSUME NEW w \in Workers, Purge(w)
       PROVE  Was
  <2>1. CASE report'[r] = Expired(report[r])
    BY <1>0, <2>1 DEF Expired, Row
  <2>2. CASE ~(r \in worker[w].ids /\ Present(r))
    BY <1>1, <1>11, <2>2 DEF Purge
  <2>3. QED  BY <1>11, <2>1, <2>2 DEF Purge
<1>12. ASSUME NEW q \in Reports, Elapse(q)
       PROVE  Was
  BY <1>0, <1>1, <1>12 DEF Elapse, Row
<1>13. CASE UNCHANGED <<report, outputs>>
  BY <1>1, <1>13
<1>14. CASE Requesting
  <2>1. ASSUME NEW c \in Clients, NEW q \in Reports, NEW b \in BOOLEAN, InsertRun(c, q, b)
        PROVE  Was
    BY <1>3, <2>1 DEF InsertRun
  <2>2. ASSUME NEW q \in Reports, NEW d \in BOOLEAN, NEW b \in BOOLEAN, EnqueueReport(q, d, b)
        PROVE  Was
    BY <1>3, <2>2 DEF EnqueueReport
  <2>3. QED
    BY <1>2, <1>4, <1>13, <1>14, <2>1, <2>2
       DEF Requesting, Retry, ManualRun, RunDue, RequeueRefused, FindFailedRun,
           CheckFailedReport, InsertRefused, tables
<1>15. ASSUME NEW w \in Workers, Work(w)
       PROVE  Was
  <2>1. ASSUME NEW s, Query(w, s) \/ Split(w, s)
        PROVE  Was
    BY <1>13, <2>1 DEF Query, Split
  <2>2. ASSUME NEW f \in Files, Send(w, f)
        PROVE  Was
    BY <1>13, <2>2 DEF Send, tables
  <2>3. CASE \/ Yield(w) \/ Start(w) \/ Plan(w) \/ Fail(w) \/ FailCheckpoint(w)
               \/ ReadFailure(w) \/ Refused(w)
    BY <1>13, <2>3 DEF Yield, Start, Plan, Fail, FailCheckpoint, ReadFailure,
                       Refused, tables
  <2>4. ASSUME NEW q \in Reports, Claim(w, q)
        PROVE  Was
    BY <1>13, <2>4 DEF Claim, tables
  <2>5. QED
    BY <1>5, <1>6, <1>7, <1>8, <1>9, <1>10, <1>11, <1>15, <2>1, <2>2, <2>3, <2>4
       DEF Work
<1>16. ASSUME NEW w \in Workers, SelectExpired(w) \/ Crash(w) \/ LoseOuter(w) \/ LoseInner(w)
       PROVE  Was
  BY <1>13, <1>16 DEF SelectExpired, Crash, LoseOuter, LoseInner, tables
<1>17. QED
  BY <1>12, <1>13, <1>14, <1>15, <1>16 DEF Next, Working, vars, tables

LEMMA NotRenderedAgainStep ==
  ASSUME Safe, ContentInv, CompleteInv, [Next]_vars, NEW v \in Workers
  PROVE  NotRenderedAgain(v)'
<1> SUFFICES ASSUME worker'[v].pc \in Owning, At(v)' \notin overrun',
                    report'[At(v)'].status = "succeeded", report'[At(v)'].delivery
             PROVE  outputs'[At(v)'] # NoOutputs
  BY DEF NotRenderedAgain
<1>1. PICK r : r = At(v)'
  OBVIOUS
<1>2. CASE worker[v].pc \in Owning /\ At(v) = r
  <2>1. r \in Reports /\ report[r].status # "unused"
    BY <1>2 DEF Safe, LockInv, Placed, ContentInv, Known, Owning
  <2>2. report[r].delivery /\ r \notin overrun
    BY <1>1, <2>1, RowsLast, OverrunGrows DEF RowLasts, StillThere, Stored
  <2>3. ~(report[r].status = "succeeded" /\ outputs[r] = NoOutputs)
    BY <1>2, <2>2 DEF CompleteInv, NotRenderedAgain
  <2>4. QED  BY <1>1, <2>1, <2>3, SucceedsRendered
<1>3. ASSUME NEW w \in Workers, Steps(w)
      PROVE  outputs'[At(v)'] # NoOutputs
  <2>1. CASE v # w
    BY <1>1, <1>2, <1>3, <2>1, OthersStay DEF Steps, Safe, At
  <2>2. CASE v = w
    <3>1. ASSUME NEW q \in Reports, Claim(v, q), At(v)' = q
          PROVE  FALSE
      <4>1. report'[q].status \in Live
        BY <3>1 DEF Claim, Workable, tables
      <4>2. QED  BY <3>1, <4>1 DEF Live
    <3>2. QED  BY <1>1, <1>2, <1>3, <2>2, <3>1, OwnedByClaim DEF Steps, Safe
  <2>3. QED  BY <2>1, <2>2
<1>4. CASE UNCHANGED worker
  BY <1>1, <1>2, <1>4 DEF At
<1>5. QED
  BY <1>3, <1>4 DEF Next, Working, Steps, Elapse, vars, workers

\* The steps after which a worker delivers.
LEMMA DeliveringBy ==
  ASSUME Safe, NEW v \in Workers, Steps(v), worker'[v].pc \in Delivering
  PROVE  \/ Render(v) \/ Checkpoint(v) \/ LoseOuter(v) \/ LoseInner(v)
         \/ \E f \in Files : Send(v, f)
<1>0. worker \in [Workers -> WorkerState] /\ worker[v] \in WorkerState
  BY DEF Safe, TypeOK
<1>1. ASSUME NEW r \in Reports, Claim(v, r)
      PROVE  FALSE
  <2>1. worker'[v].pc \in {"claiming", "claimed"}
    BY <1>0, <1>1 DEF Claim, WorkerState
  <2>2. QED  BY <2>1 DEF Delivering
<1>2. CASE \/ Yield(v) \/ Finish(v) \/ ReadFailure(v) \/ RecordFailure(v)
           \/ Refused(v) \/ Purge(v) \/ Crash(v)
  <2>1. worker'[v].pc \in {"idle", "recording", "failing"}
    BY <1>0, <1>2 DEF Yield, Finish, ReadFailure, RecordFailure, Refused, Purge,
                      Crash, Moves, Rests, IdleWorker, WorkerState
  <2>2. QED  BY <2>1 DEF Delivering
<1>3. CASE Begin(v) \/ Start(v) \/ Capture(v) \/ Plan(v) \/ SelectExpired(v)
  <2>1. worker'[v].pc \in {"claimed", "plan", "capture", "failing", "query", "purge"}
    BY <1>0, <1>3 DEF Begin, Start, FirstStep, Capture, Plan, SelectExpired, Moves,
                      WorkerState
  <2>2. QED  BY <2>1 DEF Delivering
<1>4. ASSUME NEW s, Query(v, s) \/ Split(v, s)
      PROVE  FALSE
  BY <1>4 DEF Query, Split, workers, Stands, Delivering
<1>5. CASE Fail(v) \/ FailCheckpoint(v)
  <2>1. worker'[v].pc = "failing"
    BY <1>0, <1>5 DEF Fail, FailCheckpoint, Moves, WorkerState
  <2>2. QED  BY <2>1 DEF Delivering
<1>6. QED
  BY <1>1, <1>2, <1>3, <1>4, <1>5 DEF Steps, Work

\* A worker that takes no step keeps its memory.
LEMMA StaysPut ==
  ASSUME Safe, [Next]_vars, NEW v \in Workers, ~Steps(v)
  PROVE  worker'[v] = worker[v]
BY OthersStay DEF Next, Working, Steps, Elapse, vars, workers, Safe

LEMMA CompleteWorkers ==
  ASSUME Safe, ContentInv, CompleteInv, [Next]_vars, NEW v \in Workers
  PROVE  AcceptedOnce(v)' /\ OnlyTodoUnsent(v)'
<1>0. /\ worker \in [Workers -> WorkerState] /\ worker[v] \in WorkerState
      /\ outputs \in [Reports -> [Files -> FileStatus]]
      /\ accepted \in [Reports -> [Files -> Nat]]
      /\ report \in [Reports -> Row]
      /\ worker[v].pc \in Processing => At(v) \in Reports
      /\ worker[v].pc = "accepted" => worker[v].file \in Files
      /\ AcceptedOnce(v) /\ OnlyTodoUnsent(v)
      /\ Files # {}
  BY TablesAssumption DEF Safe, TypeOK, LockInv, Placed, Owning, CompleteInv
<1>1. CASE worker'[v].pc \notin Delivering
  BY <1>1 DEF AcceptedOnce, OnlyTodoUnsent, Delivering
<1>2. CASE worker'[v].pc \in Delivering /\ ~Steps(v)
  <2>1. worker'[v] = worker[v] /\ At(v)' = At(v) /\ worker[v].pc \in Processing
    BY <1>2, StaysPut DEF At, Delivering, Processing
  <2>2. Grown(At(v))
    BY <1>2, <2>1, Undisturbed
  <2>3. At(v) \notin overrun' /\ StillThere(At(v))
          => Advanced(At(v)) /\ At(v) \notin overrun /\ Present(At(v))
    BY <1>2, <2>1, Undisturbed
  <2>4. AcceptedOnce(v)'
    BY <1>0, <2>1, <2>2 DEF AcceptedOnce, Grown
  <2>5. OnlyTodoUnsent(v)'
    BY <1>0, <2>1, <2>3 DEF OnlyTodoUnsent, Advanced, StillThere, Present
  <2>6. QED  BY <2>4, <2>5
<1>3. CASE Render(v) /\ worker'[v].pc \in Delivering
  <2>1. PICK r \in Reports : r = At(v)
    BY <1>0, <1>3 DEF Render, Stands, Processing
  <2>2. PICK files : files = IF outputs[r] = NoOutputs
               THEN [f \in Files |-> IF report[r].delivery THEN "pending" ELSE "ready"]
               ELSE outputs[r]
    OBVIOUS
  <2>3. /\ worker'[v].todo = ToDeliver(r, files) /\ worker'[v].pc = "deliver"
        /\ worker'[v].at = r
    BY <1>0, <1>3, <2>1, <2>2 DEF Render, WorkerState, At, Delivering
  <2>4. outputs'[r] = files /\ report'[r].delivery = report[r].delivery
    BY <1>0, <1>3, <2>1, <2>2 DEF Render, Row
  <2>5. files # NoOutputs
    BY <1>0, <2>2 DEF NoOutputs
  <2>6. QED
    BY <2>3, <2>4, <2>5 DEF AcceptedOnce, OnlyTodoUnsent, ToDeliver, At
<1>4. ASSUME NEW f \in Files, Send(v, f)
      PROVE  AcceptedOnce(v)' /\ OnlyTodoUnsent(v)'
  <2>1. PICK r \in Reports : r = At(v)
    BY <1>0, <1>4 DEF Send, Stands, Processing
  <2>2. /\ worker'[v].todo = worker[v].todo /\ worker'[v].pc = "accepted"
        /\ worker'[v].at = r /\ worker'[v].file = f /\ worker[v].pc = "deliver"
    BY <1>0, <1>4, <2>1 DEF Send, Stands, WorkerState, At
  <2>3. accepted'[r][f] > 0 /\ UNCHANGED <<report, outputs, overrun>>
    BY <1>0, <1>4, <2>1 DEF Send, tables
  <2>4. QED
    BY <1>0, <2>1, <2>2, <2>3 DEF AcceptedOnce, OnlyTodoUnsent, Delivering, Present, At
<1>5. CASE Checkpoint(v)
  <2>1. PICK r \in Reports : r = At(v)
    BY <1>0, <1>5 DEF Checkpoint, Stands, Processing
  <2>2. PICK f \in Files : f = worker[v].file
    BY <1>0, <1>5 DEF Checkpoint, Stands
  <2>3. /\ worker'[v].todo = worker[v].todo \ {f} /\ worker'[v].pc = "deliver"
        /\ worker'[v].at = r /\ worker[v].pc = "accepted"
    BY <1>0, <1>5, <2>1, <2>2 DEF Checkpoint, Stands, WorkerState, At
  <2>4. /\ outputs'[r] = [outputs[r] EXCEPT ![f] = "sent"]
        /\ UNCHANGED <<report, overrun>>
    BY <1>0, <1>5, <2>1, <2>2 DEF Checkpoint
  <2>5. outputs'[r] # NoOutputs
    BY <1>0, <2>4 DEF NoOutputs
  <2>6. QED
    BY <1>0, <2>1, <2>3, <2>4, <2>5 DEF AcceptedOnce, OnlyTodoUnsent, Delivering, Present, At
<1>6. CASE LoseOuter(v) \/ LoseInner(v)
  BY <1>0, <1>6 DEF LoseOuter, LoseInner, AcceptedOnce, OnlyTodoUnsent, Present, At, tables, delivery
<1>7. QED
  BY <1>1, <1>2, <1>3, <1>4, <1>5, <1>6, DeliveringBy

LEMMA CompleteInitially == Init => CompleteInv
BY DEF Init, CompleteInv, SentWasAccepted, DeliveredInFull, HasArtifact,
       RenderedForDownload, AcceptedOnce, NotRenderedAgain, OnlyTodoUnsent,
       IdleWorker, Owning, Processing, Delivering, NoOutputs, Unused

LEMMA CompleteInvStep ==
  Safe /\ ContentInv /\ CompleteInv /\ [Next]_vars => CompleteInv'
BY CompleteRows, CompleteWorkers, NotRenderedAgainStep DEF CompleteInv

LEMMA AlwaysComplete == Spec => [](Safe /\ ContentInv /\ CompleteInv)
<1>1. Init => Safe /\ ContentInv /\ CompleteInv
  BY InitType, LockInitially, RowsInitially, ContentInitially, CompleteInitially DEF Safe
<1>2. QED
  BY <1>1, SafeStep, ContentInvStep, CompleteInvStep, PTL DEF Spec

\* A delivered report succeeds only when every file has been accepted and
\* checkpointed, in one attempt or over several, by one worker or several.
THEOREM SuccessIsDelivery == Spec => []SucceededMeansDelivered
<1>1. CompleteInv => SucceededMeansDelivered
  BY DEF CompleteInv, DeliveredInFull, AllSent, SentWasAccepted, SucceededMeansDelivered
<1>2. QED  BY <1>1, AlwaysComplete, PTL

\* A report for download that succeeded has its artifact until it expires.
THEOREM SuccessIsDownloadable == Spec => []SucceededMeansDownloadable
<1>1. CompleteInv => SucceededMeansDownloadable
  BY DEF CompleteInv, HasArtifact, RenderedForDownload, SucceededMeansDownloadable
<1>2. QED  BY <1>1, AlwaysComplete, PTL

-----------------------------------------------------------------------------
\* Deliveries are not repeated without cause.

\* Reports for which no promise is made: an overrun one, and one whose inner
\* lock was lost while it was processed.
Excused == overrun \cup unfenced

LEMMA ExcusedGrows ==
  ASSUME [Next]_vars
  PROVE  Excused \subseteq Excused'
<1>1. ASSUME NEW w \in Workers, Work(w)
      PROVE  unfenced \subseteq unfenced'
  BY <1>1 DEF Work, Claim, Begin, Yield, Start, Capture, Plan, Query, Split, Render,
              Send, Checkpoint, Finish, Fail, FailCheckpoint, ReadFailure,
              RecordFailure, Refused, Purge
<1>2. ASSUME NEW w \in Workers, SelectExpired(w) \/ Crash(w) \/ LoseOuter(w) \/ LoseInner(w)
      PROVE  unfenced \subseteq unfenced'
  BY <1>2 DEF SelectExpired, Crash, LoseOuter, LoseInner
<1>3. unfenced \subseteq unfenced'
  BY <1>1, <1>2 DEF Next, Working, Elapse, vars
<1>4. QED
  BY <1>3, OverrunGrows DEF Excused

InFlight(r, f) ==
  \E w \in Workers : worker[w].pc = "accepted" /\ At(w) = r /\ worker[w].file = f

RepeatedForLoss(r) == r \notin Excused => \A f \in Files : accepted[r][f] <= lost[r][f] + 1

\* A report that may still be delivered has no acceptance behind it that is
\* neither checkpointed nor lost nor about to be checkpointed.
CheckpointedOrLost(r) ==
  r \notin Excused /\ report[r].config =>
    \A f \in Files : outputs[r][f] # "sent" /\ ~InFlight(r, f)
                       => accepted[r][f] <= lost[r][f]

\* The configuration a worker read is still there: only the worker itself, a
\* purge and a deletion take it away.
ConfigStays(w) ==
  /\ worker[w].pc \in Processing
  /\ worker[w].config
  /\ At(w) \notin Excused
  /\ Present(At(w))
  => report[At(w)].config

TodoUnaccepted(w) ==
  worker[w].pc \in Delivering /\ At(w) \notin Excused =>
    \A f \in worker[w].todo :
      ~(worker[w].pc = "accepted" /\ worker[w].file = f)
      => accepted[At(w)][f] <= lost[At(w)][f]

RepeatInv ==
  /\ \A r \in Reports : RepeatedForLoss(r) /\ CheckpointedOrLost(r)
  /\ \A w \in Workers : ConfigStays(w) /\ TodoUnaccepted(w)

\* What is accepted grows by a delivery, from what was accounted for.
LEMMA RepeatedStep ==
  ASSUME Safe, RepeatInv, [Next]_vars, NEW r \in Reports
  PROVE  RepeatedForLoss(r)'
<1>0. /\ accepted \in [Reports -> [Files -> Nat]]
      /\ lost \in [Reports -> [Files -> Nat]]
      /\ RepeatedForLoss(r)
      /\ Excused \subseteq Excused'
  BY ExcusedGrows DEF Safe, TypeOK, RepeatInv
<1>1. ASSUME accepted'[r] = accepted[r], \A f \in Files : lost'[r][f] \in Nat /\ lost[r][f] <= lost'[r][f]
      PROVE  RepeatedForLoss(r)'
  BY <1>0, <1>1 DEF RepeatedForLoss
<1>2. CASE UNCHANGED delivery
  BY <1>0, <1>1, <1>2 DEF delivery
<1>3. ASSUME NEW w \in Workers, NEW f \in Files, Send(w, f)
      PROVE  RepeatedForLoss(r)'
  <2>1. CASE At(w) = r
    <3>1. r \notin Excused => accepted[r][f] <= lost[r][f]
      BY <1>3, <2>1 DEF Send, Stands, RepeatInv, TodoUnaccepted, Delivering
    <3>2. /\ accepted'[r] = [accepted[r] EXCEPT ![f] = @ + 1]
          /\ lost' = lost /\ Excused' = Excused
      BY <1>0, <1>3, <2>1 DEF Send, Excused
    <3>3. QED  BY <1>0, <3>1, <3>2 DEF RepeatedForLoss
  <2>2. CASE At(w) # r
    BY <1>0, <1>1, <1>3, <2>2 DEF Send
  <2>3. QED  BY <2>1, <2>2
<1>4. ASSUME NEW w \in Workers, FailCheckpoint(w) \/ Crash(w)
      PROVE  RepeatedForLoss(r)'
  <2>1. accepted' = accepted
    BY <1>4 DEF FailCheckpoint, Crash
  <2>2. \A f \in Files : lost'[r][f] \in Nat /\ lost[r][f] <= lost'[r][f]
    BY <1>0, <1>4 DEF FailCheckpoint, Crash
  <2>3. QED  BY <1>1, <2>1, <2>2
<1>5. CASE Requesting /\ UNCHANGED <<workers, delivery, faults, overrun, unfenced>>
  BY <1>2, <1>5
<1>6. ASSUME NEW w \in Workers, Work(w)
      PROVE  RepeatedForLoss(r)'
  <2>1. ASSUME NEW q \in Reports, Claim(w, q)
        PROVE  RepeatedForLoss(r)'
    BY <1>2, <2>1 DEF Claim
  <2>2. CASE Yield(w) \/ Start(w) \/ Capture(w) \/ Plan(w) \/ Finish(w) \/ Fail(w)
    BY <1>2, <2>2 DEF Yield, Start, Capture, Plan, Finish, Fail
  <2>3. CASE Render(w) \/ Checkpoint(w) \/ RecordFailure(w) \/ Purge(w)
    BY <1>2, <2>3 DEF Render, Checkpoint, RecordFailure, Purge
  <2>6. CASE Begin(w) \/ ReadFailure(w) \/ Refused(w)
    BY <1>2, <2>6 DEF Begin, ReadFailure, Refused
  <2>4. ASSUME NEW s, Query(w, s) \/ Split(w, s)
        PROVE  RepeatedForLoss(r)'
    BY <1>2, <2>4 DEF Query, Split
  <2>5. QED
    BY <1>3, <1>4, <1>6, <2>1, <2>2, <2>3, <2>4, <2>6 DEF Work
<1>7. ASSUME NEW w \in Workers, SelectExpired(w) \/ LoseOuter(w) \/ LoseInner(w)
      PROVE  RepeatedForLoss(r)'
  BY <1>2, <1>7 DEF SelectExpired, LoseOuter, LoseInner
<1>8. ASSUME NEW q \in Reports, Elapse(q)
      PROVE  RepeatedForLoss(r)'
  BY <1>2, <1>8 DEF Elapse
<1>9. CASE UNCHANGED vars
  BY <1>2, <1>9 DEF vars
<1>10. QED
  BY <1>4, <1>5, <1>6, <1>7, <1>8, <1>9 DEF Next, Working

LEMMA AcceptedBySend ==
  ASSUME Safe, [Next]_vars, NEW r \in Reports, accepted'[r] # accepted[r]
  PROVE  \E w \in Workers : At(w) = r /\ \E f \in Files : Send(w, f)
<1> DEFINE Sent == \E w \in Workers : At(w) = r /\ \E f \in Files : Send(w, f)
<1>0. accepted \in [Reports -> [Files -> Nat]] /\ accepted' # accepted
  BY DEF Safe, TypeOK
<1>1. ASSUME NEW w \in Workers, Work(w)
      PROVE  Sent
  <2>1. ASSUME NEW q \in Reports, Claim(w, q)
        PROVE  FALSE
    BY <1>0, <2>1 DEF Claim, delivery
  <2>2. CASE Yield(w) \/ Start(w) \/ Capture(w) \/ Plan(w) \/ Finish(w) \/ Fail(w)
    BY <1>0, <2>2 DEF Yield, Start, Capture, Plan, Finish, Fail, delivery
  <2>3. CASE Render(w) \/ Checkpoint(w) \/ FailCheckpoint(w) \/ RecordFailure(w) \/ Purge(w)
    BY <1>0, <2>3 DEF Render, Checkpoint, FailCheckpoint, RecordFailure, Purge, delivery
  <2>7. CASE Begin(w) \/ ReadFailure(w) \/ Refused(w)
    BY <1>0, <2>7 DEF Begin, ReadFailure, Refused, delivery
  <2>4. ASSUME NEW s, Query(w, s) \/ Split(w, s)
        PROVE  FALSE
    BY <1>0, <2>4 DEF Query, Split, delivery
  <2>5. ASSUME NEW f \in Files, Send(w, f)
        PROVE  Sent
    <3>1. At(w) = r
      BY <1>0, <2>5 DEF Send
    <3>2. QED  BY <2>5, <3>1
  <2>6. QED
    BY <1>1, <2>1, <2>2, <2>3, <2>4, <2>5, <2>7 DEF Work
<1>2. ASSUME NEW w \in Workers, SelectExpired(w) \/ LoseOuter(w) \/ LoseInner(w) \/ Crash(w)
      PROVE  FALSE
  BY <1>0, <1>2 DEF SelectExpired, LoseOuter, LoseInner, Crash, delivery
<1>3. QED
  BY <1>0, <1>1, <1>2 DEF Next, Working, Elapse, vars, delivery

LEMMA CheckpointedStep ==
  ASSUME Safe, Safe', ContentInv, ContentInv', RepeatInv, [Next]_vars, NEW r \in Reports
  PROVE  CheckpointedOrLost(r)'
<1>0. /\ report \in [Reports -> Row] /\ report[r] \in Row
      /\ outputs \in [Reports -> [Files -> FileStatus]]
      /\ worker \in [Workers -> WorkerState]
      /\ accepted \in [Reports -> [Files -> Nat]]
      /\ lost \in [Reports -> [Files -> Nat]]
      /\ lost' \in [Reports -> [Files -> Nat]]
      /\ CheckpointedOrLost(r) /\ RepeatedForLoss(r)
      /\ Excused \subseteq Excused'
  BY ExcusedGrows DEF Safe, TypeOK, RepeatInv
<1>1. CASE ~report'[r].config
  BY <1>1 DEF CheckpointedOrLost
<1>2. CASE report[r].status = "unused"
  <2>1. \A f \in Files : accepted[r][f] = 0
    BY <1>2 DEF ContentInv, Fresh
  <2>2. accepted'[r] = accepted[r]
    <3>1. ASSUME NEW w \in Workers, NEW f \in Files, Send(w, f)
          PROVE  At(w) # r
      BY <1>2, <3>1 DEF Send, Stands, ContentInv, Known, Owning, Processing
    <3>2. QED  BY <3>1, AcceptedBySend
  <2>3. QED  BY <1>0, <2>1, <2>2 DEF CheckpointedOrLost
<1>3. CASE ~StillThere(r)
  <2>1. ~report'[r].config
    BY <1>3 DEF ContentInv, Fresh, Present, StillThere
  <2>2. QED  BY <1>1, <2>1
<1>4. ASSUME report[r].status # "unused", StillThere(r)
      PROVE  CheckpointedOrLost(r)'
  <2>1. report'[r].config => report[r].config
    BY <1>4, RowsLast DEF RowLasts
  \* Every delivery on its way but that of f stays on its way, and f itself
  \* is accounted for.
  <2>2. ASSUME \A f \in Files :
                 \/ outputs'[r][f] = "sent"
                 \/ InFlight(r, f)'
                 \/ accepted'[r][f] <= lost'[r][f]
                 \/ /\ outputs[r][f] # "sent"
                    /\ ~InFlight(r, f)
                    /\ accepted'[r][f] = accepted[r][f]
                    /\ lost'[r][f] = lost[r][f]
        PROVE  CheckpointedOrLost(r)'
    BY <1>0, <2>1, <2>2 DEF CheckpointedOrLost
  <2>3. ASSUME Counted(r),
               \A f \in Files : outputs[r][f] = "sent" => outputs'[r][f] = "sent",
               \A f \in Files : InFlight(r, f) => InFlight(r, f)'
        PROVE  CheckpointedOrLost(r)'
    BY <2>2, <2>3 DEF Counted
  <2>4. ASSUME UNCHANGED worker,
               \/ Requesting /\ UNCHANGED <<workers, delivery, faults, overrun, unfenced>>
               \/ \E q \in Reports : Elapse(q)
               \/ UNCHANGED vars
        PROVE  CheckpointedOrLost(r)'
    <3>1. \A f \in Files : InFlight(r, f) => InFlight(r, f)'
      BY <2>4 DEF InFlight, At
    <3>2. Counted(r) /\ Kept(r)
      <4>1. CASE UNCHANGED vars
        BY <4>1 DEF vars, tables, delivery, Counted, Kept
      <4>2. QED  BY <1>4, <2>4, <4>1, UndisturbedByRequests
    <3>3. QED  BY <2>3, <3>1, <3>2 DEF Kept
  <2>5. ASSUME NEW w \in Workers, Steps(w)
        PROVE  CheckpointedOrLost(r)'
    <3>0. /\ \A v \in Workers \ {w} : worker'[v] = worker[v]
          /\ Placed(w)
      BY <2>5, OthersStay DEF Steps, Safe, LockInv
    <3>1. ASSUME NEW f \in Files, InFlight(r, f),
                 ~(worker[w].pc = "accepted" /\ At(w) = r /\ worker[w].file = f)
          PROVE  InFlight(r, f)'
      BY <3>0, <3>1 DEF InFlight, At
    <3>2. CASE worker[w].pc # "accepted" \/ At(w) # r \/ worker'[w] = worker[w]
      <4>1. \A f \in Files : InFlight(r, f) => InFlight(r, f)'
        <5>1. CASE worker'[w] = worker[w]
          BY <3>0, <5>1 DEF InFlight, At
        <5>2. QED  BY <3>1, <3>2, <5>1
      <4>2. CASE UNCHANGED <<outputs, delivery>>
        BY <2>3, <4>1, <4>2 DEF Counted, delivery
      <4>3. ASSUME NEW q \in Reports, Claim(w, q)
            PROVE  CheckpointedOrLost(r)'
        BY <4>2, <4>3 DEF Claim, tables
      <4>4. CASE \/ Begin(w) \/ Yield(w) \/ Start(w) \/ Capture(w) \/ Plan(w)
                 \/ Finish(w) \/ Fail(w) \/ ReadFailure(w) \/ RecordFailure(w)
                 \/ Refused(w) \/ SelectExpired(w) \/ LoseOuter(w) \/ LoseInner(w)
        BY <4>2, <4>4 DEF Begin, Yield, Start, Capture, Plan, Finish, Fail, ReadFailure,
             RecordFailure, Refused, SelectExpired, LoseOuter, LoseInner, tables
      <4>5. ASSUME NEW s, Query(w, s) \/ Split(w, s)
            PROVE  CheckpointedOrLost(r)'
        BY <4>2, <4>5 DEF Query, Split
      <4>6. CASE Render(w) \/ Checkpoint(w)
        <5>1. \A f \in Files : outputs[r][f] = "sent" => outputs'[r][f] = "sent"
          <6>1. CASE Render(w) /\ At(w) = r
            <7>1. outputs[r] # NoOutputs => outputs'[r] = outputs[r]
              BY <1>0, <6>1 DEF Render
            <7>2. outputs[r] = NoOutputs => \A f \in Files : outputs[r][f] # "sent"
              BY DEF NoOutputs
            <7>3. QED  BY <7>1, <7>2
          <6>2. CASE Render(w) /\ At(w) # r
            BY <1>0, <6>2 DEF Render
          <6>3. CASE Checkpoint(w)
            BY <1>0, <6>3 DEF Checkpoint
          <6>4. QED  BY <4>6, <6>1, <6>2, <6>3
        <5>2. Counted(r)
          BY <4>6 DEF Render, Checkpoint, delivery, Counted
        <5>3. QED  BY <2>3, <4>1, <5>1, <5>2
      <4>7. CASE Purge(w)
        <5>1. CASE report'[r] = Expired(report[r])
          <6>1. ~report'[r].config
            BY <1>0, <5>1 DEF Expired, Row
          <6>2. QED  BY <1>1, <6>1
        <5>2. CASE ~(r \in worker[w].ids /\ Present(r))
          <6>1. outputs'[r] = outputs[r] /\ Counted(r)
            BY <4>7, <5>2 DEF Purge, Counted, delivery
          <6>2. QED  BY <2>3, <4>1, <6>1
        <5>3. QED  BY <4>7, <5>1, <5>2 DEF Purge
      <4>8. ASSUME NEW f \in Files, Send(w, f)
            PROVE  CheckpointedOrLost(r)'
        <5>1. CASE At(w) = r
          <6>1. InFlight(r, f)'
            <7>1. worker'[w].pc = "accepted" /\ worker'[w].at = r /\ worker'[w].file = f
              BY <1>0, <4>8, <5>1 DEF Send, WorkerState, At
            <7>2. QED  BY <7>1 DEF InFlight, At
          <6>2. /\ \A g \in Files \ {f} : accepted'[r][g] = accepted[r][g]
                /\ lost' = lost /\ outputs' = outputs
            BY <1>0, <4>8, <5>1 DEF Send, tables
          <6>3. QED  BY <2>2, <4>1, <6>1, <6>2
        <5>2. CASE At(w) # r
          <6>1. Counted(r) /\ outputs' = outputs
            BY <1>0, <4>8, <5>2 DEF Send, tables, Counted
          <6>2. QED  BY <2>3, <4>1, <6>1
        <5>3. QED  BY <5>1, <5>2
      <4>9. CASE FailCheckpoint(w) \/ Crash(w)
        <5>1. worker'[w].pc # worker[w].pc
          BY <1>0, <4>9 DEF FailCheckpoint, Crash, Stands, Rests, IdleWorker, WorkerState
        <5>2. worker[w].pc # "accepted" \/ At(w) # r
          BY <3>2, <5>1
        <5>3. Counted(r) /\ outputs' = outputs
          BY <1>0, <4>9, <5>2 DEF FailCheckpoint, Crash, Stands, tables, Counted
        <5>4. QED  BY <2>3, <4>1, <5>3
      <4>10. QED
        BY <2>5, <4>3, <4>4, <4>5, <4>6, <4>7, <4>8, <4>9 DEF Steps, Work
    <3>3. CASE worker[w].pc = "accepted" /\ At(w) = r
      <4>1. PICK f \in Files : f = worker[w].file
        BY <3>0, <3>3 DEF Placed
      <4>2. \A g \in Files \ {f} : InFlight(r, g) => InFlight(r, g)'
        BY <3>1, <4>1
      <4>3. CASE Checkpoint(w)
        <5>1. /\ outputs'[r] = [outputs[r] EXCEPT ![f] = "sent"]
              /\ accepted' = accepted /\ lost' = lost
          BY <1>0, <3>3, <4>1, <4>3 DEF Checkpoint, delivery
        <5>2. outputs'[r][f] = "sent"
                /\ \A g \in Files \ {f} : outputs'[r][g] = outputs[r][g]
          BY <1>0, <5>1
        <5>3. QED  BY <2>2, <4>2, <5>1, <5>2
      <4>4. CASE FailCheckpoint(w) \/ Crash(w)
        <5>1. /\ lost'[r] = [lost[r] EXCEPT ![f] = @ + 1]
              /\ accepted' = accepted /\ outputs' = outputs
          BY <1>0, <3>3, <4>1, <4>4 DEF FailCheckpoint, Crash, Stands, tables
        <5>2. r \notin Excused => accepted'[r][f] <= lost'[r][f]
          BY <1>0, <5>1 DEF RepeatedForLoss
        <5>3. \A g \in Files \ {f} : lost'[r][g] = lost[r][g]
          BY <1>0, <5>1
        <5>4. CASE r \in Excused
          BY <1>0, <5>4 DEF CheckpointedOrLost
        <5>5. CASE r \notin Excused
          BY <2>2, <4>2, <5>1, <5>2, <5>3, <5>5
        <5>6. QED  BY <5>4, <5>5
      <4>5. CASE LoseOuter(w) \/ LoseInner(w)
        BY <3>2, <4>5 DEF LoseOuter, LoseInner
      <4>6. ASSUME NEW q \in Reports, Claim(w, q)
            PROVE  FALSE
        BY <3>3, <4>6 DEF Claim, Stands
      <4>7. ASSUME NEW s, Query(w, s) \/ Split(w, s)
            PROVE  FALSE
        BY <3>3, <4>7 DEF Query, Split, Stands
      <4>8. ASSUME NEW g \in Files, Send(w, g)
            PROVE  FALSE
        BY <3>3, <4>8 DEF Send, Stands
      <4>9. ~(\/ Begin(w) \/ Yield(w) \/ Start(w) \/ Capture(w) \/ Plan(w)
              \/ Render(w) \/ Finish(w) \/ Fail(w) \/ ReadFailure(w)
              \/ RecordFailure(w) \/ Refused(w) \/ Purge(w) \/ SelectExpired(w))
        BY <3>3 DEF Begin, Yield, Start, Capture, Plan, Render, Finish, Fail,
                    ReadFailure, RecordFailure, Refused, Purge, SelectExpired, Stands,
                    Processing
      <4>10. QED
        BY <2>5, <4>3, <4>4, <4>5, <4>6, <4>7, <4>8, <4>9 DEF Steps, Work
    <3>4. QED  BY <3>2, <3>3
  <2>6. QED
    BY <2>4, <2>5 DEF Next, Working, Steps, Elapse, vars, workers
<1>5. QED  BY <1>2, <1>3, <1>4

\* The configuration a worker read stays with its report.
LEMMA ConfigStep ==
  ASSUME Safe, ContentInv, RepeatInv, [Next]_vars, NEW v \in Workers
  PROVE  ConfigStays(v)'
<1> SUFFICES ASSUME worker'[v].pc \in Processing, worker'[v].config,
                    At(v)' \notin Excused', Present(At(v))'
             PROVE  report'[At(v)'].config
  BY DEF ConfigStays
<1>0. /\ worker \in [Workers -> WorkerState] /\ worker[v] \in WorkerState
      /\ report \in [Reports -> Row]
      /\ worker[v].pc \in {"claimed"} \cup Processing => At(v) \in Reports
      /\ ConfigStays(v)
      /\ Excused \subseteq Excused'
  BY ExcusedGrows DEF Safe, TypeOK, LockInv, Placed, Owning, RepeatInv
<1>1. CASE worker[v].pc \in Processing /\ ~Steps(v)
  <2>1. /\ worker'[v] = worker[v] /\ At(v)' = At(v)
    BY <1>1, StaysPut DEF At
  <2>2. At(v) \notin Excused /\ At(v) \notin unfenced /\ At(v) \notin overrun'
    BY <1>0, <2>1 DEF Excused
  <2>3. Kept(At(v)) /\ Present(At(v))
    BY <1>1, <2>1, <2>2, Undisturbed DEF Present, StillThere
  <2>4. QED  BY <1>0, <1>1, <2>1, <2>2, <2>3 DEF ConfigStays, Kept
<1>2. CASE worker[v].pc \notin Processing /\ ~Steps(v)
  BY <1>2, StaysPut
<1>3. ASSUME worker[v].pc \in Processing, At(v)' = At(v),
             worker'[v].config = worker[v].config,
             report'[At(v)].config = report[At(v)].config,
             report'[At(v)].status = report[At(v)].status
      PROVE  report'[At(v)'].config
  BY <1>0, <1>3 DEF ConfigStays, Present
<1>4. CASE Start(v)
  <2>1. PICK r \in Reports : r = At(v)
    BY <1>0, <1>4 DEF Start, Stands
  <2>2. worker'[v].config = report[r].config /\ worker'[v].at = r /\ report' = report
    BY <1>0, <1>4, <2>1 DEF Start, WorkerState, At, tables
  <2>3. QED  BY <2>2 DEF At
<1>5. CASE Capture(v) \/ Plan(v) \/ Render(v)
  <2>1. PICK r \in Reports : r = At(v)
    BY <1>0, <1>5 DEF Capture, Plan, Render, Stands, Processing
  <2>2. worker'[v].config = worker[v].config /\ worker'[v].at = r
    <3>1. CASE Capture(v) \/ Plan(v)
      <4>1. PICK pc : worker' = [worker EXCEPT ![v].pc = pc]
        BY <3>1 DEF Capture, Plan, Moves
      <4>2. worker'[v] = [worker[v] EXCEPT !.pc = pc]
        BY <1>0, <4>1
      <4>3. QED  BY <1>0, <2>1, <4>2 DEF WorkerState, At
    <3>2. CASE Render(v)
      <4>1. PICK pc, set : worker' = [worker EXCEPT ![v].pc = pc, ![v].todo = set]
        BY <3>2 DEF Render
      <4>2. worker'[v] = [worker[v] EXCEPT !.pc = pc, !.todo = set]
        BY <1>0, <4>1
      <4>3. QED  BY <1>0, <2>1, <4>2 DEF WorkerState, At
    <3>3. QED  BY <1>5, <3>1, <3>2
  <2>3. report'[r].config = report[r].config /\ report'[r].status = report[r].status
    <3>1. CASE Capture(v) \/ Plan(v)
      BY <1>0, <2>1, <3>1 DEF Capture, Plan, Row
    <3>2. CASE Render(v)
      <4>1. \E b : report' = [report EXCEPT ![r].artifact = b]
        BY <1>0, <2>1, <3>2 DEF Render
      <4>2. QED  BY <1>0, <4>1 DEF Row
    <3>3. QED  BY <1>5, <3>1, <3>2
  <2>4. worker[v].pc \in Processing
    BY <1>5 DEF Capture, Plan, Render, Stands, Processing
  <2>5. At(v)' = At(v)
    BY <2>1, <2>2 DEF At
  <2>6. QED  BY <1>3, <2>1, <2>2, <2>3, <2>4, <2>5
<1>6. CASE Checkpoint(v) \/ LoseOuter(v) \/ LoseInner(v) \/ \E f \in Files : Send(v, f)
  <2>1. worker'[v].config = worker[v].config /\ worker'[v].at = worker[v].at
    <3>1. CASE Checkpoint(v)
      BY <1>0, <3>1 DEF Checkpoint, WorkerState
    <3>2. ASSUME NEW f \in Files, Send(v, f)
          PROVE  worker'[v].config = worker[v].config /\ worker'[v].at = worker[v].at
      BY <1>0, <3>2 DEF Send, WorkerState
    <3>3. CASE LoseOuter(v) \/ LoseInner(v)
      BY <3>3 DEF LoseOuter, LoseInner
    <3>4. QED  BY <1>6, <3>1, <3>2, <3>3
  <2>2. report' = report
    BY <1>6 DEF Checkpoint, LoseOuter, LoseInner, Send, tables
  <2>3. CASE worker[v].pc \in Processing
    BY <1>3, <2>1, <2>2, <2>3 DEF At
  <2>4. CASE worker[v].pc \notin Processing
    <3>1. LoseOuter(v) \/ LoseInner(v)
      BY <1>6, <2>4 DEF Checkpoint, Send, Stands, Processing
    <3>2. worker' = worker
      BY <3>1 DEF LoseOuter, LoseInner
    <3>3. QED  BY <2>4, <3>2
  <2>5. QED  BY <2>3, <2>4
<1>7. ASSUME NEW s, Query(v, s) \/ Split(v, s)
      PROVE  report'[At(v)'].config
  <2>1. worker' = worker /\ report' = report /\ worker[v].pc \in Processing
    BY <1>7 DEF Query, Split, workers, Stands, Processing
  <2>2. QED  BY <1>3, <2>1 DEF At
<1>8. ASSUME NEW r \in Reports, Claim(v, r)
      PROVE  FALSE
  <2>1. worker'[v].pc \in {"claiming", "claimed"}
    BY <1>0, <1>8 DEF Claim, WorkerState
  <2>2. QED  BY <2>1 DEF Processing
<1>9. CASE \/ Begin(v) \/ Yield(v) \/ Finish(v) \/ ReadFailure(v) \/ RecordFailure(v)
           \/ Refused(v) \/ Purge(v) \/ Crash(v)
           \/ SelectExpired(v) \/ Fail(v) \/ FailCheckpoint(v)
  <2>1. worker'[v].pc \in {"claimed", "recording", "idle", "purge", "failing"}
    BY <1>0, <1>9 DEF Begin, Yield, Finish, ReadFailure, RecordFailure, Refused, Purge,
         Crash, SelectExpired, Fail, FailCheckpoint, Rests, Moves, IdleWorker, WorkerState
  <2>2. QED  BY <2>1 DEF Processing
<1>10. QED
  BY <1>1, <1>2, <1>4, <1>5, <1>6, <1>7, <1>8, <1>9 DEF Steps, Work

\* What a worker has yet to deliver has no acceptance that is not accounted for.
LEMMA TodoStep ==
  ASSUME Safe, ContentInv, RepeatInv, [Next]_vars, NEW v \in Workers
  PROVE  TodoUnaccepted(v)'
<1>0. /\ worker \in [Workers -> WorkerState] /\ worker[v] \in WorkerState
      /\ outputs \in [Reports -> [Files -> FileStatus]]
      /\ accepted \in [Reports -> [Files -> Nat]]
      /\ report \in [Reports -> Row]
      /\ worker[v].pc \in Processing => At(v) \in Reports
      /\ worker[v].pc = "accepted" => worker[v].file \in Files
      /\ TodoUnaccepted(v)
      /\ Excused \subseteq Excused'
  BY ExcusedGrows DEF Safe, TypeOK, LockInv, Placed, Owning, RepeatInv
<1>1. CASE worker'[v].pc \notin Delivering
  BY <1>1 DEF TodoUnaccepted
<1>2. CASE worker'[v].pc \in Delivering /\ ~Steps(v)
  <2>1. worker'[v] = worker[v] /\ At(v)' = At(v) /\ worker[v].pc \in Processing
    BY <1>2, StaysPut DEF At, Delivering, Processing
  <2>2. At(v) \notin Excused' => At(v) \notin Excused /\ Counted(At(v))
    BY <1>0, <1>2, <2>1, Undisturbed DEF Excused
  <2>3. QED  BY <1>0, <2>1, <2>2 DEF TodoUnaccepted, Counted
<1>3. CASE Render(v) /\ worker'[v].pc \in Delivering
  <2>1. PICK r \in Reports : r = At(v)
    BY <1>0, <1>3 DEF Render, Stands, Processing
  <2>2. PICK files : files = IF outputs[r] = NoOutputs
               THEN [f \in Files |-> IF report[r].delivery THEN "pending" ELSE "ready"]
               ELSE outputs[r]
    OBVIOUS
  <2>3. /\ worker'[v].todo = ToDeliver(r, files) /\ worker'[v].at = r
        /\ report[r].delivery => worker[v].config
    BY <1>0, <1>3, <2>1, <2>2 DEF Render, WorkerState, At, Delivering
  <2>4. Present(r) /\ UNCHANGED <<delivery, Excused>> /\ worker[v].pc = "query"
    BY <1>3, <2>1 DEF Render, Stands, Excused
  <2>5. \A f \in Files : files[f] # "sent" => outputs[r][f] # "sent"
    BY <1>0, <2>2 DEF NoOutputs
  <2>6. r \notin Excused => \A f \in Files : ~InFlight(r, f)
    BY <2>1, <2>4 DEF InFlight, Safe, LockInv, HoldsInner, Processing, Excused
  <2>7. r \notin Excused /\ report[r].delivery => report[r].config
    BY <2>1, <2>3, <2>4 DEF RepeatInv, ConfigStays, Processing
  <2>8. r \notin Excused =>
          \A f \in ToDeliver(r, files) : accepted[r][f] <= lost[r][f]
    BY <2>5, <2>6, <2>7 DEF ToDeliver, RepeatInv, CheckpointedOrLost
  <2>9. QED
    BY <2>3, <2>4, <2>8 DEF TodoUnaccepted, At, delivery
<1>4. ASSUME NEW f \in Files, Send(v, f)
      PROVE  TodoUnaccepted(v)'
  <2>1. PICK r \in Reports : r = At(v)
    BY <1>0, <1>4 DEF Send, Stands, Processing
  <2>2. /\ worker'[v].todo = worker[v].todo /\ worker'[v].pc = "accepted"
        /\ worker'[v].at = r /\ worker'[v].file = f /\ worker[v].pc = "deliver"
    BY <1>0, <1>4, <2>1 DEF Send, Stands, WorkerState, At
  <2>3. /\ \A g \in Files \ {f} : accepted'[r][g] = accepted[r][g]
        /\ lost' = lost /\ Excused' = Excused
    BY <1>0, <1>4, <2>1 DEF Send, Excused
  <2>4. worker[v].todo \subseteq Files
    BY <1>0 DEF WorkerState
  <2>5. QED
    BY <1>0, <2>1, <2>2, <2>3, <2>4 DEF TodoUnaccepted, Delivering, At
<1>5. CASE Checkpoint(v)
  <2>1. PICK r \in Reports : r = At(v)
    BY <1>0, <1>5 DEF Checkpoint, Stands, Processing
  <2>2. PICK f \in Files : f = worker[v].file
    BY <1>0, <1>5 DEF Checkpoint, Stands
  <2>3. /\ worker'[v].todo = worker[v].todo \ {f} /\ worker'[v].pc = "deliver"
        /\ worker'[v].at = r /\ worker[v].pc = "accepted"
    BY <1>0, <1>5, <2>1, <2>2 DEF Checkpoint, Stands, WorkerState, At
  <2>4. UNCHANGED <<delivery, Excused>>
    BY <1>5 DEF Checkpoint, Excused
  <2>5. QED
    BY <1>0, <2>1, <2>2, <2>3, <2>4 DEF TodoUnaccepted, Delivering, At, delivery
<1>6. CASE LoseOuter(v) \/ LoseInner(v)
  BY <1>0, <1>6 DEF LoseOuter, LoseInner, TodoUnaccepted, At, delivery
<1>7. QED
  BY <1>1, <1>2, <1>3, <1>4, <1>5, <1>6, DeliveringBy

LEMMA RepeatInitially == Init => RepeatInv
BY DEF Init, RepeatInv, RepeatedForLoss, CheckpointedOrLost, ConfigStays,
       TodoUnaccepted, IdleWorker, Processing, Delivering

LEMMA RepeatInvStep ==
  Safe /\ Safe' /\ ContentInv /\ ContentInv' /\ RepeatInv /\ [Next]_vars => RepeatInv'
BY RepeatedStep, CheckpointedStep, ConfigStep, TodoStep DEF RepeatInv

LEMMA AlwaysRepeat == Spec => [](Safe /\ ContentInv /\ RepeatInv)
<1>1. Init => Safe /\ ContentInv /\ RepeatInv
  BY InitType, LockInitially, RowsInitially, ContentInitially, RepeatInitially DEF Safe
<1>2. QED
  BY <1>1, SafeStep, ContentInvStep, RepeatInvStep, PTL DEF Spec

\* Retries, resumes after a crash and second workers deliver a file again only
\* when an earlier acceptance was never checkpointed, unless two threads got
\* to process the report at once because its inner lock was lost.
THEOREM RepeatsOnlyLosses == Spec => []RepeatedOnlyIfLost
<1>1. RepeatInv => RepeatedOnlyIfLost
  BY DEF RepeatInv, RepeatedForLoss, RepeatedOnlyIfLost, Excused
<1>2. QED  BY <1>1, AlwaysRepeat, PTL
-----------------------------------------------------------------------------
\* The outer lock as a fence.

\* A worker holds the outer lock of the report it claimed.
HoldsOuter(w) == worker[w].pc \in Owning => outer[At(w)] = w

\* The report of a claim under way is still as it was read, or gone.
StillQueued(w) ==
  worker[w].pc = "claiming" /\ At(w) \notin overrun
  => report[At(w)].status \in {"queued", "deleted"}

FenceInv == faults = 0 => \A w \in Workers : HoldsOuter(w) /\ StillQueued(w)

\* Faults are counted: what follows looks at behaviours without one.
LEMMA Faultless ==
  ASSUME TypeOK, [Next]_vars, faults' = 0
  PROVE  /\ faults = 0
         /\ \A w \in Workers : ~Crash(w) /\ ~LoseOuter(w) /\ ~LoseInner(w)
<1>0. faults \in Nat
  BY WorkerAssumption DEF TypeOK
<1>1. \A w \in Workers : ~Crash(w) /\ ~LoseOuter(w) /\ ~LoseInner(w)
  BY <1>0 DEF Crash, LoseOuter, LoseInner
<1>2. ASSUME NEW w \in Workers, Work(w) \/ SelectExpired(w)
      PROVE  faults' = faults \/ faults' = faults + 1
  BY <1>2 DEF Work, SelectExpired, Claim, Begin, Yield, Start, Capture, Plan, Query,
              Split, Render, Send, Checkpoint, Finish, Fail, FailCheckpoint,
              ReadFailure, RecordFailure, Refused, Purge
<1>3. QED
  BY <1>0, <1>1, <1>2 DEF Next, Working, Elapse, vars

\* A worker takes an outer lock that is free, keeps it while it works on the
\* report, and releases no lock but its own.
LEMMA OuterStep ==
  ASSUME Safe, NEW w \in Workers, Work(w) \/ SelectExpired(w),
         \A v \in Workers : HoldsOuter(v)
  PROVE  \A v \in Workers : HoldsOuter(v)'
<1>0. /\ worker \in [Workers -> WorkerState] /\ worker[w] \in WorkerState
      /\ outer \in [Reports -> Workers \cup {NoWorker}]
      /\ \A v \in Workers : worker[v].pc \in Owning => At(v) \in Reports
  BY DEF Safe, TypeOK, LockInv, Placed
<1> DEFINE Own == HoldsOuter(w)'
           Keeps == \A r \in Reports : outer[r] \in Workers \ {w} => outer'[r] = outer[r]
<1> SUFFICES Own /\ Keeps
  <2>1. ASSUME NEW v \in Workers \ {w}, Keeps
        PROVE  HoldsOuter(v)'
    <3>1. worker'[v] = worker[v]
      BY OthersStay DEF Safe
    <3>2. QED  BY <1>0, <2>1, <3>1 DEF HoldsOuter, At
  <2>2. QED  BY <2>1
<1>1. ASSUME NEW r \in Reports, Claim(w, r)
      PROVE  Own /\ Keeps
  <2>1. outer'[r] = w /\ \A q \in Reports \ {r} : outer'[q] = outer[q]
    BY <1>0, <1>1 DEF Claim
  <2>2. worker'[w].at = r
    BY <1>0, <1>1 DEF Claim, WorkerState
  <2>3. Own
    BY <2>1, <2>2 DEF HoldsOuter, At
  <2>4. Keeps
    BY <1>1, <2>1, WorkerAssumption DEF Claim, OuterFree
  <2>5. QED  BY <2>3, <2>4
<1>2. CASE Yield(w) \/ RecordFailure(w) \/ Refused(w) \/ Purge(w)
  <2>1. worker'[w].pc = "idle"
    BY <1>0, <1>2 DEF Yield, RecordFailure, Refused, Purge, Rests, IdleWorker
  <2>2. outer' = outer \/ outer' = Releases(outer, w)
    BY <1>2 DEF Yield, RecordFailure, Refused, Purge
  <2>3. Own
    BY <2>1 DEF HoldsOuter, Owning, Processing
  <2>4. Keeps
    BY <2>2 DEF Releases
  <2>5. QED  BY <2>3, <2>4
<1>3. CASE ReadFailure(w)
  <2>1. CASE Rests(w) /\ outer' = Releases(outer, w)
    <3>1. worker'[w].pc = "idle"
      BY <1>0, <2>1 DEF Rests, IdleWorker
    <3>2. QED  BY <2>1, <3>1 DEF HoldsOuter, Owning, Processing, Releases
  <2>2. CASE Moves(w, "recording") /\ outer' = outer
    <3>1. worker'[w].at = At(w) /\ worker[w].pc \in Owning
      BY <1>0, <1>3, <2>2 DEF ReadFailure, Moves, At, WorkerState, Stands, Owning
    <3>2. QED  BY <2>2, <3>1 DEF HoldsOuter, At
  <2>3. QED  BY <1>3, <2>1, <2>2 DEF ReadFailure
<1>9. CASE Finish(w)
  <2>1. CASE Rests(w) /\ outer' = Releases(outer, w)
    <3>1. worker'[w].pc = "idle"
      BY <1>0, <2>1 DEF Rests, IdleWorker
    <3>2. QED  BY <2>1, <3>1 DEF HoldsOuter, Owning, Processing, Releases
  <2>2. CASE Moves(w, "failing") /\ outer' = outer
    <3>1. worker'[w].at = At(w) /\ worker[w].pc \in Owning
      BY <1>0, <1>9, <2>2
         DEF Finish, Moves, At, WorkerState, Stands, Owning, Processing
    <3>2. QED  BY <2>2, <3>1 DEF HoldsOuter, At
  <2>3. QED  BY <1>9, <2>1, <2>2 DEF Finish
<1>4. CASE \/ Begin(w) \/ Start(w) \/ Capture(w) \/ Plan(w) \/ Render(w)
           \/ Checkpoint(w) \/ Fail(w) \/ FailCheckpoint(w)
  <2>1. outer' = outer /\ worker[w].pc \in Owning
    BY <1>4 DEF Begin, Start, Capture, Plan, Render, Checkpoint, Fail, FailCheckpoint,
                Stands, Owning, Processing
  <2>2. worker'[w].at = At(w)
    BY <1>0, <1>4 DEF Begin, Start, Capture, Plan, Render, Checkpoint, Fail,
                      FailCheckpoint, Moves, At, WorkerState
  <2>3. QED  BY <2>1, <2>2 DEF HoldsOuter, At
<1>5. ASSUME NEW s, Query(w, s) \/ Split(w, s)
      PROVE  Own /\ Keeps
  BY <1>5 DEF Query, Split, workers, HoldsOuter, At
<1>6. ASSUME NEW f \in Files, Send(w, f)
      PROVE  Own /\ Keeps
  <2>1. outer' = outer /\ worker[w].pc \in Owning
    BY <1>6 DEF Send, Stands, Owning, Processing
  <2>2. worker'[w].at = At(w)
    BY <1>0, <1>6 DEF Send, At, WorkerState
  <2>3. QED  BY <2>1, <2>2 DEF HoldsOuter, At
<1>7. CASE SelectExpired(w)
  <2>1. outer' = outer /\ worker'[w].pc = "purge"
    BY <1>0, <1>7 DEF SelectExpired, WorkerState
  <2>2. QED  BY <2>1 DEF HoldsOuter, Owning, Processing
<1>8. QED
  BY <1>1, <1>2, <1>3, <1>4, <1>5, <1>6, <1>7, <1>9 DEF Work

\* The rows a step of worker w may rewrite: the one of the report it owns,
\* and those its purge reclaims.
LEMMA OwnRowOnly ==
  ASSUME Safe, NEW w \in Workers, Work(w) \/ SelectExpired(w),
         NEW r \in Reports, report'[r] # report[r]
  PROVE  \/ worker[w].pc \in Owning /\ At(w) = r
         \/ Purge(w) /\ Present(r) /\ (report[r].status \in Live => r \in overrun')
<1>0. report \in [Reports -> Row]
  BY DEF Safe, TypeOK
<1>1. CASE Begin(w) \/ Capture(w) \/ Render(w) \/ Finish(w) \/ RecordFailure(w)
  <2>1. worker[w].pc \in Owning
    BY <1>1 DEF Begin, Capture, Render, Finish, RecordFailure, Stands, Owning, Processing
  <2>2. At(w) = r
    BY <1>0, <1>1 DEF Begin, Capture, Render, Finish, RecordFailure
  <2>3. QED  BY <2>1, <2>2
<1>2. CASE Purge(w)
  BY <1>2 DEF Purge
<1>3. CASE \/ Yield(w) \/ Start(w) \/ Plan(w) \/ Checkpoint(w) \/ Fail(w)
           \/ FailCheckpoint(w) \/ ReadFailure(w) \/ Refused(w) \/ SelectExpired(w)
  BY <1>3 DEF Yield, Start, Plan, Checkpoint, Fail, FailCheckpoint, ReadFailure,
              Refused, SelectExpired, tables
<1>4. ASSUME NEW q \in Reports, Claim(w, q)
      PROVE  FALSE
  BY <1>4 DEF Claim, tables
<1>5. ASSUME NEW s, Query(w, s) \/ Split(w, s)
      PROVE  FALSE
  BY <1>5 DEF Query, Split
<1>6. ASSUME NEW f \in Files, Send(w, f)
      PROVE  FALSE
  BY <1>6 DEF Send, tables
<1>7. QED
  BY <1>1, <1>2, <1>3, <1>4, <1>5, <1>6 DEF Work

\* Requests leave a queued or deleted report queued or deleted.
LEMMA RequestsKeepQueued ==
  ASSUME Safe, Requesting, NEW r \in Reports, report[r].status \in {"queued", "deleted"}
  PROVE  report'[r].status \in {"queued", "deleted"}
<1>0. /\ report \in [Reports -> Row] /\ report[r] \in Row
      /\ r \notin FreeRows
  BY DEF Safe, TypeOK, FreeRows
<1>1. ASSUME NEW c \in Clients, Requeue(c)
      PROVE  report'[r].status \in {"queued", "deleted"}
  <2>1. Requeued(report[r]).status = "queued"
    BY <1>0 DEF Requeued, Row
  <2>2. QED  BY <1>0, <1>1, <2>1 DEF Requeue
<1>2. ASSUME NEW c \in Clients, NEW q \in Reports, NEW b \in BOOLEAN, InsertRun(c, q, b)
      PROVE  report'[r] = report[r]
  BY <1>0, <1>2 DEF InsertRun, NextRow
<1>3. ASSUME NEW q \in Reports, NEW d \in BOOLEAN, NEW b \in BOOLEAN,
             EnqueueReport(q, d, b)
      PROVE  report'[r] = report[r]
  BY <1>0, <1>3 DEF EnqueueReport, NextRow
<1>4. ASSUME NEW j \in Jobs, DeleteJob(j)
      PROVE  report'[r].status \in {"queued", "deleted"}
  BY <1>4 DEF DeleteJob, Unused
<1>5. QED
  BY <1>1, <1>2, <1>3, <1>4
     DEF Requesting, Retry, ManualRun, RunDue, RequeueRefused, FindFailedRun,
         CheckFailedReport, InsertRefused, tables

LEMMA FenceStep == Safe /\ FenceInv /\ [Next]_vars => FenceInv'
<1> SUFFICES ASSUME Safe, FenceInv, [Next]_vars, faults' = 0
             PROVE  \A v \in Workers : HoldsOuter(v)' /\ StillQueued(v)'
  BY DEF FenceInv
<1>0. /\ worker \in [Workers -> WorkerState]
      /\ report \in [Reports -> Row]
      /\ \A v \in Workers : worker[v].pc \in Owning => At(v) \in Reports
      /\ overrun \subseteq overrun'
  BY OverrunGrows DEF Safe, TypeOK, LockInv, Placed
<1>1. /\ \A w \in Workers : ~Crash(w) /\ ~LoseOuter(w) /\ ~LoseInner(w)
      /\ \A v \in Workers : HoldsOuter(v) /\ StillQueued(v)
  BY Faultless DEF Safe, FenceInv
<1>2. CASE Requesting /\ UNCHANGED <<workers, delivery, faults, overrun, unfenced>>
  BY <1>0, <1>1, <1>2, RequestsKeepQueued
     DEF workers, HoldsOuter, StillQueued, At, Owning
<1>3. ASSUME NEW w \in Workers, Work(w) \/ SelectExpired(w), NEW v \in Workers
      PROVE  StillQueued(v)'
  <2> SUFFICES ASSUME worker'[v].pc = "claiming", At(v)' \notin overrun'
               PROVE  report'[At(v)'].status \in {"queued", "deleted"}
    BY DEF StillQueued
  <2>1. CASE v # w
    <3>1. worker'[v] = worker[v]
      BY <1>3, <2>1, OthersStay DEF Safe
    <3>2. /\ worker[v].pc = "claiming" /\ At(v)' = At(v) /\ At(v) \in Reports
          /\ outer[At(v)] = v /\ report[At(v)].status \in {"queued", "deleted"}
      BY <1>0, <1>1, <3>1 DEF At, Owning, HoldsOuter, StillQueued
    <3>3. ~(worker[w].pc \in Owning /\ At(w) = At(v))
      BY <1>1, <2>1, <3>2 DEF HoldsOuter
    <3>4. report'[At(v)] = report[At(v)]
      BY <1>3, <3>2, <3>3, OwnRowOnly DEF Present, Stored, Live
    <3>5. QED  BY <3>2, <3>4
  <2>2. CASE v = w
    <3>1. PICK r \in Reports : Claim(w, r)
      <4>1. worker[w] \in WorkerState
        BY <1>0
      <4>2. CASE \/ Begin(w) \/ Yield(w) \/ Start(w) \/ Capture(w) \/ Plan(w)
                 \/ Checkpoint(w) \/ Finish(w)
        BY <1>0, <4>1, <4>2, <2>2
           DEF Begin, Yield, Start, FirstStep, Capture, Plan, Checkpoint, Finish,
               Moves, Rests, IdleWorker, WorkerState
      <4>3. CASE \/ Fail(w) \/ FailCheckpoint(w) \/ ReadFailure(w) \/ RecordFailure(w)
                 \/ Refused(w) \/ Purge(w) \/ SelectExpired(w) \/ Render(w)
        BY <1>0, <4>1, <4>3, <2>2
           DEF Fail, FailCheckpoint, ReadFailure, RecordFailure, Refused, Purge,
               SelectExpired, Render, Moves, Rests, IdleWorker, WorkerState
      <4>4. ASSUME NEW s, Query(w, s) \/ Split(w, s)
            PROVE  FALSE
        BY <4>4, <2>2 DEF Query, Split, workers, Stands
      <4>5. ASSUME NEW f \in Files, Send(w, f)
            PROVE  FALSE
        BY <1>0, <4>1, <4>5, <2>2 DEF Send, WorkerState
      <4>6. QED  BY <1>3, <4>2, <4>3, <4>4, <4>5 DEF Work
    <3>2. /\ worker'[w].at = r /\ report' = report
          /\ worker'[w].pc = IF report[r].status = "queued" THEN "claiming" ELSE "claimed"
      BY <1>0, <3>1 DEF Claim, WorkerState, tables
    <3>3. report'[r].status = "queued"
      BY <2>2, <3>2
    <3>4. QED  BY <2>2, <3>2, <3>3 DEF At
  <2>3. QED  BY <2>1, <2>2
<1>4. ASSUME NEW w \in Workers, Work(w) \/ SelectExpired(w)
      PROVE  \A v \in Workers : HoldsOuter(v)' /\ StillQueued(v)'
  BY <1>1, <1>3, <1>4, OuterStep
<1>5. ASSUME NEW r \in Reports, Elapse(r)
      PROVE  \A v \in Workers : HoldsOuter(v)' /\ StillQueued(v)'
  <2>1. \A q \in Reports : report'[q].status = report[q].status
    BY <1>0, <1>5 DEF Elapse, Row
  <2>2. UNCHANGED <<worker, outer, overrun>>
    BY <1>5 DEF Elapse, workers
  <2>3. QED  BY <1>0, <1>1, <2>1, <2>2 DEF HoldsOuter, StillQueued, At, Owning
<1>6. CASE UNCHANGED vars
  BY <1>1, <1>6 DEF vars, tables, workers, HoldsOuter, StillQueued, At
<1>7. QED
  BY <1>1, <1>2, <1>4, <1>5, <1>6 DEF Next, Working

LEMMA AlwaysFenced == Spec => [](Safe /\ FenceInv)
<1>1. Init => FenceInv
  BY DEF Init, FenceInv, HoldsOuter, StillQueued, IdleWorker, Owning, Processing
<1>2. QED  BY <1>1, AlwaysSafe, FenceStep, PTL DEF Spec

\* Without a fault, what a worker of run_one sets running was live until
\* that step, unless a purge took it: only the holder of the outer lock ends
\* a queued report, and a claim keeps the lock until it has committed.
THEOREM ClaimsAreLive == Spec => ClaimsWhatIsLive
<1>1. ASSUME Safe, FenceInv, [Next]_vars, NEW r \in Reports \ overrun,
             faults = 0, report'[r].status = "running"
      PROVE  report[r].status \in Live
  <2>0. /\ report \in [Reports -> Row] /\ report[r] \in Row
        /\ \A w \in Workers : HoldsOuter(w) /\ StillQueued(w)
    BY <1>1 DEF Safe, TypeOK, FenceInv
  <2>1. CASE report'[r].status = report[r].status
    BY <1>1, <2>1 DEF Live
  <2>2. CASE report'[r] = report[r]
    BY <2>1, <2>2
  <2>3. CASE Requesting
    <3>1. ASSUME NEW c \in Clients, Requeue(c)
          PROVE  report'[r] = report[r]
      <4>1. Requeued(report[r]).status = "queued"
        BY <2>0 DEF Requeued, Row
      <4>2. QED  BY <1>1, <2>0, <3>1, <4>1 DEF Requeue
    <3>2. ASSUME NEW c \in Clients, NEW q \in Reports, NEW b \in BOOLEAN,
                 InsertRun(c, q, b)
          PROVE  report'[r] = report[r]
      <4>1. NewRow(client[c].job, TRUE, b).status # "running"
        BY DEF NewRow, Unused
      <4>2. QED  BY <1>1, <2>0, <3>2, <4>1 DEF InsertRun
    <3>3. ASSUME NEW q \in Reports, NEW d \in BOOLEAN, NEW b \in BOOLEAN,
                 EnqueueReport(q, d, b)
          PROVE  report'[r] = report[r]
      <4>1. NewRow(NoJob, d, b).status # "running"
        BY DEF NewRow, Unused
      <4>2. QED  BY <1>1, <2>0, <3>3, <4>1 DEF EnqueueReport
    <3>4. ASSUME NEW j \in Jobs, DeleteJob(j)
          PROVE  report'[r] = report[r]
      BY <1>1, <3>4 DEF DeleteJob, Unused
    <3>5. QED
      BY <2>2, <2>3, <3>1, <3>2, <3>3, <3>4
         DEF Requesting, Retry, ManualRun, RunDue, RequeueRefused, FindFailedRun,
             CheckFailedReport, InsertRefused, tables
  <2>4. ASSUME NEW w \in Workers, Work(w) \/ SelectExpired(w)
        PROVE  report[r].status \in Live
    <3>1. CASE Begin(w) /\ At(w) = r
      <4>1. worker[w].pc = "claiming" /\ Present(r)
        BY <3>1 DEF Begin, Stands
      <4>2. QED  BY <1>1, <2>0, <3>1, <4>1 DEF StillQueued, Present, Stored, Live
    <3>2. CASE Capture(w) \/ Render(w)
      <4>1. report'[r].status = report[r].status
        BY <2>0, <3>2 DEF Capture, Render, Row
      <4>2. QED  BY <2>1, <4>1
    <3>3. CASE Finish(w)
      BY <1>1, <2>0, <2>2, <3>3 DEF Finish, Row
    <3>4. CASE RecordFailure(w)
      <4>1. Failed(report[r]).status = "failed"
        BY <2>0 DEF Failed, Row
      <4>2. QED  BY <1>1, <2>0, <2>2, <3>4, <4>1 DEF RecordFailure
    <3>5. CASE Purge(w)
      <4>1. Expired(report[r]).status = "expired"
        BY <2>0 DEF Expired, Row
      <4>2. QED  BY <1>1, <2>2, <3>5, <4>1 DEF Purge
    <3>6. CASE Begin(w) /\ At(w) # r
      BY <2>0, <2>2, <3>6 DEF Begin
    <3>7. CASE UNCHANGED report
      BY <2>2, <3>7
    <3>8. CASE \/ Yield(w) \/ Start(w) \/ Plan(w) \/ Checkpoint(w) \/ Fail(w)
               \/ FailCheckpoint(w) \/ ReadFailure(w) \/ Refused(w) \/ SelectExpired(w)
               \/ (\E q \in Reports : Claim(w, q)) \/ (\E f \in Files : Send(w, f))
               \/ (\E s \in Pending(At(w)) : Query(w, s) \/ Split(w, s))
      BY <3>7, <3>8 DEF Yield, Start, Plan, Checkpoint, Fail, FailCheckpoint,
                        ReadFailure, Refused, SelectExpired, Claim, Send, Query, Split,
                        tables
    <3>9. QED
      BY <2>4, <3>1, <3>2, <3>3, <3>4, <3>5, <3>6, <3>8 DEF Work
  <2>5. ASSUME NEW w \in Workers, Crash(w) \/ LoseOuter(w) \/ LoseInner(w)
        PROVE  report'[r] = report[r]
    BY <2>5 DEF Crash, LoseOuter, LoseInner, tables
  <2>6. ASSUME NEW q \in Reports, Elapse(q)
        PROVE  report'[r].status = report[r].status
    BY <2>0, <2>6 DEF Elapse, Row
  <2>7. QED
    BY <1>1, <2>1, <2>2, <2>3, <2>4, <2>5, <2>6 DEF Next, Working, vars, tables
<1>2. Safe /\ FenceInv /\ [Next]_vars =>
        [\A r \in Reports \ overrun :
           faults = 0 /\ report'[r].status = "running" => report[r].status \in Live]_vars
  BY <1>1
<1>3. QED  BY <1>2, AlwaysFenced, PTL DEF Spec, ClaimsWhatIsLive
=============================================================================
