------------------------ MODULE BillingReportsProofs -----------------------
(***************************************************************************)
(* Durable billing reports for any number of reports, jobs, workers and    *)
(* request handlers, any period and any number of faults: how a period is  *)
(* cut into windows and halves, types and locks, and what the constraints  *)
(* of the database buy however stale the reads of the handlers are: runs   *)
(* follow their reports, a job's period has one active run, and a          *)
(* delivered report is final.                                              *)
(***************************************************************************)
EXTENDS BillingReports, TLAPS
-----------------------------------------------------------------------------
\* Cutting a period into windows and a window into halves, for every period
\* and every window length.

\* A window of more than one hour is cut at an hour strictly inside it.
LEMMA MidpointInside ==
  ASSUME NEW w, w.from \in Int, w.to \in Int, Splittable(w)
  PROVE  Midpoint(w) \in Int /\ w.from < Midpoint(w) /\ Midpoint(w) < w.to
<1> DEFINE h == w.to - w.from
           half == h \div 2
<1>1. h \in Int /\ h > 1
  BY DEF Splittable, Hours
<1>2. half \in Int /\ half >= 1 /\ half < h
  BY <1>1
<1>3. Midpoint(w) = w.from + (IF half > 1 THEN half ELSE 1)
  BY DEF Midpoint, Hours
<1>4. QED
  BY <1>1, <1>2, <1>3

\* An hour of a window lies in exactly one of its halves.
LEMMA HalvesPartition ==
  ASSUME NEW w, w.from \in Int, w.to \in Int, Splittable(w),
         NEW hour \in Int
  PROVE  /\ Holds(w, hour) <=> \E v \in Halves(w) : Holds(v, hour)
         /\ \A u, v \in Halves(w) : Holds(u, hour) /\ Holds(v, hour) => u = v
BY MidpointInside DEF Halves, Holds

\* Windows that begin at different multiples of the window length do not
\* overlap: a multiple is below another one only by a whole window.
LEMMA StepsApart ==
  ASSUME NEW i \in Nat, NEW k \in Nat, i < k
  PROVE  (i + 1) * WindowHours <= k * WindowHours
<1>1. WindowHours \in Nat
  BY WindowHoursAssumption
<1>2. PICK d \in Nat : k = i + 1 + d
  <2>1. k - (i + 1) \in Nat /\ k = i + 1 + (k - (i + 1))
    OBVIOUS
  <2>2. QED  BY <2>1
<1>3. k * WindowHours = (i + 1) * WindowHours + d * WindowHours
  BY <1>1, <1>2
<1>4. ASSUME NEW a \in Int, NEW b \in Int, NEW c \in Int, c = a + b, b >= 0
      PROVE  a <= c
  BY <1>4
<1>5. d * WindowHours \in Nat /\ (i + 1) * WindowHours \in Int
  BY <1>1
<1>6. k * WindowHours \in Int
  BY <1>1
<1> DEFINE a == (i + 1) * WindowHours
           b == d * WindowHours
           c == k * WindowHours
<1>7. a \in Int /\ b \in Int /\ c \in Int /\ c = a + b /\ b >= 0
  BY <1>3, <1>5, <1>6
<1> HIDE DEF a, b, c
<1>8. a <= c
  BY <1>4, <1>7
<1>9. QED
  BY <1>8 DEF a, c

\* _windows cuts every period into windows that hold each hour exactly once.
THEOREM WindowsTile ==
  ASSUME NEW end \in Nat
  PROVE  Tiles(Windows(end), end)
<1> DEFINE Starts == {i \in 0..end : i * WindowHours < end}
           Win(k) == [from |-> k * WindowHours,
                      to |-> Earlier((k + 1) * WindowHours, end)]
<1>1. WindowHours \in Nat /\ WindowHours > 0
  BY WindowHoursAssumption
<1>2. Windows(end) = {Win(k) : k \in Starts}
  BY DEF Windows
<1>3. ASSUME NEW k \in Starts
      PROVE  /\ Win(k).from \in Nat /\ Win(k).to \in Nat
             /\ 0 <= Win(k).from /\ Win(k).from < Win(k).to /\ Win(k).to <= end
             /\ Win(k).from = k * WindowHours
             /\ Win(k).to <= (k + 1) * WindowHours
             /\ Win(k).to = (k + 1) * WindowHours \/ Win(k).to = end
  <2>1. k \in Nat /\ k * WindowHours < end
    OBVIOUS
  <2>2. k * WindowHours \in Nat /\ (k + 1) * WindowHours = k * WindowHours + WindowHours
    BY <1>1, <2>1
  <2> HIDE DEF Starts
  <2>3. QED
    BY <1>1, <2>1, <2>2 DEF Earlier
<1>4. \A w \in Windows(end) : 0 <= w.from /\ w.from < w.to /\ w.to <= end
  BY <1>2, <1>3
<1>5. ASSUME NEW hour \in 0..(end - 1)
      PROVE  \E w \in Windows(end) : Holds(w, hour)
  <2> DEFINE k == hour \div WindowHours
  <2>1. k \in Nat /\ k * WindowHours <= hour /\ hour < (k + 1) * WindowHours
    BY <1>1
  <2>2. k <= hour
    <3>1. k <= k * WindowHours
      BY <1>1, <2>1
    <3> DEFINE p == k * WindowHours
    <3>2. k \in Int /\ p \in Int /\ hour \in Int /\ k <= p /\ p <= hour
      BY <1>1, <2>1, <3>1
    <3> HIDE DEF p, k
    <3>3. QED  BY <3>2
  <2>3. k \in Starts
    BY <2>1, <2>2, <1>1
  <2>4. Holds(Win(k), hour)
    BY <2>1, <2>3, <1>3 DEF Holds
  <2>5. QED  BY <2>3, <2>4, <1>2
<1>6. ASSUME NEW i \in Starts, NEW k \in Starts, NEW hour \in 0..(end - 1),
             Holds(Win(i), hour), Holds(Win(k), hour)
      PROVE  i = k
  <2>1. ASSUME NEW a \in Starts, NEW b \in Starts, a < b,
               Holds(Win(a), hour), Holds(Win(b), hour)
        PROVE  FALSE
    <3>1. (a + 1) * WindowHours <= b * WindowHours
      BY <2>1, StepsApart
    <3>2. hour < (a + 1) * WindowHours /\ b * WindowHours <= hour
      <4>1. (a + 1) * WindowHours \in Int /\ b * WindowHours \in Int
        BY <1>1
      <4>2. hour < Win(a).to /\ Win(b).from <= hour
        BY <2>1 DEF Holds
      <4> HIDE DEF Win, Starts
      <4>3. QED  BY <4>1, <4>2, <1>3, <2>1
    <3>3. (a + 1) * WindowHours \in Int /\ b * WindowHours \in Int
      BY <1>1
    <3>4. QED  BY <3>1, <3>2, <3>3
  <2>2. i \in Int /\ k \in Int
    OBVIOUS
  <2> HIDE DEF Win, Starts
  <2>3. i < k \/ k < i \/ i = k
    BY <2>2
  <2>4. QED  BY <2>1, <2>3, <1>6
<1>7. \A v, w \in Windows(end) : \A hour \in 0..(end - 1) :
        Holds(v, hour) /\ Holds(w, hour) => v = w
  BY <1>2, <1>6
<1>8. QED  BY <1>4, <1>5, <1>7 DEF Tiles
-----------------------------------------------------------------------------
\* Types of the operators the actions are built from.

LEMMA MultipleIsNat ==
  ASSUME NEW k \in Nat
  PROVE  k * WindowHours \in Nat
BY WindowHoursAssumption

LEMMA InitialShardsType == InitialShards \in SUBSET Shard
<1> SUFFICES ASSUME NEW x \in Series, NEW w \in Windows(PeriodHours)
             PROVE  NewShard(x, w) \in Shard
  BY DEF InitialShards
<1>1. PICK k \in Nat : w = [from |-> k * WindowHours,
                            to |-> Earlier((k + 1) * WindowHours, PeriodHours)]
  BY TablesAssumption DEF Windows
<1>2. k * WindowHours \in Nat /\ (k + 1) * WindowHours \in Nat
  BY MultipleIsNat
<1>3. Earlier((k + 1) * WindowHours, PeriodHours) \in Nat
  BY <1>2, TablesAssumption DEF Earlier
<1>4. w.from \in Nat /\ w.to \in Nat
  BY <1>1, <1>2, <1>3
<1>5. QED
  BY <1>4 DEF NewShard, Shard

LEMMA AnsweredType ==
  ASSUME NEW set \in SUBSET Shard, NEW s \in set
  PROVE  Answered(set, s) \in SUBSET Shard
BY DEF Answered, Shard

LEMMA HalvesType ==
  ASSUME NEW s \in Shard, Splittable(s), NEW w \in Halves(s)
  PROVE  w.from \in Nat /\ w.to \in Nat
<1>1. s.from \in Nat /\ s.to \in Nat
  BY DEF Shard
<1>2. Midpoint(s) \in Nat
  BY <1>1, MidpointInside
<1>3. QED
  BY <1>1, <1>2 DEF Halves

LEMMA SplitUpType ==
  ASSUME NEW set \in SUBSET Shard, NEW s \in set, Splittable(s)
  PROVE  SplitUp(set, s) \in SUBSET Shard
<1>1. [s EXCEPT !.status = "split"] \in Shard
  BY DEF Shard
<1>2. ASSUME NEW w \in Halves(s)
      PROVE  NewShard(s.series, w) \in Shard
  BY HalvesType DEF NewShard, Shard
<1>3. QED
  BY <1>1, <1>2 DEF SplitUp

LEMMA NewRowType ==
  ASSUME NEW j \in Jobs \cup {NoJob}, NEW d \in BOOLEAN, NEW c \in BOOLEAN
  PROVE  NewRow(j, d, c) \in Row
BY DEF NewRow, Unused, Row, Stored, Live

-----------------------------------------------------------------------------
\* Type correctness.

LEMMA InitType == Init => TypeOK
BY TablesAssumption, RequestsAssumption, WorkerAssumption
   DEF Init, TypeOK, Unused, Row, Stored, Live, RunStatus, NoOutputs, FileStatus,
       IdleClient, ClientState, IdleWorker, WorkerState

LEMMA DoneType ==
  ASSUME client \in [Clients -> ClientState], NEW c \in Clients, Done(c)
  PROVE  client' \in [Clients -> ClientState]
<1>1. IdleClient \in ClientState
  BY DEF IdleClient, ClientState
<1>2. QED  BY <1>1 DEF Done

LEMMA RequestsType ==
  ASSUME TypeOK, Requesting, UNCHANGED <<workers, delivery, faults, overrun, unfenced>>
  PROVE  TypeOK'
<1> USE DEF TypeOK, workers, delivery
<1>1. ASSUME NEW c \in Clients, NEW r \in Reports, Retry(c, r)
      PROVE  TypeOK'
  BY <1>1, RequestsAssumption DEF Retry, tables, ClientState
<1>2. ASSUME NEW c \in Clients, NEW j \in Jobs, ManualRun(c, j)
      PROVE  TypeOK'
  BY <1>2, RequestsAssumption DEF ManualRun, tables, ClientState
<1>3. ASSUME NEW c \in Clients, Requeue(c)
      PROVE  TypeOK'
  <2>1. \A row \in Row : Requeued(row) \in Row
    BY DEF Requeued, Row, Stored, Live
  <2>2. report' \in [Reports -> Row]
    BY <1>3, <2>1 DEF Requeue
  <2>3. run' \in [Reports -> RunStatus]
    BY <1>3 DEF Requeue, RunStatus
  <2>4. client' \in [Clients -> ClientState]
    BY <1>3 DEF Requeue, Done, IdleClient, ClientState
  <2>5. QED  BY <1>3, <2>2, <2>3, <2>4 DEF Requeue
<1>4. ASSUME NEW c \in Clients, RequeueRefused(c) \/ InsertRefused(c)
      PROVE  TypeOK'
  <2>1. Done(c) /\ UNCHANGED <<tables, asked>>
    BY <1>4 DEF RequeueRefused, InsertRefused
  <2>2. client' \in [Clients -> ClientState]
    BY <2>1, DoneType DEF ClientState
  <2>3. QED  BY <2>1, <2>2 DEF tables
<1>5. ASSUME NEW c \in Clients, FindFailedRun(c)
      PROVE  TypeOK'
  <2>1. CASE Goes(c, "insert")
    <3>1. [client[c] EXCEPT !.pc = "insert"] \in ClientState
      BY DEF ClientState
    <3>2. client' \in [Clients -> ClientState]
      BY <2>1, <3>1 DEF Goes
    <3>3. QED  BY <1>5, <3>2 DEF FindFailedRun, tables
  <2>2. ASSUME NEW r \in Reports,
               client' = [client EXCEPT ![c].pc = "check", ![c].report = r]
        PROVE  TypeOK'
    <3>1. [client[c] EXCEPT !.pc = "check", !.report = r] \in ClientState
      BY DEF ClientState
    <3>2. client' \in [Clients -> ClientState]
      BY <2>2, <3>1
    <3>3. QED  BY <1>5, <3>2 DEF FindFailedRun, tables
  <2>3. QED  BY <1>5, <2>1, <2>2 DEF FindFailedRun, FailedRuns
<1>10. ASSUME NEW c \in Clients, CheckFailedReport(c)
       PROVE  TypeOK'
  <2>1. client' \in [Clients -> ClientState]
    BY <1>10 DEF CheckFailedReport, Goes, ClientState
  <2>2. QED  BY <1>10, <2>1 DEF CheckFailedReport, tables
<1>6. ASSUME NEW c \in Clients, NEW r \in Reports, NEW contracts \in BOOLEAN,
             InsertRun(c, r, contracts)
      PROVE  TypeOK'
  <2>1. client[c].job \in Jobs \cup {NoJob}
    BY DEF ClientState
  <2>2. report' \in [Reports -> Row]
    BY <1>6, <2>1, NewRowType DEF InsertRun
  <2>3. run' \in [Reports -> RunStatus]
    BY <1>6 DEF InsertRun, RunStatus
  <2>4. client' \in [Clients -> ClientState]
    BY <1>6 DEF InsertRun, Done, IdleClient, ClientState
  <2>5. QED  BY <1>6, <2>2, <2>3, <2>4 DEF InsertRun
<1>7. ASSUME NEW r \in Reports, NEW d \in BOOLEAN, NEW contracts \in BOOLEAN,
             EnqueueReport(r, d, contracts)
      PROVE  TypeOK'
  BY <1>7, NewRowType DEF EnqueueReport, requests
<1>8. ASSUME NEW j \in Jobs, DeleteJob(j)
      PROVE  TypeOK'
  <2>1. [Unused EXCEPT !.status = "deleted"] \in Row
    BY DEF Unused, Row, Stored
  <2>2. report' \in [Reports -> Row]
    BY <1>8, <2>1 DEF DeleteJob
  <2>3. /\ run' \in [Reports -> RunStatus]
        /\ shards' \in [Reports -> SUBSET Shard]
        /\ outputs' \in [Reports -> [Files -> FileStatus]]
        /\ rendered' \in [Reports -> SUBSET Shard]
        /\ jobs' \subseteq Jobs
    BY <1>8 DEF DeleteJob, RunStatus, NoOutputs, FileStatus
  <2>4. QED  BY <1>8, <2>2, <2>3 DEF DeleteJob, requests
<1>9. QED
  BY <1>1, <1>2, <1>3, <1>4, <1>5, <1>6, <1>7, <1>8, <1>10 DEF Requesting, RunDue

\* What a worker does to its own memory and to the locks keeps their types.
LEMMA MovesType ==
  ASSUME worker \in [Workers -> WorkerState], NEW w \in Workers,
         NEW pc \in {"idle", "purge"} \cup Owning,
         Moves(w, pc)
  PROVE  worker' \in [Workers -> WorkerState]
<1>1. [worker[w] EXCEPT !.pc = pc] \in WorkerState
  BY DEF WorkerState
<1>2. QED  BY <1>1 DEF Moves

LEMMA RestsType ==
  ASSUME worker \in [Workers -> WorkerState], NEW w \in Workers, Rests(w)
  PROVE  worker' \in [Workers -> WorkerState]
<1>1. IdleWorker \in WorkerState
  BY DEF IdleWorker, WorkerState
<1>2. QED  BY <1>1 DEF Rests

LEMMA ReleasesType ==
  ASSUME NEW lock \in [Reports -> Workers \cup {NoWorker}], NEW w
  PROVE  Releases(lock, w) \in [Reports -> Workers \cup {NoWorker}]
BY DEF Releases

\* Setting a field of a worker's memory or of a report's row to a value of
\* its type.
LEMMA WorkerFields ==
  ASSUME NEW m \in WorkerState
  PROVE  /\ \A pc \in {"idle", "purge"} \cup Owning :
              [m EXCEPT !.pc = pc] \in WorkerState
         /\ \A r \in Reports : [m EXCEPT !.at = r] \in WorkerState
         /\ \A b \in BOOLEAN : [m EXCEPT !.config = b] \in WorkerState
         /\ \A set \in SUBSET Files : [m EXCEPT !.todo = set] \in WorkerState
         /\ \A f \in Files \cup {NoFile} : [m EXCEPT !.file = f] \in WorkerState
         /\ \A set \in SUBSET Reports : [m EXCEPT !.ids = set] \in WorkerState
BY DEF WorkerState

LEMMA RowFields ==
  ASSUME NEW row \in Row
  PROVE  /\ \A s \in Stored : [row EXCEPT !.status = s] \in Row
         /\ \A b \in BOOLEAN : /\ [row EXCEPT !.config = b] \in Row
                               /\ [row EXCEPT !.snapshot = b] \in Row
                               /\ [row EXCEPT !.artifact = b] \in Row
         /\ \A e \in {"none", "set", "due"} : [row EXCEPT !.expiry = e] \in Row
BY DEF Row

-----------------------------------------------------------------------------
\* The inductive strengthening of the type invariant and of OneProcessor: a
\* worker that owns a report knows which, a worker that waits for a sent
\* checkpoint knows for which file, and a thread that processes a report
\* holds its inner lock.  Each lock has one holder.
Placed(w) ==
  /\ worker[w].pc \in Owning => At(w) \in Reports
  /\ worker[w].pc = "accepted" => worker[w].file \in Files

HoldsInner(w) ==
  worker[w].pc \in Processing /\ At(w) \notin unfenced => inner[At(w)] = w

LockInv == \A w \in Workers : Placed(w) /\ HoldsInner(w)

LEMMA WorkType ==
  ASSUME TypeOK, NEW w \in Workers, Placed(w), Work(w)
  PROVE  TypeOK'
<1> DEFINE Locks == [Reports -> Workers \cup {NoWorker}]
<1>0. /\ worker \in [Workers -> WorkerState] /\ worker[w] \in WorkerState
      /\ \A r \in Reports : report[r] \in Row
      /\ outer \in Locks /\ inner \in Locks
  BY DEF TypeOK
<1>1. ASSUME NEW r \in Reports, Claim(w, r)
      PROVE  TypeOK'
  <2> DEFINE pc == IF report[r].status = "queued" THEN "claiming" ELSE "claimed"
  <2>1. [worker[w] EXCEPT !.pc = pc] \in WorkerState
    BY <1>0, WorkerFields DEF Owning
  <2>2. [worker[w] EXCEPT !.pc = pc, !.at = r] \in WorkerState
    BY <2>1, WorkerFields
  <2>3. worker' \in [Workers -> WorkerState]
    BY <1>0, <1>1, <2>2 DEF Claim
  <2>4. outer' \in Locks
    BY <1>0, <1>1 DEF Claim
  <2>5. QED  BY <1>1, <2>3, <2>4 DEF Claim, tables, requests, delivery, TypeOK
<1>16. CASE Begin(w)
  <2>1. At(w) \in Reports
    BY <1>16 DEF Begin, Placed, Stands, Owning
  <2>2. Started(report[At(w)]) \in Row
    BY <1>0, <2>1, RowFields DEF Started, Stored, Live
  <2>3. report' \in [Reports -> Row]
    BY <1>16, <2>2 DEF Begin, TypeOK
  <2>4. worker' \in [Workers -> WorkerState]
    BY <1>0, <1>16, MovesType DEF Begin, Owning
  <2>5. overrun' \subseteq Reports
    BY <1>16, <2>1 DEF Begin, TypeOK
  <2>6. QED  BY <1>16, <2>3, <2>4, <2>5 DEF Begin, requests, delivery, TypeOK
<1>2. CASE Yield(w)
  <2>1. worker' \in [Workers -> WorkerState]
    BY <1>0, <1>2, RestsType DEF Yield
  <2>2. outer' \in Locks
    BY <1>0, <1>2, ReleasesType DEF Yield
  <2>3. QED  BY <1>2, <2>1, <2>2 DEF Yield, tables, requests, delivery, TypeOK
<1>3. CASE Start(w)
  <2>1. FirstStep(At(w)) \in {"plan", "capture", "failing"}
    BY DEF FirstStep
  <2>2. At(w) \in Reports
    BY <1>3 DEF Start, Placed, Stands, Owning
  <2>3. report[At(w)].config \in BOOLEAN
    BY <1>0, <2>2 DEF Row
  <2>4. [worker[w] EXCEPT !.pc = FirstStep(At(w))] \in WorkerState
    BY <1>0, <2>1, WorkerFields DEF Owning, Processing
  <2>5. [worker[w] EXCEPT !.pc = FirstStep(At(w)),
                          !.config = report[At(w)].config] \in WorkerState
    BY <2>3, <2>4, WorkerFields
  <2>6. worker' \in [Workers -> WorkerState]
    BY <1>0, <1>3, <2>5 DEF Start
  <2>7. inner' \in Locks
    BY <1>0, <1>3 DEF Start
  <2>8. QED  BY <1>3, <2>6, <2>7 DEF Start, tables, requests, delivery, TypeOK
<1>4. CASE Capture(w)
  <2>1. report' \in [Reports -> Row]
    BY <1>0, <1>4, RowFields DEF Capture, TypeOK
  <2>2. worker' \in [Workers -> WorkerState]
    BY <1>0, <1>4, MovesType DEF Capture, Owning, Processing
  <2>3. QED  BY <1>4, <2>1, <2>2 DEF Capture, requests, delivery, TypeOK
<1>5. CASE Plan(w)
  <2>1. shards' \in [Reports -> SUBSET Shard]
    BY <1>5, InitialShardsType DEF Plan, TypeOK
  <2>2. worker' \in [Workers -> WorkerState]
    BY <1>0, <1>5, MovesType DEF Plan, Owning, Processing
  <2>3. QED  BY <1>5, <2>1, <2>2 DEF Plan, requests, delivery, TypeOK
<1>6. ASSUME NEW s \in Pending(At(w)), Stands(w, "query"),
             Query(w, s) \/ Split(w, s)
      PROVE  TypeOK'
  <2>1. At(w) \in Reports
    BY <1>6 DEF Placed, Stands, Owning, Processing
  <2>2. shards[At(w)] \in SUBSET Shard /\ s \in shards[At(w)]
    BY <1>6, <2>1 DEF TypeOK, Pending
  <2>3. Answered(shards[At(w)], s) \in SUBSET Shard
    BY <2>2, AnsweredType
  <2>4. Splittable(s) => SplitUp(shards[At(w)], s) \in SUBSET Shard
    BY <2>2, SplitUpType
  <2>5. shards' \in [Reports -> SUBSET Shard]
    BY <1>6, <2>1, <2>3, <2>4 DEF Query, Split, TypeOK
  <2>6. QED  BY <1>6, <2>5 DEF Query, Split, requests, workers, delivery, TypeOK
<1>7. CASE Render(w)
  <2> DEFINE r == At(w)
             fresh == outputs[r] = NoOutputs
             files == IF fresh
                      THEN [f \in Files |-> IF report[r].delivery THEN "pending" ELSE "ready"]
                      ELSE outputs[r]
             lacks == report[r].delivery /\ ~worker[w].config
  <2>1. r \in Reports
    BY <1>7 DEF Render, Placed, Stands, Owning, Processing
  <2>2. files \in [Files -> FileStatus]
    BY <2>1 DEF TypeOK, FileStatus
  <2>3. outputs' \in [Reports -> [Files -> FileStatus]]
    BY <1>7, <2>1, <2>2 DEF Render, TypeOK
  <2>4. rendered' \in [Reports -> SUBSET Shard]
    BY <1>7, <2>1 DEF Render, TypeOK, Successful
  <2>5. report' \in [Reports -> Row]
    <3>1. (report[r].artifact \/ (fresh /\ ~report[r].delivery)) \in BOOLEAN
      BY <1>0, <2>1 DEF Row
    <3> DEFINE set == report[r].artifact \/ (fresh /\ ~report[r].delivery)
    <3>2. [report[r] EXCEPT !.artifact = set] \in Row
      BY <1>0, <2>1, <3>1, RowFields
    <3>3. report' = [report EXCEPT ![r] = [report[r] EXCEPT !.artifact = set]]
      BY <1>7 DEF Render
    <3> HIDE DEF set
    <3>4. QED  BY <2>1, <3>2, <3>3 DEF TypeOK
  <2>6. worker' \in [Workers -> WorkerState]
    <3> DEFINE pc == IF lacks THEN "failing" ELSE "deliver"
               todo == ToDeliver(r, files)
    <3>1. todo \in SUBSET Files
      BY DEF ToDeliver
    <3>2. [worker[w] EXCEPT !.pc = pc] \in WorkerState
      BY <1>0, WorkerFields DEF Owning, Processing
    <3>3. [worker[w] EXCEPT !.pc = pc, !.todo = todo] \in WorkerState
      BY <3>1, <3>2, WorkerFields
    <3>4. worker' = [worker EXCEPT ![w].pc = pc, ![w].todo = todo]
      BY <1>7 DEF Render
    <3> HIDE DEF pc, todo
    <3>5. QED  BY <1>0, <3>3, <3>4
  <2>7. inner' \in Locks
    BY <1>0, <1>7, ReleasesType DEF Render
  <2>8. QED
    BY <1>7, <2>3, <2>4, <2>5, <2>6, <2>7 DEF Render, requests, delivery, TypeOK
<1>8. ASSUME NEW f \in Files, Send(w, f)
      PROVE  TypeOK'
  <2>1. At(w) \in Reports
    BY <1>8 DEF Send, Placed, Stands, Owning, Processing
  <2>2. accepted' \in [Reports -> [Files -> Nat]]
    BY <1>8, <2>1 DEF Send, TypeOK
  <2>3. [worker[w] EXCEPT !.pc = "accepted"] \in WorkerState
    BY <1>0, WorkerFields DEF Owning, Processing
  <2>4. [worker[w] EXCEPT !.pc = "accepted", !.file = f] \in WorkerState
    BY <2>3, WorkerFields
  <2>5. worker' \in [Workers -> WorkerState]
    BY <1>0, <1>8, <2>4 DEF Send
  <2>6. QED  BY <1>8, <2>2, <2>5 DEF Send, tables, requests, TypeOK
<1>9. CASE Checkpoint(w)
  <2> DEFINE f == worker[w].file
             left == worker[w].todo \ {f}
  <2>1. At(w) \in Reports /\ f \in Files
    BY <1>9 DEF Checkpoint, Placed, Stands, Owning, Processing
  <2>2. outputs' \in [Reports -> [Files -> FileStatus]]
    BY <1>9, <2>1 DEF Checkpoint, TypeOK, FileStatus
  <2>3. left \in SUBSET Files
    BY <1>0 DEF WorkerState
  <2>4. [worker[w] EXCEPT !.pc = "deliver"] \in WorkerState
    BY <1>0, WorkerFields DEF Owning, Processing
  <2>5. [worker[w] EXCEPT !.pc = "deliver", !.file = NoFile] \in WorkerState
    BY <2>4, WorkerFields
  <2>6. [worker[w] EXCEPT !.pc = "deliver", !.file = NoFile, !.todo = left]
          \in WorkerState
    BY <2>3, <2>5, WorkerFields
  <2>7. worker' \in [Workers -> WorkerState]
    <3>1. worker' = [worker EXCEPT ![w].pc = "deliver", ![w].file = NoFile,
                                   ![w].todo = left]
      BY <1>9, <1>0 DEF Checkpoint
    <3> HIDE DEF left
    <3>2. QED  BY <1>0, <2>6, <3>1
  <2>8. QED  BY <1>9, <2>2, <2>7 DEF Checkpoint, requests, delivery, TypeOK
<1>10. CASE Finish(w)
  <2> DEFINE r == At(w)
  <2>1. r \in Reports
    BY <1>10 DEF Finish, Placed, Stands, Owning, Processing
  <2>2. [report[r] EXCEPT !.status = "succeeded"] \in Row
    BY <1>0, <2>1, RowFields DEF Stored
  <2>3. [report[r] EXCEPT !.status = "succeeded", !.config = FALSE] \in Row
    BY <2>2, RowFields
  <2>4. [report[r] EXCEPT !.status = "succeeded", !.config = FALSE,
                          !.expiry = "set"] \in Row
    BY <2>3, RowFields
  <2>5. report' \in [Reports -> Row]
    BY <1>10, <2>1, <2>4 DEF Finish, TypeOK
  <2>6. run' \in [Reports -> RunStatus]
    BY <1>10, <2>1 DEF Finish, TypeOK, RunStatus
  <2>7. worker' \in [Workers -> WorkerState]
    <3>1. Moves(w, "failing") \/ Rests(w)
      BY <1>10 DEF Finish
    <3>2. QED  BY <1>0, <3>1, MovesType, RestsType DEF Owning
  <2>8. outer' \in Locks /\ inner' \in Locks
    BY <1>0, <1>10, ReleasesType DEF Finish
  <2>9. QED
    BY <1>10, <2>5, <2>6, <2>7, <2>8 DEF Finish, requests, delivery, TypeOK
<1>11. CASE Fail(w)
  <2>1. worker' \in [Workers -> WorkerState]
    BY <1>0, <1>11, MovesType DEF Fail, Owning
  <2>2. inner' \in Locks
    BY <1>0, <1>11, ReleasesType DEF Fail
  <2>3. QED  BY <1>11, <2>1, <2>2 DEF Fail, tables, requests, delivery, TypeOK
<1>12. CASE FailCheckpoint(w)
  <2>1. At(w) \in Reports /\ worker[w].file \in Files
    BY <1>12 DEF FailCheckpoint, Placed, Stands, Owning, Processing
  <2>2. lost' \in [Reports -> [Files -> Nat]]
    BY <1>12, <2>1 DEF FailCheckpoint, TypeOK
  <2>3. faults' \in 0..MaxFaults
    BY <1>12, WorkerAssumption DEF FailCheckpoint, TypeOK
  <2>4. [worker[w] EXCEPT !.pc = "failing"] \in WorkerState
    BY <1>0, WorkerFields DEF Owning
  <2>5. [worker[w] EXCEPT !.pc = "failing", !.file = NoFile] \in WorkerState
    BY <2>4, WorkerFields
  <2>6. worker' \in [Workers -> WorkerState]
    BY <1>0, <1>12, <2>5 DEF FailCheckpoint
  <2>7. inner' \in Locks
    BY <1>0, <1>12, ReleasesType DEF FailCheckpoint
  <2>8. QED
    BY <1>12, <2>2, <2>3, <2>6, <2>7 DEF FailCheckpoint, tables, requests, TypeOK
<1>17. CASE ReadFailure(w) \/ Refused(w)
  <2>1. Moves(w, "recording") \/ Rests(w)
    BY <1>17 DEF ReadFailure, Refused
  <2>2. worker' \in [Workers -> WorkerState]
    BY <1>0, <2>1, MovesType, RestsType DEF Owning
  <2>3. outer' \in Locks
    BY <1>0, <1>17, ReleasesType DEF ReadFailure, Refused
  <2>4. QED
    BY <1>17, <2>2, <2>3 DEF ReadFailure, Refused, tables, requests, delivery, TypeOK
<1>13. CASE RecordFailure(w)
  <2>1. At(w) \in Reports
    BY <1>13 DEF RecordFailure, Placed, Stands, Owning
  <2>2. [report[At(w)] EXCEPT !.status = "failed"] \in Row
    BY <1>0, <2>1, RowFields DEF Stored
  <2>3. Failed(report[At(w)]) \in Row
    BY <2>2, RowFields DEF Failed
  <2>4. report' \in [Reports -> Row]
    BY <1>13, <2>1, <2>3 DEF RecordFailure, TypeOK
  <2>5. run' \in [Reports -> RunStatus]
    BY <1>13, <2>1 DEF RecordFailure, RunAfterFailure, TypeOK, RunStatus
  <2>6. worker' \in [Workers -> WorkerState]
    BY <1>0, <1>13, RestsType DEF RecordFailure
  <2>7. outer' \in Locks
    BY <1>0, <1>13, ReleasesType DEF RecordFailure
  <2>8. QED
    BY <1>13, <2>4, <2>5, <2>6, <2>7 DEF RecordFailure, requests, delivery, TypeOK
<1>14. CASE Purge(w)
  <2>1. \A r \in Reports : Expired(report[r]) \in Row
    BY <1>0 DEF Expired, Row, Stored
  <2>2. report' \in [Reports -> Row]
    BY <1>0, <1>14, <2>1 DEF Purge
  <2>3. /\ shards' \in [Reports -> SUBSET Shard]
        /\ outputs' \in [Reports -> [Files -> FileStatus]]
        /\ rendered' \in [Reports -> SUBSET Shard]
    BY <1>14 DEF Purge, OutputsDeleted, NoOutputs, FileStatus, TypeOK
  <2>4. overrun' \subseteq Reports
    BY <1>0, <1>14 DEF Purge, WorkerState, TypeOK
  <2>5. worker' \in [Workers -> WorkerState]
    BY <1>0, <1>14, RestsType DEF Purge
  <2>6. QED
    BY <1>14, <2>2, <2>3, <2>4, <2>5 DEF Purge, requests, delivery, TypeOK
<1>15. QED
  BY <1>1, <1>2, <1>3, <1>4, <1>5, <1>6, <1>7, <1>8, <1>9, <1>10, <1>11, <1>12,
     <1>13, <1>14, <1>16, <1>17 DEF Work

\* What befalls a worker keeps the types.
LEMMA FaultType ==
  ASSUME TypeOK, NEW w \in Workers, Placed(w),
         SelectExpired(w) \/ Crash(w) \/ LoseOuter(w) \/ LoseInner(w)
  PROVE  TypeOK'
<1>0. /\ worker \in [Workers -> WorkerState] /\ worker[w] \in WorkerState
      /\ outer \in [Reports -> Workers \cup {NoWorker}]
      /\ inner \in [Reports -> Workers \cup {NoWorker}]
  BY DEF TypeOK
<1>1. CASE SelectExpired(w)
  <2> DEFINE ids == {r \in Reports : Expirable(r)}
  <2>1. [worker[w] EXCEPT !.pc = "purge"] \in WorkerState
    BY <1>0, WorkerFields
  <2>2. [worker[w] EXCEPT !.pc = "purge", !.ids = ids] \in WorkerState
    BY <2>1, WorkerFields
  <2>3. worker' \in [Workers -> WorkerState]
    <3>1. worker' = [worker EXCEPT ![w].pc = "purge", ![w].ids = ids]
      BY <1>1 DEF SelectExpired
    <3> HIDE DEF ids
    <3>2. QED  BY <1>0, <2>2, <3>1
  <2>4. QED  BY <1>1, <2>3 DEF SelectExpired, tables, requests, delivery, TypeOK
<1>2. CASE Crash(w)
  <2>1. worker' \in [Workers -> WorkerState]
    BY <1>0, <1>2, RestsType DEF Crash
  <2>2. /\ outer' \in [Reports -> Workers \cup {NoWorker}]
        /\ inner' \in [Reports -> Workers \cup {NoWorker}]
    BY <1>0, <1>2, ReleasesType DEF Crash
  <2>3. lost' \in [Reports -> [Files -> Nat]]
    BY <1>2 DEF Crash, Stands, Placed, Owning, Processing, TypeOK
  <2>4. faults' \in 0..MaxFaults
    BY <1>2, WorkerAssumption DEF Crash, TypeOK
  <2>5. QED
    BY <1>2, <2>1, <2>2, <2>3, <2>4 DEF Crash, tables, requests, TypeOK
<1>3. CASE LoseOuter(w)
  <2>1. outer' \in [Reports -> Workers \cup {NoWorker}]
    BY <1>0, <1>3, ReleasesType DEF LoseOuter
  <2>2. faults' \in 0..MaxFaults
    BY <1>3, WorkerAssumption DEF LoseOuter, TypeOK
  <2>3. QED
    BY <1>3, <2>1, <2>2 DEF LoseOuter, tables, requests, delivery, TypeOK
<1>5. CASE LoseInner(w)
  <2>1. inner' \in [Reports -> Workers \cup {NoWorker}]
    BY <1>0, <1>5, ReleasesType DEF LoseInner
  <2>2. faults' \in 0..MaxFaults
    BY <1>5, WorkerAssumption DEF LoseInner, TypeOK
  <2>3. unfenced' \subseteq Reports
    BY <1>5 DEF LoseInner, Placed, Owning, TypeOK
  <2>4. QED
    BY <1>5, <2>1, <2>2, <2>3 DEF LoseInner, tables, requests, delivery, TypeOK
<1>4. QED  BY <1>1, <1>2, <1>3, <1>5

LEMMA ElapseType ==
  ASSUME TypeOK, NEW r \in Reports, Elapse(r)
  PROVE  TypeOK'
<1>1. report[r] \in Row
  BY DEF TypeOK
<1>2. [report[r] EXCEPT !.expiry = "due"] \in Row
  BY <1>1, RowFields
<1>3. report' \in [Reports -> Row]
  BY <1>2 DEF Elapse, TypeOK
<1>4. QED  BY <1>3 DEF Elapse, requests, workers, delivery, TypeOK

-----------------------------------------------------------------------------
\* The locks.

\* A step of worker w leaves alone what another worker holds: w takes an
\* inner lock only when it is free and releases only its own.
LEMMA OthersKeepLocks ==
  ASSUME TypeOK, LockInv, NEW w \in Workers, NEW v \in Workers, v # w,
         worker'[v] = worker[v], unfenced \subseteq unfenced',
         \/ inner' = inner
         \/ inner' = Releases(inner, w)
         \/ \E r \in Reports : ProcessorFree(r) /\ inner' = [inner EXCEPT ![r] = w]
  PROVE  Placed(v)' /\ HoldsInner(v)'
<1>1. Placed(v)'
  BY DEF LockInv, Placed, At
<1>2. CASE worker[v].pc \in Processing /\ At(v) \notin unfenced'
  <2>1. At(v) \in Reports /\ inner[At(v)] = v /\ At(v)' = At(v)
    BY <1>2 DEF LockInv, Placed, HoldsInner, At, Owning
  <2>2. inner'[At(v)] = v
    BY <2>1, WorkerAssumption DEF TypeOK, Releases, ProcessorFree
  <2>3. QED  BY <1>1, <2>1, <2>2 DEF HoldsInner
<1>3. CASE ~(worker[v].pc \in Processing /\ At(v) \notin unfenced')
  BY <1>1, <1>3 DEF HoldsInner, At
<1>4. QED  BY <1>2, <1>3

\* The memory of a worker changes by its own steps only.
LEMMA OthersStay ==
  ASSUME TypeOK, NEW w \in Workers,
         Work(w) \/ SelectExpired(w) \/ Crash(w) \/ LoseOuter(w) \/ LoseInner(w)
  PROVE  \A v \in Workers \ {w} : worker'[v] = worker[v]
<1> DEFINE Others == \A v \in Workers \ {w} : worker'[v] = worker[v]
<1>0. worker \in [Workers -> WorkerState]
  BY DEF TypeOK
<1>1. ASSUME NEW r \in Reports, Claim(w, r)
      PROVE  Others
  BY <1>0, <1>1 DEF Claim
<1>2. CASE \/ Begin(w) \/ Start(w) \/ Capture(w) \/ Plan(w) \/ Render(w)
           \/ Checkpoint(w) \/ ReadFailure(w)
  BY <1>0, <1>2
     DEF Begin, Start, Capture, Plan, Render, Checkpoint, ReadFailure, Moves, Rests
<1>3. ASSUME NEW s, Query(w, s) \/ Split(w, s)
      PROVE  Others
  BY <1>3 DEF Query, Split, workers
<1>4. ASSUME NEW f \in Files, Send(w, f)
      PROVE  Others
  BY <1>0, <1>4 DEF Send
<1>5. CASE \/ Fail(w) \/ FailCheckpoint(w) \/ SelectExpired(w)
           \/ LoseOuter(w) \/ LoseInner(w)
  BY <1>0, <1>5 DEF Fail, FailCheckpoint, SelectExpired, LoseOuter, LoseInner, Moves
<1>6. CASE Yield(w) \/ Finish(w) \/ RecordFailure(w) \/ Refused(w) \/ Purge(w) \/ Crash(w)
  BY <1>0, <1>6 DEF Yield, Finish, RecordFailure, Refused, Purge, Crash, Moves, Rests
<1>7. QED
  BY <1>1, <1>2, <1>3, <1>4, <1>5, <1>6 DEF Work

\* A worker that rests, waits to record a failure or purges needs no lock.
LEMMA OutsideProcessing ==
  ASSUME NEW w, worker'[w].pc \in {"idle", "purge"}
  PROVE  Placed(w)' /\ HoldsInner(w)'
BY DEF Placed, HoldsInner, Owning, Processing

LEMMA WorkerLocks ==
  ASSUME TypeOK, LockInv, NEW w \in Workers,
         Work(w) \/ SelectExpired(w) \/ Crash(w) \/ LoseOuter(w) \/ LoseInner(w)
  PROVE  LockInv'
<1>0. /\ worker \in [Workers -> WorkerState] /\ worker[w] \in WorkerState
      /\ inner \in [Reports -> Workers \cup {NoWorker}]
      /\ Placed(w) /\ HoldsInner(w)
  BY DEF TypeOK, LockInv
<1> DEFINE InnerStep ==
             \/ inner' = inner
             \/ inner' = Releases(inner, w)
             \/ \E r \in Reports : ProcessorFree(r) /\ inner' = [inner EXCEPT ![r] = w]
           Own == Placed(w)' /\ HoldsInner(w)'
<1>17. unfenced \subseteq unfenced'
  BY DEF Work, SelectExpired, Crash, LoseOuter, LoseInner, Claim, Begin, Yield, Start,
         Capture, Plan, Query, Split, Render, Send, Checkpoint, Finish, Fail,
         FailCheckpoint, ReadFailure, RecordFailure, Refused, Purge
<1> SUFFICES InnerStep /\ Own
  BY <1>17, OthersStay, OthersKeepLocks DEF LockInv
<1>1. ASSUME NEW r \in Reports, Claim(w, r)
      PROVE  InnerStep /\ Own
  <2>1. worker'[w].pc \in {"claiming", "claimed"} /\ worker'[w].at = r
    BY <1>0, <1>1 DEF Claim, WorkerState
  <2>2. QED
    BY <1>0, <1>1, <2>1 DEF Claim, Placed, HoldsInner, At, Owning, Processing
<1>2. CASE Yield(w) \/ Refused(w)
  BY <1>0, <1>2, OutsideProcessing DEF Yield, Refused, Rests, IdleWorker
<1>14. CASE Begin(w) \/ ReadFailure(w)
  <2>1. \/ /\ worker'[w].pc \in {"claimed", "recording"} /\ worker'[w].at = At(w)
           /\ worker[w].pc \in {"claiming", "failing"} /\ inner' = inner
        \/ worker'[w].pc = "idle" /\ inner' = inner
    BY <1>0, <1>14 DEF Begin, ReadFailure, Moves, Rests, IdleWorker, Stands, WorkerState, At
  <2>2. QED
    BY <1>0, <2>1, OutsideProcessing DEF Placed, HoldsInner, At, Owning, Processing
<1>3. CASE Start(w)
  <2> DEFINE r == At(w)
  <2>1. r \in Reports
    BY <1>0, <1>3 DEF Start, Placed, Stands, Owning
  <2>2. worker'[w].pc = FirstStep(r) /\ worker'[w].at = r
    BY <1>0, <1>3 DEF Start, WorkerState, At
  <2>3. FirstStep(r) \in {"plan", "capture", "failing"}
    BY DEF FirstStep
  <2>4. FirstStep(r) # "failing" => inner'[r] = w
    BY <1>0, <1>3, <2>1 DEF Start
  <2>5. InnerStep
    BY <1>0, <1>3, <2>1 DEF Start
  <2>6. QED
    BY <2>1, <2>2, <2>3, <2>4, <2>5 DEF Placed, HoldsInner, At, Owning, Processing
<1>4. CASE Capture(w) \/ Plan(w)
  <2>1. /\ worker'[w].pc \in {"plan", "query"} /\ worker'[w].at = At(w)
        /\ worker[w].pc \in {"capture", "plan"} /\ inner' = inner
    BY <1>0, <1>4 DEF Capture, Plan, Moves, Stands, WorkerState, At
  <2>2. QED
    BY <1>0, <1>17, <2>1 DEF Placed, HoldsInner, At, Owning, Processing
<1>5. ASSUME NEW s, Query(w, s) \/ Split(w, s)
      PROVE  InnerStep /\ Own
  BY <1>0, <1>5 DEF Query, Split, workers, Placed, HoldsInner, At
<1>6. CASE Render(w)
  <2>1. /\ worker'[w].pc \in {"failing", "deliver"} /\ worker'[w].at = At(w)
        /\ worker'[w].pc = "deliver" => inner' = inner
        /\ worker[w].pc = "query" /\ InnerStep
    BY <1>0, <1>6 DEF Render, Stands, WorkerState, At
  <2>2. QED
    BY <1>0, <1>17, <2>1 DEF Placed, HoldsInner, At, Owning, Processing
<1>7. ASSUME NEW f \in Files, Send(w, f)
      PROVE  InnerStep /\ Own
  <2>1. /\ worker'[w].pc = "accepted" /\ worker'[w].at = At(w)
        /\ worker'[w].file = f
        /\ worker[w].pc = "deliver" /\ inner' = inner
    BY <1>0, <1>7 DEF Send, Stands, WorkerState, At
  <2>2. QED
    BY <1>0, <1>17, <2>1 DEF Placed, HoldsInner, At, Owning, Processing
<1>8. CASE Checkpoint(w)
  <2>1. /\ worker'[w].pc = "deliver" /\ worker'[w].at = At(w)
        /\ worker[w].pc = "accepted" /\ inner' = inner
    BY <1>0, <1>8 DEF Checkpoint, Stands, WorkerState, At
  <2>2. QED
    BY <1>0, <1>17, <2>1 DEF Placed, HoldsInner, At, Owning, Processing
<1>15. CASE Finish(w)
  <2>1. \/ worker'[w].pc = "idle"
        \/ /\ worker'[w].pc = "failing" /\ worker'[w].at = At(w)
           /\ worker[w].pc = "deliver"
    BY <1>0, <1>15 DEF Finish, Moves, Rests, IdleWorker, Stands, WorkerState, At
  <2>2. InnerStep
    BY <1>15 DEF Finish
  <2>3. QED
    BY <1>0, <2>1, <2>2, OutsideProcessing DEF Placed, HoldsInner, At, Owning, Processing
<1>9. CASE RecordFailure(w) \/ Purge(w) \/ Crash(w)
  <2>1. worker'[w].pc = "idle" /\ InnerStep
    BY <1>0, <1>9 DEF RecordFailure, Purge, Crash, Rests, IdleWorker
  <2>2. QED  BY <2>1, OutsideProcessing
<1>10. CASE Fail(w) \/ FailCheckpoint(w)
  <2>1. /\ worker'[w].pc = "failing" /\ worker'[w].at = At(w)
        /\ worker[w].pc \in {"claimed"} \cup Processing /\ InnerStep
    BY <1>0, <1>10
       DEF Fail, FailCheckpoint, Moves, Stands, WorkerState, At, Owning, Processing
  <2>2. QED
    BY <1>0, <2>1 DEF Placed, HoldsInner, At, Owning, Processing
<1>11. CASE SelectExpired(w)
  <2>1. worker'[w].pc = "purge" /\ inner' = inner
    BY <1>0, <1>11 DEF SelectExpired, WorkerState
  <2>2. QED  BY <2>1, OutsideProcessing
<1>12. CASE LoseOuter(w)
  BY <1>0, <1>12 DEF LoseOuter, Placed, HoldsInner, At
<1>16. CASE LoseInner(w)
  BY <1>0, <1>16 DEF LoseInner, Placed, HoldsInner, At
<1>13. QED
  BY <1>1, <1>2, <1>3, <1>4, <1>5, <1>6, <1>7, <1>8, <1>9, <1>10, <1>11, <1>12,
     <1>14, <1>15, <1>16 DEF Work

LEMMA LockInitially == Init => LockInv
BY DEF Init, LockInv, Placed, HoldsInner, IdleWorker, Owning, Processing

LEMMA TypeAndLocksStep == TypeOK /\ LockInv /\ [Next]_vars => TypeOK' /\ LockInv'
<1> SUFFICES ASSUME TypeOK, LockInv, [Next]_vars
             PROVE  TypeOK' /\ LockInv'
  OBVIOUS
<1>1. CASE Requesting /\ UNCHANGED <<workers, delivery, faults, overrun, unfenced>>
  BY <1>1, RequestsType DEF LockInv, Placed, HoldsInner, At, workers
<1>2. ASSUME NEW w \in Workers,
             Work(w) \/ SelectExpired(w) \/ Crash(w) \/ LoseOuter(w) \/ LoseInner(w)
      PROVE  TypeOK' /\ LockInv'
  BY <1>2, WorkType, FaultType, WorkerLocks DEF LockInv
<1>3. ASSUME NEW r \in Reports, Elapse(r)
      PROVE  TypeOK' /\ LockInv'
  BY <1>3, ElapseType DEF Elapse, workers, LockInv, Placed, HoldsInner, At
<1>4. CASE UNCHANGED vars
  BY <1>4 DEF vars, tables, requests, workers, delivery, TypeOK, LockInv, Placed,
              HoldsInner, At
<1>5. QED
  BY <1>1, <1>2, <1>3, <1>4 DEF Next, Working

LEMMA TypeAndLocks == Spec => [](TypeOK /\ LockInv)
<1>1. Init => TypeOK /\ LockInv
  BY InitType, LockInitially
<1>2. QED  BY <1>1, TypeAndLocksStep, PTL DEF Spec

\* Every step of handlers, workers, crashes and purges keeps the tables, the
\* locks and the memories of the processes within their types.
THEOREM TypeCorrect == Spec => []TypeOK
BY TypeAndLocks, PTL

\* No report is ever processed by two threads at once, whatever outer locks
\* are lost: the inner lock has one holder, and every step of process_report
\* is taken by its holder, unless that lock was lost itself.
THEOREM ProcessedAlone == Spec => []OneProcessor
<1>1. TypeOK /\ LockInv => OneProcessor
  BY DEF TypeOK, LockInv, Placed, HoldsInner, OneProcessor, Owning
<1>2. QED  BY <1>1, TypeAndLocks, PTL
-----------------------------------------------------------------------------
\* Rows and the constraints of the database.

\* The CHECK constraint as every committed row obeys it, and what Finish and
\* Purge add to it: a report that has succeeded or expired has given up its
\* delivery configuration.  The report of a job is always delivered.
RowInv(r) ==
  Present(r) =>
    /\ Admits(report[r])
    /\ report[r].status \in {"succeeded", "expired"} => ~report[r].config
    /\ HasRun(r) => report[r].delivery

RunInv(r) == r \notin overrun /\ HasRun(r) => RunAgrees(r)

\* The unique index as the whole table obeys it.
IndexInv ==
  \A q, r \in Reports :
    /\ HasRun(r)
    /\ report[q].job = report[r].job
    /\ run[q] = "running"
    /\ run[r] = "running"
    => q = r

\* A handler that is about to write knows which report it read.
HandlerInv ==
  \A c \in Clients : client[c].pc \in {"requeue", "check"} => client[c].report \in Reports

RowsInv == IndexInv /\ \A r \in Reports : RowInv(r) /\ RunInv(r)

\* A step that leaves the rows of reports and runs alone.
RowsKept == UNCHANGED <<report, run, overrun>>

\* Such a step keeps what the rows obey.
LEMMA RowsKeptInv ==
  ASSUME RowsInv, RowsKept
  PROVE  RowsInv'
BY DEF RowsInv, RowsKept, IndexInv, RowInv, RunInv, Present, HasRun, RunAgrees

\* A step that rewrites one row, keeps its job and makes no run active.
LEMMA OneRowInv ==
  ASSUME TypeOK, TypeOK', RowsInv, NEW r \in Reports, overrun \subseteq overrun',
         \A q \in Reports \ {r} : report'[q] = report[q] /\ run'[q] = run[q],
         report'[r].job = report[r].job,
         run'[r] = "running" => run[r] = "running",
         RowInv(r)', RunInv(r)'
  PROVE  RowsInv'
<1>1. \A q \in Reports \ {r} : RowInv(q)' /\ RunInv(q)'
  BY DEF RowsInv, RowInv, RunInv, Present, HasRun, RunAgrees
<1>2. IndexInv'
  BY DEF RowsInv, IndexInv, HasRun
<1>3. QED  BY <1>1, <1>2 DEF RowsInv

\* A step that rewrites one row and makes its run active, as the index admits.
LEMMA ActiveRowInv ==
  ASSUME TypeOK, TypeOK', RowsInv, NEW r \in Reports, overrun \subseteq overrun',
         \A q \in Reports \ {r} : report'[q] = report[q] /\ run'[q] = run[q],
         report'[r].job # NoJob => IndexAdmits(r, report'[r].job),
         RowInv(r)', RunInv(r)'
  PROVE  RowsInv'
<1>1. \A q \in Reports \ {r} : RowInv(q)' /\ RunInv(q)'
  BY DEF RowsInv, RowInv, RunInv, Present, HasRun, RunAgrees
<1>2. IndexInv'
  BY DEF RowsInv, IndexInv, HasRun, IndexAdmits
<1>3. QED  BY <1>1, <1>2 DEF RowsInv

\* Workers and handlers share nothing but the tables.
LEMMA WorkingAsksNothing ==
  ASSUME Working
  PROVE  UNCHANGED client
<1>1. ASSUME NEW w \in Workers, NEW r \in Reports, Claim(w, r)
      PROVE  UNCHANGED client
  BY <1>1 DEF Claim, requests
<1>2. ASSUME NEW w \in Workers,
             Begin(w) \/ Yield(w) \/ Start(w) \/ Capture(w) \/ Plan(w)
      PROVE  UNCHANGED client
  BY <1>2 DEF Begin, Yield, Start, Capture, Plan, requests
<1>3. ASSUME NEW w \in Workers, NEW s, Query(w, s) \/ Split(w, s)
      PROVE  UNCHANGED client
  BY <1>3 DEF Query, Split, requests
<1>4. ASSUME NEW w \in Workers, Render(w) \/ Checkpoint(w) \/ Finish(w) \/ Fail(w)
      PROVE  UNCHANGED client
  BY <1>4 DEF Render, Checkpoint, Finish, Fail, requests
<1>5. ASSUME NEW w \in Workers, NEW f \in Files, Send(w, f)
      PROVE  UNCHANGED client
  BY <1>5 DEF Send, requests
<1>6. ASSUME NEW w \in Workers,
             \/ FailCheckpoint(w) \/ ReadFailure(w) \/ RecordFailure(w)
             \/ Refused(w) \/ Purge(w)
             \/ SelectExpired(w) \/ Crash(w) \/ LoseOuter(w) \/ LoseInner(w)
      PROVE  UNCHANGED client
  BY <1>6 DEF FailCheckpoint, ReadFailure, RecordFailure, Refused, Purge,
              SelectExpired, Crash, LoseOuter, LoseInner, requests
<1>7. ASSUME NEW r \in Reports, Elapse(r)
      PROVE  UNCHANGED client
  BY <1>7 DEF Elapse, requests
<1>8. QED
  BY <1>1, <1>2, <1>3, <1>4, <1>5, <1>6, <1>7 DEF Working, Work

LEMMA HandlersKnow ==
  ASSUME TypeOK, HandlerInv, [Next]_vars
  PROVE  HandlerInv'
<1> DEFINE Knows(c) ==
             client[c].pc \in {"requeue", "check"} => client[c].report \in Reports
<1>0. client \in [Clients -> ClientState]
  BY DEF TypeOK
<1>1. ASSUME NEW c \in Clients, NEW r \in Reports, Retry(c, r)
      PROVE  HandlerInv'
  BY <1>0, <1>1 DEF Retry, HandlerInv
<1>2. ASSUME NEW c \in Clients, NEW j \in Jobs, ManualRun(c, j)
      PROVE  HandlerInv'
  BY <1>0, <1>2 DEF ManualRun, HandlerInv
<1>3. ASSUME NEW c \in Clients, Done(c)
      PROVE  HandlerInv'
  BY <1>0, <1>3 DEF Done, IdleClient, HandlerInv
<1>4. ASSUME NEW c \in Clients, FindFailedRun(c)
      PROVE  HandlerInv'
  <2>1. CASE Goes(c, "insert")
    BY <1>0, <2>1 DEF Goes, HandlerInv, ClientState
  <2>2. ASSUME NEW r \in Reports,
               client' = [client EXCEPT ![c].pc = "check", ![c].report = r]
        PROVE  HandlerInv'
    <3>1. client'[c].pc = "check" /\ client'[c].report = r
      BY <1>0, <2>2 DEF ClientState
    <3>2. \A d \in Clients \ {c} : client'[d] = client[d]
      BY <1>0, <2>2
    <3>3. QED  BY <3>1, <3>2 DEF HandlerInv
  <2>3. QED  BY <1>4, <2>1, <2>2 DEF FindFailedRun, FailedRuns
<1>5. ASSUME NEW c \in Clients, CheckFailedReport(c)
      PROVE  HandlerInv'
  <2>1. client'[c].report = client[c].report /\ client[c].pc = "check"
    BY <1>0, <1>5 DEF CheckFailedReport, Goes, ClientState
  <2>2. \A d \in Clients \ {c} : client'[d] = client[d]
    BY <1>0, <1>5 DEF CheckFailedReport, Goes
  <2>3. QED  BY <2>1, <2>2 DEF HandlerInv
<1>6. CASE UNCHANGED client
  BY <1>6 DEF HandlerInv
<1>7. CASE Working
  BY <1>6, <1>7, WorkingAsksNothing
<1>8. CASE Requesting
  BY <1>1, <1>2, <1>3, <1>4, <1>5, <1>6, <1>8
     DEF Requesting, RunDue, Requeue, RequeueRefused, InsertRun, InsertRefused,
         EnqueueReport, DeleteJob, requests
<1>9. QED
  BY <1>6, <1>7, <1>8 DEF Next, vars, requests

LEMMA RequestsRows ==
  ASSUME TypeOK, TypeOK', HandlerInv, RowsInv,
         Requesting, UNCHANGED <<workers, delivery, faults, overrun, unfenced>>
  PROVE  RowsInv'
<1>0. \A r \in Reports : report[r] \in Row
  BY DEF TypeOK
<1>1. ASSUME NEW c \in Clients, Requeue(c)
      PROVE  RowsInv'
  <2>1. PICK r \in Reports : r = client[c].report
    BY <1>1 DEF Requeue, HandlerInv
  <2>2. report'[r] = Requeued(report[r])
    BY <1>1, <2>1 DEF Requeue, TypeOK
  <2>8. report'[r].status = "queued" /\ report'[r].job = report[r].job
    BY <1>0, <2>2 DEF Requeued, Row
  <2>9. Present(r) /\ report'[r].delivery = report[r].delivery
    BY <1>0, <1>1, <2>1, <2>2 DEF Requeue, MayRequeue, Requeued, Row
  <2>3. RowInv(r)'
    BY <1>1, <2>1, <2>2, <2>8, <2>9 DEF Requeue, MayRequeue, RowsInv, RowInv, HasRun
  <2>4. RunInv(r)'
    BY <1>1, <2>1, <2>8 DEF Requeue, RunInv, HasRun, RunAgrees, Live, TypeOK
  <2>5. report'[r].job # NoJob => IndexAdmits(r, report'[r].job)
    BY <1>1, <2>1, <2>8 DEF Requeue, MayRequeue, HasRun
  <2>6. \A q \in Reports \ {r} : report'[q] = report[q] /\ run'[q] = run[q]
    BY <1>1, <2>1 DEF Requeue, TypeOK
  <2>7. QED  BY <2>1, <2>3, <2>4, <2>5, <2>6, ActiveRowInv
<1>2. ASSUME NEW c \in Clients, NEW r \in Reports, NEW contracts \in BOOLEAN,
             InsertRun(c, r, contracts)
      PROVE  RowsInv'
  <2>0. PICK j : j = client[c].job
    OBVIOUS
  <2>1. /\ report'[r] = NewRow(j, TRUE, contracts)
        /\ run'[r] = IF contracts THEN "running" ELSE "success"
        /\ \A q \in Reports \ {r} : report'[q] = report[q] /\ run'[q] = run[q]
    BY <1>2, <2>0 DEF InsertRun, TypeOK
  <2>2. /\ report'[r].job = j /\ report'[r].delivery /\ report'[r].config = contracts
        /\ report'[r].status = IF contracts THEN "queued" ELSE "succeeded"
    BY <2>1 DEF NewRow, Unused
  <2>3. RowInv(r)'
    BY <2>2 DEF RowInv, Admits, HasRun
  <2>4. RunInv(r)'
    BY <2>1, <2>2 DEF RunInv, RunAgrees, Live
  <2>5. IndexAdmits(r, j)
    BY <1>2, <2>0 DEF InsertRun, MayInsert
  <2>6. QED  BY <2>1, <2>2, <2>3, <2>4, <2>5, ActiveRowInv
<1>3. ASSUME NEW r \in Reports, NEW d \in BOOLEAN, NEW contracts \in BOOLEAN,
             EnqueueReport(r, d, contracts)
      PROVE  RowsInv'
  <2>1. /\ report'[r] = NewRow(NoJob, d, contracts)
        /\ \A q \in Reports \ {r} : report'[q] = report[q] /\ run'[q] = run[q]
    BY <1>3 DEF EnqueueReport, TypeOK
  <2>2. /\ report'[r].job = NoJob /\ report'[r].delivery = d
        /\ report'[r].config = (d /\ contracts)
        /\ report'[r].status = IF contracts THEN "queued" ELSE "succeeded"
    BY <2>1 DEF NewRow, Unused
  <2>3. RowInv(r)'
    BY <1>3, <2>2 DEF RowInv, Admits, HasRun, EnqueueReport
  <2>4. RunInv(r)'
    BY <2>2 DEF RunInv, HasRun
  <2>5. QED  BY <2>1, <2>2, <2>3, <2>4, ActiveRowInv
<1>4. ASSUME NEW j \in Jobs, DeleteJob(j)
      PROVE  RowsInv'
  <2>1. \A r \in Reports :
          \/ report'[r] = report[r] /\ run'[r] = run[r]
          \/ report'[r].status = "deleted" /\ report'[r].job = NoJob
    BY <1>4 DEF DeleteJob, Unused
  <2>2. \A r \in Reports : RowInv(r)' /\ RunInv(r)'
    BY <2>1 DEF RowsInv, RowInv, RunInv, Present, HasRun, RunAgrees, Stored, Live
  <2>3. IndexInv'
    <3> SUFFICES ASSUME NEW q \in Reports, NEW r \in Reports, HasRun(r)',
                        report'[q].job = report'[r].job,
                        run'[q] = "running", run'[r] = "running"
                 PROVE  q = r
      BY DEF IndexInv
    <3>1. report'[r] = report[r] /\ run'[r] = run[r]
      BY <2>1 DEF HasRun
    <3>2. report'[q] = report[q] /\ run'[q] = run[q]
      BY <2>1 DEF HasRun
    <3>3. QED  BY <3>1, <3>2 DEF RowsInv, IndexInv, HasRun
  <2>4. QED  BY <2>2, <2>3 DEF RowsInv
<1>5. CASE RowsKept
  BY <1>5, RowsKeptInv
<1>6. QED
  BY <1>1, <1>2, <1>3, <1>4, <1>5
     DEF Requesting, RowsKept, Retry, ManualRun, RunDue, RequeueRefused,
         FindFailedRun, CheckFailedReport, InsertRefused, tables

\* What a step of worker w changes in the rows: at most the row of one
\* report it owns, or those its purge selected.
LEMMA WorkRows ==
  ASSUME TypeOK, TypeOK', LockInv, RowsInv, NEW w \in Workers, Work(w)
  PROVE  RowsInv'
<1>0. /\ \A r \in Reports : report[r] \in Row
      /\ Placed(w)
  BY DEF TypeOK, LockInv
<1>1. CASE Begin(w)
  <2>1. PICK r \in Reports : r = At(w)
    BY <1>0, <1>1 DEF Begin, Placed, Stands, Owning
  <2>2. /\ report'[r] = Started(report[r]) /\ Present(r) /\ Admits(Started(report[r]))
        /\ run' = run
        /\ overrun' = IF Workable(r) THEN overrun ELSE overrun \cup {r}
        /\ \A q \in Reports \ {r} : report'[q] = report[q]
    BY <1>1, <2>1 DEF Begin, TypeOK
  <2>3. /\ report'[r].status = "running"
        /\ report'[r].job = report[r].job
        /\ report'[r].delivery = report[r].delivery
    BY <1>0, <2>2 DEF Started, Row
  <2>4. RowInv(r)'
    BY <2>2, <2>3 DEF RowsInv, RowInv, HasRun
  <2>5. RunInv(r)'
    BY <2>2, <2>3 DEF RowsInv, RunInv, HasRun, RunAgrees, Workable, Live
  <2>6. QED  BY <2>2, <2>3, <2>4, <2>5, OneRowInv
<1>2. CASE Capture(w) \/ Render(w)
  <2>1. PICK r \in Reports : r = At(w)
    BY <1>0, <1>2 DEF Capture, Render, Placed, Stands, Owning, Processing
  <2>2. /\ run' = run /\ overrun' = overrun
        /\ \A q \in Reports \ {r} : report'[q] = report[q]
    BY <1>2, <2>1 DEF Capture, Render, TypeOK
  <2>3. /\ report'[r].status = report[r].status
        /\ report'[r].job = report[r].job
        /\ report'[r].delivery = report[r].delivery
        /\ report'[r].config = report[r].config
    BY <1>0, <1>2, <2>1 DEF Capture, Render, Row, TypeOK
  <2>4. RowInv(r)' /\ RunInv(r)'
    BY <2>2, <2>3 DEF RowsInv, RowInv, RunInv, Present, HasRun, RunAgrees, Admits
  <2>5. QED  BY <2>2, <2>3, <2>4, OneRowInv
<1>3. CASE Finish(w)
  <2>1. PICK r \in Reports : r = At(w)
    BY <1>0, <1>3 DEF Finish, Placed, Stands, Owning, Processing
  <2>2. /\ run'[r] = (IF HasRun(r) THEN "success" ELSE run[r])
        /\ overrun' = overrun
        /\ \A q \in Reports \ {r} : report'[q] = report[q] /\ run'[q] = run[q]
    BY <1>3, <2>1 DEF Finish, TypeOK
  <2>3. /\ report'[r].status = "succeeded" /\ Present(r)
        /\ report'[r].job = report[r].job
        /\ report'[r].delivery = report[r].delivery
        /\ ~report'[r].config
    BY <1>0, <1>3, <2>1 DEF Finish, Row, TypeOK
  <2>4. RowInv(r)'
    BY <2>3 DEF RowsInv, RowInv, Admits, HasRun
  <2>5. RunInv(r)'
    BY <2>2, <2>3 DEF RunInv, HasRun, RunAgrees, Live
  <2>6. QED  BY <2>2, <2>3, <2>4, <2>5, OneRowInv
<1>4. CASE RecordFailure(w)
  <2>1. PICK r \in Reports : r = At(w)
    BY <1>0, <1>4 DEF RecordFailure, Placed, Stands, Owning
  <2>2. /\ run'[r] = RunAfterFailure(r)
        /\ report'[r] = Failed(report[r]) /\ Present(r) /\ Admits(Failed(report[r]))
        /\ overrun' = overrun
        /\ \A q \in Reports \ {r} : report'[q] = report[q] /\ run'[q] = run[q]
    BY <1>4, <2>1 DEF RecordFailure, TypeOK
  <2>3. /\ report'[r].status = "failed"
        /\ report'[r].job = report[r].job
        /\ report'[r].delivery = report[r].delivery
        /\ report'[r].config = report[r].config
    BY <1>0, <2>2 DEF Failed, Row
  <2>4. RowInv(r)'
    BY <2>2, <2>3 DEF RowsInv, RowInv, HasRun
  \* A job's report that has succeeded or expired is not overwritten: it has
  \* no configuration left, and the constraint refuses it as failed.
  <2>5. HasRun(r) => report[r].status \in {"queued", "running", "failed"}
    <3>1. HasRun(r) => report'[r].config
      BY <2>2, <2>3 DEF RowsInv, RowInv, Admits
    <3>2. report[r].status \in Stored
      BY <2>2 DEF Present
    <3>3. QED  BY <2>2, <2>3, <3>1, <3>2 DEF RowsInv, RowInv, Stored, Live
  <2>6. RunInv(r)'
    BY <2>2, <2>3, <2>5
       DEF RowsInv, RunInv, HasRun, RunAgrees, RunAfterFailure, Live
  <2>7. run'[r] # "running"
    BY <2>2 DEF RunAfterFailure
  <2>8. QED  BY <2>2, <2>3, <2>4, <2>6, <2>7, OneRowInv
<1>5. CASE Purge(w)
  <2>1. PICK ids : ids = {r \in worker[w].ids : Present(r)}
    OBVIOUS
  <2>2. /\ report' = [r \in Reports |-> IF r \in ids THEN Expired(report[r]) ELSE report[r]]
        /\ run' = run
        /\ overrun' = overrun \cup
             {r \in ids : report[r].status \in Live \/ Processed(r)}
    BY <1>5, <2>1 DEF Purge
  <2>3. \A r \in Reports : /\ report'[r].job = report[r].job
                            /\ report'[r].delivery = report[r].delivery
    BY <1>0, <2>2 DEF Expired, Row
  <2>4. IndexInv'
    BY <2>2, <2>3 DEF RowsInv, IndexInv, HasRun
  <2>5. ASSUME NEW r \in Reports
        PROVE  RowInv(r)' /\ RunInv(r)'
    <3>1. CASE r \notin ids
      BY <2>2, <3>1 DEF RowsInv, RowInv, RunInv, Present, HasRun, RunAgrees
    <3>2. CASE r \in ids
      <4>1. /\ report'[r].status = "expired" /\ ~report'[r].config
            /\ Present(r) /\ run' = run
        BY <1>0, <2>1, <2>2, <3>2 DEF Expired, Row
      <4>2. RowInv(r)'
        BY <2>3, <4>1 DEF RowsInv, RowInv, Admits, HasRun
      <4>3. r \notin overrun' => r \notin overrun /\ report[r].status \notin Live
        BY <2>2, <3>2
      <4>4. RunInv(r)'
        BY <2>3, <4>1, <4>3
           DEF RowsInv, RunInv, HasRun, RunAgrees, Live, Present, Stored
      <4>5. QED  BY <4>2, <4>4
    <3>3. QED  BY <3>1, <3>2
  <2>6. QED  BY <2>4, <2>5 DEF RowsInv
<1>6. CASE RowsKept
  BY <1>6, RowsKeptInv
<1>7. CASE \/ Yield(w) \/ Start(w) \/ Plan(w) \/ Checkpoint(w)
           \/ Fail(w) \/ FailCheckpoint(w) \/ ReadFailure(w) \/ Refused(w)
  BY <1>6, <1>7
     DEF RowsKept, Yield, Start, Plan, Checkpoint, Fail, FailCheckpoint,
         ReadFailure, Refused, tables
<1>11. ASSUME NEW r \in Reports, Claim(w, r)
       PROVE  RowsInv'
  BY <1>6, <1>11 DEF RowsKept, Claim, tables
<1>8. ASSUME NEW s, Query(w, s) \/ Split(w, s)
      PROVE  RowsInv'
  BY <1>6, <1>8 DEF RowsKept, Query, Split
<1>9. ASSUME NEW f \in Files, Send(w, f)
      PROVE  RowsInv'
  BY <1>6, <1>9 DEF RowsKept, Send, tables
<1>10. QED
  BY <1>1, <1>2, <1>3, <1>4, <1>5, <1>7, <1>8, <1>9, <1>11 DEF Work

LEMMA ElapseRows ==
  ASSUME TypeOK, TypeOK', RowsInv, NEW r \in Reports, Elapse(r)
  PROVE  RowsInv'
<1>1. /\ run' = run /\ overrun' = overrun
      /\ \A q \in Reports \ {r} : report'[q] = report[q]
  BY DEF Elapse, TypeOK
<1>2. report[r] \in Row /\ report'[r] = [report[r] EXCEPT !.expiry = "due"]
  BY DEF Elapse, TypeOK
<1>3. /\ report'[r].status = report[r].status
      /\ report'[r].job = report[r].job
      /\ report'[r].delivery = report[r].delivery
      /\ report'[r].config = report[r].config
  BY <1>2 DEF Row
<1>4. RowInv(r)' /\ RunInv(r)'
  BY <1>1, <1>3 DEF RowsInv, RowInv, RunInv, Present, HasRun, RunAgrees, Admits
<1>5. QED  BY <1>1, <1>3, <1>4, OneRowInv

\* Everything that is proved of the rows, with what it rests on.
Safe == TypeOK /\ LockInv /\ HandlerInv /\ RowsInv

LEMMA RowsInitially == Init => HandlerInv /\ RowsInv
BY DEF Init, HandlerInv, IdleClient, RowsInv, IndexInv, RowInv, RunInv, Present,
       HasRun, Unused, Stored, Live

LEMMA SafeStep == Safe /\ [Next]_vars => Safe'
<1> SUFFICES ASSUME Safe, [Next]_vars
             PROVE  Safe'
  OBVIOUS
<1>1. TypeOK' /\ LockInv' /\ HandlerInv'
  BY TypeAndLocksStep, HandlersKnow DEF Safe
<1>2. CASE Requesting /\ UNCHANGED <<workers, delivery, faults, overrun, unfenced>>
  BY <1>1, <1>2, RequestsRows DEF Safe
<1>3. ASSUME NEW w \in Workers, Work(w)
      PROVE  Safe'
  BY <1>1, <1>3, WorkRows DEF Safe
<1>4. ASSUME NEW w \in Workers, SelectExpired(w) \/ Crash(w) \/ LoseOuter(w) \/ LoseInner(w)
      PROVE  Safe'
  BY <1>1, <1>4, RowsKeptInv DEF Safe, RowsKept, SelectExpired, Crash, LoseOuter, LoseInner, tables
<1>5. ASSUME NEW r \in Reports, Elapse(r)
      PROVE  Safe'
  BY <1>1, <1>5, ElapseRows DEF Safe
<1>6. CASE UNCHANGED vars
  BY <1>1, <1>6, RowsKeptInv DEF Safe, RowsKept, vars, tables
<1>7. QED
  BY <1>2, <1>3, <1>4, <1>5, <1>6 DEF Next, Working

LEMMA AlwaysSafe == Spec => []Safe
<1>1. Init => Safe
  BY InitType, LockInitially, RowsInitially DEF Safe
<1>2. QED  BY <1>1, SafeStep, PTL DEF Spec

\* Runs and reports agree through every interleaving of claims, retries,
\* failures, deletions and purges, except on overrun reports.
THEOREM RunsFollowReports == Spec => []RunMatchesReport
<1>1. Safe => RunMatchesReport
  BY DEF Safe, RowsInv, RunInv, RunMatchesReport
<1>2. QED  BY <1>1, AlwaysSafe, PTL

\* The unique index on active runs, together with the agreement of runs and
\* reports, keeps a job's period from having two reports under way.
THEOREM OneReportUnderWay == Spec => []OneLiveReportPerJob
<1>1. Safe => OneLiveReportPerJob
  <2> SUFFICES ASSUME Safe, NEW q \in Reports \ overrun, NEW r \in Reports \ overrun,
                      HasRun(r), report[q].job = report[r].job,
                      report[q].status \in Live, report[r].status \in Live
               PROVE  q = r
    BY DEF OneLiveReportPerJob
  <2>1. RunAgrees(q) /\ RunAgrees(r)
    BY DEF Safe, RowsInv, RunInv, HasRun
  <2>2. run[q] = "running" /\ run[r] = "running"
    BY <2>1 DEF RunAgrees, Live
  <2>3. QED  BY <2>2 DEF Safe, RowsInv, IndexInv
<1>2. QED  BY <1>1, AlwaysSafe, PTL

\* A delivered report that succeeded has given up its configuration, and the
\* CHECK constraint refuses every row that is under way without one: the
\* commit of a stale retry fails.
THEOREM DeliveredForGood == Spec => DeliveredIsFinal
<1> DEFINE Final(r) == report[r].status = "succeeded" /\ report[r].delivery
           Stays(r) == report'[r].status \in {"succeeded", "expired", "deleted"}
<1>1. ASSUME Safe, [Next]_vars, NEW r \in Reports, Final(r)
      PROVE  Stays(r)
  <2>0. /\ \A q \in Reports : report[q] \in Row
        /\ report \in [Reports -> Row]
        /\ r \notin FreeRows
        /\ ~report[r].config
    BY <1>1 DEF Safe, TypeOK, FreeRows, RowsInv, RowInv, Present, Stored
  <2>1. CASE report'[r] = report[r]
    BY <1>1, <2>1
  <2>2. ASSUME NEW c \in Clients, Requeue(c)
        PROVE  Stays(r)
    <3>1. client[c].report # r
      <4>1. Requeued(report[r]).status = "queued" /\ Requeued(report[r]).delivery
              /\ ~Requeued(report[r]).config
        BY <1>1, <2>0 DEF Requeued, Row
      <4>2. ~Admits(Requeued(report[r]))
        BY <4>1 DEF Admits
      <4>3. QED  BY <2>2, <4>2 DEF Requeue, MayRequeue
    <3>2. QED  BY <2>0, <2>1, <2>2, <3>1 DEF Requeue
  <2>3. ASSUME NEW c \in Clients, NEW q \in Reports, NEW b \in BOOLEAN, InsertRun(c, q, b)
        PROVE  Stays(r)
    BY <2>0, <2>1, <2>3 DEF InsertRun, NextRow
  <2>4. ASSUME NEW q \in Reports, NEW d \in BOOLEAN, NEW b \in BOOLEAN, EnqueueReport(q, d, b)
        PROVE  Stays(r)
    BY <2>0, <2>1, <2>4 DEF EnqueueReport, NextRow
  <2>5. ASSUME NEW j \in Jobs, DeleteJob(j)
        PROVE  Stays(r)
    BY <2>1, <2>5 DEF DeleteJob, Unused
  <2>6. ASSUME NEW w \in Workers, Begin(w)
        PROVE  Stays(r)
    <3>1. At(w) # r
      <4>1. Started(report[r]).status = "running" /\ Started(report[r]).delivery
              /\ ~Started(report[r]).config
        BY <1>1, <2>0 DEF Started, Row
      <4>2. ~Admits(Started(report[r]))
        BY <4>1 DEF Admits
      <4>3. QED  BY <2>6, <4>2 DEF Begin
    <3>2. QED  BY <2>0, <2>1, <2>6, <3>1 DEF Begin
  <2>7. ASSUME NEW w \in Workers, Capture(w) \/ Render(w)
        PROVE  Stays(r)
    <3>1. report'[r].status = report[r].status
      BY <2>0, <2>7 DEF Capture, Render, Row
    <3>2. QED  BY <1>1, <3>1
  <2>8. ASSUME NEW w \in Workers, Finish(w)
        PROVE  Stays(r)
    <3>1. CASE r = At(w)
      BY <2>0, <2>8, <3>1 DEF Finish, Row
    <3>2. CASE r # At(w)
      BY <2>0, <2>1, <2>8, <3>2 DEF Finish
    <3>3. QED  BY <3>1, <3>2
  <2>9. ASSUME NEW w \in Workers, RecordFailure(w)
        PROVE  Stays(r)
    <3>1. At(w) # r
      <4>1. Failed(report[r]).status = "failed" /\ Failed(report[r]).delivery
              /\ ~Failed(report[r]).config
        BY <1>1, <2>0 DEF Failed, Row
      <4>2. ~Admits(Failed(report[r]))
        BY <4>1 DEF Admits
      <4>3. QED  BY <2>9, <4>2 DEF RecordFailure
    <3>2. QED  BY <2>0, <2>1, <2>9, <3>1 DEF RecordFailure
  <2>10. ASSUME NEW w \in Workers, Purge(w)
         PROVE  Stays(r)
    <3>1. Expired(report[r]).status = "expired"
      BY <2>0 DEF Expired, Row
    <3>2. report'[r] = report[r] \/ report'[r] = Expired(report[r])
      BY <2>10 DEF Purge
    <3>3. QED  BY <2>1, <3>1, <3>2
  <2>11. ASSUME NEW q \in Reports, Elapse(q)
         PROVE  Stays(r)
    <3>1. report'[r].status = report[r].status
      BY <2>0, <2>11 DEF Elapse, Row
    <3>2. QED  BY <1>1, <3>1
  <2>12. CASE UNCHANGED report
    BY <2>1, <2>12
  <2>13. CASE Requesting
    BY <2>2, <2>3, <2>4, <2>5, <2>12, <2>13
       DEF Requesting, Retry, ManualRun, RunDue, RequeueRefused, FindFailedRun,
           CheckFailedReport, InsertRefused, tables
  <2>14. ASSUME NEW w \in Workers, Work(w)
         PROVE  Stays(r)
    <3>1. ASSUME NEW s, Query(w, s) \/ Split(w, s)
          PROVE  Stays(r)
      BY <2>12, <3>1 DEF Query, Split
    <3>2. ASSUME NEW f \in Files, Send(w, f)
          PROVE  Stays(r)
      BY <2>12, <3>2 DEF Send, tables
    <3>3. CASE \/ Yield(w) \/ Start(w) \/ Plan(w) \/ Checkpoint(w) \/ Fail(w)
                 \/ FailCheckpoint(w) \/ ReadFailure(w) \/ Refused(w)
      BY <2>12, <3>3 DEF Yield, Start, Plan, Checkpoint, Fail, FailCheckpoint,
                         ReadFailure, Refused, tables
    <3>5. ASSUME NEW q \in Reports, Claim(w, q)
          PROVE  Stays(r)
      BY <2>12, <3>5 DEF Claim, tables
    <3>4. QED
      BY <2>6, <2>7, <2>8, <2>9, <2>10, <2>14, <3>1, <3>2, <3>3, <3>5 DEF Work
  <2>15. ASSUME NEW w \in Workers, SelectExpired(w) \/ Crash(w) \/ LoseOuter(w) \/ LoseInner(w)
         PROVE  Stays(r)
    BY <2>12, <2>15 DEF SelectExpired, Crash, LoseOuter, LoseInner, tables
  <2>16. QED
    BY <1>1, <2>11, <2>12, <2>13, <2>14, <2>15 DEF Next, Working, vars, tables
<1>2. Safe /\ [Next]_vars =>
        [\A r \in Reports :
           report[r].status = "succeeded" /\ report[r].delivery
           => report'[r].status \in {"succeeded", "expired", "deleted"}]_vars
  BY <1>1
<1>3. QED  BY <1>2, AlwaysSafe, PTL DEF Spec, DeliveredIsFinal
=============================================================================
