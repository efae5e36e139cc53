------------------------ MODULE ManagedClusterProofs ------------------------
(***************************************************************************)
(* Theorems about the customer-cluster operator, for any number of Jobs,   *)
(* generations, ManagedClusters, commits and faults, and for all plans.    *)
(***************************************************************************)
EXTENDS ManagedCluster, SequenceTheorems, FiniteSetTheorems, TLAPS

\* A Job whose Pod runs or may still start.
Active(n) == pods[n].at # "idle"
Occupied(n) == Open(n) \/ Active(n)

\* Pods belong to Jobs that run, are too late or were deleted with their owner.
JobsInv ==
  /\ \A n \in Numbers : Active(n) => n \in Known /\ jobs[n].at \in {"running", "expired", "deleted"}
  /\ \A n \in Known :
       /\ InputOf(n).uid <= mc.uid
       /\ Occupied(n) => jobs[n].failures <= BackoffLimit
       /\ jobs[n].at = "deleted" /\ Active(n) => Orphaned(jobs[n].name)
       /\ jobs[n].at \in {"running", "expired"} => Active(n)

\* At most one Job of a ManagedCluster, also of one that is gone, has or gets a Pod.
OneOccupant ==
  \A m, n \in Known : Occupied(m) /\ Occupied(n) /\ InputOf(m).uid = InputOf(n).uid => m = n

ObjectInv ==
  mc.at # "absent" => mc.uid >= 1 /\ mc.gen >= 1 /\ mc.spec \in Declaration

\* What a call may rely on: the object stays while it runs; once it has listed the
\* Jobs, and until it gives the lock back, nobody opens another one.
Locked == {"jobs", "input", "job"}
TaskInv ==
  /\ \A t \in Threads : task[t].at # "idle" =>
       /\ mc.at # "absent" /\ task[t].gen >= 1 /\ task[t].spec \in Declaration
       /\ task[t].at \in Locked => task[t].name # NoName /\ task[t].name.input.uid = mc.uid
       /\ task[t].at \in {"input", "job"} => \A n \in Known : InputOf(n).uid = mc.uid => ~Open(n)
       /\ task[t].at = "job" => task[t].name \in inputs
  /\ \A s, t \in Threads : task[s].at \in Locked /\ task[t].at \in Locked => s = t

\* The commit holds both files of the input, next to the declaration they are of.
Holds(commit, input) ==
  /\ commit \in 1..head
  /\ tree[commit].hosts = InventoryDocument(input)
  /\ tree[commit].policy.document = PolicyDocument(input)
  /\ ValidSource(tree[commit].source, input)

\* What a worker knows of its clone.
Informed(n) ==
  /\ pods[n].at \in {"head", "push", "confirm", "confirmed"} =>
       /\ pods[n].base \in 1..head
       /\ pods[n].want.hosts = InventoryDocument(InputOf(n))
       /\ pods[n].want.policy.document = PolicyDocument(InputOf(n))
  /\ pods[n].at = "push" =>
       pods[n].want.policy = PolicyContent(tree[pods[n].base].policy, InputOf(n))
  /\ pods[n].at \in {"head", "confirmed"} => Holds(pods[n].base, InputOf(n))
PublishInv == \A n \in Numbers : Informed(n)

\* A receipt is true in the Job, in the patch and in the status.
ReceiptInv ==
  /\ \A n \in Known : jobs[n].at = "complete" => Holds(jobs[n].commit, InputOf(n))
  /\ \A t \in Threads : task[t].at = "patch" =>
       /\ "reason" \in DOMAIN task[t].put
       /\ task[t].put.reason = "ProvisioningSucceeded" =>
            /\ {"commit", "hash", "pub"} \subseteq DOMAIN task[t].put
            /\ Holds(task[t].put.commit, task[t].put.pub)
            /\ task[t].put.hash = InputHash(task[t].put.pub)
  /\ ReceiptTrue

\* What the worker has gone past is tagged with its UID, and so is what it finishes;
\* what it is about to tag it has made.
Has(r, uid) == \E x \in cloud[r] : Owned(x, uid)
Owning == {"look", "create", "tag", "finish"}
Provided(n) ==
  /\ pods[n].todo \subseteq Todo(n)
  /\ pods[n].at \in Owning <=> pods[n].todo # {}
  /\ \A r \in (Todo(n) \ pods[n].todo) \ plan.disturbed : Has(r, InputOf(n).uid)
  /\ pods[n].at = "tag" => \/ First(pods[n].todo) \in plan.disturbed
                            \/ \E x \in cloud[First(pods[n].todo)] : x.maker = n /\ x.owner = 0
  /\ pods[n].at = "finish" => \/ First(pods[n].todo) \in plan.disturbed
                               \/ Has(First(pods[n].todo), InputOf(n).uid)
CloudInv == \A n \in Numbers : Active(n) => Provided(n)

Inv ==
  /\ TypeOK /\ JobsInv /\ OneOccupant /\ ObjectInv /\ TaskInv /\ InputsKept
  /\ PublishInv /\ ReceiptInv /\ CloudInv
-----------------------------------------------------------------------------
(* The types.                                                              *)

LEMMA FirstIn ==
  ASSUME NEW todo \in SUBSET Resources, todo # {}
  PROVE  First(todo) \in todo
<1> DEFINE M(k) == \E r \in todo : Turn(r) <= k
<1>1. \A r \in todo : Turn(r) \in 1..11
  BY DEF Turn, Resources, Named
<1>2. \E r \in todo : \A s \in todo : Turn(r) <= Turn(s)
  <2>1. CASE M(1)   BY <1>1, <2>1
  <2>2. CASE ~M(1) /\ M(2)   BY <1>1, <2>2
  <2>3. CASE ~M(2) /\ M(3)   BY <1>1, <2>3
  <2>4. CASE ~M(3) /\ M(4)   BY <1>1, <2>4
  <2>5. CASE ~M(4) /\ M(5)   BY <1>1, <2>5
  <2>6. CASE ~M(5) /\ M(6)   BY <1>1, <2>6
  <2>7. CASE ~M(6) /\ M(7)   BY <1>1, <2>7
  <2>8. CASE ~M(7) /\ M(8)   BY <1>1, <2>8
  <2>9. CASE ~M(8) /\ M(9)   BY <1>1, <2>9
  <2>10. CASE ~M(9) /\ M(10)   BY <1>1, <2>10
  <2>11. CASE ~M(10)
    BY <1>1, <2>11
  <2>12. QED  BY <2>1, <2>2, <2>3, <2>4, <2>5, <2>6, <2>7, <2>8, <2>9, <2>10, <2>11
<1>3. QED  BY <1>2 DEF First

\* The Jobs as a sequence.
LEMMA JobRows ==
  ASSUME WorkTypeOK
  PROVE  /\ Len(jobs) \in Nat
         /\ Known = 1..Len(jobs) /\ Known \subseteq Numbers
         /\ DOMAIN jobs = Known
         /\ \A n \in Known : jobs[n] \in Job /\ InputOf(n) \in Input
<1>1. Len(jobs) \in Nat /\ DOMAIN jobs = 1..Len(jobs) /\ \A n \in 1..Len(jobs) : jobs[n] \in Job
  BY LenProperties, ElementOfSeq DEF WorkTypeOK
<1>2. QED  BY <1>1, ManagedCloudAssumption DEF WorkTypeOK, Known, Numbers, InputOf, Job

LEMMA PodRows ==
  ASSUME WorkTypeOK, NEW n \in Numbers
  PROVE  pods[n] \in WorkerState
BY DEF WorkTypeOK

\* A function over the numbers of the Jobs is as long as they are.
LEMMA JobsMapped ==
  ASSUME WorkTypeOK, jobs' \in [Known -> Job]
  PROVE  jobs' \in Seq(Job) /\ Len(jobs') = Len(jobs) /\ Known' = Known
<1>1. jobs' \in [1..Len(jobs) -> Job]
  BY DEF Known
<1>2. Len(jobs) \in Nat
  BY JobRows
<1>3. jobs' \in Seq(Job)
  BY <1>1, <1>2, SeqDef
<1>4. QED  BY <1>1, <1>2, <1>3, LenProperties DEF Known

LEMMA JobsAltered ==
  ASSUME WorkTypeOK, NEW n \in Known, NEW j \in Job, jobs' = [jobs EXCEPT ![n] = j]
  PROVE  jobs' \in Seq(Job) /\ Len(jobs') = Len(jobs) /\ Known' = Known
<1>1. n \in 1..Len(jobs)
  BY DEF Known
<1>2. QED  BY <1>1, ExceptSeq DEF WorkTypeOK, Known

LEMMA JobsAppended ==
  ASSUME WorkTypeOK, NEW j \in Job, jobs' = Append(jobs, j)
  PROVE  /\ jobs' \in Seq(Job) /\ Len(jobs') = Len(jobs) + 1
         /\ Known' = 1..(Len(jobs) + 1) /\ jobs'[Len(jobs) + 1] = j
         /\ \A n \in Known : jobs'[n] = jobs[n]
BY AppendProperties, JobRows DEF WorkTypeOK, Known

\* What a failed Pod leaves of its Job.
LEMMA AfterFailureType ==
  ASSUME NEW j \in Job, j.failures <= BackoffLimit, NEW c \in BOOLEAN
  PROVE  /\ AfterFailure(j, c) \in Job
         /\ AfterFailure(j, c).name = j.name
         /\ AfterFailure(j, c).failures = j.failures + 1
         /\ AfterFailure(j, c).at \in {"deleted", "failed", "waiting"}
         /\ AfterFailure(j, c).at = "deleted" <=> j.at = "deleted"
         /\ AfterFailure(j, c).at = "waiting" =>
              j.failures < BackoffLimit /\ j.at \notin {"deleted", "expired"}
<1> USE ManagedWorkerAssumption
<1> DEFINE at == CASE j.at = "deleted" -> "deleted"
                   [] j.at = "expired" -> "failed"
                   [] OTHER -> IF j.failures = BackoffLimit THEN "failed" ELSE "waiting"
<1>1. /\ at \in {"deleted", "failed", "waiting"}
      /\ at = "deleted" <=> j.at = "deleted"
      /\ at = "waiting" => j.failures < BackoffLimit /\ j.at \notin {"deleted", "expired"}
  BY DEF Job
<1>2. PICK b \in BOOLEAN : b = IF c THEN TRUE ELSE j.conflict
  BY DEF Job
<1>3. j.failures + 1 \in 0..(BackoffLimit + 1)
  BY DEF Job
<1>4. AfterFailure(j, c) = [j EXCEPT !.failures = @ + 1, !.conflict = b, !.at = at]
  BY <1>2 DEF AfterFailure, Job
<1> HIDE DEF at
<1>5. QED  BY <1>1, <1>3, <1>4 DEF Job, JobStates

LEMMA NoWorkerType == NoWorker \in WorkerState /\ NoWorker.at = "idle" /\ NoWorker.todo = {}
BY ManagedWorkerAssumption DEF NoWorker, WorkerState, NoTree, NoFile, Hosts, Policy

\* A Pod ends.
LEMMA EndedType ==
  ASSUME TypeOK, JobsInv, NEW n \in Numbers, Active(n), NEW c \in BOOLEAN, Ended(n, c)
  PROVE  /\ jobs' \in Seq(Job) /\ Len(jobs') = Len(jobs) /\ Known' = Known
         /\ jobs' = [jobs EXCEPT ![n] = AfterFailure(jobs[n], c)]
         /\ pods' \in [Numbers -> WorkerState]
         /\ pods' = [pods EXCEPT ![n] = NoWorker]
<1>1. WorkTypeOK /\ n \in Known /\ jobs[n] \in Job /\ jobs[n].failures <= BackoffLimit
  BY JobRows DEF TypeOK, JobsInv, Occupied
<1>2. AfterFailure(jobs[n], c) \in Job
  BY <1>1, AfterFailureType
<1>3. jobs' = [jobs EXCEPT ![n] = AfterFailure(jobs[n], c)]
  BY DEF Ended
<1>4. jobs' \in Seq(Job) /\ Len(jobs') = Len(jobs) /\ Known' = Known
  BY <1>1, <1>2, <1>3, JobsAltered
<1>5. QED  BY <1>1, <1>3, <1>4, NoWorkerType DEF Ended, WorkTypeOK

\* The steps of a worker that go to another place.
LEMMA GoesType ==
  ASSUME WorkTypeOK, NEW n \in Numbers,
         NEW at \in {"create", "tag", "finish", "clone", "confirm"}, Goes(n, at)
  PROVE  pods' \in [Numbers -> WorkerState]
BY DEF Goes, WorkTypeOK, WorkerState

LEMMA NextResourceType ==
  ASSUME WorkTypeOK, NEW n \in Numbers, NextResource(n)
  PROVE  pods' \in [Numbers -> WorkerState]
<1> DEFINE rest == pods[n].todo \ {First(pods[n].todo)}
<1>1. pods[n] \in WorkerState
  BY PodRows
<1>2. rest \in SUBSET Resources
  BY <1>1 DEF WorkerState
<1> HIDE DEF rest
<1>3. PICK at \in {"prune", "look"} : pods' = [pods EXCEPT ![n].todo = rest, ![n].at = at]
  BY DEF NextResource, rest
<1>4. pods \in [Numbers -> WorkerState]
  BY DEF WorkTypeOK
<1>5. QED  BY <1>2, <1>3, <1>4 DEF WorkerState

LEMMA AgainType ==
  ASSUME TypeOK, JobsInv, NEW n \in Numbers, Active(n), Again(n)
  PROVE  /\ jobs' \in Seq(Job) /\ Len(jobs') = Len(jobs) /\ Known' = Known
         /\ pods' \in [Numbers -> WorkerState]
<1>1. CASE pods[n].tries + 1 < Retries
  <2>1. pods[n] \in WorkerState
    BY PodRows DEF TypeOK
  <2>2. pods[n].tries + 1 \in 0..Retries
    BY <1>1, <2>1, ManagedWorkerAssumption DEF WorkerState
  <2>3. pods' = [pods EXCEPT ![n].tries = @ + 1, ![n].at = "clone"] /\ jobs' = jobs
    BY <1>1 DEF Again
  <2>4. QED  BY <2>1, <2>2, <2>3 DEF TypeOK, WorkTypeOK, WorkerState, Known
<1>2. CASE ~(pods[n].tries + 1 < Retries)
  BY <1>2, EndedType DEF Again
<1>3. QED  BY <1>1, <1>2

LEMMA EventType ==
  ASSUME WorkTypeOK, NEW act, Event(act)
  PROVE  events' \in 0..MaxEvents
<1>1. plan.events \in 0..MaxEvents /\ events \in 0..MaxEvents /\ MaxEvents \in Nat
  BY ManagedWorkerAssumption DEF WorkTypeOK
<1>2. QED  BY <1>1 DEF Event

\* Resources that a worker has to ensure.
LEMMA TodoTypes ==
  ASSUME WorkTypeOK, NEW n \in Known
  PROVE  Todo(n) \in SUBSET Resources
BY JobRows DEF Todo, Provisioned, Resources, Input

LEMMA Worked ==
  ASSUME WorkTypeOK, CloudInv, NEW n \in Numbers, pods[n].at \in Owning
  PROVE  First(pods[n].todo) \in pods[n].todo /\ First(pods[n].todo) \in Resources
<1>1. pods[n].todo \in SUBSET Resources /\ pods[n].todo # {}
  BY PodRows DEF CloudInv, Provided, Active, Owning, WorkerState
<1>2. QED  BY <1>1, FirstIn

\* What the steps of the worker in the Pod of Job n have in common: they concern no
\* other Job, open none, and end none without its Pod.
JobsStep(n) ==
  /\ n \in Known
  /\ Known' = Known
  /\ \A m \in Known : jobs'[m].name = jobs[m].name
  /\ \A m \in Known \ {n} : jobs'[m] = jobs[m]
  /\ \A m \in Numbers \ {n} : pods'[m] = pods[m]
  /\ Open(n)' => Open(n)
  /\ jobs'[n].at = "deleted" <=> jobs[n].at = "deleted"
  /\ jobs'[n].at = "complete" => \/ jobs'[n] = jobs[n]
                                 \/ Holds(jobs'[n].commit, InputOf(n))
  /\ Active(n)' => jobs'[n].at \in {"running", "expired", "deleted"} /\ Occupied(n)
  /\ Active(n)' /\ jobs'[n].at = "deleted" => Active(n)
  /\ jobs'[n].at \in {"running", "expired"} => Active(n)'
  /\ Occupied(n)' => jobs'[n].failures <= BackoffLimit

\* A step of a worker that changes its own place only.
LEMMA PodStep ==
  ASSUME TypeOK, JobsInv, NEW n \in Numbers, Active(n), jobs' = jobs,
         pods' \in [Numbers -> WorkerState], \A m \in Numbers \ {n} : pods'[m] = pods[m],
         Active(n)'
  PROVE  JobsStep(n)
<1>1. n \in Known /\ jobs[n].at \in {"running", "expired", "deleted"}
  BY DEF JobsInv
<1>2. Known' = Known
  BY DEF Known
<1>3. QED  BY <1>1, <1>2 DEF JobsStep, JobsInv, Occupied, Active, Open

\* The end of a Pod, which may be the end of its Job.
LEMMA EndStep ==
  ASSUME TypeOK, JobsInv, NEW n \in Numbers, Active(n), NEW c \in BOOLEAN, Ended(n, c)
  PROVE  /\ jobs' \in Seq(Job) /\ Len(jobs') = Len(jobs)
         /\ pods' \in [Numbers -> WorkerState]
         /\ pods'[n] = NoWorker
         /\ JobsStep(n)
<1> DEFINE j == AfterFailure(jobs[n], c)
<1>1. /\ jobs' \in Seq(Job) /\ Len(jobs') = Len(jobs) /\ Known' = Known
      /\ jobs' = [jobs EXCEPT ![n] = j]
      /\ pods' \in [Numbers -> WorkerState]
      /\ pods' = [pods EXCEPT ![n] = NoWorker]
  BY EndedType
<1>2. /\ n \in Known /\ jobs[n] \in Job /\ jobs[n].failures <= BackoffLimit /\ DOMAIN jobs = Known
      /\ jobs[n].at \in {"running", "expired", "deleted"}
  BY JobRows DEF TypeOK, JobsInv, Occupied
<1>3. /\ j.name = jobs[n].name
      /\ j.failures = jobs[n].failures + 1
      /\ j.at \in {"deleted", "failed", "waiting"}
      /\ j.at = "deleted" <=> jobs[n].at = "deleted"
      /\ j.at = "waiting" => jobs[n].failures < BackoffLimit /\ jobs[n].at \notin {"deleted", "expired"}
  BY <1>2, AfterFailureType
<1>4. jobs'[n] = j /\ \A m \in Known \ {n} : jobs'[m] = jobs[m]
  BY <1>1, <1>2
<1>5. DOMAIN pods = Numbers
  BY DEF TypeOK, WorkTypeOK
<1>6. pods'[n] = NoWorker /\ \A m \in Numbers \ {n} : pods'[m] = pods[m]
  BY <1>1, <1>5
<1>7. ~Active(n)'
  BY <1>6, NoWorkerType DEF Active
<1>8. jobs[n].failures \in Nat
  BY <1>2, ManagedWorkerAssumption DEF Job
<1>9. Occupied(n)' => jobs'[n].failures <= BackoffLimit
  BY <1>3, <1>4, <1>7, <1>8, ManagedWorkerAssumption DEF Occupied, Open
<1> HIDE DEF j
<1>10. QED  BY <1>1, <1>2, <1>3, <1>4, <1>6, <1>7, <1>9 DEF JobsStep, Open

LEMMA AgainStep ==
  ASSUME TypeOK, JobsInv, NEW n \in Numbers, Active(n), Again(n)
  PROVE  /\ jobs' \in Seq(Job) /\ Len(jobs') = Len(jobs)
         /\ pods' \in [Numbers -> WorkerState]
         /\ JobsStep(n)
         /\ \/ pods'[n] = NoWorker
            \/ pods'[n].at = "clone" /\ pods'[n].todo = pods[n].todo
<1>1. CASE pods[n].tries + 1 < Retries
  <2>1. pods' = [pods EXCEPT ![n].tries = @ + 1, ![n].at = "clone"] /\ jobs' = jobs
    BY <1>1 DEF Again
  <2>2. pods \in [Numbers -> WorkerState]
    BY DEF TypeOK, WorkTypeOK
  <2>3. pods' \in [Numbers -> WorkerState] /\ jobs' \in Seq(Job) /\ Len(jobs') = Len(jobs)
    BY <2>1, AgainType DEF TypeOK, WorkTypeOK
  <2>4. \A m \in Numbers \ {n} : pods'[m] = pods[m]
    BY <2>1, <2>2
  <2>5. pods'[n].at = "clone" /\ pods'[n].todo = pods[n].todo
    BY <2>1, <2>2 DEF WorkerState
  <2>6. JobsStep(n)
    BY <2>1, <2>3, <2>4, <2>5, PodStep DEF Active
  <2>7. QED  BY <2>3, <2>5, <2>6
<1>2. CASE ~(pods[n].tries + 1 < Retries)
  BY <1>2, EndStep DEF Again
<1>3. QED  BY <1>1, <1>2

\* The branch only grows.
TreeGrows == head <= head' /\ \A c \in 1..head : tree'[c] = tree[c]

LEMMA TreeSame ==
  ASSUME WorkTypeOK, UNCHANGED git
  PROVE  TreeGrows /\ head' \in 1..MaxCommits /\ tree' \in [1..MaxCommits -> Tree]
BY DEF WorkTypeOK, git, TreeGrows

LEMMA TreeCommit ==
  ASSUME WorkTypeOK, head < MaxCommits, NEW t \in Tree, head' = head + 1,
         tree' = [tree EXCEPT ![head + 1] = t]
  PROVE  /\ TreeGrows /\ head' \in 1..MaxCommits /\ tree' \in [1..MaxCommits -> Tree]
         /\ tree'[head'] = t
<1>1. head + 1 \in 1..MaxCommits /\ head \in Nat
  BY ManagedWorkerAssumption DEF WorkTypeOK
<1>2. tree \in [1..MaxCommits -> Tree]
  BY DEF WorkTypeOK
<1>3. QED  BY <1>1, <1>2 DEF TreeGrows

\* Each step of the Pod of Job n keeps the types and, with the others, the plan and
\* the branch.
WorkerStep(n) == WorkTypeOK' /\ JobsStep(n) /\ TreeGrows /\ plan' = plan

LEMMA StartPodStep ==
  ASSUME Inv, NEW n \in Numbers, StartPod(n), plan' = plan
  PROVE  /\ WorkerStep(n)
         /\ pods'[n].todo = Todo(n)
         /\ pods'[n].at = IF Todo(n) = {} THEN "prune" ELSE "look"
<1>1. /\ TypeOK /\ WorkTypeOK /\ JobsInv /\ n \in Known
      /\ pods \in [Numbers -> WorkerState] /\ jobs[n] \in Job
      /\ DOMAIN jobs = Known
  BY JobRows DEF Inv, StartPod, TypeOK, WorkTypeOK
<1> DEFINE j == [jobs[n] EXCEPT !.at = "running"]
           w == [NoWorker EXCEPT !.at = IF Todo(n) = {} THEN "prune" ELSE "look", !.todo = Todo(n)]
<1>2. Todo(n) \in SUBSET Resources
  BY <1>1, TodoTypes
<1>3. /\ w \in WorkerState /\ w.todo = Todo(n)
      /\ w.at = IF Todo(n) = {} THEN "prune" ELSE "look"
  BY <1>2, NoWorkerType DEF WorkerState, NoWorker
<1>4. j \in Job /\ j.name = jobs[n].name /\ j.failures = jobs[n].failures /\ j.at = "running"
  BY <1>1 DEF Job, JobStates
<1>5. jobs' = [jobs EXCEPT ![n] = j] /\ pods' = [pods EXCEPT ![n] = w] /\ jobs[n].at = "waiting"
  BY DEF StartPod
<1> HIDE DEF j, w
<1>6. jobs' \in Seq(Job) /\ Len(jobs') = Len(jobs) /\ Known' = Known
  BY <1>1, <1>4, <1>5, JobsAltered
<1>7. pods' \in [Numbers -> WorkerState] /\ pods'[n] = w /\ \A m \in Numbers \ {n} : pods'[m] = pods[m]
  BY <1>1, <1>3, <1>5
<1>8. jobs'[n] = j /\ \A m \in Known \ {n} : jobs'[m] = jobs[m]
  BY <1>1, <1>5
<1>0. Active(n)'
  BY <1>3, <1>7 DEF Active
<1>9. JobsStep(n)
  BY <1>0, <1>1, <1>4, <1>5, <1>6, <1>7, <1>8 DEF JobsStep, JobsInv, Occupied, Open
<1>10. UNCHANGED <<cloud, git, events>>
  BY DEF StartPod
<1>11. WorkTypeOK'
  BY <1>1, <1>6, <1>7, <1>10 DEF WorkTypeOK, CloudTypeOK, git
<1>12. QED  BY <1>1, <1>3, <1>7, <1>9, <1>10, <1>11, TreeSame DEF WorkerStep

\* A step that ends a Pod or has it go elsewhere, and leaves the resources and the
\* branch as they are.
LEMMA QuietStep ==
  ASSUME Inv, NEW n \in Numbers, Active(n), plan' = plan, UNCHANGED <<cloud, git>>,
         events' \in 0..MaxEvents, jobs' \in Seq(Job), Len(jobs') = Len(jobs),
         pods' \in [Numbers -> WorkerState], JobsStep(n)
  PROVE  WorkerStep(n)
<1>1. WorkTypeOK
  BY DEF Inv, TypeOK
<1>2. WorkTypeOK'
  BY <1>1 DEF WorkTypeOK, CloudTypeOK, git
<1>3. QED  BY <1>1, <1>2, TreeSame DEF WorkerStep

LEMMA KillStep ==
  ASSUME Inv, NEW n \in Numbers, Kill(n) \/ Die(n), plan' = plan
  PROVE  WorkerStep(n) /\ pods'[n] = NoWorker
<1>1. TypeOK /\ WorkTypeOK /\ JobsInv
  BY DEF Inv, TypeOK
<1>2. /\ n \in Known /\ Ended(n, FALSE) /\ UNCHANGED <<cloud, git>>
      /\ events' \in 0..MaxEvents
  BY <1>1, EventType DEF Kill, Die, WorkTypeOK
<1>3. Active(n)
  BY <1>1, <1>2 DEF Kill, Die, Active, JobsInv
<1>4. QED  BY <1>1, <1>2, <1>3, EndStep, QuietStep

LEMMA GoesStep ==
  ASSUME TypeOK, JobsInv, NEW n \in Numbers, Active(n), jobs' = jobs,
         NEW at \in {"create", "tag", "finish", "clone", "confirm"}, Goes(n, at)
  PROVE  /\ pods' \in [Numbers -> WorkerState] /\ jobs' \in Seq(Job) /\ Len(jobs') = Len(jobs)
         /\ JobsStep(n)
         /\ pods'[n].at = at /\ pods'[n].todo = pods[n].todo
         /\ pods'[n].base = pods[n].base /\ pods'[n].want = pods[n].want
<1>1. pods \in [Numbers -> WorkerState] /\ WorkTypeOK
  BY DEF TypeOK, WorkTypeOK
<1>2. pods' \in [Numbers -> WorkerState]
  BY <1>1, GoesType
<1>3. \A m \in Numbers \ {n} : pods'[m] = pods[m]
  BY <1>1 DEF Goes
<1>4. /\ pods'[n].at = at /\ pods'[n].todo = pods[n].todo
      /\ pods'[n].base = pods[n].base /\ pods'[n].want = pods[n].want
  BY <1>1 DEF Goes, WorkerState
<1>5. QED  BY <1>1, <1>2, <1>3, <1>4, PodStep DEF Active, WorkTypeOK

LEMMA NextResourceStep ==
  ASSUME TypeOK, JobsInv, NEW n \in Numbers, Active(n), jobs' = jobs, NextResource(n)
  PROVE  /\ pods' \in [Numbers -> WorkerState] /\ jobs' \in Seq(Job) /\ Len(jobs') = Len(jobs)
         /\ JobsStep(n)
         /\ pods'[n].todo = pods[n].todo \ {First(pods[n].todo)}
         /\ pods'[n].at = IF pods'[n].todo = {} THEN "prune" ELSE "look"
<1>1. pods \in [Numbers -> WorkerState] /\ WorkTypeOK
  BY DEF TypeOK, WorkTypeOK
<1>2. pods' \in [Numbers -> WorkerState]
  BY <1>1, NextResourceType
<1>3. \A m \in Numbers \ {n} : pods'[m] = pods[m]
  BY <1>1 DEF NextResource
<1> DEFINE rest == pods[n].todo \ {First(pods[n].todo)}
<1>4. pods' = [pods EXCEPT ![n].todo = rest, ![n].at = IF rest = {} THEN "prune" ELSE "look"]
  BY DEF NextResource
<1> HIDE DEF rest
<1>5. pods'[n].todo = rest /\ pods'[n].at = IF rest = {} THEN "prune" ELSE "look"
  BY <1>1, <1>4 DEF WorkerState
<1>6. QED  BY <1>1, <1>2, <1>3, <1>5, PodStep DEF Active, WorkTypeOK, rest

\* Where the first resource of a worker stands.
LEMMA Working ==
  ASSUME Inv, NEW n \in Numbers, pods[n].at \in Owning
  PROVE  /\ TypeOK /\ WorkTypeOK /\ JobsInv /\ n \in Known /\ Active(n) /\ InputOf(n) \in Input
         /\ First(pods[n].todo) \in pods[n].todo /\ First(pods[n].todo) \in Resources
         /\ InputOf(n).uid \in 1..MaxUids
<1>1. TypeOK /\ WorkTypeOK /\ JobsInv /\ CloudInv /\ Active(n)
  BY DEF Inv, TypeOK, Active, Owning
<1>2. n \in Known
  BY <1>1 DEF JobsInv
<1>3. QED  BY <1>1, <1>2, JobRows, Worked DEF Input

LEMMA FoundAnswers ==
  ASSUME NEW r \in Resources, NEW row, NEW input
  PROVE  Found(r, row, input) \in {"refused", "repaired", "good"}
BY DEF Found, NetworkFound, SubnetFound, RouterFound, SecurityGroupFound, ExtraGroupFound,
       KeypairFound, VipFound, FloatingIpFound, VolumeFound, NodePortFound, ServerFound,
       Resources, Named

LEMMA LookStep ==
  ASSUME Inv, NEW n \in Numbers, Look(n), plan' = plan
  PROVE  /\ WorkerStep(n) /\ cloud' = cloud
         /\ LET r == First(pods[n].todo) IN
              \/ pods'[n] = NoWorker
              \/ pods'[n].at = "create" /\ pods'[n].todo = pods[n].todo
              \/ /\ pods'[n].at = "finish" /\ pods'[n].todo = pods[n].todo
                 /\ Has(r, InputOf(n).uid)
              \/ /\ pods'[n].at = IF pods'[n].todo = {} THEN "prune" ELSE "look"
                 /\ pods'[n].todo = pods[n].todo \ {r}
                 /\ Has(r, InputOf(n).uid)
<1> DEFINE r == First(pods[n].todo)
           found == Exact(r, InputOf(n).uid)
           x == CHOOSE y \in found : TRUE
           verdict == IF found = {} THEN IF MayCreate(r) THEN "absent" ELSE "refused"
                      ELSE IF Cardinality(found) > 1 THEN "refused"
                      ELSE Found(r, x, InputOf(n))
<1>1. /\ TypeOK /\ WorkTypeOK /\ JobsInv /\ Active(n) /\ pods[n].at = "look"
      /\ UNCHANGED <<cloud, git, events>> /\ events \in 0..MaxEvents
  BY Working DEF Owning, Look, At, WorkTypeOK
<1>2. verdict \in {"good", "repaired"} => Has(r, InputOf(n).uid)
  <2> SUFFICES ASSUME verdict \in {"good", "repaired"} PROVE Has(r, InputOf(n).uid)
    OBVIOUS
  <2>1. found # {} /\ Found(r, x, InputOf(n)) # "refused"
    OBVIOUS
  <2>2. x \in found /\ found \subseteq cloud[r]
    BY <2>1 DEF Exact
  <2>3. Owned(x, InputOf(n).uid)
    BY <2>1 DEF Found
  <2>4. QED  BY <2>2, <2>3 DEF Has
<1>3. CASE verdict = "refused"
  <2>1. Ended(n, FALSE)
    BY <1>3 DEF Look
  <2>2. QED  BY <1>1, <2>1, EndStep, QuietStep
<1>4. CASE verdict = "absent"
  <2>1. Goes(n, "create") /\ jobs' = jobs
    BY <1>4 DEF Look
  <2>2. QED  BY <1>1, <2>1, GoesStep, QuietStep
<1>5. CASE verdict = "repaired"
  <2>1. Goes(n, "finish") /\ jobs' = jobs
    BY <1>5 DEF Look
  <2>2. QED  BY <1>1, <1>2, <1>5, <2>1, GoesStep, QuietStep
<1>6. CASE verdict = "good"
  <2>1. NextResource(n) /\ jobs' = jobs
    BY <1>6 DEF Look
  <2>2. QED  BY <1>1, <1>2, <1>6, <2>1, NextResourceStep, QuietStep
<1>7. verdict \in {"refused", "absent", "repaired", "good"}
  <2>1. Found(r, x, InputOf(n)) \in {"refused", "repaired", "good"}
    BY Working, FoundAnswers DEF Owning, Look, At
  <2>2. QED  BY <2>1
<1>8. QED  BY <1>3, <1>4, <1>5, <1>6, <1>7

\* The resources r keep their makers and tags, whatever else happens to them.
Keeps(r) ==
  \A x \in cloud[r] : \E y \in cloud'[r] : y.owner = x.owner /\ y.maker = x.maker

WillHave(r, uid) == \E x \in cloud'[r] : Owned(x, uid)

\* A step of a worker that alters resources.
LEMMA CloudStep ==
  ASSUME Inv, NEW n \in Numbers, plan' = plan, UNCHANGED git, CloudTypeOK',
         events' \in 0..MaxEvents, jobs' \in Seq(Job), Len(jobs') = Len(jobs),
         pods' \in [Numbers -> WorkerState], JobsStep(n)
  PROVE  WorkerStep(n)
<1>1. WorkTypeOK
  BY DEF Inv, TypeOK
<1>2. WorkTypeOK'
  BY <1>1 DEF WorkTypeOK, git
<1>3. QED  BY <1>1, <1>2, TreeSame DEF WorkerStep

LEMMA CreateStep ==
  ASSUME Inv, NEW n \in Numbers, Create(n), plan' = plan
  PROVE  /\ WorkerStep(n) /\ \A q \in Resources : Keeps(q)
         /\ LET r == First(pods[n].todo) IN
              \/ /\ pods'[n].at = "tag" /\ pods'[n].todo = pods[n].todo
                 /\ \E x \in cloud'[r] : x.maker = n /\ x.owner = 0
              \/ /\ pods'[n].at = IF pods'[n].todo = {} THEN "prune" ELSE "look"
                 /\ pods'[n].todo = pods[n].todo \ {r}
                 /\ WillHave(r, InputOf(n).uid)
<1> DEFINE r == First(pods[n].todo)
           row == Created(r, n, InputOf(n))
           more == [cloud EXCEPT ![r] = @ \cup {row}]
           server == [more EXCEPT !["volume"] = {[x EXCEPT !.state = "whole"] : x \in @}]
<1>1. /\ TypeOK /\ WorkTypeOK /\ JobsInv /\ Active(n) /\ n \in Known /\ InputOf(n) \in Input
      /\ pods[n].at = "create" /\ r \in Resources
      /\ UNCHANGED <<git, jobs, events>> /\ events \in 0..MaxEvents
      /\ cloud \in [Resources -> SUBSET Row]
  BY Working DEF Owning, Create, At, WorkTypeOK, CloudTypeOK
<1>2. row \in Row /\ row.maker = n /\ row.owner = IF r \in Tagged THEN 0 ELSE InputOf(n).uid
  <2>1. InputOf(n).uid \in 0..MaxUids /\ 0 \in 0..MaxUids /\ n \in 1..MaxJobs
    BY <1>1, ManagedInputAssumption DEF Input, Numbers
  <2>2. InputOf(n).infra \in Infras \X Infras
    BY <1>1 DEF Input
  <2>3. QED  BY <2>1, <2>2 DEF Created, Row
<1> HIDE DEF row
<1>3. /\ more \in [Resources -> SUBSET Row] /\ row \in more[r]
      /\ \A q \in Resources : cloud[q] \subseteq more[q]
  BY <1>1, <1>2
<1> HIDE DEF more
<1>4. ASSUME r = "server"
      PROVE  CloudTypeOK' /\ (\A q \in Resources : Keeps(q)) /\ row \in cloud'[r]
  <2>1. cloud' = server
    BY <1>4 DEF Create, more, row
  <2>2. "volume" \in Resources
    BY DEF Resources, Named
  <2>3. /\ server \in [Resources -> SUBSET Row]
        /\ \A q \in Resources \ {"volume"} : server[q] = more[q]
        /\ server["volume"] = {[x EXCEPT !.state = "whole"] : x \in more["volume"]}
    BY <1>3, <2>2 DEF Row
  <2>4. \A x \in more["volume"] : /\ [x EXCEPT !.state = "whole"].owner = x.owner
                                  /\ [x EXCEPT !.state = "whole"].maker = x.maker
    BY <1>3, <2>2 DEF Row
  <2>5. \A x \in more["volume"] : \E y \in server["volume"] : y.owner = x.owner /\ y.maker = x.maker
    BY <2>3, <2>4
  <2>6. QED  BY <1>1, <1>3, <1>4, <2>1, <2>3, <2>5 DEF Keeps, CloudTypeOK
<1>5. ASSUME r # "server"
      PROVE  CloudTypeOK' /\ (\A q \in Resources : Keeps(q)) /\ row \in cloud'[r]
  <2>1. cloud' = more
    BY <1>5 DEF Create, more, row
  <2>2. QED  BY <1>1, <1>3, <2>1 DEF Keeps, CloudTypeOK
<1>6. CloudTypeOK' /\ (\A q \in Resources : Keeps(q)) /\ row \in cloud'[r]
  BY <1>4, <1>5
<1>7. CASE r \in Tagged
  <2>1. Goes(n, "tag")
    BY <1>7 DEF Create
  <2>2. QED  BY <1>1, <1>2, <1>6, <1>7, <2>1, GoesStep, CloudStep
<1>8. CASE r \notin Tagged
  <2>1. NextResource(n)
    BY <1>8 DEF Create
  <2>2. WillHave(r, InputOf(n).uid)
    BY <1>2, <1>6, <1>8 DEF WillHave, Owned
  <2>3. QED  BY <1>1, <1>6, <2>1, <2>2, NextResourceStep, CloudStep
<1>9. QED  BY <1>7, <1>8

\* Rows of a resource are altered by f, which keeps their makers.
LEMMA TaggedRows ==
  ASSUME CloudTypeOK, NEW r \in Resources, NEW rows \in SUBSET cloud[r], NEW uid \in 0..MaxUids,
         cloud' = TaggedWith(r, rows, uid)
  PROVE  /\ CloudTypeOK'
         /\ \A q \in Resources \ {r} : cloud'[q] = cloud[q]
         /\ \A x \in cloud[r] \ rows : x \in cloud'[r]
         /\ \A x \in rows : \E y \in cloud'[r] : y.owner = uid /\ y.maker = x.maker
<1> DEFINE new == {[x EXCEPT !.owner = uid] : x \in rows}
<1>1. cloud' = [cloud EXCEPT ![r] = (@ \ rows) \cup new]
  BY DEF TaggedWith, With
<1>2. rows \subseteq Row /\ cloud \in [Resources -> SUBSET Row]
  BY DEF CloudTypeOK
<1>3. new \subseteq Row /\ \A x \in rows : \E y \in new : y.owner = uid /\ y.maker = x.maker
  <2>1. \A x \in rows : /\ [x EXCEPT !.owner = uid] \in Row
                        /\ [x EXCEPT !.owner = uid].owner = uid
                        /\ [x EXCEPT !.owner = uid].maker = x.maker
    BY <1>2 DEF Row
  <2>2. QED  BY <2>1
<1> HIDE DEF new
<1>4. QED  BY <1>1, <1>2, <1>3 DEF CloudTypeOK

LEMMA WholeRows ==
  ASSUME CloudTypeOK, NEW r \in Resources, NEW rows \in SUBSET cloud[r], cloud' = Whole(r, rows)
  PROVE  CloudTypeOK' /\ \A q \in Resources : Keeps(q)
<1> DEFINE new == {[x EXCEPT !.state = "whole"] : x \in rows}
<1>1. cloud' = [cloud EXCEPT ![r] = (@ \ rows) \cup new]
  BY DEF Whole, With
<1>2. rows \subseteq Row /\ cloud \in [Resources -> SUBSET Row]
  BY DEF CloudTypeOK
<1>3. new \subseteq Row /\ \A x \in rows : \E y \in new : y.owner = x.owner /\ y.maker = x.maker
  <2>1. \A x \in rows : /\ [x EXCEPT !.state = "whole"] \in Row
                        /\ [x EXCEPT !.state = "whole"].owner = x.owner
                        /\ [x EXCEPT !.state = "whole"].maker = x.maker
    BY <1>2 DEF Row
  <2>2. QED  BY <2>1
<1> HIDE DEF new
<1>4. QED  BY <1>1, <1>2, <1>3 DEF CloudTypeOK, Keeps

\* set_tags gives what was just made its owner, and touches nobody else's.
LEMMA TagStep ==
  ASSUME Inv, NEW n \in Numbers, Tag(n), plan' = plan
  PROVE  /\ WorkerStep(n)
         /\ \A q \in Resources : \A x \in cloud[q] :
              x.owner # 0 \/ x.maker # n => x \in cloud'[q]
         /\ LET r == First(pods[n].todo) IN
              /\ \/ pods'[n].at = "finish" /\ pods'[n].todo = pods[n].todo
                 \/ /\ pods'[n].at = IF pods'[n].todo = {} THEN "prune" ELSE "look"
                    /\ pods'[n].todo = pods[n].todo \ {r}
              /\ r \notin plan.disturbed => WillHave(r, InputOf(n).uid)
<1> DEFINE r == First(pods[n].todo)
           mine == {x \in cloud[r] : x.maker = n /\ x.owner = 0}
<1>1. /\ TypeOK /\ WorkTypeOK /\ CloudTypeOK /\ JobsInv /\ CloudInv /\ Active(n) /\ n \in Known
      /\ pods[n].at = "tag" /\ r \in Resources /\ InputOf(n).uid \in 0..MaxUids
      /\ UNCHANGED <<git, jobs, events>> /\ events \in 0..MaxEvents
  BY Working DEF Owning, Tag, At, WorkTypeOK, Inv
<1>2. cloud' = TaggedWith(r, mine, InputOf(n).uid)
  BY DEF Tag
<1>3. /\ CloudTypeOK'
      /\ \A q \in Resources \ {r} : cloud'[q] = cloud[q]
      /\ \A x \in cloud[r] \ mine : x \in cloud'[r]
      /\ \A x \in mine : \E y \in cloud'[r] : y.owner = InputOf(n).uid /\ y.maker = x.maker
  <2>1. mine \in SUBSET cloud[r]
    OBVIOUS
  <2>2. QED  BY <1>1, <1>2, <2>1, TaggedRows
<1>4. \A q \in Resources : \A x \in cloud[q] : x.owner # 0 \/ x.maker # n => x \in cloud'[q]
  BY <1>3
<1>5. r \notin plan.disturbed => WillHave(r, InputOf(n).uid)
  <2>1. r \notin plan.disturbed => mine # {}
    BY <1>1 DEF CloudInv, Provided
  <2>2. QED  BY <1>3, <2>1 DEF WillHave, Owned
<1>6. CASE Unfinished(r)
  <2>1. Goes(n, "finish")
    BY <1>6 DEF Tag
  <2>2. QED  BY <1>1, <1>3, <1>4, <1>5, <2>1, GoesStep, CloudStep
<1>7. CASE ~Unfinished(r)
  <2>1. NextResource(n)
    BY <1>7 DEF Tag
  <2>2. QED  BY <1>1, <1>3, <1>4, <1>5, <2>1, NextResourceStep, CloudStep
<1>8. QED  BY <1>6, <1>7

LEMMA FinishStep ==
  ASSUME Inv, NEW n \in Numbers, Finish(n), plan' = plan
  PROVE  /\ WorkerStep(n) /\ \A q \in Resources : Keeps(q)
         /\ pods'[n].at = IF pods'[n].todo = {} THEN "prune" ELSE "look"
         /\ pods'[n].todo = pods[n].todo \ {First(pods[n].todo)}
<1> DEFINE r == First(pods[n].todo)
           rows == {x \in Exact(r, InputOf(n).uid) : Owned(x, InputOf(n).uid)}
<1>1. /\ TypeOK /\ WorkTypeOK /\ CloudTypeOK /\ JobsInv /\ Active(n)
      /\ pods[n].at = "finish" /\ r \in Resources
      /\ UNCHANGED <<git, jobs, events>> /\ events \in 0..MaxEvents
  BY Working DEF Owning, Finish, At, WorkTypeOK, Inv
<1>2. cloud' = Whole(r, rows) /\ rows \subseteq cloud[r] /\ NextResource(n)
  BY DEF Finish, Exact
<1>3. CloudTypeOK' /\ \A q \in Resources : Keeps(q)
  BY <1>1, <1>2, WholeRows
<1>4. QED  BY <1>1, <1>2, <1>3, NextResourceStep, CloudStep

LEMMA PruneStep ==
  ASSUME Inv, NEW n \in Numbers, Prune(n), plan' = plan
  PROVE  /\ WorkerStep(n)
         /\ pods[n].at = "prune" /\ pods'[n].at = "clone" /\ pods'[n].todo = pods[n].todo
         /\ \A q \in Resources : \A x \in cloud[q] :
              x \in cloud'[q] \/ (q \in Groups \ InputOf(n).extra /\ x.owner = InputOf(n).uid)
<1>1. /\ TypeOK /\ WorkTypeOK /\ CloudTypeOK /\ JobsInv /\ Active(n)
      /\ pods[n].at = "prune" /\ Goes(n, "clone") /\ UNCHANGED <<git, jobs>>
      /\ events \in 0..MaxEvents
  BY DEF Prune, At, WorkTypeOK, Inv, TypeOK, Active
<1>2. PICK kept \in SUBSET Undeclared(InputOf(n)) :
        /\ IF kept = {} THEN UNCHANGED events ELSE Event("worker")
        /\ cloud' = Pruned(InputOf(n), kept)
  BY DEF Prune
<1>3. events' \in 0..MaxEvents
  BY <1>1, <1>2, EventType
<1>4. CloudTypeOK'
  BY <1>1, <1>2 DEF CloudTypeOK, Pruned
<1>5. \A q \in Resources : \A x \in cloud[q] :
        x \in cloud'[q] \/ (q \in Groups \ InputOf(n).extra /\ x.owner = InputOf(n).uid)
  BY <1>1, <1>2 DEF CloudTypeOK, Pruned, Undeclared, Owned
<1>6. QED  BY <1>1, <1>3, <1>4, <1>5, GoesStep, CloudStep

\* A worker that publishes has an input, and files to compare with it.
LEMMA Publishing ==
  ASSUME Inv, NEW n \in Numbers, pods[n].at \notin Owning \cup {"idle"}
  PROVE  /\ TypeOK /\ WorkTypeOK /\ JobsInv /\ PublishInv /\ n \in Known /\ Active(n)
         /\ InputOf(n) \in Input /\ InputOf(n).uid \in 1..MaxUids
         /\ head \in 1..MaxCommits /\ tree[head] \in Tree
         /\ pods \in [Numbers -> WorkerState] /\ events \in 0..MaxEvents
<1>1. TypeOK /\ WorkTypeOK /\ JobsInv /\ PublishInv /\ Active(n)
  BY DEF Inv, TypeOK, Active, Owning
<1>2. n \in Known
  BY <1>1 DEF JobsInv
<1>3. QED  BY <1>1, <1>2, JobRows DEF Input, WorkTypeOK

\* The files that a worker wants are those of its input, and a policy that was
\* written by hand is one of them only if it says the same.
LEMMA DesiredFiles ==
  ASSUME NEW input \in Input, NEW t \in Tree, ReadableTargets(t, input)
  PROVE  /\ InventoryDocument(input) \in Hosts
         /\ PolicyContent(t.policy, input) \in Policy
         /\ PolicyContent(t.policy, input).document = PolicyDocument(input)
<1>1. input.uid \in 1..MaxUids /\ input.infra \in Infras \X Infras /\ input.inventory \in Policies \X Policies
  BY DEF Input
<1>2. InventoryDocument(input) \in Hosts /\ RenderedPolicy(input) \in Policy
  BY <1>1 DEF InventoryDocument, Hosts, RenderedPolicy, PolicyDocument, Policy
<1>3. CASE t.policy.owner = Manual
  <2>1. t.policy.document = PolicyDocument(input)
    BY <1>1, <1>3, ManagedInputAssumption DEF ReadableTargets, ValidPolicy, Manual, Absent
  <2>2. QED  BY <1>2, <1>3, <2>1 DEF PolicyContent, Tree
<1>4. CASE t.policy.owner # Manual
  BY <1>2, <1>4 DEF PolicyContent, RenderedPolicy
<1>5. QED  BY <1>2, <1>3, <1>4

LEMMA CloneStep ==
  ASSUME Inv, NEW n \in Numbers, Clone(n), plan' = plan
  PROVE  /\ WorkerStep(n) /\ cloud' = cloud /\ Informed(n)'
         /\ pods'[n] = NoWorker \/ (pods'[n].todo = pods[n].todo /\ pods'[n].at \notin Owning)
<1>1. /\ TypeOK /\ WorkTypeOK /\ JobsInv /\ n \in Known /\ Active(n) /\ pods[n].at = "clone"
      /\ InputOf(n) \in Input /\ head \in 1..MaxCommits /\ tree[head] \in Tree
      /\ pods \in [Numbers -> WorkerState] /\ events \in 0..MaxEvents
      /\ UNCHANGED <<cloud, git, events>>
  BY Publishing DEF Clone, At, Owning
<1>2. CASE ~ReadableTargets(tree[head], InputOf(n))
  <2>1. Ended(n, TRUE)
    BY <1>2 DEF Clone
  <2>2. pods'[n] = NoWorker /\ WorkerStep(n)
    BY <1>1, <2>1, EndStep, QuietStep
  <2>3. QED  BY <1>1, <2>2 DEF Informed, NoWorker
<1>3. CASE ReadableTargets(tree[head], InputOf(n))
  <2> DEFINE want == Desired(n)
             at == IF Published(n) = want THEN "head" ELSE "push"
  <2>1. pods' = [pods EXCEPT ![n].base = head, ![n].want = want, ![n].at = at] /\ jobs' = jobs
    BY <1>3 DEF Clone
  <2>2. /\ want.hosts = InventoryDocument(InputOf(n))
        /\ want.policy = PolicyContent(tree[head].policy, InputOf(n))
        /\ want.policy.document = PolicyDocument(InputOf(n))
        /\ want \in [hosts : Hosts, policy : Policy]
    BY <1>1, <1>3, DesiredFiles DEF Desired
  <2>3. at = "head" => Holds(head, InputOf(n))
    BY <1>1, <1>3, <2>2 DEF Holds, Published, ReadableTargets
  <2>4. at \in {"head", "push"} /\ head \in 0..MaxCommits
    BY <1>1
  <2> HIDE DEF want, at
  <2>5. /\ pods' \in [Numbers -> WorkerState] /\ \A m \in Numbers \ {n} : pods'[m] = pods[m]
        /\ pods'[n].base = head /\ pods'[n].want = want /\ pods'[n].at = at
        /\ pods'[n].todo = pods[n].todo
    BY <1>1, <2>1, <2>2, <2>4 DEF WorkerState
  <2>6. WorkerStep(n)
    BY <1>1, <2>1, <2>4, <2>5, PodStep, QuietStep DEF Active, WorkTypeOK
  <2>7. head' = head /\ tree' = tree /\ InputOf(n)' = InputOf(n)
    BY <1>1, <2>1 DEF git, InputOf
  <2>8. Informed(n)'
    BY <1>1, <2>2, <2>3, <2>4, <2>5, <2>7 DEF Informed, Holds
  <2>9. QED  BY <1>1, <2>4, <2>5, <2>6, <2>8 DEF Owning
<1>4. QED  BY <1>2, <1>3

\* A push adds the files that the worker wants to the commit it has cloned, when
\* that is still the head.
LEMMA PushStep ==
  ASSUME Inv, NEW n \in Numbers, Push(n), plan' = plan
  PROVE  /\ WorkerStep(n) /\ cloud' = cloud /\ Informed(n)'
         /\ pods'[n].todo = pods[n].todo /\ pods'[n].at = "confirm"
         /\ head' # head => /\ head = pods[n].base
                            /\ tree'[head'].policy = pods[n].want.policy
                            /\ pods[n].want.policy = PolicyContent(tree[head].policy, InputOf(n))
<1> DEFINE base == pods[n].base
           want == pods[n].want
           t == [source |-> tree[base].source, hosts |-> want.hosts, policy |-> want.policy,
                 by |-> InputOf(n)]
<1>1. /\ TypeOK /\ WorkTypeOK /\ JobsInv /\ n \in Known /\ Active(n) /\ pods[n].at = "push"
      /\ InputOf(n) \in Input /\ head \in 1..MaxCommits /\ Informed(n)
      /\ pods[n] \in WorkerState /\ events \in 0..MaxEvents
      /\ jobs' = jobs /\ cloud' = cloud /\ Goes(n, "confirm")
  BY Publishing DEF Push, At, Owning, PublishInv
<1>2. /\ base \in 1..head /\ want.hosts = InventoryDocument(InputOf(n))
      /\ want.policy.document = PolicyDocument(InputOf(n))
      /\ want.policy = PolicyContent(tree[base].policy, InputOf(n))
  BY <1>1 DEF Informed
<1>3. t \in Tree
  <2>1. base \in 1..MaxCommits
    BY <1>1, <1>2, ManagedWorkerAssumption
  <2>2. tree[base] \in Tree
    BY <1>1, <2>1 DEF WorkTypeOK
  <2>3. QED  BY <1>1, <2>2 DEF Tree, WorkerState
<1>4. /\ TreeGrows /\ head' \in 1..MaxCommits /\ tree' \in [1..MaxCommits -> Tree]
      /\ events' \in 0..MaxEvents
      /\ head' # head => head = base /\ tree'[head'].policy = want.policy
  <2>1. CASE /\ Pushed(n) /\ head < MaxCommits
             /\ head' = head + 1
             /\ tree' = [tree EXCEPT ![head + 1] = t]
             /\ UNCHANGED events
    <3>1. TreeGrows /\ head' \in 1..MaxCommits /\ tree' \in [1..MaxCommits -> Tree] /\ tree'[head'] = t
      BY <1>1, <1>3, <2>1, TreeCommit
    <3>2. QED  BY <1>1, <2>1, <3>1 DEF Pushed
  <2>2. CASE UNCHANGED <<git, events>>
    BY <1>1, <2>2, TreeSame DEF git
  <2>3. CASE Event("git") /\ UNCHANGED git
    BY <1>1, <2>3, TreeSame, EventType DEF git
  <2>4. QED  BY <2>1, <2>2, <2>3 DEF Push
<1>5. /\ pods' \in [Numbers -> WorkerState] /\ jobs' \in Seq(Job) /\ Len(jobs') = Len(jobs)
      /\ JobsStep(n)
      /\ pods'[n].at = "confirm" /\ pods'[n].todo = pods[n].todo
      /\ pods'[n].base = base /\ pods'[n].want = want
  BY <1>1, GoesStep
<1>6. WorkTypeOK'
  BY <1>1, <1>4, <1>5 DEF WorkTypeOK, CloudTypeOK
<1>7. Informed(n)'
  <2>1. base \in 1..head' /\ InputOf(n)' = InputOf(n)
    BY <1>1, <1>2, <1>4 DEF TreeGrows, InputOf
  <2>2. QED  BY <1>2, <1>5, <2>1 DEF Informed
<1>8. QED  BY <1>1, <1>2, <1>4, <1>5, <1>6, <1>7 DEF WorkerStep

LEMMA AgainQuiet ==
  ASSUME Inv, NEW n \in Numbers, Active(n), pods[n].at \notin Owning, Again(n),
         plan' = plan, UNCHANGED <<cloud, git>>, events' \in 0..MaxEvents
  PROVE  /\ WorkerStep(n) /\ Informed(n)'
         /\ pods'[n] = NoWorker \/ (pods'[n].todo = pods[n].todo /\ pods'[n].at \notin Owning)
<1>1. TypeOK /\ JobsInv
  BY DEF Inv
<1>2. /\ jobs' \in Seq(Job) /\ Len(jobs') = Len(jobs)
      /\ pods' \in [Numbers -> WorkerState]
      /\ JobsStep(n)
      /\ \/ pods'[n] = NoWorker
         \/ pods'[n].at = "clone" /\ pods'[n].todo = pods[n].todo
  BY <1>1, AgainStep
<1>3. Informed(n)'
  BY <1>2 DEF Informed, NoWorker
<1>4. QED  BY <1>2, <1>3, QuietStep DEF Owning

LEMMA ConfirmStep ==
  ASSUME Inv, NEW n \in Numbers, Confirm(n), plan' = plan
  PROVE  /\ WorkerStep(n) /\ cloud' = cloud /\ Informed(n)'
         /\ pods'[n] = NoWorker \/ (pods'[n].todo = pods[n].todo /\ pods'[n].at \notin Owning)
<1>1. /\ TypeOK /\ WorkTypeOK /\ JobsInv /\ n \in Known /\ Active(n) /\ pods[n].at = "confirm"
      /\ InputOf(n) \in Input /\ head \in 1..MaxCommits /\ Informed(n)
      /\ pods \in [Numbers -> WorkerState] /\ events \in 0..MaxEvents
      /\ UNCHANGED <<cloud, git, events>> /\ pods[n].at \notin Owning
  BY Publishing DEF Confirm, At, Owning, PublishInv
<1>2. CASE ~ReadableTargets(tree[head], InputOf(n))
  <2>1. Ended(n, TRUE)
    BY <1>2 DEF Confirm
  <2>2. pods'[n] = NoWorker /\ WorkerStep(n)
    BY <1>1, <2>1, EndStep, QuietStep
  <2>3. QED  BY <1>1, <2>2 DEF Informed, NoWorker
<1>3. CASE ReadableTargets(tree[head], InputOf(n)) /\ Confirmed(n)
  <2>1. pods' = [pods EXCEPT ![n].base = head, ![n].at = "confirmed"] /\ jobs' = jobs
    BY <1>3 DEF Confirm
  <2>2. head \in 0..MaxCommits
    BY <1>1
  <2>3. /\ pods' \in [Numbers -> WorkerState] /\ \A m \in Numbers \ {n} : pods'[m] = pods[m]
        /\ pods'[n].base = head /\ pods'[n].want = pods[n].want /\ pods'[n].at = "confirmed"
        /\ pods'[n].todo = pods[n].todo
    BY <1>1, <2>1, <2>2 DEF WorkerState
  <2>4. WorkerStep(n)
    BY <1>1, <2>1, <2>3, PodStep, QuietStep DEF Active, WorkTypeOK
  <2>5. head' = head /\ tree' = tree /\ InputOf(n)' = InputOf(n)
    BY <1>1, <2>1 DEF git, InputOf
  <2>6. Holds(head, InputOf(n))
    BY <1>1, <1>3 DEF Holds, Informed, Confirmed, Published, ReadableTargets
  <2>7. Informed(n)'
    BY <1>1, <2>3, <2>5, <2>6 DEF Informed, Holds
  <2>8. QED  BY <1>1, <2>3, <2>4, <2>7 DEF Owning
<1>4. CASE ReadableTargets(tree[head], InputOf(n)) /\ ~Confirmed(n)
  <2>1. Again(n)
    BY <1>4 DEF Confirm
  <2>2. QED  BY <1>1, <2>1, AgainQuiet
<1>5. QED  BY <1>2, <1>3, <1>4

\* A Job completes only for a commit that holds its files and is the head.
LEMMA ConcludeStep ==
  ASSUME Inv, NEW n \in Numbers, Conclude(n), plan' = plan
  PROVE  /\ WorkerStep(n) /\ cloud' = cloud /\ Informed(n)'
         /\ pods'[n] = NoWorker \/ (pods'[n].todo = pods[n].todo /\ pods'[n].at \notin Owning)
<1>1. /\ TypeOK /\ WorkTypeOK /\ JobsInv /\ n \in Known /\ Active(n)
      /\ pods[n].at \in {"head", "confirmed"}
      /\ InputOf(n) \in Input /\ head \in 1..MaxCommits /\ Informed(n)
      /\ pods \in [Numbers -> WorkerState] /\ events \in 0..MaxEvents
      /\ UNCHANGED <<cloud, git, events>> /\ pods[n].at \notin Owning
  BY Publishing DEF Conclude, At, Owning, PublishInv
<1>2. CASE head = pods[n].base
  <2> DEFINE at == CASE jobs[n].at = "running" -> "complete"
                     [] jobs[n].at = "expired" -> "failed"
                     [] OTHER -> jobs[n].at
             j == [jobs[n] EXCEPT !.commit = head, !.at = at]
  <2>1. /\ jobs[n] \in Job /\ DOMAIN jobs = Known /\ jobs[n].failures <= BackoffLimit
        /\ jobs[n].at \in {"running", "expired", "deleted"}
    BY <1>1, JobRows DEF JobsInv, Occupied
  <2>2. /\ at \in {"complete", "failed", "deleted"}
        /\ at = "deleted" <=> jobs[n].at = "deleted"
    BY <2>1
  <2>3. pods' = [pods EXCEPT ![n] = NoWorker] /\ jobs' = [jobs EXCEPT ![n] = j]
    BY <1>2 DEF Conclude
  <2>4. head \in 0..MaxCommits
    BY <1>1
  <2> HIDE DEF at
  <2>5. /\ j \in Job /\ j.name = jobs[n].name /\ j.failures = jobs[n].failures
        /\ j.at = at /\ j.commit = head
    BY <2>1, <2>2, <2>4 DEF Job, JobStates
  <2> HIDE DEF j
  <2>6. jobs' \in Seq(Job) /\ Len(jobs') = Len(jobs) /\ Known' = Known
    BY <1>1, <2>3, <2>5, JobsAltered
  <2>7. /\ pods' \in [Numbers -> WorkerState] /\ pods'[n] = NoWorker
        /\ \A m \in Numbers \ {n} : pods'[m] = pods[m]
        /\ jobs'[n] = j /\ \A m \in Known \ {n} : jobs'[m] = jobs[m]
    BY <1>1, <2>1, <2>3, NoWorkerType
  <2>8. Holds(j.commit, InputOf(n))
    BY <1>1, <1>2, <2>5 DEF Informed
  <2>9. ~Active(n)' /\ ~Open(n)'
    BY <2>2, <2>5, <2>7, NoWorkerType DEF Active, Open
  <2>10. JobsStep(n)
    BY <1>1, <2>1, <2>2, <2>5, <2>6, <2>7, <2>8, <2>9 DEF JobsStep, Occupied
  <2>11. QED  BY <1>1, <2>6, <2>7, <2>10, QuietStep DEF Informed, NoWorker
<1>3. CASE head # pods[n].base
  <2>1. Again(n)
    BY <1>3 DEF Conclude
  <2>2. QED  BY <1>1, <2>1, AgainQuiet
<1>4. QED  BY <1>2, <1>3

LEMMA GitFailsStep ==
  ASSUME Inv, NEW n \in Numbers, GitFails(n), plan' = plan
  PROVE  /\ WorkerStep(n) /\ cloud' = cloud /\ Informed(n)'
         /\ pods'[n] = NoWorker \/ (pods'[n].todo = pods[n].todo /\ pods'[n].at \notin Owning)
<1>1. /\ n \in Known /\ pods[n].at \in {"clone", "head", "confirm", "confirmed"}
      /\ Again(n) /\ UNCHANGED <<cloud, git>> /\ Event("git")
  BY DEF GitFails
<1>2. WorkTypeOK
  BY DEF Inv, TypeOK
<1>3. events' \in 0..MaxEvents
  BY <1>1, <1>2, EventType
<1>4. Active(n) /\ pods[n].at \notin Owning /\ cloud' = cloud
  BY <1>1 DEF Active, Owning
<1>5. QED  BY <1>1, <1>3, <1>4, AgainQuiet

LEMMA ExpireStep ==
  ASSUME Inv, NEW n \in Numbers, Expire(n), plan' = plan
  PROVE  WorkerStep(n) /\ cloud' = cloud /\ pods' = pods /\ UNCHANGED git
<1>1. /\ TypeOK /\ WorkTypeOK /\ JobsInv /\ n \in Known /\ jobs[n].at \in {"waiting", "running"}
      /\ UNCHANGED <<cloud, git, pods>> /\ Event("deadline")
  BY DEF Inv, TypeOK, Expire
<1> DEFINE at == IF jobs[n].at = "waiting" THEN "failed" ELSE "expired"
           j == [jobs[n] EXCEPT !.at = at]
<1>2. jobs[n] \in Job /\ DOMAIN jobs = Known
  BY <1>1, JobRows
<1>3. at \in {"failed", "expired"} /\ (at = "expired" => jobs[n].at = "running")
  BY <1>1
<1>4. jobs' = [jobs EXCEPT ![n] = j]
  BY DEF Expire
<1> HIDE DEF at
<1>5. j \in Job /\ j.name = jobs[n].name /\ j.failures = jobs[n].failures /\ j.at = at
  BY <1>2, <1>3 DEF Job, JobStates
<1> HIDE DEF j
<1>6. jobs' \in Seq(Job) /\ Len(jobs') = Len(jobs) /\ Known' = Known
  BY <1>1, <1>4, <1>5, JobsAltered
<1>7. jobs'[n] = j /\ \A m \in Known \ {n} : jobs'[m] = jobs[m]
  BY <1>1, <1>2, <1>4
<1>8. events' \in 0..MaxEvents
  BY <1>1, EventType
<1>9. Active(n)' = Active(n) /\ pods' = pods /\ pods \in [Numbers -> WorkerState]
  BY <1>1 DEF Active, WorkTypeOK
<1>10. JobsStep(n)
  <2>1. /\ Active(n) <=> jobs[n].at = "running"
        /\ jobs[n].failures <= BackoffLimit /\ Open(n)
    BY <1>1 DEF JobsInv, Occupied, Open
  <2>2. /\ \A m \in Known : jobs'[m].name = jobs[m].name
        /\ jobs'[n].failures <= BackoffLimit /\ jobs'[n].at = at
    BY <1>5, <1>7, <2>1
  <2>3. at = "expired" <=> jobs[n].at = "running"
    BY <1>1 DEF at
  <2>4. QED  BY <1>1, <1>3, <1>6, <1>7, <1>9, <2>1, <2>2, <2>3 DEF JobsStep, Occupied
<1>11. WorkTypeOK'
  BY <1>1, <1>6, <1>8, <1>9 DEF WorkTypeOK, CloudTypeOK, git
<1>12. QED  BY <1>1, <1>9, <1>10, <1>11, TreeSame DEF WorkerStep

-----------------------------------------------------------------------------
(* What a step of a worker leaves true of the Jobs, the calls and the      *)
(* receipts, whichever step it is.                                         *)

\* Holds, of the branch as it will be.
WillHold(commit, input) ==
  /\ commit \in 1..head'
  /\ tree'[commit].hosts = InventoryDocument(input)
  /\ tree'[commit].policy.document = PolicyDocument(input)
  /\ ValidSource(tree'[commit].source, input)

LEMMA HoldsStays ==
  ASSUME WorkTypeOK, WorkTypeOK', TreeGrows, NEW c, NEW i, Holds(c, i)
  PROVE  WillHold(c, i)
BY DEF WorkTypeOK, TreeGrows, Holds, WillHold

LEMMA WorkerKeepsJobs ==
  ASSUME Inv, NEW n \in Numbers, WorkerStep(n), mc' = mc
  PROVE  JobsInv' /\ OneOccupant'
<1>1. /\ WorkTypeOK /\ WorkTypeOK' /\ JobsInv /\ OneOccupant /\ JobsStep(n) /\ n \in Known
      /\ Known' = Known /\ Known \subseteq Numbers
  BY JobRows DEF Inv, TypeOK, WorkerStep, JobsStep
<1>2. \A m \in Known : InputOf(m)' = InputOf(m) /\ jobs'[m].name = jobs[m].name
  BY <1>1 DEF JobsStep, InputOf
<1>3. \A m \in Numbers \ {n} : pods'[m] = pods[m] /\ (m \in Known => jobs'[m] = jobs[m])
  BY <1>1 DEF JobsStep
<1>4. Occupied(n)' => Occupied(n)
  BY <1>1 DEF JobsStep, Occupied
<1>5. \A m \in Known : Occupied(m)' => Occupied(m)
  BY <1>1, <1>3, <1>4 DEF Occupied, Open, Active
<1>6. OneOccupant'
  BY <1>1, <1>2, <1>5 DEF OneOccupant
<1>7. JobsInv'
  <2>1. ASSUME NEW m \in Numbers, Active(m)'
        PROVE  m \in Known' /\ jobs'[m].at \in {"running", "expired", "deleted"}
    <3>1. CASE m = n
      BY <1>1, <2>1, <3>1 DEF JobsStep
    <3>2. CASE m # n
      BY <1>1, <1>3, <2>1, <3>2 DEF JobsInv, Active
    <3>3. QED  BY <3>1, <3>2
  <2>2. ASSUME NEW m \in Known'
        PROVE  /\ InputOf(m)'.uid <= mc'.uid
               /\ Occupied(m)' => jobs'[m].failures <= BackoffLimit
               /\ jobs'[m].at = "deleted" /\ Active(m)' => Orphaned(jobs[m].name)'
               /\ jobs'[m].at \in {"running", "expired"} => Active(m)'
    <3>1. m \in Known /\ m \in Numbers /\ InputOf(m)'.uid <= mc'.uid
      BY <1>1, <1>2, <2>2 DEF JobsInv
    <3>2. Orphaned(jobs[m].name)' <=> Orphaned(jobs[m].name)
      BY <1>2, <3>1 DEF Orphaned
    <3>3. CASE m = n
      BY <1>1, <3>1, <3>2, <3>3 DEF JobsStep, JobsInv
    <3>4. CASE m # n
      BY <1>1, <1>3, <3>1, <3>2, <3>4 DEF JobsInv, Occupied, Open, Active
    <3>5. QED  BY <3>1, <3>3, <3>4
  <2>3. QED  BY <2>1, <2>2 DEF JobsInv
<1>8. QED  BY <1>6, <1>7

LEMMA WorkerKeepsCalls ==
  ASSUME Inv, NEW n \in Numbers, WorkerStep(n), KeepWorld, task' = task, inputs' = inputs
  PROVE  TypeOK' /\ ObjectInv' /\ TaskInv' /\ InputsKept' /\ ReceiptInv'
<1>1. /\ TypeOK /\ WorkTypeOK /\ WorkTypeOK' /\ JobsInv /\ JobsStep(n) /\ n \in Known
      /\ Known' = Known /\ TreeGrows
      /\ UNCHANGED <<mc, profile, project, present, bucket>>
  BY DEF Inv, TypeOK, WorkerStep, JobsStep, KeepWorld, world
<1>2. \A m \in Known : InputOf(m)' = InputOf(m) /\ jobs'[m].name = jobs[m].name
  BY <1>1 DEF JobsStep, InputOf
<1>3. \A m \in Known : Open(m)' => Open(m)
  BY <1>1 DEF JobsStep, Open
<1>4. TypeOK'
  BY <1>1 DEF TypeOK
<1>5. ObjectInv'
  BY <1>1 DEF Inv, ObjectInv
<1>6. TaskInv'
  BY <1>1, <1>2, <1>3 DEF Inv, TaskInv
<1>7. InputsKept'
  BY <1>1, <1>2, <1>3 DEF Inv, InputsKept
<1>8. ReceiptInv'
  <2>1. ReceiptInv
    BY DEF Inv
  <2>2. ASSUME NEW m \in Known, jobs'[m].at = "complete"
        PROVE  WillHold(jobs'[m].commit, InputOf(m))
    <3>1. Holds(jobs'[m].commit, InputOf(m))
      BY <1>1, <2>1, <2>2 DEF JobsStep, ReceiptInv
    <3>2. QED  BY <1>1, <3>1, HoldsStays
  <2>3. \A m \in Known' : jobs'[m].at = "complete" => Holds(jobs[m].commit, InputOf(m))'
    BY <1>1, <1>2, <2>2 DEF WillHold, Holds
  <2>4. ASSUME NEW t \in Threads, task'[t].at = "patch"
        PROVE  /\ "reason" \in DOMAIN task'[t].put
               /\ task'[t].put.reason = "ProvisioningSucceeded" =>
                    /\ {"commit", "hash", "pub"} \subseteq DOMAIN task'[t].put
                    /\ Holds(task[t].put.commit, task[t].put.pub)'
                    /\ task'[t].put.hash = InputHash(task'[t].put.pub)
    <3>1. "reason" \in DOMAIN task[t].put
      BY <2>1, <2>4 DEF ReceiptInv
    <3>2. ASSUME task[t].put.reason = "ProvisioningSucceeded"
          PROVE  /\ {"commit", "hash", "pub"} \subseteq DOMAIN task[t].put
                 /\ WillHold(task[t].put.commit, task[t].put.pub)
                 /\ task[t].put.hash = InputHash(task[t].put.pub)
      BY <1>1, <2>1, <2>4, <3>2, HoldsStays DEF ReceiptInv
    <3>3. QED  BY <3>1, <3>2 DEF WillHold, Holds
  <2>5. ReceiptTrue'
    <3>1. ASSUME mc.status.reason = "ProvisioningSucceeded"
          PROVE  WillHold(mc.status.commit, mc.status.pub) /\ mc.status.hash = InputHash(mc.status.pub)
      <4>1. Holds(mc.status.commit, mc.status.pub) /\ mc.status.hash = InputHash(mc.status.pub)
        BY <2>1, <3>1 DEF ReceiptInv, ReceiptTrue, Holds
      <4>2. QED  BY <1>1, <4>1, HoldsStays
    <3>2. QED  BY <1>1, <3>1 DEF ReceiptTrue, WillHold
  <2>6. QED  BY <2>3, <2>4, <2>5 DEF ReceiptInv
<1>9. QED  BY <1>4, <1>5, <1>6, <1>7, <1>8

\* The workers of the other Jobs know no less than before.
LEMMA OthersInformed ==
  ASSUME Inv, WorkTypeOK', TreeGrows, NEW m \in Numbers, pods'[m] = pods[m],
         Active(m) => m \in Known /\ jobs'[m].name = jobs[m].name
  PROVE  Informed(m)'
<1>1. WorkTypeOK /\ Informed(m)
  BY DEF Inv, TypeOK, PublishInv
<1>2. CASE ~Active(m)
  BY <1>2 DEF Active, Informed
<1>3. CASE Active(m)
  <2>1. InputOf(m)' = InputOf(m)
    BY <1>3 DEF InputOf
  <2>2. ASSUME pods[m].at \in {"head", "push", "confirm", "confirmed"}
        PROVE  /\ pods[m].base \in 1..head'
               /\ tree'[pods[m].base] = tree[pods[m].base]
    BY <1>1, <2>2 DEF TreeGrows, Informed, WorkTypeOK
  <2>3. QED  BY <1>1, <2>1, <2>2 DEF Informed, Holds
<1>4. QED  BY <1>2, <1>3

LEMMA WorkerKeepsPublication ==
  ASSUME Inv, NEW n \in Numbers, WorkerStep(n), Informed(n)'
  PROVE  PublishInv'
<1>1. /\ JobsInv /\ WorkTypeOK' /\ TreeGrows /\ JobsStep(n)
  BY DEF Inv, WorkerStep
<1>2. ASSUME NEW m \in Numbers, m # n
      PROVE  Informed(m)'
  <2>1. pods'[m] = pods[m] /\ (Active(m) => m \in Known /\ jobs'[m].name = jobs[m].name)
    BY <1>1, <1>2 DEF JobsStep, JobsInv
  <2>2. QED  BY <1>1, <2>1, OthersInformed
<1>3. QED  BY <1>2 DEF PublishInv

-----------------------------------------------------------------------------
(* What the workers have taken for provisioned.                            *)

\* The rows that the worker of Job m counts on.
Counted(m, q, x) ==
  \/ x.owner = InputOf(m).uid /\ q \in Named \cup InputOf(m).extra
  \/ x.owner = 0 /\ x.maker = m

LEMMA OthersProvided ==
  ASSUME Inv, NEW m \in Numbers, Active(m), pods'[m] = pods[m], plan' = plan,
         jobs'[m].name = jobs[m].name,
         \A q \in Resources \ plan.disturbed : \A x \in cloud[q] :
           Counted(m, q, x) => \E y \in cloud'[q] : y.owner = x.owner /\ y.maker = x.maker
  PROVE  Provided(m)'
<1>1. /\ Provided(m) /\ m \in Known /\ WorkTypeOK
      /\ pods[m] \in WorkerState
  BY PodRows DEF Inv, TypeOK, CloudInv, JobsInv
<1>2. InputOf(m)' = InputOf(m) /\ Todo(m)' = Todo(m)
  BY DEF InputOf, Todo
<1>3. Todo(m) \subseteq (Named \cup InputOf(m).extra) \cap Resources
  BY <1>1, TodoTypes DEF Todo, Provisioned
<1>4. ASSUME NEW r \in Todo(m) \ plan.disturbed, Has(r, InputOf(m).uid)
      PROVE  WillHave(r, InputOf(m).uid)
  BY <1>3, <1>4 DEF Has, WillHave, Owned, Counted
<1>5. ASSUME NEW r \in Todo(m) \ plan.disturbed, NEW x \in cloud[r], x.maker = m, x.owner = 0
      PROVE  \E y \in cloud'[r] : y.maker = m /\ y.owner = 0
  BY <1>3, <1>5 DEF Counted
<1>6. pods[m].todo # {} => First(pods[m].todo) \in Todo(m)
  BY <1>1, FirstIn DEF Provided, WorkerState
<1>7. \A r \in (Todo(m) \ pods[m].todo) \ plan.disturbed : WillHave(r, InputOf(m).uid)
  BY <1>1, <1>4 DEF Provided
<1>8. pods[m].at = "tag" =>
        \/ First(pods[m].todo) \in plan.disturbed
        \/ \E y \in cloud'[First(pods[m].todo)] : y.maker = m /\ y.owner = 0
  BY <1>1, <1>5, <1>6 DEF Provided, Owning
<1>9. pods[m].at = "finish" =>
        \/ First(pods[m].todo) \in plan.disturbed
        \/ WillHave(First(pods[m].todo), InputOf(m).uid)
  BY <1>1, <1>4, <1>6 DEF Provided, Owning
<1>10. QED  BY <1>1, <1>2, <1>7, <1>8, <1>9 DEF Provided, Has, WillHave

LEMMA WorkerKeepsCloud ==
  ASSUME Inv, NEW n \in Numbers, WorkerStep(n), Active(n)' => Provided(n)',
         \A m \in Numbers \ {n} : Active(m) =>
           \A q \in Resources \ plan.disturbed : \A x \in cloud[q] :
             Counted(m, q, x) => \E y \in cloud'[q] : y.owner = x.owner /\ y.maker = x.maker
  PROVE  CloudInv'
<1>1. JobsInv /\ JobsStep(n) /\ plan' = plan
  BY DEF Inv, WorkerStep
<1>2. ASSUME NEW m \in Numbers, m # n, Active(m)'
      PROVE  Provided(m)'
  <2>1. pods'[m] = pods[m] /\ Active(m) /\ m \in Known /\ jobs'[m].name = jobs[m].name
    BY <1>1, <1>2 DEF JobsStep, JobsInv, Active
  <2>2. QED  BY <1>1, <1>2, <2>1, OthersProvided
<1>3. QED  BY <1>2 DEF CloudInv

\* The worker of Job n itself: it goes on to another place, or leaves its first
\* resource behind, which is then there.
LEMMA SelfProvided ==
  ASSUME Inv, NEW n \in Numbers, WorkerStep(n), pods[n].at \in Owning,
         NEW r, r = First(pods[n].todo),
         \A q \in Resources \ plan.disturbed : \A x \in cloud[q] :
           Counted(n, q, x) /\ x.owner # 0 =>
             \E y \in cloud'[q] : y.owner = x.owner /\ y.maker = x.maker,
         \/ pods'[n].at = "create" /\ pods'[n].todo = pods[n].todo
         \/ /\ pods'[n].at = "tag" /\ pods'[n].todo = pods[n].todo
            /\ \E x \in cloud'[r] : x.maker = n /\ x.owner = 0
         \/ /\ pods'[n].at = "finish" /\ pods'[n].todo = pods[n].todo
            /\ r \notin plan.disturbed => WillHave(r, InputOf(n).uid)
         \/ /\ pods'[n].at = IF pods'[n].todo = {} THEN "prune" ELSE "look"
            /\ pods'[n].todo = pods[n].todo \ {r}
            /\ r \notin plan.disturbed => WillHave(r, InputOf(n).uid)
  PROVE  Provided(n)'
<1>1. /\ Provided(n) /\ n \in Known /\ WorkTypeOK /\ r \in pods[n].todo
      /\ InputOf(n).uid \in 1..MaxUids
      /\ JobsStep(n) /\ plan' = plan
  BY Working DEF Inv, CloudInv, WorkerStep
<1>2. InputOf(n)' = InputOf(n) /\ Todo(n)' = Todo(n)
  BY <1>1 DEF JobsStep, InputOf, Todo
<1>3. Todo(n) \subseteq (Named \cup InputOf(n).extra) \cap Resources
  BY <1>1, TodoTypes DEF Todo, Provisioned
<1>4. ASSUME NEW q \in (Todo(n) \ pods[n].todo) \ plan.disturbed
      PROVE  WillHave(q, InputOf(n).uid)
  <2>1. Has(q, InputOf(n).uid)
    BY <1>1, <1>4 DEF Provided
  <2>2. InputOf(n).uid # 0
    BY <1>1
  <2>3. QED  BY <1>3, <1>4, <2>1, <2>2 DEF Has, WillHave, Owned, Counted
<1>5. \A q \in (Todo(n) \ pods'[n].todo) \ plan.disturbed : WillHave(q, InputOf(n).uid)
  BY <1>4
<1>6. pods'[n].todo \subseteq Todo(n) /\ (pods'[n].at \in Owning <=> pods'[n].todo # {})
  BY <1>1 DEF Provided, Owning
<1>7. pods'[n].at \in {"tag", "finish"} => First(pods'[n].todo) = r
  BY <1>1
<1>8. pods'[n].at = "tag" => \E x \in cloud'[r] : x.maker = n /\ x.owner = 0
  OBVIOUS
<1>9. pods'[n].at = "finish" => r \in plan.disturbed \/ WillHave(r, InputOf(n).uid)
  OBVIOUS
<1>10. QED  BY <1>1, <1>2, <1>5, <1>6, <1>7, <1>8, <1>9 DEF Provided, Has, WillHave

\* A worker that publishes has provided all.
LEMMA PublisherProvided ==
  ASSUME Inv, NEW n \in Numbers, WorkerStep(n), pods[n].at \notin Owning \cup {"idle"},
         pods'[n].todo = pods[n].todo, pods'[n].at \notin Owning,
         \A q \in Resources \ plan.disturbed : \A x \in cloud[q] :
           Counted(n, q, x) /\ x.owner # 0 =>
             \E y \in cloud'[q] : y.owner = x.owner /\ y.maker = x.maker
  PROVE  Provided(n)'
<1>1. /\ Provided(n) /\ n \in Known /\ WorkTypeOK
      /\ InputOf(n).uid \in 1..MaxUids
      /\ JobsStep(n) /\ plan' = plan
  BY Publishing DEF Inv, CloudInv, WorkerStep
<1>2. InputOf(n)' = InputOf(n) /\ Todo(n)' = Todo(n)
  BY <1>1 DEF JobsStep, InputOf, Todo
<1>3. Todo(n) \subseteq (Named \cup InputOf(n).extra) \cap Resources
  BY <1>1, TodoTypes DEF Todo, Provisioned
<1>4. ASSUME NEW q \in (Todo(n) \ pods[n].todo) \ plan.disturbed
      PROVE  WillHave(q, InputOf(n).uid)
  <2>1. Has(q, InputOf(n).uid)
    BY <1>1, <1>4 DEF Provided
  <2>2. InputOf(n).uid # 0
    BY <1>1
  <2>3. QED  BY <1>3, <1>4, <2>1, <2>2 DEF Has, WillHave, Owned, Counted
<1>5. pods'[n].at \notin {"tag", "finish"}
  BY DEF Owning
<1>6. QED  BY <1>1, <1>2, <1>4, <1>5 DEF Provided, Has, WillHave, Owning

\* The rows of the resources are as they were.
LEMMA RowsStay ==
  ASSUME \A q \in Resources : Keeps(q), NEW m
  PROVE  \A q \in Resources \ plan.disturbed : \A x \in cloud[q] :
           Counted(m, q, x) => \E y \in cloud'[q] : y.owner = x.owner /\ y.maker = x.maker
BY DEF Keeps

\* Two Pods have Jobs of different ManagedClusters.
LEMMA PodsApart ==
  ASSUME Inv, NEW m \in Numbers, NEW n \in Numbers, m # n, Active(m), Active(n)
  PROVE  InputOf(m).uid # InputOf(n).uid /\ InputOf(m).uid \in 1..MaxUids
<1>1. m \in Known /\ n \in Known /\ OneOccupant /\ WorkTypeOK
  BY DEF Inv, JobsInv, TypeOK
<1>2. QED  BY <1>1, JobRows DEF OneOccupant, Occupied, Input

\* The worker's part of the invariant, of the steps of its own.
WorkerInv(n) == WorkerStep(n) /\ inputs' = inputs /\ Informed(n)' /\ CloudInv'

LEMMA ProvisionInv ==
  ASSUME Inv, NEW n \in Numbers, StartPod(n) \/ Provision(n), plan' = plan
  PROVE  WorkerInv(n)
<1> USE DEF WorkerInv
<1>1. CASE StartPod(n)
  <2>1. /\ WorkerStep(n) /\ inputs' = inputs /\ cloud' = cloud
        /\ pods'[n].todo = Todo(n)
        /\ pods'[n].at = IF Todo(n) = {} THEN "prune" ELSE "look"
    BY <1>1, StartPodStep DEF StartPod
  <2>2. jobs'[n].name = jobs[n].name /\ plan' = plan
    BY <2>1 DEF WorkerStep, JobsStep
  <2>3. Todo(n)' = Todo(n)
    BY <2>2 DEF Todo, InputOf
  <2>4. Provided(n)'
    BY <2>1, <2>3 DEF Provided, Owning
  <2>5. Informed(n)'
    BY <2>1 DEF Informed
  <2>6. \A q \in Resources : Keeps(q)
    BY <2>1 DEF Keeps
  <2>7. QED  BY <2>1, <2>4, <2>5, <2>6, RowsStay, WorkerKeepsCloud
<1>2. CASE Look(n)
  <2>1. WorkerStep(n) /\ cloud' = cloud /\ inputs' = inputs /\ pods[n].at \in Owning
    BY <1>2, LookStep DEF Look, At, Owning
  <2>2. \A q \in Resources : Keeps(q)
    BY <2>1 DEF Keeps
  <2>3. CASE pods'[n] = NoWorker
    BY <2>1, <2>2, <2>3, NoWorkerType, RowsStay, WorkerKeepsCloud DEF Informed, Active
  <2>4. CASE pods'[n] # NoWorker
    <3> DEFINE r == First(pods[n].todo)
    <3>1. /\ pods'[n].at \in {"create", "finish", "look", "prune"}
          /\ \/ pods'[n].at = "create" /\ pods'[n].todo = pods[n].todo
             \/ /\ pods'[n].at = "finish" /\ pods'[n].todo = pods[n].todo
                /\ WillHave(r, InputOf(n).uid)
             \/ /\ pods'[n].at = IF pods'[n].todo = {} THEN "prune" ELSE "look"
                /\ pods'[n].todo = pods[n].todo \ {r}
                /\ WillHave(r, InputOf(n).uid)
      BY <1>2, <2>1, <2>4, LookStep DEF Has, WillHave
    <3>2. Provided(n)'
      BY <2>1, <2>2, <3>1, RowsStay, SelfProvided
    <3>3. QED  BY <2>1, <2>2, <3>1, <3>2, RowsStay, WorkerKeepsCloud DEF Informed
  <2>5. QED  BY <2>3, <2>4
<1>3. CASE Create(n)
  <2> DEFINE r == First(pods[n].todo)
  <2>1. /\ WorkerStep(n) /\ inputs' = inputs /\ pods[n].at \in Owning
        /\ \A q \in Resources : Keeps(q)
        /\ pods'[n].at \in {"tag", "look", "prune"}
        /\ \/ /\ pods'[n].at = "tag" /\ pods'[n].todo = pods[n].todo
              /\ \E x \in cloud'[r] : x.maker = n /\ x.owner = 0
           \/ /\ pods'[n].at = IF pods'[n].todo = {} THEN "prune" ELSE "look"
              /\ pods'[n].todo = pods[n].todo \ {r}
              /\ WillHave(r, InputOf(n).uid)
    BY <1>3, CreateStep DEF Create, At, Owning
  <2>2. Provided(n)'
    BY <2>1, RowsStay, SelfProvided
  <2>3. QED  BY <2>1, <2>2, RowsStay, WorkerKeepsCloud DEF Informed
<1>4. CASE Tag(n)
  <2> DEFINE r == First(pods[n].todo)
  <2>1. /\ WorkerStep(n) /\ inputs' = inputs /\ pods[n].at \in Owning
        /\ \A q \in Resources : \A x \in cloud[q] : x.owner # 0 \/ x.maker # n => x \in cloud'[q]
        /\ pods'[n].at \in {"finish", "look", "prune"}
        /\ r \notin plan.disturbed => WillHave(r, InputOf(n).uid)
        /\ \/ pods'[n].at = "finish" /\ pods'[n].todo = pods[n].todo
           \/ /\ pods'[n].at = IF pods'[n].todo = {} THEN "prune" ELSE "look"
              /\ pods'[n].todo = pods[n].todo \ {r}
    BY <1>4, TagStep DEF Tag, At, Owning
  <2>2. Provided(n)'
    BY <2>1, SelfProvided
  <2>3. \A m \in Numbers \ {n} : Active(m) => InputOf(m).uid # 0
    BY <2>1, PodsApart DEF Active, Owning
  <2>4. QED  BY <2>1, <2>2, <2>3, WorkerKeepsCloud DEF Informed, Counted
<1>5. CASE Finish(n)
  <2>1. /\ WorkerStep(n) /\ inputs' = inputs /\ pods[n].at \in Owning /\ pods[n].at = "finish"
        /\ \A q \in Resources : Keeps(q)
        /\ pods'[n].at \in {"look", "prune"}
        /\ pods'[n].at = IF pods'[n].todo = {} THEN "prune" ELSE "look"
        /\ pods'[n].todo = pods[n].todo \ {First(pods[n].todo)}
    BY <1>5, FinishStep DEF Finish, At, Owning
  <2>2. First(pods[n].todo) \notin plan.disturbed =>
          WillHave(First(pods[n].todo), InputOf(n).uid)
    <3>1. Provided(n) /\ First(pods[n].todo) \in Resources
      BY <2>1, Working DEF Inv, CloudInv, Active
    <3>2. QED  BY <2>1, <3>1 DEF Provided, Has, WillHave, Owned, Keeps
  <2>3. Provided(n)'
    BY <2>1, <2>2, RowsStay, SelfProvided
  <2>4. QED  BY <2>1, <2>3, RowsStay, WorkerKeepsCloud DEF Informed
<1>6. CASE Prune(n)
  <2>1. /\ WorkerStep(n) /\ inputs' = inputs
        /\ pods[n].at = "prune" /\ pods'[n].at = "clone" /\ pods'[n].todo = pods[n].todo
        /\ \A q \in Resources : \A x \in cloud[q] :
             x \in cloud'[q] \/ (q \in Groups \ InputOf(n).extra /\ x.owner = InputOf(n).uid)
    BY <1>6, PruneStep DEF Prune
  <2>2. InputOf(n).uid \in 1..MaxUids
    BY <2>1, Publishing DEF Owning
  <2>3. Provided(n)'
    BY <2>1, <2>2, PublisherProvided, ManagedCloudAssumption DEF Owning, Counted
  <2>4. \A m \in Numbers \ {n} : Active(m) => InputOf(m).uid # InputOf(n).uid
    BY <2>1, PodsApart DEF Active
  <2>5. \A m \in Numbers \ {n} : Active(m) =>
          \A q \in Resources \ plan.disturbed : \A x \in cloud[q] :
            Counted(m, q, x) => \E y \in cloud'[q] : y.owner = x.owner /\ y.maker = x.maker
    BY <2>1, <2>2, <2>4 DEF Counted
  <2>6. Informed(n)'
    BY <2>1 DEF Informed
  <2>7. QED  BY <2>1, <2>3, <2>5, <2>6, WorkerKeepsCloud
<1>7. QED  BY <1>1, <1>2, <1>3, <1>4, <1>5, <1>6 DEF Provision

LEMMA PublicationInv ==
  ASSUME Inv, NEW n \in Numbers, Publish(n) \/ Kill(n) \/ Die(n) \/ GitFails(n), plan' = plan
  PROVE  WorkerInv(n)
<1>1. /\ WorkerStep(n) /\ cloud' = cloud /\ inputs' = inputs /\ Informed(n)'
      /\ \/ pods'[n] = NoWorker
         \/ /\ pods'[n].todo = pods[n].todo /\ pods'[n].at \notin Owning
            /\ pods[n].at \notin Owning \cup {"idle"}
  <2>1. CASE Clone(n)
    BY <2>1, CloneStep DEF Clone, At, Owning
  <2>2. CASE Push(n)
    BY <2>2, PushStep DEF Push, At, Owning
  <2>3. CASE Confirm(n)
    BY <2>3, ConfirmStep DEF Confirm, At, Owning
  <2>4. CASE Conclude(n)
    BY <2>4, ConcludeStep DEF Conclude, At, Owning
  <2>5. CASE GitFails(n)
    BY <2>5, GitFailsStep DEF GitFails, Owning
  <2>6. CASE Kill(n) \/ Die(n)
    <3>1. WorkerStep(n) /\ pods'[n] = NoWorker
      BY <2>6, KillStep
    <3>2. cloud' = cloud /\ inputs' = inputs
      BY <2>6 DEF Kill, Die
    <3>3. QED  BY <3>1, <3>2, NoWorkerType DEF Informed
  <2>7. QED  BY <2>1, <2>2, <2>3, <2>4, <2>5, <2>6 DEF Publish
<1>2. \A q \in Resources : Keeps(q)
  BY <1>1 DEF Keeps
<1>3. Active(n)' => Provided(n)'
  BY <1>1, <1>2, NoWorkerType, RowsStay, PublisherProvided DEF Active
<1>4. QED  BY <1>1, <1>2, <1>3, RowsStay, WorkerKeepsCloud DEF WorkerInv

LEMMA WorkerKeepsInv ==
  ASSUME Inv, NEW n \in Numbers, KeepWorld, UNCHANGED <<plan, task>>,
         WorkerSteps(n) \/ Die(n) \/ Expire(n) \/ GitFails(n)
  PROVE  Inv'
<1>1. mc' = mc /\ task' = task /\ plan' = plan
  BY DEF KeepWorld, world
<1>2. WorkerStep(n) /\ inputs' = inputs /\ PublishInv' /\ CloudInv'
  <2>1. CASE WorkerInv(n)
    BY <2>1, WorkerKeepsPublication DEF WorkerInv
  <2>2. CASE Expire(n)
    <3>1. WorkerStep(n) /\ cloud' = cloud /\ pods' = pods /\ UNCHANGED git /\ inputs' = inputs
      BY <1>1, <2>2, ExpireStep DEF Expire
    <3>2. JobsInv /\ WorkTypeOK' /\ TreeGrows /\ JobsStep(n)
      BY <3>1 DEF Inv, WorkerStep
    <3>3. ASSUME NEW m \in Numbers
          PROVE  Informed(m)' /\ (Active(m)' => Provided(m)')
      <4>1. pods'[m] = pods[m] /\ (Active(m) => m \in Known /\ jobs'[m].name = jobs[m].name)
        BY <3>1, <3>2 DEF JobsInv, JobsStep
      <4>2. Informed(m)'
        BY <3>2, <4>1, OthersInformed
      <4>3. Active(m)' => Provided(m)'
        BY <1>1, <3>1, <4>1, OthersProvided DEF Active
      <4>4. QED  BY <4>2, <4>3
    <3>4. QED  BY <3>1, <3>3 DEF PublishInv, CloudInv
  <2>3. QED  BY <1>1, <2>1, <2>2, ProvisionInv, PublicationInv DEF WorkerSteps
<1>3. QED  BY <1>1, <1>2, WorkerKeepsJobs, WorkerKeepsCalls DEF Inv

-----------------------------------------------------------------------------
(* The calls of the operator.                                              *)

\* A patch of the status, as the calls make them.
Patch(keys) ==
  /\ DOMAIN keys \subseteq {"reason", "job", "hash", "commit", "pub"}
  /\ "reason" \in DOMAIN keys /\ keys["reason"] \in Reasons
  /\ "job" \in DOMAIN keys => keys["job"] \in Names
  /\ "hash" \in DOMAIN keys =>
       keys["hash"] \in [uid : 1..MaxUids, infra : Infras \X Infras] \cup {NoHash}
  /\ "commit" \in DOMAIN keys => keys["commit"] \in 0..MaxCommits
  /\ "pub" \in DOMAIN keys => keys["pub"] \in Input \cup {Invalid}

StatusKeys == {"reason", "gen", "job", "hash", "commit", "pub"}

LEMMA StatusFields ==
  ASSUME NEW s
  PROVE  s \in Status <=>
           /\ s = [k \in StatusKeys |-> s[k]]
           /\ s["reason"] \in Reasons /\ s["gen"] \in 0..MaxGens /\ s["job"] \in Names
           /\ s["hash"] \in [uid : 1..MaxUids, infra : Infras \X Infras] \cup {NoHash}
           /\ s["commit"] \in 0..MaxCommits /\ s["pub"] \in Input \cup {Invalid}
BY DEF Status, StatusKeys

LEMMA NoStatusType == NoStatus \in Status /\ DOMAIN NoStatus = StatusKeys
<1>1. 0 \in 0..MaxGens /\ 0 \in 0..MaxCommits
  BY ManagedInputAssumption, ManagedWorkerAssumption
<1>2. "" \in Reasons /\ NoName \in Names
  BY DEF Reasons, Names
<1>3. QED  BY <1>1, <1>2 DEF NoStatus, Status, StatusKeys

LEMMA PutType ==
  ASSUME NEW keys, Patch(keys), NEW g \in 0..MaxGens
  PROVE  Merged(Merged(keys, [gen |-> g]), NoStatus) \in Status
<1> DEFINE put == Merged(keys, [gen |-> g])
           s == Merged(put, NoStatus)
<1>1. DOMAIN put = DOMAIN keys \cup {"gen"} /\ put["gen"] = g /\ \A k \in DOMAIN keys : put[k] = keys[k]
  BY DEF Merged, Patch
<1>2. DOMAIN s = StatusKeys /\ s = [k \in StatusKeys |-> s[k]]
  BY <1>1, NoStatusType DEF Merged, Patch, StatusKeys
<1>3. \A k \in StatusKeys : s[k] = IF k \in DOMAIN keys THEN keys[k]
                                   ELSE IF k = "gen" THEN g ELSE NoStatus[k]
  BY <1>1, NoStatusType DEF Merged, StatusKeys, Patch
<1>4. /\ NoStatus["job"] \in Names /\ NoStatus["commit"] \in 0..MaxCommits
      /\ NoStatus["hash"] \in [uid : 1..MaxUids, infra : Infras \X Infras] \cup {NoHash}
      /\ NoStatus["pub"] \in Input \cup {Invalid}
  BY NoStatusType, StatusFields
<1> HIDE DEF put, s
<1>5. /\ s["reason"] \in Reasons /\ s["gen"] \in 0..MaxGens /\ s["job"] \in Names
      /\ s["hash"] \in [uid : 1..MaxUids, infra : Infras \X Infras] \cup {NoHash}
      /\ s["commit"] \in 0..MaxCommits /\ s["pub"] \in Input \cup {Invalid}
  BY <1>3, <1>4 DEF Patch, StatusKeys
<1>6. s \in Status
  BY <1>2, <1>5, StatusFields
<1>7. QED  BY <1>6 DEF s, put

LEMMA MergedStatus ==
  ASSUME NEW put, Merged(put, NoStatus) \in Status, NEW s \in Status
  PROVE  /\ Merged(put, s) \in Status
         /\ \A k \in StatusKeys : Merged(put, s)[k] = IF k \in DOMAIN put THEN put[k] ELSE s[k]
<1> DEFINE u == Merged(put, s)
           v == Merged(put, NoStatus)
<1>1. DOMAIN put \subseteq StatusKeys
  BY StatusFields, NoStatusType DEF Merged
<1>2. DOMAIN s = StatusKeys
  BY StatusFields
<1>3. /\ u = [k \in StatusKeys |-> u[k]]
      /\ \A k \in StatusKeys : u[k] = IF k \in DOMAIN put THEN put[k] ELSE s[k]
      /\ \A k \in DOMAIN put : v[k] = put[k]
  BY <1>1, <1>2, NoStatusType DEF Merged
<1> HIDE DEF u, v
<1>4. \A k \in StatusKeys : u[k] = v[k] \/ u[k] = s[k]
  BY <1>3
<1>5. v \in Status
  BY DEF v
<1>6. /\ u["reason"] \in Reasons /\ u["gen"] \in 0..MaxGens /\ u["job"] \in Names
      /\ u["hash"] \in [uid : 1..MaxUids, infra : Infras \X Infras] \cup {NoHash}
      /\ u["commit"] \in 0..MaxCommits /\ u["pub"] \in Input \cup {Invalid}
  BY <1>4, <1>5, StatusFields DEF StatusKeys
<1>7. u \in Status
  BY <1>3, <1>6, StatusFields
<1>8. QED  BY <1>3, <1>7 DEF u

\* The calls after one of them has gone on.
TasksOK == DOMAIN task = Threads /\ \A t \in Threads : TaskOK(task[t])

\* What the call t has of the object stays, the other call is as it was.
CallStep(t) ==
  /\ TasksOK'
  /\ \A s \in Threads \ {t} : task'[s] = task[s]
  /\ task'[t].gen = task[t].gen /\ task'[t].spec = task[t].spec
  /\ task'[t].status = task[t].status

LEMMA PutsStep ==
  ASSUME TasksOK, NEW t \in Threads, NEW keys, Patch(keys), Puts(t, keys)
  PROVE  /\ CallStep(t) /\ task'[t].at = "patch" /\ task'[t].name = task[t].name
         /\ DOMAIN task'[t].put = DOMAIN keys \cup {"gen"}
         /\ \A k \in DOMAIN keys : task'[t].put[k] = keys[k]
<1> DEFINE put == Merged(keys, [gen |-> task[t].gen])
<1>1. task[t].gen \in 0..MaxGens
  BY DEF TasksOK, TaskOK
<1>2. Merged(put, NoStatus) \in Status
  BY <1>1, PutType
<1>3. DOMAIN put = DOMAIN keys \cup {"gen"} /\ \A k \in DOMAIN keys : put[k] = keys[k]
  BY DEF Merged
<1>4. task' = [task EXCEPT ![t].at = "patch", ![t].put = put]
  BY DEF Puts
<1> HIDE DEF put
<1>5. /\ DOMAIN task' = Threads /\ \A s \in Threads \ {t} : task'[s] = task[s]
      /\ DOMAIN task'[t] = DOMAIN task[t]
      /\ task'[t].at = "patch" /\ task'[t].put = put
      /\ task'[t].gen = task[t].gen /\ task'[t].spec = task[t].spec
      /\ task'[t].status = task[t].status /\ task'[t].name = task[t].name
  BY <1>4 DEF TasksOK, TaskOK
<1>6. TaskOK(task'[t])
  BY <1>2, <1>5 DEF TasksOK, TaskOK
<1>7. TasksOK'
  BY <1>5, <1>6 DEF TasksOK, TaskOK
<1>8. QED  BY <1>3, <1>5, <1>7 DEF CallStep

LEMMA SaysStep ==
  ASSUME TasksOK, NEW t \in Threads, NEW reason \in Reasons, reason # "ProvisioningSucceeded",
         Says(t, reason)
  PROVE  /\ CallStep(t) /\ task'[t].at = "patch"
         /\ "reason" \in DOMAIN task'[t].put /\ task'[t].put.reason # "ProvisioningSucceeded"
<1> DEFINE keys == [k \in {"reason"} |-> reason]
<1>1. Patch(keys)
  BY DEF Patch
<1>2. Puts(t, keys)
  BY DEF Says
<1>3. "reason" \in DOMAIN keys /\ keys["reason"] = reason
  OBVIOUS
<1> HIDE DEF keys
<1>4. QED  BY <1>1, <1>2, <1>3, PutsStep

LEMMA RepeatsPatch ==
  ASSUME NEW s \in Status, NEW reason \in Reasons
  PROVE  /\ Patch(Merged([reason |-> reason], Repeats(s)))
         /\ Merged([reason |-> reason], Repeats(s))["reason"] = reason
         /\ "reason" \in DOMAIN Merged([reason |-> reason], Repeats(s))
<1> DEFINE rep == Repeats(s)
           m == Merged([reason |-> reason], rep)
<1>1. DOMAIN rep \subseteq {"job", "hash", "commit"} /\ \A k \in DOMAIN rep : rep[k] = s[k]
  BY DEF Repeats
<1>2. DOMAIN m = DOMAIN rep \cup {"reason"} /\ m["reason"] = reason
  BY DEF Merged
<1>3. \A k \in DOMAIN rep : m[k] = s[k]
  BY <1>1 DEF Merged
<1> HIDE DEF rep, m
<1>4. Patch(m)
  BY <1>1, <1>2, <1>3, StatusFields DEF Patch
<1>5. QED  BY <1>2, <1>4 DEF m, rep

LEMMA RepeatsStep ==
  ASSUME TasksOK, NEW t \in Threads, NEW reason \in Reasons, reason # "ProvisioningSucceeded",
         Puts(t, Merged([reason |-> reason], Repeats(task[t].status)))
  PROVE  /\ CallStep(t) /\ task'[t].at = "patch"
         /\ "reason" \in DOMAIN task'[t].put /\ task'[t].put.reason # "ProvisioningSucceeded"
<1> DEFINE keys == Merged([reason |-> reason], Repeats(task[t].status))
<1>1. Patch(keys) /\ keys["reason"] = reason /\ "reason" \in DOMAIN keys
  BY RepeatsPatch DEF TasksOK, TaskOK
<1> HIDE DEF keys
<1>2. Puts(t, keys)
  BY DEF keys
<1>3. QED  BY <1>1, <1>2, PutsStep

\* Every Job that a call may name.
InputNames == [input : Input, gen : 1..MaxGens, bucket : 0..MaxBuckets]

LEMMA ProvisioningStep ==
  ASSUME TasksOK, NEW t \in Threads, NEW reason \in Reasons, reason # "ProvisioningSucceeded",
         NEW name \in Names, task[t].name \in InputNames, Provisioning(t, reason, name)
  PROVE  /\ CallStep(t) /\ task'[t].at = "patch"
         /\ "reason" \in DOMAIN task'[t].put /\ task'[t].put.reason # "ProvisioningSucceeded"
<1> DEFINE keys == [reason |-> reason, job |-> name, hash |-> InputHash(task[t].name.input)]
<1>1. InputHash(task[t].name.input) \in [uid : 1..MaxUids, infra : Infras \X Infras]
  BY DEF InputHash, InputNames, Input
<1>2. Patch(keys) /\ keys["reason"] = reason /\ "reason" \in DOMAIN keys
  BY <1>1 DEF Patch
<1>3. Puts(t, keys)
  BY DEF Provisioning
<1> HIDE DEF keys
<1>4. QED  BY <1>2, <1>3, PutsStep

LEMMA ReceiptStep ==
  ASSUME TypeOK, NEW t \in Threads, NEW n \in Known, Puts(t, Receipt(t, n))
  PROVE  /\ CallStep(t) /\ task'[t].at = "patch"
         /\ {"reason", "commit", "hash", "pub"} \subseteq DOMAIN task'[t].put
         /\ task'[t].put.commit = jobs[n].commit
         /\ task'[t].put.hash = InputHash(InputOf(n))
         /\ task'[t].put.pub = InputOf(n)
<1> DEFINE keys == Receipt(t, n)
<1>1. jobs[n] \in Job /\ InputOf(n) \in Input /\ TasksOK
  BY JobRows DEF TypeOK, TasksOK
<1>2. InputHash(InputOf(n)) \in [uid : 1..MaxUids, infra : Infras \X Infras]
  BY <1>1 DEF InputHash, Input
<1>3. jobs[n].commit \in 0..MaxCommits /\ jobs[n].name \in Names
  BY <1>1 DEF Job, Names
<1>4. /\ DOMAIN keys = {"reason", "job", "commit", "hash", "pub"}
      /\ keys["reason"] = "ProvisioningSucceeded" /\ keys["job"] = jobs[n].name
      /\ keys["commit"] = jobs[n].commit /\ keys["hash"] = InputHash(InputOf(n))
      /\ keys["pub"] = InputOf(n)
  BY DEF Receipt, PublicationHash
<1>5. "ProvisioningSucceeded" \in Reasons
  BY DEF Reasons
<1> HIDE DEF keys
<1>6. Patch(keys)
  BY <1>1, <1>2, <1>3, <1>4, <1>5 DEF Patch
<1>7. Puts(t, keys)
  BY DEF keys
<1>8. QED  BY <1>1, <1>4, <1>6, <1>7, PutsStep

-----------------------------------------------------------------------------
(* The parts of the invariant: the work that is done, the calls and the    *)
(* object.                                                                 *)

Answers(put) ==
  /\ "reason" \in DOMAIN put
  /\ put.reason = "ProvisioningSucceeded" =>
       /\ {"commit", "hash", "pub"} \subseteq DOMAIN put
       /\ Holds(put.commit, put.pub)
       /\ put.hash = InputHash(put.pub)

WorkInv ==
  /\ WorkTypeOK /\ inputs \subseteq Names \ {NoName}
  /\ JobsInv /\ OneOccupant /\ InputsKept /\ PublishInv /\ CloudInv
  /\ \A n \in Known : jobs[n].at = "complete" => Holds(jobs[n].commit, InputOf(n))

CallsInv ==
  /\ TasksOK /\ TaskInv
  /\ \A t \in Threads : task[t].at = "patch" => Answers(task[t].put)

WorldTypeOK ==
  /\ mc \in Object /\ profile \in Profile
  /\ project \in {"ready", "waiting", "other"} /\ present \in BOOLEAN
  /\ bucket \in 0..MaxBuckets
WorldInv == WorldTypeOK /\ ObjectInv /\ ReceiptTrue

LEMMA Parts == Inv <=> WorkInv /\ CallsInv /\ WorldInv
BY DEF Inv, TypeOK, WorkInv, CallsInv, WorldInv, WorldTypeOK, ReceiptInv, Answers, TasksOK

LEMMA PartsNext == Inv' <=> WorkInv' /\ CallsInv' /\ WorldInv'
BY DEF Inv, TypeOK, WorkInv, CallsInv, WorldInv, WorldTypeOK, ReceiptInv, Answers, TasksOK

\* The object is replaced by a later one, if at all.
ObjectGrows ==
  /\ mc.uid <= mc'.uid
  /\ mc.at = "absent" => mc'.at = "absent" \/ mc.uid < mc'.uid

\* What was done stays true when others act.
LEMMA InputsGrow ==
  ASSUME Inv, UNCHANGED <<plan, cloud, git, jobs, pods>>, inputs \subseteq inputs',
         inputs' \subseteq Names \ {NoName}, events' \in 0..MaxEvents, mc' \in Object, ObjectGrows
  PROVE  WorkInv'
<1>1. WorkInv /\ mc.uid \in Nat /\ mc'.uid \in Nat /\ UNCHANGED <<plan, cloud, head, tree, jobs, pods>>
  BY Parts DEF WorldInv, WorldTypeOK, Object, git
<1>2. WorkTypeOK' /\ (inputs \subseteq Names \ {NoName})'
  BY <1>1 DEF WorkInv, WorkTypeOK, CloudTypeOK
<1>3. Known' = Known /\ \A n \in Known : InputOf(n)' = InputOf(n)
  BY <1>1 DEF Known, InputOf
<1>4. \A n \in Known : InputOf(n).uid \in Nat
  BY <1>1, JobRows DEF WorkInv, Input
<1>5. JobsInv'
  <2>1. \A n \in Known : InputOf(n)'.uid <= mc'.uid
    BY <1>1, <1>3, <1>4 DEF WorkInv, JobsInv, ObjectGrows
  <2>2. \A n \in Known : Orphaned(jobs[n].name) => Orphaned(jobs[n].name)'
    BY <1>1, <1>4 DEF WorkInv, JobsInv, ObjectGrows, Orphaned, InputOf
  <2>3. QED  BY <1>1, <1>3, <2>1, <2>2 DEF WorkInv, JobsInv, Active, Occupied, Open
<1>6. OneOccupant' /\ InputsKept'
  BY <1>1, <1>3 DEF WorkInv, OneOccupant, InputsKept, Occupied, Open, Active
<1>7. PublishInv'
  BY <1>1 DEF WorkInv, PublishInv, Informed, Holds, InputOf
<1>8. CloudInv'
  BY <1>1 DEF WorkInv, CloudInv, Provided, Has, Todo, Active, InputOf
<1>9. \A n \in Known' : jobs'[n].at = "complete" => Holds(jobs[n].commit, InputOf(n))'
  BY <1>1, <1>3 DEF WorkInv, Holds
<1>10. QED  BY <1>2, <1>5, <1>6, <1>7, <1>8, <1>9 DEF WorkInv

LEMMA WorkStays ==
  ASSUME Inv, UNCHANGED <<plan, work>>, events' \in 0..MaxEvents, mc' \in Object, ObjectGrows
  PROVE  WorkInv'
BY InputsGrow, Parts DEF work, WorkInv

\* One call goes on, the others are where they were.
LEMMA CallMoves ==
  ASSUME Inv, NEW t \in Threads, CallStep(t), task[t].at # "idle", mc' = mc, UNCHANGED git,
         UNCHANGED <<jobs, inputs>> \/ \A s \in Threads \ {t} : task[s].at \notin Locked,
         \/ task'[t].at = "patch" /\ Answers(task'[t].put)
         \/ /\ task'[t].at \in Locked
            /\ task'[t].name # NoName /\ task'[t].name.input.uid = mc.uid
            /\ task'[t].at \in {"input", "job"} =>
                 \A n \in Known' : InputOf(n)'.uid = mc.uid => ~Open(n)'
            /\ task'[t].at = "job" => task'[t].name \in inputs'
            /\ \A s \in Threads \ {t} : task[s].at \notin Locked
  PROVE  CallsInv'
<1>1. CallsInv /\ TasksOK' /\ head' = head /\ tree' = tree
  BY Parts DEF CallStep, git
<1>2. ASSUME NEW s \in Threads, s # t
      PROVE  /\ task'[s] = task[s]
             /\ task[s].at # "idle" => mc.at # "absent" /\ task[s].gen >= 1 /\ task[s].spec \in Declaration
             /\ task[s].at \in Locked => UNCHANGED <<jobs, inputs>>
  BY <1>1, <1>2 DEF CallStep, CallsInv, TaskInv
<1>3. mc.at # "absent" /\ task'[t].gen >= 1 /\ task'[t].spec \in Declaration
  BY <1>1 DEF CallStep, CallsInv, TaskInv
<1>4. \A s \in Threads : task'[s].at = "patch" => Answers(task'[s].put)
  BY <1>1, <1>2 DEF CallsInv, Locked
<1>5. \A s \in Threads : task'[s].at = "patch" => Answers(task[s].put)'
  BY <1>1, <1>4 DEF Answers, Holds
<1>6. \A s, u \in Threads : task'[s].at \in Locked /\ task'[u].at \in Locked => s = u
  BY <1>1, <1>2 DEF CallsInv, TaskInv, Locked
<1>7. ASSUME NEW s \in Threads, task'[s].at # "idle"
      PROVE  /\ mc'.at # "absent" /\ task'[s].gen >= 1 /\ task'[s].spec \in Declaration
             /\ task'[s].at \in Locked => task'[s].name # NoName /\ task'[s].name.input.uid = mc'.uid
             /\ task'[s].at \in {"input", "job"} =>
                  \A n \in Known' : InputOf(n)'.uid = mc'.uid => ~Open(n)'
             /\ task'[s].at = "job" => task'[s].name \in inputs'
  <2>1. CASE s = t
    BY <1>3, <2>1 DEF Locked
  <2>2. CASE s # t
    <3>1. task'[s] = task[s] /\ task[s].at # "idle"
      BY <1>2, <1>7, <2>2
    <3>2. CASE task[s].at \in Locked
      <4>1. UNCHANGED <<jobs, inputs>>
        BY <1>2, <2>2, <3>2
      <4>2. \A n \in Known' : InputOf(n)' = InputOf(n) /\ Open(n)' = Open(n)
        BY <4>1 DEF Known, InputOf, Open
      <4>3. Known' = Known
        BY <4>1 DEF Known
      <4>4. QED  BY <1>1, <3>1, <4>1, <4>2, <4>3 DEF CallsInv, TaskInv
    <3>3. CASE task[s].at \notin Locked
      BY <1>2, <2>2, <3>1, <3>3 DEF Locked
    <3>4. QED  BY <3>2, <3>3
  <2>3. QED  BY <2>1, <2>2
<1>8. TaskInv'
  BY <1>6, <1>7 DEF TaskInv
<1>9. QED  BY <1>1, <1>5, <1>8 DEF CallsInv

\* build_input makes an input of this ManagedCluster, or none.
LEMMA BuildInputType ==
  ASSUME NEW spec \in Declaration, NEW p \in Profile, NEW uid \in 1..MaxUids,
         BuildInput(spec, p, uid) # Invalid
  PROVE  BuildInput(spec, p, uid) \in Input /\ BuildInput(spec, p, uid).uid = uid
<1>1. spec.extra \in Seq(Groups) /\ spec.infra \in Infras /\ spec.dns \in Policies
  BY DEF Declaration
<1>2. p.gen \in 1..MaxGens /\ p.infra \in Infras /\ p.ansible \in Policies
  BY DEF Profile
<1>3. ExtraGroups(spec) \in SUBSET Groups
  BY <1>1, ElementOfSeq, LenProperties DEF ExtraGroups, Range
<1>4. BuildInput(spec, p, uid) =
        [uid |-> uid, infra |-> <<spec.infra, p.infra>>, inventory |-> <<spec.dns, p.ansible>>,
         revision |-> p.gen, extra |-> ExtraGroups(spec)]
  BY DEF BuildInput, InventoryParameters
<1>5. QED  BY <1>1, <1>2, <1>3, <1>4 DEF Input

LEMMA NameType ==
  ASSUME NEW input \in Input, NEW g \in 1..MaxGens, NEW b \in 0..MaxBuckets
  PROVE  /\ JobName(input, g, b) \in Names /\ JobName(input, g, b) # NoName
         /\ JobName(input, g, b).input = input
BY DEF JobName, PublicationHash, Names, NoName, Input, Invalid

\* The calls leave the world alone, but for the status that they patch.
LEMMA WorldStays ==
  ASSUME Inv, KeepWorld, WorkInv', CallsInv', TreeGrows
  PROVE  Inv'
<1>1. WorldInv /\ UNCHANGED <<mc, profile, project, present, bucket>>
  BY Parts DEF KeepWorld, world
<1>2. ReceiptTrue'
  <2>1. ASSUME mc.status.reason = "ProvisioningSucceeded"
        PROVE  WillHold(mc.status.commit, mc.status.pub) /\ mc.status.hash = InputHash(mc.status.pub)
    <3>1. Holds(mc.status.commit, mc.status.pub) /\ mc.status.hash = InputHash(mc.status.pub)
      BY <1>1, <2>1 DEF WorldInv, ReceiptTrue, Holds
    <3>2. QED  BY <3>1, HoldsStays, Parts DEF WorkInv
  <2>2. QED  BY <1>1, <2>1 DEF ReceiptTrue, WillHold
<1>3. WorldInv'
  BY <1>1, <1>2 DEF WorldInv, WorldTypeOK, ObjectInv
<1>4. QED  BY <1>3, PartsNext

LEMMA NoTaskType == TaskOK(NoTask) /\ NoTask.at = "idle"
<1>1. DOMAIN <<>> = {}
  OBVIOUS
<1>2. Merged(<<>>, NoStatus) = [k \in StatusKeys |-> NoStatus[k]]
  BY <1>1, NoStatusType DEF Merged
<1>3. NoStatus = [k \in StatusKeys |-> NoStatus[k]]
  BY StatusFields, NoStatusType
<1>4. Merged(<<>>, NoStatus) \in Status
  BY <1>2, <1>3, NoStatusType
<1>5. 0 \in 0..MaxGens /\ NoName \in Names
  BY ManagedInputAssumption DEF Names
<1>6. QED  BY <1>4, <1>5, NoStatusType DEF TaskOK, NoTask

LEMMA CalledInv ==
  ASSUME Inv, NEW t \in Threads, Called(t)
  PROVE  Inv'
<1>1. WorkInv /\ CallsInv /\ WorldInv
  BY Parts
<1>2. UNCHANGED <<plan, events, work, mc, head, tree, jobs, inputs>> /\ KeepWorld
  BY DEF Called, KeepWorld, world, work, git
<1>3. WorkInv'
  <2>1. events' \in 0..MaxEvents /\ mc' \in Object /\ ObjectGrows
    BY <1>1, <1>2 DEF WorkInv, WorkTypeOK, WorldInv, WorldTypeOK, ObjectGrows, Object
  <2>2. QED  BY <1>2, <2>1, WorkStays
<1> DEFINE th == [NoTask EXCEPT !.at = "lock", !.gen = mc.gen, !.spec = mc.spec, !.status = mc.status]
<1>4. TaskOK(th) /\ th.at = "lock" /\ th.gen = mc.gen /\ th.spec = mc.spec
  <2>1. TaskOK(NoTask)
    BY NoTaskType
  <2>2. mc.gen \in 0..MaxGens /\ mc.spec \in Declaration \cup {NoSpec} /\ mc.status \in Status
    BY <1>1 DEF WorldInv, WorldTypeOK, Object
  <2>3. QED  BY <2>1, <2>2 DEF TaskOK, NoTask
<1> HIDE DEF th
<1>5. task' = [task EXCEPT ![t] = th]
  BY DEF Called, th
<1>6. TasksOK'
  BY <1>1, <1>4, <1>5 DEF CallsInv, TasksOK, TaskOK
<1>7. task'[t] = th /\ \A s \in Threads \ {t} : task'[s] = task[s]
  BY <1>1, <1>5 DEF CallsInv, TasksOK
<1>8. mc.at # "absent" /\ mc.gen >= 1 /\ mc.spec \in Declaration
  BY <1>1 DEF WorldInv, ObjectInv, Called
<1>9. TaskInv'
  <2>1. Known' = Known /\ \A n \in Known : InputOf(n)' = InputOf(n) /\ Open(n)' = Open(n)
    BY <1>2 DEF Known, InputOf, Open
  <2>2. QED  BY <1>1, <1>2, <1>4, <1>7, <1>8, <2>1 DEF CallsInv, TaskInv, Locked
<1>10. \A s \in Threads : task'[s].at = "patch" => Answers(task[s].put)'
  BY <1>1, <1>2, <1>4, <1>7 DEF CallsInv, Answers, Holds
<1>11. CallsInv'
  BY <1>6, <1>9, <1>10 DEF CallsInv
<1>12. TreeGrows
  BY <1>2, TreeSame DEF Inv, TypeOK, git
<1>13. QED  BY <1>2, <1>3, <1>11, <1>12, WorldStays

LEMMA SurveyInv ==
  ASSUME Inv, NEW t \in Threads, Survey(t)
  PROVE  Inv'
<1> DEFINE th == task[t]
           input == BuildInput(th.spec, profile, mc.uid)
<1>1. WorkInv /\ CallsInv /\ WorldInv /\ TasksOK
  BY Parts DEF CallsInv
<1>2. UNCHANGED <<plan, events, work, mc, head, tree, jobs, inputs>> /\ KeepWorld /\ UNCHANGED git
  BY DEF Survey, KeepWorld, world, work, git
<1>3. WorkInv'
  <2>1. events' \in 0..MaxEvents /\ mc' \in Object /\ ObjectGrows
    BY <1>1, <1>2 DEF WorkInv, WorkTypeOK, WorldInv, WorldTypeOK, ObjectGrows, Object
  <2>2. QED  BY <1>2, <2>1, WorkStays
<1>4. th.at = "lock" /\ \A s \in Threads : task[s].at \notin Locked
  BY DEF Survey, Ready, LockFree, Locked
<1>5. /\ mc.at # "absent" /\ mc.uid \in 1..MaxUids /\ th.spec \in Declaration
      /\ th.gen \in 1..MaxGens /\ bucket \in 0..MaxBuckets /\ profile \in Profile
      /\ th.status \in Status
  BY <1>1, <1>4 DEF CallsInv, TaskInv, TasksOK, TaskOK, WorldInv, WorldTypeOK, ObjectInv, Object
<1>6. CallsInv'
  <2>1. CASE \E reason \in Reasons \ {"ProvisioningSucceeded"} : Says(t, reason)
    <3>1. CallStep(t) /\ task'[t].at = "patch" /\ Answers(task'[t].put)
      BY <1>1, <2>1, SaysStep DEF Answers
    <3>2. QED  BY <1>2, <1>4, <3>1, CallMoves
  <2>2. CASE Puts(t, Merged([reason |-> "InfrastructureDriftUnsupported"], Repeats(th.status)))
    <3>1. CallStep(t) /\ task'[t].at = "patch" /\ Answers(task'[t].put)
      BY <1>1, <2>2, RepeatsStep DEF Answers, Reasons
    <3>2. QED  BY <1>2, <1>4, <3>1, CallMoves
  <2>3. CASE /\ input # Invalid
             /\ task' = [task EXCEPT ![t].at = "jobs", ![t].name = JobName(input, th.gen, bucket)]
    <3> DEFINE name == JobName(input, th.gen, bucket)
    <3>1. input \in Input /\ input.uid = mc.uid
      BY <1>5, <2>3, BuildInputType
    <3>2. name \in Names /\ name # NoName /\ name.input = input
      BY <1>5, <3>1, NameType
    <3> HIDE DEF name, input
    <3>3. task' = [task EXCEPT ![t].at = "jobs", ![t].name = name]
      BY <2>3 DEF name
    <3>4. /\ DOMAIN task' = Threads /\ \A s \in Threads \ {t} : task'[s] = task[s]
          /\ DOMAIN task'[t] = DOMAIN task[t] /\ task'[t].at = "jobs" /\ task'[t].name = name
          /\ task'[t].gen = th.gen /\ task'[t].spec = th.spec /\ task'[t].status = th.status
          /\ task'[t].put = th.put
      BY <1>1, <3>3 DEF TasksOK, TaskOK
    <3>5. TaskOK(task'[t])
      BY <1>1, <3>2, <3>4 DEF TasksOK, TaskOK
    <3>6. CallStep(t)
      BY <1>1, <3>4, <3>5 DEF CallStep, TasksOK, TaskOK
    <3>7. QED  BY <1>2, <1>4, <3>1, <3>2, <3>4, <3>6, CallMoves DEF Locked
  <2>4. QED  BY <2>1, <2>2, <2>3 DEF Survey, Reasons
<1>7. TreeGrows
  BY <1>1, <1>2, TreeSame DEF WorkInv
<1>8. QED  BY <1>2, <1>3, <1>6, <1>7, WorldStays

\* Jobs are deleted when they have no Pod, or with their owner.
LEMMA JobsDeleted ==
  ASSUME Inv, UNCHANGED <<plan, events, cloud, git, pods, mc>>, jobs' \in [Known -> Job],
         \A n \in Known :
           /\ jobs'[n].name = jobs[n].name
           /\ \/ jobs'[n] = jobs[n]
              \/ /\ jobs'[n].at = "deleted" /\ jobs'[n].failures = jobs[n].failures
                 /\ Active(n) => Orphaned(jobs[n].name),
         inputs' \subseteq inputs, InputsKept'
  PROVE  WorkInv'
<1>1. WorkInv /\ UNCHANGED <<head, tree>>
  BY Parts DEF git
<1>2. jobs' \in Seq(Job) /\ Len(jobs') = Len(jobs) /\ Known' = Known
  BY <1>1, JobsMapped DEF WorkInv
<1>3. WorkTypeOK' /\ (inputs \subseteq Names \ {NoName})'
  BY <1>1, <1>2 DEF WorkInv, WorkTypeOK, CloudTypeOK
<1>4. \A n \in Known : InputOf(n)' = InputOf(n) /\ (Open(n)' => Open(n)) /\ (Occupied(n)' => Occupied(n))
  BY DEF InputOf, Open, Occupied, Active
<1>5. \A n \in Numbers : Active(n)' = Active(n)
  BY DEF Active
<1>6. JobsInv'
  <2>1. \A n \in Numbers : Active(n) => n \in Known /\ jobs'[n].at \in {"running", "expired", "deleted"}
    BY <1>1 DEF WorkInv, JobsInv
  <2>2. \A n \in Known : Occupied(n)' => jobs'[n].failures <= BackoffLimit
    BY <1>1, <1>4 DEF WorkInv, JobsInv
  <2>3. \A n \in Known : jobs'[n].at = "deleted" /\ Active(n) => Orphaned(jobs[n].name)
    BY <1>1 DEF WorkInv, JobsInv
  <2>4. \A n \in Known : jobs'[n].at \in {"running", "expired"} => Active(n)
    BY <1>1 DEF WorkInv, JobsInv
  <2>5. \A n \in Known : Orphaned(jobs[n].name) => Orphaned(jobs[n].name)'
    BY DEF Orphaned
  <2>6. \A n \in Known : InputOf(n)'.uid <= mc'.uid
    BY <1>1, <1>4 DEF WorkInv, JobsInv
  <2>7. Known \subseteq Numbers
    BY <1>1, JobRows DEF WorkInv
  <2>8. QED  BY <1>2, <1>5, <2>1, <2>2, <2>3, <2>4, <2>5, <2>6, <2>7 DEF JobsInv
<1>7. OneOccupant'
  BY <1>1, <1>2, <1>4 DEF WorkInv, OneOccupant
<1>8. PublishInv'
  <2>1. ASSUME NEW m \in Numbers
        PROVE  Informed(m)'
    <3>1. Active(m) => m \in Known /\ jobs'[m].name = jobs[m].name
      BY <1>1 DEF WorkInv, JobsInv
    <3>2. QED  BY <1>1, <1>3, <3>1, OthersInformed, TreeSame DEF WorkInv
  <2>2. QED  BY <2>1 DEF PublishInv
<1>9. CloudInv'
  <2>1. ASSUME NEW m \in Numbers, Active(m)
        PROVE  Provided(m)'
    <3>1. m \in Known /\ jobs'[m].name = jobs[m].name
      BY <1>1, <2>1 DEF WorkInv, JobsInv
    <3>2. QED  BY <1>1, <2>1, <3>1, OthersProvided DEF Counted
  <2>2. QED  BY <1>5, <2>1 DEF CloudInv
<1>10. ASSUME NEW n \in Known', jobs'[n].at = "complete"
       PROVE  Holds(jobs[n].commit, InputOf(n))'
  <2>1. n \in Known /\ jobs'[n] = jobs[n]
    BY <1>2, <1>10
  <2>2. QED  BY <1>1, <1>4, <1>10, <2>1 DEF WorkInv, Holds
<1>11. QED  BY <1>1, <1>3, <1>6, <1>7, <1>8, <1>9, <1>10 DEF WorkInv

LEMMA CleanupStep ==
  ASSUME Inv, NEW th, CleanupHistory(th), UNCHANGED <<plan, events, cloud, git, pods, mc>>
  PROVE  /\ WorkInv' /\ Known' = Known
         /\ \A n \in Known : /\ InputOf(n)' = InputOf(n)
                             /\ Open(n)' => Open(n)
<1> DEFINE gone == Mine \ Retained(th)
<1>1. WorkInv /\ WorkTypeOK /\ DOMAIN jobs = Known /\ \A n \in Known : jobs[n] \in Job
  BY Parts, JobRows DEF WorkInv
<1>2. \A n \in gone : n \in Known /\ Finished(n)
  BY DEF Mine, Retained
<1>3. \A n \in Known : /\ n \in gone => ~Active(n) /\ ~Open(n)
                       /\ Open(n) /\ InputOf(n).uid = mc.uid => n \in Retained(th)
  <2>1. ASSUME NEW n \in gone
        PROVE  ~Active(n) /\ ~Open(n)
    BY <1>1, <1>2, JobRows DEF WorkInv, JobsInv, Finished, Open
  <2>2. ASSUME NEW n \in Known, Open(n), InputOf(n).uid = mc.uid
        PROVE  n \in Retained(th)
    <3>1. n \in Mine /\ ~Finished(n)
      BY <2>2 DEF Mine, Open, Finished
    <3>2. QED  BY <3>1 DEF Retained
  <2>3. QED  BY <2>1, <2>2
<1>4. \A n \in Known : [jobs[n] EXCEPT !.at = "deleted"] \in Job
  BY <1>1 DEF Job, JobStates
<1>5. jobs' = [n \in Known |-> IF n \in gone THEN [jobs[n] EXCEPT !.at = "deleted"] ELSE jobs[n]]
  BY DEF CleanupHistory
<1> HIDE DEF gone
<1>6. jobs' \in [Known -> Job]
  BY <1>1, <1>4, <1>5
<1>7. Known' = Known
  BY <1>1, <1>6, JobsMapped
<1>8. \A n \in Known : /\ jobs'[n].name = jobs[n].name
                       /\ \/ jobs'[n] = jobs[n]
                          \/ /\ jobs'[n].at = "deleted" /\ jobs'[n].failures = jobs[n].failures
                             /\ n \in gone
  BY <1>1, <1>5 DEF Job
<1>9. \A n \in Known : InputOf(n)' = InputOf(n) /\ (Open(n)' => Open(n))
  BY <1>8 DEF InputOf, Open
<1>10. inputs' \subseteq inputs
  BY DEF CleanupHistory
<1>11. InputsKept'
  <2>1. ASSUME NEW n \in Known, Open(n)'
        PROVE  jobs'[n].name \in inputs'
    <3>1. Open(n) /\ jobs'[n].name = jobs[n].name /\ jobs[n].name \in inputs
      BY <1>1, <1>8, <1>9, <2>1 DEF WorkInv, InputsKept
    <3>2. jobs[n].name.input.uid = mc.uid => jobs[n].name \in RetainedInputs(th)
      BY <1>3, <3>1 DEF RetainedInputs, InputOf
    <3>3. QED  BY <3>1, <3>2 DEF CleanupHistory
  <2>2. QED  BY <1>7, <2>1 DEF InputsKept
<1>12. WorkInv'
  BY <1>3, <1>6, <1>8, <1>10, <1>11, JobsDeleted
<1>13. QED  BY <1>7, <1>9, <1>12

LEMMA SeeJobsInv ==
  ASSUME Inv, NEW t \in Threads, SeeJobs(t)
  PROVE  Inv'
<1> DEFINE th == task[t]
           open == {n \in Mine : ~Finished(n)}
           other == {n \in open : jobs[n].name # th.name}
           own == {n \in Mine : jobs[n].name = th.name}
<1>1. WorkInv /\ CallsInv /\ WorldInv /\ TasksOK /\ TypeOK
  BY Parts DEF CallsInv, Inv
<1>2. UNCHANGED <<plan, events, cloud, git, pods, mc>> /\ KeepWorld
  BY DEF SeeJobs, KeepWorld, world
<1>3. /\ WorkInv' /\ Known' = Known
      /\ \A n \in Known : InputOf(n)' = InputOf(n) /\ (Open(n)' => Open(n))
  BY <1>2, CleanupStep DEF SeeJobs
<1>4. /\ th.at = "jobs" /\ \A s \in Threads \ {t} : task[s].at \notin Locked
      /\ th.name # NoName /\ th.name \in Names /\ th.name.input.uid = mc.uid
      /\ th.name \in InputNames
  BY <1>1 DEF SeeJobs, Ready, CallsInv, TaskInv, TasksOK, TaskOK, Locked, Names, InputNames
<1>5. \A n \in Known : jobs[n].name \in Names
  BY <1>1, JobRows DEF WorkInv, Job, Names
<1>6. CallsInv'
  <2>1. CASE \/ \E reason \in Reasons \ {"ProvisioningSucceeded"} : Says(t, reason)
             \/ \E reason \in Reasons \ {"ProvisioningSucceeded"}, name \in Names :
                  Provisioning(t, reason, name)
    <3>1. CallStep(t) /\ task'[t].at = "patch" /\ Answers(task'[t].put)
      BY <1>1, <1>4, <2>1, SaysStep, ProvisioningStep DEF Answers
    <3>2. QED  BY <1>2, <1>4, <3>1, CallMoves
  <2>2. CASE \E n \in own : jobs[n].at = "complete" /\ Puts(t, Receipt(t, n))
    <3>1. PICK n \in Known : jobs[n].at = "complete" /\ Puts(t, Receipt(t, n))
      BY <2>2 DEF Mine
    <3>2. /\ CallStep(t) /\ task'[t].at = "patch" /\ Answers(task'[t].put)
      BY <1>1, <3>1, ReceiptStep DEF Answers, WorkInv
    <3>3. QED  BY <1>2, <1>4, <3>2, CallMoves
  <2>3. CASE other = {} /\ own = {} /\ task' = [task EXCEPT ![t].at = "input"]
    <3>1. \A n \in Mine : Finished(n)
      BY <2>3
    <3>2. \A n \in Known : InputOf(n).uid = mc.uid => ~Open(n)
      BY <3>1 DEF Mine, Finished, Open
    <3>3. /\ DOMAIN task' = Threads /\ \A s \in Threads \ {t} : task'[s] = task[s]
          /\ DOMAIN task'[t] = DOMAIN task[t] /\ task'[t].at = "input" /\ task'[t].name = th.name
          /\ task'[t].gen = th.gen /\ task'[t].spec = th.spec /\ task'[t].status = th.status
          /\ task'[t].put = th.put
      BY <1>1, <2>3 DEF TasksOK, TaskOK
    <3>4. TaskOK(task'[t])
      BY <1>1, <3>3 DEF TasksOK, TaskOK
    <3>5. CallStep(t)
      BY <1>1, <3>3, <3>4 DEF CallStep, TasksOK, TaskOK
    <3>6. \A n \in Known' : InputOf(n)'.uid = mc.uid => ~Open(n)'
      BY <1>3, <3>2
    <3>7. QED  BY <1>2, <1>4, <3>3, <3>5, <3>6, CallMoves DEF Locked
  <2>4. \/ \E reason \in Reasons \ {"ProvisioningSucceeded"} : Says(t, reason)
        \/ \E reason \in Reasons \ {"ProvisioningSucceeded"}, name \in Names :
             Provisioning(t, reason, name)
        \/ \E n \in own : jobs[n].at = "complete" /\ Puts(t, Receipt(t, n))
        \/ other = {} /\ own = {} /\ task' = [task EXCEPT ![t].at = "input"]
    <3>1. CASE Cardinality(open) > 1
      BY <3>1 DEF SeeJobs, Reasons
    <3>2. CASE ~(Cardinality(open) > 1) /\ other # {}
      <4>1. PICK n \in other : \/ Says(t, "InvalidConfiguration")
                               \/ Provisioning(t, "ProvisioningJobRunning", jobs[n].name)
        BY <3>2 DEF SeeJobs
      <4>2. jobs[n].name \in Names
        BY <1>5, <4>1 DEF Mine
      <4>3. QED  BY <4>1, <4>2 DEF Reasons
    <3>3. CASE ~(Cardinality(open) > 1) /\ other = {} /\ own # {}
      <4>1. PICK n \in own :
              CASE jobs[n].at = "complete" -> Puts(t, Receipt(t, n))
                [] jobs[n].at = "failed" ->
                     Provisioning(t, IF jobs[n].conflict THEN "InventoryConflict"
                                     ELSE "ProvisioningJobFailed", th.name)
                [] OTHER -> Provisioning(t, "ProvisioningJobRunning", th.name)
        BY <3>3 DEF SeeJobs
      <4>2. QED  BY <1>4, <4>1 DEF Reasons
    <3>4. CASE ~(Cardinality(open) > 1) /\ other = {} /\ own = {}
      BY <3>4 DEF SeeJobs, Reasons
    <3>5. QED  BY <3>1, <3>2, <3>3, <3>4
  <2>5. QED  BY <2>1, <2>2, <2>3, <2>4
<1>7. TreeGrows
  BY <1>1, <1>2, TreeSame DEF WorkInv
<1>8. QED  BY <1>2, <1>3, <1>6, <1>7, WorldStays

LEMMA CreateInputInv ==
  ASSUME Inv, NEW t \in Threads, CreateInput(t)
  PROVE  Inv'
<1> DEFINE th == task[t]
<1>1. WorkInv /\ CallsInv /\ WorldInv /\ TasksOK
  BY Parts DEF CallsInv
<1>2. UNCHANGED <<plan, events, cloud, git, jobs, pods, mc>> /\ KeepWorld
  BY DEF CreateInput, KeepWorld, world
<1>3. /\ th.at = "input" /\ \A s \in Threads \ {t} : task[s].at \notin Locked
      /\ th.name # NoName /\ th.name \in Names /\ th.name.input.uid = mc.uid
      /\ \A n \in Known : InputOf(n).uid = mc.uid => ~Open(n)
  BY <1>1 DEF CreateInput, Ready, CallsInv, TaskInv, TasksOK, TaskOK, Locked
<1>4. inputs' = inputs \cup {th.name}
  BY DEF CreateInput
<1>5. WorkInv'
  <2>1. /\ inputs \subseteq inputs' /\ inputs' \subseteq Names \ {NoName}
        /\ events' \in 0..MaxEvents /\ mc' \in Object /\ ObjectGrows
    BY <1>1, <1>2, <1>3, <1>4 DEF WorkInv, WorkTypeOK, WorldInv, WorldTypeOK, ObjectGrows, Object
  <2>2. QED  BY <1>2, <2>1, InputsGrow
<1>6. CallsInv'
  <2>1. task' = [task EXCEPT ![t].at = "job"]
    BY DEF CreateInput
  <2>2. /\ DOMAIN task' = Threads /\ \A s \in Threads \ {t} : task'[s] = task[s]
        /\ DOMAIN task'[t] = DOMAIN task[t] /\ task'[t].at = "job" /\ task'[t].name = th.name
        /\ task'[t].gen = th.gen /\ task'[t].spec = th.spec /\ task'[t].status = th.status
        /\ task'[t].put = th.put
    BY <1>1, <2>1 DEF TasksOK, TaskOK
  <2>3. TaskOK(task'[t])
    BY <1>1, <2>2 DEF TasksOK, TaskOK
  <2>4. CallStep(t)
    BY <1>1, <2>2, <2>3 DEF CallStep, TasksOK, TaskOK
  <2>5. \A n \in Known' : InputOf(n)'.uid = mc.uid => ~Open(n)'
    BY <1>2, <1>3 DEF Known, InputOf, Open
  <2>6. QED  BY <1>2, <1>3, <1>4, <2>2, <2>4, <2>5, CallMoves DEF Locked
<1>7. TreeGrows
  BY <1>1, <1>2, TreeSame DEF WorkInv
<1>8. QED  BY <1>2, <1>5, <1>6, <1>7, WorldStays

LEMMA CreateJobInv ==
  ASSUME Inv, NEW t \in Threads, CreateJob(t)
  PROVE  Inv'
<1> DEFINE th == task[t]
           j == NewJob(th.name)
<1>1. WorkInv /\ CallsInv /\ WorldInv /\ TasksOK
  BY Parts DEF CallsInv
<1>2. UNCHANGED <<plan, events, cloud, git, inputs, pods, mc>> /\ KeepWorld
  BY DEF CreateJob, KeepWorld, world
<1>3. /\ th.at = "job" /\ \A s \in Threads \ {t} : task[s].at \notin Locked
      /\ th.name # NoName /\ th.name \in InputNames /\ th.name.input.uid = mc.uid
      /\ th.name \in inputs /\ mc.at # "absent"
      /\ \A n \in Known : InputOf(n).uid = mc.uid => ~Open(n)
  BY <1>1 DEF CreateJob, Ready, CallsInv, TaskInv, TasksOK, TaskOK, Locked, Names, InputNames
<1>4. /\ j \in Job /\ j.name = th.name /\ j.at = "waiting" /\ j.failures = 0
  BY <1>3, ManagedWorkerAssumption DEF NewJob, Job, JobStates, InputNames
<1>5. jobs' = Append(jobs, j) /\ Len(jobs) < MaxJobs
  BY DEF CreateJob
<1> HIDE DEF j
<1>0. PICK k : k = Len(jobs) + 1
  OBVIOUS
<1>6. /\ jobs' \in Seq(Job) /\ Len(jobs') = k /\ Known' = 1..k /\ jobs'[k] = j
      /\ \A n \in Known : jobs'[n] = jobs[n]
  BY <1>0, <1>1, <1>4, <1>5, JobsAppended DEF WorkInv
<1>7. /\ Len(jobs) \in Nat /\ Known = 1..Len(jobs) /\ Known \subseteq Numbers
      /\ \A n \in Known : jobs[n] \in Job
  BY <1>1, JobRows DEF WorkInv
<1>8. /\ Known' = Known \cup {k} /\ k \in Numbers /\ k \notin Known
      /\ \A n \in Known' : n = k \/ n \in Known
  BY <1>0, <1>5, <1>6, <1>7, ManagedCloudAssumption DEF Numbers
<1>9. ~Active(k)
  BY <1>1, <1>8 DEF WorkInv, JobsInv
<1>10. /\ \A n \in Known : /\ InputOf(n)' = InputOf(n) /\ Open(n)' = Open(n)
                           /\ Occupied(n)' = Occupied(n)
       /\ \A n \in Numbers : Active(n)' = Active(n)
       /\ InputOf(k)' = th.name.input
  BY <1>2, <1>4, <1>6 DEF InputOf, Open, Occupied, Active
<1>11. WorkTypeOK' /\ (inputs \subseteq Names \ {NoName})' /\ TreeGrows
  <2>1. Len(jobs') <= MaxJobs
    BY <1>0, <1>5, <1>6, <1>7, ManagedCloudAssumption
  <2>2. UNCHANGED <<head, tree>> /\ WorkTypeOK
    BY <1>1, <1>2 DEF git, WorkInv
  <2>3. WorkTypeOK'
    BY <1>2, <1>6, <2>1, <2>2 DEF WorkTypeOK, CloudTypeOK
  <2>4. QED  BY <1>1, <1>2, <2>2, <2>3, TreeSame DEF WorkInv
<1>12. JobsInv'
  <2>1. \A n \in Known' : InputOf(n)'.uid <= mc'.uid
    BY <1>1, <1>2, <1>3, <1>8, <1>10 DEF WorkInv, JobsInv, WorldInv, WorldTypeOK, Object
  <2>2. \A n \in Known' : Occupied(n)' => jobs'[n].failures <= BackoffLimit
    BY <1>1, <1>4, <1>6, <1>8, <1>10, ManagedWorkerAssumption DEF WorkInv, JobsInv
  <2>3. \A n \in Known : Orphaned(jobs[n].name) => Orphaned(jobs[n].name)'
    BY <1>2, <1>6 DEF Orphaned
  <2>4. \A n \in Known' : jobs'[n].at = "deleted" /\ Active(n) => Orphaned(jobs[n].name)'
    BY <1>1, <1>6, <1>8, <1>9, <2>3 DEF WorkInv, JobsInv
  <2>5. \A n \in Known' : jobs'[n].at \in {"running", "expired"} => Active(n)
    BY <1>1, <1>4, <1>6, <1>8 DEF WorkInv, JobsInv
  <2>6. \A n \in Numbers : Active(n) => n \in Known' /\ jobs'[n].at \in {"running", "expired", "deleted"}
    BY <1>1, <1>6, <1>8 DEF WorkInv, JobsInv
  <2>7. QED  BY <1>7, <1>8, <1>10, <2>1, <2>2, <2>4, <2>5, <2>6 DEF JobsInv
<1>13. OneOccupant'
  <2>1. ASSUME NEW m \in Known, InputOf(m).uid = mc.uid
        PROVE  ~Occupied(m)
    <3>1. ~Open(m)
      BY <1>3, <2>1
    <3>2. InputOf(m).uid \in Nat
      BY <1>1, JobRows DEF WorkInv, Input
    <3>3. ~Active(m)
      BY <1>1, <1>3, <1>7, <2>1, <3>1, <3>2 DEF WorkInv, JobsInv, Open, Orphaned, InputOf
    <3>4. QED  BY <3>1, <3>3 DEF Occupied
  <2>2. QED  BY <1>1, <1>3, <1>8, <1>10, <2>1 DEF WorkInv, OneOccupant
<1>14. InputsKept'
  BY <1>1, <1>2, <1>3, <1>4, <1>6, <1>8, <1>10 DEF WorkInv, InputsKept
<1>15. PublishInv'
  <2>1. ASSUME NEW m \in Numbers
        PROVE  Informed(m)'
    <3>1. Active(m) => m \in Known /\ jobs'[m].name = jobs[m].name
      BY <1>1, <1>6 DEF WorkInv, JobsInv
    <3>2. QED  BY <1>2, <1>11, <3>1, OthersInformed
  <2>2. QED  BY <2>1 DEF PublishInv
<1>16. CloudInv'
  <2>1. ASSUME NEW m \in Numbers, Active(m)
        PROVE  Provided(m)'
    <3>1. m \in Known /\ jobs'[m].name = jobs[m].name
      BY <1>1, <1>6, <2>1 DEF WorkInv, JobsInv
    <3>2. QED  BY <1>2, <2>1, <3>1, OthersProvided DEF Counted
  <2>2. QED  BY <1>10, <2>1 DEF CloudInv
<1>17. ASSUME NEW n \in Known', jobs'[n].at = "complete"
       PROVE  Holds(jobs[n].commit, InputOf(n))'
  <2>1. n \in Known /\ jobs'[n] = jobs[n]
    BY <1>4, <1>6, <1>8, <1>17
  <2>2. QED  BY <1>1, <1>2, <1>10, <1>17, <2>1 DEF WorkInv, Holds, git
<1>18. WorkInv'
  BY <1>11, <1>12, <1>13, <1>14, <1>15, <1>16, <1>17 DEF WorkInv
<1>19. CallsInv'
  <2>1. "ProvisioningJobCreated" \in Reasons /\ th.name \in Names
    BY <1>3 DEF Reasons, Names, InputNames
  <2>2. CallStep(t) /\ task'[t].at = "patch" /\ Answers(task'[t].put)
    BY <1>1, <1>3, <2>1, ProvisioningStep DEF Answers, CreateJob
  <2>3. QED  BY <1>2, <1>3, <2>2, CallMoves
<1>20. QED  BY <1>2, <1>11, <1>18, <1>19, WorldStays

\* A call is over, the others are where they were.
LEMMA CallEnds ==
  ASSUME Inv, NEW t \in Threads, task' = [task EXCEPT ![t] = NoTask],
         mc'.at = mc.at, mc'.uid = mc.uid, UNCHANGED <<jobs, inputs, head, tree>>
  PROVE  CallsInv'
<1>1. CallsInv
  BY Parts
<1>2. DOMAIN task' = Threads /\ task'[t] = NoTask /\ \A s \in Threads \ {t} : task'[s] = task[s]
  BY <1>1 DEF CallsInv, TasksOK
<1>3. TasksOK'
  BY <1>1, <1>2, NoTaskType DEF CallsInv, TasksOK, TaskOK
<1>4. Known' = Known /\ \A n \in Known : InputOf(n)' = InputOf(n) /\ Open(n)' = Open(n)
  BY DEF Known, InputOf, Open
<1>5. TaskInv'
  BY <1>1, <1>2, <1>4, NoTaskType DEF CallsInv, TaskInv, Locked
<1>6. \A s \in Threads : task'[s].at = "patch" => Answers(task[s].put)'
  BY <1>1, <1>2, NoTaskType DEF CallsInv, Answers, Holds
<1>7. QED  BY <1>3, <1>5, <1>6 DEF CallsInv

LEMMA FailsInv ==
  ASSUME Inv, NEW t \in Threads, Fails(t)
  PROVE  Inv'
<1>1. WorkInv /\ CallsInv /\ WorldInv /\ TasksOK
  BY Parts DEF CallsInv
<1>2. UNCHANGED <<plan, work, mc, head, tree, jobs, inputs>> /\ KeepWorld /\ UNCHANGED git
  BY DEF Fails, KeepWorld, world, work, git
<1>3. WorkInv'
  <2>1. events' \in 0..MaxEvents
    BY <1>1, EventType DEF Fails, WorkInv
  <2>2. mc' \in Object /\ ObjectGrows
    BY <1>1, <1>2 DEF WorldInv, WorldTypeOK, ObjectGrows, Object
  <2>3. QED  BY <1>2, <2>1, <2>2, WorkStays
<1>4. CallsInv'
  <2>1. CASE task' = [task EXCEPT ![t] = NoTask]
    BY <1>2, <2>1, CallEnds
  <2>2. CASE Puts(t, Merged([reason |-> "ReconciliationError"], Repeats(task[t].status)))
    <3>1. "ReconciliationError" \in Reasons
      BY DEF Reasons
    <3>2. CallStep(t) /\ task'[t].at = "patch" /\ Answers(task'[t].put)
      BY <1>1, <2>2, <3>1, RepeatsStep DEF Answers
    <3>3. task[t].at # "idle"
      BY DEF Fails
    <3>4. QED  BY <1>2, <3>2, <3>3, CallMoves
  <2>3. QED  BY <2>1, <2>2 DEF Fails
<1>5. TreeGrows
  BY <1>1, <1>2, TreeSame DEF WorkInv
<1>6. QED  BY <1>2, <1>3, <1>4, <1>5, WorldStays

LEMMA PatchStatusInv ==
  ASSUME Inv, NEW t \in Threads, PatchStatus(t)
  PROVE  Inv'
<1> DEFINE put == task[t].put
           status == Merged(put, mc.status)
<1>1. WorkInv /\ CallsInv /\ WorldInv /\ TasksOK
  BY Parts DEF CallsInv
<1>2. UNCHANGED <<plan, events, work, profile, project, present, bucket, head, tree, jobs, inputs>>
  BY DEF PatchStatus, work, git
<1>3. /\ mc \in Object /\ mc.status \in Status /\ task[t].gen \in 0..MaxGens
      /\ Merged(put, NoStatus) \in Status /\ Answers(put)
  BY <1>1 DEF WorldInv, WorldTypeOK, Object, CallsInv, TasksOK, TaskOK, PatchStatus, Ready
<1>4. /\ status \in Status
      /\ \A k \in StatusKeys : status[k] = IF k \in DOMAIN put THEN put[k] ELSE mc.status[k]
  BY <1>3, MergedStatus
<1>5. /\ status.reason = put.reason
      /\ put.reason = "ProvisioningSucceeded" =>
           /\ status.commit = put.commit /\ status.pub = put.pub /\ status.hash = put.hash
  BY <1>3, <1>4 DEF Answers, StatusKeys
<1>6. PICK g \in 0..MaxGens, b \in BOOLEAN :
        mc' = [mc EXCEPT !.status = status, !.handled = g, !.resumed = b]
  <2>1. mc.handled \in 0..MaxGens /\ (mc.resumed \/ t = "change") \in BOOLEAN
    BY <1>3 DEF Object
  <2>2. QED  BY <1>3, <2>1 DEF PatchStatus
<1> HIDE DEF status
<1>7. /\ mc' \in Object /\ mc'.at = mc.at /\ mc'.uid = mc.uid /\ mc'.gen = mc.gen /\ mc'.spec = mc.spec
      /\ mc'.status = status
  BY <1>3, <1>4, <1>6 DEF Object
<1>8. WorkInv'
  <2>1. events' \in 0..MaxEvents /\ ObjectGrows
    BY <1>1, <1>2, <1>3, <1>7 DEF WorkInv, WorkTypeOK, ObjectGrows, Object
  <2>2. QED  BY <1>2, <1>7, <2>1, WorkStays
<1>9. CallsInv'
  BY <1>2, <1>7, CallEnds DEF PatchStatus
<1>10. ReceiptTrue'
  <2>1. ASSUME status.reason = "ProvisioningSucceeded"
        PROVE  Holds(status.commit, status.pub) /\ status.hash = InputHash(status.pub)
    BY <1>3, <1>5, <2>1 DEF Answers
  <2>2. QED  BY <1>2, <1>7, <2>1 DEF ReceiptTrue, Holds
<1>11. WorldInv'
  BY <1>1, <1>2, <1>7, <1>10 DEF WorldInv, WorldTypeOK, ObjectInv
<1>12. QED  BY <1>8, <1>9, <1>11, PartsNext

-----------------------------------------------------------------------------
(* The world outside.                                                      *)

\* The calls are where they were, and so is the object while there is one.
LEMMA CallsStay ==
  ASSUME Inv, UNCHANGED <<task, jobs, inputs>>, WorkTypeOK', TreeGrows,
         Busy = {} \/ (mc'.at # "absent" /\ mc'.uid = mc.uid)
  PROVE  CallsInv'
<1>1. CallsInv /\ WorkTypeOK
  BY Parts DEF WorkInv
<1>2. TasksOK'
  BY <1>1 DEF CallsInv, TasksOK, TaskOK
<1>3. Known' = Known /\ \A n \in Known : InputOf(n)' = InputOf(n) /\ Open(n)' = Open(n)
  BY DEF Known, InputOf, Open
<1>4. TaskInv'
  <2>1. CASE Busy = {}
    BY <1>1, <2>1 DEF CallsInv, TaskInv, Busy, Locked
  <2>2. CASE mc'.at # "absent" /\ mc'.uid = mc.uid
    BY <1>1, <1>3, <2>2 DEF CallsInv, TaskInv
  <2>3. QED  BY <2>1, <2>2
<1>5. ASSUME NEW t \in Threads, task[t].at = "patch"
      PROVE  Answers(task[t].put)'
  <2>1. Answers(task[t].put)
    BY <1>1, <1>5 DEF CallsInv
  <2>2. task[t].put.reason = "ProvisioningSucceeded" =>
          WillHold(task[t].put.commit, task[t].put.pub)
    BY <1>1, <2>1, HoldsStays DEF Answers
  <2>3. QED  BY <2>1, <2>2 DEF Answers, WillHold, Holds
<1>6. QED  BY <1>1, <1>2, <1>4, <1>5 DEF CallsInv

\* The branch grows, and what is disturbed changes.
LEMMA WorkAround ==
  ASSUME Inv, UNCHANGED <<plan, jobs, inputs, pods, mc>>, WorkTypeOK', TreeGrows,
         \A q \in Resources \ plan.disturbed : \A x \in cloud[q] :
           \E y \in cloud'[q] : y.owner = x.owner /\ y.maker = x.maker
  PROVE  WorkInv'
<1>1. WorkInv
  BY Parts
<1>2. Known' = Known /\ \A n \in Known : InputOf(n)' = InputOf(n)
  BY DEF Known, InputOf
<1>3. JobsInv' /\ OneOccupant' /\ InputsKept'
  BY <1>1, <1>2
    DEF WorkInv, JobsInv, OneOccupant, InputsKept, Occupied, Open, Active, Orphaned
<1>4. ASSUME NEW m \in Numbers
      PROVE  Informed(m)' /\ (Active(m) => Provided(m)')
  <2>1. Active(m) => m \in Known /\ jobs'[m].name = jobs[m].name
    BY <1>1 DEF WorkInv, JobsInv
  <2>2. Informed(m)'
    BY <2>1, OthersInformed
  <2>3. Active(m) => Provided(m)'
    BY <2>1, OthersProvided
  <2>4. QED  BY <2>2, <2>3
<1>5. PublishInv' /\ CloudInv'
  BY <1>4 DEF PublishInv, CloudInv, Active
<1>6. ASSUME NEW n \in Known, jobs[n].at = "complete"
      PROVE  Holds(jobs[n].commit, InputOf(n))'
  <2>1. WillHold(jobs[n].commit, InputOf(n))
    BY <1>1, <1>6, HoldsStays DEF WorkInv
  <2>2. QED  BY <1>2, <2>1 DEF WillHold, Holds
<1>7. QED  BY <1>1, <1>2, <1>3, <1>5, <1>6 DEF WorkInv

LEMMA AroundInv ==
  ASSUME Inv, UNCHANGED <<plan, jobs, inputs, pods, task>>, KeepWorld, WorkTypeOK', TreeGrows,
         \A q \in Resources \ plan.disturbed : \A x \in cloud[q] :
           \E y \in cloud'[q] : y.owner = x.owner /\ y.maker = x.maker
  PROVE  Inv'
<1>1. mc' = mc
  BY DEF KeepWorld, world
<1>2. WorkInv'
  BY <1>1, WorkAround
<1>3. Busy = {} \/ (mc'.at # "absent" /\ mc'.uid = mc.uid)
  BY <1>1, Parts DEF CallsInv, TaskInv, Busy
<1>4. CallsInv'
  BY <1>3, CallsStay
<1>5. QED  BY <1>2, <1>4, WorldStays

\* Those who push something else push what a tree may be.
LEMMA OutsideType ==
  ASSUME NEW t \in Tree
  PROVE  /\ \A s \in Declaration \cup {NoSpec} : [Outside(t) EXCEPT !.source = s] \in Tree
         /\ \A d \in Policies \X Policies :
              [Outside(t) EXCEPT !.policy = [owner |-> Manual, document |-> d]] \in Tree
         /\ \A s : [Outside(t) EXCEPT !.source = s].by = Invalid
         /\ \A p : [Outside(t) EXCEPT !.policy = p].by = Invalid
<1>1. \A d \in Policies \X Policies : [owner |-> Manual, document |-> d] \in Policy
  BY DEF Policy
<1>2. QED  BY <1>1 DEF Tree, Outside

LEMMA OutsideStep ==
  ASSUME Inv, Declare \/ WritePolicy, plan' = plan
  PROVE  /\ WorkTypeOK' /\ TreeGrows /\ UNCHANGED <<cloud, jobs, inputs, pods>>
         /\ tree'[head'].by = Invalid
<1>1. WorkTypeOK /\ tree[head] \in Tree /\ UNCHANGED <<cloud, jobs, inputs, pods>>
  BY DEF Inv, TypeOK, WorkTypeOK, Declare, WritePolicy
<1>2. PICK t \in Tree : Commit(t) /\ t.by = Invalid
  <2>1. CASE Declare
    <3>1. PICK s \in plan.specs \cup {NoSpec} : Commit([Outside(tree[head]) EXCEPT !.source = s])
      BY <2>1 DEF Declare
    <3>2. s \in Declaration \cup {NoSpec}
      BY <1>1, <3>1, ManagedWorkerAssumption DEF WorkTypeOK
    <3>3. QED  BY <1>1, <3>1, <3>2, OutsideType
  <2>2. CASE WritePolicy
    <3>1. PICK d \in plan.manual :
            Commit([Outside(tree[head]) EXCEPT !.policy = [owner |-> Manual, document |-> d]])
      BY <2>2 DEF WritePolicy
    <3>2. d \in Policies \X Policies
      BY <1>1, <3>1, ManagedWorkerAssumption DEF WorkTypeOK
    <3>3. QED  BY <1>1, <3>1, <3>2, OutsideType
  <2>3. QED  BY <2>1, <2>2
<1>3. /\ TreeGrows /\ head' \in 1..MaxCommits /\ tree' \in [1..MaxCommits -> Tree]
      /\ tree'[head'] = t
  BY <1>1, <1>2, TreeCommit DEF Commit
<1>4. events' \in 0..MaxEvents
  BY <1>1, EventType DEF Declare, WritePolicy
<1>5. WorkTypeOK'
  BY <1>1, <1>3, <1>4 DEF WorkTypeOK, CloudTypeOK
<1>6. QED  BY <1>1, <1>2, <1>3, <1>5

\* What somebody disturbs keeps its owner, or is gone.
LEMMA DisturbStep ==
  ASSUME Inv, Disturb, plan' = plan
  PROVE  /\ WorkTypeOK' /\ TreeGrows /\ UNCHANGED <<jobs, inputs, pods>>
         /\ \A q \in Resources \ plan.disturbed : \A x \in cloud[q] :
              \E y \in cloud'[q] : y.owner = x.owner /\ y.maker = x.maker
<1>1. WorkTypeOK /\ cloud \in [Resources -> SUBSET Row] /\ UNCHANGED <<git, jobs, inputs, pods>>
  BY DEF Inv, TypeOK, WorkTypeOK, CloudTypeOK, Disturb
<1>2. PICK r \in plan.disturbed : \E x \in cloud[r] :
       \/ cloud' = With(r, {x}, LAMBDA y : [y EXCEPT !.state = IF r = "router" THEN "bare" ELSE "altered"])
       \/ /\ r \in {"server", "fip", "keypair"}
          /\ cloud' = [cloud EXCEPT ![r] = @ \ {x},
               !["volume"] = IF r = "server" THEN {[v EXCEPT !.state = "bare"] : v \in @} ELSE @]
  BY DEF Disturb
<1>0. PICK x \in cloud[r] :
       \/ cloud' = With(r, {x}, LAMBDA y : [y EXCEPT !.state = IF r = "router" THEN "bare" ELSE "altered"])
       \/ /\ r \in {"server", "fip", "keypair"}
          /\ cloud' = [cloud EXCEPT ![r] = @ \ {x},
               !["volume"] = IF r = "server" THEN {[v EXCEPT !.state = "bare"] : v \in @} ELSE @]
  BY <1>2
<1>3. /\ cloud' \in [Resources -> SUBSET Row]
      /\ \A q \in Resources \ plan.disturbed : \A z \in cloud[q] :
           \E y \in cloud'[q] : y.owner = z.owner /\ y.maker = z.maker
  <2>1. CASE cloud' = With(r, {x}, LAMBDA y : [y EXCEPT !.state = IF r = "router" THEN "bare" ELSE "altered"])
    <3> DEFINE new == {[y EXCEPT !.state = IF r = "router" THEN "bare" ELSE "altered"] : y \in {x}}
    <3>1. cloud' = [cloud EXCEPT ![r] = (@ \ {x}) \cup new]
      BY <2>1 DEF With
    <3>2. r \in Resources => new \subseteq Row
      BY <1>1 DEF Row
    <3> HIDE DEF new
    <3>3. QED  BY <1>1, <3>1, <3>2
  <2>2. CASE /\ r \in {"server", "fip", "keypair"}
             /\ cloud' = [cloud EXCEPT ![r] = @ \ {x},
                  !["volume"] = IF r = "server" THEN {[v EXCEPT !.state = "bare"] : v \in @} ELSE @]
    <3> DEFINE new == IF r = "server" THEN {[v EXCEPT !.state = "bare"] : v \in cloud["volume"]}
                      ELSE cloud["volume"]
    <3>1. /\ r \in Resources /\ "volume" \in Resources /\ r # "volume"
      BY <2>2 DEF Resources, Named
    <3>2. cloud["volume"] \subseteq Row
      BY <1>1, <3>1
    <3>3. /\ new \subseteq Row
          /\ \A z \in cloud["volume"] : \E y \in new : y.owner = z.owner /\ y.maker = z.maker
      <4>1. \A z \in cloud["volume"] : /\ [z EXCEPT !.state = "bare"] \in Row
                                       /\ [z EXCEPT !.state = "bare"].owner = z.owner
                                       /\ [z EXCEPT !.state = "bare"].maker = z.maker
        BY <3>2 DEF Row
      <4>2. QED  BY <3>2, <4>1
    <3>4. cloud' = [cloud EXCEPT ![r] = @ \ {x}, !["volume"] = new]
      BY <1>1, <2>2, <3>1
    <3> HIDE DEF new
    <3>5. QED  BY <1>1, <3>1, <3>3, <3>4
  <2>3. QED  BY <1>0, <2>1, <2>2
<1>4. events' \in 0..MaxEvents
  BY <1>1, EventType DEF Disturb
<1>5. TreeGrows /\ UNCHANGED <<head, tree>>
  BY <1>1, TreeSame DEF git
<1>6. WorkTypeOK'
  BY <1>1, <1>3, <1>4, <1>5 DEF WorkTypeOK, CloudTypeOK
<1>7. QED  BY <1>1, <1>3, <1>5, <1>6

LEMMA OutsidersInv ==
  ASSUME Inv, Outsiders, KeepWorld, UNCHANGED <<plan, task>>
  PROVE  Inv'
<1>1. CASE Declare \/ WritePolicy
  BY <1>1, OutsideStep, AroundInv
<1>2. CASE Disturb
  BY <1>2, DisturbStep, AroundInv
<1>3. QED  BY <1>1, <1>2 DEF Outsiders

\* The object, its profile, the project and what a Job needs change; no work does.
LEMMA WorldMoves ==
  ASSUME Inv, UNCHANGED <<plan, work, task>>, events' \in 0..MaxEvents, WorldTypeOK',
         ObjectGrows, Busy = {} \/ (mc'.at # "absent" /\ mc'.uid = mc.uid), ObjectInv',
         mc'.status = mc.status \/ mc'.status = NoStatus
  PROVE  Inv'
<1>1. WorkInv /\ CallsInv /\ WorldInv
  BY Parts
<1>2. UNCHANGED <<jobs, inputs, git, head, tree>>
  BY DEF work, git
<1>3. WorkInv'
  BY WorkStays DEF WorldTypeOK
<1>4. TreeGrows
  BY <1>1, <1>2, TreeSame DEF WorkInv
<1>5. CallsInv'
  BY <1>2, <1>3, <1>4, CallsStay DEF WorkInv
<1>6. ReceiptTrue'
  <2>1. CASE mc'.status = mc.status
    BY <1>1, <1>2, <2>1 DEF WorldInv, ReceiptTrue
  <2>2. CASE mc'.status = NoStatus
    <3>1. NoStatus.reason # "ProvisioningSucceeded"
      BY DEF NoStatus
    <3>2. mc'.status.reason # "ProvisioningSucceeded"
      BY <2>2, <3>1
    <3>3. QED  BY <3>2 DEF ReceiptTrue
  <2>3. QED  BY <2>1, <2>2
<1>7. QED  BY <1>3, <1>5, <1>6, PartsNext DEF WorldInv

LEMMA UsersInv ==
  ASSUME Inv, EditProfile \/ ChangeProject \/ ChangePrerequisites \/ Tick
  PROVE  Inv'
<1>1. WorkInv /\ CallsInv /\ WorldInv /\ WorldTypeOK /\ WorkTypeOK
  BY Parts DEF WorldInv, WorkInv
<1>2. UNCHANGED <<plan, work, task, mc>>
  BY DEF EditProfile, ChangeProject, ChangePrerequisites, Tick
<1>3. events' \in 0..MaxEvents
  <2>1. CASE Tick
    BY <1>1, <2>1 DEF Tick, WorkTypeOK
  <2>2. CASE EditProfile \/ ChangeProject \/ ChangePrerequisites
    BY <1>1, <2>2, EventType DEF EditProfile, ChangeProject, ChangePrerequisites
  <2>3. QED  BY <2>1, <2>2
<1>4. WorldTypeOK'
  <2>1. CASE EditProfile
    <3>1. PICK p \in plan.profiles : profile' = ProfileOf(p, profile.gen + 1)
      BY <2>1 DEF EditProfile
    <3>2. p \in [infra : Infras, ansible : Policies]
      BY <1>1, <3>1, ManagedWorkerAssumption DEF WorkTypeOK
    <3>3. profile.gen + 1 \in 1..MaxGens
      BY <1>1, <2>1, ManagedInputAssumption DEF WorldTypeOK, Profile, EditProfile
    <3>4. profile' \in Profile
      BY <3>1, <3>2, <3>3 DEF ProfileOf, Profile
    <3>5. UNCHANGED <<mc, project, present, bucket>>
      BY <2>1 DEF EditProfile
    <3>6. QED  BY <1>1, <3>4, <3>5 DEF WorldTypeOK
  <2>2. CASE ChangeProject
    BY <1>1, <2>2 DEF ChangeProject, WorldTypeOK
  <2>3. CASE ChangePrerequisites
    BY <1>1, <2>3 DEF ChangePrerequisites, WorldTypeOK
  <2>4. CASE Tick
    <3>1. plan.buckets \in 0..MaxBuckets
      BY <1>1, ManagedWorkerAssumption DEF WorkTypeOK
    <3>2. bucket + 1 \in 0..MaxBuckets
      BY <1>1, <2>4, <3>1, ManagedInputAssumption DEF WorldTypeOK, Tick
    <3>3. QED  BY <1>1, <2>4, <3>2 DEF Tick, WorldTypeOK
  <2>5. QED  BY <2>1, <2>2, <2>3, <2>4
<1>5. ObjectGrows /\ ObjectInv' /\ mc'.status = mc.status
  BY <1>1, <1>2 DEF WorldInv, WorldTypeOK, ObjectGrows, ObjectInv, Object
<1>6. Busy = {} \/ (mc'.at # "absent" /\ mc'.uid = mc.uid)
  BY <1>1, <1>2 DEF CallsInv, TaskInv, Busy
<1>7. QED  BY <1>2, <1>3, <1>4, <1>5, <1>6, WorldMoves

LEMMA SyncInv ==
  ASSUME Inv, Sync
  PROVE  Inv'
<1> DEFINE source == tree[head].source
<1>1. WorkInv /\ CallsInv /\ WorldInv /\ WorldTypeOK /\ WorkTypeOK /\ mc \in Object
  BY Parts DEF WorldInv, WorkInv, WorldTypeOK
<1>2. UNCHANGED <<plan, events, work, task, profile, project, present, bucket>>
  BY DEF Sync
<1>3. source \in Declaration \cup {NoSpec}
  BY <1>1 DEF WorkTypeOK, Tree
<1> HIDE DEF source
<1>4. Apply(source) \/ Update(source) \/ Delete(source)
  BY DEF Sync, source
<1>5. /\ mc' \in Object /\ ObjectGrows /\ ObjectInv'
      /\ mc'.status = mc.status \/ mc'.status = NoStatus
      /\ mc.at = "absent" \/ (mc'.at # "absent" /\ mc'.uid = mc.uid)
  <2>1. CASE Apply(source)
    <3>1. source \in Declaration /\ mc.uid + 1 \in 1..MaxUids /\ mc.uid \in Nat
      BY <1>1, <1>3, <2>1, ManagedInputAssumption DEF Apply, Object
    <3>2. 1 \in 0..MaxGens /\ 0 \in 0..MaxGens
      BY ManagedInputAssumption
    <3>3. QED  BY <2>1, <3>1, <3>2, NoStatusType DEF Apply, Object, ObjectGrows, ObjectInv
  <2>2. CASE Update(source)
    <3>1. source \in Declaration /\ mc.gen + 1 \in 0..MaxGens /\ mc.gen + 1 >= 1
      BY <1>1, <1>3, <2>2, ManagedInputAssumption DEF Update, Object
    <3>2. mc' = [mc EXCEPT !.gen = @ + 1, !.spec = source] /\ mc.at = "live"
      BY <2>2 DEF Update
    <3>3. /\ mc'.at = mc.at /\ mc'.uid = mc.uid /\ mc'.gen = mc.gen + 1 /\ mc'.spec = source
          /\ mc'.status = mc.status
      BY <1>1, <3>2 DEF Object
    <3>4. mc' \in Object
      BY <1>1, <3>1, <3>2 DEF Object
    <3>5. ObjectGrows /\ ObjectInv'
      BY <1>1, <3>1, <3>2, <3>3 DEF Object, ObjectGrows, ObjectInv, WorldInv
    <3>6. QED  BY <3>2, <3>3, <3>4, <3>5
  <2>3. CASE Delete(source)
    BY <1>1, <2>3 DEF Delete, Object, ObjectGrows, ObjectInv, WorldInv
  <2>4. QED  BY <1>4, <2>1, <2>2, <2>3
<1>6. Busy = {} \/ (mc'.at # "absent" /\ mc'.uid = mc.uid)
  BY <1>1, <1>5 DEF CallsInv, TaskInv, Busy
<1>7. WorldTypeOK' /\ events' \in 0..MaxEvents
  BY <1>1, <1>2, <1>5 DEF WorldTypeOK, WorkTypeOK
<1>8. QED  BY <1>2, <1>5, <1>6, <1>7, WorldMoves

LEMMA RemoveObjectInv ==
  ASSUME Inv, RemoveObject
  PROVE  Inv'
<1>1. WorldTypeOK /\ WorkTypeOK /\ mc \in Object
  BY Parts DEF WorldInv, WorkInv, WorldTypeOK
<1>2. UNCHANGED <<plan, events, work, task, profile, project, present, bucket>> /\ Busy = {}
  BY DEF RemoveObject
<1>3. 0 \in 0..MaxGens
  BY ManagedInputAssumption
<1>4. mc' = [mc EXCEPT !.at = "absent", !.spec = NoSpec, !.status = NoStatus, !.gen = 0,
                       !.handled = 0, !.resumed = TRUE] /\ mc.at = "deleting"
  BY DEF RemoveObject
<1>5. mc' \in Object /\ ObjectGrows /\ ObjectInv' /\ mc'.status = NoStatus
  <2>1. mc'.at = "absent" /\ mc'.uid = mc.uid /\ mc'.status = NoStatus
    BY <1>1, <1>4 DEF Object
  <2>2. mc' \in Object
    BY <1>1, <1>3, <1>4, NoStatusType DEF Object
  <2>3. QED  BY <1>1, <1>4, <2>1, <2>2 DEF Object, ObjectGrows, ObjectInv
<1>6. WorldTypeOK' /\ events' \in 0..MaxEvents
  BY <1>1, <1>2, <1>5 DEF WorldTypeOK, WorkTypeOK
<1>7. QED  BY <1>2, <1>5, <1>6, WorldMoves

\* What is collected belonged to nobody that a call is about.
LEMMA CollectOwnedInv ==
  ASSUME Inv, CollectOwned
  PROVE  Inv'
<1>1. WorkInv /\ CallsInv /\ WorldInv /\ WorkTypeOK /\ DOMAIN jobs = Known
      /\ \A n \in Known : jobs[n] \in Job
  BY Parts, JobRows DEF WorkInv
<1>2. UNCHANGED <<plan, events, cloud, git, head, tree, pods, mc, task>> /\ KeepWorld
  BY DEF CollectOwned, KeepWorld, world, git
<1>3. jobs' = [n \in Known |-> IF Orphaned(jobs[n].name) THEN [jobs[n] EXCEPT !.at = "deleted"]
                               ELSE jobs[n]]
  BY DEF CollectOwned
<1>4. inputs' = {i \in inputs : ~Orphaned(i)}
  BY DEF CollectOwned
<1>5. \A n \in Known : [jobs[n] EXCEPT !.at = "deleted"] \in Job
  BY <1>1 DEF Job, JobStates
<1>6. jobs' \in [Known -> Job]
  BY <1>1, <1>3, <1>5
<1>7. Known' = Known
  BY <1>1, <1>6, JobsMapped
<1>8. \A n \in Known :
        /\ jobs'[n].name = jobs[n].name
        /\ \/ jobs'[n] = jobs[n] /\ ~Orphaned(jobs[n].name)
           \/ /\ jobs'[n].at = "deleted" /\ jobs'[n].failures = jobs[n].failures
              /\ Orphaned(jobs[n].name)
  BY <1>1, <1>3 DEF Job
<1>9. \A n \in Known : InputOf(n)' = InputOf(n) /\ (Open(n)' => Open(n))
  BY <1>8 DEF InputOf, Open
<1>10. InputsKept'
  <2>1. ASSUME NEW n \in Known, Open(n)'
        PROVE  jobs'[n].name \in inputs'
    <3>1. Open(n) /\ jobs'[n].name = jobs[n].name /\ ~Orphaned(jobs[n].name)
      BY <1>8, <1>9, <2>1 DEF Open
    <3>2. QED  BY <1>1, <1>4, <2>1, <3>1 DEF WorkInv, InputsKept
  <2>2. QED  BY <1>7, <2>1 DEF InputsKept
<1>11. WorkInv'
  BY <1>2, <1>4, <1>6, <1>8, <1>10, JobsDeleted
<1>12. CallsInv'
  <2>1. TasksOK'
    BY <1>1, <1>2 DEF CallsInv, TasksOK, TaskOK
  <2>2. \A t \in Threads : task[t].at = "job" => task[t].name \in inputs'
    <3>1. mc.uid \in Nat
      BY <1>1 DEF WorldInv, WorldTypeOK, Object
    <3>2. QED  BY <1>1, <1>4, <3>1 DEF CallsInv, TaskInv, Locked, Orphaned
  <2>3. TaskInv'
    BY <1>1, <1>2, <1>7, <1>9, <2>2 DEF CallsInv, TaskInv
  <2>4. \A t \in Threads : task[t].at = "patch" => Answers(task[t].put)'
    BY <1>1, <1>2 DEF CallsInv, Answers, Holds
  <2>5. QED  BY <1>2, <2>1, <2>3, <2>4 DEF CallsInv
<1>13. TreeGrows
  BY <1>1, <1>2, TreeSame
<1>14. QED  BY <1>2, <1>11, <1>12, <1>13, WorldStays

LEMMA CrashInv ==
  ASSUME Inv, Crash
  PROVE  Inv'
<1>1. WorkInv /\ WorldInv /\ WorkTypeOK /\ mc \in Object
  BY Parts DEF WorkInv, WorldInv, WorldTypeOK
<1>2. UNCHANGED <<plan, work, profile, project, present, bucket, jobs, inputs, head, tree>>
  BY DEF Crash, work, git
<1>3. PICK b \in BOOLEAN : mc' = [mc EXCEPT !.resumed = b]
  BY DEF Crash
<1>4. /\ mc' \in Object /\ ObjectGrows /\ mc'.at = mc.at /\ mc'.uid = mc.uid
      /\ mc'.gen = mc.gen /\ mc'.spec = mc.spec /\ mc'.status = mc.status
  BY <1>1, <1>3 DEF Object, ObjectGrows
<1>5. WorkInv'
  BY <1>1, <1>2, <1>4, EventType, WorkStays DEF Crash
<1>6. CallsInv'
  <2>1. DOMAIN task' = Threads /\ \A t \in Threads : task'[t] = NoTask
    BY DEF Crash
  <2>2. QED  BY <2>1, NoTaskType DEF CallsInv, TasksOK, TaskOK, TaskInv, Locked
<1>7. WorldInv'
  BY <1>1, <1>2, <1>4 DEF WorldInv, WorldTypeOK, ObjectInv, ReceiptTrue
<1>8. QED  BY <1>5, <1>6, <1>7, PartsNext

-----------------------------------------------------------------------------
(* The theorems.                                                           *)

LEMMA InitInv == Init => Inv
<1> SUFFICES ASSUME Init
             PROVE  Inv
  OBVIOUS
<1>1. /\ 0 \in 0..MaxGens /\ 0 \in 0..MaxUids /\ 0 \in 0..MaxBuckets /\ 1 \in 1..MaxGens
      /\ 1 \in 1..MaxCommits /\ 0 \in 0..MaxEvents /\ 0 <= MaxJobs
  BY ManagedInputAssumption, ManagedCloudAssumption, ManagedWorkerAssumption
<1>2. Len(<<>>) = 0 /\ <<>> \in Seq(Job)
  BY EmptySeq
<1>3. Known = {} /\ jobs \in Seq(Job) /\ Len(jobs) <= MaxJobs
  BY <1>1, <1>2 DEF Init, Known
<1>4. plan \in Plans /\ plan.first \in Declaration
  BY ManagedWorkerAssumption DEF Init
<1>5. tree \in [1..MaxCommits -> Tree]
  <2>1. NoFile \in Hosts /\ NoFile \in Policy
    BY DEF Hosts, Policy
  <2>2. QED  BY <1>4, <2>1 DEF Init, Tree
<1>6. pods \in [Numbers -> WorkerState] /\ \A n \in Numbers : ~Active(n)
  BY NoWorkerType DEF Init, Active
<1>7. WorkTypeOK
  BY <1>1, <1>3, <1>4, <1>5, <1>6 DEF WorkTypeOK, CloudTypeOK, Init, InitCloud
<1>8. WorkInv
  <2>1. JobsInv /\ OneOccupant /\ InputsKept
    BY <1>3, <1>6 DEF JobsInv, OneOccupant, InputsKept
  <2>2. PublishInv /\ CloudInv
    BY <1>6 DEF PublishInv, Informed, CloudInv, Active
  <2>3. QED  BY <1>3, <1>7, <2>1, <2>2 DEF WorkInv, Init
<1>9. CallsInv
  <2>1. DOMAIN task = Threads /\ \A t \in Threads : task[t] = NoTask
    BY DEF Init
  <2>2. QED  BY <2>1, NoTaskType DEF CallsInv, TasksOK, TaskInv, Locked
<1>10. WorldInv
  <2>1. PICK p \in plan.profiles : profile = ProfileOf(p, 1)
    BY DEF Init
  <2>2. p \in [infra : Infras, ansible : Policies]
    BY <1>4, <2>1, ManagedWorkerAssumption
  <2>3. profile \in Profile
    BY <1>1, <2>1, <2>2 DEF ProfileOf, Profile
  <2>4. mc \in Object /\ ObjectInv /\ ReceiptTrue
    BY <1>1, NoStatusType DEF Init, Object, ObjectInv, ReceiptTrue, NoStatus
  <2>5. QED  BY <1>1, <2>3, <2>4 DEF WorldInv, WorldTypeOK, Init
<1>11. QED  BY <1>8, <1>9, <1>10, Parts

LEMMA StutterInv ==
  ASSUME Inv, UNCHANGED vars
  PROVE  Inv'
<1>1. /\ UNCHANGED <<plan, events, work, task, mc, profile, project, present, bucket>>
      /\ KeepWorld
  BY DEF vars, KeepWorld, world
<1>2. WorkInv /\ CallsInv /\ WorldInv
  BY Parts
<1>3. /\ events' \in 0..MaxEvents /\ WorldTypeOK' /\ ObjectGrows /\ ObjectInv'
      /\ mc'.status = mc.status
      /\ Busy = {} \/ (mc'.at # "absent" /\ mc'.uid = mc.uid)
  BY <1>1, <1>2
    DEF WorkInv, WorkTypeOK, WorldInv, WorldTypeOK, ObjectInv, ObjectGrows, Object, CallsInv,
        TaskInv, Busy
<1>4. QED  BY <1>1, <1>3, WorldMoves

LEMMA NextInv ==
  ASSUME Inv, Next
  PROVE  Inv'
<1>1. CASE OnChange \/ OnTimer
  BY <1>1, CalledInv DEF OnChange, OnTimer, Threads
<1>2. ASSUME NEW t \in Threads, Reconcile(t) \/ Fails(t)
      PROVE  Inv'
  BY <1>2, SurveyInv, SeeJobsInv, CreateInputInv, CreateJobInv, PatchStatusInv, FailsInv
    DEF Reconcile
<1>3. ASSUME NEW n \in Numbers,
             \/ Worker(n)
             \/ (Die(n) \/ Expire(n) \/ GitFails(n)) /\ KeepWorld /\ UNCHANGED <<plan, task>>
      PROVE  Inv'
  BY <1>3, WorkerKeepsInv DEF Worker
<1>4. CASE Users
  BY <1>4, OutsidersInv, UsersInv DEF Users
<1>5. CASE Sync \/ RemoveObject \/ CollectOwned \/ Tick \/ Crash
  BY <1>5, SyncInv, RemoveObjectInv, CollectOwnedInv, UsersInv, CrashInv
<1>6. QED  BY <1>1, <1>2, <1>3, <1>4, <1>5 DEF Next

\* Calls, Jobs, Pods, the branch and the resources keep the invariant together: what a
\* call has found with the lock held stays so until it gives it back, and what a worker
\* has published or provisioned outlives the others' steps (reconcile, worker.main).
THEOREM InvariantHolds == Spec => []Inv
<1>1. Inv /\ [Next]_vars => Inv'
  BY NextInv, StutterInv
<1>2. QED  BY InitInv, <1>1, PTL DEF Spec

\* Every variable has its type; above all the status, that is patched key by key, is
\* one that the CRD knows.
THEOREM TypeCorrect == Spec => []TypeOK
<1>1. Inv => TypeOK
  BY DEF Inv
<1>2. QED  BY InvariantHolds, <1>1, PTL

\* No two Jobs of one ManagedCluster can have a worker, with any number of calls that
\* are cut off, of Pods that fail and of Jobs that are deleted while their Pod ends.
THEOREM OpenJobAlone == Spec => []OneOpenJob
<1>1. Inv => OneOpenJob
  BY DEF Inv, OneOccupant, Occupied, OneOpenJob
<1>2. QED  BY InvariantHolds, <1>1, PTL

\* cleanup_history never removes the input that a Job which may start a Pod mounts.
THEOREM InputsStay == Spec => []InputsKept
<1>1. Inv => InputsKept
  BY DEF Inv
<1>2. QED  BY InvariantHolds, <1>1, PTL

\* A status that reports success names a commit that holds the files of the input it
\* names, whatever was pushed between the worker's clone and the late patch.
THEOREM ReceiptIsTrue == Spec => []ReceiptTrue
<1>1. Inv => ReceiptTrue
  BY DEF Inv, ReceiptInv
<1>2. QED  BY InvariantHolds, <1>1, PTL

\* The worker publishes only what OpenStack has with this UID's tag.
THEOREM OwnedIsPublished == Spec => []PublishesOwned
<1>1. Inv => PublishesOwned
  <2> SUFFICES ASSUME Inv, NEW n \in Known,
                      pods[n].at \in {"prune", "clone", "head", "push", "confirm", "confirmed"},
                      NEW r \in Todo(n) \ plan.disturbed
               PROVE  \E x \in Exact(r, InputOf(n).uid) : Owned(x, InputOf(n).uid)
    BY DEF PublishesOwned
  <2>1. n \in Numbers
    BY JobRows DEF Inv, TypeOK
  <2>2. Provided(n) /\ pods[n].todo = {}
    BY <2>1 DEF Inv, CloudInv, Active, Provided, Owning
  <2>3. Has(r, InputOf(n).uid)
    BY <2>2 DEF Provided
  <2>4. QED  BY <2>3 DEF Has, Exact, Owned
<1>2. QED  BY InvariantHolds, <1>1, PTL

\* Who makes a commit.
LEMMA Commits ==
  ASSUME Next, head' # head
  PROVE  \/ \E n \in Numbers : Push(n) /\ plan' = plan
         \/ (Declare \/ WritePolicy) /\ plan' = plan
<1>1. CASE OnChange \/ OnTimer \/ Sync \/ RemoveObject \/ CollectOwned \/ Tick \/ Crash
  BY <1>1 DEF OnChange, OnTimer, Called, Sync, RemoveObject, CollectOwned, Tick, Crash, work, git
<1>2. ASSUME NEW t \in Threads, Reconcile(t) \/ Fails(t)
      PROVE  FALSE
  BY <1>2
    DEF Reconcile, Survey, SeeJobs, CreateInput, CreateJob, PatchStatus, Fails, work, git
<1>3. ASSUME NEW n \in Numbers,
             \/ Worker(n)
             \/ (Die(n) \/ Expire(n) \/ GitFails(n)) /\ KeepWorld /\ UNCHANGED <<plan, task>>
      PROVE  Push(n) /\ plan' = plan
  <2>1. CASE (Die(n) \/ Expire(n) \/ GitFails(n)) /\ KeepWorld /\ UNCHANGED <<plan, task>>
    BY <2>1 DEF Die, Expire, GitFails, git
  <2>2. CASE Worker(n)
    <3>1. CASE StartPod(n) \/ Provision(n) \/ Kill(n)
      BY <3>1 DEF StartPod, Provision, Look, Create, Tag, Finish, Prune, Kill, git
    <3>2. CASE Clone(n) \/ Confirm(n) \/ Conclude(n)
      BY <3>2 DEF Clone, Confirm, Conclude, git
    <3>3. QED  BY <2>2, <3>1, <3>2 DEF Worker, WorkerSteps, Publish
  <2>3. QED  BY <1>3, <2>1, <2>2
<1>4. CASE Users
  BY <1>4 DEF Users, Outsiders, Disturb, EditProfile, ChangeProject, ChangePrerequisites, work, git
<1>5. QED  BY <1>1, <1>2, <1>3, <1>4 DEF Next

\* A worker's commit leaves a policy that was written by hand as it is, also one that
\* was pushed after the worker cloned the branch: the commit has the clone's policy, and
\* the remote takes it only on top of the clone (policy_content, publish_inventory).
THEOREM ManualPolicyStays == Spec => ManualPolicySurvives
<1> DEFINE A == head' # head /\ tree'[head'].by # Invalid /\ tree[head].policy.owner = Manual
                  => tree'[head'].policy = tree[head].policy
<1>1. Inv /\ [Next]_vars => [A]_vars
  <2> SUFFICES ASSUME Inv, Next, head' # head, tree'[head'].by # Invalid,
                      tree[head].policy.owner = Manual
               PROVE  tree'[head'].policy = tree[head].policy
    OBVIOUS
  <2>1. ASSUME NEW n \in Numbers, Push(n), plan' = plan
        PROVE  tree'[head'].policy = tree[head].policy
    BY <2>1, PushStep DEF PolicyContent
  <2>2. ~(Declare \/ WritePolicy) \/ plan' # plan
    BY OutsideStep
  <2>3. QED  BY <2>1, <2>2, Commits
<1>2. QED  BY InvariantHolds, <1>1, PTL DEF Spec, ManualPolicySurvives
=============================================================================
