--------------------------- MODULE ManagedCluster ---------------------------
(***************************************************************************)
(* The customer-cluster operator: the reconciliation of one ManagedCluster *)
(* by a change handler and a timer, which take the lock of its UID, and    *)
(* the world that its Jobs work in. ArgoCD applies the declaration in Git; *)
(* there is one operator (one replica, strategy Recreate), which crashes.  *)
(***************************************************************************)
EXTENDS ManagedWorker

CONSTANTS
  HistoryLimit   \* completed Jobs that are kept (2 in the code)

ASSUME ManagedClusterAssumption == HistoryLimit \in Nat

VARIABLES
  mc,        \* the ManagedCluster
  profile,   \* its ClusterProfile
  project,   \* its OpenstackProject: ready, not ready, or another one's
  present,   \* whether the Secrets and the ConfigMap that a Job needs are there
  bucket,    \* the verification interval
  task       \* what runs of the change handler and of the timer

vars == <<plan, events, work, mc, profile, project, present, bucket, task>>
world == <<mc, profile, project, present, bucket>>

Threads == {"change", "timer"}

Reasons == {"", "ProvisioningSuspended", "ProjectNotReady", "InvalidConfiguration",
  "InfrastructureDriftUnsupported", "ProvisioningJobRunning", "ProvisioningSucceeded",
  "InventoryConflict", "ProvisioningJobFailed", "PrerequisitesNotReady",
  "ProvisioningJobCreated", "ReconciliationError"}

Names == [input : Input, gen : 1..MaxGens, bucket : 0..MaxBuckets] \cup {NoName}
Status == [reason : Reasons, gen : 0..MaxGens, job : Names,
           hash : [uid : 1..MaxUids, infra : Infras \X Infras] \cup {NoHash},
           commit : 0..MaxCommits, pub : Input \cup {Invalid}]
NoStatus == [reason |-> "", gen |-> 0, job |-> NoName, hash |-> NoHash, commit |-> 0, pub |-> Invalid]

\* The object: kopf's finalizer holds one that is being deleted until nothing runs.
Object == [at : {"absent", "live", "deleting"}, uid : 0..MaxUids, gen : 0..MaxGens,
           spec : Declaration \cup {NoSpec}, status : Status, handled : 0..MaxGens, resumed : BOOLEAN]

\* The keys over what was there: a merge patch.
Merged(keys, status) ==
  [k \in DOMAIN keys \cup DOMAIN status |-> IF k \in DOMAIN keys THEN keys[k] ELSE status[k]]

\* A handler or timer: where it is, the object as it was when kopf called it, its
\* input and Job name, and the keys of the status that it is going to patch.
TaskOK(th) ==
  /\ DOMAIN th = {"at", "gen", "spec", "status", "name", "put"}
  /\ th.at \in {"idle", "lock", "jobs", "input", "job", "patch"} /\ th.gen \in 0..MaxGens
  /\ th.spec \in Declaration \cup {NoSpec} /\ th.status \in Status /\ th.name \in Names
  /\ Merged(th.put, NoStatus) \in Status
NoTask == [at |-> "idle", gen |-> 0, spec |-> NoSpec, status |-> NoStatus, name |-> NoName,
           put |-> <<>>]

TypeOK ==
  /\ WorkTypeOK
  /\ inputs \subseteq Names \ {NoName}
  /\ mc \in Object
  /\ profile \in Profile
  /\ project \in {"ready", "waiting", "other"} /\ present \in BOOLEAN
  /\ bucket \in 0..MaxBuckets
  /\ DOMAIN task = Threads /\ \A t \in Threads : TaskOK(task[t])

Ready(t, at) == task[t].at = at
Busy == {t \in Threads : task[t].at # "idle"}
KeepWorld == UNCHANGED world
-----------------------------------------------------------------------------
(* kopf calls the handlers.                                                *)

Called(t) ==
  /\ task[t].at = "idle" /\ Cardinality(Busy) < plan.threads
  /\ mc.at = "live"
  /\ task' = [task EXCEPT ![t] = [NoTask EXCEPT !.at = "lock", !.gen = mc.gen,
                                    !.spec = mc.spec, !.status = mc.status]]
  /\ KeepWorld /\ UNCHANGED <<plan, events, work>>

\* on.create, on.update, on.resume
OnChange == (mc.handled # mc.gen \/ ~mc.resumed) /\ Called("change")
OnTimer == Called("timer")
-----------------------------------------------------------------------------
(* reconcile                                                               *)

\* The lock of the UID is free.
LockFree == \A t \in Threads : task[t].at \notin {"jobs", "input", "job"}

Puts(t, keys) == task' = [task EXCEPT ![t].at = "patch", ![t].put = Merged(keys, [gen |-> task[t].gen])]
Says(t, reason) == Puts(t, [reason |-> reason])

\* What an error leaves as it found it: the keys of the status that are set.
Repeats(status) ==
  [k \in {j \in {"job", "hash", "commit"} : status[j] # NoStatus[j]} |-> status[k]]

Drifted(status, input) == status.hash # NoHash /\ status.hash # InputHash(input)

\* The declaration, the profile, the project and what was provisioned before.
Survey(t) ==
  /\ Ready(t, "lock") /\ LockFree
  /\ LET th == task[t]
         input == BuildInput(th.spec, profile, mc.uid)
     IN IF th.spec.suspend THEN Says(t, "ProvisioningSuspended")
        ELSE IF project = "waiting" THEN Says(t, "ProjectNotReady")
        ELSE IF project = "other" \/ input = Invalid THEN Says(t, "InvalidConfiguration")
        ELSE IF Drifted(th.status, input)
        THEN Puts(t, Merged([reason |-> "InfrastructureDriftUnsupported"], Repeats(th.status)))
        ELSE task' = [task EXCEPT ![t].at = "jobs", ![t].name = JobName(input, th.gen, bucket)]
  /\ KeepWorld /\ UNCHANGED <<plan, events, work>>

\* A slip of Finished: a Job that waits for its next Pod is finished.
FinishedGap(n) == jobs[n].at \in {"waiting", "complete", "failed"}

\* A slip of Finished: a Job that failed is waited for.
FinishedComplete(n) == jobs[n].at = "complete"

\* job_finished: complete or failed, and no Pod runs or ends any more.
Finished(n) == jobs[n].at \in {"complete", "failed"}

Mine == {n \in Known : InputOf(n).uid = mc.uid /\ jobs[n].at # "deleted"}

\* cleanup_history: what the status names or this call is about, and the newest.
Mandatory(th) == {n \in Mine : jobs[n].name \in {th.name, th.status.job}}
Retained(th) ==
  LET must == {n \in Mandatory(th) : Finished(n)}
      other == {n \in Mine : Finished(n)} \ must
  IN {n \in Mine : \/ ~Finished(n)
                   \/ n \in must
                   \/ Cardinality({m \in other : m > n}) < HistoryLimit - Cardinality(must)}

\* A slip of RetainedInputs: only finished Jobs and this one keep their input.
RetainedFinished(th) ==
  {th.name} \cup {jobs[n].name : n \in {m \in Retained(th) : Finished(m)}}

RetainedInputs(th) ==
  {th.name, th.status.job} \cup {jobs[n].name : n \in Retained(th)}

CleanupHistory(th) ==
  /\ jobs' = [n \in Known |-> IF n \in Mine \ Retained(th) THEN [jobs[n] EXCEPT !.at = "deleted"]
                              ELSE jobs[n]]
  /\ inputs' = {i \in inputs : i.input.uid = mc.uid => i \in RetainedInputs(th)}

Provisioning(t, reason, name) ==
  Puts(t, [reason |-> reason, job |-> name, hash |-> InputHash(task[t].name.input)])

\* job_result: a Job that succeeded told what it published.
Receipt(t, n) ==
  [reason |-> "ProvisioningSucceeded", job |-> jobs[n].name, commit |-> jobs[n].commit,
   hash |-> InputHash(InputOf(n)), pub |-> PublicationHash(InputOf(n))]

\* The Jobs are listed and trimmed; all that is not finished must end first.
SeeJobs(t) ==
  /\ Ready(t, "jobs")
  /\ LET th == task[t]
         open == {n \in Mine : ~Finished(n)}
         other == {n \in open : jobs[n].name # th.name}
         own == {n \in Mine : jobs[n].name = th.name}
     IN /\ CleanupHistory(th)
        /\ IF Cardinality(open) > 1 THEN Says(t, "InvalidConfiguration")
           ELSE IF other # {}
           THEN \E n \in other :
                  IF InputHash(InputOf(n)) # InputHash(th.name.input)
                  THEN Says(t, "InvalidConfiguration")
                  ELSE Provisioning(t, "ProvisioningJobRunning", jobs[n].name)
           ELSE IF own # {}
           THEN \E n \in own :
                  CASE jobs[n].at = "complete" -> Puts(t, Receipt(t, n))
                    [] jobs[n].at = "failed" ->
                         Provisioning(t, IF jobs[n].conflict THEN "InventoryConflict"
                                         ELSE "ProvisioningJobFailed", th.name)
                    [] OTHER -> Provisioning(t, "ProvisioningJobRunning", th.name)
           ELSE IF ~present THEN Says(t, "PrerequisitesNotReady")
           ELSE task' = [task EXCEPT ![t].at = "input"]
  /\ KeepWorld /\ UNCHANGED <<plan, events, cloud, git, pods>>

\* The same ConfigMap may be there from a call that was cut off.
CreateInput(t) ==
  /\ Ready(t, "input")
  /\ inputs' = inputs \cup {task[t].name}
  /\ task' = [task EXCEPT ![t].at = "job"]
  /\ KeepWorld /\ UNCHANGED <<plan, events, cloud, git, jobs, pods>>

NewJob(name) == [name |-> name, at |-> "waiting", failures |-> 0, conflict |-> FALSE, commit |-> 0]

CreateJob(t) ==
  /\ Ready(t, "job") /\ Len(jobs) < MaxJobs
  /\ jobs' = Append(jobs, NewJob(task[t].name))
  /\ Provisioning(t, "ProvisioningJobCreated", task[t].name)
  /\ KeepWorld /\ UNCHANGED <<plan, events, cloud, git, inputs, pods>>

\* An error of the Kubernetes API ends the call (kopf repeats a change handler);
\* any other error is patched into the status.
Fails(t) ==
  /\ Event("call")
  /\ task[t].at \in {"lock", "jobs", "input", "job"}
  /\ \/ task' = [task EXCEPT ![t] = NoTask]
     \/ Puts(t, Merged([reason |-> "ReconciliationError"], Repeats(task[t].status)))
  /\ KeepWorld /\ UNCHANGED <<plan, work>>

\* kopf merges the keys into the status when the call is over, the lock is free
\* again and others may have patched.
PatchStatus(t) ==
  /\ Ready(t, "patch")
  /\ mc' = [mc EXCEPT !.status = Merged(task[t].put, @),
                      !.handled = IF t = "change" THEN task[t].gen ELSE @,
                      !.resumed = @ \/ t = "change"]
  /\ task' = [task EXCEPT ![t] = NoTask]
  /\ UNCHANGED <<plan, events, work, profile, project, present, bucket>>

Reconcile(t) == Survey(t) \/ SeeJobs(t) \/ CreateInput(t) \/ CreateJob(t) \/ PatchStatus(t)
-----------------------------------------------------------------------------
(* The world outside.                                                      *)

\* ArgoCD creates, updates or deletes the object as the branch has it.
Apply(source) ==
  /\ mc.at = "absent" /\ source # NoSpec /\ mc.uid < MaxUids
  /\ mc' = [at |-> "live", uid |-> mc.uid + 1, gen |-> 1, spec |-> source, status |-> NoStatus,
            handled |-> 0, resumed |-> TRUE]
Update(source) ==
  /\ mc.at = "live" /\ source \notin {NoSpec, mc.spec} /\ mc.gen < MaxGens
  /\ mc' = [mc EXCEPT !.gen = @ + 1, !.spec = source]
Delete(source) ==
  /\ mc.at = "live" /\ source = NoSpec
  /\ mc' = [mc EXCEPT !.at = "deleting"]
Sync ==
  /\ LET source == tree[head].source IN Apply(source) \/ Update(source) \/ Delete(source)
  /\ UNCHANGED <<plan, events, work, profile, project, present, bucket, task>>

\* on_delete retains everything outside Kubernetes; then the finalizer goes.
RemoveObject ==
  /\ mc.at = "deleting" /\ Busy = {}
  /\ mc' = [mc EXCEPT !.at = "absent", !.spec = NoSpec, !.status = NoStatus, !.gen = 0,
                      !.handled = 0, !.resumed = TRUE]
  /\ UNCHANGED <<plan, events, work, profile, project, present, bucket, task>>

\* Kubernetes collects what belonged to the object; Pods take their time to end.
Orphaned(name) == name.input.uid < mc.uid \/ mc.at = "absent"
CollectOwned ==
  /\ \/ \E n \in Known : Orphaned(jobs[n].name) /\ jobs[n].at # "deleted"
     \/ \E i \in inputs : Orphaned(i)
  /\ jobs' = [n \in Known |-> IF Orphaned(jobs[n].name) THEN [jobs[n] EXCEPT !.at = "deleted"]
                              ELSE jobs[n]]
  /\ inputs' = {i \in inputs : ~Orphaned(i)}
  /\ KeepWorld /\ UNCHANGED <<plan, events, cloud, git, pods, task>>

ProfileOf(p, gen) == [gen |-> gen, infra |-> p.infra, ansible |-> p.ansible]
EditProfile ==
  /\ Event("profile")
  /\ profile.gen < MaxGens
  /\ \E p \in plan.profiles : /\ p # [infra |-> profile.infra, ansible |-> profile.ansible]
                              /\ profile' = ProfileOf(p, profile.gen + 1)
  /\ UNCHANGED <<plan, work, mc, project, present, bucket, task>>

\* The project, or what a Job needs, comes and goes.
ChangeProject ==
  /\ Event("project")
  /\ project' \in {"ready", "waiting", "other"} \ {project}
  /\ UNCHANGED <<plan, work, mc, profile, present, bucket, task>>
ChangePrerequisites ==
  /\ Event("secrets")
  /\ present' = ~present
  /\ UNCHANGED <<plan, work, mc, profile, project, bucket, task>>

Tick ==
  /\ bucket < plan.buckets
  /\ bucket' = bucket + 1
  /\ UNCHANGED <<plan, events, work, mc, profile, project, present, task>>

\* The operator crashes or is rolled out anew.
Crash ==
  /\ Event("crash")
  /\ mc' = [mc EXCEPT !.resumed = mc.at = "absent"]
  /\ task' = [t \in Threads |-> NoTask]
  /\ UNCHANGED <<plan, work, profile, project, present, bucket>>
-----------------------------------------------------------------------------
Init ==
  /\ plan \in Plans
  /\ events = 0
  /\ InitCloud
  /\ head = 1
  /\ tree = [c \in 1..MaxCommits |->
               [source |-> IF c = 1 THEN plan.first ELSE NoSpec, hosts |-> NoFile,
                policy |-> NoFile, by |-> Invalid]]
  /\ jobs = <<>> /\ inputs = {}
  /\ pods = [n \in Numbers |-> NoWorker]
  /\ mc = [at |-> "absent", uid |-> 0, gen |-> 0, spec |-> NoSpec, status |-> NoStatus,
           handled |-> 0, resumed |-> TRUE]
  /\ \E p \in plan.profiles : profile = ProfileOf(p, 1)
  /\ project = "ready" /\ present = TRUE /\ bucket = 0
  /\ task = [t \in Threads |-> NoTask]

Worker(n) == WorkerSteps(n) /\ KeepWorld /\ UNCHANGED <<plan, task>>
Outsiders == Declare \/ WritePolicy \/ Disturb
Users == \/ Outsiders /\ KeepWorld /\ UNCHANGED <<plan, task>>
         \/ EditProfile \/ ChangeProject \/ ChangePrerequisites

Next ==
  \/ OnChange \/ OnTimer
  \/ \E t \in Threads : Reconcile(t) \/ Fails(t)
  \/ \E n \in Numbers : \/ Worker(n)
                        \/ (Die(n) \/ Expire(n) \/ GitFails(n)) /\ KeepWorld /\ UNCHANGED <<plan, task>>
  \/ Users
  \/ Sync \/ RemoveObject \/ CollectOwned \/ Tick \/ Crash

\* kopf calls what is due, and calls go on; a change handler that waits for the lock
\* has 30 seconds between two calls of the timer (hence SF). Pods run, ArgoCD and
\* Kubernetes do their work, time passes. Users and faults are not owed to anybody.
Fairness ==
  /\ SF_vars(OnChange \/ Reconcile("change"))
  /\ WF_vars(OnTimer \/ Reconcile("timer"))
  /\ WF_vars(\E n \in Numbers : Worker(n))
  /\ WF_vars(Sync \/ RemoveObject \/ CollectOwned \/ Tick)

Spec == Init /\ [][Next]_vars
FairSpec == Spec /\ Fairness
-----------------------------------------------------------------------------
(* Correctness.                                                            *)

\* No two Jobs of one ManagedCluster can have a worker: the next Job is created only
\* when the one before it is over for good, whatever was listed by a call that was
\* cut off, and whether or not its Pod happens to run (reconcile, job_finished).
Open(n) == jobs[n].at \in {"waiting", "running", "expired"}
OneOpenJob ==
  \A m, n \in Known : Open(m) /\ Open(n) /\ InputOf(m).uid = InputOf(n).uid => m = n

\* A Job that may still start a Pod has the input that the Pod mounts: trimming the
\* history, by a call whose status and name are out of date, spares it.
InputsKept == \A n \in Known : Open(n) => jobs[n].name \in inputs

\* A ManagedCluster that is ready names a commit whose tree holds the hosts and the
\* policy of the input that the status names, next to the declaration they are of.
ReceiptTrue ==
  LET s == mc.status IN
  s.reason = "ProvisioningSucceeded" =>
    /\ s.commit \in 1..head
    /\ tree[s.commit].hosts = InventoryDocument(s.pub)
    /\ tree[s.commit].policy.document = PolicyDocument(s.pub)
    /\ ValidSource(tree[s.commit].source, s.pub)
    /\ s.hash = InputHash(s.pub)

\* The worker publishes only what OpenStack has for this UID: no resource without its
\* tag, or with another ManagedCluster's, counts as provisioned.
PublishesOwned ==
  \A n \in Known :
    pods[n].at \in {"prune", "clone", "head", "push", "confirm", "confirmed"} =>
      \A r \in Todo(n) \ plan.disturbed :
        \E x \in Exact(r, InputOf(n).uid) : Owned(x, InputOf(n).uid)

\* The worker's commits leave a policy that was written by hand as it is, also one
\* that was written after the worker cloned the branch.
ManualPolicySurvives ==
  [][head' # head /\ tree'[head'].by # Invalid /\ tree[head].policy.owner = Manual
       => tree'[head'].policy = tree[head].policy]_vars

\* Each ManagedCluster gets an answer for its current generation that is neither
\* "created" nor "running": no Job goes on for ever, no call waits for one that is
\* over, and no late patch has the last word.
Answered ==
  /\ mc.status.gen = mc.gen
  /\ mc.status.reason \notin {"", "ProvisioningJobCreated", "ProvisioningJobRunning"}
GenerationsAnswered == mc.at = "live" ~> mc.at # "live" \/ Answered

=============================================================================
