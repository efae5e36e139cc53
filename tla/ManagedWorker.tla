---------------------------- MODULE ManagedWorker ----------------------------
(***************************************************************************)
(* The provisioning Jobs of a customer cluster: their Pods, in which the   *)
(* worker ensures the resources one after the other and then publishes the *)
(* inventories in Git, against a branch that others push to.               *)
(***************************************************************************)
EXTENDS ManagedCloud

CONSTANTS
  Plans,         \* what may happen: [acts, events, specs, made, manual, disturbed, profiles, ...]
  MaxEvents,     \* bound: the most events of a plan
  MaxCommits,    \* bound: commits on the branch
  Retries,       \* attempts of publish_inventory (3 in the code)
  BackoffLimit   \* Pods that may fail before the last one (3 in the code)

ASSUME ManagedWorkerAssumption ==
  /\ MaxEvents \in Nat /\ MaxCommits \in Nat \ {0}
  /\ Retries \in 1..10 /\ BackoffLimit \in Nat
  /\ \A p \in Plans :
       /\ p.events \in 0..MaxEvents /\ p.buckets \in 0..MaxBuckets
       /\ p.first \in Declaration /\ p.specs \subseteq Declaration
       /\ p.profiles \subseteq [infra : Infras, ansible : Policies]
       /\ p.manual \subseteq Policies \X Policies

VARIABLES
  plan,      \* the plan, chosen at first
  events,    \* changes and faults so far
  head,      \* the last commit of the branch
  tree,      \* the tree of each commit, and the input it was published for
  jobs,      \* the Jobs, in the order of their creation
  inputs,    \* the input ConfigMaps, by the names of their Jobs
  pods       \* the worker in the Pod of each Job, if there is one

git == <<head, tree>>
work == <<cloud, git, jobs, inputs, pods>>

\* A Job waits for its next Pod, runs, has exceeded its deadline while the Pod still
\* ends, is complete or failed, or has been deleted (its Pod ends on its own).
JobStates == {"waiting", "running", "expired", "complete", "failed", "deleted"}
Job == [name : [input : Input, gen : 1..MaxGens, bucket : 0..MaxBuckets],
        at : JobStates, failures : 0..(BackoffLimit + 1), conflict : BOOLEAN,
        commit : 0..MaxCommits]

\* The worker: where it is, what it has still to ensure, its attempt to publish, the
\* commit it has checked out and the files that it wants there.
NoTree == [hosts |-> NoFile, policy |-> NoFile]
WorkerState == [at : {"idle", "look", "create", "tag", "finish", "prune",
                 "clone", "head", "push", "confirm", "confirmed"},
           todo : SUBSET Resources,
           tries : 0..Retries, base : 0..MaxCommits, want : [hosts : Hosts, policy : Policy]]
NoWorker == [at |-> "idle", todo |-> {}, tries |-> 0, base |-> 0, want |-> NoTree]

Numbers == 1..MaxJobs
Known == 1..Len(jobs)
InputOf(n) == jobs[n].name.input

\* What the worker ensures of the kinds that the plan is about.
Todo(n) == Provisioned(InputOf(n)) \cap plan.made

At(n, at) == n \in Known /\ pods[n].at = at

WorkTypeOK ==
  /\ CloudTypeOK
  /\ plan \in Plans /\ events \in 0..MaxEvents
  /\ head \in 1..MaxCommits
  /\ tree \in [1..MaxCommits -> Tree]
  /\ jobs \in Seq(Job) /\ Len(jobs) <= MaxJobs
  /\ pods \in [Numbers -> WorkerState]

Event(act) == act \in plan.acts /\ events < plan.events /\ events' = events + 1
-----------------------------------------------------------------------------
(* Jobs and Pods.                                                          *)

\* A Pod starts when the input of its Job is there to be mounted.
StartPod(n) ==
  /\ n \in Known /\ jobs[n].at = "waiting"
  /\ jobs[n].name \in inputs
  /\ jobs' = [jobs EXCEPT ![n].at = "running"]
  /\ pods' = [pods EXCEPT ![n] = [NoWorker EXCEPT
                 !.at = IF Todo(n) = {} THEN "prune" ELSE "look", !.todo = Todo(n)]]
  /\ UNCHANGED <<cloud, git, inputs, events>>

\* The Pod has failed: the Job has another one made, or has failed too.
AfterFailure(job, conflict) ==
  [job EXCEPT !.failures = @ + 1,
              !.conflict = IF conflict THEN TRUE ELSE @,
              !.at = CASE job.at = "deleted" -> "deleted"
                       [] job.at = "expired" -> "failed"
                       [] OTHER -> IF job.failures = BackoffLimit THEN "failed" ELSE "waiting"]

Ended(n, conflict) ==
  /\ jobs' = [jobs EXCEPT ![n] = AfterFailure(@, conflict)]
  /\ pods' = [pods EXCEPT ![n] = NoWorker]

\* The worker stops on an error of OpenStack or Git, or its Pod is lost.
Die(n) ==
  /\ Event("worker")
  /\ n \in Known /\ jobs[n].at = "running"
  /\ Ended(n, FALSE)
  /\ UNCHANGED <<cloud, git, inputs>>

\* The Pod of a Job that is over has had its time to end.
Kill(n) ==
  /\ n \in Known /\ jobs[n].at \in {"deleted", "expired"}
  /\ pods[n].at # "idle"
  /\ Ended(n, FALSE)
  /\ UNCHANGED <<cloud, git, inputs, events>>

\* activeDeadlineSeconds are over.
Expire(n) ==
  /\ Event("deadline")
  /\ n \in Known /\ jobs[n].at \in {"waiting", "running"}
  /\ jobs' = [jobs EXCEPT ![n].at = IF @ = "waiting" THEN "failed" ELSE "expired"]
  /\ UNCHANGED <<cloud, git, inputs, pods>>

Goes(n, at) == pods' = [pods EXCEPT ![n].at = at]
-----------------------------------------------------------------------------
(* Provisioner: each resource is looked for, made, tagged and finished.    *)

NextResource(n) ==
  LET rest == pods[n].todo \ {First(pods[n].todo)}
  IN pods' = [pods EXCEPT ![n].todo = rest, ![n].at = IF rest = {} THEN "prune" ELSE "look"]

Look(n) ==
  /\ At(n, "look")
  /\ LET r == First(pods[n].todo)
         found == Exact(r, InputOf(n).uid)
         verdict == IF found = {} THEN IF MayCreate(r) THEN "absent" ELSE "refused"
                    ELSE IF Cardinality(found) > 1 THEN "refused"
                    ELSE Found(r, CHOOSE x \in found : TRUE, InputOf(n))
     IN CASE verdict = "refused" -> Ended(n, FALSE)
          [] verdict = "absent" -> Goes(n, "create") /\ UNCHANGED jobs
          [] verdict = "repaired" -> Goes(n, "finish") /\ UNCHANGED jobs
          [] verdict = "good" -> NextResource(n) /\ UNCHANGED jobs
  /\ UNCHANGED <<cloud, git, inputs, events>>

Create(n) ==
  /\ At(n, "create")
  /\ LET r == First(pods[n].todo)
         more == [cloud EXCEPT ![r] = @ \cup {Created(r, n, InputOf(n))}]
     IN /\ cloud' = IF r # "server" THEN more
                    ELSE [more EXCEPT !["volume"] = {[x EXCEPT !.state = "whole"] : x \in @}]
        /\ IF r \in Tagged THEN Goes(n, "tag") ELSE NextResource(n)
  /\ UNCHANGED <<git, jobs, inputs, events>>

\* set_tags: what this Pod has just made bears no tag yet.
Tag(n) ==
  /\ At(n, "tag")
  /\ LET r == First(pods[n].todo)
         mine == {x \in cloud[r] : x.maker = n /\ x.owner = 0}
     IN /\ cloud' = TaggedWith(r, mine, InputOf(n).uid)
        /\ IF Unfinished(r) THEN Goes(n, "finish") ELSE NextResource(n)
  /\ UNCHANGED <<git, jobs, inputs, events>>

\* The interface of the router, the rules and the mark of a group, the security
\* groups of a port, the port of a floating IP.
Finish(n) ==
  /\ At(n, "finish")
  /\ LET r == First(pods[n].todo)
     IN cloud' = Whole(r, {x \in Exact(r, InputOf(n).uid) : Owned(x, InputOf(n).uid)})
  /\ NextResource(n)
  /\ UNCHANGED <<git, jobs, inputs, events>>

\* A group that is in use is kept; the worker logs it and goes on.
Prune(n) ==
  /\ At(n, "prune")
  /\ \E kept \in SUBSET Undeclared(InputOf(n)) :
       /\ IF kept = {} THEN UNCHANGED events ELSE Event("worker")
       /\ cloud' = Pruned(InputOf(n), kept)
  /\ Goes(n, "clone")
  /\ UNCHANGED <<git, jobs, inputs>>

Provision(n) == Look(n) \/ Create(n) \/ Tag(n) \/ Finish(n) \/ Prune(n)
-----------------------------------------------------------------------------
(* publish_inventory                                                       *)

\* The next attempt, after 2^attempt seconds; the last one's failure ends the Pod.
Again(n) ==
  IF pods[n].tries + 1 < Retries
  THEN /\ pods' = [pods EXCEPT ![n].tries = @ + 1, ![n].at = "clone"]
       /\ UNCHANGED jobs
  ELSE Ended(n, FALSE)

Published(n) == [hosts |-> tree[head].hosts, policy |-> tree[head].policy]
Desired(n) == [hosts |-> InventoryDocument(InputOf(n)),
               policy |-> PolicyContent(tree[head].policy, InputOf(n))]

\* A clone is a snapshot. What it must not overwrite ends the Job with a conflict.
Clone(n) ==
  /\ At(n, "clone")
  /\ IF ~ReadableTargets(tree[head], InputOf(n)) THEN Ended(n, TRUE)
     ELSE /\ pods' = [pods EXCEPT ![n].base = head, ![n].want = Desired(n),
                                  ![n].at = IF Published(n) = Desired(n) THEN "head" ELSE "push"]
          /\ UNCHANGED jobs
  /\ UNCHANGED <<cloud, git, inputs, events>>

\* A slip of Pushed: the push is forced.
PushedAlways(n) == TRUE

\* The remote takes a commit only on top of its own head.
Pushed(n) == head = pods[n].base

\* A commit on top of the clone; whether the remote has taken it is not asked of
\* the answer, which may be lost.
Push(n) ==
  /\ At(n, "push")
  /\ \/ /\ Pushed(n) /\ head < MaxCommits
        /\ head' = head + 1
        /\ tree' = [tree EXCEPT ![head + 1] =
             [source |-> tree[pods[n].base].source, hosts |-> pods[n].want.hosts,
              policy |-> pods[n].want.policy, by |-> InputOf(n)]]
        /\ UNCHANGED events
     \/ /\ ~Pushed(n)
        /\ UNCHANGED <<git, events>>
     \/ Event("git") /\ UNCHANGED git
  /\ Goes(n, "confirm")
  /\ UNCHANGED <<cloud, jobs, inputs>>

\* A slip of Confirmed: the answer to the push is taken for the publication.
ConfirmedUnseen(n) == TRUE

Confirmed(n) == Published(n) = pods[n].want

\* Another clone must hold both files.
Confirm(n) ==
  /\ At(n, "confirm")
  /\ IF ~ReadableTargets(tree[head], InputOf(n)) THEN Ended(n, TRUE)
     ELSE IF Confirmed(n)
     THEN /\ pods' = [pods EXCEPT ![n].base = head, ![n].at = "confirmed"]
          /\ UNCHANGED jobs
     ELSE Again(n)
  /\ UNCHANGED <<cloud, git, inputs, events>>

\* The termination message: its commit is still the head. The Job completes unless
\* it was too late.
Conclude(n) ==
  /\ At(n, "head") \/ At(n, "confirmed")
  /\ IF head = pods[n].base
     THEN /\ pods' = [pods EXCEPT ![n] = NoWorker]
          /\ jobs' = [jobs EXCEPT ![n].commit = head,
                        ![n].at = CASE @ = "running" -> "complete"
                                    [] @ = "expired" -> "failed"
                                    [] OTHER -> @]
     ELSE Again(n)
  /\ UNCHANGED <<cloud, git, inputs, events>>

\* A Git command fails or times out.
GitFails(n) ==
  /\ Event("git")
  /\ n \in Known /\ pods[n].at \in {"clone", "head", "confirm", "confirmed"}
  /\ Again(n)
  /\ UNCHANGED <<cloud, git, inputs>>

Publish(n) == Clone(n) \/ Push(n) \/ Confirm(n) \/ Conclude(n)

WorkerSteps(n) == StartPod(n) \/ Provision(n) \/ Publish(n) \/ Kill(n)
-----------------------------------------------------------------------------
(* The world outside.                                                      *)

Commit(t) ==
  /\ head < MaxCommits
  /\ head' = head + 1
  /\ tree' = [tree EXCEPT ![head + 1] = t]

Outside(t) == [source |-> t.source, hosts |-> t.hosts, policy |-> t.policy, by |-> Invalid]

\* The portal writes or removes the declaration.
Declare ==
  /\ Event("declare")
  /\ \E s \in plan.specs \cup {NoSpec} :
       /\ s # tree[head].source
       /\ Commit([Outside(tree[head]) EXCEPT !.source = s])
  /\ UNCHANGED <<cloud, jobs, inputs, pods>>

\* Somebody writes the policy by hand.
WritePolicy ==
  /\ Event("policy")
  /\ \E d \in plan.manual : Commit([Outside(tree[head]) EXCEPT !.policy = [owner |-> Manual, document |-> d]])
  /\ UNCHANGED <<cloud, jobs, inputs, pods>>

\* Somebody alters a resource, detaches it, or removes one that nothing needs.
Disturb ==
  /\ Event("disturb")
  /\ \E r \in plan.disturbed : \E x \in cloud[r] :
       \/ /\ x.owner # 0
          /\ cloud' = With(r, {x}, LAMBDA y :
                        [y EXCEPT !.state = IF r = "router" THEN "bare" ELSE "altered"])
       \/ /\ r \in {"server", "fip", "keypair"}
          /\ cloud' = [cloud EXCEPT ![r] = @ \ {x},
               !["volume"] = IF r = "server" THEN {[v EXCEPT !.state = "bare"] : v \in @} ELSE @]
  /\ UNCHANGED <<git, jobs, inputs, pods>>
=============================================================================
