# Formal models of the customer portal and its operators

This directory holds TLA+ models of the programs under `src/` that keep state,
the TLC configurations that check them on small instances, and proofs, checked
by TLAPS, of what holds for every value of the constants. `PROJECT.json` lists
the components, the runs, the source lines each definition models, the hazards
and the theorems.

Every module is a translation of the code, not of its documentation. Where the
code and its own words disagree, a run shows it (see *Findings*).

## 1. Inventory of the system

The repository holds three programs with state of their own; the rest are
image build files and configuration.

| part | state | operations | what is hard |
|---|---|---|---|
| **Portal: durable billing reports** (`billing_worker.py`, `billing_reports.py`, `billing_report_state.py`, `routers/billing.py`) | `billing_report`, `_shard`, `_output` rows; two advisory locks per report | create, retry, delete, claim, capture, plan, query, split, render, deliver, finish, fail, purge | worker processes, request handlers and an hourly purge work on the same rows; crashes between any two commits; a lost lock connection; writes by primary key from stale reads |
| **Portal: job runs** (`billing_runner.py`) | `billing_job`, `billing_job_run` | `execute_job` (schedule and manual), `run_due_jobs` | find-then-insert races; one active run per period |
| **Portal: GitOps operations** (`gitops_service.py`, `gitops_worker.py`) | settings version, operation rows, receipt in the customer's repository | save settings, preview, approve, publish, recover | the push happens before the commit; versions change between approval and push |
| **Portal: publication to a repository** (`customer_gitops.py`, `gitops_git.py`, ...) | remote branch, last published baseline | snapshot, three-way compare, push | concurrent writers of the remote branch |
| **Portal: customer repositories** (`repository_service.py`, `openbao_client.py`) | repository row, its version, pinned secret version, secret store | save, replace credentials, validate | a secret is written by compare-and-set before the database commits |
| **Portal: cluster requests** (`cluster_request_service.py`) | request rows, two Git repositories | submit, apply, deny, resize, backup | two administrators; two repositories pushed one after the other |
| **Portal: tenant kubeconfigs** (`kubeconfig_service.py`) | rows, role bindings in a tenant cluster | issue, revoke, cascade revoke | external steps failing in between; issue racing cascade |
| **Portal: administration, auth, migrations, front end** | tables, sessions | CRUD | sequential; no protocol |
| **Cluster operator: reconciliation** (`controller.py`, `kube.py`) | status of a `ManagedCluster`, its Jobs | reconcile on change, on timer | naming of Jobs, one at a time, trimming of the history |
| **Cluster operator: provisioning** (`worker.py`, `openstack.py`) | OpenStack resources with owner tags | create, adopt, refuse | death between creation and tagging |
| **Cluster operator: inventory publication** (`publication*.py`) | a Git branch | push, confirm, retry | a lost answer to a push |
| **OpenStack operator: projects** (`handlers.py`, `resources/*`) | project CRs, their OpenStack project | create, update, delete, timer | two CRs naming one project; status lost; deletion that finds nothing |
| **OpenStack operator: shared objects** (`federation.py`, `registry.py`) | one Keystone mapping, one ConfigMap | add, remove | read-modify-write by concurrent handlers |
| **OpenStack operator: garbage collection** | tags, CR list | collect | deletes by a list read earlier |
| **OpenStack operator: cluster-scoped resources, client, metrics** | images, flavors, domains, networks | create, update, delete | as projects, without sharing |

How they interact: request handlers and workers of the portal meet only in
PostgreSQL (rows, constraints, advisory locks); the portal and the cluster
operator meet in customer repositories and in `ManagedCluster` objects; the
OpenStack operator reads CRs that the portal writes through Git.

What makes each correct:

- *billing*: every hour of the period is summed once; a report and its run tell
  one story; at most one run of a job's period is under way; a delivery is
  complete and repeated only if its checkpoint was lost; what was accepted ends;
  what was delivered is final;
- *GitOps*: what is pushed is what was approved, once, and a crash after the
  push is recognised; a stale approval is refused;
- *repositories*: the pinned secret is one a validation has seen; an operation
  in flight keeps its repository's URL;
- *cluster requests, kubeconfigs*: a request is applied once or stays pending; a
  row that says revoked has no binding;
- *cluster operator*: one Job at a time per cluster, no result read twice or
  lost; nothing is created twice; a publication is confirmed before it counts;
- *OpenStack operator*: a project is deleted only by its last owner; every live
  project's mapping rule is eventually there; nothing live is collected.

Sections 2 and 3 are about billing and GitOps operations, section 4 about the OpenStack
operator, section 5 about the customer-cluster operator, and section 6 about the other
services of the portal. What is left out of each is said there and in section 10.

## 2. The billing model

    BillingShards                windows and halves of a period; what tiling means
      BillingTables              the tables and the database's own constraints
        BillingRequests          routes, execute_job, run_due_jobs
          BillingWorker          run_one, process_report, purge_expired, faults
            BillingReports       the whole, its specification, its properties
              MCBillingReports   symmetry, for TLC

Each extends the one above it.

### State

| variable | code |
|---|---|
| `report` | rows of `billing_report`: status, job, whether delivery method and configuration, snapshot and artifact are there, and where `expires_at` lies. `unused` is a row not yet inserted, `deleted` one removed |
| `run` | `billing_job_run.status`; a run is created with its report by one commit and deleted with it, so it is indexed by the report |
| `shards`, `outputs` | `billing_report_shard` and `billing_report_output` rows |
| `rendered` | the shards whose usage the rendered content sums (stands for the content) |
| `jobs` | rows of `billing_job` |
| `client`, `asked` | where each request handler stands and what it has loaded; retries and runs asked for |
| `worker` | where each worker stands, the report it works on, the `delivery_config` it read, the outputs it still has to deliver, the ids its purge selected |
| `outer`, `inner` | holders of `pg_try_advisory_lock('billing-report', id)` in `run_one` and of `'billing-report-processor'` in `process_report` |
| `accepted`, `lost` | history: how often the WebDAV or SMTP server accepted a file, and for how many of these the `sent` checkpoint was never committed |
| `faults`, `overrun`, `unfenced` | history: crashes and lost connections so far; reports that a purge took from a live owner or a stale claim set running; reports whose inner lock was lost while they were processed |

### Actions

A handler's read and its commit are separate steps, so everything may happen in
between; the commit is by primary key, as SQLAlchemy writes it, and only the
row's existence and the two database constraints (`Admits` for
`ck_billing_report_delivery`, `IndexAdmits` for `uq_billing_job_run_active_period`)
can refuse it.

- Requests: `Retry` then `Requeue`/`RequeueRefused`; `ManualRun` or `RunDue`,
  then `FindFailedRun`, `CheckFailedReport`, then requeue or `InsertRun`/
  `InsertRefused`; `EnqueueReport`; `DeleteJob`.
- `run_one`: `Claim` (lock taken, row read again), `Begin` (the claim commits),
  `ReadFailure` and `RecordFailure` (the exception handler), `Refused`.
- `process_report`: `Start`, `Yield`, `Capture`, `Plan`, `Query`, `Split`,
  `Render`, `Send`, `Checkpoint`, `Finish`, `Fail`, `FailCheckpoint`.
- `purge_expired`: `SelectExpired` then `Purge`.
- Environment: `Crash` at any step (its sessions end, its locks are released),
  `LoseOuter`, `LoseInner` (the idle connection of a lock drops while its worker
  works on), `Elapse` (a retention ends). When the inner lock is gone, unlocking
  raises after the final commit, and `Finish` ends in the failure handler.

Abstractions, and why they are safe:

- `process_report` opens its connection with REPEATABLE READ, so each of its
  transactions commits as one step over the state it read, or fails because a
  row it writes was changed (`Fail`, always possible). The transactions of
  `run_one`, of the routes and of `execute_job` are READ COMMITTED, and are split
  at their reads. Two pairs are one step: taking the outer lock with the read
  that follows it, and the read of the run with the commit of a failure.
- The code queries the pending shard with the lowest id and delivers files in
  order; the model allows any order.
- Time is counted in hours from the start of the period; windows are whole days
  and midpoints whole hours in the code, so no boundary falls between.
- The content of a snapshot, a query answer and a file is left out. Which shards
  were summed is kept, because `RenderedInFull` is about it.
- A crash loses the worker's memory and its locks and nothing else.
- When two threads process one report because both locks were lost, each insert
  and each checkpoint is still one step: the unique constraints on windows and
  file names refuse the second insert, and a concurrent update fails (`Fail`).
- The ORM writes only columns that changed. A thread that read its report as
  already succeeded (only after a lost lock) writes the status again in the
  model, though not in the code.

## 3. The GitOps model

A customer's repository holds the manifests of its clusters. An administrator asks
for a *preview* (what would be written, merged with manual edits), reviews it and
approves it; a worker then *publishes* it, a commit on `main` on top of the head
that was reviewed.

    GitOpsTree                   the managed files, and the three-way merge
      GitOpsOperations           the rows, and what administrators do to them
        GitOpsWorker             run_one, execute_operation, main, the server, faults
          GitOps                 the whole: its properties, and the refinement
            MCGitOps             instances, for TLC
      ApprovedPublication        the abstract specification, instantiated in GitOps

### State

| variable | code |
|---|---|
| `repository` | the row of `customer_cluster_repository`: `version`, and `validation_status = "valid"` |
| `state` | `cluster_gitops` per cluster: `version`, `acme_contact` (the draft), `baseline`, `last_commit` |
| `operations` | rows of `gitops_operation` in creation order, with the payload (versions, adopt, preview) and `result_commit` |
| `lock` | holder of `pg_advisory_xact_lock('customer-repository', id)` among the workers |
| `main` | commits of the branch, oldest first; a head is a position. Who made each is history that no action reads |
| `flight` | pushes that the server has neither accepted nor refused |
| `generation` | per cluster, the infrastructure that the operator last verified, rendered into some of the files |
| `worker` | phase and memory of each worker: the operation, what it read (`fresh`, `source`, `head`), what would confirm its publication |
| `faults` | history: crashes, lost sessions, push timeouts so far |

### Actions

- Administrators (each one transaction that waits for the lock): `SaveSettings`,
  `EnqueuePreview`, `EnqueuePublish`, `ReplaceCredentials`, `ValidateRepository`.
- `run_one`: `Claim` commits `queued -> running`; `Execute` locks the running operation
  and reads its rows. The transaction stays open until the outcome is committed
  (`Finish`); if its session was lost, nothing is recorded.
- `execute_operation`: for a publication first `ReadRefs`, `CloneToRecover` and perhaps a
  confirmation (`recover_preview`); then `Check` (configuration, operator's snapshot);
  then `ReadRefs` and `CloneToPreview`, `PreviewReady` (`prepare_preview`), or
  `CloneToPublish`, `Gate` (`assert_fresh`), `SendPush`/`PushNotSent`, `PushAnswered`
  (`publish_preview`); `Confirm`, `ConfirmAgain` (`_confirm`); `Fails` at any of the
  reads.
- The Git server: `Accept` (fast-forward only), `Refuse`.
- Environment: `CustomerCommit`, `NewGeneration`, `Crash`, `LoseSession` (the thread goes
  on without its lock), `PushTimesOut` (the push is killed and may still land).

Every read of the remote is its own step, so `main` may move between the listing of
the refs, the clone, the push, and each turn of a confirmation.

Abstractions, and why they are safe:

- A cluster's files are two parts, those that carry the operator's allocation and the
  one that carries the ACME contact. That is what the merge treats differently: a
  manual edit of the allocation is refused, one of the contact is kept. `tidy` stands
  for form: byte-for-byte what the portal renders, READMEs included.
- The shared bases (their pin and `.gitmodules`), the text of manifests, their
  validation and the kustomize build only add ways to end in conflict or failure.
  `Fails` is one; a conflict for these reasons is not told apart from it.
- `main` only grows. A customer who rewrites it (force-push) is not modelled.
- Two commits of one operation with the same parent are one position: the code
  compares SHAs, but at most one of them can be on `main` at that position.
- One repository. Operations of different repositories share neither lock nor branch.
  The URL of a repository is locked while it is used (`RepositoryBound`, section 6); a
  cluster is not moved to another repository; decommissioning is in section 6.
- An editor saves over the version it has seen last; a stale save is refused by the
  code and changes nothing. The compare-and-set write of the credentials and the legacy
  pin of a secret's version are in `PortalRepositories`.

The abstract specification `ApprovedPublication` says what a customer is promised: main
grows only by the customer's commits and by *atomic* publications, each of an approved
preview, on top of exactly the head that was approved; success is reported at most
once per operation, with a commit that holds the meaning of what was approved. The
mapping reads the approvals off the publish operations and the reports off
`result_commit`.

## 4. The OpenStack operator

The operator is one process (one replica, strategy Recreate) of kopf handlers. A handler
or timer is synchronous: kopf starts it in a thread with the spec and the status *as
they are then*, and writes its patch when it has ended. Per record there is one change
handler and one of each timer at a time; different records' threads overlap freely. The
garbage collectors are daemons and the listener of new users a coroutine; their calls
block the event loop, so nothing is started or patched while they work, though threads
that run go on. Both halves model exactly this: a thread is a memory of what it was
started with, a step is one exchange with OpenStack or Kubernetes, and `LoopFree` guards
starts and patches.

### Projects

    OpenStackCloud               Keystone, Neutron, OpenBao: one operator per call or helper
      ProjectRecords             OpenstackProject records, kopf's memory, users, plans
        ProjectHandlers          create and update
          ProjectRemoval         delete, and the periodic reconciliation
            ProjectOperator      collector, listener, crashes; properties
              MCProjectOperator  instances

| variable | code |
|---|---|
| `cr` | the records: spec, last handled spec, finalizer, and the status (phase, projectId, groupId, ids of networks and security groups); `born` and `stamp` are their order and `creationTimestamp` (a second's resolution); `renamed` is history: whether spec.name was ever another |
| `project`, `direct`, `parts`, `keys` | projects by name with the operator's tag and the contract's, direct roles, networks and security groups, transit keys |
| `group`, `rules` | groups with their members, and the mapping's rules, both by the name of the group (`GroupOf`, i.e. `make_group_name`) |
| `known` | users that Keystone has seen |
| `task`, `tick`, `loop` | what runs of each record's change handler and timer, of the collector and the listener |
| `waived` | history: records whose handler went ahead although the others could not be listed |

`Claim` (find_project_owner_cr), `EnsureProject`, `MarkProject`, `EnsureGroup`, `Furnish`,
`Bind`, `ReadRules`, `WriteRules` and the two patches are create; `Retag` and `Refurnish`
belong to update; `ListForDelete`, the rules and `Destroy` to deletion; the timer checks the
project, binds and maps. The mapping is read in one step and written whole in another.
Calls whose order nobody else can see are one step (quotas with networks; the parts of a
deletion, any of which may fail alone).

An edit may change any of the spec, the name included: the CRD has no field that must stay.
What the handlers of a record go by then differs, and the model keeps the difference: update,
bindings and deletion use the ids in the status; the claims of others, the listing of a
deletion, the timer's look-up and the collector use the name in the spec. `sanitize_name`
maps several project names to one group name, so groups and rules are not kept by project:
`GroupOf` is any function from the names of projects to those of groups, and two projects
may share a group. A record has at most one network and one
security group. `Fail` ends any step with an error, `Crash` all of them.

### Cluster-scoped resources

    ClusterCloud                 domains, flavors, images, networks, archive policies
      ClusterRecords             the records, the registry ConfigMap, users, Glance
        ClusterHandlers          create, update, delete of the five kinds, as lists of steps
          ClusterTimers          reconciliation, the image poll, the patches
            ClusterOperator      the collector, crashes; properties
              MCClusterOperator  instances

The five kinds differ in which steps their handlers take, so a handler *is* a list of
steps (`CreateDomain`, `UpdateFlavor`, `DeleteImage`, ...), and each step is an action. The
settings of a resource are two values: `core`, which forces a new resource or is refused,
and `extra`, updated in place. The registry is read by key, read whole and written whole
(`ReadBlob`, `ReadWhole`, `Enlist`/`Delist`), as registry.py does. An image's status carries
its retries and `importStartedAt`, of which the model keeps absent, recent, and older
than 600 seconds. An image in Glance is bare, `queued`, `busy` (Glance's saving, importing and
uploading), active or killed; `ImportGoesOn` takes a queued or busy one to any of the other
states of an import, or never. Records may be renamed; the resource of the old name
stays in OpenStack and in the registry. Where an update finds no id and creates, what goes wrong ends
in Error by the update's own handling, a missing external image included (`PutOfCreate`).

## 5. The customer-cluster operator

    ManagedInput                 declaration and profile, the three hashes, the files in Git
      ManagedCloud               OpenStack resources and what the worker says of each
        ManagedWorker            Jobs, Pods, Provisioner, publish_inventory, other committers
          ManagedCluster         reconcile, kopf, ArgoCD, Kubernetes, faults; properties
            MCManagedCluster     instances

| variable | code |
|---|---|
| `mc`, `profile`, `project`, `present` | the ManagedCluster with its status, its ClusterProfile, its OpenstackProject, and whether the Secrets a Job needs are there |
| `jobs`, `inputs`, `pods` | every Job ever made (`deleted` when it is gone), input ConfigMaps by Job name, and the worker in each Job's Pod |
| `cloud` | resources by name, several of a name allowed, with maker, owner tag and state (bare, whole, altered) |
| `head`, `tree` | the commits of the clusters' branch: declaration, hosts, policy, and who wrote them |
| `bucket` | the verification interval |
| `task` | what runs of the change handler and of the timer, with the status they were called with |

`reconcile` is `Survey` (under the lock of the UID: suspended, project, input, drift),
`SeeJobs` (list, trim the history, read results), `CreateInput`, `CreateJob`, and
`PatchStatus`, which kopf does after the lock is free again: a patch can overtake another.
The worker is `Look`, `Create`, `Tag`, `Finish` for each resource, `Prune`, then `Clone`, `Push`,
`Confirm`, `Conclude`. Kubernetes starts Pods, retries them (`BackoffLimit`), ends them at the
deadline, and collects what a deleted object owned while its Pod still ends.

Abstractions: a hash is the data it is taken of; one resource stands for each kind (one
of four security groups, one node); the text of inventories is what they are of. A
security group rule that nobody declared is `altered`, a missing one `bare`.

## 6. The portal's other services

    PortalRecords                rows, two management repositories, role bindings, OpenBao, locks
      PortalClusters             create, edit, access, decommission
        PortalCredentials        kubeconfigs
          PortalRequests         change requests
            PortalRepositories   address and credentials of the customer's repository
              PortalServices     the whole: errors, lost sessions; properties
                MCPortalServices instances

One tenant cluster with everything the portal keeps of it. A handler takes a request of
the plan and goes through its steps; between two steps (each a call to Git, Kubernetes,
the tenant cluster or OpenBao, or the commit) others run. `locks.row` is the row lock of
`locked_cluster` or the advisory lock of a slug, `locks.repo` the advisory lock of the
repository. Requests and their application take no lock, as in the code: their writes
wait for the row at commit (`RowFree`). `Refuse` is an HTTP error, `Fail` any error or a
death, `LoseSession` takes the locks away while the handler's call goes on; it then
cannot commit.

| variable | code |
|---|---|
| `db` | the row of the cluster, grants, kubeconfig issuances, requests, the addon |
| `git` | the manifest, the project of its infrastructure, the backup project; what Argo CD has applied of them |
| `bindings` | the portal's role bindings in the tenant cluster, labelled with the user |
| `store` | the repository's row, the versions of its secret, the operations that lock its address |
| `seen` | history for the properties: bindings of a failed cascade or a lost session (`strays`), readers pushed to Git by a handler without its session or by a customer_admin grant that is not committed (`readers`), overlapping resizes, pushes of a creation that lost its session (`late`) |

Abstractions: a push is atomic (clone, edit and push are retried until the push is a
fast-forward, git_backend.py), and a push that fails is `Fail`; users are subjects; the
connection's API address and CA are one value (`ca`); certificates, their expiry and
kubeconfig files are data. One cluster: clusters share only the contract and, through
GitOps, the repository, whose queue is in section 3.

## 7. What is checked

| run | instance | question | result |
|---|---|---|---|
| `billing_consistency` | two instances: 1 report, 2 workers, 2 handlers, 2 faults, expiry, 4 requests and faults; 2 reports of one job, 1 worker, 2 handlers, 3 requests | `OneProcessor`, `RunMatchesReport`, `OneLiveReportPerJob`, `DeliveredIsFinal`, `ClaimsWhatIsLive` | hold |
| `billing_retention` | 1 report, 3 hours in windows of 2, 2 files, 2 workers, 1 handler, 1 request, 2 faults, expiry | `TypeOK`, `RenderedInFull`, `SucceededMeansDelivered`, `SucceededMeansDownloadable`, `RepeatedOnlyIfLost` | hold |
| `billing_liveness` | 1 report, 2 workers, 1 handler, 2 requests, 1 fault, expiry; `FairSpec` | `ReportsSettle`, `RunsSettle` | hold |
| `billing_purge_race` | 1 report, 2 workers, 2 handlers, expiry | `PurgeSparesLiveReports` | violated |
| `gitops_publication` | 1 cluster, 1 operation, 2 workers, 1 customer commit, 2 generations, 2 faults | `PublishesAsApproved` (refinement), `PushesCurrentConfiguration` | hold |
| `gitops_merge` | 1 cluster, 2 operations, 1 worker, 1 customer commit, 1 fault; `FairSpec` | `ManualEditsSurvive`, `BaselineOnMain`, `OneActiveOperation`, `OperationsSettle` | hold |
| `openstack_projects` | 2 records of one project, of two projects, of two projects with one group, or one that is edited, or renamed beside one that takes a name it had or has; 2 threads; 2 or 3 changes and faults | `OneOwner`, `CollectorSparesUsed`, `DeletionSparesListed` | hold |
| `openstack_repair` | 2 records that were handled before, an orphan, a new record, a handled one that is renamed, or whose group another project shares for a while; `SettledSpec` | `SpecsAreHandled`, `DeletionsEnd`, `OrphansCollected`, `DriftRepaired` | hold |
| `openstack_cluster` | a record of each kind, edited and renamed, an import, an image that becomes external or ceases to be, one that is renamed, an orphan of either name with its collector; 2 or 3 changes and faults; `LedSpec` | `ImportsBounded`, `ImportsSettle`, `RegisteredCollected` | hold |
| `openstack_external` | 1 external image, 4 changes | `ExternalImagesSpared` | violated |
| `cluster_operator` | 8 plans: faults at every resource, two calls at a time, edits, a policy by hand, recreation, disturbed resources, trimmed history; `FairSpec` | `OneOpenJob`, `InputsKept`, `ReceiptTrue`, `PublishesOwned`, `ManualPolicySurvives`, `GenerationsAnswered` | hold |
| `portal_services` | 3 handlers, 26 plans of 2 to 8 requests, 2 faults | `LostAccessIsLost`, `CredentialsAccounted`, `GitCoversCluster`, `CreatedAsPublished`, `DecommissionedIsGone`, `RepositoryBound` | hold |

A *plan* is how the larger models keep an instance small: it says what may be requested,
how many changes and faults there are (`events`), and how many threads run at once. A run
checks all its plans, in every order their requests and faults can take.

**Bounds, billing.** `MaxReports`, `MaxRetries`, `MaxFaults` cap the history; `Workers`,
`Clients`, `Jobs`, `Series`, `Files`, `PeriodHours`, `WindowHours`, `Elapses`
choose the instance. Two workers and two handlers are what every race in the
hazards needs; three requests let one job be run, retried and run again; two
faults let a lock be lost and its second owner crash, or one report lose both
of its locks, so that two threads process it; one retry is enough for a report
that is purged between the retry's read and its commit. Two reports of one job are
needed only for the index. Three hours in windows of two give a whole and a cut
window and one split; two files let a delivery stop half way. Symmetry (workers,
handlers, files) is used in the safety runs only. Deadlock is not checked:
when all work is done and all requests are spent, the system rests.

**Bounds, GitOps.** `MaxOperations`, `MaxVersion` (the repository's and a cluster's
versions together), `MaxEdits`, `MaxGeneration` and `MaxFaults` cap the history. One
operation and two workers suffice for publication: an operation may fail and be
approved again any number of times, a lost session puts two threads on it, and the
second fault kills one of them or times out its push. Two operations give a first and
a second publication of a cluster, whose merge starts from the first one's baseline,
with an edited or deleted contact file in between. `ConfirmReads` is 3 in the code and
2 in the runs: the second turn is already one that starts after main has moved.
There is one cluster in the runs: operations of a repository are taken oldest first,
and a second cluster would only make another cluster's operation wait. Two clusters
are covered by the proofs. Deadlock is not checked: a settled repository rests.

**Fairness, GitOps.** Weak fairness of `Work(w)`, since a worker polls every three seconds
and Git commands and HTTP calls have timeouts, and of `Server`: a push is accepted or
refused, or its connection breaks. Failing (`Fails`) owes nothing, and neither do administrators,
customers, the operator and the faults, which are bounded.

**Fairness, billing.** `FairSpec` assumes weak fairness of `Work(w)` for each worker: the
container is restarted when it dies, and every external call has a timeout, so
a worker with something to do does something. `Fail` is always among what it may
do, so fairness never relies on a query or a delivery succeeding. Requests,
faults, expiry and the purge's SELECT owe nothing. Faults are bounded, hence
"eventually" means once they stop.

**Mutants.** For every property a slip of the code is written beside the
definition it would change (a lock not consulted, a parent shard left to be
queried, a run forgotten, outputs kept by the purge, ...); with the slip in
place the property fails.

The properties that exempt `overrun` reports do so because of the findings: a
report the purge took from a live owner, or that a stale claim set running, has
lost its run or its outputs. Two properties, `OneProcessor` and
`RepeatedOnlyIfLost`, also exempt `unfenced` reports: when the connections of
both locks drop, nothing keeps a second thread from the report. The others hold
even then: content stays complete, what succeeded was delivered, and runs agree
with reports.

**Bounds, OpenStack operator.** There are two `Records`: a race for a project, for a group,
for the mapping or for the registry needs two. Names are two, and in the project half a third
one that shares its group with the first. `Plans` give each record the specs it may
have; `MaxEvents` caps changes and faults together; `MaxIds` the ids OpenStack gives out,
never reached before the events are spent. Two threads are what two handlers, or a
handler and a timer, need; in `openstack_external` three, since two timers and an edit
meet. The plans whose image becomes external, ceases to be or is renamed have one, to keep liveness
in reach: an import that one spec began is polled under the other, but the patches do not overlap.
That they may, `ImportsBounded` has from its proof and, for one spec, from the plan of an import.
The repair plans start from records that were handled before (`SettledInit`), a state
`Init` leads to, so that a few events suffice to disturb it.

**Bounds, cluster operator.** `MaxUids` and `MaxGens`: the object is made again once and edited
twice. `MaxBuckets`: two verifications after the first. `MaxJobs` and `MaxCommits` are never
the limit within a plan's events. `HistoryLimit` is 2 in the code and 1 in the run, so that
trimming happens; `Retries` 2 and `BackoffLimit` 1 give each a second attempt and an end. Most
plans provision three kinds of resources, the two on faults and disturbances all of them.

**Bounds, portal services.** Three handlers: two that contend and one that finds what they
left. `MaxCreds` and `MaxFaults` cap kubeconfigs and faults, the plans the worker groups; each
plan is one part of a cluster's life, so that requests that can disturb each other are
in one plan. Handlers are symmetric; none of the properties is a liveness property.

**Fairness, OpenStack operator.** Strong fairness of what starts, steps and patches of each
record's handler and timers, and of the collector: kopf calls what is due again and
again and asyncio runs what is ready in turn, but each is disabled while the loop is
held or the threads are busy. A failed handler is retried by kopf. Users, new logins,
Glance and faults owe nothing: an import may stay queued or in work for ever. The poll gives up
a queued one after 600 seconds, which do pass (`ImportAges`, weakly fair); it never gives up
one that Glance has in work, hence the exemption `InWork` of `ImportsSettle`.

`DriftRepaired` is stated for a record that comes to rest (`<>[]Steady`), alone with its project
and its group. `RegisteredCollected` speaks of every name under which a record that is gone was
registered, of the four kinds that are collected (archive policies are not). `ImportsBounded`
speaks of an image record that is `Alone`: its name does not change and no other may have it.
`OneOwner`, `CollectorSparesUsed` and `DeletionSparesListed` speak of records that kept their
name (`KeptName`), beside others that did not; section 8 says what becomes of the others.

**Fairness, cluster operator.** The change handler strongly (it waits for the lock, which the
timer gives back for 30 seconds between two calls), the timer, the Pods, ArgoCD and
Kubernetes weakly. Every Job ends: the worker's calls have timeouts, the Job a deadline.

In the runs with plans deadlock is not checked: when the requests are spent and the
records at rest, the system rests.

## 8. Findings

Two runs show a disagreement with what the code says of itself:

1. `billing_purge_race`: `purge_expired` selects ids and updates them later by id
   alone (`billing_worker.py:55`). A retry that commits in between is overwritten;
   its run stays `running` and blocks the job's period.
2. `openstack_external`: `poll_image_status` never looks at `spec.external`. An external image
   whose owner replaces it twice can be found queued with an `importStartedAt` from the
   first time, and is deleted (`handlers/image.py:366`), although "External images are
   not deleted - we don't own them" (`handlers/image.py:250`).

Seen while modelling, in the models as the code has them, with properties stated so that
they allow for them (no run is kept for each):

- A stale retry requeues a report that runs or has succeeded (`billing_report_state.py:14`); a
  stale claim after a lost lock sets an ended report running (`billing_worker.py:107`). For
  delivered reports the CHECK constraint stops both (`DeliveredIsFinal`, proved).
- `recover_preview` runs before the first push too and compares by meaning: a preview that
  differs from main only in form is recorded as published and nothing is pushed
  (`gitops_worker.py:103-114`, `customer_gitops.py:337-364`).
- An edit of `spec.name` makes `update_project` (`openstack-operator/src/handlers.py:517`) work on
  under the new name with the project of the old one: it keeps `projectId` and never asks
  `find_project_owner_cr`. A new record of the old name then adopts the same project, and both are
  Ready with it; the collector, which knows names only (`handlers.py:941`), takes the project for an
  orphan and deletes it; and the deletion of the renamed record, which looks for others of its new
  name (`handlers.py:729`), destroys the project that the new record has adopted. Without `KeptName`
  each of the three safety properties fails in the plan `Renamed`, in these ways. A
  record that is renamed and renamed back while the timer looks for its project ends Pending and
  without its ids.
- Project names that differ in case, dots or underscores (`a.b`, `a-b`, `A_b`) have one group and one
  rule (`utils.py:21`, `federation.py:147`): every handler and timer of one project replaces the
  users of the other, who thereby get the roles of both, and whichever project is deleted
  or collected first takes the group, and on deletion the rule, of the other. Nothing in the code
  prevents it or repairs it while both are there. Bindings that have no users leave the older
  rule of the name alone (`handlers.py:890`).
- An import that is saving, importing or uploading has no timeout: "only timeout on queued"
  (`handlers/image.py:342-352`). The record waits as long as Glance does.
- A cluster-scoped record that is renamed leaves its old resource behind, registered under the old
  name, until the record is gone.
- A customer_admin grant pushes its reader to Git before its commit (`clusters.py:811-817`). When the
  commit fails the user is a reader of the project without a grant, until the next grant or
  removal of a customer_admin writes the list anew; those of role user do not (`clusters.py:877`),
  although "Horizon visibility tracks portal state" (`clusters.py:91-92`). `LostAccessIsLost`
  exempts these readers (`seen.readers`).
- A project that vanished is never made again: the timer writes `Pending`, which no handler
  looks at (`openstack-operator/src/handlers.py:829`); the same for every cluster-scoped
  kind but images.
- `spec.description` and `spec.enabled` of an edited project are compared with paths that
  never occur and are not applied (`StartUpdate`). Of several role bindings the last one
  decides a group's members (`MembersAfter`).
- Orphaned projects leave their mapping rule behind: the collector reads a key that the
  ConfigMaps do not have (`CollectOrphan`).
- A project that is adopted from elsewhere gets the operator's tag, and is destroyed with
  its record.
- Two handlers that register at once can lose one registration (`registry.py:126`).
- A resource whose worker died between creation and tag is refused for ever
  (`openstack.py:199`); this is what keeps `PublishesOwned`.
- A call that was cut off between creating the Job and its patch leaves no `inputHash`, so
  the next edit of the infrastructure is not refused as drift (`controller.py:281`).
- A request that is applied and denied at once has what the last commit says
  (`cluster_request_service.py:277`); two resizes of different sizes at once can leave the
  quota of one with the groups of the other (`seen.overtaken` in `GitCoversCluster`).

- Two image records of one name share the image, and take it from each other: what one's timers
  delete as stuck, the other's find missing and make again, with its own count of retries, so
  that two changes may lead to any number of imports. `ImportsBounded` therefore speaks of a
  record that is `Alone` with its name. A record alone that goes from external to managed can
  make more than three images for a change, which is why the bound is four: the image of
  the change itself, two retries, and one for an image that vanished or that a patch
  from a stale copy made the record forget.

## 9. What is proved

Every safety property that a run checks and finds to hold is a theorem, for every value of
the constants; liveness is model-checked only.

### Billing

All theorems hold for any number of reports, jobs, series, files, handlers and
workers, any period and window length, any number of faults. They assume only
what the modules state: positive lengths, `Files` not empty, the null values not
among the real ones, one report per run.

| module | theorem | property |
|---|---|---|
| `BillingReportsProofs` | `WindowsTile` | the windows of any period tile it |
| | `TypeCorrect` | `TypeOK` |
| | `ProcessedAlone` | `OneProcessor` |
| | `RunsFollowReports` | `RunMatchesReport` |
| | `OneReportUnderWay` | `OneLiveReportPerJob` |
| | `DeliveredForGood` | `DeliveredIsFinal` |
| `BillingContentProofs` | `EveryHourOnce` | `RenderedInFull` |
| `BillingDeliveryProofs` | `SuccessIsDelivery` | `SucceededMeansDelivered` |
| | `SuccessIsDownloadable` | `SucceededMeansDownloadable` |
| | `RepeatsOnlyLosses` | `RepeatedOnlyIfLost` |
| | `ClaimsAreLive` | `ClaimsWhatIsLive` |

The argument is one inductive invariant, grown in layers; each module extends
the one before.

- `TypeOK /\ LockInv`: a worker inside `process_report` holds the inner lock of
  the report it works on, unless the report is unfenced. `OneProcessor` is not inductive without saying *who*
  holds the lock: releasing it on a crash frees exactly the crashed worker's.
- `Safe` adds `HandlerInv` (a handler about to write knows its report) and
  `RowsInv`: every row satisfies the CHECK constraint, a report that succeeded or
  expired has given up its configuration, a job's report is always delivered,
  and runs agree with reports. These explain *why* stale writes are harmless:
  a stale claim, failure or retry of a delivered report that succeeded would
  leave work without its configuration, which the constraint refuses.
- `ContentInv`: the unsplit shards of a report tile the period, from planning on
  and through answers and splits; outputs keep a tiling once rendered. It needs
  that a split replaces a window by two that meet at its midpoint
  (`WindowsTile` and its lemmas), by arithmetic alone. What a worker may rely on between
  two of its steps is the lemma `Undisturbed`: with its inner lock, nothing of the
  report changes; without it, shards and outputs still do not go and what is sent
  stays sent, which is enough for content and completeness.
- `CompleteInv`: what a worker still has to deliver covers every file not yet
  sent; what is sent was accepted.
- `RepeatInv`: acceptances exceed the lost ones by at most one, and by none for a
  file that is still to be delivered - for reports that are not `Excused`
  (overrun or unfenced).
- `FenceInv`: as long as `faults = 0`, a worker holds the outer lock from claim to
  release, so the report it read as queued is still queued (or deleted) when the
  claim commits.

Only model-checked: `ReportsSettle` and `RunsSettle`. Liveness rests on fairness and
`ENABLED`, which the prover does not treat. The violations are shown by TLC alone.

### GitOps

For any number of clusters, contacts, workers, operations, commits, generations,
faults and confirmation turns; assumed are the null values not being real ones and a
default contact (the `ASSUME`s of the modules).

| `GitOpsProofs` | property |
|---|---|
| `TypeCorrect` | `TypeOK` (no run lists it) |
| `OnceOnMain` | `PublishedOnce`: main has at most one commit of an operation (no run lists it) |
| `OneAtATime` | `OneActiveOperation` |
| `TrueBaseline` | `BaselineOnMain` |
| `Implements` | `PublishesAsApproved`: `Spec => Abstract!Spec` |
| `CurrentPushes` | `PushesCurrentConfiguration` |
| `EditsSurvive` | `ManualEditsSurvive` |

One inductive invariant carries all of them (`Invariance`): `TypeOK`,
`OneActiveOperation` and

- `RowsInv`: an operation that was approved has a preview; a preview is of its
  operation's cluster and of a head that main has or had; a result is a commit of
  main that holds the meaning of the approved files, and only success has one;
- `RecordInv`: the same of every cluster's recorded publication and its baseline;
- `WorkersInv`: what a worker's phase says of its operation; and if the worker still
  holds the lock, its operation is running, and past the check the configuration is
  still the approved one;
- `FlightInv`: a push in flight is a child of the approved head of its operation, with
  the approved files for its cluster and the rest as main had it;
- `MainInv`: the same of every commit of the portal on main, at the position after
  the approved head.

`MainInv` gives `PublishedOnce` at once: an approved preview never changes, so all commits of
an operation claim one position. It needs that main only grows, that a push carries
its parent, and that an approved operation is never prepared again, although two
threads may execute it when a session was lost: only `Finish` with the lock writes a
preview. What a step may rely on of the workers it does not move is the lemma
`StandsAside`. The step simulation has one case per kind of step: `Accept` is
`Publish`, `RecordPublication` is `Report`, `EnqueuePublish` of a preview is `Approve`,
`CustomerCommit` is itself, all else stutters.

`ManualEditsSurvive` needs a second invariant on top, `EditsInv`: every file that a preview
changes was written by a publication of its cluster, or was absent while nothing had been
published (`PreviewsInv`); a cluster's baseline is the files of one of its publications, or
nothing without any (`BaselineInv`); and what a worker merged still merges while it holds the
lock (`MergedInv`). Only model-checked: `OperationsSettle`.

### OpenStack operator: projects

For any number of records, names, users, handlers, timers, edits and renamings, faults and ids,
every plan and every way in which names share groups; assumed are `CloudAssumption` and
`RecordsAssumption` (bounds are numbers, a project has one group name, plans hold well-formed
specs, records are numbered from 1).

| `ProjectOperatorProofs` | property |
|---|---|
| `InvariantHolds` | `Inv`, below |
| `OneOwnerHolds` | `OneOwner` |
| `CollectorSparesUsedHolds` | `CollectorSparesUsed` |
| `DeletionSparesListedHolds` | `DeletionSparesListed` |

`OneOwner` compares the stamps of two records, but what it rests on lies further back: each
read the list of records once, before it had a project, and wrote its status much later.
`Inv` keeps what the reading still says:

- `LifeInv` says which handlers run together. A create handler never runs beside a timer or on a
  record that is Ready, so a stale patch of the timer cannot give a project to a record
  that has not passed `Claim`; what runs was begun for the record's name, if that was kept.
- `ClaimInv`: whoever kept its name and has a project, or runs past its claim, is younger than no
  record that lives and kept that name, unless it is `waived`. That stays true because stamps never change and
  records made later are not older (`AgeInv`). The number that breaks ties is of no help: a
  record of the same second may be made after the claim and precede it, which is why
  `OneOwner` allows equal stamps.
- `ApartInv`: an id, wherever it stands (a project, the list of orphans, the status of a record that
  kept its name and what its handler or timer remembers: `Uses`), is of one name for ever, since
  only `EnsureProject` gives ids out to projects, and to the name it was called with. The
  ids of a renamed record are of another name than its own; the invariant leaves them out,
  and they harm nobody else's: what its handlers do to a project by id adds no id to a name.
- `DeleteInv`: records that a deletion did not list were born after it listed, or renamed.
- `CollectInv`, `LoopInv`: while the collector works nothing starts and nothing is patched, so
  a record that it did not list, and that kept its name, has neither project nor handler; with
  `ApartInv`, no id of an orphan is such a record's.

A renaming (`EditRecord`) takes its record out of all of these at once, and no step brings it back:
`renamed` only falls when the record is gone, with its handlers. The three theorems thus
say what a record may rely on as long as it keeps its own name, whatever others do to theirs.

Each action changes the row of one record, or none (the collector, the listener, the world),
or all (`Crash`): the lemmas `OneMoves`, `UntouchedKeeps` and `AllMove` say what of the invariant
follows from what a step does to each row. `Typed` is the types without the members of groups,
which a fold over bindings computes. Only model-checked: these, and the liveness properties
`SpecsAreHandled`, `DeletionsEnd`, `OrphansCollected` and `DriftRepaired`.

### OpenStack operator: cluster-scoped resources

For any number of records, names, settings, edits, faults and ids, and every plan of kinds,
specs, events and threads; assumed are `ClusterCloudAssumption` and `ClusterRecordsAssumption`
(bounds are numbers, plans hold well-formed specs).

| `ClusterOperatorProofs` | property |
|---|---|
| `Invariant` | `Inv`, below |
| `ImportsAreBounded` | `ImportsBounded` |

`ImportsBounded` is far from inductive: an image is made when a thread has found none, for
reasons that lie several patches back. `Inv` is `Typed`, `Fits` and `Budgeted`.

- `Fits` says what the rows agree on. An id is of one resource, of one kind, and of a name that
  its record may have (`Stocked`, `Named`, with the names `Mine` that the plan allows, for an edit
  may change the name and leave the id). kopf's finalizer stands before any status (`RecordFits`),
  and no record counts more than two retries. A running thread works for a spec its record may have,
  on a suffix of its handler's steps (`ChangeFits`, `TimerFits`, `PollFits`); a poll
  remembers at least as many retries as the record has, so its patch never gives one back.
  What the collector deletes belongs to records that it did not list, and kopf does not
  hold these (`CollectorFits`, `Strange`).
- `Budgeted`: the images made, and those `Ahead`, are at most `4 * events`. `Ahead` counts what
  may still be made without a further change or fault: the `Retries` left, as the record or a
  poll's pending patch counts them, whichever is more; what the `Change` handler that runs or
  is due may cost; one if a poll is about to call a vanished image Ready (`Owed`); and one if
  a managed record is `Bare`. A record is `Covered`, the opposite, by an active image that no
  poll is about to drop, by a timer that is bringing one, or by being in a phase in which the timers
  leave it alone. The cover is what the hand-over between the two timers comes down to: the
  poll writes Pending over a deleted image only with a retry spent, and the other timer makes
  a new one only where the cover had gone. All this is about the images of one name, so `Budgeted`
  speaks of a record that is `Alone`. Of the states of an import it uses only that an active image
  stays active; queued and busy ones may change as they like.

One lemma per kind of step (`...Paid`) shows that it pays for what it makes: a step that makes an
image lowers `Ahead` by one at least, no other step raises it, and an edit, a fault or a crash raises it
by at most four (`AheadFour`, `AheadOfEdit`, `AheadOfCrash`). Steps of other records leave the
record's images alone (`ForeignStep`, `PaidByOthers`), which is where `Alone` is used; the
collector takes them only when it had not seen the record, which then has no status that
counts on them (`CollectionPaid`). Only model-checked:
`ImportsSettle` and `RegisteredCollected` (liveness); TLC alone shows
`ExternalImagesSpared` violated.

### Customer-cluster operator

For any number of Jobs, Pods, recreations of the object, edits, faults and commits, every
plan and every limit of the history; assumed are the `ASSUME`s of the modules: the values of
absence are no real ones, limits are numbers, plans hold declarations.

| `ManagedClusterProofs` | property |
|---|---|
| `TypeCorrect` | `TypeOK` |
| `OpenJobAlone` | `OneOpenJob` |
| `InputsStay` | `InputsKept` |
| `ReceiptIsTrue` | `ReceiptTrue` |
| `OwnedIsPublished` | `PublishesOwned` |
| `ManualPolicyStays` | `ManualPolicySurvives` |

`Inv` (`InvariantHolds`) joins what the five parts promise one another:

- `JobsInv`, `OneOccupant`, `TaskInv`: of one UID at most one Job can still have a worker, and
  a call that has listed the Jobs and found none open is alone with the lock until it
  has made its own. `OneOpenJob` is not inductive without the calls: two that
  had both listed would both create.
- `InputsKept` needs that `cleanup_history` removes only what its own listing, taken under
  the lock, calls ended, and that ended Jobs do not reopen.
- `PublishInv`: what a worker remembers of its clone is true of that commit (`Informed`), and
  what it pushes is a child of it. With `ReceiptInv` a success names a commit that holds the
  Job's input (`Holds`) in the Job, in the patch on its way and in the status.
- `CloudInv`: what an active worker has passed exists with its UID's tag (`Provided`): an
  untagged resource is refused, never adopted, and only the worker of this UID deletes.

The action property follows from `PublishInv`: a push has the clone's policy, and the remote
takes it only on top of the clone. Only model-checked: `GenerationsAnswered` (liveness).

### The portal's other services

For any number of handlers, users, kubeconfigs and faults and every plan of requests;
assumed are `PortalAssumption`, `PlanAssumption` (a plan holds well-formed requests) and
`NoneAssumption`.

| `PortalServicesProofs` | property |
|---|---|
| `TypeCorrect` | `TypeOK` |
| `RepositoryStaysBound` | `RepositoryBound` |
| `DecommissionIsFinal` | `DecommissionedIsGone` |
| `CredentialsAreAccounted` | `CredentialsAccounted` |
| `AccessIsLost` | `LostAccessIsLost` |
| `GitKeepsCovering` | `GitCoversCluster` |
| `CreationIsPublished` | `CreatedAsPublished` |

`Inv` says for each operation what a handler has found out and may rely on:

- `HoldsInv`: a lock is of the one handler that took it and has its session still. All that
  follows is said of such handlers; a lost session can do nothing but end.
- `RequestsInv`, `StateInv`: a request does not change under its application; a live cluster
  is not created, nor one that is not there edited, while the row is held.
- `RepoInv`: the version that a replacement has just written to OpenBao is of the address it
  has seen, and the address stays under the lock of the repository.
- `CreateInv`: what a creation has pushed is what it is about to register.
- `GoneInv`: what a decommissioning found gone stays gone. Of the writers that take no lock,
  resize only changes files that are there. The apply of a backup request makes the backup
  project if it is not there, also after the decommissioning has looked: `DecommissionedIsGone`
  and the invariant do not speak of that file, but of the cluster's manifest, its
  project and what Argo CD has applied of them. A creation whose session was lost can push after
  the cluster was registered by another and decommissioned: `seen.late` exempts that, in
  `GitCoversCluster` too.
- `CredsInv`, `AccessInv`: ids that are being issued are distinct and unused; a role binding
  outside `seen.strays` is of a user with a grant, and a reader outside `seen.readers` of a
  customer_admin; what a removal has found is all there is. Without the ids, a binding and another's row could account for each other.
- `CoverInv`: the target of a resize bounds the groups from above, the row from below, and
  the quota is at least the one for the groups, as `Quota` is monotone.

## 10. Not modelled

- *Billing:* CRUD of saved jobs other than deletion and the read-only routes (they change no
  report); the price snapshot, fees, synthetic lines and CSV (`billing_runner.py`), sequential
  arithmetic over decimals and text; a session that survives its process; more than one
  period per job (periods share nothing but the job's row). A thread that lost both locks
  and its database session at once is the crash of its worker.
- *GitOps:* what section 3 lists as abstractions; the text and validation of manifests.
- *OpenStack operator:* an edit of `spec.domain` (a record stays in its domain); values of quotas, rate limits, metrics, conditions, events; creation
  of the identity provider and protocol; several networks or security groups of a record.
- *Cluster operator:* several nodes and groups of a kind (their loops repeat the same steps),
  the YAML of inventories, rendering of Jobs.
- *Portal services:* the reader's credential, expiry of certificates, ordinary projects and
  their routes, DELETE of a cluster (always 409), listing and reading, the retries within
  one push, whether a backup project outlives its cluster (section 9, `GoneInv`), a lookup in the management cluster that fails (it refuses, as `Fail` does).
- Administration, authentication, configuration, migrations, the front end and image
  builds: sequential code without protocol state, or no code.

## 11. Plan

*Done:* billing, GitOps, both halves of the OpenStack operator, the customer-cluster operator and
the portal's services, checked and proved.

To model next: `BillingPricing`, pure operators against a reference definition; an abstract
specification of the registry of clusters that `PortalServices` implements.
