------------------------------- MODULE GitOps -------------------------------
(***************************************************************************)
(* What the GitOps operations, their workers and the main branch promise   *)
(* together.                                                               *)
(***************************************************************************)
EXTENDS GitOpsWorker

TypeOK ==
  /\ repository \in [version : Nat, valid : BOOLEAN]
  /\ state \in [Clusters -> ClusterState]
  /\ operations \in Seq(Operation)
  /\ lock \in Workers \cup {Nobody}
  /\ main \in Seq(Commit)
  /\ flight \subseteq Push
  /\ generation \in [Clusters -> Generations]
  /\ worker \in [Workers -> Worker]
  /\ faults \in Nat

\* The approvals are the previews of the operations whose kind is publish, the
\* reports their result_commit.
Approval(o) ==
  IF o \in Ids /\ operations[o].kind = "publish"
  THEN [cluster |-> operations[o].cluster,
        head |-> operations[o].preview.head,
        files |-> operations[o].preview.files]
  ELSE NoPreview

Abstract == INSTANCE ApprovedPublication WITH
  Operations <- 1..MaxOperations,
  NoApproval <- NoPreview,
  approval <- [o \in 1..MaxOperations |-> Approval(o)],
  reported <- [o \in 1..MaxOperations |-> IF o \in Ids THEN operations[o].result ELSE 0]

\* The rows, the workers, their crashes and the late pushes implement atomic,
\* approved publications on top of the head that was approved
\* (customer_gitops.publish_preview, gitops_worker.record_publication).
PublishesAsApproved == Abstract!Spec

\* However often an operation is retried, resumed or pushed late, main has at
\* most one commit of it (gitops_git.push, recover_preview).
PublishedOnce ==
  \A m, n \in DOMAIN main : (main[m].by = main[n].by /\ main[m].by # Customer) => m = n

\* What a commit of the portal replaced is what the portal itself had recorded
\* as published, and it creates a file only where none was ever recorded:
\* no manual edit and no manual deletion is undone (_merge and push).
ManualEditsSurvive ==
  \A n \in DOMAIN main : main[n].by # Customer =>
    LET c == operations[main[n].by].cluster
        before == TreeAt(main, n - 1)[c]
        published == {o \in Ids : /\ operations[o].cluster = c
                                  /\ operations[o].result \in 1..(n - 1)}
    IN \A part \in Parts : before[part] # main[n].tree[c][part] =>
         IF before[part] = Absent THEN published = {}
         ELSE \E o \in published : operations[o].preview.files[part] = before[part]

\* The last publication of a cluster that was recorded is one that main holds
\* at the recorded commit: the next merge starts from a true baseline
\* (record_publication).
BaselineOnMain ==
  \A c \in Clusters : state[c].last_commit # 0 =>
    /\ state[c].last_commit \in DOMAIN main
    /\ Matches(main[state[c].last_commit].tree[c], state[c].baseline)

\* A cluster never has two operations under way (enqueue_preview and
\* enqueue_publish, of several administrators).
OneActiveOperation ==
  \A o, p \in Ids :
    (/\ operations[o].cluster = operations[p].cluster
     /\ operations[o].status \in Active
     /\ operations[p].status \in Active) => o = p

\* A worker that still has its session pushes only under the configuration that
\* was approved, whatever crashed before: no request changes it between the
\* check and the push (execute_operation, under lock_repository).
PushesCurrentConfiguration ==
  [][\A p \in flight' \ flight : lock = p.worker =>
       Current(operations[p.op]) /\ repository.valid]_vars

\* Every operation that waits or runs is settled, across crashes
\* (gitops_worker.run_worker).
OperationsSettle ==
  \A o \in 1..MaxOperations :
    (o \in Ids /\ operations[o].status \in Active)
      ~> (o \in Ids /\ operations[o].status \notin Active)
=============================================================================
