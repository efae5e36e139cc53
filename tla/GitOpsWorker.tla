---------------------------- MODULE GitOpsWorker ----------------------------
(***************************************************************************)
(* The GitOps workers, the main branch of the customer's repository, its   *)
(* committers and the infrastructure that the operator reports.            *)
(*                                                                         *)
(* run_one first commits queued -> running. The next call executes the     *)
(* running operation in one transaction that holds the repository lock     *)
(* while Git and Kubernetes are read and main is pushed, and commits the   *)
(* outcome. A crash or a lost session rolls it back: the operation stays   *)
(* running and any worker executes it again from the start, while the      *)
(* thread of a lost session, or a push already sent, may still take effect.*)
(***************************************************************************)
EXTENDS GitOpsOperations

CONSTANTS
  HandTrees,    \* what customers commit for a cluster by hand
  MaxEdits,     \* bound: commits by customers
  MaxFaults,    \* bound: crashes, lost sessions and push timeouts
  ConfirmReads  \* how often main may move before a confirmation gives up

ASSUME WorkerAssumption ==
  /\ HandTrees \subseteq Trees
  /\ MaxEdits \in Nat
  /\ MaxFaults \in Nat
  /\ ConfirmReads \in Nat \ {0}

VARIABLES
  main,         \* commits of the branch; a head is a position, 0 before the first
  flight,       \* pushes the server has neither accepted nor refused
  generation,   \* of each cluster's infrastructure, as the operator verified it
  worker,       \* where each worker stands and what it holds in memory
  faults        \* faults so far

vars == <<repository, state, operations, lock, main, flight, generation, worker, faults>>

Phases == {"idle", "refs", "clone", "check", "merged", "gate", "push", "pushing",
           "confirm", "refreshed"}
Goals == {"recover", "preview", "publish"}

Worker == [phase : Phases,
           goal : Goals,
           op : Nat,                \* the operation it executes
           fresh : BOOLEAN,         \* its configuration was current and valid
           source : Nat,            \* the generation it read, 0 before
           head : Nat,              \* the head it read last
           candidate : Nat,         \* the head that would confirm a publication
           reads : Nat]             \* confirmations tried

Idle == [phase |-> "idle", goal |-> "preview", op |-> 0, fresh |-> FALSE,
         source |-> 0, head |-> 0, candidate |-> 0, reads |-> 0]

Commit == [by : Nat \cup {Customer}, tree : [Clusters -> Trees]]
Push == [op : Nat, worker : Workers, parent : Nat, tree : [Clusters -> Trees]]

Op(w) == operations[worker[w].op]
Files(w) == Op(w).preview.files
MainHead == Len(main)
In(w, phase) == worker[w].phase = phase

\* The tree of w's cluster at a head.
Tree(w, head) == TreeAt(main, head)[Op(w).cluster]

Init ==
  /\ InitRows
  /\ main = <<>>
  /\ flight = {}
  /\ generation = [c \in Clusters |-> 1]
  /\ worker = [w \in Workers |-> Idle]
  /\ faults = 0
-----------------------------------------------------------------------------
\* A slip in Release: the lock outlives its session.
ReleaseNever(w) == UNCHANGED lock

\* The session ends without effect on the rows; the lock goes with it.
Release(w) == lock' = IF lock = w THEN Nobody ELSE lock

Go(w, phase) == worker' = [worker EXCEPT ![w].phase = phase]

\* The worker finishes w's operation: if its session is still alive, the new
\* rows are committed; otherwise the commit fails and nothing is recorded.
Finish(w, op, row) ==
  /\ worker' = [worker EXCEPT ![w] = Idle]
  /\ IF lock = w
     THEN /\ operations' = [operations EXCEPT ![worker[w].op] = op]
          /\ state' = [state EXCEPT ![Op(w).cluster] = row]
          /\ lock' = Nobody
     ELSE UNCHANGED <<operations, state, lock>>
  /\ UNCHANGED <<repository, main, flight, generation, faults>>

End(w, status) == Finish(w, [Op(w) EXCEPT !.status = status], state[Op(w).cluster])

\* A slip in Recorded: the head of the preview is taken for the commit.
RecordedHead(row, op, head) ==
  [version |-> row.version, contact |-> row.contact,
   baseline |-> op.preview.files, last_commit |-> op.preview.head]

\* record_publication: a compatible manual contact becomes the draft, unless
\* the draft was edited since the preview.
Recorded(row, op, head) ==
  LET adopts == row.version = op.settings_version /\ row.contact # op.preview.files.contact
  IN [version |-> IF adopts THEN row.version + 1 ELSE row.version,
      contact |-> IF adopts THEN op.preview.files.contact ELSE row.contact,
      baseline |-> op.preview.files,
      last_commit |-> head]

RecordPublication(w, head) ==
  Finish(w, [Op(w) EXCEPT !.status = "succeeded", !.result = head],
         Recorded(state[Op(w).cluster], Op(w), head))

\* The oldest operation of the repository that waits or runs.
Oldest(o) ==
  /\ operations[o].status \in Active
  /\ \A p \in Ids : operations[p].status \in Active => o <= p

\* run_one, of a queued operation: the intent is committed by itself.
Claim(w) ==
  /\ In(w, "idle")
  /\ lock = Nobody
  /\ \E o \in Ids :
       /\ Oldest(o)
       /\ operations[o].status = "queued"
       /\ operations' = [operations EXCEPT ![o].status = "running"]
  /\ UNCHANGED <<repository, state, lock, main, flight, generation, worker, faults>>

\* run_one, of a running operation: lock it and read its rows.
Execute(w) ==
  /\ In(w, "idle")
  /\ lock = Nobody
  /\ \E o \in Ids :
       /\ Oldest(o)
       /\ operations[o].status = "running"
       /\ worker' = [worker EXCEPT ![w] = [Idle EXCEPT
            !.phase = IF operations[o].kind = "publish" THEN "refs" ELSE "check",
            !.goal = IF operations[o].kind = "publish" THEN "recover" ELSE "preview",
            !.op = o,
            !.fresh = Current(operations[o]) /\ repository.valid]]
  /\ lock' = w
  /\ UNCHANGED <<repository, state, operations, main, flight, generation, faults>>

\* GitRepository.customer lists the remote refs and then clones.
ReadRefs(w) ==
  /\ In(w, "refs")
  /\ worker' = [worker EXCEPT ![w].phase = "clone", ![w].head = MainHead]
  /\ UNCHANGED <<rows, lock, main, flight, generation, faults>>

Step(w, phase) ==
  /\ Go(w, phase)
  /\ UNCHANGED <<rows, lock, main, flight, generation, faults>>

\* _confirm starts from the head it expects to find.
StartConfirm(w, candidate) ==
  /\ worker' = [worker EXCEPT ![w].phase = "confirm", ![w].candidate = candidate,
                               ![w].head = 0]
  /\ UNCHANGED <<rows, lock, main, flight, generation, faults>>

\* The head that was listed is cloned and holds the meaning of the approved files.
Holds(w) == worker[w].head > 0 /\ Matches(Tree(w, worker[w].head), Files(w))

\* recover_preview: none of what it may find is an error.
CloneToRecover(w) ==
  /\ In(w, "clone") /\ worker[w].goal = "recover"
  /\ IF MainHead = worker[w].head /\ Holds(w)
     THEN StartConfirm(w, MainHead)
     ELSE Step(w, "check")

Proposed(w) == Rendered(worker[w].source, state[Op(w).cluster].contact)
Baseline(w) == state[Op(w).cluster].baseline

\* prepare_preview, up to the validation of what it merged.
CloneToPreview(w) ==
  /\ In(w, "clone") /\ worker[w].goal = "preview"
  /\ IF /\ MainHead = worker[w].head
        /\ Merges(Baseline(w), Tree(w, MainHead), Proposed(w), Op(w).adopt)
     THEN Step(w, "merged")
     ELSE End(w, "conflict")

\* publish_preview, up to the commit: nothing to do, a conflict, or a push. On
\* the approved head the files must match byte for byte.
CloneToPublish(w) ==
  /\ In(w, "clone") /\ worker[w].goal = "publish"
  /\ LET exactly == MainHead = Op(w).preview.head => Tree(w, MainHead).tidy
         holds == Holds(w) /\ exactly
     IN IF MainHead # worker[w].head THEN End(w, "conflict")
        ELSE IF holds THEN StartConfirm(w, MainHead)
        ELSE IF MainHead # Op(w).preview.head THEN End(w, "conflict")
        ELSE Step(w, "gate")

\* execute_operation between recovery and the work itself: the configuration,
\* then the operator's snapshot, which must be the approved one.
Check(w) ==
  /\ In(w, "check")
  /\ LET source == generation[Op(w).cluster]
     IN IF \/ ~worker[w].fresh
           \/ worker[w].goal = "recover" /\ source # Op(w).preview.source
        THEN End(w, "conflict")
        ELSE /\ worker' = [worker EXCEPT ![w].phase = "refs",
                  ![w].goal = IF @ = "recover" THEN "publish" ELSE "preview",
                  ![w].fresh = FALSE, ![w].source = source, ![w].reads = 0]
             /\ UNCHANGED <<rows, lock, main, flight, generation, faults>>

\* The end of prepare_preview: main must not have moved during validation.
PreviewReady(w) ==
  /\ In(w, "merged")
  /\ IF MainHead = worker[w].head
     THEN Finish(w, [Op(w) EXCEPT !.status = "preview_ready", !.preview =
                       [cluster |-> Op(w).cluster, head |-> MainHead,
                        files |-> Merged(Baseline(w), Tree(w, MainHead), Proposed(w)),
                        source |-> worker[w].source]],
                 state[Op(w).cluster])
     ELSE End(w, "conflict")

\* assert_fresh, immediately before a push; an unreadable source is a changed one.
Gate(w) ==
  /\ In(w, "gate")
  /\ \/ generation[Op(w).cluster] = worker[w].source /\ Step(w, "push")
     \/ End(w, "conflict")

OwnPush(w) ==
  [op |-> worker[w].op, worker |-> w, parent |-> Op(w).preview.head,
   tree |-> [TreeAt(main, Op(w).preview.head) EXCEPT ![Op(w).cluster] = Files(w)]]

\* push: the commit, a child of the approved head, is sent if main is still there.
SendPush(w) ==
  /\ In(w, "push")
  /\ MainHead = Op(w).preview.head
  /\ flight' = flight \cup {OwnPush(w)}
  /\ Go(w, "pushing")
  /\ UNCHANGED <<rows, lock, main, generation, faults>>

\* The position that w's commit takes if it is accepted.
OwnPosition(w) == Op(w).preview.head + 1

\* Main moved, or the remote could not be asked.
PushNotSent(w) ==
  /\ In(w, "push")
  /\ StartConfirm(w, OwnPosition(w))

\* The answer itself is never trusted.
PushAnswered(w) ==
  /\ In(w, "pushing")
  /\ OwnPush(w) \notin flight
  /\ StartConfirm(w, OwnPosition(w))

\* What an unconfirmed publication means: a recovery found nothing, a
\* publication failed and may be retried.
Unconfirmed(w) ==
  IF worker[w].goal = "recover" THEN Step(w, "check") ELSE End(w, "failed")

\* A slip in Confirm: main's head is not read back.
ConfirmUnread(w) ==
  /\ In(w, "confirm")
  /\ RecordPublication(w, MainHead)

\* One turn of _confirm, up to its refresh: the candidate is main's head, or main
\* was fetched again and holds the approved files.
Confirm(w) ==
  /\ In(w, "confirm")
  /\ LET holds == MainHead > 0 /\ Matches(Tree(w, MainHead), Files(w))
     IN IF holds /\ MainHead = worker[w].candidate THEN RecordPublication(w, MainHead)
        ELSE IF holds
        THEN /\ worker' = [worker EXCEPT ![w].phase = "refreshed", ![w].head = MainHead]
             /\ UNCHANGED <<rows, lock, main, flight, generation, faults>>
        ELSE Unconfirmed(w)

\* The end of a turn: main did not move while it was fetched and compared.
ConfirmAgain(w) ==
  /\ In(w, "refreshed")
  /\ IF MainHead = worker[w].head THEN RecordPublication(w, MainHead)
     ELSE IF worker[w].reads + 1 = ConfirmReads THEN Unconfirmed(w)
     ELSE /\ worker' = [worker EXCEPT ![w].phase = "confirm", ![w].reads = @ + 1]
          /\ UNCHANGED <<rows, lock, main, flight, generation, faults>>

\* Git, Kubernetes or the credentials are unavailable, or the build fails.
Fails(w) ==
  /\ worker[w].phase \in {"refs", "clone", "check", "merged", "confirm", "refreshed"}
  /\ End(w, "failed")
-----------------------------------------------------------------------------
\* The server updates main by fast-forward only: from the commit's one parent.
Accept(p) ==
  /\ MainHead = p.parent
  /\ main' = Append(main, [by |-> p.op, tree |-> p.tree])
  /\ flight' = flight \ {p}
  /\ UNCHANGED <<rows, lock, generation, worker, faults>>

\* Main has moved, the branch is protected, or the connection broke.
Refuse(p) ==
  /\ flight' = flight \ {p}
  /\ UNCHANGED <<rows, lock, main, generation, worker, faults>>

\* The customer commits: elsewhere in the repository, or a cluster's files.
CustomerCommit ==
  /\ Cardinality({n \in 1..MainHead : main[n].by = Customer}) < MaxEdits
  /\ \E c \in Clusters :
       \E t \in HandTrees \cup {TreeAt(main, MainHead)[c]} :
         main' = Append(main, [by |-> Customer, tree |-> [TreeAt(main, MainHead) EXCEPT ![c] = t]])
  /\ UNCHANGED <<rows, lock, flight, generation, worker, faults>>

\* The operator verifies a new generation of a cluster.
NewGeneration(c) ==
  /\ generation[c] < MaxGeneration
  /\ generation' = [generation EXCEPT ![c] = @ + 1]
  /\ UNCHANGED <<rows, lock, main, flight, worker, faults>>

Fault ==
  /\ faults < MaxFaults
  /\ faults' = faults + 1
  /\ UNCHANGED <<rows, main, flight, generation>>

\* The process dies: its transaction is rolled back, its push is not.
Crash(w) ==
  /\ Fault
  /\ ~In(w, "idle")
  /\ worker' = [worker EXCEPT ![w] = Idle]
  /\ Release(w)

\* The database session is lost while the thread goes on.
LoseSession(w) ==
  /\ Fault
  /\ lock = w
  /\ lock' = Nobody
  /\ UNCHANGED worker

\* git push is killed by its timeout; the server may still be handling it.
PushTimesOut(w) ==
  /\ Fault
  /\ In(w, "pushing")
  /\ OwnPush(w) \in flight
  /\ worker' = [worker EXCEPT ![w].phase = "confirm", ![w].candidate = OwnPosition(w),
                               ![w].head = 0]
  /\ UNCHANGED lock

Work(w) ==
  \/ Claim(w) \/ Execute(w) \/ ReadRefs(w)
  \/ CloneToRecover(w) \/ CloneToPreview(w) \/ CloneToPublish(w)
  \/ Check(w) \/ PreviewReady(w) \/ Gate(w)
  \/ SendPush(w) \/ PushNotSent(w) \/ PushAnswered(w)
  \/ Confirm(w) \/ ConfirmAgain(w)

Server == \E p \in flight : Accept(p) \/ Refuse(p)

Environment ==
  \/ Request /\ UNCHANGED <<main, flight, generation, worker, faults>>
  \/ CustomerCommit
  \/ \E c \in Clusters : NewGeneration(c)
  \/ \E w \in Workers : Fails(w) \/ Crash(w) \/ LoseSession(w) \/ PushTimesOut(w)

Next ==
  \/ \E w \in Workers : Work(w)
  \/ Server
  \/ Environment

Spec == Init /\ [][Next]_vars

\* Workers poll every three seconds while they are up, and a push is answered.
Fairness ==
  /\ \A w \in Workers : WF_vars(Work(w))
  /\ WF_vars(Server)

FairSpec == Spec /\ Fairness
=============================================================================
