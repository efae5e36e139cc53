---------------------------- MODULE GitOpsProofs ----------------------------
(***************************************************************************)
(* Theorems about the GitOps operations, for any number of clusters,       *)
(* operations, workers, faults and commits.                                *)
(***************************************************************************)
EXTENDS GitOps, SequenceTheorems, TLAPS

\* A row: what a publish operation was approved for, and what it reported.
Good(op, branch) ==
  /\ op.kind = "publish" => op.preview # NoPreview
  /\ op.preview # NoPreview =>
       /\ op.preview.cluster = op.cluster
       /\ op.preview.head <= Len(branch)
       /\ op.preview.files.contact \in Contacts
  /\ op.status # "succeeded" => op.result = 0
  /\ op.result # 0 =>
       /\ op.kind = "publish"
       /\ op.result \in 1..Len(branch)
       /\ Matches(TreeAt(branch, op.result)[op.cluster], op.preview.files)

RowsInv == Len(operations) <= MaxOperations /\ \A o \in Ids : Good(operations[o], main)

\* What was recorded of a cluster is on main.
RecordInv ==
  \A c \in Clusters :
    /\ state[c].last_commit \in 0..MainHead
    /\ state[c].last_commit # 0 =>
         Matches(TreeAt(main, state[c].last_commit)[c], state[c].baseline)

\* A worker that stands as r says. Only while it holds the lock may it rely on
\* the rows as it read them; after that on what an approved operation keeps.
Stands(w, r) ==
  /\ lock = w => r.phase # "idle"
  /\ r.phase # "idle" =>
       /\ r.op \in Ids
       /\ r.goal # "preview" => operations[r.op].kind = "publish"
       /\ r.phase = "check" => r.goal # "publish"
       /\ r.phase \in {"gate", "push", "pushing"} => r.goal = "publish"
       /\ r.phase \in {"confirm", "refreshed"} => r.goal # "preview"
       /\ r.phase = "merged" => r.goal = "preview"
       /\ r.phase # "check" /\ r.goal = "preview" => r.source \in Generations
       /\ r.phase = "refreshed" =>
            /\ r.head \in 1..MainHead
            /\ Matches(TreeAt(main, r.head)[operations[r.op].cluster],
                       operations[r.op].preview.files)
       /\ lock = w =>
            /\ operations[r.op].status = "running"
            /\ r.goal = "preview" => operations[r.op].kind = "preview"
            /\ r.fresh \/ r.goal = "publish" =>
                 Current(operations[r.op]) /\ repository.valid

WorkersInv == \A w \in Workers : Stands(w, worker[w])

\* A commit of operation o on top of head with this tree is the approved one.
Approved(o, head, tree) ==
  /\ o \in Ids
  /\ operations[o].kind = "publish"
  /\ operations[o].preview.head = head
  /\ tree = [TreeAt(main, head) EXCEPT ![operations[o].cluster] = operations[o].preview.files]

FlightInv == \A p \in flight : Approved(p.op, p.parent, p.tree)

MainInv ==
  \A n \in 1..MainHead : main[n].by # Customer => Approved(main[n].by, n - 1, main[n].tree)

Inv == /\ TypeOK /\ RowsInv /\ RecordInv /\ WorkersInv
       /\ FlightInv /\ MainInv /\ OneActiveOperation
-----------------------------------------------------------------------------
\* What no step takes back: the branch only grows, and an approved operation
\* keeps its cluster and its preview.
MainGrows ==
  /\ MainHead <= MainHead'
  /\ \A h \in 0..MainHead : TreeAt(main', h) = TreeAt(main, h)
  /\ \A n \in 1..MainHead : main'[n] = main[n]

RowsGrow ==
  /\ Len(operations) <= Len(operations')
  /\ \A o \in Ids :
       /\ operations'[o].cluster = operations[o].cluster
       /\ operations[o].kind = "publish" =>
            operations'[o].kind = "publish" /\ operations'[o].preview = operations[o].preview

\* Operations and the branch as sequences.
LEMMA Rows ==
  ASSUME TypeOK
  PROVE  /\ Len(operations) \in Nat
         /\ Ids = 1..Len(operations)
         /\ \A o \in Ids : operations[o] \in Operation
         /\ MainHead \in Nat
         /\ DOMAIN main = 1..MainHead
         /\ \A n \in 1..MainHead : main[n] \in Commit
BY LenProperties, ElementOfSeq DEF TypeOK, Ids, MainHead

LEMMA TreeAtType ==
  ASSUME NEW branch \in Seq(Commit), NEW h \in 0..Len(branch)
  PROVE  TreeAt(branch, h) \in [Clusters -> Trees]
<1>1. CASE h = 0
  BY <1>1 DEF TreeAt, Nothing, Trees
<1>2. CASE h # 0
  <2>1. h \in 1..Len(branch)
    BY <1>2, LenProperties
  <2>2. branch[h] \in Commit
    BY <2>1, ElementOfSeq
  <2>3. QED  BY <1>2, <2>2 DEF TreeAt, Commit
<1>3. QED  BY <1>1, <1>2

\* What is found at a commit is typed.
LEMMA TreeType ==
  ASSUME TypeOK, NEW h \in 0..MainHead, NEW c \in Clusters
  PROVE  TreeAt(main, h)[c] \in Trees
BY TreeAtType DEF TypeOK, MainHead

LEMMA MainStays ==
  ASSUME TypeOK, UNCHANGED main
  PROVE  MainGrows
<1>1. MainHead' = MainHead
  BY DEF MainHead
<1>2. MainHead <= MainHead'
  BY <1>1, Rows
<1>3. QED  BY <1>2 DEF MainGrows

LEMMA MainAppends ==
  ASSUME TypeOK, NEW e \in Commit, main' = Append(main, e)
  PROVE  /\ main' \in Seq(Commit)
         /\ MainHead' = MainHead + 1
         /\ main'[MainHead + 1] = e
         /\ MainGrows
<1>1. /\ main' \in Seq(Commit)
      /\ MainHead' = MainHead + 1
      /\ main'[MainHead + 1] = e
      /\ \A n \in 1..MainHead : main'[n] = main[n]
  BY AppendProperties DEF TypeOK, MainHead
<1>2. MainHead \in Nat
  BY Rows
<1>3. \A h \in 0..MainHead : TreeAt(main', h) = TreeAt(main, h)
  <2> SUFFICES ASSUME NEW h \in 0..MainHead PROVE TreeAt(main', h) = TreeAt(main, h)
    OBVIOUS
  <2>1. h = 0 \/ h \in 1..MainHead
    BY <1>2
  <2>2. QED  BY <1>1, <2>1 DEF TreeAt
<1>4. MainHead <= MainHead'
  BY <1>1, <1>2
<1>5. QED  BY <1>1, <1>3, <1>4 DEF MainGrows

\* A row stays good while the branch grows.
LEMMA GoodKept ==
  ASSUME TypeOK, TypeOK', MainGrows, NEW op \in Operation, Good(op, main)
  PROVE  Good(op, main')
<1>1. /\ op.preview # NoPreview => op.preview \in Previews
      /\ op.result \in Nat
      /\ MainHead \in Nat /\ MainHead <= MainHead'
      /\ \A h \in 0..MainHead : TreeAt(main', h) = TreeAt(main, h)
  BY Rows DEF Operation, MainGrows
<1>2. MainHead' \in Nat
  BY LenProperties DEF TypeOK, MainHead
<1>3. op.preview # NoPreview => op.preview.head <= MainHead'
  BY <1>1, <1>2 DEF Good, Previews, MainHead
<1>4. op.result # 0 =>
        op.result \in 1..MainHead' /\ TreeAt(main', op.result) = TreeAt(main, op.result)
  BY <1>1, <1>2 DEF Good, MainHead
<1>5. QED  BY <1>3, <1>4 DEF Good, MainHead

\* An approved commit stays approved.
LEMMA ApprovedKept ==
  ASSUME TypeOK, TypeOK', RowsInv, RowsGrow, MainGrows,
         NEW o, NEW h, NEW t, Approved(o, h, t)
  PROVE  Approved(o, h, t)'
<1>1. /\ o \in Ids /\ o \in Ids'
      /\ operations[o] \in Operation
      /\ Good(operations[o], main)
  BY Rows DEF Approved, RowsInv, RowsGrow, Ids
<1>2. h \in 0..MainHead
  BY <1>1, Rows DEF Approved, Good, Operation, Previews, MainHead
<1>3. QED  BY <1>1, <1>2 DEF Approved, RowsGrow, MainGrows

\* What a step may take for granted of a worker it does not move.
Aside(v) ==
  /\ worker'[v] = worker[v]
  /\ lock' = v => lock = v /\ UNCHANGED rows

LEMMA StandsAside ==
  ASSUME TypeOK, TypeOK', RowsInv, RowsGrow, MainGrows,
         NEW v \in Workers, Stands(v, worker[v]), Aside(v)
  PROVE  Stands(v, worker[v])'
<1> DEFINE r == worker[v]
<1>1. CASE r.phase = "idle"
  BY <1>1 DEF Stands, Aside
<1>2. CASE r.phase # "idle"
  <2>1. /\ r.op \in Ids /\ r.op \in Ids'
        /\ operations[r.op] \in Operation
    BY <1>2, Rows DEF Stands, RowsGrow, Ids, TypeOK
  <2>2. r.goal # "preview" =>
          /\ operations'[r.op].kind = "publish"
          /\ operations'[r.op].cluster = operations[r.op].cluster
          /\ operations'[r.op].preview = operations[r.op].preview
    BY <1>2, <2>1 DEF Stands, RowsGrow
  <2>3. r.phase = "refreshed" =>
          /\ r.head \in 1..MainHead'
          /\ TreeAt(main', r.head) = TreeAt(main, r.head)
          /\ r.goal # "preview"
    <3>1. MainHead \in Nat /\ MainHead' \in Nat
      BY LenProperties DEF TypeOK, MainHead
    <3>2. QED  BY <1>2, <3>1 DEF Stands, MainGrows
  <2>4. lock' = v =>
          /\ operations'[r.op].status = "running"
          /\ r.goal = "preview" => operations'[r.op].kind = "preview"
          /\ r.fresh \/ r.goal = "publish" =>
               /\ operations'[r.op].repository_version = repository'.version
               /\ operations'[r.op].settings_version = state'[operations'[r.op].cluster].version
               /\ repository'.valid
    BY <1>2 DEF Stands, Aside, rows, Current
  <2>5. worker'[v] = r
    BY DEF Aside
  <2>6. QED  BY <1>2, <2>1, <2>2, <2>3, <2>4, <2>5 DEF Stands, Current
<1>3. QED  BY <1>1, <1>2

-----------------------------------------------------------------------------
\* Every step is one of the abstract specification, or none of its business.
Refined == Abstract!Next \/ UNCHANGED Abstract!vars

\* The abstract specification's operators on trees are the ones used here.
LEMMA SameTrees ==
  /\ \A t, f : Abstract!Matches(t, f) = Matches(t, f)
  /\ \A b, h : Abstract!TreeAt(b, h) = TreeAt(b, h)
  /\ Abstract!Trees = Trees
BY DEF Abstract!Matches, Matches, Abstract!Parts, Parts, Abstract!TreeAt, TreeAt,
  Abstract!Nothing, Nothing, Abstract!Trees, Trees, Abstract!Generations, Generations

LEMMA SameRefined ==
  ASSUME UNCHANGED <<main, operations>>
  PROVE  Refined
<1>1. \A o : Approval(o)' = Approval(o)
  BY DEF Approval, Ids
<1>2. Ids' = Ids
  BY DEF Ids
<1>3. QED  BY <1>1, <1>2 DEF Refined, Abstract!vars

\* Rows that keep their approval and their result, and new previews.
LEMMA RowsRefined ==
  ASSUME UNCHANGED main, Ids \subseteq Ids',
         \A o \in Ids : /\ operations'[o].kind = operations[o].kind
                        /\ operations'[o].cluster = operations[o].cluster
                        /\ operations'[o].result = operations[o].result
                        /\ operations[o].kind = "publish" =>
                             operations'[o].preview = operations[o].preview,
         \A o \in Ids' \ Ids : operations'[o].kind = "preview" /\ operations'[o].result = 0
  PROVE  Refined
<1>1. \A o : Approval(o)' = Approval(o)
  BY DEF Approval
<1>2. \A o : (IF o \in Ids' THEN operations'[o].result ELSE 0)
           = (IF o \in Ids THEN operations[o].result ELSE 0)
  OBVIOUS
<1>3. QED  BY <1>1, <1>2 DEF Refined, Abstract!vars

\* A worker goes on: nothing but where it stands changes.
LEMMA Moves ==
  ASSUME Inv, NEW w \in Workers, NEW r \in Worker, Stands(w, r),
         worker' = [worker EXCEPT ![w] = r],
         UNCHANGED <<rows, lock, main, flight, generation, faults>>
  PROVE  Inv' /\ Refined
<1>1. TypeOK'
  BY DEF Inv, TypeOK, rows
<1>2. /\ RowsInv' /\ RecordInv' /\ FlightInv' /\ MainInv' /\ OneActiveOperation'
  BY DEF Inv, RowsInv, RecordInv, FlightInv, MainInv, OneActiveOperation, Approved, Ids,
         MainHead, rows
<1>3. ASSUME NEW v \in Workers
      PROVE  Stands(v, worker'[v])
  BY DEF Inv, WorkersInv, TypeOK
<1>4. WorkersInv'
  BY <1>3 DEF WorkersInv, Stands, Current, MainHead, Ids, rows
<1>5. Refined
  BY SameRefined DEF rows
<1>6. QED  BY <1>1, <1>2, <1>4, <1>5 DEF Inv

\* The rows after a worker has recorded the end of its operation.
Settled(w, op, row) ==
  /\ op \in Operation
  /\ Good(op, main)
  /\ op.cluster = Op(w).cluster
  /\ op.kind = Op(w).kind
  /\ op.kind = "publish" => op.preview = Op(w).preview
  /\ op.status \notin Active
  /\ op.result = Op(w).result \/ Op(w).result = 0
  /\ row \in ClusterState
  /\ row.last_commit \in 0..MainHead
  /\ row.last_commit # 0 => Matches(TreeAt(main, row.last_commit)[op.cluster], row.baseline)

LEMMA Finishes ==
  ASSUME Inv, NEW w \in Workers, NEW op, NEW row, Finish(w, op, row),
         lock = w => Settled(w, op, row)
  PROVE  Inv' /\ Refined
<1> USE DEF Inv
<1> DEFINE i == worker[w].op
<1>1. lock = w => i \in 1..Len(operations) /\ operations[i] \in Operation
  BY Rows DEF WorkersInv, Stands, Ids
<1>2. lock = w =>
        /\ operations' \in Seq(Operation)
        /\ Len(operations') = Len(operations)
        /\ \A o \in 1..Len(operations) : operations'[o] = IF o = i THEN op ELSE operations[o]
  <2> SUFFICES ASSUME lock = w
               PROVE  /\ operations' \in Seq(Operation)
                      /\ Len(operations') = Len(operations)
                      /\ \A o \in 1..Len(operations) :
                           operations'[o] = IF o = i THEN op ELSE operations[o]
    OBVIOUS
  <2>1. op \in Operation /\ operations' = [operations EXCEPT ![i] = op]
    BY DEF Finish, Settled
  <2>2. operations \in Seq(Operation)
    BY DEF TypeOK
  <2>3. QED  BY ONLY <1>1, lock = w, <2>1, <2>2, ExceptSeq
<1>3. lock # w => UNCHANGED <<operations, state, lock>>
  BY DEF Finish
<1>4. TypeOK'
  <2>1. Idle \in Worker
    BY DEF Idle, Worker, Phases, Goals
  <2>2. operations' \in Seq(Operation)
    BY <1>2, <1>3 DEF TypeOK
  <2>3. state' \in [Clusters -> ClusterState] /\ lock' \in Workers \cup {Nobody}
    BY DEF Finish, Settled, TypeOK
  <2>4. QED  BY <2>1, <2>2, <2>3 DEF Finish, TypeOK
<1>5. RowsGrow
  <2>1. Len(operations) <= Len(operations')
    BY <1>2, <1>3, Rows
  <2>2. \A o \in Ids : /\ operations'[o].cluster = operations[o].cluster
                       /\ operations[o].kind = "publish" =>
                            /\ operations'[o].kind = "publish"
                            /\ operations'[o].preview = operations[o].preview
    BY <1>2, <1>3, Rows DEF Settled, Op
  <2>3. QED  BY <2>1, <2>2 DEF RowsGrow
<1>6. MainGrows /\ UNCHANGED <<main, flight, faults, repository>>
  BY MainStays DEF Finish
<1>7. Ids' = Ids
  BY <1>2, <1>3, <1>4, Rows, LenProperties DEF Ids, TypeOK
<1>8. RowsInv'
  BY <1>2, <1>3, <1>6, <1>7, Rows DEF RowsInv, Settled
<1>9. RecordInv'
  <2>1. ASSUME lock = w
        PROVE  state' = [state EXCEPT ![op.cluster] = row] /\ op.cluster \in Clusters
    BY <2>1 DEF Finish, Settled, Operation
  <2>2. QED  BY <2>1, <1>3, <1>6 DEF RecordInv, Settled, MainHead, TypeOK
<1>10. WorkersInv'
  <2>1. Stands(w, worker[w])'
    <3>1. lock' # w
      BY OperationAssumption DEF Finish
    <3>2. worker'[w].phase = "idle"
      BY DEF Finish, Idle, TypeOK
    <3>3. QED  BY <3>1, <3>2 DEF Stands
  <2>2. ASSUME NEW v \in Workers \ {w}
        PROVE  Stands(v, worker[v])'
    <3>1. worker'[v] = worker[v] /\ faults' = faults
      BY DEF Finish, TypeOK
    <3>2. lock' = v => lock = v /\ UNCHANGED rows
      BY OperationAssumption DEF Finish, rows
    <3>3. lock = v => lock' = v
      BY DEF Finish
    <3>4. Aside(v)
      BY <3>1, <3>2, <3>3 DEF Aside
    <3>5. QED  BY <3>4, <1>4, <1>5, <1>6, StandsAside DEF WorkersInv
  <2>3. QED  BY <2>1, <2>2 DEF WorkersInv
<1>11. FlightInv' /\ MainInv'
  <2>1. ASSUME NEW p \in flight PROVE Approved(p.op, p.parent, p.tree)'
    BY <1>4, <1>5, <1>6, ApprovedKept DEF FlightInv
  <2>2. ASSUME NEW n \in 1..MainHead, main[n].by # Customer
        PROVE  Approved(main[n].by, n - 1, main[n].tree)'
    BY <2>2, <1>4, <1>5, <1>6, ApprovedKept DEF MainInv
  <2>3. QED  BY <2>1, <2>2, <1>6 DEF FlightInv, MainInv, MainHead
<1>12. OneActiveOperation'
  <2>1. ASSUME NEW o \in Ids, operations'[o].status \in Active
        PROVE  operations'[o] = operations[o]
    BY <2>1, <1>2, <1>3, Rows DEF Settled
  <2>2. QED  BY <2>1, <1>7 DEF OneActiveOperation
<1>13. Refined
  <2>1. CASE lock # w
    BY <1>3, <1>6, <2>1, SameRefined
  <2>2. CASE lock = w /\ op.result = Op(w).result
    BY <1>1, <1>2, <1>6, <1>7, <2>2, Rows, RowsRefined DEF Settled, Op
  <2>3. CASE lock = w /\ op.result # Op(w).result
    <3>1. /\ i \in 1..MaxOperations /\ i \in Ids /\ op.result # 0 /\ Op(w) = operations[i]
          /\ operations[i].result = 0 /\ op.preview = operations[i].preview
          /\ op.kind = "publish" /\ operations[i].kind = "publish"
          /\ op.cluster = operations[i].cluster
          /\ operations[i] \in Operation /\ operations[i].preview # NoPreview
      BY <1>1, <2>3, Rows, OperationAssumption DEF RowsInv, Settled, Good, Op
    <3>2. Approval(i) # NoPreview
      BY <3>1, OperationAssumption DEF Approval, Operation, Previews
    <3>3. /\ op.result \in 1..Len(main)
          /\ Matches(main[op.result].tree[op.cluster], op.preview.files)
      BY <2>3, <3>1 DEF Settled, Good, TreeAt
    <3>4. \A o : Approval(o)' = Approval(o)
      BY <1>2, <1>7, <2>3, <3>1, Rows DEF Approval, Settled
    <3>5. \A o \in 1..MaxOperations :
            (IF o \in Ids' THEN operations'[o].result ELSE 0)
            = (IF o = i THEN op.result ELSE IF o \in Ids THEN operations[o].result ELSE 0)
      BY <1>2, <1>7, <2>3, <3>1, Rows
    <3>6. Approval(i).cluster = op.cluster /\ Approval(i).files = op.preview.files
      BY <3>1 DEF Approval
    <3> PICK j \in 1..MaxOperations : j = i
      BY <3>1
    <3>7. Abstract!Report(j)
      BY <1>6, <3>1, <3>2, <3>3, <3>4, <3>5, <3>6, SameTrees DEF Abstract!Report
    <3>8. QED  BY <3>7 DEF Refined, Abstract!Next
  <2>4. QED  BY <2>1, <2>2, <2>3
<1>14. QED
  BY <1>4, <1>8, <1>9, <1>10, <1>11, <1>12, <1>13

\* A request changes rows while nobody holds the lock: no worker relies on them.
LEMMA RequestKeeps ==
  ASSUME Inv, TypeOK', RowsGrow, RowsInv', RecordInv', OneActiveOperation',
         lock = Nobody, UNCHANGED <<lock, main, flight, generation, worker, faults>>
  PROVE  Inv'
<1> USE DEF Inv
<1>1. MainGrows
  BY MainStays
<1>2. WorkersInv'
  <2> SUFFICES ASSUME NEW v \in Workers PROVE Stands(v, worker[v])'
    BY DEF WorkersInv
  <2>1. Aside(v)
    BY OperationAssumption DEF Aside
  <2>2. QED  BY <1>1, <2>1, StandsAside DEF WorkersInv
<1>3. FlightInv' /\ MainInv'
  <2>1. ASSUME NEW p \in flight PROVE Approved(p.op, p.parent, p.tree)'
    BY <1>1, ApprovedKept DEF FlightInv
  <2>2. ASSUME NEW n \in 1..MainHead, main[n].by # Customer
        PROVE  Approved(main[n].by, n - 1, main[n].tree)'
    BY <2>2, <1>1, ApprovedKept DEF MainInv
  <2>3. QED  BY <2>1, <2>2 DEF FlightInv, MainInv, MainHead
<1>4. QED  BY <1>2, <1>3

LEMMA ReplaceCredentialsKeeps ==
  ASSUME Inv, ReplaceCredentials, UNCHANGED <<main, flight, generation, worker, faults>>
  PROVE  Inv' /\ Refined
<1>1. TypeOK'
  BY DEF Inv, ReplaceCredentials, TypeOK
<1>2. RowsGrow
  BY Rows DEF Inv, ReplaceCredentials, RowsGrow
<1>3. RowsInv' /\ RecordInv' /\ OneActiveOperation'
  BY DEF Inv, ReplaceCredentials, RowsInv, RecordInv, OneActiveOperation, Ids, MainHead
<1>4. QED  BY <1>1, <1>2, <1>3, RequestKeeps, SameRefined DEF ReplaceCredentials

LEMMA ValidateRepositoryKeeps ==
  ASSUME Inv, ValidateRepository, UNCHANGED <<main, flight, generation, worker, faults>>
  PROVE  Inv' /\ Refined
<1>1. TypeOK'
  BY DEF Inv, ValidateRepository, TypeOK
<1>2. RowsGrow
  BY Rows DEF Inv, ValidateRepository, RowsGrow
<1>3. RowsInv' /\ RecordInv' /\ OneActiveOperation'
  BY DEF Inv, ValidateRepository, RowsInv, RecordInv, OneActiveOperation, Ids, MainHead
<1>4. QED  BY <1>1, <1>2, <1>3, RequestKeeps, SameRefined DEF ValidateRepository

LEMMA SaveSettingsKeeps ==
  ASSUME Inv, NEW c \in Clusters, NEW contact \in Contacts, SaveSettings(c, contact),
         UNCHANGED <<main, flight, generation, worker, faults>>
  PROVE  Inv' /\ Refined
<1>1. TypeOK'
  <2> DEFINE row == [version |-> state[c].version + 1, contact |-> contact,
                     baseline |-> state[c].baseline, last_commit |-> state[c].last_commit]
  <2>1. state[c] \in ClusterState
    BY DEF Inv, TypeOK
  <2>2. row \in ClusterState
    BY <2>1 DEF ClusterState
  <2>3. /\ state' = [d \in Clusters |-> state'[d]]
        /\ \A d \in Clusters \ {c} : state'[d] = state[d]
    BY DEF Inv, TypeOK, SaveSettings
  <2>4. state'[c] = row
    BY <2>1 DEF Inv, TypeOK, SaveSettings, ClusterState
  <2>5. state' \in [Clusters -> ClusterState]
    BY <2>2, <2>3, <2>4 DEF Inv, TypeOK
  <2>6. QED  BY <2>5 DEF Inv, TypeOK, SaveSettings
<1>2. RowsGrow
  BY Rows DEF Inv, SaveSettings, RowsGrow
<1>3. RowsInv' /\ OneActiveOperation'
  BY DEF Inv, SaveSettings, RowsInv, OneActiveOperation, Ids
<1>4. RecordInv'
  BY DEF Inv, SaveSettings, RecordInv, TypeOK, ClusterState, MainHead
<1>5. QED  BY <1>1, <1>2, <1>3, <1>4, RequestKeeps, SameRefined DEF SaveSettings

LEMMA EnqueuePreviewKeeps ==
  ASSUME Inv, NEW c \in Clusters, NEW adopt \in BOOLEAN, EnqueuePreview(c, adopt),
         UNCHANGED <<main, flight, generation, worker, faults>>
  PROVE  Inv' /\ Refined
<1> USE DEF Inv
<1> DEFINE n == Len(operations)
           new == [cluster |-> c, kind |-> "preview", status |-> "queued",
                   repository_version |-> repository.version,
                   settings_version |-> state[c].version,
                   adopt |-> adopt, preview |-> NoPreview, result |-> 0]
           Kept(o) == IF operations[o].cluster = c /\ operations[o].status = "preview_ready"
                      THEN [operations[o] EXCEPT !.status = "superseded"] ELSE operations[o]
           kept == [o \in 1..n |-> Kept(o)]
<1>1. new \in Operation
  BY DEF Operation, Statuses, TypeOK, ClusterState
<1>2. \A o \in 1..n : Kept(o) \in Operation
  BY Rows DEF Operation, Statuses
<1>3. kept \in Seq(Operation) /\ Len(kept) = n
  <2>1. n \in Nat
    BY Rows
  <2>2. QED  BY <1>2, <2>1, IsASeq
<1>4. operations' = Append(kept, new)
  BY Rows DEF EnqueuePreview
<1>5. /\ operations' \in Seq(Operation)
      /\ Len(operations') = n + 1
      /\ operations'[n + 1] = new
      /\ \A o \in 1..n : operations'[o] = Kept(o)
  BY <1>1, <1>3, <1>4, AppendProperties
<1> HIDE DEF new
<1>6. TypeOK'
  BY <1>5 DEF EnqueuePreview, TypeOK
<1>7. \A o \in 1..n : /\ operations'[o].kind = operations[o].kind
                      /\ operations'[o].cluster = operations[o].cluster
                      /\ operations'[o].preview = operations[o].preview
                      /\ operations'[o].result = operations[o].result
                      /\ \/ operations'[o].status = operations[o].status
                         \/ /\ operations[o].status = "preview_ready"
                            /\ operations'[o].status = "superseded"
  BY <1>5, Rows DEF Operation
<1>8. n \in Nat /\ Ids = 1..n /\ Ids' = 1..(n + 1)
  BY <1>5, <1>6, Rows, LenProperties DEF Ids, TypeOK
<1>9. RowsGrow
  BY <1>5, <1>7, <1>8 DEF RowsGrow
<1>10. RowsInv'
  <2>1. ASSUME NEW o \in 1..n PROVE Good(operations'[o], main')
    BY <1>7, <1>8 DEF RowsInv, Good, EnqueuePreview
  <2>2. Good(operations'[n + 1], main')
    BY <1>5 DEF new, Good
  <2>3. Len(operations') <= MaxOperations
    BY <1>5, <1>8, OperationAssumption DEF EnqueuePreview
  <2>4. QED  BY <1>8, <2>1, <2>2, <2>3 DEF RowsInv
<1>11. OneActiveOperation'
  <2>1. ASSUME NEW o \in 1..n, operations'[o].status \in Active
        PROVE  operations[o].status \in Active /\ operations[o].cluster # c
    BY <2>1, <1>7, <1>8 DEF Active, EnqueuePreview, ActiveOperation
  <2>2. operations'[n + 1].cluster = c
    BY <1>5 DEF new
  <2>3. QED  BY <1>7, <1>8, <2>1, <2>2 DEF OneActiveOperation
<1>12. RecordInv'
  BY DEF EnqueuePreview, RecordInv, MainHead
<1>13. Inv'
  BY <1>6, <1>9, <1>10, <1>11, <1>12, RequestKeeps DEF EnqueuePreview
<1>14. \A o \in Ids' \ Ids : operations'[o].kind = "preview" /\ operations'[o].result = 0
  BY <1>5, <1>8 DEF new
<1>15. Refined
  BY <1>7, <1>8, <1>14, RowsRefined DEF EnqueuePreview
<1>16. QED  BY <1>13, <1>15

\* Approval: the preview and the cluster of the operation stay what they were.
LEMMA EnqueuePublishKeeps ==
  ASSUME Inv, NEW i \in Ids, EnqueuePublish(i),
         UNCHANGED <<main, flight, generation, worker, faults>>
  PROVE  Inv' /\ Refined
<1> USE DEF Inv
<1> DEFINE op == [operations[i] EXCEPT !.kind = "publish", !.status = "queued"]
<1>1. /\ operations[i] \in Operation
      /\ i \in 1..Len(operations) /\ Ids = 1..Len(operations)
      /\ operations \in Seq(Operation)
  BY Rows DEF TypeOK
<1>2. /\ op \in Operation
      /\ op.kind = "publish" /\ op.status = "queued" /\ op.result = operations[i].result
      /\ op.cluster = operations[i].cluster /\ op.preview = operations[i].preview
  BY <1>1 DEF Operation, Statuses
<1>3. operations' = [operations EXCEPT ![i] = op]
  BY <1>1 DEF EnqueuePublish, Operation
<1> HIDE DEF op
<1>4. /\ operations' \in Seq(Operation)
      /\ Len(operations') = Len(operations)
      /\ \A o \in 1..Len(operations) : operations'[o] = IF o = i THEN op ELSE operations[o]
  BY ONLY <1>1, <1>2, <1>3, ExceptSeq
<1>5. TypeOK'
  BY <1>4 DEF EnqueuePublish, TypeOK
<1>6. Ids' = Ids
  BY <1>1, <1>4, <1>5, Rows, LenProperties DEF Ids, TypeOK
<1>7. RowsGrow
  <2>1. Len(operations) <= Len(operations')
    BY <1>4, Rows
  <2>2. QED  BY <1>1, <1>2, <1>4, <2>1 DEF RowsGrow
<1>8. RowsInv'
  <2>1. Good(op, main)
    BY <1>1, <1>2 DEF RowsInv, Good, Publishable, EnqueuePublish
  <2>2. QED  BY <1>1, <1>4, <1>6, <2>1 DEF RowsInv, EnqueuePublish
<1>9. OneActiveOperation'
  <2>1. \A o \in Ids \ {i} : operations'[o].status \in Active =>
          operations'[o].cluster # operations'[i].cluster
    BY <1>1, <1>2, <1>4 DEF EnqueuePublish, ActiveOperation
  <2>2. QED  BY <1>1, <1>4, <1>6, <2>1 DEF OneActiveOperation
<1>10. RecordInv'
  BY DEF EnqueuePublish, RecordInv, MainHead
<1>11. Inv'
  BY <1>5, <1>7, <1>8, <1>9, <1>10, RequestKeeps DEF EnqueuePublish
<1>12. CASE operations[i].kind = "publish"
  BY <1>1, <1>2, <1>4, <1>6, <1>11, <1>12, RowsRefined
<1>13. CASE operations[i].kind # "publish"
  <2> DEFINE approved == [cluster |-> op.cluster, head |-> op.preview.head,
                          files |-> op.preview.files]
  <2>1. i \in 1..MaxOperations /\ Approval(i) = NoPreview
    BY <1>1, <1>13, Rows, OperationAssumption DEF Approval, RowsInv
  <2>2. Approval(i)' = approved
    BY <1>1, <1>2, <1>4, <1>6 DEF Approval
  <2>3. approved \in [cluster : Clusters, head : 0..Len(main), files : Trees]
    <3>1. op.preview \in Previews /\ op.preview.head <= Len(main) /\ op.cluster \in Clusters
      BY <1>1, <1>2 DEF RowsInv, Good, Operation, EnqueuePublish, Publishable
    <3>2. op.preview.head \in 0..Len(main) /\ op.preview.files \in Trees
      BY <3>1, Rows DEF Previews, MainHead
    <3>3. QED  BY <3>1, <3>2
  <2>4. \A o \in 1..MaxOperations \ {i} : Approval(o)' = Approval(o)
    BY <1>1, <1>4, <1>6 DEF Approval
  <2>5. \A o \in 1..MaxOperations : (IF o \in Ids' THEN operations'[o].result ELSE 0)
                                  = (IF o \in Ids THEN operations[o].result ELSE 0)
    BY <1>1, <1>2, <1>4, <1>6
  <2> HIDE DEF approved
  <2>6. Abstract!Approve(i)
    BY <2>1, <2>2, <2>3, <2>4, <2>5, SameTrees DEF Abstract!Approve, EnqueuePublish
  <2>7. QED  BY <1>11, <2>1, <2>6 DEF Refined, Abstract!Next
<1>14. QED  BY <1>12, <1>13
-----------------------------------------------------------------------------
\* The worker's own steps.

\* What a worker that finds itself in a phase knows.
LEMMA Here ==
  ASSUME Inv, NEW w \in Workers, ~In(w, "idle")
  PROVE  /\ worker[w] \in Worker
         /\ worker[w].op \in Ids
         /\ Op(w) \in Operation
         /\ Good(Op(w), main)
         /\ Op(w).cluster \in Clusters
         /\ worker[w].goal # "preview" => Op(w).kind = "publish" /\ Op(w).preview \in Previews
         /\ MainHead \in Nat
BY Rows DEF Inv, TypeOK, WorkersInv, Stands, In, Op, RowsInv, Good, Operation

LEMMA EndKeeps ==
  ASSUME Inv, NEW w \in Workers, ~In(w, "idle"), NEW status \in {"conflict", "failed"},
         End(w, status)
  PROVE  Inv' /\ Refined
<1> DEFINE op == [Op(w) EXCEPT !.status = status]
           row == state[Op(w).cluster]
<1>1. Finish(w, op, row)
  BY DEF End
<1>2. ASSUME lock = w PROVE Settled(w, op, row)
  <2>1. Op(w).result = 0 /\ Op(w).status = "running"
    BY <1>2, Here DEF Inv, WorkersInv, Stands, Op, In, Good
  <2>2. op \in Operation
    BY Here DEF Operation, Statuses
  <2>3. Good(op, main)
    BY <2>1, Here DEF Good, Operation
  <2>4. /\ row \in ClusterState
        /\ row.last_commit \in 0..MainHead
        /\ row.last_commit # 0 =>
             Matches(TreeAt(main, row.last_commit)[Op(w).cluster], row.baseline)
    BY Here DEF Inv, TypeOK, RecordInv, Operation
  <2>5. /\ op.status = status /\ op.result = Op(w).result /\ op.cluster = Op(w).cluster
        /\ op.kind = Op(w).kind /\ op.preview = Op(w).preview
    BY Here DEF Operation
  <2> HIDE DEF op, row
  <2>6. QED  BY <2>2, <2>3, <2>4, <2>5 DEF Settled, Active
<1>3. QED  BY <1>1, <1>2, Finishes

LEMMA RecordKeeps ==
  ASSUME Inv, NEW w \in Workers, ~In(w, "idle"), worker[w].goal # "preview",
         NEW head \in 1..MainHead, Matches(Tree(w, head), Files(w)),
         RecordPublication(w, head)
  PROVE  Inv' /\ Refined
<1> DEFINE op == [Op(w) EXCEPT !.status = "succeeded", !.result = head]
           old == state[Op(w).cluster]
           row == Recorded(old, Op(w), head)
<1>1. Finish(w, op, row)
  BY DEF RecordPublication
<1>2. /\ Op(w) \in Operation /\ Op(w).kind = "publish"
      /\ Op(w).preview \in Previews /\ Op(w).preview # NoPreview
      /\ Op(w).preview.files.contact \in Contacts
      /\ old \in ClusterState
  BY Here DEF Good, Inv, TypeOK
<1>3. /\ op \in Operation
      /\ op.preview = Op(w).preview /\ op.kind = Op(w).kind /\ op.cluster = Op(w).cluster
      /\ op.status = "succeeded" /\ op.result = head
  <2>1. head \in Nat
    BY Here
  <2>2. QED  BY <1>2, <2>1 DEF Operation, Statuses
<1>4. Good(op, main)
  BY <1>2, <1>3, Here DEF Good, Operation, Tree, Files, MainHead
<1>5. /\ row \in ClusterState
      /\ row.last_commit = head
      /\ row.baseline = Files(w)
  BY <1>2, Here DEF Recorded, ClusterState, Previews, Files
<1>6. lock = w => Op(w).result = 0
  BY <1>2, Here DEF Inv, WorkersInv, Stands, Op, In, Good
<1>7. Matches(TreeAt(main, head)[op.cluster], row.baseline) /\ head \in 0..MainHead
  BY <1>3, <1>5, Here DEF Tree
<1> HIDE DEF op, row
<1>8. lock = w => Settled(w, op, row)
  BY <1>3, <1>4, <1>5, <1>6, <1>7 DEF Settled, Active
<1>9. QED  BY <1>1, <1>8, Finishes

LEMMA StepKeeps ==
  ASSUME Inv, NEW w \in Workers, ~In(w, "idle"), NEW phase \in Phases, Step(w, phase),
         Stands(w, [worker[w] EXCEPT !.phase = phase])
  PROVE  Inv' /\ Refined
<1> DEFINE r == [worker[w] EXCEPT !.phase = phase]
<1>1. r \in Worker
  BY Here DEF Worker
<1>2. worker' = [worker EXCEPT ![w] = r]
  BY DEF Step, Go
<1>3. UNCHANGED <<rows, lock, main, flight, generation, faults>>
  BY DEF Step
<1>4. QED  BY <1>1, <1>2, <1>3, Moves

LEMMA StartConfirmKeeps ==
  ASSUME Inv, NEW w \in Workers, ~In(w, "idle"), worker[w].goal # "preview",
         NEW candidate \in Nat, StartConfirm(w, candidate)
  PROVE  Inv' /\ Refined
<1> DEFINE r == [worker[w] EXCEPT !.phase = "confirm", !.candidate = candidate, !.head = 0]
<1>1. r \in Worker
  BY Here DEF Worker, Phases
<1>2. worker'[w] = r /\ worker' = [worker EXCEPT ![w] = r]
  BY DEF StartConfirm, Inv, TypeOK
<1>3. UNCHANGED <<rows, lock, main, flight, generation, faults>>
  BY DEF StartConfirm
<1>4. Stands(w, r)
  BY Here DEF Inv, WorkersInv, Stands, In, Worker
<1>5. QED  BY <1>1, <1>2, <1>3, <1>4, Moves

LEMMA UnconfirmedKeeps ==
  ASSUME Inv, NEW w \in Workers, worker[w].phase \in {"confirm", "refreshed"}, Unconfirmed(w)
  PROVE  Inv' /\ Refined
<1>1. CASE worker[w].goal = "recover"
  <2>1. Step(w, "check")
    BY <1>1 DEF Unconfirmed
  <2>2. Stands(w, [worker[w] EXCEPT !.phase = "check"])
    BY <1>1, Here DEF Inv, WorkersInv, Stands, In, Worker
  <2>3. QED  BY <2>1, <2>2, StepKeeps DEF In, Phases
<1>2. CASE worker[w].goal # "recover"
  BY <1>2, EndKeeps DEF Unconfirmed, In
<1>3. QED  BY <1>1, <1>2

LEMMA ReadRefsKeeps ==
  ASSUME Inv, NEW w \in Workers, ReadRefs(w)
  PROVE  Inv' /\ Refined
<1> DEFINE r == [worker[w] EXCEPT !.phase = "clone", !.head = MainHead]
<1>1. r \in Worker
  BY Here DEF Worker, Phases, ReadRefs, In
<1>2. worker'[w] = r /\ worker' = [worker EXCEPT ![w] = r]
  BY DEF ReadRefs, Inv, TypeOK
<1>3. Stands(w, r)
  BY Here DEF Inv, WorkersInv, Stands, In, Worker, ReadRefs
<1>4. QED  BY <1>1, <1>2, <1>3, Moves DEF ReadRefs

LEMMA CloneToRecoverKeeps ==
  ASSUME Inv, NEW w \in Workers, CloneToRecover(w)
  PROVE  Inv' /\ Refined
<1>1. ~In(w, "idle") /\ worker[w].goal = "recover"
  BY DEF CloneToRecover, In
<1>2. CASE StartConfirm(w, MainHead)
  BY <1>1, <1>2, StartConfirmKeeps, Here
<1>3. CASE Step(w, "check")
  <2>1. Stands(w, [worker[w] EXCEPT !.phase = "check"])
    BY <1>1, Here DEF Inv, WorkersInv, Stands, In, Worker, CloneToRecover
  <2>2. QED  BY <1>1, <1>3, <2>1, StepKeeps DEF Phases
<1>4. QED  BY <1>2, <1>3 DEF CloneToRecover

LEMMA CloneToPreviewKeeps ==
  ASSUME Inv, NEW w \in Workers, CloneToPreview(w)
  PROVE  Inv' /\ Refined
<1>1. ~In(w, "idle") /\ In(w, "clone") /\ worker[w].goal = "preview"
  BY DEF CloneToPreview, In
<1>2. CASE Step(w, "merged")
  <2>1. Stands(w, [worker[w] EXCEPT !.phase = "merged"])
    BY <1>1, Here DEF Inv, WorkersInv, Stands, In, Worker
  <2>2. QED  BY <1>1, <1>2, <2>1, StepKeeps DEF Phases
<1>3. CASE End(w, "conflict")
  BY <1>1, <1>3, EndKeeps
<1>4. QED  BY <1>2, <1>3 DEF CloneToPreview

LEMMA CloneToPublishKeeps ==
  ASSUME Inv, NEW w \in Workers, CloneToPublish(w)
  PROVE  Inv' /\ Refined
<1>1. ~In(w, "idle") /\ In(w, "clone") /\ worker[w].goal = "publish"
  BY DEF CloneToPublish, In
<1>2. CASE StartConfirm(w, MainHead)
  BY <1>1, <1>2, StartConfirmKeeps, Here
<1>3. CASE Step(w, "gate")
  <2>1. Stands(w, [worker[w] EXCEPT !.phase = "gate"])
    BY <1>1, Here DEF Inv, WorkersInv, Stands, In, Worker
  <2>2. QED  BY <1>1, <1>3, <2>1, StepKeeps DEF Phases
<1>4. CASE End(w, "conflict")
  BY <1>1, <1>4, EndKeeps
<1>5. QED  BY <1>2, <1>3, <1>4 DEF CloneToPublish

LEMMA CheckKeeps ==
  ASSUME Inv, NEW w \in Workers, Check(w)
  PROVE  Inv' /\ Refined
<1> DEFINE source == generation[Op(w).cluster]
           goal == IF worker[w].goal = "recover" THEN "publish" ELSE "preview"
           r == [worker[w] EXCEPT !.phase = "refs", !.goal = goal, !.fresh = FALSE,
                                  !.source = source, !.reads = 0]
<1>1. ~In(w, "idle") /\ In(w, "check")
  BY DEF Check, In
<1>2. CASE End(w, "conflict")
  BY <1>1, <1>2, EndKeeps
<1>3. CASE ~End(w, "conflict")
  <2>1. source \in Generations /\ source \in Nat
    BY <1>1, Here DEF Inv, TypeOK, Generations
  <2>2. r \in Worker
    BY <1>1, <2>1, Here DEF Worker, Phases, Goals
  <2>3. worker'[w] = r /\ worker' = [worker EXCEPT ![w] = r]
    BY <1>3, <2>2 DEF Check, Inv, TypeOK, Worker
  <2>4. worker[w].fresh /\ UNCHANGED <<rows, lock, main, flight, generation, faults>>
    BY <1>3 DEF Check
  <2>5. Stands(w, r)
    <3>1. worker[w].goal \in {"recover", "preview"}
      BY <1>1, Here DEF Inv, WorkersInv, Stands, In, Worker, Goals
    <3>2. QED  BY <1>1, <2>1, <2>4, <3>1, Here DEF Inv, WorkersInv, Stands, In, Worker
  <2>6. QED  BY <2>2, <2>3, <2>4, <2>5, Moves
<1>4. QED  BY <1>2, <1>3

\* A merge of what the portal renders always has an allocation and a contact.
LEMMA MergedType ==
  ASSUME NEW baseline \in Trees, NEW tree \in Trees,
         NEW g \in Generations, NEW contact \in Contacts
  PROVE  /\ Merged(baseline, tree, Rendered(g, contact)) \in Trees
         /\ Merged(baseline, tree, Rendered(g, contact)).contact \in Contacts
<1> DEFINE s == MergedFile(baseline.source, tree.source, g)
           k == MergedFile(baseline.contact, tree.contact, contact)
<1>1. s \in Generations \cup {Absent} /\ k \in Contacts
  BY DEF MergedFile, Trees
<1>2. Merged(baseline, tree, Rendered(g, contact)) = [source |-> s, contact |-> k, tidy |-> TRUE]
  BY DEF Merged, Rendered
<1> HIDE DEF s, k
<1>3. QED  BY <1>1, <1>2 DEF Trees

LEMMA PreviewReadyKeeps ==
  ASSUME Inv, NEW w \in Workers, PreviewReady(w)
  PROVE  Inv' /\ Refined
<1>1. ~In(w, "idle") /\ In(w, "merged") /\ worker[w].goal = "preview"
  BY DEF PreviewReady, In, Inv, WorkersInv, Stands
<1>2. CASE End(w, "conflict")
  BY <1>1, <1>2, EndKeeps
<1>3. CASE MainHead = worker[w].head
  <2> DEFINE files == Merged(Baseline(w), Tree(w, MainHead), Proposed(w))
             preview == [cluster |-> Op(w).cluster, head |-> MainHead,
                         files |-> files, source |-> worker[w].source]
             op == [Op(w) EXCEPT !.status = "preview_ready", !.preview = preview]
             row == state[Op(w).cluster]
  <2>1. Finish(w, op, row)
    BY <1>3 DEF PreviewReady
  <2>2. /\ row \in ClusterState
        /\ row.last_commit \in 0..MainHead
        /\ row.last_commit # 0 => Matches(TreeAt(main, row.last_commit)[Op(w).cluster], row.baseline)
    BY <1>1, Here DEF Inv, TypeOK, RecordInv, Operation
  <2>3. worker[w].source \in Generations
    BY <1>1 DEF Inv, WorkersInv, Stands, In
  <2>4. files \in Trees /\ files.contact \in Contacts
    <3>1. Tree(w, MainHead) \in Trees
      BY <1>1, Here, TreeType DEF Tree, Inv
    <3>2. QED
      BY <2>2, <2>3, <3>1, MergedType DEF Baseline, Proposed, ClusterState
  <2>5. preview \in Previews
    BY <1>1, <2>3, <2>4, Here DEF Previews
  <2>6. ASSUME lock = w PROVE Settled(w, op, row)
    <3>1. Op(w).kind = "preview" /\ Op(w).status = "running"
      BY <1>1, <2>6 DEF Inv, WorkersInv, Stands, Op, In
    <3>2. Op(w) \in Operation /\ Op(w).result = 0
      BY <1>1, <3>1, Here DEF Good
    <3>3. /\ op \in Operation
          /\ op.preview = preview /\ op.status = "preview_ready" /\ op.kind = "preview"
          /\ op.result = 0 /\ op.cluster = Op(w).cluster
      BY <2>5, <3>1, <3>2 DEF Operation, Statuses
    <3>4. preview.cluster = Op(w).cluster /\ preview.head = MainHead /\ preview.files = files
      OBVIOUS
    <3>5. MainHead <= Len(main)
      BY <1>1, Here DEF MainHead
    <3> HIDE DEF op, preview, files, row
    <3>6. Good(op, main)
      BY <2>4, <3>3, <3>4, <3>5 DEF Good
    <3>7. QED  BY <2>2, <3>1, <3>2, <3>3, <3>6 DEF Settled, Active
  <2>7. QED  BY <2>1, <2>6, Finishes
<1>4. QED  BY <1>2, <1>3 DEF PreviewReady

LEMMA GateKeeps ==
  ASSUME Inv, NEW w \in Workers, Gate(w)
  PROVE  Inv' /\ Refined
<1>1. ~In(w, "idle") /\ In(w, "gate")
  BY DEF Gate, In
<1>2. CASE Step(w, "push")
  <2>1. Stands(w, [worker[w] EXCEPT !.phase = "push"])
    BY <1>1, Here DEF Inv, WorkersInv, Stands, In, Worker
  <2>2. QED  BY <1>1, <1>2, <2>1, StepKeeps DEF Phases
<1>3. CASE End(w, "conflict")
  BY <1>1, <1>3, EndKeeps
<1>4. QED  BY <1>2, <1>3 DEF Gate

LEMMA PushReadBackKeeps ==
  ASSUME Inv, NEW w \in Workers, PushNotSent(w) \/ PushAnswered(w)
  PROVE  Inv' /\ Refined
<1>1. /\ ~In(w, "idle") /\ worker[w].goal = "publish"
      /\ StartConfirm(w, OwnPosition(w))
  BY DEF PushNotSent, PushAnswered, In, Inv, WorkersInv, Stands
<1>2. OwnPosition(w) \in Nat
  BY <1>1, Here DEF OwnPosition, Previews
<1>3. QED  BY <1>1, <1>2, StartConfirmKeeps

LEMMA ConfirmKeeps ==
  ASSUME Inv, NEW w \in Workers, Confirm(w)
  PROVE  Inv' /\ Refined
<1>1. ~In(w, "idle") /\ In(w, "confirm") /\ worker[w].goal # "preview"
  BY DEF Confirm, In, Inv, WorkersInv, Stands
<1> DEFINE holds == MainHead > 0 /\ Matches(Tree(w, MainHead), Files(w))
<1>2. holds => MainHead \in 1..MainHead
  BY <1>1, Here
<1>3. CASE holds /\ MainHead = worker[w].candidate
  BY <1>1, <1>2, <1>3, RecordKeeps DEF Confirm
<1>4. CASE holds /\ MainHead # worker[w].candidate
  <2> DEFINE r == [worker[w] EXCEPT !.phase = "refreshed", !.head = MainHead]
  <2>1. r \in Worker
    BY <1>1, Here DEF Worker, Phases
  <2>2. /\ worker' = [worker EXCEPT ![w] = r]
        /\ UNCHANGED <<rows, lock, main, flight, generation, faults>>
    BY <1>4 DEF Confirm
  <2>3. Stands(w, r)
    BY <1>1, <1>2, <1>4, Here DEF Inv, WorkersInv, Stands, In, Worker, Tree, Files, Op
  <2>4. QED  BY <2>1, <2>2, <2>3, Moves
<1>5. CASE ~holds
  BY <1>1, <1>5, UnconfirmedKeeps DEF Confirm, In
<1>6. QED  BY <1>3, <1>4, <1>5

LEMMA ConfirmAgainKeeps ==
  ASSUME Inv, NEW w \in Workers, ConfirmAgain(w)
  PROVE  Inv' /\ Refined
<1>1. /\ ~In(w, "idle") /\ In(w, "refreshed") /\ worker[w].goal # "preview"
      /\ worker[w].head \in 1..MainHead
      /\ Matches(Tree(w, worker[w].head), Files(w))
  BY DEF ConfirmAgain, In, Inv, WorkersInv, Stands, Tree, Files, Op
<1>2. CASE MainHead = worker[w].head
  BY <1>1, <1>2, RecordKeeps DEF ConfirmAgain
<1>3. CASE MainHead # worker[w].head /\ worker[w].reads + 1 = ConfirmReads
  BY <1>1, <1>3, UnconfirmedKeeps DEF ConfirmAgain, In
<1>4. CASE MainHead # worker[w].head /\ worker[w].reads + 1 # ConfirmReads
  <2> DEFINE r == [worker[w] EXCEPT !.phase = "confirm", !.reads = worker[w].reads + 1]
  <2>1. r \in Worker
    <3>1. worker[w] \in Worker /\ worker[w].reads + 1 \in Nat
      BY <1>1, Here DEF Worker
    <3>2. QED  BY <3>1 DEF Worker, Phases
  <2>2. /\ worker' = [worker EXCEPT ![w] = r]
        /\ UNCHANGED <<rows, lock, main, flight, generation, faults>>
    BY <1>1, <1>4, Here DEF ConfirmAgain, Worker, Inv, TypeOK
  <2>3. Stands(w, r)
    BY <1>1, Here DEF Inv, WorkersInv, Stands, In, Worker
  <2>4. QED  BY <2>1, <2>2, <2>3, Moves
<1>5. QED  BY <1>2, <1>3, <1>4

LEMMA FailsKeeps ==
  ASSUME Inv, NEW w \in Workers, Fails(w)
  PROVE  Inv' /\ Refined
BY EndKeeps DEF Fails, In

LEMMA ClaimKeeps ==
  ASSUME Inv, NEW w \in Workers, Claim(w)
  PROVE  Inv' /\ Refined
<1> USE DEF Inv
<1>1. PICK i \in Ids : /\ operations[i].status = "queued"
                       /\ operations' = [operations EXCEPT ![i].status = "running"]
  BY DEF Claim
<1> DEFINE op == [operations[i] EXCEPT !.status = "running"]
<1>2. /\ operations[i] \in Operation
      /\ i \in 1..Len(operations) /\ Ids = 1..Len(operations)
      /\ operations \in Seq(Operation)
  BY Rows DEF TypeOK
<1>3. /\ op \in Operation
      /\ op.kind = operations[i].kind /\ op.status = "running"
      /\ op.result = operations[i].result
      /\ op.cluster = operations[i].cluster /\ op.preview = operations[i].preview
  BY <1>2 DEF Operation, Statuses
<1>4. operations' = [operations EXCEPT ![i] = op]
  BY <1>1, <1>2 DEF Operation
<1> HIDE DEF op
<1>5. /\ operations' \in Seq(Operation)
      /\ Len(operations') = Len(operations)
      /\ \A o \in 1..Len(operations) : operations'[o] = IF o = i THEN op ELSE operations[o]
  BY ONLY <1>2, <1>3, <1>4, ExceptSeq
<1>6. TypeOK'
  BY <1>5 DEF Claim, TypeOK, rows
<1>7. Ids' = Ids
  BY <1>2, <1>5, <1>6, Rows, LenProperties DEF Ids, TypeOK
<1>8. RowsGrow
  <2>1. Len(operations) <= Len(operations')
    BY <1>5, Rows
  <2>2. QED  BY <1>2, <1>3, <1>5, <2>1 DEF RowsGrow
<1>9. RowsInv'
  <2>1. Good(op, main)
    BY <1>1, <1>2, <1>3 DEF RowsInv, Good
  <2>2. QED  BY <1>2, <1>5, <1>7, <2>1 DEF RowsInv, Claim
<1>10. OneActiveOperation'
  BY <1>1, <1>2, <1>3, <1>5, <1>7 DEF OneActiveOperation, Active
<1>11. RecordInv'
  BY DEF Claim, RecordInv, MainHead
<1>12. Inv'
  BY <1>6, <1>8, <1>9, <1>10, <1>11, RequestKeeps DEF Claim
<1>13. Refined
  BY <1>2, <1>3, <1>5, <1>7, RowsRefined DEF Claim
<1>14. QED  BY <1>12, <1>13

LEMMA ExecuteKeeps ==
  ASSUME Inv, NEW w \in Workers, Execute(w)
  PROVE  Inv' /\ Refined
<1> USE DEF Inv
<1>1. PICK o \in Ids :
        /\ operations[o].status = "running"
        /\ worker' = [worker EXCEPT ![w] = [Idle EXCEPT
             !.phase = IF operations[o].kind = "publish" THEN "refs" ELSE "check",
             !.goal = IF operations[o].kind = "publish" THEN "recover" ELSE "preview",
             !.op = o,
             !.fresh = Current(operations[o]) /\ repository.valid]]
  BY DEF Execute
<1>2. /\ lock = Nobody /\ lock' = w
      /\ UNCHANGED <<repository, state, operations, main, flight, generation, faults>>
  BY DEF Execute
<1>3. operations[o].kind \in {"preview", "publish"} /\ o \in Nat
  BY Rows DEF Operation
<1>4. /\ worker'[w] \in Worker
      /\ worker'[w].op = o
      /\ worker'[w].fresh => Current(operations[o]) /\ repository.valid
      /\ \/ /\ operations[o].kind = "publish"
            /\ worker'[w].phase = "refs" /\ worker'[w].goal = "recover"
         \/ /\ operations[o].kind = "preview"
            /\ worker'[w].phase = "check" /\ worker'[w].goal = "preview"
  BY <1>1, <1>3 DEF TypeOK, Idle, Worker, Phases, Goals, Current
<1>5. \A v \in Workers \ {w} : worker'[v] = worker[v]
  BY <1>1 DEF TypeOK
<1>6. TypeOK'
  BY <1>1, <1>2, <1>4, <1>5 DEF TypeOK
<1>7. RowsInv' /\ RecordInv' /\ FlightInv' /\ MainInv' /\ OneActiveOperation'
  BY <1>2 DEF RowsInv, RecordInv, FlightInv, MainInv, OneActiveOperation, Approved, Ids, MainHead
<1>8. WorkersInv'
  <2>1. Stands(w, worker[w])'
    BY <1>1, <1>2, <1>4 DEF Stands, Current, Ids
  <2>2. ASSUME NEW v \in Workers \ {w} PROVE Stands(v, worker[v])'
    <3>1. Aside(v)
      BY <1>2, <1>5, OperationAssumption DEF Aside
    <3>2. RowsGrow /\ MainGrows
      BY <1>2, MainStays, Rows DEF RowsGrow
    <3>3. QED  BY <1>6, <3>1, <3>2, StandsAside DEF WorkersInv
  <2>3. QED  BY <2>1, <2>2 DEF WorkersInv
<1>9. QED  BY <1>2, <1>6, <1>7, <1>8, SameRefined

LEMMA SendPushKeeps ==
  ASSUME Inv, NEW w \in Workers, SendPush(w)
  PROVE  Inv' /\ Refined
<1> USE DEF Inv
<1> DEFINE r == [worker[w] EXCEPT !.phase = "pushing"]
           p == OwnPush(w)
<1>1. ~In(w, "idle") /\ In(w, "push") /\ worker[w].goal = "publish"
  BY DEF SendPush, In, WorkersInv, Stands
<1>2. /\ flight' = flight \cup {p}
      /\ worker' = [worker EXCEPT ![w] = r]
      /\ MainHead = Op(w).preview.head
      /\ UNCHANGED <<rows, lock, main, generation, faults>>
  BY DEF SendPush, Go
<1>3. r \in Worker /\ Stands(w, r)
  BY <1>1, Here DEF WorkersInv, Stands, In, Worker, Phases
<1>4. p \in Push /\ Approved(p.op, p.parent, p.tree)
  <2>1. /\ MainHead \in Nat /\ worker[w].op \in Nat
        /\ Op(w).preview \in Previews /\ Op(w).cluster \in Clusters
        /\ Op(w).kind = "publish" /\ worker[w].op \in Ids
    BY <1>1, Here DEF Worker
  <2>2. TreeAt(main, MainHead) \in [Clusters -> Trees]
    BY <2>1, TreeAtType DEF TypeOK, MainHead
  <2>3. Files(w) \in Trees
    BY <2>1 DEF Files, Previews
  <2>4. QED  BY <1>2, <2>1, <2>2, <2>3 DEF OwnPush, Push, Approved, Op, Files
<1> HIDE DEF p
<1>5. TypeOK'
  BY <1>2, <1>3, <1>4 DEF TypeOK, rows
<1>6. RowsInv' /\ RecordInv' /\ MainInv' /\ OneActiveOperation'
  BY <1>2 DEF RowsInv, RecordInv, MainInv, OneActiveOperation, Approved, Ids, MainHead, rows
<1>7. FlightInv'
  BY <1>2, <1>4 DEF FlightInv, Approved, Ids, rows
<1>8. WorkersInv'
  <2>1. \A v \in Workers : Stands(v, worker'[v])
    BY <1>2, <1>3 DEF WorkersInv, TypeOK
  <2>2. QED  BY <1>2, <2>1 DEF WorkersInv, Stands, Current, MainHead, Ids, rows
<1>9. QED  BY <1>2, <1>5, <1>6, <1>7, <1>8, SameRefined DEF rows
-----------------------------------------------------------------------------
\* The steps of others.

\* Main moves: what every row, worker and push relies on is behind its head.
LEMMA BranchKeeps ==
  ASSUME Inv, NEW e \in Commit, main' = Append(main, e), flight' \subseteq flight,
         UNCHANGED <<rows, lock, generation, worker, faults>>,
         e.by # Customer => Approved(e.by, MainHead, e.tree)
  PROVE  Inv'
<1> USE DEF Inv
<1>1. /\ main' \in Seq(Commit) /\ MainHead' = MainHead + 1
      /\ main'[MainHead + 1] = e /\ MainGrows
  BY MainAppends
<1>2. TypeOK'
  BY <1>1 DEF TypeOK, rows
<1>3. RowsGrow /\ Ids' = Ids /\ operations' = operations
  BY Rows DEF RowsGrow, Ids, rows
<1>4. MainHead \in Nat /\ 1..MainHead' = (1..MainHead) \cup {MainHead + 1}
  BY <1>1, Rows
<1>5. RowsInv'
  BY <1>1, <1>2, <1>3, GoodKept, Rows DEF RowsInv
<1>6. RecordInv'
  BY <1>1, <1>4 DEF RecordInv, MainGrows, TypeOK, ClusterState, rows
<1>7. WorkersInv'
  <2> SUFFICES ASSUME NEW v \in Workers PROVE Stands(v, worker[v])'
    BY DEF WorkersInv
  <2>1. Aside(v)
    BY DEF Aside
  <2>2. QED  BY <1>1, <1>2, <1>3, <2>1, StandsAside DEF WorkersInv
<1>8. FlightInv'
  <2>1. ASSUME NEW p \in flight PROVE Approved(p.op, p.parent, p.tree)'
    BY <1>1, <1>2, <1>3, ApprovedKept DEF FlightInv
  <2>2. QED  BY <2>1 DEF FlightInv
<1>9. MainInv'
  <2> SUFFICES ASSUME NEW n \in 1..MainHead', main'[n].by # Customer
               PROVE  Approved(main[n].by, n - 1, main[n].tree)'
    BY DEF MainInv
  <2>1. PICK o, h, t : o = main'[n].by /\ h = n - 1 /\ t = main'[n].tree
    OBVIOUS
  <2>2. Approved(o, h, t)
    <3>1. CASE n \in 1..MainHead
      BY <1>1, <2>1, <3>1 DEF MainInv, MainGrows
    <3>2. CASE n = MainHead + 1
      <4>1. n - 1 = MainHead
        BY <1>4, <3>2
      <4>2. QED  BY <1>1, <2>1, <3>2, <4>1
    <3>3. QED  BY <1>4, <3>1, <3>2
  <2>3. Approved(o, h, t)'
    BY <1>1, <1>2, <1>3, <2>2, ApprovedKept
  <2>4. QED  BY <2>1, <2>3 DEF Approved
<1>10. OneActiveOperation'
  BY <1>3 DEF OneActiveOperation
<1>11. QED  BY <1>2, <1>5, <1>6, <1>7, <1>8, <1>9, <1>10

LEMMA AcceptKeeps ==
  ASSUME Inv, NEW p \in flight, Accept(p)
  PROVE  Inv' /\ Refined
<1> DEFINE e == [by |-> p.op, tree |-> p.tree]
<1>1. e \in Commit /\ Approved(e.by, MainHead, e.tree)
  BY DEF Inv, TypeOK, Push, Commit, FlightInv, Accept
<1>2. Inv'
  BY <1>1, BranchKeeps DEF Accept
<1>3. /\ p.op \in 1..MaxOperations /\ p.op \in Ids
      /\ operations[p.op] \in Operation
      /\ operations[p.op].kind = "publish" /\ operations[p.op].preview # NoPreview
      /\ operations[p.op].preview.head = MainHead
  BY <1>1, Rows, OperationAssumption DEF Inv, RowsInv, Approved, Good, Accept, FlightInv
<1>4. Approval(p.op) # NoPreview
  BY <1>3, OperationAssumption DEF Approval, Operation, Previews
<1>5. /\ Len(main) = Approval(p.op).head
      /\ p.tree = [TreeAt(main, Len(main)) EXCEPT ![Approval(p.op).cluster] = Approval(p.op).files]
  BY <1>1, <1>3 DEF Approval, Approved, MainHead
<1>6. (\A o : Approval(o)' = Approval(o)) /\ Ids' = Ids /\ operations' = operations
  BY DEF Accept, rows, Approval, Ids
<1>7. Abstract!Publish(p.op)
  BY <1>3, <1>4, <1>5, <1>6, SameTrees DEF Abstract!Publish, Accept
<1>8. QED  BY <1>2, <1>3, <1>7 DEF Refined, Abstract!Next

LEMMA CustomerCommitKeeps ==
  ASSUME Inv, CustomerCommit
  PROVE  Inv' /\ Refined
<1>1. PICK c \in Clusters :
        \E t \in HandTrees \cup {TreeAt(main, MainHead)[c]} :
          main' = Append(main, [by |-> Customer, tree |-> [TreeAt(main, MainHead) EXCEPT ![c] = t]])
  BY DEF CustomerCommit
<1> PICK t \in HandTrees \cup {TreeAt(main, MainHead)[c]} :
           main' = Append(main, [by |-> Customer, tree |-> [TreeAt(main, MainHead) EXCEPT ![c] = t]])
  BY <1>1
<1> DEFINE e == [by |-> Customer, tree |-> [TreeAt(main, MainHead) EXCEPT ![c] = t]]
<1>2. TreeAt(main, MainHead) \in [Clusters -> Trees]
  BY TreeAtType, Rows DEF Inv, TypeOK, MainHead
<1>3. e \in [by : {Customer}, tree : [Clusters -> Trees]]
  BY <1>2, WorkerAssumption
<1>4. e \in Commit /\ e.by = Customer
  BY <1>3 DEF Commit
<1>5. Inv'
  BY <1>1, <1>4, BranchKeeps DEF CustomerCommit
<1>6. /\ Len(main') = Len(main) + 1
      /\ main'[Len(main')] = e
  BY <1>4, MainAppends DEF Inv, MainHead
<1>7. (\A o : Approval(o)' = Approval(o)) /\ Ids' = Ids /\ operations' = operations
  BY DEF CustomerCommit, rows, Approval, Ids
<1>8. Abstract!CustomerCommit
  BY <1>1, <1>3, <1>6, <1>7, SameTrees DEF Abstract!CustomerCommit
<1>9. QED  BY <1>5, <1>8 DEF Refined, Abstract!Next

\* A refusal, or news of the infrastructure.
LEMMA ApartKeeps ==
  ASSUME Inv, flight' \subseteq flight, generation' \in [Clusters -> Generations],
         UNCHANGED <<rows, lock, main, worker, faults>>
  PROVE  Inv' /\ Refined
<1>1. TypeOK'
  BY DEF Inv, TypeOK, rows
<1>2. Refined
  BY SameRefined DEF rows
<1>3. QED
  BY <1>1, <1>2 DEF Inv, RowsInv, RecordInv, WorkersInv, Stands, Current, FlightInv, MainInv,
    OneActiveOperation, Approved, Ids, MainHead, rows

LEMMA NewGenerationKeeps ==
  ASSUME Inv, NEW c \in Clusters, NewGeneration(c)
  PROVE  Inv' /\ Refined
<1>1. generation' \in [Clusters -> Generations]
  BY TreeAssumption DEF Inv, TypeOK, NewGeneration, Generations
<1>2. QED  BY <1>1, ApartKeeps DEF NewGeneration

\* After a fault a worker stands without its lock, at the start or where it was.
LEMMA FaultKeeps ==
  ASSUME Inv, Fault, NEW w \in Workers, NEW r \in Worker,
         worker' = [worker EXCEPT ![w] = r],
         lock' \in {lock, Nobody},
         lock' = w => r.phase # "idle",
         Stands(w, r) \/ r.phase = "idle"
  PROVE  Inv' /\ Refined
<1> USE DEF Inv
<1>1. UNCHANGED <<rows, main, flight, generation>> /\ faults' \in Nat
  BY DEF Fault, TypeOK
<1>2. TypeOK'
  BY <1>1 DEF TypeOK, rows
<1>3. RowsInv' /\ RecordInv' /\ FlightInv' /\ MainInv' /\ OneActiveOperation'
  BY <1>1 DEF RowsInv, RecordInv, FlightInv, MainInv, OneActiveOperation, Approved, Ids,
              MainHead, rows
<1>4. WorkersInv'
  <2>1. Stands(w, worker[w])'
    <3>1. worker'[w] = r
      BY DEF TypeOK
    <3>2. CASE r.phase = "idle"
      BY <3>1, <3>2 DEF Stands
    <3>3. CASE r.phase # "idle"
      BY <1>1, <3>1, <3>3, OperationAssumption DEF Stands, Current, MainHead, Ids, rows
    <3>4. QED  BY <3>2, <3>3
  <2>2. ASSUME NEW v \in Workers \ {w} PROVE Stands(v, worker[v])'
    <3>1. Aside(v)
      BY <1>1, OperationAssumption DEF Aside, TypeOK
    <3>2. RowsGrow /\ MainGrows
      BY <1>1, MainStays, Rows DEF RowsGrow, rows
    <3>3. QED  BY <1>2, <3>1, <3>2, StandsAside DEF WorkersInv
  <2>3. QED  BY <2>1, <2>2 DEF WorkersInv
<1>5. QED  BY <1>1, <1>2, <1>3, <1>4, SameRefined DEF rows

LEMMA CrashKeeps ==
  ASSUME Inv, NEW w \in Workers, Crash(w)
  PROVE  Inv' /\ Refined
<1>1. Idle \in Worker /\ Idle.phase = "idle"
  BY DEF Idle, Worker, Phases, Goals
<1>2. lock' \in {lock, Nobody} /\ lock' # w
  BY OperationAssumption DEF Crash, Release
<1>3. QED  BY <1>1, <1>2, FaultKeeps DEF Crash

LEMMA LoseSessionKeeps ==
  ASSUME Inv, NEW w \in Workers, LoseSession(w)
  PROVE  Inv' /\ Refined
<1>1. worker[w] \in Worker /\ worker' = [worker EXCEPT ![w] = worker[w]]
  BY DEF Inv, TypeOK, LoseSession
<1>2. Stands(w, worker[w]) /\ lock' = Nobody
  BY DEF Inv, WorkersInv, LoseSession
<1>3. QED  BY <1>1, <1>2, FaultKeeps, OperationAssumption DEF LoseSession

LEMMA PushTimesOutKeeps ==
  ASSUME Inv, NEW w \in Workers, PushTimesOut(w)
  PROVE  Inv' /\ Refined
<1> DEFINE r == [worker[w] EXCEPT !.phase = "confirm", !.candidate = OwnPosition(w), !.head = 0]
<1>1. ~In(w, "idle") /\ In(w, "pushing") /\ worker[w].goal = "publish"
  BY DEF PushTimesOut, In, Inv, WorkersInv, Stands
<1>2. OwnPosition(w) \in Nat
  BY <1>1, Here DEF OwnPosition, Previews
<1>3. r \in Worker /\ r.phase = "confirm"
  BY <1>1, <1>2, Here DEF Worker, Phases
<1>4. worker'[w] = r /\ worker' = [worker EXCEPT ![w] = r] /\ lock' = lock
  BY DEF PushTimesOut, Inv, TypeOK
<1>5. Stands(w, r)
  BY <1>1, Here DEF Inv, WorkersInv, Stands, In, Worker
<1>6. QED  BY <1>3, <1>4, <1>5, FaultKeeps DEF PushTimesOut
-----------------------------------------------------------------------------
LEMMA Initially ==
  ASSUME Init
  PROVE  Inv /\ Abstract!Init
<1> USE DEF Init, InitRows
<1>1. TypeOK
  <2>1. state \in [Clusters -> ClusterState]
    BY OperationAssumption DEF ClusterState, Nothing, Trees
  <2>2. worker \in [Workers -> Worker]
    BY DEF Idle, Worker, Phases, Goals
  <2>3. operations \in Seq(Operation) /\ main \in Seq(Commit)
    BY EmptySeq
  <2>4. generation \in [Clusters -> Generations]
    BY TreeAssumption DEF Generations
  <2>5. QED  BY <2>1, <2>2, <2>3, <2>4 DEF TypeOK
<1>2. Ids = {} /\ Len(operations) = 0 /\ MainHead = 0
  BY <1>1, Rows, EmptySeq
<1>3. RowsInv /\ OneActiveOperation
  BY <1>2, OperationAssumption DEF RowsInv, OneActiveOperation
<1>4. RecordInv /\ FlightInv /\ MainInv
  BY <1>2 DEF RecordInv, FlightInv, MainInv
<1>5. WorkersInv
  BY OperationAssumption DEF WorkersInv, Stands, Idle
<1>6. Abstract!Init
  BY <1>2 DEF Abstract!Init, Approval
<1>7. QED  BY <1>1, <1>3, <1>4, <1>5, <1>6 DEF Inv

LEMMA StepsKeep ==
  ASSUME Inv, [Next]_vars
  PROVE  Inv' /\ Refined
<1>1. CASE UNCHANGED vars
  <2>1. UNCHANGED <<rows, lock, main, flight, generation, worker, faults>>
    BY <1>1 DEF vars, rows
  <2>2. generation' \in [Clusters -> Generations]
    BY <2>1 DEF Inv, TypeOK
  <2>3. QED  BY <2>1, <2>2, ApartKeeps
<1>2. ASSUME NEW w \in Workers, Work(w)
      PROVE  Inv' /\ Refined
  <2>1. CASE Claim(w)            BY <2>1, ClaimKeeps
  <2>2. CASE Execute(w)          BY <2>2, ExecuteKeeps
  <2>3. CASE ReadRefs(w)         BY <2>3, ReadRefsKeeps
  <2>4. CASE CloneToRecover(w)   BY <2>4, CloneToRecoverKeeps
  <2>5. CASE CloneToPreview(w)   BY <2>5, CloneToPreviewKeeps
  <2>6. CASE CloneToPublish(w)   BY <2>6, CloneToPublishKeeps
  <2>7. CASE Check(w)            BY <2>7, CheckKeeps
  <2>8. CASE PreviewReady(w)     BY <2>8, PreviewReadyKeeps
  <2>9. CASE Gate(w)             BY <2>9, GateKeeps
  <2>10. CASE SendPush(w)        BY <2>10, SendPushKeeps
  <2>11. CASE PushNotSent(w)     BY <2>11, PushReadBackKeeps
  <2>12. CASE PushAnswered(w)    BY <2>12, PushReadBackKeeps
  <2>13. CASE Confirm(w)         BY <2>13, ConfirmKeeps
  <2>14. CASE ConfirmAgain(w)    BY <2>14, ConfirmAgainKeeps
  <2>15. QED
    BY <1>2, <2>1, <2>2, <2>3, <2>4, <2>5, <2>6, <2>7, <2>8, <2>9, <2>10, <2>11, <2>12,
      <2>13, <2>14 DEF Work
<1>3. CASE Server
  <2>1. ASSUME NEW p \in flight, Refuse(p) PROVE Inv' /\ Refined
    BY <2>1, ApartKeeps DEF Refuse, Inv, TypeOK
  <2>2. QED  BY <1>3, <2>1, AcceptKeeps DEF Server
<1>4. CASE Request /\ UNCHANGED <<main, flight, generation, worker, faults>>
  BY <1>4, ReplaceCredentialsKeeps, ValidateRepositoryKeeps, SaveSettingsKeeps,
    EnqueuePreviewKeeps, EnqueuePublishKeeps DEF Request
<1>5. CASE CustomerCommit
  BY <1>5, CustomerCommitKeeps
<1>6. ASSUME NEW c \in Clusters, NewGeneration(c) PROVE Inv' /\ Refined
  BY <1>6, NewGenerationKeeps
<1>7. ASSUME NEW w \in Workers, Fails(w) \/ Crash(w) \/ LoseSession(w) \/ PushTimesOut(w)
      PROVE  Inv' /\ Refined
  BY <1>7, FailsKeeps, CrashKeeps, LoseSessionKeeps, PushTimesOutKeeps
<1>8. QED
  BY <1>1, <1>2, <1>3, <1>4, <1>5, <1>6, <1>7 DEF Next, Environment

LEMMA Invariance == Spec => []Inv
<1>1. Init => Inv
  BY Initially
<1>2. Inv /\ [Next]_vars => Inv'
  BY StepsKeep
<1>3. QED  BY <1>1, <1>2, PTL DEF Spec

\* Every reachable state is well typed.
THEOREM TypeCorrect == Spec => []TypeOK
<1>1. Inv => TypeOK
  BY DEF Inv
<1>2. QED  BY <1>1, Invariance, PTL

\* However often an operation is executed, retried or pushed late, by however
\* many workers, main has at most one commit of it.
THEOREM OnceOnMain == Spec => []PublishedOnce
<1>1. Inv => PublishedOnce
  <2> SUFFICES ASSUME Inv, NEW m \in 1..MainHead, NEW n \in 1..MainHead,
                      main[m].by = main[n].by, main[m].by # Customer
               PROVE  m = n
    BY Rows DEF PublishedOnce, Inv
  <2>1. /\ Approved(main[m].by, m - 1, main[m].tree)
        /\ Approved(main[n].by, n - 1, main[n].tree)
    BY DEF Inv, MainInv
  <2>2. m - 1 = n - 1
    BY <2>1 DEF Approved
  <2>3. QED  BY <2>2, Rows DEF Inv
<1>2. QED  BY <1>1, Invariance, PTL

\* A cluster never has two operations under way.
THEOREM OneAtATime == Spec => []OneActiveOperation
<1>1. Inv => OneActiveOperation
  BY DEF Inv
<1>2. QED  BY <1>1, Invariance, PTL

\* What is recorded as a cluster's last publication is what main holds there.
THEOREM TrueBaseline == Spec => []BaselineOnMain
<1>1. Inv => BaselineOnMain
  <2> SUFFICES ASSUME Inv, NEW c \in Clusters, state[c].last_commit # 0
               PROVE  /\ state[c].last_commit \in DOMAIN main
                      /\ Matches(main[state[c].last_commit].tree[c], state[c].baseline)
    BY DEF BaselineOnMain
  <2>1. /\ state[c].last_commit \in 0..MainHead
        /\ Matches(TreeAt(main, state[c].last_commit)[c], state[c].baseline)
    BY DEF Inv, RecordInv
  <2>2. QED  BY <2>1, Rows DEF Inv, TreeAt
<1>2. QED  BY <1>1, Invariance, PTL

\* The workers, their crashes and late pushes implement atomic publication of
\* what was approved.
THEOREM Implements == Spec => PublishesAsApproved
<1>1. Init => Abstract!Init
  BY Initially
<1>2. Inv /\ [Next]_vars => [Abstract!Next]_(Abstract!vars)
  BY StepsKeep DEF Refined
<1>3. QED  BY <1>1, <1>2, Invariance, PTL DEF Spec, PublishesAsApproved, Abstract!Spec

\* Only SendPush adds a push.
LEMMA PushesSent ==
  ASSUME [Next]_vars
  PROVE  flight' \subseteq flight \/ \E w \in Workers : SendPush(w)
<1>1. CASE UNCHANGED vars
  BY <1>1 DEF vars
<1>2. ASSUME NEW w \in Workers, Work(w), ~SendPush(w)
      PROVE  UNCHANGED flight
  BY <1>2 DEF Work, Claim, Execute, ReadRefs, CloneToRecover, CloneToPreview, CloneToPublish,
    Check, PreviewReady, Gate, PushNotSent, PushAnswered, Confirm, ConfirmAgain, Unconfirmed,
    Step, StartConfirm, End, RecordPublication, Finish
<1>3. CASE Server
  BY <1>3 DEF Server, Accept, Refuse
<1>4. CASE Environment
  BY <1>4 DEF Environment, CustomerCommit, NewGeneration, Fails, End, Finish, Crash,
    LoseSession, PushTimesOut, Fault
<1>5. QED  BY <1>1, <1>2, <1>3, <1>4 DEF Next

\* A worker that still has its session pushes only under the configuration that
\* was approved.
THEOREM CurrentPushes == Spec => PushesCurrentConfiguration
<1>1. Inv /\ [Next]_vars =>
        \A p \in flight' \ flight : lock = p.worker =>
           Current(operations[p.op]) /\ repository.valid
  <2> SUFFICES ASSUME Inv, [Next]_vars, NEW p \in flight' \ flight, lock = p.worker
               PROVE  Current(operations[p.op]) /\ repository.valid
    OBVIOUS
  <2>1. PICK w \in Workers : SendPush(w)
    BY PushesSent
  <2>2. p.op = worker[w].op /\ p.worker = w
    BY <2>1 DEF SendPush, OwnPush
  <2>3. QED  BY <2>1, <2>2 DEF SendPush, In, Inv, WorkersInv, Stands
<1>2. QED  BY <1>1, Invariance, PTL DEF Spec, PushesCurrentConfiguration
-----------------------------------------------------------------------------
\* The publications of a cluster that were reported at a commit up to head.
Published(rs, c, head) ==
  {o \in DOMAIN rs : rs[o].cluster = c /\ rs[o].result \in 1..head}

\* Of its cluster's tree at its head a preview replaces only what such a
\* publication wrote, and adds a file only where there was none.
OwnOnly(rs, branch, preview) ==
  \A part \in Parts :
    LET before == TreeAt(branch, preview.head)[preview.cluster][part]
        published == Published(rs, preview.cluster, preview.head)
    IN before # preview.files[part] =>
         IF before = Absent THEN published = {}
         ELSE \E o \in published : rs[o].preview.files[part] = before

PreviewsInv ==
  \A o \in Ids : operations[o].preview # NoPreview =>
    /\ operations[o].preview.files.source \in Generations
    /\ OwnOnly(operations, main, operations[o].preview)

\* The baseline of a cluster is what one of its publications wrote; without
\* any publication there is none.
BaselineInv ==
  \A c \in Clusters :
    \/ state[c].baseline = Nothing /\ Published(operations, c, MainHead) = {}
    \/ \E o \in Published(operations, c, MainHead) :
         operations[o].preview.files = state[c].baseline

\* What a worker merged still merges, while its rows are locked.
MergedInv ==
  \A w \in Workers : lock = w /\ In(w, "merged") =>
    /\ worker[w].head \in 0..MainHead
    /\ Merges(Baseline(w), Tree(w, worker[w].head), Proposed(w), Op(w).adopt)

EditsInv == PreviewsInv /\ BaselineInv /\ MergedInv

\* A branch that a step leaves or extends.
LEMMA BranchGrows ==
  ASSUME TypeOK, [Next]_vars
  PROVE  MainGrows
<1>1. CASE UNCHANGED main
  BY <1>1, MainStays
<1>2. ASSUME NEW p \in flight, Accept(p) PROVE MainGrows
  <2>1. [by |-> p.op, tree |-> p.tree] \in Commit
    BY DEF TypeOK, Push, Commit
  <2>2. QED  BY <1>2, <2>1, MainAppends DEF Accept
<1>3. CASE CustomerCommit
  <2>1. PICK c \in Clusters :
          \E t \in HandTrees \cup {TreeAt(main, MainHead)[c]} :
            main' = Append(main, [by |-> Customer, tree |-> [TreeAt(main, MainHead) EXCEPT ![c] = t]])
    BY <1>3 DEF CustomerCommit
  <2> PICK t \in HandTrees \cup {TreeAt(main, MainHead)[c]} :
        main' = Append(main, [by |-> Customer, tree |-> [TreeAt(main, MainHead) EXCEPT ![c] = t]])
    BY <2>1
  <2>2. TreeAt(main, MainHead) \in [Clusters -> Trees]
    BY TreeAtType, Rows DEF TypeOK, MainHead
  <2>3. [by |-> Customer, tree |-> [TreeAt(main, MainHead) EXCEPT ![c] = t]] \in Commit
    BY <2>2, WorkerAssumption DEF Commit
  <2>4. QED  BY <2>3, MainAppends
<1>4. ASSUME NEW w \in Workers, Work(w) PROVE UNCHANGED main
  BY <1>4 DEF Work, Claim, Execute, ReadRefs, CloneToRecover, CloneToPreview, CloneToPublish,
    Check, PreviewReady, Gate, SendPush, PushNotSent, PushAnswered, Confirm, ConfirmAgain,
    Unconfirmed, Step, StartConfirm, End, RecordPublication, Finish
<1>5. ASSUME NEW w \in Workers, Fails(w) \/ Crash(w) \/ LoseSession(w) \/ PushTimesOut(w)
      PROVE  UNCHANGED main
  BY <1>5 DEF Fails, End, Finish, Crash, LoseSession, PushTimesOut, Fault
<1>6. QED
  BY <1>1, <1>2, <1>3, <1>4, <1>5
  DEF Next, Server, Refuse, Environment, NewGeneration, vars

\* Rows of which neither what was previewed, nor what was published, nor what
\* is recorded as published changes.
Alike ==
  /\ Ids \subseteq Ids'
  /\ \A o \in Ids : /\ operations'[o].cluster = operations[o].cluster
                    /\ operations'[o].preview = operations[o].preview
                    /\ operations'[o].result = operations[o].result
  /\ \A o \in Ids' \ Ids : operations'[o].preview = NoPreview /\ operations'[o].result = 0
  /\ \A c \in Clusters : state'[c].baseline = state[c].baseline

LEMMA SameAlike ==
  ASSUME UNCHANGED <<operations, state>>
  PROVE  Alike
BY DEF Alike, Ids

\* What was reported, and where.
LEMMA PublishedByNow ==
  ASSUME Inv, NEW c \in Clusters
  PROVE  /\ \A h \in Nat : MainHead <= h =>
              Published(operations, c, h) = Published(operations, c, MainHead)
         /\ \A o \in Ids : operations[o].preview # NoPreview =>
              /\ operations[o].preview \in Previews
              /\ operations[o].preview.cluster = operations[o].cluster
              /\ operations[o].preview.head \in 0..MainHead
              /\ operations[o].preview.files.contact \in Contacts
<1>1. \A o \in Ids : operations[o] \in Operation /\ Good(operations[o], main)
  BY Rows DEF Inv, RowsInv
<1>2. MainHead \in Nat
  BY Rows DEF Inv
<1>3. \A o \in Ids : operations[o].result \in Nat /\ operations[o].result <= MainHead
  BY <1>1, <1>2 DEF Operation, Good, MainHead
<1>4. QED
  BY <1>1, <1>2, <1>3 DEF Published, Ids, Operation, Good, Previews, MainHead

LEMMA AlikeKeeps ==
  ASSUME Inv, Inv', PreviewsInv, BaselineInv, Alike, MainGrows
  PROVE  PreviewsInv' /\ BaselineInv'
<1>1. MainHead \in Nat /\ MainHead' \in Nat /\ MainHead <= MainHead'
  BY Rows, LenProperties DEF Inv, TypeOK, MainHead, MainGrows
<1>2. \A c \in Clusters, h \in Nat : Published(operations', c, h) = Published(operations, c, h)
  BY DEF Alike, Published, Ids
<1>3. ASSUME NEW o \in Ids', operations'[o].preview # NoPreview
      PROVE  /\ operations'[o].preview.files.source \in Generations
             /\ OwnOnly(operations', main', operations'[o].preview)
  <2> DEFINE p == operations[o].preview
  <2>1. o \in Ids /\ operations'[o].preview = p
    BY <1>3 DEF Alike
  <2>2. p.files.source \in Generations /\ OwnOnly(operations, main, p)
    BY <1>3, <2>1 DEF PreviewsInv
  <2>3. p.head \in 0..MainHead /\ p.head \in Nat /\ p.cluster \in Clusters
    BY <1>1, <1>3, <2>1, PublishedByNow, Rows DEF Inv, Operation, Previews
  <2>4. TreeAt(main', p.head) = TreeAt(main, p.head)
    BY <2>3 DEF MainGrows
  <2>5. \A q \in Published(operations, p.cluster, p.head) :
          operations'[q].preview = operations[q].preview
    BY DEF Alike, Published, Ids
  <2>6. OwnOnly(operations', main', p)
    BY <1>2, <2>2, <2>3, <2>4, <2>5 DEF OwnOnly
  <2>7. QED  BY <2>1, <2>2, <2>6
<1>4. ASSUME NEW c \in Clusters
      PROVE  \/ state'[c].baseline = Nothing /\ Published(operations', c, MainHead') = {}
             \/ \E o \in Published(operations', c, MainHead') :
                  operations'[o].preview.files = state'[c].baseline
  <2>1. Published(operations', c, MainHead') = Published(operations, c, MainHead)
    BY <1>1, <1>2, PublishedByNow
  <2>2. \A q \in Published(operations, c, MainHead) :
          operations'[q].preview = operations[q].preview
    BY DEF Alike, Published, Ids
  <2>3. state'[c].baseline = state[c].baseline
    BY DEF Alike
  <2>4. QED  BY <2>1, <2>2, <2>3 DEF BaselineInv
<1>5. QED  BY <1>3, <1>4 DEF PreviewsInv, BaselineInv

LEMMA EndAlike ==
  ASSUME Inv, NEW w \in Workers, ~In(w, "idle"), NEW status, End(w, status)
  PROVE  Alike
<1> DEFINE i == worker[w].op
           op == [Op(w) EXCEPT !.status = status]
<1>1. CASE lock # w
  BY <1>1, SameAlike DEF End, Finish
<1>2. CASE lock = w
  <2>1. /\ operations' = [operations EXCEPT ![i] = op]
        /\ state' = [state EXCEPT ![Op(w).cluster] = state[Op(w).cluster]]
    BY <1>2 DEF End, Finish
  <2>2. Op(w) \in Operation /\ i \in Ids /\ Op(w) = operations[i]
    BY Here DEF Op
  <2>3. /\ op.cluster = operations[i].cluster
        /\ op.preview = operations[i].preview
        /\ op.result = operations[i].result
    BY <2>2 DEF Operation
  <2> HIDE DEF op
  <2>4. Ids' = Ids /\ \A o \in Ids : operations'[o] = IF o = i THEN op ELSE operations[o]
    BY <2>1, <2>2 DEF Ids
  <2>5. state' = state
    BY <2>1 DEF Inv, TypeOK
  <2>6. QED  BY <2>3, <2>4, <2>5 DEF Alike
<1>3. QED  BY <1>1, <1>2

\* The two steps that write more: a preview is ready, a publication is recorded.
Prepares(w) == lock = w /\ MainHead = worker[w].head /\ PreviewReady(w)

Records(w) ==
  /\ lock = w /\ ~In(w, "idle") /\ worker[w].goal # "preview"
  /\ MainHead > 0 /\ Matches(Tree(w, MainHead), Files(w))
  /\ RecordPublication(w, MainHead)

LEMMA FinishAlike ==
  ASSUME NEW w, NEW op, NEW row, Finish(w, op, row), lock # w
  PROVE  Alike
BY SameAlike DEF Finish

LEMMA WorkRows ==
  ASSUME Inv, NEW w \in Workers, Work(w)
  PROVE  Alike \/ Prepares(w) \/ Records(w)
<1>1. ASSUME Unconfirmed(w), ~In(w, "idle") PROVE Alike
  BY <1>1, SameAlike, EndAlike DEF Unconfirmed, Step, rows
<1>2. CASE Claim(w)
  <2>1. PICK i \in Ids : operations' = [operations EXCEPT ![i].status = "running"]
    BY <1>2 DEF Claim
  <2>2. operations[i] \in Operation
    BY Rows DEF Inv
  <2> DEFINE op == [operations[i] EXCEPT !.status = "running"]
  <2>3. /\ op.cluster = operations[i].cluster
        /\ op.preview = operations[i].preview
        /\ op.result = operations[i].result
    BY <2>2 DEF Operation
  <2>4. operations' = [operations EXCEPT ![i] = op]
    BY <2>1, <2>2 DEF Operation
  <2> HIDE DEF op
  <2>5. Ids' = Ids /\ \A o \in Ids : operations'[o] = IF o = i THEN op ELSE operations[o]
    BY <2>4 DEF Ids
  <2>6. QED  BY <1>2, <2>3, <2>5 DEF Alike, Claim
<1>3. CASE Execute(w) \/ ReadRefs(w) \/ CloneToRecover(w) \/ SendPush(w) \/ PushNotSent(w)
             \/ PushAnswered(w)
  BY <1>3, SameAlike DEF Execute, ReadRefs, CloneToRecover, SendPush, PushNotSent, PushAnswered,
    Step, StartConfirm, rows
<1>4. CASE CloneToPreview(w) \/ CloneToPublish(w) \/ Check(w) \/ Gate(w)
  BY <1>4, SameAlike, EndAlike DEF CloneToPreview, CloneToPublish, Check, Gate, Step,
    StartConfirm, In, rows
<1>5. CASE PreviewReady(w)
  BY <1>5, FinishAlike, EndAlike DEF PreviewReady, Prepares, In
<1>6. CASE Confirm(w)
  <2>1. ~In(w, "idle") /\ worker[w].goal # "preview"
    BY <1>6 DEF Confirm, In, Inv, WorkersInv, Stands
  <2>2. QED
    BY <1>1, <1>6, <2>1, SameAlike, FinishAlike DEF Confirm, Records, RecordPublication, rows
<1>7. CASE ConfirmAgain(w)
  <2>1. /\ ~In(w, "idle") /\ worker[w].goal # "preview"
        /\ worker[w].head \in 1..MainHead
        /\ Matches(Tree(w, worker[w].head), Files(w))
    BY <1>7 DEF ConfirmAgain, In, Inv, WorkersInv, Stands, Tree, Files, Op
  <2>2. CASE MainHead = worker[w].head
    <3>1. MainHead > 0
      BY <2>1, <2>2, Rows DEF Inv
    <3>2. QED
      BY <1>7, <2>1, <2>2, <3>1, FinishAlike DEF ConfirmAgain, Records, RecordPublication
  <2>3. CASE MainHead # worker[w].head
    BY <1>1, <1>7, <2>1, <2>3, SameAlike DEF ConfirmAgain, rows
  <2>4. QED  BY <2>2, <2>3
<1>8. QED
  BY <1>2, <1>3, <1>4, <1>5, <1>6, <1>7 DEF Work

LEMMA RequestRows ==
  ASSUME Inv, Request
  PROVE  Alike
<1> USE DEF Inv
<1>1. CASE ReplaceCredentials \/ ValidateRepository
  BY <1>1, SameAlike DEF ReplaceCredentials, ValidateRepository
<1>2. ASSUME NEW c \in Clusters, NEW contact \in Contacts, SaveSettings(c, contact)
      PROVE  Alike
  <2>1. state[c] \in ClusterState
    BY DEF TypeOK
  <2>2. \A d \in Clusters : state'[d].baseline = state[d].baseline
    BY <1>2, <2>1 DEF SaveSettings, TypeOK, ClusterState
  <2>3. QED  BY <1>2, <2>2 DEF SaveSettings, Alike, Ids
<1>3. ASSUME NEW c \in Clusters, NEW adopt \in BOOLEAN, EnqueuePreview(c, adopt)
      PROVE  Alike
  <2> DEFINE n == Len(operations)
             new == [cluster |-> c, kind |-> "preview", status |-> "queued",
                     repository_version |-> repository.version,
                     settings_version |-> state[c].version,
                     adopt |-> adopt, preview |-> NoPreview, result |-> 0]
             Kept(o) == IF operations[o].cluster = c /\ operations[o].status = "preview_ready"
                        THEN [operations[o] EXCEPT !.status = "superseded"] ELSE operations[o]
             kept == [o \in 1..n |-> Kept(o)]
  <2>1. new \in Operation
    BY DEF Operation, Statuses, TypeOK, ClusterState
  <2>2. \A o \in 1..n : Kept(o) \in Operation
    BY Rows DEF Operation, Statuses
  <2>3. kept \in Seq(Operation) /\ Len(kept) = n
    <3>1. n \in Nat
      BY Rows
    <3>2. QED  BY <2>2, <3>1, IsASeq
  <2>4. operations' = Append(kept, new)
    BY <1>3, Rows DEF EnqueuePreview
  <2>5. /\ operations' \in Seq(Operation)
        /\ Len(operations') = n + 1
        /\ operations'[n + 1] = new
        /\ \A o \in 1..n : operations'[o] = Kept(o)
    BY <2>1, <2>3, <2>4, AppendProperties
  <2> HIDE DEF new
  <2>6. \A o \in 1..n : /\ operations'[o].cluster = operations[o].cluster
                        /\ operations'[o].preview = operations[o].preview
                        /\ operations'[o].result = operations[o].result
    BY <2>5, Rows DEF Operation
  <2>7. n \in Nat /\ Ids = 1..n /\ Ids' = 1..(n + 1)
    BY <2>5, Rows, LenProperties DEF Ids
  <2>8. new.preview = NoPreview /\ new.result = 0
    BY DEF new
  <2>9. QED  BY <1>3, <2>5, <2>6, <2>7, <2>8 DEF EnqueuePreview, Alike
<1>4. ASSUME NEW i \in Ids, EnqueuePublish(i)
      PROVE  Alike
  <2> DEFINE op == [operations[i] EXCEPT !.kind = "publish", !.status = "queued"]
  <2>1. operations[i] \in Operation
    BY Rows
  <2>2. /\ op.cluster = operations[i].cluster
        /\ op.preview = operations[i].preview
        /\ op.result = operations[i].result
    BY <2>1 DEF Operation
  <2>3. operations' = [operations EXCEPT ![i] = op]
    BY <1>4, <2>1 DEF EnqueuePublish, Operation
  <2> HIDE DEF op
  <2>4. Ids' = Ids /\ \A o \in Ids : operations'[o] = IF o = i THEN op ELSE operations[o]
    BY <2>3 DEF Ids
  <2>5. QED  BY <1>4, <2>2, <2>4 DEF Alike, EnqueuePublish
<1>5. QED  BY <1>1, <1>2, <1>3, <1>4 DEF Request

LEMMA StepRows ==
  ASSUME Inv, [Next]_vars
  PROVE  Alike \/ \E w \in Workers : Prepares(w) \/ Records(w)
<1>1. CASE UNCHANGED vars \/ Server \/ CustomerCommit \/ \E c \in Clusters : NewGeneration(c)
  BY <1>1, SameAlike DEF vars, Server, Accept, Refuse, CustomerCommit, NewGeneration, rows
<1>2. ASSUME NEW w \in Workers, Fails(w) PROVE Alike
  BY <1>2, EndAlike DEF Fails, In
<1>3. ASSUME NEW w \in Workers, Crash(w) \/ LoseSession(w) \/ PushTimesOut(w) PROVE Alike
  BY <1>3, SameAlike DEF Crash, LoseSession, PushTimesOut, Fault, rows
<1>4. QED
  BY <1>1, <1>2, <1>3, WorkRows, RequestRows DEF Next, Environment

\* A preview takes from what main holds only what the baseline says the portal
\* wrote there.
LEMMA MergeOwnOnly ==
  ASSUME Inv, EditsInv, NEW w \in Workers, Prepares(w), NEW p \in Previews,
         p.cluster = Op(w).cluster, p.head = MainHead,
         p.files = Merged(Baseline(w), Tree(w, MainHead), Proposed(w))
  PROVE  OwnOnly(operations, main, p) /\ p.files.source \in Generations
<1> DEFINE c == Op(w).cluster
           old == Baseline(w)
           now == Tree(w, MainHead)
           desired == Proposed(w)
<1>1. ~In(w, "idle") /\ In(w, "merged") /\ worker[w].goal = "preview"
      /\ worker[w].source \in Generations
  BY DEF Prepares, PreviewReady, In, Inv, WorkersInv, Stands
<1>2. Merges(old, now, desired, Op(w).adopt)
  BY <1>1 DEF Prepares, EditsInv, MergedInv
<1>3. /\ desired.source \in Generations /\ desired.contact \in Contacts
      /\ p.files.source = desired.source
  BY <1>1, <1>2, Here DEF Proposed, Rendered, Merges, Inv, TypeOK, ClusterState
<1>4. Absent \notin Generations /\ Absent \notin Contacts
  BY TreeAssumption DEF Generations
<1>5. \A part \in Parts :
        /\ FileMerges(old[part], now[part], desired[part], Op(w).adopt)
        /\ p.files[part] = MergedFile(old[part], now[part], desired[part])
  BY <1>2 DEF Merges, Merged, Parts
<1>6. c \in Clusters /\ MainHead \in Nat /\ old = state[c].baseline
  BY <1>1, Here DEF Baseline
<1>7. ASSUME NEW part \in Parts, now[part] # p.files[part]
      PROVE  IF now[part] = Absent THEN Published(operations, c, MainHead) = {}
             ELSE \E o \in Published(operations, c, MainHead) :
                    operations[o].preview.files[part] = now[part]
  <2>1. CASE now[part] = Absent
    <3>1. old[part] = Absent
      BY <1>5, <2>1 DEF FileMerges
    <3>2. \A o \in Published(operations, c, MainHead) :
            operations[o].preview.files[part] # Absent
      <4>1. ASSUME NEW o \in Published(operations, c, MainHead)
            PROVE  operations[o].preview.files[part] # Absent
        <5>1. o \in Ids /\ operations[o].result \in 1..MainHead
          BY DEF Published, Ids
        <5>2. operations[o].preview # NoPreview
          BY <1>6, <5>1 DEF Inv, RowsInv, Good
        <5>3. operations[o].preview.files.source \in Generations
              /\ operations[o].preview.files.contact \in Contacts
          BY <1>6, <5>1, <5>2, PublishedByNow DEF EditsInv, PreviewsInv
        <5>4. QED  BY <1>4, <5>3 DEF Parts
      <4>2. QED  BY <4>1
    <3>3. QED  BY <1>6, <2>1, <3>1, <3>2 DEF EditsInv, BaselineInv
  <2>2. CASE now[part] # Absent
    <3>1. old[part] # Absent /\ now[part] = old[part]
      BY <1>5, <1>7, <2>2 DEF FileMerges, MergedFile
    <3>2. old # Nothing
      BY <3>1 DEF Nothing, Parts
    <3>3. QED  BY <1>6, <2>2, <3>1, <3>2 DEF EditsInv, BaselineInv
  <2>3. QED  BY <2>1, <2>2
<1>8. OwnOnly(operations, main, p)
  BY <1>7 DEF OwnOnly, Tree
<1>9. QED  BY <1>3, <1>8

LEMMA PreparesKeeps ==
  ASSUME Inv, Inv', EditsInv, NEW w \in Workers, Prepares(w)
  PROVE  PreviewsInv' /\ BaselineInv'
<1> DEFINE i == worker[w].op
           p == [cluster |-> Op(w).cluster, head |-> MainHead,
                 files |-> Merged(Baseline(w), Tree(w, MainHead), Proposed(w)),
                 source |-> worker[w].source]
           op == [Op(w) EXCEPT !.status = "preview_ready", !.preview = p]
<1>1. /\ operations' = [operations EXCEPT ![i] = op]
      /\ state' = [state EXCEPT ![Op(w).cluster] = state[Op(w).cluster]]
      /\ main' = main
  BY DEF Prepares, PreviewReady, Finish
<1>2. ~In(w, "idle") /\ In(w, "merged") /\ worker[w].goal = "preview"
  BY DEF Prepares, PreviewReady, In, Inv, WorkersInv, Stands
<1>3. /\ Op(w) \in Operation /\ i \in Ids /\ Op(w) = operations[i] /\ Op(w).result = 0
      /\ MainHead \in Nat
  BY <1>2, Here DEF Op, Prepares, In, Inv, WorkersInv, Stands, Good
<1>4. op.cluster = operations[i].cluster /\ op.result = 0 /\ op.preview = p
  BY <1>3 DEF Operation
<1>5. /\ p.cluster = Op(w).cluster /\ p.head = MainHead
      /\ p.files = Merged(Baseline(w), Tree(w, MainHead), Proposed(w))
  OBVIOUS
<1> HIDE DEF op, p
<1>6. Ids' = Ids /\ \A o \in Ids : operations'[o] = IF o = i THEN op ELSE operations[o]
  BY <1>1, <1>3 DEF Ids
<1>7. state' = state /\ MainHead' = MainHead
  BY <1>1 DEF Inv, TypeOK, MainHead
<1>8. op \in Operation
  <2>1. operations' \in Seq(Operation) /\ i \in 1..Len(operations')
    BY <1>3, <1>6, LenProperties DEF Inv, TypeOK, Ids
  <2>2. operations'[i] \in Operation
    BY ONLY <2>1, ElementOfSeq
  <2>3. QED  BY <1>3, <1>6, <2>2
<1>9. /\ p # NoPreview => p \in Previews
      /\ \A h \in Nat : \A c \in Clusters :
           /\ Published(operations', c, h) = Published(operations, c, h)
           /\ i \notin Published(operations, c, h)
  BY <1>3, <1>4, <1>6, <1>8 DEF Published, Ids, Operation
<1>10. \A q \in Previews : OwnOnly(operations, main, q) => OwnOnly(operations', main', q)
  <2>1. ASSUME NEW q \in Previews PROVE
           /\ Published(operations', q.cluster, q.head) = Published(operations, q.cluster, q.head)
           /\ \A o \in Published(operations, q.cluster, q.head) : operations'[o] = operations[o]
    <3>1. q.cluster \in Clusters /\ q.head \in Nat
      BY DEF Previews
    <3>2. QED  BY <1>6, <1>9, <3>1 DEF Published, Ids
  <2>2. QED  BY <1>1, <2>1 DEF OwnOnly
<1>11. p # NoPreview => p.files.source \in Generations /\ OwnOnly(operations', main', p)
  BY <1>5, <1>9, <1>10, MergeOwnOnly
<1>12. PreviewsInv'
  <2>1. ASSUME NEW o \in Ids, operations'[o].preview # NoPreview
        PROVE  /\ operations'[o].preview.files.source \in Generations
               /\ OwnOnly(operations', main', operations'[o].preview)
    <3>1. CASE o = i
      BY <1>4, <1>6, <1>11, <2>1, <3>1
    <3>2. CASE o # i
      <4>1. operations'[o] = operations[o] /\ operations[o].preview \in Previews
        BY <1>6, <2>1, <3>2, Rows DEF Inv, Operation
      <4>2. QED  BY <1>10, <2>1, <4>1 DEF EditsInv, PreviewsInv
    <3>3. QED  BY <3>1, <3>2
  <2>2. QED  BY <1>6, <2>1 DEF PreviewsInv
<1>13. BaselineInv'
  <2>1. ASSUME NEW c \in Clusters
        PROVE  \/ state'[c].baseline = Nothing /\ Published(operations', c, MainHead') = {}
               \/ \E o \in Published(operations', c, MainHead') :
                    operations'[o].preview.files = state'[c].baseline
    <3>1. \A o \in Published(operations, c, MainHead) : operations'[o] = operations[o]
      BY <1>3, <1>6, <1>9 DEF Published, Ids
    <3>2. QED  BY <1>3, <1>7, <1>9, <3>1 DEF EditsInv, BaselineInv
  <2>2. QED  BY <2>1 DEF BaselineInv
<1>14. QED  BY <1>12, <1>13

LEMMA RecordsKeeps ==
  ASSUME Inv, Inv', EditsInv, NEW w \in Workers, Records(w)
  PROVE  PreviewsInv' /\ BaselineInv'
<1> DEFINE i == worker[w].op
           d == Op(w).cluster
           op == [Op(w) EXCEPT !.status = "succeeded", !.result = MainHead]
           row == Recorded(state[d], Op(w), MainHead)
<1>1. /\ operations' = [operations EXCEPT ![i] = op]
      /\ state' = [state EXCEPT ![d] = row]
      /\ main' = main
  BY DEF Records, RecordPublication, Finish
<1>2. /\ Op(w) \in Operation /\ i \in Ids /\ Op(w) = operations[i] /\ Op(w).result = 0
      /\ MainHead \in Nat /\ MainHead > 0 /\ d \in Clusters /\ d = operations[i].cluster
      /\ operations[i].preview # NoPreview
  BY Here DEF Op, Records, In, Inv, WorkersInv, Stands, Good
<1>3. op.cluster = d /\ op.result = MainHead /\ op.preview = operations[i].preview
  BY <1>2 DEF Operation
<1>4. row.baseline = operations[i].preview.files
  BY <1>2 DEF Recorded
<1> HIDE DEF op, row
<1>5. Ids' = Ids /\ \A o \in Ids : operations'[o] = IF o = i THEN op ELSE operations[o]
  BY <1>1, <1>2 DEF Ids
<1>6. \A c \in Clusters : state'[c] = IF c = d THEN row ELSE state[c]
  BY <1>1, <1>2 DEF Inv, TypeOK
<1>7. MainHead' = MainHead
  BY <1>1 DEF MainHead
<1>8. \A o \in Ids : operations'[o].preview = operations[o].preview
  BY <1>3, <1>5
<1>9. \A c \in Clusters, h \in Nat :
        Published(operations', c, h) =
          IF c = d /\ MainHead <= h THEN Published(operations, c, h) \cup {i}
          ELSE Published(operations, c, h)
  BY <1>2, <1>3, <1>5 DEF Published, Ids
<1>10. \A part \in Parts :
         /\ TreeAt(main, MainHead)[d][part] = operations[i].preview.files[part]
         /\ operations[i].preview.files[part] # Absent
  <2>1. operations[i].preview.files.source \in Generations
        /\ operations[i].preview.files.contact \in Contacts
    BY <1>2, PublishedByNow DEF EditsInv, PreviewsInv
  <2>2. \A part \in Parts : operations[i].preview.files[part] # Absent
    BY <2>1, TreeAssumption DEF Parts, Generations
  <2>3. QED  BY <1>2, <2>2 DEF Records, Matches, Tree, Files
<1>11. ASSUME NEW o \in Ids, operations[o].preview # NoPreview
       PROVE  OwnOnly(operations', main', operations[o].preview)
  <2> DEFINE p == operations[o].preview
             published == Published(operations, p.cluster, p.head)
             later == Published(operations', p.cluster, p.head)
  <2>1. /\ p.head \in Nat /\ p.head <= MainHead /\ p.cluster \in Clusters
        /\ OwnOnly(operations, main, p)
    BY <1>2, <1>11, PublishedByNow DEF EditsInv, PreviewsInv, Previews
  <2>2. ASSUME NEW part \in Parts,
               TreeAt(main, p.head)[p.cluster][part] # p.files[part]
        PROVE  IF TreeAt(main, p.head)[p.cluster][part] = Absent THEN later = {}
               ELSE \E q \in later :
                      operations'[q].preview.files[part] = TreeAt(main, p.head)[p.cluster][part]
    <3>1. IF TreeAt(main, p.head)[p.cluster][part] = Absent THEN published = {}
          ELSE \E q \in published :
                 operations[q].preview.files[part] = TreeAt(main, p.head)[p.cluster][part]
      BY <2>1, <2>2 DEF OwnOnly
    <3>2. published \subseteq Ids /\ published \subseteq later
      BY <1>9, <2>1 DEF Published, Ids
    <3>3. CASE TreeAt(main, p.head)[p.cluster][part] # Absent
      BY <1>8, <3>1, <3>2, <3>3
    <3>4. CASE TreeAt(main, p.head)[p.cluster][part] = Absent
      <4>1. ~(p.cluster = d /\ MainHead <= p.head)
        BY <1>2, <1>10, <2>1, <3>4
      <4>2. later = published
        BY <1>9, <2>1, <4>1
      <4>3. QED  BY <3>1, <3>4, <4>2
    <3>5. QED  BY <3>3, <3>4
  <2>3. QED  BY <1>1, <2>2 DEF OwnOnly
<1>12. PreviewsInv'
  BY <1>5, <1>8, <1>11 DEF PreviewsInv, EditsInv
<1>13. ASSUME NEW c \in Clusters
       PROVE  \/ state'[c].baseline = Nothing /\ Published(operations', c, MainHead') = {}
              \/ \E o \in Published(operations', c, MainHead') :
                   operations'[o].preview.files = state'[c].baseline
  <2>1. CASE c = d
    <3>1. i \in Published(operations', c, MainHead')
      BY <1>2, <1>7, <1>9, <2>1
    <3>2. operations'[i].preview.files = state'[c].baseline
      BY <1>2, <1>4, <1>6, <1>8, <2>1
    <3>3. QED  BY <3>1, <3>2
  <2>2. CASE c # d
    <3>1. Published(operations', c, MainHead') = Published(operations, c, MainHead)
      BY <1>2, <1>7, <1>9, <2>2
    <3>2. Published(operations, c, MainHead) \subseteq Ids
      BY DEF Published, Ids
    <3>3. QED  BY <1>6, <1>8, <2>2, <3>1, <3>2 DEF EditsInv, BaselineInv
  <2>3. QED  BY <2>1, <2>2
<1>14. QED  BY <1>12, <1>13 DEF BaselineInv

\* A worker that merged and still holds its lock has just done so, or stands
\* where it stood and reads the same rows.
LEMMA MergedSteps ==
  ASSUME Inv, [Next]_vars, NEW v \in Workers, lock' = v, In(v, "merged")'
  PROVE  /\ lock = v /\ UNCHANGED rows
         /\ \/ worker'[v] = worker[v]
            \/ CloneToPreview(v) /\ Step(v, "merged")
<1>1. lock' # Nobody
  BY OperationAssumption
<1>2. CASE UNCHANGED vars
  BY <1>2 DEF vars, rows
<1>3. CASE Server \/ CustomerCommit \/ \E c \in Clusters : NewGeneration(c)
  BY <1>3 DEF Server, Accept, Refuse, CustomerCommit, NewGeneration
<1>4. CASE Request
  BY <1>1, <1>4 DEF Request, ReplaceCredentials, ValidateRepository, SaveSettings,
    EnqueuePreview, EnqueuePublish
<1>5. ASSUME NEW w \in Workers, NEW op, NEW row, Finish(w, op, row)
      PROVE  lock = v /\ UNCHANGED rows /\ worker'[v] = worker[v]
  <2>1. v # w
    BY <1>5 DEF Finish, Idle, In, Inv, TypeOK
  <2>2. lock # w /\ UNCHANGED rows /\ lock' = lock
    BY <1>1, <1>5, <2>1 DEF Finish, rows
  <2>3. QED  BY <1>5, <2>1, <2>2 DEF Finish, Inv, TypeOK
<1>6. ASSUME NEW w \in Workers, NEW r \in Worker, worker' = [worker EXCEPT ![w] = r],
             r.phase # "merged", UNCHANGED lock, UNCHANGED rows
      PROVE  lock = v /\ UNCHANGED rows /\ worker'[v] = worker[v]
  BY <1>6 DEF In, Inv, TypeOK
<1>7. ASSUME NEW w \in Workers, NEW phase \in Phases, Step(w, phase), phase # "merged"
      PROVE  lock = v /\ UNCHANGED rows /\ worker'[v] = worker[v]
  BY <1>7 DEF Step, Go, In, Inv, TypeOK, Worker
<1>8. ASSUME NEW w \in Workers, NEW candidate, StartConfirm(w, candidate)
      PROVE  lock = v /\ UNCHANGED rows /\ worker'[v] = worker[v]
  BY <1>8 DEF StartConfirm, In, Inv, TypeOK, Worker
<1>9. ASSUME NEW w \in Workers, Unconfirmed(w)
      PROVE  lock = v /\ UNCHANGED rows /\ worker'[v] = worker[v]
  BY <1>5, <1>7, <1>9 DEF Unconfirmed, End, Phases
<1>10. ASSUME NEW w \in Workers, Work(w)
       PROVE  /\ lock = v /\ UNCHANGED rows
              /\ \/ worker'[v] = worker[v]
                 \/ CloneToPreview(v) /\ Step(v, "merged")
  <2>1. CASE Claim(w) \/ Execute(w)
    <3>1. CASE Claim(w)
      BY <1>1, <3>1 DEF Claim
    <3>2. CASE Execute(w)
      <4>1. v = w
        BY <3>2 DEF Execute
      <4>2. worker'[w].phase \in {"refs", "check"}
        BY <3>2 DEF Execute, Idle, Inv, TypeOK
      <4>3. QED  BY <4>1, <4>2 DEF In
    <3>3. QED  BY <2>1, <3>1, <3>2
  <2>2. CASE ReadRefs(w)
    BY <2>2 DEF ReadRefs, In, Inv, TypeOK, Worker
  <2>3. CASE CloneToPreview(w)
    <3>1. CASE End(w, "conflict")
      BY <1>5, <3>1 DEF End
    <3>2. CASE Step(w, "merged")
      BY <2>3, <3>2 DEF Step, Go, Inv, TypeOK
    <3>3. QED  BY <2>3, <3>1, <3>2 DEF CloneToPreview
  <2>4. CASE CloneToRecover(w) \/ CloneToPublish(w) \/ Gate(w) \/ PushNotSent(w) \/ PushAnswered(w)
    BY <1>5, <1>7, <1>8, <2>4 DEF CloneToRecover, CloneToPublish, Gate, PushNotSent,
      PushAnswered, End, Phases
  <2>5. CASE Check(w)
    <3>1. CASE End(w, "conflict")
      BY <1>5, <3>1 DEF End
    <3>2. CASE ~End(w, "conflict")
      BY <2>5, <3>2 DEF Check, In, Inv, TypeOK, Worker
    <3>3. QED  BY <3>1, <3>2
  <2>6. CASE PreviewReady(w)
    BY <1>5, <2>6 DEF PreviewReady, End
  <2>7. CASE SendPush(w)
    BY <2>7 DEF SendPush, Go, In, Inv, TypeOK, Worker
  <2>8. CASE Confirm(w)
    <3>1. CASE Unconfirmed(w)
      BY <1>9, <3>1
    <3>2. CASE RecordPublication(w, MainHead)
      BY <1>5, <3>2 DEF RecordPublication
    <3>3. CASE ~Unconfirmed(w) /\ ~RecordPublication(w, MainHead)
      BY <2>8, <3>3 DEF Confirm, In, Inv, TypeOK, Worker
    <3>4. QED  BY <3>1, <3>2, <3>3
  <2>9. CASE ConfirmAgain(w)
    <3>1. CASE Unconfirmed(w)
      BY <1>9, <3>1
    <3>2. CASE RecordPublication(w, MainHead)
      BY <1>5, <3>2 DEF RecordPublication
    <3>3. CASE ~Unconfirmed(w) /\ ~RecordPublication(w, MainHead)
      BY <2>9, <3>3 DEF ConfirmAgain, In, Inv, TypeOK, Worker
    <3>4. QED  BY <3>1, <3>2, <3>3
  <2>10. QED
    BY <1>10, <2>1, <2>2, <2>3, <2>4, <2>5, <2>6, <2>7, <2>8, <2>9 DEF Work
<1>11. ASSUME NEW w \in Workers, Fails(w) \/ Crash(w) \/ LoseSession(w) \/ PushTimesOut(w)
       PROVE  lock = v /\ UNCHANGED rows /\ worker'[v] = worker[v]
  <2>1. CASE Fails(w)
    BY <1>5, <2>1 DEF Fails, End
  <2>2. CASE Crash(w)
    BY <1>1, <2>2 DEF Crash, Release, Fault, Idle, In, Inv, TypeOK
  <2>3. CASE LoseSession(w)
    BY <1>1, <2>3 DEF LoseSession
  <2>4. CASE PushTimesOut(w)
    BY <2>4 DEF PushTimesOut, Fault, In, Inv, TypeOK, Worker
  <2>5. QED  BY <1>11, <2>1, <2>2, <2>3, <2>4
<1>12. QED
  BY <1>2, <1>3, <1>4, <1>10, <1>11 DEF Next, Environment

LEMMA MergedKeeps ==
  ASSUME Inv, Inv', EditsInv, [Next]_vars
  PROVE  MergedInv'
<1>1. MainGrows
  BY BranchGrows DEF Inv
<1>2. MainHead \in Nat /\ MainHead' \in Nat /\ MainHead <= MainHead'
  BY <1>1, Rows, LenProperties DEF Inv, TypeOK, MainHead, MainGrows
<1>3. ASSUME NEW v \in Workers, lock' = v, In(v, "merged")'
      PROVE  /\ worker'[v].head \in 0..MainHead'
             /\ Merges(Baseline(v), Tree(v, worker[v].head), Proposed(v), Op(v).adopt)'
  <2>1. PICK r : r = worker'[v]
    OBVIOUS
  <2>2. /\ lock = v /\ UNCHANGED <<operations, state>>
        /\ r.op = worker[v].op /\ r.source = worker[v].source /\ r.head = worker[v].head
        /\ worker[v].head \in 0..MainHead
        /\ Merges(Baseline(v), Tree(v, worker[v].head), Proposed(v), Op(v).adopt)
    <3>1. CASE worker'[v] = worker[v]
      BY <1>3, <2>1, <3>1, MergedSteps DEF EditsInv, MergedInv, In, rows
    <3>2. CASE CloneToPreview(v) /\ Step(v, "merged")
      <4>1. /\ r.op = worker[v].op /\ r.source = worker[v].source /\ r.head = worker[v].head
            /\ r.phase = "merged"
        BY <2>1, <3>2 DEF Step, Go, Inv, TypeOK, Worker
      <4>2. ~End(v, "conflict")
        BY <2>1, <4>1 DEF End, Finish, Idle, Inv, TypeOK
      <4>3. QED  BY <1>2, <1>3, <3>2, <4>1, <4>2, MergedSteps DEF CloneToPreview, rows
    <3>3. QED  BY <1>3, <3>1, <3>2, MergedSteps
  <2>3. TreeAt(main', r.head) = TreeAt(main, worker[v].head)
    BY <1>1, <2>2 DEF MainGrows
  <2>4. /\ Op(v)' = Op(v) /\ Baseline(v)' = Baseline(v) /\ Proposed(v)' = Proposed(v)
        /\ Tree(v, worker[v].head)' = Tree(v, worker[v].head)
    BY <2>1, <2>2, <2>3 DEF Op, Baseline, Proposed, Tree
  <2>5. QED  BY <1>2, <2>1, <2>2, <2>4
<1>4. QED  BY <1>3 DEF MergedInv

LEMMA EditsStep ==
  ASSUME Inv, EditsInv, [Next]_vars
  PROVE  EditsInv'
<1>1. Inv' /\ MainGrows
  BY StepsKeep, BranchGrows DEF Inv
<1>2. PreviewsInv' /\ BaselineInv'
  BY <1>1, StepRows, AlikeKeeps, PreparesKeeps, RecordsKeeps DEF EditsInv
<1>3. QED  BY <1>1, <1>2, MergedKeeps DEF EditsInv

LEMMA EditsInvariance == Spec => []EditsInv
<1>1. Init => EditsInv
  <2> SUFFICES ASSUME Init PROVE EditsInv
    OBVIOUS
  <2>1. Ids = {} /\ \A c : Published(operations, c, MainHead) = {}
    BY DEF Init, InitRows, Ids, Published
  <2>2. lock = Nobody /\ \A c \in Clusters : state[c].baseline = Nothing
    BY DEF Init, InitRows
  <2>3. QED  BY <2>1, <2>2, OperationAssumption DEF EditsInv, PreviewsInv, BaselineInv, MergedInv
<1>2. Inv /\ EditsInv /\ [Next]_vars => EditsInv'
  BY EditsStep
<1>3. QED  BY <1>1, <1>2, Invariance, PTL DEF Spec

\* No publication of the portal ever undoes a manual edit or a manual deletion,
\* whatever customers commit, crashes repeat and late pushes add.
THEOREM EditsSurvive == Spec => []ManualEditsSurvive
<1>1. Inv /\ EditsInv => ManualEditsSurvive
  <2> SUFFICES ASSUME Inv, EditsInv, NEW n \in 1..MainHead, main[n].by # Customer,
                      NEW part \in Parts
               PROVE  LET c == operations[main[n].by].cluster
                          before == TreeAt(main, n - 1)[c]
                          published == Published(operations, c, n - 1)
                      IN before[part] # main[n].tree[c][part] =>
                           IF before[part] = Absent THEN published = {}
                           ELSE \E o \in published :
                                  operations[o].preview.files[part] = before[part]
    BY Rows DEF Inv, ManualEditsSurvive, Published, Ids
  <2> DEFINE i == main[n].by
             c == operations[i].cluster
  <2>1. Approved(i, n - 1, main[n].tree)
    BY DEF Inv, MainInv
  <2>2. /\ i \in Ids /\ operations[i] \in Operation
        /\ operations[i].preview # NoPreview /\ c \in Clusters
    BY <2>1, Rows DEF Approved, Inv, RowsInv, Good, Operation
  <2>3. /\ operations[i].preview.head = n - 1 /\ operations[i].preview.cluster = c
        /\ OwnOnly(operations, main, operations[i].preview)
    BY <2>1, <2>2, PublishedByNow DEF Approved, EditsInv, PreviewsInv
  <2>4. TreeAt(main, n - 1) \in [Clusters -> Trees]
    <3>1. n - 1 \in 0..MainHead
      BY Rows DEF Inv
    <3>2. QED  BY <3>1, TreeAtType DEF Inv, TypeOK, MainHead
  <2>5. main[n].tree[c] = operations[i].preview.files
    BY <2>1, <2>2, <2>4 DEF Approved
  <2>6. QED  BY <2>3, <2>5 DEF OwnOnly
<1>2. QED  BY <1>1, Invariance, EditsInvariance, PTL
=============================================================================
