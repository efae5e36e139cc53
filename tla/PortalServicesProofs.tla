------------------------ MODULE PortalServicesProofs ------------------------
(***************************************************************************)
(* Theorems about the portal's services around a tenant cluster, for any   *)
(* number of handlers, users, kubeconfigs and faults, and for all plans.   *)
(***************************************************************************)
EXTENDS PortalServices, SequenceTheorems, FiniteSetTheorems, TLAPS

RowOps == {"create", "edit", "alias", "grant", "decommission", "issue", "rotate", "revoke", "remove"}
RepoOps == {"create", "replace", "validate"}

\* A handler that still has the session which took its locks.
On(h, ops) == hs[h].op \in ops /\ ~hs[h].lost

\* The locks are of those who have taken them and not lost them.
HoldsInv ==
  \A h \in Handlers : /\ On(h, RowOps) <=> locks.row = h
                      /\ On(h, RepoOps) <=> locks.repo = h

\* Requests stay as they were made, until they are applied or denied.
Resizes(h) == hs[h].op = "apply" /\ Request(h).type = "resize"
RequestsInv ==
  \A h \in Handlers :
    /\ hs[h].op \in {"apply", "deny"} => hs[h].id \in DOMAIN db.requests
    /\ At(h, {"apply"}, "quota") \/ At(h, {"apply"}, "groups") => Resizes(h)
    /\ At(h, {"apply"}, "backup") => Request(h).type = "backup"

\* The cluster is there for whoever holds its lock, or is not yet; before it is
\* created nothing is.
StateInv ==
  /\ \A h \in Handlers :
       /\ On(h, {"create"}) => db.row.state = "none"
       /\ On(h, RowOps \ {"create"}) => Live
       /\ hs[h].op \notin {"idle"} \cup RepoOps => db.row.state # "none"
  /\ db.row.state = "none" =>
       /\ \A c \in Creds : db.creds[c] = None
       /\ db.requests = <<>> /\ seen.target = 0 /\ ~seen.late

\* What a replacement or a validation of the credentials goes by stays so.
RepoInv ==
  /\ RepositoryBound
  /\ store.repo = None => store.ops = <<>>
  /\ \A h \in Handlers :
       /\ On(h, {"replace", "validate"}) => store.repo # None
       /\ On(h, {"replace"}) => hs[h].saw = store.repo.url
       /\ On(h, {"replace"}) /\ hs[h].step = "commit" =>
            hs[h].id + 1 \in 1..Latest /\ store.vault[hs[h].id + 1] = hs[h].saw
       /\ On(h, {"validate"}) => Serves(hs[h].id)

\* What a creation has published it will find there when it commits.
CreateInv ==
  \A h \in Handlers :
    /\ On(h, {"create"}) /\ hs[h].step \in {"manifest", "commit"} => git.mgmt = Project(Event(h))
    /\ On(h, {"create"}) /\ hs[h].step = "commit" => git.manifest = Document(Event(h))

\* What a decommissioning has found gone does not come back, but by a late creation.
GoneInv ==
  ~seen.late =>
    /\ DecommissionedIsGone
    /\ \A h \in Handlers : On(h, {"decommission"}) =>
         /\ hs[h].step \in {"projects", "commit"} => git.manifest = None /\ "cluster" \notin git.applied
         /\ hs[h].step = "commit" => git.mgmt = None /\ "mgmt" \notin git.applied

\* Every kubeconfig that is being issued is of an id of its own; nothing that a handler
\* has found out about the rows changes while it holds the lock; a role binding that was
\* deleted is not made again.
CredsInv ==
  /\ CredentialsAccounted
  /\ \A c \in Creds : db.creds[c] # None => \A b \in bindings : b.id = c => b.user = db.creds[c].user
  /\ \A h \in Handlers : hs[h].op \in {"issue", "rotate"} =>
       /\ hs[h].id \in Creds /\ db.creds[hs[h].id] = None
       /\ hs[h].op = "issue" => hs[h].set = {}
       /\ \A b \in bindings : b.id = hs[h].id => b.user = Event(h).by
       /\ \A g \in Handlers \ {h} : hs[g].op \in {"issue", "rotate"} => hs[g].id # hs[h].id
  /\ \A h \in Handlers :
       /\ On(h, {"issue", "rotate"}) => hs[h].saw = db.row.ca
       /\ On(h, {"edit"}) => ConnectionFree(Event(h).ca)
       /\ hs[h].op \in {"rotate", "revoke"} =>
            \A c \in hs[h].set : /\ c \in Creds /\ db.creds[c] # None
                                 /\ hs[h].step = "commit" => \A b \in bindings : b.id # c
       /\ On(h, {"remove"}) =>
            /\ hs[h].step = "cascade" =>
                 \A b \in bindings : b.user = Event(h).user /\ db.creds[b.id] # None => b.id \in hs[h].set
            /\ hs[h].step \in {"read", "push", "commit"} =>
                 /\ hs[h].saw \subseteq Creds
                 /\ \A c \in hs[h].saw : db.creds[c] # None /\ \A b \in bindings : b.id # c

\* Whoever is given a role binding has access, and keeps it until the binding is there.
AccessInv ==
  /\ \A b \in bindings : b.id \in seen.strays \/ b.user \in Sunet \/ db.access[b.user] # None
  /\ git.mgmt # None => \A u \in git.mgmt.readers \ seen.readers : db.access[u] = "customer_admin"
  /\ \A h \in Handlers :
       /\ On(h, {"issue", "rotate"}) => Event(h).by \in Sunet \/ db.access[Event(h).by] # None
       /\ On(h, {"grant"}) => db.access[Event(h).user] = None
       /\ On(h, {"remove"}) =>
            LET user == Event(h).user
            IN /\ db.access[user] # None
               /\ hs[h].step = "cascade" =>
                    \A b \in bindings : b.user = user => b.id \in hs[h].set \cup seen.strays
               /\ hs[h].step \in {"read", "push", "commit"} =>
                    \A b \in bindings : b.user = user => b.id \in seen.strays
               /\ hs[h].step = "push" => user \notin hs[h].set
               /\ hs[h].step = "commit" /\ git.mgmt # None => user \notin git.mgmt.readers \ seen.readers

\* Unless one resize has overtaken another, Git is never behind the rows, nor the
\* groups ahead of the quota.
Steady == Live /\ ~seen.overtaken /\ ~seen.late
Covers(quota, groups) == \A r \in DOMAIN quota : quota[r] >= Quota(groups)[r]
CoverInv ==
  /\ \A h \in Handlers : Resizes(h) => 0 < Request(h).target
  /\ Steady =>
       /\ seen.target # 0 => db.row.groups <= seen.target
       /\ git.manifest # None =>
            /\ db.row.groups <= git.manifest.groups
            /\ IF seen.target = 0 THEN git.manifest.groups = db.row.groups
                                  ELSE git.manifest.groups <= seen.target
            /\ git.mgmt # None => Covers(git.mgmt.quota, git.manifest.groups)
       /\ \A h \in Handlers : Resizes(h) =>
            /\ Request(h).target <= seen.target
            /\ hs[h].step \in {"quota", "groups"} => Request(h).target = seen.target
            /\ hs[h].step = "groups" /\ git.mgmt # None => git.mgmt.quota = Quota(seen.target)
            /\ hs[h].step = "commit" /\ git.manifest # None => Request(h).target <= git.manifest.groups

------------------------------------------------------------------------------
\* Only the handler h, if any, has changed, and its request is one of ops.
Only(h, ops) ==
  /\ DOMAIN hs' = Handlers
  /\ \A g \in Handlers \ {h} : hs'[g] = hs[g]
  /\ hs'[h].op \in ops

\* A step of a handler that leaves its request as it is.
Keeps(h) ==
  /\ hs'[h].op = hs[h].op /\ hs'[h].event = hs[h].event /\ hs'[h].lost = hs[h].lost

LEMMA Entered ==
  ASSUME DOMAIN hs = Handlers, NEW h \in Handlers, NEW e, NEW step, NEW id, NEW saw, NEW set,
         Enter(h, e, step, id, saw, set)
  PROVE  /\ Only(h, {e.op}) /\ todo' = todo \ {e}
         /\ hs'[h] = [op |-> e.op, step |-> step, event |-> e, id |-> id, saw |-> saw, set |-> set,
                      lost |-> FALSE]
BY DEF Enter, Only

LEMMA Moved ==
  ASSUME DOMAIN hs = Handlers, NEW h \in Handlers, IsSession(hs[h]), NEW step, Move(h, step)
  PROVE  /\ Only(h, {hs[h].op}) /\ Keeps(h) /\ todo' = todo
         /\ hs'[h] = [op |-> hs[h].op, step |-> step, event |-> hs[h].event, id |-> hs[h].id,
                      saw |-> hs[h].saw, set |-> hs[h].set, lost |-> hs[h].lost]
<1> DEFINE s == hs[h]
<1>1. /\ DOMAIN hs' = Handlers /\ todo' = todo
      /\ \A g \in Handlers \ {h} : hs'[g] = hs[g]
      /\ hs'[h] = [s EXCEPT !.step = step]
  BY DEF Move
<1>2. s = [op |-> s.op, step |-> s.step, event |-> s.event, id |-> s.id, saw |-> s.saw,
           set |-> s.set, lost |-> s.lost]
  BY DEF IsSession
<1> HIDE DEF s
<1>3. [s EXCEPT !.step = step] = [op |-> s.op, step |-> step, event |-> s.event, id |-> s.id,
           saw |-> s.saw, set |-> s.set, lost |-> s.lost]
  BY <1>2
<1> USE DEF s
<1> QED BY <1>1, <1>3 DEF Only, Keeps

LEMMA MovedFields ==
  ASSUME DOMAIN hs = Handlers, NEW h \in Handlers, IsSession(hs[h]), NEW step, Move(h, step)
  PROVE  /\ DOMAIN hs' = Handlers /\ \A g \in Handlers \ {h} : hs'[g] = hs[g]
         /\ hs'[h].op = hs[h].op /\ hs'[h].step = step /\ hs'[h].event = hs[h].event
         /\ hs'[h].id = hs[h].id /\ hs'[h].saw = hs[h].saw /\ hs'[h].set = hs[h].set
         /\ hs'[h].lost = hs[h].lost
BY DEF Move, IsSession

LEMMA Left ==
  ASSUME DOMAIN hs = Handlers, NEW h \in Handlers, Leave(h)
  PROVE  /\ Only(h, {"idle"}) /\ hs'[h] = Idle /\ todo' = todo
         /\ locks' = Released(h)
BY DEF Leave, Only, Idle

------------------------------------------------------------------------------
\* The steps of a handler, by what it does.
CreateSteps(h) ==
  StartCreate(h) \/ WriteProject(h) \/ AdoptProject(h) \/ WriteManifest(h) \/ CommitCreate(h)
EditSteps(h) == StartEdit(h) \/ StartAlias(h) \/ PushAlias(h) \/ CommitEdit(h)
GrantSteps(h) == StartGrant(h) \/ ReadAdmins(h) \/ PushAdmins(h) \/ CommitGrant(h)
DecommissionSteps(h) ==
  StartDecommission(h) \/ FindGone(h) \/ FindProjectsGone(h) \/ CommitDecommission(h)
IssueSteps(h) == StartIssue(h) \/ StartRotate(h) \/ CreateBinding(h) \/ CommitIssue(h)
RevokeSteps(h) == StartRevoke(h) \/ DeleteBinding(h) \/ CommitRevoke(h)
RemoveSteps(h) ==
  StartRemove(h) \/ ListBindings(h) \/ DeleteListed(h) \/ MarkRows(h) \/ CascadeFails(h) \/ CommitRemove(h)
RequestSteps(h) ==
  StartRequest(h) \/ InsertRequest(h) \/ StartApply(h) \/ PushQuota(h) \/ PushGroups(h)
  \/ PushBackup(h) \/ CommitApply(h) \/ StartDeny(h) \/ CommitDeny(h)
RepoSteps(h) ==
  StartReplace(h) \/ ReadLatest(h) \/ WriteSecret(h) \/ CommitReplace(h) \/ StartValidate(h) \/ CommitValidate(h)
Ends(h) == Refuse(h) \/ Fail(h)
Instant(h) == Provision(h) \/ SaveRepository(h)
Environment == CleanUp \/ Sync \/ Preview \/ Approve \/ Work

LEMMA NextCases ==
  ASSUME Next
  PROVE  \/ \E h \in Handlers :
              \/ CreateSteps(h) \/ EditSteps(h) \/ GrantSteps(h) \/ DecommissionSteps(h)
              \/ IssueSteps(h) \/ RevokeSteps(h) \/ RemoveSteps(h) \/ RequestSteps(h)
              \/ RepoSteps(h) \/ Ends(h) \/ Instant(h) \/ LoseSession(h)
         \/ Environment
<1>1. CASE Environment BY <1>1
<1>2. CASE \E h \in Handlers : \/ Clusters(h) \/ Credentials(h) \/ Requests(h) \/ Repositories(h)
                               \/ Refuse(h) \/ Fail(h) \/ LoseSession(h)
  <2>1. PICK h \in Handlers : \/ Clusters(h) \/ Credentials(h) \/ Requests(h) \/ Repositories(h)
                              \/ Refuse(h) \/ Fail(h) \/ LoseSession(h)
    BY <1>2
  <2>2. CASE Clusters(h)
    BY <2>2 DEF Clusters, CreateSteps, EditSteps, GrantSteps, DecommissionSteps, Instant
  <2>3. CASE Credentials(h) BY <2>3 DEF Credentials, IssueSteps, RevokeSteps, RemoveSteps
  <2>4. CASE Requests(h) BY <2>4 DEF Requests, RequestSteps
  <2>5. CASE Repositories(h) BY <2>5 DEF Repositories, RepoSteps, Instant
  <2>6. CASE Refuse(h) \/ Fail(h) BY <2>6 DEF Ends
  <2> QED BY <2>1, <2>2, <2>3, <2>4, <2>5, <2>6
<1> QED BY <1>1, <1>2 DEF Next, Environment

\* What is left alone by whom.
LEMMA CreateFrame ==
  ASSUME SessionsOK, NEW h \in Handlers, CreateSteps(h)
  PROVE  Only(h, {"idle", "create"}) /\ UNCHANGED <<bindings, store, faults>>
<1> DOMAIN hs = Handlers /\ IsSession(hs[h]) BY DEF SessionsOK
<1>1. CASE StartCreate(h) BY <1>1, Entered DEF StartCreate, Wanted, Only, Kept
<1>2. CASE WriteProject(h) BY <1>2, Moved DEF WriteProject, At, Only, Kept
<1>3. CASE AdoptProject(h) BY <1>3, Moved DEF AdoptProject, At, Only, Kept
<1>4. CASE WriteManifest(h) BY <1>4, Moved DEF WriteManifest, At, Only, Kept
<1>5. CASE CommitCreate(h) BY <1>5, Left DEF CommitCreate, Commit, Only, Kept
<1> QED BY <1>1, <1>2, <1>3, <1>4, <1>5 DEF CreateSteps

LEMMA EditFrame ==
  ASSUME SessionsOK, NEW h \in Handlers, EditSteps(h)
  PROVE  Only(h, {"idle", "edit", "alias"}) /\ UNCHANGED <<bindings, store, faults, seen>>
<1> DOMAIN hs = Handlers /\ IsSession(hs[h]) BY DEF SessionsOK
<1>1. CASE StartEdit(h) BY <1>1, Entered DEF StartEdit, Wanted, Only, Kept
<1>2. CASE StartAlias(h) BY <1>2, Entered DEF StartAlias, Wanted, Only, Kept
<1>3. CASE PushAlias(h) BY <1>3, Moved DEF PushAlias, At, Only, Kept
<1>4. CASE CommitEdit(h) BY <1>4, Left DEF CommitEdit, Commit, Only, Kept
<1> QED BY <1>1, <1>2, <1>3, <1>4 DEF EditSteps

LEMMA GrantFrame ==
  ASSUME SessionsOK, NEW h \in Handlers, GrantSteps(h)
  PROVE  Only(h, {"idle", "grant", "remove"}) /\ UNCHANGED <<bindings, store, faults>>
<1> DOMAIN hs = Handlers /\ IsSession(hs[h]) BY DEF SessionsOK
<1>1. CASE StartGrant(h) BY <1>1, Entered DEF StartGrant, Wanted, Only, Kept
<1>2. CASE ReadAdmins(h) BY <1>2 DEF ReadAdmins, At, Only, Kept, IsSession
<1>3. CASE PushAdmins(h) BY <1>3, Moved DEF PushAdmins, At, Only, Kept
<1>4. CASE CommitGrant(h) BY <1>4, Left DEF CommitGrant, Commit, Only, Kept
<1> QED BY <1>1, <1>2, <1>3, <1>4 DEF GrantSteps

LEMMA DecommissionFrame ==
  ASSUME SessionsOK, NEW h \in Handlers, DecommissionSteps(h)
  PROVE  Only(h, {"idle", "decommission"}) /\ UNCHANGED <<git, bindings, faults, seen>>
<1> DOMAIN hs = Handlers /\ IsSession(hs[h]) BY DEF SessionsOK
<1>1. CASE StartDecommission(h) BY <1>1 DEF Enter, StartDecommission, Wanted, Only, Kept
<1>2. CASE FindGone(h) BY <1>2, Moved DEF FindGone, At, Only, Kept
<1>3. CASE FindProjectsGone(h) BY <1>3, Moved DEF FindProjectsGone, At, Only, Kept
<1>4. CASE CommitDecommission(h) BY <1>4, Left DEF CommitDecommission, Commit, Only
<1> QED BY <1>1, <1>2, <1>3, <1>4 DEF DecommissionSteps

LEMMA IssueFrame ==
  ASSUME SessionsOK, NEW h \in Handlers, IssueSteps(h)
  PROVE  Only(h, {"idle", "issue", "rotate"}) /\ UNCHANGED <<git, store, faults>>
<1> DOMAIN hs = Handlers /\ IsSession(hs[h]) BY DEF SessionsOK
<1>1. CASE StartIssue(h) BY <1>1 DEF Enter, StartIssue, Wanted, Only, NotGit
<1>2. CASE StartRotate(h) BY <1>2 DEF Enter, StartRotate, Wanted, Only, NotGit
<1>3. CASE CreateBinding(h) BY <1>3, Moved DEF CreateBinding, At, Only, NotGit
<1>4. CASE CommitIssue(h) BY <1>4, Left DEF CommitIssue, Commit, Only, NotGit
<1> QED BY <1>1, <1>2, <1>3, <1>4 DEF IssueSteps

LEMMA RevokeFrame ==
  ASSUME SessionsOK, NEW h \in Handlers, RevokeSteps(h)
  PROVE  Only(h, {"idle", "rotate", "revoke"}) /\ UNCHANGED <<git, store, faults, seen>>
<1> DOMAIN hs = Handlers /\ IsSession(hs[h]) BY DEF SessionsOK
<1>1. CASE StartRevoke(h) BY <1>1, Entered DEF StartRevoke, Wanted, Only, NotGit
<1>2. CASE DeleteBinding(h) BY <1>2, Moved DEF DeleteBinding, At, Only, NotGit
<1>3. CASE CommitRevoke(h) BY <1>3, Left DEF CommitRevoke, Commit, Only, NotGit
<1> QED BY <1>1, <1>2, <1>3 DEF RevokeSteps

LEMMA RemoveFrame ==
  ASSUME SessionsOK, NEW h \in Handlers, RemoveSteps(h)
  PROVE  Only(h, {"idle", "remove"}) /\ UNCHANGED <<git, store>>
<1> DOMAIN hs = Handlers /\ IsSession(hs[h]) BY DEF SessionsOK
<1>1. CASE StartRemove(h) BY <1>1, Entered DEF StartRemove, Wanted, Only, NotGit
<1>2. CASE ListBindings(h) BY <1>2 DEF ListBindings, At, Only, NotGit, IsSession
<1>3. CASE DeleteListed(h) BY <1>3 DEF DeleteListed, At, Only, NotGit, IsSession
<1>4. CASE MarkRows(h) BY <1>4 DEF MarkRows, At, Only, NotGit, IsSession
<1>5. CASE CascadeFails(h) BY <1>5 DEF CascadeFails, At, Only, IsSession
<1>6. CASE CommitRemove(h) BY <1>6, Left DEF CommitRemove, Commit, Only, NotGit
<1> QED BY <1>1, <1>2, <1>3, <1>4, <1>5, <1>6 DEF RemoveSteps

LEMMA RequestFrame ==
  ASSUME SessionsOK, NEW h \in Handlers, RequestSteps(h)
  PROVE  Only(h, {"idle", "request", "apply", "deny"}) /\ UNCHANGED <<bindings, store, faults>>
<1> DOMAIN hs = Handlers /\ IsSession(hs[h]) BY DEF SessionsOK
<1>1. CASE StartRequest(h) BY <1>1, Entered DEF StartRequest, Wanted, Only, NotStore
<1>2. CASE InsertRequest(h) BY <1>2, Left DEF InsertRequest, Only, NotStore
<1>3. CASE StartApply(h) BY <1>3 DEF Enter, StartApply, Wanted, Only, NotStore
<1>4. CASE PushQuota(h) BY <1>4, Moved DEF PushQuota, At, Only, NotStore
<1>5. CASE PushGroups(h) BY <1>5, Moved DEF PushGroups, At, Only, NotStore
<1>6. CASE PushBackup(h) BY <1>6, Moved DEF PushBackup, At, Only, NotStore
<1>7. CASE CommitApply(h) BY <1>7, Left DEF CommitApply, Only, NotStore
<1>8. CASE StartDeny(h) BY <1>8, Entered DEF StartDeny, Wanted, Only, NotStore
<1>9. CASE CommitDeny(h) BY <1>9, Left DEF CommitDeny, Only, NotStore
<1> QED BY <1>1, <1>2, <1>3, <1>4, <1>5, <1>6, <1>7, <1>8, <1>9 DEF RequestSteps

LEMMA RepoFrame ==
  ASSUME SessionsOK, NEW h \in Handlers, RepoSteps(h)
  PROVE  Only(h, {"idle", "replace", "validate"}) /\ UNCHANGED <<db, git, bindings, faults, seen>>
<1> DOMAIN hs = Handlers /\ IsSession(hs[h]) BY DEF SessionsOK
<1>1. CASE StartReplace(h) BY <1>1 DEF Enter, StartReplace, Wanted, Only, Rest
<1>2. CASE ReadLatest(h) BY <1>2, Moved DEF ReadLatest, At, Only, Rest
<1>3. CASE WriteSecret(h) BY <1>3, Moved DEF WriteSecret, At, Only, Rest
<1>4. CASE CommitReplace(h) BY <1>4, Left DEF CommitReplace, Commit, Only, Rest
<1>5. CASE StartValidate(h) BY <1>5, Entered DEF StartValidate, Wanted, Only, Rest
<1>6. CASE CommitValidate(h) BY <1>6, Left DEF CommitValidate, Commit, Only, Rest
<1> QED BY <1>1, <1>2, <1>3, <1>4, <1>5, <1>6 DEF RepoSteps

LEMMA EndFrame ==
  ASSUME SessionsOK, NEW h \in Handlers, Ends(h)
  PROVE  /\ Only(h, {"idle"}) /\ hs'[h] = Idle /\ locks' = Released(h)
         /\ UNCHANGED <<db, git, bindings, store, todo, seen>>
<1> DOMAIN hs = Handlers BY DEF SessionsOK
<1> QED BY Left DEF Ends, Refuse, Fail, state

LEMMA WithLost ==
  ASSUME NEW s, NEW v,
         s = [op |-> s.op, step |-> s.step, event |-> s.event, id |-> s.id, saw |-> s.saw,
              set |-> s.set, lost |-> s.lost]
  PROVE  [s EXCEPT !.lost = v] = [op |-> s.op, step |-> s.step, event |-> s.event, id |-> s.id,
                                  saw |-> s.saw, set |-> s.set, lost |-> v]
OBVIOUS

LEMMA LoseRecord ==
  ASSUME SessionsOK, NEW h \in Handlers, LoseSession(h)
  PROVE  /\ Only(h, {hs[h].op})
         /\ hs'[h] = [op |-> hs[h].op, step |-> hs[h].step, event |-> hs[h].event, id |-> hs[h].id,
                      saw |-> hs[h].saw, set |-> hs[h].set, lost |-> TRUE]
         /\ hs'[h].lost
         /\ locks' = Released(h) /\ UNCHANGED <<db, git, bindings, store, todo, seen>>
<1> DEFINE s == hs[h]
<1>1. /\ DOMAIN hs' = Handlers /\ locks' = Released(h) /\ UNCHANGED <<db, git, bindings, store, todo, seen>>
      /\ \A g \in Handlers \ {h} : hs'[g] = hs[g]
      /\ hs'[h] = [s EXCEPT !.lost = TRUE]
  BY DEF LoseSession, state, SessionsOK
<1>2. s = [op |-> s.op, step |-> s.step, event |-> s.event, id |-> s.id, saw |-> s.saw,
           set |-> s.set, lost |-> s.lost]
  BY DEF IsSession, SessionsOK
<1> HIDE DEF s
<1>3. [s EXCEPT !.lost = TRUE] = [op |-> s.op, step |-> s.step, event |-> s.event, id |-> s.id,
           saw |-> s.saw, set |-> s.set, lost |-> TRUE]
  BY <1>2, WithLost
<1> USE DEF s
<1>4. hs'[h].lost BY <1>1, <1>2
<1> QED BY <1>1, <1>3, <1>4 DEF Only

LEMMA LoseFrame ==
  ASSUME SessionsOK, NEW h \in Handlers, LoseSession(h)
  PROVE  /\ Only(h, {hs[h].op})
         /\ hs'[h].op = hs[h].op /\ hs'[h].step = hs[h].step /\ hs'[h].event = hs[h].event
         /\ hs'[h].id = hs[h].id /\ hs'[h].saw = hs[h].saw /\ hs'[h].set = hs[h].set
         /\ hs'[h].lost
         /\ locks' = Released(h) /\ UNCHANGED <<db, git, bindings, store, todo, seen>>
<1>1. hs'[h].lost BY LoseRecord
<1>2. Only(h, {hs[h].op}) /\ locks' = Released(h) /\ UNCHANGED <<db, git, bindings, store, todo, seen>>
  BY LoseRecord
<1>3. /\ hs'[h].op = hs[h].op /\ hs'[h].step = hs[h].step /\ hs'[h].event = hs[h].event
      /\ hs'[h].id = hs[h].id /\ hs'[h].saw = hs[h].saw /\ hs'[h].set = hs[h].set
  BY DEF LoseSession, IsSession, SessionsOK
<1> QED BY <1>1, <1>2, <1>3

LEMMA InstantFrame ==
  ASSUME NEW h \in Handlers, Instant(h)
  PROVE  UNCHANGED <<git, bindings, hs, locks, seen>>
BY DEF Instant, Provision, SaveRepository, Kept, Rest

LEMMA EnvironmentFrame ==
  ASSUME Environment
  PROVE  UNCHANGED <<db, bindings, hs, locks, seen, faults>> /\ todo' \subseteq todo
BY DEF Environment, CleanUp, Sync, Preview, Approve, Work, Kept, Rest

------------------------------------------------------------------------------
\* Types.
LEMMA IdleIsSession == IsSession(Idle)
BY DEF IsSession, Idle

LEMMA OnlyOneChanges ==
  ASSUME SessionsOK, NEW h \in Handlers, NEW ops, Only(h, ops), IsSession(hs'[h]), todo' \subseteq todo
  PROVE  SessionsOK'
BY DEF SessionsOK, Only, IsSession

LEMMA EnteredIs ==
  ASSUME SessionsOK, NEW h \in Handlers, NEW e \in todo, NEW step, NEW id \in Nat, NEW saw, NEW set,
         Enter(h, e, step, id, saw, set),
         IsSession([op |-> e.op, step |-> step, event |-> e, id |-> id, saw |-> saw, set |-> set, lost |-> FALSE])
  PROVE  SessionsOK'
<1> DOMAIN hs = Handlers BY DEF SessionsOK
<1>1. /\ Only(h, {e.op}) /\ todo' = todo \ {e}
      /\ IsSession(hs'[h])
  BY Entered
<1> QED BY <1>1, OnlyOneChanges

LEMMA MovedIs ==
  ASSUME SessionsOK, NEW h \in Handlers, NEW step, Move(h, step), hs[h].op # "idle", step \notin {"push", "cascade"}
  PROVE  SessionsOK'
<1> DOMAIN hs = Handlers /\ IsSession(hs[h]) BY DEF SessionsOK
<1>1. /\ Only(h, {hs[h].op}) /\ todo' = todo
      /\ hs'[h] = [op |-> hs[h].op, step |-> step, event |-> hs[h].event, id |-> hs[h].id,
                   saw |-> hs[h].saw, set |-> hs[h].set, lost |-> hs[h].lost]
  BY Moved
<1>2. IsSession(hs'[h]) BY <1>1 DEF IsSession
<1> QED BY <1>1, <1>2, OnlyOneChanges

LEMMA LeftIs ==
  ASSUME SessionsOK, NEW h \in Handlers, Leave(h)
  PROVE  SessionsOK'
<1> DOMAIN hs = Handlers BY DEF SessionsOK
<1> QED BY Left, IdleIsSession, OnlyOneChanges

LEMMA NewIdIs == HasNewId => NewId \in Creds /\ db.creds[NewId] = None
                              /\ (\A b \in bindings : b.id # NewId)
                              /\ \A h \in Handlers : hs[h].id # NewId
<1> DEFINE P(c) == db.creds[c] = None /\ (\A b \in bindings : b.id # c) /\ \A h \in Handlers : hs[h].id # c
<1> SUFFICES ASSUME HasNewId PROVE NewId \in Creds /\ P(NewId) BY Zenon
<1>1. \E c \in Creds : P(c) BY DEF HasNewId
<1>2. NewId = CHOOSE c \in Creds : P(c) BY DEF NewId
<1> HIDE DEF P
<1> QED BY <1>1, <1>2

LEMMA SessionsStep ==
  ASSUME TypeOK, HoldsInv, [Next]_vars
  PROVE  SessionsOK'
<1> USE PortalAssumption
<1> SessionsOK /\ DbOK /\ StoreOK BY DEF TypeOK
<1> DOMAIN hs = Handlers /\ todo \subseteq Events /\ \A h \in Handlers : IsSession(hs[h]) BY DEF SessionsOK
<1>0. CASE UNCHANGED vars BY <1>0 DEF vars, SessionsOK, IsSession
<1>1. CASE Environment
  <2>1. hs' = hs /\ todo' \subseteq todo BY <1>1, EnvironmentFrame
  <2> QED BY <2>1 DEF SessionsOK, IsSession
<1> SUFFICES ASSUME NEW h \in Handlers,
                    \/ CreateSteps(h) \/ EditSteps(h) \/ GrantSteps(h) \/ DecommissionSteps(h)
                    \/ IssueSteps(h) \/ RevokeSteps(h) \/ RemoveSteps(h) \/ RequestSteps(h)
                    \/ RepoSteps(h) \/ Ends(h) \/ Instant(h) \/ LoseSession(h)
             PROVE  SessionsOK'
  BY <1>0, <1>1, NextCases
<1> IsSession(hs[h]) OBVIOUS
<1>2. CASE CreateSteps(h)
  <2>1. CASE StartCreate(h)
    <3>1. PICK e \in todo : e.op = "create" /\ Enter(h, e, "project", 0, None, {})
      BY <2>1 DEF StartCreate, Wanted
    <3> QED BY <3>1, EnteredIs DEF IsSession
  <2>2. CASE WriteProject(h) BY <2>2, MovedIs DEF WriteProject, At
  <2>3. CASE AdoptProject(h) BY <2>3, MovedIs DEF AdoptProject, At
  <2>4. CASE WriteManifest(h) BY <2>4, MovedIs DEF WriteManifest, At
  <2>5. CASE CommitCreate(h) BY <2>5, LeftIs DEF CommitCreate, Commit
  <2> QED BY <1>2, <2>1, <2>2, <2>3, <2>4, <2>5 DEF CreateSteps
<1>3. CASE EditSteps(h)
  <2>1. CASE StartEdit(h)
    <3>1. PICK e \in todo : e.op = "edit" /\ Enter(h, e, IF e.alias = db.row.alias THEN "commit" ELSE "alias", 0, None, {})
      BY <2>1 DEF StartEdit, Wanted
    <3>2. PICK step : step \in {"commit", "alias"} /\ Enter(h, e, step, 0, None, {}) BY <3>1
    <3> QED BY <3>1, <3>2, EnteredIs DEF IsSession
  <2>2. CASE StartAlias(h)
    <3>1. PICK e \in todo : e.op = "alias" /\ Enter(h, e, "alias", 0, None, {})
      BY <2>2 DEF StartAlias, Wanted
    <3> QED BY <3>1, EnteredIs DEF IsSession
  <2>3. CASE PushAlias(h) BY <2>3, MovedIs DEF PushAlias, At
  <2>4. CASE CommitEdit(h) BY <2>4, LeftIs DEF CommitEdit, Commit
  <2> QED BY <1>3, <2>1, <2>2, <2>3, <2>4 DEF EditSteps
<1>4. CASE GrantSteps(h)
  <2>1. CASE StartGrant(h)
    <3>1. PICK e \in todo : e.op = "grant" /\ Enter(h, e, IF e.role = "customer_admin" THEN "read" ELSE "commit", 0, None, {})
      BY <2>1 DEF StartGrant, Wanted
    <3>2. PICK step : step \in {"commit", "read"} /\ Enter(h, e, step, 0, None, {}) BY <3>1
    <3> QED BY <3>1, <3>2, EnteredIs DEF IsSession
  <2>2. CASE ReadAdmins(h)
    <3>1. Admins(AccessAfter(Event(h))) \subseteq Users BY DEF Admins
    <3>2. PICK set \in SUBSET Users : hs' = [hs EXCEPT ![h].set = set, ![h].step = "push"]
      BY <3>1, <2>2 DEF ReadAdmins
    <3>3. hs[h].op \in {"grant", "remove"} /\ todo' = todo BY <2>2 DEF ReadAdmins, At
    <3>4. IsSession(hs'[h]) BY <3>2, <3>3 DEF IsSession
    <3> QED BY <2>2, <1>4, <3>3, <3>4, GrantFrame, OnlyOneChanges
  <2>3. CASE PushAdmins(h) BY <2>3, MovedIs DEF PushAdmins, At
  <2>4. CASE CommitGrant(h) BY <2>4, LeftIs DEF CommitGrant, Commit
  <2> QED BY <1>4, <2>1, <2>2, <2>3, <2>4 DEF GrantSteps
<1>5. CASE DecommissionSteps(h)
  <2>1. CASE StartDecommission(h)
    <3>1. PICK e \in todo : e.op = "decommission" /\ Enter(h, e, "cluster", 0, db.row.backup, {})
      BY <2>1 DEF StartDecommission, Wanted
    <3>2. db.row.backup \in BOOLEAN BY DEF DbOK, Row
    <3>3. PICK backup \in BOOLEAN : Enter(h, e, "cluster", 0, backup, {}) BY <3>1, <3>2
    <3> QED BY <3>1, <3>3, EnteredIs DEF IsSession
  <2>2. CASE FindGone(h) BY <2>2, MovedIs DEF FindGone, At
  <2>3. CASE FindProjectsGone(h) BY <2>3, MovedIs DEF FindProjectsGone, At
  <2>4. CASE CommitDecommission(h) BY <2>4, LeftIs DEF CommitDecommission, Commit
  <2> QED BY <1>5, <2>1, <2>2, <2>3, <2>4 DEF DecommissionSteps
<1>6. CASE IssueSteps(h)
  <2> Creds \subseteq Nat BY DEF Creds
  <2> db.row.ca \in Bundles \cup {None} BY DEF DbOK, Row
  <2>1. CASE StartIssue(h)
    <3>1. PICK e \in todo : e.op = "issue" /\ HasNewId /\ Enter(h, e, "bind", NewId, db.row.ca, {})
      BY <2>1 DEF StartIssue, Wanted
    <3>2. PICK id \in Creds, ca \in Bundles \cup {None} : Enter(h, e, "bind", id, ca, {}) BY <3>1, NewIdIs
    <3> QED BY <3>1, <3>2, EnteredIs DEF IsSession
  <2>2. CASE StartRotate(h)
    <3>1. PICK e \in todo, c \in Creds : e.op = "rotate" /\ HasNewId /\ Enter(h, e, "bind", NewId, db.row.ca, {c})
      BY <2>2 DEF StartRotate, Wanted
    <3>2. PICK id \in Creds, ca \in Bundles \cup {None} : Enter(h, e, "bind", id, ca, {c}) BY <3>1, NewIdIs
    <3> QED BY <3>1, <3>2, EnteredIs DEF IsSession
  <2>3. CASE CreateBinding(h)
    <3>1. PICK step \in {"unbind", "commit"} : Move(h, step) BY <2>3 DEF CreateBinding
    <3> QED BY <2>3, <3>1, MovedIs DEF CreateBinding, At
  <2>4. CASE CommitIssue(h) BY <2>4, LeftIs DEF CommitIssue, Commit
  <2> QED BY <1>6, <2>1, <2>2, <2>3, <2>4 DEF IssueSteps
<1>7. CASE RevokeSteps(h)
  <2>1. CASE StartRevoke(h)
    <3>1. PICK e \in todo, c \in Creds : e.op = "revoke" /\ Enter(h, e, "unbind", 0, None, {c})
      BY <2>1 DEF StartRevoke, Wanted
    <3> QED BY <3>1, EnteredIs DEF IsSession
  <2>2. CASE DeleteBinding(h) BY <2>2, MovedIs DEF DeleteBinding, At
  <2>3. CASE CommitRevoke(h) BY <2>3, LeftIs DEF CommitRevoke, Commit
  <2> QED BY <1>7, <2>1, <2>2, <2>3 DEF RevokeSteps
<1>8. CASE RemoveSteps(h)
  <2> bindings \subseteq Binding BY DEF TypeOK
  <2>1. CASE StartRemove(h)
    <3>1. PICK e \in todo : e.op = "remove" /\ Enter(h, e, "list", 0, None, {})
      BY <2>1 DEF StartRemove, Wanted
    <3> QED BY <3>1, EnteredIs DEF IsSession
  <2>2. CASE ListBindings(h)
    <3>1. Labelled(Event(h).user) \subseteq Creds BY DEF Labelled, Binding
    <3>2. PICK set \in SUBSET Creds : hs' = [hs EXCEPT ![h].set = set, ![h].step = "cascade"]
      BY <3>1, <2>2 DEF ListBindings
    <3>3. hs[h].op = "remove" /\ todo' = todo BY <2>2 DEF ListBindings, At
    <3>4. IsSession(hs'[h]) BY <3>2, <3>3 DEF IsSession
    <3> QED BY <1>8, <3>3, <3>4, RemoveFrame, OnlyOneChanges
  <2>3. CASE DeleteListed(h)
    <3>1. PICK c : hs' = [hs EXCEPT ![h].set = @ \ {c}] BY <2>3 DEF DeleteListed
    <3>2. hs[h].op = "remove" /\ hs[h].step = "cascade" /\ todo' = todo BY <2>3 DEF DeleteListed, At
    <3>3. IsSession(hs'[h]) BY <3>1, <3>2 DEF IsSession
    <3> QED BY <1>8, <3>2, <3>3, RemoveFrame, OnlyOneChanges
  <2>4. CASE MarkRows(h)
    <3>1. PICK step \in {"read", "commit"}, saw \in SUBSET Creds : hs' = [hs EXCEPT ![h].step = step, ![h].saw = saw]
      BY <2>4 DEF MarkRows, AfterCascade
    <3>2. hs[h].op = "remove" /\ todo' = todo BY <2>4 DEF MarkRows, At
    <3>3. IsSession(hs'[h]) BY <3>1, <3>2 DEF IsSession
    <3> QED BY <1>8, <3>2, <3>3, RemoveFrame, OnlyOneChanges
  <2>5. CASE CascadeFails(h)
    <3>1. PICK step \in {"read", "commit"} : hs' = [hs EXCEPT ![h].step = step, ![h].saw = {}]
      BY <2>5 DEF CascadeFails, AfterCascade
    <3>2. hs[h].op = "remove" /\ todo' = todo BY <2>5 DEF CascadeFails, At
    <3>3. IsSession(hs'[h]) BY <3>1, <3>2 DEF IsSession
    <3> QED BY <1>8, <3>2, <3>3, RemoveFrame, OnlyOneChanges
  <2>6. CASE CommitRemove(h) BY <2>6, LeftIs DEF CommitRemove, Commit
  <2> QED BY <1>8, <2>1, <2>2, <2>3, <2>4, <2>5, <2>6 DEF RemoveSteps
<1>9. CASE RequestSteps(h)
  <2> DOMAIN db.requests \subseteq Nat BY DEF DbOK
  <2>1. CASE StartRequest(h)
    <3>1. PICK e \in todo : e.op = "request" /\ Enter(h, e, "insert", 0, None, {})
      BY <2>1 DEF StartRequest, Wanted
    <3> QED BY <3>1, EnteredIs DEF IsSession
  <2>2. CASE InsertRequest(h) BY <2>2, LeftIs DEF InsertRequest
  <2>3. CASE StartApply(h)
    <3>1. PICK e \in todo, r \in DOMAIN db.requests :
             e.op = "apply" /\ Enter(h, e, FirstStep(db.requests[r].type), r, db.row.groups, {})
      BY <2>3 DEF StartApply, Wanted
    <3>2. db.row.groups \in Nat /\ db.requests[r].type \in {"resize", "backup", "addon"}
      <4>1. db.requests[r] \in ChangeRequest BY ElementOfSeq, DOMAIN db.requests = 1..Len(db.requests) DEF DbOK
      <4> QED BY <4>1 DEF DbOK, Row, ChangeRequest, Addons
    <3>3. FirstStep(db.requests[r].type) \in {"quota", "backup", "commit"} BY <3>2 DEF FirstStep, ResizeSteps
    <3>4. PICK step \in {"quota", "backup", "commit"}, groups \in Nat : Enter(h, e, step, r, groups, {})
      BY <3>1, <3>2, <3>3
    <3> QED BY <3>1, <3>4, EnteredIs DEF IsSession
  <2>4. CASE PushQuota(h) BY <2>4, MovedIs DEF PushQuota, At, ResizeSteps
  <2>5. CASE PushGroups(h) BY <2>5, MovedIs DEF PushGroups, At, ResizeSteps
  <2>6. CASE PushBackup(h) BY <2>6, MovedIs DEF PushBackup, At
  <2>7. CASE CommitApply(h) BY <2>7, LeftIs DEF CommitApply
  <2>8. CASE StartDeny(h)
    <3>1. PICK e \in todo, r \in DOMAIN db.requests : e.op = "deny" /\ Enter(h, e, "deny", r, None, {})
      BY <2>8 DEF StartDeny, Wanted
    <3> QED BY <3>1, EnteredIs DEF IsSession
  <2>9. CASE CommitDeny(h) BY <2>9, LeftIs DEF CommitDeny
  <2> QED BY <1>9, <2>1, <2>2, <2>3, <2>4, <2>5, <2>6, <2>7, <2>8, <2>9 DEF RequestSteps
<1>10. CASE RepoSteps(h)
  <2> Latest \in Nat BY DEF StoreOK, Latest
  <2>1. CASE StartReplace(h)
    <3>1. PICK e \in todo, cas \in 0..Latest :
            /\ e.op = "replace" /\ store.repo # None
            /\ Enter(h, e, IF ~e.confirmed /\ store.repo.pin = 0 THEN "latest" ELSE "write", cas, store.repo.url, {})
      BY <2>1 DEF StartReplace, Wanted
    <3>2. PICK step \in {"latest", "write"}, url \in Urls : Enter(h, e, step, cas, url, {})
      BY <3>1 DEF StoreOK, RepositoryRow
    <3> QED BY <3>1, <3>2, EnteredIs DEF IsSession
  <2>2. CASE ReadLatest(h) BY <2>2, MovedIs DEF ReadLatest, At
  <2>3. CASE WriteSecret(h) BY <2>3, MovedIs DEF WriteSecret, At
  <2>4. CASE CommitReplace(h) BY <2>4, LeftIs DEF CommitReplace, Commit
  <2>5. CASE StartValidate(h)
    <3>1. PICK e \in todo : e.op = "validate" /\ Serves(WriterVersion) /\ Enter(h, e, "check", WriterVersion, None, {})
      BY <2>5 DEF StartValidate, Wanted
    <3>2. PICK id \in Nat : Enter(h, e, "check", id, None, {}) BY <3>1 DEF Serves
    <3> QED BY <3>1, <3>2, EnteredIs DEF IsSession
  <2>6. CASE CommitValidate(h) BY <2>6, LeftIs DEF CommitValidate, Commit
  <2> QED BY <1>10, <2>1, <2>2, <2>3, <2>4, <2>5, <2>6 DEF RepoSteps
<1>11. CASE Ends(h) BY <1>11, EndFrame, IdleIsSession, OnlyOneChanges
<1>12. CASE Instant(h)
  <2>1. hs' = hs BY <1>12, InstantFrame
  <2>2. todo' \subseteq todo BY <1>12 DEF Instant, Provision, SaveRepository
  <2> QED BY <2>1, <2>2 DEF SessionsOK, IsSession
<1>13. CASE LoseSession(h)
  <2> hs[h].op # "idle" BY <1>13, PortalAssumption DEF LoseSession, HoldsInv, On, RowOps, RepoOps
  <2>1. PICK lost \in BOOLEAN :
          hs'[h] = [op |-> hs[h].op, step |-> hs[h].step, event |-> hs[h].event, id |-> hs[h].id,
                    saw |-> hs[h].saw, set |-> hs[h].set, lost |-> lost]
    BY <1>13, LoseRecord
  <2>2. IsSession(hs'[h]) BY <2>1 DEF IsSession
  <2> QED BY <1>13, <2>2, LoseFrame, OnlyOneChanges
<1> QED BY <1>2, <1>3, <1>4, <1>5, <1>6, <1>7, <1>8, <1>9, <1>10, <1>11, <1>12, <1>13

------------------------------------------------------------------------------
\* Locks.
LocksOK == locks \in [row : Handlers \cup {Nobody}, repo : Handlers \cup {Nobody}]

LEMMA OneHolder ==
  ASSUME HoldsInv, NEW g \in Handlers, NEW h \in Handlers
  PROVE  /\ On(g, RowOps) /\ On(h, RowOps) => g = h
         /\ On(g, RepoOps) /\ On(h, RepoOps) => g = h
BY DEF HoldsInv

LEMMA HoldsMove ==
  ASSUME HoldsInv, LocksOK, NEW h \in Handlers, NEW ops, Only(h, ops), Keeps(h), locks' = locks
  PROVE  HoldsInv' /\ LocksOK'
BY DEF HoldsInv, On, Only, Keeps, LocksOK

LEMMA HoldsLeave ==
  ASSUME HoldsInv, LocksOK, NEW h \in Handlers, NEW ops, Only(h, ops), hs'[h].op = "idle" \/ hs'[h].lost,
         locks' = Released(h)
  PROVE  HoldsInv' /\ LocksOK'
BY PortalAssumption DEF HoldsInv, On, Only, LocksOK, Released, Freed, RowOps, RepoOps

LEMMA HoldsEnter ==
  ASSUME HoldsInv, LocksOK, NEW h \in Handlers, hs[h] = Idle, DOMAIN hs' = Handlers,
         \A g \in Handlers \ {h} : hs'[g] = hs[g], ~hs'[h].lost,
         \/ hs'[h].op \in RowOps \ RepoOps /\ locks.row = Nobody /\ locks' = [locks EXCEPT !.row = h]
         \/ hs'[h].op \in RepoOps \ RowOps /\ locks.repo = Nobody /\ locks' = [locks EXCEPT !.repo = h]
         \/ hs'[h].op \in RowOps \cap RepoOps /\ locks = [row |-> Nobody, repo |-> Nobody] /\ locks' = [row |-> h, repo |-> h]
         \/ hs'[h].op \notin RowOps \cup RepoOps /\ locks' = locks
  PROVE  HoldsInv' /\ LocksOK'
<1> USE PortalAssumption
<1>1. hs[h].op \notin RowOps \cup RepoOps BY DEF Idle, RowOps, RepoOps
<1>2. locks.row # h /\ locks.repo # h BY <1>1 DEF HoldsInv, On
<1>3. LocksOK' BY DEF LocksOK
<1> QED BY <1>1, <1>2, <1>3 DEF HoldsInv, On, LocksOK

LEMMA HoldsStep ==
  ASSUME TypeOK, HoldsInv, [Next]_vars
  PROVE  HoldsInv' /\ LocksOK'
<1> USE PortalAssumption
<1> SessionsOK /\ LocksOK BY DEF TypeOK, LocksOK
<1> DOMAIN hs = Handlers /\ \A h \in Handlers : IsSession(hs[h]) BY DEF SessionsOK
<1>0. CASE UNCHANGED vars BY <1>0 DEF vars, HoldsInv, On, LocksOK
<1>1. CASE Environment
  <2>1. hs' = hs /\ locks' = locks BY <1>1, EnvironmentFrame
  <2> QED BY <2>1 DEF HoldsInv, On, LocksOK
<1> SUFFICES ASSUME NEW h \in Handlers,
                    \/ CreateSteps(h) \/ EditSteps(h) \/ GrantSteps(h) \/ DecommissionSteps(h)
                    \/ IssueSteps(h) \/ RevokeSteps(h) \/ RemoveSteps(h) \/ RequestSteps(h)
                    \/ RepoSteps(h) \/ Ends(h) \/ Instant(h) \/ LoseSession(h)
             PROVE  HoldsInv' /\ LocksOK'
  BY <1>0, <1>1, NextCases
<1> IsSession(hs[h]) OBVIOUS
<1>2. CASE CreateSteps(h)
  <2>1. CASE StartCreate(h)
    <3>1. /\ hs[h] = Idle /\ DOMAIN hs' = Handlers /\ \A g \in Handlers \ {h} : hs'[g] = hs[g]
          /\ hs'[h].op = "create" /\ ~hs'[h].lost
          /\ locks.row = Nobody /\ locks.repo = Nobody /\ locks' = [row |-> h, repo |-> h]
      BY <2>1 DEF StartCreate, Wanted, Enter, RowFree, RepoFree
    <3>2. locks = [row |-> Nobody, repo |-> Nobody] BY <3>1 DEF LocksOK
    <3> QED BY <3>1, <3>2, HoldsEnter DEF RowOps, RepoOps
  <2>2. CASE WriteProject(h) BY <2>2, Moved, HoldsMove DEF WriteProject
  <2>3. CASE AdoptProject(h) BY <2>3, Moved, HoldsMove DEF AdoptProject
  <2>4. CASE WriteManifest(h) BY <2>4, Moved, HoldsMove DEF WriteManifest
  <2>5. CASE CommitCreate(h) BY <2>5, Left, HoldsLeave DEF CommitCreate, Commit, Idle
  <2> QED BY <1>2, <2>1, <2>2, <2>3, <2>4, <2>5 DEF CreateSteps
<1>3. CASE StartEdit(h) \/ StartAlias(h) \/ StartGrant(h) \/ StartDecommission(h) \/ StartIssue(h) \/ StartRotate(h)
           \/ StartRevoke(h) \/ StartRemove(h)
  <2>1. /\ hs[h] = Idle /\ DOMAIN hs' = Handlers /\ \A g \in Handlers \ {h} : hs'[g] = hs[g]
        /\ hs'[h].op \in {"edit", "alias", "grant", "decommission", "issue", "rotate", "revoke", "remove"}
        /\ ~hs'[h].lost
        /\ locks.row = Nobody /\ locks' = [locks EXCEPT !.row = h]
    <3>1. CASE StartEdit(h) BY <3>1 DEF StartEdit, Wanted, Enter, LockCluster, LockRow
    <3>2. CASE StartAlias(h) BY <3>2 DEF StartAlias, Wanted, Enter, LockCluster, LockRow
    <3>3. CASE StartGrant(h) BY <3>3 DEF StartGrant, Wanted, Enter, LockCluster, LockRow
    <3>4. CASE StartDecommission(h) BY <3>4 DEF StartDecommission, Wanted, Enter, LockCluster, LockRow
    <3>5. CASE StartIssue(h) BY <3>5 DEF StartIssue, Wanted, Enter, LockCluster, LockRow
    <3>6. CASE StartRotate(h) BY <3>6 DEF StartRotate, Wanted, Enter, LockCluster, LockRow
    <3>7. CASE StartRevoke(h) BY <3>7 DEF StartRevoke, Wanted, Enter, LockCluster, LockRow
    <3>8. CASE StartRemove(h) BY <3>8 DEF StartRemove, Wanted, Enter, LockCluster, LockRow
    <3> QED BY <1>3, <3>1, <3>2, <3>3, <3>4, <3>5, <3>6, <3>7, <3>8
  <2> QED BY <2>1, HoldsEnter DEF RowOps, RepoOps
<1>4. CASE StartReplace(h) \/ StartValidate(h)
  <2>1. /\ hs[h] = Idle /\ DOMAIN hs' = Handlers /\ \A g \in Handlers \ {h} : hs'[g] = hs[g]
        /\ hs'[h].op \in {"replace", "validate"} /\ ~hs'[h].lost
        /\ locks.repo = Nobody /\ locks' = [locks EXCEPT !.repo = h]
    <3>1. CASE StartReplace(h) BY <3>1 DEF StartReplace, Wanted, Enter, LockRepo, RepoFree
    <3>2. CASE StartValidate(h) BY <3>2 DEF StartValidate, Wanted, Enter, LockRepo, RepoFree
    <3> QED BY <1>4, <3>1, <3>2
  <2> QED BY <2>1, HoldsEnter DEF RowOps, RepoOps
<1>5. CASE StartRequest(h) \/ StartApply(h) \/ StartDeny(h)
  <2>1. /\ hs[h] = Idle /\ DOMAIN hs' = Handlers /\ \A g \in Handlers \ {h} : hs'[g] = hs[g]
        /\ hs'[h].op \in {"request", "apply", "deny"} /\ ~hs'[h].lost /\ locks' = locks
    <3>1. CASE StartRequest(h) BY <3>1 DEF StartRequest, Wanted, Enter
    <3>2. CASE StartApply(h) BY <3>2 DEF StartApply, Wanted, Enter
    <3>3. CASE StartDeny(h) BY <3>3 DEF StartDeny, Wanted, Enter
    <3> QED BY <1>5, <3>1, <3>2, <3>3
  <2> QED BY <2>1, HoldsEnter DEF RowOps, RepoOps
<1>6. CASE PushAlias(h) BY <1>6, Moved, HoldsMove DEF PushAlias
<1>7. CASE FindGone(h) BY <1>7, Moved, HoldsMove DEF FindGone
<1>8. CASE FindProjectsGone(h) BY <1>8, Moved, HoldsMove DEF FindProjectsGone
<1>9. CASE PushAdmins(h) BY <1>9, Moved, HoldsMove DEF PushAdmins
<1>10. CASE CreateBinding(h)
  <2>1. PICK step : Move(h, step) /\ locks' = locks BY <1>10 DEF CreateBinding
  <2> QED BY <2>1, Moved, HoldsMove
<1>11. CASE DeleteBinding(h) BY <1>11, Moved, HoldsMove DEF DeleteBinding
<1>12. CASE PushQuota(h) BY <1>12, Moved, HoldsMove DEF PushQuota
<1>13. CASE PushGroups(h) BY <1>13, Moved, HoldsMove DEF PushGroups
<1>14. CASE PushBackup(h) BY <1>14, Moved, HoldsMove DEF PushBackup
<1>15. CASE ReadLatest(h) BY <1>15, Moved, HoldsMove DEF ReadLatest
<1>16. CASE WriteSecret(h) BY <1>16, Moved, HoldsMove DEF WriteSecret
<1>17. CASE ReadAdmins(h) \/ ListBindings(h) \/ DeleteListed(h) \/ MarkRows(h) \/ CascadeFails(h)
  <2>1. locks' = locks BY <1>17 DEF ReadAdmins, ListBindings, DeleteListed, MarkRows, CascadeFails
  <2>2. Only(h, {"idle", "grant", "remove"})
    BY <1>17, GrantFrame, RemoveFrame DEF GrantSteps, RemoveSteps, Only
  <2>3. Keeps(h)
    <3>1. CASE ReadAdmins(h) BY <3>1 DEF ReadAdmins, Keeps, IsSession
    <3>2. CASE ListBindings(h) BY <3>2 DEF ListBindings, Keeps, IsSession
    <3>3. CASE DeleteListed(h) BY <3>3 DEF DeleteListed, Keeps, IsSession
    <3>4. CASE MarkRows(h) BY <3>4 DEF MarkRows, Keeps, IsSession
    <3>5. CASE CascadeFails(h) BY <3>5 DEF CascadeFails, Keeps, IsSession
    <3> QED BY <1>17, <3>1, <3>2, <3>3, <3>4, <3>5
  <2> QED BY <2>1, <2>2, <2>3, HoldsMove
<1>18. CASE Leave(h) BY <1>18, Left, HoldsLeave DEF Idle
<1>19. CASE Ends(h) BY <1>19, EndFrame, HoldsLeave DEF Idle
<1>20. CASE LoseSession(h) BY <1>20, LoseFrame, HoldsLeave
<1>21. CASE Instant(h)
  <2>1. hs' = hs /\ locks' = locks BY <1>21, InstantFrame
  <2> QED BY <2>1 DEF HoldsInv, On, LocksOK
<1>22. ASSUME CommitEdit(h) \/ CommitGrant(h) \/ CommitDecommission(h) \/ CommitIssue(h) \/ CommitRevoke(h)
              \/ CommitRemove(h) \/ InsertRequest(h) \/ CommitApply(h) \/ CommitDeny(h) \/ CommitReplace(h) \/ CommitValidate(h)
       PROVE  Leave(h)
  BY <1>22 DEF CommitEdit, CommitGrant, CommitDecommission, CommitIssue, CommitRevoke, CommitRemove,
               InsertRequest, CommitApply, CommitDeny, CommitReplace, CommitValidate, Commit
<1>23. CASE EditSteps(h) BY <1>23, <1>3, <1>6, <1>18, <1>22 DEF EditSteps
<1>24. CASE GrantSteps(h) BY <1>24, <1>3, <1>9, <1>17, <1>18, <1>22 DEF GrantSteps
<1>25. CASE DecommissionSteps(h) BY <1>25, <1>3, <1>7, <1>8, <1>18, <1>22 DEF DecommissionSteps
<1>26. CASE IssueSteps(h) BY <1>26, <1>3, <1>10, <1>18, <1>22 DEF IssueSteps
<1>27. CASE RevokeSteps(h) BY <1>27, <1>3, <1>11, <1>18, <1>22 DEF RevokeSteps
<1>28. CASE RemoveSteps(h) BY <1>28, <1>3, <1>17, <1>18, <1>22 DEF RemoveSteps
<1>29. CASE RequestSteps(h) BY <1>29, <1>5, <1>12, <1>13, <1>14, <1>18, <1>22 DEF RequestSteps
<1>30. CASE RepoSteps(h) BY <1>30, <1>4, <1>15, <1>16, <1>18, <1>22 DEF RepoSteps
<1> QED BY <1>2, <1>19, <1>20, <1>21, <1>23, <1>24, <1>25, <1>26, <1>27, <1>28, <1>29, <1>30

------------------------------------------------------------------------------
\* What is stored keeps its type.
LEMMA EventIs ==
  ASSUME SessionsOK, NEW h \in Handlers, hs[h].op # "idle"
  PROVE  Event(h) \in Events /\ Event(h).op = hs[h].op /\ Wellformed(Event(h))
BY PlanAssumption DEF SessionsOK, IsSession, Event

LEMMA QuotaIs == \A g \in Nat : Quota(g) \in Quotas
BY DEF Quota, Quotas

LEMMA ProjectIs ==
  ASSUME NEW e, e.contract \in Contracts, e.groups \in Nat, e.alias \in Aliases
  PROVE  Project(e) \in OpenstackProject /\ Document(e) \in Manifest
BY QuotaIs DEF Project, Document, OpenstackProject, Manifest

LEMMA RequestIs ==
  ASSUME DbOK, NEW r \in DOMAIN db.requests
  PROVE  /\ r \in Nat /\ db.requests[r] \in ChangeRequest
         /\ db.requests[r].type \in {"resize", "backup", "addon"}
         /\ db.requests[r].type = "resize" => db.requests[r].target \in Nat
         /\ db.requests[r].type # "resize" => db.requests[r].target \in BOOLEAN
<1>1. r \in Nat /\ db.requests[r] \in ChangeRequest BY DEF DbOK
<1> QED BY <1>1 DEF ChangeRequest, Addons

LEMMA RetiredIs ==
  ASSUME NEW cred \in Cred \cup {None}
  PROVE  Retired(cred) \in Cred \cup {None}
<1>1. CASE cred = None BY <1>1 DEF Retired
<1>2. CASE cred # None
  <2>1. [cred EXCEPT !.revoked = TRUE] \in Cred
    <3>1. PICK yes \in BOOLEAN : yes = TRUE OBVIOUS
    <3>2. [cred EXCEPT !.revoked = yes] \in Cred BY <1>2 DEF Cred
    <3> QED BY <3>1, <3>2
  <2> QED BY <1>2, <2>1 DEF Retired
<1> QED BY <1>1, <1>2

LEMMA DbRow ==
  ASSUME DbOK, NEW row \in Row, db' = [db EXCEPT !.row = row]
  PROVE  DbOK'
BY DEF DbOK

LEMMA CreateDb ==
  ASSUME TypeOK, NEW h \in Handlers, CommitCreate(h)
  PROVE  DbOK'
<1> DbOK /\ SessionsOK BY DEF TypeOK
<1> DEFINE e == Event(h)
<1>1. e.contract \in Contracts /\ e.groups \in Nat /\ e.alias \in Aliases
  BY EventIs DEF Wellformed, CommitCreate, At
<1> DEFINE row == [NoCluster EXCEPT !.state = "live", !.contract = e.contract,
                                    !.alias = e.alias, !.groups = e.groups]
<1>2. db' = [db EXCEPT !.row = row] BY DEF CommitCreate
<1>3. NoCluster \in Row
  <2>1. PICK no \in BOOLEAN : no = FALSE OBVIOUS
  <2>2. [state |-> "none", contract |-> None, alias |-> NoAlias, ca |-> None, provisioned |-> no,
         groups |-> 1, version |-> 1, backup |-> no] \in Row
    BY PortalAssumption DEF Row
  <2> QED BY <2>1, <2>2 DEF NoCluster
<1>4. row \in Row
  <2> HIDE DEF e
  <2> QED BY <1>1, <1>3 DEF Row
<1> HIDE DEF row
<1> QED BY <1>2, <1>4, DbRow

LEMMA EditDb ==
  ASSUME TypeOK, NEW h \in Handlers, CommitEdit(h)
  PROVE  DbOK'
<1> DbOK /\ SessionsOK BY DEF TypeOK
<1> DEFINE e == Event(h)
<1>1. /\ e.alias \in Aliases /\ e.op \in {"edit", "alias"}
      /\ e.op = "edit" => e.ca \in Bundles \cup {None}
  BY EventIs DEF Wellformed, CommitEdit, At
<1>2. db.row \in Row BY DEF DbOK
<1> DEFINE ca == IF e.op = "edit" THEN e.ca ELSE db.row.ca
           row == [db.row EXCEPT !.alias = e.alias, !.ca = ca]
           version == IF row = db.row THEN row.version ELSE row.version + 1
           after == [row EXCEPT !.version = version]
<1>3. db' = [db EXCEPT !.row = after] BY DEF CommitEdit
<1>4. ca \in Bundles \cup {None} BY <1>1, <1>2 DEF Row
<1> HIDE DEF ca
<1>5. row \in Row BY <1>1, <1>2, <1>4 DEF Row
<1> HIDE DEF row
<1>6. version \in Nat BY <1>5 DEF Row
<1> HIDE DEF version
<1>7. after \in Row BY <1>5, <1>6 DEF Row
<1> QED BY <1>3, <1>7, DbRow

LEMMA ProvisionDb ==
  ASSUME TypeOK, NEW h \in Handlers, Provision(h)
  PROVE  DbOK'
<1> DbOK BY DEF TypeOK
<1>1. db.row \in Row BY DEF DbOK
<1>2. PICK yes \in BOOLEAN : yes = TRUE OBVIOUS
<1>3. [db.row EXCEPT !.provisioned = yes] \in Row BY <1>1 DEF Row
<1>4. db' = [db EXCEPT !.row = [db.row EXCEPT !.provisioned = TRUE]] BY DEF Provision
<1> QED BY <1>2, <1>3, <1>4, DbRow

LEMMA AccessAfterIs ==
  ASSUME TypeOK, NEW h \in Handlers, hs[h].op \in {"grant", "remove"}
  PROVE  AccessAfter(Event(h)) \in [Users -> Roles \cup {None}] /\ Event(h).user \in Users
<1> DbOK /\ SessionsOK BY DEF TypeOK
<1> DEFINE e == Event(h)
<1>1. e.op \in {"grant", "remove"} /\ e.user \in Users /\ (e.op = "grant" => e.role \in Roles)
  BY EventIs DEF Wellformed
<1> QED BY <1>1 DEF AccessAfter, DbOK

LEMMA AccessDb ==
  ASSUME TypeOK, NEW h \in Handlers, CommitGrant(h) \/ CommitRemove(h)
  PROVE  DbOK'
<1> DbOK /\ SessionsOK BY DEF TypeOK
<1>1. AccessAfter(Event(h)) \in [Users -> Roles \cup {None}]
  BY AccessAfterIs DEF CommitGrant, CommitRemove, At
<1>2. [c \in Creds |-> IF c \in hs[h].saw THEN Retired(db.creds[c]) ELSE db.creds[c]]
        \in [Creds -> Cred \cup {None}]
  BY RetiredIs DEF DbOK
<1>3. CASE CommitGrant(h) BY <1>1, <1>3 DEF CommitGrant, DbOK
<1>4. CASE CommitRemove(h) BY <1>1, <1>2, <1>4 DEF CommitRemove, DbOK
<1> QED BY <1>3, <1>4

LEMMA RevokeDb ==
  ASSUME TypeOK, NEW h \in Handlers, CommitRevoke(h)
  PROVE  DbOK'
<1> DbOK BY DEF TypeOK
<1>1. [c \in Creds |-> IF c \in hs[h].set THEN Retired(db.creds[c]) ELSE db.creds[c]]
        \in [Creds -> Cred \cup {None}]
  BY RetiredIs DEF DbOK
<1> QED BY <1>1 DEF CommitRevoke, DbOK

LEMMA IssueDb ==
  ASSUME TypeOK, NEW h \in Handlers, CommitIssue(h)
  PROVE  DbOK'
<1> DbOK /\ SessionsOK BY DEF TypeOK
<1> DEFINE new == [user |-> Event(h).by, ca |-> hs[h].saw, revoked |-> FALSE]
<1>1. hs[h].op \in {"issue", "rotate"} BY DEF CommitIssue, At
<1>2. Event(h).by \in Users BY <1>1, EventIs DEF Wellformed
<1>3. hs[h].saw \in Bundles \cup {None} BY <1>1 DEF SessionsOK, IsSession
<1>4. new \in Cred
  <2>1. PICK no \in BOOLEAN : no = FALSE OBVIOUS
  <2>2. [user |-> Event(h).by, ca |-> hs[h].saw, revoked |-> no] \in Cred BY <1>2, <1>3 DEF Cred
  <2> QED BY <2>1, <2>2
<1> HIDE DEF new
<1> DEFINE creds == [c \in Creds |-> IF c = hs[h].id THEN new
                                     ELSE IF c \in hs[h].set THEN Retired(db.creds[c]) ELSE db.creds[c]]
<1>5. creds \in [Creds -> Cred \cup {None}] BY <1>4, RetiredIs DEF DbOK
<1>6. db' = [db EXCEPT !.creds = creds] BY DEF CommitIssue, new
<1> HIDE DEF creds
<1> QED BY <1>5, <1>6 DEF DbOK

LEMMA Denied ==
  ASSUME NEW request \in ChangeRequest, NEW status \in {"pending", "applied", "denied"}
  PROVE  [request EXCEPT !.status = status] \in ChangeRequest
BY DEF ChangeRequest

LEMMA DecommissionDb ==
  ASSUME TypeOK, NEW h \in Handlers, CommitDecommission(h)
  PROVE  DbOK'
<1> DbOK BY DEF TypeOK
<1> DEFINE creds == [c \in Creds |-> Retired(db.creds[c])]
           requests == [r \in DOMAIN db.requests |->
                          IF db.requests[r].status = "pending" THEN [db.requests[r] EXCEPT !.status = "denied"]
                                                               ELSE db.requests[r]]
           row == [db.row EXCEPT !.state = "gone", !.version = @ + 1]
<1>1. creds \in [Creds -> Cred \cup {None}] BY RetiredIs DEF DbOK
<1>2. requests \in Seq(ChangeRequest)
  <2>1. DOMAIN db.requests = 1..Len(db.requests) /\ Len(db.requests) \in Nat BY DEF DbOK
  <2>2. \A r \in 1..Len(db.requests) : requests[r] \in ChangeRequest BY <2>1, RequestIs, Denied
  <2> HIDE DEF requests
  <2>3. requests = [r \in 1..Len(db.requests) |-> requests[r]] BY <2>1 DEF requests
  <2> QED BY <2>1, <2>2, <2>3, IsASeq
<1>3. row \in Row
  <2>1. PICK old \in Row : old = db.row BY DEF DbOK
  <2>2. PICK version \in Nat : version = old.version + 1 BY <2>1 DEF Row
  <2>3. [old EXCEPT !.state = "gone", !.version = version] \in Row BY DEF Row
  <2> QED BY <2>1, <2>2, <2>3
<1>4. PICK no \in BOOLEAN : no = FALSE OBVIOUS
<1>5. db' = [db EXCEPT !.row = row, !.addon = no, !.creds = creds, !.requests = requests]
  <2>1. db' = [db EXCEPT !.row.state = "gone", !.row.version = @ + 1, !.addon = FALSE,
                         !.creds = creds, !.requests = requests]
    BY DEF CommitDecommission
  <2> HIDE DEF creds, requests
  <2> QED BY <2>1, <1>4 DEF DbOK, Row
<1> HIDE DEF creds, requests, row
<1> QED BY <1>1, <1>2, <1>3, <1>5 DEF DbOK

LEMMA InsertDb ==
  ASSUME TypeOK, NEW h \in Handlers, InsertRequest(h)
  PROVE  DbOK'
<1> DbOK /\ SessionsOK BY DEF TypeOK
<1> DEFINE e == Event(h)
           new == [type |-> e.type, target |-> e.target, status |-> "pending", before |-> 0]
<1>1. \/ e.type = "resize" /\ e.target \in Nat
      \/ e.type \in Addons /\ e.target \in BOOLEAN
  BY EventIs DEF Wellformed, InsertRequest, At
<1>2. new \in ChangeRequest BY <1>1 DEF ChangeRequest
<1>3. db' = [db EXCEPT !.requests = Append(db.requests, new)] BY DEF InsertRequest
<1> HIDE DEF new
<1>4. Append(db.requests, new) \in Seq(ChangeRequest) BY <1>2, AppendProperties DEF DbOK
<1> QED BY <1>3, <1>4 DEF DbOK

LEMMA DenyDb ==
  ASSUME TypeOK, RequestsInv, NEW h \in Handlers, CommitDeny(h)
  PROVE  DbOK'
<1> DbOK BY DEF TypeOK
<1> DEFINE r == hs[h].id
           new == [db.requests[r] EXCEPT !.status = "denied"]
<1>1. r \in DOMAIN db.requests BY DEF RequestsInv, CommitDeny, At
<1>2. new \in ChangeRequest BY <1>1, RequestIs, Denied
<1>3. db' = [db EXCEPT !.requests = [db.requests EXCEPT ![r] = new]] BY DEF CommitDeny
<1> HIDE DEF new, r
<1>4. [db.requests EXCEPT ![r] = new] \in Seq(ChangeRequest) BY <1>1, <1>2, ExceptSeq DEF DbOK
<1> QED BY <1>3, <1>4 DEF DbOK

LEMMA ApplyDb ==
  ASSUME TypeOK, RequestsInv, NEW h \in Handlers, CommitApply(h)
  PROVE  DbOK'
<1> DbOK /\ SessionsOK BY DEF TypeOK
<1> DEFINE r == hs[h].id
           request == db.requests[r]
           before == IF request.type = "resize" THEN hs[h].saw ELSE request.before
           new == [request EXCEPT !.status = "applied", !.before = before]
           row == Applied(request, db.row)
           addon == IF request.type = "addon" THEN request.target ELSE db.addon
<1>1. r \in DOMAIN db.requests /\ hs[h].saw \in Nat
  BY DEF RequestsInv, CommitApply, At, SessionsOK, IsSession
<1>2. /\ request \in ChangeRequest /\ request.type \in {"resize", "backup", "addon"}
      /\ request.type = "resize" => request.target \in Nat
      /\ request.type # "resize" => request.target \in BOOLEAN
  BY <1>1, RequestIs
<1>3. db' = [db EXCEPT !.row = row, !.addon = addon, !.requests = [db.requests EXCEPT ![r] = new]]
  BY Zenon DEF CommitApply, Request
<1> HIDE DEF r, request
<1>4. before \in Nat BY <1>1, <1>2 DEF ChangeRequest
<1> HIDE DEF before
<1>5. new \in ChangeRequest BY <1>2, <1>4 DEF ChangeRequest
<1> HIDE DEF new
<1>6. [db.requests EXCEPT ![r] = new] \in Seq(ChangeRequest) BY <1>1, <1>5, ExceptSeq DEF DbOK
<1>7. row \in Row
  <2>1. db.row \in Row BY DEF DbOK
  <2>2. CASE request.type = "resize" BY <1>2, <2>1, <2>2 DEF Applied, Row
  <2>3. CASE request.type = "backup"
    <3>1. row = [db.row EXCEPT !.backup = request.target] BY <2>3 DEF Applied
    <3>2. PICK target \in BOOLEAN : target = request.target BY <1>2, <2>3
    <3>3. [db.row EXCEPT !.backup = target] \in Row BY <2>1 DEF Row
    <3> QED BY <3>1, <3>2, <3>3
  <2>4. CASE request.type = "addon" BY <2>1, <2>4 DEF Applied
  <2> QED BY <1>2, <2>2, <2>3, <2>4
<1>8. addon \in BOOLEAN BY <1>2 DEF DbOK
<1> HIDE DEF row, addon
<1> QED BY <1>3, <1>6, <1>7, <1>8 DEF DbOK

LEMMA DbStep ==
  ASSUME TypeOK, RequestsInv, [Next]_vars
  PROVE  DbOK'
<1> DbOK /\ SessionsOK BY DEF TypeOK
<1>0. ASSUME db' = db PROVE DbOK' BY <1>0 DEF DbOK
<1>1. CASE UNCHANGED vars BY <1>0, <1>1 DEF vars, state
<1>2. CASE Environment BY <1>0, <1>2, EnvironmentFrame
<1> SUFFICES ASSUME NEW h \in Handlers,
                    \/ CreateSteps(h) \/ EditSteps(h) \/ GrantSteps(h) \/ DecommissionSteps(h)
                    \/ IssueSteps(h) \/ RevokeSteps(h) \/ RemoveSteps(h) \/ RequestSteps(h)
                    \/ RepoSteps(h) \/ Ends(h) \/ Instant(h) \/ LoseSession(h)
             PROVE  DbOK'
  BY <1>1, <1>2, NextCases
<1>3. CASE CreateSteps(h)
  BY <1>0, <1>3, CreateDb DEF CreateSteps, StartCreate, WriteProject, AdoptProject, WriteManifest
<1>4. CASE EditSteps(h) BY <1>0, <1>4, EditDb DEF EditSteps, StartEdit, StartAlias, PushAlias
<1>5. CASE GrantSteps(h) BY <1>0, <1>5, AccessDb DEF GrantSteps, StartGrant, ReadAdmins, PushAdmins
<1>6. CASE DecommissionSteps(h)
  BY <1>0, <1>6, DecommissionDb DEF DecommissionSteps, StartDecommission, FindGone, FindProjectsGone
<1>7. CASE IssueSteps(h) BY <1>0, <1>7, IssueDb DEF IssueSteps, StartIssue, StartRotate, CreateBinding
<1>8. CASE RevokeSteps(h) BY <1>0, <1>8, RevokeDb DEF RevokeSteps, StartRevoke, DeleteBinding
<1>9. CASE RemoveSteps(h)
  BY <1>0, <1>9, AccessDb DEF RemoveSteps, StartRemove, ListBindings, DeleteListed, MarkRows, CascadeFails
<1>10. CASE RequestSteps(h)
  BY <1>0, <1>10, InsertDb, ApplyDb, DenyDb DEF RequestSteps, StartRequest, StartApply, PushQuota, PushGroups, PushBackup, StartDeny
<1>11. CASE RepoSteps(h) BY <1>0, <1>11, RepoFrame
<1>12. CASE Ends(h) BY <1>0, <1>12, EndFrame
<1>13. CASE Instant(h) BY <1>0, <1>13, ProvisionDb DEF Instant, SaveRepository, Rest
<1>14. CASE LoseSession(h) BY <1>0, <1>14, LoseFrame
<1> QED BY <1>3, <1>4, <1>5, <1>6, <1>7, <1>8, <1>9, <1>10, <1>11, <1>12, <1>13, <1>14

LEMMA PushTarget ==
  ASSUME TypeOK, RequestsInv, NEW h \in Handlers
  PROVE  /\ At(h, {"apply"}, "quota") \/ At(h, {"apply"}, "groups") => Request(h).target \in Nat
         /\ At(h, {"apply"}, "backup") => Request(h).target \in BOOLEAN
<1> DbOK BY DEF TypeOK
<1>1. hs[h].op = "apply" => hs[h].id \in DOMAIN db.requests BY DEF RequestsInv
<1> QED BY <1>1, RequestIs DEF RequestsInv, Resizes, Request, At

LEMMA GitStep ==
  ASSUME TypeOK, RequestsInv, [Next]_vars
  PROVE  GitOK'
<1> GitOK /\ SessionsOK BY DEF TypeOK
<1>0. ASSUME git' = git PROVE GitOK' BY <1>0 DEF GitOK
<1>1. CASE UNCHANGED vars BY <1>0, <1>1 DEF vars, state
<1>2. CASE Environment
  <2>1. CASE CleanUp
    <3>1. PICK parts : git' = [git EXCEPT !.manifest = IF "cluster" \in parts THEN None ELSE @,
                                          !.mgmt = IF "mgmt" \in parts THEN None ELSE @,
                                          !.backup = @ /\ "backup" \notin parts]
      BY <2>1 DEF CleanUp
    <3> DEFINE manifest == IF "cluster" \in parts THEN None ELSE git.manifest
               mgmt == IF "mgmt" \in parts THEN None ELSE git.mgmt
    <3>2. PICK backup \in BOOLEAN : backup = (git.backup /\ "backup" \notin parts) OBVIOUS
    <3>3. git' = [git EXCEPT !.manifest = manifest, !.mgmt = mgmt, !.backup = backup]
      BY <3>1, <3>2 DEF GitOK
    <3>4. manifest \in Manifest \cup {None} /\ mgmt \in OpenstackProject \cup {None} BY DEF GitOK
    <3> HIDE DEF manifest, mgmt
    <3> QED BY <3>3, <3>4 DEF GitOK
  <2>2. CASE Sync
    <3>1. PICK late : git' = [git EXCEPT !.applied = (@ \cap late) \cup (Declared \ late)] BY <2>2 DEF Sync
    <3>2. (git.applied \cap late) \cup (Declared \ late) \in SUBSET {"cluster", "mgmt", "backup"}
      BY DEF GitOK, Declared
    <3> QED BY <3>1, <3>2 DEF GitOK
  <2>3. CASE Preview \/ Approve \/ Work BY <1>0, <2>3 DEF Preview, Approve, Work, Rest
  <2> QED BY <1>2, <2>1, <2>2, <2>3 DEF Environment
<1> SUFFICES ASSUME NEW h \in Handlers,
                    \/ CreateSteps(h) \/ EditSteps(h) \/ GrantSteps(h) \/ DecommissionSteps(h)
                    \/ IssueSteps(h) \/ RevokeSteps(h) \/ RemoveSteps(h) \/ RequestSteps(h)
                    \/ RepoSteps(h) \/ Ends(h) \/ Instant(h) \/ LoseSession(h)
             PROVE  GitOK'
  BY <1>1, <1>2, NextCases
<1>3. CASE CreateSteps(h)
  <2>1. hs[h].op = "create" => Project(Event(h)) \in OpenstackProject /\ Document(Event(h)) \in Manifest
    BY EventIs, ProjectIs DEF Wellformed
  <2>2. CASE WriteProject(h) BY <2>1, <2>2 DEF WriteProject, At, GitOK
  <2>3. CASE AdoptProject(h)
    <3>1. git' = [git EXCEPT !.mgmt = [git.mgmt EXCEPT !.readers = {}]] /\ git.mgmt # None
      BY <2>3 DEF AdoptProject
    <3>2. [git.mgmt EXCEPT !.readers = {}] \in OpenstackProject BY <3>1 DEF GitOK, OpenstackProject
    <3> QED BY <3>1, <3>2 DEF GitOK
  <2>4. CASE WriteManifest(h) BY <2>1, <2>4 DEF WriteManifest, At, GitOK
  <2>5. CASE StartCreate(h) \/ CommitCreate(h) BY <1>0, <2>5 DEF StartCreate, CommitCreate
  <2> QED BY <1>3, <2>2, <2>3, <2>4, <2>5 DEF CreateSteps
<1>4. CASE EditSteps(h)
  <2>1. CASE PushAlias(h)
    <3>1. git' = [git EXCEPT !.manifest = [git.manifest EXCEPT !.alias = Event(h).alias]] /\ git.manifest # None
      BY <2>1 DEF PushAlias
    <3>2. Event(h).alias \in Aliases BY <2>1, EventIs DEF PushAlias, At, Wellformed
    <3>3. [git.manifest EXCEPT !.alias = Event(h).alias] \in Manifest BY <3>1, <3>2 DEF GitOK, Manifest
    <3> QED BY <3>1, <3>3 DEF GitOK
  <2>2. CASE ~PushAlias(h) BY <1>0, <1>4, <2>2 DEF EditSteps, StartEdit, StartAlias, CommitEdit
  <2> QED BY <2>1, <2>2
<1>5. CASE GrantSteps(h)
  <2>1. CASE PushAdmins(h)
    <3>1. git' = IF git.mgmt = None THEN git ELSE [git EXCEPT !.mgmt = [git.mgmt EXCEPT !.readers = hs[h].set]]
      BY <2>1 DEF PushAdmins
    <3>2. hs[h].set \in SUBSET Users BY <2>1 DEF PushAdmins, At, SessionsOK, IsSession
    <3>3. CASE git.mgmt = None BY <1>0, <3>1, <3>3
    <3>4. CASE git.mgmt # None
      <4>1. [git.mgmt EXCEPT !.readers = hs[h].set] \in OpenstackProject BY <3>2, <3>4 DEF GitOK, OpenstackProject
      <4> QED BY <3>1, <3>4, <4>1 DEF GitOK
    <3> QED BY <3>3, <3>4
  <2>2. CASE ~PushAdmins(h) BY <1>0, <1>5, <2>2 DEF GrantSteps, StartGrant, ReadAdmins, CommitGrant
  <2> QED BY <2>1, <2>2
<1>6. CASE RequestSteps(h)
  <2>1. CASE PushQuota(h)
    <3>1. git' = [git EXCEPT !.mgmt = [git.mgmt EXCEPT !.quota = Quota(Request(h).target)]] /\ git.mgmt # None
      BY <2>1 DEF PushQuota
    <3>2. Quota(Request(h).target) \in Quotas BY <2>1, PushTarget, QuotaIs DEF PushQuota
    <3>3. [git.mgmt EXCEPT !.quota = Quota(Request(h).target)] \in OpenstackProject
      BY <3>1, <3>2 DEF GitOK, OpenstackProject
    <3> QED BY <3>1, <3>3 DEF GitOK
  <2>2. CASE PushGroups(h)
    <3>1. git' = [git EXCEPT !.manifest = [git.manifest EXCEPT !.groups = Request(h).target]] /\ git.manifest # None
      BY <2>2 DEF PushGroups
    <3>2. Request(h).target \in Nat BY <2>2, PushTarget DEF PushGroups
    <3>3. [git.manifest EXCEPT !.groups = Request(h).target] \in Manifest BY <3>1, <3>2 DEF GitOK, Manifest
    <3> QED BY <3>1, <3>3 DEF GitOK
  <2>3. CASE PushBackup(h)
    <3>1. PICK backup \in BOOLEAN : backup = Request(h).target BY <2>3, PushTarget DEF PushBackup
    <3>2. git' = [git EXCEPT !.backup = backup] BY <2>3, <3>1 DEF PushBackup
    <3> QED BY <3>2 DEF GitOK
  <2>4. CASE ~PushQuota(h) /\ ~PushGroups(h) /\ ~PushBackup(h)
    BY <1>0, <1>6, <2>4 DEF RequestSteps, StartRequest, InsertRequest, StartApply, CommitApply, StartDeny, CommitDeny
  <2> QED BY <2>1, <2>2, <2>3, <2>4
<1>7. CASE DecommissionSteps(h) BY <1>0, <1>7, DecommissionFrame
<1>8. CASE IssueSteps(h) BY <1>0, <1>8, IssueFrame
<1>9. CASE RevokeSteps(h) BY <1>0, <1>9, RevokeFrame
<1>10. CASE RemoveSteps(h) BY <1>0, <1>10, RemoveFrame
<1>11. CASE RepoSteps(h) BY <1>0, <1>11, RepoFrame
<1>12. CASE Ends(h) BY <1>0, <1>12, EndFrame
<1>13. CASE Instant(h) BY <1>0, <1>13, InstantFrame
<1>14. CASE LoseSession(h) BY <1>0, <1>14, LoseFrame
<1> QED BY <1>3, <1>4, <1>5, <1>6, <1>7, <1>8, <1>9, <1>10, <1>11, <1>12, <1>13, <1>14

LEMMA RepositoryPinned ==
  ASSUME NEW repo \in RepositoryRow, NEW pin \in Nat, NEW valid \in BOOLEAN, NEW named \in BOOLEAN
  PROVE  /\ [repo EXCEPT !.pin = pin, !.named = named, !.version = @ + 1, !.valid = valid] \in RepositoryRow
         /\ [repo EXCEPT !.pin = pin, !.version = @ + 1, !.valid = valid] \in RepositoryRow
         /\ [repo EXCEPT !.valid = valid] \in RepositoryRow
<1>1. PICK version \in Nat : version = repo.version + 1 BY DEF RepositoryRow
<1>2. /\ [repo EXCEPT !.pin = pin, !.named = named, !.version = version, !.valid = valid] \in RepositoryRow
      /\ [repo EXCEPT !.pin = pin, !.version = version, !.valid = valid] \in RepositoryRow
      /\ [repo EXCEPT !.valid = valid] \in RepositoryRow
  BY DEF RepositoryRow
<1> QED BY <1>1, <1>2 DEF RepositoryRow

\* An operation that becomes superseded, ends, or is approved.
LEMMA OperationIs ==
  ASSUME NEW op \in GitOpsOperation,
         NEW status \in {"queued", "running", "preview_ready", "superseded", "succeeded", "failed"}
  PROVE  /\ [op EXCEPT !.status = status] \in GitOpsOperation
         /\ [op EXCEPT !.kind = "publish", !.status = status] \in GitOpsOperation
BY DEF GitOpsOperation

Superseding(ops) ==
  [o \in DOMAIN ops |-> IF ops[o].status = "preview_ready" THEN [ops[o] EXCEPT !.status = "superseded"] ELSE ops[o]]

LEMMA SupersedingIs ==
  ASSUME NEW ops \in Seq(GitOpsOperation)
  PROVE  /\ Superseding(ops) \in Seq(GitOpsOperation)
         /\ DOMAIN Superseding(ops) = DOMAIN ops /\ Len(Superseding(ops)) = Len(ops)
<1> DEFINE new == Superseding(ops)
<1>1. DOMAIN ops = 1..Len(ops) /\ Len(ops) \in Nat OBVIOUS
<1>2. ASSUME NEW o \in 1..Len(ops) PROVE new[o] \in GitOpsOperation
  <2>1. ops[o] \in GitOpsOperation OBVIOUS
  <2>2. [ops[o] EXCEPT !.status = "superseded"] \in GitOpsOperation BY <2>1, OperationIs
  <2> QED BY <1>1, <2>1, <2>2 DEF Superseding
<1>3. DOMAIN new = 1..Len(ops) /\ new = [o \in 1..Len(ops) |-> new[o]] BY <1>1 DEF Superseding
<1> HIDE DEF new
<1>4. new \in Seq(GitOpsOperation) BY <1>1, <1>2, <1>3, IsASeq
<1>5. Len(new) = Len(ops) BY <1>1, <1>3, <1>4, LenProperties
<1> QED BY <1>1, <1>3, <1>4, <1>5 DEF new

LEMMA NewRepoIs ==
  ASSUME TypeOK, NEW e \in todo, e.op = "url"
  PROVE  NewRepo(e.url, Version + 1) \in RepositoryRow
<1> StoreOK /\ SessionsOK BY DEF TypeOK
<1>1. e.url \in Urls BY PlanAssumption DEF SessionsOK, Wellformed
<1>2. Version + 1 \in Nat BY DEF Version, StoreOK, RepositoryRow
<1>3. PICK no \in BOOLEAN, version \in Nat : no = FALSE /\ version = Version + 1 BY <1>2
<1>4. [url |-> e.url, pin |-> 0, named |-> no, version |-> version, valid |-> no] \in RepositoryRow
  BY <1>1 DEF RepositoryRow
<1> QED BY <1>3, <1>4 DEF NewRepo

LEMMA StoreStep ==
  ASSUME TypeOK, RepoInv, [Next]_vars
  PROVE  StoreOK'
<1> StoreOK /\ SessionsOK BY DEF TypeOK
<1> store.ops \in Seq(GitOpsOperation) BY DEF StoreOK
<1>0. ASSUME store' = store PROVE StoreOK' BY <1>0 DEF StoreOK
<1>1. CASE UNCHANGED vars BY <1>0, <1>1 DEF vars, state
<1>2. CASE Environment
  <2>1. CASE CleanUp \/ Sync BY <1>0, <2>1 DEF CleanUp, Sync, Kept
  <2>2. CASE Preview
    <3> DEFINE op == Operation("preview", "queued")
               ops == Append(Superseding(store.ops), op)
    <3>1. store' = [store EXCEPT !.ops = ops] BY <2>2 DEF Preview, Superseding
    <3>2. store.repo # None BY <2>2 DEF Preview
    <3>3. op \in GitOpsOperation BY <3>2 DEF Operation, GitOpsOperation, StoreOK, RepositoryRow
    <3> HIDE DEF op
    <3>4. ops \in Seq(GitOpsOperation) BY <3>3, SupersedingIs, AppendProperties
    <3> HIDE DEF ops
    <3> QED BY <3>1, <3>4 DEF StoreOK
  <2>3. CASE Approve
    <3>1. PICK o \in DOMAIN store.ops :
            store' = [store EXCEPT !.ops[o].kind = "publish", !.ops[o].status = "queued"]
      BY <2>3 DEF Approve
    <3> DEFINE op == [store.ops[o] EXCEPT !.kind = "publish", !.status = "queued"]
               ops == [store.ops EXCEPT ![o] = op]
    <3>2. op \in GitOpsOperation
      <4>1. store.ops[o] \in GitOpsOperation OBVIOUS
      <4> QED BY <4>1, OperationIs
    <3>3. store' = [store EXCEPT !.ops = ops] BY <3>1 DEF StoreOK
    <3> HIDE DEF op
    <3>4. ops \in Seq(GitOpsOperation) BY <3>2, ExceptSeq
    <3> HIDE DEF ops
    <3> QED BY <3>3, <3>4 DEF StoreOK
  <2>4. CASE Work
    <3>1. PICK o \in DOMAIN store.ops, status \in {"succeeded", "failed", "preview_ready"} :
            store' = [store EXCEPT !.ops[o].status = status]
      BY <2>4 DEF Work, Ended
    <3> DEFINE op == [store.ops[o] EXCEPT !.status = status]
               ops == [store.ops EXCEPT ![o] = op]
    <3>2. op \in GitOpsOperation
      <4>1. store.ops[o] \in GitOpsOperation OBVIOUS
      <4> QED BY <4>1, OperationIs
    <3>3. store' = [store EXCEPT !.ops = ops] BY <3>1
    <3> HIDE DEF op
    <3>4. ops \in Seq(GitOpsOperation) BY <3>2, ExceptSeq
    <3> HIDE DEF ops
    <3> QED BY <3>3, <3>4 DEF StoreOK
  <2> QED BY <1>2, <2>1, <2>2, <2>3, <2>4 DEF Environment
<1> SUFFICES ASSUME NEW h \in Handlers,
                    \/ CreateSteps(h) \/ EditSteps(h) \/ GrantSteps(h) \/ DecommissionSteps(h)
                    \/ IssueSteps(h) \/ RevokeSteps(h) \/ RemoveSteps(h) \/ RequestSteps(h)
                    \/ RepoSteps(h) \/ Ends(h) \/ Instant(h) \/ LoseSession(h)
             PROVE  StoreOK'
  BY <1>1, <1>2, NextCases
<1>3. CASE RepoSteps(h)
  <2>1. CASE WriteSecret(h)
    <3>1. store' = [store EXCEPT !.vault = Append(store.vault, hs[h].saw)] /\ hs[h].op = "replace"
      BY <2>1 DEF WriteSecret, At
    <3>2. hs[h].saw \in Urls BY <3>1 DEF SessionsOK, IsSession
    <3>3. Append(store.vault, hs[h].saw) \in Seq(Urls \cup {None}) BY <3>2, AppendProperties DEF StoreOK
    <3> QED BY <3>1, <3>3 DEF StoreOK
  <2>2. CASE CommitReplace(h)
    <3>1. store' = [store EXCEPT !.repo = Pinned(store.repo, hs[h].id + 1)] /\ On(h, {"replace", "validate"})
      BY <2>2 DEF CommitReplace, Commit, At, On
    <3>2. hs[h].id + 1 \in Nat BY DEF SessionsOK, IsSession
    <3>3. store.repo \in RepositoryRow BY <3>1 DEF RepoInv, StoreOK
    <3>4. Pinned(store.repo, hs[h].id + 1) \in RepositoryRow
      <4>1. PICK no, yes \in BOOLEAN : no = FALSE /\ yes = TRUE OBVIOUS
      <4>2. [store.repo EXCEPT !.pin = hs[h].id + 1, !.named = yes, !.version = @ + 1, !.valid = no] \in RepositoryRow
        BY <3>2, <3>3, RepositoryPinned
      <4> QED BY <4>1, <4>2 DEF Pinned
    <3> QED BY <3>1, <3>4 DEF StoreOK
  <2>3. CASE CommitValidate(h)
    <3>1. PICK valid \in BOOLEAN : store' = [store EXCEPT !.repo = Validated(store.repo, hs[h].id, valid)]
      BY <2>3 DEF CommitValidate
    <3>2. On(h, {"replace", "validate"}) /\ hs[h].id \in Nat
      BY <2>3 DEF CommitValidate, Commit, At, On, SessionsOK, IsSession
    <3>3. store.repo \in RepositoryRow BY <3>2 DEF RepoInv, StoreOK
    <3>4. PICK yes \in BOOLEAN : yes = TRUE OBVIOUS
    <3>5. [store.repo EXCEPT !.pin = hs[h].id, !.version = @ + 1, !.valid = yes] \in RepositoryRow
      BY <3>2, <3>3, RepositoryPinned
    <3>6. [store.repo EXCEPT !.valid = valid] \in RepositoryRow
      BY <3>2, <3>3, RepositoryPinned
    <3>7. Validated(store.repo, hs[h].id, valid) \in RepositoryRow
      BY <3>4, <3>5, <3>6 DEF Validated
    <3> QED BY <3>1, <3>7 DEF StoreOK
  <2>4. CASE StartReplace(h) \/ ReadLatest(h) \/ StartValidate(h)
    BY <1>0, <2>4 DEF StartReplace, ReadLatest, StartValidate
  <2> QED BY <1>3, <2>1, <2>2, <2>3, <2>4 DEF RepoSteps
<1>4. CASE Instant(h)
  <2>1. CASE Provision(h) BY <1>0, <2>1 DEF Provision, Kept
  <2>2. CASE SaveRepository(h)
    <3>1. PICK e \in todo : e.op = "url" /\ store' = [store EXCEPT !.repo = NewRepo(e.url, Version + 1)]
      BY <2>2 DEF SaveRepository, Wanted
    <3>2. NewRepo(e.url, Version + 1) \in RepositoryRow BY <3>1, NewRepoIs
    <3> QED BY <3>1, <3>2 DEF StoreOK
  <2> QED BY <1>4, <2>1, <2>2 DEF Instant
<1>5. CASE DecommissionSteps(h)
  <2>1. CASE CommitDecommission(h)
    <3>1. store' = [store EXCEPT !.ops = Superseding(store.ops)] BY <2>1 DEF CommitDecommission, Superseding
    <3> QED BY <3>1, SupersedingIs DEF StoreOK
  <2>2. CASE ~CommitDecommission(h)
    BY <1>0, <1>5, <2>2 DEF DecommissionSteps, StartDecommission, FindGone, FindProjectsGone, Kept
  <2> QED BY <2>1, <2>2
<1>6. CASE CreateSteps(h) BY <1>0, <1>6, CreateFrame
<1>7. CASE EditSteps(h) BY <1>0, <1>7, EditFrame
<1>8. CASE GrantSteps(h) BY <1>0, <1>8, GrantFrame
<1>9. CASE IssueSteps(h) BY <1>0, <1>9, IssueFrame
<1>10. CASE RevokeSteps(h) BY <1>0, <1>10, RevokeFrame
<1>11. CASE RemoveSteps(h) BY <1>0, <1>11, RemoveFrame
<1>12. CASE RequestSteps(h) BY <1>0, <1>12, RequestFrame
<1>13. CASE Ends(h) BY <1>0, <1>13, EndFrame
<1>14. CASE LoseSession(h) BY <1>0, <1>14, LoseFrame
<1> QED BY <1>3, <1>4, <1>5, <1>6, <1>7, <1>8, <1>9, <1>10, <1>11, <1>12, <1>13, <1>14

LEMMA BindingsStep ==
  ASSUME TypeOK, [Next]_vars
  PROVE  bindings' \subseteq Binding /\ faults' \in Nat
<1> SessionsOK /\ bindings \subseteq Binding /\ faults \in Nat BY DEF TypeOK
<1>1. CASE UNCHANGED vars BY <1>1 DEF vars, state
<1>2. CASE Environment BY <1>2, EnvironmentFrame
<1> SUFFICES ASSUME NEW h \in Handlers,
                    \/ CreateSteps(h) \/ EditSteps(h) \/ GrantSteps(h) \/ DecommissionSteps(h)
                    \/ IssueSteps(h) \/ RevokeSteps(h) \/ RemoveSteps(h) \/ RequestSteps(h)
                    \/ RepoSteps(h) \/ Ends(h) \/ Instant(h) \/ LoseSession(h)
             PROVE  bindings' \subseteq Binding /\ faults' \in Nat
  BY <1>1, <1>2, NextCases
<1>3. CASE IssueSteps(h)
  <2>1. CASE CreateBinding(h)
    <3>1. bindings' = bindings \cup {[id |-> hs[h].id, user |-> Event(h).by]} /\ hs[h].op \in {"issue", "rotate"}
      BY <2>1 DEF CreateBinding, At
    <3>2. hs[h].id \in Creds /\ Event(h).by \in Users
      BY <3>1, EventIs DEF SessionsOK, IsSession, Wellformed
    <3> QED BY <1>3, <3>1, <3>2, IssueFrame DEF Binding
  <2>2. CASE ~CreateBinding(h)
    BY <1>3, <2>2, IssueFrame DEF IssueSteps, StartIssue, StartRotate, CommitIssue
  <2> QED BY <2>1, <2>2
<1>4. CASE RevokeSteps(h) BY <1>4, RevokeFrame DEF RevokeSteps, StartRevoke, DeleteBinding, CommitRevoke
<1>5. CASE RemoveSteps(h)
  <2>1. bindings' \subseteq bindings
    BY <1>5 DEF RemoveSteps, StartRemove, ListBindings, DeleteListed, MarkRows, CascadeFails, CommitRemove
  <2>2. faults' \in {faults, faults + 1}
    BY <1>5 DEF RemoveSteps, StartRemove, ListBindings, DeleteListed, MarkRows, CascadeFails, CommitRemove, NotGit
  <2> QED BY <2>1, <2>2
<1>6. CASE CreateSteps(h) BY <1>6, CreateFrame
<1>7. CASE EditSteps(h) BY <1>7, EditFrame
<1>8. CASE GrantSteps(h) BY <1>8, GrantFrame
<1>9. CASE DecommissionSteps(h) BY <1>9, DecommissionFrame
<1>10. CASE RequestSteps(h) BY <1>10, RequestFrame
<1>11. CASE RepoSteps(h) BY <1>11, RepoFrame
<1>12. CASE Ends(h) BY <1>12, EndFrame DEF Ends, Refuse, Fail
<1>13. CASE Instant(h) BY <1>13, InstantFrame DEF Instant, Provision, SaveRepository, Kept, Rest
<1>14. CASE LoseSession(h)
  <2>1. faults' = faults + 1 /\ bindings' = bindings BY <1>14 DEF LoseSession, state
  <2> QED BY <2>1
<1> QED BY <1>3, <1>4, <1>5, <1>6, <1>7, <1>8, <1>9, <1>10, <1>11, <1>12, <1>13, <1>14

LEMMA SeenStep ==
  ASSUME TypeOK, RequestsInv, [Next]_vars
  PROVE  SeenOK'
<1> SessionsOK /\ SeenOK /\ DbOK BY DEF TypeOK
<1>0. ASSUME seen' = seen PROVE SeenOK' BY <1>0 DEF SeenOK
<1>1. CASE UNCHANGED vars BY <1>0, <1>1 DEF vars
<1>2. CASE Environment BY <1>0, <1>2, EnvironmentFrame
<1> SUFFICES ASSUME NEW h \in Handlers,
                    \/ CreateSteps(h) \/ EditSteps(h) \/ GrantSteps(h) \/ DecommissionSteps(h)
                    \/ IssueSteps(h) \/ RevokeSteps(h) \/ RemoveSteps(h) \/ RequestSteps(h)
                    \/ RepoSteps(h) \/ Ends(h) \/ Instant(h) \/ LoseSession(h)
             PROVE  SeenOK'
  BY <1>1, <1>2, NextCases
<1>3. CASE CreateSteps(h)
  <2>1. ASSUME WrittenLate PROVE SeenOK'
    <3>1. PICK late \in BOOLEAN : late = (seen.late \/ db.row.state # "none") OBVIOUS
    <3>2. seen' = [seen EXCEPT !.late = late] BY <2>1, <3>1 DEF WrittenLate
    <3> QED BY <3>2 DEF SeenOK
  <2> QED BY <1>0, <1>3, <2>1 DEF CreateSteps, StartCreate, WriteProject, AdoptProject, WriteManifest, CommitCreate
<1>4. CASE GrantSteps(h)
  <2>1. CASE PushAdmins(h)
    <3>1. hs[h].set \subseteq Users BY <2>1 DEF PushAdmins, At, SessionsOK, IsSession
    <3>2. PICK readers \in SUBSET Users : seen' = [seen EXCEPT !.readers = readers]
      <4>1. seen.readers \subseteq Users BY DEF SeenOK
      <4>2. seen' = [seen EXCEPT !.readers = IF git.mgmt = None THEN seen.readers ELSE IF hs[h].lost THEN hs[h].set
                                       ELSE hs[h].set \ Admins(db.access)]
        BY <2>1 DEF PushAdmins
      <4> QED BY <3>1, <4>1, <4>2
    <3> QED BY <3>2 DEF SeenOK
  <2>2. CASE CommitGrant(h)
    <3>1. seen' = [seen EXCEPT !.readers = seen.readers \ Admins(AccessAfter(Event(h)))]
      BY <2>2 DEF CommitGrant
    <3> QED BY <3>1 DEF SeenOK
  <2>3. CASE StartGrant(h) \/ ReadAdmins(h) BY <1>0, <2>3 DEF StartGrant, ReadAdmins
  <2> QED BY <1>4, <2>1, <2>2, <2>3 DEF GrantSteps
<1>5. CASE IssueSteps(h)
  <2>1. CASE CreateBinding(h)
    <3>1. hs[h].id \in Creds BY <2>1 DEF CreateBinding, At, SessionsOK, IsSession
    <3>2. seen' = [seen EXCEPT !.strays = seen.strays \cup (IF hs[h].lost THEN {hs[h].id} ELSE {})]
      BY <2>1 DEF CreateBinding
    <3>3. PICK strays \in SUBSET Creds : seen' = [seen EXCEPT !.strays = strays]
      BY <3>1, <3>2 DEF SeenOK
    <3> QED BY <3>3 DEF SeenOK
  <2>2. CASE ~CreateBinding(h)
    BY <1>0, <1>5, <2>2 DEF IssueSteps, StartIssue, StartRotate, CommitIssue
  <2> QED BY <2>1, <2>2
<1>6. CASE RemoveSteps(h)
  <2>1. CASE CascadeFails(h)
    <3>1. {b.id : b \in {b \in bindings : b.user = Event(h).user}} \subseteq Creds BY DEF TypeOK, Binding
    <3>2. PICK more \in SUBSET Creds : seen' = [seen EXCEPT !.strays = seen.strays \cup more]
      BY <2>1, <3>1 DEF CascadeFails
    <3> QED BY <3>2 DEF SeenOK
  <2>2. CASE ~CascadeFails(h)
    BY <1>0, <1>6, <2>2 DEF RemoveSteps, StartRemove, ListBindings, DeleteListed, MarkRows, CommitRemove
  <2> QED BY <2>1, <2>2
<1>7. CASE RequestSteps(h)
  <2>1. CASE StartApply(h)
    <3>1. PICK r \in DOMAIN db.requests :
            seen' = IF db.requests[r].type = "resize"
                      THEN [seen EXCEPT !.target = db.requests[r].target,
                                        !.overtaken = seen.overtaken \/ Overtakes(h, db.requests[r].target)]
                      ELSE seen
      BY <2>1 DEF StartApply
    <3>2. CASE db.requests[r].type = "resize"
      <4>1. PICK overtaken \in BOOLEAN : overtaken = (seen.overtaken \/ Overtakes(h, db.requests[r].target)) OBVIOUS
      <4>2. PICK target \in Nat : target = db.requests[r].target BY <3>2, RequestIs
      <4>3. seen' = [seen EXCEPT !.target = target, !.overtaken = overtaken] BY <3>1, <3>2, <4>1, <4>2
      <4> QED BY <4>3 DEF SeenOK
    <3> QED BY <1>0, <3>1, <3>2
  <2>2. CASE ~StartApply(h)
    BY <1>0, <1>7, <2>2 DEF RequestSteps, StartRequest, InsertRequest, PushQuota, PushGroups, PushBackup, CommitApply, StartDeny, CommitDeny
  <2> QED BY <2>1, <2>2
<1>8. CASE EditSteps(h) BY <1>0, <1>8, EditFrame
<1>9. CASE DecommissionSteps(h) BY <1>0, <1>9, DecommissionFrame
<1>10. CASE RevokeSteps(h) BY <1>0, <1>10, RevokeFrame
<1>11. CASE RepoSteps(h) BY <1>0, <1>11, RepoFrame
<1>12. CASE Ends(h) BY <1>0, <1>12, EndFrame
<1>13. CASE Instant(h) BY <1>0, <1>13, InstantFrame
<1>14. CASE LoseSession(h) BY <1>0, <1>14, LoseFrame
<1> QED BY <1>3, <1>4, <1>5, <1>6, <1>7, <1>8, <1>9, <1>10, <1>11, <1>12, <1>13, <1>14

------------------------------------------------------------------------------
\* What a request asks for stays, whatever becomes of it.
LEMMA RequestsKept ==
  ASSUME TypeOK, RequestsInv, [Next]_vars
  PROVE  /\ DOMAIN db.requests \subseteq DOMAIN db'.requests
         /\ \A r \in DOMAIN db.requests : /\ db'.requests[r].type = db.requests[r].type
                                          /\ db'.requests[r].target = db.requests[r].target
<1> DEFINE Kept1 == /\ DOMAIN db.requests \subseteq DOMAIN db'.requests
                    /\ \A r \in DOMAIN db.requests : /\ db'.requests[r].type = db.requests[r].type
                                                     /\ db'.requests[r].target = db.requests[r].target
<1> SUFFICES Kept1 OBVIOUS
<1> DbOK /\ SessionsOK BY DEF TypeOK
<1>0. ASSUME db'.requests = db.requests PROVE Kept1 BY <1>0
<1>1. CASE UNCHANGED vars BY <1>1 DEF vars, state
<1>2. CASE Environment BY <1>2, EnvironmentFrame
<1> SUFFICES ASSUME NEW h \in Handlers,
                    \/ CreateSteps(h) \/ EditSteps(h) \/ GrantSteps(h) \/ DecommissionSteps(h)
                    \/ IssueSteps(h) \/ RevokeSteps(h) \/ RemoveSteps(h) \/ RequestSteps(h)
                    \/ RepoSteps(h) \/ Ends(h) \/ Instant(h) \/ LoseSession(h)
             PROVE  Kept1
  BY <1>1, <1>2, NextCases
<1> HIDE DEF Kept1
<1>3. CASE CreateSteps(h)
  BY <1>0, <1>3 DEF CreateSteps, StartCreate, WriteProject, AdoptProject, WriteManifest, CommitCreate, DbOK
<1>4. CASE EditSteps(h)
  BY <1>0, <1>4 DEF EditSteps, StartEdit, StartAlias, PushAlias, CommitEdit, DbOK
<1>5. CASE GrantSteps(h)
  BY <1>0, <1>5 DEF GrantSteps, StartGrant, ReadAdmins, PushAdmins, CommitGrant, DbOK
<1>6. CASE DecommissionSteps(h)
  <2>1. CASE CommitDecommission(h)
    <3> DEFINE requests == [r \in DOMAIN db.requests |->
                              IF db.requests[r].status = "pending" THEN [db.requests[r] EXCEPT !.status = "denied"]
                                                                   ELSE db.requests[r]]
    <3>1. db'.requests = requests BY <2>1 DEF CommitDecommission, DbOK
    <3>2. \A r \in DOMAIN db.requests : requests[r].type = db.requests[r].type /\ requests[r].target = db.requests[r].target
      BY RequestIs DEF ChangeRequest
    <3>3. DOMAIN requests = DOMAIN db.requests OBVIOUS
    <3> HIDE DEF requests
    <3> QED BY <3>1, <3>2, <3>3 DEF Kept1
  <2>2. CASE ~CommitDecommission(h)
    BY <1>0, <1>6, <2>2 DEF DecommissionSteps, StartDecommission, FindGone, FindProjectsGone
  <2> QED BY <2>1, <2>2
<1>7. CASE IssueSteps(h)
  BY <1>0, <1>7 DEF IssueSteps, StartIssue, StartRotate, CreateBinding, CommitIssue, DbOK
<1>8. CASE RevokeSteps(h)
  BY <1>0, <1>8 DEF RevokeSteps, StartRevoke, DeleteBinding, CommitRevoke, DbOK
<1>9. CASE RemoveSteps(h)
  BY <1>0, <1>9 DEF RemoveSteps, StartRemove, ListBindings, DeleteListed, MarkRows, CascadeFails, CommitRemove, DbOK
<1>10. CASE RequestSteps(h)
  <2>1. CASE InsertRequest(h)
    <3>1. PICK new : db' = [db EXCEPT !.requests = Append(db.requests, new)] BY <2>1 DEF InsertRequest
    <3>2. db'.requests = Append(db.requests, new) BY <3>1 DEF DbOK
    <3> QED BY <3>2, AppendProperties DEF Kept1, DbOK
  <2>2. CASE CommitApply(h)
    <3> DEFINE r == hs[h].id
               request == db.requests[r]
    <3>1. PICK before : db'.requests = [db.requests EXCEPT ![r] = [request EXCEPT !.status = "applied", !.before = before]]
      BY <2>2 DEF CommitApply, Request, DbOK
    <3>2. r \in DOMAIN db.requests BY <2>2 DEF RequestsInv, CommitApply, At
    <3>3. request \in ChangeRequest BY <3>2, RequestIs
    <3> DEFINE new == [request EXCEPT !.status = "applied", !.before = before]
    <3>4. new.type = request.type /\ new.target = request.target BY <3>3 DEF ChangeRequest
    <3> HIDE DEF r, new
    <3>5. db'.requests = [db.requests EXCEPT ![r] = new] BY <3>1 DEF new
    <3> QED BY <3>2, <3>4, <3>5 DEF Kept1
  <2>3. CASE CommitDeny(h)
    <3> DEFINE r == hs[h].id
               request == db.requests[r]
               new == [request EXCEPT !.status = "denied"]
    <3>1. db'.requests = [db.requests EXCEPT ![r] = new] BY <2>3 DEF CommitDeny, DbOK
    <3>2. r \in DOMAIN db.requests BY <2>3 DEF RequestsInv, CommitDeny, At
    <3>3. request \in ChangeRequest BY <3>2, RequestIs
    <3>4. new.type = request.type /\ new.target = request.target BY <3>3 DEF ChangeRequest
    <3> HIDE DEF r, new
    <3> QED BY <3>1, <3>2, <3>4 DEF Kept1
  <2>4. CASE ~InsertRequest(h) /\ ~CommitApply(h) /\ ~CommitDeny(h)
    BY <1>0, <1>10, <2>4 DEF RequestSteps, StartRequest, StartApply, PushQuota, PushGroups, PushBackup, StartDeny
  <2> QED BY <2>1, <2>2, <2>3, <2>4
<1>11. CASE RepoSteps(h) BY <1>0, <1>11, RepoFrame
<1>12. CASE Ends(h) BY <1>0, <1>12, EndFrame
<1>13. CASE Instant(h) BY <1>0, <1>13 DEF Instant, Provision, SaveRepository, Rest, DbOK
<1>14. CASE LoseSession(h)
  <2>1. db' = db BY <1>14 DEF LoseSession, state
  <2> QED BY <1>0, <2>1
<1> QED BY <1>3, <1>4, <1>5, <1>6, <1>7, <1>8, <1>9, <1>10, <1>11, <1>12, <1>13, <1>14

\* What a handler of a change request knows of it.
KnowsRequest(s, requests) ==
  /\ s.op \in {"apply", "deny"} => s.id \in DOMAIN requests
  /\ s.op = "apply" /\ s.step \in {"quota", "groups"} => requests[s.id].type = "resize"
  /\ s.op = "apply" /\ s.step = "backup" => requests[s.id].type = "backup"

LEMMA RequestsStep ==
  ASSUME TypeOK, RequestsInv, [Next]_vars, SessionsOK'
  PROVE  RequestsInv'
<1> DbOK /\ SessionsOK BY DEF TypeOK
<1> DOMAIN hs = Handlers /\ \A g \in Handlers : IsSession(hs[g]) BY DEF SessionsOK
<1>a. \A g \in Handlers : KnowsRequest(hs[g], db.requests)
  BY DEF RequestsInv, KnowsRequest, Resizes, Request, At
<1>b. ASSUME NEW g \in Handlers, KnowsRequest(hs'[g], db.requests) PROVE KnowsRequest(hs'[g], db'.requests)
  BY <1>b, RequestsKept DEF KnowsRequest
<1> SUFFICES \A g \in Handlers : KnowsRequest(hs'[g], db.requests)
  BY <1>b DEF RequestsInv, KnowsRequest, Resizes, Request, At
<1>0. ASSUME NEW h \in Handlers, \A g \in Handlers \ {h} : hs'[g] = hs[g], KnowsRequest(hs'[h], db.requests)
      PROVE  \A g \in Handlers : KnowsRequest(hs'[g], db.requests)
  BY <1>0, <1>a
<1>1. CASE UNCHANGED vars BY <1>1, <1>a DEF vars
<1>2. CASE Environment BY <1>2, <1>a, EnvironmentFrame
<1> SUFFICES ASSUME NEW h \in Handlers,
                    \/ CreateSteps(h) \/ EditSteps(h) \/ GrantSteps(h) \/ DecommissionSteps(h)
                    \/ IssueSteps(h) \/ RevokeSteps(h) \/ RemoveSteps(h) \/ RequestSteps(h)
                    \/ RepoSteps(h) \/ Ends(h) \/ Instant(h) \/ LoseSession(h)
             PROVE  \A g \in Handlers : KnowsRequest(hs'[g], db.requests)
  BY <1>1, <1>2, NextCases
<1> IsSession(hs[h]) /\ KnowsRequest(hs[h], db.requests) BY <1>a
<1>3. CASE CreateSteps(h) BY <1>0, <1>3, CreateFrame DEF Only, KnowsRequest
<1>4. CASE EditSteps(h) BY <1>0, <1>4, EditFrame DEF Only, KnowsRequest
<1>5. CASE GrantSteps(h) BY <1>0, <1>5, GrantFrame DEF Only, KnowsRequest
<1>6. CASE DecommissionSteps(h) BY <1>0, <1>6, DecommissionFrame DEF Only, KnowsRequest
<1>7. CASE IssueSteps(h) BY <1>0, <1>7, IssueFrame DEF Only, KnowsRequest
<1>8. CASE RevokeSteps(h) BY <1>0, <1>8, RevokeFrame DEF Only, KnowsRequest
<1>9. CASE RemoveSteps(h) BY <1>0, <1>9, RemoveFrame DEF Only, KnowsRequest
<1>10. CASE RequestSteps(h)
  <2>0. \A g \in Handlers \ {h} : hs'[g] = hs[g] BY <1>10, RequestFrame DEF Only
  <2>1. CASE StartRequest(h)
    <3>1. hs'[h].op = "request" BY <2>1 DEF StartRequest, Enter, Wanted
    <3> QED BY <1>0, <2>0, <3>1 DEF KnowsRequest
  <2>2. CASE StartApply(h)
    <3>1. PICK r \in DOMAIN db.requests : hs'[h].op = "apply" /\ hs'[h].id = r /\ hs'[h].step = FirstStep(db.requests[r].type)
      BY <2>2 DEF StartApply, Enter, Wanted
    <3>2. db.requests[r].type \in {"resize", "backup", "addon"} BY RequestIs
    <3> QED BY <1>0, <2>0, <3>1, <3>2 DEF KnowsRequest, FirstStep, ResizeSteps
  <2>3. CASE PushQuota(h)
    <3>1. hs'[h].op = "apply" /\ hs[h].op = "apply" /\ hs'[h].id = hs[h].id /\ hs'[h].step = "groups" /\ hs[h].step \in {"quota", "groups", "backup"}
      <4>1. Move(h, "groups") /\ hs[h].op = "apply" /\ hs[h].step \in {"quota", "groups", "backup"}
        BY <2>3 DEF PushQuota, ResizeSteps, At
      <4> QED BY <4>1, MovedFields
    <3> QED BY <1>0, <2>0, <3>1, <2>3 DEF KnowsRequest, PushQuota, At
  <2>4. CASE PushGroups(h)
    <3>1. hs'[h].op = "apply" /\ hs[h].op = "apply" /\ hs'[h].id = hs[h].id /\ hs'[h].step = "commit" /\ hs[h].step \in {"quota", "groups", "backup"}
      <4>1. Move(h, "commit") /\ hs[h].op = "apply" /\ hs[h].step \in {"quota", "groups", "backup"}
        BY <2>4 DEF PushGroups, ResizeSteps, At
      <4> QED BY <4>1, MovedFields
    <3> QED BY <1>0, <2>0, <3>1, <2>4 DEF KnowsRequest, PushGroups, At
  <2>5. CASE PushBackup(h)
    <3>1. hs'[h].op = "apply" /\ hs[h].op = "apply" /\ hs'[h].id = hs[h].id /\ hs'[h].step = "commit" /\ hs[h].step \in {"quota", "groups", "backup"}
      <4>1. Move(h, "commit") /\ hs[h].op = "apply" /\ hs[h].step \in {"quota", "groups", "backup"}
        BY <2>5 DEF PushBackup, ResizeSteps, At
      <4> QED BY <4>1, MovedFields
    <3> QED BY <1>0, <2>0, <3>1, <2>5 DEF KnowsRequest, PushBackup, At
  <2>6. CASE StartDeny(h)
    <3>1. PICK r \in DOMAIN db.requests : hs'[h].op = "deny" /\ hs'[h].id = r
      BY <2>6 DEF StartDeny, Enter, Wanted
    <3> QED BY <1>0, <2>0, <3>1 DEF KnowsRequest
  <2>7. CASE InsertRequest(h) \/ CommitApply(h) \/ CommitDeny(h)
    <3>1. hs'[h] = Idle BY <2>7, Left DEF InsertRequest, CommitApply, CommitDeny
    <3> QED BY <1>0, <2>0, <3>1 DEF KnowsRequest, Idle
  <2> QED BY <1>10, <2>1, <2>2, <2>3, <2>4, <2>5, <2>6, <2>7 DEF RequestSteps
<1>11. CASE RepoSteps(h) BY <1>0, <1>11, RepoFrame DEF Only, KnowsRequest
<1>12. CASE Ends(h) BY <1>0, <1>12, EndFrame DEF Only, KnowsRequest
<1>13. CASE Instant(h) BY <1>a, <1>13, InstantFrame
<1>14. CASE LoseSession(h) BY <1>0, <1>14, LoseFrame DEF Only, KnowsRequest
<1> QED BY <1>3, <1>4, <1>5, <1>6, <1>7, <1>8, <1>9, <1>10, <1>11, <1>12, <1>13, <1>14

------------------------------------------------------------------------------
\* The customer's repository.
Served(st, version) == version \in 1..Len(st.vault) /\ st.vault[version] \in {st.repo.url, None}
KnowsRepo(s, st) ==
  s.op \in {"replace", "validate"} /\ ~s.lost =>
    /\ st.repo # None
    /\ s.op = "replace" => s.saw = st.repo.url
    /\ s.op = "replace" /\ s.step = "commit" => s.id + 1 \in 1..Len(st.vault) /\ st.vault[s.id + 1] = s.saw
    /\ s.op = "validate" => Served(st, s.id)
PinBound(st) ==
  st.repo # None => /\ st.repo.pin # 0 => Served(st, st.repo.pin)
                    /\ st.repo.valid => st.repo.pin # 0
BindsUrl(op) == op.kind = "publish" \/ op.status \in {"queued", "running", "preview_ready"}
OpsBound(st) ==
  /\ st.repo = None => st.ops = <<>>
  /\ st.repo # None => \A o \in DOMAIN st.ops : BindsUrl(st.ops[o]) => st.ops[o].url = st.repo.url

LEMMA RepoParts ==
  RepoInv <=> PinBound(store) /\ OpsBound(store) /\ \A h \in Handlers : KnowsRepo(hs[h], store)
BY DEF RepoInv, RepositoryBound, PinBound, OpsBound, BindsUrl, KnowsRepo, On, Serves, Served, Latest

LEMMA SameStore ==
  ASSUME RepoInv, store' = store, NEW h \in Handlers, \A g \in Handlers \ {h} : hs'[g] = hs[g],
         KnowsRepo(hs'[h], store)
  PROVE  RepoInv'
<1>1. PinBound(store') /\ OpsBound(store') /\ \A g \in Handlers : KnowsRepo(hs'[g], store')
  BY RepoParts
<1> QED BY <1>1 DEF RepoInv, RepositoryBound, PinBound, OpsBound, BindsUrl, KnowsRepo, On, Serves, Served, Latest

LEMMA NewStore ==
  ASSUME PinBound(store'), OpsBound(store'), \A h \in Handlers : KnowsRepo(hs'[h], store')
  PROVE  RepoInv'
BY DEF RepoInv, RepositoryBound, PinBound, OpsBound, BindsUrl, KnowsRepo, On, Serves, Served, Latest

\* The operations change, and nothing else of the store.
LEMMA NewOps ==
  ASSUME StoreOK, RepoInv, NEW ops, store' = [store EXCEPT !.ops = ops],
         store.repo # None \/ ops = <<>>,
         \A o \in DOMAIN ops : BindsUrl(ops[o]) => ops[o].url = store.repo.url,
         \A h \in Handlers : hs'[h] = hs[h] \/ hs'[h].op \notin {"replace", "validate"}
  PROVE  RepoInv'
<1>1. store'.repo = store.repo /\ store'.vault = store.vault /\ store'.ops = ops BY DEF StoreOK
<1>2. PinBound(store) /\ OpsBound(store) /\ \A h \in Handlers : KnowsRepo(hs[h], store) BY RepoParts
<1>3. PinBound(store') BY <1>1, <1>2 DEF PinBound, Served
<1>4. OpsBound(store') BY <1>1 DEF OpsBound
<1>5. \A h \in Handlers : KnowsRepo(hs[h], store') BY <1>1, <1>2 DEF KnowsRepo, Served
<1>6. \A h \in Handlers : KnowsRepo(hs'[h], store') BY <1>5 DEF KnowsRepo
<1> QED BY <1>3, <1>4, <1>6, NewStore

LEMMA WriteSecretBound ==
  ASSUME TypeOK, RepoInv, NEW h \in Handlers, WriteSecret(h)
  PROVE  RepoInv'
<1> StoreOK /\ SessionsOK BY DEF TypeOK
<1> DOMAIN hs = Handlers /\ \A g \in Handlers : IsSession(hs[g]) BY DEF SessionsOK
<1> DEFINE s == hs[h]
<1>1. store' = [store EXCEPT !.vault = Append(store.vault, s.saw)] /\ Move(h, "commit") /\ s.id = Len(store.vault)
      /\ s.op = "replace"
  BY DEF WriteSecret, CasMatches, Latest, At
<1>2. store'.repo = store.repo /\ store'.ops = store.ops /\ store'.vault = Append(store.vault, s.saw)
  BY <1>1 DEF StoreOK
<1>3. /\ Len(store.vault) \in Nat /\ Len(store'.vault) = Len(store.vault) + 1
      /\ store'.vault[Len(store.vault) + 1] = s.saw
      /\ \A v \in 1..Len(store.vault) : store'.vault[v] = store.vault[v]
  BY <1>2, AppendProperties DEF StoreOK
<1>4. PinBound(store) /\ OpsBound(store) /\ \A g \in Handlers : KnowsRepo(hs[g], store) BY RepoParts
<1>5. PinBound(store') BY <1>2, <1>3, <1>4 DEF PinBound, Served
<1>6. OpsBound(store') BY <1>2, <1>4 DEF OpsBound
<1>7. \A g \in Handlers : KnowsRepo(hs[g], store') BY <1>2, <1>3, <1>4 DEF KnowsRepo, Served
<1>8. /\ \A g \in Handlers \ {h} : hs'[g] = hs[g]
      /\ hs'[h].op = "replace" /\ hs'[h].id = s.id /\ hs'[h].saw = s.saw /\ hs'[h].lost = s.lost
  BY <1>1, MovedFields
<1>9. KnowsRepo(hs'[h], store') BY <1>1, <1>2, <1>3, <1>4, <1>8 DEF KnowsRepo
<1>10. \A g \in Handlers : KnowsRepo(hs'[g], store') BY <1>7, <1>8, <1>9
<1> QED BY <1>5, <1>6, <1>10, NewStore

\* Whoever holds the repository's lock changes its row alone.
LEMMA NewRow ==
  ASSUME StoreOK, HoldsInv, RepoInv, NEW h \in Handlers, NEW repo,
         store' = [store EXCEPT !.repo = repo], repo # None,
         \A g \in Handlers : hs'[g] = hs[g] \/ hs'[g] = Idle,
         locks.repo = Nobody \/ (locks.repo = h /\ hs'[h] = Idle),
         PinBound(store'), OpsBound(store')
  PROVE  RepoInv'
<1>1. \A g \in Handlers : KnowsRepo(hs'[g], store')
  BY PortalAssumption DEF KnowsRepo, HoldsInv, On, RepoOps, Idle
<1> QED BY <1>1, NewStore

LEMMA CommitReplaceBound ==
  ASSUME TypeOK, HoldsInv, RepoInv, NEW h \in Handlers, CommitReplace(h)
  PROVE  RepoInv'
<1> StoreOK /\ SessionsOK BY DEF TypeOK
<1> DOMAIN hs = Handlers /\ \A g \in Handlers : IsSession(hs[g]) BY DEF SessionsOK
<1> DEFINE repo == Pinned(store.repo, hs[h].id + 1)
<1>1. /\ store' = [store EXCEPT !.repo = repo] /\ Leave(h)
      /\ hs[h].op = "replace" /\ hs[h].step = "commit" /\ ~hs[h].lost
  BY DEF CommitReplace, Commit, At
<1>2. locks.repo = h BY <1>1 DEF HoldsInv, On, RepoOps
<1>3. PinBound(store) /\ OpsBound(store) /\ KnowsRepo(hs[h], store) BY RepoParts
<1>4. store.repo \in RepositoryRow /\ hs[h].id \in Nat BY <1>1, <1>3 DEF KnowsRepo, StoreOK, IsSession
<1>5. repo.pin = hs[h].id + 1 /\ repo.url = store.repo.url /\ ~repo.valid /\ repo # None
  <2>1. repo.pin = hs[h].id + 1 /\ repo.url = store.repo.url /\ ~repo.valid
    BY <1>4 DEF Pinned, RepositoryRow
  <2>2. repo \in RepositoryRow
    <3>1. PICK no, yes \in BOOLEAN : no = FALSE /\ yes = TRUE OBVIOUS
    <3>2. [store.repo EXCEPT !.pin = hs[h].id + 1, !.named = yes, !.version = @ + 1, !.valid = no] \in RepositoryRow
      BY <1>4, hs[h].id + 1 \in Nat, RepositoryPinned
    <3> QED BY <3>1, <3>2 DEF Pinned
  <2> QED BY <2>1, <2>2, NoneAssumption
<1> HIDE DEF repo
<1>6. store'.repo = repo /\ store'.ops = store.ops /\ store'.vault = store.vault BY <1>1 DEF StoreOK
<1>7. PinBound(store') BY <1>1, <1>3, <1>5, <1>6 DEF PinBound, KnowsRepo, Served
<1>8. OpsBound(store') BY <1>1, <1>3, <1>5, <1>6 DEF OpsBound, KnowsRepo
<1>9. \A g \in Handlers : hs'[g] = hs[g] \/ hs'[g] = Idle BY <1>1, Left DEF Only
<1>10. hs'[h] = Idle BY <1>1, Left
<1> QED BY <1>1, <1>2, <1>5, <1>7, <1>8, <1>9, <1>10, NewRow

LEMMA CommitValidateBound ==
  ASSUME TypeOK, HoldsInv, RepoInv, NEW h \in Handlers, CommitValidate(h)
  PROVE  RepoInv'
<1> StoreOK /\ SessionsOK BY DEF TypeOK
<1> DOMAIN hs = Handlers /\ \A g \in Handlers : IsSession(hs[g]) BY DEF SessionsOK
<1>1. PICK valid \in BOOLEAN : store' = [store EXCEPT !.repo = Validated(store.repo, hs[h].id, valid)]
  BY DEF CommitValidate
<1> DEFINE repo == Validated(store.repo, hs[h].id, valid)
<1>2. Leave(h) /\ hs[h].op = "validate" /\ ~hs[h].lost BY DEF CommitValidate, Commit, At
<1>3. locks.repo = h BY <1>2 DEF HoldsInv, On, RepoOps
<1>4. PinBound(store) /\ OpsBound(store) /\ KnowsRepo(hs[h], store) BY RepoParts
<1>5. store.repo \in RepositoryRow /\ hs[h].id \in Nat /\ Served(store, hs[h].id) /\ hs[h].id # 0
  BY <1>2, <1>4 DEF KnowsRepo, StoreOK, IsSession, Served
<1>6. /\ repo.url = store.repo.url
      /\ repo.pin \in {store.repo.pin, hs[h].id} /\ (repo.valid => repo.pin # 0)
  BY <1>4, <1>5 DEF Validated, RepositoryRow, PinBound
<1>7. repo # None
  <2>1. PICK yes \in BOOLEAN : yes = TRUE OBVIOUS
  <2>2. [store.repo EXCEPT !.pin = hs[h].id, !.version = @ + 1, !.valid = yes] \in RepositoryRow
        /\ [store.repo EXCEPT !.valid = valid] \in RepositoryRow
    BY <1>5, RepositoryPinned
  <2>3. repo \in RepositoryRow BY <2>1, <2>2 DEF Validated
  <2> QED BY <2>3, NoneAssumption
<1>8. store' = [store EXCEPT !.repo = repo] BY <1>1
<1> HIDE DEF repo
<1>9. store'.repo = repo /\ store'.ops = store.ops /\ store'.vault = store.vault BY <1>8 DEF StoreOK
<1>10. PinBound(store') BY <1>4, <1>5, <1>6, <1>9, NoneAssumption DEF PinBound, Served
<1>11. OpsBound(store') BY <1>4, <1>5, <1>6, <1>7, <1>9, NoneAssumption DEF OpsBound
<1>12. \A g \in Handlers : hs'[g] = hs[g] \/ hs'[g] = Idle BY <1>2, Left DEF Only
<1>13. hs'[h] = Idle BY <1>2, Left
<1> QED BY <1>3, <1>7, <1>8, <1>10, <1>11, <1>12, <1>13, NewRow

LEMMA SaveBound ==
  ASSUME TypeOK, HoldsInv, RepoInv, NEW h \in Handlers, SaveRepository(h)
  PROVE  RepoInv'
<1> StoreOK BY DEF TypeOK
<1>1. PICK e \in todo : /\ e.op = "url" /\ locks.repo = Nobody /\ hs' = hs
                        /\ store.repo # None => ~UrlLocked
                        /\ store' = [store EXCEPT !.repo = NewRepo(e.url, Version + 1)]
  BY DEF SaveRepository, RepoFree, Wanted
<1>2. NewRepo(e.url, Version + 1).pin = 0 /\ ~NewRepo(e.url, Version + 1).valid BY DEF NewRepo
<1>3. PICK repo \in RepositoryRow : store' = [store EXCEPT !.repo = repo] /\ repo.pin = 0 /\ ~repo.valid
  BY <1>1, <1>2, NewRepoIs
<1>4. store'.repo = repo /\ store'.ops = store.ops /\ store'.vault = store.vault BY <1>3 DEF StoreOK
<1>5. OpsBound(store) BY RepoParts
<1>6. \A o \in DOMAIN store.ops : ~BindsUrl(store.ops[o])
  <2>1. CASE store.repo = None BY <1>5, <2>1 DEF OpsBound
  <2>2. CASE store.repo # None
    <3>1. ~UrlLocked BY <1>1, <2>2
    <3> QED BY <3>1 DEF UrlLocked, BindsUrl
  <2> QED BY <2>1, <2>2
<1>7. repo # None BY NoneAssumption
<1>8. PinBound(store') BY <1>3, <1>4 DEF PinBound
<1>9. OpsBound(store') BY <1>4, <1>6, <1>7 DEF OpsBound
<1>10. \A g \in Handlers : hs'[g] = hs[g] \/ hs'[g] = Idle BY <1>1
<1>11. locks.repo = Nobody \/ (locks.repo = h /\ hs'[h] = Idle) BY <1>1
<1>12. store' = [store EXCEPT !.repo = repo] BY <1>3
<1> QED BY <1>7, <1>8, <1>9, <1>10, <1>11, <1>12, NewRow

LEMMA RepoStep ==
  ASSUME TypeOK, HoldsInv, RepoInv, [Next]_vars
  PROVE  RepoInv'
<1> StoreOK /\ SessionsOK BY DEF TypeOK
<1> store.ops \in Seq(GitOpsOperation) BY DEF StoreOK
<1> DOMAIN hs = Handlers /\ \A g \in Handlers : IsSession(hs[g]) BY DEF SessionsOK
<1>a. PinBound(store) /\ OpsBound(store) /\ \A g \in Handlers : KnowsRepo(hs[g], store) BY RepoParts
<1>0. ASSUME store' = store, hs' = hs PROVE RepoInv' BY <1>0, <1>a, NewStore
<1>1. CASE UNCHANGED vars BY <1>0, <1>1 DEF vars, state
<1>2. CASE Environment
  <2>0. hs' = hs BY <1>2, EnvironmentFrame
  <2>1. CASE CleanUp \/ Sync BY <1>0, <2>0, <2>1 DEF CleanUp, Sync, Kept
  <2>2. CASE Preview
    <3> DEFINE op == Operation("preview", "queued")
               old == Superseding(store.ops)
               ops == Append(old, op)
    <3>1. store' = [store EXCEPT !.ops = ops] /\ store.repo # None BY <2>2 DEF Preview, Superseding
    <3>2. op.url = store.repo.url BY DEF Operation
    <3>3. /\ old \in Seq(GitOpsOperation) /\ DOMAIN old = DOMAIN store.ops
          /\ \A o \in DOMAIN old : BindsUrl(old[o]) => old[o].url = store.repo.url
      <4>1. old \in Seq(GitOpsOperation) /\ DOMAIN old = DOMAIN store.ops BY SupersedingIs
      <4>2. ASSUME NEW o \in DOMAIN old, BindsUrl(old[o]) PROVE old[o].url = store.repo.url
        <5>1. store.ops[o] \in GitOpsOperation BY <4>1
        <5>2. BindsUrl(store.ops[o]) /\ old[o].url = store.ops[o].url
          BY <4>1, <4>2, <5>1 DEF Superseding, BindsUrl, GitOpsOperation
        <5> QED BY <3>1, <4>1, <5>2, <1>a DEF OpsBound
      <4> QED BY <4>1, <4>2
    <3> HIDE DEF op, old
    <3>4. \A o \in DOMAIN ops : BindsUrl(ops[o]) => ops[o].url = store.repo.url
      BY <3>2, <3>3, AppendProperties
    <3> HIDE DEF ops
    <3> QED BY <2>0, <3>1, <3>4, NewOps
  <2>3. CASE Approve
    <3>1. PICK o \in DOMAIN store.ops :
            /\ store' = [store EXCEPT !.ops[o].kind = "publish", !.ops[o].status = "queued"]
            /\ BindsUrl(store.ops[o])
      BY <2>3 DEF Approve, BindsUrl
    <3> DEFINE op == [store.ops[o] EXCEPT !.kind = "publish", !.status = "queued"]
               ops == [store.ops EXCEPT ![o] = op]
    <3>2. store' = [store EXCEPT !.ops = ops] BY <3>1 DEF StoreOK
    <3>3. store.ops[o] \in GitOpsOperation OBVIOUS
    <3>4. op.url = store.ops[o].url BY <3>3 DEF GitOpsOperation
    <3>5. store.repo # None BY <1>a, <3>1 DEF OpsBound
    <3> HIDE DEF op
    <3>6. \A p \in DOMAIN ops : BindsUrl(ops[p]) => ops[p].url = store.repo.url
      BY <1>a, <3>1, <3>4, <3>5 DEF OpsBound
    <3> HIDE DEF ops
    <3> QED BY <2>0, <3>2, <3>5, <3>6, NewOps
  <2>4. CASE Work
    <3>1. PICK o \in DOMAIN store.ops, status \in {"succeeded", "failed", "preview_ready"} :
            /\ store' = [store EXCEPT !.ops[o].status = status]
            /\ BindsUrl(store.ops[o])
      BY <2>4 DEF Work, BindsUrl, Ended
    <3> DEFINE op == [store.ops[o] EXCEPT !.status = status]
               ops == [store.ops EXCEPT ![o] = op]
    <3>2. store' = [store EXCEPT !.ops = ops] BY <3>1
    <3>3. store.ops[o] \in GitOpsOperation OBVIOUS
    <3>4. op.url = store.ops[o].url BY <3>3 DEF GitOpsOperation
    <3>5. store.repo # None BY <1>a, <3>1 DEF OpsBound
    <3> HIDE DEF op
    <3>6. \A p \in DOMAIN ops : BindsUrl(ops[p]) => ops[p].url = store.repo.url
      BY <1>a, <3>1, <3>4, <3>5 DEF OpsBound
    <3> HIDE DEF ops
    <3> QED BY <2>0, <3>2, <3>5, <3>6, NewOps
  <2> QED BY <1>2, <2>1, <2>2, <2>3, <2>4 DEF Environment
<1> SUFFICES ASSUME NEW h \in Handlers,
                    \/ CreateSteps(h) \/ EditSteps(h) \/ GrantSteps(h) \/ DecommissionSteps(h)
                    \/ IssueSteps(h) \/ RevokeSteps(h) \/ RemoveSteps(h) \/ RequestSteps(h)
                    \/ RepoSteps(h) \/ Ends(h) \/ Instant(h) \/ LoseSession(h)
             PROVE  RepoInv'
  BY <1>1, <1>2, NextCases
<1>b. ASSUME store' = store, NEW ops, Only(h, ops), ops \cap {"replace", "validate"} = {}
      PROVE  RepoInv'
  <2>1. KnowsRepo(hs'[h], store) BY <1>b DEF KnowsRepo, Only
  <2> QED BY <1>b, <2>1, SameStore DEF Only
<1>3. CASE RepoSteps(h)
  <2>0. \A g \in Handlers \ {h} : hs'[g] = hs[g] BY <1>3, RepoFrame DEF Only
  <2>1. CASE StartReplace(h)
    <3>1. /\ store' = store /\ store.repo # None
          /\ hs'[h].op = "replace" /\ hs'[h].step \in {"latest", "write"} /\ hs'[h].saw = store.repo.url
      BY <2>1 DEF StartReplace, Enter, Wanted
    <3>2. KnowsRepo(hs'[h], store) BY <3>1 DEF KnowsRepo
    <3> QED BY <2>0, <3>1, <3>2, SameStore
  <2>2. CASE ReadLatest(h)
    <3>1. store' = store /\ Move(h, "write") /\ hs[h].op = "replace" BY <2>2 DEF ReadLatest, At
    <3>2. /\ hs'[h].op = "replace" /\ hs'[h].step = "write" /\ hs'[h].saw = hs[h].saw
          /\ hs'[h].lost = hs[h].lost
      BY <3>1, MovedFields
    <3>3. KnowsRepo(hs'[h], store) BY <1>a, <3>1, <3>2 DEF KnowsRepo
    <3> QED BY <2>0, <3>1, <3>3, SameStore
  <2>3. CASE WriteSecret(h) BY <2>3, WriteSecretBound
  <2>4. CASE CommitReplace(h) BY <2>4, CommitReplaceBound
  <2>5. CASE StartValidate(h)
    <3>1. /\ store' = store /\ store.repo # None
          /\ hs'[h].op = "validate" /\ Serves(hs'[h].id)
      BY <2>5 DEF StartValidate, Enter, Wanted
    <3>2. KnowsRepo(hs'[h], store) BY <3>1 DEF KnowsRepo, Serves, Served, Latest
    <3> QED BY <2>0, <3>1, <3>2, SameStore
  <2>6. CASE CommitValidate(h) BY <2>6, CommitValidateBound
  <2> QED BY <1>3, <2>1, <2>2, <2>3, <2>4, <2>5, <2>6 DEF RepoSteps
<1>4. CASE Instant(h)
  <2>1. CASE Provision(h) BY <1>0, <2>1 DEF Provision, Kept
  <2>2. CASE SaveRepository(h) BY <2>2, SaveBound
  <2> QED BY <1>4, <2>1, <2>2 DEF Instant
<1>5. CASE DecommissionSteps(h)
  <2>0. Only(h, {"idle", "decommission"}) BY <1>5, DecommissionFrame
  <2>1. CASE CommitDecommission(h)
    <3> DEFINE ops == Superseding(store.ops)
    <3>1. store' = [store EXCEPT !.ops = ops] BY <2>1 DEF CommitDecommission, Superseding
    <3>2. DOMAIN ops = DOMAIN store.ops BY SupersedingIs
    <3>3. ASSUME NEW o \in DOMAIN ops, BindsUrl(ops[o]) PROVE ops[o].url = store.repo.url
      <4>1. store.ops[o] \in GitOpsOperation BY <3>2
      <4>2. BindsUrl(store.ops[o]) /\ ops[o].url = store.ops[o].url
        BY <3>2, <3>3, <4>1 DEF Superseding, BindsUrl, GitOpsOperation
      <4>3. store.repo # None BY <3>2, <1>a DEF OpsBound
      <4> QED BY <3>2, <4>2, <4>3, <1>a DEF OpsBound
    <3>4. store.repo # None \/ ops = <<>>
      <4>1. store.ops = <<>> => DOMAIN ops = {} BY <3>2
      <4>2. ops \in Seq(GitOpsOperation) BY SupersedingIs
      <4> HIDE DEF ops
      <4>3. DOMAIN ops = {} => ops = <<>> BY <4>2
      <4> QED BY <1>a, <4>1, <4>3 DEF OpsBound
    <3> HIDE DEF ops
    <3>5. \A g \in Handlers : hs'[g] = hs[g] \/ hs'[g].op \notin {"replace", "validate"} BY <2>0 DEF Only
    <3> QED BY <3>1, <3>3, <3>4, <3>5, NewOps
  <2>2. CASE ~CommitDecommission(h)
    <3>1. store' = store BY <1>5, <2>2 DEF DecommissionSteps, StartDecommission, FindGone, FindProjectsGone, Kept
    <3> QED BY <2>0, <3>1, <1>b
  <2> QED BY <2>1, <2>2
<1>6. CASE CreateSteps(h) BY <1>b, <1>6, CreateFrame
<1>7. CASE EditSteps(h) BY <1>b, <1>7, EditFrame
<1>8. CASE GrantSteps(h) BY <1>b, <1>8, GrantFrame
<1>9. CASE IssueSteps(h) BY <1>b, <1>9, IssueFrame
<1>10. CASE RevokeSteps(h) BY <1>b, <1>10, RevokeFrame
<1>11. CASE RemoveSteps(h) BY <1>b, <1>11, RemoveFrame
<1>12. CASE RequestSteps(h) BY <1>b, <1>12, RequestFrame
<1>13. CASE Ends(h) BY <1>b, <1>13, EndFrame
<1>14. CASE LoseSession(h)
  <2>1. store' = store /\ hs'[h].lost /\ \A g \in Handlers \ {h} : hs'[g] = hs[g] BY <1>14, LoseFrame DEF Only
  <2>2. KnowsRepo(hs'[h], store) BY <2>1 DEF KnowsRepo
  <2> QED BY <2>1, <2>2, SameStore
<1> QED BY <1>3, <1>4, <1>5, <1>6, <1>7, <1>8, <1>9, <1>10, <1>11, <1>12, <1>13, <1>14

------------------------------------------------------------------------------
\* The life of the cluster.
State == db.row.state
Ending == \E h \in Handlers : CommitDecommission(h)
Creating == \E h \in Handlers : CommitCreate(h)

LEMMA StateKept ==
  ASSUME TypeOK, RequestsInv, [Next]_vars, ~Ending, ~Creating
  PROVE  State' = State
<1> SUFFICES db'.row.state = db.row.state BY DEF State
<1> DbOK /\ SessionsOK BY DEF TypeOK
<1> db.row \in Row BY DEF DbOK
<1>0. ASSUME db' = db PROVE db'.row.state = db.row.state BY <1>0
<1>1. CASE UNCHANGED vars BY <1>0, <1>1 DEF vars, state
<1>2. CASE Environment BY <1>0, <1>2, EnvironmentFrame
<1> SUFFICES ASSUME NEW h \in Handlers,
                    \/ CreateSteps(h) \/ EditSteps(h) \/ GrantSteps(h) \/ DecommissionSteps(h)
                    \/ IssueSteps(h) \/ RevokeSteps(h) \/ RemoveSteps(h) \/ RequestSteps(h)
                    \/ RepoSteps(h) \/ Ends(h) \/ Instant(h) \/ LoseSession(h)
             PROVE  db'.row.state = db.row.state
  BY <1>1, <1>2, NextCases
<1>3. CASE CreateSteps(h)
  BY <1>0, <1>3 DEF Creating, CreateSteps, StartCreate, WriteProject, AdoptProject, WriteManifest
<1>4. CASE EditSteps(h)
  <2>1. CASE CommitEdit(h)
    <3> DEFINE e == Event(h)
               ca == IF e.op = "edit" THEN e.ca ELSE db.row.ca
               row == [db.row EXCEPT !.alias = e.alias, !.ca = ca]
               version == IF row = db.row THEN row.version ELSE row.version + 1
    <3>1. db' = [db EXCEPT !.row = [row EXCEPT !.version = version]] BY <2>1 DEF CommitEdit
    <3> HIDE DEF ca
    <3>2. row.state = db.row.state /\ "state" \in DOMAIN row BY DEF Row
    <3> HIDE DEF row, version
    <3>3. [row EXCEPT !.version = version].state = row.state BY <3>2
    <3> DEFINE after == [row EXCEPT !.version = version]
    <3> HIDE DEF after
    <3>4. db'.row = after BY <3>1 DEF DbOK, after
    <3> QED BY <3>2, <3>3, <3>4 DEF after
  <2>2. CASE ~CommitEdit(h) BY <1>0, <1>4, <2>2 DEF EditSteps, StartEdit, StartAlias, PushAlias
  <2> QED BY <2>1, <2>2
<1>5. CASE GrantSteps(h)
  BY <1>0, <1>5 DEF GrantSteps, StartGrant, ReadAdmins, PushAdmins, CommitGrant, DbOK
<1>6. CASE DecommissionSteps(h)
  BY <1>0, <1>6 DEF Ending, DecommissionSteps, StartDecommission, FindGone, FindProjectsGone
<1>7. CASE IssueSteps(h)
  BY <1>0, <1>7 DEF IssueSteps, StartIssue, StartRotate, CreateBinding, CommitIssue, DbOK
<1>8. CASE RevokeSteps(h)
  BY <1>0, <1>8 DEF RevokeSteps, StartRevoke, DeleteBinding, CommitRevoke, DbOK
<1>9. CASE RemoveSteps(h)
  BY <1>0, <1>9 DEF RemoveSteps, StartRemove, ListBindings, DeleteListed, MarkRows, CascadeFails, CommitRemove, DbOK
<1>10. CASE RequestSteps(h)
  <2>1. CASE InsertRequest(h) BY <2>1 DEF InsertRequest, DbOK
  <2>2. CASE CommitApply(h)
    <3> DEFINE row == Applied(Request(h), db.row)
    <3>1. db'.row = row BY <2>2 DEF CommitApply, DbOK
    <3>2. row.state = db.row.state
      <4>1. row = db.row \/ (\E v : row = [db.row EXCEPT !.groups = v]) \/ (\E v : row = [db.row EXCEPT !.backup = v])
            \/ ~(Request(h).type \in {"resize", "backup", "addon"})
        BY DEF Applied
      <4>2. Request(h).type \in {"resize", "backup", "addon"}
        <5>1. hs[h].id \in DOMAIN db.requests BY <2>2 DEF RequestsInv, CommitApply, At
        <5> QED BY <5>1, RequestIs DEF Request
      <4> QED BY <4>1, <4>2 DEF Row
    <3> QED BY <3>1, <3>2
  <2>3. CASE CommitDeny(h) BY <2>3 DEF CommitDeny, DbOK
  <2>4. CASE ~InsertRequest(h) /\ ~CommitApply(h) /\ ~CommitDeny(h)
    BY <1>0, <1>10, <2>4 DEF RequestSteps, StartRequest, StartApply, PushQuota, PushGroups, PushBackup, StartDeny
  <2> QED BY <2>1, <2>2, <2>3, <2>4
<1>11. CASE RepoSteps(h) BY <1>0, <1>11, RepoFrame
<1>12. CASE Ends(h) BY <1>0, <1>12, EndFrame
<1>13. CASE Instant(h) BY <1>0, <1>13 DEF Instant, Provision, SaveRepository, Rest, DbOK, Row
<1>14. CASE LoseSession(h) BY <1>0, <1>14, LoseFrame
<1> QED BY <1>3, <1>4, <1>5, <1>6, <1>7, <1>8, <1>9, <1>10, <1>11, <1>12, <1>13, <1>14

LEMMA Begins ==
  ASSUME TypeOK, NEW h \in Handlers, CommitCreate(h)
  PROVE  /\ hs[h].op = "create" /\ hs[h].step = "commit" /\ ~hs[h].lost /\ State = "none"
         /\ State' = "live" /\ hs'[h] = Idle /\ \A g \in Handlers \ {h} : hs'[g] = hs[g]
         /\ UNCHANGED <<git, bindings, store, seen>> /\ db'.requests = db.requests /\ db'.creds = db.creds
         /\ db'.access = db.access
<1> DbOK /\ SessionsOK BY DEF TypeOK
<1> DOMAIN hs = Handlers BY DEF SessionsOK
<1> DEFINE row == [NoCluster EXCEPT !.state = "live", !.contract = Event(h).contract,
                                    !.alias = Event(h).alias, !.groups = Event(h).groups]
<1>1. /\ hs[h].op = "create" /\ hs[h].step = "commit" /\ ~hs[h].lost /\ State = "none"
      /\ Leave(h) /\ UNCHANGED <<git, bindings, store, seen>>
      /\ db' = [db EXCEPT !.row = row]
  BY DEF CommitCreate, Commit, At, State, Kept
<1>2. row.state = "live" BY DEF NoCluster
<1> HIDE DEF row
<1>3. db'.row = row /\ db'.requests = db.requests /\ db'.creds = db.creds /\ db'.access = db.access BY <1>1 DEF DbOK
<1>4. hs'[h] = Idle /\ \A g \in Handlers \ {h} : hs'[g] = hs[g] BY <1>1, Left DEF Only
<1> QED BY <1>1, <1>2, <1>3, <1>4 DEF State

LEMMA EndsLife ==
  ASSUME TypeOK, NEW h \in Handlers, CommitDecommission(h)
  PROVE  /\ hs[h].op = "decommission" /\ hs[h].step = "commit" /\ ~hs[h].lost
         /\ State' = "gone" /\ hs'[h] = Idle /\ \A g \in Handlers \ {h} : hs'[g] = hs[g]
         /\ UNCHANGED <<git, bindings, seen>> /\ db'.creds = [c \in Creds |-> Retired(db.creds[c])]
         /\ db'.access = db.access
<1> DbOK /\ SessionsOK BY DEF TypeOK
<1> DOMAIN hs = Handlers BY DEF SessionsOK
<1>1. /\ hs[h].op = "decommission" /\ hs[h].step = "commit" /\ ~hs[h].lost
      /\ Leave(h) /\ UNCHANGED <<git, bindings, seen>>
  BY DEF CommitDecommission, Commit, At
<1>2. db'.row.state = "gone" BY DEF CommitDecommission, DbOK, Row
<1>3. db'.creds = [c \in Creds |-> Retired(db.creds[c])] /\ db'.access = db.access BY DEF CommitDecommission, DbOK
<1>4. hs'[h] = Idle /\ \A g \in Handlers \ {h} : hs'[g] = hs[g] BY <1>1, Left DEF Only
<1> QED BY <1>1, <1>2, <1>3, <1>4 DEF State

KnowsState(s, st) ==
  /\ s.op = "create" /\ ~s.lost => st = "none"
  /\ s.op \in RowOps \ {"create"} /\ ~s.lost => st = "live"
  /\ s.op \notin {"idle"} \cup RepoOps => st # "none"
Untouched ==
  /\ \A c \in Creds : db.creds[c] = None
  /\ db.requests = <<>> /\ seen.target = 0 /\ ~seen.late

LEMMA StateParts ==
  StateInv <=> (State = "none" => Untouched) /\ \A h \in Handlers : KnowsState(hs[h], State)
BY DEF StateInv, Untouched, KnowsState, On, Live, State, RowOps

LEMMA SessionKnows ==
  ASSUME TypeOK, StateInv, NEW h \in Handlers,
         \/ CreateSteps(h) \/ EditSteps(h) \/ GrantSteps(h) \/ DecommissionSteps(h)
         \/ IssueSteps(h) \/ RevokeSteps(h) \/ RemoveSteps(h) \/ RequestSteps(h)
         \/ RepoSteps(h) \/ Ends(h) \/ Instant(h) \/ LoseSession(h)
  PROVE  KnowsState(hs'[h], State)
<1> DbOK /\ SessionsOK BY DEF TypeOK
<1> DOMAIN hs = Handlers /\ \A g \in Handlers : IsSession(hs[g]) BY DEF SessionsOK
<1>a. (State = "none" => Untouched) /\ KnowsState(hs[h], State) BY StateParts
<1>0. ASSUME hs'[h].op = hs[h].op, hs'[h].lost = hs[h].lost \/ hs'[h].lost PROVE KnowsState(hs'[h], State)
  BY <1>0, <1>a DEF KnowsState
<1>b. ASSUME NEW step, Move(h, step) PROVE KnowsState(hs'[h], State) BY <1>0, <1>b, MovedFields
<1>c. ASSUME Leave(h) PROVE KnowsState(hs'[h], State) BY <1>c, Left DEF KnowsState, Idle, RowOps
<1>1. CASE CreateSteps(h)
  <2>1. CASE StartCreate(h)
    <3>1. hs'[h].op = "create" /\ State = "none" BY <2>1 DEF StartCreate, Enter, Wanted, State
    <3> QED BY <3>1 DEF KnowsState, RepoOps
  <2>2. CASE WriteProject(h) BY <1>b, <2>2 DEF WriteProject
  <2>3. CASE AdoptProject(h) BY <1>b, <2>3 DEF AdoptProject
  <2>4. CASE WriteManifest(h) BY <1>b, <2>4 DEF WriteManifest
  <2>5. CASE CommitCreate(h) BY <1>c, <2>5 DEF CommitCreate, Commit
  <2> QED BY <1>1, <2>1, <2>2, <2>3, <2>4, <2>5 DEF CreateSteps
<1>2. CASE StartEdit(h) \/ StartAlias(h) \/ StartGrant(h) \/ StartDecommission(h) \/ StartIssue(h) \/ StartRotate(h)
           \/ StartRevoke(h) \/ StartRemove(h) \/ StartRequest(h)
  <2>1. hs'[h].op \notin {"idle", "create"} /\ Live
    <3>1. CASE StartEdit(h) BY <3>1 DEF StartEdit, Wanted, Enter, LockCluster
    <3>2. CASE StartAlias(h) BY <3>2 DEF StartAlias, Wanted, Enter, LockCluster
    <3>3. CASE StartGrant(h) BY <3>3 DEF StartGrant, Wanted, Enter, LockCluster
    <3>4. CASE StartDecommission(h) BY <3>4 DEF StartDecommission, Wanted, Enter, LockCluster
    <3>5. CASE StartIssue(h) BY <3>5 DEF StartIssue, Wanted, Enter, LockCluster
    <3>6. CASE StartRotate(h) BY <3>6 DEF StartRotate, Wanted, Enter, LockCluster
    <3>7. CASE StartRevoke(h) BY <3>7 DEF StartRevoke, Wanted, Enter, LockCluster
    <3>8. CASE StartRemove(h) BY <3>8 DEF StartRemove, Wanted, Enter, LockCluster
    <3>9. CASE StartRequest(h) BY <3>9 DEF StartRequest, Wanted, Enter
    <3> QED BY <1>2, <3>1, <3>2, <3>3, <3>4, <3>5, <3>6, <3>7, <3>8, <3>9
  <2> QED BY <2>1 DEF KnowsState, Live, State
<1>3. CASE StartApply(h) \/ StartDeny(h)
  <2>1. hs'[h].op \in {"apply", "deny"} /\ \E r \in DOMAIN db.requests : TRUE
    <3>1. CASE StartApply(h) BY <3>1 DEF StartApply, Wanted, Enter
    <3>2. CASE StartDeny(h) BY <3>2 DEF StartDeny, Wanted, Enter
    <3> QED BY <1>3, <3>1, <3>2
  <2>2. State # "none" BY <2>1, <1>a DEF Untouched
  <2> QED BY <2>1, <2>2 DEF KnowsState, RowOps
<1>4. CASE RepoSteps(h) BY <1>4, RepoFrame DEF Only, KnowsState, RowOps, RepoOps
<1>5. CASE CreateBinding(h) BY <1>b, <1>5 DEF CreateBinding
<1>6. CASE PushAlias(h) \/ FindGone(h) \/ FindProjectsGone(h) \/ PushAdmins(h) \/ DeleteBinding(h) \/ PushQuota(h)
           \/ PushGroups(h) \/ PushBackup(h)
  BY <1>b, <1>6 DEF PushAlias, FindGone, FindProjectsGone, PushAdmins, DeleteBinding, PushQuota, PushGroups, PushBackup
<1>7. CASE ReadAdmins(h) \/ ListBindings(h) \/ DeleteListed(h) \/ MarkRows(h) \/ CascadeFails(h)
  <2>1. Keeps(h)
    <3>1. CASE ReadAdmins(h) BY <3>1 DEF ReadAdmins, Keeps, IsSession
    <3>2. CASE ListBindings(h) BY <3>2 DEF ListBindings, Keeps, IsSession
    <3>3. CASE DeleteListed(h) BY <3>3 DEF DeleteListed, Keeps, IsSession
    <3>4. CASE MarkRows(h) BY <3>4 DEF MarkRows, Keeps, IsSession
    <3>5. CASE CascadeFails(h) BY <3>5 DEF CascadeFails, Keeps, IsSession
    <3> QED BY <1>7, <3>1, <3>2, <3>3, <3>4, <3>5
  <2> QED BY <1>0, <2>1 DEF Keeps
<1>8. CASE CommitEdit(h) \/ CommitGrant(h) \/ CommitDecommission(h) \/ CommitIssue(h) \/ CommitRevoke(h)
           \/ CommitRemove(h) \/ InsertRequest(h) \/ CommitApply(h) \/ CommitDeny(h)
  BY <1>c, <1>8 DEF CommitEdit, CommitGrant, CommitDecommission, CommitIssue, CommitRevoke, CommitRemove,
                    InsertRequest, CommitApply, CommitDeny, Commit
<1>9. CASE Ends(h) BY <1>9, EndFrame DEF KnowsState, Idle, RowOps
<1>10. CASE Instant(h)
  <2>1. hs' = hs BY <1>10, InstantFrame
  <2> QED BY <2>1, <1>a
<1>11. CASE LoseSession(h) BY <1>0, <1>11, LoseFrame
<1>12. CASE EditSteps(h) BY <1>12, <1>2, <1>6, <1>8 DEF EditSteps
<1>13. CASE GrantSteps(h) BY <1>13, <1>2, <1>6, <1>7, <1>8 DEF GrantSteps
<1>14. CASE DecommissionSteps(h) BY <1>14, <1>2, <1>6, <1>8 DEF DecommissionSteps
<1>15. CASE IssueSteps(h) BY <1>15, <1>2, <1>5, <1>8 DEF IssueSteps
<1>16. CASE RevokeSteps(h) BY <1>16, <1>2, <1>6, <1>8 DEF RevokeSteps
<1>17. CASE RemoveSteps(h) BY <1>17, <1>2, <1>7, <1>8 DEF RemoveSteps
<1>18. CASE RequestSteps(h) BY <1>18, <1>2, <1>3, <1>6, <1>8 DEF RequestSteps
<1> QED BY <1>1, <1>4, <1>9, <1>10, <1>11, <1>12, <1>13, <1>14, <1>15, <1>16, <1>17, <1>18

LEMMA OthersUnchanged ==
  ASSUME SessionsOK, NEW h \in Handlers,
         \/ CreateSteps(h) \/ EditSteps(h) \/ GrantSteps(h) \/ DecommissionSteps(h)
         \/ IssueSteps(h) \/ RevokeSteps(h) \/ RemoveSteps(h) \/ RequestSteps(h)
         \/ RepoSteps(h) \/ Ends(h) \/ Instant(h) \/ LoseSession(h)
  PROVE  \A g \in Handlers \ {h} : hs'[g] = hs[g]
<1>1. CASE CreateSteps(h) BY <1>1, CreateFrame DEF Only
<1>2. CASE EditSteps(h) BY <1>2, EditFrame DEF Only
<1>3. CASE GrantSteps(h) BY <1>3, GrantFrame DEF Only
<1>4. CASE DecommissionSteps(h) BY <1>4, DecommissionFrame DEF Only
<1>5. CASE IssueSteps(h) BY <1>5, IssueFrame DEF Only
<1>6. CASE RevokeSteps(h) BY <1>6, RevokeFrame DEF Only
<1>7. CASE RemoveSteps(h) BY <1>7, RemoveFrame DEF Only
<1>8. CASE RequestSteps(h) BY <1>8, RequestFrame DEF Only
<1>9. CASE RepoSteps(h) BY <1>9, RepoFrame DEF Only
<1>10. CASE Ends(h) BY <1>10, EndFrame DEF Only
<1>11. CASE Instant(h) BY <1>11, InstantFrame
<1>12. CASE LoseSession(h) BY <1>12, LoseFrame DEF Only
<1> QED BY <1>1, <1>2, <1>3, <1>4, <1>5, <1>6, <1>7, <1>8, <1>9, <1>10, <1>11, <1>12

\* Nothing is stored of a cluster that is not there.
LEMMA UntouchedStep ==
  ASSUME TypeOK, RequestsInv, StateInv, [Next]_vars, State = "none", State' = "none"
  PROVE  Untouched'
<1> DbOK /\ SessionsOK BY DEF TypeOK
<1>a. Untouched /\ \A g \in Handlers : hs[g].op \in {"idle", "create", "replace", "validate"}
  BY StateParts DEF KnowsState, RepoOps
<1>b. ~Live BY DEF Live, State
<1>0. ASSUME db' = db, seen'.target = seen.target, seen'.late = seen.late PROVE Untouched' BY <1>0, <1>a DEF Untouched
<1>1. CASE UNCHANGED vars BY <1>0, <1>1 DEF vars, state
<1>2. CASE Environment BY <1>0, <1>2, EnvironmentFrame
<1> SUFFICES ASSUME NEW h \in Handlers,
                    \/ CreateSteps(h) \/ EditSteps(h) \/ GrantSteps(h) \/ DecommissionSteps(h)
                    \/ IssueSteps(h) \/ RevokeSteps(h) \/ RemoveSteps(h) \/ RequestSteps(h)
                    \/ RepoSteps(h) \/ Ends(h) \/ Instant(h) \/ LoseSession(h)
             PROVE  Untouched'
  BY <1>1, <1>2, NextCases
<1>3. CASE CreateSteps(h)
  <2>1. ~CommitCreate(h) BY Begins
  <2>2. db' = db BY <1>3, <2>1 DEF CreateSteps, StartCreate, WriteProject, AdoptProject, WriteManifest
  <2>3. seen' = seen \/ WrittenLate
    BY <1>3, <2>1 DEF CreateSteps, StartCreate, WriteProject, AdoptProject, WriteManifest
  <2>4. CASE WrittenLate
    <3>1. PICK late : late = (seen.late \/ db.row.state # "none") /\ seen' = [seen EXCEPT !.late = late]
      BY <2>4 DEF WrittenLate
    <3>2. seen'.target = seen.target /\ seen'.late = late BY <3>1 DEF TypeOK, SeenOK
    <3>3. ~late BY <3>1, <1>a DEF Untouched, State
    <3> QED BY <2>2, <3>2, <3>3, <1>a DEF Untouched
  <2> QED BY <1>0, <2>2, <2>3, <2>4
<1>4. CASE EditSteps(h) BY <1>4, <1>a, <1>b DEF EditSteps, StartEdit, StartAlias, PushAlias, CommitEdit, At, LockCluster
<1>5. CASE GrantSteps(h) BY <1>5, <1>a, <1>b DEF GrantSteps, StartGrant, ReadAdmins, PushAdmins, CommitGrant, At, LockCluster
<1>6. CASE DecommissionSteps(h)
  BY <1>6, <1>a, <1>b DEF DecommissionSteps, StartDecommission, FindGone, FindProjectsGone, CommitDecommission, At, LockCluster
<1>7. CASE IssueSteps(h) BY <1>7, <1>a, <1>b DEF IssueSteps, StartIssue, StartRotate, CreateBinding, CommitIssue, At, LockCluster
<1>8. CASE RevokeSteps(h) BY <1>8, <1>a, <1>b DEF RevokeSteps, StartRevoke, DeleteBinding, CommitRevoke, At, LockCluster
<1>9. CASE RemoveSteps(h)
  BY <1>9, <1>a, <1>b DEF RemoveSteps, StartRemove, ListBindings, DeleteListed, MarkRows, CascadeFails, CommitRemove, At, LockCluster
<1>10. CASE RequestSteps(h)
  <2>1. DOMAIN db.requests = {} BY <1>a DEF Untouched
  <2> QED BY <1>10, <1>a, <1>b, <2>1 DEF RequestSteps, StartRequest, InsertRequest, StartApply, PushQuota, PushGroups,
                                     PushBackup, CommitApply, StartDeny, CommitDeny, At
<1>11. CASE RepoSteps(h) BY <1>0, <1>11, RepoFrame
<1>12. CASE Ends(h) BY <1>0, <1>12, EndFrame
<1>13. CASE Instant(h)
  <2>1. db' = db BY <1>13, <1>b DEF Instant, Provision, SaveRepository, Rest
  <2> QED BY <1>0, <1>13, <2>1, InstantFrame
<1>14. CASE LoseSession(h) BY <1>0, <1>14, LoseFrame
<1> QED BY <1>3, <1>4, <1>5, <1>6, <1>7, <1>8, <1>9, <1>10, <1>11, <1>12, <1>13, <1>14

LEMMA StateStep ==
  ASSUME TypeOK, HoldsInv, RequestsInv, StateInv, [Next]_vars
  PROVE  StateInv'
<1> SessionsOK BY DEF TypeOK
<1>a. (State = "none" => Untouched) /\ \A g \in Handlers : KnowsState(hs[g], State) BY StateParts
<1>b. ASSUME State' = "none" => Untouched', \A g \in Handlers : KnowsState(hs'[g], State')
      PROVE  StateInv'
  BY <1>b DEF StateInv, Untouched, KnowsState, On, Live, State, RowOps
<1>1. CASE Creating
  <2>1. PICK h \in Handlers : CommitCreate(h) BY <1>1 DEF Creating
  <2>2. /\ hs[h].op = "create" /\ ~hs[h].lost /\ State' = "live" /\ hs'[h] = Idle
        /\ \A g \in Handlers \ {h} : hs'[g] = hs[g]
    BY <2>1, Begins
  <2>3. locks.row = h BY <2>2 DEF HoldsInv, On, RowOps
  <2>4. \A g \in Handlers \ {h} : ~On(g, RowOps) BY <2>3 DEF HoldsInv
  <2>5. \A g \in Handlers : KnowsState(hs'[g], "live")
    BY <2>2, <2>4 DEF KnowsState, On, Idle, RowOps
  <2> QED BY <1>b, <2>2, <2>5
<1>2. CASE Ending
  <2>1. PICK h \in Handlers : CommitDecommission(h) BY <1>2 DEF Ending
  <2>2. /\ hs[h].op = "decommission" /\ ~hs[h].lost /\ State' = "gone" /\ hs'[h] = Idle
        /\ \A g \in Handlers \ {h} : hs'[g] = hs[g]
    BY <2>1, EndsLife
  <2>3. locks.row = h BY <2>2 DEF HoldsInv, On, RowOps
  <2>4. \A g \in Handlers \ {h} : ~On(g, RowOps) BY <2>3 DEF HoldsInv
  <2>5. \A g \in Handlers : KnowsState(hs'[g], "gone")
    BY <2>2, <2>4 DEF KnowsState, On, Idle, RowOps
  <2> QED BY <1>b, <2>2, <2>5
<1>3. CASE ~Creating /\ ~Ending
  <2>1. State' = State BY <1>3, StateKept
  <2>2. \A g \in Handlers : KnowsState(hs'[g], State)
    <3>1. CASE hs' = hs BY <3>1, <1>a
    <3>2. CASE UNCHANGED vars BY <3>1, <3>2 DEF vars
    <3>3. CASE Environment BY <3>1, <3>3, EnvironmentFrame
    <3>4. ASSUME NEW h \in Handlers,
                    \/ CreateSteps(h) \/ EditSteps(h) \/ GrantSteps(h) \/ DecommissionSteps(h)
                    \/ IssueSteps(h) \/ RevokeSteps(h) \/ RemoveSteps(h) \/ RequestSteps(h)
                    \/ RepoSteps(h) \/ Ends(h) \/ Instant(h) \/ LoseSession(h)
          PROVE  \A g \in Handlers : KnowsState(hs'[g], State)
      <4>1. KnowsState(hs'[h], State) BY <3>4, SessionKnows
      <4>2. \A g \in Handlers \ {h} : hs'[g] = hs[g] BY <3>4, OthersUnchanged
      <4> QED BY <4>1, <4>2, <1>a
    <3> QED BY <3>2, <3>3, <3>4, NextCases
  <2>3. State' = "none" => Untouched' BY <2>1, UntouchedStep
  <2> QED BY <1>b, <2>1, <2>2, <2>3
<1> QED BY <1>1, <1>2, <1>3

------------------------------------------------------------------------------
\* What is in Git before a cluster is created ...
GitGrows ==
  /\ git.mgmt # None => git'.mgmt = git.mgmt \/ git'.mgmt = [git.mgmt EXCEPT !.readers = {}]
  /\ git.manifest # None => git'.manifest = git.manifest

LEMMA GitBefore ==
  ASSUME TypeOK, StateInv, [Next]_vars, State = "none"
  PROVE  GitGrows
<1> GitOK /\ SessionsOK BY DEF TypeOK
<1>a. \A g \in Handlers : hs[g].op \in {"idle", "create", "replace", "validate"}
  BY StateParts DEF KnowsState, RepoOps
<1>b. ~Live BY DEF Live, State
<1>0. ASSUME git' = git PROVE GitGrows BY <1>0 DEF GitGrows
<1>1. CASE UNCHANGED vars BY <1>0, <1>1 DEF vars, state
<1>2. CASE Environment
  <2>1. ~CleanUp BY DEF CleanUp, State
  <2>2. CASE Sync BY <2>2 DEF Sync, GitGrows, GitOK
  <2>3. CASE Preview \/ Approve \/ Work BY <1>0, <2>3 DEF Preview, Approve, Work, Rest
  <2> QED BY <1>2, <2>1, <2>2, <2>3 DEF Environment
<1> SUFFICES ASSUME NEW h \in Handlers,
                    \/ CreateSteps(h) \/ EditSteps(h) \/ GrantSteps(h) \/ DecommissionSteps(h)
                    \/ IssueSteps(h) \/ RevokeSteps(h) \/ RemoveSteps(h) \/ RequestSteps(h)
                    \/ RepoSteps(h) \/ Ends(h) \/ Instant(h) \/ LoseSession(h)
             PROVE  GitGrows
  BY <1>1, <1>2, NextCases
<1>3. CASE CreateSteps(h)
  <2>1. CASE WriteProject(h) BY <2>1 DEF WriteProject, GitGrows, GitOK
  <2>2. CASE AdoptProject(h) BY <2>2 DEF AdoptProject, GitGrows, GitOK
  <2>3. CASE WriteManifest(h) BY <2>3 DEF WriteManifest, GitGrows, GitOK
  <2>4. CASE StartCreate(h) \/ CommitCreate(h) BY <1>0, <2>4 DEF StartCreate, CommitCreate
  <2> QED BY <1>3, <2>1, <2>2, <2>3, <2>4 DEF CreateSteps
<1>4. CASE EditSteps(h) BY <1>4, <1>a, <1>b DEF EditSteps, StartEdit, StartAlias, PushAlias, CommitEdit, At, LockCluster
<1>5. CASE GrantSteps(h) BY <1>5, <1>a, <1>b DEF GrantSteps, StartGrant, ReadAdmins, PushAdmins, CommitGrant, At, LockCluster
<1>6. CASE DecommissionSteps(h) BY <1>0, <1>6, DecommissionFrame
<1>7. CASE IssueSteps(h) BY <1>0, <1>7, IssueFrame
<1>8. CASE RevokeSteps(h) BY <1>0, <1>8, RevokeFrame
<1>9. CASE RemoveSteps(h) BY <1>0, <1>9, RemoveFrame
<1>10. CASE RequestSteps(h)
  <2>1. ~PushQuota(h) /\ ~PushGroups(h) /\ ~PushBackup(h) BY <1>a DEF PushQuota, PushGroups, PushBackup, At
  <2> QED BY <1>0, <1>10, <2>1 DEF RequestSteps, StartRequest, InsertRequest, StartApply, CommitApply, StartDeny, CommitDeny
<1>11. CASE RepoSteps(h) BY <1>0, <1>11, RepoFrame
<1>12. CASE Ends(h) BY <1>0, <1>12, EndFrame
<1>13. CASE Instant(h) BY <1>0, <1>13, InstantFrame
<1>14. CASE LoseSession(h) BY <1>0, <1>14, LoseFrame
<1> QED BY <1>3, <1>4, <1>5, <1>6, <1>7, <1>8, <1>9, <1>10, <1>11, <1>12, <1>13, <1>14

KnowsGit(s, g) ==
  s.op = "create" /\ ~s.lost =>
    /\ s.step \in {"manifest", "commit"} => g.mgmt = Project(s.event)
    /\ s.step = "commit" => g.manifest = Document(s.event)

LEMMA CreateParts == CreateInv <=> \A h \in Handlers : KnowsGit(hs[h], git)
BY DEF CreateInv, KnowsGit, On, Event

LEMMA ProjectReaders == \A e : [Project(e) EXCEPT !.readers = {}] = Project(e)
BY DEF Project

LEMMA DocumentIsThere ==
  ASSUME SessionsOK, NEW h \in Handlers, hs[h].op = "create"
  PROVE  Project(hs[h].event) # None /\ Document(hs[h].event) # None
BY EventIs, ProjectIs, NoneAssumption DEF Wellformed, Event

LEMMA CreateStep ==
  ASSUME TypeOK, HoldsInv, StateInv, CreateInv, [Next]_vars
  PROVE  CreateInv'
<1> GitOK /\ SessionsOK BY DEF TypeOK
<1> DOMAIN hs = Handlers /\ \A g \in Handlers : IsSession(hs[g]) BY DEF SessionsOK
<1>a. \A g \in Handlers : KnowsGit(hs[g], git) BY CreateParts
<1> SUFFICES \A g \in Handlers : KnowsGit(hs'[g], git') BY DEF CreateInv, KnowsGit, On, Event
<1>0. ASSUME NEW g \in Handlers PROVE KnowsGit(hs[g], git')
  <2> SUFFICES ASSUME hs[g].op = "create", ~hs[g].lost PROVE KnowsGit(hs[g], git') BY DEF KnowsGit
  <2>1. State = "none" BY StateParts DEF KnowsState
  <2>2. GitGrows BY <2>1, GitBefore
  <2>3. Project(hs[g].event) # None /\ Document(hs[g].event) # None BY DocumentIsThere
  <2>4. [Project(hs[g].event) EXCEPT !.readers = {}] = Project(hs[g].event) BY ProjectReaders
  <2> QED BY <1>a, <2>2, <2>3, <2>4 DEF KnowsGit, GitGrows
<1>1. CASE hs' = hs BY <1>0, <1>1
<1>2. CASE UNCHANGED vars BY <1>1, <1>2 DEF vars
<1>3. CASE Environment BY <1>1, <1>3, EnvironmentFrame
<1> SUFFICES ASSUME NEW h \in Handlers,
                    \/ CreateSteps(h) \/ EditSteps(h) \/ GrantSteps(h) \/ DecommissionSteps(h)
                    \/ IssueSteps(h) \/ RevokeSteps(h) \/ RemoveSteps(h) \/ RequestSteps(h)
                    \/ RepoSteps(h) \/ Ends(h) \/ Instant(h) \/ LoseSession(h)
             PROVE  KnowsGit(hs'[h], git')
  BY <1>0, <1>2, <1>3, NextCases, OthersUnchanged
<1> SUFFICES ASSUME hs'[h].op = "create", ~hs'[h].lost PROVE KnowsGit(hs'[h], git') BY DEF KnowsGit
<1>4. CASE CreateSteps(h)
  <2>1. CASE StartCreate(h)
    <3>1. hs'[h].step = "project" BY <2>1 DEF StartCreate, Enter
    <3> QED BY <3>1 DEF KnowsGit
  <2>2. CASE WriteProject(h)
    <3>1. git'.mgmt = Project(hs[h].event) /\ Move(h, "manifest") BY <2>2 DEF WriteProject, Event, GitOK
    <3>2. hs'[h].step = "manifest" /\ hs'[h].event = hs[h].event BY <3>1, MovedFields
    <3> QED BY <3>1, <3>2 DEF KnowsGit
  <2>3. CASE AdoptProject(h)
    <3> DEFINE e == hs[h].event
    <3>1. /\ git'.mgmt = [git.mgmt EXCEPT !.readers = {}] /\ git.mgmt # None /\ Move(h, "manifest")
          /\ git.mgmt.contract = e.contract /\ git.mgmt.quota = Quota(e.groups)
      BY <2>3 DEF AdoptProject, Matching, Event, GitOK
    <3>2. hs'[h].step = "manifest" /\ hs'[h].event = e BY <3>1, MovedFields
    <3>3. git.mgmt \in OpenstackProject BY <3>1 DEF GitOK
    <3>4. [git.mgmt EXCEPT !.readers = {}] = [contract |-> git.mgmt.contract, quota |-> git.mgmt.quota, readers |-> {}]
      BY <3>3 DEF OpenstackProject
    <3>5. git'.mgmt = Project(e) BY <3>1, <3>4 DEF Project
    <3> QED BY <3>2, <3>5 DEF KnowsGit
  <2>4. CASE WriteManifest(h)
    <3>1. /\ git.manifest \in {None, Document(hs[h].event)} /\ Move(h, "commit") /\ hs[h].step = "manifest"
          /\ git' = IF git.manifest = None THEN [git EXCEPT !.manifest = Document(hs[h].event)] ELSE git
      BY <2>4 DEF WriteManifest, Writable, Event, At
    <3>2. hs'[h].step = "commit" /\ hs'[h].event = hs[h].event /\ hs[h].op = "create" /\ ~hs[h].lost
      BY <3>1, MovedFields
    <3>3. git'.manifest = Document(hs[h].event) /\ git'.mgmt = git.mgmt BY <3>1 DEF GitOK
    <3>4. git.mgmt = Project(hs[h].event) BY <1>a, <3>1, <3>2 DEF KnowsGit
    <3> QED BY <3>2, <3>3, <3>4 DEF KnowsGit
  <2>5. CASE CommitCreate(h) BY <2>5, Begins DEF Idle
  <2> QED BY <1>4, <2>1, <2>2, <2>3, <2>4, <2>5 DEF CreateSteps
<1>5. CASE EditSteps(h) BY <1>5, EditFrame DEF Only
<1>6. CASE GrantSteps(h) BY <1>6, GrantFrame DEF Only
<1>7. CASE DecommissionSteps(h) BY <1>7, DecommissionFrame DEF Only
<1>8. CASE IssueSteps(h) BY <1>8, IssueFrame DEF Only
<1>9. CASE RevokeSteps(h) BY <1>9, RevokeFrame DEF Only
<1>10. CASE RemoveSteps(h) BY <1>10, RemoveFrame DEF Only
<1>11. CASE RequestSteps(h) BY <1>11, RequestFrame DEF Only
<1>12. CASE RepoSteps(h) BY <1>12, RepoFrame DEF Only
<1>13. CASE Ends(h) BY <1>13, EndFrame DEF Only
<1>14. CASE Instant(h) BY <1>0, <1>14, InstantFrame
<1>15. CASE LoseSession(h) BY <1>15, LoseFrame
<1> QED BY <1>4, <1>5, <1>6, <1>7, <1>8, <1>9, <1>10, <1>11, <1>12, <1>13, <1>14, <1>15

------------------------------------------------------------------------------
\* ... and after it was.
GitShrinks ==
  /\ git.manifest = None => git'.manifest = None
  /\ git.mgmt = None => git'.mgmt = None
  /\ git.manifest = None /\ "cluster" \notin git.applied => "cluster" \notin git'.applied
  /\ git.mgmt = None /\ "mgmt" \notin git.applied => "mgmt" \notin git'.applied

LEMMA GitAfter ==
  ASSUME TypeOK, [Next]_vars, State # "none"
  PROVE  (seen.late => seen'.late) /\ (seen'.late \/ GitShrinks)
<1> DEFINE Goal == (seen.late => seen'.late) /\ (seen'.late \/ GitShrinks)
<1> SUFFICES Goal OBVIOUS
<1> GitOK /\ SessionsOK /\ SeenOK BY DEF TypeOK
<1>0. ASSUME git' = git, seen'.late = seen.late PROVE Goal BY <1>0 DEF GitShrinks
<1>1. CASE UNCHANGED vars BY <1>0, <1>1 DEF vars, state
<1>2. CASE Environment
  <2>0. seen' = seen BY <1>2, EnvironmentFrame
  <2>1. CASE CleanUp
    <3>1. PICK parts, backup : git' = [git EXCEPT !.manifest = IF "cluster" \in parts THEN None ELSE git.manifest,
                                          !.mgmt = IF "mgmt" \in parts THEN None ELSE git.mgmt,
                                          !.backup = backup]
      BY <2>1 DEF CleanUp
    <3>2. /\ git'.applied = git.applied /\ git'.manifest \in {None, git.manifest} /\ git'.mgmt \in {None, git.mgmt}
      BY <3>1 DEF GitOK
    <3> QED BY <2>0, <3>2 DEF GitShrinks
  <2>2. CASE Sync
    <3>1. PICK late : git' = [git EXCEPT !.applied = (@ \cap late) \cup (Declared \ late)] BY <2>2 DEF Sync
    <3>2. /\ git'.applied = (git.applied \cap late) \cup (Declared \ late) /\ git'.manifest = git.manifest
          /\ git'.mgmt = git.mgmt
      BY <3>1 DEF GitOK
    <3> QED BY <2>0, <3>2 DEF GitShrinks, Declared
  <2>3. CASE Preview \/ Approve \/ Work BY <1>0, <2>0, <2>3 DEF Preview, Approve, Work, Rest
  <2> QED BY <1>2, <2>1, <2>2, <2>3 DEF Environment
<1> SUFFICES ASSUME NEW h \in Handlers,
                    \/ CreateSteps(h) \/ EditSteps(h) \/ GrantSteps(h) \/ DecommissionSteps(h)
                    \/ IssueSteps(h) \/ RevokeSteps(h) \/ RemoveSteps(h) \/ RequestSteps(h)
                    \/ RepoSteps(h) \/ Ends(h) \/ Instant(h) \/ LoseSession(h)
             PROVE  Goal
  BY <1>1, <1>2, NextCases
<1>3. CASE CreateSteps(h)
  <2>1. ASSUME WrittenLate PROVE Goal
    <3>1. PICK late : late = (seen.late \/ db.row.state # "none") /\ seen' = [seen EXCEPT !.late = late]
      BY <2>1 DEF WrittenLate
    <3>2. seen'.late = late BY <3>1 DEF SeenOK
    <3> QED BY <3>1, <3>2 DEF State
  <2>2. CASE WriteProject(h) BY <2>1, <2>2 DEF WriteProject
  <2>3. CASE AdoptProject(h)
    <3>1. git'.mgmt # None \/ git'.mgmt = None OBVIOUS
    <3>2. git'.manifest = git.manifest /\ git'.applied = git.applied /\ git.mgmt # None /\ seen' = seen
      BY <2>3 DEF AdoptProject, GitOK
    <3> QED BY <3>2 DEF GitShrinks
  <2>4. CASE WriteManifest(h) BY <1>0, <2>1, <2>4 DEF WriteManifest
  <2>5. CASE StartCreate(h) \/ CommitCreate(h) BY <1>0, <2>5 DEF StartCreate, CommitCreate
  <2> QED BY <1>3, <2>2, <2>3, <2>4, <2>5 DEF CreateSteps
<1>4. CASE EditSteps(h)
  <2>0. seen' = seen BY <1>4, EditFrame
  <2>1. CASE PushAlias(h)
    <3>1. git'.mgmt = git.mgmt /\ git'.applied = git.applied /\ git.manifest # None BY <2>1 DEF PushAlias, GitOK
    <3> QED BY <2>0, <3>1 DEF GitShrinks
  <2>2. CASE ~PushAlias(h) BY <1>0, <1>4, <2>0, <2>2 DEF EditSteps, StartEdit, StartAlias, CommitEdit
  <2> QED BY <2>1, <2>2
<1>5. CASE GrantSteps(h)
  <2>0. seen'.late = seen.late
    BY <1>5 DEF GrantSteps, StartGrant, ReadAdmins, PushAdmins, CommitGrant, SeenOK
  <2>1. CASE PushAdmins(h)
    <3>1. git'.manifest = git.manifest /\ git'.applied = git.applied /\ (git.mgmt = None => git'.mgmt = None)
      BY <2>1 DEF PushAdmins, GitOK
    <3> QED BY <2>0, <3>1 DEF GitShrinks
  <2>2. CASE ~PushAdmins(h) BY <1>0, <1>5, <2>0, <2>2 DEF GrantSteps, StartGrant, ReadAdmins, CommitGrant
  <2> QED BY <2>1, <2>2
<1>6. CASE DecommissionSteps(h) BY <1>0, <1>6, DecommissionFrame
<1>7. CASE IssueSteps(h)
  <2>1. seen'.late = seen.late BY <1>7 DEF IssueSteps, StartIssue, StartRotate, CreateBinding, CommitIssue, SeenOK
  <2> QED BY <1>0, <1>7, <2>1, IssueFrame
<1>8. CASE RevokeSteps(h) BY <1>0, <1>8, RevokeFrame
<1>9. CASE RemoveSteps(h)
  <2>1. seen'.late = seen.late
    BY <1>9 DEF RemoveSteps, StartRemove, ListBindings, DeleteListed, MarkRows, CascadeFails, CommitRemove, SeenOK
  <2> QED BY <1>0, <1>9, <2>1, RemoveFrame
<1>10. CASE RequestSteps(h)
  <2>0. seen'.late = seen.late
    BY <1>10 DEF RequestSteps, StartRequest, InsertRequest, StartApply, PushQuota, PushGroups, PushBackup, CommitApply,
                 StartDeny, CommitDeny, SeenOK
  <2>1. CASE PushQuota(h)
    <3>1. git'.manifest = git.manifest /\ git'.applied = git.applied /\ git.mgmt # None BY <2>1 DEF PushQuota, GitOK
    <3> QED BY <2>0, <3>1 DEF GitShrinks
  <2>2. CASE PushGroups(h)
    <3>1. git'.mgmt = git.mgmt /\ git'.applied = git.applied /\ git.manifest # None BY <2>2 DEF PushGroups, GitOK
    <3> QED BY <2>0, <3>1 DEF GitShrinks
  <2>3. CASE PushBackup(h)
    <3>1. git'.mgmt = git.mgmt /\ git'.applied = git.applied /\ git'.manifest = git.manifest
      BY <2>3 DEF PushBackup, GitOK
    <3> QED BY <2>0, <3>1 DEF GitShrinks
  <2>4. CASE ~PushQuota(h) /\ ~PushGroups(h) /\ ~PushBackup(h)
    BY <1>0, <1>10, <2>0, <2>4 DEF RequestSteps, StartRequest, InsertRequest, StartApply, CommitApply, StartDeny, CommitDeny
  <2> QED BY <2>1, <2>2, <2>3, <2>4
<1>11. CASE RepoSteps(h) BY <1>0, <1>11, RepoFrame
<1>12. CASE Ends(h) BY <1>0, <1>12, EndFrame
<1>13. CASE Instant(h) BY <1>0, <1>13, InstantFrame
<1>14. CASE LoseSession(h) BY <1>0, <1>14, LoseFrame
<1> QED BY <1>3, <1>4, <1>5, <1>6, <1>7, <1>8, <1>9, <1>10, <1>11, <1>12, <1>13, <1>14

KnowsGone(s, g) ==
  s.op = "decommission" /\ ~s.lost =>
    /\ s.step \in {"projects", "commit"} => g.manifest = None /\ "cluster" \notin g.applied
    /\ s.step = "commit" => g.mgmt = None /\ "mgmt" \notin g.applied

LEMMA GoneParts == GoneInv <=> (~seen.late => DecommissionedIsGone /\ \A h \in Handlers : KnowsGone(hs[h], git))
BY DEF GoneInv, KnowsGone, On

LEMMA GoneStep ==
  ASSUME TypeOK, RequestsInv, StateInv, GoneInv, [Next]_vars
  PROVE  GoneInv'
<1> GitOK /\ SessionsOK BY DEF TypeOK
<1> DOMAIN hs = Handlers /\ \A g \in Handlers : IsSession(hs[g]) BY DEF SessionsOK
<1>a. \A g \in Handlers : KnowsState(hs[g], State) BY StateParts
<1> SUFFICES ASSUME ~seen'.late
             PROVE  DecommissionedIsGone' /\ \A g \in Handlers : KnowsGone(hs'[g], git')
  BY DEF GoneInv, KnowsGone, On
<1>b. State = "none" => ~Ending
  <2> SUFFICES ASSUME Ending PROVE State # "none" OBVIOUS
  <2>1. PICK h \in Handlers : CommitDecommission(h) BY DEF Ending
  <2>2. hs[h].op = "decommission" /\ ~hs[h].lost BY <2>1, EndsLife
  <2> QED BY <2>2, <1>a DEF KnowsState, RowOps
<1>c. State # "none" => ~seen.late /\ GitShrinks BY GitAfter
<1>d. State # "none" => (State = "gone" => git.manifest = None /\ git.mgmt = None /\ git.applied \cap {"cluster", "mgmt"} = {})
                        /\ \A g \in Handlers : KnowsGone(hs[g], git)
  BY <1>c, GoneParts DEF DecommissionedIsGone, State
<1>e. ASSUME NEW g \in Handlers PROVE KnowsGone(hs[g], git')
  <2> SUFFICES ASSUME hs[g].op = "decommission", ~hs[g].lost PROVE KnowsGone(hs[g], git') BY DEF KnowsGone
  <2>1. State # "none" BY <1>a DEF KnowsState, RowOps
  <2> QED BY <2>1, <1>c, <1>d DEF KnowsGone, GitShrinks
<1>1. DecommissionedIsGone'
  <2> SUFFICES ASSUME State' = "gone"
               PROVE  git'.manifest = None /\ git'.mgmt = None /\ git'.applied \cap {"cluster", "mgmt"} = {}
    BY DEF DecommissionedIsGone, State
  <2>1. CASE Ending
    <3>1. PICK h \in Handlers : CommitDecommission(h) BY <2>1 DEF Ending
    <3>2. hs[h].op = "decommission" /\ ~hs[h].lost /\ hs[h].step = "commit" /\ git' = git BY <3>1, EndsLife
    <3>3. KnowsGone(hs[h], git) BY <1>b, <1>d, <2>1
    <3> QED BY <3>2, <3>3 DEF KnowsGone
  <2>2. CASE Creating
    <3>1. State' = "live" BY <2>2, Begins DEF Creating
    <3> QED BY <3>1
  <2>3. CASE ~Creating /\ ~Ending
    <3>1. State = "gone" BY <2>3, StateKept
    <3> QED BY <3>1, <1>c, <1>d DEF GitShrinks
  <2> QED BY <2>1, <2>2, <2>3
<1>2. CASE hs' = hs BY <1>1, <1>2, <1>e
<1>3. CASE UNCHANGED vars BY <1>2, <1>3 DEF vars
<1>4. CASE Environment BY <1>2, <1>4, EnvironmentFrame
<1> SUFFICES ASSUME NEW h \in Handlers,
                    \/ CreateSteps(h) \/ EditSteps(h) \/ GrantSteps(h) \/ DecommissionSteps(h)
                    \/ IssueSteps(h) \/ RevokeSteps(h) \/ RemoveSteps(h) \/ RequestSteps(h)
                    \/ RepoSteps(h) \/ Ends(h) \/ Instant(h) \/ LoseSession(h)
             PROVE  KnowsGone(hs'[h], git')
  BY <1>1, <1>e, <1>3, <1>4, NextCases, OthersUnchanged
<1> SUFFICES ASSUME hs'[h].op = "decommission", ~hs'[h].lost PROVE KnowsGone(hs'[h], git') BY DEF KnowsGone
<1>5. CASE DecommissionSteps(h)
  <2>0. git' = git BY <1>5, DecommissionFrame
  <2>1. CASE StartDecommission(h)
    <3>1. hs'[h].step = "cluster" BY <2>1 DEF StartDecommission, Enter
    <3> QED BY <3>1 DEF KnowsGone
  <2>2. CASE FindGone(h)
    <3>1. git.manifest = None /\ "cluster" \notin git.applied /\ Move(h, "projects")
      BY <2>2 DEF FindGone, ClusterGone
    <3>2. hs'[h].step = "projects" BY <3>1, MovedFields
    <3> QED BY <2>0, <3>1, <3>2 DEF KnowsGone
  <2>3. CASE FindProjectsGone(h)
    <3>1. git.mgmt = None /\ "mgmt" \notin git.applied /\ Move(h, "commit") /\ hs[h].step = "projects"
      BY <2>3 DEF FindProjectsGone, ProjectsGone, At
    <3>2. hs[h].op = "decommission" /\ ~hs[h].lost BY <3>1, MovedFields
    <3>3. git'.manifest = None /\ "cluster" \notin git'.applied BY <3>1, <3>2, <1>e DEF KnowsGone
    <3> QED BY <2>0, <3>1, <3>3 DEF KnowsGone
  <2>4. CASE CommitDecommission(h)
    <3>1. hs'[h] = Idle BY <2>4, EndsLife
    <3>2. Idle.op = "idle" BY DEF Idle
    <3> QED BY <3>1, <3>2
  <2> QED BY <1>5, <2>1, <2>2, <2>3, <2>4 DEF DecommissionSteps
<1>6. CASE EditSteps(h) BY <1>6, EditFrame DEF Only
<1>7. CASE GrantSteps(h) BY <1>7, GrantFrame DEF Only
<1>8. CASE CreateSteps(h) BY <1>8, CreateFrame DEF Only
<1>9. CASE IssueSteps(h) BY <1>9, IssueFrame DEF Only
<1>10. CASE RevokeSteps(h) BY <1>10, RevokeFrame DEF Only
<1>11. CASE RemoveSteps(h) BY <1>11, RemoveFrame DEF Only
<1>12. CASE RequestSteps(h) BY <1>12, RequestFrame DEF Only
<1>13. CASE RepoSteps(h) BY <1>13, RepoFrame DEF Only
<1>14. CASE Ends(h) BY <1>14, EndFrame DEF Only
<1>15. CASE Instant(h) BY <1>e, <1>15, InstantFrame
<1>16. CASE LoseSession(h) BY <1>16, LoseFrame
<1> QED BY <1>5, <1>6, <1>7, <1>8, <1>9, <1>10, <1>11, <1>12, <1>13, <1>14, <1>15, <1>16

------------------------------------------------------------------------------
\* Kubeconfigs, their rows d and their role bindings bs.
Told(d, bs) ==
  \A c \in Creds : d.creds[c] # None =>
    /\ d.creds[c].revoked /\ d.row.state = "live" => \A b \in bs : b.id # c
    /\ ~d.creds[c].revoked => d.row.state = "live" /\ d.creds[c].ca = d.row.ca
    /\ \A b \in bs : b.id = c => b.user = d.creds[c].user
Issues(s) == s.op \in {"issue", "rotate"}
\* What a handler knows with or without its session ...
KnowsRows(s, d, bs) ==
  /\ Issues(s) =>
       /\ s.id \in Creds /\ d.creds[s.id] = None
       /\ s.op = "issue" => s.set = {}
       /\ \A b \in bs : b.id = s.id => b.user = s.event.by
  /\ s.op \in {"rotate", "revoke"} =>
       \A c \in s.set : /\ c \in Creds /\ d.creds[c] # None
                        /\ s.step = "commit" => \A b \in bs : b.id # c
\* ... and what only under its lock.
KnowsLocked(s, d, bs) ==
  /\ Issues(s) => s.saw = d.row.ca
  /\ s.op = "edit" => \/ s.event.ca = d.row.ca
                      \/ s.event.ca \in Bundles /\ \A c \in Creds : d.creds[c] # None => d.creds[c].revoked
  /\ s.op = "remove" =>
       /\ s.step = "cascade" => \A b \in bs : b.user = s.event.user /\ d.creds[b.id] # None => b.id \in s.set
       /\ s.step \in {"read", "push", "commit"} =>
            /\ s.saw \subseteq Creds
            /\ \A c \in s.saw : d.creds[c] # None /\ \A b \in bs : b.id # c
KnowsCreds(s, d, bs) == KnowsRows(s, d, bs) /\ (~s.lost => KnowsLocked(s, d, bs))
Apart == \A g, h \in Handlers : g # h /\ Issues(hs[g]) /\ Issues(hs[h]) => hs[g].id # hs[h].id

LEMMA CredsParts == CredsInv <=> Told(db, bindings) /\ Apart /\ \A h \in Handlers : KnowsCreds(hs[h], db, bindings)
<1>1. ASSUME CredsInv PROVE Told(db, bindings) /\ Apart /\ \A h \in Handlers : KnowsCreds(hs[h], db, bindings)
  <2>1. Told(db, bindings) BY <1>1 DEF CredsInv, CredentialsAccounted, Told, Active, Live
  <2>2. Apart BY <1>1 DEF CredsInv, Apart, Issues
  <2>3. \A h \in Handlers : KnowsRows(hs[h], db, bindings) BY <1>1 DEF CredsInv, KnowsRows, Issues, Event
  <2>4. \A h \in Handlers : ~hs[h].lost => KnowsLocked(hs[h], db, bindings)
    BY <1>1 DEF CredsInv, KnowsLocked, Issues, Event, On, ConnectionFree, Active
  <2> QED BY <2>1, <2>2, <2>3, <2>4 DEF KnowsCreds
<1>2. ASSUME Told(db, bindings), Apart, \A h \in Handlers : KnowsCreds(hs[h], db, bindings) PROVE CredsInv
  <2>1. CredentialsAccounted BY <1>2 DEF CredentialsAccounted, Told, Active, Live
  <2>2. \A c \in Creds : db.creds[c] # None => \A b \in bindings : b.id = c => b.user = db.creds[c].user
    BY <1>2 DEF Told
  <2>3. \A h \in Handlers : hs[h].op \in {"issue", "rotate"} =>
       /\ hs[h].id \in Creds /\ db.creds[hs[h].id] = None
       /\ hs[h].op = "issue" => hs[h].set = {}
       /\ \A b \in bindings : b.id = hs[h].id => b.user = Event(h).by
       /\ \A g \in Handlers \ {h} : hs[g].op \in {"issue", "rotate"} => hs[g].id # hs[h].id
    BY <1>2 DEF KnowsCreds, KnowsRows, Apart, Issues, Event
  <2>4. \A h \in Handlers :
       /\ On(h, {"issue", "rotate"}) => hs[h].saw = db.row.ca
       /\ On(h, {"edit"}) => ConnectionFree(Event(h).ca)
    BY <1>2 DEF KnowsCreds, KnowsLocked, Issues, Event, On, ConnectionFree, Active
  <2>5. \A h \in Handlers : hs[h].op \in {"rotate", "revoke"} =>
            \A c \in hs[h].set : /\ c \in Creds /\ db.creds[c] # None
                                 /\ hs[h].step = "commit" => \A b \in bindings : b.id # c
    BY <1>2 DEF KnowsCreds, KnowsRows
  <2>6. \A h \in Handlers : On(h, {"remove"}) =>
            /\ hs[h].step = "cascade" =>
                 \A b \in bindings : b.user = Event(h).user /\ db.creds[b.id] # None => b.id \in hs[h].set
            /\ hs[h].step \in {"read", "push", "commit"} =>
                 /\ hs[h].saw \subseteq Creds
                 /\ \A c \in hs[h].saw : db.creds[c] # None /\ \A b \in bindings : b.id # c
    BY <1>2 DEF KnowsCreds, KnowsLocked, Event, On
  <2> QED BY <2>1, <2>2, <2>3, <2>4, <2>5, <2>6 DEF CredsInv
<1> QED BY <1>1, <1>2

\* Fewer role bindings are no news ...
LEMMA FewerBindings ==
  ASSUME NEW s, NEW d, NEW bs, NEW cs \in SUBSET bs
  PROVE  /\ Told(d, bs) => Told(d, cs)
         /\ KnowsCreds(s, d, bs) => KnowsCreds(s, d, cs)
<1>1. Told(d, bs) => Told(d, cs) BY DEF Told
<1>2. KnowsRows(s, d, bs) => KnowsRows(s, d, cs) BY DEF KnowsRows
<1>3. KnowsLocked(s, d, bs) => KnowsLocked(s, d, cs) BY DEF KnowsLocked
<1> QED BY <1>1, <1>2, <1>3 DEF KnowsCreds

\* ... nor one of an id that no row has, ...
LEMMA NewBinding ==
  ASSUME NEW s, NEW d, NEW bs, NEW b, d.creds[b.id] = None, Issues(s) /\ s.id = b.id => b.user = s.event.by
  PROVE  /\ Told(d, bs) => Told(d, bs \cup {b})
         /\ KnowsCreds(s, d, bs) => KnowsCreds(s, d, bs \cup {b})
<1>1. Told(d, bs) => Told(d, bs \cup {b}) BY DEF Told
<1>2. KnowsRows(s, d, bs) => KnowsRows(s, d, bs \cup {b}) BY DEF KnowsRows
<1>3. KnowsLocked(s, d, bs) => KnowsLocked(s, d, bs \cup {b}) BY DEF KnowsLocked
<1> QED BY <1>1, <1>2, <1>3 DEF KnowsCreds

\* ... nor, without the lock, more rows, of other ids.
LEMMA MoreRows ==
  ASSUME NEW s, NEW d, NEW e, NEW bs, KnowsRows(s, d, bs),
         \A c \in Creds : d.creds[c] # None => e.creds[c] # None,
         Issues(s) => e.creds[s.id] = None
  PROVE  KnowsRows(s, e, bs)
BY DEF KnowsRows

LEMMA SameRows ==
  ASSUME NEW s, NEW d, NEW e, NEW bs, e.creds = d.creds, e.row.ca = d.row.ca, e.row.state = d.row.state
  PROVE  /\ Told(d, bs) => Told(e, bs)
         /\ KnowsCreds(s, d, bs) => KnowsCreds(s, e, bs)
<1>1. Told(d, bs) => Told(e, bs) BY DEF Told
<1>2. KnowsRows(s, d, bs) => KnowsRows(s, e, bs) BY DEF KnowsRows
<1>3. KnowsLocked(s, d, bs) => KnowsLocked(s, e, bs) BY DEF KnowsLocked
<1> QED BY <1>1, <1>2, <1>3 DEF KnowsCreds

LEMMA RetiredFields ==
  ASSUME NEW cred \in Cred \cup {None}
  PROVE  /\ Retired(cred) = None <=> cred = None
         /\ cred # None => Retired(cred).revoked /\ Retired(cred).user = cred.user /\ Retired(cred).ca = cred.ca
<1>1. CASE cred = None BY <1>1 DEF Retired
<1>2. CASE cred # None
  <2>1. Retired(cred) = [cred EXCEPT !.revoked = TRUE] BY <1>2 DEF Retired
  <2>2. PICK yes \in BOOLEAN : yes = TRUE OBVIOUS
  <2>3. DEFINE r == [cred EXCEPT !.revoked = yes]
  <2>4. r \in Cred /\ r.revoked = yes /\ r.user = cred.user /\ r.ca = cred.ca BY <1>2 DEF Cred
  <2>5. Retired(cred) = r BY <2>1, <2>2
  <2> HIDE DEF r
  <2> QED BY <1>2, <2>2, <2>4, <2>5, NoneAssumption
<1> QED BY <1>1, <1>2

Commits(h) ==
  CommitCreate(h) \/ CommitEdit(h) \/ CommitIssue(h) \/ CommitRevoke(h) \/ CommitRemove(h) \/ CommitDecommission(h)
Binds(h) == CreateBinding(h) \/ DeleteBinding(h) \/ DeleteListed(h)

LEMMA CredsKept ==
  ASSUME TypeOK, RequestsInv, [Next]_vars, \A h \in Handlers : ~Commits(h)
  PROVE  db'.creds = db.creds /\ db'.row.ca = db.row.ca /\ db'.row.state = db.row.state
<1> DEFINE Goal == db'.creds = db.creds /\ db'.row.ca = db.row.ca
<1>s. db'.row.state = db.row.state BY StateKept DEF State, Creating, Ending, Commits
<1> SUFFICES Goal BY <1>s
<1> DbOK /\ SessionsOK BY DEF TypeOK
<1> db.row \in Row BY DEF DbOK
<1>0. ASSUME db' = db PROVE Goal BY <1>0
<1>1. CASE UNCHANGED vars BY <1>0, <1>1 DEF vars, state
<1>2. CASE Environment BY <1>0, <1>2, EnvironmentFrame
<1> SUFFICES ASSUME NEW h \in Handlers, ~Commits(h),
                    \/ CreateSteps(h) \/ EditSteps(h) \/ GrantSteps(h) \/ DecommissionSteps(h)
                    \/ IssueSteps(h) \/ RevokeSteps(h) \/ RemoveSteps(h) \/ RequestSteps(h)
                    \/ RepoSteps(h) \/ Ends(h) \/ Instant(h) \/ LoseSession(h)
             PROVE  Goal
  BY <1>1, <1>2, NextCases
<1>3. CASE CreateSteps(h)
  BY <1>0, <1>3 DEF Commits, CreateSteps, StartCreate, WriteProject, AdoptProject, WriteManifest
<1>4. CASE EditSteps(h) BY <1>0, <1>4 DEF Commits, EditSteps, StartEdit, StartAlias, PushAlias
<1>5. CASE GrantSteps(h)
  BY <1>0, <1>5 DEF GrantSteps, StartGrant, ReadAdmins, PushAdmins, CommitGrant, DbOK
<1>6. CASE DecommissionSteps(h)
  BY <1>0, <1>6 DEF Commits, DecommissionSteps, StartDecommission, FindGone, FindProjectsGone
<1>7. CASE IssueSteps(h) BY <1>0, <1>7 DEF Commits, IssueSteps, StartIssue, StartRotate, CreateBinding
<1>8. CASE RevokeSteps(h) BY <1>0, <1>8 DEF Commits, RevokeSteps, StartRevoke, DeleteBinding
<1>9. CASE RemoveSteps(h)
  BY <1>0, <1>9 DEF Commits, RemoveSteps, StartRemove, ListBindings, DeleteListed, MarkRows, CascadeFails
<1>10. CASE RequestSteps(h)
  <2>1. CASE InsertRequest(h) BY <2>1 DEF InsertRequest, DbOK
  <2>2. CASE CommitApply(h)
    <3> DEFINE row == Applied(Request(h), db.row)
    <3>1. db'.row = row /\ db'.creds = db.creds BY <2>2 DEF CommitApply, DbOK
    <3>2. row.ca = db.row.ca
      <4>1. row = db.row \/ (\E v : row = [db.row EXCEPT !.groups = v]) \/ (\E v : row = [db.row EXCEPT !.backup = v])
            \/ ~(Request(h).type \in {"resize", "backup", "addon"})
        BY DEF Applied
      <4>2. Request(h).type \in {"resize", "backup", "addon"}
        <5>1. hs[h].id \in DOMAIN db.requests BY <2>2 DEF RequestsInv, CommitApply, At
        <5> QED BY <5>1, RequestIs DEF Request
      <4> QED BY <4>1, <4>2 DEF Row
    <3> QED BY <3>1, <3>2
  <2>3. CASE CommitDeny(h) BY <2>3 DEF CommitDeny, DbOK
  <2>4. CASE ~InsertRequest(h) /\ ~CommitApply(h) /\ ~CommitDeny(h)
    BY <1>0, <1>10, <2>4 DEF RequestSteps, StartRequest, StartApply, PushQuota, PushGroups, PushBackup, StartDeny
  <2> QED BY <2>1, <2>2, <2>3, <2>4
<1>11. CASE RepoSteps(h) BY <1>0, <1>11, RepoFrame
<1>12. CASE Ends(h) BY <1>0, <1>12, EndFrame
<1>13. CASE Instant(h) BY <1>0, <1>13 DEF Instant, Provision, SaveRepository, Rest, DbOK, Row
<1>14. CASE LoseSession(h) BY <1>0, <1>14, LoseFrame
<1> QED BY <1>3, <1>4, <1>5, <1>6, <1>7, <1>8, <1>9, <1>10, <1>11, <1>12, <1>13, <1>14

LEMMA CommitFrame ==
  ASSUME SessionsOK, NEW h \in Handlers, Commits(h)
  PROVE  /\ bindings' = bindings /\ On(h, RowOps) /\ hs[h].step = "commit"
         /\ hs'[h] = Idle /\ \A g \in Handlers \ {h} : hs'[g] = hs[g]
<1> DOMAIN hs = Handlers BY DEF SessionsOK
<1>1. /\ bindings' = bindings /\ ~hs[h].lost /\ hs[h].op \in RowOps /\ hs[h].step = "commit" /\ Leave(h)
  BY DEF Commits, CommitCreate, CommitEdit, CommitIssue, CommitRevoke, CommitRemove, CommitDecommission, Commit,
         At, Kept, RowOps
<1> QED BY <1>1, Left DEF On, Only

\* What is committed about kubeconfigs: the rows keep telling the truth.
Adds(h) == \A c \in Creds : db'.creds[c] # None <=> db.creds[c] # None \/ (Issues(hs[h]) /\ c = hs[h].id)

LEMMA EditTells ==
  ASSUME TypeOK, NEW h \in Handlers, CommitEdit(h), Live, Told(db, bindings), KnowsLocked(hs[h], db, bindings)
  PROVE  Told(db', bindings) /\ Adds(h)
<1> DbOK BY DEF TypeOK
<1> DEFINE e == Event(h)
           ca == IF e.op = "edit" THEN e.ca ELSE db.row.ca
           row == [db.row EXCEPT !.alias = e.alias, !.ca = ca]
           version == IF row = db.row THEN row.version ELSE row.version + 1
           after == [row EXCEPT !.version = version]
<1>0. hs[h].op \in {"edit", "alias"} BY DEF CommitEdit, At
<1>1. db' = [db EXCEPT !.row = after] BY DEF CommitEdit
<1>2. e.op = "edit" => hs[h].op = "edit" BY <1>0, EventIs DEF TypeOK
<1>3. ca = db.row.ca \/ \A c \in Creds : db.creds[c] # None => db.creds[c].revoked
  BY <1>2 DEF KnowsLocked, Event
<1>4. db.row \in Row BY DEF DbOK
<1> HIDE DEF ca
<1>5. row.ca = ca /\ row.state = db.row.state /\ DOMAIN row = DOMAIN db.row BY <1>4 DEF Row
<1> HIDE DEF row
<1>6. after.ca = ca /\ after.state = db.row.state BY <1>5, <1>4 DEF Row
<1> HIDE DEF after
<1>7. db'.row = after /\ db'.creds = db.creds BY <1>1 DEF DbOK
<1>8. Told(db', bindings) BY <1>3, <1>6, <1>7 DEF Told, Live
<1> QED BY <1>0, <1>7, <1>8 DEF Adds, Issues

LEMMA CreateTells ==
  ASSUME TypeOK, StateInv, NEW h \in Handlers, CommitCreate(h)
  PROVE  Told(db', bindings) /\ Adds(h)
<1>1. hs[h].op = "create" /\ State = "none" /\ db'.creds = db.creds BY Begins
<1>2. \A c \in Creds : db.creds[c] = None BY <1>1, StateParts DEF Untouched
<1> QED BY <1>1, <1>2 DEF Told, Adds, Issues

LEMMA DecommissionTells ==
  ASSUME TypeOK, NEW h \in Handlers, CommitDecommission(h), Told(db, bindings)
  PROVE  Told(db', bindings) /\ Adds(h)
<1> DbOK BY DEF TypeOK
<1>1. hs[h].op = "decommission" /\ db'.row.state = "gone" /\ db'.creds = [c \in Creds |-> Retired(db.creds[c])]
  BY EndsLife DEF State
<1>2. \A c \in Creds : /\ db'.creds[c] # None <=> db.creds[c] # None
                       /\ db.creds[c] # None => db'.creds[c].revoked /\ db'.creds[c].user = db.creds[c].user
  BY <1>1, RetiredFields DEF DbOK
<1> QED BY <1>1, <1>2 DEF Told, Adds, Issues

\* Those of cs are marked revoked, once they have no role binding.
LEMMA RetiringTells ==
  ASSUME TypeOK, Told(db, bindings), db'.row = db.row, NEW cs,
         \A c \in cs : \A b \in bindings : b.id # c,
         NEW creds, creds = [c \in Creds |-> IF c \in cs THEN Retired(db.creds[c]) ELSE db.creds[c]],
         db'.creds = creds
  PROVE  Told(db', bindings) /\ \A c \in Creds : db'.creds[c] # None <=> db.creds[c] # None
<1> DbOK BY DEF TypeOK
<1>1. \A c \in Creds : /\ db'.creds[c] # None <=> db.creds[c] # None
                       /\ db.creds[c] # None => db'.creds[c].user = db.creds[c].user
                       /\ c \in cs /\ db.creds[c] # None => db'.creds[c].revoked
                       /\ c \notin cs => db'.creds[c] = db.creds[c]
  BY RetiredFields DEF DbOK
<1> QED BY <1>1 DEF Told

LEMMA RevokeTells ==
  ASSUME TypeOK, NEW h \in Handlers, CommitRevoke(h), Told(db, bindings), KnowsRows(hs[h], db, bindings)
  PROVE  Told(db', bindings) /\ Adds(h)
<1> DbOK BY DEF TypeOK
<1>1. hs[h].op = "revoke" /\ hs[h].step = "commit" BY DEF CommitRevoke, At
<1>2. \A c \in hs[h].set : \A b \in bindings : b.id # c BY <1>1 DEF KnowsRows
<1>3. /\ db'.creds = [c \in Creds |-> IF c \in hs[h].set THEN Retired(db.creds[c]) ELSE db.creds[c]]
      /\ db'.row = db.row
  BY DEF CommitRevoke, DbOK
<1> QED BY <1>1, <1>2, <1>3, RetiringTells DEF Adds, Issues

LEMMA RemoveTells ==
  ASSUME TypeOK, NEW h \in Handlers, CommitRemove(h), Told(db, bindings), KnowsLocked(hs[h], db, bindings)
  PROVE  Told(db', bindings) /\ Adds(h)
<1> DbOK BY DEF TypeOK
<1>1. hs[h].op = "remove" /\ hs[h].step = "commit" BY DEF CommitRemove, At
<1>2. \A c \in hs[h].saw : \A b \in bindings : b.id # c BY <1>1 DEF KnowsLocked
<1>3. /\ db'.creds = [c \in Creds |-> IF c \in hs[h].saw THEN Retired(db.creds[c]) ELSE db.creds[c]]
      /\ db'.row = db.row
  BY DEF CommitRemove, DbOK
<1> QED BY <1>1, <1>2, <1>3, RetiringTells DEF Adds, Issues

LEMMA IssueTells ==
  ASSUME TypeOK, NEW h \in Handlers, CommitIssue(h), Live, Told(db, bindings), KnowsRows(hs[h], db, bindings),
         KnowsLocked(hs[h], db, bindings)
  PROVE  Told(db', bindings) /\ Adds(h)
<1> DbOK BY DEF TypeOK
<1> DEFINE s == hs[h]
           new == [user |-> s.event.by, ca |-> s.saw, revoked |-> FALSE]
<1>1. s.op \in {"issue", "rotate"} /\ s.step = "commit" BY DEF CommitIssue, At
<1>2. s.id \in Creds /\ db.creds[s.id] = None /\ s.saw = db.row.ca BY <1>1 DEF KnowsRows, KnowsLocked, Issues
<1>3. \A c \in s.set : \A b \in bindings : b.id # c BY <1>1 DEF KnowsRows, Issues
<1>4. \A b \in bindings : b.id = s.id => b.user = s.event.by BY <1>1 DEF KnowsRows, Issues
<1>5. new # None /\ ~new.revoked /\ new.user = s.event.by /\ new.ca = db.row.ca
  <2>1. PICK no \in BOOLEAN : no = FALSE OBVIOUS
  <2>2. Event(h).by \in Users BY <1>1, EventIs DEF Wellformed, TypeOK
  <2>3. s.saw \in Bundles \cup {None} BY <1>1 DEF TypeOK, SessionsOK, IsSession
  <2>4. DEFINE n == [user |-> s.event.by, ca |-> s.saw, revoked |-> no]
  <2>5. n \in Cred /\ n.revoked = no /\ n.user = s.event.by /\ n.ca = s.saw BY <2>2, <2>3 DEF Cred, Event
  <2>6. new = n BY <2>1
  <2> HIDE DEF n, new
  <2> QED BY <1>2, <2>1, <2>5, <2>6, NoneAssumption
<1> DEFINE creds == [c \in Creds |-> IF c = s.id THEN new
                                     ELSE IF c \in s.set THEN Retired(db.creds[c]) ELSE db.creds[c]]
<1>6. db' = [db EXCEPT !.creds = creds] BY DEF CommitIssue, Event
<1> HIDE DEF new
<1>7. \A c \in Creds : /\ creds[c] # None <=> db.creds[c] # None \/ c = s.id
                       /\ db.creds[c] # None => creds[c].user = db.creds[c].user
                       /\ c \in s.set /\ db.creds[c] # None => creds[c].revoked
                       /\ c \notin s.set /\ c # s.id => creds[c] = db.creds[c]
                       /\ c = s.id => creds[c] = new
  BY <1>2, <1>5, RetiredFields DEF DbOK
<1> HIDE DEF creds
<1>8. db'.creds = creds /\ db'.row = db.row BY <1>6 DEF DbOK
<1> HIDE DEF s
<1>9. Told(db', bindings) BY <1>2, <1>3, <1>4, <1>5, <1>7, <1>8 DEF Told, Live
<1>10. Adds(h) BY <1>1, <1>7, <1>8 DEF Adds, Issues, s
<1> QED BY <1>9, <1>10

\* What a handler finds out itself, with the role bindings as they were ...
LEMMA LearnsCreds ==
  ASSUME TypeOK, CredsInv, NEW h \in Handlers, ~Commits(h), ~Binds(h),
         \/ CreateSteps(h) \/ EditSteps(h) \/ GrantSteps(h) \/ DecommissionSteps(h)
         \/ IssueSteps(h) \/ RevokeSteps(h) \/ RemoveSteps(h) \/ RequestSteps(h)
         \/ RepoSteps(h) \/ Ends(h) \/ Instant(h) \/ LoseSession(h)
  PROVE  /\ KnowsCreds(hs'[h], db, bindings)
         /\ Issues(hs'[h]) => \/ Issues(hs[h]) /\ hs'[h].id = hs[h].id
                              \/ \A g \in Handlers : hs[g].id # hs'[h].id
<1> DEFINE Goal == /\ KnowsCreds(hs'[h], db, bindings)
                   /\ Issues(hs'[h]) => \/ Issues(hs[h]) /\ hs'[h].id = hs[h].id
                                        \/ \A g \in Handlers : hs[g].id # hs'[h].id
<1> SUFFICES Goal OBVIOUS
<1> DbOK /\ SessionsOK BY DEF TypeOK
<1> DOMAIN hs = Handlers /\ \A g \in Handlers : IsSession(hs[g]) BY DEF SessionsOK
<1>a. KnowsRows(hs[h], db, bindings) /\ (~hs[h].lost => KnowsLocked(hs[h], db, bindings)) BY CredsParts DEF KnowsCreds
<1>b. Told(db, bindings) BY CredsParts
<1>0. ASSUME hs'[h].op \notin {"edit", "issue", "rotate", "revoke", "remove"} PROVE Goal
  BY <1>0 DEF KnowsCreds, KnowsRows, KnowsLocked, Issues
<1>c. ASSUME Leave(h) PROVE Goal
  <2>1. hs'[h] = Idle BY <1>c, Left
  <2>2. Idle.op = "idle" BY DEF Idle
  <2> QED BY <1>0, <2>1, <2>2
<1>1. CASE CreateSteps(h) BY <1>0, <1>1, CreateFrame DEF Only
<1>2. CASE EditSteps(h)
  <2>1. CASE StartEdit(h)
    <3>1. PICK e \in todo : e.op = "edit" /\ ConnectionFree(e.ca) /\ hs'[h].op = "edit" /\ hs'[h].event = e
      BY <2>1 DEF StartEdit, Wanted, Enter
    <3> QED BY <3>1 DEF KnowsCreds, KnowsRows, KnowsLocked, Issues, ConnectionFree, Active
  <2>2. CASE StartAlias(h) BY <1>0, <2>2 DEF StartAlias, Wanted, Enter
  <2>3. CASE PushAlias(h)
    <3>1. Move(h, "commit") /\ hs[h].op \in {"edit", "alias"} BY <2>3 DEF PushAlias, At
    <3> QED BY <1>a, <3>1, MovedFields DEF KnowsCreds, KnowsRows, KnowsLocked, Issues
  <2> QED BY <1>2, <2>1, <2>2, <2>3 DEF EditSteps, Commits
<1>3. CASE GrantSteps(h)
  <2>1. CASE StartGrant(h) BY <1>0, <2>1 DEF StartGrant, Wanted, Enter
  <2>2. CASE ReadAdmins(h)
    <3>1. /\ hs[h].op \in {"grant", "remove"} /\ hs[h].step = "read" /\ ~hs[h].lost
          /\ hs'[h].op = hs[h].op /\ hs'[h].step = "push" /\ hs'[h].saw = hs[h].saw
      BY <2>2 DEF ReadAdmins, At, IsSession
    <3> QED BY <1>a, <3>1 DEF KnowsCreds, KnowsRows, KnowsLocked, Issues
  <2>3. CASE PushAdmins(h)
    <3>1. Move(h, "commit") /\ hs[h].op \in {"grant", "remove"} /\ hs[h].step = "push" BY <2>3 DEF PushAdmins, At
    <3> QED BY <1>a, <3>1, MovedFields DEF KnowsCreds, KnowsRows, KnowsLocked, Issues
  <2>4. CASE CommitGrant(h) BY <1>c, <2>4 DEF CommitGrant, Commit
  <2> QED BY <1>3, <2>1, <2>2, <2>3, <2>4 DEF GrantSteps
<1>4. CASE DecommissionSteps(h) BY <1>0, <1>4, DecommissionFrame DEF Only
<1>5. CASE IssueSteps(h)
  <2>1. CASE StartIssue(h)
    <3>1. /\ HasNewId /\ hs'[h].op = "issue" /\ hs'[h].id = NewId /\ hs'[h].saw = db.row.ca /\ hs'[h].set = {}
      BY <2>1 DEF StartIssue, Wanted, Enter
    <3>2. /\ NewId \in Creds /\ db.creds[NewId] = None /\ (\A b \in bindings : b.id # NewId)
          /\ \A g \in Handlers : hs[g].id # NewId
      BY <3>1, NewIdIs
    <3> QED BY <3>1, <3>2 DEF KnowsCreds, KnowsRows, KnowsLocked, Issues
  <2>2. CASE StartRotate(h)
    <3>1. PICK c \in Creds : /\ Active(c) /\ HasNewId
                             /\ hs'[h].op = "rotate" /\ hs'[h].id = NewId /\ hs'[h].saw = db.row.ca
                             /\ hs'[h].set = {c} /\ hs'[h].step = "bind"
      BY <2>2 DEF StartRotate, Wanted, Enter
    <3>2. /\ NewId \in Creds /\ db.creds[NewId] = None /\ (\A b \in bindings : b.id # NewId)
          /\ \A g \in Handlers : hs[g].id # NewId
      BY <3>1, NewIdIs
    <3> QED BY <3>1, <3>2 DEF KnowsCreds, KnowsRows, KnowsLocked, Issues, Active
  <2> QED BY <1>5, <2>1, <2>2 DEF IssueSteps, Commits, Binds
<1>6. CASE RevokeSteps(h)
  <2>1. PICK c \in Creds : Active(c) /\ hs'[h].op = "revoke" /\ hs'[h].set = {c} /\ hs'[h].step = "unbind"
    BY <1>6 DEF RevokeSteps, Commits, Binds, StartRevoke, Wanted, Enter
  <2> QED BY <2>1 DEF KnowsCreds, KnowsRows, KnowsLocked, Issues, Active
<1>7. CASE RemoveSteps(h)
  <2>0. hs'[h].op = "remove" => ~Issues(hs'[h]) /\ KnowsRows(hs'[h], db, bindings) BY DEF KnowsRows, Issues
  <2>1. CASE StartRemove(h)
    <3>1. hs'[h].op = "remove" /\ hs'[h].step = "list" BY <2>1 DEF StartRemove, Wanted, Enter
    <3> QED BY <2>0, <3>1 DEF KnowsCreds, KnowsLocked, Issues
  <2>2. CASE ListBindings(h)
    <3>1. /\ hs'[h].op = "remove" /\ hs'[h].step = "cascade" /\ hs'[h].event = hs[h].event
          /\ hs'[h].set = Labelled(Event(h).user)
      BY <2>2 DEF ListBindings, At, IsSession
    <3>2. \A b \in bindings : b.user = Event(h).user => b.id \in Labelled(Event(h).user) BY DEF Labelled
    <3>3. KnowsLocked(hs'[h], db, bindings) BY <3>1, <3>2 DEF KnowsLocked, Issues, Event
    <3> QED BY <2>0, <3>1, <3>3 DEF KnowsCreds
  <2>3. CASE MarkRows(h)
    <3> DEFINE user == Event(h).user
               saw == {c \in Creds : Active(c) /\ db.creds[c].user = user}
    <3>1. /\ hs[h].op = "remove" /\ hs[h].step = "cascade" /\ hs[h].set = {} /\ ~hs[h].lost
          /\ hs' = [hs EXCEPT ![h].step = AfterCascade(user), ![h].saw = saw]
      BY <2>3 DEF MarkRows, At
    <3>2. /\ hs'[h].op = "remove" /\ hs'[h].step = AfterCascade(user) /\ hs'[h].saw = saw
      BY <3>1 DEF IsSession
    <3>3. \A b \in bindings : b.user = user => db.creds[b.id] = None BY <1>a, <3>1 DEF KnowsLocked, Event
    <3>4. \A c \in saw : db.creds[c] # None /\ \A b \in bindings : b.id # c
      BY <1>b, <3>3 DEF Told, Active
    <3>5. AfterCascade(user) \in {"read", "commit"} BY DEF AfterCascade
    <3>6. saw \subseteq Creds OBVIOUS
    <3> HIDE DEF saw
    <3>7. KnowsLocked(hs'[h], db, bindings) BY <3>2, <3>4, <3>5, <3>6 DEF KnowsLocked, Issues
    <3> QED BY <2>0, <3>2, <3>7 DEF KnowsCreds
  <2>4. CASE CascadeFails(h)
    <3>1. /\ hs'[h].op = "remove" /\ hs'[h].step = AfterCascade(Event(h).user) /\ hs'[h].saw = {}
      BY <2>4 DEF CascadeFails, At, IsSession
    <3>2. AfterCascade(Event(h).user) \in {"read", "commit"} BY DEF AfterCascade
    <3>3. KnowsLocked(hs'[h], db, bindings) BY <3>1, <3>2 DEF KnowsLocked, Issues
    <3> QED BY <2>0, <3>1, <3>3 DEF KnowsCreds
  <2> QED BY <1>7, <2>1, <2>2, <2>3, <2>4 DEF RemoveSteps, Commits, Binds
<1>8. CASE RequestSteps(h) BY <1>0, <1>8, RequestFrame DEF Only
<1>9. CASE RepoSteps(h) BY <1>0, <1>9, RepoFrame DEF Only
<1>10. CASE Ends(h) BY <1>0, <1>10, EndFrame DEF Only
<1>11. CASE Instant(h)
  <2>1. hs' = hs BY <1>11, InstantFrame
  <2> QED BY <2>1, <1>a DEF KnowsCreds
<1>12. CASE LoseSession(h) BY <1>a, <1>12, LoseFrame DEF KnowsCreds, KnowsRows, Issues
<1> QED BY <1>1, <1>2, <1>3, <1>4, <1>5, <1>6, <1>7, <1>8, <1>9, <1>10, <1>11, <1>12

LEMMA BindingsKept ==
  ASSUME [Next]_vars, \A h \in Handlers : ~Binds(h)
  PROVE  bindings' = bindings
<1> SUFFICES ASSUME NEW h \in Handlers,
                    \/ CreateSteps(h) \/ EditSteps(h) \/ GrantSteps(h) \/ DecommissionSteps(h)
                    \/ IssueSteps(h) \/ RevokeSteps(h) \/ RemoveSteps(h) \/ RequestSteps(h)
                    \/ RepoSteps(h) \/ Ends(h) \/ Instant(h) \/ LoseSession(h)
             PROVE  bindings' = bindings
  BY NextCases, EnvironmentFrame DEF vars, state
<1> ~Binds(h) OBVIOUS
<1>1. CASE CreateSteps(h)
  BY <1>1 DEF CreateSteps, StartCreate, WriteProject, AdoptProject, WriteManifest, CommitCreate, Kept
<1>2. CASE EditSteps(h) BY <1>2 DEF EditSteps, StartEdit, StartAlias, PushAlias, CommitEdit, Kept
<1>3. CASE GrantSteps(h) BY <1>3 DEF GrantSteps, StartGrant, ReadAdmins, PushAdmins, CommitGrant, Kept
<1>4. CASE DecommissionSteps(h)
  BY <1>4 DEF DecommissionSteps, StartDecommission, FindGone, FindProjectsGone, CommitDecommission, Kept
<1>5. CASE IssueSteps(h) BY <1>5 DEF IssueSteps, StartIssue, StartRotate, CommitIssue, Binds
<1>6. CASE RevokeSteps(h) BY <1>6 DEF RevokeSteps, StartRevoke, CommitRevoke, Binds
<1>7. CASE RemoveSteps(h)
  BY <1>7 DEF RemoveSteps, StartRemove, ListBindings, MarkRows, CascadeFails, CommitRemove, Binds
<1>8. CASE RequestSteps(h)
  BY <1>8 DEF RequestSteps, StartRequest, InsertRequest, StartApply, PushQuota, PushGroups, PushBackup, CommitApply,
              StartDeny, CommitDeny, NotStore
<1>9. CASE RepoSteps(h)
  BY <1>9 DEF RepoSteps, StartReplace, ReadLatest, WriteSecret, CommitReplace, StartValidate, CommitValidate, Rest
<1>10. CASE Ends(h) BY <1>10 DEF Ends, Refuse, Fail, state
<1>11. CASE Instant(h) BY <1>11, InstantFrame
<1>12. CASE LoseSession(h) BY <1>12 DEF LoseSession, state
<1> QED BY <1>1, <1>2, <1>3, <1>4, <1>5, <1>6, <1>7, <1>8, <1>9, <1>10, <1>11, <1>12

\* ... and with those that it makes or deletes.
LEMMA BindsCreds ==
  ASSUME TypeOK, CredsInv, NEW h \in Handlers, Binds(h)
  PROVE  /\ Told(db, bindings') /\ KnowsCreds(hs'[h], db, bindings')
         /\ \A g \in Handlers \ {h} : hs'[g] = hs[g] /\ KnowsCreds(hs[g], db, bindings')
         /\ hs'[h].id = hs[h].id /\ hs'[h].op = hs[h].op
         /\ ~Commits(h) /\ db' = db
<1> DbOK /\ SessionsOK BY DEF TypeOK
<1> DOMAIN hs = Handlers /\ \A g \in Handlers : IsSession(hs[g]) BY DEF SessionsOK
<1>a. Told(db, bindings) /\ Apart /\ \A g \in Handlers : KnowsCreds(hs[g], db, bindings) BY CredsParts
<1>b. KnowsRows(hs[h], db, bindings) /\ (~hs[h].lost => KnowsLocked(hs[h], db, bindings)) BY <1>a DEF KnowsCreds
<1>0. ~Commits(h) /\ db' = db
  BY DEF Binds, CreateBinding, DeleteBinding, DeleteListed, Commits, CommitCreate, CommitEdit, CommitIssue, CommitRevoke,
         CommitRemove, CommitDecommission, At
<1>1. CASE CreateBinding(h)
  <2> DEFINE b == [id |-> hs[h].id, user |-> hs[h].event.by]
  <2>1. /\ Issues(hs[h]) /\ bindings' = bindings \cup {b}
        /\ Move(h, IF hs[h].op = "rotate" THEN "unbind" ELSE "commit")
    BY <1>1 DEF CreateBinding, At, Issues, Event
  <2>2. b.id = hs[h].id /\ b.user = hs[h].event.by OBVIOUS
  <2> HIDE DEF b
  <2>3. PICK step : Move(h, step) /\ (step = "commit" => hs[h].op # "rotate") BY <2>1
  <2>4. db.creds[b.id] = None BY <1>b, <2>1, <2>2 DEF KnowsRows
  <2>5. Told(db, bindings') BY <1>a, <2>1, <2>4, NewBinding, <2>2
  <2>6. ASSUME NEW g \in Handlers \ {h} PROVE KnowsCreds(hs[g], db, bindings')
    BY <1>a, <2>1, <2>2, <2>4, NewBinding DEF Apart
  <2>7. KnowsCreds(hs[h], db, bindings') BY <1>a, <2>1, <2>2, <2>4, NewBinding
  <2>8. /\ hs'[h].op = hs[h].op /\ hs'[h].step = step /\ hs'[h].event = hs[h].event
        /\ hs'[h].id = hs[h].id /\ hs'[h].saw = hs[h].saw /\ hs'[h].set = hs[h].set
        /\ hs'[h].lost = hs[h].lost /\ \A g \in Handlers \ {h} : hs'[g] = hs[g]
    BY <2>3, MovedFields
  <2>9. KnowsRows(hs'[h], db, bindings') BY <2>1, <2>3, <2>7, <2>8 DEF KnowsCreds, KnowsRows, Issues
  <2>10. ~hs'[h].lost => KnowsLocked(hs'[h], db, bindings') BY <2>1, <2>7, <2>8 DEF KnowsCreds, KnowsLocked, Issues
  <2> QED BY <1>0, <2>5, <2>6, <2>8, <2>9, <2>10 DEF KnowsCreds
<1>2. CASE DeleteBinding(h)
  <2>1. /\ hs[h].op \in {"rotate", "revoke"} /\ bindings' = {b \in bindings : b.id \notin hs[h].set}
        /\ Move(h, "commit")
    BY <1>2 DEF DeleteBinding, At
  <2>2. bindings' \in SUBSET bindings BY <2>1
  <2>3. Told(db, bindings') /\ \A g \in Handlers : KnowsCreds(hs[g], db, bindings') BY <1>a, <2>2, FewerBindings
  <2>4. /\ hs'[h].op = hs[h].op /\ hs'[h].step = "commit" /\ hs'[h].event = hs[h].event
        /\ hs'[h].id = hs[h].id /\ hs'[h].saw = hs[h].saw /\ hs'[h].set = hs[h].set
        /\ hs'[h].lost = hs[h].lost /\ \A g \in Handlers \ {h} : hs'[g] = hs[g]
    BY <2>1, MovedFields
  <2>5. KnowsRows(hs[h], db, bindings') BY <2>3 DEF KnowsCreds
  <2>6. \A c \in hs[h].set : \A b \in bindings' : b.id # c BY <2>1
  <2>7. KnowsRows(hs'[h], db, bindings') BY <2>4, <2>5, <2>6 DEF KnowsRows, Issues
  <2>8. ~hs'[h].lost => KnowsLocked(hs'[h], db, bindings') BY <2>1, <2>3, <2>4 DEF KnowsCreds, KnowsLocked, Issues
  <2> QED BY <1>0, <2>3, <2>4, <2>7, <2>8 DEF KnowsCreds
<1>3. CASE DeleteListed(h)
  <2>1. PICK c \in hs[h].set : /\ hs[h].op = "remove" /\ hs[h].step = "cascade"
                               /\ bindings' = {b \in bindings : b.id # c}
                               /\ hs' = [hs EXCEPT ![h].set = hs[h].set \ {c}]
    BY <1>3 DEF DeleteListed, At
  <2>2. bindings' \in SUBSET bindings BY <2>1
  <2>3. Told(db, bindings') /\ \A g \in Handlers : KnowsCreds(hs[g], db, bindings') BY <1>a, <2>2, FewerBindings
  <2>4. /\ hs'[h].op = "remove" /\ hs'[h].step = "cascade" /\ hs'[h].event = hs[h].event
        /\ hs'[h].id = hs[h].id /\ hs'[h].set = hs[h].set \ {c}
        /\ hs'[h].lost = hs[h].lost /\ \A g \in Handlers \ {h} : hs'[g] = hs[g]
    BY <2>1 DEF IsSession
  <2>5. KnowsRows(hs'[h], db, bindings') BY <2>4 DEF KnowsRows, Issues
  <2>6. ~hs'[h].lost => KnowsLocked(hs'[h], db, bindings') BY <1>b, <2>1, <2>2, <2>4 DEF KnowsLocked, Issues
  <2> QED BY <1>0, <2>1, <2>3, <2>4, <2>5, <2>6 DEF KnowsCreds
<1> QED BY <1>1, <1>2, <1>3 DEF Binds

LEMMA CredsStep ==
  ASSUME TypeOK, HoldsInv, RequestsInv, StateInv, CredsInv, [Next]_vars
  PROVE  CredsInv'
<1> DbOK /\ SessionsOK BY DEF TypeOK
<1>a. Told(db, bindings) /\ Apart /\ \A g \in Handlers : KnowsCreds(hs[g], db, bindings) BY CredsParts
<1>b. ASSUME Told(db', bindings'), \A g \in Handlers : KnowsCreds(hs'[g], db', bindings'),
             \A g, h \in Handlers : g # h /\ Issues(hs'[g]) /\ Issues(hs'[h]) => hs'[g].id # hs'[h].id
      PROVE  CredsInv'
  <2>1. CredentialsAccounted' BY <1>b DEF CredentialsAccounted, Told, Active, Live
  <2>2. \A c \in Creds : db'.creds[c] # None => \A b \in bindings' : b.id = c => b.user = db'.creds[c].user
    BY <1>b DEF Told
  <2>3. \A h \in Handlers : hs'[h].op \in {"issue", "rotate"} =>
       /\ hs'[h].id \in Creds /\ db'.creds[hs'[h].id] = None
       /\ hs'[h].op = "issue" => hs'[h].set = {}
       /\ \A b \in bindings' : b.id = hs'[h].id => b.user = hs'[h].event.by
       /\ \A g \in Handlers \ {h} : hs'[g].op \in {"issue", "rotate"} => hs'[g].id # hs'[h].id
    BY <1>b DEF KnowsCreds, KnowsRows, Issues
  <2>4. \A h \in Handlers :
       /\ On(h, {"issue", "rotate"})' => hs'[h].saw = db'.row.ca
       /\ On(h, {"edit"})' => ConnectionFree(Event(h).ca)'
    BY <1>b DEF KnowsCreds, KnowsLocked, Issues, Event, On, ConnectionFree, Active
  <2>5. \A h \in Handlers : hs'[h].op \in {"rotate", "revoke"} =>
            \A c \in hs'[h].set : /\ c \in Creds /\ db'.creds[c] # None
                                  /\ hs'[h].step = "commit" => \A b \in bindings' : b.id # c
    BY <1>b DEF KnowsCreds, KnowsRows
  <2>6. \A h \in Handlers : On(h, {"remove"})' =>
            /\ hs'[h].step = "cascade" =>
                 \A b \in bindings' : b.user = hs'[h].event.user /\ db'.creds[b.id] # None => b.id \in hs'[h].set
            /\ hs'[h].step \in {"read", "push", "commit"} =>
                 /\ hs'[h].saw \subseteq Creds
                 /\ \A c \in hs'[h].saw : db'.creds[c] # None /\ \A b \in bindings' : b.id # c
    BY <1>b DEF KnowsCreds, KnowsLocked, On
  <2> QED BY <2>1, <2>2, <2>3, <2>4, <2>5, <2>6 DEF CredsInv, Event
<1>1. CASE \E h \in Handlers : Commits(h)
  <2>1. PICK h \in Handlers : Commits(h) BY <1>1
  <2>2. /\ bindings' = bindings /\ On(h, RowOps) /\ hs[h].step = "commit"
        /\ hs'[h] = Idle /\ \A g \in Handlers \ {h} : hs'[g] = hs[g]
    BY <2>1, CommitFrame
  <2>3. Idle.op = "idle" BY DEF Idle
  <2>4. Told(db', bindings) /\ Adds(h)
    <3>1. KnowsRows(hs[h], db, bindings) /\ KnowsLocked(hs[h], db, bindings) BY <1>a, <2>2 DEF KnowsCreds, On
    <3>2. CommitEdit(h) \/ CommitIssue(h) => Live
      BY <2>2 DEF StateInv, On, CommitEdit, CommitIssue, At, RowOps
    <3> QED BY <1>a, <2>1, <3>1, <3>2, EditTells, CreateTells, DecommissionTells, RevokeTells, RemoveTells, IssueTells
            DEF Commits
  <2>5. ASSUME NEW g \in Handlers \ {h} PROVE KnowsCreds(hs[g], db', bindings)
    <3>1. ~On(g, RowOps) BY <2>2, OneHolder
    <3>2. KnowsRows(hs[g], db, bindings) BY <1>a DEF KnowsCreds
    <3>3. Issues(hs[g]) => db'.creds[hs[g].id] = None BY <1>a, <2>4, <3>2 DEF Adds, Apart, KnowsRows
    <3>4. KnowsRows(hs[g], db', bindings) BY <2>4, <3>2, <3>3, MoreRows DEF Adds
    <3>5. hs[g].lost \/ KnowsLocked(hs[g], db', bindings) BY <3>1 DEF KnowsLocked, Issues, On, RowOps
    <3> QED BY <3>4, <3>5 DEF KnowsCreds
  <2>6. KnowsCreds(hs'[h], db', bindings) BY <2>2, <2>3 DEF KnowsCreds, KnowsRows, KnowsLocked, Issues
  <2>7. ~Issues(hs'[h]) BY <2>2, <2>3 DEF Issues
  <2> QED BY <1>a, <1>b, <2>2, <2>4, <2>5, <2>6, <2>7 DEF Apart
<1>2. CASE \A h \in Handlers : ~Commits(h)
  <2>1. db'.creds = db.creds /\ db'.row.ca = db.row.ca /\ db'.row.state = db.row.state BY <1>2, CredsKept
  <2>2. ASSUME Told(db, bindings'), \A g \in Handlers : KnowsCreds(hs'[g], db, bindings'),
               \A g, h \in Handlers : g # h /\ Issues(hs'[g]) /\ Issues(hs'[h]) => hs'[g].id # hs'[h].id
        PROVE  CredsInv'
    BY <1>b, <2>1, <2>2, SameRows
  <2>3. CASE \E h \in Handlers : Binds(h)
    <3>1. PICK h \in Handlers : Binds(h) BY <2>3
    <3>2. /\ Told(db, bindings') /\ KnowsCreds(hs'[h], db, bindings')
          /\ \A g \in Handlers \ {h} : hs'[g] = hs[g] /\ KnowsCreds(hs[g], db, bindings')
          /\ hs'[h].id = hs[h].id /\ hs'[h].op = hs[h].op
      BY <3>1, BindsCreds
    <3> QED BY <1>a, <2>2, <3>2 DEF Apart, Issues
  <2>4. CASE \A h \in Handlers : ~Binds(h)
    <3>1. bindings' = bindings BY <2>4, BindingsKept
    <3>2. CASE hs' = hs BY <1>a, <2>2, <3>1, <3>2 DEF Apart
    <3>3. CASE UNCHANGED vars BY <3>2, <3>3 DEF vars
    <3>4. CASE Environment BY <3>2, <3>4, EnvironmentFrame
    <3> SUFFICES ASSUME NEW h \in Handlers,
                        \/ CreateSteps(h) \/ EditSteps(h) \/ GrantSteps(h) \/ DecommissionSteps(h)
                        \/ IssueSteps(h) \/ RevokeSteps(h) \/ RemoveSteps(h) \/ RequestSteps(h)
                        \/ RepoSteps(h) \/ Ends(h) \/ Instant(h) \/ LoseSession(h)
                 PROVE  CredsInv'
      BY <3>3, <3>4, NextCases
    <3>5. /\ KnowsCreds(hs'[h], db, bindings)
          /\ Issues(hs'[h]) => \/ Issues(hs[h]) /\ hs'[h].id = hs[h].id
                               \/ \A g \in Handlers : hs[g].id # hs'[h].id
      BY <1>2, <2>4, LearnsCreds
    <3>6. \A g \in Handlers \ {h} : hs'[g] = hs[g] BY OthersUnchanged
    <3> QED BY <1>a, <2>2, <3>1, <3>5, <3>6 DEF Apart
  <2> QED BY <2>3, <2>4
<1> QED BY <1>1, <1>2

------------------------------------------------------------------------------
\* Access: the role bindings that are not left behind, and the readers of the project
\* that nobody has pushed late.
Bound == {b \in bindings : b.id \notin seen.strays}
Exposed == IF git.mgmt = None THEN {} ELSE git.mgmt.readers \ seen.readers

Granted(access, bound, exposed) ==
  /\ \A b \in bound : b.user \in Sunet \/ access[b.user] # None
  /\ \A u \in exposed : access[u] = "customer_admin"
KnowsAccess(s, access, bound, exposed) ==
  ~s.lost =>
    /\ Issues(s) => s.event.by \in Sunet \/ access[s.event.by] # None
    /\ s.op = "grant" => access[s.event.user] = None
    /\ s.op = "remove" =>
         /\ access[s.event.user] # None
         /\ s.step = "cascade" => \A b \in bound : b.user = s.event.user => b.id \in s.set
         /\ s.step \in {"read", "push", "commit"} => \A b \in bound : b.user # s.event.user
         /\ s.step = "push" => s.event.user \notin s.set
         /\ s.step = "commit" => s.event.user \notin exposed

LEMMA AccessParts ==
  ASSUME AccessInv
  PROVE  Granted(db.access, Bound, Exposed) /\ \A h \in Handlers : KnowsAccess(hs[h], db.access, Bound, Exposed)
<1>1. Granted(db.access, Bound, Exposed) BY DEF AccessInv, Granted, Bound, Exposed
<1>2. ASSUME NEW h \in Handlers PROVE KnowsAccess(hs[h], db.access, Bound, Exposed)
  <2>1. On(h, {"issue", "rotate"}) => Event(h).by \in Sunet \/ db.access[Event(h).by] # None BY DEF AccessInv
  <2>2. On(h, {"grant"}) => db.access[Event(h).user] = None BY DEF AccessInv
  <2>3. On(h, {"remove"}) => 
          /\ db.access[Event(h).user] # None
          /\ hs[h].step = "cascade" => \A b \in Bound : b.user = Event(h).user => b.id \in hs[h].set
          /\ hs[h].step \in {"read", "push", "commit"} => \A b \in Bound : b.user # Event(h).user
          /\ hs[h].step = "push" => Event(h).user \notin hs[h].set
          /\ hs[h].step = "commit" => Event(h).user \notin Exposed
    BY DEF AccessInv, Bound, Exposed
  <2> QED BY <2>1, <2>2, <2>3 DEF KnowsAccess, On, Event, Issues
<1> QED BY <1>1, <1>2

LEMMA AccessAgain ==
  ASSUME Granted(db'.access, Bound', Exposed'),
         \A h \in Handlers : KnowsAccess(hs'[h], db'.access, Bound', Exposed')
  PROVE  AccessInv'
<1>1. \A b \in bindings' : b.id \in seen'.strays \/ b.user \in Sunet \/ db'.access[b.user] # None
  BY DEF Granted, Bound
<1>2. git'.mgmt # None => \A u \in git'.mgmt.readers \ seen'.readers : db'.access[u] = "customer_admin"
  BY DEF Granted, Exposed
<1>3. ASSUME NEW h \in Handlers
      PROVE  /\ On(h, {"issue", "rotate"})' => hs'[h].event.by \in Sunet \/ db'.access[hs'[h].event.by] # None
             /\ On(h, {"grant"})' => db'.access[hs'[h].event.user] = None
  BY DEF KnowsAccess, On, Issues
<1>4. ASSUME NEW h \in Handlers, On(h, {"remove"})'
      PROVE  LET user == hs'[h].event.user
             IN /\ db'.access[user] # None
                /\ hs'[h].step = "cascade" =>
                     \A b \in bindings' : b.user = user => b.id \in hs'[h].set \cup seen'.strays
                /\ hs'[h].step \in {"read", "push", "commit"} =>
                     \A b \in bindings' : b.user = user => b.id \in seen'.strays
                /\ hs'[h].step = "push" => user \notin hs'[h].set
                /\ hs'[h].step = "commit" /\ git'.mgmt # None => user \notin git'.mgmt.readers \ seen'.readers
  BY <1>4 DEF KnowsAccess, On, Bound, Exposed
<1> QED BY <1>1, <1>2, <1>3, <1>4 DEF AccessInv, Event

LEMMA AccessKept ==
  ASSUME TypeOK, RequestsInv, [Next]_vars, \A h \in Handlers : ~CommitGrant(h) /\ ~CommitRemove(h)
  PROVE  db'.access = db.access
<1> DbOK /\ SessionsOK BY DEF TypeOK
<1>0. ASSUME db' = db PROVE db'.access = db.access BY <1>0
<1>1. CASE UNCHANGED vars BY <1>0, <1>1 DEF vars, state
<1>2. CASE Environment BY <1>0, <1>2, EnvironmentFrame
<1> SUFFICES ASSUME NEW h \in Handlers, ~CommitGrant(h), ~CommitRemove(h),
                    \/ CreateSteps(h) \/ EditSteps(h) \/ GrantSteps(h) \/ DecommissionSteps(h)
                    \/ IssueSteps(h) \/ RevokeSteps(h) \/ RemoveSteps(h) \/ RequestSteps(h)
                    \/ RepoSteps(h) \/ Ends(h) \/ Instant(h) \/ LoseSession(h)
             PROVE  db'.access = db.access
  BY <1>1, <1>2, NextCases
<1>3. CASE CreateSteps(h)
  <2>1. CASE CommitCreate(h) BY <2>1, Begins
  <2> QED BY <1>0, <1>3, <2>1 DEF CreateSteps, StartCreate, WriteProject, AdoptProject, WriteManifest
<1>4. CASE EditSteps(h)
  <2>1. CASE CommitEdit(h)
    <3>1. PICK row : db' = [db EXCEPT !.row = row] BY <2>1 DEF CommitEdit
    <3> QED BY <3>1 DEF DbOK
  <2> QED BY <1>0, <1>4, <2>1 DEF EditSteps, StartEdit, StartAlias, PushAlias
<1>5. CASE GrantSteps(h) BY <1>0, <1>5 DEF GrantSteps, StartGrant, ReadAdmins, PushAdmins
<1>6. CASE DecommissionSteps(h)
  <2>1. CASE CommitDecommission(h) BY <2>1, EndsLife
  <2> QED BY <1>0, <1>6, <2>1 DEF DecommissionSteps, StartDecommission, FindGone, FindProjectsGone
<1>7. CASE IssueSteps(h) BY <1>0, <1>7 DEF IssueSteps, StartIssue, StartRotate, CreateBinding, CommitIssue, DbOK
<1>8. CASE RevokeSteps(h) BY <1>0, <1>8 DEF RevokeSteps, StartRevoke, DeleteBinding, CommitRevoke, DbOK
<1>9. CASE RemoveSteps(h) BY <1>0, <1>9 DEF RemoveSteps, StartRemove, ListBindings, DeleteListed, MarkRows, CascadeFails
<1>10. CASE RequestSteps(h)
  BY <1>0, <1>10 DEF RequestSteps, StartRequest, InsertRequest, StartApply, PushQuota, PushGroups, PushBackup,
                     CommitApply, StartDeny, CommitDeny, DbOK
<1>11. CASE RepoSteps(h) BY <1>0, <1>11, RepoFrame
<1>12. CASE Ends(h) BY <1>0, <1>12, EndFrame
<1>13. CASE Instant(h) BY <1>0, <1>13 DEF Instant, Provision, SaveRepository, Rest, DbOK
<1>14. CASE LoseSession(h) BY <1>0, <1>14, LoseFrame
<1> QED BY <1>3, <1>4, <1>5, <1>6, <1>7, <1>8, <1>9, <1>10, <1>11, <1>12, <1>13, <1>14

\* What was left behind stays so, and the readers are pushed by one step alone.
LEMMA SeenKept ==
  ASSUME TypeOK, [Next]_vars
  PROVE  /\ seen.strays \subseteq seen'.strays
         /\ seen'.readers = seen.readers \/ \E h \in Handlers : PushAdmins(h) \/ CommitGrant(h)
<1> SeenOK BY DEF TypeOK
<1> DEFINE Goal == /\ seen.strays \subseteq seen'.strays
                   /\ seen'.readers = seen.readers \/ \E h \in Handlers : PushAdmins(h) \/ CommitGrant(h)
<1> SUFFICES Goal OBVIOUS
<1>0. ASSUME seen' = seen PROVE Goal BY <1>0
<1> SUFFICES ASSUME NEW h \in Handlers,
                    \/ CreateSteps(h) \/ EditSteps(h) \/ GrantSteps(h) \/ DecommissionSteps(h)
                    \/ IssueSteps(h) \/ RevokeSteps(h) \/ RemoveSteps(h) \/ RequestSteps(h)
                    \/ RepoSteps(h) \/ Ends(h) \/ Instant(h) \/ LoseSession(h)
             PROVE  Goal
  BY <1>0, NextCases, EnvironmentFrame DEF vars
<1> SessionsOK BY DEF TypeOK
<1>1. CASE CreateSteps(h)
  <2>1. ASSUME WrittenLate PROVE Goal BY <2>1 DEF WrittenLate, SeenOK
  <2> QED BY <1>0, <1>1, <2>1 DEF CreateSteps, StartCreate, WriteProject, AdoptProject, WriteManifest, CommitCreate
<1>2. CASE EditSteps(h) BY <1>0, <1>2, EditFrame
<1>3. CASE GrantSteps(h)
  <2>1. CASE PushAdmins(h)
    <3>1. seen'.strays = seen.strays BY <2>1 DEF PushAdmins, SeenOK
    <3> QED BY <2>1, <3>1
  <2>2. CASE CommitGrant(h)
    <3>1. seen'.strays = seen.strays BY <2>2 DEF CommitGrant, SeenOK
    <3> QED BY <2>2, <3>1
  <2> QED BY <1>0, <1>3, <2>1, <2>2 DEF GrantSteps, StartGrant, ReadAdmins
<1>4. CASE DecommissionSteps(h) BY <1>0, <1>4, DecommissionFrame
<1>5. CASE IssueSteps(h)
  <2>1. CASE CreateBinding(h)
    <3>1. PICK more : seen' = [seen EXCEPT !.strays = seen.strays \cup more] BY <2>1 DEF CreateBinding
    <3> QED BY <3>1 DEF SeenOK
  <2> QED BY <1>0, <1>5, <2>1 DEF IssueSteps, StartIssue, StartRotate, CommitIssue
<1>6. CASE RevokeSteps(h) BY <1>0, <1>6, RevokeFrame
<1>7. CASE RemoveSteps(h)
  <2>1. CASE CascadeFails(h)
    <3>1. PICK more : seen' = [seen EXCEPT !.strays = seen.strays \cup more] BY <2>1 DEF CascadeFails
    <3> QED BY <3>1 DEF SeenOK
  <2> QED BY <1>0, <1>7, <2>1 DEF RemoveSteps, StartRemove, ListBindings, DeleteListed, MarkRows, CommitRemove
<1>8. CASE RequestSteps(h)
  <2>1. CASE StartApply(h)
    <3>1. \/ seen' = seen
          \/ \E target, overtaken : seen' = [seen EXCEPT !.target = target, !.overtaken = overtaken]
      BY <2>1 DEF StartApply
    <3> QED BY <1>0, <3>1 DEF SeenOK
  <2> QED BY <1>0, <1>8, <2>1 DEF RequestSteps, StartRequest, InsertRequest, PushQuota, PushGroups, PushBackup,
                                   CommitApply, StartDeny, CommitDeny
<1>9. CASE RepoSteps(h) BY <1>0, <1>9, RepoFrame
<1>10. CASE Ends(h) BY <1>0, <1>10, EndFrame
<1>11. CASE Instant(h) BY <1>0, <1>11, InstantFrame
<1>12. CASE LoseSession(h) BY <1>0, <1>12, LoseFrame
<1> QED BY <1>1, <1>2, <1>3, <1>4, <1>5, <1>6, <1>7, <1>8, <1>9, <1>10, <1>11, <1>12

LEMMA ReadersKept ==
  ASSUME TypeOK, [Next]_vars, \A h \in Handlers : ~PushAdmins(h)
  PROVE  \/ git'.mgmt = None \/ git'.mgmt.readers = {}
         \/ git.mgmt # None /\ git'.mgmt.readers = git.mgmt.readers
<1> DEFINE Goal == \/ git'.mgmt = None \/ git'.mgmt.readers = {}
                   \/ git.mgmt # None /\ git'.mgmt.readers = git.mgmt.readers
<1> SUFFICES Goal OBVIOUS
<1> GitOK /\ SessionsOK BY DEF TypeOK
<1>0. ASSUME git'.mgmt = git.mgmt PROVE Goal BY <1>0
<1>1. CASE UNCHANGED vars BY <1>0, <1>1 DEF vars, state
<1>2. CASE Environment
  <2>1. CASE CleanUp
    <3>1. PICK parts, backup : git' = [git EXCEPT !.manifest = IF "cluster" \in parts THEN None ELSE git.manifest,
                                          !.mgmt = IF "mgmt" \in parts THEN None ELSE git.mgmt,
                                          !.backup = backup]
      BY <2>1 DEF CleanUp
    <3>2. git'.mgmt \in {None, git.mgmt} BY <3>1 DEF GitOK
    <3> QED BY <1>0, <3>2
  <2>2. CASE Sync
    <3>1. PICK applied : git' = [git EXCEPT !.applied = applied] BY <2>2 DEF Sync
    <3> QED BY <1>0, <3>1 DEF GitOK
  <2>3. CASE Preview \/ Approve \/ Work BY <1>0, <2>3 DEF Preview, Approve, Work, Rest
  <2> QED BY <1>2, <2>1, <2>2, <2>3 DEF Environment
<1> SUFFICES ASSUME NEW h \in Handlers, ~PushAdmins(h),
                    \/ CreateSteps(h) \/ EditSteps(h) \/ GrantSteps(h) \/ DecommissionSteps(h)
                    \/ IssueSteps(h) \/ RevokeSteps(h) \/ RemoveSteps(h) \/ RequestSteps(h)
                    \/ RepoSteps(h) \/ Ends(h) \/ Instant(h) \/ LoseSession(h)
             PROVE  Goal
  BY <1>1, <1>2, NextCases
<1>3. CASE CreateSteps(h)
  <2>1. CASE WriteProject(h)
    <3>1. git'.mgmt = Project(Event(h)) BY <2>1 DEF WriteProject, GitOK
    <3> QED BY <3>1 DEF Project
  <2>2. CASE AdoptProject(h)
    <3>1. git.mgmt \in OpenstackProject /\ git'.mgmt = [git.mgmt EXCEPT !.readers = {}]
      BY <2>2 DEF AdoptProject, GitOK
    <3> QED BY <3>1 DEF OpenstackProject
  <2>3. CASE WriteManifest(h)
    <3>1. git' = git \/ git' = [git EXCEPT !.manifest = Document(Event(h))] BY <2>3 DEF WriteManifest
    <3> QED BY <1>0, <3>1 DEF GitOK
  <2> QED BY <1>0, <1>3, <2>1, <2>2, <2>3 DEF CreateSteps, StartCreate, CommitCreate
<1>4. CASE EditSteps(h)
  <2>1. CASE PushAlias(h) BY <1>0, <2>1 DEF PushAlias, GitOK
  <2> QED BY <1>0, <1>4, <2>1 DEF EditSteps, StartEdit, StartAlias, CommitEdit
<1>5. CASE GrantSteps(h) BY <1>0, <1>5 DEF GrantSteps, StartGrant, ReadAdmins, CommitGrant
<1>6. CASE DecommissionSteps(h) BY <1>0, <1>6, DecommissionFrame
<1>7. CASE IssueSteps(h) BY <1>0, <1>7, IssueFrame
<1>8. CASE RevokeSteps(h) BY <1>0, <1>8, RevokeFrame
<1>9. CASE RemoveSteps(h) BY <1>0, <1>9, RemoveFrame
<1>10. CASE RequestSteps(h)
  <2>1. CASE PushQuota(h)
    <3> DEFINE quota == Quota(Request(h).target)
    <3>1. git' = [git EXCEPT !.mgmt.quota = quota] /\ git.mgmt \in OpenstackProject BY <2>1 DEF PushQuota, GitOK
    <3> HIDE DEF quota
    <3>2. git'.mgmt = [git.mgmt EXCEPT !.quota = quota] BY <3>1 DEF GitOK
    <3>3. git'.mgmt.readers = git.mgmt.readers BY <3>1, <3>2 DEF OpenstackProject
    <3> QED BY <3>3, <2>1 DEF PushQuota
  <2>2. CASE PushGroups(h) BY <1>0, <2>2 DEF PushGroups, GitOK
  <2>3. CASE PushBackup(h) BY <1>0, <2>3 DEF PushBackup, GitOK
  <2> QED BY <1>0, <1>10, <2>1, <2>2, <2>3
          DEF RequestSteps, StartRequest, InsertRequest, StartApply, CommitApply, StartDeny, CommitDeny
<1>11. CASE RepoSteps(h) BY <1>0, <1>11, RepoFrame
<1>12. CASE Ends(h) BY <1>0, <1>12, EndFrame
<1>13. CASE Instant(h) BY <1>0, <1>13, InstantFrame
<1>14. CASE LoseSession(h) BY <1>0, <1>14, LoseFrame
<1> QED BY <1>3, <1>4, <1>5, <1>6, <1>7, <1>8, <1>9, <1>10, <1>11, <1>12, <1>13, <1>14

LEMMA PushedReaders ==
  ASSUME TypeOK, NEW h \in Handlers, PushAdmins(h)
  PROVE  /\ git.mgmt = None => Exposed' = {}
         /\ git.mgmt # None /\ hs[h].lost => Exposed' = {}
         /\ git.mgmt # None /\ ~hs[h].lost => Exposed' \subseteq hs[h].set \cap Admins(db.access)
<1> GitOK /\ SeenOK BY DEF TypeOK
<1> DEFINE set == hs[h].set
           kept == IF git.mgmt = None THEN seen.readers ELSE IF hs[h].lost THEN set ELSE set \ Admins(db.access)
<1>1. /\ git' = IF git.mgmt = None THEN git ELSE [git EXCEPT !.mgmt.readers = set]
      /\ seen' = [seen EXCEPT !.readers = kept]
  BY DEF PushAdmins
<1> HIDE DEF set
<1>2. seen'.readers = kept BY <1>1 DEF SeenOK
<1>3. CASE git.mgmt = None BY <1>1, <1>3 DEF Exposed
<1>4. CASE git.mgmt # None
  <2>1. git.mgmt \in OpenstackProject /\ git'.mgmt = [git.mgmt EXCEPT !.readers = set] BY <1>1, <1>4 DEF GitOK
  <2>2. git'.mgmt.readers = set BY <2>1 DEF OpenstackProject
  <2> USE DEF set
  <2> QED BY <1>2, <1>4, <2>2 DEF Exposed
<1> QED BY <1>3, <1>4

LEMMA ExposedLess ==
  ASSUME TypeOK, [Next]_vars, \A h \in Handlers : (PushAdmins(h) => hs[h].lost) /\ ~CommitGrant(h)
  PROVE  Exposed' \subseteq Exposed
<1>1. CASE \E h \in Handlers : PushAdmins(h) BY <1>1, PushedReaders
<1>2. CASE \A h \in Handlers : ~PushAdmins(h)
  <2>1. seen'.readers = seen.readers BY <1>2, SeenKept
  <2> QED BY <1>2, <2>1, ReadersKept DEF Exposed
<1> QED BY <1>1, <1>2

LEMMA BoundLess ==
  ASSUME TypeOK, [Next]_vars
  PROVE  \/ Bound' \subseteq Bound
         \/ \E h \in Handlers : /\ CreateBinding(h) /\ ~hs[h].lost
                                /\ Bound' \subseteq Bound \cup {[id |-> hs[h].id, user |-> Event(h).by]}
<1>1. seen.strays \subseteq seen'.strays BY SeenKept
<1>2. ASSUME NEW h \in Handlers, CreateBinding(h), hs[h].lost PROVE Bound' \subseteq Bound
  <2> DEFINE b == [id |-> hs[h].id, user |-> Event(h).by]
  <2>1. bindings' = bindings \cup {b} /\ seen'.strays = seen.strays \cup {hs[h].id}
    BY <1>2 DEF CreateBinding, TypeOK, SeenOK
  <2>2. b.id = hs[h].id OBVIOUS
  <2> HIDE DEF b
  <2> QED BY <1>1, <2>1, <2>2 DEF Bound
<1>3. ASSUME NEW h \in Handlers, CreateBinding(h)
      PROVE  Bound' \subseteq Bound \cup {[id |-> hs[h].id, user |-> Event(h).by]}
  BY <1>1, <1>3 DEF CreateBinding, Bound
<1>4. ASSUME NEW h \in Handlers, DeleteBinding(h) \/ DeleteListed(h) PROVE Bound' \subseteq Bound
  <2>1. bindings' \subseteq bindings BY <1>4 DEF DeleteBinding, DeleteListed
  <2> QED BY <1>1, <2>1 DEF Bound
<1>5. ASSUME \A h \in Handlers : ~Binds(h) PROVE Bound' \subseteq Bound BY <1>1, <1>5, BindingsKept DEF Bound
<1> QED BY <1>2, <1>3, <1>4, <1>5 DEF Binds

LEMMA AccessLess ==
  ASSUME NEW s, NEW access, NEW bound, NEW exposed, NEW b \in SUBSET bound, NEW x \in SUBSET exposed
  PROVE  /\ Granted(access, bound, exposed) => Granted(access, b, x)
         /\ KnowsAccess(s, access, bound, exposed) => KnowsAccess(s, access, b, x)
BY DEF Granted, KnowsAccess

LEMMA AccessAfterFields ==
  ASSUME TypeOK, NEW h \in Handlers, hs[h].op \in {"grant", "remove"}
  PROVE  LET user == hs[h].event.user
             after == AccessAfter(Event(h))
         IN /\ user \in Users /\ \A u \in Users : u # user => after[u] = db.access[u]
            /\ hs[h].op = "grant" => after[user] \in Roles /\ after[user] # None
            /\ hs[h].op = "remove" => after[user] = None
<1> DbOK /\ SessionsOK BY DEF TypeOK
<1> DEFINE e == Event(h)
<1>1. e.op = hs[h].op /\ e.user \in Users /\ (e.op = "grant" => e.role \in Roles) BY EventIs DEF Wellformed
<1>2. /\ \A u \in Users : u # e.user => AccessAfter(e)[u] = db.access[u]
      /\ e.op = "grant" => AccessAfter(e)[e.user] = e.role
      /\ e.op # "grant" => AccessAfter(e)[e.user] = None
  BY <1>1 DEF AccessAfter, DbOK
<1> QED BY <1>1, <1>2, NoneAssumption DEF Event

\* Access is granted ...
LEMMA CommitGrantAccess ==
  ASSUME TypeOK, NEW h \in Handlers, CommitGrant(h), Granted(db.access, Bound, Exposed),
         KnowsAccess(hs[h], db.access, Bound, Exposed)
  PROVE  Granted(db'.access, Bound', Exposed')
<1> DbOK /\ GitOK /\ SeenOK BY DEF TypeOK
<1> DEFINE user == hs[h].event.user
           after == AccessAfter(Event(h))
<1>1. /\ hs[h].op = "grant" /\ ~hs[h].lost /\ bindings' = bindings /\ git' = git
      /\ db' = [db EXCEPT !.access = after] /\ seen' = [seen EXCEPT !.readers = seen.readers \ Admins(after)]
  BY DEF CommitGrant, At, Commit, Kept
<1>2. user \in Users /\ (\A u \in Users : u # user => after[u] = db.access[u]) /\ after[user] # None
  BY <1>1, AccessAfterFields
<1>3. db.access[user] = None BY <1>1 DEF KnowsAccess
<1> HIDE DEF after
<1>4. db'.access = after /\ seen'.strays = seen.strays /\ seen'.readers = seen.readers \ Admins(after)
  BY <1>1 DEF DbOK, SeenOK
<1>5. Bound' = Bound BY <1>1, <1>4 DEF Bound
<1>6. Exposed' \subseteq Exposed \cup Admins(after) BY <1>1, <1>4 DEF Exposed
<1>7. Exposed \subseteq Users BY DEF Exposed, GitOK, OpenstackProject
<1>8. \A b \in Bound : b.user \in Users BY DEF Bound, TypeOK, Binding
<1>9. \A b \in Bound : b.user \in Sunet \/ after[b.user] # None BY <1>2, <1>8 DEF Granted
<1>10. \A u \in Exposed : after[u] = "customer_admin" BY <1>2, <1>3, <1>7, NoneAssumption DEF Granted, Roles
<1>11. \A u \in Admins(after) : after[u] = "customer_admin" BY DEF Admins
<1> QED BY <1>4, <1>5, <1>6, <1>9, <1>10, <1>11 DEF Granted

\* ... and removed.
LEMMA CommitRemoveAccess ==
  ASSUME TypeOK, NEW h \in Handlers, CommitRemove(h), Granted(db.access, Bound, Exposed),
         KnowsAccess(hs[h], db.access, Bound, Exposed)
  PROVE  Granted(db'.access, Bound', Exposed')
<1> DbOK /\ GitOK BY DEF TypeOK
<1> DEFINE user == hs[h].event.user
           after == AccessAfter(Event(h))
<1>1. /\ hs[h].op = "remove" /\ hs[h].step = "commit" /\ ~hs[h].lost
      /\ bindings' = bindings /\ git' = git /\ seen' = seen
  BY DEF CommitRemove, At, Commit, NotGit
<1>2. db'.access = after
  <2>1. PICK creds : db' = [db EXCEPT !.access = after, !.creds = creds] BY DEF CommitRemove
  <2> QED BY <2>1 DEF DbOK
<1>3. user \in Users /\ \A u \in Users : u # user => after[u] = db.access[u] BY <1>1, AccessAfterFields
<1>4. user \notin Exposed /\ \A b \in Bound : b.user # user BY <1>1 DEF KnowsAccess
<1> HIDE DEF after
<1>5. Bound' = Bound /\ Exposed' = Exposed BY <1>1 DEF Bound, Exposed
<1>6. Exposed \subseteq Users BY DEF Exposed, GitOK, OpenstackProject
<1>7. \A b \in Bound : b.user \in Users BY DEF Bound, TypeOK, Binding
<1> HIDE DEF user
<1> QED BY <1>2, <1>3, <1>4, <1>5, <1>6, <1>7 DEF Granted

\* What a handler finds out itself.
LEMMA LearnsAccess ==
  ASSUME TypeOK, AccessInv, NEW h \in Handlers, ~CommitGrant(h), ~CommitRemove(h),
         CreateBinding(h) \/ PushAdmins(h) => hs[h].lost,
         Bound' \subseteq Bound, Exposed' \subseteq Exposed,
         \/ CreateSteps(h) \/ EditSteps(h) \/ GrantSteps(h) \/ DecommissionSteps(h)
         \/ IssueSteps(h) \/ RevokeSteps(h) \/ RemoveSteps(h) \/ RequestSteps(h)
         \/ RepoSteps(h) \/ Ends(h) \/ Instant(h) \/ LoseSession(h)
  PROVE  KnowsAccess(hs'[h], db.access, Bound', Exposed')
<1> DEFINE Goal == KnowsAccess(hs'[h], db.access, Bound', Exposed')
<1> SUFFICES Goal OBVIOUS
<1> DbOK /\ SessionsOK BY DEF TypeOK
<1> DOMAIN hs = Handlers /\ \A g \in Handlers : IsSession(hs[g]) BY DEF SessionsOK
<1>a. KnowsAccess(hs[h], db.access, Bound, Exposed) /\ Granted(db.access, Bound, Exposed) BY AccessParts
<1>0. ASSUME hs'[h].op \notin {"issue", "rotate", "grant", "remove"} PROVE Goal BY <1>0 DEF KnowsAccess, Issues
<1>b. ASSUME hs'[h].lost PROVE Goal BY <1>b DEF KnowsAccess
<1>c. ASSUME Leave(h) PROVE Goal
  <2>1. hs'[h] = Idle BY <1>c, Left
  <2>2. Idle.op = "idle" BY DEF Idle
  <2> QED BY <1>0, <2>1, <2>2
<1>d. ASSUME KnowsAccess(hs'[h], db.access, Bound, Exposed) PROVE Goal BY <1>d, AccessLess
<1>e. ASSUME NEW step, Move(h, step), hs[h].lost PROVE Goal BY <1>b, <1>e, MovedFields
<1>1. CASE CreateSteps(h) BY <1>0, <1>1, CreateFrame DEF Only
<1>2. CASE EditSteps(h) BY <1>0, <1>2, EditFrame DEF Only
<1>3. CASE GrantSteps(h)
  <2>1. CASE StartGrant(h)
    <3>1. hs'[h].op = "grant" /\ db.access[hs'[h].event.user] = None BY <2>1 DEF StartGrant, Wanted, Enter
    <3> QED BY <1>d, <3>1 DEF KnowsAccess, Issues
  <2>2. CASE ReadAdmins(h)
    <3> DEFINE after == AccessAfter(Event(h))
               set == Admins(after)
    <3>1. /\ hs[h].op \in {"grant", "remove"} /\ hs[h].step = "read" /\ ~hs[h].lost
          /\ hs'[h].op = hs[h].op /\ hs'[h].event = hs[h].event /\ hs'[h].step = "push" /\ hs'[h].set = set
      BY <2>2 DEF ReadAdmins, At, IsSession
    <3>2. hs[h].op = "remove" => after[hs[h].event.user] = None BY <3>1, AccessAfterFields
    <3>3. hs[h].op = "remove" => hs[h].event.user \notin set BY <3>2, NoneAssumption DEF Admins, Roles
    <3> HIDE DEF set
    <3>4. KnowsAccess(hs'[h], db.access, Bound, Exposed) BY <1>a, <3>1, <3>3 DEF KnowsAccess, Issues
    <3> QED BY <1>d, <3>4
  <2>3. CASE PushAdmins(h) BY <1>e, <2>3 DEF PushAdmins
  <2> QED BY <1>3, <2>1, <2>2, <2>3 DEF GrantSteps
<1>4. CASE DecommissionSteps(h) BY <1>0, <1>4, DecommissionFrame DEF Only
<1>5. CASE IssueSteps(h)
  <2>1. CASE StartIssue(h) \/ StartRotate(h)
    <3>1. Issues(hs'[h]) /\ May(hs'[h].event.by, "user")
      BY <2>1 DEF StartIssue, StartRotate, Wanted, Enter, Issues
    <3>2. hs'[h].event.by \in Sunet \/ db.access[hs'[h].event.by] # None
      BY <3>1, NoneAssumption DEF May, Roles
    <3> QED BY <1>d, <3>1, <3>2 DEF KnowsAccess, Issues
  <2>2. CASE CreateBinding(h) BY <1>e, <2>2 DEF CreateBinding
  <2>3. CASE CommitIssue(h) BY <1>c, <2>3 DEF CommitIssue, Commit
  <2> QED BY <1>5, <2>1, <2>2, <2>3 DEF IssueSteps
<1>6. CASE RevokeSteps(h)
  <2>1. CASE StartRevoke(h) BY <1>0, <2>1 DEF StartRevoke, Wanted, Enter
  <2>2. CASE DeleteBinding(h)
    <3>1. Move(h, "commit") /\ hs[h].op \in {"rotate", "revoke"} BY <2>2 DEF DeleteBinding, At
    <3>2. KnowsAccess(hs'[h], db.access, Bound, Exposed) BY <1>a, <3>1, MovedFields DEF KnowsAccess, Issues
    <3> QED BY <1>d, <3>2
  <2>3. CASE CommitRevoke(h) BY <1>c, <2>3 DEF CommitRevoke, Commit
  <2> QED BY <1>6, <2>1, <2>2, <2>3 DEF RevokeSteps
<1>7. CASE RemoveSteps(h)
  <2> DEFINE user == hs[h].event.user
  <2>1. CASE StartRemove(h)
    <3>1. hs'[h].op = "remove" /\ hs'[h].step = "list" /\ db.access[hs'[h].event.user] # None
      BY <2>1 DEF StartRemove, Wanted, Enter
    <3> QED BY <1>d, <3>1 DEF KnowsAccess, Issues
  <2>2. CASE ListBindings(h)
    <3>1. /\ hs[h].op = "remove" /\ hs'[h].op = "remove" /\ hs'[h].step = "cascade" /\ hs'[h].event = hs[h].event
          /\ hs'[h].set = Labelled(user) /\ hs'[h].lost = hs[h].lost
      BY <2>2 DEF ListBindings, At, IsSession, Event
    <3>2. \A b \in Bound : b.user = user => b.id \in Labelled(user) BY DEF Bound, Labelled
    <3>3. KnowsAccess(hs'[h], db.access, Bound, Exposed) BY <1>a, <3>1, <3>2 DEF KnowsAccess, Issues
    <3> QED BY <1>d, <3>3
  <2>3. CASE DeleteListed(h)
    <3>1. PICK c \in hs[h].set : /\ hs[h].op = "remove" /\ hs[h].step = "cascade"
                                 /\ bindings' = {b \in bindings : b.id # c}
                                 /\ hs' = [hs EXCEPT ![h].set = hs[h].set \ {c}]
      BY <2>3 DEF DeleteListed, At
    <3>2. /\ hs'[h].op = "remove" /\ hs'[h].step = "cascade" /\ hs'[h].event = hs[h].event
          /\ hs'[h].set = hs[h].set \ {c} /\ hs'[h].lost = hs[h].lost
      BY <3>1 DEF IsSession
    <3>3. \A b \in Bound' : b.id # c BY <3>1 DEF Bound
    <3>4. ASSUME ~hs[h].lost
          PROVE  db.access[user] # None /\ \A b \in Bound' : b.user = user => b.id \in hs'[h].set
      BY <1>a, <3>1, <3>2, <3>3, <3>4 DEF KnowsAccess
    <3> QED BY <3>2, <3>4 DEF KnowsAccess, Issues
  <2>4. CASE MarkRows(h)
    <3>1. /\ hs[h].op = "remove" /\ hs[h].step = "cascade" /\ hs[h].set = {} /\ ~hs[h].lost
          /\ hs'[h].op = "remove" /\ hs'[h].step = AfterCascade(user) /\ hs'[h].event = hs[h].event
      BY <2>4 DEF MarkRows, At, IsSession, Event
    <3>2. db.access[user] # None /\ \A b \in Bound : b.user # user BY <1>a, <3>1 DEF KnowsAccess
    <3>3. AfterCascade(user) = "read" \/ (AfterCascade(user) = "commit" /\ user \notin Exposed)
      BY <1>a DEF AfterCascade, Granted
    <3>4. KnowsAccess(hs'[h], db.access, Bound, Exposed) BY <3>1, <3>2, <3>3 DEF KnowsAccess, Issues
    <3> QED BY <1>d, <3>4
  <2>5. CASE CascadeFails(h)
    <3>1. /\ hs[h].op = "remove" /\ ~hs[h].lost /\ bindings' = bindings
          /\ hs'[h].op = "remove" /\ hs'[h].step = AfterCascade(user) /\ hs'[h].event = hs[h].event
      BY <2>5 DEF CascadeFails, At, IsSession, Event
    <3>2. seen'.strays = seen.strays \cup {b.id : b \in {b \in bindings : b.user = user}}
      BY <2>5 DEF CascadeFails, TypeOK, SeenOK, Event
    <3>3. \A b \in Bound' : b.user # user BY <3>1, <3>2 DEF Bound
    <3>4. db.access[user] # None BY <1>a, <3>1 DEF KnowsAccess
    <3>5. AfterCascade(user) = "read" \/ (AfterCascade(user) = "commit" /\ user \notin Exposed')
      BY <1>a DEF AfterCascade, Granted
    <3> QED BY <3>1, <3>3, <3>4, <3>5 DEF KnowsAccess, Issues
  <2> QED BY <1>7, <2>1, <2>2, <2>3, <2>4, <2>5 DEF RemoveSteps
<1>8. CASE RequestSteps(h) BY <1>0, <1>8, RequestFrame DEF Only
<1>9. CASE RepoSteps(h) BY <1>0, <1>9, RepoFrame DEF Only
<1>10. CASE Ends(h) BY <1>0, <1>10, EndFrame DEF Only
<1>11. CASE Instant(h)
  <2>1. hs' = hs BY <1>11, InstantFrame
  <2> QED BY <1>a, <1>d, <2>1
<1>12. CASE LoseSession(h) BY <1>b, <1>12, LoseFrame
<1> QED BY <1>1, <1>2, <1>3, <1>4, <1>5, <1>6, <1>7, <1>8, <1>9, <1>10, <1>11, <1>12

LEMMA AccessStep ==
  ASSUME TypeOK, HoldsInv, RequestsInv, AccessInv, [Next]_vars
  PROVE  AccessInv'
<1> DbOK /\ SessionsOK BY DEF TypeOK
<1> DOMAIN hs = Handlers /\ \A g \in Handlers : IsSession(hs[g]) BY DEF SessionsOK
<1>a. Granted(db.access, Bound, Exposed) /\ \A g \in Handlers : KnowsAccess(hs[g], db.access, Bound, Exposed)
  BY AccessParts
<1> SUFFICES /\ Granted(db'.access, Bound', Exposed')
             /\ \A g \in Handlers : KnowsAccess(hs'[g], db'.access, Bound', Exposed')
  BY AccessAgain
\* While one holds the lock, no other handler knows anything.
<1>b. ASSUME NEW h \in Handlers, On(h, RowOps), NEW g \in Handlers \ {h}, NEW access, NEW bound, NEW exposed
      PROVE  KnowsAccess(hs[g], access, bound, exposed)
  <2>1. ~On(g, RowOps) BY <1>b, OneHolder
  <2> QED BY <2>1 DEF KnowsAccess, On, Issues, RowOps
<1>1. CASE \E h \in Handlers : CommitGrant(h) \/ CommitRemove(h)
  <2>1. PICK h \in Handlers : CommitGrant(h) \/ CommitRemove(h) BY <1>1
  <2>2. Leave(h) /\ On(h, RowOps) BY <2>1 DEF CommitGrant, CommitRemove, Commit, At, On, RowOps
  <2>3. hs'[h] = Idle /\ \A g \in Handlers \ {h} : hs'[g] = hs[g] BY <2>2, Left DEF Only
  <2>4. Idle.op = "idle" BY DEF Idle
  <2>5. KnowsAccess(hs'[h], db'.access, Bound', Exposed') BY <2>3, <2>4 DEF KnowsAccess, Issues
  <2>6. Granted(db'.access, Bound', Exposed') BY <1>a, <2>1, CommitGrantAccess, CommitRemoveAccess
  <2> QED BY <1>b, <2>2, <2>3, <2>5, <2>6
<1>2. CASE \E h \in Handlers : CreateBinding(h) /\ ~hs[h].lost
  <2>1. PICK h \in Handlers : CreateBinding(h) /\ ~hs[h].lost BY <1>2
  <2> DEFINE b == [id |-> hs[h].id, user |-> hs[h].event.by]
  <2>2. PICK step : Move(h, step) BY <2>1 DEF CreateBinding
  <2>3. /\ Issues(hs[h]) /\ db' = db /\ git' = git /\ bindings' = bindings \cup {b}
        /\ seen'.strays = seen.strays /\ seen'.readers = seen.readers
    BY <2>1 DEF CreateBinding, At, Issues, NotGit, Event, TypeOK, SeenOK
  <2>4. On(h, RowOps) BY <2>1, <2>3 DEF On, Issues, RowOps
  <2>5. b.user = hs[h].event.by OBVIOUS
  <2> HIDE DEF b
  <2>6. Bound' \subseteq Bound \cup {b} /\ Exposed' = Exposed BY <2>3 DEF Bound, Exposed
  <2>7. b.user \in Sunet \/ db.access[b.user] # None BY <1>a, <2>1, <2>3, <2>5 DEF KnowsAccess
  <2>8. Granted(db'.access, Bound', Exposed') BY <1>a, <2>3, <2>6, <2>7 DEF Granted
  <2>9. KnowsAccess(hs'[h], db'.access, Bound', Exposed') BY <1>a, <2>2, <2>3, MovedFields DEF KnowsAccess, Issues
  <2>10. \A g \in Handlers \ {h} : hs'[g] = hs[g] BY <2>2, MovedFields
  <2> QED BY <1>b, <2>4, <2>8, <2>9, <2>10
<1>3. CASE \E h \in Handlers : PushAdmins(h) /\ ~hs[h].lost
  <2>1. PICK h \in Handlers : PushAdmins(h) /\ ~hs[h].lost BY <1>3
  <2>2. /\ hs[h].op \in {"grant", "remove"} /\ hs[h].step = "push" /\ Move(h, "commit")
        /\ db' = db /\ bindings' = bindings
    BY <2>1 DEF PushAdmins, At, Kept
  <2>3. On(h, RowOps) BY <2>1, <2>2 DEF On, RowOps
  <2>4. Bound' \subseteq Bound BY <2>2, SeenKept DEF Bound
  <2>5. Exposed' \subseteq hs[h].set \cap Admins(db.access) BY <2>1, PushedReaders
  <2>6. Granted(db'.access, Bound', Exposed') BY <1>a, <2>2, <2>4, <2>5 DEF Granted, Admins
  <2>7. KnowsAccess(hs'[h], db'.access, Bound', Exposed')
    BY <1>a, <2>1, <2>2, <2>4, <2>5, MovedFields DEF KnowsAccess, Issues
  <2>8. \A g \in Handlers \ {h} : hs'[g] = hs[g] BY <2>2, MovedFields
  <2> QED BY <1>b, <2>3, <2>6, <2>7, <2>8
<1>4. CASE \A h \in Handlers : /\ ~CommitGrant(h) /\ ~CommitRemove(h)
                               /\ CreateBinding(h) \/ PushAdmins(h) => hs[h].lost
  <2>1. db'.access = db.access BY <1>4, AccessKept
  <2>2. Bound' \subseteq Bound BY <1>4, BoundLess
  <2>3. Exposed' \subseteq Exposed BY <1>4, ExposedLess
  <2>4. Granted(db'.access, Bound', Exposed') BY <1>a, <2>1, <2>2, <2>3, AccessLess
  <2>5. \A g \in Handlers : KnowsAccess(hs[g], db'.access, Bound', Exposed') BY <1>a, <2>1, <2>2, <2>3, AccessLess
  <2>6. CASE hs' = hs BY <2>4, <2>5, <2>6
  <2>7. CASE UNCHANGED vars BY <2>6, <2>7 DEF vars
  <2>8. CASE Environment BY <2>6, <2>8, EnvironmentFrame
  <2> SUFFICES ASSUME NEW h \in Handlers,
                      \/ CreateSteps(h) \/ EditSteps(h) \/ GrantSteps(h) \/ DecommissionSteps(h)
                      \/ IssueSteps(h) \/ RevokeSteps(h) \/ RemoveSteps(h) \/ RequestSteps(h)
                      \/ RepoSteps(h) \/ Ends(h) \/ Instant(h) \/ LoseSession(h)
               PROVE  /\ Granted(db'.access, Bound', Exposed')
                      /\ \A g \in Handlers : KnowsAccess(hs'[g], db'.access, Bound', Exposed')
    BY <2>7, <2>8, NextCases
  <2>9. KnowsAccess(hs'[h], db.access, Bound', Exposed') BY <1>4, <2>2, <2>3, LearnsAccess
  <2>10. \A g \in Handlers \ {h} : hs'[g] = hs[g] BY OthersUnchanged
  <2> QED BY <2>1, <2>4, <2>5, <2>9, <2>10
<1> QED BY <1>1, <1>2, <1>3, <1>4

------------------------------------------------------------------------------
\* Sizes: the groups in the row, the last size that was asked for, and the two files.
Sized(groups, target, manifest, mgmt) ==
  /\ target # 0 => groups <= target
  /\ manifest # None =>
       /\ groups <= manifest.groups
       /\ IF target = 0 THEN manifest.groups = groups ELSE manifest.groups <= target
       /\ mgmt # None => Covers(mgmt.quota, manifest.groups)
Resizing(s, requests) == s.op = "apply" /\ requests[s.id].type = "resize"
Positive(s, requests) == Resizing(s, requests) => 0 < requests[s.id].target
KnowsSize(s, requests, target, manifest, mgmt) ==
  Resizing(s, requests) =>
    /\ requests[s.id].target <= target
    /\ s.step \in {"quota", "groups"} => requests[s.id].target = target
    /\ s.step = "groups" /\ mgmt # None => mgmt.quota = Quota(target)
    /\ s.step = "commit" /\ manifest # None => requests[s.id].target <= manifest.groups

LEMMA CoverParts ==
  ASSUME CoverInv
  PROVE  /\ \A h \in Handlers : Positive(hs[h], db.requests)
         /\ Steady => /\ Sized(db.row.groups, seen.target, git.manifest, git.mgmt)
                      /\ \A h \in Handlers : KnowsSize(hs[h], db.requests, seen.target, git.manifest, git.mgmt)
<1>1. \A h \in Handlers : Positive(hs[h], db.requests) BY DEF CoverInv, Positive, Resizing, Resizes, Request
<1>2. Steady => Sized(db.row.groups, seen.target, git.manifest, git.mgmt) BY DEF CoverInv, Sized
<1>3. Steady => \A h \in Handlers : KnowsSize(hs[h], db.requests, seen.target, git.manifest, git.mgmt)
  BY DEF CoverInv, KnowsSize, Resizing, Resizes, Request
<1> QED BY <1>1, <1>2, <1>3

LEMMA CoverAgain ==
  ASSUME \A h \in Handlers : Positive(hs'[h], db'.requests),
         Steady' => /\ Sized(db'.row.groups, seen'.target, git'.manifest, git'.mgmt)
                    /\ \A h \in Handlers : KnowsSize(hs'[h], db'.requests, seen'.target, git'.manifest, git'.mgmt)
  PROVE  CoverInv'
<1>1. \A h \in Handlers : Resizes(h)' => 0 < Request(h).target' BY DEF Positive, Resizing, Resizes, Request
<1>2. Steady' =>
       /\ seen'.target # 0 => db'.row.groups <= seen'.target
       /\ git'.manifest # None =>
            /\ db'.row.groups <= git'.manifest.groups
            /\ IF seen'.target = 0 THEN git'.manifest.groups = db'.row.groups
                                   ELSE git'.manifest.groups <= seen'.target
            /\ git'.mgmt # None => Covers(git'.mgmt.quota, git'.manifest.groups)
  BY DEF Sized
<1>3. Steady' => \A h \in Handlers : Resizes(h)' =>
            /\ Request(h)'.target <= seen'.target
            /\ hs'[h].step \in {"quota", "groups"} => Request(h)'.target = seen'.target
            /\ hs'[h].step = "groups" /\ git'.mgmt # None => git'.mgmt.quota = Quota(seen'.target)
            /\ hs'[h].step = "commit" /\ git'.manifest # None => Request(h)'.target <= git'.manifest.groups
  BY DEF KnowsSize, Resizing, Resizes, Request
<1> QED BY <1>1, <1>2, <1>3 DEF CoverInv

LEMMA QuotaGrows ==
  ASSUME NEW g \in Nat, NEW k \in Nat, k <= g
  PROVE  Covers(Quota(g), k)
BY DEF Covers, Quota

\* Both files keep their sizes, or are removed.
SizeKept ==
  /\ git'.manifest # None => git.manifest # None /\ git'.manifest.groups = git.manifest.groups
  /\ git'.mgmt # None => git.mgmt # None /\ git'.mgmt.quota = git.mgmt.quota

LEMMA SizeStays ==
  ASSUME SizeKept, NEW groups, NEW target
  PROVE  /\ Sized(groups, target, git.manifest, git.mgmt) => Sized(groups, target, git'.manifest, git'.mgmt)
         /\ \A s, requests : KnowsSize(s, requests, target, git.manifest, git.mgmt) =>
                               KnowsSize(s, requests, target, git'.manifest, git'.mgmt)
BY DEF SizeKept, Sized, KnowsSize

LEMMA SizesKept ==
  ASSUME TypeOK, [Next]_vars, State # "none", ~seen'.late, \A h \in Handlers : ~PushQuota(h) /\ ~PushGroups(h)
  PROVE  SizeKept
<1> GitOK /\ SessionsOK /\ SeenOK BY DEF TypeOK
<1>0. ASSUME git'.mgmt = git.mgmt, git'.manifest = git.manifest PROVE SizeKept BY <1>0 DEF SizeKept
<1>1. CASE UNCHANGED vars BY <1>0, <1>1 DEF vars, state
<1>2. CASE Environment
  <2>1. CASE CleanUp
    <3>1. PICK parts, backup : git' = [git EXCEPT !.manifest = IF "cluster" \in parts THEN None ELSE git.manifest,
                                          !.mgmt = IF "mgmt" \in parts THEN None ELSE git.mgmt,
                                          !.backup = backup]
      BY <2>1 DEF CleanUp
    <3>2. git'.mgmt \in {None, git.mgmt} /\ git'.manifest \in {None, git.manifest} BY <3>1 DEF GitOK
    <3> QED BY <3>2 DEF SizeKept
  <2>2. CASE Sync
    <3>1. PICK applied : git' = [git EXCEPT !.applied = applied] BY <2>2 DEF Sync
    <3> QED BY <1>0, <3>1 DEF GitOK
  <2>3. CASE Preview \/ Approve \/ Work BY <1>0, <2>3 DEF Preview, Approve, Work, Rest
  <2> QED BY <1>2, <2>1, <2>2, <2>3 DEF Environment
<1> SUFFICES ASSUME NEW h \in Handlers, ~PushQuota(h), ~PushGroups(h),
                    \/ CreateSteps(h) \/ EditSteps(h) \/ GrantSteps(h) \/ DecommissionSteps(h)
                    \/ IssueSteps(h) \/ RevokeSteps(h) \/ RemoveSteps(h) \/ RequestSteps(h)
                    \/ RepoSteps(h) \/ Ends(h) \/ Instant(h) \/ LoseSession(h)
             PROVE  SizeKept
  BY <1>1, <1>2, NextCases
<1>3. CASE CreateSteps(h)
  <2>1. ~WrittenLate
    <3> SUFFICES ASSUME WrittenLate PROVE FALSE OBVIOUS
    <3>1. PICK late : late = (seen.late \/ db.row.state # "none") /\ seen' = [seen EXCEPT !.late = late]
      BY DEF WrittenLate
    <3>2. seen'.late = late BY <3>1 DEF SeenOK
    <3> QED BY <3>1, <3>2 DEF State
  <2>2. CASE AdoptProject(h)
    <3>1. git.mgmt \in OpenstackProject /\ git'.mgmt = [git.mgmt EXCEPT !.readers = {}] /\ git'.manifest = git.manifest
      BY <2>2 DEF AdoptProject, GitOK
    <3> QED BY <2>2, <3>1 DEF OpenstackProject, SizeKept, AdoptProject
  <2> QED BY <1>0, <1>3, <2>1, <2>2 DEF CreateSteps, StartCreate, WriteProject, WriteManifest, CommitCreate
<1>4. CASE EditSteps(h)
  <2>1. CASE PushAlias(h)
    <3> DEFINE alias == Event(h).alias
    <3>1. git' = [git EXCEPT !.manifest.alias = alias] /\ git.manifest \in Manifest BY <2>1 DEF PushAlias, GitOK
    <3> HIDE DEF alias
    <3>2. git'.manifest = [git.manifest EXCEPT !.alias = alias] /\ git'.mgmt = git.mgmt BY <3>1 DEF GitOK
    <3>3. git'.manifest.groups = git.manifest.groups BY <3>1, <3>2 DEF Manifest
    <3> QED BY <2>1, <3>2, <3>3 DEF PushAlias, SizeKept
  <2> QED BY <1>0, <1>4, <2>1 DEF EditSteps, StartEdit, StartAlias, CommitEdit
<1>5. CASE GrantSteps(h)
  <2>1. CASE PushAdmins(h)
    <3> DEFINE set == hs[h].set
    <3>1. git' = git \/ (git.mgmt # None /\ git' = [git EXCEPT !.mgmt.readers = set]) BY <2>1 DEF PushAdmins
    <3> HIDE DEF set
    <3>2. CASE git.mgmt # None /\ git' = [git EXCEPT !.mgmt.readers = set]
      <4>1. git.mgmt \in OpenstackProject /\ git'.mgmt = [git.mgmt EXCEPT !.readers = set] /\ git'.manifest = git.manifest
        BY <3>2 DEF GitOK
      <4>2. git'.mgmt.quota = git.mgmt.quota BY <4>1 DEF OpenstackProject
      <4> QED BY <3>2, <4>1, <4>2 DEF SizeKept
    <3> QED BY <1>0, <3>1, <3>2
  <2> QED BY <1>0, <1>5, <2>1 DEF GrantSteps, StartGrant, ReadAdmins, CommitGrant
<1>6. CASE DecommissionSteps(h) BY <1>0, <1>6, DecommissionFrame
<1>7. CASE IssueSteps(h) BY <1>0, <1>7, IssueFrame
<1>8. CASE RevokeSteps(h) BY <1>0, <1>8, RevokeFrame
<1>9. CASE RemoveSteps(h) BY <1>0, <1>9, RemoveFrame
<1>10. CASE RequestSteps(h)
  <2>1. CASE PushBackup(h) BY <1>0, <2>1 DEF PushBackup, GitOK
  <2> QED BY <1>0, <1>10, <2>1 DEF RequestSteps, StartRequest, InsertRequest, StartApply, CommitApply, StartDeny, CommitDeny
<1>11. CASE RepoSteps(h) BY <1>0, <1>11, RepoFrame
<1>12. CASE Ends(h) BY <1>0, <1>12, EndFrame
<1>13. CASE Instant(h) BY <1>0, <1>13, InstantFrame
<1>14. CASE LoseSession(h) BY <1>0, <1>14, LoseFrame
<1> QED BY <1>3, <1>4, <1>5, <1>6, <1>7, <1>8, <1>9, <1>10, <1>11, <1>12, <1>13, <1>14

LEMMA GroupsKept ==
  ASSUME TypeOK, RequestsInv, [Next]_vars, ~Creating, ~Ending, \A h \in Handlers : ~CommitApply(h)
  PROVE  db'.row.groups = db.row.groups
<1> DEFINE Goal == db'.row.groups = db.row.groups
<1> SUFFICES Goal OBVIOUS
<1> DbOK /\ SessionsOK BY DEF TypeOK
<1> db.row \in Row BY DEF DbOK
<1>0. ASSUME db'.row = db.row PROVE Goal BY <1>0
<1>1. CASE UNCHANGED vars BY <1>0, <1>1 DEF vars, state
<1>2. CASE Environment BY <1>0, <1>2, EnvironmentFrame
<1> SUFFICES ASSUME NEW h \in Handlers, ~CommitApply(h),
                    \/ CreateSteps(h) \/ EditSteps(h) \/ GrantSteps(h) \/ DecommissionSteps(h)
                    \/ IssueSteps(h) \/ RevokeSteps(h) \/ RemoveSteps(h) \/ RequestSteps(h)
                    \/ RepoSteps(h) \/ Ends(h) \/ Instant(h) \/ LoseSession(h)
             PROVE  Goal
  BY <1>1, <1>2, NextCases
<1>3. CASE CreateSteps(h)
  BY <1>0, <1>3 DEF Creating, CreateSteps, StartCreate, WriteProject, AdoptProject, WriteManifest
<1>4. CASE EditSteps(h)
  <2>1. CASE CommitEdit(h)
    <3> DEFINE e == Event(h)
               ca == IF e.op = "edit" THEN e.ca ELSE db.row.ca
               row == [db.row EXCEPT !.alias = e.alias, !.ca = ca]
               version == IF row = db.row THEN row.version ELSE row.version + 1
    <3>1. db' = [db EXCEPT !.row = [row EXCEPT !.version = version]] BY <2>1 DEF CommitEdit
    <3> HIDE DEF ca
    <3>2. row.groups = db.row.groups /\ "groups" \in DOMAIN row BY DEF Row
    <3> HIDE DEF row, version
    <3>3. [row EXCEPT !.version = version].groups = row.groups BY <3>2
    <3> DEFINE after == [row EXCEPT !.version = version]
    <3> HIDE DEF after
    <3>4. db'.row = after BY <3>1 DEF DbOK, after
    <3> QED BY <3>2, <3>3, <3>4 DEF after
  <2>2. CASE ~CommitEdit(h) BY <1>0, <1>4, <2>2 DEF EditSteps, StartEdit, StartAlias, PushAlias
  <2> QED BY <2>1, <2>2
<1>5. CASE GrantSteps(h)
  BY <1>0, <1>5 DEF GrantSteps, StartGrant, ReadAdmins, PushAdmins, CommitGrant, DbOK
<1>6. CASE DecommissionSteps(h)
  BY <1>0, <1>6 DEF Ending, DecommissionSteps, StartDecommission, FindGone, FindProjectsGone
<1>7. CASE IssueSteps(h)
  BY <1>0, <1>7 DEF IssueSteps, StartIssue, StartRotate, CreateBinding, CommitIssue, DbOK
<1>8. CASE RevokeSteps(h)
  BY <1>0, <1>8 DEF RevokeSteps, StartRevoke, DeleteBinding, CommitRevoke, DbOK
<1>9. CASE RemoveSteps(h)
  BY <1>0, <1>9 DEF RemoveSteps, StartRemove, ListBindings, DeleteListed, MarkRows, CascadeFails, CommitRemove, DbOK
<1>10. CASE RequestSteps(h)
  <2>1. CASE InsertRequest(h) BY <2>1 DEF InsertRequest, DbOK
  <2>2. CASE CommitDeny(h) BY <2>2 DEF CommitDeny, DbOK
  <2> QED BY <1>0, <1>10, <2>1, <2>2
          DEF RequestSteps, StartRequest, StartApply, PushQuota, PushGroups, PushBackup, StartDeny
<1>11. CASE RepoSteps(h) BY <1>0, <1>11, RepoFrame
<1>12. CASE Ends(h) BY <1>0, <1>12, EndFrame
<1>13. CASE Instant(h) BY <1>0, <1>13 DEF Instant, Provision, SaveRepository, Rest, DbOK, Row
<1>14. CASE LoseSession(h) BY <1>0, <1>14, LoseFrame
<1> QED BY <1>3, <1>4, <1>5, <1>6, <1>7, <1>8, <1>9, <1>10, <1>11, <1>12, <1>13, <1>14

\* Only a resize that is begun changes what was last asked for.
LEMMA TargetKept ==
  ASSUME TypeOK, [Next]_vars
  PROVE  /\ seen.overtaken => seen'.overtaken
         /\ seen'.target = seen.target \/ \E h \in Handlers : StartApply(h)
<1> SeenOK /\ SessionsOK BY DEF TypeOK
<1> DEFINE Goal == /\ seen.overtaken => seen'.overtaken
                   /\ seen'.target = seen.target \/ \E h \in Handlers : StartApply(h)
<1> SUFFICES Goal OBVIOUS
<1>0. ASSUME seen'.target = seen.target, seen'.overtaken = seen.overtaken PROVE Goal BY <1>0
<1> SUFFICES ASSUME NEW h \in Handlers,
                    \/ CreateSteps(h) \/ EditSteps(h) \/ GrantSteps(h) \/ DecommissionSteps(h)
                    \/ IssueSteps(h) \/ RevokeSteps(h) \/ RemoveSteps(h) \/ RequestSteps(h)
                    \/ RepoSteps(h) \/ Ends(h) \/ Instant(h) \/ LoseSession(h)
             PROVE  Goal
  BY <1>0, NextCases, EnvironmentFrame DEF vars
<1>1. CASE CreateSteps(h)
  <2>1. ASSUME WrittenLate PROVE Goal
    <3>1. PICK late : seen' = [seen EXCEPT !.late = late] BY <2>1 DEF WrittenLate
    <3> QED BY <1>0, <3>1 DEF SeenOK
  <2> QED BY <1>0, <1>1, <2>1 DEF CreateSteps, StartCreate, WriteProject, AdoptProject, WriteManifest, CommitCreate
<1>2. CASE EditSteps(h) BY <1>0, <1>2, EditFrame
<1>3. CASE GrantSteps(h) BY <1>0, <1>3 DEF GrantSteps, StartGrant, ReadAdmins, PushAdmins, CommitGrant, SeenOK
<1>4. CASE DecommissionSteps(h) BY <1>0, <1>4, DecommissionFrame
<1>5. CASE IssueSteps(h) BY <1>0, <1>5 DEF IssueSteps, StartIssue, StartRotate, CreateBinding, CommitIssue, SeenOK
<1>6. CASE RevokeSteps(h) BY <1>0, <1>6, RevokeFrame
<1>7. CASE RemoveSteps(h)
  BY <1>0, <1>7 DEF RemoveSteps, StartRemove, ListBindings, DeleteListed, MarkRows, CascadeFails, CommitRemove, SeenOK
<1>8. CASE RequestSteps(h)
  <2>1. CASE StartApply(h)
    <3>1. PICK target, over : /\ over = (seen.overtaken \/ Overtakes(h, target))
                              /\ seen' = seen \/ seen' = [seen EXCEPT !.target = target, !.overtaken = over]
      BY <2>1 DEF StartApply
    <3>2. seen' = seen \/ seen'.overtaken = over BY <3>1 DEF SeenOK
    <3> QED BY <2>1, <3>1, <3>2
  <2> QED BY <1>0, <1>8, <2>1 DEF RequestSteps, StartRequest, InsertRequest, PushQuota, PushGroups, PushBackup,
                                   CommitApply, StartDeny, CommitDeny
<1>9. CASE RepoSteps(h) BY <1>0, <1>9, RepoFrame
<1>10. CASE Ends(h) BY <1>0, <1>10, EndFrame
<1>11. CASE Instant(h) BY <1>0, <1>11, InstantFrame
<1>12. CASE LoseSession(h) BY <1>0, <1>12, LoseFrame
<1> QED BY <1>1, <1>2, <1>3, <1>4, <1>5, <1>6, <1>7, <1>8, <1>9, <1>10, <1>11, <1>12

\* A handler that has not begun a resize in this step goes on with the one it had.
LEMMA ResizingKept ==
  ASSUME TypeOK, RequestsInv, NEW h \in Handlers, ~StartApply(h), ~PushQuota(h), ~PushGroups(h),
         \/ CreateSteps(h) \/ EditSteps(h) \/ GrantSteps(h) \/ DecommissionSteps(h)
         \/ IssueSteps(h) \/ RevokeSteps(h) \/ RemoveSteps(h) \/ RequestSteps(h)
         \/ RepoSteps(h) \/ Ends(h) \/ Instant(h) \/ LoseSession(h),
         hs'[h].op = "apply"
  PROVE  /\ hs[h].op = "apply" /\ hs'[h].id = hs[h].id
         /\ hs'[h].step = hs[h].step \/ db.requests[hs[h].id].type = "backup"
<1> SessionsOK BY DEF TypeOK
<1> DOMAIN hs = Handlers /\ IsSession(hs[h]) BY DEF SessionsOK
<1>0. hs'[h].op = "apply" OBVIOUS
<1>c. ASSUME Leave(h) PROVE FALSE
  <2>1. hs'[h] = Idle BY <1>c, Left
  <2>2. Idle.op = "idle" BY DEF Idle
  <2> QED BY <1>0, <2>1, <2>2
<1>1. CASE CreateSteps(h) BY <1>0, <1>1, CreateFrame DEF Only
<1>2. CASE EditSteps(h) BY <1>0, <1>2, EditFrame DEF Only
<1>3. CASE GrantSteps(h) BY <1>0, <1>3, GrantFrame DEF Only
<1>4. CASE DecommissionSteps(h) BY <1>0, <1>4, DecommissionFrame DEF Only
<1>5. CASE IssueSteps(h) BY <1>0, <1>5, IssueFrame DEF Only
<1>6. CASE RevokeSteps(h) BY <1>0, <1>6, RevokeFrame DEF Only
<1>7. CASE RemoveSteps(h) BY <1>0, <1>7, RemoveFrame DEF Only
<1>8. CASE RequestSteps(h)
  <2>1. CASE PushBackup(h)
    <3>1. Move(h, "commit") /\ At(h, {"apply"}, "backup") BY <2>1 DEF PushBackup
    <3>2. db.requests[hs[h].id].type = "backup" BY <3>1 DEF RequestsInv, Request
    <3>3. hs'[h].id = hs[h].id BY <3>1, MovedFields
    <3> QED BY <3>1, <3>2, <3>3 DEF At
  <2>2. CASE StartRequest(h) BY <1>0, <2>2 DEF StartRequest, Wanted, Enter
  <2>3. CASE StartDeny(h) BY <1>0, <2>3 DEF StartDeny, Wanted, Enter
  <2>4. CASE InsertRequest(h) \/ CommitApply(h) \/ CommitDeny(h)
    BY <1>c, <2>4 DEF InsertRequest, CommitApply, CommitDeny
  <2> QED BY <1>8, <2>1, <2>2, <2>3, <2>4 DEF RequestSteps
<1>9. CASE RepoSteps(h) BY <1>0, <1>9, RepoFrame DEF Only
<1>10. CASE Ends(h) BY <1>0, <1>10, EndFrame DEF Only
<1>11. CASE Instant(h)
  <2>1. hs' = hs BY <1>11, InstantFrame
  <2> QED BY <1>0, <2>1
<1>12. CASE LoseSession(h) BY <1>0, <1>12, LoseFrame
<1> QED BY <1>1, <1>2, <1>3, <1>4, <1>5, <1>6, <1>7, <1>8, <1>9, <1>10, <1>11, <1>12

\* A request that is applied, for the resizes.
LEMMA Begun ==
  ASSUME TypeOK, NEW h \in Handlers, StartApply(h)
  PROVE  /\ Live /\ db' = db /\ git' = git /\ \A g \in Handlers \ {h} : hs'[g] = hs[g]
         /\ hs'[h].op = "apply" /\ hs'[h].id \in DOMAIN db.requests
         /\ seen.overtaken => seen'.overtaken
         /\ ~Resizing(hs'[h], db.requests) => seen' = seen
         /\ LET target == db.requests[hs'[h].id].target
            IN Resizing(hs'[h], db.requests) =>
                 /\ target \in Nat /\ db.row.groups < target /\ hs'[h].step = "quota"
                 /\ seen'.target = target
                 /\ ~seen'.overtaken => ~Overtakes(h, target)
<1> DbOK /\ SessionsOK /\ SeenOK BY DEF TypeOK
<1> DOMAIN hs = Handlers BY DEF SessionsOK
<1>1. PICK e \in Wanted(h, {"apply"}), r \in DOMAIN db.requests :
        /\ Applicable(r) /\ Enter(h, e, FirstStep(db.requests[r].type), r, db.row.groups, {})
        /\ seen' = IF db.requests[r].type = "resize"
                     THEN [seen EXCEPT !.target = db.requests[r].target,
                                       !.overtaken = seen.overtaken \/ Overtakes(h, db.requests[r].target)]
                     ELSE seen
  BY DEF StartApply
<1>2. /\ e.op = "apply" /\ \A g \in Handlers \ {h} : hs'[g] = hs[g]
      /\ hs'[h].op = "apply" /\ hs'[h].id = r /\ hs'[h].step = FirstStep(db.requests[r].type)
  BY <1>1 DEF Wanted, Enter
<1> DEFINE target == db.requests[r].target
<1>3. CASE db.requests[r].type = "resize"
  <2>1. PICK over : /\ over = (seen.overtaken \/ Overtakes(h, target))
                    /\ seen' = [seen EXCEPT !.target = target, !.overtaken = over]
    BY <1>1, <1>3
  <2>2. seen'.target = target /\ seen'.overtaken = over BY <2>1 DEF SeenOK
  <2>3. target \in Nat /\ db.row.groups < target
    <3>1. target > db.row.groups BY <1>1, <1>3 DEF Applicable
    <3>2. target \in Nat BY <1>3, RequestIs
    <3>3. db.row.groups \in Nat BY DEF DbOK, Row
    <3> QED BY <3>1, <3>2, <3>3
  <2>4. hs'[h].step = "quota" BY <1>2, <1>3 DEF FirstStep, ResizeSteps
  <2>5. Live /\ db' = db /\ git' = git BY <1>1 DEF Applicable, StartApply
  <2> HIDE DEF target
  <2>6. seen.overtaken => seen'.overtaken BY <2>1, <2>2
  <2>7. ~seen'.overtaken => ~Overtakes(h, target) BY <2>1, <2>2
  <2> USE DEF target
  <2> QED BY <1>2, <1>3, <2>2, <2>3, <2>4, <2>5, <2>6, <2>7 DEF Resizing
<1>4. CASE db.requests[r].type # "resize"
  <2>1. seen' = seen BY <1>1, <1>4
  <2>2. Live /\ db' = db /\ git' = git BY <1>1 DEF Applicable, StartApply
  <2> QED BY <1>2, <1>4, <2>1, <2>2 DEF Resizing
<1> QED BY <1>3, <1>4

LEMMA PositiveStep ==
  ASSUME TypeOK, RequestsInv, CoverInv, [Next]_vars
  PROVE  \A h \in Handlers : Positive(hs'[h], db'.requests)
<1> DbOK /\ SessionsOK BY DEF TypeOK
<1> DOMAIN hs = Handlers /\ \A g \in Handlers : IsSession(hs[g]) BY DEF SessionsOK
<1>a. \A g \in Handlers : Positive(hs[g], db.requests) BY CoverParts
<1>b. \A g \in Handlers : hs[g].op = "apply" => hs[g].id \in DOMAIN db.requests BY DEF RequestsInv
<1>c. \A g \in Handlers : Positive(hs[g], db'.requests) BY <1>a, <1>b, RequestsKept DEF Positive, Resizing
<1>1. CASE hs' = hs BY <1>c, <1>1
<1>2. CASE UNCHANGED vars BY <1>1, <1>2 DEF vars
<1>3. CASE Environment BY <1>1, <1>3, EnvironmentFrame
<1> SUFFICES ASSUME NEW h \in Handlers,
                    \/ CreateSteps(h) \/ EditSteps(h) \/ GrantSteps(h) \/ DecommissionSteps(h)
                    \/ IssueSteps(h) \/ RevokeSteps(h) \/ RemoveSteps(h) \/ RequestSteps(h)
                    \/ RepoSteps(h) \/ Ends(h) \/ Instant(h) \/ LoseSession(h)
             PROVE  Positive(hs'[h], db'.requests)
  BY <1>2, <1>3, <1>c, NextCases, OthersUnchanged
<1>4. CASE StartApply(h)
  <2>1. /\ db' = db
        /\ Resizing(hs'[h], db.requests) =>
             db.requests[hs'[h].id].target \in Nat /\ db.row.groups < db.requests[hs'[h].id].target
    BY <1>4, Begun
  <2>2. db.row.groups \in Nat BY DEF DbOK, Row
  <2> QED BY <2>1, <2>2 DEF Positive
<1>5. CASE PushQuota(h) \/ PushGroups(h)
  <2>1. PICK step : Move(h, step) BY <1>5 DEF PushQuota, PushGroups
  <2>2. hs'[h].id = hs[h].id /\ hs'[h].op = hs[h].op BY <2>1, MovedFields
  <2> QED BY <1>c, <2>2 DEF Positive, Resizing
<1>6. CASE ~StartApply(h) /\ ~PushQuota(h) /\ ~PushGroups(h)
  <2>1. hs'[h].op = "apply" => hs[h].op = "apply" /\ hs'[h].id = hs[h].id BY <1>6, ResizingKept
  <2> QED BY <1>c, <2>1 DEF Positive, Resizing
<1> QED BY <1>4, <1>5, <1>6

LEMMA CreateCovers ==
  ASSUME TypeOK, RequestsInv, StateInv, CreateInv, NEW h \in Handlers, CommitCreate(h)
  PROVE  /\ Sized(db'.row.groups, seen'.target, git'.manifest, git'.mgmt)
         /\ \A g \in Handlers : ~Resizing(hs'[g], db'.requests)
<1> DbOK /\ SessionsOK BY DEF TypeOK
<1> DEFINE e == hs[h].event
           row == [NoCluster EXCEPT !.state = "live", !.contract = Event(h).contract,
                                    !.alias = Event(h).alias, !.groups = Event(h).groups]
<1>1. /\ hs[h].op = "create" /\ hs[h].step = "commit" /\ ~hs[h].lost /\ State = "none"
      /\ hs'[h] = Idle /\ (\A g \in Handlers \ {h} : hs'[g] = hs[g])
      /\ git' = git /\ seen' = seen /\ db'.requests = db.requests
  BY Begins
<1>2. git.mgmt = Project(e) /\ git.manifest = Document(e) BY <1>1 DEF CreateInv, On, Event
<1>3. seen.target = 0 /\ db.requests = <<>> BY <1>1, StateParts DEF Untouched
<1>4. e.groups \in Nat BY <1>1, EventIs DEF Wellformed, Event
<1>5. db' = [db EXCEPT !.row = row] BY DEF CommitCreate
<1>6. row.groups = e.groups BY DEF NoCluster, Event
<1> HIDE DEF row
<1>7. db'.row.groups = e.groups BY <1>5, <1>6 DEF DbOK
<1>8. Covers(Project(e).quota, e.groups) BY <1>4, QuotaGrows DEF Project
<1>9. Document(e).groups = e.groups BY DEF Document
<1>10. Sized(db'.row.groups, seen'.target, git'.manifest, git'.mgmt) BY <1>1, <1>2, <1>3, <1>4, <1>7, <1>8, <1>9 DEF Sized
<1>11. \A g \in Handlers : hs[g].op # "apply" BY <1>3 DEF RequestsInv
<1>12. Idle.op # "apply" BY DEF Idle
<1> QED BY <1>1, <1>10, <1>11, <1>12 DEF Resizing

\* A resize begins: it is the largest so far, and not of another size than one that is
\* under way.
LEMMA BeginCovers ==
  ASSUME TypeOK, RequestsInv, NEW h \in Handlers, StartApply(h), ~seen'.overtaken,
         Sized(db.row.groups, seen.target, git.manifest, git.mgmt),
         \A g \in Handlers : Positive(hs[g], db.requests),
         \A g \in Handlers : KnowsSize(hs[g], db.requests, seen.target, git.manifest, git.mgmt)
  PROVE  /\ Sized(db'.row.groups, seen'.target, git'.manifest, git'.mgmt)
         /\ \A g \in Handlers : KnowsSize(hs'[g], db'.requests, seen'.target, git'.manifest, git'.mgmt)
<1> DbOK /\ SessionsOK /\ SeenOK /\ GitOK BY DEF TypeOK
<1> DEFINE target == db.requests[hs'[h].id].target
<1>1. /\ db' = db /\ git' = git /\ (\A g \in Handlers \ {h} : hs'[g] = hs[g])
      /\ ~Resizing(hs'[h], db.requests) => seen' = seen
      /\ Resizing(hs'[h], db.requests) =>
           /\ target \in Nat /\ db.row.groups < target /\ hs'[h].step = "quota"
           /\ seen'.target = target /\ ~Overtakes(h, target)
  BY Begun
<1>2. CASE ~Resizing(hs'[h], db.requests) BY <1>1, <1>2 DEF KnowsSize
<1>3. CASE Resizing(hs'[h], db.requests)
  <2> HIDE DEF target
  <2>1. target \in Nat /\ db.row.groups < target /\ hs'[h].step = "quota" /\ seen'.target = target
    BY <1>1, <1>3
  <2>2. seen.target \in Nat /\ db.row.groups \in Nat BY DEF SeenOK, DbOK, Row
  <2>3. git.manifest # None => git.manifest.groups \in Nat BY DEF GitOK, Manifest
  <2>4. /\ ~(target < seen.target)
        /\ \A o \in Handlers \ {h} : At(o, {"apply"}, "quota") \/ At(o, {"apply"}, "groups") => Request(o).target = target
    BY <1>1, <1>3 DEF Overtakes
  <2>5. seen.target <= target /\ 0 < target BY <2>1, <2>2, <2>4
  <2>6. Sized(db.row.groups, target, git.manifest, git.mgmt) BY <2>1, <2>2, <2>3, <2>5 DEF Sized
  <2>7. ASSUME NEW g \in Handlers \ {h} PROVE KnowsSize(hs[g], db.requests, target, git.manifest, git.mgmt)
    <3> SUFFICES ASSUME Resizing(hs[g], db.requests)
                 PROVE  /\ db.requests[hs[g].id].target <= target
                        /\ hs[g].step \in {"quota", "groups"} => db.requests[hs[g].id].target = target
                        /\ hs[g].step = "groups" /\ git.mgmt # None => git.mgmt.quota = Quota(target)
                        /\ hs[g].step = "commit" /\ git.manifest # None =>
                             db.requests[hs[g].id].target <= git.manifest.groups
      BY DEF KnowsSize
    <3>1. /\ db.requests[hs[g].id].target <= seen.target
          /\ hs[g].step \in {"quota", "groups"} => db.requests[hs[g].id].target = seen.target
          /\ hs[g].step = "groups" /\ git.mgmt # None => git.mgmt.quota = Quota(seen.target)
          /\ hs[g].step = "commit" /\ git.manifest # None =>
               db.requests[hs[g].id].target <= git.manifest.groups
      BY DEF KnowsSize
    <3>2. hs[g].step \in {"quota", "groups"} => db.requests[hs[g].id].target = target
      BY <2>4 DEF At, Request, Resizing
    <3>3. hs[g].id \in DOMAIN db.requests /\ db.requests[hs[g].id].type = "resize" BY DEF RequestsInv, Resizing
    <3>4. db.requests[hs[g].id].target \in Nat BY <3>3, RequestIs
    <3> QED BY <2>1, <2>2, <2>5, <3>1, <3>2, <3>4
  <2>8. KnowsSize(hs'[h], db.requests, target, git.manifest, git.mgmt) BY <2>1 DEF KnowsSize, target
  <2> QED BY <1>1, <2>1, <2>6, <2>7, <2>8
<1> QED BY <1>2, <1>3

\* The quota is pushed ...
LEMMA QuotaCovers ==
  ASSUME TypeOK, RequestsInv, NEW h \in Handlers, PushQuota(h),
         Sized(db.row.groups, seen.target, git.manifest, git.mgmt),
         \A g \in Handlers : Positive(hs[g], db.requests),
         \A g \in Handlers : KnowsSize(hs[g], db.requests, seen.target, git.manifest, git.mgmt)
  PROVE  /\ Sized(db'.row.groups, seen'.target, git'.manifest, git'.mgmt)
         /\ \A g \in Handlers : KnowsSize(hs'[g], db'.requests, seen'.target, git'.manifest, git'.mgmt)
<1> DbOK /\ SessionsOK /\ SeenOK /\ GitOK BY DEF TypeOK
<1> DOMAIN hs = Handlers /\ \A g \in Handlers : IsSession(hs[g]) BY DEF SessionsOK
<1> DEFINE target == db.requests[hs[h].id].target
           quota == Quota(target)
<1>1. /\ hs[h].op = "apply" /\ hs[h].step = "quota" /\ Move(h, "groups") /\ db' = db /\ seen' = seen
      /\ git.mgmt # None /\ git' = [git EXCEPT !.mgmt.quota = quota]
  BY DEF PushQuota, ResizeSteps, At, Request
<1>2. Resizing(hs[h], db.requests) BY <1>1 DEF RequestsInv, At, Resizes, Request, Resizing
<1>3. target = seen.target /\ 0 < target BY <1>1, <1>2 DEF KnowsSize, Positive
<1> HIDE DEF quota
<1>4. git'.manifest = git.manifest /\ git'.mgmt = [git.mgmt EXCEPT !.quota = quota] /\ git.mgmt \in OpenstackProject
  BY <1>1 DEF GitOK
<1>5. git'.mgmt.quota = quota BY <1>4 DEF OpenstackProject
<1>6. quota = Quota(seen.target) BY <1>3 DEF quota
<1> HIDE DEF target
<1>7. seen.target \in Nat /\ seen.target # 0 BY <1>3 DEF SeenOK
<1>8. git.manifest # None => git.manifest.groups \in Nat BY DEF GitOK, Manifest
<1>9. git.manifest # None => Covers(Quota(seen.target), git.manifest.groups)
  <2>1. git.manifest # None => git.manifest.groups <= seen.target BY <1>7 DEF Sized
  <2> QED BY <1>7, <1>8, <2>1, QuotaGrows
<1>10. Sized(db.row.groups, seen.target, git.manifest, git'.mgmt) BY <1>5, <1>6, <1>9 DEF Sized
<1>11. \A g \in Handlers : KnowsSize(hs[g], db.requests, seen.target, git.manifest, git'.mgmt)
  BY <1>5, <1>6 DEF KnowsSize
<1>12. hs'[h].op = hs[h].op /\ hs'[h].id = hs[h].id /\ hs'[h].step = "groups" /\ \A g \in Handlers \ {h} : hs'[g] = hs[g]
  BY <1>1, MovedFields
<1>13. KnowsSize(hs'[h], db.requests, seen.target, git.manifest, git'.mgmt)
  BY <1>3, <1>5, <1>6, <1>7, <1>12 DEF KnowsSize, target
<1> QED BY <1>1, <1>4, <1>10, <1>11, <1>12, <1>13

\* ... and then the groups ...
LEMMA GroupsCovers ==
  ASSUME TypeOK, RequestsInv, NEW h \in Handlers, PushGroups(h),
         Sized(db.row.groups, seen.target, git.manifest, git.mgmt),
         \A g \in Handlers : Positive(hs[g], db.requests),
         \A g \in Handlers : KnowsSize(hs[g], db.requests, seen.target, git.manifest, git.mgmt)
  PROVE  /\ Sized(db'.row.groups, seen'.target, git'.manifest, git'.mgmt)
         /\ \A g \in Handlers : KnowsSize(hs'[g], db'.requests, seen'.target, git'.manifest, git'.mgmt)
<1> DbOK /\ SessionsOK /\ SeenOK /\ GitOK BY DEF TypeOK
<1> DOMAIN hs = Handlers /\ \A g \in Handlers : IsSession(hs[g]) BY DEF SessionsOK
<1> DEFINE target == db.requests[hs[h].id].target
<1>1. /\ hs[h].op = "apply" /\ hs[h].step = "groups" /\ Move(h, "commit") /\ db' = db /\ seen' = seen
      /\ git.manifest # None /\ git' = [git EXCEPT !.manifest.groups = target]
  BY DEF PushGroups, ResizeSteps, At, Request
<1>2. Resizing(hs[h], db.requests) BY <1>1 DEF RequestsInv, At, Resizes, Request, Resizing
<1>3. target = seen.target /\ 0 < target /\ (git.mgmt # None => git.mgmt.quota = Quota(seen.target))
  BY <1>1, <1>2 DEF KnowsSize, Positive
<1> HIDE DEF target
<1>4. git'.mgmt = git.mgmt /\ git'.manifest = [git.manifest EXCEPT !.groups = target] /\ git.manifest \in Manifest
  BY <1>1 DEF GitOK
<1>5. git'.manifest.groups = seen.target BY <1>3, <1>4 DEF Manifest
<1>6. seen.target \in Nat /\ seen.target # 0 BY <1>3 DEF SeenOK
<1>7. Covers(Quota(seen.target), seen.target) BY <1>6, QuotaGrows
<1>8. Sized(db.row.groups, seen.target, git'.manifest, git.mgmt) BY <1>3, <1>5, <1>6, <1>7 DEF Sized
<1>9. \A g \in Handlers : KnowsSize(hs[g], db.requests, seen.target, git'.manifest, git.mgmt)
  BY <1>5 DEF KnowsSize
<1>10. hs'[h].op = hs[h].op /\ hs'[h].id = hs[h].id /\ hs'[h].step = "commit" /\ \A g \in Handlers \ {h} : hs'[g] = hs[g]
  BY <1>1, MovedFields
<1>11. KnowsSize(hs'[h], db.requests, seen.target, git'.manifest, git.mgmt)
  BY <1>3, <1>5, <1>6, <1>10 DEF KnowsSize, target
<1> QED BY <1>1, <1>4, <1>8, <1>9, <1>10, <1>11

\* ... and then the row is written.
LEMMA CommitCovers ==
  ASSUME TypeOK, RequestsInv, [Next]_vars, NEW h \in Handlers, CommitApply(h),
         Sized(db.row.groups, seen.target, git.manifest, git.mgmt),
         \A g \in Handlers : Positive(hs[g], db.requests),
         \A g \in Handlers : KnowsSize(hs[g], db.requests, seen.target, git.manifest, git.mgmt)
  PROVE  /\ Sized(db'.row.groups, seen'.target, git'.manifest, git'.mgmt)
         /\ \A g \in Handlers : KnowsSize(hs'[g], db'.requests, seen'.target, git'.manifest, git'.mgmt)
<1> DbOK /\ SessionsOK /\ SeenOK /\ GitOK BY DEF TypeOK
<1> DOMAIN hs = Handlers /\ \A g \in Handlers : IsSession(hs[g]) BY DEF SessionsOK
<1> DEFINE request == Request(h)
           row == Applied(request, db.row)
<1>1. /\ hs[h].op = "apply" /\ hs[h].step = "commit" /\ Leave(h) /\ seen' = seen /\ git' = git
      /\ db'.row = row
  BY DEF CommitApply, At, DbOK
<1>2. hs[h].id \in DOMAIN db.requests BY <1>1 DEF RequestsInv
<1>3. /\ request.type \in {"resize", "backup", "addon"} /\ (request.type = "resize" => request.target \in Nat)
  BY <1>2, RequestIs DEF Request
<1>4. db.row \in Row BY DEF DbOK
<1>5. request.type # "resize" => row.groups = db.row.groups BY <1>3, <1>4 DEF Applied, Row
<1>6. request.type = "resize" => row.groups = request.target BY <1>4 DEF Applied, Row
<1> HIDE DEF row
<1>7. request.type = "resize" =>
        /\ 0 < request.target /\ request.target <= seen.target
        /\ git.manifest # None => request.target <= git.manifest.groups
  BY <1>1 DEF KnowsSize, Positive, Resizing, Request
<1>8. Sized(row.groups, seen.target, git.manifest, git.mgmt)
  <2>1. seen.target \in Nat BY DEF SeenOK
  <2> HIDE DEF request
  <2>2. CASE request.type = "resize" BY <1>3, <1>6, <1>7, <2>1, <2>2 DEF Sized
  <2>3. CASE request.type # "resize" BY <1>5, <2>3
  <2> QED BY <2>2, <2>3
<1>9. \A g \in Handlers : hs[g].op = "apply" => hs[g].id \in DOMAIN db.requests BY DEF RequestsInv
<1>10. \A g \in Handlers : KnowsSize(hs[g], db'.requests, seen.target, git.manifest, git.mgmt)
  BY <1>9, RequestsKept DEF KnowsSize, Resizing
<1>11. hs'[h] = Idle /\ \A g \in Handlers \ {h} : hs'[g] = hs[g] BY <1>1, Left DEF Only
<1>12. Idle.op # "apply" BY DEF Idle
<1>13. KnowsSize(hs'[h], db'.requests, seen.target, git.manifest, git.mgmt) BY <1>11, <1>12 DEF KnowsSize, Resizing
<1> QED BY <1>1, <1>8, <1>10, <1>11, <1>13

LEMMA CoverStep ==
  ASSUME TypeOK, RequestsInv, StateInv, CreateInv, CoverInv, [Next]_vars
  PROVE  CoverInv'
<1> DbOK /\ SessionsOK BY DEF TypeOK
<1> DOMAIN hs = Handlers /\ \A g \in Handlers : IsSession(hs[g]) BY DEF SessionsOK
<1> DEFINE Goal == /\ Sized(db'.row.groups, seen'.target, git'.manifest, git'.mgmt)
                   /\ \A g \in Handlers : KnowsSize(hs'[g], db'.requests, seen'.target, git'.manifest, git'.mgmt)
<1>1. \A g \in Handlers : Positive(hs'[g], db'.requests) BY PositiveStep
<1> SUFFICES ASSUME Steady' PROVE Goal BY <1>1, CoverAgain
<1>2. State' = "live" /\ ~seen'.overtaken /\ ~seen'.late BY DEF Steady, Live, State
<1>3. CASE Creating BY <1>3, CreateCovers DEF Creating, KnowsSize
<1>4. CASE ~Creating
  <2>1. ~Ending BY <1>2, EndsLife DEF Ending
  <2>2. State = "live" BY <1>2, <1>4, <2>1, StateKept
  <2>3. Steady BY <1>2, <2>2, GitAfter, TargetKept DEF Steady, Live, State
  <2>4. /\ \A g \in Handlers : Positive(hs[g], db.requests)
        /\ Sized(db.row.groups, seen.target, git.manifest, git.mgmt)
        /\ \A g \in Handlers : KnowsSize(hs[g], db.requests, seen.target, git.manifest, git.mgmt)
    BY <2>3, CoverParts
  <2>5. CASE \E h \in Handlers : StartApply(h) BY <1>2, <2>4, <2>5, BeginCovers
  <2>6. CASE \E h \in Handlers : PushQuota(h) BY <2>4, <2>6, QuotaCovers
  <2>7. CASE \E h \in Handlers : PushGroups(h) BY <2>4, <2>7, GroupsCovers
  <2>8. CASE \E h \in Handlers : CommitApply(h) BY <2>4, <2>8, CommitCovers
  <2>9. CASE \A h \in Handlers : ~StartApply(h) /\ ~PushQuota(h) /\ ~PushGroups(h) /\ ~CommitApply(h)
    <3>1. db'.row.groups = db.row.groups /\ seen'.target = seen.target BY <1>4, <2>1, <2>9, GroupsKept, TargetKept
    <3>2. SizeKept BY <1>2, <2>2, <2>9, SizesKept
    <3>3. Sized(db'.row.groups, seen'.target, git'.manifest, git'.mgmt) BY <2>4, <3>1, <3>2, SizeStays
    <3>4. ASSUME NEW g \in Handlers PROVE KnowsSize(hs[g], db'.requests, seen'.target, git'.manifest, git'.mgmt)
      <4>1. KnowsSize(hs[g], db.requests, seen.target, git'.manifest, git'.mgmt) BY <2>4, <3>2, SizeStays
      <4>2. hs[g].op = "apply" => hs[g].id \in DOMAIN db.requests BY DEF RequestsInv
      <4> QED BY <3>1, <4>1, <4>2, RequestsKept DEF KnowsSize, Resizing
    <3>5. CASE hs' = hs BY <3>3, <3>4, <3>5
    <3>6. CASE UNCHANGED vars BY <3>5, <3>6 DEF vars
    <3>7. CASE Environment BY <3>5, <3>7, EnvironmentFrame
    <3> SUFFICES ASSUME NEW h \in Handlers,
                        \/ CreateSteps(h) \/ EditSteps(h) \/ GrantSteps(h) \/ DecommissionSteps(h)
                        \/ IssueSteps(h) \/ RevokeSteps(h) \/ RemoveSteps(h) \/ RequestSteps(h)
                        \/ RepoSteps(h) \/ Ends(h) \/ Instant(h) \/ LoseSession(h)
                 PROVE  Goal
      BY <3>6, <3>7, NextCases
    <3>8. hs'[h].op = "apply" => /\ hs[h].op = "apply" /\ hs'[h].id = hs[h].id
                                 /\ hs'[h].step = hs[h].step \/ db.requests[hs[h].id].type = "backup"
      BY <2>9, ResizingKept
    <3>9. hs[h].op = "apply" => hs[h].id \in DOMAIN db.requests BY DEF RequestsInv
    <3>10. KnowsSize(hs'[h], db'.requests, seen'.target, git'.manifest, git'.mgmt)
      BY <3>4, <3>8, <3>9, RequestsKept DEF KnowsSize, Resizing
    <3> QED BY <3>3, <3>4, <3>10, OthersUnchanged
  <2> QED BY <2>5, <2>6, <2>7, <2>8, <2>9
<1> QED BY <1>3, <1>4


------------------------------------------------------------------------------
\* The inductive invariant.
Inv ==
  /\ TypeOK /\ HoldsInv /\ RequestsInv /\ StateInv /\ RepoInv /\ CreateInv
  /\ GoneInv /\ CredsInv /\ AccessInv /\ CoverInv

\* Each of the ways to start.
LEMMA StartedDb ==
  ASSUME NEW start, Started(start)
  PROVE  /\ DbOK
         /\ db.row.state \in {"none", "live"} /\ db.row.groups = 1
         /\ \A u \in Users : db.access[u] = None
         /\ \A c \in Creds : db.creds[c] = None
         /\ db.requests = <<>>
<1> DEFINE contract == CHOOSE k \in Contracts : TRUE
           bundle == CHOOSE c \in Bundles : TRUE
<1>1. contract \in Contracts /\ bundle \in Bundles BY PortalAssumption
<1> HIDE DEF contract, bundle
<1>2. PICK no \in BOOLEAN : no = FALSE OBVIOUS
<1>3. PICK yes \in BOOLEAN : yes = TRUE OBVIOUS
<1> DEFINE before == [state |-> "none", contract |-> None, alias |-> NoAlias, ca |-> None, provisioned |-> no,
                      groups |-> 1, version |-> 1, backup |-> no]
           after == [before EXCEPT !.state = "live", !.contract = contract, !.ca = bundle, !.provisioned = yes]
           row == IF start = "running" THEN after ELSE before
<1>4. before \in Row BY PortalAssumption DEF Row
<1>5. after \in Row BY <1>1, <1>4 DEF Row
<1>6. /\ row \in Row /\ row.state \in {"none", "live"} /\ row.groups = 1 BY <1>4, <1>5 DEF Row
<1>7. before = NoCluster BY <1>2 DEF NoCluster
<1>8. after = [NoCluster EXCEPT !.state = "live", !.contract = contract, !.ca = bundle, !.provisioned = TRUE]
  BY <1>7, <1>3
<1> HIDE DEF before, after
<1> DEFINE e == [contract |-> contract, groups |-> 1, alias |-> NoAlias]
           live == [NoCluster EXCEPT !.state = "live", !.contract = e.contract, !.ca = bundle, !.provisioned = TRUE]
<1>9. db = [row |-> row, access |-> [u \in Users |-> None], creds |-> [c \in Creds |-> None],
            requests |-> <<>>, addon |-> no]
  <2>1. db = [row |-> IF start = "running" THEN live ELSE NoCluster,
              access |-> [u \in Users |-> None], creds |-> [c \in Creds |-> None],
              requests |-> <<>>, addon |-> FALSE]
    BY Zenon DEF Started, contract, bundle
  <2>2. e.contract = contract OBVIOUS
  <2> HIDE DEF e
  <2>3. row = IF start = "running" THEN live ELSE NoCluster BY <1>7, <1>8, <2>2
  <2> HIDE DEF live, row
  <2> QED BY <1>2, <2>1, <2>3
<1> HIDE DEF row
<1>10. <<>> \in Seq(ChangeRequest) OBVIOUS
<1> QED BY <1>6, <1>9, <1>10 DEF DbOK

LEMMA StartedGit ==
  ASSUME NEW start, Started(start)
  PROVE  /\ GitOK
         /\ git.manifest # None => /\ git.manifest.groups = 1
                                   /\ git.mgmt # None /\ git.mgmt.quota = Quota(1) /\ git.mgmt.readers = {}
         /\ git.mgmt # None => git.mgmt.readers = {}
<1> DEFINE contract == CHOOSE k \in Contracts : TRUE
           e == [contract |-> contract, groups |-> 1, alias |-> NoAlias]
<1>1. contract \in Contracts BY PortalAssumption
<1> HIDE DEF contract
<1>2. e.contract \in Contracts /\ e.groups = 1 /\ e.alias \in Aliases BY <1>1, PortalAssumption
<1>3. PICK no \in BOOLEAN : no = FALSE OBVIOUS
<1> DEFINE applied == CASE start = "running" -> {"cluster", "mgmt"} [] start = "taken" -> {"mgmt"} [] OTHER -> {}
<1>4. git = [mgmt |-> IF start = "running" THEN Project(e) ELSE None, backup |-> no,
             manifest |-> IF start = "running" THEN Document(e) ELSE None, applied |-> applied]
  BY <1>3 DEF Started, contract
<1>5. applied \in SUBSET {"cluster", "mgmt", "backup"} OBVIOUS
<1> HIDE DEF e, applied
<1>6. Project(e) \in OpenstackProject /\ Document(e) \in Manifest BY <1>2, ProjectIs
<1>7. Project(e).quota = Quota(1) /\ Project(e).readers = {} /\ Document(e).groups = 1
  BY <1>2 DEF Project, Document
<1>8. Project(e) # None BY <1>6, NoneAssumption
<1>9. CASE start = "running"
  <2>1. git.mgmt = Project(e) /\ git.manifest = Document(e) /\ git.backup = no /\ git.applied = applied
    BY <1>4, <1>9
  <2>2. GitOK BY <1>4, <1>5, <1>6, <1>9 DEF GitOK
  <2> QED BY <1>7, <1>8, <2>1, <2>2
<1>10. CASE start # "running"
  <2>1. git.mgmt = None /\ git.manifest = None BY <1>4, <1>10
  <2>2. GitOK BY <1>4, <1>5, <1>10 DEF GitOK
  <2> QED BY <2>1, <2>2
<1> QED BY <1>9, <1>10

LEMMA StartedStore ==
  ASSUME NEW start, Started(start)
  PROVE  StoreOK /\ store.ops = <<>> /\ RepositoryBound
<1> DEFINE url == CHOOSE u \in Urls : TRUE
<1>1. url \in Urls BY PortalAssumption
<1> HIDE DEF url
<1>2. PICK no \in BOOLEAN : no = FALSE OBVIOUS
<1>3. PICK yes \in BOOLEAN : yes = TRUE OBVIOUS
<1> DEFINE ready == [url |-> url, pin |-> 1, named |-> yes, version |-> 2, valid |-> yes]
           legacy == [ready EXCEPT !.pin = 0, !.valid = no]
<1>4. ready \in RepositoryRow /\ legacy \in RepositoryRow BY <1>1 DEF RepositoryRow
<1>5. ready.pin = 1 /\ ready.url = url /\ legacy.pin = 0 /\ legacy.valid = FALSE BY <1>2
<1>6. store = [repo |-> CASE start = "bare" -> None [] start = "legacy" -> legacy [] OTHER -> ready,
               vault |-> CASE start = "bare" -> <<>> [] start = "legacy" -> <<None>> [] OTHER -> <<url>>,
               ops |-> <<>>]
  BY <1>2, <1>3 DEF Started, url
<1> HIDE DEF ready, legacy
<1>7. <<>> \in Seq(GitOpsOperation) OBVIOUS
<1>8. <<>> \in Seq(Urls \cup {None}) /\ <<None>> \in Seq(Urls \cup {None}) /\ <<url>> \in Seq(Urls \cup {None})
  BY <1>1
<1>9. ready # None /\ legacy # None BY <1>4, NoneAssumption
<1>10. CASE start = "bare"
  <2>1. store.repo = None /\ store.ops = <<>> BY <1>6, <1>10
  <2>2. StoreOK BY <1>6, <1>7, <1>8, <1>10 DEF StoreOK
  <2> QED BY <2>1, <2>2 DEF RepositoryBound
<1>11. CASE start = "legacy"
  <2>1. store.repo = legacy /\ store.ops = <<>> BY <1>6, <1>11
  <2>2. StoreOK BY <1>4, <1>6, <1>7, <1>8, <1>11 DEF StoreOK
  <2>3. RepositoryBound BY <1>5, <2>1 DEF RepositoryBound
  <2> QED BY <2>1, <2>2, <2>3
<1>12. CASE start \notin {"bare", "legacy"}
  <2>1. store.repo = ready /\ store.ops = <<>> /\ store.vault = <<url>> BY <1>6, <1>12
  <2>2. StoreOK BY <1>4, <1>6, <1>7, <1>8, <1>12 DEF StoreOK
  <2>3. Serves(1) BY <1>5, <2>1 DEF Serves, Latest
  <2>4. RepositoryBound BY <1>5, <2>1, <2>3 DEF RepositoryBound
  <2> QED BY <2>1, <2>2, <2>4
<1> QED BY <1>10, <1>11, <1>12

LEMMA InitInv == Init => Inv
<1> SUFFICES ASSUME Init PROVE Inv OBVIOUS
<1>1. PICK plan \in Plans :
        /\ Started(plan.start) /\ todo = plan.events /\ bindings = {} /\ hs = [h \in Handlers |-> Idle]
        /\ locks = [row |-> Nobody, repo |-> Nobody] /\ faults = 0
        /\ seen = [strays |-> {}, readers |-> {}, target |-> 0, overtaken |-> FALSE, late |-> FALSE]
  BY DEF Init
<1>2. Idle.op = "idle" /\ Idle.step = "idle" BY DEF Idle
<1>3. \A h \in Handlers : hs[h] = Idle /\ hs[h].op = "idle" /\ hs[h].step = "idle" BY <1>1, <1>2
<1>4. todo \subseteq Events BY <1>1 DEF Events
<1>5. SessionsOK BY <1>1, <1>3, <1>4, IdleIsSession DEF SessionsOK
<1>6. /\ DbOK /\ db.row.state \in {"none", "live"} /\ db.row.groups = 1 /\ db.requests = <<>>
      /\ \A u \in Users : db.access[u] = None
      /\ \A c \in Creds : db.creds[c] = None
  BY <1>1, StartedDb
<1>7. /\ GitOK
      /\ git.manifest # None => /\ git.manifest.groups = 1
                                /\ git.mgmt # None /\ git.mgmt.quota = Quota(1) /\ git.mgmt.readers = {}
      /\ git.mgmt # None => git.mgmt.readers = {}
  BY <1>1, StartedGit
<1>8. StoreOK /\ store.ops = <<>> /\ RepositoryBound BY <1>1, StartedStore
<1>9. /\ seen.target = 0 /\ seen.late = FALSE BY <1>1
<1>10. SeenOK
  <2>1. PICK no \in BOOLEAN : no = FALSE OBVIOUS
  <2>2. seen = [strays |-> {}, readers |-> {}, target |-> 0, overtaken |-> no, late |-> no] BY <1>1, <2>1
  <2> QED BY <2>2 DEF SeenOK
<1>11. TypeOK BY <1>1, <1>5, <1>6, <1>7, <1>8, <1>10 DEF TypeOK
<1>12. HoldsInv
  <2>1. locks.row = Nobody /\ locks.repo = Nobody BY <1>1
  <2> QED BY <1>3, <2>1, PortalAssumption DEF HoldsInv, On, RowOps, RepoOps
<1>13. RequestsInv BY <1>3 DEF RequestsInv, At, Resizes
<1>14. StateInv BY <1>3, <1>6, <1>9 DEF StateInv, On, RowOps
<1>15. RepoInv BY <1>3, <1>8 DEF RepoInv, On
<1>16. CreateInv BY <1>3 DEF CreateInv, On
<1>17. GoneInv BY <1>3, <1>6 DEF GoneInv, On, DecommissionedIsGone
<1>18. CredsInv BY <1>1, <1>3, <1>6 DEF CredsInv, On, CredentialsAccounted, Active
<1>19. AccessInv BY <1>1, <1>3, <1>7 DEF AccessInv, On
<1>20. CoverInv
  <2>1. Covers(Quota(1), 1) BY QuotaGrows
  <2>2. \A h \in Handlers : ~Resizes(h) BY <1>3 DEF Resizes
  <2> QED BY <1>6, <1>7, <1>9, <2>1, <2>2 DEF CoverInv
<1> QED BY <1>11, <1>12, <1>13, <1>14, <1>15, <1>16, <1>17, <1>18, <1>19, <1>20 DEF Inv

LEMMA NextInv == Inv /\ [Next]_vars => Inv'
<1> SUFFICES ASSUME Inv, [Next]_vars PROVE Inv' OBVIOUS
<1> TypeOK /\ HoldsInv /\ RequestsInv /\ StateInv /\ RepoInv /\ CreateInv
    /\ GoneInv /\ CredsInv /\ AccessInv /\ CoverInv
  BY DEF Inv
<1>1. SessionsOK' BY SessionsStep
<1>2. HoldsInv' /\ locks' \in [row : Handlers \cup {Nobody}, repo : Handlers \cup {Nobody}] BY HoldsStep DEF LocksOK
<1>3. DbOK' /\ GitOK' /\ SeenOK' BY DbStep, GitStep, SeenStep
<1>4. StoreOK' BY StoreStep
<1>5. bindings' \subseteq Binding /\ faults' \in Nat BY BindingsStep
<1>6. TypeOK' BY <1>1, <1>2, <1>3, <1>4, <1>5 DEF TypeOK
<1>7. RequestsInv' BY <1>1, RequestsStep
<1>8. RepoInv' BY RepoStep
<1>9. StateInv' BY StateStep
<1>10. CreateInv' BY CreateStep
<1>11. GoneInv' BY GoneStep
<1>12. CredsInv' BY CredsStep
<1>13. AccessInv' BY AccessStep
<1>14. CoverInv' BY CoverStep
<1> QED BY <1>2, <1>6, <1>7, <1>8, <1>9, <1>10, <1>11, <1>12, <1>13, <1>14 DEF Inv


------------------------------------------------------------------------------
\* Handlers that are interleaved at every call, that end with an error or die anywhere, or
\* that lose their locks while they wait, keep the invariant together: what one has found
\* out under its lock stays so until it gives the lock back.
THEOREM InvariantHolds == Spec => []Inv
BY InitInv, NextInv, PTL DEF Spec

\* Every row, file, binding and secret has its type, and so has what a handler remembers
\* between its steps, for every request that the plan may hold.
THEOREM TypeCorrect == Spec => []TypeOK
<1>1. Inv => TypeOK BY DEF Inv
<1> QED BY InvariantHolds, <1>1, PTL

\* A publication is never for another address than the repository's, and its pinned
\* secret is one of this address (save_repository, replace_credentials,
\* validate_repository), whatever versions failed replacements have left in OpenBao.
THEOREM RepositoryStaysBound == Spec => []RepositoryBound
<1>1. Inv => RepositoryBound BY DEF Inv, RepoInv
<1> QED BY InvariantHolds, <1>1, PTL

\* A decommissioned cluster stays out of Git and of the management cluster
\* (admin_decommission_cluster), with every other request on its way.
THEOREM DecommissionIsFinal == Spec => []DecommissionedIsGone
<1>1. Inv => DecommissionedIsGone BY DEF Inv, GoneInv, DecommissionedIsGone
<1> QED BY InvariantHolds, <1>1, PTL

\* The rows tell which kubeconfigs can be used (kubeconfigs.py), with handlers that die
\* between the role binding in the tenant cluster and the row.
THEOREM CredentialsAreAccounted == Spec => []CredentialsAccounted
<1>1. Inv => CredentialsAccounted BY DEF Inv, CredsInv
<1> QED BY InvariantHolds, <1>1, PTL

\* A user without a grant keeps no access (revoke_cluster_access), for every number of
\* users and kubeconfigs, also of those that were being issued, but for what
\* LostAccessIsLost names: role bindings of failed cascades and lost sessions, and readers
\* pushed by a handler without its session or by a grant that was never committed.
THEOREM AccessIsLost == Spec => []LostAccessIsLost
<1>1. Inv => LostAccessIsLost
  <2> SUFFICES ASSUME Inv, NEW u \in Users \ Sunet, db.access[u] = None
               PROVE  /\ \A b \in bindings : b.user = u => b.id \in seen.strays
                      /\ git.mgmt # None => u \notin git.mgmt.readers \ seen.readers
    BY DEF LostAccessIsLost
  <2>1. AccessInv BY DEF Inv
  <2>2. \A b \in bindings : b.user = u => b.id \in seen.strays BY <2>1 DEF AccessInv
  <2>3. "customer_admin" # None BY NoneAssumption DEF Roles
  <2>4. git.mgmt # None => u \notin git.mgmt.readers \ seen.readers BY <2>1, <2>3 DEF AccessInv
  <2> QED BY <2>2, <2>4
<1> QED BY InvariantHolds, <1>1, PTL

\* What the row says the cluster has is declared in Git, and the quota for it
\* (apply_request), wherever an apply has stopped and however often it is repeated.
THEOREM GitKeepsCovering == Spec => []GitCoversCluster
<1>1. Inv => GitCoversCluster
  <2> SUFFICES ASSUME Inv, Live, git.manifest # None, git.mgmt # None, ~seen.overtaken, ~seen.late
               PROVE  /\ db.row.groups <= git.manifest.groups
                      /\ \A r \in DOMAIN git.mgmt.quota :
                           git.mgmt.quota[r] >= Quota(git.manifest.groups)[r]
    BY DEF GitCoversCluster
  <2>1. CoverInv BY DEF Inv
  <2>2. Steady BY DEF Steady
  <2> QED BY <2>1, <2>2 DEF CoverInv, Covers
<1> QED BY InvariantHolds, <1>1, PTL

\* A cluster is registered only with what both repositories hold for it
\* (admin_create_cluster), whatever attempts with other values came before.
THEOREM CreationIsPublished == Spec => CreatedAsPublished
<1> DEFINE A == db.row.state = "none" /\ db'.row.state = "live" =>
                  git.manifest = Document(db'.row) /\ git.mgmt = Project(db'.row)
<1>1. Inv /\ [Next]_vars => [A]_vars
  <2> SUFFICES ASSUME Inv, [Next]_vars, db.row.state = "none", db'.row.state = "live"
               PROVE  git.manifest = Document(db'.row) /\ git.mgmt = Project(db'.row)
    OBVIOUS
  <2>1. TypeOK /\ RequestsInv /\ CreateInv /\ DbOK BY DEF Inv, TypeOK
  <2>2. State = "none" /\ State' = "live" BY DEF State
  <2>3. ~Ending BY <2>1, <2>2, EndsLife DEF Ending
  <2>4. PICK h \in Handlers : CommitCreate(h) BY <2>1, <2>2, <2>3, StateKept DEF Creating
  <2> DEFINE e == Event(h)
             row == [NoCluster EXCEPT !.state = "live", !.contract = e.contract,
                                      !.alias = e.alias, !.groups = e.groups]
  <2>5. hs[h].op = "create" /\ hs[h].step = "commit" /\ ~hs[h].lost BY <2>1, <2>4, Begins
  <2>6. git.mgmt = Project(e) /\ git.manifest = Document(e) BY <2>1, <2>5 DEF CreateInv, On
  <2>7. db' = [db EXCEPT !.row = row] BY <2>4 DEF CommitCreate
  <2>8. row.contract = e.contract /\ row.groups = e.groups /\ row.alias = e.alias
    <3> HIDE DEF e
    <3> QED BY DEF NoCluster
  <2> HIDE DEF e, row
  <2>9. db'.row = row BY <2>1, <2>7 DEF DbOK
  <2> QED BY <2>6, <2>8, <2>9 DEF Document, Project
<1> QED BY InvariantHolds, <1>1, PTL DEF Spec, CreatedAsPublished
=============================================================================
