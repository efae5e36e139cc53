---------------------------- MODULE PortalServices ----------------------------
(***************************************************************************)
(* The portal's services around one tenant cluster, composed: several      *)
(* handlers take the requests of a plan in any order, and any of them may  *)
(* end with an error, die, or lose the session that holds its locks while  *)
(* a call to Git, to the tenant cluster or to OpenBao is under way.        *)
(***************************************************************************)
EXTENDS PortalRepositories

\* Where a plan starts: with a repository for a cluster that is planned, with one
\* whose project's name is taken, with a cluster that runs, with no repository, or with
\* one whose secret is not pinned yet.
Started(start) ==
  LET e == [contract |-> CHOOSE k \in Contracts : TRUE, groups |-> 1, alias |-> NoAlias]
      running == start = "running"
      ready == [url |-> CHOOSE u \in Urls : TRUE, pin |-> 1, named |-> TRUE, version |-> 2, valid |-> TRUE]
      url == ready.url
  IN /\ db = [row |-> IF running THEN [NoCluster EXCEPT !.state = "live", !.contract = e.contract,
                                        !.ca = CHOOSE c \in Bundles : TRUE, !.provisioned = TRUE]
                                 ELSE NoCluster,
              access |-> [u \in Users |-> None], creds |-> [c \in Creds |-> None],
              requests |-> <<>>, addon |-> FALSE]
     /\ git = [mgmt |-> IF running THEN Project(e) ELSE None, backup |-> FALSE,
               manifest |-> IF running THEN Document(e) ELSE None,
               applied |-> CASE running -> {"cluster", "mgmt"} [] start = "taken" -> {"mgmt"} [] OTHER -> {}]
     /\ store = [repo |-> CASE start = "bare" -> None
                            [] start = "legacy" -> [ready EXCEPT !.pin = 0, !.valid = FALSE]
                            [] OTHER -> ready,
                 vault |-> CASE start = "bare" -> <<>> [] start = "legacy" -> <<None>> [] OTHER -> <<url>>,
                 ops |-> <<>>]

\* What a handler remembers has the type that its request needs.
IsSession(s) ==
  /\ s = [op |-> s.op, step |-> s.step, event |-> s.event, id |-> s.id, saw |-> s.saw,
           set |-> s.set, lost |-> s.lost]
  /\ s.op = "idle" => s = Idle
  /\ s.op # "idle" => s.event \in Events /\ s.event.op = s.op
  /\ s.id \in Nat /\ s.lost \in BOOLEAN
  /\ s.op \in {"issue", "rotate"} => s.id \in Creds
  /\ s.op \in {"rotate", "revoke"} \/ s.step = "cascade" => s.set \subseteq Creds
  /\ s.step = "push" => s.set \subseteq Users
  /\ CASE s.op \in {"issue", "rotate"} -> s.saw \in Bundles \cup {None}
       [] s.op = "apply" -> s.saw \in Nat
       [] s.op = "replace" -> s.saw \in Urls
       [] s.op = "decommission" -> s.saw \in BOOLEAN
       [] s.op = "remove" -> s.saw = None \/ s.saw \subseteq Creds
       [] OTHER -> s.saw = None

DbOK == db \in [row : Row, access : [Users -> Roles \cup {None}], creds : [Creds -> Cred \cup {None}],
                 requests : Seq(ChangeRequest), addon : BOOLEAN]
GitOK == git \in [mgmt : OpenstackProject \cup {None}, manifest : Manifest \cup {None},
                  backup : BOOLEAN, applied : SUBSET {"cluster", "mgmt", "backup"}]
StoreOK == store \in [repo : RepositoryRow \cup {None}, vault : Seq(Urls \cup {None}),
                      ops : Seq(GitOpsOperation)]
SeenOK == seen \in [strays : SUBSET Creds, readers : SUBSET Users, target : Nat,
                    overtaken : BOOLEAN, late : BOOLEAN]
SessionsOK == DOMAIN hs = Handlers /\ (\A h \in Handlers : IsSession(hs[h])) /\ todo \subseteq Events

TypeOK ==
  /\ DbOK /\ GitOK /\ bindings \subseteq Binding /\ StoreOK
  /\ SessionsOK /\ locks \in [row : Handlers \cup {Nobody}, repo : Handlers \cup {Nobody}]
  /\ faults \in Nat /\ SeenOK

Init ==
  \E plan \in Plans :
    /\ Started(plan.start)
    /\ todo = plan.events
    /\ bindings = {}
    /\ hs = [h \in Handlers |-> Idle]
    /\ locks = [row |-> Nobody, repo |-> Nobody]
    /\ faults = 0
    /\ seen = [strays |-> {}, readers |-> {}, target |-> 0, overtaken |-> FALSE,
                late |-> FALSE]

\* What the next step refuses: it raises, and the request ends without a commit.
Refused(h) ==
  \/ hs[h].lost
  \/ At(h, {"create"}, "project") /\ git.mgmt # None /\ ~Matching(Event(h))
  \/ At(h, {"create"}, "project") /\ git.mgmt = None /\ NameTaken
  \/ At(h, {"create"}, "manifest") /\ ~Writable(Event(h))
  \/ At(h, {"edit", "alias"}, "alias") /\ git.manifest = None
  \/ At(h, {"decommission"}, "cluster") /\ ~ClusterGone
  \/ At(h, {"decommission"}, "projects") /\ ~ProjectsGone(hs[h].saw)
  \/ At(h, {"apply"}, "quota") /\ git.mgmt = None
  \/ At(h, {"apply"}, "groups") /\ git.manifest = None
  \/ At(h, {"apply"}, "backup") /\ Request(h).target /\ git.backup
  \/ At(h, {"apply"}, "commit") /\ Request(h).type = "addon" /\ Request(h).target /\ db.addon
  \/ At(h, {"replace"}, "latest") /\ Latest # 0
  \/ At(h, {"replace"}, "write") /\ ~CasMatches(h)

Refuse(h) == Refused(h) /\ Leave(h) /\ UNCHANGED <<state, faults, seen>>

\* An error, or the death of the process, before any step.
Fail(h) ==
  /\ hs[h] # Idle /\ faults < MaxFaults
  /\ Leave(h)
  /\ faults' = faults + 1
  /\ UNCHANGED <<state, seen>>

\* The database drops the session, and its locks, of a handler that is waiting for a call.
LoseSession(h) ==
  /\ h \in {locks.row, locks.repo} /\ faults < MaxFaults
  /\ hs' = [hs EXCEPT ![h].lost = TRUE]
  /\ locks' = Released(h)
  /\ faults' = faults + 1
  /\ UNCHANGED <<state, todo, seen>>

Clusters(h) ==
  \/ StartCreate(h) \/ WriteProject(h) \/ AdoptProject(h) \/ WriteManifest(h) \/ CommitCreate(h)
  \/ StartEdit(h) \/ StartAlias(h) \/ PushAlias(h) \/ CommitEdit(h) \/ Provision(h)
  \/ StartGrant(h) \/ ReadAdmins(h) \/ PushAdmins(h) \/ CommitGrant(h)
  \/ StartDecommission(h) \/ FindGone(h) \/ FindProjectsGone(h) \/ CommitDecommission(h)
Credentials(h) ==
  \/ StartIssue(h) \/ StartRotate(h) \/ CreateBinding(h) \/ CommitIssue(h)
  \/ StartRevoke(h) \/ DeleteBinding(h) \/ CommitRevoke(h)
  \/ StartRemove(h) \/ ListBindings(h) \/ DeleteListed(h) \/ MarkRows(h) \/ CascadeFails(h) \/ CommitRemove(h)
Requests(h) ==
  \/ StartRequest(h) \/ InsertRequest(h) \/ StartApply(h) \/ PushQuota(h) \/ PushGroups(h)
  \/ PushBackup(h) \/ CommitApply(h) \/ StartDeny(h) \/ CommitDeny(h)
Repositories(h) ==
  \/ SaveRepository(h) \/ StartReplace(h) \/ ReadLatest(h) \/ WriteSecret(h) \/ CommitReplace(h)
  \/ StartValidate(h) \/ CommitValidate(h)

Next ==
  \/ \E h \in Handlers : \/ Clusters(h) \/ Credentials(h) \/ Requests(h) \/ Repositories(h)
                         \/ Refuse(h) \/ Fail(h) \/ LoseSession(h)
  \/ CleanUp \/ Sync \/ Preview \/ Approve \/ Work

Spec == Init /\ [][Next]_vars

------------------------------------------------------------------------------
\* A user without a grant has no role binding and is no reader of the project: also not
\* from a kubeconfig that was being issued when the grant was removed, or whose handler
\* died before its row was committed.  It is not so for everybody.  Left behind are the
\* role bindings of a cascade that failed and of a handler that had lost its session
\* (seen.strays), and as readers those whom a handler without its session pushed, and
\* those whom a customer_admin grant pushed whose commit then failed (seen.readers,
\* clusters.py:811-817).  A grant and a removal of role user do not clear the latter
\* (clusters.py:877), though clusters.py:91-92 says "Called whenever a customer_admin
\* grant/revoke happens on the cluster, so Horizon visibility tracks portal state".
LostAccessIsLost ==
  \A u \in Users \ Sunet : db.access[u] = None =>
    /\ \A b \in bindings : b.user = u => b.id \in seen.strays
    /\ git.mgmt # None => u \notin git.mgmt.readers \ seen.readers

\* The rows tell the truth about the kubeconfigs that the portal has issued: one that is
\* marked revoked has no role binding, one that is not still fits the cluster's
\* connection, and a decommissioned cluster has none.
CredentialsAccounted ==
  \A c \in Creds : db.creds[c] # None =>
    /\ db.creds[c].revoked /\ Live => \A b \in bindings : b.id # c
    /\ Active(c) => Live /\ db.creds[c].ca = db.row.ca

\* What the row says the cluster has, and the billing charges, was asked for in Git, and
\* the quota for it granted there before: through errors between the two repositories and
\* the row, unless a resize of another size was begun before one was over, or a creation
\* that had lost its session wrote once more for a cluster that was there.
GitCoversCluster ==
  Live /\ git.manifest # None /\ git.mgmt # None /\ ~seen.overtaken /\ ~seen.late =>
    /\ db.row.groups <= git.manifest.groups
    /\ \A r \in DOMAIN git.mgmt.quota : git.mgmt.quota[r] >= Quota(git.manifest.groups)[r]

\* A cluster enters the registry only as it was published: by whichever attempt, and
\* whatever an earlier one with other values has left in Git.
CreatedAsPublished ==
  [][db.row.state = "none" /\ db'.row.state = "live" =>
       /\ git.manifest = Document(db'.row)
       /\ git.mgmt = Project(db'.row)]_vars

\* A decommissioned cluster is gone from Git and from the management cluster, for good,
\* unless a creation that had lost its session wrote after another had made the cluster.
DecommissionedIsGone ==
  db.row.state = "gone" /\ ~seen.late =>
    git.manifest = None /\ git.mgmt = None /\ git.applied \cap {"cluster", "mgmt"} = {}

\* The pinned secret is one of this address, and a publication, or what may become one,
\* is for the address that the repository still has.
RepositoryBound ==
  store.repo # None =>
    /\ store.repo.pin # 0 => Serves(store.repo.pin)
    /\ store.repo.valid => store.repo.pin # 0
    /\ \A o \in DOMAIN store.ops :
         store.ops[o].kind = "publish" \/ store.ops[o].status \in {"queued", "running", "preview_ready"}
           => store.ops[o].url = store.repo.url
==============================================================================
