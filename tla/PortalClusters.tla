--------------------------- MODULE PortalClusters ---------------------------
(***************************************************************************)
(* The cluster registry (routers/clusters.py): creating a cluster in two   *)
(* repositories and one row, editing it, granting and removing access, and *)
(* decommissioning it after the manual clean-up.                           *)
(***************************************************************************)
EXTENDS PortalRecords

\* The manifest of a cluster and the OpenstackProject of its infrastructure.
Document(e) == [contract |-> e.contract, groups |-> e.groups, alias |-> e.alias]
Project(e) == [contract |-> e.contract, quota |-> Quota(e.groups), readers |-> {}]

Kept == UNCHANGED <<bindings, store, faults>>

\* admin_create_cluster: the slug's advisory lock and the repository's, no row of that
\* slug, and a repository with a pinned and validated writer.
StartCreate(h) == \E e \in Wanted(h, {"create"}) :
  /\ db.row.state = "none" /\ RowFree /\ RepoFree
  /\ store.repo # None /\ store.repo.pin # 0 /\ store.repo.valid
  /\ locks' = [row |-> h, repo |-> h]
  /\ Enter(h, e, "project", 0, None, {})
  /\ UNCHANGED <<db, git, seen>> /\ Kept

\* A name that is taken by a resource from outside the portal's repository is refused.
NameTaken == "mgmt" \in git.applied

\* A creation that lost its session may go on when another has made the cluster.
WrittenLate == seen' = [seen EXCEPT !.late = @ \/ db.row.state # "none"]

WriteProject(h) ==
  /\ At(h, {"create"}, "project") /\ git.mgmt = None
  /\ ~NameTaken
  /\ git' = [git EXCEPT !.mgmt = Project(Event(h))]
  /\ Move(h, "manifest")
  /\ WrittenLate
  /\ UNCHANGED <<db, locks>> /\ Kept

\* A project that is already in Git is adopted if it is the one that would be written;
\* its role bindings are written as those of a new one.
Matching(e) == git.mgmt.contract = e.contract /\ git.mgmt.quota = Quota(e.groups)

AdoptProject(h) ==
  /\ At(h, {"create"}, "project") /\ git.mgmt # None
  /\ Matching(Event(h))
  /\ git' = [git EXCEPT !.mgmt.readers = {}]
  /\ Move(h, "manifest")
  /\ UNCHANGED <<db, locks, seen>> /\ Kept

\* write_cluster: an equal manifest is taken for this one, another is refused.
WritableAny(e) == TRUE
Writable(e) == git.manifest \in {None, Document(e)}

WriteManifest(h) ==
  /\ At(h, {"create"}, "manifest")
  /\ Writable(Event(h))
  /\ git' = IF git.manifest = None THEN [git EXCEPT !.manifest = Document(Event(h))] ELSE git
  /\ Move(h, "commit")
  /\ IF git.manifest = None THEN WrittenLate ELSE UNCHANGED seen
  /\ UNCHANGED <<db, locks>> /\ Kept

CommitCreate(h) ==
  /\ At(h, {"create"}, "commit")
  /\ Commit(h)
  /\ db.row.state = "none"
  /\ LET e == Event(h)
     IN db' = [db EXCEPT !.row = [NoCluster EXCEPT !.state = "live", !.contract = e.contract,
                                                   !.alias = e.alias, !.groups = e.groups]]
  /\ UNCHANGED <<git, seen>> /\ Kept

------------------------------------------------------------------------------
\* Kubeconfigs that were issued must stay usable: their CA is not changed.
ConnectionFree(ca) == ca = db.row.ca \/ (ca \in Bundles /\ \A c \in Creds : ~Active(c))

\* PATCH by an administrator: of what the caller has read, and only then.
StartEdit(h) == \E e \in Wanted(h, {"edit"}) :
  /\ LockCluster(h)
  /\ e.version = db.row.version
  /\ ConnectionFree(e.ca)
  /\ Enter(h, e, IF e.alias = db.row.alias THEN "commit" ELSE "alias", 0, None, {})
  /\ UNCHANGED <<db, git, seen>> /\ Kept

\* The alias alone, by a customer administrator.
StartAlias(h) == \E e \in Wanted(h, {"alias"}) :
  /\ LockCluster(h)
  /\ May(e.by, "customer_admin")
  /\ e.alias # db.row.alias
  /\ Enter(h, e, "alias", 0, None, {})
  /\ UNCHANGED <<db, git, seen>> /\ Kept

\* update_argocd_alias: Git before the row.
PushAlias(h) ==
  /\ At(h, {"edit", "alias"}, "alias")
  /\ git.manifest # None
  /\ git' = [git EXCEPT !.manifest.alias = Event(h).alias]
  /\ Move(h, "commit")
  /\ UNCHANGED <<db, locks, seen>> /\ Kept

CommitEdit(h) ==
  /\ At(h, {"edit", "alias"}, "commit")
  /\ Commit(h)
  /\ LET e == Event(h)
         row == [db.row EXCEPT !.alias = e.alias, !.ca = IF e.op = "edit" THEN e.ca ELSE @]
     IN db' = [db EXCEPT !.row = [row EXCEPT !.version = IF row = db.row THEN @ ELSE @ + 1]]
  /\ UNCHANGED <<git, seen>> /\ Kept

Provision(h) == \E e \in Wanted(h, {"provision"}) :
  /\ Live /\ RowFree
  /\ ~db.row.provisioned /\ db.row.ca # None
  /\ db' = [db EXCEPT !.row.provisioned = TRUE]
  /\ todo' = todo \ {e}
  /\ UNCHANGED <<git, hs, locks, seen>> /\ Kept

------------------------------------------------------------------------------
\* Only SUNET makes customer administrators.
StartGrant(h) == \E e \in Wanted(h, {"grant"}) :
  /\ LockCluster(h)
  /\ May(e.by, "customer_admin") /\ (e.role = "customer_admin" => e.by \in Sunet)
  /\ db.access[e.user] = None
  /\ Enter(h, e, IF e.role = "customer_admin" THEN "read" ELSE "commit", 0, None, {})
  /\ UNCHANGED <<db, git, seen>> /\ Kept

\* _sync_managed_project_admins, in the transaction that has changed the grants:
\* the administrators are read, ...
Admins(access) == {u \in Users : access[u] = "customer_admin"}
AccessAfter(e) == [db.access EXCEPT ![e.user] = IF e.op = "grant" THEN e.role ELSE None]

ReadAdmins(h) ==
  /\ At(h, {"grant", "remove"}, "read") /\ ~hs[h].lost
  /\ hs' = [hs EXCEPT ![h].set = Admins(AccessAfter(Event(h))), ![h].step = "push"]
  /\ UNCHANGED <<db, git, locks, todo, seen>> /\ Kept

\* ... and pushed, unless the project has left Git.  The push comes before the commit:
\* seen.readers are those pushed by a grant that is not committed (yet, or ever, when
\* the commit fails), or by a handler that had lost its session.  Nothing takes them
\* out of Git again but the next grant or removal of an administrator.
PushAdmins(h) ==
  /\ At(h, {"grant", "remove"}, "push")
  /\ git' = IF git.mgmt = None THEN git ELSE [git EXCEPT !.mgmt.readers = hs[h].set]
  /\ Move(h, "commit")
  /\ seen' = [seen EXCEPT !.readers = IF git.mgmt = None THEN @ ELSE IF hs[h].lost THEN hs[h].set
                                       ELSE hs[h].set \ Admins(db.access)]
  /\ UNCHANGED <<db, locks>> /\ Kept

CommitGrant(h) ==
  /\ At(h, {"grant"}, "commit")
  /\ Commit(h)
  /\ db' = [db EXCEPT !.access = AccessAfter(Event(h))]
  /\ seen' = [seen EXCEPT !.readers = @ \ Admins(AccessAfter(Event(h)))]
  /\ UNCHANGED git /\ Kept

------------------------------------------------------------------------------
\* admin_decommission_cluster: no operation that waits or runs; then what was cleaned
\* up by hand is looked up in Git and in the management cluster.
StartDecommission(h) == \E e \in Wanted(h, {"decommission"}) :
  /\ LockCluster(h)
  /\ \A o \in DOMAIN store.ops : store.ops[o].status \notin {"queued", "running"}
  /\ Enter(h, e, "cluster", 0, db.row.backup, {})
  /\ UNCHANGED <<db, git, seen>> /\ Kept

ClusterUndeclared == git.manifest = None
ClusterGone == git.manifest = None /\ "cluster" \notin git.applied
ProjectsGone(backup) ==
  /\ git.mgmt = None /\ "mgmt" \notin git.applied
  /\ backup => ~git.backup /\ "backup" \notin git.applied

FindGone(h) ==
  /\ At(h, {"decommission"}, "cluster") /\ ClusterGone
  /\ Move(h, "projects")
  /\ UNCHANGED <<db, git, locks, seen>> /\ Kept
FindProjectsGone(h) ==
  /\ At(h, {"decommission"}, "projects") /\ ProjectsGone(hs[h].saw)
  /\ Move(h, "commit")
  /\ UNCHANGED <<db, git, locks, seen>> /\ Kept

Retired(cred) == IF cred = None THEN None ELSE [cred EXCEPT !.revoked = TRUE]
CommitDecommission(h) ==
  /\ At(h, {"decommission"}, "commit")
  /\ Commit(h)
  /\ db' = [db EXCEPT !.row.state = "gone", !.row.version = @ + 1, !.addon = FALSE,
       !.creds = [c \in Creds |-> Retired(db.creds[c])],
       !.requests = [r \in DOMAIN @ |-> IF @[r].status = "pending" THEN [@[r] EXCEPT !.status = "denied"]
                                                                  ELSE @[r]]]
  /\ store' = [store EXCEPT !.ops = [o \in DOMAIN @ |->
       IF @[o].status = "preview_ready" THEN [@[o] EXCEPT !.status = "superseded"] ELSE @[o]]]
  /\ UNCHANGED <<git, bindings, faults, seen>>

\* The coordinated manual clean-up of a cluster removes the files, of one repository
\* and of the other.
CleanUp == \E e \in todo : \E parts \in SUBSET {"cluster", "mgmt", "backup"} :
  /\ e.op = "clean" /\ db.row.state # "none"
  /\ git' = [git EXCEPT !.manifest = IF "cluster" \in parts THEN None ELSE @,
                        !.mgmt = IF "mgmt" \in parts THEN None ELSE @,
                        !.backup = @ /\ "backup" \notin parts]
  /\ todo' = todo \ {e}
  /\ UNCHANGED <<db, hs, locks, seen>> /\ Kept

\* Argo CD applies what Git declares, each repository in its own time.
Declared == (IF git.manifest # None THEN {"cluster"} ELSE {}) \cup (IF git.mgmt # None THEN {"mgmt"} ELSE {})
            \cup (IF git.backup THEN {"backup"} ELSE {})
Sync == \E e \in todo : \E late \in SUBSET {"cluster", "mgmt", "backup"} :
  /\ e.op = "sync"
  /\ git' = [git EXCEPT !.applied = (@ \cap late) \cup (Declared \ late)]
  /\ todo' = todo \ {e}
  /\ UNCHANGED <<db, hs, locks, seen>> /\ Kept
==============================================================================
