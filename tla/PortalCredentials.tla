-------------------------- MODULE PortalCredentials --------------------------
(***************************************************************************)
(* Kubeconfigs (kubeconfig_service.py, routers/kubeconfig.py): each is a   *)
(* row of the portal and a role binding in the tenant cluster, which is    *)
(* labelled with its user.  Issuing, rotating, revoking and the cascade of *)
(* a removed grant call the tenant cluster while they hold the lock of the *)
(* cluster's row.                                                          *)
(***************************************************************************)
EXTENDS PortalClusters

NotGit == UNCHANGED <<git, store, faults>>

\* issue: a certificate for a group of its own, which nothing is bound to yet.
StartIssue(h) == \E e \in Wanted(h, {"issue"}) :
  /\ LockCluster(h)
  /\ May(e.by, "user")
  /\ db.row.provisioned /\ HasNewId
  /\ Enter(h, e, "bind", NewId, db.row.ca, {})
  /\ UNCHANGED <<db, bindings, seen>> /\ NotGit

\* rotate: of one's own, which is not revoked.
StartRotate(h) == \E e \in Wanted(h, {"rotate"}) : \E c \in Creds :
  /\ LockCluster(h)
  /\ May(e.by, "user")
  /\ Active(c) /\ db.creds[c].user = e.by /\ HasNewId
  /\ Enter(h, e, "bind", NewId, db.row.ca, {c})
  /\ UNCHANGED <<db, bindings, seen>> /\ NotGit

CreateBinding(h) ==
  /\ At(h, {"issue", "rotate"}, "bind")
  /\ bindings' = bindings \cup {[id |-> hs[h].id, user |-> Event(h).by]}
  /\ Move(h, IF hs[h].op = "rotate" THEN "unbind" ELSE "commit")
  /\ seen' = [seen EXCEPT !.strays = @ \cup (IF hs[h].lost THEN {hs[h].id} ELSE {})]
  /\ UNCHANGED <<db, locks>> /\ NotGit

CommitIssue(h) ==
  /\ At(h, {"issue", "rotate"}, "commit")
  /\ Commit(h)
  /\ db' = [db EXCEPT !.creds = [c \in Creds |->
       IF c = hs[h].id THEN [user |-> Event(h).by, ca |-> hs[h].saw, revoked |-> FALSE]
       ELSE IF c \in hs[h].set THEN Retired(db.creds[c]) ELSE db.creds[c]]]
  /\ UNCHANGED <<bindings, seen>> /\ NotGit

\* revoke: by its owner, a customer administrator or SUNET.
StartRevoke(h) == \E e \in Wanted(h, {"revoke"}) : \E c \in Creds :
  /\ LockCluster(h)
  /\ May(e.by, "user") /\ Active(c)
  /\ db.creds[c].user # e.by => May(e.by, "customer_admin")
  /\ Enter(h, e, "unbind", 0, None, {c})
  /\ UNCHANGED <<db, bindings, seen>> /\ NotGit

\* The role binding is deleted (one that is not there is no error) ...
DeleteBinding(h) ==
  /\ At(h, {"rotate", "revoke"}, "unbind")
  /\ bindings' = {b \in bindings : b.id \notin hs[h].set}
  /\ Move(h, "commit")
  /\ UNCHANGED <<db, locks, seen>> /\ NotGit

\* ... before the row is marked.
CommitRevoke(h) ==
  /\ At(h, {"revoke"}, "commit")
  /\ Commit(h)
  /\ db' = [db EXCEPT !.creds = [c \in Creds |-> IF c \in hs[h].set THEN Retired(@[c]) ELSE @[c]]]
  /\ UNCHANGED <<bindings, seen>> /\ NotGit

------------------------------------------------------------------------------
\* revoke_cluster_access: only SUNET removes a customer administrator.
StartRemove(h) == \E e \in Wanted(h, {"remove"}) :
  /\ LockCluster(h)
  /\ May(e.by, "customer_admin")
  /\ db.access[e.user] # None /\ (db.access[e.user] = "customer_admin" => e.by \in Sunet)
  /\ Enter(h, e, "list", 0, None, {})
  /\ UNCHANGED <<db, bindings, seen>> /\ NotGit

\* cascade_revoke_for_user finds the role bindings by their label, ...
LabelledByRows(user) == {c \in Creds : Active(c) /\ db.creds[c].user = user}
Labelled(user) == {b.id : b \in {b \in bindings : b.user = user}}

ListBindings(h) ==
  /\ At(h, {"remove"}, "list")
  /\ hs' = [hs EXCEPT ![h].set = Labelled(Event(h).user), ![h].step = "cascade"]
  /\ UNCHANGED <<db, bindings, locks, todo, seen>> /\ NotGit

\* ... deletes them one after the other, ...
DeleteListed(h) == \E c \in hs[h].set :
  /\ At(h, {"remove"}, "cascade")
  /\ bindings' = {b \in bindings : b.id # c}
  /\ hs' = [hs EXCEPT ![h].set = @ \ {c}]
  /\ UNCHANGED <<db, locks, todo, seen>> /\ NotGit

\* ... and only then marks the rows that are not yet revoked.
AfterCascade(user) == IF db.access[user] = "customer_admin" THEN "read" ELSE "commit"

MarkRows(h) ==
  /\ At(h, {"remove"}, "cascade") /\ hs[h].set = {} /\ ~hs[h].lost
  /\ LET user == Event(h).user
     IN hs' = [hs EXCEPT ![h].step = AfterCascade(user),
                         ![h].saw = {c \in Creds : Active(c) /\ db.creds[c].user = user}]
  /\ UNCHANGED <<db, bindings, locks, todo, seen>> /\ NotGit

\* An error of the cascade is logged, and the grant removed all the same.
CascadeFails(h) ==
  /\ At(h, {"remove"}, "list") \/ At(h, {"remove"}, "cascade")
  /\ ~hs[h].lost /\ faults < MaxFaults
  /\ hs' = [hs EXCEPT ![h].step = AfterCascade(Event(h).user), ![h].saw = {}]
  /\ faults' = faults + 1
  /\ seen' = [seen EXCEPT !.strays = @ \cup {b.id : b \in {b \in bindings : b.user = Event(h).user}}]
  /\ UNCHANGED <<db, git, bindings, store, locks, todo>>

CommitRemove(h) ==
  /\ At(h, {"remove"}, "commit")
  /\ Commit(h)
  /\ db' = [db EXCEPT !.access = AccessAfter(Event(h)),
                      !.creds = [c \in Creds |-> IF c \in hs[h].saw THEN Retired(@[c]) ELSE @[c]]]
  /\ UNCHANGED <<bindings, seen>> /\ NotGit
==============================================================================
