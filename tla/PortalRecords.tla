---------------------------- MODULE PortalRecords ----------------------------
(***************************************************************************)
(* The state that the portal's handlers of one customer share: the rows of *)
(* the database, the two management repositories, the role bindings in the *)
(* tenant cluster, the secrets in OpenBao, and the handlers with the locks *)
(* that their transactions hold.  A request is an event of the plan until  *)
(* a handler has taken it.                                                 *)
(***************************************************************************)
EXTENDS Naturals, Sequences, FiniteSets

CONSTANTS
  Handlers,      \* request handlers, of any replica of the portal
  Nobody,        \* holds no lock
  Users,         \* the subjects of OIDC
  Sunet,         \* those in settings.admin_users
  Contracts,     \* contract numbers of the customer
  Aliases,       \* names for Argo CD; NoAlias is one
  NoAlias,
  Bundles,       \* CA bundles of the tenant cluster
  Urls,          \* addresses of the customer's repository
  None,          \* NULL, or a file that is not there
  MaxCreds,      \* bound: kubeconfigs
  MaxFaults,     \* bound: errors, crashes and lost sessions
  Plans          \* how it starts and what is requested: [start, events]

ASSUME PortalAssumption ==
  /\ Sunet \subseteq Users /\ NoAlias \in Aliases /\ Nobody \notin Handlers
  /\ Contracts # {} /\ Bundles # {} /\ Urls # {}
  /\ MaxCreds \in Nat /\ MaxFaults \in Nat
  /\ None \notin Aliases \cup Bundles \cup Urls \cup Users

Creds == 1..MaxCreds
Roles == {"user", "customer_admin"}
Addons == {"backup", "addon"}

\* What a request may ask (schemas.py); the other fields of an event only tell it
\* from others.
Wellformed(e) ==
  CASE e.op = "create" -> e.contract \in Contracts /\ e.groups \in Nat /\ e.alias \in Aliases
    [] e.op = "edit" -> e.alias \in Aliases /\ e.ca \in Bundles \cup {None}
    [] e.op = "alias" -> e.by \in Users /\ e.alias \in Aliases
    [] e.op = "grant" -> e.by \in Users /\ e.user \in Users /\ e.role \in Roles
    [] e.op = "remove" -> e.by \in Users /\ e.user \in Users
    [] e.op \in {"issue", "rotate", "revoke"} -> e.by \in Users
    [] e.op = "request" -> /\ e.by \in Users
                           /\ \/ e.type = "resize" /\ e.target \in Nat
                              \/ e.type \in Addons /\ e.target \in BOOLEAN
    [] e.op = "url" -> e.url \in Urls
    [] OTHER -> e.op \in {"provision", "decommission", "clean", "sync", "apply", "deny",
                         "replace", "validate", "preview", "approve"}

Events == UNION {plan.events : plan \in Plans}

ASSUME PlanAssumption ==
  /\ \A plan \in Plans : plan.start \in {"planned", "taken", "running", "bare", "legacy"}
  /\ \A e \in Events : Wellformed(e)

\* The rows, and what Git and OpenBao hold; None is none of them.
Row == [state : {"none", "live", "gone"}, contract : Contracts \cup {None}, alias : Aliases,
        ca : Bundles \cup {None}, provisioned : BOOLEAN, groups : Nat, version : Nat,
        backup : BOOLEAN]
Cred == [user : Users, ca : Bundles \cup {None}, revoked : BOOLEAN]
ChangeRequest ==
  LET Of(types, targets) == [type : types, target : targets, before : Nat,
                             status : {"pending", "applied", "denied"}]
  IN Of({"resize"}, Nat) \cup Of(Addons, BOOLEAN)
Manifest == [contract : Contracts, groups : Nat, alias : Aliases]
Quotas == [{"instances", "volumes", "ports", "cores", "ramGiB", "volumesGB"} -> Nat]
OpenstackProject == [contract : Contracts, quota : Quotas, readers : SUBSET Users]
RepositoryRow == [url : Urls, pin : Nat, named : BOOLEAN, version : Nat, valid : BOOLEAN]
GitOpsOperation == [kind : {"preview", "publish"}, url : Urls,
                    status : {"queued", "running", "preview_ready", "superseded",
                              "succeeded", "failed"}]
Binding == [id : Creds, user : Users]

ASSUME NoneAssumption ==
  None \notin Cred /\ None \notin Manifest /\ None \notin OpenstackProject
  /\ None \notin RepositoryRow /\ None \notin Roles

VARIABLES
  db,         \* the rows of one cluster
  git,        \* the two management repositories, and what Argo CD has applied of them
  bindings,   \* the role bindings of the portal in the tenant cluster
  store,      \* the customer's repository, its secrets in OpenBao, and its operations
  hs,         \* the handlers
  locks,      \* who holds the cluster's (or its slug's) and the repository's lock
  todo,       \* the requests that are still to come
  faults,     \* errors so far
  seen        \* what happened, for the properties only

state == <<db, git, bindings, store>>
vars == <<state, hs, locks, todo, faults, seen>>

\* The quota that standard-v1 asks for: the fixed machines, the groups, and a reserve.
Quota(groups) ==
  LET instances == 4 + 3 * groups + 4
      gigabytes == 320 + 300 * groups + 400
  IN [instances |-> instances, volumes |-> instances, ports |-> 2 * instances,
      cores |-> 7 + 12 * groups + 14, ramGiB |-> 14 + 48 * groups + 52,
      volumesGB |-> IF gigabytes < 1024 THEN 1024 ELSE gigabytes]

NoCluster == [state |-> "none", contract |-> None, alias |-> NoAlias, ca |-> None, provisioned |-> FALSE,
              groups |-> 1, version |-> 1, backup |-> FALSE]

\* What a request, once it is taken, remembers between its steps.
Idle == [op |-> "idle", step |-> "idle", event |-> None, id |-> 0, saw |-> None, set |-> {},
         lost |-> FALSE]

Live == db.row.state = "live"
May(u, role) == u \in Sunet \/ db.access[u] \in {role, "customer_admin"}
Active(c) == db.creds[c] # None /\ ~db.creds[c].revoked

\* A fresh uuid: one that has left no trace.
NewId == CHOOSE c \in Creds : /\ db.creds[c] = None
                              /\ \A b \in bindings : b.id # c
                              /\ \A h \in Handlers : hs[h].id # c
HasNewId == \E c \in Creds : /\ db.creds[c] = None
                             /\ \A b \in bindings : b.id # c
                             /\ \A h \in Handlers : hs[h].id # c

------------------------------------------------------------------------------
Wanted(h, ops) == {e \in todo : hs[h] = Idle /\ e.op \in ops}
At(h, ops, step) == hs[h].op \in ops /\ hs[h].step = step
Event(h) == hs[h].event

Enter(h, e, step, id, saw, set) ==
  /\ hs' = [hs EXCEPT ![h] = [op |-> e.op, step |-> step, event |-> e, id |-> id,
                              saw |-> saw, set |-> set, lost |-> FALSE]]
  /\ todo' = todo \ {e}
Move(h, step) == hs' = [hs EXCEPT ![h].step = step] /\ UNCHANGED todo

\* SELECT ... FOR UPDATE of the cluster's row, once nobody holds it; a decommissioned
\* cluster is refused.
LockRowUnheld(h) == locks' = [locks EXCEPT !.row = h]
LockRow(h) == /\ locks.row = Nobody /\ locks' = [locks EXCEPT !.row = h]
RowFree == locks.row = Nobody
LockCluster(h) == Live /\ LockRow(h)

\* The advisory lock of the customer's repository.
RepoFree == locks.repo = Nobody
LockRepo(h) == RepoFree /\ locks' = [locks EXCEPT !.repo = h]

\* The end of a request: its transaction, and with it its locks, ends.
Freed(lock, h) == IF lock = h THEN Nobody ELSE lock
Released(h) == [row |-> Freed(locks.row, h), repo |-> Freed(locks.repo, h)]
Leave(h) == /\ hs' = [hs EXCEPT ![h] = Idle]
            /\ locks' = Released(h)
            /\ UNCHANGED todo

\* A commit needs the session that took the locks.
Commit(h) == ~hs[h].lost /\ Leave(h)
==============================================================================
