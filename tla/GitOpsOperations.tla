-------------------------- MODULE GitOpsOperations --------------------------
(***************************************************************************)
(* The rows of one customer's cluster repository and what administrators   *)
(* do to them: the repository's configuration (customer_cluster_repository)*)
(* each cluster's settings and publication record (cluster_gitops) and the *)
(* preview and publish operations (gitops_operation), in creation order.   *)
(*                                                                         *)
(* Every request below is one transaction that first takes the advisory    *)
(* lock customer-repository, which a worker holds while it executes an     *)
(* operation: a request waits for it, so it is enabled when it is free.    *)
(***************************************************************************)
EXTENDS GitOpsTree, FiniteSets

CONSTANTS
  Workers,        \* GitOps workers, one per replica of the portal
  Nobody,         \* of the free lock
  NoPreview,      \* of an operation whose preview is not prepared
  DefaultContact, \* the contact of a cluster whose draft was never edited
  MaxOperations,  \* bound: operations
  MaxVersion      \* bound: the repository's version and a cluster's, together

ASSUME OperationAssumption ==
  /\ Nobody \notin Workers
  /\ DefaultContact \in Contacts
  /\ NoPreview \notin [cluster : Clusters, head : Nat, files : Trees, source : Generations]
  /\ NoPreview \notin [cluster : Clusters, head : Nat, files : Trees]
  /\ MaxOperations \in Nat
  /\ MaxVersion \in Nat \ {0}

VARIABLES
  repository,   \* the repository row: version, and validation_status = "valid"
  state,        \* per cluster: version, contact, baseline and last_commit
  operations,   \* the operation rows, oldest first
  lock          \* holder of the repository's advisory lock

rows == <<repository, state, operations>>

Statuses == {"queued", "running", "preview_ready", "superseded",
             "succeeded", "failed", "conflict"}
Active == {"queued", "running"}

Previews == [cluster : Clusters, head : Nat, files : Trees, source : Generations]

Operation == [cluster : Clusters,
              kind : {"preview", "publish"},
              status : Statuses,
              repository_version : Nat,
              settings_version : Nat,
              adopt : BOOLEAN,
              preview : Previews \cup {NoPreview},
              result : Nat]

ClusterState == [version : Nat, contact : Contacts, baseline : Trees, last_commit : Nat]

Ids == DOMAIN operations

\* Another operation of the cluster waits or runs.
ActiveOperation(c) ==
  \E o \in Ids : operations[o].cluster = c /\ operations[o].status \in Active

\* The configuration is still what the operation was requested for.
Current(op) ==
  /\ op.repository_version = repository.version
  /\ op.settings_version = state[op.cluster].version

InitRows ==
  /\ repository = [version |-> 1, valid |-> TRUE]
  /\ state = [c \in Clusters |->
       [version |-> 1, contact |-> DefaultContact, baseline |-> Nothing, last_commit |-> 0]]
  /\ operations = <<>>
  /\ lock = Nobody
-----------------------------------------------------------------------------
\* replace_credentials: a new version, to be validated again.
ReplaceCredentials ==
  /\ lock = Nobody
  /\ \A c \in Clusters : repository.version + state[c].version < MaxVersion
  /\ repository' = [version |-> repository.version + 1, valid |-> FALSE]
  /\ UNCHANGED <<state, operations, lock>>

ValidateRepository ==
  /\ lock = Nobody
  /\ \E valid \in BOOLEAN : repository' = [repository EXCEPT !.valid = valid]
  /\ UNCHANGED <<state, operations, lock>>

\* A slip in SaveSettings: the lock is not taken.
SaveUnlocked(c, contact) ==
  /\ contact # state[c].contact
  /\ repository.version + state[c].version < MaxVersion
  /\ state' = [state EXCEPT ![c].contact = contact, ![c].version = @ + 1]
  /\ UNCHANGED <<repository, operations, lock>>

\* save_settings, by an editor who saw the present version.
SaveSettings(c, contact) ==
  /\ lock = Nobody
  /\ contact # state[c].contact
  /\ repository.version + state[c].version < MaxVersion
  /\ state' = [state EXCEPT ![c].contact = contact, ![c].version = @ + 1]
  /\ UNCHANGED <<repository, operations, lock>>

EnqueuePreview(c, adopt) ==
  /\ lock = Nobody
  /\ Len(operations) < MaxOperations
  /\ repository.valid
  /\ ~ActiveOperation(c)
  /\ operations' = Append(
       [o \in Ids |->
          IF operations[o].cluster = c /\ operations[o].status = "preview_ready"
          THEN [operations[o] EXCEPT !.status = "superseded"] ELSE operations[o]],
       [cluster |-> c, kind |-> "preview", status |-> "queued",
        repository_version |-> repository.version,
        settings_version |-> state[c].version,
        adopt |-> adopt, preview |-> NoPreview, result |-> 0])
  /\ UNCHANGED <<repository, state, lock>>

\* What enqueue_publish accepts: a reviewed preview whose configuration is
\* still current, or a publication that failed.
Publishable(op) ==
  /\ op.preview # NoPreview
  /\ \/ op.kind = "preview" /\ op.status = "preview_ready"
        /\ Current(op) /\ repository.valid
     \/ op.kind = "publish" /\ op.status = "failed"

\* A slip in EnqueuePublish: other operations of the cluster are not looked for.
EnqueueBeside(o) ==
  /\ lock = Nobody
  /\ Publishable(operations[o])
  /\ operations' = [operations EXCEPT ![o].kind = "publish", ![o].status = "queued"]
  /\ UNCHANGED <<repository, state, lock>>

EnqueuePublish(o) ==
  /\ lock = Nobody
  /\ ~ActiveOperation(operations[o].cluster)
  /\ Publishable(operations[o])
  /\ operations' = [operations EXCEPT ![o].kind = "publish", ![o].status = "queued"]
  /\ UNCHANGED <<repository, state, lock>>

Request ==
  \/ ReplaceCredentials
  \/ ValidateRepository
  \/ \E c \in Clusters :
       \/ \E contact \in Contacts : SaveSettings(c, contact)
       \/ \E adopt \in BOOLEAN : EnqueuePreview(c, adopt)
  \/ \E o \in Ids : EnqueuePublish(o)
=============================================================================
