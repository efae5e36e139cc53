---------------------------- MODULE PortalRequests ----------------------------
(***************************************************************************)
(* Change requests (cluster_request_service.py): a customer administrator  *)
(* asks, a SUNET administrator applies or denies.  Neither takes the       *)
(* cluster's lock: what they test was read before, and their writes wait   *)
(* only while another transaction holds the row.                           *)
(***************************************************************************)
EXTENDS PortalCredentials

NotStore == UNCHANGED <<bindings, store, faults>>

\* create_request: checks first, so that obvious mistakes are not queued.
Sensible(e) ==
  CASE e.type = "resize" -> e.target > db.row.groups
    [] e.type = "backup" -> e.target # db.row.backup
    [] e.type = "addon" -> TRUE

StartRequest(h) == \E e \in Wanted(h, {"request"}) :
  /\ Live /\ May(e.by, "customer_admin") /\ Sensible(e)
  /\ Enter(h, e, "insert", 0, None, {})
  /\ UNCHANGED <<db, git, locks, seen>> /\ NotStore

\* The row's foreign key waits for whoever has locked the cluster for an update.
InsertRequest(h) ==
  /\ At(h, {"request"}, "insert") /\ RowFree
  /\ Leave(h)
  /\ LET e == Event(h)
     IN db' = [db EXCEPT !.requests = Append(@, [type |-> e.type, target |-> e.target,
                                                 status |-> "pending", before |-> 0])]
  /\ UNCHANGED <<git, seen>> /\ NotStore

\* apply_request on a pending request of a cluster that was live when it was read.
Request(h) == db.requests[hs[h].id]
Applicable(r) ==
  LET request == db.requests[r]
  IN /\ request.status = "pending" /\ Live
     /\ CASE request.type = "resize" -> request.target > db.row.groups
          [] request.type = "backup" -> request.target # db.row.backup
          [] request.type = "addon" -> request.target # db.addon

\* Two resizes of different sizes, one begun before the other was over.
Overtakes(h, target) ==
  \/ target < seen.target
  \/ \E o \in Handlers \ {h} : At(o, {"apply"}, "quota") /\ Request(o).target # target
  \/ \E o \in Handlers \ {h} : At(o, {"apply"}, "groups") /\ Request(o).target # target

\* _apply_resize: the quota first, then the groups.
StepsGroupsFirst == [begin |-> "groups", groups |-> "quota", quota |-> "commit"]
ResizeSteps == [begin |-> "quota", quota |-> "groups", groups |-> "commit"]
FirstStep(type) == CASE type = "resize" -> ResizeSteps.begin
                     [] type = "backup" -> "backup"
                     [] type = "addon" -> "commit"

StartApply(h) == \E e \in Wanted(h, {"apply"}) : \E r \in DOMAIN db.requests :
  /\ Applicable(r)
  /\ LET request == db.requests[r]
     IN /\ Enter(h, e, FirstStep(request.type), r, db.row.groups, {})
        /\ seen' = IF request.type = "resize"
                     THEN [seen EXCEPT !.target = request.target, !.overtaken = @ \/ Overtakes(h, request.target)]
                     ELSE seen
  /\ UNCHANGED <<db, git, locks>> /\ NotStore

\* Each is pushed to its own repository, ...
PushQuota(h) ==
  /\ At(h, {"apply"}, "quota") /\ git.mgmt # None
  /\ git' = [git EXCEPT !.mgmt.quota = Quota(Request(h).target)]
  /\ Move(h, ResizeSteps.quota)
  /\ UNCHANGED <<db, locks, seen>> /\ NotStore

PushGroups(h) ==
  /\ At(h, {"apply"}, "groups") /\ git.manifest # None
  /\ git' = [git EXCEPT !.manifest.groups = Request(h).target]
  /\ Move(h, ResizeSteps.groups)
  /\ UNCHANGED <<db, locks, seen>> /\ NotStore

\* _apply_backup: a new project, which must not be there, or its removal, which may.
PushBackup(h) ==
  /\ At(h, {"apply"}, "backup")
  /\ Request(h).target => ~git.backup
  /\ git' = [git EXCEPT !.backup = Request(h).target]
  /\ Move(h, "commit")
  /\ UNCHANGED <<db, locks, seen>> /\ NotStore

\* ... and then the rows: the last of two that were applied or denied at a time wins.
\* The partial index admits one active addon of a type.
Applied(request, row) ==
  CASE request.type = "resize" -> [row EXCEPT !.groups = request.target]
    [] request.type = "backup" -> [row EXCEPT !.backup = request.target]
    [] request.type = "addon" -> row

CommitApply(h) ==
  /\ At(h, {"apply"}, "commit") /\ RowFree
  /\ LET request == Request(h)
         before == IF request.type = "resize" THEN hs[h].saw ELSE request.before
         addon == IF request.type = "addon" THEN request.target ELSE db.addon
     IN /\ request.type = "addon" /\ request.target => ~db.addon
        /\ db' = [db EXCEPT !.row = Applied(request, db.row), !.addon = addon,
                            !.requests[hs[h].id] = [request EXCEPT !.status = "applied", !.before = before]]
  /\ Leave(h)
  /\ UNCHANGED <<git, seen>> /\ NotStore

\* deny_request
StartDeny(h) == \E e \in Wanted(h, {"deny"}) : \E r \in DOMAIN db.requests :
  /\ db.requests[r].status = "pending"
  /\ Enter(h, e, "deny", r, None, {})
  /\ UNCHANGED <<db, git, locks, seen>> /\ NotStore

CommitDeny(h) ==
  /\ At(h, {"deny"}, "deny")
  /\ Leave(h)
  /\ db' = [db EXCEPT !.requests[hs[h].id].status = "denied"]
  /\ UNCHANGED <<git, seen>> /\ NotStore
==============================================================================
