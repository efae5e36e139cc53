---------------------------- MODULE ClusterTimers ----------------------------
(***************************************************************************)
(* The timers of cluster-scoped records, and the patches that change       *)
(* handlers and timers leave behind.                                       *)
(***************************************************************************)
EXTENDS ClusterHandlers

StartThread(c, t, th) ==
  /\ LoopFree
  /\ ThreadFree
  /\ ~Busy(t)
  /\ Live(c)
  /\ task' = [task EXCEPT ![t] = th]
  /\ KeepCloud /\ UNCHANGED <<records, gc>>

\* A slip of StartTimer: an image that is Pending is left alone, as other kinds are.
StartTimerOfReady(c) ==
  /\ cr[c].phase = "Ready"
  /\ StartThread(c, <<c, "timer">>, Started(c, "look", <<"look", "patch">>))

\* The reconciliation of a record that is Ready, and of an image that is Pending.
StartTimer(c) ==
  \/ /\ cr[c].phase = "Ready"
     /\ StartThread(c, <<c, "timer">>, Started(c, "look", <<"look", "patch">>))
  \/ /\ cr[c].phase = "Pending"
     /\ Kind(c) = "image"
     /\ StartThread(c, <<c, "timer">>, Started(c, "recreate", CreateImage(cr[c].spec) \o <<"patch">>))

\* poll_image_status is due for an image whose import is going on.
StartPoll(c) ==
  /\ Kind(c) = "image"
  /\ cr[c].phase \in {"Provisioning", "Pending"}
  /\ cr[c].id # 0
  /\ StartThread(c, <<c, "poll">>, Started(c, "poll", <<"look", "patch">>))

Lost == [Same EXCEPT !.phase = "Pending", !.id = 0]
Moved(id) == [Same EXCEPT !.phase = "Pending", !.id = id]

\* What the timers decide, given what they found (0 or a resource). Only an image
\* that is Pending is ever made again; "triggering recreate" does it for no other.
ByNameAndId(th, found) ==
  IF found = {} THEN Lost
  ELSE LET r == CHOOSE r \in found : TRUE IN IF r.id = th.id THEN Same ELSE Moved(r.id)
ReconciledDomain(th, found) == ByNameAndId(th, found)
ReconciledFlavor(th, found) == ByNameAndId(th, found)
ReconciledNetwork(th, found) == ByNameAndId(th, found)
ReconciledPolicy(th, found) == IF found = {} THEN [Same EXCEPT !.phase = "Pending"] ELSE Same
ReconciledImage(th, found) == ByNameAndId(th, found)

Reconciled(th, found) ==
  CASE th.kind = "domain" -> ReconciledDomain(th, found)
    [] th.kind = "flavor" -> ReconciledFlavor(th, found)
    [] th.kind = "network" -> ReconciledNetwork(th, found)
    [] th.kind = "policy" -> ReconciledPolicy(th, found)
    [] th.kind = "image" -> ReconciledImage(th, found)

\* An image whose settings drifted is set right again.
Drifted(th, found) ==
  th.kind = "image" /\ \E r \in found : r.id = th.id /\ r.extra # th.spec.extra

Look(t) ==
  /\ At(t, "look")
  /\ task[t].fn = "look"
  /\ LET th == task[t]
         named == ByName(th.kind, th.spec.name)
     IN \E found \in IF named = {} THEN {{}} ELSE {{r} : r \in named} :
          task' = [task EXCEPT ![t].put = Reconciled(th, found),
                     ![t].todo = IF Drifted(th, found) THEN <<"settings", "patch">> ELSE Rest(t)]
  /\ KeepCloud /\ KeepRecords /\ UNCHANGED <<events, gc>>

\* The third time that an import is stuck is the last.
Retried(th) ==
  IF th.tries + 1 < 3
  THEN [phase |-> "Pending", id |-> 0, tries |-> th.tries + 1, began |-> 0]
  ELSE [Same EXCEPT !.phase = "Error"]

\* poll_image_status: an import is over, or goes on; one that has been queued for
\* more than 600 seconds is stuck: its image is deleted. One that Glance is busy with
\* has no such limit.
Poll(t) ==
  /\ At(t, "look")
  /\ task[t].fn = "poll"
  /\ LET th == task[t]
         found == ById(th.id)
         state == Seen(CHOOSE r \in found : TRUE)
         stuck == found # {} /\ state = "queued" /\ th.began = 2
     IN task' = [task EXCEPT
          ![t].todo = IF stuck THEN <<"drop", "patch">> ELSE Rest(t),
          ![t].put = IF found = {} THEN Lost
                     ELSE IF stuck THEN Retried(th)
                     ELSE CASE state = "active" -> [Same EXCEPT !.phase = "Ready"]
                            [] state = "killed" -> [Same EXCEPT !.phase = "Error"]
                            [] state = "busy" -> Same
                            [] state = "queued" -> [Same EXCEPT !.began = IF th.began = 0 THEN 1 ELSE -1]]
  /\ KeepCloud /\ KeepRecords /\ UNCHANGED <<events, gc>>

\* An error of the deletion is logged.
Drop(t) ==
  /\ At(t, "drop")
  /\ \/ stock' = stock \ ById(task[t].id) /\ UNCHANGED events
     \/ Fault /\ UNCHANGED stock
  /\ Next1(t)
  /\ KeepRecords /\ UNCHANGED <<ids, gc>>
-----------------------------------------------------------------------------
(* Patches.                                                                *)

Written(r, put) ==
  [r EXCEPT !.phase = IF put.phase = "same" THEN @ ELSE put.phase,
            !.id = IF put.id = -1 THEN @ ELSE put.id,
            !.tries = IF put.tries = -1 THEN @ ELSE put.tries,
            !.began = IF put.began = -1 THEN @ ELSE put.began]

\* What create leaves in the status: an image that is not active yet stays
\* Provisioning, an external one that is missing is Pending. Where an update came to
\* create, the update's own handling of errors has the last word: Error.
PutOfCreate(c, th) ==
  CASE th.end = "missing" -> [Same EXCEPT !.phase = IF cr[c].handled = NoWish THEN "Pending" ELSE "Error"]
    [] th.end = "failed" -> [Same EXCEPT !.phase = "Error"]
    [] th.end = "ok" ->
         IF th.kind = "image" /\ ~th.spec.external /\ th.seen # "active"
         THEN [phase |-> "Provisioning", id |-> th.id, tries |-> 0, began |-> 1]
         ELSE [Same EXCEPT !.phase = "Ready", !.id = IF th.kind = "policy" THEN -1 ELSE th.id]

\* Update writes the id back that it started with unless it has a new one.
PutOfUpdate(th) ==
  IF th.end = "ok" THEN [Same EXCEPT !.phase = "Ready", !.id = IF th.kind = "policy" THEN -1 ELSE th.id]
  ELSE [Same EXCEPT !.phase = "Error", !.id = th.was]

\* The spec counts as handled unless the handler is to be called again.
PatchChange(c) ==
  LET t == <<c, "change">>
      th == task[t]
      put == IF th.fn = "create" THEN PutOfCreate(c, th) ELSE PutOfUpdate(th)
      handled == IF th.end \in {"ok", "permanent"} THEN th.spec ELSE cr[c].handled
  IN /\ LoopFree
     /\ At(t, "patch")
     /\ cr' = [cr EXCEPT ![c] = [Written(@, put) EXCEPT !.handled = handled]]
     /\ task' = [task EXCEPT ![t] = Idle]
     /\ KeepCloud /\ UNCHANGED <<registry, plan, events, imports, gc>>

\* A slip of PutOfRecreate: the count of retries starts anew with the new image.
PutOfRecreateAfresh(th) ==
  IF th.end = "failed" THEN [Same EXCEPT !.phase = "Error"]
  ELSE IF th.seen = "active" THEN [Same EXCEPT !.phase = "Ready", !.id = th.id]
  ELSE [phase |-> "Provisioning", id |-> th.id, tries |-> 0, began |-> 1]

\* What reconcile_image leaves of an image that was Pending. An exception of an
\* external one ends the timer without a patch.
PutOfRecreate(th) ==
  IF th.spec.external
  THEN IF th.end = "ok" THEN [Same EXCEPT !.phase = "Ready", !.id = th.id] ELSE Same
  ELSE IF th.end = "failed" THEN [Same EXCEPT !.phase = "Error"]
  ELSE IF th.seen = "active" THEN [Same EXCEPT !.phase = "Ready", !.id = th.id]
  ELSE [Same EXCEPT !.phase = "Provisioning", !.id = th.id, !.began = 1]

PatchTimer(c, t) ==
  LET th == task[t]
  IN /\ LoopFree
     /\ At(t, "patch")
     /\ cr' = [cr EXCEPT ![c] = Written(@, IF th.fn = "recreate" THEN PutOfRecreate(th) ELSE th.put)]
     /\ task' = [task EXCEPT ![t] = Idle]
     /\ KeepCloud /\ UNCHANGED <<registry, plan, events, imports, gc>>

\* kopf takes its finalizer back when the handler and the timers are done.
ReleaseRecord(c) ==
  LET t == <<c, "change">>
  IN /\ LoopFree
     /\ At(t, "release")
     /\ ~Busy(<<c, "timer">>) /\ ~Busy(<<c, "poll">>)
     /\ cr' = [cr EXCEPT ![c] = Absent]
     /\ task' = [task EXCEPT ![t] = Idle]
     /\ KeepCloud /\ UNCHANGED <<registry, plan, events, imports, gc>>
=============================================================================
