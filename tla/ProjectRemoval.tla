--------------------------- MODULE ProjectRemoval ---------------------------
(***************************************************************************)
(* Deletion of OpenstackProject records and their periodic reconciliation. *)
(***************************************************************************)
EXTENDS ProjectHandlers

-----------------------------------------------------------------------------
(* delete_project_handler                                                  *)

\* A slip in StartDelete: only what is ready is deleted.
StartDeleteReady(c) ==
  /\ cr[c].at = "deleting"
  /\ cr[c].phase = "Ready"
  /\ Begin(c, "delete", IF cr[c].pid = 0 THEN "release" ELSE "list", cr[c].gid, StatusOf(c))

\* Without the id of a project there is nothing to delete.
StartDelete(c) ==
  /\ cr[c].at = "deleting"
  /\ Begin(c, "delete", IF cr[c].pid = 0 THEN "release" ELSE "list", cr[c].gid, StatusOf(c))

\* A slip in Unreferenced: a record that has not provisioned anything does not count.
UnreferencedByStatus(c) ==
  LET others == {d \in Duplicates(c, N(c)) : cr[d].pid # 0}
  IN \/ /\ task' = [task EXCEPT ![c].at = IF others = {} THEN "unmap" ELSE "release",
                                ![c].listed = born]
        /\ UNCHANGED events
     \/ /\ Fault
        /\ task' = [task EXCEPT ![c] = NoTask]

\* The project goes only when no other record refers to it; the deletion waits
\* when that cannot be seen.
Unreferenced(c) ==
  \/ /\ task' = [task EXCEPT ![c].at = IF Duplicates(c, N(c)) = {} THEN "unmap" ELSE "release",
                             ![c].listed = born]
     /\ UNCHANGED events
  \/ /\ Fault
     /\ task' = [task EXCEPT ![c] = NoTask]

ListForDelete(c) ==
  /\ At(c, "list")
  /\ Unreferenced(c)
  /\ ThreadStep
  /\ UNCHANGED cloud

\* remove_project_mapping reads the rules.
ReadForDelete(c) ==
  /\ At(c, "unmap")
  /\ task' = IF task[c].spec.fed THEN [task EXCEPT ![c].at = "unwrite", ![c].view = rules]
             ELSE [task EXCEPT ![c].at = "destroy"]
  /\ ThreadStep
  /\ UNCHANGED <<cloud, events>>

WriteForDelete(c) ==
  /\ At(c, "unwrite")
  /\ rules' = RuleRemoved(task[c].view, N(c))
  /\ task' = [task EXCEPT ![c].at = "destroy", ![c].view = NoView]
  /\ ThreadStep
  /\ UNCHANGED <<project, group, direct, parts, keys, known, ids, events>>

\* An error of the mapping fails the deletion; kopf calls it again.
FailDelete(c) ==
  /\ Fault
  /\ task[c].at \in {"unmap", "unwrite"}
  /\ task' = [task EXCEPT ![c] = NoTask]
  /\ ThreadStep
  /\ UNCHANGED cloud

StatusParts(c) == {task[c].put.parts[k] : k \in Kinds} \ {0}

\* Security groups, networks, group and project are deleted by the ids of the
\* status, whatever the spec calls them now. Errors are logged and the deletion counts as done.
Destroy(c) ==
  /\ At(c, "destroy")
  /\ \E missed \in SUBSET {"project", "group"}, kept \in SUBSET StatusParts(c) :
       /\ IF missed = {} /\ kept = {} THEN UNCHANGED events ELSE Fault
       /\ parts' = Without(parts, StatusParts(c), kept)
       /\ group' = IF "group" \in missed THEN group ELSE DeletedGroup(task[c].gid)
       /\ IF "project" \in missed THEN UNCHANGED <<project, direct>>
          ELSE project' = DeletedProject(Pid(c)) /\ direct' = DirectWithout(Pid(c))
  /\ Go(c, "release")
  /\ ThreadStep
  /\ UNCHANGED <<keys, rules, known, ids>>

\* kopf takes its finalizer back when the handler and the timer are done.
ReleaseRecord(c) ==
  /\ LoopFree
  /\ At(c, "release")
  /\ TickAt(c, "idle")
  /\ cr' = [cr EXCEPT ![c] = Absent]
  /\ task' = [task EXCEPT ![c] = NoTask]
  /\ waived' = waived \ {c}
  /\ UNCHANGED <<cloud, born, second, plan, events, tick, loop>>
-----------------------------------------------------------------------------
(* reconcile_project, the timer                                            *)

TickStep == KeepRecords /\ UNCHANGED <<task, loop, waived>>
T(c) == tick[c].spec
TickGo(c, step) == tick' = [tick EXCEPT ![c].at = step]

\* Only a record that is Ready is reconciled.
StartTick(c) ==
  /\ LoopFree
  /\ ThreadFree
  /\ Live(c)
  /\ cr[c].phase = "Ready"
  /\ TickAt(c, "idle")
  /\ tick' = [tick EXCEPT ![c] = [NoTick EXCEPT !.at = "check", !.spec = cr[c].spec,
                                   !.pid = cr[c].pid, !.gid = cr[c].gid]]
  /\ UNCHANGED <<cloud, cr, born, second, plan, events, task, loop, waived>>

\* The project is looked up by its name. One that is missing, or another one,
\* sends the record back to Pending; otherwise the transit key is repaired.
Check(c) ==
  /\ TickAt(c, "check")
  /\ LET n == T(c).name
     IN IF ~Exists(n)
        THEN TickGo(c, "lost") /\ UNCHANGED <<keys, events>>
        ELSE IF project[n].id # tick[c].pid
        THEN /\ tick' = [tick EXCEPT ![c].at = "moved", ![c].pid = project[n].id,
                                     ![c].gid = group[make_group_name(n)].id]
             /\ UNCHANGED <<keys, events>>
        ELSE /\ TickGo(c, "bind")
             /\ \/ keys' = keys \cup {tick[c].pid} /\ UNCHANGED events
                \/ keys' = keys /\ Fault
  /\ TickStep
  /\ UNCHANGED <<project, group, direct, parts, rules, known, ids>>

\* The patch of _resolve_group_id: the id of a group found by name only, else nothing.
Corrected(c) ==
  LET gid == ResolvedGroup(T(c).name, tick[c].gid)
  IN IF T(c).bindings = <<>> \/ gid = tick[c].gid THEN 0 ELSE gid

TickTo(c, step, gid) == tick' = [tick EXCEPT ![c].at = step, ![c].gid = gid]

\* Role bindings are applied again: users may have appeared since. An error
\* ends the timer.
TickBind(c) ==
  /\ TickAt(c, "bind")
  /\ LET gid == ResolvedGroup(T(c).name, tick[c].gid)
     IN IF T(c).bindings = <<>> \/ gid = 0
        THEN TickTo(c, "map", 0) /\ UNCHANGED <<group, direct>>
        ELSE IF Bindable(T(c), tick[c].pid, gid)
        THEN TickTo(c, "map", Corrected(c)) /\ ApplyRoleBindings(T(c), tick[c].pid, gid)
        ELSE TickTo(c, "end", Corrected(c)) /\ UNCHANGED <<group, direct>>
  /\ TickStep
  /\ UNCHANGED <<project, parts, keys, rules, known, ids, events>>

\* A slip in TickMaps: a managed project's rule is not looked at.
TickMapsOwn(w) == w.fed /\ ~w.managed /\ UsersOf(w.bindings) # {}

\* The rules are read to put the project's own back, or to take a managed one's away.
TickMaps(w) == w.fed /\ w.bindings # <<>> /\ (w.managed \/ UsersOf(w.bindings) # {})

TickReadRules(c) ==
  /\ TickAt(c, "map")
  /\ tick' = IF TickMaps(T(c)) THEN [tick EXCEPT ![c].at = "write", ![c].view = rules]
             ELSE [tick EXCEPT ![c].at = "end"]
  /\ TickStep
  /\ UNCHANGED <<cloud, events>>

TickWriteRules(c) ==
  /\ TickAt(c, "write")
  /\ rules' = IF T(c).managed THEN RuleRemoved(tick[c].view, T(c).name)
              ELSE WithRule(tick[c].view, T(c).name, UsersOf(T(c).bindings))
  /\ tick' = [tick EXCEPT ![c].at = "end", ![c].view = NoView]
  /\ TickStep
  /\ UNCHANGED <<project, group, direct, parts, keys, known, ids, events>>

\* An error is logged, and what the patch has already is written; the next tick starts over.
FailTick(c) ==
  /\ Fault
  /\ \/ tick[c].at = "check" /\ TickTo(c, "end", 0)
     \/ tick[c].at = "bind" /\ \E gid \in {0, Corrected(c)} : TickTo(c, "end", gid)
     \/ tick[c].at \in {"map", "write"} /\ TickGo(c, "end")
  /\ TickStep
  /\ UNCHANGED cloud

\* The patch of the timer: Pending and the ids it saw, or the corrected id of the group.
PatchTick(c) ==
  /\ LoopFree
  /\ tick[c].at \in {"lost", "moved", "end"}
  /\ cr' = [cr EXCEPT ![c] =
       CASE TickAt(c, "lost") -> [@ EXCEPT !.phase = "Pending", !.pid = 0, !.gid = 0]
         [] TickAt(c, "moved") -> [@ EXCEPT !.phase = "Pending", !.pid = tick[c].pid,
                                            !.gid = tick[c].gid]
         [] TickAt(c, "end") -> [@ EXCEPT !.gid = IF tick[c].gid = 0 THEN @ ELSE tick[c].gid]]
  /\ tick' = [tick EXCEPT ![c] = NoTick]
  /\ UNCHANGED <<cloud, born, second, plan, events, task, loop, waived>>
=============================================================================
