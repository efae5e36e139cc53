--------------------------- MODULE ProjectHandlers ---------------------------
(***************************************************************************)
(* The change handlers and the timer of OpenstackProject records. Both are *)
(* synchronous: kopf runs each in a thread of its own, one change handler  *)
(* and one timer of a record at a time, with the spec and the status as    *)
(* they were when it was started, and writes its patch when it has ended.  *)
(* The event loop starts handlers and writes patches; it does neither      *)
(* while a daemon's blocking calls hold it (LoopFree), and the threads     *)
(* that run go on meanwhile.                                               *)
(*                                                                         *)
(* A step of a handler is one exchange with OpenStack or Kubernetes whose  *)
(* order relative to other threads matters. Calls that nobody else's       *)
(* behaviour depends on are one step: quotas, transit key and networks;    *)
(* all role bindings; security groups, networks, group and project of a    *)
(* deletion, any of which may fail alone.                                  *)
(***************************************************************************)
EXTENDS ProjectRecords

VARIABLES
  task,     \* the change handler of each record
  tick,     \* the timer of each record
  loop,     \* what holds the event loop
  waived    \* records that went ahead although the others could not be listed

handlers == <<task, tick, loop, waived>>

Steps == {"idle", "claim", "project", "mark", "group", "furnish", "bind", "map", "write", "ready",
          "failed", "tag", "refurnish", "list", "unmap", "unwrite", "destroy", "release"}

\* A change handler: its step and function, the spec and the last handled one, the group it
\* uses, what it is to write into the status, the rules it read and how many
\* records had been created when it listed them. The name in its spec may be another than
\* that of the project whose id it took from the status.
Task == [at : Steps, kind : {"create", "update", "delete"}, spec : Wish \cup {NoWish}, old : Wish \cup {NoWish}, gid : 0..MaxIds,
         put : [pid : 0..MaxIds, gid : 0..MaxIds, parts : [Kinds -> 0..MaxIds]],
         view : [GroupNames -> SUBSET Users], listed : 0..MaxEvents]

NoView == [g \in GroupNames |-> {}]
NoPut == [pid |-> 0, gid |-> 0, parts |-> NoParts]
NoTask == [at |-> "idle", kind |-> "create", spec |-> NoWish, old |-> NoWish, gid |-> 0, put |-> NoPut,
           view |-> NoView, listed |-> 0]

Tick == [at : {"idle", "check", "lost", "moved", "bind", "map", "write", "end"},
         spec : Wish \cup {NoWish}, pid : 0..MaxIds, gid : 0..MaxIds,
         view : [GroupNames -> SUBSET Users]]
NoTick == [at |-> "idle", spec |-> NoWish, pid |-> 0, gid |-> 0, view |-> NoView]

LoopFree == loop.at = "idle"
ThreadFree ==
  Cardinality({c \in Records : task[c].at # "idle"})
    + Cardinality({c \in Records : tick[c].at # "idle"}) < plan.threads
At(c, step) == task[c].at = step
TickAt(c, step) == tick[c].at = step
N(c) == task[c].spec.name
Pid(c) == task[c].put.pid

Go(c, step) == task' = [task EXCEPT ![c].at = step]

\* The step reads or changes nothing but what the action names.
KeepRecords == UNCHANGED <<cr, born, second, plan>>
ThreadStep == KeepRecords /\ UNCHANGED <<tick, loop, waived>>
-----------------------------------------------------------------------------
(* Create, and update of a record without a project.                       *)

StatusOf(c) == [pid |-> cr[c].pid, gid |-> cr[c].gid, parts |-> cr[c].parts]

\* _resolve_group_id: by its id, or by the name of the project, or not at all.
ResolvedGroup(n, gid) ==
  IF gid = 0 \/ HasGroup(gid) THEN gid ELSE group[make_group_name(n)].id

Begin(c, kind, step, gid, put) ==
  /\ LoopFree
  /\ ThreadFree
  /\ task[c].at = "idle"
  /\ task' = [task EXCEPT ![c] = [NoTask EXCEPT !.at = step, !.kind = kind, !.spec = cr[c].spec,
                                    !.old = cr[c].handled, !.gid = gid, !.put = put]]
  /\ cr' = [cr EXCEPT ![c].held = TRUE]
  /\ UNCHANGED <<cloud, born, second, plan, events, tick, loop, waived>>

\* create_project is called: a new record, or an edited one without a project.
StartCreate(c) ==
  /\ Live(c)
  /\ cr[c].handled # cr[c].spec
  /\ cr[c].handled = NoWish \/ cr[c].pid = 0
  /\ Begin(c, "create", "claim", 0, [StatusOf(c) EXCEPT !.pid = 0, !.gid = 0])

\* The records are listed and the claims of others respected. A listing that
\* fails does not stop the handler.
Claim(c) ==
  /\ At(c, "claim")
  /\ \/ /\ Go(c, IF Owners(c, N(c)) = {} THEN "project" ELSE "failed")
        /\ waived' = waived \ {c}
        /\ UNCHANGED events
     \/ /\ Fault
        /\ Go(c, "project")
        /\ waived' = waived \cup {c}
  /\ KeepRecords
  /\ UNCHANGED <<cloud, tick, loop>>

\* ensure_project: the project is found by name or created; a new one carries
\* no tag yet.
EnsureProject(c) ==
  /\ At(c, "project")
  /\ ids < MaxIds
  /\ LET n == N(c)
         row == FoundOrCreated(n, task[c].spec.enabled)
     IN /\ project' = [project EXCEPT ![n] = row]
        /\ ids' = IF Exists(n) THEN ids ELSE ids + 1
        /\ task' = [task EXCEPT ![c].at = "mark", ![c].put.pid = row.id]
  /\ ThreadStep
  /\ UNCHANGED <<group, direct, parts, keys, rules, known, events>>

\* The handler ends with an error before ensure_project has returned: the status
\* does not learn the project's id.
FailEarly(c) == task' = [task EXCEPT ![c].at = "failed", ![c].put.pid = 0]

\* ensure_project: the operator's tag and the contract's.
MarkProject(c) ==
  /\ At(c, "mark")
  /\ LET n == N(c)
     IN IF project[n].id = Pid(c)
        THEN /\ project' = [project EXCEPT ![n] =
                              WithContractTag(Tagged(@), task[c].spec.contract)]
             /\ Go(c, "group")
        ELSE FailEarly(c) /\ UNCHANGED project
  /\ ThreadStep
  /\ UNCHANGED <<group, direct, parts, keys, rules, known, ids, events>>

\* ensure_project: the group of the project's users and its roles on the project.
EnsureGroup(c) ==
  /\ At(c, "group")
  /\ ids < MaxIds
  /\ LET n == N(c)
         found == FoundOrCreatedGroup(n, ids + 1)
     IN /\ group' = [group EXCEPT ![make_group_name(n)] = found]
        /\ ids' = IF group[make_group_name(n)].id = 0 THEN ids + 1 ELSE ids
        /\ IF project[n].id # Pid(c) THEN FailEarly(c)
           ELSE task' = [task EXCEPT ![c].at = "furnish", ![c].gid = found.id,
                                     ![c].put.gid = found.id]
  /\ ThreadStep
  /\ UNCHANGED <<project, direct, parts, keys, rules, known, events>>

\* The networks and security groups a spec asks for, and their ids.
Furnished(now, pid, w) ==
  EnsuredSecurityGroup(EnsuredNetwork(now, pid, w.network, ids + 1), pid, w.security_group, ids + 2)

\* Transit key (a failure is only logged), quotas, networks, security groups.
Furnish(c) ==
  /\ At(c, "furnish")
  /\ ids + 2 <= MaxIds
  /\ LET w == task[c].spec
         now == Furnished(parts, Pid(c), w)
         Ids(kind, wanted) == IF wanted THEN StatusId(now, Pid(c), kind, TRUE)
                              ELSE task[c].put.parts[kind]
     IN /\ parts' = now
        /\ ids' = IF now = parts THEN ids ELSE ids + 2
        /\ task' = [task EXCEPT ![c].at = "bind", ![c].put.parts =
             [network |-> Ids("network", w.network # None),
              security_group |-> Ids("security_group", w.security_group # {})]]
  /\ \/ keys' = keys \cup {Pid(c)} /\ UNCHANGED events
     \/ keys' = keys /\ Fault
  /\ ThreadStep
  /\ UNCHANGED <<project, group, direct, rules, known>>

\* apply_role_bindings on project pid with group gid: roles on a project that
\* is gone, or users of a group that is gone, raise an error. Without a group
\* the users are left alone.
Bindable(w, pid, gid) ==
  IF w.managed THEN HasProject(pid) \/ UsersOf(w.bindings) \cap known = {}
  ELSE gid = 0 \/ (HasProject(pid) /\ HasGroup(gid))

\* Project and group are those of the ids, under whatever name.
ApplyRoleBindings(w, pid, gid) ==
  IF w.managed
  THEN /\ direct' = [n \in Names |-> IF Exists(n) /\ project[n].id = pid
                                     THEN DirectAfter(direct[n], w.bindings) ELSE direct[n]]
       /\ UNCHANGED group
  ELSE /\ group' = [g \in GroupNames |->
             IF gid # 0 /\ group[g].id = gid
             THEN [group[g] EXCEPT !.members = MembersAfter(@, w.bindings)] ELSE group[g]]
       /\ UNCHANGED direct

\* The repair of a contract tag alone leaves bindings and rules as they are.
ContractTagOnly(c) ==
  /\ task[c].kind = "update"
  /\ task[c].spec = [task[c].old EXCEPT !.repair = task[c].spec.repair]

Bind(c) ==
  /\ At(c, "bind")
  /\ LET w == task[c].spec
     IN IF w.bindings = <<>> \/ ContractTagOnly(c)
        THEN Go(c, "map") /\ UNCHANGED <<group, direct>>
        ELSE IF Bindable(w, Pid(c), task[c].gid)
        THEN Go(c, "map") /\ ApplyRoleBindings(w, Pid(c), task[c].gid)
        ELSE Go(c, "failed") /\ UNCHANGED <<group, direct>>
  /\ ThreadStep
  /\ UNCHANGED <<project, parts, keys, rules, known, ids, events>>

\* Create leaves the rules alone when there are no users, update removes its own.
Maps(c) ==
  LET w == task[c].spec
  IN w.fed /\ ~w.managed /\ ~ContractTagOnly(c) /\ (UsersOf(w.bindings) # {} \/ task[c].kind = "update")

\* The rules of the mapping are read.
ReadRules(c) ==
  /\ At(c, "map")
  /\ task' = IF Maps(c) THEN [task EXCEPT ![c].at = "write", ![c].view = rules]
             ELSE [task EXCEPT ![c].at = "ready"]
  /\ ThreadStep
  /\ UNCHANGED <<cloud, events>>

\* A removal that would change nothing, or empty the mapping, is not written.
RuleRemoved(view, n) == IF WithoutRule(view, n) = view THEN rules ELSE WithoutRule(view, n)

\* The mapping is written: the rules read, with the project's own changed.
WriteRules(c) ==
  /\ At(c, "write")
  /\ LET users == UsersOf(task[c].spec.bindings)
     IN rules' = IF users # {} THEN WithRule(task[c].view, N(c), users)
                 ELSE RuleRemoved(task[c].view, N(c))
  /\ task' = [task EXCEPT ![c].at = "ready", ![c].view = NoView]
  /\ ThreadStep
  /\ UNCHANGED <<project, group, direct, parts, keys, known, ids, events>>
-----------------------------------------------------------------------------
(* Update of a record with a project.                                      *)

\* update_project is called, whatever the spec's name was before: nobody asks whose project
\* the new one is, and the status keeps its ids; the description and enabled of an edited spec are
\* compared with paths that never occur, so they are not applied here.
StartUpdate(c) ==
  /\ Live(c)
  /\ cr[c].handled \notin {NoWish, cr[c].spec}
  /\ cr[c].pid # 0
  /\ Begin(c, "update", "tag", ResolvedGroup(cr[c].spec.name, cr[c].gid),
           [StatusOf(c) EXCEPT !.gid =
              IF ResolvedGroup(cr[c].spec.name, @) = 0 THEN @ ELSE ResolvedGroup(cr[c].spec.name, @)])

\* set_project_contract_tag on every update, by the project's id; it fails without the project.
Retag(c) ==
  /\ At(c, "tag")
  /\ IF HasProject(Pid(c))
     THEN /\ project' = [n \in Names |->
               IF project[n].id = Pid(c) THEN WithContractTag(project[n], task[c].spec.contract)
               ELSE project[n]]
          /\ Go(c, "refurnish")
     ELSE Go(c, "failed") /\ UNCHANGED project
  /\ ThreadStep
  /\ UNCHANGED <<group, direct, parts, keys, rules, known, ids, events>>

Changed(c, field) == task[c].old[field] # task[c].spec[field]

\* Changed networks and security groups: those of the status are deleted, then
\* those of the spec ensured. One whose deletion failed is found and kept.
Refurnish(c) ==
  /\ At(c, "refurnish")
  /\ ids + 2 <= MaxIds
  /\ LET w == task[c].spec
         Old(kind) == IF Changed(c, kind) THEN {task[c].put.parts[kind]} \ {0} ELSE {}
         Kept(kind, wanted, now) == IF Changed(c, kind) THEN StatusId(now, Pid(c), kind, wanted)
                                    ELSE task[c].put.parts[kind]
         Ensured(cleared) ==
           Furnished(cleared, Pid(c),
             [w EXCEPT !.network = IF Changed(c, "network") THEN @ ELSE None,
                       !.security_group = IF Changed(c, "security_group") THEN @ ELSE {}])
     IN \E kept \in SUBSET (Old("network") \cup Old("security_group")) :
          LET now == Ensured(Without(parts, Old("network") \cup Old("security_group"), kept))
          IN /\ IF kept = {} THEN UNCHANGED events ELSE Fault
             /\ parts' = now
             /\ ids' = IF now \subseteq parts THEN ids ELSE ids + 2
             /\ task' = [task EXCEPT ![c].at = "bind", ![c].put.parts =
                  [network |-> Kept("network", w.network # None, now),
                   security_group |-> Kept("security_group", w.security_group # {}, now)]]
  /\ ThreadStep
  /\ UNCHANGED <<project, group, direct, keys, rules, known>>
-----------------------------------------------------------------------------
(* The end of create and update.                                           *)

\* Any call may fail for good: the handler ends with an error and is retried.
Fail(c) ==
  /\ Fault
  /\ task[c].at \in {"project", "mark", "group", "tag", "furnish", "refurnish", "bind", "map", "write"}
  /\ IF task[c].at \in {"mark", "group"} THEN FailEarly(c) ELSE Go(c, "failed")
  /\ ThreadStep
  /\ UNCHANGED cloud

\* The status is patched; an id that the patch lacks stays.
Patched(c, phase) ==
  [cr[c] EXCEPT !.phase = phase, !.parts = task[c].put.parts,
                !.pid = IF Pid(c) = 0 THEN @ ELSE Pid(c),
                !.gid = IF task[c].put.gid = 0 THEN @ ELSE task[c].put.gid]

\* Success: Ready, and kopf remembers the spec that was handled.
PatchReady(c) ==
  /\ LoopFree
  /\ At(c, "ready")
  /\ cr' = [cr EXCEPT ![c] = [Patched(c, "Ready") EXCEPT !.handled = task[c].spec]]
  /\ task' = [task EXCEPT ![c] = NoTask]
  /\ UNCHANGED <<cloud, born, second, plan, events, tick, loop, waived>>

\* A slip in PatchError: an error ends the handling of a spec.
PatchErrorForGood(c) ==
  /\ LoopFree
  /\ At(c, "failed")
  /\ cr' = [cr EXCEPT ![c] = [Patched(c, "Error") EXCEPT !.handled = task[c].spec]]
  /\ task' = [task EXCEPT ![c] = NoTask]
  /\ UNCHANGED <<cloud, born, second, plan, events, tick, loop, waived>>

\* Failure: kopf calls the handler again after a delay.
PatchError(c) ==
  /\ LoopFree
  /\ At(c, "failed")
  /\ cr' = [cr EXCEPT ![c] = Patched(c, "Error")]
  /\ task' = [task EXCEPT ![c] = NoTask]
  /\ UNCHANGED <<cloud, born, second, plan, events, tick, loop, waived>>
=============================================================================
