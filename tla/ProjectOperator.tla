--------------------------- MODULE ProjectOperator ---------------------------
(***************************************************************************)
(* The project half of the OpenStack operator as a whole: the handlers of  *)
(* every record, the garbage collector, the listener of new users, and     *)
(* crashes of the operator, of which there is never more than one          *)
(* (one replica, strategy Recreate).                                       *)
(*                                                                         *)
(* The garbage collector is a daemon of every record of which only the     *)
(* first one's works; it and the listener make blocking calls from the     *)
(* event loop, so each holds the loop from its listing to its end.         *)
(***************************************************************************)
EXTENDS ProjectRemoval

VARIABLE
  news    \* users whose creation Keystone has announced

vars == <<cloud, records, handlers, news>>

\* What holds the loop: nothing, a collection or the synchronisation of a user.
Loop == [at : {"idle", "list", "collect", "sync"},
         expected : SUBSET Names,                    \* names of the records listed
         doomed : SUBSET [name : Names, id : 1..MaxIds],
         todo : SUBSET Records,                      \* records still to synchronise
         seen : [Records -> Record]]                 \* the records as they were listed
Unseen == [c \in Records |-> Absent]
FreeLoop == [at |-> "idle", expected |-> {}, doomed |-> {}, todo |-> {}, seen |-> Unseen]

TypeOK ==
  /\ CloudTypeOK
  /\ RecordsTypeOK
  /\ task \in [Records -> Task]
  /\ tick \in [Records -> Tick]
  /\ loop \in Loop
  /\ waived \subseteq Records
  /\ news \subseteq Users

Init ==
  /\ InitRecords
  /\ InitCloud(Users \ plan.logins)
  /\ task = [c \in Records |-> NoTask]
  /\ tick = [c \in Records |-> NoTick]
  /\ loop = FreeLoop
  /\ waived = {}
  /\ news = {}

LoopStep == KeepRecords /\ UNCHANGED <<task, tick, waived>>
-----------------------------------------------------------------------------
(* garbage_collector                                                       *)

\* A slip in Leads: the first of all records leads for good, whether it is there or not.
LeadsForGood(c) == Present(c) /\ \A d \in Records : c <= d

\* The leader is the first record by namespace and name.
Leads(c) == Present(c) /\ \A d \in Records : Present(d) => c <= d

\* A slip in Expected: records that are not Ready do not count yet.
ExpectedReady == {cr[c].spec.name : c \in {d \in Records : Present(d) /\ cr[d].phase = "Ready"}}

\* get_expected_projects_from_crs
Expected == {cr[c].spec.name : c \in {d \in Records : Present(d)}}

\* The daemon of the first record lists the records. The daemon of a record
\* that is being deleted has stopped, and nobody collects until it is gone.
StartCollection ==
  /\ LoopFree
  /\ \E c \in Records : Leads(c) /\ Live(c)
  /\ loop' = [loop EXCEPT !.at = "list", !.expected = Expected]
  /\ UNCHANGED <<cloud, records, task, tick, waived, news>>

\* The tagged projects are listed; those that no record names are orphans.
FindOrphans ==
  /\ loop.at = "list"
  /\ loop' = [loop EXCEPT !.at = "collect",
                !.doomed = {[name |-> n, id |-> project[n].id] : n \in TaggedNames \ loop.expected}]
  /\ LoopStep
  /\ UNCHANGED <<cloud, events, news>>

\* An orphan's group, found by name although another project may share it, and the
\* orphan are deleted. Errors are logged.
\* Its rule stays: get_federation_config_from_crs looks for IDP_NAME, and the
\* ConfigMaps that get_federation_config reads have idp-name.
CollectOrphan ==
  /\ loop.at = "collect"
  /\ \E o \in loop.doomed, missed \in SUBSET {"group", "project"} :
       /\ IF missed = {} THEN UNCHANGED events ELSE Fault
       /\ group' = IF "group" \in missed THEN group
                   ELSE [group EXCEPT ![make_group_name(o.name)] = NoGroup]
       /\ IF "project" \in missed THEN UNCHANGED <<project, direct>>
          ELSE project' = DeletedProject(o.id) /\ direct' = DirectWithout(o.id)
       /\ loop' = [loop EXCEPT !.doomed = @ \ {o}]
  /\ LoopStep
  /\ UNCHANGED <<parts, keys, rules, known, ids, news>>

\* The collection is done, or an error has ended it; the daemon waits.
EndCollection ==
  /\ loop.at \in {"list", "collect"}
  /\ IF loop.at = "collect" /\ loop.doomed = {} THEN UNCHANGED events ELSE Fault
  /\ loop' = FreeLoop
  /\ LoopStep
  /\ UNCHANGED <<cloud, news>>
-----------------------------------------------------------------------------
(* on_user_created                                                         *)

\* A user logs in for the first time. The notification may get lost.
UserAppears(u) ==
  /\ u \notin known
  /\ known' = known \cup {u}
  /\ news' \in {news, news \cup {u}}
  /\ UNCHANGED <<project, group, direct, parts, keys, rules, ids, records, handlers>>

\* The records that are Ready and bind the user are listed with their status.
StartSync(u) ==
  /\ LoopFree
  /\ u \in news
  /\ news' = news \ {u}
  /\ LET todo == {c \in Records : Present(c) /\ cr[c].phase = "Ready" /\ cr[c].gid # 0
                                  /\ u \in UsersOf(cr[c].spec.bindings)}
     IN loop' = IF todo = {} THEN FreeLoop
                ELSE [loop EXCEPT !.at = "sync", !.todo = todo,
                        !.seen = [c \in Records |-> IF c \in todo THEN cr[c] ELSE Absent]]
  /\ UNCHANGED <<cloud, records, task, tick, waived>>

\* The bindings of one of them are applied as they were listed; errors are logged.
SyncRecord ==
  /\ loop.at = "sync"
  /\ \E c \in loop.todo :
       /\ LET seen == loop.seen[c]
          IN IF Bindable(seen.spec, seen.pid, seen.gid)
             THEN ApplyRoleBindings(seen.spec, seen.pid, seen.gid)
             ELSE UNCHANGED <<group, direct>>
       /\ loop' = IF loop.todo = {c} THEN FreeLoop
                  ELSE [loop EXCEPT !.todo = @ \ {c}, !.seen[c] = Absent]
  /\ LoopStep
  /\ UNCHANGED <<project, parts, keys, rules, known, ids, events, news>>
-----------------------------------------------------------------------------
\* The operator crashes or is rolled out anew: nothing that runs is finished.
Crash ==
  /\ Fault
  /\ task' = [c \in Records |-> NoTask]
  /\ tick' = [c \in Records |-> NoTick]
  /\ loop' = FreeLoop
  /\ UNCHANGED <<cloud, cr, born, second, plan, waived, news>>

UserAction(c) == CreateRecord(c) \/ EditRecord(c) \/ DeleteRecord(c)

ChangeHandler(c) ==
  \/ StartCreate(c) \/ Claim(c) \/ EnsureProject(c) \/ MarkProject(c) \/ EnsureGroup(c)
  \/ Furnish(c)
  \/ StartUpdate(c) \/ Retag(c) \/ Refurnish(c)
  \/ Bind(c) \/ ReadRules(c) \/ WriteRules(c) \/ PatchReady(c) \/ PatchError(c)

DeleteHandler(c) ==
  \/ StartDelete(c) \/ ListForDelete(c) \/ ReadForDelete(c) \/ WriteForDelete(c)
  \/ Destroy(c) \/ ReleaseRecord(c)

Timer(c) ==
  \/ StartTick(c) \/ Check(c) \/ TickBind(c) \/ TickReadRules(c) \/ TickWriteRules(c)
  \/ PatchTick(c)

Collector == StartCollection \/ FindOrphans \/ CollectOrphan \/ EndCollection
Listener == SyncRecord \/ \E u \in Users : StartSync(u)

Next ==
  \/ \E c \in Records : \/ UserAction(c) /\ UNCHANGED <<handlers, news>>
                        \/ ChangeHandler(c) /\ UNCHANGED news
                        \/ DeleteHandler(c) /\ UNCHANGED news
                        \/ Timer(c) /\ UNCHANGED news
                        \/ (Fail(c) \/ FailDelete(c) \/ FailTick(c)) /\ UNCHANGED news
  \/ Collector \/ Listener
  \/ \E n \in Names : LoseProject(n) /\ UNCHANGED <<handlers, news>>
  \/ \E u \in Users : UserAppears(u)
  \/ Crash

\* Threads go on, kopf starts what is due and writes patches whenever the event
\* loop is free again (asyncio runs what is ready in turn, hence SF), the daemons
\* come round; users, new logins and faults are not owed to anybody.
Fairness ==
  /\ \A c \in Records : /\ SF_vars((ChangeHandler(c) \/ DeleteHandler(c)) /\ UNCHANGED news)
                        /\ SF_vars(Timer(c) /\ UNCHANGED news)
  /\ SF_vars(Collector \/ Listener)

Spec == Init /\ [][Next]_vars
FairSpec == Spec /\ Fairness
-----------------------------------------------------------------------------
(* Correctness. The claims of a record, the collector and a deletion go by   *)
(* the name in its spec, its handlers by the id in its status. The code does *)
(* not keep the two together when spec.name is edited: the old name is free  *)
(* for another record to adopt the same project, the collector takes the     *)
(* project for an orphan, and a deletion looks for duplicates of the new     *)
(* name. Hence the three safety properties speak of records that have kept   *)
(* their name, next to others that have not.                                *)

KeptName(c) == ~cr[c].renamed

\* Two records that are Ready with the same project carry the same creation
\* stamp, or one of them went ahead although the others could not be listed, or
\* was renamed: find_project_owner_cr lets nobody else adopt a claimed project,
\* however the listing of one handler and the late patch of another interleave.
OneOwner ==
  \A c, d \in Records :
    /\ c # d
    /\ \A r \in {c, d} : Live(r) /\ cr[r].phase = "Ready" /\ cr[r].pid # 0 /\ KeptName(r)
    /\ cr[c].pid = cr[d].pid
    => cr[c].stamp = cr[d].stamp \/ waived \cap {c, d} # {}

\* The garbage collector deletes no project that the status of a record, or a
\* handler that runs for it, relies on, unless that record was renamed: nothing
\* starts or patches between its listing of the records and its last deletion.
CollectorSparesUsed ==
  [][CollectOrphan =>
       \A n \in Names : project'[n] # project[n] =>
         \A c \in Records : KeptName(c) =>
           /\ Present(c) => cr[c].pid # project[n].id
           /\ task[c].at # "idle" => task[c].put.pid # project[n].id]_vars

\* The deletion of a record destroys no project but that of its name, and that one
\* only if every other record of the name was created after the handler listed them
\* (delete_project_handler), unless either was renamed.
DeletionSparesListed ==
  [][\A c \in Records :
       At(c, "destroy") /\ task'[c].at = "release" /\ KeptName(c) =>
         \A n \in Names : project'[n] # project[n] =>
           /\ n = N(c)
           /\ \A d \in Duplicates(c, n) : KeptName(d) => cr[d].born > task[c].listed]_vars

\* A spec that kopf has not handled is handled, a new name included, or edited once more,
\* unless another record has the claim, or the project of the status is gone: update fails
\* for ever then.
SpecsAreHandled ==
  \A c \in Records : \A w \in UNION {some.wishes[c] : some \in Plans} :
    Live(c) /\ cr[c].spec = w /\ cr[c].handled # w ~>
      \/ ~Live(c) \/ cr[c].spec # w
      \/ cr[c].handled = w /\ cr[c].phase = "Ready"
      \/ Owners(c, cr[c].spec.name) # {}
      \/ cr[c].pid # 0 /\ ~HasProject(cr[c].pid)

\* A record that is being deleted goes away: its deletion is retried when the
\* records cannot be listed, and does not wait for OpenStack to succeed.
DeletionsEnd == \A c \in Records : cr[c].at = "deleting" ~> cr[c].at = "absent"

\* A tagged project that no record names any more is collected, or named again,
\* as long as there is a record whose daemon can collect.
TaggedOrphan(n) == Exists(n) /\ project[n].tagged /\ Named(n) = {}
OrphansCollected ==
  \A n \in Names :
    TaggedOrphan(n) ~> ~TaggedOrphan(n) \/ \A c \in Records : ~Present(c)

GroupNameOf(c) == make_group_name(cr[c].spec.name)

\* A record at rest: Ready, handled as it is, alone with its project and its group: no other
\* record has a name that sanitizes to the same group, or the id of that group.
Steady(c) ==
  /\ Live(c)
  /\ cr[c].phase = "Ready"
  /\ cr[c].handled = cr[c].spec
  /\ project[cr[c].spec.name].id = cr[c].pid
  /\ cr[c].gid # 0
  /\ LET own == group[GroupNameOf(c)].id
     IN /\ own # 0
        /\ cr[c].gid = own \/ ~HasGroup(cr[c].gid)
        /\ \A d \in Records \ {c} : Present(d) => GroupNameOf(d) # GroupNameOf(c) /\ cr[d].gid # own

\* Once a record with one binding rests, its group comes to hold exactly the
\* users of the binding that Keystone knows, whatever older bindings a timer or
\* the listener still applied and whether or not a notification was lost. Records
\* that share a group replace each other's users with every timer, and never rest.
MembersConverge ==
  \A c \in Records :
    LET w == cr[c].spec
    IN <>[](Steady(c) /\ Len(w.bindings) = 1 /\ ~w.managed)
         => <>[](Steady(c) => group[GroupNameOf(c)].members = w.bindings[1] \cap known)

\* Once a record rests, the rule of its project is right again and again although
\* every other handler writes the whole mapping from an older reading; the rule
\* of a managed project is gone unless it is the last one. Bindings without users
\* say nothing of the rule: the timer leaves an older one of that name alone.
RulesRepaired ==
  \A c \in Records :
    LET w == cr[c].spec
        alone == \A g \in GroupNames \ {GroupNameOf(c)} : rules[g] = {}
    IN /\ <>[](Steady(c) /\ w.fed /\ ~w.managed /\ UsersOf(w.bindings) # {})
            => []<>(Steady(c) => rules[GroupNameOf(c)] = UsersOf(w.bindings))
       /\ <>[](Steady(c) /\ w.fed /\ w.managed /\ w.bindings # <<>>)
            => []<>(Steady(c) => rules[GroupNameOf(c)] = {} \/ alone)

\* What drifts is repaired: the users of a group and the rules of the mapping.
DriftRepaired == MembersConverge /\ RulesRepaired
=============================================================================
