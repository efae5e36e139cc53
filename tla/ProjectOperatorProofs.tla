------------------------ MODULE ProjectOperatorProofs ------------------------
(***************************************************************************)
(* Theorems about the project half of the OpenStack operator, for any      *)
(* number of records, names, users, threads, events and ids.               *)
(***************************************************************************)
EXTENDS ProjectOperator, TLAPS

\* TypeOK but for the members of groups, which a fold computes.
Grouped(g) == g.id \in 0..MaxIds /\ g = [id |-> g.id, members |-> g.members]
Project == [id : 0..MaxIds, tagged : BOOLEAN, contract : Contracts \cup {None}, enabled : BOOLEAN]
PartsOf == [Kinds -> 0..MaxIds]
Parts == [id : 1..MaxIds, kind : Kinds, pid : 1..MaxIds, content : SUBSET Contents]

ProjectsOK == project \in [Names -> Project]
GroupsOK == DOMAIN group = GroupNames /\ \A g \in GroupNames : Grouped(group[g])
PartsOK == parts \subseteq Parts
RestOK == /\ direct \in [Names -> SUBSET Users]
          /\ keys \subseteq 1..MaxIds
          /\ rules \in [GroupNames -> SUBSET Users]
          /\ known \subseteq Users
IdsOK == ids \in 0..MaxIds
CrOK == cr \in [Records -> Record]
TaskOK == task \in [Records -> Task]
TickOK == tick \in [Records -> Tick]
LoopOK == loop \in Loop /\ waived \subseteq Records /\ news \subseteq Users
CountsOK == /\ born \in 0..MaxEvents /\ second \in 0..MaxEvents
            /\ events \in 0..MaxEvents /\ plan \in Plans

Typed ==
  /\ ProjectsOK /\ GroupsOK /\ PartsOK /\ RestOK /\ IdsOK
  /\ CrOK /\ CountsOK /\ TaskOK /\ TickOK /\ LoopOK

\* No record that lives and has kept its name has an older claim by its stamp.
NoElder(c) ==
  \A d \in Records \ {c} :
    Live(d) /\ ~cr[d].renamed /\ cr[d].spec.name = cr[c].spec.name => cr[c].stamp <= cr[d].stamp

Runs(s, kind) == s.at # "idle" /\ s.kind = kind
Ticks(s) == s.at # "idle"

\* Which handlers have which steps.
KindsOf(at) ==
  CASE at \in {"claim", "project", "mark", "group", "furnish", "idle"} -> {"create"}
    [] at \in {"tag", "refurnish"} -> {"update"}
    [] at \in {"list", "unmap", "unwrite", "destroy", "release"} -> {"delete"}
    [] OTHER -> {"create", "update"}

\* A record r, its handler s and its timer t: a create handler never runs together with a
\* timer, nor on a record that is Ready; what runs was begun for the name of the record, unless
\* that was changed.
Fits(r, s, t) ==
  /\ r.at = "absent" => r = Absent
  /\ r.at # "absent" => r.spec \in Wish
  /\ s.kind \in KindsOf(s.at)
  /\ s.at # "idle" \/ Ticks(t) \/ r.pid # 0 \/ r.handled # NoWish \/ r.at = "deleting" => r.held
  /\ s.at # "idle" => s.spec \in Wish /\ (r.renamed \/ s.spec.name = r.spec.name)
  /\ s.at = "idle" => s = NoTask
  /\ t.at = "idle" => t = NoTick
  /\ Ticks(t) => /\ t.spec \in Wish /\ (r.renamed \/ t.spec.name = r.spec.name)
                 /\ r.pid # 0 /\ r.handled # NoWish /\ ~Runs(s, "create")
                 /\ t.at = "moved" => t.pid # 0
  /\ r.phase = "Ready" => r.pid # 0 /\ r.handled # NoWish
  /\ Runs(s, "create") =>
       /\ r.phase # "Ready"
       /\ r.handled = NoWish \/ r.pid = 0
       /\ s.at \in {"claim", "project"} => s.put.pid = 0
       /\ s.at \notin {"claim", "project", "failed"} => s.put.pid # 0
  /\ Runs(s, "update") => r.handled # NoWish /\ s.put.pid # 0 /\ s.old \in Wish
  /\ Runs(s, "delete") /\ s.at # "release" => s.put.pid # 0

LifeInv == \A c \in Records : Fits(cr[c], task[c], tick[c])

\* Whoever has or may get the status of a project has found no older claim, or has not
\* been able to look, or has another name now.
Claims(r, s, t) ==
  \/ r.handled # NoWish /\ r.pid # 0
  \/ Runs(s, "create") /\ s.at # "claim" /\ (s.at = "failed" => s.put.pid # 0)
  \/ Runs(s, "update")
  \/ Ticks(t)

AgeInv ==
  /\ born <= events /\ second <= events
  /\ \A c \in Records : cr[c].born <= born /\ cr[c].stamp <= second

ClaimInv ==
  \A c \in Records : Claims(cr[c], task[c], tick[c]) => cr[c].renamed \/ c \in waived \/ NoElder(c)

\* Where a record that has kept its name, its handler or its timer has the id i for the name n.
RowUses(r, s, t, n, i) ==
  /\ ~r.renamed
  /\ \/ n = r.spec.name /\ i = r.pid
     \/ n = s.spec.name /\ i = s.put.pid
     \/ n = t.spec.name /\ i = t.pid

\* Where the id i stands for the project of the name n.
Uses(n, i) ==
  \/ n \in Names /\ project[n].id = i
  \/ \E o \in loop.doomed : n = o.name /\ i = o.id
  \/ \E c \in Records : RowUses(cr[c], task[c], tick[c], n, i)

\* An id is of one name, for ever, where names are kept.
ApartInv == \A n, i : Uses(n, i) /\ i # 0 => i <= ids /\ \A m : Uses(m, i) => n = m

\* While a deletion is under way, records of the same name are younger than its listing, or
\* had another name then.
DeleteInv ==
  \A c \in Records : task[c].at \in {"unmap", "unwrite", "destroy"} =>
    /\ task[c].listed <= born
    /\ \A d \in Duplicates(c, N(c)) : cr[d].renamed \/ cr[d].born > task[c].listed

\* While orphans are collected, records that were not listed have nothing yet.
CollectInv ==
  loop.at \in {"list", "collect"} =>
    /\ \A c \in Records : Present(c) /\ ~cr[c].renamed /\ cr[c].spec.name \notin loop.expected =>
         cr[c].pid = 0 /\ task[c].at = "idle"
    /\ \A o \in loop.doomed : o.name \notin loop.expected /\ o.id # 0
\* Only a collection has found orphans.
LoopInv == loop.at # "collect" => loop.doomed = {}

Inv == Typed /\ LifeInv /\ AgeInv /\ ClaimInv /\ ApartInv /\ DeleteInv /\ CollectInv /\ LoopInv

------------------------------------------------------------------------------
\* What the operators on networks and security groups return.
LEMMA PartsAre == \A a, b \in 0..MaxIds : [network |-> a, security_group |-> b] \in PartsOf
BY DEF PartsOf, Kinds

LEMMA NetworkEnsured ==
  ASSUME NEW now, now \subseteq Parts, NEW pid \in 1..MaxIds, NEW cidr \in Contents \cup {None}, NEW id \in 1..MaxIds
  PROVE  EnsuredNetwork(now, pid, cidr, id) \subseteq Parts
<1> Part(id, "network", pid, {cidr}) \in Parts \/ cidr = None BY DEF Part, Parts, Kinds
<1> QED BY DEF EnsuredNetwork

LEMMA SecurityGroupEnsured ==
  ASSUME NEW now, now \subseteq Parts, NEW pid \in 1..MaxIds, NEW wanted \in SUBSET Contents, NEW id \in 1..MaxIds
  PROVE  EnsuredSecurityGroup(now, pid, wanted, id) \subseteq Parts
<1> DEFINE found == Found(now, pid, "security_group")
<1>1. Part(id, "security_group", pid, wanted) \in Parts BY DEF Part, Parts, Kinds
<1>2. ASSUME NEW p \in found PROVE [p EXCEPT !.content = @ \cup wanted] \in Parts BY DEF Found, Parts
<1>3. {[p EXCEPT !.content = @ \cup wanted] : p \in found} \subseteq Parts BY <1>2
<1> HIDE DEF found
<1>4. (now \ found) \cup {[p EXCEPT !.content = @ \cup wanted] : p \in found} \subseteq Parts BY <1>3
<1> QED BY <1>1, <1>4 DEF EnsuredSecurityGroup, found

LEMMA FurnishedAre ==
  ASSUME NEW now, now \subseteq Parts, NEW pid \in 1..MaxIds, NEW w, w.network \in Contents \cup {None},
         w.security_group \in SUBSET Contents, IdsOK, CloudAssumption, ids + 2 <= MaxIds
  PROVE  Furnished(now, pid, w) \subseteq Parts
<1>1. ids + 1 \in 1..MaxIds /\ ids + 2 \in 1..MaxIds BY DEF IdsOK, CloudAssumption
<1>2. EnsuredNetwork(now, pid, w.network, ids + 1) \subseteq Parts BY <1>1, NetworkEnsured
<1> QED BY <1>1, <1>2, SecurityGroupEnsured DEF Furnished

LEMMA WithoutAre ==
  ASSUME NEW now, now \subseteq Parts, NEW doomed, NEW kept
  PROVE  Without(now, doomed, kept) \subseteq Parts
BY DEF Without

LEMMA StatusIdIs ==
  ASSUME NEW now, now \subseteq Parts, NEW pid, NEW kind, NEW wanted
  PROVE  StatusId(now, pid, kind, wanted) \in 0..MaxIds
<1> DEFINE found == {p.id : p \in Found(now, pid, kind)}
<1>1. MaxIds \in Nat BY CloudAssumption
<1>2. found \subseteq 1..MaxIds BY DEF Found, Parts
<1>3. CASE Found(now, pid, kind) # {} /\ wanted
  <2>1. (CHOOSE i \in found : TRUE) \in found BY <1>3
  <2> HIDE DEF found
  <2>2. (CHOOSE i \in found : TRUE) \in 1..MaxIds BY <1>2, <2>1
  <2> QED BY <1>1, <1>3, <2>2 DEF StatusId, found
<1>4. CASE ~(Found(now, pid, kind) # {} /\ wanted) BY <1>1, <1>4 DEF StatusId
<1> QED BY <1>3, <1>4

\* What a step of the handler s may leave of it. A new project comes from EnsureProject
\* alone, and only ListForDelete begins to delete.
Deleting == {"unmap", "unwrite", "destroy"}
GoesOn(s, t) ==
  /\ t.kind = s.kind /\ t.spec = s.spec /\ t.old = s.old
  /\ s.at \notin {"idle", "claim", "failed", "release"} /\ t.at \notin {"idle", "claim", "project"}
  /\ t.kind \in KindsOf(t.at)
  /\ \/ t.put.pid = s.put.pid /\ s.at # "project"
     \/ s.kind = "create" /\ t.at = "failed" /\ t.put.pid \in {0, s.put.pid}
     \/ s.at = "project" /\ t.at = "mark" /\ t.put.pid # 0
Onward(s, t) ==
  /\ GoesOn(s, t)
  /\ t.at \in Deleting => s.at \in Deleting /\ t.listed = s.listed

\* The task of c alone goes on.
Only(c) ==
  /\ task'[c] \in Task
  /\ task' = [task EXCEPT ![c] = task'[c]]
Still == UNCHANGED <<cr, born, second, plan, tick, loop, waived>>
Spent == events' \in {events, events + 1} /\ (events' = events \/ events < plan.events)

LEMMA SpentIs ==
  ASSUME CountsOK, Spent, plan' = plan
  PROVE  events' \in 0..MaxEvents
<1>1. plan.events \in 0..MaxEvents /\ MaxEvents \in Nat BY RecordsAssumption DEF CountsOK
<1> QED BY <1>1 DEF CountsOK, Spent

\* Handlers that are changed in place.
Put == [pid : 0..MaxIds, gid : 0..MaxIds, parts : PartsOf]
Same(s, t) == t.kind = s.kind /\ t.spec = s.spec /\ t.old = s.old

LEMMA Edited ==
  ASSUME TaskOK, NEW c \in Records, NEW s \in Task, task' = [task EXCEPT ![c] = s]
  PROVE  Only(c) /\ task'[c] = s
BY DEF Only, TaskOK

LEMMA TaskFields ==
  ASSUME TaskOK, NEW c \in Records
  PROVE  /\ task[c] \in Task /\ DOMAIN task = Records
         /\ task[c].put \in Put
BY DEF TaskOK, Task, Put, PartsOf

LEMMA GoIs ==
  ASSUME TaskOK, NEW c \in Records, NEW a \in Steps, Go(c, a)
  PROVE  /\ Only(c) /\ Same(task[c], task'[c])
         /\ task'[c].at = a /\ task'[c].put = task[c].put /\ task'[c].listed = task[c].listed
<1> DEFINE s == [task[c] EXCEPT !.at = a]
<1>1. s \in Task /\ Same(task[c], s) /\ s.at = a /\ s.put = task[c].put /\ s.listed = task[c].listed
  BY TaskFields DEF Task, Same
<1>2. task' = [task EXCEPT ![c] = s] BY DEF Go
<1> HIDE DEF s
<1> QED BY <1>1, <1>2, Edited

LEMMA PidSet ==
  ASSUME TaskOK, NEW c \in Records, NEW a \in Steps, NEW i \in 0..MaxIds,
         task' = [task EXCEPT ![c].at = a, ![c].put.pid = i]
  PROVE  /\ Only(c) /\ Same(task[c], task'[c])
         /\ task'[c].at = a /\ task'[c].put.pid = i /\ task'[c].listed = task[c].listed
<1> DEFINE put == [task[c].put EXCEPT !.pid = i]
           s == [task[c] EXCEPT !.at = a, !.put = put]
<1>1. put \in Put /\ put.pid = i BY TaskFields DEF Put
<1> HIDE DEF put
<1>2. s \in Task /\ Same(task[c], s) /\ s.at = a /\ s.put = put /\ s.listed = task[c].listed
  BY <1>1, TaskFields DEF Task, Same, Put, PartsOf
<1>3. task' = [task EXCEPT ![c] = s] BY TaskFields DEF put, Task
<1> HIDE DEF s
<1> QED BY <1>1, <1>2, <1>3, Edited

LEMMA GroupSet ==
  ASSUME TaskOK, NEW c \in Records, NEW a \in Steps, NEW i \in 0..MaxIds,
         task' = [task EXCEPT ![c].at = a, ![c].gid = i, ![c].put.gid = i]
  PROVE  /\ Only(c) /\ Same(task[c], task'[c])
         /\ task'[c].at = a /\ task'[c].put.pid = Pid(c) /\ task'[c].listed = task[c].listed
<1> DEFINE put == [task[c].put EXCEPT !.gid = i]
           s == [task[c] EXCEPT !.at = a, !.gid = i, !.put = put]
<1>1. put \in Put /\ put.pid = Pid(c) BY TaskFields DEF Put, Pid
<1> HIDE DEF put
<1>2. s \in Task /\ Same(task[c], s) /\ s.at = a /\ s.put = put /\ s.listed = task[c].listed
  BY <1>1, TaskFields DEF Task, Same, Put, PartsOf
<1>3. task' = [task EXCEPT ![c] = s] BY TaskFields DEF put, Task
<1> HIDE DEF s
<1> QED BY <1>1, <1>2, <1>3, Edited

LEMMA PartsSet ==
  ASSUME TaskOK, NEW c \in Records, NEW a \in Steps, NEW p \in PartsOf,
         task' = [task EXCEPT ![c].at = a, ![c].put.parts = p]
  PROVE  /\ Only(c) /\ Same(task[c], task'[c])
         /\ task'[c].at = a /\ task'[c].put.pid = Pid(c) /\ task'[c].listed = task[c].listed
<1> DEFINE put == [task[c].put EXCEPT !.parts = p]
           s == [task[c] EXCEPT !.at = a, !.put = put]
<1>1. put \in Put /\ put.pid = Pid(c) BY TaskFields DEF Put, Pid
<1> HIDE DEF put
<1>2. s \in Task /\ Same(task[c], s) /\ s.at = a /\ s.put = put /\ s.listed = task[c].listed
  BY <1>1, TaskFields DEF Task, Same, Put, PartsOf
<1>3. task' = [task EXCEPT ![c] = s] BY TaskFields DEF put, Task
<1> HIDE DEF s
<1> QED BY <1>1, <1>2, <1>3, Edited

LEMMA ViewSet ==
  ASSUME TaskOK, NEW c \in Records, NEW a \in Steps, NEW v \in [GroupNames -> SUBSET Users],
         task' = [task EXCEPT ![c].at = a, ![c].view = v]
  PROVE  /\ Only(c) /\ Same(task[c], task'[c])
         /\ task'[c].at = a /\ task'[c].put = task[c].put /\ task'[c].listed = task[c].listed
<1> DEFINE s == [task[c] EXCEPT !.at = a, !.view = v]
<1>1. s \in Task /\ Same(task[c], s) /\ s.at = a /\ s.put = task[c].put /\ s.listed = task[c].listed
  BY TaskFields DEF Task, Same
<1>2. task' = [task EXCEPT ![c] = s] BY TaskFields
<1> HIDE DEF s
<1> QED BY <1>1, <1>2, Edited

LEMMA ListedSet ==
  ASSUME TaskOK, NEW c \in Records, NEW a \in Steps, NEW i \in 0..MaxEvents,
         task' = [task EXCEPT ![c].at = a, ![c].listed = i]
  PROVE  /\ Only(c) /\ Same(task[c], task'[c])
         /\ task'[c].at = a /\ task'[c].put = task[c].put /\ task'[c].listed = i
<1> DEFINE s == [task[c] EXCEPT !.at = a, !.listed = i]
<1>1. s \in Task /\ Same(task[c], s) /\ s.at = a /\ s.put = task[c].put /\ s.listed = i
  BY TaskFields DEF Task, Same
<1>2. task' = [task EXCEPT ![c] = s] BY TaskFields
<1> HIDE DEF s
<1> QED BY <1>1, <1>2, Edited

LEMMA NoTaskIs == MaxIds \in Nat /\ MaxEvents \in Nat /\ NoTask \in Task
<1>1. MaxIds \in Nat /\ MaxEvents \in Nat BY CloudAssumption, RecordsAssumption
<1>2. NoParts \in PartsOf BY <1>1 DEF NoParts, PartsOf
<1>3. NoPut \in Put BY <1>1, <1>2 DEF NoPut, Put
<1>4. NoView \in [GroupNames -> SUBSET Users] BY DEF NoView
<1> QED BY <1>1, <1>3, <1>4 DEF NoTask, Task, Steps, Put, PartsOf

------------------------------------------------------------------------------
\* Each step of a thread of c: it goes on, and leaves OpenStack as it should be.
CloudOK == ProjectsOK /\ GroupsOK /\ PartsOK /\ RestOK /\ IdsOK
\* Projects keep their ids or are gone.
SameIds == ids' \in {ids, ids + 1, ids + 2} /\ \A n \in Names : project'[n].id \in {0, project[n].id}
Steady1(c) == Only(c) /\ Still /\ Spent /\ Onward(task[c], task'[c])

LEMMA TaskIs ==
  ASSUME Typed, NEW c \in Records, Fits(cr[c], task[c], tick[c]), task[c].at # "idle"
  PROVE  /\ task[c] \in Task /\ task[c].kind \in KindsOf(task[c].at)
         /\ task[c].spec \in Wish /\ N(c) \in Names
         /\ task[c].at \in {"mark", "group", "furnish", "tag", "refurnish"} => Pid(c) \in 1..MaxIds
<1>1. task[c] \in Task /\ task[c].spec \in Wish /\ task[c].kind \in KindsOf(task[c].at)
  BY DEF Typed, TaskOK, Fits
<1>2. N(c) \in Names BY <1>1 DEF N, Wish
<1>3. Pid(c) \in 0..MaxIds BY <1>1 DEF Pid, Task
<1>4. task[c].at \in {"mark", "group", "furnish", "tag", "refurnish"} => Pid(c) # 0
  BY <1>1 DEF KindsOf, Fits, Runs, Pid
<1> QED BY <1>1, <1>2, <1>3, <1>4, CloudAssumption

LEMMA EnsureProjectStep ==
  ASSUME Typed, NEW c \in Records, Fits(cr[c], task[c], tick[c]), EnsureProject(c)
  PROVE  /\ Steady1(c) /\ CloudOK'
         /\ \/ ids' = ids /\ project' = [project EXCEPT ![N(c)] = project'[N(c)]] /\ project'[N(c)].id = project[N(c)].id
            \/ ids' = ids + 1 /\ project' = [project EXCEPT ![N(c)] = project'[N(c)]] /\ project'[N(c)].id = ids + 1
         /\ project'[N(c)].id # 0 /\ task'[c].put.pid = project'[N(c)].id /\ task[c].at = "project"
<1> DEFINE n == N(c)
           row == FoundOrCreated(n, task[c].spec.enabled)
<1>1. task[c] \in Task /\ task[c].kind = "create" /\ task[c].spec \in Wish /\ n \in Names /\ task[c].at = "project"
  BY TaskIs DEF EnsureProject, At, KindsOf
<1>2. MaxIds \in Nat /\ ids \in 0..MaxIds /\ ids < MaxIds BY CloudAssumption DEF Typed, IdsOK, EnsureProject
<1>3. task[c].spec.enabled \in BOOLEAN BY <1>1 DEF Wish
<1>4. project[n] \in Project BY <1>1 DEF Typed, ProjectsOK
<1>5. row \in Project /\ row.id # 0 /\ (IF Exists(n) THEN row.id = project[n].id ELSE row.id = ids + 1)
  <2>1. CASE Exists(n) BY <1>3, <1>4, <2>1 DEF FoundOrCreated, Exists, Project
  <2>2. CASE ~Exists(n)
    <3>1. PICK no \in BOOLEAN : no = FALSE OBVIOUS
    <3>2. NoProject = [id |-> 0, tagged |-> no, contract |-> None, enabled |-> no] BY <3>1 DEF NoProject
    <3>3. row = [id |-> ids + 1, tagged |-> no, contract |-> None, enabled |-> task[c].spec.enabled]
      BY <2>2, <3>2 DEF FoundOrCreated
    <3> QED BY <1>2, <1>3, <2>2, <3>3 DEF Project
  <2> QED BY <2>1, <2>2
<1> HIDE DEF n, row
<1>6. /\ project' = [project EXCEPT ![n] = row]
      /\ ids' = IF Exists(n) THEN ids ELSE ids + 1
      /\ task' = [task EXCEPT ![c].at = "mark", ![c].put.pid = row.id]
      /\ ThreadStep
      /\ UNCHANGED <<group, direct, parts, keys, rules, known, events>>
  BY DEF EnsureProject, n, row
<1>7. project' \in [Names -> Project] /\ project'[n] = row BY <1>1, <1>5, <1>6 DEF Typed, ProjectsOK
<1>8. ids' \in 0..MaxIds BY <1>2, <1>6
<1>9. CloudOK' BY <1>6, <1>7, <1>8 DEF CloudOK, Typed, ProjectsOK, GroupsOK, PartsOK, RestOK, IdsOK
<1>10. Only(c) /\ Onward(task[c], task'[c]) /\ task'[c].put.pid = row.id
  <2>1. row.id \in 0..MaxIds /\ row.id # 0 BY <1>5 DEF Project
  <2>2. TaskOK /\ "mark" \in Steps BY DEF Typed, Steps
  <2>3. Only(c) /\ Same(task[c], task'[c]) /\ task'[c].at = "mark" /\ task'[c].put.pid = row.id
    BY <1>6, <2>1, <2>2, PidSet
  <2> QED BY <1>1, <2>1, <2>3 DEF Same, Onward, GoesOn, KindsOf, Deleting
<1>11. Still /\ Spent BY <1>6 DEF Still, ThreadStep, KeepRecords, Spent
<1> QED BY <1>1, <1>5, <1>6, <1>7, <1>9, <1>10, <1>11 DEF Steady1, n

------------------------------------------------------------------------------
(* What every step leaves of the invariant, from what it does to each record. *)

Row(c) == Fits(cr[c], task[c], tick[c])

\* A record keeps its age until it is gone, and its name or is marked as renamed, or is a new one.
Aged(c) ==
  \/ cr'[c].at = "absent"
  \/ /\ cr[c].at # "absent"
     /\ cr'[c].at = "live" => cr[c].at = "live"
     /\ cr'[c].stamp = cr[c].stamp /\ cr'[c].born = cr[c].born
     /\ ~cr'[c].renamed => ~cr[c].renamed /\ cr'[c].spec.name = cr[c].spec.name
  \/ /\ cr[c].at = "absent" /\ cr'[c].at = "live" /\ cr'[c].pid = 0 /\ ~cr'[c].held
     /\ cr'[c].born = born + 1 /\ born' = born + 1 /\ cr'[c].stamp = second'

Clock == born <= born' /\ second <= second' /\ born' <= events' /\ second' <= events'

\* Whoever has a claim had it, or has found nobody before it.
Claimed(c) ==
  Claims(cr'[c], task'[c], tick'[c]) =>
    \/ cr'[c].renamed
    \/ c \in waived'
    \/ Claims(cr[c], task[c], tick[c]) /\ c \notin waived
    \/ NoElder(c)

Listed(c) ==
  task'[c].at \in Deleting =>
    /\ cr[c].at # "absent" /\ N(c)' = N(c)
    /\ \/ task[c].at \in Deleting /\ task'[c].listed = task[c].listed
       \/ Duplicates(c, N(c)) = {} /\ task'[c].listed = born

\* The id that is given out now, for the project m.
Drawn(m, n, i) == n = m /\ i = ids + 1 /\ i <= ids'
Named2(m, c) ==
  \A n, i : RowUses(cr'[c], task'[c], tick'[c], n, i) => i = 0 \/ Uses(n, i) \/ Drawn(m, n, i)
ProjectsNamed(m) ==
  /\ ids <= ids'
  /\ \A n \in Names : project'[n].id \in {0, project[n].id} \/ Drawn(m, n, project'[n].id)

\* No new orphans but projects that are there.
DoomedUsed == \A o \in loop'.doomed : Uses(o.name, o.id)

\* A record that has nothing gets nothing while the projects are collected.
Rests(c) ==
  loop.at \in {"list", "collect"} /\ cr[c].pid = 0 /\ task[c].at = "idle" =>
    cr'[c].pid = 0 /\ task'[c].at = "idle"

Carries(m, c) == Row(c)' /\ Aged(c) /\ Claimed(c) /\ Listed(c) /\ Named2(m, c)

LEMMA AbsentIs ==
  /\ Absent \in Record /\ Absent.at = "absent" /\ Absent.born = 0 /\ Absent.stamp = 0
  /\ Absent.spec = NoWish /\ Absent.handled = NoWish /\ ~Absent.held
  /\ Absent.phase = "" /\ Absent.pid = 0 /\ ~Absent.renamed
<1>1. PICK no \in BOOLEAN : no = FALSE OBVIOUS
<1> DEFINE row == [at |-> "absent", born |-> 0, stamp |-> 0, renamed |-> no, spec |-> NoWish,
                   handled |-> NoWish, held |-> no, phase |-> "", pid |-> 0, gid |-> 0, parts |-> NoParts]
<1>2. Absent = row BY <1>1 DEF Absent
<1>3. NoParts \in PartsOf BY NoTaskIs DEF NoParts, PartsOf
<1>4. row \in Record BY <1>3, NoTaskIs DEF Record, PartsOf, Phases
<1>5. Absent.held = no /\ Absent.renamed = no BY <1>2
<1>6. /\ Absent.at = "absent" /\ Absent.born = 0 /\ Absent.stamp = 0
      /\ Absent.spec = NoWish /\ Absent.handled = NoWish /\ Absent.phase = "" /\ Absent.pid = 0
  BY <1>2
<1> HIDE DEF row
<1>7. Absent \in Record BY <1>2, <1>4
<1> QED BY <1>1, <1>5, <1>6, <1>7

LEMMA AgesKeep ==
  ASSUME Inv, Typed', Clock, \A c \in Records : Row(c)' /\ Aged(c)
  PROVE  /\ AgeInv'
         /\ \A c \in Records :
              cr[c].at # "absent" /\ cr'[c].at # "absent" /\ ~cr'[c].renamed /\ NoElder(c) => NoElder(c)'
<1>1. /\ born \in Nat /\ second \in Nat /\ events \in Nat /\ born' \in Nat /\ second' \in Nat /\ events' \in Nat
      /\ \A c \in Records : cr[c] \in Record /\ cr'[c] \in Record
  BY NoTaskIs DEF Inv, Typed, CountsOK, CrOK
<1>2. \A c \in Records : /\ cr[c].born \in Nat /\ cr[c].stamp \in Nat /\ cr'[c].born \in Nat /\ cr'[c].stamp \in Nat
                         /\ cr[c].born <= born /\ cr[c].stamp <= second
                         /\ cr'[c].at \in {"absent", "live", "deleting"}
  BY <1>1, NoTaskIs DEF Inv, AgeInv, Record
<1>3. ASSUME NEW c \in Records PROVE cr'[c].born <= born' /\ cr'[c].stamp <= second'
  <2>1. CASE cr'[c].at = "absent"
    <3>1. cr'[c] = Absent BY <2>1 DEF Row, Fits
    <3>2. cr'[c].born = 0 /\ cr'[c].stamp = 0 BY <3>1, AbsentIs
    <3> QED BY <1>1, <3>2
  <2>2. CASE cr'[c].at # "absent"
    BY <1>1, <1>2, <2>2 DEF Aged, Clock
  <2> QED BY <2>1, <2>2
<1>4. AgeInv' BY <1>3 DEF AgeInv, Clock
<1>5. ASSUME NEW c \in Records, cr[c].at # "absent", cr'[c].at # "absent", ~cr'[c].renamed, NoElder(c)
      PROVE  NoElder(c)'
  <2>1. cr'[c].stamp = cr[c].stamp /\ cr'[c].spec.name = cr[c].spec.name BY <1>5 DEF Aged
  <2>2. SUFFICES ASSUME NEW d \in Records \ {c}, cr'[d].at = "live", ~cr'[d].renamed,
                        cr'[d].spec.name = cr'[c].spec.name
                 PROVE  cr'[c].stamp <= cr'[d].stamp
    BY DEF NoElder, Live
  <2>3. CASE cr[d].at # "absent"
    BY <1>5, <2>1, <2>2, <2>3 DEF Aged, NoElder, Live
  <2>4. CASE cr[d].at = "absent"
    <3>1. cr'[d].stamp = second' BY <2>2, <2>4 DEF Aged
    <3> QED BY <1>1, <1>2, <2>1, <3>1 DEF Clock
  <2> QED BY <2>3, <2>4
<1> QED BY <1>4, <1>5

LEMMA ClaimsKeep ==
  ASSUME Inv, Typed', Clock, \A c \in Records : Row(c)' /\ Aged(c) /\ Claimed(c)
  PROVE  ClaimInv'
<1> SUFFICES ASSUME NEW c \in Records, Claims(cr'[c], task'[c], tick'[c]), ~cr'[c].renamed, c \notin waived'
             PROVE  NoElder(c)'
  BY DEF ClaimInv
<1>1. cr'[c] \in Record /\ Row(c)' /\ cr'[c].at # "absent"
  <2>1. cr'[c] \in Record /\ Row(c)' BY DEF Typed, CrOK
  <2>2. cr'[c].at = "absent" => cr'[c].handled = NoWish /\ ~cr'[c].held BY <2>1, AbsentIs DEF Row, Fits
  <2> QED BY <2>1, <2>2 DEF Row, Fits, Claims, Runs, Ticks
<1>2. cr[c].at # "absent"
  <2>1. Claims(cr'[c], task'[c], tick'[c]) => cr'[c].held BY <1>1 DEF Claims, Row, Fits, Runs, Ticks
  <2> QED BY <1>1, <2>1 DEF Aged
<1>3. ~cr[c].renamed BY <1>1, <1>2 DEF Aged
<1>4. NoElder(c) BY <1>3 DEF Claimed, Inv, ClaimInv
<1> QED BY <1>1, <1>2, <1>4, AgesKeep

LEMMA ApartKeeps ==
  ASSUME Inv, Typed', NEW m, ProjectsNamed(m), \A c \in Records : Named2(m, c), DoomedUsed
  PROVE  ApartInv'
<1>1. ids \in Nat /\ ids' \in Nat BY NoTaskIs DEF Inv, Typed, IdsOK
<1>2. ASSUME NEW n, NEW i, Uses(n, i)', i # 0 PROVE Uses(n, i) \/ Drawn(m, n, i)
  <2>1. CASE n \in Names /\ project'[n].id = i BY <1>2, <2>1 DEF ProjectsNamed, Uses
  <2>2. CASE \E c \in Records : RowUses(cr'[c], task'[c], tick'[c], n, i) BY <1>2, <2>2 DEF Named2
  <2>3. CASE \E o \in loop'.doomed : n = o.name /\ i = o.id BY <2>3 DEF DoomedUsed
  <2> QED BY <1>2, <2>1, <2>2, <2>3 DEF Uses
<1>3. \A n, i : Uses(n, i) /\ i # 0 => i <= ids /\ \A k : Uses(k, i) => n = k BY DEF Inv, ApartInv
<1>4. ASSUME NEW n, NEW i, Uses(n, i)', i # 0 PROVE i <= ids'
  <2>1. CASE Uses(n, i)
    <3>1. i <= ids BY <1>3, <1>4, <2>1
    <3>2. i \in Int
      <4>1. CASE n \in Names /\ project[n].id = i BY <4>1, NoTaskIs DEF Inv, Typed, ProjectsOK, Project
      <4>2. ASSUME NEW c \in Records, RowUses(cr[c], task[c], tick[c], n, i) PROVE i \in Int
        BY <4>2, NoTaskIs DEF RowUses, Inv, Typed, CrOK, TaskOK, TickOK, Record, Task, Tick
      <4>3. CASE \E o \in loop.doomed : n = o.name /\ i = o.id
        <5>1. loop.doomed \subseteq [name : Names, id : 1..MaxIds] BY DEF Inv, Typed, LoopOK, Loop
        <5> QED BY <4>3, <5>1, NoTaskIs
      <4> QED BY <2>1, <4>1, <4>2, <4>3 DEF Uses
    <3> QED BY <1>1, <3>1, <3>2 DEF ProjectsNamed
  <2>2. CASE Drawn(m, n, i) BY <2>2 DEF Drawn
  <2> QED BY <1>2, <1>4, <2>1, <2>2
<1>5. ASSUME NEW n, NEW i, NEW k, Uses(n, i)', Uses(k, i)', i # 0 PROVE n = k
  <2>1. CASE Uses(n, i) /\ Uses(k, i) BY <1>3, <1>5, <2>1
  <2>2. CASE Drawn(m, n, i) /\ Drawn(m, k, i) BY <2>2 DEF Drawn
  <2>3. ~(i = ids + 1 /\ i <= ids) BY <1>1
  <2>4. CASE Uses(n, i) /\ Drawn(m, k, i) BY <1>3, <1>5, <2>3, <2>4 DEF Drawn
  <2>5. CASE Drawn(m, n, i) /\ Uses(k, i) BY <1>3, <1>5, <2>3, <2>5 DEF Drawn
  <2> QED BY <1>2, <1>5, <2>1, <2>2, <2>4, <2>5
<1> QED BY <1>4, <1>5 DEF ApartInv

LEMMA DeletionsKeep ==
  ASSUME Inv, Typed', Clock, \A c \in Records : Row(c)' /\ Aged(c) /\ Listed(c)
  PROVE  DeleteInv'
<1>1. /\ born \in Nat /\ born' \in Nat
      /\ \A c \in Records : cr[c] \in Record /\ task[c] \in Task /\ cr[c].born \in Nat /\ task[c].listed \in Nat
  BY NoTaskIs DEF Inv, Typed, CountsOK, CrOK, TaskOK, Record, Task
<1> SUFFICES ASSUME NEW c \in Records, task'[c].at \in Deleting
             PROVE  /\ task'[c].listed <= born'
                    /\ \A d \in Duplicates(c, N(c))' : cr'[d].renamed \/ cr'[d].born > task'[c].listed
  BY DEF DeleteInv, Deleting
<1>2. task'[c].listed \in Nat /\ task'[c].listed <= born
  BY <1>1 DEF Listed, Inv, DeleteInv, Deleting
<1>3. ASSUME NEW d \in Records \ {c}, cr'[d].at # "absent", ~cr'[d].renamed, cr'[d].spec.name = N(c)'
      PROVE  cr'[d].born > task'[c].listed
  <2>1. CASE cr[d].at # "absent"
    <3>1. cr'[d].born = cr[d].born /\ cr[d].spec.name = N(c) /\ ~cr[d].renamed BY <1>3, <2>1 DEF Aged, Listed
    <3>2. d \in Duplicates(c, N(c)) BY <2>1, <3>1 DEF Duplicates, Named, Present
    <3> QED BY <3>1, <3>2 DEF Listed, Inv, DeleteInv, Deleting
  <2>2. CASE cr[d].at = "absent"
    <3>1. cr'[d].born = born + 1 BY <1>3, <2>2 DEF Aged
    <3> QED BY <1>1, <1>2, <3>1
  <2> QED BY <2>1, <2>2
<1> QED BY <1>1, <1>2, <1>3 DEF Clock, Duplicates, Named, Present

LEMMA Idle ==
  ASSUME Inv, NEW c \in Records, cr[c].at = "absent"
  PROVE  /\ cr[c] = Absent /\ cr[c].pid = 0 /\ task[c] = NoTask /\ tick[c] = NoTick
         /\ task[c].at = "idle" /\ tick[c].at = "idle"
<1>1. Row(c) BY DEF Inv, LifeInv, Row
<1>2. cr[c] = Absent /\ cr[c].pid = 0 /\ ~cr[c].held BY <1>1, AbsentIs DEF Row, Fits
<1> QED BY <1>1, <1>2 DEF Row, Fits, Ticks

LEMMA CollectionKeeps ==
  ASSUME Inv, \A c \in Records : Row(c)' /\ Aged(c) /\ Rests(c), loop' = loop
  PROVE  CollectInv' /\ LoopInv'
<1> LoopInv' BY DEF Inv, LoopInv
<1> SUFFICES ASSUME loop.at \in {"list", "collect"},
                    NEW c \in Records, cr'[c].at # "absent", ~cr'[c].renamed, cr'[c].spec.name \notin loop.expected
             PROVE  cr'[c].pid = 0 /\ task'[c].at = "idle"
  BY DEF CollectInv, Inv, Present
<1>1. CASE cr[c].at = "absent" BY <1>1, Idle DEF Rests
<1>2. CASE cr[c].at # "absent"
  <2>1. cr[c].spec.name = cr'[c].spec.name /\ ~cr[c].renamed BY <1>2 DEF Aged
  <2>2. cr[c].pid = 0 /\ task[c].at = "idle" BY <1>2, <2>1 DEF Inv, CollectInv, Present
  <2> QED BY <2>2 DEF Rests
<1> QED BY <1>1, <1>2

\* All but what is said of the collector.
LEMMA AllMove ==
  ASSUME Inv, Typed', Clock, NEW m, ProjectsNamed(m), \A c \in Records : Carries(m, c), DoomedUsed
  PROVE  Typed' /\ LifeInv' /\ AgeInv' /\ ClaimInv' /\ ApartInv' /\ DeleteInv'
<1>1. \A c \in Records : Row(c)' /\ Aged(c) /\ Claimed(c) /\ Listed(c) /\ Named2(m, c) BY DEF Carries
<1>2. LifeInv' BY <1>1 DEF LifeInv, Row
<1>3. AgeInv' BY <1>1, AgesKeep
<1>4. ClaimInv' BY <1>1, ClaimsKeep
<1>5. ApartInv' BY <1>1, ApartKeeps
<1>6. DeleteInv' BY <1>1, DeletionsKeep
<1> QED BY <1>2, <1>3, <1>4, <1>5, <1>6

\* A record that a step leaves alone.
Same1(c) == cr'[c] = cr[c] /\ task'[c] = task[c] /\ tick'[c] = tick[c]

LEMMA Stays ==
  ASSUME Inv, NEW m, NEW c \in Records, Same1(c), c \in waived' <=> c \in waived
  PROVE  Carries(m, c) /\ Rests(c)
<1>1. Row(c)' BY DEF Same1, Inv, LifeInv, Row
<1>2. Aged(c) BY DEF Same1, Aged
<1>3. Claimed(c) BY DEF Same1, Claimed
<1>4. Listed(c)
  <2>1. N(c)' = N(c) BY DEF Same1, N
  <2>2. task[c].at \in Deleting => cr[c].at # "absent" BY Idle DEF Deleting
  <2> QED BY <2>1, <2>2 DEF Same1, Listed
<1>5. Named2(m, c) BY DEF Same1, Named2, RowUses, Uses
<1> QED BY <1>1, <1>2, <1>3, <1>4, <1>5 DEF Carries, Rests, Same1

\* A step of one record.
LEMMA OneMoves ==
  ASSUME Inv, Typed', Clock, NEW m, ProjectsNamed(m), loop' = loop, NEW c \in Records,
         Carries(m, c), Rests(c),
         \A d \in Records \ {c} : Same1(d) /\ (d \in waived' <=> d \in waived)
  PROVE  Inv'
<1>1. \A d \in Records : Carries(m, d) /\ Rests(d) BY Stays
<1>2. CollectInv' /\ LoopInv' BY <1>1, CollectionKeeps DEF Carries
<1>3. DoomedUsed BY DEF DoomedUsed, Uses
<1> QED BY <1>1, <1>2, <1>3, AllMove DEF Inv

\* A thread that goes on.
LEMMA ThreadMoves ==
  ASSUME Inv, NEW c \in Records, Only(c), Still, Spent, GoesOn(task[c], task'[c]), Listed(c), CloudOK', news' = news, ProjectsNamed(N(c)),
         task[c].at = "project" /\ task'[c].at = "mark" => task'[c].put.pid = project'[N(c)].id
  PROVE  Inv'
<1>1. Typed /\ Row(c) /\ task[c] \in Task /\ task'[c] \in Task /\ Only(c) /\ Still /\ GoesOn(task[c], task'[c])
  BY DEF Inv, LifeInv, Row, Only, Typed, TaskOK
<1>2. /\ cr' = cr /\ tick' = tick /\ loop' = loop /\ waived' = waived /\ plan' = plan
      /\ born' = born /\ second' = second
      /\ task' \in [Records -> Task] /\ \A d \in Records \ {c} : task'[d] = task[d]
  BY <1>1 DEF Still, Only, Typed, TaskOK
<1>3. events' \in 0..MaxEvents /\ events \in 0..MaxEvents /\ events <= events'
  BY <1>1, <1>2, SpentIs, NoTaskIs DEF Typed, CountsOK, Spent
<1>4. Typed'
  BY <1>1, <1>2, <1>3 DEF Typed, CloudOK, CrOK, TaskOK, TickOK, LoopOK, CountsOK
<1>5. Clock
  <2>1. born \in Nat /\ second \in Nat /\ events' \in Nat /\ events \in Nat
    BY <1>1, <1>3, NoTaskIs DEF Typed, CountsOK
  <2> QED BY <1>2, <1>3, <2>1 DEF Clock, Inv, AgeInv
<1>6. task[c].at # "idle" /\ cr[c].at # "absent" BY <1>1, Idle DEF GoesOn
<1>7. Row(c)'
  <2> DEFINE s == task[c]
             t == task'[c]
  <2>1. Fits(cr[c], s, tick[c]) /\ GoesOn(s, t) BY <1>1 DEF Row
  <2>2. Fits(cr[c], t, tick[c])
    <3> HIDE DEF s, t
    <3>1. s.at # "idle" /\ t.at # "idle" /\ t.kind = s.kind /\ t.spec = s.spec /\ t.old = s.old
      BY <2>1 DEF GoesOn
    <3>2. s.at = "project" => s.kind = "create" BY <2>1 DEF Fits, KindsOf
    <3>3. Runs(t, "create") =>
            /\ t.at \notin {"claim", "project"}
            /\ t.at # "failed" => t.put.pid # 0
      BY <2>1, <3>1, <3>2 DEF GoesOn, Fits, Runs
    <3>4. Runs(t, "update") => t.put.pid # 0 BY <2>1, <3>1, <3>2 DEF GoesOn, Fits, Runs
    <3>5. t.kind \in KindsOf(t.at) BY <2>1 DEF GoesOn
    <3>6. Runs(t, "delete") => t.put.pid # 0
      <4>1. ASSUME s.kind = "delete" PROVE s.at # "project" /\ s.at # "release" /\ s.put.pid # 0
        BY <2>1, <3>1, <3>2, <4>1 DEF GoesOn, Fits, Runs
      <4> QED BY <2>1, <3>1, <4>1 DEF GoesOn, Runs
    <3> QED BY <2>1, <3>1, <3>3, <3>4, <3>5, <3>6 DEF Fits, Runs
  <2> QED BY <1>2, <2>2 DEF Row
<1>8. Aged(c) BY <1>2, <1>6 DEF Aged
<1>9. Claimed(c)
  <2>1. Claims(cr'[c], task'[c], tick'[c]) => Claims(cr[c], task[c], tick[c])
    BY <1>1, <1>2 DEF Claims, GoesOn, Runs
  <2> QED BY <1>2, <2>1 DEF Claimed
<1>10. Listed(c) OBVIOUS
<1>11. Named2(N(c), c)
  <2> SUFFICES ASSUME NEW n, NEW i, RowUses(cr'[c], task'[c], tick'[c], n, i), i # 0
               PROVE  Uses(n, i) \/ Drawn(N(c), n, i)
    BY DEF Named2
  <2>1. CASE RowUses(cr[c], task[c], tick[c], n, i) BY <2>1 DEF Uses, RowUses
  <2>2. CASE n = task'[c].spec.name /\ i = task'[c].put.pid /\ i # task[c].put.pid
    <3>1. n = N(c) /\ i = project'[n].id /\ task[c].kind = "create" BY <1>1, <2>2 DEF GoesOn, N, Row, Fits, KindsOf
    <3>2. n \in Names BY <1>1, <1>6, <3>1 DEF Row, Fits, N, Wish
    <3> QED BY <3>1, <3>2 DEF ProjectsNamed, Uses
  <2> QED BY <1>1, <1>2, <2>1, <2>2 DEF RowUses, GoesOn
<1>12. Carries(N(c), c) BY <1>7, <1>8, <1>9, <1>10, <1>11 DEF Carries
<1>13. Rests(c) BY <1>6 DEF Rests
<1>14. \A d \in Records \ {c} : Same1(d) /\ (d \in waived' <=> d \in waived) BY <1>2 DEF Same1
<1> QED BY <1>2, <1>4, <1>5, <1>12, <1>13, <1>14, OneMoves

------------------------------------------------------------------------------
\* The steps of a thread that goes on.
Advances(c) ==
  /\ Steady1(c) /\ CloudOK' /\ ProjectsNamed(N(c))
  /\ task[c].at = "project" /\ task'[c].at = "mark" => task'[c].put.pid = project'[N(c)].id

LEMMA EnsureProjectAdvances ==
  ASSUME Typed, NEW c \in Records, Row(c), EnsureProject(c)
  PROVE  Advances(c)
<1>1. N(c) \in Names /\ task[c].at = "project" BY TaskIs DEF EnsureProject, At, Row
<1>2. ids \in Nat BY NoTaskIs DEF Typed, IdsOK
<1>3. ProjectsNamed(N(c))
  BY <1>1, <1>2, EnsureProjectStep DEF ProjectsNamed, Drawn, Row, Typed, ProjectsOK
<1> QED BY <1>1, <1>3, EnsureProjectStep DEF Advances, Row

LEMMA Rows ==
  /\ NoProject \in Project /\ NoProject.id = 0
  /\ Grouped(NoGroup)
  /\ \A r \in Project, k \in Contracts \cup {None} :
       /\ WithContractTag(r, k) \in Project /\ WithContractTag(r, k).id = r.id
       /\ Tagged(r) \in Project /\ Tagged(r).id = r.id
  /\ \A g, m : Grouped(g) => Grouped([g EXCEPT !.members = m])
<1>1. PICK no \in BOOLEAN : no = FALSE OBVIOUS
<1>2. PICK yes \in BOOLEAN : yes = TRUE OBVIOUS
<1> DEFINE row == [id |-> 0, tagged |-> no, contract |-> None, enabled |-> no]
<1>3. NoProject = row BY <1>1 DEF NoProject
<1>4. row \in Project /\ row.id = 0 BY NoTaskIs DEF Project
<1>5. Grouped(NoGroup) BY NoTaskIs DEF Grouped, NoGroup
<1>6. ASSUME NEW r \in Project, NEW k \in Contracts \cup {None}
      PROVE  WithContractTag(r, k) \in Project /\ WithContractTag(r, k).id = r.id
  BY <1>6 DEF WithContractTag, Project
<1>7. ASSUME NEW r \in Project PROVE Tagged(r) \in Project /\ Tagged(r).id = r.id
  <2>1. Tagged(r) = [r EXCEPT !.tagged = yes] BY <1>2 DEF Tagged
  <2>2. [r EXCEPT !.tagged = yes] \in Project /\ [r EXCEPT !.tagged = yes].id = r.id BY DEF Project
  <2> QED BY <2>1, <2>2
<1>8. ASSUME NEW g, NEW m, Grouped(g) PROVE Grouped([g EXCEPT !.members = m])
  <2> DEFINE h == [id |-> g.id, members |-> g.members]
             k == [g EXCEPT !.members = m]
  <2>1. g = h /\ g.id \in 0..MaxIds BY <1>8 DEF Grouped
  <2>2. k = [h EXCEPT !.members = m] BY <2>1
  <2>3. [h EXCEPT !.members = m] = [id |-> g.id, members |-> m] OBVIOUS
  <2>4. k = [id |-> g.id, members |-> m] BY <2>2, <2>3
  <2> HIDE DEF h, k
  <2>5. k.id = g.id /\ k.members = m BY <2>4
  <2> QED BY <2>1, <2>4, <2>5 DEF Grouped, k
<1> HIDE DEF row
<1> QED BY <1>3, <1>4, <1>5, <1>6, <1>7, <1>8

\* Steps that leave the projects, or change one that keeps its id.
LEMMA ProjectSet ==
  ASSUME ProjectsOK, IdsOK, NEW n \in Names, NEW row \in Project, row.id \in {0, project[n].id},
         project' = [project EXCEPT ![n] = row], NEW k \in 0..2, ids' = ids + k
  PROVE  ProjectsOK' /\ \A m : ProjectsNamed(m)
<1>1. ids \in Nat BY NoTaskIs DEF IdsOK
<1> QED BY <1>1 DEF ProjectsOK, ProjectsNamed

LEMMA ProjectsStay ==
  ASSUME ProjectsOK, IdsOK, project' = project, NEW k \in 0..2, ids' = ids + k
  PROVE  ProjectsOK' /\ \A m : ProjectsNamed(m)
<1>1. ids \in Nat BY NoTaskIs DEF IdsOK
<1> QED BY <1>1 DEF ProjectsOK, ProjectsNamed

LEMMA ProjectsKept ==
  ASSUME ProjectsOK, IdsOK, project' \in [Names -> Project],
         \A n \in Names : project'[n].id \in {0, project[n].id}, NEW k \in 0..2, ids' = ids + k
  PROVE  ProjectsOK' /\ \A m : ProjectsNamed(m)
<1>1. ids \in Nat BY NoTaskIs DEF IdsOK
<1> QED BY <1>1 DEF ProjectsOK, ProjectsNamed

\* What a deletion by id leaves.
LEMMA DeletedAre ==
  ASSUME ProjectsOK, GroupsOK, RestOK, NEW i
  PROVE  /\ DeletedProject(i) \in [Names -> Project]
         /\ \A n \in Names : DeletedProject(i)[n].id \in {0, project[n].id}
         /\ DirectWithout(i) \in [Names -> SUBSET Users]
         /\ DOMAIN DeletedGroup(i) = GroupNames /\ \A g \in GroupNames : Grouped(DeletedGroup(i)[g])
<1>1. \A n \in Names : project[n] \in Project BY DEF ProjectsOK
<1>2. NoProject \in Project /\ NoProject.id = 0 /\ Grouped(NoGroup) BY Rows
<1>3. /\ DeletedProject(i) \in [Names -> Project]
      /\ \A n \in Names : DeletedProject(i)[n].id \in {0, project[n].id}
  BY <1>1, <1>2 DEF DeletedProject
<1>4. DirectWithout(i) \in [Names -> SUBSET Users] BY DEF DirectWithout, RestOK
<1>5. DOMAIN DeletedGroup(i) = GroupNames /\ \A g \in GroupNames : Grouped(DeletedGroup(i)[g])
  BY <1>2 DEF DeletedGroup, GroupsOK
<1> QED BY <1>3, <1>4, <1>5

\* A name has the group of its sanitized form.
LEMMA GroupOfName ==
  ASSUME GroupsOK, NEW n \in Names
  PROVE  /\ make_group_name(n) \in GroupNames /\ Grouped(group[make_group_name(n)])
         /\ group[make_group_name(n)].id \in 0..MaxIds
<1>1. make_group_name(n) \in GroupNames BY CloudAssumption DEF make_group_name
<1> QED BY <1>1 DEF GroupsOK, Grouped

LEMMA EarlyIs ==
  ASSUME Typed, NEW c \in Records, FailEarly(c), task[c].kind = "create", task[c].at \in {"mark", "group"}
  PROVE  Only(c) /\ Onward(task[c], task'[c])
<1>1. TaskOK /\ "failed" \in Steps /\ 0 \in 0..MaxIds BY NoTaskIs DEF Typed, Steps
<1>2. task' = [task EXCEPT ![c].at = "failed", ![c].put.pid = 0] BY DEF FailEarly
<1>3. /\ Only(c) /\ Same(task[c], task'[c])
      /\ task'[c].at = "failed" /\ task'[c].put.pid = 0
  BY <1>1, <1>2, PidSet
<1> QED BY <1>3 DEF Same, Onward, GoesOn, KindsOf, Deleting

LEMMA MarkProjectAdvances ==
  ASSUME Typed, NEW c \in Records, Row(c), MarkProject(c)
  PROVE  Advances(c)
<1> DEFINE n == N(c)
           row == WithContractTag(Tagged(project[n]), task[c].spec.contract)
<1>1. /\ task[c] \in Task /\ task[c].kind = "create" /\ task[c].spec \in Wish /\ n \in Names
      /\ task[c].at = "mark" /\ Pid(c) \in 1..MaxIds
  BY TaskIs DEF MarkProject, At, KindsOf, Row
<1>2. TaskOK /\ ProjectsOK /\ IdsOK /\ "group" \in Steps /\ "failed" \in Steps /\ 0 \in 0..MaxIds
  BY NoTaskIs DEF Typed, Steps
<1>3. row \in Project /\ row.id = project[n].id
  <2>1. project[n] \in Project /\ task[c].spec.contract \in Contracts \cup {None}
    BY <1>1, <1>2 DEF ProjectsOK, Wish
  <2> QED BY <2>1, Rows
<1> HIDE DEF n, row
<1>4. /\ IF project[n].id = Pid(c) THEN project' = [project EXCEPT ![n] = row] /\ Go(c, "group")
         ELSE FailEarly(c) /\ UNCHANGED project
      /\ ThreadStep
      /\ UNCHANGED <<group, direct, parts, keys, rules, known, ids, events>>
  BY DEF MarkProject, n, row
<1>5. ids' = ids + 0 BY <1>2, <1>4, NoTaskIs DEF IdsOK
<1>6. ProjectsOK' /\ ProjectsNamed(n)
  <2>1. CASE project[n].id = Pid(c) BY <1>1, <1>2, <1>3, <1>4, <1>5, <2>1, ProjectSet
  <2>2. CASE project[n].id # Pid(c) BY <1>2, <1>4, <1>5, <2>2, ProjectsStay
  <2> QED BY <2>1, <2>2
<1>7. CloudOK' BY <1>4, <1>6 DEF CloudOK, Typed, GroupsOK, PartsOK, RestOK, IdsOK
<1>8. Only(c) /\ Onward(task[c], task'[c])
  <2>1. CASE Go(c, "group")
    BY <1>1, <1>2, <2>1, GoIs DEF Same, Onward, GoesOn, KindsOf, Deleting
  <2>2. CASE FailEarly(c)
    BY <1>1, <2>2, EarlyIs
  <2> QED BY <1>4, <2>1, <2>2
<1>9. Still /\ Spent BY <1>4 DEF Still, ThreadStep, KeepRecords, Spent
<1> QED BY <1>1, <1>6, <1>7, <1>8, <1>9 DEF Advances, Steady1, n

LEMMA EnsureGroupAdvances ==
  ASSUME Typed, NEW c \in Records, Row(c), EnsureGroup(c)
  PROVE  Advances(c)
<1> DEFINE n == N(c)
           h == make_group_name(n)
           found == FoundOrCreatedGroup(n, ids + 1)
<1>1. /\ task[c] \in Task /\ task[c].kind = "create" /\ task[c].spec \in Wish /\ n \in Names
      /\ task[c].at = "group" /\ Pid(c) \in 1..MaxIds
  BY TaskIs DEF EnsureGroup, At, KindsOf, Row
<1>2. /\ TaskOK /\ ProjectsOK /\ IdsOK /\ GroupsOK /\ "furnish" \in Steps /\ "failed" \in Steps
      /\ 0 \in 0..MaxIds /\ ids \in Nat /\ ids + 1 \in 0..MaxIds
  BY NoTaskIs DEF Typed, Steps, IdsOK, EnsureGroup
<1>3. Grouped(found) /\ found.id \in 0..MaxIds
  <2>1. CASE group[h].id # 0 BY <1>1, <1>2, <2>1, GroupOfName DEF FoundOrCreatedGroup
  <2>2. CASE group[h].id = 0
    <3>1. found = [id |-> ids + 1, members |-> {}] BY <2>2 DEF FoundOrCreatedGroup, NoGroup
    <3> QED BY <1>2, <3>1 DEF Grouped
  <2> QED BY <2>1, <2>2
<1>0. h \in GroupNames BY <1>1, <1>2, GroupOfName
<1> HIDE DEF n, h, found
<1>4. /\ group' = [group EXCEPT ![h] = found]
      /\ ids' = IF group[h].id = 0 THEN ids + 1 ELSE ids
      /\ IF project[n].id # Pid(c) THEN FailEarly(c)
         ELSE task' = [task EXCEPT ![c].at = "furnish", ![c].gid = found.id, ![c].put.gid = found.id]
      /\ ThreadStep
      /\ UNCHANGED <<project, direct, parts, keys, rules, known, events>>
  BY DEF EnsureGroup, n, h, found
<1>5. GroupsOK' BY <1>0, <1>2, <1>3, <1>4 DEF GroupsOK
<1>6. IdsOK' BY <1>2, <1>4 DEF IdsOK
<1>7. ProjectsOK' /\ ProjectsNamed(n)
  <2>1. ids' = ids + 0 \/ ids' = ids + 1 BY <1>2, <1>4
  <2> QED BY <1>2, <1>4, <2>1, ProjectsStay
<1>8. CloudOK' BY <1>4, <1>5, <1>6, <1>7 DEF CloudOK, Typed, PartsOK, RestOK
<1>9. Only(c) /\ Onward(task[c], task'[c])
  <2>1. CASE FailEarly(c)
    BY <1>1, <2>1, EarlyIs
  <2>2. CASE ~FailEarly(c)
    <3>1. /\ Only(c) /\ Same(task[c], task'[c])
          /\ task'[c].at = "furnish" /\ task'[c].put.pid = Pid(c)
      BY <1>2, <1>3, <1>4, <2>2, GroupSet
    <3> QED BY <1>1, <3>1 DEF Same, Onward, GoesOn, KindsOf, Deleting, Pid
  <2> QED BY <2>1, <2>2
<1>10. Still /\ Spent BY <1>4 DEF Still, ThreadStep, KeepRecords, Spent
<1> QED BY <1>1, <1>7, <1>8, <1>9, <1>10 DEF Advances, Steady1, n

LEMMA Spending ==
  ASSUME Typed, UNCHANGED events \/ Fault
  PROVE  Spent
BY DEF Spent, Fault, Event

LEMMA FurnishAdvances ==
  ASSUME Typed, NEW c \in Records, Row(c), Furnish(c)
  PROVE  Advances(c)
<1> DEFINE w == task[c].spec
           now == Furnished(parts, Pid(c), w)
           Ids(kind, wanted) == IF wanted THEN StatusId(now, Pid(c), kind, TRUE)
                                ELSE task[c].put.parts[kind]
           p == [network |-> Ids("network", w.network # None),
                 security_group |-> Ids("security_group", w.security_group # {})]
<1>1. /\ task[c] \in Task /\ task[c].kind = "create" /\ w \in Wish
      /\ task[c].at = "furnish" /\ Pid(c) \in 1..MaxIds
  BY TaskIs DEF Furnish, At, KindsOf, Row
<1>2. /\ TaskOK /\ ProjectsOK /\ IdsOK /\ PartsOK /\ RestOK /\ "bind" \in Steps
      /\ ids \in Nat /\ ids + 2 <= MaxIds /\ MaxIds \in Nat
  BY NoTaskIs DEF Typed, Steps, IdsOK, Furnish
<1>3. w.network \in Contents \cup {None} /\ w.security_group \in SUBSET Contents BY <1>1 DEF Wish
<1>4. now \subseteq Parts BY <1>1, <1>2, <1>3, FurnishedAre, CloudAssumption DEF PartsOK
<1>5. p \in PartsOf
  <2>1. StatusId(now, Pid(c), "network", TRUE) \in 0..MaxIds
        /\ StatusId(now, Pid(c), "security_group", TRUE) \in 0..MaxIds
    <3> HIDE DEF now
    <3> QED BY <1>4, StatusIdIs
  <2>2. task[c].put.parts["network"] \in 0..MaxIds /\ task[c].put.parts["security_group"] \in 0..MaxIds
    BY <1>2, TaskFields DEF Put, PartsOf, Kinds
  <2> HIDE DEF now
  <2>3. Ids("network", w.network # None) \in 0..MaxIds
        /\ Ids("security_group", w.security_group # {}) \in 0..MaxIds
    BY <2>1, <2>2
  <2> HIDE DEF Ids
  <2> QED BY <2>3, PartsAre
<1>6. /\ parts' = now
      /\ ids' = IF now = parts THEN ids ELSE ids + 2
      /\ task' = [task EXCEPT ![c].at = "bind", ![c].put.parts = p]
      /\ keys' \in {keys, keys \cup {Pid(c)}}
      /\ UNCHANGED events \/ Fault
      /\ ThreadStep
      /\ UNCHANGED <<project, group, direct, rules, known>>
  BY DEF Furnish
<1> HIDE DEF now, p
<1>7. ids' = ids + 0 \/ ids' = ids + 2 BY <1>2, <1>6
<1>8. ProjectsOK' /\ ProjectsNamed(N(c)) BY <1>2, <1>6, <1>7, ProjectsStay
<1>9. IdsOK' BY <1>2, <1>7 DEF IdsOK
<1>10. PartsOK' BY <1>4, <1>6 DEF PartsOK
<1>11. RestOK' BY <1>1, <1>2, <1>6 DEF RestOK
<1>12. CloudOK' BY <1>6, <1>8, <1>9, <1>10, <1>11 DEF CloudOK, Typed, GroupsOK
<1>13. Only(c) /\ Onward(task[c], task'[c])
  <2>1. /\ Only(c) /\ Same(task[c], task'[c])
        /\ task'[c].at = "bind" /\ task'[c].put.pid = Pid(c)
    BY <1>2, <1>5, <1>6, PartsSet
  <2> QED BY <1>1, <2>1 DEF Same, Onward, GoesOn, KindsOf, Deleting, Pid
<1>14. Still /\ Spent BY <1>6, Spending DEF Still, ThreadStep, KeepRecords
<1> QED BY <1>1, <1>8, <1>12, <1>13, <1>14 DEF Advances, Steady1

LEMMA RetagAdvances ==
  ASSUME Typed, NEW c \in Records, Row(c), Retag(c)
  PROVE  Advances(c)
<1> DEFINE tagged == [n \in Names |->
                       IF project[n].id = Pid(c) THEN WithContractTag(project[n], task[c].spec.contract)
                       ELSE project[n]]
<1>1. /\ task[c] \in Task /\ task[c].kind = "update" /\ task[c].spec \in Wish
      /\ task[c].at = "tag"
  BY TaskIs DEF Retag, At, KindsOf, Row
<1>2. TaskOK /\ ProjectsOK /\ IdsOK /\ "refurnish" \in Steps /\ "failed" \in Steps
  BY DEF Typed, Steps
<1>3. tagged \in [Names -> Project] /\ \A n \in Names : tagged[n].id = project[n].id
  <2>1. /\ \A n \in Names : project[n] \in Project
        /\ task[c].spec.contract \in Contracts \cup {None}
    BY <1>1, <1>2 DEF ProjectsOK, Wish
  <2> QED BY <2>1, Rows
<1>4. /\ \/ project' = tagged /\ Go(c, "refurnish")
         \/ Go(c, "failed") /\ UNCHANGED project
      /\ ThreadStep
      /\ UNCHANGED <<group, direct, parts, keys, rules, known, ids, events>>
  BY DEF Retag
<1> HIDE DEF tagged
<1>5. ids' = ids + 0 BY <1>2, <1>4, NoTaskIs DEF IdsOK
<1>6. ProjectsOK' /\ ProjectsNamed(N(c))
  <2>1. CASE project' = tagged BY <1>2, <1>3, <1>5, <2>1, ProjectsKept
  <2>2. CASE project' = project BY <1>2, <1>5, <2>2, ProjectsStay
  <2> QED BY <1>4, <2>1, <2>2
<1>7. CloudOK' BY <1>4, <1>6 DEF CloudOK, Typed, GroupsOK, PartsOK, RestOK, IdsOK
<1>8. Only(c) /\ Onward(task[c], task'[c])
  BY <1>1, <1>2, <1>4, GoIs DEF Same, Onward, GoesOn, KindsOf, Deleting
<1>9. Still /\ Spent BY <1>4 DEF Still, ThreadStep, KeepRecords, Spent
<1> QED BY <1>1, <1>6, <1>7, <1>8, <1>9 DEF Advances, Steady1

LEMMA RefurnishAdvances ==
  ASSUME Typed, NEW c \in Records, Row(c), Refurnish(c)
  PROVE  Advances(c)
<1> DEFINE w == task[c].spec
           Old(kind) == IF Changed(c, kind) THEN {task[c].put.parts[kind]} \ {0} ELSE {}
           Kept(kind, wanted, now) == IF Changed(c, kind) THEN StatusId(now, Pid(c), kind, wanted)
                                      ELSE task[c].put.parts[kind]
           v == [w EXCEPT !.network = IF Changed(c, "network") THEN @ ELSE None,
                          !.security_group = IF Changed(c, "security_group") THEN @ ELSE {}]
           Ensured(cleared) == Furnished(cleared, Pid(c), v)
           doomed == Old("network") \cup Old("security_group")
           p(now) == [network |-> Kept("network", w.network # None, now),
                      security_group |-> Kept("security_group", w.security_group # {}, now)]
<1>1. /\ task[c] \in Task /\ task[c].kind = "update" /\ w \in Wish
      /\ task[c].at = "refurnish" /\ Pid(c) \in 1..MaxIds
  BY TaskIs DEF Refurnish, At, KindsOf, Row
<1>2. /\ TaskOK /\ ProjectsOK /\ IdsOK /\ PartsOK /\ RestOK /\ "bind" \in Steps
      /\ ids \in Nat /\ ids + 2 <= MaxIds /\ MaxIds \in Nat
  BY NoTaskIs DEF Typed, Steps, IdsOK, Refurnish
<1>3. v.network \in Contents \cup {None} /\ v.security_group \in SUBSET Contents BY <1>1 DEF Wish
<1>4. PICK kept \in SUBSET doomed :
        LET now == Ensured(Without(parts, doomed, kept))
        IN /\ IF kept = {} THEN UNCHANGED events ELSE Fault
           /\ parts' = now
           /\ ids' = IF now \subseteq parts THEN ids ELSE ids + 2
           /\ task' = [task EXCEPT ![c].at = "bind", ![c].put.parts = p(now)]
  BY DEF Refurnish
<1>5. ThreadStep /\ UNCHANGED <<project, group, direct, keys, rules, known>> BY DEF Refurnish
<1> DEFINE left == Without(parts, doomed, kept)
           now == Ensured(left)
<1>6. left \subseteq Parts BY <1>2, WithoutAre DEF PartsOK
<1>7. now \subseteq Parts
  <2> HIDE DEF left, v
  <2> QED BY <1>1, <1>2, <1>3, <1>6, FurnishedAre, CloudAssumption
<1>8. /\ UNCHANGED events \/ Fault
      /\ parts' = now
      /\ ids' = IF now \subseteq parts THEN ids ELSE ids + 2
      /\ task' = [task EXCEPT ![c].at = "bind", ![c].put.parts = p(now)]
  BY <1>4
<1>9. p(now) \in PartsOf
  <2> HIDE DEF now
  <2>1. \A yes \in BOOLEAN :
          /\ StatusId(now, Pid(c), "network", yes) \in 0..MaxIds
          /\ StatusId(now, Pid(c), "security_group", yes) \in 0..MaxIds
    BY <1>7, StatusIdIs
  <2>2. task[c].put.parts["network"] \in 0..MaxIds /\ task[c].put.parts["security_group"] \in 0..MaxIds
    BY <1>2, TaskFields DEF Put, PartsOf, Kinds
  <2>3. Kept("network", w.network # None, now) \in 0..MaxIds
        /\ Kept("security_group", w.security_group # {}, now) \in 0..MaxIds
    BY <2>1, <2>2
  <2> HIDE DEF Kept
  <2> QED BY <2>3, PartsAre
<1> HIDE DEF now, p
<1>10. ids' = ids + 0 \/ ids' = ids + 2 BY <1>2, <1>8
<1>11. ProjectsOK' /\ ProjectsNamed(N(c)) BY <1>2, <1>5, <1>10, ProjectsStay
<1>12. IdsOK' BY <1>2, <1>10 DEF IdsOK
<1>13. PartsOK' BY <1>7, <1>8 DEF PartsOK
<1>14. CloudOK' BY <1>5, <1>11, <1>12, <1>13 DEF CloudOK, Typed, GroupsOK, RestOK
<1>15. Only(c) /\ Onward(task[c], task'[c])
  <2>1. /\ Only(c) /\ Same(task[c], task'[c])
        /\ task'[c].at = "bind" /\ task'[c].put.pid = Pid(c)
    BY <1>2, <1>8, <1>9, PartsSet
  <2> QED BY <1>1, <2>1 DEF Same, Onward, GoesOn, KindsOf, Deleting, Pid
<1>16. Still /\ Spent BY <1>5, <1>8, Spending DEF Still, ThreadStep, KeepRecords
<1> QED BY <1>1, <1>11, <1>14, <1>15, <1>16 DEF Advances, Steady1

LEMMA UsersAre ==
  ASSUME NEW w \in Wish
  PROVE  UsersOf(w.bindings) \subseteq Users
<1>1. w.bindings \in Seq(SUBSET Users) BY DEF Wish
<1>2. \A i \in DOMAIN w.bindings : w.bindings[i] \in SUBSET Users BY <1>1
<1> QED BY <1>2 DEF UsersOf

LEMMA BindingsApplied ==
  ASSUME GroupsOK, RestOK, NEW w, NEW pid, NEW gid, ApplyRoleBindings(w, pid, gid)
  PROVE  GroupsOK' /\ direct' \in [Names -> SUBSET Users]
<1>1. CASE w.managed
  <2>1. \A n \in Names : direct[n] \subseteq Users /\ DirectAfter(direct[n], w.bindings) \subseteq Users
    <3>1. known \subseteq Users /\ \A n \in Names : direct[n] \subseteq Users BY DEF RestOK
    <3> QED BY <3>1 DEF DirectAfter
  <2>2. /\ direct' = [n \in Names |-> IF Exists(n) /\ project[n].id = pid
                                      THEN DirectAfter(direct[n], w.bindings) ELSE direct[n]]
        /\ group' = group
    BY <1>1 DEF ApplyRoleBindings
  <2> QED BY <2>1, <2>2 DEF GroupsOK
<1>2. CASE ~w.managed
  <2> DEFINE after(g) == [group[g] EXCEPT !.members = MembersAfter(group[g].members, w.bindings)]
  <2>1. /\ direct' = direct
        /\ group' = [g \in GroupNames |-> IF gid # 0 /\ group[g].id = gid THEN after(g) ELSE group[g]]
    BY <1>2 DEF ApplyRoleBindings
  <2>2. \A g \in GroupNames : Grouped(group[g]) /\ Grouped(after(g)) BY Rows DEF GroupsOK
  <2> HIDE DEF after
  <2> QED BY <2>1, <2>2 DEF GroupsOK, RestOK
<1> QED BY <1>1, <1>2

LEMMA BindAdvances ==
  ASSUME Typed, NEW c \in Records, Row(c), Bind(c)
  PROVE  Advances(c)
<1>1. /\ task[c] \in Task /\ task[c].kind \in {"create", "update"} /\ task[c].spec \in Wish
      /\ task[c].at = "bind" /\ task[c].spec.name \in Names
  <2>1. /\ task[c] \in Task /\ task[c].kind \in KindsOf(task[c].at) /\ task[c].spec \in Wish
        /\ task[c].at = "bind" /\ N(c) \in Names
    BY TaskIs DEF Bind, At, Row
  <2> QED BY <2>1 DEF KindsOf, N
<1>2. /\ TaskOK /\ ProjectsOK /\ IdsOK /\ GroupsOK /\ RestOK /\ "map" \in Steps /\ "failed" \in Steps
      /\ ids \in Nat
  BY NoTaskIs DEF Typed, Steps, IdsOK
<1>3. /\ \/ Go(c, "map") /\ UNCHANGED <<group, direct>>
         \/ Go(c, "map") /\ ApplyRoleBindings(task[c].spec, Pid(c), task[c].gid)
         \/ Go(c, "failed") /\ UNCHANGED <<group, direct>>
      /\ ThreadStep
      /\ UNCHANGED <<project, parts, keys, rules, known, ids, events>>
  BY DEF Bind
<1>4. GroupsOK' /\ direct' \in [Names -> SUBSET Users]
  <2>1. CASE UNCHANGED <<group, direct>> BY <1>2, <2>1 DEF GroupsOK, RestOK
  <2>2. CASE ApplyRoleBindings(task[c].spec, Pid(c), task[c].gid) BY <1>2, <2>2, BindingsApplied
  <2> QED BY <1>3, <2>1, <2>2
<1>5. ids' = ids + 0 BY <1>2, <1>3
<1>6. ProjectsOK' /\ ProjectsNamed(N(c)) BY <1>2, <1>3, <1>5, ProjectsStay
<1>7. CloudOK' BY <1>2, <1>3, <1>4, <1>6 DEF CloudOK, Typed, PartsOK, RestOK, IdsOK
<1>8. Only(c) /\ Onward(task[c], task'[c])
  <2>1. Go(c, "map") \/ Go(c, "failed") BY <1>3
  <2>2. CASE Go(c, "map") BY <1>1, <1>2, <2>2, GoIs DEF Same, Onward, GoesOn, KindsOf, Deleting
  <2>3. CASE Go(c, "failed") BY <1>1, <1>2, <2>3, GoIs DEF Same, Onward, GoesOn, KindsOf, Deleting
  <2> QED BY <2>1, <2>2, <2>3
<1>9. Still /\ Spent BY <1>3 DEF Still, ThreadStep, KeepRecords, Spent
<1> QED BY <1>1, <1>6, <1>7, <1>8, <1>9 DEF Advances, Steady1

\* The rules of all projects, written from what was read.
LEMMA RulesAre ==
  ASSUME RestOK, NEW view \in [GroupNames -> SUBSET Users], NEW n \in Names, NEW users \in SUBSET Users
  PROVE  /\ WithRule(view, n, users) \in [GroupNames -> SUBSET Users]
         /\ RuleRemoved(view, n) \in [GroupNames -> SUBSET Users]
<1>1. make_group_name(n) \in GroupNames BY CloudAssumption DEF make_group_name
<1>2. WithoutRule(view, n) \in [GroupNames -> SUBSET Users] BY <1>1 DEF WithoutRule
<1> QED BY <1>1, <1>2 DEF WithRule, RuleRemoved, RestOK

\* Steps of a thread that concern the rules, or nothing in OpenStack.
LEMMA RulesStep ==
  ASSUME Typed, rules' \in [GroupNames -> SUBSET Users],
         UNCHANGED <<project, group, direct, parts, keys, known, ids>>
  PROVE  CloudOK' /\ \A m : ProjectsNamed(m)
<1>1. ProjectsOK /\ IdsOK /\ ids \in Nat BY NoTaskIs DEF Typed, IdsOK
<1>2. ids' = ids + 0 BY <1>1
<1>3. ProjectsOK' /\ \A m : ProjectsNamed(m) BY <1>1, <1>2, ProjectsStay
<1> QED BY <1>3 DEF CloudOK, Typed, GroupsOK, PartsOK, RestOK, IdsOK

LEMMA RulesAdvance ==
  ASSUME Typed, NEW c \in Records, Row(c), ReadRules(c) \/ WriteRules(c) \/ ReadForDelete(c) \/ WriteForDelete(c)
  PROVE  Advances(c)
<1>1. /\ task[c] \in Task /\ task[c].kind \in KindsOf(task[c].at) /\ task[c].spec \in Wish
      /\ task[c].at \in {"map", "write", "unmap", "unwrite"} /\ N(c) \in Names
      /\ task[c].view \in [GroupNames -> SUBSET Users]
  <2>1. task[c].at \in {"map", "write", "unmap", "unwrite"}
    BY DEF ReadRules, WriteRules, ReadForDelete, WriteForDelete, At
  <2>2. /\ task[c] \in Task /\ task[c].kind \in KindsOf(task[c].at) /\ task[c].spec \in Wish /\ N(c) \in Names
    BY <2>1, TaskIs DEF Row
  <2> QED BY <2>1, <2>2 DEF Task
<1>2. /\ TaskOK /\ RestOK /\ {"write", "ready", "unwrite", "destroy"} \subseteq Steps
      /\ rules \in [GroupNames -> SUBSET Users] /\ NoView \in [GroupNames -> SUBSET Users]
  BY DEF Typed, Steps, RestOK, NoView
<1>3. rules' \in [GroupNames -> SUBSET Users]
  <2>1. CASE ReadRules(c) \/ ReadForDelete(c) BY <1>2, <2>1 DEF ReadRules, ReadForDelete, cloud
  <2>2. CASE WriteRules(c) BY <1>1, <1>2, <2>2, UsersAre, RulesAre DEF WriteRules
  <2>3. CASE WriteForDelete(c) BY <1>1, <1>2, <2>3, RulesAre DEF WriteForDelete
  <2> QED BY <2>1, <2>2, <2>3
<1>4. /\ UNCHANGED <<project, group, direct, parts, keys, known, ids, events>> /\ ThreadStep
  BY DEF ReadRules, WriteRules, ReadForDelete, WriteForDelete, cloud
<1>5. CloudOK' /\ ProjectsNamed(N(c)) BY <1>3, <1>4, RulesStep
<1>6. Only(c) /\ Onward(task[c], task'[c])
  <2>1. CASE ReadRules(c)
    <3>1. task[c].at = "map" BY <2>1 DEF ReadRules, At
    <3>2. \/ task' = [task EXCEPT ![c].at = "write", ![c].view = rules] \/ Go(c, "ready")
      BY <2>1 DEF ReadRules, Go
    <3>3. /\ Only(c) /\ Same(task[c], task'[c])
          /\ task'[c].at \in {"write", "ready"} /\ task'[c].put = task[c].put
      BY <1>2, <3>2, GoIs, ViewSet
    <3> QED BY <1>1, <3>1, <3>3 DEF Same, Onward, GoesOn, KindsOf, Deleting
  <2>2. CASE WriteRules(c)
    <3>1. task[c].at = "write" BY <2>2 DEF WriteRules, At
    <3>2. task' = [task EXCEPT ![c].at = "ready", ![c].view = NoView] BY <2>2 DEF WriteRules
    <3>3. /\ Only(c) /\ Same(task[c], task'[c])
          /\ task'[c].at = "ready" /\ task'[c].put = task[c].put
      BY <1>2, <3>2, ViewSet
    <3> QED BY <1>1, <3>1, <3>3 DEF Same, Onward, GoesOn, KindsOf, Deleting
  <2>3. CASE ReadForDelete(c)
    <3>1. task[c].at = "unmap" BY <2>3 DEF ReadForDelete, At
    <3>2. \/ task' = [task EXCEPT ![c].at = "unwrite", ![c].view = rules] \/ Go(c, "destroy")
      BY <2>3 DEF ReadForDelete, Go
    <3>3. /\ Only(c) /\ Same(task[c], task'[c]) /\ task'[c].listed = task[c].listed
          /\ task'[c].at \in {"unwrite", "destroy"} /\ task'[c].put = task[c].put
      BY <1>2, <3>2, GoIs, ViewSet
    <3> QED BY <1>1, <3>1, <3>3 DEF Same, Onward, GoesOn, KindsOf, Deleting
  <2>4. CASE WriteForDelete(c)
    <3>1. task[c].at = "unwrite" BY <2>4 DEF WriteForDelete, At
    <3>2. task' = [task EXCEPT ![c].at = "destroy", ![c].view = NoView] BY <2>4 DEF WriteForDelete
    <3>3. /\ Only(c) /\ Same(task[c], task'[c]) /\ task'[c].listed = task[c].listed
          /\ task'[c].at = "destroy" /\ task'[c].put = task[c].put
      BY <1>2, <3>2, ViewSet
    <3> QED BY <1>1, <3>1, <3>3 DEF Same, Onward, GoesOn, KindsOf, Deleting
  <2> QED BY <2>1, <2>2, <2>3, <2>4
<1>7. Still /\ Spent BY <1>4 DEF Still, ThreadStep, KeepRecords, Spent
<1> QED BY <1>1, <1>5, <1>6, <1>7 DEF Advances, Steady1

LEMMA FailAdvances ==
  ASSUME Typed, NEW c \in Records, Row(c), Fail(c)
  PROVE  Advances(c)
<1>1. /\ task[c] \in Task /\ task[c].kind \in KindsOf(task[c].at) /\ task[c].spec \in Wish
      /\ task[c].at \in {"project", "mark", "group", "tag", "furnish", "refurnish", "bind", "map", "write"}
  <2>1. task[c].at \in {"project", "mark", "group", "tag", "furnish", "refurnish", "bind", "map", "write"}
    BY DEF Fail
  <2> QED BY <2>1, TaskIs DEF Row
<1>2. TaskOK /\ "failed" \in Steps /\ rules \in [GroupNames -> SUBSET Users] BY DEF Typed, Steps, RestOK
<1>3. /\ IF task[c].at \in {"mark", "group"} THEN FailEarly(c) ELSE Go(c, "failed")
      /\ ThreadStep /\ Fault /\ UNCHANGED <<project, group, direct, parts, keys, rules, known, ids>>
  BY DEF Fail, cloud
<1>4. CloudOK' /\ ProjectsNamed(N(c)) BY <1>2, <1>3, RulesStep
<1>5. Only(c) /\ Onward(task[c], task'[c]) /\ task'[c].at # "mark"
  <2>1. CASE task[c].at \in {"mark", "group"}
    <3>1. task[c].kind = "create" BY <1>1, <2>1 DEF KindsOf
    <3>2. Only(c) /\ Onward(task[c], task'[c]) BY <1>3, <2>1, <3>1, EarlyIs
    <3>3. task'[c].at = "failed" BY <1>2, <1>3, <2>1, PidSet, NoTaskIs DEF FailEarly
    <3> QED BY <3>2, <3>3
  <2>2. CASE task[c].at \notin {"mark", "group"}
    <3>1. /\ Only(c) /\ Same(task[c], task'[c])
          /\ task'[c].at = "failed" /\ task'[c].put = task[c].put
      BY <1>2, <1>3, <2>2, GoIs
    <3> QED BY <1>1, <2>2, <3>1 DEF Same, Onward, GoesOn, KindsOf, Deleting
  <2> QED BY <2>1, <2>2
<1>6. Still /\ Spent BY <1>3, Spending DEF Still, ThreadStep, KeepRecords
<1> QED BY <1>4, <1>5, <1>6 DEF Advances, Steady1

LEMMA DestroyAdvances ==
  ASSUME Typed, NEW c \in Records, Row(c), Destroy(c)
  PROVE  Advances(c)
<1>1. task[c].kind = "delete" /\ task[c].at = "destroy"
  <2>1. task[c].kind \in KindsOf(task[c].at) /\ task[c].at = "destroy"
    BY TaskIs DEF Destroy, At, Row
  <2> QED BY <2>1 DEF KindsOf
<1>2. /\ TaskOK /\ ProjectsOK /\ IdsOK /\ GroupsOK /\ PartsOK /\ RestOK /\ "release" \in Steps
      /\ ids \in Nat
  BY NoTaskIs DEF Typed, Steps, IdsOK
<1> DEFINE left == DeletedProject(Pid(c))
           others == DirectWithout(Pid(c))
           groups == DeletedGroup(task[c].gid)
<1>3. /\ left \in [Names -> Project] /\ \A n \in Names : left[n].id \in {0, project[n].id}
      /\ others \in [Names -> SUBSET Users]
      /\ DOMAIN groups = GroupNames /\ \A g \in GroupNames : Grouped(groups[g])
  BY <1>2, DeletedAre
<1>5. PICK kept \in SUBSET StatusParts(c) :
        parts' = Without(parts, StatusParts(c), kept)
  BY DEF Destroy
<1>6. /\ UNCHANGED events \/ Fault
      /\ group' \in {group, groups}
      /\ project' \in {project, left}
      /\ direct' \in {direct, others}
      /\ Go(c, "release")
      /\ ThreadStep
      /\ UNCHANGED <<keys, rules, known, ids>>
  BY DEF Destroy
<1> HIDE DEF left, others, groups
<1>7. ids' = ids + 0 BY <1>2, <1>6
<1>8. ProjectsOK' /\ ProjectsNamed(N(c))
  BY <1>2, <1>3, <1>6, <1>7, ProjectsKept, ProjectsStay
<1>9. PartsOK' BY <1>2, <1>5, WithoutAre DEF PartsOK
<1>10. GroupsOK' BY <1>2, <1>3, <1>6 DEF GroupsOK
<1>11. RestOK' BY <1>2, <1>3, <1>6 DEF RestOK
<1>12. CloudOK' BY <1>2, <1>6, <1>8, <1>9, <1>10, <1>11 DEF CloudOK, IdsOK
<1>13. Only(c) /\ Onward(task[c], task'[c])
  BY <1>1, <1>2, <1>6, GoIs DEF Same, Onward, GoesOn, KindsOf, Deleting
<1>14. Still /\ Spent BY <1>6, Spending DEF Still, ThreadStep, KeepRecords
<1> QED BY <1>1, <1>8, <1>12, <1>13, <1>14 DEF Advances, Steady1

LEMMA AdvancesKeep ==
  ASSUME Inv, NEW c \in Records, Advances(c), news' = news
  PROVE  Inv'
<1>1. Only(c) /\ Still /\ Spent /\ Onward(task[c], task'[c]) BY DEF Advances, Steady1
<1>2. cr[c].at # "absent" BY <1>1, Idle DEF Onward, GoesOn
<1>3. Listed(c) BY <1>1, <1>2 DEF Onward, GoesOn, N, Listed
<1> QED BY <1>1, <1>3, ThreadMoves DEF Advances, Onward

------------------------------------------------------------------------------
\* A step of one record to r, of its handler to s and of its timer to t; m is the
\* name for which an id is given out.
LEMMA RowMoves ==
  ASSUME Inv, NEW c \in Records, NEW r \in Record, NEW s \in Task, NEW t \in Tick, NEW m,
         cr' = [cr EXCEPT ![c] = r], task' = [task EXCEPT ![c] = s], tick' = [tick EXCEPT ![c] = t],
         UNCHANGED <<born, second, plan, loop, news>>, Spent,
         waived' \in {waived, waived \cup {c}, waived \ {c}},
         CloudOK', ProjectsNamed(m),
         Fits(r, s, t),
         r.at # "absent" =>
           /\ cr[c].at # "absent"
           /\ r.at = "live" => cr[c].at = "live"
           /\ r.stamp = cr[c].stamp /\ r.born = cr[c].born
           /\ ~r.renamed => ~cr[c].renamed /\ r.spec.name = cr[c].spec.name,
         Claims(r, s, t) =>
           \/ r.renamed
           \/ c \in waived'
           \/ Claims(cr[c], task[c], tick[c]) /\ c \notin waived
           \/ NoElder(c),
         s.at \in Deleting =>
           /\ cr[c].at # "absent" /\ s.spec.name = N(c)
           /\ \/ task[c].at \in Deleting /\ s.listed = task[c].listed
              \/ Duplicates(c, N(c)) = {} /\ s.listed = born,
         \A n, i : RowUses(r, s, t, n, i) => i = 0 \/ Uses(n, i) \/ Drawn(m, n, i),
         loop.at \in {"list", "collect"} /\ cr[c].pid = 0 /\ task[c].at = "idle" => r.pid = 0 /\ s.at = "idle"
  PROVE  Inv'
<1>1. Typed BY DEF Inv
<1>2. /\ cr' \in [Records -> Record] /\ cr'[c] = r /\ \A d \in Records \ {c} : cr'[d] = cr[d]
      /\ task' \in [Records -> Task] /\ task'[c] = s /\ \A d \in Records \ {c} : task'[d] = task[d]
      /\ tick' \in [Records -> Tick] /\ tick'[c] = t /\ \A d \in Records \ {c} : tick'[d] = tick[d]
  BY <1>1 DEF Typed, CrOK, TaskOK, TickOK
<1>3. events' \in 0..MaxEvents /\ events \in 0..MaxEvents /\ events <= events'
  BY <1>1, SpentIs, NoTaskIs DEF Typed, CountsOK, Spent
<1>4. Typed'
  BY <1>1, <1>2, <1>3 DEF Typed, CloudOK, CrOK, TaskOK, TickOK, LoopOK, CountsOK
<1>5. Clock
  <2>1. born \in Nat /\ second \in Nat /\ events' \in Nat /\ events \in Nat
    BY <1>1, <1>3, NoTaskIs DEF Typed, CountsOK
  <2> QED BY <1>3, <2>1 DEF Clock, Inv, AgeInv
<1>6. Row(c)' BY <1>2 DEF Row
<1>7. Aged(c) BY <1>2 DEF Aged
<1>8. Claimed(c) BY <1>2 DEF Claimed
<1>9. Listed(c)
  <2>1. N(c)' = s.spec.name BY <1>2 DEF N
  <2> QED BY <1>2, <2>1 DEF Listed
<1>10. Named2(m, c) BY <1>2 DEF Named2
<1>11. Carries(m, c) BY <1>6, <1>7, <1>8, <1>9, <1>10 DEF Carries
<1>12. Rests(c) BY <1>2 DEF Rests
<1>13. \A d \in Records \ {c} : Same1(d) /\ (d \in waived' <=> d \in waived) BY <1>2 DEF Same1
<1> QED BY <1>4, <1>5, <1>11, <1>12, <1>13, OneMoves

LEMMA CloudStays ==
  ASSUME Typed, UNCHANGED cloud
  PROVE  CloudOK' /\ \A m : ProjectsNamed(m)
BY RulesStep DEF cloud, Typed, RestOK

\* What is left as it is.
LEMMA AsItIs ==
  ASSUME Typed, NEW c \in Records
  PROVE  /\ cr = [cr EXCEPT ![c] = cr[c]] /\ task = [task EXCEPT ![c] = task[c]]
         /\ tick = [tick EXCEPT ![c] = tick[c]]
         /\ cr[c] \in Record /\ task[c] \in Task /\ tick[c] \in Tick
BY DEF Typed, CrOK, TaskOK, TickOK

LEMMA NoTickIs == NoTick \in Tick
BY NoTaskIs DEF NoTick, Tick, NoView

LEMMA NoRuns ==
  /\ NoTask.at = "idle" /\ NoTask.kind = "create" /\ NoTask.spec = NoWish /\ NoTask.put.pid = 0
  /\ NoTick.at = "idle" /\ NoTick.spec = NoWish /\ NoTick.pid = 0
BY DEF NoTask, NoTick, NoPut

\* A handler is given up without a patch.
LEMMA DroppedKeeps ==
  ASSUME Inv, NEW c \in Records, task[c].at # "idle", task' = [task EXCEPT ![c] = NoTask],
         ThreadStep, UNCHANGED cloud, UNCHANGED events \/ Fault, news' = news
  PROVE  Inv'
<1>1. Typed /\ Fits(cr[c], task[c], tick[c]) BY DEF Inv, LifeInv
<1>2. /\ cr' = [cr EXCEPT ![c] = cr[c]] /\ tick' = [tick EXCEPT ![c] = tick[c]]
      /\ cr[c] \in Record /\ tick[c] \in Tick
      /\ UNCHANGED <<born, second, plan, loop, news>> /\ waived' = waived
  BY <1>1, AsItIs DEF ThreadStep, KeepRecords
<1>3. CloudOK' /\ ProjectsNamed(N(c)) /\ Spent BY <1>1, CloudStays, Spending
<1>4. Fits(cr[c], NoTask, tick[c]) BY <1>1, NoRuns DEF Fits, Runs, Ticks, KindsOf
<1>5. Claims(cr[c], NoTask, tick[c]) => Claims(cr[c], task[c], tick[c])
  BY NoRuns DEF Claims, Runs
<1>6. \A n, i : RowUses(cr[c], NoTask, tick[c], n, i) => i = 0 \/ Uses(n, i)
  BY NoRuns DEF RowUses, Uses
<1>7. NoTask \in Task /\ NoTask.at = "idle" BY NoTaskIs, NoRuns
<1> QED BY <1>2, <1>3, <1>4, <1>5, <1>6, <1>7, RowMoves DEF Deleting

LEMMA ListForDeleteKeeps ==
  ASSUME Inv, NEW c \in Records, ListForDelete(c), news' = news
  PROVE  Inv'
<1>1. Typed /\ Row(c) /\ task[c].at = "list" BY DEF Inv, LifeInv, Row, ListForDelete, At
<1>2. CASE task' = [task EXCEPT ![c] = NoTask] /\ Fault
  BY <1>1, <1>2, DroppedKeeps DEF ListForDelete
<1>3. ASSUME task' = [task EXCEPT ![c].at = IF Duplicates(c, N(c)) = {} THEN "unmap" ELSE "release",
                                  ![c].listed = born],
             UNCHANGED events
      PROVE  Inv'
  <2>1. TaskOK /\ {"unmap", "release"} \subseteq Steps /\ born \in 0..MaxEvents /\ task[c].kind \in KindsOf(task[c].at)
    BY <1>1 DEF Typed, CountsOK, Steps, Row, Fits
  <2>2. /\ Only(c) /\ Same(task[c], task'[c]) /\ task'[c].put = task[c].put /\ task'[c].listed = born
        /\ task'[c].at = IF Duplicates(c, N(c)) = {} THEN "unmap" ELSE "release"
    <3> DEFINE a == IF Duplicates(c, N(c)) = {} THEN "unmap" ELSE "release"
    <3>1. a \in Steps BY <2>1
    <3>2. task' = [task EXCEPT ![c].at = a, ![c].listed = born] BY <1>3
    <3> HIDE DEF a
    <3>3. /\ Only(c) /\ Same(task[c], task'[c]) /\ task'[c].put = task[c].put /\ task'[c].listed = born
          /\ task'[c].at = a
      BY <2>1, <3>1, <3>2, ListedSet
    <3> QED BY <3>3 DEF a
  <2>3. GoesOn(task[c], task'[c])
    BY <1>1, <2>1, <2>2 DEF Same, GoesOn, KindsOf
  <2>4. Listed(c)
    <3>1. cr[c].at # "absent" BY <1>1, Idle
    <3>2. N(c)' = N(c) BY <2>2 DEF N, Same
    <3> QED BY <2>2, <3>1, <3>2 DEF Listed, Deleting
  <2>5. Still /\ Spent BY <1>3 DEF ListForDelete, Still, ThreadStep, KeepRecords, Spent
  <2>6. CloudOK' /\ ProjectsNamed(N(c)) BY <1>1, CloudStays DEF ListForDelete
  <2> QED BY <1>1, <2>2, <2>3, <2>4, <2>5, <2>6, ThreadMoves
<1> QED BY <1>2, <1>3 DEF ListForDelete, Unreferenced

LEMMA FailDeleteKeeps ==
  ASSUME Inv, NEW c \in Records, FailDelete(c), news' = news
  PROVE  Inv'
BY DroppedKeeps DEF FailDelete

\* kopf calls a handler: what it is given.
LEMMA BeginIs ==
  ASSUME Inv, NEW c \in Records, NEW kind \in {"create", "update", "delete"}, NEW step \in Steps,
         NEW gid \in 0..MaxIds, NEW put \in Put, cr[c].at # "absent", Begin(c, kind, step, gid, put)
  PROVE  \E r \in Record, s \in Task :
           /\ cr' = [cr EXCEPT ![c] = r] /\ task' = [task EXCEPT ![c] = s]
           /\ r.at = cr[c].at /\ r.born = cr[c].born /\ r.stamp = cr[c].stamp /\ r.spec = cr[c].spec
           /\ r.handled = cr[c].handled /\ r.phase = cr[c].phase /\ r.pid = cr[c].pid /\ r.held
           /\ r.renamed = cr[c].renamed
           /\ s.at = step /\ s.kind = kind /\ s.spec = cr[c].spec /\ s.old = cr[c].handled /\ s.put = put
<1>1. cr[c] \in Record /\ DOMAIN cr = Records /\ NoTask \in Task BY NoTaskIs DEF Inv, Typed, CrOK
<1>2. PICK yes \in BOOLEAN : yes = TRUE OBVIOUS
<1> DEFINE r == [cr[c] EXCEPT !.held = yes]
           s == [NoTask EXCEPT !.at = step, !.kind = kind, !.spec = cr[c].spec,
                               !.old = cr[c].handled, !.gid = gid, !.put = put]
<1>3. cr' = [cr EXCEPT ![c] = r] /\ task' = [task EXCEPT ![c] = s] BY <1>1, <1>2 DEF Begin
<1>4. /\ r \in Record
      /\ r.at = cr[c].at /\ r.born = cr[c].born /\ r.stamp = cr[c].stamp /\ r.spec = cr[c].spec
      /\ r.handled = cr[c].handled /\ r.phase = cr[c].phase /\ r.pid = cr[c].pid /\ r.held
      /\ r.renamed = cr[c].renamed
  BY <1>1, <1>2 DEF Record
<1>5. s \in Task /\ s.at = step /\ s.kind = kind /\ s.spec = cr[c].spec /\ s.old = cr[c].handled /\ s.put = put
  BY <1>1 DEF Task, Put, PartsOf, Record
<1> HIDE DEF r, s
<1> QED BY <1>3, <1>4, <1>5

LEMMA StatusIs ==
  ASSUME Typed, NEW c \in Records
  PROVE  /\ StatusOf(c) \in Put /\ StatusOf(c).pid = cr[c].pid /\ cr[c].gid \in 0..MaxIds
         /\ [StatusOf(c) EXCEPT !.pid = 0, !.gid = 0] \in Put
         /\ [StatusOf(c) EXCEPT !.pid = 0, !.gid = 0].pid = 0
         /\ \A j \in 0..MaxIds :
              /\ [StatusOf(c) EXCEPT !.gid = j] \in Put
              /\ [StatusOf(c) EXCEPT !.gid = j].pid = cr[c].pid
<1>1. cr[c] \in Record BY DEF Typed, CrOK
<1>2. cr[c].pid \in 0..MaxIds /\ cr[c].gid \in 0..MaxIds /\ cr[c].parts \in PartsOf BY <1>1 DEF Record, PartsOf
<1>3. StatusOf(c) \in Put /\ StatusOf(c).pid = cr[c].pid BY <1>2 DEF StatusOf, Put
<1>4. 0 \in 0..MaxIds BY NoTaskIs
<1>5. ASSUME NEW p \in Put, NEW i \in 0..MaxIds, NEW j \in 0..MaxIds
      PROVE  /\ [p EXCEPT !.pid = i, !.gid = j] \in Put /\ [p EXCEPT !.pid = i, !.gid = j].pid = i
             /\ [p EXCEPT !.gid = j] \in Put /\ [p EXCEPT !.gid = j].pid = p.pid
  BY <1>5 DEF Put
<1>6. [StatusOf(c) EXCEPT !.pid = 0, !.gid = 0] \in Put /\ [StatusOf(c) EXCEPT !.pid = 0, !.gid = 0].pid = 0
  <2> DEFINE p == StatusOf(c)
  <2>1. p \in Put BY <1>3
  <2> HIDE DEF p
  <2>2. [p EXCEPT !.pid = 0, !.gid = 0] \in Put /\ [p EXCEPT !.pid = 0, !.gid = 0].pid = 0
    BY <1>4, <2>1 DEF Put
  <2> QED BY <2>2 DEF p
<1> QED BY <1>2, <1>3, <1>5, <1>6

LEMMA BeginKeeps ==
  ASSUME Inv, NEW c \in Records, StartCreate(c) \/ StartUpdate(c) \/ StartDelete(c), news' = news
  PROVE  Inv'
<1>1. Typed /\ Fits(cr[c], task[c], tick[c]) /\ cr[c].at # "absent" /\ GroupsOK
  BY DEF Inv, LifeInv, StartCreate, StartUpdate, StartDelete, Live, Typed
<1>2. /\ tick' = [tick EXCEPT ![c] = tick[c]] /\ tick[c] \in Tick
      /\ cr[c] \in Record /\ cr[c].spec \in Wish /\ cr[c].spec.name \in Names
  <2>1. cr[c].spec \in Wish BY <1>1 DEF Fits
  <2>2. tick' = tick BY DEF StartCreate, StartUpdate, StartDelete, Begin
  <2> QED BY <1>1, <2>1, <2>2, AsItIs DEF Wish
<1>3. /\ task[c].at = "idle" /\ loop.at = "idle" /\ UNCHANGED <<cloud, born, second, plan, events, loop, waived, news>>
  BY DEF StartCreate, StartUpdate, StartDelete, Begin, LoopFree
<1>4. \E kind \in {"create", "update", "delete"}, step \in Steps, gid \in 0..MaxIds, put \in Put :
        /\ Begin(c, kind, step, gid, put)
        /\ \/ /\ kind = "create" /\ step = "claim" /\ put.pid = 0
              /\ cr[c].handled = NoWish \/ cr[c].pid = 0
           \/ /\ kind = "update" /\ step = "tag" /\ put.pid = cr[c].pid
              /\ cr[c].pid # 0 /\ cr[c].handled # NoWish
           \/ /\ kind = "delete" /\ step \in {"release", "list"} /\ put.pid = cr[c].pid
              /\ step = "list" => cr[c].pid # 0
  <2>1. CASE StartCreate(c)
    <3>1. Begin(c, "create", "claim", 0, [StatusOf(c) EXCEPT !.pid = 0, !.gid = 0]) BY <2>1 DEF StartCreate
    <3>2. /\ [StatusOf(c) EXCEPT !.pid = 0, !.gid = 0] \in Put
          /\ [StatusOf(c) EXCEPT !.pid = 0, !.gid = 0].pid = 0
      BY <1>1, StatusIs
    <3>3. "claim" \in Steps /\ 0 \in 0..MaxIds BY NoTaskIs DEF Steps
    <3> QED BY <2>1, <3>1, <3>2, <3>3 DEF StartCreate
  <2>2. CASE StartUpdate(c)
    <3> DEFINE g == ResolvedGroup(cr[c].spec.name, cr[c].gid)
               j == IF ResolvedGroup(cr[c].spec.name, StatusOf(c).gid) = 0 THEN StatusOf(c).gid
                    ELSE ResolvedGroup(cr[c].spec.name, StatusOf(c).gid)
    <3>1. Begin(c, "update", "tag", g, [StatusOf(c) EXCEPT !.gid = j]) BY <2>2 DEF StartUpdate
    <3>2. StatusOf(c).gid \in 0..MaxIds BY <1>1, StatusIs DEF Put
    <3>3. group[make_group_name(cr[c].spec.name)].id \in 0..MaxIds BY <1>1, <1>2, GroupOfName
    <3>7. \A i \in 0..MaxIds : ResolvedGroup(cr[c].spec.name, i) \in 0..MaxIds BY <3>3 DEF ResolvedGroup
    <3>4. g \in 0..MaxIds /\ j \in 0..MaxIds
      <4>1. cr[c].gid \in 0..MaxIds BY <1>1, StatusIs
      <4> QED BY <3>2, <3>7, <4>1
    <3> HIDE DEF g, j
    <3>5. [StatusOf(c) EXCEPT !.gid = j] \in Put /\ [StatusOf(c) EXCEPT !.gid = j].pid = cr[c].pid
      BY <1>1, <3>4, StatusIs
    <3>6. "tag" \in Steps BY DEF Steps
    <3> QED BY <2>2, <3>1, <3>4, <3>5, <3>6 DEF StartUpdate
  <2>3. CASE StartDelete(c)
    <3>1. Begin(c, "delete", IF cr[c].pid = 0 THEN "release" ELSE "list", cr[c].gid, StatusOf(c))
      BY <2>3 DEF StartDelete
    <3>2. StatusOf(c) \in Put /\ StatusOf(c).pid = cr[c].pid /\ cr[c].gid \in 0..MaxIds BY <1>1, StatusIs
    <3>3. {"release", "list"} \subseteq Steps BY DEF Steps
    <3> QED BY <3>1, <3>2, <3>3
  <2> QED BY <2>1, <2>2, <2>3
<1>5. PICK kind \in {"create", "update", "delete"}, step \in Steps, gid \in 0..MaxIds, put \in Put :
        /\ Begin(c, kind, step, gid, put)
        /\ \/ /\ kind = "create" /\ step = "claim" /\ put.pid = 0
              /\ cr[c].handled = NoWish \/ cr[c].pid = 0
           \/ /\ kind = "update" /\ step = "tag" /\ put.pid = cr[c].pid
              /\ cr[c].pid # 0 /\ cr[c].handled # NoWish
           \/ /\ kind = "delete" /\ step \in {"release", "list"} /\ put.pid = cr[c].pid
              /\ step = "list" => cr[c].pid # 0
  BY <1>4
<1>6. PICK r \in Record, s \in Task :
           /\ cr' = [cr EXCEPT ![c] = r] /\ task' = [task EXCEPT ![c] = s]
           /\ r.at = cr[c].at /\ r.born = cr[c].born /\ r.stamp = cr[c].stamp /\ r.spec = cr[c].spec
           /\ r.handled = cr[c].handled /\ r.phase = cr[c].phase /\ r.pid = cr[c].pid /\ r.held
           /\ r.renamed = cr[c].renamed
           /\ s.at = step /\ s.kind = kind /\ s.spec = cr[c].spec /\ s.old = cr[c].handled /\ s.put = put
  BY <1>1, <1>5, BeginIs
<1>7. /\ step \notin Deleting \cup {"idle"} /\ kind \in KindsOf(step)
  BY <1>5 DEF Deleting, KindsOf
<1>8. Fits(r, s, tick[c])
  <2>1. cr[c].handled # NoWish => cr[c].handled \in Wish BY <1>2 DEF Record
  <2>2. Runs(s, "create") => kind = "create" BY <1>6 DEF Runs
  <2>3. Runs(s, "update") => kind = "update" BY <1>6 DEF Runs
  <2>4. Ticks(tick[c]) => kind # "create" BY <1>1, <1>5 DEF Fits
  <2>5. kind = "create" => r.phase # "Ready" BY <1>1, <1>5, <1>6 DEF Fits
  <2> QED BY <1>1, <1>2, <1>5, <1>6, <1>7, <2>1, <2>2, <2>3, <2>4, <2>5 DEF Fits, Runs
<1>9. Claims(r, s, tick[c]) => Claims(cr[c], task[c], tick[c])
  BY <1>5, <1>6 DEF Claims, Runs
<1>10. \A n, i : RowUses(r, s, tick[c], n, i) => i = 0 \/ Uses(n, i)
  BY <1>5, <1>6 DEF RowUses, Uses
<1>11. CloudOK' /\ ProjectsNamed(N(c)) /\ Spent BY <1>1, <1>3, CloudStays DEF Spent
<1> QED BY <1>1, <1>2, <1>3, <1>6, <1>7, <1>8, <1>9, <1>10, <1>11, RowMoves

\* find_project_owner_cr: nobody who lives is older, or nobody could be listed.
LEMMA ClaimKeeps ==
  ASSUME Inv, NEW c \in Records, Claim(c), news' = news
  PROVE  Inv'
<1>1. Typed /\ Fits(cr[c], task[c], tick[c]) /\ task[c].at = "claim" /\ task[c] \in Task
  BY DEF Inv, LifeInv, Claim, At, Typed, TaskOK
<1>2. /\ task[c].kind = "create" /\ task[c].put.pid = 0 /\ cr[c].at # "absent"
      /\ cr[c].spec \in Wish /\ (cr[c].renamed \/ N(c) = cr[c].spec.name)
      /\ cr[c].handled = NoWish \/ cr[c].pid = 0
      /\ tick[c].at = "idle"
  BY <1>1, Idle DEF Fits, KindsOf, Runs, N, Ticks
<1>3. \E a \in {"project", "failed"} :
        /\ Go(c, a)
        /\ a = "project" => c \in waived' \/ Owners(c, N(c)) = {}
        /\ waived' \in {waived \ {c}, waived \cup {c}}
        /\ UNCHANGED events \/ Fault
  BY DEF Claim
<1>4. PICK a \in {"project", "failed"} :
        /\ Go(c, a)
        /\ a = "project" => c \in waived' \/ Owners(c, N(c)) = {}
        /\ waived' \in {waived \ {c}, waived \cup {c}}
        /\ UNCHANGED events \/ Fault
  BY <1>3
<1>5. /\ cr' = [cr EXCEPT ![c] = cr[c]] /\ tick' = [tick EXCEPT ![c] = tick[c]]
      /\ cr[c] \in Record /\ tick[c] \in Tick
      /\ UNCHANGED <<born, second, plan, loop, news>>
  BY <1>1, AsItIs DEF Claim, KeepRecords
<1>6. CloudOK' /\ ProjectsNamed(N(c)) /\ Spent BY <1>1, <1>4, CloudStays, Spending DEF Claim
<1> DEFINE s == task'[c]
<1>7. /\ task' = [task EXCEPT ![c] = s] /\ s \in Task /\ Same(task[c], s)
      /\ s.at = a /\ s.put = task[c].put
  <2>1. TaskOK /\ {"project", "failed"} \subseteq Steps BY <1>1 DEF Typed, Steps
  <2> QED BY <1>4, <2>1, GoIs DEF Only
<1> HIDE DEF s
<1>8. Fits(cr[c], s, tick[c])
  BY <1>1, <1>2, <1>4, <1>7 DEF Fits, Same, Runs, Ticks, KindsOf
<1>9. a = "project" => cr[c].renamed \/ c \in waived' \/ NoElder(c)
  <2> SUFFICES ASSUME ~cr[c].renamed, Owners(c, N(c)) = {}, NEW d \in Records \ {c}, Live(d), cr[d].spec.name = cr[c].spec.name
               PROVE  cr[c].stamp <= cr[d].stamp
    BY <1>4 DEF NoElder
  <2>1. d \in Duplicates(c, N(c)) /\ cr[d].at # "deleting" BY <1>2 DEF Duplicates, Named, Present, Live
  <2>2. ~Precedes(d, c) BY <2>1 DEF Owners
  <2>3. cr[c].stamp \in Nat /\ cr[d].stamp \in Nat BY <1>1, NoTaskIs DEF Typed, CrOK, Record
  <2> QED BY <2>2, <2>3 DEF Precedes
<1>10. Claims(cr[c], s, tick[c]) => cr[c].renamed \/ c \in waived' \/ NoElder(c)
  <2>1. Claims(cr[c], s, tick[c]) => a = "project"
    BY <1>2, <1>4, <1>7 DEF Claims, Runs, Ticks, Same
  <2> QED BY <1>9, <2>1
<1>11. \A n, i : RowUses(cr[c], s, tick[c], n, i) => i = 0 \/ Uses(n, i)
  BY <1>7 DEF RowUses, Uses, Same
<1>12. s.at \notin Deleting /\ waived' \in {waived, waived \cup {c}, waived \ {c}}
  BY <1>4, <1>7 DEF Deleting
<1> QED BY <1>1, <1>2, <1>5, <1>6, <1>7, <1>8, <1>10, <1>11, <1>12, RowMoves

LEMMA PatchedIs ==
  ASSUME Typed, NEW c \in Records, NEW phase \in Phases
  PROVE  LET r == Patched(c, phase)
         IN /\ r \in Record /\ r.at = cr[c].at /\ r.born = cr[c].born /\ r.stamp = cr[c].stamp
            /\ r.spec = cr[c].spec /\ r.handled = cr[c].handled /\ r.held = cr[c].held /\ r.phase = phase
            /\ r.pid = IF Pid(c) = 0 THEN cr[c].pid ELSE Pid(c)
            /\ r.renamed = cr[c].renamed
<1>1. cr[c] \in Record /\ task[c] \in Task /\ task[c].put \in Put BY TaskFields DEF Typed, CrOK
<1> DEFINE p == IF Pid(c) = 0 THEN cr[c].pid ELSE Pid(c)
           g == IF task[c].put.gid = 0 THEN cr[c].gid ELSE task[c].put.gid
           q == task[c].put.parts
           r == [cr[c] EXCEPT !.phase = phase, !.parts = q, !.pid = p, !.gid = g]
<1>2. p \in 0..MaxIds /\ g \in 0..MaxIds /\ q \in [Kinds -> 0..MaxIds] BY <1>1 DEF Put, Record, Pid, PartsOf
<1>3. Patched(c, phase) = r BY <1>1 DEF Patched, Record
<1> HIDE DEF p, g, q
<1>4. /\ r \in Record /\ r.at = cr[c].at /\ r.born = cr[c].born /\ r.stamp = cr[c].stamp
      /\ r.spec = cr[c].spec /\ r.handled = cr[c].handled /\ r.held = cr[c].held /\ r.phase = phase
      /\ r.pid = p /\ r.renamed = cr[c].renamed
  BY <1>1, <1>2 DEF Record
<1> HIDE DEF r
<1> QED BY <1>3, <1>4 DEF p

LEMMA HandledIs ==
  ASSUME NEW r \in Record, NEW w \in Wish
  PROVE  LET q == [r EXCEPT !.handled = w]
         IN /\ q \in Record /\ q.at = r.at /\ q.born = r.born /\ q.stamp = r.stamp
            /\ q.spec = r.spec /\ q.handled = w /\ q.held = r.held /\ q.phase = r.phase /\ q.pid = r.pid
            /\ q.renamed = r.renamed
BY DEF Record

LEMMA PatchKeeps ==
  ASSUME Inv, NEW c \in Records, PatchReady(c) \/ PatchError(c), news' = news
  PROVE  Inv'
<1>1. Typed /\ Fits(cr[c], task[c], tick[c]) /\ task[c].at \in {"ready", "failed"} /\ task[c] \in Task
  BY DEF Inv, LifeInv, PatchReady, PatchError, At, Typed, TaskOK
<1>2. /\ task[c].kind \in {"create", "update"} /\ task[c].spec \in Wish /\ cr[c].at # "absent"
      /\ (cr[c].renamed \/ task[c].spec.name = cr[c].spec.name) /\ cr[c].held
      /\ task[c].at = "ready" => Pid(c) # 0
      /\ cr[c] \in Record /\ Pid(c) \in 0..MaxIds
  BY <1>1, Idle, AsItIs DEF Fits, KindsOf, Runs, Pid, Task
<1>3. \E r \in Record :
        /\ cr' = [cr EXCEPT ![c] = r]
        /\ r.at = cr[c].at /\ r.born = cr[c].born /\ r.stamp = cr[c].stamp /\ r.spec = cr[c].spec
        /\ r.held = cr[c].held /\ r.renamed = cr[c].renamed
        /\ r.pid = IF Pid(c) = 0 THEN cr[c].pid ELSE Pid(c)
        /\ \/ task[c].at = "ready" /\ r.phase = "Ready" /\ r.handled = task[c].spec
           \/ task[c].at = "failed" /\ r.phase = "Error" /\ r.handled = cr[c].handled
  <2>1. CASE PatchReady(c)
    <3> DEFINE r == Patched(c, "Ready")
               q == [r EXCEPT !.handled = task[c].spec]
    <3>1. "Ready" \in Phases BY DEF Phases
    <3>2. cr' = [cr EXCEPT ![c] = q] /\ task[c].at = "ready" BY <2>1 DEF PatchReady, At
    <3>3. /\ r \in Record /\ r.at = cr[c].at /\ r.born = cr[c].born
          /\ r.stamp = cr[c].stamp /\ r.spec = cr[c].spec /\ r.held = cr[c].held /\ r.phase = "Ready"
          /\ r.pid = IF Pid(c) = 0 THEN cr[c].pid ELSE Pid(c)
          /\ r.renamed = cr[c].renamed
      BY <1>1, <3>1, PatchedIs
    <3> HIDE DEF r
    <3>4. /\ q \in Record /\ q.at = r.at /\ q.born = r.born /\ q.stamp = r.stamp
          /\ q.spec = r.spec /\ q.handled = task[c].spec /\ q.held = r.held /\ q.phase = r.phase /\ q.pid = r.pid
          /\ q.renamed = r.renamed
      BY <1>2, <3>3, HandledIs
    <3> HIDE DEF q
    <3> QED BY <3>2, <3>3, <3>4
  <2>2. CASE PatchError(c)
    <3> DEFINE r == Patched(c, "Error")
    <3>1. "Error" \in Phases BY DEF Phases
    <3>2. cr' = [cr EXCEPT ![c] = r] /\ task[c].at = "failed" BY <2>2 DEF PatchError, At
    <3>3. /\ r \in Record /\ r.at = cr[c].at /\ r.born = cr[c].born
          /\ r.stamp = cr[c].stamp /\ r.spec = cr[c].spec /\ r.handled = cr[c].handled
          /\ r.held = cr[c].held /\ r.phase = "Error"
          /\ r.pid = IF Pid(c) = 0 THEN cr[c].pid ELSE Pid(c)
          /\ r.renamed = cr[c].renamed
      BY <1>1, <3>1, PatchedIs
    <3> HIDE DEF r
    <3> QED BY <3>2, <3>3
  <2> QED BY <2>1, <2>2
<1>4. PICK r \in Record :
        /\ cr' = [cr EXCEPT ![c] = r]
        /\ r.at = cr[c].at /\ r.born = cr[c].born /\ r.stamp = cr[c].stamp /\ r.spec = cr[c].spec
        /\ r.held = cr[c].held /\ r.renamed = cr[c].renamed
        /\ r.pid = IF Pid(c) = 0 THEN cr[c].pid ELSE Pid(c)
        /\ \/ task[c].at = "ready" /\ r.phase = "Ready" /\ r.handled = task[c].spec
           \/ task[c].at = "failed" /\ r.phase = "Error" /\ r.handled = cr[c].handled
  BY <1>3
<1>5. /\ task' = [task EXCEPT ![c] = NoTask] /\ NoTask \in Task
      /\ tick' = [tick EXCEPT ![c] = tick[c]] /\ tick[c] \in Tick
      /\ UNCHANGED <<born, second, plan, loop, news, events, cloud>> /\ waived' = waived
  BY <1>1, AsItIs, NoTaskIs DEF PatchReady, PatchError
<1>6. CloudOK' /\ ProjectsNamed(N(c)) /\ Spent BY <1>1, <1>5, CloudStays DEF Spent
<1>7. task[c].spec # NoWish
  BY <1>2, CloudAssumption DEF Wish, NoWish
<1>8. Fits(r, NoTask, tick[c])
  <2>1. r.spec \in Wish BY <1>1, <1>2, <1>4 DEF Fits
  <2>2. Ticks(tick[c]) => r.pid # 0 /\ r.handled # NoWish BY <1>1, <1>4, <1>7 DEF Fits
  <2>3. r.phase = "Ready" => r.pid # 0 /\ r.handled # NoWish BY <1>2, <1>4, <1>7
  <2> QED BY <1>1, <1>2, <1>4, <2>1, <2>2, <2>3, NoRuns DEF Fits, Runs, KindsOf
<1>9. Claims(r, NoTask, tick[c]) => Claims(cr[c], task[c], tick[c])
  BY <1>1, <1>2, <1>4, NoRuns DEF Claims, Runs, Fits, Pid
<1>10. \A n, i : RowUses(r, NoTask, tick[c], n, i) => i = 0 \/ Uses(n, i)
  BY <1>2, <1>4, NoRuns DEF RowUses, Uses, Pid
<1>11. NoTask.at \notin Deleting /\ task[c].at # "idle" BY <1>1, NoRuns DEF Deleting
<1> QED BY <1>2, <1>4, <1>5, <1>6, <1>8, <1>9, <1>10, <1>11, RowMoves

LEMMA ReleaseKeeps ==
  ASSUME Inv, NEW c \in Records, ReleaseRecord(c), news' = news
  PROVE  Inv'
<1>1. Typed /\ tick[c].at = "idle" /\ task[c].at = "release" /\ Fits(cr[c], task[c], tick[c])
  BY DEF Inv, LifeInv, ReleaseRecord, At, TickAt
<1>2. /\ cr' = [cr EXCEPT ![c] = Absent] /\ task' = [task EXCEPT ![c] = NoTask]
      /\ tick' = [tick EXCEPT ![c] = NoTick] /\ NoTick \in Tick /\ NoTask \in Task /\ Absent \in Record
      /\ UNCHANGED <<born, second, plan, loop, news, events, cloud>> /\ waived' = waived \ {c}
  BY <1>1, AsItIs, AbsentIs, NoTaskIs, NoTickIs DEF ReleaseRecord, Fits, Ticks
<1>3. CloudOK' /\ ProjectsNamed(N(c)) /\ Spent BY <1>1, <1>2, CloudStays DEF Spent
<1>4. Fits(Absent, NoTask, NoTick) /\ ~Claims(Absent, NoTask, NoTick)
  BY NoRuns, AbsentIs DEF Fits, Claims, Runs, Ticks, KindsOf
<1>5. \A n, i : RowUses(Absent, NoTask, NoTick, n, i) => i = 0 BY NoRuns, AbsentIs DEF RowUses
<1>6. Absent.at = "absent" /\ NoTask.at = "idle" /\ Absent.pid = 0 BY NoRuns, AbsentIs
<1> QED BY <1>2, <1>3, <1>4, <1>5, <1>6, RowMoves DEF Deleting

------------------------------------------------------------------------------
\* The timer.
Timing == {"check", "lost", "moved", "bind", "map", "write", "end"}

LEMMA TickGoes ==
  ASSUME Typed, NEW c \in Records, NEW a \in Timing,
         TickGo(c, a)
  PROVE  \E t \in Tick : tick' = [tick EXCEPT ![c] = t] /\ t.at = a /\ t.pid = tick[c].pid /\ t.spec = tick[c].spec
<1> DEFINE t == [tick[c] EXCEPT !.at = a]
<1>1. tick[c] \in Tick /\ DOMAIN tick = Records BY DEF Typed, TickOK
<1>2. t \in Tick /\ t.at = a /\ t.pid = tick[c].pid /\ t.spec = tick[c].spec BY <1>1 DEF Tick, Timing
<1>3. tick' = [tick EXCEPT ![c] = t] BY <1>1 DEF TickGo
<1> HIDE DEF t
<1> QED BY <1>2, <1>3

LEMMA TickGrouped ==
  ASSUME Typed, NEW c \in Records, NEW a \in Timing, NEW g \in 0..MaxIds,
         tick' = [tick EXCEPT ![c].at = a, ![c].gid = g]
  PROVE  \E t \in Tick : tick' = [tick EXCEPT ![c] = t] /\ t.at = a /\ t.pid = tick[c].pid /\ t.spec = tick[c].spec
<1> DEFINE t == [tick[c] EXCEPT !.at = a, !.gid = g]
<1>1. tick[c] \in Tick /\ DOMAIN tick = Records BY DEF Typed, TickOK
<1>2. t \in Tick /\ t.at = a /\ t.pid = tick[c].pid /\ t.spec = tick[c].spec BY <1>1 DEF Tick, Timing
<1>3. tick' = [tick EXCEPT ![c] = t] BY <1>1 DEF TickGo
<1> HIDE DEF t
<1> QED BY <1>2, <1>3

Moves(c, i, g) == tick' = [tick EXCEPT ![c].at = "moved", ![c].pid = i, ![c].gid = g]
LEMMA TickFound ==
  ASSUME Typed, NEW c \in Records, NEW i \in 0..MaxIds, NEW g \in 0..MaxIds, Moves(c, i, g)
  PROVE  \E t \in Tick : /\ tick' = [tick EXCEPT ![c] = t]
                         /\ t.at = "moved" /\ t.pid = i /\ t.spec = tick[c].spec
<1> DEFINE t == [tick[c] EXCEPT !.at = "moved", !.pid = i, !.gid = g]
<1>1. tick[c] \in Tick /\ DOMAIN tick = Records BY DEF Typed, TickOK
<1>2. t \in Tick /\ t.at = "moved" /\ t.pid = i /\ t.spec = tick[c].spec BY <1>1 DEF Tick
<1>3. tick' = [tick EXCEPT ![c] = t] BY <1>1 DEF Moves
<1> HIDE DEF t
<1> QED BY <1>2, <1>3

LEMMA TickViewed ==
  ASSUME Typed, NEW c \in Records, NEW a \in Timing, NEW v \in [GroupNames -> SUBSET Users],
         tick' = [tick EXCEPT ![c].at = a, ![c].view = v]
  PROVE  \E t \in Tick : tick' = [tick EXCEPT ![c] = t] /\ t.at = a /\ t.pid = tick[c].pid /\ t.spec = tick[c].spec
<1> DEFINE t == [tick[c] EXCEPT !.at = a, !.view = v]
<1>1. tick[c] \in Tick /\ DOMAIN tick = Records BY DEF Typed, TickOK
<1>2. t \in Tick /\ t.at = a /\ t.pid = tick[c].pid /\ t.spec = tick[c].spec BY <1>1 DEF Tick, Timing
<1>3. tick' = [tick EXCEPT ![c] = t] BY <1>1 DEF TickGo
<1> HIDE DEF t
<1> QED BY <1>2, <1>3

\* The timer goes on, with the id of its record or of the project that it has found.
TickOn(c, t) ==
  /\ tick' = [tick EXCEPT ![c] = t]
  /\ tick[c].at # "idle" /\ t.at # "idle" /\ t.spec = tick[c].spec
  /\ \/ t.pid = tick[c].pid /\ t.at # "moved"
     \/ t.pid = project[t.spec.name].id /\ t.pid # 0

LEMMA TickOnKeeps ==
  ASSUME Inv, NEW c \in Records, NEW t \in Tick, TickOn(c, t), TickStep, CloudOK', ProjectsNamed(T(c).name),
         UNCHANGED events \/ Fault, news' = news
  PROVE  Inv'
<1>1. Typed /\ Fits(cr[c], task[c], tick[c]) BY DEF Inv, LifeInv
<1>2. tick[c].spec \in Wish /\ T(c).name \in Names /\ cr[c].at # "absent"
  BY <1>1, Idle DEF TickOn, Fits, Ticks, Wish, T
<1>3. /\ cr' = [cr EXCEPT ![c] = cr[c]] /\ task' = [task EXCEPT ![c] = task[c]]
      /\ cr[c] \in Record /\ task[c] \in Task
      /\ UNCHANGED <<born, second, plan, loop, news>> /\ waived' = waived
      /\ tick' = [tick EXCEPT ![c] = t]
  BY <1>1, AsItIs DEF TickStep, KeepRecords, TickOn
<1>4. Spent BY <1>1, Spending
<1>5. Fits(cr[c], task[c], t)
  <2>1. Ticks(tick[c]) /\ Ticks(t) /\ t.spec = tick[c].spec BY DEF TickOn, Ticks
  <2>2. t.at = "moved" => t.pid # 0 BY DEF TickOn
  <2> QED BY <1>1, <2>1, <2>2 DEF Fits, Ticks
<1>6. Claims(cr[c], task[c], t) => Claims(cr[c], task[c], tick[c]) BY DEF Claims, TickOn, Ticks
<1>7. \A n, i : RowUses(cr[c], task[c], t, n, i) => i = 0 \/ Uses(n, i)
  <2>1. t.spec = T(c) BY DEF TickOn, T
  <2>2. t.pid = tick[c].pid \/ t.pid = project[T(c).name].id BY <2>1 DEF TickOn
  <2> QED BY <1>2, <2>1, <2>2 DEF RowUses, Uses, T
<1>8. task[c].at \in Deleting =>
        task[c].spec.name = N(c) /\ task[c].listed = task[c].listed
  BY DEF N
<1>9. CASE c \in waived
  BY <1>1, <1>2, <1>3, <1>4, <1>5, <1>6, <1>7, <1>8, <1>9, RowMoves
<1>10. CASE c \notin waived
  BY <1>1, <1>2, <1>3, <1>4, <1>5, <1>6, <1>7, <1>8, <1>10, RowMoves
<1> QED BY <1>9, <1>10

LEMMA CheckKeeps ==
  ASSUME Inv, NEW c \in Records, Check(c), news' = news
  PROVE  Inv'
<1>1. /\ Typed /\ Fits(cr[c], task[c], tick[c]) /\ tick[c].at = "check" /\ tick[c] \in Tick
      /\ ProjectsOK /\ GroupsOK /\ RestOK
  BY DEF Inv, LifeInv, Check, TickAt, Typed, TickOK
<1>2. /\ T(c) \in Wish /\ T(c).name \in Names /\ tick[c].pid \in 0..MaxIds /\ tick[c].gid \in 0..MaxIds
      /\ tick[c].view \in [GroupNames -> SUBSET Users]
      /\ project[T(c).name].id \in 0..MaxIds /\ group[make_group_name(T(c).name)].id \in 0..MaxIds
  <2>1. T(c) \in Wish BY <1>1 DEF Fits, Ticks, T
  <2>2. T(c).name \in Names BY <2>1 DEF Wish
  <2>3. tick[c].pid \in 0..MaxIds /\ tick[c].gid \in 0..MaxIds /\ tick[c].view \in [GroupNames -> SUBSET Users]
    BY <1>1 DEF Tick
  <2> QED BY <1>1, <2>1, <2>2, <2>3, GroupOfName DEF ProjectsOK, Project
<1>3. \E t \in Tick : TickOn(c, t)
  <2>1. CASE TickGo(c, "lost") \/ TickGo(c, "bind")
    <3>1. PICK a \in {"lost", "bind"} : TickGo(c, a) BY <2>1
    <3>2. a \in Timing BY DEF Timing
    <3>3. PICK t \in Tick : /\ tick' = [tick EXCEPT ![c] = t]
                            /\ t.at = a /\ t.pid = tick[c].pid /\ t.spec = tick[c].spec
      BY <1>1, <3>1, <3>2, TickGoes
    <3> QED BY <1>1, <3>1, <3>3 DEF TickOn
  <2>2. CASE /\ tick' = [tick EXCEPT ![c].at = "moved", ![c].pid = project[T(c).name].id,
                                     ![c].gid = group[make_group_name(T(c).name)].id]
             /\ Exists(T(c).name)
    <3>1. PICK t \in Tick : /\ tick' = [tick EXCEPT ![c] = t]
                            /\ t.at = "moved" /\ t.pid = project[T(c).name].id /\ t.spec = tick[c].spec
      BY <1>1, <1>2, <2>2, TickFound DEF Moves
    <3> QED BY <1>1, <2>2, <3>1 DEF TickOn, Exists, T
  <2> QED BY <2>1, <2>2 DEF Check
<1>4. /\ TickStep /\ UNCHANGED <<project, group, direct, parts, rules, known, ids>>
      /\ UNCHANGED events \/ Fault
      /\ keys' = keys \/ (keys' = keys \cup {tick[c].pid} /\ Exists(T(c).name) /\ project[T(c).name].id = tick[c].pid)
  BY DEF Check
<1>5. keys' \subseteq 1..MaxIds
  <2>1. project[T(c).name].id # 0 => project[T(c).name].id \in 1..MaxIds BY <1>2, CloudAssumption
  <2>2. keys \subseteq 1..MaxIds BY <1>1 DEF RestOK
  <2> QED BY <1>4, <2>1, <2>2 DEF Exists
<1>6. CloudOK' /\ ProjectsNamed(T(c).name)
  <2>1. IdsOK /\ ids \in Nat BY <1>1, NoTaskIs DEF Typed, IdsOK
  <2>2. ids' = ids + 0 BY <1>4, <2>1
  <2>3. ProjectsOK' /\ ProjectsNamed(T(c).name) BY <1>1, <1>4, <2>1, <2>2, ProjectsStay
  <2> QED BY <1>1, <1>4, <1>5, <2>3 DEF CloudOK, Typed, GroupsOK, PartsOK, RestOK, IdsOK
<1> QED BY <1>3, <1>4, <1>6, TickOnKeeps

LEMMA TickWorkKeeps ==
  ASSUME Inv, NEW c \in Records, TickBind(c) \/ TickReadRules(c) \/ TickWriteRules(c) \/ FailTick(c), news' = news
  PROVE  Inv'
<1>1. /\ Typed /\ Fits(cr[c], task[c], tick[c]) /\ tick[c].at \in {"check", "bind", "map", "write"}
      /\ tick[c] \in Tick
      /\ ProjectsOK /\ GroupsOK /\ RestOK /\ IdsOK /\ ids \in Nat
  <2>1. Typed /\ Fits(cr[c], task[c], tick[c]) BY DEF Inv, LifeInv
  <2>2. tick[c].at \in {"check", "bind", "map", "write"}
    BY DEF TickBind, TickReadRules, TickWriteRules, FailTick, TickAt
  <2> QED BY <2>1, <2>2, NoTaskIs DEF Typed, TickOK, IdsOK
<1>2. /\ T(c) \in Wish /\ T(c).name \in Names /\ tick[c].pid \in 0..MaxIds /\ tick[c].gid \in 0..MaxIds
      /\ tick[c].view \in [GroupNames -> SUBSET Users] /\ group[make_group_name(T(c).name)].id \in 0..MaxIds
  <2>1. T(c) \in Wish BY <1>1 DEF Fits, Ticks, T
  <2>2. T(c).name \in Names BY <2>1 DEF Wish
  <2>3. tick[c].pid \in 0..MaxIds /\ tick[c].gid \in 0..MaxIds /\ tick[c].view \in [GroupNames -> SUBSET Users]
    BY <1>1 DEF Tick
  <2> QED BY <1>1, <2>1, <2>2, <2>3, GroupOfName
<1>3. /\ NoView \in [GroupNames -> SUBSET Users] /\ rules \in [GroupNames -> SUBSET Users]
      /\ 0 \in 0..MaxIds /\ Corrected(c) \in 0..MaxIds
  BY <1>1, <1>2, NoTaskIs DEF NoView, RestOK, ResolvedGroup, Corrected
<1>4. \E t \in Tick : TickOn(c, t)
  <2>1. \E a \in {"map", "write", "end"}, g \in 0..MaxIds, v \in [GroupNames -> SUBSET Users] :
          \/ TickGo(c, a)
          \/ tick' = [tick EXCEPT ![c].at = a, ![c].gid = g]
          \/ tick' = [tick EXCEPT ![c].at = a, ![c].view = v]
    <3>1. CASE TickBind(c)
      <4>1. TickTo(c, "map", 0) \/ TickTo(c, "map", Corrected(c)) \/ TickTo(c, "end", Corrected(c))
        BY <3>1 DEF TickBind
      <4> QED BY <1>2, <1>3, <4>1 DEF TickTo
    <3>2. CASE TickReadRules(c)
      <4>1. \/ TickGo(c, "end") \/ tick' = [tick EXCEPT ![c].at = "write", ![c].view = rules]
        BY <3>2 DEF TickReadRules, TickGo
      <4> QED BY <1>2, <1>3, <4>1
    <3>3. CASE TickWriteRules(c)
      <4>1. tick' = [tick EXCEPT ![c].at = "end", ![c].view = NoView]
        BY <3>3 DEF TickWriteRules
      <4> QED BY <1>2, <1>3, <4>1
    <3>4. CASE FailTick(c)
      <4>1. TickTo(c, "end", 0) \/ TickTo(c, "end", Corrected(c)) \/ TickGo(c, "end") BY <3>4 DEF FailTick
      <4> QED BY <1>2, <1>3, <4>1 DEF TickTo
    <3> QED BY <3>1, <3>2, <3>3, <3>4
  <2>2. PICK a \in {"map", "write", "end"}, g \in 0..MaxIds, v \in [GroupNames -> SUBSET Users] :
          \/ TickGo(c, a)
          \/ tick' = [tick EXCEPT ![c].at = a, ![c].gid = g]
          \/ tick' = [tick EXCEPT ![c].at = a, ![c].view = v]
    BY <2>1
  <2>3. a \in Timing BY DEF Timing
  <2>4. PICK t \in Tick : /\ tick' = [tick EXCEPT ![c] = t]
                          /\ t.at = a /\ t.pid = tick[c].pid /\ t.spec = tick[c].spec
    BY <1>1, <2>2, <2>3, TickGoes, TickGrouped, TickViewed
  <2> QED BY <1>1, <2>2, <2>4 DEF TickOn
<1>5. /\ TickStep /\ UNCHANGED <<project, parts, keys, known, ids>>
      /\ UNCHANGED events \/ Fault
  BY DEF TickBind, TickReadRules, TickWriteRules, FailTick, cloud
<1>6. GroupsOK' /\ direct' \in [Names -> SUBSET Users] /\ rules' \in [GroupNames -> SUBSET Users]
  <2>1. CASE TickBind(c)
    <3>1. \/ UNCHANGED <<group, direct>>
          \/ ApplyRoleBindings(T(c), tick[c].pid, ResolvedGroup(T(c).name, tick[c].gid))
      BY <2>1 DEF TickBind
    <3>2. rules' = rules BY <2>1 DEF TickBind
    <3>3. CASE UNCHANGED <<group, direct>> BY <1>1, <3>2, <3>3 DEF GroupsOK, RestOK
    <3>4. CASE ApplyRoleBindings(T(c), tick[c].pid, ResolvedGroup(T(c).name, tick[c].gid))
      BY <1>1, <1>3, <3>2, <3>4, BindingsApplied
    <3> QED BY <3>1, <3>3, <3>4
  <2>2. CASE TickReadRules(c) \/ FailTick(c) BY <1>1, <2>2 DEF TickReadRules, FailTick, cloud, GroupsOK, RestOK
  <2>3. CASE TickWriteRules(c)
    <3>1. rules' \in [GroupNames -> SUBSET Users] BY <1>1, <1>2, <2>3, UsersAre, RulesAre DEF TickWriteRules
    <3> QED BY <1>1, <2>3, <3>1 DEF TickWriteRules, GroupsOK, RestOK
  <2> QED BY <2>1, <2>2, <2>3
<1>7. ids' = ids + 0 BY <1>1, <1>5
<1>8. ProjectsOK' /\ ProjectsNamed(T(c).name) BY <1>1, <1>5, <1>7, ProjectsStay
<1>9. CloudOK' BY <1>1, <1>5, <1>6, <1>8 DEF CloudOK, Typed, PartsOK, RestOK, IdsOK
<1> QED BY <1>4, <1>5, <1>8, <1>9, TickOnKeeps

LEMMA StartTickKeeps ==
  ASSUME Inv, NEW c \in Records, StartTick(c), news' = news
  PROVE  Inv'
<1>1. /\ Typed /\ Fits(cr[c], task[c], tick[c]) /\ cr[c].at = "live" /\ cr[c].phase = "Ready"
      /\ loop.at = "idle" /\ tick[c].at = "idle" /\ cr[c] \in Record
  BY DEF Inv, LifeInv, StartTick, Live, TickAt, LoopFree, Typed, CrOK
<1>2. cr[c].pid # 0 /\ cr[c].handled # NoWish /\ cr[c].held /\ ~Runs(task[c], "create") /\ cr[c].spec \in Wish
  BY <1>1 DEF Fits
<1> DEFINE t == [NoTick EXCEPT !.at = "check", !.spec = cr[c].spec, !.pid = cr[c].pid, !.gid = cr[c].gid]
<1>3. t \in Tick /\ t.at = "check" /\ t.spec = cr[c].spec /\ t.pid = cr[c].pid
  BY <1>1, NoTickIs DEF Tick, Record
<1>4. tick' = [tick EXCEPT ![c] = t] BY DEF StartTick
<1> HIDE DEF t
<1>5. /\ cr' = [cr EXCEPT ![c] = cr[c]] /\ task' = [task EXCEPT ![c] = task[c]] /\ task[c] \in Task
      /\ UNCHANGED <<born, second, plan, loop, news, events, cloud, waived>>
  BY <1>1, AsItIs DEF StartTick
<1>6. CloudOK' /\ ProjectsNamed(N(c)) /\ Spent BY <1>1, <1>5, CloudStays DEF Spent
<1>7. Fits(cr[c], task[c], t) BY <1>1, <1>2, <1>3 DEF Fits, Ticks
<1>8. Claims(cr[c], task[c], tick[c]) BY <1>2 DEF Claims
<1>9. \A n, i : RowUses(cr[c], task[c], t, n, i) => i = 0 \/ Uses(n, i) BY <1>3 DEF RowUses, Uses
<1>10. task[c].at \in Deleting => task[c].spec.name = N(c) BY DEF N
<1>11. c \in waived' <=> c \in waived BY <1>5
<1> QED BY <1>1, <1>3, <1>4, <1>5, <1>6, <1>7, <1>8, <1>9, <1>10, <1>11, RowMoves

LEMMA PatchTickKeeps ==
  ASSUME Inv, NEW c \in Records, PatchTick(c), news' = news
  PROVE  Inv'
<1>1. /\ Typed /\ Fits(cr[c], task[c], tick[c]) /\ tick[c].at \in {"lost", "moved", "end"}
      /\ loop.at = "idle" /\ cr[c] \in Record /\ tick[c] \in Tick /\ DOMAIN cr = Records
  BY DEF Inv, LifeInv, PatchTick, LoopFree, Typed, CrOK, TickOK
<1>2. /\ Ticks(tick[c]) /\ cr[c].pid # 0 /\ cr[c].handled # NoWish /\ cr[c].held /\ ~Runs(task[c], "create")
      /\ (cr[c].renamed \/ tick[c].spec.name = cr[c].spec.name) /\ cr[c].spec \in Wish
      /\ cr[c].at # "absent"
      /\ tick[c].pid \in 0..MaxIds /\ tick[c].gid \in 0..MaxIds
      /\ tick[c].at = "moved" => tick[c].pid # 0
  BY <1>1, Idle DEF Fits, Ticks, Tick
<1>3. \E r \in Record :
        /\ cr' = [cr EXCEPT ![c] = r]
        /\ r.at = cr[c].at /\ r.born = cr[c].born /\ r.stamp = cr[c].stamp /\ r.spec = cr[c].spec
        /\ r.held = cr[c].held /\ r.handled = cr[c].handled /\ r.renamed = cr[c].renamed
        /\ \/ r.phase = "Pending" /\ r.pid = 0
           \/ r.phase = "Pending" /\ r.pid = tick[c].pid
           \/ r.phase = cr[c].phase /\ r.pid = cr[c].pid
  <2> DEFINE g == IF tick[c].gid = 0 THEN cr[c].gid ELSE tick[c].gid
             lost == [cr[c] EXCEPT !.phase = "Pending", !.pid = 0, !.gid = 0]
             moved == [cr[c] EXCEPT !.phase = "Pending", !.pid = tick[c].pid, !.gid = tick[c].gid]
             end == [cr[c] EXCEPT !.gid = g]
  <2>1. cr' = [cr EXCEPT ![c] = lost] \/ cr' = [cr EXCEPT ![c] = moved] \/ cr' = [cr EXCEPT ![c] = end]
    <3> DEFINE x == CASE TickAt(c, "lost") -> lost [] TickAt(c, "moved") -> moved [] TickAt(c, "end") -> end
    <3>1. cr' = [cr EXCEPT ![c] = x] BY DEF PatchTick
    <3> HIDE DEF lost, moved, end
    <3>2. x \in {lost, moved, end} BY <1>1 DEF TickAt
    <3> HIDE DEF x
    <3> QED BY <3>1, <3>2
  <2>2. g \in 0..MaxIds /\ 0 \in 0..MaxIds BY <1>1, <1>2, NoTaskIs DEF Record
  <2> HIDE DEF g
  <2>3. /\ lost \in Record
        /\ lost.at = cr[c].at /\ lost.born = cr[c].born /\ lost.stamp = cr[c].stamp /\ lost.spec = cr[c].spec
        /\ lost.held = cr[c].held /\ lost.handled = cr[c].handled /\ lost.renamed = cr[c].renamed /\ lost.phase = "Pending" /\ lost.pid = 0
    BY <1>1, <2>2 DEF Record, Phases
  <2>4. /\ moved \in Record
        /\ moved.at = cr[c].at /\ moved.born = cr[c].born /\ moved.stamp = cr[c].stamp /\ moved.spec = cr[c].spec
        /\ moved.held = cr[c].held /\ moved.handled = cr[c].handled /\ moved.renamed = cr[c].renamed /\ moved.phase = "Pending"
        /\ moved.pid = tick[c].pid
    BY <1>1, <1>2 DEF Record, Phases
  <2>5. /\ end \in Record
        /\ end.at = cr[c].at /\ end.born = cr[c].born /\ end.stamp = cr[c].stamp /\ end.spec = cr[c].spec
        /\ end.held = cr[c].held /\ end.handled = cr[c].handled /\ end.renamed = cr[c].renamed /\ end.phase = cr[c].phase /\ end.pid = cr[c].pid
    BY <1>1, <2>2 DEF Record
  <2> HIDE DEF lost, moved, end
  <2> QED BY <2>1, <2>3, <2>4, <2>5
<1>4. PICK r \in Record :
        /\ cr' = [cr EXCEPT ![c] = r]
        /\ r.at = cr[c].at /\ r.born = cr[c].born /\ r.stamp = cr[c].stamp /\ r.spec = cr[c].spec
        /\ r.held = cr[c].held /\ r.handled = cr[c].handled /\ r.renamed = cr[c].renamed
        /\ \/ r.phase = "Pending" /\ r.pid = 0
           \/ r.phase = "Pending" /\ r.pid = tick[c].pid
           \/ r.phase = cr[c].phase /\ r.pid = cr[c].pid
  BY <1>3
<1>5. /\ task' = [task EXCEPT ![c] = task[c]] /\ task[c] \in Task
      /\ tick' = [tick EXCEPT ![c] = NoTick] /\ NoTick \in Tick
      /\ UNCHANGED <<born, second, plan, loop, news, events, cloud, waived>>
  BY <1>1, AsItIs, NoTickIs DEF PatchTick
<1>6. CloudOK' /\ ProjectsNamed(N(c)) /\ Spent BY <1>1, <1>5, CloudStays DEF Spent
<1>7. Fits(r, task[c], NoTick)
  BY <1>1, <1>2, <1>4, NoRuns DEF Fits, Ticks, Runs
<1>8. Claims(cr[c], task[c], tick[c]) BY <1>2 DEF Claims
<1>9. \A n, i : RowUses(r, task[c], NoTick, n, i) => i = 0 \/ Uses(n, i) BY <1>2, <1>4, NoRuns DEF RowUses, Uses
<1>10. task[c].at \in Deleting => task[c].spec.name = N(c) BY DEF N
<1>11. c \in waived' <=> c \in waived BY <1>5
<1> QED BY <1>1, <1>2, <1>4, <1>5, <1>6, <1>7, <1>8, <1>9, <1>10, <1>11, RowMoves

------------------------------------------------------------------------------
\* Users.
LEMMA UserKeeps ==
  ASSUME Inv, NEW c \in Records, EditRecord(c) \/ DeleteRecord(c), UNCHANGED <<handlers, news>>
  PROVE  Inv'
<1>1. /\ Typed /\ Fits(cr[c], task[c], tick[c]) /\ cr[c].at = "live" /\ cr[c] \in Record
      /\ task[c] \in Task /\ tick[c] \in Tick /\ cr[c].spec \in Wish /\ plan \in Plans
      /\ UNCHANGED <<cloud, born, second, plan, task, tick, loop, waived, news>> /\ Event
  BY DEF Inv, LifeInv, EditRecord, DeleteRecord, Live, Typed, CrOK, TaskOK, TickOK, CountsOK, Fits, handlers
<1>2. /\ task' = [task EXCEPT ![c] = task[c]] /\ tick' = [tick EXCEPT ![c] = tick[c]]
  BY <1>1, AsItIs
<1>3. \E r \in Record :
        /\ cr' = [cr EXCEPT ![c] = r] /\ Fits(r, task[c], tick[c])
        /\ r.at # "absent" =>
             /\ r.stamp = cr[c].stamp /\ r.born = cr[c].born
             /\ ~r.renamed => ~cr[c].renamed /\ r.spec.name = cr[c].spec.name
        /\ r.handled = cr[c].handled \/ r.handled = NoWish
        /\ r.pid = cr[c].pid \/ r.pid = 0
        /\ r.renamed \/ r.spec.name = cr[c].spec.name \/ r.pid = 0
        /\ r.at = "absent" => task[c] = NoTask /\ tick[c] = NoTick
        /\ r.at # "absent" /\ cr[c].renamed => r.renamed
  <2>1. CASE EditRecord(c)
    <3>1. PICK w \in plan.wishes[c] :
            cr' = [cr EXCEPT ![c].spec = w, ![c].renamed = cr[c].renamed \/ w.name # cr[c].spec.name]
      BY <2>1 DEF EditRecord
    <3>2. w \in Wish BY <1>1, RecordsAssumption
    <3>3. PICK yes \in BOOLEAN : yes = (cr[c].renamed \/ w.name # cr[c].spec.name) OBVIOUS
    <3> DEFINE r == [cr[c] EXCEPT !.spec = w, !.renamed = yes]
    <3>4. /\ r \in Record /\ r.at = cr[c].at /\ r.born = cr[c].born /\ r.stamp = cr[c].stamp /\ r.spec = w
          /\ r.held = cr[c].held /\ r.handled = cr[c].handled /\ r.phase = cr[c].phase /\ r.pid = cr[c].pid
          /\ r.renamed = yes
      BY <1>1, <3>2 DEF Record
    <3>5. cr' = [cr EXCEPT ![c] = r] BY <3>1, <3>3
    <3> HIDE DEF r
    <3>6. ~r.renamed => ~cr[c].renamed /\ r.spec.name = cr[c].spec.name BY <3>3, <3>4
    <3>7. Fits(r, task[c], tick[c]) BY <1>1, <3>2, <3>4, <3>6 DEF Fits
    <3> QED BY <1>1, <3>4, <3>5, <3>6, <3>7
  <2>2. CASE DeleteRecord(c) /\ cr[c].held
    <3> DEFINE r == [cr[c] EXCEPT !.at = "deleting"]
    <3>1. /\ r \in Record /\ r.at = "deleting" /\ r.born = cr[c].born /\ r.stamp = cr[c].stamp /\ r.spec = cr[c].spec
          /\ r.held = cr[c].held /\ r.handled = cr[c].handled /\ r.phase = cr[c].phase /\ r.pid = cr[c].pid
          /\ r.renamed = cr[c].renamed
      BY <1>1 DEF Record
    <3>2. cr' = [cr EXCEPT ![c] = r] BY <2>2 DEF DeleteRecord
    <3> HIDE DEF r
    <3>3. Fits(r, task[c], tick[c]) BY <1>1, <2>2, <3>1 DEF Fits
    <3> QED BY <3>1, <3>2, <3>3
  <2>3. CASE DeleteRecord(c) /\ ~cr[c].held
    <3>1. cr' = [cr EXCEPT ![c] = Absent] BY <2>3 DEF DeleteRecord
    <3>2. task[c] = NoTask /\ tick[c] = NoTick BY <1>1, <2>3 DEF Fits, Ticks
    <3>3. Fits(Absent, task[c], tick[c]) BY <3>2, NoRuns, AbsentIs DEF Fits, Runs, Ticks, KindsOf
    <3> QED BY <3>1, <3>2, <3>3, AbsentIs
  <2> QED BY <2>1, <2>2, <2>3
<1>4. PICK r \in Record :
        /\ cr' = [cr EXCEPT ![c] = r] /\ Fits(r, task[c], tick[c])
        /\ r.at # "absent" =>
             /\ r.stamp = cr[c].stamp /\ r.born = cr[c].born
             /\ ~r.renamed => ~cr[c].renamed /\ r.spec.name = cr[c].spec.name
        /\ r.handled = cr[c].handled \/ r.handled = NoWish
        /\ r.pid = cr[c].pid \/ r.pid = 0
        /\ r.renamed \/ r.spec.name = cr[c].spec.name \/ r.pid = 0
        /\ r.at = "absent" => task[c] = NoTask /\ tick[c] = NoTick
        /\ r.at # "absent" /\ cr[c].renamed => r.renamed
  BY <1>3
<1>5. CloudOK' /\ ProjectsNamed(N(c)) /\ Spent BY <1>1, CloudStays, Spending DEF Fault
<1>6. Claims(r, task[c], tick[c]) => Claims(cr[c], task[c], tick[c]) BY <1>4 DEF Claims
<1>7. \A n, i : RowUses(r, task[c], tick[c], n, i) => i = 0 \/ Uses(n, i)
  <2>1. CASE r.at = "absent"
    <3>1. r = Absent BY <1>4, <2>1 DEF Fits
    <3> QED BY <1>4, <2>1, <3>1, NoRuns, AbsentIs DEF RowUses
  <2>2. CASE r.at # "absent" BY <1>4, <2>2 DEF RowUses, Uses
  <2> QED BY <2>1, <2>2
<1>8. task[c].at \in Deleting => task[c].spec.name = N(c) BY DEF N
<1>9. c \in waived' <=> c \in waived BY <1>1
<1>10. loop.at \in {"list", "collect"} /\ cr[c].pid = 0 /\ task[c].at = "idle" => r.pid = 0 BY <1>4
<1> QED BY <1>1, <1>2, <1>4, <1>5, <1>6, <1>7, <1>8, <1>9, <1>10, RowMoves

LEMMA CreateKeeps ==
  ASSUME Inv, NEW c \in Records, CreateRecord(c), UNCHANGED <<handlers, news>>
  PROVE  Inv'
<1>1. /\ Typed /\ cr[c].at = "absent" /\ plan \in Plans
      /\ UNCHANGED <<cloud, plan, task, tick, loop, waived, news>>
      /\ events < plan.events /\ events' = events + 1 /\ born' = born + 1
  BY DEF Inv, CreateRecord, Event, handlers, Typed, CountsOK
<1>2. task[c] = NoTask /\ tick[c] = NoTick BY <1>1, Idle
<1>3. PICK w \in plan.wishes[c], later \in 0..1 :
        /\ cr' = [cr EXCEPT ![c] = [Absent EXCEPT !.at = "live", !.born = born + 1,
                                     !.stamp = second + later, !.spec = w]]
        /\ second' = second + later
  BY DEF CreateRecord
<1>4. /\ w \in Wish /\ MaxEvents \in Nat /\ plan.events \in 0..MaxEvents
      /\ born \in 0..MaxEvents /\ second \in 0..MaxEvents /\ events \in 0..MaxEvents
      /\ born <= events /\ second <= events
  BY <1>1, <1>3, RecordsAssumption DEF Typed, CountsOK, Inv, AgeInv
<1>5. /\ born + 1 \in 0..MaxEvents /\ second + later \in 0..MaxEvents /\ events + 1 \in 0..MaxEvents
  BY <1>1, <1>3, <1>4
<1> DEFINE r == [Absent EXCEPT !.at = "live", !.born = born + 1, !.stamp = second + later, !.spec = w]
<1>6. /\ r \in Record /\ r.at = "live" /\ r.born = born + 1 /\ r.stamp = second' /\ r.spec = w
      /\ ~r.held /\ r.handled = NoWish /\ r.phase = "" /\ r.pid = 0
  BY <1>3, <1>4, <1>5, AbsentIs DEF Record
<1>7. cr' = [cr EXCEPT ![c] = r] BY <1>3
<1> HIDE DEF r
<1>8. /\ cr' \in [Records -> Record] /\ cr'[c] = r /\ \A d \in Records \ {c} : cr'[d] = cr[d]
      /\ task'[c] = NoTask /\ tick'[c] = NoTick
  BY <1>1, <1>2, <1>6, <1>7 DEF Typed, CrOK
<1>9. CloudOK' /\ ProjectsNamed(None) BY <1>1, CloudStays
<1>10. Typed'
  BY <1>1, <1>3, <1>5, <1>8, <1>9 DEF Typed, CloudOK, CrOK, TaskOK, TickOK, LoopOK, CountsOK
<1>11. Clock BY <1>1, <1>3, <1>4 DEF Clock
<1>12. Fits(r, NoTask, NoTick) /\ ~Claims(r, NoTask, NoTick)
  BY <1>4, <1>6, NoRuns DEF Fits, Claims, Runs, Ticks, KindsOf
<1>13. Row(c)' /\ Claimed(c) BY <1>8, <1>12 DEF Row, Claimed
<1>14. Aged(c) BY <1>1, <1>6, <1>8 DEF Aged
<1>15. Listed(c) BY <1>8, NoRuns DEF Listed, Deleting
<1>16. Named2(None, c) BY <1>6, <1>8, NoRuns DEF Named2, RowUses
<1>17. Rests(c) BY <1>6, <1>8, NoRuns DEF Rests
<1>18. \A d \in Records \ {c} : Same1(d) /\ (d \in waived' <=> d \in waived) BY <1>1, <1>8 DEF Same1
<1> QED BY <1>1, <1>9, <1>10, <1>11, <1>13, <1>14, <1>15, <1>16, <1>17, <1>18, OneMoves DEF Carries

------------------------------------------------------------------------------
\* The world outside, the collector and the listener leave the records alone.
Untouched == UNCHANGED <<cr, born, second, plan, task, tick, waived>>

LEMMA UntouchedKeeps ==
  ASSUME Inv, Untouched, Spent, CloudOK', NEW m, ProjectsNamed(m), loop' \in Loop, DoomedUsed, news' \subseteq Users
  PROVE  Typed' /\ LifeInv' /\ AgeInv' /\ ClaimInv' /\ ApartInv' /\ DeleteInv'
<1>1. Typed BY DEF Inv
<1>2. events' \in 0..MaxEvents /\ events \in 0..MaxEvents /\ events <= events'
  BY <1>1, SpentIs, NoTaskIs DEF Typed, CountsOK, Spent, Untouched
<1>3. Typed' BY <1>1, <1>2 DEF Typed, CloudOK, CrOK, TaskOK, TickOK, LoopOK, CountsOK, Untouched
<1>4. Clock
  <2>1. born \in Nat /\ second \in Nat /\ events' \in Nat /\ events \in Nat
    BY <1>1, <1>2, NoTaskIs DEF Typed, CountsOK
  <2> QED BY <1>2, <2>1 DEF Clock, Inv, AgeInv, Untouched
<1>5. \A c \in Records : Same1(c) /\ (c \in waived' <=> c \in waived) BY DEF Untouched, Same1
<1>6. \A c \in Records : Carries(m, c) BY <1>5, Stays
<1> QED BY <1>3, <1>4, <1>6, AllMove

LEMMA OutsideKeeps ==
  ASSUME Inv, Untouched, Spent, CloudOK', NEW m, ProjectsNamed(m), loop' = loop, news' \subseteq Users
  PROVE  Inv'
<1>1. loop' \in Loop /\ DoomedUsed BY DEF Inv, Typed, LoopOK, DoomedUsed, Uses
<1>2. \A c \in Records : Carries(m, c) /\ Rests(c) BY Stays DEF Untouched, Same1
<1>3. CollectInv' /\ LoopInv' BY <1>2, CollectionKeeps DEF Carries
<1> QED BY <1>1, <1>3, UntouchedKeeps DEF Inv

LEMMA LoseProjectKeeps ==
  ASSUME Inv, NEW n \in Names, LoseProject(n), UNCHANGED <<handlers, news>>
  PROVE  Inv'
<1>1. /\ Typed /\ ProjectsOK /\ IdsOK /\ RestOK /\ ids \in Nat
      /\ project' = [project EXCEPT ![n] = NoProject] /\ direct' = [direct EXCEPT ![n] = {}]
      /\ UNCHANGED <<group, parts, keys, rules, known, ids, cr, born, second, plan, task, tick, loop, waived, news>>
      /\ events < plan.events /\ events' = events + 1
  BY NoTaskIs DEF Inv, Typed, LoseProject, handlers, IdsOK, Fault, Event
<1>2. ids' = ids + 0 BY <1>1
<1>3. ProjectsOK' /\ ProjectsNamed(n)
  <2>1. NoProject \in Project /\ NoProject.id \in {0, project[n].id} BY Rows
  <2> QED BY <1>1, <2>1 DEF ProjectsOK, ProjectsNamed
<1>4. RestOK' BY <1>1 DEF RestOK
<1>5. CloudOK' BY <1>1, <1>3, <1>4 DEF CloudOK, Typed, GroupsOK, PartsOK, IdsOK
<1>6. Untouched /\ Spent /\ news' \subseteq Users BY <1>1 DEF Untouched, Spent, Typed, LoopOK
<1> QED BY <1>1, <1>3, <1>5, <1>6, OutsideKeeps

LEMMA UserAppearsKeeps ==
  ASSUME Inv, NEW u \in Users, UserAppears(u)
  PROVE  Inv'
<1>1. /\ Typed /\ ProjectsOK /\ IdsOK /\ RestOK /\ ids \in Nat /\ news \subseteq Users
      /\ known' = known \cup {u} /\ news' \in {news, news \cup {u}}
      /\ UNCHANGED <<project, group, direct, parts, keys, rules, ids>>
      /\ UNCHANGED <<cr, born, second, plan, events, task, tick, loop, waived>>
  BY NoTaskIs DEF Inv, Typed, UserAppears, handlers, records, IdsOK, LoopOK
<1>2. ids' = ids + 0 BY <1>1
<1>3. ProjectsOK' /\ ProjectsNamed(None) BY <1>1, <1>2, ProjectsStay
<1>4. RestOK' BY <1>1 DEF RestOK
<1>5. CloudOK' BY <1>1, <1>3, <1>4 DEF CloudOK, Typed, GroupsOK, PartsOK, IdsOK
<1>6. Untouched /\ Spent /\ news' \subseteq Users BY <1>1 DEF Untouched, Spent
<1> QED BY <1>1, <1>3, <1>5, <1>6, OutsideKeeps

LEMMA FreeLoopIs ==
  FreeLoop \in Loop /\ FreeLoop.at = "idle" /\ FreeLoop.doomed = {}
<1>1. Unseen \in [Records -> Record] BY AbsentIs DEF Unseen
<1>2. {} \in SUBSET [name : Names, id : 1..MaxIds] OBVIOUS
<1> DEFINE seen == Unseen
<1> HIDE DEF seen
<1>3. [at |-> "idle", expected |-> {}, doomed |-> {}, todo |-> {}, seen |-> seen] \in Loop
  BY <1>1, <1>2 DEF Loop, seen
<1> QED BY <1>3 DEF FreeLoop, seen

\* Nothing that ran goes on, and what the records keep stays.
LEMMA CrashKeeps ==
  ASSUME Inv, Crash
  PROVE  Inv'
<1>1. /\ Typed /\ UNCHANGED <<cloud, cr, born, second, plan, waived, news>>
      /\ events < plan.events /\ events' = events + 1
      /\ loop' = FreeLoop
      /\ \A c \in Records : task'[c] = NoTask /\ tick'[c] = NoTick
      /\ task' \in [Records -> Task] /\ tick' \in [Records -> Tick]
  BY NoTaskIs, NoTickIs DEF Inv, Crash, Fault, Event
<1>2. CloudOK' /\ ProjectsNamed(None) BY <1>1, CloudStays
<1>3. events' \in 0..MaxEvents /\ events \in 0..MaxEvents /\ events <= events'
  BY <1>1, SpentIs, NoTaskIs DEF Typed, CountsOK, Spent
<1>4. Typed'
  BY <1>1, <1>2, <1>3, FreeLoopIs DEF Typed, CloudOK, CrOK, TaskOK, TickOK, LoopOK, CountsOK
<1>5. Clock
  <2>1. born \in Nat /\ second \in Nat /\ events' \in Nat /\ events \in Nat
    BY <1>1, <1>3, NoTaskIs DEF Typed, CountsOK
  <2> QED BY <1>1, <1>3, <2>1 DEF Clock, Inv, AgeInv
<1>6. ASSUME NEW c \in Records PROVE Carries(None, c)
  <2>1. Fits(cr[c], task[c], tick[c]) /\ cr'[c] = cr[c] /\ task'[c] = NoTask /\ tick'[c] = NoTick
    BY <1>1 DEF Inv, LifeInv
  <2>2. Row(c)' BY <2>1, NoRuns DEF Row, Fits, Runs, Ticks, KindsOf
  <2>3. Aged(c) BY <2>1 DEF Aged
  <2>4. Claimed(c)
    <3>1. Claims(cr[c], NoTask, NoTick) => Claims(cr[c], task[c], tick[c]) BY NoRuns DEF Claims, Runs, Ticks
    <3> QED BY <1>1, <2>1, <3>1 DEF Claimed
  <2>5. Listed(c) BY <2>1, NoRuns DEF Listed, Deleting
  <2>6. Named2(None, c) BY <2>1, NoRuns DEF Named2, RowUses, Uses
  <2> QED BY <2>2, <2>3, <2>4, <2>5, <2>6 DEF Carries
<1>7. CollectInv' /\ LoopInv' /\ DoomedUsed BY <1>1, FreeLoopIs DEF CollectInv, LoopInv, DoomedUsed
<1> QED BY <1>2, <1>4, <1>5, <1>6, <1>7, AllMove DEF Inv

------------------------------------------------------------------------------
\* The collector.
LEMMA StartCollectionKeeps ==
  ASSUME Inv, StartCollection
  PROVE  Inv'
<1>1. /\ Typed /\ loop \in Loop /\ loop.at = "idle" /\ loop.doomed = {}
      /\ loop' = [loop EXCEPT !.at = "list", !.expected = Expected]
      /\ UNCHANGED <<cloud, cr, born, second, plan, events, task, tick, waived, news>>
  BY DEF Inv, Typed, LoopOK, LoopInv, StartCollection, LoopFree, records
<1>2. \A c \in Records : Present(c) => cr[c].spec.name \in Names /\ cr[c].spec.name \in Expected
  BY DEF Inv, LifeInv, Fits, Present, Wish, Expected
<1>3. Expected \subseteq Names BY <1>2 DEF Expected
<1> DEFINE expected == Expected
<1>4. loop' = [loop EXCEPT !.at = "list", !.expected = expected] BY <1>1
<1>5. /\ expected \subseteq Names
      /\ \A c \in Records : cr[c].at # "absent" => cr[c].spec.name \in expected
  BY <1>2, <1>3 DEF Present
<1> HIDE DEF expected
<1>6. loop' \in Loop /\ loop'.at = "list" /\ loop'.expected = expected /\ loop'.doomed = {}
  BY <1>1, <1>4, <1>5 DEF Loop
<1>7. CloudOK' /\ ProjectsNamed(None) BY <1>1, CloudStays
<1>8. Untouched /\ Spent /\ news' \subseteq Users BY <1>1 DEF Untouched, Spent, Typed, LoopOK
<1>9. CollectInv' /\ LoopInv' /\ DoomedUsed BY <1>1, <1>5, <1>6 DEF CollectInv, LoopInv, Present, DoomedUsed
<1> QED BY <1>6, <1>7, <1>8, <1>9, UntouchedKeeps DEF Inv

LEMMA FindOrphansKeeps ==
  ASSUME Inv, FindOrphans
  PROVE  Inv'
<1> DEFINE doomed == {[name |-> n, id |-> project[n].id] : n \in TaggedNames \ loop.expected}
<1>1. /\ Typed /\ loop \in Loop /\ loop.at = "list" /\ ProjectsOK
      /\ loop' = [loop EXCEPT !.at = "collect", !.doomed = doomed]
      /\ UNCHANGED <<cloud, cr, born, second, plan, events, task, tick, waived, news>>
  BY DEF Inv, Typed, LoopOK, FindOrphans, LoopStep, KeepRecords
<1>2. ASSUME NEW o \in doomed
      PROVE  /\ o \in [name : Names, id : 1..MaxIds]
             /\ o.name \notin loop.expected /\ o.id # 0 /\ Uses(o.name, o.id)
  <2>1. PICK n \in TaggedNames \ loop.expected : o = [name |-> n, id |-> project[n].id] BY <1>2
  <2>2. n \in Names /\ project[n].id \in 1..MaxIds
    BY <1>1, NoTaskIs DEF TaggedNames, Exists, ProjectsOK, Project
  <2> QED BY <2>1, <2>2 DEF Uses
<1> HIDE DEF doomed
<1>3. loop' \in Loop /\ loop'.at = "collect" /\ loop'.expected = loop.expected /\ loop'.doomed = doomed
  <2>1. doomed \in SUBSET [name : Names, id : 1..MaxIds] BY <1>2
  <2> QED BY <1>1, <2>1 DEF Loop
<1>4. CloudOK' /\ ProjectsNamed(None) BY <1>1, CloudStays
<1>5. Untouched /\ Spent /\ news' \subseteq Users BY <1>1 DEF Untouched, Spent, Typed, LoopOK
<1>6. CollectInv' /\ LoopInv' /\ DoomedUsed
  BY <1>1, <1>2, <1>3 DEF CollectInv, LoopInv, Present, Inv, DoomedUsed
<1> QED BY <1>3, <1>4, <1>5, <1>6, UntouchedKeeps DEF Inv

LEMMA CollectOrphanKeeps ==
  ASSUME Inv, CollectOrphan
  PROVE  Inv'
<1>1. /\ Typed /\ loop \in Loop /\ loop.at = "collect"
      /\ ProjectsOK /\ GroupsOK /\ RestOK /\ IdsOK /\ ids \in Nat
      /\ UNCHANGED <<cr, born, second, plan, task, tick, waived>>
      /\ UNCHANGED <<parts, keys, rules, known, ids, news>>
  BY NoTaskIs DEF Inv, Typed, LoopOK, CollectOrphan, LoopStep, KeepRecords, IdsOK
<1>2. PICK o \in loop.doomed :
        /\ UNCHANGED events \/ Fault
        /\ group' \in {group, [group EXCEPT ![make_group_name(o.name)] = NoGroup]}
        /\ project' \in {project, DeletedProject(o.id)}
        /\ direct' \in {direct, DirectWithout(o.id)}
        /\ loop' = [loop EXCEPT !.doomed = @ \ {o}]
  BY DEF CollectOrphan
<1>3. o.name \in Names /\ loop.doomed \subseteq [name : Names, id : 1..MaxIds] BY <1>1 DEF Loop
<1> DEFINE h == make_group_name(o.name)
           kept == DeletedProject(o.id)
           others == DirectWithout(o.id)
           left == loop.doomed \ {o}
<1>4. /\ kept \in [Names -> Project] /\ \A n \in Names : kept[n].id \in {0, project[n].id}
      /\ others \in [Names -> SUBSET Users] /\ h \in GroupNames
  BY <1>1, <1>3, DeletedAre, GroupOfName
<1>5. Grouped(NoGroup) BY Rows
<1>6. ids' = ids + 0 BY <1>1
<1>7. /\ UNCHANGED events \/ Fault
      /\ group' \in {group, [group EXCEPT ![h] = NoGroup]}
      /\ project' \in {project, kept}
      /\ direct' \in {direct, others}
      /\ loop' = [loop EXCEPT !.doomed = left]
      /\ left \subseteq loop.doomed
  BY <1>2, <1>3
<1> HIDE DEF h, kept, others, left
<1>8. ProjectsOK' /\ ProjectsNamed(None)
  BY <1>1, <1>4, <1>6, <1>7, ProjectsStay, ProjectsKept
<1>9. GroupsOK' BY <1>1, <1>4, <1>5, <1>7 DEF GroupsOK
<1>10. RestOK' BY <1>1, <1>4, <1>7 DEF RestOK
<1>11. CloudOK' BY <1>1, <1>8, <1>9, <1>10 DEF CloudOK, Typed, PartsOK, IdsOK
<1>12. loop' \in Loop /\ loop'.at = "collect" /\ loop'.expected = loop.expected /\ loop'.doomed = left
  BY <1>1, <1>3, <1>7 DEF Loop
<1>13. Untouched /\ Spent /\ news' \subseteq Users
  BY <1>1, <1>7, Spending DEF Untouched, Typed, LoopOK
<1>14. CollectInv' /\ LoopInv' /\ DoomedUsed
  BY <1>1, <1>7, <1>12 DEF CollectInv, LoopInv, Present, Inv, DoomedUsed, Uses
<1> QED BY <1>8, <1>11, <1>12, <1>13, <1>14, UntouchedKeeps DEF Inv

\* The loop is free again.
LEMMA FreedKeeps ==
  ASSUME Inv, Untouched, Spent, CloudOK', ProjectsNamed(None), loop' = FreeLoop, news' \subseteq Users
  PROVE  Inv'
<1>1. CollectInv' /\ LoopInv' /\ DoomedUsed BY FreeLoopIs DEF CollectInv, LoopInv, DoomedUsed
<1> QED BY <1>1, FreeLoopIs, UntouchedKeeps DEF Inv

LEMMA EndCollectionKeeps ==
  ASSUME Inv, EndCollection
  PROVE  Inv'
<1>1. /\ Typed /\ UNCHANGED <<cloud, cr, born, second, plan, task, tick, waived, news>>
      /\ loop' = FreeLoop /\ (UNCHANGED events \/ Fault)
  BY DEF Inv, EndCollection, LoopStep, KeepRecords
<1>2. CloudOK' /\ ProjectsNamed(None) BY <1>1, CloudStays
<1>3. Untouched /\ Spent /\ news' \subseteq Users BY <1>1, Spending DEF Untouched, Typed, LoopOK
<1> QED BY <1>1, <1>2, <1>3, FreedKeeps

------------------------------------------------------------------------------
\* The listener.
LEMMA SyncingKeeps ==
  ASSUME Inv, Untouched, Spent, CloudOK', ProjectsNamed(None), news' \subseteq Users,
         loop' \in Loop, loop'.at = "sync", loop'.doomed = {}
  PROVE  Inv'
<1>1. CollectInv' /\ LoopInv' /\ DoomedUsed BY DEF CollectInv, LoopInv, DoomedUsed
<1> QED BY <1>1, UntouchedKeeps DEF Inv

LEMMA StartSyncKeeps ==
  ASSUME Inv, NEW u \in Users, StartSync(u)
  PROVE  Inv'
<1> DEFINE todo == {c \in Records : Present(c) /\ cr[c].phase = "Ready" /\ cr[c].gid # 0
                                    /\ u \in UsersOf(cr[c].spec.bindings)}
           seen == [c \in Records |-> IF c \in todo THEN cr[c] ELSE Absent]
<1>1. /\ Typed /\ loop \in Loop /\ loop.at = "idle" /\ loop.doomed = {} /\ CrOK
      /\ loop' = IF todo = {} THEN FreeLoop
                 ELSE [loop EXCEPT !.at = "sync", !.todo = todo, !.seen = seen]
      /\ UNCHANGED <<cloud, cr, born, second, plan, events, task, tick, waived>>
      /\ news' = news \ {u} /\ news \subseteq Users
  BY DEF Inv, Typed, LoopOK, LoopInv, StartSync, LoopFree, records
<1>2. todo \subseteq Records OBVIOUS
<1> HIDE DEF todo
<1>3. seen \in [Records -> Record] BY <1>1, AbsentIs DEF CrOK
<1> HIDE DEF seen
<1>4. CloudOK' /\ ProjectsNamed(None) BY <1>1, CloudStays
<1>5. Untouched /\ Spent /\ news' \subseteq Users BY <1>1 DEF Untouched, Spent
<1>6. CASE loop' = FreeLoop BY <1>4, <1>5, <1>6, FreedKeeps
<1>7. CASE loop' = [loop EXCEPT !.at = "sync", !.todo = todo, !.seen = seen]
  <2>1. loop' \in Loop /\ loop'.at = "sync" /\ loop'.doomed = {} BY <1>1, <1>2, <1>3, <1>7 DEF Loop
  <2> QED BY <1>4, <1>5, <2>1, SyncingKeeps
<1> QED BY <1>1, <1>6, <1>7

LEMMA SyncRecordKeeps ==
  ASSUME Inv, SyncRecord
  PROVE  Inv'
<1>1. /\ Typed /\ loop \in Loop /\ loop.at = "sync" /\ loop.doomed = {}
      /\ ProjectsOK /\ GroupsOK /\ RestOK /\ IdsOK /\ ids \in Nat
      /\ UNCHANGED <<cr, born, second, plan, task, tick, waived>>
      /\ UNCHANGED <<project, parts, keys, rules, known, ids, events, news>>
  BY NoTaskIs DEF Inv, Typed, LoopOK, LoopInv, SyncRecord, LoopStep, KeepRecords, IdsOK
<1>2. PICK c \in loop.todo :
        /\ \/ UNCHANGED <<group, direct>>
           \/ ApplyRoleBindings(loop.seen[c].spec, loop.seen[c].pid, loop.seen[c].gid)
        /\ loop' = IF loop.todo = {c} THEN FreeLoop
                   ELSE [loop EXCEPT !.todo = @ \ {c}, !.seen[c] = Absent]
  BY DEF SyncRecord
<1>3. GroupsOK' /\ direct' \in [Names -> SUBSET Users]
  <2>1. CASE UNCHANGED <<group, direct>> BY <1>1, <2>1 DEF GroupsOK, RestOK
  <2>2. CASE ApplyRoleBindings(loop.seen[c].spec, loop.seen[c].pid, loop.seen[c].gid) BY <1>1, <2>2, BindingsApplied
  <2> QED BY <1>2, <2>1, <2>2
<1>4. ids' = ids + 0 BY <1>1
<1>5. ProjectsOK' /\ ProjectsNamed(None) BY <1>1, <1>4, ProjectsStay
<1>6. CloudOK' BY <1>1, <1>3, <1>5 DEF CloudOK, Typed, PartsOK, RestOK, IdsOK
<1>7. Untouched /\ Spent /\ news' \subseteq Users BY <1>1 DEF Untouched, Spent, Typed, LoopOK
<1>8. CASE loop' = FreeLoop BY <1>5, <1>6, <1>7, <1>8, FreedKeeps
<1>9. CASE loop' = [loop EXCEPT !.todo = @ \ {c}, !.seen[c] = Absent]
  <2> DEFINE seen == [loop.seen EXCEPT ![c] = Absent]
             todo == loop.todo \ {c}
  <2>1. loop' = [loop EXCEPT !.todo = todo, !.seen = seen] BY <1>1, <1>9 DEF Loop
  <2>2. todo \subseteq Records /\ seen \in [Records -> Record] BY <1>1, AbsentIs DEF Loop
  <2> HIDE DEF todo, seen
  <2>3. loop' \in Loop /\ loop'.at = "sync" /\ loop'.doomed = {} BY <1>1, <2>1, <2>2 DEF Loop
  <2> QED BY <1>5, <1>6, <1>7, <2>3, SyncingKeeps
<1> QED BY <1>2, <1>8, <1>9

------------------------------------------------------------------------------
LEMMA InitInv == Init => Inv
<1> SUFFICES ASSUME Init PROVE Inv OBVIOUS
<1>1. /\ cr = [c \in Records |-> Absent] /\ born = 0 /\ second = 0 /\ plan \in Plans /\ events = 0
      /\ project = [n \in Names |-> NoProject] /\ group = [g \in GroupNames |-> NoGroup]
      /\ direct = [n \in Names |-> {}] /\ parts = {} /\ keys = {} /\ rules = [g \in GroupNames |-> {}]
      /\ known \subseteq Users /\ ids = 0
      /\ task = [c \in Records |-> NoTask] /\ tick = [c \in Records |-> NoTick]
      /\ loop = FreeLoop /\ waived = {} /\ news = {}
  BY DEF Init, InitRecords, InitCloud
<1>2. 0 \in 0..MaxIds /\ 0 \in 0..MaxEvents BY NoTaskIs
<1>3. ProjectsOK /\ GroupsOK BY <1>1, Rows DEF ProjectsOK, GroupsOK
<1>4. PartsOK /\ RestOK /\ IdsOK BY <1>1, <1>2 DEF PartsOK, RestOK, IdsOK
<1>5. CrOK /\ CountsOK BY <1>1, <1>2, AbsentIs DEF CrOK, CountsOK
<1>6. TaskOK /\ TickOK BY <1>1, NoTaskIs, NoTickIs DEF TaskOK, TickOK
<1>7. LoopOK BY <1>1, FreeLoopIs DEF LoopOK
<1>8. Typed BY <1>3, <1>4, <1>5, <1>6, <1>7 DEF Typed
<1>9. \A c \in Records : cr[c] = Absent /\ task[c] = NoTask /\ tick[c] = NoTick BY <1>1
<1>10. Fits(Absent, NoTask, NoTick) /\ ~Claims(Absent, NoTask, NoTick)
  BY NoRuns, AbsentIs DEF Fits, Claims, Runs, Ticks, KindsOf
<1>11. LifeInv /\ ClaimInv BY <1>9, <1>10 DEF LifeInv, ClaimInv
<1>12. AgeInv
  <2>1. \A c \in Records : cr[c].born = 0 /\ cr[c].stamp = 0 BY <1>9, AbsentIs
  <2> QED BY <1>1, <2>1 DEF AgeInv
<1>13. ApartInv
  <2>1. \A n \in Names : project[n].id = 0 BY <1>1, Rows
  <2>2. \A c \in Records : cr[c].pid = 0 /\ task[c].put.pid = 0 /\ tick[c].pid = 0 BY <1>9, NoRuns, AbsentIs
  <2>3. loop.doomed = {} BY <1>1, FreeLoopIs
  <2> QED BY <2>1, <2>2, <2>3 DEF ApartInv, Uses, RowUses
<1>14. DeleteInv BY <1>9, NoRuns DEF DeleteInv
<1>15. CollectInv /\ LoopInv BY <1>1, FreeLoopIs DEF CollectInv, LoopInv
<1> QED BY <1>8, <1>11, <1>12, <1>13, <1>14, <1>15 DEF Inv

LEMMA NextInv == Inv /\ [Next]_vars => Inv'
<1> SUFFICES ASSUME Inv, [Next]_vars PROVE Inv' OBVIOUS
<1>1. \A c \in Records : Typed /\ Row(c) BY DEF Inv, LifeInv, Row
<1>2. ASSUME NEW c \in Records, UserAction(c), UNCHANGED <<handlers, news>> PROVE Inv'
  BY <1>2, UserKeeps, CreateKeeps DEF UserAction
<1>3. ASSUME NEW c \in Records, ChangeHandler(c), news' = news PROVE Inv'
  <2>1. CASE StartCreate(c) \/ StartUpdate(c) BY <1>3, <2>1, BeginKeeps
  <2>2. CASE Claim(c) BY <1>3, <2>2, ClaimKeeps
  <2>3. CASE EnsureProject(c) BY <1>1, <1>3, <2>3, EnsureProjectAdvances, AdvancesKeep
  <2>4. CASE MarkProject(c) BY <1>1, <1>3, <2>4, MarkProjectAdvances, AdvancesKeep
  <2>5. CASE EnsureGroup(c) BY <1>1, <1>3, <2>5, EnsureGroupAdvances, AdvancesKeep
  <2>6. CASE Furnish(c) BY <1>1, <1>3, <2>6, FurnishAdvances, AdvancesKeep
  <2>7. CASE Retag(c) BY <1>1, <1>3, <2>7, RetagAdvances, AdvancesKeep
  <2>8. CASE Refurnish(c) BY <1>1, <1>3, <2>8, RefurnishAdvances, AdvancesKeep
  <2>9. CASE Bind(c) BY <1>1, <1>3, <2>9, BindAdvances, AdvancesKeep
  <2>10. CASE ReadRules(c) \/ WriteRules(c) BY <1>1, <1>3, <2>10, RulesAdvance, AdvancesKeep
  <2>11. CASE PatchReady(c) \/ PatchError(c) BY <1>3, <2>11, PatchKeeps
  <2> QED BY <1>3, <2>1, <2>2, <2>3, <2>4, <2>5, <2>6, <2>7, <2>8, <2>9, <2>10, <2>11 DEF ChangeHandler
<1>4. ASSUME NEW c \in Records, DeleteHandler(c), news' = news PROVE Inv'
  <2>1. CASE StartDelete(c) BY <1>4, <2>1, BeginKeeps
  <2>2. CASE ListForDelete(c) BY <1>4, <2>2, ListForDeleteKeeps
  <2>3. CASE ReadForDelete(c) \/ WriteForDelete(c) BY <1>1, <1>4, <2>3, RulesAdvance, AdvancesKeep
  <2>4. CASE Destroy(c) BY <1>1, <1>4, <2>4, DestroyAdvances, AdvancesKeep
  <2>5. CASE ReleaseRecord(c) BY <1>4, <2>5, ReleaseKeeps
  <2> QED BY <1>4, <2>1, <2>2, <2>3, <2>4, <2>5 DEF DeleteHandler
<1>5. ASSUME NEW c \in Records, Timer(c), news' = news PROVE Inv'
  BY <1>5, StartTickKeeps, CheckKeeps, TickWorkKeeps, PatchTickKeeps DEF Timer
<1>6. ASSUME NEW c \in Records, Fail(c) \/ FailDelete(c) \/ FailTick(c), news' = news PROVE Inv'
  <2>1. CASE Fail(c) BY <1>1, <1>6, <2>1, FailAdvances, AdvancesKeep
  <2>2. CASE FailDelete(c) BY <1>6, <2>2, FailDeleteKeeps
  <2>3. CASE FailTick(c) BY <1>6, <2>3, TickWorkKeeps
  <2> QED BY <1>6, <2>1, <2>2, <2>3
<1>7. CASE Collector
  BY <1>7, StartCollectionKeeps, FindOrphansKeeps, CollectOrphanKeeps, EndCollectionKeeps DEF Collector
<1>8. CASE Listener BY <1>8, StartSyncKeeps, SyncRecordKeeps DEF Listener
<1>9. ASSUME NEW n \in Names, LoseProject(n), UNCHANGED <<handlers, news>> PROVE Inv'
  BY <1>9, LoseProjectKeeps
<1>10. ASSUME NEW u \in Users, UserAppears(u) PROVE Inv' BY <1>10, UserAppearsKeeps
<1>11. CASE Crash BY <1>11, CrashKeeps
<1>12. CASE UNCHANGED vars
  <2>1. /\ UNCHANGED <<cloud, cr, born, second, plan, events, task, tick, loop, waived, news>>
    BY <1>12 DEF vars, records, handlers
  <2>2. CloudOK' /\ ProjectsNamed(None) BY <2>1, CloudStays DEF Inv
  <2>3. Untouched /\ Spent /\ news' \subseteq Users BY <2>1 DEF Untouched, Spent, Inv, Typed, LoopOK
  <2> QED BY <2>1, <2>2, <2>3, OutsideKeeps
<1> QED BY <1>2, <1>3, <1>4, <1>5, <1>6, <1>7, <1>8, <1>9, <1>10, <1>11, <1>12 DEF Next

\* Which handlers run together, whose claim is older, which project an id stands for,
\* what a deletion has listed and what the collector may take: always as Inv says, of
\* records that have kept their name, beside others that were renamed (EditRecord).
THEOREM InvariantHolds == Spec => []Inv
BY InitInv, NextInv, PTL DEF Spec

\* Two records that are Ready with the same project were created in the same second, or
\* one of them could not list the others (find_project_owner_cr), or was given another
\* name: update_project looks for no owner.
THEOREM OneOwnerHolds == Spec => []OneOwner
<1>1. Inv => OneOwner
  <2> SUFFICES ASSUME Inv, NEW c \in Records, NEW d \in Records, c # d,
                      Live(c), Live(d), cr[c].phase = "Ready", cr[d].phase = "Ready",
                      ~cr[c].renamed, ~cr[d].renamed,
                      cr[c].pid # 0, cr[c].pid = cr[d].pid, c \notin waived, d \notin waived
               PROVE  cr[c].stamp = cr[d].stamp
    BY DEF OneOwner, KeptName
  <2>1. Claims(cr[c], task[c], tick[c]) /\ Claims(cr[d], task[d], tick[d])
    BY DEF Inv, LifeInv, Fits, Claims
  <2>2. NoElder(c) /\ NoElder(d) BY <2>1 DEF Inv, ClaimInv
  <2>3. Uses(cr[c].spec.name, cr[c].pid) /\ Uses(cr[d].spec.name, cr[c].pid) BY DEF Uses, RowUses
  <2>4. cr[c].spec.name = cr[d].spec.name BY <2>3 DEF Inv, ApartInv
  <2>5. cr[c].stamp \in Nat /\ cr[d].stamp \in Nat BY NoTaskIs DEF Inv, Typed, CrOK, Record
  <2> QED BY <2>2, <2>4, <2>5 DEF NoElder
<1> QED BY <1>1, InvariantHolds, PTL

\* The collector deletes no project that the status of a record, or a handler that runs,
\* relies on, whatever happened since it listed the records, as long as the record has
\* kept its name: the list is one of names (garbage_collector).
THEOREM CollectorSparesUsedHolds == Spec => CollectorSparesUsed
<1> DEFINE Spares ==
      CollectOrphan =>
        \A n \in Names : project'[n] # project[n] =>
          \A c \in Records : KeptName(c) =>
            /\ Present(c) => cr[c].pid # project[n].id
            /\ task[c].at # "idle" => task[c].put.pid # project[n].id
<1>1. Inv => Spares
  <2> SUFFICES ASSUME Inv, CollectOrphan, NEW n \in Names, project'[n] # project[n],
                      NEW c \in Records, ~cr[c].renamed
               PROVE  /\ Present(c) => cr[c].pid # project[n].id
                      /\ task[c].at # "idle" => task[c].put.pid # project[n].id
    BY DEF KeptName
  <2>1. PICK o \in loop.doomed : project' \in {project, DeletedProject(o.id)}
    BY DEF CollectOrphan
  <2>2. loop.at = "collect" BY DEF CollectOrphan
  <2>3. project[n].id = o.id BY <2>1 DEF DeletedProject
  <2>4. o.id # 0 /\ o.name \notin loop.expected BY <2>2 DEF Inv, CollectInv
  <2>5. Uses(o.name, o.id) BY DEF Uses
  <2>6. \A m : Uses(m, o.id) => m = o.name BY <2>4, <2>5 DEF Inv, ApartInv
  <2>7. ASSUME Present(c), cr[c].pid = o.id PROVE FALSE
    <3>1. cr[c].spec.name = o.name BY <2>6, <2>7 DEF Uses, RowUses
    <3> QED BY <2>2, <2>4, <2>7, <3>1 DEF Inv, CollectInv
  <2>8. ASSUME task[c].at # "idle", task[c].put.pid = o.id PROVE FALSE
    <3>1. task[c].spec.name = o.name BY <2>6, <2>8 DEF Uses, RowUses
    <3>2. cr[c].spec.name = o.name BY <2>8, <3>1 DEF Inv, LifeInv, Fits
    <3>3. Present(c) BY <2>8, Idle DEF Present
    <3> QED BY <2>2, <2>4, <2>8, <3>2, <3>3 DEF Inv, CollectInv
  <2> QED BY <2>3, <2>7, <2>8
<1>2. Inv => [Spares]_vars BY <1>1
<1> QED BY <1>2, InvariantHolds, PTL DEF CollectorSparesUsed

\* Only Destroy takes a deletion on from its last call.
LEMMA Released ==
  ASSUME Inv, [Next]_vars, NEW c \in Records, At(c, "destroy"), task'[c].at = "release"
  PROVE  Destroy(c)
<1> SUFFICES ASSUME ~Destroy(c) PROVE FALSE OBVIOUS
<1>1. DOMAIN task = Records /\ task[c].at = "destroy" BY DEF Inv, Typed, TaskOK, At
<1>2. task' # task BY <1>1
<1>3. ASSUME NEW d \in Records, ChangeHandler(d) PROVE FALSE
  <2>1. CASE d = c
    <3>1. ~Begin(c, "create", "claim", 0, [StatusOf(c) EXCEPT !.pid = 0, !.gid = 0]) /\ ~StartCreate(c) /\ ~StartUpdate(c)
      BY <1>1 DEF StartCreate, StartUpdate, Begin
    <3> QED BY <1>1, <1>3, <2>1, <3>1
          DEF ChangeHandler, Claim, EnsureProject, MarkProject, EnsureGroup, Furnish, Retag, Refurnish, Bind,
              ReadRules, WriteRules, PatchReady, PatchError, At
  <2>2. CASE d # c
    <3>1. CASE StartCreate(d) \/ StartUpdate(d) BY <1>1, <2>2, <3>1 DEF StartCreate, StartUpdate, Begin
    <3>2. CASE Claim(d) \/ Retag(d) \/ Bind(d) \/ ReadRules(d) \/ WriteRules(d)
      BY <1>1, <2>2, <3>2 DEF Claim, Retag, Bind, ReadRules, WriteRules, Go
    <3>3. CASE EnsureProject(d) \/ MarkProject(d) \/ EnsureGroup(d)
      BY <1>1, <2>2, <3>3 DEF EnsureProject, MarkProject, EnsureGroup, Go, FailEarly
    <3>4. CASE Furnish(d) BY <1>1, <2>2, <3>4 DEF Furnish
    <3>5. CASE Refurnish(d) BY <1>1, <2>2, <3>5 DEF Refurnish
    <3>6. CASE PatchReady(d) \/ PatchError(d) BY <1>1, <2>2, <3>6 DEF PatchReady, PatchError
    <3> QED BY <1>3, <3>1, <3>2, <3>3, <3>4, <3>5, <3>6 DEF ChangeHandler
  <2> QED BY <2>1, <2>2
<1>4. ASSUME NEW d \in Records, DeleteHandler(d) PROVE FALSE
  <2>1. CASE d = c
    BY <1>1, <1>4, <2>1 DEF DeleteHandler, StartDelete, Begin, ListForDelete, ReadForDelete, WriteForDelete, ReleaseRecord, At
  <2>2. CASE d # c
    <3>1. CASE StartDelete(d) BY <1>1, <2>2, <3>1 DEF StartDelete, Begin
    <3>2. CASE ListForDelete(d) BY <1>1, <2>2, <3>2 DEF ListForDelete, Unreferenced
    <3>3. CASE ReadForDelete(d) \/ WriteForDelete(d) \/ Destroy(d) \/ ReleaseRecord(d)
      BY <1>1, <2>2, <3>3 DEF ReadForDelete, WriteForDelete, Destroy, ReleaseRecord, Go
    <3> QED BY <1>4, <3>1, <3>2, <3>3 DEF DeleteHandler
  <2> QED BY <2>1, <2>2
<1>5. ASSUME NEW d \in Records, Fail(d) \/ FailDelete(d) PROVE FALSE
  <2>1. CASE d = c BY <1>1, <1>5, <2>1 DEF Fail, FailDelete
  <2>2. CASE d # c BY <1>1, <1>5, <2>2 DEF Fail, FailDelete, FailEarly, Go
  <2> QED BY <2>1, <2>2
<1>6. ASSUME NEW d \in Records, FailTick(d) \/ Timer(d) \/ (UserAction(d) /\ UNCHANGED handlers) PROVE task' = task
  <2>1. CASE FailTick(d) BY <2>1 DEF FailTick, TickStep
  <2>2. CASE Timer(d)
    BY <2>2 DEF Timer, StartTick, Check, TickBind, TickReadRules, TickWriteRules, PatchTick, TickStep
  <2>3. CASE UNCHANGED handlers BY <2>3 DEF handlers
  <2> QED BY <1>6, <2>1, <2>2, <2>3
<1>7. CASE Collector \/ Listener
  <2>1. task' = task
    BY <1>7 DEF Collector, Listener, StartCollection, FindOrphans, CollectOrphan, EndCollection, SyncRecord,
                StartSync, LoopStep
  <2> QED BY <1>2, <2>1
<1>8. CASE Crash BY <1>1, <1>8, NoRuns DEF Crash
<1>9. ASSUME NEW n \in Names, LoseProject(n), UNCHANGED handlers PROVE task' = task BY <1>9 DEF handlers
<1>10. ASSUME NEW u \in Users, UserAppears(u) PROVE task' = task BY <1>10 DEF UserAppears, handlers
<1>11. CASE UNCHANGED vars BY <1>2, <1>11 DEF vars, handlers
<1> QED BY <1>2, <1>3, <1>4, <1>5, <1>6, <1>7, <1>8, <1>9, <1>10, <1>11 DEF Next

\* The deletion of a record that has kept its name destroys the project of that name only,
\* and only if every other record of the name is younger than its listing of the records, or
\* has come to the name since (delete_project_handler).
THEOREM DeletionSparesListedHolds == Spec => DeletionSparesListed
<1> DEFINE Spares ==
      \A c \in Records :
        At(c, "destroy") /\ task'[c].at = "release" /\ KeptName(c) =>
          \A n \in Names : project'[n] # project[n] =>
            /\ n = N(c)
            /\ \A d \in Duplicates(c, n) : KeptName(d) => cr[d].born > task[c].listed
<1>1. Inv /\ [Next]_vars => Spares
  <2> SUFFICES ASSUME Inv, [Next]_vars, NEW c \in Records, At(c, "destroy"), task'[c].at = "release",
                      ~cr[c].renamed, NEW n \in Names, project'[n] # project[n]
               PROVE  /\ n = N(c)
                      /\ \A d \in Duplicates(c, n) : KeptName(d) => cr[d].born > task[c].listed
    BY DEF KeptName
  <2>1. Destroy(c) BY Released
  <2>2. project' \in {project, DeletedProject(Pid(c))} BY <2>1 DEF Destroy
  <2>3. project[n].id = Pid(c) BY <2>2 DEF DeletedProject
  <2>4. Pid(c) # 0
    <3>1. Fits(cr[c], task[c], tick[c]) /\ task[c].at = "destroy" BY DEF Inv, LifeInv, At
    <3> QED BY <3>1 DEF Fits, Runs, KindsOf, Pid
  <2>5. Uses(n, Pid(c)) /\ Uses(N(c), Pid(c)) BY <2>3 DEF Uses, RowUses, N, Pid
  <2>6. n = N(c) BY <2>4, <2>5 DEF Inv, ApartInv
  <2> QED BY <2>6 DEF Inv, DeleteInv, At, KeptName
<1>2. Inv /\ [Next]_vars => [Spares]_vars BY <1>1
<1> QED BY <1>2, InvariantHolds, PTL DEF DeletionSparesListed, Spec
=============================================================================
