--------------------------- MODULE ClusterHandlers ---------------------------
(***************************************************************************)
(* Handlers of cluster-scoped records. A handler, timer or collection is a *)
(* thread with the list of steps it still has to do; a step is one         *)
(* exchange with OpenStack or with the registry. kopf starts a thread with *)
(* the spec and status as they are and writes its patch when it has ended; *)
(* both need the event loop, which the collector holds while it works.     *)
(***************************************************************************)
EXTENDS ClusterRecords

VARIABLES
  task,     \* the threads
  gc        \* what the collector listed: [expected, kinds, doomed]

Collector == <<0, "gc">>
Threads == (Records \X {"change", "timer", "poll"}) \cup {Collector}

Steps == {"find", "make", "settings", "compare", "erase", "blob", "whole", "enlist", "delist",
          "look", "drop", "patch", "release", "scan", "next"}

\* A thread: its steps, its function, the resource and spec it works on, the id in
\* its hands and the one it started with, the state of the image it saw, what it
\* read of the registry, how it ended and what a timer is to write ("same" and -1
\* leave a field as it is).
Put == [phase : {"same", "Provisioning", "Pending", "Ready", "Error"}, id : -1..MaxIds,
        tries : -1..3, began : -1..2]
Thread == [todo : Seq(Steps), fn : {"none", "create", "update", "delete", "look", "recreate", "poll", "gc"},
           cr : Records \cup {0}, kind : Kinds, spec : Wish \cup [name : Names \cup {"none"}], id : 0..MaxIds,
           was : 0..MaxIds, seen : {"active", "killed", "queued", "busy"}, tries : 0..3, began : 0..2,
           blob : [Names -> [id : 0..MaxIds, cr : Records \cup {0}]], whole : Registry,
           end : {"ok", "failed", "permanent", "missing"}, put : Put]
NoRegistry == [k \in Kinds |-> EmptyBlob]
Same == [phase |-> "same", id |-> -1, tries |-> -1, began |-> -1]
Idle == [todo |-> <<>>, fn |-> "none", cr |-> 0, kind |-> "domain", spec |-> NoWish, id |-> 0,
         was |-> 0, seen |-> "active", tries |-> 0, began |-> 0, blob |-> EmptyBlob,
         whole |-> NoRegistry, end |-> "ok", put |-> Same]

Busy(t) == task[t].todo # <<>>
LoopFree == ~Busy(Collector)
ThreadFree == Cardinality({t \in Threads \ {Collector} : Busy(t)}) < plan.threads
At(t, step) == Busy(t) /\ Head(task[t].todo) = step
Rest(t) == Tail(task[t].todo)
Next1(t) == task' = [task EXCEPT ![t].todo = Rest(t)]

KeepRecords == UNCHANGED <<cr, registry, plan, imports>>
KeepCloud == UNCHANGED <<stock, ids>>
-----------------------------------------------------------------------------
(* The handlers, as the steps they take.                                   *)

Register == <<"blob", "whole", "enlist">>
Unregister == <<"blob", "whole", "delist">>

CreateDomain == <<"find", "make">> \o Register
UpdateDomain(r) == IF r.id = 0 THEN CreateDomain ELSE <<"settings">>
DeleteDomain(r) == IF r.id = 0 THEN <<>> ELSE <<"erase">> \o Unregister

CreateFlavor == <<"find", "make">> \o Register
DeleteFlavor(r) == IF r.id = 0 THEN <<>> ELSE <<"erase">> \o Unregister
UpdateFlavor(r) ==
  IF r.id = 0 THEN CreateFlavor
  ELSE IF NeedsRecreate(r.handled, r.spec)
  THEN <<"erase">> \o Unregister \o <<"find", "make">> \o Register
  ELSE <<"settings">>

\* An external image is configured; it is neither made, registered nor deleted.
CreateImage(w) == IF w.external THEN <<"find">> ELSE <<"find", "make">> \o Register
UpdateImage(r) == IF r.id = 0 THEN CreateImage(r.spec) ELSE <<"settings">>
DeleteImage(r) == IF r.spec.external \/ r.id = 0 THEN <<>> ELSE <<"erase">> \o Unregister

CreateNetwork == <<"find", "make">> \o Register
DeleteNetwork(r) == IF r.id = 0 THEN <<>> ELSE <<"erase">> \o Unregister
UpdateNetwork(r) ==
  IF r.id = 0 THEN CreateNetwork
  ELSE IF NeedsRecreate(r.handled, r.spec)
  THEN <<"erase">> \o Unregister \o <<"find", "make">> \o Register
  ELSE IF r.handled.extra # r.spec.extra THEN <<"settings">> ELSE <<>>

\* An archive policy is known by its name alone; what an update does depends on
\* the policy it finds.
CreatePolicy == <<"find", "make">> \o Register
UpdatePolicy(r) == <<"compare">>
DeletePolicy(r) == <<"erase">> \o Unregister

Created(c) ==
  CASE Kind(c) = "domain" -> CreateDomain
    [] Kind(c) = "flavor" -> CreateFlavor
    [] Kind(c) = "image" -> CreateImage(cr[c].spec)
    [] Kind(c) = "network" -> CreateNetwork
    [] Kind(c) = "policy" -> CreatePolicy
UpdatedTo(c) ==
  CASE Kind(c) = "domain" -> UpdateDomain(cr[c])
    [] Kind(c) = "flavor" -> UpdateFlavor(cr[c])
    [] Kind(c) = "image" -> UpdateImage(cr[c])
    [] Kind(c) = "network" -> UpdateNetwork(cr[c])
    [] Kind(c) = "policy" -> UpdatePolicy(cr[c])
Deleted(c) ==
  CASE Kind(c) = "domain" -> DeleteDomain(cr[c])
    [] Kind(c) = "flavor" -> DeleteFlavor(cr[c])
    [] Kind(c) = "image" -> DeleteImage(cr[c])
    [] Kind(c) = "network" -> DeleteNetwork(cr[c])
    [] Kind(c) = "policy" -> DeletePolicy(cr[c])

Started(c, fn, todo) ==
  [Idle EXCEPT !.todo = todo, !.fn = fn, !.cr = c, !.kind = Kind(c), !.spec = cr[c].spec,
               !.id = cr[c].id, !.was = cr[c].id, !.tries = cr[c].tries, !.began = cr[c].began]

StartChange(c) ==
  LET t == <<c, "change">>
      new == cr[c].handled = NoWish
  IN /\ LoopFree
     /\ ThreadFree
     /\ ~Busy(t)
     /\ \/ /\ Live(c)
           /\ cr[c].handled # cr[c].spec
           /\ task' = [task EXCEPT ![t] =
                Started(c, IF new \/ (cr[c].id = 0 /\ Kind(c) # "policy") THEN "create" ELSE "update",
                        (IF new THEN Created(c) ELSE UpdatedTo(c)) \o <<"patch">>)]
        \/ /\ cr[c].at = "deleting"
           /\ task' = [task EXCEPT ![t] = Started(c, "delete", Deleted(c) \o <<"release">>)]
     /\ cr' = [cr EXCEPT ![c].held = TRUE]
     /\ UNCHANGED <<registry, plan, events, imports, gc>>
     /\ KeepCloud
-----------------------------------------------------------------------------
(* The steps.                                                              *)

\* A handler of changes ends with an error; a timer logs it and writes what it
\* has put down until then, a collection goes on with the next orphan.
Failed(t, th) ==
  CASE th.fn \in {"create", "update"} -> [th EXCEPT !.todo = <<"patch">>, !.end = "failed"]
    [] th.fn = "delete" -> Idle
    [] th.fn \in {"look", "recreate", "poll"} -> [th EXCEPT !.todo = <<"patch">>, !.end = "failed"]
    [] th.fn = "gc" -> [th EXCEPT !.todo = IF Head(th.todo) = "scan" THEN <<>> ELSE <<"next">>]

Fail(t) ==
  /\ Fault
  /\ Busy(t)
  /\ Head(task[t].todo) \notin {"patch", "release", "next", "drop"}
  /\ task' = [task EXCEPT ![t] = Failed(t, @)]
  /\ KeepCloud /\ KeepRecords /\ UNCHANGED gc

Seen(r) == IF r.state = "bare" THEN "queued" ELSE r.state

\* The resource is looked up by its name; one that is found is brought up to date.
Find(t) ==
  /\ At(t, "find")
  /\ LET th == task[t]
         found == ByName(th.kind, th.spec.name)
     IN IF found = {}
        THEN /\ task' = [task EXCEPT ![t].todo = Rest(t), ![t].id = 0,
                           ![t].end = IF th.spec.external THEN "missing" ELSE @]
             /\ UNCHANGED stock
        ELSE \E r \in found :
             /\ task' = [task EXCEPT ![t].todo = Rest(t), ![t].id = r.id, ![t].seen = Seen(r)]
             /\ stock' = Replaced(r, FoundAs(r, th.spec))
  /\ KeepRecords /\ UNCHANGED <<ids, events, gc>>

\* What is left when the calls after the creation fail.
HalfMade(r) ==
  CASE r.kind = "image" -> [r EXCEPT !.state = "bare"]
    [] r.kind \in {"flavor", "network"} -> [r EXCEPT !.extra = {}]
    [] OTHER -> r

\* retry_on_error: a creation whose answer is lost is repeated, which makes a second
\* resource of that name where names are not unique.
Repeated(new) == {HalfMade(new), [new EXCEPT !.id = @ + 1]}

\* One that was not found is created. The calls that follow the creation may fail.
Make(t) ==
  /\ At(t, "make")
  /\ LET th == task[t]
         new == NewRow(ids + 1, th.kind, th.spec, TRUE)
         Go(id) == [task EXCEPT ![t].todo = Rest(t), ![t].id = id,
                      ![t].seen = IF th.kind = "image" THEN "queued" ELSE @]
     IN IF th.id # 0
        THEN Next1(t) /\ UNCHANGED <<stock, ids, events, imports>>
        ELSE IF th.kind \in Unique /\ ByName(th.kind, th.spec.name) # {}
        THEN task' = [task EXCEPT ![t] = Failed(t, @)] /\ UNCHANGED <<stock, ids, events, imports>>
        ELSE /\ ids + 2 <= MaxIds
             /\ \/ /\ stock' = stock \cup {new}
                   /\ ids' = ids + 1
                   /\ task' = Go(ids + 1)
                   /\ UNCHANGED events
                \/ /\ Fault
                   /\ stock' = stock \cup {HalfMade(new)}
                   /\ ids' = ids + 1
                   /\ task' = [task EXCEPT ![t] = Failed(t, @)]
                \/ /\ Fault
                   /\ th.kind \notin Unique
                   /\ stock' = stock \cup Repeated(new)
                   /\ ids' = ids + 2
                   /\ task' = Go(ids + 2)
             /\ imports' = IF th.kind = "image" THEN [imports EXCEPT ![th.cr] = @ + 1] ELSE imports
  /\ UNCHANGED <<cr, registry, plan, gc>>

Target(th) == IF th.kind = "policy" THEN ByName("policy", th.spec.name) ELSE ById(th.id)
\* No extra specs and no subnets: no call that could fail.
NothingToSet(th) == th.kind \in {"flavor", "network"} /\ th.spec.extra = {}

Settings(t) ==
  /\ At(t, "settings")
  /\ LET th == task[t]
     IN IF NothingToSet(th) THEN Next1(t) /\ UNCHANGED stock
        ELSE IF Target(th) = {} THEN task' = [task EXCEPT ![t] = Failed(t, @)] /\ UNCHANGED stock
        ELSE /\ Next1(t)
             /\ stock' = {IF r \in Target(th) THEN Updated(r, th.spec) ELSE r : r \in stock}
  /\ KeepRecords /\ UNCHANGED <<ids, events, gc>>

\* update_archive_policy_handler goes by the policy that it finds.
Compare(t) ==
  /\ At(t, "compare")
  /\ LET th == task[t]
         found == Target(th)
     IN task' = [task EXCEPT ![t] =
          IF found = {} THEN [th EXCEPT !.fn = "create", !.todo = CreatePolicy \o <<"patch">>]
          ELSE IF \E r \in found : Incompatible(r, th.spec)
          THEN [th EXCEPT !.todo = <<"patch">>, !.end = "permanent"]
          ELSE [th EXCEPT !.todo = (IF \E r \in found : r.extra # th.spec.extra
                                    THEN <<"settings">> ELSE <<>>) \o Register \o <<"patch">>,
                          !.id = (CHOOSE r \in found : TRUE).id]]
  /\ KeepCloud /\ KeepRecords /\ UNCHANGED <<events, gc>>

\* The resource is deleted; one that is gone already counts as deleted.
Erase(t) ==
  /\ At(t, "erase")
  /\ LET gone == Target(task[t])
     IN \/ /\ stock' = stock \ gone
           /\ Next1(t)
           /\ UNCHANGED events
        \/ /\ Fault
           /\ stock' = {IF r \in gone THEN HalfDeleted(r) ELSE r : r \in stock}
           /\ task' = [task EXCEPT ![t] = Failed(t, @)]
  /\ KeepRecords /\ UNCHANGED <<ids, gc>>
-----------------------------------------------------------------------------
(* The registry: a blob is read, then the whole map, and all of it written. *)

ReadBlob(t) ==
  /\ At(t, "blob")
  /\ LET th == task[t]
         blob == registry[th.kind]
         absent == th.todo[3] = "delist" /\ blob[th.spec.name] = NoEntry
     IN task' = [task EXCEPT ![t].blob = IF absent THEN EmptyBlob ELSE blob,
                             ![t].todo = IF absent THEN SubSeq(@, 4, Len(@)) ELSE Tail(@)]
  /\ KeepCloud /\ KeepRecords /\ UNCHANGED <<events, gc>>

ReadWhole(t) ==
  /\ At(t, "whole")
  /\ task' = [task EXCEPT ![t].todo = Rest(t), ![t].whole = registry]
  /\ KeepCloud /\ KeepRecords /\ UNCHANGED <<events, gc>>

Store(t, entry) ==
  /\ registry' = [task[t].whole EXCEPT ![task[t].kind] = [task[t].blob EXCEPT ![task[t].spec.name] = entry]]
  /\ task' = [task EXCEPT ![t].todo = Rest(t), ![t].blob = EmptyBlob, ![t].whole = NoRegistry]
  /\ KeepCloud /\ UNCHANGED <<cr, plan, events, imports, gc>>

Enlist(t) == At(t, "enlist") /\ Store(t, [id |-> task[t].id, cr |-> task[t].cr])
Delist(t) == At(t, "delist") /\ Store(t, NoEntry)
=============================================================================
