--------------------------- MODULE ClusterOperator ---------------------------
(***************************************************************************)
(* The cluster-scoped half of the OpenStack operator as a whole: handlers, *)
(* timers, the garbage collector (a daemon of every OpenstackDomain, of    *)
(* which only the first one's works), and crashes.                         *)
(***************************************************************************)
EXTENDS ClusterTimers

vars == <<stock, ids, records, task, gc>>

Collected == <<"network", "image", "flavor", "domain">>
NoGc == [expected |-> {}, kinds |-> <<>>, doomed |-> {}]

TypeOK ==
  /\ CloudTypeOK
  /\ RecordsTypeOK
  /\ task \in [Threads -> Thread]
  /\ gc \in [expected : SUBSET Records, kinds : {SubSeq(Collected, i, 4) : i \in 1..5},
             doomed : SUBSET [name : Names, id : 0..MaxIds]]

Init ==
  /\ InitCloud
  /\ InitRecords
  /\ task = [t \in Threads |-> Idle]
  /\ gc = NoGc
-----------------------------------------------------------------------------
\* The daemon of the first domain record lists the records of each kind.
StartCollection ==
  /\ LoopFree
  /\ \E c \in Records : /\ Kind(c) = "domain" /\ Live(c)
                        /\ \A d \in Records : Kind(d) = "domain" /\ Present(d) => c <= d
  /\ gc' = [expected |-> {c \in Records : Present(c)}, kinds |-> Collected, doomed |-> {}]
  /\ task' = [task EXCEPT ![Collector] = [Idle EXCEPT !.todo = <<"scan">>, !.fn = "gc"]]
  /\ KeepCloud /\ UNCHANGED records

\* A slip of Orphans: records of any kind keep what has their name.
OrphansByName(kind, expected) ==
  {[name |-> n, id |-> registry[kind][n].id] :
     n \in {m \in Names : /\ registry[kind][m] # NoEntry
                          /\ \A c \in expected : cr[c].spec.name # m}}

\* get_orphans: what is registered for records that are not there.
Orphans(kind, expected) ==
  {[name |-> n, id |-> registry[kind][n].id] :
     n \in {m \in Names : registry[kind][m] # NoEntry /\ registry[kind][m].cr \notin expected}}

Scan ==
  /\ At(Collector, "scan")
  /\ gc' = [gc EXCEPT !.doomed = Orphans(Head(gc.kinds), gc.expected)]
  /\ task' = [task EXCEPT ![Collector].todo = <<"next">>]
  /\ KeepCloud /\ UNCHANGED records

\* One orphan after the other is deleted and taken off the registry.
NextOrphan ==
  /\ At(Collector, "next")
  /\ IF gc.doomed = {}
     THEN IF Len(gc.kinds) = 1
          THEN gc' = NoGc /\ task' = [task EXCEPT ![Collector] = Idle]
          ELSE /\ gc' = [gc EXCEPT !.kinds = Tail(@)]
               /\ task' = [task EXCEPT ![Collector].todo = <<"scan">>]
     ELSE \E o \in gc.doomed :
          /\ gc' = [gc EXCEPT !.doomed = @ \ {o}]
          /\ task' = [task EXCEPT ![Collector] =
               [Idle EXCEPT !.fn = "gc", !.kind = Head(gc.kinds), !.spec = [name |-> o.name],
                            !.id = o.id, !.todo = <<"erase">> \o Unregister \o <<"next">>]]
  /\ KeepCloud /\ UNCHANGED records

Crash ==
  /\ Fault
  /\ task' = [t \in Threads |-> Idle]
  /\ gc' = NoGc
  /\ KeepCloud /\ KeepRecords

Step(t) ==
  \/ Find(t) \/ Make(t) \/ Settings(t) \/ Compare(t) \/ Erase(t)
  \/ ReadBlob(t) \/ ReadWhole(t) \/ Enlist(t) \/ Delist(t)
  \/ Look(t) \/ Poll(t) \/ Drop(t)

Handler(c) == StartChange(c) \/ Step(<<c, "change">>) \/ PatchChange(c) \/ ReleaseRecord(c)
Timer(c) == StartTimer(c) \/ Step(<<c, "timer">>) \/ PatchTimer(c, <<c, "timer">>)
Poller(c) == StartPoll(c) \/ Step(<<c, "poll">>) \/ PatchTimer(c, <<c, "poll">>)
Collection == StartCollection \/ Scan \/ NextOrphan \/ Step(Collector)
Users == \E c \in Records : CreateRecord(c) \/ EditRecord(c) \/ DeleteRecord(c) \/ UploadImage(c)

Next ==
  \/ Users /\ UNCHANGED <<task, gc>>
  \/ LoseResource /\ UNCHANGED <<task, gc>>
  \/ ImportGoesOn /\ UNCHANGED <<task, gc>>
  \/ \E c \in Records : ImportAges(c) /\ UNCHANGED <<task, gc>>
  \/ \E c \in Records : Handler(c) \/ Timer(c) \/ Poller(c)
  \/ Collection
  \/ \E t \in Threads : Fail(t)
  \/ Crash

\* Threads go on, kopf starts what is due and writes patches, the collector comes
\* round and time passes; users, faults and Glance owe nothing.
Fairness ==
  /\ \A c \in Records : /\ SF_vars(Handler(c))
                        /\ SF_vars(Timer(c))
                        /\ SF_vars(Poller(c))
                        /\ WF_vars(ImportAges(c) /\ UNCHANGED <<task, gc>>)
  /\ SF_vars(Collection)

Spec == Init /\ [][Next]_vars
FairSpec == Spec /\ Fairness
-----------------------------------------------------------------------------
(* Correctness.                                                            *)

\* The image of a record is its own affair: the record keeps its name, and no other
\* image record may take it.
NamesOf(c) == {w.name : w \in plan.wishes[c]}
Alone(c) ==
  /\ \A m, n \in NamesOf(c) : m = n
  /\ \A d \in Records \ {c} : Kind(d) = "image" => NamesOf(c) \cap NamesOf(d) = {}

\* Every change of a record, and every fault, costs at most four images of a record
\* that keeps its name and shares it with no other: the retries that the poll timer
\* counts survive the recreation by the other timer and the stale patches of handlers
\* and timers, and neither makes images without end.
ImportsBounded == \A c \in Records : Alone(c) => imports[c] <= 4 * events

\* A managed image that waits for its import, or to be made again, becomes Ready or
\* ends in an error, unless Glance has its image in work (saving, importing or
\* uploading), for which poll_image_status sets no limit: the two timers hand the
\* image to each other, and neither forgets one that is queued, lost or killed.
Waiting(c) ==
  /\ Live(c)
  /\ Kind(c) = "image"
  /\ ~cr[c].spec.external
  /\ cr[c].phase \in {"Provisioning", "Pending"}
InWork(c) == \E r \in ById(cr[c].id) : r.state = "busy"
ImportsSettle == \A c \in Records : Waiting(c) ~> ~Waiting(c) \/ InWork(c)

\* A resource that is registered for a record that is gone is collected, under
\* whichever of its names it was registered, as long as a domain record can collect
\* and unless a record of that name comes back. Archive policies are not collected.
Orphaned(c, n) ==
  /\ Kind(c) \in {Collected[i] : i \in 1..4}
  /\ registry[Kind(c)][n].cr = c
  /\ ~Present(c)
Leaderless == \A c \in Records : Kind(c) = "domain" => ~Live(c)
RegisteredCollected ==
  \A c \in Records, n \in Names : Orphaned(c, n) ~> ~Orphaned(c, n) \/ Leaderless

\* A handler or timer of an external image deletes no image that the operator did
\* not make (delete_image_handler: "External images are not deleted - we don't own them").
ExternalImagesSpared ==
  [][\A c \in Records, w \in {"change", "timer", "poll"} :
       LET th == task[<<c, w>>]
       IN Erase(<<c, w>>) \/ Drop(<<c, w>>) =>
            \A r \in stock : ~r.own /\ th.spec.external => \E s \in stock' : s.id = r.id]_vars
=============================================================================
