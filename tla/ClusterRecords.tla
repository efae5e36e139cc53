--------------------------- MODULE ClusterRecords ---------------------------
(***************************************************************************)
(* The cluster-scoped records in Kubernetes, the registry ConfigMap, their *)
(* users and the world outside. Each record has one kind for ever; its     *)
(* number stands for its name, and orders the records of a kind.           *)
(***************************************************************************)
EXTENDS ClusterCloud

CONSTANTS
  Records,     \* cluster-scoped records
  Plans,       \* what may happen: [kinds, wishes, events, threads]
  MaxEvents    \* bound: the most events of a plan

\* A plan bounds an instance: the kind of each record, the specs it may be given,
\* how many changes and faults there are, and how many handlers run at a time.
ASSUME ClusterRecordsAssumption ==
  /\ Records \subseteq Nat \ {0}
  /\ IsFiniteSet(Records)
  /\ MaxEvents \in Nat
  /\ \A p \in Plans : /\ p.events \in 0..MaxEvents
                      /\ p.threads \in Nat
                      /\ \A c \in Records : p.kinds[c] \in Kinds /\ p.wishes[c] \subseteq Wish

VARIABLES
  cr,         \* each record
  registry,   \* the ConfigMap: by kind and name of a resource, its id and record
  plan,       \* the plan, chosen at first
  events,     \* changes and faults so far
  imports     \* images made for each record so far

records == <<cr, registry, plan, events, imports>>

Kind(c) == plan.kinds[c]
NoWish == [name |-> "none"]
NoEntry == [id |-> 0, cr |-> 0]

\* A record: its spec, what kopf keeps (last handled spec, finalizer) and its
\* status: phase, id of the resource, import retries, and importStartedAt, which
\* is absent (0), at most 600 seconds ago (1) or longer ago (2).
Record == [at : {"absent", "live", "deleting"}, spec : Wish \cup {NoWish},
           handled : Wish \cup {NoWish}, held : BOOLEAN,
           phase : {"", "Provisioning", "Pending", "Ready", "Error"}, id : 0..MaxIds,
           tries : 0..3, began : 0..2]
Absent == [at |-> "absent", spec |-> NoWish, handled |-> NoWish, held |-> FALSE,
           phase |-> "", id |-> 0, tries |-> 0, began |-> 0]

Present(c) == cr[c].at # "absent"
Live(c) == cr[c].at = "live"

Registry == [Kinds -> [Names -> [id : 0..MaxIds, cr : Records \cup {0}]]]
EmptyBlob == [n \in Names |-> NoEntry]

RecordsTypeOK ==
  /\ cr \in [Records -> Record]
  /\ registry \in Registry
  /\ plan \in Plans
  /\ events \in 0..MaxEvents
  /\ imports \in [Records -> 0..MaxIds]

InitRecords ==
  /\ cr = [c \in Records |-> Absent]
  /\ registry = [k \in Kinds |-> EmptyBlob]
  /\ plan \in Plans
  /\ events = 0
  /\ imports = [c \in Records |-> 0]
-----------------------------------------------------------------------------
Event == /\ events < plan.events
         /\ events' = events + 1
Fault == Event

CreateRecord(c) ==
  /\ Event
  /\ cr[c].at = "absent"
  /\ \E w \in plan.wishes[c] : cr' = [cr EXCEPT ![c] = [Absent EXCEPT !.at = "live", !.spec = w]]
  /\ UNCHANGED <<stock, ids, registry, plan, imports>>

EditRecord(c) ==
  /\ Event
  /\ Live(c)
  /\ \E w \in plan.wishes[c] \ {cr[c].spec} : cr' = [cr EXCEPT ![c].spec = w]
  /\ UNCHANGED <<stock, ids, registry, plan, imports>>

DeleteRecord(c) ==
  /\ Event
  /\ Live(c)
  /\ cr' = [cr EXCEPT ![c] = IF cr[c].held THEN [cr[c] EXCEPT !.at = "deleting"] ELSE Absent]
  /\ UNCHANGED <<stock, ids, registry, plan, imports>>

\* Somebody else deletes a resource, or uploads an image of a record's name.
LoseResource ==
  /\ Event
  /\ \E r \in stock : stock' = stock \ {r}
  /\ UNCHANGED <<ids, cr, registry, plan, imports>>

UploadImage(c) ==
  /\ Event
  /\ Kind(c) = "image"
  /\ ids < MaxIds
  /\ \E w \in plan.wishes[c] :
       /\ w.external
       /\ stock' = {r \in stock : r.own \/ r.name # w.name} \cup {NewRow(ids + 1, "image", w, FALSE)}
  /\ ids' = ids + 1
  /\ UNCHANGED <<cr, registry, plan, imports>>

\* Glance works on an import, gives it back to the queue or ends it. It owes nothing:
\* an image may stay queued or busy for ever.
ImportGoesOn ==
  /\ \E r \in stock, s \in {"queued", "busy", "active", "killed"} :
       /\ r.state \in {"queued", "busy"} \ {s}
       /\ stock' = Replaced(r, [r EXCEPT !.state = s])
  /\ UNCHANGED <<ids, records>>

\* More than 600 seconds pass since importStartedAt. An external image is not
\* Pending for so long when it is there: the other timer comes round every 300.
ImportAges(c) ==
  /\ cr[c].began = 1
  /\ ~(cr[c].spec.external /\ cr[c].phase = "Pending")
  /\ cr' = [cr EXCEPT ![c].began = 2]
  /\ UNCHANGED <<stock, ids, registry, plan, events, imports>>
=============================================================================
