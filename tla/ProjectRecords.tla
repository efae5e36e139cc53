--------------------------- MODULE ProjectRecords ---------------------------
(***************************************************************************)
(* The OpenstackProject records in Kubernetes, their users, and what kopf  *)
(* keeps about them: the last handled spec, the finalizer and the status   *)
(* that handlers patch when they end.                                      *)
(*                                                                         *)
(* Records are numbered in the order of namespace and name. Their creation *)
(* stamps have a resolution of one second, so that two records can carry   *)
(* the same stamp whichever was created first.                             *)
(***************************************************************************)
EXTENDS OpenStackCloud

CONSTANTS
  Records,        \* OpenstackProject records, numbered by namespace and name
  Plans,          \* what may happen: [wishes, logins, events, threads]
  MaxEvents       \* bound: the most events of a plan

\* A plan bounds an instance: the specs each record may be given, the users that
\* have yet to log in, how many changes by users and faults (crashes, failed calls,
\* lost projects) there are, and how many handlers run at the same time.
ASSUME RecordsAssumption ==
  /\ Records \subseteq Nat \ {0}
  /\ IsFiniteSet(Records)
  /\ MaxEvents \in Nat
  /\ \A p \in Plans : p.events \in 0..MaxEvents /\ p.threads \in Nat
  /\ \A p \in Plans, c \in Records : p.wishes[c] \subseteq Wish

VARIABLES
  cr,       \* each record
  born,     \* records created so far
  second,   \* the clock of creation stamps
  plan,     \* the plan, chosen at first
  events    \* changes by users and faults so far

records == <<cr, born, second, plan, events>>

NoWish == [name |-> None]
Phases == {"", "Ready", "Error", "Pending"}

\* A record: whether it is there, its age, its spec and what kopf and the
\* handlers wrote into it (last-handled spec, finalizer, status). Whether it was
\* ever given another name is history, which no step reads.
Record == [at : {"absent", "live", "deleting"}, born : 0..MaxEvents, stamp : 0..MaxEvents,
           renamed : BOOLEAN, spec : Wish \cup {NoWish}, handled : Wish \cup {NoWish}, held : BOOLEAN,
           phase : Phases, pid : 0..MaxIds, gid : 0..MaxIds, parts : [Kinds -> 0..MaxIds]]

NoParts == [k \in Kinds |-> 0]
Absent == [at |-> "absent", born |-> 0, stamp |-> 0, renamed |-> FALSE, spec |-> NoWish, handled |-> NoWish,
           held |-> FALSE, phase |-> "", pid |-> 0, gid |-> 0, parts |-> NoParts]

Present(c) == cr[c].at # "absent"
Live(c) == cr[c].at = "live"
Named(n) == {c \in Records : Present(c) /\ cr[c].spec.name = n}

RecordsTypeOK ==
  /\ cr \in [Records -> Record]
  /\ born \in 0..MaxEvents
  /\ second \in 0..MaxEvents
  /\ plan \in Plans
  /\ events \in 0..MaxEvents

InitRecords ==
  /\ cr = [c \in Records |-> Absent]
  /\ born = 0
  /\ second = 0
  /\ plan \in Plans
  /\ events = 0
-----------------------------------------------------------------------------
(* The claims of records to a project.                                     *)

\* find_duplicate_project_crs: the other records of the same project.
Duplicates(c, n) == Named(n) \ {c}

\* _cr_precedence_key: oldest first, then namespace and name.
Precedes(d, c) ==
  \/ cr[d].stamp < cr[c].stamp
  \/ cr[d].stamp = cr[c].stamp /\ d < c

\* A slip in Owners: only a record that provisioned the project has a claim.
OwnersProvisioned(c, n) == {d \in Duplicates(c, n) : cr[d].at # "deleting" /\ cr[d].pid # 0}

\* find_project_owner_cr: those with a prior claim, the deleted ones apart.
Owners(c, n) ==
  {d \in Duplicates(c, n) : cr[d].at # "deleting" /\ (cr[d].pid # 0 \/ Precedes(d, c))}
-----------------------------------------------------------------------------
(* Users and the world outside.                                            *)

Event == /\ events < plan.events
         /\ events' = events + 1

\* A user, the portal or ArgoCD creates a record, in this second or a later one.
CreateRecord(c) ==
  /\ Event
  /\ cr[c].at = "absent"
  /\ \E w \in plan.wishes[c], later \in 0..1 :
       /\ cr' = [cr EXCEPT ![c] = [Absent EXCEPT !.at = "live", !.born = born + 1,
                                     !.stamp = second + later, !.spec = w]]
       /\ second' = second + later
  /\ born' = born + 1
  /\ UNCHANGED <<cloud, plan>>

\* The spec is changed, the name of the project as well: the CRD has no field
\* that must stay.
EditRecord(c) ==
  /\ Event
  /\ Live(c)
  /\ \E w \in plan.wishes[c] :
       /\ w # cr[c].spec
       /\ cr' = [cr EXCEPT ![c].spec = w,
                            ![c].renamed = cr[c].renamed \/ w.name # cr[c].spec.name]
  /\ UNCHANGED <<cloud, born, second, plan>>

\* A record without kopf's finalizer is gone at once.
DeleteRecord(c) ==
  /\ Event
  /\ Live(c)
  /\ cr' = [cr EXCEPT ![c] = IF cr[c].held THEN [cr[c] EXCEPT !.at = "deleting"] ELSE Absent]
  /\ UNCHANGED <<cloud, born, second, plan>>

\* A call that fails, a listing that fails, a crash.
Fault == Event

\* Somebody deletes a project in OpenStack.
LoseProject(n) ==
  /\ Fault
  /\ Exists(n)
  /\ project' = [project EXCEPT ![n] = NoProject]
  /\ direct' = [direct EXCEPT ![n] = {}]
  /\ UNCHANGED <<group, parts, keys, rules, known, ids, cr, born, second, plan>>
=============================================================================
