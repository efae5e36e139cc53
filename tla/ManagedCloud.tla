---------------------------- MODULE ManagedCloud ----------------------------
(***************************************************************************)
(* The OpenStack resources of a customer cluster, and how the worker's     *)
(* Provisioner takes each of them. One resource of each kind stands for    *)
(* all that have it: one of the four security groups, one VIP, one         *)
(* floating IP, one node with its volume and port.                         *)
(***************************************************************************)
EXTENDS ManagedInput

CONSTANTS
  MaxJobs     \* bound: Jobs that are ever created


VARIABLES
  cloud       \* the resources by name, of which OpenStack allows several

Named == {"network", "subnet", "router", "sg", "vip", "fip", "port", "keypair", "volume", "server"}
Resources == Named \cup Groups

ASSUME ManagedCloudAssumption == MaxJobs \in Nat \ {0} /\ Groups \cap Named = {}

\* A resource was made by a Job, is tagged with (or has in its metadata) the UID
\* of its owner (0: it is not tagged), and is bare (a router without interface, a
\* group without its rules or its mark, a volume without server), whole, or altered.
Row == [maker : 1..MaxJobs, owner : 0..MaxUids, infra : Infras \X Infras,
        state : {"bare", "whole", "altered"}]

CloudTypeOK == cloud \in [Resources -> SUBSET Row]
InitCloud == cloud = [r \in Resources |-> {}]

\* Which are tagged by a second call; Nova and Cinder take the metadata at once.
Tagged == {"network", "subnet", "router", "sg", "vip", "fip", "port"} \cup Groups

\* What provision ensures, and in what order.
Provisioned(input) == Named \cup input.extra
Turn(r) ==
  IF r \in Groups THEN 5
  ELSE [network |-> 1, subnet |-> 2, router |-> 3, sg |-> 4, keypair |-> 6, vip |-> 7,
        fip |-> 8, volume |-> 9, port |-> 10, server |-> 11][r]
First(todo) == CHOOSE r \in todo : \A s \in todo : Turn(r) <= Turn(s)

\* The resources that the name denotes; the name of a keypair has the UID in it.
Exact(r, uid) == IF r = "keypair" THEN {x \in cloud[r] : x.owner = uid} ELSE cloud[r]

\* A slip of Owned: what has no tag yet is adopted.
OwnedOrUntagged(row, uid) == row.owner \in {0, uid}

Owned(row, uid) == row.owner = uid

\* What the worker says of a resource that is there: it is good, it can be
\* repaired, or it is refused (OwnershipError).
NetworkFound(row, input) == "good"

SubnetFound(row, input) ==
  IF row.infra = input.infra /\ row.state = "whole" THEN "good" ELSE "refused"

RouterFound(row, input) ==
  IF row.infra # input.infra \/ row.state = "altered" THEN "refused"
  ELSE IF row.state = "bare" THEN "repaired" ELSE "good"

\* Rules that are missing are made; rules that nobody declared are refused.
SecurityGroupFound(row, input) ==
  CASE row.state = "altered" -> "refused"
    [] row.state = "bare" -> "repaired"
    [] OTHER -> "good"
ExtraGroupFound(row, input) == SecurityGroupFound(row, input)

KeypairFound(row, input) == IF row.state = "altered" THEN "refused" ELSE "good"
VipFound(row, input) ==
  IF row.infra = input.infra /\ row.state = "whole" THEN "good" ELSE "refused"

\* A floating IP that lost its port gets it back.
FloatingIpFound(row, input) == IF row.state = "altered" THEN "repaired" ELSE "good"

\* A boot volume is attached to the node's server, and to nothing when there is none.
VolumeFound(row, input) ==
  IF /\ row.infra = input.infra
     /\ row.state = IF cloud["server"] = {} THEN "bare" ELSE "whole"
  THEN "good" ELSE "refused"

\* The security groups of a port are set again, its topology is not.
NodePortFound(row, input) ==
  IF row.infra # input.infra THEN "refused"
  ELSE IF row.state = "altered" THEN "repaired" ELSE "good"

\* Another flavor or more volumes are let be; another role, key or port are not.
ServerFound(row, input) == IF row.state = "altered" THEN "refused" ELSE "good"

Found(r, row, input) ==
  IF ~Owned(row, input.uid) THEN "refused"
  ELSE CASE r = "network" -> NetworkFound(row, input)
         [] r = "subnet" -> SubnetFound(row, input)
         [] r = "router" -> RouterFound(row, input)
         [] r = "sg" -> SecurityGroupFound(row, input)
         [] r \in Groups -> ExtraGroupFound(row, input)
         [] r = "keypair" -> KeypairFound(row, input)
         [] r = "vip" -> VipFound(row, input)
         [] r = "fip" -> FloatingIpFound(row, input)
         [] r = "volume" -> VolumeFound(row, input)
         [] r = "port" -> NodePortFound(row, input)
         [] r = "server" -> ServerFound(row, input)

\* A server whose boot volume is gone is refused before the volume is made.
MayCreate(r) == r = "volume" => cloud["server"] = {}

\* What a creation leaves: a router has no interface and a group no rules yet.
Created(r, job, input) ==
  [maker |-> job, infra |-> input.infra,
   owner |-> IF r \in Tagged THEN 0 ELSE input.uid,
   state |-> IF r \in {"router", "sg", "volume"} \cup Groups THEN "bare" ELSE "whole"]

\* Whether there is more to do after the tags: the interface, the rules, the mark.
Unfinished(r) == r \in {"router", "sg"} \cup Groups

With(r, rows, f(_)) == [cloud EXCEPT ![r] = (@ \ rows) \cup {f(x) : x \in rows}]
TaggedWith(r, rows, uid) == With(r, rows, LAMBDA x : [x EXCEPT !.owner = uid])
Whole(r, rows) == With(r, rows, LAMBDA x : [x EXCEPT !.state = "whole"])

\* Owned extra groups that bear the mark and are no longer declared.
Undeclared(input) ==
  {g \in Groups \ input.extra : \E x \in cloud[g] : Owned(x, input.uid) /\ x.state # "bare"}

Pruned(input, kept) ==
  [r \in Resources |-> IF r \in Undeclared(input) \ kept
                       THEN {x \in cloud[r] : ~Owned(x, input.uid) \/ x.state = "bare"}
                       ELSE cloud[r]]
=============================================================================
