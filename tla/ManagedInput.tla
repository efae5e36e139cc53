---------------------------- MODULE ManagedInput ----------------------------
(***************************************************************************)
(* What the customer-cluster operator makes of a ManagedCluster and its    *)
(* ClusterProfile: the immutable input of a provisioning Job, its three    *)
(* hashes, the files that the worker publishes for it and the checks of    *)
(* those that are in Git. A hash is the data that it is taken of.          *)
(***************************************************************************)
EXTENDS Integers, Sequences, FiniteSets, SequencesExt

CONSTANTS
  Infras,     \* infrastructure settings: of a declaration and of a profile
  Policies,   \* inventory policy: host names, node interface, interpreter
  Groups,     \* extra security groups
  MaxUids,    \* bound: ManagedClusters of the name, one after the other
  MaxGens,    \* bound: generations of a ManagedCluster and of its profile
  MaxBuckets  \* bound: verification intervals

ASSUME ManagedInputAssumption ==
  /\ MaxUids \in Nat \ {0} /\ MaxGens \in Nat \ {0} /\ MaxBuckets \in Nat
  /\ IsFiniteSet(Groups)

\* A declaration: `sound` stands for what build_input refuses beyond the groups.
Declaration == [infra : Infras, dns : Policies, extra : Seq(Groups), suspend : BOOLEAN,
                sound : BOOLEAN]
NoSpec == [infra |-> "none"]

\* metadata.generation, spec.openstack and network, spec.ansible.
Profile == [gen : 1..MaxGens, infra : Infras, ansible : Policies]

\* The extra security groups in canonical form; a name that is used twice is refused.
UsesTwice(spec) == Cardinality(Range(spec.extra)) < Len(spec.extra)
ExtraGroups(spec) == Range(spec.extra)

Invalid == [uid |-> 0]

InventoryParameters(spec, profile) == <<spec.dns, profile.ansible>>

BuildInput(spec, profile, uid) ==
  IF ~spec.sound \/ UsesTwice(spec) THEN Invalid
  ELSE [uid |-> uid, infra |-> <<spec.infra, profile.infra>>,
        inventory |-> InventoryParameters(spec, profile), revision |-> profile.gen,
        extra |-> ExtraGroups(spec)]

Input == [uid : 1..MaxUids, infra : Infras \X Infras, inventory : Policies \X Policies,
          revision : 1..MaxGens, extra : SUBSET Groups]

\* inputHash protects what is provisioned: neither inventory, revision nor groups.
NoHash == [uid |-> 0]
InputHash(input) == [uid |-> input.uid, infra |-> input.infra]
PublicationHash(input) == input

JobName(input, gen, bucket) ==
  [input |-> PublicationHash(input), gen |-> gen, bucket |-> bucket]
NoName == [input |-> Invalid, gen |-> 0, bucket |-> 0]
-----------------------------------------------------------------------------
(* The files. A tree has the declaration, the hosts and the policy, and   *)
(* whose worker made it. A file that no operator wrote has the owner Manual. *)

Absent == 0
Manual == -1

NoFile == [owner |-> Absent]
Hosts == [owner : {Manual}] \cup [owner : 1..MaxUids, infra : Infras \X Infras] \cup {NoFile}
Policy == [owner : {Manual} \cup (1..MaxUids), document : Policies \X Policies] \cup {NoFile}
Tree == [source : Declaration \cup {NoSpec}, hosts : Hosts, policy : Policy,
         by : Input \cup {Invalid}]

InventoryDocument(input) == [owner |-> input.uid, infra |-> input.infra]
PolicyDocument(input) == input.inventory
RenderedPolicy(input) == [owner |-> input.uid, document |-> PolicyDocument(input)]

\* The declaration at the checked-out commit is the one the Job was made for.
ValidSource(source, input) ==
  /\ source # NoSpec
  /\ ~source.suspend
  /\ source.infra = input.infra[1]
  /\ source.dns = input.inventory[1]

\* Hosts bear the operator's marker, which names no ManagedCluster.
ValidHosts(hosts) == hosts.owner # Manual

\* A generated policy must be this ManagedCluster's; a manual one must say the same.
ValidPolicy(policy, input) ==
  \/ policy.owner \in {Absent, input.uid}
  \/ policy.owner = Manual /\ policy.document = PolicyDocument(input)

\* policy_content: a manual policy is preserved verbatim.
PolicyContent(policy, input) ==
  IF policy.owner = Manual THEN policy ELSE RenderedPolicy(input)

ReadableTargets(tree, input) ==
  /\ ValidSource(tree.source, input)
  /\ ValidHosts(tree.hosts)
  /\ ValidPolicy(tree.policy, input)
=============================================================================
