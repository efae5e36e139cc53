-------------------------- MODULE MCManagedCluster --------------------------
(***************************************************************************)
(* Instances of ManagedCluster for TLC.                                    *)
(***************************************************************************)
EXTENDS ManagedCluster

CONSTANTS i1, i2, d1, d2, g

Plain == [infra |-> i1, dns |-> d1, extra |-> <<>>, suspend |-> FALSE, sound |-> TRUE]
Renamed == [Plain EXCEPT !.dns = d2]
Grown == [Plain EXCEPT !.infra = i2]
Grouped == [Plain EXCEPT !.extra = <<g>>]
Twice == [Plain EXCEPT !.extra = <<g, g>>]
Suspended == [Plain EXCEPT !.suspend = TRUE]

Small == [infra |-> i1, ansible |-> d1]
Other == [infra |-> i1, ansible |-> d2]

\* The kinds of resources of most instances.
Few == {"network", "volume", "server"}

PlanOf(acts, number, threads, buckets, first, specs) ==
  [acts |-> acts, events |-> number, threads |-> threads, buckets |-> buckets, specs |-> specs,
   first |-> first, made |-> Few, manual |-> {<<d1, d1>>, <<d2, d1>>}, disturbed |-> {}, profiles |-> {Small}]
Faults == {"call", "crash", "worker", "deadline", "git", "project", "secrets"}

\* A fault at any step of the provisioning of every kind of resource.
Whole1 == [PlanOf(Faults, 1, 1, 0, Grouped, {}) EXCEPT !.made = Resources]
\* Two calls at a time, and faults anywhere.
Faulty == PlanOf(Faults, 1, 2, 0, Plain, {Plain})
\* The policy is written by hand and the profile is edited.
Written == [PlanOf({"policy", "profile"}, 2, 1, 0, Plain, {Plain}) EXCEPT !.profiles = {Small, Other},
             !.made = {"keypair"}]
\* The declaration is edited before, while and after it is provisioned.
Edited == [PlanOf({"declare"}, 1, 1, 0, Plain, {Grown, Grouped, Twice, Suspended}) EXCEPT
            !.made = {"network", g}]
\* A late call still has the declaration from before.
Renaming == [PlanOf({"declare"}, 1, 2, 0, Plain, {Renamed}) EXCEPT !.made = {"keypair"}]
\* The ManagedCluster is deleted and made again while its worker still runs.
Recreated == [PlanOf({"declare"}, 2, 1, 0, Plain, {Plain}) EXCEPT !.made = {"network"}]
\* Resources are altered or removed between two verifications.
Disturbed == [PlanOf({"disturb"}, 1, 1, 1, Grouped, {}) EXCEPT !.made = Resources,
               !.disturbed = {"router", "sg", "fip", "port", "server", g}]
\* Verifications whose history is trimmed.
Verified == [PlanOf({}, 0, 1, 2, Plain, {Plain}) EXCEPT !.made = {"network"}]

SafePlans == {Whole1, Faulty, Written, Edited, Renaming, Recreated, Disturbed, Verified}
=============================================================================
