---------------------------- MODULE ClusterCloud ----------------------------
(***************************************************************************)
(* The resources of cluster-scoped records in OpenStack: domains, flavors, *)
(* images, provider networks and archive policies, and what the helpers of *)
(* resources/*.py do to them. Keystone, Nova and Gnocchi keep names unique *)
(* within a kind; Glance and Neutron do not. "core" stands for what cannot *)
(* be changed in place (vcpus, provider type, content, aggregation), and   *)
(* "extra" for what can (extra specs, settings, subnets, rules).           *)
(***************************************************************************)
EXTENDS Integers, FiniteSets, Sequences, SequencesExt

CONSTANTS
  Names,     \* spec.name of the resources
  Cores,     \* what is fixed at creation
  Extras,    \* what can be changed
  MaxIds     \* bound: ids given out

ASSUME ClusterCloudAssumption == MaxIds \in Nat

VARIABLES
  stock,     \* resources: [id, kind, name, core, extra, state, own]
  ids        \* the last id given out

Kinds == {"domain", "flavor", "image", "network", "policy"}
Unique == {"domain", "flavor", "policy"}

\* An image is bare (created, nothing imported), queued, busy (saving, importing or
\* uploading), active or killed; everything else is active. The operator's own
\* resources are told from others'.
Row == [id : 1..MaxIds, kind : Kinds, name : Names, core : Cores, extra : SUBSET Extras,
        state : {"bare", "queued", "busy", "active", "killed"}, own : BOOLEAN]

\* A spec: what it names and asks for; external images are only configured.
Wish == [name : Names, core : Cores, extra : SUBSET Extras, external : BOOLEAN]

CloudTypeOK == stock \subseteq Row /\ ids \in 0..MaxIds

InitCloud == stock = {} /\ ids = 0
-----------------------------------------------------------------------------
ById(id) == {r \in stock : r.id = id}
ByName(kind, name) == {r \in stock : r.kind = kind /\ r.name = name}
NewRow(id, kind, w, own) ==
  [id |-> id, kind |-> kind, name |-> w.name, core |-> w.core, extra |-> w.extra,
   state |-> IF kind = "image" THEN "queued" ELSE "active", own |-> own]

Replaced(r, new) == (stock \ {r}) \cup {new}

\* What a helper does to a resource that it finds by its name: ensure_domain and
\* ensure_image, or ensure_image_settings, set what can be set;
FoundDomain(r, w) == [r EXCEPT !.extra = w.extra]
FoundImage(r, w) == [r EXCEPT !.extra = w.extra]
ConfiguredImage(r, w) == [r EXCEPT !.extra = w.extra]
\* ensure_flavor adds extra specs;
FoundFlavor(r, w) == [r EXCEPT !.extra = @ \cup w.extra]
\* ensure_provider_network and ensure_archive_policy take it as it is.
FoundNetwork(r, w) == r
FoundPolicy(r, w) == r

FoundAs(r, w) ==
  CASE r.kind = "domain" -> FoundDomain(r, w)
    [] r.kind = "flavor" -> FoundFlavor(r, w)
    [] r.kind = "image" -> IF w.external THEN ConfiguredImage(r, w) ELSE FoundImage(r, w)
    [] r.kind = "network" -> FoundNetwork(r, w)
    [] r.kind = "policy" -> FoundPolicy(r, w)

\* update_subnet_properties creates the subnets that are missing and removes none.
UpdatedSubnets(r, w) == [r EXCEPT !.extra = @ \cup w.extra]

\* archive_policy_needs_update: rules can be added, nothing else changed.
Incompatible(r, w) == r.core # w.core \/ ~ r.extra \subseteq w.extra

\* What an update sets in place, by kind.
Updated(r, w) ==
  CASE r.kind \in {"domain", "image", "policy"} -> [r EXCEPT !.extra = w.extra]
    [] r.kind = "flavor" -> FoundFlavor(r, w)
    [] r.kind = "network" -> UpdatedSubnets(r, w)

\* flavor_needs_recreate, and the diff that update_network_handler examines.
NeedsRecreate(old, w) == old.core # w.core

\* delete_domain disables the domain and delete_image unprotects the image first:
\* what is left of it when the deletion itself fails.
HalfDeleted(r) == IF r.kind \in {"domain", "image"} THEN [r EXCEPT !.extra = {}] ELSE r
=============================================================================
