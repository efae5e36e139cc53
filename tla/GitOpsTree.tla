----------------------------- MODULE GitOpsTree -----------------------------
(***************************************************************************)
(* The managed files of a cluster in its customer's repository, and the    *)
(* three-way merge that prepares a preview.                                *)
(*                                                                         *)
(* Of a cluster's files three things matter. The operator's allocation     *)
(* (hostname, VIP, interface) is rendered into some of them, the ACME      *)
(* contact into another; tidy says that the manifests are byte for byte    *)
(* what the portal renders and that its READMEs exist. Manifests that only *)
(* differ in form have the same meaning (_semantic).                       *)
(***************************************************************************)
EXTENDS Integers, Sequences

CONSTANTS
  Clusters,     \* the clusters that share the customer's repository
  Contacts,     \* ACME contacts
  Absent,       \* of a file that is not there
  Customer,     \* author of a commit that the portal did not make
  MaxGeneration \* bound: generations of a cluster's infrastructure

ASSUME TreeAssumption ==
  /\ Absent \notin Contacts
  /\ Absent \notin Nat
  /\ Customer \notin Nat
  /\ MaxGeneration \in Nat \ {0}

Generations == 1..MaxGeneration

Trees == [source : Generations \cup {Absent},
          contact : Contacts \cup {Absent},
          tidy : BOOLEAN]

Parts == {"source", "contact"}

Nothing == [source |-> Absent, contact |-> Absent, tidy |-> FALSE]

Rendered(generation, contact) ==
  [source |-> generation, contact |-> contact, tidy |-> TRUE]

\* The same meaning.
Matches(tree, files) == \A part \in Parts : tree[part] = files[part]

\* The tree of every cluster at a commit; before the first there is none.
TreeAt(branch, head) ==
  IF head = 0 THEN [c \in Clusters |-> Nothing] ELSE branch[head].tree

\* One file can be merged: it is new, or exists and may be adopted as it is,
\* or of its present, proposed and last published contents two agree.
FileMerges(old, now, desired, adopt) ==
  IF now = Absent THEN old = Absent
  ELSE IF old = Absent THEN adopt /\ now = desired
  ELSE now = desired \/ now = old \/ desired = old

\* A slip in MergedFile: what the portal proposes always wins.
ProposedFile(old, now, desired) == desired

\* A manual edit is kept when the portal proposes nothing new for the file.
MergedFile(old, now, desired) ==
  IF now # Absent /\ desired = old THEN now ELSE desired

Merged(baseline, tree, proposed) ==
  [source |-> MergedFile(baseline.source, tree.source, proposed.source),
   contact |-> MergedFile(baseline.contact, tree.contact, proposed.contact),
   tidy |-> TRUE]

\* All files merge, and no manual edit of the allocation is kept.
Merges(baseline, tree, proposed, adopt) ==
  /\ \A part \in Parts :
       FileMerges(baseline[part], tree[part], proposed[part], adopt)
  /\ Merged(baseline, tree, proposed).source = proposed.source
=============================================================================
