--------------------------- MODULE OpenStackCloud ---------------------------
(***************************************************************************)
(* What the project half of the OpenStack operator keeps in OpenStack:     *)
(* Keystone projects, groups and federation rules, Neutron networks and    *)
(* security groups, and the transit key in OpenBao. Each operator is one   *)
(* call, or one resource helper, of openstack_client.py and resources/*,   *)
(* as a function from what is there to what it leaves.                     *)
(*                                                                         *)
(* Keystone keeps the name of a project unique in its domain, and of a     *)
(* group: both are functions of the name. A group is named after the       *)
(* sanitized name of its project, so that projects may share one (a.b and  *)
(* a-b), and a rule of the mapping is found by the name of its group.      *)
(* Handlers hold ids too, and an id may outlive the name it was found by.  *)
(* Neutron keeps no name unique: the networks and security groups          *)
(* ("parts") are a set, found by the operator by their name in a project.  *)
(* A record holds at most one network and one security group, which is     *)
(* enough for what the handlers do to each.                                *)
(***************************************************************************)
EXTENDS Integers, FiniteSets, Sequences, SequencesExt

CONSTANTS
  Names,      \* spec.name of the projects, in the managed domain
  GroupNames, \* names of groups
  GroupOf,    \* the group name of each project name
  Users,
  Contracts,  \* contract numbers
  Contents,   \* what a network (its CIDR) or a security group (a rule) holds
  None,       \* an absent name, number or id
  MaxIds      \* bound: ids that OpenStack gives out

ASSUME CloudAssumption ==
  /\ GroupOf \in [Names -> GroupNames]
  /\ None \notin Names \cup Users \cup Contracts \cup Contents
  /\ MaxIds \in Nat

VARIABLES
  project,    \* by name: [id, tagged, contract, enabled]; id 0 when there is none
  group,      \* of a project's users, by group name: [id, members]
  direct,     \* users with a role of their own on the project, by project name
  parts,      \* networks and security groups: [id, kind, pid, content]
  keys,       \* ids of the projects that have a transit key
  rules,      \* the mapping's rule of each group name: its users, {} when there is none
  known,      \* users that Keystone has seen
  ids         \* the last id given out

cloud == <<project, group, direct, parts, keys, rules, known, ids>>

Kinds == {"network", "security_group"}
NoProject == [id |-> 0, tagged |-> FALSE, contract |-> None, enabled |-> FALSE]
NoGroup == [id |-> 0, members |-> {}]

\* What an OpenstackProject asks for. Bindings are the roleBindings in order,
\* each its users; a network is its CIDR or None, a security group its rules.
Wish == [name : Names, bindings : Seq(SUBSET Users), managed : BOOLEAN, fed : BOOLEAN,
         contract : Contracts \cup {None}, enabled : BOOLEAN,
         network : Contents \cup {None}, security_group : SUBSET Contents,
         repair : {0, 1}]   \* the annotation that asks for a contract tag repair

\* add_project_tag.
Tagged(row) == [row EXCEPT !.tagged = TRUE]

CloudTypeOK ==
  /\ project \in [Names -> [id : 0..MaxIds, tagged : BOOLEAN,
                            contract : Contracts \cup {None}, enabled : BOOLEAN]]
  /\ group \in [GroupNames -> [id : 0..MaxIds, members : SUBSET Users]]
  /\ direct \in [Names -> SUBSET Users]
  /\ parts \subseteq [id : 1..MaxIds, kind : Kinds, pid : 1..MaxIds, content : SUBSET Contents]
  /\ keys \subseteq 1..MaxIds
  /\ rules \in [GroupNames -> SUBSET Users]
  /\ known \subseteq Users
  /\ ids \in 0..MaxIds

\* At first there are only users that have logged in before.
InitCloud(users) ==
  /\ project = [n \in Names |-> NoProject]
  /\ group = [g \in GroupNames |-> NoGroup]
  /\ direct = [n \in Names |-> {}]
  /\ parts = {}
  /\ keys = {}
  /\ rules = [g \in GroupNames |-> {}]
  /\ known = users
  /\ ids = 0
-----------------------------------------------------------------------------
(* Keystone projects and their groups.                                     *)

Exists(n) == project[n].id # 0
HasProject(pid) == pid # 0 /\ \E n \in Names : project[n].id = pid
HasGroup(gid) == gid # 0 /\ \E g \in GroupNames : group[g].id = gid

\* make_group_name: sanitizing forgets case, dots, underscores and what is not a letter or digit.
make_group_name(n) == GroupOf[n]

\* get_project, create_project or update_project: found by name, or created
\* without a tag; the description and enabled of a found one are brought up to date.
FoundOrCreated(n, enabled) ==
  IF Exists(n) THEN [project[n] EXCEPT !.enabled = enabled]
  ELSE [NoProject EXCEPT !.id = ids + 1, !.enabled = enabled]

\* set_project_contract_tag leaves exactly the contract's tag, or none.
WithContractTag(row, contract) == [row EXCEPT !.contract = contract]

\* get_group and create_group, of the group of a project name.
FoundOrCreatedGroup(n, id) ==
  LET g == make_group_name(n)
  IN IF group[g].id # 0 THEN group[g] ELSE [NoGroup EXCEPT !.id = id]

\* _sync_users_to_group: adds the known users of one binding, removes the others.
SyncMembers(members, users) == (members \cup (users \cap known)) \cap users

\* apply_role_bindings of an ordinary project: binding after binding.
MembersAfter(members, bindings) == FoldLeft(SyncMembers, members, bindings)

\* get_users_from_role_bindings.
UsersOf(bindings) == UNION {bindings[i] : i \in DOMAIN bindings}

\* _sync_user_role_assignments of a managed project: add only.
DirectAfter(users, bindings) == users \cup (UsersOf(bindings) \cap known)

\* delete_project of resources/project.py: the group by its id, then the project.
DeletedGroup(gid) == [g \in GroupNames |-> IF group[g].id = gid THEN NoGroup ELSE group[g]]
DeletedProject(pid) == [n \in Names |-> IF project[n].id = pid THEN NoProject ELSE project[n]]
DirectWithout(pid) == [n \in Names |-> IF project[n].id = pid THEN {} ELSE direct[n]]

\* list_projects_with_tag.
TaggedNames == {n \in Names : Exists(n) /\ project[n].tagged}
-----------------------------------------------------------------------------
(* Federation rules: one mapping holds the rules of all groups, and is      *)
(* read and written as a whole.                                            *)

\* add_project_mapping: the rules read earlier, with that of the project's group
\* replaced, whichever project wrote it.
WithRule(view, n, users) == [view EXCEPT ![make_group_name(n)] = users]

\* remove_project_mapping: the rule of the project's group goes; Keystone takes no
\* empty mapping, so the last rule stays.
WithoutRule(view, n) ==
  LET own == make_group_name(n)
  IN IF \E g \in GroupNames \ {own} : view[g] # {} THEN [view EXCEPT ![own] = {}] ELSE view
-----------------------------------------------------------------------------
(* Networks and security groups of a project.                              *)

Part(id, kind, pid, content) == [id |-> id, kind |-> kind, pid |-> pid, content |-> content]
Found(now, pid, kind) == {p \in now : p.pid = pid /\ p.kind = kind}

\* ensure_networks: a network found by its name is kept as it is.
EnsuredNetwork(now, pid, cidr, id) ==
  IF cidr = None \/ Found(now, pid, "network") # {} THEN now
  ELSE now \cup {Part(id, "network", pid, {cidr})}

\* ensure_security_groups: rules are added to a group found by its name.
EnsuredSecurityGroup(now, pid, wanted, id) ==
  LET found == Found(now, pid, "security_group")
  IN IF wanted = {} THEN now
     ELSE IF found = {} THEN now \cup {Part(id, "security_group", pid, wanted)}
     ELSE (now \ found) \cup {[p EXCEPT !.content = @ \cup wanted] : p \in found}

\* delete_networks and delete_security_groups: what the status names, by id.
\* One that cannot be deleted is left behind without an error.
Without(now, doomed, kept) == {p \in now : p.id \notin doomed \/ p.id \in kept}

\* What the status records of a kind: the id found or created, 0 for none.
StatusId(now, pid, kind, wanted) ==
  IF wanted /\ Found(now, pid, kind) # {}
  THEN CHOOSE i \in {p.id : p \in Found(now, pid, kind)} : TRUE ELSE 0
=============================================================================
