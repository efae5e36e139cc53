--------------------------- MODULE MCPortalServices ---------------------------
(***************************************************************************)
(* Instances of PortalServices for TLC.                                    *)
(***************************************************************************)
EXTENDS PortalServices, TLC

CONSTANTS h1, h2, h3, root, u1, u2, k1, k2, a1, ca1, ca2, url1, url2

Symmetry == Permutations(Handlers)

PlanOf(start, events) == [start |-> start, events |-> events]

\* The n-th request of a kind.
Create(n, contract, groups, alias) ==
  [op |-> "create", n |-> n, contract |-> contract, groups |-> groups, alias |-> alias]
Edit(version, alias, ca) == [op |-> "edit", version |-> version, alias |-> alias, ca |-> ca]
Alias(by, alias) == [op |-> "alias", by |-> by, alias |-> alias]
Grant(by, user, role) == [op |-> "grant", by |-> by, user |-> user, role |-> role]
Remove(by, user) == [op |-> "remove", by |-> by, user |-> user]
Issue(n, by) == [op |-> "issue", n |-> n, by |-> by]
Rotate(by) == [op |-> "rotate", by |-> by]
Revoke(by) == [op |-> "revoke", by |-> by]
Ask(type, target) == [op |-> "request", by |-> root, type |-> type, target |-> target]
Apply(n) == [op |-> "apply", n |-> n]
Url(version, url) == [op |-> "url", version |-> version, url |-> url]
Replace(n, version, confirmed) ==
  [op |-> "replace", n |-> n, version |-> version, confirmed |-> confirmed]
Validate(version) == [op |-> "validate", version |-> version]
Just(op, n) == [op |-> op, n |-> n]

\* Four attempts to create one cluster, some with other values, while Argo CD applies it.
Creating == {PlanOf("planned", {Create(1, k1, 1, NoAlias), Create(2, k1, 1, NoAlias), Just("sync", 1)} \cup e) :
              e \in {{Create(3, k1, 1, a1), Create(4, k1, 1, a1)}, {Create(3, k1, 2, NoAlias), Create(4, k1, 1, a1)},
                     {Create(3, k2, 1, NoAlias), Create(4, k1, 2, NoAlias)}}}
\* The name of the project is taken by a resource from elsewhere.
Taken == {PlanOf("taken", {Create(1, k1, 1, NoAlias), Create(2, k1, 1, a1)})}
\* The same, while the credentials of the repository change.
Planning == {PlanOf("planned", {Create(1, k1, 1, NoAlias), Create(2, k1, 1, a1), Just("sync", 1),
                                Replace(1, 2, FALSE), Validate(3), Url(2, url2)})}
\* From its creation to its first kubeconfig.
Connecting == {PlanOf("planned", {Create(1, k1, 1, NoAlias), Edit(1, a1, ca1), Edit(2, a1, ca2),
                                  Just("provision", 1), Issue(1, root), Issue(2, root), Alias(root, NoAlias)})}
\* Users and administrators come, get kubeconfigs, and lose their access.
Granting == {PlanOf("running", {Grant(root, u1, "user"), Issue(1, u1), Issue(2, u1), Rotate(u1), Remove(root, u1),
                                Edit(1, NoAlias, ca2)}),
             PlanOf("running", {Grant(root, u1, "customer_admin"), Grant(u1, u2, "user"), Issue(1, u1), Issue(2, u2),
                                Remove(u1, u2), Remove(root, u1)}),
             PlanOf("running", {Grant(root, u1, "customer_admin"), Grant(root, u2, "customer_admin"),
                                Remove(root, u1), Remove(root, u2), Alias(u2, a1)}),
             PlanOf("running", {Grant(root, u1, "user"), Grant(root, u1, "customer_admin"), Issue(1, u1), Remove(root, u1),
                                Ask("resize", 2), Apply(1)})}
\* Kubeconfigs are rotated and revoked while the connection changes.
Rotating == {PlanOf("running", {Grant(root, u1, "customer_admin"), Issue(1, root), Issue(2, u1), Rotate(root), Revoke(u1),
                                Edit(1, NoAlias, ca2)}),
             PlanOf("running", {Issue(1, root), Rotate(root), Revoke(root), Edit(1, a1, ca2), Edit(1, NoAlias, ca2), Alias(root, a1)})}
\* Requests are applied twice, and denied while they are applied.
Resizing == {PlanOf("running", {Ask("resize", 2), Ask("resize", 3), Apply(1), Apply(2), Apply(3)}),
             PlanOf("running", {Ask("resize", 2), Apply(1), Apply(2), Apply(3), Just("deny", 1), Alias(root, a1)})}
Asking == {PlanOf("running", {Ask("backup", TRUE), Ask("backup", FALSE), Apply(1), Apply(2), Just("deny", 1)}),
           PlanOf("running", {Ask("addon", TRUE), Ask("addon", FALSE), Apply(1), Apply(2), Just("deny", 1)})}
\* A cluster is cleaned up and decommissioned, with whatever is still under way.
Ending == {PlanOf("running", {Just("clean", 1), Just("sync", 1), Just("decommission", 1)} \cup e) :
             e \in {{Issue(1, root), Rotate(root), Alias(root, a1), Create(1, k1, 1, NoAlias)},
                    {Ask("resize", 2), Apply(1), Just("sync", 2)}, {Ask("backup", TRUE), Apply(1), Just("sync", 2)},
                    {Just("preview", 1), Just("approve", 1), Ask("addon", TRUE), Apply(1)},
                    {Grant(root, u1, "customer_admin"), Issue(1, u1), Remove(root, u1)}}}
\* Addresses and credentials are replaced while operations are queued.
Repository == {PlanOf("bare", {Url(0, url1), Replace(1, 1, FALSE), Replace(2, 1, FALSE), Replace(3, 1, TRUE), Validate(2),
                               Replace(4, 2, FALSE)}),
               PlanOf("bare", {Url(0, url1), Replace(1, 1, FALSE), Url(2, url2), Replace(2, 3, FALSE), Replace(3, 3, TRUE),
                               Validate(4)}),
               PlanOf("legacy", {Validate(2), Replace(1, 2, FALSE), Replace(2, 2, TRUE), Url(2, url2), Validate(3)}),
               PlanOf("running", {Just("preview", 1), Just("approve", 1), Just("approve", 2), Url(2, url2), Replace(1, 2, FALSE),
                                  Validate(3)}),
               PlanOf("running", {Just("preview", 1), Just("preview", 2), Just("approve", 1), Just("approve", 2), Url(2, url2),
                                  Url(3, url1), Replace(1, 3, TRUE)})}

\* A cluster is created, cleaned up and decommissioned while a stalled creation goes on.
Stalling == {PlanOf("planned", {Create(1, k1, 1, NoAlias), Create(2, k1, 1, NoAlias), Just("clean", 1), Just("sync", 1),
                                Just("decommission", 1)} \cup e) :
               e \in {{}, {Ask("resize", 2), Apply(1)}}}

AllPlans == Stalling \cup Creating \cup Taken \cup Planning \cup Connecting \cup Granting \cup Rotating \cup Resizing \cup Asking
            \cup Ending \cup Repository
=============================================================================
