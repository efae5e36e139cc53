------------------------ MODULE ApprovedPublication ------------------------
(***************************************************************************)
(* What customers are promised about the main branch of their repository.  *)
(*                                                                         *)
(* Main only grows: by commits of the customer, and by publications. A     *)
(* publication is one atomic step. It happens only for an operation that   *)
(* an administrator approved, only on top of the very head that the        *)
(* approver was shown, and writes exactly the approved manifests of one    *)
(* cluster: nobody's commit is overwritten and no operation is published   *)
(* twice. Success is reported only of manifests that main holds.           *)
(***************************************************************************)
EXTENDS GitOpsTree

CONSTANTS
  Operations,   \* the identifiers of publish operations
  NoApproval    \* of an operation that was not approved

VARIABLES
  main,         \* the commits of the branch, oldest first
  approval,     \* what was approved: a cluster, its manifests and the head
  reported      \* the commit reported as the success of an operation, or 0

vars == <<main, approval, reported>>

Init ==
  /\ main = <<>>
  /\ approval = [o \in Operations |-> NoApproval]
  /\ reported = [o \in Operations |-> 0]

\* An administrator approves a preview of a head that main has or had.
Approve(o) ==
  /\ approval[o] = NoApproval
  /\ approval'[o] \in [cluster : Clusters, head : 0..Len(main), files : Trees]
  /\ approval' = [approval EXCEPT ![o] = approval'[o]]
  /\ UNCHANGED <<main, reported>>

CustomerCommit ==
  /\ Len(main') = Len(main) + 1
  /\ main'[Len(main')] \in [by : {Customer}, tree : [Clusters -> Trees]]
  /\ main' = Append(main, main'[Len(main')])
  /\ UNCHANGED <<approval, reported>>

Publish(o) ==
  /\ approval[o] # NoApproval
  /\ Len(main) = approval[o].head
  /\ main' = Append(main,
       [by |-> o, tree |-> [TreeAt(main, Len(main)) EXCEPT
                              ![approval[o].cluster] = approval[o].files]])
  /\ UNCHANGED <<approval, reported>>

\* An operation is reported at most once, with a commit that holds what was approved.
Report(o) ==
  /\ approval[o] # NoApproval
  /\ reported[o] = 0
  /\ \E n \in 1..Len(main) :
       /\ Matches(main[n].tree[approval[o].cluster], approval[o].files)
       /\ reported' = [reported EXCEPT ![o] = n]
  /\ UNCHANGED <<main, approval>>

Next ==
  \/ CustomerCommit
  \/ \E o \in Operations : Approve(o) \/ Publish(o) \/ Report(o)

Spec == Init /\ [][Next]_vars
=============================================================================
