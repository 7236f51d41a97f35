----------------------------- MODULE Instances -----------------------------
(***************************************************************************)
(* What the provider promises karpenter about the instances of NodeClaims, *)
(* with the Machine objects, generated names, collector passes and         *)
(* ProviderID copies abstracted away.  A NodeClaim knows the instance      *)
(* launched for it (until a lost launch makes it forget) and tracks the    *)
(* one whose ProviderID it carries.  The promises:                         *)
(*  - an instance is launched only for a live NodeClaim that knows none;   *)
(*  - an instance a live NodeClaim knows is never terminated;              *)
(*  - a NodeClaim is removed only once the instance it tracks is gone      *)
(*    (CloudProvider.Delete answers NotFound only then);                   *)
(*  - an instance no NodeClaim in the cluster knows is eventually          *)
(*    terminated.                                                          *)
(* Lifecycle.tla implements this specification.                            *)
(***************************************************************************)
CONSTANTS
    NodeClaims,
    InstanceIds,
    None

VARIABLES
    claim,  \* claim[n]: [st, inst (known), tracked (its ProviderID)]
    inst    \* inst[i]: [st, owner (the NodeClaim it was launched for)]

vars == <<claim, inst>>

ClaimStates == {"none", "live", "deleting", "gone"}
InstStates == {"free", "running", "terminating", "gone"}

TypeOK ==
    /\ claim \in [NodeClaims -> [st : ClaimStates, inst : InstanceIds \cup {None},
                                 tracked : InstanceIds \cup {None}]]
    /\ inst \in [InstanceIds -> [st : InstStates, owner : NodeClaims \cup {None}]]

Init ==
    /\ claim = [n \in NodeClaims |-> [st |-> "none", inst |-> None, tracked |-> None]]
    /\ inst = [i \in InstanceIds |-> [st |-> "free", owner |-> None]]

InCluster(n) == claim[n].st \in {"live", "deleting"}

\* Some live NodeClaim knows instance i.
Known(i) == \E n \in NodeClaims : claim[n].st = "live" /\ claim[n].inst = i

\* A running instance that no NodeClaim in the cluster knows.
Orphan(i) ==
    /\ inst[i].st = "running"
    /\ \A n \in NodeClaims : InCluster(n) => claim[n].inst # i

Provision(n) ==
    /\ claim[n].st = "none"
    /\ claim' = [claim EXCEPT ![n].st = "live"]
    /\ UNCHANGED inst

Launch(n, i) ==
    /\ claim[n].st = "live" /\ claim[n].inst = None
    /\ inst[i].st = "free"
    /\ inst' = [inst EXCEPT ![i] = [st |-> "running", owner |-> n]]
    /\ claim' = [claim EXCEPT ![n].inst = i]

\* The launch is lost: the NodeClaim no longer knows its instance.
Forget(n) ==
    /\ claim[n].st = "live" /\ claim[n].inst # None
    /\ claim' = [claim EXCEPT ![n].inst = None]
    /\ UNCHANGED inst

\* The NodeClaim starts tracking an instance launched for it.
Track(n, i) ==
    /\ InCluster(n) /\ claim[n].tracked = None
    /\ inst[i].owner = n /\ inst[i].st \in {"running", "terminating"}
    /\ claim' = [claim EXCEPT ![n].tracked = i]
    /\ UNCHANGED inst

Delete(n) ==
    /\ claim[n].st = "live"
    /\ claim' = [claim EXCEPT ![n].st = "deleting"]
    /\ UNCHANGED inst

Remove(n) ==
    /\ claim[n].st = "deleting"
    /\ claim[n].tracked = None \/ inst[claim[n].tracked].st = "gone"
    /\ claim' = [claim EXCEPT ![n].st = "gone"]
    /\ UNCHANGED inst

\* Termination of the running instances S, none of them known.
Terminate(S) ==
    /\ S # {}
    /\ \A i \in S : inst[i].st = "running" /\ ~Known(i)
    /\ inst' = [i \in InstanceIds |-> IF i \in S THEN [inst[i] EXCEPT !.st = "terminating"]
                                     ELSE inst[i]]
    /\ UNCHANGED claim

Terminated(i) ==
    /\ inst[i].st = "terminating"
    /\ inst' = [inst EXCEPT ![i].st = "gone"]
    /\ UNCHANGED claim

Next ==
    \/ \E n \in NodeClaims :
          \/ Provision(n) \/ Forget(n) \/ Delete(n) \/ Remove(n)
          \/ \E i \in InstanceIds : Launch(n, i) \/ Track(n, i)
    \/ \E S \in SUBSET InstanceIds : Terminate(S)
    \/ \E i \in InstanceIds : Terminated(i)

\* Orphans are terminated, and termination completes.
Spec ==
    /\ Init /\ [][Next]_vars
    /\ \A i \in InstanceIds : /\ WF_vars(Orphan(i) /\ Terminate({i}))
                              /\ WF_vars(Terminated(i))

=============================================================================
