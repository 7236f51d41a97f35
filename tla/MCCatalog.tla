----------------------------- MODULE MCCatalog -----------------------------
(***************************************************************************)
(* Catalog.tla for TLC: two zones, a cluster in global-router mode with    *)
(* MaxNodePodNum 64, and an ENI limit table only in z1.                    *)
(***************************************************************************)
EXTENDS Catalog

\* DescribeClusters: a GR cluster, 64 pods per node.
MCCluster ==
    [property |-> TRUE, networkType |-> "GR", vpcCniType |-> "", metaFeature |-> FALSE,
     settings |-> TRUE, maxNodePodNum |-> 64]

\* DescribeVpcCniPodLimits per zone.
MCEniLimit ==
    [z \in Zones |-> IF z = "z1"
                     THEN {[type |-> "t", eniip |-> 30, directeni |-> 0, subeni |-> 0]}
                     ELSE {}]
=============================================================================
