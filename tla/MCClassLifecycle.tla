------------------------- MODULE MCClassLifecycle -------------------------
(***************************************************************************)
(* A cloud for ClassLifecycle.tla: three subnets (one in another VPC, one  *)
(* in a four-part zone name), two security groups, one SSH key and one tag *)
(* key with two values.  The class selects subnets by tag key ("*"),       *)
(* security groups and keys by id and by tag value.                        *)
(***************************************************************************)
EXTENDS ClassLifecycle, TLC

CONSTANTS s1, s2, s3, g1, g2, k1

NoTags == [key \in {} |-> NoTag]

MCSubnetIds == {s1, s2, s3}
MCSgIds == {g1, g2}
MCKeyIds == {k1}
MCVpcSubnets == {s1, s2}
MCSubnetZone ==
    s1 :> <<"ap", "guangzhou", "3">> @@ s2 :> <<"ap", "shenzhen", "fsi", "1">>
    @@ s3 :> <<"ap", "guangzhou", "3">>
MCSubnetTerms == {[id |-> NoID, tags |-> "env" :> Star]}
MCSgTerms == {[id |-> g1, tags |-> NoTags], [id |-> NoID, tags |-> "env" :> "a"]}
MCKeyTerms == {[id |-> k1, tags |-> NoTags], [id |-> NoID, tags |-> "env" :> "b"]}
MCInitTags ==
    [r \in MCSubnetIds \cup MCSgIds \cup MCKeyIds |->
        "env" :> (IF r \in {s1, s3, g2} THEN "a" ELSE IF r = s2 THEN "b" ELSE NoTag)]

=============================================================================
