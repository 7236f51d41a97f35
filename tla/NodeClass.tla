----------------------------- MODULE NodeClass -----------------------------
(***************************************************************************)
(* One TKEMachineNodeClass and the two controllers that own it: the status *)
(* controller (pkg/controllers/nodeclass/status) resolving the subnet,     *)
(* security-group and SSH-key selector terms through the vpc and sshkey    *)
(* providers and setting Ready, and the termination controller             *)
(* (pkg/controllers/nodeclass/termination) removing the finalizer.  The    *)
(* NodeClaims that reference the class are a variable the composing        *)
(* module supplies; its steps of this module leave it unchanged.           *)
(*                                                                         *)
(* A status list is kept as a set: its order (free IPs, then ID, for       *)
(* subnets) only decides which subnet of a zone machine.Create takes.      *)
(***************************************************************************)
EXTENDS Zone, FiniteSets

CONSTANTS
    SubnetIds, SgIds, KeyIds,  \* cloud resources of each kind
    SubnetZone,        \* SubnetZone[s]: the zone name of subnet s
    VpcSubnets,        \* the subnets of the cluster's VPC
    TagKeys, TagVals,  \* tag keys and values
    NoTag,             \* a tag key the resource does not carry
    Star,              \* the "*" tag value of a selector term
    NoID,              \* a selector term without an id
    SubnetTerms, SgTerms, KeyTerms,  \* the class's selector terms
    InitTags,          \* the resources' tags at the start
    MaxCloudChanges    \* bound on resources created, deleted or retagged

Kinds == {"subnet", "sg", "key"}
Res == SubnetIds \cup SgIds \cup KeyIds
OfKind == [k \in Kinds |-> CASE k = "subnet" -> SubnetIds [] k = "sg" -> SgIds [] k = "key" -> KeyIds]
TermsOf == [k \in Kinds |-> CASE k = "subnet" -> SubnetTerms [] k = "sg" -> SgTerms [] k = "key" -> KeyTerms]

(* A selector term the API server admits (the markers on the Tags of     *)
(* SubnetSelectorTerm, SecurityGroupSelectorTerm and SSHKeySelectorTerm): *)
(* at most 20 tags, no empty tag key or value.  The id Patterns are left   *)
(* out: ids are model values.                                              *)
AdmittedTerm(t) ==
    /\ Cardinality(DOMAIN t.tags) <= 20
    /\ \A key \in DOMAIN t.tags : key # "" /\ t.tags[key] # ""

(* A list of selector terms the API server admits (the markers on the     *)
(* spec's three term lists): non-empty, at most MaxItems terms, each with *)
(* tags or an id, not all of them with both.  A term here has tags when   *)
(* its tag map is non-empty.                                               *)
MaxItems == ("subnet" :> 30) @@ ("sg" :> 5) @@ ("key" :> 30)
AdmittedTerms(terms, maxItems) ==
    /\ terms # {} /\ Cardinality(terms) <= maxItems
    /\ \A t \in terms : AdmittedTerm(t) /\ (t.id # NoID \/ DOMAIN t.tags # {})
    /\ ~\A t \in terms : t.id # NoID /\ DOMAIN t.tags # {}

VARIABLES
    cloudRes,      \* the resources that exist
    cloudTags,     \* cloudTags[r][key]: r's value of tag key, or NoTag
    changes,       \* cloud changes so far
    status,        \* [subnet |-> set of [id, zone, zoneID], sg, key |-> sets of ids]
    ready,         \* the Ready condition is True
    finalizer,     \* the termination finalizer is on the object
    phase,         \* "live", "deleting" (deletion timestamp set) or "gone"
    listed,        \* the last step was a status pass that stored every list
    termPc,        \* the termination Reconcile: "idle", or "remove" after an empty list
    patchedSince,  \* the object changed after termination read it
    classClaims    \* the NodeClaims whose nodeClassRef names the class

ncVars == <<cloudRes, cloudTags, changes, status, ready, finalizer, phase, listed, termPc, patchedSince>>

-----------------------------------------------------------------------------
(* The selector providers (pkg/providers/vpc, pkg/providers/sshkey).       *)

\* Defect: "*" is sent as a tag value, not as a tag-key filter.
TagFilterStarAsValue(t, key) == [name |-> "tag", key |-> key, vals |-> {t.tags[key]}]

(* One filter of a tag term: "tag-key" for "*", "tag:<key>" otherwise.     *)
TagFilter(t, key) ==
    IF t.tags[key] = Star THEN [name |-> "tag-key", key |-> key, vals |-> {}]
    ELSE [name |-> "tag", key |-> key, vals |-> {t.tags[key]}]

IdTerms(terms) == {t \in terms : t.id # NoID}

(* sshkey getFilterSets' filter sets: one per term without an id.  (Its    *)
(* ids are IdTerms, sent as KeyIds.)                                       *)
TagFilterSets(terms) == {{TagFilter(t, key) : key \in DOMAIN t.tags} : t \in terms \ IdTerms(terms)}

(* getSubnetFilterSets / getSGFilterSets: the tag filter sets, and the     *)
(* ids of the id terms in one more set of one filter, if there are any.    *)
getFilterSets(terms) ==
    IF IdTerms(terms) = {} THEN TagFilterSets(terms)
    ELSE TagFilterSets(terms) \cup {{[name |-> "id", key |-> NoTag, vals |-> {t.id : t \in IdTerms(terms)}]}}

(* A Describe request: the resources of a kind matching every filter of    *)
(* the set (a filter's values are alternatives).                           *)
Matches(f, r) ==
    CASE f.name = "id"      -> r \in f.vals
      [] f.name = "tag-key" -> cloudTags[r][f.key] # NoTag
      [] f.name = "tag"     -> cloudTags[r][f.key] \in f.vals
Describe(k, fs) == {r \in cloudRes \cap OfKind[k] : \A f \in fs : Matches(f, r)}

(* ListSubnets: no filter sets, no subnets; otherwise one DescribeSubnets  *)
(* per set, each with the vpc-id filter added, merged by subnet id.        *)
ListSubnets ==
    UNION {Describe("subnet", fs) \cap VpcSubnets : fs \in getFilterSets(SubnetTerms)}

\* getSGFilterSets: getSubnetFilterSets' code over the security-group terms.
getSGFilterSets == getFilterSets(SgTerms)

\* ListSecurityGroups: one DescribeSecurityGroups per set, merged.
ListSecurityGroups == UNION {Describe("sg", fs) : fs \in getSGFilterSets}

(* sshkey List: one DescribeKeyPairs with the ids as KeyIds, if any, then  *)
(* one per tag filter set, merged by key id.                               *)
ListKeyPairs ==
    LET byId == IF IdTerms(KeyTerms) = {} THEN {}
                ELSE {r \in cloudRes \cap KeyIds : r \in {t.id : t \in IdTerms(KeyTerms)}}
    IN  byId \cup UNION {Describe("key", fs) : fs \in TagFilterSets(KeyTerms)}

List(k) == CASE k = "subnet" -> ListSubnets [] k = "sg" -> ListSecurityGroups [] k = "key" -> ListKeyPairs

(* The selection the terms describe: a term with an id selects that        *)
(* resource, any other term the resources carrying every tag it names      *)
(* ("*": any value).                                                       *)
Selects(t, r) ==
    IF t.id # NoID THEN r = t.id
    ELSE \A key \in DOMAIN t.tags : IF t.tags[key] = Star THEN cloudTags[r][key] # NoTag
                                    ELSE cloudTags[r][key] = t.tags[key]
Selected(k) ==
    {r \in cloudRes \cap OfKind[k] : (k = "subnet" => r \in VpcSubnets) /\ \E t \in TermsOf[k] : Selects(t, r)}

-----------------------------------------------------------------------------
(* The status controller's reconcilers.                                    *)

\* Defect: the subnet's id stored as its zone.
SubnetStatusIdAsZone(ids) == {[id |-> s, zone |-> s, zoneID |-> IDFromZone(SubnetZone[s])] : s \in ids}

\* Subnet.Reconcile's entries: ID, Zone and IDFromZone's ZoneID ("" on error).
SubnetStatus(ids) == {[id |-> s, zone |-> SubnetZone[s], zoneID |-> IDFromZone(SubnetZone[s])] : s \in ids}
StatusOf(k, ids) == IF k = "subnet" THEN SubnetStatus(ids) ELSE ids

\* Readiness.Reconcile: True iff subnets, security groups and keys are all non-empty.
Readiness(st) == st.subnet # {} /\ st.sg # {} /\ st.key # {}

(* Reconcile: add the finalizer (Patch; an error returns), run the subnet, *)
(* sg and sshkey reconcilers (a failed list leaves its status as it was;   *)
(* an empty one clears it), then readiness on the result, and Patch the    *)
(* status if it changed.  ok[c] says call c succeeds.                      *)
StatusReconcile ==
    /\ phase # "gone"
    /\ \E ok \in [Kinds \cup {"finalizer", "patch"} -> BOOLEAN] :
         IF ~finalizer /\ ~ok["finalizer"]
         THEN UNCHANGED <<status, ready, finalizer, patchedSince>> /\ listed' = FALSE
         ELSE LET st  == [k \in Kinds |-> IF ok[k] THEN StatusOf(k, List(k)) ELSE status[k]]
                  chg == st # status \/ Readiness(st) # ready
              IN  /\ finalizer' = TRUE
                  /\ IF chg /\ ok["patch"]
                     THEN /\ status' = st /\ ready' = Readiness(st)
                          /\ listed' = \A k \in Kinds : ok[k]
                     ELSE /\ UNCHANGED <<status, ready>>
                          /\ listed' = ((\A k \in Kinds : ok[k]) /\ ~chg)
                  /\ patchedSince' = (patchedSince \/ ~finalizer \/ (chg /\ ok["patch"]))
    /\ UNCHANGED <<cloudRes, cloudTags, changes, phase, termPc>>

\* Defect: any list result, the empty one included, means waiting.
TermListWaitAlways ==
    /\ phase = "deleting" /\ finalizer /\ termPc = "idle"
    /\ termPc' = "idle"
    /\ patchedSince' = FALSE
    /\ listed' = FALSE
    /\ UNCHANGED <<cloudRes, cloudTags, changes, status, ready, finalizer, phase>>

(* The termination controller's finalize, in its two API calls: List the   *)
(* NodeClaims of the class (any: requeue after 10m) ...                    *)
TermList ==
    /\ phase = "deleting" /\ finalizer /\ termPc = "idle"
    /\ termPc' = IF classClaims = {} THEN "remove" ELSE "idle"
    /\ patchedSince' = FALSE
    /\ listed' = FALSE
    /\ UNCHANGED <<cloudRes, cloudTags, changes, status, ready, finalizer, phase>>

(* ... then Update the object without the finalizer; a conflict with a     *)
(* change made since requeues.  Without finalizers the object is removed.  *)
TermUpdate ==
    /\ termPc = "remove"
    /\ termPc' = "idle"
    /\ IF patchedSince THEN UNCHANGED <<finalizer, phase>>
       ELSE finalizer' = FALSE /\ phase' = "gone"
    /\ listed' = FALSE
    /\ UNCHANGED <<cloudRes, cloudTags, changes, status, ready, patchedSince>>

-----------------------------------------------------------------------------
(* The user and the cloud.                                                 *)

NodeClassInit ==
    /\ cloudRes = Res
    /\ cloudTags = InitTags
    /\ changes = 0
    /\ status = [k \in Kinds |-> {}]
    /\ ready = FALSE
    /\ finalizer = FALSE
    /\ phase = "live"
    /\ listed = FALSE
    /\ termPc = "idle"
    /\ patchedSince = FALSE

(* kubectl delete: the deletion timestamp is set; an object without        *)
(* finalizers is removed at once.                                          *)
DeleteClass ==
    /\ phase = "live"
    /\ phase' = IF finalizer THEN "deleting" ELSE "gone"
    /\ patchedSince' = TRUE
    /\ listed' = FALSE
    /\ UNCHANGED <<cloudRes, cloudTags, changes, status, ready, finalizer, termPc>>

\* A resource is created or deleted, or one of its tags is set or removed.
CloudChange ==
    /\ changes < MaxCloudChanges
    /\ \/ /\ \E r \in Res : cloudRes' = IF r \in cloudRes THEN cloudRes \ {r} ELSE cloudRes \cup {r}
          /\ UNCHANGED cloudTags
       \/ \E r \in Res, key \in TagKeys, v \in TagVals \cup {NoTag} :
            /\ v # cloudTags[r][key]
            /\ cloudTags' = [cloudTags EXCEPT ![r][key] = v]
            /\ UNCHANGED cloudRes
    /\ changes' = changes + 1
    /\ listed' = FALSE
    /\ UNCHANGED <<status, ready, finalizer, phase, termPc, patchedSince>>

NodeClassNext == StatusReconcile \/ TermList \/ TermUpdate \/ DeleteClass \/ CloudChange

-----------------------------------------------------------------------------
(* TKEMachineNodeClassStatus: the resolved subnets (id, zone name, zone ID *)
(* or "" when IDFromZone failed), security groups and SSH keys, as sets;   *)
(* its Ready condition is the variable ready.                              *)
NodeClassStatus ==
    [subnet : SUBSET [id : SubnetIds, zone : {SubnetZone[s] : s \in SubnetIds},
                      zoneID : {NoZoneID} \cup Nat],
     sg : SUBSET SgIds, key : SUBSET KeyIds]

NodeClassTypeOK ==
    /\ cloudRes \subseteq Res /\ changes \in 0..MaxCloudChanges
    /\ cloudTags \in [Res -> [TagKeys -> TagVals \cup {NoTag}]]
    /\ status \in NodeClassStatus
    /\ ready \in BOOLEAN /\ finalizer \in BOOLEAN /\ patchedSince \in BOOLEAN
    /\ phase \in {"live", "deleting", "gone"} /\ termPc \in {"idle", "remove"}
    /\ listed \in BOOLEAN

(* A status pass whose lists all succeed leaves exactly what the selector  *)
(* terms select in the cloud at that moment: the filter sets getFilterSets *)
(* builds, sent to Describe and merged, select a resource iff one term     *)
(* does ("*" meaning any value, an id term its one resource).              *)
SelectionResolved ==
    [][listed' => \A k \in Kinds : status'[k] = StatusOf(k, Selected(k))]_ncVars

(* Every subnet in the status carries a zone ID that ZoneFromID maps back  *)
(* to exactly its zone: the zone label of the offerings (IDFromZone of the *)
(* quota zone) leads machine.Create back to the subnets of that zone.      *)
ZoneIDsRoundTrip ==
    \A s \in status.subnet : ZoneFromIDs(s.zoneID) = {s.zone}

=============================================================================
