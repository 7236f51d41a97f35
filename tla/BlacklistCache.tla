--------------------------- MODULE BlacklistCache ---------------------------
(***************************************************************************)
(* The instance-type provider's blacklistCache (pkg/providers/instancetype *)
(* /instancetype.go): one go-cache shared by two key families,             *)
(*   "blocked-ins-<type>-<capacity>-<zone>"  -> true   (default TTL 30m)   *)
(*   "failure-ins-<type>-<capacity>-<zone>"  -> count  (TTL 1h, reset on   *)
(*                                                     every increment)    *)
(* A key is modelled as the triple it is formatted from; "*" (Wild) is the *)
(* wildcard the callers put in a position.  Time is abstracted to ticks:   *)
(* an entry's remaining life in ticks is kept, 0 meaning absent/expired    *)
(* (go-cache's Get ignores an expired item; the janitor later deletes it). *)
(***************************************************************************)
EXTENDS Naturals

CONSTANTS
    Types,       \* instance type names
    Caps,        \* capacity types: "spot", "on-demand"
    Zones,       \* zone names
    Wild,        \* the "*" wildcard
    BlockTTL,    \* ticks a blocked-ins entry lives (the cache default, 30m)
    FailureTTL,  \* ticks a failure-ins entry lives after its last increment (1h)
    MaxCount     \* bound on a failure counter, for model checking

ASSUME Wild \notin Types /\ Wild \notin Caps /\ Wild \notin Zones
ASSUME BlockTTL \in Nat \ {0} /\ FailureTTL \in Nat \ {0} /\ MaxCount \in Nat \ {0}

VARIABLES
    blocked,     \* blocked[<<t, c, z>>]: remaining life of "blocked-ins-t-c-z"
    failCount,   \* failCount[<<t, c, z>>]: value of "failure-ins-t-c-z"
    failTTL      \* failTTL[<<t, c, z>>]: remaining life of "failure-ins-t-c-z"

cacheVars == <<blocked, failCount, failTTL>>

TypesW == Types \cup {Wild}
CapsW  == Caps \cup {Wild}
ZonesW == Zones \cup {Wild}

\* Every key the code can format into the cache.
Patterns == TypesW \X CapsW \X ZonesW

CacheTypeOK ==
    /\ blocked \in [Patterns -> 0..BlockTTL]
    /\ failCount \in [Patterns -> 0..MaxCount]
    /\ failTTL \in [Patterns -> 0..FailureTTL]

CacheInit ==
    /\ blocked = [p \in Patterns |-> 0]
    /\ failCount = [p \in Patterns |-> 0]
    /\ failTTL = [p \in Patterns |-> 0]

Live(k) == blocked[k] > 0

\* Defect: the ("*", capacity, zone) lookup is missing.
isBlockedSkipWildType(t, c, z) ==
    \/ Live(<<t, c, z>>)
    \/ Live(<<Wild, Wild, Wild>>)
    \/ Live(<<t, c, Wild>>)
    \/ Live(<<t, Wild, z>>)
    \/ Live(<<t, Wild, Wild>>)
    \/ Live(<<Wild, c, Wild>>)
    \/ Live(<<Wild, Wild, z>>)

(* isBlocked: the eight Gets, in the order the code issues them.           *)
isBlocked(t, c, z) ==
    \/ Live(<<t, c, z>>)
    \/ Live(<<Wild, Wild, Wild>>)
    \/ Live(<<t, c, Wild>>)
    \/ Live(<<t, Wild, z>>)
    \/ Live(<<t, Wild, Wild>>)
    \/ Live(<<Wild, c, z>>)
    \/ Live(<<Wild, c, Wild>>)
    \/ Live(<<Wild, Wild, z>>)

(* GetInsufficientFailureCount: the stored count, 0 if absent or expired.  *)
GetInsufficientFailureCount(t, c, z) ==
    IF failTTL[<<t, c, z>>] > 0 THEN failCount[<<t, c, z>>] ELSE 0

\* Defect: a block set with a longer expiration than the cache default.
BlockKeysLonger(b, keys) ==
    [k \in DOMAIN b |-> IF k \in keys THEN BlockTTL + 1 ELSE b[k]]

(* BlockInstanceType: SetDefault(key, true) -- sets or refreshes the entry *)
(* with the default expiration.  As an update of the blocked map, so that  *)
(* a caller can apply several in one step.                                 *)
BlockKeys(b, keys) ==
    [k \in DOMAIN b |-> IF k \in keys THEN BlockTTL ELSE b[k]]

\* A count saturates at MaxCount.  The callers only compare counts with
\* thresholds below MaxCount, so saturation changes no decision.
SatCount(x) == IF x > MaxCount THEN MaxCount ELSE x

\* The count AddInsufficientFailure leaves after cnt calls for key k.
CountAfter(k, cnt) == SatCount(GetInsufficientFailureCount(k[1], k[2], k[3]) + cnt)

(* AddInsufficientFailure: Get then Set(count + 1, time.Hour).  Applied n  *)
(* times to one key in one step (a loop of n calls) it adds n and resets  *)
(* the expiration.  cnt[k] is how many calls the step makes for key k.     *)
AddFailures(cnt) ==
    /\ failCount' = [k \in Patterns |->
                        IF cnt[k] = 0 THEN failCount[k] ELSE CountAfter(k, cnt[k])]
    /\ failTTL' = [k \in Patterns |-> IF cnt[k] = 0 THEN failTTL[k] ELSE FailureTTL]

(* One tick of the clock: every entry ages; an entry reaching 0 has        *)
(* expired, and the janitor's DeleteExpired drops its value.               *)
CacheTick ==
    /\ blocked' = [k \in Patterns |-> IF blocked[k] > 0 THEN blocked[k] - 1 ELSE 0]
    /\ failTTL' = [k \in Patterns |-> IF failTTL[k] > 0 THEN failTTL[k] - 1 ELSE 0]
    /\ failCount' = [k \in Patterns |-> IF failTTL[k] > 1 THEN failCount[k] ELSE 0]

=============================================================================
