------------------------------- MODULE Zone -------------------------------
(***************************************************************************)
(* The zone provider (pkg/providers/zone/zone.go): the conversions between *)
(* a zone name such as "ap-shenzhen-fsi-1" and its numeric zone ID such as *)
(* 110001.  A name is the sequence of its "-"-separated segments (what     *)
(* strings.Split returns).  strconv.Atoi parses the decimal numerals of    *)
(* 0..MaxZoneNumber (ToString(n)) and fails on any other segment.  An ID   *)
(* is the number strconv.Itoa prints, NoZoneID the "" an error leaves.     *)
(***************************************************************************)
EXTENDS Naturals, Sequences, TLC

CONSTANTS
    NoZoneID,       \* "": IDFromZone failed
    MaxZoneNumber   \* the largest zone number Atoi is asked to parse

(* zoneGroups: the base ID of every region.                                *)
ZoneGroups ==
    <<"ap", "guangzhou">> :> 100000
    @@ <<"ap", "shenzhen", "fsi">> :> 110000
    @@ <<"ap", "guangzhou", "open">> :> 120000
    @@ <<"na", "siliconvalley">> :> 150000
    @@ <<"ap", "chengdu">> :> 160000
    @@ <<"eu", "frankfurt">> :> 170000
    @@ <<"ap", "seoul">> :> 180000
    @@ <<"ap", "chongqing">> :> 190000
    @@ <<"ap", "shanghai">> :> 200000
    @@ <<"ap", "mumbai">> :> 210000
    @@ <<"na", "ashburn">> :> 220000
    @@ <<"ap", "bangkok">> :> 230000
    @@ <<"ap", "tokyo">> :> 250000
    @@ <<"ap", "hongkong">> :> 300000
    @@ <<"ap", "jinan", "ec">> :> 310000
    @@ <<"ap", "hangzhou", "ec">> :> 320000
    @@ <<"ap", "nanjing">> :> 330000
    @@ <<"ap", "fuzhou", "ec">> :> 340000
    @@ <<"ap", "wuhan", "ec">> :> 350000
    @@ <<"ap", "tianjin">> :> 360000
    @@ <<"ap", "shenzhen">> :> 370000
    @@ <<"ap", "taipei">> :> 390000
    @@ <<"na", "toronto">> :> 400000
    @@ <<"ap", "changsha", "ec">> :> 450000
    @@ <<"ap", "beijing", "fsi">> :> 460000
    @@ <<"ap", "shijiazhuang", "ec">> :> 530000
    @@ <<"ap", "qingyuan">> :> 540000
    @@ <<"ap", "hefei", "ec">> :> 550000
    @@ <<"ap", "shenyang", "ec">> :> 560000
    @@ <<"ap", "xian", "ec">> :> 570000
    @@ <<"ap", "xibei", "ec">> :> 580000
    @@ <<"ap", "shanghai", "fsi">> :> 700000
    @@ <<"ap", "zhengzhou", "ec">> :> 710000
    @@ <<"ap", "jakarta">> :> 720000
    @@ <<"sa", "saopaulo">> :> 740000
    @@ <<"ap", "shanghai", "adc">> :> 780000
    @@ <<"ap", "beijing">> :> 800000
    @@ <<"ap", "guangzhou", "wxzf">> :> 820000
    @@ <<"ap", "shanghai", "wxzf">> :> 830000
    @@ <<"ap", "singapore">> :> 900000

\* strconv.Atoi of one segment.
AtoiOk(seg) == \E n \in 0..MaxZoneNumber : ToString(n) = seg
Atoi(seg) == CHOOSE n \in 0..MaxZoneNumber : ToString(n) = seg

(* ZoneFromID: the regions whose range (base, base + 1000) holds the ID,   *)
(* each with the zone number appended.  The code ranges over the map and   *)
(* returns the first match; map order is random, so this is the set of    *)
(* the answers it can give.  {} is the error, "" (NoZoneID) included.    *)
ZoneFromIDs(id) ==
    IF id = NoZoneID THEN {}
    ELSE {Append(r, ToString(id - ZoneGroups[r])) :
            r \in {x \in DOMAIN ZoneGroups : id > ZoneGroups[x] /\ id < ZoneGroups[x] + 1000}}

\* Defect: every name is read as region-region-number.
IDFromZoneThreeParts(z) ==
    IF Len(z) < 3 \/ ~AtoiOk(z[3]) \/ SubSeq(z, 1, 2) \notin DOMAIN ZoneGroups THEN NoZoneID
    ELSE ZoneGroups[SubSeq(z, 1, 2)] + Atoi(z[3])

(* IDFromZone: a name of four segments has a three-segment region, any    *)
(* other name of three or more a two-segment region and its number in the *)
(* third segment.  Fewer segments, a number Atoi rejects or an unknown    *)
(* region are errors, which every caller turns into "".                   *)
IDFromZone(z) ==
    IF Len(z) < 3 THEN NoZoneID
    ELSE LET region == IF Len(z) = 4 THEN SubSeq(z, 1, 3) ELSE SubSeq(z, 1, 2)
             num    == IF Len(z) = 4 THEN z[4] ELSE z[3]
         IN  IF ~AtoiOk(num) \/ region \notin DOMAIN ZoneGroups THEN NoZoneID
             ELSE ZoneGroups[region] + Atoi(num)

=============================================================================
