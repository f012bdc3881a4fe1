---------------------------- MODULE MCCatalogData ----------------------------
(***************************************************************************)
(* Configurations for TLC: for every interval a usual one and one or two   *)
(* that are the wrong way round or negative, in all combinations.          *)
(***************************************************************************)
EXTENDS CatalogData

CONSTANTS n1, n2

From(a, b) == [min |-> a, max |-> b]

MCNames == {n1, n2}

\* The bytes that turn every random bit on, or off.
MCRandoms == {[i \in 0 .. 3 |-> 255], [i \in 0 .. 3 |-> 0]}

MCIntervals ==
  {[ServicesPerNode |-> s, ChecksPerNode |-> c, ChecksPerService |-> d,
    MetaPerNode |-> m, MetaPerService |-> l] :
     s \in {From(0, 0), From(1, 3), From(2, 2), From(2, 1), From(0 - 1, 1)},
     c \in {From(0, 2), From(1, 0)},
     d \in {From(0, 2), From(1, 1), From(1, 0)},
     m \in {From(0, 1), From(1, 0)},
     l \in {From(0, 1), From(1, 0)}}

MCConfigs ==
  [NumNodes : {0 - 1, 0, 1, 2}, NumServices : {0 - 1, 0, 1, 2},
   IncludeConnectSidecars : BOOLEAN, interval : MCIntervals]
=============================================================================
