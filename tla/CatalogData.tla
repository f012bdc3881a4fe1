----------------------------- MODULE CatalogData -----------------------------
(***************************************************************************)
(* What a catalog configuration turns into: Normalize in                   *)
(* load/catalog/config.go accepts or refuses it, initializeData in         *)
(* load/catalog/initialize.go draws nodes, service instances and checks    *)
(* within its intervals, and the push draws the metadata.  Only one        *)
(* goroutine is at work, so that all data of a node is one step.           *)
(*                                                                         *)
(* rand.IntN panics when the range it is given is empty, and make when the *)
(* length is negative.                                                     *)
(***************************************************************************)
EXTENDS Integers, FiniteSets, IPPrefix

CONSTANTS
  Configs,  \* the configurations a user may write
  Names,    \* what the generator of service names can return
  Randoms   \* groups of four bytes the source of the addresses can draw

Intervals == {"ServicesPerNode", "ChecksPerNode", "ChecksPerService",
              "MetaPerNode", "MetaPerService"}

ASSUME ConfigsTyped ==
  Configs \subseteq [NumNodes : Int, NumServices : Int,
                     IncludeConnectSidecars : BOOLEAN,
                     interval : [Intervals -> [min : Int, max : Int]]]

ASSUME RandomsTyped == Randoms \subseteq Addresses(4)

VARIABLES
  conf,       \* lg.conf
  status,     \* how far the configuration has come
  made,       \* nodes generated so far, numbered from 0
  addresses,  \* their addresses
  instances,  \* lg.serviceInstances
  checks      \* lg.checks; "of" holds the instance a check is for, if any

vars == <<conf, status, made, addresses, instances, checks>>

Init ==
  /\ conf \in Configs
  /\ status = "read"
  /\ made = 0
  /\ addresses = {}
  /\ instances = {}
  /\ checks = {}

-----------------------------------------------------------------------------
(* Normalize.                                                              *)

\* Mutant: a maximum below its minimum goes through.
AcceptsInOneBound ==
  \/ conf.NumNodes < 1
  \/ conf.NumServices < 1
  \/ \A i \in Intervals : conf.interval[i].min >= 0 /\ conf.interval[i].max >= 0

\* Without nodes or services the rest is not looked at.
Accepts ==
  \/ conf.NumNodes < 1
  \/ conf.NumServices < 1
  \/ \A i \in Intervals : LET r == conf.interval[i] IN
       r.min >= 0 /\ r.max >= 0 /\ r.max >= r.min

Normalize ==
  /\ status = "read"
  /\ status' = IF Accepts THEN "names" ELSE "rejected"
  /\ UNCHANGED <<conf, made, addresses, instances, checks>>

-----------------------------------------------------------------------------
(* initializeData.                                                         *)

\* Mutant: the length of the interval is taken for its end.
DrawBeyond(i) == LET r == conf.interval[i] IN
  IF r.min = r.max THEN {r.min} ELSE r.min .. (r.min + r.max)

\* randInterval: the maximum itself is drawn only when it is the minimum too.
Draw(i) == LET r == conf.interval[i] IN
  IF r.min = r.max THEN {r.min} ELSE r.min .. (r.max - 1)

MakeNames ==
  /\ status = "names"
  /\ status' = IF conf.NumServices < 0 THEN "panic" ELSE "nodes"
  /\ UNCHANGED <<conf, made, addresses, instances, checks>>

\* Mutant: the loops count from one.
IndicesFromOne(k) == 1 .. (k - 1)
\* for i := 0; i < k; i++
Indices(k) == 0 .. (k - 1)

\* Mutant: sidecars are checked whether they are registered or not.
AlwaysChecked(k) == Indices(k)
\* Services that get a sidecar proxy.
WithSidecar(k) == IF conf.IncludeConnectSidecars THEN Indices(k) ELSE {}

Instance(n, i, name, sidecar) ==
  [node |-> n, index |-> i, name |-> name, sidecar |-> sidecar]
CheckOf(n, of, i) == [node |-> n, of |-> of, index |-> i]

\* Instances of a node with the given service names.
NodeInstances(n, k, name) ==
  {Instance(n, i, name[i], FALSE) : i \in Indices(k)}
  \cup (IF conf.IncludeConnectSidecars
        THEN {Instance(n, i, name[i], TRUE) : i \in Indices(k)} ELSE {})

\* Its checks: h of the node, m[i] of service i, one of each sidecar.
NodeChecks(n, h, k, name, m) ==
  {CheckOf(n, {}, j) : j \in Indices(h)}
  \cup (UNION {{CheckOf(n, {Instance(n, i, name[i], FALSE)}, j) : j \in Indices(m[i])}
               : i \in Indices(k)})
  \cup {CheckOf(n, {Instance(n, i, name[i], TRUE)}, 0) : i \in WithSidecar(k)}

\* The next round of the loop over the nodes.
GenerateNode ==
  /\ status = "nodes"
  /\ made < conf.NumNodes
  /\ \E h \in Draw("ChecksPerNode"), k \in Draw("ServicesPerNode") :
       /\ Indices(k) # {} => conf.NumServices > 0
       /\ \E name \in [Indices(k) -> Names],
             m \in [Indices(k) -> Draw("ChecksPerService")] :
            /\ instances' = instances \cup NodeInstances(made, k, name)
            /\ checks' = checks \cup NodeChecks(made, h, k, name, m)
  /\ \E random \in Randoms :
       addresses' = addresses \cup
         {[node |-> made, ip |-> GenerateIP(TestingAddr, TestingBits, random)]}
  /\ made' = made + 1
  /\ UNCHANGED <<conf, status>>

\* An interval is empty, or there is no name to pick.
GenerateNodePanics ==
  /\ status = "nodes"
  /\ made < conf.NumNodes
  /\ \/ Draw("ChecksPerNode") = {}
     \/ Draw("ServicesPerNode") = {}
     \/ /\ \E k \in Draw("ServicesPerNode") : Indices(k) # {}
        /\ conf.NumServices < 1 \/ Draw("ChecksPerService") = {}
  /\ status' = "panic"
  /\ UNCHANGED <<conf, made, addresses, instances, checks>>

\* pushAllData as far as it depends on the configuration: generateMeta draws
\* from two more intervals, once for every node and every instance.
Push ==
  /\ status = "nodes"
  /\ made >= conf.NumNodes
  /\ status' = IF \/ made > 0 /\ Draw("MetaPerNode") = {}
                  \/ instances # {} /\ Draw("MetaPerService") = {}
               THEN "panic" ELSE "pushed"
  /\ UNCHANGED <<conf, made, addresses, instances, checks>>

Next == Normalize \/ MakeNames \/ GenerateNode \/ GenerateNodePanics \/ Push

Spec == Init /\ [][Next]_vars

-----------------------------------------------------------------------------
\* Mutant: the index is left out of the identifier.
NameOnly(s) == <<s.name, s.sidecar>>

\* The parts of the identifiers sent to Consul, which are texts.  A text has
\* its parts in one way only, because a name is three words of letters
\* (random/petname/data holds nothing else); that is read off those files and
\* not checked here.  A check of the node begins with the node's identifier.
ServiceID(s) == <<s.name, s.index, s.sidecar>>
CheckID(c) == <<{ServiceID(s) : s \in c.of}, c.index>>

Instances ==
  [node : Nat, index : Nat, name : Names, sidecar : BOOLEAN]

\* Beyond the types: every node has an address, and a check is for an instance
\* that is registered before it.
TypeOK ==
  /\ conf \in Configs
  /\ status \in {"read", "rejected", "names", "nodes", "pushed", "panic"}
  /\ made \in Nat
  /\ addresses \subseteq [node : Nat, ip : Addresses(4)]
  /\ \A n \in 0 .. (made - 1) : \E a \in addresses : a.node = n
  /\ instances \subseteq Instances
  /\ \A s \in instances : s.node < made
  /\ checks \subseteq [node : Nat, of : SUBSET instances, index : Nat]
  /\ \A c \in checks : c.node < made /\ \A s \in c.of : s.node = c.node

\* Normalize looks at the intervals only for such a configuration.
Validated == conf.NumNodes >= 1 /\ conf.NumServices >= 1

\* What Normalize has looked at and accepted brings down neither the
\* generation of the data nor the push of it.
ValidatedNeverPanics == Validated => status # "panic"

\* "198.18.0.0 -198.19.255.255 which is reserved for testing purposes": no node
\* is registered under an address that somebody may be using.
AddressesReserved ==
  \A a \in addresses : a.ip[0] = 198 /\ a.ip[1] \in {18, 19}

Within(S, i) == Cardinality(S) \in conf.interval[i].min .. conf.interval[i].max

IDsOfServices(n) == {ServiceID(s) : s \in {t \in instances : t.node = n /\ ~t.sidecar}}
IDsOfChecks(n, of) == {CheckID(c) : c \in {d \in checks : d.node = n /\ d.of = of}}

\* Every node has as many services and checks, and every service as many
\* checks, as the comments in config.go promise, counted as Consul counts: of
\* two with one identifier it would keep the last only, and service names are
\* drawn again and again.
WithinLimits ==
  Validated => \A n \in 0 .. (made - 1) :
    /\ Within(IDsOfServices(n), "ServicesPerNode")
    /\ Within(IDsOfChecks(n, {}), "ChecksPerNode")
    /\ \A s \in instances : s.node = n /\ ~s.sidecar =>
         Within(IDsOfChecks(n, {s}), "ChecksPerService")

\* The update loops of run.go pick from lists that are not empty when the
\* minimums of the configuration are positive.  Normalize does not ask for
\* that, so that without them a loop may find nothing to pick and panic.
SomethingToUpdate ==
  LET least(i) == conf.interval[i].min IN
  status = "pushed" /\ Validated =>
    /\ made > 0
    /\ least("ServicesPerNode") > 0 => instances # {}
    /\ \/ least("ChecksPerNode") > 0
       \/ /\ least("ServicesPerNode") > 0
          /\ least("ChecksPerService") > 0 \/ conf.IncludeConnectSidecars
       => checks # {}
=============================================================================
