-------------------------- MODULE CatalogLimitsProofs --------------------------
(***************************************************************************)
(* How many services and checks initializeData generates, for any          *)
(* configuration Normalize has validated: the limits of its section, and   *)
(* that there is something to update when its minimums are positive.       *)
(***************************************************************************)
EXTENDS CatalogDataProofs, FiniteSetTheorems

\* The sets the limits are about, and what is counted of them.
Own(n) == {s \in instances : s.node = n /\ ~s.sidecar}
ChecksOf(n, of) == {c \in checks : c.node = n /\ c.of = of}
ServiceIDs(S) == {ServiceID(s) : s \in S}
CheckIDs(S) == {CheckID(c) : c \in S}

\* A sidecar has its check.
SidecarsChecked == conf.IncludeConnectSidecars /\ instances # {} => checks # {}

\* The push comes after the last node.
PushedLast == status = "pushed" => made >= conf.NumNodes

LInv == IInv /\ WithinLimits /\ SidecarsChecked /\ PushedLast

-----------------------------------------------------------------------------
(* Counting.                                                               *)

LEMMA Counted ==
  ASSUME NEW k \in Nat, NEW S, NEW f \in Bijection(0 .. (k - 1), S)
  PROVE  Cardinality(S) = k
<1>1. IsFiniteSet(0 .. (k - 1)) /\ Cardinality(0 .. (k - 1)) = k
  BY FS_Interval
<1>2. ExistsBijection(0 .. (k - 1), S)
  BY DEF ExistsBijection
<1>3. QED BY <1>1, <1>2, FS_Bijection

\* What randInterval draws from a validated interval is within its bounds.
LEMMA DrawWithin ==
  ASSUME conf \in Configs, Accepts, Validated, NEW i \in Intervals, NEW k \in Draw(i)
  PROVE  k \in Nat /\ k \in conf.interval[i].min .. conf.interval[i].max
<1> DEFINE lo == conf.interval[i].min
           hi == conf.interval[i].max
<1>1. lo \in Int /\ hi \in Int /\ conf.NumNodes \in Int /\ conf.NumServices \in Int
  BY ConfigsTyped
<1>2. 0 <= lo /\ lo <= hi
  BY <1>1 DEF Accepts, Validated
<1>3. QED BY <1>1, <1>2 DEF Draw

\* One instance a service, h checks of the node, m[i] of service i.
Counts(n, h, k, name, m) ==
  /\ \A S : (\A s : s \in S <=> s \in NodeInstances(n, k, name) /\ ~s.sidecar)
            => Cardinality(ServiceIDs(S)) = k
  /\ \A S : (\A c : c \in S <=> c \in NodeChecks(n, h, k, name, m) /\ c.of = {})
            => Cardinality(CheckIDs(S)) = h
  /\ \A i \in Indices(k) : \A S :
       (\A c : c \in S <=> /\ c \in NodeChecks(n, h, k, name, m)
                          /\ c.of = {Instance(n, i, name[i], FALSE)})
         => Cardinality(CheckIDs(S)) = m[i]

\* The number at its end tells a check from the others of what it hangs off.
LEMMA NumberTells ==
  \A n, of : \A i, j : CheckID(CheckOf(n, of, i)) = CheckID(CheckOf(n, of, j)) => i = j
BY DEF CheckID, CheckOf

LEMMA NodeCounts ==
  ASSUME NEW n \in Nat, NEW h \in Nat, NEW k \in Nat,
         NEW name \in [Indices(k) -> Names], NEW m \in [Indices(k) -> Nat]
  PROVE  Counts(n, h, k, name, m)
<1> DEFINE I(i) == Instance(n, i, name[i], FALSE)
           T(i) == {CheckOf(n, {I(i)}, j) : j \in Indices(m[i])}
           H == {CheckOf(n, {}, j) : j \in Indices(h)}
           P == {CheckOf(n, {Instance(n, i, name[i], TRUE)}, 0) : i \in WithSidecar(k)}
           all == NodeChecks(n, h, k, name, m)
<1>1. \A i, j \in Int : I(i) = I(j) \/ ServiceID(I(i)) = ServiceID(I(j)) => i = j
  BY DEF Instance, ServiceID
<1>2. Cardinality(ServiceIDs({s \in NodeInstances(n, k, name) : ~s.sidecar})) = k
  <2> DEFINE S == {s \in NodeInstances(n, k, name) : ~s.sidecar}
             f == [i \in 0 .. (k - 1) |-> ServiceID(I(i))]
  <2>1. \A i \in Indices(k) : I(i) \in S
    BY DEF NodeInstances, Instance
  <2>2. ASSUME NEW s \in S PROVE \E i \in Indices(k) : s = I(i)
    BY DEF NodeInstances, Instance
  <2> HIDE DEF S, I
  <2>2a. \A x : x \in ServiceIDs(S) <=> \E i \in 0 .. (k - 1) : x = ServiceID(I(i))
    BY <2>1, <2>2 DEF Indices, ServiceIDs
  <2>3. f \in Bijection(0 .. (k - 1), ServiceIDs(S))
    BY <1>1, <2>2a DEF Bijection, Injection, Surjection, IsInjective
  <2>4. QED BY <2>3, Counted DEF S
<1>3. \A c : c \in all <=> c \in H \/ (\E i \in Indices(k) : c \in T(i)) \/ c \in P
  <2>1. all = H \cup (UNION {T(i) : i \in Indices(k)}) \cup P
    BY DEF NodeChecks
  <2> HIDE DEF all, H, T, P
  <2>2. QED BY <2>1, Zenon
<1>4. /\ \A c \in H : c.of = {}
      /\ \A i \in Indices(k) : \A c \in T(i) : c.of = {I(i)}
      /\ \A c \in P : c.of # {} /\ \A i \in Indices(k) : c.of # {I(i)}
  <2>1. \A c \in H : c.of = {}
    BY DEF CheckOf
  <2>2. ASSUME NEW i \in Indices(k), NEW c \in T(i) PROVE c.of = {I(i)}
    <3> HIDE DEF I
    <3> QED BY DEF CheckOf
  <2>3. ASSUME NEW c \in P PROVE c.of # {} /\ \A i \in Indices(k) : c.of # {I(i)}
    <3>0. PICK j \in WithSidecar(k) : c = CheckOf(n, {Instance(n, j, name[j], TRUE)}, 0)
      OBVIOUS
    <3>1. c.of = {Instance(n, j, name[j], TRUE)}
      BY <3>0 DEF CheckOf
    <3>2. \A i : I(i) # Instance(n, j, name[j], TRUE)
      BY DEF Instance
    <3> HIDE DEF I
    <3>3. QED BY <3>1, <3>2
  <2>4. QED BY <2>1, <2>2, <2>3
<1>5. Cardinality(CheckIDs({c \in all : c.of = {}})) = h
  <2> DEFINE S == {c \in all : c.of = {}}
             f == [j \in 0 .. (h - 1) |-> CheckID(CheckOf(n, {}, j))]
  <2>1. \A c : c \in S <=> c \in H
    <3> HIDE DEF all, H, T, P, I
    <3>1. \A i : {I(i)} # {}
      OBVIOUS
    <3>2. QED BY <1>3, <1>4, <3>1
  <2> HIDE DEF S, all
  <2>1a. \A x : x \in CheckIDs(S) <=> \E j \in 0 .. (h - 1) : x = CheckID(CheckOf(n, {}, j))
    BY <2>1 DEF Indices, CheckIDs
  <2>2. f \in Bijection(0 .. (h - 1), CheckIDs(S))
    BY <2>1a, NumberTells DEF Bijection, Injection, Surjection, IsInjective
  <2>3. QED BY <2>2, Counted DEF S
<1>6. ASSUME NEW i \in Indices(k)
      PROVE  Cardinality(CheckIDs({c \in all : c.of = {I(i)}})) = m[i]
  <2> DEFINE S == {c \in all : c.of = {I(i)}}
  <2>0. i \in Int /\ \A j \in Indices(k) : j \in Int
    BY DEF Indices
  <2>1. \A c : c \in S <=> c \in T(i)
    <3> HIDE DEF all, H, T, P, I
    <3>1. \A j : {I(j)} # {} /\ ({I(j)} = {I(i)} => I(j) = I(i))
      OBVIOUS
    <3>2. QED BY <1>1, <1>3, <1>4, <2>0, <3>1
  <2>2. m[i] \in Nat
    OBVIOUS
  <2> DEFINE l == m[i]
             of == {I(i)}
  <2>3. \A c : c \in S <=> \E j \in 0 .. (l - 1) : c = CheckOf(n, of, j)
    BY <2>1 DEF Indices
  <2> DEFINE g == [j \in 0 .. (l - 1) |-> CheckID(CheckOf(n, of, j))]
  <2> HIDE DEF S, all, I, l, of
  <2>3a. \A x : x \in CheckIDs(S) <=> \E j \in 0 .. (l - 1) : x = CheckID(CheckOf(n, of, j))
    BY <2>3 DEF CheckIDs
  <2>4. g \in Bijection(0 .. (l - 1), CheckIDs(S))
    BY <2>3a, NumberTells DEF Bijection, Injection, Surjection, IsInjective
  <2>5. QED BY <2>2, <2>4, Counted DEF S, l
<1> DEFINE ins == NodeInstances(n, k, name)
<1> HIDE DEF all, ins, I, H, T, P
<1>7. \A S : (\A s : s \in S <=> s \in ins /\ ~s.sidecar) => S = {s \in ins : ~s.sidecar}
  OBVIOUS
<1>8. \A S : (\A c : c \in S <=> c \in all /\ c.of = {}) => S = {c \in all : c.of = {}}
  OBVIOUS
<1>9. \A i \in Indices(k) : \A S :
        (\A c : c \in S <=> c \in all /\ c.of = {I(i)}) => S = {c \in all : c.of = {I(i)}}
  OBVIOUS
<1>10. \A i \in Indices(k) : \A S :
         (\A c : c \in S <=> c \in all /\ c.of = {I(i)}) => Cardinality(CheckIDs(S)) = m[i]
  BY <1>6, <1>9
<1>11. \A S : (\A c : c \in S <=> c \in all /\ c.of = {}) => Cardinality(CheckIDs(S)) = h
  BY <1>5, <1>8
<1>12. \A S : (\A s : s \in S <=> s \in ins /\ ~s.sidecar) => Cardinality(ServiceIDs(S)) = k
  BY <1>2, <1>7 DEF ins
<1>13. QED BY <1>10, <1>11, <1>12 DEF ins, all, I, Counts

-----------------------------------------------------------------------------
(* The invariant.                                                          *)

\* The next node is within the limits, and the earlier ones stay there.
LEMMA LimitsStep == ASSUME LInv, GenerateNode PROVE WithinLimits' /\ SidecarsChecked'
<1> USE DEF LInv, IInv
<1>0. conf \in Configs /\ made \in Nat /\ made' = made + 1 /\ conf' = conf /\ Accepts
  BY DEF TypeOK, GenerateNode, AcceptedOnly
<1>1. PICK h \in Draw("ChecksPerNode"), k \in Draw("ServicesPerNode") :
        \E name \in [Indices(k) -> Names],
           m \in [Indices(k) -> Draw("ChecksPerService")] :
             /\ instances' = instances \cup NodeInstances(made, k, name)
             /\ checks' = checks \cup NodeChecks(made, h, k, name, m)
  BY DEF GenerateNode
<1>2. PICK name \in [Indices(k) -> Names],
           m \in [Indices(k) -> Draw("ChecksPerService")] :
             /\ instances' = instances \cup NodeInstances(made, k, name)
             /\ checks' = checks \cup NodeChecks(made, h, k, name, m)
  BY <1>1
<1> DEFINE I == NodeInstances(made, k, name)
           C == NodeChecks(made, h, k, name, m)
<1>3. h \in Int /\ k \in Int /\ m \in [Indices(k) -> Int]
  BY <1>0, DrawType DEF Intervals
<1>4. /\ \A s \in I : s.node = made
      /\ \A c \in C : c.node = made /\ \A s \in c.of : s.node = made
  <2>1. /\ \A s \in I : s.node = made
        /\ \A c \in C : c \in [node : Nat, of : SUBSET I, index : Nat] /\ c.node = made
    BY <1>0, <1>3, NodeDataType
  <2> HIDE DEF I, C
  <2>2. \A c \in C : c.of \subseteq I
    BY <2>1
  <2>3. QED BY <2>1, <2>2
<1>5. /\ \A s \in instances : s.node # made
      /\ \A c \in checks : c.node # made /\ \A s \in c.of : s.node # made
  BY <1>0 DEF TypeOK
<1>6. instances' = instances \cup I /\ checks' = checks \cup C
  BY <1>2
<1> DEFINE own(n) == {s \in instances' : s.node = n /\ ~s.sidecar}
           checksOf(n, of) == {c \in checks' : c.node = n /\ c.of = of}
           Limit(S, i) == Cardinality(S) \in conf.interval[i].min .. conf.interval[i].max
           Limits(n) == /\ Limit(ServiceIDs(own(n)), "ServicesPerNode")
                        /\ Limit(CheckIDs(checksOf(n, {})), "ChecksPerNode")
                        /\ \A s \in own(n) : Limit(CheckIDs(checksOf(n, {s})), "ChecksPerService")
<1>7. ASSUME Validated, NEW n \in 0 .. (made - 1) PROVE Limits(n)
  <2>1. n # made
    BY <1>0
  <2> HIDE DEF I, C
  <2>2. own(n) = Own(n) /\ \A of : checksOf(n, of) = ChecksOf(n, of)
    BY <1>4, <1>6, <2>1 DEF Own, ChecksOf
  <2>3. /\ Limit(ServiceIDs(Own(n)), "ServicesPerNode")
        /\ Limit(CheckIDs(ChecksOf(n, {})), "ChecksPerNode")
        /\ \A s \in Own(n) : Limit(CheckIDs(ChecksOf(n, {s})), "ChecksPerService")
    BY <1>7 DEF WithinLimits, Within, IDsOfServices, IDsOfChecks, Own, ChecksOf, ServiceIDs, CheckIDs
  <2> HIDE DEF own, checksOf, Limit
  <2>4. QED BY <2>2, <2>3
<1>8. ASSUME Validated PROVE Limits(made)
  <2>1. /\ h \in Nat /\ h \in conf.interval["ChecksPerNode"].min .. conf.interval["ChecksPerNode"].max
        /\ k \in Nat /\ k \in conf.interval["ServicesPerNode"].min .. conf.interval["ServicesPerNode"].max
    BY <1>0, <1>8, DrawWithin DEF Intervals
  <2>2. \A i \in Indices(k) :
          /\ m[i] \in Nat
          /\ m[i] \in conf.interval["ChecksPerService"].min .. conf.interval["ChecksPerService"].max
    BY <1>0, <1>8, DrawWithin DEF Intervals
  <2>3. m \in [Indices(k) -> Nat]
    BY <2>2
  <2> HIDE DEF own, checksOf, Limit, Limits
  <2>4. /\ Cardinality(ServiceIDs({s \in I : ~s.sidecar})) = k
        /\ Cardinality(CheckIDs({c \in C : c.of = {}})) = h
        /\ \A i \in Indices(k) :
             Cardinality(CheckIDs({c \in C : c.of = {Instance(made, i, name[i], FALSE)}})) = m[i]
    <3>1. /\ \A S : (\A s : s \in S <=> s \in I /\ ~s.sidecar)
                     => Cardinality(ServiceIDs(S)) = k
          /\ \A S : (\A c : c \in S <=> c \in C /\ c.of = {})
                     => Cardinality(CheckIDs(S)) = h
          /\ \A i \in Indices(k) : \A S :
               (\A c : c \in S <=> c \in C /\ c.of = {Instance(made, i, name[i], FALSE)})
                 => Cardinality(CheckIDs(S)) = m[i]
      <4>1. made \in Nat /\ h \in Nat /\ k \in Nat /\ name \in [Indices(k) -> Names]
        BY <1>0, <2>1
      <4>2. Counts(made, h, k, name, m)
        BY <2>3, <4>1, NodeCounts
      <4>3. QED BY <4>2 DEF Counts
    <3> HIDE DEF I, C
    <3>2. QED BY <3>1
  <2>5. ASSUME NEW s \in I, ~s.sidecar
        PROVE  \E i \in Indices(k) : s = Instance(made, i, name[i], FALSE)
    BY <2>5 DEF NodeInstances, Instance
  <2> HIDE DEF I, C
  <2> USE DEF own, checksOf, Limit, Limits
  <2>6. own(made) = {s \in I : ~s.sidecar} /\ \A of : checksOf(made, of) = {c \in C : c.of = of}
    BY <1>4, <1>5, <1>6
  <2>7. /\ Limit(ServiceIDs(own(made)), "ServicesPerNode")
        /\ Limit(CheckIDs(checksOf(made, {})), "ChecksPerNode")
    BY <2>1, <2>4, <2>6
  <2>8. ASSUME NEW s \in own(made)
        PROVE  Limit(CheckIDs(checksOf(made, {s})), "ChecksPerService")
    <3>1. s \in I /\ ~s.sidecar
      BY <2>6
    <3>2. PICK i \in Indices(k) : s = Instance(made, i, name[i], FALSE)
      BY <2>5, <3>1
    <3>3. Cardinality(CheckIDs(checksOf(made, {s}))) = m[i]
      BY <2>4, <2>6, <3>2
    <3>4. QED BY <2>2, <3>3
  <2>9. QED BY <2>7, <2>8
<1>9. WithinLimits'
  <2> HIDE DEF Limits
  <2>1. \A n \in 0 .. (made' - 1) : n \in 0 .. (made - 1) \/ n = made
    BY <1>0
  <2>2. Validated' => Validated
    BY <1>0 DEF Validated
  <2>3. Validated' => \A n \in 0 .. (made' - 1) : Limits(n)
    BY <1>7, <1>8, <2>1, <2>2
  <2>4. QED
    BY <1>0, <2>3
    DEF WithinLimits, Within, IDsOfServices, IDsOfChecks, ServiceIDs, CheckIDs, Limits
<1>10. SidecarsChecked'
  <2>1. ASSUME conf.IncludeConnectSidecars, NEW s \in I PROVE C # {}
    <3>1. PICK i \in Indices(k) : TRUE
      BY DEF NodeInstances
    <3>2. CheckOf(made, {Instance(made, i, name[i], TRUE)}, 0) \in C
      BY <2>1 DEF NodeChecks, WithSidecar
    <3>3. QED BY <3>2
  <2> HIDE DEF I, C
  <2>2. QED BY <1>0, <1>6, <2>1 DEF SidecarsChecked
<1>11. QED BY <1>9, <1>10

LEMMA LimitsBegin == Init => LInv
BY InitInv DEF Init, LInv, WithinLimits, SidecarsChecked, PushedLast

LEMMA LimitsKeep == LInv /\ [Next]_vars => LInv'
<1> SUFFICES ASSUME LInv, [Next]_vars PROVE LInv'
  OBVIOUS
<1>1. IInv'
  BY NextInv DEF LInv
<1>1a. PushedLast'
  BY DEF LInv, PushedLast, Next, Normalize, MakeNames, GenerateNode, GenerateNodePanics,
     Push, vars
<1>2. CASE GenerateNode
  BY <1>1, <1>1a, <1>2, LimitsStep DEF LInv
<1>3. CASE ~GenerateNode
  <2>1. UNCHANGED <<conf, made, instances, checks>>
    BY <1>3 DEF Next, Normalize, MakeNames, GenerateNodePanics, Push, vars
  <2>2. QED
    BY <1>1, <1>1a, <2>1 DEF LInv, WithinLimits, Within, IDsOfServices,
       IDsOfChecks, Validated, SidecarsChecked
<1>4. QED BY <1>2, <1>3

LEMMA LimitsInvariant == Spec => []LInv
BY LimitsBegin, LimitsKeep, PTL DEF Spec

-----------------------------------------------------------------------------
\* Every node and service gets as much as the comments in config.go say.
THEOREM LimitsKept == Spec => []WithinLimits
<1>1. LInv => WithinLimits
  BY DEF LInv
<1>2. QED BY <1>1, LimitsInvariant, PTL

\* The lists run.go picks from are not empty where the minimums are positive.
THEOREM ListsFilled == Spec => []SomethingToUpdate
<1> DEFINE least(i) == conf.interval[i].min
<1>1. ASSUME LInv, status = "pushed", Validated
      PROVE  /\ made > 0
             /\ least("ServicesPerNode") > 0 => instances # {}
             /\ \/ least("ChecksPerNode") > 0
                \/ /\ least("ServicesPerNode") > 0
                   /\ least("ChecksPerService") > 0 \/ conf.IncludeConnectSidecars
                => checks # {}
  <2> USE <1>1 DEF LInv, IInv
  <2>1. conf \in Configs /\ made \in Nat
    BY DEF TypeOK
  <2>2. made > 0 /\ 0 \in 0 .. (made - 1)
    BY <2>1, ConfigsTyped DEF PushedLast, Validated
  <2>3. \A i \in Intervals : conf.interval[i].min \in Int /\ conf.interval[i].max \in Int
    BY <2>1, ConfigsTyped
  <2>3a. PICK n \in 0 .. (made - 1) : TRUE
    BY <2>2
  <2> DEFINE Limit(S, i) == Cardinality(S) \in conf.interval[i].min .. conf.interval[i].max
  <2>3b. /\ Limit(ServiceIDs(Own(n)), "ServicesPerNode")
         /\ Limit(CheckIDs(ChecksOf(n, {})), "ChecksPerNode")
         /\ \A s \in Own(n) : Limit(CheckIDs(ChecksOf(n, {s})), "ChecksPerService")
    BY DEF WithinLimits, Within, IDsOfServices, IDsOfChecks, Own, ChecksOf, ServiceIDs, CheckIDs
  <2>4. /\ Cardinality(ServiceIDs(Own(n))) >= least("ServicesPerNode")
        /\ Cardinality(CheckIDs(ChecksOf(n, {}))) >= least("ChecksPerNode")
        /\ \A s \in Own(n) : Cardinality(CheckIDs(ChecksOf(n, {s}))) >= least("ChecksPerService")
    BY <2>3, <2>3b DEF Intervals
  <2>5. /\ Cardinality(ServiceIDs({})) = 0
        /\ Cardinality(CheckIDs({})) = 0
    <3>1. ServiceIDs({}) = {} /\ CheckIDs({}) = {}
      BY DEF ServiceIDs, CheckIDs
    <3>2. QED BY <3>1, FS_EmptySet
  <2>5a. \A i \in Intervals : least(i) > 0 => ~(0 >= least(i))
    BY <2>3
  <2>6. least("ServicesPerNode") > 0 => Own(n) # {}
    <3>1. Own(n) = {} => Cardinality(ServiceIDs(Own(n))) = 0
      BY <2>5
    <3>2. QED BY <2>4, <2>5a, <3>1 DEF Intervals
  <2>7. ASSUME checks = {}
        PROVE  /\ Cardinality(CheckIDs(ChecksOf(n, {}))) = 0
               /\ \A s \in Own(n) : Cardinality(CheckIDs(ChecksOf(n, {s}))) = 0
    <3>1. \A of : ChecksOf(n, of) = {}
      BY <2>7 DEF ChecksOf
    <3>2. QED BY <2>5, <3>1
  <2>8. /\ least("ChecksPerNode") > 0 => checks # {}
        /\ \A s \in Own(n) : least("ChecksPerService") > 0 => checks # {}
    BY <2>4, <2>5a, <2>7 DEF Intervals
  <2>8a. Own(n) \subseteq instances
    BY DEF Own
  <2>9. QED BY <2>2, <2>6, <2>8, <2>8a DEF SidecarsChecked
<1>2. LInv => SomethingToUpdate
  BY <1>1 DEF SomethingToUpdate
<1>3. QED BY <1>2, LimitsInvariant, PTL
=============================================================================
