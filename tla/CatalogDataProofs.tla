-------------------------- MODULE CatalogDataProofs --------------------------
(***************************************************************************)
(* Proofs about CatalogData for any set of configurations and names: types *)
(* and ownership of what is generated, identifiers that do not collide,    *)
(* and that a configuration Normalize has validated never panics.          *)
(***************************************************************************)
EXTENDS CatalogData, IPPrefixProofs, TLAPS

\* Past Normalize a configuration is one it accepts; without nodes there are
\* neither instances nor checks.
AcceptedOnly == status \notin {"read", "rejected"} => Accepts

IInv == TypeOK /\ AcceptedOnly /\ ValidatedNeverPanics /\ AddressesReserved

-----------------------------------------------------------------------------
\* randInterval returns an integer.
LEMMA DrawType ==
  ASSUME conf \in Configs, NEW i \in Intervals
  PROVE  /\ conf.interval[i].min \in Int
         /\ conf.interval[i].max \in Int
         /\ Draw(i) \subseteq Int
BY ConfigsTyped DEF Draw

\* It finds one in every interval that has been validated.
LEMMA DrawFinds ==
  ASSUME conf \in Configs, Accepts, Validated, NEW i \in Intervals
  PROVE  Draw(i) # {}
<1> DEFINE lo == conf.interval[i].min
           hi == conf.interval[i].max
<1>1. lo \in Int /\ hi \in Int /\ conf.NumNodes \in Int /\ conf.NumServices \in Int
  BY ConfigsTyped
<1>2. lo <= hi
  BY <1>1 DEF Accepts, Validated
<1>3. lo \in Draw(i)
  BY <1>1, <1>2 DEF Draw
<1>4. QED BY <1>3

\* The data of one node, and of no other.
LEMMA NodeDataType ==
  ASSUME conf \in Configs, NEW n \in Nat, NEW h \in Int, NEW k \in Int,
         NEW name \in [Indices(k) -> Names], NEW m \in [Indices(k) -> Int]
  PROVE  /\ NodeInstances(n, k, name) \subseteq Instances
         /\ \A s \in NodeInstances(n, k, name) : s.node = n
         /\ \A c \in NodeChecks(n, h, k, name, m) :
              /\ c \in [node : Nat, of : SUBSET NodeInstances(n, k, name), index : Nat]
              /\ c.node = n
<1>1. \A j \in Int : Indices(j) \subseteq Nat
  BY DEF Indices
<1>2. \A i \in Indices(k) : i \in Nat /\ name[i] \in Names /\ m[i] \in Int
  BY <1>1
<1>3. /\ NodeInstances(n, k, name) \subseteq Instances
      /\ \A s \in NodeInstances(n, k, name) : s.node = n
  <2>1. ASSUME NEW s \in NodeInstances(n, k, name)
        PROVE  s \in Instances /\ s.node = n
    <3> DEFINE A == {Instance(n, i, name[i], FALSE) : i \in Indices(k)}
               B == {Instance(n, i, name[i], TRUE) : i \in Indices(k)}
    <3>0. s \in A \/ s \in B
      BY DEF NodeInstances
    <3>1. PICK i \in Indices(k) :
            s = Instance(n, i, name[i], FALSE) \/ s = Instance(n, i, name[i], TRUE)
      BY <3>0
    <3>2. i \in Nat /\ name[i] \in Names
      BY <1>2
    <3>3. \A b \in BOOLEAN : Instance(n, i, name[i], b) \in Instances /\ Instance(n, i, name[i], b).node = n
      BY <3>2 DEF Instance, Instances
    <3>4. QED BY <3>1, <3>3
  <2>2. QED BY <2>1
<1>4. ASSUME NEW c \in NodeChecks(n, h, k, name, m)
      PROVE  /\ c \in [node : Nat, of : SUBSET NodeInstances(n, k, name), index : Nat]
             /\ c.node = n
  <2>1. CASE \E j \in Indices(h) : c = CheckOf(n, {}, j)
    BY <2>1, <1>1 DEF CheckOf
  <2>2. CASE \E i \in Indices(k) : \E j \in Indices(m[i]) :
               c = CheckOf(n, {Instance(n, i, name[i], FALSE)}, j)
    <3>1. PICK i \in Indices(k) : \E j \in Indices(m[i]) :
            c = CheckOf(n, {Instance(n, i, name[i], FALSE)}, j)
      BY <2>2
    <3>2. PICK j \in Nat : c = CheckOf(n, {Instance(n, i, name[i], FALSE)}, j)
      BY <1>1, <1>2, <3>1
    <3>3. Instance(n, i, name[i], FALSE) \in NodeInstances(n, k, name)
      BY DEF NodeInstances
    <3>4. QED BY <3>2, <3>3 DEF CheckOf
  <2>3. CASE \E i \in WithSidecar(k) :
               c = CheckOf(n, {Instance(n, i, name[i], TRUE)}, 0)
    <3>1. PICK i \in WithSidecar(k) :
            c = CheckOf(n, {Instance(n, i, name[i], TRUE)}, 0)
      BY <2>3
    <3>2. Instance(n, i, name[i], TRUE) \in NodeInstances(n, k, name)
      BY DEF NodeInstances, WithSidecar
    <3>3. QED BY <3>1, <3>2 DEF CheckOf
  <2> DEFINE H == {CheckOf(n, {}, j) : j \in Indices(h)}
             T(i) == {CheckOf(n, {Instance(n, i, name[i], FALSE)}, j) : j \in Indices(m[i])}
             P == {CheckOf(n, {Instance(n, i, name[i], TRUE)}, 0) : i \in WithSidecar(k)}
  <2>4. c \in H \cup (UNION {T(i) : i \in Indices(k)}) \cup P
    BY <1>4 DEF NodeChecks
  <2>5. c \in H \/ (\E i \in Indices(k) : c \in T(i)) \/ c \in P
    <3> HIDE DEF H, T, P
    <3> QED BY <2>4, Zenon
  <2>6. QED BY <2>1, <2>2, <2>3, <2>5
<1>5. QED BY <1>3, <1>4

\* The first fifteen bits leave room for two second bytes.
LEMMA TestingRange ==
  ASSUME NEW random \in Addresses(4)
  PROVE  LET ip == GenerateIP(TestingAddr, TestingBits, random) IN
         ip \in Addresses(4) /\ ip[0] = 198 /\ ip[1] \in {18, 19}
<1> DEFINE ip == GenerateIP(TestingAddr, TestingBits, random)
<1>1. TestingAddr \in Addresses(4) /\ TestingBits \in Nat
  BY DEF TestingAddr, TestingBits, Addresses, Byte
<1>2. ip \in Addresses(4) /\ InPrefix(TestingAddr, TestingBits, ip)
  BY <1>1, StaysInPrefix
<1>3. ip[0] \in Byte /\ ip[1] \in Byte /\ TestingAddr[0] = 198 /\ TestingAddr[1] = 18
  BY <1>2 DEF Addresses, TestingAddr
<1>4. \A j \in 0 .. 7 : Bit(ip[0], j) = Bit(198, j)
  BY <1>2, <1>3 DEF InPrefix, TestingAddr, TestingBits
<1>5. \A j \in 0 .. 7 : j < 7 => Bit(ip[1], j) = Bit(18, j)
  BY <1>2, <1>3 DEF InPrefix, TestingAddr, TestingBits
<1>6. 198 \in Byte /\ 18 \in Byte /\ Blocks[8 + 1] = 1 /\ Blocks[7 + 1] = 2
  BY DEF Byte, Blocks
<1>7. ip[0] \div 1 = 198 \div 1
  BY <1>3, <1>4, <1>6, SameBlock
<1>8. ip[1] \div 2 = 18 \div 2
  BY <1>3, <1>5, <1>6, SameBlock
<1>9. QED BY <1>2, <1>3, <1>7, <1>8 DEF Byte

LEMMA InitInv == Init => IInv
BY DEF Init, IInv, TypeOK, AcceptedOnly, ValidatedNeverPanics, AddressesReserved

LEMMA GenerateNodeStep == ASSUME IInv, GenerateNode PROVE IInv'
<1> USE DEF IInv, GenerateNode
<1>0. conf \in Configs /\ made \in Nat /\ made' = made + 1
  BY DEF TypeOK
<1>1. PICK h \in Draw("ChecksPerNode"), k \in Draw("ServicesPerNode") :
        \E name \in [Indices(k) -> Names],
           m \in [Indices(k) -> Draw("ChecksPerService")] :
             /\ instances' = instances \cup NodeInstances(made, k, name)
             /\ checks' = checks \cup NodeChecks(made, h, k, name, m)
  OBVIOUS
<1>2. PICK name \in [Indices(k) -> Names],
           m \in [Indices(k) -> Draw("ChecksPerService")] :
             /\ instances' = instances \cup NodeInstances(made, k, name)
             /\ checks' = checks \cup NodeChecks(made, h, k, name, m)
  BY <1>1
<1>3. h \in Int /\ k \in Int /\ m \in [Indices(k) -> Int]
  BY <1>0, DrawType DEF Intervals
<1>4. /\ NodeInstances(made, k, name) \subseteq Instances
      /\ \A s \in NodeInstances(made, k, name) : s.node = made
      /\ \A c \in NodeChecks(made, h, k, name, m) :
           /\ c \in [node : Nat, of : SUBSET NodeInstances(made, k, name), index : Nat]
           /\ c.node = made
  BY <1>0, <1>3, NodeDataType
<1>5. instances' \subseteq Instances /\ \A s \in instances' : s.node < made'
  BY <1>0, <1>2, <1>4 DEF TypeOK, Instances
<1>6. ASSUME NEW c \in checks'
      PROVE  /\ c \in [node : Nat, of : SUBSET instances', index : Nat]
             /\ c.node < made' /\ \A s \in c.of : s.node = c.node
  <2>1. CASE c \in checks
    BY <2>1, <1>0, <1>2 DEF TypeOK
  <2>2. CASE c \in NodeChecks(made, h, k, name, m)
    BY <2>2, <1>0, <1>2, <1>4
  <2>3. QED BY <2>1, <2>2, <1>2
<1>7. PICK random \in Randoms :
        addresses' = addresses \cup
          {[node |-> made, ip |-> GenerateIP(TestingAddr, TestingBits, random)]}
  OBVIOUS
<1>8. LET ip == GenerateIP(TestingAddr, TestingBits, random) IN
      ip \in Addresses(4) /\ ip[0] = 198 /\ ip[1] \in {18, 19}
  BY RandomsTyped, TestingRange
<1>9. /\ addresses' \subseteq [node : Nat, ip : Addresses(4)]
      /\ \A n \in 0 .. (made' - 1) : \E a \in addresses' : a.node = n
      /\ AddressesReserved'
  <2> DEFINE new == [node |-> made, ip |-> GenerateIP(TestingAddr, TestingBits, random)]
  <2>1. /\ new \in [node : Nat, ip : Addresses(4)]
        /\ new.node = made /\ new.ip[0] = 198 /\ new.ip[1] \in {18, 19}
    BY <1>0, <1>8
  <2>2. addresses' = addresses \cup {new}
    BY <1>7
  <2> HIDE DEF new, GenerateNode
  <2>3. addresses' \subseteq [node : Nat, ip : Addresses(4)] /\ AddressesReserved'
    BY <2>1, <2>2 DEF TypeOK, AddressesReserved
  <2>4. ASSUME NEW n \in 0 .. (made' - 1)
        PROVE  \E a \in addresses' : a.node = n
    <3>1. n = made \/ n \in 0 .. (made - 1)
      BY <1>0
    <3>2. QED BY <2>1, <2>2, <3>1 DEF TypeOK
  <2>5. QED BY <2>3, <2>4
<1>10. TypeOK'
  BY <1>0, <1>5, <1>6, <1>9 DEF TypeOK
<1>11. AcceptedOnly' /\ ValidatedNeverPanics'
  BY DEF AcceptedOnly, ValidatedNeverPanics, Accepts, Validated
<1>12. QED BY <1>9, <1>10, <1>11

LEMMA NextInv == IInv /\ [Next]_vars => IInv'
<1> SUFFICES ASSUME IInv, [Next]_vars PROVE IInv'
  OBVIOUS
<1> USE DEF IInv
<1>0. conf \in Configs
  BY DEF TypeOK
<1>1. CASE Normalize
  BY <1>1 DEF Normalize, TypeOK, AcceptedOnly, ValidatedNeverPanics, Accepts, Validated,
       AddressesReserved
<1>2. CASE MakeNames
  <2>1. Validated => conf.NumServices >= 0
    BY <1>0, ConfigsTyped DEF Validated
  <2>2. QED
    BY <1>2, <2>1, <1>0, ConfigsTyped DEF MakeNames, TypeOK, AcceptedOnly, ValidatedNeverPanics, Accepts,
       Validated, AddressesReserved
<1>3. CASE GenerateNode
  BY <1>3, GenerateNodeStep
<1>4. CASE GenerateNodePanics
  <2>1. Accepts
    BY <1>4 DEF GenerateNodePanics, AcceptedOnly
  <2>2. ~Validated
    BY <1>4, <1>0, <2>1, DrawFinds, ConfigsTyped
       DEF GenerateNodePanics, Validated, Intervals
  <2>3. QED
    BY <1>4, <2>1, <2>2 DEF GenerateNodePanics, TypeOK, AcceptedOnly,
       ValidatedNeverPanics, Accepts, Validated,
       AddressesReserved
<1>5. CASE Push
  <2>1. Accepts
    BY <1>5 DEF Push, AcceptedOnly
  <2>2. Validated => Draw("MetaPerNode") # {} /\ Draw("MetaPerService") # {}
    BY <1>0, <2>1, DrawFinds DEF Intervals
  <2>3. QED
    BY <1>5, <2>1, <2>2 DEF Push, TypeOK, AcceptedOnly, ValidatedNeverPanics,
       Accepts, Validated, AddressesReserved
<1>6. CASE UNCHANGED vars
  BY <1>6 DEF vars, TypeOK, AcceptedOnly, ValidatedNeverPanics, Accepts, Validated,
       AddressesReserved
<1>7. QED BY <1>1, <1>2, <1>3, <1>4, <1>5, <1>6 DEF Next

LEMMA Invariance == Spec => []IInv
BY InitInv, NextInv, PTL DEF Spec

-----------------------------------------------------------------------------
\* Types hold in every reachable state, and checks hang off instances of
\* their own node.
THEOREM TypeCorrect == Spec => []TypeOK
<1>1. IInv => TypeOK
  BY DEF IInv
<1>2. QED BY <1>1, Invariance, PTL

\* A configuration that Normalize has looked at and accepted panics neither
\* in initializeData nor in the push.
THEOREM ValidatedIsSafe == Spec => []ValidatedNeverPanics
<1>1. IInv => ValidatedNeverPanics
  BY DEF IInv
<1>2. QED BY <1>1, Invariance, PTL

\* Every generated address is one of those reserved for tests, whatever the
\* random bytes.
THEOREM OnlyReserved == Spec => []AddressesReserved
<1>1. IInv => AddressesReserved
  BY DEF IInv
<1>2. QED BY <1>1, Invariance, PTL
=============================================================================
