--------------------------- MODULE IPPrefixProofs ---------------------------
(***************************************************************************)
(* Proofs about IPPrefix for addresses of any length and every prefix: the *)
(* generator stays inside its prefix and can reach all of it.              *)
(***************************************************************************)
EXTENDS IPPrefix, TLAPS

\* How many bits of byte i are fixed.
Fixed(bits, i) == IF BitsLeft(bits, i) >= 8 THEN 8 ELSE BitsLeft(bits, i)

\* The masks, one by one.
LEMMA MaskValue ==
  ASSUME NEW bits \in Nat, NEW i \in Nat
  PROVE  /\ Fixed(bits, i) \in 0 .. 8
         /\ Mask(bits, i) = <<255, 127, 63, 31, 15, 7, 3, 1, 0>>[Fixed(bits, i) + 1]
<1>1. BitsLeft(bits, i) \in Nat
  BY DEF BitsLeft
<1>2. CASE BitsLeft(bits, i) >= 8
  BY <1>1, <1>2 DEF Mask, Fixed
<1>3. CASE BitsLeft(bits, i) < 8
  <2>1. BitsLeft(bits, i) \in {0, 1, 2, 3, 4, 5, 6, 7}
    BY <1>1, <1>3
  <2>2. QED BY <1>3, <2>1 DEF Mask, BitMasks, Fixed
<1>4. QED BY <1>1, <1>2, <1>3

Blocks == <<256, 128, 64, 32, 16, 8, 4, 2, 1>>

\* Two bytes agree in their first k bits when they lie in the same block.
LEMMA SameBlock ==
  ASSUME NEW k \in 0 .. 8, NEW x \in Byte, NEW y \in Byte
  PROVE  (\A j \in 0 .. 7 : j < k => Bit(x, j) = Bit(y, j))
           <=> x \div Blocks[k + 1] = y \div Blocks[k + 1]
<1> DEFINE Eq(j) == Bit(x, j) = Bit(y, j)
           AllEq == /\ (k > 0 => Eq(0)) /\ (k > 1 => Eq(1)) /\ (k > 2 => Eq(2)) /\ (k > 3 => Eq(3))
                    /\ (k > 4 => Eq(4)) /\ (k > 5 => Eq(5)) /\ (k > 6 => Eq(6)) /\ (k > 7 => Eq(7))
           Same(m) == x \div m = y \div m
<1>1. (\A j \in 0 .. 7 : j < k => Eq(j)) <=> AllEq
  <2>1. ASSUME AllEq, NEW j \in 0 .. 7, j < k PROVE Eq(j)
    <3>1. j \in {0, 1, 2, 3, 4, 5, 6, 7}
      OBVIOUS
    <3> HIDE DEF Eq
    <3>2. QED BY <2>1, <3>1
  <2>2. ASSUME \A j \in 0 .. 7 : j < k => Eq(j) PROVE AllEq
    <3> HIDE DEF Eq
    <3> QED BY <2>2
  <2>3. QED BY <2>1, <2>2
<1>2. /\ Eq(0) <=> (x \div 128) % 2 = (y \div 128) % 2
      /\ Eq(1) <=> (x \div 64) % 2 = (y \div 64) % 2
      /\ Eq(2) <=> (x \div 32) % 2 = (y \div 32) % 2
      /\ Eq(3) <=> (x \div 16) % 2 = (y \div 16) % 2
      /\ Eq(4) <=> (x \div 8) % 2 = (y \div 8) % 2
      /\ Eq(5) <=> (x \div 4) % 2 = (y \div 4) % 2
      /\ Eq(6) <=> (x \div 2) % 2 = (y \div 2) % 2
      /\ Eq(7) <=> x % 2 = y % 2
  BY DEF Bit, Powers, Byte
<1> HIDE DEF Eq
<1>3. /\ Same(256)
      /\ Same(128) <=> Eq(0)
      /\ Same(64) <=> Same(128) /\ Eq(1)
      /\ Same(32) <=> Same(64) /\ Eq(2)
      /\ Same(16) <=> Same(32) /\ Eq(3)
      /\ Same(8) <=> Same(16) /\ Eq(4)
      /\ Same(4) <=> Same(8) /\ Eq(5)
      /\ Same(2) <=> Same(4) /\ Eq(6)
      /\ Same(1) <=> Same(2) /\ Eq(7)
  <2>1. Same(256) /\ (Same(128) <=> (x \div 128) % 2 = (y \div 128) % 2)
    BY DEF Byte
  <2>2. Same(64) <=> Same(128) /\ (x \div 64) % 2 = (y \div 64) % 2
    BY DEF Byte
  <2>3. Same(32) <=> Same(64) /\ (x \div 32) % 2 = (y \div 32) % 2
    BY DEF Byte
  <2>4. Same(16) <=> Same(32) /\ (x \div 16) % 2 = (y \div 16) % 2
    BY DEF Byte
  <2>5. Same(8) <=> Same(16) /\ (x \div 8) % 2 = (y \div 8) % 2
    BY DEF Byte
  <2>6. Same(4) <=> Same(8) /\ (x \div 4) % 2 = (y \div 4) % 2
    BY DEF Byte
  <2>7. Same(2) <=> Same(4) /\ (x \div 2) % 2 = (y \div 2) % 2
    BY DEF Byte
  <2>8. Same(1) <=> Same(2) /\ (x \div 1) % 2 = (y \div 1) % 2
    BY DEF Byte
  <2>9. x \div 1 = x /\ y \div 1 = y
    BY DEF Byte
  <2> HIDE DEF Same
  <2>10. QED
    BY <1>2, <2>1, <2>2, <2>3, <2>4, <2>5, <2>6, <2>7, <2>8, <2>9
<1> HIDE DEF Same
<1>4. AllEq <=> Same(Blocks[k + 1])
  <2>1. k \in {0, 1, 2, 3, 4, 5, 6, 7, 8}
    OBVIOUS
  <2>2. QED BY <2>1, <1>3 DEF Blocks
<1>5. QED BY <1>1, <1>4 DEF Eq, Same

\* One byte: the block is the prefix's, the place in it is random.
LEMMA ByteStep ==
  ASSUME NEW k \in 0 .. 8, NEW a \in Byte, NEW r \in Byte, NEW mask, NEW x,
         mask + 1 = Blocks[k + 1],
         x = (a - And(a, mask)) + And(r, mask)
  PROVE  /\ x \in Byte
         /\ x \div Blocks[k + 1] = a \div Blocks[k + 1]
         /\ r \div Blocks[k + 1] = a \div Blocks[k + 1] => x = r
<1> DEFINE N(m) == (a - (a % m)) + (r % m)
           P(m) == /\ N(m) \in Byte
                   /\ N(m) \div m = a \div m
                   /\ r \div m = a \div m => N(m) = r
<1>0. P(1)
  BY DEF Byte
<1>1. P(2)
  BY DEF Byte
<1>2. P(4)
  BY DEF Byte
<1>3. P(8)
  BY DEF Byte
<1>4. P(16)
  BY DEF Byte
<1>5. P(32)
  BY DEF Byte
<1>6. P(64)
  BY DEF Byte
<1>7. P(128)
  BY DEF Byte
<1>8. P(256)
  BY DEF Byte
<1>9. x = N(Blocks[k + 1])
  BY DEF And
<1> HIDE DEF N
<1>10. P(Blocks[k + 1])
  <2>1. k \in {0, 1, 2, 3, 4, 5, 6, 7, 8}
    OBVIOUS
  <2> HIDE DEF P
  <2>2. QED
    BY <2>1, <1>0, <1>1, <1>2, <1>3, <1>4, <1>5, <1>6, <1>7, <1>8 DEF Blocks
<1>11. QED BY <1>9, <1>10

-----------------------------------------------------------------------------
\* What GenerateIP returns is an address of its prefix, whatever the random
\* bytes, and every address of the prefix is returned for some.
THEOREM StaysInPrefix ==
  ASSUME NEW len \in Nat, NEW addr \in Addresses(len), NEW bits \in Nat,
         NEW random \in Addresses(len)
  PROVE  /\ GenerateIP(addr, bits, random) \in Addresses(len)
         /\ InPrefix(addr, bits, GenerateIP(addr, bits, random))
         /\ InPrefix(addr, bits, random) => GenerateIP(addr, bits, random) = random
<1> DEFINE ip == GenerateIP(addr, bits, random)
           block(i) == Blocks[Fixed(bits, i) + 1]
<1>1. ASSUME NEW i \in 0 .. (len - 1)
      PROVE  /\ ip[i] \in Byte
             /\ ip[i] \div block(i) = addr[i] \div block(i)
             /\ random[i] \div block(i) = addr[i] \div block(i) => ip[i] = random[i]
  <2>1. /\ Fixed(bits, i) \in 0 .. 8
        /\ Mask(bits, i) = <<255, 127, 63, 31, 15, 7, 3, 1, 0>>[Fixed(bits, i) + 1]
    BY MaskValue
  <2>2. Mask(bits, i) + 1 = block(i)
    <3>1. Fixed(bits, i) \in {0, 1, 2, 3, 4, 5, 6, 7, 8}
      BY <2>1
    <3>2. QED BY <2>1, <3>1 DEF Blocks
  <2>3. addr[i] \in Byte /\ random[i] \in Byte
    BY DEF Addresses
  <2>4. ip[i] = (addr[i] - And(addr[i], Mask(bits, i))) + And(random[i], Mask(bits, i))
    BY DEF GenerateIP, Masked, Addresses
  <2>5. QED BY <2>1, <2>2, <2>3, <2>4, ByteStep
<1>2. ip \in Addresses(len)
  BY <1>1 DEF GenerateIP, Addresses
<1>3. ASSUME NEW i \in 0 .. (len - 1), NEW x \in Addresses(len)
      PROVE  (\A j \in 0 .. 7 : 8 * i + j < bits => Bit(x[i], j) = Bit(addr[i], j))
               <=> x[i] \div block(i) = addr[i] \div block(i)
  <2>1. Fixed(bits, i) \in 0 .. 8 /\ x[i] \in Byte /\ addr[i] \in Byte
    BY MaskValue DEF Addresses
  <2>2. \A j \in 0 .. 7 : 8 * i + j < bits <=> j < Fixed(bits, i)
    BY DEF Fixed, BitsLeft
  <2>3. QED BY <2>1, <2>2, SameBlock
<1>4. InPrefix(addr, bits, ip)
  BY <1>1, <1>2, <1>3 DEF InPrefix, Addresses
<1>5. ASSUME InPrefix(addr, bits, random) PROVE ip = random
  <2>1. \A i \in 0 .. (len - 1) : ip[i] = random[i]
    BY <1>1, <1>3, <1>5 DEF InPrefix, Addresses
  <2>2. QED BY <1>2, <2>1 DEF Addresses
<1>6. QED BY <1>2, <1>4, <1>5
=============================================================================
