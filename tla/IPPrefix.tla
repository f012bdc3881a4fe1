------------------------------ MODULE IPPrefix ------------------------------
(***************************************************************************)
(* random/ip/ip.go: addresses drawn at random from a prefix.  An address   *)
(* is a function from byte positions to bytes, 4 of them or 16.            *)
(*                                                                         *)
(* The code works with bit masks.  Every mask covers the low bits of a     *)
(* byte, so that "& mask" is a remainder, and "|" an addition where those  *)
(* bits of the prefix have been cleared.                                   *)
(***************************************************************************)
EXTENDS Integers

Byte == 0 .. 255

Addresses(len) == [0 .. (len - 1) -> Byte]

\* bitMasks: how much of a byte is random when k of its bits are not.
BitMasks == <<255, 127, 63, 31, 15, 7, 3, 1>>

\* bitsLeft when the loop of NewIPPrefixGenerator comes to byte i.
BitsLeft(bits, i) == IF bits > 8 * i THEN bits - 8 * i ELSE 0

\* Mutant: the table is read one entry too early.
MaskOneBitMore(bits, i) ==
  LET left == BitsLeft(bits, i) IN
  IF left >= 8 THEN 0 ELSE BitMasks[IF left = 0 THEN 1 ELSE left]

Mask(bits, i) ==
  LET left == BitsLeft(bits, i) IN IF left >= 8 THEN 0 ELSE BitMasks[left + 1]

And(byte, mask) == byte % (mask + 1)

\* netip.Prefix.Masked
Masked(addr, bits) ==
  [i \in DOMAIN addr |-> addr[i] - And(addr[i], Mask(bits, i))]

\* generateIPv4 and generateIPv6, from the random bytes they have drawn.
GenerateIP(addr, bits, random) ==
  [i \in DOMAIN addr |-> Masked(addr, bits)[i] + And(random[i], Mask(bits, i))]

\* NewTestingIPv4Generator: 198.18.0.0/15.
TestingAddr == [i \in 0 .. 3 |-> <<198, 18, 0, 0>>[i + 1]]
TestingBits == 15

-----------------------------------------------------------------------------
Powers == <<128, 64, 32, 16, 8, 4, 2, 1>>

\* Bit j of a byte, from the left.
Bit(byte, j) == (byte \div Powers[j + 1]) % 2

\* What a prefix is, bit by bit: the first ones of the address are its own.
InPrefix(addr, bits, ip) ==
  \A i \in DOMAIN addr, j \in 0 .. 7 :
    8 * i + j < bits => Bit(ip[i], j) = Bit(addr[i], j)
=============================================================================
