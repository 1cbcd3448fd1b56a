-------------------------------- MODULE Imsi --------------------------------
(***************************************************************************)
(* The IMSI type (src/utils/include/pgw_utils/imsi.h): the constructor's    *)
(* check, the loop of to_bcd, which a client runs before it sends, and the  *)
(* loop of from_bcd, which a worker of the server runs on what it received. *)
(* A behaviour either encodes an IMSI and decodes the result, or decodes a  *)
(* datagram of unknown origin.                                             *)
(*                                                                         *)
(* A character is the number it stands for: 0 .. 9 are the digits, 10 .. 15 *)
(* the characters ':' to '?' that '0' + nibble yields for other nibbles.    *)
(***************************************************************************)
EXTENDS Integers, Sequences, FiniteSets

CONSTANTS
  Sources,    \* IMSIs that are encoded
  Datagrams,  \* byte strings that are decoded as they come
  MaxDigits   \* IMSI::MaxDigits

Byte == 0 .. 255
Filler == 15
NoSource == <<>>

(* The constructor throws unless this holds. *)
IsImsi(s) ==
  /\ s # <<>>
  /\ Len(s) <= MaxDigits
  /\ \A k \in 1 .. Len(s) : s[k] \in 0 .. 9

ASSUME ImsiAssumption ==
  /\ MaxDigits \in Nat
  /\ \A s \in Sources : s \in Seq(Nat) /\ IsImsi(s)
  /\ Datagrams \subseteq Seq(Byte)

VARIABLES
  pc,
  digits,  \* digits_ of the IMSI being encoded, or NoSource
  i,       \* to_bcd's index into digits_, from_bcd's index into the data
  bcd,     \* the bytes
  result   \* from_bcd's string

vars == <<pc, digits, i, bcd, result>>

TypeOK ==
  /\ pc \in {"encode", "decode", "done", "aborted"}
  /\ digits = NoSource \/ (digits \in Seq(Nat) /\ IsImsi(digits))
  /\ i \in Nat
  /\ bcd \in Seq(Byte)
  /\ result \in Seq(0 .. 15)

Init ==
  /\ i = 0
  /\ result = <<>>
  /\ \/ /\ pc = "encode"
        /\ digits \in Sources
        /\ bcd = [k \in 1 .. (Len(digits) + 1) \div 2 |-> 0]
     \/ /\ pc = "decode"
        /\ digits = NoSource
        /\ bcd \in Datagrams

-----------------------------------------------------------------------------
(* Variants: the first digit in the high nibble; 0 for the filler. *)
Packed_swapped(first, second) == first * 16 + second
LastNibble_zero == 0

Packed(first, second) == second * 16 + first
LastNibble == Filler

(* One turn of to_bcd's loop: two digits, the first in the low nibble. *)
to_bcd_pair ==
  /\ pc = "encode"
  /\ i + 1 < Len(digits)
  /\ bcd' = [bcd EXCEPT ![i \div 2 + 1] = Packed(digits[i + 1], digits[i + 2])]
  /\ i' = i + 2
  /\ UNCHANGED <<pc, digits, result>>

(* After the loop: a single last digit gets a filler. *)
to_bcd_last ==
  /\ pc = "encode"
  /\ i + 1 >= Len(digits)
  /\ bcd' = IF i < Len(digits)
              THEN [bcd EXCEPT ![i \div 2 + 1] = Packed(digits[i + 1], LastNibble)]
              ELSE bcd
  /\ pc' = "decode"
  /\ i' = 0
  /\ UNCHANGED <<digits, result>>

(* Variants: no high nibble above 9 is a digit; the high nibble first. *)
Unpacked_lenient(b) ==
  IF b \div 16 <= 9 THEN <<b % 16, b \div 16>> ELSE <<b % 16>>
Unpacked_swapped(b) ==
  IF b \div 16 # Filler THEN <<b \div 16, b % 16>> ELSE <<b % 16>>

Unpacked(b) ==
  IF b \div 16 # Filler THEN <<b % 16, b \div 16>> ELSE <<b % 16>>

(* One turn of from_bcd's loop. *)
from_bcd_byte ==
  /\ pc = "decode"
  /\ i < Len(bcd)
  /\ result' = result \o Unpacked(bcd[i + 1])
  /\ i' = i + 1
  /\ UNCHANGED <<pc, digits, bcd>>

(* return IMSI(result): what the constructor throws cannot leave from_bcd,  *)
(* which is noexcept.                                                      *)
from_bcd_return ==
  /\ pc = "decode"
  /\ i = Len(bcd)
  /\ pc' = IF IsImsi(result) THEN "done" ELSE "aborted"
  /\ UNCHANGED <<digits, i, bcd, result>>

Returned == pc \in {"done", "aborted"} /\ UNCHANGED vars

Next == to_bcd_pair \/ to_bcd_last \/ from_bcd_byte \/ from_bcd_return \/ Returned

Spec == Init /\ [][Next]_vars

-----------------------------------------------------------------------------
(* What the loops compute, without loops. *)
Nibbles(d, k) ==
  (IF 2 * k <= Len(d) THEN d[2 * k] ELSE Filler) * 16 + d[2 * k - 1]

Encoding(d) == [k \in 1 .. (Len(d) + 1) \div 2 |-> Nibbles(d, k)]

FillersIn(b, m) == {k \in 1 .. m : b[k] \div 16 = Filler}
FillersOf(b) == FillersIn(b, Len(b))

TwoDigits(x) == x % 16 <= 9 /\ (x \div 16 <= 9 \/ x \div 16 = Filler)

Decodable(b) ==
  /\ b # <<>>
  /\ \A k \in 1 .. Len(b) : TwoDigits(b[k])
  /\ 2 * Len(b) - Cardinality(FillersOf(b)) <= MaxDigits

-----------------------------------------------------------------------------
(* The server decodes what a client encoded to the IMSI the client meant,   *)
(* of even and of odd length, and never aborts on it.                       *)
RoundTrip ==
  digits # NoSource => pc # "aborted" /\ (pc = "done" => result = digits)

(* from_bcd gets past the constructor for exactly the decodable strings: a  *)
(* filler is skipped wherever it stands in a high nibble, and counts for no *)
(* digit; every other nibble above 9 and every filler in a low nibble is    *)
(* fatal.                                                                  *)
AcceptsExactlyDecodable ==
  /\ pc = "done" => Decodable(bcd)
  /\ pc = "aborted" => ~Decodable(bcd)

(* A subscriber has one encoding that from_bcd undoes, and possibly others  *)
(* that lead to the same session: those with a filler before the last byte. *)
OneCanonicalEncoding ==
  pc = "done" => (Encoding(result) = bcd <=> FillersOf(bcd) \subseteq {Len(bcd)})

-----------------------------------------------------------------------------
(* What has been written so far of the encoding, and read back of it. *)
RoundTripInv ==
  /\ TypeOK
  /\ pc = "encode" =>
       /\ digits # NoSource
       /\ Len(bcd) = (Len(digits) + 1) \div 2
       /\ i % 2 = 0 /\ i <= Len(digits)
       /\ \A k \in 1 .. i \div 2 : bcd[k] = Nibbles(digits, k)
       /\ result = <<>>
  /\ digits # NoSource /\ pc # "encode" =>
       /\ pc # "aborted"
       /\ Len(bcd) = (Len(digits) + 1) \div 2
       /\ \A k \in 1 .. Len(bcd) : bcd[k] = Nibbles(digits, k)
       /\ i <= Len(bcd)
       /\ pc = "done" => i = Len(bcd)
       /\ Len(result) = IF 2 * i <= Len(digits) THEN 2 * i ELSE Len(digits)
       /\ \A k \in 1 .. Len(result) : result[k] = digits[k]

(* What has been decoded of any bytes: how much it is, whether it is all    *)
(* digits, and where each nibble went as long as there was no filler.       *)
DecodeInv ==
  pc # "encode" =>
    /\ i <= Len(bcd)
    /\ Len(result) = 2 * i - Cardinality(FillersIn(bcd, i))
    /\ (\A k \in 1 .. Len(result) : result[k] \in 0 .. 9)
         <=> \A k \in 1 .. i : TwoDigits(bcd[k])
    /\ \A k \in 1 .. i : FillersIn(bcd, k - 1) = {} =>
         /\ 2 * k - 1 <= Len(result) /\ result[2 * k - 1] = bcd[k] % 16
         /\ bcd[k] \div 16 # Filler =>
              2 * k <= Len(result) /\ result[2 * k] = bcd[k] \div 16
    /\ pc # "decode" => i = Len(bcd) /\ (pc = "done" <=> IsImsi(result))

(* The invariant of the two loops. *)
LoopInv == RoundTripInv /\ DecodeInv
=============================================================================
