----------------------------- MODULE ImsiProofs -----------------------------
(***************************************************************************)
(* The round trip of every IMSI, whatever MaxDigits is.  The induction over *)
(* the digits is the one over the steps of the two loops.                   *)
(***************************************************************************)
EXTENDS Imsi, FiniteSetTheorems, TLAPS

(* The two nibbles of a byte. *)
LEMMA NibblesOfByte ==
  ASSUME NEW a \in 0 .. 15, NEW b \in 0 .. 15
  PROVE  /\ (a * 16 + b) % 16 = b
         /\ (a * 16 + b) \div 16 = a
         /\ a * 16 + b \in Byte
  BY DEF Byte

(* Every byte has two nibbles. *)
LEMMA ByteHasNibbles ==
  ASSUME NEW b \in Byte
  PROVE  b % 16 \in 0 .. 15 /\ b \div 16 \in 0 .. 15
<1>1. b \in Int /\ 0 <= b /\ b <= 255
  BY DEF Byte
<1>2. b % 16 \in 0 .. 15
  BY <1>1
<1>3. b \div 16 \in 0 .. 15
  BY <1>1
<1> QED
  BY <1>2, <1>3

(* A byte is its nibbles put together. *)
LEMMA ByteOfNibbles ==
  ASSUME NEW b \in Byte, NEW high \in Int, NEW low \in Int,
         high = b \div 16, low = b % 16
  PROVE  b = high * 16 + low
  BY DEF Byte

(* The index of the byte that to_bcd writes next. *)
LEMMA NextByte ==
  ASSUME NEW n \in Nat, NEW j \in Nat, j % 2 = 0, j < n
  PROVE  /\ j \div 2 + 1 \in 1 .. (n + 1) \div 2
         /\ 2 * (j \div 2 + 1) = j + 2
         /\ (j + 2) \div 2 = j \div 2 + 1
         /\ (j + 2) % 2 = 0
         /\ j + 1 >= n => j \div 2 + 1 = (n + 1) \div 2
<1>1. PICK h \in Nat : j = 2 * h
  <2>1. j = 2 * (j \div 2) /\ j \div 2 \in Nat
    OBVIOUS
  <2> QED
    BY <2>1
<1>2. j \div 2 = h /\ (j + 2) \div 2 = h + 1 /\ (j + 2) % 2 = 0
  BY <1>1
<1> QED
  BY <1>1, <1>2

(* Overwriting an element of a sequence. *)
LEMMA SeqUpdate ==
  ASSUME NEW S, NEW s \in Seq(S), NEW m \in 1 .. Len(s), NEW e \in S
  PROVE  /\ [s EXCEPT ![m] = e] \in Seq(S)
         /\ Len([s EXCEPT ![m] = e]) = Len(s)
         /\ [s EXCEPT ![m] = e][m] = e
         /\ \A k \in 1 .. Len(s) : k # m => [s EXCEPT ![m] = e][k] = s[k]
  OBVIOUS

(* Appending one element, and two. *)
LEMMA AppendOne ==
  ASSUME NEW S, NEW s \in Seq(S), NEW a \in S
  PROVE  /\ s \o <<a>> \in Seq(S)
         /\ Len(s \o <<a>>) = Len(s) + 1
         /\ (s \o <<a>>)[Len(s) + 1] = a
         /\ \A k \in 1 .. Len(s) : (s \o <<a>>)[k] = s[k]
  OBVIOUS

LEMMA AppendTwo ==
  ASSUME NEW S, NEW s \in Seq(S), NEW a \in S, NEW b \in S
  PROVE  /\ s \o <<a, b>> \in Seq(S)
         /\ Len(s \o <<a, b>>) = Len(s) + 2
         /\ (s \o <<a, b>>)[Len(s) + 1] = a
         /\ (s \o <<a, b>>)[Len(s) + 2] = b
         /\ \A k \in 1 .. Len(s) : (s \o <<a, b>>)[k] = s[k]
  OBVIOUS

(* The nibbles of a byte of an encoding. *)
LEMMA NibblesOfEncoding ==
  ASSUME NEW d \in Seq(Nat), IsImsi(d), NEW k \in 1 .. (Len(d) + 1) \div 2
  PROVE  /\ Nibbles(d, k) \in Byte
         /\ Nibbles(d, k) % 16 = d[2 * k - 1]
         /\ 2 * k <= Len(d) => Nibbles(d, k) \div 16 = d[2 * k]
         /\ 2 * k > Len(d) => Nibbles(d, k) \div 16 = Filler
         /\ d[2 * k - 1] \in 0 .. 9
         /\ 2 * k <= Len(d) => d[2 * k] \in 0 .. 9
<1>1. Len(d) \in Nat /\ k \in Nat /\ 2 * k - 1 \in 1 .. Len(d)
  OBVIOUS
<1>2. d[2 * k - 1] \in 0 .. 9
  BY <1>1 DEF IsImsi
<1>3. CASE 2 * k <= Len(d)
  <2>1. d[2 * k] \in 0 .. 9
    BY <1>1, <1>3 DEF IsImsi
  <2>2. Nibbles(d, k) = d[2 * k] * 16 + d[2 * k - 1]
    BY <1>3 DEF Nibbles
  <2>3. /\ Nibbles(d, k) % 16 = d[2 * k - 1]
        /\ Nibbles(d, k) \div 16 = d[2 * k]
        /\ Nibbles(d, k) \in Byte
    <3> DEFINE a == d[2 * k]
               b == d[2 * k - 1]
    <3>1. a \in 0 .. 15 /\ b \in 0 .. 15 /\ Nibbles(d, k) = a * 16 + b
      BY <1>2, <2>1, <2>2
    <3> HIDE DEF a, b
    <3>2. Nibbles(d, k) % 16 = b /\ Nibbles(d, k) \div 16 = a /\ Nibbles(d, k) \in Byte
      BY <3>1, NibblesOfByte
    <3> QED
      BY <3>2 DEF a, b
  <2> QED
    BY <1>1, <1>2, <1>3, <2>1, <2>3
<1>4. CASE 2 * k > Len(d)
  <2>1. Nibbles(d, k) = 15 * 16 + d[2 * k - 1]
    BY <1>1, <1>4 DEF Nibbles, Filler
  <2>2. /\ Nibbles(d, k) % 16 = d[2 * k - 1]
        /\ Nibbles(d, k) \div 16 = Filler
        /\ Nibbles(d, k) \in Byte
    <3> DEFINE a == Filler
               b == d[2 * k - 1]
    <3>1. a \in 0 .. 15 /\ b \in 0 .. 15 /\ Nibbles(d, k) = a * 16 + b
      BY <1>2, <2>1 DEF Filler
    <3> HIDE DEF a, b
    <3>2. Nibbles(d, k) % 16 = b /\ Nibbles(d, k) \div 16 = a /\ Nibbles(d, k) \in Byte
      BY <3>1, NibblesOfByte
    <3> QED
      BY <3>2 DEF a, b
  <2> QED
    BY <1>1, <1>2, <1>4, <2>2
<1> QED
  BY <1>1, <1>3, <1>4

-----------------------------------------------------------------------------
LEMMA RoundTripInitially == Init => RoundTripInv
<1> SUFFICES ASSUME Init PROVE RoundTripInv
  OBVIOUS
<1>1. CASE pc = "encode"
  <2>1. digits \in Seq(Nat) /\ IsImsi(digits) /\ digits # NoSource
    BY <1>1, ImsiAssumption DEF Init, IsImsi, NoSource
  <2>2. /\ bcd = [k \in 1 .. (Len(digits) + 1) \div 2 |-> 0]
        /\ i = 0 /\ result = <<>>
    BY <1>1 DEF Init
  <2>3. (Len(digits) + 1) \div 2 \in Nat
    BY <2>1
  <2>4. bcd \in Seq(Byte) /\ Len(bcd) = (Len(digits) + 1) \div 2
    BY <2>2, <2>3 DEF Byte
  <2> QED
    BY <1>1, <2>1, <2>2, <2>4 DEF RoundTripInv, TypeOK
<1>2. CASE pc # "encode"
  BY <1>2, ImsiAssumption DEF Init, RoundTripInv, TypeOK
<1> QED
  BY <1>1, <1>2

LEMMA RoundTripStep == RoundTripInv /\ [Next]_vars => RoundTripInv'
<1> SUFFICES ASSUME RoundTripInv, [Next]_vars PROVE RoundTripInv'
  OBVIOUS
<1>0. TypeOK
  BY DEF RoundTripInv
<1>1. CASE to_bcd_pair
  <2> DEFINE m == i \div 2 + 1
  <2>1. /\ digits \in Seq(Nat) /\ IsImsi(digits) /\ digits # NoSource
        /\ bcd \in Seq(Byte) /\ Len(bcd) = (Len(digits) + 1) \div 2
        /\ i \in Nat /\ i % 2 = 0 /\ i + 1 < Len(digits)
        /\ \A k \in 1 .. i \div 2 : bcd[k] = Nibbles(digits, k)
        /\ result = <<>>
    BY <1>0, <1>1 DEF to_bcd_pair, RoundTripInv, TypeOK
  <2>2. /\ bcd' = [bcd EXCEPT ![m] = digits[i + 2] * 16 + digits[i + 1]]
        /\ i' = i + 2
        /\ UNCHANGED <<pc, digits, result>>
    BY <1>1 DEF to_bcd_pair, Packed
  <2>3. /\ m \in 1 .. (Len(digits) + 1) \div 2
        /\ 2 * m = i + 2 /\ 2 * m - 1 = i + 1 /\ 2 * m <= Len(digits)
        /\ i' \div 2 = m /\ i' % 2 = 0 /\ i' \in Nat /\ i' <= Len(digits)
        /\ i \div 2 = m - 1
    <3>1. Len(digits) \in Nat /\ i < Len(digits)
      BY <2>1
    <3>2. /\ m \in 1 .. (Len(digits) + 1) \div 2 /\ 2 * m = i + 2
          /\ (i + 2) \div 2 = m /\ (i + 2) % 2 = 0
      BY <2>1, <3>1, NextByte
    <3>3. m \in Int /\ i \div 2 \in Int
      BY <2>1
    <3> QED
      BY <2>1, <2>2, <3>1, <3>2, <3>3
  <2> HIDE DEF m
  <2>4. digits[i + 2] * 16 + digits[i + 1] = Nibbles(digits, m)
    BY <2>3 DEF Nibbles
  <2>5. Nibbles(digits, m) \in Byte
    BY <2>1, <2>3, NibblesOfEncoding
  <2>6. /\ bcd' \in Seq(Byte) /\ Len(bcd') = Len(bcd)
        /\ bcd'[m] = Nibbles(digits, m)
        /\ \A k \in 1 .. Len(bcd) : k # m => bcd'[k] = bcd[k]
    BY <2>1, <2>2, <2>3, <2>4, <2>5, SeqUpdate
  <2>7. ASSUME NEW k \in 1 .. m PROVE bcd'[k] = Nibbles(digits, k)
    <3>1. k = m \/ k \in 1 .. i \div 2
      BY <2>3
    <3>2. k \in 1 .. Len(bcd)
      BY <2>1, <2>3
    <3> QED
      BY <2>1, <2>3, <2>6, <3>1, <3>2
  <2>8. TypeOK'
    BY <1>0, <2>2, <2>3, <2>6 DEF TypeOK, IsImsi
  <2>9. pc = "encode"
    BY <1>1 DEF to_bcd_pair
  <2>10. \A k \in 1 .. i' \div 2 : bcd'[k] = Nibbles(digits, k)'
    BY <2>2, <2>3, <2>7 DEF Nibbles
  <2> QED
    BY <2>1, <2>2, <2>3, <2>6, <2>8, <2>9, <2>10 DEF RoundTripInv
<1>2. CASE to_bcd_last
  <2>1. /\ digits \in Seq(Nat) /\ IsImsi(digits) /\ digits # NoSource
        /\ bcd \in Seq(Byte) /\ Len(bcd) = (Len(digits) + 1) \div 2
        /\ i \in Nat /\ i % 2 = 0 /\ i <= Len(digits) /\ i + 1 >= Len(digits)
        /\ \A k \in 1 .. i \div 2 : bcd[k] = Nibbles(digits, k)
        /\ result = <<>> /\ Len(digits) \in Nat
    BY <1>0, <1>2 DEF to_bcd_last, RoundTripInv, TypeOK
  <2>2. pc' = "decode" /\ i' = 0 /\ UNCHANGED <<digits, result>>
    BY <1>2 DEF to_bcd_last
  <2>3. /\ bcd' \in Seq(Byte) /\ Len(bcd') = Len(bcd)
        /\ \A k \in 1 .. Len(bcd) : bcd'[k] = Nibbles(digits, k)
    <3>1. CASE i = Len(digits)
      <4>1. bcd' = bcd /\ i \div 2 = (Len(digits) + 1) \div 2
        BY <1>2, <2>1, <3>1 DEF to_bcd_last
      <4> QED
        BY <2>1, <4>1
    <3>2. CASE i < Len(digits)
      <4> DEFINE m == i \div 2 + 1
      <4>1. /\ m \in 1 .. (Len(digits) + 1) \div 2
            /\ m = (Len(digits) + 1) \div 2
            /\ 2 * m - 1 = i + 1 /\ 2 * m > Len(digits)
            /\ i \div 2 = m - 1
        <5>1. /\ m \in 1 .. (Len(digits) + 1) \div 2 /\ 2 * m = i + 2
              /\ m = (Len(digits) + 1) \div 2
          BY <2>1, <3>2, NextByte
        <5>2. m \in Int /\ i \div 2 \in Int
          BY <2>1
        <5> QED
          BY <2>1, <3>2, <5>1, <5>2
      <4>2. bcd' = [bcd EXCEPT ![m] = Filler * 16 + digits[i + 1]]
        BY <1>2, <3>2 DEF to_bcd_last, Packed, LastNibble
      <4> HIDE DEF m
      <4>3. Filler * 16 + digits[i + 1] = Nibbles(digits, m)
        BY <2>1, <4>1 DEF Nibbles
      <4>4. Nibbles(digits, m) \in Byte
        BY <2>1, <4>1, NibblesOfEncoding
      <4>5. /\ bcd' \in Seq(Byte) /\ Len(bcd') = Len(bcd)
            /\ bcd'[m] = Nibbles(digits, m)
            /\ \A k \in 1 .. Len(bcd) : k # m => bcd'[k] = bcd[k]
        BY <2>1, <4>1, <4>2, <4>3, <4>4, SeqUpdate
      <4>6. \A k \in 1 .. m : bcd'[k] = Nibbles(digits, k)
        BY <2>1, <4>1, <4>5
      <4> QED
        BY <2>1, <4>1, <4>5, <4>6
    <3> QED
      BY <2>1, <3>1, <3>2
  <2>4. TypeOK'
    BY <2>1, <2>2, <2>3 DEF TypeOK, IsImsi
  <2> QED
    BY <2>1, <2>2, <2>3, <2>4 DEF RoundTripInv, Nibbles
<1>3. CASE from_bcd_byte
  <2> DEFINE second == bcd[i + 1] % 16
             first  == bcd[i + 1] \div 16
  <2>1. /\ bcd \in Seq(Byte) /\ i \in Nat /\ i < Len(bcd) /\ i + 1 \in 1 .. Len(bcd)
        /\ result \in Seq(0 .. 15)
        /\ pc = "decode" /\ i' = i + 1 /\ UNCHANGED <<pc, digits, bcd>>
        /\ bcd[i + 1] \in Byte
    BY <1>0, <1>3 DEF from_bcd_byte, TypeOK
  <2>2. second \in 0 .. 15 /\ first \in 0 .. 15
    BY <2>1, ByteHasNibbles
  <2>3. result' = IF first # Filler THEN result \o <<second, first>>
                                    ELSE result \o <<second>>
    BY <1>3 DEF from_bcd_byte, Unpacked
  <2>4. result' \in Seq(0 .. 15)
    <3> HIDE DEF first, second
    <3> QED
      BY <2>1, <2>2, <2>3, AppendOne, AppendTwo
  <2>5. TypeOK'
    BY <1>0, <2>1, <2>4 DEF TypeOK, IsImsi
  <2>6. ASSUME digits # NoSource
        PROVE  /\ Len(result') = IF 2 * i' <= Len(digits) THEN 2 * i' ELSE Len(digits)
               /\ \A k \in 1 .. Len(result') : result'[k] = digits[k]
    <3>1. /\ digits \in Seq(Nat) /\ IsImsi(digits) /\ Len(digits) \in Nat
          /\ Len(bcd) = (Len(digits) + 1) \div 2
          /\ bcd[i + 1] = Nibbles(digits, i + 1)
          /\ Len(result) = IF 2 * i <= Len(digits) THEN 2 * i ELSE Len(digits)
          /\ \A k \in 1 .. Len(result) : result[k] = digits[k]
      BY <1>0, <2>1, <2>6 DEF RoundTripInv, TypeOK
    <3>2. /\ Len(result) = 2 * i
          /\ 2 * (i + 1) - 1 = 2 * i + 1 /\ 2 * (i + 1) = 2 * i + 2
          /\ 2 * i + 1 <= Len(digits)
      BY <2>1, <3>1
    <3>3. /\ second = digits[2 * i + 1]
          /\ 2 * i + 2 <= Len(digits) => first = digits[2 * i + 2] /\ first # Filler
          /\ 2 * i + 2 > Len(digits) => first = Filler
      <4>1. i + 1 \in 1 .. (Len(digits) + 1) \div 2
        BY <2>1, <3>1
      <4>2. /\ second = digits[2 * (i + 1) - 1]
            /\ 2 * (i + 1) <= Len(digits)
                 => first = digits[2 * (i + 1)] /\ digits[2 * (i + 1)] \in 0 .. 9
            /\ 2 * (i + 1) > Len(digits) => first = Filler
        BY <3>1, <4>1, NibblesOfEncoding
      <4> QED
        BY <3>2, <4>2 DEF Filler
    <3> HIDE DEF first, second
    <3>4. CASE 2 * i + 2 <= Len(digits)
      <4>1. result' = result \o <<second, first>>
        BY <2>3, <3>3, <3>4
      <4>2. /\ Len(result') = 2 * i + 2
            /\ result'[2 * i + 1] = second /\ result'[2 * i + 2] = first
            /\ \A k \in 1 .. 2 * i : result'[k] = result[k]
        <5>1. /\ Len(result') = Len(result) + 2
              /\ result'[Len(result) + 1] = second
              /\ result'[Len(result) + 2] = first
              /\ \A k \in 1 .. Len(result) : result'[k] = result[k]
          BY <2>1, <2>2, <4>1, AppendTwo
        <5> QED
          BY <3>2, <5>1
      <4>3. ASSUME NEW k \in 1 .. 2 * i + 2 PROVE result'[k] = digits[k]
        <5>1. k \in 1 .. 2 * i \/ k = 2 * i + 1 \/ k = 2 * i + 2
          BY <2>1
        <5> QED
          BY <3>1, <3>2, <3>3, <3>4, <4>2, <5>1
      <4> QED
        BY <2>1, <3>4, <4>2, <4>3
    <3>5. CASE 2 * i + 2 > Len(digits)
      <4>1. result' = result \o <<second>>
        BY <2>3, <3>3, <3>5
      <4>2. /\ Len(result') = 2 * i + 1 /\ Len(digits) = 2 * i + 1
            /\ result'[2 * i + 1] = second
            /\ \A k \in 1 .. 2 * i : result'[k] = result[k]
        <5>1. /\ Len(result') = Len(result) + 1
              /\ result'[Len(result) + 1] = second
              /\ \A k \in 1 .. Len(result) : result'[k] = result[k]
          BY <2>1, <2>2, <4>1, AppendOne
        <5> QED
          BY <2>1, <3>1, <3>2, <3>5, <5>1
      <4>3. ASSUME NEW k \in 1 .. 2 * i + 1 PROVE result'[k] = digits[k]
        <5>1. k \in 1 .. 2 * i \/ k = 2 * i + 1
          BY <2>1
        <5> QED
          BY <3>1, <3>2, <3>3, <4>2, <5>1
      <4> QED
        BY <2>1, <3>5, <4>2, <4>3
    <3> QED
      BY <2>1, <3>1, <3>4, <3>5, SMTT(60)
  <2> HIDE DEF first, second
  <2> QED
    BY <2>1, <2>5, <2>6 DEF RoundTripInv, Nibbles
<1>4. CASE from_bcd_return
  <2>1. /\ pc = "decode" /\ i = Len(bcd) /\ UNCHANGED <<digits, i, bcd, result>>
        /\ pc' \in {"done", "aborted"}
        /\ IsImsi(result) => pc' = "done"
    BY <1>4 DEF from_bcd_return
  <2>2. ASSUME digits # NoSource PROVE IsImsi(result)
    <3>1. /\ digits \in Seq(Nat) /\ IsImsi(digits) /\ Len(digits) \in Nat
          /\ Len(result) = IF 2 * i <= Len(digits) THEN 2 * i ELSE Len(digits)
          /\ \A k \in 1 .. Len(result) : result[k] = digits[k]
          /\ Len(bcd) = (Len(digits) + 1) \div 2
          /\ result \in Seq(0 .. 15)
      BY <1>0, <2>1, <2>2 DEF RoundTripInv, TypeOK
    <3>2. Len(result) = Len(digits)
      BY <2>1, <3>1
    <3> QED
      BY <3>1, <3>2 DEF IsImsi
  <2>3. TypeOK'
    BY <1>0, <2>1 DEF TypeOK, IsImsi
  <2> QED
    BY <2>1, <2>2, <2>3 DEF RoundTripInv, Nibbles
<1>5. CASE Returned \/ UNCHANGED vars
  BY <1>5 DEF Returned, vars, RoundTripInv, TypeOK, IsImsi, Nibbles
<1> QED
  BY <1>1, <1>2, <1>3, <1>4, <1>5 DEF Next

-----------------------------------------------------------------------------
(* Decoding one byte more. *)
LEMMA OneMoreByte ==
  ASSUME NEW b \in Seq(Byte), NEW m \in Nat, m < Len(b)
  PROVE  /\ IsFiniteSet(FillersIn(b, m)) /\ Cardinality(FillersIn(b, m)) \in Nat
         /\ b[m + 1] \div 16 = Filler =>
              Cardinality(FillersIn(b, m + 1)) = Cardinality(FillersIn(b, m)) + 1
         /\ b[m + 1] \div 16 # Filler => FillersIn(b, m + 1) = FillersIn(b, m)
<1>1. IsFiniteSet(1 .. m)
  BY FS_Interval
<1>2. IsFiniteSet(FillersIn(b, m))
  <2>1. FillersIn(b, m) \in SUBSET (1 .. m)
    BY DEF FillersIn
  <2> QED
    BY <1>1, <2>1, FS_Subset
<1>3. 1 .. m + 1 = 1 .. m \cup {m + 1} /\ m + 1 \notin 1 .. m
  OBVIOUS
<1>4. ASSUME b[m + 1] \div 16 = Filler
      PROVE  Cardinality(FillersIn(b, m + 1)) = Cardinality(FillersIn(b, m)) + 1
  <2>1. FillersIn(b, m + 1) = FillersIn(b, m) \cup {m + 1}
    BY <1>3, <1>4 DEF FillersIn
  <2>2. m + 1 \notin FillersIn(b, m)
    BY <1>3 DEF FillersIn
  <2> QED
    BY <1>2, <2>1, <2>2, FS_AddElement
<1>5. ASSUME b[m + 1] \div 16 # Filler
      PROVE  FillersIn(b, m + 1) = FillersIn(b, m)
  BY <1>3, <1>5 DEF FillersIn
<1> QED
  BY <1>2, <1>4, <1>5, FS_CardinalityType

LEMMA DecodeInitially == Init => DecodeInv
<1> SUFFICES ASSUME Init, pc # "encode" PROVE DecodeInv
  BY DEF DecodeInv
<1>1. /\ pc = "decode" /\ i = 0 /\ result = <<>> /\ bcd \in Seq(Byte)
  BY ImsiAssumption DEF Init
<1>2. Cardinality(FillersIn(bcd, 0)) = 0
  <2>1. FillersIn(bcd, 0) = {}
    BY DEF FillersIn
  <2> QED
    BY <2>1, FS_EmptySet
<1> QED
  BY <1>1, <1>2 DEF DecodeInv

LEMMA DecodeStep == RoundTripInv /\ RoundTripInv' /\ DecodeInv /\ [Next]_vars => DecodeInv'
<1> SUFFICES ASSUME RoundTripInv, RoundTripInv', DecodeInv, [Next]_vars
             PROVE  DecodeInv'
  OBVIOUS
<1>0. TypeOK
  BY DEF RoundTripInv
<1>1. CASE to_bcd_pair
  BY <1>1 DEF to_bcd_pair, DecodeInv
<1>2. CASE to_bcd_last
  <2>1. pc' = "decode" /\ i' = 0 /\ bcd' \in Seq(Byte)
    BY <1>2 DEF to_bcd_last, RoundTripInv, TypeOK
  <2>2. Len(result') = 0 /\ result' = <<>>
    <3>1. digits' # NoSource /\ Len(digits') \in Nat /\ result' \in Seq(0 .. 15)
      BY <1>0, <1>2 DEF to_bcd_last, RoundTripInv, TypeOK
    <3> QED
      BY <2>1, <3>1 DEF RoundTripInv
  <2>3. Cardinality(FillersIn(bcd', 0)) = 0
    <3>1. FillersIn(bcd', 0) = {}
      BY DEF FillersIn
    <3> QED
      BY <3>1, FS_EmptySet
  <2> QED
    BY <2>1, <2>2, <2>3 DEF DecodeInv
<1>3. CASE from_bcd_byte
  <2> DEFINE x == bcd[i + 1]
             c == Cardinality(FillersIn(bcd, i))
             L == Len(result)
  <2>1. /\ bcd \in Seq(Byte) /\ i \in Nat /\ i < Len(bcd) /\ result \in Seq(0 .. 15)
        /\ pc = "decode" /\ i' = i + 1 /\ UNCHANGED <<pc, digits, bcd>>
        /\ x \in Byte /\ L \in Nat
    BY <1>0, <1>3 DEF from_bcd_byte, TypeOK
  <2>2. x % 16 \in 0 .. 15 /\ x \div 16 \in 0 .. 15
    BY <2>1, ByteHasNibbles
  <2>3. /\ L = 2 * i - c /\ c \in Nat
        /\ x \div 16 = Filler => Cardinality(FillersIn(bcd, i + 1)) = c + 1
        /\ x \div 16 # Filler => Cardinality(FillersIn(bcd, i + 1)) = c
    BY <2>1, OneMoreByte DEF DecodeInv
  <2>4. /\ \A k \in 1 .. L : result'[k] = result[k]
        /\ result'[L + 1] = x % 16
        /\ x \div 16 = Filler => Len(result') = L + 1
        /\ x \div 16 # Filler => Len(result') = L + 2 /\ result'[L + 2] = x \div 16
    <3>1. CASE x \div 16 = Filler
      <4>1. result' = result \o <<x % 16>>
        BY <1>3, <3>1 DEF from_bcd_byte, Unpacked
      <4> QED
        BY <2>1, <2>2, <3>1, <4>1, AppendOne
    <3>2. CASE x \div 16 # Filler
      <4>1. result' = result \o <<x % 16, x \div 16>>
        BY <1>3, <3>2 DEF from_bcd_byte, Unpacked
      <4> QED
        BY <2>1, <2>2, <3>2, <4>1, AppendTwo
    <3> QED
      BY <3>1, <3>2
  <2>5. Len(result') = 2 * i' - Cardinality(FillersIn(bcd, i'))
    <3> HIDE DEF c, L, x
    <3> QED
      BY <2>1, <2>2, <2>3, <2>4
  <2>6. (\A k \in 1 .. Len(result') : result'[k] \in 0 .. 9)
          <=> \A k \in 1 .. i' : TwoDigits(bcd[k])
    <3> HIDE DEF x, L
    <3>1. (\A k \in 1 .. L : result[k] \in 0 .. 9) <=> \A k \in 1 .. i : TwoDigits(bcd[k])
      BY <2>1 DEF DecodeInv, L
    <3>2. (\A k \in 1 .. i' : TwoDigits(bcd[k]))
            <=> (\A k \in 1 .. i : TwoDigits(bcd[k])) /\ TwoDigits(x)
      <4>1. 1 .. i' = 1 .. i \cup {i + 1}
        BY <2>1
      <4> QED
        BY <4>1 DEF x
    <3>3. CASE x \div 16 = Filler
      <4>1. 1 .. Len(result') = 1 .. L \cup {L + 1}
        BY <2>1, <2>4, <3>3
      <4>2. TwoDigits(x) <=> result'[L + 1] \in 0 .. 9
        BY <2>2, <2>4, <3>3 DEF TwoDigits
      <4> QED
        BY <2>1, <2>4, <3>1, <3>2, <4>1, <4>2
    <3>4. CASE x \div 16 # Filler
      <4>1. 1 .. Len(result') = 1 .. L \cup {L + 1, L + 2}
        BY <2>1, <2>4, <3>4
      <4>2. TwoDigits(x) <=> result'[L + 1] \in 0 .. 9 /\ result'[L + 2] \in 0 .. 9
        BY <2>2, <2>4, <3>4 DEF TwoDigits
      <4> QED
        BY <2>1, <2>4, <3>1, <3>2, <4>1, <4>2
    <3> QED
      BY <3>3, <3>4
  <2>7. ASSUME NEW k \in 1 .. i', FillersIn(bcd, k - 1) = {}
        PROVE  /\ 2 * k - 1 <= Len(result') /\ result'[2 * k - 1] = bcd[k] % 16
               /\ bcd[k] \div 16 # Filler =>
                    2 * k <= Len(result') /\ result'[2 * k] = bcd[k] \div 16
    <3>1. CASE k \in 1 .. i
      <4>1. /\ 2 * k - 1 <= L /\ result[2 * k - 1] = bcd[k] % 16
            /\ bcd[k] \div 16 # Filler =>
                 2 * k <= L /\ result[2 * k] = bcd[k] \div 16
        BY <2>1, <2>7, <3>1 DEF DecodeInv
      <4>2. 2 * k - 1 \in 1 .. L /\ L <= Len(result') /\ Len(result') \in Nat
        BY <2>1, <2>4, <3>1, <4>1
      <4> HIDE DEF L
      <4>3. bcd[k] \div 16 # Filler => 2 * k \in 1 .. L
        BY <2>1, <3>1, <4>1
      <4> QED
        BY <2>1, <2>4, <3>1, <4>1, <4>2, <4>3
    <3>2. CASE k = i + 1
      <4>1. c = 0
        <5>1. k - 1 = i
          BY <2>1, <3>2
        <5>2. FillersIn(bcd, i) = {}
          BY <2>7, <5>1
        <5> QED
          BY <5>2, FS_EmptySet
      <4>2. L + 1 = 2 * k - 1 /\ L + 2 = 2 * k
        BY <2>1, <2>3, <3>2, <4>1
      <4> HIDE DEF L
      <4> QED
        BY <2>1, <2>4, <3>2, <4>2
    <3> QED
      BY <2>1, <3>1, <3>2
  <2> HIDE DEF x, c, L
  <2> QED
    BY <2>1, <2>5, <2>6, <2>7, SMTT(60) DEF DecodeInv
<1>4. CASE from_bcd_return
  BY <1>4 DEF from_bcd_return, DecodeInv, IsImsi
<1>5. CASE Returned \/ UNCHANGED vars
  BY <1>5 DEF Returned, vars, DecodeInv, IsImsi
<1> QED
  BY <1>1, <1>2, <1>3, <1>4, <1>5 DEF Next

(* The invariant of the two loops, for every MaxDigits and every input. *)
THEOREM LoopInvariance == Spec => []LoopInv
<1>1. LoopInv /\ [Next]_vars => LoopInv'
  BY RoundTripStep, DecodeStep DEF LoopInv
<1> QED
  BY <1>1, RoundTripInitially, DecodeInitially, PTL DEF Spec, LoopInv

(* from_bcd returns an IMSI for exactly the byte strings that hold one, and *)
(* ends the process on every other.                                        *)
THEOREM AbortsExactlyOnOthers == Spec => []AcceptsExactlyDecodable
<1>1. LoopInv => AcceptsExactlyDecodable
  <2> SUFFICES ASSUME LoopInv, pc \in {"done", "aborted"}
               PROVE  pc = "done" <=> Decodable(bcd)
    BY DEF AcceptsExactlyDecodable
  <2>1. bcd \in Seq(Byte) /\ result \in Seq(0 .. 15) /\ i \in Nat
    BY DEF LoopInv, RoundTripInv, TypeOK
  <2>2. /\ i = Len(bcd)
        /\ Len(result) = 2 * i - Cardinality(FillersIn(bcd, i))
        /\ (\A k \in 1 .. Len(result) : result[k] \in 0 .. 9)
             <=> \A k \in 1 .. i : TwoDigits(bcd[k])
        /\ pc = "done" <=> IsImsi(result)
    BY DEF LoopInv, DecodeInv
  <2>3. result = <<>> <=> bcd = <<>>
    <3>1. CASE bcd = <<>>
      <4>1. FillersIn(bcd, i) = {}
        BY <2>2, <3>1 DEF FillersIn
      <4>2. Cardinality(FillersIn(bcd, i)) = 0 /\ i = 0
        BY <2>2, <3>1, <4>1, FS_EmptySet
      <4> QED
        BY <2>1, <2>2, <3>1, <4>2
    <3>2. CASE bcd # <<>>
      <4>1. 1 \in 1 .. i /\ FillersIn(bcd, 0) = {}
        BY <2>1, <2>2, <3>2 DEF FillersIn
      <4>2. 1 <= Len(result)
        BY <4>1 DEF LoopInv, DecodeInv
      <4> QED
        BY <2>1, <3>2, <4>2
    <3> QED
      BY <3>1, <3>2
  <2> QED
    BY <2>1, <2>2, <2>3 DEF IsImsi, Decodable, FillersOf
<1> QED
  BY <1>1, LoopInvariance, PTL

(* Of the byte strings that decode to an IMSI, to_bcd makes the one without *)
(* a filler before the last byte.                                          *)
THEOREM CanonicalEncodings == Spec => []OneCanonicalEncoding
<1>1. LoopInv => OneCanonicalEncoding
  <2> SUFFICES ASSUME LoopInv, pc = "done"
               PROVE  Encoding(result) = bcd <=> FillersOf(bcd) \subseteq {Len(bcd)}
    BY DEF OneCanonicalEncoding
  <2> DEFINE R == Len(result)
             N == Len(bcd)
  <2>1. bcd \in Seq(Byte) /\ result \in Seq(Nat) /\ i = N /\ N \in Nat /\ R \in Nat
    <3>1. bcd \in Seq(Byte) /\ result \in Seq(0 .. 15) /\ i = Len(bcd)
      BY DEF LoopInv, RoundTripInv, DecodeInv, TypeOK
    <3>2. result \in Seq(Nat)
      BY <3>1
    <3> QED
      BY <3>1, <3>2
  <2>2. IsImsi(result) /\ R = 2 * N - Cardinality(FillersIn(bcd, N))
    BY <2>1 DEF LoopInv, DecodeInv
  <2>3. ASSUME NEW k \in 1 .. N, FillersIn(bcd, k - 1) = {}
        PROVE  /\ result[2 * k - 1] = bcd[k] % 16
               /\ bcd[k] \div 16 # Filler => 2 * k <= R /\ result[2 * k] = bcd[k] \div 16
    BY <2>1, <2>3 DEF LoopInv, DecodeInv
  <2>4. ASSUME Encoding(result) = bcd, NEW k \in FillersOf(bcd), k # N PROVE FALSE
    <3>1. k \in 1 .. N /\ bcd[k] \div 16 = Filler
      BY DEF FillersOf, FillersIn
    <3>2. (R + 1) \div 2 \in Nat
      BY <2>1
    <3>3. N = (R + 1) \div 2 /\ bcd[k] = Nibbles(result, k)
      BY <2>4, <3>1, <3>2 DEF Encoding
    <3>4. 2 * k <= R
      BY <2>1, <2>4, <3>1, <3>3
    <3>5. bcd[k] \div 16 = result[2 * k] /\ result[2 * k] \in 0 .. 9
      BY <2>1, <2>2, <3>1, <3>3, <3>4, NibblesOfEncoding
    <3> QED
      BY <3>1, <3>5 DEF Filler
  <2>5. ASSUME FillersOf(bcd) \subseteq {N} PROVE Encoding(result) = bcd
    <3>1. ASSUME NEW k \in 1 .. N PROVE FillersIn(bcd, k - 1) = {}
      <4>1. ASSUME NEW j \in FillersIn(bcd, k - 1) PROVE j \in FillersOf(bcd) /\ j < N
        BY <2>1, <3>1, <4>1 DEF FillersOf, FillersIn
      <4> QED
        BY <2>1, <2>5, <4>1
    <3>2. \/ N \in FillersOf(bcd) /\ R = 2 * N - 1
          \/ FillersOf(bcd) = {} /\ R = 2 * N
      <4>1. CASE N \in FillersOf(bcd)
        <5>1. FillersIn(bcd, N) = {N}
          BY <2>5, <4>1 DEF FillersOf
        <5>2. Cardinality(FillersIn(bcd, N)) = 1
          BY <5>1, FS_Singleton
        <5> QED
          BY <2>1, <2>2, <4>1, <5>2
      <4>2. CASE N \notin FillersOf(bcd)
        <5>1. FillersOf(bcd) = {} /\ FillersIn(bcd, N) = {}
          BY <2>5, <4>2 DEF FillersOf
        <5>2. Cardinality(FillersIn(bcd, N)) = 0
          BY <5>1, FS_EmptySet
        <5> QED
          BY <2>1, <2>2, <5>1, <5>2
      <4> QED
        BY <4>1, <4>2
    <3>3. (R + 1) \div 2 = N
      BY <2>1, <3>2
    <3>4. ASSUME NEW k \in 1 .. N PROVE Nibbles(result, k) = bcd[k]
      <4> DEFINE high == bcd[k] \div 16
                 low  == bcd[k] % 16
      <4>1. /\ result[2 * k - 1] = low
            /\ high # Filler => 2 * k <= R /\ result[2 * k] = high
        BY <2>3, <3>1
      <4>2. bcd[k] \in Byte
        BY <2>1
      <4>3. high \in Int /\ low \in Int
        BY <4>2, ByteHasNibbles
      <4>4. high = Filler => ~(2 * k <= R)
        <5>1. SUFFICES ASSUME high = Filler PROVE ~(2 * k <= R)
          OBVIOUS
        <5>2. k \in FillersOf(bcd)
          BY <2>1, <5>1 DEF FillersOf, FillersIn
        <5>3. k = N /\ R = 2 * N - 1
          BY <2>5, <3>2, <5>2
        <5> QED
          BY <2>1, <5>3
      <4>5. Nibbles(result, k)
              = (IF 2 * k <= R THEN result[2 * k] ELSE Filler) * 16 + result[2 * k - 1]
        BY DEF Nibbles
      <4>6. bcd[k] = high * 16 + low
        <5>1. high = bcd[k] \div 16 /\ low = bcd[k] % 16
          OBVIOUS
        <5> HIDE DEF high, low
        <5> QED
          BY <4>2, <4>3, <5>1, ByteOfNibbles
      <4> HIDE DEF high, low, R
      <4>7. (IF 2 * k <= R THEN result[2 * k] ELSE Filler) = high
        BY <4>1, <4>4
      <4> QED
        BY <4>1, <4>5, <4>6, <4>7
    <3> HIDE DEF R
    <3>5. Encoding(result) = [k \in 1 .. N |-> Nibbles(result, k)]
      BY <3>3 DEF Encoding, R
    <3>6. bcd = [k \in 1 .. N |-> bcd[k]]
      BY <2>1
    <3> QED
      BY <3>4, <3>5, <3>6
  <2> QED
    BY <2>4, <2>5
<1> QED
  BY <1>1, LoopInvariance, PTL

(* Every IMSI, of any length, survives encoding and decoding. *)
THEOREM EveryImsiSurvives == Spec => []RoundTrip
<1>1. RoundTripInv => RoundTrip
  <2> SUFFICES ASSUME RoundTripInv, digits # NoSource
               PROVE  pc # "aborted" /\ (pc = "done" => result = digits)
    BY DEF RoundTrip
  <2>1. pc # "aborted"
    BY DEF RoundTripInv
  <2>2. ASSUME pc = "done" PROVE result = digits
    <3>1. /\ digits \in Seq(Nat) /\ Len(digits) \in Nat /\ result \in Seq(0 .. 15)
          /\ i = (Len(digits) + 1) \div 2
          /\ Len(result) = IF 2 * i <= Len(digits) THEN 2 * i ELSE Len(digits)
          /\ \A k \in 1 .. Len(result) : result[k] = digits[k]
      BY <2>2 DEF RoundTripInv, TypeOK
    <3>2. Len(result) = Len(digits)
      BY <3>1
    <3> QED
      BY <3>1, <3>2
  <2> QED
    BY <2>1, <2>2
<1>2. LoopInv => RoundTripInv
  BY DEF LoopInv
<1> QED
  BY <1>1, <1>2, LoopInvariance, PTL

-----------------------------------------------------------------------------
(* What to_bcd sends *)

(* to_bcd's loop computes Encoding, for every IMSI. *)
THEOREM ToBcdEncodes ==
  Spec => [](digits # NoSource /\ pc # "encode" => bcd = Encoding(digits))
<1>1. RoundTripInv => (digits # NoSource /\ pc # "encode" => bcd = Encoding(digits))
  <2> SUFFICES ASSUME RoundTripInv, digits # NoSource, pc # "encode"
               PROVE  bcd = Encoding(digits)
    OBVIOUS
  <2>1. /\ bcd \in Seq(Byte)
        /\ Len(bcd) = (Len(digits) + 1) \div 2
        /\ \A k \in 1 .. Len(bcd) : bcd[k] = Nibbles(digits, k)
    BY DEF RoundTripInv, TypeOK
  <2>2. bcd = [k \in 1 .. Len(bcd) |-> bcd[k]]
    BY <2>1
  <2> QED
    BY <2>1, <2>2 DEF Encoding
<1> QED
  BY <1>1, LoopInvariance, PTL DEF LoopInv

(* Where digit j is in the encoding. *)
LEMMA DigitPlace ==
  ASSUME NEW n \in Nat, NEW j \in 1 .. n
  PROVE  \E k \in 1 .. (n + 1) \div 2 : j = 2 * k - 1 \/ j = 2 * k
<1>1. (j + 1) \div 2 \in 1 .. (n + 1) \div 2
  OBVIOUS
<1>2. j = 2 * ((j + 1) \div 2) - 1 \/ j = 2 * ((j + 1) \div 2)
  OBVIOUS
<1> QED
  BY <1>1, <1>2

(* The number of bytes tells the number of digits up to the last nibble. *)
LEMMA DigitsOfBytes ==
  ASSUME NEW m \in Nat, NEW n \in Nat, m < n, (m + 1) \div 2 = (n + 1) \div 2
  PROVE  2 * ((m + 1) \div 2) = n /\ 2 * ((m + 1) \div 2) > m
  OBVIOUS

LEMMA SameEncodingSameLength ==
  ASSUME NEW c \in Seq(Nat), NEW d \in Seq(Nat), IsImsi(c), IsImsi(d),
         Encoding(c) = Encoding(d)
  PROVE  ~(Len(c) < Len(d))
<1> SUFFICES ASSUME Len(c) < Len(d) PROVE FALSE
  OBVIOUS
<1>1. Len(c) \in Nat /\ Len(d) \in Nat /\ Len(c) >= 1
  BY DEF IsImsi
<1> DEFINE N == (Len(c) + 1) \div 2
           M == (Len(d) + 1) \div 2
<1>2. N \in Nat /\ N >= 1 /\ M \in Nat /\ M >= 1
  BY <1>1
<1>3. N = M
  <2>1. DOMAIN Encoding(c) = 1 .. N /\ DOMAIN Encoding(d) = 1 .. M
    BY DEF Encoding
  <2> HIDE DEF N, M
  <2>2. N \in 1 .. N /\ M \in 1 .. M
    BY <1>2
  <2>3. N \in 1 .. M /\ M \in 1 .. N
    BY <2>1, <2>2
  <2> QED
    BY <1>2, <2>3
<1>4. 2 * N = Len(d) /\ 2 * N > Len(c)
  BY <1>1, <1>3, DigitsOfBytes
<1>5. N \in 1 .. (Len(c) + 1) \div 2 /\ N \in 1 .. (Len(d) + 1) \div 2
  BY <1>2, <1>3
<1> HIDE DEF N, M
<1>6. Nibbles(c, N) \div 16 = Filler
  BY <1>4, <1>5, NibblesOfEncoding
<1>7. Nibbles(d, N) \div 16 = d[2 * N] /\ d[2 * N] \in 0 .. 9
  <2>1. 2 * N <= Len(d)
    BY <1>1, <1>2, <1>4
  <2> QED
    BY <1>5, <2>1, NibblesOfEncoding
<1>8. Nibbles(c, N) = Nibbles(d, N)
  BY <1>5 DEF Encoding
<1> QED
  BY <1>6, <1>7, <1>8 DEF Filler

(* No two subscribers are sent in the same bytes, so that the server cannot *)
(* mix up sessions whatever the lengths of their IMSIs.                     *)
THEOREM EncodingInjective ==
  ASSUME NEW c \in Seq(Nat), NEW d \in Seq(Nat), IsImsi(c), IsImsi(d),
         Encoding(c) = Encoding(d)
  PROVE  c = d
<1>1. Len(c) = Len(d) /\ Len(c) \in Nat
  <2>1. ~(Len(c) < Len(d)) /\ ~(Len(d) < Len(c))
    BY SameEncodingSameLength
  <2> QED
    BY <2>1
<1>2. ASSUME NEW j \in 1 .. Len(c) PROVE c[j] = d[j]
  <2>1. PICK k \in 1 .. (Len(c) + 1) \div 2 : j = 2 * k - 1 \/ j = 2 * k
    BY <1>1, DigitPlace
  <2>2. Nibbles(c, k) = Nibbles(d, k)
    BY <1>1 DEF Encoding
  <2>3. c[2 * k - 1] = d[2 * k - 1]
    BY <1>1, <2>2, NibblesOfEncoding
  <2>4. CASE j = 2 * k
    <3>1. 2 * k <= Len(c) /\ 2 * k <= Len(d)
      BY <1>1, <2>4
    <3>2. k \in 1 .. (Len(d) + 1) \div 2
      BY <1>1
    <3>3. Nibbles(c, k) \div 16 = c[2 * k]
      BY <3>1, NibblesOfEncoding
    <3>4. Nibbles(d, k) \div 16 = d[2 * k]
      BY <3>1, <3>2, NibblesOfEncoding
    <3> QED
      BY <2>2, <2>4, <3>3, <3>4
  <2> QED
    BY <2>1, <2>3, <2>4
<1> QED
  BY <1>1, <1>2

(* Every encoding can be decoded: no datagram of pgw_client aborts the      *)
(* server.                                                                 *)
THEOREM EncodingsDecodable ==
  ASSUME NEW d \in Seq(Nat), IsImsi(d)
  PROVE  Decodable(Encoding(d))
<1> DEFINE N == (Len(d) + 1) \div 2
           b == Encoding(d)
<1>1. /\ Len(d) \in Nat /\ Len(d) >= 1 /\ Len(d) <= MaxDigits
      /\ N \in Nat /\ N >= 1
      /\ Len(d) = 2 * N \/ Len(d) = 2 * N - 1
  BY DEF IsImsi
<1> HIDE DEF N
<1>2. ASSUME NEW k \in 1 .. N
      PROVE  /\ b[k] \in Byte
             /\ TwoDigits(b[k])
             /\ b[k] \div 16 = Filler <=> k = N /\ Len(d) = 2 * N - 1
  <2>0. k \in 1 .. (Len(d) + 1) \div 2
    BY DEF N
  <2>1. b[k] = Nibbles(d, k)
    BY <2>0 DEF Encoding
  <2>2. Nibbles(d, k) \in Byte /\ Nibbles(d, k) % 16 \in 0 .. 9
    BY <2>0, NibblesOfEncoding
  <2>3. CASE 2 * k <= Len(d)
    <3>1. Nibbles(d, k) \div 16 \in 0 .. 9
      BY <2>0, <2>3, NibblesOfEncoding
    <3>2. ~(k = N /\ Len(d) = 2 * N - 1)
      BY <1>1, <2>3
    <3> QED
      BY <2>1, <2>2, <3>1, <3>2 DEF TwoDigits, Filler
  <2>4. CASE 2 * k > Len(d)
    <3>1. Nibbles(d, k) \div 16 = Filler
      BY <2>0, <2>4, NibblesOfEncoding
    <3>2. k = N /\ Len(d) = 2 * N - 1
      BY <1>1, <2>4
    <3> QED
      BY <2>1, <2>2, <3>1, <3>2 DEF TwoDigits
  <2> QED
    BY <1>1, <2>3, <2>4
<1>3. b \in Seq(Byte) /\ Len(b) = N /\ b # <<>>
  <2>1. b = [k \in 1 .. N |-> b[k]]
    BY DEF Encoding, N
  <2> HIDE DEF b
  <2>2. b \in [1 .. N -> Byte]
    BY <1>2, <2>1
  <2>3. b \in Seq(Byte) /\ Len(b) = N
    BY <1>1, <2>2
  <2> QED
    BY <1>1, <2>3
<1> HIDE DEF b
<1>4. 2 * N - Cardinality(FillersOf(b)) = Len(d)
  <2>1. CASE Len(d) = 2 * N
    <3>1. FillersOf(b) = {}
      BY <1>1, <1>2, <1>3, <2>1 DEF FillersOf, FillersIn
    <3> QED
      BY <1>1, <2>1, <3>1, FS_EmptySet
  <2>2. CASE Len(d) = 2 * N - 1
    <3>1. FillersOf(b) = {N}
      BY <1>1, <1>2, <1>3, <2>2 DEF FillersOf, FillersIn
    <3> QED
      BY <1>1, <2>2, <3>1, FS_Singleton
  <2> QED
    BY <1>1, <2>1, <2>2
<1>5. Decodable(b)
  BY <1>1, <1>2, <1>3, <1>4 DEF Decodable
<1> QED
  BY <1>5 DEF b
=============================================================================
