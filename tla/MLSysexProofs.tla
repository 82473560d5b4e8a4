---------------------------- MODULE MLSysexProofs ----------------------------
(***************************************************************************)
(* The MissingLink's own commands: whatever messages the two devices send,  *)
(* the EEPROM becomes what the messages from USB say, and nothing else.     *)
(***************************************************************************)
EXTENDS MLSysex, SequenceTheorems, TLAPS

-----------------------------------------------------------------------------
(* Numbers. The sets of bytes and words are kept folded: a word is known by *)
(* its bounds.                                                              *)

LEMMA Interval ==
  ASSUME NEW a \in Int, NEW b \in Int, NEW x
  PROVE  x \in a..b <=> x \in Int /\ a <= x /\ x <= b
OBVIOUS

LEMMA WordRange ==
  ASSUME NEW x
  PROVE  x \in Word <=> x \in Int /\ 0 <= x /\ x <= WordMax
<1>1. 0 \in Int /\ WordMax \in Int
  BY DEF WordMax
<1> QED BY <1>1, Interval, Zenon DEF Word

LEMMA ByteRange ==
  ASSUME NEW x
  PROVE  x \in Byte <=> x \in Int /\ 0 <= x /\ x <= 255
<1> DEFINE h == 255
<1>1. Byte = 0..h
  BY Zenon DEF Byte
<1>2. 0 \in Int /\ h \in Int
  OBVIOUS
<1> HIDE DEF h
<1>3. x \in Byte <=> x \in Int /\ 0 <= x /\ x <= h
  BY <1>1, <1>2, Interval
<1> QED BY <1>3 DEF h

LEMMA NibbleOrRange ==
  ASSUME NEW x, NEW y
  PROVE  NibbleOr(x, y) \in Digit
BY DEF NibbleOr, Digit

LEMMA NibbleRange ==
  ASSUME NEW x \in Nat
  PROVE  /\ Nibble(x, 0) \in Digit /\ Nibble(x, 1) \in Digit
         /\ Nibble(x, 2) \in Digit /\ Nibble(x, 3) \in Digit
BY DEF Nibble, Digit

LEMMA NibbleOrZero ==
  ASSUME NEW x \in Digit
  PROVE  NibbleOr(x, 0) = x /\ NibbleOr(0, x) = x
BY DEF NibbleOr, Digit

LEMMA NibblesRange ==
  ASSUME NEW a \in Digit, NEW b \in Digit, NEW c \in Digit, NEW d \in Digit
  PROVE  /\ Nibbles(a, b, c, d) \in Int /\ 0 <= Nibbles(a, b, c, d) /\ Nibbles(a, b, c, d) <= WordMax
         /\ a = 0 /\ b = 0 => Nibbles(a, b, c, d) <= 255
BY DEF Nibbles, WordMax, Digit

LEMMA BitOrWord ==
  ASSUME NEW x, NEW y
  PROVE  BitOr(x,y) \in Word
<1> DEFINE n(k) == NibbleOr(Nibble(x, k), Nibble(y, k))
<1>1. \A k : n(k) \in Digit
  BY NibbleOrRange
<1>2. BitOr(x, y) = Nibbles(n(3), n(2), n(1), n(0))
  BY Zenon DEF BitOr
<1> HIDE DEF n
<1> QED BY <1>1, <1>2, NibblesRange, WordRange

LEMMA BitOrByte ==
  ASSUME NEW x \in Byte, NEW y \in Byte
  PROVE  BitOr(x,y) \in Byte
<1> x \in Int /\ 0 <= x /\ x <= 255 /\ y \in Int /\ 0 <= y /\ y <= 255
  BY ByteRange
<1>1. Nibble(x, 2) = 0 /\ Nibble(x, 3) = 0 /\ Nibble(y, 2) = 0 /\ Nibble(y, 3) = 0
  BY DEF Nibble
<1>2. 0 \in Digit
  BY DEF Digit
<1>3. BitOr(x,y) = Nibbles(0, 0, NibbleOr(Nibble(x, 1), Nibble(y, 1)), NibbleOr(Nibble(x, 0), Nibble(y, 0)))
  BY <1>1, <1>2, NibbleOrZero, Zenon DEF BitOr
<1> DEFINE c == NibbleOr(Nibble(x, 1), Nibble(y, 1))
           d == NibbleOr(Nibble(x, 0), Nibble(y, 0))
<1>5. c \in Digit /\ d \in Digit
  BY NibbleOrRange
<1> HIDE DEF c, d
<1>6. Nibbles(0, 0, c, d) \in Int /\ 0 <= Nibbles(0, 0, c, d) /\ Nibbles(0, 0, c, d) <= 255
  BY <1>2, <1>5, NibblesRange
<1>4. BitOr(x,y) \in Int /\ 0 <= BitOr(x,y) /\ BitOr(x,y) <= 255
  BY <1>3, <1>6 DEF c, d
<1> QED BY <1>4, ByteRange

LEMMA NibbleOf ==
  ASSUME NEW a \in Digit, NEW b \in Digit, NEW c \in Digit, NEW d \in Digit
  PROVE  /\ Nibble(Nibbles(a, b, c, d), 3) = a /\ Nibble(Nibbles(a, b, c, d), 2) = b
         /\ Nibble(Nibbles(a, b, c, d), 1) = c /\ Nibble(Nibbles(a, b, c, d), 0) = d
<1>0. a \in Int /\ b \in Int /\ c \in Int /\ d \in Int /\ 0 <= c /\ c <= 15 /\ 0 <= d /\ d <= 15
  BY DEF Digit
<1>1. Nibbles(a, b, c, d) = d + 16 * (c + 16 * (b + 16 * a))
  BY DEF Nibbles, Digit
<1>2. Nibbles(a, b, c, d) = (d + 16 * c) + 256 * (b + 16 * a)
  BY DEF Nibbles, Digit
<1>3. Nibbles(a, b, c, d) = (d + 16 * c + 256 * b) + 4096 * a
  BY DEF Nibbles, Digit
<1> DEFINE x == Nibbles(a, b, c, d)
<1> HIDE DEF x
<1>4. Nibble(x, 0) = d
  BY <1>1 DEF Nibble, Digit, x
<1>5. Nibble(x, 1) = c
  <2> DEFINE t == b + 16 * a
  <2>1. t \in Int
    BY <1>0
  <2>2. x = d + 16 * (c + 16 * t)
    BY <1>1 DEF x
  <2> HIDE DEF t
  <2>3. x \div 16 = c + 16 * t
    BY <1>0, <2>1, <2>2
  <2>4. (c + 16 * t) % 16 = c
    BY <1>0, <2>1
  <2> QED BY <2>3, <2>4 DEF Nibble
<1>6. Nibble(x, 2) = b
  BY <1>2 DEF Nibble, Digit, x
<1>7. Nibble(x, 3) = a
  BY <1>3 DEF Nibble, Digit, x
<1> QED BY <1>4, <1>5, <1>6, <1>7 DEF x

\* A digit that is m or n, the other being nothing.
Parts(m, n, v) == (m = v /\ n = 0) \/ (m = 0 /\ n = v)

LEMMA BitOrApart ==
  ASSUME NEW a \in Digit, NEW b \in Digit, NEW c \in Digit, NEW d \in Digit, NEW x, NEW y,
         Parts(Nibble(x, 3), Nibble(y, 3), a), Parts(Nibble(x, 2), Nibble(y, 2), b),
         Parts(Nibble(x, 1), Nibble(y, 1), c), Parts(Nibble(x, 0), Nibble(y, 0), d)
  PROVE  BitOr(x, y) = Nibbles(a, b, c, d)
<1>1. \A m, n : \A v \in Digit : Parts(m, n, v) => NibbleOr(m, n) = v
  BY NibbleOrZero, Zenon DEF Parts
<1>2. /\ NibbleOr(Nibble(x, 3), Nibble(y, 3)) = a /\ NibbleOr(Nibble(x, 2), Nibble(y, 2)) = b
      /\ NibbleOr(Nibble(x, 1), Nibble(y, 1)) = c /\ NibbleOr(Nibble(x, 0), Nibble(y, 0)) = d
  BY <1>1, Zenon
<1> QED BY <1>2, Zenon DEF BitOr

LEMMA BitOrNibbles ==
  ASSUME NEW a \in Digit, NEW b \in Digit, NEW c \in Digit, NEW d \in Digit
  PROVE  /\ BitOr(0, Nibbles(a, 0, 0, 0)) = Nibbles(a, 0, 0, 0)
         /\ BitOr(Nibbles(a, 0, 0, 0), Nibbles(0, b, 0, 0)) = Nibbles(a, b, 0, 0)
         /\ BitOr(Nibbles(a, b, 0, 0), Nibbles(0, 0, c, 0)) = Nibbles(a, b, c, 0)
         /\ BitOr(Nibbles(a, b, c, 0), Nibbles(0, 0, 0, d)) = Nibbles(a, b, c, d)
<1> 0 \in Digit
  BY DEF Digit
<1>1. 0 = Nibbles(0, 0, 0, 0)
  BY DEF Nibbles
<1>2. BitOr(Nibbles(0, 0, 0, 0), Nibbles(a, 0, 0, 0)) = Nibbles(a, 0, 0, 0)
  <2> DEFINE x == Nibbles(0, 0, 0, 0)
             y == Nibbles(a, 0, 0, 0)
  <2>1. /\ Nibble(x, 3) = 0 /\ Nibble(x, 2) = 0 /\ Nibble(x, 1) = 0 /\ Nibble(x, 0) = 0
        /\ Nibble(y, 3) = a /\ Nibble(y, 2) = 0 /\ Nibble(y, 1) = 0 /\ Nibble(y, 0) = 0
    BY NibbleOf
  <2> HIDE DEF x, y
  <2>2. BitOr(x, y) = Nibbles(a, 0, 0, 0)
    BY <2>1, BitOrApart DEF Parts
  <2> QED BY <2>2 DEF x, y
<1>3. BitOr(Nibbles(a, 0, 0, 0), Nibbles(0, b, 0, 0)) = Nibbles(a, b, 0, 0)
  <2> DEFINE x == Nibbles(a, 0, 0, 0)
             y == Nibbles(0, b, 0, 0)
  <2>1. /\ Nibble(x, 3) = a /\ Nibble(x, 2) = 0 /\ Nibble(x, 1) = 0 /\ Nibble(x, 0) = 0
        /\ Nibble(y, 3) = 0 /\ Nibble(y, 2) = b /\ Nibble(y, 1) = 0 /\ Nibble(y, 0) = 0
    BY NibbleOf
  <2> HIDE DEF x, y
  <2>2. BitOr(x, y) = Nibbles(a, b, 0, 0)
    BY <2>1, BitOrApart DEF Parts
  <2> QED BY <2>2 DEF x, y
<1>4. BitOr(Nibbles(a, b, 0, 0), Nibbles(0, 0, c, 0)) = Nibbles(a, b, c, 0)
  <2> DEFINE x == Nibbles(a, b, 0, 0)
             y == Nibbles(0, 0, c, 0)
  <2>1. /\ Nibble(x, 3) = a /\ Nibble(x, 2) = b /\ Nibble(x, 1) = 0 /\ Nibble(x, 0) = 0
        /\ Nibble(y, 3) = 0 /\ Nibble(y, 2) = 0 /\ Nibble(y, 1) = c /\ Nibble(y, 0) = 0
    BY NibbleOf
  <2> HIDE DEF x, y
  <2>2. BitOr(x, y) = Nibbles(a, b, c, 0)
    BY <2>1, BitOrApart DEF Parts
  <2> QED BY <2>2 DEF x, y
<1>5. BitOr(Nibbles(a, b, c, 0), Nibbles(0, 0, 0, d)) = Nibbles(a, b, c, d)
  <2> DEFINE x == Nibbles(a, b, c, 0)
             y == Nibbles(0, 0, 0, d)
  <2>1. /\ Nibble(x, 3) = a /\ Nibble(x, 2) = b /\ Nibble(x, 1) = c /\ Nibble(x, 0) = 0
        /\ Nibble(y, 3) = 0 /\ Nibble(y, 2) = 0 /\ Nibble(y, 1) = 0 /\ Nibble(y, 0) = d
    BY NibbleOf
  <2> HIDE DEF x, y
  <2>2. BitOr(x, y) = Nibbles(a, b, c, d)
    BY <2>1, BitOrApart DEF Parts
  <2> QED BY <2>2 DEF x, y
<1> QED BY <1>1, <1>2, <1>3, <1>4, <1>5

-----------------------------------------------------------------------------
(* Messages                                                                 *)

\* The first n bytes of m are those of the header.
HasHeader(m, n) == \A i \in 1..n : m[i] = ML_HEADER[i]

LEMMA HeaderBytes ==
  /\ ML_HEADER[1] = 240 /\ ML_HEADER[2] = 125 /\ ML_HEADER[3] = 77
  /\ ML_HEADER[4] = 76 /\ ML_HEADER[5] = 78 /\ ML_HEADER[6] = 75
  /\ ML_HEADER \in Seq(Int) /\ Len(ML_HEADER) = 6
BY DEF ML_HEADER

LEMMA MessageBytes ==
  ASSUME NEW m \in UsbMessages \cup SerialMessages
  PROVE  /\ WellFormed(m) /\ m \in Seq(Byte) /\ Len(m) \in Nat /\ Len(m) >= 1
         /\ \A i \in 1..Len(m) : m[i] \in Byte /\ m[i] \in Int /\ 0 <= m[i] /\ m[i] <= 255
         /\ \A i \in 2..Len(m) : m[i] # SYSEX_BEGIN
         /\ m[1] = SYSEX_BEGIN =>
              /\ Len(m) >= 2 /\ Len(m) <= 256
              /\ \A i \in 2..Len(m) : m[i] = SYSEX_END <=> i = Len(m)
              /\ \A i \in 2..(Len(m) - 1) : m[i] < 128
<1>1. WellFormed(m)
  BY MessageAssumption
<1>2. m \in Seq(Byte) /\ m # <<>>
  BY <1>1 DEF WellFormed
<1>3. Len(m) \in Nat /\ Len(m) >= 1
  BY <1>2, EmptySeq, LenProperties
<1>4. \A i \in 1..Len(m) : m[i] \in Byte /\ m[i] \in Int /\ 0 <= m[i] /\ m[i] <= 255
  BY <1>2, ElementOfSeq, ByteRange
<1>5. \A i \in 2..Len(m) : m[i] >= 128 => i = Len(m) /\ m[i] = SYSEX_END
  BY <1>1, <1>3 DEF WellFormed
<1>6. \A i \in 2..Len(m) : m[i] # SYSEX_BEGIN
  BY <1>3, <1>5 DEF SYSEX_BEGIN, SYSEX_END
<1>7. ASSUME m[1] = SYSEX_BEGIN
      PROVE  /\ Len(m) >= 2 /\ Len(m) <= 256
             /\ \A i \in 2..Len(m) : m[i] = SYSEX_END <=> i = Len(m)
             /\ \A i \in 2..(Len(m) - 1) : m[i] < 128
  <2>1. Len(m) >= 2 /\ Len(m) <= 256 /\ m[Len(m)] = SYSEX_END
    BY <1>1, <1>3, <1>7 DEF WellFormed
  <2> QED BY <2>1, <1>3, <1>4, <1>5 DEF SYSEX_END
<1> QED BY <1>1, <1>2, <1>3, <1>4, <1>6, <1>7

\* A command is told by its bytes, one by one.
LEMMA CommandBytes ==
  ASSUME NEW m \in UsbMessages, NEW c
  PROVE  IsCommand(m, c) <=> Len(m) >= 8 /\ HasHeader(m, 6) /\ m[7] = c
<1> Len(m) \in Nat /\ \A i \in 1..Len(m) : m[i] \in Int
  BY MessageBytes
<1> SUFFICES ASSUME Len(m) >= 8
             PROVE  SubSeq(m, 1, 6) = ML_HEADER <=> HasHeader(m, 6)
  BY DEF IsCommand, ML_HEADER_LEN
<1> DEFINE s == SubSeq(m, 1, 6)
<1>1. s \in Seq(Int) /\ Len(s) = 6 /\ \A i \in 1..6 : s[i] = m[i]
  <2>1. \A i \in 1..6 : m[i] \in Int
    OBVIOUS
  <2> QED BY <2>1, SubSeqProperties
<1> HIDE DEF s
<1>2. ASSUME HasHeader(m, 6) PROVE s = ML_HEADER
  <2>1. \A i \in 1..6 : s[i] = ML_HEADER[i]
    BY <1>1, <1>2 DEF HasHeader
  <2>2. ML_HEADER \in Seq(Int) /\ Len(ML_HEADER) = 6
    BY HeaderBytes
  <2> QED BY <1>1, <2>1, <2>2, SeqEqual
<1>3. ASSUME s = ML_HEADER PROVE HasHeader(m, 6)
  BY <1>1, <1>3 DEF HasHeader
<1> QED BY <1>2, <1>3 DEF s

\* A write: its address and its data.
LEMMA WriteBytes ==
  ASSUME NEW m \in UsbMessages, HasHeader(m, 6), m[7] = 2, Len(m) >= 8
  PROVE  /\ Len(m) >= 12 /\ Len(m) % 2 = 0
         /\ Count(m) \in Nat /\ Len(m) = 12 + 2 * Count(m)
         /\ Count(m) > 0 =>
              /\ \A i \in 8..(Len(m) - 1) : m[i] \in Digit
              /\ Base(m) = Nibbles(m[8], m[9], m[10], m[11])
              /\ Base(m) \in Nat /\ Base(m) + Count(m) <= EepromSize
         /\ \A i \in 1..(Len(m) - 8) : Data(m)[i] = m[i + 7]
<1>1. /\ WellFormed(m) /\ Len(m) \in Nat /\ Len(m) >= 1
      /\ \A i \in 1..Len(m) : m[i] \in Int
  BY MessageBytes
<1>2. IsCommand(m, 2)
  BY CommandBytes
<1>3. /\ Data(m) \in Seq(Int) /\ Len(Data(m)) = Len(m) - 8
      /\ \A i \in 1..(Len(m) - 8) : Data(m)[i] = m[i + 7]
  <2>1. \A i \in 8..(Len(m) - 1) : m[i] \in Int
    BY <1>1
  <2>2. Data(m) = SubSeq(m, 8, Len(m) - 1)
    BY DEF Data, ML_HEADER_LEN
  <2>3. /\ Len(m) - 1 \in Int /\ 8 \in Int /\ (Len(m) - 1) - 8 + 1 = Len(m) - 8
        /\ ~ (8 <= Len(m) - 1) => Len(m) - 8 = 0
    <3> DEFINE L == Len(m)
    <3>1. L \in Nat /\ L >= 8
      BY <1>1
    <3> HIDE DEF L
    <3>2. L - 1 \in Int /\ (L - 1) - 8 + 1 = L - 8 /\ (~ (8 <= L - 1) => L - 8 = 0)
      BY <3>1
    <3> QED BY <3>2 DEF L
  <2> DEFINE s == SubSeq(m, 8, Len(m) - 1)
  <2>4. /\ s \in Seq(Int) /\ Len(s) = (IF 8 <= Len(m) - 1 THEN (Len(m) - 1) - 8 + 1 ELSE 0)
        /\ \A i \in 1..((Len(m) - 1) - 8 + 1) : s[i] = m[8 + i - 1]
    BY <2>1, <2>3, SubSeqProperties
  <2> HIDE DEF s
  <2>5. \A i \in Int : 8 + i - 1 = i + 7
    OBVIOUS
  <2>6. s \in Seq(Int) /\ Len(s) = Len(m) - 8
    BY <2>3, <2>4
  <2>7. \A i \in 1..(Len(m) - 8) : s[i] = m[i + 7]
    <3> SUFFICES ASSUME NEW i \in 1..(Len(m) - 8) PROVE s[i] = m[i + 7]
      OBVIOUS
    <3>1. s[i] = m[8 + i - 1]
      BY <2>3, <2>4
    <3>2. i \in Int
      BY <1>1
    <3> QED BY <2>5, <3>1, <3>2
  <2> QED BY <2>2, <2>6, <2>7 DEF s
<1>4. /\ Len(Data(m)) >= 4 /\ Len(Data(m)) % 2 = 0
      /\ Count(m) > 0 => Data(m) \in Seq(Digit) /\ Base(m) + Count(m) <= EepromSize
  BY <1>1, <1>2 DEF WellFormed
<1>5. Count(m) = (Len(m) - 12) \div 2
  BY <1>1, <1>3 DEF Count
<1>6. Len(m) >= 12 /\ Len(m) % 2 = 0 /\ Count(m) \in Nat /\ Len(m) = 12 + 2 * Count(m)
  <2>1. Len(m) \in Nat /\ Len(m) - 8 >= 4 /\ (Len(m) - 8) % 2 = 0
    BY <1>1, <1>3, <1>4
  <2> QED BY <2>1, <1>5
<1>7. ASSUME Count(m) > 0
      PROVE  /\ \A i \in 8..(Len(m) - 1) : m[i] \in Digit
             /\ Base(m) = Nibbles(m[8], m[9], m[10], m[11])
             /\ Base(m) \in Nat /\ Base(m) + Count(m) <= EepromSize
  <2>1. \A i \in 1..(Len(m) - 8) : m[i + 7] \in Digit
    BY <1>3, <1>4, <1>7, ElementOfSeq
  <2>2. \A i \in 8..(Len(m) - 1) : i - 7 \in 1..(Len(m) - 8) /\ (i - 7) + 7 = i
    BY <1>1
  <2>3. \A i \in 8..(Len(m) - 1) : m[i] \in Digit
    BY <2>1, <2>2
  <2>4. Data(m)[1] = m[8] /\ Data(m)[2] = m[9] /\ Data(m)[3] = m[10] /\ Data(m)[4] = m[11]
    <3>1. 1 \in 1..(Len(m) - 8) /\ 2 \in 1..(Len(m) - 8) /\ 3 \in 1..(Len(m) - 8) /\ 4 \in 1..(Len(m) - 8)
      <4>1. Len(m) \in Nat /\ Len(m) >= 12
        BY <1>1, <1>6
      <4> QED BY <4>1
    <3>2. 1 + 7 = 8 /\ 2 + 7 = 9 /\ 3 + 7 = 10 /\ 4 + 7 = 11
      OBVIOUS
    <3> QED BY <1>3, <3>1, <3>2
  <2>5. Base(m) = Nibbles(m[8], m[9], m[10], m[11])
    BY <2>4 DEF Base
  <2>6. m[8] \in Digit /\ m[9] \in Digit /\ m[10] \in Digit /\ m[11] \in Digit
    <3>1. 8 \in 8..(Len(m) - 1) /\ 9 \in 8..(Len(m) - 1) /\ 10 \in 8..(Len(m) - 1) /\ 11 \in 8..(Len(m) - 1)
      <4>1. Len(m) \in Nat /\ Len(m) > 12
        BY <1>1, <1>6, <1>7
      <4> QED BY <4>1
    <3> QED BY <2>3, <3>1
  <2>7. Base(m) \in Nat
    <3> DEFINE x == Nibbles(m[8], m[9], m[10], m[11])
    <3>1. x \in Int /\ 0 <= x
      BY <2>6, NibblesRange
    <3> HIDE DEF x
    <3>2. Base(m) = x
      BY <2>5 DEF x
    <3> QED BY <3>1, <3>2
  <2> QED BY <1>4, <1>7, <2>3, <2>5, <2>7
<1> QED BY <1>3, <1>6, <1>7

-----------------------------------------------------------------------------
(* The jacks: no more than the first three bytes of the header are ever     *)
(* seen in a row, for the parser repeats the start byte every third byte.   *)

\* At most two bytes after a start byte comes the next one, or the message's end.
Framed(s) ==
  \A i \in 1..Len(s) :
    s[i] = SYSEX_BEGIN => \E k \in (i + 1)..(i + 3) : k <= Len(s) /\ s[k] >= 128

SerialInv ==
  LET index == sysex_index["serial"]
      s == coming["serial"]
  IN /\ index <= 3
     /\ Framed(s)
     /\ index > 0 => \E k \in 1..(4 - index) : k <= Len(s) /\ s[k] >= 128

LEMMA PiecesFramed ==
  ASSUME NEW m \in SerialMessages
  PROVE  Pieces(m) \in Seq(Byte) /\ Framed(Pieces(m))
<1>1. /\ m \in Seq(Byte) /\ Len(m) \in Nat /\ Len(m) >= 1
      /\ \A i \in 1..Len(m) : m[i] \in Byte /\ m[i] \in Int /\ 0 <= m[i] /\ m[i] <= 255
      /\ \A i \in 2..Len(m) : m[i] # SYSEX_BEGIN
      /\ m[1] = SYSEX_BEGIN => Len(m) >= 2 /\ \A i \in 2..Len(m) : m[i] = SYSEX_END <=> i = Len(m)
  BY MessageBytes
<1>2. CASE m[1] # SYSEX_BEGIN
  <2>1. Pieces(m) = m
    BY <1>2 DEF Pieces
  <2>2. \A i \in 1..Len(m) : m[i] # SYSEX_BEGIN
    BY <1>1, <1>2
  <2> QED BY <1>1, <2>1, <2>2 DEF Framed
<1>3. CASE m[1] = SYSEX_BEGIN
  <2> DEFINE k == Len(m) - 1
             L == k + ((k + 1) \div 2)
             piece(i) == (i - 1) \div 3
             place(i) == (i - 1) % 3
             P == [i \in 1..L |-> IF place(i) = 0 THEN SYSEX_BEGIN ELSE m[2 * piece(i) + place(i) + 1]]
  <2>1. Pieces(m) = P
    BY <1>3 DEF Pieces
  <2>2. k \in Nat /\ k >= 1 /\ L \in Nat /\ L >= 2
    BY <1>1, <1>3
  <2>3. \A i \in 1..L : place(i) # 0 => 2 * piece(i) + place(i) + 1 \in 2..Len(m)
    <3> SUFFICES ASSUME NEW i \in 1..L, place(i) # 0
                 PROVE  2 * piece(i) + place(i) + 1 \in 2..(k + 1)
      BY <1>1
    <3>1. k \in Nat /\ i \in Nat /\ i >= 1 /\ i <= k + ((k + 1) \div 2)
      BY <2>2
    <3> HIDE DEF k
    <3>2. 2 * i <= 3 * k + 1
      BY <3>1
    <3>3. /\ i - 1 = 3 * piece(i) + place(i) /\ piece(i) \in Nat
          /\ place(i) = 1 \/ place(i) = 2
      BY <3>1
    <3> QED BY <3>1, <3>2, <3>3
  <2>4. (L - 1) % 3 # 0 /\ 2 * ((L - 1) \div 3) + ((L - 1) % 3) + 1 = Len(m)
    <3>1. Len(m) \in Nat /\ Len(m) >= 2
      BY <1>1, <1>3
    <3>2. CASE k % 2 = 0
      <4>1. PICK t \in Nat : k = 2 * t
        <5>1. k \div 2 \in Nat /\ k = 2 * (k \div 2)
          BY <3>1, <3>2
        <5> QED BY <5>1
      <4>2. L = 3 * t /\ t >= 1 /\ Len(m) = 2 * t + 1
        BY <3>1, <4>1
      <4> HIDE DEF k, L
      <4>3. (L - 1) % 3 = 2 /\ (L - 1) \div 3 = t - 1
        BY <4>2
      <4> QED BY <4>2, <4>3
    <3>3. CASE k % 2 = 1
      <4>1. PICK t \in Nat : k = 2 * t + 1
        <5>1. k \div 2 \in Nat /\ k = 2 * (k \div 2) + 1
          BY <3>1, <3>3
        <5> QED BY <5>1
      <4>2. L = 3 * t + 2 /\ Len(m) = 2 * t + 2
        BY <3>1, <4>1
      <4> HIDE DEF k, L
      <4>3. (L - 1) % 3 = 1 /\ (L - 1) \div 3 = t
        BY <4>2
      <4> QED BY <4>2, <4>3
    <3> QED BY <3>1, <3>2, <3>3
  <2>5. \A i \in 1..L : P[i] \in Byte /\ (P[i] = SYSEX_BEGIN <=> place(i) = 0)
    <3> SUFFICES ASSUME NEW i \in 1..L
                 PROVE  P[i] \in Byte /\ (P[i] = SYSEX_BEGIN <=> place(i) = 0)
      OBVIOUS
    <3>1. CASE place(i) = 0
      BY <3>1, ByteRange DEF SYSEX_BEGIN
    <3>2. CASE place(i) # 0
      <4> DEFINE j == 2 * piece(i) + place(i) + 1
      <4>1. j \in 2..Len(m)
        BY <2>3, <3>2
      <4>2. P[i] = m[j]
        BY <3>2
      <4> HIDE DEF j, P
      <4> QED BY <1>1, <3>2, <4>1, <4>2
    <3> QED BY <3>1, <3>2
  <2>6. P \in Seq(Byte) /\ Len(P) = L
    BY <2>2, <2>5
  <2>7. P[L] >= 128
    <3>1. P[L] = m[Len(m)]
      BY <2>2, <2>4
    <3>2. m[Len(m)] = SYSEX_END
      BY <1>1, <1>3
    <3> QED BY <3>1, <3>2 DEF SYSEX_END
  <2>8. Framed(P)
    <3> SUFFICES ASSUME NEW i \in 1..L, P[i] = SYSEX_BEGIN
                 PROVE  \E j \in (i + 1)..(i + 3) : j <= L /\ P[j] >= 128
      BY <2>6 DEF Framed
    <3>1. (i - 1) % 3 = 0
      BY <2>5
    <3>2. CASE i + 3 <= L
      <4>1. i + 3 \in 1..L /\ (i + 3 - 1) % 3 = 0
        BY <2>2, <3>1, <3>2
      <4>2. P[i + 3] = SYSEX_BEGIN
        BY <2>5, <4>1
      <4>3. P[i + 3] >= 128
        BY <4>2 DEF SYSEX_BEGIN
      <4> HIDE DEF P, L
      <4> QED BY <3>2, <4>3
    <3>3. CASE i + 3 > L
      <4>1. L # i
        BY <2>4, <3>1
      <4> HIDE DEF P, L
      <4>2. L \in (i + 1)..(i + 3)
        BY <2>2, <3>3, <4>1
      <4> QED BY <2>2, <2>7, <4>2
    <3> HIDE DEF P, L
    <3> QED BY <2>2, <3>2, <3>3
  <2> QED BY <2>1, <2>6, <2>8
<1> QED BY <1>2, <1>3

-----------------------------------------------------------------------------
(* USB: where midi_check_sysex is after the first n bytes of a message m.   *)

\* The index follows the header, then counts on for the commands 0 to 2.
IndexAt(m, n) ==
  IF n <= 6 THEN IF HasHeader(m, n) THEN n ELSE 0
  ELSE IF HasHeader(m, 6) /\ (n = 7 \/ m[7] \in {0, 1, 2}) THEN n ELSE 0

Writing(m, n) == n >= 7 /\ HasHeader(m, 6) /\ m[7] = 2 /\ Count(m) > 0

\* How many bytes of a write are in the EEPROM, and what address it then has.
Stored(n) == IF n >= 11 THEN (n - 11) \div 2 ELSE 0
StoredAt(m, n, a) ==
  IF a - Base(m) \in 0..(Stored(n) - 1)
  THEN 16 * m[12 + 2 * (a - Base(m))] + m[13 + 2 * (a - Base(m))] ELSE before[a]

WriteInv(m, n) ==
  /\ \A a \in Addr : eeprom[a] = StoredAt(m, n, a)
  /\ n = 8 => eeprom_offset = Nibbles(m[8], 0, 0, 0)
  /\ n = 9 => eeprom_offset = Nibbles(m[8], m[9], 0, 0)
  /\ n = 10 => eeprom_offset = Nibbles(m[8], m[9], m[10], 0)
  /\ n >= 11 => eeprom_offset = Base(m)
  /\ n >= 12 /\ n % 2 = 0 => currdata = Nibbles(0, 0, m[n], 0)

\* All but the first n bytes of m are on their way.
Sent(m, n) ==
  /\ n < Len(m)
  /\ Len(coming["usb"]) = Len(m) - n
  /\ \A i \in 1..(Len(m) - n) : coming["usb"][i] = m[n + i]

\* What midi_check_sysex made of the first n.
Taken(m, n) ==
  /\ meant = Meaning(m, before)
  /\ sysex_index["usb"] = IndexAt(m, n)
  /\ n >= 7 /\ HasHeader(m, 6) => sysex_command["usb"] = m[7]
  /\ IF Writing(m, n) THEN WriteInv(m, n) ELSE eeprom = before

Idle == \A d \in Devices : coming[d] = <<>> /\ sysex_index[d] = 0

OffInv ==
  pc = "off" =>
    /\ Idle /\ written = 0
    /\ \A a \in Addr : eeprom[a] \in {before[a], meant[a]}

DefaultInv ==
  pc = "default" =>
    /\ coming["usb"] = <<>> /\ sysex_index["usb"] = 0
    /\ written < ConfigSize
    /\ meant = WithDefaults(before)
    /\ \A a \in Addr : eeprom[a] = IF a < written THEN DefaultConfig[a + 1] ELSE before[a]

RunInv ==
  pc = "running" =>
    /\ written = 0
    /\ IF coming["usb"] = <<>> THEN sysex_index["usb"] = 0 /\ eeprom = meant
       ELSE \E m \in UsbMessages : \E n \in Nat : Sent(m, n) /\ Taken(m, n)

IInv == TypeOK /\ SerialInv /\ OffInv /\ DefaultInv /\ RunInv

-----------------------------------------------------------------------------
(* The steps                                                                *)

LEMMA Numbers ==
  /\ EepromSize \in Nat /\ EepromSize >= 1 /\ EepromSize <= WordMax + 1
  /\ ConfigSize \in Nat /\ ConfigSize >= 1 /\ ConfigSize <= EepromSize
  /\ DefaultConfig \in Seq(Byte) /\ \A i \in 1..ConfigSize : DefaultConfig[i] \in Byte
  /\ "usb" \in Devices /\ "serial" \in Devices
  /\ 0 \in Byte /\ 255 \in Byte /\ 0 \in Word
BY EepromAssumption, ByteRange, WordRange DEF ConfigSize, Devices, WordMax

LEMMA WithDefaultsType ==
  ASSUME NEW e \in [Addr -> Byte]
  PROVE  WithDefaults(e) \in [Addr -> Byte]
BY Numbers DEF WithDefaults, Addr

LEMMA InitInv == Init => IInv
<1> SUFFICES ASSUME Init PROVE IInv
  OBVIOUS
<1>1. TypeOK
  <2>1. /\ eeprom \in [Addr -> Byte] /\ before \in [Addr -> Byte] /\ meant \in [Addr -> Byte]
        /\ sysex_index \in [Devices -> Byte] /\ sysex_command \in [Devices -> Byte]
        /\ eeprom_offset \in Word /\ currdata \in Byte
    BY Numbers DEF Init
  <2>2. coming \in [Devices -> Seq(Byte)] /\ pc \in {"off", "running", "default"} /\ torn \in BOOLEAN
    BY EmptySeq DEF Init
  <2>3. written \in 0..ConfigSize /\ budget \in 0..Budget /\ cuts \in 0..PowerCuts
    BY Numbers, MessageAssumption DEF Init
  <2> QED BY <2>1, <2>2, <2>3 DEF TypeOK
<1>2. SerialInv
  BY Numbers DEF Init, SerialInv, Framed
<1>3. OffInv /\ DefaultInv /\ RunInv
  BY DEF Init, OffInv, DefaultInv, RunInv, Idle
<1> QED BY <1>1, <1>2, <1>3 DEF IInv

\* What a byte of a device leaves alone.
LEMMA ByteFrame ==
  ASSUME TypeOK, NEW d \in Devices, NextByte(d)
  PROVE  /\ pc = "running" /\ UNCHANGED <<written, history, budget, cuts>>
         /\ coming[d] # <<>> /\ coming[d] \in Seq(Byte)
         /\ Head(coming[d]) = coming[d][1] /\ coming[d][1] \in Byte
         /\ coming' \in [Devices -> Seq(Byte)]
         /\ coming'[d] = Tail(coming[d]) /\ coming'[d] \in Seq(Byte)
         /\ Len(coming'[d]) = Len(coming[d]) - 1 /\ Len(coming[d]) >= 1
         /\ \A i \in 1..Len(coming'[d]) : coming'[d][i] = coming[d][i + 1]
         /\ \A c \in Devices : c # d => coming'[c] = coming[c]
         /\ sysex_index \in [Devices -> Byte] /\ sysex_index[d] \in Byte
         /\ sysex_index[d] \in Int /\ 0 <= sysex_index[d] /\ sysex_index[d] <= 255
         /\ midi_check_sysex(d, coming[d][1])
<1>1. /\ pc = "running" /\ coming[d] # <<>> /\ UNCHANGED <<written, history, budget, cuts>>
      /\ midi_check_sysex(d, Head(coming[d]))
      /\ coming' = [coming EXCEPT ![d] = Tail(coming[d])]
  BY DEF NextByte
<1>2. coming \in [Devices -> Seq(Byte)] /\ coming[d] \in Seq(Byte)
  BY DEF TypeOK
<1>3. /\ Head(coming[d]) = coming[d][1] /\ coming[d][1] \in Byte
      /\ Tail(coming[d]) \in Seq(Byte) /\ Len(Tail(coming[d])) = Len(coming[d]) - 1
      /\ \A i \in 1..Len(Tail(coming[d])) : Tail(coming[d])[i] = coming[d][i + 1]
      /\ Len(coming[d]) >= 1
  <2>1. Len(coming[d]) \in Nat /\ Len(coming[d]) >= 1
    BY <1>1, <1>2, EmptySeq, LenProperties
  <2>2. Head(coming[d]) = coming[d][1] /\ coming[d][1] \in Byte
    BY <1>2, <2>1, ElementOfSeq
  <2> QED BY <1>1, <1>2, <2>1, <2>2, HeadTailProperties
<1>4. /\ coming' \in [Devices -> Seq(Byte)] /\ coming'[d] = Tail(coming[d])
      /\ \A c \in Devices : c # d => coming'[c] = coming[c]
  BY <1>1, <1>2, <1>3
<1>5. sysex_index \in [Devices -> Byte] /\ sysex_index[d] \in Byte
  BY DEF TypeOK
<1> QED BY <1>1, <1>2, <1>3, <1>4, <1>5, ByteRange

\* A byte of the jacks moves the index of the jacks within the header, and no more.
LEMMA SerialByteInv == IInv /\ SerialByte => IInv'
<1> SUFFICES ASSUME IInv, SerialByte PROVE IInv'
  OBVIOUS
<1> DEFINE s == coming["serial"]
           t == coming'["serial"]
           x == sysex_index["serial"]
           b == s[1]
<1>0. TypeOK /\ SerialInv /\ "serial" \in Devices /\ "usb" \in Devices /\ NextByte("serial")
  BY Numbers DEF IInv, SerialByte
<1>1. /\ pc = "running" /\ UNCHANGED <<written, history, budget, cuts>>
      /\ s \in Seq(Byte) /\ b \in Byte /\ t \in Seq(Byte) /\ Len(t) = Len(s) - 1 /\ Len(s) >= 1
      /\ coming' \in [Devices -> Seq(Byte)]
      /\ \A i \in 1..Len(t) : t[i] = s[i + 1]
      /\ coming'["usb"] = coming["usb"]
      /\ sysex_index \in [Devices -> Byte] /\ x \in Int /\ 0 <= x /\ x <= 255
      /\ midi_check_sysex("serial", b)
  BY <1>0, ByteFrame
<1>2. x <= 3
  BY <1>0 DEF SerialInv
<1>3. HeaderByte("serial", b)
  BY <1>1, <1>2 DEF midi_check_sysex, CommandByte, ResetByte, AddressByte, HighByte, LowByte,
       PicByte, OtherByte, InData, ML_HEADER_LEN
<1>4. /\ sysex_index' = [sysex_index EXCEPT !["serial"] = IF b = ML_HEADER[x + 1] THEN x + 1 ELSE 0]
      /\ UNCHANGED <<eeprom, sysex_command, eeprom_offset, currdata, pc>>
  BY <1>3 DEF HeaderByte, To, shared
<1>5. /\ sysex_index'["serial"] = IF b = ML_HEADER[x + 1] THEN x + 1 ELSE 0
      /\ sysex_index'["usb"] = sysex_index["usb"]
  BY <1>0, <1>1, <1>4
<1>6. TypeOK'
  <2>1. (IF b = ML_HEADER[x + 1] THEN x + 1 ELSE 0) \in Byte
    <3>1. x + 1 \in Byte /\ 0 \in Byte
      <4>1. x \in Int /\ 0 <= x + 1 /\ x + 1 <= 255
        BY <1>1, <1>2
      <4> QED BY <4>1, ByteRange
    <3> QED BY <3>1
  <2>2. sysex_index' \in [Devices -> Byte]
    BY <1>1, <1>4, <2>1
  <2> QED BY <1>0, <1>1, <1>4, <2>2 DEF TypeOK, history
<1>7. SerialInv'
  <2>1. Len(s) \in Nat /\ Len(t) \in Nat /\ b \in Int
    BY <1>1, LenProperties, ByteRange
  <2>2. Framed(s) /\ (x > 0 => \E k \in 1..(4 - x) : k <= Len(s) /\ s[k] >= 128)
    BY <1>0 DEF SerialInv
  <2> HIDE DEF s, t, x
  <2>3. Framed(t)
    <3> SUFFICES ASSUME NEW i \in 1..Len(t), t[i] = SYSEX_BEGIN
                 PROVE  \E k \in (i + 1)..(i + 3) : k <= Len(t) /\ t[k] >= 128
      BY DEF Framed
    <3>1. i + 1 \in 1..Len(s) /\ s[i + 1] = SYSEX_BEGIN
      BY <1>1, <2>1
    <3>2. PICK k \in (i + 2)..(i + 4) : k <= Len(s) /\ s[k] >= 128
      BY <2>2, <3>1 DEF Framed
    <3>3. k - 1 \in (i + 1)..(i + 3) /\ k - 1 <= Len(t) /\ k - 1 \in 1..Len(t) /\ (k - 1) + 1 = k
      BY <1>1, <2>1, <3>2
    <3>4. t[k - 1] >= 128
      BY <1>1, <3>2, <3>3
    <3> QED BY <3>3, <3>4
  <2>4. ASSUME b = ML_HEADER[x + 1]
        PROVE  x <= 2 /\ \E k \in 1..(4 - (x + 1)) : k <= Len(t) /\ t[k] >= 128
    <3>1. CASE x = 0
      <4>1. s[1] = SYSEX_BEGIN /\ 1 \in 1..Len(s)
        BY <1>1, <2>1, <2>4, <3>1, HeaderBytes DEF SYSEX_BEGIN
      <4>2. PICK k \in 2..4 : k <= Len(s) /\ s[k] >= 128
        BY <2>2, <4>1 DEF Framed
      <4>3. k - 1 \in 1..3 /\ k - 1 <= Len(t) /\ k - 1 \in 1..Len(t) /\ (k - 1) + 1 = k
        BY <1>1, <2>1, <4>2
      <4>4. t[k - 1] >= 128
        BY <1>1, <4>2, <4>3
      <4> QED BY <3>1, <4>3, <4>4
    <3>2. CASE x > 0
      <4>1. PICK k \in 1..(4 - x) : k <= Len(s) /\ s[k] >= 128
        BY <2>2, <3>2
      <4>2. s[1] < 128
        <5>1. x = 1 \/ x = 2 \/ x = 3
          BY <1>1, <1>2, <3>2
        <5> QED BY <5>1, <2>4, HeaderBytes
      <4>3. k # 1
        BY <2>1, <4>1, <4>2
      <4>4. /\ x <= 2 /\ k - 1 \in 1..(4 - (x + 1)) /\ k - 1 <= Len(t)
            /\ k - 1 \in 1..Len(t) /\ (k - 1) + 1 = k
        BY <1>1, <1>2, <2>1, <3>2, <4>1, <4>3
      <4>5. t[k - 1] >= 128
        BY <1>1, <4>1, <4>4
      <4> QED BY <4>4, <4>5
    <3> QED BY <1>1, <3>1, <3>2
  <2> DEFINE y == sysex_index'["serial"]
  <2>5. y = IF b = ML_HEADER[x + 1] THEN x + 1 ELSE 0
    BY <1>5
  <2> HIDE DEF y, b
  <2>6. /\ y <= 3 /\ Framed(t)
        /\ y > 0 => \E k \in 1..(4 - y) : k <= Len(t) /\ t[k] >= 128
    BY <1>1, <2>3, <2>4, <2>5
  <2> QED BY <2>6 DEF SerialInv, y, t, Framed
<1>8. OffInv' /\ DefaultInv'
  BY <1>1, <1>4 DEF OffInv, DefaultInv
<1>9. RunInv'
  <2>1. RunInv
    BY DEF IInv
  <2>2. \A m, n : Sent(m, n) /\ Taken(m, n) => Sent(m, n)' /\ Taken(m, n)'
    BY <1>1, <1>4, <1>5 DEF Sent, Taken, WriteInv, StoredAt, history
  <2> QED BY <1>1, <1>4, <1>5, <2>1, <2>2 DEF RunInv, history
<1> QED BY <1>6, <1>7, <1>8, <1>9 DEF IInv

-----------------------------------------------------------------------------
(* A byte from USB, the n+1st of m                                          *)

\* What it leads to: one more byte is taken, or the whole message is carried out.
Result(m, n) ==
  /\ sysex_index' \in [Devices -> Byte] /\ sysex_index'["serial"] = sysex_index["serial"]
  /\ sysex_command' \in [Devices -> Byte]
  /\ eeprom' \in [Addr -> Byte] /\ eeprom_offset' \in Word /\ currdata' \in Byte
  /\ IF n + 1 < Len(m) THEN pc' = "running" /\ Taken(m, n + 1)'
     ELSE /\ sysex_index'["usb"] = 0
          /\ \/ pc' = "running" /\ eeprom' = meant
             \/ pc' = "default" /\ meant = WithDefaults(before) /\ eeprom' = before

\* A message that is no command means nothing.
LEMMA MeansNothing ==
  ASSUME NEW m \in UsbMessages, ~ IsCommand(m, 0), ~ IsCommand(m, 2), NEW e
  PROVE  Meaning(m, e) = e
BY DEF Meaning

LEMMA IndexSmall ==
  ASSUME NEW x \in Int, 0 <= x, x <= 255
  PROVE  x \in Byte
BY ByteRange

LEMMA HeaderStep ==
  ASSUME TypeOK, pc = "running", UNCHANGED history,
         NEW m \in UsbMessages, NEW n \in Nat, n < Len(m), Taken(m, n),
         HeaderByte("usb", m[n + 1])
  PROVE  Result(m, n)
<1> DEFINE x == sysex_index["usb"]
           y == IF m[n + 1] = ML_HEADER[x + 1] THEN x + 1 ELSE 0
<1>1. /\ Len(m) \in Nat /\ \A i \in 2..Len(m) : m[i] # 240
      /\ m[1] = 240 => Len(m) >= 2 /\ \A i \in 2..Len(m) : m[i] = 247 <=> i = Len(m)
  BY MessageBytes DEF SYSEX_BEGIN, SYSEX_END
<1>2. /\ x < 6 /\ sysex_index' = [sysex_index EXCEPT !["usb"] = y]
      /\ UNCHANGED <<eeprom, sysex_command, eeprom_offset, currdata, pc>>
  BY DEF HeaderByte, To, shared, ML_HEADER_LEN
<1>3. x = IndexAt(m, n) /\ meant = Meaning(m, before)
  BY DEF Taken
<1>4. x \in Int /\ 0 <= x
  BY <1>3 DEF IndexAt
<1>5. ~ (n >= 7 /\ HasHeader(m, 6) /\ m[7] \in {0, 1, 2})
  BY <1>2, <1>3 DEF IndexAt
<1>6. (n <= 5 /\ HasHeader(m, n) /\ x = n) \/ (n >= 1 /\ x = 0 /\ ~ (n <= 6 /\ HasHeader(m, n)))
  <2>1. CASE n <= 6
    <3>1. CASE HasHeader(m, n)
      BY <1>2, <1>3, <2>1, <3>1 DEF IndexAt
    <3>2. CASE ~ HasHeader(m, n)
      BY <1>3, <2>1, <3>2 DEF IndexAt, HasHeader
    <3> QED BY <3>1, <3>2
  <2>2. CASE n > 6
    BY <1>2, <1>3, <2>2 DEF IndexAt
  <2> QED BY <2>1, <2>2
<1>7. ASSUME n >= 7, HasHeader(m, 6) PROVE n >= 8
  BY <1>2, <1>3, <1>7 DEF IndexAt
<1>8. y = IF n + 1 < Len(m) THEN IndexAt(m, n + 1) ELSE 0
  <2>1. CASE n <= 5 /\ HasHeader(m, n) /\ x = n
    <3>1. HasHeader(m, n + 1) <=> m[n + 1] = ML_HEADER[n + 1]
      BY <2>1 DEF HasHeader
    <3>2. IndexAt(m, n + 1) = IF HasHeader(m, n + 1) THEN n + 1 ELSE 0
      BY <2>1 DEF IndexAt
    <3>3. ASSUME n + 1 = Len(m) PROVE m[n + 1] # ML_HEADER[n + 1]
      <4>1. CASE n = 0
        <5>1. m[1] # 240
          <6>1. Len(m) = 1
            BY <3>3, <4>1
          <6> QED BY <1>1, <6>1
        <5> QED BY <4>1, <5>1, HeaderBytes
      <4>2. CASE n >= 1
        <5>1. m[1] = 240
          BY <2>1, <4>2, HeaderBytes DEF HasHeader
        <5>2. m[n + 1] = 247
          BY <1>1, <3>3, <4>2, <5>1
        <5>3. n = 1 \/ n = 2 \/ n = 3 \/ n = 4 \/ n = 5
          BY <2>1, <4>2
        <5> QED BY <5>2, <5>3, HeaderBytes
      <4> QED BY <4>1, <4>2
    <3> QED BY <1>1, <2>1, <3>1, <3>2, <3>3
  <2>2. CASE n >= 1 /\ x = 0 /\ ~ (n <= 6 /\ HasHeader(m, n))
    <3>1. m[n + 1] # 240
      BY <1>1, <2>2
    <3>2. y = 0
      BY <2>2, <3>1, HeaderBytes
    <3>3. IndexAt(m, n + 1) = 0
      <4>1. CASE n <= 5
        <5>1. ~ HasHeader(m, n + 1)
          BY <2>2, <4>1 DEF HasHeader
        <5> QED BY <4>1, <5>1 DEF IndexAt
      <4>2. CASE n = 6
        BY <2>2, <4>2 DEF IndexAt
      <4>3. CASE n >= 7
        BY <1>5, <1>7, <4>3 DEF IndexAt
      <4> QED BY <4>1, <4>2, <4>3
    <3> QED BY <3>2, <3>3
  <2> QED BY <1>6, <2>1, <2>2
<1>9. y \in Byte /\ sysex_index \in [Devices -> Byte]
  <2>1. y \in Int /\ 0 <= y /\ y <= 255
    BY <1>2, <1>4
  <2> QED BY <2>1, IndexSmall DEF TypeOK
<1> HIDE DEF y
<1>10. /\ sysex_index' \in [Devices -> Byte] /\ sysex_index'["usb"] = y
       /\ sysex_index'["serial"] = sysex_index["serial"]
  BY <1>2, <1>9, Numbers
<1>11. ~ Writing(m, n) /\ ~ Writing(m, n + 1) /\ eeprom = before
  <2>1. ~ Writing(m, n)
    BY <1>5 DEF Writing
  <2>2. ASSUME n = 6, HasHeader(m, 6) PROVE FALSE
    BY <1>6, <2>2
  <2>3. ~ Writing(m, n + 1)
    BY <1>5, <2>2 DEF Writing
  <2> QED BY <2>1, <2>3 DEF Taken
<1>12. CASE n + 1 < Len(m)
  <2>1. n + 1 >= 7 /\ HasHeader(m, 6) => n >= 7
    BY <1>6
  <2>2. Taken(m, n + 1)'
    BY <1>2, <1>3, <1>8, <1>10, <1>11, <1>12, <2>1 DEF Taken, history
  <2> QED BY <1>2, <1>10, <1>12, <2>2 DEF Result, TypeOK
<1>13. CASE ~ (n + 1 < Len(m))
  <2>1. n + 1 = Len(m)
    BY <1>1, <1>13
  <2>2. ~ IsCommand(m, 0) /\ ~ IsCommand(m, 2)
    BY <1>5, <2>1, CommandBytes
  <2>3. eeprom' = meant
    BY <1>2, <1>3, <1>11, <2>2, MeansNothing
  <2> QED BY <1>2, <1>8, <1>10, <1>13, <2>3 DEF Result, TypeOK
<1> QED BY <1>12, <1>13

LEMMA CommandStep ==
  ASSUME TypeOK, pc = "running", UNCHANGED history,
         NEW m \in UsbMessages, NEW n \in Nat, n < Len(m), Taken(m, n),
         CommandByte("usb", m[n + 1])
  PROVE  Result(m, n)
<1> DEFINE b == m[n + 1]
<1>1. /\ sysex_index["usb"] = 6
      /\ IF b # SYSEX_END
         THEN /\ sysex_command' = [sysex_command EXCEPT !["usb"] = b]
              /\ sysex_index' = [sysex_index EXCEPT !["usb"] = 7]
         ELSE /\ sysex_index' = [sysex_index EXCEPT !["usb"] = 0] /\ UNCHANGED sysex_command
      /\ UNCHANGED <<eeprom, eeprom_offset, currdata, pc>>
  BY DEF CommandByte, To, shared, ML_HEADER_LEN
<1>2. meant = Meaning(m, before) /\ n = 6 /\ HasHeader(m, 6)
  BY <1>1 DEF Taken, IndexAt
<1>3. eeprom = before
  BY <1>2 DEF Taken, Writing
<1>4. /\ Len(m) \in Nat /\ b \in Byte /\ m[7] = b
      /\ b = SYSEX_END <=> n + 1 = Len(m)
  <2>1. m[1] = SYSEX_BEGIN
    BY <1>2, HeaderBytes DEF HasHeader, SYSEX_BEGIN
  <2>2. Len(m) \in Nat
    BY MessageBytes
  <2>3. 7 \in 1..Len(m) /\ 7 \in 2..Len(m) /\ n + 1 = 7
    <3> DEFINE L == Len(m)
    <3>1. L \in Nat /\ n < L /\ n = 6
      BY <1>2, <2>2
    <3> HIDE DEF L
    <3>2. 7 \in 1..L /\ 7 \in 2..L /\ n + 1 = 7
      BY <3>1
    <3> QED BY <3>2 DEF L
  <2>4. m[7] \in Byte /\ (m[7] = SYSEX_END <=> 7 = Len(m))
    <3>1. /\ \A i \in 1..Len(m) : m[i] \in Byte
          /\ \A i \in 2..Len(m) : m[i] = SYSEX_END <=> i = Len(m)
      BY <2>1, MessageBytes
    <3> QED BY <2>3, <3>1
  <2> QED BY <2>2, <2>3, <2>4
<1>5. /\ sysex_index \in [Devices -> Byte] /\ sysex_command \in [Devices -> Byte]
      /\ 7 \in Byte /\ 0 \in Byte
  <2>1. 7 \in Byte
    BY ByteRange
  <2> QED BY <2>1, Numbers DEF TypeOK
<1> HIDE DEF b
<1>6. CASE 7 < Len(m)
  <2>1. /\ sysex_command' = [sysex_command EXCEPT !["usb"] = b]
        /\ sysex_index' = [sysex_index EXCEPT !["usb"] = 7]
    <3>1. n + 1 # Len(m)
      <4> DEFINE L == Len(m)
      <4>1. L \in Nat /\ 7 < L /\ n + 1 = 7
        BY <1>2, <1>4, <1>6
      <4> HIDE DEF L
      <4>2. n + 1 # L
        BY <4>1
      <4> QED BY <4>2 DEF L
    <3> QED BY <1>1, <1>4, <3>1
  <2>2. /\ sysex_command' \in [Devices -> Byte] /\ sysex_index' \in [Devices -> Byte]
        /\ sysex_command'["usb"] = m[7] /\ sysex_index'["usb"] = 7
        /\ sysex_index'["serial"] = sysex_index["serial"]
    BY <1>4, <1>5, <2>1, Numbers
  <2>3. IndexAt(m, 7) = 7
    BY <1>2 DEF IndexAt
  <2>4. WriteInv(m, 7)'
    <3>1. \A a \in Addr : StoredAt(m, 7, a)' = before'[a]
      BY DEF StoredAt, Stored
    <3> QED BY <1>1, <1>3, <3>1 DEF WriteInv, history
  <2>5. Taken(m, 7)'
    BY <1>1, <1>2, <1>3, <2>2, <2>3, <2>4 DEF Taken, history
  <2> QED BY <1>1, <1>2, <1>6, <2>2, <2>5 DEF Result, TypeOK
<1>7. CASE ~ (7 < Len(m))
  <2>1. n + 1 = Len(m)
    <3> DEFINE L == Len(m)
    <3>1. L \in Nat /\ n < L /\ ~ (7 < L) /\ n = 6
      BY <1>2, <1>4, <1>7
    <3> HIDE DEF L
    <3>2. n + 1 = L
      BY <3>1
    <3> QED BY <3>2 DEF L
  <2>2. /\ sysex_index' = [sysex_index EXCEPT !["usb"] = 0] /\ UNCHANGED sysex_command
    BY <1>1, <1>4, <2>1
  <2>3. /\ sysex_index' \in [Devices -> Byte] /\ sysex_index'["usb"] = 0
        /\ sysex_index'["serial"] = sysex_index["serial"]
    BY <1>5, <2>2, Numbers
  <2>4. eeprom' = meant
    <3>1. ~ (Len(m) >= 8)
      <4> DEFINE L == Len(m)
      <4>1. n + 1 = L /\ n = 6
        BY <1>2, <2>1
      <4> HIDE DEF L
      <4>2. ~ (L >= 8)
        BY <4>1
      <4> QED BY <4>2 DEF L
    <3>2. ~ IsCommand(m, 0) /\ ~ IsCommand(m, 2)
      BY <3>1, CommandBytes
    <3> QED BY <1>1, <1>2, <1>3, <3>2, MeansNothing
  <2> QED BY <1>1, <1>2, <1>5, <1>7, <2>2, <2>3, <2>4 DEF Result, TypeOK
<1> QED BY <1>6, <1>7

\* Behind the command byte.
LEMMA InDataFacts ==
  ASSUME NEW m \in UsbMessages, NEW n \in Nat, n < Len(m), Taken(m, n), InData("usb")
  PROVE  /\ n >= 7 /\ HasHeader(m, 6) /\ sysex_index["usb"] = n /\ Place("usb") = n - 7
         /\ n = 7 \/ m[7] \in {0, 1, 2}
         /\ sysex_command["usb"] = m[7] /\ meant = Meaning(m, before)
         /\ m[n + 1] = SYSEX_END <=> n + 1 = Len(m)
         /\ Len(m) \in Nat /\ Len(m) >= 8 /\ Len(m) <= 256
         /\ m[n + 1] \in Byte
<1>1. sysex_index["usb"] = IndexAt(m, n) /\ sysex_index["usb"] > 6
  BY DEF Taken, InData, ML_HEADER_LEN
<1>2. n >= 7 /\ HasHeader(m, 6) /\ sysex_index["usb"] = n /\ (n = 7 \/ m[7] \in {0, 1, 2})
  BY <1>1 DEF IndexAt
<1>3. m[1] = SYSEX_BEGIN
  BY <1>2, HeaderBytes DEF HasHeader, SYSEX_BEGIN
<1>4. /\ Len(m) \in Nat /\ Len(m) >= 8 /\ Len(m) <= 256 /\ n + 1 \in 2..Len(m) /\ n + 1 \in 1..Len(m)
  BY <1>2, <1>3, MessageBytes
<1>5. (m[n + 1] = SYSEX_END <=> n + 1 = Len(m)) /\ m[n + 1] \in Byte
  BY <1>3, <1>4, MessageBytes
<1> QED BY <1>2, <1>4, <1>5 DEF Taken, Place, ML_HEADER_LEN

\* The index of the commands 0, 1 and 2.
LEMMA AdvanceFacts ==
  ASSUME TypeOK, NEW m \in UsbMessages, NEW n \in Nat, n < Len(m), Taken(m, n), InData("usb"),
         Advance("usb", m[n + 1]), m[7] \in {0, 1, 2}
  PROVE  /\ sysex_index' \in [Devices -> Byte] /\ sysex_index'["serial"] = sysex_index["serial"]
         /\ sysex_index'["usb"] = IF n + 1 < Len(m) THEN IndexAt(m, n + 1) ELSE 0
<1> DEFINE y == IF n + 1 < Len(m) THEN n + 1 ELSE 0
<1>1. /\ n >= 7 /\ HasHeader(m, 6) /\ sysex_index["usb"] = n
      /\ m[n + 1] = SYSEX_END <=> n + 1 = Len(m)
      /\ Len(m) \in Nat /\ Len(m) <= 256
  BY InDataFacts
<1>2. sysex_index' = [sysex_index EXCEPT !["usb"] = y]
  <2>1. n + 1 < Len(m) => (n + 1) % 256 = n + 1
    BY <1>1
  <2>2. sysex_index' = [sysex_index EXCEPT !["usb"] =
                         IF m[n + 1] = SYSEX_END THEN 0 ELSE (n + 1) % 256]
    BY <1>1 DEF Advance, To
  <2>3. (IF m[n + 1] = SYSEX_END THEN 0 ELSE (n + 1) % 256) = y
    <3>1. CASE n + 1 = Len(m)
      BY <1>1, <3>1
    <3>2. CASE n + 1 # Len(m)
      <4>1. n + 1 < Len(m)
        BY <1>1, <3>2
      <4> QED BY <1>1, <2>1, <3>2, <4>1
    <3> QED BY <3>1, <3>2
  <2> QED BY <2>2, <2>3
<1>3. y \in Byte
  <2>1. y \in Int /\ 0 <= y /\ y <= 255
    BY <1>1
  <2> QED BY <2>1, IndexSmall
<1>4. sysex_index \in [Devices -> Byte]
  BY DEF TypeOK
<1>5. IndexAt(m, n + 1) = n + 1
  BY <1>1 DEF IndexAt
<1> HIDE DEF y
<1>6. /\ sysex_index' \in [Devices -> Byte] /\ sysex_index'["serial"] = sysex_index["serial"]
      /\ sysex_index'["usb"] = y
  BY <1>2, <1>3, <1>4, Numbers
<1> QED BY <1>5, <1>6 DEF y

LEMMA ResetStep ==
  ASSUME TypeOK, pc = "running", UNCHANGED history,
         NEW m \in UsbMessages, NEW n \in Nat, n < Len(m), Taken(m, n),
         ResetByte("usb", m[n + 1])
  PROVE  Result(m, n)
<1>1. /\ InData("usb") /\ sysex_command["usb"] = 0
      /\ pc' = (IF m[n + 1] = SYSEX_END THEN "default" ELSE pc)
      /\ Advance("usb", m[n + 1]) /\ UNCHANGED <<eeprom, sysex_command, eeprom_offset, currdata>>
  BY DEF ResetByte, shared
<1>2. /\ n >= 7 /\ HasHeader(m, 6) /\ sysex_command["usb"] = m[7] /\ meant = Meaning(m, before)
      /\ m[n + 1] = SYSEX_END <=> n + 1 = Len(m)
      /\ Len(m) \in Nat /\ Len(m) >= 8
  BY <1>1, InDataFacts
<1>3. /\ sysex_index' \in [Devices -> Byte] /\ sysex_index'["serial"] = sysex_index["serial"]
      /\ sysex_index'["usb"] = IF n + 1 < Len(m) THEN IndexAt(m, n + 1) ELSE 0
  BY <1>1, <1>2, AdvanceFacts
<1>4. m[7] = 0 /\ ~ Writing(m, n) /\ ~ Writing(m, n + 1) /\ eeprom = before
  BY <1>1, <1>2 DEF Writing, Taken
<1>5. CASE n + 1 < Len(m)
  <2>1. n + 1 # Len(m)
    BY <1>2, <1>5
  <2>2. Taken(m, n + 1)'
    BY <1>1, <1>2, <1>3, <1>4, <1>5 DEF Taken, history
  <2> QED BY <1>1, <1>2, <1>3, <1>5, <2>1, <2>2 DEF Result, TypeOK
<1>6. CASE ~ (n + 1 < Len(m))
  <2>1. n + 1 = Len(m)
    BY <1>2, <1>6
  <2>2. meant = WithDefaults(before)
    BY <1>2, <1>4, CommandBytes DEF Meaning
  <2> QED BY <1>1, <1>2, <1>3, <1>4, <1>6, <2>1, <2>2 DEF Result, TypeOK
<1> QED BY <1>5, <1>6

LEMMA PicStep ==
  ASSUME TypeOK, pc = "running", UNCHANGED history,
         NEW m \in UsbMessages, NEW n \in Nat, n < Len(m), Taken(m, n),
         PicByte("usb", m[n + 1])
  PROVE  Result(m, n)
<1>1. /\ InData("usb") /\ sysex_command["usb"] = 1
      /\ Advance("usb", m[n + 1]) /\ UNCHANGED <<eeprom, sysex_command, eeprom_offset, currdata, pc>>
  BY DEF PicByte, shared
<1>2. /\ n >= 7 /\ HasHeader(m, 6) /\ sysex_command["usb"] = m[7] /\ meant = Meaning(m, before)
      /\ Len(m) \in Nat
  BY <1>1, InDataFacts
<1>3. /\ sysex_index' \in [Devices -> Byte] /\ sysex_index'["serial"] = sysex_index["serial"]
      /\ sysex_index'["usb"] = IF n + 1 < Len(m) THEN IndexAt(m, n + 1) ELSE 0
  BY <1>1, <1>2, AdvanceFacts
<1>4. m[7] = 1 /\ ~ Writing(m, n) /\ ~ Writing(m, n + 1) /\ eeprom = before
  BY <1>1, <1>2 DEF Writing, Taken
<1>5. eeprom = meant
  BY <1>2, <1>4, CommandBytes, MeansNothing
<1>6. n + 1 < Len(m) => Taken(m, n + 1)'
  BY <1>1, <1>2, <1>3, <1>4 DEF Taken, history
<1> QED BY <1>1, <1>3, <1>5, <1>6 DEF Result, TypeOK

LEMMA OtherStep ==
  ASSUME TypeOK, pc = "running", UNCHANGED history,
         NEW m \in UsbMessages, NEW n \in Nat, n < Len(m), Taken(m, n),
         OtherByte("usb", m[n + 1])
  PROVE  Result(m, n)
<1>1. /\ InData("usb") /\ sysex_command["usb"] \notin {0, 1, 2}
      /\ sysex_index' = [sysex_index EXCEPT !["usb"] = 0]
      /\ UNCHANGED <<eeprom, sysex_command, eeprom_offset, currdata, pc>>
  BY DEF OtherByte, shared, To
<1>2. /\ n = 7 /\ HasHeader(m, 6) /\ sysex_command["usb"] = m[7] /\ meant = Meaning(m, before)
      /\ Len(m) \in Nat
  BY <1>1, InDataFacts
<1>3. /\ sysex_index' \in [Devices -> Byte] /\ sysex_index'["serial"] = sysex_index["serial"]
      /\ sysex_index'["usb"] = 0
  BY <1>1, Numbers DEF TypeOK
<1>4. m[7] \notin {0, 1, 2} /\ ~ Writing(m, n) /\ ~ Writing(m, 8) /\ eeprom = before
  BY <1>1, <1>2 DEF Writing, Taken
<1>5. eeprom = meant
  BY <1>2, <1>4, CommandBytes, MeansNothing
<1>6. IndexAt(m, 8) = 0
  BY <1>4 DEF IndexAt
<1>7. Taken(m, 8)'
  BY <1>1, <1>2, <1>3, <1>4, <1>6 DEF Taken, history
<1> QED BY <1>1, <1>2, <1>3, <1>5, <1>7 DEF Result, TypeOK

LEMMA NibblesLow ==
  ASSUME NEW c \in Digit, NEW d \in Digit
  PROVE  Nibbles(0, 0, c, d) = 16 * c + d
BY DEF Nibbles, Digit

LEMMA Shifted ==
  ASSUME NEW b \in Digit
  PROVE  /\ (b * 16^3) % (WordMax + 1) = Nibbles(b, 0, 0, 0)
         /\ (b * 16^2) % (WordMax + 1) = Nibbles(0, b, 0, 0)
         /\ (b * 16^1) % (WordMax + 1) = Nibbles(0, 0, b, 0)
         /\ (b * 16^0) % (WordMax + 1) = Nibbles(0, 0, 0, b)
         /\ (b * 16) % 256 = Nibbles(0, 0, b, 0)
BY DEF Nibbles, WordMax, Digit

\* The first four data bytes of a write.
LEMMA AddressStep ==
  ASSUME TypeOK, pc = "running", UNCHANGED history,
         NEW m \in UsbMessages, NEW n \in Nat, n < Len(m), Taken(m, n),
         AddressByte("usb", m[n + 1])
  PROVE  Result(m, n)
<1> DEFINE b == m[n + 1]
<1>1. /\ InData("usb") /\ sysex_command["usb"] = 2 /\ Place("usb") < 4
      /\ eeprom_offset' = BitOr(IF Place("usb") = 0 THEN 0 ELSE eeprom_offset,
                                (b * 16^(3 - Place("usb"))) % (WordMax + 1))
      /\ Advance("usb", m[n + 1]) /\ UNCHANGED <<eeprom, sysex_command, currdata, pc>>
  BY DEF AddressByte
<1>2. /\ n >= 7 /\ HasHeader(m, 6) /\ sysex_command["usb"] = m[7] /\ meant = Meaning(m, before)
      /\ Place("usb") = n - 7 /\ Len(m) \in Nat /\ Len(m) >= 8
  BY <1>1, InDataFacts
<1>3. /\ sysex_index' \in [Devices -> Byte] /\ sysex_index'["serial"] = sysex_index["serial"]
      /\ sysex_index'["usb"] = IF n + 1 < Len(m) THEN IndexAt(m, n + 1) ELSE 0
  BY <1>1, <1>2, AdvanceFacts
<1>4. m[7] = 2 /\ n <= 10 /\ Len(m) >= 12 /\ n + 1 < Len(m)
  <2>1. m[7] = 2 /\ n - 7 < 4
    BY <1>1, <1>2
  <2>2. Len(m) >= 12
    BY <1>2, <2>1, WriteBytes
  <2> QED BY <1>2, <2>1, <2>2
<1>5. eeprom_offset' \in Word
  BY <1>1, BitOrWord
<1>6. Writing(m, n + 1) <=> Writing(m, n)
  BY <1>2 DEF Writing
<1>7. ASSUME Writing(m, n) PROVE WriteInv(m, n + 1)'
  <2>1. WriteInv(m, n) /\ Count(m) > 0
    BY <1>7 DEF Taken, Writing
  <2>2. /\ m[8] \in Digit /\ m[9] \in Digit /\ m[10] \in Digit /\ m[11] \in Digit
        /\ Base(m) = Nibbles(m[8], m[9], m[10], m[11])
    <3>1. /\ \A i \in 8..(Len(m) - 1) : m[i] \in Digit
          /\ Base(m) = Nibbles(m[8], m[9], m[10], m[11])
      BY <1>2, <1>4, <2>1, WriteBytes
    <3>2. 8 \in 8..(Len(m) - 1) /\ 9 \in 8..(Len(m) - 1) /\ 10 \in 8..(Len(m) - 1) /\ 11 \in 8..(Len(m) - 1)
      BY <1>2, <1>4
    <3> QED BY <3>1, <3>2
  <2>3. \A a \in Addr : eeprom'[a] = StoredAt(m, n + 1, a)'
    <3>1. Stored(n) = 0 /\ Stored(n + 1) = 0
      BY <1>2, <1>4 DEF Stored
    <3>2. \A a \in Addr : StoredAt(m, n, a) = before[a] /\ StoredAt(m, n + 1, a)' = before'[a]
      BY <3>1 DEF StoredAt
    <3> QED BY <1>1, <2>1, <3>2 DEF WriteInv, history
  <2>4. /\ n = 7 => eeprom_offset' = Nibbles(m[8], 0, 0, 0)
        /\ n = 8 => eeprom_offset' = Nibbles(m[8], m[9], 0, 0)
        /\ n = 9 => eeprom_offset' = Nibbles(m[8], m[9], m[10], 0)
        /\ n = 10 => eeprom_offset' = Base(m)
    <3>1. ASSUME n = 7 PROVE eeprom_offset' = Nibbles(m[8], 0, 0, 0)
      <4>1. eeprom_offset' = BitOr(0, (m[8] * 16^3) % (WordMax + 1))
        <5>1. Place("usb") = 0 /\ 3 - Place("usb") = 3 /\ n + 1 = 8
          BY <1>2, <3>1
        <5> QED BY <1>1, <5>1, Zenon
      <4> QED BY <2>2, <4>1, Shifted, BitOrNibbles
    <3>2. ASSUME n = 8 PROVE eeprom_offset' = Nibbles(m[8], m[9], 0, 0)
      <4>1. eeprom_offset' = BitOr(Nibbles(m[8], 0, 0, 0), (m[9] * 16^2) % (WordMax + 1))
        <5>1. Place("usb") # 0 /\ 3 - Place("usb") = 2 /\ n + 1 = 9 /\ eeprom_offset = Nibbles(m[8], 0, 0, 0)
          BY <1>2, <2>1, <3>2 DEF WriteInv
        <5> QED BY <1>1, <5>1, Zenon
      <4> QED BY <2>2, <4>1, Shifted, BitOrNibbles
    <3>3. ASSUME n = 9 PROVE eeprom_offset' = Nibbles(m[8], m[9], m[10], 0)
      <4>1. eeprom_offset' = BitOr(Nibbles(m[8], m[9], 0, 0), (m[10] * 16^1) % (WordMax + 1))
        <5>1. Place("usb") # 0 /\ 3 - Place("usb") = 1 /\ n + 1 = 10 /\ eeprom_offset = Nibbles(m[8], m[9], 0, 0)
          BY <1>2, <2>1, <3>3 DEF WriteInv
        <5> QED BY <1>1, <5>1, Zenon
      <4> QED BY <2>2, <4>1, Shifted, BitOrNibbles
    <3>4. ASSUME n = 10 PROVE eeprom_offset' = Base(m)
      <4>1. eeprom_offset' = BitOr(Nibbles(m[8], m[9], m[10], 0), (m[11] * 16^0) % (WordMax + 1))
        <5>1. Place("usb") # 0 /\ 3 - Place("usb") = 0 /\ n + 1 = 11 /\ eeprom_offset = Nibbles(m[8], m[9], m[10], 0)
          BY <1>2, <2>1, <3>4 DEF WriteInv
        <5> QED BY <1>1, <5>1, Zenon
      <4> QED BY <2>2, <4>1, Shifted, BitOrNibbles
    <3> QED BY <3>1, <3>2, <3>3, <3>4
  <2> QED BY <1>2, <1>4, <2>3, <2>4 DEF WriteInv
<1>8. ~ Writing(m, n) => eeprom' = before
  BY <1>1 DEF Taken
<1>9. Taken(m, n + 1)'
  BY <1>1, <1>2, <1>3, <1>4, <1>6, <1>7, <1>8 DEF Taken, history
<1> QED BY <1>1, <1>3, <1>4, <1>5, <1>9 DEF Result, TypeOK

\* What a write means for one address.
LEMMA WrittenAt ==
  ASSUME NEW m \in UsbMessages, HasHeader(m, 6), m[7] = 2, Len(m) >= 8, NEW e, NEW a \in Addr
  PROVE  Written(m, e)[a] =
           IF a - Base(m) \in 0..(Count(m) - 1)
           THEN 16 * m[12 + 2 * (a - Base(m))] + m[13 + 2 * (a - Base(m))] ELSE e[a]
<1>1. /\ Count(m) \in Nat /\ Len(m) = 12 + 2 * Count(m) /\ Len(m) \in Nat
      /\ \A i \in 1..(Len(m) - 8) : Data(m)[i] = m[i + 7]
  BY WriteBytes, MessageBytes
<1> DEFINE k == a - Base(m)
<1>2. Written(m, e)[a] = IF k \in 0..(Count(m) - 1) THEN 16 * Data(m)[6 + 2 * k - 1] + Data(m)[6 + 2 * k]
                         ELSE e[a]
  BY DEF Written
<1> HIDE DEF k
<1>3. ASSUME k \in 0..(Count(m) - 1)
      PROVE  Data(m)[6 + 2 * k - 1] = m[12 + 2 * k] /\ Data(m)[6 + 2 * k] = m[13 + 2 * k]
  <2>1. /\ 6 + 2 * k - 1 \in 1..(Len(m) - 8) /\ 6 + 2 * k - 1 + 7 = 12 + 2 * k
        /\ 6 + 2 * k \in 1..(Len(m) - 8) /\ 6 + 2 * k + 7 = 13 + 2 * k
    BY <1>1, <1>3
  <2> QED BY <1>1, <2>1
<1> QED BY <1>2, <1>3 DEF k

LEMMA MeaningType ==
  ASSUME NEW m \in UsbMessages, NEW e \in [Addr -> Byte]
  PROVE  Meaning(m, e) \in [Addr -> Byte]
<1>1. CASE IsCommand(m, 0)
  BY <1>1, WithDefaultsType DEF Meaning
<1>2. CASE IsCommand(m, 2) /\ ~ IsCommand(m, 0)
  <2>1. Len(m) >= 8 /\ HasHeader(m, 6) /\ m[7] = 2
    BY <1>2, CommandBytes
  <2>2. ASSUME NEW a \in Addr PROVE Written(m, e)[a] \in Byte
    <3>1. CASE a - Base(m) \in 0..(Count(m) - 1)
      <4> DEFINE i == 12 + 2 * (a - Base(m))
                 j == 13 + 2 * (a - Base(m))
      <4>1. /\ Count(m) \in Nat /\ Len(m) = 12 + 2 * Count(m)
            /\ Count(m) > 0 => \A x \in 8..(Len(m) - 1) : m[x] \in Digit
        BY <2>1, WriteBytes
      <4>2. i \in 8..(Len(m) - 1) /\ j \in 8..(Len(m) - 1) /\ Count(m) > 0
        BY <3>1, <4>1
      <4>3. m[i] \in Digit /\ m[j] \in Digit
        BY <4>1, <4>2
      <4>4. Written(m, e)[a] = 16 * m[i] + m[j]
        BY <2>1, <3>1, WrittenAt
      <4> HIDE DEF i, j
      <4>5. 0 \in Digit
        BY DEF Digit
      <4>6. /\ Nibbles(0, 0, m[i], m[j]) \in Int /\ 0 <= Nibbles(0, 0, m[i], m[j])
            /\ Nibbles(0, 0, m[i], m[j]) <= 255
        BY <4>3, <4>5, NibblesRange
      <4> QED BY <4>3, <4>4, <4>6, NibblesLow, IndexSmall
    <3>2. CASE ~ (a - Base(m) \in 0..(Count(m) - 1))
      BY <2>1, <3>2, WrittenAt
    <3> QED BY <3>1, <3>2
  <2>3. Written(m, e) \in [Addr -> Byte]
    BY <2>2 DEF Written
  <2> QED BY <1>2, <2>3 DEF Meaning
<1>3. CASE ~ IsCommand(m, 0) /\ ~ IsCommand(m, 2)
  BY <1>3 DEF Meaning
<1> QED BY <1>1, <1>2, <1>3

\* A high half of a write, or the end of one.
LEMMA HighStep ==
  ASSUME TypeOK, pc = "running", UNCHANGED history,
         NEW m \in UsbMessages, NEW n \in Nat, n < Len(m), Taken(m, n),
         HighByte("usb", m[n + 1])
  PROVE  Result(m, n)
<1> DEFINE b == m[n + 1]
<1>1. /\ InData("usb") /\ sysex_command["usb"] = 2 /\ Place("usb") >= 4 /\ Place("usb") % 2 = 0
      /\ currdata' = (b * 16) % 256
      /\ Advance("usb", m[n + 1]) /\ UNCHANGED <<eeprom, sysex_command, eeprom_offset, pc>>
  BY DEF HighByte
<1>2. /\ n >= 7 /\ HasHeader(m, 6) /\ sysex_command["usb"] = m[7] /\ meant = Meaning(m, before)
      /\ Place("usb") = n - 7 /\ Len(m) \in Nat /\ Len(m) >= 8 /\ b \in Byte
  BY <1>1, InDataFacts
<1>3. /\ sysex_index' \in [Devices -> Byte] /\ sysex_index'["serial"] = sysex_index["serial"]
      /\ sysex_index'["usb"] = IF n + 1 < Len(m) THEN IndexAt(m, n + 1) ELSE 0
  BY <1>1, <1>2, AdvanceFacts
<1>4. m[7] = 2 /\ Count(m) \in Nat /\ Len(m) = 12 + 2 * Count(m)
  BY <1>1, <1>2, WriteBytes
<1>5. currdata' \in Byte
  <2>1. b \in Int /\ 0 <= b
    BY <1>2, ByteRange
  <2> HIDE DEF b
  <2>2. (b * 16) % 256 \in Int /\ 0 <= (b * 16) % 256 /\ (b * 16) % 256 <= 255
    BY <2>1
  <2> QED BY <1>1, <2>2, ByteRange
<1>6. n >= 11 /\ (n - 11) % 2 = 0
  <2>1. n - 7 >= 4 /\ (n - 7) % 2 = 0
    BY <1>1, <1>2
  <2> QED BY <2>1
<1>7. CASE n + 1 < Len(m)
  <2>1. Count(m) > 0
    BY <1>4, <1>6, <1>7
  <2>2. Writing(m, n) /\ Writing(m, n + 1) /\ WriteInv(m, n)
    BY <1>2, <1>4, <2>1 DEF Writing, Taken
  <2>3. b \in Digit
    <3>1. n + 1 \in 8..(Len(m) - 1)
      BY <1>2, <1>6, <1>7
    <3> QED BY <1>2, <1>4, <2>1, <3>1, WriteBytes
  <2>4. currdata' = Nibbles(0, 0, m[n + 1], 0)
    BY <1>1, <2>3, Shifted
  <2>5. \A a \in Addr : eeprom'[a] = StoredAt(m, n + 1, a)'
    <3>1. Stored(n + 1) = Stored(n)
      BY <1>6 DEF Stored
    <3> QED BY <1>1, <2>2, <3>1 DEF WriteInv, StoredAt, history
  <2>6. eeprom_offset' = Base(m)
    BY <1>1, <1>6, <2>2 DEF WriteInv
  <2>7. WriteInv(m, n + 1)'
    BY <1>6, <2>4, <2>5, <2>6 DEF WriteInv
  <2>8. Taken(m, n + 1)'
    BY <1>1, <1>2, <1>3, <1>7, <2>2, <2>7 DEF Taken, history
  <2> QED BY <1>1, <1>3, <1>5, <1>7, <2>8 DEF Result, TypeOK
<1>8. CASE ~ (n + 1 < Len(m))
  <2>1. n + 1 = Len(m)
    BY <1>2, <1>8
  <2>2. Stored(n) = Count(m)
    <3>1. n = 11 + 2 * Count(m)
      BY <1>4, <2>1
    <3> QED BY <1>4, <3>1 DEF Stored
  <2>3. before \in [Addr -> Byte] /\ meant \in [Addr -> Byte] /\ eeprom \in [Addr -> Byte]
    BY DEF TypeOK
  <2>4. ASSUME NEW a \in Addr PROVE eeprom[a] = meant[a]
    <3>1. /\ a - Base(m) \in 0..(Count(m) - 1) =>
                 meant[a] = 16 * m[12 + 2 * (a - Base(m))] + m[13 + 2 * (a - Base(m))]
          /\ ~ (a - Base(m) \in 0..(Count(m) - 1)) => meant[a] = before[a]
      <4>1. Len(m) >= 8 /\ HasHeader(m, 6) /\ m[7] = 2
        BY <1>2, <1>4
      <4>2. meant = Written(m, before)
        BY <1>2, <4>1, CommandBytes DEF Meaning
      <4> QED BY <4>1, <4>2, WrittenAt
    <3>2. CASE Writing(m, n)
      <4>1. eeprom[a] = StoredAt(m, n, a)
        BY <3>2 DEF Taken, WriteInv
      <4> QED BY <2>2, <3>1, <4>1 DEF StoredAt
    <3>3. CASE ~ Writing(m, n)
      <4>1. eeprom = before /\ Count(m) = 0
        BY <1>2, <1>4, <3>3 DEF Taken, Writing
      <4>2. ~ (a - Base(m) \in 0..(Count(m) - 1))
        BY <4>1
      <4> QED BY <3>1, <4>1, <4>2
    <3> QED BY <3>2, <3>3
  <2>5. eeprom = meant
    BY <2>3, <2>4
  <2> QED BY <1>1, <1>3, <1>5, <1>8, <2>5 DEF Result, TypeOK
<1> QED BY <1>7, <1>8

\* A low half of a write: the byte is stored.
LEMMA LowStep ==
  ASSUME TypeOK, pc = "running", UNCHANGED history,
         NEW m \in UsbMessages, NEW n \in Nat, n < Len(m), Taken(m, n),
         LowByte("usb", m[n + 1])
  PROVE  Result(m, n)
<1> DEFINE b == m[n + 1]
           k == (n - 12) \div 2
<1>1. /\ InData("usb") /\ sysex_command["usb"] = 2 /\ Place("usb") >= 4 /\ Place("usb") % 2 = 1
      /\ currdata' = BitOr(currdata, b)
      /\ eeprom' = [eeprom EXCEPT ![(eeprom_offset + ((Place("usb") - 4) \div 2)) % EepromSize] = currdata']
      /\ Advance("usb", m[n + 1]) /\ UNCHANGED <<sysex_command, eeprom_offset, pc>>
  BY DEF LowByte
<1>2. /\ n >= 7 /\ HasHeader(m, 6) /\ sysex_command["usb"] = m[7] /\ meant = Meaning(m, before)
      /\ Place("usb") = n - 7 /\ Len(m) \in Nat /\ Len(m) >= 8 /\ b \in Byte
  BY <1>1, InDataFacts
<1>3. /\ sysex_index' \in [Devices -> Byte] /\ sysex_index'["serial"] = sysex_index["serial"]
      /\ sysex_index'["usb"] = IF n + 1 < Len(m) THEN IndexAt(m, n + 1) ELSE 0
  BY <1>1, <1>2, AdvanceFacts
<1>4. m[7] = 2 /\ Count(m) \in Nat /\ Len(m) = 12 + 2 * Count(m)
  BY <1>1, <1>2, WriteBytes
<1>5. k \in Nat /\ n = 12 + 2 * k /\ (Place("usb") - 4) \div 2 = k
  <2>1. n - 7 >= 4 /\ (n - 7) % 2 = 1
    BY <1>1, <1>2
  <2>2. (n - 7) - 4 = n - 11
    OBVIOUS
  <2>3. k \in Nat /\ n = 12 + 2 * k /\ (n - 11) \div 2 = k
    BY <2>1
  <2> QED BY <1>2, <2>2, <2>3
<1> HIDE DEF k
<1>6. n + 1 < Len(m) /\ k < Count(m)
  <2> DEFINE c == Count(m)
             L == Len(m)
  <2>1. c \in Nat /\ L = 12 + 2 * c /\ n < L /\ k \in Nat /\ n = 12 + 2 * k
    BY <1>4, <1>5
  <2> HIDE DEF c, L
  <2>2. n + 1 < L /\ k < c
    BY <2>1
  <2> QED BY <2>2 DEF c, L
<1>7. Writing(m, n) /\ Writing(m, n + 1) /\ WriteInv(m, n) /\ Count(m) > 0
  BY <1>2, <1>4, <1>5, <1>6 DEF Writing, Taken
<1>8. b \in Digit /\ m[n] \in Digit /\ Base(m) \in Nat /\ Base(m) + Count(m) <= EepromSize
  <2>1. n \in 8..(Len(m) - 1) /\ n + 1 \in 8..(Len(m) - 1)
    BY <1>4, <1>5, <1>6
  <2> QED BY <1>2, <1>4, <1>7, <2>1, WriteBytes
<1>9. eeprom_offset = Base(m) /\ currdata = Nibbles(0, 0, m[n], 0)
  <2>1. n >= 11 /\ n >= 12 /\ n % 2 = 0
    BY <1>5
  <2> QED BY <1>7, <2>1 DEF WriteInv
<1>10. currdata' = 16 * m[n] + b /\ currdata' \in Byte
  <2>1. currdata' = Nibbles(0, 0, m[n], b)
    <3>1. b = Nibbles(0, 0, 0, b) /\ 0 \in Digit
      BY <1>8 DEF Nibbles, Digit
    <3> QED BY <1>1, <1>8, <1>9, <3>1, BitOrNibbles
  <2> HIDE DEF b
  <2>2. Nibbles(0, 0, m[n], b) = 16 * m[n] + b
    BY <1>8, NibblesLow
  <2>3. currdata \in Byte
    BY DEF TypeOK
  <2> QED BY <1>1, <1>2, <2>1, <2>2, <2>3, BitOrByte
<1>11. Base(m) + k \in Addr /\ (Base(m) + k) % EepromSize = Base(m) + k
  <2>1. EepromSize \in Nat /\ EepromSize >= 1 /\ Base(m) + k \in Nat /\ Base(m) + k < EepromSize
    <3> DEFINE c == Count(m)
               e == Base(m)
    <3>1. c \in Nat /\ k \in Nat /\ k < c /\ e \in Nat /\ e + c <= EepromSize /\ EepromSize \in Nat
      BY <1>4, <1>5, <1>6, <1>8, Numbers
    <3> HIDE DEF c, e
    <3>2. EepromSize >= 1 /\ e + k \in Nat /\ e + k < EepromSize
      BY <3>1
    <3> QED BY <3>1, <3>2 DEF e
  <2> DEFINE i == Base(m) + k
  <2> HIDE DEF i
  <2>2. i \in Nat /\ i < EepromSize /\ EepromSize \in Nat /\ EepromSize >= 1
    BY <2>1 DEF i
  <2>3. i \in Addr /\ i % EepromSize = i
    BY <2>2 DEF Addr
  <2> QED BY <2>3 DEF i
<1>12. eeprom' = [eeprom EXCEPT ![Base(m) + k] = currdata']
  BY <1>1, <1>5, <1>9, <1>11
<1>13. eeprom \in [Addr -> Byte] /\ eeprom' \in [Addr -> Byte]
  BY <1>10, <1>11, <1>12 DEF TypeOK
<1>14. \A a \in Addr : eeprom'[a] = StoredAt(m, n + 1, a)'
  <2> SUFFICES ASSUME NEW a \in Addr PROVE eeprom'[a] = StoredAt(m, n + 1, a)'
    OBVIOUS
  <2>1. Stored(n) = k /\ Stored(n + 1) = k + 1
    BY <1>5 DEF Stored
  <2>2. eeprom[a] = StoredAt(m, n, a)
    BY <1>7 DEF WriteInv
  <2>3. a \in Int /\ k \in Int /\ Base(m) \in Int
    BY <1>5, <1>8, Numbers DEF Addr
  <2>4. CASE a = Base(m) + k
    <3>1. eeprom'[a] = 16 * m[n] + m[n + 1]
      BY <1>10, <1>11, <1>12, <1>13, <2>4
    <3>2. a - Base(m) = k /\ k \in 0..((k + 1) - 1) /\ 12 + 2 * k = n /\ 13 + 2 * k = n + 1
      BY <1>5, <2>3, <2>4
    <3> QED BY <2>1, <3>1, <3>2 DEF StoredAt
  <2>5. CASE a # Base(m) + k
    <3>1. eeprom'[a] = eeprom[a]
      BY <1>11, <1>12, <1>13, <2>5
    <3>2. a - Base(m) \in 0..(k - 1) <=> a - Base(m) \in 0..((k + 1) - 1)
      BY <2>3, <2>5
    <3> QED BY <2>1, <2>2, <3>1, <3>2 DEF StoredAt, history
  <2> QED BY <2>4, <2>5
<1>15. WriteInv(m, n + 1)'
  <2>1. n + 1 >= 13 /\ (n + 1) % 2 = 1
    BY <1>5
  <2> QED BY <1>1, <1>9, <1>14, <2>1 DEF WriteInv
<1>16. Taken(m, n + 1)'
  BY <1>1, <1>2, <1>3, <1>6, <1>7, <1>15 DEF Taken, history
<1> QED BY <1>1, <1>3, <1>6, <1>10, <1>13, <1>16 DEF Result, TypeOK

LEMMA UsbByteInv == IInv /\ UsbByte => IInv'
<1> SUFFICES ASSUME IInv, UsbByte PROVE IInv'
  OBVIOUS
<1> DEFINE s == coming["usb"]
           t == coming'["usb"]
<1>0. TypeOK /\ SerialInv /\ RunInv /\ "usb" \in Devices /\ "serial" \in Devices /\ NextByte("usb")
  BY Numbers DEF IInv, UsbByte
<1>1. /\ pc = "running" /\ UNCHANGED <<written, history, budget, cuts>>
      /\ s \in Seq(Byte) /\ s # <<>> /\ t \in Seq(Byte) /\ Len(t) = Len(s) - 1
      /\ coming' \in [Devices -> Seq(Byte)]
      /\ \A i \in 1..Len(t) : t[i] = s[i + 1]
      /\ coming'["serial"] = coming["serial"]
      /\ midi_check_sysex("usb", s[1])
  BY <1>0, ByteFrame
<1>2. PICK m \in UsbMessages, n \in Nat : Sent(m, n) /\ Taken(m, n)
  BY <1>0, <1>1 DEF RunInv
<1>3. /\ n < Len(m) /\ Len(m) \in Nat /\ Len(s) = Len(m) - n
      /\ \A i \in 1..(Len(m) - n) : s[i] = m[n + i]
  BY <1>2, MessageBytes DEF Sent
<1>4. midi_check_sysex("usb", m[n + 1])
  <2>1. 1 \in 1..(Len(m) - n)
    BY <1>3
  <2>2. s[1] = m[n + 1]
    BY <1>3, <2>1
  <2> QED BY <1>1, <2>2
<1>5. Result(m, n)
  <2>1. TypeOK /\ pc = "running" /\ UNCHANGED history /\ n < Len(m) /\ Taken(m, n)
    BY <1>0, <1>1, <1>2, <1>3
  <2>2. CASE HeaderByte("usb", m[n + 1])
    BY <2>1, <2>2, HeaderStep
  <2>3. CASE CommandByte("usb", m[n + 1])
    BY <2>1, <2>3, CommandStep
  <2>4. CASE ResetByte("usb", m[n + 1])
    BY <2>1, <2>4, ResetStep
  <2>5. CASE AddressByte("usb", m[n + 1])
    BY <2>1, <2>5, AddressStep
  <2>6. CASE HighByte("usb", m[n + 1])
    BY <2>1, <2>6, HighStep
  <2>7. CASE LowByte("usb", m[n + 1])
    BY <2>1, <2>7, LowStep
  <2>8. CASE PicByte("usb", m[n + 1])
    BY <2>1, <2>8, PicStep
  <2>9. CASE OtherByte("usb", m[n + 1])
    BY <2>1, <2>9, OtherStep
  <2> QED BY <1>4, <2>2, <2>3, <2>4, <2>5, <2>6, <2>7, <2>8, <2>9 DEF midi_check_sysex
<1>6. /\ sysex_index' \in [Devices -> Byte] /\ sysex_index'["serial"] = sysex_index["serial"]
      /\ sysex_command' \in [Devices -> Byte]
      /\ eeprom' \in [Addr -> Byte] /\ eeprom_offset' \in Word /\ currdata' \in Byte
      /\ pc' = "running" \/ pc' = "default"
  BY <1>5 DEF Result
<1>7. TypeOK'
  BY <1>0, <1>1, <1>6 DEF TypeOK, history
<1>8. SerialInv'
  BY <1>0, <1>1, <1>6 DEF SerialInv
<1>9. OffInv'
  BY <1>6 DEF OffInv
<1>10. written = 0
  BY <1>0, <1>1 DEF RunInv
<1>11. CASE n + 1 < Len(m)
  <2>1. pc' = "running" /\ Taken(m, n + 1)'
    BY <1>5, <1>11 DEF Result
  <2>2. Len(t) = Len(m) - (n + 1) /\ t # <<>>
    BY <1>1, <1>3, <1>11
  <2>3. \A i \in 1..(Len(m) - (n + 1)) : t[i] = m[(n + 1) + i]
    <3> SUFFICES ASSUME NEW i \in 1..(Len(m) - (n + 1)) PROVE t[i] = m[(n + 1) + i]
      OBVIOUS
    <3>1. i \in 1..Len(t) /\ i + 1 \in 1..(Len(m) - n) /\ n + (i + 1) = (n + 1) + i
      BY <1>3, <2>2
    <3> QED BY <1>1, <1>3, <3>1
  <2>4. Sent(m, n + 1)' /\ n + 1 \in Nat
    BY <1>11, <2>2, <2>3 DEF Sent
  <2>5. RunInv'
    BY <1>1, <1>10, <2>1, <2>2, <2>4 DEF RunInv
  <2>6. DefaultInv'
    BY <2>1 DEF DefaultInv
  <2> QED BY <1>7, <1>8, <1>9, <2>5, <2>6 DEF IInv
<1>12. CASE ~ (n + 1 < Len(m))
  <2>1. t = <<>>
    <3>1. Len(t) = 0
      <4> DEFINE L == Len(m)
      <4>1. L \in Nat /\ n < L /\ ~ (n + 1 < L) /\ Len(s) = L - n
        BY <1>3, <1>12
      <4> HIDE DEF L
      <4>2. L - n = 1
        BY <4>1
      <4> QED BY <1>1, <4>1, <4>2
    <3> QED BY <1>1, <3>1, EmptySeq
  <2>2. /\ sysex_index'["usb"] = 0
        /\ \/ pc' = "running" /\ eeprom' = meant
           \/ pc' = "default" /\ meant = WithDefaults(before) /\ eeprom' = before
    BY <1>5, <1>12 DEF Result
  <2>3. RunInv'
    BY <1>1, <1>10, <2>1, <2>2 DEF RunInv, history
  <2>4. DefaultInv'
    <3> SUFFICES ASSUME pc' = "default"
                 PROVE  /\ t = <<>> /\ sysex_index'["usb"] = 0 /\ written' < ConfigSize
                        /\ meant' = WithDefaults(before')
                        /\ \A a \in Addr : eeprom'[a] =
                             IF a < written' THEN DefaultConfig[a + 1] ELSE before'[a]
      BY DEF DefaultInv, WithDefaults
    <3>1. \A a \in Addr : ~ (a < 0)
      BY Numbers DEF Addr
    <3>2. eeprom' = before' /\ meant' = WithDefaults(before') /\ written' = 0
      BY <1>1, <1>10, <2>2 DEF history, WithDefaults
    <3> QED BY <2>1, <2>2, <3>1, <3>2, Numbers
  <2> QED BY <1>7, <1>8, <1>9, <2>3, <2>4 DEF IInv
<1> QED BY <1>11, <1>12

-----------------------------------------------------------------------------
(* The other steps                                                          *)

LEMMA BeginFacts ==
  ASSUME TypeOK, NEW d \in Devices, NEW bytes \in Seq(Byte), Begin(d, bytes)
  PROVE  /\ pc = "running" /\ pc' = "running" /\ coming[d] = <<>>
         /\ coming' \in [Devices -> Seq(Byte)] /\ coming'[d] = bytes
         /\ \A c \in Devices : c # d => coming'[c] = coming[c]
         /\ budget' \in 0..Budget
         /\ UNCHANGED <<eeprom, sysex_index, sysex_command, eeprom_offset, currdata,
                        written, torn, cuts>>
<1>1. budget' \in 0..Budget
  BY MessageAssumption DEF Begin, TypeOK
<1> QED BY <1>1 DEF Begin, TypeOK, matcher, shared

LEMMA UsbBeginInv == IInv /\ UsbBegin => IInv'
<1> SUFFICES ASSUME IInv, UsbBegin PROVE IInv'
  OBVIOUS
<1>0. TypeOK /\ SerialInv /\ RunInv /\ "usb" \in Devices /\ "serial" \in Devices
  BY Numbers DEF IInv
<1>1. PICK m \in UsbMessages : Begin("usb", m) /\ before' = eeprom /\ meant' = Meaning(m, eeprom)
  BY DEF UsbBegin
<1>2. m \in Seq(Byte) /\ Len(m) \in Nat /\ Len(m) >= 1
  BY MessageBytes
<1>3. /\ pc = "running" /\ pc' = "running" /\ coming["usb"] = <<>>
      /\ coming' \in [Devices -> Seq(Byte)] /\ coming'["usb"] = m /\ coming'["serial"] = coming["serial"]
      /\ budget' \in 0..Budget
      /\ UNCHANGED <<eeprom, sysex_index, sysex_command, eeprom_offset, currdata, written, torn, cuts>>
  BY <1>0, <1>1, <1>2, BeginFacts
<1>4. TypeOK'
  <2>1. eeprom \in [Addr -> Byte] /\ meant' \in [Addr -> Byte]
    BY <1>0, <1>1, MeaningType DEF TypeOK
  <2> QED BY <1>0, <1>1, <1>3, <2>1 DEF TypeOK
<1>5. SerialInv'
  BY <1>0, <1>3 DEF SerialInv
<1>6. written = 0 /\ sysex_index["usb"] = 0
  BY <1>0, <1>3 DEF RunInv
<1>7. Sent(m, 0)'
  BY <1>2, <1>3 DEF Sent
<1>8. IndexAt(m, 0) = 0
  BY DEF IndexAt
<1>9. Taken(m, 0)'
  <2>1. meant' = Meaning(m, before)' /\ eeprom' = before'
    BY <1>1, <1>3 DEF Meaning, WithDefaults, Written
  <2>2. ~ Writing(m, 0)
    BY DEF Writing
  <2> QED BY <1>3, <1>6, <1>8, <2>1, <2>2 DEF Taken
<1>10. coming'["usb"] # <<>>
  BY <1>2, <1>3
<1>11. OffInv' /\ DefaultInv'
  BY <1>3 DEF OffInv, DefaultInv
<1>12. RunInv'
  BY <1>3, <1>6, <1>7, <1>9, <1>10 DEF RunInv
<1> QED BY <1>4, <1>5, <1>11, <1>12 DEF IInv

LEMMA SerialBeginInv == IInv /\ SerialBegin => IInv'
<1> SUFFICES ASSUME IInv, SerialBegin PROVE IInv'
  OBVIOUS
<1>0. TypeOK /\ SerialInv /\ RunInv /\ "usb" \in Devices /\ "serial" \in Devices
  BY Numbers DEF IInv
<1>1. PICK m \in SerialMessages : Begin("serial", Pieces(m)) /\ UNCHANGED <<before, meant>>
  BY DEF SerialBegin
<1>2. Pieces(m) \in Seq(Byte) /\ Framed(Pieces(m))
  BY PiecesFramed
<1>3. /\ pc = "running" /\ pc' = "running" /\ coming["serial"] = <<>>
      /\ coming' \in [Devices -> Seq(Byte)] /\ coming'["serial"] = Pieces(m)
      /\ coming'["usb"] = coming["usb"] /\ budget' \in 0..Budget
      /\ UNCHANGED <<eeprom, sysex_index, sysex_command, eeprom_offset, currdata, written, torn, cuts>>
  BY <1>0, <1>1, <1>2, BeginFacts
<1>4. TypeOK'
  BY <1>0, <1>1, <1>3 DEF TypeOK
<1>5. SerialInv'
  <2>1. ~ (sysex_index["serial"] > 0)
    BY <1>0, <1>3 DEF SerialInv
  <2> QED BY <1>0, <1>2, <1>3, <2>1 DEF SerialInv, Framed
<1>6. OffInv' /\ DefaultInv'
  BY <1>3 DEF OffInv, DefaultInv
<1>7. \A k, n : Sent(k, n) /\ Taken(k, n) => Sent(k, n)' /\ Taken(k, n)'
  BY <1>1, <1>3 DEF Sent, Taken, WriteInv, StoredAt
<1>8. RunInv'
  BY <1>0, <1>1, <1>3, <1>7 DEF RunInv
<1> QED BY <1>4, <1>5, <1>6, <1>8 DEF IInv

LEMMA DefaultByteInv == IInv /\ DefaultByte => IInv'
<1> SUFFICES ASSUME IInv, DefaultByte PROVE IInv'
  OBVIOUS
<1>0. TypeOK /\ SerialInv /\ DefaultInv
  BY DEF IInv
<1>1. /\ pc = "default" /\ eeprom' = [eeprom EXCEPT ![written] = DefaultConfig[written + 1]]
      /\ IF written + 1 < ConfigSize
         THEN written' = written + 1 /\ UNCHANGED <<pc, torn>>
         ELSE written' = 0 /\ pc' = "running" /\ torn' = FALSE
      /\ UNCHANGED <<sysex_index, sysex_command, eeprom_offset, currdata, coming,
                     before, meant, budget, cuts>>
  BY DEF DefaultByte, matcher, shared
<1>2. /\ coming["usb"] = <<>> /\ sysex_index["usb"] = 0 /\ written < ConfigSize
      /\ meant = WithDefaults(before)
      /\ \A a \in Addr : eeprom[a] = IF a < written THEN DefaultConfig[a + 1] ELSE before[a]
  BY <1>0, <1>1 DEF DefaultInv
<1>3. /\ written \in Nat /\ ConfigSize \in Nat /\ ConfigSize <= EepromSize /\ EepromSize \in Nat
      /\ eeprom \in [Addr -> Byte] /\ before \in [Addr -> Byte] /\ meant \in [Addr -> Byte]
  BY <1>0, Numbers DEF TypeOK
<1>4. written \in Addr /\ DefaultConfig[written + 1] \in Byte
  BY <1>2, <1>3, Numbers DEF Addr
<1>5. eeprom' \in [Addr -> Byte]
  BY <1>1, <1>3, <1>4
<1>6. \A a \in Addr : eeprom'[a] = IF a < written + 1 THEN DefaultConfig[a + 1] ELSE before[a]
  <2> SUFFICES ASSUME NEW a \in Addr
               PROVE  eeprom'[a] = IF a < written + 1 THEN DefaultConfig[a + 1] ELSE before[a]
    OBVIOUS
  <2>1. a \in Int /\ (a < written + 1 <=> a < written \/ a = written)
    BY <1>3 DEF Addr
  <2>2. CASE a = written
    BY <1>1, <1>3, <1>4, <2>1, <2>2
  <2>3. CASE a # written
    BY <1>1, <1>2, <1>3, <1>4, <2>1, <2>3
  <2> QED BY <2>2, <2>3
<1>7. SerialInv' /\ OffInv'
  BY <1>0, <1>1 DEF SerialInv, OffInv
<1>8. CASE written + 1 < ConfigSize
  <2>1. written' = written + 1 /\ written + 1 \in 0..ConfigSize /\ pc' = "default" /\ torn' = torn
    BY <1>1, <1>3, <1>8
  <2>2. TypeOK'
    BY <1>0, <1>1, <1>5, <2>1 DEF TypeOK
  <2>3. DefaultInv'
    BY <1>1, <1>2, <1>6, <1>8, <2>1 DEF DefaultInv, WithDefaults
  <2>4. RunInv'
    BY <2>1 DEF RunInv
  <2> QED BY <1>7, <2>2, <2>3, <2>4 DEF IInv
<1>9. CASE ~ (written + 1 < ConfigSize)
  <2>1. written' = 0 /\ 0 \in 0..ConfigSize /\ pc' = "running" /\ torn' = FALSE /\ written + 1 = ConfigSize
    BY <1>1, <1>2, <1>3, <1>9
  <2>2. TypeOK'
    BY <1>0, <1>1, <1>5, <2>1 DEF TypeOK
  <2>3. eeprom' = meant
    <3>1. \A a \in Addr : meant[a] = IF a < ConfigSize THEN DefaultConfig[a + 1] ELSE before[a]
      BY <1>2 DEF WithDefaults
    <3>2. \A a \in Addr : eeprom'[a] = meant[a]
      BY <1>6, <2>1, <3>1
    <3> QED BY <1>3, <1>5, <3>2
  <2>4. RunInv' /\ DefaultInv'
    BY <1>1, <1>2, <2>1, <2>3 DEF RunInv, DefaultInv
  <2> QED BY <1>7, <2>2, <2>4 DEF IInv
<1> QED BY <1>8, <1>9

LEMMA initConfigInv == IInv /\ initConfig => IInv'
<1> SUFFICES ASSUME IInv, initConfig PROVE IInv'
  OBVIOUS
<1>0. TypeOK /\ SerialInv /\ OffInv
  BY DEF IInv
<1>1. /\ pc = "off" /\ before' = eeprom
      /\ \/ pc' = "default" /\ meant' = WithDefaults(eeprom)
         \/ pc' = "running" /\ meant' = eeprom
      /\ UNCHANGED <<eeprom, sysex_index, sysex_command, eeprom_offset, currdata,
                     coming, written, torn, budget, cuts>>
  BY DEF initConfig, matcher, shared
<1>2. Idle /\ written = 0
  BY <1>0, <1>1 DEF OffInv
<1>3. coming["usb"] = <<>> /\ sysex_index["usb"] = 0
  BY <1>2, Numbers DEF Idle
<1>4. TypeOK'
  <2>1. eeprom \in [Addr -> Byte] /\ meant' \in [Addr -> Byte]
    BY <1>0, <1>1, WithDefaultsType DEF TypeOK
  <2> QED BY <1>0, <1>1, <2>1 DEF TypeOK
<1>5. SerialInv' /\ OffInv'
  BY <1>0, <1>1 DEF SerialInv, OffInv
<1>6. RunInv'
  BY <1>1, <1>2, <1>3 DEF RunInv
<1>7. DefaultInv'
  <2>1. \A a \in Addr : ~ (a < 0)
    BY Numbers DEF Addr
  <2> QED BY <1>1, <1>2, <1>3, <2>1, Numbers DEF DefaultInv, WithDefaults
<1> QED BY <1>4, <1>5, <1>6, <1>7 DEF IInv

\* Each byte of the EEPROM is the one before the message, or the one it says.
LEMMA OldOrNew == IInv => NothingElseWritten
<1> SUFFICES ASSUME IInv, NEW a \in Addr PROVE eeprom[a] = before[a] \/ eeprom[a] = meant[a]
  BY DEF NothingElseWritten
<1>1. TypeOK /\ OffInv /\ DefaultInv /\ RunInv
  BY DEF IInv
<1>2. CASE pc = "off"
  BY <1>1, <1>2 DEF OffInv
<1>3. CASE pc = "default"
  <2>1. /\ written < ConfigSize /\ meant = WithDefaults(before) /\ written \in Int
        /\ eeprom[a] = IF a < written THEN DefaultConfig[a + 1] ELSE before[a]
    BY <1>1, <1>3, Numbers DEF DefaultInv, TypeOK
  <2>2. a < written => a < ConfigSize
    BY <2>1, Numbers DEF Addr
  <2> QED BY <2>1, <2>2 DEF WithDefaults
<1>4. CASE pc = "running" /\ coming["usb"] = <<>>
  BY <1>1, <1>4 DEF RunInv
<1>5. CASE pc = "running" /\ coming["usb"] # <<>>
  <2>1. PICK m \in UsbMessages, n \in Nat : Sent(m, n) /\ Taken(m, n)
    BY <1>1, <1>5 DEF RunInv
  <2>2. CASE ~ Writing(m, n)
    BY <2>1, <2>2 DEF Taken
  <2>3. CASE Writing(m, n)
    <3>1. /\ n >= 7 /\ HasHeader(m, 6) /\ m[7] = 2 /\ n < Len(m) /\ Len(m) \in Nat
          /\ eeprom[a] = StoredAt(m, n, a) /\ meant = Meaning(m, before)
      BY <2>1, <2>3, MessageBytes DEF Writing, Taken, WriteInv, Sent
    <3>2. Count(m) \in Nat /\ Len(m) = 12 + 2 * Count(m)
      BY <3>1, WriteBytes
    <3>3. Stored(n) \in Nat /\ Stored(n) <= Count(m)
      BY <3>1, <3>2 DEF Stored
    <3>4. a - Base(m) \in 0..(Stored(n) - 1) => a - Base(m) \in 0..(Count(m) - 1)
      BY <3>2, <3>3
    <3>5. meant = Written(m, before)
      BY <3>1, <3>2, CommandBytes DEF Meaning
    <3> QED BY <3>1, <3>4, <3>5, WrittenAt DEF StoredAt
  <2> QED BY <2>2, <2>3
<1> QED BY <1>1, <1>2, <1>3, <1>4, <1>5 DEF TypeOK

LEMMA PowerLossInv == IInv /\ PowerLoss => IInv'
<1> SUFFICES ASSUME IInv, PowerLoss PROVE IInv'
  OBVIOUS
<1>0. TypeOK /\ NothingElseWritten
  BY OldOrNew DEF IInv
<1>1. /\ cuts > 0 /\ cuts' = cuts - 1 /\ pc' = "off" /\ written' = 0
      /\ torn' = (torn \/ (pc = "default" /\ written > 0))
      /\ sysex_index' = [d \in Devices |-> 0] /\ sysex_command' = [d \in Devices |-> 255]
      /\ eeprom_offset' = 0 /\ currdata' = 0
      /\ coming' = [d \in Devices |-> <<>>]
      /\ UNCHANGED <<eeprom, before, meant, budget>>
  BY DEF PowerLoss
<1>2. TypeOK'
  <2>1. /\ sysex_index' \in [Devices -> Byte] /\ sysex_command' \in [Devices -> Byte]
        /\ eeprom_offset' \in Word /\ currdata' \in Byte
    BY <1>1, Numbers
  <2>2. coming' \in [Devices -> Seq(Byte)]
    BY <1>1, EmptySeq
  <2>3. written' \in 0..ConfigSize /\ cuts' \in 0..PowerCuts /\ torn' \in BOOLEAN
    BY <1>0, <1>1, Numbers, MessageAssumption DEF TypeOK
  <2> QED BY <1>0, <1>1, <2>1, <2>2, <2>3 DEF TypeOK
<1>3. SerialInv'
  BY <1>1, Numbers DEF SerialInv, Framed
<1>4. OffInv'
  BY <1>0, <1>1 DEF OffInv, Idle, NothingElseWritten
<1>5. DefaultInv' /\ RunInv'
  BY <1>1 DEF DefaultInv, RunInv
<1> QED BY <1>2, <1>3, <1>4, <1>5 DEF IInv

-----------------------------------------------------------------------------
(* The theorems                                                             *)

\* The inductive invariant.
THEOREM Invariance == Spec => []IInv
<1>1. IInv /\ UNCHANGED vars => IInv'
  <2> SUFFICES ASSUME IInv, UNCHANGED vars PROVE IInv'
    OBVIOUS
  <2>1. UNCHANGED <<eeprom, sysex_index, sysex_command, eeprom_offset, currdata, coming, pc,
                    written, before, meant, torn, budget, cuts>>
    BY DEF vars, matcher, shared, history
  <2>2. \A k, n : Sent(k, n) /\ Taken(k, n) => Sent(k, n)' /\ Taken(k, n)'
    BY <2>1 DEF Sent, Taken, WriteInv, StoredAt
  <2> QED BY <2>1, <2>2 DEF IInv, TypeOK, SerialInv, OffInv, DefaultInv, RunInv, Idle
<1>2. IInv /\ [Next]_vars => IInv'
  BY <1>1, UsbBeginInv, UsbByteInv, SerialBeginInv, SerialByteInv, DefaultByteInv,
     initConfigInv, PowerLossInv DEF Next
<1> QED BY InitInv, <1>2, PTL DEF Spec

\* The variables of midi_check_sysex keep their widths, and every address that is
\* written is an address of the EEPROM.
THEOREM SysexTypes == Spec => []TypeOK
<1>1. IInv => TypeOK
  BY DEF IInv
<1> QED BY <1>1, Invariance, PTL

\* Whatever messages come from USB and the jacks, byte by byte and in whatever
\* order the interrupt mixes them: once a USB message is through, the EEPROM is what
\* it says.
THEOREM CommandsCarriedOut == Spec => []EepromAsSent
<1>1. IInv => EepromAsSent
  BY DEF IInv, RunInv, EepromAsSent
<1> QED BY <1>1, Invariance, PTL

\* Also half-way and after a power cut, no byte is anything but the old or the new one.
THEOREM NoStrayWrite == Spec => []NothingElseWritten
BY OldOrNew, Invariance, PTL

\* The jacks never reach the part of midi_check_sysex that the devices share.
THEOREM SharedByOne == Spec => []OneWriter
<1>1. IInv => OneWriter
  <2> SUFFICES ASSUME IInv PROVE ~ InData("serial")
    BY DEF OneWriter
  <2>1. sysex_index["serial"] \in Byte /\ sysex_index["serial"] <= 3
    BY Numbers DEF IInv, TypeOK, SerialInv
  <2>2. sysex_index["serial"] \in Int
    BY <2>1, ByteRange
  <2> QED BY <2>1, <2>2 DEF InData, ML_HEADER_LEN
<1> QED BY <1>1, Invariance, PTL
=============================================================================
