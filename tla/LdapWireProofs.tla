--------------------------- MODULE LdapWireProofs ---------------------------
(***************************************************************************)
(* What the encodings of ldap_common.c promise for every value, wherever   *)
(* in a message they stand: what INSERT_LENGTH and ber_tid_create write is *)
(* what the decoders read, and so are the fields of the messages of        *)
(* LdapFixed, however long they are.  And for every sequence of messages,  *)
(* wherever their bytes are cut: the framing of LdapStream stays in step.  *)
(***************************************************************************)
EXTENDS LdapStream, LdapFixed, RingTheorems

-----------------------------------------------------------------------------
(* Numbers *)

\* A number fits into an int: it is below 2^31.
Fits(n) == n < 128 * 16777216

USE DEF Fits

\* The bytes stand in the data from position i on.
Written(data, i, bytes) ==
    /\ i + Len(bytes) - 1 <= Len(data)
    /\ \A k \in 1 .. Len(bytes) : data[i + k - 1] = bytes[k]

\* Octets yields at most four bytes, the first of them not zero.
LEMMA OctetsType ==
    ASSUME NEW n \in Nat, Fits(n)
    PROVE  /\ Octets(n) \in Seq(Byte)
           /\ Len(Octets(n)) \in 0 .. 4
           /\ n >= 128 => Len(Octets(n)) >= 1
           /\ n > 0 => Len(Octets(n)) >= 1
<1>1. CASE n = 0
  BY SMT, <1>1 DEF Octets, Byte
<1>2. CASE n > 0 /\ n < 256
  <2>1. Octets(n) = <<n>>
    BY SMT, <1>2 DEF Octets
  <2>2. n \in Byte
    BY SMT, <1>2 DEF Byte
  <2> QED BY SMT, <2>1, <2>2
<1>3. CASE n >= 256 /\ n < 65536
  <2>1. n \div 256 \in Byte /\ n % 256 \in Byte
    BY SMT, <1>3 DEF Byte
  <2> QED BY SMT, <1>3, <2>1 DEF Octets
<1>4. CASE n >= 65536 /\ n < 16777216
  <2>1. n \div 65536 \in Byte /\ (n \div 256) % 256 \in Byte /\ n % 256 \in Byte
    BY SMT, <1>4 DEF Byte
  <2> QED BY SMT, <1>4, <2>1 DEF Octets
<1>5. CASE n >= 16777216
  <2>1. n \div 16777216 \in Byte /\ (n \div 65536) % 256 \in Byte
    BY SMT, <1>5 DEF Byte
  <2>2. (n \div 256) % 256 \in Byte /\ n % 256 \in Byte
    BY SMT, <1>5 DEF Byte
  <2> QED BY SMT, <1>5, <2>1, <2>2 DEF Octets
<1> QED BY SMT, <1>1, <1>2, <1>3, <1>4, <1>5

\* Adding up the octets of a number gives the number back.
LEMMA Int32OfOctets ==
    ASSUME NEW n \in Nat, Fits(n)
    PROVE  Int32(Octets(n)) = n
<1>1. CASE n = 0
  BY SMT, <1>1 DEF Octets, Int32, Signed
<1>2. CASE n > 0 /\ n < 256
  BY SMT, <1>2 DEF Octets, Int32, Signed
<1>3. CASE n >= 256 /\ n < 65536
  <2>1. Octets(n) = <<n \div 256, n % 256>>
    BY SMT, <1>3 DEF Octets
  <2>2. n = (n \div 256) * 256 + (n % 256)
    BY SMT
  <2>3. n \div 256 \in 0 .. 255 /\ n % 256 \in 0 .. 255
    BY SMT, <1>3
  <2> QED BY SMT, <2>1, <2>2, <2>3 DEF Int32, Signed
<1>4. CASE n >= 65536 /\ n < 16777216
  <2>1. Octets(n) = <<n \div 65536, (n \div 256) % 256, n % 256>>
    BY SMT, <1>4 DEF Octets
  <2>2. n = (n \div 65536) * 65536 + ((n \div 256) % 256) * 256 + (n % 256)
    BY SMT
  <2>3. /\ n \div 65536 \in 0 .. 255 /\ (n \div 256) % 256 \in 0 .. 255
        /\ n % 256 \in 0 .. 255
    BY SMT, <1>4
  <2> QED BY SMT, <2>1, <2>2, <2>3 DEF Int32, Signed
<1>5. CASE n >= 16777216
  <2>1. Octets(n) = <<n \div 16777216, (n \div 65536) % 256, (n \div 256) % 256, n % 256>>
    BY SMT, <1>5 DEF Octets
  <2>2. n = (n \div 16777216) * 16777216 + ((n \div 65536) % 256) * 65536
            + ((n \div 256) % 256) * 256 + (n % 256)
    BY SMT
  <2>3. n \div 16777216 <= 127
    BY SMT
  <2> QED BY SMT, <2>1, <2>2, <2>3 DEF Int32, Signed
<1> QED BY SMT, <1>1, <1>2, <1>3, <1>4, <1>5

\* Bytes that stand in the data are what a slice at their place returns.
LEMMA SliceOfWritten ==
    ASSUME NEW data \in Seq(Byte), NEW i \in Nat \ {0}, NEW bytes \in Seq(Byte),
           Written(data, i, bytes)
    PROVE  Slice(data, i, i + Len(bytes)) = bytes
<1>1. /\ i + Len(bytes) - 1 <= Len(data)
      /\ Len(bytes) \in Nat /\ Len(data) \in Nat
  BY SMT DEF Written
<1>2. Slice(data, i, i + Len(bytes)) = SubSeq(data, i, i + Len(bytes) - 1)
  <2>1. CASE i + Len(bytes) > Len(data)
    <3>1. Len(data) = i + Len(bytes) - 1
      BY SMT, <1>1, <2>1
    <3> QED BY SMT, <2>1, <3>1 DEF Slice
  <2>2. CASE ~(i + Len(bytes) > Len(data))
    BY SMT, <2>2 DEF Slice
  <2> QED BY SMT, <2>1, <2>2
<1>3. /\ SubSeq(data, i, i + Len(bytes) - 1) \in Seq(Byte)
      /\ Len(SubSeq(data, i, i + Len(bytes) - 1)) = Len(bytes)
  BY SMT, <1>1
<1>4. ASSUME NEW k \in 1 .. Len(bytes)
      PROVE  SubSeq(data, i, i + Len(bytes) - 1)[k] = bytes[k]
  BY SMT, <1>1 DEF Written
<1> QED BY <1>2, <1>3, <1>4, SeqEqual, Zenon

\* The length field at position i is read as what was written there.
THEOREM LengthRoundTrip ==
    ASSUME NEW data \in Seq(Byte), NEW i \in Nat \ {0}, NEW n \in Nat, Fits(n),
           Written(data, i, InsertLength(n))
    PROVE  /\ FindLength(data, i).len = n
           /\ FindLength(data, i).next = i + Len(InsertLength(n))
<1>1. CASE n < 128
  <2>1. InsertLength(n) = <<n>>
    BY SMT, <1>1 DEF InsertLength
  <2>2. i <= Len(data) /\ data[i] = n
    BY SMT, <2>1 DEF Written
  <2>3. At(data, i) = n
    BY SMT, <2>2 DEF At
  <2> QED BY SMT, <1>1, <2>1, <2>3 DEF FindLength
<1>2. CASE n >= 128
  <2> DEFINE o == Octets(n)
  <2>1. o \in Seq(Byte) /\ Len(o) \in 1 .. 4
    BY SMT, <1>2, OctetsType
  <2> HIDE DEF o
  <2>2. InsertLength(n) = <<128 + Len(o)>> \o o
    BY SMT, <1>2 DEF InsertLength, o
  <2>3. /\ Len(InsertLength(n)) = 1 + Len(o)
        /\ InsertLength(n)[1] = 128 + Len(o)
        /\ \A k \in 1 .. Len(o) : InsertLength(n)[k + 1] = o[k]
    BY SMT, <2>1, <2>2
  <2>4. /\ i + Len(o) <= Len(data)
        /\ data[i] = 128 + Len(o)
        /\ \A k \in 1 .. Len(o) : data[i + k] = o[k]
    <3>1. i + (1 + Len(o)) - 1 <= Len(data)
      BY SMT, <2>3 DEF Written
    <3>2. data[i + 1 - 1] = 128 + Len(o)
      BY SMT, <2>1, <2>3 DEF Written
    <3>3. ASSUME NEW k \in 1 .. Len(o) PROVE data[i + k] = o[k]
      <4>1. data[i + (k + 1) - 1] = InsertLength(n)[k + 1]
        BY SMT, <2>1, <2>3 DEF Written
      <4> QED BY SMT, <2>1, <2>3, <4>1
    <3> QED BY SMT, <2>1, <3>1, <3>2, <3>3
  <2>5. Written(data, i + 1, o)
    <3>1. (i + 1) + Len(o) - 1 <= Len(data)
      BY SMT, <2>1, <2>4
    <3>2. ASSUME NEW k \in 1 .. Len(o) PROVE data[(i + 1) + k - 1] = o[k]
      BY SMT, <2>1, <2>4
    <3> QED BY SMT, <3>1, <3>2 DEF Written
  <2>6. Slice(data, i + 1, i + 1 + Len(o)) = o
    BY SMT, <2>1, <2>5, SliceOfWritten
  <2>7. At(data, i) = data[i] /\ data[i] > 127
    BY SMT, <2>1, <2>4 DEF At
  <2>8. i + data[i] - 127 = i + 1 + Len(o)
    BY SMT, <2>1, <2>4
  <2>9. Int32(o) = n
    BY SMT, Int32OfOctets DEF o
  <2> QED BY SMT, <2>1, <2>3, <2>4, <2>6, <2>7, <2>8, <2>9 DEF FindLength
<1> QED BY SMT, <1>1, <1>2

\* Octets of a positive number: how many, and that the fourth one from the
\* right, if there is one, is at most 127.
LEMMA FirstOctet ==
    ASSUME NEW n \in Nat, n >= 1, Fits(n)
    PROVE  Len(Octets(n)) = 4 => Octets(n)[1] <= 127
<1>1. CASE n < 16777216
  BY SMT, <1>1 DEF Octets
<1>2. CASE n >= 16777216
  <2>1. Octets(n) = <<n \div 16777216, (n \div 65536) % 256, (n \div 256) % 256, n % 256>>
    BY SMT, <1>2 DEF Octets
  <2>2. n \div 16777216 <= 127
    BY SMT
  <2> QED BY SMT, <2>1, <2>2
<1> QED BY SMT, <1>1, <1>2

\* A zero octet in front of at most three octets does not change the number.
LEMMA Int32OfPadded ==
    ASSUME NEW o \in Seq(Byte), Len(o) \in 1 .. 3
    PROVE  Int32(<<0>> \o o) = Int32(o)
<1> DEFINE p == <<0>> \o o
<1>1. Len(p) = Len(o) + 1 /\ p[1] = 0 /\ \A k \in 1 .. Len(o) : p[k + 1] = o[k]
  BY SMT
<1> HIDE DEF p
<1>2. CASE Len(o) = 1
  <2>1. Len(p) = 2 /\ p[1] = 0 /\ p[2] = o[1]
    BY SMT, <1>1, <1>2
  <2> QED BY SMT, <1>2, <2>1 DEF Int32, Signed, p
<1>3. CASE Len(o) = 2
  <2>1. Len(p) = 3 /\ p[1] = 0 /\ p[2] = o[1] /\ p[3] = o[2]
    BY SMT, <1>1, <1>3
  <2> QED BY SMT, <1>3, <2>1 DEF Int32, Signed, p
<1>4. CASE Len(o) = 3
  <2>1. Len(p) = 4 /\ p[1] = 0 /\ p[2] = o[1] /\ p[3] = o[2] /\ p[4] = o[3]
    BY SMT, <1>1, <1>4
  <2> QED BY SMT, <1>4, <2>1 DEF Int32, Signed, p
<1> QED BY SMT, <1>2, <1>3, <1>4 DEF p

\* The first of some bytes is a number.
LEMMA FirstIsNumber ==
    ASSUME NEW s \in Seq(Byte), Len(s) >= 1
    PROVE  s[1] \in Nat
<1>1. s[1] \in Byte
  BY SMT
<1>2. \A b \in Byte : b \in Nat
  BY SMT DEF Byte
<1> QED BY <1>1, <1>2, Zenon

\* ReadTid on octets c that stand behind their length byte.
LEMMA ReadTidOfContent ==
    ASSUME NEW data, NEW i, NEW c,
           At(data, i + 1) = Len(c), Slice(data, i + 2, i + 2 + Len(c)) = c
    PROVE  ReadTid(data, i) = [tid |-> Int32(c), next |-> i + 2 + Len(c)]
BY Zenon DEF ReadTid

(***************************************************************************)
(* A message identifier that ber_tid_create writes, for every identifier   *)
(* of an int, is never a negative BER integer (its first octet is at most  *)
(* 127, although the test for the padding octet overflows at four octets), *)
(* and the decoders' loop reads the same identifier back and stops behind  *)
(* it, wherever in a message it stands.                                    *)
(***************************************************************************)
THEOREM TidIsPositive ==
    ASSUME NEW data \in Seq(Byte), NEW i \in Nat \ {0},
           NEW n \in Nat, n >= 1, Fits(n),
           Written(data, i, ber_tid_create(n))
    PROVE  /\ ber_tid_create(n)[3] <= 127
           /\ ReadTid(data, i).tid = n
           /\ ReadTid(data, i).next = i + Len(ber_tid_create(n))
<1> DEFINE o == Octets(n)
           negative == Len(o) \in 1 .. 3 /\ o[1] > 127
           c == IF negative THEN <<0>> \o o ELSE o
<1>1. o \in Seq(Byte) /\ Len(o) \in 1 .. 4
  BY SMT, OctetsType
<1>2. Len(o) = 4 => o[1] <= 127
  BY SMT, FirstOctet
<1>3. Int32(o) = n
  BY SMT, Int32OfOctets
<1>4. ber_tid_create(n) = <<2, Len(c)>> \o c
  <2>1. CASE negative
    BY SMT, <1>1, <2>1 DEF ber_tid_create
  <2>2. CASE ~negative
    BY SMT, <1>1, <2>2 DEF ber_tid_create
  <2> QED BY SMT, <2>1, <2>2
<1> HIDE DEF o
<1>5. c \in Seq(Byte) /\ Len(c) \in 1 .. 4 /\ c[1] <= 127
  <2>1. CASE negative
    <3>1. 0 \in Byte
      BY SMT DEF Byte
    <3>2. c = <<0>> \o o
      BY SMT, <2>1
    <3>3. <<0>> \o o \in Seq(Byte)
      BY SMT, <1>1, <3>1
    <3>4. Len(<<0>> \o o) = 1 + Len(o) /\ (<<0>> \o o)[1] = 0
      BY SMT, <1>1
    <3> HIDE DEF c
    <3> QED BY SMT, <1>1, <2>1, <3>2, <3>3, <3>4
  <2>2. CASE ~negative
    <3>1. o[1] \in Nat
      BY SMT, <1>1, FirstIsNumber
    <3> QED BY SMT, <1>1, <1>2, <2>2, <3>1
  <2> QED BY SMT, <2>1, <2>2
<1>6. Int32(c) = n
  <2>1. CASE negative
    BY SMT, <1>1, <1>3, <2>1, Int32OfPadded
  <2>2. CASE ~negative
    BY SMT, <1>3, <2>2
  <2> QED BY SMT, <2>1, <2>2
<1> HIDE DEF c
<1>7. /\ Len(ber_tid_create(n)) = 2 + Len(c)
      /\ ber_tid_create(n)[2] = Len(c)
      /\ \A k \in 1 .. Len(c) : ber_tid_create(n)[k + 2] = c[k]
  BY SMT, <1>4, <1>5
<1>8. ber_tid_create(n)[3] <= 127
  <2>1. ber_tid_create(n)[1 + 2] = c[1]
    BY SMT, <1>5, <1>7
  <2> QED BY SMT, <1>5, <2>1
<1>9. /\ i + 1 + Len(c) <= Len(data)
      /\ data[i + 1] = Len(c)
      /\ \A k \in 1 .. Len(c) : data[(i + 2) + k - 1] = c[k]
  <2>1. i + (2 + Len(c)) - 1 <= Len(data)
    BY SMT, <1>7 DEF Written
  <2>2. data[i + 2 - 1] = Len(c)
    BY SMT, <1>5, <1>7 DEF Written
  <2>3. ASSUME NEW k \in 1 .. Len(c) PROVE data[(i + 2) + k - 1] = c[k]
    <3>1. data[i + (k + 2) - 1] = ber_tid_create(n)[k + 2]
      BY SMT, <1>5, <1>7 DEF Written
    <3> QED BY SMT, <1>5, <1>7, <3>1
  <2> QED BY SMT, <1>5, <2>1, <2>2, <2>3
<1>10. Written(data, i + 2, c)
  <2>1. (i + 2) + Len(c) - 1 <= Len(data)
    BY SMT, <1>5, <1>9
  <2> QED BY SMT, <1>9, <2>1 DEF Written
<1>11. Slice(data, i + 2, i + 2 + Len(c)) = c
  BY SMT, <1>5, <1>10, SliceOfWritten
<1>12. At(data, i + 1) = Len(c)
  BY SMT, <1>5, <1>9 DEF At
<1>13. i + 2 + Len(c) = i + Len(ber_tid_create(n))
  BY SMT, <1>5, <1>7
<1>14. ReadTid(data, i) = [tid |-> Int32(c), next |-> i + 2 + Len(c)]
  BY SMTT(30), <1>11, <1>12, ReadTidOfContent
<1> QED BY SMT, <1>6, <1>8, <1>13, <1>14

-----------------------------------------------------------------------------
(* Fields *)

HIDE DEF Fits

\* Two parts that stand behind each other stand each at its place.
LEMMA WrittenParts ==
    ASSUME NEW data \in Seq(Byte), NEW i \in Nat \ {0},
           NEW a \in Seq(Byte), NEW b \in Seq(Byte), Written(data, i, a \o b)
    PROVE  /\ Written(data, i, a)
           /\ Written(data, i + Len(a), b)
<1> DEFINE c == a \o b
           n == Len(a)
<1>1. /\ c \in Seq(Byte) /\ n \in Nat /\ Len(b) \in Nat /\ Len(c) = n + Len(b)
      /\ \A k \in 1 .. n : c[k] = a[k]
      /\ \A k \in 1 .. Len(b) : c[n + k] = b[k]
  BY SMT
<1>2. i + Len(c) - 1 <= Len(data) /\ \A k \in 1 .. Len(c) : data[i + k - 1] = c[k]
  BY SMT DEF Written
<1> HIDE DEF c
<1>3. Len(data) \in Nat
  BY SMT
<1>4. Written(data, i, a)
  <2>1. i + n - 1 <= Len(data)
    BY SMT, <1>1, <1>2, <1>3
  <2>2. ASSUME NEW k \in 1 .. n PROVE data[i + k - 1] = a[k]
    BY SMT, <1>1, <1>2
  <2> QED BY SMT, <2>1, <2>2 DEF Written
<1>5. Written(data, i + n, b)
  <2> HIDE DEF n
  <2>1. (i + n) + Len(b) - 1 <= Len(data)
    BY SMT, <1>1, <1>2, <1>3
  <2>2. ASSUME NEW k \in 1 .. Len(b) PROVE data[(i + n) + k - 1] = b[k]
    <3>1. n + k \in 1 .. Len(c)
      BY SMT, <1>1
    <3>2. data[i + (n + k) - 1] = c[n + k]
      BY <1>2, <3>1
    <3>3. i + (n + k) - 1 = (i + n) + k - 1
      BY SMT, <1>1
    <3> QED BY <1>1, <3>2, <3>3
  <2> QED BY SMT, <2>1, <2>2 DEF Written
<1> QED BY <1>4, <1>5 DEF n

\* A length field has one to five bytes.
LEMMA InsertLengthType ==
    ASSUME NEW n \in Nat, Fits(n)
    PROVE  /\ InsertLength(n) \in Seq(Byte)
           /\ Len(InsertLength(n)) \in 1 .. 5
<1>1. CASE n < 128
  <2>1. InsertLength(n) = <<n>> /\ n \in Byte
    BY SMT, <1>1 DEF InsertLength, Byte
  <2> QED BY SMT, <2>1
<1>2. CASE n >= 128
  <2> DEFINE o == Octets(n)
             k == Len(o)
             f == <<128 + k>>
  <2>1. o \in Seq(Byte) /\ k \in 1 .. 4
    BY SMT, <1>2, OctetsType
  <2>2. InsertLength(n) = f \o o
    BY SMT, <1>2 DEF InsertLength
  <2> HIDE DEF o, k
  <2>3. 128 + k \in Byte /\ 1 + k \in 1 .. 5
    BY SMT, <2>1 DEF Byte
  <2>4. f \in Seq(Byte) /\ Len(f) = 1
    BY SMT, <2>3
  <2> HIDE DEF f
  <2>5. f \o o \in Seq(Byte) /\ Len(f \o o) = Len(f) + Len(o)
    BY <2>1, <2>4, ConcatProperties
  <2>6. Len(f \o o) = 1 + k
    BY <2>4, <2>5 DEF k
  <2> QED BY <2>2, <2>3, <2>5, <2>6
<1> QED BY SMT, <1>1, <1>2

\* The size of the header in front of n bytes of content.
Header(n) == 1 + Len(InsertLength(n))

\* A component is its tag, its length field and its content.
LEMMA TaggedType ==
    ASSUME NEW tag \in Byte, NEW c \in Seq(Byte), Fits(Len(c))
    PROVE  /\ Tagged(tag, c) \in Seq(Byte)
           /\ Header(Len(c)) \in 2 .. 6
           /\ Len(Tagged(tag, c)) = Header(Len(c)) + Len(c)
           /\ Tagged(tag, c)[1] = tag
<1> DEFINE l == InsertLength(Len(c))
<1>1. l \in Seq(Byte) /\ Len(l) \in 1 .. 5
  BY SMT, InsertLengthType
<1> HIDE DEF l
<1> DEFINE h == <<tag>> \o l
<1>2. Tagged(tag, c) = h \o c
  BY DEF Tagged, l
<1>3. Header(Len(c)) = 1 + Len(l)
  BY DEF Header, l
<1>4. h \in Seq(Byte) /\ Len(h) = 1 + Len(l) /\ h[1] = tag
  BY <1>1
<1> HIDE DEF h
<1>5. /\ h \o c \in Seq(Byte) /\ Len(h \o c) = Len(h) + Len(c)
      /\ (h \o c)[1] = h[1]
  BY <1>1, <1>4
<1>6. Header(Len(c)) \in 2 .. 6 /\ Len(h) = Header(Len(c))
  <2>1. \A k \in 1 .. 5 : 1 + k \in 2 .. 6
    BY SMT
  <2> QED BY <1>1, <1>3, <1>4, <2>1
<1> QED BY <1>2, <1>4, <1>5, <1>6

\* The parts of a component that stands in the data.
LEMMA WrittenTagged ==
    ASSUME NEW data \in Seq(Byte), NEW i \in Nat \ {0}, NEW tag \in Byte,
           NEW c \in Seq(Byte), Fits(Len(c)),
           Written(data, i, Tagged(tag, c))
    PROVE  /\ At(data, i) = tag
           /\ Written(data, i + 1, InsertLength(Len(c)))
           /\ Written(data, i + Header(Len(c)), c)
<1> DEFINE l == InsertLength(Len(c))
           h == <<tag>> \o l
           t == <<tag>>
<1>1. l \in Seq(Byte) /\ Len(l) \in 1 .. 5
  BY SMT, InsertLengthType
<1> HIDE DEF l
<1>2. Tagged(tag, c) = h \o c
  BY DEF Tagged, l
<1>3. t \in Seq(Byte) /\ Len(t) = 1 /\ h \in Seq(Byte) /\ Len(h) = 1 + Len(l)
  BY SMT, <1>1
<1>4. h = t \o l /\ t[1] = tag
  OBVIOUS
<1> HIDE DEF h, t
<1>5. Written(data, i, h) /\ Written(data, i + Len(h), c)
  BY <1>2, <1>3, WrittenParts
<1>6. Written(data, i, t) /\ Written(data, i + 1, l)
  BY <1>1, <1>3, <1>4, <1>5, WrittenParts
<1>7. At(data, i) = tag
  BY SMT, <1>3, <1>4, <1>6 DEF Written, At
<1>8. Header(Len(c)) = Len(h)
  BY <1>3 DEF Header, l
<1> QED BY <1>5, <1>6, <1>7, <1>8 DEF l

\* A field that stands at position i is found there, with its content, and
\* the decoder goes on right behind it, whatever follows.
THEOREM FieldRoundTrip ==
    ASSUME NEW data \in Seq(Byte), NEW i \in Nat \ {0}, NEW tag \in Byte,
           NEW c \in Seq(Byte), Fits(Len(c)),
           Written(data, i, Tagged(tag, c))
    PROVE  Field(data, i, tag) =
               [found |-> TRUE, body |-> i + Header(Len(c)),
                next |-> i + Len(Tagged(tag, c)), value |-> c]
<1> DEFINE n == Len(c)
           l == FindLength(data, i + 1)
           b == i + Header(n)
<1>1. /\ At(data, i) = tag
      /\ Written(data, i + 1, InsertLength(n))
      /\ Written(data, b, c)
  BY WrittenTagged
<1>2. n \in Nat /\ Header(n) \in 2 .. 6 /\ Len(Tagged(tag, c)) = Header(n) + n
  BY TaggedType
<1>3. l.len = n /\ l.next = i + 1 + Len(InsertLength(n))
  <2> HIDE DEF n
  <2> QED BY SMT, <1>1, <1>2, LengthRoundTrip DEF n
<1>4. l.next = b
  <2>1. Len(InsertLength(n)) \in 1 .. 5
    BY InsertLengthType
  <2> HIDE DEF n, l
  <2> QED BY SMT, <1>3, <2>1 DEF Header
<1>5. Slice(data, b, b + n) = c
  <2>1. b \in Nat \ {0}
    BY SMT, <1>2
  <2> QED BY <1>1, <2>1, SliceOfWritten
<1>6. i + Len(Tagged(tag, c)) = b + n
  <2> HIDE DEF n
  <2> QED BY SMT, <1>2
<1>7. Field(data, i, tag) = Content(data, l)
  BY <1>1 DEF Field
<1> HIDE DEF l, b, n
<1>8. Content(data, l) = [found |-> TRUE, body |-> b, next |-> b + n, value |-> c]
  BY <1>3, <1>4, <1>5 DEF Content
<1> QED BY <1>6, <1>7, <1>8 DEF b, n

\* What is not longer than something that fits, fits.
LEMMA FitsLess ==
    ASSUME NEW m \in Nat, NEW n \in Nat, m <= n, Fits(n)
    PROVE  Fits(m)
BY SMT DEF Fits

\* Two parts behind each other, with their lengths.
LEMMA Parts ==
    ASSUME NEW a \in Seq(Byte), NEW b \in Seq(Byte)
    PROVE  /\ a \o b \in Seq(Byte)
           /\ Len(a) \in Nat /\ Len(b) \in Nat /\ Len(a \o b) \in Nat
           /\ Len(a \o b) = Len(a) + Len(b)
           /\ Len(a) <= Len(a \o b) /\ Len(b) <= Len(a \o b)
           /\ Len(a) >= 1 => (a \o b)[1] = a[1]
<1> DEFINE m == Len(a)
           n == Len(b)
<1>1. a \o b \in Seq(Byte) /\ Len(a \o b) = m + n /\ m \in Nat /\ n \in Nat
  BY ConcatProperties, LenProperties
<1>2. \A i \in 1 .. m + n : (a \o b)[i] = IF i <= m THEN a[i] ELSE b[i - m]
  BY ConcatProperties
<1> HIDE DEF m, n
<1>3. m + n \in Nat /\ m <= m + n /\ n <= m + n
  BY SMT, <1>1
<1>4. m >= 1 => 1 \in 1 .. m + n /\ 1 <= m
  BY SMT, <1>1
<1>5. m >= 1 => (a \o b)[1] = a[1]
  BY <1>2, <1>4
<1> QED BY <1>1, <1>3, <1>5 DEF m, n

\* A length field that stands at position i, and where the content begins.
LEMMA FindLengthAt ==
    ASSUME NEW data \in Seq(Byte), NEW i \in Nat \ {0}, NEW n \in Nat, Fits(n),
           Written(data, i + 1, InsertLength(n))
    PROVE  FindLength(data, i + 1).len = n /\ FindLength(data, i + 1).next = i + Header(n)
<1> DEFINE j == i + 1
<1>1. j \in Nat \ {0}
  BY SMT
<1>2. Len(InsertLength(n)) \in 1 .. 5
  BY InsertLengthType
<1> HIDE DEF j
<1>3. FindLength(data, j).len = n /\ FindLength(data, j).next = j + Len(InsertLength(n))
  BY <1>1, LengthRoundTrip DEF j
<1>4. j + Len(InsertLength(n)) = i + Header(n)
  BY SMT, <1>2 DEF Header, j
<1> QED BY <1>3, <1>4 DEF j

\* An identifier is a number of three to seven bytes.
LEMMA TidType ==
    ASSUME NEW n \in Nat, n >= 1, Fits(n)
    PROVE  /\ ber_tid_create(n) \in Seq(Byte)
           /\ Len(ber_tid_create(n)) \in 3 .. 7
           /\ ber_tid_create(n)[1] = 2
<1> DEFINE o == Octets(n)
           k == Len(o)
           negative == k \in 1 .. 3 /\ o[1] > 127
<1>1. o \in Seq(Byte) /\ k \in 1 .. 4
  BY SMT, OctetsType DEF Fits
<1>2. ber_tid_create(n) = IF negative THEN <<2, k + 1, 0>> \o o ELSE <<2, k>> \o o
  BY DEF ber_tid_create
<1> HIDE DEF o, k, negative
<1>3. /\ 2 \in Byte /\ 0 \in Byte /\ k \in Byte /\ k + 1 \in Byte
      /\ 3 + k \in 3 .. 7 /\ 2 + k \in 3 .. 7
  BY SMT, <1>1 DEF Byte
<1>4. CASE negative
  <2> DEFINE f == <<2, k + 1, 0>>
  <2>1. f \in Seq(Byte) /\ Len(f) = 3 /\ f[1] = 2
    BY <1>3
  <2> HIDE DEF f
  <2>2. /\ f \o o \in Seq(Byte) /\ Len(f \o o) = Len(f) + Len(o)
        /\ (f \o o)[1] = f[1]
    <3>1. Len(f) >= 1
      BY <2>1
    <3> QED BY <1>1, <2>1, <3>1, Parts
  <2>3. ber_tid_create(n) = f \o o
    BY <1>2, <1>4 DEF f
  <2> QED BY <1>3, <2>1, <2>2, <2>3 DEF k
<1>5. CASE ~negative
  <2> DEFINE f == <<2, k>>
  <2>1. f \in Seq(Byte) /\ Len(f) = 2 /\ f[1] = 2
    BY <1>3
  <2> HIDE DEF f
  <2>2. /\ f \o o \in Seq(Byte) /\ Len(f \o o) = Len(f) + Len(o)
        /\ (f \o o)[1] = f[1]
    <3>1. Len(f) >= 1
      BY <2>1
    <3> QED BY <1>1, <2>1, <3>1, Parts
  <2>3. ber_tid_create(n) = f \o o
    BY <1>2, <1>5 DEF f
  <2> QED BY <1>3, <2>1, <2>2, <2>3 DEF k
<1> QED BY <1>4, <1>5

\* The first of the bytes that stand at position i.
LEMMA AtWritten ==
    ASSUME NEW data \in Seq(Byte), NEW i \in Nat \ {0}, NEW b \in Seq(Byte),
           Len(b) >= 1, Written(data, i, b)
    PROVE  At(data, i) = b[1]
BY SMT DEF Written, At

-----------------------------------------------------------------------------
(* The envelope *)

\* What an envelope holds.
Inside(t, operation, controls) == ber_tid_create(t) \o operation \o controls

\* An envelope at the front of the data: its identifier is at position s, the
\* operation at position n.
Opens(d, t, o, rest, s, n) ==
    /\ FindLength(d, 2).next = s /\ s \in Nat \ {0} /\ n \in Nat \ {0}
    /\ Written(d, s, ber_tid_create(t))
    /\ Written(d, n, o)
    /\ Written(d, n + Len(o), rest)
    /\ Len(Envelope(t, o, rest)) = n + Len(o) + Len(rest) - 1

\* The parts of an envelope that stands at the front of the data.
LEMMA EnvelopeParts ==
    ASSUME NEW d \in Seq(Byte), NEW t \in Nat, t >= 1, Fits(t),
           NEW o \in Seq(Byte), NEW rest \in Seq(Byte),
           Fits(Len(Inside(t, o, rest))), Written(d, 1, Envelope(t, o, rest)),
           NEW s, s = 1 + Header(Len(Inside(t, o, rest))),
           NEW n, n = s + Len(ber_tid_create(t))
    PROVE  Opens(d, t, o, rest, s, n)
<1> DEFINE i == ber_tid_create(t)
           a == i \o o
           e == a \o rest
<1>1. i \in Seq(Byte) /\ Len(i) \in 3 .. 7
  BY TidType
<1>2. Inside(t, o, rest) = e /\ Envelope(t, o, rest) = Tagged(48, e)
  BY DEF Inside, Envelope
<1> HIDE DEF i
<1>3. a \in Seq(Byte) /\ Len(a) = Len(i) + Len(o) /\ Len(a) \in Nat /\ Len(o) \in Nat
  BY <1>1, Parts
<1>4. Written(d, 1, Tagged(48, a \o rest)) /\ Fits(Len(a \o rest)) /\ s = 1 + Header(Len(a \o rest))
  BY <1>2
<1> HIDE DEF a
<1>5. e \in Seq(Byte) /\ Len(e) = Len(a) + Len(rest) /\ Len(e) \in Nat /\ Len(rest) \in Nat
  BY <1>3, Parts
<1>6. 48 \in Byte /\ 1 \in Nat \ {0}
  BY SMT DEF Byte
<1> HIDE DEF e
<1>7. Written(d, 1, Tagged(48, e)) /\ Fits(Len(e)) /\ s = 1 + Header(Len(e))
  BY <1>4 DEF e
<1>8. Header(Len(e)) \in 2 .. 6 /\ Len(Tagged(48, e)) = Header(Len(e)) + Len(e)
  BY <1>5, <1>6, <1>7, TaggedType
<1>9. Written(d, 1 + 1, InsertLength(Len(e))) /\ Written(d, s, e)
  <2>1. Written(d, 1 + 1, InsertLength(Len(e))) /\ Written(d, 1 + Header(Len(e)), e)
    BY <1>5, <1>6, <1>7, WrittenTagged
  <2> QED BY <1>7, <2>1
<1>10. s \in Nat \ {0}
  <2>1. \A k \in 2 .. 6 : 1 + k \in Nat \ {0}
    BY SMT
  <2> QED BY <1>7, <1>8, <2>1
<1>11. FindLength(d, 2).next = s
  <2>1. FindLength(d, 1 + 1).next = 1 + Header(Len(e))
    BY <1>5, <1>7, <1>9, FindLengthAt
  <2>2. 1 + 1 = 2
    BY SMT
  <2> QED BY <1>7, <2>1, <2>2
<1>12. n \in Nat \ {0}
  BY SMT, <1>1, <1>10 DEF i
<1>13. Written(d, s, a) /\ Written(d, s + Len(a), rest)
  BY <1>3, <1>9, <1>10, WrittenParts DEF e
<1>14. Written(d, s, i) /\ Written(d, s + Len(i), o)
  BY <1>1, <1>10, <1>13, WrittenParts DEF a
<1>15. s + Len(a) = n + Len(o)
  <2> DEFINE p == Len(i)
             q == Len(o)
             r == Len(a)
  <2>1. p \in Nat /\ q \in Nat /\ r = p + q /\ n = s + p
    BY <1>1, <1>3 DEF i
  <2> HIDE DEF p, q, r
  <2>2. s + r = n + q
    BY SMT, <1>10, <2>1
  <2> QED BY <2>2 DEF q, r
<1>16. Len(Tagged(48, e)) = n + Len(o) + Len(rest) - 1
  <2> DEFINE r == Len(a)
             q == Len(o)
             w == Len(rest)
             v == Len(e)
             h == Header(Len(e))
             z == Len(Tagged(48, e))
  <2>1. /\ r \in Nat /\ q \in Nat /\ w \in Nat /\ v = r + w /\ h \in 2 .. 6
        /\ s = 1 + h /\ s + r = n + q /\ z = h + v
    BY <1>3, <1>5, <1>7, <1>8, <1>15
  <2> HIDE DEF r, q, w, v, h, z
  <2>2. z = n + q + w - 1
    <3>1. n \in Nat
      BY <1>12
    <3> QED BY ONLY SMT, <2>1, <3>1
  <2> QED BY <2>2 DEF q, w, z
<1> QED BY <1>2, <1>10, <1>11, <1>12, <1>13, <1>14, <1>15, <1>16 DEF i, e, Opens

\* What the decoders read of an envelope around contents c.
Opened(d, t, tag, c, rest) ==
    LET h == ReadHead(d)
    IN  /\ h.identified = TRUE /\ h.tid = t /\ h.tag = tag
        /\ h.next \in Nat \ {0} /\ h.body.next \in Nat \ {0}
        /\ h.body.len = Len(c) /\ h.body.next = h.next + Header(Len(c))
        /\ Written(d, h.body.next, c)
        /\ Written(d, h.next, Tagged(tag, c))
        /\ Written(d, h.next + Len(Tagged(tag, c)), rest)
        /\ Len(Envelope(t, Tagged(tag, c), rest))
              = h.next + Len(Tagged(tag, c)) + Len(rest) - 1

(***************************************************************************)
(* The envelope of every message, for every identifier of an int and an    *)
(* operation with contents c of any length: both decoders read the         *)
(* identifier and the tag, find the length of c, and go on where the       *)
(* operation begins.                                                       *)
(***************************************************************************)
THEOREM EnvelopeRoundTrip ==
    ASSUME NEW d \in Seq(Byte), NEW t \in Nat, t >= 1, Fits(t),
           NEW tag \in Byte, NEW c \in Seq(Byte), Fits(Len(c)), NEW rest \in Seq(Byte),
           Fits(Len(Inside(t, Tagged(tag, c), rest))),
           Written(d, 1, Envelope(t, Tagged(tag, c), rest))
    PROVE  Opened(d, t, tag, c, rest)
<1> DEFINE i == ber_tid_create(t)
           o == Tagged(tag, c)
           s == 1 + Header(Len(Inside(t, o, rest)))
           n == s + Len(i)
           id == ReadTid(d, s)
           l == FindLength(d, n + 1)
           h == ReadHead(d)
<1>1. o \in Seq(Byte) /\ Header(Len(c)) \in 2 .. 6
  BY TaggedType
<1>2. i \in Seq(Byte) /\ Len(i) \in 3 .. 7 /\ i[1] = 2
  BY TidType
<1> HIDE DEF o, i
<1>3. Fits(Len(Inside(t, o, rest))) /\ Written(d, 1, Envelope(t, o, rest))
  BY DEF o
<1>4. n = s + Len(ber_tid_create(t))
  BY DEF i
<1> HIDE DEF s, n
<1>5. s = 1 + Header(Len(Inside(t, o, rest)))
  BY DEF s
<1>6. /\ FindLength(d, 2).next = s /\ s \in Nat \ {0} /\ n \in Nat \ {0}
      /\ Written(d, s, i) /\ Written(d, n, o) /\ Written(d, n + Len(o), rest)
      /\ Len(Envelope(t, o, rest)) = n + Len(o) + Len(rest) - 1
  <2> HIDE DEF id, l
  <2>1. Opens(d, t, o, rest, s, n)
    BY ONLY d \in Seq(Byte), t \in Nat, t >= 1, Fits(t), rest \in Seq(Byte),
            <1>1, <1>3, <1>4, <1>5, EnvelopeParts
  <2> QED BY <2>1 DEF i, Opens
<1>7. id.tid = t /\ id.next = n
  <2>1. id.tid = t /\ id.next = s + Len(i)
    BY SMT, <1>6, TidIsPositive DEF Fits, i
  <2> QED BY <2>1 DEF n
<1>8. At(d, s) = 2
  <2>1. Len(i) >= 1
    BY SMT, <1>2
  <2> QED BY <1>2, <1>6, <2>1, AtWritten
<1>9. /\ At(d, n) = tag /\ Written(d, n + 1, InsertLength(Len(c)))
      /\ Written(d, n + Header(Len(c)), c)
  BY <1>6, WrittenTagged DEF o
<1>10. Len(c) \in Nat
  BY LenProperties
<1>11. l.len = Len(c) /\ l.next = n + Header(Len(c))
  BY <1>6, <1>9, <1>10, FindLengthAt
<1>12. n + Header(Len(c)) \in Nat \ {0}
  <2>1. \A k \in 2 .. 6 : n + k \in Nat \ {0}
    BY SMT, <1>6
  <2> QED BY <1>1, <2>1
<1> HIDE DEF id, l
<1>13. h = [start |-> s, identified |-> At(d, s) = 2, tid |-> id.tid, next |-> id.next,
            tag |-> At(d, id.next), body |-> FindLength(d, id.next + 1)]
  BY <1>6 DEF ReadHead, id
<1>14. h = [start |-> s, identified |-> TRUE, tid |-> t, next |-> n, tag |-> tag, body |-> l]
  BY <1>7, <1>8, <1>9, <1>13 DEF l
<1>15. /\ h.identified = TRUE /\ h.tid = t /\ h.next = n /\ h.tag = tag /\ h.body = l
  BY <1>14
<1> HIDE DEF h
<1>16. /\ Written(d, h.body.next, c) /\ Written(d, h.next, o)
       /\ Written(d, h.next + Len(o), rest)
       /\ Len(Envelope(t, o, rest)) = h.next + Len(o) + Len(rest) - 1
  BY <1>6, <1>9, <1>11, <1>15
<1>17. /\ h.next \in Nat \ {0} /\ h.body.next \in Nat \ {0}
       /\ h.body.len = Len(c) /\ h.body.next = h.next + Header(Len(c))
  BY <1>6, <1>11, <1>12, <1>15
<1> QED BY <1>15, <1>16, <1>17 DEF o, h, Opened

-----------------------------------------------------------------------------
(* Requests with a fixed number of fields *)

\* Bytes whose length is written in three octets or less, and the contents of
\* an operation made of a few of them.
Little(s) == s \in Seq(Byte) /\ Len(s) <= MaxContent
Contents(s) == s \in Seq(Byte) /\ Len(s) <= 4 * MaxContent + 100

\* Both fit, and so does what is around them.
LEMMA ContentsFit ==
    /\ \A n \in Nat : n <= MaxContent => n <= 4 * MaxContent + 100
    /\ \A n \in Nat : n <= 4 * MaxContent + 100 => Fits(n)
    /\ \A n, m, k \in Nat, h \in 2 .. 6 :
          n <= 4 * MaxContent + 100 /\ m <= MaxContent /\ k <= 7 => Fits(k + (h + n) + m)
BY SMT DEF MaxContent, Fits

\* EnvelopeRoundTrip for contents that are not too long.
LEMMA EnvelopeOpened ==
    ASSUME NEW d \in Seq(Byte), NEW t \in Nat, t >= 1, Fits(t),
           NEW tag \in Byte, NEW c, Contents(c), NEW rest, Little(rest),
           Written(d, 1, Envelope(t, Tagged(tag, c), rest))
    PROVE  Opened(d, t, tag, c, rest)
<1> DEFINE i == ber_tid_create(t)
           o == Tagged(tag, c)
           a == i \o o
<1>1. c \in Seq(Byte) /\ rest \in Seq(Byte) /\ Len(c) \in Nat /\ Len(rest) \in Nat
  BY LenProperties DEF Contents, Little
<1>2. Fits(Len(c))
  BY <1>1, ContentsFit DEF Contents
<1>3. o \in Seq(Byte) /\ Header(Len(c)) \in 2 .. 6 /\ Len(o) = Header(Len(c)) + Len(c)
  BY <1>1, <1>2, TaggedType
<1>4. i \in Seq(Byte) /\ Len(i) \in 3 .. 7
  BY TidType
<1>5. Inside(t, o, rest) = a \o rest
  BY DEF Inside
<1> HIDE DEF o, i
<1>6. a \in Seq(Byte) /\ Len(a) = Len(i) + Len(o)
  BY <1>3, <1>4, Parts
<1> HIDE DEF a
<1>7. Len(a \o rest) = Len(a) + Len(rest)
  BY <1>1, <1>6, Parts
<1>8. Len(Inside(t, o, rest)) = Len(i) + (Header(Len(c)) + Len(c)) + Len(rest)
  BY <1>3, <1>5, <1>6, <1>7
<1>9. \A k \in 3 .. 7 : k \in Nat /\ k <= 7
  BY SMT
<1>10. Len(i) \in Nat /\ Len(i) <= 7
  BY <1>4, <1>9
<1>11. Fits(Len(i) + (Header(Len(c)) + Len(c)) + Len(rest))
  BY ONLY <1>1, <1>3, <1>10, Contents(c), Little(rest), ContentsFit DEF Contents, Little
<1>12. Fits(Len(Inside(t, Tagged(tag, c), rest)))
  BY <1>8, <1>11 DEF o
<1> QED BY <1>1, <1>2, <1>12, EnvelopeRoundTrip

\* A field that is not too long.
LEMMA FieldAt ==
    ASSUME NEW data \in Seq(Byte), NEW i \in Nat \ {0}, NEW tag \in Byte, NEW c, Contents(c),
           Written(data, i, Tagged(tag, c))
    PROVE  Field(data, i, tag) =
               [found |-> TRUE, body |-> i + Header(Len(c)),
                next |-> i + Len(Tagged(tag, c)), value |-> c]
<1>1. c \in Seq(Byte) /\ Fits(Len(c))
  BY ContentsFit, LenProperties DEF Contents
<1> QED BY <1>1, FieldRoundTrip

\* The size of a component and its place among others.
LEMMA TaggedSize ==
    ASSUME NEW tag \in Byte, NEW c, Contents(c)
    PROVE  /\ Tagged(tag, c) \in Seq(Byte) /\ Len(Tagged(tag, c)) \in Nat
           /\ Len(Tagged(tag, c)) <= 6 + Len(c)
           /\ Len(Tagged(tag, c)) = Header(Len(c)) + Len(c)
<1>1. c \in Seq(Byte) /\ Fits(Len(c)) /\ Len(c) \in Nat
  BY ContentsFit, LenProperties DEF Contents
<1>2. /\ Tagged(tag, c) \in Seq(Byte) /\ Header(Len(c)) \in 2 .. 6
      /\ Len(Tagged(tag, c)) = Header(Len(c)) + Len(c)
  BY <1>1, TaggedType
<1>3. \A h \in 2 .. 6, n \in Nat : h + n <= 6 + n /\ h + n \in Nat
  BY SMT
<1> QED BY <1>1, <1>2, <1>3

\* The constant tags are bytes, and a name of less than 256 bytes is little.
LEMMA Tags ==
    /\ {1, 2, 4, 10, 48, 74, 108, 119, 128, 129, 138, 139} \subseteq Byte
    /\ \A s \in Seq(Byte) : Len(s) < 256 => Little(s)
    /\ \A s : Little(s) => Contents(s)
<1>1. {1, 2, 4, 10, 48, 74, 108, 119, 128, 129, 138, 139} \subseteq Byte
  BY SMT DEF Byte
<1>2. \A n \in Nat : n < 256 => n <= MaxContent
  BY SMT DEF MaxContent
<1> QED BY <1>1, <1>2, ContentsFit, LenProperties DEF Little, Contents

\* Where the operation ends: right behind its contents.
LEMMA OpenedEnd ==
    ASSUME NEW d, NEW t, NEW tag \in Byte, NEW c, Contents(c), NEW rest,
           Opened(d, t, tag, c, rest)
    PROVE  Written(d, ReadHead(d).body.next + Len(c), rest)
<1> DEFINE b == ReadHead(d).body.next
           n == ReadHead(d).next
           s == Header(Len(c))
           k == Len(c)
<1>1. n \in Nat \ {0} /\ b = n + s
  BY DEF Opened
<1>2. Written(d, n + Len(Tagged(tag, c)), rest) /\ Len(Tagged(tag, c)) = s + k
  BY TaggedSize DEF Opened
<1>3. c \in Seq(Byte) /\ Fits(k) /\ k \in Nat
  BY ContentsFit, LenProperties DEF Contents
<1>4. s \in 2 .. 6
  BY <1>3, TaggedType
<1> HIDE DEF b, n, s, k
<1>5. n + (s + k) = b + k
  BY SMT, <1>1, <1>3, <1>4
<1> QED BY <1>2, <1>5 DEF b, k

(***************************************************************************)
(* A delete request arrives whole: the server reads the identifier and the *)
(* name the client gave to LDAP_gen_delete_request, for every name shorter *)
(* than the 256 bytes CREATE_DN can write, and looks for the controls      *)
(* where they begin.                                                       *)
(***************************************************************************)
THEOREM DeleteIntact ==
    ASSUME NEW d \in Seq(Byte), NEW t \in Nat, t >= 1, Fits(t),
           NEW q, q.dn \in Seq(Byte), Len(q.dn) < 256, NEW rest, Little(rest),
           Written(d, 1, Envelope(t, LDAP_gen_delete_request(q), rest)),
           NEW got, got = DecodeDelete(d, ReadHead(d).body)
    PROVE  /\ ReadHead(d).identified = TRUE /\ ReadHead(d).tid = t /\ ReadHead(d).tag = 74
           /\ got.dn = q.dn
           /\ Written(d, got.next, rest)
<1> DEFINE c == q.dn
           l == ReadHead(d).body
<1>1. Contents(c) /\ c \in Seq(Byte) /\ 74 \in Byte
  BY Tags
<1>2. LDAP_gen_delete_request(q) = Tagged(74, c)
  BY DEF LDAP_gen_delete_request, CREATE_DN
<1> HIDE DEF c
<1>3. Written(d, 1, Envelope(t, Tagged(74, c), rest))
  BY <1>2
<1>4. Opened(d, t, 74, c, rest)
  BY ONLY d \in Seq(Byte), t \in Nat, t >= 1, Fits(t), Little(rest), <1>1, <1>3, EnvelopeOpened
<1>5. /\ ReadHead(d).identified = TRUE /\ ReadHead(d).tid = t /\ ReadHead(d).tag = 74
      /\ l.len = Len(c) /\ l.next \in Nat \ {0} /\ Written(d, l.next, c)
  BY <1>4 DEF Opened
<1>6. Written(d, l.next + Len(c), rest)
  BY <1>1, <1>4, OpenedEnd
<1> HIDE DEF l
<1>7. Slice(d, l.next, l.next + Len(c)) = c
  BY <1>1, <1>5, SliceOfWritten
<1>8. got = [op |-> "delete", dn |-> c, next |-> l.next + Len(c)]
  BY <1>5, <1>7 DEF DecodeDelete, l
<1> QED BY <1>5, <1>6, <1>8 DEF c, l

\* Three bytes, as the numbers and the flags of a message are written.
LEMMA NumberAt ==
    ASSUME NEW data \in Seq(Byte), NEW i \in Nat \ {0}, NEW a \in Byte, NEW b \in Byte,
           NEW c \in Byte, Written(data, i, <<a, b, c>>)
    PROVE  Number(data, i, a) = [found |-> TRUE, value |-> c, next |-> i + 3]
<1>1. i + 2 <= Len(data) /\ data[i] = a /\ data[i + 2] = c
  BY SMT DEF Written
<1>2. At(data, i) = a /\ At(data, i + 2) = c
  BY SMT, <1>1 DEF At
<1> QED BY <1>2 DEF Number

\* Sizes of the operations made of a few little parts.
LEMMA SmallSums ==
    /\ \A k, m \in Nat : k < 256 /\ m <= 6 + k => m <= 300
    /\ \A a, b, g \in Nat : a <= 300 /\ b <= 300 /\ g <= 300 =>
          a + b \in Nat /\ a + b + 3 \in Nat /\ a + b + 3 + g <= 4 * MaxContent + 100
    /\ \A a, b \in Nat : a <= 12 + MaxContent /\ b <= 12 + MaxContent =>
          a + b <= 4 * MaxContent + 100
    /\ \A a, b \in Nat : a <= 6 + MaxContent /\ b <= 6 + MaxContent =>
          3 + a + b <= 4 * MaxContent + 100
    /\ \A k, m \in Nat : k <= MaxContent /\ m <= 6 + k =>
          m <= 6 + MaxContent /\ m <= 12 + MaxContent /\ m <= 4 * MaxContent + 100
    /\ \A k, m \in Nat : k <= 6 + MaxContent /\ m <= 6 + k => m <= 12 + MaxContent
BY SMT DEF MaxContent

\* A name of less than 256 bytes as a field.
LEMMA NameField ==
    ASSUME NEW s \in Seq(Byte), Len(s) < 256
    PROVE  /\ CREATE_DN(4, s) = Tagged(4, s)
           /\ CREATE_DN(4, s) \in Seq(Byte)
           /\ Len(CREATE_DN(4, s)) \in Nat /\ Len(CREATE_DN(4, s)) <= 300
           /\ Contents(s)
<1>1. CREATE_DN(4, s) = Tagged(4, s)
  BY DEF CREATE_DN
<1>2. Contents(s) /\ 4 \in Byte
  BY Tags
<1>3. /\ Tagged(4, s) \in Seq(Byte) /\ Len(Tagged(4, s)) \in Nat
      /\ Len(Tagged(4, s)) <= 6 + Len(s) /\ Len(s) \in Nat
  BY <1>2, TaggedSize, LenProperties
<1>4. Len(Tagged(4, s)) <= 300
  BY <1>3, SmallSums
<1> QED BY <1>1, <1>2, <1>3, <1>4

(***************************************************************************)
(* A moddn request arrives whole: the server reads the identifier, the     *)
(* name, the new name and the flag the client gave to                      *)
(* LDAP_gen_moddn_request, for all names shorter than 256 bytes.  Without  *)
(* a new superior, which it does not read, it looks for the controls where *)
(* they begin.                                                             *)
(***************************************************************************)
THEOREM ModDnIntact ==
    ASSUME NEW d \in Seq(Byte), NEW t \in Nat, t >= 1, Fits(t),
           NEW q, q.dn \in Seq(Byte), Len(q.dn) < 256, q.rdn \in Seq(Byte), Len(q.rdn) < 256,
           q.sup \in Seq(Byte), Len(q.sup) < 256, q.delete_flag \in {0, 1},
           NEW rest, Little(rest),
           Written(d, 1, Envelope(t, LDAP_gen_moddn_request(q), rest)),
           NEW got, got = DecodeModDn(d, ReadHead(d).body.next)
    PROVE  /\ ReadHead(d).identified = TRUE /\ ReadHead(d).tid = t /\ ReadHead(d).tag = 108
           /\ got.dn = q.dn /\ got.rdn = q.rdn /\ got.delete_flag = q.delete_flag
           /\ q.sup = NoValue => Written(d, got.next, rest)
<1> DEFINE a == CREATE_DN(4, q.dn)
           b == CREATE_DN(4, q.rdn)
           f == <<1, 1, IF q.delete_flag = 1 THEN 1 ELSE 0>>
           g == IF q.sup = NoValue THEN <<>> ELSE CREATE_DN(4, q.sup)
           ab == a \o b
           abf == ab \o f
           c == abf \o g
           i == ReadHead(d).body.next
<1>1. /\ a = Tagged(4, q.dn) /\ a \in Seq(Byte) /\ Len(a) \in Nat /\ Len(a) <= 300
      /\ Contents(q.dn)
  BY NameField
<1>2. /\ b = Tagged(4, q.rdn) /\ b \in Seq(Byte) /\ Len(b) \in Nat /\ Len(b) <= 300
      /\ Contents(q.rdn)
  BY NameField
<1>3. g \in Seq(Byte) /\ Len(g) \in Nat /\ Len(g) <= 300 /\ (q.sup = NoValue => g = <<>>)
  <2>1. CASE q.sup = NoValue
    <3>1. <<>> \in Seq(Byte) /\ Len(<<>>) = 0
      OBVIOUS
    <3> QED BY <2>1, <3>1
  <2>2. CASE q.sup # NoValue
    BY <2>2, NameField
  <2> QED BY <2>1, <2>2
<1>4. 1 \in Byte /\ 0 \in Byte /\ q.delete_flag \in Byte
  BY SMT DEF Byte
<1>5. f = <<1, 1, q.delete_flag>>
  BY SMT
<1>6. f \in Seq(Byte) /\ Len(f) = 3
  BY <1>4
<1>7. LDAP_gen_moddn_request(q) = Tagged(108, c)
  BY DEF LDAP_gen_moddn_request
<1> HIDE DEF a, b, f, g
<1>8. ab \in Seq(Byte) /\ Len(ab) = Len(a) + Len(b)
  BY <1>1, <1>2, Parts
<1> HIDE DEF ab
<1>9. abf \in Seq(Byte) /\ Len(abf) = Len(a) + Len(b) + 3
  <2>1. abf \in Seq(Byte) /\ Len(abf) = Len(ab) + Len(f)
    BY ONLY <1>6, <1>8, Parts DEF abf
  <2> QED BY <1>6, <1>8, <2>1
<1> HIDE DEF abf
<1>10. c \in Seq(Byte) /\ Len(c) = Len(a) + Len(b) + 3 + Len(g)
  BY <1>3, <1>9, Parts
<1> HIDE DEF c
<1>11. Contents(c) /\ 108 \in Byte /\ 4 \in Byte
  BY <1>1, <1>2, <1>3, <1>10, SmallSums, Tags DEF Contents
<1>12. Written(d, 1, Envelope(t, Tagged(108, c), rest))
  BY <1>7
<1>13. Opened(d, t, 108, c, rest)
  BY ONLY d \in Seq(Byte), t \in Nat, t >= 1, Fits(t), Little(rest), <1>11, <1>12, EnvelopeOpened
<1>14. /\ ReadHead(d).identified = TRUE /\ ReadHead(d).tid = t /\ ReadHead(d).tag = 108
       /\ i \in Nat \ {0} /\ Written(d, i, c)
  BY <1>13 DEF Opened
<1>15. Written(d, i + Len(c), rest)
  BY <1>11, <1>13, OpenedEnd
<1>16. got = DecodeModDn(d, i)
  OBVIOUS
<1> HIDE DEF i
<1> DEFINE j == i + Len(a)
           k == i + Len(ab)
<1>17. Written(d, i, abf)
  BY <1>3, <1>9, <1>14, WrittenParts DEF c
<1>18. Written(d, i, ab) /\ Written(d, k, f)
  BY <1>6, <1>8, <1>14, <1>17, WrittenParts DEF abf
<1>19. Written(d, i, a) /\ Written(d, j, b)
  <2>1. Written(d, i, a \o b)
    BY <1>18 DEF ab
  <2>2. Written(d, i, a) /\ Written(d, i + Len(a), b)
    BY ONLY d \in Seq(Byte), <1>1, <1>2, <1>14, <2>1, WrittenParts
  <2> QED BY <2>2
<1>20. j \in Nat \ {0} /\ k \in Nat \ {0} /\ k = j + Len(b) /\ k + 3 = i + (Len(a) + Len(b) + 3)
  <2> DEFINE m == Len(a)
             n == Len(b)
             p == Len(ab)
  <2>1. m \in Nat /\ n \in Nat /\ p = m + n
    BY <1>1, <1>2, <1>8
  <2> HIDE DEF m, n, p
  <2>2. i + m \in Nat \ {0} /\ i + p \in Nat \ {0} /\ i + p = (i + m) + n /\ (i + p) + 3 = i + (m + n + 3)
    BY SMT, <1>14, <2>1
  <2> QED BY <2>2 DEF m, n, p
<1> HIDE DEF j, k
<1>21. Field(d, i, 4) = [found |-> TRUE, body |-> i + Header(Len(q.dn)), next |-> j, value |-> q.dn]
  <2>1. Written(d, i, Tagged(4, q.dn))
    BY <1>1, <1>19
  <2>2. Field(d, i, 4) = [found |-> TRUE, body |-> i + Header(Len(q.dn)),
                          next |-> i + Len(Tagged(4, q.dn)), value |-> q.dn]
    <3>1. 4 \in Byte /\ i \in Nat \ {0} /\ Contents(q.dn)
      BY <1>1, <1>11, <1>14
    <3> QED BY ONLY d \in Seq(Byte), <2>1, <3>1, FieldAt
  <2> QED BY <1>1, <2>2 DEF j
<1>22. Field(d, j, 4) = [found |-> TRUE, body |-> j + Header(Len(q.rdn)), next |-> k, value |-> q.rdn]
  <2>1. Written(d, j, Tagged(4, q.rdn))
    BY <1>2, <1>19
  <2>2. Field(d, j, 4) = [found |-> TRUE, body |-> j + Header(Len(q.rdn)),
                          next |-> j + Len(Tagged(4, q.rdn)), value |-> q.rdn]
    BY ONLY d \in Seq(Byte), <1>2, <1>11, <1>20, <2>1, FieldAt
  <2> QED BY <1>2, <1>20, <2>2
<1>23. Number(d, k, 1) = [found |-> TRUE, value |-> q.delete_flag, next |-> k + 3]
  <2> DEFINE e == q.delete_flag
  <2>1. Written(d, k, <<1, 1, e>>) /\ 1 \in Byte /\ e \in Byte /\ k \in Nat \ {0}
    BY <1>4, <1>5, <1>18, <1>20
  <2> HIDE DEF e
  <2>2. Number(d, k, 1) = [found |-> TRUE, value |-> e, next |-> k + 3]
    BY ONLY d \in Seq(Byte), <2>1, NumberAt
  <2> QED BY <2>2 DEF e
<1>24. DecodeModDn(d, i) = [op |-> "moddn", dn |-> q.dn, rdn |-> q.rdn,
                            delete_flag |-> q.delete_flag, next |-> k + 3]
  BY <1>21, <1>22, <1>23 DEF DecodeModDn
<1>25. ASSUME q.sup = NoValue PROVE Written(d, k + 3, rest)
  <2>1. Len(g) = 0
    BY <1>3, <1>25
  <2> DEFINE m == Len(a) + Len(b) + 3
  <2>2. m \in Nat
    BY <1>1, <1>2, SmallSums
  <2>3. Len(c) = m + Len(g) /\ k + 3 = i + m
    BY <1>10, <1>20
  <2> HIDE DEF m
  <2>4. Len(c) = m
    BY SMT, <2>1, <2>2, <2>3
  <2> QED BY <1>15, <2>3, <2>4
<1> QED BY <1>14, <1>16, <1>24, <1>25

\* Two fields in a row at position i: both are read, and the reader is behind them.
TwoFields(d, i, x, u, y, v) ==
    LET first  == Field(d, i, x)
        second == Field(d, first.next, y)
    IN  /\ first.found = TRUE /\ first.value = u
        /\ second.found = TRUE /\ second.value = v
        /\ second.next = i + Len(Tagged(x, u) \o Tagged(y, v))

LEMMA TwoFieldsAt ==
    ASSUME NEW d \in Seq(Byte), NEW i \in Nat \ {0}, NEW x \in Byte, NEW u, Contents(u),
           NEW y \in Byte, NEW v, Contents(v), Written(d, i, Tagged(x, u) \o Tagged(y, v))
    PROVE  TwoFields(d, i, x, u, y, v)
<1> DEFINE a == Tagged(x, u)
           b == Tagged(y, v)
           j == i + Len(a)
           m == Len(a)
           n == Len(b)
<1>1. a \in Seq(Byte) /\ b \in Seq(Byte) /\ m \in Nat /\ n \in Nat
  BY TaggedSize
<1>2. Len(a \o b) = m + n
  BY <1>1, Parts
<1>3. Written(d, i, a) /\ Written(d, j, b)
  <2> HIDE DEF a, b
  <2>1. Written(d, i, a \o b)
    BY DEF a, b
  <2> QED BY ONLY d \in Seq(Byte), i \in Nat \ {0}, <1>1, <2>1, WrittenParts
<1>4. Field(d, i, x) = [found |-> TRUE, body |-> i + Header(Len(u)), next |-> j, value |-> u]
  BY <1>3, FieldAt
<1>5. j \in Nat \ {0} /\ j + n = i + (m + n)
  <2> HIDE DEF m, n
  <2>1. i + m \in Nat \ {0} /\ (i + m) + n = i + (m + n)
    BY SMT, <1>1
  <2> QED BY <2>1 DEF m
<1> HIDE DEF j
<1>6. Field(d, j, y) = [found |-> TRUE, body |-> j + Header(Len(v)), next |-> j + Len(b), value |-> v]
  BY <1>3, <1>5, FieldAt
<1> HIDE DEF a, b
<1>7. Field(d, j, y).next = i + Len(a \o b)
  BY <1>2, <1>5, <1>6
<1> QED BY <1>4, <1>6, <1>7 DEF TwoFields, a, b

(***************************************************************************)
(* An extended request arrives whole, whichever of the two generators      *)
(* wrote it: the server reads the identifier, the request name and the     *)
(* value (with the sequence header LDAP_gen_extended_request puts in front *)
(* of it), for all names and values of less than 2^24 bytes, and looks for *)
(* the controls where they begin.                                          *)
(***************************************************************************)
THEOREM ExtendedIntact ==
    ASSUME NEW d \in Seq(Byte), NEW t \in Nat, t >= 1, Fits(t),
           NEW q, Little(q.oid), Little(q.value), NEW rest, Little(rest),
           NEW request,
           NEW value, \/ request = LDAP_gen_extended_common_request(q) /\ value = q.value
                      \/ request = LDAP_gen_extended_request(q) /\ value = Tagged(48, q.value),
           Written(d, 1, Envelope(t, request, rest)),
           NEW got, got = DecodeExtended(d, ReadHead(d).body.next)
    PROVE  /\ ReadHead(d).identified = TRUE /\ ReadHead(d).tid = t /\ ReadHead(d).tag = 119
           /\ got.oid = q.oid /\ got.value = value
           /\ Written(d, got.next, rest)
<1> DEFINE u == q.oid
           w == q.value
           a == Tagged(128, u)
           b == Tagged(129, value)
           c == a \o b
           i == ReadHead(d).body.next
<1>1. Contents(u) /\ Contents(w) /\ {48, 119, 128, 129} \subseteq Byte
  BY Tags
<1>2. Len(u) \in Nat /\ Len(w) \in Nat /\ Len(u) <= MaxContent /\ Len(w) <= MaxContent
  BY LenProperties DEF Little
<1>3. request = Tagged(119, c)
  BY DEF LDAP_gen_extended_common_request, LDAP_gen_extended_request
<1>4. value = w \/ value = Tagged(48, w)
  OBVIOUS
<1> HIDE DEF u, w
<1>5. value \in Seq(Byte) /\ Len(value) \in Nat /\ Len(value) <= 6 + MaxContent
  <2>1. CASE value = w
    <3>1. w \in Seq(Byte)
      BY <1>1 DEF Contents
    <3>2. \A n \in Nat : n <= MaxContent => n <= 6 + MaxContent
      BY SMT DEF MaxContent
    <3> QED BY <1>2, <2>1, <3>1, <3>2
  <2>2. CASE value = Tagged(48, w)
    <3>1. 48 \in Byte
      BY <1>1
    <3>2. /\ Tagged(48, w) \in Seq(Byte) /\ Len(Tagged(48, w)) \in Nat
          /\ Len(Tagged(48, w)) <= 6 + Len(w)
      BY <1>1, <3>1, TaggedSize
    <3> QED BY <1>2, <2>2, <3>2, SmallSums
  <2> QED BY <1>4, <2>1, <2>2
<1>6. Contents(value)
  <2>1. \A n \in Nat : n <= 6 + MaxContent => n <= 4 * MaxContent + 100
    BY SMT DEF MaxContent
  <2> QED BY <1>5, <2>1 DEF Contents
<1>7. /\ a \in Seq(Byte) /\ Len(a) \in Nat /\ Len(a) <= 6 + Len(u)
      /\ b \in Seq(Byte) /\ Len(b) \in Nat /\ Len(b) <= 6 + Len(value)
  <2>1. 128 \in Byte /\ 129 \in Byte
    BY <1>1
  <2> QED BY <1>1, <1>6, <2>1, TaggedSize
<1>8. Len(a) <= 12 + MaxContent /\ Len(b) <= 12 + MaxContent
  BY <1>2, <1>5, <1>7, SmallSums
<1>9. Contents(c)
  <2> HIDE DEF a, b
  <2>1. a \o b \in Seq(Byte) /\ Len(a \o b) = Len(a) + Len(b)
    BY <1>7, Parts
  <2>2. Len(a) + Len(b) <= 4 * MaxContent + 100
    BY <1>7, <1>8, SmallSums
  <2> QED BY <2>1, <2>2 DEF Contents
<1>10. Opened(d, t, 119, c, rest)
  <2>1. 119 \in Byte /\ Written(d, 1, Envelope(t, Tagged(119, c), rest))
    BY <1>1, <1>3
  <2> HIDE DEF c
  <2> QED BY ONLY d \in Seq(Byte), t \in Nat, t >= 1, Fits(t), Little(rest), <1>9, <2>1,
                  EnvelopeOpened
<1>11. /\ ReadHead(d).identified = TRUE /\ ReadHead(d).tid = t /\ ReadHead(d).tag = 119
       /\ i \in Nat \ {0} /\ Written(d, i, c)
  BY <1>10 DEF Opened
<1>12. Written(d, i + Len(c), rest)
  <2>1. 119 \in Byte
    BY <1>1
  <2> QED BY <1>9, <1>10, <2>1, OpenedEnd
<1> HIDE DEF i
<1>13. TwoFields(d, i, 128, u, 129, value)
  <2>1. 128 \in Byte /\ 129 \in Byte
    BY <1>1
  <2> QED BY <1>1, <1>6, <1>11, <2>1, TwoFieldsAt
<1>14. got.oid = u /\ got.value = value /\ got.next = i + Len(c)
  BY <1>13 DEF TwoFields, DecodeExtended, i
<1> QED BY <1>11, <1>12, <1>14 DEF u

-----------------------------------------------------------------------------
(* Responses *)

\* What the client reads at position i of a result the server wrote from p.
ResultRead(d, i, p) ==
    /\ Number(d, i, 10) = [found |-> TRUE, value |-> p.code % 256, next |-> i + 3]
    /\ TwoFields(d, i + 3, 4, p.matched, 4, p.message)

LEMMA ResultReadAt ==
    ASSUME NEW d \in Seq(Byte), NEW i \in Nat \ {0}, NEW p, p.code \in Nat,
           Little(p.matched), Little(p.message), Written(d, i, ResultBytes(p))
    PROVE  ResultRead(d, i, p)
<1> DEFINE u == p.matched
           v == p.message
           e == p.code % 256
           h == <<10, 1, e>>
           a == Tagged(4, u)
           b == Tagged(4, v)
<1>1. Contents(u) /\ Contents(v) /\ 4 \in Byte /\ 10 \in Byte /\ 1 \in Byte
  BY Tags
<1>2. e \in Byte
  <2>1. \A n \in Nat : n % 256 \in Byte
    BY SMT DEF Byte
  <2> QED BY <2>1
<1>3. a \in Seq(Byte) /\ b \in Seq(Byte)
  BY <1>1, TaggedSize
<1>4. Written(d, i, h \o a \o b)
  BY DEF ResultBytes
<1> HIDE DEF u, v, e
<1>5. h \in Seq(Byte) /\ Len(h) = 3
  BY <1>1, <1>2
<1>6. Written(d, i, <<10, 1, e>>) /\ Written(d, i + 3, a \o b)
  <2> HIDE DEF a, b, h
  <2>1. h \o a \o b = h \o (a \o b)
    BY <1>3, <1>5, ConcatAssociative
  <2>2. a \o b \in Seq(Byte)
    BY <1>3, Parts
  <2>3. Written(d, i, h \o (a \o b))
    BY <1>4, <2>1
  <2>4. Written(d, i, h) /\ Written(d, i + Len(h), a \o b)
    BY ONLY d \in Seq(Byte), i \in Nat \ {0}, <1>5, <2>2, <2>3, WrittenParts
  <2> QED BY <1>5, <2>4 DEF h
<1>7. Number(d, i, 10) = [found |-> TRUE, value |-> e, next |-> i + 3]
  BY ONLY d \in Seq(Byte), i \in Nat \ {0}, <1>1, <1>2, <1>6, NumberAt
<1>8. i + 3 \in Nat \ {0}
  BY SMT
<1>9. TwoFields(d, i + 3, 4, u, 4, v)
  <2> DEFINE j == i + 3
  <2>1. j \in Nat \ {0} /\ Written(d, j, Tagged(4, u) \o Tagged(4, v))
    BY <1>6, <1>8
  <2> HIDE DEF j
  <2>2. TwoFields(d, j, 4, u, 4, v)
    BY ONLY d \in Seq(Byte), <1>1, <2>1, TwoFieldsAt
  <2> QED BY <2>2 DEF j
<1> QED BY <1>7, <1>9 DEF ResultRead, u, v, e

\* Bytes without a zero at the front of a string buffer are read back, with
\* what an earlier, longer string left behind them.
LEMMA StringStarts ==
    ASSUME NEW m \in Seq(Byte), \A k \in DOMAIN m : m[k] # 0, NEW x \in Seq(Byte)
    PROVE  IsPrefix(m, StringIn(m \o x))
<1> DEFINE y == m \o x
           zeros == {k \in DOMAIN y : y[k] = 0}
           n == Len(m)
<1>1. /\ y \in Seq(Byte) /\ n \in Nat /\ Len(y) \in Nat /\ n <= Len(y) /\ DOMAIN y = 1 .. Len(y)
      /\ DOMAIN m = 1 .. n
  BY Parts, LenProperties
<1>2. \A k \in 1 .. n : y[k] = m[k]
  BY SMT, ConcatProperties, LenProperties
<1>3. \A k \in zeros : k \in Nat /\ k <= Len(y) /\ n < k
  <2>1. \A k \in 1 .. Len(y) : k <= n => y[k] # 0
    BY <1>1, <1>2
  <2> HIDE DEF y, n
  <2> QED BY <1>1, <2>1
<1> HIDE DEF y, n
<1>4. ASSUME NEW l \in Nat, n <= l, l <= Len(y)
      PROVE  IsPrefix(m, SubSeq(y, 1, l))
  <2> DEFINE z == SubSeq(y, 1, l)
  <2>1. z \in Seq(Byte) /\ Len(z) = l /\ \A k \in 1 .. l : z[k] = y[k]
    BY SMT, <1>1, <1>4
  <2> HIDE DEF z
  <2>2. SubSeq(m, 1, n) = m
    BY SMT DEF n
  <2>3. /\ SubSeq(z, 1, n) \in Seq(Byte) /\ Len(SubSeq(z, 1, n)) = n
        /\ \A k \in 1 .. n : SubSeq(z, 1, n)[k] = z[k]
    BY SMT, <1>1, <1>4, <2>1
  <2>4. \A k \in 1 .. n : z[k] = m[k]
    BY <1>1, <1>2, <1>4, <2>1
  <2>5. SubSeq(z, 1, n) = m
    <3> DEFINE w == SubSeq(z, 1, n)
    <3>1. w \in Seq(Byte) /\ Len(w) = Len(m) /\ \A k \in 1 .. Len(m) : w[k] = m[k]
      BY <2>3, <2>4 DEF n
    <3> HIDE DEF w
    <3>2. w = m
      BY SMT, <3>1
    <3> QED BY <3>2 DEF w
  <2> QED BY <1>4, <2>1, <2>2, <2>5 DEF IsPrefix, n, z
<1>5. CASE zeros = {}
  <2>1. StringIn(y) = y
    BY <1>5 DEF StringIn
  <2>2. y = SubSeq(y, 1, Len(y))
    BY SMT, <1>1
  <2>3. IsPrefix(m, SubSeq(y, 1, Len(y)))
    BY <1>1, <1>4
  <2> QED BY <2>1, <2>2, <2>3 DEF y
<1>6. CASE zeros # {}
  <2> DEFINE k == CHOOSE i \in zeros : \A z \in zeros : i <= z
  <2>1. \E i \in zeros : \A z \in zeros : i <= z
    <3>1. zeros \subseteq Nat
      BY <1>3
    <3> HIDE DEF zeros
    <3> QED BY <1>6, <3>1, LeastNatural
  <2>2. StringIn(y) = SubSeq(y, 1, k - 1)
    BY <1>6 DEF StringIn
  <2>3. k \in zeros
    BY <2>1
  <2> HIDE DEF k
  <2>4. k - 1 \in Nat /\ n <= k - 1 /\ k - 1 <= Len(y)
    BY <1>1, <1>3, <2>3
  <2>5. IsPrefix(m, SubSeq(y, 1, k - 1))
    BY <1>4, <2>4
  <2> QED BY <2>2, <2>5 DEF y
<1> QED BY <1>5, <1>6

\* The sizes of a result's parts, and of the result.
LEMMA ResultContents ==
    ASSUME NEW p, p.code \in Nat, Little(p.matched), Little(p.message)
    PROVE  Contents(ResultBytes(p))
<1> DEFINE u == p.matched
           v == p.message
           e == p.code % 256
           h == <<10, 1, e>>
           a == Tagged(4, u)
           b == Tagged(4, v)
<1>1. Contents(u) /\ Contents(v) /\ 4 \in Byte /\ 10 \in Byte /\ 1 \in Byte
  BY Tags
<1>2. e \in Byte
  <2>1. \A n \in Nat : n % 256 \in Byte
    BY SMT DEF Byte
  <2> QED BY <2>1
<1>3. Len(u) \in Nat /\ Len(v) \in Nat /\ Len(u) <= MaxContent /\ Len(v) <= MaxContent
  BY LenProperties DEF Little
<1>4. ResultBytes(p) = h \o a \o b
  BY DEF ResultBytes
<1> HIDE DEF u, v, e
<1>5. h \in Seq(Byte) /\ Len(h) = 3
  BY <1>1, <1>2
<1>6. /\ a \in Seq(Byte) /\ Len(a) \in Nat /\ Len(a) <= 6 + Len(u)
      /\ b \in Seq(Byte) /\ Len(b) \in Nat /\ Len(b) <= 6 + Len(v)
  BY <1>1, TaggedSize
<1>7. Len(a) <= 6 + MaxContent /\ Len(b) <= 6 + MaxContent
  BY <1>3, <1>6, SmallSums
<1> HIDE DEF h, a, b
<1>8. h \o a \in Seq(Byte) /\ Len(h \o a) = 3 + Len(a)
  <2>1. h \o a \in Seq(Byte) /\ Len(h \o a) = Len(h) + Len(a)
    BY <1>5, <1>6, Parts
  <2> QED BY <1>5, <2>1
<1>9. h \o a \o b \in Seq(Byte) /\ Len(h \o a \o b) = 3 + Len(a) + Len(b)
  <2> DEFINE g == h \o a
  <2>1. g \in Seq(Byte) /\ Len(g) = 3 + Len(a)
    BY <1>8
  <2> HIDE DEF g
  <2>2. g \o b \in Seq(Byte) /\ Len(g \o b) = Len(g) + Len(b)
    BY <1>6, <2>1, Parts
  <2> QED BY <2>1, <2>2 DEF g
<1>10. 3 + Len(a) + Len(b) <= 4 * MaxContent + 100
  BY <1>6, <1>7, SmallSums
<1> QED BY <1>4, <1>9, <1>10 DEF Contents

\* The tags of results are those of no entry and no extended response.
LEMMA ResultTags ==
    ASSUME NEW op \in DOMAIN ResultTag
    PROVE  ResultTag[op] \in Byte /\ ResultTag[op] \notin {100, 120}
BY SMT DEF ResultTag, Byte

\* The diagnostic buffer behind a result: the message, or the text of the code.
Text(p) ==
    IF p.message # <<>> THEN p.message
    ELSE IF p.code = 0 THEN <<>> ELSE error_to_string(p.code)

\* What ends up in the diagnostic buffer starts with the text.
LEMMA Diagnosed ==
    ASSUME NEW p, p.code \in 0 .. 127, p.message \in Seq(Byte),
           \A k \in DOMAIN p.message : p.message[k] # 0,
           NEW cleared \in Seq(Byte), Len(cleared) >= 1, cleared[1] = 0,
           NEW filled, filled = CopiedOver(cleared, p.message),
           NEW diag, diag = IF p.code # 0 /\ filled[1] = 0
                            THEN CopiedOver(filled, error_to_string(p.code) \o << 0 >>)
                            ELSE filled
    PROVE  IsPrefix(Text(p), StringIn(diag))
<1> DEFINE m == p.message
           e == p.code
           tail(old, new) == Slice(old, Len(new) + 1, Len(old) + 1)
<1>1. \A old, new \in Seq(Byte) : tail(old, new) \in Seq(Byte)
  <2> SUFFICES ASSUME NEW old \in Seq(Byte), NEW new \in Seq(Byte)
               PROVE  tail(old, new) \in Seq(Byte)
    OBVIOUS
  <2>1. Slice(old, Len(new) + 1, Len(old) + 1) = SubSeq(old, Len(new) + 1, Len(old))
    BY SMT DEF Slice
  <2>2. SubSeq(old, Len(new) + 1, Len(old)) \in Seq(Byte)
    BY SMT
  <2> QED BY <2>1, <2>2
<1>2. filled = m \o tail(cleared, m) /\ tail(cleared, m) \in Seq(Byte)
  BY <1>1 DEF CopiedOver
<1>3. m \in Seq(Byte) /\ (\A k \in DOMAIN m : m[k] # 0) /\ e \in 0 .. 127
  OBVIOUS
<1>4. diag = IF e # 0 /\ filled[1] = 0
             THEN CopiedOver(filled, error_to_string(e) \o <<0>>) ELSE filled
  OBVIOUS
<1>5. IsPrefix(m, StringIn(filled))
  BY <1>2, <1>3, StringStarts
<1>6. filled \in Seq(Byte)
  BY <1>2, <1>3, Parts
<1>7. Text(p) = IF m # <<>> THEN m ELSE IF e = 0 THEN <<>> ELSE error_to_string(e)
  BY DEF Text
<1> HIDE DEF m, e, tail
<1>8. CASE m # <<>>
  <2>1. Len(m) >= 1 /\ 1 \in DOMAIN m
    BY SMT, <1>3, <1>8
  <2>2. filled[1] = m[1]
    BY <1>2, <1>3, <2>1, Parts
  <2>3. diag = filled
    BY <1>3, <1>4, <2>1, <2>2
  <2> QED BY <1>5, <1>7, <1>8, <2>3
<1>9. CASE m = <<>> /\ e = 0
  <2>1. diag = filled
    BY <1>4, <1>9
  <2> QED BY <1>5, <1>7, <1>9, <2>1
<1>10. CASE m = <<>> /\ e # 0
  <2>1. filled[1] = 0
    <3>1. tail(cleared, <<>>) = SubSeq(cleared, 1, Len(cleared))
      BY SMT DEF tail, Slice
    <3>2. SubSeq(cleared, 1, Len(cleared)) = cleared
      BY SMT
    <3>3. <<>> \o cleared = cleared
      BY ConcatEmptySeq
    <3> QED BY <1>2, <1>10, <3>1, <3>2, <3>3
  <2> DEFINE w == error_to_string(e)
             z == <<0>>
             x == tail(filled, w \o z)
  <2>2. w \in Seq(Byte) /\ \A k \in DOMAIN w : w[k] # 0
    <3>1. e + 2 \in Byte /\ e + 2 # 0 /\ 69 \in Byte /\ 69 # 0
      BY SMT, <1>3 DEF Byte
    <3> DEFINE y == e + 2
    <3>2. w = <<69, 69, 69, y>>
      BY DEF error_to_string
    <3> HIDE DEF y, w
    <3>3. y \in Byte /\ y # 0
      BY <3>1 DEF y
    <3> QED BY SMT, <3>1, <3>2, <3>3
  <2>3. z \in Seq(Byte)
    BY SMT DEF Byte
  <2>4. diag = (w \o z) \o x
    BY <1>4, <1>10, <2>1 DEF CopiedOver, tail
  <2> HIDE DEF w, z
  <2>5. w \o z \in Seq(Byte)
    BY <2>2, <2>3, Parts
  <2>6. x \in Seq(Byte)
    BY <1>1, <1>6, <2>5
  <2> HIDE DEF x
  <2>7. diag = w \o (z \o x) /\ z \o x \in Seq(Byte)
    <3>1. (w \o z) \o x = w \o (z \o x)
      BY ONLY <2>2, <2>3, <2>6, ConcatAssociative
    <3>2. z \o x \in Seq(Byte)
      BY <2>3, <2>6, Parts
    <3> QED BY <2>4, <3>1, <3>2
  <2>8. IsPrefix(w, StringIn(diag))
    BY <2>2, <2>7, StringStarts
  <2> QED BY <1>7, <1>10, <2>8 DEF w
<1> QED BY <1>8, <1>9, <1>10

(***************************************************************************)
(* A result arrives whole, for every message identifier and strings of     *)
(* less than 2^24 bytes, whatever the client's buffers held before: the    *)
(* client reads the identifier, the kind, the code and the matched name    *)
(* _gen_ldap_result was given; its diagnostic buffer starts with the       *)
(* message or, where there is none, with the text of the code; and the     *)
(* entries collected before stay what they were.                           *)
(***************************************************************************)
THEOREM ResultIntact ==
    ASSUME NEW d \in Seq(Byte), NEW t \in Nat, t >= 1, Fits(t),
           NEW p, p.op \in DOMAIN ResultTag, p.code \in 0 .. 127,
           Little(p.matched), Little(p.message),
           \A k \in DOMAIN p.message : p.message[k] # 0,
           Written(d, 1, Envelope(t, _gen_ldap_result(p), <<>>)),
           NEW n, NEW diag \in Seq(Byte), NEW rber,
           NEW r, r = ldap_decode_response(d, n, diag, rber)
    PROVE  /\ r.tid = t /\ r.tag = ResultTag[p.op]
           /\ r.code = p.code /\ r.matched = p.matched
           /\ IsPrefix(Text(p), StringIn(r.diag))
           /\ r.rber = rber
<1> DEFINE tag == ResultTag[p.op]
           c == ResultBytes(p)
           i == ReadHead(d).body.next
           cleared == IF diag = <<>> THEN <<0>> ELSE [diag EXCEPT ![1] = 0]
           filled == CopiedOver(cleared, p.message)
<1>1. tag \in Byte /\ tag \notin {100, 120}
  BY ResultTags
<1>2. p.code \in Nat /\ p.code % 256 = p.code /\ Signed(p.code) = p.code
  <2>1. \A k \in 0 .. 127 : k \in Nat /\ k % 256 = k /\ Signed(k) = k
    BY SMT DEF Signed
  <2> QED BY <2>1
<1>3. Contents(c)
  BY <1>2, ResultContents
<1>4. Little(<<>>)
  BY SMT DEF Little, MaxContent
<1>5. _gen_ldap_result(p) = Tagged(tag, c)
  BY DEF _gen_ldap_result
<1> HIDE DEF tag, c
<1>6. Opened(d, t, tag, c, <<>>)
  <2>1. Written(d, 1, Envelope(t, Tagged(tag, c), <<>>))
    BY <1>5
  <2> QED BY ONLY d \in Seq(Byte), t \in Nat, t >= 1, Fits(t), <1>1, <1>3, <1>4, <2>1,
                  EnvelopeOpened
<1>7. /\ ReadHead(d).tid = t /\ ReadHead(d).tag = tag
      /\ i \in Nat \ {0} /\ Written(d, i, c)
  BY <1>6 DEF Opened
<1> HIDE DEF i
<1>8. ResultRead(d, i, p)
  BY <1>2, <1>7, ResultReadAt DEF c
<1>9. /\ Number(d, i, 10).found = TRUE /\ Number(d, i, 10).value = p.code
      /\ Field(d, Number(d, i, 10).next, 4).value = p.matched
      /\ Field(d, Field(d, Number(d, i, 10).next, 4).next, 4).value = p.message
  BY <1>2, <1>8 DEF ResultRead, TwoFields
<1>10. r = [tid |-> t, tag |-> tag, code |-> p.code, matched |-> p.matched,
            diag |-> IF p.code # 0 /\ filled[1] = 0
                     THEN CopiedOver(filled, error_to_string(p.code) \o <<0>>) ELSE filled,
            rber |-> rber]
  BY <1>1, <1>2, <1>7, <1>9 DEF ldap_decode_response, i
<1>11. cleared \in Seq(Byte) /\ Len(cleared) >= 1 /\ cleared[1] = 0
  <2>1. 0 \in Byte
    BY SMT DEF Byte
  <2>2. CASE diag = <<>>
    BY SMT, <2>1, <2>2
  <2>3. CASE diag # <<>>
    BY SMT, <2>1, <2>3
  <2> QED BY <2>2, <2>3
<1> HIDE DEF cleared
<1>12. p.message \in Seq(Byte)
  BY DEF Little
<1>13. IsPrefix(Text(p), StringIn(r.diag))
  <2> DEFINE g == IF p.code # 0 /\ filled[1] = 0
                  THEN CopiedOver(filled, error_to_string(p.code) \o <<0>>) ELSE filled
  <2>1. IsPrefix(Text(p), StringIn(g))
    BY <1>11, <1>12, Diagnosed
  <2>2. r.diag = g
    BY <1>10
  <2> QED BY <2>1, <2>2
<1> QED BY <1>10, <1>13 DEF tag

(***************************************************************************)
(* A search entry or an extended response is collected whole, behind those *)
(* collected before and without a byte of the message that follows it: the *)
(* client appends exactly the operation the server wrote, whatever stands  *)
(* in it, and the application later reads the entries from there.  n is    *)
(* the length LDAP_clnt_decode has found.                                  *)
(***************************************************************************)
THEOREM EntryCollected ==
    ASSUME NEW d \in Seq(Byte), NEW t \in Nat, t >= 1, Fits(t),
           NEW tag \in {100, 120}, NEW c, Contents(c),
           Written(d, 1, Envelope(t, Tagged(tag, c), <<>>)),
           NEW n, n = Len(Envelope(t, Tagged(tag, c), <<>>)),
           NEW diag, NEW rber,
           NEW r, r = ldap_decode_response(d, n, diag, rber)
    PROVE  /\ r.tid = t /\ r.tag = tag
           /\ r.rber = rber \o Tagged(tag, c)
<1> DEFINE o == Tagged(tag, c)
           i == ReadHead(d).next
           k == Len(o)
<1>1. tag \in Byte
  BY SMT DEF Byte
<1>2. Little(<<>>)
  BY SMT DEF Little, MaxContent
<1>3. Opened(d, t, tag, c, <<>>)
  BY <1>1, <1>2, EnvelopeOpened
<1>4. ReadHead(d).tid = t /\ ReadHead(d).tag = tag /\ i \in Nat \ {0} /\ Written(d, i, o)
  BY <1>3 DEF Opened
<1>5. n = i + k + Len(<<>>) - 1
  BY <1>3 DEF Opened
<1>6. o \in Seq(Byte) /\ k \in Nat
  BY <1>1, TaggedSize
<1>7. r.tid = t /\ r.tag = tag /\ r.rber = rber \o SubSeq(d, i, n)
  BY <1>4 DEF ldap_decode_response, Collected
<1> HIDE DEF o, i
<1>8. Slice(d, i, i + k) = o
  BY <1>4, <1>6, SliceOfWritten
<1>9. i + k - 1 <= Len(d) /\ Len(d) \in Nat
  BY <1>4, LenProperties DEF Written
<1> DEFINE j == i + k
           w == IF j > Len(d) THEN Len(d) ELSE j - 1
<1>10. Slice(d, i, j) = o
  BY <1>8
<1>11. n = w
  <2>1. Len(<<>>) = 0
    OBVIOUS
  <2> HIDE DEF k
  <2> QED BY SMT, <1>4, <1>5, <1>6, <1>9, <2>1
<1>12. Slice(d, i, j) = SubSeq(d, i, w)
  BY ONLY DEF Slice
<1> HIDE DEF j, w
<1> QED BY <1>7, <1>10, <1>11, <1>12 DEF o

-----------------------------------------------------------------------------
(* Sequences of messages *)

Strings == Seq(Seq(Byte))

\* The first message in front of the others.
LEMMA FlattenTail ==
    ASSUME NEW s \in Strings, s # <<>>
    PROVE  /\ s[1] \in Seq(Byte) /\ Tail(s) \in Strings
           /\ FlattenSeq(Tail(s)) \in Seq(Byte)
           /\ FlattenSeq(s) = s[1] \o FlattenSeq(Tail(s))
<1> DEFINE Q == Seq(Byte)
           m == s[1]
           t == Tail(s)
<1>1. s \in Seq(Q)
  BY DEF Strings
<1> HIDE DEF Q
<1>2. m \in Q /\ t \in Seq(Q) /\ s = <<m>> \o t
  BY SMT, <1>1
<1> HIDE DEF m, t
<1>3. m \in Seq(Byte) /\ t \in Seq(Seq(Byte))
  BY <1>2 DEF Q
<1>4. FlattenSeq(<<m>> \o t) = m \o FlattenSeq(t)
  BY ONLY <1>3, FlattenPrepend
<1>5. FlattenSeq(t) \in Seq(Byte)
  BY <1>3, FlattenType
<1> QED BY <1>2, <1>3, <1>4, <1>5 DEF Strings, m, t

\* The same bytes cut in two ways, behind b and, no later, behind p.
LEMMA CutTwice ==
    ASSUME NEW b \in Seq(Byte), NEW w \in Seq(Byte), NEW p \in Seq(Byte), NEW f \in Seq(Byte),
           b \o w = p \o f, Len(p) <= Len(b)
    PROVE  /\ SubSeq(b, 1, Len(p)) = p
           /\ SubSeq(b, Len(p) + 1, Len(b)) \in Seq(Byte)
           /\ SubSeq(b, Len(p) + 1, Len(b)) \o w = f
<1> DEFINE n == Len(p)
           a == SubSeq(b, 1, n)
           c == SubSeq(b, n + 1, Len(b))
<1>1. n \in Nat /\ Len(b) \in Nat /\ n <= Len(b)
  BY LenProperties
<1>2. n \in 0 .. Len(b) /\ n \in 1 - 1 .. Len(b) /\ 1 \in 1 .. Len(b) + 1 /\ Len(b) \in n .. Len(b)
  BY <1>1
<1>3. a \o c = SubSeq(b, 1, Len(b))
  BY <1>2, ConcatAdjacentSubSeq
<1>4. SubSeq(b, 1, Len(b)) = b
  BY SMT
<1>5. /\ a \in Seq(Byte) /\ Len(a) = n /\ c \in Seq(Byte)
      /\ \A k \in 1 .. n : a[k] = b[k]
  BY SMT, <1>1
<1>6. \A k \in 1 .. n : b[k] = p[k]
  <2>1. \A k \in 1 .. n : k \in 1 .. Len(b) + Len(w) /\ k <= Len(b) /\ k \in 1 .. Len(p) + Len(f)
    BY <1>1, LenProperties
  <2>2. \A k \in 1 .. n : (b \o w)[k] = b[k]
    BY <2>1, ConcatProperties
  <2>3. \A k \in 1 .. n : (p \o f)[k] = p[k]
    BY <2>1, ConcatProperties
  <2> QED BY <2>2, <2>3
<1> HIDE DEF a, c
<1>7. a = p
  <2>1. a \in Seq(Byte) /\ Len(a) = Len(p) /\ \A k \in 1 .. Len(p) : a[k] = p[k]
    BY <1>5, <1>6
  <2> QED BY ONLY SMT, p \in Seq(Byte), <2>1
<1>8. (p \o c) \o w = p \o f
  BY <1>3, <1>4, <1>7
<1>9. p \o (c \o w) = p \o f
  <2>1. (p \o c) \o w = p \o (c \o w)
    <3>1. c \in Seq(Byte)
      BY <1>5
    <3> QED BY ONLY p \in Seq(Byte), w \in Seq(Byte), <3>1, ConcatAssociative
  <2> QED BY <1>8, <2>1
<1>10. c \o w \in Seq(Byte)
  BY <1>5, Parts
<1>11. c \o w = f
  <2> DEFINE x == c \o w
  <2>1. x \in Seq(Byte) /\ p \o x = p \o f
    BY <1>9, <1>10
  <2> HIDE DEF x
  <2>2. x = f
    BY <2>1, ConcatSimplifications
  <2> QED BY <2>2 DEF x
<1> QED BY <1>5, <1>7, <1>11 DEF a, c, n

(***************************************************************************)
(* The first five bytes of a message are enough to frame it: its length    *)
(* field ends within them.                                                 *)
(***************************************************************************)
LEMMA FramedByFive ==
    ASSUME NEW m, IsMessage(m), NEW b \in Seq(Byte), Len(b) >= MinHeader,
           \A k \in 1 .. MinHeader : b[k] = m[k]
    PROVE  BodyStart(b) = 1 /\ BodyLength(b, 1) = Len(m)
<1>1. PICK n \in 2 .. 5 : Len(m) - n <= MaxContent /\ m = Tagged(48, SubSeq(m, n + 1, Len(m)))
  BY DEF IsMessage
<1> DEFINE c == SubSeq(m, n + 1, Len(m))
           s == Len(c)
           i == InsertLength(s)
<1>2. m \in Seq(Byte) /\ Len(m) \in Nat /\ Len(m) >= 5 /\ n \in Nat
  BY LenProperties DEF IsMessage, MinHeader
<1>3. c \in Seq(Byte) /\ s \in Nat /\ s = Len(m) - n
  BY SMT, <1>2
<1> HIDE DEF c
<1>4. Contents(c) /\ Fits(s)
  <2>1. s <= MaxContent
    BY <1>1, <1>3
  <2> QED BY <1>3, <2>1, ContentsFit DEF Contents
<1>5. m = Tagged(48, c) /\ 48 \in Byte
  BY <1>1, Tags DEF c
<1>6. Len(m) = Header(s) + s /\ Header(s) \in 2 .. 6 /\ m[1] = 48
  BY <1>3, <1>4, <1>5, TaggedType
<1>7. Header(s) = n
  <2> DEFINE h == Header(s)
             k == Len(m)
  <2>1. k = h + s /\ h \in 2 .. 6 /\ s = k - n /\ k \in Nat
    BY <1>2, <1>3, <1>6
  <2> HIDE DEF h, k, s
  <2>2. h = n
    BY SMT, <1>2, <1>3, <2>1
  <2> QED BY <2>2 DEF h
<1>8. i \in Seq(Byte) /\ Len(i) = n - 1
  <2>1. i \in Seq(Byte) /\ Len(i) \in 1 .. 5 /\ n = 1 + Len(i)
    BY <1>3, <1>4, <1>7, InsertLengthType DEF Header
  <2> HIDE DEF i
  <2> QED BY <2>1
<1>9. Written(m, 1 + 1, i)
  <2>1. 1 \in Nat \ {0} /\ Len(m) \in Nat
    BY <1>2
  <2>2. Written(m, 1, m)
    BY SMT, <1>2 DEF Written
  <2>3. Written(m, 1, Tagged(48, c))
    BY <1>5, <2>2
  <2> QED BY <1>2, <1>3, <1>4, <1>5, <2>1, <2>3, WrittenTagged
<1> HIDE DEF i, s
<1>10. Written(b, 1 + 1, i)
  <2>1. Len(b) \in Nat /\ Len(b) >= 5 /\ \A k \in 1 .. 5 : b[k] = m[k]
    BY LenProperties DEF MinHeader
  <2>2. \A k \in 1 .. n - 1 : m[1 + 1 + k - 1] = i[k]
    BY <1>8, <1>9 DEF Written
  <2>3. ASSUME NEW k \in 1 .. n - 1 PROVE b[1 + 1 + k - 1] = i[k]
    <3>1. 1 + 1 + k - 1 \in 1 .. 5
      BY <1>1
    <3> QED BY <2>1, <2>2, <3>1
  <2>4. 1 + 1 + (n - 1) - 1 <= Len(b)
    BY <1>2, <2>1
  <2> QED BY <1>8, <2>3, <2>4 DEF Written
<1>11. FindLength(b, 1 + 1).len = s /\ FindLength(b, 1 + 1).next = 1 + n
  <2>1. 1 \in Nat \ {0}
    OBVIOUS
  <2>2. FindLength(b, 1 + 1).len = s /\ FindLength(b, 1 + 1).next = 1 + Header(s)
    BY <1>3, <1>4, <1>10, <2>1, FindLengthAt DEF i
  <2> QED BY <1>7, <2>2
<1>12. BodyLength(b, 1) = Len(m)
  <2>1. BodyLength(b, 1) = (1 + n) - 1 + s
    BY <1>11 DEF BodyLength
  <2> DEFINE k == Len(m)
  <2>2. s \in Nat /\ s = k - n /\ k \in Nat
    BY <1>2, <1>3
  <2> HIDE DEF k
  <2>3. (1 + n) - 1 + s = k
    BY SMT, <1>2, <2>2
  <2> QED BY <2>1, <2>3 DEF k
<1>13. BodyStart(b) = 1
  <2> DEFINE tags == {k \in DOMAIN b : b[k] = 48}
  <2>1. DOMAIN b = 1 .. Len(b) /\ Len(b) \in Nat /\ 1 \in 1 .. MinHeader /\ 1 \in 1 .. Len(b)
    BY LenProperties DEF MinHeader
  <2>2. 1 \in tags /\ \A k \in tags : k \in Nat /\ 1 <= k
    BY <1>6, <2>1
  <2>3. BodyStart(b) = IF tags = {} THEN 0 ELSE CHOOSE k \in tags : \A l \in tags : k <= l
    BY DEF BodyStart
  <2> HIDE DEF tags
  <2>4. \A k \in tags : (\A l \in tags : k <= l) => k = 1
    BY <2>2
  <2> QED BY <2>2, <2>3, <2>4
<1> QED BY <1>12, <1>13

-----------------------------------------------------------------------------
(* The stream of messages *)

\* A frame that has been found is that of the next message, and was found in
\* its first five bytes or more.
FrameOf(m) == [start |-> 1, length |-> Len(m)]

(***************************************************************************)
(* The inductive invariant: what is in the buffer and on the way are the   *)
(* messages still to be taken, and a frame kept from an earlier look at    *)
(* the buffer is still that of the first of them.                          *)
(***************************************************************************)
StreamInv ==
    /\ messages \in Strings /\ \A k \in 1 .. Len(messages) : IsMessage(messages[k])
    /\ taken \in Nat /\ taken <= Len(messages)
    /\ wire \in Seq(Byte)
    /\ side \in [buffer : Seq(Byte), frame : [start : Int, length : Int]]
    /\ side.buffer \o wire = FlattenSeq(Pending)
    /\ \/ side.frame = NoFrame
       \/ /\ Pending # <<>> /\ Len(side.buffer) >= MinHeader
          /\ side.frame = FrameOf(Pending[1])

LEMMA FrameTypes ==
    /\ NoFrame \in [start : Int, length : Int]
    /\ \A m \in Seq(Byte) : FrameOf(m) \in [start : Int, length : Int] /\ FrameOf(m) # NoFrame
<1>1. \A n \in Nat : [start |-> 1, length |-> n] \in [start : Int, length : Int]
  OBVIOUS
<1>2. \A n \in Nat : [start |-> 1, length |-> n] # [start |-> -1, length |-> -1]
  OBVIOUS
<1>3. NoFrame \in [start : Int, length : Int]
  BY DEF NoFrame
<1> QED BY <1>1, <1>2, <1>3, LenProperties DEF FrameOf, NoFrame

\* The messages still to be taken, and what taking one does to them.
LEMMA PendingParts ==
    ASSUME NEW s \in Strings, NEW t \in Nat, t <= Len(s),
           NEW p, p = SubSeq(s, t + 1, Len(s))
    PROVE  /\ p \in Strings /\ Len(p) \in Nat
           /\ p # <<>> => /\ t + 1 \in 1 .. Len(s) /\ p[1] = s[t + 1]
                          /\ SubSeq(s, t + 1 + 1, Len(s)) = Tail(p)
<1> DEFINE n == Len(s)
<1>1. n \in Nat /\ t <= n
  BY LenProperties DEF Strings
<1>2. /\ p \in Strings /\ Len(p) = n - t
      /\ \A k \in 1 .. n - t : p[k] = s[t + k]
  BY SMT, <1>1 DEF Strings
<1>3. ASSUME p # <<>>
      PROVE  /\ t + 1 \in 1 .. n /\ p[1] = s[t + 1]
             /\ SubSeq(s, t + 1 + 1, n) = Tail(p)
  <2>1. n - t # 0
    BY <1>2, <1>3, EmptySeq DEF Strings
  <2>2. t + 1 \in 1 .. n /\ 1 \in 1 .. n - t
    <3> HIDE DEF n
    <3> QED BY <1>1, <2>1
  <2>3. p[1] = s[t + 1]
    BY <1>2, <2>2
  <2> DEFINE x == SubSeq(s, t + 1 + 1, n)
             y == Tail(p)
  <2>4. /\ x \in Strings /\ Len(x) = n - t - 1
        /\ \A k \in 1 .. n - t - 1 : x[k] = s[t + 1 + k]
    BY SMT, <1>1, <2>2 DEF Strings
  <2>5. /\ y \in Strings /\ Len(y) = n - t - 1
        /\ \A k \in 1 .. n - t - 1 : y[k] = p[k + 1]
    BY SMT, <1>1, <1>2, <1>3, <2>1 DEF Strings
  <2> HIDE DEF x, y, n
  <2>6. ASSUME NEW k \in 1 .. n - t - 1 PROVE x[k] = y[k]
    <3>1. k + 1 \in 1 .. n - t /\ t + 1 + k = t + (k + 1)
      BY <1>1
    <3> QED BY <1>2, <2>4, <2>5, <3>1
  <2>7. x = y
    <3>1. x \in Seq(Seq(Byte)) /\ y \in Seq(Seq(Byte)) /\ Len(x) = Len(y)
      BY <2>4, <2>5 DEF Strings
    <3>2. \A k \in 1 .. Len(x) : x[k] = y[k]
      BY <2>4, <2>6
    <3> QED BY ONLY <3>1, <3>2, SeqEqual
  <2> QED BY <2>2, <2>3, <2>7 DEF x, y, n
<1>4. Len(p) \in Nat
  BY <1>2, LenProperties DEF Strings
<1> QED BY <1>2, <1>3, <1>4

\* Sending adds to the messages still to be taken.
LEMMA Sent ==
    ASSUME NEW s \in Strings, NEW t \in Nat, t <= Len(s), NEW m \in Seq(Byte)
    PROVE  /\ SubSeq(s, t + 1, Len(s)) \in Strings /\ Len(SubSeq(s, t + 1, Len(s))) \in Nat
           /\ Append(s, m) \in Strings /\ Len(Append(s, m)) = Len(s) + 1
           /\ SubSeq(Append(s, m), t + 1, Len(s) + 1) = Append(SubSeq(s, t + 1, Len(s)), m)
<1> DEFINE n == Len(s)
           p == SubSeq(s, t + 1, n)
<1>1. n \in Nat /\ t <= n
  BY LenProperties DEF Strings
<1>2. /\ p \in Strings /\ Len(p) = n - t
      /\ \A k \in 1 .. n - t : p[k] = s[t + k]
  BY SMT, <1>1 DEF Strings
<1> HIDE DEF p
<1>3. Len(p) \in Nat
  BY <1>2, LenProperties DEF Strings
<1> DEFINE r == Append(s, m)
           x == SubSeq(r, t + 1, n + 1)
           y == Append(p, m)
<1>4. /\ r \in Strings /\ Len(r) = n + 1 /\ r[n + 1] = m
      /\ \A k \in 1 .. n : r[k] = s[k]
  BY AppendProperties DEF Strings
<1> HIDE DEF r
<1>5. /\ x \in Strings /\ Len(x) = n - t + 1
      /\ \A k \in 1 .. n - t + 1 : x[k] = r[t + k]
  BY SMT, <1>1, <1>4 DEF Strings
<1>6. /\ y \in Strings /\ Len(y) = n - t + 1 /\ y[n - t + 1] = m
      /\ \A k \in 1 .. n - t : y[k] = p[k]
  BY <1>2, AppendProperties DEF Strings
<1> HIDE DEF x, y, n
<1>7. ASSUME NEW k \in 1 .. n - t + 1 PROVE x[k] = y[k]
  <2>1. CASE k = n - t + 1
    <3>1. t + k = n + 1
      BY <1>1, <2>1
    <3> QED BY <1>4, <1>5, <1>6, <2>1, <3>1
  <2>2. CASE k # n - t + 1
    <3>1. k \in 1 .. n - t /\ t + k \in 1 .. n
      BY <1>1, <2>2
    <3> QED BY <1>2, <1>4, <1>5, <1>6, <3>1
  <2> QED BY <2>1, <2>2
<1>8. x = y
  <2>1. x \in Seq(Seq(Byte)) /\ y \in Seq(Seq(Byte)) /\ Len(x) = Len(y)
    BY <1>5, <1>6 DEF Strings
  <2>2. \A k \in 1 .. Len(x) : x[k] = y[k]
    BY <1>5, <1>7
  <2> QED BY ONLY <2>1, <2>2, SeqEqual
<1>9. r \in Strings /\ Len(r) = n + 1 /\ p \in Strings /\ Len(p) \in Nat
  BY <1>2, <1>3, <1>4
<1> HIDE DEF r
<1> QED BY <1>8, <1>9 DEF r, x, y, p, n

\* What is known of the next message.
LEMMA NextMessage ==
    ASSUME StreamInv, Pending # <<>>
    PROVE  /\ IsMessage(Pending[1]) /\ Pending[1] \in Seq(Byte)
           /\ Len(Pending[1]) \in Nat /\ Len(Pending[1]) >= MinHeader
           /\ Tail(Pending) \in Strings /\ FlattenSeq(Tail(Pending)) \in Seq(Byte)
           /\ side.buffer \o wire = Pending[1] \o FlattenSeq(Tail(Pending))
           /\ taken + 1 <= Len(messages)
           /\ SubSeq(messages, taken + 1 + 1, Len(messages)) = Tail(Pending)
<1>1. messages \in Strings /\ taken \in Nat /\ taken <= Len(messages)
  BY DEF StreamInv
<1>2. /\ Pending \in Strings /\ taken + 1 \in 1 .. Len(messages)
      /\ Pending[1] = messages[taken + 1]
      /\ SubSeq(messages, taken + 1 + 1, Len(messages)) = Tail(Pending)
  BY <1>1, PendingParts DEF Pending
<1>3. IsMessage(Pending[1])
  BY <1>2 DEF StreamInv
<1>4. /\ Tail(Pending) \in Strings /\ FlattenSeq(Tail(Pending)) \in Seq(Byte)
      /\ FlattenSeq(Pending) = Pending[1] \o FlattenSeq(Tail(Pending))
  BY <1>2, FlattenTail
<1>5. Pending[1] \in Seq(Byte) /\ Len(Pending[1]) >= MinHeader
  BY <1>3 DEF IsMessage
<1>6. side.buffer \o wire = FlattenSeq(Pending)
  BY DEF StreamInv
<1>7. taken + 1 <= Len(messages)
  BY <1>1, <1>2
<1> QED BY <1>2, <1>3, <1>4, <1>5, <1>6, <1>7, LenProperties

\* What the framing makes of the buffer.
LEMMA FramedNext ==
    ASSUME StreamInv
    PROVE  /\ Len(side.buffer) < MinHeader => Framed(side) = side /\ side.frame = NoFrame
           /\ Len(side.buffer) >= MinHeader =>
                 /\ Pending # <<>>
                 /\ Framed(side) = [buffer |-> side.buffer, frame |-> FrameOf(Pending[1])]
<1> DEFINE b == side.buffer
           l == Len(b)
           x == Framed(side)
<1>1. b \in Seq(Byte) /\ l \in Nat /\ wire \in Seq(Byte) /\ b \o wire = FlattenSeq(Pending)
  BY LenProperties DEF StreamInv
<1>2. side = [buffer |-> b, frame |-> side.frame]
  BY DEF StreamInv
<1>3. \/ side.frame = NoFrame
      \/ /\ Pending # <<>> /\ l >= MinHeader
         /\ side.frame = FrameOf(Pending[1])
  BY DEF StreamInv
<1>4. ASSUME l < MinHeader PROVE x = side /\ side.frame = NoFrame
  <2>1. x = side
    BY <1>4 DEF Framed
  <2>2. ~(l >= MinHeader)
    <3> HIDE DEF l
    <3> QED BY <1>1, <1>4 DEF MinHeader
  <2> QED BY <1>3, <2>1, <2>2
<1>5. ASSUME l >= MinHeader
      PROVE  Pending # <<>> /\ x = [buffer |-> b, frame |-> FrameOf(Pending[1])]
  <2>1. Pending # <<>>
    <3> SUFFICES ASSUME Pending = <<>> PROVE FALSE
      OBVIOUS
    <3>2. b \o wire = <<>>
      BY <1>1, FlattenEmpty
    <3>3. b = <<>>
      <4> HIDE DEF b
      <4> QED BY <1>1, <3>2, ConcatEqualIffEmpty
    <3>4. l = 0
      BY <3>3
    <3> QED BY <1>5, <3>4 DEF MinHeader
  <2> DEFINE m == Pending[1]
             f == FlattenSeq(Tail(Pending))
  <2>2. /\ IsMessage(m) /\ m \in Seq(Byte) /\ Len(m) \in Nat /\ Len(m) >= MinHeader
        /\ f \in Seq(Byte) /\ b \o wire = m \o f
    BY <2>1, NextMessage
  <2> HIDE DEF m, f
  <2>3. FrameOf(m) # NoFrame
    BY <2>2, FrameTypes
  <2>4. ~(l < MinHeader)
    <3> HIDE DEF l
    <3> QED BY <1>1, <1>5 DEF MinHeader
  <2>5. CASE side.frame = NoFrame
    <3>1. \A k \in 1 .. MinHeader : b[k] = m[k]
      <4>1. \A k \in 1 .. MinHeader : /\ k \in 1 .. Len(b) + Len(wire) /\ k <= Len(b)
                                      /\ k \in 1 .. Len(m) + Len(f) /\ k <= Len(m)
        BY <1>1, <1>5, <2>2, LenProperties DEF MinHeader
      <4> HIDE DEF b, l
      <4>2. \A k \in 1 .. MinHeader : (b \o wire)[k] = b[k]
        BY <1>1, <4>1, ConcatProperties
      <4>3. \A k \in 1 .. MinHeader : (m \o f)[k] = m[k]
        BY <2>2, <4>1, ConcatProperties
      <4> QED BY <2>2, <4>2, <4>3
    <3>2. BodyStart(b) = 1 /\ BodyLength(b, 1) = Len(m)
      <4> HIDE DEF b
      <4> QED BY <1>1, <1>5, <2>2, <3>1, FramedByFive
    <3>3. x = [side EXCEPT !.frame = FrameOf(m)]
      BY <2>4, <2>5, <3>2 DEF Framed, FrameOf
    <3>4. x = [buffer |-> b, frame |-> FrameOf(m)]
      <4> HIDE DEF x, b
      <4> QED BY <1>2, <3>3
    <3> QED BY <2>1, <3>4 DEF m
  <2>6. CASE side.frame # NoFrame
    <3>1. x = side
      BY <2>6 DEF Framed
    <3>2. side.frame = FrameOf(m)
      BY <1>3, <2>6 DEF m
    <3> QED BY <1>2, <2>1, <3>1, <3>2 DEF m
  <2> QED BY <2>5, <2>6
<1> QED BY <1>4, <1>5

\* The invariant says that the framing is in step.
LEMMA StreamInvInStep == StreamInv => FramingInStep
<1> SUFFICES ASSUME StreamInv PROVE FramingInStep
  OBVIOUS
<1> DEFINE b == side.buffer
           l == Len(b)
           x == Framed(side)
           m == Pending[1]
<1>1. b \in Seq(Byte) /\ l \in Nat /\ wire \in Seq(Byte) /\ b \o wire = FlattenSeq(Pending)
  BY LenProperties DEF StreamInv
<1>2. CASE l < MinHeader
  <2>1. x = side /\ side.frame = NoFrame
    BY <1>2, FramedNext
  <2>2. ~Complete(x)
    BY <2>1 DEF Complete
  <2>3. ASSUME Pending # <<>> PROVE ~(Len(m) <= l)
    <3>1. Len(m) \in Nat /\ Len(m) >= MinHeader
      BY <2>3, NextMessage
    <3> HIDE DEF m, l
    <3> QED BY <1>1, <1>2, <3>1 DEF MinHeader
  <2> QED BY <1>1, <2>2, <2>3 DEF FramingInStep
<1>3. CASE l >= MinHeader
  <2>1. Pending # <<>> /\ x = [buffer |-> b, frame |-> FrameOf(m)]
    BY <1>3, FramedNext
  <2>2. /\ m \in Seq(Byte) /\ Len(m) \in Nat /\ FlattenSeq(Tail(Pending)) \in Seq(Byte)
        /\ b \o wire = m \o FlattenSeq(Tail(Pending))
    BY <2>1, NextMessage
  <2>3. x.frame # NoFrame /\ x.frame.start = 1 /\ x.frame.length = Len(m) /\ x.buffer = b
    BY <2>1, <2>2, FrameTypes DEF FrameOf
  <2> HIDE DEF x, m, b, l
  <2>4. Complete(x) <=> Len(m) <= Len(b)
    <3> DEFINE n == Len(m)
    <3>1. n \in Nat /\ Len(b) \in Nat
      BY <1>1, <2>2, LenProperties
    <3> HIDE DEF n
    <3>2. 1 - 1 + n <= Len(b) <=> n <= Len(b)
      BY SMT, <3>1
    <3> QED BY <2>3, <3>2 DEF Complete, n
  <2>5. FromBody(x) = b
    <3>1. SubSeq(b, 1, Len(b)) = b
      BY SMT, <1>1
    <3> QED BY <2>3, <3>1 DEF FromBody
  <2>6. ASSUME Complete(x) PROVE SubSeq(FromBody(x), 1, x.frame.length) = m
    <3>1. SubSeq(b, 1, Len(m)) = m
      BY <1>1, <2>2, <2>4, <2>6, CutTwice
    <3> QED BY <2>3, <2>5, <3>1
  <2> QED BY <1>1, <2>1, <2>4, <2>6 DEF FramingInStep, x, m, b
<1>4. l < MinHeader \/ l >= MinHeader
  <2> HIDE DEF l
  <2> QED BY <1>1 DEF MinHeader
<1> QED BY <1>2, <1>3, <1>4

\* A message is sent.
LEMMA SendStep ==
    ASSUME StreamInv, NEW m, Send(m)
    PROVE  StreamInv'
<1> DEFINE p == Pending
           q == Append(p, m)
           b == side.buffer
<1>1. /\ messages \in Strings /\ taken \in Nat /\ taken <= Len(messages)
      /\ Len(messages) \in Nat /\ wire \in Seq(Byte) /\ b \in Seq(Byte)
  BY LenProperties DEF StreamInv, Strings
<1>2. m \in Seq(Byte) /\ IsMessage(m)
  BY DEF Send, IsMessage
<1>3. messages' = Append(messages, m) /\ wire' = wire \o m /\ side' = side /\ taken' = taken
  BY DEF Send
<1>4. /\ p \in Strings /\ Len(p) \in Nat
      /\ messages' \in Strings /\ Len(messages') = Len(messages) + 1
      /\ Pending' = q
  <2>1. p = SubSeq(messages, taken + 1, Len(messages))
    BY DEF Pending
  <2>2. /\ p \in Strings /\ Len(p) \in Nat
        /\ Append(messages, m) \in Strings
        /\ Len(Append(messages, m)) = Len(messages) + 1
        /\ SubSeq(Append(messages, m), taken + 1, Len(messages) + 1) = q
    BY ONLY <1>1, <1>2, <2>1, Sent
  <2>3. Pending' = SubSeq(messages', taken' + 1, Len(messages'))
    BY DEF Pending
  <2> HIDE DEF p, q
  <2> QED BY <1>3, <2>2, <2>3
<1>5. \A k \in 1 .. Len(messages') : IsMessage(messages'[k])
  <2> DEFINE s == messages
             n == Len(messages)
  <2>1. messages'[n + 1] = m /\ \A k \in 1 .. n : messages'[k] = s[k]
    BY <1>1, <1>2, <1>3, AppendProperties DEF Strings
  <2>2. \A k \in 1 .. n : IsMessage(s[k])
    BY DEF StreamInv
  <2> HIDE DEF s, n
  <2>3. \A k \in 1 .. n + 1 : IsMessage(messages'[k])
    <3>1. \A k \in 1 .. n + 1 : k = n + 1 \/ k \in 1 .. n
      BY <1>1 DEF n
    <3> QED BY <1>2, <2>1, <2>2, <3>1
  <2> QED BY <1>4, <2>3 DEF n
<1>6. taken' \in Nat /\ taken' <= Len(messages')
  BY <1>1, <1>3, <1>4
<1>7. wire' \in Seq(Byte)
  BY <1>1, <1>2, <1>3, Parts
<1>8. side'.buffer \o wire' = FlattenSeq(Pending')
  <2>1. FlattenSeq(q) = FlattenSeq(p) \o m
    <3>1. p \in Seq(Seq(Byte))
      BY <1>4 DEF Strings
    <3> HIDE DEF p
    <3> QED BY ONLY <1>2, <3>1, FlattenAppend
  <2>2. FlattenSeq(p) = b \o wire
    BY DEF StreamInv
  <2>3. (b \o wire) \o m = b \o (wire \o m)
    <3> HIDE DEF b
    <3> QED BY ONLY <1>1, <1>2, ConcatAssociative
  <2> QED BY <1>3, <1>4, <2>1, <2>2, <2>3
<1>9. \/ side'.frame = NoFrame
      \/ /\ Pending' # <<>> /\ Len(side'.buffer) >= MinHeader
         /\ side'.frame = FrameOf(Pending'[1])
  <2>1. ASSUME p # <<>> PROVE q # <<>> /\ q[1] = p[1]
    <3>1. p \in Seq(Seq(Byte)) /\ m \in Seq(Byte)
      BY <1>2, <1>4 DEF Strings
    <3>2. 1 \in 1 .. Len(p)
      BY <1>4, <2>1, EmptySeq DEF Strings
    <3> HIDE DEF p
    <3>3. q[1] = p[1] /\ Len(q) = Len(p) + 1
      BY <3>1, <3>2, AppendProperties
    <3>4. q # <<>>
      BY <1>4, <3>3
    <3> QED BY <3>3, <3>4
  <2>2. \/ side.frame = NoFrame
        \/ /\ p # <<>> /\ Len(b) >= MinHeader
           /\ side.frame = FrameOf(p[1])
    BY DEF StreamInv
  <2> HIDE DEF p, q, b
  <2>3. CASE side.frame = NoFrame
    BY <1>3, <2>3
  <2>4. CASE p # <<>> /\ Len(b) >= MinHeader /\ side.frame = FrameOf(p[1])
    <3>1. Pending' # <<>> /\ Pending'[1] = p[1]
      BY <1>4, <2>1, <2>4
    <3>2. side'.buffer = b
      BY <1>3 DEF b
    <3> QED BY <1>3, <2>4, <3>1, <3>2
  <2> QED BY <2>2, <2>3, <2>4
<1>10. side' \in [buffer : Seq(Byte), frame : [start : Int, length : Int]]
  BY <1>3 DEF StreamInv
<1> QED BY <1>4, <1>5, <1>6, <1>7, <1>8, <1>9, <1>10 DEF StreamInv

\* Bytes are received.
LEMMA ReceiveStep ==
    ASSUME StreamInv, NEW n \in 1 .. Len(wire), Receive(n)
    PROVE  StreamInv'
<1> DEFINE b == side.buffer
           u == SubSeq(wire, 1, n)
           v == SubSeq(wire, n + 1, Len(wire))
<1>1. /\ wire \in Seq(Byte) /\ b \in Seq(Byte) /\ Len(b) \in Nat /\ Len(wire) \in Nat
      /\ side = [buffer |-> b, frame |-> side.frame]
      /\ side.frame \in [start : Int, length : Int]
  BY LenProperties DEF StreamInv
<1>2. /\ side' = [buffer |-> b \o u, frame |-> side.frame]
      /\ wire' = v /\ messages' = messages /\ taken' = taken
  <2>1. side' = [side EXCEPT !.buffer = @ \o u] /\ wire' = v /\ messages' = messages /\ taken' = taken
    BY DEF Receive
  <2> HIDE DEF u
  <2> QED BY <1>1, <2>1
<1>3. u \in Seq(Byte) /\ v \in Seq(Byte)
  BY SMT, <1>1
<1>4. u \o v = wire
  <2>1. /\ 1 \in 1 .. Len(wire) + 1 /\ n \in 1 - 1 .. Len(wire) /\ Len(wire) \in n .. Len(wire)
    BY <1>1
  <2>2. u \o v = SubSeq(wire, 1, Len(wire))
    BY <1>1, <2>1, ConcatAdjacentSubSeq
  <2>3. SubSeq(wire, 1, Len(wire)) = wire
    BY SMT, <1>1
  <2> QED BY <2>2, <2>3
<1> HIDE DEF u, v
<1>5. (b \o u) \o v = b \o wire
  <2>1. (b \o u) \o v = b \o (u \o v)
    <3> HIDE DEF b
    <3>1. b \in Seq(Byte)
      BY <1>1
    <3> QED BY ONLY <1>3, <3>1, ConcatAssociative
  <2> QED BY <1>4, <2>1
<1>6. b \o u \in Seq(Byte) /\ Len(b) <= Len(b \o u) /\ Len(b \o u) \in Nat
  BY <1>1, <1>3, Parts
<1>7. Pending' = Pending
  BY <1>2 DEF Pending
<1>8. side'.buffer = b \o u /\ side'.frame = side.frame
  BY <1>2
<1>9. side'.buffer \o wire' = FlattenSeq(Pending')
  <2>1. b \o wire = FlattenSeq(Pending)
    BY DEF StreamInv
  <2> QED BY <1>2, <1>5, <1>7, <1>8, <2>1
<1>10. \/ side'.frame = NoFrame
       \/ /\ Pending' # <<>> /\ Len(side'.buffer) >= MinHeader
          /\ side'.frame = FrameOf(Pending'[1])
  <2>1. \/ side.frame = NoFrame
        \/ /\ Pending # <<>> /\ Len(b) >= MinHeader
           /\ side.frame = FrameOf(Pending[1])
    BY DEF StreamInv
  <2>2. Len(b) >= MinHeader => Len(b \o u) >= MinHeader
    <3> DEFINE i == Len(b)
               j == Len(b \o u)
    <3>1. i \in Nat /\ j \in Nat /\ i <= j
      BY <1>1, <1>6
    <3> HIDE DEF i, j
    <3>2. i >= MinHeader => j >= MinHeader
      BY SMT, <3>1 DEF MinHeader
    <3> QED BY <3>2 DEF i, j
  <2> QED BY <1>7, <1>8, <2>1, <2>2
<1>11. side' \in [buffer : Seq(Byte), frame : [start : Int, length : Int]]
  BY <1>1, <1>2, <1>6
<1>12. /\ messages' \in Strings /\ \A k \in 1 .. Len(messages') : IsMessage(messages'[k])
       /\ taken' \in Nat /\ taken' <= Len(messages') /\ wire' \in Seq(Byte)
  BY <1>2, <1>3 DEF StreamInv
<1> QED BY <1>9, <1>10, <1>11, <1>12 DEF StreamInv

\* The decoder looks at the buffer, and takes a message if it is complete.
LEMMA DecodeStep ==
    ASSUME StreamInv, Decode
    PROVE  StreamInv'
<1> DEFINE b == side.buffer
           l == Len(b)
           x == Framed(side)
           m == Pending[1]
<1>1. /\ wire \in Seq(Byte) /\ b \in Seq(Byte) /\ l \in Nat
      /\ side = [buffer |-> b, frame |-> side.frame]
      /\ b \o wire = FlattenSeq(Pending)
      /\ messages \in Strings /\ \A k \in 1 .. Len(messages) : IsMessage(messages[k])
      /\ taken \in Nat /\ taken <= Len(messages)
  BY LenProperties DEF StreamInv
<1>2. messages' = messages /\ wire' = wire
  BY DEF Decode
<1>3. \/ Complete(x) /\ side' = Taken(x) /\ taken' = taken + 1
      \/ ~Complete(x) /\ side' = x /\ taken' = taken
  BY DEF Decode
<1>4. CASE l < MinHeader
  <2>1. x = side /\ side.frame = NoFrame
    BY <1>4, FramedNext
  <2>2. side' = side /\ taken' = taken
    BY <1>3, <2>1 DEF Complete
  <2>3. Pending' = Pending
    BY <1>2, <2>2 DEF Pending
  <2> QED BY <1>2, <2>2, <2>3 DEF StreamInv
<1>5. CASE l >= MinHeader
  <2>1. Pending # <<>> /\ x = [buffer |-> b, frame |-> FrameOf(m)]
    BY <1>5, FramedNext
  <2>2. /\ m \in Seq(Byte) /\ Len(m) \in Nat
        /\ Tail(Pending) \in Strings /\ FlattenSeq(Tail(Pending)) \in Seq(Byte)
        /\ b \o wire = m \o FlattenSeq(Tail(Pending))
        /\ taken + 1 <= Len(messages)
        /\ SubSeq(messages, taken + 1 + 1, Len(messages)) = Tail(Pending)
    BY <2>1, NextMessage
  <2>3. FrameOf(m) # NoFrame /\ FrameOf(m) \in [start : Int, length : Int]
    BY <2>2, FrameTypes
  <2>4. CASE ~Complete(x) /\ side' = x /\ taken' = taken
    <3>1. Pending' = Pending
      BY <1>2, <2>4 DEF Pending
    <3>2. side'.buffer = b /\ side'.frame = FrameOf(m)
      BY <2>1, <2>4
    <3>3. side' \in [buffer : Seq(Byte), frame : [start : Int, length : Int]]
      <4> HIDE DEF b, m
      <4> QED BY <1>1, <2>1, <2>3, <2>4
    <3>4. /\ Pending' # <<>> /\ Len(side'.buffer) >= MinHeader
          /\ side'.frame = FrameOf(Pending'[1])
      BY <1>5, <2>1, <3>1, <3>2
    <3>5. side'.buffer \o wire' = FlattenSeq(Pending')
      BY <1>1, <1>2, <3>1, <3>2
    <3> QED BY <1>1, <1>2, <2>4, <3>3, <3>4, <3>5 DEF StreamInv
  <2>5. CASE Complete(x) /\ side' = Taken(x) /\ taken' = taken + 1
    <3> DEFINE c == SubSeq(b, Len(m) + 1, Len(b))
               f == FlattenSeq(Tail(Pending))
    <3>1. StreamInv => FramingInStep
      BY StreamInvInStep
    <3>2. Len(m) <= Len(b)
      BY <2>5, <3>1 DEF FramingInStep
    <3>3. c \in Seq(Byte) /\ c \o wire = f
      <4> HIDE DEF m, b, f
      <4>1. f \in Seq(Byte) /\ b \o wire = m \o f
        BY <2>2 DEF f
      <4>2. b \in Seq(Byte) /\ wire \in Seq(Byte) /\ m \in Seq(Byte)
        BY <1>1, <2>2
      <4>3. /\ SubSeq(b, Len(m) + 1, Len(b)) \in Seq(Byte)
            /\ SubSeq(b, Len(m) + 1, Len(b)) \o wire = f
        BY ONLY <3>2, <4>1, <4>2, CutTwice
      <4> QED BY <4>3
    <3>4. side' = [buffer |-> c, frame |-> NoFrame]
      <4>1. 1 + Len(m) = Len(m) + 1
        <5> HIDE DEF m
        <5> QED BY <2>2
      <4>2. Taken(x) = [x EXCEPT !.buffer = SubSeq(@, 1 + Len(m), Len(@)), !.frame = NoFrame]
        <5>1. x.frame.start = 1 /\ x.frame.length = Len(m)
          BY <2>1 DEF FrameOf
        <5> HIDE DEF x, m
        <5> QED BY <5>1 DEF Taken
      <4>3. x.buffer = b /\ x = [buffer |-> x.buffer, frame |-> x.frame]
        BY <2>1
      <4> HIDE DEF x, b, m
      <4>4. Taken(x) = [buffer |-> SubSeq(b, 1 + Len(m), Len(b)), frame |-> NoFrame]
        BY <4>2, <4>3
      <4> QED BY <2>5, <4>1, <4>4
    <3>5. Pending' = Tail(Pending)
      BY <1>2, <2>2, <2>5 DEF Pending
    <3>6. side'.buffer = c /\ side'.frame = NoFrame
      BY <3>4
    <3>7. side' \in [buffer : Seq(Byte), frame : [start : Int, length : Int]]
      <4> HIDE DEF c
      <4> QED BY <3>3, <3>4, FrameTypes
    <3>8. taken' \in Nat /\ taken' <= Len(messages')
      BY <1>1, <1>2, <2>2, <2>5
    <3>9. side'.buffer \o wire' = FlattenSeq(Pending')
      BY <1>2, <3>3, <3>5, <3>6
    <3> QED BY <1>1, <1>2, <3>6, <3>7, <3>8, <3>9 DEF StreamInv
  <2> QED BY <1>3, <2>4, <2>5
<1>6. l < MinHeader \/ l >= MinHeader
  <2> HIDE DEF l
  <2> QED BY <1>1 DEF MinHeader
<1> QED BY <1>4, <1>5, <1>6

(***************************************************************************)
(* Wherever TCP cuts the bytes and however many messages are under way,    *)
(* the framing of LDAP_sess_decode stays in step: for messages of every    *)
(* length up to 2^24 - 1, any number of them and any way to receive them.  *)
(***************************************************************************)
THEOREM StreamInStep == Spec => []FramingInStep
<1>1. Init => StreamInv
  <2> SUFFICES ASSUME Init PROVE StreamInv
    OBVIOUS
  <2>1. /\ messages = <<>> /\ wire = <<>> /\ taken = 0
        /\ side = [buffer |-> <<>>, frame |-> NoFrame]
    BY DEF Init
  <2>2. messages \in Strings /\ Len(messages) = 0 /\ wire \in Seq(Byte)
    BY <2>1 DEF Strings
  <2>3. Pending = <<>>
    BY SMT, <2>1 DEF Pending
  <2>4. side.buffer \o wire = FlattenSeq(Pending)
    <3>1. <<>> \in Seq(Byte)
      OBVIOUS
    <3>2. <<>> \o <<>> = <<>>
      BY <3>1, ConcatEmptySeq
    <3> QED BY <2>1, <2>3, <3>2, FlattenEmpty
  <2>5. side \in [buffer : Seq(Byte), frame : [start : Int, length : Int]] /\ side.frame = NoFrame
    <3>1. <<>> \in Seq(Byte)
      OBVIOUS
    <3> QED BY <2>1, <3>1, FrameTypes
  <2> QED BY <2>1, <2>2, <2>4, <2>5 DEF StreamInv
<1>2. StreamInv /\ [Next]_vars => StreamInv'
  <2> SUFFICES ASSUME StreamInv, [Next]_vars PROVE StreamInv'
    OBVIOUS
  <2>1. CASE \E m \in Range(messages') : Send(m)
    BY <2>1, SendStep
  <2>2. CASE \E n \in 1 .. Len(wire) : Receive(n)
    BY <2>2, ReceiveStep
  <2>3. CASE Decode
    BY <2>3, DecodeStep
  <2>4. CASE UNCHANGED vars
    <3>1. messages' = messages /\ wire' = wire /\ side' = side /\ taken' = taken
      BY <2>4 DEF vars
    <3>2. Pending' = Pending
      BY <3>1 DEF Pending
    <3> QED BY <3>1, <3>2 DEF StreamInv
  <2> QED BY <2>1, <2>2, <2>3, <2>4 DEF Next
<1> QED BY <1>1, <1>2, StreamInvInStep, PTL DEF Spec

=============================================================================
