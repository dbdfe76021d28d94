---------------------------- MODULE SessionProofs ----------------------------
(***************************************************************************)
(* One session, for any packets a client may write and any clock bound: the *)
(* codec gives back what was encoded, ReadPacket stays in step with the     *)
(* client, every request gets its own answer, and the keep-alive deadline   *)
(* finds the silent clients and no others.                                  *)
(*                                                                         *)
(* The encodings are recursive functions of data, so the proofs need        *)
(* induction over data.  It is taken from sets: LeastNumber (from WFMin)    *)
(* gives every set of counterexamples a least one, and RecursionSolved      *)
(* makes a recursive definition equal to its right-hand side.               *)
(*                                                                         *)
(* StreamInv: the stream is the bytes of the requests that are not dealt    *)
(* with, followed by nothing or by a packet that lacks its last byte.       *)
(* TimingInv: past CONNECT the deadline of a client with a keep-alive is    *)
(* the one ResetDeadline computed from lastSeen, without a keep-alive it is *)
(* that of CONNECT, and a session that waits for a packet has not passed it. *)
(* CurrentInv: a PUBLISH whose handler waits for msgChan is still the       *)
(* oldest request, and current is what was decoded from it.                 *)
(***************************************************************************)
EXTENDS Session, SequenceTheorems, WellFoundedInduction, TLAPS

-----------------------------------------------------------------------------
(* Induction over data                                                      *)

\* A set of numbers that is not empty has a least element.
LEMMA LeastNumber ==
    ASSUME NEW T \in SUBSET Nat, T # {}
    PROVE  \E x \in T : \A y \in T : x <= y
<1> DEFINE R == {ss \in Nat \X Nat : ss[1] < ss[2]}
<1>1. IsWellFoundedOn(R, Nat)
  BY NatLessThanWellFounded DEF OpToRel
<1> HIDE DEF R
<1>2. PICK x \in T : \A y \in T : ~ (<<y, x>> \in R)
  BY <1>1, WFMin
<1>3. \A y \in T : ~(y < x)
  BY <1>2 DEF R
<1> QED
  BY <1>3

\* D, the right-hand side of a recursive definition on S, looks at arguments of
\* lower rank only; and a solution of the definition.
LowerOnly(D, rank, S, V) ==
    /\ rank \in [S -> Nat] /\ D \in [[S -> V] -> [S -> V]] /\ V # {}
    /\ \A f, g \in [S -> V], x \in S :
         (\A y \in S : rank[y] < rank[x] => f[y] = g[y]) => D[f][x] = D[g][x]
Solves(f, D, S, V) == f \in [S -> V] /\ f = D[f]

\* Such a recursive definition has a solution.
LEMMA RecursionSolved ==
    ASSUME NEW S, NEW V, NEW rank, NEW D, LowerOnly(D, rank, S, V)
    PROVE  \E f : Solves(f, D, S, V)
<1>0. rank \in [S -> Nat] /\ D \in [[S -> V] -> [S -> V]] /\ V # {}
  BY DEF LowerOnly
<1> DEFINE Upto(f, m) == f \in [S -> V] /\ \A x \in S : rank[x] < m => f[x] = D[f][x]
           Bad == {m \in Nat : ~ \E f \in [S -> V] : Upto(f, m)}
<1>1. Bad = {}
  <2> SUFFICES ASSUME Bad # {} PROVE FALSE
    BY <1>0
  <2>1. PICK m \in Bad : \A k \in Bad : m <= k
    BY <1>0, LeastNumber
  <2>2. m # 0
    <3>1. PICK v \in V : TRUE
      BY <1>0
    <3> DEFINE f == [x \in S |-> v]
    <3>2. \A x \in S : ~(rank[x] < 0)
      BY <1>0
    <3>3. f \in [S -> V] /\ Upto(f, 0)
      BY <1>0, <3>2
    <3> QED
      BY <1>0, <3>3, <2>1
  <2>3. m - 1 \in Nat /\ m - 1 \notin Bad
    BY <1>0, <2>1, <2>2
  <2>4. PICK f \in [S -> V] : Upto(f, m - 1)
    BY <1>0, <2>3
  <2> DEFINE g == D[f]
  <2>5. g \in [S -> V]
    BY <1>0
  <2>6. ASSUME NEW x \in S, rank[x] < m PROVE g[x] = D[g][x]
    <3>1. ASSUME NEW y \in S, rank[y] < rank[x] PROVE f[y] = g[y]
      <4>1. rank[y] < m - 1
        BY <1>0, <2>3, <2>6, <3>1
      <4> QED
        BY <1>0, <2>4, <4>1
    <3>2. D[f][x] = D[g][x]
      BY <1>0, <2>5, <3>1 DEF LowerOnly
    <3> QED
      BY <1>0, <3>2
  <2>7. Upto(g, m)
    BY <1>0, <2>5, <2>6
  <2> QED
    BY <1>0, <2>1, <2>5, <2>7
<1>2. ASSUME NEW f, NEW g, NEW m \in Nat, NEW n \in Nat, Upto(f, m), Upto(g, n),
             NEW x \in S, rank[x] < m, rank[x] < n
      PROVE  f[x] = g[x]
  <2> DEFINE Diff == {k \in Nat : \E y \in S : rank[y] = k /\ k < m /\ k < n /\ f[y] # g[y]}
  <2> SUFFICES ASSUME Diff # {} PROVE FALSE
    BY <1>0, <1>2
  <2>1. PICK k \in Diff : \A l \in Diff : k <= l
    BY <1>0, LeastNumber
  <2>2. PICK y \in S : rank[y] = k /\ k < m /\ k < n /\ f[y] # g[y]
    BY <1>0, <2>1
  <2>3. ASSUME NEW z \in S, rank[z] < rank[y] PROVE f[z] = g[z]
    <3> SUFFICES ASSUME f[z] # g[z] PROVE FALSE
      BY <1>0
    <3>1. rank[z] \in Diff
      BY <1>0, <2>2, <2>3
    <3> QED
      BY <1>0, <2>1, <2>2, <2>3, <3>1
  <2>4. D[f][y] = D[g][y]
    BY <1>0, <1>2, <2>3 DEF LowerOnly
  <2> QED
    BY <1>0, <1>2, <2>2, <2>4
<1> DEFINE Fun(m) == CHOOSE f \in [S -> V] : Upto(f, m)
           F == [x \in S |-> Fun(rank[x] + 1)[x]]
<1>3. ASSUME NEW m \in Nat PROVE Upto(Fun(m), m)
  <2>1. \E f \in [S -> V] : Upto(f, m)
    BY <1>0, <1>1
  <2> QED
    BY <1>0, <2>1
<1> HIDE DEF Fun, Upto
<1>4. F \in [S -> V]
  <2> SUFFICES ASSUME NEW x \in S PROVE Fun(rank[x] + 1)[x] \in V
    BY <1>0
  <2>1. rank[x] + 1 \in Nat
    BY <1>0
  <2>2. Fun(rank[x] + 1) \in [S -> V]
    BY <1>0, <1>3, <2>1 DEF Upto
  <2> QED
    BY <1>0, <2>2
<1>5. ASSUME NEW x \in S PROVE F[x] = D[F][x]
  <2> DEFINE m == rank[x] + 1
  <2>1. m \in Nat /\ rank[x] < m
    BY <1>0
  <2>2. Upto(Fun(m), m)
    BY <1>0, <1>3, <2>1
  <2>3. Fun(m) \in [S -> V] /\ Fun(m)[x] = D[Fun(m)][x]
    BY <1>0, <2>1, <2>2 DEF Upto
  <2>4. ASSUME NEW y \in S, rank[y] < rank[x] PROVE Fun(m)[y] = F[y]
    <3>1. rank[y] + 1 \in Nat /\ rank[y] < rank[y] + 1 /\ rank[y] < m
      BY <1>0, <2>4
    <3>2. Upto(Fun(rank[y] + 1), rank[y] + 1)
      BY <1>0, <1>3, <3>1
    <3>3. Fun(rank[y] + 1)[y] = Fun(m)[y]
      BY <1>0, <1>2, <2>1, <2>2, <3>1, <3>2
    <3> QED
      BY <1>0, <3>3
  <2>5. D[Fun(m)][x] = D[F][x]
    BY <1>0, <1>4, <2>3, <2>4 DEF LowerOnly
  <2> QED
    BY <1>0, <2>3, <2>5
<1> HIDE DEF F
<1>6. F = D[F]
  BY <1>0, <1>4, <1>5
<1> QED
  BY <1>4, <1>6 DEF Solves

-----------------------------------------------------------------------------
(* The remaining length                                                     *)

\* EncodeRemainingLength, by its recursive definition.
LEMMA EncodeLengthIs ==
    ASSUME NEW n \in Nat
    PROVE  EncodeLength[n] =
             IF n < 128 THEN <<n>> ELSE <<128 + (n % 128)>> \o EncodeLength[n \div 128]
<1> DEFINE V == Seq(Nat)
           Def(f) == [m \in Nat |-> IF m < 128 THEN <<m>>
                                     ELSE <<128 + (m % 128)>> \o f[m \div 128]]
           D == [f \in [Nat -> V] |-> Def(f)]
           rank == [m \in Nat |-> m]
<1>0. ASSUME NEW m \in Nat, m >= 128 PROVE m \div 128 \in Nat /\ m \div 128 < m /\ m % 128 \in Nat
  BY <1>0
<1>1. ASSUME NEW f \in [Nat -> V] PROVE Def(f) \in [Nat -> V]
  <2> SUFFICES ASSUME NEW m \in Nat PROVE Def(f)[m] \in V
    OBVIOUS
  <2>1. CASE m < 128
    BY <2>1
  <2>2. CASE m >= 128
    <3>1. m \div 128 \in Nat /\ 128 + (m % 128) \in Nat
      BY <1>0, <2>2
    <3>2. f[m \div 128] \in V
      BY <3>1
    <3>3. <<128 + (m % 128)>> \in V
      BY <3>1
    <3> QED
      BY <2>2, <3>2, <3>3
  <2> QED
    BY <2>1, <2>2
<1>2. D \in [[Nat -> V] -> [Nat -> V]]
  BY <1>1
<1>3. rank \in [Nat -> Nat]
  OBVIOUS
<1>4. ASSUME NEW f \in [Nat -> V], NEW g \in [Nat -> V], NEW m \in Nat,
             \A k \in Nat : rank[k] < rank[m] => f[k] = g[k]
      PROVE  D[f][m] = D[g][m]
  <2>1. m >= 128 => f[m \div 128] = g[m \div 128]
    BY <1>0, <1>4
  <2> QED
    BY <2>1
<1>5. V # {}
  <2>1. << >> \in V
    OBVIOUS
  <2> QED
    BY <2>1
<1>8. EncodeLength = CHOOSE h : h = Def(h)
  BY DEF EncodeLength
<1>d. \A f \in [Nat -> V] : D[f] = Def(f)
  OBVIOUS
<1> HIDE DEF D, rank, V, Def
<1>6. LowerOnly(D, rank, Nat, V)
  BY <1>2, <1>3, <1>4, <1>5 DEF LowerOnly
<1>7. PICK f : f = Def(f)
  <2>1. PICK f : Solves(f, D, Nat, V)
    BY <1>6, RecursionSolved
  <2> QED
    BY <2>1, <1>d DEF Solves
<1>9. EncodeLength = Def(EncodeLength)
  BY <1>7, <1>8
<1> QED
  BY <1>9 DEF Def

\* Reading past e in e \o t.
LEMMA Skip ==
    ASSUME NEW e \in Seq(Byte), NEW t \in Seq(Byte)
    PROVE  /\ e \o t \in Seq(Byte) /\ Len(e \o t) = Len(e) + Len(t)
           /\ SubSeq(e \o t, 1, Len(e)) = e /\ From(e \o t, Len(e) + 1) = t
           /\ \A i \in 1..Len(e) : (e \o t)[i] = e[i]
<1>1. /\ e \o t \in Seq(Byte) /\ Len(e \o t) = Len(e) + Len(t)
      /\ \A i \in 1..Len(e) : (e \o t)[i] = e[i]
      /\ \A i \in 1..Len(t) : (e \o t)[Len(e) + i] = t[i]
  BY ConcatProperties
<1>2. SubSeq(e \o t, 1, Len(e)) = e
  BY <1>1, SubSeqProperties
<1>3. From(e \o t, Len(e) + 1) = t
  <2>1. /\ From(e \o t, Len(e) + 1) \in Seq(Byte)
        /\ Len(From(e \o t, Len(e) + 1)) = Len(t)
        /\ \A i \in 1..Len(t) : From(e \o t, Len(e) + 1)[i] = (e \o t)[Len(e) + i]
    BY <1>1, SubSeqProperties DEF From
  <2> QED
    BY <1>1, <2>1
<1> QED
  BY <1>1, <1>2, <1>3

\* Bytes are numbers.
LEMMA ByteIsInt == \A x \in Byte : x \in Int /\ 0 <= x /\ x <= 255
  BY DEF Byte

\* A byte in front of others.
LEMMA InFront ==
    ASSUME NEW x \in Byte, NEW e \in Seq(Byte)
    PROVE  /\ <<x>> \o e \in Seq(Byte) /\ Len(<<x>> \o e) = Len(e) + 1
           /\ (<<x>> \o e)[1] = x
           /\ \A i \in 1..Len(e) : (<<x>> \o e)[i + 1] = e[i]
           /\ Tail(<<x>> \o e) = e
<1>1. <<x>> \in Seq(Byte) /\ Len(<<x>>) = 1 /\ <<x>>[1] = x
  OBVIOUS
<1>2. /\ <<x>> \o e \in Seq(Byte) /\ Len(<<x>> \o e) = Len(e) + 1
      /\ (<<x>> \o e)[1] = x
      /\ \A i \in 1..Len(e) : (<<x>> \o e)[1 + i] = e[i]
  BY <1>1, ConcatProperties
<1>3. Tail(<<x>> \o e) = e
  BY <1>2
<1> QED
  BY <1>2, <1>3

\* The encoding of a length is at least one byte.
LEMMA EncodedBytes == \A n \in Nat : EncodeLength[n] \in Seq(Byte) /\ Len(EncodeLength[n]) > 0
<1> DEFINE Bad == {n \in Nat : ~(EncodeLength[n] \in Seq(Byte) /\ Len(EncodeLength[n]) > 0)}
<1> SUFFICES ASSUME Bad # {} PROVE FALSE
  OBVIOUS
<1>1. PICK n \in Bad : \A m \in Bad : n <= m
  BY LeastNumber
<1>2. /\ n \in Nat /\ \A m \in Nat : m < n => EncodeLength[m] \in Seq(Byte)
      /\ ~(EncodeLength[n] \in Seq(Byte) /\ Len(EncodeLength[n]) > 0)
  BY <1>1
<1> HIDE DEF Bad
<1>3. EncodeLength[n] =
        IF n < 128 THEN <<n>> ELSE <<128 + (n % 128)>> \o EncodeLength[n \div 128]
  BY <1>2, EncodeLengthIs
<1>4. CASE n < 128
  <2>1. n \in Byte
    BY <1>2, <1>4 DEF Byte
  <2>2. <<n>> \in Seq(Byte) /\ Len(<<n>>) > 0
    BY <2>1
  <2> QED
    BY <1>2, <1>3, <1>4, <2>2
<1>5. CASE ~(n < 128)
  <2>1. n \div 128 \in Nat /\ n \div 128 < n /\ 128 + (n % 128) \in Byte
    BY <1>2, <1>5 DEF Byte
  <2>2. EncodeLength[n \div 128] \in Seq(Byte)
    BY <1>2, <2>1
  <2>3. EncodeLength[n] = <<128 + (n % 128)>> \o EncodeLength[n \div 128]
    BY <1>3, <1>5
  <2>4. <<128 + (n % 128)>> \in Seq(Byte) /\ Len(<<128 + (n % 128)>>) = 1
    BY <2>1
  <2>5. EncodeLength[n] \in Seq(Byte) /\ Len(EncodeLength[n]) > 0
    BY <2>2, <2>3, <2>4, Skip
  <2> QED
    BY <1>2, <2>5
<1> QED
  BY <1>4, <1>5

\* Where the length ends is where its value is taken.
LEMMA LengthEndsAt ==
    ASSUME NEW s \in Seq(Byte), NEW k \in 1..4, k <= Len(s), s[k] < 128,
           \A j \in 1..(k - 1) : s[j] >= 128
    PROVE  DecodeRemainingLength(s) = Decoded(LengthValue(s, k), From(s, k + 1))
<1> DEFINE last == {i \in DOMAIN s : i <= 4 /\ s[i] < 128 /\ \A j \in 1..(i - 1) : s[j] >= 128}
<1>1. k \in last
  OBVIOUS
<1>2. ASSUME NEW i \in last PROVE i = k
  <2>0. ASSUME NEW j \in 1..Len(s) PROVE s[j] \in Int
    <3>1. s[j] \in Byte
      OBVIOUS
    <3> QED
      BY <3>1, ByteIsInt
  <2>1. i \in 1..Len(s) /\ \A j \in 1..Len(s) : s[j] \in Int
    BY <2>0
  <2>2. ~(i < k)
    BY <2>1
  <2>3. ~(k < i)
    BY <2>1
  <2> QED
    BY <2>1, <2>2, <2>3
<1>3. (CHOOSE i \in last : TRUE) = k
  BY <1>1, <1>2
<1>4. last # {}
  BY <1>1
<1> QED
  BY <1>3, <1>4 DEF DecodeRemainingLength

\* The bytes of an encoded length, and how many there are.
EncByte(n, i) == EncodeLength[n][i]
EncLen(n) == Len(EncodeLength[n])

\* The last byte of an encoded length,
LEMMA EncodedShort ==
    ASSUME NEW m \in Nat, m < 128
    PROVE  EncLen(m) = 1 /\ EncByte(m, 1) = m
<1>1. EncodeLength[m] = <<m>>
  BY EncodeLengthIs
<1> QED
  BY <1>1 DEF EncLen, EncByte

\* and the ones before it.
LEMMA EncodedLong ==
    ASSUME NEW m \in Nat, m >= 128, NEW q, q = m \div 128
    PROVE  /\ q \in Nat /\ m = 128 * q + (m % 128) /\ m % 128 \in 0..127
           /\ EncLen(q) \in Nat \ {0} /\ EncLen(m) = EncLen(q) + 1
           /\ EncByte(m, 1) = 128 + (m % 128) /\ EncByte(m, 2) = EncByte(q, 1)
           /\ EncLen(q) >= 2 => EncByte(m, 3) = EncByte(q, 2)
           /\ EncLen(q) >= 3 => EncByte(m, 4) = EncByte(q, 3)
<1> DEFINE x == 128 + (m % 128)
           e == EncodeLength[q]
           E == EncodeLength[m]
<1>0. E = IF m < 128 THEN <<m>> ELSE <<128 + (m % 128)>> \o EncodeLength[m \div 128]
  BY EncodeLengthIs
<1>1. E = <<x>> \o e
  <2>1. ~(m < 128)
    OBVIOUS
  <2> QED
    BY <1>0, <2>1
<1>2. q \in Nat /\ x \in Byte /\ m = 128 * q + (m % 128) /\ m % 128 \in 0..127
  BY DEF Byte
<1> HIDE DEF x
<1>3. e \in Seq(Byte) /\ Len(e) \in Nat \ {0}
  BY <1>2, EncodedBytes
<1> HIDE DEF e, E
<1>4. /\ Len(E) = Len(e) + 1 /\ E[1] = x
      /\ \A i \in 1..Len(e) : E[i + 1] = e[i]
  BY <1>1, <1>2, <1>3, InFront
<1>5. E[1 + 1] = e[1]
  BY <1>3, <1>4
<1>6. Len(e) >= 2 => E[2 + 1] = e[2]
  BY <1>3, <1>4
<1>7. Len(e) >= 3 => E[3 + 1] = e[3]
  BY <1>3, <1>4
<1> QED
  BY <1>2, <1>3, <1>4, <1>5, <1>6, <1>7 DEF EncLen, EncByte, x, e, E

\* A length up to four bytes is decoded to itself, a longer one refused.
LEMMA LengthDecoded ==
    ASSUME NEW n \in Nat, NEW t \in Seq(Byte)
    PROVE  DecodeRemainingLength(EncodeRemainingLength(n) \o t) =
             IF n < 128 * 128 * 128 * 128 THEN Decoded(n, t) ELSE Malformed
<1> DEFINE s == EncodeRemainingLength(n) \o t
<1>1. EncodeLength[n] \in Seq(Byte) /\ Len(EncodeLength[n]) > 0
  BY EncodedBytes
<1>2. /\ s \in Seq(Byte) /\ Len(s) = EncLen(n) + Len(t) /\ EncLen(n) \in Nat /\ Len(t) \in Nat
      /\ \A i \in 1..EncLen(n) : s[i] = EncByte(n, i)
      /\ From(s, EncLen(n) + 1) = t
  BY <1>1, Skip, ConcatProperties DEF EncLen, EncByte, EncodeRemainingLength
<1> HIDE DEF s
<1> DEFINE a == n \div 128
           b == a \div 128
           c == b \div 128
           d == c \div 128
           Long(m, q) ==
             /\ q \in Nat /\ m = 128 * q + (m % 128) /\ m % 128 \in 0..127
             /\ EncLen(q) \in Nat \ {0} /\ EncLen(m) = EncLen(q) + 1
             /\ EncByte(m, 1) = 128 + (m % 128) /\ EncByte(m, 2) = EncByte(q, 1)
             /\ EncLen(q) >= 2 => EncByte(m, 3) = EncByte(q, 2)
             /\ EncLen(q) >= 3 => EncByte(m, 4) = EncByte(q, 3)
<1>3. ASSUME NEW m \in Nat PROVE m >= 128 => Long(m, m \div 128)
  BY EncodedLong
<1>4. ASSUME NEW m \in Nat PROVE m \div 128 \in Nat
  OBVIOUS
<1>5. a \in Nat /\ b \in Nat /\ c \in Nat /\ d \in Nat
  BY <1>4
<1> HIDE DEF Long
<1>6. /\ n >= 128 => Long(n, a)
      /\ a >= 128 => Long(a, b)
      /\ b >= 128 => Long(b, c)
      /\ c >= 128 => Long(c, d)
  BY <1>3, <1>5
<1> HIDE DEF a, b, c, d
<1>7. CASE n < 128
  <2>1. EncLen(n) = 1 /\ EncByte(n, 1) = n
    BY <1>7, EncodedShort
  <2>2. s[1] = n /\ 1 <= Len(s)
    BY <1>2, <2>1
  <2>3. DecodeRemainingLength(s) = Decoded(LengthValue(s, 1), From(s, 1 + 1))
    BY <1>2, <1>7, <2>2, LengthEndsAt
  <2>4. LengthValue(s, 1) = n
    BY <1>7, <2>2 DEF LengthValue
  <2> QED
    BY <1>7, <1>2, <2>1, <2>3, <2>4 DEF s
<1>8. CASE n >= 128 /\ a < 128
  <2>1. EncLen(a) = 1 /\ EncByte(a, 1) = a
    BY <1>5, <1>8, EncodedShort
  <2>2. Long(n, a)
    BY <1>6, <1>8
  <2>3. EncLen(n) = 2 /\ EncByte(n, 1) = 128 + (n % 128) /\ EncByte(n, 2) = a
    BY <2>1, <2>2 DEF Long
  <2>4. s[1] = 128 + (n % 128) /\ s[2] = a /\ 2 <= Len(s)
    BY <1>2, <2>3
  <2>5. n = 128 * a + (n % 128) /\ n % 128 \in 0..127
    BY <2>2 DEF Long
  <2>6. DecodeRemainingLength(s) = Decoded(LengthValue(s, 2), From(s, 2 + 1))
    <3>1. s[2] < 128 /\ \A j \in 1..(2 - 1) : s[j] >= 128
      BY <1>5, <1>8, <2>4, <2>5
    <3> QED
      BY <1>2, <2>4, <3>1, LengthEndsAt
  <2>7. LengthValue(s, 2) = n
    BY <1>5, <1>8, <2>4, <2>5 DEF LengthValue
  <2>8. n < 128 * 128 * 128 * 128
    BY <1>5, <1>8, <2>5
  <2> QED
    BY <1>2, <2>3, <2>6, <2>7, <2>8 DEF s
<1>9. CASE n >= 128 /\ a >= 128 /\ b < 128
  <2>1. EncLen(b) = 1 /\ EncByte(b, 1) = b
    BY <1>5, <1>9, EncodedShort
  <2>2. Long(n, a) /\ Long(a, b)
    BY <1>6, <1>9
  <2>3. /\ EncLen(n) = 3 /\ EncByte(n, 1) = 128 + (n % 128)
        /\ EncByte(n, 2) = 128 + (a % 128) /\ EncByte(n, 3) = b
    BY <2>1, <2>2 DEF Long
  <2>4. s[1] = 128 + (n % 128) /\ s[2] = 128 + (a % 128) /\ s[3] = b /\ 3 <= Len(s)
    BY <1>2, <2>3
  <2>5. /\ n = 128 * a + (n % 128) /\ n % 128 \in 0..127
        /\ a = 128 * b + (a % 128) /\ a % 128 \in 0..127
    BY <2>2 DEF Long
  <2>6. DecodeRemainingLength(s) = Decoded(LengthValue(s, 3), From(s, 3 + 1))
    <3>1. s[3] < 128 /\ \A j \in 1..(3 - 1) : s[j] >= 128
      BY <1>5, <1>9, <2>4, <2>5
    <3> QED
      BY <1>2, <2>4, <3>1, LengthEndsAt, SMTT(30)
  <2>7. LengthValue(s, 3) = n
    BY <1>5, <1>9, <2>4, <2>5 DEF LengthValue
  <2>8. n < 128 * 128 * 128 * 128
    BY <1>5, <1>9, <2>5
  <2> QED
    BY <1>2, <2>3, <2>6, <2>7, <2>8 DEF s
<1>10. CASE n >= 128 /\ a >= 128 /\ b >= 128 /\ c < 128
  <2>1. EncLen(c) = 1 /\ EncByte(c, 1) = c
    BY <1>5, <1>10, EncodedShort
  <2>2. Long(n, a) /\ Long(a, b) /\ Long(b, c)
    BY <1>6, <1>10
  <2>3. /\ EncLen(n) = 4 /\ EncByte(n, 1) = 128 + (n % 128)
        /\ EncByte(n, 2) = 128 + (a % 128) /\ EncByte(n, 3) = 128 + (b % 128)
        /\ EncByte(n, 4) = c
    BY <2>1, <2>2 DEF Long
  <2>4. /\ s[1] = 128 + (n % 128) /\ s[2] = 128 + (a % 128) /\ s[3] = 128 + (b % 128)
        /\ s[4] = c /\ 4 <= Len(s)
    BY <1>2, <2>3
  <2>5. /\ n = 128 * a + (n % 128) /\ n % 128 \in 0..127
        /\ a = 128 * b + (a % 128) /\ a % 128 \in 0..127
        /\ b = 128 * c + (b % 128) /\ b % 128 \in 0..127
    BY <2>2 DEF Long
  <2>6. s[1] >= 128 /\ s[2] >= 128 /\ s[3] >= 128 /\ s[4] < 128
    BY <1>5, <1>10, <2>4, <2>5
  <2>7. DecodeRemainingLength(s) = Decoded(LengthValue(s, 4), From(s, 4 + 1))
    <3>1. \A j \in 1..(4 - 1) : s[j] >= 128
      BY <2>6
    <3> QED
      BY <1>2, <2>4, <2>6, <3>1, LengthEndsAt, SMTT(30)
  <2>8. LengthValue(s, 4) = n
    BY <1>5, <1>10, <2>4, <2>5, SMTT(30) DEF LengthValue
  <2>9. n < 128 * 128 * 128 * 128
    BY <1>5, <1>10, <2>5
  <2> QED
    BY <1>2, <2>3, <2>7, <2>8, <2>9 DEF s
<1>11. CASE n >= 128 /\ a >= 128 /\ b >= 128 /\ c >= 128
  <2>1. Long(n, a) /\ Long(a, b) /\ Long(b, c) /\ Long(c, d)
    BY <1>6, <1>11
  <2>2. /\ EncLen(n) >= 4 /\ EncByte(n, 1) = 128 + (n % 128)
        /\ EncByte(n, 2) = 128 + (a % 128) /\ EncByte(n, 3) = 128 + (b % 128)
        /\ EncByte(n, 4) = 128 + (c % 128)
    <3>1. /\ EncLen(d) \in Nat \ {0} /\ EncLen(c) = EncLen(d) + 1 /\ EncLen(b) = EncLen(c) + 1
          /\ EncLen(a) = EncLen(b) + 1 /\ EncLen(n) = EncLen(a) + 1
      BY <2>1 DEF Long
    <3>2. EncLen(a) >= 3 /\ EncLen(b) >= 2 /\ EncLen(a) >= 2 /\ EncLen(n) >= 4
      BY <3>1
    <3> QED
      BY <2>1, <3>2 DEF Long
  <2>3. /\ n = 128 * a + (n % 128) /\ n % 128 \in 0..127
        /\ a = 128 * b + (a % 128) /\ a % 128 \in 0..127
        /\ b = 128 * c + (b % 128) /\ b % 128 \in 0..127 /\ c % 128 \in 0..127
    BY <2>1 DEF Long
  <2>4. /\ s[1] = 128 + (n % 128) /\ s[2] = 128 + (a % 128)
        /\ s[3] = 128 + (b % 128) /\ s[4] = 128 + (c % 128)
    BY <1>2, <2>2
  <2>5. ~(s[1] < 128) /\ ~(s[2] < 128) /\ ~(s[3] < 128) /\ ~(s[4] < 128)
    BY <1>5, <2>3, <2>4
  <2>6. \A i \in DOMAIN s : ~(i <= 4 /\ s[i] < 128)
    <3>1. \A i \in DOMAIN s : i \in Int /\ i >= 1
      BY <1>2
    <3> QED
      BY <2>5, <3>1
  <2>7. DecodeRemainingLength(s) = Malformed
    BY <2>6 DEF DecodeRemainingLength
  <2>8. ~(n < 128 * 128 * 128 * 128)
    BY <1>5, <1>11, <2>3, SMTT(30)
  <2> QED
    BY <2>7, <2>8 DEF s
<1> QED
  BY <1>5, <1>7, <1>8, <1>9, <1>10, <1>11

-----------------------------------------------------------------------------
(* Fields: what was written is read, and more bytes after it stay unread    *)

\* A sequence is its first n bytes and the others.
LEMMA Split ==
    ASSUME NEW s \in Seq(Byte), NEW n \in 0..Len(s)
    PROVE  /\ SubSeq(s, 1, n) \in Seq(Byte) /\ Len(SubSeq(s, 1, n)) = n
           /\ From(s, n + 1) \in Seq(Byte) /\ Len(From(s, n + 1)) = Len(s) - n
           /\ s = SubSeq(s, 1, n) \o From(s, n + 1)
<1>1. SubSeq(s, 1, n) \in Seq(Byte) /\ Len(SubSeq(s, 1, n)) = n
  BY SubSeqProperties
<1>2. From(s, n + 1) \in Seq(Byte) /\ Len(From(s, n + 1)) = Len(s) - n
  BY SubSeqProperties DEF From
<1>3. SubSeq(s, 1, n) \o SubSeq(s, n + 1, Len(s)) = SubSeq(s, 1, Len(s))
  <2>1. /\ 1 \in 1..(Len(s) + 1) /\ n \in (1 - 1)..Len(s) /\ Len(s) \in n..Len(s)
    OBVIOUS
  <2> QED
    BY <2>1, ConcatAdjacentSubSeq
<1>4. SubSeq(s, 1, Len(s)) = s
  BY SubSeqFull
<1> QED
  BY <1>1, <1>2, <1>3, <1>4, Zenon DEF From

\* Joining sequences is associative.
LEMMA Assoc ==
    ASSUME NEW s \in Seq(Byte), NEW t \in Seq(Byte), NEW u \in Seq(Byte)
    PROVE  (s \o t) \o u = s \o (t \o u) /\ t \o u \in Seq(Byte) /\ s \o t \in Seq(Byte)
  BY ConcatAssociative, ConcatProperties

\* io.ReadFull takes the first n bytes,
LEMMA ReadFullOf ==
    ASSUME NEW p \in Seq(Byte), NEW q \in Seq(Byte)
    PROVE  ReadFull(p \o q, Len(p)) = Decoded(p, q)
<1>1. /\ Len(p \o q) = Len(p) + Len(q) /\ Len(p) \in Nat /\ Len(q) \in Nat
      /\ SubSeq(p \o q, 1, Len(p)) = p /\ From(p \o q, Len(p) + 1) = q
  BY Skip
<1>2. ~(Len(p \o q) < Len(p))
  BY <1>1
<1> QED
  BY <1>1, <1>2 DEF ReadFull

\* and fails if there are fewer.
LEMMA ReadFullOk ==
    ASSUME NEW s \in Seq(Byte), NEW n \in Nat, ReadFull(s, n).ok
    PROVE  \E p, q \in Seq(Byte) : s = p \o q /\ Len(p) = n /\ ReadFull(s, n) = Decoded(p, q)
<1>1. Len(s) >= n
  BY DEF ReadFull, Malformed
<1> DEFINE p == SubSeq(s, 1, n)
           q == From(s, n + 1)
<1>2. p \in Seq(Byte) /\ q \in Seq(Byte) /\ Len(p) = n /\ s = p \o q
  <2>1. n \in 0..Len(s)
    BY <1>1
  <2> QED
    BY <2>1, Split
<1> HIDE DEF p, q
<1>3. ReadFull(s, n) = Decoded(p, q)
  BY <1>2, ReadFullOf
<1> QED
  BY <1>2, <1>3

\* More bytes behind do not change what io.ReadFull returns.
LEMMA ReadFullMore ==
    ASSUME NEW s \in Seq(Byte), NEW n \in Nat, ReadFull(s, n).ok, NEW t \in Seq(Byte)
    PROVE  /\ ReadFull(s, n).val \in Seq(Byte) /\ Len(ReadFull(s, n).val) = n
           /\ ReadFull(s, n).rest \in Seq(Byte)
           /\ ReadFull(s \o t, n) = Decoded(ReadFull(s, n).val, ReadFull(s, n).rest \o t)
<1>1. PICK p, q \in Seq(Byte) : s = p \o q /\ Len(p) = n /\ ReadFull(s, n) = Decoded(p, q)
  BY ReadFullOk
<1>2. s \o t = p \o (q \o t) /\ q \o t \in Seq(Byte)
  BY <1>1, Assoc
<1>3. ReadFull(s \o t, n) = Decoded(p, q \o t)
  BY <1>1, <1>2, ReadFullOf
<1> QED
  BY <1>1, <1>3 DEF Decoded

\* binary.BigEndian.PutUint16 writes two bytes,
LEMMA Uint16Bytes ==
    ASSUME NEW n \in Nat
    PROVE  Uint16(n) \in Seq(Byte) /\ Len(Uint16(n)) = 2
<1>1. (n \div 256) % 256 \in Byte /\ n % 256 \in Byte
  BY DEF Byte
<1> QED
  BY <1>1 DEF Uint16

\* Uint16 reads them back,
LEMMA Uint16Value ==
    ASSUME NEW n \in Nat, n < 65536
    PROVE  ValueOf(Uint16(n)[1], Uint16(n)[2]) = n
<1>1. Uint16(n)[1] = (n \div 256) % 256 /\ Uint16(n)[2] = n % 256
  BY DEF Uint16
<1>2. n \div 256 \in Nat /\ n \div 256 < 256 /\ 256 * (n \div 256) + (n % 256) = n
  OBVIOUS
<1>3. ASSUME NEW m \in Nat, m < 256 PROVE m % 256 = m
  BY <1>3
<1> QED
  BY <1>1, <1>2, <1>3 DEF ValueOf

\* and every two bytes are those of one number.
LEMMA Uint16Of ==
    ASSUME NEW hi \in Byte, NEW lo \in Byte
    PROVE  /\ ValueOf(hi, lo) \in Nat /\ ValueOf(hi, lo) < 65536
           /\ Uint16(ValueOf(hi, lo)) = <<hi, lo>>
<1>0. hi \in Int /\ 0 <= hi /\ hi <= 255 /\ lo \in Int /\ 0 <= lo /\ lo <= 255
  BY ByteIsInt
<1> DEFINE n == 256 * hi + lo
<1>1. n \in Nat /\ n < 65536 /\ n \div 256 = hi /\ n % 256 = lo
  BY <1>0
<1>2. hi % 256 = hi
  BY <1>0
<1> QED
  BY <1>1, <1>2 DEF ValueOf, Uint16

\* A string field is a sequence of bytes.
LEMMA WriteBytes ==
    ASSUME NEW x \in Seq(Byte)
    PROVE  WriteUTF8String(x) \in Seq(Byte)
<1>1. Uint16(Len(x)) \in Seq(Byte)
  BY Uint16Bytes
<1> QED
  BY <1>1, ConcatProperties DEF WriteUTF8String

\* ReadUTF8String gives back what WriteUTF8String wrote.
LEMMA ReadStringOf ==
    ASSUME NEW x, IsString(x), NEW t \in Seq(Byte)
    PROVE  ReadUTF8String(WriteUTF8String(x) \o t) = Decoded(x, t)
<1> DEFINE u == Uint16(Len(x))
           s == WriteUTF8String(x) \o t
           y == x \o t
<1>1. x \in Seq(Byte) /\ Len(x) \in Nat /\ Len(x) < 65536
  BY DEF IsString
<1>2. u \in Seq(Byte) /\ Len(u) = 2 /\ ValueOf(u[1], u[2]) = Len(x)
  BY <1>1, Uint16Bytes, Uint16Value
<1>3. s = u \o y /\ y \in Seq(Byte)
  <2>1. u \in Seq(Byte) /\ s = (u \o x) \o t
    BY <1>2 DEF WriteUTF8String
  <2> HIDE DEF u, s
  <2> QED
    BY <1>1, <2>1, Assoc
<1> HIDE DEF u, s, y
<1>4. /\ Len(s) = Len(u) + Len(y) /\ Len(y) \in Nat /\ From(s, Len(u) + 1) = y
      /\ \A i \in 1..Len(u) : s[i] = u[i]
  <2>1. u \in Seq(Byte)
    BY <1>2
  <2>2. /\ Len(u \o y) = Len(u) + Len(y) /\ From(u \o y, Len(u) + 1) = y
        /\ \A i \in 1..Len(u) : (u \o y)[i] = u[i]
    BY <2>1, <1>3, Skip
  <2> QED
    BY <1>3, <2>2
<1>5. s[1] = u[1] /\ s[2] = u[2] /\ From(s, 3) = y /\ ~(Len(s) < 2)
  BY <1>2, <1>4
<1>6. ReadUTF8String(s) = ReadFull(y, Len(x))
  BY <1>2, <1>5 DEF ReadUTF8String
<1> QED
  BY <1>1, <1>6, ReadFullOf DEF s, y

\* What ReadUTF8String accepts begins with a string field.
LEMMA ReadStringOk ==
    ASSUME NEW s \in Seq(Byte), ReadUTF8String(s).ok
    PROVE  \E x, q \in Seq(Byte) : s = WriteUTF8String(x) \o q /\ IsString(x)
<1>1. Len(s) >= 2 /\ ReadUTF8String(s) = ReadFull(From(s, 3), ValueOf(s[1], s[2]))
  BY DEF ReadUTF8String, Malformed
<1> DEFINE h == SubSeq(s, 1, 2)
           r == From(s, 2 + 1)
           n == ValueOf(s[1], s[2])
<1>2. h \in Seq(Byte) /\ Len(h) = 2 /\ r \in Seq(Byte) /\ s = h \o r
  <2>1. 2 \in 0..Len(s)
    BY <1>1
  <2> QED
    BY <2>1, Split
<1>3. s[1] \in Byte /\ s[2] \in Byte
  BY <1>1
<1>4. h = <<s[1], s[2]>>
  <2>1. h[1] = s[1] /\ h[2] = s[2]
    BY <1>1, <1>2, Skip
  <2>2. <<s[1], s[2]>> \in Seq(Byte) /\ Len(<<s[1], s[2]>>) = 2
    BY <1>3
  <2> HIDE DEF h
  <2> QED
    BY <1>2, <2>1, <2>2
<1>5. n \in Nat /\ n < 65536 /\ Uint16(n) = h
  BY <1>3, <1>4, Uint16Of
<1>6. ReadFull(r, n).ok
  BY <1>1
<1> HIDE DEF h, r, n
<1>7. PICK x, q \in Seq(Byte) : r = x \o q /\ Len(x) = n
  <2>1. n \in Nat /\ r \in Seq(Byte)
    BY <1>2, <1>5
  <2> QED
    BY <2>1, <1>6, ReadFullOk
<1>8. IsString(x) /\ WriteUTF8String(x) = h \o x
  BY <1>5, <1>7 DEF WriteUTF8String, IsString
<1>9. s = WriteUTF8String(x) \o q
  <2>1. (h \o x) \o q = h \o (x \o q)
    BY <1>2, <1>7, Assoc
  <2> QED
    BY <1>2, <1>7, <1>8, <2>1
<1> QED
  BY <1>7, <1>8, <1>9

\* More bytes after a complete field stay unread.
LEMMA ReadStringMore ==
    ASSUME NEW s \in Seq(Byte), ReadUTF8String(s).ok, NEW t \in Seq(Byte)
    PROVE  /\ ReadUTF8String(s).val \in Seq(Byte) /\ ReadUTF8String(s).rest \in Seq(Byte)
           /\ ReadUTF8String(s \o t) = Decoded(ReadUTF8String(s).val, ReadUTF8String(s).rest \o t)
<1>1. PICK x, q \in Seq(Byte) : s = WriteUTF8String(x) \o q /\ IsString(x)
  BY ReadStringOk
<1>2. WriteUTF8String(x) \in Seq(Byte)
  BY WriteBytes
<1>3. s \o t = WriteUTF8String(x) \o (q \o t) /\ q \o t \in Seq(Byte)
  BY <1>1, <1>2, Assoc, SMTT(30)
<1>4. ReadUTF8String(s) = Decoded(x, q) /\ ReadUTF8String(s \o t) = Decoded(x, q \o t)
  BY <1>1, <1>3, ReadStringOf
<1> QED
  BY <1>2, <1>4 DEF Decoded

\* More bytes behind do not change an optional field,
LEMMA OptionalMore ==
    ASSUME NEW s \in Seq(Byte), NEW present \in BOOLEAN, Optional(present, s).ok,
           NEW t \in Seq(Byte)
    PROVE  /\ Optional(present, s).val \in Seq(Byte) /\ Optional(present, s).rest \in Seq(Byte)
           /\ Optional(present, s \o t) =
                Decoded(Optional(present, s).val, Optional(present, s).rest \o t)
<1>1. CASE present
  BY <1>1, ReadStringMore DEF Optional
<1>2. CASE ~present
  <2>1. << >> \in Seq(Byte)
    OBVIOUS
  <2> QED
    BY <1>2, <2>1 DEF Optional, Decoded
<1> QED
  BY <1>1, <1>2

\* A field as the client writes it, if its flag is set.
Field(present, x) == IF present THEN WriteUTF8String(x) ELSE << >>

\* and a field that was written if its flag is set is read back.
LEMMA OptionalOf ==
    ASSUME NEW x, IsString(x), NEW present \in BOOLEAN, NEW t \in Seq(Byte)
    PROVE  /\ Field(present, x) \in Seq(Byte)
           /\ Optional(present, Field(present, x) \o t) =
                Decoded(IF present THEN x ELSE << >>, t)
<1>1. CASE present
  <2>1. x \in Seq(Byte)
    BY DEF IsString
  <2> QED
    BY <1>1, <2>1, ReadStringOf, WriteBytes DEF Optional, Field
<1>2. CASE ~present
  <2>1. << >> \in Seq(Byte) /\ << >> \o t = t
    BY ConcatEmptySeq
  <2> QED
    BY <1>2, <2>1 DEF Optional, Field, Decoded
<1> QED
  BY <1>1, <1>2

\* What is left of a stream of bytes is a stream of bytes.
LEMMA FromBytes ==
    ASSUME NEW s \in Seq(Byte), NEW n \in Nat \ {0}
    PROVE  From(s, n) \in Seq(Byte)
  BY SubSeqProperties DEF From

\* Two bytes are a number.
LEMMA ValueOfBytes ==
    ASSUME NEW hi \in Byte, NEW lo \in Byte
    PROVE  ValueOf(hi, lo) \in Nat
  BY DEF ValueOf, Byte

\* io.ReadFull returns the bytes asked for and leaves bytes.
LEMMA ReadFullBytes ==
    ASSUME NEW s \in Seq(Byte), NEW n \in Nat, ReadFull(s, n).ok
    PROVE  /\ ReadFull(s, n).val \in Seq(Byte) /\ Len(ReadFull(s, n).val) = n
           /\ ReadFull(s, n).rest \in Seq(Byte)
<1>1. Len(s) >= n /\ ReadFull(s, n) = Decoded(SubSeq(s, 1, n), From(s, n + 1))
  BY DEF ReadFull, Malformed, Decoded
<1>2. SubSeq(s, 1, n) \in Seq(Byte) /\ Len(SubSeq(s, 1, n)) = n
  BY <1>1, SubSeqProperties
<1>3. From(s, n + 1) \in Seq(Byte)
  BY FromBytes
<1> QED
  BY <1>1, <1>2, <1>3 DEF Decoded

\* A string field read from bytes leaves bytes.
LEMMA ReadStringBytes ==
    ASSUME NEW s \in Seq(Byte), ReadUTF8String(s).ok
    PROVE  ReadUTF8String(s).val \in Seq(Byte) /\ ReadUTF8String(s).rest \in Seq(Byte)
<1>1. Len(s) >= 2 /\ ReadUTF8String(s) = ReadFull(From(s, 3), ValueOf(s[1], s[2]))
  BY DEF ReadUTF8String, Malformed
<1>2. s[1] \in Byte /\ s[2] \in Byte
  BY <1>1
<1>3. ValueOf(s[1], s[2]) \in Nat
  BY <1>2, ValueOfBytes
<1>4. From(s, 3) \in Seq(Byte)
  BY FromBytes
<1> QED
  BY <1>1, <1>3, <1>4, ReadFullBytes

\* The keep-alive of a CONNECT that DecodeConnect accepts is a number.
LEMMA ConnectKeepAlive ==
    ASSUME NEW s \in Seq(Byte), DecodeConnect(s).ok
    PROVE  DecodeConnect(s).val.keepAlive \in Nat
<1> DEFINE name == ReadUTF8String(s)
           head == ReadFull(name.rest, 4)
           load == ConnectPayload(head.val[2], head.rest)
<1>1. name.ok
  BY DEF DecodeConnect, Then, Malformed
<1>2. name.rest \in Seq(Byte)
  BY <1>1, ReadStringBytes
<1>3. head.ok
  BY <1>1 DEF DecodeConnect, Then, Malformed
<1>4. head.val \in Seq(Byte) /\ Len(head.val) = 4
  BY <1>2, <1>3, ReadFullBytes
<1>5. load.ok /\ ~(name.val # MQTT \/ head.val[1] # 4 \/ Bit(head.val[2], 1))
  BY <1>1, <1>3 DEF DecodeConnect, Then, Malformed
<1>6. DecodeConnect(s).val.keepAlive = ValueOf(head.val[3], head.val[4])
  BY <1>1, <1>3, <1>5 DEF DecodeConnect, Then, Decoded
<1>7. head.val[3] \in Byte /\ head.val[4] \in Byte
  BY <1>4
<1> QED
  BY <1>6, <1>7, ValueOfBytes

-----------------------------------------------------------------------------
(* CONNECT                                                                  *)

\* The fields of a payload.
Payload(a, b, c, d, e) ==
    [clientID |-> a, willTopic |-> b, willMessage |-> c, username |-> d, password |-> e]

\* The payload of CONNECT, field by field.
LEMMA PayloadRead ==
    ASSUME NEW flags, NEW s, NEW r1, NEW r2, NEW r3, NEW r4, NEW r5,
           r1 = ReadUTF8String(s), r2 = Optional(HasWill(flags), r1.rest),
           r3 = Optional(HasWill(flags), r2.rest), r4 = Optional(HasUsername(flags), r3.rest),
           r5 = Optional(HasPassword(flags), r4.rest),
           r1.ok, r2.ok, r3.ok, r4.ok, r5.ok
    PROVE  ConnectPayload(flags, s) =
             Decoded(Payload(r1.val, r2.val, r3.val, r4.val, r5.val), r5.rest)
  BY DEF ConnectPayload, Then, Payload

\* More bytes behind do not change the payload,
LEMMA PayloadMore ==
    ASSUME NEW s \in Seq(Byte), NEW flags, ConnectPayload(flags, s).ok, NEW t \in Seq(Byte)
    PROVE  /\ ConnectPayload(flags, s).rest \in Seq(Byte)
           /\ ConnectPayload(flags, s \o t) =
                Decoded(ConnectPayload(flags, s).val, ConnectPayload(flags, s).rest \o t)
<1> DEFINE w == HasWill(flags)
           u == HasUsername(flags)
           p == HasPassword(flags)
           r1 == ReadUTF8String(s)
           r2 == Optional(w, r1.rest)
           r3 == Optional(w, r2.rest)
           r4 == Optional(u, r3.rest)
           r5 == Optional(p, r4.rest)
<1>e. /\ r1 = ReadUTF8String(s) /\ r2 = Optional(w, r1.rest) /\ r3 = Optional(w, r2.rest)
      /\ r4 = Optional(u, r3.rest) /\ r5 = Optional(p, r4.rest)
  BY ZenonT(30)
<1>0. w \in BOOLEAN /\ u \in BOOLEAN /\ p \in BOOLEAN
  BY SMTT(30) DEF HasWill, HasUsername, HasPassword, Bit
<1>1. /\ r1.ok /\ r2.ok /\ r3.ok /\ r4.ok /\ r5.ok
      /\ ConnectPayload(flags, s) = Decoded(Payload(r1.val, r2.val, r3.val, r4.val, r5.val), r5.rest)
  BY SMTT(30) DEF ConnectPayload, Then, Malformed, Payload
<1> HIDE DEF r1, r2, r3, r4, r5
<1>w. w = HasWill(flags) /\ u = HasUsername(flags) /\ p = HasPassword(flags)
  OBVIOUS
<1> HIDE DEF w, u, p
<1>s. ASSUME NEW b \in BOOLEAN, NEW x \in Seq(Byte), NEW y, y = Optional(b, x), y.ok
      PROVE  y.rest \in Seq(Byte) /\ Optional(b, x \o t) = Decoded(y.val, y.rest \o t)
  BY SMTT(30), <1>s, OptionalMore
<1>2. r1.rest \in Seq(Byte) /\ ReadUTF8String(s \o t) = Decoded(r1.val, r1.rest \o t)
  BY Zenon, <1>1, <1>e, ReadStringMore
<1>3. r2.rest \in Seq(Byte) /\ Optional(w, r1.rest \o t) = Decoded(r2.val, r2.rest \o t)
  <2>1. w \in BOOLEAN /\ r1.rest \in Seq(Byte) /\ r2 = Optional(w, r1.rest) /\ r2.ok
    BY Zenon, <1>0, <1>1, <1>2, <1>e
  <2> QED
    BY <1>s, <2>1
<1>4. r3.rest \in Seq(Byte) /\ Optional(w, r2.rest \o t) = Decoded(r3.val, r3.rest \o t)
  <2>1. w \in BOOLEAN /\ r2.rest \in Seq(Byte) /\ r3 = Optional(w, r2.rest) /\ r3.ok
    BY Zenon, <1>0, <1>1, <1>3, <1>e
  <2> QED
    BY <1>s, <2>1
<1>5. r4.rest \in Seq(Byte) /\ Optional(u, r3.rest \o t) = Decoded(r4.val, r4.rest \o t)
  <2>1. u \in BOOLEAN /\ r3.rest \in Seq(Byte) /\ r4 = Optional(u, r3.rest) /\ r4.ok
    BY Zenon, <1>0, <1>1, <1>4, <1>e
  <2> QED
    BY <1>s, <2>1
<1>6. r5.rest \in Seq(Byte) /\ Optional(p, r4.rest \o t) = Decoded(r5.val, r5.rest \o t)
  <2>1. p \in BOOLEAN /\ r4.rest \in Seq(Byte) /\ r5 = Optional(p, r4.rest) /\ r5.ok
    BY Zenon, <1>0, <1>1, <1>5, <1>e
  <2> QED
    BY <1>s, <2>1
<1>7. ConnectPayload(flags, s \o t) =
        Decoded(Payload(r1.val, r2.val, r3.val, r4.val, r5.val), r5.rest \o t)
  <2> DEFINE q1 == ReadUTF8String(s \o t)
             q2 == Optional(w, q1.rest)
             q3 == Optional(w, q2.rest)
             q4 == Optional(u, q3.rest)
             q5 == Optional(p, q4.rest)
  <2>1. q1.ok /\ q1.val = r1.val /\ q1.rest = r1.rest \o t
    BY <1>2 DEF Decoded
  <2>2. q2.ok /\ q2.val = r2.val /\ q2.rest = r2.rest \o t
    BY <1>3, <2>1 DEF Decoded
  <2>3. q3.ok /\ q3.val = r3.val /\ q3.rest = r3.rest \o t
    BY <1>4, <2>2 DEF Decoded
  <2>4. q4.ok /\ q4.val = r4.val /\ q4.rest = r4.rest \o t
    BY SMTT(30), <1>5, <2>3 DEF Decoded
  <2>5. q5.ok /\ q5.val = r5.val /\ q5.rest = r5.rest \o t
    BY <1>6, <2>4 DEF Decoded
  <2>o. q1.ok /\ q2.ok /\ q3.ok /\ q4.ok /\ q5.ok
    BY <2>1, <2>2, <2>3, <2>4, <2>5
  <2>e. /\ q1 = ReadUTF8String(s \o t) /\ q2 = Optional(HasWill(flags), q1.rest)
        /\ q3 = Optional(HasWill(flags), q2.rest) /\ q4 = Optional(HasUsername(flags), q3.rest)
        /\ q5 = Optional(HasPassword(flags), q4.rest)
    BY <1>w
  <2> HIDE DEF q1, q2, q3, q4, q5
  <2>6. ConnectPayload(flags, s \o t) =
          Decoded(Payload(q1.val, q2.val, q3.val, q4.val, q5.val), q5.rest)
    BY <2>e, <2>o, PayloadRead
  <2> QED
    BY <2>1, <2>2, <2>3, <2>4, <2>5, <2>6
<1> QED
  BY <1>1, <1>6, <1>7 DEF Decoded

\* nor the CONNECT.
LEMMA ConnectMore ==
    ASSUME NEW s \in Seq(Byte), DecodeConnect(s).ok, NEW t \in Seq(Byte)
    PROVE  /\ DecodeConnect(s).rest \in Seq(Byte)
           /\ DecodeConnect(s \o t) = Decoded(DecodeConnect(s).val, DecodeConnect(s).rest \o t)
<1> DEFINE name == ReadUTF8String(s)
           head == ReadFull(name.rest, 4)
           load == ConnectPayload(head.val[2], head.rest)
           Refused == name.val # MQTT \/ head.val[1] # 4 \/ Bit(head.val[2], 1)
           Fields(h, v) == [flags |-> h[2], keepAlive |-> ValueOf(h[3], h[4]), payload |-> v]
<1>1. /\ name.ok /\ head.ok /\ load.ok /\ ~Refused
      /\ DecodeConnect(s) = Decoded(Fields(head.val, load.val), load.rest)
  BY DEF DecodeConnect, Then, Malformed
<1> HIDE DEF Fields
<1>2. name.rest \in Seq(Byte) /\ ReadUTF8String(s \o t) = Decoded(name.val, name.rest \o t)
  BY <1>1, ReadStringMore
<1>3. head.rest \in Seq(Byte) /\ ReadFull(name.rest \o t, 4) = Decoded(head.val, head.rest \o t)
  BY <1>1, <1>2, ReadFullMore
<1>4. /\ load.rest \in Seq(Byte)
      /\ ConnectPayload(head.val[2], head.rest \o t) = Decoded(load.val, load.rest \o t)
  BY <1>1, <1>3, PayloadMore
<1> HIDE DEF name, head, load
<1> DEFINE name2 == ReadUTF8String(s \o t)
           head2 == ReadFull(name2.rest, 4)
           load2 == ConnectPayload(head2.val[2], head2.rest)
<1>5. name2.ok /\ name2.val = name.val /\ name2.rest = name.rest \o t
  BY <1>2 DEF Decoded
<1>6. head2.ok /\ head2.val = head.val /\ head2.rest = head.rest \o t
  BY <1>3, <1>5 DEF Decoded
<1>7. load2.ok /\ load2.val = load.val /\ load2.rest = load.rest \o t
  <2>1. load2 = ConnectPayload(head.val[2], head.rest \o t)
    BY <1>6
  <2>2. load2 = Decoded(load.val, load.rest \o t)
    BY <2>1, <1>4
  <2> HIDE DEF load2
  <2> QED
    BY <2>2 DEF Decoded
<1>8. DecodeConnect(s \o t) = Decoded(Fields(head2.val, load2.val), load2.rest)
  <2>1. ~(name2.val # MQTT \/ head2.val[1] # 4 \/ Bit(head2.val[2], 1))
    BY <1>1, <1>5, <1>6
  <2> QED
    BY <1>5, <1>6, <1>7, <2>1 DEF DecodeConnect, Then, Fields
<1> HIDE DEF name2, head2, load2
<1> QED
  BY <1>1, <1>4, <1>6, <1>7, <1>8 DEF Decoded

IfThere(present, x) == IF present THEN x ELSE << >>

\* The payload that was written is decoded.
LEMMA PayloadOf ==
    ASSUME NEW c, IsConnect(c)
    PROVE  LET w == HasWill(c.flags)
               u == HasUsername(c.flags)
               p == HasPassword(c.flags)
           IN  ConnectPayload(c.flags,
                 WriteUTF8String(c.clientID) \o (Field(w, c.willTopic) \o (Field(w, c.willMessage)
                   \o (Field(u, c.username) \o (Field(p, c.password) \o << >>))))) =
               Decoded([clientID |-> c.clientID, willTopic |-> IfThere(w, c.willTopic),
                        willMessage |-> IfThere(w, c.willMessage),
                        username |-> IfThere(u, c.username),
                        password |-> IfThere(p, c.password)], << >>)
<1> DEFINE w == HasWill(c.flags)
           u == HasUsername(c.flags)
           p == HasPassword(c.flags)
           s5 == << >>
           s4 == Field(p, c.password) \o s5
           s3 == Field(u, c.username) \o s4
           s2 == Field(w, c.willMessage) \o s3
           s1 == Field(w, c.willTopic) \o s2
           s0 == WriteUTF8String(c.clientID) \o s1
<1>0. w \in BOOLEAN /\ u \in BOOLEAN /\ p \in BOOLEAN
  BY DEF HasWill, HasUsername, HasPassword, Bit
<1>s. /\ IsString(c.clientID) /\ IsString(c.willTopic) /\ IsString(c.willMessage)
      /\ IsString(c.username) /\ IsString(c.password)
  BY DEF IsConnect
<1>h. HasWill(c.flags) = w /\ HasUsername(c.flags) = u /\ HasPassword(c.flags) = p
  OBVIOUS
<1> HIDE DEF w, u, p
<1>5. s5 \in Seq(Byte)
  OBVIOUS
<1> HIDE DEF s5
<1>f. ASSUME NEW x, IsString(x), NEW b \in BOOLEAN, NEW t \in Seq(Byte)
      PROVE  Field(b, x) \o t \in Seq(Byte) /\ Optional(b, Field(b, x) \o t) = Decoded(IfThere(b, x), t)
  BY <1>f, OptionalOf, ConcatProperties DEF IfThere
<1>4. s4 \in Seq(Byte) /\ Optional(p, s4) = Decoded(IfThere(p, c.password), s5)
  BY <1>0, <1>s, <1>5, <1>f
<1> HIDE DEF s4
<1>3. s3 \in Seq(Byte) /\ Optional(u, s3) = Decoded(IfThere(u, c.username), s4)
  BY <1>0, <1>s, <1>4, <1>f
<1> HIDE DEF s3
<1>2. s2 \in Seq(Byte) /\ Optional(w, s2) = Decoded(IfThere(w, c.willMessage), s3)
  BY <1>0, <1>s, <1>3, <1>f
<1> HIDE DEF s2
<1>1. s1 \in Seq(Byte) /\ Optional(w, s1) = Decoded(IfThere(w, c.willTopic), s2)
  BY <1>0, <1>s, <1>2, <1>f
<1> HIDE DEF s1
<1>6. ReadUTF8String(s0) = Decoded(c.clientID, s1)
  BY <1>s, <1>1, ReadStringOf
<1> HIDE DEF s0
<1> DEFINE q1 == ReadUTF8String(s0)
           q2 == Optional(w, q1.rest)
           q3 == Optional(w, q2.rest)
           q4 == Optional(u, q3.rest)
           q5 == Optional(p, q4.rest)
<1>e. /\ q1 = ReadUTF8String(s0) /\ q2 = Optional(HasWill(c.flags), q1.rest)
      /\ q3 = Optional(HasWill(c.flags), q2.rest) /\ q4 = Optional(HasUsername(c.flags), q3.rest)
      /\ q5 = Optional(HasPassword(c.flags), q4.rest)
  BY <1>h
<1>q. /\ q1.ok /\ q1.val = c.clientID /\ q1.rest = s1
  BY <1>6 DEF Decoded
<1>r. /\ q2.ok /\ q2.val = IfThere(w, c.willTopic) /\ q2.rest = s2
  BY <1>1, <1>q DEF Decoded
<1>t. /\ q3.ok /\ q3.val = IfThere(w, c.willMessage) /\ q3.rest = s3
  BY <1>2, <1>r DEF Decoded
<1>u. /\ q4.ok /\ q4.val = IfThere(u, c.username) /\ q4.rest = s4
  BY <1>3, <1>t DEF Decoded
<1>v. /\ q5.ok /\ q5.val = IfThere(p, c.password) /\ q5.rest = s5
  BY <1>4, <1>u DEF Decoded
<1> HIDE DEF q1, q2, q3, q4, q5
<1>o. q1.ok /\ q2.ok /\ q3.ok /\ q4.ok /\ q5.ok
  BY <1>q, <1>r, <1>t, <1>u, <1>v
<1>7. ConnectPayload(c.flags, s0) =
        Decoded(Payload(q1.val, q2.val, q3.val, q4.val, q5.val), q5.rest)
  BY <1>e, <1>o, PayloadRead
<1> QED
  BY <1>7, <1>q, <1>r, <1>t, <1>u, <1>v DEF Payload, s0, s1, s2, s3, s4, s5, w, u, p

\* What a client writes for c, field by field.
LEMMA BodyOf ==
    ASSUME NEW c, IsConnect(c)
    PROVE  LET w == HasWill(c.flags)
               u == HasUsername(c.flags)
               p == HasPassword(c.flags)
           IN  BuildConnectBody(c) =
                 WriteUTF8String(MQTT) \o ((<<4, c.flags>> \o Uint16(c.keepAlive)) \o
                   (WriteUTF8String(c.clientID) \o (Field(w, c.willTopic) \o (Field(w, c.willMessage)
                     \o (Field(u, c.username) \o (Field(p, c.password) \o << >>))))))
<1> DEFINE w == HasWill(c.flags)
           u == HasUsername(c.flags)
           p == HasPassword(c.flags)
           a == WriteUTF8String(MQTT)
           b == <<4, c.flags>>
           k == Uint16(c.keepAlive)
           i == WriteUTF8String(c.clientID)
           wt == Field(w, c.willTopic)
           wm == Field(w, c.willMessage)
           un == Field(u, c.username)
           pw == Field(p, c.password)
<1>1. a \in Seq(Byte)
  <2>1. MQTT \in Seq(Byte)
    BY DEF MQTT, Byte
  <2> QED
    BY <2>1, WriteBytes
<1>2. b \in Seq(Byte)
  <2>1. c.flags \in Byte /\ 4 \in Byte
    BY DEF IsConnect, Byte
  <2> QED
    BY <2>1
<1>3. k \in Seq(Byte)
  BY Uint16Bytes DEF IsConnect, IsUint16
<1>4. i \in Seq(Byte)
  BY WriteBytes DEF IsConnect, IsString
<1>5. /\ wt \in Seq(Byte) /\ wm \in Seq(Byte) /\ un \in Seq(Byte) /\ pw \in Seq(Byte)
  <2>1. w \in BOOLEAN /\ u \in BOOLEAN /\ p \in BOOLEAN /\ << >> \in Seq(Byte)
    BY DEF HasWill, HasUsername, HasPassword, Bit
  <2>2. /\ IsString(c.willTopic) /\ IsString(c.willMessage) /\ IsString(c.username) /\ IsString(c.password)
    BY DEF IsConnect
  <2> HIDE DEF w, u, p
  <2> QED
    BY <2>1, <2>2, OptionalOf
<1>6. BuildConnectBody(c) = a \o b \o k \o i \o (wt \o wm) \o un \o pw
  <2>1. (IF w THEN WriteUTF8String(c.willTopic) \o WriteUTF8String(c.willMessage) ELSE << >>)
          = wt \o wm
    <3>1. CASE w
      BY <3>1 DEF Field
    <3>2. CASE ~w
      <4>1. << >> \o << >> = << >>
        OBVIOUS
      <4> QED
        BY <3>2, <4>1 DEF Field
    <3> QED
      BY <3>1, <3>2
  <2> QED
    BY <2>1 DEF BuildConnectBody, Field
<1> HIDE DEF w, u, p, a, b, k, i, wt, wm, un, pw
<1>7. pw \o << >> = pw
  BY <1>5, ConcatEmptySeq
<1> DEFINE j5 == un \o pw
           j4 == wm \o j5
           j3 == wt \o j4
           j2 == i \o j3
           j1 == (b \o k) \o j2
           l1 == a \o b \o k
           l2 == l1 \o i
           l3 == l2 \o (wt \o wm)
<1>8. l3 \o un \o pw = l3 \o j5 /\ j5 \in Seq(Byte) /\ l3 \in Seq(Byte)
  <2>1. wt \o wm \in Seq(Byte) /\ l1 \in Seq(Byte)
    BY <1>1, <1>2, <1>3, <1>5, ConcatProperties
  <2>2. l3 \in Seq(Byte)
    BY <1>4, <2>1, ConcatProperties
  <2> QED
    BY <1>5, <2>2, Assoc, ZenonT(30)
<1>9. l3 \o j5 = l2 \o j3 /\ j3 \in Seq(Byte) /\ l2 \in Seq(Byte)
  <2>1. l2 \in Seq(Byte)
    BY <1>1, <1>2, <1>3, <1>4, ConcatProperties
  <2> HIDE DEF l2, j5
  <2>0. j5 \in Seq(Byte)
    BY <1>8
  <2>5. wt \o wm \in Seq(Byte)
    BY <1>5, ConcatProperties
  <2>2. (l2 \o (wt \o wm)) \o j5 = l2 \o ((wt \o wm) \o j5)
    BY <2>0, <2>1, <2>5, Assoc, ZenonT(30)
  <2>3. (wt \o wm) \o j5 = wt \o (wm \o j5) /\ wm \o j5 \in Seq(Byte)
    BY <1>5, <2>0, Assoc, SMTT(30)
  <2>4. wt \o (wm \o j5) \in Seq(Byte)
    BY <1>5, <2>3, ConcatProperties
  <2> QED
    BY <2>1, <2>2, <2>3, <2>4
<1>10. l2 \o j3 = l1 \o j2 /\ j2 \in Seq(Byte)
  <2>1. l1 \in Seq(Byte)
    BY <1>1, <1>2, <1>3, ConcatProperties
  <2> HIDE DEF l1, j3
  <2> QED
    BY <1>4, <1>9, <2>1, Assoc
<1>11. l1 \o j2 = a \o j1
  <2>1. a \o b \o k = a \o (b \o k) /\ b \o k \in Seq(Byte)
    BY <1>1, <1>2, <1>3, Assoc
  <2> HIDE DEF j2
  <2>2. (a \o (b \o k)) \o j2 = a \o ((b \o k) \o j2)
    BY <1>1, <2>1, <1>10, Assoc, ZenonT(30)
  <2> QED
    BY <2>1, <2>2
<1>12. BuildConnectBody(c) = a \o j1
  BY <1>6, <1>8, <1>9, <1>10, <1>11
<1>13. j1 = (b \o k) \o (i \o (wt \o (wm \o (un \o (pw \o << >>)))))
  BY <1>7
<1> HIDE DEF j1
<1>14. BuildConnectBody(c) = a \o ((b \o k) \o (i \o (wt \o (wm \o (un \o (pw \o << >>))))))
  BY <1>12, <1>13
<1> QED
  BY <1>14 DEF a, b, k, i, wt, wm, un, pw, w, u, p

\* DecodeConnect recovers the fields, unless the reserved flag is set.
LEMMA ConnectOf ==
    ASSUME NEW c, IsConnect(c)
    PROVE  DecodeConnect(BuildConnectBody(c)) =
             IF Bit(c.flags, 1) THEN Malformed
             ELSE Decoded([flags |-> c.flags, keepAlive |-> c.keepAlive,
                           payload |-> [clientID |-> c.clientID,
                             willTopic |-> IfThere(HasWill(c.flags), c.willTopic),
                             willMessage |-> IfThere(HasWill(c.flags), c.willMessage),
                             username |-> IfThere(HasUsername(c.flags), c.username),
                             password |-> IfThere(HasPassword(c.flags), c.password)]], << >>)
<1> DEFINE w == HasWill(c.flags)
           u == HasUsername(c.flags)
           p == HasPassword(c.flags)
           h == <<4, c.flags>> \o Uint16(c.keepAlive)
           pl == WriteUTF8String(c.clientID) \o (Field(w, c.willTopic) \o (Field(w, c.willMessage)
                     \o (Field(u, c.username) \o (Field(p, c.password) \o << >>))))
           f == [clientID |-> c.clientID, willTopic |-> IfThere(w, c.willTopic),
                 willMessage |-> IfThere(w, c.willMessage), username |-> IfThere(u, c.username),
                 password |-> IfThere(p, c.password)]
           s == BuildConnectBody(c)
           name == ReadUTF8String(s)
           head == ReadFull(name.rest, 4)
           load == ConnectPayload(head.val[2], head.rest)
<1>1. s = WriteUTF8String(MQTT) \o (h \o pl)
  BY BodyOf
<1>2. ConnectPayload(c.flags, pl) = Decoded(f, << >>)
  BY PayloadOf
<1>3. /\ h \in Seq(Byte) /\ Len(h) = 4 /\ h[1] = 4 /\ h[2] = c.flags
      /\ ValueOf(h[3], h[4]) = c.keepAlive
  <2> DEFINE b == <<4, c.flags>>
             k == Uint16(c.keepAlive)
  <2>1. c.flags \in Byte /\ 4 \in Byte
    BY DEF IsConnect, Byte
  <2>2. b \in Seq(Byte) /\ Len(b) = 2 /\ b[1] = 4 /\ b[2] = c.flags
    BY <2>1
  <2>3. c.keepAlive \in Nat /\ c.keepAlive < 65536
    BY DEF IsConnect, IsUint16
  <2>4. k \in Seq(Byte) /\ Len(k) = 2 /\ ValueOf(k[1], k[2]) = c.keepAlive
    BY <2>3, Uint16Bytes, Uint16Value
  <2> HIDE DEF b, k
  <2>5. b \in Seq(Byte) /\ k \in Seq(Byte) /\ Len(b) = 2 /\ Len(k) = 2
    BY <2>2, <2>4
  <2>6. /\ b \o k \in Seq(Byte) /\ Len(b \o k) = 4
        /\ (b \o k)[1] = b[1] /\ (b \o k)[2] = b[2] /\ (b \o k)[3] = k[1] /\ (b \o k)[4] = k[2]
    BY <2>5, ConcatProperties, SMTT(30)
  <2>7. h = b \o k
    BY DEF b, k
  <2> HIDE DEF h
  <2> QED
    BY <2>2, <2>4, <2>6, <2>7
<1>4. pl \in Seq(Byte)
  <2>1. w \in BOOLEAN /\ u \in BOOLEAN /\ p \in BOOLEAN /\ << >> \in Seq(Byte)
    BY DEF HasWill, HasUsername, HasPassword, Bit
  <2>2. /\ IsString(c.willTopic) /\ IsString(c.willMessage) /\ IsString(c.username) /\ IsString(c.password)
    BY DEF IsConnect
  <2> HIDE DEF w, u, p
  <2>3. /\ Field(w, c.willTopic) \in Seq(Byte) /\ Field(w, c.willMessage) \in Seq(Byte)
        /\ Field(u, c.username) \in Seq(Byte) /\ Field(p, c.password) \in Seq(Byte)
    BY <2>1, <2>2, OptionalOf
  <2>4. WriteUTF8String(c.clientID) \in Seq(Byte)
    BY WriteBytes DEF IsConnect, IsString
  <2>5. Field(u, c.username) \o (Field(p, c.password) \o << >>) \in Seq(Byte)
    BY <2>1, <2>3, ConcatProperties
  <2>6. Field(w, c.willMessage) \o (Field(u, c.username) \o (Field(p, c.password) \o << >>)) \in Seq(Byte)
    BY <2>3, <2>5, ConcatProperties
  <2> QED
    BY <2>3, <2>4, <2>6, ConcatProperties
<1>5. IsString(MQTT)
  <2>1. MQTT \in Seq(Byte) /\ Len(MQTT) = 4
    BY DEF MQTT, Byte
  <2> QED
    BY <2>1 DEF IsString
<1> HIDE DEF h, pl, f, s
<1>6. name = Decoded(MQTT, h \o pl)
  <2>1. h \o pl \in Seq(Byte)
    BY <1>3, <1>4, ConcatProperties
  <2> QED
    BY <1>1, <1>5, <2>1, ReadStringOf
<1>7. name.ok /\ name.val = MQTT /\ name.rest = h \o pl
  BY <1>6 DEF Decoded
<1> HIDE DEF name
<1>8. head = Decoded(h, pl)
  <2>1. ReadFull(h \o pl, Len(h)) = Decoded(h, pl)
    BY <1>3, <1>4, ReadFullOf
  <2> QED
    BY <1>3, <1>7, <2>1
<1>9. head.ok /\ head.val = h /\ head.rest = pl
  BY <1>8 DEF Decoded
<1> HIDE DEF head
<1>10. load = Decoded(f, << >>)
  BY <1>2, <1>3, <1>9
<1>11. load.ok /\ load.val = f /\ load.rest = << >>
  BY <1>10 DEF Decoded
<1> HIDE DEF load
<1>12. DecodeConnect(s) = IF Bit(c.flags, 1) THEN Malformed
         ELSE Decoded([flags |-> head.val[2], keepAlive |-> ValueOf(head.val[3], head.val[4]),
                       payload |-> load.val], load.rest)
  <2>1. (name.val # MQTT \/ head.val[1] # 4 \/ Bit(head.val[2], 1)) <=> Bit(c.flags, 1)
    BY <1>3, <1>7, <1>9
  <2> QED
    BY <1>7, <1>9, <1>11, <2>1 DEF DecodeConnect, Then, name, head, load
<1>13. DecodeConnect(s) = IF Bit(c.flags, 1) THEN Malformed
         ELSE Decoded([flags |-> c.flags, keepAlive |-> c.keepAlive, payload |-> f], << >>)
  BY <1>3, <1>9, <1>11, <1>12
<1> QED
  BY <1>13 DEF f, s

-----------------------------------------------------------------------------
(* Framing                                                                  *)

\* A decoded length is a number, and bytes are left.
LEMMA LengthBytes ==
    ASSUME NEW s \in Seq(Byte), DecodeRemainingLength(s).ok
    PROVE  DecodeRemainingLength(s).val \in Nat /\ DecodeRemainingLength(s).rest \in Seq(Byte)
<1> DEFINE last == {i \in DOMAIN s : i <= 4 /\ s[i] < 128 /\ \A j \in 1..(i - 1) : s[j] >= 128}
           k == CHOOSE i \in last : TRUE
           digit(i) == IF i <= k THEN s[i] % 128 ELSE 0
<1>1. last # {} /\ DecodeRemainingLength(s) = Decoded(LengthValue(s, k), From(s, k + 1))
  BY DEF DecodeRemainingLength, Malformed
<1>2. k \in last
  BY <1>1
<1>3. k \in 1..Len(s) /\ k \in Nat
  BY <1>2
<1> HIDE DEF k, last
<1>4. ASSUME NEW i \in 1..4 PROVE digit(i) \in Nat
  <2>1. CASE i <= k
    <3>1. s[i] \in Byte
      BY <1>3, <2>1
    <3>2. ASSUME NEW b \in Byte PROVE b % 128 \in Nat
      BY DEF Byte
    <3> QED
      BY <2>1, <3>1, <3>2
  <2>2. CASE ~(i <= k)
    BY <2>2
  <2> QED
    BY <2>1, <2>2
<1>5. LengthValue(s, k) = digit(1) + 128 * (digit(2) + 128 * (digit(3) + 128 * digit(4)))
  BY DEF LengthValue
<1> HIDE DEF digit
<1>6. LengthValue(s, k) \in Nat
  BY <1>4, <1>5, SMTT(30)
<1>7. From(s, k + 1) \in Seq(Byte)
  BY <1>3, FromBytes
<1> QED
  BY <1>1, <1>6, <1>7 DEF Decoded



\* Which byte the length ends at.
LEMMA LengthOk ==
    ASSUME NEW s \in Seq(Byte), DecodeRemainingLength(s).ok
    PROVE  \E k \in 1..4 : k <= Len(s) /\ s[k] < 128 /\ \A j \in 1..(k - 1) : s[j] >= 128
<1> DEFINE last == {i \in DOMAIN s : i <= 4 /\ s[i] < 128 /\ \A j \in 1..(i - 1) : s[j] >= 128}
<1>1. last # {}
  BY DEF DecodeRemainingLength, Malformed
<1>2. PICK k \in last : TRUE
  BY <1>1
<1>3. k \in 1..4 /\ k <= Len(s)
  BY <1>2
<1> QED
  BY <1>2, <1>3

\* More bytes behind do not change the length.
LEMMA LengthMore ==
    ASSUME NEW s \in Seq(Byte), DecodeRemainingLength(s).ok, NEW t \in Seq(Byte)
    PROVE  LET d == DecodeRemainingLength(s) IN
           /\ d.rest \in Seq(Byte) /\ ~LengthShort(s)
           /\ DecodeRemainingLength(s \o t) = Decoded(d.val, d.rest \o t)
<1>1. PICK k \in 1..4 : k <= Len(s) /\ s[k] < 128 /\ \A j \in 1..(k - 1) : s[j] >= 128
  BY LengthOk
<1>2. DecodeRemainingLength(s) = Decoded(LengthValue(s, k), From(s, k + 1))
  BY <1>1, LengthEndsAt
<1> DEFINE p == SubSeq(s, 1, k)
           q == From(s, k + 1)
<1>3. p \in Seq(Byte) /\ Len(p) = k /\ q \in Seq(Byte) /\ s = p \o q
  <2>1. k \in 0..Len(s)
    BY <1>1
  <2> QED
    BY <2>1, Split
<1> HIDE DEF p, q
<1> DEFINE s2 == s \o t
           y == q \o t
<1>4. s2 = p \o y /\ y \in Seq(Byte)
  BY <1>3, Assoc
<1>5. /\ s2 \in Seq(Byte) /\ Len(s2) = Len(s) + Len(t)
      /\ \A i \in 1..Len(s) : s2[i] = s[i]
  BY Skip
<1> HIDE DEF s2, y
<1>6. /\ k <= Len(s2) /\ s2[k] < 128 /\ \A j \in 1..(k - 1) : s2[j] >= 128
      /\ \A j \in 1..k : s2[j] = s[j]
  BY <1>1, <1>5
<1>7. DecodeRemainingLength(s2) = Decoded(LengthValue(s2, k), From(s2, k + 1))
  BY <1>5, <1>6, LengthEndsAt
<1>8. LengthValue(s2, k) = LengthValue(s, k)
  <2>1. \A j \in 1..4 : j <= k => s2[j] = s[j]
    BY <1>6
  <2>2. /\ 1 <= k => s2[1] = s[1]
        /\ 2 <= k => s2[2] = s[2]
        /\ 3 <= k => s2[3] = s[3]
        /\ 4 <= k => s2[4] = s[4]
    BY <2>1
  <2> QED
    BY <2>2 DEF LengthValue
<1>9. From(s2, k + 1) = y
  BY <1>3, <1>4, Skip
<1>10. ~LengthShort(s)
  <2>1. k \in DOMAIN s /\ s[k] < 128 /\ s[k] \in Byte
    BY <1>1
  <2>2. ~(s[k] >= 128)
    BY <2>1, ByteIsInt
  <2> QED
    BY <2>1, <2>2 DEF LengthShort
<1>11. DecodeRemainingLength(s).val = LengthValue(s, k) /\ DecodeRemainingLength(s).rest = q
  BY <1>2 DEF Decoded, q
<1> QED
  BY <1>3, <1>7, <1>8, <1>9, <1>10, <1>11 DEF s2, y

\* A packet that is complete stays the same packet when more bytes arrive.
LEMMA PacketMore ==
    ASSUME NEW s \in Seq(Byte), ReadPacket(s).kind = "packet", NEW t \in Seq(Byte)
    PROVE  LET p == ReadPacket(s)
               q == ReadPacket(s \o t)
           IN  /\ p.rest \in Seq(Byte) /\ q.kind = "packet" /\ q.rest = p.rest \o t
               /\ q.type = p.type /\ q.flags = p.flags /\ q.data = p.data
<1> DEFINE length == DecodeRemainingLength(Tail(s))
           body == Body(length.rest, length.val)
           s2 == s \o t
           length2 == DecodeRemainingLength(Tail(s2))
           body2 == Body(length2.rest, length2.val)
<1>1. /\ s # << >> /\ s[1] \div 16 \notin {0, 15} /\ length.ok /\ body.ok
      /\ ReadPacket(s) = [kind |-> "packet", type |-> s[1] \div 16, flags |-> s[1] % 16,
                          data |-> body.val, rest |-> body.rest]
  BY DEF ReadPacket
<1>2. Tail(s) \in Seq(Byte) /\ s = <<s[1]>> \o Tail(s) /\ s[1] \in Byte
  <2>1. Tail(s) \in Seq(Byte) /\ s[1] \in Byte /\ <<s[1]>> \in Seq(Byte)
    BY <1>1
  <2> QED
    BY <2>1, <1>1
<1>3. s2 = <<s[1]>> \o (Tail(s) \o t) /\ Tail(s) \o t \in Seq(Byte)
  <2>1. <<s[1]>> \in Seq(Byte)
    BY <1>2
  <2> QED
    BY <1>2, <2>1, Assoc
<1>4. s2 # << >> /\ s2[1] = s[1] /\ Tail(s2) = Tail(s) \o t
  BY <1>2, <1>3, InFront
<1>5. /\ length.rest \in Seq(Byte) /\ length.val \in Nat
      /\ length2 = Decoded(length.val, length.rest \o t) /\ length2.ok
  <2>1. /\ length.rest \in Seq(Byte) /\ length2 = Decoded(length.val, length.rest \o t)
    BY <1>1, <1>2, <1>4, LengthMore, ZenonT(30)
  <2>2. length.val \in Nat
    BY <1>1, <1>2, LengthBytes
  <2> QED
    BY <2>1, <2>2 DEF Decoded
<1>6. ~LengthShort(Tail(s2))
  <2>1. Tail(s2) \in Seq(Byte) /\ << >> \in Seq(Byte)
    BY <1>3, <1>4
  <2> QED
    BY <1>5, <2>1, LengthMore
<1>7. length2.val = length.val /\ length2.rest = length.rest \o t
  BY <1>5 DEF Decoded
<1> HIDE DEF length, length2
<1>8. /\ body.rest \in Seq(Byte) /\ body2 = Decoded(body.val, body.rest \o t)
  BY <1>1, <1>5, <1>7, ReadFullMore DEF Body
<1>9. body2.ok /\ body2.val = body.val /\ body2.rest = body.rest \o t
  BY <1>8 DEF Decoded
<1> HIDE DEF s2, body, body2
<1>10. ReadPacket(s2) = [kind |-> "packet", type |-> s2[1] \div 16, flags |-> s2[1] % 16,
                         data |-> body2.val, rest |-> body2.rest]
  <2>1. s2[1] \div 16 \notin {0, 15}
    BY <1>1, <1>4
  <2> QED
    BY <1>4, <1>5, <1>6, <1>9, <2>1 DEF ReadPacket, length2, body2
<1> QED
  BY <1>1, <1>4, <1>8, <1>9, <1>10 DEF s2

\* An error in the stream does not go away when more bytes arrive.
LEMMA ErrorMore ==
    ASSUME NEW s \in Seq(Byte), ReadPacket(s).kind = "error", NEW t \in Seq(Byte)
    PROVE  ReadPacket(s \o t).kind = "error"
<1> DEFINE s2 == s \o t
<1>1. s # << >>
  BY DEF ReadPacket
<1>2. Tail(s) \in Seq(Byte) /\ s = <<s[1]>> \o Tail(s) /\ s[1] \in Byte
  <2>1. Tail(s) \in Seq(Byte) /\ s[1] \in Byte /\ <<s[1]>> \in Seq(Byte)
    BY <1>1
  <2> QED
    BY <2>1, <1>1
<1>3. s2 = <<s[1]>> \o (Tail(s) \o t) /\ Tail(s) \o t \in Seq(Byte)
  <2>1. <<s[1]>> \in Seq(Byte)
    BY <1>2
  <2> QED
    BY <1>2, <2>1, Assoc
<1>4. s2 # << >> /\ s2[1] = s[1] /\ Tail(s2) = Tail(s) \o t
  BY <1>2, <1>3, InFront
<1> HIDE DEF s2
<1>5. CASE s[1] \div 16 \in {0, 15}
  <2>1. ReadPacket(s2) = [kind |-> "error"]
    BY <1>4, <1>5 DEF ReadPacket
  <2> QED
    BY <2>1 DEF s2
<1>6. CASE s[1] \div 16 \notin {0, 15}
  <2> DEFINE r == Tail(s)
             last == {i \in DOMAIN r : i <= 4 /\ r[i] < 128 /\ \A j \in 1..(i - 1) : r[j] >= 128}
  <2>1. ~LengthShort(r) /\ ~DecodeRemainingLength(r).ok
    BY <1>1, <1>6 DEF ReadPacket
  <2>2. last = {}
    BY <2>1 DEF DecodeRemainingLength, Decoded
  <2>0. /\ r \in Seq(Byte) /\ DOMAIN r = 1..Len(r) /\ Len(r) \in Nat
        /\ \A i \in 1..Len(r) : r[i] \in Int /\ (r[i] < 128 \/ r[i] >= 128) /\ ~(r[i] < 128 /\ r[i] >= 128)
    <3>1. \A i \in 1..Len(r) : r[i] \in Byte
      BY <1>2
    <3> QED
      BY <1>2, <3>1, ByteIsInt
  <2> HIDE DEF r
  <2>3. \A i \in 1..Len(r) : i <= 4 => r[i] >= 128
    <3>1. 1 <= Len(r) => r[1] >= 128
      BY <2>0, <2>2
    <3>2. 2 <= Len(r) => r[2] >= 128
      BY <2>0, <2>2, <3>1
    <3>3. 3 <= Len(r) => r[3] >= 128
      BY <2>0, <2>2, <3>1, <3>2, SMTT(30)
    <3>4. 4 <= Len(r) => r[4] >= 128
      <4> SUFFICES ASSUME 4 <= Len(r), r[4] < 128 PROVE FALSE
        BY <2>0
      <4>1. \A j \in 1..(4 - 1) : r[j] >= 128
        BY <2>0, <3>1, <3>2, <3>3
      <4>2. 4 \in last
        BY <2>0, <4>1
      <4> QED
        BY <2>2, <4>2
    <3> QED
      BY <2>0, <3>1, <3>2, <3>3, <3>4
  <2>4. Len(r) >= 5
    BY <2>0, <2>1, <2>3 DEF LengthShort
  <2> DEFINE r2 == r \o t
  <2>5. /\ r2 \in Seq(Byte) /\ Len(r2) >= 5 /\ \A i \in 1..Len(r) : r2[i] = r[i]
    <3>1. /\ r2 \in Seq(Byte) /\ Len(r2) = Len(r) + Len(t) /\ \A i \in 1..Len(r) : r2[i] = r[i]
      BY <2>0, Skip
    <3> QED
      BY <2>4, <2>0, <3>1
  <2> HIDE DEF r2
  <2>6. ~LengthShort(r2)
    BY <2>5 DEF LengthShort
  <2>7. \A i \in DOMAIN r2 : i <= 4 => ~(r2[i] < 128)
    <3>1. DOMAIN r2 = 1..Len(r2) /\ Len(r2) \in Nat
      BY <2>5
    <3> QED
      BY <2>0, <2>3, <2>4, <2>5, <3>1, SMTT(30)
  <2>8. DecodeRemainingLength(r2) = Malformed
    BY <2>7 DEF DecodeRemainingLength
  <2>9. Tail(s2) = r2
    BY <1>4 DEF r, r2
  <2>10. ReadPacket(s2) = [kind |-> "error"]
    <3>1. s2[1] \div 16 \notin {0, 15} /\ ~Malformed.ok
      BY <1>4, <1>6 DEF Malformed
    <3>2. s2 # << >> /\ ~LengthShort(Tail(s2)) /\ ~DecodeRemainingLength(Tail(s2)).ok
      BY <1>4, <2>6, <2>8, <2>9, <3>1
    <3> QED
      BY <3>1, <3>2 DEF ReadPacket
  <2> QED
    BY <2>10 DEF s2
<1> QED
  BY <1>5, <1>6

\* ReadPacket takes a packet out of the stream as it was put in.
LEMMA PacketOf ==
    ASSUME NEW first \in Byte, first \div 16 \notin {0, 15}, NEW data \in Seq(Byte),
           Len(data) < 128 * 128 * 128 * 128, NEW t \in Seq(Byte)
    PROVE  ReadPacket(Packet(first, data) \o t) =
             [kind |-> "packet", type |-> first \div 16, flags |-> first % 16,
              data |-> data, rest |-> t]
<1> DEFINE e == EncodeRemainingLength(Len(data))
           r == e \o (data \o t)
           s == Packet(first, data) \o t
           length == DecodeRemainingLength(r)
<1>1. e \in Seq(Byte)
  BY EncodedBytes DEF EncodeRemainingLength
<1>2. s = <<first>> \o r /\ data \o t \in Seq(Byte) /\ r \in Seq(Byte)
  <2> HIDE DEF e
  <2>1. <<first>> \in Seq(Byte)
    OBVIOUS
  <2>6. (<<first>> \o e) \o data = <<first>> \o (e \o data) /\ e \o data \in Seq(Byte)
    BY <1>1, <2>1, Assoc
  <2>2. (e \o data) \o t = e \o (data \o t) /\ data \o t \in Seq(Byte)
    BY <1>1, Assoc
  <2>3. (<<first>> \o (e \o data)) \o t = <<first>> \o ((e \o data) \o t)
    BY <2>1, <2>6, Assoc, SMTT(30)
  <2>4. e \o (data \o t) \in Seq(Byte)
    BY <1>1, <2>2, ConcatProperties
  <2>5. Packet(first, data) = (<<first>> \o e) \o data
    BY DEF Packet, e
  <2> QED
    BY <2>2, <2>3, <2>4, <2>5, <2>6
<1>3. length = Decoded(Len(data), data \o t)
  <2>1. Len(data) \in Nat
    OBVIOUS
  <2>2. length = IF Len(data) < 128 * 128 * 128 * 128 THEN Decoded(Len(data), data \o t) ELSE Malformed
    BY <1>2, <2>1, LengthDecoded
  <2> QED
    BY <2>2
<1>4. ~LengthShort(r)
  <2>1. length.ok /\ << >> \in Seq(Byte)
    BY <1>3 DEF Decoded
  <2> QED
    BY <1>2, <2>1, LengthMore
<1> HIDE DEF s, r
<1>5. s # << >> /\ s[1] = first /\ Tail(s) = r
  BY <1>2, InFront
<1>6. Body(data \o t, Len(data)) = Decoded(data, t)
  BY ReadFullOf DEF Body
<1>7. length.ok /\ length.val = Len(data) /\ length.rest = data \o t
  BY <1>3 DEF Decoded
<1> HIDE DEF length
<1>8. Body(length.rest, length.val).ok /\ Body(length.rest, length.val).val = data
      /\ Body(length.rest, length.val).rest = t
  BY <1>6, <1>7 DEF Decoded
<1>9. ReadPacket(s) = [kind |-> "packet", type |-> first \div 16, flags |-> first % 16,
              data |-> data, rest |-> t]
  BY <1>4, <1>5, <1>7, <1>8 DEF ReadPacket, length
<1> QED
  BY <1>9 DEF s

\* What ReadPacket takes from a stream of bytes and what it leaves are bytes.
LEMMA ReadPacketBytes ==
    ASSUME NEW s \in Seq(Byte), ReadPacket(s).kind = "packet"
    PROVE  ReadPacket(s).data \in Seq(Byte) /\ ReadPacket(s).rest \in Seq(Byte)
<1> DEFINE length == DecodeRemainingLength(Tail(s))
           body == Body(length.rest, length.val)
<1>1. s # << >> /\ length.ok /\ body.ok
  BY DEF ReadPacket
<1>2. ReadPacket(s).data = body.val /\ ReadPacket(s).rest = body.rest
  BY DEF ReadPacket
<1>3. Tail(s) \in Seq(Byte)
  BY <1>1
<1>4. length.val \in Nat /\ length.rest \in Seq(Byte)
  BY <1>1, <1>3, LengthBytes
<1> QED
  BY <1>1, <1>2, <1>4, ReadFullBytes DEF Body

-----------------------------------------------------------------------------
(* Packets one after the other                                              *)

Chunks == Seq(Seq(Byte))

\* fl[i] is the first i elements of seqs joined.
Joins(fl, seqs) ==
    /\ fl \in [1..Len(seqs) -> Seq(Byte)]
    /\ \A i \in 1..Len(seqs) : fl[i] = IF i = 1 THEN seqs[i] ELSE fl[i - 1] \o seqs[i]

\* FlattenSeq is such a function's last value.
LEMMA FlattenJoins ==
    ASSUME NEW seqs \in Chunks, Len(seqs) > 0
    PROVE  \E fl : Joins(fl, seqs) /\ FlattenSeq(seqs) = fl[Len(seqs)]
<1> DEFINE S == 1..Len(seqs)
           V == Seq(Byte)
           Def(f) == [i \in S |-> IF i = 1 THEN seqs[i] ELSE f[i - 1] \o seqs[i]]
           D == [f \in [S -> V] |-> Def(f)]
           rank == [i \in S |-> i]
<1>0. /\ Len(seqs) \in Nat /\ \A i \in S : seqs[i] \in V /\ (i # 1 => i - 1 \in S)
  BY DEF Chunks
<1>1. ASSUME NEW f \in [S -> V] PROVE Def(f) \in [S -> V]
  <2> SUFFICES ASSUME NEW i \in S PROVE Def(f)[i] \in V
    OBVIOUS
  <2>1. CASE i = 1
    BY <1>0, <2>1
  <2>2. CASE i # 1
    <3>1. f[i - 1] \in V /\ seqs[i] \in V
      BY <1>0, <2>2
    <3>2. f[i - 1] \o seqs[i] \in V
      BY <3>1, ConcatProperties
    <3> QED
      BY <2>2, <3>2
  <2> QED
    BY <2>1, <2>2
<1>2. D \in [[S -> V] -> [S -> V]]
  BY <1>1
<1>3. rank \in [S -> Nat]
  OBVIOUS
<1>4. ASSUME NEW f \in [S -> V], NEW g \in [S -> V], NEW i \in S,
             \A k \in S : rank[k] < rank[i] => f[k] = g[k]
      PROVE  D[f][i] = D[g][i]
  <2>1. i # 1 => f[i - 1] = g[i - 1]
    BY <1>0, <1>4
  <2> QED
    BY <2>1
<1>5. V # {}
  <2>1. << >> \in V
    OBVIOUS
  <2> QED
    BY <2>1
<1>d. \A f \in [S -> V] : D[f] = Def(f)
  OBVIOUS
<1>8. FlattenSeq(seqs) = (CHOOSE h : h = Def(h))[Len(seqs)]
  BY <1>0 DEF FlattenSeq
<1>j. ASSUME NEW f \in [S -> V], f = Def(f) PROVE Joins(f, seqs)
  BY <1>j DEF Joins
<1>k. ASSUME NEW f, f = Def(f) PROVE \A i \in S : f[i] = IF i = 1 THEN seqs[i] ELSE f[i - 1] \o seqs[i]
  BY <1>k
<1>l. ASSUME NEW f PROVE Def(f) = [i \in S |-> Def(f)[i]]
  OBVIOUS
<1> HIDE DEF D, rank, V, Def
<1>6. LowerOnly(D, rank, S, V)
  BY <1>2, <1>3, <1>4, <1>5 DEF LowerOnly
<1>7. PICK f : Solves(f, D, S, V)
  BY <1>6, RecursionSolved
<1>9. f = Def(f)
  BY <1>7, <1>d DEF Solves
<1> DEFINE h == CHOOSE h : h = Def(h)
<1>10. h = Def(h)
  BY <1>9
<1> HIDE DEF h
\* Any solution has values in V.
<1>11. \A i \in S : h[i] \in V
  <2> DEFINE Bad == {i \in S : h[i] \notin V}
  <2> SUFFICES ASSUME Bad # {} PROVE FALSE
    OBVIOUS
  <2>0. Bad \in SUBSET Nat
    OBVIOUS
  <2>1. PICK i \in Bad : \A j \in Bad : i <= j
    BY <2>0, LeastNumber
  <2>2. h[i] = IF i = 1 THEN seqs[i] ELSE h[i - 1] \o seqs[i]
    BY <1>10, <1>k, <2>1
  <2>3. i # 1
    BY <1>0, <2>1, <2>2
  <2>4. h[i - 1] \in V /\ seqs[i] \in V
    BY <1>0, <2>1, <2>3
  <2>5. h[i - 1] \o seqs[i] \in V
    BY <2>4, ConcatProperties DEF V
  <2> QED
    BY <2>1, <2>2, <2>3, <2>5
<1>12. h \in [S -> V]
  BY <1>10, <1>11, <1>l
<1> QED
  BY <1>8, <1>10, <1>12, <1>j DEF h

\* Joined chunks are bytes.
LEMMA JoinsBytes ==
    ASSUME NEW seqs, NEW fl, Joins(fl, seqs), NEW i \in 1..Len(seqs)
    PROVE  fl[i] \in Seq(Byte)
<1> DEFINE V == Seq(Byte)
<1>1. fl \in [1..Len(seqs) -> V]
  BY DEF Joins
<1> HIDE DEF V
<1>2. fl[i] \in V
  BY <1>1
<1> QED
  BY <1>2 DEF V

\* No chunks,
LEMMA FlattenEmpty == FlattenSeq(<< >>) = << >>
  BY DEF FlattenSeq

\* any chunks,
LEMMA FlattenBytes ==
    ASSUME NEW seqs \in Chunks
    PROVE  FlattenSeq(seqs) \in Seq(Byte)
<1>0. Len(seqs) \in Nat
  BY DEF Chunks
<1>1. CASE Len(seqs) = 0
  <2>1. seqs = << >>
    BY <1>1 DEF Chunks
  <2>2. << >> \in Seq(Byte)
    OBVIOUS
  <2> QED
    BY <2>1, <2>2, FlattenEmpty
<1>2. CASE Len(seqs) > 0
  <2>1. PICK fl : Joins(fl, seqs) /\ FlattenSeq(seqs) = fl[Len(seqs)]
    BY <1>2, FlattenJoins
  <2>2. Len(seqs) \in 1..Len(seqs)
    BY <1>0, <1>2
  <2>3. fl[Len(seqs)] \in Seq(Byte)
    BY <2>1, <2>2, JoinsBytes
  <2> QED
    BY <2>1, <2>3
<1> QED
  BY <1>0, <1>1, <1>2

\* one chunk.
LEMMA FlattenOne ==
    ASSUME NEW e \in Seq(Byte)
    PROVE  FlattenSeq(<<e>>) = e
<1>1. <<e>> \in Chunks /\ Len(<<e>>) = 1 /\ <<e>>[1] = e
  BY DEF Chunks
<1>2. PICK fl : Joins(fl, <<e>>) /\ FlattenSeq(<<e>>) = fl[Len(<<e>>)]
  <2>1. Len(<<e>>) > 0
    BY <1>1
  <2> QED
    BY <1>1, <2>1, FlattenJoins
<1> QED
  BY <1>1, <1>2 DEF Joins

\* One more chunk at the end,
LEMMA FlattenAppend ==
    ASSUME NEW seqs \in Chunks, NEW e \in Seq(Byte)
    PROVE  FlattenSeq(Append(seqs, e)) = FlattenSeq(seqs) \o e
<1> DEFINE n == Len(seqs)
           more == Append(seqs, e)
<1>1. /\ n \in Nat /\ more \in Chunks /\ Len(more) = n + 1 /\ more[n + 1] = e
      /\ \A i \in 1..n : more[i] = seqs[i]
  BY AppendProperties DEF Chunks
<1> HIDE DEF more
<1>2. PICK g : Joins(g, more) /\ FlattenSeq(more) = g[n + 1]
  <2>1. Len(more) > 0
    BY <1>1
  <2> QED
    BY <1>1, <2>1, FlattenJoins
<1>3. CASE n = 0
  <2>1. g[1] = e
    BY <1>1, <1>2, <1>3 DEF Joins
  <2>2. seqs = << >>
    BY <1>3 DEF Chunks
  <2>3. FlattenSeq(seqs) \o e = e
    BY <2>2, FlattenEmpty, ConcatEmptySeq
  <2> QED
    BY <1>2, <1>3, <2>1, <2>3 DEF more
<1>4. CASE n > 0
  <2>1. PICK f : Joins(f, seqs) /\ FlattenSeq(seqs) = f[n]
    BY <1>4, FlattenJoins
  <2>2. \A i \in 1..n : f[i] = g[i]
    <3> DEFINE Bad == {i \in 1..n : f[i] # g[i]}
    <3> SUFFICES ASSUME Bad # {} PROVE FALSE
      OBVIOUS
    <3>0. Bad \in SUBSET Nat
      BY <1>1
    <3>1. PICK i \in Bad : \A j \in Bad : i <= j
      BY <3>0, LeastNumber
    <3>2. i \in 1..n /\ i \in 1..(n + 1) /\ (i # 1 => i - 1 \in 1..n /\ i - 1 \notin Bad)
      BY <1>1, <3>1
    <3>3. f[i] = IF i = 1 THEN seqs[i] ELSE f[i - 1] \o seqs[i]
      BY <2>1, <3>2 DEF Joins
    <3>4. g[i] = IF i = 1 THEN more[i] ELSE g[i - 1] \o more[i]
      BY <1>1, <1>2, <3>2 DEF Joins
    <3>5. more[i] = seqs[i] /\ (i # 1 => f[i - 1] = g[i - 1])
      BY <1>1, <3>2
    <3> QED
      BY <3>1, <3>3, <3>4, <3>5
  <2>3. g[n + 1] = g[n] \o e
    <3>1. n + 1 \in 1..Len(more) /\ n + 1 # 1 /\ (n + 1) - 1 = n
      BY <1>1, <1>4
    <3>2. g[n + 1] = g[(n + 1) - 1] \o more[n + 1]
      BY <1>2, <3>1 DEF Joins
    <3> QED
      BY <1>1, <3>1, <3>2
  <2>4. f[n] = g[n]
    BY <1>1, <1>4, <2>2
  <2> QED
    BY <1>2, <2>1, <2>3, <2>4 DEF more
<1> QED
  BY <1>1, <1>3, <1>4

\* and at the beginning.
LEMMA FlattenFront ==
    ASSUME NEW e \in Seq(Byte), NEW seqs \in Chunks
    PROVE  FlattenSeq(<<e>> \o seqs) = e \o FlattenSeq(seqs)
<1> DEFINE n == Len(seqs)
           more == <<e>> \o seqs
<1>1. /\ n \in Nat /\ more \in Chunks /\ Len(more) = n + 1 /\ more[1] = e
      /\ \A i \in 1..n : more[i + 1] = seqs[i]
  <2>1. <<e>> \in Chunks /\ Len(<<e>>) = 1 /\ <<e>>[1] = e
    BY DEF Chunks
  <2> QED
    BY <2>1, ConcatProperties DEF Chunks
<1>2. CASE n = 0
  <2>1. seqs = << >> /\ <<e>> \o << >> = <<e>>
    BY <1>2 DEF Chunks
  <2>2. e \o << >> = e
    BY ConcatEmptySeq
  <2> QED
    BY <2>1, <2>2, FlattenOne, FlattenEmpty
<1> HIDE DEF more
<1>3. CASE n > 0
  <2>1. PICK f : Joins(f, seqs) /\ FlattenSeq(seqs) = f[n]
    BY <1>3, FlattenJoins
  <2>2. PICK g : Joins(g, more) /\ FlattenSeq(more) = g[n + 1]
    <3>1. Len(more) > 0
      BY <1>1
    <3> QED
      BY <1>1, <3>1, FlattenJoins
  <2>3. g[1] = e
    BY <1>1, <2>2 DEF Joins
  <2>4. \A i \in 1..n : g[i + 1] = e \o f[i]
    <3> DEFINE Bad == {i \in 1..n : g[i + 1] # e \o f[i]}
    <3> SUFFICES ASSUME Bad # {} PROVE FALSE
      OBVIOUS
    <3>0. Bad \in SUBSET Nat
      BY <1>1
    <3>1. PICK i \in Bad : \A j \in Bad : i <= j
      BY <3>0, LeastNumber
    <3>2. i \in 1..n /\ i + 1 \in 1..(n + 1) /\ i + 1 # 1 /\ (i + 1) - 1 = i
      BY <1>1, <3>1
    <3>3. g[i + 1] = g[i] \o seqs[i]
      <4>1. g[i + 1] = g[(i + 1) - 1] \o more[i + 1]
        BY <1>1, <2>2, <3>2 DEF Joins
      <4> QED
        BY <1>1, <3>2, <4>1
    <3>4. f[i] = IF i = 1 THEN seqs[i] ELSE f[i - 1] \o seqs[i]
      BY <2>1, <3>2 DEF Joins
    <3>5. CASE i = 1
      BY <2>3, <3>1, <3>3, <3>4, <3>5
    <3>6. CASE i # 1
      <4>1. i - 1 \in 1..n /\ i - 1 \notin Bad /\ (i - 1) + 1 = i
        BY <1>1, <3>1, <3>2, <3>6, SMTT(30)
      <4>2. g[i] = e \o f[i - 1]
        BY <4>1
      <4>3. f[i - 1] \in Seq(Byte) /\ seqs[i] \in Seq(Byte)
        <5>1. f[i - 1] \in Seq(Byte)
          BY <2>1, <4>1, JoinsBytes
        <5>2. seqs[i] \in Seq(Byte)
          BY <3>2, ElementOfSeq DEF Chunks
        <5> QED
          BY <5>1, <5>2
      <4>4. (e \o f[i - 1]) \o seqs[i] = e \o (f[i - 1] \o seqs[i])
        BY <4>3, Assoc
      <4> QED
        BY <3>1, <3>3, <3>4, <3>6, <4>2, <4>4
    <3> QED
      BY <3>5, <3>6
  <2>5. g[n + 1] = e \o f[n]
    BY <1>1, <1>3, <2>4
  <2> QED
    BY <2>1, <2>2, <2>5 DEF more
<1> QED
  BY <1>1, <1>2, <1>3

-----------------------------------------------------------------------------
(* The client's packets                                                     *)

\* Bytes that fit a packet are read back from it.
LEMMA PacketFits ==
    ASSUME NEW first \in Byte, first \div 16 \notin {0, 15}, NEW data \in Seq(Byte),
           Len(Packet(first, data)) < MaxLength
    PROVE  /\ Packet(first, data) \in Seq(Byte)
           /\ Len(data) < 128 * 128 * 128 * 128
           /\ ReadPacket(Packet(first, data)) =
                [kind |-> "packet", type |-> first \div 16, flags |-> first % 16,
                 data |-> data, rest |-> << >>]
<1> DEFINE e == EncodeRemainingLength(Len(data))
           s == Packet(first, data)
<1>1. e \in Seq(Byte) /\ <<first>> \in Seq(Byte) /\ Len(<<first>>) = 1 /\ << >> \in Seq(Byte)
  BY EncodedBytes DEF EncodeRemainingLength
<1> HIDE DEF e
<1>2. <<first>> \o e \in Seq(Byte) /\ Len(<<first>> \o e) = Len(e) + 1
  BY <1>1, InFront
<1>3. s = (<<first>> \o e) \o data
  BY DEF Packet, e
<1>4. s \in Seq(Byte) /\ Len(s) = Len(<<first>> \o e) + Len(data)
  BY <1>2, <1>3, ConcatProperties
<1> HIDE DEF s
<1>5. Len(data) < 128 * 128 * 128 * 128
  <2>1. Len(s) < 128 * 128 * 128 * 128
    BY DEF MaxLength, s
  <2>2. Len(s) = Len(e) + 1 + Len(data) /\ Len(e) \in Nat /\ Len(data) \in Nat
    BY <1>1, <1>2, <1>4
  <2> QED
    BY <2>1, <2>2
<1>6. s \o << >> = s
  BY <1>4, ConcatEmptySeq
<1>7. ReadPacket(s \o << >>) = [kind |-> "packet", type |-> first \div 16, flags |-> first % 16,
                 data |-> data, rest |-> << >>]
  BY <1>1, <1>5, PacketOf DEF s
<1> QED
  BY <1>4, <1>5, <1>6, <1>7 DEF s

\* The body of a CONNECT is bytes,
LEMMA ConnectBodyBytes ==
    ASSUME NEW c, IsConnect(c)
    PROVE  BuildConnectBody(c) \in Seq(Byte)
<1> DEFINE w == HasWill(c.flags)
           u == HasUsername(c.flags)
           p == HasPassword(c.flags)
           s5 == Field(p, c.password) \o << >>
           s4 == Field(u, c.username) \o s5
           s3 == Field(w, c.willMessage) \o s4
           s2 == Field(w, c.willTopic) \o s3
           s1 == WriteUTF8String(c.clientID) \o s2
           h == <<4, c.flags>> \o Uint16(c.keepAlive)
<1>1. w \in BOOLEAN /\ u \in BOOLEAN /\ p \in BOOLEAN /\ << >> \in Seq(Byte)
  BY DEF HasWill, HasUsername, HasPassword, Bit
<1>2. /\ IsString(c.willTopic) /\ IsString(c.willMessage) /\ IsString(c.username)
      /\ IsString(c.password) /\ IsString(c.clientID)
  BY DEF IsConnect
<1>b. BuildConnectBody(c) = WriteUTF8String(MQTT) \o (h \o s1)
  BY BodyOf
<1> HIDE DEF w, u, p
<1>3. /\ Field(w, c.willTopic) \in Seq(Byte) /\ Field(w, c.willMessage) \in Seq(Byte)
      /\ Field(u, c.username) \in Seq(Byte) /\ Field(p, c.password) \in Seq(Byte)
  BY <1>1, <1>2, OptionalOf
<1>4. WriteUTF8String(c.clientID) \in Seq(Byte)
  BY <1>2, WriteBytes DEF IsString
<1>5. s5 \in Seq(Byte)
  BY <1>1, <1>3, ConcatProperties
<1> HIDE DEF s5
<1>6. s4 \in Seq(Byte)
  BY <1>3, <1>5, ConcatProperties
<1> HIDE DEF s4
<1>7. s3 \in Seq(Byte)
  BY <1>3, <1>6, ConcatProperties
<1> HIDE DEF s3
<1>8. s2 \in Seq(Byte)
  BY <1>3, <1>7, ConcatProperties
<1> HIDE DEF s2
<1>9. s1 \in Seq(Byte)
  BY <1>4, <1>8, ConcatProperties
<1> HIDE DEF s1
<1>10. h \in Seq(Byte)
  <2>1. c.flags \in Byte /\ 4 \in Byte
    BY DEF IsConnect, Byte
  <2>2. <<4, c.flags>> \in Seq(Byte)
    BY <2>1
  <2>3. Uint16(c.keepAlive) \in Seq(Byte)
    BY Uint16Bytes DEF IsConnect, IsUint16
  <2> QED
    BY <2>2, <2>3, ConcatProperties
<1> HIDE DEF h
<1>11. WriteUTF8String(MQTT) \in Seq(Byte)
  <2>1. MQTT \in Seq(Byte)
    BY DEF MQTT, Byte
  <2> QED
    BY <2>1, WriteBytes
<1>12. h \o s1 \in Seq(Byte)
  BY <1>9, <1>10, ConcatProperties
<1> QED
  BY <1>b, <1>11, <1>12, ConcatProperties

PublishBody(r) ==
    WriteUTF8String(r.topic) \o (IF r.qos > 0 THEN Uint16(r.id) ELSE << >>) \o r.payload

\* that of a PUBLISH too,
LEMMA PublishBodyBytes ==
    ASSUME NEW r, IsPublish(r)
    PROVE  PublishBody(r) \in Seq(Byte)
<1> DEFINE id == IF r.qos > 0 THEN Uint16(r.id) ELSE << >>
<1>1. WriteUTF8String(r.topic) \in Seq(Byte)
  BY WriteBytes DEF IsPublish, IsString
<1>2. id \in Seq(Byte)
  <2>1. Uint16(r.id) \in Seq(Byte) /\ << >> \in Seq(Byte)
    BY Uint16Bytes DEF IsPublish, IsUint16
  <2> QED
    BY <2>1
<1>3. r.payload \in Seq(Byte)
  BY DEF IsPublish
<1> HIDE DEF id
<1>4. WriteUTF8String(r.topic) \o id \in Seq(Byte)
  BY <1>1, <1>2, ConcatProperties
<1>5. (WriteUTF8String(r.topic) \o id) \o r.payload \in Seq(Byte)
  BY <1>3, <1>4, ConcatProperties
<1> QED
  BY <1>5 DEF PublishBody, id

\* A function on 1..n is a sequence.
LEMMA MakeSeq ==
    ASSUME NEW S, NEW n \in Nat, NEW f \in [1..n -> S]
    PROVE  f \in Seq(S) /\ Len(f) = n
<1>1. f \in Seq(S)
  BY SeqDef
<1> QED
  BY <1>1

FilterBytes(f) == WriteUTF8String(f.topic) \o <<f.qos>>
Filters(subs) == [i \in DOMAIN subs |-> WriteUTF8String(subs[i].topic) \o <<subs[i].qos>>]
SubscribeBody(r) == Uint16(r.id) \o FlattenSeq(Filters(r.subs))
Sub == [topic : Seq(Byte), qos : Byte]

\* the filters of a SUBSCRIBE are chunks,
LEMMA FiltersChunks ==
    ASSUME NEW subs \in Seq(Sub)
    PROVE  /\ Filters(subs) \in Chunks /\ Len(Filters(subs)) = Len(subs)
           /\ \A i \in 1..Len(subs) : Filters(subs)[i] = FilterBytes(subs[i])
<1> DEFINE n == Len(subs)
           V == Seq(Byte)
<1>1. n \in Nat /\ DOMAIN subs = 1..n
  OBVIOUS
<1>2. ASSUME NEW i \in 1..n PROVE WriteUTF8String(subs[i].topic) \o <<subs[i].qos>> \in V
  <2>1. subs[i] \in Sub
    OBVIOUS
  <2>2. subs[i].topic \in Seq(Byte) /\ subs[i].qos \in Byte
    BY <2>1 DEF Sub
  <2>3. WriteUTF8String(subs[i].topic) \in Seq(Byte) /\ <<subs[i].qos>> \in Seq(Byte)
    BY <2>2, WriteBytes
  <2> QED
    BY <2>3, ConcatProperties
<1> HIDE DEF V
<1>3. Filters(subs) \in [1..n -> V]
  BY <1>1, <1>2 DEF Filters
<1>4. Filters(subs) \in Seq(V) /\ Len(Filters(subs)) = n
  BY <1>1, <1>3, MakeSeq
<1> QED
  BY <1>1, <1>4 DEF V, Chunks, Filters, FilterBytes

\* and its body is bytes.
LEMMA SubscribeBodyBytes ==
    ASSUME NEW r, IsSubscribe(r)
    PROVE  SubscribeBody(r) \in Seq(Byte)
<1>1. r.subs \in Seq(Sub) /\ r.id \in Nat
  BY DEF IsSubscribe, Sub, IsUint16
<1>2. FlattenSeq(Filters(r.subs)) \in Seq(Byte)
  BY <1>1, FiltersChunks, FlattenBytes
<1>3. Uint16(r.id) \in Seq(Byte)
  BY <1>1, Uint16Bytes
<1> QED
  BY <1>2, <1>3, ConcatProperties DEF SubscribeBody

\* A pair of bytes.
LEMMA Pair ==
    ASSUME NEW x \in Byte, NEW y \in Byte
    PROVE  <<x, y>> \in Seq(Byte) /\ <<x>> \o <<y>> = <<x, y>>
<1> DEFINE a == <<x>> \o <<y>>
           b == <<x, y>>
<1>1. b \in Seq(Byte) /\ Len(b) = 2 /\ b[1] = x /\ b[2] = y
  OBVIOUS
<1>2. <<y>> \in Seq(Byte) /\ Len(<<y>>) = 1 /\ <<y>>[1] = y
  OBVIOUS
<1>3. a \in Seq(Byte) /\ Len(a) = 2 /\ a[1] = x /\ a[1 + 1] = y
  BY <1>2, InFront
<1> HIDE DEF a, b
<1>4. a = b
  BY <1>1, <1>3
<1> QED
  BY <1>1, <1>4 DEF a, b

\* A packet whose length takes one byte.
LEMMA ShortPacket ==
    ASSUME NEW first \in Byte, NEW data \in Seq(Byte), Len(data) < 128
    PROVE  Packet(first, data) = <<first, Len(data)>> \o data
<1> DEFINE n == Len(data)
<1>1. n \in Nat /\ n < 128
  OBVIOUS
<1> HIDE DEF n
<1>2. EncodeRemainingLength(n) = <<n>>
  BY <1>1, EncodeLengthIs DEF EncodeRemainingLength
<1>3. n \in Byte
  BY <1>1 DEF Byte
<1>4. <<first>> \o <<n>> = <<first, n>>
  BY <1>3, Pair
<1>5. Packet(first, data) = <<first>> \o EncodeRemainingLength(n) \o data
  BY DEF Packet, n
<1> QED
  BY <1>2, <1>4, <1>5 DEF n

\* A packet without a body.
LEMMA EmptyPacket ==
    ASSUME NEW first \in Byte
    PROVE  Packet(first, << >>) = <<first, 0>>
<1>1. EncodeRemainingLength(Len(<< >>)) = <<0>>
  <2>1. Len(<< >>) = 0 /\ 0 \in Nat /\ 0 < 128
    OBVIOUS
  <2> QED
    BY <2>1, EncodeLengthIs DEF EncodeRemainingLength
<1>2. 0 \in Byte
  BY DEF Byte
<1>3. <<first, 0>> \in Seq(Byte) /\ <<first>> \o <<0>> = <<first, 0>>
  BY <1>2, Pair
<1>4. <<first, 0>> \o << >> = <<first, 0>>
  BY <1>3, ConcatEmptySeq
<1> QED
  BY <1>1, <1>3, <1>4 DEF Packet

\* The packet of a request: first byte and body.
Sent(r) ==
    CASE r.kind = "connect" -> <<16, BuildConnectBody(r)>>
      [] r.kind = "publish" -> <<48 + 2 * r.qos, PublishBody(r)>>
      [] r.kind = "subscribe" -> <<130, SubscribeBody(r)>>
      [] r.kind = "pingreq" -> <<192, << >> >>
      [] r.kind = "disconnect" -> <<224, << >> >>

\* A request that is not raw is a packet with that first byte and body.
LEMMA SentBytes ==
    ASSUME NEW r \in Requests, r.kind # "raw"
    PROVE  /\ Bytes(r) = Packet(Sent(r)[1], Sent(r)[2])
           /\ Sent(r)[1] \in Byte /\ Sent(r)[1] \div 16 \notin {0, 15} /\ Sent(r)[2] \in Seq(Byte)
<1>0. << >> \in Seq(Byte)
  OBVIOUS
<1>1. CASE r.kind = "connect" /\ IsConnect(r)
  <2>1. BuildConnectBody(r) \in Seq(Byte)
    BY <1>1, ConnectBodyBytes
  <2>2. Bytes(r) = Packet(16, BuildConnectBody(r)) /\ Sent(r) = <<16, BuildConnectBody(r)>>
    BY <1>1 DEF Bytes, Sent, BuildConnectPacket
  <2>3. 16 \in Byte /\ 16 \div 16 \notin {0, 15}
    BY DEF Byte
  <2> QED
    BY <2>1, <2>2, <2>3
<1>2. CASE r.kind = "publish" /\ IsPublish(r)
  <2>1. PublishBody(r) \in Seq(Byte)
    BY <1>2, PublishBodyBytes
  <2>2. Bytes(r) = Packet(48 + 2 * r.qos, PublishBody(r)) /\ Sent(r) = <<48 + 2 * r.qos, PublishBody(r)>>
    BY <1>2 DEF Bytes, Sent, BuildPublishPacket, PublishBody
  <2>3. 48 + 2 * r.qos \in Byte /\ (48 + 2 * r.qos) \div 16 \notin {0, 15}
    <3>1. r.qos \in 0..3
      BY <1>2 DEF IsPublish
    <3> QED
      BY <3>1 DEF Byte
  <2> QED
    BY <2>1, <2>2, <2>3
<1>3. CASE r.kind = "subscribe" /\ IsSubscribe(r)
  <2>1. SubscribeBody(r) \in Seq(Byte)
    BY <1>3, SubscribeBodyBytes
  <2>2. Bytes(r) = Packet(130, SubscribeBody(r)) /\ Sent(r) = <<130, SubscribeBody(r)>>
    BY <1>3 DEF Bytes, Sent, BuildSubscribePacket, SubscribeBody, Filters
  <2>3. 130 \in Byte /\ 130 \div 16 \notin {0, 15}
    BY DEF Byte
  <2> QED
    BY <2>1, <2>2, <2>3
<1>5. CASE r.kind = "pingreq"
  <2>1. 192 \in Byte /\ 192 \div 16 \notin {0, 15}
    BY DEF Byte
  <2>2. Bytes(r) = <<192, 0>> /\ Sent(r) = <<192, << >> >>
    BY <1>5 DEF Bytes, Sent
  <2> QED
    BY <1>0, <2>1, <2>2, EmptyPacket
<1>6. CASE r.kind = "disconnect"
  <2>1. 224 \in Byte /\ 224 \div 16 \notin {0, 15}
    BY DEF Byte
  <2>2. Bytes(r) = <<224, 0>> /\ Sent(r) = <<224, << >> >>
    BY <1>6 DEF Bytes, Sent
  <2> QED
    BY <1>0, <2>1, <2>2, EmptyPacket
<1> QED
  BY SessionAssumption, <1>1, <1>2, <1>3, <1>5, <1>6

\* Read alone, a request is one packet or an error.
LEMMA RequestRead ==
    ASSUME NEW r \in Requests
    PROVE  LET p == ReadPacket(Bytes(r)) IN
           /\ Bytes(r) \in Seq(Byte) /\ Bytes(r) # << >>
           /\ p.kind = "error" \/ (p.kind = "packet" /\ p.rest = << >>)
<1>0. ASSUME NEW s \in Seq(Byte), ReadPacket(s).kind \in {"error", "packet"} PROVE s # << >>
  BY <1>0 DEF ReadPacket
<1>1. CASE r.kind = "raw"
  <2> DEFINE s == Bytes(r)
             length == DecodeRemainingLength(Tail(s))
  <2>1. IsRaw(r) /\ s = r.bytes
    BY <1>1, SessionAssumption DEF Bytes
  <2>2. /\ s \in Seq(Byte) /\ s # << >>
        /\ ReadPacket(s).kind = "error" \/ (length.ok /\ length.val = Len(length.rest))
    BY <2>1 DEF IsRaw
  <2> HIDE DEF s
  <2>3. ASSUME length.ok, length.val = Len(length.rest), ReadPacket(s).kind # "error"
        PROVE  ReadPacket(s).kind = "packet" /\ ReadPacket(s).rest = << >>
    <3>1. Tail(s) \in Seq(Byte)
      BY <2>2
    <3>2. length.rest \in Seq(Byte)
      BY <2>3, <3>1, LengthBytes
    <3>3. ~LengthShort(Tail(s))
      <4>1. PICK k \in 1..4 : k <= Len(Tail(s)) /\ Tail(s)[k] < 128
        BY <2>3, <3>1, LengthOk
      <4>2. k \in 1..Len(Tail(s)) /\ k \in DOMAIN Tail(s)
        BY <3>1, <4>1
      <4>3. Tail(s)[k] \in Byte
        BY <3>1, <4>2, ElementOfSeq
      <4>4. ~(Tail(s)[k] >= 128)
        BY <4>1, <4>3, ByteIsInt
      <4> QED
        BY <4>2, <4>4 DEF LengthShort
    <3> HIDE DEF length
    <3>4. Body(length.rest, length.val) = Decoded(length.rest, << >>)
      <4>1. << >> \in Seq(Byte) /\ length.rest \o << >> = length.rest
        BY <3>2, ConcatEmptySeq
      <4>2. ReadFull(length.rest \o << >>, Len(length.rest)) = Decoded(length.rest, << >>)
        BY <3>2, <4>1, ReadFullOf
      <4> QED
        BY <2>3, <4>1, <4>2 DEF Body
    <3>5. /\ Body(length.rest, length.val).ok
          /\ Body(length.rest, length.val).rest = << >>
      BY <3>4 DEF Decoded
    <3> QED
      BY <2>2, <2>3, <3>3, <3>5 DEF ReadPacket, length
  <2> HIDE DEF length
  <2> QED
    BY <2>2, <2>3 DEF s
<1>2. CASE r.kind # "raw"
  <2> DEFINE first == Sent(r)[1]
             data == Sent(r)[2]
  <2>1. /\ Bytes(r) = Packet(first, data) /\ first \in Byte /\ first \div 16 \notin {0, 15}
        /\ data \in Seq(Byte)
    BY <1>2, SentBytes
  <2>2. Len(Bytes(r)) < MaxLength
    BY <1>2, RequestAssumption
  <2> HIDE DEF first, data
  <2>3. /\ Packet(first, data) \in Seq(Byte)
        /\ ReadPacket(Packet(first, data)) =
             [kind |-> "packet", type |-> first \div 16, flags |-> first % 16,
              data |-> data, rest |-> << >>]
    BY <2>1, <2>2, PacketFits
  <2> QED
    BY <2>1, <2>3, <1>0
<1> QED
  BY <1>1, <1>2

-----------------------------------------------------------------------------
(* PUBLISH and SUBSCRIBE                                                    *)

\* A PUBLISH that was written is decoded, unless its QoS or its topic is none.
LEMMA PublishOf ==
    ASSUME NEW r, IsPublish(r)
    PROVE  DecodePublish((48 + 2 * r.qos) % 16, PublishBody(r)) =
             IF PublishValid(r)
               THEN Decoded([qos |-> r.qos, topic |-> r.topic,
                             id |-> IF r.qos > 0 THEN r.id ELSE 0, payload |-> r.payload], << >>)
               ELSE Malformed
<1> DEFINE flags == (48 + 2 * r.qos) % 16
           id == IF r.qos > 0 THEN Uint16(r.id) ELSE << >>
           t == id \o r.payload
           s == PublishBody(r)
           name == ReadUTF8String(s)
<1>1. r.qos \in 0..3
  BY DEF IsPublish
<1>2. /\ (flags \div 2) % 4 = r.qos
  BY <1>1
<1>3. /\ r.topic \in Seq(Byte) /\ r.payload \in Seq(Byte) /\ r.id \in Nat /\ r.id < 65536
      /\ IsString(r.topic)
  BY DEF IsPublish, IsString, IsUint16
<1>4. WriteUTF8String(r.topic) \in Seq(Byte) /\ id \in Seq(Byte)
  <2>1. << >> \in Seq(Byte)
    OBVIOUS
  <2> QED
    BY <1>3, <2>1, WriteBytes, Uint16Bytes
<1>5. s = WriteUTF8String(r.topic) \o t /\ t \in Seq(Byte)
  <2>1. s = (WriteUTF8String(r.topic) \o id) \o r.payload
    BY DEF PublishBody
  <2> DEFINE a == WriteUTF8String(r.topic)
             p == r.payload
  <2>2. a \in Seq(Byte) /\ id \in Seq(Byte) /\ p \in Seq(Byte)
    BY <1>3, <1>4
  <2>4. s = (a \o id) \o p /\ t = id \o p
    BY <2>1
  <2> HIDE DEF id, s, a, p, t
  <2>3. (a \o id) \o p = a \o (id \o p) /\ id \o p \in Seq(Byte)
    BY <2>2, Assoc
  <2> QED
    BY <2>3, <2>4 DEF a
<1> HIDE DEF s, t
<1>6. name = Decoded(r.topic, t)
  BY <1>3, <1>5, ReadStringOf
<1>7. name.ok /\ name.val = r.topic /\ name.rest = t
  BY <1>6 DEF Decoded
<1> HIDE DEF name, flags
<1>8. ASSUME r.qos > 0, r.qos < 3
      PROVE  /\ ReadFull(t, 2) = Decoded(Uint16(r.id), r.payload)
             /\ ValueOf(Uint16(r.id)[1], Uint16(r.id)[2]) = r.id
  <2>1. t = Uint16(r.id) \o r.payload
    BY <1>8 DEF t
  <2>2. Uint16(r.id) \in Seq(Byte) /\ Len(Uint16(r.id)) = 2
    BY <1>3, Uint16Bytes
  <2>3. ReadFull(Uint16(r.id) \o r.payload, Len(Uint16(r.id))) = Decoded(Uint16(r.id), r.payload)
    <3>1. Uint16(r.id) \in Seq(Byte) /\ r.payload \in Seq(Byte)
      BY <1>3, <2>2
    <3> QED
      BY <3>1, ReadFullOf
  <2> QED
    BY <1>3, <2>1, <2>2, <2>3, Uint16Value
<1>9. ASSUME r.qos = 0 PROVE t = r.payload
  BY <1>3, <1>9, ConcatEmptySeq DEF t
<1>10. CASE ~PublishValid(r)
  <2>1. r.qos = 3 \/ r.topic = << >>
    BY <1>1, <1>10 DEF PublishValid
  <2>2. DecodePublish(flags, s) = Malformed
    BY <1>2, <1>7, <2>1 DEF DecodePublish, Then, name
  <2> QED
    BY <1>10, <2>2 DEF s, flags
<1>11. CASE PublishValid(r)
  <2>1. r.qos # 3 /\ r.qos < 3 /\ r.topic # << >>
    BY <1>1, <1>11 DEF PublishValid
  <2>2. CASE r.qos = 0
    <3>1. DecodePublish(flags, s) =
            Decoded([qos |-> r.qos, topic |-> r.topic, id |-> 0, payload |-> r.payload], << >>)
      BY <1>2, <1>7, <1>9, <2>1, <2>2 DEF DecodePublish, Then, PublishHasID, name
    <3> QED
      BY <1>11, <2>2, <3>1 DEF s, flags
  <2>3. CASE r.qos > 0
    <3> DEFINE b == ReadFull(t, 2)
    <3>1. b.ok /\ ValueOf(b.val[1], b.val[2]) = r.id /\ b.rest = r.payload
      BY <1>8, <2>1, <2>3 DEF Decoded
    <3> HIDE DEF b
    <3>2. DecodePublish(flags, s) =
            Decoded([qos |-> r.qos, topic |-> r.topic, id |-> r.id, payload |-> r.payload], << >>)
      BY <1>2, <1>7, <2>1, <2>3, <3>1 DEF DecodePublish, Then, PublishHasID, name, b
    <3> QED
      BY <1>11, <2>3, <3>2 DEF s, flags
  <2> QED
    BY <1>1, <2>2, <2>3
<1> QED
  BY <1>10, <1>11

\* What Subscriptions reads first: a filter, its QoS, and whether both are there.
Code(s) == ReadFull(ReadUTF8String(s).rest, 1)
FilterRead(s) == ReadUTF8String(s).ok /\ Code(s).ok /\ ~(Code(s).val[1] > 2)

\* What is behind a filter is shorter: Subscriptions looks at shorter streams only,
LEMMA FilterBehind ==
    ASSUME NEW s \in Seq(Byte), FilterRead(s)
    PROVE  /\ ReadUTF8String(s).val \in Seq(Byte) /\ Code(s).val[1] \in Byte
           /\ Code(s).rest \in Seq(Byte) /\ Len(Code(s).rest) < Len(s)
<1>0. ReadUTF8String(s).ok /\ Code(s).ok
  BY DEF FilterRead
<1>1. PICK x, q \in Seq(Byte) : s = WriteUTF8String(x) \o q /\ IsString(x)
  BY <1>0, ReadStringOk
<1>2. ReadUTF8String(s).val = x /\ ReadUTF8String(s).rest = q
  <2>1. ReadUTF8String(s) = Decoded(x, q)
    BY <1>1, ReadStringOf
  <2> QED
    BY <2>1 DEF Decoded
<1>3. Code(s) = ReadFull(q, 1)
  BY <1>2 DEF Code
<1>4. PICK p, z \in Seq(Byte) : q = p \o z /\ Len(p) = 1 /\ ReadFull(q, 1) = Decoded(p, z)
  BY <1>0, <1>3, ReadFullOk
<1>5. Code(s).val = p /\ Code(s).rest = z
  BY <1>3, <1>4 DEF Decoded
<1>6. p[1] \in Byte
  <2>1. \A u \in Seq(Byte) : Len(u) = 1 => u[1] \in Byte
    <3> SUFFICES ASSUME NEW u \in Seq(Byte), Len(u) = 1 PROVE u[1] \in Byte
      OBVIOUS
    <3>1. 1 \in 1..Len(u)
      OBVIOUS
    <3> QED
      BY <3>1, ElementOfSeq
  <2> QED
    BY <1>4, <2>1
<1>7. Len(q) = 1 + Len(z) /\ Len(z) \in Nat
  <2>1. Len(p \o z) = Len(p) + Len(z) /\ Len(z) \in Nat
    <3>1. p \in Seq(Byte) /\ z \in Seq(Byte)
      BY <1>4
    <3> QED
      BY <3>1, Skip
  <2> QED
    BY <1>4, <2>1
<1>8. Len(s) = Len(WriteUTF8String(x)) + Len(q) /\ Len(WriteUTF8String(x)) \in Nat
  <2>1. WriteUTF8String(x) \in Seq(Byte)
    BY <1>1, WriteBytes
  <2> QED
    BY <1>1, <2>1, Skip
<1> QED
  BY <1>2, <1>5, <1>6, <1>7, <1>8

\* The right-hand side of Subscriptions.
More(f, s) ==
    IF s = << >> THEN Decoded(<< >>, << >>)
    ELSE IF ~FilterRead(s) \/ ~f[Code(s).rest].ok THEN Malformed
    ELSE Decoded(<<[topic |-> ReadUTF8String(s).val, qos |-> Code(s).val[1]]>>
                   \o f[Code(s).rest].val, f[Code(s).rest].rest)

\* which makes its recursive definition an equation.
LEMMA SubscriptionsIs ==
    ASSUME NEW s \in Seq(Byte)
    PROVE  Subscriptions[s] = More(Subscriptions, s)
<1> DEFINE S == Seq(Byte)
           V == {Malformed} \cup {Decoded(v, z) : v \in Seq(Sub), z \in Seq(Byte)}
           Orig(f) == [x \in S |->
               IF x = << >> THEN Decoded(<< >>, << >>)
               ELSE IF ReadUTF8String(x).ok
                    THEN IF ReadFull(ReadUTF8String(x).rest, 1).ok
                         THEN IF ReadFull(ReadUTF8String(x).rest, 1).val[1] > 2 THEN Malformed
                              ELSE IF f[ReadFull(ReadUTF8String(x).rest, 1).rest].ok
                                   THEN Decoded(<<[topic |-> ReadUTF8String(x).val,
                                                   qos |-> ReadFull(ReadUTF8String(x).rest, 1).val[1]]>>
                                                \o f[ReadFull(ReadUTF8String(x).rest, 1).rest].val,
                                                f[ReadFull(ReadUTF8String(x).rest, 1).rest].rest)
                                   ELSE Malformed
                         ELSE Malformed
                    ELSE Malformed]
           Def(f) == [x \in S |-> More(f, x)]
           D == [f \in [S -> V] |-> Def(f)]
           rank == [x \in S |-> Len(x)]
<1>1. ASSUME NEW f PROVE Orig(f) = Def(f)
  <2>1. ASSUME NEW x \in S PROVE Orig(f)[x] = More(f, x)
    BY DEF More, FilterRead, Code
  <2> QED
    BY <2>1
<1>2. Subscriptions = CHOOSE h : h = Orig(h)
  BY DEF Subscriptions, Then
<1>v. /\ Malformed \in V /\ V # {} /\ Decoded(<< >>, << >>) \in V
      /\ \A v \in Seq(Sub), z \in Seq(Byte) : Decoded(v, z) \in V
      /\ \A y \in V : y.ok => y.val \in Seq(Sub) /\ y.rest \in Seq(Byte)
  <2>1. ASSUME NEW v \in Seq(Sub), NEW z \in Seq(Byte) PROVE Decoded(v, z) \in V
    OBVIOUS
  <2>2. << >> \in Seq(Sub) /\ << >> \in Seq(Byte)
    OBVIOUS
  <2>3. Malformed \in V
    OBVIOUS
  <2>4. ASSUME NEW y \in V, y.ok PROVE y.val \in Seq(Sub) /\ y.rest \in Seq(Byte)
    <3>1. y # Malformed
      BY <2>4 DEF Malformed
    <3>2. PICK v \in Seq(Sub), z \in Seq(Byte) : y = Decoded(v, z)
      BY <2>4, <3>1
    <3> QED
      BY <3>2 DEF Decoded
  <2> HIDE DEF V
  <2> QED
    BY <2>1, <2>2, <2>3, <2>4
<1>e. \A f : Def(f) = [x \in S |-> More(f, x)]
  OBVIOUS
<1>d. \A f \in [S -> V] : D[f] = Def(f)
  OBVIOUS
<1>r. /\ rank = [x \in S |-> Len(x)] /\ D = [f \in [S -> V] |-> Def(f)]
  OBVIOUS
<1> HIDE DEF V, Orig, Def, D, rank
<1>3. ASSUME NEW f \in [S -> V], NEW x \in S PROVE More(f, x) \in V
  <2>1. CASE x = << >> \/ ~FilterRead(x) \/ ~f[Code(x).rest].ok
    BY <1>v, <2>1 DEF More
  <2>2. CASE ~(x = << >> \/ ~FilterRead(x) \/ ~f[Code(x).rest].ok)
    <3> DEFINE y == f[Code(x).rest]
               e == [topic |-> ReadUTF8String(x).val, qos |-> Code(x).val[1]]
    <3>1. Code(x).rest \in S /\ ReadUTF8String(x).val \in Seq(Byte) /\ Code(x).val[1] \in Byte
      BY <2>2, FilterBehind
    <3>2. y \in V
      BY <3>1
    <3>3. y.val \in Seq(Sub) /\ y.rest \in Seq(Byte)
      BY <1>v, <2>2, <3>2
    <3>4. e \in Sub
      BY <3>1 DEF Sub
    <3> HIDE DEF y, e
    <3>5. <<e>> \o y.val \in Seq(Sub)
      BY <3>3, <3>4, ConcatProperties
    <3>6. More(f, x) = Decoded(<<e>> \o y.val, y.rest)
      BY <2>2 DEF More, y, e
    <3> QED
      BY <1>v, <3>3, <3>5, <3>6
  <2> QED
    BY <2>1, <2>2
<1>4. D \in [[S -> V] -> [S -> V]]
  <2>1. ASSUME NEW f \in [S -> V] PROVE Def(f) \in [S -> V]
    BY <1>3, <1>e
  <2> QED
    BY <1>r, <2>1
<1>5. rank \in [S -> Nat]
  BY <1>r
<1>6. ASSUME NEW f \in [S -> V], NEW g \in [S -> V], NEW x \in S,
             \A y \in S : rank[y] < rank[x] => f[y] = g[y]
      PROVE  D[f][x] = D[g][x]
  <2>1. FilterRead(x) => f[Code(x).rest] = g[Code(x).rest]
    <3> SUFFICES ASSUME FilterRead(x) PROVE f[Code(x).rest] = g[Code(x).rest]
      OBVIOUS
    <3>1. Code(x).rest \in S /\ Len(Code(x).rest) < Len(x)
      BY FilterBehind
    <3>2. rank[Code(x).rest] < rank[x]
      BY <1>r, <3>1
    <3> QED
      BY <1>6, <3>1, <3>2
  <2>2. More(f, x) = More(g, x)
    BY <2>1 DEF More
  <2>3. D[f] = Def(f) /\ D[g] = Def(g)
    BY <1>d
  <2>4. Def(f)[x] = More(f, x) /\ Def(g)[x] = More(g, x)
    BY <1>e
  <2> QED
    BY <2>2, <2>3, <2>4
<1> HIDE DEF S
<1>7. LowerOnly(D, rank, S, V)
  BY <1>v, <1>4, <1>5, <1>6 DEF LowerOnly
<1>8. PICK f : Solves(f, D, S, V)
  BY <1>7, RecursionSolved
<1>9. f = Orig(f)
  BY <1>1, <1>8, <1>d DEF Solves
<1>10. Subscriptions = Orig(Subscriptions)
  BY <1>2, <1>9
<1>11. Subscriptions = Def(Subscriptions)
  BY <1>1, <1>10
<1>12. s \in S
  BY DEF S
<1> QED
  BY <1>11, <1>12, <1>e

\* A filter is its topic and a byte, at least three bytes in all.
LEMMA FilterOf ==
    ASSUME NEW f \in Sub, NEW w \in Seq(Byte)
    PROVE  /\ FilterBytes(f) \in Seq(Byte) /\ Len(FilterBytes(f)) >= 3
           /\ <<f.qos>> \in Seq(Byte) /\ <<f.qos>> \o w \in Seq(Byte)
           /\ FilterBytes(f) \o w = WriteUTF8String(f.topic) \o (<<f.qos>> \o w)
<1> DEFINE a == WriteUTF8String(f.topic)
           q == <<f.qos>>
<1>1. f.topic \in Seq(Byte) /\ f.qos \in Byte
  BY DEF Sub
<1>2. q \in Seq(Byte) /\ Len(q) = 1
  BY <1>1
<1>3. a \in Seq(Byte)
  BY <1>1, WriteBytes
<1>4. Len(a) >= 2 /\ Len(a) \in Nat
  <2>1. Uint16(Len(f.topic)) \in Seq(Byte) /\ Len(Uint16(Len(f.topic))) = 2
    BY <1>1, Uint16Bytes
  <2>2. Len(a) = 2 + Len(f.topic) /\ Len(f.topic) \in Nat
    <3> DEFINE u == Uint16(Len(f.topic))
               x == f.topic
    <3>1. u \in Seq(Byte) /\ x \in Seq(Byte) /\ Len(u) = 2 /\ a = u \o x
      BY <1>1, <2>1 DEF WriteUTF8String
    <3> HIDE DEF u, x, a
    <3>4. u \in Seq(Byte) /\ x \in Seq(Byte)
      BY <3>1
    <3>2. Len(u \o x) = Len(u) + Len(x) /\ Len(x) \in Nat
      BY <3>4, Skip
    <3>3. Len(a) = 2 + Len(x) /\ Len(x) \in Nat
      BY <3>1, <3>2
    <3> QED
      BY <3>3 DEF x
  <2> QED
    BY <2>2
<1>5. FilterBytes(f) = a \o q
  BY DEF FilterBytes
<1> HIDE DEF a, q
<1>6. Len(a \o q) = Len(a) + Len(q) /\ a \o q \in Seq(Byte)
  BY <1>2, <1>3, Skip
<1>7. (a \o q) \o w = a \o (q \o w) /\ q \o w \in Seq(Byte)
  BY <1>2, <1>3, Assoc
<1>8. Len(FilterBytes(f)) >= 3 /\ FilterBytes(f) \in Seq(Byte)
  BY <1>2, <1>4, <1>5, <1>6
<1>9. FilterBytes(f) \o w = a \o (q \o w)
  BY <1>5, <1>7
<1> QED
  BY <1>2, <1>7, <1>8, <1>9 DEF a, q

Joined(subs) == FlattenSeq(Filters(subs))

\* The filters of a SUBSCRIBE are the first and then the others.
LEMMA FiltersFront ==
    ASSUME NEW s \in Seq(Sub), s # << >>
    PROVE  Joined(s) = FilterBytes(Head(s)) \o Joined(Tail(s))
<1> DEFINE e == FilterBytes(Head(s))
           s2 == Tail(s)
           a == Filters(s)
           b == <<e>> \o Filters(s2)
<1>1. /\ Head(s) \in Sub /\ s2 \in Seq(Sub) /\ Len(s2) = Len(s) - 1 /\ Len(s) \in Nat \ {0}
      /\ \A i \in 1..Len(s2) : s2[i] = s[i + 1]
  BY HeadTailProperties
<1> HIDE DEF s2
<1>2. e \in Seq(Byte) /\ e = FilterBytes(s[1])
  <2>1. << >> \in Seq(Byte)
    OBVIOUS
  <2>2. FilterBytes(Head(s)) \in Seq(Byte)
    BY <1>1, <2>1, FilterOf, ZenonT(30)
  <2>3. Head(s) = s[1]
    OBVIOUS
  <2> QED
    BY <2>2, <2>3
<1>3. /\ a \in Chunks /\ Len(a) = Len(s) /\ \A i \in 1..Len(s) : a[i] = FilterBytes(s[i])
  BY FiltersChunks
<1>4. /\ Filters(s2) \in Chunks /\ Len(Filters(s2)) = Len(s2)
      /\ \A i \in 1..Len(s2) : Filters(s2)[i] = FilterBytes(s2[i])
  BY <1>1, FiltersChunks
<1> HIDE DEF e, s2, a
<1>5. /\ b \in Chunks /\ Len(b) = 1 + Len(s2) /\ b[1] = e
      /\ \A i \in 1..Len(s2) : b[i + 1] = Filters(s2)[i]
  <2>1. <<e>> \in Chunks /\ Len(<<e>>) = 1 /\ <<e>>[1] = e
    BY <1>2 DEF Chunks
  <2> QED
    BY <1>4, <2>1, ConcatProperties DEF Chunks
<1> HIDE DEF b
<1>6. \A i \in 1..Len(a) : a[i] = b[i]
  <2> SUFFICES ASSUME NEW i \in 1..Len(a) PROVE a[i] = b[i]
    OBVIOUS
  <2>1. CASE i = 1
    BY <1>1, <1>2, <1>3, <1>5, <2>1
  <2>2. CASE i # 1
    <3>1. i - 1 \in 1..Len(s2) /\ (i - 1) + 1 = i /\ i \in 1..Len(s)
      BY <1>1, <1>3, <2>2
    <3>2. b[i] = Filters(s2)[i - 1] /\ Filters(s2)[i - 1] = FilterBytes(s2[i - 1]) /\ s2[i - 1] = s[i]
      BY <1>1, <1>4, <1>5, <3>1
    <3> QED
      BY <1>3, <3>1, <3>2
  <2> QED
    BY <2>1, <2>2
<1>7. a = b
  <2>1. Len(a) = Len(b)
    BY <1>1, <1>3, <1>5
  <2> QED
    BY <1>3, <1>5, <1>6, <2>1, SeqEqual DEF Chunks
<1>8. FlattenSeq(b) = e \o FlattenSeq(Filters(s2))
  BY <1>2, <1>4, FlattenFront DEF b
<1> QED
  BY <1>7, <1>8 DEF Joined, a, e, s2

\* No filters, no bytes.
LEMMA FiltersEmpty == Joined(<< >>) = << >>
<1>1. << >> \in Seq(Sub) /\ Len(<< >>) = 0
  OBVIOUS
<1>2. Filters(<< >>) \in Chunks /\ Len(Filters(<< >>)) = 0
  BY <1>1, FiltersChunks
<1>3. Filters(<< >>) = << >>
  BY <1>2 DEF Chunks
<1> QED
  BY <1>3, FlattenEmpty DEF Joined

Writable(subs) == subs \in Seq(Sub) /\ \A i \in 1..Len(subs) : IsString(subs[i].topic)
Granted(subs) == \A i \in 1..Len(subs) : subs[i].qos < 3
ReadBack(subs) ==
    /\ Joined(subs) \in Seq(Byte) /\ Len(Joined(subs)) >= 3 * Len(subs)
    /\ Subscriptions[Joined(subs)] = IF Granted(subs) THEN Decoded(subs, << >>) ELSE Malformed

\* A list of filters is read back if its tail is.
LEMMA ReadBackStep ==
    ASSUME NEW subs, Writable(subs), subs # << >>, ReadBack(Tail(subs))
    PROVE  ReadBack(subs)
<1> DEFINE f == Head(subs)
           more == Tail(subs)
           w == Joined(more)
           s == Joined(subs)
           q == <<f.qos>>
<1>1. /\ f \in Sub /\ f = subs[1] /\ more \in Seq(Sub) /\ Len(subs) \in Nat \ {0}
      /\ Len(more) = Len(subs) - 1 /\ \A i \in 1..Len(more) : more[i] = subs[i + 1]
  BY HeadTailProperties DEF Writable
<1>2. f.topic \in Seq(Byte) /\ f.qos \in Byte /\ f = [topic |-> f.topic, qos |-> f.qos]
  BY <1>1 DEF Sub
<1>3. IsString(f.topic)
  <2>1. 1 \in 1..Len(subs)
    BY <1>1
  <2> QED
    BY <1>1, <2>1 DEF Writable
<1>4. /\ w \in Seq(Byte) /\ Len(w) >= 3 * Len(more)
      /\ Subscriptions[w] = IF Granted(more) THEN Decoded(more, << >>) ELSE Malformed
  BY DEF ReadBack
<1>5. s = FilterBytes(f) \o w
  BY FiltersFront DEF Writable
<1> HIDE DEF w, s, f, more
<1>6. /\ FilterBytes(f) \in Seq(Byte) /\ Len(FilterBytes(f)) >= 3
      /\ q \in Seq(Byte) /\ q \o w \in Seq(Byte)
      /\ s = WriteUTF8String(f.topic) \o (q \o w)
  BY <1>1, <1>4, <1>5, FilterOf
<1>7. s \in Seq(Byte) /\ Len(s) = Len(FilterBytes(f)) + Len(w) /\ Len(w) \in Nat
  <2> DEFINE b == FilterBytes(f)
  <2>1. b \in Seq(Byte) /\ w \in Seq(Byte) /\ s = b \o w
    BY <1>4, <1>5, <1>6
  <2> HIDE DEF b
  <2>2. b \o w \in Seq(Byte) /\ Len(b \o w) = Len(b) + Len(w) /\ Len(w) \in Nat
    BY <2>1, Skip
  <2> QED
    BY <2>1, <2>2 DEF b
<1>8. Len(s) >= 3 * Len(subs) /\ s # << >>
  BY <1>1, <1>4, <1>6, <1>7
<1>9. ReadUTF8String(s).ok /\ ReadUTF8String(s).val = f.topic /\ ReadUTF8String(s).rest = q \o w
  <2>1. ReadUTF8String(s) = Decoded(f.topic, q \o w)
    BY <1>3, <1>6, ReadStringOf
  <2> QED
    BY <2>1 DEF Decoded
<1>10. Code(s).ok /\ Code(s).val = q /\ Code(s).rest = w
  <2>1. Len(q) = 1
    OBVIOUS
  <2> HIDE DEF q
  <2>2. ReadFull(q \o w, Len(q)) = Decoded(q, w)
    BY <1>4, <1>6, ReadFullOf
  <2>3. Code(s) = Decoded(q, w)
    BY <1>9, <2>1, <2>2 DEF Code
  <2> QED
    BY <2>3 DEF Decoded
<1>11. Code(s).val[1] = f.qos
  BY <1>10
<1> HIDE DEF q
<1>12. FilterRead(s) <=> f.qos < 3
  <2>1. f.qos \in Int
    BY <1>2, ByteIsInt
  <2>2. FilterRead(s) <=> ~(f.qos > 2)
    BY <1>9, <1>10, <1>11 DEF FilterRead
  <2> QED
    BY <2>1, <2>2
<1>13. Granted(subs) <=> f.qos < 3 /\ Granted(more)
  <2>1. ASSUME Granted(subs) PROVE f.qos < 3 /\ Granted(more)
    <3>1. 1 \in 1..Len(subs) /\ \A i \in 1..Len(more) : i + 1 \in 1..Len(subs)
      BY <1>1
    <3> QED
      BY <1>1, <2>1, <3>1 DEF Granted
  <2>2. ASSUME f.qos < 3, Granted(more), NEW i \in 1..Len(subs) PROVE subs[i].qos < 3
    <3>1. CASE i = 1
      BY <1>1, <2>2, <3>1
    <3>2. CASE i # 1
      <4>1. i - 1 \in 1..Len(more) /\ (i - 1) + 1 = i
        BY <1>1, <3>2
      <4>2. more[i - 1] = subs[i]
        BY <1>1, <4>1
      <4> QED
        BY <2>2, <4>1, <4>2 DEF Granted
    <3> QED
      BY <3>1, <3>2
  <2> QED
    BY <2>1, <2>2 DEF Granted
<1>14. Subscriptions[s] = More(Subscriptions, s)
  BY <1>7, SubscriptionsIs
<1>15. CASE Granted(subs)
  <2>1. Subscriptions[w].ok /\ Subscriptions[w].val = more /\ Subscriptions[w].rest = << >>
    BY <1>4, <1>13, <1>15 DEF Decoded
  <2>2. More(Subscriptions, s) =
          Decoded(<<[topic |-> f.topic, qos |-> f.qos]>> \o more, << >>)
    BY <1>8, <1>9, <1>10, <1>11, <1>12, <1>13, <1>15, <2>1 DEF More
  <2>3. <<f>> \o more = subs
    <3>1. subs \in Seq(Sub)
      BY DEF Writable
    <3> QED
      BY <3>1, HeadTailProperties DEF f, more
  <2>4. Subscriptions[s] = Decoded(subs, << >>)
    BY <1>2, <1>14, <2>2, <2>3
  <2> QED
    BY <1>7, <1>8, <1>15, <2>4 DEF ReadBack, s
<1>16. CASE ~Granted(subs)
  <2>1. CASE ~(f.qos < 3)
    <3>1. More(Subscriptions, s) = Malformed
      BY <1>8, <1>12, <2>1 DEF More
    <3> QED
      BY <1>7, <1>8, <1>14, <1>16, <3>1 DEF ReadBack, s
  <2>2. CASE f.qos < 3
    <3>1. ~Subscriptions[w].ok
      BY <1>4, <1>13, <1>16, <2>2 DEF Malformed
    <3>2. More(Subscriptions, s) = Malformed
      BY <1>8, <1>10, <3>1 DEF More
    <3> QED
      BY <1>7, <1>8, <1>14, <1>16, <3>2 DEF ReadBack, s
  <2> QED
    BY <2>1, <2>2
<1> QED
  BY <1>15, <1>16

\* Every list of filters is read back.
LEMMA SubscriptionsOf ==
    ASSUME NEW subs, Writable(subs)
    PROVE  ReadBack(subs)
<1> DEFINE Bad == {n \in Nat : \E x : Writable(x) /\ Len(x) = n /\ ~ReadBack(x)}
<1> SUFFICES ASSUME Bad # {} PROVE FALSE
  BY DEF Writable
<1>1. PICK n \in Bad : \A m \in Bad : n <= m
  <2>1. Bad \in SUBSET Nat
    OBVIOUS
  <2> HIDE DEF Bad
  <2> QED
    BY <2>1, LeastNumber
<1>2. PICK x : Writable(x) /\ Len(x) = n /\ ~ReadBack(x)
  BY <1>1
<1>3. x \in Seq(Sub) /\ n \in Nat
  BY <1>1, <1>2 DEF Writable
<1>4. CASE x = << >>
  <2>1. Subscriptions[<< >>] = Decoded(<< >>, << >>)
    <3>1. << >> \in Seq(Byte)
      OBVIOUS
    <3> QED
      BY <3>1, SubscriptionsIs DEF More
  <2>2. Len(<< >>) = 0 /\ << >> \in Seq(Byte) /\ Granted(<< >>)
    BY DEF Granted
  <2>3. ReadBack(<< >>)
    <3>1. Len(<< >>) >= 3 * Len(<< >>)
      BY <2>2
    <3> QED
      BY <2>1, <2>2, <3>1, FiltersEmpty, Zenon DEF ReadBack
  <2> QED
    BY <1>2, <1>4, <2>3
<1>5. CASE x # << >>
  <2>1. /\ Tail(x) \in Seq(Sub) /\ Len(Tail(x)) = n - 1 /\ n - 1 \in Nat
        /\ \A i \in 1..Len(Tail(x)) : Tail(x)[i] = x[i + 1] /\ i + 1 \in 1..Len(x)
    BY <1>2, <1>3, <1>5, HeadTailProperties
  <2>2. Writable(Tail(x))
    BY <1>2, <2>1 DEF Writable
  <2>3. ~ReadBack(Tail(x))
    BY <1>2, <1>5, ReadBackStep
  <2>4. n - 1 \in Bad
    BY <2>1, <2>2, <2>3
  <2> HIDE DEF Bad
  <2> QED
    BY <1>1, <1>3, <2>4
<1> QED
  BY <1>4, <1>5

\* DecodeSubscribe recovers the filters, unless there are none or a QoS is none.
LEMMA SubscribeOf ==
    ASSUME NEW r, IsSubscribe(r)
    PROVE  /\ DecodeSubscribe(SubscribeBody(r)) =
                IF SubscribeValid(r) THEN Decoded([id |-> r.id, subs |-> r.subs], << >>)
                                     ELSE Malformed
           /\ Len(SubscribeBody(r)) >= 2 + Len(r.subs)
<1> DEFINE u == Uint16(r.id)
           w == Joined(r.subs)
           s == SubscribeBody(r)
<1>1. r.id \in Nat /\ r.id < 65536 /\ Writable(r.subs)
  BY DEF IsSubscribe, IsUint16, Writable, Sub
<1>2. u \in Seq(Byte) /\ Len(u) = 2 /\ ValueOf(u[1], u[2]) = r.id
  BY <1>1, Uint16Bytes, Uint16Value
<1>3. r.subs \in Seq(Sub) /\ Len(r.subs) \in Nat /\ DOMAIN r.subs = 1..Len(r.subs)
  BY <1>1 DEF Writable
<1>4. /\ w \in Seq(Byte) /\ Len(w) >= 3 * Len(r.subs)
      /\ Subscriptions[w] = IF Granted(r.subs) THEN Decoded(r.subs, << >>) ELSE Malformed
  BY <1>1, SubscriptionsOf DEF ReadBack
<1>5. s = u \o w
  BY DEF SubscribeBody, Joined
<1>6. SubscribeValid(r) <=> r.subs # << >> /\ Granted(r.subs)
  BY <1>3 DEF SubscribeValid, Granted
<1>7. DecodeSubscribe(s) =
        IF Len(s) < 5 THEN Malformed
        ELSE IF Subscriptions[From(s, 3)].ok
               THEN Decoded([id |-> ValueOf(s[1], s[2]), subs |-> Subscriptions[From(s, 3)].val],
                            Subscriptions[From(s, 3)].rest)
               ELSE Malformed
  BY DEF DecodeSubscribe, Then
<1> HIDE DEF u, w, s
<1>8. /\ Len(s) = 2 + Len(w) /\ Len(w) \in Nat /\ From(s, 3) = w
      /\ s[1] = u[1] /\ s[2] = u[2]
  <2>1. u \in Seq(Byte) /\ w \in Seq(Byte)
    BY <1>2, <1>4
  <2>2. /\ Len(u \o w) = Len(u) + Len(w) /\ From(u \o w, Len(u) + 1) = w
        /\ \A i \in 1..Len(u) : (u \o w)[i] = u[i]
    BY <2>1, Skip
  <2>3. Len(w) \in Nat
    BY <2>1
  <2> QED
    BY <1>2, <1>5, <2>2, <2>3
<1>9. Len(s) >= 2 + Len(r.subs)
  BY <1>3, <1>4, <1>8
<1>10. CASE r.subs = << >>
  <2>1. w = << >>
    BY <1>10, FiltersEmpty DEF w
  <2>2. Len(s) < 5
    BY <1>8, <2>1
  <2> QED
    BY <1>6, <1>7, <1>9, <1>10, <2>2 DEF s
<1>11. CASE r.subs # << >>
  <2>1. ~(Len(s) < 5)
    <3>1. Len(r.subs) # 0
      BY <1>3, <1>11
    <3> QED
      BY <1>3, <1>4, <1>8, <3>1
  <2>2. CASE Granted(r.subs)
    <3>1. /\ Subscriptions[w].ok /\ Subscriptions[w].val = r.subs
          /\ Subscriptions[w].rest = << >>
      BY <1>4, <2>2 DEF Decoded
    <3>2. DecodeSubscribe(s) = Decoded([id |-> r.id, subs |-> r.subs], << >>)
      BY <1>2, <1>7, <1>8, <2>1, <3>1
    <3> QED
      BY <1>6, <1>9, <1>11, <2>2, <3>2 DEF s
  <2>3. CASE ~Granted(r.subs)
    <3>1. ~Subscriptions[w].ok
      BY <1>4, <2>3 DEF Malformed
    <3>2. DecodeSubscribe(s) = Malformed
      BY <1>7, <1>8, <2>1, <3>1
    <3> QED
      BY <1>6, <1>9, <2>3, <3>2 DEF s
  <2> QED
    BY <2>2, <2>3
<1> QED
  BY <1>10, <1>11

-----------------------------------------------------------------------------
(* The broker's answers                                                     *)

AnswerOf(type, data) ==
    CASE type = 2 -> <<"connack", data[2]>>
      [] type = 4 -> <<"puback", ValueOf(data[1], data[2])>>
      [] type = 9 -> <<"suback", ValueOf(data[1], data[2]), From(data, 3)>>
      [] type = 13 -> <<"pingresp">>
      [] OTHER -> <<"unexpected">>

\* What a client makes of a whole packet.
LEMMA AnswerRead ==
    ASSUME NEW first \in Byte, NEW type, type = first \div 16, type \notin {0, 15},
           NEW data \in Seq(Byte), Len(data) < MaxLength
    PROVE  ClientReads(Packet(first, data)) = AnswerOf(type, data)
<1> DEFINE s == Packet(first, data)
           p == ReadPacket(s)
<1>0. << >> \in Seq(Byte)
  OBVIOUS
<1>1. s \in Seq(Byte)
  <2> DEFINE e == EncodeRemainingLength(Len(data))
  <2>1. e \in Seq(Byte)
    BY EncodedBytes DEF EncodeRemainingLength
  <2> HIDE DEF e
  <2>2. <<first>> \o e \in Seq(Byte)
    BY <2>1, InFront
  <2>3. (<<first>> \o e) \o data \in Seq(Byte)
    BY <2>2, ConcatProperties
  <2> QED
    BY <2>3 DEF Packet, e
<1>2. s \o << >> = s
  BY <1>1, ConcatEmptySeq
<1>3. ReadPacket(s \o << >>) =
        [kind |-> "packet", type |-> first \div 16, flags |-> first % 16,
         data |-> data, rest |-> << >>]
  BY <1>0, PacketOf DEF MaxLength
<1>4. p = [kind |-> "packet", type |-> first \div 16, flags |-> first % 16,
           data |-> data, rest |-> << >>]
  BY <1>2, <1>3
<1>5. s # << >>
  <2> SUFFICES ASSUME s = << >> PROVE FALSE
    OBVIOUS
  <2>1. p = [kind |-> "short"]
    BY DEF ReadPacket
  <2> QED
    BY <1>4, <2>1
<1> HIDE DEF s, p
<1>6. p.kind = "packet" /\ p.type = first \div 16 /\ p.data = data /\ p.rest = << >>
  BY <1>4
<1>7. p.type = type
  BY <1>6
<1>8. ClientReads(s) = AnswerOf(type, data)
  BY <1>5, <1>6, <1>7 DEF ClientReads, AnswerOf, p
<1> QED
  BY <1>8 DEF s

\* Nothing is read as nothing.
LEMMA NothingRead == ClientReads(<< >>) = <<"nothing">>
  BY DEF ClientReads

\* The client reads CONNACK as the code that EncodeConnack was given,
LEMMA ConnackRead ==
    ASSUME NEW code \in Byte
    PROVE  ClientReads(EncodeConnack(code)) = <<"connack", code>>
<1> DEFINE d == <<0, code>>
<1>1. 32 \in Byte /\ 32 \div 16 = 2 /\ 0 \in Byte /\ 2 \in Byte
  BY DEF Byte
<1>2. d \in Seq(Byte) /\ Len(d) = 2 /\ d[2] = code
  BY <1>1
<1>3. <<32, 2>> \o <<0, code>> = <<32, 2, 0, code>>
  <2> DEFINE a == <<32, 2>>
             b == <<32, 2, 0, code>>
  <2>1. a \in Seq(Byte) /\ Len(a) = 2 /\ a[1] = 32 /\ a[2] = 2
    BY <1>1
  <2>2. b \in Seq(Byte) /\ Len(b) = 4 /\ b[1] = 32 /\ b[2] = 2 /\ b[3] = 0 /\ b[4] = code
    BY <1>1
  <2>3. d \in Seq(Byte) /\ Len(d) = 2 /\ d[1] = 0 /\ d[2] = code
    BY <1>2
  <2> HIDE DEF a, b, d
  <2>6. a \in Seq(Byte) /\ d \in Seq(Byte)
    BY <2>1, <2>3
  <2>4. /\ a \o d \in Seq(Byte) /\ Len(a \o d) = Len(a) + Len(d)
        /\ \A i \in 1..Len(a) : (a \o d)[i] = a[i]
        /\ \A i \in 1..Len(d) : (a \o d)[Len(a) + i] = d[i]
    BY <2>6, ConcatProperties
  <2>7. Len(a \o d) = 4
    BY <2>1, <2>3, <2>4
  <2>8. \A i \in 1..4 : (a \o d)[i] = b[i]
    <3>1. (a \o d)[1] = b[1] /\ (a \o d)[2] = b[2]
      BY <2>1, <2>2, <2>4
    <3>2. (a \o d)[3] = b[3] /\ (a \o d)[4] = b[4]
      <4>1. 1 \in 1..Len(d) /\ 2 \in 1..Len(d) /\ Len(a) + 1 = 3 /\ Len(a) + 2 = 4
        BY <2>1, <2>3
      <4>2. (a \o d)[Len(a) + 1] = d[1] /\ (a \o d)[Len(a) + 2] = d[2]
        BY <2>4, <4>1
      <4> QED
        BY <2>2, <2>3, <4>1, <4>2
    <3>3. \A i \in 1..4 : i = 1 \/ i = 2 \/ i = 3 \/ i = 4
      OBVIOUS
    <3> QED
      BY <3>1, <3>2, <3>3, Zenon
  <2>5. a \o d = b
    BY <2>2, <2>4, <2>7, <2>8, SeqEqual
  <2> QED
    BY <2>5 DEF a, b, d
<1>4. Packet(32, d) = EncodeConnack(code)
  <2>1. Len(d) < 128 /\ d \in Seq(Byte)
    BY <1>2
  <2> HIDE DEF d
  <2>2. Packet(32, d) = <<32, Len(d)>> \o d
    BY <1>1, <2>1, ShortPacket
  <2> QED
    BY <1>2, <1>3, <2>2 DEF EncodeConnack, d
<1> HIDE DEF d
<1>5. Len(d) < MaxLength
  BY <1>2 DEF MaxLength
<1>6. ClientReads(Packet(32, d)) = <<"connack", d[2]>>
  <2>1. ClientReads(Packet(32, d)) = AnswerOf(2, d)
    <3>1. d \in Seq(Byte)
      BY <1>2
    <3> QED
      BY <1>1, <1>5, <3>1, AnswerRead
  <2> QED
    BY <2>1 DEF AnswerOf
<1> QED
  BY <1>2, <1>4, <1>6

\* PUBACK as its packet ID,
LEMMA PubackRead ==
    ASSUME NEW id, IsUint16(id)
    PROVE  ClientReads(EncodePuback(id)) = <<"puback", id>>
<1> DEFINE d == Uint16(id)
<1>1. 64 \in Byte /\ 64 \div 16 = 4
  BY DEF Byte
<1>2. d \in Seq(Byte) /\ Len(d) = 2 /\ ValueOf(d[1], d[2]) = id
  BY Uint16Bytes, Uint16Value DEF IsUint16
<1>3. EncodePuback(id) = <<64, 2>> \o d
  BY DEF EncodePuback
<1> HIDE DEF d
<1>4. Packet(64, d) = EncodePuback(id)
  <2>1. Len(d) < 128
    BY <1>2
  <2>2. Packet(64, d) = <<64, Len(d)>> \o d
    BY <1>1, <1>2, <2>1, ShortPacket
  <2> QED
    BY <1>2, <1>3, <2>2
<1>5. Len(d) < MaxLength
  BY <1>2 DEF MaxLength
<1>6. ClientReads(Packet(64, d)) = <<"puback", ValueOf(d[1], d[2])>>
  <2>1. ClientReads(Packet(64, d)) = AnswerOf(4, d)
    <3>1. d \in Seq(Byte)
      BY <1>2
    <3> QED
      BY <1>1, <1>5, <3>1, AnswerRead
  <2> QED
    BY <2>1 DEF AnswerOf
<1> QED
  BY <1>2, <1>4, <1>6

\* SUBACK as its packet ID and codes,
LEMMA SubackRead ==
    ASSUME NEW id, IsUint16(id), NEW codes \in Seq(Byte), 2 + Len(codes) < MaxLength
    PROVE  ClientReads(EncodeSuback(id, codes)) = <<"suback", id, codes>>
<1> DEFINE u == Uint16(id)
           d == u \o codes
           e == EncodeRemainingLength(2 + Len(codes))
<1>1. 144 \in Byte /\ 144 \div 16 = 9
  BY DEF Byte
<1>2. u \in Seq(Byte) /\ Len(u) = 2 /\ ValueOf(u[1], u[2]) = id
  BY Uint16Bytes, Uint16Value DEF IsUint16
<1>3. EncodeSuback(id, codes) = ((<<144>> \o e) \o u) \o codes
  BY DEF EncodeSuback
<1>4. <<144>> \o e \in Seq(Byte)
  <2>1. e \in Seq(Byte)
    BY EncodedBytes DEF EncodeRemainingLength
  <2> HIDE DEF e
  <2> QED
    BY <1>1, <2>1, InFront
<1> HIDE DEF u, e
<1>5. /\ d \in Seq(Byte) /\ Len(d) = 2 + Len(codes) /\ From(d, 3) = codes
      /\ d[1] = u[1] /\ d[2] = u[2]
  <2>1. u \in Seq(Byte) /\ codes \in Seq(Byte)
    BY <1>2
  <2>2. /\ u \o codes \in Seq(Byte) /\ Len(u \o codes) = Len(u) + Len(codes)
        /\ From(u \o codes, Len(u) + 1) = codes
        /\ \A i \in 1..Len(u) : (u \o codes)[i] = u[i]
    BY <2>1, Skip
  <2> QED
    BY <1>2, <2>2
<1>6. EncodeSuback(id, codes) = (<<144>> \o e) \o d
  <2> DEFINE h == <<144>> \o e
  <2>1. h \in Seq(Byte) /\ u \in Seq(Byte)
    BY <1>2, <1>4
  <2> HIDE DEF h
  <2>2. (h \o u) \o codes = h \o (u \o codes)
    BY <2>1, Assoc
  <2> QED
    BY <1>3, <2>2 DEF h
<1>7. Packet(144, d) = EncodeSuback(id, codes)
  BY <1>5, <1>6 DEF Packet, e
<1> HIDE DEF d
<1>8. Len(d) < MaxLength
  BY <1>5
<1>9. ClientReads(Packet(144, d)) = <<"suback", ValueOf(d[1], d[2]), From(d, 3)>>
  <2>1. ClientReads(Packet(144, d)) = AnswerOf(9, d)
    BY <1>1, <1>5, <1>8, AnswerRead
  <2> QED
    BY <2>1 DEF AnswerOf
<1> QED
  BY <1>2, <1>5, <1>7, <1>9

\* and PINGRESP as itself.
LEMMA PingrespRead == ClientReads(EncodePingresp) = <<"pingresp">>
<1> DEFINE d == << >>
<1>1. 208 \in Byte /\ 208 \div 16 = 13
  BY DEF Byte
<1>2. d \in Seq(Byte) /\ Len(d) = 0
  OBVIOUS
<1>3. Packet(208, d) = EncodePingresp
  BY <1>1, EmptyPacket DEF EncodePingresp
<1> HIDE DEF d
<1>4. Len(d) < MaxLength
  BY <1>2 DEF MaxLength
<1>5. ClientReads(Packet(208, d)) = AnswerOf(13, d)
  <2>1. d \in Seq(Byte)
    BY <1>2
  <2> QED
    BY <1>1, <1>4, <2>1, AnswerRead
<1> QED
  BY <1>3, <1>5 DEF AnswerOf

-----------------------------------------------------------------------------
(* What a request asks, and what it may expect                              *)

\* The packet ReadPacket makes of a request, and what the decoders make of it.
Asked(r) == ReadPacket(Bytes(r))
Opening(r) == DecodeConnect(Asked(r).data)
Message(r) == DecodePublish(Asked(r).flags, Asked(r).data)
Filtering(r) == DecodeSubscribe(Asked(r).data)

\* Each kind of request arrives as a packet of its type.
LEMMA AskedOf ==
    ASSUME NEW r \in Requests, Asked(r).kind = "packet"
    PROVE  \/ r.kind = "connect" /\ IsConnect(r) /\ Asked(r).type = CONNECT
              /\ Asked(r).data = BuildConnectBody(r)
           \/ r.kind = "publish" /\ IsPublish(r) /\ Asked(r).type = PUBLISH
              /\ Asked(r).flags = (48 + 2 * r.qos) % 16 /\ Asked(r).data = PublishBody(r)
           \/ r.kind = "subscribe" /\ IsSubscribe(r) /\ Asked(r).type = SUBSCRIBE
              /\ Asked(r).data = SubscribeBody(r) /\ Len(SubscribeBody(r)) < MaxLength
           \/ r.kind = "pingreq" /\ Asked(r).type = PINGREQ
           \/ r.kind = "disconnect" /\ Asked(r).type = DISCONNECT
           \/ r.kind = "raw" /\ Bytes(r) = r.bytes
<1> DEFINE first == Sent(r)[1]
           data == Sent(r)[2]
<1>1. ASSUME r.kind # "raw"
      PROVE  /\ Asked(r).type = first \div 16 /\ Asked(r).flags = first % 16
             /\ Asked(r).data = data /\ Len(data) < MaxLength
  <2>1. /\ Bytes(r) = Packet(first, data) /\ first \in Byte /\ first \div 16 \notin {0, 15}
        /\ data \in Seq(Byte)
    BY <1>1, SentBytes
  <2>2. Len(Bytes(r)) < MaxLength
    BY <1>1, RequestAssumption
  <2> HIDE DEF first, data
  <2>3. /\ Len(data) < 128 * 128 * 128 * 128
        /\ ReadPacket(Packet(first, data)) =
             [kind |-> "packet", type |-> first \div 16, flags |-> first % 16,
              data |-> data, rest |-> << >>]
    BY <2>1, <2>2, PacketFits
  <2>4. Asked(r) = [kind |-> "packet", type |-> first \div 16, flags |-> first % 16,
                    data |-> data, rest |-> << >>]
    BY <2>1, <2>3 DEF Asked
  <2> QED
    BY <2>3, <2>4 DEF MaxLength
<1>2. CASE r.kind = "connect" /\ IsConnect(r)
  <2>1. first = 16 /\ data = BuildConnectBody(r)
    BY <1>2 DEF Sent
  <2> HIDE DEF first, data
  <2>2. 16 \div 16 = 1
    OBVIOUS
  <2> QED
    BY <1>1, <1>2, <2>1, <2>2 DEF CONNECT
<1>3. CASE r.kind = "publish" /\ IsPublish(r)
  <2>1. first = 48 + 2 * r.qos /\ data = PublishBody(r)
    BY <1>3 DEF Sent
  <2>2. (48 + 2 * r.qos) \div 16 = 3
    <3>1. r.qos \in 0..3
      BY <1>3 DEF IsPublish
    <3> QED
      BY <3>1
  <2> HIDE DEF first, data
  <2> QED
    BY <1>1, <1>3, <2>1, <2>2 DEF PUBLISH
<1>4. CASE r.kind = "subscribe" /\ IsSubscribe(r)
  <2>1. first = 130 /\ data = SubscribeBody(r)
    BY <1>4 DEF Sent
  <2> HIDE DEF first, data
  <2>2. 130 \div 16 = 8
    OBVIOUS
  <2> QED
    BY <1>1, <1>4, <2>1, <2>2 DEF SUBSCRIBE
<1>5. CASE r.kind = "pingreq"
  <2>1. first = 192
    BY <1>5 DEF Sent
  <2>2. 192 \div 16 = 12
    OBVIOUS
  <2> HIDE DEF first, data
  <2> QED
    BY <1>1, <1>5, <2>1, <2>2 DEF PINGREQ
<1>6. CASE r.kind = "disconnect"
  <2>1. first = 224
    BY <1>6 DEF Sent
  <2>2. 224 \div 16 = 14
    OBVIOUS
  <2> HIDE DEF first, data
  <2> QED
    BY <1>1, <1>6, <2>1, <2>2 DEF DISCONNECT
<1>7. CASE r.kind = "raw"
  BY <1>7 DEF Bytes
<1> QED
  BY SessionAssumption, <1>2, <1>3, <1>4, <1>5, <1>6, <1>7

\* The hypothesis on raw requests.
LEMMA RawAsked ==
    ASSUME RawAsksNothing, NEW r \in Requests, Asked(r).kind = "packet", r.kind = "raw"
    PROVE  /\ Asked(r).type # PINGREQ
           /\ Asked(r).type = CONNECT => ~Opening(r).ok
           /\ Asked(r).type = SUBSCRIBE => ~Filtering(r).ok
           /\ Asked(r).type = PUBLISH => (Message(r).ok => Message(r).val.qos # 1)
<1>1. Asked(r) = ReadPacket(r.bytes)
  BY DEF Asked, Bytes
<1> QED
  BY <1>1 DEF RawAsksNothing, Opening, Filtering, Message

\* handleConnection's three answers to the first packet.
LEMMA ConnectAnswered ==
    ASSUME RawAsksNothing, NEW r \in Requests, Asked(r).kind = "packet"
    PROVE  /\ Asked(r).type # CONNECT \/ ~Opening(r).ok => <<"nothing">> \in ConnectAnswers(r)
           /\ Asked(r).type = CONNECT /\ Opening(r).ok /\ ~Authenticated(Opening(r).val) =>
                <<"connack", 4>> \in ConnectAnswers(r)
           /\ Asked(r).type = CONNECT /\ Opening(r).ok /\ Authenticated(Opening(r).val) =>
                <<"connack", 0>> \in ConnectAnswers(r) /\ <<"connack", 3>> \in ConnectAnswers(r)
<1>1. CASE r.kind = "connect"
  <2>1. IsConnect(r) /\ Asked(r).type = CONNECT /\ Opening(r) = DecodeConnect(BuildConnectBody(r))
    BY <1>1, AskedOf DEF Opening
  <2>2. r.flags \in Int /\ 0 <= r.flags /\ r.flags <= 255
    BY <2>1, ByteIsInt DEF IsConnect
  <2>3. (Bit(r.flags, 1) <=> r.flags % 2 # 0) /\ (HasUsername(r.flags) <=> r.flags >= 128)
    BY <2>2 DEF Bit, HasUsername
  <2>4. CASE Bit(r.flags, 1)
    <3>1. Opening(r) = Malformed
      BY <2>1, <2>4, ConnectOf
    <3>2. ~Opening(r).ok /\ ~ConnectValid(r)
      BY <2>3, <2>4, <3>1 DEF Malformed, ConnectValid
    <3> QED
      BY <3>2 DEF ConnectAnswers, Nothing
  <2>5. CASE ~Bit(r.flags, 1)
    <3>1. /\ Opening(r).ok /\ Opening(r).val.flags = r.flags
          /\ Opening(r).val.payload.username = IfThere(HasUsername(r.flags), r.username)
          /\ Opening(r).val.payload.password = IfThere(HasPassword(r.flags), r.password)
      BY <2>1, <2>5, ConnectOf DEF Decoded
    <3>2. ConnectValid(r)
      BY <1>1, <2>3, <2>5 DEF ConnectValid
    <3>3. Authenticated(Opening(r).val) <=> Credentialed(r)
      BY <2>3, <3>1, SessionAssumption
         DEF Authenticated, Authenticate, Credentialed, IfThere, HasPassword
    <3> QED
      BY <2>1, <3>1, <3>2, <3>3 DEF ConnectAnswers
  <2> QED
    BY <2>4, <2>5
<1>2. CASE r.kind # "connect"
  <2>1. <<"nothing">> \in ConnectAnswers(r)
    BY <1>2 DEF ConnectAnswers, ConnectValid, Nothing
  <2>2. Asked(r).type = CONNECT => ~Opening(r).ok
    BY <1>2, AskedOf, RawAsked DEF CONNECT, PUBLISH, SUBSCRIBE, PINGREQ, DISCONNECT
  <2> QED
    BY <2>1, <2>2
<1> QED
  BY <1>1, <1>2

\* handlePublish: the PUBACK of a PUBLISH with QoS 1, and nothing else.
LEMMA PublishAnswered ==
    ASSUME RawAsksNothing, NEW r \in Requests, Asked(r).kind = "packet",
           Asked(r).type = PUBLISH
    PROVE  /\ ~Message(r).ok => <<"nothing">> \in RequestAnswers(r)
           /\ Message(r).ok => ClientReads(Puback(Message(r).val)) \in RequestAnswers(r)
           /\ Message(r).ok /\ phase = "send" /\ Expired => <<"nothing">> \in RequestAnswers(r)
<1>1. CASE r.kind = "publish"
  <2>1. IsPublish(r) /\ Message(r) = DecodePublish((48 + 2 * r.qos) % 16, PublishBody(r))
    BY <1>1, AskedOf DEF Message
  <2>2. CASE ~PublishValid(r)
    <3>1. Message(r) = Malformed
      BY <2>1, <2>2, PublishOf
    <3>2. ~Message(r).ok
      BY <3>1 DEF Malformed
    <3> QED
      BY <1>1, <2>2, <3>2 DEF RequestAnswers, Nothing
  <2>3. CASE PublishValid(r)
    <3>1. /\ Message(r).ok /\ Message(r).val.qos = r.qos
          /\ Message(r).val.id = IF r.qos > 0 THEN r.id ELSE 0
      <4>1. Message(r) =
              Decoded([qos |-> r.qos, topic |-> r.topic,
                       id |-> IF r.qos > 0 THEN r.id ELSE 0, payload |-> r.payload], << >>)
        BY <2>1, <2>3, PublishOf
      <4> QED
        BY <4>1 DEF Decoded
    <3>2. CASE r.qos = 1
      <4>1. Puback(Message(r).val) = EncodePuback(r.id)
        BY <3>1, <3>2 DEF Puback
      <4>2. ClientReads(EncodePuback(r.id)) = <<"puback", r.id>>
        BY <2>1, PubackRead DEF IsPublish
      <4> QED
        BY <1>1, <2>3, <3>1, <3>2, <4>1, <4>2 DEF RequestAnswers, Nothing
    <3>3. CASE r.qos # 1
      <4>1. Puback(Message(r).val) = << >>
        BY <3>1, <3>3 DEF Puback
      <4> QED
        BY <1>1, <3>1, <3>3, <4>1, NothingRead DEF RequestAnswers, Nothing
    <3> QED
      BY <3>2, <3>3
  <2> QED
    BY <2>2, <2>3
<1>2. CASE r.kind # "publish"
  <2>1. r.kind = "raw"
    BY <1>2, AskedOf DEF CONNECT, PUBLISH, SUBSCRIBE, PINGREQ, DISCONNECT
  <2>2. <<"nothing">> \in RequestAnswers(r)
    BY <2>1 DEF RequestAnswers, Nothing
  <2>3. Message(r).ok => Puback(Message(r).val) = << >>
    BY <2>1, RawAsked DEF Puback
  <2> QED
    BY <2>2, <2>3, NothingRead
<1> QED
  BY <1>1, <1>2

GrantedCodes(subs) ==
    [i \in DOMAIN subs |-> IF subs[i].topic \in Topics THEN subs[i].qos ELSE 128]
Suback(m) == IF ~m.ok THEN << >> ELSE EncodeSuback(m.val.id, GrantedCodes(m.val.subs))

\* handleSubscribe: one code for each filter.
LEMMA SubscribeAnswered ==
    ASSUME RawAsksNothing, NEW r \in Requests, Asked(r).kind = "packet",
           Asked(r).type = SUBSCRIBE
    PROVE  ClientReads(Suback(Filtering(r))) \in RequestAnswers(r)
<1>1. CASE r.kind = "subscribe"
  <2>1. /\ IsSubscribe(r) /\ Filtering(r) = DecodeSubscribe(SubscribeBody(r))
        /\ Len(SubscribeBody(r)) < MaxLength
    BY <1>1, AskedOf DEF Filtering
  <2>2. CASE ~SubscribeValid(r)
    <3>1. Filtering(r) = Malformed
      BY <2>1, <2>2, SubscribeOf
    <3>2. Suback(Filtering(r)) = << >>
      BY <3>1 DEF Malformed, Suback
    <3> QED
      BY <1>1, <2>2, <3>2, NothingRead DEF RequestAnswers, Nothing
  <2>3. CASE SubscribeValid(r)
    <3> DEFINE codes == GrantedCodes(r.subs)
    <3>1. Filtering(r).ok /\ Filtering(r).val.id = r.id /\ Filtering(r).val.subs = r.subs
      BY <2>1, <2>3, SubscribeOf DEF Decoded
    <3>2. Suback(Filtering(r)) = EncodeSuback(r.id, codes)
      BY <3>1 DEF Suback
    <3>3. IsUint16(r.id) /\ r.subs \in Seq(Sub)
      BY <2>1 DEF IsSubscribe, Sub
    <3>4. codes \in Seq(Byte) /\ Len(codes) = Len(r.subs)
      <4> DEFINE n == Len(r.subs)
      <4>1. n \in Nat /\ DOMAIN r.subs = 1..n
        BY <3>3
      <4>2. ASSUME NEW i \in 1..n
            PROVE  (IF r.subs[i].topic \in Topics THEN r.subs[i].qos ELSE 128) \in Byte
        <5>1. r.subs[i] \in Sub
          BY <3>3, <4>2, ElementOfSeq
        <5>2. r.subs[i].qos \in Byte
          BY <5>1 DEF Sub
        <5>3. 128 \in Byte
          BY DEF Byte
        <5> QED
          BY <5>2, <5>3
      <4>3. codes \in [1..n -> Byte]
        BY <4>1, <4>2 DEF GrantedCodes
      <4> HIDE DEF codes, n
      <4>4. codes \in Seq(Byte) /\ Len(codes) = n
        BY <4>1, <4>3, MakeSeq
      <4> QED
        BY <4>4 DEF n
    <3>5. 2 + Len(codes) < MaxLength
      <4>1. Len(SubscribeBody(r)) >= 2 + Len(r.subs) /\ Len(r.subs) \in Nat
        <5>1. Len(SubscribeBody(r)) >= 2 + Len(r.subs)
          BY <2>1, SubscribeOf
        <5>2. Len(r.subs) \in Nat
          BY <3>3
        <5> QED
          BY <5>1, <5>2
      <4>2. SubscribeBody(r) \in Seq(Byte)
        BY <2>1, SubscribeBodyBytes
      <4>3. Len(SubscribeBody(r)) \in Nat
        BY <4>2
      <4>4. MaxLength \in Nat
        BY DEF MaxLength
      <4> HIDE DEF codes
      <4> QED
        BY <2>1, <3>4, <4>1, <4>3, <4>4
    <3> HIDE DEF codes
    <3>6. ClientReads(EncodeSuback(r.id, codes)) = <<"suback", r.id, codes>>
      BY <3>3, <3>4, <3>5, SubackRead
    <3>7. <<"suback", r.id, codes>> \in RequestAnswers(r)
      BY <1>1, <2>3 DEF RequestAnswers, codes, GrantedCodes
    <3> QED
      BY <3>2, <3>6, <3>7
  <2> QED
    BY <2>2, <2>3
<1>2. CASE r.kind # "subscribe"
  <2>1. r.kind = "raw"
    BY <1>2, AskedOf DEF CONNECT, PUBLISH, SUBSCRIBE, PINGREQ, DISCONNECT
  <2>2. <<"nothing">> \in RequestAnswers(r)
    BY <2>1 DEF RequestAnswers, Nothing
  <2>3. Suback(Filtering(r)) = << >>
    BY <2>1, RawAsked DEF Suback
  <2> QED
    BY <2>2, <2>3, NothingRead
<1> QED
  BY <1>1, <1>2

\* A PINGREQ has its PINGRESP; all other packets have no answer.
LEMMA OthersAnswered ==
    ASSUME RawAsksNothing, NEW r \in Requests, Asked(r).kind = "packet"
    PROVE  /\ Asked(r).type = PINGREQ => <<"pingresp">> \in RequestAnswers(r)
           /\ Asked(r).type \notin {PUBLISH, SUBSCRIBE, PINGREQ} =>
                <<"nothing">> \in RequestAnswers(r)
<1>1. Asked(r).type = PINGREQ => r.kind = "pingreq"
  BY AskedOf, RawAsked DEF CONNECT, PUBLISH, SUBSCRIBE, PINGREQ, DISCONNECT
<1>2. Asked(r).type \notin {PUBLISH, SUBSCRIBE, PINGREQ} =>
        r.kind \in {"connect", "disconnect", "raw"}
  BY AskedOf
<1> QED
  BY <1>1, <1>2 DEF RequestAnswers, Nothing

-----------------------------------------------------------------------------
(* The stream                                                               *)

Pieces(s) == [i \in DOMAIN s |-> Bytes(s[i])]
Whole(s) == FlattenSeq(Pieces(s))

\* The bytes of the requests are chunks,
LEMMA PiecesChunks ==
    ASSUME NEW s \in Seq(Requests)
    PROVE  /\ Pieces(s) \in Chunks /\ Len(Pieces(s)) = Len(s)
           /\ \A i \in 1..Len(s) : Pieces(s)[i] = Bytes(s[i])
<1> DEFINE n == Len(s)
           V == Seq(Byte)
<1>1. n \in Nat /\ DOMAIN s = 1..n
  OBVIOUS
<1>2. ASSUME NEW i \in 1..n PROVE Bytes(s[i]) \in V
  BY RequestRead
<1> HIDE DEF V
<1>3. Pieces(s) \in [1..n -> V]
  BY <1>1, <1>2 DEF Pieces
<1>4. Pieces(s) \in Seq(V) /\ Len(Pieces(s)) = n
  BY <1>1, <1>3, MakeSeq
<1> QED
  BY <1>1, <1>4 DEF V, Chunks, Pieces

\* joined they are bytes,
LEMMA WholeBytes ==
    ASSUME NEW s \in Seq(Requests)
    PROVE  Whole(s) \in Seq(Byte)
  BY PiecesChunks, FlattenBytes DEF Whole

\* without a request there are none,
LEMMA WholeEmpty == Whole(<< >>) = << >>
<1>1. << >> \in Seq(Requests) /\ Len(<< >>) = 0
  OBVIOUS
<1>2. Pieces(<< >>) \in Chunks /\ Len(Pieces(<< >>)) = 0
  BY <1>1, PiecesChunks
<1>3. Pieces(<< >>) = << >>
  BY <1>2 DEF Chunks
<1> QED
  BY <1>3, FlattenEmpty DEF Whole

\* a new request adds its bytes at the end,
LEMMA WholeAppend ==
    ASSUME NEW s \in Seq(Requests), NEW r \in Requests
    PROVE  Whole(Append(s, r)) = Whole(s) \o Bytes(r)
<1> DEFINE s2 == Append(s, r)
           a == Pieces(s2)
           b == Append(Pieces(s), Bytes(r))
<1>1. /\ s2 \in Seq(Requests) /\ Len(s2) = Len(s) + 1 /\ s2[Len(s) + 1] = r /\ Len(s) \in Nat
      /\ \A i \in 1..Len(s) : s2[i] = s[i]
  BY AppendProperties
<1> HIDE DEF s2
<1>2. Bytes(r) \in Seq(Byte)
  BY RequestRead
<1>3. /\ Pieces(s) \in Chunks /\ Len(Pieces(s)) = Len(s)
      /\ \A i \in 1..Len(s) : Pieces(s)[i] = Bytes(s[i])
  BY PiecesChunks
<1>4. /\ a \in Chunks /\ Len(a) = Len(s) + 1 /\ \A i \in 1..(Len(s) + 1) : a[i] = Bytes(s2[i])
  BY <1>1, PiecesChunks
<1>5. /\ b \in Chunks /\ Len(b) = Len(s) + 1 /\ b[Len(s) + 1] = Bytes(r)
      /\ \A i \in 1..Len(s) : b[i] = Pieces(s)[i]
  BY <1>2, <1>3, AppendProperties DEF Chunks
<1> HIDE DEF a, b
<1>6. \A i \in 1..Len(a) : a[i] = b[i]
  BY <1>1, <1>3, <1>4, <1>5
<1>7. a = b
  BY <1>4, <1>5, <1>6, SeqEqual DEF Chunks
<1>8. FlattenSeq(b) = FlattenSeq(Pieces(s)) \o Bytes(r)
  BY <1>2, <1>3, FlattenAppend DEF b
<1> QED
  BY <1>7, <1>8 DEF Whole, a, s2

\* and the oldest one has its bytes at the beginning.
LEMMA WholeFront ==
    ASSUME NEW s \in Seq(Requests), s # << >>
    PROVE  Whole(s) = Bytes(Head(s)) \o Whole(Tail(s))
<1> DEFINE e == Bytes(Head(s))
           s2 == Tail(s)
           a == Pieces(s)
           b == <<e>> \o Pieces(s2)
<1>1. /\ Head(s) \in Requests /\ s2 \in Seq(Requests) /\ Len(s2) = Len(s) - 1 /\ Len(s) \in Nat \ {0}
      /\ \A i \in 1..Len(s2) : s2[i] = s[i + 1]
  BY HeadTailProperties
<1> HIDE DEF s2
<1>2. e \in Seq(Byte) /\ e = Bytes(s[1])
  BY <1>1, RequestRead
<1>3. /\ a \in Chunks /\ Len(a) = Len(s) /\ \A i \in 1..Len(s) : a[i] = Bytes(s[i])
  BY PiecesChunks, SMTT(30)
<1>4. /\ Pieces(s2) \in Chunks /\ Len(Pieces(s2)) = Len(s2)
      /\ \A i \in 1..Len(s2) : Pieces(s2)[i] = Bytes(s2[i])
  BY <1>1, PiecesChunks
<1> HIDE DEF e, s2, a
<1>5. /\ b \in Chunks /\ Len(b) = 1 + Len(s2) /\ b[1] = e
      /\ \A i \in 1..Len(s2) : b[i + 1] = Pieces(s2)[i]
  <2>1. <<e>> \in Chunks /\ Len(<<e>>) = 1 /\ <<e>>[1] = e
    BY <1>2 DEF Chunks
  <2> QED
    BY <1>4, <2>1, ConcatProperties DEF Chunks
<1> HIDE DEF b
<1>6. \A i \in 1..Len(a) : a[i] = b[i]
  <2> SUFFICES ASSUME NEW i \in 1..Len(a) PROVE a[i] = b[i]
    OBVIOUS
  <2>1. CASE i = 1
    BY <1>1, <1>2, <1>3, <1>5, <2>1
  <2>2. CASE i # 1
    <3>1. i - 1 \in 1..Len(s2) /\ (i - 1) + 1 = i /\ i \in 1..Len(s)
      BY <1>1, <1>3, <2>2
    <3>2. b[i] = Pieces(s2)[i - 1] /\ Pieces(s2)[i - 1] = Bytes(s2[i - 1]) /\ s2[i - 1] = s[i]
      BY <1>1, <1>4, <1>5, <3>1
    <3> QED
      BY <1>3, <3>1, <3>2
  <2> QED
    BY <2>1, <2>2
<1>7. a = b
  <2>1. Len(a) = Len(b)
    BY <1>1, <1>3, <1>5
  <2> QED
    BY <1>3, <1>5, <1>6, <2>1, SeqEqual DEF Chunks
<1>8. FlattenSeq(b) = e \o FlattenSeq(Pieces(s2))
  BY <1>2, <1>4, FlattenFront DEF b
<1> QED
  BY <1>7, <1>8 DEF Whole, a, e, s2

\* What follows the whole packets in the stream: nothing, or a packet without
\* its last byte.
Partial(x) == IF cut THEN \E r \in Requests : x = Front(Bytes(r)) ELSE x = << >>

StreamInv ==
    /\ pending \in Seq(Requests)
    /\ phase = "send" => pending # << >>
    /\ Open => \E x \in Seq(Byte) : Partial(x) /\ stream = Whole(Unread) \o x

\* A packet is its bytes but the last, and the last.
LEMMA FrontIsPrefix ==
    ASSUME NEW s \in Seq(Byte), s # << >>
    PROVE  \E z \in Seq(Byte) : z # << >> /\ s = Front(s) \o z /\ Front(s) \in Seq(Byte)
<1> DEFINE n == Len(s) - 1
           z == From(s, n + 1)
<1>1. n \in 0..Len(s)
  OBVIOUS
<1>2. /\ SubSeq(s, 1, n) \in Seq(Byte) /\ s = SubSeq(s, 1, n) \o z
      /\ z \in Seq(Byte) /\ Len(z) = Len(s) - n
  BY <1>1, Split
<1>3. Front(s) = SubSeq(s, 1, n)
  BY DEF Front
<1>4. z # << >>
  <2> HIDE DEF z, n
  <2>1. Len(z) > 0 /\ Len(<< >>) = 0
    BY <1>2 DEF n
  <2> QED
    BY <2>1
<1> QED
  BY <1>2, <1>3, <1>4

\* ReadPacket never takes a packet that is not complete.
LEMMA PartialNoPacket ==
    ASSUME NEW x \in Seq(Byte), Partial(x)
    PROVE  ReadPacket(x).kind # "packet"
<1>1. CASE x = << >>
  BY <1>1 DEF ReadPacket
<1>2. ASSUME NEW r \in Requests, x = Front(Bytes(r)), ReadPacket(x).kind = "packet" PROVE FALSE
  <2> DEFINE p == ReadPacket(Bytes(r))
  <2>1. /\ Bytes(r) \in Seq(Byte) /\ Bytes(r) # << >>
        /\ p.kind = "error" \/ (p.kind = "packet" /\ p.rest = << >>)
    BY RequestRead
  <2>2. PICK z \in Seq(Byte) : z # << >> /\ Bytes(r) = x \o z
    BY <1>2, <2>1, FrontIsPrefix
  <2>3. p.kind = "packet" /\ p.rest = ReadPacket(x).rest \o z /\ ReadPacket(x).rest \in Seq(Byte)
    <3> DEFINE q == ReadPacket(x \o z)
    <3>1. q.kind = "packet" /\ q.rest = ReadPacket(x).rest \o z /\ ReadPacket(x).rest \in Seq(Byte)
      BY <1>2, PacketMore
    <3> QED
      BY <2>2, <3>1
  <2>4. ReadPacket(x).rest \o z = << >>
    <3>1. "packet" # "error"
      OBVIOUS
    <3> QED
      BY <2>1, <2>3, <3>1
  <2> QED
    BY <2>2, <2>3, <2>4, ConcatEqualIffEmpty
<1> QED
  BY <1>1, <1>2 DEF Partial

\* What ReadPacket takes is the oldest request, and all of it.
LEMMA OldestRead ==
    ASSUME StreamInv, Open, phase # "send", Arrived.kind = "packet"
    PROVE  LET p == ReadPacket(Bytes(Head(pending))) IN
           /\ pending # << >> /\ p.kind = "packet"
           /\ Arrived.type = p.type /\ Arrived.flags = p.flags /\ Arrived.data = p.data
           /\ \E x \in Seq(Byte) : Partial(x) /\ Arrived.rest = Whole(Tail(pending)) \o x
<1>1. PICK x \in Seq(Byte) : Partial(x) /\ stream = Whole(pending) \o x
  BY DEF StreamInv, Unread
<1>2. pending # << >>
  <2> SUFFICES ASSUME pending = << >> PROVE FALSE
    OBVIOUS
  <2>1. stream = x
    BY <1>1, WholeEmpty, ConcatEmptySeq
  <2> QED
    BY <1>1, <2>1, PartialNoPacket DEF Arrived
<1> DEFINE b == Bytes(Head(pending))
           w == Whole(Tail(pending))
<1>3. Head(pending) \in Requests /\ Tail(pending) \in Seq(Requests)
  BY <1>2, HeadTailProperties DEF StreamInv
<1>4. /\ b \in Seq(Byte)
      /\ ReadPacket(b).kind = "error" \/ (ReadPacket(b).kind = "packet" /\ ReadPacket(b).rest = << >>)
  BY <1>3, RequestRead
<1>5. w \in Seq(Byte)
  BY <1>3, WholeBytes
<1>6. Whole(pending) = b \o w
  BY <1>2, WholeFront DEF StreamInv
<1> HIDE DEF b, w
<1>7. stream = b \o (w \o x) /\ w \o x \in Seq(Byte)
  BY <1>1, <1>4, <1>5, <1>6, Assoc
<1>8. ReadPacket(b).kind = "packet" /\ ReadPacket(b).rest = << >>
  <2>1. ReadPacket(b).kind # "error"
    <3> SUFFICES ASSUME ReadPacket(b).kind = "error" PROVE FALSE
      OBVIOUS
    <3>1. Arrived.kind = "error"
      BY <1>4, <1>7, ErrorMore DEF Arrived
    <3> QED
      BY <3>1
  <2> QED
    BY <1>4, <2>1
<1>9. /\ Arrived.rest = << >> \o (w \o x)
      /\ Arrived.type = ReadPacket(b).type /\ Arrived.flags = ReadPacket(b).flags
      /\ Arrived.data = ReadPacket(b).data
  <2> DEFINE y == w \o x
             q == ReadPacket(b \o y)
  <2>1. y \in Seq(Byte) /\ Arrived = q
    BY <1>7 DEF Arrived
  <2> HIDE DEF y
  <2>2. /\ q.rest = ReadPacket(b).rest \o y /\ q.type = ReadPacket(b).type
        /\ q.flags = ReadPacket(b).flags /\ q.data = ReadPacket(b).data
    BY <1>4, <1>8, <2>1, PacketMore
  <2> QED
    BY <1>8, <2>1, <2>2 DEF y
<1>10. << >> \o (w \o x) = w \o x
  BY <1>7, ConcatEmptySeq
<1> QED
  BY <1>1, <1>2, <1>8, <1>9, <1>10 DEF b, w

\* Nothing is written yet.
LEMMA StreamInit == Init => StreamInv
<1> SUFFICES ASSUME Init PROVE StreamInv
  OBVIOUS
<1>1. pending = << >> /\ stream = << >> /\ cut = FALSE /\ phase = "connect"
  BY DEF Init
<1>2. Unread = << >> /\ << >> \in Seq(Byte) /\ << >> \in Seq(Requests)
  BY <1>1 DEF Unread
<1>3. << >> \o << >> = << >>
  OBVIOUS
<1> QED
  BY <1>1, <1>2, <1>3, WholeEmpty DEF StreamInv, Partial

\* Writing adds to the end of the stream, reading takes one request from it.
LEMMA StreamNext == StreamInv /\ [Next]_vars => StreamInv'
<1> SUFFICES ASSUME StreamInv, [Next]_vars PROVE StreamInv'
  OBVIOUS
<1>0. pending \in Seq(Requests) /\ (phase = "send" => pending # << >>)
  BY DEF StreamInv
<1>p. phase # "send" => Unread = pending
  BY DEF Unread
\* A packet is taken from the stream and leaves it in step.
<1>c. ASSUME Consume, phase \in {"connect", "read"}
      PROVE  /\ pending # << >> /\ Tail(pending) \in Seq(Requests)
             /\ \E x \in Seq(Byte) : Partial(x)' /\ stream' = Whole(Tail(pending)) \o x
  <2>1. Open /\ phase # "send" /\ Arrived.kind = "packet"
    BY <1>c DEF Open, Consume
  <2>2. pending # << >> /\ \E x \in Seq(Byte) : Partial(x) /\ Arrived.rest = Whole(Tail(pending)) \o x
    BY <2>1, OldestRead
  <2>3. Tail(pending) \in Seq(Requests)
    BY <1>0, <2>2
  <2>4. stream' = Arrived.rest /\ cut' = cut
    BY <1>c DEF Consume
  <2>5. ASSUME NEW x PROVE Partial(x)' <=> Partial(x)
    BY <2>4 DEF Partial
  <2> QED
    BY <2>2, <2>3, <2>4, <2>5
\* It has been dealt with.
<1>d. ASSUME Consume, phase \in {"connect", "read"}, Dealt, phase' # "send"
      PROVE  StreamInv'
  <2>1. Unread' = Tail(pending) /\ pending' = Tail(pending)
    BY <1>d DEF Unread, Dealt
  <2>2. /\ Tail(pending) \in Seq(Requests)
        /\ \E x \in Seq(Byte) : Partial(x)' /\ stream' = Whole(Tail(pending)) \o x
    BY <1>c, <1>d
  <2>3. \E x \in Seq(Byte) : Partial(x)' /\ stream' = Whole(Unread') \o x
    BY <2>1, <2>2
  <2> QED
    BY <1>d, <2>1, <2>2, <2>3 DEF StreamInv, Whole, Pieces
<1>1. ASSUME NEW r \in Requests, Write(r) PROVE StreamInv'
  <2>1. /\ Open /\ ~cut /\ pending' = Append(pending, r) /\ stream' = stream \o Bytes(r)
        /\ phase' = phase /\ cut' = cut
    BY <1>1 DEF Write
  <2>2. pending' \in Seq(Requests) /\ pending' # << >>
    BY <1>0, <2>1, AppendProperties
  <2>3. Unread \in Seq(Requests) /\ Unread' = Append(Unread, r)
    <3>1. CASE phase = "send"
      <4>1. Tail(Append(pending, r)) = Append(Tail(pending), r) /\ Tail(pending) \in Seq(Requests)
        BY <1>0, <3>1, HeadTailAppend, HeadTailProperties
      <4> QED
        BY <2>1, <3>1, <4>1 DEF Unread
    <3>2. CASE phase # "send"
      BY <1>0, <2>1, <3>2 DEF Unread
    <3> QED
      BY <3>1, <3>2
  <2>4. stream = Whole(Unread) /\ Whole(Unread) \in Seq(Byte)
    <3>1. PICK x \in Seq(Byte) : Partial(x) /\ stream = Whole(Unread) \o x
      BY <2>1 DEF StreamInv
    <3>2. x = << >>
      BY <2>1, <3>1 DEF Partial
    <3>3. Whole(Unread) \in Seq(Byte)
      BY <2>3, WholeBytes
    <3> QED
      BY <3>1, <3>2, <3>3, ConcatEmptySeq
  <2>5. stream' = Whole(Append(Unread, r))
    BY <2>1, <2>3, <2>4, WholeAppend
  <2>6. Whole(Append(Unread, r)) \in Seq(Byte)
    BY <2>3, WholeBytes, AppendProperties
  <2>7. << >> \in Seq(Byte) /\ stream' = Whole(Unread') \o << >>
    BY <2>3, <2>5, <2>6, ConcatEmptySeq
  <2>8. Partial(<< >>)'
    BY <2>1 DEF Partial
  <2> QED
    BY <2>2, <2>7, <2>8 DEF StreamInv, Whole, Pieces
<1>2. ASSUME NEW r \in Requests, WritePart(r) PROVE StreamInv'
  <2>1. /\ Open /\ ~cut /\ pending' = pending /\ stream' = stream \o Front(Bytes(r))
        /\ phase' = phase /\ cut'
    BY <1>2 DEF WritePart
  <2>2. Unread' = Unread /\ Unread \in Seq(Requests)
    <3>1. pending # << >> => Tail(pending) \in Seq(Requests)
      BY <1>0
    <3> QED
      BY <1>0, <2>1, <3>1 DEF Unread
  <2>3. stream = Whole(Unread)
    <3>1. PICK x \in Seq(Byte) : Partial(x) /\ stream = Whole(Unread) \o x
      BY <2>1 DEF StreamInv
    <3>2. x = << >>
      BY <2>1, <3>1 DEF Partial
    <3>3. Whole(Unread) \in Seq(Byte)
      BY <2>2, WholeBytes
    <3> QED
      BY <3>1, <3>2, <3>3, ConcatEmptySeq
  <2>4. Front(Bytes(r)) \in Seq(Byte)
    BY RequestRead, FrontIsPrefix
  <2>5. Partial(Front(Bytes(r)))'
    BY <2>1 DEF Partial
  <2>6. stream' = Whole(Unread') \o Front(Bytes(r))
    BY <2>1, <2>2, <2>3
  <2> QED
    BY <1>0, <2>1, <2>4, <2>5, <2>6 DEF StreamInv, Whole, Pieces
<1>3. ASSUME NEW room \in BOOLEAN, FirstPacket(room) PROVE StreamInv'
  <2>1. Consume /\ phase \in {"connect", "read"} /\ Dealt
    BY <1>3 DEF FirstPacket
  <2>2. phase' \in {"left", "read"}
    BY <1>3 DEF FirstPacket, End
  <2> QED
    BY <1>d, <2>1, <2>2
<1>4. ASSUME \/ \E owned \in BOOLEAN : PublishRefused(owned)
             \/ Subscribe \/ Pingreq \/ Unexpected \/ Disconnect
      PROVE  StreamInv'
  <2>1. Consume /\ phase \in {"connect", "read"} /\ Dealt
    BY <1>4 DEF PublishRefused, Subscribe, Pingreq, Unexpected, Disconnect, Receives, Continue
  <2>2. phase' \in {"left", "read"}
    BY <1>4 DEF PublishRefused, Subscribe, Pingreq, Unexpected, Disconnect, Continue, End
  <2> QED
    BY <1>d, <2>1, <2>2
<1>5. CASE PublishClaimed
  <2>1. Consume /\ phase \in {"connect", "read"} /\ phase' = "send" /\ pending' = pending
    BY <1>5 DEF PublishClaimed, Receives
  <2>2. /\ pending # << >>
        /\ \E x \in Seq(Byte) : Partial(x)' /\ stream' = Whole(Tail(pending)) \o x
    BY <1>c, <2>1
  <2>3. Unread' = Tail(pending)
    BY <2>1 DEF Unread
  <2>4. \E x \in Seq(Byte) : Partial(x)' /\ stream' = Whole(Unread') \o x
    BY <2>2, <2>3
  <2> QED
    BY <1>0, <2>1, <2>2, <2>4 DEF StreamInv, Whole, Pieces
<1>6. CASE PublishSent
  <2>1. /\ phase = "send" /\ phase' = "read" /\ pending' = Tail(pending)
        /\ stream' = stream /\ cut' = cut
    BY <1>6 DEF PublishSent, Continue, Dealt
  <2>2. Unread' = Unread /\ Open /\ Tail(pending) \in Seq(Requests)
    BY <1>0, <2>1 DEF Unread, Open
  <2>3. ASSUME NEW x PROVE Partial(x)' <=> Partial(x)
    BY <2>1 DEF Partial
  <2>4. \E x \in Seq(Byte) : Partial(x)' /\ stream' = Whole(Unread') \o x
    BY <2>1, <2>2, <2>3 DEF StreamInv
  <2> QED
    BY <2>1, <2>2, <2>4 DEF StreamInv, Whole, Pieces
<1>7. CASE ReadFails \/ ConnectExpires \/ Expire
  <2>1. phase' \in {"left", "dropped"} /\ pending' = pending
    BY <1>7 DEF ReadFails, ConnectExpires, Expire, End
  <2> QED
    BY <1>0, <2>1 DEF StreamInv, Open
<1>8. CASE Tick \/ UNCHANGED vars
  <2>1. pending' = pending /\ phase' = phase /\ stream' = stream /\ cut' = cut
    BY <1>8 DEF Tick, vars
  <2> QED
    BY <2>1 DEF StreamInv, Open, Partial, Unread
<1> QED
  BY <1>1, <1>2, <1>3, <1>4, <1>5, <1>6, <1>7, <1>8 DEF Next

-----------------------------------------------------------------------------
(* Each request its answer                                                  *)

\* The PUBLISH that waits for msgChan is the one the oldest request asked for.
CurrentInv ==
    phase = "send" =>
        /\ Asked(Head(pending)).kind = "packet" /\ Asked(Head(pending)).type = PUBLISH
        /\ Message(Head(pending)).ok /\ current = Message(Head(pending)).val

\* Consume takes the oldest request.
LEMMA ConsumeAsked ==
    ASSUME StreamInv, phase \in {"connect", "read"}, Consume
    PROVE  LET r == Head(pending) IN
           /\ pending # << >> /\ r \in Requests /\ Asked(r).kind = "packet"
           /\ Arrived.type = Asked(r).type /\ Arrived.flags = Asked(r).flags
           /\ Arrived.data = Asked(r).data
<1>1. Open /\ phase # "send" /\ Arrived.kind = "packet"
  BY DEF Open, Consume
<1>2. /\ pending # << >> /\ Asked(Head(pending)).kind = "packet"
      /\ Arrived.type = Asked(Head(pending)).type /\ Arrived.flags = Asked(Head(pending)).flags
      /\ Arrived.data = Asked(Head(pending)).data
  BY <1>1, OldestRead DEF Asked
<1>3. Head(pending) \in Requests
  BY <1>2, HeadTailProperties DEF StreamInv
<1> QED
  BY <1>2, <1>3

\* No PUBLISH waits at first.
LEMMA CurrentInit == Init => CurrentInv
  BY DEF Init, CurrentInv

\* Only PublishClaimed begins to wait, and nothing but PublishSent takes the
\* request while it waits.
LEMMA CurrentNext == StreamInv /\ CurrentInv /\ [Next]_vars => CurrentInv'
<1> SUFFICES ASSUME StreamInv, CurrentInv, [Next]_vars, phase' = "send"
             PROVE  CurrentInv'
  BY DEF CurrentInv
<1>0. ASSUME Head(pending') = Head(pending), phase = "send", current' = current
      PROVE  CurrentInv'
  BY <1>0 DEF CurrentInv, Asked, Message
<1>1. ASSUME NEW r \in Requests, Write(r) PROVE CurrentInv'
  <2>1. phase = "send" /\ current' = current /\ pending' = Append(pending, r)
    BY <1>1 DEF Write
  <2>2. Head(Append(pending, r)) = Head(pending)
    BY <2>1, HeadTailAppend DEF StreamInv
  <2> QED
    BY <1>0, <2>1, <2>2
<1>2. ASSUME NEW r \in Requests, WritePart(r) PROVE CurrentInv'
  BY <1>0, <1>2 DEF WritePart
<1>3. ASSUME NEW room \in BOOLEAN, FirstPacket(room) PROVE FALSE
  BY <1>3 DEF FirstPacket, End
<1>4. ASSUME NEW owned \in BOOLEAN, PublishRefused(owned) PROVE FALSE
  BY <1>4 DEF PublishRefused, Continue
<1>5. ASSUME PublishClaimed PROVE CurrentInv'
  <2>1. phase = "read" /\ Consume /\ Arrived.type = PUBLISH /\ pending' = pending
    BY <1>5 DEF PublishClaimed, Receives
  <2>2. /\ Asked(Head(pending)).kind = "packet" /\ Asked(Head(pending)).type = PUBLISH
        /\ DecodePublish(Arrived.flags, Arrived.data) = Message(Head(pending))
    BY <2>1, ConsumeAsked DEF Message
  <2>3. /\ DecodePublish(Arrived.flags, Arrived.data).ok
        /\ current' = DecodePublish(Arrived.flags, Arrived.data).val
    BY <1>5 DEF PublishClaimed
  <2> QED
    BY <2>1, <2>2, <2>3 DEF CurrentInv, Asked, Message
<1>6. ASSUME PublishSent \/ Subscribe \/ Pingreq \/ Unexpected PROVE FALSE
  BY <1>6 DEF PublishSent, Subscribe, Pingreq, Unexpected, Continue
<1>7. ASSUME Disconnect \/ ReadFails \/ ConnectExpires \/ Expire PROVE FALSE
  BY <1>7 DEF Disconnect, ReadFails, ConnectExpires, Expire, End
<1>8. ASSUME Tick PROVE CurrentInv'
  BY <1>0, <1>8 DEF Tick
<1>9. ASSUME UNCHANGED vars PROVE CurrentInv'
  BY <1>0, <1>9 DEF vars
<1> QED
  BY <1>1, <1>2, <1>3, <1>4, <1>5, <1>6, <1>7, <1>8, <1>9 DEF Next

\* The step that deals with a request writes its answer.
Answered ==
    Len(pending') < Len(pending) =>
        ClientReads(reply') \in IF phase = "connect" THEN ConnectAnswers(Head(pending))
                                                   ELSE RequestAnswers(Head(pending))

\* One step per action that deals with a request; the others leave pending alone
\* or make it longer.
LEMMA AnswersStep ==
    RawAsksNothing /\ StreamInv /\ CurrentInv /\ [Next]_vars => Answered
<1> SUFFICES ASSUME RawAsksNothing, StreamInv, CurrentInv, [Next]_vars,
                    Len(pending') < Len(pending)
             PROVE  ClientReads(reply') \in
                      IF phase = "connect" THEN ConnectAnswers(Head(pending))
                                           ELSE RequestAnswers(Head(pending))
  BY DEF Answered
<1> DEFINE r == Head(pending)
<1>p. pending \in Seq(Requests) /\ Len(pending) \in Nat
  BY DEF StreamInv
<1>u. ASSUME pending' = pending PROVE FALSE
  BY <1>p, <1>u
<1>c. ASSUME phase \in {"connect", "read"}, Consume
      PROVE  /\ r \in Requests /\ Asked(r).kind = "packet"
             /\ Arrived.type = Asked(r).type
             /\ DecodeConnect(Arrived.data) = Opening(r)
             /\ DecodePublish(Arrived.flags, Arrived.data) = Message(r)
             /\ DecodeSubscribe(Arrived.data) = Filtering(r)
  BY <1>c, ConsumeAsked DEF Opening, Message, Filtering
<1> HIDE DEF r
<1>1. ASSUME NEW q \in Requests, Write(q) PROVE FALSE
  <2>1. pending' = Append(pending, q)
    BY <1>1 DEF Write
  <2> QED
    BY <1>p, <1>1, <2>1, AppendProperties
<1>2. ASSUME NEW q \in Requests, WritePart(q) PROVE FALSE
  BY <1>u, <1>2 DEF WritePart
<1>3. ASSUME NEW room \in BOOLEAN, FirstPacket(room)
      PROVE  phase = "connect" /\ ClientReads(reply') \in ConnectAnswers(r)
  <2>1. phase = "connect" /\ Consume
    BY <1>3 DEF FirstPacket
  <2>2. /\ r \in Requests /\ Asked(r).kind = "packet" /\ Arrived.type = Asked(r).type
        /\ DecodeConnect(Arrived.data) = Opening(r)
    BY <1>c, <2>1
  <2>3. \/ (Asked(r).type # CONNECT \/ ~Opening(r).ok) /\ reply' = << >>
        \/ Asked(r).type = CONNECT /\ Opening(r).ok /\ ~Authenticated(Opening(r).val)
           /\ reply' = EncodeConnack(4)
        \/ Asked(r).type = CONNECT /\ Opening(r).ok /\ Authenticated(Opening(r).val)
           /\ (reply' = EncodeConnack(3) \/ reply' = EncodeConnack(0))
    BY <1>3, <2>2 DEF FirstPacket
  <2>4. /\ ClientReads(EncodeConnack(0)) = <<"connack", 0>>
        /\ ClientReads(EncodeConnack(3)) = <<"connack", 3>>
        /\ ClientReads(EncodeConnack(4)) = <<"connack", 4>>
    <3>1. 0 \in Byte /\ 3 \in Byte /\ 4 \in Byte
      BY DEF Byte
    <3> QED
      BY <3>1, ConnackRead
  <2>5. /\ Asked(r).type # CONNECT \/ ~Opening(r).ok => <<"nothing">> \in ConnectAnswers(r)
        /\ Asked(r).type = CONNECT /\ Opening(r).ok /\ ~Authenticated(Opening(r).val) =>
             <<"connack", 4>> \in ConnectAnswers(r)
        /\ Asked(r).type = CONNECT /\ Opening(r).ok /\ Authenticated(Opening(r).val) =>
             <<"connack", 0>> \in ConnectAnswers(r) /\ <<"connack", 3>> \in ConnectAnswers(r)
    BY <2>2, ConnectAnswered
  <2> QED
    BY <2>1, <2>3, <2>4, <2>5, NothingRead
<1>4. ASSUME NEW owned \in BOOLEAN, PublishRefused(owned)
      PROVE  phase = "read" /\ ClientReads(reply') \in RequestAnswers(r)
  <2>1. phase = "read" /\ Consume /\ Arrived.type = PUBLISH
    BY <1>4 DEF PublishRefused, Receives
  <2>2. /\ r \in Requests /\ Asked(r).kind = "packet" /\ Asked(r).type = PUBLISH
        /\ DecodePublish(Arrived.flags, Arrived.data) = Message(r)
    BY <1>c, <2>1
  <2>3. \/ ~Message(r).ok /\ reply' = << >>
        \/ Message(r).ok /\ reply' = Puback(Message(r).val)
    BY <1>4, <2>2 DEF PublishRefused
  <2> QED
    BY <2>1, <2>2, <2>3, PublishAnswered, NothingRead
<1>5. ASSUME PublishClaimed PROVE FALSE
  BY <1>u, <1>5 DEF PublishClaimed
<1>6. ASSUME PublishSent
      PROVE  phase = "send" /\ ClientReads(reply') \in RequestAnswers(r)
  <2>1. phase = "send" /\ reply' = IF Expired THEN << >> ELSE Puback(current)
    BY <1>6 DEF PublishSent
  <2>2. r \in Requests
    BY <1>p, <2>1, HeadTailProperties DEF StreamInv, r
  <2>3. /\ Asked(r).kind = "packet" /\ Asked(r).type = PUBLISH
        /\ Message(r).ok /\ current = Message(r).val
    BY <2>1 DEF CurrentInv, r
  <2>4. /\ ClientReads(Puback(Message(r).val)) \in RequestAnswers(r)
        /\ Expired => <<"nothing">> \in RequestAnswers(r)
    BY <2>1, <2>2, <2>3, PublishAnswered
  <2> QED
    BY <2>1, <2>3, <2>4, NothingRead
<1>7. ASSUME Subscribe
      PROVE  phase = "read" /\ ClientReads(reply') \in RequestAnswers(r)
  <2>1. phase = "read" /\ Consume /\ Arrived.type = SUBSCRIBE
    BY <1>7 DEF Subscribe, Receives
  <2>2. /\ r \in Requests /\ Asked(r).kind = "packet" /\ Asked(r).type = SUBSCRIBE
        /\ DecodeSubscribe(Arrived.data) = Filtering(r)
    BY <1>c, <2>1
  <2>3. reply' = Suback(Filtering(r))
    BY <1>7, <2>2 DEF Subscribe, Suback, GrantedCodes
  <2> QED
    BY <2>1, <2>2, <2>3, SubscribeAnswered
<1>8. ASSUME Pingreq
      PROVE  phase = "read" /\ ClientReads(reply') \in RequestAnswers(r)
  <2>1. phase = "read" /\ Consume /\ Arrived.type = PINGREQ /\ reply' = EncodePingresp
    BY <1>8 DEF Pingreq, Receives
  <2>2. r \in Requests /\ Asked(r).kind = "packet" /\ Asked(r).type = PINGREQ
    BY <1>c, <2>1
  <2> QED
    BY <2>1, <2>2, OthersAnswered, PingrespRead
<1>9. ASSUME Unexpected \/ Disconnect
      PROVE  phase = "read" /\ ClientReads(reply') \in RequestAnswers(r)
  <2>1. /\ phase = "read" /\ Consume /\ Arrived.type \notin {PUBLISH, SUBSCRIBE, PINGREQ}
        /\ reply' = << >>
    BY <1>9 DEF Unexpected, Disconnect, Receives, PUBLISH, SUBSCRIBE, PINGREQ, DISCONNECT
  <2>2. /\ r \in Requests /\ Asked(r).kind = "packet"
        /\ Asked(r).type \notin {PUBLISH, SUBSCRIBE, PINGREQ}
    BY <1>c, <2>1
  <2> QED
    BY <2>1, <2>2, OthersAnswered, NothingRead
<1>10. ASSUME ReadFails \/ ConnectExpires \/ Expire \/ Tick \/ UNCHANGED vars PROVE FALSE
  BY <1>u, <1>10 DEF ReadFails, ConnectExpires, Expire, Tick, vars
<1> QED
  BY <1>1, <1>2, <1>3, <1>4, <1>5, <1>6, <1>7, <1>8, <1>9, <1>10 DEF Next, r

-----------------------------------------------------------------------------
(* The deadline                                                             *)

TimingInv ==
    /\ now \in Nat /\ keepAlive \in Nat /\ deadline \in Nat /\ lastSeen \in Nat
    /\ stream \in Seq(Byte)
    /\ lastSeen <= now
    /\ phase \in {"connect", "read", "send", "dropped", "left"}
    /\ phase \in {"read", "send", "dropped"} /\ keepAlive > 0 =>
         deadline = lastSeen + Timeout(keepAlive)
    /\ phase = "read" /\ keepAlive > 0 => now <= deadline
    /\ phase = "dropped" => now >= deadline
    /\ phase = "connect" => keepAlive = 0
    /\ keepAlive = 0 => deadline = Seconds(ConnectTimeout)

\* The cut to whole seconds: half a second less for odd keep-alives.
LEMMA TimeoutBounds ==
    ASSUME NEW k \in Nat
    PROVE  /\ Timeout(k) \in Nat /\ Timeout(k) <= 3 * k
           /\ Timeout(k) = 3 * k - (k % 2)
  BY SMTT(30) DEF Timeout, Seconds

\* The deadline of CONNECT is set.
LEMMA InitInv == Init => TimingInv
  BY KeepAliveAssumption DEF Init, TimingInit, TimingInv, Seconds

\* Every ResetDeadline restores the invariant, and time stops at the deadline.
LEMMA NextInv == TimingInv /\ [Next]_vars => TimingInv'
<1> SUFFICES ASSUME TimingInv, [Next]_vars PROVE TimingInv'
  OBVIOUS
<1> USE DEF timing
<1>b. ASSUME Consume PROVE stream' \in Seq(Byte) /\ Arrived.data \in Seq(Byte)
  BY <1>b, ReadPacketBytes DEF Consume, Arrived, TimingInv
\* ResetDeadline on entering or re-entering readLoop.
<1>r. ASSUME NEW k \in Nat, ResetDeadline(k), phase' = "read", stream' \in Seq(Byte),
             k = 0 => deadline = Seconds(ConnectTimeout)
      PROVE  TimingInv'
  <2>1. Timeout(k) \in Nat
    BY TimeoutBounds
  <2> QED
    BY <1>r, <2>1 DEF ResetDeadline, TimingInv
\* A session that ends or waits for msgChan keeps its times.
<1>k. ASSUME UNCHANGED timing, phase' \in {phase, "send", "left"},
             phase' = "send" => phase \in {"read", "send"}, stream' \in Seq(Byte)
      PROVE  TimingInv'
  BY <1>k DEF TimingInv
<1>1. ASSUME NEW r \in Requests, Write(r) \/ WritePart(r) PROVE TimingInv'
  <2>1. Bytes(r) \in Seq(Byte) /\ Bytes(r) # << >>
    BY RequestRead
  <2>2. Front(Bytes(r)) \in Seq(Byte)
    BY <2>1, FrontIsPrefix
  <2>3. stream' \in Seq(Byte)
    BY <1>1, <2>1, <2>2, ConcatProperties DEF Write, WritePart, TimingInv
  <2> QED
    BY <1>1, <1>k, <2>3 DEF Write, WritePart
<1>2. ASSUME NEW room \in BOOLEAN, FirstPacket(room) PROVE TimingInv'
  <2> DEFINE c == DecodeConnect(Arrived.data)
  <2>1. stream' \in Seq(Byte) /\ Arrived.data \in Seq(Byte)
    BY <1>2, <1>b DEF FirstPacket
  <2>2. \/ End("left")
        \/ phase' = "read" /\ c.ok /\ ResetDeadline(c.val.keepAlive)
    BY <1>2 DEF FirstPacket
  <2>3. CASE End("left")
    BY <1>k, <2>1, <2>3 DEF End
  <2>4. CASE phase' = "read" /\ c.ok /\ ResetDeadline(c.val.keepAlive)
    <3>1. c.val.keepAlive \in Nat
      BY <2>1, <2>4, ConnectKeepAlive
    <3> QED
      BY <1>2, <1>r, <2>1, <2>4, <3>1 DEF FirstPacket, TimingInv
  <2> QED
    BY <2>2, <2>3, <2>4
<1>3. ASSUME \/ \E owned \in BOOLEAN : PublishRefused(owned)
             \/ PublishSent \/ Subscribe \/ Pingreq \/ Unexpected
      PROVE  TimingInv'
  <2>1. Continue /\ stream' \in Seq(Byte)
    BY <1>3, <1>b DEF PublishRefused, PublishSent, Subscribe, Pingreq, Unexpected, Receives,
                      TimingInv
  <2>2. keepAlive \in Nat /\ (keepAlive = 0 => deadline = Seconds(ConnectTimeout))
    BY DEF TimingInv
  <2> QED
    BY <1>r, <2>1, <2>2 DEF Continue
<1>4. CASE PublishClaimed
  BY <1>4, <1>b, <1>k DEF PublishClaimed, Receives
<1>5. CASE Disconnect \/ ReadFails
  <2>1. stream' \in Seq(Byte)
    BY <1>5, <1>b DEF Disconnect, ReadFails, Receives, TimingInv
  <2> QED
    BY <1>5, <1>k, <2>1 DEF Disconnect, ReadFails, End
<1>6. CASE ConnectExpires \/ Expire
  BY <1>6 DEF ConnectExpires, Expire, End, Expired, TimingInv
<1>7. CASE Tick
  BY <1>7 DEF Tick, Elapse, Expired, Open, TimingInv
<1>8. CASE UNCHANGED vars
  BY <1>8 DEF vars, TimingInv
<1> QED
  BY <1>1, <1>2, <1>3, <1>4, <1>5, <1>6, <1>7, <1>8 DEF Next

\* The deadline is always that of lastSeen.
LEMMA TimingInvariant == Spec => []TimingInv
  BY InitInv, NextInv, PTL DEF Spec

-----------------------------------------------------------------------------
(* Theorems                                                                 *)

\* ReadPacket stays in step with the client: whatever packets and bytes the
\* client has written, at whatever moment it fell silent inside one, and however
\* malformed the bodies were that the handlers ignored, what is left in the
\* stream begins with the first byte of the oldest request not yet read.
THEOREM StaysInStep == Spec => []InStep
<1>1. StreamInv => InStep
  <2> SUFFICES ASSUME StreamInv, Open
               PROVE  IF cut THEN IsPrefix(Whole(Unread), stream) ELSE stream = Whole(Unread)
    BY DEF InStep, Whole, Pieces
  <2>1. PICK x \in Seq(Byte) : Partial(x) /\ stream = Whole(Unread) \o x
    BY DEF StreamInv
  <2>2. Unread \in Seq(Requests)
    BY HeadTailProperties DEF StreamInv, Unread
  <2> DEFINE w == Whole(Unread)
  <2>3. w \in Seq(Byte)
    BY <2>2, WholeBytes
  <2> HIDE DEF w
  <2>4. CASE cut
    <3>1. Len(w \o x) = Len(w) + Len(x) /\ SubSeq(w \o x, 1, Len(w)) = w
      BY <2>3, Skip
    <3>2. SubSeq(w, 1, Len(w)) = w
      BY <2>3, SubSeqFull
    <3>3. Len(w) <= Len(w \o x)
      BY <2>3, <3>1
    <3> QED
      BY <2>1, <2>4, <3>1, <3>2, <3>3 DEF IsPrefix, w
  <2>5. CASE ~cut
    <3>1. x = << >>
      BY <2>1, <2>5 DEF Partial
    <3> QED
      BY <2>1, <2>3, <2>5, <3>1, ConcatEmptySeq DEF w
  <2> QED
    BY <2>4, <2>5
<1>2. Spec => []StreamInv
  BY StreamInit, StreamNext, PTL DEF Spec
<1> QED
  BY <1>1, <1>2, PTL

\* Each request gets its own answer and nothing else: for any requests and any
\* order of packets, stalls and time, what a client reads after the step that
\* dealt with its request is the answer to that request.
THEOREM RequestsGetTheirAnswers ==
    ASSUME RawAsksNothing PROVE Spec => AnswersRequest
<1>1. Spec => [](StreamInv /\ CurrentInv)
  BY StreamInit, StreamNext, CurrentInit, CurrentNext, PTL DEF Spec
<1>2. StreamInv /\ CurrentInv /\ [Next]_vars => [Answered]_vars
  BY AnswersStep
<1> QED
  BY <1>1, <1>2, PTL DEF Spec, AnswersRequest, Answered

\* EncodeRemainingLength and DecodeRemainingLength: every length below 128^4 is
\* decoded to itself with nothing of the body consumed, and the encoding of
\* every larger one is refused.
THEOREM LengthsRoundTrip == Spec => []LengthRoundTrip
<1>1. LengthRoundTrip
  <2> SUFFICES ASSUME NEW n \in Lengths
      PROVE DecodeRemainingLength(EncodeRemainingLength(n) \o <<200, 0>>) =
              IF n < MaxLength THEN Decoded(n, <<200, 0>>) ELSE Malformed
    BY DEF LengthRoundTrip
  <2>1. n \in Nat
    BY SessionAssumption
  <2>2. <<200, 0>> \in Seq(Byte)
    BY DEF Byte
  <2> QED
    BY <2>1, <2>2, LengthDecoded DEF MaxLength
<1> QED
  BY <1>1, PTL

\* DecodeConnect: for every CONNECT that fits its encoding, whichever of will,
\* username and password are there, the fields decoded are those written, a set
\* reserved bit is refused, and so is the packet when it is cut at any byte.
THEOREM ConnectsRoundTrip == Spec => []ConnectRoundTrip
<1>1. ConnectRoundTrip
  <2> SUFFICES ASSUME NEW c \in Connects
      PROVE LET body == BuildConnectBody(c) IN
            /\ DecodeConnect(body) =
                 IF c.flags % 2 = 1 THEN Malformed
                 ELSE Decoded([flags |-> c.flags, keepAlive |-> c.keepAlive,
                               payload |-> FieldsPresent(c)], << >>)
            /\ \A k \in 0..(Len(body) - 1) : ~DecodeConnect(SubSeq(body, 1, k)).ok
    BY DEF ConnectRoundTrip
  <2> DEFINE body == BuildConnectBody(c)
             want == IF c.flags % 2 = 1 THEN Malformed
                     ELSE Decoded([flags |-> c.flags, keepAlive |-> c.keepAlive,
                                   payload |-> FieldsPresent(c)], << >>)
  <2>1. IsConnect(c)
    BY SessionAssumption
  <2>2. c.flags \in Int /\ 0 <= c.flags /\ c.flags <= 255
    BY <2>1, ByteIsInt DEF IsConnect
  <2>3. /\ Bit(c.flags, 1) <=> c.flags % 2 = 1
        /\ HasWill(c.flags) <=> (c.flags \div 4) % 2 = 1
        /\ HasUsername(c.flags) <=> c.flags >= 128
        /\ HasPassword(c.flags) <=> c.flags % 128 >= 64
    <3>1. Bit(c.flags, 1) <=> c.flags % 2 = 1
      BY <2>2 DEF Bit
    <3>2. HasWill(c.flags) <=> (c.flags \div 4) % 2 = 1
      BY DEF HasWill, Bit
    <3>3. HasUsername(c.flags) <=> c.flags >= 128
      BY <2>2 DEF HasUsername, Bit
    <3>4. HasPassword(c.flags) <=> c.flags % 128 >= 64
      BY <2>2 DEF HasPassword, Bit
    <3> QED
      BY <3>1, <3>2, <3>3, <3>4
  <2>4. DecodeConnect(body) = want
    BY <2>1, <2>3, ConnectOf DEF FieldsPresent, IfThere
  <2>5. body \in Seq(Byte)
    BY <2>1, ConnectBodyBytes
  <2> HIDE DEF body
  <2>6. ASSUME NEW k \in 0..(Len(body) - 1), DecodeConnect(SubSeq(body, 1, k)).ok PROVE FALSE
    <3> DEFINE p == SubSeq(body, 1, k)
               q == From(body, k + 1)
    <3>1. k \in 0..Len(body) /\ Len(body) - k > 0
      BY <2>5
    <3>2. p \in Seq(Byte) /\ q \in Seq(Byte) /\ body = p \o q /\ Len(q) = Len(body) - k
      BY <2>5, <3>1, Split
    <3>3. q # << >>
      <4>1. Len(q) > 0 /\ Len(<< >>) = 0
        BY <3>1, <3>2
      <4> HIDE DEF q
      <4> QED
        BY <4>1
    <3>4. /\ DecodeConnect(p).rest \in Seq(Byte)
          /\ DecodeConnect(p \o q) = Decoded(DecodeConnect(p).val, DecodeConnect(p).rest \o q)
      BY <2>6, <3>2, ConnectMore
    <3> HIDE DEF p, q
    <3>5. want = Decoded(DecodeConnect(p).val, DecodeConnect(p).rest \o q)
      BY <2>4, <3>2, <3>4
    <3>6. want.ok /\ want.rest = DecodeConnect(p).rest \o q
      BY <3>5 DEF Decoded
    <3>7. want.rest = << >>
      BY <3>6 DEF Decoded, Malformed
    <3>8. DecodeConnect(p).rest \o q = << >>
      BY <3>6, <3>7
    <3> QED
      BY <3>2, <3>3, <3>4, <3>8, ConcatEqualIffEmpty
  <2> QED
    BY <2>4, <2>6 DEF body
<1> QED
  BY <1>1, PTL

\* readLoop's deadline finds out every silent client: a session that waits for
\* a packet has not waited longer than 1.5 keep-alive intervals, whatever the
\* client wrote, however long a publish was stalled and whatever the interval.
THEOREM SilentClientsFound == Spec => []SilentClientDropped
<1>1. TimingInv => SilentClientDropped
  <2> SUFFICES ASSUME TimingInv, phase = "read", keepAlive > 0
               PROVE  now - lastSeen <= 3 * keepAlive
    BY DEF SilentClientDropped
  <2>1. /\ now \in Nat /\ lastSeen \in Nat /\ keepAlive \in Nat /\ deadline \in Nat
        /\ now <= deadline /\ deadline = lastSeen + Timeout(keepAlive)
    BY DEF TimingInv
  <2>2. Timeout(keepAlive) \in Nat /\ Timeout(keepAlive) <= 3 * keepAlive
    BY <2>1, TimeoutBounds
  <2> QED
    BY <2>1, <2>2
<1> QED
  BY <1>1, TimingInvariant, PTL

\* And it finds no other: a session that readLoop drops with a read timeout has
\* been silent for 1.5 intervals, less the half second that an odd interval
\* loses, and one with keep-alive 0 has outlived the deadline of CONNECT.
THEOREM OnlySilentClientsDropped == Spec => []DroppedOnlyWhenSilent
<1>1. TimingInv => DroppedOnlyWhenSilent
  <2> SUFFICES ASSUME TimingInv, phase = "dropped"
               PROVE  IF keepAlive > 0
                        THEN now - lastSeen >= 3 * keepAlive - (keepAlive % 2)
                        ELSE now >= Seconds(ConnectTimeout)
    BY DEF DroppedOnlyWhenSilent
  <2>1. /\ now \in Nat /\ lastSeen \in Nat /\ keepAlive \in Nat /\ deadline \in Nat
        /\ now >= deadline
    BY DEF TimingInv
  <2>2. CASE keepAlive > 0
    <3>1. deadline = lastSeen + Timeout(keepAlive)
      BY <2>2 DEF TimingInv
    <3>2. /\ Timeout(keepAlive) \in Nat
          /\ Timeout(keepAlive) = 3 * keepAlive - (keepAlive % 2)
      BY <2>1, TimeoutBounds
    <3> DEFINE k == keepAlive % 2
    <3>3. k \in Nat /\ Timeout(keepAlive) = 3 * keepAlive - k
      BY <2>1, <3>2
    <3> HIDE DEF k
    <3>4. now - lastSeen >= 3 * keepAlive - k
      BY <2>1, <3>1, <3>2, <3>3
    <3> QED
      BY <2>2, <3>4 DEF k
  <2>3. CASE keepAlive = 0
    BY <2>1, <2>3 DEF TimingInv
  <2> QED
    BY <2>1, <2>2, <2>3
<1> QED
  BY <1>1, TimingInvariant, PTL
=============================================================================
