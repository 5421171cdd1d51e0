---------------------------- MODULE PeeringProofs ----------------------------
(***************************************************************************)
(* The configuration parser and the BGP messages, for files and routers of *)
(* any kind.                                                               *)
(***************************************************************************)
EXTENDS Peering, WellFoundedInduction, FiniteSetTheorems, TLAPS

-----------------------------------------------------------------------------
(***************************************************************************)
(* Numbers.                                                                *)
(***************************************************************************)

(* Induction, for a set of numbers.                                        *)
LEMMA InductiveSet ==
    ASSUME NEW T, 0 \in T, \A n \in Nat : n \in T => n + 1 \in T
    PROVE  Nat \subseteq T
<1> DEFINE R == OpToRel(<, Nat)
           U == Nat \ T
<1>1. IsWellFoundedOn(R, Nat)
  BY NatLessThanWellFounded
<1>2. \A k, n \in Nat : k < n => <<k, n>> \in R
  BY DEF OpToRel
<1> HIDE DEF R
<1> SUFFICES ASSUME U # {}
             PROVE  FALSE
  OBVIOUS
<1>3. PICK m \in U : \A k \in U : ~(<<k, m>> \in R)
  BY Zenon, <1>1, WFMin
<1>4. m # 0 /\ m \in Nat /\ m - 1 \in Nat
  BY <1>3
<1>5. m - 1 \in T
  <2>1. <<m - 1, m>> \in R
    BY <1>2, <1>4
  <2>2. m - 1 \notin U
    BY Zenon, <1>3, <2>1
  <2> QED
    BY <1>4, <2>2
<1> QED
  BY <1>3, <1>4, <1>5

(* The numbers of addresses, one by one.                                   *)
LEMMA Sizes ==
    /\ Size(0) = 1 /\ Size(1) = 2 /\ Size(2) = 4 /\ Size(3) = 8
    /\ Size(4) = 16 /\ Size(5) = 32 /\ Size(6) = 64 /\ Size(7) = 128
    /\ Size(8) = 256 /\ Size(9) = 512 /\ Size(10) = 1024 /\ Size(11) = 2048
    /\ Size(12) = 4096 /\ Size(13) = 8192 /\ Size(14) = 16384 /\ Size(15) = 32768
    /\ Size(16) = 65536 /\ Size(17) = 131072 /\ Size(18) = 262144 /\ Size(19) = 524288
    /\ Size(20) = 1048576 /\ Size(21) = 2097152 /\ Size(22) = 4194304 /\ Size(23) = 8388608
    /\ Size(24) = 16777216 /\ Size(25) = 33554432 /\ Size(26) = 67108864 /\ Size(27) = 134217728
    /\ Size(28) = 268435456 /\ Size(29) = 536870912 /\ Size(30) = 1073741824
    /\ Size(31) = 2147483648
BY DEF Size

(* Each is twice the one before.                                           *)
LEMMA SizeTwice ==
    /\ \A h \in 0..31 : Size(h) \in Nat \ {0}
    /\ \A h \in 0..30 : Size(h + 1) = 2 * Size(h)
<1>1. ASSUME NEW h \in 0..31
      PROVE  Size(h) \in Nat \ {0}
  BY Sizes
<1>2. ASSUME NEW h \in 0..30
      PROVE  Size(h + 1) = 2 * Size(h)
  BY Sizes
<1> QED
  BY <1>1, <1>2

(* And a multiple of all the ones before.                                  *)
LEMMA SizeMultiple ==
    ASSUME NEW a \in 0..31, NEW b \in a..31
    PROVE  \E q \in Nat \ {0} : Size(b) = Size(a) * q
<1> DEFINE T == {n \in Nat : a + n <= 31 => \E q \in Nat \ {0} : Size(a + n) = Size(a) * q}
<1>1. 0 \in T
  <2>1. Size(a + 0) = Size(a) * 1
    BY SizeTwice
  <2> QED
    BY <2>1
<1>2. ASSUME NEW n \in Nat, n \in T
      PROVE  n + 1 \in T
  <2> SUFFICES ASSUME a + (n + 1) <= 31
               PROVE  \E q \in Nat \ {0} : Size(a + (n + 1)) = Size(a) * q
    OBVIOUS
  <2>1. PICK q \in Nat \ {0} : Size(a + n) = Size(a) * q
    BY <1>2
  <2>2. Size((a + n) + 1) = 2 * Size(a + n) /\ Size(a) \in Nat
    BY SizeTwice
  <2>3. Size(a + (n + 1)) = Size(a) * (2 * q)
    BY <2>1, <2>2
  <2> QED
    BY <2>3
<1> HIDE DEF T
<1>3. b - a \in T
  BY <1>1, <1>2, InductiveSet
<1> QED
  BY <1>3 DEF T

-----------------------------------------------------------------------------
(***************************************************************************)
(* Blocks of addresses.                                                    *)
(***************************************************************************)

(* The address is the first of a block of its size.                        *)
Aligned(ip, h) == \E q \in Int : ip = Size(h) * q

(* That is how the code puts it.                                           *)
LEMMA AlignedIs ==
    ASSUME NEW h \in 0..31, NEW ip \in Nat
    PROVE  Aligned(ip, h) <=> ip % Size(h) = 0
<1> DEFINE z == Size(h)
<1>1. z \in Nat \ {0}
  BY SizeTwice
<1> HIDE DEF z
<1>2. ASSUME NEW q \in Int, ip = z * q
      PROVE  ip % z = 0
  BY <1>1, <1>2
<1>3. ASSUME ip % z = 0
      PROVE  ip = z * (ip \div z) /\ ip \div z \in Int
  BY <1>1, <1>3
<1> QED
  BY <1>2, <1>3 DEF Aligned, z

(* Blocks of one size do not overlap.                                      *)
LEMMA AlignedApart ==
    ASSUME NEW h \in 0..31, NEW x \in Int, NEW y \in Int, Aligned(x, h), Aligned(y, h), x < y
    PROVE  x + Size(h) <= y
<1> DEFINE z == Size(h)
<1>1. z \in Nat \ {0}
  BY SizeTwice
<1>2. PICK i \in Int : x = z * i
  BY DEF Aligned
<1>3. PICK j \in Int : y = z * j
  BY DEF Aligned
<1> HIDE DEF z
<1>4. i < j
  BY <1>1, <1>2, <1>3
<1>5. z * (i + 1) <= z * j
  BY <1>1, <1>4
<1> QED
  BY <1>1, <1>2, <1>3, <1>5 DEF z

(* The next block.                                                         *)
LEMMA AlignedNext ==
    ASSUME NEW h \in 0..31, NEW x \in Int, Aligned(x, h)
    PROVE  Aligned(x + Size(h), h)
<1> DEFINE z == Size(h)
<1>1. z \in Nat \ {0}
  BY SizeTwice
<1>2. PICK i \in Int : x = z * i
  BY DEF Aligned
<1> HIDE DEF z
<1>3. x + z = z * (i + 1)
  BY <1>1, <1>2
<1> QED
  BY <1>3 DEF z, Aligned

(* A block of a size is one of every lesser size, or several.              *)
LEMMA AlignedLess ==
    ASSUME NEW a \in 0..31, NEW b \in a..31, NEW x \in Int, Aligned(x, b)
    PROVE  Aligned(x, a)
<1> DEFINE y == Size(a)
           z == Size(b)
<1>1. y \in Nat \ {0} /\ z \in Nat \ {0}
  BY SizeTwice
<1>2. PICK q \in Nat \ {0} : z = y * q
  BY SizeMultiple
<1>3. PICK i \in Int : x = z * i
  BY DEF Aligned
<1> HIDE DEF y, z
<1>4. x = y * (q * i) /\ q * i \in Int
  BY <1>1, <1>2, <1>3
<1> QED
  BY <1>4 DEF y, Aligned

(* Masked is the first address of the block that has ip.                   *)
LEMMA MaskedBlock ==
    ASSUME NEW h \in 0..31, NEW ip \in Nat
    PROVE  /\ Masked(ip, h) \in Nat /\ Aligned(Masked(ip, h), h)
           /\ Masked(ip, h) <= ip /\ ip < Masked(ip, h) + Size(h)
<1> DEFINE z == Size(h)
           m == ip - (ip % z)
<1>1. z \in Nat \ {0}
  BY SizeTwice
<1>2. m = Masked(ip, h)
  BY DEF Masked
<1> HIDE DEF z
<1>3. m = z * (ip \div z) /\ ip \div z \in Int /\ m \in Nat /\ m <= ip /\ ip < m + z
  BY <1>1
<1> QED
  BY <1>2, <1>3 DEF z, Aligned

(* There is no other.                                                      *)
LEMMA MaskedIs ==
    ASSUME NEW h \in 0..31, NEW ip \in Nat, NEW b \in Int, Aligned(b, h)
    PROVE  Masked(ip, h) = b <=> b <= ip /\ ip < b + Size(h)
<1> DEFINE m == Masked(ip, h)
           z == Size(h)
<1>1. /\ m \in Nat /\ Aligned(m, h) /\ m <= ip /\ ip < m + z /\ z \in Nat \ {0}
  BY MaskedBlock, SizeTwice
<1>2. (m < b => m + z <= b) /\ (b < m => b + z <= m)
  BY SMTT(30), <1>1, AlignedApart
<1> HIDE DEF m, z
<1> QED
  BY <1>1, <1>2 DEF m, z

(* Of two blocks with an address in common the lesser is inside the other. *)
LEMMA BlockInside ==
    ASSUME NEW a \in 0..31, NEW b \in a..31, NEW x \in Int, NEW y \in Int,
           Aligned(x, a), Aligned(y, b), x < y + Size(b), y < x + Size(a)
    PROVE  y <= x /\ x + Size(a) <= y + Size(b)
<1>1. Size(a) \in Nat \ {0} /\ Size(b) \in Nat \ {0}
  BY SizeTwice
<1>2. Aligned(y, a) /\ Aligned(y + Size(b), a)
  <2>1. Aligned(y + Size(b), b)
    BY AlignedNext
  <2> QED
    BY <1>1, <2>1, AlignedLess
<1>3. x < y => x + Size(a) <= y
  BY <1>2, AlignedApart
<1>4. x + Size(a) <= y + Size(b)
  BY SMTT(30), <1>1, <1>2, AlignedApart
<1> QED
  BY <1>1, <1>3, <1>4

-----------------------------------------------------------------------------
(***************************************************************************)
(* Loops.                                                                  *)
(***************************************************************************)

(* Total adds up its parts.                                                *)
LEMMA TotalIs ==
    ASSUME NEW parts, Len(parts) \in Nat
    PROVE  \E t : /\ t[0] = 0
                  /\ \A k \in 1..Len(parts) : t[k] = t[k - 1] + parts[k]
                  /\ Total(parts) = t[Len(parts)]
<1> DEFINE T == {n \in Nat : \E g : g = [k \in 0..n |-> IF k = 0 THEN 0 ELSE g[k - 1] + parts[k]]}
           total[k \in 0..Len(parts)] == IF k = 0 THEN 0 ELSE total[k - 1] + parts[k]
<1>1. 0 \in T
  <2> DEFINE g == [k \in 0..0 |-> 0]
  <2>1. g = [k \in 0..0 |-> IF k = 0 THEN 0 ELSE g[k - 1] + parts[k]]
    OBVIOUS
  <2>2. 0 \in Nat
    OBVIOUS
  <2> HIDE DEF g
  <2> QED
    BY Zenon, <2>1, <2>2
<1>2. ASSUME NEW n \in Nat, n \in T
      PROVE  n + 1 \in T
  <2>1. PICK g : g = [k \in 0..n |-> IF k = 0 THEN 0 ELSE g[k - 1] + parts[k]]
    BY <1>2
  <2> DEFINE h == [k \in 0..(n + 1) |-> IF k = n + 1 THEN g[n] + parts[n + 1] ELSE g[k]]
  <2>2. ASSUME NEW k \in 0..(n + 1)
        PROVE  h[k] = IF k = 0 THEN 0 ELSE h[k - 1] + parts[k]
    <3>1. CASE k = n + 1
      BY <3>1
    <3>2. CASE k # n + 1
      <4>1. k \in 0..n /\ h[k] = g[k] /\ (k # 0 => h[k - 1] = g[k - 1])
        BY <3>2
      <4>2. g[k] = IF k = 0 THEN 0 ELSE g[k - 1] + parts[k]
        BY <2>1, <4>1
      <4> HIDE DEF h
      <4> QED
        BY <4>1, <4>2
    <3> QED
      BY <3>1, <3>2
  <2>3. h = [k \in 0..(n + 1) |-> IF k = 0 THEN 0 ELSE h[k - 1] + parts[k]]
    BY <2>2
  <2>4. n + 1 \in Nat
    OBVIOUS
  <2> HIDE DEF h
  <2> QED
    BY Zenon, <2>3, <2>4
<1> HIDE DEF T
<1>3. Len(parts) \in T
  BY <1>1, <1>2, InductiveSet
<1>4. PICK g : g = [k \in 0..Len(parts) |-> IF k = 0 THEN 0 ELSE g[k - 1] + parts[k]]
  BY <1>3 DEF T
<1>5. total = [k \in 0..Len(parts) |-> IF k = 0 THEN 0 ELSE total[k - 1] + parts[k]]
  BY Zenon, <1>4
<1>6. Total(parts) = total[Len(parts)]
  BY DEF Total
<1> HIDE DEF total
<1>7. total[0] = 0 /\ \A k \in 1..Len(parts) : total[k] = total[k - 1] + parts[k]
  BY <1>5
<1> QED
  BY Zenon, <1>6, <1>7

(* x is an element of the sequence.                                        *)
Has(q, x) == \E i \in DOMAIN q : q[i] = x

(* The elements of two sequences, one after the other.                     *)
LEMMA ConcatIs ==
    ASSUME NEW A, NEW s \in Seq(A), NEW t \in Seq(A)
    PROVE  s \o t \in Seq(A) /\ \A x : Has(s \o t, x) <=> Has(s, x) \/ Has(t, x)
<1>1. /\ s \o t \in Seq(A) /\ DOMAIN (s \o t) = 1..(Len(s) + Len(t))
      /\ DOMAIN s = 1..Len(s) /\ DOMAIN t = 1..Len(t) /\ Len(s) \in Nat /\ Len(t) \in Nat
      /\ \A i \in 1..Len(s) : (s \o t)[i] = s[i]
      /\ \A i \in 1..Len(t) : (s \o t)[Len(s) + i] = t[i]
  OBVIOUS
<1>2. \A i \in 1..(Len(s) + Len(t)) : i \in 1..Len(s) \/ \E k \in 1..Len(t) : i = Len(s) + k
  <2>1. ASSUME NEW i \in 1..(Len(s) + Len(t)), i \notin 1..Len(s)
        PROVE  i - Len(s) \in 1..Len(t) /\ i = Len(s) + (i - Len(s))
    BY <1>1, <2>1
  <2> QED
    BY Zenon, <2>1
<1>3. \A i \in 1..Len(s) : i \in 1..(Len(s) + Len(t))
  BY <1>1
<1>4. \A i \in 1..Len(t) : Len(s) + i \in 1..(Len(s) + Len(t))
  BY <1>1
<1> DEFINE u == s \o t
<1> HIDE DEF u
<1>5. ASSUME NEW i \in DOMAIN u
      PROVE  (\E k \in DOMAIN s : s[k] = u[i]) \/ (\E k \in DOMAIN t : t[k] = u[i])
  <2>1. i \in 1..(Len(s) + Len(t))
    BY <1>1 DEF u
  <2>2. CASE i \in 1..Len(s)
    BY Zenon, <1>1, <2>2 DEF u
  <2>3. CASE \E k \in 1..Len(t) : i = Len(s) + k
    BY Zenon, <1>1, <2>3 DEF u
  <2> QED
    BY Zenon, <1>2, <2>1, <2>2, <2>3
<1>6. \A k \in DOMAIN s : \E i \in DOMAIN u : u[i] = s[k]
  BY Zenon, <1>1, <1>3 DEF u
<1>7. \A k \in DOMAIN t : \E i \in DOMAIN u : u[i] = t[k]
  BY Zenon, <1>1, <1>4 DEF u
<1>8. u \in Seq(A)
  BY <1>1 DEF u
<1> QED
  BY ZenonT(40), <1>5, <1>6, <1>7, <1>8 DEF u, Has

(* Appended has the elements of the sequences, and no others.              *)
LEMMA AppendedIs ==
    ASSUME NEW A, NEW ss, Len(ss) \in Nat, \A k \in 1..Len(ss) : ss[k] \in Seq(A)
    PROVE  /\ Appended(ss) \in Seq(A)
           /\ \A x : Has(Appended(ss), x) <=> \E k \in 1..Len(ss) : Has(ss[k], x)
<1> DEFINE len == Len(ss)
           T == {n \in Nat : \E g : g = [k \in 0..n |-> IF k = 0 THEN <<>> ELSE g[k - 1] \o ss[k]]}
           all[k \in 0..Len(ss)] == IF k = 0 THEN <<>> ELSE all[k - 1] \o ss[k]
<1>1. 0 \in T
  <2> DEFINE g == [k \in 0..0 |-> <<>>]
  <2>1. g = [k \in 0..0 |-> IF k = 0 THEN <<>> ELSE g[k - 1] \o ss[k]]
    <3>1. \A k \in 0..0 : k = 0
      OBVIOUS
    <3> QED
      BY Zenon, <3>1
  <2>2. 0 \in Nat
    OBVIOUS
  <2> HIDE DEF g
  <2> QED
    BY Zenon, <2>1, <2>2
<1>2. ASSUME NEW n \in Nat, n \in T
      PROVE  n + 1 \in T
  <2>1. PICK g : g = [k \in 0..n |-> IF k = 0 THEN <<>> ELSE g[k - 1] \o ss[k]]
    BY Zenon, <1>2
  <2> DEFINE last == g[n] \o ss[n + 1]
             h == [k \in 0..(n + 1) |-> IF k = n + 1 THEN last ELSE g[k]]
  <2> HIDE DEF last
  <2>2. ASSUME NEW k \in 0..(n + 1)
        PROVE  h[k] = IF k = 0 THEN <<>> ELSE h[k - 1] \o ss[k]
    <3>1. CASE k = n + 1
      <4>1. h[k] = last /\ h[k - 1] = g[n] /\ k # 0
        BY <3>1
      <4> HIDE DEF h
      <4> QED
        BY Zenon, <3>1, <4>1 DEF last
    <3>2. CASE k # n + 1
      <4>1. k \in 0..n /\ h[k] = g[k] /\ (k # 0 => h[k - 1] = g[k - 1])
        BY <3>2
      <4>2. g[k] = IF k = 0 THEN <<>> ELSE g[k - 1] \o ss[k]
        BY Zenon, <2>1, <4>1
      <4> HIDE DEF h
      <4> QED
        BY Zenon, <4>1, <4>2
    <3> QED
      BY Zenon, <3>1, <3>2
  <2>3. h = [k \in 0..(n + 1) |-> IF k = 0 THEN <<>> ELSE h[k - 1] \o ss[k]]
    <3>1. h = [k \in 0..(n + 1) |-> h[k]]
      OBVIOUS
    <3> HIDE DEF h
    <3> QED
      BY Zenon, <2>2, <3>1
  <2>4. n + 1 \in Nat
    OBVIOUS
  <2> HIDE DEF h
  <2> QED
    BY Zenon, <2>3, <2>4
<1> HIDE DEF T
<1>3. len \in T
  BY Zenon, <1>1, <1>2, InductiveSet
<1>4. PICK g : g = [k \in 0..len |-> IF k = 0 THEN <<>> ELSE g[k - 1] \o ss[k]]
  BY Zenon, <1>3 DEF T
<1>5. all = [k \in 0..len |-> IF k = 0 THEN <<>> ELSE all[k - 1] \o ss[k]]
  BY Zenon, <1>4
<1>6. Appended(ss) = all[len]
  BY Zenon DEF Appended
<1> HIDE DEF all
<1> DEFINE Upto(n) == /\ all[n] \in Seq(A)
                      /\ \A x : Has(all[n], x) <=> \E k \in 1..n : Has(ss[k], x)
           U == {n \in Nat : n <= len => Upto(n)}
<1>7. 0 \in U
  <2>1. 0 \in 0..len /\ 1..0 = {} /\ 0 \in Nat
    OBVIOUS
  <2>2. all[0] = <<>>
    BY Zenon, <1>5, <2>1
  <2>3. <<>> \in Seq(A) /\ DOMAIN <<>> = {}
    OBVIOUS
  <2> QED
    BY Zenon, <2>1, <2>2, <2>3 DEF Has
<1>8. ASSUME NEW n \in Nat, n \in U
      PROVE  n + 1 \in U
  <2> SUFFICES ASSUME n + 1 <= len
               PROVE  Upto(n + 1)
    OBVIOUS
  <2> DEFINE s == all[n]
             t == ss[n + 1]
  <2>1. n + 1 \in 1..len /\ n + 1 \in 0..len /\ n + 1 # 0 /\ (n + 1) - 1 = n /\ n <= len
    OBVIOUS
  <2>2. Upto(n)
    BY Zenon, <1>8, <2>1
  <2>3. all[n + 1] = s \o t
    BY Zenon, <1>5, <2>1
  <2>4. s \in Seq(A) /\ t \in Seq(A)
    BY Zenon, <2>1, <2>2
  <2> HIDE DEF s, t
  <2>5. /\ s \o t \in Seq(A)
        /\ \A x : Has(s \o t, x) <=> Has(s, x) \/ Has(t, x)
    BY Zenon, <2>4, ConcatIs
  <2>6. \A k : k \in 1..(n + 1) <=> k \in 1..n \/ k = n + 1
    OBVIOUS
  <2> QED
    BY Zenon, <2>2, <2>3, <2>5, <2>6 DEF s, t
<1> HIDE DEF U
<1>9. len \in U
  BY Zenon, <1>7, <1>8, InductiveSet
<1>10. Upto(len)
  <2>1. len <= len
    OBVIOUS
  <2> QED
    BY Zenon, <1>9, <2>1 DEF U
<1> QED
  BY Zenon, <1>6, <1>10

-----------------------------------------------------------------------------
(***************************************************************************)
(* Ranges.                                                                 *)
(***************************************************************************)

(* More host bits, more addresses.                                         *)
LEMMA SizeLess ==
    ASSUME NEW a \in 0..31, NEW b \in a..31
    PROVE  Size(a) <= Size(b)
<1> DEFINE y == Size(a)
           z == Size(b)
<1>1. y \in Nat \ {0} /\ z \in Nat \ {0}
  BY SizeTwice
<1>2. PICK q \in Nat \ {0} : z = y * q
  BY SizeMultiple
<1> HIDE DEF y, z
<1>3. y <= z
  BY <1>1, <1>2
<1> QED
  BY <1>3 DEF y, z

(* Where a prefix fits, every longer one does.                             *)
LEMMA FitsLess ==
    ASSUME NEW a \in 0..31, NEW b \in a..31, NEW fi \in Nat, NEW li \in Int, Fits(fi, b, li)
    PROVE  Fits(fi, a, li)
<1>1. /\ Size(a) \in Nat /\ Size(b) \in Nat /\ Size(a) <= Size(b)
  <2>1. b \in 0..31
    OBVIOUS
  <2>2. Size(a) \in Nat /\ Size(b) \in Nat
    BY <2>1, SizeTwice
  <2> QED
    BY Zenon, <2>2, SizeLess
<1>2. Aligned(fi, a)
  BY AlignedIs, AlignedLess DEF Fits
<1> QED
  BY <1>1, <1>2, AlignedIs DEF Fits

(* The widest prefix from fi on starts at fi and ends at li or before.     *)
LEMMA WidestIs ==
    ASSUME NEW li \in 0..Size(Bits) - 1, NEW fi \in 0..li
    PROVE  /\ Widest(fi, li) \in 0..Bits
           /\ Aligned(fi, Widest(fi, li))
           /\ fi + Size(Widest(fi, li)) - 1 <= li
<1>1. /\ Bits \in 0..31 /\ Size(Bits) \in Nat \ {0} /\ fi \in Nat /\ li \in Nat /\ fi <= li
  BY ConfigAssumption, SizeTwice
<1> DEFINE T == {n \in Nat : n <= Bits =>
                    \E h \in 0..n : \A k \in 1..n : Fits(fi, k, li) <=> k <= h}
<1>2. 0 \in T
  OBVIOUS
<1>3. ASSUME NEW n \in Nat, n \in T
      PROVE  n + 1 \in T
  <2> SUFFICES ASSUME n + 1 <= Bits
               PROVE  \E h \in 0..(n + 1) : \A k \in 1..(n + 1) : Fits(fi, k, li) <=> k <= h
    OBVIOUS
  <2>1. PICK h \in 0..n : \A k \in 1..n : Fits(fi, k, li) <=> k <= h
    BY <1>1, <1>3
  <2>2. CASE Fits(fi, n + 1, li)
    <3>1. ASSUME NEW k \in 1..(n + 1)
          PROVE  Fits(fi, k, li)
      <4>1. k \in 0..31 /\ n + 1 \in k..31 /\ li \in Int
        BY <1>1
      <4> QED
        BY Zenon, <1>1, <2>2, <4>1, FitsLess
    <3> QED
      BY <3>1
  <2>3. CASE ~Fits(fi, n + 1, li)
    <3>1. ASSUME NEW k \in 1..(n + 1)
          PROVE  Fits(fi, k, li) <=> k <= h
      BY <2>1, <2>3
    <3> QED
      BY <3>1
  <2> QED
    BY <2>2, <2>3
<1> HIDE DEF T
<1>4. Bits \in T
  BY <1>1, <1>2, <1>3, InductiveSet
<1>5. \E h \in 0..Bits : \A k \in 1..Bits : Fits(fi, k, li) <=> k <= h
  BY <1>1, <1>4 DEF T
<1> DEFINE w == Widest(fi, li)
<1>6. w \in 0..Bits /\ \A k \in 1..Bits : Fits(fi, k, li) <=> k <= w
  BY Zenon, <1>5 DEF Widest
<1> HIDE DEF w
<1>7. CASE w = 0
  <2>1. Aligned(fi, 0)
    BY <1>1, Sizes DEF Aligned
  <2> QED
    BY <1>1, <1>7, <2>1, Sizes DEF w
<1>8. CASE w # 0
  <2>1. Fits(fi, w, li)
    BY <1>1, <1>6, <1>8
  <2> QED
    BY <1>1, <1>6, <2>1, AlignedIs DEF Fits, w
<1> QED
  BY <1>7, <1>8

(* A prefix whose host bits are zero.                                      *)
Block == {n \in Net : Aligned(n.ip, n.host)}

LEMMA BlockIs ==
    ASSUME NEW n \in Block
    PROVE  /\ n.ip \in Int /\ n.host \in 0..31 /\ Aligned(n.ip, n.host) /\ n.mask \in {32, 128}
BY ConfigAssumption, SizeTwice DEF Block, Net

(* It contains the addresses from its own to the last of its size.         *)
LEMMA BlockContains ==
    ASSUME NEW n \in Block, NEW family, NEW ip \in Nat
    PROVE  ContainsIP(n, family, ip) <=> n.family = family /\ n.ip <= ip /\ ip < n.ip + Size(n.host)
<1>1. n.ip \in Int /\ n.host \in 0..31 /\ Aligned(n.ip, n.host)
  BY ConfigAssumption, SizeTwice DEF Block, Net
<1> QED
  BY Zenon, <1>1, MaskedIs DEF ContainsIP

(* A loop that collects p[fi] and goes on w[fi] further, until after li.   *)
Loops(N, li, p, w) ==
    \E g : g = [fi \in 0..N |-> IF fi > li THEN <<>> ELSE <<p[fi]>> \o g[fi + w[fi]]]

(* It ends, if it does go on.                                              *)
LEMMA LoopEnds ==
    ASSUME NEW N \in Nat, NEW li \in Int, NEW p, NEW w,
           \A fi \in 0..N : fi <= li => w[fi] \in Nat \ {0} /\ fi + w[fi] <= N
    PROVE  Loops(N, li, p, w)
<1> DEFINE T == {n \in Nat : n <= N =>
                    \E g : g = [fi \in (N - n)..N |->
                                   IF fi > li THEN <<>> ELSE <<p[fi]>> \o g[fi + w[fi]]]}
<1>1. 0 \in T
  <2> DEFINE g == [fi \in N..N |-> <<>>]
  <2>1. N > li
    <3> SUFFICES ASSUME N <= li
                 PROVE  FALSE
      OBVIOUS
    <3>1. w[N] \in Nat \ {0} /\ N + w[N] <= N
      OBVIOUS
    <3> QED
      BY <3>1
  <2>2. g = [fi \in (N - 0)..N |-> IF fi > li THEN <<>> ELSE <<p[fi]>> \o g[fi + w[fi]]]
    BY <2>1
  <2>3. 0 \in Nat
    OBVIOUS
  <2> HIDE DEF g
  <2> QED
    BY Zenon, <2>2, <2>3
<1>2. ASSUME NEW n \in Nat, n \in T
      PROVE  n + 1 \in T
  <2>1. n + 1 \in Nat /\ (n + 1 <= N => n <= N)
    OBVIOUS
  <2> SUFFICES ASSUME n + 1 <= N
               PROVE  \E g : g = [fi \in (N - (n + 1))..N |->
                                     IF fi > li THEN <<>> ELSE <<p[fi]>> \o g[fi + w[fi]]]
    BY Zenon, <2>1
  <2>2. PICK g : g = [fi \in (N - n)..N |->
                         IF fi > li THEN <<>> ELSE <<p[fi]>> \o g[fi + w[fi]]]
    BY Zenon, <1>2, <2>1
  <2> DEFINE m == N - (n + 1)
             new == IF m > li THEN <<>> ELSE <<p[m]>> \o g[m + w[m]]
             h == [fi \in m..N |-> IF fi = m THEN new ELSE g[fi]]
  <2>3. m \in 0..N /\ N - n = m + 1
    OBVIOUS
  <2> HIDE DEF m, new
  <2>4. ASSUME NEW fi \in m..N
        PROVE  h[fi] = IF fi > li THEN <<>> ELSE <<p[fi]>> \o h[fi + w[fi]]
    <3>1. /\ fi \in 0..N /\ (fi # m => fi \in (N - n)..N)
          /\ h[fi] = IF fi = m THEN new ELSE g[fi]
      BY <2>3
    <3>2. ~(fi > li) => h[fi + w[fi]] = g[fi + w[fi]]
      <4> SUFFICES ASSUME ~(fi > li)
                   PROVE  h[fi + w[fi]] = g[fi + w[fi]]
        OBVIOUS
      <4>1. w[fi] \in Nat \ {0} /\ fi + w[fi] <= N
        BY <3>1
      <4>2. fi + w[fi] \in m..N /\ fi + w[fi] # m
        BY <2>3, <4>1
      <4> QED
        BY Zenon, <4>2
    <3> HIDE DEF h
    <3>3. CASE fi = m
      BY Zenon, <3>1, <3>2, <3>3 DEF new
    <3>4. CASE fi # m
      <4>1. g[fi] = IF fi > li THEN <<>> ELSE <<p[fi]>> \o g[fi + w[fi]]
        BY Zenon, <2>2, <3>1, <3>4
      <4> QED
        BY Zenon, <3>1, <3>2, <3>4, <4>1
    <3> QED
      BY <3>3, <3>4
  <2>5. h = [fi \in m..N |-> h[fi]]
    OBVIOUS
  <2> HIDE DEF h
  <2>6. h = [fi \in m..N |-> IF fi > li THEN <<>> ELSE <<p[fi]>> \o h[fi + w[fi]]]
    BY Zenon, <2>4, <2>5
  <2> QED
    BY Zenon, <2>6 DEF m
<1> HIDE DEF T
<1>3. N \in T
  BY <1>1, <1>2, InductiveSet
<1>4. N <= N /\ N - N = 0
  OBVIOUS
<1> QED
  BY Zenon, <1>3, <1>4 DEF T, Loops

(* The prefixes of a range contain the addresses of the range, and no      *)
(* others.                                                                 *)
LEMMA SummarizeIs ==
    ASSUME NEW first \in Addr, NEW last \in Addr, first.family = last.family
    PROVE  /\ Summarize(first, last) \in Seq(Block)
           /\ \A family : \A ip \in 0..Size(Bits) - 1 :
                 (\E n : Has(Summarize(first, last), n) /\ ContainsIP(n, family, ip))
                    <=> family = first.family /\ ip \in first.ip..last.ip
<1> DEFINE Prefix(fi) == [family |-> first.family, mask |-> IF first.family = 4 THEN 32 ELSE 128,
                          ip |-> fi, host |-> Widest(fi, last.ip)]
           s[fi \in 0..Size(Bits)] ==
               IF fi > last.ip THEN <<>> ELSE <<Prefix(fi)>> \o s[fi + Size(Widest(fi, last.ip))]
           N == Size(Bits)
           li == last.ip
           p == [fi \in 0..N |-> Prefix(fi)]
           w == [fi \in 0..N |-> Size(Widest(fi, last.ip))]
           family == first.family
<1>1. /\ N \in Nat \ {0} /\ li \in 0..(N - 1) /\ first.ip \in 0..(N - 1) /\ family \in {4, 6}
      /\ Bits \in 0..31
  BY ConfigAssumption, SizeTwice DEF Addr
<1>2. ASSUME NEW fi \in 0..N, fi <= li
      PROVE  /\ w[fi] = Size(Prefix(fi).host) /\ p[fi] = Prefix(fi)
             /\ w[fi] \in Nat \ {0} /\ fi + w[fi] <= li + 1 /\ p[fi] \in Block
  <2> DEFINE h == Widest(fi, last.ip)
  <2>1. h \in 0..Bits /\ Aligned(fi, h) /\ fi + Size(h) - 1 <= li
    <3>1. li \in 0..N - 1 /\ fi \in 0..li
      BY <1>1, <1>2
    <3> HIDE DEF li
    <3> QED
      BY Zenon, <3>1, WidestIs DEF li
  <2>2. Size(h) \in Nat \ {0}
    BY <1>1, <2>1, SizeTwice
  <2>3. w[fi] = Size(h) /\ p[fi] = Prefix(fi) /\ Prefix(fi).host = h
    OBVIOUS
  <2> HIDE DEF h
  <2>4. Prefix(fi) \in Block
    <3>1. fi \in 0..N - 1
      BY <1>1, <1>2
    <3> QED
      BY <1>1, <2>1, <3>1 DEF Block, Net, h
  <2> HIDE DEF p, w
  <2>5. Size(h) \in Nat \ {0} /\ fi + Size(h) <= li + 1
    BY <1>1, <2>1, <2>2
  <2> QED
    BY Zenon, <2>3, <2>4, <2>5
<1>3. ASSUME NEW fi \in 0..N, fi <= li
      PROVE  w[fi] \in Nat \ {0} /\ fi + w[fi] <= N
  <2> HIDE DEF p, w, N, li
  <2>1. w[fi] \in Nat \ {0} /\ fi + w[fi] <= li + 1
    BY Zenon, <1>2, <1>3
  <2> QED
    BY <1>1, <2>1
<1>4. PICK g : g = [fi \in 0..N |-> IF fi > li THEN <<>> ELSE <<p[fi]>> \o g[fi + w[fi]]]
  <2>1. N \in Nat /\ li \in Int
    BY <1>1
  <2>2. \A fi \in 0..N : fi <= li => w[fi] \in Nat \ {0} /\ fi + w[fi] <= N
    BY Zenon, <1>3
  <2> HIDE DEF p, w, N, li
  <2>3. Loops(N, li, p, w)
    BY Zenon, <2>1, <2>2, LoopEnds
  <2> QED
    BY Zenon, <2>3 DEF Loops
<1>5. g = [fi \in 0..Size(Bits) |->
              IF fi > last.ip THEN <<>> ELSE <<Prefix(fi)>> \o g[fi + Size(Widest(fi, last.ip))]]
  <2>1. \A fi \in 0..N : p[fi] = Prefix(fi) /\ w[fi] = Size(Widest(fi, last.ip))
    OBVIOUS
  <2> HIDE DEF p, w, Prefix
  <2> QED
    BY Zenon, <1>4, <2>1
<1>6. s = [fi \in 0..Size(Bits) |->
              IF fi > last.ip THEN <<>> ELSE <<Prefix(fi)>> \o s[fi + Size(Widest(fi, last.ip))]]
  BY Zenon, <1>5
<1>7. Summarize(first, last) = s[first.ip]
  BY DEF Summarize
<1> HIDE DEF s
<1>8. \A fi \in 0..N : s[fi] = IF fi > li THEN <<>> ELSE <<p[fi]>> \o s[fi + w[fi]]
  <2>1. \A fi \in 0..N : p[fi] = Prefix(fi) /\ w[fi] = Size(Widest(fi, last.ip))
    OBVIOUS
  <2> HIDE DEF p, w, Prefix
  <2> QED
    BY Zenon, <1>6, <2>1
<1> HIDE DEF p, w
<1> DEFINE Good(fi) == /\ s[fi] \in Seq(Block)
                       /\ \A f : \A ip \in 0..N - 1 :
                            (\E n : Has(s[fi], n) /\ ContainsIP(n, f, ip))
                               <=> f = family /\ ip \in fi..li
           U == {n \in Nat : n <= N => \A fi \in (N - n)..N : Good(fi)}
<1>9. ASSUME NEW fi \in 0..N, fi > li
      PROVE  Good(fi)
  <2>1. s[fi] = <<>> /\ s[fi] \in Seq(Block) /\ fi..li = {}
    <3>1. s[fi] = <<>>
      BY Zenon, <1>8, <1>9
    <3> QED
      BY <1>1, <1>9, <3>1
  <2>2. \A n : ~Has(s[fi], n)
    BY <2>1 DEF Has
  <2> QED
    BY Zenon, <2>1, <2>2
<1>10. ASSUME NEW fi \in 0..N, fi <= li, Good(fi + w[fi])
       PROVE  Good(fi)
  <2> DEFINE n0 == p[fi]
             t == s[fi + w[fi]]
  <2>1. /\ n0 \in Block /\ n0.ip = fi /\ n0.family = family /\ w[fi] = Size(n0.host)
        /\ w[fi] \in Nat \ {0} /\ fi + w[fi] <= li + 1
    <3>1. Prefix(fi).ip = fi /\ Prefix(fi).family = family
      OBVIOUS
    <3> HIDE DEF Prefix
    <3> QED
      BY Zenon, <1>2, <1>10, <3>1
  <2>2. s[fi] = <<n0>> \o t
    <3>1. ~(fi > li)
      BY <1>1, <1>10
    <3> QED
      BY Zenon, <1>8, <3>1
  <2>3. t \in Seq(Block) /\ <<n0>> \in Seq(Block) /\ \A n : Has(<<n0>>, n) <=> n = n0
    <3>1. t \in Seq(Block)
      BY <1>10
    <3> HIDE DEF n0, t
    <3> QED
      BY <2>1, <3>1 DEF Has
  <2>4. s[fi] \in Seq(Block) /\ \A n : Has(s[fi], n) <=> n = n0 \/ Has(t, n)
    <3> DEFINE one == <<n0>>
    <3> HIDE DEF t, one
    <3>1. one \o t \in Seq(Block) /\ \A n : Has(one \o t, n) <=> Has(one, n) \/ Has(t, n)
      <4>1. one \in Seq(Block) /\ t \in Seq(Block)
        BY Zenon, <2>3 DEF one
      <4> QED
        BY Zenon, <4>1, ConcatIs
    <3> QED
      BY Zenon, <2>2, <2>3, <3>1 DEF one
  <2>5. ASSUME NEW f, NEW ip \in 0..N - 1
        PROVE  ContainsIP(n0, f, ip) \/ (f = family /\ ip \in (fi + w[fi])..li)
                 <=> f = family /\ ip \in fi..li
    <3>1. ContainsIP(n0, f, ip) <=> f = family /\ fi <= ip /\ ip < fi + w[fi]
      <4>1. ip \in Nat
        BY <1>1
      <4> HIDE DEF n0
      <4> QED
        BY Zenon, <2>1, <4>1, BlockContains
    <3> HIDE DEF n0
    <3> QED
      BY <1>1, <1>10, <2>1, <3>1
  <2> HIDE DEF n0
  <2>6. \A f : \A ip \in 0..N - 1 :
          (\E n : Has(t, n) /\ ContainsIP(n, f, ip)) <=> f = family /\ ip \in (fi + w[fi])..li
    BY Zenon, <1>10
  <2> HIDE DEF t
  <2> QED
    BY Zenon, <2>4, <2>5, <2>6
<1> HIDE DEF Good
<1>11. 0 \in U
  <2>1. \A fi \in (N - 0)..N : fi \in 0..N /\ fi > li
    BY <1>1
  <2> QED
    BY <1>9, <2>1
<1>12. ASSUME NEW n \in Nat, n \in U
       PROVE  n + 1 \in U
  <2> SUFFICES ASSUME n + 1 <= N, NEW fi \in (N - (n + 1))..N
               PROVE  Good(fi)
    OBVIOUS
  <2>1. fi \in 0..N /\ (fi > li \/ fi <= li)
    BY <1>1
  <2>2. CASE fi > li
    BY <1>9, <2>1, <2>2
  <2>3. CASE fi <= li
    <3>1. w[fi] \in Nat \ {0} /\ fi + w[fi] <= N
      BY <1>3, <2>1, <2>3
    <3>2. fi + w[fi] \in (N - n)..N /\ n <= N
      BY <1>1, <3>1
    <3>3. Good(fi + w[fi])
      BY Zenon, <1>12, <3>2
    <3> QED
      BY <1>10, <2>1, <2>3, <3>3
  <2> QED
    BY <2>1, <2>2, <2>3
<1> HIDE DEF U
<1>13. N \in U /\ N <= N /\ first.ip \in (N - N)..N
  BY <1>1, <1>11, <1>12, InductiveSet
<1>14. Good(first.ip)
  BY Zenon, <1>13 DEF U
<1> QED
  BY Zenon, <1>7, <1>14 DEF Good

(* None and Bad are neither numbers nor entries.                           *)
LEMMA NothingElse ==
    /\ Bad \notin Int /\ None \notin Int /\ Bad \notin Entry /\ None # Bad
    /\ None \notin openResult
BY NothingAssumption

(* The two kinds of entries.                                               *)
LEMMA EntryIs ==
    ASSUME NEW cidr \in Entry
    PROVE  \/ Len(cidr) = 1 /\ cidr[1] \in Net
           \/ Len(cidr) = 2 /\ cidr[1] \in Addr /\ cidr[2] \in Addr
<1>1. CASE cidr \in [1..1 -> Net]
  <2>1. Len(cidr) = 1
    BY <1>1
  <2> QED
    BY <1>1, <2>1
<1>2. CASE cidr \in [1..2 -> Addr]
  <2>1. Len(cidr) = 2
    BY <1>2
  <2> QED
    BY <1>2, <2>1
<1> QED
  BY Zenon, <1>1, <1>2 DEF Entry

(* Two addresses have the same prefix if the code cuts them to the same.   *)
LEMMA MaskedSame ==
    ASSUME NEW h \in 0..31, NEW a \in Nat, NEW b \in Nat
    PROVE  Masked(a, h) = Masked(b, h) <=> a \div Size(h) = b \div Size(h)
<1> DEFINE z == Size(h)
<1>1. z \in Nat \ {0}
  BY SizeTwice
<1> HIDE DEF z
<1>2. /\ a - (a % z) = z * (a \div z) /\ b - (b % z) = z * (b \div z)
      /\ a \div z \in Int /\ b \div z \in Int
  BY <1>1
<1>3. \A i, j \in Int : z * i = z * j <=> i = j
  BY <1>1
<1>4. a - (a % z) = b - (b % z) <=> a \div z = b \div z
  BY Zenon, <1>2, <1>3
<1> QED
  BY <1>4 DEF z, Masked

(* A prefix and a range stand for the addresses they are meant to include. *)
LEMMA ParseCIDRIs ==
    ASSUME NEW cidr \in Entry
    PROVE  /\ parseCIDR(cidr) \in Seq(Block)
           /\ \A lbIP \in Addr :
                 (\E n : Has(parseCIDR(cidr), n) /\ ContainsIP(n, lbIP.family, lbIP.ip))
                    <=> Includes(cidr, lbIP)
<1>1. cidr # Bad
  BY Zenon, NothingElse
<1>2. CASE Len(cidr) = 1 /\ cidr[1] \in Net
  <2> DEFINE c == cidr[1]
             m == Masked(c.ip, c.host)
             n0 == [c EXCEPT !.ip = m]
  <2>1. parseCIDR(cidr) = <<n0>>
    BY <1>1, <1>2 DEF parseCIDR
  <2>2. /\ c \in Net /\ c.host \in 0..Bits /\ c.host \in 0..31 /\ c.ip \in Nat
        /\ c.ip \in 0..Size(Bits) - 1 /\ Size(Bits) \in Nat
    BY <1>2, ConfigAssumption, SizeTwice DEF Net
  <2>3. m \in 0..Size(Bits) - 1 /\ Aligned(m, c.host)
    <3>1. m \in Nat /\ m <= c.ip /\ Aligned(m, c.host)
      BY Zenon, <2>2, MaskedBlock
    <3> HIDE DEF c, m
    <3> QED
      BY <2>2, <3>1
  <2>4. n0 \in Block /\ n0.family = c.family /\ n0.host = c.host /\ n0.ip = m
    <3> HIDE DEF c, m
    <3> QED
      BY <2>2, <2>3 DEF Block, Net
  <2>5. parseCIDR(cidr) \in Seq(Block) /\ \A n : Has(parseCIDR(cidr), n) <=> n = n0
    <3> HIDE DEF n0
    <3> QED
      BY <2>1, <2>4 DEF Has
  <2> HIDE DEF n0
  <2>6. ASSUME NEW lbIP \in Addr
        PROVE  ContainsIP(n0, lbIP.family, lbIP.ip) <=> Includes(cidr, lbIP)
    <3>1. lbIP.ip \in Nat
      BY ConfigAssumption, SizeTwice DEF Addr
    <3>2. Masked(lbIP.ip, c.host) = Masked(c.ip, c.host)
             <=> lbIP.ip \div Size(c.host) = c.ip \div Size(c.host)
      BY Zenon, <2>2, <3>1, MaskedSame
    <3>3. Len(cidr) # 2
      BY <1>2
    <3> QED
      BY Zenon, <1>2, <2>4, <3>2, <3>3 DEF ContainsIP, Includes
  <2> QED
    BY Zenon, <2>5, <2>6
<1>3. CASE Len(cidr) = 2 /\ cidr[1] \in Addr /\ cidr[2] \in Addr
  <2> DEFINE first == cidr[1]
             last == cidr[2]
  <2>1. parseCIDR(cidr) = Summarize(first, last) /\ Len(cidr) # 1
    BY <1>1, <1>3 DEF parseCIDR
  <2>2. CASE first.family = last.family
    <3>1. ASSUME NEW lbIP \in Addr
          PROVE  /\ lbIP.ip \in 0..Size(Bits) - 1
                 /\ Includes(cidr, lbIP)
                       <=> lbIP.family = first.family /\ lbIP.ip \in first.ip..last.ip
      <4>1. lbIP.ip \in 0..Size(Bits) - 1
        BY DEF Addr
      <4> QED
        BY Zenon, <1>3, <2>1, <2>2, <4>1 DEF Includes
    <3>2. /\ Summarize(first, last) \in Seq(Block)
          /\ \A family : \A ip \in 0..Size(Bits) - 1 :
                (\E n : Has(Summarize(first, last), n) /\ ContainsIP(n, family, ip))
                   <=> family = first.family /\ ip \in first.ip..last.ip
      <4> HIDE DEF first, last
      <4> QED
        BY Zenon, <1>3, <2>2, SummarizeIs DEF first, last
    <3> HIDE DEF first, last
    <3> QED
      BY Zenon, <2>1, <3>1, <3>2
  <2>3. CASE first.family # last.family
    <3>1. parseCIDR(cidr) = <<>>
      BY Zenon, <2>1, <2>3 DEF Summarize
    <3>2. parseCIDR(cidr) \in Seq(Block) /\ \A n : ~Has(parseCIDR(cidr), n)
      BY <3>1 DEF Has
    <3>3. \A lbIP \in Addr : ~Includes(cidr, lbIP)
      BY Zenon, <2>1, <2>3 DEF Includes
    <3> QED
      BY Zenon, <3>2, <3>3
  <2> QED
    BY <2>2, <2>3
<1> QED
  BY Zenon, <1>2, <1>3, EntryIs

-----------------------------------------------------------------------------
(***************************************************************************)
(* Pools.                                                                  *)
(***************************************************************************)

(* An aggregate is that of one address, or of an address in each prefix.   *)
IsAd(ad, cidrs) ==
    /\ ad.AggregationLength \in Int /\ IsFiniteSet(ad.Communities)
    /\ ad.AggregationLength = 32 \/ Aggregates(ad.AggregationLength, cidrs)

(* So are the advertisements that parseBGPAdvertisements lets pass.        *)
LEMMA AdsAre ==
    ASSUME NEW ads, NEW cidrs, NEW named,
           \A i \in DOMAIN ads : ads[i].AggregationLength \in Int \cup {None}
                                  /\ IsFiniteSet(ads[i].Communities),
           parseBGPAdvertisements(ads, cidrs, named) # None
    PROVE  \A k \in DOMAIN parseBGPAdvertisements(ads, cidrs, named) :
              IsAd(parseBGPAdvertisements(ads, cidrs, named)[k], cidrs)
<1> DEFINE Ad(ad) == [AggregationLength |-> Given(ad.AggregationLength, 32),
                      LocalPref |-> Given(ad.LocalPref, 0),
                      Communities |-> Communities(ad.Communities, named)]
           ret == [k \in DOMAIN ads |-> Ad(ads[k])]
           wrong == \E k \in DOMAIN ret : \/ ~Aggregates(ret[k].AggregationLength, cidrs)
                                          \/ None \in ret[k].Communities
           one == [AggregationLength |-> 32, LocalPref |-> 0, Communities |-> {}]
           out == parseBGPAdvertisements(ads, cidrs, named)
<1>1. out = CASE ads = <<>> -> <<one>> [] wrong -> None [] OTHER -> ret
  BY Zenon DEF parseBGPAdvertisements
<1>2. CASE ads = <<>>
  <2>1. ~wrong
    <3> HIDE DEF Ad
    <3> QED
      BY <1>2
  <2>2. out = <<one>>
    <3> HIDE DEF one, wrong, ret, out
    <3> QED
      BY <1>1, <1>2, <2>1
  <2>3. IsAd(one, cidrs)
    BY FS_EmptySet DEF IsAd
  <2> HIDE DEF one, out
  <2>4. ASSUME NEW k \in DOMAIN out
        PROVE  IsAd(out[k], cidrs)
    <3>1. out[k] = one
      BY <2>2
    <3> QED
      BY Zenon, <2>3, <3>1
  <2> QED
    BY Zenon, <2>4 DEF out
<1>3. CASE ads # <<>>
  <2>1. ~wrong /\ out = ret
    <3> HIDE DEF one, wrong, ret
    <3> QED
      BY <1>1, <1>3
  <2>2. ASSUME NEW k \in DOMAIN ads
        PROVE  IsAd(Ad(ads[k]), cidrs)
    <3>1. Aggregates(Ad(ads[k]).AggregationLength, cidrs)
      <4>1. k \in DOMAIN ret /\ ret[k] = Ad(ads[k])
        OBVIOUS
      <4> HIDE DEF ret, Ad
      <4> QED
        BY Zenon, <2>1, <4>1
    <3>2. Ad(ads[k]).AggregationLength \in Int
      BY DEF Given
    <3>3. IsFiniteSet(Ad(ads[k]).Communities)
      <4> DEFINE cs == ads[k].Communities
                 F(c) == IF c \in DOMAIN named THEN named[c] ELSE parseCommunity(c)
                 f == [c \in cs |-> F(c)]
      <4>1. IsFiniteSet(cs)
        OBVIOUS
      <4>2. Ad(ads[k]).Communities = {f[c] : c \in cs}
        <5>1. Ad(ads[k]).Communities = {F(c) : c \in cs}
          BY Zenon DEF Communities
        <5> HIDE DEF F, Ad
        <5>2. \A c \in cs : f[c] = F(c)
          OBVIOUS
        <5> HIDE DEF f, cs
        <5>3. {F(c) : c \in cs} = {f[c] : c \in cs}
          BY <5>2
        <5> QED
          BY Zenon, <5>1, <5>3
      <4>3. {f[c] : c \in cs} = {f[c] : c \in DOMAIN f} /\ f \in Surjection(cs, {f[c] : c \in cs})
        <5> HIDE DEF F
        <5> QED
          BY DEF Surjection
      <4> HIDE DEF cs, f, Ad
      <4>4. IsFiniteSet({f[c] : c \in cs})
        BY Zenon, <4>1, <4>3, FS_Surjection
      <4> QED
        BY Zenon, <4>2, <4>4
    <3> HIDE DEF Ad
    <3> QED
      BY Zenon, <3>1, <3>2, <3>3 DEF IsAd
  <2>3. \A k \in DOMAIN ret : k \in DOMAIN ads /\ ret[k] = Ad(ads[k])
    <3> HIDE DEF Ad
    <3> QED
      OBVIOUS
  <2> HIDE DEF Ad, ret, out
  <2> QED
    BY Zenon, <2>1, <2>2, <2>3 DEF out
<1> QED
  BY <1>2, <1>3

(* The prefixes of a pool.                                                 *)
LEMMA NetsAre ==
    ASSUME NEW addresses \in Seq(Entry), NEW nets,
           nets = [k \in DOMAIN addresses |-> parseCIDR(addresses[k])]
    PROVE  /\ Appended(nets) \in Seq(Block)
           /\ \A lbIP \in Addr :
                 (\E n : Has(Appended(nets), n) /\ ContainsIP(n, lbIP.family, lbIP.ip))
                    <=> \E i \in DOMAIN addresses : Includes(addresses[i], lbIP)
<1>1. /\ Len(addresses) \in Nat /\ DOMAIN addresses = 1..Len(addresses)
      /\ \A k \in DOMAIN addresses : addresses[k] \in Entry
  OBVIOUS
<1>2. nets = [k \in 1..Len(addresses) |-> nets[k]] /\ Len(nets) = Len(addresses)
  <2> DEFINE f == [k \in 1..Len(addresses) |-> parseCIDR(addresses[k])]
  <2>1. nets = f
    BY Zenon, <1>1
  <2>2. f = [k \in 1..Len(addresses) |-> f[k]] /\ Len(f) = Len(addresses)
    BY <1>1
  <2> HIDE DEF f
  <2> QED
    BY Zenon, <2>1, <2>2
<1>3. \A k \in 1..Len(nets) : nets[k] = parseCIDR(addresses[k]) /\ nets[k] \in Seq(Block)
  BY Zenon, <1>1, <1>2, ParseCIDRIs
<1>4. /\ Appended(nets) \in Seq(Block)
      /\ \A x : Has(Appended(nets), x) <=> \E k \in 1..Len(nets) : Has(nets[k], x)
  <2>1. Len(nets) \in Nat /\ nets = [k \in 1..Len(nets) |-> nets[k]]
    BY Zenon, <1>1, <1>2
  <2> QED
    BY Zenon, <1>3, <2>1, AppendedIs
<1>5. ASSUME NEW lbIP \in Addr, NEW k \in 1..Len(nets)
      PROVE  (\E n : Has(nets[k], n) /\ ContainsIP(n, lbIP.family, lbIP.ip))
                <=> Includes(addresses[k], lbIP)
  BY Zenon, <1>1, <1>2, <1>3, ParseCIDRIs
<1> QED
  BY Zenon, <1>1, <1>2, <1>4, <1>5

(* A pool that passes has exactly the addresses written down for it, and   *)
(* its aggregates do not reach beyond its prefixes.                        *)
LEMMA PoolIs ==
    ASSUME NEW p, NEW named, IsPool(p), parseAddressPool(p, named) # None
    PROVE  LET pool == parseAddressPool(p, named)
           IN /\ pool.CIDR \in Seq(Block)
              /\ \A lbIP \in Addr :
                    InPool(pool, lbIP) <=> \E i \in DOMAIN p.Addresses : Includes(p.Addresses[i], lbIP)
              /\ \A k \in DOMAIN pool.BGPAdvertisements :
                    IsAd(pool.BGPAdvertisements[k], pool.CIDR)
<1> DEFINE nets == [k \in DOMAIN p.Addresses |-> parseCIDR(p.Addresses[k])]
           cidrs == Appended(nets)
           Pool(ads) == [Protocol |-> p.Protocol, CIDR |-> cidrs,
                         AvoidBuggyIPs |-> p.AvoidBuggyIPs,
                         AutoAssign |-> Given(p.AutoAssign, TRUE), BGPAdvertisements |-> ads]
           wrong == \/ p.Name = None
                    \/ p.Addresses = <<>>
                    \/ \E k \in DOMAIN nets : nets[k] = None
           given == parseBGPAdvertisements(p.BGPAdvertisements, cidrs, named)
           pool == parseAddressPool(p, named)
<1>1. pool = CASE wrong -> None
               [] OTHER ->
                  CASE p.Protocol = "layer2" -> IF p.BGPAdvertisements = <<>> THEN Pool(<<>>) ELSE None
                    [] p.Protocol = "bgp" -> IF given = None THEN None ELSE Pool(given)
                    [] OTHER -> None
  BY Zenon DEF parseAddressPool
<1>2. ~wrong /\ (pool = Pool(<<>>) \/ (pool = Pool(given) /\ given # None))
  <2> HIDE DEF wrong, given, pool, Pool
  <2>1. pool # None
    BY DEF pool
  <2> QED
    BY <1>1, <2>1
<1>3. \A ads : Pool(ads).CIDR = cidrs /\ Pool(ads).BGPAdvertisements = ads
  <2> HIDE DEF cidrs
  <2> QED
    OBVIOUS
<1>4. p.Addresses \in Seq(Entry)
  <2>1. p.Addresses \in Seq(Entry \cup {Bad})
    BY DEF IsPool
  <2>2. ASSUME NEW k \in DOMAIN p.Addresses
        PROVE  p.Addresses[k] # Bad
    <3>1. nets[k] # None /\ nets[k] = parseCIDR(p.Addresses[k])
      <4>1. k \in DOMAIN nets /\ nets[k] = parseCIDR(p.Addresses[k])
        OBVIOUS
      <4> HIDE DEF nets, Pool, given, pool
      <4> QED
        BY Zenon, <1>2, <4>1
    <3> QED
      BY Zenon, <3>1 DEF parseCIDR
  <2> QED
    BY <2>1, <2>2
<1> HIDE DEF Pool, wrong, given
<1>5. /\ cidrs \in Seq(Block)
      /\ \A lbIP \in Addr :
            (\E n : Has(cidrs, n) /\ ContainsIP(n, lbIP.family, lbIP.ip))
               <=> \E i \in DOMAIN p.Addresses : Includes(p.Addresses[i], lbIP)
  BY Zenon, <1>4, NetsAre
<1> HIDE DEF cidrs, pool
<1>6. pool.CIDR = cidrs
  BY Zenon, <1>2, <1>3
<1>7. \A lbIP : InPool(pool, lbIP)
                  <=> \E n : Has(cidrs, n) /\ ContainsIP(n, lbIP.family, lbIP.ip)
  BY Zenon, <1>6 DEF InPool, Has
<1>8. \A k \in DOMAIN pool.BGPAdvertisements : IsAd(pool.BGPAdvertisements[k], cidrs)
  <2>1. CASE pool = Pool(<<>>)
    <3>1. pool.BGPAdvertisements = <<>>
      BY Zenon, <1>3, <2>1
    <3> QED
      BY <3>1
  <2>2. CASE pool = Pool(given) /\ given # None
    <3>1. pool.BGPAdvertisements = given
      BY Zenon, <1>3, <2>2
    <3>2. \A k \in DOMAIN given : IsAd(given[k], cidrs)
      BY Zenon, <2>2, AdsAre DEF IsPool, given
    <3> QED
      BY Zenon, <3>1, <3>2
  <2> QED
    BY Zenon, <1>2, <2>1, <2>2
<1> QED
  BY Zenon, <1>5, <1>6, <1>7, <1>8 DEF pool

-----------------------------------------------------------------------------
(***************************************************************************)
(* Overlap.                                                                *)
(***************************************************************************)

(* The code's test finds two prefixes to overlap only if they do.          *)
LEMMA OverlapOnly ==
    ASSUME NEW m \in Block, NEW n \in Block, cidrContainsCIDR(m, n)
    PROVE  Share(m, n) /\ Share(n, m)
<1>1. /\ m.ip \in Nat /\ n.ip \in Nat /\ Size(m.host) \in Nat \ {0} /\ Size(n.host) \in Nat \ {0}
  BY ConfigAssumption, SizeTwice DEF Block, Net
<1>2. CASE m.family = n.family /\ m.ip = n.ip
  BY <1>1, <1>2 DEF Share, Top
<1>3. CASE ContainsIP(m, n.family, n.ip)
  <2>1. m.family = n.family /\ m.ip <= n.ip /\ n.ip < m.ip + Size(m.host)
    BY Zenon, <1>1, <1>3, BlockContains
  <2> QED
    BY <1>1, <2>1 DEF Share, Top
<1> QED
  BY Zenon, <1>2, <1>3 DEF cidrContainsCIDR

(* And it does if they are written alike: the wider contains the other.    *)
LEMMA OverlapFound ==
    ASSUME NEW m \in Block, NEW n \in Block, Share(m, n), m.mask = n.mask, m.host <= n.host
    PROVE  cidrContainsCIDR(n, m)
<1>1. /\ m.ip \in Nat /\ n.ip \in Nat /\ m.host \in 0..31 /\ n.host \in m.host..31
      /\ m.mask \in Int /\ Aligned(m.ip, m.host) /\ Aligned(n.ip, n.host) /\ m.family = n.family
  BY ConfigAssumption, SizeTwice DEF Block, Net, Share
<1>2. Size(m.host) \in Nat \ {0} /\ Size(n.host) \in Nat \ {0}
  BY <1>1, SizeTwice
<1>3. m.ip < n.ip + Size(n.host) /\ n.ip < m.ip + Size(m.host)
  BY <1>1, <1>2 DEF Share, Top
<1>4. n.ip <= m.ip /\ m.ip + Size(m.host) <= n.ip + Size(n.host)
  <2>1. m.ip \in Int /\ n.ip \in Int
    BY <1>1
  <2> QED
    BY Zenon, <1>1, <1>3, <2>1, BlockInside
<1>5. CASE m.host = n.host
  <2>1. m.ip = n.ip
    BY <1>1, <1>2, <1>4, <1>5
  <2> QED
    BY Zenon, <1>1, <1>5, <2>1 DEF cidrContainsCIDR, ones
<1>6. CASE m.host # n.host
  <2>1. n.mask - n.host < m.mask - m.host
    BY <1>1, <1>6
  <2>2. ContainsIP(n, m.family, m.ip)
    BY Zenon, <1>1, <1>3, <1>4, BlockContains
  <2> QED
    BY Zenon, <2>1, <2>2 DEF cidrContainsCIDR, ones
<1> QED
  BY <1>5, <1>6

(* Both, of a list of prefixes.                                            *)
LEMMA OverlapIs ==
    ASSUME NEW all \in Seq(Block)
    PROVE  /\ Overlap(all) => \E i, j \in DOMAIN all : i < j /\ Share(all[i], all[j])
           /\ (\E i, j \in DOMAIN all :
                  i < j /\ Share(all[i], all[j]) /\ all[i].mask = all[j].mask) => Overlap(all)
<1>1. \A i \in DOMAIN all : all[i] \in Block
  OBVIOUS
<1>2. ASSUME NEW i \in DOMAIN all, NEW j \in DOMAIN all, cidrsOverlap(all[i], all[j])
      PROVE  Share(all[i], all[j])
  BY Zenon, <1>1, <1>2, OverlapOnly DEF cidrsOverlap
<1>3. ASSUME NEW i \in DOMAIN all, NEW j \in DOMAIN all, Share(all[i], all[j]),
             all[i].mask = all[j].mask
      PROVE  cidrsOverlap(all[i], all[j])
  <2> DEFINE m == all[i]
             n == all[j]
  <2>1. m \in Block /\ n \in Block
    BY <1>1
  <2> HIDE DEF m, n
  <2>2. m.host <= n.host \/ n.host <= m.host
    BY <2>1, ConfigAssumption DEF Block, Net
  <2>3. Share(n, m) /\ Share(m, n) /\ m.mask = n.mask
    BY Zenon, <1>3 DEF Share, m, n
  <2>4. cidrContainsCIDR(m, n) \/ cidrContainsCIDR(n, m)
    BY Zenon, <2>1, <2>2, <2>3, OverlapFound
  <2> QED
    BY Zenon, <2>4 DEF cidrsOverlap, m, n
<1> QED
  BY Zenon, <1>2, <1>3 DEF Overlap

-----------------------------------------------------------------------------
(***************************************************************************)
(* The file.                                                               *)
(***************************************************************************)

(* What the session relies on, of a peer.                                  *)
Configured(peer) ==
    /\ peer.MyASN \in Nat /\ peer.ASN \in Nat /\ peer.Addr \in {4, 6}
    /\ peer.HoldTime \in Nat \ {1, 2} /\ peer.RouterID \in {4, 6, None}

(* A hold time that passes is one that BGP knows.                          *)
LEMMA HoldTimeIs ==
    ASSUME NEW ht \in Int \cup {None, Bad}, parseHoldTime(ht) # None
    PROVE  parseHoldTime(ht) \in Nat \ {1, 2}
<1>1. CASE ht = None
  BY <1>1 DEF parseHoldTime
<1>2. CASE ht # None
  <2>1. ht # Bad /\ parseHoldTime(ht) = Seconds(ht) /\ ~(Seconds(ht) # 0 /\ Seconds(ht) < 3)
    BY Zenon, <1>2 DEF parseHoldTime
  <2>2. Seconds(ht) \in Int
    BY <1>2, <2>1 DEF Seconds
  <2> QED
    BY <2>1, <2>2
<1> QED
  BY <1>1, <1>2

(* A peer that passes.                                                     *)
LEMMA PeerIs ==
    ASSUME NEW p, IsPeer(p), parsePeer(p) # None
    PROVE  Configured(parsePeer(p))
<1> DEFINE holdTime == parseHoldTime(p.HoldTime)
           sels == {parseNodeSelector(p.NodeSelectors[k]) : k \in DOMAIN p.NodeSelectors}
           peer == [MyASN |-> p.MyASN, ASN |-> p.ASN, Addr |-> p.Addr, HoldTime |-> holdTime,
                    Port |-> IF p.Port = 0 THEN 179 ELSE p.Port, RouterID |-> p.RouterID,
                    selects |-> IF sels = {} THEN Labels ELSE UNION sels]
<1>1. /\ parsePeer(p) = peer /\ p.Addr # Bad /\ holdTime # None /\ p.RouterID # Bad
  BY Zenon DEF parsePeer
<1>2. holdTime \in Nat \ {1, 2}
  BY Zenon, <1>1, HoldTimeIs DEF IsPeer
<1>3. /\ peer.MyASN = p.MyASN /\ peer.ASN = p.ASN /\ peer.Addr = p.Addr
      /\ peer.HoldTime = holdTime /\ peer.RouterID = p.RouterID
  <2> HIDE DEF sels, holdTime
  <2> QED
    OBVIOUS
<1> HIDE DEF peer, holdTime
<1> QED
  BY Zenon, <1>1, <1>2, <1>3 DEF Configured, IsPeer

(* The prefixes of all pools, where each would do by itself.               *)
LEMMA AllAre ==
    ASSUME NEW r, IsFile(r), Acceptable(r)
    PROVE  allCIDRs(poolsOf(r)) \in Seq(Block)
<1> DEFINE pools == poolsOf(r)
           N == Len(r.Pools)
           ss == [k \in DOMAIN pools |-> pools[k].CIDR]
<1>1. N \in Nat /\ r.Pools = [k \in 1..N |-> r.Pools[k]]
  BY Zenon DEF IsFile
<1>2. DOMAIN r.Pools = 1..N
  BY Zenon, <1>1
<1>3. DOMAIN pools = 1..N /\ \A k \in 1..N : pools[k] = parseAddressPool(r.Pools[k], communitiesOf(r))
  BY Zenon, <1>2 DEF poolsOf
<1>4. ASSUME NEW k \in 1..N
      PROVE  pools[k].CIDR \in Seq(Block)
  <2>1. pools[k] # None /\ IsPool(r.Pools[k])
    BY Zenon, <1>2 DEF Acceptable, IsFile
  <2>2. pools[k] = parseAddressPool(r.Pools[k], communitiesOf(r))
    BY Zenon, <1>3
  <2> HIDE DEF pools
  <2> QED
    BY Zenon, <2>1, <2>2, PoolIs
<1> HIDE DEF pools, N
<1>5. Len(ss) = N /\ ss = [k \in 1..Len(ss) |-> ss[k]] /\ \A k \in 1..N : ss[k] \in Seq(Block)
  <2> DEFINE f == [k \in 1..N |-> pools[k].CIDR]
  <2>1. ss = f
    BY Zenon, <1>3
  <2>2. Len(f) = N /\ f = [k \in 1..N |-> f[k]]
    BY <1>1
  <2>3. \A k \in 1..N : f[k] \in Seq(Block)
    BY Zenon, <1>4
  <2> HIDE DEF f, ss
  <2> QED
    BY Zenon, <2>1, <2>2, <2>3
<1> HIDE DEF ss
<1>6. Appended(ss) \in Seq(Block)
  BY Zenon, <1>1, <1>5, AppendedIs
<1> QED
  BY Zenon, <1>6 DEF allCIDRs, ss, pools

(* What becomes of the file: its peers, and its pools by their names.      *)
LEMMA FileIs ==
    ASSUME NEW r, IsFile(r), Accepts(r)
    PROVE  /\ Parse(r).Peers = peersOf(r)
           /\ \A k \in DOMAIN peersOf(r) : Configured(peersOf(r)[k])
           /\ \A k \in DOMAIN r.Pools : Parse(r).Pools[r.Pools[k].Name] = poolsOf(r)[k]
           /\ \A n \in DOMAIN Parse(r).Pools :
                 \E k \in DOMAIN r.Pools : Parse(r).Pools[n] = poolsOf(r)[k]
           /\ \A k \in DOMAIN r.Pools :
                 /\ IsPool(r.Pools[k]) /\ poolsOf(r)[k] # None
                 /\ poolsOf(r)[k] = parseAddressPool(r.Pools[k], communitiesOf(r))
<1> DEFINE Name(k) == r.Pools[k].Name
           pools == [n \in {Name(k) : k \in DOMAIN r.Pools} |->
                        poolsOf(r)[CHOOSE k \in DOMAIN r.Pools : Name(k) = n]]
           peers == peersOf(r)
<1>1. Parse(r) = [Peers |-> peers, Pools |-> pools]
  BY Zenon DEF Parse
<1>2. Parse(r).Peers = peers /\ Parse(r).Pools = pools
  <2> HIDE DEF peers, pools
  <2> QED
    BY <1>1
<1>3. Acceptable(r)
  BY DEF Accepts
<1>4. ASSUME NEW k \in DOMAIN r.Pools
      PROVE  (CHOOSE j \in DOMAIN r.Pools : Name(j) = Name(k)) = k
  <2> DEFINE c == CHOOSE j \in DOMAIN r.Pools : Name(j) = Name(k)
  <2>1. c \in DOMAIN r.Pools /\ Name(c) = Name(k)
    BY Zenon
  <2>2. \A i, j \in DOMAIN r.Pools : i < j => Name(i) # Name(j)
    BY Zenon, <1>3 DEF Acceptable
  <2>3. c \in Int /\ k \in Int
    <3>1. /\ Len(r.Pools) \in Nat /\ DOMAIN r.Pools = 1..Len(r.Pools)
      BY Zenon DEF IsFile
    <3> HIDE DEF c
    <3> QED
      BY <2>1, <3>1
  <2> HIDE DEF c, Name
  <2>4. ~(c < k) /\ ~(k < c)
    BY Zenon, <2>1, <2>2
  <2> QED
    BY <2>3, <2>4 DEF c
<1>5. \A k \in DOMAIN r.Pools : pools[Name(k)] = poolsOf(r)[k]
  <2> HIDE DEF Name
  <2> QED
    BY Zenon, <1>4
<1>6. \A n \in DOMAIN pools : \E k \in DOMAIN r.Pools : n = Name(k)
  <2> HIDE DEF Name
  <2> QED
    BY Zenon
<1>7. \A k \in DOMAIN peers : Configured(peers[k])
  <2>1. \A k \in DOMAIN peers : k \in DOMAIN r.Peers /\ peers[k] = parsePeer(r.Peers[k])
    BY Zenon DEF peersOf
  <2>2. \A k \in DOMAIN r.Peers : peers[k] # None /\ IsPeer(r.Peers[k])
    BY Zenon, <1>3 DEF Acceptable, IsFile
  <2> HIDE DEF peers
  <2> QED
    BY Zenon, <2>1, <2>2, PeerIs
<1>8. ASSUME NEW k \in DOMAIN r.Pools
      PROVE  /\ IsPool(r.Pools[k]) /\ poolsOf(r)[k] # None
             /\ poolsOf(r)[k] = parseAddressPool(r.Pools[k], communitiesOf(r))
  <2>1. IsPool(r.Pools[k]) /\ poolsOf(r)[k] # None
    BY Zenon, <1>3 DEF Acceptable, IsFile
  <2>2. poolsOf(r)[k] = parseAddressPool(r.Pools[k], communitiesOf(r))
    BY Zenon DEF poolsOf
  <2> QED
    BY Zenon, <2>1, <2>2
<1> HIDE DEF pools, peers
<1> QED
  BY Zenon, <1>2, <1>5, <1>6, <1>7, <1>8 DEF peers

-----------------------------------------------------------------------------
(***************************************************************************)
(* OPEN.                                                                   *)
(***************************************************************************)

(* One option is read.                                                     *)
Step(r, o) == IF r = None \/ o[1] # 2 THEN None ELSE readCapabilities(o[2], r)

(* The loop of readOptions takes one option after the other.               *)
LEMMA ReadLoop ==
    ASSUME NEW options, Len(options) \in Nat, NEW ret
    PROVE  \E t : /\ t[0] = ret
                  /\ \A k \in 1..Len(options) : t[k] = Step(t[k - 1], options[k])
                  /\ readOptions(options, ret) = t[Len(options)]
<1> DEFINE T == {n \in Nat : \E g : g = [k \in 0..n |-> IF k = 0 THEN ret ELSE Step(g[k - 1], options[k])]}
           step(r, o) == IF r = None \/ o[1] # 2 THEN None ELSE readCapabilities(o[2], r)
           read[k \in 0..Len(options)] == IF k = 0 THEN ret ELSE step(read[k - 1], options[k])
<1>1. 0 \in T
  <2> DEFINE g == [k \in 0..0 |-> ret]
  <2>1. g = [k \in 0..0 |-> IF k = 0 THEN ret ELSE Step(g[k - 1], options[k])]
    OBVIOUS
  <2>2. 0 \in Nat
    OBVIOUS
  <2> HIDE DEF g
  <2> QED
    BY Zenon, <2>1, <2>2
<1>2. ASSUME NEW n \in Nat, n \in T
      PROVE  n + 1 \in T
  <2>1. PICK g : g = [k \in 0..n |-> IF k = 0 THEN ret ELSE Step(g[k - 1], options[k])]
    BY Zenon, <1>2
  <2> DEFINE new == Step(g[n], options[n + 1])
             h == [k \in 0..(n + 1) |-> IF k = n + 1 THEN new ELSE g[k]]
  <2> HIDE DEF new
  <2>2. ASSUME NEW k \in 0..(n + 1)
        PROVE  h[k] = IF k = 0 THEN ret ELSE Step(h[k - 1], options[k])
    <3>1. CASE k = n + 1
      <4>1. h[k] = new /\ k # 0 /\ h[k - 1] = g[n]
        BY <3>1
      <4> HIDE DEF h
      <4> QED
        BY Zenon, <3>1, <4>1 DEF new
    <3>2. CASE k # n + 1
      <4>1. k \in 0..n /\ h[k] = g[k] /\ (k # 0 => h[k - 1] = g[k - 1])
        BY <3>2
      <4>2. g[k] = IF k = 0 THEN ret ELSE Step(g[k - 1], options[k])
        BY Zenon, <2>1, <4>1
      <4> HIDE DEF h
      <4> QED
        BY Zenon, <4>1, <4>2
    <3> QED
      BY <3>1, <3>2
  <2>3. h = [k \in 0..(n + 1) |-> h[k]] /\ n + 1 \in Nat
    OBVIOUS
  <2> HIDE DEF h
  <2>4. h = [k \in 0..(n + 1) |-> IF k = 0 THEN ret ELSE Step(h[k - 1], options[k])]
    BY Zenon, <2>2, <2>3
  <2> QED
    BY Zenon, <2>3, <2>4
<1> HIDE DEF T
<1>3. Len(options) \in T
  BY <1>1, <1>2, InductiveSet
<1>4. PICK g : g = [k \in 0..Len(options) |-> IF k = 0 THEN ret ELSE Step(g[k - 1], options[k])]
  BY Zenon, <1>3 DEF T
<1>5. g = [k \in 0..Len(options) |-> IF k = 0 THEN ret ELSE step(g[k - 1], options[k])]
  BY Zenon, <1>4 DEF Step
<1>6. read = [k \in 0..Len(options) |-> IF k = 0 THEN ret ELSE step(read[k - 1], options[k])]
  BY Zenon, <1>5
<1>7. readOptions(options, ret) = read[Len(options)]
  BY DEF readOptions
<1> HIDE DEF read
<1>8. \A r, o : step(r, o) = Step(r, o)
  BY Zenon DEF Step
<1> HIDE DEF step
<1>9. 0 \in 0..Len(options) /\ \A k \in 1..Len(options) : k \in 0..Len(options) /\ k # 0
  OBVIOUS
<1>10. read[0] = ret /\ \A k \in 1..Len(options) : read[k] = Step(read[k - 1], options[k])
  BY Zenon, <1>6, <1>8, <1>9
<1> QED
  BY Zenon, <1>7, <1>10

(* A set of numbers up to n has a greatest.                                *)
LEMMA MaxIs ==
    ASSUME NEW n \in Nat, NEW S \in SUBSET (1..n), S # {}
    PROVE  Max(S) \in S
<1> DEFINE Greatest(U) == \E x \in U : \A y \in U : x >= y
           T == {m \in Nat : \A U \in SUBSET (1..m) : U # {} => Greatest(U)}
<1>1. 0 \in T
  <2>1. 0 \in Nat /\ 1..0 = {}
    OBVIOUS
  <2> QED
    BY Zenon, <2>1
<1>2. ASSUME NEW m \in Nat, m \in T
      PROVE  m + 1 \in T
  <2> SUFFICES ASSUME NEW U \in SUBSET (1..(m + 1)), U # {}
               PROVE  Greatest(U)
    OBVIOUS
  <2>1. CASE m + 1 \in U
    BY <2>1
  <2>2. CASE m + 1 \notin U
    <3>1. U \in SUBSET (1..m)
      BY <2>2
    <3> QED
      BY Zenon, <1>2, <3>1
  <2> QED
    BY <2>1, <2>2
<1> HIDE DEF T
<1>3. n \in T
  BY <1>1, <1>2, InductiveSet
<1>4. Greatest(S)
  BY Zenon, <1>3 DEF T
<1> QED
  BY Zenon, <1>4 DEF Max

(* The fields of an OPEN that matter here.                                 *)
LEMMA OpenIs ==
    ASSUME NEW open \in Open
    PROVE  /\ open.asn \in Nat /\ open.ASN16 \in Nat /\ open.HoldTime \in Nat
           /\ open.options \in Seq(Option)
<1>1. /\ open.asn \in Nat \ {0} /\ open.ASN16 \in Word /\ open.HoldTime \in Word
      /\ open.options \in Seq(Option)
  BY Zenon DEF Open
<1> QED
  BY <1>1 DEF Word

(* What is read of an option, if it is: the hold time as it was, and the   *)
(* router's AS number as soon as one is told.                              *)
ReadOf(asn, caps, ret, r) ==
    /\ r # None => /\ r \in openResult /\ r.holdTime = ret.holdTime
                   /\ r.asn = IF \E i \in DOMAIN caps : Code(caps[i]) = 65 THEN asn ELSE ret.asn
    /\ (\A i \in DOMAIN caps : Code(caps[i]) \in {1, 65} => CapLen(caps[i]) = 4) => r # None

(* That is what readCapabilities makes of it.                              *)
LEMMA CapabilitiesAre ==
    ASSUME NEW open \in Open, Honest(open), NEW k \in DOMAIN open.options, NEW ret \in openResult,
           NEW caps, caps = open.options[k][2]
    PROVE  ReadOf(open.asn, caps, ret, readCapabilities(caps, ret))
<1> DEFINE asns == {i \in DOMAIN caps : Code(caps[i]) = 65}
           wrong == \E i \in DOMAIN caps : Code(caps[i]) \in {1, 65} /\ CapLen(caps[i]) # 4
           A == IF asns = {} THEN ret.asn ELSE caps[Max(asns)][3][1]
           B == ret.mp4 \/ \E i \in DOMAIN caps : caps[i] = MP(1)
           C == ret.mp6 \/ \E i \in DOMAIN caps : caps[i] = MP(2)
           r == [asn |-> A, holdTime |-> ret.holdTime, mp4 |-> B, mp6 |-> C]
<1>1. readCapabilities(caps, ret) = IF wrong THEN None ELSE r
  BY DEF readCapabilities
<1>2. open.asn \in Nat /\ open.options \in Seq(Option)
  BY OpenIs
<1>3. caps \in Seq((0..255) \X (0..255) \X Seq(Nat))
  <2>1. open.options[k] \in Option
    BY <1>2
  <2> QED
    BY <2>1 DEF Option
<1>4. Len(caps) \in Nat /\ asns \in SUBSET (1..Len(caps))
  BY <1>3
<1>5. asns # {} <=> \E i \in DOMAIN caps : Code(caps[i]) = 65
  BY Zenon
<1>6. ASSUME ~wrong
      PROVE  A = IF asns # {} THEN open.asn ELSE ret.asn
  <2>1. CASE asns = {}
    BY Zenon, <2>1
  <2>2. CASE asns # {}
    <3> DEFINE m == Max(asns)
    <3>1. m \in asns
      BY Zenon, <1>4, <2>2, MaxIs
    <3> HIDE DEF m
    <3>2. m \in DOMAIN caps /\ Code(caps[m]) = 65
      BY Zenon, <3>1
    <3>3. CapLen(caps[m]) = 4
      BY Zenon, <1>6, <3>2
    <3>4. caps[m] \in ASNs(open)
      <4>1. caps[m] \in Range(caps)
        BY Zenon, <3>2 DEF Range
      <4> QED
        BY Zenon, <3>2, <4>1 DEF ASNs
    <3>5. caps[m][3] = <<open.asn>>
      BY <3>3, <3>4 DEF Honest
    <3>6. caps[m][3][1] = open.asn
      BY <3>5
    <3> QED
      BY Zenon, <2>2, <3>6 DEF m
  <2> QED
    BY <2>1, <2>2
<1>7. B \in BOOLEAN /\ C \in BOOLEAN
  <2>1. ret.mp4 \in BOOLEAN /\ ret.mp6 \in BOOLEAN
    BY DEF openResult
  <2> QED
    BY Zenon, <2>1
<1> HIDE DEF A, B, C, asns
<1>8. ASSUME A \in Nat
      PROVE  r \in openResult /\ r.holdTime = ret.holdTime /\ r.asn = A
  <2>1. ret.holdTime \in Nat
    BY DEF openResult
  <2> QED
    BY <1>7, <1>8, <2>1 DEF openResult
<1>9. ASSUME ~wrong
      PROVE  A \in Nat
  <2>1. ret.asn \in Nat
    BY DEF openResult
  <2> QED
    BY Zenon, <1>2, <1>6, <1>9, <2>1
<1> HIDE DEF r
<1>10. ~wrong => r # None
  BY Zenon, <1>8, <1>9, NothingElse
<1> QED
  BY Zenon, <1>1, <1>5, <1>6, <1>8, <1>9, <1>10 DEF ReadOf

(* All options: the AS number that is read is the router's.                *)
LEMMA OptionsAre ==
    ASSUME NEW open \in Open, Honest(open), NEW ret \in openResult, ret.asn = open.ASN16
    PROVE  /\ readOptions(open.options, ret) # None =>
                 /\ readOptions(open.options, ret).holdTime = ret.holdTime
                 /\ readOptions(open.options, ret).asn = open.asn
           /\ Proper(open) => readOptions(open.options, ret) # None
<1> DEFINE options == open.options
           N == Len(options)
           Told(k) == \E i \in 1..k : \E j \in DOMAIN options[i][2] : Code(options[i][2][j]) = 65
<1>1. N \in Nat /\ DOMAIN options = 1..N
  <2>1. options \in Seq(Option)
    BY OpenIs
  <2> QED
    BY <2>1
<1>2. PICK t : /\ t[0] = ret
               /\ \A k \in 1..N : t[k] = Step(t[k - 1], options[k])
               /\ readOptions(options, ret) = t[N]
  BY Zenon, <1>1, ReadLoop
<1> DEFINE Good(k) == /\ t[k] # None => /\ t[k] \in openResult /\ t[k].holdTime = ret.holdTime
                                        /\ t[k].asn = IF Told(k) THEN open.asn ELSE open.ASN16
                      /\ Proper(open) => t[k] # None
           U == {k \in Nat : k <= N => Good(k)}
<1>3. 0 \in U
  <2>1. 0 \in Nat /\ 1..0 = {}
    OBVIOUS
  <2>2. ~Told(0)
    BY Zenon, <2>1
  <2> HIDE DEF Told
  <2>3. Good(0)
    BY Zenon, <1>2, <2>2, NothingElse
  <2> QED
    BY Zenon, <2>1, <2>3
<1>4. ASSUME NEW k \in Nat, k \in U
      PROVE  k + 1 \in U
  <2>1. k + 1 \in Nat /\ (k + 1 <= N => k <= N /\ k + 1 \in 1..N) /\ (k + 1) - 1 = k
    BY <1>1
  <2> SUFFICES ASSUME k + 1 <= N
               PROVE  Good(k + 1)
    BY Zenon, <2>1
  <2> DEFINE o == options[k + 1]
             caps == o[2]
             r == readCapabilities(caps, t[k])
  <2>2. Good(k)
    BY Zenon, <1>4, <2>1
  <2>3. t[k + 1] = IF t[k] = None \/ o[1] # 2 THEN None ELSE r
    BY Zenon, <1>2, <2>1 DEF Step
  <2>4. Told(k + 1) <=> Told(k) \/ \E i \in DOMAIN caps : Code(caps[i]) = 65
    <3>1. \A i : i \in 1..(k + 1) <=> i \in 1..k \/ i = k + 1
      OBVIOUS
    <3> QED
      BY Zenon, <3>1
  <2> HIDE DEF Told
  <2>5. CASE t[k] = None
    BY Zenon, <2>2, <2>3, <2>5
  <2>6. CASE t[k] # None
    <3>1. ReadOf(open.asn, caps, t[k], r)
      <4>1. k + 1 \in DOMAIN open.options /\ t[k] \in openResult /\ caps = open.options[k + 1][2]
        BY Zenon, <1>1, <2>1, <2>2, <2>6
      <4> HIDE DEF caps
      <4> QED
        BY Zenon, <4>1, CapabilitiesAre
    <3>2. Proper(open) => /\ o[1] = 2
                          /\ \A i \in DOMAIN caps : Code(caps[i]) \in {1, 65} => CapLen(caps[i]) = 4
      BY Zenon, <1>1, <2>1 DEF Proper
    <3> HIDE DEF r, caps, o
    <3> QED
      BY Zenon, <2>2, <2>3, <2>4, <2>6, <3>1, <3>2 DEF ReadOf
  <2> QED
    BY <2>5, <2>6
<1> HIDE DEF U
<1>5. N \in U /\ N <= N
  BY <1>1, <1>3, <1>4, InductiveSet
<1>6. Good(N)
  BY Zenon, <1>5 DEF U
<1>7. (IF Told(N) THEN open.asn ELSE open.ASN16) = open.asn
  <2>1. CASE open.asn <= 65535
    BY <2>1 DEF Honest
  <2>2. CASE open.asn > 65535
    <3>1. PICK cap \in ASNs(open) : TRUE
      BY <2>2 DEF Honest
    <3>2. PICK i \in DOMAIN options : cap \in Range(options[i][2])
      BY Zenon, <3>1 DEF ASNs
    <3>3. Code(cap) = 65
      BY Zenon, <3>1 DEF ASNs
    <3>4. PICK j \in DOMAIN options[i][2] : cap = options[i][2][j]
      BY Zenon, <3>2 DEF Range
    <3>5. Told(N)
      BY Zenon, <1>1, <3>2, <3>3, <3>4
    <3> QED
      BY Zenon, <3>5
  <2>3. open.asn \in Nat
    BY OpenIs
  <2> QED
    BY <2>1, <2>2, <2>3
<1> HIDE DEF Told
<1> QED
  BY Zenon, <1>2, <1>6, <1>7

(* What is read of a router's OPEN is what the router told.                *)
LEMMA ReadOpenIs ==
    ASSUME NEW open \in Open, Honest(open)
    PROVE  /\ readOpen(open) # None =>
                 /\ readOpen(open).holdTime = open.HoldTime /\ readOpen(open).asn = open.asn
                 /\ open.HoldTime \in Nat \ {1, 2}
           /\ Proper(open) => readOpen(open) # None
<1> DEFINE wrong == \/ open.Type # 1
                    \/ open.Len < 37
                    \/ open.Version # 4
                    \/ open.HoldTime # 0 /\ open.HoldTime < 3
           ret == [asn |-> open.ASN16, holdTime |-> open.HoldTime, mp4 |-> FALSE, mp6 |-> FALSE]
<1>1. readOpen(open) = IF wrong THEN None ELSE readOptions(open.options, ret)
  BY Zenon DEF readOpen
<1>2. open.ASN16 \in Nat /\ open.HoldTime \in Nat /\ open.Len \in Nat
  <2>1. open.Len \in Word
    BY Zenon DEF Open
  <2> QED
    BY <2>1, OpenIs DEF Word
<1>3. ret \in openResult /\ ret.asn = open.ASN16 /\ ret.holdTime = open.HoldTime
  BY <1>2 DEF openResult
<1>4. ~wrong => open.HoldTime \in Nat \ {1, 2}
  BY <1>2
<1>5. Proper(open) => ~wrong
  BY <1>2 DEF Proper
<1> HIDE DEF ret, wrong
<1> QED
  BY Zenon, <1>1, <1>3, <1>4, <1>5, OptionsAre

(* What is read of an OPEN of the speaker is what it was told to send.     *)
LEMMA SendOpenIs ==
    ASSUME NEW asn \in Nat, NEW ht \in Nat \ {1, 2}, ht < 2^16
    PROVE  readOpen(sendOpen(asn, ht))
             = [asn |-> asn, holdTime |-> ht, mp4 |-> TRUE, mp6 |-> TRUE]
<1> DEFINE caps == <<MP(1), MP(2), ASN32(asn)>>
           o == <<2, caps>>
           options == <<o>>
           m == sendOpen(asn, ht)
           short == IF asn > 65535 THEN 23456 ELSE uint16(asn)
           ret == [asn |-> short, holdTime |-> ht, mp4 |-> FALSE, mp6 |-> FALSE]
<1>1. uint16(ht) = ht
  BY DEF uint16
<1>2. m = [Type |-> 1, Len |-> 49, Version |-> 4, ASN16 |-> short, HoldTime |-> uint16(ht),
           OptsLen |-> 20, OptLen |-> 18, options |-> options]
  BY DEF sendOpen
<1> HIDE DEF options, short
<1>3. /\ m.Type = 1 /\ m.Len = 49 /\ m.Version = 4 /\ m.ASN16 = short /\ m.HoldTime = ht
      /\ m.options = options
  <2> HIDE DEF m
  <2> QED
    BY <1>1, <1>2
<1> HIDE DEF m
<1>4. readOpen(m) = readOptions(options, ret)
  <2>1. ~(\/ m.Type # 1 \/ m.Len < 37 \/ m.Version # 4 \/ (m.HoldTime # 0 /\ m.HoldTime < 3))
    BY <1>3
  <2> QED
    BY Zenon, <1>3, <2>1 DEF readOpen
<1>5. readOptions(options, ret) = Step(ret, o)
  <2> HIDE DEF ret, o
  <2>1. Len(options) = 1 /\ options[1] = o /\ 1 \in Nat /\ 1 - 1 = 0 /\ 1 \in 1..1
    BY DEF options
  <2> HIDE DEF options
  <2>2. PICK t : /\ t[0] = ret
                 /\ \A k \in 1..Len(options) : t[k] = Step(t[k - 1], options[k])
                 /\ readOptions(options, ret) = t[Len(options)]
    BY Zenon, <2>1, ReadLoop
  <2> QED
    BY Zenon, <2>1, <2>2
<1>6. ret \in openResult
  <2>1. short \in Nat
    BY DEF short, uint16
  <2> QED
    BY <2>1 DEF openResult
<1>7. Step(ret, o) = readCapabilities(caps, ret)
  <2>1. o[1] = 2 /\ o[2] = caps
    <3> HIDE DEF caps
    <3> QED
      OBVIOUS
  <2>2. ret # None
    BY Zenon, <1>6, NothingElse
  <2> HIDE DEF o, ret, caps
  <2> QED
    BY Zenon, <2>1, <2>2 DEF Step
<1> DEFINE asns == {k \in DOMAIN caps : Code(caps[k]) = 65}
           wrong == \E k \in DOMAIN caps : Code(caps[k]) \in {1, 65} /\ CapLen(caps[k]) # 4
           A == IF asns = {} THEN ret.asn ELSE caps[Max(asns)][3][1]
           B == ret.mp4 \/ \E k \in DOMAIN caps : caps[k] = MP(1)
           C == ret.mp6 \/ \E k \in DOMAIN caps : caps[k] = MP(2)
<1>8. readCapabilities(caps, ret) = IF wrong THEN None
                                   ELSE [asn |-> A, holdTime |-> ret.holdTime, mp4 |-> B, mp6 |-> C]
  BY DEF readCapabilities
<1>9. /\ DOMAIN caps = 1..3 /\ caps[1] = MP(1) /\ caps[2] = MP(2) /\ caps[3] = ASN32(asn)
  OBVIOUS
<1> HIDE DEF caps
<1>10. /\ Code(MP(1)) = 1 /\ CapLen(MP(1)) = 4 /\ Code(MP(2)) = 1 /\ CapLen(MP(2)) = 4
       /\ Code(ASN32(asn)) = 65 /\ CapLen(ASN32(asn)) = 4 /\ ASN32(asn)[3][1] = asn
  BY DEF Code, CapLen, MP, ASN32
<1>11. \A k : k \in DOMAIN caps <=> k = 1 \/ k = 2 \/ k = 3
  BY <1>9
<1>12. ~wrong
  <2>1. ASSUME NEW k \in DOMAIN caps
        PROVE  CapLen(caps[k]) = 4
    BY <1>9, <1>10, <1>11
  <2> QED
    BY Zenon, <2>1
<1>13. A = asn
  <2>1. asns = {3}
    <3>1. Code(caps[1]) # 65 /\ Code(caps[2]) # 65 /\ Code(caps[3]) = 65
      BY <1>9, <1>10
    <3> QED
      BY <1>11, <3>1
  <2>2. Max({3}) = 3
    <3>1. Max({3}) \in {3}
      BY MaxIs
    <3> QED
      BY <3>1
  <2> HIDE DEF asns
  <2> QED
    BY Zenon, <1>9, <1>10, <2>1, <2>2
<1>14. B = TRUE /\ C = TRUE
  BY Zenon, <1>9, <1>11
<1> HIDE DEF A, B, C, wrong
<1>15. ret.holdTime = ht
  OBVIOUS
<1> HIDE DEF ret
<1> QED
  BY Zenon, <1>4, <1>5, <1>7, <1>8, <1>12, <1>13, <1>14, <1>15 DEF m

-----------------------------------------------------------------------------
(***************************************************************************)
(* Lengths.                                                                *)
(***************************************************************************)

(* bytesForBits rounds up.                                                 *)
LEMMA PrefixBytesIs ==
    ASSUME NEW length \in 0..32
    PROVE  PrefixBytes(length) = 1 + Ceiling(length) /\ PrefixBytes(length) \in 1..5
<1> DEFINE b == bytesForBits(length)
           Least(n) == 8 * n >= length /\ \A k \in 0..4 : 8 * k >= length => n <= k
<1>1. b \in 0..4 /\ 8 * b >= length /\ 8 * (b - 1) < length
  BY DEF bytesForBits
<1> HIDE DEF b
<1>2. Least(b)
  BY <1>1
<1>3. \A n \in 0..4 : Least(n) => n = b
  BY <1>1, <1>2
<1>4. Ceiling(length) = CHOOSE n \in 0..4 : Least(n)
  BY Zenon DEF Ceiling
<1> HIDE DEF Least
<1>5. Ceiling(length) = b
  BY Zenon, <1>1, <1>2, <1>3, <1>4
<1> QED
  BY <1>1, <1>5 DEF PrefixBytes, b

(* Sums of few parts.                                                      *)
LEMMA TotalFew ==
    ASSUME NEW parts, Len(parts) \in 0..5, \A k \in 1..Len(parts) : parts[k] \in Nat
    PROVE  /\ Total(parts) \in Nat
           /\ Len(parts) = 0 => Total(parts) = 0
           /\ Len(parts) = 1 => Total(parts) = parts[1]
           /\ Len(parts) = 3 => Total(parts) = parts[1] + parts[2] + parts[3]
           /\ (\A k \in 1..Len(parts) : parts[k] <= 255) => Total(parts) <= 1275
<1> DEFINE N == Len(parts)
<1>1. N \in Nat
  OBVIOUS
<1>2. PICK t : t[0] = 0 /\ (\A k \in 1..N : t[k] = t[k - 1] + parts[k]) /\ Total(parts) = t[N]
  BY Zenon, <1>1, TotalIs
<1>3. /\ N >= 1 => t[1] = t[0] + parts[1] /\ parts[1] \in Nat
      /\ N >= 2 => t[2] = t[1] + parts[2] /\ parts[2] \in Nat
      /\ N >= 3 => t[3] = t[2] + parts[3] /\ parts[3] \in Nat
      /\ N >= 4 => t[4] = t[3] + parts[4] /\ parts[4] \in Nat
      /\ N >= 5 => t[5] = t[4] + parts[5] /\ parts[5] \in Nat
  BY <1>1, <1>2
<1> DEFINE P(k) == parts[k] <= 255
<1>4. ASSUME \A k \in 1..N : P(k)
      PROVE  /\ N >= 1 => P(1)
             /\ N >= 2 => P(2)
             /\ N >= 3 => P(3)
             /\ N >= 4 => P(4)
             /\ N >= 5 => P(5)
  <2> HIDE DEF P
  <2> QED
    BY <1>1, <1>4
<1>5. N = 0 \/ N = 1 \/ N = 2 \/ N = 3 \/ N = 4 \/ N = 5
  OBVIOUS
<1> DEFINE T == Total(parts)
           small == \A k \in 1..N : P(k)
<1>6. T = t[N]
  BY <1>2
<1> HIDE DEF N, T, small
<1>7. /\ T \in Nat
      /\ N = 0 => T = 0
      /\ N = 1 => T = parts[1]
      /\ N = 3 => T = parts[1] + parts[2] + parts[3]
  <2>1. N >= 1 => t[1] \in Nat /\ t[1] = parts[1]
    BY <1>2, <1>3
  <2>2. N >= 2 => t[2] \in Nat /\ t[2] = parts[1] + parts[2]
    BY <1>3, <1>5, <2>1
  <2>3. N >= 3 => t[3] \in Nat /\ t[3] = parts[1] + parts[2] + parts[3]
    BY SMTT(30), <1>3, <1>5, <2>2
  <2>4. ASSUME N >= 4
        PROVE  t[4] \in Nat
    <3>1. N >= 3
      BY <1>5, <2>4
    <3>2. t[4] = t[3] + parts[4] /\ t[3] \in Nat /\ parts[4] \in Nat
      BY Zenon, <1>3, <2>3, <2>4, <3>1
    <3> QED
      BY <3>2
  <2>5. N >= 5 => t[5] \in Nat
    BY <1>3, <1>5, <2>4
  <2> QED
    BY <1>2, <1>5, <1>6, <2>1, <2>2, <2>3, <2>4, <2>5
<1>8. ASSUME small
      PROVE  T <= 1275
  <2>1. /\ N >= 1 => P(1)
        /\ N >= 2 => P(2)
        /\ N >= 3 => P(3)
        /\ N >= 4 => P(4)
        /\ N >= 5 => P(5)
    BY Zenon, <1>4, <1>8 DEF small
  <2>2. N >= 1 => t[1] \in Nat /\ t[1] <= 255
    BY <1>2, <1>3, <2>1
  <2>3. ASSUME N >= 2
        PROVE  t[2] \in Nat /\ t[2] <= 510
    <3>1. N >= 1
      BY <1>5, <2>3
    <3>2. t[2] = t[1] + parts[2] /\ t[1] \in Nat /\ parts[2] \in Nat /\ t[1] <= 255 /\ P(2)
      BY Zenon, <1>3, <2>2, <2>3, <3>1, <2>1
    <3> QED
      BY <3>2
  <2>4. N >= 3 => t[3] \in Nat /\ t[3] <= 765
    BY <1>3, <1>5, <2>1, <2>3
  <2>5. ASSUME N >= 4
        PROVE  t[4] \in Nat /\ t[4] <= 1020
    <3>1. N >= 3
      BY <1>5, <2>5
    <3>2. t[4] = t[3] + parts[4] /\ t[3] \in Nat /\ parts[4] \in Nat /\ t[3] <= 765 /\ P(4)
      BY Zenon, <1>3, <2>4, <2>5, <3>1, <2>1
    <3> QED
      BY <3>2
  <2>6. N >= 5 => t[5] \in Nat /\ t[5] <= 1275
    BY <1>3, <1>5, <2>1, <2>5
  <2> QED
    BY <1>2, <1>5, <1>6, <2>2, <2>3, <2>4, <2>5, <2>6
<1> QED
  BY Zenon, <1>7, <1>8 DEF N, T, small

(* The bytes of no prefix, and of prefixes of one length.                  *)
LEMMA PrefixesAre ==
    /\ encodePrefixes(<<>>) = 0
    /\ \A p : p.n \in Nat /\ p.length \in 0..32 =>
          /\ encodePrefixes(<<p>>) = p.n * PrefixBytes(p.length)
          /\ encodePrefixes(<<p>>) \in Nat
          /\ p.n <= 814 => encodePrefixes(<<p>>) <= 4070
<1>1. encodePrefixes(<<>>) = 0
  <2> DEFINE parts == [k \in DOMAIN <<>> |-> <<>>[k].n * PrefixBytes(<<>>[k].length)]
  <2>1. Len(parts) = 0
    OBVIOUS
  <2>2. encodePrefixes(<<>>) = Total(parts)
    BY DEF encodePrefixes
  <2> HIDE DEF parts
  <2> QED
    BY <2>1, <2>2, TotalFew
<1>2. ASSUME NEW p, p.n \in Nat, p.length \in 0..32
      PROVE  /\ encodePrefixes(<<p>>) = p.n * PrefixBytes(p.length)
             /\ encodePrefixes(<<p>>) \in Nat
             /\ p.n <= 814 => encodePrefixes(<<p>>) <= 4070
  <2> DEFINE ps == <<p>>
             b == PrefixBytes(p.length)
             parts == [k \in DOMAIN ps |-> ps[k].n * PrefixBytes(ps[k].length)]
  <2>1. DOMAIN ps = 1..1 /\ ps[1] = p
    OBVIOUS
  <2>2. encodePrefixes(ps) = Total(parts)
    BY DEF encodePrefixes
  <2> HIDE DEF ps
  <2>3. Len(parts) = 1 /\ parts[1] = p.n * b
    BY <2>1
  <2>4. b \in 1..5
    BY <1>2, PrefixBytesIs
  <2> HIDE DEF parts, b
  <2>5. p.n * b \in Nat /\ (p.n <= 814 => p.n * b <= 4070)
    <3> DEFINE n == p.n
    <3>1. n \in Nat
      BY <1>2
    <3> HIDE DEF n
    <3>2. b = 1 \/ b = 2 \/ b = 3 \/ b = 4 \/ b = 5
      BY <2>4
    <3>3. n * b \in Nat /\ (n <= 814 => n * b <= 4070)
      BY <3>1, <3>2
    <3> QED
      BY <3>3 DEF n
  <2>6. Total(parts) = p.n * b
    BY <2>3, <2>5, TotalFew
  <2> QED
    BY <2>2, <2>5, <2>6 DEF ps, b
<1> QED
  BY <1>1, <1>2

(* A path attribute is not long, and of the length it says or a next hop.  *)
Part(a, addr) ==
    /\ a.bytes \in Nat /\ a.bytes <= 252
    /\ a.len = a.bytes \/ (a.code = "next-hop" /\ addr = 6)

(* An attribute that says its length.                                      *)
LEMMA AttrIs ==
    ASSUME NEW code, NEW n \in Nat, n <= 252, NEW value, NEW addr
    PROVE  \E a : Attr(code, n, n, value) = <<a>> /\ Part(a, addr)
<1> DEFINE a == [code |-> code, len |-> uint8(n), bytes |-> n, value |-> value]
<1>1. uint8(n) = n
  BY DEF uint8
<1>2. Part(a, addr)
  BY <1>1 DEF Part
<1>3. Attr(code, n, n, value) = <<a>>
  BY DEF Attr
<1> QED
  BY Zenon, <1>2, <1>3

(* Sequences of attributes are put together.                               *)
Parts(q, n, addr) ==
    /\ Len(q) \in 0..n /\ DOMAIN q = 1..Len(q)
    /\ q \in Seq(Range(q))
    /\ \A i \in 1..Len(q) : Part(q[i], addr)

LEMMA PartsOne ==
    ASSUME NEW a, NEW addr, Part(a, addr)
    PROVE  Parts(<<a>>, 1, addr)
<1>1. Len(<<a>>) = 1 /\ DOMAIN <<a>> = 1..1 /\ <<a>>[1] = a /\ <<a>> \in Seq(Range(<<a>>))
  BY DEF Range
<1> QED
  BY <1>1 DEF Parts

LEMMA PartsConcat ==
    ASSUME NEW q, NEW r, NEW n \in Nat, NEW m \in Nat, NEW addr, Parts(q, n, addr), Parts(r, m, addr)
    PROVE  Parts(q \o r, n + m, addr)
<1> DEFINE A == Range(q) \cup Range(r)
<1>1. q \in Seq(A) /\ r \in Seq(A)
  <2>1. q \in Seq(Range(q)) /\ r \in Seq(Range(r))
    BY DEF Parts
  <2>2. Len(q) \in Nat /\ DOMAIN q = 1..Len(q) /\ \A i \in 1..Len(q) : q[i] \in A
    <3>1. Len(q) \in Nat /\ DOMAIN q = 1..Len(q) /\ \A i \in 1..Len(q) : q[i] \in Range(q)
      BY <2>1
    <3> QED
      BY Zenon, <3>1
  <2>3. Len(r) \in Nat /\ DOMAIN r = 1..Len(r) /\ \A i \in 1..Len(r) : r[i] \in A
    <3>1. Len(r) \in Nat /\ DOMAIN r = 1..Len(r) /\ \A i \in 1..Len(r) : r[i] \in Range(r)
      BY <2>1
    <3> QED
      BY Zenon, <3>1
  <2> HIDE DEF A
  <2> QED
    BY <2>1, <2>2, <2>3
<1> HIDE DEF A
<1>2. /\ q \o r \in Seq(A) /\ Len(q \o r) = Len(q) + Len(r) /\ DOMAIN (q \o r) = 1..(Len(q) + Len(r))
      /\ Len(q) \in Nat /\ Len(r) \in Nat
      /\ \A i \in 1..Len(q) : (q \o r)[i] = q[i]
      /\ \A i \in 1..Len(r) : (q \o r)[Len(q) + i] = r[i]
  BY <1>1
<1>3. \A i \in 1..(Len(q) + Len(r)) : i \in 1..Len(q) \/ \E k \in 1..Len(r) : i = Len(q) + k
  <2>1. ASSUME NEW i \in 1..(Len(q) + Len(r)), i \notin 1..Len(q)
        PROVE  i - Len(q) \in 1..Len(r) /\ i = Len(q) + (i - Len(q))
    BY <1>2, <2>1
  <2> QED
    BY Zenon, <2>1
<1>4. \A i \in 1..Len(q \o r) : Part((q \o r)[i], addr)
  <2>1. /\ \A i \in 1..Len(q) : Part(q[i], addr)
        /\ \A i \in 1..Len(r) : Part(r[i], addr)
    BY Zenon DEF Parts
  <2>2. ASSUME NEW i \in 1..(Len(q) + Len(r))
        PROVE  Part((q \o r)[i], addr)
    <3>1. CASE i \in 1..Len(q)
      BY Zenon, <1>2, <2>1, <3>1
    <3>2. CASE \E k \in 1..Len(r) : i = Len(q) + k
      <4>1. PICK k \in 1..Len(r) : i = Len(q) + k
        BY <3>2
      <4>2. (q \o r)[i] = r[k]
        BY Zenon, <1>2, <4>1
      <4> QED
        BY Zenon, <2>1, <4>2
    <3> QED
      BY Zenon, <1>3, <3>1, <3>2
  <2>3. 1..Len(q \o r) = 1..(Len(q) + Len(r))
    BY Zenon, <1>2
  <2> QED
    BY Zenon, <2>2, <2>3
<1>5. Len(q \o r) \in 0..(n + m)
  BY <1>2 DEF Parts
<1>6. q \o r \in Seq(Range(q \o r))
  <2> DEFINE s == q \o r
  <2>1. s \in Seq(A)
    BY <1>2
  <2> HIDE DEF s
  <2>2. Len(s) \in Nat /\ DOMAIN s = 1..Len(s) /\ s = [i \in 1..Len(s) |-> s[i]]
    BY <2>1
  <2>3. \A i \in 1..Len(s) : s[i] \in Range(s)
    BY Zenon, <2>2 DEF Range
  <2>4. [i \in 1..Len(s) |-> s[i]] \in Seq(Range(s))
    BY <2>2, <2>3
  <2> QED
    BY Zenon, <2>2, <2>4 DEF s
<1> QED
  BY Zenon, <1>2, <1>4, <1>5, <1>6 DEF Parts

LEMMA PartsNone ==
    ASSUME NEW addr
    PROVE  Parts(<<>>, 1, addr)
<1>1. Len(<<>>) = 0 /\ DOMAIN <<>> = 1..0 /\ <<>> \in Seq(Range(<<>>))
  OBVIOUS
<1> QED
  BY <1>1 DEF Parts

(* What encodePathAttrs writes for a route with up to 63 communities.      *)
LEMMA AttrsAre ==
    ASSUME NEW asn, NEW ibgp, NEW hop \in {4, 6}, NEW adv, adv.NextHop = None,
           Cardinality(adv.Communities) \in 0..63
    PROVE  Parts(encodePathAttrs(asn, ibgp, hop, adv), 5, hop)
<1> DEFINE n == Cardinality(adv.Communities)
           q1 == Attr("origin", 1, 1, "incomplete")
           q2 == IF ibgp THEN Attr("as-path", 0, 0, <<>>) ELSE Attr("as-path", 6, 6, <<asn>>)
           q3 == Attr("next-hop", 4, IF adv.NextHop = None /\ hop = 6 THEN 16 ELSE 4,
                      IF adv.NextHop = None THEN "default" ELSE "given")
           q4 == IF ibgp THEN Attr("localpref", 4, 4, adv.LocalPref) ELSE <<>>
           q5 == IF n > 0 THEN Attr("communities", n * 4, n * 4, adv.Communities) ELSE <<>>
           attrs == encodePathAttrs(asn, ibgp, hop, adv)
<1>1. attrs = q1 \o q2 \o q3 \o q4 \o q5
  BY DEF encodePathAttrs
<1>2. ASSUME NEW code, NEW k \in Nat, k <= 252, NEW value
      PROVE  Parts(Attr(code, k, k, value), 1, hop)
  <2>1. PICK a : Attr(code, k, k, value) = <<a>> /\ Part(a, hop)
    BY <1>2, AttrIs
  <2> QED
    BY Zenon, <2>1, PartsOne
<1>3. Parts(q1, 1, hop)
  BY <1>2
<1>4. Parts(q2, 1, hop)
  <2>1. Parts(Attr("as-path", 0, 0, <<>>), 1, hop) /\ Parts(Attr("as-path", 6, 6, <<asn>>), 1, hop)
    BY <1>2
  <2> QED
    BY Zenon, <2>1
<1>5. Parts(q3, 1, hop)
  <2> DEFINE v == IF adv.NextHop = None THEN "default" ELSE "given"
  <2>1. CASE hop = 4
    <3>1. q3 = Attr("next-hop", 4, 4, v)
      BY <2>1
    <3>2. Parts(Attr("next-hop", 4, 4, v), 1, hop)
      BY <1>2
    <3> QED
      BY Zenon, <3>1, <3>2
  <2>2. CASE hop = 6
    <3> DEFINE a == [code |-> "next-hop", len |-> uint8(4), bytes |-> 16, value |-> v]
    <3>1. q3 = Attr("next-hop", 4, 16, v)
      BY <2>2
    <3>2. q3 = <<a>>
      BY Zenon, <3>1 DEF Attr
    <3>3. Part(a, hop)
      BY <2>2 DEF Part
    <3> QED
      BY Zenon, <3>2, <3>3, PartsOne
  <2> QED
    BY <2>1, <2>2
<1>6. Parts(q4, 1, hop)
  <2>1. Parts(Attr("localpref", 4, 4, adv.LocalPref), 1, hop)
    BY <1>2
  <2> QED
    BY Zenon, <2>1, PartsNone
<1>7. Parts(q5, 1, hop)
  <2>1. n * 4 \in Nat /\ n * 4 <= 252
    OBVIOUS
  <2> HIDE DEF n
  <2>2. Parts(Attr("communities", n * 4, n * 4, adv.Communities), 1, hop)
    BY Zenon, <1>2, <2>1
  <2> QED
    BY Zenon, <2>2, PartsNone
<1> HIDE DEF q1, q2, q3, q4, q5
<1>8. Parts(q1 \o q2, 1 + 1, hop)
  BY <1>3, <1>4, PartsConcat
<1>9. Parts(q1 \o q2, 2, hop)
  BY <1>8
<1>10. Parts((q1 \o q2) \o q3, 2 + 1, hop)
  BY <1>5, <1>9, PartsConcat
<1>11. Parts((q1 \o q2) \o q3, 3, hop)
  BY <1>10
<1>12. Parts(((q1 \o q2) \o q3) \o q4, 3 + 1, hop)
  BY <1>6, <1>11, PartsConcat
<1>13. Parts(((q1 \o q2) \o q3) \o q4, 4, hop)
  BY <1>12
<1>14. Parts((((q1 \o q2) \o q3) \o q4) \o q5, 4 + 1, hop)
  BY <1>7, <1>13, PartsConcat
<1> QED
  BY <1>1, <1>14

(* Their bytes.                                                            *)
LEMMA AttrsBytesAre ==
    ASSUME NEW attrs, NEW addr, Parts(attrs, 5, addr)
    PROVE  AttrsBytes(attrs) \in Nat /\ AttrsBytes(attrs) <= 1275
<1> DEFINE parts == [k \in DOMAIN attrs |-> 3 + attrs[k].bytes]
<1>1. Len(attrs) \in 0..5 /\ DOMAIN attrs = 1..Len(attrs)
  BY DEF Parts
<1>2. ASSUME NEW k \in 1..Len(attrs)
      PROVE  3 + attrs[k].bytes \in Nat /\ 3 + attrs[k].bytes <= 255
  <2>1. attrs[k].bytes \in Nat /\ attrs[k].bytes <= 252
    BY DEF Parts, Part
  <2> QED
    BY <2>1
<1>3. Len(parts) = Len(attrs) /\ \A k \in 1..Len(attrs) : parts[k] = 3 + attrs[k].bytes
  BY <1>1
<1>4. AttrsBytes(attrs) = Total(parts)
  BY Zenon DEF AttrsBytes
<1> HIDE DEF parts
<1>5. Len(parts) \in 0..5 /\ \A k \in 1..Len(parts) : parts[k] \in Nat /\ parts[k] <= 255
  BY <1>1, <1>2, <1>3
<1> QED
  BY <1>4, <1>5, TotalFew

(* A message of at most 4096 bytes is not too long.                        *)
Fine(m, addr) ==
    /\ Bytes(m) < 2^16 => Formed(m, addr)
    /\ NotTooLong(m)

LEMMA FormedFine ==
    ASSUME NEW m, NEW addr, Bytes(m) \in Nat, Bytes(m) <= MaxLen, Formed(m, addr)
    PROVE  Fine(m, addr)
<1>1. ~(Bytes(m) > MaxLen)
  BY DEF MaxLen
<1> QED
  BY Zenon, <1>1 DEF Fine, NotTooLong

(* An OPEN has one option, with three capabilities of 6 bytes.             *)
LEMMA OpenFormed ==
    ASSUME NEW asn, NEW ht, NEW addr
    PROVE  sendOpen(asn, ht).Type = 1 /\ Fine(sendOpen(asn, ht), addr)
<1> DEFINE caps == <<MP(1), MP(2), ASN32(asn)>>
           o == <<2, caps>>
           options == <<o>>
           m == sendOpen(asn, ht)
           c == [i \in DOMAIN o[2] |-> 2 + CapLen(o[2][i])]
           Caps(op) == Total([i \in DOMAIN op[2] |-> 2 + CapLen(op[2][i])])
           parts == [k \in DOMAIN options |-> 2 + Caps(options[k])]
<1>1. /\ m.Type = 1 /\ m.Len = 49 /\ m.OptsLen = 20 /\ m.OptLen = 18 /\ m.options = options
  BY DEF sendOpen
<1>2. /\ DOMAIN caps = 1..3 /\ caps[1] = MP(1) /\ caps[2] = MP(2) /\ caps[3] = ASN32(asn)
      /\ o[2] = caps /\ DOMAIN options = 1..1 /\ options[1] = o
  OBVIOUS
<1>3. CapLen(MP(1)) = 4 /\ CapLen(MP(2)) = 4 /\ CapLen(ASN32(asn)) = 4
  BY DEF CapLen, MP, ASN32
<1>4. BodyBytes(m) = 10 + Total([k \in DOMAIN m.options |-> 2 + Caps(m.options[k])])
  BY <1>1 DEF BodyBytes
<1>5. BodyBytes(m) = 10 + Total(parts)
  BY Zenon, <1>1, <1>4
<1> HIDE DEF caps, m
<1>6. Len(c) = 3 /\ c[1] = 6 /\ c[2] = 6 /\ c[3] = 6
  BY <1>2, <1>3
<1>7. Caps(o) = Total(c)
  OBVIOUS
<1> HIDE DEF c, o, options, Caps
<1>8. Total(c) = 18
  <2>1. \A k \in 1..Len(c) : c[k] \in Nat
    BY <1>6
  <2>2. Total(c) = c[1] + c[2] + c[3]
    BY <1>6, <2>1, TotalFew
  <2> QED
    BY <1>6, <2>2
<1>9. Len(parts) = 1 /\ parts[1] = 20
  BY <1>2, <1>7, <1>8
<1> HIDE DEF parts
<1>10. Total(parts) = 20
  <2>1. \A k \in 1..Len(parts) : parts[k] \in Nat
    BY <1>9
  <2> QED
    BY <1>9, <2>1, TotalFew
<1>11. BodyBytes(m) = 30
  BY <1>5, <1>10
<1>12. Bytes(m) = 49
  BY <1>11 DEF Bytes
<1>13. Formed(m, addr)
  BY <1>1, <1>11, <1>12 DEF Formed
<1>14. Bytes(m) \in Nat /\ Bytes(m) <= MaxLen
  BY <1>12 DEF MaxLen
<1>15. Fine(m, addr)
  BY Zenon, <1>13, <1>14, FormedFine
<1> QED
  BY Zenon, <1>1, <1>15 DEF m

(* A KEEPALIVE is a header.                                                *)
LEMMA KeepaliveFormed ==
    ASSUME NEW addr
    PROVE  sendKeepalive.Type = 4 /\ Fine(sendKeepalive, addr)
<1>1. sendKeepalive.Type = 4 /\ sendKeepalive.Len = 19
  BY DEF sendKeepalive
<1>2. BodyBytes(sendKeepalive) = 0
  BY <1>1 DEF BodyBytes
<1>3. Bytes(sendKeepalive) = 19
  BY <1>2 DEF Bytes
<1>4. Formed(sendKeepalive, addr)
  BY <1>1, <1>3 DEF Formed
<1>5. Bytes(sendKeepalive) \in Nat /\ Bytes(sendKeepalive) <= MaxLen
  BY <1>3 DEF MaxLen
<1> QED
  BY Zenon, <1>1, <1>4, <1>5, FormedFine

(* An UPDATE with a route.                                                 *)
LEMMA UpdateFormed ==
    ASSUME NEW asn, NEW ibgp, NEW hop \in {4, 6}, NEW adv, adv.NextHop = None,
           adv.length \in 0..32, Cardinality(adv.Communities) \in 0..63
    PROVE  sendUpdate(asn, ibgp, hop, adv).Type = 2 /\ Fine(sendUpdate(asn, ibgp, hop, adv), hop)
<1> DEFINE attrs == encodePathAttrs(asn, ibgp, hop, adv)
           p == [length |-> adv.length, n |-> 1]
           nlri == <<p>>
           m == sendUpdate(asn, ibgp, hop, adv)
           a == AttrsBytes(attrs)
           e == encodePrefixes(nlri)
<1>1. /\ m.Type = 2 /\ m.WdrLen = 0 /\ m.withdrawn = <<>> /\ m.AttrLen = uint16(a)
      /\ m.attrs = attrs /\ m.nlri = nlri /\ m.Len = uint16(23 + a + e)
  BY DEF sendUpdate
<1>2. Parts(attrs, 5, hop)
  BY Zenon, AttrsAre
<1>3. a \in Nat /\ a <= 1275
  BY <1>2, AttrsBytesAre
<1>4. e \in Nat /\ e <= 4070
  <2>1. p.n \in Nat /\ p.n <= 814 /\ p.length \in 0..32
    OBVIOUS
  <2> HIDE DEF p
  <2> QED
    BY <2>1, PrefixesAre
<1>5. e <= 5
  <2>1. p.n = 1 /\ p.length \in 0..32
    OBVIOUS
  <2> HIDE DEF p
  <2>2. p.n \in Nat /\ p.n <= 814
    BY <2>1
  <2>3. e = p.n * PrefixBytes(p.length)
    BY SMTT(30), <2>1, <2>2, PrefixesAre
  <2>4. PrefixBytes(p.length) \in 1..5
    BY Zenon, <2>1, PrefixBytesIs
  <2> QED
    BY <2>1, <2>3, <2>4
<1>6. encodePrefixes(<<>>) = 0
  BY PrefixesAre
<1>7. BodyBytes(m) = 4 + encodePrefixes(m.withdrawn) + AttrsBytes(m.attrs) + encodePrefixes(m.nlri)
  BY <1>1 DEF BodyBytes
<1>8. BodyBytes(m) = 4 + 0 + a + e
  BY Zenon, <1>1, <1>6, <1>7
<1>9. \A i \in DOMAIN attrs : attrs[i].len = attrs[i].bytes \/ (attrs[i].code = "next-hop" /\ hop = 6)
  BY Zenon, <1>2 DEF Parts, Part
<1>10. \A q \in Range(m.withdrawn) \cup Range(m.nlri) : PrefixBytes(q.length) = 1 + Ceiling(q.length)
  <2>1. Range(<<>>) = {} /\ Range(nlri) = {p} /\ p.length \in 0..32
    BY DEF Range
  <2>2. PrefixBytes(p.length) = 1 + Ceiling(p.length)
    BY Zenon, <2>1, PrefixBytesIs
  <2> HIDE DEF p, nlri, m
  <2> QED
    BY Zenon, <1>1, <2>1, <2>2
<1> HIDE DEF a, e, m, attrs, nlri
<1>11. uint16(a) = a /\ uint16(23 + a + e) = 23 + a + e
  BY <1>3, <1>4, <1>5 DEF uint16
<1>12. m.Len = Bytes(m) /\ Bytes(m) \in Nat /\ Bytes(m) <= MaxLen
  BY <1>1, <1>3, <1>4, <1>5, <1>8, <1>11 DEF Bytes, MaxLen
<1>13. m.WdrLen = encodePrefixes(m.withdrawn) /\ m.AttrLen = AttrsBytes(m.attrs)
  BY Zenon, <1>1, <1>6, <1>11 DEF a
<1>14. m.Type # 1
  BY <1>1
<1>15. \A i \in DOMAIN m.attrs :
          m.attrs[i].len = m.attrs[i].bytes \/ (m.attrs[i].code = "next-hop" /\ hop = 6)
  BY Zenon, <1>1, <1>9
<1>16. Formed(m, hop)
  BY Zenon, <1>10, <1>12, <1>13, <1>14, <1>15 DEF Formed
<1>17. Fine(m, hop)
  BY Zenon, <1>12, <1>16, FormedFine
<1> QED
  BY Zenon, <1>1, <1>17 DEF m

(* An UPDATE that withdraws any number of routes.                          *)
LEMMA WithdrawFormed ==
    ASSUME NEW length \in 0..32, NEW n \in Nat, NEW addr
    PROVE  LET m == sendWithdraw(<<[length |-> length, n |-> n]>>)
           IN m.Type = 2 /\ Fine(m, addr)
<1> DEFINE p == [length |-> length, n |-> n]
           ps == <<p>>
           m == sendWithdraw(ps)
           e == encodePrefixes(ps)
<1>1. /\ m.Type = 2 /\ m.WdrLen = uint16(e) /\ m.withdrawn = ps /\ m.AttrLen = 0
      /\ m.attrs = <<>> /\ m.nlri = <<>> /\ m.Len = uint16(21 + e + 2)
  BY DEF sendWithdraw
<1>2. e \in Nat /\ (n <= 814 => e <= 4070)
  <2>1. p.n \in Nat /\ p.length \in 0..32 /\ p.n = n
    OBVIOUS
  <2> HIDE DEF p
  <2>2. e \in Nat /\ (p.n <= 814 => e <= 4070)
    BY SMTT(30), <2>1, PrefixesAre
  <2> QED
    BY <2>1, <2>2
<1>3. encodePrefixes(<<>>) = 0
  BY PrefixesAre
<1>4. AttrsBytes(<<>>) = 0
  <2> DEFINE parts == [k \in DOMAIN <<>> |-> 3 + <<>>[k].bytes]
  <2>1. Len(parts) = 0
    OBVIOUS
  <2>2. AttrsBytes(<<>>) = Total(parts)
    BY DEF AttrsBytes
  <2> HIDE DEF parts
  <2> QED
    BY <2>1, <2>2, TotalFew
<1>5. BodyBytes(m) = 4 + encodePrefixes(m.withdrawn) + AttrsBytes(m.attrs) + encodePrefixes(m.nlri)
  BY <1>1 DEF BodyBytes
<1>6. BodyBytes(m) = 4 + e + 0 + 0
  BY Zenon, <1>1, <1>3, <1>4, <1>5
<1>7. \A q \in Range(m.withdrawn) \cup Range(m.nlri) : PrefixBytes(q.length) = 1 + Ceiling(q.length)
  <2>1. Range(<<>>) = {} /\ Range(ps) = {p} /\ p.length \in 0..32
    BY DEF Range
  <2>2. PrefixBytes(p.length) = 1 + Ceiling(p.length)
    BY Zenon, <2>1, PrefixBytesIs
  <2> HIDE DEF p, ps, m
  <2> QED
    BY Zenon, <1>1, <2>1, <2>2
<1>8. \A i \in DOMAIN m.attrs :
         m.attrs[i].len = m.attrs[i].bytes \/ (m.attrs[i].code = "next-hop" /\ addr = 6)
  <2>1. DOMAIN m.attrs = {}
    BY <1>1
  <2> QED
    BY Zenon, <2>1
<1> HIDE DEF e, m
<1>9. Bytes(m) = 23 + e
  BY <1>2, <1>6 DEF Bytes
<1>10. m.Type # 1
  BY <1>1
<1>11. ASSUME Bytes(m) < 2^16
       PROVE  Formed(m, addr)
  <2>1. uint16(e) = e /\ uint16(21 + e + 2) = 23 + e
    BY <1>2, <1>9, <1>11 DEF uint16
  <2>2. m.Len = Bytes(m)
    BY Zenon, <1>1, <1>9, <2>1
  <2>3. m.WdrLen = encodePrefixes(m.withdrawn) /\ m.AttrLen = AttrsBytes(m.attrs)
    BY Zenon, <1>1, <1>4, <2>1 DEF e
  <2> QED
    BY Zenon, <1>7, <1>8, <1>10, <2>2, <2>3 DEF Formed
<1>12. Total([k \in DOMAIN m.withdrawn |-> m.withdrawn[k].n]) = n
  <2> DEFINE parts == [k \in DOMAIN ps |-> ps[k].n]
  <2>1. Len(parts) = 1 /\ parts[1] = n
    OBVIOUS
  <2> HIDE DEF parts
  <2>2. \A k \in 1..Len(parts) : parts[k] \in Nat
    BY <2>1
  <2>3. Total(parts) = n
    BY <2>1, <2>2, TotalFew
  <2> QED
    BY Zenon, <1>1, <2>3 DEF parts
<1>13. Bytes(m) > MaxLen => n > MaxWithdrawn
  BY <1>2, <1>9 DEF MaxLen, MaxWithdrawn
<1>14. NotTooLong(m)
  BY Zenon, <1>1, <1>12, <1>13 DEF NotTooLong
<1> QED
  BY Zenon, <1>1, <1>11, <1>14 DEF m, Fine

-----------------------------------------------------------------------------
(***************************************************************************)
(* Routes.                                                                 *)
(***************************************************************************)

(* An address is in a prefix, and an aggregate may be made of it.          *)
MayAggregate(ip, base, host, mask, length) ==
    /\ host \in 0..31 /\ Aligned(base, host) /\ base <= ip /\ ip < base + Size(host)
    /\ mask \in {32, 128}
    /\ length = 32 \/ (length <= 32 /\ length >= mask - host)

(* The aggregate is inside the prefix.                                     *)
LEMMA AggregateIs ==
    ASSUME NEW ip \in Nat, NEW base \in Int, NEW host, NEW mask, NEW length \in Int,
           MayAggregate(ip, base, host, mask, length)
    PROVE  LET m == Masked(ip, 32 - length)
               top == m + Size(32 - length) - 1
           IN length \in 0..32 /\ ip \in m..top /\ base <= m /\ top <= base + Size(host) - 1
<1> DEFINE h == 32 - length
           m == Masked(ip, h)
           top == m + Size(h) - 1
<1>1. h \in 0..host /\ length \in 0..32 /\ host \in 0..31
  BY DEF MayAggregate
<1>2. Aligned(base, host) /\ base <= ip /\ ip < base + Size(host)
  BY Zenon DEF MayAggregate
<1> HIDE DEF h
<1>3. h \in 0..31 /\ host \in h..31
  BY <1>1
<1>4. m \in Nat /\ Aligned(m, h) /\ m <= ip /\ ip < m + Size(h)
  BY Zenon, <1>3, MaskedBlock
<1>5. Size(h) \in Nat \ {0} /\ Size(host) \in Nat \ {0}
  BY <1>3, SizeTwice
<1> HIDE DEF m
<1> DEFINE a == Size(h)
           b == Size(host)
<1>6. a \in Nat /\ b \in Nat /\ ip < m + a /\ ip < base + b
  BY Zenon, <1>2, <1>4, <1>5
<1> HIDE DEF a, b
<1>7. m < base + b /\ base < m + a
  BY <1>2, <1>4, <1>6
<1>8. m \in Int
  BY <1>4
<1>9. base <= m /\ m + a <= base + b
  BY Zenon, <1>2, <1>3, <1>4, <1>7, <1>8, BlockInside DEF a, b
<1>10. top = m + a - 1
  BY Zenon DEF a
<1> HIDE DEF top
<1>11. ip \in m..top /\ top <= base + b - 1
  BY <1>4, <1>6, <1>9, <1>10
<1> QED
  BY Zenon, <1>1, <1>9, <1>11 DEF b, h, m, top

(* The aggregate of an address in a pool, as it is advertised, is inside a *)
(* prefix of the pool.                                                     *)
LEMMA RouteInside ==
    ASSUME NEW pool, NEW ad, NEW lbIP \in Addr, pool.CIDR \in Seq(Block), IsAd(ad, pool.CIDR),
           InPool(pool, lbIP), Route(ad, lbIP).prefix # None
    PROVE  /\ ad.AggregationLength \in 0..32
           /\ Inside([adv |-> Route(ad, lbIP), pool |-> pool, lbIP |-> lbIP])
<1> DEFINE length == ad.AggregationLength
           adv == Route(ad, lbIP)
           ip == lbIP.ip
           r == [adv |-> adv, pool |-> pool, lbIP |-> lbIP]
<1>1. ip \in Nat /\ lbIP.family \in {4, 6}
  BY SizeTwice, ConfigAssumption DEF Addr
<1>2. lbIP.family = 4
  BY <1>1 DEF Route
<1>3. adv.prefix = Masked(ip, 32 - length) /\ adv.length = length
  BY <1>2 DEF Route
<1>4. PICK k \in DOMAIN pool.CIDR : ContainsIP(pool.CIDR[k], lbIP.family, ip)
  BY DEF InPool
<1> DEFINE n == pool.CIDR[k]
           base == n.ip
           host == n.host
           mask == n.mask
           m == adv.prefix
           top == adv.prefix + Size(32 - adv.length) - 1
<1>5. n \in Block
  BY <1>4
<1>6. n.family = 4 /\ n.ip <= ip /\ ip < n.ip + Size(n.host)
  BY Zenon, <1>1, <1>2, <1>4, <1>5, BlockContains
<1>7. length \in Int /\ (length = 32 \/ (length <= 32 /\ length >= ones(n)))
  BY <1>4 DEF IsAd, Aggregates
<1>8. ones(n) = mask - host
  BY Zenon DEF ones
<1> HIDE DEF n
<1>9. base \in Int /\ host \in 0..31 /\ Aligned(base, host) /\ mask \in {32, 128}
  BY Zenon, <1>5, BlockIs
<1>10. m = Masked(ip, 32 - length) /\ top = m + Size(32 - length) - 1
  BY Zenon, <1>3
<1>11. base <= ip /\ ip < base + Size(host)
  BY Zenon, <1>6
<1>12. length = 32 \/ (length <= 32 /\ length >= mask - host)
  BY Zenon, <1>7, <1>8
<1> HIDE DEF length, ip, base, host, mask, m, top, adv
<1>13. length \in 0..32 /\ ip \in m..top /\ base <= m /\ top <= base + Size(host) - 1
  <2>1. MayAggregate(ip, base, host, mask, length)
    BY Zenon, <1>9, <1>11, <1>12 DEF MayAggregate
  <2>2. LET x == Masked(ip, 32 - length)
            y == x + Size(32 - length) - 1
        IN length \in 0..32 /\ ip \in x..y /\ base <= x /\ y <= base + Size(host) - 1
    <3>1. ip \in Nat /\ base \in Int /\ length \in Int
      BY Zenon, <1>1, <1>7, <1>9
    <3> QED
      BY Zenon, <2>1, <3>1, AggregateIs
  <2> QED
    BY Zenon, <1>10, <2>2
<1>14. r.adv = adv /\ r.pool = pool /\ r.lbIP = lbIP
  BY Zenon
<1> HIDE DEF r
<1>15. n.family = 4 /\ n.ip <= adv.prefix /\ top <= Top(n)
  BY Zenon, <1>6, <1>13 DEF Top, m, base, host
<1>16. ip \in adv.prefix..top
  BY Zenon, <1>13 DEF m
<1>17. Inside(r)
  BY Zenon, <1>4, <1>14, <1>15, <1>16 DEF Inside, n, top, ip
<1> QED
  BY Zenon, <1>13, <1>17 DEF r, adv, length

-----------------------------------------------------------------------------
(***************************************************************************)
(* The invariant.                                                          *)
(***************************************************************************)

(* The session is one to a peer of the file.                               *)
Linked == Configured(link.peer) /\ link.remote \in Remotes /\ link.local \in Locals

(* What is held is what Parse made of the file, in every phase after the   *)
(* file was accepted; there are messages only on a session, and routes     *)
(* only on one that is up.                                                 *)
Sound ==
    /\ raw \in Raws
    /\ phase \in {"start", "refused", "configured", "failed", "up"}
    /\ phase = "refused" => ~Accepts(raw)
    /\ Loaded => Accepts(raw) /\ cfg = Parse(raw)
    /\ phase \in {"failed", "up"} => Linked
    /\ phase \in {"start", "refused", "configured"} => sent = <<>>
    /\ phase # "up" => route = None
    /\ route # None => route.adv.length \in 0..32

PeeringInvariant == Sound /\ AggregatesInside /\ OpenReadBack /\ Negotiates

(* A configuration that was loaded.                                        *)
LEMMA LoadedIs ==
    ASSUME Sound, Loaded
    PROVE  /\ \A k \in DOMAIN cfg.Peers : Configured(cfg.Peers[k])
           /\ \A p \in DOMAIN cfg.Pools :
                 /\ cfg.Pools[p].CIDR \in Seq(Block)
                 /\ \A k \in DOMAIN cfg.Pools[p].BGPAdvertisements :
                       IsAd(cfg.Pools[p].BGPAdvertisements[k], cfg.Pools[p].CIDR)
<1>1. raw \in Raws /\ Accepts(raw) /\ cfg = Parse(raw)
  BY Zenon DEF Sound
<1>2. IsFile(raw)
  BY Zenon, <1>1, PeeringAssumption
<1>3. /\ Parse(raw).Peers = peersOf(raw)
      /\ \A k \in DOMAIN peersOf(raw) : Configured(peersOf(raw)[k])
      /\ \A n \in DOMAIN Parse(raw).Pools :
            \E k \in DOMAIN raw.Pools : Parse(raw).Pools[n] = poolsOf(raw)[k]
      /\ \A k \in DOMAIN raw.Pools :
            /\ IsPool(raw.Pools[k]) /\ poolsOf(raw)[k] # None
            /\ poolsOf(raw)[k] = parseAddressPool(raw.Pools[k], communitiesOf(raw))
  BY Zenon, <1>1, <1>2, FileIs
<1>4. ASSUME NEW p \in DOMAIN cfg.Pools
      PROVE  /\ cfg.Pools[p].CIDR \in Seq(Block)
             /\ \A k \in DOMAIN cfg.Pools[p].BGPAdvertisements :
                   IsAd(cfg.Pools[p].BGPAdvertisements[k], cfg.Pools[p].CIDR)
  <2>1. PICK k \in DOMAIN raw.Pools : cfg.Pools[p] = poolsOf(raw)[k]
    BY Zenon, <1>1, <1>3
  <2> DEFINE pool == parseAddressPool(raw.Pools[k], communitiesOf(raw))
  <2>2. IsPool(raw.Pools[k]) /\ pool # None /\ cfg.Pools[p] = pool
    BY Zenon, <1>3, <2>1
  <2>3. /\ pool.CIDR \in Seq(Block)
        /\ \A i \in DOMAIN pool.BGPAdvertisements : IsAd(pool.BGPAdvertisements[i], pool.CIDR)
    BY Zenon, <2>2, PoolIs
  <2> QED
    BY Zenon, <2>2, <2>3
<1> QED
  BY Zenon, <1>1, <1>3, <1>4

(* There is nothing to make a router ID of.                                *)
NoRouterID(peer, local) ==
    peer.Addr = 6 /\ peer.RouterID # 4 /\ (local = <<>> \/ local[1] = 6)

LEMMA RouterIDIs ==
    ASSUME NEW peer, NEW local \in Locals, Configured(peer)
    PROVE  RouterID(peer, local) = 4 \/ (RouterID(peer, local) = None /\ NoRouterID(peer, local))
<1>1. 4 # None
  BY NothingElse
<1>2. local = <<>> \/ local[1] \in {4, 6}
  <2>1. local \in Seq({4, 6})
    BY PeeringAssumption
  <2> QED
    BY <2>1
<1>3. peer.Addr \in {4, 6}
  BY DEF Configured
<1>4. getRouterID(peer.Addr, local) = 4 \/
         (getRouterID(peer.Addr, local) = None /\ peer.Addr = 6 /\ (local = <<>> \/ local[1] = 6))
  BY Zenon, <1>2, <1>3 DEF getRouterID
<1> QED
  BY Zenon, <1>1, <1>4 DEF RouterID, New, NoRouterID

(* One attempt to connect.                                                 *)
LEMMA ConnectIs ==
    ASSUME NEW peer, NEW remote \in Remotes, NEW local \in Locals, Configured(peer),
           Connect(peer, remote, local)
    PROVE  /\ phase \in {"configured", "failed"} /\ phase' \in {"failed", "up"}
           /\ raw' = raw /\ cfg' = cfg /\ route' = route
           /\ link'.peer = peer /\ link'.remote = remote /\ link'.local = local
           /\ phase' = "up" =>
                 /\ remote.asn = peer.ASN
                 /\ link'.actualHoldTime = Min({peer.HoldTime, remote.HoldTime})
                 /\ link'.actualHoldTime \notin {1, 2}
           /\ phase' = "failed" =>
                 remote.asn # peer.ASN \/ ~Proper(remote) \/ NoRouterID(peer, local)
           /\ \/ sent' = <<>>
              \/ sent' = <<sendOpen(peer.MyASN, peer.HoldTime)>>
              \/ sent' = <<sendOpen(peer.MyASN, peer.HoldTime), sendKeepalive>>
<1> DEFINE id == RouterID(peer, local)
           open == sendOpen(peer.MyASN, peer.HoldTime)
           op == readOpen(remote)
           accepted == id # None /\ op # None /\ op.asn = peer.ASN
           ht == IF accepted /\ op.holdTime < peer.HoldTime THEN op.holdTime ELSE peer.HoldTime
<1>1. /\ phase \in {"configured", "failed"}
      /\ phase' = IF accepted THEN "up" ELSE "failed"
      /\ sent' = CASE id = None -> <<>>
                   [] accepted -> <<open, sendKeepalive>>
                   [] OTHER -> <<open>>
      /\ link' = [peer |-> peer, remote |-> remote, local |-> local, actualHoldTime |-> ht]
      /\ raw' = raw /\ cfg' = cfg /\ route' = route
  BY Zenon DEF Connect
<1>2. /\ link'.peer = peer /\ link'.remote = remote /\ link'.local = local
      /\ link'.actualHoldTime = ht
  BY Zenon, <1>1
<1>3. id # None \/ NoRouterID(peer, local)
  <2>1. 4 # None
    BY NothingElse
  <2> QED
    BY Zenon, <2>1, RouterIDIs
<1>5. remote \in Open /\ Honest(remote)
  BY Zenon, PeeringAssumption
<1>6. /\ op # None => op.holdTime = remote.HoldTime /\ op.asn = remote.asn
                      /\ remote.HoldTime \in Nat \ {1, 2}
      /\ Proper(remote) => op # None
  BY Zenon, <1>5, ReadOpenIs
<1>7. peer.HoldTime \in Nat \ {1, 2}
  BY Zenon DEF Configured
<1> HIDE DEF id, op, open
<1>8. CASE accepted
  <2>1. phase' = "up" /\ sent' = <<open, sendKeepalive>>
    BY <1>1, <1>8
  <2>2. remote.asn = peer.ASN /\ op.holdTime = remote.HoldTime /\ remote.HoldTime \in Nat \ {1, 2}
    BY Zenon, <1>6, <1>8
  <2>3. ht = Min({peer.HoldTime, remote.HoldTime}) /\ ht \notin {1, 2}
    <3> DEFINE a == peer.HoldTime
               b == remote.HoldTime
    <3>1. ht = IF b < a THEN b ELSE a
      BY Zenon, <1>8, <2>2
    <3>2. a \in Nat \ {1, 2} /\ b \in Nat \ {1, 2}
      BY Zenon, <1>7, <2>2
    <3> HIDE DEF a, b, ht
    <3>3. ht \in {a, b} /\ \A y \in {a, b} : ht <= y
      BY <3>1, <3>2
    <3>4. \A x \in {a, b} : (\A y \in {a, b} : x <= y) => x = ht
      BY <3>2, <3>3
    <3>5. Min({a, b}) = ht
      BY Zenon, <3>3, <3>4 DEF Min
    <3> QED
      BY <3>2, <3>3, <3>5 DEF a, b
  <2> QED
    BY <1>1, <1>2, <2>1, <2>2, <2>3 DEF open
<1>9. CASE ~accepted
  <2>1. phase' = "failed"
    BY <1>1, <1>9
  <2>2. CASE id = None
    <3>1. sent' = <<>>
      BY <1>1, <1>9, <2>2
    <3> QED
      BY <1>1, <1>2, <1>3, <2>1, <2>2, <3>1
  <2>3. CASE id # None
    <3>1. sent' = <<open>>
      BY <1>1, <1>9, <2>3
    <3>2. remote.asn # peer.ASN \/ ~Proper(remote)
      BY Zenon, <1>6, <1>9, <2>3
    <3> QED
      BY <1>1, <1>2, <2>1, <3>1, <3>2 DEF open
  <2> QED
    BY Zenon, <2>2, <2>3
<1> QED
  BY Zenon, <1>8, <1>9

(* One route that is announced, or refused by Session.Set.                 *)
LEMMA AnnounceIs ==
    ASSUME NEW pool, NEW ad, NEW lbIP \in Addr, pool.CIDR \in Seq(Block), IsAd(ad, pool.CIDR),
           Announce(pool, ad, lbIP)
    PROVE  /\ phase = "up" /\ phase' = phase /\ raw' = raw /\ cfg' = cfg /\ link' = link
           /\ \/ route' = route /\ sent' = <<>>
              \/ \E adv : /\ adv.NextHop = None /\ adv.length \in 0..32
                          /\ Cardinality(adv.Communities) \in 0..63
                          /\ route'.adv = adv /\ Inside(route')
                          /\ sent' = <<sendUpdate(link.peer.MyASN, link.peer.MyASN = link.peer.ASN,
                                                  link.peer.Addr, adv)>>
<1> DEFINE adv == Route(ad, lbIP)
           r == [adv |-> adv, pool |-> pool, lbIP |-> lbIP]
           m == sendUpdate(link.peer.MyASN, link.peer.MyASN = link.peer.ASN, link.peer.Addr, adv)
<1>1. /\ phase = "up" /\ InPool(pool, lbIP)
      /\ IF SetAccepts(adv) THEN route' = r /\ sent' = <<m>> ELSE sent' = <<>> /\ route' = route
      /\ phase' = phase /\ raw' = raw /\ cfg' = cfg /\ link' = link
  BY Zenon DEF Announce
<1>2. ASSUME SetAccepts(adv)
      PROVE  /\ adv.NextHop = None /\ adv.length \in 0..32
             /\ Cardinality(adv.Communities) \in 0..63
             /\ route'.adv = adv /\ Inside(route') /\ sent' = <<m>>
  <2>1. route' = r /\ sent' = <<m>>
    BY Zenon, <1>1, <1>2
  <2>2. adv.prefix # None /\ Cardinality(adv.Communities) <= 63
    BY Zenon, <1>2 DEF SetAccepts
  <2>3. ad.AggregationLength \in 0..32 /\ Inside(r)
    BY Zenon, <1>1, <2>2, RouteInside
  <2>4. /\ adv.NextHop = None /\ adv.length = ad.AggregationLength
        /\ adv.Communities = ad.Communities
    BY Zenon DEF Route
  <2>5. IsFiniteSet(ad.Communities)
    BY Zenon DEF IsAd
  <2>6. Cardinality(ad.Communities) \in Nat
    BY Zenon, <2>5, FS_CardinalityType
  <2> HIDE DEF adv
  <2>7. Cardinality(adv.Communities) \in 0..63
    <3> DEFINE c == Cardinality(adv.Communities)
    <3>1. c <= 63 /\ c \in Nat
      BY Zenon, <2>2, <2>4, <2>6
    <3> HIDE DEF c
    <3>2. c \in 0..63
      BY <3>1
    <3> QED
      BY Zenon, <3>2 DEF c
  <2>8. r.adv = adv
    BY Zenon
  <2> HIDE DEF r, m
  <2> QED
    BY Zenon, <2>1, <2>3, <2>4, <2>7, <2>8
<1> QED
  BY Zenon, <1>1, <1>2

(* The messages that are not OPENs.                                        *)
LEMMA TypesAre ==
    /\ sendKeepalive.Type # 1
    /\ \A asn, ibgp, hop, adv : sendUpdate(asn, ibgp, hop, adv).Type # 1
    /\ \A ps : sendWithdraw(ps).Type # 1
BY DEF sendKeepalive, sendUpdate, sendWithdraw

(* Whatever holds of the one message is true of all.                       *)
LEMMA OneMessage ==
    ASSUME NEW m
    PROVE  DOMAIN <<m>> = {1} /\ <<m>>[1] = m
OBVIOUS

(* The steps, one by one.  First, Sound.                                   *)
LEMMA SoundStep ==
    ASSUME Sound, [Next]_vars
    PROVE  Sound'
<1> DEFINE Phases == {"start", "refused", "configured", "failed", "up"}
<1>1. CASE Load
  <2>1. /\ phase = "start" /\ cfg' = Parse(raw)
        /\ phase' = IF Accepts(raw) THEN "configured" ELSE "refused"
        /\ raw' = raw /\ link' = link /\ route' = route /\ sent' = sent
    BY Zenon, <1>1 DEF Load
  <2>2. raw \in Raws /\ sent = <<>> /\ route = None
    BY <2>1 DEF Sound
  <2>3. CASE Accepts(raw)
    <3>1. phase' = "configured"
      BY Zenon, <2>1, <2>3
    <3> QED
      BY <2>1, <2>2, <2>3, <3>1 DEF Sound, Loaded
  <2>4. CASE ~Accepts(raw)
    <3>1. phase' = "refused"
      BY Zenon, <2>1, <2>4
    <3> QED
      BY <2>1, <2>2, <2>4, <3>1 DEF Sound, Loaded
  <2> QED
    BY Zenon, <2>3, <2>4
<1>2. ASSUME NEW remote \in Remotes, NEW local \in Locals, Loaded, NEW k \in DOMAIN cfg.Peers,
             Connect(cfg.Peers[k], remote, local)
      PROVE  Sound'
  <2> DEFINE peer == cfg.Peers[k]
  <2>1. Configured(peer)
    BY Zenon, <1>2, LoadedIs
  <2>2. /\ phase \in {"configured", "failed"} /\ phase' \in {"failed", "up"}
        /\ raw' = raw /\ cfg' = cfg /\ route' = route
        /\ link'.peer = peer /\ link'.remote = remote /\ link'.local = local
    BY Zenon, <1>2, <2>1, ConnectIs
  <2>3. raw \in Raws /\ route = None
    BY <2>2 DEF Sound
  <2>4. Accepts(raw) /\ cfg = Parse(raw)
    BY Zenon, <1>2 DEF Sound
  <2>5. Linked'
    BY Zenon, <2>1, <2>2 DEF Linked, Configured
  <2>6. (Loaded => Accepts(raw) /\ cfg = Parse(raw))'
    BY Zenon, <2>2, <2>4
  <2> HIDE DEF peer
  <2> QED
    BY <2>2, <2>3, <2>5, <2>6 DEF Sound
<1>3. ASSUME NEW lbIP \in LbIPs, Loaded, NEW p \in DOMAIN cfg.Pools,
             NEW k \in DOMAIN cfg.Pools[p].BGPAdvertisements,
             Announce(cfg.Pools[p], cfg.Pools[p].BGPAdvertisements[k], lbIP)
      PROVE  Sound'
  <2>1. lbIP \in Addr
    BY Zenon, PeeringAssumption
  <2>2. /\ cfg.Pools[p].CIDR \in Seq(Block)
        /\ IsAd(cfg.Pools[p].BGPAdvertisements[k], cfg.Pools[p].CIDR)
    BY Zenon, <1>3, LoadedIs
  <2>3. /\ phase = "up" /\ phase' = phase /\ raw' = raw /\ cfg' = cfg /\ link' = link
        /\ route' = route \/ route'.adv.length \in 0..32
    BY Zenon, <1>3, <2>1, <2>2, AnnounceIs
  <2>4. Linked' = Linked /\ Loaded' = Loaded
    BY Zenon, <2>3 DEF Linked, Configured, Loaded
  <2>5. /\ raw \in Raws /\ Linked /\ Loaded /\ Accepts(raw) /\ cfg = Parse(raw)
        /\ route # None => route.adv.length \in 0..32
    BY <1>3, <2>3 DEF Sound
  <2>6. /\ (raw \in Raws)' /\ (route # None => route.adv.length \in 0..32)' /\ phase' = "up"
        /\ (Accepts(raw) /\ cfg = Parse(raw))' /\ Linked'
    BY Zenon, <2>3, <2>4, <2>5
  <2> QED
    BY <2>6 DEF Sound
<1>4. ASSUME NEW n \in Counts, Withdraw(n)
      PROVE  Sound'
  <2>1. /\ phase = "up" /\ phase' = phase /\ raw' = raw /\ cfg' = cfg /\ link' = link
        /\ route' = None
    BY Zenon, <1>4 DEF Withdraw
  <2>2. Linked' = Linked
    BY Zenon, <2>1 DEF Linked, Configured
  <2>3. raw \in Raws /\ Linked /\ Accepts(raw) /\ cfg = Parse(raw)
    BY <2>1 DEF Sound, Loaded
  <2>4. (raw \in Raws)' /\ phase' = "up" /\ (Accepts(raw) /\ cfg = Parse(raw))' /\ Linked'
    BY Zenon, <2>1, <2>2, <2>3
  <2> QED
    BY <2>1, <2>4 DEF Sound
<1>5. CASE UNCHANGED vars
  <2>1. /\ phase' = phase /\ raw' = raw /\ cfg' = cfg /\ link' = link /\ route' = route
        /\ sent' = sent
    BY Zenon, <1>5 DEF vars
  <2>2. Linked' = Linked /\ Loaded' = Loaded
    BY Zenon, <2>1 DEF Linked, Configured, Loaded
  <2> QED
    BY <2>1, <2>2 DEF Sound
<1> QED
  BY Zenon, <1>1, <1>2, <1>3, <1>4, <1>5 DEF Next

(* A step to a peer of the file, or with a pool of it.                     *)
LEMMA NextIs ==
    ASSUME Sound, Next
    PROVE  \/ Load
           \/ \E peer : \E remote \in Remotes, local \in Locals :
                 Configured(peer) /\ Connect(peer, remote, local)
           \/ \E pool, ad : \E lbIP \in Addr :
                 pool.CIDR \in Seq(Block) /\ IsAd(ad, pool.CIDR) /\ Announce(pool, ad, lbIP)
           \/ \E n \in Counts : Withdraw(n)
<1>1. ASSUME NEW remote \in Remotes, NEW local \in Locals, Loaded, NEW k \in DOMAIN cfg.Peers,
             Connect(cfg.Peers[k], remote, local)
      PROVE  Configured(cfg.Peers[k])
  BY Zenon, <1>1, LoadedIs
<1>2. ASSUME NEW lbIP \in LbIPs, Loaded, NEW p \in DOMAIN cfg.Pools,
             NEW k \in DOMAIN cfg.Pools[p].BGPAdvertisements,
             Announce(cfg.Pools[p], cfg.Pools[p].BGPAdvertisements[k], lbIP)
      PROVE  /\ cfg.Pools[p].CIDR \in Seq(Block) /\ lbIP \in Addr
             /\ IsAd(cfg.Pools[p].BGPAdvertisements[k], cfg.Pools[p].CIDR)
  BY Zenon, <1>2, LoadedIs, PeeringAssumption
<1> QED
  BY Zenon, <1>1, <1>2 DEF Next

(* A route stays inside its pool.                                          *)
LEMMA InsideStep ==
    ASSUME Sound, AggregatesInside, [Next]_vars
    PROVE  AggregatesInside'
<1>1. ASSUME route' = route
      PROVE  AggregatesInside'
  BY Zenon, <1>1 DEF AggregatesInside, Inside
<1>2. ASSUME NEW pool, NEW ad, NEW lbIP \in Addr, pool.CIDR \in Seq(Block), IsAd(ad, pool.CIDR),
             Announce(pool, ad, lbIP)
      PROVE  AggregatesInside'
  <2>1. route' = route \/ Inside(route')
    BY Zenon, <1>2, AnnounceIs
  <2>2. Inside(route') => AggregatesInside'
    BY Zenon DEF AggregatesInside
  <2> QED
    BY Zenon, <1>1, <2>1, <2>2
<1>3. ASSUME NEW n \in Counts, Withdraw(n)
      PROVE  AggregatesInside'
  BY Zenon, <1>3 DEF Withdraw, AggregatesInside
<1>4. Load => route' = route
  BY Zenon DEF Load
<1>5. (\E peer : \E remote \in Remotes, local \in Locals :
          Configured(peer) /\ Connect(peer, remote, local)) => route' = route
  BY Zenon DEF Connect
<1>6. UNCHANGED vars => route' = route
  BY Zenon DEF vars
<1> QED
  BY Zenon, <1>1, <1>2, <1>3, <1>4, <1>5, <1>6, NextIs

(* What an attempt says is what the peer is told.                          *)
ReadsBack(m, peer) ==
    m.Type = 1 /\ peer.HoldTime < 2^16 =>
        readOpen(m) = [asn |-> peer.MyASN, holdTime |-> peer.HoldTime, mp4 |-> TRUE, mp6 |-> TRUE]

LEMMA OpenStep ==
    ASSUME Sound, OpenReadBack, [Next]_vars
    PROVE  OpenReadBack'
<1>1. OpenReadBack' <=> \A k \in DOMAIN sent' : ReadsBack(sent'[k], link'.peer)
  BY Zenon DEF OpenReadBack, ReadsBack
<1>2. ASSUME sent' = sent, link' = link
      PROVE  OpenReadBack'
  BY Zenon, <1>2 DEF OpenReadBack
<1>3. ASSUME sent' = <<>>
      PROVE  OpenReadBack'
  <2>1. DOMAIN sent' = {}
    BY <1>3
  <2> QED
    BY Zenon, <1>1, <2>1
<1>4. ASSUME NEW m, sent' = <<m>>, m.Type # 1
      PROVE  OpenReadBack'
  <2>1. ReadsBack(m, link'.peer)
    BY Zenon, <1>4 DEF ReadsBack
  <2> QED
    BY Zenon, <1>1, <1>4, <2>1, OneMessage
<1>5. ASSUME NEW peer, NEW remote \in Remotes, NEW local \in Locals, Configured(peer),
             Connect(peer, remote, local)
      PROVE  OpenReadBack'
  <2> DEFINE open == sendOpen(peer.MyASN, peer.HoldTime)
             ka == sendKeepalive
  <2>1. /\ link'.peer = peer
        /\ sent' = <<>> \/ sent' = <<open>> \/ sent' = <<open, ka>>
    BY Zenon, <1>5, ConnectIs
  <2>2. ReadsBack(open, peer)
    <3>1. peer.MyASN \in Nat /\ peer.HoldTime \in Nat \ {1, 2}
      BY Zenon, <1>5 DEF Configured
    <3> QED
      BY Zenon, <3>1, SendOpenIs DEF ReadsBack
  <2>3. ReadsBack(ka, peer)
    BY Zenon, TypesAre DEF ReadsBack
  <2> HIDE DEF open, ka
  <2>4. CASE sent' = <<open>>
    BY Zenon, <1>1, <2>1, <2>2, <2>4, OneMessage
  <2>5. CASE sent' = <<open, ka>>
    <3>1. DOMAIN sent' = {1, 2} /\ sent'[1] = open /\ sent'[2] = ka
      BY <2>5
    <3> QED
      BY Zenon, <1>1, <2>1, <2>2, <2>3, <3>1
  <2> QED
    BY Zenon, <1>3, <2>1, <2>4, <2>5
<1>6. ASSUME NEW pool, NEW ad, NEW lbIP \in Addr, pool.CIDR \in Seq(Block), IsAd(ad, pool.CIDR),
             Announce(pool, ad, lbIP)
      PROVE  OpenReadBack'
  <2> DEFINE Update(adv) == sendUpdate(link.peer.MyASN, link.peer.MyASN = link.peer.ASN,
                                       link.peer.Addr, adv)
  <2>1. sent' = <<>> \/ \E adv : sent' = <<Update(adv)>>
    BY Zenon, <1>6, AnnounceIs
  <2>2. \A adv : Update(adv).Type # 1
    BY Zenon, TypesAre
  <2> HIDE DEF Update
  <2> QED
    BY Zenon, <1>3, <1>4, <2>1, <2>2
<1>7. ASSUME NEW n \in Counts, Withdraw(n)
      PROVE  OpenReadBack'
  <2>1. \E ps : sent' = <<sendWithdraw(ps)>>
    BY Zenon, <1>7 DEF Withdraw
  <2> QED
    BY Zenon, <1>4, <2>1, TypesAre
<1>8. Load \/ UNCHANGED vars => sent' = sent /\ link' = link
  BY Zenon DEF Load, vars
<1> QED
  BY Zenon, <1>2, <1>5, <1>6, <1>7, <1>8, NextIs

(* A session that is up has been agreed on.                                *)
LEMMA NegotiatesStep ==
    ASSUME Sound, Negotiates, [Next]_vars
    PROVE  Negotiates'
<1>1. ASSUME phase' = phase, link' = link
      PROVE  Negotiates'
  BY Zenon, <1>1 DEF Negotiates, Proper, NoRouterID
<1>2. ASSUME NEW peer, NEW remote \in Remotes, NEW local \in Locals, Configured(peer),
             Connect(peer, remote, local)
      PROVE  Negotiates'
  <2>1. /\ link'.peer = peer /\ link'.remote = remote /\ link'.local = local
        /\ phase' = "up" =>
              /\ remote.asn = peer.ASN
              /\ link'.actualHoldTime = Min({peer.HoldTime, remote.HoldTime})
              /\ link'.actualHoldTime \notin {1, 2}
        /\ phase' = "failed" =>
              remote.asn # peer.ASN \/ ~Proper(remote) \/ NoRouterID(peer, local)
    BY Zenon, <1>2, ConnectIs
  <2> QED
    BY Zenon, <2>1 DEF Negotiates, Proper, NoRouterID
<1>3. ASSUME NEW pool, NEW ad, NEW lbIP \in Addr, pool.CIDR \in Seq(Block), IsAd(ad, pool.CIDR),
             Announce(pool, ad, lbIP)
      PROVE  phase' = phase /\ link' = link
  BY Zenon, <1>3, AnnounceIs
<1>4. ASSUME NEW n \in Counts, Withdraw(n)
      PROVE  phase' = phase /\ link' = link
  BY Zenon, <1>4 DEF Withdraw
<1>5. ASSUME Load
      PROVE  Negotiates'
  <2>1. phase' = "configured" \/ phase' = "refused"
    BY Zenon, <1>5 DEF Load
  <2>2. phase' # "up" /\ phase' # "failed"
    BY <2>1
  <2> QED
    BY Zenon, <2>2 DEF Negotiates
<1>6. UNCHANGED vars => phase' = phase /\ link' = link
  BY Zenon DEF vars
<1> QED
  BY Zenon, <1>1, <1>2, <1>3, <1>4, <1>5, <1>6, NextIs

(* A message that is sent is well formed.                                  *)
LEMMA FormedStep ==
    ASSUME Sound, WellFormed, [Next]_vars
    PROVE  WellFormed'
<1>1. WellFormed' <=> \A k \in DOMAIN sent' : Fine(sent'[k], link'.peer.Addr)
  BY Zenon DEF WellFormed, Fine
<1>2. ASSUME sent' = sent, link' = link
      PROVE  WellFormed'
  BY Zenon, <1>1, <1>2 DEF WellFormed, Fine
<1>3. ASSUME sent' = <<>>
      PROVE  WellFormed'
  <2>1. DOMAIN sent' = {}
    BY <1>3
  <2> QED
    BY Zenon, <1>1, <2>1
<1>4. ASSUME NEW m, sent' = <<m>>, Fine(m, link'.peer.Addr)
      PROVE  WellFormed'
  BY Zenon, <1>1, <1>4, OneMessage
<1>5. ASSUME NEW peer, NEW remote \in Remotes, NEW local \in Locals, Configured(peer),
             Connect(peer, remote, local)
      PROVE  WellFormed'
  <2> DEFINE open == sendOpen(peer.MyASN, peer.HoldTime)
             ka == sendKeepalive
  <2>1. sent' = <<>> \/ sent' = <<open>> \/ sent' = <<open, ka>>
    BY Zenon, <1>5, ConnectIs
  <2>2. Fine(open, link'.peer.Addr) /\ Fine(ka, link'.peer.Addr)
    BY Zenon, OpenFormed, KeepaliveFormed
  <2> HIDE DEF open, ka
  <2>3. CASE sent' = <<open, ka>>
    <3>1. DOMAIN sent' = {1, 2} /\ sent'[1] = open /\ sent'[2] = ka
      BY <2>3
    <3> QED
      BY Zenon, <1>1, <2>2, <3>1
  <2> QED
    BY Zenon, <1>3, <1>4, <2>1, <2>2, <2>3
<1>6. ASSUME NEW pool, NEW ad, NEW lbIP \in Addr, pool.CIDR \in Seq(Block), IsAd(ad, pool.CIDR),
             Announce(pool, ad, lbIP)
      PROVE  WellFormed'
  <2> DEFINE peer == link.peer
             Update(adv) == sendUpdate(peer.MyASN, peer.MyASN = peer.ASN, peer.Addr, adv)
  <2>1. /\ phase = "up" /\ link' = link
        /\ sent' = <<>> \/ \E adv : /\ adv.NextHop = None /\ adv.length \in 0..32
                                    /\ Cardinality(adv.Communities) \in 0..63
                                    /\ sent' = <<Update(adv)>>
    BY Zenon, <1>6, AnnounceIs
  <2>2. peer.Addr \in {4, 6}
    BY <2>1 DEF Sound, Linked, Configured
  <2>3. ASSUME NEW adv, adv.NextHop = None, adv.length \in 0..32,
               Cardinality(adv.Communities) \in 0..63
        PROVE  Fine(Update(adv), peer.Addr)
    BY Zenon, <2>2, <2>3, UpdateFormed
  <2>4. link'.peer.Addr = peer.Addr
    BY Zenon, <2>1
  <2> HIDE DEF Update, peer
  <2> QED
    BY Zenon, <1>3, <1>4, <2>1, <2>3, <2>4
<1>7. ASSUME NEW n \in Counts, Withdraw(n)
      PROVE  WellFormed'
  <2> DEFINE length == route.adv.length
             m == sendWithdraw(<<[length |-> length, n |-> n]>>)
  <2>1. route # None /\ sent' = <<m>>
    BY Zenon, <1>7 DEF Withdraw
  <2>2. length \in 0..32
    BY Zenon, <2>1 DEF Sound
  <2>3. n \in Nat
    BY PeeringAssumption
  <2> HIDE DEF length
  <2>4. Fine(m, link'.peer.Addr)
    BY <2>2, <2>3, WithdrawFormed
  <2> QED
    BY Zenon, <1>4, <2>1, <2>4
<1>8. Load \/ UNCHANGED vars => sent' = sent /\ link' = link
  BY Zenon DEF Load, vars
<1> QED
  BY Zenon, <1>2, <1>5, <1>6, <1>7, <1>8, NextIs

-----------------------------------------------------------------------------
(***************************************************************************)
(* The theorems.                                                           *)
(***************************************************************************)

(* The configuration held is that of the file, the session is with a peer  *)
(* of it, and the route is of a pool of it.                                *)
THEOREM PeeringKept == Spec => []PeeringInvariant
<1>1. Init => PeeringInvariant
  <2>1. ASSUME Init
        PROVE  PeeringInvariant
    <3>1. phase = "start" /\ raw \in Raws /\ route = None /\ sent = <<>>
      BY Zenon, <2>1 DEF Init
    <3>2. Sound
      BY <3>1 DEF Sound, Loaded
    <3>3. AggregatesInside
      BY Zenon, <3>1 DEF AggregatesInside
    <3>4. OpenReadBack
      <4>1. DOMAIN sent = {}
        BY <3>1
      <4> QED
        BY Zenon, <4>1 DEF OpenReadBack
    <3>5. Negotiates
      <4>1. phase # "up" /\ phase # "failed"
        BY <3>1
      <4> QED
        BY Zenon, <4>1 DEF Negotiates
    <3> QED
      BY Zenon, <3>2, <3>3, <3>4, <3>5 DEF PeeringInvariant
  <2> QED
    BY Zenon, <2>1
<1>2. PeeringInvariant /\ [Next]_vars => PeeringInvariant'
  BY Zenon, SoundStep, InsideStep, OpenStep, NegotiatesStep DEF PeeringInvariant
<1> QED
  BY <1>1, <1>2, PTL DEF Spec

(* Parse refuses a file for prefixes with addresses in common, and no      *)
(* other acceptable file.                                                  *)
THEOREM ParseRefusesOverlap == Spec => []RefusesOverlap
<1>1. Sound => RefusesOverlap
  <2> DEFINE all == allCIDRs(poolsOf(raw))
             Sharing == \E i, j \in DOMAIN all : i < j /\ Share(all[i], all[j])
             Alike == \E i, j \in DOMAIN all :
                         i < j /\ Share(all[i], all[j]) /\ all[i].mask = all[j].mask
  <2>1. ASSUME Sound, phase \in {"refused", "configured"}, Acceptable(raw)
        PROVE  (Alike => phase = "refused") /\ (phase = "refused" => Sharing)
    <3>1. IsFile(raw)
      BY Zenon, <2>1, PeeringAssumption DEF Sound
    <3>2. all \in Seq(Block)
      BY Zenon, <2>1, <3>1, AllAre
    <3>3. (Overlap(all) => Sharing) /\ (Alike => Overlap(all))
      BY Zenon, <3>2, OverlapIs
    <3> HIDE DEF Sharing, Alike
    <3>4. phase = "refused" => Overlap(all)
      BY Zenon, <2>1 DEF Sound, Accepts
    <3>5. phase = "configured" => ~Overlap(all)
      BY <2>1 DEF Sound, Loaded, Accepts
    <3> QED
      BY Zenon, <2>1, <3>3, <3>4, <3>5
  <2> QED
    BY Zenon, <2>1 DEF RefusesOverlap
<1> QED
  BY <1>1, PeeringKept, PTL DEF PeeringInvariant

(* A pool has the addresses that were written down for it.                 *)
THEOREM PoolsAsWritten == Spec => []AsWritten
<1>1. Sound => AsWritten
  <2>1. ASSUME Sound, Loaded, NEW k \in DOMAIN raw.Pools, NEW lbIP \in LbIPs
        PROVE  InPool(cfg.Pools[raw.Pools[k].Name], lbIP) <=>
                  \E i \in DOMAIN raw.Pools[k].Addresses : Includes(raw.Pools[k].Addresses[i], lbIP)
    <3>1. raw \in Raws /\ Accepts(raw) /\ cfg = Parse(raw)
      BY Zenon, <2>1 DEF Sound
    <3>2. IsFile(raw) /\ lbIP \in Addr
      BY Zenon, <3>1, PeeringAssumption
    <3> DEFINE pool == parseAddressPool(raw.Pools[k], communitiesOf(raw))
    <3>3. /\ Parse(raw).Pools[raw.Pools[k].Name] = poolsOf(raw)[k]
          /\ IsPool(raw.Pools[k]) /\ poolsOf(raw)[k] # None /\ poolsOf(raw)[k] = pool
      BY Zenon, <3>1, <3>2, FileIs
    <3>4. cfg.Pools[raw.Pools[k].Name] = pool /\ pool # None
      BY Zenon, <3>1, <3>3
    <3>5. InPool(pool, lbIP) <=>
             \E i \in DOMAIN raw.Pools[k].Addresses : Includes(raw.Pools[k].Addresses[i], lbIP)
      BY Zenon, <3>2, <3>3, <3>4, PoolIs
    <3> QED
      BY Zenon, <3>4, <3>5
  <2> QED
    BY Zenon, <2>1 DEF AsWritten
<1> QED
  BY <1>1, PeeringKept, PTL DEF PeeringInvariant

(* A route attracts traffic for addresses of its pool only.                *)
THEOREM RoutesInside == Spec => []AggregatesInside
BY PeeringKept, PTL DEF PeeringInvariant

(* A peer that reads the OPEN has the configured AS number and hold time.  *)
THEOREM OpensReadBack == Spec => []OpenReadBack
BY PeeringKept, PTL DEF PeeringInvariant

(* A session is up with a router of the right AS only, at the lesser of    *)
(* the hold times, and fails for no other reason.                          *)
THEOREM SessionsNegotiate == Spec => []Negotiates
BY PeeringKept, PTL DEF PeeringInvariant

(* Lengths in messages are right as long as they can be written, and no    *)
(* message is too long but one that withdraws more than 814 routes.        *)
THEOREM MessagesWellFormed == Spec => []WellFormed
<1>1. Init => WellFormed
  <2>1. ASSUME Init
        PROVE  WellFormed
    <3>1. DOMAIN sent = {}
      BY <2>1 DEF Init
    <3> QED
      BY Zenon, <3>1 DEF WellFormed
  <2> QED
    BY Zenon, <2>1
<1>2. Sound /\ WellFormed /\ [Next]_vars => WellFormed'
  BY Zenon, FormedStep
<1> QED
  BY <1>1, <1>2, PeeringKept, PTL DEF Spec, PeeringInvariant
=============================================================================
