---------------------------- MODULE FramingProofs ---------------------------
(***************************************************************************)
(* However TCP cuts the bytes of one direction of a connection, and        *)
(* wherever it loses the rest, the decoder of Framing stays aligned with   *)
(* the frames: for all payloads, any number of frames and any base.        *)
(*                                                                         *)
(* The facts about sequences the last section rests on come first. Where a *)
(* lemma establishes several facts, they are an operator, so that a proof  *)
(* takes them whole and expands them where it needs one.                   *)
(***************************************************************************)
EXTENDS Framing, TLAPS, SequenceTheorems, WellFoundedInduction

-----------------------------------------------------------------------------
(* Numbers                                                                 *)

\* Whatever holds of 0 and goes from each number to the next holds of all.
LEMMA AllNumbers ==
    ASSUME NEW A \in SUBSET Nat, 0 \in A, \A n \in A : n + 1 \in A
    PROVE  A = Nat
<1> DEFINE R == {ss \in Nat \X Nat : ss[1] < ss[2]}
           B == Nat \ A
<1> SUFFICES ASSUME B # {} PROVE FALSE
  OBVIOUS
<1>1. IsWellFoundedOn(R, Nat)
  BY NatLessThanWellFounded DEF OpToRel
<1>2. PICK x \in B : \A y \in B : ~ (<<y, x>> \in R)
  <2> HIDE DEF R
  <2> QED
    BY <1>1, WFMin
<1>3. x - 1 \in Nat /\ x - 1 < x
  BY <1>2
<1>4. x - 1 \in A
  <2>1. <<x - 1, x>> \in R
    BY <1>2, <1>3
  <2> QED
    BY <1>2, <1>3, <2>1
<1>5. x \in A
  BY <1>3, <1>4
<1> QED
  BY <1>5

LEMMA Division ==
    ASSUME NEW a \in Nat, NEW b \in Nat \ {0}
    PROVE  /\ a \div b \in Nat /\ a % b \in 0 .. b - 1
           /\ a = b * (a \div b) + (a % b)
OBVIOUS

LEMMA Product ==
    ASSUME NEW a \in Nat, NEW b \in Nat, NEW c \in Nat
    PROVE  /\ a * b \in Nat /\ a * b = b * a
           /\ a * (b + c) = a * b + a * c
           /\ (a * b) * c = a * (b * c)
           /\ b <= c => a * b <= a * c
OBVIOUS

\* There is one quotient.
LEMMA Quotient ==
    ASSUME NEW b \in Nat \ {0}, NEW q \in Nat, NEW r \in 0 .. b - 1
    PROVE  (b * q + r) \div b = q
<1> DEFINE a == b * q + r
           p == a \div b
<1>1. b * q \in Nat /\ a \in Nat /\ b \in Nat /\ r \in Nat /\ r < b
  BY Product
<1>2. p \in Nat /\ a % b \in 0 .. b - 1 /\ a = b * p + (a % b)
  BY <1>1, Division
<1> DEFINE s == a % b
<1>3. b * q + r = b * p + s /\ s \in Nat /\ s < b
  BY <1>1, <1>2
<1> HIDE DEF p, s
<1>4. ~ (p + 1 <= q)
  <2> SUFFICES ASSUME p + 1 <= q PROVE FALSE
    OBVIOUS
  <2>1. b * (p + 1) <= b * q /\ b * (p + 1) = b * p + b * 1 /\ b * 1 = b
    BY <1>1, <1>2, Product
  <2>2. b * p \in Nat
    BY <1>1, <1>2, Product
  <2> QED
    BY <1>1, <1>3, <2>1, <2>2
<1>5. ~ (q + 1 <= p)
  <2> SUFFICES ASSUME q + 1 <= p PROVE FALSE
    OBVIOUS
  <2>1. b * (q + 1) <= b * p /\ b * (q + 1) = b * q + b * 1 /\ b * 1 = b
    BY <1>1, <1>2, Product
  <2>2. b * p \in Nat
    BY <1>1, <1>2, Product
  <2> QED
    BY <1>1, <1>3, <2>1, <2>2
<1> QED
  BY <1>2, <1>4, <1>5 DEF p

\* To divide by a product is to divide twice.
LEMMA DivideTwice ==
    ASSUME NEW n \in Nat, NEW b \in Nat \ {0}, NEW c \in Nat \ {0}
    PROVE  n \div (b * c) = (n \div c) \div b
<1> DEFINE q == n \div c
           r == n % c
           p == q \div b
           s == q % b
<1>1. /\ q \in Nat /\ r \in 0 .. c - 1 /\ n = c * q + r
      /\ p \in Nat /\ s \in 0 .. b - 1 /\ q = b * p + s
  BY Division
<1> HIDE DEF q, r, p, s
<1>2. /\ b * p \in Nat /\ c * s \in Nat /\ b * c \in Nat
      /\ c * (b * p + s) = c * (b * p) + c * s
      /\ c * (b * p) = (b * c) * p
  BY <1>1, Product
<1>3. c * s <= c * (b - 1) /\ c * (b - 1) = c * b - c /\ c * b = b * c
  BY <1>1, Product
<1>4. c * s + r \in 0 .. (b * c) - 1 /\ b * c \in Nat \ {0}
  BY <1>1, <1>2, <1>3
<1>5. n = (b * c) * p + (c * s + r)
  BY <1>1, <1>2
<1>6. n \div (b * c) = p
  <2> DEFINE d == b * c
             e == c * s + r
  <2>1. d \in Nat \ {0} /\ e \in 0 .. d - 1 /\ n = d * p + e
    BY <1>4, <1>5
  <2> HIDE DEF d, e
  <2>2. n \div d = p
    BY <1>1, <2>1, Quotient
  <2> QED
    BY <2>2 DEF d
<1> QED
  BY <1>6 DEF p, q

-----------------------------------------------------------------------------
(* The codec                                                               *)

Byte == 0 .. Base - 1
Item == Payload \union Garbage

LEMMA Bases ==
    /\ Base \in Nat \ {0} /\ Base * Base \in Nat \ {0}
    /\ Base * Base * Base \in Nat \ {0}
    /\ HeaderLen = 4
    /\ Weight[1] = Base * Base * Base /\ Weight[2] = Base * Base
    /\ Weight[3] = Base /\ Weight[4] = 1
<1>1. Base \in Nat \ {0}
  BY PayloadAssumption
<1>2. \A a \in Nat \ {0} : a * Base \in Nat \ {0}
  BY <1>1
<1>3. Base * Base \in Nat \ {0} /\ Base * Base * Base \in Nat \ {0}
  BY <1>1, <1>2
<1> QED
  BY <1>1, <1>3 DEF HeaderLen, Weight

LEMMA ItemType ==
    ASSUME NEW m \in Item
    PROVE  /\ m \in Seq(Byte) /\ Len(m) \in Nat
           /\ Len(m) < Base * (Base * Base * Base)
BY Bases, PayloadAssumption DEF Item, Byte

\* A length that fits into the header comes out of it again.
LEMMA HeaderRoundTrip ==
    ASSUME NEW n \in Nat, n < Base * (Base * Base * Base)
    PROVE  /\ Header(n) \in Seq(Byte) /\ Len(Header(n)) = 4
           /\ Length(Header(n)) = n
<1> DEFINE b == Base
           q1 == n \div b
           q2 == q1 \div b
           q3 == q2 \div b
           h == Header(n)
<1>1. b \in Nat \ {0} /\ b * b \in Nat \ {0} /\ b * b * b \in Nat \ {0}
  BY Bases
<1>2. /\ q1 \in Nat /\ q2 \in Nat /\ q3 \in Nat
      /\ n = b * q1 + (n % b) /\ q1 = b * q2 + (q1 % b) /\ q2 = b * q3 + (q2 % b)
      /\ n % b \in Nat /\ q1 % b \in Nat /\ q2 % b \in Nat
  <2> HIDE DEF b
  <2>1. /\ q1 \in Nat /\ n = b * q1 + (n % b) /\ n % b \in 0 .. b - 1
    BY <1>1, Division
  <2> HIDE DEF q1
  <2>2. /\ q2 \in Nat /\ q1 = b * q2 + (q1 % b) /\ q1 % b \in 0 .. b - 1
    BY <1>1, <2>1, Division
  <2> HIDE DEF q2
  <2>3. /\ q3 \in Nat /\ q2 = b * q3 + (q2 % b) /\ q2 % b \in 0 .. b - 1
    BY <1>1, <2>2, Division
  <2> HIDE DEF q3
  <2>4. \A r : r \in 0 .. b - 1 => r \in Nat
    OBVIOUS
  <2> QED
    BY <2>1, <2>2, <2>3, <2>4
<1>3. n \div (b * b) = q2
  BY <1>1, DivideTwice
<1>4. n \div (b * b * b) = q3
  <2>1. n \div ((b * b) * b) = q1 \div (b * b)
    BY <1>1, DivideTwice
  <2>2. q1 \div (b * b) = q3
    BY <1>1, <1>2, DivideTwice
  <2> QED
    BY <2>1, <2>2
<1>5. n \div 1 = n
  BY Z3
<1>6. /\ h = [i \in 1 .. 4 |-> (n \div Weight[i]) % b]
      /\ h[1] = q3 % b /\ h[2] = q2 % b /\ h[3] = q1 % b /\ h[4] = n % b
  <2>1. h = [i \in 1 .. 4 |-> (n \div Weight[i]) % b]
    BY Bases DEF Header
  <2>2. /\ h[1] = (n \div Weight[1]) % b /\ h[2] = (n \div Weight[2]) % b
        /\ h[3] = (n \div Weight[3]) % b /\ h[4] = (n \div Weight[4]) % b
    BY <2>1
  <2> QED
    BY <2>1, <2>2, <1>3, <1>4, <1>5, Bases
<1>7. h \in Seq(Byte) /\ Len(h) = 4
  <2>1. \A i \in 1 .. 4 : Weight[i] \in Nat \ {0}
    BY Bases
  <2>2. \A i \in 1 .. 4 : (n \div Weight[i]) % b \in Byte
    BY <1>1, <2>1, Division DEF Byte
  <2> HIDE DEF h
  <2> QED
    BY <1>6, <2>2
<1>8. q3 < b
  <2> SUFFICES ASSUME b <= q3 PROVE FALSE
    BY <1>1, <1>2
  <2> HIDE DEF q1, q2, q3, b, h
  <2>1. b * b <= b * q3 /\ b * q3 \in Nat
    BY <1>1, <1>2, Product
  <2>2. b * b <= q2
    BY <1>1, <1>2, <2>1
  <2>3. b * (b * b) <= b * q2 /\ b * q2 \in Nat /\ b * (b * b) \in Nat
    BY <1>1, <1>2, <2>2, Product
  <2>4. b * (b * b) <= q1
    <3> DEFINE x == b * (b * b)
               y == b * q2
    <3>1. x \in Nat /\ y \in Nat /\ x <= y /\ q1 = y + (q1 % b) /\ q1 % b \in Nat
      BY <1>2, <2>3
    <3> HIDE DEF x, y
    <3>2. x <= q1
      BY <3>1
    <3> QED
      BY <3>2 DEF x
  <2>5. b * (b * (b * b)) <= b * q1 /\ b * q1 \in Nat /\ b * (b * (b * b)) \in Nat
    BY <1>1, <1>2, <2>3, <2>4, Product
  <2>6. b * (b * (b * b)) <= n
    BY <1>1, <1>2, <2>5
  <2>7. b * (b * (b * b)) = b * (b * b * b)
    BY <1>1, Product
  <2> QED
    BY <1>1, <2>5, <2>6, <2>7 DEF b
<1>9. q3 % b = q3
  <2>1. q3 = b * 0 + q3 /\ q3 \in 0 .. b - 1
    BY <1>1, <1>2, <1>8
  <2>2. q3 \div b = 0
    BY <1>1, <2>1, Quotient
  <2>3. q3 = b * (q3 \div b) + (q3 % b) /\ q3 % b \in 0 .. b - 1
    BY <1>1, <1>2, Division
  <2> QED
    BY <1>1, <2>2, <2>3
<1>10. Length(h) = (b * b * b) * q3 + (b * b) * (q2 % b) + b * (q1 % b) + 1 * (n % b)
  BY <1>6, <1>9, Bases DEF Length
<1> HIDE DEF q1, q2, q3, h, b
<1>11. (b * b * b) * q3 + (b * b) * (q2 % b) = (b * b) * q2
  <2>1. (b * b * b) * q3 = (b * b) * (b * q3)
    BY <1>1, <1>2, Product
  <2>2. b * q3 \in Nat
    BY <1>1, <1>2, Product
  <2>3. (b * b) * (b * q3 + (q2 % b)) = (b * b) * (b * q3) + (b * b) * (q2 % b)
    BY <1>1, <1>2, <2>2, Product
  <2> QED
    BY <1>2, <2>1, <2>3
<1>12. (b * b) * q2 + b * (q1 % b) = b * q1
  <2>1. (b * b) * q2 = b * (b * q2) /\ b * q2 \in Nat
    BY <1>1, <1>2, Product
  <2>2. b * (b * q2 + (q1 % b)) = b * (b * q2) + b * (q1 % b)
    BY <1>1, <1>2, <2>1, Product
  <2> QED
    BY <1>2, <2>1, <2>2
<1>13. Length(h) = n
  <2>1. b * q1 \in Nat /\ (b * b * b) * q3 \in Nat /\ (b * b) * (q2 % b) \in Nat
        /\ b * (q1 % b) \in Nat
    BY <1>1, <1>2, Product
  <2> QED
    BY <1>2, <1>10, <1>11, <1>12, <2>1
<1> QED
  BY <1>7, <1>13 DEF h

-----------------------------------------------------------------------------
(* FlattenSeq                                                              *)

\* f[i] joins the first i sequences of q.
Joins(q, f) ==
    f = [i \in 1 .. Len(q) |-> IF i = 1 THEN q[i] ELSE f[i - 1] \o q[i]]

LEMMA JoinsAgree ==
    ASSUME NEW T, NEW p \in Seq(T), NEW q \in Seq(T), NEW f, NEW g,
           Joins(p, f), Joins(q, g), Len(p) <= Len(q),
           \A i \in 1 .. Len(p) : p[i] = q[i]
    PROVE  \A i \in 1 .. Len(p) : f[i] = g[i]
<1> DEFINE A == {n \in Nat : n \in 1 .. Len(p) => f[n] = g[n]}
<1>1. Len(p) \in Nat /\ Len(q) \in Nat
  OBVIOUS
<1>2. \A i \in 1 .. Len(p) : f[i] = IF i = 1 THEN p[i] ELSE f[i - 1] \o p[i]
  BY Zenon DEF Joins
<1>3. \A i \in 1 .. Len(q) : g[i] = IF i = 1 THEN q[i] ELSE g[i - 1] \o q[i]
  BY Zenon DEF Joins
<1>4. 0 \in A
  OBVIOUS
<1>5. ASSUME NEW n \in A PROVE n + 1 \in A
  <2>1. n \in Nat /\ n + 1 \in Nat /\ (n + 1) - 1 = n
    OBVIOUS
  <2> SUFFICES ASSUME n + 1 \in 1 .. Len(p) PROVE f[n + 1] = g[n + 1]
    BY <2>1
  <2>2. /\ n + 1 \in 1 .. Len(q) /\ p[n + 1] = q[n + 1]
        /\ f[n + 1] = IF n + 1 = 1 THEN p[n + 1] ELSE f[(n + 1) - 1] \o p[n + 1]
        /\ g[n + 1] = IF n + 1 = 1 THEN q[n + 1] ELSE g[(n + 1) - 1] \o q[n + 1]
    BY <1>1, <1>2, <1>3
  <2>3. n + 1 = 1 \/ f[n] = g[n]
    BY <1>1, <2>1
  <2> QED
    BY <2>1, <2>2, <2>3
<1> HIDE DEF A
<1>6. A = Nat
  BY <1>4, <1>5, AllNumbers DEF A
<1> QED
  BY <1>1, <1>6 DEF A

LEMMA JoinsExists ==
    ASSUME NEW T, NEW q \in Seq(Seq(T))
    PROVE  \E f : Joins(q, f) /\ \A i \in 1 .. Len(q) : f[i] \in Seq(T)
<1> DEFINE Upto(n, f) ==
             \A i \in 1 .. n : /\ f[i] \in Seq(T)
                               /\ f[i] = IF i = 1 THEN q[i] ELSE f[i - 1] \o q[i]
           A == {n \in Nat : n <= Len(q) => \E f : DOMAIN f = 1 .. n /\ Upto(n, f)
                                                   /\ f = [i \in 1 .. n |-> f[i]]}
<1>1. Len(q) \in Nat /\ \A i \in 1 .. Len(q) : q[i] \in Seq(T)
  OBVIOUS
<1>2. 0 \in A
  <2>1. \E f : DOMAIN f = 1 .. 0 /\ Upto(0, f) /\ f = [i \in 1 .. 0 |-> f[i]]
    <3>1. /\ DOMAIN [i \in 1 .. 0 |-> <<>>] = 1 .. 0
          /\ Upto(0, [i \in 1 .. 0 |-> <<>>])
          /\ [i \in 1 .. 0 |-> <<>>]
               = [i \in 1 .. 0 |-> [j \in 1 .. 0 |-> <<>>][i]]
      OBVIOUS
    <3> QED
      BY <3>1
  <2> QED
    BY <2>1
<1>3. ASSUME NEW n \in A PROVE n + 1 \in A
  <2> SUFFICES ASSUME n + 1 <= Len(q)
               PROVE  \E f : DOMAIN f = 1 .. n + 1 /\ Upto(n + 1, f)
                             /\ f = [i \in 1 .. n + 1 |-> f[i]]
    OBVIOUS
  <2>1. n \in Nat /\ n <= Len(q)
    BY <1>1
  <2>2. PICK g : Upto(n, g)
    BY <2>1
  <2> DEFINE f == [i \in 1 .. n + 1 |->
                      IF i <= n THEN g[i]
                      ELSE IF i = 1 THEN q[i] ELSE g[i - 1] \o q[i]]
  <2>3. ASSUME NEW i \in 1 .. n + 1
        PROVE  /\ f[i] \in Seq(T)
               /\ f[i] = IF i = 1 THEN q[i] ELSE f[i - 1] \o q[i]
    <3>1. i \in 1 .. Len(q) /\ q[i] \in Seq(T) /\ i \in Int
      BY <1>1, <2>1
    <3>2. CASE i <= n
      <4>1. i \in 1 .. n
        BY <2>1, <3>2
      <4>2. g[i] \in Seq(T) /\ g[i] = IF i = 1 THEN q[i] ELSE g[i - 1] \o q[i]
        BY <2>2, <4>1
      <4>3. i # 1 => i - 1 \in 1 .. n /\ i - 1 \in 1 .. n + 1
        BY <2>1, <4>1
      <4>4. i # 1 => f[i - 1] = g[i - 1]
        BY <4>3
      <4> QED
        BY <3>2, <4>2, <4>4
    <3>3. CASE i = n + 1
      <4>1. ~ (i <= n)
        BY <2>1, <3>3
      <4>2. CASE i = 1
        BY <3>1, <4>1, <4>2
      <4>3. CASE i # 1
        <5>1. i - 1 = n /\ n \in 1 .. n /\ n \in 1 .. n + 1
          BY <2>1, <3>3, <4>3
        <5>2. g[n] \in Seq(T)
          BY <2>2, <5>1
        <5>5. f[n] = g[n]
          BY <2>1, <5>1
        <5>6. f[i] = g[i - 1] \o q[i]
          BY <4>1, <4>3
        <5>3. f[n] = g[n] /\ f[i] = g[n] \o q[i]
          BY <5>1, <5>5, <5>6, Zenon
        <5>4. g[n] \o q[i] \in Seq(T)
          BY <3>1, <5>2
        <5> QED
          BY <4>3, <5>1, <5>3, <5>4
      <4> QED
        BY <4>2, <4>3
    <3> QED
      BY <2>1, <3>2, <3>3
  <2>4. DOMAIN f = 1 .. n + 1 /\ f = [i \in 1 .. n + 1 |-> f[i]]
    OBVIOUS
  <2> HIDE DEF f
  <2> QED
    BY <2>3, <2>4
<1> HIDE DEF A
<1>4. A = Nat
  BY <1>2, <1>3, AllNumbers DEF A
<1>5. PICK f : /\ DOMAIN f = 1 .. Len(q) /\ Upto(Len(q), f)
               /\ f = [i \in 1 .. Len(q) |-> f[i]]
  <2>1. Len(q) \in A /\ Len(q) <= Len(q)
    BY <1>1, <1>4
  <2> QED
    BY <2>1, Zenon DEF A
<1>6. [i \in 1 .. Len(q) |-> f[i]]
        = [i \in 1 .. Len(q) |-> IF i = 1 THEN q[i] ELSE f[i - 1] \o q[i]]
  BY <1>5
<1> QED
  BY <1>5, <1>6 DEF Joins

LEMMA FlattenJoins ==
    ASSUME NEW T, NEW q \in Seq(Seq(T)), q # <<>>
    PROVE  \E f : /\ Joins(q, f) /\ FlattenSeq(q) = f[Len(q)]
                  /\ \A i \in 1 .. Len(q) : f[i] \in Seq(T)
<1> DEFINE f == CHOOSE g : Joins(q, g)
<1>1. Len(q) # 0
  OBVIOUS
<1>2. PICK g : Joins(q, g) /\ \A i \in 1 .. Len(q) : g[i] \in Seq(T)
  BY JoinsExists
<1>3. Joins(q, f)
  BY <1>2
<1>4. FlattenSeq(q) = f[Len(q)]
  BY <1>1, Zenon DEF FlattenSeq, Joins
<1> HIDE DEF f
<1>5. \A i \in 1 .. Len(q) : f[i] = g[i]
  BY <1>2, <1>3, JoinsAgree
<1> QED
  BY <1>2, <1>3, <1>4, <1>5

LEMMA Appended ==
    ASSUME NEW S, NEW s \in Seq(S), NEW x \in S
    PROVE  /\ Append(s, x) \in Seq(S) /\ Append(s, x) # <<>>
           /\ Len(Append(s, x)) = Len(s) + 1 /\ Len(s) \in Nat
           /\ \A i \in 1 .. Len(s) : Append(s, x)[i] = s[i]
           /\ Append(s, x)[Len(s) + 1] = x
OBVIOUS

LEMMA Associative ==
    ASSUME NEW S, NEW s \in Seq(S), NEW t \in Seq(S), NEW u \in Seq(S)
    PROVE  (s \o t) \o u = s \o (t \o u)
BY ConcatAssociative

\* The same for provers that need not know what \o means.
Associates(s, t, u) == (s \o t) \o u = s \o (t \o u)

LEMMA Associate ==
    ASSUME NEW S, NEW s, NEW t, NEW u, s \in Seq(S), t \in Seq(S), u \in Seq(S)
    PROVE  Associates(s, t, u)
BY Associative DEF Associates

LEMMA FlattenEmpty == FlattenSeq(<<>>) = <<>>
BY DEF FlattenSeq

LEMMA FlattenType ==
    ASSUME NEW T, NEW q \in Seq(Seq(T))
    PROVE  FlattenSeq(q) \in Seq(T)
<1>1. CASE q = <<>>
  <2>1. FlattenSeq(q) = <<>>
    BY <1>1, FlattenEmpty, Zenon
  <2>2. <<>> \in Seq(T)
    OBVIOUS
  <2> QED
    BY <2>1, <2>2, Zenon
<1>2. CASE q # <<>>
  <2>1. Len(q) \in 1 .. Len(q)
    BY <1>2
  <2>2. PICK f : /\ FlattenSeq(q) = f[Len(q)]
                 /\ \A i \in 1 .. Len(q) : f[i] \in Seq(T)
    BY <1>2, FlattenJoins
  <2> QED
    BY <2>1, <2>2
<1> QED
  BY <1>1, <1>2

LEMMA FlattenAppend ==
    ASSUME NEW T, NEW q \in Seq(Seq(T)), NEW e \in Seq(T)
    PROVE  FlattenSeq(Append(q, e)) = FlattenSeq(q) \o e
<1> DEFINE p == Append(q, e)
           n == Len(q)
<1>1. /\ p \in Seq(Seq(T)) /\ p # <<>> /\ Len(p) = n + 1 /\ n \in Nat
      /\ p[n + 1] = e /\ \A i \in 1 .. n : q[i] = p[i]
  <2>1. /\ p \in Seq(Seq(T)) /\ p # <<>> /\ Len(p) = Len(q) + 1
        /\ \A i \in 1 .. Len(q) : p[i] = q[i]
        /\ p[Len(q) + 1] = e
    BY Appended
  <2>2. n \in Nat
    OBVIOUS
  <2> QED
    BY <2>1, <2>2
<1> HIDE DEF p
<1>2. PICK g : Joins(p, g) /\ FlattenSeq(p) = g[Len(p)]
  BY <1>1, FlattenJoins
<1>3. \A i \in 1 .. Len(p) : g[i] = IF i = 1 THEN p[i] ELSE g[i - 1] \o p[i]
  BY <1>2, Zenon DEF Joins
<1>4. n + 1 \in 1 .. Len(p) /\ (n + 1) - 1 = n
  BY <1>1
<1>5. CASE n = 0
  <2>1. FlattenSeq(p) = e
    BY <1>1, <1>2, <1>3, <1>4, <1>5
  <2>2. FlattenSeq(q) = <<>>
    <3>1. q = <<>>
      BY <1>5
    <3> QED
      BY <3>1, FlattenEmpty
  <2>3. <<>> \o e = e
    OBVIOUS
  <2> QED
    BY <2>1, <2>2, <2>3 DEF p
<1>6. CASE n # 0
  <2>1. PICK f : Joins(q, f) /\ FlattenSeq(q) = f[n]
    BY <1>6, FlattenJoins
  <2>2. n \in 1 .. n
    BY <1>1, <1>6
  <2>3. f[n] = g[n]
    <3>1. n <= Len(p)
      BY <1>1
    <3>2. \A i \in 1 .. Len(q) : f[i] = g[i]
      <4>1. \A i \in 1 .. Len(q) : q[i] = p[i]
        BY <1>1
      <4>2. q \in Seq(Seq(T)) /\ p \in Seq(Seq(T)) /\ Len(q) <= Len(p)
        BY <1>1, <3>1
      <4>3. Joins(q, f) /\ Joins(p, g)
        BY <1>2, <2>1
      <4> HIDE DEF n
      <4> QED
        BY <4>1, <4>2, <4>3, JoinsAgree
    <3> QED
      BY <2>2, <3>2
  <2>4. g[n + 1] = g[n] \o e
    <3>1. ~ (n + 1 = 1)
      BY <1>1, <1>6
    <3>2. g[n + 1] = g[(n + 1) - 1] \o p[n + 1]
      BY <1>3, <1>4, <3>1, Zenon
    <3> QED
      BY <1>1, <1>4, <3>2, Zenon
  <2> QED
    BY <1>1, <1>2, <2>1, <2>3, <2>4 DEF p
<1> QED
  BY <1>5, <1>6

LEMMA FirstOfLonger ==
    ASSUME NEW T, NEW r \in Seq(Seq(T)), r # <<>>, NEW e \in Seq(T),
           FlattenSeq(r) = Head(r) \o FlattenSeq(Tail(r))
    PROVE  LET s == Append(r, e)
           IN  FlattenSeq(s) = Head(s) \o FlattenSeq(Tail(s))
<1> DEFINE s == Append(r, e)
           first == Head(r)
           rest == FlattenSeq(Tail(r))
<1>1. FlattenSeq(s) = FlattenSeq(r) \o e
  BY FlattenAppend
<1>2. Head(s) = first /\ Tail(s) = Append(Tail(r), e)
  BY HeadTailAppend
<1>3. first \in Seq(T) /\ Tail(r) \in Seq(Seq(T))
  BY HeadTailProperties
<1>4. rest \in Seq(T) /\ FlattenSeq(Tail(s)) = rest \o e
  BY <1>2, <1>3, FlattenType, FlattenAppend
<1> HIDE DEF first, rest, s
<1>5. Associates(first, rest, e)
  BY <1>3, <1>4, Associate, Zenon
<1>6. (first \o rest) \o e = first \o (rest \o e)
  BY <1>5, Zenon DEF Associates
<1>7. FlattenSeq(r) = first \o rest
  BY DEF first, rest
<1>8. FlattenSeq(s) = first \o FlattenSeq(Tail(s))
  BY <1>1, <1>4, <1>6, <1>7
<1> QED
  BY <1>2, <1>8 DEF s

LEMMA FlattenFirst ==
    ASSUME NEW T, NEW q \in Seq(Seq(T)), q # <<>>
    PROVE  FlattenSeq(q) = Head(q) \o FlattenSeq(Tail(q))
<1> DEFINE P(s) == s # <<>> => FlattenSeq(s) = Head(s) \o FlattenSeq(Tail(s))
           A == {n \in Nat : \A s \in Seq(Seq(T)) : Len(s) = n => P(s)}
<1>1. 0 \in A
  OBVIOUS
<1>2. ASSUME NEW n \in A PROVE n + 1 \in A
  <2> SUFFICES ASSUME NEW s \in Seq(Seq(T)), Len(s) = n + 1
               PROVE  P(s)
    OBVIOUS
  <2>1. s # <<>>
    OBVIOUS
  <2>2. PICK r \in Seq(Seq(T)), e \in Seq(T) : s = Append(r, e)
    BY <2>1, SequenceEmptyOrAppend
  <2>3. Len(r) = n
    BY <2>2
  <2>4. CASE r = <<>>
    <3>1. FlattenSeq(s) = <<>> \o e
      <4>1. FlattenSeq(s) = FlattenSeq(r) \o e
        BY <2>2, FlattenAppend
      <4> QED
        BY <2>4, <4>1, FlattenEmpty, Zenon
    <3>2. Head(s) = e /\ Tail(s) = <<>> /\ <<>> \o e = e \o <<>>
      BY <2>2, <2>4
    <3> QED
      BY <3>1, <3>2, FlattenEmpty
  <2>5. CASE r # <<>>
    <3>1. FlattenSeq(r) = Head(r) \o FlattenSeq(Tail(r))
      BY <2>3, <2>5
    <3> QED
      BY <2>2, <2>5, <3>1, FirstOfLonger
  <2> QED
    BY <2>4, <2>5
<1> HIDE DEF A, P
<1>3. A = Nat
  BY <1>1, <1>2, AllNumbers DEF A
<1>4. P(q)
  BY <1>3 DEF A
<1> QED
  BY <1>4 DEF P

-----------------------------------------------------------------------------
(* Prefixes                                                                *)

\* What x = s \o t says of the elements.
Together(S, x, s, t) ==
    /\ x \in Seq(S) /\ Len(s) \in Nat /\ Len(t) \in Nat
    /\ Len(x) = Len(s) + Len(t)
    /\ \A i \in 1 .. Len(s) : x[i] = s[i]
    /\ \A i \in 1 .. Len(t) : x[Len(s) + i] = t[i]

LEMMA Concatenated ==
    ASSUME NEW S, NEW s, NEW t, s \in Seq(S), t \in Seq(S), NEW x, x = s \o t
    PROVE  Together(S, x, s, t)
<1>1. /\ s \o t \in Seq(S) /\ Len(s) \in Nat /\ Len(t) \in Nat
      /\ Len(s \o t) = Len(s) + Len(t)
      /\ \A i \in 1 .. Len(s) : (s \o t)[i] = s[i]
      /\ \A i \in 1 .. Len(t) : (s \o t)[Len(s) + i] = t[i]
  OBVIOUS
<1> QED
  BY <1>1 DEF Together

\* A prefix is no longer and has the same elements.
LEMMA PrefixPoints ==
    ASSUME NEW S, NEW s \in Seq(S), NEW t \in Seq(S)
    PROVE  IsPrefix(s, t) <=> /\ Len(s) <= Len(t)
                              /\ \A i \in 1 .. Len(s) : s[i] = t[i]
<1> DEFINE u == SubSeq(t, 1, Len(s))
<1>1. Len(s) \in Nat /\ Len(t) \in Nat
  OBVIOUS
<1>2. SubSeq(s, 1, Len(s)) = s
  BY SubSeqFull
<1>3. CASE Len(s) <= Len(t)
  <2>1. u \in Seq(S) /\ Len(u) = Len(s) /\ \A i \in 1 .. Len(s) : u[i] = t[i]
    BY <1>1, <1>3
  <2> HIDE DEF u
  <2>2. s = u <=> \A i \in 1 .. Len(s) : s[i] = u[i]
    BY <2>1, SeqEqual
  <2>3. (\A i \in 1 .. Len(s) : s[i] = u[i]) <=> \A i \in 1 .. Len(s) : s[i] = t[i]
    BY <2>1
  <2>4. IsPrefix(s, t) <=> s = u
    BY <1>2, <1>3 DEF IsPrefix, u
  <2> QED
    BY <1>3, <2>2, <2>3, <2>4
<1>4. CASE ~ (Len(s) <= Len(t))
  BY <1>4 DEF IsPrefix
<1> QED
  BY <1>3, <1>4

Agree(s, t) == Len(s) <= Len(t) /\ \A i \in 1 .. Len(s) : s[i] = t[i]

LEMMA PrefixAgrees ==
    ASSUME NEW S, NEW s, NEW t, s \in Seq(S), t \in Seq(S), IsPrefix(s, t)
    PROVE  Agree(s, t)
BY PrefixPoints DEF Agree

\* Both begin with e, and what follows it in one is a prefix of what follows
\* it in the other.
Dropped(S, b, s, e, rest) ==
    LET c == SubSeq(b, Len(e) + 1, Len(b)) IN
    /\ \A i \in 1 .. Len(e) : b[i] = e[i]
    /\ c \in Seq(S) /\ IsPrefix(c \o s, rest)
    /\ b \o s = e \o rest => c \o s = rest

LEMMA DropFirst ==
    ASSUME NEW S, NEW b, NEW s, NEW e, NEW rest,
           b \in Seq(S), s \in Seq(S), e \in Seq(S), rest \in Seq(S),
           Len(e) <= Len(b), NEW x, NEW y, x = b \o s, y = e \o rest,
           IsPrefix(x, y)
    PROVE  Dropped(S, b, s, e, rest)
<1> DEFINE c == SubSeq(b, Len(e) + 1, Len(b))
           z == c \o s
<1>a. x = b \o s /\ y = e \o rest /\ z = c \o s
  OBVIOUS
<1>b. IsPrefix(x, y)
  OBVIOUS
<1> HIDE DEF z
<1>1. Together(S, x, b, s)
  BY <1>a, Concatenated
<1>2. Together(S, y, e, rest)
  BY <1>a, Concatenated
<1> USE DEF Together
<1>3. /\ c \in Seq(S) /\ Len(c) = Len(b) - Len(e)
      /\ \A i \in 1 .. Len(b) - Len(e) : c[i] = b[Len(e) + i]
  <2>1. /\ Len(e) + 1 \in Int /\ Len(b) \in Int /\ Len(e) \in Nat
        /\ \A i \in Len(e) + 1 .. Len(b) : b[i] \in S
    BY <1>1, <1>2, ElementOfSeq
  <2>2. /\ c \in Seq(S)
        /\ Len(c) = IF Len(e) + 1 <= Len(b) THEN Len(b) - (Len(e) + 1) + 1 ELSE 0
        /\ \A i \in 1 .. Len(b) - (Len(e) + 1) + 1 : c[i] = b[(Len(e) + 1) + i - 1]
    BY <2>1, SubSeqProperties
  <2> HIDE DEF c
  <2>4. Len(e) + 1 <= Len(b) \/ Len(b) = Len(e)
    BY <2>1
  <2>3. /\ Len(b) - (Len(e) + 1) + 1 = Len(b) - Len(e)
        /\ \A i \in 1 .. Len(b) - Len(e) : (Len(e) + 1) + i - 1 = Len(e) + i
    BY <2>1
  <2> QED
    <3>1. Len(c) = Len(b) - Len(e)
      <4>1. CASE Len(e) + 1 <= Len(b)
        BY <2>2, <2>3, <4>1, Zenon
      <4>2. CASE Len(b) = Len(e)
        <5>1. ~ (Len(e) + 1 <= Len(b)) /\ Len(b) - Len(e) = 0
          BY <2>1, <4>2
        <5> QED
          BY <2>2, <5>1, Zenon
      <4> QED
        BY <2>4, <4>1, <4>2
    <3>2. ASSUME NEW i \in 1 .. Len(b) - Len(e) PROVE c[i] = b[Len(e) + i]
      BY <2>2, <2>3
    <3> QED
      BY <2>2, <3>1, <3>2
<1> HIDE DEF c
<1>4. Together(S, z, c, s)
  <2>1. c \in Seq(S) /\ s \in Seq(S) /\ z = c \o s
    BY <1>3, <1>a
  <2> HIDE DEF Together
  <2> QED
    BY <2>1, Concatenated
<1>5. Len(x) <= Len(y) /\ \A i \in 1 .. Len(x) : x[i] = y[i]
  <2>1. x \in Seq(S) /\ y \in Seq(S)
    BY <1>1, <1>2
  <2>2. Agree(x, y)
    BY <1>b, <2>1, PrefixAgrees, Zenon
  <2> QED
    BY <2>2, Zenon DEF Agree
<1>6. \A i \in 1 .. Len(e) : b[i] = e[i]
  <2> SUFFICES ASSUME NEW i \in 1 .. Len(e) PROVE b[i] = e[i]
    OBVIOUS
  <2>1. i \in 1 .. Len(b) /\ i \in 1 .. Len(x)
    BY <1>1, <1>2
  <2> QED
    BY <1>1, <1>2, <1>5, <2>1
<1>7. ASSUME NEW i \in 1 .. Len(z) PROVE z[i] = x[Len(e) + i]
  <2>1. i \in Int /\ Len(z) = (Len(b) - Len(e)) + Len(s)
    BY <1>1, <1>2, <1>3, <1>4
  <2>2. CASE i <= Len(c)
    <3>1. i \in 1 .. Len(c) /\ Len(e) + i \in 1 .. Len(b) /\ i \in 1 .. Len(b) - Len(e)
      BY <1>1, <1>2, <1>3, <2>1, <2>2
    <3> QED
      BY <1>1, <1>3, <1>4, <3>1
  <2>3. CASE ~ (i <= Len(c))
    <3> DEFINE j == i - Len(c)
    <3>1. j \in 1 .. Len(s) /\ i = Len(c) + j /\ Len(e) + i = Len(b) + j
      BY <1>1, <1>2, <1>3, <2>1, <2>3
    <3> HIDE DEF j
    <3> QED
      BY <1>1, <1>4, <3>1
  <2> QED
    BY <2>2, <2>3
<1>8. Len(z) = Len(x) - Len(e) /\ Len(z) <= Len(rest)
  BY <1>1, <1>2, <1>3, <1>4, <1>5
<1>9. \A i \in 1 .. Len(z) : z[i] = rest[i]
  <2> SUFFICES ASSUME NEW i \in 1 .. Len(z) PROVE z[i] = rest[i]
    OBVIOUS
  <2>1. Len(e) + i \in 1 .. Len(x) /\ i \in 1 .. Len(rest)
    BY <1>1, <1>2, <1>8
  <2> QED
    BY <1>2, <1>5, <1>7, <2>1
<1>10. IsPrefix(z, rest)
  BY <1>4, <1>8, <1>9, PrefixPoints
<1>11. ASSUME x = y PROVE z = rest
  <2>1. Len(z) = Len(rest)
    <3>1. Len(y) - Len(e) = Len(rest)
      BY <1>2
    <3>2. Len(x) = Len(y)
      BY <1>11, Zenon
    <3> QED
      BY <1>8, <3>1, <3>2
  <2> QED
    BY <1>4, <1>9, <2>1, SeqEqual
<1> QED
  BY <1>a, <1>3, <1>6, <1>10, <1>11 DEF Dropped, c, z

\* Closing loses an end of the stream, and an end of what follows.
LEMMA CutPrefix ==
    ASSUME NEW S, NEW b \in Seq(S), NEW s \in Seq(S), NEW i \in 0 .. Len(s)
    PROVE  /\ SubSeq(s, 1, i) \in Seq(S)
           /\ IsPrefix(b \o SubSeq(s, 1, i), b \o s)
<1> DEFINE t == SubSeq(s, 1, i)
           x == b \o s
           y == b \o t
<1>1. /\ t \in Seq(S) /\ Len(t) = i /\ i \in Nat /\ i <= Len(s)
      /\ \A j \in 1 .. i : t[j] = s[j]
  OBVIOUS
<1>a. x = b \o s /\ y = b \o t /\ t \in Seq(S)
  BY <1>1
<1> HIDE DEF t, x, y
<1>2. Together(S, x, b, s)
  BY <1>a, Concatenated
<1>3. Together(S, y, b, t)
  BY <1>a, Concatenated
<1> USE DEF Together
<1>4. Len(y) <= Len(x)
  BY <1>1, <1>2, <1>3
<1>5. ASSUME NEW j \in 1 .. Len(y) PROVE y[j] = x[j]
  <2>1. CASE j <= Len(b)
    BY <1>2, <1>3, <2>1
  <2>2. CASE ~ (j <= Len(b))
    <3> DEFINE k == j - Len(b)
    <3>1. k \in 1 .. Len(t) /\ k \in 1 .. Len(s) /\ k \in 1 .. i /\ j = Len(b) + k
      BY <1>1, <1>2, <1>3, <2>2
    <3> HIDE DEF k
    <3> QED
      BY <1>1, <1>2, <1>3, <3>1
  <2> QED
    BY <2>1, <2>2
<1>6. IsPrefix(y, x)
  BY <1>2, <1>3, <1>4, <1>5, PrefixPoints
<1> QED
  BY <1>1, <1>6 DEF t, x, y

LEMMA PrefixOfPrefix ==
    ASSUME NEW S, NEW s \in Seq(S), NEW t \in Seq(S), NEW u \in Seq(S),
           IsPrefix(s, t), IsPrefix(t, u)
    PROVE  IsPrefix(s, u)
<1>1. Len(s) <= Len(t) /\ \A i \in 1 .. Len(s) : s[i] = t[i]
  BY PrefixPoints
<1>2. Len(t) <= Len(u) /\ \A i \in 1 .. Len(t) : t[i] = u[i]
  BY PrefixPoints
<1>3. Len(s) \in Nat /\ Len(t) \in Nat /\ Len(u) \in Nat
  OBVIOUS
<1>4. Len(s) <= Len(u) /\ \A i \in 1 .. Len(s) : s[i] = u[i]
  <2>1. \A i \in 1 .. Len(s) : i \in 1 .. Len(t)
    BY <1>1, <1>3
  <2> QED
    BY <1>1, <1>2, <1>3, <2>1
<1> QED
  BY <1>4, PrefixPoints

LEMMA PrefixOfItself ==
    ASSUME NEW S, NEW s \in Seq(S)
    PROVE  IsPrefix(s, s)
BY PrefixPoints

\* Bytes that arrive stay where they were in the sequence.
Joined(S, b, s, i) ==
    LET t == SubSeq(s, 1, i)
        u == SubSeq(s, i + 1, Len(s))
    IN  /\ b \o t \in Seq(S) /\ u \in Seq(S)
        /\ (b \o t) \o u = b \o s

LEMMA Arrived ==
    ASSUME NEW S, NEW b, NEW s, NEW i,
           b \in Seq(S), s \in Seq(S), i \in 1 .. Len(s)
    PROVE  Joined(S, b, s, i)
<1> DEFINE t == SubSeq(s, 1, i)
           u == SubSeq(s, i + 1, Len(s))
<1>1. t \in Seq(S) /\ u \in Seq(S) /\ Len(s) \in Nat
  OBVIOUS
<1>2. t \o u = s
  <2>1. 1 \in 1 .. Len(s) + 1 /\ i \in 1 - 1 .. Len(s) /\ Len(s) \in i .. Len(s)
    BY <1>1
  <2>2. t \o u = SubSeq(s, 1, Len(s))
    BY <2>1, ConcatAdjacentSubSeq
  <2> QED
    BY <2>2, SubSeqFull
<1> HIDE DEF t, u
<1>3. Associates(b, t, u)
  BY <1>1, Associate, Zenon
<1>4. (b \o t) \o u = b \o (t \o u)
  BY <1>3, Zenon DEF Associates
<1>5. b \o t \in Seq(S)
  BY <1>1
<1> QED
  BY <1>1, <1>2, <1>4, <1>5, Zenon DEF Joined, t, u

-----------------------------------------------------------------------------
(* The frames of a sequence of payloads, and the valid ones among them     *)

Each(F, s) == [i \in DOMAIN s |-> F[s[i]]]

Mapped(B, F, s, t) ==
    /\ t \in Seq(B) /\ Len(t) = Len(s) /\ Len(s) \in Nat
    /\ \A i \in 1 .. Len(s) : t[i] = F[s[i]]

LEMMA EachType ==
    ASSUME NEW A, NEW B, NEW F, F \in [A -> B], NEW s, s \in Seq(A)
    PROVE  Mapped(B, F, s, Each(F, s))
<1>1. Len(s) \in Nat /\ DOMAIN s = 1 .. Len(s) /\ \A i \in 1 .. Len(s) : s[i] \in A
  OBVIOUS
<1>2. Each(F, s) \in [1 .. Len(s) -> B]
  BY <1>1 DEF Each
<1>3. \A i \in 1 .. Len(s) : Each(F, s)[i] = F[s[i]]
  BY <1>1 DEF Each
<1> QED
  BY <1>1, <1>2, <1>3 DEF Mapped

LEMMA EachAppend ==
    ASSUME NEW A, NEW B, NEW F \in [A -> B], NEW s \in Seq(A), NEW x \in A
    PROVE  Each(F, Append(s, x)) = Append(Each(F, s), F[x])
<1> DEFINE t == Append(s, x)
           u == Each(F, s)
           v == Append(u, F[x])
<1>1. /\ t \in Seq(A) /\ Len(t) = Len(s) + 1 /\ Len(s) \in Nat
      /\ \A i \in 1 .. Len(s) : t[i] = s[i]
      /\ t[Len(s) + 1] = x
  BY Appended
<1> HIDE DEF t
<1>2. Mapped(B, F, t, Each(F, t))
  BY <1>1, EachType, Zenon
<1>3. Mapped(B, F, s, u)
  BY EachType, Zenon
<1>4. /\ v \in Seq(B) /\ Len(v) = Len(u) + 1
      /\ \A i \in 1 .. Len(u) : v[i] = u[i]
      /\ v[Len(u) + 1] = F[x]
  <2> HIDE DEF u
  <2> QED
    BY <1>3, Appended DEF Mapped
<1> HIDE DEF u, v
<1> USE DEF Mapped
<1>5. ASSUME NEW i \in 1 .. Len(t) PROVE Each(F, t)[i] = v[i]
  <2>1. i \in 1 .. Len(s) \/ i = Len(s) + 1
    BY <1>1
  <2> QED
    BY <1>1, <1>2, <1>3, <1>4, <2>1
<1>6. Each(F, t) = v
  <2>1. Len(Each(F, t)) = Len(v)
    BY <1>1, <1>2, <1>3, <1>4
  <2> QED
    BY <1>2, <1>4, <1>5, <2>1, SeqEqual
<1> QED
  BY <1>6 DEF t, u, v

LEMMA EachFirst ==
    ASSUME NEW A, NEW B, NEW F \in [A -> B], NEW s \in Seq(A), s # <<>>
    PROVE  /\ Each(F, s) # <<>> /\ Head(Each(F, s)) = F[Head(s)]
           /\ Tail(Each(F, s)) = Each(F, Tail(s))
<1> DEFINE t == Tail(s)
           u == Each(F, s)
           v == Tail(u)
<1>1. /\ t \in Seq(A) /\ Len(t) = Len(s) - 1 /\ Len(s) \in Nat /\ Len(s) >= 1
      /\ \A i \in 1 .. Len(t) : t[i] = s[i + 1]
      /\ Head(s) = s[1]
  <2>1. Len(s) \in Nat /\ Len(s) >= 1 /\ Head(s) = s[1]
    OBVIOUS
  <2> QED
    BY <2>1, HeadTailProperties
<1>2. Mapped(B, F, s, u)
  BY EachType, Zenon
<1> HIDE DEF t, u
<1>3. u # <<>> /\ Head(u) = u[1]
  BY <1>1, <1>2 DEF Mapped
<1>4. /\ v \in Seq(B) /\ Len(v) = Len(u) - 1
      /\ \A i \in 1 .. Len(v) : v[i] = u[i + 1]
  BY <1>2, <1>3, HeadTailProperties DEF Mapped
<1>5. Mapped(B, F, t, Each(F, t))
  BY <1>1, EachType, Zenon
<1> USE DEF Mapped
<1> HIDE DEF v
<1>6. v = Each(F, t)
  <2>1. Len(v) = Len(t)
    BY <1>1, <1>2, <1>4
  <2>2. ASSUME NEW i \in 1 .. Len(v) PROVE v[i] = Each(F, t)[i]
    <3>1. i \in 1 .. Len(t) /\ i + 1 \in 1 .. Len(s)
      BY <1>1, <2>1
    <3> QED
      BY <1>1, <1>2, <1>4, <1>5, <3>1
  <2> QED
    BY <1>4, <1>5, <2>1, <2>2, SeqEqual
<1>7. Head(u) = F[Head(s)]
  <2>1. 1 \in 1 .. Len(s)
    BY <1>1
  <2> QED
    BY <1>1, <1>2, <1>3, <2>1
<1> QED
  BY <1>3, <1>6, <1>7 DEF t, u, v

\* What flattens to a sequence of elements of T: one more at the end, the
\* first one alone.
Flattened(A, T, F, s) ==
    /\ FlattenSeq(Each(F, s)) \in Seq(T)
    /\ \A x \in A : FlattenSeq(Each(F, Append(s, x)))
                      = FlattenSeq(Each(F, s)) \o F[x]
    /\ s # <<>> => FlattenSeq(Each(F, s))
                     = F[Head(s)] \o FlattenSeq(Each(F, Tail(s)))

LEMMA EachFlattened ==
    ASSUME NEW A, NEW T, NEW F, F \in [A -> Seq(T)], NEW s, s \in Seq(A)
    PROVE  Flattened(A, T, F, s)
<1>1. Each(F, s) \in Seq(Seq(T))
  <2>1. Mapped(Seq(T), F, s, Each(F, s))
    BY EachType, Zenon
  <2> QED
    BY <2>1 DEF Mapped
<1>2. FlattenSeq(Each(F, s)) \in Seq(T)
  BY <1>1, FlattenType
<1>3. ASSUME NEW x \in A
      PROVE  FlattenSeq(Each(F, Append(s, x))) = FlattenSeq(Each(F, s)) \o F[x]
  <2>1. Each(F, Append(s, x)) = Append(Each(F, s), F[x])
    BY EachAppend
  <2>2. F[x] \in Seq(T)
    OBVIOUS
  <2>3. FlattenSeq(Append(Each(F, s), F[x])) = FlattenSeq(Each(F, s)) \o F[x]
    BY <1>1, <2>2, FlattenAppend
  <2> QED
    BY <2>1, <2>3
<1>4. ASSUME s # <<>>
      PROVE  FlattenSeq(Each(F, s)) = F[Head(s)] \o FlattenSeq(Each(F, Tail(s)))
  <2>1. /\ Each(F, s) # <<>> /\ Head(Each(F, s)) = F[Head(s)]
        /\ Tail(Each(F, s)) = Each(F, Tail(s))
    BY <1>4, EachFirst
  <2>2. FlattenSeq(Each(F, s))
          = Head(Each(F, s)) \o FlattenSeq(Tail(Each(F, s)))
    BY <1>1, <2>1, FlattenFirst
  <2> QED
    BY <2>1, <2>2
<1> QED
  BY <1>2, <1>3, <1>4 DEF Flattened

LEMMA FrameType ==
    ASSUME NEW m \in Item
    PROVE  /\ m \in Seq(Byte) /\ Len(m) \in Nat
           /\ Header(Len(m)) \in Seq(Byte) /\ Len(Header(Len(m))) = 4
           /\ Length(Header(Len(m))) = Len(m)
           /\ Encode(m) \in Seq(Byte) /\ Len(Encode(m)) = 4 + Len(m)
           /\ \A i \in 1 .. 4 : Encode(m)[i] = Header(Len(m))[i]
           /\ \A i \in 1 .. Len(m) : Encode(m)[4 + i] = m[i]
<1> DEFINE h == Header(Len(m))
           e == Encode(m)
<1>1. m \in Seq(Byte) /\ Len(m) \in Nat
  BY ItemType
<1>2. h \in Seq(Byte) /\ Len(h) = 4 /\ Length(h) = Len(m)
  BY ItemType, HeaderRoundTrip
<1>3. e = h \o m
  BY DEF Encode
<1> HIDE DEF h, e
<1>4. Together(Byte, e, h, m)
  BY <1>1, <1>2, <1>3, Concatenated
<1> QED
  BY <1>1, <1>2, <1>4 DEF h, e, Together

FramesOfAll(ms) ==
    /\ Frames(ms) \in Seq(Byte)
    /\ \A m \in Item : Frames(Append(ms, m)) = Frames(ms) \o Encode(m)
    /\ ms # <<>> => Frames(ms) = Encode(Head(ms)) \o Frames(Tail(ms))
    /\ Frames(<<>>) = <<>>

LEMMA FramesOf ==
    ASSUME NEW ms, ms \in Seq(Item)
    PROVE  FramesOfAll(ms)
<1> DEFINE F == [m \in Item |-> Encode(m)]
<1>1. F \in [Item -> Seq(Byte)] /\ \A m \in Item : F[m] = Encode(m)
  BY FrameType
<1>2. ASSUME NEW q \in Seq(Item) PROVE Frames(q) = FlattenSeq(Each(F, q))
  <2>1. \A i \in DOMAIN q : q[i] \in Item
    OBVIOUS
  <2>2. [i \in DOMAIN q |-> Encode(q[i])] = [i \in DOMAIN q |-> F[q[i]]]
    BY <1>1, <2>1
  <2> QED
    BY <2>2 DEF Frames, Each
<1> HIDE DEF F
<1>3. Flattened(Item, Byte, F, ms)
  BY <1>1, EachFlattened, Zenon
<1> USE DEF Flattened
<1>4. \A m \in Item : Frames(Append(ms, m)) = Frames(ms) \o Encode(m)
  <2> SUFFICES ASSUME NEW m \in Item
               PROVE  Frames(Append(ms, m)) = Frames(ms) \o Encode(m)
    OBVIOUS
  <2>1. Append(ms, m) \in Seq(Item)
    OBVIOUS
  <2> QED
    BY <1>1, <1>2, <1>3, <2>1
<1>5. ASSUME ms # <<>> PROVE Frames(ms) = Encode(Head(ms)) \o Frames(Tail(ms))
  <2>1. Head(ms) \in Item /\ Tail(ms) \in Seq(Item)
    BY <1>5, HeadTailProperties
  <2> QED
    BY <1>1, <1>2, <1>3, <1>5, <2>1
<1>6. Frames(<<>>) = <<>>
  <2>1. [i \in DOMAIN <<>> |-> Encode(<<>>[i])] = <<>>
    OBVIOUS
  <2> QED
    BY <2>1, FlattenEmpty DEF Frames
<1> QED
  BY <1>2, <1>3, <1>4, <1>5, <1>6 DEF FramesOfAll

ValidOfAll(ms) ==
    /\ Valid(ms) \in Seq(Payload)
    /\ \A m \in Payload : Valid(Append(ms, m)) = Append(Valid(ms), m)
    /\ \A m \in Item \ Payload : Valid(Append(ms, m)) = Valid(ms)
    /\ Valid(<<>>) = <<>>

LEMMA ValidOf ==
    ASSUME NEW ms, ms \in Seq(Item)
    PROVE  ValidOfAll(ms)
<1> DEFINE F == [m \in Item |-> IF m \in Payload THEN <<m>> ELSE <<>>]
<1>1. /\ F \in [Item -> Seq(Payload)]
      /\ \A m \in Item : F[m] = IF m \in Payload THEN <<m>> ELSE <<>>
  <2>1. ASSUME NEW m \in Item
        PROVE (IF m \in Payload THEN <<m>> ELSE <<>>) \in Seq(Payload)
    OBVIOUS
  <2> QED
    BY <2>1
<1>2. ASSUME NEW q \in Seq(Item) PROVE Valid(q) = FlattenSeq(Each(F, q))
  <2>1. \A i \in DOMAIN q : q[i] \in Item
    OBVIOUS
  <2>2. [i \in DOMAIN q |-> IF q[i] \in Payload THEN <<q[i]>> ELSE <<>>]
          = [i \in DOMAIN q |-> F[q[i]]]
    BY <1>1, <2>1
  <2> QED
    BY <2>2 DEF Valid, Each
<1> HIDE DEF F
<1>3. Flattened(Item, Payload, F, ms)
  BY <1>1, EachFlattened, Zenon
<1> USE DEF Flattened
<1>4. Valid(ms) \in Seq(Payload)
  BY <1>2, <1>3
<1>5. ASSUME NEW m \in Item PROVE Valid(Append(ms, m)) = Valid(ms) \o F[m]
  <2>1. Append(ms, m) \in Seq(Item)
    OBVIOUS
  <2> QED
    BY <1>2, <1>3, <2>1
<1>6. ASSUME NEW m \in Payload PROVE Valid(Append(ms, m)) = Append(Valid(ms), m)
  <2>1. m \in Item /\ F[m] = <<m>>
    BY <1>1 DEF Item
  <2>2. Valid(Append(ms, m)) = Valid(ms) \o <<m>>
    BY <1>5, <2>1
  <2> QED
    BY <1>4, <2>2, AppendIsConcat
<1>7. ASSUME NEW m \in Item \ Payload PROVE Valid(Append(ms, m)) = Valid(ms)
  <2>1. F[m] = <<>>
    BY <1>1
  <2>2. Valid(Append(ms, m)) = Valid(ms) \o <<>>
    BY <1>5, <2>1
  <2> QED
    BY <1>4, <2>2, ConcatEmptySeq
<1>8. Valid(<<>>) = <<>>
  <2>1. [i \in DOMAIN <<>> |-> IF <<>>[i] \in Payload THEN <<<<>>[i]>> ELSE <<>>]
          = <<>>
    OBVIOUS
  <2> QED
    BY <2>1, FlattenEmpty DEF Valid
<1> QED
  BY <1>4, <1>6, <1>7, <1>8 DEF ValidOfAll

-----------------------------------------------------------------------------
(* The first frame of the buffer                                           *)

FirstOff(b, s, m, rest) ==
    /\ FirstPayload(b) = m /\ AfterFirst(b) \in Seq(Byte)
    /\ IsPrefix(AfterFirst(b) \o s, rest)
    /\ b \o s = Encode(m) \o rest => AfterFirst(b) \o s = rest

LEMMA FirstFrame ==
    ASSUME NEW b, NEW s, NEW m, NEW rest,
           b \in Seq(Byte), s \in Seq(Byte), m \in Item, rest \in Seq(Byte),
           Complete(b), IsPrefix(b \o s, Encode(m) \o rest)
    PROVE  FirstOff(b, s, m, rest)
<1> DEFINE e == Encode(m)
           h == Header(Len(m))
           x == b \o s
           y == e \o rest
           c == SubSeq(b, Len(e) + 1, Len(b))
           p == SubSeq(b, 5, 4 + Len(m))
<1>1. /\ m \in Seq(Byte) /\ Len(m) \in Nat
      /\ h \in Seq(Byte) /\ Len(h) = 4 /\ Length(h) = Len(m)
      /\ e \in Seq(Byte) /\ Len(e) = 4 + Len(m)
      /\ \A i \in 1 .. 4 : e[i] = h[i]
      /\ \A i \in 1 .. Len(m) : e[4 + i] = m[i]
  BY FrameType
<1>a. IsPrefix(x, y) /\ x = b \o s /\ y = e \o rest
  OBVIOUS
<1> HIDE DEF e, h, x, y
<1>2. Together(Byte, x, b, s) /\ Together(Byte, y, e, rest)
  BY <1>1, <1>a, Concatenated
<1>3. Len(x) <= Len(y) /\ \A i \in 1 .. Len(x) : x[i] = y[i]
  <2>1. x \in Seq(Byte) /\ y \in Seq(Byte)
    BY <1>2 DEF Together
  <2>2. Agree(x, y)
    BY <1>a, <2>1, PrefixAgrees, Zenon
  <2> QED
    BY <2>2, Zenon DEF Agree
<1>4. Len(b) >= 4 /\ Len(b) >= 4 + Length(b)
  BY Bases DEF Complete
<1>5. \A i \in 1 .. 4 : b[i] = h[i]
  <2> SUFFICES ASSUME NEW i \in 1 .. 4 PROVE b[i] = h[i]
    OBVIOUS
  <2>1. i \in 1 .. Len(b) /\ i \in 1 .. Len(x) /\ i \in 1 .. Len(e)
    BY <1>1, <1>2, <1>4 DEF Together
  <2>2. b[i] = x[i] /\ x[i] = y[i] /\ y[i] = e[i]
    BY <1>2, <1>3, <2>1 DEF Together
  <2> QED
    BY <1>1, <2>2
<1>6. Length(b) = Len(m)
  <2>1. Length(b) = Length(h)
    <3>1. b[1] = h[1] /\ b[2] = h[2] /\ b[3] = h[3] /\ b[4] = h[4]
      BY <1>5
    <3> QED
      BY <3>1, Zenon DEF Length
  <2> QED
    BY <1>1, <2>1
<1>7. Len(e) <= Len(b)
  BY <1>1, <1>4, <1>6
<1>8. /\ \A i \in 1 .. Len(e) : b[i] = e[i]
      /\ c \in Seq(Byte) /\ IsPrefix(c \o s, rest)
      /\ b \o s = e \o rest => c \o s = rest
  <2>2. b \in Seq(Byte) /\ s \in Seq(Byte) /\ e \in Seq(Byte) /\ rest \in Seq(Byte)
    BY <1>1
  <2>1. Dropped(Byte, b, s, e, rest)
    BY <1>a, <1>7, <2>2, DropFirst, Zenon
  <2> QED
    BY <2>1, Zenon DEF Dropped
<1>9. AfterFirst(b) = c
  <2>1. HeaderLen + Length(b) + 1 = Len(e) + 1
    BY <1>1, <1>6, Bases
  <2> QED
    BY <2>1, Zenon DEF AfterFirst
<1>10. FirstPayload(b) = p
  <2>1. HeaderLen + 1 = 5 /\ HeaderLen + Length(b) = 4 + Len(m)
    BY <1>1, <1>6, Bases
  <2> QED
    BY <2>1, Zenon DEF FirstPayload
<1>11. p = m
  <2>1. /\ p \in Seq(Byte) /\ Len(p) = Len(m)
        /\ \A i \in 1 .. Len(m) : p[i] = b[4 + i]
    <3>1. 4 + Len(m) <= Len(b) /\ Len(b) \in Nat
      BY <1>1, <1>7
    <3>2. \A i \in 5 .. 4 + Len(m) : i \in 1 .. Len(b) /\ b[i] \in Byte
      BY <1>1, <3>1, ElementOfSeq
    <3> USE DEF Together
    <3>3. /\ p \in Seq(Byte)
          /\ Len(p) = IF 5 <= 4 + Len(m) THEN 4 + Len(m) - 5 + 1 ELSE 0
          /\ \A i \in 1 .. 4 + Len(m) - 5 + 1 : p[i] = b[5 + i - 1]
      BY <1>1, <3>2, SubSeqProperties
    <3> HIDE DEF p
    <3>4. /\ 4 + Len(m) - 5 + 1 = Len(m) /\ (Len(m) = 0 \/ 5 <= 4 + Len(m))
          /\ Len(m) = 0 => ~ (5 <= 4 + Len(m))
          /\ \A i \in 1 .. Len(m) : 5 + i - 1 = 4 + i
      BY <1>1
    <3>5. Len(p) = Len(m)
      BY <3>3, <3>4
    <3> QED
      BY <3>3, <3>4, <3>5
  <2> HIDE DEF p
  <2>2. ASSUME NEW i \in 1 .. Len(m) PROVE p[i] = m[i]
    <3>1. 4 + i \in 1 .. Len(e)
      BY <1>1
    <3> QED
      BY <1>1, <1>8, <2>1, <3>1
  <2> QED
    BY <1>1, <2>1, <2>2, SeqEqual
<1> QED
  BY <1>8, <1>9, <1>10, <1>11 DEF e, FirstOff

\* A buffer with a whole frame is the start of at least one.
LEMMA SomeFrame ==
    ASSUME NEW b, NEW s, NEW ms,
           b \in Seq(Byte), s \in Seq(Byte), ms \in Seq(Item), Complete(b), IsPrefix(b \o s, Frames(ms))
    PROVE  ms # <<>>
<1> SUFFICES ASSUME ms = <<>> PROVE FALSE
  OBVIOUS
<1>1. Frames(ms) = <<>>
  BY FramesOf DEF FramesOfAll
<1>2. Len(b \o s) <= 0
  BY <1>1 DEF IsPrefix
<1>3. Len(b) >= 4
  BY Bases DEF Complete
<1>4. Len(b \o s) = Len(b) + Len(s) /\ Len(s) \in Nat /\ Len(b) \in Nat
  OBVIOUS
<1> QED
  BY <1>2, <1>3, <1>4

-----------------------------------------------------------------------------
(* The payloads sent, before and after the n-th                            *)

Before(q, n) == SubSeq(q, 1, n)
Behind(q, n) == SubSeq(q, n + 1, Len(q))

Parts(A, q, n) ==
    /\ Before(q, n) \in Seq(A) /\ Behind(q, n) \in Seq(A)
    /\ Len(Before(q, n)) = n /\ Len(Behind(q, n)) = Len(q) - n
    /\ \A i \in 1 .. n : Before(q, n)[i] = q[i]
    /\ \A i \in 1 .. Len(q) - n : Behind(q, n)[i] = q[n + i]

LEMMA PartTypes ==
    ASSUME NEW A, NEW q, NEW n, q \in Seq(A), n \in 0 .. Len(q)
    PROVE  Parts(A, q, n)
<1>1. Len(q) \in Nat /\ n \in Nat /\ n <= Len(q)
  OBVIOUS
<1>2. /\ SubSeq(q, 1, n) \in Seq(A) /\ Len(SubSeq(q, 1, n)) = n
      /\ \A i \in 1 .. n : SubSeq(q, 1, n)[i] = q[i]
  OBVIOUS
<1> DEFINE c == SubSeq(q, n + 1, Len(q))
<1>3. /\ c \in Seq(A) /\ Len(c) = Len(q) - n
      /\ \A i \in 1 .. Len(q) - n : c[i] = q[n + i]
  <2>1. n + 1 \in Int /\ Len(q) \in Int /\ \A i \in n + 1 .. Len(q) : q[i] \in A
    BY <1>1, ElementOfSeq
  <2>2. /\ c \in Seq(A)
        /\ Len(c) = IF n + 1 <= Len(q) THEN Len(q) - (n + 1) + 1 ELSE 0
        /\ \A i \in 1 .. Len(q) - (n + 1) + 1 : c[i] = q[(n + 1) + i - 1]
    BY <2>1, SubSeqProperties
  <2> HIDE DEF c
  <2>3. /\ Len(q) - (n + 1) + 1 = Len(q) - n
        /\ \A i \in 1 .. Len(q) - n : (n + 1) + i - 1 = n + i
    BY <1>1
  <2>4. Len(c) = Len(q) - n
    <3>1. CASE n + 1 <= Len(q)
      BY <2>2, <2>3, <3>1, Zenon
    <3>2. CASE ~ (n + 1 <= Len(q))
      <4>1. Len(q) - n = 0
        BY <1>1, <3>2
      <4> QED
        BY <2>2, <3>2, <4>1, Zenon
    <3> QED
      BY <3>1, <3>2
  <2>5. ASSUME NEW i \in 1 .. Len(q) - n PROVE c[i] = q[n + i]
    BY <2>2, <2>3
  <2> QED
    BY <2>2, <2>4, <2>5
<1> HIDE DEF c
<1> QED
  BY <1>2, <1>3 DEF Parts, Before, Behind, c

\* One more is sent.
Grown(p, q, n, x) ==
    /\ n \in 0 .. Len(p) /\ Before(p, n) = Before(q, n)
    /\ Behind(p, n) = Append(Behind(q, n), x)

LEMMA PartsAppend ==
    ASSUME NEW A, NEW q, NEW n, NEW x, NEW p, q \in Seq(A), n \in 0 .. Len(q),
           x \in A, p = Append(q, x)
    PROVE  Grown(p, q, n, x)
<1> DEFINE s == Behind(q, n)
           t == Append(s, x)
<1>1. /\ p \in Seq(A) /\ Len(p) = Len(q) + 1 /\ Len(q) \in Nat
      /\ \A i \in 1 .. Len(q) : p[i] = q[i]
      /\ p[Len(q) + 1] = x
  BY Appended
<1>2. n \in 0 .. Len(p) /\ n \in Nat /\ n <= Len(q)
  BY <1>1
<1>3. Parts(A, q, n) /\ s = Behind(q, n)
  BY PartTypes, Zenon
<1>4. Parts(A, p, n)
  BY <1>1, <1>2, PartTypes, Zenon
<1> USE DEF Parts
<1> HIDE DEF s
<1>5. /\ t \in Seq(A) /\ Len(t) = Len(s) + 1
      /\ \A i \in 1 .. Len(s) : t[i] = s[i]
      /\ t[Len(s) + 1] = x
  BY <1>3, Appended
<1> HIDE DEF t
<1>6. Before(p, n) = Before(q, n)
  <2>1. ASSUME NEW i \in 1 .. n PROVE Before(p, n)[i] = Before(q, n)[i]
    <3>1. i \in 1 .. Len(q)
      BY <1>1, <1>2
    <3> QED
      BY <1>1, <1>3, <1>4, <3>1
  <2> QED
    BY <1>3, <1>4, <2>1, SeqEqual
<1>7. Behind(p, n) = t
  <2>1. Len(Behind(p, n)) = Len(t) /\ Len(t) = Len(q) - n + 1
    BY <1>1, <1>2, <1>3, <1>4, <1>5
  <2>2. ASSUME NEW i \in 1 .. Len(t) PROVE Behind(p, n)[i] = t[i]
    <3>1. i \in 1 .. Len(p) - n
      BY <1>1, <1>2, <2>1
    <3>2. CASE i \in 1 .. Len(s)
      <4>1. n + i \in 1 .. Len(q) /\ i \in 1 .. Len(q) - n
        BY <1>1, <1>2, <1>3, <3>2
      <4> QED
        BY <1>1, <1>3, <1>4, <1>5, <3>1, <3>2, <4>1
    <3>3. CASE i \notin 1 .. Len(s)
      <4>1. i = Len(s) + 1 /\ n + i = Len(q) + 1
        BY <1>1, <1>2, <1>3, <2>1, <3>3
      <4> QED
        BY <1>1, <1>4, <1>5, <3>1, <4>1
    <3> QED
      BY <3>2, <3>3
  <2> QED
    BY <1>4, <1>5, <2>1, <2>2, SeqEqual
<1> QED
  BY <1>2, <1>6, <1>7 DEF Grown, s, t

\* The first of those behind the n-th.
OneOn(A, q, n) ==
    /\ n + 1 \in 0 .. Len(q) /\ q[n + 1] \in A
    /\ Head(Behind(q, n)) = q[n + 1]
    /\ Tail(Behind(q, n)) = Behind(q, n + 1)
    /\ Before(q, n + 1) = Append(Before(q, n), q[n + 1])

LEMMA PartsNext ==
    ASSUME NEW A, NEW q, NEW n, q \in Seq(A), n \in 0 .. Len(q),
           Behind(q, n) # <<>>
    PROVE  OneOn(A, q, n)
<1>1. /\ Before(q, n) \in Seq(A) /\ Behind(q, n) \in Seq(A)
      /\ Len(Behind(q, n)) = Len(q) - n
  <2>1. Parts(A, q, n)
    BY PartTypes, Zenon
  <2> QED
    BY <2>1 DEF Parts
<1>2. Len(q) \in Nat /\ n \in Nat /\ n <= Len(q)
  OBVIOUS
<1>3. n < Len(q)
  BY <1>1, <1>2
<1>4. n + 1 \in 1 .. Len(q) /\ Len(q) \in n + 1 .. Len(q) /\ n + 1 \in 0 .. Len(q)
  BY <1>2, <1>3
<1>5. q[n + 1] \in A
  BY <1>4, ElementOfSeq
<1>6. /\ Head(Behind(q, n)) = q[n + 1]
      /\ Tail(Behind(q, n)) = Behind(q, n + 1)
  BY <1>4, HeadTailOfSubSeq DEF Behind
<1>7. Before(q, n + 1) = Append(Before(q, n), q[n + 1])
  <2>1. 1 \in 1 .. Len(q) /\ n + 1 \in 1 .. Len(q) /\ (n + 1) - 1 = n
    BY <1>4
  <2>2. SubSeq(q, 1, n + 1) = SubSeq(q, 1, (n + 1) - 1) \o <<q[n + 1]>>
    BY <2>1, SubSeqRecursiveSecond
  <2>3. Before(q, n + 1) = Before(q, n) \o <<q[n + 1]>>
    BY <2>1, <2>2 DEF Before
  <2> QED
    BY <1>1, <1>5, <2>3, AppendIsConcat
<1> QED
  BY <1>4, <1>5, <1>6, <1>7 DEF OneOn

-----------------------------------------------------------------------------
(* The decoder stays aligned                                               *)

Typed ==
    /\ sent \in Seq(Item) /\ stream \in Seq(Byte) /\ buffer \in Seq(Byte)
    /\ open \in BOOLEAN

\* b is what the frames of ms still are, up to where the connection was lost.
Rest(o, b, ms) == IF o THEN b = Frames(ms) ELSE IsPrefix(b, Frames(ms))

\* The first n payloads are decoded, the others are in the buffer or on the way.
Decoded(n) ==
    /\ n \in 0 .. Len(sent)
    /\ handed = Valid(Before(sent, n))
    /\ Rest(open, buffer \o stream, Behind(sent, n))

LEMMA AlignedDecoded == InOrderAndAligned <=> \E n : Decoded(n)
BY Zenon DEF InOrderAndAligned, Decoded, Rest, Before, Behind

LEMMA AlignedNext ==
    ASSUME NEW n \in 0 .. Len(sent'),
           handed' = Valid(Before(sent', n)),
           Rest(open', buffer' \o stream', Behind(sent', n))
    PROVE  InOrderAndAligned'
BY Zenon DEF InOrderAndAligned, Rest, Before, Behind

LEMMA RestIsPrefix ==
    ASSUME NEW o \in BOOLEAN, NEW b \in Seq(Byte), NEW ms \in Seq(Item),
           Rest(o, b, ms)
    PROVE  IsPrefix(b, Frames(ms))
<1>1. Frames(ms) \in Seq(Byte)
  BY FramesOf DEF FramesOfAll
<1> QED
  BY <1>1, PrefixOfItself DEF Rest

LEMMA WriteStep ==
    ASSUME Typed, NEW n, Decoded(n), NEW m \in Item, Write(m)
    PROVE  Typed' /\ InOrderAndAligned'
<1> DEFINE q == Behind(sent, n)
           e == Encode(m)
<1>1. /\ sent \in Seq(Item) /\ stream \in Seq(Byte) /\ buffer \in Seq(Byte)
      /\ n \in 0 .. Len(sent) /\ handed = Valid(Before(sent, n))
      /\ Rest(TRUE, buffer \o stream, q)
  BY DEF Typed, Decoded, Write
<1>2. /\ open' = TRUE /\ sent' = Append(sent, m) /\ stream' = stream \o e
      /\ buffer' = buffer /\ handed' = handed
  BY DEF Write, Typed
<1>3. Grown(sent', sent, n, m)
  BY <1>1, <1>2, PartsAppend, Zenon
<1>4. Parts(Item, sent, n)
  BY <1>1, PartTypes, Zenon
<1>5. e \in Seq(Byte)
  BY FrameType
<1>6. q \in Seq(Item)
  BY <1>4, Zenon DEF Parts
<1> HIDE DEF q, e
<1>7. FramesOfAll(q)
  BY <1>6, FramesOf, Zenon
<1>8. Frames(Append(q, m)) = Frames(q) \o e
  BY <1>7, Zenon DEF FramesOfAll, e
<1>9. Associates(buffer, stream, e)
  BY <1>1, <1>5, Associate, Zenon
<1>10. buffer' \o stream' = Frames(Append(q, m))
  <2>1. buffer \o stream = Frames(q)
    BY <1>1, Zenon DEF Rest
  <2>2. (buffer \o stream) \o e = buffer \o (stream \o e)
    BY <1>9, Zenon DEF Associates
  <2> QED
    BY <1>2, <1>8, <2>1, <2>2, Zenon
<1>11. Typed'
  BY <1>1, <1>2, <1>5 DEF Typed
<1>12. /\ n \in 0 .. Len(sent') /\ handed' = Valid(Before(sent', n))
       /\ Behind(sent', n) = Append(q, m)
  BY <1>1, <1>2, <1>3, Zenon DEF Grown, q
<1>13. Rest(open', buffer' \o stream', Behind(sent', n))
  BY <1>2, <1>10, <1>12, Zenon DEF Rest
<1> QED
  BY <1>11, <1>12, <1>13, AlignedNext, Zenon

LEMMA CloseStep ==
    ASSUME Typed, NEW n, Decoded(n), Close
    PROVE  Typed' /\ InOrderAndAligned'
<1> DEFINE q == Behind(sent, n)
           x == buffer \o stream
           y == buffer' \o stream'
<1>1. /\ sent \in Seq(Item) /\ stream \in Seq(Byte) /\ buffer \in Seq(Byte)
      /\ n \in 0 .. Len(sent) /\ handed = Valid(Before(sent, n))
      /\ Rest(open, x, q) /\ open
  BY DEF Typed, Decoded, Close
<1>2. PICK i \in 0 .. Len(stream) : stream' = SubSeq(stream, 1, i)
  BY DEF Close
<1>3. /\ open' = FALSE /\ sent' = sent /\ buffer' = buffer /\ handed' = handed
  BY DEF Close
<1>4. stream' \in Seq(Byte) /\ IsPrefix(y, x)
  BY <1>1, <1>2, <1>3, CutPrefix
<1>5. Typed'
  BY <1>1, <1>3, <1>4 DEF Typed
<1>6. x = Frames(q)
  BY <1>1, Zenon DEF Rest
<1>7. Rest(open', y, Behind(sent', n))
  BY <1>3, <1>4, <1>6, Zenon DEF Rest, q
<1>8. n \in 0 .. Len(sent') /\ handed' = Valid(Before(sent', n))
  BY <1>1, <1>3, Zenon
<1> QED
  BY <1>5, <1>7, <1>8, AlignedNext, Zenon DEF y

LEMMA ArriveStep ==
    ASSUME Typed, NEW n, Decoded(n), Arrive
    PROVE  Typed' /\ InOrderAndAligned'
<1>1. /\ sent \in Seq(Item) /\ stream \in Seq(Byte) /\ buffer \in Seq(Byte)
      /\ open \in BOOLEAN
      /\ n \in 0 .. Len(sent) /\ handed = Valid(Before(sent, n))
      /\ Rest(open, buffer \o stream, Behind(sent, n))
  BY DEF Typed, Decoded
<1>2. PICK i \in 1 .. Len(stream) :
          /\ buffer' = buffer \o SubSeq(stream, 1, i)
          /\ stream' = SubSeq(stream, i + 1, Len(stream))
  BY DEF Arrive
<1>3. sent' = sent /\ handed' = handed /\ open' = open
  BY DEF Arrive
<1>4. /\ buffer' \in Seq(Byte) /\ stream' \in Seq(Byte)
      /\ buffer' \o stream' = buffer \o stream
  <2>1. Joined(Byte, buffer, stream, i)
    BY <1>1, Arrived, Zenon
  <2> QED
    BY <1>2, <2>1, Zenon DEF Joined
<1>5. Typed'
  BY <1>1, <1>3, <1>4 DEF Typed
<1>6. /\ n \in 0 .. Len(sent') /\ handed' = Valid(Before(sent', n))
      /\ Rest(open', buffer' \o stream', Behind(sent', n))
  BY <1>1, <1>3, <1>4, Zenon
<1> QED
  BY <1>5, <1>6, AlignedNext, Zenon

\* What taking the first frame off the buffer does.
LEMMA FrameStep ==
    ASSUME Typed, NEW n, Decoded(n), Complete(buffer)
    PROVE  /\ n + 1 \in 0 .. Len(sent) /\ FirstPayload(buffer) \in Item
           /\ Before(sent, n + 1) = Append(Before(sent, n), FirstPayload(buffer))
           /\ AfterFirst(buffer) \in Seq(Byte)
           /\ Rest(open, AfterFirst(buffer) \o stream, Behind(sent, n + 1))
<1> DEFINE q == Behind(sent, n)
           r == Behind(sent, n + 1)
           m == sent[n + 1]
           x == buffer \o stream
<1>1. /\ sent \in Seq(Item) /\ stream \in Seq(Byte) /\ buffer \in Seq(Byte)
      /\ open \in BOOLEAN
      /\ n \in 0 .. Len(sent) /\ Rest(open, x, q)
  BY DEF Typed, Decoded
<1>2. q \in Seq(Item)
  BY <1>1, PartTypes, Zenon DEF Parts
<1>3. x \in Seq(Byte)
  BY <1>1
<1> HIDE DEF q, x
<1>4. IsPrefix(x, Frames(q))
  BY <1>1, <1>2, <1>3, RestIsPrefix, Zenon
<1>5. q # <<>>
  BY <1>1, <1>2, <1>4, SomeFrame, Zenon DEF x
<1>6. OneOn(Item, sent, n)
  BY <1>1, <1>5, PartsNext, Zenon DEF q
<1>7. n + 1 \in 0 .. Len(sent) /\ m \in Item /\ Head(q) = m /\ Tail(q) = r
  BY <1>6, Zenon DEF OneOn, q
<1>8. r \in Seq(Item)
  BY <1>1, <1>7, PartTypes, Zenon DEF Parts
<1> HIDE DEF m, r
<1>9. FramesOfAll(q) /\ FramesOfAll(r)
  BY <1>2, <1>8, FramesOf, Zenon
<1>10. Frames(q) = Encode(m) \o Frames(r) /\ Frames(r) \in Seq(Byte)
  BY <1>5, <1>7, <1>9, Zenon DEF FramesOfAll
<1>11. IsPrefix(buffer \o stream, Encode(m) \o Frames(r))
  BY <1>4, <1>10, Zenon DEF x
<1>12. FirstOff(buffer, stream, m, Frames(r))
  BY <1>1, <1>7, <1>10, <1>11, FirstFrame, Zenon
<1>13. FirstPayload(buffer) = m /\ AfterFirst(buffer) \in Seq(Byte)
  BY <1>12, Zenon DEF FirstOff
<1>14. Rest(open, AfterFirst(buffer) \o stream, r)
  <2>1. CASE open
    <3>1. buffer \o stream = Encode(m) \o Frames(r)
      BY <1>1, <1>10, <2>1, Zenon DEF Rest, x
    <3>2. AfterFirst(buffer) \o stream = Frames(r)
      BY <1>12, <3>1, Zenon DEF FirstOff
    <3> QED
      BY <2>1, <3>2, Zenon DEF Rest
  <2>2. CASE ~ open
    BY <1>12, <2>2, Zenon DEF FirstOff, Rest
  <2> QED
    BY <2>1, <2>2
<1>15. Before(sent, n + 1) = Append(Before(sent, n), m)
  BY <1>6, Zenon DEF OneOn, m
<1> QED
  BY <1>7, <1>13, <1>14, <1>15, Zenon DEF r

LEMMA TakeStep ==
    ASSUME Typed, NEW n, Decoded(n), TakeFrame
    PROVE  Typed' /\ InOrderAndAligned'
<1> DEFINE m == FirstPayload(buffer)
           q == Before(sent, n)
<1>1. /\ Complete(buffer) /\ m \in Payload /\ handed' = Append(handed, m)
      /\ buffer' = AfterFirst(buffer)
      /\ sent' = sent /\ stream' = stream /\ open' = open
  BY DEF TakeFrame
<1>2. /\ n + 1 \in 0 .. Len(sent)
      /\ Before(sent, n + 1) = Append(q, m)
      /\ AfterFirst(buffer) \in Seq(Byte)
      /\ Rest(open, AfterFirst(buffer) \o stream, Behind(sent, n + 1))
  BY <1>1, FrameStep, Zenon
<1>3. /\ sent \in Seq(Item) /\ n \in 0 .. Len(sent) /\ handed = Valid(q)
  BY DEF Typed, Decoded
<1>4. q \in Seq(Item)
  BY <1>3, PartTypes, Zenon DEF Parts
<1> HIDE DEF q, m
<1>5. Valid(Append(q, m)) = Append(Valid(q), m)
  <2>1. ValidOfAll(q)
    BY <1>4, ValidOf, Zenon
  <2> QED
    BY <1>1, <2>1, Zenon DEF ValidOfAll
<1>6. Typed'
  BY <1>1, <1>2 DEF Typed
<1>7. /\ n + 1 \in 0 .. Len(sent') /\ handed' = Valid(Before(sent', n + 1))
      /\ Rest(open', buffer' \o stream', Behind(sent', n + 1))
  BY <1>1, <1>2, <1>3, <1>5, Zenon
<1> QED
  BY <1>6, <1>7, AlignedNext, Zenon

LEMMA RefuseStep ==
    ASSUME Typed, NEW n, Decoded(n), RefuseFrame
    PROVE  Typed' /\ InOrderAndAligned'
<1> DEFINE m == FirstPayload(buffer)
           q == Before(sent, n)
<1>1. /\ Complete(buffer) /\ m \notin Payload /\ handed' = handed
      /\ buffer' = AfterFirst(buffer)
      /\ sent' = sent /\ stream' = stream /\ open' = open
  BY DEF RefuseFrame
<1>2. /\ n + 1 \in 0 .. Len(sent) /\ m \in Item
      /\ Before(sent, n + 1) = Append(q, m)
      /\ AfterFirst(buffer) \in Seq(Byte)
      /\ Rest(open, AfterFirst(buffer) \o stream, Behind(sent, n + 1))
  BY <1>1, FrameStep, Zenon
<1>3. /\ sent \in Seq(Item) /\ n \in 0 .. Len(sent) /\ handed = Valid(q)
  BY DEF Typed, Decoded
<1>4. q \in Seq(Item)
  BY <1>3, PartTypes, Zenon DEF Parts
<1> HIDE DEF q, m
<1>5. Valid(Append(q, m)) = Valid(q)
  <2>1. ValidOfAll(q) /\ m \in Item \ Payload
    BY <1>1, <1>2, <1>4, ValidOf, Zenon
  <2> QED
    BY <2>1, Zenon DEF ValidOfAll
<1>6. Typed'
  BY <1>1, <1>2 DEF Typed
<1>7. /\ n + 1 \in 0 .. Len(sent') /\ handed' = Valid(Before(sent', n + 1))
      /\ Rest(open', buffer' \o stream', Behind(sent', n + 1))
  BY <1>1, <1>2, <1>3, <1>5, Zenon
<1> QED
  BY <1>6, <1>7, AlignedNext, Zenon

\* The other actions only change what the receiver waits for.
LEMMA StillStep ==
    ASSUME Typed, NEW n, Decoded(n),
           sent' = sent, stream' = stream, buffer' = buffer,
           handed' = handed, open' = open
    PROVE  Typed' /\ InOrderAndAligned'
<1>1. Typed'
  BY DEF Typed
<1>2. /\ n \in 0 .. Len(sent') /\ handed' = Valid(Before(sent', n))
      /\ Rest(open', buffer' \o stream', Behind(sent', n))
  BY Zenon DEF Decoded
<1> QED
  BY <1>1, <1>2, AlignedNext, Zenon

LEMMA AlignedInit ==
    ASSUME Init
    PROVE  Typed /\ InOrderAndAligned
<1>1. /\ sent = <<>> /\ stream = <<>> /\ buffer = <<>> /\ handed = <<>>
      /\ open = TRUE
  BY DEF Init
<1>2. Typed
  BY <1>1 DEF Typed
<1>3. Before(<<>>, 0) = <<>> /\ Behind(<<>>, 0) = <<>>
  <2>1. SubSeq(<<>>, 1, 0) = <<>> /\ SubSeq(<<>>, 0 + 1, Len(<<>>)) = <<>>
    BY SubSeqEmpty
  <2> QED
    BY <2>1, Zenon DEF Before, Behind
<1>4. Frames(<<>>) = <<>> /\ Valid(<<>>) = <<>>
  <2>1. <<>> \in Seq(Item)
    OBVIOUS
  <2> QED
    BY <2>1, FramesOf, ValidOf, Zenon DEF FramesOfAll, ValidOfAll
<1>5. <<>> \o <<>> = <<>>
  OBVIOUS
<1>6. 0 \in 0 .. Len(<<>>)
  OBVIOUS
<1>7. Decoded(0)
  BY <1>1, <1>3, <1>4, <1>5, <1>6 DEF Decoded, Rest
<1> QED
  BY <1>2, <1>7, AlignedDecoded, Zenon

LEMMA AlignedStep ==
    ASSUME Typed, InOrderAndAligned, [Next]_vars
    PROVE  Typed' /\ InOrderAndAligned'
<1>1. PICK n : Decoded(n)
  BY AlignedDecoded, Zenon
<1>2. ASSUME NEW m \in Payload \union Garbage, Write(m)
      PROVE  Typed' /\ InOrderAndAligned'
  BY <1>1, <1>2, WriteStep, Zenon DEF Item
<1>3. CASE Close
  BY <1>1, <1>3, CloseStep, Zenon
<1>4. CASE Arrive
  BY <1>1, <1>4, ArriveStep, Zenon
<1>5. CASE EndOfStream
  BY <1>1, <1>5, StillStep DEF EndOfStream
<1>6. CASE NeedsMore
  BY <1>1, <1>6, StillStep DEF NeedsMore
<1>7. CASE TakeFrame
  BY <1>1, <1>7, TakeStep, Zenon
<1>8. CASE RefuseFrame
  BY <1>1, <1>8, RefuseStep, Zenon
<1>9. CASE GiveUp
  BY <1>1, <1>9, StillStep DEF GiveUp
<1>10. CASE UNCHANGED vars
  BY <1>1, <1>10, StillStep DEF vars
<1> QED
  BY <1>2, <1>3, <1>4, <1>5, <1>6, <1>7, <1>8, <1>9, <1>10 DEF Next, Decode

\* However many frames of whatever payloads are written, in whatever pieces
\* their bytes arrive and wherever the connection is lost: what was decoded are
\* the valid payloads sent so far, in order and once each, and the bytes left
\* begin with a frame. Frames are never mixed up, by the handshake that takes
\* the first one and the reader that takes the others either.
THEOREM FramesInOrder == Spec => []InOrderAndAligned
<1>1. Init => Typed /\ InOrderAndAligned
  BY AlignedInit
<1>2. Typed /\ InOrderAndAligned /\ [Next]_vars => Typed' /\ InOrderAndAligned'
  BY AlignedStep
<1> QED
  BY <1>1, <1>2, PTL DEF Spec

=============================================================================
