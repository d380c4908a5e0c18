------------------------------ MODULE ProofFacts ------------------------------
(***************************************************************************)
(* Facts about numbers, sums and powers, and about what is kept of a list, *)
(* that several of the proofs need.  The library's induction rules take an operator, which *)
(* no prover here instantiates; induction over a set of numbers says as    *)
(* much and takes none.                                                    *)
(***************************************************************************)
EXTENDS Integers, Filtering, Sums, SequenceTheorems, WellFoundedInduction, TLAPS

\* A set of numbers has a least element, if it has one at all.
LEMMA LeastNat ==
  ASSUME NEW T \in SUBSET Nat, T # {}
  PROVE  \E x \in T : \A y \in T : x <= y
<1> DEFINE R == OpToRel(<, Nat)
<1>1. PICK x \in T : \A y \in T : ~ (<<y, x>> \in R)
  <2>1. IsWellFoundedOn(R, Nat) BY NatLessThanWellFounded
  <2> HIDE DEF R
  <2> QED BY <2>1, WFMin
<1>2. ASSUME NEW y \in T PROVE x <= y
  <2>1. x \in Nat /\ y \in Nat OBVIOUS
  <2>2. y < x => <<y, x>> \in R BY <2>1, Zenon DEF OpToRel
  <2>3. ~ (y < x) BY <1>1, <2>2
  <2> HIDE DEF R
  <2> QED BY <2>1, <2>3
<1> QED BY <1>2

\* A set that has 0, and the successor of each number it has, has every number.
LEMMA SetInduction ==
  ASSUME NEW S, 0 \in S, \A n \in Nat : n \in S => n + 1 \in S
  PROVE  Nat \subseteq S
<1> SUFFICES ASSUME ~ (Nat \subseteq S) PROVE FALSE
  OBVIOUS
<1> DEFINE T == Nat \ S
<1>1. PICK x \in T : \A y \in T : x <= y
  <2>1. T \in SUBSET Nat /\ T # {} OBVIOUS
  <2> HIDE DEF T
  <2> QED BY <2>1, LeastNat
<1>2. x # 0 /\ x \in Nat /\ x - 1 \in Nat /\ x - 1 \notin T
  BY <1>1
<1> QED BY <1>1, <1>2

\* What divides a number leaves no remainder.
Divides(d, a) == \E q \in Nat : a = d * q

LEMMA DividesMod ==
  ASSUME NEW d \in Nat \ {0}, NEW a \in Nat
  PROVE  a % d = 0 <=> Divides(d, a)
<1>1. ASSUME a % d = 0 PROVE Divides(d, a)
  <2>1. a = d * (a \div d) + (a % d) /\ (a \div d) \in Int  OBVIOUS
  <2>2. (a \div d) >= 0 BY <2>1
  <2>3. a \div d \in Nat /\ a = d * (a \div d) BY <1>1, <2>1, <2>2
  <2>. QED BY <2>3, Zenon DEF Divides
<1>2. ASSUME Divides(d, a) PROVE a % d = 0
  <2>1. PICK q \in Nat : a = d * q BY <1>2 DEF Divides
  <2>. QED BY <2>1
<1>. QED BY <1>1, <1>2

LEMMA NextMultiple ==
  ASSUME NEW c \in Nat, NEW k \in Nat
  PROVE  (c + 1) * k = c * k + k /\ c * k \in Nat
OBVIOUS

LEMMA Regroup ==
  ASSUME NEW a \in Nat, NEW b \in Nat, NEW c \in Nat
  PROVE  a * (b * c) = b * (a * c) /\ a * c \in Nat
OBVIOUS

\* The same from one number up to another.
LEMMA RangeInduction ==
  ASSUME NEW S, NEW m \in Nat, NEW n \in Nat,
         m <= n => m \in S,
         \A k \in m..n : k < n /\ k \in S => k + 1 \in S
  PROVE  m..n \subseteq S
<1> DEFINE T == {d \in Nat : m + d <= n => m + d \in S}
<1>1. 0 \in T OBVIOUS
<1>2. ASSUME NEW d \in Nat, d \in T PROVE d + 1 \in T
  <2>1. SUFFICES ASSUME m + (d + 1) <= n PROVE m + (d + 1) \in S
    OBVIOUS
  <2>2. m + d \in S /\ m + d \in m..n /\ m + d < n BY <1>2, <2>1
  <2>3. (m + d) + 1 \in S BY <2>2
  <2> QED BY <2>3
<1>3. Nat \subseteq T
  <2> HIDE DEF T
  <2> QED BY <1>1, <1>2, SetInduction
<1>4. ASSUME NEW k \in m..n PROVE k \in S
  <2>1. k - m \in Nat /\ m + (k - m) = k BY <1>4
  <2>2. k - m \in T BY <1>3, <2>1
  <2> QED BY <2>1, <2>2
<1> QED BY <1>4

\* A function whose values each follow from the one before exists.
Iterated(f, G, s0, m, n) == \A k \in m..n : f[k] = IF k = m THEN s0 ELSE G[<<k, f[k - 1]>>]

LEMMA Iterates ==
  ASSUME NEW S, NEW s0 \in S, NEW m \in Nat, NEW n \in Nat, NEW G \in [Nat \X S -> S]
  PROVE  \E f \in [m..n -> S] : Iterated(f, G, s0, m, n)
<1> DEFINE Follows(f, l) == Iterated(f, G, s0, m, l)
           T == {l \in Nat : \E f \in [m..l -> S] : Follows(f, l)}
<1> USE DEF Iterated
<1>1. CASE n < m
  <2> DEFINE f == [k \in m..n |-> s0]
  <2>1. f \in [m..n -> S] /\ \A k \in m..n : FALSE BY <1>1
  <2> HIDE DEF f
  <2> QED BY <2>1
<1>2. CASE m <= n
  <2>1. m \in T
    <3> DEFINE f == [k \in m..m |-> s0]
    <3>1. f \in [m..m -> S] /\ \A k \in m..m : k = m /\ f[k] = s0 OBVIOUS
    <3> HIDE DEF f
    <3> QED BY <3>1
  <2>2. ASSUME NEW l \in m..n, l < n, l \in T PROVE l + 1 \in T
    <3>1. PICK f \in [m..l -> S] : Follows(f, l) BY <2>2
    <3> DEFINE g == [k \in m..l + 1 |-> IF k <= l THEN f[k] ELSE G[<<l + 1, f[l]>>]]
    <3>2. f[l] \in S /\ G[<<l + 1, f[l]>>] \in S BY <2>2
    <3>3. /\ g \in [m..l + 1 -> S] /\ g[l + 1] = G[<<l + 1, f[l]>>]
          /\ \A k \in m..l : g[k] = f[k]
      BY <2>2, <3>2
    <3> HIDE DEF g
    <3>4. ASSUME NEW k \in m..l + 1 PROVE g[k] = IF k = m THEN s0 ELSE G[<<k, g[k - 1]>>]
      <4>1. CASE k = l + 1
        <5>1. k - 1 = l /\ l \in m..l /\ k # m BY <2>2, <4>1
        <5> QED BY <3>3, <4>1, <5>1
      <4>2. CASE k \in m..l
        <5>1. k # m => k - 1 \in m..l BY <2>2, <4>2
        <5> QED BY <3>1, <3>3, <4>2, <5>1
      <4> QED BY <2>2, <4>1, <4>2
    <3> QED BY <2>2, <3>3, <3>4
  <2>3. n \in T
    <3> HIDE DEF T
    <3>1. m..n \subseteq T BY <2>1, <2>2, RangeInduction
    <3>2. n \in m..n BY <1>2
    <3> QED BY <3>1, <3>2
  <2> QED BY <2>3
<1> QED BY <1>1, <1>2

\* Division leaves one remainder.
LEMMA Remainder ==
  ASSUME NEW d \in Nat \ {0}, NEW q \in Int, NEW r \in 0..d - 1
  PROVE  (d * q + r) % d = r
<1> DEFINE a == d * q + r
           q2 == a \div d
           r2 == a % d
<1>1. a \in Int /\ q2 \in Int /\ r2 \in 0..d - 1 /\ a = d * q2 + r2
  OBVIOUS
<1> HIDE DEF q2, r2
<1>2. d * (q - q2) = r2 - r BY <1>1
<1>3. \A z \in Int : z >= 1 => d * z >= d OBVIOUS
<1>4. \A z \in Int : z <= -1 => d * z <= -d OBVIOUS
<1>5. q - q2 \in Int /\ r2 - r < d /\ r2 - r > -d BY <1>1
<1>6. q - q2 = 0 BY <1>2, <1>3, <1>4, <1>5
<1>7. d * (q - q2) = 0 BY <1>6
<1> QED BY <1>1, <1>2, <1>7 DEF r2

LEMMA SmallRemainder ==
  ASSUME NEW d \in Nat \ {0}, NEW a \in Nat, a < 2 * d
  PROVE  a % d = IF a < d THEN a ELSE a - d
<1>1. CASE a < d
  <2>1. a = d * 0 + a /\ a \in 0..d - 1 BY <1>1
  <2> QED BY <1>1, <2>1, Remainder
<1>2. CASE a >= d
  <2>1. a = d * 1 + (a - d) /\ a - d \in 0..d - 1 BY <1>2
  <2>2. (d * 1 + (a - d)) % d = a - d BY <2>1, Remainder
  <2> QED BY <1>2, <2>1, <2>2
<1> QED BY <1>1, <1>2

LEMMA NextRemainder ==
  ASSUME NEW d \in Nat \ {0}, NEW a \in Nat
  PROVE  (a + 1) % d = IF (a % d) + 1 = d THEN 0 ELSE (a % d) + 1
<1> DEFINE q == a \div d
           r == a % d
<1>1. a = d * q + r /\ q \in Int /\ r \in 0..d - 1 OBVIOUS
<1> HIDE DEF q, r
<1>2. CASE r + 1 = d
  <2>1. a + 1 = d * (q + 1) + 0 /\ q + 1 \in Int /\ 0 \in 0..d - 1 BY <1>1, <1>2
  <2>2. (d * (q + 1) + 0) % d = 0 BY <2>1, Remainder
  <2> QED BY <1>2, <2>1, <2>2 DEF r
<1>3. CASE r + 1 # d
  <2>1. a + 1 = d * q + (r + 1) /\ r + 1 \in 0..d - 1 BY <1>1, <1>3
  <2>2. (d * q + (r + 1)) % d = r + 1 BY <1>1, <2>1, Remainder
  <2> QED BY <1>3, <2>1, <2>2 DEF r
<1> QED BY <1>2, <1>3

-----------------------------------------------------------------------------
(* What is kept of a list, and of two joined. *)

\* What is kept of a sequence, element by element.
Grows(f, s, S) ==
    /\ f[0] = <<>>
    /\ \A k \in 1..Len(s) : f[k] = IF s[k] \in S THEN Append(f[k - 1], s[k]) ELSE f[k - 1]

LEMMA AmongIs ==
  ASSUME NEW U, NEW s \in Seq(U), NEW S
  PROVE  \E f \in [0..Len(s) -> Seq(U)] : Grows(f, s, S) /\ Among(s, S) = f[Len(s)]
<1>. DEFINE n == Len(s)
            G == [v \in Nat \X Seq(U) |->
                    IF v[1] \in 1..n /\ s[v[1]] \in S THEN Append(v[2], s[v[1]]) ELSE v[2]]
            Next(f, k) == IF s[k] \in S THEN Append(f[k - 1], s[k]) ELSE f[k - 1]
            Is(f) == f = [k \in 0..n |-> IF k = 0 THEN <<>> ELSE Next(f, k)]
<1>1. n \in Nat /\ DOMAIN s = 1..n /\ \A k \in 1..n : s[k] \in U
  BY LenProperties, ElementOfSeq
<1>. HIDE DEF n
<1>2. G \in [Nat \X Seq(U) -> Seq(U)]
  <2>1. \A v \in Nat \X Seq(U) : v[2] \in Seq(U) OBVIOUS
  <2>2. ASSUME NEW v \in Nat \X Seq(U), v[1] \in 1..n PROVE Append(v[2], s[v[1]]) \in Seq(U)
    <3>1. s[v[1]] \in U /\ v[2] \in Seq(U) BY <1>1, <2>1, <2>2
    <3>. QED BY <3>1, AppendProperties
  <2>3. \A v \in Nat \X Seq(U) :
          (IF v[1] \in 1..n /\ s[v[1]] \in S THEN Append(v[2], s[v[1]]) ELSE v[2]) \in Seq(U)
    BY <2>1, <2>2
  <2>. QED BY <2>3
<1>3. ASSUME NEW k \in 1..n, NEW q \in Seq(U)
      PROVE  G[<<k, q>>] = IF s[k] \in S THEN Append(q, s[k]) ELSE q
  <2>1. <<k, q>> \in Nat \X Seq(U) /\ <<k, q>>[1] = k /\ <<k, q>>[2] = q BY <1>1
  <2>. QED BY <2>1
<1>. HIDE DEF G
<1>4. PICK f \in [0..n -> Seq(U)] : Iterated(f, G, <<>>, 0, n)
  <2>1. <<>> \in Seq(U) /\ 0 \in Nat OBVIOUS
  <2>. QED BY <1>1, <1>2, <2>1, Iterates
<1>5. ASSUME NEW k \in 1..n PROVE f[k] = Next(f, k)
  <2>1. k \in 0..n /\ k - 1 \in 0..n /\ k # 0 BY <1>1
  <2>2. f[k] = G[<<k, f[k - 1]>>] BY <1>4, <2>1 DEF Iterated
  <2>3. f[k - 1] \in Seq(U) BY <2>1
  <2>. QED BY <1>3, <2>2, <2>3
<1>6. f[0] = <<>>
  <2>1. 0 \in 0..n BY <1>1
  <2>. QED BY <1>4, <2>1 DEF Iterated
<1>. HIDE DEF Next
<1>7. Is(f)
  <2>1. \A k \in 0..n : k = 0 \/ k \in 1..n BY <1>1
  <2>2. \A k \in 0..n : f[k] = IF k = 0 THEN <<>> ELSE Next(f, k) BY <1>5, <1>6, <2>1
  <2>. QED BY <2>2
<1>. DEFINE g == CHOOSE h : Is(h)
<1>8. Is(g)
  <2>1. \E h : Is(h) BY <1>7
  <2>. HIDE DEF Is
  <2>. QED BY <2>1
<1>9. Among(s, S) = g[n] BY DEF Among, Next, n
<1>. HIDE DEF g
<1>10. /\ g[0] = <<>> /\ \A k \in 1..n : g[k] = Next(g, k)
       /\ DOMAIN g = 0..n
  <2>1. 0 \in 0..n /\ \A k \in 1..n : k \in 0..n /\ k # 0 BY <1>1
  <2>2. /\ DOMAIN [k \in 0..n |-> IF k = 0 THEN <<>> ELSE Next(g, k)] = 0..n
        /\ \A k \in 0..n : [j \in 0..n |-> IF j = 0 THEN <<>> ELSE Next(g, j)][k]
                             = IF k = 0 THEN <<>> ELSE Next(g, k)
    OBVIOUS
  <2>3. g = [k \in 0..n |-> IF k = 0 THEN <<>> ELSE Next(g, k)] BY <1>8
  <2>. HIDE DEF Is
  <2>4. DOMAIN g = 0..n BY <2>2, <2>3
  <2>5. \A k \in 0..n : g[k] = IF k = 0 THEN <<>> ELSE Next(g, k) BY <2>2, <2>3
  <2>. QED BY <2>1, <2>4, <2>5
<1>11. \A k \in 0..n : g[k] \in Seq(U)
  <2>. DEFINE T == {k \in 0..n : g[k] \in Seq(U)}
  <2>1. 0 <= n => 0 \in T
    <3>1. <<>> \in Seq(U) OBVIOUS
    <3>2. g[0] = <<>> BY <1>10
    <3>3. 0 \in 0..n BY <1>1
    <3>. QED BY <3>1, <3>2, <3>3
  <2>2. ASSUME NEW k \in 0..n, k < n, k \in T PROVE k + 1 \in T
    <3>1. k + 1 \in 1..n /\ (k + 1) - 1 = k /\ k + 1 \in 0..n BY <1>1, <2>2
    <3>2. g[k + 1] = IF s[k + 1] \in S THEN Append(g[k], s[k + 1]) ELSE g[k]
      BY <1>10, <3>1 DEF Next
    <3>3. g[k] \in Seq(U) /\ s[k + 1] \in U BY <1>1, <2>2, <3>1
    <3>4. Append(g[k], s[k + 1]) \in Seq(U) BY <3>3, AppendProperties
    <3>. QED BY <3>1, <3>2, <3>3, <3>4
  <2>. HIDE DEF T
  <2>3. 0..n \subseteq T BY <1>1, <2>1, <2>2, RangeInduction, 0 \in Nat
  <2>. QED BY <2>3 DEF T
<1>12. g \in [0..n -> Seq(U)]
  <2>1. g = [k \in 0..n |-> g[k]] BY <1>8, <1>10
  <2>. QED BY <1>11, <2>1
<1>13. Grows(g, s, S) BY <1>10 DEF Grows, Next, n
<1>. QED BY <1>9, <1>12, <1>13 DEF n

\* Sequences that agree where they are kept of have the same kept of them.
LEMMA GrowAlike ==
  ASSUME NEW U, NEW s \in Seq(U), NEW t \in Seq(U), NEW S, NEW T,
         NEW f \in [0..Len(s) -> Seq(U)], NEW g \in [0..Len(t) -> Seq(U)],
         Grows(f, s, S), Grows(g, t, T),
         Len(s) <= Len(t), \A k \in 1..Len(s) : s[k] = t[k] /\ (s[k] \in S <=> t[k] \in T)
  PROVE  \A k \in 0..Len(s) : f[k] = g[k]
<1>. DEFINE n == Len(s)
            A == {k \in 0..n : f[k] = g[k]}
<1>1. n \in Nat /\ Len(t) \in Nat /\ n <= Len(t) BY LenProperties
<1>2. /\ f[0] = <<>> /\ \A k \in 1..n : f[k] = IF s[k] \in S THEN Append(f[k - 1], s[k]) ELSE f[k - 1]
      /\ g[0] = <<>> /\ \A k \in 1..n : g[k] = IF t[k] \in T THEN Append(g[k - 1], t[k]) ELSE g[k - 1]
  BY <1>1 DEF Grows
<1>3. 0 <= n => 0 \in A BY <1>1, <1>2
<1>4. ASSUME NEW k \in 0..n, k < n, k \in A PROVE k + 1 \in A
  <2>1. k + 1 \in 1..n /\ (k + 1) - 1 = k /\ k + 1 \in 0..n BY <1>1, <1>4
  <2>2. /\ f[k + 1] = IF s[k + 1] \in S THEN Append(f[k], s[k + 1]) ELSE f[k]
        /\ g[k + 1] = IF t[k + 1] \in T THEN Append(g[k], t[k + 1]) ELSE g[k]
    BY <1>2, <2>1
  <2>3. f[k] = g[k] /\ s[k + 1] = t[k + 1] /\ (s[k + 1] \in S <=> t[k + 1] \in T) BY <1>4, <2>1
  <2>. QED BY <2>1, <2>2, <2>3
<1>. HIDE DEF A
<1>5. 0..n \subseteq A BY <1>1, <1>3, <1>4, RangeInduction, 0 \in Nat
<1>. QED BY <1>5 DEF A

LEMMA SameAmong ==
  ASSUME NEW U, NEW s \in Seq(U), NEW S, NEW T, \A k \in 1..Len(s) : s[k] \in S <=> s[k] \in T
  PROVE  Among(s, S) = Among(s, T)
<1>1. PICK f \in [0..Len(s) -> Seq(U)] : Grows(f, s, S) /\ Among(s, S) = f[Len(s)] BY AmongIs
<1>2. PICK g \in [0..Len(s) -> Seq(U)] : Grows(g, s, T) /\ Among(s, T) = g[Len(s)] BY AmongIs
<1>3. Len(s) \in Nat BY LenProperties
<1>4. \A k \in 0..Len(s) : f[k] = g[k]
  <2>1. Len(s) <= Len(s) BY <1>3
  <2>. QED BY <1>1, <1>2, <2>1, GrowAlike
<1>. QED BY <1>1, <1>2, <1>3, <1>4

LEMMA AmongType ==
  ASSUME NEW U, NEW s \in Seq(U), NEW S
  PROVE  Among(s, S) \in Seq(U)
<1>1. PICK f \in [0..Len(s) -> Seq(U)] : Grows(f, s, S) /\ Among(s, S) = f[Len(s)] BY AmongIs
<1>2. Len(s) \in 0..Len(s) BY LenProperties
<1>. QED BY <1>1, <1>2

LEMMA AmongNone ==
  ASSUME NEW U, NEW s \in Seq(U), NEW S, \A k \in 1..Len(s) : s[k] \notin S
  PROVE  Among(s, S) = <<>>
<1>1. PICK f \in [0..Len(s) -> Seq(U)] : Grows(f, s, S) /\ Among(s, S) = f[Len(s)] BY AmongIs
<1>. DEFINE n == Len(s)
            A == {k \in 0..n : f[k] = <<>>}
<1>2. n \in Nat BY LenProperties
<1>3. 0 <= n => 0 \in A BY <1>1, <1>2 DEF Grows
<1>4. ASSUME NEW k \in 0..n, k < n, k \in A PROVE k + 1 \in A
  <2>1. k + 1 \in 1..n /\ (k + 1) - 1 = k /\ k + 1 \in 0..n BY <1>2, <1>4
  <2>. QED BY <1>1, <1>4, <2>1 DEF Grows
<1>. HIDE DEF A
<1>5. 0..n \subseteq A BY <1>2, <1>3, <1>4, RangeInduction, 0 \in Nat
<1>. QED BY <1>1, <1>2, <1>5 DEF A

LEMMA AmongAppend ==
  ASSUME NEW U, NEW s \in Seq(U), NEW S, NEW e \in U
  PROVE  Among(Append(s, e), S) = IF e \in S THEN Append(Among(s, S), e) ELSE Among(s, S)
<1>. DEFINE t == Append(s, e)
            n == Len(s)
<1>1. /\ t \in Seq(U) /\ Len(t) = n + 1 /\ t[n + 1] = e /\ \A k \in 1..n : t[k] = s[k]
      /\ n \in Nat
  BY AppendProperties, LenProperties
<1>. HIDE DEF t, n
<1>2. PICK f \in [0..n -> Seq(U)] : Grows(f, s, S) /\ Among(s, S) = f[n] BY AmongIs DEF n
<1>3. PICK g \in [0..Len(t) -> Seq(U)] : Grows(g, t, S) /\ Among(t, S) = g[Len(t)]
  BY <1>1, AmongIs
<1>4. \A k \in 0..n : f[k] = g[k]
  <2>1. Len(s) <= Len(t) /\ \A k \in 1..Len(s) : s[k] = t[k] /\ (s[k] \in S <=> t[k] \in S)
    BY <1>1 DEF n
  <2>2. f \in [0..Len(s) -> Seq(U)] /\ \A k \in 0..Len(s) : f[k] = g[k]
    <3>1. f \in [0..Len(s) -> Seq(U)] /\ Grows(f, s, S) BY <1>2 DEF n
    <3>2. g \in [0..Len(t) -> Seq(U)] /\ Grows(g, t, S) /\ t \in Seq(U) BY <1>1, <1>3
    <3>. QED BY <2>1, <3>1, <3>2, GrowAlike
  <2>. QED BY <2>2 DEF n
<1>5. g[n + 1] = IF t[n + 1] \in S THEN Append(g[n], t[n + 1]) ELSE g[n]
  <2>1. n + 1 \in 1..Len(t) /\ (n + 1) - 1 = n BY <1>1
  <2>. QED BY <1>3, <2>1 DEF Grows
<1>6. f[n] = g[n] BY <1>1, <1>4
<1>. QED BY <1>1, <1>2, <1>3, <1>5, <1>6 DEF t

LEMMA EmptyAmong == ASSUME NEW S PROVE Among(<<>>, S) = <<>>
<1>1. <<>> \in Seq({}) /\ Len(<<>>) = 0 OBVIOUS
<1>2. \A k \in 1..Len(<<>>) : <<>>[k] \notin S BY <1>1
<1>. QED BY <1>1, <1>2, AmongNone

LEMMA AmongJoined ==
  ASSUME NEW U, NEW s \in Seq(U), NEW t \in Seq(U), NEW S
  PROVE  Among(s \o t, S) = Among(s, S) \o Among(t, S)
<1>. DEFINE n == Len(t)
            u(k) == SubSeq(t, 1, k)
            A == {k \in 0..n : Among(s \o u(k), S) = Among(s, S) \o Among(u(k), S)}
<1>1. n \in Nat /\ \A k \in 1..n : t[k] \in U BY LenProperties, ElementOfSeq
<1>2. \A k \in 0..n : u(k) \in Seq(U)
  <2>1. \A k \in 0..n : k \in Int /\ 1 \in Int /\ \A i \in 1..k : t[i] \in U BY <1>1
  <2>. QED BY <2>1, SubSeqProperties
<1>3. 0 <= n => 0 \in A
  <2>1. u(0) = <<>>
    <3>1. 1 \in Int /\ 0 \in Int /\ 0 < 1 OBVIOUS
    <3>. QED BY <3>1, SubSeqEmpty
  <2>2. s \o <<>> = s /\ Among(s, S) \in Seq(U) BY AmongType, ConcatEmptySeq
  <2>3. Among(s, S) \o <<>> = Among(s, S) BY <2>2, ConcatEmptySeq
  <2>4. Among(<<>>, S) = <<>> BY EmptyAmong
  <2>5. Among(s \o u(0), S) = Among(s, S) \o Among(u(0), S) BY <2>1, <2>2, <2>3, <2>4
  <2>. QED BY <1>1, <2>5
<1>4. ASSUME NEW k \in 0..n, k < n, k \in A PROVE k + 1 \in A
  <2>. DEFINE e == t[k + 1]
  <2>1. k + 1 \in 1..n /\ (k + 1) - 1 = k /\ k + 1 \in 0..n /\ k + 1 \in Nat BY <1>1, <1>4
  <2>2. e \in U /\ u(k) \in Seq(U) BY <1>1, <1>2, <2>1
  <2>3. u(k + 1) = Append(u(k), e)
    <3>1. SubSeq(t, 1, k + 1) = SubSeq(t, 1, (k + 1) - 1) \o <<t[k + 1]>>
      <4>1. 1 \in 1..Len(t) /\ k + 1 \in 1..Len(t) BY <1>1, <2>1
      <4>. QED BY <4>1, SubSeqRecursiveSecond
    <3>2. Append(u(k), e) = u(k) \o <<e>> BY <2>2, AppendIsConcat
    <3>. QED BY <2>1, <3>1, <3>2
  <2>4. Among(s \o u(k), S) = Among(s, S) \o Among(u(k), S) BY <1>4
  <2>. HIDE DEF A, u, e
  <2>. DEFINE a == Among(s, S)
              b == Among(u(k), S)
  <2>5. a \in Seq(U) /\ b \in Seq(U) /\ s \o u(k) \in Seq(U)
    BY <2>2, AmongType, ConcatProperties
  <2>6. s \o Append(u(k), e) = Append(s \o u(k), e)
    <3>1. Append(u(k), e) = u(k) \o <<e>> /\ <<e>> \in Seq(U) BY <2>2, AppendIsConcat
    <3>2. Append(s \o u(k), e) = (s \o u(k)) \o <<e>> BY <2>2, <2>5, AppendIsConcat
    <3>. QED BY <2>2, <3>1, <3>2, ConcatAssociative
  <2>7. a \o Append(b, e) = Append(a \o b, e)
    <3>. HIDE DEF a, b
    <3>1. Append(b, e) = b \o <<e>> /\ <<e>> \in Seq(U) /\ a \o b \in Seq(U)
      BY <2>2, <2>5, AppendIsConcat, ConcatProperties
    <3>2. Append(a \o b, e) = (a \o b) \o <<e>> BY <2>2, <3>1, AppendIsConcat
    <3>. QED BY <2>5, <3>1, <3>2, ConcatAssociative
  <2>8. Among(s \o u(k + 1), S) = IF e \in S THEN Append(Among(s \o u(k), S), e) ELSE Among(s \o u(k), S)
    <3>1. Among(Append(s \o u(k), e), S)
            = IF e \in S THEN Append(Among(s \o u(k), S), e) ELSE Among(s \o u(k), S)
      <4>. DEFINE w == s \o u(k)
      <4>1. w \in Seq(U) BY <2>5
      <4>. HIDE DEF w
      <4>2. Among(Append(w, e), S) = IF e \in S THEN Append(Among(w, S), e) ELSE Among(w, S)
        BY <2>2, <4>1, AmongAppend
      <4>. QED BY <4>2 DEF w
    <3>. QED BY <2>3, <2>6, <3>1
  <2>9. Among(u(k + 1), S) = IF e \in S THEN Append(b, e) ELSE b
    <3>1. Among(Append(u(k), e), S) = IF e \in S THEN Append(Among(u(k), S), e) ELSE Among(u(k), S)
      BY <2>2, AmongAppend
    <3>. QED BY <2>3, <3>1
  <2>10. Among(s \o u(k + 1), S) = Among(s, S) \o Among(u(k + 1), S)
    BY <2>4, <2>7, <2>8, <2>9
  <2>. QED BY <2>1, <2>10 DEF A
<1>5. 0..n \subseteq A
  <2>. HIDE DEF A, n
  <2>. QED BY <1>1, <1>3, <1>4, RangeInduction, 0 \in Nat
<1>6. u(n) = t BY SubSeqFull
<1>7. n \in A BY <1>1, <1>5
<1>. QED BY <1>6, <1>7

LEMMA AmongAll ==
  ASSUME NEW U, NEW s \in Seq(U), NEW S, \A k \in 1..Len(s) : s[k] \in S
  PROVE  Among(s, S) = s
<1>1. PICK f \in [0..Len(s) -> Seq(U)] : Grows(f, s, S) /\ Among(s, S) = f[Len(s)] BY AmongIs
<1>. DEFINE n == Len(s)
            u(k) == SubSeq(s, 1, k)
            A == {k \in 0..n : f[k] = u(k)}
<1>2. n \in Nat /\ \A k \in 1..n : s[k] \in U BY LenProperties, ElementOfSeq
<1>3. 0 <= n => 0 \in A
  <2>1. u(0) = <<>>
    <3>1. 1 \in Int /\ 0 \in Int /\ 0 < 1 OBVIOUS
    <3>. QED BY <3>1, SubSeqEmpty
  <2>. QED BY <1>1, <1>2, <2>1 DEF Grows
<1>4. ASSUME NEW k \in 0..n, k < n, k \in A PROVE k + 1 \in A
  <2>1. k + 1 \in 1..n /\ (k + 1) - 1 = k /\ k + 1 \in 0..n BY <1>2, <1>4
  <2>2. f[k + 1] = Append(f[k], s[k + 1]) BY <1>1, <2>1 DEF Grows
  <2>3. u(k + 1) = u(k) \o <<s[k + 1]>>
    <3>1. SubSeq(s, 1, k + 1) = SubSeq(s, 1, (k + 1) - 1) \o <<s[k + 1]>>
      <4>1. 1 \in 1..Len(s) /\ k + 1 \in 1..Len(s) BY <1>2, <2>1
      <4>. QED BY <4>1, SubSeqRecursiveSecond
    <3>. QED BY <2>1, <3>1
  <2>4. f[k] \in Seq(U) /\ s[k + 1] \in U /\ f[k] = u(k) BY <1>2, <1>4, <2>1
  <2>5. Append(f[k], s[k + 1]) = f[k] \o <<s[k + 1]>> BY <2>4, AppendIsConcat
  <2>6. f[k + 1] = u(k + 1) BY <2>2, <2>3, <2>4, <2>5
  <2>. QED BY <2>1, <2>6
<1>5. 0..n \subseteq A
  <2>. HIDE DEF A, n
  <2>. QED BY <1>2, <1>3, <1>4, RangeInduction, 0 \in Nat
<1>6. u(n) = s BY SubSeqFull
<1>7. n \in A BY <1>2, <1>5
<1>. QED BY <1>1, <1>6, <1>7

-----------------------------------------------------------------------------
(* Sums and powers. *)

\* A sum, term by term.
Sums(s, f, n) == s[0] = 0 /\ \A k \in 1..n : s[k] = s[k - 1] + f[k]

LEMMA SumIs ==
  ASSUME NEW n \in Nat, NEW f, \A k \in 1..n : f[k] \in Int
  PROVE  \E s \in [0..n -> Int] :
           Sums(s, f, n) /\ SumTo(f, n) = s[n]
<1>. DEFINE G == [v \in Nat \X Int |-> IF v[1] \in 1..n THEN v[2] + f[v[1]] ELSE v[2]]
            Next(s, k) == s[k - 1] + f[k]
            Is(s) == s = [k \in 0..n |-> IF k = 0 THEN 0 ELSE Next(s, k)]
<1>1. G \in [Nat \X Int -> Int]
  <2>1. ASSUME NEW v \in Nat \X Int
        PROVE  (IF v[1] \in 1..n THEN v[2] + f[v[1]] ELSE v[2]) \in Int
    <3>1. v[2] \in Int /\ (v[1] \in 1..n => f[v[1]] \in Int) OBVIOUS
    <3>. QED BY <3>1
  <2>. QED BY <2>1
<1>2. ASSUME NEW k \in 1..n, NEW a \in Int PROVE G[<<k, a>>] = a + f[k]
  <2>1. <<k, a>> \in Nat \X Int /\ <<k, a>>[1] = k /\ <<k, a>>[2] = a OBVIOUS
  <2>. QED BY <2>1
<1>. HIDE DEF G
<1>3. PICK s \in [0..n -> Int] : Iterated(s, G, 0, 0, n)
  <2>1. 0 \in Nat /\ 0 \in Int OBVIOUS
  <2>. QED BY <1>1, <2>1, Iterates
<1>4. ASSUME NEW k \in 1..n PROVE s[k] = Next(s, k)
  <2>1. k \in 0..n /\ k - 1 \in 0..n /\ k # 0 OBVIOUS
  <2>2. s[k] = G[<<k, s[k - 1]>>] BY <1>3, <2>1 DEF Iterated
  <2>3. s[k - 1] \in Int BY <2>1
  <2>. QED BY <1>2, <2>2, <2>3
<1>5. s[0] = 0
  <2>1. 0 \in 0..n OBVIOUS
  <2>. QED BY <1>3, <2>1 DEF Iterated
<1>. HIDE DEF Next
<1>6. Is(s)
  <2>1. \A k \in 0..n : k = 0 \/ k \in 1..n OBVIOUS
  <2>2. \A k \in 0..n : s[k] = IF k = 0 THEN 0 ELSE Next(s, k) BY <1>4, <1>5, <2>1
  <2>. QED BY <2>2
<1>. DEFINE t == CHOOSE h : Is(h)
<1>7. Is(t)
  <2>1. \E h : Is(h) BY <1>6
  <2>. HIDE DEF Is
  <2>. QED BY <2>1
<1>8. SumTo(f, n) = t[n] BY DEF SumTo, Next
<1>. HIDE DEF t
<1>9. /\ t[0] = 0 /\ \A k \in 1..n : t[k] = Next(t, k)
      /\ DOMAIN t = 0..n
  <2>1. 0 \in 0..n /\ \A k \in 1..n : k \in 0..n /\ k # 0 OBVIOUS
  <2>2. /\ DOMAIN [k \in 0..n |-> IF k = 0 THEN 0 ELSE Next(t, k)] = 0..n
        /\ \A k \in 0..n : [j \in 0..n |-> IF j = 0 THEN 0 ELSE Next(t, j)][k]
                             = IF k = 0 THEN 0 ELSE Next(t, k)
    OBVIOUS
  <2>3. t = [k \in 0..n |-> IF k = 0 THEN 0 ELSE Next(t, k)] BY <1>7
  <2>. HIDE DEF Is
  <2>4. DOMAIN t = 0..n BY <2>2, <2>3
  <2>5. \A k \in 0..n : t[k] = IF k = 0 THEN 0 ELSE Next(t, k) BY <2>2, <2>3
  <2>. QED BY <2>1, <2>4, <2>5
<1>10. \A k \in 0..n : t[k] \in Int
  <2>. DEFINE T == {k \in 0..n : t[k] \in Int}
  <2>1. 0 <= n => 0 \in T BY <1>9
  <2>2. ASSUME NEW k \in 0..n, k < n, k \in T PROVE k + 1 \in T
    <3>1. k + 1 \in 1..n /\ (k + 1) - 1 = k /\ k + 1 \in 0..n BY <2>2
    <3>2. t[k + 1] = t[k] + f[k + 1] /\ f[k + 1] \in Int BY <1>9, <3>1 DEF Next
    <3>. QED BY <2>2, <3>1, <3>2
  <2>. HIDE DEF T
  <2>3. 0..n \subseteq T BY <2>1, <2>2, RangeInduction, 0 \in Nat
  <2>. QED BY <2>3 DEF T
<1>11. t \in [0..n -> Int]
  <2>1. t = [k \in 0..n |-> t[k]] BY <1>7, <1>9
  <2>. QED BY <1>10, <2>1
<1>12. Sums(t, f, n) BY <1>9 DEF Next, Sums
<1>. QED BY <1>8, <1>11, <1>12

\* Sums of the same terms are the same.
LEMMA SameSum ==
  ASSUME NEW n \in Nat, NEW m \in Nat, NEW j \in Nat, j <= n, j <= m,
         NEW f, NEW g,
         \A k \in 1..j : f[k] = g[k],
         NEW s \in [0..n -> Int], Sums(s, f, n), NEW t \in [0..m -> Int], Sums(t, g, m)
  PROVE  s[j] = t[j]
<1>. USE DEF Sums
<1>. DEFINE T == {k \in 0..j : s[k] = t[k]}
<1>1. 0 <= j => 0 \in T OBVIOUS
<1>2. ASSUME NEW k \in 0..j, k < j, k \in T PROVE k + 1 \in T
  <2>1. k + 1 \in 1..n /\ k + 1 \in 1..m /\ k + 1 \in 1..j /\ (k + 1) - 1 = k /\ k + 1 \in 0..j
    BY <1>2
  <2>2. s[k + 1] = s[k] + f[k + 1] /\ t[k + 1] = t[k] + g[k + 1] BY <2>1
  <2>3. f[k + 1] = g[k + 1] /\ s[k] = t[k] BY <1>2, <2>1
  <2>. QED BY <2>1, <2>2, <2>3
<1>. HIDE DEF T
<1>3. 0..j \subseteq T BY <1>1, <1>2, RangeInduction, 0 \in Nat
<1>4. j \in 0..j OBVIOUS
<1>. QED BY <1>3, <1>4 DEF T


\* What a sum is made of.
LEMMA SumType ==
  ASSUME NEW n \in Nat, NEW f, \A k \in 1..n : f[k] \in Int
  PROVE  SumTo(f, n) \in Int
<1>1. n \in 0..n OBVIOUS
<1>. QED BY <1>1, SumIs

LEMMA SumNone ==
  ASSUME NEW f
  PROVE  SumTo(f, 0) = 0
<1>1. 0 \in Nat /\ \A k \in 1..0 : f[k] \in Int OBVIOUS
<1>2. PICK s \in [0..0 -> Int] :
           Sums(s, f, 0) /\ SumTo(f, 0) = s[0] BY <1>1, SumIs
<1>. QED BY <1>2 DEF Sums

LEMMA SumSame ==
  ASSUME NEW n \in Nat, NEW f, NEW g, \A k \in 1..n : f[k] \in Int /\ f[k] = g[k]
  PROVE  SumTo(f, n) = SumTo(g, n)
<1>1. \A k \in 1..n : g[k] \in Int OBVIOUS
<1>2. PICK s \in [0..n -> Int] :
           Sums(s, f, n) /\ SumTo(f, n) = s[n] BY SumIs
<1>3. PICK t \in [0..n -> Int] :
           Sums(t, g, n) /\ SumTo(g, n) = t[n] BY <1>1, SumIs
<1>4. s[n] = t[n]
  <2>1. n <= n /\ \A k \in 1..n : f[k] = g[k] OBVIOUS
  <2>. QED BY ONLY n \in Nat, <1>2, <1>3, <2>1, SameSum
<1>. QED BY <1>2, <1>3, <1>4

LEMMA SumNext ==
  ASSUME NEW n \in Nat, NEW f, \A k \in 1..n + 1 : f[k] \in Int
  PROVE  SumTo(f, n + 1) = SumTo(f, n) + f[n + 1]
<1>1. n + 1 \in Nat /\ \A k \in 1..n : f[k] \in Int OBVIOUS
<1>2. PICK s \in [0..n -> Int] :
           Sums(s, f, n) /\ SumTo(f, n) = s[n] BY <1>1, SumIs
<1>3. PICK t \in [0..n + 1 -> Int] :
           Sums(t, f, n + 1) /\ SumTo(f, n + 1) = t[n + 1] BY <1>1, SumIs
<1>4. s[n] = t[n]
  <2>1. n <= n /\ n <= n + 1 /\ n + 1 \in Nat /\ \A k \in 1..n : f[k] = f[k] OBVIOUS
  <2>. QED BY ONLY n \in Nat, <1>2, <1>3, <2>1, SameSum
<1>5. t[n + 1] = t[(n + 1) - 1] + f[n + 1] /\ (n + 1) - 1 = n
  <2>1. n + 1 \in 1..n + 1 OBVIOUS
  <2>. QED BY <1>3, <2>1 DEF Sums
<1>. QED BY <1>2, <1>3, <1>4, <1>5

\* A sum of differences is a difference.
LEMMA SumTelescopes ==
  ASSUME NEW n \in Nat, NEW f, NEW h, \A k \in 0..n : h[k] \in Int,
         \A k \in 1..n : f[k] = h[k] - h[k - 1]
  PROVE  \A k \in 0..n : SumTo(f, k) = h[k] - h[0]
<1>. DEFINE T == {k \in 0..n : SumTo(f, k) = h[k] - h[0]}
<1>1. 0 <= n => 0 \in T
  <2>1. 0 \in 0..n /\ h[0] \in Int OBVIOUS
  <2>. QED BY <2>1, SumNone
<1>2. ASSUME NEW k \in 0..n, k < n, k \in T PROVE k + 1 \in T
  <2>1. k + 1 \in 1..n /\ (k + 1) - 1 = k /\ k + 1 \in 0..n /\ k \in Nat BY <1>2
  <2>2. \A i \in 1..k + 1 : f[i] \in Int
    <3>1. \A i \in 1..k + 1 : i \in 1..n /\ i \in 0..n /\ i - 1 \in 0..n BY <2>1
    <3>. QED BY <3>1
  <2>3. SumTo(f, k + 1) = SumTo(f, k) + f[k + 1] BY <2>1, <2>2, SumNext
  <2>4. f[k + 1] = h[k + 1] - h[k] /\ SumTo(f, k) = h[k] - h[0] /\ h[0] \in Int /\ h[k] \in Int
        /\ h[k + 1] \in Int
    BY <1>2, <2>1
  <2>. QED BY <2>1, <2>3, <2>4
<1>. HIDE DEF T
<1>3. 0..n \subseteq T BY <1>1, <1>2, RangeInduction, 0 \in Nat
<1>. QED BY <1>3 DEF T

\* A sum of what is nowhere negative grows, and is zero where every term is.
LEMMA SumGrows ==
  ASSUME NEW n \in Nat, NEW f, \A k \in 1..n : f[k] \in Nat
  PROVE  /\ SumTo(f, n) \in Nat
         /\ \A i \in 1..n : f[i] <= SumTo(f, n)
         /\ SumTo(f, n) = 0 <=> \A i \in 1..n : f[i] = 0
<1>. DEFINE P(k) == /\ SumTo(f, k) \in Nat
                    /\ \A i \in 1..k : f[i] <= SumTo(f, k)
                    /\ (\A i \in 1..k : f[i] = 0) => SumTo(f, k) = 0
            T == {k \in 0..n : P(k)}
<1>1. 0 <= n => 0 \in T
  <2>1. 0 \in 0..n OBVIOUS
  <2>. QED BY <2>1, SumNone
<1>2. ASSUME NEW k \in 0..n, k < n, k \in T PROVE k + 1 \in T
  <2>1. k + 1 \in 1..n /\ k + 1 \in 0..n /\ k \in Nat /\ f[k + 1] \in Nat BY <1>2
  <2>2. \A i \in 1..k + 1 : f[i] \in Int BY <2>1
  <2>3. SumTo(f, k + 1) = SumTo(f, k) + f[k + 1] BY <2>1, <2>2, SumNext
  <2>4. P(k) BY <1>2
  <2>5. \A i \in 1..k + 1 : i \in 1..k \/ i = k + 1 BY <2>1
  <2>6. \A i \in 1..k : i \in 1..k + 1 /\ f[i] \in Nat BY <2>1
  <2>7. k + 1 \in 1..k + 1 BY <2>1
  <2>8. SumTo(f, k + 1) \in Nat BY <2>1, <2>3, <2>4
  <2>9. \A i \in 1..k + 1 : f[i] <= SumTo(f, k + 1) BY <2>1, <2>3, <2>4, <2>5, <2>6
  <2>10. (\A i \in 1..k + 1 : f[i] = 0) => SumTo(f, k + 1) = 0 BY <2>3, <2>4, <2>6, <2>7
  <2>. QED BY <2>1, <2>8, <2>9, <2>10
<1>. HIDE DEF T
<1>3. 0..n \subseteq T BY <1>1, <1>2, RangeInduction, 0 \in Nat
<1>4. P(n)
  <2>1. n \in 0..n OBVIOUS
  <2>. QED BY <1>3, <2>1 DEF T
<1>5. SumTo(f, n) = 0 => \A i \in 1..n : f[i] = 0 BY <1>4
<1>. QED BY <1>4, <1>5

\* A power, factor by factor.
Powers(p, b, n) == p[0] = 1 /\ \A k \in 1..n : p[k] = b * p[k - 1]

LEMMA PowerIs ==
  ASSUME NEW n \in Nat, NEW b \in Int
  PROVE  \E p \in [0..n -> Int] : Powers(p, b, n) /\ Power(b, n) = p[n]
<1>. DEFINE G == [v \in Nat \X Int |-> b * v[2]]
            Next(p, k) == b * p[k - 1]
            Is(p) == p = [k \in 0..n |-> IF k = 0 THEN 1 ELSE Next(p, k)]
<1>1. G \in [Nat \X Int -> Int]
  <2>1. ASSUME NEW v \in Nat \X Int PROVE b * v[2] \in Int
    <3>1. v[2] \in Int OBVIOUS
    <3>. QED BY <3>1
  <2>. QED BY <2>1
<1>2. ASSUME NEW k \in 1..n, NEW a \in Int PROVE G[<<k, a>>] = b * a
  <2>1. <<k, a>> \in Nat \X Int /\ <<k, a>>[1] = k /\ <<k, a>>[2] = a OBVIOUS
  <2>. QED BY <2>1
<1>. HIDE DEF G
<1>3. PICK p \in [0..n -> Int] : Iterated(p, G, 1, 0, n)
  <2>1. 0 \in Nat /\ 1 \in Int OBVIOUS
  <2>. QED BY <1>1, <2>1, Iterates
<1>4. ASSUME NEW k \in 1..n PROVE p[k] = Next(p, k)
  <2>1. k \in 0..n /\ k - 1 \in 0..n /\ k # 0 OBVIOUS
  <2>2. p[k] = G[<<k, p[k - 1]>>] BY <1>3, <2>1 DEF Iterated
  <2>3. p[k - 1] \in Int BY <2>1
  <2>. QED BY <1>2, <2>2, <2>3
<1>5. p[0] = 1
  <2>1. 0 \in 0..n OBVIOUS
  <2>. QED BY <1>3, <2>1 DEF Iterated
<1>. HIDE DEF Next
<1>6. Is(p)
  <2>1. \A k \in 0..n : k = 0 \/ k \in 1..n OBVIOUS
  <2>2. \A k \in 0..n : p[k] = IF k = 0 THEN 1 ELSE Next(p, k) BY <1>4, <1>5, <2>1
  <2>. QED BY <2>2
<1>. DEFINE t == CHOOSE h : Is(h)
<1>7. Is(t)
  <2>1. \E h : Is(h) BY <1>6
  <2>. HIDE DEF Is
  <2>. QED BY <2>1
<1>8. Power(b, n) = t[n] BY DEF Power, Next
<1>. HIDE DEF t
<1>9. /\ t[0] = 1 /\ \A k \in 1..n : t[k] = Next(t, k)
      /\ DOMAIN t = 0..n
  <2>1. 0 \in 0..n /\ \A k \in 1..n : k \in 0..n /\ k # 0 OBVIOUS
  <2>2. /\ DOMAIN [k \in 0..n |-> IF k = 0 THEN 1 ELSE Next(t, k)] = 0..n
        /\ \A k \in 0..n : [j \in 0..n |-> IF j = 0 THEN 1 ELSE Next(t, j)][k]
                             = IF k = 0 THEN 1 ELSE Next(t, k)
    OBVIOUS
  <2>3. t = [k \in 0..n |-> IF k = 0 THEN 1 ELSE Next(t, k)] BY <1>7
  <2>. HIDE DEF Is
  <2>4. DOMAIN t = 0..n BY <2>2, <2>3
  <2>5. \A k \in 0..n : t[k] = IF k = 0 THEN 1 ELSE Next(t, k) BY <2>2, <2>3
  <2>. QED BY <2>1, <2>4, <2>5
<1>10. \A k \in 0..n : t[k] \in Int
  <2>. DEFINE T == {k \in 0..n : t[k] \in Int}
  <2>1. 0 <= n => 0 \in T BY <1>9
  <2>2. ASSUME NEW k \in 0..n, k < n, k \in T PROVE k + 1 \in T
    <3>1. k + 1 \in 1..n /\ (k + 1) - 1 = k /\ k + 1 \in 0..n BY <2>2
    <3>2. t[k + 1] = b * t[k] /\ t[k] \in Int BY <1>9, <2>2, <3>1 DEF Next
    <3>. QED BY <3>1, <3>2
  <2>. HIDE DEF T
  <2>3. 0..n \subseteq T BY <2>1, <2>2, RangeInduction, 0 \in Nat
  <2>. QED BY <2>3 DEF T
<1>11. t \in [0..n -> Int]
  <2>1. t = [k \in 0..n |-> t[k]] BY <1>7, <1>9
  <2>. QED BY <1>10, <2>1
<1>12. Powers(t, b, n) BY <1>9 DEF Next, Powers
<1>. QED BY <1>8, <1>11, <1>12

LEMMA PowerType ==
  ASSUME NEW n \in Nat, NEW b \in Int
  PROVE  Power(b, n) \in Int
<1>1. n \in 0..n OBVIOUS
<1>. QED BY <1>1, PowerIs

LEMMA PowerNone ==
  ASSUME NEW b \in Int
  PROVE  Power(b, 0) = 1
<1>1. 0 \in Nat OBVIOUS
<1>2. PICK p \in [0..0 -> Int] : Powers(p, b, 0) /\ Power(b, 0) = p[0] BY <1>1, PowerIs
<1>. QED BY <1>2 DEF Powers

LEMMA PowerNext ==
  ASSUME NEW n \in Nat, NEW b \in Int
  PROVE  Power(b, n + 1) = b * Power(b, n)
<1>1. n + 1 \in Nat OBVIOUS
<1>2. PICK p \in [0..n -> Int] : Powers(p, b, n) /\ Power(b, n) = p[n] BY PowerIs
<1>3. PICK q \in [0..n + 1 -> Int] : Powers(q, b, n + 1) /\ Power(b, n + 1) = q[n + 1]
  BY <1>1, PowerIs
<1>4. p[n] = q[n]
  <2>. DEFINE T == {k \in 0..n : p[k] = q[k]}
  <2>1. 0 <= n => 0 \in T BY <1>2, <1>3 DEF Powers
  <2>2. ASSUME NEW k \in 0..n, k < n, k \in T PROVE k + 1 \in T
    <3>1. k + 1 \in 1..n /\ k + 1 \in 1..n + 1 /\ (k + 1) - 1 = k /\ k + 1 \in 0..n BY <2>2
    <3>2. p[k + 1] = b * p[k] /\ q[k + 1] = b * q[k] BY <1>2, <1>3, <3>1 DEF Powers
    <3>. QED BY <2>2, <3>1, <3>2
  <2>. HIDE DEF T
  <2>3. 0..n \subseteq T BY <2>1, <2>2, RangeInduction, 0 \in Nat
  <2>4. n \in 0..n OBVIOUS
  <2>. QED BY <2>3, <2>4 DEF T
<1>5. q[n + 1] = b * q[(n + 1) - 1] /\ (n + 1) - 1 = n
  <2>1. n + 1 \in 1..n + 1 OBVIOUS
  <2>. QED BY <1>3, <2>1 DEF Powers
<1>. QED BY <1>2, <1>3, <1>4, <1>5

LEMMA PowerSum ==
  ASSUME NEW b \in Int, NEW m \in Nat, NEW n \in Nat
  PROVE  Power(b, m + n) = Power(b, m) * Power(b, n)
<1>. DEFINE T == {k \in Nat : Power(b, m + k) = Power(b, m) * Power(b, k)}
<1>1. 0 \in T
  <2>1. m + 0 = m /\ Power(b, m) \in Int /\ Power(b, 0) = 1 BY PowerType, PowerNone
  <2>. QED BY <2>1
<1>2. ASSUME NEW k \in Nat, k \in T PROVE k + 1 \in T
  <2>1. m + k \in Nat /\ m + (k + 1) = (m + k) + 1 OBVIOUS
  <2>2. Power(b, m + (k + 1)) = b * Power(b, m + k) BY <2>1, PowerNext
  <2>3. Power(b, k + 1) = b * Power(b, k) BY PowerNext
  <2>4. Power(b, m) \in Int /\ Power(b, k) \in Int BY PowerType
  <2>5. Power(b, m + k) = Power(b, m) * Power(b, k) BY <1>2
  <2>. HIDE DEF T
  <2>6. \A x, y \in Int : b * (x * y) = x * (b * y) OBVIOUS
  <2>7. Power(b, m + (k + 1)) = Power(b, m) * Power(b, k + 1) BY <2>2, <2>3, <2>4, <2>5, <2>6
  <2>. QED BY <2>7 DEF T
<1>. HIDE DEF T
<1>3. Nat \subseteq T BY <1>1, <1>2, SetInduction
<1>. QED BY <1>3 DEF T

\* What divides is divided.
LEMMA ExactDivision ==
  ASSUME NEW d \in Nat \ {0}, NEW q \in Int
  PROVE  (d * q) \div d = q
<1>. DEFINE a == d * q
            p == a \div d
            r == a % d
<1>1. a \in Int /\ p \in Int /\ r \in 0..d - 1 /\ a = d * p + r OBVIOUS
<1>2. r = 0
  <2>1. a = d * q + 0 /\ 0 \in 0..d - 1 OBVIOUS
  <2>2. (d * q + 0) % d = 0 BY <2>1, Remainder
  <2>3. d * q + 0 = a OBVIOUS
  <2>. QED BY <2>2, <2>3
<1>. HIDE DEF p, r
<1>3. d * p = d * q BY <1>1, <1>2
<1>4. p = q
  <2>1. \A x, y \in Int : x < y => d * x < d * y OBVIOUS
  <2>2. d * p \in Int /\ d * q \in Int BY <1>1
  <2>3. ~(p < q) /\ ~(q < p) BY <1>1, <1>3, <2>1, <2>2
  <2>. QED BY <1>1, <2>3
<1>. QED BY <1>4 DEF p

\* The first of the lowest values of a function of a range.
LEMMA FirstLowest ==
  ASSUME NEW m \in Nat, NEW n \in Nat, m <= n, NEW f, \A k \in m..n : f[k] \in Int
  PROVE  \E j \in m..n : /\ \A k \in m..n : f[j] <= f[k]
                         /\ \A k \in m..j - 1 : f[j] < f[k]
<1>. DEFINE Is(j, l) == /\ \A k \in m..l : f[j] <= f[k]
                        /\ \A k \in m..j - 1 : f[j] < f[k]
            T == {l \in m..n : \E j \in m..l : Is(j, l)}
<1>1. m <= n => m \in T
  <2>1. m \in m..m /\ m \in m..n /\ (\A k \in m..m : k = m) /\ f[m] \in Int
        /\ \A k \in m..m - 1 : FALSE
    OBVIOUS
  <2>2. Is(m, m) BY <2>1
  <2>. QED BY <2>1, <2>2
<1>2. ASSUME NEW l \in m..n, l < n, l \in T PROVE l + 1 \in T
  <2>1. PICK j \in m..l : Is(j, l) BY <1>2
  <2>2. l \in Nat /\ j \in Nat /\ l + 1 \in m..n /\ f[l + 1] \in Int /\ j \in m..n /\ f[j] \in Int
        /\ j \in m..l + 1 /\ l + 1 \in m..l + 1
    BY <1>2
  <2>3. \A k \in m..l + 1 : k \in m..l \/ k = l + 1 BY <2>2
  <2>4. CASE f[j] <= f[l + 1]
    <3>1. Is(j, l + 1) BY <2>1, <2>3, <2>4
    <3>. QED BY <2>2, <3>1
  <2>5. CASE f[l + 1] < f[j]
    <3>1. \A k \in m..l : f[k] \in Int BY <2>2
    <3>2. \A k \in m..l : f[l + 1] < f[k] BY <2>1, <2>2, <2>5, <3>1
    <3>3. \A k \in m..(l + 1) - 1 : k \in m..l BY <2>2
    <3>4. Is(l + 1, l + 1) BY <2>2, <2>3, <3>1, <3>2, <3>3
    <3>. QED BY <2>2, <3>4
  <2>. QED BY <2>2, <2>4, <2>5
<1>. HIDE DEF T
<1>3. m..n \subseteq T BY <1>1, <1>2, RangeInduction
<1>4. n \in m..n OBVIOUS
<1>. QED BY <1>3, <1>4 DEF T

-----------------------------------------------------------------------------
(* Congruence. *)

\* The same modulo p.
Alike(p, a, b) == \E k \in Int : a = b + p * k

LEMMA AlikeSame ==
  ASSUME NEW p \in Nat \ {0}, NEW a \in Int
  PROVE  Alike(p, a, a)
<1>1. a = a + p * 0 /\ 0 \in Int OBVIOUS
<1>. QED BY <1>1 DEF Alike

LEMMA AlikeBack ==
  ASSUME NEW p \in Nat \ {0}, NEW a \in Int, NEW b \in Int, Alike(p, a, b)
  PROVE  Alike(p, b, a)
<1>1. PICK k \in Int : a = b + p * k BY DEF Alike
<1>2. b = a + p * (-k) /\ -k \in Int BY <1>1
<1>. QED BY <1>2 DEF Alike

LEMMA AlikeChain ==
  ASSUME NEW p \in Nat \ {0}, NEW a \in Int, NEW b \in Int, NEW c \in Int,
         Alike(p, a, b), Alike(p, b, c)
  PROVE  Alike(p, a, c)
<1>1. PICK k \in Int : a = b + p * k BY DEF Alike
<1>2. PICK l \in Int : b = c + p * l BY DEF Alike
<1>3. p * k \in Int /\ p * l \in Int /\ p * (k + l) = p * k + p * l OBVIOUS
<1>4. a = c + p * (k + l) /\ k + l \in Int BY <1>1, <1>2, <1>3
<1>. QED BY <1>4 DEF Alike

LEMMA AlikeSum ==
  ASSUME NEW p \in Nat \ {0}, NEW a \in Int, NEW b \in Int, NEW c \in Int, NEW d \in Int,
         Alike(p, a, b), Alike(p, c, d)
  PROVE  Alike(p, a + c, b + d) /\ Alike(p, a - c, b - d)
<1>1. PICK k \in Int : a = b + p * k BY DEF Alike
<1>2. PICK l \in Int : c = d + p * l BY DEF Alike
<1>3. /\ p * k \in Int /\ p * l \in Int /\ p * (k + l) = p * k + p * l
      /\ p * (k - l) = p * k - p * l
  OBVIOUS
<1>4. a + c = (b + d) + p * (k + l) /\ k + l \in Int BY <1>1, <1>2, <1>3
<1>5. a - c = (b - d) + p * (k - l) /\ k - l \in Int BY <1>1, <1>2, <1>3
<1>. QED BY <1>4, <1>5 DEF Alike

LEMMA AlikeProduct ==
  ASSUME NEW p \in Nat \ {0}, NEW a \in Int, NEW b \in Int, NEW c \in Int, NEW d \in Int,
         Alike(p, a, b), Alike(p, c, d)
  PROVE  Alike(p, a * c, b * d)
<1>1. PICK k \in Int : a = b + p * k BY DEF Alike
<1>2. PICK l \in Int : c = d + p * l BY DEF Alike
<1>3. (b + p * k) * (d + p * l) = b * d + p * (k * d + b * l + p * (k * l)) OBVIOUS
<1>4. k * d + b * l + p * (k * l) \in Int OBVIOUS
<1>5. a * c = b * d + p * (k * d + b * l + p * (k * l)) BY <1>1, <1>2, <1>3
<1>. QED BY <1>4, <1>5 DEF Alike

LEMMA AlikeRemainder ==
  ASSUME NEW p \in Nat \ {0}, NEW a \in Int
  PROVE  a % p \in 0..p - 1 /\ Alike(p, a % p, a) /\ Alike(p, a, a % p)
<1>1. a % p \in 0..p - 1 /\ a \div p \in Int /\ a = p * (a \div p) + (a % p) OBVIOUS
<1>2. a = (a % p) + p * (a \div p) BY <1>1
<1>3. Alike(p, a, a % p) BY <1>1, <1>2 DEF Alike
<1>4. a % p \in Int BY <1>1
<1>. QED BY <1>1, <1>3, <1>4, AlikeBack

LEMMA RemaindersAgree ==
  ASSUME NEW p \in Nat \ {0}, NEW a \in Int, NEW b \in Int, Alike(p, a, b)
  PROVE  a % p = b % p
<1>1. PICK k \in Int : a = b + p * k BY DEF Alike
<1>2. b % p \in 0..p - 1 /\ b \div p \in Int /\ b = p * (b \div p) + (b % p) OBVIOUS
<1>. DEFINE q == b \div p
            r == b % p
<1>. HIDE DEF q, r
<1>3. q \in Int /\ r \in 0..p - 1 /\ b = p * q + r BY <1>2 DEF q, r
<1>4. p * (q + k) = p * q + p * k /\ p * q \in Int /\ p * k \in Int BY <1>3
<1>5. a = p * (q + k) + r /\ q + k \in Int BY <1>1, <1>3, <1>4
<1>6. (p * (q + k) + r) % p = r BY <1>3, <1>5, Remainder
<1>. QED BY <1>5, <1>6 DEF r

\* Terms that agree up to a factor add up to sums that do.
LEMMA AlikeSums ==
  ASSUME NEW p \in Nat \ {0}, NEW n \in Nat, NEW c \in Int, NEW f, NEW g,
         \A k \in 1..n : f[k] \in Int /\ g[k] \in Int /\ Alike(p, f[k], c * g[k])
  PROVE  Alike(p, SumTo(f, n), c * SumTo(g, n))
<1>. DEFINE T == {k \in 0..n : Alike(p, SumTo(f, k), c * SumTo(g, k))}
<1>1. 0 <= n => 0 \in T
  <2>1. SumTo(f, 0) = 0 /\ SumTo(g, 0) = 0 /\ c * 0 = 0 BY SumNone
  <2>2. Alike(p, 0, 0) BY AlikeSame
  <2>. QED BY <2>1, <2>2
<1>2. ASSUME NEW k \in 0..n, k < n, k \in T PROVE k + 1 \in T
  <2>1. /\ k \in Nat /\ k + 1 \in 1..n /\ k + 1 \in 0..n
        /\ \A i \in 1..k + 1 : i \in 1..n
        /\ \A i \in 1..k : i \in 1..n
    BY <1>2
  <2>2. SumTo(f, k + 1) = SumTo(f, k) + f[k + 1] /\ SumTo(g, k + 1) = SumTo(g, k) + g[k + 1]
    BY <2>1, SumNext
  <2>3. SumTo(f, k) \in Int /\ SumTo(g, k) \in Int BY <2>1, SumType
  <2>4. f[k + 1] \in Int /\ g[k + 1] \in Int /\ Alike(p, f[k + 1], c * g[k + 1]) BY <2>1
  <2>5. Alike(p, SumTo(f, k), c * SumTo(g, k)) BY <1>2
  <2>6. \A x, y \in Int : c * x \in Int /\ c * (x + y) = c * x + c * y OBVIOUS
  <2>7. c * SumTo(g, k) \in Int /\ c * g[k + 1] \in Int BY <2>3, <2>4, <2>6
  <2>. HIDE DEF T
  <2>8. Alike(p, SumTo(f, k) + f[k + 1], c * SumTo(g, k) + c * g[k + 1])
    BY <2>3, <2>4, <2>5, <2>7, AlikeSum
  <2>9. c * SumTo(g, k + 1) = c * SumTo(g, k) + c * g[k + 1] BY <2>2, <2>3, <2>4, <2>6
  <2>. QED BY <2>1, <2>2, <2>8, <2>9 DEF T
<1>. HIDE DEF T
<1>3. 0..n \subseteq T BY <1>1, <1>2, RangeInduction, 0 \in Nat
<1>4. n \in 0..n OBVIOUS
<1>. QED BY <1>3, <1>4 DEF T

\* A sum of pairs, by its odd and its even terms.
LEMMA SumPairs ==
  ASSUME NEW w \in Nat, NEW f, \A k \in 1..2 * w : f[k] \in Int
  PROVE  SumTo(f, 2 * w) = SumTo([n \in 1..w |-> f[2 * n - 1]], w)
                             + SumTo([n \in 1..w |-> f[2 * n]], w)
<1>. DEFINE E == [n \in 1..w |-> f[2 * n - 1]]
            O == [n \in 1..w |-> f[2 * n]]
            T == {k \in 0..w : SumTo(f, 2 * k) = SumTo(E, k) + SumTo(O, k)}
<1>0. \A n \in 1..w : E[n] = f[2 * n - 1] /\ O[n] = f[2 * n] /\ E[n] \in Int /\ O[n] \in Int
  <2>1. \A n \in 1..w : 2 * n - 1 \in 1..2 * w /\ 2 * n \in 1..2 * w OBVIOUS
  <2>. QED BY <2>1
<1>. HIDE DEF E, O
<1>1. 0 <= w => 0 \in T
  <2>1. SumTo(f, 0) = 0 /\ SumTo(E, 0) = 0 /\ SumTo(O, 0) = 0 /\ 2 * 0 = 0 BY SumNone
  <2>. QED BY <2>1
<1>2. ASSUME NEW k \in 0..w, k < w, k \in T PROVE k + 1 \in T
  <2>1. /\ k \in Nat /\ k + 1 \in 1..w /\ k + 1 \in 0..w /\ 2 * k \in Nat /\ 2 * k + 1 \in Nat
        /\ 2 * (k + 1) = (2 * k + 1) + 1 /\ 2 * (k + 1) - 1 = 2 * k + 1
        /\ \A i \in 1..k + 1 : i \in 1..w
        /\ \A i \in 1..k : i \in 1..w
        /\ \A i \in 1..(2 * k + 1) + 1 : i \in 1..2 * w
        /\ \A i \in 1..2 * k + 1 : i \in 1..2 * w
        /\ \A i \in 1..2 * k : i \in 1..2 * w
    BY <1>2
  <2>2. SumTo(E, k + 1) = SumTo(E, k) + E[k + 1] /\ SumTo(O, k + 1) = SumTo(O, k) + O[k + 1]
    BY <1>0, <2>1, SumNext
  <2>3. SumTo(f, (2 * k + 1) + 1) = SumTo(f, 2 * k + 1) + f[(2 * k + 1) + 1]
    BY <2>1, SumNext
  <2>4. SumTo(f, 2 * k + 1) = SumTo(f, 2 * k) + f[2 * k + 1] BY <2>1, SumNext
  <2>5. SumTo(E, k) \in Int /\ SumTo(O, k) \in Int BY <1>0, <2>1, SumType
  <2>6. E[k + 1] = f[2 * k + 1] /\ O[k + 1] = f[(2 * k + 1) + 1] /\ E[k + 1] \in Int
        /\ O[k + 1] \in Int
    BY <1>0, <2>1
  <2>7. SumTo(f, 2 * k) = SumTo(E, k) + SumTo(O, k) BY <1>2
  <2>. HIDE DEF T
  <2>8. SumTo(f, (2 * k + 1) + 1) = SumTo(E, k + 1) + SumTo(O, k + 1)
    BY <2>2, <2>3, <2>4, <2>5, <2>6, <2>7
  <2>. QED BY <2>1, <2>8 DEF T
<1>. HIDE DEF T
<1>3. 0..w \subseteq T BY <1>1, <1>2, RangeInduction, 0 \in Nat
<1>4. w \in 0..w OBVIOUS
<1>. QED BY <1>3, <1>4 DEF T, E, O

\* A power that is one stays one.
LEMMA RoundTurns ==
  ASSUME NEW p \in Nat \ {0}, NEW b \in Int, NEW n \in Nat, Alike(p, Power(b, n), 1)
  PROVE  \A z \in Nat : Alike(p, Power(b, n * z), 1)
<1>. DEFINE T == {z \in Nat : Alike(p, Power(b, n * z), 1)}
<1>1. 0 \in T
  <2>1. n * 0 = 0 /\ Power(b, 0) = 1 BY PowerNone
  <2>2. Alike(p, 1, 1) BY AlikeSame
  <2>. QED BY <2>1, <2>2
<1>2. ASSUME NEW z \in Nat, z \in T PROVE z + 1 \in T
  <2>1. n * z \in Nat /\ n * (z + 1) = n * z + n OBVIOUS
  <2>2. Power(b, n * z + n) = Power(b, n * z) * Power(b, n) BY <2>1, PowerSum
  <2>3. Power(b, n * z) \in Int /\ Power(b, n) \in Int BY <2>1, PowerType
  <2>4. Alike(p, Power(b, n * z), 1) BY <1>2
  <2>. HIDE DEF T
  <2>5. Alike(p, Power(b, n * z) * Power(b, n), 1 * 1) BY <2>3, <2>4, AlikeProduct
  <2>6. z + 1 \in Nat /\ 1 * 1 = 1 OBVIOUS
  <2>. QED BY <2>1, <2>2, <2>5, <2>6 DEF T
<1>. HIDE DEF T
<1>3. Nat \subseteq T BY <1>1, <1>2, SetInduction
<1>. QED BY <1>3 DEF T
=============================================================================
