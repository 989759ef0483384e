------------------------------- MODULE Basics --------------------------------
(***************************************************************************)
(* Facts about numbers, sums, finite sets and queues that proofs need.     *)
(***************************************************************************)
EXTENDS Integers, FiniteSets, Sequences, Sums, FiniteSetTheorems, SequenceTheorems, TLAPS

-----------------------------------------------------------------------------
(* Numbers.                                                                *)

(* A nonempty set of natural numbers has a least member.  Citing this for  *)
(* the set of counterexamples is how induction is done here.               *)
LEMMA LeastNumber ==
  ASSUME NEW T, T \subseteq Nat, T # {}
  PROVE  \E x \in T : \A y \in T : x <= y
<1>1. PICK x \in T : \A y \in T : <<y, x>> \notin OpToRel(<, Nat)
  BY NatLessThanWellFounded, WFMin, Zenon
<1>2. \A y \in T : ~ (y < x)
  BY <1>1 DEF OpToRel
<1>. QED BY <1>2

(* A nonempty set of integers with an upper bound has a greatest member.   *)
LEMMA GreatestNumber ==
  ASSUME NEW T, T \subseteq Int, T # {}, NEW n \in Int, \A y \in T : y <= n
  PROVE  \E x \in T : \A y \in T : y <= x
<1>. DEFINE below == {n - y : y \in T}
<1>1. below \subseteq Nat /\ below # {}
  <2>1. \A y \in T : y \in Int /\ n - y \in Nat
    OBVIOUS
  <2>. QED BY <2>1
<1>2. PICK d \in below : \A e \in below : d <= e
  BY <1>1, LeastNumber
<1>3. PICK x \in T : d = n - x
  OBVIOUS
<1>4. ASSUME NEW y \in T
      PROVE  y <= x
  <2>1. n - x <= n - y
    BY <1>2, <1>3
  <2>2. x \in Int /\ y \in Int
    OBVIOUS
  <2>. QED BY <2>1, <2>2
<1>. QED BY <1>4

(* Induction from a number up to another: what holds of the first one, and *)
(* of the next one whenever it holds of one, holds of all.                 *)
LEMMA RangeInduction ==
  ASSUME NEW a \in Int, NEW b \in Int, NEW S,
         a \in S, \A n \in a .. b - 1 : n \in S => n + 1 \in S
  PROVE  \A n \in a .. b : n \in S
<1>. DEFINE fails == {d \in Nat : a + d <= b /\ a + d \notin S}
<1>1. SUFFICES ASSUME fails # {}
               PROVE  FALSE
  <2>1. ASSUME NEW n \in a .. b, n \notin S
        PROVE  n - a \in fails
    BY <2>1
  <2>. QED BY <2>1
<1>2. PICK d \in fails : \A e \in fails : d <= e
  <2>1. fails \subseteq Nat
    OBVIOUS
  <2>. QED BY <1>1, <2>1, LeastNumber
<1>3. d # 0
  BY <1>2
<1>4. d - 1 \in Nat /\ d - 1 \notin fails
  BY <1>2, <1>3
<1>5. a + (d - 1) \in a .. b - 1 /\ a + (d - 1) \in S
  BY <1>2, <1>4
<1>6. (a + (d - 1)) + 1 \in S
  BY <1>5
<1>. QED BY <1>2, <1>6

(* The quotient and the remainder of a division.                           *)
LEMMA Division ==
  ASSUME NEW a \in Nat, NEW n \in Nat \ {0}
  PROVE  /\ a \div n \in Nat /\ (a \div n) * n <= a /\ a < (a \div n) * n + n
         /\ a % n \in 0 .. n - 1 /\ a = (a \div n) * n + (a % n)
<1>1. a \div n \in Nat /\ (a \div n) * n <= a /\ a < (a \div n) * n + n
  OBVIOUS
<1>2. a % n \in 0 .. n - 1 /\ a = n * (a \div n) + (a % n)
  OBVIOUS
<1>. QED BY <1>1, <1>2

(* A number is divided as soon as a quotient is found.                     *)
LEMMA DivisionIs ==
  ASSUME NEW q \in Nat, NEW r \in Nat, NEW n \in Nat \ {0}, r < n
  PROVE  (q * n + r) \div n = q /\ (q * n + r) % n = r
OBVIOUS

(* Multiples of a length, one after the other.                             *)
LEMMA Multiples ==
  ASSUME NEW a \in Nat, NEW b \in Nat, NEW n \in Nat
  PROVE  /\ a * n \in Nat /\ (a + 1) * n = a * n + n /\ n * a = a * n
         /\ a < b => a * n + n <= b * n
OBVIOUS

(* The image of a finite set is finite, and no larger.                     *)
LEMMA ImageFinite ==
  ASSUME NEW S, IsFiniteSet(S), NEW f, f = [x \in S |-> f[x]]
  PROVE  /\ IsFiniteSet({f[x] : x \in S})
         /\ Cardinality({f[x] : x \in S}) <= Cardinality(S)
<1>1. f \in Surjection(S, {f[x] : x \in S})
  BY DEF Surjection
<1>. QED BY <1>1, FS_Surjection

-----------------------------------------------------------------------------
(* Sums.                                                                   *)

(* The recursion has a solution: there is one up to each k, as the one up  *)
(* to k - 1 can be continued.                                              *)
LEMMA PartialSumsStep ==
  ASSUME NEW lens \in Seq(Nat)
  PROVE  PartialSums(lens) =
           [k \in 0 .. Len(lens) |-> IF k = 0 THEN 0 ELSE PartialSums(lens)[k - 1] + lens[k]]
<1>. DEFINE Solves(f, n) ==
       f \in [0 .. n -> Nat] /\ f[0] = 0 /\ \A k \in 1 .. n : f[k] = f[k - 1] + lens[k]
            solved == {n \in Nat : \E f : Solves(f, n)}
<1>1. 0 \in solved
  <2>1. Solves([k \in 0 .. 0 |-> 0], 0)
    OBVIOUS
  <2>. HIDE DEF Solves
  <2>. QED BY <2>1
<1>2. ASSUME NEW n \in 0 .. Len(lens) - 1, n \in solved
      PROVE  n + 1 \in solved
  <2>1. PICK f : Solves(f, n)
    BY <1>2
  <2>. DEFINE g == [k \in 0 .. n + 1 |-> IF k = n + 1 THEN f[n] + lens[n + 1] ELSE f[k]]
  <2>2. n \in Nat /\ n + 1 \in 1 .. Len(lens) /\ f[n] \in Nat /\ lens[n + 1] \in Nat
    BY <2>1
  <2>3. g \in [0 .. n + 1 -> Nat] /\ g[0] = 0
    BY <2>1, <2>2
  <2>4. \A k \in 1 .. n : g[k] = g[k - 1] + lens[k]
    BY <2>1, <2>2
  <2>5. g[n + 1] = g[(n + 1) - 1] + lens[n + 1]
    BY <2>2
  <2>6. \A k \in 1 .. n + 1 : k \in 1 .. n \/ k = n + 1
    BY <2>2
  <2>. HIDE DEF g
  <2>7. \A k \in 1 .. n + 1 : g[k] = g[k - 1] + lens[k]
    BY <2>4, <2>5, <2>6
  <2>8. Solves(g, n + 1)
    BY <2>3, <2>7
  <2>. HIDE DEF Solves
  <2>. QED BY <2>2, <2>8
<1>3. \A n \in 0 .. Len(lens) : n \in solved
  <2>1. 0 \in Int /\ Len(lens) \in Int
    OBVIOUS
  <2>. HIDE DEF solved
  <2>. QED BY <1>1, <1>2, <2>1, RangeInduction
<1>4. PICK f : Solves(f, Len(lens))
  BY <1>3
<1>5. \A k \in 0 .. Len(lens) : f[k] = IF k = 0 THEN 0 ELSE f[k - 1] + lens[k]
  BY <1>4
<1>6. f = [k \in 0 .. Len(lens) |-> IF k = 0 THEN 0 ELSE f[k - 1] + lens[k]]
  <2>1. f = [k \in 0 .. Len(lens) |-> f[k]]
    BY <1>4
  <2>. QED BY <1>5, <2>1, Zenon
<1>. QED BY <1>6, Zenon DEF PartialSums

(* Each sum is the one before it and one more number.                      *)
LEMMA PartialSumsDef ==
  ASSUME NEW lens \in Seq(Nat)
  PROVE  /\ PartialSums(lens) \in [0 .. Len(lens) -> Nat] /\ PartialSums(lens)[0] = 0
         /\ \A k \in 1 .. Len(lens) : PartialSums(lens)[k] = PartialSums(lens)[k - 1] + lens[k]
<1>. DEFINE sum == PartialSums(lens)
            natural == {k \in 0 .. Len(lens) : sum[k] \in Nat}
<1>1. sum = [k \in 0 .. Len(lens) |-> IF k = 0 THEN 0 ELSE sum[k - 1] + lens[k]]
  BY PartialSumsStep
<1>. HIDE DEF sum
<1>2. 0 \in natural
  BY <1>1
<1>3. ASSUME NEW n \in 0 .. Len(lens) - 1, n \in natural
      PROVE  n + 1 \in natural
  <2>1. n + 1 \in 1 .. Len(lens) /\ lens[n + 1] \in Nat /\ sum[n] \in Nat
    BY <1>3
  <2>2. sum[n + 1] = sum[n] + lens[n + 1]
    BY <1>1, <2>1
  <2>. QED BY <2>1, <2>2
<1>4. \A k \in 0 .. Len(lens) : k \in natural
  <2>1. 0 \in Int /\ Len(lens) \in Int
    OBVIOUS
  <2>. HIDE DEF natural
  <2>. QED BY <2>1, <1>2, <1>3, RangeInduction
<1>5. sum \in [0 .. Len(lens) -> Nat]
  BY <1>1, <1>4
<1>6. sum[0] = 0 /\ \A k \in 1 .. Len(lens) : sum[k] = sum[k - 1] + lens[k]
  BY SMTT(30), <1>1
<1>. QED BY <1>5, <1>6 DEF sum

(* A function that no step decreases.                                     *)
LEMMA NeverDecreasing ==
  ASSUME NEW n \in Nat, NEW f \in [0 .. n -> Int], \A k \in 1 .. n : f[k - 1] <= f[k],
         NEW i \in 0 .. n, NEW j \in i .. n
  PROVE  f[i] <= f[j]
<1>. DEFINE above == {k \in i .. n : f[i] <= f[k]}
<1>1. i \in Int /\ n \in Int /\ f[i] \in Int /\ i \in i .. n
  OBVIOUS
<1>2. i \in above
  BY <1>1
<1>3. ASSUME NEW k \in i .. n - 1, k \in above
      PROVE  k + 1 \in above
  <2>1. k + 1 \in 1 .. n /\ k \in 0 .. n /\ f[k + 1] \in Int /\ f[k] \in Int /\ f[i] \in Int
    OBVIOUS
  <2>2. f[(k + 1) - 1] <= f[k + 1]
    BY <2>1
  <2>3. f[k] <= f[k + 1]
    BY <2>2
  <2>4. k + 1 \in i .. n
    BY <2>1
  <2>. QED BY <1>3, <2>1, <2>3, <2>4
<1>4. \A k \in i .. n : k \in above
  <2>. HIDE DEF above
  <2>. QED BY <1>1, <1>2, <1>3, RangeInduction
<1>. QED BY <1>4

(* Sums never decrease.                                                    *)
LEMMA PartialSumsGrow ==
  ASSUME NEW lens \in Seq(Nat), NEW i \in 0 .. Len(lens), NEW j \in i .. Len(lens)
  PROVE  PartialSums(lens)[i] <= PartialSums(lens)[j]
<1>. DEFINE sum == PartialSums(lens)
<1>1. sum \in [0 .. Len(lens) -> Nat] /\ \A k \in 1 .. Len(lens) : sum[k] = sum[k - 1] + lens[k]
  BY PartialSumsDef
<1>. HIDE DEF sum
<1>2. ASSUME NEW k \in 1 .. Len(lens)
      PROVE  sum[k - 1] <= sum[k]
  <2>1. lens[k] \in Nat /\ k - 1 \in 0 .. Len(lens)
    OBVIOUS
  <2>2. sum[k - 1] \in Nat
    BY <1>1, <2>1
  <2>. QED BY <1>1, <2>1, <2>2
<1>3. sum \in [0 .. Len(lens) -> Int] /\ Len(lens) \in Nat
  BY <1>1
<1>4. sum[i] <= sum[j]
  BY <1>2, <1>3, NeverDecreasing
<1>. QED BY <1>4 DEF sum

-----------------------------------------------------------------------------
(* Queues.                                                                 *)

(* A sequence over a set is one over every larger set.                     *)
LEMMA SeqMonotone ==
  ASSUME NEW S, NEW T, S \subseteq T, NEW q \in Seq(S)
  PROVE  q \in Seq(T)
OBVIOUS

(* Taking off and adding at the end of a queue keep it a queue.            *)
LEMMA SeqTail ==
  ASSUME NEW S, NEW q \in Seq(S), q # <<>>
  PROVE  Head(q) \in S /\ Tail(q) \in Seq(S)
OBVIOUS

(* Adding an element of the set at the end keeps the sequence over it.     *)
LEMMA SeqAppend ==
  ASSUME NEW S, NEW q \in Seq(S), NEW e \in S
  PROVE  Append(q, e) \in Seq(S)
OBVIOUS

(* A function on the first numbers is a sequence of its values.            *)
LEMMA FunctionSeq ==
  ASSUME NEW S, NEW n \in Nat, NEW f, f = [k \in 1 .. n |-> f[k]], \A k \in 1 .. n : f[k] \in S
  PROVE  f \in Seq(S) /\ Len(f) = n
OBVIOUS

(* Where the bytes of four parts are when they are put together.           *)
LEMMA FourParts ==
  ASSUME NEW S, NEW a \in Seq(S), NEW b \in Seq(S), NEW c \in Seq(S), NEW d \in Seq(S),
         NEW abcd, abcd = a \o b \o c \o d
  PROVE  /\ abcd \in Seq(S) /\ Len(abcd) = Len(a) + Len(b) + Len(c) + Len(d)
         /\ \A k \in 1 .. Len(a) : abcd[k] = a[k]
         /\ \A k \in 1 .. Len(b) : abcd[Len(a) + k] = b[k]
         /\ \A k \in 1 .. Len(c) : abcd[Len(a) + Len(b) + k] = c[k]
         /\ \A k \in 1 .. Len(d) : abcd[Len(a) + Len(b) + Len(c) + k] = d[k]
<1>1. ASSUME NEW p \in Seq(S), NEW q \in Seq(S)
      PROVE  /\ p \o q \in Seq(S) /\ Len(p) \in Nat /\ Len(p \o q) = Len(p) + Len(q)
             /\ \A k \in 1 .. Len(p) : (p \o q)[k] = p[k]
             /\ \A k \in 1 .. Len(q) : (p \o q)[Len(p) + k] = q[k]
  OBVIOUS
<1>. DEFINE ab == a \o b
            abc == ab \o c
<1>2. /\ ab \in Seq(S) /\ Len(ab) = Len(a) + Len(b)
      /\ \A k \in 1 .. Len(a) : ab[k] = a[k]
      /\ \A k \in 1 .. Len(b) : ab[Len(a) + k] = b[k]
  BY <1>1
<1>. HIDE DEF ab
<1>3. /\ abc \in Seq(S) /\ Len(abc) = Len(ab) + Len(c)
      /\ \A k \in 1 .. Len(ab) : abc[k] = ab[k]
      /\ \A k \in 1 .. Len(c) : abc[Len(ab) + k] = c[k]
  BY <1>1, <1>2
<1>. HIDE DEF abc
<1>4. /\ abcd \in Seq(S) /\ Len(abcd) = Len(abc) + Len(d)
      /\ \A k \in 1 .. Len(abc) : abcd[k] = abc[k]
      /\ \A k \in 1 .. Len(d) : abcd[Len(abc) + k] = d[k]
  <2>1. abcd = abc \o d
    BY DEF abc, ab
  <2>2. /\ abc \o d \in Seq(S) /\ Len(abc \o d) = Len(abc) + Len(d)
        /\ \A k \in 1 .. Len(abc) : (abc \o d)[k] = abc[k]
        /\ \A k \in 1 .. Len(d) : (abc \o d)[Len(abc) + k] = d[k]
    BY <1>1, <1>3
  <2>. QED BY <2>1, <2>2
<1>5. Len(a) \in Nat /\ Len(b) \in Nat /\ Len(c) \in Nat /\ Len(d) \in Nat
  OBVIOUS
<1>6. \A k \in 1 .. Len(a) : abcd[k] = a[k]
  BY <1>2, <1>3, <1>4, <1>5
<1>7. ASSUME NEW k \in 1 .. Len(b)
      PROVE  abcd[Len(a) + k] = b[k]
  <2>1. Len(a) + k \in 1 .. Len(ab) /\ Len(a) + k \in 1 .. Len(abc)
    BY <1>2, <1>3, <1>5
  <2>. QED BY <1>2, <1>3, <1>4, <2>1
<1>8. \A k \in 1 .. Len(c) : abcd[Len(a) + Len(b) + k] = c[k]
  BY <1>2, <1>3, <1>4, <1>5
<1>9. \A k \in 1 .. Len(d) : abcd[Len(a) + Len(b) + Len(c) + k] = d[k]
  BY <1>2, <1>3, <1>4, <1>5
<1>10. Len(abcd) = Len(a) + Len(b) + Len(c) + Len(d)
  BY <1>2, <1>3, <1>4, <1>5
<1>. QED BY <1>4, <1>6, <1>7, <1>8, <1>9, <1>10

(* An element before a sequence.                                           *)
LEMMA Prepended ==
  ASSUME NEW S, NEW x \in S, NEW q \in Seq(S), NEW s, s = <<x>> \o q
  PROVE  /\ s \in Seq(S) /\ Len(s) = 1 + Len(q) /\ s[1] = x
         /\ \A k \in 2 .. Len(s) : s[k] = q[k - 1]
<1>. DEFINE first == <<x>>
<1>1. first \in Seq(S) /\ Len(first) = 1 /\ first[1] = x /\ s = first \o q /\ Len(q) \in Nat
  OBVIOUS
<1>. HIDE DEF first
<1>2. s \in Seq(S) /\ Len(s) = 1 + Len(q)
  BY <1>1
<1>3. s[1] = x
  BY <1>1
<1>4. ASSUME NEW k \in 2 .. Len(s)
      PROVE  s[k] = q[k - 1]
  BY <1>1, <1>2
<1>. QED BY <1>2, <1>3, <1>4

\* The places of a queue that hold an element.
Places(q, e) == {k \in DOMAIN q : q[k] = e}

(* A queue has finitely many places.                                       *)
LEMMA PlacesFinite ==
  ASSUME NEW S, NEW q \in Seq(S), NEW e
  PROVE  IsFiniteSet(Places(q, e)) /\ Cardinality(Places(q, e)) \in Nat
<1>1. Places(q, e) \in SUBSET (1 .. Len(q)) /\ Len(q) \in Nat
  BY DEF Places
<1>2. IsFiniteSet(1 .. Len(q))
  BY <1>1, FS_Interval
<1>. QED BY <1>1, <1>2, FS_Subset, FS_CardinalityType

(* What is added at the end of a queue is counted once more.               *)
LEMMA PlacesAppend ==
  ASSUME NEW S, NEW q \in Seq(S), NEW x \in S, NEW e
  PROVE  Cardinality(Places(Append(q, x), e)) =
           Cardinality(Places(q, e)) + (IF x = e THEN 1 ELSE 0)
<1>1. /\ Len(q) \in Nat /\ Len(q) + 1 \notin Places(q, e)
      /\ Append(q, x) \in Seq(S) /\ Len(Append(q, x)) = Len(q) + 1
      /\ \A k \in 1 .. Len(q) : Append(q, x)[k] = q[k]
      /\ Append(q, x)[Len(q) + 1] = x
  BY DEF Places
<1>2. DOMAIN Append(q, x) = 1 .. Len(q) + 1 /\ DOMAIN q = 1 .. Len(q)
  BY <1>1
<1>3. CASE x = e
  <2>1. Places(Append(q, x), e) = Places(q, e) \cup {Len(q) + 1}
    BY <1>1, <1>2, <1>3 DEF Places
  <2>. QED BY ZenonT(60), <1>1, <1>3, <2>1, PlacesFinite, FS_AddElement
<1>4. CASE x # e
  <2>1. Places(Append(q, x), e) = Places(q, e)
    BY <1>1, <1>2, <1>4 DEF Places
  <2>. QED BY <1>4, <2>1, PlacesFinite
<1>. QED BY <1>3, <1>4

(* What is taken off the front of a queue is counted once less.            *)
LEMMA PlacesTail ==
  ASSUME NEW S, NEW q \in Seq(S), q # <<>>, NEW e
  PROVE  Cardinality(Places(q, e)) =
           Cardinality(Places(Tail(q), e)) + (IF Head(q) = e THEN 1 ELSE 0)
<1>. DEFINE rest == Places(q, e) \ {1}
            shift == [k \in Places(Tail(q), e) |-> k + 1]
<1>1. /\ Len(q) \in Nat \ {0} /\ DOMAIN q = 1 .. Len(q) /\ Head(q) = q[1]
      /\ Tail(q) \in Seq(S) /\ Len(Tail(q)) = Len(q) - 1
      /\ \A k \in 1 .. Len(Tail(q)) : Tail(q)[k] = q[k + 1]
  OBVIOUS
<1>2. DOMAIN Tail(q) = 1 .. Len(q) - 1
  BY <1>1
<1>3. shift \in Bijection(Places(Tail(q), e), rest)
  <2>1. shift \in [Places(Tail(q), e) -> rest]
    BY <1>1, <1>2 DEF Places
  <2>2. \A k \in rest : k - 1 \in Places(Tail(q), e) /\ shift[k - 1] = k
    BY <1>1, <1>2 DEF Places
  <2>3. \A j, k \in Places(Tail(q), e) : shift[j] = shift[k] => j = k
    BY <1>2 DEF Places
  <2>. QED BY <2>1, <2>2, <2>3 DEF Bijection, Injection, IsInjective, Surjection
<1>4. Cardinality(rest) = Cardinality(Places(Tail(q), e))
  <2>1. IsFiniteSet(Places(Tail(q), e)) /\ ExistsBijection(Places(Tail(q), e), rest)
    BY <1>1, <1>3, PlacesFinite DEF ExistsBijection
  <2>. QED BY <2>1, FS_Bijection, Zenon
<1>5. Cardinality(rest) = IF Head(q) = e THEN Cardinality(Places(q, e)) - 1
                          ELSE Cardinality(Places(q, e))
  <2>1. 1 \in Places(q, e) <=> Head(q) = e
    BY <1>1 DEF Places
  <2>. QED BY <2>1, PlacesFinite, FS_RemoveElement
<1>. QED BY <1>4, <1>5, PlacesFinite
=============================================================================
