---------------------------- MODULE BrowserProofs ----------------------------
(***************************************************************************)
(* Proofs about Browser.  Each part moves by its own module's next-state   *)
(* relation or stands still, so an invariant of a part is one of the       *)
(* whole.  What Kept computes is proved by taking the least place in the   *)
(* sequence for which it would be wrong.                                   *)
(***************************************************************************)
EXTENDS Browser, Lists, SequenceTheorems, FiniteSetTheorems, WellFoundedInduction, TLAPS

-----------------------------------------------------------------------------
\* Every set of naturals that is not empty has a least element.
LEMMA LeastNatural ==
  ASSUME NEW S, S \subseteq Nat, S # {}
  PROVE  \E n \in S : \A m \in S : n <= m
<1> DEFINE R == OpToRel(<, Nat)
<1>1. IsWellFoundedOn(R, Nat)
  BY NatLessThanWellFounded
<1>2. \A a, b \in Nat : a < b => <<a, b>> \in R
  BY DEF OpToRel
<1> HIDE DEF R
<1>3. PICK n \in S : \A m \in S : ~(<<m, n>> \in R)
  BY <1>1, WFMin
<1>4. ASSUME NEW m \in S PROVE n <= m
  <2>1. m \in Nat /\ n \in Nat /\ ~(m < n)
    BY <1>2, <1>3
  <2> QED BY <2>1
<1> QED BY <1>4

(* Lists *)

\* One more place of a sequence, on what was kept of those before.
NextKept(before, s, n, S) == IF s[n] \in S THEN Append(before, s[n]) ELSE before
Keeps(f, s, S, n) ==
  f = [m \in 0..n |-> IF m = 0 THEN << >> ELSE NextKept(f[m - 1], s, m, S)]

\* The recursion has a solution up to every place: a least place without one would
\* have one, which extends that of the place before.
LEMMA KeepsExists ==
  ASSUME NEW s, NEW S, NEW n \in Nat
  PROVE  \E f : Keeps(f, s, S, n)
<1> DEFINE Without == {k \in Nat : ~ \E f : Keeps(f, s, S, k)}
<1> SUFFICES ASSUME Without # {} PROVE FALSE
  OBVIOUS
<1>1. PICK k \in Without : \A m \in Without : k <= m
  <2> HIDE DEF Without
  <2>1. Without \subseteq Nat
    BY DEF Without
  <2> QED BY <2>1, LeastNatural
<1>2. CASE k = 0
  <2> DEFINE f == [m \in 0..0 |-> << >>]
  <2>1. Keeps(f, s, S, 0)
    BY DEF Keeps
  <2> QED BY <1>1, <1>2, <2>1
<1>3. CASE k # 0
  <2>1. k - 1 \in Nat /\ k - 1 \notin Without
    BY <1>1, <1>3
  <2>2. PICK before : Keeps(before, s, S, k - 1)
    BY <2>1
  <2> DEFINE f == [m \in 0..k |-> IF m < k THEN before[m] ELSE NextKept(before[k - 1], s, k, S)]
  <2>3. ASSUME NEW m \in 0..k
        PROVE  f[m] = IF m = 0 THEN << >> ELSE NextKept(f[m - 1], s, m, S)
    <3>1. CASE m = k
      BY <1>1, <1>3, <3>1
    <3>2. CASE m # k
      BY <1>1, <1>3, <2>2, <3>2 DEF Keeps
    <3> QED BY <3>1, <3>2
  <2>4. Keeps(f, s, S, k)
    <3>1. f = [m \in 0..k |-> f[m]]
      OBVIOUS
    <3> HIDE DEF f
    <3> QED BY <2>3, <3>1 DEF Keeps
  <2> QED BY <1>1, <2>4
<1> QED BY <1>2, <1>3

\* k holds the elements of S among the first n of s, in their order.
IsKept(k, s, n, S) ==
  /\ Len(k) <= n
  /\ \A i \in DOMAIN k : \E j \in 1..n : s[j] = k[i] /\ k[i] \in S
  /\ \A i, l \in DOMAIN k : i < l => \E j, m \in 1..n : j < m /\ s[j] = k[i] /\ s[m] = k[l]
  /\ \A j \in 1..n : s[j] \in S => \E i \in DOMAIN k : k[i] = s[j]

LEMMA NextIsKept ==
  ASSUME NEW A, NEW s \in Seq(A), NEW S, NEW n \in 1..Len(s), NEW k \in Seq(A),
         IsKept(k, s, n - 1, S)
  PROVE  NextKept(k, s, n, S) \in Seq(A) /\ IsKept(NextKept(k, s, n, S), s, n, S)
<1>1. s[n] \in A /\ n \in Nat /\ n > 0
  OBVIOUS
<1>2. CASE s[n] \notin S
  BY <1>1, <1>2 DEF NextKept, IsKept
<1>3. CASE s[n] \in S
  <2> DEFINE m == Append(k, s[n])
  <2>1. /\ m \in Seq(A) /\ Len(m) = Len(k) + 1 /\ Len(k) \in Nat
        /\ DOMAIN m = DOMAIN k \cup {Len(k) + 1} /\ DOMAIN k = 1..Len(k)
        /\ m[Len(k) + 1] = s[n] /\ \A i \in DOMAIN k : m[i] = k[i]
    BY <1>1
  <2> HIDE DEF m
  <2>2. Len(m) <= n
    BY <1>1, <2>1 DEF IsKept
  <2>3. \A i \in DOMAIN m : \E j \in 1..n : s[j] = m[i] /\ m[i] \in S
    BY <1>1, <1>3, <2>1 DEF IsKept
  <2>4. ASSUME NEW i \in DOMAIN m, NEW l \in DOMAIN m, i < l
        PROVE  \E j, h \in 1..n : j < h /\ s[j] = m[i] /\ s[h] = m[l]
    <3>1. i \in DOMAIN k /\ m[i] = k[i]
      BY <2>1, <2>4
    <3>2. CASE l \in DOMAIN k
      <4>1. PICK j, h \in 1..(n - 1) : j < h /\ s[j] = k[i] /\ s[h] = k[l]
        BY <2>4, <3>1, <3>2 DEF IsKept
      <4> QED BY <1>1, <2>1, <3>1, <3>2, <4>1
    <3>3. CASE l = Len(k) + 1
      <4>1. PICK j \in 1..(n - 1) : s[j] = k[i]
        BY <3>1 DEF IsKept
      <4> QED BY <1>1, <2>1, <3>1, <3>3, <4>1
    <3> QED BY <2>1, <3>2, <3>3
  <2>5. ASSUME NEW j \in 1..n, s[j] \in S PROVE \E i \in DOMAIN m : m[i] = s[j]
    <3>1. CASE j = n
      BY <2>1, <3>1
    <3>2. CASE j # n
      <4>1. PICK i \in DOMAIN k : k[i] = s[j]
        BY <1>1, <2>5, <3>2 DEF IsKept
      <4> QED BY <2>1, <4>1
    <3> QED BY <3>1, <3>2
  <2>6. NextKept(k, s, n, S) = m
    BY <1>3 DEF NextKept, m
  <2>7. IsKept(m, s, n, S)
    BY <2>2, <2>3, <2>4, <2>5 DEF IsKept
  <2> QED BY <2>1, <2>6, <2>7
<1> QED BY <1>2, <1>3

\* filter returns the elements that pass, in their order: no more than there were,
\* each at a place it had, and none of those that pass is missing.
LEMMA KeptIsKept ==
  ASSUME NEW A, NEW s \in Seq(A), NEW S
  PROVE  Kept(s, S) \in Seq(A) /\ IsKept(Kept(s, S), s, Len(s), S)
<1> DEFINE Rest(f) == [n \in 0..Len(s) |->
             IF n = 0 THEN << >>
             ELSE IF s[n] \in S THEN Append(f[n - 1], s[n]) ELSE f[n - 1]]
           left == CHOOSE f : f = Rest(f)
<1>0. Len(s) \in Nat
  OBVIOUS
<1>1. PICK f : Keeps(f, s, S, Len(s))
  <2> HIDE DEF Rest, left
  <2> QED BY <1>0, KeepsExists
<1>2. f = Rest(f)
  BY <1>1 DEF Keeps, NextKept
<1>4. Kept(s, S) = left[Len(s)]
  BY DEF Kept
<1>3. Keeps(left, s, S, Len(s))
  <2> HIDE DEF Rest
  <2>1. left = Rest(left)
    BY <1>2
  <2> HIDE DEF left
  <2> QED BY <2>1 DEF Rest, Keeps, NextKept
<1> HIDE DEF left
<1> DEFINE Wrong == {n \in 0..Len(s) : ~(left[n] \in Seq(A) /\ IsKept(left[n], s, n, S))}
<1>5. Wrong = {}
  <2> SUFFICES ASSUME Wrong # {} PROVE FALSE
    OBVIOUS
  <2>1. PICK n \in Wrong : \A m \in Wrong : n <= m
    <3>1. Wrong \subseteq Nat
      OBVIOUS
    <3> HIDE DEF Wrong
    <3> QED BY <3>1, LeastNatural
  <2>2. n \in 0..Len(s) /\ n \in Nat
    BY <2>1
  <2>3. CASE n = 0
    <3>1. left[0] = << >>
      BY <1>3, <2>2, <2>3 DEF Keeps
    <3>2. << >> \in Seq(A) /\ IsKept(<< >>, s, 0, S)
      <4>1. DOMAIN << >> = {} /\ Len(<< >>) = 0 /\ 1..0 = {}
        OBVIOUS
      <4> QED BY <4>1 DEF IsKept
    <3> QED BY <2>1, <2>3, <3>1, <3>2
  <2>4. CASE n # 0
    <3>1. n \in 1..Len(s) /\ n - 1 \in 0..Len(s) /\ n - 1 \notin Wrong
      BY <2>1, <2>2, <2>4
    <3>2. left[n] = NextKept(left[n - 1], s, n, S)
      BY <1>3, <2>2, <2>4 DEF Keeps
    <3>3. left[n - 1] \in Seq(A) /\ IsKept(left[n - 1], s, n - 1, S)
      BY <3>1
    <3> QED BY <2>1, <3>1, <3>2, <3>3, NextIsKept
  <2> QED BY <2>3, <2>4
<1>6. Len(s) \in 0..Len(s)
  OBVIOUS
<1> QED BY <1>4, <1>5, <1>6

\* What the invariants ask of a filtered list.
LEMMA KeptFacts ==
  ASSUME NEW A, NEW s \in Seq(A), NEW S
  PROVE  /\ Kept(s, S) \in Seq(A) /\ Len(Kept(s, S)) <= Len(s)
         /\ \A i \in DOMAIN Kept(s, S) : Kept(s, S)[i] \in S
         /\ \A i \in DOMAIN Kept(s, S) : \E j \in DOMAIN s : s[j] = Kept(s, S)[i]
         /\ \A i, l \in DOMAIN Kept(s, S) : i < l =>
              \E j, m \in DOMAIN s : j < m /\ s[j] = Kept(s, S)[i] /\ s[m] = Kept(s, S)[l]
         /\ \A j \in DOMAIN s : s[j] \in S => \E i \in DOMAIN Kept(s, S) : Kept(s, S)[i] = s[j]
<1> DEFINE k == Kept(s, S)
<1>1. DOMAIN s = 1..Len(s)
  OBVIOUS
<1>2. k \in Seq(A) /\ IsKept(k, s, Len(s), S)
  BY KeptIsKept
<1> HIDE DEF k
<1>3. Len(k) <= Len(s)
  BY <1>2 DEF IsKept
<1>4. \A i \in DOMAIN k : k[i] \in S /\ \E j \in DOMAIN s : s[j] = k[i]
  BY <1>1, <1>2 DEF IsKept
<1>5. ASSUME NEW i \in DOMAIN k, NEW l \in DOMAIN k, i < l
      PROVE  \E j, m \in DOMAIN s : j < m /\ s[j] = k[i] /\ s[m] = k[l]
  <2>1. PICK j, m \in 1..Len(s) : j < m /\ s[j] = k[i] /\ s[m] = k[l]
    BY <1>2, <1>5 DEF IsKept
  <2> QED BY <1>1, <2>1
<1>6. \A j \in DOMAIN s : s[j] \in S => \E i \in DOMAIN k : k[i] = s[j]
  BY <1>1, <1>2 DEF IsKept
<1> QED BY <1>2, <1>3, <1>4, <1>5, <1>6 DEF k

\* Every page filters alike.
LEMMA OneFilter ==
  ASSUME NEW s, NEW S
  PROVE  /\ Saved!Kept(s, S) = Kept(s, S) /\ Report!Kept(s, S) = Kept(s, S)
         /\ Forms!Kept(s, S) = Kept(s, S) /\ Regions!Kept(s, S) = Kept(s, S)
         /\ GistMap!Kept(s, S) = Kept(s, S) /\ Components!Kept(s, S) = Kept(s, S)
         /\ Dash!Kept(s, S) = Kept(s, S) /\ Embedded!Kept(s, S) = Kept(s, S)
BY DEF Kept, Saved!Kept, Report!Kept, Forms!Kept, Regions!Kept, GistMap!Kept,
   Components!Kept, Dash!Kept, Embedded!Kept

\* An order that puts every two different elements of S one way.
Orders(R, S) ==
  /\ \A x, y \in S : <<x, y>> \in R => <<y, x>> \notin R
  /\ \A x, y, z \in S : <<x, y>> \in R /\ <<y, z>> \in R => <<x, z>> \in R
  /\ \A x, y \in S : x # y => <<x, y>> \in R \/ <<y, x>> \in R
Below(R, S, x) == {y \in S : <<y, x>> \in R}

\* Sorting a finite set lists each of its elements once.
LEMMA RankedOnce ==
  ASSUME NEW S, IsFiniteSet(S), NEW R, Orders(R, S)
  PROVE  /\ Ranked(S, R) \in Seq(S) /\ Len(Ranked(S, R)) = Cardinality(S)
         /\ \A i, j \in DOMAIN Ranked(S, R) : Ranked(S, R)[i] = Ranked(S, R)[j] => i = j
         /\ \A x \in S : \E i \in DOMAIN Ranked(S, R) : Ranked(S, R)[i] = x
         /\ \A i, j \in DOMAIN Ranked(S, R) : i < j => <<Ranked(S, R)[i], Ranked(S, R)[j]>> \in R
<1> DEFINE n == Cardinality(S)
           rank == [x \in S |-> Cardinality(Below(R, S, x))]
           seq == Ranked(S, R)
<1>1. n \in Nat
  BY FS_CardinalityType
<1>2. \A x \in S : IsFiniteSet(Below(R, S, x)) /\ rank[x] \in Nat
  <2> TAKE x \in S
  <2>1. Below(R, S, x) \in SUBSET S
    BY DEF Below
  <2> QED BY <2>1, FS_Subset, FS_CardinalityType
<1>3. ASSUME NEW x \in S PROVE rank[x] \in 0..(n - 1)
  <2>1. IsFiniteSet(S \ {x}) /\ Cardinality(S \ {x}) = n - 1
    BY FS_RemoveElement
  <2>2. Below(R, S, x) \in SUBSET (S \ {x})
    BY DEF Below, Orders
  <2>3. rank[x] <= n - 1
    BY <2>1, <2>2, FS_Subset
  <2> QED BY <1>1, <1>2, <2>3
<1>4. ASSUME NEW x \in S, NEW y \in S, <<x, y>> \in R PROVE rank[x] < rank[y]
  <2>1. Below(R, S, x) \in SUBSET (Below(R, S, y) \ {x}) /\ x \in Below(R, S, y)
    BY <1>4 DEF Below, Orders
  <2>2. /\ IsFiniteSet(Below(R, S, y) \ {x})
        /\ Cardinality(Below(R, S, y) \ {x}) = Cardinality(Below(R, S, y)) - 1
    BY <1>2, <2>1, FS_RemoveElement
  <2>3. Cardinality(Below(R, S, x)) <= Cardinality(Below(R, S, y)) - 1
    BY <2>1, <2>2, FS_Subset
  <2> QED BY <1>2, <2>3
<1>5. \A x, y \in S : rank[x] = rank[y] => x = y
  <2> SUFFICES ASSUME NEW x \in S, NEW y \in S, rank[x] = rank[y], x # y PROVE FALSE
    OBVIOUS
  <2>1. <<x, y>> \in R \/ <<y, x>> \in R
    BY DEF Orders
  <2>2. rank[x] < rank[y] \/ rank[y] < rank[x]
    BY <1>4, <2>1
  <2> HIDE DEF rank
  <2> QED BY <1>2, <2>2
<1>6. rank \in Injection(S, 0..(n - 1))
  BY <1>3, <1>5 DEF Injection, IsInjective
<1>7. IsFiniteSet(0..(n - 1)) /\ Cardinality(0..(n - 1)) = n
  BY <1>1, FS_Interval
<1>8. rank \in Surjection(S, 0..(n - 1))
  BY <1>6, <1>7, FS_Injection
<1>9. \A k \in 0..(n - 1) : \E x \in S : rank[x] = k
  BY <1>8 DEF Surjection
<1>10. seq = [r \in 1..n |-> CHOOSE x \in S : Cardinality(Below(R, S, x)) = r - 1]
  BY DEF Ranked, Below
<1> HIDE DEF n, seq
<1>11. \A r \in 1..n : seq[r] \in S /\ rank[seq[r]] = r - 1
  <2> TAKE r \in 1..n
  <2>1. r - 1 \in 0..(n - 1)
    BY <1>1
  <2>2. \E x \in S : Cardinality(Below(R, S, x)) = r - 1
    BY <1>9, <2>1
  <2>3. seq[r] \in S /\ Cardinality(Below(R, S, seq[r])) = r - 1
    BY <1>10, <2>2
  <2> QED BY <2>3
<1> HIDE DEF rank
<1>12. seq \in [1..n -> S]
  BY <1>10, <1>11
<1>13. seq \in Seq(S) /\ Len(seq) = n /\ DOMAIN seq = 1..n
  BY <1>1, <1>12
<1>14. \A i, j \in 1..n : seq[i] = seq[j] => i = j
  BY <1>1, <1>11
<1>15. ASSUME NEW x \in S PROVE \E i \in 1..n : seq[i] = x
  <2>1. rank[x] + 1 \in 1..n /\ rank[x] \in Nat
    BY <1>1, <1>2, <1>3
  <2>2. seq[rank[x] + 1] \in S /\ rank[seq[rank[x] + 1]] = rank[x]
    BY <1>11, <2>1
  <2> QED BY <1>5, <2>1, <2>2
<1>16. ASSUME NEW i \in 1..n, NEW j \in 1..n, i < j PROVE <<seq[i], seq[j]>> \in R
  <2>1. seq[i] \in S /\ seq[j] \in S /\ rank[seq[i]] = i - 1 /\ rank[seq[j]] = j - 1
    BY <1>11
  <2>2. seq[i] # seq[j] /\ ~(rank[seq[j]] < rank[seq[i]])
    BY <1>1, <1>14, <1>16, <2>1
  <2>3. <<seq[j], seq[i]>> \notin R
    BY <1>4, <2>1, <2>2
  <2> QED BY <2>1, <2>2, <2>3 DEF Orders
<1> QED BY <1>13, <1>14, <1>15, <1>16 DEF seq, n

\* Nothing of how it sorts is needed to know that it lists as many as there are.
LEMMA RankedCounts ==
  ASSUME NEW S, IsFiniteSet(S), NEW R
  PROVE  Len(Ranked(S, R)) = Cardinality(S) /\ \E A : Ranked(S, R) \in Seq(A)
<1> DEFINE seq == Ranked(S, R)
           chosen(i) == CHOOSE x \in S : Cardinality({y \in S : <<y, x>> \in R}) = i - 1
           A == {chosen(i) : i \in 1..Cardinality(S)}
<1>1. Cardinality(S) \in Nat
  BY FS_CardinalityType
<1>2. seq = [i \in 1..Cardinality(S) |-> chosen(i)]
  BY DEF Ranked
<1> HIDE DEF seq, chosen
<1>3. seq \in [1..Cardinality(S) -> A]
  BY <1>2
<1> HIDE DEF A
<1>4. seq \in Seq(A) /\ Len(seq) = Cardinality(S)
  BY <1>1, <1>3
<1> QED BY <1>4 DEF seq

\* Lists one after the other, up to the n-th of them.
NextJoined(before, lists, n) == before \o lists[n]
Joins(f, lists, n) == f = [m \in 0..n |-> IF m = 0 THEN << >> ELSE NextJoined(f[m - 1], lists, m)]

LEMMA JoinsExist ==
  ASSUME NEW lists, NEW n \in Nat
  PROVE  \E f : Joins(f, lists, n)
<1> DEFINE Without == {k \in Nat : ~ \E f : Joins(f, lists, k)}
<1> SUFFICES ASSUME Without # {} PROVE FALSE
  OBVIOUS
<1>1. PICK k \in Without : \A m \in Without : k <= m
  <2> HIDE DEF Without
  <2>1. Without \subseteq Nat
    BY DEF Without
  <2> QED BY <2>1, LeastNatural
<1>2. CASE k = 0
  <2> DEFINE f == [m \in 0..0 |-> << >>]
  <2>1. Joins(f, lists, 0)
    BY DEF Joins
  <2> QED BY <1>1, <1>2, <2>1
<1>3. CASE k # 0
  <2>1. k - 1 \in Nat /\ k - 1 \notin Without
    BY <1>1, <1>3
  <2>2. PICK before : Joins(before, lists, k - 1)
    BY <2>1
  <2> DEFINE f == [m \in 0..k |-> IF m < k THEN before[m] ELSE NextJoined(before[k - 1], lists, k)]
  <2>3. ASSUME NEW m \in 0..k
        PROVE  f[m] = IF m = 0 THEN << >> ELSE NextJoined(f[m - 1], lists, m)
    <3>1. CASE m = k
      BY <1>1, <1>3, <3>1
    <3>2. CASE m # k
      BY <1>1, <1>3, <2>2, <3>2 DEF Joins
    <3> QED BY <3>1, <3>2
  <2>4. Joins(f, lists, k)
    <3>1. f = [m \in 0..k |-> f[m]]
      OBVIOUS
    <3> HIDE DEF f
    <3> QED BY <2>3, <3>1 DEF Joins
  <2> QED BY <1>1, <2>4
<1> QED BY <1>2, <1>3

LEMMA JoinedInSteps ==
  ASSUME NEW lists, Len(lists) \in Nat
  PROVE  \E f : Joins(f, lists, Len(lists)) /\ Joined(lists) = f[Len(lists)]
<1> DEFINE Rest(f) == [n \in 0..Len(lists) |-> IF n = 0 THEN << >> ELSE f[n - 1] \o lists[n]]
           all == CHOOSE f : f = Rest(f)
<1>1. PICK f : Joins(f, lists, Len(lists))
  BY JoinsExist
<1>2. f = Rest(f)
  BY <1>1 DEF Joins, NextJoined
<1>3. Joined(lists) = all[Len(lists)]
  BY DEF Joined
<1>4. Joins(all, lists, Len(lists))
  <2> HIDE DEF Rest
  <2>1. all = Rest(all)
    BY <1>2
  <2> HIDE DEF all
  <2> QED BY <2>1 DEF Rest, Joins, NextJoined
<1> QED BY <1>3, <1>4

\* Lists one after the other have the elements that each of them has.
LEMMA JoinedElements ==
  ASSUME NEW A, NEW lists, Len(lists) \in Nat, \A m \in 1..Len(lists) : lists[m] \in Seq(A)
  PROVE  /\ Joined(lists) \in Seq(A)
         /\ Range(Joined(lists)) = UNION {Range(lists[m]) : m \in 1..Len(lists)}
<1>1. PICK f : Joins(f, lists, Len(lists)) /\ Joined(lists) = f[Len(lists)]
  BY JoinedInSteps
<1> DEFINE Elements(n) == UNION {Range(lists[m]) : m \in 1..n}
           Right(n) == f[n] \in Seq(A) /\ Range(f[n]) = Elements(n)
           Wrong == {n \in 0..Len(lists) : ~Right(n)}
<1>2. Wrong = {}
  <2> SUFFICES ASSUME Wrong # {} PROVE FALSE
    OBVIOUS
  <2>1. PICK n \in Wrong : \A m \in Wrong : n <= m
    <3>1. Wrong \subseteq Nat
      OBVIOUS
    <3> HIDE DEF Wrong
    <3> QED BY <3>1, LeastNatural
  <2>2. n \in 0..Len(lists) /\ n \in Nat
    BY <2>1
  <2>3. CASE n = 0
    <3>1. f[0] = << >>
      BY <1>1, <2>2, <2>3 DEF Joins
    <3>2. << >> \in Seq(A) /\ Range(<< >>) = {} /\ Elements(0) = {}
      BY DEF Range
    <3> QED BY <2>1, <2>3, <3>1, <3>2
  <2>4. CASE n # 0
    <3>1. n \in 1..Len(lists) /\ n - 1 \in 0..Len(lists) /\ n - 1 \notin Wrong
      <4> HIDE DEF Right
      <4> QED BY <2>1, <2>2, <2>4
    <3>2. f[n] = f[n - 1] \o lists[n]
      BY <1>1, <2>2, <2>4 DEF Joins, NextJoined
    <3>3. Right(n - 1)
      BY <3>1
    <3>4. f[n] \in Seq(A) /\ Range(f[n]) = Range(f[n - 1]) \cup Range(lists[n])
      BY <3>1, <3>2, <3>3, RangeConcatenation
    <3>5. 1..n = (1..(n - 1)) \cup {n}
      BY <3>1
    <3>6. Elements(n) = Elements(n - 1) \cup Range(lists[n])
      <4> HIDE DEF Wrong, Right
      <4>1. {Range(lists[m]) : m \in 1..n} = {Range(lists[m]) : m \in 1..(n - 1)} \cup {Range(lists[n])}
        BY <3>5
      <4> QED BY <4>1
    <3>7. Right(n)
      BY <3>3, <3>4, <3>6
    <3> QED BY <2>1, <3>7
  <2> QED BY <2>3, <2>4
<1>3. Right(Len(lists))
  <2>1. Len(lists) \in 0..Len(lists)
    OBVIOUS
  <2> HIDE DEF Right
  <2> QED BY <1>2, <2>1
<1> QED BY <1>1, <1>3

\* A list cut at places that ascend from its front to its end is what the pieces make.
LEMMA PiecesMakeTheList ==
  ASSUME NEW A, NEW s \in Seq(A), NEW n \in Nat, NEW at \in [0..n -> 0..Len(s)],
         at[0] = 0, at[n] = Len(s), \A p \in 1..n : at[p - 1] <= at[p]
  PROVE  Joined([p \in 1..n |-> SubSeq(s, at[p - 1] + 1, at[p])]) = s
<1> DEFINE pieces == [p \in 1..n |-> SubSeq(s, at[p - 1] + 1, at[p])]
<1>1. Len(pieces) = n
  OBVIOUS
<1>2. \A p \in 1..n : pieces[p] = SubSeq(s, at[p - 1] + 1, at[p])
  OBVIOUS
<1> HIDE DEF pieces
<1>3. PICK f : Joins(f, pieces, n) /\ Joined(pieces) = f[n]
  BY <1>1, JoinedInSteps
<1> DEFINE Wrong == {p \in 0..n : f[p] # SubSeq(s, 1, at[p])}
<1>4. Wrong = {}
  <2> SUFFICES ASSUME Wrong # {} PROVE FALSE
    OBVIOUS
  <2>1. PICK p \in Wrong : \A m \in Wrong : p <= m
    <3>1. Wrong \subseteq Nat
      OBVIOUS
    <3> HIDE DEF Wrong
    <3> QED BY <3>1, LeastNatural
  <2>2. CASE p = 0
    <3>1. f[0] = << >>
      BY <1>3, <2>1, <2>2 DEF Joins
    <3>2. SubSeq(s, 1, 0) = << >>
      OBVIOUS
    <3> QED BY <2>1, <2>2, <3>1, <3>2
  <2>3. CASE p # 0
    <3>1. p \in 1..n /\ p - 1 \in 0..n /\ p - 1 \notin Wrong
      BY <2>1, <2>3
    <3>2. f[p] = f[p - 1] \o pieces[p] /\ f[p - 1] = SubSeq(s, 1, at[p - 1])
      BY <1>3, <2>1, <2>3, <3>1 DEF Joins, NextJoined
    <3>3. at[p - 1] \in 0..Len(s) /\ at[p] \in 0..Len(s) /\ at[p - 1] <= at[p]
      BY <3>1
    <3>4. SubSeq(s, 1, at[p - 1]) \o SubSeq(s, at[p - 1] + 1, at[p]) = SubSeq(s, 1, at[p])
      <4>1. /\ 1 \in 1..Len(s) + 1 /\ at[p - 1] \in 1 - 1..Len(s) /\ at[p] \in at[p - 1]..Len(s)
        BY <3>3
      <4> QED BY <4>1, ConcatAdjacentSubSeq
    <3> QED BY <1>2, <2>1, <3>1, <3>2, <3>4
  <2> QED BY <2>2, <2>3
<1>5. f[n] = SubSeq(s, 1, Len(s))
  BY <1>4
<1>6. SubSeq(s, 1, Len(s)) = s
  OBVIOUS
<1> QED BY <1>3, <1>5, <1>6 DEF pieces

-----------------------------------------------------------------------------
(* Bookmarks *)

\* Elements with an id, each its own.
OwnIds(list) == \A i, j \in DOMAIN list : list[i].id = list[j].id => i = j

LEMMA KeptOwnIds ==
  ASSUME NEW A, NEW s \in Seq(A), NEW S, OwnIds(s)
  PROVE  OwnIds(Kept(s, S))
<1> DEFINE k == Kept(s, S)
<1>1. /\ k \in Seq(A)
      /\ \A i, l \in DOMAIN k : i < l =>
           \E j, m \in DOMAIN s : j < m /\ s[j] = k[i] /\ s[m] = k[l]
  BY KeptFacts
<1> HIDE DEF k
<1>2. \A i, l \in DOMAIN k : i < l => k[i].id # k[l].id
  <2> SUFFICES ASSUME NEW i \in DOMAIN k, NEW l \in DOMAIN k, i < l PROVE k[i].id # k[l].id
    OBVIOUS
  <2>1. PICK j, m \in DOMAIN s : j < m /\ s[j] = k[i] /\ s[m] = k[l]
    BY <1>1
  <2> QED BY <2>1 DEF OwnIds
<1>3. \A i \in DOMAIN k : i \in Nat
  BY <1>1
<1>4. \A i, l \in DOMAIN k : k[i].id = k[l].id => i = l
  BY <1>2, <1>3
<1> QED BY <1>4 DEF OwnIds, k

Bookmark(n) == [id : 1..n, url : Url, name : (Url \cup Name) \ {Saved!Blank}]
TabOf(n) ==
  [path : Url, list : Seq(Bookmark(n)), open : BOOLEAN, renaming : 1..n \cup {None},
   value : Url \cup Name \cup {Saved!Blank}]

\* What is stored is within the limit, each once and under a name; what the tabs
\* show are bookmarks that were made, kept or not.
BookmarksInv ==
  /\ ids \in 0..MaxIds
  /\ bookmarks \in Seq(Bookmark(ids)) /\ Len(bookmarks) <= MaxBookmarks /\ OwnIds(bookmarks)
  /\ tab \in [Tab -> TabOf(ids)]

LEMMA BookmarkLimits == MaxBookmarks \in Nat /\ MaxIds \in Nat
BY BrowserConstants DEF BrowserConstants

LEMMA PathsAreNames == Saved!Blank \notin Url
BY BrowserConstants DEF BrowserConstants, Saved!Blank

LEMMA BookmarksLast ==
  ASSUME NEW n \in Nat, NEW m \in Nat, n <= m
  PROVE  Seq(Bookmark(n)) \subseteq Seq(Bookmark(m)) /\ TabOf(n) \subseteq TabOf(m)
<1>1. 1..n \subseteq 1..m
  OBVIOUS
<1>2. Bookmark(n) \subseteq Bookmark(m)
  BY <1>1 DEF Bookmark
<1>3. Seq(Bookmark(n)) \subseteq Seq(Bookmark(m))
  BY <1>2
<1>4. TabOf(n) \subseteq TabOf(m)
  BY <1>1, <1>3 DEF TabOf
<1> QED BY <1>3, <1>4

LEMMA InitBookmarks == Saved!BookmarksInit => BookmarksInv
<1> SUFFICES ASSUME Saved!BookmarksInit PROVE BookmarksInv
  OBVIOUS
<1>1. bookmarks = << >> /\ ids = 0 /\ bookmarks \in Seq(Bookmark(0))
  BY DEF Saved!BookmarksInit
<1>2. \A path \in Url : Saved!Loaded(path) \in TabOf(0)
  BY <1>1 DEF Saved!Loaded, TabOf
<1>3. tab \in [Tab -> TabOf(0)]
  <2>1. tab \in [Tab -> {Saved!Loaded(path) : path \in Url}]
    BY DEF Saved!BookmarksInit
  <2>2. {Saved!Loaded(path) : path \in Url} \subseteq TabOf(0)
    BY <1>2
  <2> QED BY <2>1, <2>2
<1> QED BY <1>1, <1>3, BookmarkLimits DEF BookmarksInv, OwnIds

\* What a tab shows of its own changes nothing that is stored.
LEMMA ShowBookmarks ==
  ASSUME BookmarksInv, NEW t \in Tab, NEW shown \in TabOf(ids), Saved!Show(t, shown)
  PROVE  BookmarksInv'
<1>1. tab' \in [Tab -> TabOf(ids)]
  BY DEF BookmarksInv, Saved!Show
<1> QED BY <1>1 DEF BookmarksInv, Saved!Show, OwnIds, Bookmark, TabOf

LEMMA WriteBookmarks ==
  ASSUME BookmarksInv, ids' \in ids..MaxIds, NEW t \in Tab, NEW shown \in TabOf(ids'),
         NEW list \in Seq(Bookmark(ids')), Len(list) <= MaxBookmarks, OwnIds(list),
         Saved!Write(t, list, shown)
  PROVE  BookmarksInv'
<1>1. ids \in Nat /\ ids' \in Nat /\ ids <= ids' /\ ids' \in 0..MaxIds
  BY DEF BookmarksInv
<1>2. bookmarks' = list
  BY DEF Saved!Write
<1>3. [shown EXCEPT !.list = bookmarks'] \in TabOf(ids')
  BY <1>2 DEF TabOf
<1>4. TabOf(ids) \subseteq TabOf(ids')
  BY <1>1, BookmarksLast
<1>5. tab' \in [Tab -> TabOf(ids')]
  BY <1>3, <1>4 DEF BookmarksInv, Saved!Write
<1>6. (TabOf(ids))' = TabOf(ids') /\ (Bookmark(ids))' = Bookmark(ids')
  BY DEF TabOf, Bookmark
<1> QED BY <1>1, <1>2, <1>5, <1>6 DEF BookmarksInv, OwnIds

\* Removing a bookmark by the id that a tab, however stale, shows.
LEMMA DeleteBookmark ==
  ASSUME BookmarksInv, NEW t \in Tab, NEW id, Saved!Delete(t, id)
  PROVE  BookmarksInv'
<1> DEFINE S == {b \in Saved!Range(bookmarks) : b.id # id}
<1>1. bookmarks \in Seq(Bookmark(ids)) /\ Len(bookmarks) <= MaxBookmarks /\ OwnIds(bookmarks)
  BY DEF BookmarksInv
<1>2. Saved!Write(t, Kept(bookmarks, S), tab[t]) /\ ids' = ids
  BY OneFilter DEF Saved!Delete
<1>3. tab[t] \in TabOf(ids) /\ ids \in ids..MaxIds
  BY BookmarkLimits DEF BookmarksInv
<1> HIDE DEF S
<1>4. Kept(bookmarks, S) \in Seq(Bookmark(ids)) /\ Len(Kept(bookmarks, S)) <= MaxBookmarks
  <2>1. Kept(bookmarks, S) \in Seq(Bookmark(ids)) /\ Len(Kept(bookmarks, S)) <= Len(bookmarks)
    BY <1>1, KeptFacts
  <2> QED BY <1>1, <2>1, BookmarkLimits
<1>5. OwnIds(Kept(bookmarks, S))
  BY <1>1, KeptOwnIds
<1> QED BY <1>2, <1>3, <1>4, <1>5, WriteBookmarks

LEMMA ToggleBookmark ==
  ASSUME BookmarksInv, NEW t \in Tab, Saved!Toggle(t)
  PROVE  BookmarksInv'
<1>1. CASE Saved!Drawn(t) # << >>
  BY <1>1, DeleteBookmark DEF Saved!Toggle
<1>2. CASE Saved!Drawn(t) = << >> /\ ~Saved!HasRoom
  <2>1. Saved!Write(t, bookmarks, tab[t]) /\ ids' = ids
    BY <1>2 DEF Saved!Toggle, Saved!Save
  <2>2. tab[t] \in TabOf(ids) /\ ids \in ids..MaxIds
    BY BookmarkLimits DEF BookmarksInv
  <2> QED BY <2>1, <2>2, WriteBookmarks DEF BookmarksInv
<1>3. CASE Saved!Drawn(t) = << >> /\ Saved!HasRoom
  <2> DEFINE new == [id |-> ids + 1, url |-> tab[t].path, name |-> tab[t].path]
             list == Append(bookmarks, new)
  <2>1. Saved!Write(t, list, tab[t]) /\ ids' = ids + 1 /\ ids < MaxIds /\ Len(bookmarks) < MaxBookmarks
    BY <1>3 DEF Saved!Toggle, Saved!Save, Saved!HasRoom
  <2>2. ids \in Nat /\ bookmarks \in Seq(Bookmark(ids)) /\ OwnIds(bookmarks) /\ tab[t] \in TabOf(ids)
    BY DEF BookmarksInv
  <2>3. new \in Bookmark(ids') /\ \A i \in DOMAIN bookmarks : bookmarks[i].id <= ids
    <3>1. tab[t].path \in Url /\ tab[t].path # Saved!Blank
      BY <2>2, PathsAreNames DEF TabOf
    <3>2. ids + 1 \in 1..ids'
      BY <2>1, <2>2
    <3>3. \A i \in DOMAIN bookmarks : bookmarks[i] \in Bookmark(ids)
      BY <2>2
    <3> QED BY <2>1, <2>2, <3>1, <3>2, <3>3 DEF Bookmark
  <2>4. bookmarks \in Seq(Bookmark(ids')) /\ tab[t] \in TabOf(ids') /\ ids' \in ids..MaxIds
    BY <2>1, <2>2, BookmarksLast, BookmarkLimits
  <2>5. new.id = ids + 1
    OBVIOUS
  <2> HIDE DEF new
  <2>6. list \in Seq(Bookmark(ids')) /\ Len(list) <= MaxBookmarks
    BY <2>1, <2>3, <2>4, BookmarkLimits
  <2>7. OwnIds(list)
    <3>1. /\ DOMAIN list = DOMAIN bookmarks \cup {Len(bookmarks) + 1}
          /\ list[Len(bookmarks) + 1] = new /\ \A i \in DOMAIN bookmarks : list[i] = bookmarks[i]
      BY <2>2
    <3>2. \A i \in DOMAIN bookmarks : bookmarks[i].id \in Nat
      <4>1. \A i \in DOMAIN bookmarks : bookmarks[i] \in Bookmark(ids)
        BY <2>2
      <4> QED BY <2>2, <4>1 DEF Bookmark
    <3> HIDE DEF list
    <3> QED BY <2>2, <2>3, <2>5, <3>1, <3>2 DEF OwnIds
  <2> HIDE DEF list
  <2> QED BY <2>1, <2>4, <2>6, <2>7, WriteBookmarks
<1> QED BY <1>1, <1>2, <1>3

\* handleRename writes the list anew, with the one name changed.
LEMMA RenameBookmark ==
  ASSUME BookmarksInv, NEW t \in Tab, Saved!Rename(t)
  PROVE  BookmarksInv'
<1> DEFINE shown == [tab[t] EXCEPT !.renaming = None, !.value = Saved!Blank]
           list == Saved!Named(bookmarks, tab[t].renaming, tab[t].value)
<1>1. ids \in Nat /\ bookmarks \in Seq(Bookmark(ids)) /\ OwnIds(bookmarks) /\ tab[t] \in TabOf(ids)
      /\ ids \in ids..MaxIds
  BY BookmarkLimits DEF BookmarksInv
<1>2. shown \in TabOf(ids)
  BY <1>1 DEF TabOf
<1>3. CASE tab[t].value = Saved!Blank
  BY <1>2, <1>3, ShowBookmarks DEF Saved!Rename
<1>4. CASE tab[t].value # Saved!Blank
  <2>1. Saved!Write(t, list, shown) /\ ids' = ids
    BY <1>4 DEF Saved!Rename
  <2>2. tab[t].value \in (Url \cup Name) \ {Saved!Blank}
    BY <1>1, <1>4 DEF TabOf
  <2>3. /\ list \in Seq(Bookmark(ids)) /\ Len(list) = Len(bookmarks)
        /\ DOMAIN list = DOMAIN bookmarks
        /\ \A i \in DOMAIN bookmarks : list[i].id = bookmarks[i].id
    <3>1. ASSUME NEW i \in DOMAIN bookmarks
          PROVE  list[i] \in Bookmark(ids) /\ list[i].id = bookmarks[i].id
      <4>1. bookmarks[i] \in Bookmark(ids)
        BY <1>1
      <4> QED BY <2>2, <4>1 DEF Bookmark, Saved!Named
    <3>2. DOMAIN list = 1..Len(bookmarks) /\ DOMAIN bookmarks = 1..Len(bookmarks)
          /\ Len(bookmarks) \in Nat /\ list = [i \in 1..Len(bookmarks) |-> list[i]]
      BY <1>1 DEF Saved!Named
    <3> HIDE DEF list
    <3> QED BY <3>1, <3>2
  <2> HIDE DEF list, shown
  <2>4. Len(list) <= MaxBookmarks /\ OwnIds(list)
    BY <1>1, <2>3 DEF OwnIds, BookmarksInv
  <2> QED BY <1>1, <1>2, <2>1, <2>3, <2>4, WriteBookmarks
<1> QED BY <1>3, <1>4

LEMMA StepBookmarks ==
  BookmarksInv /\ [Saved!BookmarksNext]_(Saved!bookmarkVars) => BookmarksInv'
<1> SUFFICES ASSUME BookmarksInv, [Saved!BookmarksNext]_(Saved!bookmarkVars) PROVE BookmarksInv'
  OBVIOUS
<1>1. CASE UNCHANGED Saved!bookmarkVars
  BY <1>1 DEF Saved!bookmarkVars, BookmarksInv, Bookmark, TabOf, OwnIds
<1>2. ASSUME NEW t \in Tab, Saved!BookmarksNext!(t) PROVE BookmarksInv'
  <2>1. tab[t] \in TabOf(ids) /\ tab[t].list \in Seq(Bookmark(ids))
    BY DEF BookmarksInv, TabOf
  <2>2. CASE Saved!OpenList(t)
    <3>1. [tab[t] EXCEPT !.open = ~@] \in TabOf(ids)
      BY <2>1 DEF TabOf
    <3> QED BY <2>2, <3>1, ShowBookmarks DEF Saved!OpenList
  <2>3. CASE Saved!ClickOutside(t)
    <3>1. [tab[t] EXCEPT !.open = FALSE] \in TabOf(ids)
      BY <2>1 DEF TabOf
    <3> QED BY <2>3, <3>1, ShowBookmarks DEF Saved!ClickOutside
  <2>4. CASE Saved!Toggle(t)
    BY <2>4, ToggleBookmark
  <2>5. CASE Saved!DeleteOne(t)
    BY <2>5, DeleteBookmark DEF Saved!DeleteOne
  <2>6. CASE Saved!StartRename(t)
    <3>1. PICK i \in DOMAIN tab[t].list :
            Saved!Show(t, [tab[t] EXCEPT !.renaming = tab[t].list[i].id, !.value = tab[t].list[i].name])
      BY <2>6 DEF Saved!StartRename
    <3>2. tab[t].list[i] \in Bookmark(ids)
      BY <2>1
    <3>3. [tab[t] EXCEPT !.renaming = tab[t].list[i].id, !.value = tab[t].list[i].name] \in TabOf(ids)
      BY <2>1, <3>2 DEF TabOf, Bookmark
    <3> QED BY <3>1, <3>3, ShowBookmarks
  <2>7. CASE Saved!CancelRename(t)
    <3>1. [tab[t] EXCEPT !.renaming = None, !.value = Saved!Blank] \in TabOf(ids)
      BY <2>1 DEF TabOf
    <3> QED BY <2>7, <3>1, ShowBookmarks DEF Saved!CancelRename
  <2>8. CASE Saved!Rename(t)
    BY <2>8, RenameBookmark
  <2>9. ASSUME NEW path \in Url, Saved!Load(t, path) PROVE BookmarksInv'
    <3>1. bookmarks \in Seq(Bookmark(ids))
      BY DEF BookmarksInv
    <3>2. Saved!Loaded(path) \in TabOf(ids)
      BY <3>1 DEF TabOf, Saved!Loaded
    <3> QED BY <2>9, <3>2, ShowBookmarks DEF Saved!Load
  <2>10. ASSUME NEW path \in Url, Saved!Navigate(t, path) PROVE BookmarksInv'
    <3>1. [tab[t] EXCEPT !.path = path] \in TabOf(ids)
      BY <2>1 DEF TabOf
    <3> QED BY <2>10, <3>1, ShowBookmarks DEF Saved!Navigate
  <2>11. ASSUME NEW name \in Name \cup {Saved!Blank}, Saved!Type(t, name) PROVE BookmarksInv'
    <3>1. [tab[t] EXCEPT !.value = name] \in TabOf(ids)
      BY <2>1 DEF TabOf
    <3> QED BY <2>11, <3>1, ShowBookmarks DEF Saved!Type
  <2> QED BY <1>2, <2>2, <2>3, <2>4, <2>5, <2>6, <2>7, <2>8, <2>9, <2>10, <2>11
<1> QED BY <1>1, <1>2 DEF Saved!BookmarksNext

-----------------------------------------------------------------------------
(* Notes on a chart *)

NoteOf(n) ==
  [id : 1..n, text : NoteText \ {Saved!Blank}, date : Saved!Dates \ {Saved!Blank}]
ModalOf(n) ==
  [on : BOOLEAN, editing : 1..n \cup {None}, text : NoteText \cup {Saved!Blank},
   date : Saved!Dates]
ViewOf(n) == [list : Seq(NoteOf(n)), modal : ModalOf(n)]

\* A note that is stored has all it needs and was made once.
NotesInv ==
  /\ noteCount \in 0..MaxChartNotes
  /\ notes \in Seq(NoteOf(noteCount)) /\ OwnIds(notes)
  /\ noteView \in [Tab -> ViewOf(noteCount)]

LEMMA NoteLimit == MaxChartNotes \in Nat
BY BrowserConstants DEF BrowserConstants

LEMMA NotesLast ==
  ASSUME NEW n \in Nat, NEW m \in Nat, n <= m
  PROVE  Seq(NoteOf(n)) \subseteq Seq(NoteOf(m)) /\ ViewOf(n) \subseteq ViewOf(m)
<1>1. 1..n \subseteq 1..m
  OBVIOUS
<1>2. NoteOf(n) \subseteq NoteOf(m)
  BY <1>1 DEF NoteOf
<1>3. Seq(NoteOf(n)) \subseteq Seq(NoteOf(m))
  BY <1>2
<1>4. ModalOf(n) \subseteq ModalOf(m)
  BY <1>1 DEF ModalOf
<1>5. ViewOf(n) \subseteq ViewOf(m)
  BY <1>3, <1>4 DEF ViewOf
<1> QED BY <1>3, <1>5

LEMMA NoModalIsOne == \A n : Saved!NoModal \in ModalOf(n)
BY DEF Saved!NoModal, ModalOf, Saved!Dates

LEMMA InitNotes == Saved!NotesInit => NotesInv
<1> SUFFICES ASSUME Saved!NotesInit PROVE NotesInv
  OBVIOUS
<1>1. notes = << >> /\ noteCount = 0 /\ notes \in Seq(NoteOf(0))
  BY DEF Saved!NotesInit
<1>2. Saved!LoadedNotes \in ViewOf(0)
  BY <1>1, NoModalIsOne DEF Saved!LoadedNotes, ViewOf
<1>3. noteView \in [Tab -> ViewOf(0)]
  BY <1>2 DEF Saved!NotesInit
<1>4. OwnIds(notes)
  BY <1>1 DEF OwnIds
<1> QED BY <1>1, <1>3, <1>4, NoteLimit DEF NotesInv

LEMMA ShowNotesKeeps ==
  ASSUME NotesInv, NEW t \in Tab, NEW shown \in ViewOf(noteCount), Saved!ShowNotes(t, shown)
  PROVE  NotesInv'
<1>1. noteView' \in [Tab -> ViewOf(noteCount)]
  BY DEF NotesInv, Saved!ShowNotes
<1> QED BY <1>1 DEF NotesInv, Saved!ShowNotes, OwnIds, NoteOf, ModalOf, ViewOf

LEMMA StoreNotes ==
  ASSUME NotesInv, noteCount' \in noteCount..MaxChartNotes, NEW t \in Tab,
         NEW list \in Seq(NoteOf(noteCount')), OwnIds(list), Saved!Store(t, list, Saved!NoModal)
  PROVE  NotesInv'
<1>1. noteCount \in Nat /\ noteCount' \in Nat /\ noteCount <= noteCount'
      /\ noteCount' \in 0..MaxChartNotes
  BY DEF NotesInv
<1>2. notes' = list
  BY DEF Saved!Store
<1>3. [list |-> notes', modal |-> Saved!NoModal] \in ViewOf(noteCount')
  BY <1>2, NoModalIsOne DEF ViewOf
<1>4. ViewOf(noteCount) \subseteq ViewOf(noteCount')
  BY <1>1, NotesLast
<1>5. noteView' \in [Tab -> ViewOf(noteCount')]
  BY <1>3, <1>4 DEF NotesInv, Saved!Store
<1>6. (ViewOf(noteCount))' = ViewOf(noteCount') /\ (NoteOf(noteCount))' = NoteOf(noteCount')
  BY DEF ViewOf, ModalOf, NoteOf
<1> QED BY <1>1, <1>2, <1>5, <1>6 DEF NotesInv, OwnIds

\* updateAnnotation keeps every id, addAnnotation makes one that no note had.
LEMMA SaveNoteKeeps ==
  ASSUME NotesInv, NEW t \in Tab, Saved!SaveNote(t)
  PROVE  NotesInv'
<1> DEFINE m == noteView[t].modal
<1>1. /\ noteCount \in Nat /\ notes \in Seq(NoteOf(noteCount)) /\ OwnIds(notes)
      /\ noteView[t] \in ViewOf(noteCount)
  BY DEF NotesInv
<1>2. m.text \in NoteText \ {Saved!Blank} /\ m.date \in Saved!Dates \ {Saved!Blank}
  BY <1>1 DEF ViewOf, ModalOf, Saved!SaveNote
<1>3. CASE m.editing # None
  <2> DEFINE list == Saved!Patched(notes, m)
  <2>1. Saved!Store(t, list, Saved!NoModal) /\ noteCount' = noteCount
    BY <1>3 DEF Saved!SaveNote
  <2>2. ASSUME NEW i \in DOMAIN notes
        PROVE  list[i] \in NoteOf(noteCount) /\ list[i].id = notes[i].id
    <3>1. notes[i] \in NoteOf(noteCount)
      BY <1>1
    <3> HIDE DEF m
    <3> QED BY <1>2, <3>1 DEF NoteOf, Saved!Patched
  <2>3. DOMAIN list = 1..Len(notes) /\ DOMAIN notes = 1..Len(notes)
        /\ Len(notes) \in Nat /\ list = [i \in 1..Len(notes) |-> list[i]]
    BY <1>1 DEF Saved!Patched
  <2> HIDE DEF list
  <2>4. list \in Seq(NoteOf(noteCount)) /\ OwnIds(list)
    BY <1>1, <2>2, <2>3 DEF OwnIds
  <2>5. noteCount' \in noteCount..MaxChartNotes
    BY <2>1, NoteLimit DEF NotesInv
  <2> QED BY <2>1, <2>4, <2>5, StoreNotes
<1>4. CASE m.editing = None
  <2> DEFINE new == [id |-> noteCount + 1, text |-> m.text, date |-> m.date]
             list == Append(notes, new)
  <2>1. Saved!Store(t, list, Saved!NoModal) /\ noteCount' = noteCount + 1
        /\ noteCount < MaxChartNotes
    BY <1>4 DEF Saved!SaveNote
  <2>2. new \in NoteOf(noteCount')
    <3>1. noteCount + 1 \in 1..noteCount'
      BY <1>1, <2>1
    <3> HIDE DEF m
    <3> QED BY <1>2, <3>1 DEF NoteOf
  <2>3. new.id = noteCount + 1
    OBVIOUS
  <2>4. \A i \in DOMAIN notes : notes[i].id \in Nat /\ notes[i].id <= noteCount
    <3>1. \A i \in DOMAIN notes : notes[i] \in NoteOf(noteCount)
      BY <1>1
    <3> QED BY <1>1, <3>1 DEF NoteOf
  <2>5. notes \in Seq(NoteOf(noteCount')) /\ noteCount' \in noteCount..MaxChartNotes
    BY <1>1, <2>1, NotesLast, NoteLimit
  <2> HIDE DEF new
  <2>6. /\ DOMAIN list = DOMAIN notes \cup {Len(notes) + 1}
        /\ list[Len(notes) + 1] = new /\ \A i \in DOMAIN notes : list[i] = notes[i]
        /\ list \in Seq(NoteOf(noteCount'))
    BY <1>1, <2>2, <2>5
  <2> HIDE DEF list
  <2>7. OwnIds(list)
    BY <1>1, <2>3, <2>4, <2>6 DEF OwnIds
  <2> QED BY <2>1, <2>5, <2>6, <2>7, StoreNotes
<1> QED BY <1>3, <1>4

LEMMA DeleteNoteKeeps ==
  ASSUME NotesInv, NEW t \in Tab, Saved!DeleteNote(t)
  PROVE  NotesInv'
<1>1. PICK id : Saved!Store(t, Saved!Without(t, id), Saved!NoModal) /\ noteCount' = noteCount
  BY DEF Saved!DeleteNote
<1> DEFINE S == {n \in Saved!Range(notes) : n.id # id}
<1>2. Saved!Without(t, id) = Kept(notes, S)
  BY OneFilter DEF Saved!Without
<1> HIDE DEF S
<1>3. Kept(notes, S) \in Seq(NoteOf(noteCount)) /\ OwnIds(Kept(notes, S))
  BY KeptFacts, KeptOwnIds DEF NotesInv
<1>4. noteCount' \in noteCount..MaxChartNotes
  BY <1>1, NoteLimit DEF NotesInv
<1> QED BY <1>1, <1>2, <1>3, <1>4, StoreNotes

LEMMA StepNotes == NotesInv /\ [Saved!NotesNext]_(Saved!noteVars) => NotesInv'
<1> SUFFICES ASSUME NotesInv, [Saved!NotesNext]_(Saved!noteVars) PROVE NotesInv'
  OBVIOUS
<1>1. CASE UNCHANGED Saved!noteVars
  BY <1>1 DEF Saved!noteVars, NotesInv, NoteOf, ModalOf, ViewOf, OwnIds
<1>2. ASSUME NEW t \in Tab, Saved!NotesNext!(t) PROVE NotesInv'
  <2>1. noteView[t] \in ViewOf(noteCount)
    BY DEF NotesInv
  <2>2. noteView[t].list \in Seq(NoteOf(noteCount)) /\ noteView[t].modal \in ModalOf(noteCount)
    BY <2>1 DEF ViewOf
  <2>3. ASSUME NEW m \in ModalOf(noteCount), NEW v, Saved!ShowNotes(t, v),
               v = [noteView[t] EXCEPT !.modal = m]
        PROVE  NotesInv'
    <3>1. v \in ViewOf(noteCount)
      BY <2>1, <2>3 DEF ViewOf
    <3> QED BY <2>3, <3>1, ShowNotesKeeps
  <2>4. CASE Saved!LoadNotes(t)
    <3>1. Saved!LoadedNotes \in ViewOf(noteCount)
      BY NoModalIsOne DEF Saved!LoadedNotes, NotesInv, ViewOf
    <3> QED BY <2>4, <3>1, ShowNotesKeeps DEF Saved!LoadNotes
  <2>5. CASE Saved!ClickChart(t)
    <3>1. PICK i \in DOMAIN Label : Saved!ShowNotes(t,
            [noteView[t] EXCEPT !.modal = [Saved!NoModal EXCEPT !.on = TRUE, !.date = Label[i]]])
      BY <2>5 DEF Saved!ClickChart
    <3>2. Label[i] \in Saved!Dates
      BY DEF Saved!Dates, Saved!Range
    <3>3. [Saved!NoModal EXCEPT !.on = TRUE, !.date = Label[i]] \in ModalOf(noteCount)
      BY <3>2, NoModalIsOne DEF ModalOf
    <3> QED BY <2>3, <3>1, <3>3
  <2>6. CASE Saved!EditNote(t)
    <3>1. PICK i \in DOMAIN noteView[t].list : Saved!ShowNotes(t, [noteView[t] EXCEPT
            !.modal = [on |-> TRUE, editing |-> noteView[t].list[i].id,
                       text |-> noteView[t].list[i].text, date |-> noteView[t].list[i].date]])
      BY <2>6 DEF Saved!EditNote
    <3>2. noteView[t].list[i] \in NoteOf(noteCount)
      BY <2>2
    <3>3. [on |-> TRUE, editing |-> noteView[t].list[i].id, text |-> noteView[t].list[i].text,
           date |-> noteView[t].list[i].date] \in ModalOf(noteCount)
      BY <3>2 DEF NoteOf, ModalOf
    <3> QED BY <2>3, <3>1, <3>3
  <2>7. CASE Saved!CloseModal(t)
    BY <2>3, <2>7, NoModalIsOne DEF Saved!CloseModal
  <2>8. CASE Saved!SaveNote(t)
    BY <2>8, SaveNoteKeeps
  <2>9. CASE Saved!DeleteNote(t)
    BY <2>9, DeleteNoteKeeps
  <2>10. ASSUME NEW text \in NoteText \cup {Saved!Blank}, Saved!TypeText(t, text) PROVE NotesInv'
    <3>1. [noteView[t].modal EXCEPT !.text = text] \in ModalOf(noteCount)
      BY <2>2 DEF ModalOf
    <3> QED BY <2>3, <2>10, <3>1 DEF Saved!TypeText
  <2>11. ASSUME NEW date \in Saved!Dates, Saved!PickDate(t, date) PROVE NotesInv'
    <3>1. [noteView[t].modal EXCEPT !.date = date] \in ModalOf(noteCount)
      BY <2>2 DEF ModalOf
    <3> QED BY <2>3, <2>11, <3>1 DEF Saved!PickDate
  <2> QED BY <1>2, <2>4, <2>5, <2>6, <2>7, <2>8, <2>9, <2>10, <2>11
<1> QED BY <1>1, <1>2 DEF Saved!NotesNext

\* Both lists keep what they are asked to, the types among it.
LEMMA SavedKeeps ==
  /\ BookmarksInv => Saved!SavedWithinLimit /\ Saved!BookmarksTypeOK
  /\ NotesInv => Saved!NotesAreComplete
<1>1. ASSUME BookmarksInv PROVE Saved!SavedWithinLimit
  <2>1. \A i \in DOMAIN bookmarks : bookmarks[i] \in Bookmark(ids)
    BY <1>1 DEF BookmarksInv
  <2>2. \A i \in DOMAIN bookmarks : bookmarks[i].name # Saved!Blank
    BY <2>1 DEF Bookmark
  <2> QED BY <1>1, <2>2 DEF BookmarksInv, OwnIds, Saved!SavedWithinLimit
<1>2. ASSUME BookmarksInv PROVE Saved!BookmarksTypeOK
  <2>1. \A t \in Tab : tab[t] \in TabOf(ids)
    BY <1>2 DEF BookmarksInv
  <2>2. \A t \in Tab : tab[t].path \in Url /\ tab[t].open \in BOOLEAN
                       /\ tab[t].renaming \in 1..ids \cup {None}
    BY <2>1 DEF TabOf
  <2> QED BY <1>2, <2>2 DEF BookmarksInv, Saved!BookmarksTypeOK
<1>3. ASSUME NotesInv PROVE Saved!NotesAreComplete
  <2>1. \A i \in DOMAIN notes : notes[i] \in NoteOf(noteCount)
    BY <1>3 DEF NotesInv
  <2>2. \A i \in DOMAIN notes : notes[i].text # Saved!Blank /\ notes[i].date # Saved!Blank
    BY <2>1 DEF NoteOf
  <2> QED BY <1>3, <2>2 DEF NotesInv, OwnIds, Saved!NotesAreComplete
<1> QED BY <1>1, <1>2, <1>3

-----------------------------------------------------------------------------
(* The report's form *)

\* An Array that holds no value twice, all of one set.
Once(S) == {s \in Seq(S) : Report!IsInjective(s)}

LEMMA KeptOnce ==
  ASSUME NEW A, NEW s \in Once(A), NEW S
  PROVE  Kept(s, S) \in Once(A)
<1> DEFINE k == Kept(s, S)
<1>1. s \in Seq(A) /\ \A i, j \in DOMAIN s : s[i] = s[j] => i = j
  BY DEF Once, Report!IsInjective
<1>2. /\ k \in Seq(A)
      /\ \A i, l \in DOMAIN k : i < l =>
           \E j, m \in DOMAIN s : j < m /\ s[j] = k[i] /\ s[m] = k[l]
  BY <1>1, KeptFacts
<1> HIDE DEF k
<1>3. ASSUME NEW i \in DOMAIN k, NEW l \in DOMAIN k, i < l PROVE k[i] # k[l]
  <2>1. PICK j, m \in DOMAIN s : j < m /\ s[j] = k[i] /\ s[m] = k[l]
    BY <1>2, <1>3
  <2>2. j \in Nat /\ m \in Nat
    BY <1>1
  <2> QED BY <1>1, <2>1, <2>2
<1>4. \A i \in DOMAIN k : i \in Nat
  BY <1>2
<1>5. \A i, l \in DOMAIN k : k[i] = k[l] => i = l
  BY <1>3, <1>4
<1> QED BY <1>2, <1>5 DEF Once, Report!IsInjective, k

LEMMA AppendOnce ==
  ASSUME NEW A, NEW s \in Once(A), NEW a \in A, a \notin Report!Range(s)
  PROVE  Append(s, a) \in Once(A)
<1> DEFINE n == Append(s, a)
<1>1. s \in Seq(A) /\ (\A i, j \in DOMAIN s : s[i] = s[j] => i = j) /\ \A i \in DOMAIN s : s[i] # a
  BY DEF Once, Report!IsInjective, Report!Range
<1>2. /\ n \in Seq(A) /\ DOMAIN n = DOMAIN s \cup {Len(s) + 1} /\ n[Len(s) + 1] = a
      /\ \A i \in DOMAIN s : n[i] = s[i]
  BY <1>1
<1> HIDE DEF n
<1>3. \A i, j \in DOMAIN n : n[i] = n[j] => i = j
  BY <1>1, <1>2
<1> QED BY <1>2, <1>3 DEF Once, Report!IsInjective, n

Chosen == [frequency : Frequency, recipients : Once(Recipient), metrics : Once(ReportMetric)]
FormOf ==
  [frequency : Frequency, recipients : Once(Recipient), metrics : Once(ReportMetric),
   input : Recipient \cup {"", Invalid}, error : {"none", "recipient", "no recipient", "no metric"}]

\* The form names addresses and metrics, each once; what is stored names some.
ReportInv ==
  /\ form \in FormOf
  /\ kept # None =>
       kept \in Chosen /\ kept.recipients # << >> /\ kept.metrics # << >>

LEMMA FirstFormIsChosen == DefaultForm \in Chosen
BY BrowserConstants DEF BrowserConstants, Chosen, Once, Report!IsInjective

\* loadConfig: a metric the form does not know is left out.
LEMMA LoadedIsChosen == ReportInv => Report!Untouched(Report!LoadedForm) \in FormOf
<1> SUFFICES ASSUME ReportInv PROVE Report!Untouched(Report!LoadedForm) \in FormOf
  OBVIOUS
<1>1. Report!LoadedForm \in Chosen
  <2>1. CASE kept = None
    BY <2>1, FirstFormIsChosen DEF Report!LoadedForm
  <2>2. CASE kept # None
    <3>1. kept \in Chosen
      BY <2>2 DEF ReportInv
    <3>2. Kept(kept.metrics, ReportMetric) \in Once(ReportMetric)
      BY <3>1, KeptOnce DEF Chosen
    <3>3. [kept EXCEPT !.metrics = Kept(@, ReportMetric)] \in Chosen
      BY <3>1, <3>2 DEF Chosen
    <3> QED BY <2>2, <3>3, OneFilter DEF Report!LoadedForm
  <2> QED BY <2>1, <2>2
<1> QED BY <1>1 DEF Report!Untouched, Chosen, FormOf

LEMMA InitReport == Report!ReportInit => ReportInv
<1>1. Report!Untouched(DefaultForm) \in FormOf
  BY FirstFormIsChosen DEF Report!Untouched, Chosen, FormOf
<1> QED BY <1>1 DEF Report!ReportInit, ReportInv

LEMMA FormKeeps ==
  ASSUME ReportInv, NEW f \in FormOf, Report!OnlyForm(f)
  PROVE  ReportInv'
BY DEF ReportInv, Report!OnlyForm, FormOf, Chosen

\* handleAddRecipient: an address that is there already is refused.
LEMMA AddRecipientKeeps == ReportInv /\ Report!AddRecipient => ReportInv'
<1> SUFFICES ASSUME ReportInv, Report!AddRecipient PROVE ReportInv'
  OBVIOUS
<1>1. form \in FormOf
  BY DEF ReportInv
<1>2. CASE Report!Accepted
  <2>1. form.input \in Recipient /\ form.input \notin Report!Range(form.recipients)
    BY <1>1, <1>2 DEF Report!Accepted, Report!AddRecipient, FormOf
  <2>2. Append(form.recipients, form.input) \in Once(Recipient)
    BY <1>1, <2>1, AppendOnce DEF FormOf
  <2>3. [form EXCEPT !.recipients = Append(@, form.input), !.input = "", !.error = "none"] \in FormOf
    BY <1>1, <2>2 DEF FormOf
  <2> QED BY <1>2, <2>3, FormKeeps DEF Report!AddRecipient
<1>3. CASE ~Report!Accepted
  <2>1. [form EXCEPT !.error = "recipient"] \in FormOf
    BY <1>1 DEF FormOf
  <2> QED BY <1>3, <2>1, FormKeeps DEF Report!AddRecipient
<1> QED BY <1>2, <1>3

LEMMA ToggleMetricKeeps ==
  ASSUME ReportInv, NEW m \in ReportMetric, Report!ToggleMetric(m)
  PROVE  ReportInv'
<1>1. form \in FormOf
  BY DEF ReportInv
<1>2. CASE m \in Report!Range(form.metrics)
  <2>1. Kept(form.metrics, Report!Range(form.metrics) \ {m}) \in Once(ReportMetric)
    BY <1>1, KeptOnce DEF FormOf
  <2>2. [form EXCEPT !.metrics = Kept(@, Report!Range(@) \ {m})] \in FormOf
    BY <1>1, <2>1 DEF FormOf
  <2> QED BY <1>2, <2>2, FormKeeps, OneFilter DEF Report!ToggleMetric
<1>3. CASE m \notin Report!Range(form.metrics)
  <2>1. Append(form.metrics, m) \in Once(ReportMetric)
    BY <1>1, <1>3, AppendOnce DEF FormOf
  <2>2. [form EXCEPT !.metrics = Append(@, m)] \in FormOf
    BY <1>1, <2>1 DEF FormOf
  <2> QED BY <1>3, <2>2, FormKeeps DEF Report!ToggleMetric
<1> QED BY <1>2, <1>3

LEMMA SaveConfigKeeps == ReportInv /\ Report!SaveConfig => ReportInv'
<1> SUFFICES ASSUME ReportInv, Report!SaveConfig PROVE ReportInv'
  OBVIOUS
<1>1. form \in FormOf
  BY DEF ReportInv
<1>2. CASE form.recipients = << >>
  <2>1. [form EXCEPT !.error = "no recipient"] \in FormOf
    BY <1>1 DEF FormOf
  <2> QED BY <1>2, <2>1, FormKeeps DEF Report!SaveConfig
<1>3. CASE form.recipients # << >> /\ form.metrics = << >>
  <2>1. [form EXCEPT !.error = "no metric"] \in FormOf
    BY <1>1 DEF FormOf
  <2> QED BY <1>3, <2>1, FormKeeps DEF Report!SaveConfig
<1>4. CASE form.recipients # << >> /\ form.metrics # << >>
  <2>1. [form EXCEPT !.error = "none"] \in FormOf
    BY <1>1 DEF FormOf
  <2>2. [frequency |-> form.frequency, recipients |-> form.recipients,
         metrics |-> form.metrics] \in Chosen
    BY <1>1 DEF FormOf, Chosen
  <2>3. /\ kept' = [frequency |-> form.frequency, recipients |-> form.recipients,
                    metrics |-> form.metrics]
        /\ form' = [form EXCEPT !.error = "none"]
    BY <1>4 DEF Report!SaveConfig
  <2>4. form' \in FormOf /\ kept' \in Chosen /\ kept'.recipients # << >> /\ kept'.metrics # << >>
    BY <1>4, <2>1, <2>2, <2>3
  <2> QED BY <2>4 DEF ReportInv, FormOf, Chosen
<1> QED BY <1>2, <1>3, <1>4

LEMMA StepReport == ReportInv /\ [Report!ReportNext]_(Report!reportVars) => ReportInv'
<1> SUFFICES ASSUME ReportInv, [Report!ReportNext]_(Report!reportVars) PROVE ReportInv'
  OBVIOUS
<1>1. form \in FormOf
  BY DEF ReportInv
<1>2. ASSUME UNCHANGED <<form, kept>> PROVE ReportInv'
  BY <1>2 DEF ReportInv, FormOf, Chosen
<1>3. CASE Report!BuilderNext
  <2>1. UNCHANGED <<form, kept>>
    BY <1>3 DEF Report!BuilderNext, Report!OpenBuilder, Report!OpenLink, Report!RemoveWidget,
         Report!SaveLayout, Report!OnLayoutChange, Report!AddWidget, Report!DropWidget, Report!Drawn
  <2> QED BY <1>2, <2>1
<1>4. CASE Report!OpenConfig
  BY <1>4, LoadedIsChosen, FormKeeps DEF Report!OpenConfig
<1>5. CASE Report!AddRecipient
  BY <1>5, AddRecipientKeeps
<1>6. CASE Report!RemoveRecipient
  <2>1. PICK a \in Report!Range(form.recipients) : Report!OnlyForm(
          [form EXCEPT !.recipients = Report!Kept(@, Report!Range(@) \ {a})])
    BY <1>6 DEF Report!RemoveRecipient
  <2>2. Kept(form.recipients, Report!Range(form.recipients) \ {a}) \in Once(Recipient)
    BY <1>1, KeptOnce DEF FormOf
  <2>3. [form EXCEPT !.recipients = Report!Kept(@, Report!Range(@) \ {a})] \in FormOf
    BY <1>1, <2>2, OneFilter DEF FormOf
  <2> QED BY <2>1, <2>3, FormKeeps
<1>7. CASE Report!SaveConfig
  BY <1>7, SaveConfigKeeps
<1>8. ASSUME NEW a \in Recipient \cup {Invalid}, Report!TypeAddress(a) PROVE ReportInv'
  <2>1. [form EXCEPT !.input = a] \in FormOf
    BY <1>1 DEF FormOf
  <2> QED BY <1>8, <2>1, FormKeeps DEF Report!TypeAddress
<1>9. ASSUME NEW m \in ReportMetric, Report!ToggleMetric(m) PROVE ReportInv'
  BY <1>9, ToggleMetricKeeps
<1>10. ASSUME NEW f \in Frequency, Report!PickFrequency(f) PROVE ReportInv'
  <2>1. [form EXCEPT !.frequency = f] \in FormOf
    BY <1>1 DEF FormOf
  <2> QED BY <1>10, <2>1, FormKeeps DEF Report!PickFrequency
<1>11. CASE UNCHANGED Report!reportVars
  BY <1>2, <1>11 DEF Report!reportVars
<1> QED BY <1>3, <1>4, <1>5, <1>6, <1>7, <1>8, <1>9, <1>10, <1>11
        DEF Report!ReportNext, Report!ConfigNext

LEMMA ReportKeeps == ReportInv => Report!SavedReportIsSendable
<1> SUFFICES ASSUME ReportInv, kept # None PROVE Report!SavedReportIsSendable
  BY DEF Report!SavedReportIsSendable
<1>1. /\ kept.recipients \in Seq(Recipient) /\ Report!IsInjective(kept.recipients)
      /\ kept.metrics \in Seq(ReportMetric) /\ Report!IsInjective(kept.metrics)
      /\ kept.recipients # << >> /\ kept.metrics # << >>
  BY DEF ReportInv, Chosen, Once
<1>2. Report!Range(kept.recipients) \subseteq Recipient /\ Report!Range(kept.metrics) \subseteq ReportMetric
  BY <1>1 DEF Report!Range
<1> QED BY <1>1, <1>2 DEF Report!SavedReportIsSendable

-----------------------------------------------------------------------------
(* Live widgets *)

TeamOf ==
  [cursor : 1..Edge, cursorIn : 1..CursorEvery, feedIn : 1..FeedEvery, feed : 0..FeedKeep,
   notes : Nat, text : BOOLEAN]
PlayerOf == [session : Session, at : Nat, playing : BOOLEAN, runs : Seq(Session)]
HomeOf ==
  [stage : Int, count : Nat, shown : Int, frames : Int, list : Seq(Int), news : Int,
   flash : BOOLEAN, pulse : BOOLEAN]

\* The feeds have room, and what plays is moved by an interval.
WidgetsInv ==
  /\ team \in TeamOf
  /\ player \in PlayerOf /\ Widgets!PlayerMoves
  /\ home \in HomeOf /\ Len(home.list) <= Keep

LEMMA WidgetConstants ==
  /\ CursorEvery \in Nat \ {0} /\ FeedEvery \in Nat \ {0} /\ Edge \in Nat \ {0}
  /\ FeedKeep \in Nat /\ 8 <= FeedKeep /\ Keep \in Nat /\ 2 <= Keep
  /\ Batch \subseteq Nat /\ Length \in [Session -> Nat]
BY BrowserConstants DEF BrowserConstants

LEMMA InitWidgets == Widgets!WidgetsInit => WidgetsInv
<1> SUFFICES ASSUME Widgets!WidgetsInit PROVE WidgetsInv
  OBVIOUS
<1>1. team \in TeamOf
  BY WidgetConstants DEF Widgets!WidgetsInit, TeamOf
<1>2. PICK s \in Session : player = [session |-> s, at |-> 0, playing |-> FALSE, runs |-> << >>]
  BY DEF Widgets!WidgetsInit
<1>3. player \in PlayerOf /\ Widgets!PlayerMoves
  BY <1>2, WidgetConstants DEF PlayerOf, Widgets!PlayerMoves
<1>4. home \in HomeOf /\ Len(home.list) <= Keep
  <2>1. PICK n \in Batch : home = [stage |-> 0, count |-> n, shown |-> n, frames |-> 2,
              list |-> <<0, -1>>, news |-> 0, flash |-> FALSE, pulse |-> FALSE]
    BY DEF Widgets!WidgetsInit
  <2>2. <<0, -1>> \in Seq(Int) /\ Len(<<0, -1>>) = 2
    OBVIOUS
  <2> QED BY <2>1, <2>2, WidgetConstants DEF HomeOf
<1> QED BY <1>1, <1>3, <1>4 DEF WidgetsInv

LEMMA StepTeam == team \in TeamOf /\ Widgets!TeamNext => team' \in TeamOf
<1> SUFFICES ASSUME team \in TeamOf, Widgets!TeamNext PROVE team' \in TeamOf
  OBVIOUS
<1> USE WidgetConstants
<1>1. CASE Widgets!TeamTick
  <2>1. CASE team.cursorIn = 1
    <3>1. PICK d \in {-1, 0, 1} : team' = [team EXCEPT !.cursor = Widgets!Clamped(@ + d),
                                             !.cursorIn = CursorEvery, !.feedIn = FeedEvery]
      BY <1>1, <2>1 DEF Widgets!TeamTick, Widgets!OnlyTeam
    <3>2. team.cursor \in 1..Edge
      BY DEF TeamOf
    <3>3. Widgets!Clamped(team.cursor + d) \in 1..Edge
      BY <3>2 DEF Widgets!Clamped, Widgets!Low
    <3>4. CursorEvery \in 1..CursorEvery /\ FeedEvery \in 1..FeedEvery
      OBVIOUS
    <3> QED BY <3>1, <3>3, <3>4 DEF TeamOf
  <2>2. CASE team.cursorIn # 1
    <3>1. /\ team.cursorIn - 1 \in 1..CursorEvery
          /\ (team.feedIn # 1 => team.feedIn - 1 \in 1..FeedEvery)
          /\ Widgets!Low(team.feed + 1, FeedKeep) \in 0..FeedKeep
          /\ FeedEvery \in 1..FeedEvery
      BY <2>2 DEF TeamOf, Widgets!Low
    <3>2. CASE team.feedIn = 1
      <4>1. team' = [team EXCEPT !.cursorIn = @ - 1, !.feedIn = FeedEvery,
                                 !.feed = Widgets!Low(@ + 1, FeedKeep)]
        BY <1>1, <2>2, <3>2 DEF Widgets!TeamTick, Widgets!OnlyTeam
      <4> QED BY <3>1, <4>1 DEF TeamOf
    <3>3. CASE team.feedIn # 1
      <4>1. team' = [team EXCEPT !.cursorIn = @ - 1, !.feedIn = @ - 1]
        BY <1>1, <2>2, <3>3 DEF Widgets!TeamTick, Widgets!OnlyTeam
      <4> QED BY <3>1, <3>3, <4>1 DEF TeamOf
    <3> QED BY <3>2, <3>3
  <2> QED BY <2>1, <2>2
<1>2. CASE Widgets!AddNote
  <2>1. team.notes + 1 \in Nat
    BY DEF TeamOf
  <2> QED BY <1>2, <2>1 DEF Widgets!AddNote, Widgets!OnlyTeam, TeamOf
<1>3. ASSUME NEW text \in BOOLEAN, Widgets!TypeNote(text) PROVE team' \in TeamOf
  BY <1>3 DEF Widgets!TypeNote, Widgets!OnlyTeam, TeamOf
<1> QED BY <1>1, <1>2, <1>3 DEF Widgets!TeamNext

\* An interval ends itself and pauses the player; so what plays has one left.
LEMMA PlayerPlays == ASSUME player \in PlayerOf, NEW b \in BOOLEAN, NEW more \in Seq(Session)
                     PROVE  [player EXCEPT !.playing = b, !.runs = more] \in PlayerOf
BY DEF PlayerOf

LEMMA StepPlayer ==
  player \in PlayerOf /\ Widgets!PlayerMoves /\ Widgets!PlayerNext
    => player' \in PlayerOf /\ Widgets!PlayerMoves'
<1> SUFFICES ASSUME player \in PlayerOf, Widgets!PlayerMoves, Widgets!PlayerNext
             PROVE  player' \in PlayerOf /\ Widgets!PlayerMoves'
  OBVIOUS
<1> USE WidgetConstants
<1>1. CASE Widgets!TogglePlay
  <2>1. CASE player.playing
    BY <1>1, <2>1 DEF Widgets!TogglePlay, Widgets!OnlyPlayer, PlayerOf, Widgets!PlayerMoves
  <2>2. CASE ~player.playing
    <3> DEFINE more == Append(player.runs, player.session)
    <3>1. player' = [player EXCEPT !.playing = TRUE, !.runs = more]
      BY <1>1, <2>2 DEF Widgets!TogglePlay, Widgets!OnlyPlayer
    <3>0. player.runs \in Seq(Session) /\ player.session \in Session
      BY DEF PlayerOf
    <3>2. more \in Seq(Session) /\ more # << >>
      BY <3>0
    <3> HIDE DEF more
    <3>3. player' \in PlayerOf
      BY <3>1, <3>2, PlayerPlays
    <3>4. player'.runs = more /\ player'.at = player.at
      BY <3>1 DEF PlayerOf
    <3> QED BY <3>2, <3>3, <3>4 DEF Widgets!PlayerMoves
  <2> QED BY <2>1, <2>2
<1>2. CASE Widgets!Reset
  <2>1. player.session \in Session
    BY DEF PlayerOf
  <2>2. player' = [player EXCEPT !.at = 0, !.playing = FALSE]
    BY <1>2 DEF Widgets!Reset, Widgets!OnlyPlayer
  <2>3. player' \in PlayerOf /\ player'.at = 0 /\ ~player'.playing
    BY <2>2 DEF PlayerOf
  <2> QED BY <2>1, <2>3 DEF Widgets!PlayerMoves
<1>3. CASE Widgets!Scrub
  <2>1. PICK at \in 0..Length[player.session] : player' = [player EXCEPT !.at = at]
    BY <1>3 DEF Widgets!Scrub, Widgets!OnlyPlayer
  <2>2. player.session \in Session /\ Length[player.session] \in Nat
    BY DEF PlayerOf
  <2>3. /\ at \in Nat /\ player'.at = at
        /\ player'.playing = player.playing /\ player'.runs = player.runs
    BY <2>1, <2>2 DEF PlayerOf
  <2>4. player' \in PlayerOf
    BY <2>1, <2>3 DEF PlayerOf
  <2> QED BY <2>2, <2>3, <2>4 DEF Widgets!PlayerMoves
<1>4. CASE Widgets!Second
  <2>1. PICK i \in DOMAIN player.runs : player' =
          IF Widgets!Ended(i) THEN [player EXCEPT !.playing = FALSE, !.runs = Widgets!Spliced(@, i)]
          ELSE [player EXCEPT !.at = @ + 1]
    BY <1>4 DEF Widgets!Second, Widgets!OnlyPlayer
  <2>2. player.runs \in Seq(Session) /\ player.runs[i] \in Session /\ Length[player.runs[i]] \in Nat
    BY DEF PlayerOf
  <2>3. CASE Widgets!Ended(i)
    <3>1. Widgets!Spliced(player.runs, i) \in Seq(Session)
      <4>1. i \in 1..Len(player.runs) /\ Len(player.runs) \in Nat
        BY <2>2
      <4>2. /\ SubSeq(player.runs, 1, i - 1) \in Seq(Session)
            /\ SubSeq(player.runs, i + 1, Len(player.runs)) \in Seq(Session)
        BY <2>2, <4>1
      <4> QED BY <4>2 DEF Widgets!Spliced
    <3>2. /\ player' \in PlayerOf /\ ~player'.playing /\ player'.at = player.at
      BY <2>1, <2>3, <3>1 DEF PlayerOf
    <3> QED BY <3>2 DEF Widgets!PlayerMoves
  <2>4. CASE ~Widgets!Ended(i)
    <3>1. /\ player' \in PlayerOf /\ player'.at = player.at + 1
          /\ player'.playing = player.playing /\ player'.runs = player.runs
      BY <2>1, <2>4 DEF PlayerOf
    <3>2. player.at \in Nat /\ player.at < Length[player.runs[i]]
      BY <2>2, <2>4 DEF PlayerOf, Widgets!Ended
    <3>3. player'.at <= Length[player.runs[i]]
      BY <2>2, <3>1, <3>2
    <3> QED BY <2>2, <3>1, <3>3 DEF Widgets!PlayerMoves
  <2> QED BY <2>3, <2>4
<1>5. ASSUME NEW s \in Session, Widgets!SelectSession(s)
      PROVE  player' \in PlayerOf /\ Widgets!PlayerMoves'
  BY <1>5 DEF Widgets!SelectSession, Widgets!OnlyPlayer, PlayerOf, Widgets!PlayerMoves
<1> QED BY <1>1, <1>2, <1>3, <1>4, <1>5 DEF Widgets!PlayerNext

LEMMA StepHome ==
  home \in HomeOf /\ Len(home.list) <= Keep /\ Widgets!HomeNext
    => home' \in HomeOf /\ Len(home'.list) <= Keep
<1> SUFFICES ASSUME home \in HomeOf, Len(home.list) <= Keep, Widgets!HomeNext
             PROVE  home' \in HomeOf /\ Len(home'.list) <= Keep
  OBVIOUS
<1>1. CASE Widgets!Load
  BY <1>1 DEF Widgets!Load, Widgets!OnlyHome, HomeOf
<1>2. CASE Widgets!Frame
  <2>1. PICK n \in (IF home.frames = 1 THEN {home.count}
                    ELSE (IF home.list = <<0, -1>> THEN 0 ELSE home.shown)..home.count) :
          home' = [home EXCEPT !.shown = n, !.frames = @ - 1]
    BY <1>2 DEF Widgets!Frame, Widgets!OnlyHome
  <2>2. n \in Int /\ home.frames - 1 \in Int
    BY DEF HomeOf
  <2> QED BY <2>1, <2>2 DEF HomeOf
<1>3. CASE Widgets!FlashEnds \/ Widgets!NewsEnds \/ Widgets!PulseEnds
  <2>1. \/ home' = [home EXCEPT !.flash = FALSE]
        \/ home' = [home EXCEPT !.news = 0]
        \/ home' = [home EXCEPT !.pulse = FALSE]
    BY <1>3 DEF Widgets!FlashEnds, Widgets!NewsEnds, Widgets!PulseEnds, Widgets!OnlyHome
  <2>2. 0 \in Int
    OBVIOUS
  <2> QED BY <2>1, <2>2 DEF HomeOf
<1>4. ASSUME NEW n \in Batch, Widgets!Gists(n)
      PROVE  home' \in HomeOf /\ Len(home'.list) <= Keep
  <2> DEFINE new == [i \in 1..n |-> home.count + n + 1 - i]
  <2>1. n \in Nat /\ home.count \in Nat /\ home.list \in Seq(Int) /\ Len(home.list) \in Nat
    BY WidgetConstants DEF HomeOf
  <2>2. new \in Seq(Int) /\ Len(new) = n
    BY <2>1
  <2>3. home' = [home EXCEPT !.count = @ + n, !.frames = 2, !.list = Widgets!Listed(new, n),
                             !.news = Widgets!Low(n, Keep), !.flash = TRUE, !.pulse = TRUE]
    BY <1>4 DEF Widgets!Gists, Widgets!OnlyHome
  <2> HIDE DEF new
  <2>4. Widgets!Listed(new, n) \in Seq(Int) /\ Len(Widgets!Listed(new, n)) <= Keep
    <3> DEFINE all == new \o home.list
               to == Widgets!Low(Keep, n + Len(home.list))
    <3>0. home.list \in Seq(Int)
      BY <2>1
    <3>1. all \in Seq(Int) /\ Len(all) = n + Len(home.list)
      BY <2>2, <3>0, ConcatProperties
    <3>2. to \in 0..Len(all) /\ to <= Keep
      BY <2>1, <3>1, WidgetConstants DEF Widgets!Low
    <3> HIDE DEF all, to
    <3>3. SubSeq(all, 1, to) \in Seq(Int) /\ Len(SubSeq(all, 1, to)) = to
      BY <3>1, <3>2
    <3> QED BY <3>2, <3>3 DEF Widgets!Listed, all, to
  <2>5. Widgets!Low(n, Keep) \in Int /\ home.count + n \in Nat /\ 2 \in Int
    BY <2>1, WidgetConstants DEF Widgets!Low
  <2>6. ASSUME NEW list \in Seq(Int), NEW news \in Int, NEW count \in Nat, NEW frames \in Int,
               home' = [home EXCEPT !.count = count, !.frames = frames, !.list = list,
                                    !.news = news, !.flash = TRUE, !.pulse = TRUE]
        PROVE  home' \in HomeOf /\ home'.list = list
    BY <2>6 DEF HomeOf
  <2> QED BY <2>3, <2>4, <2>5, <2>6
<1> QED BY <1>1, <1>2, <1>3, <1>4 DEF Widgets!HomeNext

WidgetsNext == Widgets!TeamNext \/ Widgets!PlayerNext \/ Widgets!HomeNext

LEMMA StepWidgets == WidgetsInv /\ [WidgetsNext]_(Widgets!widgetVars) => WidgetsInv'
<1> SUFFICES ASSUME WidgetsInv, [WidgetsNext]_(Widgets!widgetVars) PROVE WidgetsInv'
  OBVIOUS
<1>0. /\ (TeamOf)' = TeamOf /\ (PlayerOf)' = PlayerOf /\ (HomeOf)' = HomeOf
      /\ (UNCHANGED player => Widgets!PlayerMoves' = Widgets!PlayerMoves)
  BY DEF TeamOf, PlayerOf, HomeOf, Widgets!PlayerMoves
<1>1. CASE Widgets!TeamNext
  <2>1. UNCHANGED <<player, home>>
    BY <1>1 DEF Widgets!TeamNext, Widgets!TeamTick, Widgets!AddNote, Widgets!TypeNote, Widgets!OnlyTeam
  <2> QED BY <1>0, <1>1, <2>1, StepTeam DEF WidgetsInv
<1>2. CASE Widgets!PlayerNext
  <2>1. UNCHANGED <<team, home>>
    BY <1>2 DEF Widgets!PlayerNext, Widgets!TogglePlay, Widgets!Reset, Widgets!Scrub,
         Widgets!Second, Widgets!SelectSession, Widgets!OnlyPlayer
  <2> QED BY <1>0, <1>2, <2>1, StepPlayer DEF WidgetsInv
<1>3. CASE Widgets!HomeNext
  <2>1. UNCHANGED <<team, player>>
    BY <1>3 DEF Widgets!HomeNext, Widgets!Load, Widgets!Frame, Widgets!FlashEnds,
         Widgets!NewsEnds, Widgets!PulseEnds, Widgets!Gists, Widgets!OnlyHome
  <2> QED BY <1>0, <1>3, <2>1, StepHome DEF WidgetsInv
<1>4. CASE UNCHANGED Widgets!widgetVars
  BY <1>0, <1>4 DEF Widgets!widgetVars, WidgetsInv
<1> QED BY <1>1, <1>2, <1>3, <1>4 DEF WidgetsNext

LEMMA WidgetsKeep == WidgetsInv => Widgets!FeedsAreBounded /\ Widgets!PlayerMoves
BY WidgetConstants DEF WidgetsInv, Widgets!FeedsAreBounded, TeamOf

-----------------------------------------------------------------------------
(* Forms: settings and mail *)

SettingsOf ==
  [prefs : Forms!Prefs, stored : Forms!Prefs \cup {None}, status : BOOLEAN, error : BOOLEAN,
   sent : BOOLEAN, timers : Nat]
MailOf ==
  [to : DOMAIN Address, note : DOMAIN Address \cup {None, "invalid"},
   opened : SUBSET DOMAIN Address]

\* What is stored was valid when it was, and a message has a timer.
SettingsInv ==
  /\ settings \in SettingsOf
  /\ settings.stored # None => Forms!Valid(settings.stored)
  /\ settings.sent => settings.timers > 0
MailInv == mail \in MailOf /\ \A a \in mail.opened : Address[a]

LEMMA FirstPrefs == Forms!DefaultPrefs \in Forms!Prefs
BY DEF Forms!DefaultPrefs, Forms!Prefs

LEMMA InitSettings == Forms!FormsInit => SettingsInv /\ MailInv
<1> SUFFICES ASSUME Forms!FormsInit PROVE SettingsInv /\ MailInv
  OBVIOUS
<1>1. SettingsInv
  BY FirstPrefs DEF Forms!FormsInit, SettingsInv, SettingsOf
<1>2. MailInv
  BY DEF Forms!FormsInit, MailInv, MailOf
<1> QED BY <1>1, <1>2

LEMMA StepSettings == SettingsInv /\ Forms!SettingsNext => SettingsInv'
<1> SUFFICES ASSUME SettingsInv, Forms!SettingsNext PROVE SettingsInv'
  OBVIOUS
<1>0. settings \in SettingsOf
  BY DEF SettingsInv
<1>1. CASE Forms!EditPrefs
  <2>1. PICK p \in Forms!Prefs : settings' = [settings EXCEPT !.prefs = p]
    BY <1>1 DEF Forms!EditPrefs, Forms!OnlySettings
  <2> QED BY <2>1 DEF SettingsInv, SettingsOf, Forms!Valid, Forms!Prefs
<1>2. CASE Forms!SavePrefs
  <2>1. CASE Forms!Valid(settings.prefs)
    <3>1. settings' = [settings EXCEPT !.stored = settings.prefs, !.status = TRUE, !.error = FALSE]
      BY <1>2, <2>1 DEF Forms!SavePrefs, Forms!OnlySettings
    <3>2. /\ settings' \in SettingsOf /\ settings'.stored = settings.prefs
          /\ settings'.sent = settings.sent /\ settings'.timers = settings.timers
      BY <1>0, <3>1 DEF SettingsOf
    <3>3. Forms!Valid(settings'.stored)
      BY <2>1, <3>2
    <3> QED BY <3>2, <3>3 DEF SettingsInv, SettingsOf, Forms!Prefs, Forms!Valid
  <2>2. CASE ~Forms!Valid(settings.prefs)
    <3>1. settings' = [settings EXCEPT !.error = TRUE]
      BY <1>2, <2>2 DEF Forms!SavePrefs, Forms!OnlySettings
    <3> QED BY <3>1 DEF SettingsInv, SettingsOf, Forms!Valid, Forms!Prefs
  <2> QED BY <2>1, <2>2
<1>3. CASE Forms!Reopen
  <2>1. (IF settings.stored = None THEN Forms!DefaultPrefs ELSE settings.stored) \in Forms!Prefs
    BY <1>0, FirstPrefs DEF SettingsOf
  <2> QED BY <1>3, <2>1 DEF Forms!Reopen, Forms!OnlySettings, SettingsInv, SettingsOf,
             Forms!Valid, Forms!Prefs
<1>4. ASSUME NEW b \in BOOLEAN, NEW e \in BOOLEAN, NEW k \in Nat, b => k > 0,
             settings' = [settings EXCEPT !.sent = b, !.error = e, !.timers = k]
      PROVE  SettingsInv'
  <2>1. settings \in SettingsOf /\ (settings.stored # None => Forms!Valid(settings.stored))
    BY DEF SettingsInv
  <2>2. settings' \in SettingsOf
    BY <1>4, <2>1 DEF SettingsOf
  <2>3. settings'.stored = settings.stored /\ settings'.sent = b /\ settings'.timers = k
    BY <1>4, <2>1 DEF SettingsOf
  <2>4. settings'.sent => settings'.timers > 0
    BY <1>4, <2>3
  <2> QED BY <2>1, <2>2, <2>3, <2>4 DEF SettingsInv, SettingsOf, Forms!Prefs, Forms!Valid
<1>5. CASE Forms!SendTest \/ Forms!TestEnds
  <2>1. /\ settings.timers \in Nat /\ settings.sent \in BOOLEAN /\ settings.error \in BOOLEAN
        /\ settings.sent => settings.timers > 0
    BY DEF SettingsInv, SettingsOf
  <2>2. \/ settings' = [settings EXCEPT !.error = TRUE]
        \/ settings' = [settings EXCEPT !.sent = TRUE, !.error = FALSE, !.timers = @ + 1]
        \/ settings.timers > 0 /\ settings' = [settings EXCEPT !.timers = @ - 1, !.sent = FALSE]
    BY <1>5 DEF Forms!SendTest, Forms!TestEnds, Forms!OnlySettings
  <2>3. \/ settings' = [settings EXCEPT !.sent = settings.sent, !.error = TRUE, !.timers = settings.timers]
        \/ settings' = [settings EXCEPT !.sent = TRUE, !.error = FALSE, !.timers = settings.timers + 1]
        \/ settings.timers > 0 /\ settings' = [settings EXCEPT !.sent = FALSE, !.error = settings.error, !.timers = settings.timers - 1]
    BY <2>2 DEF SettingsInv, SettingsOf
  <2>4. settings.timers + 1 \in Nat /\ settings.timers + 1 > 0
        /\ (settings.timers > 0 => settings.timers - 1 \in Nat)
    BY <2>1
  <2> QED BY <1>4, <2>1, <2>3, <2>4
<1> QED BY <1>1, <1>2, <1>3, <1>5 DEF Forms!SettingsNext

LEMMA StepMail == MailInv /\ Forms!MailNext => MailInv'
<1> SUFFICES ASSUME MailInv, Forms!MailNext PROVE MailInv'
  OBVIOUS
<1>1. CASE Forms!TypeRecipient
  BY <1>1 DEF Forms!TypeRecipient, Forms!OnlyMail, MailInv, MailOf
<1>2. CASE Forms!TestSend
  <2>1. CASE Address[mail.to]
    <3>1. mail' = [mail EXCEPT !.opened = @ \cup {mail.to}, !.note = mail.to]
      BY <1>2, <2>1 DEF Forms!TestSend, Forms!OnlyMail
    <3> QED BY <2>1, <3>1 DEF MailInv, MailOf
  <2>2. CASE ~Address[mail.to]
    <3>1. mail' = [mail EXCEPT !.note = "invalid"]
      BY <1>2, <2>2 DEF Forms!TestSend, Forms!OnlyMail
    <3> QED BY <3>1 DEF MailInv, MailOf
  <2> QED BY <2>1, <2>2
<1> QED BY <1>1, <1>2 DEF Forms!MailNext

-----------------------------------------------------------------------------
(* Forms: the query builder *)

\* Filters numbered below n, each once; columns of their part, each once.
FiltersOf(n) == {f \in Seq([id : 1..(n - 1), value : FilterValue]) : OwnIds(f)}
ColumnsOf == {c \in [DOMAIN QueryColumn -> Seq(UNION {QueryColumn[p] : p \in DOMAIN QueryColumn})] :
                \A p \in DOMAIN QueryColumn : c[p] \in Once(QueryColumn[p])}
QueryOf(n) ==
  [columns : ColumnsOf, filters : FiltersOf(n), next : {n}, name : BOOLEAN,
   saved : Seq([columns : ColumnsOf, filters : FiltersOf(n)])]

\* The builder's filters and those of every saved query keep their numbers.
QueryInv == query.next \in Nat \ {0} /\ query \in QueryOf(query.next)

LEMMA FirstColumnsAreOnce == FirstColumns \in ColumnsOf
BY BrowserConstants DEF BrowserConstants, ColumnsOf, Once, Report!IsInjective

LEMMA FiltersLast ==
  ASSUME NEW n \in Nat
  PROVE  FiltersOf(n) \subseteq FiltersOf(n + 1)
<1>1. 1..(n - 1) \subseteq 1..((n + 1) - 1)
  OBVIOUS
<1> DEFINE A == [id : 1..(n - 1), value : FilterValue]
           B == [id : 1..((n + 1) - 1), value : FilterValue]
<1>2. A \subseteq B
  BY <1>1
<1> HIDE DEF A, B
<1>3. Seq(A) \subseteq Seq(B)
  BY <1>2
<1> QED BY <1>3 DEF FiltersOf, A, B

LEMMA InitQuery == Forms!FormsInit => QueryInv
<1>1. << >> \in FiltersOf(1)
  BY DEF FiltersOf, OwnIds
<1>2. \A S : << >> \in Seq(S)
  OBVIOUS
<1> QED BY <1>1, <1>2, FirstColumnsAreOnce DEF Forms!FormsInit, QueryInv, QueryOf

\* Taking a place out of a sequence moves those behind it by one.
LEMMA SeqElements == ASSUME NEW S, NEW s \in Seq(S) PROVE \A i \in DOMAIN s : s[i] \in S
OBVIOUS

LEMMA SeqOfMore == ASSUME NEW S, NEW T, S \subseteq T, NEW s \in Seq(S) PROVE s \in Seq(T)
OBVIOUS

LEMMA RemoveAtPlaces ==
  ASSUME NEW A, NEW s \in Seq(A), NEW i \in DOMAIN s
  PROVE  LET t == SubSeq(s, 1, i - 1) \o SubSeq(s, i + 1, Len(s)) IN
         /\ t \in Seq(A) /\ Len(t) = Len(s) - 1
         /\ \A k \in DOMAIN t : t[k] = s[IF k < i THEN k ELSE k + 1]
<1> DEFINE a == SubSeq(s, 1, i - 1)
           b == SubSeq(s, i + 1, Len(s))
           t == a \o b
<1>1. i \in 1..Len(s) /\ Len(s) \in Nat
  OBVIOUS
<1>2. /\ a \in Seq(A) /\ Len(a) = i - 1 /\ \A k \in 1..(i - 1) : a[k] = s[k]
      /\ b \in Seq(A) /\ Len(b) = Len(s) - i /\ \A k \in 1..(Len(s) - i) : b[k] = s[k + i]
  BY <1>1
<1> HIDE DEF a, b
<1>3. t \in Seq(A) /\ Len(t) = Len(s) - 1 /\ DOMAIN t = 1..(Len(s) - 1)
  BY <1>1, <1>2
<1>4. ASSUME NEW k \in DOMAIN t PROVE t[k] = s[IF k < i THEN k ELSE k + 1]
  <2>1. CASE k < i
    BY <1>1, <1>2, <1>3, <2>1
  <2>2. CASE k >= i
    <3>1. t[k] = b[k - (i - 1)] /\ k - (i - 1) \in 1..(Len(s) - i)
      BY <1>1, <1>2, <1>3, <2>2
    <3> QED BY <1>1, <1>2, <1>3, <2>2, <3>1
  <2> QED BY <1>1, <1>3, <2>1, <2>2
<1> QED BY <1>3, <1>4 DEF a, b

LEMMA StepColumns ==
  ASSUME NEW columns \in ColumnsOf, NEW p \in DOMAIN QueryColumn, NEW c \in QueryColumn[p]
  PROVE  [columns EXCEPT ![p] = IF c \in Forms!Range(@) THEN Forms!Kept(@, Forms!Range(@) \ {c})
                                ELSE Append(@, c)] \in ColumnsOf
<1> DEFINE all == UNION {QueryColumn[q] : q \in DOMAIN QueryColumn}
           s == columns[p]
           new == IF c \in Forms!Range(s) THEN Forms!Kept(s, Forms!Range(s) \ {c}) ELSE Append(s, c)
<1>1. s \in Once(QueryColumn[p]) /\ s \in Seq(QueryColumn[p])
  BY DEF ColumnsOf, Once
<1>2. new \in Once(QueryColumn[p])
  <2>1. CASE c \in Forms!Range(s)
    <3>1. Kept(s, Forms!Range(s) \ {c}) \in Once(QueryColumn[p])
      BY <1>1, KeptOnce
    <3> QED BY <2>1, <3>1, OneFilter
  <2>2. CASE ~ c \in Forms!Range(s)
    <3>1. c \notin Report!Range(s)
      BY <1>1, <2>2 DEF Forms!Range, Report!Range
    <3>2. Append(s, c) \in Once(QueryColumn[p])
      BY <1>1, <3>1, AppendOnce
    <3> QED BY <2>2, <3>2
  <2> QED BY <2>1, <2>2
<1>3. new \in Seq(all)
  <2>1. new \in Seq(QueryColumn[p]) /\ QueryColumn[p] \subseteq all
    BY <1>2 DEF Once
  <2> HIDE DEF new, all
  <2> QED BY <2>1
<1> HIDE DEF new, all, s
<1>4. [columns EXCEPT ![p] = new] \in ColumnsOf
  BY <1>2, <1>3 DEF ColumnsOf, all
<1> QED BY <1>4 DEF new, s

LEMMA StepQuery == QueryInv /\ Forms!QueryNext => QueryInv'
<1> SUFFICES ASSUME QueryInv, Forms!QueryNext PROVE QueryInv'
  OBVIOUS
<1> DEFINE n == query.next
<1>1. n \in Nat \ {0} /\ query \in QueryOf(n)
  BY DEF QueryInv
<1> HIDE DEF n
<1>2. /\ query.columns \in ColumnsOf /\ query.filters \in FiltersOf(n) /\ query.next = n
      /\ query.saved \in Seq([columns : ColumnsOf, filters : FiltersOf(n)])
  BY <1>1 DEF QueryOf
<1>3. ASSUME query' \in QueryOf(n) PROVE QueryInv'
  <2>1. query'.next = n
    BY <1>3 DEF QueryOf
  <2> QED BY <1>1, <1>3, <2>1 DEF QueryInv, QueryOf, ColumnsOf, Once, Report!IsInjective,
          FiltersOf, OwnIds
<1>4. CASE Forms!ToggleColumn
  <2>1. PICK p \in DOMAIN QueryColumn : \E c \in QueryColumn[p] : query' =
          [query EXCEPT !.columns[p] = IF c \in Forms!Range(@)
             THEN Forms!Kept(@, Forms!Range(@) \ {c}) ELSE Append(@, c)]
    BY <1>4 DEF Forms!ToggleColumn, Forms!OnlyQuery
  <2>2. PICK c \in QueryColumn[p] : query' =
          [query EXCEPT !.columns[p] = IF c \in Forms!Range(@)
             THEN Forms!Kept(@, Forms!Range(@) \ {c}) ELSE Append(@, c)]
    BY <2>1
  <2> DEFINE columns == [query.columns EXCEPT ![p] = IF c \in Forms!Range(@)
             THEN Forms!Kept(@, Forms!Range(@) \ {c}) ELSE Append(@, c)]
  <2>3. columns \in ColumnsOf
    BY <1>2, StepColumns
  <2>4. query' = [query EXCEPT !.columns = columns]
    BY <2>2
  <2> HIDE DEF columns
  <2>5. query' \in QueryOf(n)
    BY <1>1, <2>3, <2>4 DEF QueryOf
  <2> QED BY <1>3, <2>5
<1>5. CASE Forms!AddFilter
  <2>1. PICK v \in FilterValue : query' =
          [query EXCEPT !.filters = Append(@, [id |-> query.next, value |-> v]), !.next = @ + 1]
    BY <1>5 DEF Forms!AddFilter, Forms!OnlyQuery
  <2> DEFINE new == [id |-> n, value |-> v]
             filters == Append(query.filters, new)
  <2>2. query.filters \in Seq([id : 1..(n - 1), value : FilterValue]) /\ OwnIds(query.filters)
    BY <1>2 DEF FiltersOf
  <2>3. \A i \in DOMAIN query.filters : query.filters[i].id \in 1..(n - 1)
    <3>1. \A i \in DOMAIN query.filters : query.filters[i] \in [id : 1..(n - 1), value : FilterValue]
      BY <2>2, SeqElements
    <3> QED BY <3>1
  <2>4. query.filters \in Seq([id : 1..((n + 1) - 1), value : FilterValue])
        /\ new \in [id : 1..((n + 1) - 1), value : FilterValue] /\ new.id = n
    <3>1. query.filters \in FiltersOf(n + 1)
      BY <1>1, <1>2, FiltersLast
    <3>2. n \in 1..((n + 1) - 1)
      BY <1>1
    <3> QED BY <3>1, <3>2 DEF FiltersOf
  <2> HIDE DEF new
  <2> DEFINE S == [id : 1..((n + 1) - 1), value : FilterValue]
  <2> HIDE DEF S
  <2>5. /\ filters \in Seq(S)
        /\ DOMAIN filters = DOMAIN query.filters \cup {Len(query.filters) + 1}
        /\ filters[Len(query.filters) + 1] = new
        /\ \A i \in DOMAIN query.filters : filters[i] = query.filters[i]
    <3>1. query.filters \in Seq(S) /\ new \in S
      BY <2>4 DEF S
    <3> QED BY <3>1
  <2> USE DEF S
  <2> HIDE DEF filters
  <2>6. OwnIds(filters)
    BY <1>1, <2>2, <2>3, <2>4, <2>5 DEF OwnIds
  <2>7. filters \in FiltersOf(n + 1)
    BY <2>5, <2>6 DEF FiltersOf
  <2>8. query.saved \in Seq([columns : ColumnsOf, filters : FiltersOf(n + 1)])
    <3> DEFINE before == [columns : ColumnsOf, filters : FiltersOf(n)]
               after == [columns : ColumnsOf, filters : FiltersOf(n + 1)]
    <3>1. before \subseteq after
      BY <1>1, FiltersLast
    <3>2. query.saved \in Seq(before)
      BY <1>2
    <3> HIDE DEF before, after
    <3>3. query.saved \in Seq(after)
      BY <3>1, <3>2
    <3> QED BY <3>3 DEF after
  <2>9. query' = [query EXCEPT !.filters = filters, !.next = n + 1] /\ n + 1 \in {n + 1}
    BY <1>2, <2>1 DEF filters, new
  <2>10. query' \in QueryOf(n + 1) /\ query'.next = n + 1
    BY <1>1, <2>7, <2>8, <2>9 DEF QueryOf
  <2> QED BY <1>1, <2>10 DEF QueryInv, QueryOf, ColumnsOf, Once, Report!IsInjective,
          FiltersOf, OwnIds
<1>6. CASE Forms!UpdateFilter
  <2>1. PICK i \in DOMAIN query.filters, v \in FilterValue :
          query' = [query EXCEPT !.filters[i].value = v]
    BY <1>6 DEF Forms!UpdateFilter, Forms!OnlyQuery
  <2> DEFINE filters == [query.filters EXCEPT ![i].value = v]
  <2>2. query.filters \in Seq([id : 1..(n - 1), value : FilterValue]) /\ OwnIds(query.filters)
    BY <1>2 DEF FiltersOf
  <2>3. query.filters[i] \in [id : 1..(n - 1), value : FilterValue]
    BY <2>2, SeqElements
  <2>4. /\ filters \in Seq([id : 1..(n - 1), value : FilterValue])
        /\ DOMAIN filters = DOMAIN query.filters
        /\ \A j \in DOMAIN query.filters : filters[j].id = query.filters[j].id
    BY <2>2, <2>3
  <2>5. query' = [query EXCEPT !.filters = filters]
    BY <2>1
  <2> HIDE DEF filters
  <2>6. filters \in FiltersOf(n)
    BY <2>2, <2>4 DEF FiltersOf, OwnIds
  <2>7. query' \in QueryOf(n)
    BY <1>1, <2>5, <2>6 DEF QueryOf
  <2> QED BY <1>3, <2>7
<1>7. CASE Forms!RemoveFilter
  <2>1. PICK i \in DOMAIN query.filters :
          query' = [query EXCEPT !.filters = Forms!Spliced(@, i)]
    BY <1>7 DEF Forms!RemoveFilter, Forms!OnlyQuery
  <2> DEFINE filters == Forms!Spliced(query.filters, i)
  <2>2. query.filters \in Seq([id : 1..(n - 1), value : FilterValue]) /\ OwnIds(query.filters)
    BY <1>2 DEF FiltersOf
  <2>3. /\ filters \in Seq([id : 1..(n - 1), value : FilterValue])
        /\ Len(filters) = Len(query.filters) - 1
        /\ \A k \in DOMAIN filters : filters[k] = query.filters[IF k < i THEN k ELSE k + 1]
    BY <2>2, RemoveAtPlaces DEF Forms!Spliced
  <2> HIDE DEF filters
  <2>4. \A k \in DOMAIN filters : k \in Nat /\ (IF k < i THEN k ELSE k + 1) \in DOMAIN query.filters
    BY <2>2, <2>3
  <2>5. OwnIds(filters)
    <3> SUFFICES ASSUME NEW j \in DOMAIN filters, NEW k \in DOMAIN filters,
                        filters[j].id = filters[k].id
                 PROVE  j = k
      BY DEF OwnIds
    <3>1. (IF j < i THEN j ELSE j + 1) = (IF k < i THEN k ELSE k + 1)
      BY <2>2, <2>3, <2>4 DEF OwnIds
    <3>2. i \in Nat /\ j \in Nat /\ k \in Nat
      BY <2>2, <2>4
    <3> QED BY <3>1, <3>2
  <2>6. filters \in FiltersOf(n)
    BY <2>3, <2>5 DEF FiltersOf
  <2>7. query' = [query EXCEPT !.filters = filters]
    BY <2>1 DEF filters
  <2>8. query' \in QueryOf(n)
    BY <1>1, <2>6, <2>7 DEF QueryOf
  <2> QED BY <1>3, <2>8
<1>8. CASE Forms!TypeQueryName
  <2>1. query' \in QueryOf(n)
    BY <1>1, <1>8 DEF Forms!TypeQueryName, Forms!OnlyQuery, QueryOf
  <2> QED BY <1>3, <2>1
<1>9. CASE Forms!SaveQuery
  <2> DEFINE new == [columns |-> query.columns, filters |-> query.filters]
             others == Append(query.saved, new)
  <2>1. query' = [query EXCEPT !.saved = others, !.name = FALSE]
    BY <1>9 DEF Forms!SaveQuery, Forms!OnlyQuery
  <2>2. others \in Seq([columns : ColumnsOf, filters : FiltersOf(n)])
    BY <1>2
  <2> HIDE DEF others
  <2>3. query' \in QueryOf(n)
    BY <1>1, <2>1, <2>2 DEF QueryOf
  <2> QED BY <1>3, <2>3
<1>10. CASE Forms!LoadQuery
  <2>1. PICK i \in DOMAIN query.saved : query' =
          [query EXCEPT !.columns = query.saved[i].columns, !.filters = query.saved[i].filters]
    BY <1>10 DEF Forms!LoadQuery, Forms!OnlyQuery
  <2>2. query.saved[i] \in [columns : ColumnsOf, filters : FiltersOf(n)]
    BY <1>2, SeqElements
  <2>3. query' \in QueryOf(n)
    BY <1>1, <2>1, <2>2 DEF QueryOf
  <2> QED BY <1>3, <2>3
<1> QED BY <1>4, <1>5, <1>6, <1>7, <1>8, <1>9, <1>10 DEF Forms!QueryNext

FormsNext ==
  \/ Forms!SettingsNext \/ Forms!MailNext \/ Forms!FlagsNext
  \/ Forms!QueryNext \/ Forms!CardNext \/ Forms!PlanNext
FormsInv == SettingsInv /\ MailInv /\ QueryInv

LEMMA InitForms == Forms!FormsInit => FormsInv
BY InitSettings, InitQuery DEF FormsInv

LEMMA StepForms == FormsInv /\ [FormsNext]_(Forms!formVars) => FormsInv'
<1> SUFFICES ASSUME FormsInv, [FormsNext]_(Forms!formVars) PROVE FormsInv'
  OBVIOUS
<1>0. /\ UNCHANGED settings => SettingsInv'
      /\ UNCHANGED mail => MailInv'
      /\ UNCHANGED query => QueryInv'
  BY DEF FormsInv, SettingsInv, SettingsOf, Forms!Prefs, Forms!Valid, MailInv, MailOf, QueryInv,
         QueryOf, ColumnsOf, Once, Report!IsInjective, FiltersOf, OwnIds
<1>1. CASE Forms!SettingsNext
  <2>1. UNCHANGED <<mail, query>>
    BY <1>1 DEF Forms!SettingsNext, Forms!EditPrefs, Forms!SavePrefs, Forms!Reopen,
         Forms!SendTest, Forms!TestEnds, Forms!OnlySettings
  <2> QED BY <1>0, <1>1, <2>1, StepSettings DEF FormsInv
<1>2. CASE Forms!MailNext
  <2>1. UNCHANGED <<settings, query>>
    BY <1>2 DEF Forms!MailNext, Forms!TypeRecipient, Forms!TestSend, Forms!OnlyMail
  <2> QED BY <1>0, <1>2, <2>1, StepMail DEF FormsInv
<1>3. CASE Forms!QueryNext
  <2>1. UNCHANGED <<settings, mail>>
    BY <1>3 DEF Forms!QueryNext, Forms!ToggleColumn, Forms!AddFilter, Forms!UpdateFilter,
         Forms!RemoveFilter, Forms!TypeQueryName, Forms!SaveQuery, Forms!LoadQuery, Forms!OnlyQuery
  <2> QED BY <1>0, <1>3, <2>1, StepQuery DEF FormsInv
<1>4. CASE Forms!FlagsNext \/ Forms!CardNext \/ Forms!PlanNext
  <2>1. UNCHANGED <<settings, mail, query>>
    BY <1>4 DEF Forms!FlagsNext, Forms!ToggleFlag, Forms!SetRollout, Forms!OnlyFlags,
         Forms!CardNext, Forms!PickTemplate, Forms!PickMetric, Forms!Generate, Forms!Download,
         Forms!OnlyCard, Forms!PlanNext, Forms!ApplyScenario, Forms!MoveSlider, Forms!OnlyPlan
  <2> QED BY <1>0, <2>1 DEF FormsInv
<1>5. CASE UNCHANGED Forms!formVars
  BY <1>0, <1>5 DEF Forms!formVars, FormsInv
<1> QED BY <1>1, <1>2, <1>3, <1>4, <1>5 DEF FormsNext

LEMMA FormsKeep == FormsInv => Forms!StoredIsValid /\ Forms!BuilderIdsAreUnique
<1> SUFFICES ASSUME FormsInv PROVE Forms!StoredIsValid /\ Forms!BuilderIdsAreUnique
  OBVIOUS
<1>1. Forms!StoredIsValid
  BY DEF FormsInv, SettingsInv, MailInv, Forms!StoredIsValid, Forms!Valid
<1>2. query.filters \in FiltersOf(query.next) /\ query.columns \in ColumnsOf
  BY DEF FormsInv, QueryInv, QueryOf
<1>3. \A p \in DOMAIN QueryColumn : Report!IsInjective(query.columns[p])
  BY <1>2 DEF ColumnsOf, Once
<1>4. Forms!BuilderIdsAreUnique
  BY <1>2, <1>3 DEF FormsInv, SettingsInv, FiltersOf, OwnIds, Forms!BuilderIdsAreUnique,
     Forms!IsInjective, Report!IsInjective
<1> QED BY <1>1, <1>4
-----------------------------------------------------------------------------
(* The slider *)

RangeOf == [lo : RangeMin..RangeMax, hi : RangeMin..RangeMax]
RangeInv == range \in RangeOf /\ range.lo <= range.hi

LEMMA RangeEnds == RangeMin \in Int /\ RangeMax \in Int /\ RangeMin <= RangeMax
BY BrowserConstants DEF BrowserConstants

LEMMA InitRange == Components!KitInit => RangeInv
<1> SUFFICES ASSUME Components!KitInit PROVE RangeInv
  OBVIOUS
<1>1. range = [lo |-> RangeMin, hi |-> RangeMax]
  BY DEF Components!KitInit
<1> QED BY <1>1, RangeEnds DEF RangeInv, RangeOf

\* Each input is bounded by the other.
LEMMA StepRange == RangeInv /\ [Components!RangeNext]_range => RangeInv'
<1> SUFFICES ASSUME RangeInv, [Components!RangeNext]_range PROVE RangeInv'
  OBVIOUS
<1>1. CASE Components!RangeLow
  <2>1. PICK v \in RangeMin..RangeMax : range' = [range EXCEPT !.lo = Components!Smaller(v, range.hi)]
    BY <1>1 DEF Components!RangeLow, Components!OnlyRange
  <2>2. Components!Smaller(v, range.hi) \in RangeMin..RangeMax /\ Components!Smaller(v, range.hi) <= range.hi
    BY <2>1, RangeEnds DEF Components!Smaller, RangeInv, RangeOf
  <2> QED BY <2>1, <2>2 DEF RangeInv, RangeOf
<1>2. CASE Components!RangeHigh
  <2>1. PICK v \in RangeMin..RangeMax : range' = [range EXCEPT !.hi = Components!Larger(v, range.lo)]
    BY <1>2 DEF Components!RangeHigh, Components!OnlyRange
  <2>2. Components!Larger(v, range.lo) \in RangeMin..RangeMax /\ range.lo <= Components!Larger(v, range.lo)
    BY <2>1, RangeEnds DEF Components!Larger, RangeInv, RangeOf
  <2> QED BY <2>1, <2>2 DEF RangeInv, RangeOf
<1>3. CASE UNCHANGED range
  BY <1>3 DEF RangeInv, RangeOf
<1> QED BY <1>1, <1>2, <1>3 DEF Components!RangeNext

\* Rounded down, a quotient is the last whole number of times the divisor fits.
LEMMA Quotient ==
  ASSUME NEW a \in Nat, NEW b \in Nat \ {0}
  PROVE  a \div b \in Nat /\ b * (a \div b) <= a /\ a < b * (a \div b) + b
<1>1. a = b * (a \div b) + (a % b) /\ a % b \in 0..(b - 1) /\ a \div b \in Nat
  OBVIOUS
<1> QED BY <1>1

\* A fifth of the way rounded up to whole steps: it fits five times at most, and
\* five times only when it goes all the way.
LEMMA FifthFits ==
  ASSUME NEW d \in Nat \ {0}, NEW step \in Nat \ {0},
         NEW by, by = step * ((d + 5 * step - 1) \div (5 * step))
  PROVE  by \in Nat \ {0} /\ d \div by \in 0..5 /\ by * (d \div by) <= d
         /\ d < by * (d \div by) + by /\ (d \div by = 5 => d = 5 * by)
<1> DEFINE q == (d + 5 * step - 1) \div (5 * step)
<1>1. d + 5 * step - 1 \in Nat /\ 5 * step \in Nat \ {0}
  OBVIOUS
<1>2. q \in Nat /\ d + 5 * step - 1 < (5 * step) * q + 5 * step
  BY <1>1, Quotient
<1> HIDE DEF q
<1>3. by = step * q
  BY DEF q
<1>4. (5 * step) * q = 5 * by /\ by \in Nat
  BY <1>2, <1>3
<1>5. d <= 5 * by
  BY <1>2, <1>4
<1>6. by \in Nat \ {0}
  BY <1>4, <1>5
<1>7. d \div by \in Nat /\ by * (d \div by) <= d /\ d < by * (d \div by) + by
  BY <1>6, Quotient
<1>8. d \div by <= 5
  <2>1. SUFFICES ASSUME d \div by >= 6 PROVE FALSE
    BY <1>7
  <2>2. PICK e \in Nat : d \div by = 6 + e
    <3>1. (d \div by) - 6 \in Nat /\ d \div by = 6 + ((d \div by) - 6)
      BY <1>7, <2>1
    <3> QED BY <3>1
  <2>3. by * (6 + e) = 6 * by + by * e /\ by * e \in Nat
    BY <1>6, <2>2
  <2> QED BY <1>5, <1>6, <1>7, <2>2, <2>3
<1>9. d \div by = 5 => d = 5 * by
  BY <1>5, <1>6, <1>7
<1> QED BY <1>6, <1>7, <1>8, <1>9

\* The marks go up from one end to the other, six at most.
LEMMA MarksAreOrdered ==
  ASSUME NEW low \in Int, NEW high \in Int, low < high, NEW step \in Nat \ {0}
  PROVE  LET m == Components!Marks(low, high, step) IN
           /\ Len(m) <= 6 /\ m[1] = low /\ m[Len(m)] = high
           /\ \A i \in 1..Len(m) - 1 : m[i] < m[i + 1]
<1> DEFINE d == high - low
           by == step * ((d + 5 * step - 1) \div (5 * step))
           k == d \div by
           marks == [i \in 1 .. k + 1 |-> low + (i - 1) * by]
           m == IF high \in Components!Range(marks) THEN marks ELSE Append(marks, high)
<1>1. Components!Marks(low, high, step) = m
  BY DEF Components!Marks
<1>2. d \in Nat \ {0}
  OBVIOUS
<1>3. by \in Nat \ {0} /\ k \in 0..5 /\ by * k <= d /\ d < by * k + by /\ (k = 5 => d = 5 * by)
  BY <1>2, FifthFits
<1> HIDE DEF by, k
<1>4. marks \in Seq(Int) /\ Len(marks) = k + 1
  BY <1>3
<1>5. \A i \in 1..k + 1 : marks[i] = low + (i - 1) * by
  OBVIOUS
<1>6. marks[1] = low /\ marks[k + 1] = low + k * by
  <2>1. marks[1] = low + 0 * by /\ marks[k + 1] = low + ((k + 1) - 1) * by
    BY <1>3, <1>5
  <2> QED BY <1>3, <2>1
<1>7. \A i \in 1..k : marks[i] < marks[i + 1]
  <2> TAKE i \in 1..k
  <2>1. i \in 1..k + 1 /\ i + 1 \in 1..k + 1
    BY <1>3
  <2>2. marks[i] = low + (i - 1) * by /\ marks[i + 1] = low + ((i + 1) - 1) * by
    BY <1>5, <2>1
  <2>3. ((i + 1) - 1) * by = (i - 1) * by + by
    BY <1>3, <2>1
  <2> QED BY <1>3, <2>1, <2>2, <2>3
<1> HIDE DEF marks
<1>8. CASE high \in Components!Range(marks)
  <2>1. PICK i \in 1..k + 1 : marks[i] = high
    BY <1>4, <1>8 DEF Components!Range
  <2>2. (i - 1) * by = d
    BY <1>3, <1>5, <2>1
  <2>3. PICK e \in Nat : k = (i - 1) + e
    <3>1. k - (i - 1) \in Nat /\ k = (i - 1) + (k - (i - 1))
      BY <1>3, <2>1
    <3> QED BY <3>1
  <2>4. by * k = (i - 1) * by + by * e /\ by * e \in Nat
    BY <1>3, <2>1, <2>3
  <2>5. by * k = d
    BY <1>3, <2>2, <2>4
  <2>6. marks[k + 1] = high
    BY <1>3, <1>6, <2>5
  <2> QED BY <1>1, <1>3, <1>4, <1>6, <1>7, <1>8, <2>6
<1>9. CASE high \notin Components!Range(marks)
  <2>1. \A i \in 1..k + 1 : marks[i] # high
    BY <1>4, <1>9 DEF Components!Range
  <2>2. k # 5
    BY <1>3, <1>6, <2>1
  <2>3. marks[k + 1] < high
    <3>1. k + 1 \in 1..k + 1 /\ low + k * by <= high
      BY <1>3
    <3> QED BY <1>3, <1>6, <2>1, <3>1
  <2>4. m = Append(marks, high)
    BY <1>9
  <2> HIDE DEF m
  <2>5. /\ Len(m) = k + 2 /\ m[k + 2] = high
        /\ \A i \in 1..k + 1 : m[i] = marks[i]
    BY <1>3, <1>4, <2>4
  <2>6. \A i \in 1..k + 1 : m[i] < m[i + 1]
    BY <1>3, <1>7, <2>3, <2>5
  <2> QED BY <1>1, <1>3, <1>6, <2>2, <2>5, <2>6
<1> QED BY <1>8, <1>9

LEMMA RangeKeeps == RangeInv => Components!RangeIsOrdered
<1> SUFFICES ASSUME RangeInv PROVE Components!RangeIsOrdered
  OBVIOUS
<1>1. range.lo \in Int /\ range.hi \in Int /\ range.lo <= range.hi
  BY RangeEnds DEF RangeInv, RangeOf
<1>2. ASSUME range.lo < range.hi, NEW step \in 1 .. range.hi - range.lo
      PROVE  LET m == Components!Marks(range.lo, range.hi, step) IN
               /\ Len(m) <= 6 /\ m[1] = range.lo /\ m[Len(m)] = range.hi
               /\ \A i \in 1..Len(m) - 1 : m[i] < m[i + 1]
  <2>1. step \in Nat \ {0}
    BY <1>1
  <2> QED BY <1>1, <1>2, <2>1, MarksAreOrdered
<1> QED BY <1>1, <1>2 DEF Components!RangeIsOrdered
\* A step of the component library is a step of one component, and of no other.
LEMMA KitMoves ==
  [Components!KitNext]_(Components!kitVars) =>
    /\ [Components!SelectNext]_select /\ [Components!MenuNext]_menu
    /\ [Components!PaletteNext]_palette /\ [Components!TabsNext]_tabs
    /\ [Components!SectionToggle]_sections /\ [Components!PagerNext]_pager
    /\ [Components!RangeNext]_range
<1> SUFFICES ASSUME [Components!KitNext]_(Components!kitVars)
             PROVE  /\ [Components!SelectNext]_select /\ [Components!MenuNext]_menu
                    /\ [Components!PaletteNext]_palette /\ [Components!TabsNext]_tabs
                    /\ [Components!SectionToggle]_sections /\ [Components!PagerNext]_pager
                    /\ [Components!RangeNext]_range
  OBVIOUS
<1>1. CASE Components!SelectNext
  <2>1. UNCHANGED <<menu, palette, tabs, sections, pager, range>>
    BY <1>1 DEF Components!SelectNext, Components!SelectTrigger, Components!SelectTriggerKey,
         Components!SelectOutside, Components!SelectSearch, Components!SelectDown,
         Components!SelectUp, Components!SelectEnter, Components!SelectEscape,
         Components!SelectOption, Components!OnlySelect
  <2> QED BY <1>1, <2>1
<1>2. CASE Components!MenuNext
  <2>1. UNCHANGED <<select, palette, tabs, sections, pager, range>>
    BY <1>2 DEF Components!MenuNext, Components!MenuTrigger, Components!MenuTriggerKey,
         Components!MenuOutside, Components!MenuDown, Components!MenuUp,
         Components!MenuEscape, Components!MenuItem, Components!OnlyMenu
  <2> QED BY <1>2, <2>1
<1>3. CASE Components!PaletteNext
  <2>1. UNCHANGED <<select, menu, tabs, sections, pager, range>>
    BY <1>3 DEF Components!PaletteNext, Components!PaletteKey, Components!PaletteClose,
         Components!PaletteType, Components!PaletteClear, Components!PaletteDown,
         Components!PaletteUp, Components!PaletteHover, Components!PaletteEnter,
         Components!PaletteClick, Components!OnlyPalette
  <2> QED BY <1>3, <2>1
<1>4. CASE Components!TabsNext
  <2>1. UNCHANGED <<select, menu, palette, sections, pager, range>>
    BY <1>4 DEF Components!TabsNext, Components!TabRight, Components!TabLeft,
         Components!TabHome, Components!TabEnd, Components!TabClick, Components!OnlyTabs
  <2> QED BY <1>4, <2>1
<1>5. CASE Components!SectionToggle
  <2>1. UNCHANGED <<select, menu, palette, tabs, pager, range>>
    BY <1>5 DEF Components!SectionToggle
  <2> QED BY <1>5, <2>1
<1>6. CASE Components!PagerNext
  <2>1. UNCHANGED <<select, menu, palette, tabs, sections, range>>
    BY <1>6 DEF Components!PagerNext, Components!PagePrevious, Components!PageFollowing,
         Components!PageNumber, Components!PageSize, Components!OnlyPager
  <2> QED BY <1>6, <2>1
<1>7. CASE Components!RangeNext
  <2>1. UNCHANGED <<select, menu, palette, tabs, sections, pager>>
    BY <1>7 DEF Components!RangeNext, Components!RangeLow, Components!RangeHigh,
         Components!OnlyRange
  <2> QED BY <1>7, <2>1
<1>8. CASE UNCHANGED Components!kitVars
  BY <1>8 DEF Components!kitVars
<1> QED BY <1>1, <1>2, <1>3, <1>4, <1>5, <1>6, <1>7, <1>8 DEF Components!KitNext

-----------------------------------------------------------------------------
(* The refresh button *)

RefreshOf ==
  [auto : BOOLEAN, running : Seq({"user", "timer"}), busy : BOOLEAN, note : BOOLEAN, at : Nat,
   started : Nat]
RefreshInv == refresh \in RefreshOf /\ Dash!BusyMeansRunning

LEMMA InitRefresh == Dash!DashInit => RefreshInv
BY DEF Dash!DashInit, RefreshInv, RefreshOf, Dash!BusyMeansRunning

\* The button is given back by the first refresh that ends, so while it is away
\* none has ended since it was taken.
LEMMA StepRefresh == RefreshInv /\ [Dash!RefreshNext]_refresh => RefreshInv'
<1> SUFFICES ASSUME RefreshInv, [Dash!RefreshNext]_refresh PROVE RefreshInv'
  OBVIOUS
<1>1. ASSUME NEW by \in {"user", "timer"}, refresh' = Dash!Begin(refresh, by) PROVE RefreshInv'
  <2> DEFINE running == Append(refresh.running, by)
  <2>1. /\ running \in Seq({"user", "timer"}) /\ running # << >>
        /\ Len(running) = Len(refresh.running) + 1
    BY DEF RefreshInv, RefreshOf
  <2>2. refresh' = [refresh EXCEPT !.running = running, !.busy = TRUE, !.started = @ + 1]
    BY <1>1 DEF Dash!Begin
  <2> HIDE DEF running
  <2>3. /\ refresh.started \in Nat /\ refresh.started + 1 \in Nat /\ refresh.at \in Nat
        /\ Len(refresh.running) \in Nat /\ refresh.started = refresh.at + Len(refresh.running)
    BY DEF RefreshInv, RefreshOf, Dash!BusyMeansRunning
  <2>4. /\ refresh' \in RefreshOf /\ refresh'.running = running /\ refresh'.at = refresh.at
        /\ refresh'.started = refresh.started + 1
    BY <2>1, <2>2, <2>3 DEF RefreshInv, RefreshOf
  <2>5. refresh'.started = refresh'.at + Len(refresh'.running)
    BY <2>1, <2>3, <2>4
  <2> QED BY <2>1, <2>4, <2>5 DEF RefreshInv, RefreshOf, Dash!BusyMeansRunning
<1>2. CASE Dash!RefreshEnds
  <2> DEFINE running == Tail(refresh.running)
  <2>1. running \in Seq({"user", "timer"}) /\ Len(refresh.running) = Len(running) + 1
    BY <1>2 DEF Dash!RefreshEnds, RefreshInv, RefreshOf
  <2>2. refresh' = [refresh EXCEPT !.running = running, !.busy = FALSE, !.note = TRUE, !.at = @ + 1]
    BY <1>2 DEF Dash!RefreshEnds, Dash!OnlyRefresh
  <2>3. /\ refresh.started \in Nat /\ refresh.at \in Nat /\ refresh.at + 1 \in Nat
        /\ Len(running) \in Nat /\ refresh.started = refresh.at + Len(refresh.running)
    BY <2>1 DEF RefreshInv, RefreshOf, Dash!BusyMeansRunning
  <2> HIDE DEF running
  <2>4. /\ refresh' \in RefreshOf /\ refresh'.running = running /\ refresh'.at = refresh.at + 1
        /\ refresh'.started = refresh.started /\ ~refresh'.busy
    BY <2>1, <2>2, <2>3 DEF RefreshInv, RefreshOf
  <2>5. refresh'.started = refresh'.at + Len(refresh'.running)
    BY <2>1, <2>3, <2>4
  <2> QED BY <2>4, <2>5 DEF RefreshInv, RefreshOf, Dash!BusyMeansRunning
<1>3. CASE Dash!NoteEnds \/ Dash!AutoRefresh
  BY <1>3 DEF Dash!NoteEnds, Dash!AutoRefresh, Dash!OnlyRefresh, RefreshInv, RefreshOf,
       Dash!BusyMeansRunning
<1>4. CASE UNCHANGED refresh
  BY <1>4 DEF RefreshInv, RefreshOf, Dash!BusyMeansRunning
<1> QED BY <1>1, <1>2, <1>3, <1>4 DEF Dash!RefreshNext, Dash!RefreshClick, Dash!RefreshTimer,
          Dash!OnlyRefresh

-----------------------------------------------------------------------------
(* Pages that list *)

\* What is shown as open, in words that need no counting.
OpenAsItShould(p, v) ==
  /\ p \in Forms!Selected => \E e : v.open = {e}
  /\ p = "social" => v.open # {}
  /\ p \in Forms!Single => v.open = {} \/ \E e : v.open = {e}
  /\ p = "errors" => v.open \subseteq Forms!Visible(v)
ListsInv ==
  /\ view = [kind |-> view.kind, found |-> view.found, open |-> view.open]
  /\ OpenAsItShould(page, view)

LEMMA OpenedAsItShould ==
  ASSUME NEW p \in Forms!Pages
  PROVE  /\ Forms!Opened(p) = [kind |-> Forms!Opened(p).kind, found |-> Forms!Opened(p).found,
                               open |-> Forms!Opened(p).open]
         /\ OpenAsItShould(p, Forms!Opened(p))
<1> DEFINE v == Forms!Opened(p)
<1>1. /\ p \in Forms!Selected => \E e : v.open = {e}
      /\ p = "social" => v.open = Entry
      /\ p \notin Forms!Selected /\ p # "social" => v.open = {}
  BY DEF Forms!Opened, Forms!Selected
<1>2. v = [kind |-> v.kind, found |-> v.found, open |-> v.open]
  BY DEF Forms!Opened
<1> HIDE DEF v
<1>3. Entry # {}
  BY BrowserConstants DEF BrowserConstants
<1>4. OpenAsItShould(p, v)
  BY <1>1, <1>3 DEF OpenAsItShould, Forms!Selected, Forms!Single
<1> QED BY <1>2, <1>4 DEF v

LEMMA InitLists == Forms!ListInit => ListsInv
<1>1. "events" \in Forms!Pages
  BY DEF Forms!Pages
<1> QED BY <1>1, OpenedAsItShould DEF Forms!ListInit, ListsInv

\* An entry is opened and closed only on the pages made for it.
LEMMA StepLists == ListsInv /\ [Forms!ListNext]_(Forms!listVars) => ListsInv'
<1> SUFFICES ASSUME ListsInv, [Forms!ListNext]_(Forms!listVars) PROVE ListsInv'
  OBVIOUS
<1>0. /\ view = [kind |-> view.kind, found |-> view.found, open |-> view.open]
      /\ OpenAsItShould(page, view)
  BY DEF ListsInv
<1>1. CASE UNCHANGED Forms!listVars
  BY <1>0, <1>1 DEF Forms!listVars, ListsInv, OpenAsItShould, Forms!Visible
<1>2. ASSUME NEW p \in Forms!Pages, Forms!OpenPage(p) PROVE ListsInv'
  BY <1>2, OpenedAsItShould DEF Forms!OpenPage, ListsInv, OpenAsItShould, Forms!Visible
<1>3. ASSUME NEW p \in {"glossary", "feedback", "word-cloud"}, NEW k, Forms!Filter(p, k)
      PROVE  ListsInv'
  BY <1>0, <1>3 DEF Forms!Filter, Forms!Show, ListsInv, OpenAsItShould, Forms!Selected, Forms!Single
<1>4. CASE Forms!PickType
  BY <1>0, <1>4 DEF Forms!PickType, Forms!Show, ListsInv, OpenAsItShould, Forms!Selected,
       Forms!Single, Forms!Visible
<1>5. CASE Forms!TypeSearch
  BY <1>0, <1>5 DEF Forms!TypeSearch, Forms!Show, ListsInv, OpenAsItShould, Forms!Selected,
       Forms!Single
<1>6. ASSUME NEW p \in {"glossary", "word-cloud", "email-campaigns", "badge"}, NEW e,
             Forms!Toggle(p, e)
      PROVE  ListsInv'
  BY <1>0, <1>6 DEF Forms!Toggle, Forms!Show, ListsInv, OpenAsItShould, Forms!Selected,
       Forms!Single
<1>7. CASE Forms!ToggleRow
  <2>1. PICK e \in Forms!Visible(view) : view' = [view EXCEPT !.open = Forms!Toggled(@, e)]
    BY <1>7 DEF Forms!ToggleRow, Forms!Show
  <2>2. page' = page /\ page = "errors"
    BY <1>7 DEF Forms!ToggleRow, Forms!Show
  <2> QED BY <1>0, <2>1, <2>2 DEF ListsInv, OpenAsItShould, Forms!Selected, Forms!Single,
            Forms!Visible, Forms!Toggled
<1>8. CASE Forms!FollowLink
  BY <1>0, <1>8 DEF Forms!FollowLink, Forms!Show, ListsInv, OpenAsItShould, Forms!Selected,
       Forms!Single
<1>9. ASSUME NEW p \in {"word-cloud", "funnel", "badge"}, Forms!Close(p) PROVE ListsInv'
  BY <1>0, <1>9 DEF Forms!Close, Forms!Show, ListsInv, OpenAsItShould, Forms!Selected,
       Forms!Single
<1>10. CASE Forms!TogglePlatform
  <2>1. PICK e \in Entry :
          view' = [view EXCEPT !.open = IF @ = {e} THEN @ ELSE Forms!Toggled(@, e)]
    BY <1>10 DEF Forms!TogglePlatform, Forms!Show
  <2>2. page' = page /\ page = "social"
    BY <1>10 DEF Forms!TogglePlatform, Forms!Show
  <2>3. view.open # {}
    BY <1>0, <2>2 DEF OpenAsItShould
  <2>4. view.open # {e} => Forms!Toggled(view.open, e) # {}
    BY <2>3 DEF Forms!Toggled
  <2> QED BY <1>0, <2>1, <2>2, <2>3, <2>4 DEF ListsInv, OpenAsItShould, Forms!Selected, Forms!Single
<1>11. ASSUME NEW p \in Forms!Selected \cup {"funnel"}, Forms!Select(p) PROVE ListsInv'
  BY <1>0, <1>11 DEF Forms!Select, ListsInv, OpenAsItShould, Forms!Selected, Forms!Single
<1>12. CASE Forms!PickModel \/ Forms!ToggleCompare \/ Forms!PickCompared
  BY <1>0, <1>12 DEF Forms!PickModel, Forms!ToggleCompare, Forms!PickCompared, Forms!Attribute,
       ListsInv, OpenAsItShould, Forms!Selected, Forms!Single
<1>13. CASE \E p \in Forms!Pages \ {page} : Forms!OpenPage(p)
  BY <1>2, <1>13
<1>14. CASE Forms!PickCategory \/ Forms!PickSentiment \/ Forms!PickWordFilter
  BY <1>3, <1>14 DEF Forms!PickCategory, Forms!PickSentiment, Forms!PickWordFilter
<1>15. CASE Forms!ToggleTerm \/ Forms!ToggleWord \/ Forms!ToggleCampaign \/ Forms!OpenBadge
  BY <1>6, <1>15 DEF Forms!ToggleTerm, Forms!ToggleWord, Forms!ToggleCampaign, Forms!OpenBadge
<1>16. CASE Forms!ClearWord \/ Forms!CloseStage \/ Forms!CloseBadge
  BY <1>9, <1>16 DEF Forms!ClearWord, Forms!CloseStage, Forms!CloseBadge
<1>17. CASE Forms!SelectEvent \/ Forms!SelectFeature \/ Forms!SelectTab
            \/ Forms!SelectCampaignModel \/ Forms!SelectStage
  BY <1>11, <1>17 DEF Forms!SelectEvent, Forms!SelectFeature, Forms!SelectTab,
       Forms!SelectCampaignModel, Forms!SelectStage, Forms!Selected
<1> QED BY <1>1, <1>4, <1>5, <1>7, <1>8, <1>10, <1>12, <1>13, <1>14, <1>15, <1>16, <1>17
        DEF Forms!ListNext

LEMMA FormsCount == \A S : Forms!Cardinality(S) = Cardinality(S)
BY DEF Forms!Cardinality, Cardinality

LEMMA ListsKeep == ListsInv => Forms!SomethingIsSelected
<1>1. \A e : Cardinality({e}) = 1
  BY FS_Singleton
<1>2. Cardinality({}) = 0
  BY FS_EmptySet
<1>3. SUFFICES ASSUME OpenAsItShould(page, view) PROVE Forms!SomethingIsSelected
  BY DEF ListsInv
<1>4. /\ page \in Forms!Selected => \E e : view.open = {e}
      /\ page \in Forms!Single => view.open = {} \/ \E e : view.open = {e}
  BY <1>3 DEF OpenAsItShould
<1>5. page \in Forms!Selected => Cardinality(view.open) = 1
  BY <1>1, <1>4
<1>6. page \in Forms!Single => Cardinality(view.open) = 0 \/ Cardinality(view.open) = 1
  BY <1>1, <1>2, <1>4
<1>7. page \in Forms!Single => Cardinality(view.open) <= 1
  BY <1>6
<1>8. /\ page = "social" => view.open # {}
      /\ page = "errors" => view.open \subseteq Forms!Visible(view)
  BY <1>3 DEF OpenAsItShould
<1> QED BY <1>5, <1>7, <1>8, FormsCount DEF Forms!SomethingIsSelected

-----------------------------------------------------------------------------
(* Exports *)

FilesNext == Files!CsvNext \/ Files!BookNext \/ Files!JsonNext \/ Files!PictureNext
Run == [asked : {"white", "transparent"}, copy : BOOLEAN, switched : BOOLEAN]
\* A picture under way is of the background there is, or it was switched since.
AskedFor(pictures, background) ==
  /\ pictures \in Seq(Run)
  /\ \A i \in DOMAIN pictures : pictures[i].asked = background \/ pictures[i].switched
\* A message is shown only while a timer is on its way to take it.
Timed(b) ==
  /\ b = [loading |-> b.loading, status |-> b.status, error |-> b.error,
          timers |-> b.timers, top |-> b.top]
  /\ b.timers \in Nat /\ (b.status => b.timers > 0)
TimedJson(j) ==
  /\ j = [pretty |-> j.pretty, status |-> j.status, timers |-> j.timers, top |-> j.top]
  /\ j.timers \in Nat /\ (j.status # None => j.timers > 0)
FilesInv ==
  /\ Timed(book) /\ TimedJson(json)
  /\ picture = [background |-> picture.background, runs |-> picture.runs,
                status |-> picture.status, taken |-> picture.taken]
  /\ picture.background \in {"white", "transparent"}
  /\ AskedFor(picture.runs, picture.background)
  /\ picture.taken # None =>
       picture.taken[1].asked = picture.taken[2] \/ picture.taken[1].switched

LEMMA InitFiles == Files!ExportsInit => FilesInv
<1> SUFFICES ASSUME Files!ExportsInit PROVE FilesInv
  OBVIOUS
<1>1. AskedFor(<< >>, "white")
  BY DEF AskedFor
<1> QED BY <1>1 DEF Files!ExportsInit, FilesInv, Timed, TimedJson

\* A message is shown by the step that starts its timer, and taken by a timer.
LEMMA StepMessages ==
  ASSUME FilesInv, Files!CsvNext \/ Files!BookNext \/ Files!JsonNext
  PROVE  FilesInv'
<1>1. CASE Files!CsvNext
  <2>1. UNCHANGED <<book, json, picture>>
    BY <1>1 DEF Files!CsvNext, Files!ChangeTable, Files!ClickExport, Files!NextChunk,
         Files!WriteFile, Files!LoadFails, Files!ButtonBack, Files!Advance, Files!OnlyCsv
  <2> QED BY <2>1 DEF FilesInv, AskedFor, Timed, TimedJson
<1>2. CASE Files!BookNext
  <2>1. UNCHANGED <<json, picture>>
    BY <1>2 DEF Files!BookNext, Files!ClickBook, Files!BookFails, Files!BookMessageEnds,
         Files!BookDone, Files!OnlyBook
  <2>2. Timed(book) /\ book.timers \in Nat /\ (book.status => book.timers > 0)
    BY DEF FilesInv, Timed
  <2>3. Timed(book')
    <3>1. ASSUME NEW l, NEW m \in BOOLEAN, NEW f, NEW k \in Nat, NEW top, m => k > 0,
                 book' = [loading |-> l, status |-> m, error |-> f, timers |-> k, top |-> top]
          PROVE  Timed(book')
      BY <3>1 DEF Timed
    <3>2. CASE Files!ClickBook
      <4>1. book' = [loading |-> TRUE, status |-> FALSE, error |-> FALSE, timers |-> book.timers,
                     top |-> book.top]
        BY <2>2, <3>2 DEF Files!ClickBook, Files!OnlyBook, Timed
      <4> QED BY <2>2, <3>1, <4>1
    <3>3. CASE Files!BookFails
      <4>1. book' = [book EXCEPT !.loading = FALSE, !.error = TRUE]
        BY <3>3 DEF Files!BookFails, Files!OnlyBook
      <4> QED BY <2>2, <4>1 DEF Timed
    <3>4. CASE Files!BookMessageEnds
      <4>1. book.timers > 0 /\ book' = [loading |-> book.loading, status |-> FALSE,
              error |-> book.error, timers |-> book.timers - 1, top |-> book.top]
        BY <2>2, <3>4 DEF Files!BookMessageEnds, Files!OnlyBook, Timed
      <4>2. book.timers - 1 \in Nat
        BY <2>2, <4>1
      <4> QED BY <3>1, <4>1, <4>2
    <3>5. ASSUME NEW s \in Samples, Files!BookDone(s) PROVE Timed(book')
      <4>1. book' = [loading |-> FALSE, status |-> TRUE, error |-> book.error,
                     timers |-> book.timers + 1, top |-> <<s, Files!TopEngagement(s)>>]
        BY <2>2, <3>5 DEF Files!BookDone, Files!OnlyBook, Timed
      <4>2. book.timers + 1 \in Nat /\ book.timers + 1 > 0
        BY <2>2
      <4> QED BY <3>1, <4>1, <4>2
    <3> QED BY <1>2, <3>2, <3>3, <3>4, <3>5 DEF Files!BookNext
  <2> QED BY <2>1, <2>3 DEF FilesInv, AskedFor, Timed, TimedJson
<1>3. CASE Files!JsonNext
  <2>1. UNCHANGED <<book, picture>>
    BY <1>3 DEF Files!JsonNext, Files!PickPretty, Files!JsonMessageEnds, Files!ClickJson,
         Files!OnlyJson
  <2>2. TimedJson(json) /\ json.timers \in Nat
    BY DEF FilesInv, TimedJson
  <2>3. TimedJson(json')
    <3>1. ASSUME NEW pretty, NEW m, NEW k \in Nat, NEW top, m # None => k > 0,
                 json' = [pretty |-> pretty, status |-> m, timers |-> k, top |-> top]
          PROVE  TimedJson(json')
      BY <3>1 DEF TimedJson
    <3>2. CASE Files!PickPretty
      BY <2>2, <3>2 DEF Files!PickPretty, Files!OnlyJson, TimedJson
    <3>3. CASE Files!JsonMessageEnds
      <4>1. json.timers > 0 /\ json' = [pretty |-> json.pretty, status |-> None,
                                        timers |-> json.timers - 1, top |-> json.top]
        BY <2>2, <3>3 DEF Files!JsonMessageEnds, Files!OnlyJson, TimedJson
      <4>2. json.timers - 1 \in Nat
        BY <2>2, <4>1
      <4> QED BY <3>1, <4>1, <4>2
    <3>4. ASSUME NEW s \in Samples, Files!ClickJson(s) PROVE TimedJson(json')
      <4>1. json' = [pretty |-> json.pretty, status |-> json.pretty,
                     timers |-> json.timers + 1, top |-> <<s, Files!TopCategory(s)>>]
        BY <2>2, <3>4 DEF Files!ClickJson, Files!OnlyJson, TimedJson
      <4>2. json.timers + 1 \in Nat /\ json.timers + 1 > 0
        BY <2>2
      <4> QED BY <3>1, <4>1, <4>2
    <3> QED BY <1>3, <3>2, <3>3, <3>4 DEF Files!JsonNext
  <2> QED BY <2>1, <2>3 DEF FilesInv, AskedFor, Timed, TimedJson
<1> QED BY <1>1, <1>2, <1>3

\* A switch of the background marks every picture under way.
LEMMA StepPicture ==
  ASSUME FilesInv, Files!PictureNext
  PROVE  FilesInv'
<1>0. UNCHANGED <<book, json>>
  BY DEF Files!PictureNext, Files!PickBackground, Files!ClickPicture, Files!PictureTaken,
     Files!PictureFails, Files!OnlyPicture
<1>1. \A i \in DOMAIN picture.runs : AskedFor(Files!Spliced(picture.runs, i), picture.background)
  <2> TAKE i \in DOMAIN picture.runs
  <2> DEFINE rest == Files!Spliced(picture.runs, i)
  <2>1. rest \in Seq(Run) /\ \A k \in DOMAIN rest : \E j \in DOMAIN picture.runs : rest[k] = picture.runs[j]
    <3>1. picture.runs \in Seq(Run)
      BY DEF FilesInv, AskedFor
    <3>2. /\ rest \in Seq(Run) /\ Len(rest) = Len(picture.runs) - 1
          /\ \A k \in DOMAIN rest : rest[k] = picture.runs[IF k < i THEN k ELSE k + 1]
      BY <3>1, RemoveAtPlaces DEF Files!Spliced
    <3>3. \A k \in DOMAIN rest : (IF k < i THEN k ELSE k + 1) \in DOMAIN picture.runs
      BY <3>1, <3>2
    <3> QED BY <3>2, <3>3
  <2> HIDE DEF rest
  <2>2. \A j \in DOMAIN picture.runs :
          picture.runs[j].asked = picture.background \/ picture.runs[j].switched
    BY DEF FilesInv, AskedFor
  <2>3. \A k \in DOMAIN rest : rest[k].asked = picture.background \/ rest[k].switched
    BY <2>1, <2>2
  <2>4. AskedFor(rest, picture.background)
    BY <2>1, <2>3 DEF AskedFor
  <2> QED BY <2>4 DEF rest
<1>2. CASE Files!PickBackground
  <2>1. PICK b \in {"white", "transparent"} : picture' =
          [picture EXCEPT !.background = b,
                          !.runs = [i \in DOMAIN @ |-> [@[i] EXCEPT !.switched = TRUE]]]
    BY <1>2 DEF Files!PickBackground, Files!OnlyPicture
  <2> DEFINE marked == [i \in DOMAIN picture.runs |-> [picture.runs[i] EXCEPT !.switched = TRUE]]
  <2>2. picture.runs \in Seq(Run)
    BY DEF FilesInv, AskedFor
  <2>3. \A i \in DOMAIN picture.runs : marked[i] \in Run /\ marked[i].switched
    <3>1. \A i \in DOMAIN picture.runs : picture.runs[i] \in Run
      BY <2>2, SeqElements
    <3>2. ASSUME NEW run \in Run
          PROVE  [run EXCEPT !.switched = TRUE] \in Run /\ [run EXCEPT !.switched = TRUE].switched
      BY DEF Run
    <3> QED BY <3>1, <3>2
  <2>4. marked \in Seq(Run)
    <3>1. marked = [i \in DOMAIN picture.runs |-> marked[i]]
      OBVIOUS
    <3> HIDE DEF marked
    <3>2. marked \in [DOMAIN picture.runs -> Run]
      BY <2>3, <3>1
    <3>3. DOMAIN picture.runs = 1..Len(picture.runs) /\ Len(picture.runs) \in Nat
      BY <2>2
    <3> QED BY <3>2, <3>3, SeqDef
  <2>5. picture' = [picture EXCEPT !.background = b, !.runs = marked]
    BY <2>1 DEF FilesInv
  <2>6. AskedFor(marked, b)
    BY <2>3, <2>4 DEF AskedFor
  <2> HIDE DEF marked
  <2> QED BY <1>0, <2>5, <2>6 DEF FilesInv, Timed, TimedJson
<1>3. ASSUME NEW copy \in BOOLEAN, Files!ClickPicture(copy) PROVE FilesInv'
  <2> DEFINE new == [asked |-> picture.background, copy |-> copy, switched |-> FALSE]
             all == Append(picture.runs, new)
  <2>1. picture' = [picture EXCEPT !.runs = all]
    BY <1>3 DEF Files!ClickPicture, Files!OnlyPicture
  <2>2. picture.runs \in Seq(Run) /\ new \in Run /\ new.asked = picture.background
    BY DEF FilesInv, AskedFor, Run
  <2> HIDE DEF new
  <2>3. AskedFor(all, picture.background)
    BY <2>2 DEF FilesInv, AskedFor
  <2> HIDE DEF all
  <2> QED BY <1>0, <2>1, <2>3 DEF FilesInv, Timed, TimedJson
<1>4. CASE Files!PictureTaken
  <2>1. PICK i \in DOMAIN picture.runs : picture' =
          [picture EXCEPT !.runs = Files!Spliced(@, i), !.status = "done",
                          !.taken = <<picture.runs[i], picture.background>>]
    BY <1>4 DEF Files!PictureTaken, Files!OnlyPicture
  <2>2. picture.runs[i].asked = picture.background \/ picture.runs[i].switched
    BY DEF FilesInv, AskedFor
  <2> QED BY <1>0, <1>1, <2>1, <2>2 DEF FilesInv, Timed, TimedJson
<1>5. CASE Files!PictureFails
  <2>1. PICK i \in DOMAIN picture.runs :
          picture' = [picture EXCEPT !.runs = Files!Spliced(@, i), !.status = "failed"]
    BY <1>5 DEF Files!PictureFails, Files!OnlyPicture
  <2> QED BY <1>0, <1>1, <2>1 DEF FilesInv, Timed, TimedJson
<1> QED BY <1>2, <1>3, <1>4, <1>5 DEF Files!PictureNext

LEMMA StepFiles == FilesInv /\ [FilesNext]_(Files!exportVars) => FilesInv'
<1>1. FilesInv /\ UNCHANGED Files!exportVars => FilesInv'
  BY DEF Files!exportVars, FilesInv, AskedFor, Timed, TimedJson
<1> QED BY <1>1, StepMessages, StepPicture DEF FilesNext

LEMMA FilesKeep == FilesInv => Files!MessagesHaveTimers
BY DEF FilesInv, Files!MessagesHaveTimers, Timed, TimedJson

-----------------------------------------------------------------------------
(* The geofence page *)

IsMap(m) == m = [regions |-> m.regions, points |-> m.points, drawing |-> m.drawing,
                 selected |-> m.selected, edit |-> m.edit]
FieldHasRegion(m) == m.edit # Regions!Nameless => m.selected \in Regions!RegionIds(m.regions)
IsRequest(r) ==
  /\ r.kind \in {"load", "create", "delete", "patch"}
  /\ r = [n |-> r.n, kind |-> r.kind, id |-> r.id, name |-> r.name, seen |-> r.seen,
          served |-> r.served, ok |-> r.ok, answer |-> r.answer]
RegionsInv ==
  IsMap(map) /\ FieldHasRegion(map) /\ \A r \in pending : IsRequest(r)

\* The effect that fills the rename field empties it where no region is selected.
LEMMA RefilledFits ==
  ASSUME NEW m, IsMap(m)
  PROVE  IsMap(Regions!Refilled(m)) /\ FieldHasRegion(Regions!Refilled(m))
BY DEF IsMap, FieldHasRegion, Regions!Refilled

LEMMA InitRegions == Regions!RegionInit => RegionsInv
BY DEF Regions!RegionInit, RegionsInv, Regions!Blank, Regions!FirstLoad, IsMap, FieldHasRegion,
       IsRequest

LEMMA ShownIsMap ==
  ASSUME IsMap(map), NEW r, IsRequest(r)
  PROVE  IsMap(Regions!Shown(r))
<1>1. CASE r.kind = "load"
  BY <1>1 DEF Regions!Shown, IsMap
<1>2. CASE r.kind = "create"
  BY <1>2 DEF Regions!Shown, IsMap
<1>3. CASE r.kind = "delete"
  BY <1>3 DEF Regions!Shown, IsMap
<1>4. CASE r.kind = "patch"
  BY <1>4 DEF Regions!Shown, IsMap
<1> QED BY <1>1, <1>2, <1>3, <1>4 DEF IsRequest

LEMMA AnsweredIsRequest ==
  ASSUME NEW r, IsRequest(r), NEW ok, NEW told
  PROVE  IsRequest([r EXCEPT !.served = TRUE, !.ok = ok, !.answer = told])
<1>1. ASSUME NEW q, IsRequest(q), NEW v PROVE IsRequest([q EXCEPT !.served = v])
  BY <1>1 DEF IsRequest
<1>2. ASSUME NEW q, IsRequest(q), NEW v PROVE IsRequest([q EXCEPT !.ok = v])
  BY <1>2 DEF IsRequest
<1>3. ASSUME NEW q, IsRequest(q), NEW v PROVE IsRequest([q EXCEPT !.answer = v])
  BY <1>3 DEF IsRequest
<1>4. IsRequest([r EXCEPT !.served = TRUE])
  BY <1>1
<1>5. IsRequest([[r EXCEPT !.served = TRUE] EXCEPT !.ok = ok])
  BY <1>2, <1>4
<1> QED BY <1>3, <1>5

LEMMA ServeKeeps == RegionsInv /\ Regions!Serve => RegionsInv'
<1> SUFFICES ASSUME RegionsInv, Regions!Serve PROVE RegionsInv'
  OBVIOUS
<1>1. PICK r \in pending :
        CASE r.kind = "load" -> Regions!ServeLoad(r)
          [] r.kind = "create" -> Regions!ServeCreate(r)
          [] r.kind = "delete" -> Regions!ServeDelete(r)
          [] r.kind = "patch" -> Regions!ServePatch(r)
  BY DEF Regions!Serve
<1>2. IsRequest(r)
  BY DEF RegionsInv
<1>3. Regions!ServeLoad(r) \/ Regions!ServeCreate(r) \/ Regions!ServeDelete(r) \/ Regions!ServePatch(r)
  BY <1>1, <1>2 DEF IsRequest
<1>4. PICK ok, told : Regions!Settled(r, ok, told)
  BY <1>3 DEF Regions!ServeLoad, Regions!ServeCreate, Regions!ServeDelete, Regions!ServePatch
<1>5. IsRequest([r EXCEPT !.served = TRUE, !.ok = ok, !.answer = told])
  BY <1>2, AnsweredIsRequest
<1> QED BY <1>4, <1>5 DEF Regions!Settled, RegionsInv

LEMMA StepRegions == RegionsInv /\ [Regions!RegionNext]_(Regions!regionVars) => RegionsInv'
<1> SUFFICES ASSUME RegionsInv, [Regions!RegionNext]_(Regions!regionVars) PROVE RegionsInv'
  OBVIOUS
<1>0. IsMap(map) /\ FieldHasRegion(map) /\ \A r \in pending : IsRequest(r)
  BY DEF RegionsInv
<1>1. ASSUME NEW m, IsMap(m), FieldHasRegion(m), Regions!Click(m) PROVE RegionsInv'
  BY <1>0, <1>1 DEF Regions!Click, RegionsInv
<1>2. CASE Regions!StartDrawing \/ Regions!AddPoint \/ Regions!CancelDrawing
  <2>1. ASSUME NEW points, NEW drawing,
               Regions!Click([map EXCEPT !.points = points, !.drawing = drawing])
        PROVE  RegionsInv'
    <3> DEFINE m == [map EXCEPT !.points = points, !.drawing = drawing]
    <3>1. ASSUME NEW q, IsMap(q), FieldHasRegion(q), NEW v
          PROVE  IsMap([q EXCEPT !.points = v]) /\ FieldHasRegion([q EXCEPT !.points = v])
      BY <3>1 DEF IsMap, FieldHasRegion
    <3>2. ASSUME NEW q, IsMap(q), FieldHasRegion(q), NEW v
          PROVE  IsMap([q EXCEPT !.drawing = v]) /\ FieldHasRegion([q EXCEPT !.drawing = v])
      BY <3>2 DEF IsMap, FieldHasRegion
    <3>3. IsMap([map EXCEPT !.points = points]) /\ FieldHasRegion([map EXCEPT !.points = points])
      BY <1>0, <3>1
    <3>4. IsMap(m) /\ FieldHasRegion(m)
      BY <3>2, <3>3
    <3> QED BY <1>1, <2>1, <3>4
  <2>2. /\ [map EXCEPT !.drawing = TRUE, !.points = 0] = [map EXCEPT !.points = 0, !.drawing = TRUE]
        /\ [map EXCEPT !.drawing = FALSE, !.points = 0] = [map EXCEPT !.points = 0, !.drawing = FALSE]
        /\ [map EXCEPT !.points = map.points + 1]
             = [map EXCEPT !.points = map.points + 1, !.drawing = map.drawing]
    BY <1>0 DEF IsMap
  <2> QED BY <1>2, <2>1, <2>2 DEF Regions!StartDrawing, Regions!AddPoint, Regions!CancelDrawing
<1>3. ASSUME NEW id, Regions!Select(id) PROVE RegionsInv'
  <2> DEFINE m == [map EXCEPT !.selected = id]
  <2>1. IsMap(m)
    BY <1>0 DEF IsMap
  <2>2. CASE id = map.selected
    BY <1>0, <1>1, <1>3, <2>2 DEF Regions!Select
  <2>3. CASE id # map.selected
    BY <1>1, <1>3, <2>1, <2>3, RefilledFits DEF Regions!Select
  <2> QED BY <2>2, <2>3
<1>4. ASSUME NEW name, Regions!TypeName(name) PROVE RegionsInv'
  <2> DEFINE m == [map EXCEPT !.edit = name]
  <2>1. IsMap(m) /\ FieldHasRegion(m)
    BY <1>0, <1>4 DEF IsMap, FieldHasRegion, Regions!TypeName
  <2> QED BY <1>1, <1>4, <2>1 DEF Regions!TypeName
<1>5. ASSUME NEW kind \in {"create", "delete", "patch"}, NEW id, NEW name,
             Regions!Send(Regions!Request(kind, id, name))
      PROVE  RegionsInv'
  <2>1. IsRequest(Regions!Request(kind, id, name))
    BY DEF IsRequest, Regions!Request
  <2> QED BY <1>0, <1>5, <2>1 DEF Regions!Send, RegionsInv
<1>6. CASE Regions!Mount
  <2>1. IsMap(Regions!Blank) /\ FieldHasRegion(Regions!Blank) /\ IsRequest(Regions!FirstLoad)
    BY DEF IsMap, FieldHasRegion, IsRequest, Regions!Blank, Regions!FirstLoad
  <2> QED BY <1>6, <2>1 DEF Regions!Mount, RegionsInv
<1>7. CASE Regions!Lose
  <2>1. PICK r \in pending :
          /\ pending' = pending \ {r}
          /\ map' = IF r.kind = "load" THEN Regions!Refilled([map EXCEPT !.regions = << >>]) ELSE map
    BY <1>7 DEF Regions!Lose
  <2>2. IsMap([map EXCEPT !.regions = << >>])
    BY <1>0 DEF IsMap
  <2> QED BY <1>0, <2>1, <2>2, RefilledFits DEF RegionsInv
<1>8. CASE Regions!Answer
  <2>1. PICK r \in pending :
          pending' = pending \ {r} /\ map' = IF r.ok THEN Regions!Refilled(Regions!Shown(r)) ELSE map
    BY <1>8 DEF Regions!Answer
  <2>2. IsMap(Regions!Shown(r))
    BY <1>0, ShownIsMap
  <2> QED BY <1>0, <2>1, <2>2, RefilledFits DEF RegionsInv
<1>9. CASE UNCHANGED Regions!regionVars
  BY <1>0, <1>9 DEF Regions!regionVars, RegionsInv
<1>10. CASE Regions!SelectShape \/ Regions!ToggleEntry
  BY <1>3, <1>10 DEF Regions!SelectShape, Regions!ToggleEntry
<1>11. CASE Regions!ClosePolygon \/ Regions!DeleteRegion \/ Regions!UpdateRegion
  BY <1>5, <1>11 DEF Regions!ClosePolygon, Regions!DeleteRegion, Regions!UpdateRegion
<1> QED BY <1>2, <1>4, <1>6, <1>7, <1>8, <1>9, <1>10, <1>11, ServeKeeps DEF Regions!RegionNext

LEMMA RegionsKeep == RegionsInv => Regions!RenameFieldHasARegion
BY DEF RegionsInv, FieldHasRegion, Regions!RenameFieldHasARegion

-----------------------------------------------------------------------------
(* The map with its pins *)

Place == {"default", "found"}
PinOf(n) == [id : 0..n, status : GistMap!Statuses, at : Place]
PostOf(n) == [id : 1..n, at : Place, stage : {"sent", "stored", "failed"}]
NonePending == \A i \in DOMAIN pins : pins[i].status # "pending"
\* The pin of the post in flight, and no other, is pending.
OnePending ==
  /\ \E i \in DOMAIN pins : pins[i].status = "pending"
  /\ \A i \in DOMAIN pins : pins[i].status = "pending" => pins[i].id = post.id /\ pins[i].at = post.at
MapInv ==
  /\ sent \in Nat /\ here \in Place /\ pins \in Seq(PinOf(sent)) /\ OwnIds(pins)
  /\ modal = [open |-> modal.open, text |-> modal.text, loading |-> modal.loading]
  /\ \/ post = None /\ modal.loading = FALSE /\ NonePending
     \/ post \in PostOf(sent) /\ modal.loading = TRUE /\ OnePending

LEMMA PostIsOne == ASSUME NEW n \in Nat PROVE None \notin PostOf(n)
<1>1. None \notin [id : Nat, at : Place, stage : {"sent", "stored", "failed"}]
  BY BrowserConstants DEF BrowserConstants, Place
<1>2. 1..n \subseteq Nat
  OBVIOUS
<1>3. PostOf(n) \subseteq [id : Nat, at : Place, stage : {"sent", "stored", "failed"}]
  BY <1>2 DEF PostOf
<1> QED BY <1>1, <1>3

LEMMA InitMap == GistMap!MapInit => MapInv
<1> SUFFICES ASSUME GistMap!MapInit PROVE MapInv
  OBVIOUS
<1> DEFINE pin == [id |-> 0, status |-> "seeded", at |-> "default"]
<1>1. pins = <<pin>> /\ sent = 0
  BY DEF GistMap!MapInit
<1>2. pin \in PinOf(0) /\ pin.status = "seeded"
  BY DEF PinOf, Place, GistMap!Statuses
<1> HIDE DEF pin
<1>3. pins \in Seq(PinOf(0)) /\ OwnIds(pins) /\ NonePending
  BY <1>1, <1>2 DEF OwnIds, NonePending
<1> QED BY <1>1, <1>3 DEF GistMap!MapInit, MapInv, Place

LEMMA SubmitKeeps == MapInv /\ GistMap!Submit => MapInv'
<1> SUFFICES ASSUME MapInv, GistMap!Submit PROVE MapInv'
  OBVIOUS
<1> DEFINE n == sent + 1
           pin == [id |-> n, status |-> "pending", at |-> here]
           all == Append(pins, pin)
<1>0. /\ sent' = n /\ pins' = all /\ post' = [id |-> n, at |-> here, stage |-> "sent"]
      /\ modal' = [modal EXCEPT !.loading = TRUE] /\ here' = here /\ ~modal.loading
  BY DEF GistMap!Submit, GistMap!MaySubmit
<1>1. sent \in Nat /\ n \in Nat /\ pins \in Seq(PinOf(sent)) /\ here \in Place /\ NonePending
  BY <1>0 DEF MapInv
<1>2. pin.id = n /\ pin.status = "pending" /\ pin.at = here
  OBVIOUS
<1>3. pin \in PinOf(n) /\ PinOf(sent) \subseteq PinOf(n)
  BY <1>1 DEF PinOf, GistMap!Statuses
<1> HIDE DEF pin
<1>4. pins \in Seq(PinOf(n))
  BY <1>1, <1>3
<1>5. /\ all \in Seq(PinOf(n)) /\ Len(all) = Len(pins) + 1 /\ all[Len(pins) + 1] = pin
      /\ \A i \in 1..Len(pins) : all[i] = pins[i]
  BY <1>3, <1>4
<1>6. \A i \in 1..Len(pins) : pins[i].id # n /\ pins[i].status # "pending"
  <2>1. \A i \in 1..Len(pins) : pins[i] \in PinOf(sent)
    BY <1>1
  <2>2. \A i \in 1..Len(pins) : pins[i].id \in 0..sent
    BY <2>1 DEF PinOf
  <2> QED BY <1>1, <2>2 DEF NonePending
<1>7. \A i, j \in 1..Len(pins) : pins[i].id = pins[j].id => i = j
  BY <1>1 DEF MapInv, OwnIds
<1> HIDE DEF all
<1>8. OwnIds(all)
  <2> SUFFICES ASSUME NEW i \in 1..Len(pins) + 1, NEW j \in 1..Len(pins) + 1, all[i].id = all[j].id
               PROVE  i = j
    BY <1>5 DEF OwnIds
  <2> QED BY <1>1, <1>2, <1>5, <1>6, <1>7
<1>9. OnePending'
  <2>1. Len(pins) + 1 \in DOMAIN all /\ all[Len(pins) + 1].status = "pending"
    BY <1>1, <1>2, <1>5
  <2>2. \A i \in DOMAIN all : all[i].status = "pending" => all[i] = pin
    BY <1>1, <1>5, <1>6
  <2> QED BY <1>0, <1>2, <2>1, <2>2 DEF OnePending
<1>10. post' \in PostOf(n)
  BY <1>0, <1>1 DEF PostOf
<1>11. modal' = [open |-> modal'.open, text |-> modal'.text, loading |-> modal'.loading]
       /\ modal'.loading = TRUE
  BY <1>0 DEF MapInv
<1> QED BY <1>0, <1>1, <1>5, <1>8, <1>9, <1>10, <1>11 DEF MapInv

LEMMA SucceedKeeps == MapInv /\ GistMap!Succeed => MapInv'
<1> SUFFICES ASSUME MapInv, GistMap!Succeed PROVE MapInv'
  OBVIOUS
<1> DEFINE told == [i \in DOMAIN pins |->
      IF pins[i].id = post.id THEN [pins[i] EXCEPT !.status = "delivered"] ELSE pins[i]]
<1>1. /\ pins' = told /\ post' = None /\ sent' = sent /\ here' = here /\ post # None
      /\ modal' = [open |-> FALSE, text |-> GistMap!Blank, loading |-> FALSE]
  BY DEF GistMap!Succeed, GistMap!Finish
<1>2. pins \in Seq(PinOf(sent)) /\ OnePending /\ OwnIds(pins)
  BY <1>1 DEF MapInv
<1>3. \A i \in DOMAIN pins : pins[i] \in PinOf(sent)
  BY <1>2
<1>4. \A i \in DOMAIN pins : told[i] \in PinOf(sent) /\ told[i].id = pins[i].id
                             /\ told[i].status # "pending"
  BY <1>2, <1>3 DEF PinOf, GistMap!Statuses, OnePending
<1>5. told \in Seq(PinOf(sent)) /\ DOMAIN told = DOMAIN pins
  BY <1>2, <1>4
<1> HIDE DEF told
<1>6. OwnIds(told) /\ NonePending'
  BY <1>1, <1>2, <1>4, <1>5 DEF OwnIds, NonePending
<1> QED BY <1>1, <1>5, <1>6 DEF MapInv

LEMMA FailPostKeeps == MapInv /\ GistMap!FailPost => MapInv'
<1> SUFFICES ASSUME MapInv, GistMap!FailPost PROVE MapInv'
  OBVIOUS
<1> DEFINE S == {p \in GistMap!Range(pins) : p.id # post.id}
           left == Kept(pins, S)
           Pins == PinOf(sent)
<1>1. /\ pins' = left /\ post' = None /\ sent' = sent /\ here' = here /\ post # None
      /\ modal' = [open |-> FALSE, text |-> GistMap!Blank, loading |-> FALSE]
  BY OneFilter DEF GistMap!FailPost, GistMap!Finish, GistMap!WithoutPin
<1>2. pins \in Seq(PinOf(sent)) /\ OnePending /\ OwnIds(pins)
  BY <1>1 DEF MapInv
<1>3. left \in Seq(PinOf(sent)) /\ \A i \in DOMAIN left : left[i] \in S /\ \E j \in DOMAIN pins : pins[j] = left[i]
  <2>1. pins \in Seq(Pins)
    BY <1>2
  <2> HIDE DEF Pins, S
  <2>2. left \in Seq(Pins) /\ \A i \in DOMAIN left : left[i] \in S /\ \E j \in DOMAIN pins : pins[j] = left[i]
    BY <2>1, KeptFacts
  <2> QED BY <2>2 DEF Pins
<1>4. OwnIds(left)
  BY <1>2, KeptOwnIds
<1> HIDE DEF left
<1>5. NonePending'
  BY <1>1, <1>2, <1>3 DEF NonePending, OnePending
<1> QED BY <1>1, <1>3, <1>4, <1>5 DEF MapInv

LEMMA StepMap == MapInv /\ [GistMap!MapNext]_(GistMap!mapVars) => MapInv'
<1> SUFFICES ASSUME MapInv, [GistMap!MapNext]_(GistMap!mapVars) PROVE MapInv'
  OBVIOUS
<1>1. ASSUME UNCHANGED <<pins, post, sent>>, here' \in Place,
             modal' = [open |-> modal'.open, text |-> modal'.text, loading |-> modal.loading]
      PROVE  MapInv'
  BY <1>1 DEF MapInv, NonePending, OnePending
<1>2. CASE GistMap!Locate \/ GistMap!ToastExpires
  BY <1>1, <1>2 DEF GistMap!Locate, GistMap!ToastExpires, MapInv, Place
<1>3. CASE GistMap!OpenModal \/ GistMap!CloseModal
  BY <1>1, <1>3 DEF GistMap!OpenModal, GistMap!CloseModal, GistMap!OnlyModal, MapInv
<1>4. ASSUME NEW text, GistMap!TypeContent(text) PROVE MapInv'
  BY <1>1, <1>4 DEF GistMap!TypeContent, GistMap!OnlyModal, MapInv
<1>5. ASSUME NEW s \in {"stored", "failed"}, GistMap!Stage(s), post # None PROVE MapInv'
  <2>1. post \in PostOf(sent) /\ post' = [post EXCEPT !.stage = s]
    BY <1>5 DEF GistMap!Stage, MapInv
  <2>2. post' \in PostOf(sent) /\ post'.id = post.id /\ post'.at = post.at
    BY <2>1 DEF PostOf
  <2> QED BY <1>5, <2>2 DEF GistMap!Stage, MapInv, OnePending
<1>6. CASE GistMap!BackendStores \/ GistMap!BackendRefuses \/ GistMap!AnswerLost
  BY <1>5, <1>6 DEF GistMap!BackendStores, GistMap!BackendRefuses, GistMap!AnswerLost
<1>7. CASE UNCHANGED GistMap!mapVars
  BY <1>1, <1>7 DEF GistMap!mapVars, MapInv
<1> QED BY <1>2, <1>3, <1>4, <1>6, <1>7, SubmitKeeps, SucceedKeeps, FailPostKeeps
        DEF GistMap!MapNext

LEMMA MapCount == \A S : GistMap!Cardinality(S) = Cardinality(S)
BY DEF GistMap!Cardinality, Cardinality

LEMMA MapKeeps == MapInv => GistMap!PendingPinHasItsPost
<1> SUFFICES ASSUME MapInv PROVE GistMap!PendingPinHasItsPost
  OBVIOUS
<1>1. CASE post = None
  <2>1. post \notin PostOf(sent)
    BY <1>1, PostIsOne DEF MapInv
  <2>2. GistMap!Drawn("pending") = {} /\ modal.loading = FALSE
    BY <2>1 DEF MapInv, NonePending, GistMap!Drawn
  <2> QED BY <1>1, <2>2, FS_EmptySet, MapCount DEF GistMap!PendingPinHasItsPost
<1>2. CASE post # None
  <2>1. OnePending /\ modal.loading = TRUE /\ OwnIds(pins)
    BY <1>2 DEF MapInv
  <2>2. PICK i \in DOMAIN pins : pins[i].status = "pending"
    BY <2>1 DEF OnePending
  <2>3. GistMap!Drawn("pending") = {i}
    BY <2>1, <2>2 DEF OnePending, OwnIds, GistMap!Drawn
  <2>4. Cardinality({i}) = 1
    BY FS_Singleton
  <2>5. \A j \in GistMap!Drawn("pending") : pins[j].id = post.id /\ pins[j].at = post.at
    BY <2>1 DEF OnePending, GistMap!Drawn
  <2> QED BY <1>2, <2>1, <2>3, <2>4, <2>5, MapCount DEF GistMap!PendingPinHasItsPost
<1> QED BY <1>1, <1>2

-----------------------------------------------------------------------------
(* The query builder that a page embeds *)

FilterOf == [id : Nat, value : FilterValue]
BuilderOf == [columns : Seq(Columns), filters : Seq(FilterOf), next : Nat, named : BOOLEAN,
              mount : Nat, foreign : BOOLEAN]
ListedOf == [id : Nat, mount : Nat, foreign : BOOLEAN, columns : Seq(Columns),
             filters : Seq(FilterOf)]
\* Filters numbered below the next number, each with its own.
Numbered(filters, n) == OwnIds(filters) /\ \A i \in DOMAIN filters : filters[i].id < n
OfMount(list, mount) == {i \in DOMAIN list : list[i].mount = mount}
\* The queries of a mount are numbered by how many it handed over.
ListedAre(list) ==
  /\ \A i \in DOMAIN list : list[i].id \in 1..Cardinality(OfMount(list, list[i].mount))
  /\ \A i, j \in DOMAIN list : list[i].id = list[j].id /\ list[i].mount = list[j].mount => i = j
\* Of a mount, what was numbered in it is numbered below its next number.
NumberedIn(list, mount, n) ==
  \A i \in DOMAIN list :
    list[i].mount <= mount
    /\ (list[i].foreign = FALSE /\ list[i].mount = mount => Numbered(list[i].filters, n))
QueriesInv ==
  /\ builder \in BuilderOf /\ listed \in Seq(ListedOf)
  /\ builder.foreign = FALSE => Numbered(builder.filters, builder.next)
  /\ NumberedIn(listed, builder.mount, builder.next) /\ ListedAre(listed)

LEMMA InitQueries == Embedded!QueryInit => QueriesInv
<1> SUFFICES ASSUME Embedded!QueryInit PROVE QueriesInv
  OBVIOUS
<1>1. FirstColumn \in Seq(Columns)
  BY BrowserConstants DEF BrowserConstants
<1>2. builder = Embedded!Mounted(1) /\ listed = << >>
  BY DEF Embedded!QueryInit
<1>3. << >> \in Seq(FilterOf) /\ << >> \in Seq(ListedOf)
  OBVIOUS
<1>4. builder \in BuilderOf
  BY <1>1, <1>2, <1>3 DEF Embedded!Mounted, BuilderOf
<1>5. Numbered(<< >>, 1)
  BY DEF Numbered, OwnIds
<1> QED BY <1>2, <1>3, <1>4, <1>5 DEF Embedded!Mounted, QueriesInv, NumberedIn, ListedAre

\* Another builder in the same mount, of the same numbers or more, leaves the queries told.
LEMMA BuilderKeeps ==
  ASSUME QueriesInv, NEW b \in BuilderOf, Embedded!OnlyBuilder(b), b.mount = builder.mount,
         builder.next <= b.next, b.foreign = FALSE => Numbered(b.filters, b.next)
  PROVE  QueriesInv'
<1>1. builder' = b /\ listed' = listed
  BY DEF Embedded!OnlyBuilder
<1>2. builder \in BuilderOf /\ listed \in Seq(ListedOf)
  BY DEF QueriesInv
<1>3. \A i \in DOMAIN listed : listed[i] \in ListedOf
  BY <1>2
<1>4. NumberedIn(listed, b.mount, b.next)
  <2> SUFFICES ASSUME NEW i \in DOMAIN listed, listed[i].foreign = FALSE,
                      listed[i].mount = b.mount
               PROVE  Numbered(listed[i].filters, b.next)
    BY DEF NumberedIn, QueriesInv
  <2>1. Numbered(listed[i].filters, builder.next)
    BY DEF NumberedIn, QueriesInv
  <2>2. \A k \in DOMAIN listed[i].filters : listed[i].filters[k] \in FilterOf
    BY <1>3 DEF ListedOf
  <2>3. \A k \in DOMAIN listed[i].filters : listed[i].filters[k].id \in Nat
    BY <2>2 DEF FilterOf
  <2>4. builder.next \in Nat /\ b.next \in Nat
    BY <1>2 DEF BuilderOf
  <2> QED BY <2>1, <2>3, <2>4 DEF Numbered
<1> QED BY <1>1, <1>2, <1>4 DEF QueriesInv

LEMMA ToggleKeeps == QueriesInv /\ Embedded!ToggleColumn => QueriesInv'
<1> SUFFICES ASSUME QueriesInv, Embedded!ToggleColumn PROVE QueriesInv'
  OBVIOUS
<1>1. builder \in BuilderOf
  BY DEF QueriesInv
<1>2. PICK c \in Columns : Embedded!OnlyBuilder([builder EXCEPT !.columns =
        IF c \in Embedded!Range(@) THEN Kept(@, Embedded!Range(@) \ {c}) ELSE Append(@, c)])
  BY OneFilter DEF Embedded!ToggleColumn
<1> DEFINE columns == IF c \in Embedded!Range(builder.columns)
                      THEN Kept(builder.columns, Embedded!Range(builder.columns) \ {c})
                      ELSE Append(builder.columns, c)
           b == [builder EXCEPT !.columns = columns]
<1>3. columns \in Seq(Columns)
  BY <1>1, KeptFacts DEF BuilderOf
<1>4. Embedded!OnlyBuilder(b)
  BY <1>1, <1>2 DEF BuilderOf
<1> HIDE DEF columns
<1>5. /\ b \in BuilderOf /\ b.mount = builder.mount /\ b.next = builder.next /\ b.next \in Nat
      /\ b.foreign = builder.foreign /\ b.filters = builder.filters
  BY <1>1, <1>3 DEF BuilderOf
<1> HIDE DEF b
<1>6. b.foreign = FALSE => Numbered(b.filters, b.next)
  BY <1>5 DEF QueriesInv
<1>7. builder.next <= b.next
  BY <1>5
<1> QED BY <1>4, <1>5, <1>6, <1>7, BuilderKeeps

\* Filters that are as those there were: another value, or some of them.
LEMMA FiltersKeep ==
  ASSUME QueriesInv, NEW filters \in Seq(FilterOf),
         Embedded!OnlyBuilder([builder EXCEPT !.filters = filters]),
         Numbered(builder.filters, builder.next) => Numbered(filters, builder.next)
  PROVE  QueriesInv'
<1> DEFINE b == [builder EXCEPT !.filters = filters]
<1>1. builder \in BuilderOf /\ Embedded!OnlyBuilder(b)
  BY DEF QueriesInv
<1>2. /\ b \in BuilderOf /\ b.mount = builder.mount /\ b.next = builder.next /\ b.next \in Nat
      /\ b.foreign = builder.foreign /\ b.filters = filters
  BY <1>1 DEF BuilderOf
<1> HIDE DEF b
<1>3. b.foreign = FALSE => Numbered(b.filters, b.next)
  BY <1>2 DEF QueriesInv
<1>4. builder.next <= b.next
  BY <1>2
<1> QED BY <1>1, <1>2, <1>3, <1>4, BuilderKeeps

LEMMA UpdateKeeps == QueriesInv /\ Embedded!UpdateFilter => QueriesInv'
<1> SUFFICES ASSUME QueriesInv, Embedded!UpdateFilter PROVE QueriesInv'
  OBVIOUS
<1>1. builder \in BuilderOf /\ builder.filters \in Seq(FilterOf)
  BY DEF QueriesInv, BuilderOf
<1>2. PICK i \in DOMAIN builder.filters, v \in FilterValue : Embedded!OnlyBuilder(
        [builder EXCEPT !.filters = [j \in DOMAIN @ |->
           IF @[j].id = @[i].id THEN [@[j] EXCEPT !.value = v] ELSE @[j]]])
  BY DEF Embedded!UpdateFilter
<1> DEFINE filters == [j \in DOMAIN builder.filters |->
             IF builder.filters[j].id = builder.filters[i].id
             THEN [builder.filters[j] EXCEPT !.value = v] ELSE builder.filters[j]]
<1>3. \A j \in DOMAIN builder.filters : builder.filters[j] \in FilterOf
  BY <1>1
<1>4. \A j \in DOMAIN builder.filters : filters[j] \in FilterOf /\ filters[j].id = builder.filters[j].id
  BY <1>3 DEF FilterOf
<1>5. filters \in Seq(FilterOf) /\ DOMAIN filters = DOMAIN builder.filters
  <2>1. filters = [j \in DOMAIN builder.filters |-> filters[j]]
    OBVIOUS
  <2> DEFINE FilterSet == FilterOf
  <2>2. \A j \in DOMAIN builder.filters : filters[j] \in FilterSet
    BY <1>4
  <2> HIDE DEF filters, FilterSet
  <2>3. filters \in [DOMAIN builder.filters -> FilterSet]
    BY <2>1, <2>2
  <2>4. Len(builder.filters) \in Nat /\ DOMAIN builder.filters = 1..Len(builder.filters)
    BY <1>1
  <2>5. filters \in Seq(FilterSet) /\ DOMAIN filters = DOMAIN builder.filters
    BY <2>3, <2>4, SeqDef
  <2> QED BY <2>5 DEF FilterSet
<1>6. Embedded!OnlyBuilder([builder EXCEPT !.filters = filters])
  BY <1>1, <1>2 DEF BuilderOf
<1> HIDE DEF filters
<1>7. Numbered(builder.filters, builder.next) => Numbered(filters, builder.next)
  BY <1>4, <1>5 DEF Numbered, OwnIds
<1> QED BY <1>5, <1>6, <1>7, FiltersKeep

LEMMA RemoveKeeps == QueriesInv /\ Embedded!RemoveFilter => QueriesInv'
<1> SUFFICES ASSUME QueriesInv, Embedded!RemoveFilter PROVE QueriesInv'
  OBVIOUS
<1>1. builder \in BuilderOf /\ builder.filters \in Seq(FilterOf)
  BY DEF QueriesInv, BuilderOf
<1>2. PICK i \in DOMAIN builder.filters : Embedded!OnlyBuilder([builder EXCEPT !.filters =
        Kept(@, {f \in Embedded!Range(@) : f.id # builder.filters[i].id})])
  BY OneFilter DEF Embedded!RemoveFilter
<1> DEFINE S == {f \in Embedded!Range(builder.filters) : f.id # builder.filters[i].id}
           filters == Kept(builder.filters, S)
<1>3. Embedded!OnlyBuilder([builder EXCEPT !.filters = filters])
  BY <1>1, <1>2 DEF BuilderOf
<1> HIDE DEF S
<1>4. filters \in Seq(FilterOf)
      /\ \A k \in DOMAIN filters : \E j \in DOMAIN builder.filters : builder.filters[j] = filters[k]
  BY <1>1, KeptFacts
<1>5. OwnIds(builder.filters) => OwnIds(filters)
  BY <1>1, KeptOwnIds
<1> HIDE DEF filters
<1>6. Numbered(builder.filters, builder.next) => Numbered(filters, builder.next)
  BY <1>4, <1>5 DEF Numbered
<1> QED BY <1>3, <1>4, <1>6, FiltersKeep

LEMMA AddKeeps == QueriesInv /\ Embedded!AddFilter => QueriesInv'
<1> SUFFICES ASSUME QueriesInv, Embedded!AddFilter PROVE QueriesInv'
  OBVIOUS
<1>1. builder \in BuilderOf /\ builder.filters \in Seq(FilterOf) /\ builder.next \in Nat
  BY DEF QueriesInv, BuilderOf
<1>2. PICK v \in FilterValue : Embedded!OnlyBuilder(
        [builder EXCEPT !.filters = Append(@, [id |-> builder.next, value |-> v]), !.next = @ + 1])
  BY DEF Embedded!AddFilter
<1> DEFINE new == [id |-> builder.next, value |-> v]
           filters == Append(builder.filters, new)
           b == [builder EXCEPT !.filters = filters, !.next = builder.next + 1]
<1>3. new \in FilterOf /\ new.id = builder.next
  BY <1>1 DEF FilterOf
<1>4. Embedded!OnlyBuilder(b)
  BY <1>1, <1>2 DEF BuilderOf
<1> HIDE DEF new
<1>5. /\ filters \in Seq(FilterOf) /\ Len(filters) = Len(builder.filters) + 1
      /\ filters[Len(builder.filters) + 1] = new
      /\ \A k \in 1..Len(builder.filters) : filters[k] = builder.filters[k]
  BY <1>1, <1>3
<1> HIDE DEF filters
<1>6. /\ b \in BuilderOf /\ b.mount = builder.mount /\ b.next = builder.next + 1
      /\ b.foreign = builder.foreign /\ b.filters = filters
  <2>1. builder.next + 1 \in Nat
    BY <1>1
  <2> QED BY <1>1, <1>5, <2>1 DEF BuilderOf
<1> HIDE DEF b
<1>7. ASSUME Numbered(builder.filters, builder.next) PROVE Numbered(filters, builder.next + 1)
  <2>1. \A k \in 1..Len(builder.filters) : builder.filters[k] \in FilterOf
    BY <1>1
  <2>2. \A k \in 1..Len(builder.filters) : builder.filters[k].id \in Nat
    BY <2>1 DEF FilterOf
  <2>3. \A k \in 1..Len(builder.filters) : builder.filters[k].id < builder.next
    BY <1>1, <1>7 DEF Numbered
  <2>4. \A k, l \in 1..Len(builder.filters) : builder.filters[k].id = builder.filters[l].id => k = l
    BY <1>1, <1>7 DEF Numbered, OwnIds
  <2>5. DOMAIN filters = 1..Len(builder.filters) + 1 /\ Len(builder.filters) \in Nat
    BY <1>1, <1>5
  <2>6. \A k \in DOMAIN filters :
          \/ /\ k \in 1..Len(builder.filters) /\ filters[k].id = builder.filters[k].id
             /\ filters[k].id \in Nat /\ filters[k].id < builder.next
          \/ k = Len(builder.filters) + 1 /\ filters[k].id = builder.next
    <3>1. \A k \in DOMAIN filters : k \in 1..Len(builder.filters) \/ k = Len(builder.filters) + 1
      BY <2>5
    <3> QED BY <1>3, <1>5, <2>2, <2>3, <3>1
  <2>7. \A k \in DOMAIN filters : filters[k].id < builder.next + 1
    BY <1>1, <2>6
  <2>8. ASSUME NEW k \in DOMAIN filters, NEW l \in DOMAIN filters, filters[k].id = filters[l].id
        PROVE  k = l
    <3>1. CASE filters[k].id = builder.next
      <4>1. ~(filters[k].id < builder.next) /\ ~(filters[l].id < builder.next)
        BY <1>1, <2>8, <3>1
      <4>2. k = Len(builder.filters) + 1
        BY <2>6, <4>1
      <4>3. l = Len(builder.filters) + 1
        BY <2>6, <4>1
      <4> QED BY <4>2, <4>3
    <3>2. CASE filters[k].id # builder.next
      <4>1. k \in 1..Len(builder.filters) /\ filters[k].id = builder.filters[k].id
        BY <2>6, <3>2
      <4>2. l \in 1..Len(builder.filters) /\ filters[l].id = builder.filters[l].id
        BY <2>6, <2>8, <3>2
      <4>3. builder.filters[k].id = builder.filters[l].id
        BY <2>8, <4>1, <4>2
      <4> QED BY <2>4, <4>1, <4>2, <4>3
    <3> QED BY <3>1, <3>2
  <2> QED BY <2>7, <2>8 DEF Numbered, OwnIds
<1>8. b.foreign = FALSE => Numbered(b.filters, b.next)
  BY <1>6, <1>7 DEF QueriesInv
<1>9. builder.next <= b.next
  BY <1>1, <1>6
<1> QED BY <1>4, <1>6, <1>8, <1>9, BuilderKeeps

LEMMA EmbeddedCount == \A S : Embedded!Cardinality(S) = Cardinality(S)
BY DEF Embedded!Cardinality, Cardinality

\* The query handed over is the next of its mount.
LEMMA HandOverKeeps == QueriesInv /\ Embedded!SaveQuery => QueriesInv'
<1> SUFFICES ASSUME QueriesInv, Embedded!SaveQuery PROVE QueriesInv'
  OBVIOUS
<1> DEFINE m == builder.mount
           n == Len(listed)
           count == Cardinality(OfMount(listed, m))
           new == [id |-> 1 + count, mount |-> m, foreign |-> builder.foreign,
                   columns |-> builder.columns, filters |-> builder.filters]
           all == Append(listed, new)
<1>1. /\ builder \in BuilderOf /\ listed \in Seq(ListedOf) /\ n \in Nat /\ DOMAIN listed = 1..n
      /\ ListedAre(listed) /\ NumberedIn(listed, m, builder.next)
  BY DEF QueriesInv
<1>2. listed' = all /\ builder' = [builder EXCEPT !.named = FALSE]
  BY EmbeddedCount DEF Embedded!SaveQuery, OfMount
<1>3. /\ builder' \in BuilderOf /\ builder'.mount = m /\ builder'.next = builder.next
      /\ builder'.foreign = builder.foreign /\ builder'.filters = builder.filters
  BY <1>1, <1>2 DEF BuilderOf
<1>4. ASSUME NEW k PROVE IsFiniteSet(OfMount(listed, k)) /\ Cardinality(OfMount(listed, k)) \in Nat
  <2>1. IsFiniteSet(1..n) /\ OfMount(listed, k) \in SUBSET (1..n)
    BY <1>1, FS_Interval DEF OfMount
  <2> QED BY <2>1, FS_Subset, FS_CardinalityType
<1>5. count \in Nat
  BY <1>4
<1>6. /\ new \in ListedOf /\ new.id = 1 + count /\ new.mount = m
      /\ new.foreign = builder.foreign /\ new.filters = builder.filters
  <2>1. 1 + count \in Nat
    BY <1>5
  <2> HIDE DEF count
  <2> QED BY <1>1, <2>1 DEF ListedOf, BuilderOf
<1> HIDE DEF new
<1>7. /\ all \in Seq(ListedOf) /\ DOMAIN all = 1..n + 1 /\ all[n + 1] = new
      /\ \A i \in 1..n : all[i] = listed[i]
  BY <1>1, <1>6
<1> HIDE DEF all
<1>8. ASSUME NEW k PROVE OfMount(all, k) = IF k = m THEN OfMount(listed, k) \cup {n + 1}
                                                    ELSE OfMount(listed, k)
  <2>1. \A i : i \in 1..n + 1 <=> i \in 1..n \/ i = n + 1
    BY <1>1
  <2> QED BY <1>1, <1>6, <1>7, <2>1 DEF OfMount
<1>9. Cardinality(OfMount(all, m)) = count + 1
  <2>1. n + 1 \notin OfMount(listed, m)
    BY <1>1 DEF OfMount
  <2> QED BY <1>4, <1>8, <2>1, FS_AddElement
<1>10. \A k : k # m => Cardinality(OfMount(all, k)) = Cardinality(OfMount(listed, k))
  BY <1>8
<1>11. \A i \in 1..n : listed[i].id \in 1..Cardinality(OfMount(listed, listed[i].mount))
  BY <1>1 DEF ListedAre
<1> HIDE DEF count
<1>12. ListedAre(all)
  <2>1. ASSUME NEW i \in 1..n + 1 PROVE all[i].id \in 1..Cardinality(OfMount(all, all[i].mount))
    <3>1. CASE i = n + 1
      BY <1>5, <1>6, <1>7, <1>9, <3>1
    <3>2. CASE i \in 1..n /\ listed[i].mount = m
      <4>1. listed[i].id \in 1..count
        BY <1>11, <3>2 DEF count
      <4> QED BY <1>5, <1>7, <1>9, <3>2, <4>1
    <3>3. CASE i \in 1..n /\ listed[i].mount # m
      BY <1>7, <1>10, <1>11, <3>3
    <3> QED BY <1>1, <3>1, <3>2, <3>3
  <2>2. ASSUME NEW i \in 1..n, all[i].mount = m PROVE all[i].id # 1 + count
    <3>1. listed[i].id \in 1..count /\ all[i].id = listed[i].id
      BY <1>7, <1>11, <2>2 DEF count
    <3> QED BY <1>5, <3>1
  <2>3. ASSUME NEW i \in 1..n, NEW j \in 1..n, all[i].id = all[j].id, all[i].mount = all[j].mount
        PROVE  i = j
    BY <1>1, <1>7, <2>3 DEF ListedAre
  <2>4. \A i \in 1..n + 1 : i \in 1..n \/ i = n + 1
    BY <1>1
  <2>5. \A i, j \in 1..n + 1 : all[i].id = all[j].id /\ all[i].mount = all[j].mount => i = j
    BY <1>6, <1>7, <2>2, <2>3, <2>4
  <2> QED BY <1>7, <2>1, <2>5 DEF ListedAre
<1>13. NumberedIn(all, m, builder.next)
  <2>1. builder.foreign = FALSE => Numbered(builder.filters, builder.next)
    BY DEF QueriesInv
  <2>2. \A i \in 1..n + 1 : i \in 1..n \/ i = n + 1
    BY <1>1
  <2>3. m <= m
    BY <1>1 DEF BuilderOf
  <2> QED BY <1>1, <1>6, <1>7, <2>1, <2>2, <2>3 DEF NumberedIn
<1> QED BY <1>2, <1>3, <1>7, <1>12, <1>13 DEF QueriesInv

LEMMA LoadKeeps == QueriesInv /\ Embedded!LoadQuery => QueriesInv'
<1> SUFFICES ASSUME QueriesInv, Embedded!LoadQuery PROVE QueriesInv'
  OBVIOUS
<1>1. builder \in BuilderOf /\ listed \in Seq(ListedOf)
  BY DEF QueriesInv
<1>2. PICK i \in DOMAIN listed : Embedded!OnlyBuilder(
        [builder EXCEPT !.columns = listed[i].columns, !.filters = listed[i].filters,
                        !.foreign = listed[i].foreign \/ listed[i].mount # builder.mount])
  BY DEF Embedded!LoadQuery
<1> DEFINE foreign == listed[i].foreign \/ listed[i].mount # builder.mount
           b == [builder EXCEPT !.columns = listed[i].columns, !.filters = listed[i].filters,
                                !.foreign = foreign]
<1>3. listed[i] \in ListedOf
  BY <1>1
<1>4. foreign \in BOOLEAN /\ (foreign = FALSE => listed[i].foreign = FALSE /\ listed[i].mount = builder.mount)
  BY <1>3 DEF ListedOf
<1>5. Embedded!OnlyBuilder(b)
  BY <1>2
<1> HIDE DEF foreign
<1>6. /\ b \in BuilderOf /\ b.mount = builder.mount /\ b.next = builder.next /\ b.next \in Nat
      /\ b.foreign = foreign /\ b.filters = listed[i].filters
  BY <1>1, <1>3, <1>4 DEF BuilderOf, ListedOf
<1> HIDE DEF b
<1>7. b.foreign = FALSE => Numbered(b.filters, b.next)
  BY <1>4, <1>6 DEF QueriesInv, NumberedIn
<1>8. builder.next <= b.next
  BY <1>6
<1> QED BY <1>5, <1>6, <1>7, <1>8, BuilderKeeps

LEMMA RemountKeeps == QueriesInv /\ Embedded!Remount => QueriesInv'
<1> SUFFICES ASSUME QueriesInv, Embedded!Remount PROVE QueriesInv'
  OBVIOUS
<1> DEFINE m == builder.mount + 1
           b == Embedded!Mounted(m)
<1>1. builder' = b /\ listed' = listed
  BY DEF Embedded!Remount, Embedded!OnlyBuilder
<1>2. builder.mount \in Nat /\ listed \in Seq(ListedOf)
  BY DEF QueriesInv, BuilderOf
<1>3. FirstColumn \in Seq(Columns)
  BY BrowserConstants DEF BrowserConstants
<1>4. << >> \in Seq(FilterOf) /\ m \in Nat
  BY <1>2
<1>5. /\ b \in BuilderOf /\ b.mount = m /\ b.next = 1 /\ b.foreign = FALSE
      /\ b.filters = << >>
  BY <1>3, <1>4 DEF Embedded!Mounted, BuilderOf
<1>6. Numbered(<< >>, 1)
  BY DEF Numbered, OwnIds
<1>7. \A i \in DOMAIN listed : listed[i].mount \in Nat
  <2>1. \A i \in DOMAIN listed : listed[i] \in ListedOf
    BY <1>2
  <2> QED BY <2>1 DEF ListedOf
<1>8. NumberedIn(listed, m, 1)
  BY <1>2, <1>7 DEF QueriesInv, NumberedIn
<1> HIDE DEF b, m
<1> QED BY <1>1, <1>5, <1>6, <1>8 DEF QueriesInv

EmbeddedNext == Embedded!SegmentNext \/ Embedded!QueryNext \/ Embedded!PanelNext

LEMMA StepQueries == QueriesInv /\ [EmbeddedNext]_(Embedded!builderVars) => QueriesInv'
<1>1. QueriesInv /\ UNCHANGED <<builder, listed>> => QueriesInv'
  BY DEF QueriesInv
<1>2. Embedded!SegmentNext => UNCHANGED <<builder, listed>>
  BY DEF Embedded!SegmentNext, Embedded!NewRow, Embedded!DropRow, Embedded!ChooseField,
     Embedded!ChooseValue, Embedded!ChooseOp, Embedded!ChooseLogic, Embedded!HandleSave,
     Embedded!WithCondition, Embedded!Change, Embedded!OnlySegment, Embedded!queryState
<1>3. Embedded!PanelNext => UNCHANGED <<builder, listed>>
  BY DEF Embedded!PanelNext, Embedded!AddNote, Embedded!StartEdit, Embedded!TypeText,
     Embedded!CommitEdit, Embedded!CancelEdit, Embedded!RemoveNote, Embedded!ShowPanel,
     Embedded!OtherTab, Embedded!OnlyPanel, Embedded!queryState
<1>4. ASSUME QueriesInv, Embedded!NameQuery PROVE QueriesInv'
  <2>1. PICK named \in BOOLEAN : Embedded!OnlyBuilder([builder EXCEPT !.named = named])
    BY <1>4 DEF Embedded!NameQuery
  <2>2. builder' = [builder EXCEPT !.named = named] /\ listed' = listed /\ builder \in BuilderOf
    BY <1>4, <2>1 DEF Embedded!OnlyBuilder, QueriesInv
  <2>3. /\ builder' \in BuilderOf /\ builder'.mount = builder.mount /\ builder'.next = builder.next
        /\ builder'.foreign = builder.foreign /\ builder'.filters = builder.filters
    BY <2>2 DEF BuilderOf
  <2> QED BY <1>4, <2>2, <2>3 DEF QueriesInv
<1>5. UNCHANGED Embedded!builderVars => UNCHANGED <<builder, listed>>
  BY DEF Embedded!builderVars
<1>6. QueriesInv /\ Embedded!QueryNext => QueriesInv'
  BY <1>4, ToggleKeeps, AddKeeps, UpdateKeeps, RemoveKeeps, HandOverKeeps, LoadKeeps,
     RemountKeeps DEF Embedded!QueryNext
<1> QED BY <1>1, <1>2, <1>3, <1>5, <1>6 DEF EmbeddedNext

LEMMA QueriesKeep == QueriesInv => Embedded!FiltersAreTold
<1> SUFFICES ASSUME QueriesInv PROVE Embedded!FiltersAreTold
  OBVIOUS
<1>1. builder.foreign \in BOOLEAN
  BY DEF QueriesInv, BuilderOf
<1>2. ~builder.foreign => Numbered(builder.filters, builder.next)
  BY <1>1 DEF QueriesInv
<1> QED BY <1>2 DEF QueriesInv, ListedAre, Numbered, OwnIds, Embedded!FiltersAreTold

-----------------------------------------------------------------------------
(* The search field *)

FindOf == [open : BOOLEAN, query : Query, results : Seq(DOMAIN PaletteItem), active : Int,
           due : BOOLEAN, focus : {"page", "input"}]
\* Each result is listed once, and the selection is one of them, or none is there.
FindInv ==
  /\ find \in FindOf /\ Report!IsInjective(find.results)
  /\ find.results = << >> => find.active \in {-1, 0}
  /\ find.results # << >> => find.active \in 0..Len(find.results) - 1

\* A field that is empty.
Blank == ""
LEMMA BlankIsTyped == Blank \in Query /\ Blank \in DOMAIN FoundBy
BY EmptyIsTyped DEF EmptyIsTyped, Blank

LEMMA SearchConstants ==
  /\ Len(PaletteItem) \in Nat /\ DOMAIN PaletteItem = 1..Len(PaletteItem)
  /\ \A i \in DOMAIN PaletteItem :
       PaletteItem[i].type \in {"page", "metric", "location", "category"}
  /\ SearchScore \in [Query -> [DOMAIN PaletteItem -> Nat]] /\ Limit \in Nat
<1> DEFINE entry == [id : STRING, type : {"page", "metric", "location", "category"}, href : STRING]
<1>1. PaletteItem \in Seq(entry)
  BY BrowserConstants DEF BrowserConstants
<1>2. SearchScore \in [Query -> [DOMAIN PaletteItem -> Nat]] /\ Limit \in Nat
  BY BrowserConstants DEF BrowserConstants
<1>3. \A e \in entry : e.type \in {"page", "metric", "location", "category"}
  OBVIOUS
<1> HIDE DEF entry
<1>4. /\ Len(PaletteItem) \in Nat /\ DOMAIN PaletteItem = 1..Len(PaletteItem)
      /\ \A i \in DOMAIN PaletteItem : PaletteItem[i] \in entry
  BY <1>1
<1> QED BY <1>2, <1>3, <1>4

\* The palette and the table sort and join alike.
LEMMA OneOrder ==
  ASSUME NEW S, NEW R, NEW lists
  PROVE  /\ Palette!Ranked(S, R) = Ranked(S, R) /\ Dash!Ranked(S, R) = Ranked(S, R)
         /\ Palette!Joined(lists) = Joined(lists) /\ Dash!Joined(lists) = Joined(lists)
         /\ Palette!Kept(lists, S) = Kept(lists, S)
BY DEF Ranked, Palette!Ranked, Dash!Ranked, Cardinality, Palette!Cardinality, Dash!Cardinality,
   Joined, Palette!Joined, Dash!Joined, Kept, Palette!Kept

LEMMA SearchListsOnce ==
  ASSUME NEW q \in Query
  PROVE  Palette!Search(q) \in Seq(DOMAIN PaletteItem) /\ Report!IsInjective(Palette!Search(q))
<1> DEFINE hits == {i \in DOMAIN PaletteItem : q # Blank /\ SearchScore[q][i] > 0}
           better == {p \in hits \X hits :
             \/ SearchScore[q][p[1]] > SearchScore[q][p[2]]
             \/ SearchScore[q][p[1]] = SearchScore[q][p[2]] /\ p[1] < p[2]}
           ranked == Ranked(hits, better)
           n == IF Len(ranked) < Limit THEN Len(ranked) ELSE Limit
<1>1. /\ Len(PaletteItem) \in Nat /\ DOMAIN PaletteItem = 1..Len(PaletteItem)
      /\ \A i \in DOMAIN PaletteItem : SearchScore[q][i] \in Nat
  <2>1. SearchScore[q] \in [DOMAIN PaletteItem -> Nat]
    BY SearchConstants
  <2> QED BY <2>1, SearchConstants
<1>2. IsFiniteSet(hits)
  <2>1. hits \in SUBSET (1..Len(PaletteItem))
    BY <1>1
  <2>2. IsFiniteSet(1..Len(PaletteItem))
    BY <1>1, FS_Interval
  <2> HIDE DEF hits
  <2> QED BY <2>1, <2>2, FS_Subset
<1>3. Orders(better, hits)
  <2>1. \A i \in hits : i \in Nat /\ SearchScore[q][i] \in Nat
    BY <1>1
  <2>2. \A i, j \in hits : <<i, j>> \in better <=>
          \/ SearchScore[q][i] > SearchScore[q][j]
          \/ SearchScore[q][i] = SearchScore[q][j] /\ i < j
    OBVIOUS
  <2> HIDE DEF hits, better
  <2> QED BY <2>1, <2>2 DEF Orders
<1> HIDE DEF better
<1>4. ranked \in Seq(hits) /\ \A i, j \in DOMAIN ranked : ranked[i] = ranked[j] => i = j
  BY <1>2, <1>3, RankedOnce
<1>5. Palette!Search(q) = SubSeq(ranked, 1, n)
  BY OneOrder DEF Palette!Search, better, Blank
<1> HIDE DEF ranked
<1>6. n \in 0..Len(ranked)
  BY <1>4, SearchConstants
<1> HIDE DEF n
<1>7. /\ SubSeq(ranked, 1, n) \in Seq(hits) /\ Len(SubSeq(ranked, 1, n)) = n
      /\ \A i \in 1..n : SubSeq(ranked, 1, n)[i] = ranked[i] /\ i \in DOMAIN ranked
  BY <1>4, <1>6
<1> HIDE DEF hits
<1>8. Report!IsInjective(SubSeq(ranked, 1, n))
  BY <1>4, <1>7 DEF Report!IsInjective
<1>9. SubSeq(ranked, 1, n) \in Seq(DOMAIN PaletteItem)
  BY <1>7, SeqOfMore DEF hits
<1> QED BY <1>5, <1>8, <1>9

LEMMA IdleFinds ==
  Palette!Idle \in FindOf /\ Palette!Idle.results = << >> /\ Palette!Idle.active = 0
<1>1. Palette!Idle = [open |-> FALSE, query |-> Blank, results |-> << >>, active |-> 0,
                      due |-> TRUE, focus |-> "page"]
  BY DEF Palette!Idle, Blank
<1> QED BY <1>1, BlankIsTyped DEF FindOf

LEMMA InitFind == Palette!PaletteInit => FindInv
BY IdleFinds DEF Palette!PaletteInit, FindInv, Report!IsInjective

\* With no results there is none selected, and the first of some may be.
LEMMA NothingFound ==
  ASSUME NEW f \in FindOf, f.results = << >>, f.active = 0, find' = f
  PROVE  FindInv'
BY DEF FindInv, Report!IsInjective

LEMMA ClosedIsEmpty ==
  FindInv => Palette!Closed \in FindOf /\ Palette!Closed.results = << >> /\ Palette!Closed.active = 0
<1> SUFFICES ASSUME FindInv
             PROVE  /\ Palette!Closed \in FindOf
                    /\ Palette!Closed.results = << >> /\ Palette!Closed.active = 0
  OBVIOUS
<1> DEFINE due == find.due \/ Blank # find.query
           typed == [find EXCEPT !.query = Blank, !.due = due]
           cleared == [typed EXCEPT !.results = << >>]
           first == [cleared EXCEPT !.active = 0]
           shut == [first EXCEPT !.open = FALSE]
<1>1. Palette!Typed(Blank) = typed
  BY DEF Palette!Typed, FindInv, FindOf
<1>2. due \in BOOLEAN
  BY DEF FindInv, FindOf
<1> HIDE DEF due
<1>3. typed \in FindOf
  BY <1>2, BlankIsTyped DEF FindInv, FindOf
<1> HIDE DEF typed
<1>4. << >> \in Seq(DOMAIN PaletteItem)
  OBVIOUS
<1>5. Palette!Closed = [shut EXCEPT !.focus = "page"]
  BY <1>1 DEF Palette!Closed, Blank
<1>6. cleared \in FindOf /\ cleared.results = << >>
  BY <1>3, <1>4 DEF FindOf
<1> HIDE DEF cleared
<1>7. first \in FindOf /\ first.results = << >> /\ first.active = 0
  BY <1>6 DEF FindOf
<1> HIDE DEF first
<1>8. shut \in FindOf /\ shut.results = << >> /\ shut.active = 0
  BY <1>7 DEF FindOf
<1> HIDE DEF shut
<1> QED BY <1>5, <1>8 DEF FindOf

LEMMA StepFind == FindInv /\ [Palette!PaletteNext]_(Palette!paletteVars) => FindInv'
<1> SUFFICES ASSUME FindInv, [Palette!PaletteNext]_(Palette!paletteVars) PROVE FindInv'
  OBVIOUS
<1>0. find \in FindOf /\ Report!IsInjective(find.results) /\ Len(find.results) \in Nat
  BY DEF FindInv, FindOf
<1>1. ASSUME UNCHANGED find PROVE FindInv'
  BY <1>1 DEF FindInv
<1>2. ASSUME NEW f \in FindOf, find' = f, f.results = find.results, f.active = find.active
      PROVE  FindInv'
  BY <1>2 DEF FindInv
<1>3. ASSUME NEW a \in Int, find' = [find EXCEPT !.active = a],
             find.results = << >> => a \in {-1, 0},
             find.results # << >> => a \in 0..Len(find.results) - 1
      PROVE  FindInv'
  BY <1>0, <1>3 DEF FindInv, FindOf
<1>4. CASE Palette!Settle
  <2>1. find' = [find EXCEPT !.results = Palette!Search(find.query), !.active = 0, !.due = FALSE]
    BY <1>4 DEF Palette!Settle, Palette!OnlyFind
  <2> DEFINE found == Palette!Search(find.query)
  <2>2. found \in Seq(DOMAIN PaletteItem) /\ Report!IsInjective(found)
    BY <1>0, SearchListsOnce DEF FindOf
  <2> HIDE DEF found
  <2> DEFINE f1 == [find EXCEPT !.results = found]
             f2 == [f1 EXCEPT !.active = 0]
  <2>0. find' = [f2 EXCEPT !.due = FALSE]
    BY <2>1 DEF found
  <2>5. f1 \in FindOf /\ f1.results = found
    BY <1>0, <2>2 DEF FindOf
  <2> HIDE DEF f1
  <2>6. f2 \in FindOf /\ f2.results = found /\ f2.active = 0
    BY <2>5 DEF FindOf
  <2> HIDE DEF f2
  <2>3. find' \in FindOf /\ find'.results = found /\ find'.active = 0
    BY <2>0, <2>6 DEF FindOf
  <2>4. found # << >> => 0 \in 0..Len(found) - 1
    BY <2>2
  <2> QED BY <2>2, <2>3, <2>4 DEF FindInv
<1>5. CASE Palette!Close
  BY <1>5, ClosedIsEmpty, NothingFound DEF Palette!Close, Palette!OnlyFind
<1>6. CASE Palette!Focus
  <2> DEFINE f == [find EXCEPT !.focus = "input"]
  <2>1. f \in FindOf /\ f.results = find.results /\ f.active = find.active
    BY <1>0 DEF FindOf
  <2>2. find' = f
    BY <1>6 DEF Palette!Focus, Palette!OnlyFind
  <2> HIDE DEF f
  <2> QED BY <1>2, <2>1, <2>2
<1>7. CASE Palette!ArrowDown
  BY <1>0, <1>3, <1>7 DEF Palette!ArrowDown, Palette!OnlyFind, FindInv, FindOf
<1>8. CASE Palette!ArrowUp
  BY <1>0, <1>3, <1>8 DEF Palette!ArrowUp, Palette!OnlyFind, FindInv, FindOf
<1>9. CASE Palette!Hover
  <2>1. PICK i \in DOMAIN find.results : find' = [find EXCEPT !.active = i - 1]
    BY <1>9 DEF Palette!Hover, Palette!OnlyFind
  <2>2. i - 1 \in 0..Len(find.results) - 1 /\ find.results # << >>
    BY <1>0 DEF FindOf
  <2> QED BY <1>3, <2>1, <2>2
<1>10. ASSUME NEW i, Palette!Go(i) PROVE FindInv'
  <2>1. find' = Palette!Closed
    BY <1>10 DEF Palette!Go
  <2> QED BY <2>1, ClosedIsEmpty, NothingFound
<1>11. CASE Palette!ShortcutSearch
  <2> DEFINE f == [find EXCEPT !.open = TRUE]
  <2>1. f \in FindOf /\ f.results = find.results /\ f.active = find.active
    BY <1>0 DEF FindOf
  <2>2. find' = f
    BY <1>11 DEF Palette!ShortcutSearch, Palette!OnlyFind
  <2> HIDE DEF f
  <2> QED BY <1>2, <2>1, <2>2
<1>12. CASE Palette!Reload
  BY <1>12, IdleFinds, NothingFound DEF Palette!Reload
<1>13. ASSUME NEW q \in Query, Palette!Type(q) PROVE FindInv'
  <2> DEFINE due == find.due \/ q # find.query
             f == [find EXCEPT !.query = q, !.due = due]
  <2>1. find' = f
    BY <1>0, <1>13 DEF Palette!Type, Palette!Typed, Palette!OnlyFind, FindOf
  <2>2. due \in BOOLEAN
    BY <1>0 DEF FindOf
  <2> HIDE DEF due
  <2>3. f \in FindOf /\ f.results = find.results /\ f.active = find.active
    BY <1>0, <2>2 DEF FindOf
  <2> HIDE DEF f
  <2> QED BY <1>2, <2>1, <2>3
<1>14. CASE \/ Palette!ClickSearch \/ Palette!ShortcutExport \/ Palette!ShortcutHelp
            \/ Palette!CloseHelp \/ Palette!ToggleDark \/ Palette!OpenDrawer
            \/ Palette!CloseDrawer \/ Palette!SystemTheme
            \/ \E path \in Path : Palette!Navigate(path)
  BY <1>1, <1>14 DEF Palette!ClickSearch, Palette!ShortcutExport, Palette!ShortcutHelp,
       Palette!CloseHelp, Palette!ToggleDark, Palette!OpenDrawer, Palette!CloseDrawer,
       Palette!SystemTheme, Palette!Navigate, Palette!OnlyFrame, Palette!paletteVars
<1>15. CASE UNCHANGED Palette!paletteVars
  BY <1>1, <1>15 DEF Palette!paletteVars
<1> QED BY <1>4, <1>5, <1>6, <1>7, <1>8, <1>9, <1>10, <1>11, <1>12, <1>13, <1>14, <1>15
        DEF Palette!PaletteNext, Palette!Enter, Palette!Click

\* The elements that are kept are those there were and that pass.
LEMMA KeptRange ==
  ASSUME NEW A, NEW s \in Seq(A), NEW S
  PROVE  Kept(s, S) \in Seq(A) /\ Range(Kept(s, S)) = Range(s) \cap S
<1> DEFINE k == Kept(s, S)
<1>1. /\ k \in Seq(A) /\ \A i \in DOMAIN k : k[i] \in S /\ \E j \in DOMAIN s : s[j] = k[i]
      /\ \A j \in DOMAIN s : s[j] \in S => \E i \in DOMAIN k : k[i] = s[j]
  BY KeptFacts
<1> HIDE DEF k
<1>2. Range(k) = Range(s) \cap S
  BY <1>1 DEF Range
<1> QED BY <1>1, <1>2 DEF k

LEMMA UpToFinite == ASSUME NEW n \in Nat PROVE IsFiniteSet(1..n) /\ Cardinality(1..n) = n
BY FS_Interval

\* The groups draw every result, so there are as many places in them.
LEMMA GroupsDrawAll ==
  ASSUME NEW results \in Seq(DOMAIN PaletteItem), Report!IsInjective(results)
  PROVE  /\ Palette!Grouped(results) \in Seq(DOMAIN PaletteItem)
         /\ Range(Palette!Grouped(results)) = Range(results)
         /\ Len(results) <= Len(Palette!Grouped(results))
<1> DEFINE types == <<"page", "metric", "location", "category">>
           lists == [t \in 1..4 |-> Kept(results, {i \in Range(results) : PaletteItem[i].type = types[t]})]
           all == Joined(lists)
           Items1 == DOMAIN PaletteItem
<1>1. Palette!Grouped(results) = all
  <2>1. Palette!Range(results) = Range(results) /\ DOMAIN types = 1..4
    BY DEF Range, Palette!Range
  <2> QED BY <2>1, OneOrder DEF Palette!Grouped, Palette!Types
<1>2. \A i \in Range(results) : \E t \in 1..4 : PaletteItem[i].type = types[t]
  <2>0. \A k \in DOMAIN results : results[k] \in DOMAIN PaletteItem
    OBVIOUS
  <2>1. \A i \in Range(results) : i \in DOMAIN PaletteItem
    BY <2>0 DEF Range
  <2>2. \A i \in DOMAIN PaletteItem : PaletteItem[i].type \in {"page", "metric", "location", "category"}
    BY SearchConstants
  <2>3. types[1] = "page" /\ types[2] = "metric" /\ types[3] = "location" /\ types[4] = "category"
    OBVIOUS
  <2> HIDE DEF types
  <2> QED BY <2>1, <2>2, <2>3
<1> HIDE DEF types
<1>3. Len(lists) = 4
  OBVIOUS
<1>4. \A t \in 1..4 : /\ lists[t] \in Seq(Items1)
                      /\ Range(lists[t]) = {i \in Range(results) : PaletteItem[i].type = types[t]}
  <2> TAKE t \in 1..4
  <2> DEFINE S == {i \in Range(results) : PaletteItem[i].type = types[t]}
  <2>1. lists[t] = Kept(results, S) /\ Range(results) \cap S = S
    OBVIOUS
  <2>2. results \in Seq(Items1)
    OBVIOUS
  <2> HIDE DEF S, Items1, lists
  <2> QED BY <2>1, <2>2, KeptRange DEF S
<1> HIDE DEF lists, Items1
<1>5. all \in Seq(Items1) /\ Range(all) = UNION {Range(lists[t]) : t \in 1..4}
  <2>1. Len(lists) \in Nat /\ \A m \in 1..Len(lists) : lists[m] \in Seq(Items1)
    BY <1>3, <1>4
  <2> QED BY <1>3, <2>1, JoinedElements
<1> HIDE DEF all
<1>6. Range(all) = Range(results)
  BY <1>2, <1>4, <1>5
<1>7. Cardinality(Range(all)) <= Len(all) /\ IsFiniteSet(Range(all))
  <2>1. all \in Surjection(1..Len(all), Range(all)) /\ Len(all) \in Nat
    <3>1. all \in [1..Len(all) -> Range(all)] /\ DOMAIN all = 1..Len(all) /\ Len(all) \in Nat
      BY <1>5 DEF Range
    <3>2. \A t \in Range(all) : \E i \in 1..Len(all) : all[i] = t
      BY <3>1 DEF Range
    <3> QED BY <3>1, <3>2 DEF Surjection
  <2>2. IsFiniteSet(1..Len(all)) /\ Cardinality(1..Len(all)) = Len(all)
    BY <2>1, UpToFinite
  <2> QED BY <2>1, <2>2, FS_Surjection
<1>8. Len(results) <= Cardinality(Range(results))
  <2>1. results \in Injection(1..Len(results), Range(results)) /\ Len(results) \in Nat
    BY DEF Injection, IsInjective, Report!IsInjective, Range
  <2>2. Cardinality(1..Len(results)) = Len(results)
    BY <2>1, UpToFinite
  <2> QED BY <1>6, <1>7, <2>1, <2>2, FS_Injection
<1>9. Len(results) <= Len(all)
  <2>1. Cardinality(Range(all)) \in Nat /\ Len(all) \in Nat /\ Len(results) \in Nat
    BY <1>5, <1>7, FS_CardinalityType
  <2> QED BY <1>6, <1>7, <1>8, <2>1
<1> QED BY <1>1, <1>5, <1>6, <1>9 DEF Items1

LEMMA FindKeeps == FindInv => Palette!SelectionIsAResult
<1> SUFFICES ASSUME FindInv PROVE Palette!SelectionIsAResult
  OBVIOUS
<1> DEFINE all == Palette!Grouped(find.results)
<1>1. /\ find.results \in Seq(DOMAIN PaletteItem) /\ Report!IsInjective(find.results)
      /\ Len(find.results) \in Nat
  BY DEF FindInv, FindOf
<1>2. /\ all \in Seq(DOMAIN PaletteItem) /\ Range(all) = Range(find.results)
      /\ Len(find.results) <= Len(all)
  BY <1>1, GroupsDrawAll
<1>3. Palette!Range(all) = Range(all) /\ Palette!Range(find.results) = Range(find.results)
  BY DEF Palette!Range, Range
<1> HIDE DEF all
<1>4. ASSUME find.results # << >> PROVE all[find.active + 1] \in Range(all)
  <2>1. find.active + 1 \in 1..Len(all)
    BY <1>1, <1>2, <1>4 DEF FindInv
  <2> QED BY <1>2, <2>1 DEF Range
<1> QED BY <1>2, <1>3, <1>4 DEF FindInv, Palette!SelectionIsAResult, Palette!Highlighted, all

-----------------------------------------------------------------------------
(* What is chosen in the component library *)

\* The places of a list are in order, each once.
LEMMA CountingUp ==
  ASSUME NEW n \in Nat
  PROVE  /\ [i \in 1..n |-> i] \in Seq(1..n) /\ Len([i \in 1..n |-> i]) = n
         /\ \A k \in 1..n : [i \in 1..n |-> i][k] = k
OBVIOUS

SelectOf == [multiple : BOOLEAN, open : BOOLEAN, search : DOMAIN FoundBy, active : Int,
             value : Once(1..Len(Option))]
\* What is chosen is enabled, each once, and one at most unless several may be.
SelectInv ==
  /\ select \in SelectOf /\ \A i \in DOMAIN select.value : ~Option[select.value[i]].disabled
  /\ ~select.multiple => Len(select.value) <= 1

LEMMA KitConstants ==
  /\ Len(Option) \in Nat /\ Len(TabOff) \in Nat /\ DOMAIN TabOff = 1..Len(TabOff)
  /\ Len(Command) \in Nat /\ IsFiniteSet(Section) /\ Unfiltered \in Nat
  /\ Recent \in Seq(1..Len(Command)) /\ TypedText \subseteq Seq(STRING)
  /\ \A c \in 1..Len(Command) : Command[c] \in Seq(STRING)
<1> DEFINE option == [group : STRING, disabled : BOOLEAN]
<1>1. Option \in Seq(option) /\ TabOff \in Seq(BOOLEAN) /\ Command \in Seq(Seq(STRING))
  BY BrowserConstants DEF BrowserConstants
<1>2. IsFiniteSet(Section) /\ Unfiltered \in Nat /\ Recent \in Seq(1..Len(Command))
  BY BrowserConstants DEF BrowserConstants
<1>3. TypedText \subseteq Seq(STRING)
  BY BrowserConstants DEF BrowserConstants
<1> HIDE DEF option
<1>4. Len(Option) \in Nat
  BY <1>1
<1>5. Len(TabOff) \in Nat /\ DOMAIN TabOff = 1..Len(TabOff)
  BY <1>1
<1>6. Len(Command) \in Nat /\ \A c \in 1..Len(Command) : Command[c] \in Seq(STRING)
  BY <1>1
<1> QED BY <1>2, <1>3, <1>4, <1>5, <1>6

\* What the search finds are options.
LEMMA FilteredAreOptions ==
  \A s : /\ Components!Filtered(s) \in Seq(1..Len(Option))
         /\ \A i \in DOMAIN Components!Filtered(s) : Components!Filtered(s)[i] \in 1..Len(Option)
<1> TAKE s
<1> DEFINE all == [i \in 1..Len(Option) |-> i]
           list == Kept(all, FoundBy[s.search])
<1>1. all \in Seq(1..Len(Option))
  BY KitConstants, CountingUp
<1>2. Components!Filtered(s) = list
  BY OneFilter DEF Components!Filtered
<1> HIDE DEF all
<1>3. list \in Seq(1..Len(Option))
  BY <1>1, KeptRange
<1> HIDE DEF list
<1> QED BY <1>2, <1>3

LEMMA InitSelect == Components!KitInit => SelectInv
<1> SUFFICES ASSUME Components!KitInit PROVE SelectInv
  OBVIOUS
<1>1. PICK m \in BOOLEAN : select = [multiple |-> m, open |-> FALSE, search |-> Blank,
                                     active |-> -1, value |-> << >>]
  BY DEF Components!KitInit, Blank
<1>2. << >> \in Once(1..Len(Option))
  BY DEF Once, Report!IsInjective
<1>3. select \in SelectOf /\ select.value = << >>
  BY <1>1, <1>2, BlankIsTyped DEF SelectOf
<1> QED BY <1>3 DEF SelectInv

LEMMA OptionToggleKeeps ==
  ASSUME SelectInv, NEW o \in 1..Len(Option), ~Option[o].disabled,
         select' = Components!Toggle(select, o)
  PROVE  SelectInv'
<1> DEFINE Places1 == 1..Len(Option)
<1>1. select \in SelectOf /\ select.multiple \in BOOLEAN /\ select.value \in Once(Places1)
  BY DEF SelectInv, SelectOf
<1>2. ASSUME NEW v \in Once(Places1), NEW s, s \in SelectOf, select' = s, s.value = v,
             s.multiple = select.multiple, \A i \in DOMAIN v : ~Option[v[i]].disabled,
             ~select.multiple => Len(v) <= 1
      PROVE  SelectInv'
  BY <1>2 DEF SelectInv
<1>3. CASE ~select.multiple
  <2> DEFINE s == [select EXCEPT !.value = <<o>>]
             t == [s EXCEPT !.open = FALSE]
  <2>1. <<o>> \in Once(Places1) /\ Len(<<o>>) = 1 /\ DOMAIN <<o>> = {1} /\ <<o>>[1] = o
    BY DEF Once, Report!IsInjective
  <2>2. s \in SelectOf /\ s.value = <<o>> /\ s.multiple = select.multiple
    BY <1>1, <2>1 DEF SelectOf
  <2>3. select' = t
    BY <1>3 DEF Components!Toggle
  <2> HIDE DEF s
  <2>4. t \in SelectOf /\ t.value = <<o>> /\ t.multiple = select.multiple
    BY <2>2 DEF SelectOf
  <2> HIDE DEF t, Places1
  <2> QED BY <1>2, <2>1, <2>3, <2>4
<1>4. CASE select.multiple
  <2> DEFINE v == IF o \in Report!Range(select.value)
                  THEN Kept(select.value, Report!Range(select.value) \ {o})
                  ELSE Append(select.value, o)
             s == [select EXCEPT !.value = v]
  <2>1. select' = s
    <3>1. Components!Range(select.value) = Report!Range(select.value)
      BY DEF Components!Range, Report!Range
    <3> QED BY <1>4, <3>1, OneFilter DEF Components!Toggle, Components!Without
  <2>2. v \in Once(Places1) /\ \A i \in DOMAIN v : ~Option[v[i]].disabled
    <3> HIDE DEF Places1
    <3>0. select.value \in Seq(Places1) /\ \A i \in DOMAIN select.value : ~Option[select.value[i]].disabled
      BY <1>1 DEF SelectInv, Once
    <3>1. CASE o \in Report!Range(select.value)
      <4> DEFINE k == Kept(select.value, Report!Range(select.value) \ {o})
      <4>1. k \in Once(Places1)
        BY <1>1, KeptOnce
      <4>2. \A i \in DOMAIN k : \E j \in DOMAIN select.value : select.value[j] = k[i]
        BY <3>0, KeptFacts
      <4> HIDE DEF k
      <4> QED BY <3>0, <3>1, <4>1, <4>2 DEF k
    <3>2. CASE o \notin Report!Range(select.value)
      <4> DEFINE k == Append(select.value, o)
      <4>1. k \in Once(Places1)
        BY <1>1, <3>2, AppendOnce DEF Places1
      <4>2. \A i \in DOMAIN k : k[i] = o \/ \E j \in DOMAIN select.value : select.value[j] = k[i]
        BY <3>0
      <4> HIDE DEF k
      <4> QED BY <3>0, <3>2, <4>1, <4>2 DEF k
    <3> QED BY <3>1, <3>2
  <2> HIDE DEF v
  <2>3. s \in SelectOf /\ s.value = v /\ s.multiple = select.multiple
    BY <1>1, <2>2 DEF SelectOf
  <2> HIDE DEF s, Places1
  <2> QED BY <1>2, <1>4, <2>1, <2>2, <2>3
<1> QED BY <1>1, <1>3, <1>4

LEMMA StepSelect == SelectInv /\ [Components!SelectNext]_select => SelectInv'
<1> SUFFICES ASSUME SelectInv, [Components!SelectNext]_select PROVE SelectInv'
  OBVIOUS
<1>0. select \in SelectOf
  BY DEF SelectInv
<1>1. ASSUME NEW s \in SelectOf, select' = s, s.value = select.value, s.multiple = select.multiple
      PROVE  SelectInv'
  BY <1>1 DEF SelectInv
<1>2. ASSUME NEW b \in BOOLEAN, select' = [select EXCEPT !.open = b] PROVE SelectInv'
  <2> DEFINE s == [select EXCEPT !.open = b]
  <2>1. s \in SelectOf /\ s.value = select.value /\ s.multiple = select.multiple
    BY <1>0 DEF SelectOf
  <2> HIDE DEF s
  <2> QED BY <1>1, <1>2, <2>1 DEF s
<1>10. ASSUME NEW a \in Int, NEW b \in BOOLEAN,
              \/ select' = [select EXCEPT !.active = a]
              \/ select' = [select EXCEPT !.open = b, !.active = a]
       PROVE  SelectInv'
  <2> DEFINE s == [select EXCEPT !.active = a]
             t == [select EXCEPT !.open = b]
             u == [t EXCEPT !.active = a]
  <2>1. s \in SelectOf /\ s.value = select.value /\ s.multiple = select.multiple
    BY <1>0 DEF SelectOf
  <2>2. t \in SelectOf /\ t.value = select.value /\ t.multiple = select.multiple
    BY <1>0 DEF SelectOf
  <2>3. select' = s \/ select' = u
    BY <1>10
  <2> HIDE DEF t
  <2>4. u \in SelectOf /\ u.value = select.value /\ u.multiple = select.multiple
    BY <2>2 DEF SelectOf
  <2> HIDE DEF s, u
  <2> QED BY <1>1, <2>1, <2>3, <2>4
<1>11. ASSUME NEW q \in DOMAIN FoundBy, select' = [select EXCEPT !.search = q] PROVE SelectInv'
  <2> DEFINE s == [select EXCEPT !.search = q]
  <2>1. s \in SelectOf /\ s.value = select.value /\ s.multiple = select.multiple
    BY <1>0 DEF SelectOf
  <2> HIDE DEF s
  <2> QED BY <1>1, <1>11, <2>1 DEF s
<1>3. select.open \in BOOLEAN /\ select.active \in Int
  BY <1>0 DEF SelectOf
<1>4. CASE Components!SelectTrigger \/ Components!SelectOutside
  <2>1. select' = [select EXCEPT !.open = FALSE] \/ select' = [select EXCEPT !.open = TRUE]
    <3>1. CASE select.open
      BY <1>4, <3>1 DEF Components!SelectTrigger, Components!SelectOutside, Components!OnlySelect
    <3>2. CASE ~select.open
      <4>1. select.open = FALSE /\ (~select.open) = TRUE
        BY <1>3, <3>2
      <4> QED BY <1>4, <4>1 DEF Components!SelectTrigger, Components!SelectOutside,
                Components!OnlySelect
    <3> QED BY <3>1, <3>2
  <2> QED BY <1>2, <2>1
<1>5. CASE Components!SelectTriggerKey \/ Components!SelectEscape
  <2>1. \/ select' = [select EXCEPT !.open = TRUE, !.active = 0]
        \/ select' = [select EXCEPT !.open = FALSE, !.active = -1]
    BY <1>5 DEF Components!SelectTriggerKey, Components!SelectEscape, Components!OnlySelect
  <2>2. CASE select' = [select EXCEPT !.open = TRUE, !.active = 0]
    <3>1. 0 \in Int /\ TRUE \in BOOLEAN
      OBVIOUS
    <3> QED BY ONLY <1>10, <2>2, <3>1
  <2>3. CASE select' = [select EXCEPT !.open = FALSE, !.active = -1]
    <3>1. -1 \in Int /\ FALSE \in BOOLEAN
      OBVIOUS
    <3> QED BY ONLY <1>10, <2>3, <3>1
  <2> QED BY <2>1, <2>2, <2>3
<1>6. CASE Components!SelectSearch
  BY <1>11, <1>6 DEF Components!SelectSearch, Components!OnlySelect
<1>7. CASE Components!SelectDown \/ Components!SelectUp
  <2>1. Len(Components!Filtered(select)) \in Nat
    BY FilteredAreOptions
  <2>2. /\ Components!Smaller(select.active + 1, Len(Components!Filtered(select)) - 1) \in Int
        /\ Components!Larger(select.active - 1, 0) \in Int
    BY <1>3, <2>1 DEF Components!Smaller, Components!Larger
  <2> QED BY <1>10, <1>7, <2>2 DEF Components!SelectDown, Components!SelectUp,
            Components!OnlySelect
<1>8. CASE Components!SelectEnter \/ Components!SelectOption
  <2> DEFINE list == Components!Filtered(select)
  <2>1. list \in Seq(1..Len(Option)) /\ \A i \in DOMAIN list : list[i] \in 1..Len(Option)
    BY FilteredAreOptions
  <2>2. \E i \in DOMAIN list : ~Option[list[i]].disabled /\ select' = Components!Toggle(select, list[i])
    <3>1. CASE Components!SelectEnter
      <4>1. select.active + 1 \in DOMAIN list
        BY <1>3, <2>1, <3>1 DEF Components!SelectEnter, Components!Places
      <4> QED BY <3>1, <4>1 DEF Components!SelectEnter, Components!OnlySelect
    <3>2. CASE Components!SelectOption
      BY <3>2 DEF Components!SelectOption, Components!OnlySelect, Components!Range
    <3> QED BY <1>8, <3>1, <3>2
  <2> HIDE DEF list
  <2> QED BY <2>1, <2>2, OptionToggleKeeps
<1>9. CASE UNCHANGED select
  BY <1>9 DEF SelectInv
<1> QED BY <1>4, <1>5, <1>6, <1>7, <1>8, <1>9 DEF Components!SelectNext

\* Arrows and ends go to an enabled tab, wherever the arrows count from.
LEMMA TabsAreChosen ==
  Components!TabsNext => \E t \in 1..Len(TabOff) : ~TabOff[t] /\ Components!OnlyTabs(t)
<1> SUFFICES ASSUME Components!TabsNext
             PROVE  \E t \in 1..Len(TabOff) : ~TabOff[t] /\ Components!OnlyTabs(t)
  OBVIOUS
<1> DEFINE list == Components!Enabled
           n == Len(list)
           place == Components!EnabledPlace
<1>1. list \in Seq(1..Len(TabOff)) /\ \A i \in DOMAIN list : ~TabOff[list[i]]
  <2> DEFINE tabs1 == [i \in 1..Len(TabOff) |-> i]
             S == {i \in 1..Len(TabOff) : ~TabOff[i]}
  <2>1. tabs1 \in Seq(1..Len(TabOff))
    BY KitConstants, CountingUp
  <2>2. list = Kept(tabs1, S) /\ \A i \in S : ~TabOff[i]
    BY OneFilter DEF Components!Enabled
  <2> HIDE DEF tabs1, S, list
  <2> QED BY <2>1, <2>2, KeptFacts
<1>2. place \in -1..n - 1
  <2>1. CASE tabs.active \in Components!Range(list)
    <3>1. \E i \in Components!Places(list) : list[i + 1] = tabs.active
      <4>1. PICK k \in DOMAIN list : list[k] = tabs.active
        BY <2>1 DEF Components!Range
      <4>2. k - 1 \in Components!Places(list) /\ (k - 1) + 1 = k
        BY <1>1, <4>1 DEF Components!Places
      <4> QED BY <4>1, <4>2
    <3>2. place \in Components!Places(list)
      BY <2>1, <3>1 DEF Components!EnabledPlace
    <3> QED BY <1>1, <3>2 DEF Components!Places
  <2>2. CASE tabs.active \notin Components!Range(list)
    BY <1>1, <2>2 DEF Components!EnabledPlace
  <2> QED BY <2>1, <2>2
<1>3. ASSUME NEW i \in DOMAIN list, Components!OnlyTabs(list[i])
      PROVE  \E t \in 1..Len(TabOff) : ~TabOff[t] /\ Components!OnlyTabs(t)
  <2>1. list[i] \in 1..Len(TabOff) /\ ~TabOff[list[i]]
    BY <1>1, SeqElements
  <2> QED BY <1>3, <2>1
<1>4. n \in Nat \ {0} /\ DOMAIN list = 1..n
  <2>1. list # << >> /\ Len(list) \in Nat /\ DOMAIN list = 1..Len(list)
    BY <1>1 DEF Components!TabsNext
  <2> QED BY <1>1, <2>1
<1> HIDE DEF n, place, list
<1>5. ASSUME NEW a \in Int, a \in {place + 1, place - 1 + n}
      PROVE  Components!Rem(a, n) + 1 \in 1..n
  <2>1. CASE a >= 0
    <3>1. a % n \in 0..n - 1
      BY <1>4, <2>1
    <3> QED BY <1>4, <2>1, <3>1 DEF Components!Rem
  <2>2. CASE ~(a >= 0)
    <3>1. a = -1 /\ n = 1
      BY <1>2, <1>4, <1>5, <2>2
    <3>2. (-a) % n = 0
      BY <3>1
    <3> QED BY <2>2, <3>1, <3>2 DEF Components!Rem
  <2> QED BY <1>5, <2>1, <2>2
<1>6. CASE Components!TabRight
  <2>1. Components!Rem(place + 1, n) + 1 \in DOMAIN list
    BY <1>2, <1>4, <1>5
  <2> QED BY <1>3, <1>6, <2>1 DEF Components!TabRight, n, place, list
<1>7. CASE Components!TabLeft
  <2>1. Components!Rem(place - 1 + n, n) + 1 \in DOMAIN list
    BY <1>2, <1>4, <1>5
  <2> QED BY <1>3, <1>7, <2>1 DEF Components!TabLeft, n, place, list
<1>8. CASE Components!TabHome \/ Components!TabEnd
  <2>1. 1 \in DOMAIN list /\ n \in DOMAIN list
    BY <1>4
  <2> QED BY <1>3, <1>8, <2>1 DEF Components!TabHome, Components!TabEnd, n, list
<1>9. CASE Components!TabClick
  BY <1>9 DEF Components!TabClick, Components!OnlyTabs
<1> QED BY <1>6, <1>7, <1>8, <1>9 DEF Components!TabsNext

\* What is chosen is enabled.
TabsInv == tabs.chosen => ~TabOff[tabs.active]

\* A tab is chosen among the enabled ones.
LEMMA StepTabs == TabsInv /\ [Components!TabsNext]_tabs => TabsInv'
<1> SUFFICES ASSUME TabsInv, [Components!TabsNext]_tabs PROVE TabsInv'
  OBVIOUS
<1>1. CASE Components!TabsNext
  <2>1. PICK t \in 1..Len(TabOff) : ~TabOff[t] /\ Components!OnlyTabs(t)
    BY <1>1, TabsAreChosen
  <2> QED BY <2>1 DEF Components!OnlyTabs, TabsInv
<1>2. CASE UNCHANGED tabs
  BY <1>2 DEF TabsInv
<1> QED BY <1>1, <1>2

SectionsOf == [multiple : BOOLEAN, first : SUBSET Section, open : SUBSET Section]
\* Unless several may be open, more than one are only as long as they were from the start.
SectionsInv ==
  /\ sections \in SectionsOf
  /\ ~sections.multiple => \/ Cardinality(sections.open) <= 1
                           \/ Cardinality(sections.open) <= Cardinality(sections.first)

LEMMA InitTabsAndSections == Components!KitInit => TabsInv /\ SectionsInv
<1> SUFFICES ASSUME Components!KitInit PROVE TabsInv /\ SectionsInv
  OBVIOUS
<1>1. TabsInv
  <2>1. PICK t \in FirstTab : tabs = [active |-> t, chosen |-> FALSE]
    BY DEF Components!KitInit
  <2> QED BY <2>1 DEF TabsInv
<1>2. PICK m \in BOOLEAN, first \in SUBSET Section :
        sections = [multiple |-> m, first |-> first, open |-> first]
  BY DEF Components!KitInit
<1>3. IsFiniteSet(first) /\ Cardinality(first) \in Nat
  BY KitConstants, FS_Subset, FS_CardinalityType
<1>4. SectionsInv
  BY <1>2, <1>3 DEF SectionsInv, SectionsOf
<1> QED BY <1>1, <1>4

LEMMA StepSections == SectionsInv /\ [Components!SectionToggle]_sections => SectionsInv'
<1> SUFFICES ASSUME SectionsInv, [Components!SectionToggle]_sections PROVE SectionsInv'
  OBVIOUS
<1>1. CASE Components!SectionToggle
  <2>1. PICK id \in Section : sections' = [sections EXCEPT !.open =
          IF id \in @ THEN @ \ {id} ELSE (IF sections.multiple THEN @ ELSE {}) \cup {id}]
    BY <1>1 DEF Components!SectionToggle
  <2>2. /\ sections \in SectionsOf /\ sections.open \in SUBSET Section
        /\ sections.first \in SUBSET Section
    BY DEF SectionsInv, SectionsOf
  <2> DEFINE old == sections.open
             new == IF id \in old THEN old \ {id}
                    ELSE (IF sections.multiple THEN old ELSE {}) \cup {id}
  <2>3. sections' = [sections EXCEPT !.open = new] /\ new \in SUBSET Section
    BY <2>1, <2>2
  <2>4. ~sections.multiple => Cardinality(new) <= 1 \/ Cardinality(new) <= Cardinality(old)
    <3>1. CASE id \in old
      <4>1. IsFiniteSet(old)
        BY <2>2, KitConstants, FS_Subset
      <4>2. new \subseteq old
        BY <3>1
      <4> HIDE DEF old, new
      <4> QED BY <4>1, <4>2, FS_Subset
    <3>2. CASE id \notin old /\ ~sections.multiple
      <4>1. new = {id}
        BY <3>2
      <4>2. Cardinality({id}) = 1
        BY FS_Singleton
      <4> HIDE DEF old, new
      <4> QED BY <4>1, <4>2
    <3> QED BY <3>1, <3>2
  <2>5. Cardinality(old) \in Nat /\ Cardinality(new) \in Nat /\ Cardinality(sections.first) \in Nat
    <3> HIDE DEF new
    <3> QED BY <2>2, <2>3, KitConstants, FS_Subset, FS_CardinalityType
  <2> HIDE DEF new
  <2>6. sections' \in SectionsOf /\ sections'.open = new /\ sections'.multiple = sections.multiple
        /\ sections'.first = sections.first
    BY <2>2, <2>3 DEF SectionsOf
  <2>7. ~sections.multiple => Cardinality(old) <= 1 \/ Cardinality(old) <= Cardinality(sections.first)
    BY DEF SectionsInv
  <2>8. ~sections.multiple => Cardinality(new) <= 1 \/ Cardinality(new) <= Cardinality(sections.first)
    <3> DEFINE a == Cardinality(old)  b == Cardinality(new)  c == Cardinality(sections.first)
    <3>1. a \in Nat /\ b \in Nat /\ c \in Nat
      BY <2>5
    <3>2. ~sections.multiple => (b <= 1 \/ b <= a) /\ (a <= 1 \/ a <= c)
      BY <2>4, <2>7
    <3> HIDE DEF a, b, c
    <3>3. ~sections.multiple => b <= 1 \/ b <= c
      BY <3>1, <3>2
    <3> QED BY <3>3 DEF b, c
  <2> QED BY <2>6, <2>8 DEF SectionsInv
<1>2. CASE UNCHANGED sections
  BY <1>2 DEF SectionsInv
<1> QED BY <1>1, <1>2

LEMMA ChoicesKeep == SelectInv /\ TabsInv /\ SectionsInv => Components!ChoicesAreAllowed
<1> SUFFICES ASSUME SelectInv, TabsInv, SectionsInv PROVE Components!ChoicesAreAllowed
  OBVIOUS
<1>1. Components!IsInjective(select.value) /\ \A i \in DOMAIN select.value : ~Option[select.value[i]].disabled
  BY DEF SelectInv, SelectOf, Once, Report!IsInjective, Components!IsInjective
<1>2. ~select.multiple => Len(select.value) <= 1
  BY DEF SelectInv
<1>3. /\ Components!Cardinality(sections.open) = Cardinality(sections.open)
      /\ Components!Cardinality(sections.first) = Cardinality(sections.first)
      /\ Components!Cardinality(Section) = Cardinality(Section)
  BY DEF Components!Cardinality, Cardinality
<1> DEFINE a == Cardinality(sections.open)  b == Cardinality(sections.first)
           c == Cardinality(Section)
<1>4. a \in Nat /\ b \in Nat /\ c \in Nat /\ a <= c
  <2>1. sections.open \in SUBSET Section /\ sections.first \in SUBSET Section
    BY DEF SectionsInv, SectionsOf
  <2> QED BY <2>1, KitConstants, FS_Subset, FS_CardinalityType
<1>5. sections.multiple \in BOOLEAN /\ (~sections.multiple => a <= 1 \/ a <= b)
  BY DEF SectionsInv, SectionsOf
<1> HIDE DEF a, b, c
<1>6. a <= (IF sections.multiple THEN c ELSE Components!Larger(1, b))
  BY <1>4, <1>5 DEF Components!Larger
<1> QED BY <1>1, <1>2, <1>3, <1>6 DEF TabsInv, Components!ChoicesAreAllowed, a, b, c
\* The letters found up to one more letter of a text.
NextFound(n, q, letter) == IF n < Len(q) /\ q[n + 1] = letter THEN n + 1 ELSE n
Finds(f, q, text, n) ==
  f = [k \in 0..n |-> IF k = 0 THEN 0 ELSE NextFound(f[k - 1], q, text[k])]

LEMMA FindsExist ==
  ASSUME NEW q, NEW text, NEW n \in Nat
  PROVE  \E f : Finds(f, q, text, n)
<1> DEFINE Without == {k \in Nat : ~ \E f : Finds(f, q, text, k)}
<1> SUFFICES ASSUME Without # {} PROVE FALSE
  OBVIOUS
<1>1. PICK k \in Without : \A m \in Without : k <= m
  <2> HIDE DEF Without
  <2>1. Without \subseteq Nat
    BY DEF Without
  <2> QED BY <2>1, LeastNatural
<1>2. CASE k = 0
  <2> DEFINE f == [m \in 0..0 |-> 0]
  <2>1. Finds(f, q, text, 0)
    BY DEF Finds
  <2> QED BY <1>1, <1>2, <2>1
<1>3. CASE k # 0
  <2>1. k - 1 \in Nat /\ k - 1 \notin Without
    BY <1>1, <1>3
  <2>2. PICK before : Finds(before, q, text, k - 1)
    BY <2>1
  <2> DEFINE f == [m \in 0..k |-> IF m < k THEN before[m]
                                  ELSE NextFound(before[k - 1], q, text[k])]
  <2>3. ASSUME NEW m \in 0..k
        PROVE  f[m] = IF m = 0 THEN 0 ELSE NextFound(f[m - 1], q, text[m])
    <3>1. CASE m = k
      BY <1>1, <1>3, <3>1
    <3>2. CASE m # k
      BY <1>1, <1>3, <2>2, <3>2 DEF Finds
    <3> QED BY <3>1, <3>2
  <2>4. Finds(f, q, text, k)
    <3>1. f = [m \in 0..k |-> f[m]]
      OBVIOUS
    <3> HIDE DEF f
    <3> QED BY <2>3, <3>1 DEF Finds
  <2> QED BY <1>1, <2>4
<1> QED BY <1>2, <1>3

LEMMA FuzzyInSteps ==
  ASSUME NEW q, NEW text, Len(text) \in Nat
  PROVE  \E f : Finds(f, q, text, Len(text)) /\ (Components!Fuzzy(q, text) <=> Len(q) = f[Len(text)])
<1> DEFINE Rest(f) == [k \in 0..Len(text) |->
             IF k = 0 THEN 0
             ELSE IF f[k - 1] < Len(q) /\ q[f[k - 1] + 1] = text[k] THEN f[k - 1] + 1 ELSE f[k - 1]]
           all == CHOOSE f : f = Rest(f)
<1>1. PICK f : Finds(f, q, text, Len(text))
  BY FindsExist
<1>2. f = Rest(f)
  BY <1>1 DEF Finds, NextFound
<1>3. Components!Fuzzy(q, text) <=> Len(q) = all[Len(text)]
  BY DEF Components!Fuzzy
<1>4. Finds(all, q, text, Len(text))
  <2> HIDE DEF Rest
  <2>1. all = Rest(all)
    BY <1>2
  <2> HIDE DEF all
  <2> QED BY <2>1 DEF Rest, Finds, NextFound
<1> HIDE DEF all
<1> QED BY <1>3, <1>4

\* The first n letters of q are in the first k of a text, in their order.
Places(at, q, text, n) ==
  /\ \A i \in 1..n : text[at[i]] = q[i]
  /\ \A i \in 1..n : \A j \in 1..n : i < j => at[i] < at[j]
Embeds(q, text, n, k) == \E at \in [1..n -> 1..k] : Places(at, q, text, n)

\* Places of which each is before the next ascend.
LEMMA NextAscends ==
  ASSUME NEW n \in Nat, NEW at \in [1..n -> Nat], \A i \in 1..n - 1 : at[i] < at[i + 1]
  PROVE  \A i, j \in 1..n : i < j => at[i] < at[j]
<1> SUFFICES ASSUME NEW i \in 1..n, NEW j \in 1..n, i < j PROVE at[i] < at[j]
  OBVIOUS
<1> DEFINE Wrong == {m \in 1..n : i < m /\ ~(at[i] < at[m])}
<1>1. Wrong = {}
  <2> SUFFICES ASSUME Wrong # {} PROVE FALSE
    OBVIOUS
  <2>1. PICK m \in Wrong : \A l \in Wrong : m <= l
    <3>1. Wrong \subseteq Nat
      OBVIOUS
    <3> HIDE DEF Wrong
    <3> QED BY <3>1, LeastNatural
  <2>2. m - 1 \in 1..n - 1 /\ m - 1 \in 1..n /\ m - 1 \notin Wrong
    BY <2>1
  <2>3. at[m - 1] < at[(m - 1) + 1] /\ (m - 1) + 1 = m
    BY <2>1, <2>2
  <2>4. at[i] \in Nat /\ at[m - 1] \in Nat /\ at[m] \in Nat
    BY <2>1, <2>2
  <2>5. i = m - 1 \/ at[i] < at[m - 1]
    BY <2>1, <2>2
  <2>6. at[i] < at[m]
    BY <2>3, <2>4, <2>5
  <2> QED BY <2>1, <2>6
<1> QED BY <1>1

\* Without its last letter, what is found is found before the place of that letter.
LEMMA OneLess ==
  ASSUME NEW q, NEW text, NEW n \in Nat \ {0}, NEW k \in Nat \ {0}, Embeds(q, text, n, k)
  PROVE  Embeds(q, text, n - 1, k - 1) /\ (text[k] # q[n] => Embeds(q, text, n, k - 1))
<1>1. PICK at \in [1..n -> 1..k] : Places(at, q, text, n)
  BY DEF Embeds
<1>2. n \in 1..n /\ at[n] \in 1..k /\ \A i \in 1..(n - 1) : i \in 1..n /\ i < n
  OBVIOUS
<1>3. \A i \in 1..(n - 1) : at[i] \in 1..k /\ at[i] < at[n]
  BY <1>1, <1>2 DEF Places
<1>4. \A i \in 1..(n - 1) : at[i] \in 1..(k - 1)
  BY <1>2, <1>3
<1>5. Embeds(q, text, n - 1, k - 1)
  <2> DEFINE less == [i \in 1..(n - 1) |-> at[i]]
  <2>1. less \in [1..(n - 1) -> 1..(k - 1)]
    BY <1>4
  <2>2. Places(less, q, text, n - 1)
    BY <1>1, <1>2 DEF Places
  <2> QED BY <2>1, <2>2 DEF Embeds
<1>6. ASSUME text[k] # q[n] PROVE Embeds(q, text, n, k - 1)
  <2>1. at[n] # k
    BY <1>1, <1>2, <1>6 DEF Places
  <2>2. at[n] \in 1..(k - 1)
    BY <1>2, <2>1
  <2>3. \A i \in 1..n : i = n \/ i \in 1..(n - 1)
    OBVIOUS
  <2>4. at \in [1..n -> 1..(k - 1)]
    BY <1>4, <2>2, <2>3
  <2> QED BY <1>1, <2>4 DEF Embeds
<1> QED BY <1>5, <1>6

\* Taking each letter at its first place finds as many as can be found.
LEMMA FirstPlacesAreBest ==
  ASSUME NEW q, Len(q) \in Nat, NEW text, NEW l \in Nat, NEW f, Finds(f, q, text, l)
  PROVE  /\ f[l] \in 0..Len(q) /\ Embeds(q, text, f[l], l)
         /\ \A n \in 0..Len(q) : Embeds(q, text, n, l) => n <= f[l]
<1> DEFINE Best(k, m) == /\ m \in 0..Len(q) /\ Embeds(q, text, m, k)
                         /\ \A n \in 0..Len(q) : Embeds(q, text, n, k) => n <= m
           Wrong == {k \in 0..l : ~Best(k, f[k])}
<1>1. Best(0, 0)
  <2>1. Embeds(q, text, 0, 0)
    <3> DEFINE none == [i \in 1..0 |-> i]
    <3>1. none \in [1..0 -> 1..0] /\ Places(none, q, text, 0)
      BY DEF Places
    <3> QED BY <3>1 DEF Embeds
  <2>2. ASSUME NEW n \in 0..Len(q), Embeds(q, text, n, 0) PROVE n <= 0
    <3>1. PICK at \in [1..n -> 1..0] : TRUE
      BY <2>2 DEF Embeds
    <3>2. 1 \notin 1..n
      BY <3>1
    <3> QED BY <3>2
  <2> QED BY <2>1, <2>2
<1>2. ASSUME NEW k \in 1..l, NEW m, Best(k - 1, m) PROVE Best(k, NextFound(m, q, text[k]))
  <2>0. m \in 0..Len(q) /\ k \in Nat \ {0} /\ k - 1 \in Nat
    BY <1>2
  <2>1. ASSUME NEW n \in 0..Len(q), Embeds(q, text, n, k) PROVE n <= m + 1
    <3>1. CASE n = 0
      BY <2>0, <3>1
    <3>2. CASE n # 0
      <4>1. n \in Nat \ {0} /\ n - 1 \in 0..Len(q)
        BY <3>2
      <4>2. Embeds(q, text, n - 1, k - 1)
        BY <2>0, <2>1, <4>1, OneLess
      <4>3. n - 1 <= m
        BY <1>2, <4>1, <4>2
      <4> QED BY <2>0, <4>3
    <3> QED BY <3>1, <3>2
  <2>2. PICK at \in [1..m -> 1..(k - 1)] : Places(at, q, text, m)
    BY <1>2 DEF Embeds
  <2>3. CASE m < Len(q) /\ q[m + 1] = text[k]
    <3> DEFINE more == [i \in 1..m + 1 |-> IF i = m + 1 THEN k ELSE at[i]]
    <3>1. \A i \in 1..m + 1 : i = m + 1 \/ i \in 1..m
      BY <2>0
    <3>2. \A i \in 1..m : at[i] \in 1..(k - 1) /\ at[i] < k /\ at[i] \in 1..k /\ i # m + 1
      BY <2>0, <2>2
    <3>3. \A i \in 1..m + 1 : more[i] = IF i = m + 1 THEN k ELSE at[i]
      OBVIOUS
    <3>4. more \in [1..m + 1 -> 1..k]
      BY <2>0, <3>1, <3>2
    <3> HIDE DEF more
    <3>5. \A i \in 1..m + 1 : text[more[i]] = q[i]
      BY <2>2, <2>3, <3>1, <3>2, <3>3 DEF Places
    <3>6. ASSUME NEW i \in 1..m + 1, NEW j \in 1..m + 1, i < j PROVE more[i] < more[j]
      <4>1. i \in 1..m /\ more[i] = at[i]
        BY <2>0, <3>1, <3>2, <3>3, <3>6
      <4>2. CASE j = m + 1
        BY <3>2, <3>3, <4>1, <4>2
      <4>3. CASE j \in 1..m
        BY <2>2, <3>2, <3>3, <3>6, <4>1, <4>3 DEF Places
      <4> QED BY <3>1, <4>2, <4>3
    <3>7. Embeds(q, text, m + 1, k)
      BY <3>4, <3>5, <3>6 DEF Embeds, Places
    <3>8. m + 1 \in 0..Len(q)
      BY <2>0, <2>3
    <3>9. Best(k, m + 1)
      BY <2>1, <3>7, <3>8
    <3> QED BY <2>3, <3>9 DEF NextFound
  <2>4. CASE ~(m < Len(q) /\ q[m + 1] = text[k])
    <3>1. Embeds(q, text, m, k)
      <4>1. at \in [1..m -> 1..k]
        BY <2>0, <2>2
      <4> QED BY <2>2, <4>1 DEF Embeds
    <3>2. ASSUME NEW n \in 0..Len(q), Embeds(q, text, n, k), n = m + 1 PROVE FALSE
      <4>1. n \in Nat \ {0} /\ m < Len(q)
        BY <2>0, <3>2
      <4>2. Embeds(q, text, n, k - 1)
        BY <2>0, <2>4, <3>2, <4>1, OneLess
      <4>3. n <= m
        BY <1>2, <4>2
      <4> QED BY <2>0, <3>2, <4>3
    <3>3. \A n \in 0..Len(q) : Embeds(q, text, n, k) => n <= m
      BY <2>0, <2>1, <3>2
    <3>4. Best(k, m)
      BY <2>0, <3>1, <3>3
    <3> QED BY <2>4, <3>4 DEF NextFound
  <2> QED BY <2>3, <2>4
<1> HIDE DEF Best
<1>3. Wrong = {}
  <2> SUFFICES ASSUME Wrong # {} PROVE FALSE
    OBVIOUS
  <2>1. PICK k \in Wrong : \A m \in Wrong : k <= m
    <3>1. Wrong \subseteq Nat
      OBVIOUS
    <3> HIDE DEF Wrong
    <3> QED BY <3>1, LeastNatural
  <2>2. CASE k = 0
    <3>1. f[0] = 0
      BY <2>1, <2>2 DEF Finds
    <3> QED BY <1>1, <2>1, <2>2, <3>1
  <2>3. CASE k # 0
    <3>1. k \in 1..l /\ k - 1 \in 0..l /\ k - 1 \notin Wrong
      BY <2>1, <2>3
    <3>2. f[k] = NextFound(f[k - 1], q, text[k])
      BY <2>1, <2>3 DEF Finds
    <3>3. Best(k - 1, f[k - 1])
      BY <3>1
    <3> QED BY <1>2, <2>1, <3>1, <3>2, <3>3
  <2> QED BY <2>2, <2>3
<1>4. Best(l, f[l])
  <2>1. l \in 0..l
    OBVIOUS
  <2> QED BY <1>3, <2>1
<1> QED BY <1>4 DEF Best

\* A command matches when it has the letters of the query in their order.
LEMMA FuzzyIsOrder ==
  ASSUME NEW q, Len(q) \in Nat, NEW text, Len(text) \in Nat
  PROVE  Components!Fuzzy(q, text) <=> \E at \in [1..Len(q) -> 1..Len(text)] :
           /\ \A i \in 1..Len(q) : text[at[i]] = q[i]
           /\ \A i \in 1..Len(q) - 1 : at[i] < at[i + 1]
<1>1. PICK f : Finds(f, q, text, Len(text)) /\ (Components!Fuzzy(q, text) <=> Len(q) = f[Len(text)])
  BY FuzzyInSteps
<1>2. /\ f[Len(text)] \in 0..Len(q) /\ Embeds(q, text, f[Len(text)], Len(text))
      /\ Embeds(q, text, Len(q), Len(text)) => Len(q) <= f[Len(text)]
  BY <1>1, FirstPlacesAreBest
<1>3. Components!Fuzzy(q, text) <=> Embeds(q, text, Len(q), Len(text))
  BY <1>1, <1>2
<1>4. ASSUME NEW at \in [1..Len(q) -> 1..Len(text)]
      PROVE  (\A i \in 1..Len(q) : \A j \in 1..Len(q) : i < j => at[i] < at[j])
               <=> \A i \in 1..Len(q) - 1 : at[i] < at[i + 1]
  <2>1. ASSUME \A i \in 1..Len(q) : \A j \in 1..Len(q) : i < j => at[i] < at[j]
        PROVE  \A i \in 1..Len(q) - 1 : at[i] < at[i + 1]
    <3> TAKE i \in 1..Len(q) - 1
    <3>1. i \in 1..Len(q) /\ i + 1 \in 1..Len(q) /\ i < i + 1
      OBVIOUS
    <3> QED BY <2>1, <3>1
  <2>2. at \in [1..Len(q) -> Nat]
    OBVIOUS
  <2> QED BY <2>1, <2>2, NextAscends
<1> QED BY <1>3, <1>4 DEF Embeds, Places

CommandOf == [open : BOOLEAN, query : Seq(STRING), cursor : Int, ran : Nat]
\* While something is typed and commands are listed, the cursor is on one of them.
CommandInv ==
  /\ palette \in CommandOf
  /\ palette.query # << >> /\ Components!Listed # << >> =>
       palette.cursor \in 0..Len(Components!Listed) - 1

LEMMA CommandsAreListed ==
  ASSUME NEW q \in Seq(STRING)
  PROVE  /\ Components!Commands(q) \in Seq(1..Len(Command))
         /\ q # << >> => Range(Components!Commands(q)) =
                           {c \in 1..Len(Command) : Components!Fuzzy(q, Command[c])}
<1> DEFINE every == [i \in 1..Len(Command) |-> i]
           fit == {c \in 1..Len(Command) : Components!Fuzzy(q, Command[c])}
           n == Components!Smaller(Unfiltered, Len(Command))
           first == [i \in 1..n |-> i]
<1>1. Len(Command) \in Nat /\ Recent \in Seq(1..Len(Command)) /\ Unfiltered \in Nat
  BY KitConstants
<1>2. every \in Seq(1..Len(Command)) /\ Range(every) = 1..Len(Command)
  <2>1. DOMAIN every = 1..Len(Command) /\ \A k \in 1..Len(Command) : every[k] = k
    OBVIOUS
  <2>2. every \in Seq(1..Len(Command))
    BY <1>1, CountingUp
  <2> HIDE DEF every
  <2> QED BY <2>1, <2>2 DEF Range
<1> HIDE DEF every
<1>3. CASE q # << >>
  <2>1. Components!Commands(q) = Kept(every, fit)
    BY <1>3, OneFilter DEF Components!Commands, every
  <2>2. fit \subseteq 1..Len(Command)
    OBVIOUS
  <2> HIDE DEF fit
  <2>3. Kept(every, fit) \in Seq(1..Len(Command)) /\ Range(Kept(every, fit)) = Range(every) \cap fit
    BY <1>2, KeptRange
  <2> QED BY <1>2, <2>1, <2>2, <2>3 DEF fit
<1>4. CASE q = << >> /\ Recent # << >>
  BY <1>1, <1>4 DEF Components!Commands
<1>5. CASE q = << >> /\ Recent = << >>
  <2>1. n \in Nat /\ n <= Len(Command)
    BY <1>1 DEF Components!Smaller
  <2>2. Components!Commands(q) = first
    BY <1>5 DEF Components!Commands
  <2> HIDE DEF n
  <2>3. first \in Seq(1..n) /\ 1..n \subseteq 1..Len(Command)
    BY <1>1, <2>1, CountingUp
  <2> HIDE DEF first
  <2>4. first \in Seq(1..Len(Command))
    BY <2>3, SeqOfMore
  <2> QED BY <1>5, <2>2, <2>4
<1> QED BY <1>3, <1>4, <1>5

LEMMA InitCommand == Components!KitInit => CommandInv
<1> SUFFICES ASSUME Components!KitInit PROVE CommandInv
  OBVIOUS
<1>1. palette = [open |-> FALSE, query |-> << >>, cursor |-> 0, ran |-> 0]
  BY DEF Components!KitInit
<1>2. palette \in CommandOf /\ palette.query = << >>
  BY <1>1 DEF CommandOf
<1> QED BY <1>2 DEF CommandInv

LEMMA StepCommand == CommandInv /\ [Components!PaletteNext]_palette => CommandInv'
<1> SUFFICES ASSUME CommandInv, [Components!PaletteNext]_palette PROVE CommandInv'
  OBVIOUS
<1>0. << >> \in Seq(STRING)
  OBVIOUS
<1> DEFINE offered == Components!Listed
<1>1. /\ palette \in CommandOf /\ palette.query \in Seq(STRING) /\ palette.cursor \in Int
      /\ palette.query # << >> /\ offered # << >> => palette.cursor \in 0..Len(offered) - 1
  BY DEF CommandInv, CommandOf
<1>2. /\ offered \in Seq(1..Len(Command)) /\ Len(offered) \in Nat /\ DOMAIN offered = 1..Len(offered)
      /\ \A i \in DOMAIN offered : offered[i] \in Nat
  <2>1. offered \in Seq(1..Len(Command))
    BY <1>1, CommandsAreListed DEF Components!Listed
  <2> HIDE DEF offered
  <2>2. \A i \in DOMAIN offered : offered[i] \in 1..Len(Command)
    BY <2>1
  <2> QED BY <2>1, <2>2
\* The query stays, and the cursor stays or goes to a command.
<1>3. ASSUME NEW p \in CommandOf, palette' = p, p.query = palette.query,
             \/ p.cursor = palette.cursor
             \/ palette.query # << >> /\ offered # << >> => p.cursor \in 0..Len(offered) - 1
      PROVE  CommandInv'
  <2>1. Components!Listed' = offered
    BY <1>3 DEF Components!Listed
  <2> HIDE DEF offered
  <2> QED BY <1>1, <1>3, <2>1 DEF CommandInv
\* What is typed changes: nothing, or something with the cursor on the first command.
<1>4. ASSUME NEW p \in CommandOf, palette' = p, p.query = << >> \/ p.cursor = 0
      PROVE  CommandInv'
  <2> DEFINE now == Components!Commands(p.query)
  <2>1. Components!Listed' = now
    BY <1>4 DEF Components!Listed
  <2>2. now \in Seq(1..Len(Command))
    BY CommandsAreListed DEF CommandOf
  <2> HIDE DEF now
  <2>3. now # << >> => 0 \in 0..Len(now) - 1
    BY <2>2
  <2> QED BY <1>4, <2>1, <2>3 DEF CommandInv
<1> HIDE DEF offered
<1>5. ASSUME NEW b \in BOOLEAN, palette' = [palette EXCEPT !.open = b] PROVE CommandInv'
  <2> DEFINE p == [palette EXCEPT !.open = b]
  <2>1. p \in CommandOf /\ p.query = palette.query /\ p.cursor = palette.cursor
    BY <1>1 DEF CommandOf
  <2> HIDE DEF p
  <2> QED BY <1>3, <1>5, <2>1 DEF p
<1>6. ASSUME NEW a \in Int, palette' = [palette EXCEPT !.cursor = a],
             palette.query # << >> /\ offered # << >> => a \in 0..Len(offered) - 1
      PROVE  CommandInv'
  <2> DEFINE p == [palette EXCEPT !.cursor = a]
  <2>1. p \in CommandOf /\ p.query = palette.query /\ p.cursor = a
    BY <1>1 DEF CommandOf
  <2> HIDE DEF p
  <2> QED BY <1>3, <1>6, <2>1 DEF p
<1>7. CASE Components!PaletteKey
  <2>1. CASE palette.open
    <3>1. palette' = [palette EXCEPT !.open = FALSE]
      BY <1>7, <2>1 DEF Components!PaletteKey, Components!OnlyPalette
    <3> QED BY <1>5, <3>1
  <2>2. CASE ~palette.open
    <3> DEFINE s == [palette EXCEPT !.open = TRUE]
               t == [s EXCEPT !.query = << >>]
               u == [t EXCEPT !.cursor = 0]
    <3>1. palette' = u
      BY <1>7, <2>2 DEF Components!PaletteKey, Components!OnlyPalette
    <3>2. s \in CommandOf
      BY <1>1 DEF CommandOf
    <3> HIDE DEF s
    <3>3. t \in CommandOf
      BY <1>0, <3>2 DEF CommandOf
    <3> HIDE DEF t
    <3>4. u \in CommandOf /\ u.cursor = 0
      BY <3>3 DEF CommandOf
    <3> HIDE DEF u
    <3> QED BY <1>4, <3>1, <3>4
  <2> QED BY <2>1, <2>2
<1>8. CASE Components!PaletteClose
  <2>1. palette' = [palette EXCEPT !.open = FALSE]
    BY <1>8 DEF Components!PaletteClose, Components!OnlyPalette
  <2> QED BY <1>5, <2>1
<1>9. CASE Components!PaletteType
  <2>1. PICK q \in TypedText : palette' = [palette EXCEPT !.query = q, !.cursor = 0]
    BY <1>9 DEF Components!PaletteType, Components!OnlyPalette
  <2>2. q \in Seq(STRING)
    BY KitConstants
  <2> DEFINE s == [palette EXCEPT !.query = q]
             t == [s EXCEPT !.cursor = 0]
  <2>3. palette' = t
    BY <2>1
  <2>4. s \in CommandOf
    BY <1>1, <2>2 DEF CommandOf
  <2> HIDE DEF s
  <2>5. t \in CommandOf /\ t.cursor = 0
    BY <2>4 DEF CommandOf
  <2> HIDE DEF t
  <2> QED BY <1>4, <2>3, <2>5
<1>10. CASE Components!PaletteClear
  <2> DEFINE s == [palette EXCEPT !.query = << >>]
  <2>1. palette' = s
    BY <1>10 DEF Components!PaletteClear, Components!OnlyPalette
  <2>2. s \in CommandOf /\ s.query = << >>
    BY <1>0, <1>1 DEF CommandOf
  <2> HIDE DEF s
  <2> QED BY <1>4, <2>1, <2>2
<1>11. CASE Components!PaletteDown
  <2> DEFINE a == Components!Smaller(palette.cursor + 1, Len(offered) - 1)
  <2>1. palette' = [palette EXCEPT !.cursor = a]
    BY <1>11 DEF Components!PaletteDown, Components!OnlyPalette, offered
  <2>2. a \in Int /\ (palette.cursor \in 0..Len(offered) - 1 => a \in 0..Len(offered) - 1)
    BY <1>1, <1>2 DEF Components!Smaller
  <2> HIDE DEF a
  <2> QED BY <1>1, <1>6, <2>1, <2>2
<1>12. CASE Components!PaletteUp
  <2> DEFINE a == Components!Larger(palette.cursor - 1, 0)
  <2>1. palette' = [palette EXCEPT !.cursor = a]
    BY <1>12 DEF Components!PaletteUp, Components!OnlyPalette
  <2>2. a \in Int /\ (palette.cursor \in 0..Len(offered) - 1 => a \in 0..Len(offered) - 1)
    BY <1>1, <1>2 DEF Components!Larger
  <2> HIDE DEF a
  <2> QED BY <1>1, <1>6, <2>1, <2>2
<1>13. CASE Components!PaletteHover
  <2>1. PICK i \in Components!Places(offered) : palette' = [palette EXCEPT !.cursor = i]
    BY <1>13 DEF Components!PaletteHover, Components!OnlyPalette, offered
  <2>2. i \in Int /\ i \in 0..Len(offered) - 1
    BY <1>2, <2>1 DEF Components!Places
  <2> QED BY <1>6, <2>1, <2>2
<1>14. CASE Components!PaletteEnter \/ Components!PaletteClick
  <2>1. \E i \in DOMAIN offered : palette' = [palette EXCEPT !.ran = offered[i], !.open = FALSE]
    <3>1. CASE Components!PaletteEnter
      <4>1. palette.cursor + 1 \in DOMAIN offered
        BY <1>1, <1>2, <3>1 DEF Components!PaletteEnter, Components!Places, offered
      <4> QED BY <3>1, <4>1 DEF Components!PaletteEnter, Components!OnlyPalette, offered
    <3>2. CASE Components!PaletteClick
      BY <3>2 DEF Components!PaletteClick, Components!OnlyPalette, Components!Range, offered
    <3> QED BY <1>14, <3>1, <3>2
  <2>2. PICK c \in Nat : palette' = [palette EXCEPT !.ran = c, !.open = FALSE]
    BY <1>2, <2>1
  <2> DEFINE s == [palette EXCEPT !.ran = c]
             t == [s EXCEPT !.open = FALSE]
  <2>3. palette' = t
    BY <2>2
  <2>4. s \in CommandOf /\ s.query = palette.query /\ s.cursor = palette.cursor
    BY <1>1 DEF CommandOf
  <2> HIDE DEF s
  <2>5. t \in CommandOf /\ t.query = palette.query /\ t.cursor = palette.cursor
    BY <2>4 DEF CommandOf
  <2> HIDE DEF t
  <2> QED BY <1>3, <2>3, <2>5
<1>15. CASE UNCHANGED palette
  BY <1>1, <1>3, <1>15
<1> QED BY <1>7, <1>8, <1>9, <1>10, <1>11, <1>12, <1>13, <1>14, <1>15 DEF Components!PaletteNext

LEMMA CommandKeeps == CommandInv => Components!CursorIsOnACommand
<1> SUFFICES ASSUME CommandInv, palette.query # << >>
             PROVE  /\ Components!Listed # << >> => palette.cursor \in Components!Places(Components!Listed)
                    /\ \A c \in 1..Len(Command) :
                         c \in Components!Range(Components!Listed) <=>
                           \E at \in [1..Len(palette.query) -> 1..Len(Command[c])] :
                             /\ \A i \in 1..Len(palette.query) : Command[c][at[i]] = palette.query[i]
                             /\ \A i \in 1..Len(palette.query) - 1 : at[i] < at[i + 1]
  BY DEF Components!CursorIsOnACommand
<1> DEFINE q == palette.query
           offered == Components!Listed
<1>1. q \in Seq(STRING) /\ Len(q) \in Nat
  BY DEF CommandInv, CommandOf
<1>2. Components!Range(offered) = {c \in 1..Len(Command) : Components!Fuzzy(q, Command[c])}
  <2>1. Components!Range(offered) = Range(offered)
    BY DEF Components!Range, Range
  <2>2. offered = Components!Commands(q)
    BY DEF Components!Listed
  <2> QED BY <1>1, <2>1, <2>2, CommandsAreListed
<1>3. offered # << >> => palette.cursor \in Components!Places(offered)
  BY DEF CommandInv, Components!Places
<1> HIDE DEF offered, q
<1>4. \A c \in 1..Len(Command) :
        c \in Components!Range(offered) <=>
          \E at \in [1..Len(q) -> 1..Len(Command[c])] :
            /\ \A i \in 1..Len(q) : Command[c][at[i]] = q[i]
            /\ \A i \in 1..Len(q) - 1 : at[i] < at[i + 1]
  <2> TAKE c \in 1..Len(Command)
  <2>1. Len(Command[c]) \in Nat
    BY KitConstants
  <2>2. c \in Components!Range(offered) <=> Components!Fuzzy(q, Command[c])
    BY <1>2
  <2> QED BY <1>1, <2>1, <2>2, FuzzyIsOrder
<1> QED BY <1>3, <1>4 DEF offered, q

-----------------------------------------------------------------------------
(* The table of locations *)

LEMMA TableConstants ==
  /\ RowsPerPage \in Nat /\ RowsPerPage > 0 /\ IsFiniteSet(Location)
  /\ \A s \in TableSearch : s \subseteq Location
<1>1. RowsPerPage \in Nat \ {0} /\ IsFiniteSet(Location) /\ \A s \in TableSearch : s \subseteq Location
  BY BrowserConstants DEF BrowserConstants
<1> QED BY <1>1

\* A step of what surrounds the charts refreshes, or turns the table, or neither.
LEMMA DashMoves ==
  [Dash!DashNext]_(Dash!dashVars) => [Dash!RefreshNext]_refresh /\ [Dash!TableNext]_table
<1> SUFFICES ASSUME [Dash!DashNext]_(Dash!dashVars)
             PROVE  [Dash!RefreshNext]_refresh /\ [Dash!TableNext]_table
  OBVIOUS
<1>1. CASE Dash!ToastsNext
  BY <1>1 DEF Dash!ToastsNext, Dash!AddToast, Dash!DismissToast, Dash!ToastEnds,
     Dash!DrawToasts, Dash!ToastTick, Dash!OnlyToasts
<1>2. CASE Dash!RefreshNext
  <2>1. UNCHANGED table
    BY <1>2 DEF Dash!RefreshNext, Dash!RefreshClick, Dash!RefreshTimer, Dash!RefreshEnds,
       Dash!NoteEnds, Dash!AutoRefresh, Dash!OnlyRefresh
  <2> QED BY <1>2, <2>1
<1>3. CASE Dash!DatesNext
  BY <1>3 DEF Dash!DatesNext, Dash!ApplyPreset, Dash!TypeDates, Dash!ApplyTyped,
     Dash!ReloadDates, Dash!NextDay, Dash!OnlyDates
<1>4. CASE Dash!TableNext
  <2>1. UNCHANGED refresh
    BY <1>4 DEF Dash!TableNext, Dash!SortBy, Dash!SearchRows, Dash!PreviousRows,
       Dash!NextRows, Dash!OnlyTable
  <2> QED BY <1>4, <2>1
<1>5. CASE Dash!ReportNext
  BY <1>5 DEF Dash!ReportNext, Dash!ReportClick, Dash!ReportSection, Dash!ReportFails,
     Dash!ReportButton, Dash!OnlyReport
<1>6. CASE UNCHANGED Dash!dashVars
  BY <1>6 DEF Dash!dashVars
<1> QED BY <1>1, <1>2, <1>3, <1>4, <1>5, <1>6 DEF Dash!DashNext

\* So many pages are as many as n rows need, and one when there are none.
PagesFor(n, size) == Dash!Larger(1, (n + size - 1) \div size)

LEMMA PagesCover ==
  ASSUME NEW n \in Nat, NEW size \in Nat, size > 0
  PROVE  /\ PagesFor(n, size) \in Nat /\ PagesFor(n, size) >= 1
         /\ n <= PagesFor(n, size) * size
         /\ \A p \in 1..PagesFor(n, size) :
              (p - 1) * size \in Nat /\ (p - 1) * size <= n /\ (n > 0 => (p - 1) * size < n)
<1> DEFINE q == (n + size - 1) \div size
           last == PagesFor(n, size)
<1>1. q \in Nat /\ size * q <= n + size - 1 /\ n + size - 1 < size * q + size
  <2>1. n + size - 1 \in Nat /\ size \in Nat \ {0}
    OBVIOUS
  <2> QED BY <2>1, Quotient
<1>2. last = Dash!Larger(1, q)
  BY DEF PagesFor
<1> HIDE DEF q, last
<1>3. CASE q = 0
  <2>1. last = 1 /\ n = 0 /\ last * size = size
    BY <1>1, <1>2, <1>3 DEF Dash!Larger
  <2>2. \A p \in 1..last : (p - 1) * size = 0
    BY <2>1
  <2> QED BY <2>1, <2>2 DEF last
<1>4. CASE q # 0
  <2>1. last = q /\ last \in Nat /\ last >= 1
    BY <1>1, <1>2, <1>4 DEF Dash!Larger
  <2>2. n <= last * size
    <3>1. last * size = size * q /\ size * q \in Nat
      BY <1>1, <2>1
    <3> QED BY <1>1, <3>1
  <2>3. ASSUME NEW p \in 1..last
        PROVE  (p - 1) * size \in Nat /\ (p - 1) * size < n
    <3>1. q - p \in Nat /\ p - 1 \in Nat
      BY <2>1, <1>1
    <3>2. (q - p) * size \in Nat /\ (p - 1) * size \in Nat
      BY <3>1
    <3>3. size * q = (p - 1) * size + (q - p) * size + size
      BY <1>1, <3>1
    <3>4. size * q \in Nat
      BY <1>1
    <3> QED BY <1>1, <3>2, <3>3, <3>4
  <2>4. \A p \in 1..last : (p - 1) * size \in Nat /\ (p - 1) * size <= n /\ (n > 0 => (p - 1) * size < n)
    <3> TAKE p \in 1..last
    <3>1. (p - 1) * size \in Nat /\ (p - 1) * size < n
      BY <2>3
    <3> QED BY <3>1
  <2> QED BY <2>1, <2>2, <2>4 DEF last
<1> QED BY <1>3, <1>4

TableOf == [key : Dash!SortKey, dir : {"asc", "desc"}, found : SUBSET Location, page : Nat]
\* The page shown is one of those that the rows found need.
TableInv ==
  table \in TableOf /\ table.page \in 1..PagesFor(Cardinality(table.found), RowsPerPage)

LEMMA TableLengths ==
  \A S \in SUBSET Location :
    /\ IsFiniteSet(S) /\ Cardinality(S) \in Nat /\ (Cardinality(S) = 0 <=> S = {})
    /\ PagesFor(Cardinality(S), RowsPerPage) \in Nat
    /\ 1 \in 1..PagesFor(Cardinality(S), RowsPerPage)
<1> TAKE S \in SUBSET Location
<1>1. IsFiniteSet(S) /\ Cardinality(S) \in Nat
  BY TableConstants, FS_Subset, FS_CardinalityType
<1>2. Cardinality(S) = 0 <=> S = {}
  BY <1>1, FS_EmptySet
<1>3. PagesFor(Cardinality(S), RowsPerPage) \in Nat /\ PagesFor(Cardinality(S), RowsPerPage) >= 1
  BY <1>1, TableConstants, PagesCover
<1> QED BY <1>1, <1>2, <1>3

LEMMA SortedCounts ==
  ASSUME TableInv
  PROVE  /\ Len(Dash!Sorted) = Cardinality(table.found) /\ \E A : Dash!Sorted \in Seq(A)
         /\ Dash!LastPage = PagesFor(Cardinality(table.found), RowsPerPage)
<1> DEFINE before == {p \in table.found \X table.found : Dash!Before(p[1], p[2])}
<1>1. table.found \in SUBSET Location
  BY DEF TableInv, TableOf
<1>2. IsFiniteSet(table.found)
  BY <1>1, TableLengths
<1>3. Dash!Sorted = Ranked(table.found, before)
  BY OneOrder DEF Dash!Sorted
<1> HIDE DEF before
<1>4. Len(Dash!Sorted) = Cardinality(table.found) /\ \E A : Dash!Sorted \in Seq(A)
  BY <1>2, <1>3, RankedCounts
<1> QED BY <1>4 DEF Dash!LastPage, PagesFor

LEMMA InitTable == Dash!DashInit => TableInv
<1> SUFFICES ASSUME Dash!DashInit PROVE TableInv
  OBVIOUS
<1>1. table = [key |-> "gists", dir |-> "desc", found |-> Location, page |-> 1]
  BY DEF Dash!DashInit
<1>2. table \in TableOf /\ table.found = Location /\ table.page = 1
  BY <1>1 DEF TableOf, Dash!SortKey
<1> QED BY <1>2, TableLengths DEF TableInv

LEMMA StepTable == TableInv /\ [Dash!TableNext]_table => TableInv'
<1> SUFFICES ASSUME TableInv, [Dash!TableNext]_table PROVE TableInv'
  OBVIOUS
<1> DEFINE last == PagesFor(Cardinality(table.found), RowsPerPage)
<1>1. /\ table \in TableOf /\ table.found \in SUBSET Location /\ table.page \in 1..last
      /\ last \in Nat
  BY TableLengths DEF TableInv, TableOf
<1>2. ASSUME NEW t \in TableOf, table' = t, t.page = 1 PROVE TableInv'
  <2>1. t.found \in SUBSET Location
    BY DEF TableOf
  <2> QED BY <1>2, <2>1, TableLengths DEF TableInv
<1> HIDE DEF last
<1>3. ASSUME NEW a \in 1..last, table' = [table EXCEPT !.page = a] PROVE TableInv'
  <2> DEFINE t == [table EXCEPT !.page = a]
  <2>1. a \in Nat
    BY <1>1
  <2>2. t \in TableOf /\ t.page = a /\ t.found = table.found
    BY <1>1, <2>1 DEF TableOf
  <2> HIDE DEF t
  <2> QED BY <1>3, <2>2 DEF TableInv, last, t
<1>4. CASE Dash!SortBy
  <2>1. PICK key \in Dash!SortKey : table' = Dash!Reordered(key)
    BY <1>4 DEF Dash!SortBy, Dash!OnlyTable
  <2> DEFINE d == IF key = table.key /\ table.dir = "desc" THEN "asc" ELSE "desc"
             t == [table EXCEPT !.key = key]
             u == [t EXCEPT !.page = 1]
             v == [u EXCEPT !.dir = d]
  <2>2. table' = v
    BY <1>1, <2>1 DEF Dash!Reordered, TableOf
  <2>3. d \in {"asc", "desc"}
    OBVIOUS
  <2> HIDE DEF d
  <2>4. t \in TableOf
    BY <1>1 DEF TableOf
  <2> HIDE DEF t
  <2>5. u \in TableOf /\ u.page = 1
    BY <2>4 DEF TableOf
  <2> HIDE DEF u
  <2>6. v \in TableOf /\ v.page = 1
    BY <2>3, <2>5 DEF TableOf
  <2> HIDE DEF v
  <2> QED BY <1>2, <2>2, <2>6
<1>5. CASE Dash!SearchRows
  <2>1. PICK s \in TableSearch : table' = [table EXCEPT !.found = s, !.page = 1]
    BY <1>5 DEF Dash!SearchRows, Dash!OnlyTable
  <2>2. s \in SUBSET Location
    BY TableConstants
  <2> DEFINE t == [table EXCEPT !.found = s]
             u == [t EXCEPT !.page = 1]
  <2>3. table' = u
    BY <2>1
  <2>4. t \in TableOf
    BY <1>1, <2>2 DEF TableOf
  <2> HIDE DEF t
  <2>5. u \in TableOf /\ u.page = 1
    BY <2>4 DEF TableOf
  <2> HIDE DEF u
  <2> QED BY <1>2, <2>3, <2>5
<1>6. CASE Dash!PreviousRows
  <2> DEFINE a == Dash!Larger(1, table.page - 1)
  <2>1. table' = [table EXCEPT !.page = a]
    BY <1>6 DEF Dash!PreviousRows, Dash!OnlyTable
  <2>2. a \in 1..last
    BY <1>1 DEF Dash!Larger
  <2> HIDE DEF a
  <2> QED BY <1>3, <2>1, <2>2
<1>7. CASE Dash!NextRows
  <2> DEFINE a == Dash!Smaller(last, table.page + 1)
  <2>1. Dash!LastPage = last
    BY SortedCounts DEF last
  <2>2. table' = [table EXCEPT !.page = a]
    BY <1>7, <2>1 DEF Dash!NextRows, Dash!OnlyTable
  <2>3. a \in 1..last
    BY <1>1 DEF Dash!Smaller
  <2> HIDE DEF a
  <2> QED BY <1>3, <2>2, <2>3
<1>8. CASE UNCHANGED table
  BY <1>8 DEF TableInv
<1> QED BY <1>4, <1>5, <1>6, <1>7, <1>8 DEF Dash!TableNext

LEMMA TableKeeps == TableInv => Dash!PageHasRows
<1> SUFFICES ASSUME TableInv PROVE Dash!PageHasRows
  OBVIOUS
<1> DEFINE s == Dash!Sorted
           n == Len(s)
           size == RowsPerPage
           last == PagesFor(n, size)
           at == [p \in 0..last |-> Dash!Smaller(p * size, n)]
<1>1. /\ table.page \in 1..last /\ Dash!LastPage = last
      /\ table.found # {} => n > 0
  <2>1. table.found \in SUBSET Location
    BY DEF TableInv, TableOf
  <2>2. Len(s) = Cardinality(table.found) /\ Dash!LastPage = last
    BY SortedCounts
  <2> HIDE DEF s
  <2>3. table.page \in 1..last
    BY <2>2 DEF TableInv
  <2> HIDE DEF last
  <2> QED BY <2>1, <2>2, <2>3, TableLengths
<1>2. PICK A : s \in Seq(A)
  BY SortedCounts
<1>3. n \in Nat /\ size \in Nat /\ size > 0
  BY <1>2, TableConstants
<1>4. \A p : Dash!PageRows(p) = SubSeq(s, (p - 1) * size + 1, Dash!Smaller(p * size, n))
  BY DEF Dash!PageRows
<1>5. Dash!Joined([p \in 1..Dash!LastPage |-> Dash!PageRows(p)]) =
        Joined([p \in 1..last |-> Dash!PageRows(p)])
  BY <1>1, OneOrder
<1> HIDE DEF s, n, size, last
<1>6. /\ last \in Nat /\ last >= 1 /\ n <= last * size
      /\ \A p \in 1..last :
           (p - 1) * size \in Nat /\ (p - 1) * size <= n /\ (n > 0 => (p - 1) * size < n)
  BY <1>3, PagesCover DEF last
<1>7. \A p \in 1..last : /\ p * size = (p - 1) * size + size /\ p * size \in Nat
  <2> TAKE p \in 1..last
  <2>1. p \in Nat /\ p - 1 \in Nat
    BY <1>6
  <2> QED BY <1>3, <2>1
<1>8. ASSUME n > 0, NEW p \in 1..last PROVE Dash!PageRows(p) # << >>
  <2> DEFINE from == (p - 1) * size + 1
             to == Dash!Smaller(p * size, n)
  <2>1. from \in 1..to /\ to \in 0..n
    BY <1>3, <1>6, <1>7, <1>8 DEF Dash!Smaller
  <2>2. Dash!PageRows(p) = SubSeq(s, from, to)
    BY <1>4
  <2> HIDE DEF from, to
  <2> DEFINE piece == SubSeq(s, from, to)
  <2>3. piece \in Seq(A) /\ Len(piece) > 0
    BY <1>2, <1>3, <2>1 DEF n
  <2>4. piece # << >>
    <3> HIDE DEF piece
    <3> QED BY <2>3
  <2> QED BY <2>2, <2>4
<1>9. \A p \in 0..last : p = 0 \/ p \in 1..last
  BY <1>6
<1>10. /\ at[0] = 0 /\ at[last] = n
       /\ \A p \in 1..last : /\ at[p - 1] = (p - 1) * size /\ at[p] = Dash!Smaller(p * size, n)
                             /\ at[p - 1] <= at[p]
  <2>0. \A p \in 0..last : at[p] = Dash!Smaller(p * size, n)
    OBVIOUS
  <2> HIDE DEF at
  <2>1. at[0] = 0
    <3>1. 0 * size = 0 /\ 0 \in 0..last
      BY <1>3, <1>6
    <3> QED BY <1>3, <2>0, <3>1 DEF Dash!Smaller
  <2>2. at[last] = n
    <3>1. last \in 0..last /\ last \in 1..last
      BY <1>6
    <3>2. last * size \in Nat
      BY <1>7, <3>1
    <3> QED BY <1>3, <1>6, <2>0, <3>1, <3>2 DEF Dash!Smaller
  <2>3. ASSUME NEW p \in 1..last
        PROVE  /\ at[p - 1] = (p - 1) * size /\ at[p] = Dash!Smaller(p * size, n)
               /\ at[p - 1] <= at[p]
    <3>1. p - 1 \in 0..last /\ p \in 0..last
      BY <1>6
    <3>2. (p - 1) * size \in Nat /\ (p - 1) * size <= n /\ p * size = (p - 1) * size + size
      BY <1>6, <1>7
    <3>3. at[p - 1] = (p - 1) * size
      BY <1>3, <2>0, <3>1, <3>2 DEF Dash!Smaller
    <3> QED BY <1>3, <2>0, <3>1, <3>2, <3>3 DEF Dash!Smaller
  <2> QED BY <2>1, <2>2, <2>3
<1>11. at \in [0..last -> 0..n]
  <2>1. ASSUME NEW p \in 0..last PROVE Dash!Smaller(p * size, n) \in 0..n
    <3>1. p * size \in Nat
      BY <1>3, <1>6, <1>7, <1>9
    <3> QED BY <1>3, <3>1 DEF Dash!Smaller
  <2> QED BY <2>1
<1> HIDE DEF at
<1>12. Joined([p \in 1..last |-> SubSeq(s, at[p - 1] + 1, at[p])]) = s
  BY <1>2, <1>6, <1>10, <1>11, PiecesMakeTheList DEF n
<1>13. [p \in 1..last |-> Dash!PageRows(p)] = [p \in 1..last |-> SubSeq(s, at[p - 1] + 1, at[p])]
  <2>1. \A p \in 1..last : Dash!PageRows(p) = SubSeq(s, at[p - 1] + 1, at[p])
    BY <1>4, <1>10
  <2> QED BY <2>1
<1> QED BY <1>1, <1>5, <1>8, <1>12, <1>13 DEF Dash!PageHasRows, s

-----------------------------------------------------------------------------
(* The composition *)

FigureNext == Fig!FiguresNext \/ Doc!DocumentNext \/ Fig!AudienceNext \/ Fig!SummariesNext
PanelsNext == Embedded!SharingNext \/ Embedded!ChatNext \/ Embedded!DrawerNext \/ Embedded!RankingNext

\* A step in the browser is a step of one part, and of no other.
LEMMA PartsMove ==
  [Next]_browserVars =>
    /\ [Saved!BookmarksNext]_(Saved!bookmarkVars)
    /\ [Palette!PaletteNext]_(Palette!paletteVars)
    /\ [Saved!NotesNext]_(Saved!noteVars)
    /\ [Regions!RegionNext]_(Regions!regionVars)
    /\ [GistMap!MapNext]_(GistMap!mapVars)
    /\ [Report!ReportNext]_(Report!reportVars)
    /\ [Segments!SegmentsNext]_(Segments!segmentVars)
    /\ [WidgetsNext]_(Widgets!widgetVars)
    /\ [FigureNext]_(Fig!figureVars)
    /\ [Forms!ListNext]_(Forms!listVars)
    /\ [FormsNext]_(Forms!formVars)
    /\ [FilesNext]_(Files!exportVars)
    /\ [Components!KitNext]_(Components!kitVars)
    /\ [Dash!DashNext]_(Dash!dashVars)
    /\ [Import!ImportNext]_(Import!vars)
    /\ [Tests!DeclareWinner]_experiments
    /\ [EmbeddedNext]_(Embedded!builderVars)
    /\ [PanelsNext]_(Embedded!panelVars)
<1>0. SUFFICES ASSUME [Next]_browserVars PROVE /\ [Saved!BookmarksNext]_(Saved!bookmarkVars)
                                                /\ [Palette!PaletteNext]_(Palette!paletteVars)
                                                /\ [Saved!NotesNext]_(Saved!noteVars)
                                                /\ [Regions!RegionNext]_(Regions!regionVars)
                                                /\ [GistMap!MapNext]_(GistMap!mapVars)
                                                /\ [Report!ReportNext]_(Report!reportVars)
                                                /\ [Segments!SegmentsNext]_(Segments!segmentVars)
                                                /\ [WidgetsNext]_(Widgets!widgetVars)
                                                /\ [FigureNext]_(Fig!figureVars)
                                                /\ [Forms!ListNext]_(Forms!listVars)
                                                /\ [FormsNext]_(Forms!formVars)
                                                /\ [FilesNext]_(Files!exportVars)
                                                /\ [Components!KitNext]_(Components!kitVars)
                                                /\ [Dash!DashNext]_(Dash!dashVars)
                                                /\ [Import!ImportNext]_(Import!vars)
                                                /\ [Tests!DeclareWinner]_experiments
                                                /\ [EmbeddedNext]_(Embedded!builderVars)
                                                /\ [PanelsNext]_(Embedded!panelVars)
  OBVIOUS
<1>1. /\ UNCHANGED bookmarkVars => UNCHANGED Saved!bookmarkVars
      /\ UNCHANGED paletteVars => UNCHANGED Palette!paletteVars
      /\ UNCHANGED noteVars => UNCHANGED Saved!noteVars
      /\ UNCHANGED regionVars => UNCHANGED Regions!regionVars
      /\ UNCHANGED mapVars => UNCHANGED GistMap!mapVars
      /\ UNCHANGED reportVars => UNCHANGED Report!reportVars
      /\ UNCHANGED segmentVars => UNCHANGED Segments!segmentVars
      /\ UNCHANGED widgetVars => UNCHANGED Widgets!widgetVars
      /\ UNCHANGED figureVars => UNCHANGED Fig!figureVars
      /\ UNCHANGED listVars => UNCHANGED Forms!listVars
      /\ UNCHANGED formVars => UNCHANGED Forms!formVars
      /\ UNCHANGED exportVars => UNCHANGED Files!exportVars
      /\ UNCHANGED kitVars => UNCHANGED Components!kitVars
      /\ UNCHANGED dashVars => UNCHANGED Dash!dashVars
      /\ UNCHANGED importVars => UNCHANGED Import!vars
      /\ UNCHANGED testVars => UNCHANGED experiments
      /\ UNCHANGED embedVars => UNCHANGED Embedded!builderVars
      /\ UNCHANGED panelVars => UNCHANGED Embedded!panelVars
  BY DEF bookmarkVars, Saved!bookmarkVars, paletteVars, Palette!paletteVars, noteVars,
         Saved!noteVars, regionVars, Regions!regionVars, mapVars, GistMap!mapVars,
         reportVars, Report!reportVars, segmentVars, Segments!segmentVars, widgetVars,
         Widgets!widgetVars, figureVars, Fig!figureVars, listVars, Forms!listVars,
         formVars, Forms!formVars, exportVars, Files!exportVars, kitVars,
         Components!kitVars, dashVars, Dash!dashVars, importVars, Import!vars, testVars,
         embedVars, Embedded!builderVars, panelVars, Embedded!panelVars
<1>2. CASE UNCHANGED browserVars
  BY <1>1, <1>2 DEF browserVars
<1>3. CASE Saved!BookmarksNext /\ OnlyBookmarks
  BY <1>1, <1>3 DEF OnlyBookmarks
<1>4. CASE Palette!PaletteNext /\ OnlyPalette
  BY <1>1, <1>4 DEF OnlyPalette
<1>5. CASE Saved!NotesNext /\ OnlyNotes
  BY <1>1, <1>5 DEF OnlyNotes
<1>6. CASE Regions!RegionNext /\ OnlyRegions
  BY <1>1, <1>6 DEF OnlyRegions
<1>7. CASE GistMap!MapNext /\ OnlyMap
  BY <1>1, <1>7 DEF OnlyMap
<1>8. CASE Report!ReportNext /\ OnlyReport
  BY <1>1, <1>8 DEF OnlyReport
<1>9. CASE Segments!SegmentsNext /\ OnlySegments
  BY <1>1, <1>9 DEF OnlySegments
<1>10. CASE WidgetsNext /\ OnlyWidgets
  BY <1>1, <1>10 DEF OnlyWidgets
<1>11. CASE FigureNext /\ OnlyFigures
  BY <1>1, <1>11 DEF OnlyFigures
<1>12. CASE Forms!ListNext /\ OnlyLists
  BY <1>1, <1>12 DEF OnlyLists
<1>13. CASE FormsNext /\ OnlyForms
  BY <1>1, <1>13 DEF OnlyForms
<1>14. CASE FilesNext /\ OnlyFiles
  BY <1>1, <1>14 DEF OnlyFiles
<1>15. CASE Components!KitNext /\ OnlyComponents
  BY <1>1, <1>15 DEF OnlyComponents
<1>16. CASE Dash!DashNext /\ OnlyDash
  BY <1>1, <1>16 DEF OnlyDash
<1>17. CASE Import!ImportNext /\ OnlyImport
  BY <1>1, <1>17 DEF OnlyImport
<1>18. CASE Tests!DeclareWinner /\ OnlyTests
  BY <1>1, <1>18 DEF OnlyTests
<1>19. CASE EmbeddedNext /\ OnlyEmbedded
  BY <1>1, <1>19 DEF OnlyEmbedded
<1>20. CASE PanelsNext /\ OnlyPanels
  BY <1>1, <1>20 DEF OnlyPanels
<1>21. \/ UNCHANGED browserVars
       \/ Saved!BookmarksNext /\ OnlyBookmarks
       \/ Palette!PaletteNext /\ OnlyPalette
       \/ Saved!NotesNext /\ OnlyNotes
       \/ Regions!RegionNext /\ OnlyRegions
       \/ GistMap!MapNext /\ OnlyMap
       \/ Report!ReportNext /\ OnlyReport
       \/ Segments!SegmentsNext /\ OnlySegments
       \/ WidgetsNext /\ OnlyWidgets
       \/ FigureNext /\ OnlyFigures
       \/ Forms!ListNext /\ OnlyLists
       \/ FormsNext /\ OnlyForms
       \/ FilesNext /\ OnlyFiles
       \/ Components!KitNext /\ OnlyComponents
       \/ Dash!DashNext /\ OnlyDash
       \/ Import!ImportNext /\ OnlyImport
       \/ Tests!DeclareWinner /\ OnlyTests
       \/ EmbeddedNext /\ OnlyEmbedded
       \/ PanelsNext /\ OnlyPanels
  BY <1>0 DEF Next, Report!ReportNext, WidgetsNext, FigureNext, FormsNext, FilesNext,
         Components!KitNext, Dash!DashNext, EmbeddedNext, PanelsNext
<1> QED BY <1>2, <1>3, <1>4, <1>5, <1>6, <1>7, <1>8, <1>9, <1>10, <1>11, <1>12, <1>13, <1>14, <1>15, <1>16, <1>17, <1>18, <1>19, <1>20, <1>21

\* Each part of the browser runs as its own module says.
THEOREM EachPageRuns ==
  Spec =>
    /\ Saved!BookmarksInit /\ [][Saved!BookmarksNext]_(Saved!bookmarkVars)
    /\ Palette!PaletteInit /\ [][Palette!PaletteNext]_(Palette!paletteVars)
    /\ Saved!NotesInit /\ [][Saved!NotesNext]_(Saved!noteVars)
    /\ Regions!RegionInit /\ [][Regions!RegionNext]_(Regions!regionVars)
    /\ GistMap!MapInit /\ [][GistMap!MapNext]_(GistMap!mapVars)
    /\ Report!ReportInit /\ [][Report!ReportNext]_(Report!reportVars)
    /\ Segments!SegmentsInit /\ [][Segments!SegmentsNext]_(Segments!segmentVars)
    /\ Widgets!WidgetsInit /\ [][WidgetsNext]_(Widgets!widgetVars)
    /\ Forms!ListInit /\ [][Forms!ListNext]_(Forms!listVars)
    /\ Forms!FormsInit /\ [][FormsNext]_(Forms!formVars)
    /\ Files!ExportsInit /\ [][FilesNext]_(Files!exportVars)
    /\ Components!KitInit /\ [][Components!KitNext]_(Components!kitVars)
    /\ Dash!DashInit /\ [][Dash!DashNext]_(Dash!dashVars)
    /\ Import!ImportInit /\ [][Import!ImportNext]_(Import!vars)
    /\ Embedded!PanelsInit /\ [][PanelsNext]_(Embedded!panelVars)
<1>1. Init => /\ Saved!BookmarksInit /\ Palette!PaletteInit /\ Saved!NotesInit
              /\ Regions!RegionInit /\ GistMap!MapInit /\ Report!ReportInit
              /\ Segments!SegmentsInit /\ Widgets!WidgetsInit /\ Forms!ListInit
              /\ Forms!FormsInit /\ Files!ExportsInit /\ Components!KitInit /\ Dash!DashInit
              /\ Import!ImportInit /\ Embedded!PanelsInit
  BY DEF Init
<1> QED BY <1>1, PartsMove, PTL DEF Spec

\* What the parts keep, all of it.
BrowserInv ==
  /\ BookmarksInv /\ NotesInv /\ ReportInv /\ WidgetsInv /\ FormsInv /\ RangeInv
  /\ RefreshInv /\ ListsInv /\ FilesInv /\ RegionsInv /\ MapInv /\ QueriesInv
  /\ FindInv /\ SelectInv /\ TabsInv /\ SectionsInv /\ CommandInv /\ TableInv

LEMMA InitBrowser == Init => BrowserInv
<1> SUFFICES ASSUME Init PROVE BrowserInv
  OBVIOUS
<1>1. BookmarksInv /\ NotesInv /\ ReportInv /\ WidgetsInv /\ FormsInv
  BY InitBookmarks, InitNotes, InitReport, InitWidgets, InitForms DEF Init
<1>2. ListsInv /\ FilesInv /\ RegionsInv /\ MapInv /\ FindInv
  BY InitLists, InitFiles, InitRegions, InitMap, InitFind DEF Init
<1>3. RangeInv /\ SelectInv /\ TabsInv /\ SectionsInv /\ CommandInv
  BY InitRange, InitSelect, InitTabsAndSections, InitCommand DEF Init
<1>4. RefreshInv /\ TableInv
  BY InitRefresh, InitTable DEF Init
<1>5. QueriesInv
  BY InitQueries DEF Init
<1> QED BY <1>1, <1>2, <1>3, <1>4, <1>5 DEF BrowserInv

LEMMA StepBrowser == BrowserInv /\ [Next]_browserVars => BrowserInv'
<1> SUFFICES ASSUME BrowserInv, [Next]_browserVars PROVE BrowserInv'
  OBVIOUS
<1>1. BookmarksInv'
  BY PartsMove, StepBookmarks DEF BrowserInv
<1>2. NotesInv'
  BY PartsMove, StepNotes DEF BrowserInv
<1>3. ReportInv'
  BY PartsMove, StepReport DEF BrowserInv
<1>4. WidgetsInv'
  BY PartsMove, StepWidgets DEF BrowserInv
<1>5. FormsInv'
  BY PartsMove, StepForms DEF BrowserInv
<1>6. ListsInv'
  BY PartsMove, StepLists DEF BrowserInv
<1>7. FilesInv'
  BY PartsMove, StepFiles DEF BrowserInv
<1>8. RegionsInv'
  BY PartsMove, StepRegions DEF BrowserInv
<1>9. MapInv'
  BY PartsMove, StepMap DEF BrowserInv
<1>10. QueriesInv'
  BY PartsMove, StepQueries DEF BrowserInv
<1>11. FindInv'
  BY PartsMove, StepFind DEF BrowserInv
<1>12. RangeInv' /\ SelectInv' /\ TabsInv' /\ SectionsInv' /\ CommandInv'
  <2>1. /\ [Components!RangeNext]_range /\ [Components!SelectNext]_select
        /\ [Components!TabsNext]_tabs /\ [Components!SectionToggle]_sections
        /\ [Components!PaletteNext]_palette
    BY PartsMove, KitMoves
  <2> QED BY <2>1, StepRange, StepSelect, StepTabs, StepSections, StepCommand DEF BrowserInv
<1>13. RefreshInv' /\ TableInv'
  <2>1. [Dash!RefreshNext]_refresh /\ [Dash!TableNext]_table
    BY PartsMove, DashMoves
  <2> QED BY <2>1, StepRefresh, StepTable DEF BrowserInv
<1> QED BY <1>1, <1>2, <1>3, <1>4, <1>5, <1>6, <1>7, <1>8, <1>9, <1>10, <1>11, <1>12, <1>13
        DEF BrowserInv

LEMMA BrowserKeepsInv == Spec => []BrowserInv
BY InitBrowser, StepBrowser, PTL DEF Spec

\* What is stored and listed keeps its limits, whichever tab stored it: bookmarks
\* are capped and unique, notes complete, a saved report can be sent, the feeds are
\* bounded, what a form stored is valid, and the ends of a slider do not cross.
THEOREM LimitsAreKept == Spec => []LimitsHold
<1>1. BrowserInv => LimitsHold
  BY SavedKeeps, ReportKeeps, WidgetsKeep, FormsKeep, RangeKeeps DEF BrowserInv, LimitsHold
<1> QED BY <1>1, BrowserKeepsInv, PTL

\* What refers to something refers to what there is, in every page and at any time:
\* the selection of the search is a result, the panel's region exists, a post being
\* sent has its pin, a player that plays has its interval, an option chosen is an
\* enabled one, the cursor of the commands is on a command that has the letters typed,
\* the table is on a page that has rows, and its pages together are the rows found.
THEOREM SelectionsStay == Spec => []SelectionsExist
<1>1. BrowserInv => SelectionsExist
  <2> SUFFICES ASSUME BrowserInv PROVE SelectionsExist
    OBVIOUS
  <2>1. Palette!SelectionIsAResult /\ Regions!RenameFieldHasARegion
        /\ GistMap!PendingPinHasItsPost /\ Forms!SomethingIsSelected /\ Widgets!PlayerMoves
    BY FindKeeps, RegionsKeep, MapKeeps, ListsKeep, WidgetsKeep DEF BrowserInv
  <2>2. Forms!BuilderIdsAreUnique /\ Files!MessagesHaveTimers /\ Embedded!FiltersAreTold
    BY FormsKeep, FilesKeep, QueriesKeep DEF BrowserInv
  <2>3. Components!ChoicesAreAllowed /\ Components!CursorIsOnACommand
    BY ChoicesKeep, CommandKeeps DEF BrowserInv
  <2>4. Dash!BusyMeansRunning /\ Dash!PageHasRows
    BY TableKeeps DEF BrowserInv, RefreshInv
  <2> QED BY <2>1, <2>2, <2>3, <2>4 DEF SelectionsExist
<1> QED BY <1>1, BrowserKeepsInv, PTL

-----------------------------------------------------------------------------
(* Nothing is lost: bookmarks and notes *)

IdsIn(list) == {list[i].id : i \in DOMAIN list}

Removed(s, id) == Kept(s, {b \in Range(s) : b.id # id})

\* A list without an id is what it was, without the element of that id.
LEMMA RemovedIds ==
  ASSUME NEW A, NEW s \in Seq(A), NEW id
  PROVE  /\ Removed(s, id) \in Seq(A) /\ IdsIn(Removed(s, id)) = IdsIn(s) \ {id}
         /\ \A i \in DOMAIN Removed(s, id) : \E j \in DOMAIN s : s[j] = Removed(s, id)[i]
<1> DEFINE S == {b \in Range(s) : b.id # id}
           k == Kept(s, S)
<1>1. \A j \in DOMAIN s : s[j] \in S <=> s[j].id # id
  BY DEF Range
<1>2. \A b \in S : b.id # id
  OBVIOUS
<1> HIDE DEF S
<1>3. /\ k \in Seq(A) /\ \A i \in DOMAIN k : k[i] \in S
      /\ \A i \in DOMAIN k : \E j \in DOMAIN s : s[j] = k[i]
      /\ \A j \in DOMAIN s : s[j] \in S => \E i \in DOMAIN k : k[i] = s[j]
  BY KeptFacts
<1> HIDE DEF k
<1>4. IdsIn(k) = IdsIn(s) \ {id}
  <2>1. ASSUME NEW i \in DOMAIN k PROVE k[i].id \in IdsIn(s) \ {id}
    BY <1>2, <1>3 DEF IdsIn
  <2>2. ASSUME NEW j \in DOMAIN s, s[j].id # id PROVE s[j].id \in IdsIn(k)
    BY <1>1, <1>3, <2>2 DEF IdsIn
  <2> QED BY <2>1, <2>2 DEF IdsIn
<1> QED BY <1>3, <1>4 DEF k, S, Removed

\* What a step does to the bookmarks.
BookmarksGo ==
  /\ \A id \in Saved!IdsOf(bookmarks) \ Saved!IdsOf(bookmarks') :
       \E t \in Tab : id \in Saved!IdsOf(tab[t].list) /\ tab'[t].list = bookmarks'
  /\ \A id \in Saved!IdsOf(bookmarks') \ Saved!IdsOf(bookmarks) : id = ids' /\ ids' > ids
  /\ \A i \in DOMAIN bookmarks, j \in DOMAIN bookmarks' :
       bookmarks[i].id = bookmarks'[j].id /\ bookmarks[i] # bookmarks'[j]
         => \E t \in Tab : bookmarks[i].id = tab[t].renaming /\ bookmarks'[j].name = tab[t].value

\* A step that leaves the bookmarks alone loses none.
LEMMA BookmarksStayPut == BookmarksInv /\ bookmarks' = bookmarks => BookmarksGo
BY DEF BookmarksInv, BookmarksGo, OwnIds

\* Deleting takes one bookmark that the tab shows, which then shows what is stored.
LEMMA DeletedGoes ==
  ASSUME BookmarksInv, NEW t \in Tab, NEW id \in Saved!IdsOf(tab[t].list), Saved!Delete(t, id)
  PROVE  BookmarksGo
<1>1. bookmarks \in Seq(Bookmark(ids)) /\ OwnIds(bookmarks) /\ tab \in [Tab -> TabOf(ids)]
  BY DEF BookmarksInv
<1>2. bookmarks' = Removed(bookmarks, id)
      /\ tab' = [tab EXCEPT ![t] = [tab[t] EXCEPT !.list = bookmarks']]
  BY OneFilter DEF Saved!Delete, Saved!Write, Saved!Range, Range, Removed
<1>3. /\ IdsIn(bookmarks') = IdsIn(bookmarks) \ {id}
      /\ \A i \in DOMAIN bookmarks' : \E j \in DOMAIN bookmarks : bookmarks[j] = bookmarks'[i]
  BY <1>1, <1>2, RemovedIds
<1>4. tab'[t].list = bookmarks'
  BY <1>1, <1>2 DEF TabOf
<1>5. \A list : Saved!IdsOf(list) = IdsIn(list)
  BY DEF Saved!IdsOf, IdsIn
<1>6. \A i \in DOMAIN bookmarks, j \in DOMAIN bookmarks' :
        bookmarks[i].id = bookmarks'[j].id => bookmarks[i] = bookmarks'[j]
  BY <1>1, <1>3 DEF OwnIds
<1> QED BY <1>3, <1>4, <1>5, <1>6 DEF BookmarksGo

\* Saving adds one bookmark, of the next id, where there is room.
LEMMA SavedComes ==
  ASSUME BookmarksInv, NEW t \in Tab, Saved!Save(t)
  PROVE  BookmarksGo
<1>1. CASE ~Saved!HasRoom
  BY <1>1, BookmarksStayPut DEF Saved!Save, Saved!Write
<1>2. CASE Saved!HasRoom
  <2> DEFINE new == [id |-> ids + 1, url |-> tab[t].path, name |-> tab[t].path]
  <2>1. bookmarks' = Append(bookmarks, new) /\ ids' = ids + 1
    BY <1>2 DEF Saved!Save, Saved!Write
  <2>2. /\ ids \in Nat /\ bookmarks \in Seq(Bookmark(ids)) /\ OwnIds(bookmarks)
        /\ \A i \in DOMAIN bookmarks : bookmarks[i] \in Bookmark(ids)
    BY DEF BookmarksInv
  <2>3. \A i \in DOMAIN bookmarks : bookmarks[i].id # ids + 1
    BY <2>2 DEF Bookmark
  <2>4. new.id = ids + 1
    OBVIOUS
  <2> HIDE DEF new
  <2>5. /\ DOMAIN bookmarks' = DOMAIN bookmarks \cup {Len(bookmarks) + 1}
        /\ bookmarks'[Len(bookmarks) + 1] = new
        /\ \A i \in DOMAIN bookmarks : bookmarks'[i] = bookmarks[i]
    BY <2>1, <2>2
  <2>6. \A id \in Saved!IdsOf(bookmarks) : id \in Saved!IdsOf(bookmarks')
    BY <2>5 DEF Saved!IdsOf
  <2>7. \A id \in Saved!IdsOf(bookmarks') \ Saved!IdsOf(bookmarks) : id = ids + 1
    BY <2>4, <2>5 DEF Saved!IdsOf
  <2>8. \A i \in DOMAIN bookmarks, j \in DOMAIN bookmarks' :
          bookmarks[i].id = bookmarks'[j].id => bookmarks[i] = bookmarks'[j]
    BY <2>2, <2>3, <2>4, <2>5 DEF OwnIds
  <2> QED BY <2>1, <2>2, <2>6, <2>7, <2>8 DEF BookmarksGo
<1> QED BY <1>1, <1>2

\* Renaming gives the name typed to the bookmark being renamed, and takes none.
LEMMA RenamedChanges ==
  ASSUME BookmarksInv, NEW t \in Tab, Saved!Rename(t)
  PROVE  BookmarksGo
<1> DEFINE list == Saved!Named(bookmarks, tab[t].renaming, tab[t].value)
<1>1. CASE tab[t].value = Saved!Blank
  BY <1>1, BookmarksStayPut DEF Saved!Rename, Saved!Show
<1>2. CASE tab[t].value # Saved!Blank
  <2>1. bookmarks' = list
    BY <1>2 DEF Saved!Rename, Saved!Write
  <2>2. /\ OwnIds(bookmarks) /\ \A i \in DOMAIN bookmarks : bookmarks[i] \in Bookmark(ids)
    BY DEF BookmarksInv
  <2>3. /\ DOMAIN bookmarks' = DOMAIN bookmarks
        /\ \A i \in DOMAIN bookmarks : bookmarks'[i] =
             IF bookmarks[i].id = tab[t].renaming
             THEN [bookmarks[i] EXCEPT !.name = tab[t].value] ELSE bookmarks[i]
    BY <2>1 DEF Saved!Named
  <2>4. \A i \in DOMAIN bookmarks :
          /\ bookmarks'[i].id = bookmarks[i].id
          /\ bookmarks'[i] # bookmarks[i] =>
               bookmarks[i].id = tab[t].renaming /\ bookmarks'[i].name = tab[t].value
    BY <2>2, <2>3 DEF Bookmark
  <2>5. Saved!IdsOf(bookmarks') = Saved!IdsOf(bookmarks)
    BY <2>3, <2>4 DEF Saved!IdsOf
  <2>6. \A i \in DOMAIN bookmarks, j \in DOMAIN bookmarks' :
          bookmarks[i].id = bookmarks'[j].id => i = j
    BY <2>2, <2>3, <2>4 DEF OwnIds
  <2> QED BY <2>4, <2>5, <2>6 DEF BookmarksGo
<1> QED BY <1>1, <1>2

\* A bookmark goes only from a list that a tab shows, and comes with a new id.
LEMMA BookmarksAreKept ==
  BookmarksInv /\ [Saved!BookmarksNext]_(Saved!bookmarkVars) => [BookmarksGo]_bookmarkVars
<1> SUFFICES ASSUME BookmarksInv, NEW t \in Tab, Saved!BookmarksNext!(t) PROVE BookmarksGo
  BY DEF Saved!BookmarksNext, Saved!bookmarkVars, bookmarkVars
<1>1. tab[t] \in TabOf(ids)
  BY DEF BookmarksInv
<1>2. CASE Saved!Toggle(t)
  <2>1. CASE Saved!Drawn(t) = << >>
    BY <1>2, <2>1, SavedComes DEF Saved!Toggle
  <2>2. CASE Saved!Drawn(t) # << >>
    <3> DEFINE S == {b \in Saved!Range(tab[t].list) : b.url = tab[t].path}
    <3>1. tab[t].list \in Seq(Bookmark(ids)) /\ Saved!Drawn(t) = Kept(tab[t].list, S)
      BY <1>1, OneFilter DEF TabOf, Saved!Drawn
    <3> HIDE DEF S
    <3>2. /\ Saved!Drawn(t) \in Seq(Bookmark(ids))
          /\ \A i \in DOMAIN Saved!Drawn(t) : \E j \in DOMAIN tab[t].list : tab[t].list[j] = Saved!Drawn(t)[i]
      BY <3>1, KeptFacts
    <3>3. Head(Saved!Drawn(t)) = Saved!Drawn(t)[1] /\ 1 \in DOMAIN Saved!Drawn(t)
      BY <2>2, <3>2
    <3>4. Head(Saved!Drawn(t)).id \in Saved!IdsOf(tab[t].list)
      BY <3>2, <3>3 DEF Saved!IdsOf
    <3> QED BY <1>2, <2>2, <3>4, DeletedGoes DEF Saved!Toggle
  <2> QED BY <2>1, <2>2
<1>3. CASE Saved!DeleteOne(t)
  BY <1>3, DeletedGoes DEF Saved!DeleteOne
<1>4. CASE Saved!Rename(t)
  BY <1>4, RenamedChanges
<1>5. ASSUME NEW shown, Saved!Show(t, shown) PROVE BookmarksGo
  BY <1>5, BookmarksStayPut DEF Saved!Show
<1> QED BY <1>2, <1>3, <1>4, <1>5
        DEF Saved!OpenList, Saved!ClickOutside, Saved!StartRename, Saved!CancelRename, Saved!Load,
            Saved!Navigate, Saved!Type

\* A set of at most one element counts one at most.
LEMMA AtMostOne ==
  /\ Cardinality({}) = 0 /\ \A S, e : S \subseteq {e} => Cardinality(S) <= 1
<1>1. Cardinality({}) = 0
  BY FS_EmptySet
<1>2. ASSUME NEW S, NEW e, S \subseteq {e} PROVE Cardinality(S) <= 1
  <2>1. Cardinality({e}) = 1
    BY FS_Singleton
  <2>2. S = {} \/ S = {e}
    BY <1>2
  <2> QED BY <1>1, <2>1, <2>2
<1> QED BY <1>1, <1>2

\* Counting in SavedLists is counting.
LEMMA SavedCount == \A S : Saved!Cardinality(S) = Cardinality(S)
BY DEF Saved!Cardinality, Cardinality

\* What a step does to the notes of the chart.
NotesGo ==
  /\ Saved!Cardinality(Saved!NoteIds(notes) \ Saved!NoteIds(notes')) <= 1
  /\ Saved!NoteIds(notes) \ Saved!NoteIds(notes')
       \subseteq UNION {Saved!NoteIds(noteView[t].list) : t \in Tab}
  /\ Saved!NoteIds(notes') \ Saved!NoteIds(notes) \subseteq noteCount+1..noteCount'
  /\ \A i \in DOMAIN notes, j \in DOMAIN notes' :
       notes[i].id = notes'[j].id /\ notes[i] # notes'[j] =>
         \E t \in Tab : noteView[t].modal = [on |-> TRUE, editing |-> notes[i].id,
                                             text |-> notes'[j].text, date |-> notes'[j].date]

\* A step that leaves the notes alone loses none.
LEMMA NotesStayPut == NotesInv /\ notes' = notes => NotesGo
<1> SUFFICES ASSUME NotesInv, notes' = notes PROVE NotesGo
  OBVIOUS
<1>1. Saved!NoteIds(notes) \ Saved!NoteIds(notes') = {}
  OBVIOUS
<1>2. OwnIds(notes)
  BY DEF NotesInv
<1> QED BY <1>1, <1>2, AtMostOne, SavedCount DEF NotesGo, OwnIds

\* Deleting takes one note, that the tab shows.
LEMMA DeletedNoteGoes ==
  ASSUME NotesInv, NEW t \in Tab, Saved!DeleteNote(t)
  PROVE  NotesGo
<1>1. PICK id \in Saved!NoteIds(noteView[t].list) : notes' = Saved!Without(t, id)
  BY DEF Saved!DeleteNote, Saved!Store
<1>2. notes \in Seq(NoteOf(noteCount)) /\ OwnIds(notes)
  BY DEF NotesInv
<1>3. notes' = Removed(notes, id)
  BY <1>1, OneFilter DEF Saved!Without, Saved!Range, Range, Removed
<1>4. /\ IdsIn(notes') = IdsIn(notes) \ {id}
      /\ \A i \in DOMAIN notes' : \E j \in DOMAIN notes : notes[j] = notes'[i]
  BY <1>2, <1>3, RemovedIds
<1>5. \A list : Saved!NoteIds(list) = IdsIn(list)
  BY DEF Saved!NoteIds, IdsIn
<1>6. \A i \in DOMAIN notes, j \in DOMAIN notes' :
        notes[i].id = notes'[j].id => notes[i] = notes'[j]
  BY <1>2, <1>4 DEF OwnIds
<1>7. Saved!NoteIds(notes) \ Saved!NoteIds(notes') \subseteq {id}
  BY <1>4, <1>5
<1>8. Saved!NoteIds(notes') \ Saved!NoteIds(notes) = {}
  BY <1>4, <1>5
<1> QED BY <1>1, <1>6, <1>7, <1>8, AtMostOne, SavedCount DEF NotesGo

\* Saving adds the note of the tab's window, or changes the one edited.
LEMMA SavedNoteComes ==
  ASSUME NotesInv, NEW t \in Tab, Saved!SaveNote(t)
  PROVE  NotesGo
<1> DEFINE m == noteView[t].modal
<1>1. /\ noteCount \in Nat /\ notes \in Seq(NoteOf(noteCount)) /\ OwnIds(notes)
      /\ m \in ModalOf(noteCount) /\ m.on
  BY DEF NotesInv, ViewOf, Saved!SaveNote
<1>2. \A i \in DOMAIN notes : notes[i] \in NoteOf(noteCount)
  BY <1>1
<1>3. CASE m.editing # None
  <2>1. notes' = Saved!Patched(notes, m)
    BY <1>3 DEF Saved!SaveNote, Saved!Store
  <2> HIDE DEF m
  <2>2. /\ DOMAIN notes' = DOMAIN notes
        /\ \A i \in DOMAIN notes : notes'[i] =
             IF notes[i].id = m.editing THEN [notes[i] EXCEPT !.text = m.text, !.date = m.date]
             ELSE notes[i]
    BY <2>1 DEF Saved!Patched
  <2>3. ASSUME NEW i \in DOMAIN notes
        PROVE  /\ notes'[i].id = notes[i].id
               /\ notes'[i] # notes[i] => notes[i].id = m.editing /\ notes'[i].text = m.text
                                          /\ notes'[i].date = m.date
    <3>1. notes[i] \in NoteOf(noteCount)
      BY <1>2
    <3> QED BY <2>2, <3>1 DEF NoteOf
  <2>4. Saved!NoteIds(notes') = Saved!NoteIds(notes)
    <3>1. DOMAIN notes' = DOMAIN notes /\ \A i \in DOMAIN notes : notes'[i].id = notes[i].id
      BY <2>2, <2>3
    <3>2. ASSUME NEW id PROVE id \in Saved!NoteIds(notes') <=> id \in Saved!NoteIds(notes)
      BY <3>1 DEF Saved!NoteIds
    <3> QED BY <3>2 DEF Saved!NoteIds
  <2>5. \A i \in DOMAIN notes, j \in DOMAIN notes' : notes[i].id = notes'[j].id => i = j
    BY <1>1, <2>2, <2>3 DEF OwnIds
  <2>6. m = [on |-> TRUE, editing |-> m.editing, text |-> m.text, date |-> m.date]
    BY <1>1 DEF ModalOf
  <2>7. \A i \in DOMAIN notes, j \in DOMAIN notes' :
          notes[i].id = notes'[j].id /\ notes[i] # notes'[j] =>
            m = [on |-> TRUE, editing |-> notes[i].id, text |-> notes'[j].text,
                 date |-> notes'[j].date]
    BY <2>3, <2>5, <2>6
  <2>8. Saved!NoteIds(notes) \ Saved!NoteIds(notes') = {}
        /\ Saved!NoteIds(notes') \ Saved!NoteIds(notes) = {}
    BY <2>4
  <2> USE DEF m
  <2> QED BY <2>7, <2>8, AtMostOne, SavedCount DEF NotesGo
<1>4. CASE m.editing = None
  <2> DEFINE new == [id |-> noteCount + 1, text |-> m.text, date |-> m.date]
  <2>1. notes' = Append(notes, new) /\ noteCount' = noteCount + 1
    BY <1>4 DEF Saved!SaveNote, Saved!Store
  <2>2. new.id = noteCount + 1
    OBVIOUS
  <2> HIDE DEF new, m
  <2>3. /\ DOMAIN notes' = DOMAIN notes \cup {Len(notes) + 1}
        /\ notes'[Len(notes) + 1] = new /\ \A i \in DOMAIN notes : notes'[i] = notes[i]
    BY <1>1, <2>1
  <2>4. \A i \in DOMAIN notes : notes[i].id # noteCount + 1
    BY <1>1, <1>2 DEF NoteOf
  <2>5. Saved!NoteIds(notes) \ Saved!NoteIds(notes') = {}
    BY <2>3 DEF Saved!NoteIds
  <2>6. Saved!NoteIds(notes') \ Saved!NoteIds(notes) \subseteq {noteCount + 1}
    BY <2>2, <2>3 DEF Saved!NoteIds
  <2>7. noteCount + 1 \in noteCount+1..noteCount'
    BY <1>1, <2>1
  <2>8. \A i \in DOMAIN notes, j \in DOMAIN notes' :
          notes[i].id = notes'[j].id => notes[i] = notes'[j]
    BY <1>1, <2>2, <2>3, <2>4 DEF OwnIds
  <2> QED BY <2>5, <2>6, <2>7, <2>8, AtMostOne, SavedCount DEF NotesGo
<1> QED BY <1>3, <1>4

\* A note goes one at a time, from a list that a tab shows, and changes as its window says.
LEMMA NotesAreKept ==
  NotesInv /\ [Saved!NotesNext]_(Saved!noteVars) => [NotesGo]_noteVars
<1> SUFFICES ASSUME NotesInv, NEW t \in Tab, Saved!NotesNext!(t) PROVE NotesGo
  BY DEF Saved!NotesNext, Saved!noteVars, noteVars
<1>1. ASSUME NEW v, Saved!ShowNotes(t, v) PROVE NotesGo
  BY <1>1, NotesStayPut DEF Saved!ShowNotes
<1> QED BY <1>1, SavedNoteComes, DeletedNoteGoes
        DEF Saved!LoadNotes, Saved!ClickChart, Saved!EditNote, Saved!CloseModal,
            Saved!TypeText, Saved!PickDate

-----------------------------------------------------------------------------
(* Nothing is lost: regions *)

RegionName == Name \cup {Regions!Nameless}
RegionOf == [id : Nat, name : RegionName]
MapHolds(m) == IsMap(m) /\ m.regions \in Seq(RegionOf) /\ m.edit \in RegionName
\* What a request asks for and is told; a region that was changed is told as it is now.
TellsRegions(r) ==
  /\ IsRequest(r) /\ r.answer \in Seq(RegionOf) /\ r.name \in RegionName
  /\ r.kind \in {"delete", "patch"} => r.id \in Nat
  /\ r.kind = "patch" /\ r.ok => 1 \in DOMAIN r.answer /\ r.answer[1].id = r.id
RegionsToldInv ==
  /\ born \in Nat /\ regionRows \in Seq(RegionOf)
  /\ MapHolds(map) /\ \A r \in pending : TellsRegions(r)

\* The first request and the page as it opens are of regions.
LEMMA FirstLoadTells == TellsRegions(Regions!FirstLoad) /\ MapHolds(Regions!Blank)
<1>1. << >> \in Seq(RegionOf)
  OBVIOUS
<1>2. Regions!Nameless \in RegionName
  BY DEF RegionName
<1> QED BY <1>1, <1>2 DEF TellsRegions, IsRequest, Regions!FirstLoad, MapHolds, IsMap, Regions!Blank

\* The page opens without regions, and asks for them.
LEMMA InitRegionsTold == Regions!RegionInit => RegionsToldInv
<1> SUFFICES ASSUME Regions!RegionInit PROVE RegionsToldInv
  OBVIOUS
<1>1. regionRows = << >> /\ born = 0 /\ map = Regions!Blank /\ pending = {Regions!FirstLoad}
  BY DEF Regions!RegionInit
<1>2. regionRows \in Seq(RegionOf) /\ born \in Nat
  BY <1>1
<1> QED BY <1>1, <1>2, FirstLoadTells DEF RegionsToldInv

\* Filling the name field from the region selected leaves the regions.
LEMMA RefilledHolds ==
  ASSUME NEW m, IsMap(m), m.regions \in Seq(RegionOf)
  PROVE  MapHolds(Regions!Refilled(m)) /\ Regions!Refilled(m).regions = m.regions
<1> DEFINE e == IF m.selected \in Regions!RegionIds(m.regions)
                THEN Regions!NameOf(m.regions, m.selected) ELSE Regions!Nameless
<1>1. ASSUME m.selected \in Regions!RegionIds(m.regions)
      PROVE  Regions!NameOf(m.regions, m.selected) \in RegionName
  <2>1. PICK i \in DOMAIN m.regions : m.regions[i].id = m.selected
    BY <1>1 DEF Regions!RegionIds
  <2>2. m.regions[i] \in Regions!Range(m.regions)
    BY DEF Regions!Range
  <2>3. \A r \in Regions!Range(m.regions) : r \in RegionOf
    BY DEF Regions!Range
  <2> DEFINE c == CHOOSE r \in Regions!Range(m.regions) : r.id = m.selected
  <2>4. c \in Regions!Range(m.regions)
    BY <2>1, <2>2
  <2> HIDE DEF c
  <2>5. c.name \in RegionName
    BY <2>3, <2>4 DEF RegionOf
  <2> QED BY <2>5 DEF c, Regions!NameOf
<1>2. e \in RegionName
  BY <1>1 DEF RegionName
<1>3. Regions!Refilled(m) = [m EXCEPT !.edit = e]
  BY DEF Regions!Refilled
<1> HIDE DEF e
<1> QED BY <1>2, <1>3 DEF MapHolds, IsMap

\* Dropping an id leaves the other regions.
LEMMA DroppedRegions ==
  ASSUME NEW list \in Seq(RegionOf), NEW id
  PROVE  Regions!Dropped(list, id) \in Seq(RegionOf)
         /\ Regions!RegionIds(Regions!Dropped(list, id)) = Regions!RegionIds(list) \ {id}
<1>1. Regions!Dropped(list, id) = Removed(list, id)
  BY OneFilter DEF Regions!Dropped, Removed, Regions!Range, Range
<1>2. \A l : Regions!RegionIds(l) = IdsIn(l)
  BY DEF Regions!RegionIds, IdsIn
<1> QED BY <1>1, <1>2, RemovedIds

\* Renaming a region leaves every id.
LEMMA RenamedRegions ==
  ASSUME NEW list \in Seq(RegionOf), NEW id, NEW r \in RegionOf, r.id = id
  PROVE  Regions!Renamed(list, id, r) \in Seq(RegionOf)
         /\ Regions!RegionIds(Regions!Renamed(list, id, r)) = Regions!RegionIds(list)
<1> DEFINE new == Regions!Renamed(list, id, r)
<1>1. /\ DOMAIN new = DOMAIN list
      /\ \A i \in DOMAIN list : new[i] = IF list[i].id = id THEN r ELSE list[i]
  BY DEF Regions!Renamed
<1>2. new = [i \in 1..Len(list) |-> new[i]] /\ Len(list) \in Nat /\ DOMAIN list = 1..Len(list)
  BY DEF Regions!Renamed
<1> HIDE DEF new
<1>3. \A i \in DOMAIN list : new[i] \in RegionOf /\ new[i].id = list[i].id
  BY <1>1
<1>4. new \in Seq(RegionOf)
  BY <1>2, <1>3
<1>5. Regions!RegionIds(new) = Regions!RegionIds(list)
  BY <1>1, <1>3 DEF Regions!RegionIds
<1> QED BY <1>4, <1>5 DEF new

\* A list begins the list joined to another.
LEMMA JoinedFront ==
  ASSUME NEW A, NEW s \in Seq(A), NEW u \in Seq(A)
  PROVE  /\ s \o u \in Seq(A) /\ DOMAIN s \subseteq DOMAIN (s \o u)
         /\ \A i \in DOMAIN s : (s \o u)[i] = s[i]
<1>1. /\ s \o u \in Seq(A) /\ Len(s \o u) = Len(s) + Len(u)
      /\ \A i \in 1..(Len(s) + Len(u)) : (s \o u)[i] = IF i <= Len(s) THEN s[i] ELSE u[i - Len(s)]
  BY ConcatProperties
<1>2. Len(s) \in Nat /\ Len(u) \in Nat /\ DOMAIN s = 1..Len(s) /\ DOMAIN (s \o u) = 1..Len(s \o u)
  BY <1>1
<1> QED BY <1>1, <1>2

\* What an answer makes of the map: a load replaces its regions, a deletion takes the one
\* it asked for, and the others take none.
LEMMA ShownHolds ==
  ASSUME MapHolds(map), NEW r, TellsRegions(r), r.ok
  PROVE  LET m == Regions!Shown(r)
         IN  /\ IsMap(m) /\ m.regions \in Seq(RegionOf)
             /\ r.kind = "load"
                \/ \A id \in Regions!RegionIds(map.regions) \ Regions!RegionIds(m.regions) :
                     r.kind = "delete" /\ r.id = id
<1>1. /\ IsMap(map) /\ map.regions \in Seq(RegionOf) /\ r.answer \in Seq(RegionOf)
      /\ IsRequest(r) /\ IsMap(Regions!Shown(r))
  BY ShownIsMap DEF MapHolds, TellsRegions
<1>2. CASE r.kind = "load"
  <2>1. Regions!Shown(r).regions = r.answer
    BY <1>1, <1>2 DEF Regions!Shown, IsMap
  <2> QED BY <1>1, <1>2, <2>1
<1>3. CASE r.kind = "create"
  <2>1. Regions!Shown(r).regions = map.regions \o r.answer
    BY <1>1, <1>3 DEF Regions!Shown, IsMap
  <2>2. /\ map.regions \o r.answer \in Seq(RegionOf)
        /\ DOMAIN map.regions \subseteq DOMAIN (map.regions \o r.answer)
        /\ \A i \in DOMAIN map.regions : (map.regions \o r.answer)[i] = map.regions[i]
    BY <1>1, JoinedFront
  <2>3. Regions!RegionIds(map.regions) \subseteq Regions!RegionIds(map.regions \o r.answer)
    <3> DEFINE all == map.regions \o r.answer
    <3>1. DOMAIN map.regions \subseteq DOMAIN all /\ \A i \in DOMAIN map.regions : all[i] = map.regions[i]
      BY <2>2
    <3> HIDE DEF all
    <3>2. Regions!RegionIds(map.regions) \subseteq Regions!RegionIds(all)
      BY <3>1 DEF Regions!RegionIds
    <3> QED BY <3>2 DEF all
  <2> QED BY <1>1, <2>1, <2>2, <2>3
<1>4. CASE r.kind = "delete"
  <2>1. Regions!Shown(r).regions = Regions!Dropped(map.regions, r.id)
    BY <1>1, <1>4 DEF Regions!Shown, IsMap
  <2> QED BY <1>1, <1>4, <2>1, DroppedRegions
<1>5. CASE r.kind = "patch"
  <2>1. Regions!Shown(r).regions = Regions!Renamed(map.regions, r.id, r.answer[1])
    BY <1>1, <1>5 DEF Regions!Shown, IsMap
  <2>2. r.answer[1] \in RegionOf /\ r.answer[1].id = r.id
    BY <1>1, <1>5 DEF TellsRegions
  <2> QED BY <1>1, <2>1, <2>2, RenamedRegions
<1> QED BY <1>1, <1>2, <1>3, <1>4, <1>5 DEF IsRequest

\* What the server tells is of regions, and a changed region is told with its id.
LEMMA ServeTells == RegionsToldInv /\ Regions!Serve => RegionsToldInv'
<1> SUFFICES ASSUME RegionsToldInv, Regions!Serve PROVE RegionsToldInv'
  OBVIOUS
<1>1. PICK r \in pending :
        CASE r.kind = "load" -> Regions!ServeLoad(r)
          [] r.kind = "create" -> Regions!ServeCreate(r)
          [] r.kind = "delete" -> Regions!ServeDelete(r)
          [] r.kind = "patch" -> Regions!ServePatch(r)
  BY DEF Regions!Serve
<1>2. /\ TellsRegions(r) /\ IsRequest(r) /\ born \in Nat /\ regionRows \in Seq(RegionOf)
      /\ MapHolds(map) /\ \A q \in pending : TellsRegions(q)
  BY DEF RegionsToldInv, TellsRegions
<1>3. ASSUME NEW ok, NEW told \in Seq(RegionOf), Regions!Settled(r, ok, told),
             r.kind = "patch" /\ ok => 1 \in DOMAIN told /\ told[1].id = r.id,
             born' \in Nat, regionRows' \in Seq(RegionOf)
      PROVE  RegionsToldInv'
  <2> DEFINE q == [r EXCEPT !.served = TRUE, !.ok = ok, !.answer = told]
  <2>1. IsRequest(q)
    BY <1>2, AnsweredIsRequest
  <2>2. q.answer = told /\ q.ok = ok /\ q.kind = r.kind /\ q.id = r.id /\ q.name = r.name
    BY <1>2 DEF IsRequest
  <2> HIDE DEF q
  <2>3. TellsRegions(q)
    BY <1>2, <1>3, <2>1, <2>2 DEF TellsRegions
  <2>4. pending' = (pending \ {r}) \cup {q} /\ map' = map
    BY <1>3 DEF Regions!Settled, q
  <2> QED BY <1>2, <1>3, <2>3, <2>4 DEF RegionsToldInv
<1>4. CASE r.kind = "load"
  BY <1>1, <1>2, <1>3, <1>4 DEF Regions!ServeLoad
<1>5. CASE r.kind = "create"
  <2> DEFINE new == [id |-> born', name |-> r.name]
  <2>1. /\ born' = born + 1 /\ regionRows' = Append(regionRows, new)
        /\ Regions!Settled(r, TRUE, <<new>>)
    BY <1>1, <1>5 DEF Regions!ServeCreate
  <2>2. new \in RegionOf
    BY <1>2, <2>1 DEF RegionOf, TellsRegions
  <2> HIDE DEF new
  <2>3. <<new>> \in Seq(RegionOf) /\ regionRows' \in Seq(RegionOf)
    BY <1>2, <2>1, <2>2
  <2>4. born' \in Nat /\ r.kind # "patch"
    BY <1>2, <1>5, <2>1
  <2> QED BY <1>3, <2>1, <2>3, <2>4
<1>6. CASE r.kind = "delete"
  <2>1. /\ regionRows' = Regions!Dropped(regionRows, r.id) /\ born' = born
        /\ \E ok : Regions!Settled(r, ok, << >>)
    BY <1>1, <1>6 DEF Regions!ServeDelete
  <2>2. << >> \in Seq(RegionOf)
    OBVIOUS
  <2> QED BY <1>2, <1>3, <1>6, <2>1, <2>2, DroppedRegions
<1>7. CASE r.kind = "patch"
  <2> DEFINE new == [id |-> r.id, name |-> r.name]
             ok == r.name # Regions!Nameless /\ r.id \in Regions!RegionIds(regionRows)
  <2>1. /\ regionRows' = (IF ok THEN Regions!Renamed(regionRows, r.id, new) ELSE regionRows)
        /\ born' = born /\ Regions!Settled(r, ok, <<new>>)
    BY <1>1, <1>7 DEF Regions!ServePatch
  <2>2. new \in RegionOf /\ new.id = r.id
    BY <1>2, <1>7 DEF RegionOf, TellsRegions
  <2> HIDE DEF new, ok
  <2>3. regionRows' \in Seq(RegionOf)
    BY <1>2, <2>1, <2>2, RenamedRegions
  <2>4. <<new>> \in Seq(RegionOf) /\ 1 \in DOMAIN <<new>> /\ <<new>>[1].id = r.id
    BY <2>2
  <2> QED BY <1>2, <1>3, <2>1, <2>3, <2>4
<1> QED BY <1>2, <1>4, <1>5, <1>6, <1>7 DEF IsRequest

\* What a step does to the regions that the map shows.
RegionsGo ==
  \A id \in Regions!RegionIds(map.regions) \ Regions!RegionIds(map'.regions) :
    \/ \E r \in pending : r.kind = "delete" /\ r.id = id /\ r.ok
    \/ \E r \in pending \ pending' : r.kind = "load"
    \/ map' = Regions!Blank

\* A region leaves the map by its own deletion, an answered load or a reopened page.
LEMMA StepRegionsTold ==
  RegionsToldInv /\ [Regions!RegionNext]_(Regions!regionVars) => RegionsToldInv' /\ [RegionsGo]_regionVars
<1> SUFFICES ASSUME RegionsToldInv, [Regions!RegionNext]_(Regions!regionVars)
             PROVE  RegionsToldInv' /\ [RegionsGo]_regionVars
  OBVIOUS
<1>0. /\ born \in Nat /\ regionRows \in Seq(RegionOf) /\ MapHolds(map) /\ IsMap(map)
      /\ map.regions \in Seq(RegionOf) /\ map.edit \in RegionName
      /\ \A r \in pending : TellsRegions(r)
  BY DEF RegionsToldInv, MapHolds
<1>1. ASSUME NEW m, MapHolds(m), m.regions = map.regions, Regions!Click(m)
      PROVE  RegionsToldInv' /\ RegionsGo
  BY <1>0, <1>1 DEF Regions!Click, RegionsToldInv, RegionsGo
<1>2. CASE Regions!StartDrawing \/ Regions!AddPoint \/ Regions!CancelDrawing
  <2>1. ASSUME NEW points, NEW drawing,
               Regions!Click([map EXCEPT !.points = points, !.drawing = drawing])
        PROVE  RegionsToldInv' /\ RegionsGo
    <3> DEFINE m == [map EXCEPT !.points = points, !.drawing = drawing]
    <3>1. ASSUME NEW q, MapHolds(q), NEW v
          PROVE  MapHolds([q EXCEPT !.points = v]) /\ [q EXCEPT !.points = v].regions = q.regions
      BY <3>1 DEF IsMap, MapHolds
    <3>2. ASSUME NEW q, MapHolds(q), NEW v
          PROVE  MapHolds([q EXCEPT !.drawing = v]) /\ [q EXCEPT !.drawing = v].regions = q.regions
      BY <3>2 DEF IsMap, MapHolds
    <3>3. MapHolds([map EXCEPT !.points = points]) /\ [map EXCEPT !.points = points].regions = map.regions
      BY <1>0, <3>1
    <3>4. MapHolds(m) /\ m.regions = map.regions
      BY <3>2, <3>3
    <3> QED BY <1>1, <2>1, <3>4
  <2>2. /\ [map EXCEPT !.drawing = TRUE, !.points = 0] = [map EXCEPT !.points = 0, !.drawing = TRUE]
        /\ [map EXCEPT !.drawing = FALSE, !.points = 0] = [map EXCEPT !.points = 0, !.drawing = FALSE]
        /\ [map EXCEPT !.points = map.points + 1]
             = [map EXCEPT !.points = map.points + 1, !.drawing = map.drawing]
    BY <1>0 DEF IsMap
  <2> QED BY <1>2, <2>1, <2>2 DEF Regions!StartDrawing, Regions!AddPoint, Regions!CancelDrawing
<1>3. ASSUME NEW id, Regions!Select(id) PROVE RegionsToldInv' /\ RegionsGo
  <2> DEFINE m == [map EXCEPT !.selected = id]
  <2>1. IsMap(m) /\ m.regions = map.regions
    BY <1>0 DEF IsMap
  <2>2. CASE id = map.selected
    BY <1>0, <1>1, <1>3, <2>2 DEF Regions!Select
  <2>3. CASE id # map.selected
    <3> HIDE DEF m
    <3>1. MapHolds(Regions!Refilled(m)) /\ Regions!Refilled(m).regions = map.regions
      BY <1>0, <2>1, RefilledHolds
    <3> QED BY <1>1, <1>3, <2>3, <3>1 DEF Regions!Select, m
  <2> QED BY <2>2, <2>3
<1>4. ASSUME NEW name \in RegionName, Regions!TypeName(name) PROVE RegionsToldInv' /\ RegionsGo
  <2> DEFINE m == [map EXCEPT !.edit = name]
  <2>1. MapHolds(m) /\ m.regions = map.regions
    BY <1>0, <1>4 DEF IsMap, MapHolds
  <2> QED BY <1>1, <1>4, <2>1 DEF Regions!TypeName
<1>5. ASSUME NEW kind \in {"create", "delete", "patch"}, NEW id, NEW name \in RegionName,
             kind \in {"delete", "patch"} => id \in Nat,
             Regions!Send(Regions!Request(kind, id, name))
      PROVE  RegionsToldInv' /\ RegionsGo
  <2> DEFINE q == Regions!Request(kind, id, name)
  <2>1. /\ IsRequest(q) /\ q.answer = << >> /\ q.name = name /\ q.kind = kind /\ q.id = id
        /\ q.ok = FALSE
    BY DEF IsRequest, Regions!Request
  <2> HIDE DEF q
  <2>2. << >> \in Seq(RegionOf)
    OBVIOUS
  <2>3. TellsRegions(q)
    BY <1>5, <2>1, <2>2 DEF TellsRegions
  <2>4. pending' = pending \cup {q} /\ map' = map /\ born' = born /\ regionRows' = regionRows
    BY <1>5 DEF Regions!Send, q
  <2> QED BY <1>0, <2>3, <2>4 DEF RegionsToldInv, RegionsGo
<1>6. CASE Regions!Mount
  BY <1>0, <1>6, FirstLoadTells DEF Regions!Mount, RegionsToldInv, RegionsGo
<1>7. CASE Regions!Lose
  <2>1. PICK r \in pending :
          /\ pending' = pending \ {r} /\ born' = born /\ regionRows' = regionRows
          /\ map' = IF r.kind = "load" THEN Regions!Refilled([map EXCEPT !.regions = << >>]) ELSE map
    BY <1>7 DEF Regions!Lose
  <2>2. IsMap([map EXCEPT !.regions = << >>]) /\ [map EXCEPT !.regions = << >>].regions \in Seq(RegionOf)
    BY <1>0 DEF IsMap
  <2>3. MapHolds(map')
    BY <1>0, <2>1, <2>2, RefilledHolds
  <2>4. map' = map \/ (r \in pending \ pending' /\ r.kind = "load")
    BY <2>1
  <2> QED BY <1>0, <2>1, <2>3, <2>4 DEF RegionsToldInv, RegionsGo
<1>8. CASE Regions!Answer
  <2>1. PICK r \in pending :
          /\ pending' = pending \ {r} /\ born' = born /\ regionRows' = regionRows
          /\ map' = IF r.ok THEN Regions!Refilled(Regions!Shown(r)) ELSE map
    BY <1>8 DEF Regions!Answer
  <2>2. CASE r.ok
    <3> DEFINE m == Regions!Shown(r)
    <3>1. /\ IsMap(m) /\ m.regions \in Seq(RegionOf)
          /\ r.kind = "load"
             \/ \A id \in Regions!RegionIds(map.regions) \ Regions!RegionIds(m.regions) :
                  r.kind = "delete" /\ r.id = id
      BY <1>0, <2>2, ShownHolds
    <3>2. map' = Regions!Refilled(m)
      BY <2>1, <2>2
    <3> HIDE DEF m
    <3>3. MapHolds(map') /\ map'.regions = m.regions
      BY <3>1, <3>2, RefilledHolds
    <3>4. RegionsGo
      BY <2>1, <2>2, <3>1, <3>3 DEF RegionsGo
    <3> QED BY <1>0, <2>1, <3>3, <3>4 DEF RegionsToldInv
  <2>3. CASE ~r.ok
    BY <1>0, <2>1, <2>3 DEF RegionsToldInv, RegionsGo
  <2> QED BY <2>2, <2>3
<1>9. CASE UNCHANGED Regions!regionVars
  BY <1>0, <1>9 DEF Regions!regionVars, regionVars, RegionsToldInv
<1>10. CASE Regions!SelectShape \/ Regions!ToggleEntry
  BY <1>3, <1>10 DEF Regions!SelectShape, Regions!ToggleEntry
<1>11. CASE Regions!ClosePolygon \/ Regions!DeleteRegion \/ Regions!UpdateRegion
  <2>1. ASSUME NEW id \in Regions!RegionIds(map.regions) PROVE id \in Nat
    <3>1. PICK i \in DOMAIN map.regions : map.regions[i].id = id
      BY DEF Regions!RegionIds
    <3>2. map.regions[i] \in RegionOf
      BY <1>0
    <3> QED BY <3>1, <3>2 DEF RegionOf
  <2>2. Regions!Nameless \in RegionName /\ Name \subseteq RegionName
    BY DEF RegionName
  <2> QED BY <1>0, <1>5, <1>11, <2>1, <2>2
          DEF Regions!ClosePolygon, Regions!DeleteRegion, Regions!UpdateRegion
<1>12. CASE Regions!Serve
  <2>1. map' = map
    <3>1. PICK r \in pending :
            CASE r.kind = "load" -> Regions!ServeLoad(r)
              [] r.kind = "create" -> Regions!ServeCreate(r)
              [] r.kind = "delete" -> Regions!ServeDelete(r)
              [] r.kind = "patch" -> Regions!ServePatch(r)
      BY <1>12 DEF Regions!Serve
    <3>2. IsRequest(r)
      BY <1>0 DEF TellsRegions
    <3>3. Regions!ServeLoad(r) \/ Regions!ServeCreate(r) \/ Regions!ServeDelete(r)
          \/ Regions!ServePatch(r)
      BY <3>1, <3>2 DEF IsRequest
    <3> QED BY <3>3 DEF Regions!ServeLoad, Regions!ServeCreate, Regions!ServeDelete,
               Regions!ServePatch, Regions!Settled
  <2> QED BY <1>12, <2>1, ServeTells DEF RegionsGo
<1> QED BY <1>2, <1>4, <1>6, <1>7, <1>8, <1>9, <1>10, <1>11, <1>12 DEF Regions!RegionNext, RegionName

-----------------------------------------------------------------------------
(* Nothing is lost: pins, pages of the pager, winners *)

\* What a step does to the pins on the map.
PinsGo ==
  \A i \in DOMAIN pins : (\A j \in DOMAIN pins' : pins'[j].id # pins[i].id) =>
    pins[i].status = "pending" /\ post # None /\ post.id = pins[i].id /\ post.stage = "failed"

\* A pin goes when its post has failed, and no other goes with it.
LEMMA PinsAreKept == MapInv /\ [GistMap!MapNext]_(GistMap!mapVars) => [PinsGo]_mapVars
<1> SUFFICES ASSUME MapInv, GistMap!MapNext PROVE PinsGo
  BY DEF GistMap!mapVars, mapVars
<1>1. pins \in Seq(PinOf(sent)) /\ OwnIds(pins)
  BY DEF MapInv
<1>2. \A i \in DOMAIN pins : pins[i] \in PinOf(sent)
  BY <1>1
<1>3. CASE pins' = pins
  BY <1>3 DEF PinsGo
<1>4. CASE GistMap!Submit
  <2> DEFINE new == [id |-> sent', status |-> "pending", at |-> here]
  <2>1. pins' = Append(pins, new)
    BY <1>4 DEF GistMap!Submit
  <2> HIDE DEF new
  <2>2. DOMAIN pins \subseteq DOMAIN pins' /\ \A i \in DOMAIN pins : pins'[i] = pins[i]
    BY <1>1, <2>1
  <2> QED BY <2>2 DEF PinsGo
<1>5. CASE GistMap!Succeed
  <2>1. /\ DOMAIN pins' = DOMAIN pins
        /\ \A i \in DOMAIN pins : pins'[i] =
             IF pins[i].id = post.id THEN [pins[i] EXCEPT !.status = "delivered"] ELSE pins[i]
    BY <1>5 DEF GistMap!Succeed, GistMap!Finish
  <2>2. \A i \in DOMAIN pins : pins'[i].id = pins[i].id
    BY <1>2, <2>1 DEF PinOf
  <2> QED BY <2>1, <2>2 DEF PinsGo
<1>6. CASE GistMap!FailPost
  <2>1. pins' = Removed(pins, post.id) /\ post # None /\ post.stage = "failed"
    BY <1>6, OneFilter DEF GistMap!FailPost, GistMap!Finish, GistMap!WithoutPin, GistMap!Range,
         Range, Removed
  <2>2. IdsIn(pins') = IdsIn(pins) \ {post.id}
    BY <1>1, <2>1, RemovedIds
  <2>3. ASSUME NEW i \in DOMAIN pins, \A j \in DOMAIN pins' : pins'[j].id # pins[i].id
        PROVE  pins[i].id = post.id
    BY <2>2, <2>3 DEF IdsIn
  <2>4. OnePending
    BY <2>1 DEF MapInv
  <2>5. \A i \in DOMAIN pins : pins[i].id = post.id => pins[i].status = "pending"
    BY <1>1, <2>4 DEF OnePending, OwnIds
  <2> QED BY <2>1, <2>3, <2>5 DEF PinsGo
<1> QED BY <1>3, <1>4, <1>5, <1>6
        DEF GistMap!MapNext, GistMap!Locate, GistMap!OpenModal, GistMap!CloseModal,
            GistMap!OnlyModal, GistMap!BackendStores, GistMap!BackendRefuses, GistMap!AnswerLost,
            GistMap!Stage, GistMap!ToastExpires, GistMap!TypeContent

\* The table may come to have fewer pages than the one shown.
PagerInv == pager \in [page : Int, total : Nat \ {0}]
PagerGoes == pager.page' # pager.page => pager.page' \in 1..pager.total

\* The pager opens on its first page.
LEMMA InitPager == Components!KitInit => PagerInv
<1> SUFFICES ASSUME Components!KitInit PROVE PagerInv
  OBVIOUS
<1>1. PICK n \in 1..MaxPages : pager = [page |-> 1, total |-> n]
  BY Zenon DEF Components!KitInit
<1> QED BY <1>1 DEF PagerInv

\* The pager turns to a page of the table, whichever page it was on.
LEMMA StepPager ==
  PagerInv /\ [Components!PagerNext]_pager => PagerInv' /\ [PagerGoes]_pager
<1> SUFFICES ASSUME PagerInv, Components!PagerNext PROVE PagerInv' /\ PagerGoes
  BY DEF PagerInv
<1>1. pager.page \in Int /\ pager.total \in Nat \ {0}
  BY DEF PagerInv
<1>2. ASSUME NEW p \in 1..pager.total, Components!OnlyPager([pager EXCEPT !.page = p])
      PROVE  PagerInv' /\ PagerGoes
  BY <1>2 DEF Components!OnlyPager, PagerInv, PagerGoes
<1>3. \A v \in Int : Components!Clamp(v, 1, pager.total) \in 1..pager.total
  BY <1>1 DEF Components!Clamp, Components!Smaller, Components!Larger
<1>4. CASE Components!PagePrevious \/ Components!PageFollowing
  BY <1>1, <1>2, <1>3, <1>4 DEF Components!PagePrevious, Components!PageFollowing
<1>5. CASE Components!PageNumber
  <2> DEFINE numbers == Components!PageNumbers(pager.page, pager.total)
  <2>1. PICK p \in Components!Range(numbers) \ {Components!Gap} :
          Components!OnlyPager([pager EXCEPT !.page = p])
    BY <1>5 DEF Components!PageNumber
  <2> DEFINE current == pager.page
             total == pager.total
  <2>2. current \in Int /\ total \in Nat \ {0}
    BY <1>1
  <2>3. \A i \in DOMAIN numbers : numbers[i] # 0 => numbers[i] \in 1..total
    <3>1. CASE total <= 7
      BY <2>2, <3>1 DEF Components!PageNumbers
    <3>2. CASE total > 7 /\ current <= 4
      <4>1. numbers = <<1, 2, 3, 4, 5, 0, total>>
        BY <2>2, <3>2 DEF Components!PageNumbers, Components!Gap
      <4> HIDE DEF current, total, numbers
      <4> QED BY <2>2, <3>2, <4>1
    <3>3. CASE total > 7 /\ current > 4 /\ current >= total - 3
      <4>1. numbers = <<1, 0, total - 4, total - 3, total - 2, total - 1, total>>
        BY <2>2, <3>3 DEF Components!PageNumbers, Components!Gap
      <4> HIDE DEF current, total, numbers
      <4> QED BY <2>2, <3>3, <4>1
    <3>4. CASE total > 7 /\ current > 4 /\ current < total - 3
      <4>1. numbers = <<1, 0, current - 1, current, current + 1, 0, total>>
        BY <2>2, <3>4 DEF Components!PageNumbers, Components!Gap
      <4> HIDE DEF current, total, numbers
      <4> QED BY <2>2, <3>4, <4>1
    <3> QED BY <2>2, <3>1, <3>2, <3>3, <3>4
  <2>4. p \in 1..pager.total
    BY <2>1, <2>3 DEF Components!Range, Components!Gap
  <2> QED BY <1>2, <2>1, <2>4
<1>6. CASE Components!PageSize
  <2>1. PICK n \in 1..MaxPages : pager' = [pager EXCEPT !.total = n]
    BY <1>6 DEF Components!PageSize, Components!OnlyPager
  <2> QED BY <2>1 DEF PagerInv, PagerGoes
<1> QED BY <1>4, <1>5, <1>6 DEF Components!PagerNext

\* A test has two variants, each with visitors some of whom converted.
Tried == [visitors : Nat, conversions : Nat]
TestOf == [status : {"active", "completed"}, winner : {None, "A", "B"}, variants : [1..2 -> Tried]]
TestsInv == \A i \in DOMAIN experiments : experiments[i] \in TestOf

\* The tests shown first are counted, the first without a winner.
LEMMA InitTests ==
  Tests!ExperimentsInit \/ experiments = << >> => TestsInv
<1> SUFFICES ASSUME Tests!ExperimentsInit PROVE TestsInv
  BY DEF TestsInv
<1>1. PICK v, w \in [1..2 -> Tests!Variant] :
        experiments = <<[status |-> "active", winner |-> None, variants |-> v],
                        [status |-> "completed", winner |-> "B", variants |-> w]>>
  BY DEF Tests!ExperimentsInit
<1>2. Tests!Variant \subseteq Tried
  <2>1. Visitors \subseteq Nat
    BY BrowserConstants DEF BrowserConstants
  <2> QED BY <2>1 DEF Tests!Variant, Tried
<1> QED BY <1>1, <1>2 DEF TestsInv, TestOf

TestsGo ==
  \A i \in DOMAIN experiments :
    \/ experiments'[i] = experiments[i]
    \/ /\ experiments[i].winner = None
       /\ Tests!Leading(experiments[i].variants[1], experiments[i].variants[2])
          # Tests!Leading(experiments[i].variants[2], experiments[i].variants[1])

\* Where the statistic says that rates differ, one of them is the higher.
LEMMA SignificantDiffers ==
  ASSUME NEW a \in Tried, NEW b \in Tried, Tests!Significant(a, b)
  PROVE  Tests!Leading(a, b) # Tests!Leading(b, a)
<1> DEFINE x == a.conversions * b.visitors
           y == b.conversions * a.visitors
           n == a.visitors + b.visitors
           both == a.visitors * b.visitors
           won == a.conversions + b.conversions
           den == both * won * (n - won)
           num == n * (x - y) * (x - y)
<1>1. /\ a.visitors \in Nat /\ b.visitors \in Nat /\ a.conversions \in Nat /\ b.conversions \in Nat
  BY DEF Tried
<1>2. x \in Nat /\ y \in Nat /\ n \in Nat /\ both \in Nat /\ won \in Nat
  BY <1>1
<1>3. den > 0 /\ num * 1000 > 1957 * den
  BY DEF Tests!Significant, Tests!Above, Tests!Chi2
<1>4. b.conversions * a.visitors = y /\ a.conversions * b.visitors = x
  OBVIOUS
<1>5. both = 0 <=> a.visitors = 0 \/ b.visitors = 0
  BY <1>1
<1> HIDE DEF x, y, n, both, won
<1>6. both # 0
  BY <1>2, <1>3
<1>7. x # y
  BY <1>2, <1>3
<1>8. x > y \/ y > x
  BY <1>2, <1>7
<1>9. a.visitors > 0 /\ b.visitors > 0
  BY <1>1, <1>5, <1>6
<1> QED BY <1>2, <1>4, <1>8, <1>9 DEF Tests!Leading

\* A winner is declared once, on a difference one way and not the other.
LEMMA StepTests == TestsInv /\ [Tests!DeclareWinner]_experiments => TestsInv' /\ [TestsGo]_experiments
<1> SUFFICES ASSUME TestsInv, Tests!DeclareWinner PROVE TestsInv' /\ TestsGo
  BY DEF TestsInv
<1>1. PICK i \in DOMAIN experiments, s \in Tests!Side :
        /\ Tests!Declarable(experiments[i])
        /\ experiments' = [experiments EXCEPT ![i].winner = s, ![i].status = "completed"]
  BY DEF Tests!DeclareWinner
<1>2. /\ DOMAIN experiments' = DOMAIN experiments
      /\ experiments'[i] = [experiments[i] EXCEPT !.winner = s, !.status = "completed"]
      /\ \A j \in DOMAIN experiments : j # i => experiments'[j] = experiments[j]
  BY <1>1
<1>3. experiments[i] \in TestOf
  BY DEF TestsInv
<1>4. experiments'[i] \in TestOf
  BY <1>2, <1>3 DEF TestOf, Tests!Side
<1>5. experiments[i].winner = None
      /\ Tests!Significant(experiments[i].variants[1], experiments[i].variants[2])
  BY <1>1 DEF Tests!Declarable
<1>6. experiments[i].variants[1] \in Tried /\ experiments[i].variants[2] \in Tried
  BY <1>3 DEF TestOf
<1> QED BY <1>2, <1>4, <1>5, <1>6, SignificantDiffers DEF TestsInv, TestsGo

-----------------------------------------------------------------------------
(* Nothing is lost: widgets *)

Widget == [i : WidgetType \X Nat, y : {"infinity", "null", "placed"}]

\* The canvas and the stored one, which is there from the first effect on, are
\* lists of widgets.
CanvasInv == canvas \in Seq(Widget) /\ saved \in Seq(Widget)

\* What BrowserConstants says of widgets.
LEMMA WidgetLists ==
  DefaultTypes \in Seq(WidgetType) /\ SharedLink \subseteq Seq(Widget) /\ None \notin Seq(Widget)
BY BrowserConstants DEF BrowserConstants, Widget

\* The default canvas and an encoded one are lists of widgets.
LEMMA CanvasesAreLists ==
  /\ Report!FirstCanvas \in Seq(Widget)
  /\ \A list \in Seq(Widget) : Report!Encoded(list) \in Seq(Widget)
<1>1. Report!FirstCanvas \in Seq(Widget)
  <2>1. ASSUME NEW n \in DOMAIN DefaultTypes PROVE Report!Created(DefaultTypes[n], n - 1) \in Widget
    BY WidgetLists DEF Report!Created, Widget
  <2> QED BY <2>1, WidgetLists DEF Report!FirstCanvas
<1>2. ASSUME NEW list \in Seq(Widget) PROVE Report!Encoded(list) \in Seq(Widget)
  <2> DEFINE e(n) == IF list[n].y = "infinity" THEN [list[n] EXCEPT !.y = "null"] ELSE list[n]
  <2>1. \A n \in 1..Len(list) : e(n) \in Widget
    <3>1. \A n \in 1..Len(list) : list[n] \in Widget
      OBVIOUS
    <3> QED BY <3>1 DEF Widget
  <2>2. Report!Encoded(list) = [n \in 1..Len(list) |-> e(n)]
    BY DEF Report!Encoded
  <2> HIDE DEF e
  <2> QED BY <2>1, <2>2
<1> QED BY <1>1, <1>2

\* The builder opens on lists of widgets.
LEMMA InitCanvas == Report!ReportInit => CanvasInv
BY CanvasesAreLists DEF Report!ReportInit, CanvasInv

\* What a step does to the widgets.
WidgetsGo ==
  \/ Report!Cardinality(Report!WidgetIds(canvas) \ Report!WidgetIds(canvas')) <= 1
  \/ canvas' \in SharedLink \/ canvas' = saved

\* One name gone is at most one widget.
LEMMA FewGo ==
  ASSUME NEW id, Report!WidgetIds(canvas) \ Report!WidgetIds(canvas') \subseteq {id}
  PROVE  WidgetsGo
<1>1. \A S : Report!Cardinality(S) = Cardinality(S)
  BY DEF Report!Cardinality, Cardinality
<1> QED BY <1>1, AtMostOne DEF WidgetsGo

Unplaced(s, id) == Kept(s, {w \in Report!Range(s) : w.i # id})

\* Every widget that goes has the name removed.
LEMMA UnplacedIds ==
  ASSUME NEW s \in Seq(Widget), NEW id
  PROVE  /\ Unplaced(s, id) \in Seq(Widget)
         /\ Report!WidgetIds(s) \ Report!WidgetIds(Unplaced(s, id)) \subseteq {id}
<1> DEFINE S == {w \in Report!Range(s) : w.i # id}
           left == Kept(s, S)
<1>1. \A n \in DOMAIN s : s[n].i # id => s[n] \in S
  BY DEF Report!Range
<1> HIDE DEF S
<1>2. /\ left \in Seq(Widget)
      /\ \A n \in DOMAIN s : s[n] \in S => \E k \in DOMAIN left : left[k] = s[n]
  BY KeptFacts
<1> HIDE DEF left
<1>3. Report!WidgetIds(s) \ Report!WidgetIds(left) \subseteq {id}
  <2>1. ASSUME NEW n \in DOMAIN s, s[n].i # id PROVE s[n].i \in Report!WidgetIds(left)
    BY <1>1, <1>2, <2>1 DEF Report!WidgetIds
  <2> QED BY <2>1 DEF Report!WidgetIds
<1> QED BY <1>2, <1>3 DEF left, S, Unplaced

\* Drawing the canvas leaves the names of its widgets.
LEMMA DrawnKeeps ==
  ASSUME CanvasInv, NEW list \in Seq(Widget), Report!Drawn(list)
  PROVE  CanvasInv' /\ canvas' = list
BY CanvasesAreLists DEF CanvasInv, Report!Drawn, Report!Persist

\* Adding a widget takes none away.
LEMMA WidgetComes ==
  ASSUME CanvasInv, NEW w \in Widget, Report!Drawn(Append(canvas, w))
  PROVE  CanvasInv' /\ WidgetsGo
<1>1. canvas \in Seq(Widget) /\ Append(canvas, w) \in Seq(Widget)
  BY DEF CanvasInv
<1>2. CanvasInv' /\ canvas' = Append(canvas, w)
  BY <1>1, DrawnKeeps
<1>3. DOMAIN canvas \subseteq DOMAIN canvas' /\ \A n \in DOMAIN canvas : canvas'[n] = canvas[n]
  BY <1>1, <1>2
<1>4. Report!WidgetIds(canvas) \ Report!WidgetIds(canvas') = {}
  BY <1>3 DEF Report!WidgetIds
<1> QED BY <1>2, <1>4, FewGo

\* The canvas loses one widget at most, unless it was replaced by the shared or the stored one.
LEMMA StepCanvas ==
  CanvasInv /\ [Report!ReportNext]_(Report!reportVars) => CanvasInv' /\ [WidgetsGo]_reportVars
<1> SUFFICES ASSUME CanvasInv, [Report!ReportNext]_(Report!reportVars)
             PROVE  CanvasInv' /\ (WidgetsGo \/ UNCHANGED reportVars)
  OBVIOUS
<1>1. canvas \in Seq(Widget) /\ saved \in Seq(Widget) /\ Len(canvas) \in Nat
  BY DEF CanvasInv
<1>2. CASE UNCHANGED <<canvas, saved>>
  <2>1. Report!WidgetIds(canvas) \ Report!WidgetIds(canvas') = {}
    BY <1>2
  <2> QED BY <1>2, <2>1, FewGo DEF CanvasInv
<1>3. CASE Report!OpenBuilder
  <2>1. saved # None /\ Report!Drawn(saved)
    BY <1>1, <1>3, WidgetLists DEF Report!OpenBuilder
  <2> QED BY <1>1, <2>1, DrawnKeeps DEF WidgetsGo
<1>4. CASE Report!OpenLink
  <2>1. PICK list \in SharedLink : Report!Drawn(list)
    BY <1>4 DEF Report!OpenLink
  <2>2. list \in Seq(Widget)
    BY WidgetLists
  <2> QED BY <2>1, <2>2, DrawnKeeps DEF WidgetsGo
<1>5. CASE Report!RemoveWidget
  <2>1. PICK id \in Report!WidgetIds(canvas) :
          Report!Drawn(Report!Kept(canvas, {w \in Report!Range(canvas) : w.i # id}))
    BY <1>5 DEF Report!RemoveWidget
  <2>2. /\ Unplaced(canvas, id) \in Seq(Widget)
        /\ Report!WidgetIds(canvas) \ Report!WidgetIds(Unplaced(canvas, id)) \subseteq {id}
    BY <1>1, UnplacedIds
  <2>3. Report!Drawn(Unplaced(canvas, id))
    BY <2>1, OneFilter DEF Unplaced
  <2>4. CanvasInv' /\ canvas' = Unplaced(canvas, id)
    BY <2>2, <2>3, DrawnKeeps
  <2> QED BY <2>2, <2>4, FewGo
<1>6. CASE Report!SaveLayout
  <2>1. canvas' = canvas /\ CanvasInv'
    BY <1>1, <1>6, CanvasesAreLists DEF Report!SaveLayout, CanvasInv
  <2>2. Report!WidgetIds(canvas) \ Report!WidgetIds(canvas') = {}
    BY <2>1
  <2> QED BY <2>1, <2>2, FewGo
<1>7. CASE Report!OnLayoutChange
  <2> DEFINE placed == [n \in DOMAIN canvas |-> [canvas[n] EXCEPT !.y = "placed"]]
  <2>1. /\ DOMAIN placed = DOMAIN canvas
        /\ \A n \in DOMAIN canvas : placed[n] = [canvas[n] EXCEPT !.y = "placed"]
    OBVIOUS
  <2>2. \A n \in DOMAIN canvas : placed[n] \in Widget /\ placed[n].i = canvas[n].i
    <3>1. \A n \in DOMAIN canvas : canvas[n] \in Widget
      BY <1>1
    <3> QED BY <2>1, <3>1 DEF Widget
  <2>3. placed \in Seq(Widget)
    BY <1>1, <2>2
  <2>4. CanvasInv' /\ canvas' = placed
    BY <1>7, <2>3, DrawnKeeps DEF Report!OnLayoutChange
  <2> HIDE DEF placed
  <2>5. Report!WidgetIds(canvas) \ Report!WidgetIds(canvas') = {}
    BY <2>1, <2>2, <2>4 DEF Report!WidgetIds
  <2> QED BY <2>4, <2>5, FewGo
<1>8. ASSUME NEW type \in WidgetType, Report!AddWidget(type) \/ Report!DropWidget(type)
      PROVE  CanvasInv' /\ WidgetsGo
  <2>1. Report!Created(type, Len(canvas) + 1) \in Widget /\ Report!Created(type, 2 * Len(canvas) + 1) \in Widget
    BY <1>1 DEF Report!Created, Widget
  <2> QED BY <1>8, <2>1, WidgetComes DEF Report!AddWidget, Report!DropWidget
<1>9. CASE Report!ConfigNext
  BY <1>2, <1>9 DEF Report!ConfigNext, Report!OpenConfig, Report!AddRecipient, Report!RemoveRecipient,
     Report!SaveConfig, Report!TypeAddress, Report!ToggleMetric, Report!PickFrequency, Report!OnlyForm
<1>10. CASE UNCHANGED Report!reportVars
  BY <1>2, <1>10 DEF Report!reportVars
<1> QED BY <1>3, <1>4, <1>5, <1>6, <1>7, <1>8, <1>9, <1>10
        DEF Report!ReportNext, Report!BuilderNext

-----------------------------------------------------------------------------
(* Nothing is lost: segments *)

\* A list, whatever it is of.
IsList(s) == Len(s) \in Nat /\ s = [i \in 1..Len(s) |-> s[i]]

\* A list with one more element has those it had, in their places.
LEMMA AppendedList ==
  ASSUME NEW s, IsList(s), NEW e
  PROVE  /\ IsList(Append(s, e)) /\ Len(Append(s, e)) = Len(s) + 1
         /\ DOMAIN s = 1..Len(s) /\ DOMAIN Append(s, e) = 1..(Len(s) + 1)
         /\ \A i \in 1..Len(s) : Append(s, e)[i] = s[i]
         /\ Append(s, e)[Len(s) + 1] = e
<1> DEFINE A == {s[i] : i \in 1..Len(s)} \cup {e}
<1>1. DOMAIN s = 1..Len(s) /\ \A i \in 1..Len(s) : s[i] \in A
  BY DEF IsList
<1>2. s \in Seq(A) /\ e \in A
  <2>1. s \in [1..Len(s) -> A] /\ Len(s) \in Nat
    BY <1>1 DEF IsList
  <2>2. e \in A
    OBVIOUS
  <2> HIDE DEF A
  <2> QED BY <2>1, <2>2, SeqDef
<1> HIDE DEF A
<1> DEFINE t == Append(s, e)
<1>3. /\ t \in Seq(A) /\ Len(t) = Len(s) + 1 /\ Len(s) \in Nat
      /\ \A i \in 1..Len(s) : t[i] = s[i]
      /\ t[Len(s) + 1] = e
  BY <1>2
<1> HIDE DEF t
<1>4. Len(t) \in Nat /\ DOMAIN t = 1..Len(t) /\ t = [i \in 1..Len(t) |-> t[i]]
  BY <1>3
<1> QED BY <1>1, <1>3, <1>4 DEF IsList, t

IsSegment(s) == s = [id |-> s.id, conditions |-> s.conditions, logic |-> s.logic]

\* A segment stays one with a field set anew, and only the identifier changes it.
LEMMA SegmentChanges ==
  ASSUME NEW s, IsSegment(s), NEW v
  PROVE  /\ IsSegment([s EXCEPT !.id = v]) /\ [s EXCEPT !.id = v].id = v
         /\ IsSegment([s EXCEPT !.logic = v]) /\ [s EXCEPT !.logic = v].id = s.id
         /\ IsSegment([s EXCEPT !.conditions = v]) /\ [s EXCEPT !.conditions = v].id = s.id
         /\ \A i : /\ IsSegment([s EXCEPT !.conditions[i] = v])
                   /\ [s EXCEPT !.conditions[i] = v].id = s.id
BY DEF IsSegment

\* The segments saved are numbered from 1 on.
SegmentsAre(list) ==
  IsList(list) /\ \A i \in DOMAIN list : list[i].id = i /\ IsSegment(list[i])
SegmentsInv == SegmentsAre(segments) /\ IsSegment(active)

\* The page opens with no segments.
LEMMA NoSegments == SegmentsAre(<< >>)
<1>1. Len(<< >>) = 0 /\ DOMAIN << >> = {} /\ << >> = [i \in 1..0 |-> << >>[i]]
  OBVIOUS
<1> QED BY <1>1 DEF SegmentsAre, IsList

\* A segment stored with the next number keeps the others.
LEMMA NumberedNext ==
  ASSUME NEW list, SegmentsAre(list), NEW s, IsSegment(s)
  PROVE  /\ SegmentsAre(Append(list, [s EXCEPT !.id = Len(list) + 1]))
         /\ DOMAIN list \subseteq DOMAIN Append(list, [s EXCEPT !.id = Len(list) + 1])
         /\ \A i \in DOMAIN list : Append(list, [s EXCEPT !.id = Len(list) + 1])[i] = list[i]
<1> DEFINE new == [s EXCEPT !.id = Len(list) + 1]
<1>1. new.id = Len(list) + 1 /\ IsSegment(new)
  BY SegmentChanges
<1>2. IsList(list) /\ \A i \in DOMAIN list : list[i].id = i /\ IsSegment(list[i])
  BY DEF SegmentsAre
<1> HIDE DEF new
<1> DEFINE more == Append(list, new)
<1>3. /\ IsList(more) /\ DOMAIN list = 1..Len(list) /\ DOMAIN more = 1..(Len(list) + 1)
      /\ \A i \in 1..Len(list) : more[i] = list[i]
      /\ more[Len(list) + 1] = new /\ Len(list) \in Nat
  BY <1>2, AppendedList DEF IsList
<1> HIDE DEF more
<1>4. \A i \in DOMAIN more : i \in DOMAIN list \/ i = Len(list) + 1
  BY <1>3
<1>5. SegmentsAre(more)
  BY <1>1, <1>2, <1>3, <1>4 DEF SegmentsAre
<1>6. DOMAIN list \subseteq DOMAIN more
  BY <1>3
<1> QED BY <1>3, <1>5, <1>6 DEF more, new

\* Both builders open on a segment that is not stored.
LEMMA InitSegments ==
  /\ Segments!SegmentsInit => SegmentsInv
  /\ Embedded!SegmentInit => SegmentsAre(given) /\ IsSegment(segment) /\ segment.id = 0
BY NoSegments DEF Segments!SegmentsInit, Embedded!SegmentInit, Embedded!Page!SegmentsInit,
   SegmentsInv, IsSegment

\* What a step does to the segments.
SegmentsGo ==
  /\ DOMAIN segments \subseteq DOMAIN segments'
  /\ \A i \in DOMAIN segments : active.id = i \/ segments'[i] = segments[i]

\* No segment goes, and one changes while it is the one edited.
LEMMA StepSegments ==
  SegmentsInv /\ [Segments!SegmentsNext]_(Segments!segmentVars)
    => SegmentsInv' /\ [SegmentsGo]_segmentVars
<1> SUFFICES ASSUME SegmentsInv, [Segments!SegmentsNext]_(Segments!segmentVars)
             PROVE  SegmentsInv' /\ (SegmentsGo \/ UNCHANGED segmentVars)
  OBVIOUS
<1>1. SegmentsAre(segments) /\ IsSegment(active) /\ Len(segments) \in Nat
  BY DEF SegmentsInv, SegmentsAre, IsList
<1>2. ASSUME NEW s, IsSegment(s), Segments!Edit(s) PROVE SegmentsInv' /\ SegmentsGo
  BY <1>1, <1>2 DEF Segments!Edit, SegmentsInv, SegmentsGo
<1>3. ASSUME NEW i, NEW c, Segments!UpdateCondition(i, c) PROVE SegmentsInv' /\ SegmentsGo
  BY <1>1, <1>2, <1>3, SegmentChanges DEF Segments!UpdateCondition
<1>4. CASE Segments!AddCondition \/ Segments!RemoveCondition
  BY <1>1, <1>2, <1>4, SegmentChanges DEF Segments!AddCondition, Segments!RemoveCondition
<1>5. CASE Segments!PickField \/ Segments!PickValue \/ Segments!PickOp
  BY <1>3, <1>5 DEF Segments!PickField, Segments!PickValue, Segments!PickOp
<1>6. CASE Segments!SaveSegment
  <2>1. CASE \E i \in DOMAIN segments : segments[i].id = active.id
    <3>1. segments' = [i \in DOMAIN segments |->
                         IF segments[i].id = active.id THEN active ELSE segments[i]]
          /\ active' = active
      BY <1>6, <2>1 DEF Segments!SaveSegment
    <3>2. /\ DOMAIN segments' = DOMAIN segments
          /\ \A i \in DOMAIN segments :
               segments'[i] = IF segments[i].id = active.id THEN active ELSE segments[i]
      BY <3>1
    <3>3. DOMAIN segments = 1..Len(segments)
      BY <1>1 DEF SegmentsAre, IsList
    <3>4. IsList(segments')
      <4>1. Len(segments') = Len(segments)
        BY <1>1, <3>2, <3>3
      <4> QED BY <1>1, <3>1, <3>3, <4>1 DEF IsList
    <3>5. \A i \in DOMAIN segments : segments[i].id = i /\ IsSegment(segments[i])
      BY <1>1 DEF SegmentsAre
    <3>6. SegmentsAre(segments')
      BY <1>1, <3>2, <3>4, <3>5 DEF SegmentsAre
    <3> QED BY <1>1, <3>1, <3>2, <3>5, <3>6 DEF SegmentsInv, SegmentsGo
  <2>2. CASE ~\E i \in DOMAIN segments : segments[i].id = active.id
    <3>1. segments' = Append(segments, [active EXCEPT !.id = Len(segments) + 1]) /\ active' = active
      BY <1>6, <2>2 DEF Segments!SaveSegment
    <3> QED BY <1>1, <3>1, NumberedNext DEF SegmentsInv, SegmentsGo
  <2> QED BY <2>1, <2>2
<1>7. CASE Segments!EditSegment
  <2>1. PICK i \in DOMAIN segments : active' = segments[i] /\ segments' = segments
    BY <1>7 DEF Segments!EditSegment
  <2> QED BY <1>1, <2>1 DEF SegmentsInv, SegmentsGo, SegmentsAre
<1>8. ASSUME NEW logic, Segments!PickLogic(logic) PROVE SegmentsInv' /\ SegmentsGo
  BY <1>1, <1>2, <1>8, SegmentChanges DEF Segments!PickLogic
<1>9. CASE UNCHANGED Segments!segmentVars
  BY <1>9 DEF Segments!segmentVars, SegmentsInv, segmentVars
<1> QED BY <1>4, <1>5, <1>6, <1>7, <1>8, <1>9 DEF Segments!SegmentsNext

\* The builder that a page embeds is one whose segment is never reopened.
SegmenterInv == SegmentsAre(given) /\ IsSegment(segment) /\ segment.id = 0

\* A step of the embedded builder is one of the page's.
LEMMA StepSegmenter ==
  SegmenterInv /\ [EmbeddedNext]_(Embedded!builderVars)
    => SegmenterInv' /\ [Embedded!Page!SegmentsNext]_(Embedded!segmentState)
<1> SUFFICES ASSUME SegmenterInv, [EmbeddedNext]_(Embedded!builderVars)
             PROVE  SegmenterInv' /\ [Embedded!Page!SegmentsNext]_(Embedded!segmentState)
  OBVIOUS
<1>1. SegmentsAre(given) /\ IsSegment(segment) /\ segment.id = 0 /\ Len(given) \in Nat
  BY DEF SegmenterInv, SegmentsAre, IsList
<1>2. CASE UNCHANGED Embedded!segmentState
  BY <1>2 DEF Embedded!segmentState, SegmenterInv
<1>3. ASSUME NEW s, IsSegment(s), s.id = 0, Embedded!Change(s)
      PROVE  SegmenterInv' /\ Embedded!Page!Edit(s)
  BY <1>1, <1>3 DEF Embedded!Change, SegmenterInv, Embedded!Page!Edit
<1>4. ASSUME NEW i, NEW c, Embedded!WithCondition(i, c)
      PROVE  SegmenterInv' /\ Embedded!Page!UpdateCondition(i, c)
  BY <1>1, <1>3, <1>4, SegmentChanges DEF Embedded!WithCondition, Embedded!Page!UpdateCondition
<1>5. CASE Embedded!NewRow
  <2>1. SegmenterInv' /\ Embedded!Page!AddCondition
    BY <1>1, <1>3, <1>5, SegmentChanges DEF Embedded!NewRow, Embedded!Page!AddCondition
  <2> QED BY <2>1 DEF Embedded!Page!SegmentsNext
<1>6. CASE Embedded!DropRow
  <2>1. \A s, i : Embedded!Spliced(s, i) = Embedded!Page!Spliced(s, i)
    BY DEF Embedded!Spliced, Embedded!Page!Spliced
  <2>2. SegmenterInv' /\ Embedded!Page!RemoveCondition
    BY <1>1, <1>3, <1>6, <2>1, SegmentChanges DEF Embedded!DropRow, Embedded!Page!RemoveCondition
  <2> QED BY <2>2 DEF Embedded!Page!SegmentsNext
<1>7. CASE Embedded!ChooseField
  <2>1. SegmenterInv' /\ Embedded!Page!PickField
    BY <1>4, <1>7 DEF Embedded!ChooseField, Embedded!Page!PickField, Embedded!Page!Fields
  <2> QED BY <2>1 DEF Embedded!Page!SegmentsNext
<1>8. CASE Embedded!ChooseValue
  <2>1. SegmenterInv' /\ Embedded!Page!PickValue
    BY <1>4, <1>8 DEF Embedded!ChooseValue, Embedded!Page!PickValue
  <2> QED BY <2>1 DEF Embedded!Page!SegmentsNext
<1>9. CASE Embedded!ChooseOp
  <2>1. SegmenterInv' /\ Embedded!Page!PickOp
    BY <1>4, <1>9 DEF Embedded!ChooseOp, Embedded!Page!PickOp
  <2> QED BY <2>1 DEF Embedded!Page!SegmentsNext
<1>10. CASE Embedded!ChooseLogic
  <2>1. SegmenterInv' /\ \E logic \in Embedded!Page!Logics : Embedded!Page!PickLogic(logic)
    BY <1>1, <1>3, <1>10, SegmentChanges DEF Embedded!ChooseLogic, Embedded!Page!PickLogic
  <2> QED BY <2>1 DEF Embedded!Page!SegmentsNext
<1>11. CASE Embedded!HandleSave
  <2> DEFINE new == [segment EXCEPT !.id = Len(given) + 1]
  <2>1. /\ given' = Append(given, new) /\ segment' = segment /\ done' = TRUE
        /\ Len(given) < MaxSegments
    BY <1>11 DEF Embedded!HandleSave
  <2>2. SegmenterInv'
    BY <1>1, <2>1, NumberedNext DEF SegmenterInv
  <2>3. ~\E i \in DOMAIN given : given[i].id = segment.id
    <3>1. DOMAIN given = 1..Len(given) /\ \A i \in DOMAIN given : given[i].id = i
      BY <1>1 DEF SegmentsAre, IsList
    <3> QED BY <1>1, <3>1
  <2>4. Len(given') = Len(given) + 1
    BY <1>1, <2>1, AppendedList DEF SegmentsAre
  <2>5. MaxSegments \in Nat
    BY BrowserConstants DEF BrowserConstants
  <2>6. Len(given') <= MaxSegments
    BY <1>1, <2>1, <2>4, <2>5
  <2>7. Embedded!Page!SaveSegment
    BY <2>1, <2>3, <2>6 DEF Embedded!Page!SaveSegment
  <2> QED BY <2>2, <2>7 DEF Embedded!Page!SegmentsNext
<1>12. CASE Embedded!QueryNext
  BY <1>2, <1>12 DEF Embedded!QueryNext, Embedded!ToggleColumn, Embedded!AddFilter,
     Embedded!UpdateFilter, Embedded!RemoveFilter, Embedded!NameQuery, Embedded!SaveQuery,
     Embedded!LoadQuery, Embedded!Remount, Embedded!OnlyBuilder
<1>13. CASE Embedded!PanelNext
  BY Zenon, <1>2, <1>13 DEF Embedded!PanelNext, Embedded!AddNote, Embedded!StartEdit, Embedded!TypeText,
     Embedded!CommitEdit, Embedded!CancelEdit, Embedded!RemoveNote, Embedded!ShowPanel,
     Embedded!OtherTab, Embedded!OnlyPanel
<1>14. CASE UNCHANGED Embedded!builderVars
  BY <1>2, <1>14 DEF Embedded!builderVars, Embedded!segmentState
<1> QED BY <1>5, <1>6, <1>7, <1>8, <1>9, <1>10, <1>11, <1>12, <1>13, <1>14
        DEF EmbeddedNext, Embedded!SegmentNext

-----------------------------------------------------------------------------
(* Nothing is lost: saved queries, rollouts and rows *)

\* A list begins itself.
LEMMA BeginsItself ==
  ASSUME NEW A, NEW s \in Seq(A) PROVE Begins(s, s)
<1>1. Len(s) \in 0..Len(s) /\ s = SubSeq(s, 1, Len(s))
  OBVIOUS
<1> QED BY <1>1 DEF Begins

\* A list begins the list joined to another.
LEMMA BeginsMore ==
  ASSUME NEW A, NEW s \in Seq(A), NEW t \in Seq(A) PROVE Begins(s, s \o t)
<1> DEFINE u == s \o t
<1>1. u \in Seq(A) /\ Len(s) \in 0..Len(u) /\ \A i \in 1..Len(s) : u[i] = s[i]
  OBVIOUS
<1> HIDE DEF u
<1>2. SubSeq(u, 1, Len(s)) = s
  BY <1>1
<1> QED BY <1>1, <1>2 DEF Begins, u

\* A list begins the list with one more.
LEMMA BeginsLonger ==
  ASSUME NEW A, NEW s \in Seq(A), NEW e \in A PROVE Begins(s, Append(s, e))
<1>1. <<e>> \in Seq(A) /\ Append(s, e) = s \o <<e>>
  OBVIOUS
<1> QED BY <1>1, BeginsMore

\* Begins of the three modules is that of Lists.
LEMMA OneBeginning ==
  ASSUME NEW s, NEW t
  PROVE  /\ Forms!Begins(s, t) = Begins(s, t) /\ Files!Begins(s, t) = Begins(s, t)
         /\ Embedded!Begins(s, t) = Begins(s, t)
BY DEF Begins, Forms!Begins, Files!Begins, Embedded!Begins

\* A flag is on or off, and has a rollout of the slider's or the 10 it is given.
FlagsInv == flags \in [Flag -> [on : BOOLEAN, rollout : Rollout \cup {10}]]

\* Every flag has a rollout that the page offers, or the ten it sets.
LEMMA InitFlags == Forms!FormsInit => FlagsInv
BY DEF Forms!FormsInit, FlagsInv

\* What a step does to the saved queries and to the rollouts.
QueriesSaved == Begins(query.saved, query'.saved)
FlagsGo ==
  \A f \in Flag : flags'[f].rollout # flags[f].rollout =>
    \/ flags[f].on /\ flags'[f].on
    \/ flags[f] = [on |-> FALSE, rollout |-> 0] /\ flags'[f] = [on |-> TRUE, rollout |-> 10]

\* A rollout changes while the flag is on, or as the flag is switched on with ten.
LEMMA StepFlags == FlagsInv /\ Forms!FlagsNext => FlagsInv' /\ FlagsGo
<1> SUFFICES ASSUME FlagsInv, Forms!FlagsNext PROVE FlagsInv' /\ FlagsGo
  OBVIOUS
<1> DEFINE F == [on : BOOLEAN, rollout : Rollout \cup {10}]
<1>1. flags \in [Flag -> F]
  BY DEF FlagsInv
<1>2. CASE Forms!ToggleFlag
  <2>1. PICK f \in Flag : flags' = [flags EXCEPT ![f] = Forms!Enabled(@)]
    BY <1>2 DEF Forms!ToggleFlag, Forms!OnlyFlags
  <2>2. flags[f] \in F
    BY <1>1
  <2>3. /\ Forms!Enabled(flags[f]) \in F
        /\ Forms!Enabled(flags[f]).rollout # flags[f].rollout =>
             /\ flags[f] = [on |-> FALSE, rollout |-> 0]
             /\ Forms!Enabled(flags[f]) = [on |-> TRUE, rollout |-> 10]
    BY <2>2 DEF Forms!Enabled
  <2>4. flags'[f] = Forms!Enabled(flags[f]) /\ \A g \in Flag : g # f => flags'[g] = flags[g]
    BY <1>1, <2>1
  <2>5. FlagsInv'
    BY <1>1, <2>1, <2>3 DEF FlagsInv
  <2> QED BY <2>3, <2>4, <2>5 DEF FlagsGo
<1>3. CASE Forms!SetRollout
  <2>1. PICK f \in Flag, r \in Rollout :
          flags[f].on /\ flags' = [flags EXCEPT ![f] = [flags[f] EXCEPT !.rollout = r]]
    BY <1>3 DEF Forms!SetRollout, Forms!OnlyFlags
  <2> DEFINE set == [flags[f] EXCEPT !.rollout = r]
  <2>2. set \in F /\ set.on = flags[f].on
    <3>1. flags[f] \in F
      BY <1>1
    <3> QED BY <3>1
  <2>3. flags' = [flags EXCEPT ![f] = set]
    BY <2>1
  <2> HIDE DEF set
  <2>4. flags'[f] = set /\ \A g \in Flag : g # f => flags'[g] = flags[g]
    BY <1>1, <2>3
  <2>5. FlagsInv'
    BY <1>1, <2>2, <2>3 DEF FlagsInv
  <2> QED BY <2>1, <2>2, <2>4, <2>5 DEF FlagsGo
<1> QED BY <1>2, <1>3 DEF Forms!FlagsNext

\* The saved queries only get longer.
LEMMA StepSaved == QueryInv /\ Forms!QueryNext => QueriesSaved
<1> SUFFICES ASSUME QueryInv, Forms!QueryNext PROVE QueriesSaved
  OBVIOUS
<1>1. PICK n : query \in QueryOf(n)
  BY DEF QueryInv
<1> DEFINE A == [columns : ColumnsOf, filters : FiltersOf(n)]
<1>2. /\ query.saved \in Seq(A) /\ query.columns \in ColumnsOf /\ query.filters \in FiltersOf(n)
      /\ query = [columns |-> query.columns, filters |-> query.filters, next |-> query.next,
                  name |-> query.name, saved |-> query.saved]
  BY <1>1 DEF QueryOf
<1>3. CASE query'.saved = query.saved
  <2>1. Begins(query.saved, query.saved)
    BY <1>2, BeginsItself
  <2> QED BY <1>3, <2>1 DEF QueriesSaved
<1>4. CASE Forms!SaveQuery
  <2> DEFINE new == [columns |-> query.columns, filters |-> query.filters]
  <2>1. query' = [query EXCEPT !.saved = Append(query.saved, new), !.name = FALSE]
    BY <1>4 DEF Forms!SaveQuery, Forms!OnlyQuery
  <2>2. query'.saved = Append(query.saved, new)
    BY <1>2, <2>1
  <2>3. new \in A
    BY <1>2
  <2> HIDE DEF new, A
  <2>4. Begins(query.saved, Append(query.saved, new))
    BY <1>2, <2>3, BeginsLonger
  <2> QED BY <2>2, <2>4 DEF QueriesSaved
<1> HIDE DEF A
<1>5. CASE Forms!ToggleColumn
  <2>1. PICK c : query' = [query EXCEPT !.columns = c]
    <3>1. PICK p, e : query' =
            [query EXCEPT !.columns[p] = IF e \in Forms!Range(@)
               THEN Forms!Kept(@, Forms!Range(@) \ {e}) ELSE Append(@, e)]
      BY <1>5 DEF Forms!ToggleColumn, Forms!OnlyQuery
    <3> QED BY <3>1
  <2> QED BY <1>2, <1>3, <2>1
<1>6. CASE Forms!AddFilter
  <2>1. PICK l, k : query' = [query EXCEPT !.filters = l, !.next = k]
    BY <1>6 DEF Forms!AddFilter, Forms!OnlyQuery
  <2> QED BY <1>2, <1>3, <2>1
<1>7. CASE Forms!UpdateFilter \/ Forms!RemoveFilter
  <2>1. PICK l : query' = [query EXCEPT !.filters = l]
    BY <1>7 DEF Forms!UpdateFilter, Forms!RemoveFilter, Forms!OnlyQuery
  <2> QED BY <1>2, <1>3, <2>1
<1>8. CASE Forms!TypeQueryName
  BY <1>2, <1>3, <1>8 DEF Forms!TypeQueryName, Forms!OnlyQuery
<1>9. CASE Forms!LoadQuery
  <2>1. PICK c, l : query' = [query EXCEPT !.columns = c, !.filters = l]
    BY <1>9 DEF Forms!LoadQuery, Forms!OnlyQuery
  <2> QED BY <1>2, <1>3, <2>1
<1> QED BY <1>4, <1>5, <1>6, <1>7, <1>8, <1>9 DEF Forms!QueryNext

\* What a step of the forms keeps: the saved queries and the rollouts.
LEMMA StepSavedStays ==
  QueryInv /\ FlagsInv /\ [FormsNext]_(Forms!formVars)
    => FlagsInv' /\ [QueriesSaved /\ FlagsGo]_formVars
<1> SUFFICES ASSUME QueryInv, FlagsInv, [FormsNext]_(Forms!formVars)
             PROVE  FlagsInv' /\ ((QueriesSaved /\ FlagsGo) \/ UNCHANGED formVars)
  OBVIOUS
<1>1. ASSUME query' = query PROVE QueriesSaved
  <2>1. PICK n : query \in QueryOf(n)
    BY DEF QueryInv
  <2>2. PICK S : query.saved \in Seq(S)
    BY <2>1 DEF QueryOf
  <2> QED BY <1>1, <2>2, BeginsItself DEF QueriesSaved
<1>2. ASSUME flags' = flags PROVE FlagsInv' /\ FlagsGo
  BY <1>2 DEF FlagsInv, FlagsGo
<1>3. CASE Forms!SettingsNext \/ Forms!MailNext \/ Forms!CardNext \/ Forms!PlanNext
  <2>1. UNCHANGED <<query, flags>>
    BY <1>3 DEF Forms!SettingsNext, Forms!EditPrefs, Forms!SavePrefs, Forms!Reopen,
         Forms!SendTest, Forms!TestEnds, Forms!OnlySettings, Forms!MailNext, Forms!TypeRecipient,
         Forms!TestSend, Forms!OnlyMail, Forms!CardNext, Forms!PickTemplate, Forms!PickMetric,
         Forms!Generate, Forms!Download, Forms!OnlyCard, Forms!PlanNext, Forms!ApplyScenario,
         Forms!MoveSlider, Forms!OnlyPlan
  <2> QED BY <1>1, <1>2, <2>1
<1>4. CASE Forms!FlagsNext
  <2>1. query' = query
    BY <1>4 DEF Forms!FlagsNext, Forms!ToggleFlag, Forms!SetRollout, Forms!OnlyFlags
  <2> QED BY <1>1, <1>4, <2>1, StepFlags
<1>5. CASE Forms!QueryNext
  <2>1. flags' = flags
    BY <1>5 DEF Forms!QueryNext, Forms!ToggleColumn, Forms!AddFilter, Forms!UpdateFilter,
         Forms!RemoveFilter, Forms!TypeQueryName, Forms!SaveQuery, Forms!LoadQuery, Forms!OnlyQuery
  <2> QED BY <1>2, <1>5, <2>1, StepSaved
<1>6. CASE UNCHANGED Forms!formVars
  BY <1>2, <1>6 DEF Forms!formVars, formVars
<1> QED BY <1>3, <1>4, <1>5, <1>6 DEF FormsNext

TableRow == UNION {{t[i] : i \in DOMAIN t} : t \in Table}
\* The export under way is as far as it wrote, and the button is off.
RunOf == [rows : Seq(TableRow), at : Nat, output : Seq(TableRow)]
CsvInv ==
  /\ csv = [table |-> csv.table, run |-> csv.run, progress |-> csv.progress, file |-> csv.file,
            error |-> csv.error]
  /\ csv.table \in Seq(TableRow)
  /\ csv.run # None => csv.run \in RunOf /\ csv.run.at <= Len(csv.run.rows) /\ csv.progress # None

\* What BrowserConstants says of tables and chunks.
LEMMA FileConstants ==
  /\ Many \in Nat /\ More \in Nat /\ SmallChunk \in Nat /\ LargeChunk \in Nat
  /\ Table \subseteq Seq(TableRow) /\ None \notin Nat
<1>1. {Many, More, SmallChunk, LargeChunk} \subseteq Nat
  BY BrowserConstants DEF BrowserConstants
<1>2. Table \subseteq Seq(UNION {{t[i] : i \in DOMAIN t} : t \in Table}) /\ None \notin Nat
  BY BrowserConstants DEF BrowserConstants
<1> QED BY <1>1, <1>2 DEF TableRow

\* No export is under way at first.
LEMMA InitCsv == Files!ExportsInit => CsvInv
<1> SUFFICES ASSUME Files!ExportsInit PROVE CsvInv
  OBVIOUS
<1>1. PICK t \in Table :
        csv = [table |-> t, run |-> None, progress |-> None, file |-> None, error |-> FALSE]
  BY DEF Files!ExportsInit
<1> QED BY <1>1, FileConstants DEF CsvInv

\* What a step does to the rows of the export under way.
RowsGo ==
  csv.run # None /\ csv'.run # None =>
    csv'.run.rows = csv.run.rows /\ Begins(csv.run.output, csv'.run.output)

\* A chunk writes rows after those written, from the rows of the click.
LEMMA ChunkGoesOn ==
  ASSUME NEW run \in RunOf, run.at <= Len(run.rows)
  PROVE  /\ Files!Chunk(run) \in RunOf /\ Files!Chunk(run).rows = run.rows
         /\ Files!Chunk(run).at <= Len(run.rows)
         /\ Begins(run.output, Files!Chunk(run).output)
         /\ Files!Progress(Files!Chunk(run)) # None
<1> DEFINE size == Len(run.rows)
           to == Files!Least(size, run.at + Files!ChunkSize(size))
           more == SubSeq(run.rows, run.at + 1, to)
           next == Files!Chunk(run)
<1>1. run.rows \in Seq(TableRow) /\ run.at \in Nat /\ run.output \in Seq(TableRow) /\ size \in Nat
  BY DEF RunOf
<1>2. Files!ChunkSize(size) \in Nat
  BY <1>1, FileConstants DEF Files!ChunkSize
<1>3. to \in Nat /\ to <= size /\ run.at <= size
  BY <1>1, <1>2 DEF Files!Least
<1>4. more \in Seq(TableRow)
  <2> HIDE DEF to
  <2> QED BY <1>1, <1>3
<1>5. next = [run EXCEPT !.at = to, !.output = run.output \o more]
  BY DEF Files!Chunk
<1> HIDE DEF to, more, next
<1>6. /\ next \in RunOf /\ next.rows = run.rows /\ next.at = to /\ next.output = run.output \o more
  <2>1. run.output \o more \in Seq(TableRow)
    BY <1>1, <1>4
  <2> DEFINE joined == run.output \o more
  <2> HIDE DEF joined
  <2>2. next = [rows |-> run.rows, at |-> to, output |-> joined]
    BY <1>5 DEF RunOf, joined
  <2>3. joined \in Seq(TableRow)
    BY <2>1 DEF joined
  <2>4. next \in RunOf /\ next.rows = run.rows /\ next.at = to /\ next.output = joined
    BY <1>1, <1>3, <2>2, <2>3 DEF RunOf
  <2> QED BY <2>4 DEF joined
<1>7. Begins(run.output, next.output)
  BY <1>1, <1>4, <1>6, BeginsMore
<1>8. Files!Progress(next) \in Nat
  <2>1. CASE next.rows = << >>
    BY <2>1 DEF Files!Progress
  <2>2. CASE next.rows # << >>
    <3>1. Len(next.rows) \in Nat \ {0} /\ next.at \in Nat
      BY <1>1, <1>3, <1>6, <2>2
    <3>2. 200 * next.at + Len(next.rows) \in Nat /\ 2 * Len(next.rows) \in Nat \ {0}
      BY <3>1
    <3>3. (200 * next.at + Len(next.rows)) \div (2 * Len(next.rows)) \in Nat
      BY <3>2, Quotient
    <3> QED BY <2>2, <3>3 DEF Files!Progress, Files!Percent
  <2> QED BY <2>1, <2>2
<1> QED BY <1>3, <1>6, <1>7, <1>8, FileConstants DEF next

\* An export keeps the rows of its click and writes after what it wrote.
LEMMA StepCsv == CsvInv /\ [FilesNext]_(Files!exportVars) => CsvInv' /\ [RowsGo]_exportVars
<1> SUFFICES ASSUME CsvInv, [FilesNext]_(Files!exportVars)
             PROVE  CsvInv' /\ (RowsGo \/ UNCHANGED exportVars)
  OBVIOUS
<1>1. /\ csv = [table |-> csv.table, run |-> csv.run, progress |-> csv.progress,
                file |-> csv.file, error |-> csv.error]
      /\ csv.table \in Seq(TableRow)
      /\ csv.run # None => csv.run \in RunOf /\ csv.run.at <= Len(csv.run.rows) /\ csv.progress # None
  BY DEF CsvInv
<1>2. csv.run # None => Begins(csv.run.output, csv.run.output)
  BY <1>1, BeginsItself DEF RunOf
<1>3. CASE UNCHANGED csv
  BY <1>2, <1>3 DEF CsvInv, RowsGo
<1>4. CASE Files!ChangeTable
  <2>1. PICK t \in Table : csv' = [csv EXCEPT !.table = t]
    BY <1>4 DEF Files!ChangeTable, Files!OnlyCsv
  <2>2. t \in Seq(TableRow)
    BY FileConstants
  <2>3. /\ csv' = [table |-> t, run |-> csv.run, progress |-> csv.progress, file |-> csv.file,
                   error |-> csv.error]
    BY <1>1, <2>1
  <2> QED BY <1>1, <1>2, <2>2, <2>3 DEF CsvInv, RowsGo
<1>5. CASE Files!ClickExport
  <2> DEFINE first == [rows |-> csv.table, at |-> 0, output |-> << >>]
             run == Files!Chunk(first)
  <2>1. first \in RunOf /\ first.at <= Len(first.rows)
    BY <1>1 DEF RunOf
  <2>2. csv.progress = None
        /\ csv' = [csv EXCEPT !.run = run, !.progress = Files!Progress(run), !.error = FALSE]
    BY <1>5 DEF Files!ClickExport, Files!Advance, Files!Begun, Files!OnlyCsv
  <2> HIDE DEF first
  <2>3. run \in RunOf /\ run.at <= Len(run.rows) /\ Files!Progress(run) # None
    BY <2>1, ChunkGoesOn
  <2> HIDE DEF run
  <2>4. csv' = [table |-> csv.table, run |-> run, progress |-> Files!Progress(run),
                file |-> csv.file, error |-> FALSE]
    BY <1>1, <2>2
  <2> QED BY <1>1, <2>2, <2>3, <2>4 DEF CsvInv, RowsGo
<1>6. CASE Files!NextChunk
  <2> DEFINE run == Files!Chunk(csv.run)
  <2>1. csv.run # None
        /\ csv' = [csv EXCEPT !.run = run, !.progress = Files!Progress(run), !.error = FALSE]
    BY <1>6 DEF Files!NextChunk, Files!Advance, Files!OnlyCsv
  <2>2. /\ run \in RunOf /\ run.rows = csv.run.rows /\ run.at <= Len(run.rows)
        /\ Begins(csv.run.output, run.output) /\ Files!Progress(run) # None
    BY <1>1, <2>1, ChunkGoesOn
  <2> HIDE DEF run
  <2>3. csv' = [table |-> csv.table, run |-> run, progress |-> Files!Progress(run),
                file |-> csv.file, error |-> FALSE]
    BY <1>1, <2>1
  <2> QED BY <1>1, <2>2, <2>3 DEF CsvInv, RowsGo
<1>7. CASE Files!WriteFile
  <2>1. csv' = [csv EXCEPT !.file = csv.run, !.run = None, !.progress = 100]
    BY <1>7 DEF Files!WriteFile, Files!OnlyCsv
  <2>2. csv' = [table |-> csv.table, run |-> None, progress |-> 100, file |-> csv.run,
                error |-> csv.error]
    BY <1>1, <2>1
  <2> QED BY <1>1, <2>2 DEF CsvInv, RowsGo
<1>8. CASE Files!LoadFails
  <2>1. csv' = [csv EXCEPT !.run = None, !.progress = None, !.error = TRUE]
    BY <1>8 DEF Files!LoadFails, Files!OnlyCsv
  <2>2. csv' = [table |-> csv.table, run |-> None, progress |-> None, file |-> csv.file,
                error |-> TRUE]
    BY <1>1, <2>1
  <2> QED BY <1>1, <2>2 DEF CsvInv, RowsGo
<1>9. CASE Files!ButtonBack
  <2>1. csv.run = None /\ csv' = [csv EXCEPT !.progress = None]
    BY <1>9 DEF Files!ButtonBack, Files!OnlyCsv
  <2>2. csv' = [table |-> csv.table, run |-> None, progress |-> None, file |-> csv.file,
                error |-> csv.error]
    BY <1>1, <2>1
  <2> QED BY <1>1, <2>2 DEF CsvInv, RowsGo
<1>10. CASE Files!BookNext \/ Files!JsonNext \/ Files!PictureNext
  <2>1. UNCHANGED csv
    BY <1>10 DEF Files!BookNext, Files!ClickBook, Files!BookFails, Files!BookMessageEnds,
         Files!BookDone, Files!OnlyBook, Files!JsonNext, Files!PickPretty, Files!JsonMessageEnds,
         Files!ClickJson, Files!OnlyJson, Files!PictureNext, Files!PickBackground,
         Files!ClickPicture, Files!PictureTaken, Files!PictureFails, Files!OnlyPicture
  <2> QED BY <1>3, <2>1
<1>11. CASE UNCHANGED Files!exportVars
  BY <1>3, <1>11 DEF Files!exportVars
<1> QED BY <1>4, <1>5, <1>6, <1>7, <1>8, <1>9, <1>10, <1>11 DEF FilesNext, Files!CsvNext

-----------------------------------------------------------------------------
(* Nothing is lost: queries, notes and messages of the panels *)

\* What a step does to the queries handed over.
HandedGo == \A i \in DOMAIN listed : listed'[i] = listed[i]

\* A query handed over stays as it was, at its place.
LEMMA StepHanded == QueriesInv /\ [EmbeddedNext]_(Embedded!builderVars) => [HandedGo]_(Embedded!queryState)
<1> SUFFICES ASSUME QueriesInv, [EmbeddedNext]_(Embedded!builderVars) PROVE HandedGo
  OBVIOUS
<1>1. listed \in Seq(ListedOf)
  BY DEF QueriesInv
<1>2. CASE UNCHANGED listed
  BY <1>2 DEF HandedGo
<1>3. CASE Embedded!SegmentNext
  BY <1>2, <1>3 DEF Embedded!SegmentNext, Embedded!NewRow, Embedded!DropRow, Embedded!ChooseField,
     Embedded!ChooseValue, Embedded!ChooseOp, Embedded!ChooseLogic, Embedded!HandleSave,
     Embedded!WithCondition, Embedded!Change, Embedded!OnlySegment, Embedded!queryState
<1>4. CASE Embedded!PanelNext
  <2>1. UNCHANGED listed
    BY Zenon, <1>4 DEF Embedded!PanelNext, Embedded!AddNote, Embedded!StartEdit, Embedded!TypeText,
       Embedded!CommitEdit, Embedded!CancelEdit, Embedded!RemoveNote, Embedded!ShowPanel,
       Embedded!OtherTab, Embedded!OnlyPanel, Embedded!queryState
  <2> QED BY <1>2, <2>1
<1>5. CASE Embedded!SaveQuery
  <2>1. PICK new : listed' = Append(listed, new)
    BY <1>5 DEF Embedded!SaveQuery
  <2>2. IsList(listed)
    BY <1>1 DEF IsList
  <2> QED BY <2>1, <2>2, AppendedList DEF HandedGo
<1>6. CASE Embedded!QueryNext /\ ~Embedded!SaveQuery
  BY <1>2, <1>6 DEF Embedded!QueryNext, Embedded!ToggleColumn, Embedded!AddFilter,
     Embedded!UpdateFilter, Embedded!RemoveFilter, Embedded!NameQuery,
     Embedded!LoadQuery, Embedded!Remount, Embedded!OnlyBuilder
<1>7. CASE UNCHANGED Embedded!builderVars
  BY <1>2, <1>7 DEF Embedded!builderVars
<1> QED BY <1>3, <1>4, <1>5, <1>6, <1>7 DEF EmbeddedNext

IsNote(n) == n = [id |-> n.id, text |-> n.text]
\* What is stored was made, here or in another tab.
StoredInv ==
  /\ IsList(stored) /\ IsList(origin)
  /\ \A i \in DOMAIN stored : IsNote(stored[i]) /\ stored[i].id \in DOMAIN origin

\* A list is a sequence of its elements.
LEMMA ListIsSeq == ASSUME NEW s, IsList(s) PROVE s \in Seq({s[i] : i \in 1..Len(s)})
<1> DEFINE A == {s[i] : i \in 1..Len(s)}
<1>1. s \in [1..Len(s) -> A] /\ Len(s) \in Nat
  BY DEF IsList
<1> HIDE DEF A
<1>2. s \in Seq(A)
  BY <1>1, SeqDef
<1> QED BY <1>2 DEF A

\* The panel opens without notes.
LEMMA InitStored == Embedded!PanelInit => StoredInv
<1> SUFFICES ASSUME Embedded!PanelInit PROVE StoredInv
  OBVIOUS
<1>1. stored = << >> /\ origin = << >>
  BY Zenon DEF Embedded!PanelInit
<1>2. IsList(<< >>) /\ DOMAIN << >> = {}
  BY DEF IsList
<1> QED BY <1>1, <1>2 DEF StoredInv

\* What a step does to the notes stored.
StoredGo ==
  /\ \A id \in IdsIn(stored) \ IdsIn(stored') : origin'[id] \in {"removed", "taken"}
  /\ IdsIn(stored') \cap DOMAIN origin \subseteq IdsIn(stored)

\* A note made here or in another tab is added to the stored ones and takes none.
LEMMA NoteIsMade ==
  ASSUME StoredInv, NEW text, NEW by, stored' = Append(stored, Embedded!Made(text)),
         origin' = Append(origin, by)
  PROVE  StoredInv' /\ StoredGo
<1> DEFINE new == Embedded!Made(text)
<1>1. new.id = Len(origin) + 1 /\ IsNote(new)
  BY DEF Embedded!Made, IsNote
<1> HIDE DEF new
<1>2. /\ IsList(stored) /\ IsList(origin)
      /\ \A i \in DOMAIN stored : IsNote(stored[i]) /\ stored[i].id \in DOMAIN origin
  BY DEF StoredInv
<1>3. /\ IsList(stored') /\ Len(stored') = Len(stored) + 1
      /\ DOMAIN stored = 1..Len(stored) /\ DOMAIN stored' = 1..(Len(stored) + 1)
      /\ \A i \in 1..Len(stored) : stored'[i] = stored[i]
      /\ stored'[Len(stored) + 1] = new /\ Len(stored) \in Nat
  BY <1>2, AppendedList DEF new, IsList
<1>4. /\ IsList(origin') /\ DOMAIN origin = 1..Len(origin) /\ DOMAIN origin' = 1..(Len(origin) + 1)
      /\ Len(origin) \in Nat
  BY <1>2, AppendedList DEF IsList
<1>5. \A i \in DOMAIN stored' : i \in DOMAIN stored \/ i = Len(stored) + 1
  BY <1>3
<1>6. DOMAIN origin \subseteq DOMAIN origin' /\ Len(origin) + 1 \in DOMAIN origin'
      /\ Len(origin) + 1 \notin DOMAIN origin
  BY <1>4
<1>7. StoredInv'
  BY <1>1, <1>2, <1>3, <1>4, <1>5, <1>6 DEF StoredInv
<1>8. \A i \in DOMAIN stored : i \in DOMAIN stored' /\ stored'[i] = stored[i]
  BY <1>3
<1>9. IdsIn(stored) \subseteq IdsIn(stored')
  BY <1>8 DEF IdsIn
<1>10. IdsIn(stored') \subseteq IdsIn(stored) \cup {Len(origin) + 1}
  BY <1>1, <1>3, <1>5 DEF IdsIn
<1> QED BY <1>6, <1>7, <1>9, <1>10 DEF StoredGo

\* A note that goes was removed here or taken in another tab.
LEMMA NoteIsTaken ==
  ASSUME StoredInv, NEW id, NEW how \in {"removed", "taken"},
         stored' = Embedded!Without(stored, id), origin' = [origin EXCEPT ![id] = how]
  PROVE  StoredInv' /\ StoredGo
<1> DEFINE A == {stored[i] : i \in 1..Len(stored)}
<1>1. /\ IsList(stored) /\ IsList(origin)
      /\ \A i \in DOMAIN stored : IsNote(stored[i]) /\ stored[i].id \in DOMAIN origin
  BY DEF StoredInv
<1>2. stored \in Seq(A)
  BY <1>1, ListIsSeq
<1> HIDE DEF A
<1>3. stored' = Removed(stored, id)
  BY OneFilter DEF Embedded!Without, Removed, Embedded!Range, Range
<1>4. /\ stored' \in Seq(A) /\ IdsIn(stored') = IdsIn(stored) \ {id}
      /\ \A i \in DOMAIN stored' : \E j \in DOMAIN stored : stored[j] = stored'[i]
  BY <1>2, <1>3, RemovedIds
<1>5. IsList(stored')
  BY <1>4 DEF IsList
<1>6. DOMAIN origin' = DOMAIN origin /\ IsList(origin')
  <2>1. DOMAIN origin' = DOMAIN origin /\ origin' = [i \in DOMAIN origin |-> origin'[i]]
    OBVIOUS
  <2>2. DOMAIN origin = 1..Len(origin) /\ Len(origin) \in Nat
    BY <1>1 DEF IsList
  <2>3. Len(origin') = Len(origin)
    BY <2>1, <2>2
  <2> QED BY <2>1, <2>2, <2>3 DEF IsList
<1>7. StoredInv'
  BY <1>1, <1>4, <1>5, <1>6 DEF StoredInv
<1>8. \A k \in IdsIn(stored) : k \in DOMAIN origin
  BY <1>1 DEF IdsIn
<1>9. id \in DOMAIN origin => origin'[id] = how
  OBVIOUS
<1> QED BY <1>4, <1>7, <1>8, <1>9 DEF StoredGo

\* A note goes once, removed or taken, and never comes back.
LEMMA StepStored ==
  StoredInv /\ [EmbeddedNext]_(Embedded!builderVars) => StoredInv' /\ [StoredGo]_(Embedded!panelState)
<1> SUFFICES ASSUME StoredInv, [EmbeddedNext]_(Embedded!builderVars)
             PROVE  StoredInv' /\ StoredGo
  OBVIOUS
<1>1. CASE UNCHANGED <<stored, origin>>
  BY <1>1 DEF StoredInv, StoredGo
<1>2. CASE Embedded!SegmentNext \/ Embedded!QueryNext \/ UNCHANGED Embedded!builderVars
  <2>1. UNCHANGED <<stored, origin>>
    BY <1>2 DEF Embedded!SegmentNext, Embedded!NewRow, Embedded!DropRow, Embedded!ChooseField,
       Embedded!ChooseValue, Embedded!ChooseOp, Embedded!ChooseLogic, Embedded!HandleSave,
       Embedded!WithCondition, Embedded!Change, Embedded!OnlySegment, Embedded!panelState,
       Embedded!QueryNext, Embedded!ToggleColumn, Embedded!AddFilter, Embedded!UpdateFilter,
       Embedded!RemoveFilter, Embedded!NameQuery, Embedded!SaveQuery, Embedded!LoadQuery,
       Embedded!Remount, Embedded!OnlyBuilder, Embedded!builderVars
  <2> QED BY <1>1, <2>1
<1>3. CASE Embedded!AddNote
  <2>1. PICK text : stored' = Append(stored, Embedded!Made(text)) /\ origin' = Append(origin, "here")
    BY Zenon, <1>3 DEF Embedded!AddNote
  <2> QED BY <2>1, NoteIsMade
<1>4. CASE Embedded!StartEdit \/ Embedded!TypeText \/ Embedded!CancelEdit \/ Embedded!ShowPanel
  <2>1. UNCHANGED <<stored, origin>>
    BY Zenon, <1>4 DEF Embedded!StartEdit, Embedded!TypeText, Embedded!CancelEdit, Embedded!ShowPanel
  <2> QED BY <1>1, <2>1
<1>5. CASE Embedded!CommitEdit
  <2>1. origin' = origin
        /\ (stored' = stored \/ stored' = Embedded!Worded(stored, panel.editing, panel.text))
    BY Zenon, <1>5 DEF Embedded!CommitEdit
  <2>2. CASE stored' = Embedded!Worded(stored, panel.editing, panel.text)
    <3> DEFINE k == panel.editing
               text == panel.text
    <3> HIDE DEF k, text
    <3>1. stored' = [i \in DOMAIN stored |->
                       IF stored[i].id = k THEN [stored[i] EXCEPT !.text = text] ELSE stored[i]]
      BY <2>2 DEF Embedded!Worded, k, text
    <3>2. IsList(stored) /\ \A i \in DOMAIN stored : IsNote(stored[i]) /\ stored[i].id \in DOMAIN origin
      BY DEF StoredInv
    <3>3. DOMAIN stored' = DOMAIN stored /\ \A i \in DOMAIN stored :
            stored'[i] = IF stored[i].id = k THEN [stored[i] EXCEPT !.text = text] ELSE stored[i]
      BY <3>1
    <3>4. ASSUME NEW n, IsNote(n)
          PROVE  IsNote([n EXCEPT !.text = text]) /\ [n EXCEPT !.text = text].id = n.id
      BY <3>4 DEF IsNote
    <3>5. \A i \in DOMAIN stored : IsNote(stored'[i]) /\ stored'[i].id = stored[i].id
      BY <3>2, <3>3, <3>4
    <3>6. IsList(stored')
      <4>1. DOMAIN stored = 1..Len(stored) /\ Len(stored) \in Nat
        BY <3>2 DEF IsList
      <4>2. Len(stored') = Len(stored)
        BY <3>3, <4>1
      <4> QED BY <3>1, <4>1, <4>2 DEF IsList
    <3>7. StoredInv'
      BY <2>1, <3>2, <3>3, <3>5, <3>6 DEF StoredInv
    <3>8. IdsIn(stored') = IdsIn(stored)
      BY <3>3, <3>5 DEF IdsIn
    <3> QED BY <3>7, <3>8 DEF StoredGo
  <2> QED BY <1>1, <2>1, <2>2
<1>6. CASE Embedded!RemoveNote
  <2>1. PICK id : stored' = Embedded!Without(stored, id) /\ origin' = [origin EXCEPT ![id] = "removed"]
    BY <1>6 DEF Embedded!RemoveNote
  <2> QED BY <2>1, NoteIsTaken
<1>7. CASE Embedded!OtherTab
  <2>1. \/ \E text : stored' = Append(stored, Embedded!Made(text)) /\ origin' = Append(origin, "there")
        \/ \E id : stored' = Embedded!Without(stored, id) /\ origin' = [origin EXCEPT ![id] = "taken"]
    BY Zenon, <1>7 DEF Embedded!OtherTab
  <2> QED BY <2>1, NoteIsMade, NoteIsTaken
<1> QED BY <1>2, <1>3, <1>4, <1>5, <1>6, <1>7 DEF EmbeddedNext, Embedded!PanelNext

\* Messages are lists of what is not blank, files one of what was made.
MessagesInv ==
  /\ chat = [typed |-> chat.typed, messages |-> chat.messages] /\ IsList(chat.messages)
  /\ \A i \in DOMAIN chat.messages : ~Embedded!Blank(chat.messages[i])
  /\ "files" \in DOMAIN sharing
  /\ IsList(sharing.files)

\* What a step does to the messages and to the files.
MessagesGo ==
  /\ Embedded!Ends(chat.messages, chat'.messages)
  /\ \A i \in DOMAIN chat'.messages : ~Embedded!Blank(chat'.messages[i])
  /\ Embedded!Begins(sharing.files, sharing'.files)

\* The chat opens without messages, the sharing window without files.
LEMMA InitChat == Embedded!PanelsInit => MessagesInv
<1> SUFFICES ASSUME Embedded!PanelsInit PROVE MessagesInv
  OBVIOUS
<1>1. PICK p, x : sharing = [platform |-> p, text |-> x, busy |-> FALSE, making |-> None,
        timers |-> <<Embedded!Card(p, x)>>, canvas |-> None, files |-> << >>, clicks |-> 0]
  BY Zenon DEF Embedded!PanelsInit
<1>2. PICK typed : chat = [typed |-> typed, messages |-> << >>]
  BY Zenon DEF Embedded!PanelsInit
<1>3. IsList(<< >>) /\ DOMAIN << >> = {}
  BY DEF IsList
<1> QED BY <1>1, <1>2, <1>3 DEF MessagesInv

\* A list begins and ends itself, and begins the list with one more.
LEMMA ListsBegin ==
  ASSUME NEW s, IsList(s)
  PROVE  /\ Begins(s, s) /\ \A e : Begins(s, Append(s, e))
         /\ Embedded!Ends(s, s)
<1>1. s \in Seq({s[i] : i \in 1..Len(s)})
  BY ListIsSeq
<1>2. Begins(s, s)
  BY <1>1, BeginsItself
<1>3. ASSUME NEW e PROVE Begins(s, Append(s, e))
  <2> DEFINE A == {s[i] : i \in 1..Len(s)} \cup {e}
  <2>1. s \in Seq(A) /\ e \in A
    BY <1>1, SeqOfMore
  <2> HIDE DEF A
  <2> QED BY <2>1, BeginsLonger
<1>4. Embedded!Ends(s, s)
  <2> DEFINE A == {s[i] : i \in 1..Len(s)}
  <2>1. s \in Seq(A)
    BY <1>1
  <2> HIDE DEF A
  <2>2. 0 \in 0..Len(s) /\ s = SubSeq(s, 0 + 1, Len(s))
    BY <2>1
  <2> QED BY <2>2 DEF Embedded!Ends
<1> QED BY <1>2, <1>3, <1>4

\* A list ends the list with one more in front.
LEMMA ListsEnd ==
  ASSUME NEW s, IsList(s), NEW e
  PROVE  LET t == <<e>> \o s IN
         /\ IsList(t) /\ Embedded!Ends(s, t)
         /\ \A i \in DOMAIN t : t[i] = e \/ \E j \in DOMAIN s : t[i] = s[j]
<1> DEFINE A == {s[i] : i \in 1..Len(s)} \cup {e}
           t == <<e>> \o s
<1>1. s \in Seq(A) /\ e \in A
  <2>1. s \in Seq({s[i] : i \in 1..Len(s)})
    BY ListIsSeq
  <2> QED BY <2>1, SeqOfMore
<1> HIDE DEF A
<1>2. /\ t \in Seq(A) /\ Len(t) = Len(s) + 1 /\ Len(s) \in Nat /\ t[1] = e
      /\ \A i \in 1..Len(s) : t[i + 1] = s[i]
  BY <1>1
<1> HIDE DEF t
<1>3. IsList(t)
  BY <1>2 DEF IsList
<1>4. s = SubSeq(t, 1 + 1, Len(t))
  <2> DEFINE u == SubSeq(t, 2, Len(t))
  <2>1. u \in Seq(A) /\ Len(u) = Len(s) /\ \A i \in 1..Len(s) : u[i] = t[i + 1]
    BY <1>2
  <2> HIDE DEF u
  <2>2. u = s
    BY <1>1, <1>2, <2>1
  <2> QED BY <2>2 DEF u
<1>5. 1 \in 0..Len(t)
  BY <1>2
<1>6. Embedded!Ends(s, t)
  BY <1>4, <1>5 DEF Embedded!Ends
<1>7. ASSUME NEW i \in DOMAIN t PROVE t[i] = e \/ \E j \in DOMAIN s : t[i] = s[j]
  <2>1. i = 1 \/ (i - 1 \in 1..Len(s) /\ t[(i - 1) + 1] = s[i - 1] /\ (i - 1) + 1 = i)
    BY <1>2
  <2> QED BY <1>1, <1>2, <2>1
<1> QED BY <1>3, <1>6, <1>7 DEF t

\* The messages and the files only get longer, and no message is blank.
LEMMA StepChat ==
  MessagesInv /\ [PanelsNext]_(Embedded!panelVars) => MessagesInv' /\ [MessagesGo]_<<chat, sharing>>
<1> SUFFICES ASSUME MessagesInv, [PanelsNext]_(Embedded!panelVars)
             PROVE  MessagesInv' /\ (MessagesGo \/ UNCHANGED <<chat, sharing>>)
  OBVIOUS
<1>1. /\ IsList(chat.messages) /\ IsList(sharing.files)
      /\ \A i \in DOMAIN chat.messages : ~Embedded!Blank(chat.messages[i])
  BY DEF MessagesInv
<1>2. CASE UNCHANGED <<chat, sharing>>
  BY <1>2 DEF MessagesInv
<1>3. ASSUME UNCHANGED sharing,
             \E typed : chat' = [typed |-> typed, messages |-> chat.messages]
      PROVE  MessagesInv' /\ MessagesGo
  <2>1. /\ chat'.messages = chat.messages
        /\ chat' = [typed |-> chat'.typed, messages |-> chat'.messages]
    BY <1>3
  <2> QED BY <1>1, <1>3, <2>1, ListsBegin, OneBeginning DEF MessagesInv, MessagesGo
<1>4. ASSUME UNCHANGED chat, "files" \in DOMAIN sharing',
             \/ sharing'.files = sharing.files
             \/ \E f : sharing'.files = Append(sharing.files, f)
      PROVE  MessagesInv' /\ MessagesGo
  <2>1. IsList(sharing'.files) /\ Begins(sharing.files, sharing'.files)
    <3>1. CASE sharing'.files = sharing.files
      BY <1>1, <3>1, ListsBegin
    <3>2. ASSUME NEW f, sharing'.files = Append(sharing.files, f)
          PROVE  IsList(sharing'.files) /\ Begins(sharing.files, sharing'.files)
      BY <1>1, <3>2, ListsBegin, AppendedList
    <3> QED BY <1>4, <3>1, <3>2
  <2> QED BY <1>1, <1>4, <2>1, ListsBegin, OneBeginning DEF MessagesInv, MessagesGo
<1>5. ASSUME NEW text, Embedded!TypeMessage(text) PROVE MessagesInv' /\ MessagesGo
  <2>1. UNCHANGED sharing /\ chat' = [typed |-> text, messages |-> chat.messages]
    BY <1>5 DEF Embedded!TypeMessage, Embedded!OnlyChat, MessagesInv
  <2> QED BY <1>3, <2>1
<1>6. CASE Embedded!Send
  <2>1. /\ UNCHANGED sharing /\ ~Embedded!Blank(chat.typed)
        /\ \E x : chat' = [typed |-> x, messages |-> <<chat.typed>> \o chat.messages]
    BY Zenon, <1>6 DEF Embedded!Send, Embedded!OnlyChat
  <2> DEFINE s == chat.messages
             e == chat.typed
             t == <<e>> \o s
  <2>2. /\ IsList(t) /\ Embedded!Ends(s, t)
        /\ \A i \in DOMAIN t : t[i] = e \/ \E j \in DOMAIN s : t[i] = s[j]
    BY <1>1, ListsEnd
  <2>3. chat'.messages = t /\ chat' = [typed |-> chat'.typed, messages |-> chat'.messages]
    BY <2>1
  <2>4. \A i \in DOMAIN t : ~Embedded!Blank(t[i])
    BY <1>1, <2>1, <2>2
  <2> HIDE DEF t
  <2> QED BY <1>1, <2>1, <2>2, <2>3, <2>4, ListsBegin, OneBeginning DEF MessagesInv, MessagesGo
<1>7. CASE Embedded!SharingNext
  <2>1. "files" \in DOMAIN sharing
    BY DEF MessagesInv
  <2>2. UNCHANGED chat
    BY <1>7 DEF Embedded!SharingNext, Embedded!ChoosePlatform, Embedded!EditField,
       Embedded!DrawPreview, Embedded!Download, Embedded!BlobReady, Embedded!BlobFails,
       Embedded!OnlySharing
  <2>3. ASSUME NEW s, "files" \in DOMAIN s,
               s.files = sharing.files \/ \E f : s.files = Append(sharing.files, f),
               sharing' = Embedded!Rendered(s)
        PROVE  MessagesInv' /\ MessagesGo
    <3>1. PICK l : sharing' = [s EXCEPT !.timers = l]
      BY <2>3 DEF Embedded!Rendered
    <3>2. "files" \in DOMAIN sharing' /\ sharing'.files = s.files
      BY <2>3, <3>1
    <3> QED BY <1>4, <2>2, <2>3, <3>2
  <2>4. ASSUME NEW p, Embedded!ChoosePlatform(p) PROVE MessagesInv' /\ MessagesGo
    <3> DEFINE s == [sharing EXCEPT !.platform = p, !.clicks = @ + 1]
    <3>1. sharing' = Embedded!Rendered(s)
      BY <2>4 DEF Embedded!ChoosePlatform, Embedded!OnlySharing
    <3>2. "files" \in DOMAIN s /\ s.files = sharing.files
      BY <2>1
    <3> HIDE DEF s
    <3> QED BY <2>3, <3>1, <3>2
  <2>5. ASSUME NEW x, Embedded!EditField(x) PROVE MessagesInv' /\ MessagesGo
    <3> DEFINE s == [sharing EXCEPT !.text = x, !.clicks = @ + 1]
    <3>1. sharing' = Embedded!Rendered(s)
      BY <2>5 DEF Embedded!EditField, Embedded!OnlySharing
    <3>2. "files" \in DOMAIN s /\ s.files = sharing.files
      BY <2>1
    <3> HIDE DEF s
    <3> QED BY <2>3, <3>1, <3>2
  <2>6. CASE Embedded!DrawPreview
    <3>1. PICK c, l : sharing' = [sharing EXCEPT !.canvas = c, !.timers = l]
      BY <2>6 DEF Embedded!DrawPreview, Embedded!OnlySharing
    <3>2. "files" \in DOMAIN sharing' /\ sharing'.files = sharing.files
      BY <2>1, <3>1
    <3> QED BY <1>4, <2>2, <3>2
  <2>7. CASE Embedded!Download
    <3> DEFINE m == [name |-> sharing.platform, card |-> Embedded!Card(sharing.platform, sharing.text)]
               s == [sharing EXCEPT !.busy = TRUE, !.clicks = @ + 1, !.making = m]
    <3>1. sharing' = Embedded!Rendered(s)
      BY <2>7 DEF Embedded!Download, Embedded!OnlySharing
    <3> HIDE DEF m
    <3>2. "files" \in DOMAIN s /\ s.files = sharing.files
      BY <2>1
    <3> HIDE DEF s
    <3> QED BY <2>3, <3>1, <3>2
  <2>8. CASE Embedded!BlobReady
    <3> DEFINE f == Append(sharing.files, sharing.making)
               s == [sharing EXCEPT !.files = f, !.making = None, !.busy = FALSE]
    <3>1. sharing' = Embedded!Rendered(s)
      BY <2>8 DEF Embedded!BlobReady, Embedded!OnlySharing
    <3>2. \E file : f = Append(sharing.files, file)
      OBVIOUS
    <3> HIDE DEF f
    <3>3. "files" \in DOMAIN s /\ s.files = f
      BY <2>1
    <3> HIDE DEF s
    <3> QED BY <2>3, <3>1, <3>2, <3>3
  <2>9. CASE Embedded!BlobFails
    <3> DEFINE s == [sharing EXCEPT !.making = None, !.busy = FALSE]
    <3>1. sharing' = Embedded!Rendered(s)
      BY <2>9 DEF Embedded!BlobFails, Embedded!OnlySharing
    <3>2. "files" \in DOMAIN s /\ s.files = sharing.files
      BY <2>1
    <3> HIDE DEF s
    <3> QED BY <2>3, <3>1, <3>2
  <2> QED BY <1>7, <2>4, <2>5, <2>6, <2>7, <2>8, <2>9 DEF Embedded!SharingNext
<1>8. CASE Embedded!DrawerNext \/ Embedded!RankingNext \/ UNCHANGED Embedded!panelVars
  <2>1. UNCHANGED <<chat, sharing>>
    BY <1>8 DEF Embedded!DrawerNext, Embedded!OpenDrawer, Embedded!CloseDrawer, Embedded!OnlyDrawer,
       Embedded!RankingNext, Embedded!ClickBar, Embedded!CloseDetail, Embedded!OnlyRanking,
       Embedded!panelVars
  <2> QED BY <1>2, <2>1
<1> QED BY <1>5, <1>6, <1>7, <1>8 DEF PanelsNext, Embedded!ChatNext

-----------------------------------------------------------------------------
(* Nothing is lost: the composition *)

\* What the lists rest on, all of it.
KeptInv ==
  /\ RegionsToldInv /\ PagerInv /\ TestsInv /\ CanvasInv /\ SegmentsInv /\ SegmenterInv
  /\ FlagsInv /\ CsvInv /\ StoredInv /\ MessagesInv

\* The browser opens on what the lists rest on.
LEMMA InitKept == Init => KeptInv
<1> SUFFICES ASSUME Init PROVE KeptInv
  OBVIOUS
<1>1. RegionsToldInv /\ PagerInv /\ CanvasInv /\ SegmentsInv
  BY InitRegionsTold, InitPager, InitCanvas, InitSegments DEF Init
<1>2. TestsInv
  <2>1. Tests!ExperimentsInit \/ experiments = << >>
    BY DEF Init
  <2> QED BY <2>1, InitTests
<1>3. SegmenterInv
  BY InitSegments DEF Init, SegmenterInv
<1>4. FlagsInv /\ CsvInv /\ StoredInv /\ MessagesInv
  BY InitFlags, InitCsv, InitStored, InitChat DEF Init
<1> QED BY <1>1, <1>2, <1>3, <1>4 DEF KeptInv

\* Every step keeps it, and does to each list what that list allows.
LEMMA StepKept ==
  BrowserInv /\ KeptInv /\ [Next]_browserVars =>
    /\ KeptInv'
    /\ [BookmarksGo]_bookmarkVars /\ [NotesGo]_noteVars /\ [RegionsGo]_regionVars
    /\ [PinsGo]_mapVars /\ [WidgetsGo]_reportVars /\ [SegmentsGo]_segmentVars
    /\ [QueriesSaved /\ FlagsGo]_formVars /\ [RowsGo]_exportVars /\ [PagerGoes]_pager
    /\ [TestsGo]_experiments /\ [Embedded!Page!SegmentsNext]_(Embedded!segmentState)
    /\ [HandedGo]_(Embedded!queryState) /\ [StoredGo]_(Embedded!panelState)
    /\ [MessagesGo]_<<chat, sharing>>
<1> SUFFICES ASSUME BrowserInv, KeptInv, [Next]_browserVars
             PROVE  /\ KeptInv'
                    /\ [BookmarksGo]_bookmarkVars /\ [NotesGo]_noteVars /\ [RegionsGo]_regionVars
                    /\ [PinsGo]_mapVars /\ [WidgetsGo]_reportVars /\ [SegmentsGo]_segmentVars
                    /\ [QueriesSaved /\ FlagsGo]_formVars /\ [RowsGo]_exportVars
                    /\ [PagerGoes]_pager /\ [TestsGo]_experiments
                    /\ [Embedded!Page!SegmentsNext]_(Embedded!segmentState)
                    /\ [HandedGo]_(Embedded!queryState) /\ [StoredGo]_(Embedded!panelState)
                    /\ [MessagesGo]_<<chat, sharing>>
  OBVIOUS
<1>1. [BookmarksGo]_bookmarkVars /\ [NotesGo]_noteVars
  BY PartsMove, BookmarksAreKept, NotesAreKept DEF BrowserInv
<1>2. RegionsToldInv' /\ [RegionsGo]_regionVars
  BY PartsMove, StepRegionsTold DEF KeptInv
<1>3. [PinsGo]_mapVars
  BY PartsMove, PinsAreKept DEF BrowserInv
<1>4. CanvasInv' /\ [WidgetsGo]_reportVars
  BY PartsMove, StepCanvas DEF KeptInv
<1>5. SegmentsInv' /\ [SegmentsGo]_segmentVars
  BY PartsMove, StepSegments DEF KeptInv
<1>6. FlagsInv' /\ [QueriesSaved /\ FlagsGo]_formVars
  BY PartsMove, StepSavedStays DEF KeptInv, BrowserInv, FormsInv
<1>7. CsvInv' /\ [RowsGo]_exportVars
  BY PartsMove, StepCsv DEF KeptInv
<1>8. PagerInv' /\ [PagerGoes]_pager
  BY PartsMove, KitMoves, StepPager DEF KeptInv
<1>9. TestsInv' /\ [TestsGo]_experiments
  BY PartsMove, StepTests DEF KeptInv
<1>10. SegmenterInv' /\ [Embedded!Page!SegmentsNext]_(Embedded!segmentState)
  BY PartsMove, StepSegmenter DEF KeptInv
<1>11. [HandedGo]_(Embedded!queryState)
  BY PartsMove, StepHanded DEF BrowserInv
<1>12. StoredInv' /\ [StoredGo]_(Embedded!panelState)
  BY PartsMove, StepStored DEF KeptInv
<1>13. MessagesInv' /\ [MessagesGo]_<<chat, sharing>>
  BY PartsMove, StepChat DEF KeptInv
<1>14. KeptInv'
  BY <1>2, <1>4, <1>5, <1>6, <1>7, <1>8, <1>9, <1>10, <1>12, <1>13 DEF KeptInv
<1> QED BY <1>1, <1>2, <1>3, <1>4, <1>5, <1>6, <1>7, <1>8, <1>9, <1>10, <1>11, <1>12, <1>13, <1>14

\* Nothing a user kept goes unless the user let it go, on any page of either
\* application and however the tabs, the requests and the timers interleave: each
\* list loses only what a step of its own removes, a file is written from the rows
\* of its click, a page number stays in the table, and a winner stays declared.
THEOREM NothingGoes == Spec => NothingIsLost
<1>1. Spec => []BrowserInv /\ []KeptInv /\ [][Next]_browserVars
  BY InitKept, StepKept, BrowserKeepsInv, PTL DEF Spec
<1>2. Spec => Saved!NoBookmarkIsLost
  BY <1>1, StepKept, PTL DEF BookmarksGo, bookmarkVars, Saved!NoBookmarkIsLost, Saved!bookmarkVars
<1>3. Spec => Saved!NoNoteIsLost
  BY <1>1, StepKept, PTL DEF NotesGo, noteVars, Saved!NoNoteIsLost, Saved!noteVars
<1>4. Spec => Regions!NoRegionIsHidden
  BY <1>1, StepKept, PTL DEF RegionsGo, regionVars, Regions!NoRegionIsHidden, Regions!regionVars
<1>5. Spec => GistMap!NoPinIsLost
  BY <1>1, StepKept, PTL DEF PinsGo, mapVars, GistMap!NoPinIsLost, GistMap!mapVars
<1>6. Spec => Report!NoWidgetIsLost
  BY <1>1, StepKept, PTL DEF WidgetsGo, reportVars, Report!NoWidgetIsLost, Report!reportVars
<1>7. Spec => Segments!NoSegmentIsLost
  BY <1>1, StepKept, PTL DEF SegmentsGo, segmentVars, Segments!NoSegmentIsLost, Segments!segmentVars
<1>8. Spec => Forms!SavedStays
  <2>1. BrowserInv /\ KeptInv /\ [Next]_browserVars =>
          [/\ Forms!Begins(query.saved, query'.saved) /\ FlagsGo]_formVars
    BY StepKept, OneBeginning DEF QueriesSaved
  <2> QED BY <1>1, <2>1, PTL DEF FlagsGo, formVars, Forms!SavedStays, Forms!formVars
<1>9. Spec => Files!RowsAreThoseOfTheClick
  <2>1. BrowserInv /\ KeptInv /\ [Next]_browserVars =>
          [csv.run # None /\ csv'.run # None =>
             csv'.run.rows = csv.run.rows /\ Files!Begins(csv.run.output, csv'.run.output)]_exportVars
    BY StepKept, OneBeginning DEF RowsGo
  <2> QED BY <1>1, <2>1, PTL DEF exportVars, Files!RowsAreThoseOfTheClick, Files!exportVars
<1>10. Spec => Components!PagesAreTheTables
  BY <1>1, StepKept, PTL DEF PagerGoes, Components!PagesAreTheTables
<1>11. Spec => Tests!WinnersStay
  BY <1>1, StepKept, PTL DEF TestsGo, Tests!WinnersStay
<1>12. Spec => Embedded!BuilderIsThePage
  BY <1>1, StepKept, PTL DEF Embedded!BuilderIsThePage
<1>13. Spec => Embedded!QueriesStay
  BY <1>1, StepKept, PTL DEF HandedGo, Embedded!QueriesStay
<1>14. Spec => Embedded!NotesGoOnce
  BY <1>1, StepKept, PTL DEF StoredGo, IdsIn, Embedded!NotesGoOnce
<1>15. Spec => Embedded!MessagesStay
  BY <1>1, StepKept, PTL DEF MessagesGo, Embedded!MessagesStay
<1> QED BY <1>2, <1>3, <1>4, <1>5, <1>6, <1>7, <1>8, <1>9, <1>10, <1>11, <1>12, <1>13, <1>14,
        <1>15, PTL DEF NothingIsLost
=============================================================================
