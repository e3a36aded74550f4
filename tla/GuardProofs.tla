----------------------------- MODULE GuardProofs -----------------------------
(***************************************************************************)
(* What holds of the water budget for all settings, requests, numbers of   *)
(* operators and lengths of the deque.                                     *)
(*                                                                         *)
(* The invariant compares two sums: what was acknowledged within the last  *)
(* t ticks is no more than what the history has of these ticks (Covered),  *)
(* and what the budget answers for is within it (Owing).  Sums are taken   *)
(* step by step along a sequence, by induction on its length, which rests  *)
(* on the least counterexample; what a step of the guard does to a sum is  *)
(* then one of five lemmas (AmountAppend, AmountWithout, AmountSuffix,     *)
(* AmountSettled, AmountSame).                                             *)
(***************************************************************************)
EXTENDS SprayGuard, SequenceTheorems, WellFoundedInduction, TLAPS

----------------------------------------------------------------------------
(* Induction on a number, by the least counterexample.                     *)

LEMMA LessIsWellFounded == IsWellFoundedOn({p \in Nat \X Nat : p[1] < p[2]}, Nat)
<1>1. OpToRel(<, Nat) = {p \in Nat \X Nat : p[1] < p[2]}
  BY DEF OpToRel
<1> QED
  BY <1>1, NatLessThanWellFounded

LEMMA Least ==
  ASSUME NEW S, S \subseteq Nat, S # {}
  PROVE  \E n \in S : \A m \in S : n <= m
<1> DEFINE R == {p \in Nat \X Nat : p[1] < p[2]}
<1>1. IsWellFoundedOn(R, Nat)
  BY LessIsWellFounded
<1> HIDE DEF R
<1>2. PICK n \in S : \A m \in S : <<m, n>> \notin R
  BY <1>1, WFMin
<1>3. ASSUME NEW m \in S PROVE n <= m
  <2>1. <<m, n>> \notin R
    BY <1>2
  <2>2. m \in Nat /\ n \in Nat
    OBVIOUS
  <2> QED
    BY <2>1, <2>2 DEF R
<1> QED
  BY <1>3

LEMMA Induction ==
  ASSUME NEW S, 0 \in S, \A n \in Nat : n \in S => n + 1 \in S
  PROVE  Nat \subseteq S
<1> DEFINE Bad == {n \in Nat : n \notin S}
<1> SUFFICES ASSUME Bad # {} PROVE FALSE
  OBVIOUS
<1> HIDE DEF Bad
<1>1. PICK n \in Bad : \A m \in Bad : n <= m
  BY Least DEF Bad
<1>2. n \in Nat /\ n # 0 /\ n \notin S
  BY DEF Bad
<1>3. n - 1 \in Nat /\ n - 1 + 1 = n
  BY <1>2
<1>4. n - 1 \notin S
  BY <1>2, <1>3
<1> QED
  BY <1>1, <1>3, <1>4 DEF Bad

----------------------------------------------------------------------------
(* Running sums.                                                           *)

IsUpTo(t, f, len) == t = [n \in 0..len |-> IF n = 0 THEN 0 ELSE t[n - 1] + f[n]]

\* A function is defined by the recursion.
LEMMA UpToExists ==
  ASSUME NEW f, NEW len \in Nat
  PROVE  \E t : IsUpTo(t, f, len)
<1> DEFINE S == {n \in Nat : \E t : IsUpTo(t, f, n)}
<1>1. 0 \in S
  <2> DEFINE t == [n \in 0..0 |-> 0]
  <2>1. IsUpTo(t, f, 0)
    BY DEF IsUpTo
  <2> QED
    BY <2>1
<1>2. ASSUME NEW n \in Nat, n \in S PROVE n + 1 \in S
  <2>1. PICK t : IsUpTo(t, f, n)
    BY <1>2
  <2> DEFINE u == [k \in 0..n+1 |-> IF k = n + 1 THEN t[n] + f[n + 1] ELSE t[k]]
  <2>2. \A k \in 0..n : t[k] = IF k = 0 THEN 0 ELSE t[k - 1] + f[k]
    BY <2>1 DEF IsUpTo
  <2>3. \A k \in 0..n+1 : u[k] = IF k = 0 THEN 0 ELSE u[k - 1] + f[k]
    <3> TAKE k \in 0..n+1
    <3>1. CASE k = n + 1
      BY <3>1
    <3>2. CASE k \in 1..n
      BY <3>2, <2>2
    <3>3. CASE k = 0
      BY <3>3, <2>2
    <3> QED
      BY <3>1, <3>2, <3>3
  <2> HIDE DEF u
  <2>4. u = [k \in 0..n+1 |-> u[k]]
    BY DEF u
  <2>5. IsUpTo(u, f, n + 1)
    BY <2>3, <2>4 DEF IsUpTo
  <2> QED
    BY <2>5
<1> HIDE DEF S
<1>3. Nat \subseteq S
  BY <1>1, <1>2, Induction
<1> QED
  BY <1>3 DEF S

LEMMA UpToIs ==
  ASSUME NEW f, NEW len \in Nat
  PROVE  /\ Subtotals(f, len)[0] = 0
         /\ \A n \in 0..len - 1 : Subtotals(f, len)[n + 1] = Subtotals(f, len)[n] + f[n + 1]
<1> DEFINE t == Subtotals(f, len)
<1>1. t = CHOOSE u : u = [n \in 0..len |-> IF n = 0 THEN 0 ELSE u[n - 1] + f[n]]
  BY DEF Subtotals
<1>2. \E u : u = [n \in 0..len |-> IF n = 0 THEN 0 ELSE u[n - 1] + f[n]]
  BY UpToExists DEF IsUpTo
<1> HIDE DEF t
<1>3. t = [n \in 0..len |-> IF n = 0 THEN 0 ELSE t[n - 1] + f[n]]
  BY <1>1, <1>2, Zenon
<1>4. t[0] = 0
  BY <1>3
<1>5. ASSUME NEW n \in 0..len - 1 PROVE t[n + 1] = t[n] + f[n + 1]
  <2>1. n + 1 \in 0..len /\ n + 1 # 0 /\ n + 1 - 1 = n
    OBVIOUS
  <2> QED
    BY <1>3, <2>1
<1> QED
  BY <1>4, <1>5 DEF t

\* F runs through the sums of the first n amounts of f.
Running(F, f, n) ==
  /\ F[0] = 0
  /\ \A k \in 0..n : F[k] \in Nat
  /\ \A k \in 1..n : f[k] \in Nat /\ F[k] = F[k - 1] + f[k]

LEMMA UpToRuns ==
  ASSUME NEW f, NEW len \in Nat, \A k \in 1..len : f[k] \in Nat
  PROVE  Running(Subtotals(f, len), f, len)
<1> DEFINE F == Subtotals(f, len)
           S == {n \in Nat : n <= len => F[n] \in Nat}
<1>1. F[0] = 0 /\ \A n \in 0..len - 1 : F[n + 1] = F[n] + f[n + 1]
  BY UpToIs
<1> HIDE DEF F
<1>2. 0 \in S
  BY <1>1
<1>3. ASSUME NEW n \in Nat, n \in S PROVE n + 1 \in S
  <2> SUFFICES ASSUME n + 1 <= len PROVE F[n + 1] \in Nat
    OBVIOUS
  <2>1. F[n + 1] = F[n] + f[n + 1] /\ n + 1 \in 1..len
    BY <1>1
  <2>2. F[n] \in Nat /\ f[n + 1] \in Nat
    BY <1>3, <2>1
  <2> QED
    BY <2>1, <2>2
<1>4. Nat \subseteq S
  <2> HIDE DEF S
  <2> QED
    BY <1>2, <1>3, Induction
<1>5. \A k \in 0..len : F[k] \in Nat
  BY <1>4
<1>6. ASSUME NEW k \in 1..len PROVE F[k] = F[k - 1] + f[k]
  <2>1. k - 1 \in 0..len - 1 /\ k - 1 + 1 = k
    OBVIOUS
  <2> QED
    BY <1>1, <2>1
<1> QED
  BY <1>1, <1>5, <1>6 DEF Running, F

\* After the first a amounts, up to the b-th, g is f moved by d.
Alike(f, g, a, d, b) == \A i \in a + 1..b : g[i] = f[i + d]

Within(a, d, b, p, q) == a <= b /\ b <= q /\ b + d <= p

\* Two that run over the same amounts, d apart, grow alike.
LEMMA SumsAlike ==
  ASSUME NEW F, NEW G, NEW f, NEW g, NEW p \in Nat, NEW q \in Nat,
         Running(F, f, p), Running(G, g, q),
         NEW a \in Nat, NEW d \in Nat, NEW b \in Nat,
         Within(a, d, b, p, q), Alike(f, g, a, d, b)
  PROVE  G[b] - G[a] = F[b + d] - F[a + d]
<1> USE DEF Within, Alike
<1> DEFINE S == {n \in Nat : a <= n /\ n <= b => G[n] - G[a] = F[n + d] - F[a + d]}
<1>1. \A n \in 0..b : G[n] \in Nat /\ F[n + d] \in Nat
  BY DEF Running
<1>2. 0 \in S
  BY <1>1
<1>3. ASSUME NEW n \in Nat, n \in S PROVE n + 1 \in S
  <2> SUFFICES ASSUME a <= n + 1, n + 1 <= b
               PROVE  G[n + 1] - G[a] = F[n + 1 + d] - F[a + d]
    OBVIOUS
  <2>1. CASE a = n + 1
    BY <1>1, <2>1
  <2>2. CASE a <= n
    <3>1. G[n] - G[a] = F[n + d] - F[a + d]
      BY <1>3, <2>2
    <3>2. G[n + 1] = G[n] + g[n + 1]
      <4>1. n + 1 \in 1..q /\ n + 1 - 1 = n
        OBVIOUS
      <4> QED
        BY <4>1 DEF Running
    <3>3. F[n + 1 + d] = F[n + d] + f[n + 1 + d]
      <4>1. n + 1 + d \in 1..p /\ n + 1 + d - 1 = n + d
        OBVIOUS
      <4> QED
        BY <4>1 DEF Running
    <3>4. g[n + 1] = f[n + 1 + d]
      BY <2>2
    <3>5. /\ G[n] \in Nat /\ G[n + 1] \in Nat /\ G[a] \in Nat
          /\ F[n + d] \in Nat /\ F[n + 1 + d] \in Nat /\ F[a + d] \in Nat
      BY <1>1, <2>2
    <3> HIDE DEF S
    <3>6. G[n + 1] - G[n] = F[n + 1 + d] - F[n + d]
      <4> DEFINE x == f[n + 1 + d]
      <4>1. G[n + 1] = G[n] + x /\ F[n + 1 + d] = F[n + d] + x
        BY <3>2, <3>3, <3>4
      <4>2. x \in Int
        <5>1. n + 1 + d \in 1..p
          OBVIOUS
        <5> QED
          BY <5>1 DEF Running
      <4> HIDE DEF x
      <4> QED
        BY <3>5, <4>1, <4>2
    <3> QED
      BY <3>1, <3>5, <3>6
  <2> QED
    BY <2>1, <2>2
<1>4. Nat \subseteq S
  <2> HIDE DEF S
  <2> QED
    BY <1>2, <1>3, Induction
<1> QED
  BY <1>4

LEMMA SumsSame ==
  ASSUME NEW F, NEW G, NEW f, NEW g, NEW p \in Nat, NEW q \in Nat,
         Running(F, f, p), Running(G, g, q), NEW b \in Nat, NEW z \in Nat, z = 0,
         b <= p, b <= q, Alike(f, g, z, z, b)
  PROVE  G[b] = F[b]
<1>1. Within(z, z, b, p, q)
  BY DEF Within
<1>2. G[b] - G[z] = F[b + z] - F[z + z]
  BY <1>1, SumsAlike
<1>3. b + z = b /\ z + z = z /\ b \in 0..p /\ b \in 0..q
  OBVIOUS
<1>4. G[b] \in Nat /\ F[b] \in Nat /\ G[z] = 0 /\ F[z] = 0
  BY <1>3 DEF Running
<1> QED
  BY <1>2, <1>3, <1>4

\* Another amount in one place.
LEMMA SumsChanged ==
  ASSUME NEW F, NEW G, NEW f, NEW g, NEW n \in Nat, NEW m \in Nat, NEW j \in Nat,
         j = m + 1, j <= n, NEW z \in Nat, z = 0,
         Running(F, f, n), Running(G, g, n),
         Alike(f, g, z, z, m), Alike(f, g, j, z, n)
  PROVE  G[n] + f[j] = F[n] + g[j]
<1>1. G[m] = F[m]
  <2>1. m <= n
    OBVIOUS
  <2> QED
    BY <2>1, SumsSame
<1>2. G[n] - G[j] = F[n + z] - F[j + z]
  <2>1. Within(j, z, n, n, n)
    BY DEF Within
  <2> QED
    BY <2>1, SumsAlike
<1>3. n + z = n /\ j + z = j /\ j - 1 = m
  OBVIOUS
<1>4. j \in 1..n /\ n \in 0..n /\ m \in 0..n /\ j \in 0..n
  OBVIOUS
<1>5. F[j] = F[m] + f[j] /\ f[j] \in Nat /\ G[j] = G[m] + g[j] /\ g[j] \in Nat
  BY <1>3, <1>4 DEF Running
<1>6. F[n] \in Nat /\ F[m] \in Nat /\ F[j] \in Nat /\ G[n] \in Nat /\ G[m] \in Nat /\ G[j] \in Nat
  BY <1>4 DEF Running
<1>7. G[n] - G[j] = F[n] - F[j]
  BY <1>2, <1>3
<1> QED
  BY <1>1, <1>5, <1>6, <1>7

\* One amount less.
LEMMA SumsWithout ==
  ASSUME NEW F, NEW G, NEW f, NEW g, NEW n \in Nat, NEW m \in Nat, NEW j \in Nat, NEW p \in Nat,
         NEW e \in Nat, e = 1, j = m + e, p = n + e, m <= n, NEW z \in Nat, z = 0,
         Running(F, f, p), Running(G, g, n),
         Alike(f, g, z, z, m), Alike(f, g, m, e, n)
  PROVE  F[p] = G[n] + f[j]
<1>1. G[m] = F[m]
  <2>1. m <= p
    OBVIOUS
  <2> QED
    BY <2>1, SumsSame
<1>2. G[n] - G[m] = F[n + e] - F[m + e]
  <2>1. Within(m, e, n, p, n)
    BY DEF Within
  <2> QED
    BY <2>1, SumsAlike
<1>3. j - 1 = m /\ j \in 1..p /\ n \in 0..n /\ m \in 0..n /\ j \in 0..p /\ p \in 0..p /\ m \in 0..p
  OBVIOUS
<1>4. F[j] = F[m] + f[j] /\ f[j] \in Nat
  BY <1>3 DEF Running
<1>5. F[p] \in Nat /\ F[m] \in Nat /\ F[j] \in Nat /\ G[n] \in Nat /\ G[m] \in Nat
  BY <1>3 DEF Running
<1>6. G[n] - G[m] = F[p] - F[j]
  BY <1>2
<1> QED
  BY <1>1, <1>4, <1>5, <1>6

\* Nothing before the first amount that counts.
LEMMA SumsSuffix ==
  ASSUME NEW F, NEW G, NEW f, NEW g, NEW n \in Nat, NEW d \in Nat, NEW p \in Nat,
         p = n + d, NEW z \in Nat, z = 0,
         Running(F, f, p), Running(G, g, n),
         Alike(f, g, z, d, n), \A i \in 1..d : f[i] = 0
  PROVE  F[p] = G[n]
<1> DEFINE S == {k \in Nat : k <= d => F[k] = 0}
<1>1. 0 \in S
  BY DEF Running
<1>2. ASSUME NEW k \in Nat, k \in S PROVE k + 1 \in S
  <2> SUFFICES ASSUME k + 1 <= d PROVE F[k + 1] = 0
    OBVIOUS
  <2>1. k + 1 \in 1..p /\ k + 1 \in 1..d /\ k + 1 - 1 = k
    OBVIOUS
  <2>2. F[k + 1] = F[k] + f[k + 1]
    BY <2>1 DEF Running
  <2>3. F[k] = 0 /\ f[k + 1] = 0
    BY <1>2, <2>1
  <2> QED
    BY <2>2, <2>3
<1>3. F[d] = 0
  <2>1. Nat \subseteq S
    <3> HIDE DEF S
    <3> QED
      BY <1>1, <1>2, Induction
  <2> QED
    BY <2>1
<1>4. G[n] - G[z] = F[n + d] - F[z + d]
  <2>1. Within(z, d, n, p, n)
    BY DEF Within
  <2> QED
    BY <2>1, SumsAlike
<1>5. z + d = d /\ n \in 0..n /\ p \in 0..p
  OBVIOUS
<1>6. G[z] = 0 /\ G[n] \in Nat /\ F[p] \in Nat
  BY <1>5 DEF Running
<1>7. G[n] - G[z] = F[p] - F[d]
  BY <1>4, <1>5
<1> QED
  BY <1>3, <1>6, <1>7

\* Total of a sequence of amounts: where its running sums arrive.
LEMMA TotalRuns ==
  ASSUME NEW f \in Seq(Nat)
  PROVE  \E F : Running(F, f, Len(f)) /\ Total(f) = F[Len(f)]
<1>1. Len(f) \in Nat /\ \A k \in 1..Len(f) : f[k] \in Nat
  OBVIOUS
<1>2. Running(Subtotals(f, Len(f)), f, Len(f))
  BY <1>1, UpToRuns
<1> QED
  BY <1>2 DEF Total

LEMMA TotalIsNat ==
  ASSUME NEW f \in Seq(Nat)
  PROVE  Total(f) \in Nat
<1>1. PICK F : Running(F, f, Len(f)) /\ Total(f) = F[Len(f)]
  BY TotalRuns
<1>2. Len(f) \in 0..Len(f)
  OBVIOUS
<1> QED
  BY <1>1, <1>2 DEF Running

\* Of two sequences the larger has the larger total.
LEMMA TotalGrows ==
  ASSUME NEW f \in Seq(Nat), NEW g \in Seq(Nat), Len(f) = Len(g),
         \A i \in 1..Len(f) : f[i] <= g[i]
  PROVE  Total(f) <= Total(g)
<1>1. PICK F : Running(F, f, Len(f)) /\ Total(f) = F[Len(f)]
  BY TotalRuns
<1>2. PICK G : Running(G, g, Len(g)) /\ Total(g) = G[Len(g)]
  BY TotalRuns
<1> DEFINE S == {n \in Nat : n <= Len(f) => F[n] <= G[n]}
<1>3. 0 \in S
  BY <1>1, <1>2 DEF Running
<1>4. ASSUME NEW n \in Nat, n \in S PROVE n + 1 \in S
  <2> SUFFICES ASSUME n + 1 <= Len(f) PROVE F[n + 1] <= G[n + 1]
    OBVIOUS
  <2>1. n + 1 \in 1..Len(f) /\ n + 1 \in 1..Len(g) /\ n + 1 - 1 = n /\ n \in 0..Len(f) /\ n \in 0..Len(g)
    OBVIOUS
  <2>2. F[n + 1] = F[n] + f[n + 1] /\ G[n + 1] = G[n] + g[n + 1]
    BY <1>1, <1>2, <2>1 DEF Running
  <2>3. f[n + 1] \in Nat /\ g[n + 1] \in Nat /\ f[n + 1] <= g[n + 1]
    BY <1>1, <1>2, <2>1 DEF Running
  <2>4. F[n] <= G[n] /\ F[n] \in Nat /\ G[n] \in Nat
    BY <1>1, <1>2, <1>4, <2>1 DEF Running
  <2> HIDE DEF S
  <2> QED
    BY <2>2, <2>3, <2>4, SMTT(40)
<1>5. Nat \subseteq S
  <2> HIDE DEF S
  <2> QED
    BY <1>3, <1>4, Induction
<1>6. Len(f) \in Nat
  OBVIOUS
<1> QED
  BY <1>1, <1>2, <1>5, <1>6

\* Another amount in one place.
LEMMA TotalChanged ==
  ASSUME NEW f \in Seq(Nat), NEW g \in Seq(Nat), Len(g) = Len(f), NEW j \in 1..Len(f),
         \A i \in 1..Len(f) : i # j => g[i] = f[i]
  PROVE  Total(g) + f[j] = Total(f) + g[j]
<1>1. PICK F : Running(F, f, Len(f)) /\ Total(f) = F[Len(f)]
  BY TotalRuns
<1>2. PICK G : Running(G, g, Len(g)) /\ Total(g) = G[Len(g)]
  BY TotalRuns
<1>3. PICK n \in Nat : n = Len(f) /\ Len(g) = n
  OBVIOUS
<1>4. PICK m \in Nat : j = m + 1 /\ j <= n /\ j \in Nat
  <2> WITNESS j - 1 \in Nat
  <2> QED
    BY <1>3
<1>5. PICK z \in Nat : z = 0
  OBVIOUS
<1>6. Alike(f, g, z, z, m) /\ Alike(f, g, j, z, n)
  BY <1>3, <1>4, <1>5 DEF Alike
<1>7. Running(F, f, n) /\ Running(G, g, n)
  BY <1>1, <1>2, <1>3
<1>8. G[n] + f[j] = F[n] + g[j]
  BY <1>4, <1>5, <1>6, <1>7, SumsChanged
<1> QED
  BY <1>1, <1>2, <1>3, <1>8

\* One amount less.
LEMMA TotalWithout ==
  ASSUME NEW f \in Seq(Nat), NEW g \in Seq(Nat), NEW j \in 1..Len(f), Len(f) = Len(g) + 1,
         \A i \in 1..Len(g) : g[i] = IF i < j THEN f[i] ELSE f[i + 1]
  PROVE  Total(f) = Total(g) + f[j]
<1>1. PICK F : Running(F, f, Len(f)) /\ Total(f) = F[Len(f)]
  BY TotalRuns
<1>2. PICK G : Running(G, g, Len(g)) /\ Total(g) = G[Len(g)]
  BY TotalRuns
<1>3. PICK n \in Nat : n = Len(g) /\ Len(f) = n + 1
  <2> WITNESS Len(g) \in Nat
  <2> QED
    OBVIOUS
<1>4. PICK m \in Nat : j = m + 1 /\ m <= n /\ j \in Nat
  <2> WITNESS j - 1 \in Nat
  <2> QED
    BY <1>3
<1>5. PICK z \in Nat : z = 0
  OBVIOUS
<1>6. PICK e \in Nat : e = 1
  OBVIOUS
<1>7. PICK p \in Nat : p = n + e /\ p = Len(f)
  BY <1>3, <1>6
<1>8. Alike(f, g, z, z, m)
  <2>1. ASSUME NEW i \in z + 1..m PROVE g[i] = f[i + z]
    <3>1. i \in 1..Len(g) /\ i < j /\ i + z = i
      BY <1>3, <1>4, <1>5
    <3> QED
      BY <3>1
  <2> QED
    BY <2>1 DEF Alike
<1>9. Alike(f, g, m, e, n)
  <2>1. ASSUME NEW i \in m + 1..n PROVE g[i] = f[i + e]
    <3>1. i \in 1..Len(g) /\ ~(i < j)
      BY <1>3, <1>4
    <3> QED
      BY <1>6, <3>1
  <2> QED
    BY <2>1 DEF Alike
<1>10. Running(F, f, p) /\ Running(G, g, n)
  BY <1>1, <1>2, <1>3, <1>7
<1>11. j = m + e
  BY <1>4, <1>6
<1>12. F[p] = G[n] + f[j]
  BY <1>4, <1>5, <1>6, <1>7, <1>8, <1>9, <1>10, <1>11, SumsWithout, SMTT(40)
<1> QED
  BY <1>1, <1>2, <1>3, <1>7, <1>12

\* One more amount.
LEMMA TotalOneMore ==
  ASSUME NEW f \in Seq(Nat), NEW g \in Seq(Nat), Len(g) = Len(f) + 1,
         \A i \in 1..Len(f) : g[i] = f[i]
  PROVE  Total(g) = Total(f) + g[Len(g)]
<1>1. PICK j \in 1..Len(g) : j = Len(g)
  OBVIOUS
<1>2. \A i \in 1..Len(f) : f[i] = IF i < j THEN g[i] ELSE g[i + 1]
  BY <1>1
<1>3. Total(g) = Total(f) + g[j]
  BY <1>2, TotalWithout
<1> QED
  BY <1>1, <1>3

\* Nothing before the first amount that counts.
LEMMA TotalSuffix ==
  ASSUME NEW f \in Seq(Nat), NEW g \in Seq(Nat), NEW d \in Nat, Len(f) = Len(g) + d,
         \A i \in 1..Len(g) : g[i] = f[i + d],
         \A i \in 1..d : f[i] = 0
  PROVE  Total(g) = Total(f)
<1>1. PICK F : Running(F, f, Len(f)) /\ Total(f) = F[Len(f)]
  BY TotalRuns
<1>2. PICK G : Running(G, g, Len(g)) /\ Total(g) = G[Len(g)]
  BY TotalRuns
<1>3. PICK n \in Nat : n = Len(g) /\ Len(f) = n + d
  OBVIOUS
<1>4. PICK p \in Nat : p = n + d /\ p = Len(f)
  BY <1>3
<1>5. PICK z \in Nat : z = 0
  OBVIOUS
<1>6. Alike(f, g, z, d, n)
  <2>1. ASSUME NEW i \in z + 1..n PROVE g[i] = f[i + d]
    <3>1. i \in 1..Len(g)
      BY <1>3, <1>5
    <3> QED
      BY <3>1
  <2> QED
    BY <2>1 DEF Alike
<1>7. Running(F, f, p) /\ Running(G, g, n)
  BY <1>1, <1>2, <1>3, <1>4
<1>8. F[p] = G[n]
  BY <1>4, <1>5, <1>6, <1>7, SumsSuffix
<1> QED
  BY <1>1, <1>2, <1>3, <1>4, <1>8

----------------------------------------------------------------------------
(* The open time of those bursts of a sequence that are in a set.          *)

Weights(s, S) == [i \in 1..Len(s) |-> IF s[i] \in S THEN s[i].ms ELSE 0]
Amount(s, S) == Total(Weights(s, S))

\* Sequences of records with a duration.
Timed(R) == \A r \in R : r.ms \in Nat

LEMMA WeightsAre ==
  ASSUME NEW R, Timed(R), NEW s \in Seq(R), NEW S
  PROVE  /\ Weights(s, S) \in Seq(Nat)
         /\ Len(Weights(s, S)) = Len(s)
         /\ \A i \in 1..Len(s) : Weights(s, S)[i] = IF s[i] \in S THEN s[i].ms ELSE 0
<1>1. Len(s) \in Nat /\ \A i \in 1..Len(s) : s[i] \in R
  OBVIOUS
<1>2. \A i \in 1..Len(s) : (IF s[i] \in S THEN s[i].ms ELSE 0) \in Nat
  BY <1>1 DEF Timed
<1> QED
  BY <1>1, <1>2, IsASeq DEF Weights

LEMMA AmountIsNat ==
  ASSUME NEW R, Timed(R), NEW s \in Seq(R), NEW S
  PROVE  Amount(s, S) \in Nat
BY WeightsAre, TotalIsNat DEF Amount

LEMMA AmountGrows ==
  ASSUME NEW R, Timed(R), NEW s \in Seq(R), NEW S,
         NEW Q, Timed(Q), NEW r \in Seq(Q), NEW T, Len(s) = Len(r),
         \A i \in 1..Len(s) : s[i] \in S => r[i] \in T /\ s[i].ms <= r[i].ms
  PROVE  Amount(s, S) <= Amount(r, T)
<1> DEFINE f == Weights(s, S)
           g == Weights(r, T)
<1>1. f \in Seq(Nat) /\ g \in Seq(Nat) /\ Len(f) = Len(s) /\ Len(g) = Len(s)
  BY WeightsAre
<1>2. ASSUME NEW i \in 1..Len(s) PROVE f[i] <= g[i]
  <2>1. f[i] = (IF s[i] \in S THEN s[i].ms ELSE 0) /\ g[i] = (IF r[i] \in T THEN r[i].ms ELSE 0)
    BY WeightsAre
  <2>2. r[i] \in Q
    OBVIOUS
  <2>3. r[i].ms \in Nat
    BY <2>2 DEF Timed
  <2> HIDE DEF f, g
  <2> QED
    BY <2>1, <2>3
<1> HIDE DEF f, g
<1>3. Total(f) <= Total(g)
  BY <1>1, <1>2, TotalGrows
<1> QED
  BY <1>3 DEF Amount, f, g

LEMMA AmountSame ==
  ASSUME NEW R, Timed(R), NEW s \in Seq(R), NEW S,
         NEW Q, Timed(Q), NEW r \in Seq(Q), NEW T, Len(s) = Len(r),
         \A i \in 1..Len(s) : (s[i] \in S <=> r[i] \in T) /\ s[i].ms = r[i].ms
  PROVE  Amount(s, S) = Amount(r, T)
<1>1. \A i \in 1..Len(s) : s[i].ms \in Nat
  BY DEF Timed
<1>2. Amount(s, S) <= Amount(r, T)
  BY <1>1, AmountGrows
<1>3. Amount(r, T) <= Amount(s, S)
  BY <1>1, AmountGrows
<1>4. Amount(s, S) \in Nat /\ Amount(r, T) \in Nat
  BY AmountIsNat
<1> QED
  BY <1>2, <1>3, <1>4

LEMMA AmountAppend ==
  ASSUME NEW R, Timed(R), NEW s \in Seq(R), NEW S, NEW r \in R
  PROVE  Amount(Append(s, r), S) = Amount(s, S) + IF r \in S THEN r.ms ELSE 0
<1> DEFINE u == Append(s, r)
           f == Weights(s, S)
           g == Weights(u, S)
<1>1. u \in Seq(R) /\ Len(u) = Len(s) + 1 /\ u[Len(s) + 1] = r /\ \A i \in 1..Len(s) : u[i] = s[i]
  OBVIOUS
<1> HIDE DEF u
<1>2. f \in Seq(Nat) /\ g \in Seq(Nat) /\ Len(f) = Len(s) /\ Len(g) = Len(s) + 1
  BY <1>1, WeightsAre
<1>3. \A i \in 1..Len(s) + 1 : g[i] = IF u[i] \in S THEN u[i].ms ELSE 0
  BY <1>1, WeightsAre
<1>4. \A i \in 1..Len(s) : f[i] = IF s[i] \in S THEN s[i].ms ELSE 0
  BY WeightsAre
<1> HIDE DEF f, g
<1>5. \A i \in 1..Len(s) : g[i] = f[i]
  BY <1>1, <1>3, <1>4
<1>6. g[Len(s) + 1] = IF r \in S THEN r.ms ELSE 0
  BY <1>1, <1>3
<1>7. Total(g) = Total(f) + g[Len(g)]
  BY <1>2, <1>5, TotalOneMore
<1> QED
  BY <1>2, <1>6, <1>7 DEF Amount, f, g, u

\* The open time without a burst that is not in the set, or not counting it.
LEMMA AmountWithout ==
  ASSUME NEW R, Timed(R), NEW s \in Seq(R), NEW S, NEW j \in 1..Len(s)
  PROVE  /\ Without(s, j) \in Seq(R)
         /\ Len(Without(s, j)) = Len(s) - 1
         /\ \A i \in 1..Len(s) - 1 : Without(s, j)[i] = IF i < j THEN s[i] ELSE s[i + 1]
         /\ Amount(Without(s, j), S) <= Amount(s, S)
         /\ s[j] \notin S => Amount(Without(s, j), S) = Amount(s, S)
<1> DEFINE u == Without(s, j)
           f == Weights(s, S)
           g == Weights(u, S)
<1>1. Len(s) - 1 \in Nat /\ \A i \in 1..Len(s) - 1 : (IF i < j THEN s[i] ELSE s[i + 1]) \in R
  OBVIOUS
<1>2. u \in Seq(R) /\ Len(u) = Len(s) - 1 /\ \A i \in 1..Len(s) - 1 : u[i] = IF i < j THEN s[i] ELSE s[i + 1]
  BY <1>1, IsASeq DEF Without
<1> HIDE DEF u
<1>3. f \in Seq(Nat) /\ g \in Seq(Nat) /\ Len(f) = Len(s) /\ Len(g) = Len(s) - 1
  BY <1>2, WeightsAre
<1>4. \A i \in 1..Len(s) - 1 : g[i] = IF u[i] \in S THEN u[i].ms ELSE 0
  BY <1>2, WeightsAre
<1>5. \A i \in 1..Len(s) : f[i] = IF s[i] \in S THEN s[i].ms ELSE 0
  BY WeightsAre
<1> HIDE DEF f, g
<1>6. \A i \in 1..Len(s) - 1 : g[i] = IF i < j THEN f[i] ELSE f[i + 1]
  BY <1>2, <1>4, <1>5
<1>7. j \in 1..Len(f) /\ Len(f) = Len(g) + 1
  BY <1>3
<1>8. Total(f) = Total(g) + f[j]
  BY <1>3, <1>6, <1>7, TotalWithout
<1>9. Total(f) \in Nat /\ Total(g) \in Nat /\ f[j] \in Nat
  BY <1>3, <1>7, TotalIsNat
<1>10. Total(g) <= Total(f) /\ (f[j] = 0 => Total(g) = Total(f))
  BY <1>8, <1>9
<1>11. s[j] \notin S => f[j] = 0
  BY <1>5
<1> QED
  BY <1>2, <1>10, <1>11 DEF Amount, f, g, u

LEMMA AmountSuffix ==
  ASSUME NEW R, Timed(R), NEW s \in Seq(R), NEW S, NEW u \in Seq(R), NEW d \in Nat,
         Len(s) = Len(u) + d, \A i \in 1..Len(u) : u[i] = s[i + d],
         \A i \in 1..d : s[i] \notin S
  PROVE  Amount(u, S) = Amount(s, S)
<1> DEFINE f == Weights(s, S)
           g == Weights(u, S)
<1>1. f \in Seq(Nat) /\ g \in Seq(Nat) /\ Len(f) = Len(s) /\ Len(g) = Len(u)
  BY WeightsAre
<1>2. \A i \in 1..Len(u) : g[i] = IF u[i] \in S THEN u[i].ms ELSE 0
  BY WeightsAre
<1>3. \A i \in 1..Len(s) : f[i] = IF s[i] \in S THEN s[i].ms ELSE 0
  BY WeightsAre
<1> HIDE DEF f, g
<1>4. \A i \in 1..d : f[i] = 0
  BY <1>3
<1>5. ASSUME NEW i \in 1..Len(u) PROVE g[i] = f[i + d]
  <2>1. i + d \in 1..Len(s)
    OBVIOUS
  <2> QED
    BY <1>2, <1>3, <2>1
<1>6. Total(g) = Total(f)
  BY <1>1, <1>4, <1>5, TotalSuffix
<1> QED
  BY <1>6 DEF Amount, f, g

\* A burst that comes to count in its place.
LEMMA AmountSettled ==
  ASSUME NEW R, Timed(R), NEW s \in Seq(R), NEW S, NEW u \in Seq(R), NEW j \in 1..Len(s),
         Len(u) = Len(s), s[j] \notin S,
         \A i \in 1..Len(s) : i # j => (s[i] \in S <=> u[i] \in S) /\ s[i].ms = u[i].ms
  PROVE  Amount(u, S) <= Amount(s, S) + u[j].ms
<1> DEFINE f == Weights(s, S)
           g == Weights(u, S)
<1>1. f \in Seq(Nat) /\ g \in Seq(Nat) /\ Len(f) = Len(s) /\ Len(g) = Len(s)
  BY WeightsAre
<1>2. \A i \in 1..Len(s) : g[i] = IF u[i] \in S THEN u[i].ms ELSE 0
  BY WeightsAre
<1>3. \A i \in 1..Len(s) : f[i] = IF s[i] \in S THEN s[i].ms ELSE 0
  BY WeightsAre
<1> HIDE DEF f, g
<1>4. \A i \in 1..Len(s) : i # j => g[i] = f[i]
  BY <1>2, <1>3
<1>5. Total(g) + f[j] = Total(f) + g[j]
  BY <1>1, <1>4, TotalChanged
<1>6. u[j] \in R
  OBVIOUS
<1>7. f[j] = 0 /\ g[j] <= u[j].ms /\ g[j] \in Nat /\ u[j].ms \in Nat
  BY <1>2, <1>3, <1>6 DEF Timed
<1>8. Total(f) \in Nat /\ Total(g) \in Nat
  BY <1>1, TotalIsNat
<1>9. Total(g) <= Total(f) + u[j].ms
  BY <1>5, <1>7, <1>8
<1> QED
  BY <1>9 DEF Amount, f, g

----------------------------------------------------------------------------
(* The history.                                                            *)

\* g is h without its first d entries, which are older than the limit.
Drops(h, g, d, limit) ==
  /\ Len(g) + d = Len(h)
  /\ \A i \in 1..Len(g) : g[i] = h[i + d]
  /\ \A i \in 1..d : h[i].age > limit
  /\ g # <<>> => g[1].age <= limit

LEMMA SinceDrops ==
  ASSUME NEW R, NEW h \in Seq(R), \A r \in R : r.age \in Nat, NEW limit \in Nat
  PROVE  Since(h, limit) \in Seq(R) /\ \E d \in Nat : Drops(h, Since(h, limit), d, limit)
<1> DEFINE n == Len(h)
           P(k) == /\ \A i \in 1..k - 1 : h[i].age > limit
                   /\ k <= n => h[k].age <= limit
           first == CHOOSE k \in 1..n + 1 : P(k)
           g == SubSeq(h, first, n)
<1>1. n \in Nat /\ \A i \in 1..n : h[i].age \in Nat
  OBVIOUS
<1>2. \E k \in 1..n + 1 : P(k)
  <2> DEFINE K == {k \in 1..n + 1 : k <= n => h[k].age <= limit}
  <2>1. K \subseteq Nat /\ n + 1 \in K
    BY <1>1
  <2> HIDE DEF n
  <2>2. PICK k \in K : \A m \in K : k <= m
    <3> HIDE DEF K
    <3> QED
      BY <2>1, Least
  <2>3. ASSUME NEW i \in 1..k - 1 PROVE h[i].age > limit
    <3>1. k \in 1..n + 1 /\ i \in 1..n /\ i \in 1..n + 1 /\ ~(k <= i)
      BY <1>1
    <3>2. i \notin K
      BY <2>2, <3>1
    <3> QED
      BY <1>1, <3>1, <3>2
  <2> QED
    BY <2>3
<1>3. first \in 1..n + 1 /\ P(first)
  BY <1>2
<1>4. g = Since(h, limit)
  BY DEF Since
<1> HIDE DEF n, first
<1>5. PICK d \in Nat : d = first - 1
  BY <1>1, <1>3
<1>6. g \in Seq(R) /\ Len(g) = n - d /\ \A i \in 1..n - d : g[i] = h[i + d]
  <2>1. \A i \in first..n : h[i] \in R
    BY <1>1, <1>3 DEF n
  <2>2. g \in Seq(R) /\ Len(g) = (IF first <= n THEN n - first + 1 ELSE 0)
        /\ \A i \in 1..n - first + 1 : g[i] = h[first + i - 1]
    BY <1>1, <1>3, <2>1, SubSeqProperties DEF n
  <2>3. Len(g) = n - d
    BY <1>1, <1>3, <1>5, <2>2
  <2>4. ASSUME NEW i \in 1..n - d PROVE g[i] = h[i + d]
    <3>1. i \in 1..n - first + 1 /\ first + i - 1 = i + d
      BY <1>1, <1>3, <1>5
    <3> QED
      BY <2>2, <3>1
  <2> QED
    BY <2>2, <2>3, <2>4
<1>7. \A i \in 1..d : h[i].age > limit
  BY <1>3, <1>5
<1>8. ASSUME g # <<>> PROVE g[1].age <= limit
  <2> HIDE DEF P, g
  <2>1. Len(g) > 0 /\ Len(g) \in Nat
    BY <1>6, <1>8
  <2>2. 1 \in 1..n - d /\ 1 + d = first /\ first <= n
    BY <1>1, <1>3, <1>5, <1>6, <2>1
  <2>3. g[1] = h[first]
    BY <1>6, <2>2
  <2> QED
    BY <1>3, <2>2, <2>3 DEF P
<1>9. Len(g) + d = n
  <2> HIDE DEF g
  <2> QED
    BY <1>1, <1>3, <1>5, <1>6
<1>10. Drops(h, g, d, limit)
  <2> HIDE DEF g, P
  <2>1. n - d = Len(g)
    BY <1>6
  <2> QED
    BY <1>6, <1>7, <1>8, <1>9, <2>1 DEF Drops, n
<1> QED
  BY <1>4, <1>6, <1>10

Entry(w) == [age : 0..w + 1, ms : Nat \ {0}]

\* The entries of the last t ticks.
Kept(t) == {e \in [age : Nat, ms : Nat] : e.age <= t}

LEMMA EntryIs ==
  ASSUME NEW w \in Nat, NEW e \in Entry(w)
  PROVE  /\ e.age \in 0..w + 1 /\ e.age \in Nat /\ e.ms \in Nat \ {0} /\ e.ms \in Nat
         /\ \A t \in Nat : e \in Kept(t) <=> e.age <= t
<1>1. e.age \in 0..w + 1 /\ e.ms \in Nat \ {0} /\ e \in [age : Nat, ms : Nat]
  BY DEF Entry
<1> QED
  BY <1>1 DEF Kept

LEMMA EntryTimed ==
  ASSUME NEW w \in Nat
  PROVE  Timed(Entry(w)) /\ \A e \in Entry(w) : e.age \in Nat
BY EntryIs DEF Timed

\* Pruning keeps what is in the window, the last entry first of all.
LEMMA PruneKeeps ==
  ASSUME NEW c, c.window \in Nat, NEW h \in Seq(Entry(c.window))
  PROVE  /\ Prune(h, c) \in Seq(Entry(c.window))
         /\ Len(Prune(h, c)) <= Len(h)
         /\ \A t \in 0..c.window : Amount(Prune(h, c), Kept(t)) = Amount(h, Kept(t))
         /\ h # <<>> /\ h[Len(h)].age <= c.window
            => Prune(h, c) # <<>> /\ Prune(h, c)[Len(Prune(h, c))] = h[Len(h)]
<1> DEFINE w == c.window
           g == Prune(h, c)
<1>1. Timed(Entry(w)) /\ \A e \in Entry(w) : e.age \in Nat
  BY EntryTimed
<1>2. g \in Seq(Entry(w)) /\ \E d \in Nat : Drops(h, g, d, w)
  BY <1>1, SinceDrops DEF Prune
<1> HIDE DEF g, w
<1>3. PICK d \in Nat : Drops(h, g, d, w)
  BY <1>2
<1>4. /\ Len(g) + d = Len(h)
      /\ \A i \in 1..Len(g) : g[i] = h[i + d]
      /\ \A i \in 1..d : h[i].age > w
  BY <1>3 DEF Drops
<1>5. Len(g) \in Nat /\ Len(h) \in Nat /\ w \in Nat /\ h \in Seq(Entry(w))
  BY <1>2 DEF w
<1>6. ASSUME NEW t \in 0..w PROVE Amount(g, Kept(t)) = Amount(h, Kept(t))
  <2>1. ASSUME NEW i \in 1..d PROVE h[i] \notin Kept(t)
    <3>1. i \in 1..Len(h) /\ h[i].age > w
      BY <1>4, <1>5
    <3>2. h[i] \in Entry(w)
      BY <1>5, <3>1
    <3> QED
      BY <1>5, <3>1, <3>2, EntryIs
  <2> QED
    BY <1>1, <1>2, <1>4, <1>5, <2>1, AmountSuffix
<1>7. ASSUME h # <<>>, h[Len(h)].age <= w PROVE g # <<>> /\ g[Len(g)] = h[Len(h)]
  <2>1. Len(h) # 0
    BY <1>5, <1>7
  <2>2. Len(g) # 0
    <3> SUFFICES ASSUME Len(g) = 0 PROVE FALSE
      OBVIOUS
    <3>1. Len(h) \in 1..d
      BY <1>4, <1>5, <2>1
    <3>2. h[Len(h)].age > w
      BY <1>4, <3>1
    <3>3. h[Len(h)] \in Entry(w)
      BY <1>5, <2>1
    <3>4. h[Len(h)].age \in Nat
      BY <1>1, <3>3
    <3> QED
      BY <1>5, <1>7, <3>2, <3>4
  <2>3. Len(g) \in 1..Len(g) /\ Len(g) + d = Len(h)
    BY <1>4, <1>5, <2>2
  <2>4. g # <<>>
    BY <2>2
  <2> QED
    BY <1>4, <2>3, <2>4
<1>8. Len(g) <= Len(h)
  BY <1>4, <1>5
<1> QED
  BY <1>2, <1>6, <1>7, <1>8 DEF g, w

LEMMA AmountUsed ==
  ASSUME NEW w \in Nat, NEW h \in Seq(Entry(w)), NEW t \in Nat
  PROVE  Amount(h, Kept(t)) <= UsedMs(h) /\ UsedMs(h) \in Nat
<1>1. Timed(Entry(w))
  BY EntryTimed
<1> DEFINE g == [i \in 1..Len(h) |-> h[i].ms]
<1>2. g = Weights(h, Entry(w))
  <2>1. \A i \in 1..Len(h) : h[i] \in Entry(w)
    OBVIOUS
  <2> QED
    BY <2>1 DEF Weights
<1>3. UsedMs(h) = Amount(h, Entry(w))
  BY <1>2 DEF UsedMs, Amount
<1>4. \A i \in 1..Len(h) : h[i].ms \in Nat /\ h[i] \in Entry(w)
  BY <1>1 DEF Timed
<1>5. Amount(h, Kept(t)) <= Amount(h, Entry(w))
  BY <1>1, <1>4, AmountGrows
<1> QED
  BY <1>1, <1>3, <1>5, AmountIsNat

\* What is recorded is the last entry, and a full deque forgets its first.
LEMMA RecordedKeeps ==
  ASSUME NEW c, c.window \in Nat, NEW h \in Seq(Entry(c.window)), Len(h) <= MaxLen,
         NEW ms \in Nat \ {0}
  PROVE  /\ Recorded(h, c, ms) \in Seq(Entry(c.window))
         /\ Len(Recorded(h, c, ms)) <= MaxLen
         /\ Recorded(h, c, ms) # <<>>
         /\ Recorded(h, c, ms)[Len(Recorded(h, c, ms))].age = 0
         /\ \A t \in 0..c.window :
              (Len(h) = MaxLen => t < h[1].age)
              => Amount(Recorded(h, c, ms), Kept(t)) = Amount(h, Kept(t)) + ms
<1> DEFINE w == c.window
           new == [age |-> 0, ms |-> ms]
           kept == IF Len(h) = MaxLen THEN Tail(h) ELSE h
           g == Append(kept, new)
           r == Recorded(h, c, ms)
<1>1. MaxLen \in Nat \ {0} /\ w \in Nat /\ Len(h) \in Nat
  BY GuardAssumption
<1>2. Timed(Entry(w)) /\ \A e \in Entry(w) : e.age \in Nat
  BY EntryTimed
<1>3. new \in Entry(w) /\ new.age = 0 /\ new.ms = ms
  BY <1>1 DEF Entry
<1>4. r = Prune(g, c)
  BY DEF Recorded
<1> HIDE DEF new
<1>5. /\ kept \in Seq(Entry(w)) /\ Len(kept) + 1 <= MaxLen
      /\ \A t \in 0..w : (Len(h) = MaxLen => t < h[1].age) => Amount(kept, Kept(t)) = Amount(h, Kept(t))
  <2>1. CASE Len(h) # MaxLen
    BY <1>1, <2>1
  <2>2. CASE Len(h) = MaxLen
    <3>1. /\ kept \in Seq(Entry(w)) /\ Len(kept) + 1 = Len(h)
          /\ \A i \in 1..Len(kept) : kept[i] = h[i + 1]
      <4>1. h # <<>>
        BY <1>1, <2>2
      <4> QED
        BY <1>1, <2>2, <4>1, HeadTailProperties
    <3> HIDE DEF kept
    <3>2. ASSUME NEW t \in 0..w, t < h[1].age PROVE Amount(kept, Kept(t)) = Amount(h, Kept(t))
      <4>1. h[1] \in Entry(w)
        BY <1>1, <2>2
      <4>2. h[1] \notin Kept(t)
        BY <1>1, <3>2, <4>1, EntryIs
      <4>3. \A i \in 1..1 : h[i] \notin Kept(t)
        BY <4>2
      <4>4. 1 \in Nat /\ h \in Seq(Entry(w))
        OBVIOUS
      <4>5. PICK d \in Nat : d = 1
        OBVIOUS
      <4>6. Len(h) = Len(kept) + d /\ (\A i \in 1..d : h[i] \notin Kept(t))
            /\ \A i \in 1..Len(kept) : kept[i] = h[i + d]
        BY <3>1, <4>3, <4>5
      <4> QED
        BY <1>2, <3>1, <4>4, <4>6, AmountSuffix
    <3> QED
      BY <2>2, <3>1, <3>2
  <2> QED
    BY <2>1, <2>2
<1> HIDE DEF kept
<1>6. g \in Seq(Entry(w)) /\ g # <<>> /\ Len(g) = Len(kept) + 1 /\ g[Len(g)] = new
  BY <1>3, <1>5
<1>7. ASSUME NEW t \in 0..w PROVE Amount(g, Kept(t)) = Amount(kept, Kept(t)) + ms
  <2>1. new \in Kept(t)
    BY <1>1, <1>3, EntryIs
  <2> QED
    BY <1>2, <1>3, <1>5, <2>1, AmountAppend
<1> HIDE DEF g
<1>8. g \in Seq(Entry(c.window)) /\ g[Len(g)].age <= c.window
  BY <1>1, <1>3, <1>6
<1> HIDE DEF w
<1>9. /\ r \in Seq(Entry(c.window)) /\ Len(r) <= Len(g)
      /\ \A t \in 0..c.window : Amount(r, Kept(t)) = Amount(g, Kept(t))
      /\ r # <<>> /\ r[Len(r)] = g[Len(g)]
  BY <1>4, <1>6, <1>8, PruneKeeps
<1> HIDE DEF r
<1>10. Len(r) <= MaxLen
  BY <1>1, <1>5, <1>6, <1>9
<1>11. r[Len(r)].age = 0
  BY <1>3, <1>6, <1>9
<1>12. ASSUME NEW t \in 0..c.window, Len(h) = MaxLen => t < h[1].age
       PROVE  Amount(r, Kept(t)) = Amount(h, Kept(t)) + ms
  BY <1>5, <1>7, <1>9, <1>12 DEF w
<1> QED
  BY <1>9, <1>10, <1>11, <1>12 DEF r

\* A tick makes every entry a tick older.
LEMMA AgedKeeps ==
  ASSUME NEW c, c.window \in Nat, NEW h \in Seq(Entry(c.window))
  PROVE  /\ Aged(h, c, 1) \in Seq(Entry(c.window))
         /\ Len(Aged(h, c, 1)) = Len(h)
         /\ \A i \in 1..Len(h) :
              Aged(h, c, 1)[i].age = IF h[i].age + 1 > c.window THEN c.window + 1 ELSE h[i].age + 1
         /\ \A t \in 1..c.window : Amount(Aged(h, c, 1), Kept(t)) = Amount(h, Kept(t - 1))
<1> DEFINE w == c.window
           older(e) == [e EXCEPT !.age = IF @ + 1 > w THEN w + 1 ELSE @ + 1]
           g == Aged(h, c, 1)
<1>1. Timed(Entry(w)) /\ (\A e \in Entry(w) : e.age \in Nat) /\ w \in Nat
  BY EntryTimed
<1>2. Len(h) \in Nat /\ (\A i \in 1..Len(h) : h[i] \in Entry(w)) /\ h \in Seq(Entry(w))
  OBVIOUS
<1>3. ASSUME NEW e \in Entry(w)
      PROVE  older(e) \in Entry(w) /\ older(e).ms = e.ms
             /\ older(e).age = IF e.age + 1 > w THEN w + 1 ELSE e.age + 1
  <2> DEFINE a == IF e.age + 1 > w THEN w + 1 ELSE e.age + 1
  <2>1. e.age \in 0..w + 1 /\ e.ms \in Nat \ {0} /\ e = [age |-> e.age, ms |-> e.ms]
    BY DEF Entry
  <2>2. a \in 0..w + 1
    BY <1>1, <2>1
  <2> HIDE DEF a
  <2>3. older(e) = [age |-> a, ms |-> e.ms]
    BY <2>1 DEF a
  <2> HIDE DEF older
  <2> QED
    BY <2>1, <2>2, <2>3 DEF Entry, a
<1>4. g = [i \in 1..Len(h) |-> older(h[i])]
  BY <1>2 DEF Aged
<1> HIDE DEF older, w, g
<1>5. g \in Seq(Entry(w)) /\ Len(g) = Len(h) /\ \A i \in 1..Len(h) : g[i] = older(h[i])
  BY <1>2, <1>3, <1>4, IsASeq
<1>6. ASSUME NEW t \in 1..w PROVE Amount(g, Kept(t)) = Amount(h, Kept(t - 1))
  <2>0. t \in Nat /\ t - 1 \in Nat
    OBVIOUS
  <2>1. ASSUME NEW i \in 1..Len(h)
        PROVE  (g[i] \in Kept(t) <=> h[i] \in Kept(t - 1)) /\ g[i].ms = h[i].ms
    <3>1. h[i] \in Entry(w) /\ g[i] \in Entry(w)
      BY <1>2, <1>3, <1>5
    <3>2. (g[i] \in Kept(t) <=> g[i].age <= t) /\ (h[i] \in Kept(t - 1) <=> h[i].age <= t - 1)
      BY <1>1, <2>0, <3>1, EntryIs
    <3>3. g[i].ms = h[i].ms /\ g[i].age = IF h[i].age + 1 > w THEN w + 1 ELSE h[i].age + 1
      BY <1>3, <1>5, <3>1
    <3>4. h[i].age \in Nat
      BY <1>1, <3>1
    <3> QED
      BY <1>1, <3>2, <3>3, <3>4
  <2>2. \A i \in 1..Len(g) : (g[i] \in Kept(t) <=> h[i] \in Kept(t - 1)) /\ g[i].ms = h[i].ms
    BY <1>5, <2>1
  <2> QED
    BY <1>1, <1>2, <1>5, <2>2, AmountSame
<1> QED
  BY <1>3, <1>5, <1>6 DEF g, w

----------------------------------------------------------------------------
(* The bursts that were commanded.                                         *)

Burst == [age : Nat, ms : Nat \ {0}, by : Operators \cup {Nobody, Lost},
          over : BOOLEAN, blind : BOOLEAN]

\* Acknowledged within the last t ticks.
Spent(t) == {b \in Burst : b.by = Nobody /\ b.age <= t}

\* What the budget answers for.
Owed(w) == {b \in Burst : b.by # Lost /\ ~b.over /\ ~b.blind /\ b.age <= w}

LEMMA BurstTimed == Timed(Burst)
BY DEF Timed, Burst

LEMMA BurstIs ==
  ASSUME NEW b \in Burst
  PROVE  /\ b.age \in Nat /\ b.ms \in Nat \ {0} /\ b.ms \in Nat
         /\ b.by \in Operators \cup {Nobody, Lost}
         /\ b.over \in BOOLEAN /\ b.blind \in BOOLEAN
         /\ b = [age |-> b.age, ms |-> b.ms, by |-> b.by, over |-> b.over, blind |-> b.blind]
BY DEF Burst

LEMMA State ==
  ASSUME TypeOK
  PROVE  /\ cfg.window \in Nat /\ cfg.interval \in Nat /\ cfg.budget \in Nat
         /\ cfg.max \in Nat \ {0} /\ cfg.default \in Nat \ {0}
         /\ Horizon \in Nat /\ cfg.window <= Horizon /\ cfg.interval <= Horizon
         /\ history \in Seq(Entry(cfg.window)) /\ Len(history) <= MaxLen
         /\ sent \in Seq(Burst)
         /\ \A i \in 1..Len(sent) : sent[i].age \in 0..Horizon
         /\ gap \in 0..cfg.window + 1
<1> DEFINE B == [age : 0..Horizon, ms : Nat \ {0}, by : Operators \cup {Nobody, Lost},
                 over : BOOLEAN, blind : BOOLEAN]
<1>1. IsConfig(cfg)
  BY ConfigsAssumption DEF TypeOK
<1>2. /\ cfg.window \in Nat /\ cfg.interval \in Nat /\ cfg.budget \in Nat
      /\ cfg.max \in Nat \ {0} /\ cfg.default \in Nat \ {0}
  BY <1>1 DEF IsConfig
<1>3. Horizon \in Nat /\ cfg.window <= Horizon /\ cfg.interval <= Horizon
  BY <1>2 DEF Horizon, Larger
<1>4. sent \in Seq(B)
  BY Zenon DEF TypeOK
<1>5. \A b \in B : b \in Burst /\ b.age \in 0..Horizon
  <2> HIDE DEF Horizon
  <2>1. 0..Horizon \subseteq Nat
    BY <1>3
  <2> QED
    BY <2>1 DEF Burst
<1> HIDE DEF B
<1>6. sent \in Seq(Burst) /\ \A i \in 1..Len(sent) : sent[i].age \in 0..Horizon
  <2>1. \A i \in 1..Len(sent) : sent[i] \in B
    BY <1>4
  <2>2. sent = [i \in 1..Len(sent) |-> sent[i]] /\ Len(sent) \in Nat
    BY <1>4
  <2>3. [i \in 1..Len(sent) |-> sent[i]] \in Seq(Burst)
    BY <1>5, <2>1, <2>2, IsASeq
  <2>4. sent \in Seq(Burst)
    BY <2>2, <2>3, Zenon
  <2> QED
    BY <1>5, <2>1, <2>4
<1> QED
  BY <1>2, <1>3, <1>6 DEF TypeOK, Entry

\* The type of sent, from what it is made of.
LEMMA Typed ==
  ASSUME NEW s \in Seq(Burst), NEW z \in Nat, \A i \in 1..Len(s) : s[i].age <= z
  PROVE  s \in Seq([age : 0..z, ms : Nat \ {0}, by : Operators \cup {Nobody, Lost},
                    over : BOOLEAN, blind : BOOLEAN])
<1> DEFINE B == [age : 0..z, ms : Nat \ {0}, by : Operators \cup {Nobody, Lost},
                 over : BOOLEAN, blind : BOOLEAN]
<1>1. ASSUME NEW i \in 1..Len(s) PROVE s[i] \in B
  <2>1. s[i] \in Burst /\ s[i].age <= z
    OBVIOUS
  <2> DEFINE b == s[i]
  <2>2. b.age \in Nat /\ b.age <= z
    BY <2>1, BurstIs
  <2>3. b.age \in 0..z
    BY <2>2
  <2>4. /\ b.ms \in Nat \ {0} /\ b.by \in Operators \cup {Nobody, Lost}
        /\ b.over \in BOOLEAN /\ b.blind \in BOOLEAN
        /\ b = [age |-> b.age, ms |-> b.ms, by |-> b.by, over |-> b.over, blind |-> b.blind]
    BY <2>1, BurstIs
  <2> HIDE DEF b
  <2>5. b \in B
    BY <2>3, <2>4
  <2> QED
    BY <2>5 DEF b
<1> HIDE DEF B
<1>2. s = [i \in 1..Len(s) |-> s[i]] /\ Len(s) \in Nat
  OBVIOUS
<1>3. [i \in 1..Len(s) |-> s[i]] \in Seq(B)
  BY <1>1, <1>2, IsASeq
<1>4. s \in Seq(B)
  BY <1>2, <1>3, Zenon
<1> QED
  BY <1>4 DEF B

\* What an allowed burst gets.
LEMMA GrantIs ==
  ASSUME NEW c, IsConfig(c), NEW h \in Seq(Entry(c.window)), NEW ms \in Int, Allowed(h, c)
  PROVE  /\ Grant(h, c, ms) \in Nat \ {0}
         /\ Grant(h, c, ms) <= Larger(Floor, c.max)
         /\ c.budget > 0 => UsedMs(h) + Grant(h, c, ms) <= c.budget
         /\ h # <<>> => h[Len(h)].age >= c.interval
<1>1. /\ c.window \in Nat /\ c.max \in Nat \ {0} /\ c.budget \in Nat /\ c.interval \in Nat
      /\ Floor \in Nat \ {0}
  BY GuardAssumption DEF IsConfig
<1>2. UsedMs(h) \in Nat
  BY <1>1, AmountUsed
<1>3. Clamp(c, ms) \in Nat \ {0} /\ Clamp(c, ms) <= Larger(Floor, c.max)
  BY <1>1 DEF Clamp, Larger
<1>4. c.budget > 0 => UsedMs(h) < c.budget
  BY <1>1, <1>2 DEF Allowed, Exhausted
<1>5. ASSUME h # <<>> PROVE h[Len(h)].age >= c.interval
  <2>1. Len(h) \in 1..Len(h)
    BY <1>5
  <2>2. h[Len(h)] \in Entry(c.window)
    BY <2>1
  <2>3. h[Len(h)].age \in Nat
    BY <1>1, <2>2, EntryIs
  <2>4. ~(h[Len(h)].age < c.interval)
    BY <1>5 DEF Allowed, TooSoon
  <2> QED
    BY <1>1, <2>3, <2>4
<1>6. /\ Grant(h, c, ms) \in Nat \ {0} /\ Grant(h, c, ms) <= Clamp(c, ms)
      /\ c.budget > 0 => UsedMs(h) + Grant(h, c, ms) <= c.budget
  BY <1>1, <1>2, <1>3, <1>4, SMTT(40) DEF Grant
<1>7. Grant(h, c, ms) <= Larger(Floor, c.max)
  <2>1. Larger(Floor, c.max) \in Nat
    BY <1>1 DEF Larger
  <2> QED
    BY <1>3, <1>6, <2>1
<1> QED
  BY <1>5, <1>6, <1>7

----------------------------------------------------------------------------
(* The inductive invariant.                                                *)

\* The bursts are in the order they were commanded in.
Sorted == \A i, j \in 1..Len(sent) : i < j => sent[j].age <= sent[i].age

\* A request waits for one burst, and for that duration.
Matched ==
    /\ \A i \in 1..Len(sent) : sent[i].by \in Operators => sent[i].ms = inflight[sent[i].by]
    /\ \A i, j \in 1..Len(sent) : i < j /\ sent[i].by \in Operators => sent[j].by # sent[i].by

Clamped == \A i \in 1..Len(sent) : sent[i].ms <= Larger(Floor, cfg.max)

\* Since the youngest burst the deque dropped, what was acknowledged is in it.
Covered ==
    \A t \in 0..cfg.window :
        t < gap => Amount(sent, Spent(t)) <= Amount(history, Kept(t))

\* The last entry is as young as any acknowledged burst of the window.
Fresh ==
    \A i \in 1..Len(sent) :
        sent[i].by = Nobody /\ sent[i].age <= cfg.window
        => history # <<>> /\ history[Len(history)].age <= sent[i].age

Owing == cfg.budget > 0 => Amount(sent, Owed(cfg.window)) <= cfg.budget

Spaced ==
    \A i, j \in 1..Len(sent) :
        i < j /\ sent[i].by # Lost /\ ~sent[j].over /\ cfg.interval <= cfg.window
        => sent[i].age - sent[j].age >= cfg.interval

Inv == TypeOK /\ Sorted /\ Matched /\ Clamped /\ Covered /\ Fresh /\ Owing /\ Spaced

LEMMA SpentIs ==
  ASSUME NEW b \in Burst, NEW t
  PROVE  b \in Spent(t) <=> b.by = Nobody /\ b.age <= t
BY DEF Spent

LEMMA OwedIs ==
  ASSUME NEW b \in Burst, NEW t
  PROVE  b \in Owed(t) <=> b.by # Lost /\ ~b.over /\ ~b.blind /\ b.age <= t
BY DEF Owed

LEMMA Labels ==
  ASSUME TRUE
  PROVE  Nobody # Lost /\ Nobody \notin Operators /\ Lost \notin Operators
BY OperatorsAssumption DEF Nobody, Lost

LEMMA TypedNext ==
  ASSUME TypeOK, cfg' = cfg, armed' \in BOOLEAN,
         history' \in Seq(Entry(cfg.window)), Len(history') <= MaxLen,
         inflight' \in [Operators -> Nat], gap' \in 0..cfg.window + 1,
         sent' \in Seq(Burst), \A i \in 1..Len(sent') : sent'[i].age <= Horizon
  PROVE  TypeOK'
<1>1. Horizon \in Nat
  BY State
<1>2. sent' \in Seq([age : 0..Horizon, ms : Nat \ {0}, by : Operators \cup {Nobody, Lost},
                     over : BOOLEAN, blind : BOOLEAN])
  BY <1>1, Typed
<1>3. Horizon' = Horizon
  BY DEF Horizon
<1>4. history' \in Seq([age : 0..cfg.window + 1, ms : Nat \ {0}])
  BY Zenon DEF Entry
<1>5. cfg' \in Configs
  BY DEF TypeOK
<1> QED
  BY <1>2, <1>3, <1>4, <1>5, Zenon DEF TypeOK

----------------------------------------------------------------------------
(* A command.                                                              *)

LEMMA Commanded ==
  ASSUME TypeOK, Sorted, Clamped, NEW ms \in Nat \ {0}, ms <= Larger(Floor, cfg.max),
         NEW o \in Operators \cup {Nobody}, Command(ms, o), cfg' = cfg
  PROVE  /\ sent' \in Seq(Burst) /\ Len(sent') = Len(sent) + 1
         /\ \A i \in 1..Len(sent) : sent'[i] = sent[i]
         /\ sent'[Len(sent')] = [age |-> 0, ms |-> ms, by |-> o,
                                 over |-> Waiting # {}, blind |-> gap <= cfg.window]
         /\ \A i \in 1..Len(sent') : sent'[i].age <= Horizon
         /\ Sorted' /\ Clamped'
         /\ \A S : Amount(sent', S) = Amount(sent, S)
                     + IF sent'[Len(sent')] \in S THEN ms ELSE 0
<1> DEFINE b == [age |-> 0, ms |-> ms, by |-> o,
                 over |-> Waiting # {}, blind |-> gap <= cfg.window]
<1>1. b \in Burst /\ b.age = 0 /\ b.ms = ms
  BY DEF Burst
<1>2. sent' = Append(sent, b)
  BY DEF Command
<1>3. sent \in Seq(Burst) /\ Horizon \in Nat /\ \A i \in 1..Len(sent) : sent[i].age \in 0..Horizon
  BY State
<1> HIDE DEF b
<1>4. /\ sent' \in Seq(Burst) /\ Len(sent') = Len(sent) + 1 /\ Len(sent) \in Nat
      /\ sent'[Len(sent')] = b /\ \A i \in 1..Len(sent) : sent'[i] = sent[i]
  BY <1>1, <1>2, <1>3
<1>5. \A i \in 1..Len(sent') : i \in 1..Len(sent) \/ i = Len(sent')
  BY <1>4
<1>6. \A i \in 1..Len(sent') : sent'[i].age <= Horizon
  BY <1>1, <1>3, <1>4, <1>5
<1>7. Sorted'
  <2>1. ASSUME NEW i \in 1..Len(sent'), NEW j \in 1..Len(sent'), i < j
        PROVE  sent'[j].age <= sent'[i].age
    <3>1. i \in 1..Len(sent)
      BY <1>4, <2>1
    <3>2. sent'[i] = sent[i] /\ sent[i].age \in 0..Horizon
      BY <1>3, <1>4, <3>1
    <3>3. CASE j = Len(sent')
      BY <1>1, <1>3, <1>4, <3>2, <3>3
    <3>4. CASE j \in 1..Len(sent)
      <4>1. sent'[j] = sent[j]
        BY <1>4, <3>4
      <4> QED
        BY <2>1, <3>1, <3>2, <3>4, <4>1 DEF Sorted
    <3> QED
      BY <1>5, <3>3, <3>4
  <2> QED
    BY <2>1 DEF Sorted
<1>8. Clamped'
  <2>1. ASSUME NEW i \in 1..Len(sent') PROVE sent'[i].ms <= Larger(Floor, cfg.max)
    BY <1>1, <1>4, <1>5 DEF Clamped
  <2> QED
    BY <2>1 DEF Clamped
<1>9. ASSUME NEW S PROVE Amount(sent', S) = Amount(sent, S) + IF b \in S THEN ms ELSE 0
  <2>1. Amount(Append(sent, b), S) = Amount(sent, S) + IF b \in S THEN b.ms ELSE 0
    BY <1>1, <1>3, BurstTimed, AmountAppend
  <2> QED
    BY <1>1, <1>2, <2>1
<1> QED
  BY <1>4, <1>6, <1>7, <1>8, <1>9 DEF b

\* What an allowed command owes is within the budget, and at its distance.
LEMMA Granted ==
  ASSUME Inv, NEW ms \in Nat \ {0}, ms <= Larger(Floor, cfg.max),
         NEW o \in Operators \cup {Nobody}, Command(ms, o), cfg' = cfg,
         cfg.budget > 0 => UsedMs(Pruned) + ms <= cfg.budget,
         Pruned # <<>> => Pruned[Len(Pruned)].age >= cfg.interval
  PROVE  Owing' /\ Spaced'
<1> USE DEF Inv
<1>1. /\ cfg.window \in Nat /\ cfg.interval \in Nat /\ cfg.budget \in Nat
      /\ history \in Seq(Entry(cfg.window)) /\ sent \in Seq(Burst)
      /\ gap \in 0..cfg.window + 1
  BY State
<1> DEFINE b == sent'[Len(sent')]
<1>2. /\ sent' \in Seq(Burst) /\ Len(sent') = Len(sent) + 1
      /\ \A i \in 1..Len(sent) : sent'[i] = sent[i]
      /\ b = [age |-> 0, ms |-> ms, by |-> o, over |-> Waiting # {}, blind |-> gap <= cfg.window]
      /\ \A S : Amount(sent', S) = Amount(sent, S) + IF b \in S THEN ms ELSE 0
  BY Commanded
<1>3. b \in Burst /\ b.age = 0 /\ b.over = (Waiting # {}) /\ b.blind = (gap <= cfg.window)
  BY <1>2 DEF Burst
<1> HIDE DEF b
<1>4. ASSUME Waiting = {}, NEW i \in 1..Len(sent) PROVE sent[i].by \notin Operators
  <2> SUFFICES ASSUME sent[i].by \in Operators PROVE FALSE
    OBVIOUS
  <2>1. sent[i] \in Burst
    BY <1>1
  <2>2. sent[i].ms = inflight[sent[i].by] /\ sent[i].ms \in Nat \ {0}
    BY <2>1, BurstIs DEF Matched
  <2>3. sent[i].by \in Waiting
    BY <2>2 DEF Waiting
  <2> QED
    BY <1>4, <2>3
<1>5. Owing'
  <2> SUFFICES ASSUME cfg.budget > 0 PROVE Amount(sent', Owed(cfg.window)) <= cfg.budget
    BY DEF Owing
  <2>1. Amount(sent, Owed(cfg.window)) <= cfg.budget
    BY DEF Owing
  <2>2. Amount(sent', Owed(cfg.window)) = Amount(sent, Owed(cfg.window))
                                           + IF b \in Owed(cfg.window) THEN ms ELSE 0
    BY <1>2
  <2>3. Amount(sent, Owed(cfg.window)) \in Nat
    BY <1>1, BurstTimed, AmountIsNat
  <2>4. CASE b \notin Owed(cfg.window)
    BY <2>1, <2>2, <2>3, <2>4
  <2>5. CASE b \in Owed(cfg.window)
    <3>1. Waiting = {} /\ ~(gap <= cfg.window)
      BY <1>3, <2>5, OwedIs
    <3>2. cfg.window < gap
      BY <1>1, <3>1
    <3>3. Amount(sent, Owed(cfg.window)) <= Amount(sent, Spent(cfg.window))
      <4>1. ASSUME NEW i \in 1..Len(sent), sent[i] \in Owed(cfg.window)
            PROVE  sent[i] \in Spent(cfg.window) /\ sent[i].ms <= sent[i].ms
        <5>1. sent[i] \in Burst
          BY <1>1
        <5>2. sent[i].by # Lost /\ sent[i].age <= cfg.window
          BY <4>1, <5>1, OwedIs
        <5>3. sent[i].by = Nobody /\ sent[i].ms \in Nat
          BY <1>4, <3>1, <5>1, <5>2, BurstIs
        <5> QED
          BY <5>1, <5>2, <5>3, SpentIs
      <4> QED
        BY <1>1, <4>1, BurstTimed, AmountGrows
    <3>4. Amount(sent, Spent(cfg.window)) <= Amount(history, Kept(cfg.window))
      BY <1>1, <3>2 DEF Covered
    <3>5. Pruned \in Seq(Entry(cfg.window)) /\ Amount(Pruned, Kept(cfg.window)) = Amount(history, Kept(cfg.window))
      BY <1>1, PruneKeeps DEF Pruned
    <3>6. Amount(Pruned, Kept(cfg.window)) <= UsedMs(Pruned) /\ UsedMs(Pruned) \in Nat
      BY <1>1, <3>5, AmountUsed
    <3>7. Amount(sent, Spent(cfg.window)) \in Nat /\ Amount(Pruned, Kept(cfg.window)) \in Nat
      BY <1>1, <3>5, BurstTimed, EntryTimed, AmountIsNat
    <3>8. Amount(sent, Owed(cfg.window)) <= UsedMs(Pruned)
      BY <2>3, <3>3, <3>4, <3>5, <3>6, <3>7
    <3>9. UsedMs(Pruned) + ms <= cfg.budget
      OBVIOUS
    <3> QED
      BY <1>1, <2>2, <2>3, <2>5, <3>6, <3>8, <3>9
  <2> QED
    BY <2>4, <2>5
<1>6. Spaced'
  <2> SUFFICES ASSUME NEW i \in 1..Len(sent'), NEW j \in 1..Len(sent'), i < j,
                      sent'[i].by # Lost, ~sent'[j].over, cfg.interval <= cfg.window
               PROVE  sent'[i].age - sent'[j].age >= cfg.interval
    BY DEF Spaced
  <2>1. i \in 1..Len(sent) /\ (j \in 1..Len(sent) \/ j = Len(sent')) /\ Len(sent) \in Nat
    BY <1>1, <1>2
  <2>2. sent'[i] = sent[i] /\ sent[i] \in Burst
    BY <1>1, <1>2, <2>1
  <2>3. CASE j \in 1..Len(sent)
    <3>1. sent'[j] = sent[j]
      BY <1>2, <2>3
    <3> QED
      BY <2>1, <2>2, <2>3, <3>1 DEF Spaced
  <2>4. CASE j = Len(sent')
    <3>1. sent'[j] = b
      BY <2>4 DEF b
    <3>2. Waiting = {}
      BY <1>3, <3>1
    <3>3. sent[i].by = Nobody /\ sent[i].age \in Nat
      BY <1>4, <2>1, <2>2, <3>2, BurstIs
    <3>4. sent[i].age >= cfg.interval
      <4>1. CASE sent[i].age > cfg.window
        BY <1>1, <3>3, <4>1, SMTT(40)
      <4>2. CASE sent[i].age <= cfg.window
        <5>1. history # <<>> /\ history[Len(history)].age <= sent[i].age
          BY <2>1, <3>3, <4>2 DEF Fresh
        <5>2. history[Len(history)] \in Entry(cfg.window)
          BY <1>1, <5>1
        <5>3. history[Len(history)].age \in Nat
          BY <1>1, <5>2, EntryIs
        <5>4. history[Len(history)].age <= cfg.window
          BY <1>1, <3>3, <4>2, <5>1, <5>3, SMTT(40)
        <5>5. Pruned # <<>> /\ Pruned[Len(Pruned)] = history[Len(history)]
          BY <1>1, <5>1, <5>4, PruneKeeps DEF Pruned
        <5>6. PICK l \in Nat : l = history[Len(history)].age
          BY <5>3
        <5>7. l <= sent[i].age /\ l >= cfg.interval
          BY <5>1, <5>5, <5>6
        <5> QED
          BY <1>1, <3>3, <5>7
      <4> QED
        BY <1>1, <3>3, <4>1, <4>2
    <3>5. sent'[j].age = 0
      BY <1>3, <3>1
    <3> QED
      BY <1>1, <2>2, <3>3, <3>4, <3>5
  <2> QED
    BY <2>1, <2>3, <2>4
<1> QED
  BY <1>5, <1>6

----------------------------------------------------------------------------
(* The end of a request.                                                   *)

\* The burst that o waited for, if it still counts, is now another's.
Relabels(o, as) ==
  /\ sent' \in Seq(Burst) /\ Len(sent') = Len(sent)
  /\ \A i \in 1..Len(sent) :
       /\ sent'[i].age = sent[i].age /\ sent'[i].ms = sent[i].ms
       /\ sent'[i].over = sent[i].over /\ sent'[i].blind = sent[i].blind
       /\ sent'[i].by = IF sent[i].by = o THEN as ELSE sent[i].by

LEMMA SettledRelabels ==
  ASSUME sent \in Seq(Burst), NEW o, NEW as \in Operators \cup {Nobody, Lost},
         sent' = Settled(o, as)
  PROVE  Relabels(o, as)
<1> DEFINE new(b) == IF b.by = o THEN [b EXCEPT !.by = as] ELSE b
<1>2. ASSUME NEW b \in Burst
      PROVE  /\ new(b) \in Burst /\ new(b).age = b.age /\ new(b).ms = b.ms
             /\ new(b).over = b.over /\ new(b).blind = b.blind
             /\ new(b).by = IF b.by = o THEN as ELSE b.by
  BY DEF Burst
<1>3. Len(sent) \in Nat /\ sent' = [i \in 1..Len(sent) |-> new(sent[i])]
  BY DEF Settled
<1>4. \A i \in 1..Len(sent) : sent[i] \in Burst
  OBVIOUS
<1> HIDE DEF new
<1>5. sent' \in Seq(Burst) /\ Len(sent') = Len(sent)
  <2>1. \A i \in 1..Len(sent) : new(sent[i]) \in Burst
    BY <1>2, <1>4
  <2>2. [i \in 1..Len(sent) |-> new(sent[i])] \in Seq(Burst)
    BY <1>3, <2>1, IsASeq
  <2> QED
    BY <1>3, <2>2
<1>6. ASSUME NEW i \in 1..Len(sent)
      PROVE  /\ sent'[i].age = sent[i].age /\ sent'[i].ms = sent[i].ms
             /\ sent'[i].over = sent[i].over /\ sent'[i].blind = sent[i].blind
             /\ sent'[i].by = IF sent[i].by = o THEN as ELSE sent[i].by
  <2>1. sent'[i] = new(sent[i])
    BY <1>3
  <2>2. sent[i] \in Burst
    BY <1>4
  <2> QED
    BY <1>2, <2>1, <2>2, ZenonT(60)
<1> QED
  BY <1>5, <1>6 DEF Relabels

LEMMA RelabelKeeps ==
  ASSUME Inv, NEW o \in Operators, NEW as, as \notin Operators, Relabels(o, as), cfg' = cfg,
         \A p \in Operators : p # o => inflight'[p] = inflight[p]
  PROVE  /\ \A i \in 1..Len(sent') : sent'[i].age <= Horizon
         /\ Sorted' /\ Clamped' /\ Matched' /\ Owing' /\ Spaced'
<1> USE DEF Inv
<1>1. /\ cfg.window \in Nat /\ cfg.interval \in Nat /\ cfg.budget \in Nat
      /\ Horizon \in Nat /\ sent \in Seq(Burst)
      /\ \A i \in 1..Len(sent) : sent[i].age \in 0..Horizon
  BY State
<1>4. \A i \in 1..Len(sent) : sent[i] \in Burst
  BY <1>1
<1>5. sent' \in Seq(Burst) /\ Len(sent') = Len(sent)
  BY DEF Relabels
<1>6. ASSUME NEW i \in 1..Len(sent)
      PROVE  /\ sent'[i].age = sent[i].age /\ sent'[i].ms = sent[i].ms
             /\ sent'[i].over = sent[i].over /\ sent'[i].blind = sent[i].blind
             /\ sent'[i].by = IF sent[i].by = o THEN as ELSE sent[i].by
  BY Zenon DEF Relabels
<1>7. as \notin Operators
  OBVIOUS
<1>8. ASSUME NEW i \in 1..Len(sent') PROVE sent'[i].age <= Horizon
  <2>1. i \in 1..Len(sent)
    BY <1>5
  <2>2. sent'[i].age = sent[i].age /\ sent[i].age \in 0..Horizon
    BY <1>1, <1>6, <2>1
  <2> QED
    BY <1>1, <2>2
<1>9. Sorted'
  <2>1. ASSUME NEW i \in 1..Len(sent'), NEW j \in 1..Len(sent'), i < j
        PROVE  sent'[j].age <= sent'[i].age
    BY <1>5, <1>6, <2>1 DEF Sorted
  <2> QED
    BY <2>1 DEF Sorted
<1>10. Clamped'
  <2>1. ASSUME NEW i \in 1..Len(sent') PROVE sent'[i].ms <= Larger(Floor, cfg.max)
    BY <1>5, <1>6 DEF Clamped
  <2> QED
    BY <2>1 DEF Clamped
<1>11. Matched'
  <2>1. ASSUME NEW i \in 1..Len(sent'), sent'[i].by \in Operators
        PROVE  /\ sent'[i].ms = inflight'[sent'[i].by]
               /\ sent'[i].by = sent[i].by /\ sent[i].by # o
    <3>1. i \in 1..Len(sent)
      BY <1>5
    <3>2. sent'[i].by = sent[i].by /\ sent[i].by # o
      BY <1>6, <1>7, <2>1, <3>1
    <3>3. inflight'[sent[i].by] = inflight[sent[i].by]
      BY <2>1, <3>2
    <3>4. sent[i].ms = inflight[sent[i].by]
      BY <2>1, <3>1, <3>2 DEF Matched
    <3> QED
      BY <1>6, <3>1, <3>2, <3>3, <3>4
  <2>2. ASSUME NEW i \in 1..Len(sent'), NEW j \in 1..Len(sent'), i < j, sent'[i].by \in Operators
        PROVE  sent'[j].by # sent'[i].by
    <3>1. i \in 1..Len(sent) /\ j \in 1..Len(sent)
      BY <1>5
    <3>2. sent'[i].by = sent[i].by /\ sent[i].by \in Operators
      BY <2>1, <2>2
    <3>3. sent[j].by # sent[i].by
      BY <2>2, <3>1, <3>2 DEF Matched
    <3>4. sent'[j].by = as \/ sent'[j].by = sent[j].by
      BY <1>6, <3>1
    <3> QED
      BY <1>7, <3>2, <3>3, <3>4
  <2> QED
    BY <2>1, <2>2 DEF Matched
<1>12. Owing'
  <2> SUFFICES ASSUME cfg.budget > 0 PROVE Amount(sent', Owed(cfg.window)) <= cfg.budget
    BY DEF Owing
  <2>1. ASSUME NEW i \in 1..Len(sent'), sent'[i] \in Owed(cfg.window)
        PROVE  sent[i] \in Owed(cfg.window) /\ sent'[i].ms <= sent[i].ms
    <3>1. i \in 1..Len(sent) /\ sent'[i] \in Burst
      BY <1>5
    <3>2. sent[i] \in Burst
      BY <1>4, <3>1
    <3>3. sent'[i].by # Lost /\ ~sent'[i].over /\ ~sent'[i].blind /\ sent'[i].age <= cfg.window
      BY <2>1, <3>1, OwedIs
    <3>4. sent[i].by # Lost
      BY <1>6, <3>1, <3>3, Labels
    <3>5. sent[i].ms \in Nat
      BY <3>2, BurstIs
    <3>6. /\ sent[i].age = sent'[i].age /\ sent[i].ms = sent'[i].ms
          /\ sent[i].over = sent'[i].over /\ sent[i].blind = sent'[i].blind
      BY <1>6, <3>1
    <3>7. sent[i] \in Owed(cfg.window)
      BY <3>2, <3>3, <3>4, <3>6, OwedIs
    <3>8. sent'[i].ms <= sent[i].ms
      BY <3>5, <3>6
    <3> QED
      BY <3>7, <3>8
  <2>2. Amount(sent', Owed(cfg.window)) <= Amount(sent, Owed(cfg.window))
    BY <1>1, <1>5, <2>1, BurstTimed, AmountGrows
  <2>3. Amount(sent', Owed(cfg.window)) \in Nat /\ Amount(sent, Owed(cfg.window)) \in Nat
    BY <1>1, <1>5, BurstTimed, AmountIsNat
  <2>4. Amount(sent, Owed(cfg.window)) <= cfg.budget
    BY DEF Owing
  <2> QED
    BY <1>1, <2>2, <2>3, <2>4
<1>13. Spaced'
  <2> SUFFICES ASSUME NEW i \in 1..Len(sent'), NEW j \in 1..Len(sent'), i < j,
                      sent'[i].by # Lost, ~sent'[j].over, cfg.interval <= cfg.window
               PROVE  sent'[i].age - sent'[j].age >= cfg.interval
    BY DEF Spaced
  <2>1. i \in 1..Len(sent) /\ j \in 1..Len(sent)
    BY <1>5
  <2>2. sent[i].by # Lost /\ ~sent[j].over
    BY <1>6, <2>1, Labels
  <2>3. sent[i].age - sent[j].age >= cfg.interval
    BY <2>1, <2>2 DEF Spaced
  <2> QED
    BY <1>6, <2>1, <2>3
<1> QED
  BY <1>8, <1>9, <1>10, <1>11, <1>12, <1>13

LEMMA WithoutKeeps ==
  ASSUME Inv, NEW j \in 1..Len(sent), sent' = Without(sent, j), sent[j].by \in Operators,
         cfg' = cfg, \A p \in Operators : p # sent[j].by => inflight'[p] = inflight[p]
  PROVE  /\ sent' \in Seq(Burst) /\ Len(sent') = Len(sent) - 1
         /\ \A i \in 1..Len(sent') : sent'[i] = IF i < j THEN sent[i] ELSE sent[i + 1]
         /\ \A i \in 1..Len(sent') : sent'[i].age <= Horizon
         /\ \A t : Amount(sent', Spent(t)) = Amount(sent, Spent(t))
         /\ Sorted' /\ Clamped' /\ Matched' /\ Owing' /\ Spaced'
<1> USE DEF Inv
<1>1. /\ cfg.window \in Nat /\ cfg.interval \in Nat /\ cfg.budget \in Nat
      /\ Horizon \in Nat /\ sent \in Seq(Burst) /\ Len(sent) \in Nat
      /\ \A i \in 1..Len(sent) : sent[i] \in Burst /\ sent[i].age \in 0..Horizon
  BY State, SMTT(40)
<1>2. /\ sent' \in Seq(Burst) /\ Len(sent') = Len(sent) - 1
      /\ \A i \in 1..Len(sent') : sent'[i] = IF i < j THEN sent[i] ELSE sent[i + 1]
      /\ \A S : Amount(sent', S) <= Amount(sent, S)
      /\ \A S : sent[j] \notin S => Amount(sent', S) = Amount(sent, S)
  BY <1>1, BurstTimed, AmountWithout
<1> DEFINE at(i) == IF i < j THEN i ELSE i + 1
<1>3. ASSUME NEW i \in 1..Len(sent')
      PROVE  at(i) \in 1..Len(sent) /\ at(i) # j /\ sent'[i] = sent[at(i)]
  BY <1>1, <1>2
<1>4. ASSUME NEW i \in 1..Len(sent'), NEW k \in 1..Len(sent'), i < k PROVE at(i) < at(k)
  BY <1>1, <1>2, <1>4
<1> HIDE DEF at
<1>5. \A i \in 1..Len(sent') : sent'[i].age <= Horizon
  BY <1>1, <1>3
<1>6. ASSUME NEW t PROVE Amount(sent', Spent(t)) = Amount(sent, Spent(t))
  <2>1. sent[j] \notin Spent(t)
    BY <1>1, SpentIs, Labels
  <2> QED
    BY <1>2, <2>1
<1>7. Sorted'
  <2>1. ASSUME NEW i \in 1..Len(sent'), NEW k \in 1..Len(sent'), i < k
        PROVE  sent'[k].age <= sent'[i].age
    BY <1>3, <1>4, <2>1 DEF Sorted
  <2> QED
    BY <2>1 DEF Sorted
<1>8. Clamped'
  <2>1. ASSUME NEW i \in 1..Len(sent') PROVE sent'[i].ms <= Larger(Floor, cfg.max)
    BY <1>3 DEF Clamped
  <2> QED
    BY <2>1 DEF Clamped
<1>9. Matched'
  <2>1. ASSUME NEW i \in 1..Len(sent'), sent'[i].by \in Operators
        PROVE  sent'[i].ms = inflight'[sent'[i].by]
    <3>1. at(i) \in 1..Len(sent) /\ at(i) # j /\ sent'[i] = sent[at(i)]
      BY <1>3
    <3>2. sent[at(i)].ms = inflight[sent[at(i)].by]
      BY <2>1, <3>1 DEF Matched
    <3>3. sent[at(i)].by # sent[j].by
      <4>1. at(i) < j \/ j < at(i)
        BY <1>1, <3>1
      <4> QED
        BY <2>1, <3>1, <4>1 DEF Matched
    <3>4. inflight'[sent[at(i)].by] = inflight[sent[at(i)].by]
      BY <2>1, <3>1, <3>3
    <3> QED
      BY <3>1, <3>2, <3>4
  <2>2. ASSUME NEW i \in 1..Len(sent'), NEW k \in 1..Len(sent'), i < k, sent'[i].by \in Operators
        PROVE  sent'[k].by # sent'[i].by
    BY <1>3, <1>4, <2>2 DEF Matched
  <2> QED
    BY <2>1, <2>2 DEF Matched
<1>10. Owing'
  <2> SUFFICES ASSUME cfg.budget > 0 PROVE Amount(sent', Owed(cfg.window)) <= cfg.budget
    BY DEF Owing
  <2>1. Amount(sent', Owed(cfg.window)) <= Amount(sent, Owed(cfg.window))
    BY <1>2
  <2>2. Amount(sent', Owed(cfg.window)) \in Nat /\ Amount(sent, Owed(cfg.window)) \in Nat
    BY <1>1, <1>2, BurstTimed, AmountIsNat
  <2>3. Amount(sent, Owed(cfg.window)) <= cfg.budget
    BY DEF Owing
  <2> QED
    BY <1>1, <2>1, <2>2, <2>3
<1>11. Spaced'
  <2> SUFFICES ASSUME NEW i \in 1..Len(sent'), NEW k \in 1..Len(sent'), i < k,
                      sent'[i].by # Lost, ~sent'[k].over, cfg.interval <= cfg.window
               PROVE  sent'[i].age - sent'[k].age >= cfg.interval
    BY DEF Spaced
  <2>1. /\ at(i) \in 1..Len(sent) /\ sent'[i] = sent[at(i)]
        /\ at(k) \in 1..Len(sent) /\ sent'[k] = sent[at(k)] /\ at(i) < at(k)
    BY <1>3, <1>4
  <2>2. sent[at(i)].age - sent[at(k)].age >= cfg.interval
    BY <2>1 DEF Spaced
  <2> QED
    BY <2>1, <2>2
<1> QED
  BY <1>2, <1>5, <1>6, <1>7, <1>8, <1>9, <1>10, <1>11

----------------------------------------------------------------------------
(* A tick.                                                                 *)

LEMMA AmountNone ==
  ASSUME NEW R, Timed(R), NEW s \in Seq(R), NEW S, \A i \in 1..Len(s) : s[i] \notin S
  PROVE  Amount(s, S) = 0
<1>1. PICK u : u = << >>
  OBVIOUS
<1>2. u \in Seq(R) /\ Len(u) = 0
  BY <1>1
<1>3. PICK d \in Nat : d = Len(s)
  OBVIOUS
<1>4. Len(s) = Len(u) + d /\ \A i \in 1..Len(u) : u[i] = s[i + d]
  BY <1>2, <1>3
<1>5. \A i \in 1..d : s[i] \notin S
  BY <1>3
<1>6. Amount(u, S) = Amount(s, S)
  <2>1. u \in Seq(R)
    BY <1>2
  <2> QED
    BY <1>4, <1>5, <2>1, AmountSuffix, SMTT(40)
<1>7. Weights(u, S) \in Seq(Nat) /\ Len(Weights(u, S)) = 0
  BY <1>2, WeightsAre
<1>8. Subtotals(Weights(u, S), 0)[0] = 0
  BY UpToIs
<1>9. Amount(u, S) = 0
  BY <1>7, <1>8 DEF Amount, Total
<1> QED
  BY <1>6, <1>9

\* m is sent, a tick older.
Older(m) ==
  /\ m \in Seq(Burst) /\ Len(m) = Len(sent)
  /\ \A i \in 1..Len(sent) :
       /\ m[i].age = sent[i].age + 1 /\ m[i].ms = sent[i].ms /\ m[i].by = sent[i].by
       /\ m[i].over = sent[i].over /\ m[i].blind = sent[i].blind

LEMMA OlderIs ==
  ASSUME sent \in Seq(Burst)
  PROVE  Older([i \in DOMAIN sent |-> [sent[i] EXCEPT !.age = @ + 1]])
<1> DEFINE older(b) == [b EXCEPT !.age = @ + 1]
           m == [i \in DOMAIN sent |-> [sent[i] EXCEPT !.age = @ + 1]]
<1>1. ASSUME NEW b \in Burst
      PROVE  /\ older(b) \in Burst /\ older(b).age = b.age + 1 /\ older(b).ms = b.ms
             /\ older(b).by = b.by /\ older(b).over = b.over /\ older(b).blind = b.blind
  <2>1. PICK a \in Nat : a = b.age + 1
    BY BurstIs
  <2>2. b = [age |-> b.age, ms |-> b.ms, by |-> b.by, over |-> b.over, blind |-> b.blind]
    BY BurstIs
  <2>3. older(b) = [age |-> a, ms |-> b.ms, by |-> b.by, over |-> b.over, blind |-> b.blind]
    BY <2>1, <2>2
  <2>4. /\ b.ms \in Nat \ {0} /\ b.by \in Operators \cup {Nobody, Lost}
        /\ b.over \in BOOLEAN /\ b.blind \in BOOLEAN
    BY BurstIs
  <2> HIDE DEF older
  <2> QED
    BY <2>1, <2>3, <2>4 DEF Burst
<1>2. Len(sent) \in Nat /\ m = [i \in 1..Len(sent) |-> older(sent[i])]
  OBVIOUS
<1>3. \A i \in 1..Len(sent) : sent[i] \in Burst
  OBVIOUS
<1> HIDE DEF older, m
<1>4. m \in Seq(Burst) /\ Len(m) = Len(sent)
  <2>1. \A i \in 1..Len(sent) : older(sent[i]) \in Burst
    BY <1>1, <1>3
  <2>2. [i \in 1..Len(sent) |-> older(sent[i])] \in Seq(Burst)
    BY <1>2, <2>1, IsASeq
  <2> QED
    BY <1>2, <2>2
<1>5. ASSUME NEW i \in 1..Len(sent)
      PROVE  /\ m[i].age = sent[i].age + 1 /\ m[i].ms = sent[i].ms /\ m[i].by = sent[i].by
             /\ m[i].over = sent[i].over /\ m[i].blind = sent[i].blind
  <2>1. m[i] = older(sent[i]) /\ sent[i] \in Burst
    BY <1>2, <1>3
  <2> QED
    BY <1>1, <2>1
<1>6. Older(m)
  BY <1>4, <1>5, Zenon DEF Older
<1> QED
  BY <1>6 DEF m

LEMMA TickKeeps ==
  ASSUME Inv, NEW m, Older(m), NEW d \in Nat, sent' \in Seq(Burst),
         Drops(m, sent', d, Horizon), cfg' = cfg, inflight' = inflight
  PROVE  /\ \A i \in 1..Len(sent') :
              /\ i + d \in 1..Len(sent)
              /\ sent'[i].age = sent[i + d].age + 1 /\ sent'[i].by = sent[i + d].by
              /\ sent'[i].age <= Horizon
         /\ \A t \in 1..cfg.window : Amount(sent', Spent(t)) = Amount(sent, Spent(t - 1))
         /\ Amount(sent', Spent(0)) = 0
         /\ Sorted' /\ Clamped' /\ Matched' /\ Owing' /\ Spaced'
<1> USE DEF Inv
<1>1. /\ cfg.window \in Nat /\ cfg.interval \in Nat /\ cfg.budget \in Nat
      /\ Horizon \in Nat /\ cfg.window <= Horizon /\ sent \in Seq(Burst) /\ Len(sent) \in Nat
      /\ \A i \in 1..Len(sent) : sent[i] \in Burst /\ sent[i].age \in Nat
  BY State
<1>2. /\ m \in Seq(Burst) /\ Len(m) = Len(sent)
      /\ \A i \in 1..Len(sent) :
           /\ m[i].age = sent[i].age + 1 /\ m[i].ms = sent[i].ms /\ m[i].by = sent[i].by
           /\ m[i].over = sent[i].over /\ m[i].blind = sent[i].blind
  BY Zenon DEF Older
<1>3. /\ Len(sent') + d = Len(sent) /\ Len(sent') \in Nat
      /\ \A i \in 1..Len(sent') : sent'[i] = m[i + d]
      /\ \A i \in 1..d : m[i].age > Horizon
      /\ sent' # <<>> => sent'[1].age <= Horizon
  BY <1>2 DEF Drops
<1>4. ASSUME NEW i \in 1..Len(sent')
      PROVE  /\ i + d \in 1..Len(sent) /\ sent'[i].age = sent[i + d].age + 1
             /\ sent'[i].ms = sent[i + d].ms /\ sent'[i].by = sent[i + d].by
             /\ sent'[i].over = sent[i + d].over
  <2>1. i + d \in 1..Len(sent) /\ sent'[i] = m[i + d]
    BY <1>1, <1>3
  <2> QED
    BY <1>2, <2>1
<1>5. ASSUME NEW i \in 1..Len(sent'), NEW j \in 1..Len(sent'), i < j
      PROVE  /\ sent'[j].age <= sent'[i].age /\ i + d < j + d
             /\ sent'[i].age - sent'[j].age = sent[i + d].age - sent[j + d].age
  <2>1. i + d \in 1..Len(sent) /\ j + d \in 1..Len(sent) /\ i + d < j + d
    BY <1>1, <1>4, <1>5
  <2>2. sent[j + d].age <= sent[i + d].age
    BY <2>1 DEF Sorted
  <2>3. sent[i + d].age \in Nat /\ sent[j + d].age \in Nat
    BY <1>1, <2>1
  <2>4. sent'[i].age = sent[i + d].age + 1 /\ sent'[j].age = sent[j + d].age + 1
    BY <1>4
  <2>5. PICK x \in Nat, y \in Nat : x = sent[i + d].age /\ y = sent[j + d].age
    BY <2>3
  <2>6. sent'[i].age = x + 1 /\ sent'[j].age = y + 1 /\ y <= x
    BY <2>2, <2>4, <2>5
  <2>7. sent'[j].age <= sent'[i].age /\ sent'[i].age - sent'[j].age = x - y
    BY <2>6
  <2> QED
    BY <2>1, <2>5, <2>7
<1>6. ASSUME NEW i \in 1..Len(sent') PROVE sent'[i].age <= Horizon
  <2>1. 1 \in 1..Len(sent') /\ sent' # <<>>
    BY <1>3
  <2>2. sent'[1].age <= Horizon
    BY <1>3, <2>1
  <2>3. sent'[i].age <= sent'[1].age
    <3>1. CASE i = 1
      <4>1. sent'[1].age \in Nat
        BY <1>1, <1>4, <2>1
      <4> QED
        BY <3>1, <4>1
    <3>2. CASE 1 < i
      BY <1>5, <2>1, <3>2
    <3> QED
      BY <3>1, <3>2
  <2>4. sent'[i].age \in Nat /\ sent'[1].age \in Nat
    <3>1. sent'[i] \in Burst /\ sent'[1] \in Burst
      BY <2>1
    <3> QED
      BY <3>1, BurstIs
  <2> QED
    BY <1>1, <2>2, <2>3, <2>4
<1>7. ASSUME NEW S, \A b \in Burst : b \in S => b.age <= cfg.window
      PROVE  Amount(sent', S) = Amount(m, S)
  <2>1. ASSUME NEW i \in 1..d PROVE m[i] \notin S
    <3>1. i \in 1..Len(sent)
      BY <1>1, <1>3
    <3>2. m[i] \in Burst /\ m[i].age > Horizon
      BY <1>2, <1>3, <3>1
    <3>3. m[i].age \in Nat
      BY <3>2, BurstIs
    <3> QED
      BY <1>1, <1>7, <3>2, <3>3
  <2>2. Len(m) = Len(sent') + d
    BY <1>2, <1>3
  <2>3. m \in Seq(Burst) /\ \A i \in 1..Len(sent') : sent'[i] = m[i + d]
    BY <1>2, <1>3
  <2> QED
    BY <2>1, <2>2, <2>3, BurstTimed, AmountSuffix
<1>8. ASSUME NEW t \in 1..cfg.window PROVE Amount(sent', Spent(t)) = Amount(sent, Spent(t - 1))
  <2>1. ASSUME NEW b \in Burst, b \in Spent(t) PROVE b.age <= cfg.window
    <3>1. b.age \in Nat /\ b.age <= t
      BY <2>1, BurstIs, SpentIs
    <3> QED
      BY <1>1, <3>1
  <2>2. Amount(sent', Spent(t)) = Amount(m, Spent(t))
    BY <1>7, <2>1
  <2>3. ASSUME NEW i \in 1..Len(m)
        PROVE  (m[i] \in Spent(t) <=> sent[i] \in Spent(t - 1)) /\ m[i].ms = sent[i].ms
    <3>1. i \in 1..Len(sent) /\ m[i] \in Burst
      BY <1>2
    <3>2. /\ sent[i] \in Burst /\ sent[i].age \in Nat /\ m[i].age = sent[i].age + 1
          /\ m[i].ms = sent[i].ms /\ m[i].by = sent[i].by
      BY <1>1, <1>2, <3>1
    <3>3. /\ m[i] \in Spent(t) <=> m[i].by = Nobody /\ m[i].age <= t
          /\ sent[i] \in Spent(t - 1) <=> sent[i].by = Nobody /\ sent[i].age <= t - 1
      BY <3>1, <3>2, SpentIs
    <3>4. m[i].age <= t <=> sent[i].age <= t - 1
      BY <1>1, <3>2, SMTT(40)
    <3> QED
      BY <3>2, <3>3, <3>4
  <2>4. Amount(m, Spent(t)) = Amount(sent, Spent(t - 1))
    BY <1>1, <1>2, <2>3, BurstTimed, AmountSame
  <2> QED
    BY <2>2, <2>4
<1>9. Amount(sent', Spent(0)) = 0
  <2>1. ASSUME NEW i \in 1..Len(sent') PROVE sent'[i] \notin Spent(0)
    <3>1. sent'[i].age = sent[i + d].age + 1 /\ sent[i + d].age \in Nat
      BY <1>1, <1>4
    <3>2. sent'[i] \in Burst
      OBVIOUS
    <3>3. ~(sent'[i].age <= 0)
      BY <3>1
    <3> QED
      BY <3>2, <3>3, SpentIs
  <2> QED
    BY <2>1, BurstTimed, AmountNone
<1>10. Sorted'
  BY <1>5 DEF Sorted
<1>11. Clamped'
  <2>1. ASSUME NEW i \in 1..Len(sent') PROVE sent'[i].ms <= Larger(Floor, cfg.max)
    BY <1>4 DEF Clamped
  <2> QED
    BY <2>1 DEF Clamped
<1>12. Matched'
  <2>1. ASSUME NEW i \in 1..Len(sent'), sent'[i].by \in Operators
        PROVE  sent'[i].ms = inflight[sent'[i].by]
    <3>1. i + d \in 1..Len(sent) /\ sent'[i].ms = sent[i + d].ms /\ sent'[i].by = sent[i + d].by
      BY <1>4
    <3> QED
      BY <2>1, <3>1 DEF Matched
  <2>2. ASSUME NEW i \in 1..Len(sent'), NEW j \in 1..Len(sent'), i < j, sent'[i].by \in Operators
        PROVE  sent'[j].by # sent'[i].by
    <3>1. /\ i + d \in 1..Len(sent) /\ sent'[i].by = sent[i + d].by
          /\ j + d \in 1..Len(sent) /\ sent'[j].by = sent[j + d].by /\ i + d < j + d
      BY <1>4, <1>5, <2>2
    <3> QED
      BY <2>2, <3>1 DEF Matched
  <2> QED
    BY <2>1, <2>2 DEF Matched
<1>13. Owing'
  <2> SUFFICES ASSUME cfg.budget > 0 PROVE Amount(sent', Owed(cfg.window)) <= cfg.budget
    BY DEF Owing
  <2>1. Amount(sent', Owed(cfg.window)) = Amount(m, Owed(cfg.window))
    BY <1>7, OwedIs
  <2>2. ASSUME NEW i \in 1..Len(m), m[i] \in Owed(cfg.window)
        PROVE  sent[i] \in Owed(cfg.window) /\ m[i].ms <= sent[i].ms
    <3>1. i \in 1..Len(sent) /\ m[i] \in Burst
      BY <1>2
    <3>2. /\ sent[i] \in Burst /\ sent[i].age \in Nat /\ m[i].age = sent[i].age + 1
          /\ m[i].ms = sent[i].ms /\ m[i].by = sent[i].by
          /\ m[i].over = sent[i].over /\ m[i].blind = sent[i].blind
      BY <1>1, <1>2, <3>1
    <3>3. m[i].by # Lost /\ ~m[i].over /\ ~m[i].blind /\ m[i].age <= cfg.window
      BY <2>2, <3>1, OwedIs
    <3>4. sent[i].age <= cfg.window
      BY <1>1, <3>2, <3>3
    <3>5. sent[i].ms \in Nat
      BY <3>2, BurstIs
    <3>6. sent[i] \in Owed(cfg.window)
      BY <3>2, <3>3, <3>4, OwedIs
    <3> QED
      BY <3>2, <3>5, <3>6
  <2>3. Amount(m, Owed(cfg.window)) <= Amount(sent, Owed(cfg.window))
    BY <1>1, <1>2, <2>2, BurstTimed, AmountGrows
  <2>4. Amount(m, Owed(cfg.window)) \in Nat /\ Amount(sent, Owed(cfg.window)) \in Nat
    BY <1>1, <1>2, BurstTimed, AmountIsNat
  <2>5. Amount(sent, Owed(cfg.window)) <= cfg.budget
    BY DEF Owing
  <2> QED
    BY <1>1, <2>1, <2>3, <2>4, <2>5
<1>14. Spaced'
  <2> SUFFICES ASSUME NEW i \in 1..Len(sent'), NEW j \in 1..Len(sent'), i < j,
                      sent'[i].by # Lost, ~sent'[j].over, cfg.interval <= cfg.window
               PROVE  sent'[i].age - sent'[j].age >= cfg.interval
    BY DEF Spaced
  <2>1. /\ i + d \in 1..Len(sent) /\ sent'[i].by = sent[i + d].by
        /\ j + d \in 1..Len(sent) /\ sent'[j].over = sent[j + d].over /\ i + d < j + d
        /\ sent'[i].age - sent'[j].age = sent[i + d].age - sent[j + d].age
    BY <1>4, <1>5
  <2>2. sent[i + d].age - sent[j + d].age >= cfg.interval
    BY <2>1 DEF Spaced
  <2> QED
    BY <2>1, <2>2
<1>15. \A i \in 1..Len(sent') : /\ i + d \in 1..Len(sent)
                               /\ sent'[i].age = sent[i + d].age + 1 /\ sent'[i].by = sent[i + d].by
                               /\ sent'[i].age <= Horizon
  BY <1>4, <1>6
<1> QED
  BY <1>8, <1>9, <1>10, <1>11, <1>12, <1>13, <1>14, <1>15

----------------------------------------------------------------------------
(* The actions.                                                            *)

LEMMA RecordKeeps ==
  ASSUME TypeOK, NEW h \in Seq(Entry(cfg.window)), Len(h) <= MaxLen, NEW ms \in Nat \ {0},
         Record(h, ms)
  PROVE  /\ history' \in Seq(Entry(cfg.window)) /\ Len(history') <= MaxLen
         /\ history' # <<>> /\ history'[Len(history')].age = 0
         /\ gap' \in 0..cfg.window + 1
         /\ \A t \in 0..cfg.window :
              t < gap' => t < gap /\ Amount(history', Kept(t)) = Amount(h, Kept(t)) + ms
<1>1. cfg.window \in Nat /\ gap \in 0..cfg.window + 1
  BY State
<1>2. history' = Recorded(h, cfg, ms)
  BY DEF Record
<1>3. gap' = IF Len(h) = MaxLen /\ h[1].age < gap THEN h[1].age ELSE gap
  BY DEF Record
<1>4. /\ history' \in Seq(Entry(cfg.window)) /\ Len(history') <= MaxLen
      /\ history' # <<>> /\ history'[Len(history')].age = 0
      /\ \A t \in 0..cfg.window :
           (Len(h) = MaxLen => t < h[1].age)
           => Amount(history', Kept(t)) = Amount(h, Kept(t)) + ms
  BY <1>1, <1>2, RecordedKeeps
<1>5. Len(h) = MaxLen => h[1].age \in 0..cfg.window + 1
  <2> SUFFICES ASSUME Len(h) = MaxLen PROVE h[1].age \in 0..cfg.window + 1
    OBVIOUS
  <2>1. 1 \in 1..Len(h)
    BY GuardAssumption
  <2>2. h[1] \in Entry(cfg.window)
    BY <2>1
  <2> QED
    BY <1>1, <2>2, EntryIs
<1>6. gap' \in 0..cfg.window + 1
  BY <1>1, <1>3, <1>5
<1>7. ASSUME NEW t \in 0..cfg.window, t < gap' PROVE t < gap /\ (Len(h) = MaxLen => t < h[1].age)
  BY <1>1, <1>3, <1>5, <1>7
<1> QED
  BY <1>4, <1>6, <1>7

\* An entry of this very tick is as young as any burst.
LEMMA JustRecorded ==
  ASSUME sent' \in Seq(Burst), history' # <<>>, history'[Len(history')].age = 0
  PROVE  Fresh'
<1>1. ASSUME NEW i \in 1..Len(sent') PROVE 0 <= sent'[i].age
  <2>1. sent'[i] \in Burst
    OBVIOUS
  <2>2. sent'[i].age \in Nat
    BY <2>1, BurstIs
  <2> QED
    BY <2>2
<1> QED
  BY <1>1 DEF Fresh

LEMMA InitInv ==
  ASSUME Init
  PROVE  Inv
<1>1. IsConfig(cfg)
  BY ConfigsAssumption DEF Init
<1>2. cfg.window \in Nat /\ cfg.budget \in Nat /\ cfg.interval \in Nat /\ Horizon \in Nat
  BY <1>1 DEF IsConfig, Horizon, Larger
<1>3. sent = <<>> /\ history = <<>> /\ inflight = [o \in Operators |-> 0] /\ gap = cfg.window + 1
      /\ armed = FALSE /\ cfg \in Configs
  BY DEF Init
<1>4. TypeOK
  <2>1. \A S : <<>> \in Seq(S)
    OBVIOUS
  <2>2. Len(<<>>) <= MaxLen /\ gap \in 0..cfg.window + 1 /\ inflight \in [Operators -> Nat]
    BY <1>2, <1>3, GuardAssumption
  <2> QED
    BY <1>3, <2>1, <2>2, Zenon DEF TypeOK
<1>5. Len(sent) = 0 /\ sent \in Seq(Burst) /\ history \in Seq(Entry(cfg.window)) /\ 1..Len(sent) = {}
  BY <1>3
<1>6. Sorted /\ Matched /\ Clamped /\ Fresh /\ Spaced
  BY <1>5 DEF Sorted, Matched, Clamped, Fresh, Spaced
<1>7. \A S : Amount(sent, S) = 0
  BY <1>5, BurstTimed, AmountNone
<1>8. Covered
  <2>1. \A t \in 0..cfg.window : Amount(history, Kept(t)) \in Nat
    BY <1>2, <1>5, EntryTimed, AmountIsNat
  <2> QED
    BY <1>7, <2>1 DEF Covered
<1>9. Owing
  BY <1>2, <1>7 DEF Owing
<1> QED
  BY <1>4, <1>6, <1>8, <1>9 DEF Inv

LEMMA AutoSprayInv ==
  ASSUME Inv, AutoSpray
  PROVE  Inv'
<1> USE DEF Inv
<1>1. /\ cfg.window \in Nat /\ cfg.default \in Nat \ {0} /\ Len(history) <= MaxLen
      /\ history \in Seq(Entry(cfg.window)) /\ sent \in Seq(Burst)
  BY State
<1>2. IsConfig(cfg)
  BY ConfigsAssumption DEF TypeOK
<1>3. PICK ms : /\ ms = Grant(Pruned, cfg, cfg.default)
                /\ Record(Pruned, ms) /\ Command(ms, Nobody)
                /\ Allowed(Pruned, cfg) /\ cfg' = cfg /\ armed' = armed /\ inflight' = inflight
  BY DEF AutoSpray
<1>4. /\ Pruned \in Seq(Entry(cfg.window)) /\ Len(Pruned) <= Len(history)
      /\ \A t \in 0..cfg.window : Amount(Pruned, Kept(t)) = Amount(history, Kept(t))
  BY <1>1, PruneKeeps DEF Pruned
<1>5. cfg.default \in Int
  BY <1>1
<1>6. /\ ms \in Nat \ {0} /\ ms <= Larger(Floor, cfg.max)
      /\ cfg.budget > 0 => UsedMs(Pruned) + ms <= cfg.budget
      /\ Pruned # <<>> => Pruned[Len(Pruned)].age >= cfg.interval
  BY <1>2, <1>3, <1>4, <1>5, GrantIs
<1>7. Len(Pruned) <= MaxLen
  BY <1>1, <1>4, GuardAssumption
<1>8. /\ history' \in Seq(Entry(cfg.window)) /\ Len(history') <= MaxLen
      /\ history' # <<>> /\ history'[Len(history')].age = 0
      /\ gap' \in 0..cfg.window + 1
      /\ \A t \in 0..cfg.window :
           t < gap' => t < gap /\ Amount(history', Kept(t)) = Amount(Pruned, Kept(t)) + ms
  BY <1>3, <1>4, <1>6, <1>7, RecordKeeps
<1>9. Nobody \in Operators \cup {Nobody}
  OBVIOUS
<1>10. Owing' /\ Spaced'
  BY <1>3, <1>6, <1>9, Granted
<1> DEFINE b == [age |-> 0, ms |-> ms, by |-> Nobody,
                 over |-> Waiting # {}, blind |-> gap <= cfg.window]
<1>11. /\ sent' \in Seq(Burst) /\ Len(sent') = Len(sent) + 1
       /\ \A i \in 1..Len(sent) : sent'[i] = sent[i]
       /\ sent'[Len(sent')] = b
       /\ \A i \in 1..Len(sent') : sent'[i].age <= Horizon
       /\ Sorted' /\ Clamped'
       /\ \A S : Amount(sent', S) = Amount(sent, S) + IF b \in S THEN ms ELSE 0
  BY <1>3, <1>6, <1>9, Commanded
<1>12. b \in Burst /\ b.by = Nobody /\ b.age = 0
  BY <1>6 DEF Burst
<1> HIDE DEF b
<1>13. TypeOK'
  <2>1. armed' \in BOOLEAN /\ inflight' \in [Operators -> Nat]
    BY <1>3 DEF TypeOK
  <2> QED
    BY <1>3, <1>8, <1>11, <2>1, TypedNext
<1>14. Fresh'
  BY <1>8, <1>11, JustRecorded
<1>15. Covered'
  <2>1. ASSUME NEW t \in 0..cfg.window, t < gap'
        PROVE  Amount(sent', Spent(t)) <= Amount(history', Kept(t))
    <3>1. b \in Spent(t)
      BY <1>12, SpentIs
    <3>2. Amount(sent', Spent(t)) = Amount(sent, Spent(t)) + ms
      BY <1>11, <3>1
    <3>3. Amount(history', Kept(t)) = Amount(history, Kept(t)) + ms /\ t < gap
      BY <1>4, <1>8, <2>1
    <3>4. Amount(sent, Spent(t)) <= Amount(history, Kept(t))
      BY <3>3 DEF Covered
    <3>5. Amount(sent, Spent(t)) \in Nat /\ Amount(history, Kept(t)) \in Nat
      BY <1>1, BurstTimed, EntryTimed, AmountIsNat
    <3> QED
      BY <1>6, <3>2, <3>3, <3>4, <3>5
  <2> QED
    BY <1>3, <2>1 DEF Covered
<1>16. Matched'
  <2>1. Nobody \notin Operators
    BY Labels
  <2>2. \A i \in 1..Len(sent') : i \in 1..Len(sent) \/ i = Len(sent')
    BY <1>1, <1>11
  <2>3. ASSUME NEW i \in 1..Len(sent'), sent'[i].by \in Operators
        PROVE  i \in 1..Len(sent) /\ sent'[i] = sent[i] /\ sent'[i].ms = inflight[sent'[i].by]
    BY <1>11, <1>12, <2>1, <2>2, <2>3 DEF Matched
  <2>4. ASSUME NEW i \in 1..Len(sent'), NEW j \in 1..Len(sent'), i < j, sent'[i].by \in Operators
        PROVE  sent'[j].by # sent'[i].by
    <3>1. CASE j = Len(sent')
      BY <1>11, <1>12, <2>1, <2>4, <3>1
    <3>2. CASE j \in 1..Len(sent)
      BY <1>11, <2>3, <2>4, <3>2 DEF Matched
    <3> QED
      BY <2>2, <3>1, <3>2
  <2> QED
    BY <1>3, <2>3, <2>4 DEF Matched
<1> QED
  BY <1>10, <1>11, <1>13, <1>14, <1>15, <1>16

LEMMA ManualCheckInv ==
  ASSUME Inv, NEW o \in Operators, ManualCheck(o)
  PROVE  Inv'
<1> USE DEF Inv
<1>1. /\ cfg.window \in Nat /\ cfg.default \in Nat \ {0} /\ Len(history) <= MaxLen
      /\ history \in Seq(Entry(cfg.window)) /\ sent \in Seq(Burst)
      /\ \A i \in 1..Len(sent) : sent[i] \in Burst
  BY State
<1>2. IsConfig(cfg)
  BY ConfigsAssumption DEF TypeOK
<1>3. PICK req \in Requests \cup {cfg.default} :
          /\ inflight' = [inflight EXCEPT ![o] = Grant(Pruned, cfg, req)]
          /\ Command(Grant(Pruned, cfg, req), o)
  BY DEF ManualCheck
<1>4. /\ inflight[o] = 0 /\ Allowed(Pruned, cfg) /\ history' = Pruned
      /\ cfg' = cfg /\ armed' = armed /\ gap' = gap
  BY DEF ManualCheck
<1>5. /\ Pruned \in Seq(Entry(cfg.window)) /\ Len(Pruned) <= Len(history)
      /\ \A t \in 0..cfg.window : Amount(Pruned, Kept(t)) = Amount(history, Kept(t))
      /\ history # <<>> /\ history[Len(history)].age <= cfg.window
         => Pruned # <<>> /\ Pruned[Len(Pruned)] = history[Len(history)]
  BY <1>1, PruneKeeps DEF Pruned
<1> DEFINE ms == Grant(Pruned, cfg, req)
<1>6. req \in Int
  BY <1>1, RequestsAssumption
<1>7. /\ ms \in Nat \ {0} /\ ms <= Larger(Floor, cfg.max)
      /\ cfg.budget > 0 => UsedMs(Pruned) + ms <= cfg.budget
      /\ Pruned # <<>> => Pruned[Len(Pruned)].age >= cfg.interval
  BY <1>2, <1>4, <1>5, <1>6, GrantIs
<1>8. inflight' = [inflight EXCEPT ![o] = ms] /\ Command(ms, o) /\ o \in Operators \cup {Nobody}
  BY <1>3
<1> HIDE DEF ms
<1>9. /\ inflight' \in [Operators -> Nat] /\ inflight'[o] = ms
      /\ \A p \in Operators : p # o => inflight'[p] = inflight[p]
  BY <1>7, <1>8 DEF TypeOK
<1>10. Owing' /\ Spaced'
  BY <1>4, <1>7, <1>8, Granted
<1> DEFINE b == [age |-> 0, ms |-> ms, by |-> o,
                 over |-> Waiting # {}, blind |-> gap <= cfg.window]
<1>11. /\ sent' \in Seq(Burst) /\ Len(sent') = Len(sent) + 1
       /\ \A i \in 1..Len(sent) : sent'[i] = sent[i]
       /\ sent'[Len(sent')] = b
       /\ \A i \in 1..Len(sent') : sent'[i].age <= Horizon
       /\ Sorted' /\ Clamped'
       /\ \A S : Amount(sent', S) = Amount(sent, S) + IF b \in S THEN ms ELSE 0
  BY <1>4, <1>7, <1>8, Commanded
<1>12. b \in Burst /\ b.by = o /\ b.ms = ms
  BY <1>7 DEF Burst
<1> HIDE DEF b
<1>13. TypeOK'
  <2>1. armed' \in BOOLEAN /\ gap' \in 0..cfg.window + 1
    BY <1>4 DEF TypeOK
  <2>2. Len(history') <= MaxLen /\ history' \in Seq(Entry(cfg.window))
    BY <1>1, <1>4, <1>5, GuardAssumption
  <2> QED
    BY <1>4, <1>9, <1>11, <2>1, <2>2, TypedNext
<1>14. o # Nobody
  BY Labels
<1>15. \A i \in 1..Len(sent') : i \in 1..Len(sent) \/ i = Len(sent')
  BY <1>1, <1>11
<1>16. Fresh'
  <2>1. ASSUME NEW i \in 1..Len(sent'), sent'[i].by = Nobody, sent'[i].age <= cfg.window
        PROVE  Pruned # <<>> /\ Pruned[Len(Pruned)].age <= sent'[i].age
    <3>1. i \in 1..Len(sent) /\ sent'[i] = sent[i]
      BY <1>11, <1>12, <1>14, <1>15, <2>1
    <3>2. history # <<>> /\ history[Len(history)].age <= sent[i].age
      BY <2>1, <3>1 DEF Fresh
    <3>3. history[Len(history)] \in Entry(cfg.window) /\ sent[i] \in Burst
      BY <1>1, <3>1, <3>2
    <3>4. history[Len(history)].age \in Nat /\ sent[i].age \in Nat
      BY <1>1, <3>3, EntryIs, BurstIs
    <3>5. history[Len(history)].age <= cfg.window
      BY <1>1, <2>1, <3>1, <3>2, <3>4
    <3> QED
      BY <1>5, <3>1, <3>2, <3>5
  <2> QED
    BY <1>4, <2>1 DEF Fresh
<1>17. Covered'
  <2>1. ASSUME NEW t \in 0..cfg.window, t < gap
        PROVE  Amount(sent', Spent(t)) <= Amount(Pruned, Kept(t))
    <3>1. b \notin Spent(t)
      BY <1>12, <1>14, SpentIs
    <3>2. Amount(sent', Spent(t)) = Amount(sent, Spent(t)) + 0
      BY <1>11, <3>1
    <3>3. Amount(sent, Spent(t)) <= Amount(history, Kept(t))
      BY <2>1 DEF Covered
    <3>4. Amount(sent, Spent(t)) \in Nat
      BY <1>1, BurstTimed, AmountIsNat
    <3> QED
      BY <1>5, <3>2, <3>3, <3>4
  <2> QED
    BY <1>4, <2>1 DEF Covered
<1>18. ASSUME NEW i \in 1..Len(sent) PROVE sent[i].by # o
  <2> SUFFICES ASSUME sent[i].by = o PROVE FALSE
    OBVIOUS
  <2>1. sent[i].ms = inflight[o]
    BY DEF Matched
  <2>2. sent[i] \in Burst
    BY <1>1
  <2> QED
    BY <1>4, <2>1, <2>2, BurstIs
<1>19. Matched'
  <2>1. ASSUME NEW i \in 1..Len(sent'), sent'[i].by \in Operators
        PROVE  sent'[i].ms = inflight'[sent'[i].by]
    <3>1. CASE i = Len(sent')
      BY <1>9, <1>11, <1>12, <3>1
    <3>2. CASE i \in 1..Len(sent)
      <4>1. sent'[i] = sent[i]
        BY <1>11, <3>2
      <4>2. sent[i].ms = inflight[sent[i].by] /\ sent[i].by # o
        BY <1>18, <2>1, <3>2, <4>1 DEF Matched
      <4> QED
        BY <1>9, <2>1, <4>1, <4>2
    <3> QED
      BY <1>15, <3>1, <3>2
  <2>2. ASSUME NEW i \in 1..Len(sent'), NEW j \in 1..Len(sent'), i < j, sent'[i].by \in Operators
        PROVE  sent'[j].by # sent'[i].by
    <3>1. i \in 1..Len(sent)
      BY <1>1, <1>11, <2>2
    <3>2. sent'[i] = sent[i]
      BY <1>11, <3>1
    <3>3. CASE j = Len(sent')
      BY <1>11, <1>12, <1>18, <3>1, <3>2, <3>3
    <3>4. CASE j \in 1..Len(sent)
      BY <1>11, <2>2, <3>1, <3>2, <3>4 DEF Matched
    <3> QED
      BY <1>15, <3>3, <3>4
  <2> QED
    BY <2>1, <2>2 DEF Matched
<1> QED
  BY <1>10, <1>11, <1>13, <1>16, <1>17, <1>19

LEMMA ManualAckInv ==
  ASSUME Inv, NEW o \in Operators, ManualAck(o)
  PROVE  Inv'
<1> USE DEF Inv
<1>1. /\ cfg.window \in Nat /\ Len(history) <= MaxLen
      /\ history \in Seq(Entry(cfg.window)) /\ sent \in Seq(Burst)
      /\ \A i \in 1..Len(sent) : sent[i] \in Burst
  BY State
<1>2. /\ inflight[o] > 0 /\ Record(history, inflight[o]) /\ cfg' = cfg /\ armed' = armed
      /\ inflight' = [inflight EXCEPT ![o] = 0] /\ sent' = Settled(o, Nobody)
  BY DEF ManualAck
<1>3. /\ inflight' \in [Operators -> Nat] /\ inflight[o] \in Nat \ {0}
      /\ \A p \in Operators : p # o => inflight'[p] = inflight[p]
  BY <1>2 DEF TypeOK
<1> DEFINE ms == inflight[o]
<1>4. ms \in Nat \ {0} /\ Record(history, ms)
  BY <1>2, <1>3
<1> HIDE DEF ms
<1>5. /\ history' \in Seq(Entry(cfg.window)) /\ Len(history') <= MaxLen
      /\ history' # <<>> /\ history'[Len(history')].age = 0
      /\ gap' \in 0..cfg.window + 1
      /\ \A t \in 0..cfg.window :
           t < gap' => t < gap /\ Amount(history', Kept(t)) = Amount(history, Kept(t)) + ms
  BY <1>1, <1>4, RecordKeeps
<1>6. Relabels(o, Nobody)
  BY <1>1, <1>2, SettledRelabels
<1>7. Nobody \notin Operators /\ o # Nobody
  BY Labels
<1>8. /\ \A i \in 1..Len(sent') : sent'[i].age <= Horizon
      /\ Sorted' /\ Clamped' /\ Matched' /\ Owing' /\ Spaced'
  BY <1>2, <1>3, <1>6, <1>7, RelabelKeeps
<1>9. /\ sent' \in Seq(Burst) /\ Len(sent') = Len(sent)
      /\ \A i \in 1..Len(sent) :
           /\ sent'[i].age = sent[i].age /\ sent'[i].ms = sent[i].ms
           /\ sent'[i].by = IF sent[i].by = o THEN Nobody ELSE sent[i].by
  BY <1>6, Zenon DEF Relabels
<1>10. TypeOK'
  <2>1. armed' \in BOOLEAN
    BY <1>2 DEF TypeOK
  <2> QED
    BY <1>2, <1>3, <1>5, <1>8, <1>9, <2>1, TypedNext
<1>11. Fresh'
  BY <1>5, <1>9, JustRecorded
<1>12. ASSUME NEW t PROVE Amount(sent', Spent(t)) <= Amount(sent, Spent(t)) + ms
  <2>1. ASSUME NEW i \in 1..Len(sent), sent[i].by # o
        PROVE  (sent[i] \in Spent(t) <=> sent'[i] \in Spent(t)) /\ sent[i].ms = sent'[i].ms
    <3>1. sent[i] \in Burst /\ sent'[i] \in Burst
      BY <1>1, <1>9
    <3>2. /\ sent[i] \in Spent(t) <=> sent[i].by = Nobody /\ sent[i].age <= t
          /\ sent'[i] \in Spent(t) <=> sent'[i].by = Nobody /\ sent'[i].age <= t
      BY <3>1, SpentIs
    <3>3. sent'[i].age = sent[i].age /\ sent'[i].ms = sent[i].ms /\ sent'[i].by = sent[i].by
      BY <1>9, <2>1
    <3> QED
      BY <3>2, <3>3
  <2>2. CASE \E j \in 1..Len(sent) : sent[j].by = o
    <3>1. PICK j \in 1..Len(sent) : sent[j].by = o
      BY <2>2
    <3>2. ASSUME NEW i \in 1..Len(sent), i # j PROVE sent[i].by # o
      <4>1. i < j \/ j < i
        BY <1>1, <3>2
      <4> QED
        BY <3>1, <4>1 DEF Matched
    <3>3. sent[j] \notin Spent(t) /\ sent[j].ms = ms
      <4>1. sent[j] \in Burst
        BY <1>1
      <4>2. sent[j].ms = inflight[o]
        BY <3>1 DEF Matched
      <4> QED
        BY <1>7, <3>1, <4>1, <4>2, SpentIs DEF ms
    <3>4. \A i \in 1..Len(sent) : i # j => (sent[i] \in Spent(t) <=> sent'[i] \in Spent(t)) /\ sent[i].ms = sent'[i].ms
      BY <2>1, <3>2
    <3>5. Amount(sent', Spent(t)) <= Amount(sent, Spent(t)) + sent'[j].ms
      BY <1>1, <1>9, <3>3, <3>4, BurstTimed, AmountSettled
    <3>6. sent'[j].ms = ms
      BY <1>9, <3>3
    <3> QED
      BY <3>5, <3>6
  <2>3. CASE ~\E j \in 1..Len(sent) : sent[j].by = o
    <3>1. \A i \in 1..Len(sent) : (sent[i] \in Spent(t) <=> sent'[i] \in Spent(t)) /\ sent[i].ms = sent'[i].ms
      BY <2>1, <2>3
    <3>2. Amount(sent, Spent(t)) = Amount(sent', Spent(t))
      BY <1>1, <1>9, <3>1, BurstTimed, AmountSame
    <3>3. Amount(sent, Spent(t)) \in Nat
      BY <1>1, BurstTimed, AmountIsNat
    <3> QED
      BY <1>4, <3>2, <3>3
  <2> QED
    BY <2>2, <2>3
<1>13. Covered'
  <2>1. ASSUME NEW t \in 0..cfg.window, t < gap'
        PROVE  Amount(sent', Spent(t)) <= Amount(history', Kept(t))
    <3>1. Amount(sent', Spent(t)) <= Amount(sent, Spent(t)) + ms
      BY <1>12
    <3>2. Amount(history', Kept(t)) = Amount(history, Kept(t)) + ms /\ t < gap
      BY <1>5, <2>1
    <3>3. Amount(sent, Spent(t)) <= Amount(history, Kept(t))
      BY <3>2 DEF Covered
    <3>4. /\ Amount(sent, Spent(t)) \in Nat /\ Amount(history, Kept(t)) \in Nat
          /\ Amount(sent', Spent(t)) \in Nat
      BY <1>1, <1>9, BurstTimed, EntryTimed, AmountIsNat
    <3> QED
      BY <1>4, <3>1, <3>2, <3>3, <3>4
  <2> QED
    BY <1>2, <2>1 DEF Covered
<1> QED
  BY <1>8, <1>10, <1>11, <1>13

LEMMA ManualRefusedInv ==
  ASSUME Inv, NEW o \in Operators, ManualRefused(o)
  PROVE  Inv'
<1> USE DEF Inv
<1>1. /\ cfg.window \in Nat /\ Len(history) <= MaxLen /\ gap \in 0..cfg.window + 1
      /\ history \in Seq(Entry(cfg.window)) /\ sent \in Seq(Burst)
      /\ \A i \in 1..Len(sent) : sent[i] \in Burst /\ sent[i].age <= Horizon
  BY State
<1>2. /\ cfg' = cfg /\ armed' = armed /\ history' = history /\ gap' = gap
      /\ inflight' = [inflight EXCEPT ![o] = 0]
  BY DEF ManualRefused
<1>3. /\ inflight' \in [Operators -> Nat]
      /\ \A p \in Operators : p # o => inflight'[p] = inflight[p]
  BY <1>2 DEF TypeOK
<1>4. armed' \in BOOLEAN
  BY <1>2 DEF TypeOK
<1>5. CASE \E j \in DOMAIN sent : sent[j].by = o /\ sent' = Without(sent, j)
  <2>1. PICK j \in 1..Len(sent) : sent[j].by = o /\ sent' = Without(sent, j)
    BY <1>1, <1>5
  <2>2. /\ sent' \in Seq(Burst) /\ Len(sent') = Len(sent) - 1
        /\ \A i \in 1..Len(sent') : sent'[i] = IF i < j THEN sent[i] ELSE sent[i + 1]
        /\ \A i \in 1..Len(sent') : sent'[i].age <= Horizon
        /\ \A t : Amount(sent', Spent(t)) = Amount(sent, Spent(t))
        /\ Sorted' /\ Clamped' /\ Matched' /\ Owing' /\ Spaced'
    BY <1>2, <1>3, <2>1, WithoutKeeps
  <2>3. TypeOK'
    BY <1>1, <1>2, <1>3, <1>4, <2>2, TypedNext
  <2>4. Fresh'
    <3>1. ASSUME NEW i \in 1..Len(sent'), sent'[i].by = Nobody, sent'[i].age <= cfg.window
          PROVE  history # <<>> /\ history[Len(history)].age <= sent'[i].age
      <4>1. \E k \in 1..Len(sent) : sent'[i] = sent[k]
        <5>1. i \in 1..Len(sent) /\ i + 1 \in 1..Len(sent)
          BY <1>1, <2>2
        <5> QED
          BY <2>2, <5>1
      <4>2. PICK k \in 1..Len(sent) : sent'[i] = sent[k]
        BY <4>1
      <4> QED
        BY <3>1, <4>2 DEF Fresh
    <3> QED
      BY <1>2, <3>1 DEF Fresh
  <2>5. Covered'
    BY <1>2, <2>2 DEF Covered
  <2> QED
    BY <2>2, <2>3, <2>4, <2>5
<1>6. CASE (\A j \in DOMAIN sent : sent[j].by # o) /\ sent' = sent
  <2>1. \A i \in 1..Len(sent) : sent[i].by # o
    BY <1>1, <1>6
  <2>2. TypeOK'
    BY <1>1, <1>2, <1>3, <1>4, <1>6, TypedNext
  <2>3. Matched'
    <3>1. ASSUME NEW i \in 1..Len(sent), sent[i].by \in Operators
          PROVE  sent[i].ms = inflight'[sent[i].by]
      BY <1>3, <2>1, <3>1 DEF Matched
    <3> QED
      BY <1>6, <3>1 DEF Matched
  <2>4. Sorted' /\ Clamped' /\ Covered' /\ Fresh' /\ Owing' /\ Spaced'
    BY <1>2, <1>6 DEF Sorted, Clamped, Covered, Fresh, Owing, Spaced
  <2> QED
    BY <2>2, <2>3, <2>4
<1> QED
  BY <1>5, <1>6 DEF ManualRefused

LEMMA ManualTimeoutInv ==
  ASSUME Inv, NEW o \in Operators, ManualTimeout(o)
  PROVE  Inv'
<1> USE DEF Inv
<1>1. /\ cfg.window \in Nat /\ Len(history) <= MaxLen /\ gap \in 0..cfg.window + 1
      /\ history \in Seq(Entry(cfg.window)) /\ sent \in Seq(Burst)
      /\ \A i \in 1..Len(sent) : sent[i] \in Burst
  BY State
<1>2. /\ cfg' = cfg /\ armed' = armed /\ history' = history /\ gap' = gap
      /\ inflight' = [inflight EXCEPT ![o] = 0] /\ sent' = Settled(o, Lost)
  BY DEF ManualTimeout
<1>3. /\ inflight' \in [Operators -> Nat]
      /\ \A p \in Operators : p # o => inflight'[p] = inflight[p]
  BY <1>2 DEF TypeOK
<1>4. Relabels(o, Lost)
  BY <1>1, <1>2, SettledRelabels
<1>5. Lost \notin Operators /\ o # Nobody /\ Lost # Nobody
  BY Labels
<1>6. /\ \A i \in 1..Len(sent') : sent'[i].age <= Horizon
      /\ Sorted' /\ Clamped' /\ Matched' /\ Owing' /\ Spaced'
  BY <1>2, <1>3, <1>4, <1>5, RelabelKeeps
<1>7. /\ sent' \in Seq(Burst) /\ Len(sent') = Len(sent)
      /\ \A i \in 1..Len(sent) :
           /\ sent'[i].age = sent[i].age /\ sent'[i].ms = sent[i].ms
           /\ sent'[i].by = IF sent[i].by = o THEN Lost ELSE sent[i].by
  BY <1>4, Zenon DEF Relabels
<1>8. TypeOK'
  <2>1. armed' \in BOOLEAN
    BY <1>2 DEF TypeOK
  <2> QED
    BY <1>1, <1>2, <1>3, <1>6, <1>7, <2>1, TypedNext
<1>9. \A i \in 1..Len(sent) : sent'[i].by = Nobody <=> sent[i].by = Nobody
  BY <1>5, <1>7
<1>10. Fresh'
  <2>1. ASSUME NEW i \in 1..Len(sent'), sent'[i].by = Nobody, sent'[i].age <= cfg.window
        PROVE  history # <<>> /\ history[Len(history)].age <= sent'[i].age
    BY <1>7, <1>9, <2>1 DEF Fresh
  <2> QED
    BY <1>2, <2>1 DEF Fresh
<1>11. ASSUME NEW t PROVE Amount(sent', Spent(t)) = Amount(sent, Spent(t))
  <2>1. ASSUME NEW i \in 1..Len(sent')
        PROVE  (sent'[i] \in Spent(t) <=> sent[i] \in Spent(t)) /\ sent'[i].ms = sent[i].ms
    <3>1. i \in 1..Len(sent) /\ sent'[i] \in Burst
      BY <1>7
    <3>2. sent[i] \in Burst
      BY <1>1, <3>1
    <3>3. /\ sent[i] \in Spent(t) <=> sent[i].by = Nobody /\ sent[i].age <= t
          /\ sent'[i] \in Spent(t) <=> sent'[i].by = Nobody /\ sent'[i].age <= t
      BY <3>1, <3>2, SpentIs
    <3>4. sent'[i].age = sent[i].age /\ sent'[i].ms = sent[i].ms
      BY <1>7, <3>1
    <3> QED
      BY <1>9, <3>1, <3>3, <3>4
  <2> QED
    BY <1>1, <1>7, <2>1, BurstTimed, AmountSame
<1>12. Covered'
  BY <1>2, <1>11 DEF Covered
<1> QED
  BY <1>6, <1>8, <1>10, <1>12

LEMMA SameInv ==
  ASSUME Inv, cfg' = cfg, history' = history, inflight' = inflight, sent' = sent, gap' = gap,
         armed' \in BOOLEAN
  PROVE  Inv'
<1>1. TypeOK'
  BY DEF Inv, TypeOK, Horizon
<1>2. Sorted' /\ Matched' /\ Clamped' /\ Covered' /\ Fresh' /\ Owing' /\ Spaced'
  BY DEF Inv, Sorted, Matched, Clamped, Covered, Fresh, Owing, Spaced
<1> QED
  BY <1>1, <1>2 DEF Inv

LEMMA TickInv ==
  ASSUME Inv, Tick
  PROVE  Inv'
<1> USE DEF Inv
<1>1. /\ cfg.window \in Nat /\ Len(history) <= MaxLen /\ gap \in 0..cfg.window + 1
      /\ history \in Seq(Entry(cfg.window)) /\ sent \in Seq(Burst) /\ Horizon \in Nat
  BY State
<1>2. /\ cfg' = cfg /\ armed' = armed /\ inflight' = inflight /\ history' = Aged(history, cfg, 1)
      /\ gap' = IF gap > cfg.window THEN gap ELSE gap + 1
  BY DEF Tick
<1> DEFINE m == [i \in DOMAIN sent |-> [sent[i] EXCEPT !.age = @ + 1]]
<1>3. sent' = Since(m, Horizon)
  BY DEF Tick
<1>4. Older(m)
  BY <1>1, OlderIs
<1> HIDE DEF m
<1>5. m \in Seq(Burst) /\ \A b \in Burst : b.age \in Nat
  BY <1>4, BurstIs DEF Older
<1>6. sent' \in Seq(Burst) /\ \E d \in Nat : Drops(m, sent', d, Horizon)
  BY <1>1, <1>3, <1>5, SinceDrops
<1>7. PICK d \in Nat : Drops(m, sent', d, Horizon)
  BY <1>6
<1>8. /\ \A i \in 1..Len(sent') :
           /\ i + d \in 1..Len(sent)
           /\ sent'[i].age = sent[i + d].age + 1 /\ sent'[i].by = sent[i + d].by
           /\ sent'[i].age <= Horizon
      /\ \A t \in 1..cfg.window : Amount(sent', Spent(t)) = Amount(sent, Spent(t - 1))
      /\ Amount(sent', Spent(0)) = 0
      /\ Sorted' /\ Clamped' /\ Matched' /\ Owing' /\ Spaced'
  BY <1>2, <1>4, <1>6, <1>7, TickKeeps
<1>9. /\ history' \in Seq(Entry(cfg.window)) /\ Len(history') = Len(history)
      /\ \A i \in 1..Len(history) :
           history'[i].age = IF history[i].age + 1 > cfg.window THEN cfg.window + 1
                             ELSE history[i].age + 1
      /\ \A t \in 1..cfg.window : Amount(history', Kept(t)) = Amount(history, Kept(t - 1))
  BY <1>1, <1>2, AgedKeeps
<1>10. gap' \in 0..cfg.window + 1
  BY <1>1, <1>2
<1>11. TypeOK'
  <2>1. armed' \in BOOLEAN /\ inflight' \in [Operators -> Nat] /\ Len(history') <= MaxLen
    BY <1>1, <1>2, <1>9 DEF TypeOK
  <2> QED
    BY <1>2, <1>6, <1>8, <1>9, <1>10, <2>1, TypedNext
<1>12. Fresh'
  <2>1. ASSUME NEW i \in 1..Len(sent'), sent'[i].by = Nobody, sent'[i].age <= cfg.window
        PROVE  history' # <<>> /\ history'[Len(history')].age <= sent'[i].age
    <3>1. PICK k \in 1..Len(sent) : sent'[i].age = sent[k].age + 1 /\ sent'[i].by = sent[k].by
      BY <1>8
    <3>2. sent[k] \in Burst
      BY <1>1
    <3>3. PICK a \in Nat : a = sent[k].age
      BY <3>2, BurstIs
    <3>4. sent'[i].age = a + 1 /\ a <= cfg.window
      BY <1>1, <2>1, <3>1, <3>3
    <3>5. history # <<>> /\ history[Len(history)].age <= a
      BY <2>1, <3>1, <3>3, <3>4 DEF Fresh
    <3>6. Len(history) \in 1..Len(history) /\ history[Len(history)] \in Entry(cfg.window)
      BY <1>1, <3>5
    <3>7. PICK l \in Nat : l = history[Len(history)].age
      BY <1>1, <3>6, EntryIs
    <3>8. history'[Len(history')].age = IF l + 1 > cfg.window THEN cfg.window + 1 ELSE l + 1
      BY <1>9, <3>6, <3>7
    <3>9. l <= a /\ a + 1 <= cfg.window
      BY <2>1, <3>4, <3>5, <3>7
    <3>10. l + 1 <= a + 1 /\ ~(l + 1 > cfg.window)
      BY <1>1, <3>9
    <3>11. history' # <<>>
      <4>1. Len(history') # 0
        BY <1>9, <3>6
      <4> QED
        BY <4>1
    <3> QED
      BY <3>4, <3>8, <3>10, <3>11
  <2> QED
    BY <1>2, <2>1 DEF Fresh
<1>13. Covered'
  <2>1. ASSUME NEW t \in 0..cfg.window, t < gap'
        PROVE  Amount(sent', Spent(t)) <= Amount(history', Kept(t))
    <3>1. CASE t = 0
      <4>1. Amount(history', Kept(t)) \in Nat
        BY <1>1, <1>9, EntryTimed, AmountIsNat
      <4> QED
        BY <1>8, <3>1, <4>1
    <3>2. CASE t # 0
      <4>1. t \in 1..cfg.window /\ t - 1 \in 0..cfg.window /\ t - 1 < gap
        BY <1>1, <1>2, <2>1, <3>2
      <4>2. Amount(sent, Spent(t - 1)) <= Amount(history, Kept(t - 1))
        BY <4>1 DEF Covered
      <4> QED
        BY <1>8, <1>9, <4>1, <4>2
    <3> QED
      BY <3>1, <3>2
  <2> QED
    BY <1>2, <2>1 DEF Covered
<1> QED
  BY <1>8, <1>11, <1>12, <1>13

LEMMA NextInv ==
  ASSUME Inv, [Next]_vars
  PROVE  Inv'
<1>1. CASE AutoSpray
  BY <1>1, AutoSprayInv
<1>2. CASE \E o \in Operators : ManualCheck(o) \/ ManualAck(o) \/ ManualRefused(o) \/ ManualTimeout(o)
  BY <1>2, ManualCheckInv, ManualAckInv, ManualRefusedInv, ManualTimeoutInv
<1>3. CASE SetArmed
  BY <1>3, SameInv DEF SetArmed, Inv, TypeOK
<1>4. CASE Tick
  BY <1>4, TickInv
<1>5. CASE UNCHANGED vars
  BY <1>5, SameInv DEF vars, Inv, TypeOK
<1> QED
  BY <1>1, <1>2, <1>3, <1>4, <1>5 DEF Next

----------------------------------------------------------------------------
(* What the invariant says of the bursts.                                  *)

\* A sum over a set of bursts is the open time of those of the window.
LEMMA SumIs ==
  ASSUME TypeOK, NEW B, NEW S,
         \A i \in 1..Len(sent) : sent[i] \in B /\ sent[i].age <= cfg.window <=> sent[i] \in S
  PROVE  Sum(B) = Amount(sent, S)
<1>1. [i \in 1..Len(sent) |-> IF sent[i] \in B /\ sent[i].age <= cfg.window THEN sent[i].ms ELSE 0]
      = Weights(sent, S)
  BY DEF Weights
<1> QED
  BY <1>1 DEF Sum, Amount

LEMMA InvBounds ==
  ASSUME Inv
  PROVE  OvershootBounded
<1> USE DEF Inv
<1>1. sent \in Seq(Burst)
  BY State
<1> DEFINE B == {b \in Bursts : b.by # Lost /\ ~b.over /\ ~b.blind}
<1>2. ASSUME NEW i \in 1..Len(sent)
      PROVE  sent[i] \in B /\ sent[i].age <= cfg.window <=> sent[i] \in Owed(cfg.window)
  <2>1. sent[i] \in Burst /\ sent[i] \in Bursts
    BY <1>1 DEF Bursts
  <2> QED
    BY <2>1, OwedIs
<1> HIDE DEF B
<1>3. Sum(B) = Amount(sent, Owed(cfg.window))
  BY <1>2, SumIs
<1> QED
  BY <1>3 DEF OvershootBounded, Owing, B

LEMMA InvSpaced ==
  ASSUME Inv
  PROVE  IntervalHolds
<1>1. sent \in Seq(Burst)
  BY State DEF Inv
<1>2. DOMAIN sent = 1..Len(sent)
  BY <1>1
<1> QED
  BY <1>2 DEF Inv, Spaced, IntervalHolds

LEMMA InvAccounts ==
  ASSUME Inv
  PROVE  Accounted
<1> USE DEF Inv
<1>1. /\ sent \in Seq(Burst) /\ cfg.window \in Nat /\ history \in Seq(Entry(cfg.window))
      /\ gap \in 0..cfg.window + 1
  BY State
<1>2. DOMAIN sent = 1..Len(sent)
  BY <1>1
<1>3. ASSUME gap > cfg.window PROVE Sum(Acknowledged) <= UsedMs(Pruned)
  <2> DEFINE w == cfg.window
  <2>1. ASSUME NEW i \in 1..Len(sent)
        PROVE  sent[i] \in Acknowledged /\ sent[i].age <= w <=> sent[i] \in Spent(w)
    <3>1. sent[i] \in Burst /\ sent[i] \in Bursts
      BY <1>1, <1>2 DEF Bursts
    <3> QED
      BY <3>1, SpentIs DEF Acknowledged
  <2>2. Sum(Acknowledged) = Amount(sent, Spent(w))
    BY <2>1, SumIs
  <2>3. Amount(sent, Spent(w)) <= Amount(history, Kept(w))
    <3>1. w \in 0..w /\ w < gap
      BY <1>1, <1>3
    <3> QED
      BY <3>1 DEF Covered
  <2>4. Pruned \in Seq(Entry(w)) /\ Amount(Pruned, Kept(w)) = Amount(history, Kept(w))
    BY <1>1, PruneKeeps DEF Pruned
  <2>5. Amount(Pruned, Kept(w)) <= UsedMs(Pruned) /\ UsedMs(Pruned) \in Nat
    BY <1>1, <2>4, AmountUsed
  <2>6. Amount(sent, Spent(w)) \in Nat /\ Amount(Pruned, Kept(w)) \in Nat
    BY <1>1, <2>4, BurstTimed, EntryTimed, AmountIsNat
  <2> HIDE DEF w
  <2> QED
    BY <2>2, <2>3, <2>4, <2>5, <2>6
<1>4. NothingForgotten
  BY <1>2, <1>3 DEF NothingForgotten, Matched, Bursts
<1>5. ClampHolds
  BY <1>2 DEF ClampHolds, Clamped, Bursts
<1> QED
  BY <1>4, <1>5 DEF Accounted

LEMMA Always == Spec => []Inv
BY InitInv, NextInv, PTL DEF Spec

\* Whatever the settings, the operators and the order in which requests are
\* checked, acknowledged, refused and lost: the budget of the window holds but
\* for what was granted over a waiting request or behind a gap of the deque,
\* and for what was never acknowledged (SprayGuard.check, record).
THEOREM BudgetKept == Spec => []OvershootBounded
BY Always, InvBounds, PTL

\* Nor are two bursts closer than the interval, but for the same overlaps and
\* losses (SprayGuard.check, min_interval_s).
THEOREM IntervalKept == Spec => []IntervalHolds
BY Always, InvSpaced, PTL

\* Every acknowledged burst is in the history for as long as it counts, and
\* every burst is within its clamp; the variables have their types.
THEOREM NothingLost == Spec => []Accounted
BY Always, InvAccounts, PTL
=============================================================================
