----------------------------- MODULE Inductions -----------------------------
(* What is proved by taking the least counterexample: about numbers, about *)
(* the recursion of Filter, and about the order of what it keeps.          *)
EXTENDS Filtering, TLAPS, WellFoundedInduction

(* The pairs of a natural number and a smaller one. *)
Smaller == { p \in Nat \X Nat : p[1] < p[2] }

(* A set of natural numbers that is not empty has a least element. *)
LEMMA LeastNumber ==
  ASSUME NEW S \in SUBSET Nat, S # {}
  PROVE  \E least \in S : \A n \in S : least <= n
<1>1. IsWellFoundedOn(Smaller, Nat)
  BY NatLessThanWellFounded DEF OpToRel, Smaller
<1>2. PICK least \in S : \A n \in S : <<n, least>> \notin Smaller
  BY <1>1, WFMin, Zenon
<1>3. \A n \in S : ~(n < least)
  BY <1>2 DEF Smaller
<1>4. QED BY <1>3

-----------------------------------------------------------------------------
(* Filters. *)

(* The recursion of a filter, up to the n-th item. *)
IsRun(s, keep, kept, n) ==
  kept = [i \in 0..n |->
            IF i = 0 THEN <<>>
            ELSE IF s[i] \in keep THEN Append(kept[i - 1], s[i]) ELSE kept[i - 1]]

(* It has a solution.                                                      *)
LEMMA RunExists ==
  ASSUME NEW s, NEW keep, NEW n \in Nat
  PROVE  \E kept : IsRun(s, keep, kept, n)
<1> DEFINE Lacking == { m \in Nat : ~\E kept : IsRun(s, keep, kept, m) }
<1>1. SUFFICES ASSUME Lacking # {} PROVE FALSE
  OBVIOUS
<1>2. PICK m \in Lacking : \A k \in Lacking : m <= k
  BY <1>1, LeastNumber
<1>3. CASE m = 0
  <2> DEFINE g == [i \in 0..0 |-> <<>>]
  <2>1. IsRun(s, keep, g, m)
    BY <1>3 DEF IsRun
  <2>2. QED BY <2>1
<1>4. CASE m # 0
  <2>1. m - 1 \in Nat /\ m - 1 \notin Lacking
    BY <1>2, <1>4
  <2>2. PICK kept : IsRun(s, keep, kept, m - 1)
    BY <2>1
  <2> DEFINE last == IF s[m] \in keep THEN Append(kept[m - 1], s[m]) ELSE kept[m - 1]
             g == [i \in 0..m |-> IF i = m THEN last ELSE kept[i]]
  <2>3. \A i \in 0..(m - 1) : kept[i] = IF i = 0 THEN <<>>
            ELSE IF s[i] \in keep THEN Append(kept[i - 1], s[i]) ELSE kept[i - 1]
    BY <2>2, <2>1 DEF IsRun
  <2>4. ASSUME NEW i \in 0..m
        PROVE  g[i] = IF i = 0 THEN <<>>
            ELSE IF s[i] \in keep THEN Append(g[i - 1], s[i]) ELSE g[i - 1]
    <3>1. CASE i = m
      BY <3>1, <1>4
    <3>2. CASE i # m
      BY <3>2, <2>3
    <3>3. QED BY <3>1, <3>2
  <2>5. IsRun(s, keep, g, m)
    BY <2>4 DEF IsRun
  <2>6. QED BY <2>5
<1>5. QED BY <1>3, <1>4

(* The sequence f is what is to be kept of the first m items of s, and h   *)
(* says where each item comes from.                                        *)
KeptFrom(X, s, keep, f, h, m) ==
  /\ f \in Seq(X)
  /\ h \in [1..Len(f) -> 1..m]
  /\ \A i \in 1..Len(f) : f[i] = s[h[i]]
  /\ \A i, j \in 1..Len(f) : i < j => h[i] < h[j]
  /\ \A k \in 1..m : s[k] \in keep <=> \E i \in 1..Len(f) : h[i] = k

(* Before the first item nothing is kept.                                  *)
LEMMA NothingKept ==
  ASSUME NEW X, NEW s, NEW keep
  PROVE  KeptFrom(X, s, keep, <<>>, <<>>, 0)
<1>1. <<>> \in Seq(X) /\ Len(<<>>) = 0 /\ 1..0 = {}
  OBVIOUS
<1>2. <<>> \in [1..0 -> 1..0]
  OBVIOUS
<1>3. QED BY <1>1, <1>2 DEF KeptFrom

(* An item that is not to be kept is passed over.                          *)
LEMMA SkipItem ==
  ASSUME NEW X, NEW s, NEW keep, NEW f, NEW h, NEW m \in Nat, m # 0,
         KeptFrom(X, s, keep, f, h, m - 1), s[m] \notin keep
  PROVE  KeptFrom(X, s, keep, f, h, m)
<1>1. f \in Seq(X) /\ h \in [1..Len(f) -> 1..(m - 1)] /\ Len(f) \in Nat
  BY DEF KeptFrom
<1>2. h \in [1..Len(f) -> 1..m]
  BY <1>1
<1>3. ASSUME NEW k \in 1..m PROVE s[k] \in keep <=> \E i \in 1..Len(f) : h[i] = k
  <2>1. CASE k = m
    <3>1. \A i \in 1..Len(f) : h[i] # m
      BY <1>1
    <3>2. QED BY <2>1, <3>1
  <2>2. CASE k # m
    <3>1. k \in 1..(m - 1)
      BY <2>2
    <3>2. QED BY <3>1 DEF KeptFrom
  <2>3. QED BY <2>1, <2>2
<1>4. QED BY <1>1, <1>2, <1>3 DEF KeptFrom

(* One that is to be kept is appended.                                     *)
LEMMA KeepItem ==
  ASSUME NEW X, NEW s, NEW keep, NEW f, NEW h, NEW m \in Nat, m # 0, s[m] \in X,
         KeptFrom(X, s, keep, f, h, m - 1), s[m] \in keep
  PROVE  \E g : KeptFrom(X, s, keep, Append(f, s[m]), g, m)
<1> DEFINE a == Append(f, s[m])
           g == [i \in 1..Len(a) |-> IF i = Len(a) THEN m ELSE h[i]]
<1>1. f \in Seq(X) /\ h \in [1..Len(f) -> 1..(m - 1)] /\ Len(f) \in Nat
  BY DEF KeptFrom
<1>2. /\ a \in Seq(X) /\ Len(a) = Len(f) + 1
      /\ a[Len(a)] = s[m] /\ \A i \in 1..Len(f) : a[i] = f[i]
  BY <1>1
<1> HIDE DEF a
<1>3. \A i \in 1..Len(a) : i = Len(a) \/ i \in 1..Len(f)
  BY <1>1, <1>2
<1>4. /\ Len(a) \in 1..Len(a) /\ g[Len(a)] = m
      /\ \A i \in 1..Len(f) : i \in 1..Len(a) /\ g[i] = h[i] /\ h[i] \in 1..(m - 1)
  BY <1>1, <1>2
<1>5. g \in [1..Len(a) -> 1..m]
  BY <1>1, <1>2, <1>3, <1>4
<1> HIDE DEF g
<1>6. \A i \in 1..Len(a) : a[i] = s[g[i]]
  BY <1>2, <1>3, <1>4 DEF KeptFrom
<1>7. ASSUME NEW i \in 1..Len(a), NEW j \in 1..Len(a), i < j PROVE g[i] < g[j]
  <2>1. i \in 1..Len(f)
    BY <1>1, <1>2, <1>7
  <2>2. CASE j = Len(a)
    BY <1>4, <2>1, <2>2
  <2>3. CASE j \in 1..Len(f)
    BY <1>4, <1>7, <2>1, <2>3 DEF KeptFrom
  <2>4. QED BY <1>3, <2>2, <2>3
<1>8. ASSUME NEW k \in 1..m PROVE s[k] \in keep <=> \E i \in 1..Len(a) : g[i] = k
  <2>1. CASE k = m
    BY <1>4, <2>1
  <2>2. CASE k # m
    <3>1. k \in 1..(m - 1)
      BY <2>2
    <3>2. s[k] \in keep <=> \E i \in 1..Len(f) : h[i] = k
      BY <3>1 DEF KeptFrom
    <3>3. QED BY <1>3, <1>4, <2>2, <3>2
  <2>3. QED BY <2>1, <2>2
<1>9. KeptFrom(X, s, keep, a, g, m)
  BY <1>2, <1>5, <1>6, <1>7, <1>8 DEF KeptFrom
<1>10. QED BY <1>9 DEF a

(* So the recursion keeps what it should.                                  *)
LEMMA RunKeeps ==
  ASSUME NEW X, NEW s, NEW keep, NEW n \in Nat, NEW kept, IsRun(s, keep, kept, n),
         \A k \in 1..n : s[k] \in X
  PROVE  \E h : KeptFrom(X, s, keep, kept[n], h, n)
<1> DEFINE Lacking == { m \in 0..n : ~\E h : KeptFrom(X, s, keep, kept[m], h, m) }
<1>0. n \in 0..n /\ Lacking \in SUBSET Nat
  OBVIOUS
<1>1. SUFFICES ASSUME Lacking # {} PROVE FALSE
  BY <1>0, Zenon
<1>2. PICK m \in Lacking : \A k \in Lacking : m <= k
  <2> HIDE DEF Lacking
  <2>1. QED BY <1>0, <1>1, LeastNumber
<1>3. \A i \in 0..n : kept[i] = IF i = 0 THEN <<>>
            ELSE IF s[i] \in keep THEN Append(kept[i - 1], s[i]) ELSE kept[i - 1]
  BY DEF IsRun
<1>4. m \in 0..n /\ ~\E h : KeptFrom(X, s, keep, kept[m], h, m)
  BY <1>2
<1>5. CASE m = 0
  <2>1. kept[m] = <<>>
    BY <1>3, <1>4, <1>5
  <2>2. QED BY <2>1, <1>4, <1>5, NothingKept
<1>6. CASE m # 0
  <2>1. m - 1 \in 0..n /\ m - 1 \notin Lacking /\ m \in Nat /\ m \in 1..n
    BY <1>2, <1>4, <1>6
  <2>2. PICK h : KeptFrom(X, s, keep, kept[m - 1], h, m - 1)
    BY <2>1, Zenon
  <2>3. CASE s[m] \notin keep
    <3>1. kept[m] = kept[m - 1]
      BY <1>3, <1>4, <1>6, <2>3
    <3>2. QED BY <1>4, <1>6, <2>1, <2>2, <2>3, <3>1, SkipItem
  <2>4. CASE s[m] \in keep
    <3>1. kept[m] = Append(kept[m - 1], s[m])
      BY <1>3, <1>4, <1>6, <2>4
    <3>2. s[m] \in X
      BY <2>1
    <3>3. QED BY <1>4, <1>6, <2>1, <2>2, <2>4, <3>1, <3>2, KeepItem
  <2>5. QED BY <2>3, <2>4
<1>7. QED BY <1>5, <1>6

(* A filter keeps the order, and what it is to keep. *)
LEMMA FilterFacts ==
  ASSUME NEW X, NEW s \in Seq(X), NEW keep
  PROVE  \E h : KeptFrom(X, s, keep, Filter(s, keep), h, Len(s))
<1>0. Len(s) \in Nat
  OBVIOUS
<1>1. PICK kept : IsRun(s, keep, kept, Len(s))
  BY <1>0, RunExists
<1> DEFINE F == CHOOSE k : k = [i \in 0..Len(s) |->
            IF i = 0 THEN <<>>
            ELSE IF s[i] \in keep THEN Append(k[i - 1], s[i]) ELSE k[i - 1]]
<1>2. IsRun(s, keep, F, Len(s))
  BY <1>1, Zenon DEF IsRun
<1>3. Filter(s, keep) = F[Len(s)]
  BY DEF Filter
<1> HIDE DEF F
<1>4. Len(s) \in Nat /\ \A k \in 1..Len(s) : s[k] \in X
  OBVIOUS
<1>5. QED BY <1>2, <1>3, <1>4, RunKeeps

-----------------------------------------------------------------------------
(* The order of what two filters keep of two sequences whose items are     *)
(* paired one to one.                                                      *)
Firsts(pairs)  == { p[1] : p \in pairs }
Seconds(pairs) == { p[2] : p \in pairs }

(* One sequence has p before q, the other q before p. *)
Crossing(s, t, p, q) ==
  \E i, j \in 1..Len(s) : \E k, l \in 1..Len(t) :
    p = <<s[i], t[k]>> /\ q = <<s[j], t[l]>> /\ i < j /\ l < k

(* The partners of what is kept of s, in the order of s. *)
Partners(s, pairs, a) ==
  /\ a \in [1..Len(Filter(s, Firsts(pairs))) -> Seconds(pairs)]
  /\ \A i \in 1..Len(Filter(s, Firsts(pairs))) : <<Filter(s, Firsts(pairs))[i], a[i]>> \in pairs

Injective(s) == \A i, j \in 1..Len(s) : s[i] = s[j] => i = j

(* The partners come in the order of t unless two pairs cross.             *)
LEMMA SameOrder ==
  ASSUME NEW X, NEW Y, NEW s \in Seq(X), NEW t \in Seq(Y), Injective(s), Injective(t),
         NEW pairs,
         \A p \in pairs : \E i \in 1..Len(s), k \in 1..Len(t) : p = <<s[i], t[k]>>,
         \A p, q \in pairs : (p[1] = q[1] \/ p[2] = q[2]) => p = q,
         NEW a, Partners(s, pairs, a)
  PROVE  a # Filter(t, Seconds(pairs)) <=> \E p, q \in pairs : Crossing(s, t, p, q)
<1> DEFINE f == Filter(s, Firsts(pairs))
           b == Filter(t, Seconds(pairs))
           m == Len(f)
           n == Len(b)
<1>1. PICK h : KeptFrom(X, s, Firsts(pairs), f, h, Len(s))
  BY FilterFacts
<1>2. PICK g : KeptFrom(Y, t, Seconds(pairs), b, g, Len(t))
  BY FilterFacts
<1>3. /\ f \in Seq(X) /\ b \in Seq(Y) /\ m \in Nat /\ n \in Nat
      /\ Len(s) \in Nat /\ Len(t) \in Nat /\ DOMAIN b = 1..n
  BY <1>1, <1>2 DEF KeptFrom
<1>4. /\ DOMAIN a = 1..m
      /\ \A i \in 1..m : <<s[h[i]], a[i]>> \in pairs /\ h[i] \in 1..Len(s)
      /\ \A i, j \in 1..m : h[i] < h[j] <=> i < j
      /\ \A i, j \in 1..m : h[i] = h[j] => i = j
  <2>1. m \in Nat /\ h \in [1..m -> 1..Len(s)] /\ \A i, j \in 1..m : i < j => h[i] < h[j]
    BY <1>1, <1>3 DEF KeptFrom
  <2>2. \A i \in 1..m : f[i] = s[h[i]]
    BY <1>1 DEF KeptFrom
  <2>3. DOMAIN a = 1..m /\ \A i \in 1..m : <<f[i], a[i]>> \in pairs
    BY DEF Partners
  <2>4. \A i \in 1..m : h[i] \in Nat /\ h[i] \in 1..Len(s)
    BY <2>1
  <2> HIDE DEF f, m
  <2>5. \A i, j \in 1..m : i < j \/ j < i \/ i = j
    BY <1>3
  <2>6. \A i, j \in 1..m : i < j => ~(h[j] < h[i]) /\ h[i] # h[j]
    BY <2>1, <2>4
  <2>7. \A i, j \in 1..m : h[i] < h[j] => i < j
    BY <2>5, <2>6, <2>4
  <2>8. QED BY <2>1, <2>2, <2>3, <2>4, <2>5, <2>6, <2>7
<1>5. /\ \A l \in 1..n : g[l] \in 1..Len(t) /\ b[l] = t[g[l]] /\ b[l] \in Seconds(pairs)
      /\ \A i, j \in 1..n : i < j => g[i] < g[j]
      /\ \A i, j \in 1..n : b[i] = b[j] => i = j
  <2>1. /\ g \in [1..n -> 1..Len(t)] /\ \A i, j \in 1..n : i < j => g[i] < g[j]
        /\ \A l \in 1..n : b[l] = t[g[l]]
        /\ \A k \in 1..Len(t) : t[k] \in Seconds(pairs) <=> \E i \in 1..n : g[i] = k
    BY <1>2 DEF KeptFrom
  <2> HIDE DEF b, n
  <2>2. \A l \in 1..n : g[l] \in 1..Len(t) /\ b[l] \in Seconds(pairs)
    BY <2>1
  <2>3. ASSUME NEW i \in 1..n, NEW j \in 1..n, b[i] = b[j] PROVE i = j
    <3>1. g[i] = g[j]
      BY <2>1, <2>2, <2>3 DEF Injective
    <3>2. ~(i < j) /\ ~(j < i)
      BY <3>1, <2>1, <2>2
    <3>3. QED BY <3>2, <1>3
  <2>4. QED BY <2>1, <2>2, <2>3
<1>6. ASSUME NEW p \in pairs
      PROVE  /\ \E i \in 1..m : p = <<s[h[i]], a[i]>>
             /\ \E l \in 1..n : p[2] = b[l]
  <2>1. PICK i \in 1..Len(s), k \in 1..Len(t) : p = <<s[i], t[k]>>
    OBVIOUS
  <2>2. s[i] \in Firsts(pairs) /\ t[k] \in Seconds(pairs)
    BY <2>1 DEF Firsts, Seconds
  <2>3. PICK x \in 1..m : h[x] = i
    BY <1>1, <2>2 DEF KeptFrom
  <2>4. PICK y \in 1..n : g[y] = k
    BY <1>2, <2>2 DEF KeptFrom
  <2> HIDE DEF f, b, m, n
  <2>5. p[1] = <<s[h[x]], a[x]>>[1]
    BY <2>1, <2>3
  <2>6. p = <<s[h[x]], a[x]>>
    BY <1>4, <2>5
  <2>7. p[2] = b[y]
    BY <1>5, <2>1, <2>4
  <2>8. QED BY <2>6, <2>7
<1> HIDE DEF f, b, m, n
<1>7. ASSUME NEW p \in pairs, NEW q \in pairs, Crossing(s, t, p, q), a = b PROVE FALSE
  <2>1. PICK i \in 1..Len(s), j \in 1..Len(s) : \E k, l \in 1..Len(t) :
          p = <<s[i], t[k]>> /\ q = <<s[j], t[l]>> /\ i < j /\ l < k
    BY <1>7 DEF Crossing
  <2>2. PICK k \in 1..Len(t), l \in 1..Len(t) :
          p = <<s[i], t[k]>> /\ q = <<s[j], t[l]>> /\ i < j /\ l < k
    BY <2>1
  <2>3. PICK x \in 1..m : p = <<s[h[x]], a[x]>>
    BY <1>6
  <2>4. PICK y \in 1..m : q = <<s[h[y]], a[y]>>
    BY <1>6
  <2>5. h[x] = i /\ h[y] = j /\ a[x] = t[k] /\ a[y] = t[l]
    <3>1. s[h[x]] = s[i] /\ a[x] = t[k] /\ s[h[y]] = s[j] /\ a[y] = t[l]
      <4>1. \A u, v, w, z : <<u, v>> = <<w, z>> => u = w /\ v = z
        OBVIOUS
      <4>2. <<s[h[x]], a[x]>> = <<s[i], t[k]>> /\ <<s[h[y]], a[y]>> = <<s[j], t[l]>>
        BY <2>2, <2>3, <2>4
      <4>3. QED BY <4>1, <4>2, Zenon
    <3>2. h[x] \in 1..Len(s) /\ h[y] \in 1..Len(s)
      BY <1>4
    <3>3. QED BY <3>1, <3>2 DEF Injective
  <2>6. x < y
    BY <1>4, <2>2, <2>5
  <2>7. x \in 1..n /\ y \in 1..n
    BY <1>3, <1>4, <1>7
  <2>8. t[g[x]] = t[k] /\ t[g[y]] = t[l]
    BY <1>5, <1>7, <2>5, <2>7
  <2>9. g[x] = k /\ g[y] = l
    BY <1>5, <2>7, <2>8 DEF Injective
  <2>10. QED BY <1>5, <2>2, <2>6, <2>7, <2>9
<1>8. ASSUME \A p, q \in pairs : ~Crossing(s, t, p, q)
      PROVE  \A i \in 1..m : i \in 1..n /\ a[i] = b[i]
  <2> DEFINE Wrong == { i \in 1..m : ~(i \in 1..n /\ a[i] = b[i]) }
  <2>1. SUFFICES ASSUME Wrong # {} PROVE FALSE
    OBVIOUS
  <2>2. Wrong \in SUBSET Nat
    BY <1>3
  <2>3. PICK i \in Wrong : \A j \in Wrong : i <= j
    BY <2>1, <2>2, LeastNumber
  <2>4. i \in 1..m /\ ~(i \in 1..n /\ a[i] = b[i])
    OBVIOUS
  <2>5. \A j \in 1..m : j < i => j \in 1..n /\ a[j] = b[j]
    BY <2>3, <1>3
  <2> DEFINE p == <<s[h[i]], a[i]>>
  <2>6. p \in pairs /\ p[2] = a[i]
    BY <1>4, <2>4
  <2>7. PICK l \in 1..n : a[i] = b[l]
    BY <1>6, <2>6
  <2>8. ~(l < i)
    <3>1. SUFFICES ASSUME l < i PROVE FALSE
      OBVIOUS
    <3>2. l \in 1..m /\ a[l] = a[i]
      BY <1>3, <2>4, <2>5, <2>7, <3>1
    <3> DEFINE o == <<s[h[l]], a[l]>>
    <3>31. o \in pairs /\ o[2] = p[2]
      BY <1>4, <3>2
    <3>32. o = p
      BY <2>6, <3>31
    <3>3. s[h[l]] = s[h[i]]
      BY <3>32
    <3>4. h[l] = h[i]
      BY <1>4, <2>4, <3>2, <3>3 DEF Injective
    <3>5. QED BY <1>4, <2>4, <3>1, <3>2, <3>4
  <2>9. i \in 1..n /\ i < l
    BY <1>3, <2>4, <2>7, <2>8
  <2>10. PICK q \in pairs : q[2] = b[i]
    BY <1>5, <2>9 DEF Seconds
  <2>11. PICK j \in 1..m : q = <<s[h[j]], a[j]>>
    BY <1>6
  <2>12. a[j] = b[i]
    BY <2>10, <2>11
  <2>13. ~(j < i)
    <3>1. SUFFICES ASSUME j < i PROVE FALSE
      OBVIOUS
    <3>2. j \in 1..n /\ b[j] = b[i]
      BY <2>5, <2>12, <3>1
    <3>3. j = i
      BY <1>5, <2>9, <3>2
    <3>4. QED BY <1>3, <3>1, <3>3
  <2>14. j # i
    BY <2>4, <2>9, <2>12
  <2>15. i < j
    BY <1>3, <2>4, <2>13, <2>14
  <2>16. /\ p = <<s[h[i]], t[g[l]]>> /\ q = <<s[h[j]], t[g[i]]>>
         /\ h[i] < h[j] /\ g[i] < g[l]
    BY <1>4, <1>5, <2>4, <2>7, <2>9, <2>11, <2>12, <2>15
  <2>17. /\ h[i] \in 1..Len(s) /\ h[j] \in 1..Len(s)
         /\ g[l] \in 1..Len(t) /\ g[i] \in 1..Len(t)
    BY <1>4, <1>5, <2>4, <2>9
  <2> HIDE DEF p
  <2>18. Crossing(s, t, p, q)
    BY <2>16, <2>17 DEF Crossing
  <2>19. QED BY <1>8, <2>6, <2>18
<1>9. ASSUME \A p, q \in pairs : ~Crossing(s, t, p, q) PROVE a = b
  <2>1. n = m
    <3>1. m <= n
      <4>1. CASE m = 0
        BY <1>3, <4>1
      <4>2. CASE m # 0
        <5>1. m \in 1..m
          BY <1>3, <4>2
        <5>2. m \in 1..n
          BY <1>8, <1>9, <5>1
        <5>3. QED BY <1>3, <5>2
      <4>3. QED BY <4>1, <4>2
    <3>2. ~(m < n)
      <4>1. SUFFICES ASSUME m < n PROVE FALSE
        OBVIOUS
      <4>2. m + 1 \in 1..n
        BY <1>3, <4>1
      <4>3. PICK q \in pairs : q[2] = b[m + 1]
        BY <1>5, <4>2 DEF Seconds
      <4>4. PICK j \in 1..m : q = <<s[h[j]], a[j]>>
        BY <1>6
      <4>5. j \in 1..n /\ b[j] = b[m + 1]
        BY <1>8, <1>9, <4>3, <4>4
      <4>6. j = m + 1
        BY <1>5, <4>2, <4>5
      <4>7. QED BY <1>3, <4>6
    <3>3. QED BY <1>3, <3>1, <3>2
  <2>2. \A i \in 1..m : a[i] = b[i]
    BY <1>8, <1>9
  <2>3. b = [i \in 1..n |-> b[i]]
    BY <1>3
  <2>4. a = [i \in 1..m |-> a[i]]
    BY DEF Partners, m, f
  <2>5. QED BY <2>1, <2>2, <2>3, <2>4
<1>10. (a # b) <=> \E p, q \in pairs : Crossing(s, t, p, q)
  BY <1>7, <1>9
<1>11. QED BY <1>10 DEF b
=============================================================================
