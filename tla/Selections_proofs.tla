--------------------------- MODULE Selections_proofs ---------------------------
(***************************************************************************)
(* What Without keeps, for every sequence, and what else these proofs need *)
(* of sequences.  The induction is by the extremes of sets of numbers: a   *)
(* proof about a recursive function takes the least number for which its   *)
(* claim fails.                                                            *)
(***************************************************************************)
EXTENDS Selections, FiniteSetsExt, FiniteSetTheorems, WellFoundedInduction, SequenceTheorems,
        TLAPS

(* A set of numbers has a least element.                                   *)
LEMMA Least ==
    ASSUME NEW T, T \subseteq Nat, T # {}
    PROVE  \E m \in T : \A k \in T : m <= k
<1> DEFINE R == OpToRel(<, Nat)
<1>1. \E m \in T : \A k \in T : <<k, m>> \notin R
  BY NatLessThanWellFounded, WFMin
<1>2. \A k, m \in Nat : k < m => <<k, m>> \in R
  BY DEF OpToRel
<1> HIDE DEF R
<1>3. PICK m \in T : \A k \in T : <<k, m>> \notin R
  BY <1>1
<1>4. \A k \in T : ~(k < m)
  BY <1>2, <1>3
<1>5. \A k \in T : k \in Nat /\ m \in Nat
  OBVIOUS
<1>6. QED
  BY <1>4, <1>5

(* So has a bounded one a greatest: seen from the bound it is the least.   *)
LEMMA Greatest ==
    ASSUME NEW n \in Nat, NEW T, T \subseteq 0 .. n, T # {}
    PROVE  \E m \in T : \A k \in T : k <= m
<1> DEFINE U == {k \in 0 .. n : n - k \in T}
<1>1. PICK x \in T : TRUE
  OBVIOUS
<1>2. n - x \in U
  <2>1. x \in 0 .. n
    BY <1>1
  <2>2. n - x \in 0 .. n /\ n - (n - x) = x
    BY <2>1
  <2>3. QED
    BY <1>1, <2>2
<1>3. \A k \in T : k \in 0 .. n /\ n - k \in U
  <2> TAKE k \in T
  <2>1. k \in 0 .. n
    OBVIOUS
  <2>2. n - k \in 0 .. n /\ n - (n - k) = k
    BY <2>1
  <2>3. QED
    BY <2>1, <2>2
<1>4. U \subseteq 0 .. n /\ \A k \in U : n - k \in T
  OBVIOUS
<1> HIDE DEF U
<1>5. PICK m \in U : \A k \in U : m <= k
  <2>1. U \subseteq Nat /\ U # {}
    BY <1>2, <1>4
  <2>2. QED
    BY <2>1, Least
<1>6. n - m \in T /\ m \in 0 .. n
  BY <1>4
<1>7. \A k \in T : k <= n - m
  <2> TAKE k \in T
  <2>1. m <= n - k /\ k \in 0 .. n
    BY <1>3, <1>5
  <2>2. QED
    BY <1>6, <2>1
<1>8. QED
  BY <1>6, <1>7

(* The operators of the community modules for them.                        *)
LEMMA MinIsLeast ==
    ASSUME NEW T, T \subseteq Nat, T # {}
    PROVE  Min(T) \in T /\ \A k \in T : Min(T) <= k
  BY Least DEF Min

LEMMA MaxIsGreatest ==
    ASSUME NEW n \in Nat, NEW T, T \subseteq 0 .. n, T # {}
    PROVE  Max(T) \in T /\ \A k \in T : k <= Max(T)
  BY Greatest DEF Max

--------------------------------------------------------------------------------
(* Sequences and their elements.                                           *)

LEMMA SeqOfElements ==
    ASSUME NEW S, NEW s \in Seq(S), NEW T, \A i \in 1 .. Len(s) : s[i] \in T
    PROVE  s \in Seq(T)
<1>1. PICK n \in Nat : n = Len(s)
  OBVIOUS
<1>2. s \in [1 .. n -> S]
  BY <1>1
<1>3. s \in [1 .. n -> T]
  BY <1>1, <1>2
<1>4. QED
  BY <1>3

LEMMA SeqOfItself ==
    ASSUME NEW S, NEW s \in Seq(S)
    PROVE  s \in Seq(ToSet(s)) /\ ToSet(s) = {s[i] : i \in 1 .. Len(s)}
<1>1. DOMAIN s = 1 .. Len(s)
  OBVIOUS
<1>2. ToSet(s) = {s[i] : i \in 1 .. Len(s)}
  BY <1>1 DEF ToSet
<1>3. \A i \in 1 .. Len(s) : s[i] \in ToSet(s)
  BY <1>2
<1>4. QED
  BY <1>2, <1>3, SeqOfElements

--------------------------------------------------------------------------------
(* Without.                                                                *)

(* The recursive function in Without exists, and takes its values.         *)
LEMMA WithoutUnfolds ==
    ASSUME NEW n \in Nat, NEW s, Len(s) = n, NEW D
    PROVE  \E g : /\ Without(s, D) = g[n]
                  /\ g[0] = <<>>
                  /\ \A k \in 1 .. n :
                        g[k] = IF k \in D THEN g[k - 1] ELSE Append(g[k - 1], s[k])
<1> DEFINE Unfold(g, m) == [k \in 0 .. m |-> IF k = 0 THEN <<>>
                                             ELSE IF k \in D THEN g[k - 1]
                                             ELSE Append(g[k - 1], s[k])]
           kept == CHOOSE g : g = Unfold(g, n)
<1>1. Without(s, D) = kept[n]
  BY Zenon DEF Without
<1>2. \E g : g = Unfold(g, n)
  <2> DEFINE Bad == {m \in 0 .. n : ~ \E g : g = Unfold(g, m)}
  <2>1. SUFFICES ASSUME Bad # {} PROVE FALSE
    <3>1. n \in Bad => Bad # {}
      OBVIOUS
    <3>2. n \in 0 .. n
      OBVIOUS
    <3>3. QED
      BY <3>1, <3>2
  <2>2. PICK m \in Bad : \A k \in Bad : m <= k
    <3>1. Bad \subseteq Nat
      <4>1. Bad \subseteq 0 .. n
        BY Zenon
      <4> HIDE DEF Bad
      <4>2. QED
        BY <4>1
    <3> HIDE DEF Bad
    <3>2. QED
      BY <2>1, <3>1, Least
  <2>3. m # 0
    <3>1. [k \in 0 .. 0 |-> <<>>] = Unfold([k \in 0 .. 0 |-> <<>>], 0)
      OBVIOUS
    <3>2. QED
      BY <3>1
  <2>4. m \in Nat /\ m - 1 \in 0 .. n /\ m - 1 \notin Bad /\ m \in 1 .. n
    <3>1. m \in 0 .. n
      OBVIOUS
    <3> HIDE DEF Bad
    <3>2. QED
      BY <2>2, <2>3, <3>1
  <2>5. PICK g : g = Unfold(g, m - 1)
    BY <2>4
  <2> DEFINE h == Unfold(g, m)
  <2>6. \A k \in 0 .. m - 1 : h[k] = g[k]
    <3>1. TAKE k \in 0 .. m - 1
    <3>2. h[k] = IF k = 0 THEN <<>> ELSE IF k \in D THEN g[k - 1]
                 ELSE Append(g[k - 1], s[k])
      BY <2>4
    <3>3. g[k] = IF k = 0 THEN <<>> ELSE IF k \in D THEN g[k - 1]
                 ELSE Append(g[k - 1], s[k])
      BY <2>5
    <3>4. QED
      BY <3>2, <3>3
  <2>7. h = Unfold(h, m)
    <3> SUFFICES ASSUME NEW k \in 0 .. m
                 PROVE  h[k] = IF k = 0 THEN <<>> ELSE IF k \in D THEN h[k - 1]
                               ELSE Append(h[k - 1], s[k])
      OBVIOUS
    <3>1. CASE k = 0
      BY <3>1
    <3>2. CASE k # 0
      <4>1. k - 1 \in 0 .. m - 1
        BY <2>4, <3>2
      <4>2. h[k - 1] = g[k - 1]
        BY <4>1, <2>6
      <4>3. QED
        BY <3>2, <4>2
    <3>3. QED
      BY <3>1, <3>2
  <2>8. QED
    BY <2>2, <2>7
<1>3. kept = Unfold(kept, n)
  BY <1>2
<1> HIDE DEF kept
<1>4. /\ kept[0] = <<>>
      /\ \A k \in 1 .. n :
            kept[k] = IF k \in D THEN kept[k - 1] ELSE Append(kept[k - 1], s[k])
  <2>1. \A k \in 0 .. n : kept[k] = IF k = 0 THEN <<>>
                                    ELSE IF k \in D THEN kept[k - 1]
                                    ELSE Append(kept[k - 1], s[k])
    BY <1>3, Zenon
  <2>2. QED
    BY <2>1
<1>5. QED
  BY <1>1, <1>4

(* r is the part of s that lies at p[1], p[2], ..., these being the        *)
(* positions up to m that are not in D.                                    *)
Selection(s, m, D, r, p) ==
    /\ Len(r) \in Nat
    /\ r = [k \in 1 .. Len(r) |-> s[p[k]]]
    /\ p \in [1 .. Len(r) -> (1 .. m) \ D]
    /\ \A j, k \in 1 .. Len(r) : j < k => p[j] < p[k]
    /\ \A i \in (1 .. m) \ D : \E k \in 1 .. Len(r) : p[k] = i

LEMMA SelectionGrows ==
    ASSUME NEW m \in Nat, NEW s, NEW D, NEW r, NEW p, Selection(s, m, D, r, p)
    PROVE  \E q : Selection(s, m + 1, D,
                            IF m + 1 \in D THEN r ELSE Append(r, s[m + 1]), q)
<1> USE DEF Selection
<1>1. CASE m + 1 \in D
  <2>1. (1 .. m + 1) \ D = (1 .. m) \ D
    BY <1>1
  <2>2. Selection(s, m + 1, D, r, p)
    BY <2>1
  <2>3. QED
    BY <1>1, <2>2
<1>2. CASE m + 1 \notin D
  <2> DEFINE l == Len(r)
             t == Append(r, s[m + 1])
             q == [k \in 1 .. l + 1 |-> IF k = l + 1 THEN m + 1 ELSE p[k]]
  <2>1. l \in Nat /\ r \in Seq({s[p[k]] : k \in 1 .. l})
    OBVIOUS
  <2>2. /\ Len(t) = l + 1 /\ t[l + 1] = s[m + 1]
        /\ \A k \in 1 .. l : t[k] = r[k]
        /\ t = [k \in 1 .. l + 1 |-> t[k]]
    BY <2>1
  <2>3. t = [k \in 1 .. l + 1 |-> s[q[k]]]
    <3> SUFFICES ASSUME NEW k \in 1 .. l + 1 PROVE t[k] = s[q[k]]
      BY <2>2
    <3>1. CASE k = l + 1
      BY <2>2, <3>1
    <3>2. CASE k # l + 1
      <4>1. k \in 1 .. l /\ q[k] = p[k]
        BY <2>1, <3>2
      <4> HIDE DEF q, t
      <4>2. t[k] = r[k] /\ r[k] = s[p[k]]
        BY <2>2, <4>1
      <4>3. QED
        BY <4>1, <4>2
    <3>3. QED
      BY <3>1, <3>2
  <2>4. q \in [1 .. l + 1 -> (1 .. m + 1) \ D]
    BY <1>2, <2>1
  <2>5. \A j, k \in 1 .. l + 1 : j < k => q[j] < q[k]
    <3>1. \A k \in 1 .. l : q[k] = p[k] /\ p[k] \in 1 .. m
      <4> TAKE k \in 1 .. l
      <4>1. p[k] \in (1 .. m) \ D
        OBVIOUS
      <4>2. k \in 1 .. l + 1 /\ k # l + 1
        BY SMTT(30), <2>1
      <4>3. q[k] = p[k]
        BY <4>2
      <4>4. QED
        BY <4>1, <4>3
    <3>2. q[l + 1] = m + 1
      BY <2>1
    <3>3. \A j, k \in 1 .. l : j < k => p[j] < p[k]
      OBVIOUS
    <3> HIDE DEF q, t, l, Selection
    <3>4. \A k \in 1 .. l + 1 : k \in 1 .. l \/ k = l + 1
      BY <2>1
    <3>5. QED
      BY <2>1, <3>1, <3>2, <3>3, <3>4
  <2>6. \A i \in (1 .. m + 1) \ D : \E k \in 1 .. l + 1 : q[k] = i
    <3> TAKE i \in (1 .. m + 1) \ D
    <3>1. CASE i = m + 1
      BY <2>1, <3>1
    <3>2. CASE i # m + 1
      <4>1. PICK k \in 1 .. l : p[k] = i
        BY <3>2
      <4>2. k \in 1 .. l + 1 /\ q[k] = i
        BY SMTT(30), <2>1, <4>1
      <4>3. QED
        BY <4>2
    <3>3. QED
      BY <3>1, <3>2
  <2> HIDE DEF q, t, l
  <2>7. Selection(s, m + 1, D, t, q)
    BY <2>1, <2>2, <2>3, <2>4, <2>5, <2>6
  <2>8. QED
    BY <1>2, <2>7 DEF t
<1>3. QED
  BY <1>1, <1>2

(* Without keeps the lines at the other positions, in their order.         *)
LEMMA WithoutSelects ==
    ASSUME NEW n \in Nat, NEW s, Len(s) = n, NEW D
    PROVE  \E p : Selection(s, n, D, Without(s, D), p)
<1>1. PICK g : /\ Without(s, D) = g[n]
               /\ g[0] = <<>>
               /\ \A k \in 1 .. n :
                     g[k] = IF k \in D THEN g[k - 1] ELSE Append(g[k - 1], s[k])
  BY WithoutUnfolds
<1> DEFINE Bad == {m \in 0 .. n : ~ \E p : Selection(s, m, D, g[m], p)}
<1>2. SUFFICES ASSUME Bad # {} PROVE FALSE
  <2>1. n \in 0 .. n /\ (n \notin Bad => \E p : Selection(s, n, D, g[n], p))
    OBVIOUS
  <2> HIDE DEF Bad
  <2>2. QED
    BY <1>1, <2>1
<1>3. Bad \subseteq 0 .. n
  BY Zenon
<1>4. PICK m \in Bad : \A k \in Bad : m <= k
  <2> HIDE DEF Bad
  <2>1. Bad \subseteq Nat
    BY <1>3
  <2>2. QED
    BY <1>2, <2>1, Least
<1>5. m \in 0 .. n /\ ~ \E p : Selection(s, m, D, g[m], p)
  OBVIOUS
<1>6. m # 0
  <2>1. Selection(s, 0, D, <<>>, <<>>)
    BY DEF Selection
  <2>2. QED
    BY <1>1, <1>5, <2>1
<1>7. m - 1 \in 0 .. n /\ m - 1 \notin Bad /\ m \in 1 .. n /\ m - 1 \in Nat
  <2> HIDE DEF Bad
  <2>1. QED
    BY <1>4, <1>5, <1>6
<1>8. PICK p : Selection(s, m - 1, D, g[m - 1], p)
  BY <1>7
<1>9. \E q : Selection(s, (m - 1) + 1, D,
                       IF (m - 1) + 1 \in D THEN g[m - 1]
                       ELSE Append(g[m - 1], s[(m - 1) + 1]), q)
  <2> HIDE DEF Bad
  <2>1. QED
    BY <1>7, <1>8, SelectionGrows
<1>10. (m - 1) + 1 = m
  BY <1>7
<1>11. QED
  BY <1>1, <1>5, <1>7, <1>9, <1>10

(* Where nothing is dropped, the first lines stay where they are.          *)
LEMMA FirstStay ==
    ASSUME NEW n \in Nat, NEW s, NEW D, NEW r, NEW p, Selection(s, n, D, r, p),
           NEW m \in 0 .. n, \A i \in 1 .. m : i \notin D
    PROVE  m <= Len(r) /\ \A k \in 1 .. m : p[k] = k
<1> DEFINE Bad == {k \in 1 .. m : ~ (k <= Len(r) /\ p[k] = k)}
<1>1. Bad = {}
  <2> SUFFICES ASSUME Bad # {} PROVE FALSE
    OBVIOUS
  <2>1. PICK k \in Bad : \A j \in Bad : k <= j
    <3>1. Bad \subseteq Nat
      OBVIOUS
    <3> HIDE DEF Bad
    <3>2. QED
      BY <3>1, Least
  <2>2. k \in 1 .. m /\ k \in (1 .. n) \ D /\ ~ (k <= Len(r) /\ p[k] = k)
    OBVIOUS
  <2>3. \A j \in 1 .. m : j < k => j <= Len(r) /\ p[j] = j
    <3> TAKE j \in 1 .. m
    <3>1. j \in Bad => k <= j
      BY <2>1
    <3>2. j \notin Bad => j <= Len(r) /\ p[j] = j
      OBVIOUS
    <3> HIDE DEF Bad
    <3>3. QED
      BY <2>2, <3>1, <3>2
  <2> HIDE DEF Bad
  <2>4. /\ Len(r) \in Nat
        /\ \A c \in 1 .. Len(r) : p[c] \in 1 .. n
        /\ \A c, d \in 1 .. Len(r) : c < d => p[c] < p[d]
    BY DEF Selection
  <2>5. PICK c \in 1 .. Len(r) : p[c] = k
    BY <2>2 DEF Selection
  <2>6. ~(c < k)
    <3> SUFFICES ASSUME c < k PROVE FALSE
      OBVIOUS
    <3>1. c \in 1 .. m
      BY <2>2, <2>4
    <3>2. QED
      BY <2>3, <2>5, <3>1
  <2>7. k \in 1 .. Len(r) /\ p[k] \in 1 .. n
    BY <2>2, <2>4, <2>6
  <2>8. ~(p[k] < k)
    <3> SUFFICES ASSUME p[k] < k PROVE FALSE
      OBVIOUS
    <3>1. p[k] \in 1 .. m
      BY <2>2, <2>7
    <3>2. p[k] <= Len(r) /\ p[p[k]] = p[k]
      BY <2>3, <3>1
    <3>3. p[k] \in 1 .. Len(r)
      BY <2>4, <3>1, <3>2
    <3>4. p[p[k]] < p[k]
      BY <2>4, <2>7, <3>3
    <3>5. QED
      BY <2>7, <3>2, <3>4
  <2>9. c = k
    <3>1. c > k => p[k] < p[c]
      BY <2>4, <2>7
    <3>2. QED
      BY <2>2, <2>5, <2>6, <2>7, <2>8, <3>1
  <2>10. QED
    BY <2>2, <2>5, <2>7, <2>9
<1>2. \A k \in 1 .. m : k <= Len(r) /\ p[k] = k
  BY <1>1
<1>3. Len(r) \in Nat
  BY DEF Selection
<1> HIDE DEF Bad
<1>4. CASE m = 0
  BY <1>3, <1>4
<1>5. CASE m # 0
  <2>1. m \in 1 .. m
    BY <1>5
  <2>2. QED
    BY <1>2, <2>1
<1>6. QED
  BY <1>4, <1>5

(* A line that stays under a line that stays is still the next one.        *)
LEMMA PreviousStays ==
    ASSUME NEW n \in Nat, NEW s, NEW D, NEW r, NEW p, Selection(s, n, D, r, p),
           NEW k \in 1 .. Len(r), p[k] - 1 \in 1 .. n, p[k] - 1 \notin D
    PROVE  k - 1 \in 1 .. Len(r) /\ p[k - 1] = p[k] - 1
<1>1. /\ Len(r) \in Nat
      /\ \A c \in 1 .. Len(r) : p[c] \in 1 .. n
      /\ \A c, d \in 1 .. Len(r) : c < d => p[c] < p[d]
  BY DEF Selection
<1>2. PICK c \in 1 .. Len(r) : p[c] = p[k] - 1
  BY DEF Selection
<1>3. p[k] \in 1 .. n /\ p[c] \in 1 .. n
  BY <1>1
<1>4. c < k
  <2>1. c = k \/ c > k \/ c < k
    BY <1>1
  <2>2. c > k => p[k] < p[c]
    BY <1>1
  <2>3. QED
    BY <1>2, <1>3, <2>1, <2>2
<1>5. k - 1 \in 1 .. Len(r) /\ k - 1 < k
  BY <1>1, <1>4
<1>6. p[k - 1] < p[k] /\ p[k - 1] \in 1 .. n
  BY <1>1, <1>5
<1>7. c < k - 1 => p[c] < p[k - 1]
  BY <1>1, <1>5
<1>8. c = k - 1
  BY <1>1, <1>2, <1>3, <1>4, <1>5, <1>6, <1>7
<1>9. QED
  BY <1>2, <1>5, <1>8

LEMMA WithoutType ==
    ASSUME NEW T, NEW s \in Seq(T), NEW D
    PROVE  /\ Without(s, D) \in Seq(T)
           /\ \E p : Selection(s, Len(s), D, Without(s, D), p)
<1>1. Len(s) \in Nat /\ \A i \in 1 .. Len(s) : s[i] \in T
  OBVIOUS
<1>2. PICK p : Selection(s, Len(s), D, Without(s, D), p)
  BY <1>1, WithoutSelects
<1> DEFINE r == Without(s, D)
<1> HIDE DEF r
<1>3. /\ Len(r) \in Nat /\ r = [k \in 1 .. Len(r) |-> s[p[k]]]
      /\ \A k \in 1 .. Len(r) : p[k] \in 1 .. Len(s)
  BY <1>2 DEF Selection, r
<1>4. \A k \in 1 .. Len(r) : s[p[k]] \in T
  BY <1>1, <1>3
<1>5. PICK m \in Nat : m = Len(r)
  BY <1>3
<1>6. r \in Seq(T)
  BY <1>3, <1>4, <1>5
<1>7. QED
  BY <1>2, <1>6 DEF r

LEMMA WithoutNothing ==
    ASSUME NEW T, NEW s \in Seq(T), NEW D, \A i \in 1 .. Len(s) : i \notin D
    PROVE  Without(s, D) = s
<1> DEFINE n == Len(s)
           r == Without(s, D)
<1>1. n \in Nat /\ s = [i \in 1 .. n |-> s[i]]
  OBVIOUS
<1>2. PICK p : Selection(s, n, D, r, p)
  BY WithoutType
<1> HIDE DEF n, r
<1>3. n <= Len(r) /\ \A k \in 1 .. n : p[k] = k
  <2>1. n \in 0 .. n
    BY <1>1
  <2>2. \A i \in 1 .. n : i \notin D
    BY DEF n
  <2>3. QED
    BY <1>1, <1>2, <2>1, <2>2, FirstStay
<1>4. /\ Len(r) \in Nat /\ r = [k \in 1 .. Len(r) |-> s[p[k]]]
      /\ \A c \in 1 .. Len(r) : p[c] \in 1 .. n
      /\ \A c, d \in 1 .. Len(r) : c < d => p[c] < p[d]
  BY <1>2 DEF Selection
<1>5. ~(n < Len(r))
  <2> SUFFICES ASSUME n < Len(r) PROVE FALSE
    OBVIOUS
  <2>1. n + 1 \in 1 .. Len(r) /\ p[n + 1] \in 1 .. n
    BY <1>1, <1>4
  <2>2. p[p[n + 1]] = p[n + 1] /\ p[n + 1] \in 1 .. Len(r) /\ p[n + 1] < n + 1
    BY <1>1, <1>3, <1>4, <2>1
  <2>3. p[p[n + 1]] < p[n + 1]
    BY <1>4, <2>1, <2>2
  <2>4. QED
    BY <2>1, <2>2, <2>3
<1>6. Len(r) = n
  BY <1>1, <1>3, <1>4, <1>5
<1>7. \A k \in 1 .. n : s[p[k]] = s[k]
  BY <1>3
<1>8. r = [k \in 1 .. n |-> s[k]]
  BY <1>4, <1>6, <1>7
<1>9. QED
  BY <1>1, <1>8 DEF r
--------------------------------------------------------------------------------
(* FlattenSeq.                                                             *)

LEMMA FlattenUnfolds ==
    ASSUME NEW ss, Len(ss) \in Nat, Len(ss) # 0
    PROVE  \E g : /\ FlattenSeq(ss) = g[Len(ss)]
                  /\ g[1] = ss[1]
                  /\ \A k \in 2 .. Len(ss) : g[k] = g[k - 1] \o ss[k]
<1>0. PICK n \in Nat : n = Len(ss) /\ n # 0
  OBVIOUS
<1> DEFINE Unfold(g, m) == [k \in 1 .. m |-> IF k = 1 THEN ss[k] ELSE g[k - 1] \o ss[k]]
           flatten == CHOOSE g : g = Unfold(g, n)
<1>1. FlattenSeq(ss) = flatten[n]
  <2>1. ~(n = 0)
    BY <1>0
  <2>2. QED
    BY <1>0, <2>1, Zenon DEF FlattenSeq
<1>2. \E g : g = Unfold(g, n)
  <2> DEFINE Bad == {m \in 1 .. n : ~ \E g : g = Unfold(g, m)}
  <2>1. SUFFICES ASSUME Bad # {} PROVE FALSE
    <3>1. n \in Bad => Bad # {}
      OBVIOUS
    <3>2. n \in 1 .. n
      BY <1>0
    <3>3. QED
      BY <3>1, <3>2
  <2>2. Bad \subseteq 1 .. n
    BY Zenon
  <2>3. PICK m \in Bad : \A k \in Bad : m <= k
    <3> HIDE DEF Bad
    <3>1. Bad \subseteq Nat
      BY <2>2
    <3>2. QED
      BY <2>1, <3>1, Least
  <2>4. m # 1
    <3>1. [k \in 1 .. 1 |-> ss[1]] = Unfold([k \in 1 .. 1 |-> ss[1]], 1)
      OBVIOUS
    <3>2. QED
      BY <3>1
  <2>5. m \in Nat /\ m \in 1 .. n /\ m - 1 \in 1 .. n /\ m - 1 \notin Bad
    <3> HIDE DEF Bad
    <3>1. QED
      BY <2>2, <2>3, <2>4
  <2>6. PICK g : g = Unfold(g, m - 1)
    BY <2>5
  <2> DEFINE h == Unfold(g, m)
  <2>7. \A k \in 1 .. m - 1 : h[k] = g[k]
    <3>1. TAKE k \in 1 .. m - 1
    <3>2. h[k] = IF k = 1 THEN ss[k] ELSE g[k - 1] \o ss[k]
      BY <2>5
    <3>3. g[k] = IF k = 1 THEN ss[k] ELSE g[k - 1] \o ss[k]
      BY <2>6
    <3>4. QED
      BY <3>2, <3>3
  <2>8. h = Unfold(h, m)
    <3> SUFFICES ASSUME NEW k \in 1 .. m
                 PROVE  h[k] = IF k = 1 THEN ss[k] ELSE h[k - 1] \o ss[k]
      OBVIOUS
    <3>1. CASE k = 1
      BY <3>1
    <3>2. CASE k # 1
      <4>1. k - 1 \in 1 .. m - 1
        BY <2>5, <3>2
      <4>2. h[k - 1] = g[k - 1]
        BY <4>1, <2>7
      <4>3. QED
        BY <3>2, <4>2
    <3>3. QED
      BY <3>1, <3>2
  <2>9. QED
    BY <2>3, <2>8
<1>3. flatten = Unfold(flatten, n)
  BY <1>2
<1> HIDE DEF flatten
<1>4. \A k \in 1 .. n : flatten[k] = IF k = 1 THEN ss[k] ELSE flatten[k - 1] \o ss[k]
  BY <1>3, Zenon
<1>5. flatten[1] = ss[1] /\ \A k \in 2 .. n : flatten[k] = flatten[k - 1] \o ss[k]
  <2>1. 1 \in 1 .. n /\ \A k \in 2 .. n : k \in 1 .. n /\ k # 1
    BY <1>0
  <2>2. QED
    BY <1>4, <2>1
<1>6. QED
  BY <1>0, <1>1, <1>5

LEMMA ElementsOfConcat ==
    ASSUME NEW T, NEW s \in Seq(T), NEW t \in Seq(T)
    PROVE  s \o t \in Seq(T) /\ ToSet(s \o t) = ToSet(s) \cup ToSet(t)
<1>1. s \o t \in Seq(T) /\ Len(s \o t) = Len(s) + Len(t)
  OBVIOUS
<1>2. \A i \in 1 .. Len(s \o t) :
        (s \o t)[i] = IF i <= Len(s) THEN s[i] ELSE t[i - Len(s)]
  OBVIOUS
<1>3. /\ ToSet(s) = {s[i] : i \in 1 .. Len(s)}
      /\ ToSet(t) = {t[i] : i \in 1 .. Len(t)}
      /\ ToSet(s \o t) = {(s \o t)[i] : i \in 1 .. Len(s \o t)}
  <2>1. \A w \in Seq(T) : ToSet(w) = {w[i] : i \in 1 .. Len(w)}
    <3> TAKE w \in Seq(T)
    <3>1. QED
      BY SeqOfItself
  <2>2. QED
    BY <1>1, <2>1
<1> DEFINE u == s \o t
<1> HIDE DEF u
<1>4. Len(s) \in Nat /\ Len(t) \in Nat
  OBVIOUS
<1>5. \A i \in 1 .. Len(s) : s[i] \in {u[j] : j \in 1 .. Len(u)}
  <2> TAKE i \in 1 .. Len(s)
  <2>1. i \in 1 .. Len(u) /\ u[i] = s[i]
    BY <1>1, <1>2, <1>4 DEF u
  <2>2. QED
    BY <2>1
<1>6. \A i \in 1 .. Len(t) : t[i] \in {u[j] : j \in 1 .. Len(u)}
  <2> TAKE i \in 1 .. Len(t)
  <2>1. Len(s) + i \in 1 .. Len(u) /\ ~(Len(s) + i <= Len(s)) /\ (Len(s) + i) - Len(s) = i
    BY <1>1, <1>4 DEF u
  <2>2. u[Len(s) + i] = t[i]
    BY <1>2, <2>1 DEF u
  <2>3. QED
    BY <2>1, <2>2
<1>7. \A j \in 1 .. Len(u) : u[j] \in {s[i] : i \in 1 .. Len(s)} \cup {t[i] : i \in 1 .. Len(t)}
  <2> TAKE j \in 1 .. Len(u)
  <2>1. CASE j <= Len(s)
    <3>1. j \in 1 .. Len(s) /\ u[j] = s[j]
      BY <1>1, <1>2, <1>4, <2>1 DEF u
    <3>2. QED
      BY <3>1
  <2>2. CASE ~(j <= Len(s))
    <3>1. j - Len(s) \in 1 .. Len(t) /\ u[j] = t[j - Len(s)]
      BY <1>1, <1>2, <1>4, <2>2 DEF u
    <3>2. QED
      BY <3>1
  <2>3. QED
    BY <2>1, <2>2
<1>8. QED
  BY ZenonT(60), <1>1, <1>3, <1>5, <1>6, <1>7 DEF u

(* The elements of the whole are those of the parts.                       *)
LEMMA FlattenElements ==
    ASSUME NEW T, NEW ss \in Seq(Seq(T))
    PROVE  /\ FlattenSeq(ss) \in Seq(T)
           /\ ToSet(FlattenSeq(ss)) = UNION {ToSet(ss[i]) : i \in 1 .. Len(ss)}
<1>0. PICK n \in Nat : n = Len(ss)
  OBVIOUS
<1>1. n \in Nat /\ \A i \in 1 .. n : ss[i] \in Seq(T)
  BY <1>0
<1>2. CASE n = 0
  <2>1. FlattenSeq(ss) = ss /\ ss = <<>>
    BY <1>0, <1>2, Zenon, EmptySeq DEF FlattenSeq
  <2>2. ss \in Seq(T) /\ ToSet(ss) = {}
    BY <2>1 DEF ToSet
  <2>3. QED
    BY <1>0, <1>2, <2>1, <2>2
<1>3. CASE n # 0
  <2>1. PICK g : /\ FlattenSeq(ss) = g[n]
                 /\ g[1] = ss[1]
                 /\ \A k \in 2 .. n : g[k] = g[k - 1] \o ss[k]
    <3>1. Len(ss) \in Nat /\ Len(ss) # 0
      BY <1>0, <1>3
    <3>2. \E g : /\ FlattenSeq(ss) = g[Len(ss)]
                 /\ g[1] = ss[1]
                 /\ \A k \in 2 .. Len(ss) : g[k] = g[k - 1] \o ss[k]
      BY <3>1, FlattenUnfolds
    <3>3. QED
      BY <1>0, <3>2
  <2> DEFINE First(m) == UNION {ToSet(ss[i]) : i \in 1 .. m}
             Good(m) == g[m] \in Seq(T) /\ ToSet(g[m]) = First(m)
             Bad == {m \in 1 .. n : ~Good(m)}
  <2>2. Bad \subseteq 1 .. n
    BY Zenon
  <2>3. SUFFICES ASSUME Bad # {} PROVE FALSE
    <3>1. n \in 1 .. n
      BY <1>1, <1>3
    <3>2. Good(n) => FlattenSeq(ss) \in Seq(T) /\ ToSet(FlattenSeq(ss)) = First(n)
      BY <2>1
    <3>3. n \in Bad \/ Good(n)
      BY <3>1
    <3> HIDE DEF Good, Bad
    <3>4. QED
      BY <1>0, <3>2, <3>3
  <2>4. PICK m \in Bad : \A k \in Bad : m <= k
    <3> HIDE DEF Bad
    <3>1. Bad \subseteq Nat
      BY <2>2
    <3>2. QED
      BY <2>3, <3>1, Least
  <2>5. m \in 1 .. n /\ ~Good(m)
    OBVIOUS
  <2>6. m # 1
    <3>1. First(1) = ToSet(ss[1])
      OBVIOUS
    <3>2. Good(1)
      BY <1>1, <1>3, <2>1, <3>1
    <3> HIDE DEF Good
    <3>3. QED
      BY <2>5, <3>2
  <2>7. m - 1 \in 1 .. n /\ m \in 2 .. n /\ ~(m <= m - 1)
    <3> HIDE DEF Good, Bad
    <3>1. QED
      BY <1>1, <2>5, <2>6
  <2>8. Good(m - 1)
    <3>1. m - 1 \in Bad \/ Good(m - 1)
      BY <2>7
    <3> HIDE DEF Good, Bad
    <3>2. QED
      BY <2>4, <2>7, <3>1
  <2>9. First(m) = First(m - 1) \cup ToSet(ss[m])
    <3>1. 1 .. m = (1 .. m - 1) \cup {m}
      BY <1>1, <2>7
    <3>2. QED
      BY <3>1
  <2>10. g[m] = g[m - 1] \o ss[m] /\ ss[m] \in Seq(T)
    BY <1>1, <2>1, <2>5, <2>7
  <2>11. Good(m)
    <3>1. g[m - 1] \in Seq(T) /\ ToSet(g[m - 1]) = First(m - 1)
      BY <2>8
    <3>2. g[m - 1] \o ss[m] \in Seq(T) /\ ToSet(g[m - 1] \o ss[m]) = ToSet(g[m - 1]) \cup ToSet(ss[m])
      BY <2>10, <3>1, ElementsOfConcat
    <3> HIDE DEF First
    <3>3. QED
      BY <2>9, <2>10, <3>1, <3>2
  <2> HIDE DEF Good
  <2>12. QED
    BY <2>5, <2>11
<1>4. QED
  BY <1>2, <1>3

--------------------------------------------------------------------------------
(* The elements that Without keeps.                                        *)

LEMMA KeptElements ==
    ASSUME NEW T, NEW s \in Seq(T), NEW D
    PROVE  /\ Without(s, D) \in Seq(T)
           /\ ToSet(Without(s, D)) = {s[i] : i \in (1 .. Len(s)) \ D}
<1> DEFINE r == Without(s, D)
<1>1. r \in Seq(T) /\ \E p : Selection(s, Len(s), D, r, p)
  BY WithoutType
<1> HIDE DEF r
<1>2. PICK p : Selection(s, Len(s), D, r, p)
  BY <1>1
<1>3. /\ Len(r) \in Nat
      /\ r = [k \in 1 .. Len(r) |-> s[p[k]]]
      /\ p \in [1 .. Len(r) -> (1 .. Len(s)) \ D]
      /\ \A i \in (1 .. Len(s)) \ D : \E k \in 1 .. Len(r) : p[k] = i
  BY <1>2 DEF Selection
<1>4. \A k \in 1 .. Len(r) : r[k] = s[p[k]] /\ p[k] \in (1 .. Len(s)) \ D
  BY <1>3
<1>5. ToSet(r) = {r[k] : k \in 1 .. Len(r)}
  BY <1>1, SeqOfItself
<1> DEFINE A == {r[k] : k \in 1 .. Len(r)}
           B == {s[i] : i \in (1 .. Len(s)) \ D}
<1>6. A = B
  <2>1. ASSUME NEW k \in 1 .. Len(r) PROVE r[k] \in B
    BY <1>4
  <2>2. ASSUME NEW i \in (1 .. Len(s)) \ D PROVE s[i] \in A
    <3>1. PICK k \in 1 .. Len(r) : p[k] = i
      BY <1>3
    <3>2. r[k] = s[i]
      BY <1>4, <3>1
    <3>3. QED
      BY <3>2
  <2>3. A \subseteq B
    BY <2>1
  <2>4. B \subseteq A
    BY <2>2
  <2> HIDE DEF A, B
  <2>5. QED
    BY <2>3, <2>4
<1>7. QED
  BY <1>1, <1>5, <1>6 DEF r

(* Elements that differ in key do so in any part of the sequence.          *)
LEMMA KeptDistinct ==
    ASSUME NEW T, NEW s \in Seq(T), NEW D, NEW K,
           \A i, j \in (1 .. Len(s)) \ D : K[s[i]] = K[s[j]] => i = j
    PROVE  \A m, n \in 1 .. Len(Without(s, D)) :
               K[Without(s, D)[m]] = K[Without(s, D)[n]] => m = n
<1> DEFINE r == Without(s, D)
<1>1. r \in Seq(T) /\ \E p : Selection(s, Len(s), D, r, p)
  BY WithoutType
<1> HIDE DEF r
<1>2. PICK p : Selection(s, Len(s), D, r, p)
  BY <1>1
<1>3. /\ Len(r) \in Nat
      /\ r = [k \in 1 .. Len(r) |-> s[p[k]]]
      /\ p \in [1 .. Len(r) -> (1 .. Len(s)) \ D]
      /\ \A j, k \in 1 .. Len(r) : j < k => p[j] < p[k]
  BY <1>2 DEF Selection
<1>4. \A k \in 1 .. Len(r) : r[k] = s[p[k]] /\ p[k] \in (1 .. Len(s)) \ D /\ p[k] \in Nat
  BY <1>3
<1> SUFFICES ASSUME NEW m \in 1 .. Len(r), NEW n \in 1 .. Len(r), K[r[m]] = K[r[n]]
             PROVE  m = n
  BY DEF r
<1>5. p[m] = p[n]
  BY <1>4
<1>6. ~(m < n) /\ ~(n < m)
  BY <1>3, <1>4, <1>5
<1>7. QED
  BY <1>3, <1>6

(* Of elements with equal keys the first is kept: the keys that are left   *)
(* differ, and none is missing.                                            *)
LEMMA FirstOfEachKey ==
    ASSUME NEW T, NEW s \in Seq(T), NEW K, NEW D,
           D = {i \in 1 .. Len(s) : \E j \in 1 .. i - 1 : K[s[j]] = K[s[i]]}
    PROVE  /\ \A i, j \in (1 .. Len(s)) \ D : K[s[i]] = K[s[j]] => i = j
           /\ \A i \in 1 .. Len(s) : \E j \in (1 .. Len(s)) \ D : K[s[j]] = K[s[i]]
<1>1. Len(s) \in Nat
  OBVIOUS
<1>2. \A i, j \in 1 .. Len(s) : i < j /\ K[s[i]] = K[s[j]] => j \in D
  <2> TAKE i, j \in 1 .. Len(s)
  <2> HAVE i < j /\ K[s[i]] = K[s[j]]
  <2>1. i \in 1 .. j - 1
    OBVIOUS
  <2>2. QED
    BY <2>1
<1>3. ASSUME NEW i \in (1 .. Len(s)) \ D, NEW j \in (1 .. Len(s)) \ D, K[s[i]] = K[s[j]]
      PROVE  i = j
  BY <1>2, <1>3
<1>4. ASSUME NEW i \in 1 .. Len(s)
      PROVE  \E j \in (1 .. Len(s)) \ D : K[s[j]] = K[s[i]]
  <2> DEFINE J == {j \in 1 .. Len(s) : K[s[j]] = K[s[i]]}
  <2>1. J \subseteq Nat /\ J # {}
    BY <1>1
  <2>2. PICK j \in J : \A k \in J : j <= k
    <3> HIDE DEF J
    <3>1. QED
      BY <2>1, Least
  <2>3. j \notin D
    <3> SUFFICES ASSUME j \in D PROVE FALSE
      OBVIOUS
    <3>1. PICK k \in 1 .. j - 1 : K[s[k]] = K[s[j]]
      OBVIOUS
    <3>2. k \in J /\ ~(j <= k)
      BY <1>1, <3>1
    <3>3. QED
      BY <2>2, <3>2
  <2>4. QED
    BY <2>3
<1>5. QED
  BY <1>3, <1>4

--------------------------------------------------------------------------------
(* When two sequences keep the same.                                       *)

(* g lists the numbers of S, in order.                                     *)
Enumerates(g, l, S) ==
    /\ g \in [1 .. l -> S]
    /\ \A c, d \in 1 .. l : c < d => g[c] < g[d]
    /\ \A x \in S : \E c \in 1 .. l : g[c] = x

(* Every enumeration of a set of numbers begins as any other one.          *)
Begins(g, l, o, m) == \A k \in 1 .. l : k <= m /\ o[k] = g[k]

LEMMA EnumerationBegins ==
    ASSUME NEW S, NEW l \in Nat, NEW m \in Nat, NEW g, NEW o,
           S \subseteq Nat, Enumerates(g, l, S), Enumerates(o, m, S)
    PROVE  Begins(g, l, o, m)
<1> USE DEF Enumerates, Begins
<1> DEFINE Bad == {k \in 1 .. l : ~(k <= m /\ o[k] = g[k])}
<1>1. Bad \subseteq Nat /\ \A k \in 1 .. l : k \notin Bad => k <= m /\ o[k] = g[k]
  OBVIOUS
<1>2. SUFFICES ASSUME Bad # {} PROVE FALSE
  BY <1>1
<1>3. PICK k \in Bad : \A j \in Bad : k <= j
  <2> HIDE DEF Bad
  <2>1. QED
    BY <1>1, <1>2, Least
<1>4. k \in 1 .. l /\ ~(k <= m /\ o[k] = g[k])
  OBVIOUS
<1> HIDE DEF Bad
<1>5. \A j \in 1 .. l : j < k => j <= m /\ o[j] = g[j]
  BY <1>1, <1>3, <1>4
<1>6. PICK j \in 1 .. m : o[j] = g[k]
  BY <1>4
<1>7. ~(j < k)
  <2> SUFFICES ASSUME j < k PROVE FALSE
    OBVIOUS
  <2>1. j \in 1 .. l
    BY <1>4
  <2>2. g[j] = g[k] /\ g[j] < g[k] /\ g[j] \in Nat
    BY <1>4, <1>5, <1>6, <2>1
  <2>3. QED
    BY <2>2
<1>8. k \in 1 .. m
  BY <1>4, <1>7
<1>9. PICK i \in 1 .. l : g[i] = o[k]
  BY <1>8
<1>10. ~(i < k)
  <2> SUFFICES ASSUME i < k PROVE FALSE
    OBVIOUS
  <2>1. i \in 1 .. m /\ o[i] = g[i]
    BY <1>5, <1>8
  <2>2. o[i] = o[k] /\ o[i] < o[k] /\ o[k] \in Nat
    BY <1>8, <1>9, <2>1
  <2>3. QED
    BY <2>2
<1>11. g[i] = o[k] /\ o[j] = g[k] /\ g[i] \in Nat /\ g[k] \in Nat
  BY <1>4, <1>6, <1>9
<1>12. i = k \/ g[k] < g[i]
  BY <1>4, <1>10
<1>13. j = k \/ o[k] < o[j]
  BY <1>7, <1>8
<1>14. QED
  BY <1>4, <1>8, <1>11, <1>12, <1>13

(* So there is only one.                                                   *)
LEMMA OneEnumeration ==
    ASSUME NEW S, NEW l \in Nat, NEW m \in Nat, NEW g, NEW o,
           S \subseteq Nat, Enumerates(g, l, S), Enumerates(o, m, S)
    PROVE  l = m /\ Begins(g, l, o, m)
<1>1. Begins(g, l, o, m) /\ Begins(o, m, g, l)
  BY EnumerationBegins
<1>2. (l = 0 \/ l \in 1 .. l) /\ (m = 0 \/ m \in 1 .. m)
  OBVIOUS
<1>3. l <= m /\ m <= l
  BY <1>1, <1>2 DEF Begins
<1>4. QED
  BY <1>1, <1>3

(* Two sequences keep the same if the positions kept correspond, in order. *)
LEMMA SameKept ==
    ASSUME NEW n \in Nat, NEW s, NEW D, NEW r, NEW p,
           NEW m \in Nat, NEW t, NEW E, NEW q, NEW o,
           NEW f \in [(1 .. n) \ D -> (1 .. m) \ E],
           Selection(s, n, D, r, p), Selection(t, m, E, q, o),
           \A i, j \in (1 .. n) \ D : i < j => f[i] < f[j],
           \A j \in (1 .. m) \ E : \E i \in (1 .. n) \ D : f[i] = j,
           \A i \in (1 .. n) \ D : t[f[i]] = s[i]
    PROVE  r = q
<1> DEFINE A == (1 .. n) \ D
           S == (1 .. m) \ E
<1>1. PICK l \in Nat : l = Len(r)
  BY DEF Selection
<1>2. PICK k \in Nat : k = Len(q)
  BY DEF Selection
<1>3. /\ r = [c \in 1 .. l |-> s[p[c]]]
      /\ p \in [1 .. l -> A]
      /\ \A c, d \in 1 .. l : c < d => p[c] < p[d]
      /\ \A i \in A : \E c \in 1 .. l : p[c] = i
  BY <1>1 DEF Selection
<1>4. /\ q = [c \in 1 .. k |-> t[o[c]]]
      /\ o \in [1 .. k -> S]
      /\ \A c, d \in 1 .. k : c < d => o[c] < o[d]
      /\ \A j \in S : \E c \in 1 .. k : o[c] = j
  BY <1>2 DEF Selection
<1>5. S \subseteq Nat /\ A \subseteq Nat
  OBVIOUS
<1>6. /\ f \in [A -> S]
      /\ \A i, j \in A : i < j => f[i] < f[j]
      /\ \A j \in S : \E i \in A : f[i] = j
      /\ \A i \in A : t[f[i]] = s[i]
  OBVIOUS
<1> HIDE DEF A, S
<1> DEFINE g == [c \in 1 .. l |-> f[p[c]]]
<1>7. /\ g \in [1 .. l -> S]
      /\ \A c \in 1 .. l : g[c] = f[p[c]] /\ p[c] \in A
  BY <1>3, <1>6
<1> HIDE DEF g
<1>8. \A c, d \in 1 .. l : c < d => g[c] < g[d]
  <2> TAKE c, d \in 1 .. l
  <2> HAVE c < d
  <2>1. p[c] < p[d] /\ p[c] \in A /\ p[d] \in A
    BY <1>3, <1>7
  <2>2. f[p[c]] < f[p[d]]
    BY <1>6, <2>1
  <2>3. QED
    BY <1>7, <2>2
<1>9. \A x \in S : \E c \in 1 .. l : g[c] = x
  <2> TAKE x \in S
  <2>1. PICK i \in A : f[i] = x
    BY <1>6
  <2>2. PICK c \in 1 .. l : p[c] = i
    BY <1>3
  <2>3. QED
    BY <1>7, <2>1, <2>2
<1>10. Enumerates(o, k, S) /\ Enumerates(g, l, S)
  BY <1>4, <1>7, <1>8, <1>9 DEF Enumerates
<1>11. l = k /\ \A c \in 1 .. l : o[c] = g[c]
  <2>1. l = k /\ Begins(g, l, o, k)
    BY <1>5, <1>10, OneEnumeration
  <2>2. QED
    BY <2>1 DEF Begins
<1>12. \A c \in 1 .. l : s[p[c]] = t[o[c]]
  <2> TAKE c \in 1 .. l
  <2>1. o[c] = f[p[c]] /\ p[c] \in A
    BY <1>7, <1>11
  <2>2. QED
    BY <1>6, <2>1
<1>13. r = [c \in 1 .. l |-> s[p[c]]] /\ q = [c \in 1 .. l |-> t[o[c]]]
  BY <1>3, <1>4, <1>11
<1>14. QED
  BY <1>12, <1>13

(* The last l lines are the same.                                          *)
SameEnd(s, t, l) ==
    /\ l <= Len(s) /\ l <= Len(t)
    /\ \A i \in 1 .. l : t[Len(t) - l + i] = s[Len(s) - l + i]

(* Where nothing is dropped, the last lines stay the last.                 *)
LEMMA LastStay ==
    ASSUME NEW T, NEW s \in Seq(T), NEW D, NEW l \in 0 .. Len(s),
           \A i \in (Len(s) - l + 1) .. Len(s) : i \notin D
    PROVE  Without(s, D) \in Seq(T) /\ SameEnd(s, Without(s, D), l)
<1> DEFINE n == Len(s)
           r == Without(s, D)
<1>0. r \in Seq(T) /\ \E p : Selection(s, n, D, r, p)
  BY WithoutType
<1>10. n \in Nat /\ l \in 0 .. n /\ \A i \in (n - l + 1) .. n : i \notin D
  OBVIOUS
<1> HIDE DEF n, r
<1>11. PICK p : Selection(s, n, D, r, p)
  BY <1>0
<1>1. PICK m \in Nat : m = Len(r)
  BY <1>0
<1>2. /\ r = [k \in 1 .. m |-> s[p[k]]]
      /\ p \in [1 .. m -> (1 .. n) \ D]
      /\ \A c, d \in 1 .. m : c < d => p[c] < p[d]
      /\ \A i \in (1 .. n) \ D : \E k \in 1 .. m : p[k] = i
  BY <1>1, <1>11 DEF Selection
<1>3. \A k \in 1 .. m : p[k] \in 1 .. n /\ r[k] = s[p[k]]
  BY <1>2
<1> DEFINE Good(d) == d < m /\ p[m - d] = n - d
           Bad == {d \in 0 .. l - 1 : ~Good(d)}
<1>4. Bad \subseteq Nat /\ \A d \in 0 .. l - 1 : d \notin Bad => Good(d)
  OBVIOUS
<1>5. Bad = {}
  <2> SUFFICES ASSUME Bad # {} PROVE FALSE
    OBVIOUS
  <2>1. PICK d \in Bad : \A x \in Bad : d <= x
    <3> HIDE DEF Bad
    <3>1. QED
      BY <1>4, Least
  <2>2. d \in 0 .. l - 1 /\ ~Good(d)
    OBVIOUS
  <2> HIDE DEF Bad
  <2>3. n - d \in (1 .. n) \ D
    <3>1. n - d \in (n - l + 1) .. n /\ n - d \in 1 .. n
      BY <1>10, <2>2
    <3>2. QED
      BY <1>10, <3>1
  <2>4. PICK k \in 1 .. m : p[k] = n - d
    BY <1>2, <2>3
  <2>5. CASE d = 0
    <3>1. k = m \/ p[k] < p[m]
      BY <1>2
    <3>2. m \in 1 .. m /\ p[m] \in 1 .. n
      BY <1>3
    <3>3. k = m
      BY <1>10, <2>4, <2>5, <3>1, <3>2
    <3>4. QED
      BY <2>2, <2>4, <2>5, <3>2, <3>3
  <2>6. CASE d # 0
    <3>1. d - 1 \in 0 .. l - 1 /\ d - 1 \notin Bad
      BY <2>1, <2>2, <2>6
    <3>2. d - 1 < m /\ p[m - (d - 1)] = n - (d - 1)
      BY <1>4, <3>1
    <3> DEFINE c == m - (d - 1)
    <3>3. c \in 1 .. m /\ p[c] = n - d + 1
      BY <1>10, <2>2, <3>1, <3>2
    <3> HIDE DEF c
    <3>4. p[c] - 1 \in 1 .. n /\ p[c] - 1 \notin D
      <4>1. p[c] - 1 = n - d
        BY <1>10, <2>2, <3>3
      <4>2. QED
        BY <2>3, <4>1
    <3>5. c - 1 \in 1 .. m /\ p[c - 1] = p[c] - 1
      <4>1. c \in 1 .. Len(r)
        BY <1>1, <3>3
      <4>2. c - 1 \in 1 .. Len(r) /\ p[c - 1] = p[c] - 1
        BY <1>10, <1>11, <3>4, <4>1, PreviousStays
      <4>3. QED
        BY <1>1, <4>2
    <3>6. c - 1 = m - d
      BY <2>2 DEF c
    <3>7. m - d \in 1 .. m /\ p[m - d] = n - d
      BY <1>10, <2>2, <3>3, <3>5, <3>6
    <3>8. d < m
      BY <2>2, <3>7
    <3>9. QED
      BY <2>2, <3>7, <3>8
  <2>7. QED
    BY <2>5, <2>6
<1>6. \A d \in 0 .. l - 1 : d < m /\ p[m - d] = n - d
  BY <1>4, <1>5
<1> HIDE DEF Good, Bad
<1>7. l <= m
  <2>1. l = 0 \/ l - 1 \in 0 .. l - 1
    BY <1>10
  <2>2. QED
    BY <1>6, <2>1
<1>8. \A i \in 1 .. l : r[m - l + i] = s[n - l + i]
  <2> TAKE i \in 1 .. l
  <2> DEFINE d == l - i
  <2>1. d \in 0 .. l - 1 /\ m - l + i = m - d /\ n - l + i = n - d /\ m - d \in 1 .. m
    BY <1>7, <1>10
  <2> HIDE DEF d
  <2>2. p[m - d] = n - d
    BY <1>6, <2>1
  <2>3. QED
    BY <1>3, <2>1, <2>2
<1>9. QED
  BY <1>0, <1>1, <1>7, <1>8, <1>10 DEF SameEnd, n, r

--------------------------------------------------------------------------------
(* How often something occurs.                                             *)

LEMMA SameCount ==
    ASSUME NEW A, NEW B, IsFiniteSet(A), NEW f,
           \A x \in A : f[x] \in B,
           \A x, y \in A : f[x] = f[y] => x = y,
           \A z \in B : \E x \in A : f[x] = z
    PROVE  IsFiniteSet(B) /\ Cardinality(B) = Cardinality(A)
<1> DEFINE g == [x \in A |-> f[x]]
<1>1. g \in [A -> B] /\ \A x \in A : g[x] = f[x]
  OBVIOUS
<1> HIDE DEF g
<1>2. g \in Injection(A, B)
  BY <1>1 DEF Injection, IsInjective
<1>3. g \in Surjection(A, B)
  <2>1. \A z \in B : \E x \in A : g[x] = z
    BY <1>1
  <2>2. QED
    BY <1>1, <2>1 DEF Surjection
<1>4. ExistsBijection(A, B)
  BY <1>2, <1>3 DEF ExistsBijection, Bijection
<1>5. QED
  BY <1>4, FS_Bijection

LEMMA TimesCounts ==
    ASSUME NEW T, NEW s \in Seq(T), NEW e
    PROVE  LET D == {i \in 1 .. Len(s) : s[i] = e}
           IN  /\ Times(e, s) = Cardinality(D) /\ IsFiniteSet(D)
               /\ Times(e, s) \in Nat
               /\ Times(e, s) = 0 <=> \A i \in 1 .. Len(s) : s[i] # e
<1> DEFINE D == {i \in 1 .. Len(s) : s[i] = e}
<1>1. DOMAIN s = 1 .. Len(s) /\ Len(s) \in Nat
  OBVIOUS
<1>2. Times(e, s) = Cardinality(D)
  BY <1>1 DEF Times
<1>3. IsFiniteSet(D)
  <2>1. IsFiniteSet(1 .. Len(s)) /\ D \in SUBSET (1 .. Len(s))
    BY <1>1, FS_Interval
  <2> HIDE DEF D
  <2>2. QED
    BY <2>1, FS_Subset
<1>4. D = {} <=> \A i \in 1 .. Len(s) : s[i] # e
  OBVIOUS
<1> HIDE DEF D
<1>5. Cardinality(D) \in Nat /\ (Cardinality(D) = 0 <=> D = {})
  BY <1>3, FS_CardinalityType, FS_EmptySet
<1>6. QED
  BY <1>2, <1>3, <1>4, <1>5 DEF D

LEMMA TimesOfElements ==
    ASSUME NEW T, NEW s \in Seq(T), NEW e
    PROVE  e \in ToSet(s) <=> Times(e, s) > 0
<1>1. Times(e, s) \in Nat /\ (Times(e, s) = 0 <=> \A i \in 1 .. Len(s) : s[i] # e)
  BY TimesCounts
<1>2. ToSet(s) = {s[i] : i \in 1 .. Len(s)}
  BY SeqOfItself
<1>3. e \in ToSet(s) <=> \E i \in 1 .. Len(s) : s[i] = e
  BY <1>2
<1> HIDE DEF Times
<1>4. QED
  BY <1>1, <1>3

LEMMA TimesConcat ==
    ASSUME NEW T, NEW s \in Seq(T), NEW t \in Seq(T), NEW e
    PROVE  Times(e, s \o t) = Times(e, s) + Times(e, t)
<1> DEFINE m == Len(s)
           n == Len(t)
           r == s \o t
           A == {i \in 1 .. m : s[i] = e}
           B == {i \in 1 .. n : t[i] = e}
           C == {i \in m + 1 .. m + n : r[i] = e}
           D == {i \in 1 .. m + n : r[i] = e}
           f == [i \in 1 .. n |-> m + i]
<1>1. m \in Nat /\ n \in Nat
  OBVIOUS
<1>2. /\ r \in Seq(T) /\ Len(r) = m + n
      /\ \A i \in 1 .. m + n : r[i] = IF i <= m THEN s[i] ELSE t[i - m]
  BY ConcatProperties
<1>3. Times(e, s) = Cardinality(A) /\ IsFiniteSet(A)
  BY TimesCounts
<1>4. Times(e, t) = Cardinality(B) /\ IsFiniteSet(B)
  BY TimesCounts
<1>5. Times(e, r) = Cardinality(D)
  BY <1>2, TimesCounts
<1> HIDE DEF r, m, n
<1>6. D = A \cup C /\ A \cap C = {}
  <2>1. \A i : i \in D <=> i \in A \/ i \in C
    BY <1>1, <1>2
  <2>2. \A i : ~(i \in A /\ i \in C)
    BY <1>1
  <2> HIDE DEF A, C, D
  <2>3. QED
    BY <2>1, <2>2
<1>7. IsFiniteSet(C) /\ Cardinality(C) = Cardinality(B)
  <2>1. \A i \in B : f[i] \in C
    <3> TAKE i \in B
    <3>1. i \in 1 .. n /\ t[i] = e /\ f[i] = m + i
      OBVIOUS
    <3>2. m + i \in m + 1 .. m + n /\ m + i \in 1 .. m + n /\ ~(m + i <= m) /\ (m + i) - m = i
      BY <1>1, <3>1
    <3>3. r[m + i] = e
      BY <1>2, <3>1, <3>2
    <3>4. QED
      BY <3>1, <3>2, <3>3
  <2>2. \A i, j \in B : f[i] = f[j] => i = j
    BY <1>1
  <2>3. \A k \in C : \E i \in B : f[i] = k
    <3> TAKE k \in C
    <3>1. k \in m + 1 .. m + n /\ r[k] = e
      OBVIOUS
    <3> DEFINE i == k - m
    <3>2. i \in 1 .. n /\ m + i = k /\ k \in 1 .. m + n /\ ~(k <= m)
      BY <1>1, <3>1
    <3>3. t[i] = e
      BY <1>2, <3>1, <3>2
    <3> HIDE DEF i
    <3>4. i \in B /\ f[i] = k
      BY <3>2, <3>3
    <3>5. QED
      BY <3>4
  <2> HIDE DEF B, C, f
  <2>4. QED
    BY <1>4, <2>1, <2>2, <2>3, SameCount
<1> HIDE DEF A, B, C, D, f
<1>8. Cardinality(D) = Cardinality(A) + Cardinality(C)
  <2>1. Cardinality(A \cup C) = Cardinality(A) + Cardinality(C) - Cardinality(A \cap C)
    BY <1>3, <1>7, FS_Union
  <2>2. Cardinality(A \cap C) = 0 /\ Cardinality(A) \in Nat /\ Cardinality(C) \in Nat
    BY <1>3, <1>6, <1>7, FS_EmptySet, FS_CardinalityType
  <2>3. QED
    BY <1>6, <2>1, <2>2
<1>9. QED
  BY <1>3, <1>4, <1>5, <1>7, <1>8 DEF r

(* What is kept is kept as often as it was there.                          *)
LEMMA TimesKept ==
    ASSUME NEW T, NEW s \in Seq(T), NEW e, NEW D,
           \A i \in 1 .. Len(s) : s[i] = e => i \notin D
    PROVE  Times(e, Without(s, D)) = Times(e, s)
<1> DEFINE n == Len(s)
           r == Without(s, D)
           A == {k \in 1 .. Len(r) : r[k] = e}
           B == {i \in 1 .. n : s[i] = e}
<1>1. r \in Seq(T) /\ \E p : Selection(s, n, D, r, p)
  BY WithoutType
<1>2. Times(e, s) = Cardinality(B)
  BY TimesCounts
<1>3. \A i \in 1 .. n : s[i] = e => i \in (1 .. n) \ D
  OBVIOUS
<1> HIDE DEF r, n
<1>4. Times(e, r) = Cardinality(A) /\ IsFiniteSet(A)
  BY <1>1, TimesCounts
<1>5. PICK p : Selection(s, n, D, r, p)
  BY <1>1
<1>6. PICK m \in Nat : m = Len(r)
  BY <1>1
<1>7. /\ \A k \in 1 .. m : r[k] = s[p[k]] /\ p[k] \in 1 .. n
      /\ \A j, k \in 1 .. m : j < k => p[j] < p[k]
      /\ \A i \in (1 .. n) \ D : \E k \in 1 .. m : p[k] = i
  BY <1>5, <1>6 DEF Selection
<1>8. \A k \in A : p[k] \in B
  BY <1>6, <1>7
<1>9. \A j, k \in A : p[j] = p[k] => j = k
  <2> TAKE j, k \in A
  <2>1. j \in 1 .. m /\ k \in 1 .. m
    BY <1>6
  <2>2. (j < k => p[j] < p[k]) /\ (k < j => p[k] < p[j])
    BY <1>7, <2>1
  <2>3. p[j] \in Int /\ p[k] \in Int
    BY <1>7, <2>1
  <2>4. QED
    BY <2>1, <2>2, <2>3
<1>10. \A i \in B : \E k \in A : p[k] = i
  <2> TAKE i \in B
  <2>1. i \in 1 .. n /\ s[i] = e
    OBVIOUS
  <2>2. PICK k \in 1 .. m : p[k] = i
    BY <1>3, <1>7, <2>1
  <2>3. k \in A
    BY <1>6, <1>7, <2>1, <2>2
  <2>4. QED
    BY <2>2, <2>3
<1> HIDE DEF A, B
<1>11. Cardinality(B) = Cardinality(A)
  BY <1>4, <1>8, <1>9, <1>10, SameCount
<1>12. QED
  BY <1>2, <1>4, <1>11 DEF r

LEMMA TimesDropped ==
    ASSUME NEW T, NEW s \in Seq(T), NEW e, NEW D,
           \A i \in 1 .. Len(s) : s[i] = e => i \in D
    PROVE  Times(e, Without(s, D)) = 0
<1> DEFINE n == Len(s)
           r == Without(s, D)
<1>1. r \in Seq(T) /\ \E p : Selection(s, n, D, r, p)
  BY WithoutType
<1>2. \A i \in 1 .. n : s[i] = e => i \in D
  OBVIOUS
<1> HIDE DEF r, n
<1>3. PICK p : Selection(s, n, D, r, p)
  BY <1>1
<1>4. \A k \in 1 .. Len(r) : r[k] = s[p[k]] /\ p[k] \in 1 .. n /\ p[k] \notin D
  BY <1>3 DEF Selection
<1>5. \A k \in 1 .. Len(r) : r[k] # e
  BY <1>2, <1>4
<1>6. Times(e, r) = 0
  BY <1>1, <1>5, TimesCounts
<1>7. QED
  BY <1>6 DEF r

(* A sequence that enumerates a set.                                       *)
LEMMA SetToSeqsLists ==
    ASSUME NEW S, IsFiniteSet(S), NEW s \in SetToSeqs(S)
    PROVE  s \in Seq(S) /\ ToSet(s) = S /\ \A e \in S : Times(e, s) = 1
<1> DEFINE n == Cardinality(S)
<1>1. n \in Nat
  BY FS_CardinalityType
<1>2. s \in [1 .. n -> S] /\ \A i, j \in 1 .. n : i # j => s[i] # s[j]
  BY DEF SetToSeqs
<1> HIDE DEF n
<1>3. s \in Seq(S) /\ Len(s) = n /\ DOMAIN s = 1 .. n
  BY <1>1, <1>2
<1>4. s \in Injection(1 .. n, S)
  BY <1>2, <1>3 DEF Injection, IsInjective
<1>5. Cardinality(1 .. n) = n
  <2>1. Cardinality(1 .. n) = IF 1 > n THEN 0 ELSE n - 1 + 1
    BY <1>1, FS_Interval
  <2>2. QED
    BY <1>1, <2>1
<1>6. s \in Surjection(1 .. n, S)
  <2>1. Cardinality(1 .. n) = Cardinality(S) <=> s \in Surjection(1 .. n, S)
    BY <1>4, FS_Injection
  <2>2. QED
    BY <1>5, <2>1 DEF n
<1>7. \A e \in S : \E i \in 1 .. n : s[i] = e
  BY <1>6 DEF Surjection
<1>8. ToSet(s) = S
  <2>1. ToSet(s) = {s[i] : i \in 1 .. n}
    BY <1>3, SeqOfItself
  <2>2. QED
    BY <1>2, <1>7, <2>1
<1>9. ASSUME NEW e \in S PROVE Times(e, s) = 1
  <2>1. PICK i \in 1 .. n : s[i] = e
    BY <1>7, <1>9
  <2>2. {k \in 1 .. n : s[k] = e} = {i}
    BY <1>2, <2>1
  <2>3. Times(e, s) = Cardinality({i})
    BY <1>3, <2>2 DEF Times
  <2>4. QED
    BY <2>3, FS_Singleton
<1>10. QED
  BY <1>3, <1>8, <1>9

(* A finite set of numbers can be listed in ascending order.               *)
LEMMA AscendingList ==
    ASSUME NEW S, S \subseteq Nat, IsFiniteSet(S)
    PROVE  \E s \in SetToSeqs(S) : \A i, j \in DOMAIN s : i < j => s[i] < s[j]
<1> DEFINE n == Cardinality(S)
           upTo(x) == {y \in S : y <= x}
           rank == [x \in S |-> Cardinality(upTo(x))]
<1>1. n \in Nat /\ \A x \in S : x \in Nat
  BY FS_CardinalityType
<1>2. \A x \in S : IsFiniteSet(upTo(x)) /\ rank[x] \in 1 .. n
  <2> TAKE x \in S
  <2> DEFINE U == upTo(x)
  <2>1. U \in SUBSET S /\ x \in U /\ rank[x] = Cardinality(U)
    BY <1>1
  <2> HIDE DEF U, n, rank
  <2>2. IsFiniteSet(U) /\ Cardinality(U) <= n /\ Cardinality(U) \in Nat
    BY <2>1, FS_Subset, FS_CardinalityType DEF n
  <2>3. Cardinality(U) # 0
    BY <2>1, <2>2, FS_EmptySet
  <2>4. IsFiniteSet(U) /\ rank[x] \in 1 .. n
    BY <1>1, <2>1, <2>2, <2>3
  <2>5. QED
    BY <2>4 DEF U
<1>3. ASSUME NEW x \in S, NEW y \in S, x < y PROVE rank[x] < rank[y]
  <2> DEFINE U == upTo(x)
             V == upTo(y)
  <2>1. U \in SUBSET V /\ y \in V /\ y \notin U
    <3>1. x \in Nat /\ y \in Nat /\ x < y /\ \A z \in S : z \in Nat
      BY <1>1, <1>3
    <3>2. \A z \in S : z <= x => z <= y
      BY <3>1
    <3>3. U \in SUBSET V
      BY <3>2
    <3>4. y <= y /\ ~(y <= x)
      BY <3>1
    <3>5. QED
      BY <3>3, <3>4
  <2>2. IsFiniteSet(V) /\ IsFiniteSet(U) /\ rank[x] = Cardinality(U) /\ rank[y] = Cardinality(V)
    BY <1>2
  <2> HIDE DEF U, V, rank
  <2>3. /\ Cardinality(U) <= Cardinality(V) /\ (Cardinality(V) = Cardinality(U) => V = U)
        /\ Cardinality(U) \in Nat /\ Cardinality(V) \in Nat
    BY <2>1, <2>2, FS_Subset, FS_CardinalityType
  <2>4. Cardinality(V) # Cardinality(U)
    BY <2>1, <2>3
  <2>5. QED
    BY <2>2, <2>3, <2>4
<1> HIDE DEF rank, upTo, n
<1>4. \A x, y \in S : rank[x] = rank[y] => x = y
  <2> TAKE x, y \in S
  <2>1. x < y \/ y < x \/ x = y
    BY <1>1
  <2>2. rank[x] \in Int /\ rank[y] \in Int
    BY <1>2
  <2>3. QED
    BY <1>3, <2>1, <2>2
<1>5. \A i \in 1 .. n : \E x \in S : rank[x] = i
  <2> DEFINE R == [x \in S |-> rank[x]]
  <2>1. R \in Injection(S, 1 .. n)
    BY <1>2, <1>4 DEF Injection, IsInjective
  <2>2. IsFiniteSet(1 .. n) /\ Cardinality(1 .. n) = n
    <3>1. IsFiniteSet(1 .. n) /\ Cardinality(1 .. n) = IF 1 > n THEN 0 ELSE n - 1 + 1
      BY <1>1, FS_Interval
    <3>2. QED
      BY <1>1, <3>1
  <2>3. Cardinality(S) = Cardinality(1 .. n) <=> R \in Surjection(S, 1 .. n)
    BY <2>1, <2>2, FS_Injection
  <2>4. R \in Surjection(S, 1 .. n)
    BY <2>2, <2>3 DEF n
  <2>5. QED
    BY <2>4 DEF Surjection
<1> DEFINE s == [i \in 1 .. n |-> CHOOSE x \in S : rank[x] = i]
<1>6. \A i \in 1 .. n : s[i] \in S /\ rank[s[i]] = i
  BY <1>5
<1>7. s \in [1 .. n -> S] /\ DOMAIN s = 1 .. n
  BY <1>6
<1> HIDE DEF s
<1>8. \A i, j \in 1 .. n : i # j => s[i] # s[j]
  BY <1>6
<1>9. s \in SetToSeqs(S)
  BY <1>7, <1>8 DEF SetToSeqs, n
<1>10. \A i, j \in 1 .. n : i < j => s[i] < s[j]
  <2> SUFFICES ASSUME NEW i \in 1 .. n, NEW j \in 1 .. n, i < j, ~(s[i] < s[j]) PROVE FALSE
    OBVIOUS
  <2>1. s[i] \in S /\ s[j] \in S /\ s[i] \in Nat /\ s[j] \in Nat
    BY <1>1, <1>6
  <2>2. s[j] < s[i] \/ s[j] = s[i]
    BY <2>1
  <2>3. rank[s[j]] < rank[s[i]] \/ s[j] = s[i]
    BY <1>3, <2>1, <2>2
  <2>4. QED
    BY <1>6, <2>3
<1>11. QED
  BY <1>7, <1>9, <1>10

(* What is kept of a list in ascending order ascends.                      *)
LEMMA KeptAscends ==
    ASSUME NEW s \in Seq(Nat), \A i, j \in DOMAIN s : i < j => s[i] < s[j], NEW D
    PROVE  LET r == Without(s, D)
           IN  r \in Seq(Nat) /\ \A i, j \in 1 .. Len(r) : i < j => r[i] < r[j]
<1> DEFINE r == Without(s, D)
<1>1. r \in Seq(Nat) /\ \E p : Selection(s, Len(s), D, r, p)
  BY WithoutType
<1>2. \A i, j \in 1 .. Len(s) : i < j => s[i] < s[j]
  OBVIOUS
<1> HIDE DEF r
<1>3. PICK p : Selection(s, Len(s), D, r, p)
  BY <1>1
<1>4. /\ \A k \in 1 .. Len(r) : r[k] = s[p[k]] /\ p[k] \in 1 .. Len(s)
      /\ \A j, k \in 1 .. Len(r) : j < k => p[j] < p[k]
  BY <1>3 DEF Selection
<1>5. \A j, k \in 1 .. Len(r) : j < k => r[j] < r[k]
  BY <1>2, <1>4
<1>6. QED
  BY <1>1, <1>5 DEF r
================================================================================
