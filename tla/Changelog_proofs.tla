---------------------------- MODULE Changelog_proofs ----------------------------
(***************************************************************************)
(* What the operators of Changelog return, for every changelog.            *)
(***************************************************************************)
EXTENDS Changelog, Selections_proofs

--------------------------------------------------------------------------------
(* The removal of a section.                                               *)

LEMMA TrimRightCuts ==
    ASSUME NEW T, NEW s \in Seq(T)
    PROVE  \E a \in 0 .. Len(s) :
             /\ TrimRight(s) = SubSeq(s, 1, a)
             /\ a > 0 => s[a] # Blank
             /\ \A i \in a + 1 .. Len(s) : s[i] = Blank
<1> DEFINE I == {i \in 1 .. Len(s) : s[i] # Blank}
           a == IF I # {} THEN Max(I) ELSE 0
<1>1. TrimRight(s) = SubSeq(s, 1, a)
  BY DEF TrimRight, SelectLastInSeq
<1>2. Len(s) \in Nat
  OBVIOUS
<1>3. CASE I = {}
  <2>1. a = 0 /\ \A i \in 1 .. Len(s) : s[i] = Blank
    BY <1>3
  <2>2. QED
    BY <1>1, <1>2, <2>1
<1>4. CASE I # {}
  <2>1. a \in I /\ \A k \in I : k <= a
    <3>1. I \subseteq 0 .. Len(s)
      BY <1>2
    <3> HIDE DEF I
    <3>2. QED
      BY <1>2, <1>4, <3>1, MaxIsGreatest
  <2>2. a \in 1 .. Len(s) /\ s[a] # Blank
    BY <2>1
  <2>3. \A i \in a + 1 .. Len(s) : s[i] = Blank
    <3> SUFFICES ASSUME NEW i \in a + 1 .. Len(s), i \in I PROVE FALSE
      BY <1>2, <2>2
    <3> HIDE DEF I
    <3>1. QED
      BY <1>2, <2>1, <2>2
  <2> HIDE DEF a
  <2>4. QED
    BY <1>1, <1>2, <2>2, <2>3
<1>5. QED
  BY <1>3, <1>4

LEMMA TrimLeftCuts ==
    ASSUME NEW T, NEW s \in Seq(T)
    PROVE  \E f \in 1 .. Len(s) + 1 :
             /\ TrimLeft(s) = SubSeq(s, f, Len(s))
             /\ f <= Len(s) => s[f] # Blank
             /\ \A i \in 1 .. f - 1 : s[i] = Blank
<1> DEFINE I == {i \in 1 .. Len(s) : s[i] # Blank}
           first == IF I # {} THEN Min(I) ELSE 0
<1>1. TrimLeft(s) = IF first = 0 THEN <<>> ELSE SubSeq(s, first, Len(s))
  BY DEF TrimLeft, SelectInSeq
<1>2. Len(s) \in Nat
  OBVIOUS
<1>3. CASE I = {}
  <2>1. first = 0 /\ \A i \in 1 .. Len(s) : s[i] = Blank
    BY <1>3
  <2>2. SubSeq(s, Len(s) + 1, Len(s)) = <<>>
    BY <1>2, SubSeqEmpty
  <2>3. Len(s) + 1 \in 1 .. Len(s) + 1 /\ ~(Len(s) + 1 <= Len(s))
        /\ (Len(s) + 1) - 1 = Len(s)
    BY <1>2
  <2>4. TrimLeft(s) = SubSeq(s, Len(s) + 1, Len(s))
    BY <1>1, <2>1, <2>2
  <2> HIDE DEF first
  <2>5. QED
    BY <2>1, <2>3, <2>4
<1>4. CASE I # {}
  <2>1. first \in I /\ \A k \in I : first <= k
    <3>1. I \subseteq Nat
      BY <1>2
    <3> HIDE DEF I
    <3>2. QED
      BY <1>4, <3>1, MinIsLeast
  <2>2. first \in 1 .. Len(s) /\ s[first] # Blank
    BY <2>1
  <2>3. \A i \in 1 .. first - 1 : s[i] = Blank
    <3> SUFFICES ASSUME NEW i \in 1 .. first - 1, i \in I PROVE FALSE
      BY <1>2, <2>2
    <3> HIDE DEF I
    <3>1. QED
      BY <1>2, <2>1, <2>2
  <2> HIDE DEF first
  <2>4. first # 0 /\ first \in 1 .. Len(s) + 1
    BY <1>2, <2>2
  <2>5. QED
    BY <1>1, <2>2, <2>3, <2>4
<1>5. QED
  BY <1>3, <1>4

(* The first start and the first end marker, and what is left of the lines *)
(* above the one and below the other.                                      *)
Cut(s, j, e, a, f) ==
    /\ j \in 1 .. Len(s) /\ s[j] = Start /\ \A i \in 1 .. j - 1 : s[i] # Start
    /\ e \in 1 .. Len(s) /\ s[e] = End /\ \A i \in 1 .. e - 1 : s[i] # End
    /\ a \in 0 .. j - 1 /\ (a > 0 => s[a] # Blank)
    /\ \A i \in a + 1 .. j - 1 : s[i] = Blank
    /\ f \in e + 1 .. Len(s) + 1 /\ (f <= Len(s) => s[f] # Blank)
    /\ \A i \in e + 1 .. f - 1 : s[i] = Blank

Rest(s, a, f) == SubSeq(s, 1, a) \o <<Blank>> \o SubSeq(s, f, Len(s))

LEMMA SubSeqOf ==
    ASSUME NEW T, NEW s \in Seq(T), NEW m \in Nat \ {0}, NEW n \in Nat, n <= Len(s),
           NEW i \in Nat \ {0}, NEW k \in Int, k <= n - m + 1
    PROVE  SubSeq(SubSeq(s, m, n), i, k) = SubSeq(s, m + i - 1, m + k - 1)
<1> DEFINE t == SubSeq(s, m, n)
           l == SubSeq(t, i, k)
           r == SubSeq(s, m + i - 1, m + k - 1)
<1>1. \A x \in m .. n : s[x] \in T
  OBVIOUS
<1>2. \A x \in 1 .. n - m + 1 : t[x] = s[m + x - 1]
  BY <1>1, SubSeqProperties
<1> HIDE DEF t
<1>3. \A x \in i .. k : t[x] = s[m + x - 1] /\ t[x] \in T
  <2> TAKE x \in i .. k
  <2>1. x \in 1 .. n - m + 1 /\ m + x - 1 \in m .. n
    OBVIOUS
  <2>2. QED
    BY <1>1, <1>2, <2>1
<1>4. /\ l \in Seq(T)
      /\ Len(l) = IF i <= k THEN k - i + 1 ELSE 0
      /\ \A x \in 1 .. k - i + 1 : l[x] = t[i + x - 1]
  BY <1>3, SubSeqProperties
<1>5. \A x \in m + i - 1 .. m + k - 1 : s[x] \in T
  <2> TAKE x \in m + i - 1 .. m + k - 1
  <2>1. x \in m .. n
    OBVIOUS
  <2>2. QED
    BY <1>1, <2>1
<1>6. /\ r \in Seq(T)
      /\ Len(r) = IF m + i - 1 <= m + k - 1 THEN (m + k - 1) - (m + i - 1) + 1 ELSE 0
      /\ \A x \in 1 .. (m + k - 1) - (m + i - 1) + 1 : r[x] = s[(m + i - 1) + x - 1]
  <2>1. m + i - 1 \in Int /\ m + k - 1 \in Int
    OBVIOUS
  <2>2. QED
    BY <1>5, <2>1, SubSeqProperties
<1> HIDE DEF l, r
<1>7. Len(l) = Len(r)
  BY <1>4, <1>6
<1>8. \A x \in 1 .. Len(l) : l[x] = r[x]
  <2> TAKE x \in 1 .. Len(l)
  <2>1. x \in 1 .. k - i + 1 /\ i + x - 1 \in i .. k
    BY <1>4
  <2>2. l[x] = s[m + (i + x - 1) - 1]
    BY <1>3, <1>4, <2>1
  <2>3. x \in 1 .. (m + k - 1) - (m + i - 1) + 1
    BY <2>1
  <2>4. r[x] = s[(m + i - 1) + x - 1]
    BY <1>6, <2>3
  <2>5. m + (i + x - 1) - 1 = (m + i - 1) + x - 1
    BY <2>1
  <2>6. QED
    BY <2>2, <2>4, <2>5
<1>9. QED
  BY <1>4, <1>6, <1>7, <1>8 DEF l, r, t

LEMMA SectionRemoved ==
    ASSUME NEW T, NEW s \in Seq(T)
    PROVE  \/ /\ RemoveUpstreamSection(s) = s
              /\ \/ \A i \in 1 .. Len(s) : s[i] # Start
                 \/ \A i \in 1 .. Len(s) : s[i] # End
           \/ \E j, e, a, f : /\ Cut(s, j, e, a, f)
                              /\ RemoveUpstreamSection(s) = Rest(s, a, f)
<1> DEFINE S == {i \in 1 .. Len(s) : s[i] = Start}
           E == {i \in 1 .. Len(s) : s[i] = End}
           j == IF S # {} THEN Min(S) ELSE 0
           e == IF E # {} THEN Min(E) ELSE 0
<1>1. RemoveUpstreamSection(s)
        = IF j = 0 \/ e = 0 THEN s
          ELSE TrimRight(SubSeq(s, 1, j - 1)) \o <<Blank>>
                 \o TrimLeft(SubSeq(s, e + 1, Len(s)))
  BY DEF RemoveUpstreamSection, SelectInSeq
<1>2. CASE S = {} \/ E = {}
  BY <1>1, <1>2
<1>3. CASE S # {} /\ E # {}
  <2>0. Len(s) \in Nat /\ \A i \in 1 .. Len(s) : s[i] \in T
    OBVIOUS
  <2>1. S \subseteq Nat /\ E \subseteq Nat
    BY <2>0
  <2>2. j \in S /\ \A k \in S : j <= k
    <3> HIDE DEF S
    <3>1. QED
      BY <1>3, <2>1, MinIsLeast
  <2>3. e \in E /\ \A k \in E : e <= k
    <3> HIDE DEF E
    <3>1. QED
      BY <1>3, <2>1, MinIsLeast
  <2>4. /\ j \in 1 .. Len(s) /\ s[j] = Start
        /\ e \in 1 .. Len(s) /\ s[e] = End
    BY <2>2, <2>3
  <2>5. \A i \in 1 .. j - 1 : s[i] # Start
    <3> SUFFICES ASSUME NEW i \in 1 .. j - 1, i \in S PROVE FALSE
      BY SMTT(30), <2>0, <2>4
    <3> HIDE DEF S
    <3>1. QED
      BY <2>0, <2>2, <2>4
  <2>6. \A i \in 1 .. e - 1 : s[i] # End
    <3> SUFFICES ASSUME NEW i \in 1 .. e - 1, i \in E PROVE FALSE
      BY <2>0, <2>4
    <3> HIDE DEF E
    <3>1. QED
      BY <2>0, <2>3, <2>4
  <2> DEFINE u == SubSeq(s, 1, j - 1)
             v == SubSeq(s, e + 1, Len(s))
  <2> HIDE DEF S, E, j, e
  <2>7. RemoveUpstreamSection(s) = TrimRight(u) \o <<Blank>> \o TrimLeft(v)
    <3>1. j # 0 /\ e # 0
      BY <2>4
    <3>2. QED
      BY <1>1, <3>1
  <2>8. u \in Seq(T) /\ Len(u) = j - 1 /\ \A i \in 1 .. j - 1 : u[i] = s[i]
    <3>1. \A i \in 1 .. j - 1 : s[i] \in T
      BY <2>0, <2>4
    <3>2. 1 \in Int /\ j - 1 \in Int
      BY <2>4
    <3>3. /\ u \in Seq(T) /\ Len(u) = IF 1 <= j - 1 THEN (j - 1) - 1 + 1 ELSE 0
          /\ \A i \in 1 .. (j - 1) - 1 + 1 : u[i] = s[1 + i - 1]
      BY <3>1, <3>2, SubSeqProperties
    <3> HIDE DEF u
    <3>4. QED
      BY <2>4, <3>3
  <2>9. v \in Seq(T) /\ Len(v) = Len(s) - e /\ \A i \in 1 .. Len(s) - e : v[i] = s[e + i]
    <3>1. \A i \in e + 1 .. Len(s) : s[i] \in T
      BY <2>0, <2>4
    <3>2. e + 1 \in Int /\ Len(s) \in Int
      BY <2>0, <2>4
    <3>3. /\ v \in Seq(T)
          /\ Len(v) = IF e + 1 <= Len(s) THEN Len(s) - (e + 1) + 1 ELSE 0
          /\ \A i \in 1 .. Len(s) - (e + 1) + 1 : v[i] = s[(e + 1) + i - 1]
      BY <3>1, <3>2, SubSeqProperties
    <3> HIDE DEF v
    <3>4. Len(v) = Len(s) - e
      BY <2>0, <2>4, <3>3
    <3>5. \A i \in 1 .. Len(s) - e : v[i] = s[e + i]
      <4> TAKE i \in 1 .. Len(s) - e
      <4>1. i \in 1 .. Len(s) - (e + 1) + 1 /\ (e + 1) + i - 1 = e + i
        BY <2>0, <2>4
      <4>2. QED
        BY <3>3, <4>1
    <3>6. QED
      BY <3>3, <3>4, <3>5
  <2>10. PICK a \in 0 .. Len(u) : /\ TrimRight(u) = SubSeq(u, 1, a)
                                  /\ a > 0 => u[a] # Blank
                                  /\ \A i \in a + 1 .. Len(u) : u[i] = Blank
    BY <2>8, TrimRightCuts
  <2>11. PICK g \in 1 .. Len(v) + 1 : /\ TrimLeft(v) = SubSeq(v, g, Len(v))
                                      /\ g <= Len(v) => v[g] # Blank
                                      /\ \A i \in 1 .. g - 1 : v[i] = Blank
    BY <2>9, TrimLeftCuts
  <2>12. SubSeq(u, 1, a) = SubSeq(s, 1, a)
    <3>1. SubSeq(SubSeq(s, 1, j - 1), 1, a) = SubSeq(s, 1 + 1 - 1, 1 + a - 1)
      <4>1. /\ 1 \in Nat \ {0} /\ j - 1 \in Nat /\ j - 1 <= Len(s)
            /\ a \in Int /\ a <= (j - 1) - 1 + 1
        BY <2>0, <2>4, <2>8
      <4>2. QED
        BY <4>1, SubSeqOf
    <3>2. 1 + 1 - 1 = 1 /\ 1 + a - 1 = a
      BY <2>8, <2>4
    <3>3. QED
      BY <3>1, <3>2
  <2>13. SubSeq(v, g, Len(v)) = SubSeq(s, e + g, Len(s))
    <3>1. SubSeq(SubSeq(s, e + 1, Len(s)), g, Len(s) - e)
            = SubSeq(s, (e + 1) + g - 1, (e + 1) + (Len(s) - e) - 1)
      <4> DEFINE m == e + 1
                 k == Len(s) - e
      <4>1. /\ m \in Nat \ {0} /\ Len(s) \in Nat /\ Len(s) <= Len(s)
            /\ g \in Nat \ {0}
            /\ k \in Int /\ k <= Len(s) - m + 1
        BY <2>0, <2>4, <2>9
      <4> HIDE DEF m, k
      <4>2. SubSeq(SubSeq(s, m, Len(s)), g, k) = SubSeq(s, m + g - 1, m + k - 1)
        BY <4>1, SubSeqOf
      <4>3. QED
        BY <4>2 DEF m, k
    <3>2. (e + 1) + g - 1 = e + g /\ (e + 1) + (Len(s) - e) - 1 = Len(s)
      BY <2>0, <2>4, <2>9
    <3>3. QED
      BY <2>9, <3>1, <3>2
  <2> HIDE DEF u, v
  <2>14. RemoveUpstreamSection(s) = Rest(s, a, e + g)
    BY <2>7, <2>10, <2>11, <2>12, <2>13 DEF Rest
  <2>15. /\ a \in 0 .. j - 1 /\ (a > 0 => s[a] # Blank)
         /\ \A i \in a + 1 .. j - 1 : s[i] = Blank
    BY <2>4, <2>8, <2>10
  <2>16. e + g \in e + 1 .. Len(s) + 1 /\ (e + g <= Len(s) => s[e + g] # Blank)
    BY <2>0, <2>4, <2>9, <2>11
  <2>17. \A i \in e + 1 .. (e + g) - 1 : s[i] = Blank
    <3> TAKE i \in e + 1 .. (e + g) - 1
    <3>1. i - e \in 1 .. g - 1 /\ i - e \in 1 .. Len(s) - e /\ e + (i - e) = i
      BY <2>0, <2>4, <2>9, <2>11
    <3>2. QED
      BY <2>9, <2>11, <3>1
  <2>18. Cut(s, j, e, a, e + g)
    BY <2>4, <2>5, <2>6, <2>15, <2>16, <2>17 DEF Cut
  <2>19. QED
    BY <2>14, <2>18
<1>4. QED
  BY <1>2, <1>3

(* The lines of the rest, one by one.                                      *)
LEMMA RestLines ==
    ASSUME NEW T, NEW s \in Seq(T), Blank \in T,
           NEW a \in 0 .. Len(s), NEW f \in 1 .. Len(s) + 1
    PROVE  /\ Rest(s, a, f) \in Seq(T)
           /\ Len(Rest(s, a, f)) = a + 1 + (Len(s) + 1 - f)
           /\ \A k \in 1 .. a : Rest(s, a, f)[k] = s[k]
           /\ Rest(s, a, f)[a + 1] = Blank
           /\ \A k \in a + 2 .. a + 1 + (Len(s) + 1 - f) :
                 Rest(s, a, f)[k] = s[(k - a - 2) + f]
<1> DEFINE n == Len(s)
           u == SubSeq(s, 1, a)
           v == SubSeq(s, f, n)
           b == <<Blank>>
<1>1. n \in Nat /\ \A i \in 1 .. n : s[i] \in T
  OBVIOUS
<1>2. u \in Seq(T) /\ Len(u) = a /\ \A i \in 1 .. a : u[i] = s[i]
  <2>1. \A i \in 1 .. a : s[i] \in T
    BY <1>1
  <2>2. /\ u \in Seq(T) /\ Len(u) = IF 1 <= a THEN a - 1 + 1 ELSE 0
        /\ \A i \in 1 .. a - 1 + 1 : u[i] = s[1 + i - 1]
    BY <2>1, SubSeqProperties
  <2> HIDE DEF u
  <2>3. QED
    BY <2>2
<1>3. /\ v \in Seq(T) /\ Len(v) = n + 1 - f
      /\ \A i \in 1 .. n + 1 - f : v[i] = s[f + i - 1]
  <2>1. \A i \in f .. n : s[i] \in T
    BY <1>1
  <2>2. /\ v \in Seq(T) /\ Len(v) = IF f <= n THEN n - f + 1 ELSE 0
        /\ \A i \in 1 .. n - f + 1 : v[i] = s[f + i - 1]
    BY <1>1, <2>1, SubSeqProperties
  <2> HIDE DEF v
  <2>3. n - f + 1 = n + 1 - f
    BY <1>1
  <2>4. QED
    BY <1>1, <2>2, <2>3
<1>4. b \in Seq(T) /\ Len(b) = 1 /\ b[1] = Blank
  OBVIOUS
<1> HIDE DEF u, v, b
<1> DEFINE w == u \o b
<1>5. /\ w \in Seq(T) /\ Len(w) = a + 1
      /\ \A i \in 1 .. a + 1 : w[i] = IF i <= a THEN u[i] ELSE b[i - a]
  <2>1. /\ w \in Seq(T) /\ Len(w) = Len(u) + Len(b)
        /\ \A i \in 1 .. Len(u) + Len(b) :
              w[i] = IF i <= Len(u) THEN u[i] ELSE b[i - Len(u)]
    BY <1>2, <1>4, ConcatProperties
  <2>2. QED
    BY <1>2, <1>4, <2>1
<1> HIDE DEF w
<1>6. /\ w \o v \in Seq(T) /\ Len(w \o v) = a + 1 + (n + 1 - f)
      /\ \A i \in 1 .. a + 1 + (n + 1 - f) :
            (w \o v)[i] = IF i <= a + 1 THEN w[i] ELSE v[i - (a + 1)]
  <2>1. /\ w \o v \in Seq(T) /\ Len(w \o v) = Len(w) + Len(v)
        /\ \A i \in 1 .. Len(w) + Len(v) :
              (w \o v)[i] = IF i <= Len(w) THEN w[i] ELSE v[i - Len(w)]
    BY <1>3, <1>5, ConcatProperties
  <2>2. QED
    BY <1>3, <1>5, <2>1
<1>7. Rest(s, a, f) = w \o v
  BY DEF Rest, u, v, b, w
<1> HIDE DEF n
<1>8. \A k \in 1 .. a : (w \o v)[k] = s[k]
  BY <1>1, <1>2, <1>5, <1>6 DEF n
<1>9. (w \o v)[a + 1] = Blank
  BY <1>1, <1>4, <1>5, <1>6 DEF n
<1>10. ASSUME NEW k \in a + 2 .. a + 1 + (n + 1 - f)
       PROVE  (w \o v)[k] = s[(k - a - 2) + f]
  <2>1. k \in 1 .. a + 1 + (n + 1 - f) /\ ~(k <= a + 1)
    BY <1>1 DEF n
  <2>2. k - (a + 1) \in 1 .. n + 1 - f
    BY <1>1 DEF n
  <2>3. f + (k - (a + 1)) - 1 = (k - a - 2) + f
    BY <1>1 DEF n
  <2>4. QED
    BY <1>3, <1>6, <2>1, <2>2, <2>3
<1>11. QED
  BY <1>6, <1>7, <1>8, <1>9, <1>10 DEF n

--------------------------------------------------------------------------------
(* What fills or removes a scaffold.                                       *)

LEMMA FillSlotsLines ==
    ASSUME NEW T, NEW s \in Seq(T), NEW c
    PROVE  LET f == FillSlots(s, c)
           IN  /\ f \in Seq({f[i] : i \in 1 .. Len(s)}) /\ Len(f) = Len(s)
               /\ \A i \in 1 .. Len(s) :
                     f[i] = IF s[i].kind = "slot" /\ (s[i].name = "other" \/ c[s[i].name] # <<>>)
                            THEN Filled(s[i].name, c[s[i].name])
                            ELSE s[i]
<1> DEFINE f == FillSlots(s, c)
           Fill(l) == IF l.kind = "slot" /\ (l.name = "other" \/ c[l.name] # <<>>)
                      THEN Filled(l.name, c[l.name])
                      ELSE l
<1>1. f = [i \in 1 .. Len(s) |-> Fill(s[i])]
  <2>1. DOMAIN s = 1 .. Len(s)
    OBVIOUS
  <2>2. QED
    BY <2>1, Zenon DEF FillSlots
<1>2. PICK n \in Nat : n = Len(s)
  OBVIOUS
<1> HIDE DEF f, Fill
<1>3. \A i \in 1 .. n : f[i] = Fill(s[i])
  BY <1>1, <1>2
<1>4. f = [i \in 1 .. n |-> f[i]]
  BY <1>1, <1>2
<1>5. f \in Seq({f[i] : i \in 1 .. n}) /\ Len(f) = n
  BY <1>4
<1>6. QED
  BY <1>2, <1>3, <1>5 DEF f, Fill

(* A finished changelog: the operator gives it back.                       *)
Unmarked(s) == \A i \in 1 .. Len(s) : s[i].kind \notin {"start", "end", "slot"}

LEMMA UnmarkedStays ==
    ASSUME NEW T, NEW s \in Seq(T), Unmarked(s), NEW c
    PROVE  FillUpstreamPlaceholders(s, c) = s
<1>1. \A i \in 1 .. Len(s) : s[i] # Start /\ s[i] # End /\ s[i].kind # "slot"
  BY DEF Unmarked, Start, End
<1>2. RemoveUpstreamSection(s) = s
  <2>1. ~ \E j, e, a, f : Cut(s, j, e, a, f)
    BY <1>1 DEF Cut
  <2>2. QED
    BY <2>1, SectionRemoved
<1>3. FillSlots(s, c) = s
  <2> DEFINE f == FillSlots(s, c)
  <2>1. /\ f \in Seq({f[i] : i \in 1 .. Len(s)}) /\ Len(f) = Len(s)
        /\ \A i \in 1 .. Len(s) :
              f[i] = IF s[i].kind = "slot" /\ (s[i].name = "other" \/ c[s[i].name] # <<>>)
                     THEN Filled(s[i].name, c[s[i].name])
                     ELSE s[i]
    BY FillSlotsLines
  <2>2. \A i \in 1 .. Len(s) : f[i] = s[i]
    BY <1>1, <2>1
  <2> HIDE DEF f
  <2>3. f = s
    BY <2>1, <2>2
  <2>4. QED
    BY <2>3 DEF f
<1>4. \A name : AfterBlank(s, Slot(name)) = {}
  BY <1>1 DEF AfterBlank, Slot
<1>5. RemoveSlots(s) = s
  <2> DEFINE at == AfterBlank(s, Slot("versions")) \cup AfterBlank(s, Slot("breaking"))
             D == at \cup {i - 1 : i \in at}
  <2>1. D = {}
    BY <1>4
  <2>2. RemoveSlots(s) = Without(s, D)
    BY DEF RemoveSlots
  <2> HIDE DEF D
  <2>3. QED
    BY <2>1, <2>2, WithoutNothing
<1>6. RemoveStart(s) = s
  BY <1>1, WithoutNothing DEF RemoveStart
<1>7. RemoveEnd(s) = s
  <2>1. AfterBlank(s, End) = {}
    BY <1>1 DEF AfterBlank
  <2>2. QED
    BY <2>1, WithoutNothing DEF RemoveEnd
<1>8. QED
  BY <1>2, <1>3, <1>5, <1>6, <1>7 DEF FillUpstreamPlaceholders

(* The operator makes no lines of a new kind.                              *)
Kinds == {"blank", "start", "end", "slot", "filled", "text"}

OfKinds(s) == s \in Seq(ToSet(s)) /\ \A i \in 1 .. Len(s) : s[i].kind \in Kinds

LEMMA OfKindsType ==
    ASSUME NEW T, NEW s \in Seq(T), \A l \in T : l.kind \in Kinds
    PROVE  OfKinds(s)
<1>1. s \in Seq(ToSet(s))
  BY SeqOfItself
<1>2. \A i \in 1 .. Len(s) : s[i] \in T
  OBVIOUS
<1>3. QED
  BY <1>1, <1>2 DEF OfKinds

LEMMA WithoutKinds ==
    ASSUME NEW s, OfKinds(s), NEW D
    PROVE  OfKinds(Without(s, D))
<1> DEFINE T == {l \in ToSet(s) : l.kind \in Kinds}
<1>1. s \in Seq(T)
  <2>1. s \in Seq(ToSet(s)) /\ \A i \in 1 .. Len(s) : s[i].kind \in Kinds
    BY DEF OfKinds
  <2>2. \A i \in 1 .. Len(s) : s[i] \in T
    BY <2>1
  <2> HIDE DEF T
  <2>3. QED
    BY <2>1, <2>2, SeqOfElements
<1>2. \A l \in T : l.kind \in Kinds
  OBVIOUS
<1> HIDE DEF T
<1>3. Without(s, D) \in Seq(T)
  BY <1>1, WithoutType
<1>4. QED
  BY <1>2, <1>3, OfKindsType

LEMMA FillKinds ==
    ASSUME NEW s, OfKinds(s), NEW c
    PROVE  OfKinds(FillUpstreamPlaceholders(s, c))
<1>0. s \in Seq(ToSet(s))
  BY DEF OfKinds
<1>1. OfKinds(RemoveUpstreamSection(s))
  <2> SUFFICES ASSUME NEW j, NEW e, NEW a, NEW f, Cut(s, j, e, a, f)
               PROVE  OfKinds(Rest(s, a, f))
    BY <1>0, SectionRemoved
  <2> DEFINE T == {l \in ToSet(s) : l.kind \in Kinds} \cup {Blank}
  <2>1. s \in Seq(T)
    <3>1. \A i \in 1 .. Len(s) : s[i] \in ToSet(s) /\ s[i].kind \in Kinds
      BY <1>0 DEF OfKinds
    <3>2. \A i \in 1 .. Len(s) : s[i] \in T
      BY <3>1
    <3> HIDE DEF T
    <3>3. QED
      BY <1>0, <3>2, SeqOfElements
  <2>2. Blank \in T /\ \A l \in T : l.kind \in Kinds
    BY DEF Blank, Kinds
  <2> HIDE DEF T
  <2>3. a \in 0 .. Len(s) /\ f \in 1 .. Len(s) + 1
    BY <2>1 DEF Cut
  <2>4. Rest(s, a, f) \in Seq(T)
    BY <2>1, <2>2, <2>3, RestLines
  <2>5. QED
    BY <2>2, <2>4, OfKindsType
<1>2. OfKinds(FillSlots(s, c))
  <2> DEFINE f == FillSlots(s, c)
             R == {f[i] : i \in 1 .. Len(s)}
  <2>1. /\ f \in Seq(R) /\ Len(f) = Len(s)
        /\ \A i \in 1 .. Len(s) :
              f[i] = IF s[i].kind = "slot" /\ (s[i].name = "other" \/ c[s[i].name] # <<>>)
                     THEN Filled(s[i].name, c[s[i].name])
                     ELSE s[i]
    BY <1>0, FillSlotsLines
  <2> HIDE DEF f
  <2>2. \A l \in R : l.kind \in Kinds
    <3> SUFFICES ASSUME NEW i \in 1 .. Len(s) PROVE f[i].kind \in Kinds
      OBVIOUS
    <3>1. \A name, x : Filled(name, x).kind = "filled"
      BY DEF Filled
    <3>2. s[i].kind \in Kinds /\ "filled" \in Kinds
      BY DEF OfKinds, Kinds
    <3>3. QED
      BY <2>1, <3>1, <3>2
  <2> HIDE DEF R
  <2>3. OfKinds(f)
    BY <2>1, <2>2, OfKindsType
  <2>4. QED
    BY <2>3 DEF f
<1>3. QED
  BY <1>1, <1>2, WithoutKinds DEF FillUpstreamPlaceholders, RemoveSlots, RemoveStart, RemoveEnd

--------------------------------------------------------------------------------
(***************************************************************************)
(* What the scaffolds look like, as far as the tool depends on it: every   *)
(* placeholder and every end marker has a start marker above it with no    *)
(* end marker between, every start marker has an end marker below it, and  *)
(* the blank lines and the text by which the tool finds what it removes    *)
(* are there.                                                              *)
(***************************************************************************)
Shaped(s) ==
    \A i \in 1 .. Len(s) :
        /\ s[i].kind = "start" => s[i] = Start
        /\ s[i].kind = "end" => s[i] = End
        /\ s[i].kind = "slot" =>
             \E name \in {"version", "versions", "breaking", "other"} : s[i] = Slot(name)

Opened(s) ==
    \A i \in 1 .. Len(s) : s[i].kind \in {"slot", "end"} =>
        \E j \in 1 .. i - 1 : s[j] = Start /\ \A k \in j .. i - 1 : s[k] # End

Closed(s) ==
    \A i \in 1 .. Len(s) : s[i] = Start => \E e \in i + 1 .. Len(s) : s[e] = End

Spaced(s) ==
    \A i \in 1 .. Len(s) :
        /\ s[i] \in {Slot("versions"), Slot("breaking")} => s[i - 1] = Blank
        /\ s[i] = End => s[i - 1] = Blank /\ s[i - 2].kind = "text"

Titled(s) == Len(s) >= 2 /\ s[1].kind = "text" /\ s[2] = Blank

Tidy(s) == Shaped(s) /\ Opened(s) /\ Closed(s) /\ Spaced(s) /\ Titled(s)

LEMMA UnmarkedIsTidy ==
    ASSUME NEW T, NEW s \in Seq(T), Unmarked(s), Titled(s)
    PROVE  Tidy(s)
  BY DEF Tidy, Shaped, Opened, Closed, Spaced, Unmarked, Start, End, Slot

(* No marker is among the first lines of a tidy changelog.                 *)
LEMMA MarkersBelowTitle ==
    ASSUME NEW T, NEW s \in Seq(T), Tidy(s), NEW i \in 1 .. Len(s),
           s[i].kind \in {"slot", "end"}
    PROVE  i > 3
<1>1. PICK j \in 1 .. i - 1 : s[j] = Start
  BY DEF Tidy, Opened
<1>2. s[1] # Start /\ s[2] # Start
  BY DEF Tidy, Titled, Start, Blank
<1>3. j # 1 /\ j # 2
  BY <1>1, <1>2
<1>4. QED
  BY <1>1, <1>3

LEMMA TitleStays ==
    ASSUME NEW T, NEW s \in Seq(T), Titled(s), NEW D, 1 \notin D, 2 \notin D
    PROVE  Titled(Without(s, D))
<1> DEFINE r == Without(s, D)
<1>1. PICK p : Selection(s, Len(s), D, r, p)
  BY WithoutType
<1> HIDE DEF r
<1>2. Len(s) \in Nat /\ 2 \in 0 .. Len(s)
  BY DEF Titled
<1>3. \A i \in 1 .. 2 : i \notin D
  <2>1. \A i \in 1 .. 2 : i = 1 \/ i = 2
    OBVIOUS
  <2>2. QED
    BY <2>1
<1>4. 2 <= Len(r) /\ \A k \in 1 .. 2 : p[k] = k
  BY <1>1, <1>2, <1>3, FirstStay
<1>5. Len(r) \in Nat /\ r = [k \in 1 .. Len(r) |-> s[p[k]]]
  BY <1>1 DEF Selection
<1>6. r[1] = s[1] /\ r[2] = s[2]
  BY <1>4, <1>5
<1>7. QED
  BY <1>4, <1>6 DEF Titled, r

(* An end marker stands where RemoveEnd looks for it.                      *)
EndsApart(s) ==
    \A k \in 1 .. Len(s) : s[k] = End =>
        k > 2 /\ s[k - 1] = Blank /\ s[k - 2].kind = "text"

LEMMA EndsStayApart ==
    ASSUME NEW T, NEW s \in Seq(T), EndsApart(s), NEW D,
           \A i \in 1 .. Len(s) : s[i] = End => i - 1 \notin D /\ i - 2 \notin D
    PROVE  EndsApart(Without(s, D))
<1> DEFINE r == Without(s, D)
           n == Len(s)
<1>1. n \in Nat
  OBVIOUS
<1>2. PICK p : Selection(s, n, D, r, p)
  BY WithoutType
<1> HIDE DEF r, n
<1>3. /\ Len(r) \in Nat /\ r = [k \in 1 .. Len(r) |-> s[p[k]]]
      /\ \A k \in 1 .. Len(r) : p[k] \in (1 .. n) \ D
  BY <1>2 DEF Selection
<1> SUFFICES ASSUME NEW k \in 1 .. Len(r), r[k] = End
             PROVE  k > 2 /\ r[k - 1] = Blank /\ r[k - 2].kind = "text"
  BY DEF EndsApart, r
<1>4. s[p[k]] = End /\ p[k] \in 1 .. n
  BY <1>3
<1>5. /\ p[k] > 2 /\ s[p[k] - 1] = Blank /\ s[p[k] - 2].kind = "text"
      /\ p[k] - 1 \notin D /\ p[k] - 2 \notin D
  BY <1>4 DEF EndsApart, n
<1>6. k - 1 \in 1 .. Len(r) /\ p[k - 1] = p[k] - 1
  <2>1. p[k] - 1 \in 1 .. n
    BY <1>1, <1>4, <1>5
  <2>2. QED
    BY <1>1, <1>2, <1>5, <2>1, PreviousStays
<1>7. (k - 1) - 1 \in 1 .. Len(r) /\ p[(k - 1) - 1] = p[k - 1] - 1
  <2>1. p[k - 1] - 1 \in 1 .. n /\ p[k - 1] - 1 = p[k] - 2
    BY SMTT(30), <1>1, <1>4, <1>5, <1>6
  <2>2. QED
    BY <1>1, <1>2, <1>5, <1>6, <2>1, PreviousStays
<1>8. k - 2 = (k - 1) - 1 /\ k > 2 /\ p[k - 2] = p[k] - 2
  BY <1>3, <1>4, <1>6, <1>7
<1>9. r[k - 1] = s[p[k] - 1] /\ r[k - 2] = s[p[k] - 2]
  BY <1>3, <1>6, <1>7, <1>8
<1>10. QED
  BY <1>5, <1>8, <1>9

(* A changelog that has been filled has no marker and no placeholder left. *)
LEMMA FilledIsUnmarked ==
    ASSUME NEW T, NEW s \in Seq(T), Tidy(s),
           NEW c, c.version # <<>>, c.versions = c.version
    PROVE  /\ Unmarked(FillUpstreamPlaceholders(s, c))
           /\ Titled(FillUpstreamPlaceholders(s, c))
<1> DEFINE n == Len(s)
           f == FillSlots(s, c)
           F == {f[i] : i \in 1 .. n}
           at == AfterBlank(f, Slot("versions")) \cup AfterBlank(f, Slot("breaking"))
           D == at \cup {i - 1 : i \in at}
           r1 == Without(f, D)
           D2 == {i \in DOMAIN r1 : r1[i] = Start}
           r2 == Without(r1, D2)
           D3 == AfterBlank(r2, End)
           r3 == Without(r2, D3)
<1>1. n \in Nat /\ \A i \in 1 .. n : s[i] \in T
  OBVIOUS
<1>2. /\ f \in Seq(F) /\ Len(f) = n
      /\ \A i \in 1 .. n :
            f[i] = IF s[i].kind = "slot" /\ (s[i].name = "other" \/ c[s[i].name] # <<>>)
                   THEN Filled(s[i].name, c[s[i].name])
                   ELSE s[i]
  BY FillSlotsLines
<1>3. FillUpstreamPlaceholders(s, c) = r3
  BY DEF FillUpstreamPlaceholders, RemoveSlots, RemoveStart, RemoveEnd
<1> HIDE DEF f
<1>4. \A i \in 1 .. n : s[i].kind # "slot" => f[i] = s[i]
  BY <1>2
<1>5. \A i \in 1 .. n : f[i].kind = "slot" => f[i] = Slot("breaking") /\ s[i] = f[i]
  <2> SUFFICES ASSUME NEW i \in 1 .. n, f[i].kind = "slot"
               PROVE  f[i] = Slot("breaking") /\ s[i] = f[i]
    OBVIOUS
  <2>1. s[i].kind = "slot"
    BY <1>4
  <2>2. PICK name \in {"version", "versions", "breaking", "other"} : s[i] = Slot(name)
    BY <2>1 DEF Tidy, Shaped
  <2>3. s[i].name = name
    BY <2>2 DEF Slot
  <2>4. \A x, y : Filled(x, y).kind # "slot"
    BY DEF Filled
  <2>5. f[i] = s[i] /\ s[i].name # "other" /\ ~(c[s[i].name] # <<>>)
    BY <1>2, <2>1, <2>4
  <2>6. name # "other" /\ c[name] = <<>>
    BY <2>3, <2>5
  <2>7. c["version"] # <<>> /\ c["versions"] # <<>>
    OBVIOUS
  <2>8. name = "breaking"
    BY <2>6, <2>7
  <2>9. QED
    BY <2>2, <2>5, <2>8
<1>6. \A i \in 1 .. n : f[i].kind \notin {"filled"} => f[i] = s[i]
  <2>1. \A x, y : Filled(x, y).kind = "filled"
    BY DEF Filled
  <2>2. QED
    BY <1>2, <2>1
<1>7. \A i \in 1 .. n : f[i].kind = "slot" => i > 3 /\ f[i - 1] = Blank
  <2> SUFFICES ASSUME NEW i \in 1 .. n, f[i].kind = "slot"
               PROVE  i > 3 /\ f[i - 1] = Blank
    OBVIOUS
  <2>1. s[i] = Slot("breaking") /\ s[i].kind = "slot"
    BY <1>5 DEF Slot
  <2>2. i > 3
    BY <2>1, MarkersBelowTitle
  <2>3. s[i - 1] = Blank /\ i - 1 \in 1 .. n
    BY <1>1, <2>1, <2>2 DEF Tidy, Spaced
  <2>4. f[i - 1] = s[i - 1]
    BY <1>4, <2>3 DEF Blank
  <2>5. QED
    BY <2>2, <2>3, <2>4
<1>8. \A i \in at : i \in 1 .. n /\ f[i].kind = "slot" /\ i > 3 /\ f[i - 1] = Blank
  <2> TAKE i \in at
  <2>1. i \in DOMAIN f /\ f[i] \in {Slot("versions"), Slot("breaking")}
    BY DEF AfterBlank
  <2> HIDE DEF at
  <2>2. i \in 1 .. n
    BY <1>2, <2>1
  <2>3. f[i].kind = "slot"
    BY <2>1 DEF Slot
  <2>4. QED
    BY <1>7, <2>2, <2>3
<1>9. \A i \in 1 .. n : f[i].kind = "slot" => i \in at
  <2> SUFFICES ASSUME NEW i \in 1 .. n, f[i].kind = "slot" PROVE i \in at
    OBVIOUS
  <2>1. f[i] = Slot("breaking") /\ i > 2 /\ f[i - 1] = Blank /\ i \in DOMAIN f
    BY <1>2, <1>5, <1>7
  <2>2. i \in AfterBlank(f, Slot("breaking"))
    BY <2>1 DEF AfterBlank
  <2>3. QED
    BY <2>2
<1> HIDE DEF at
<1>10. Titled(f)
  <2>1. 1 \in 1 .. n /\ 2 \in 1 .. n /\ s[1].kind = "text" /\ s[2] = Blank
    BY <1>1 DEF Tidy, Titled
  <2>2. f[1] = s[1] /\ f[2] = s[2]
    BY <1>4, <2>1 DEF Blank
  <2>3. QED
    BY <1>2, <2>1, <2>2 DEF Titled
<1>11. EndsApart(f)
  <2> SUFFICES ASSUME NEW i \in 1 .. n, f[i] = End
               PROVE  i > 2 /\ f[i - 1] = Blank /\ f[i - 2].kind = "text"
    BY <1>2 DEF EndsApart
  <2>1. s[i] = End /\ s[i].kind = "end"
    BY <1>6 DEF End
  <2>2. i > 3
    BY <2>1, MarkersBelowTitle
  <2>3. s[i - 1] = Blank /\ s[i - 2].kind = "text" /\ i - 1 \in 1 .. n /\ i - 2 \in 1 .. n
    BY <1>1, <2>1, <2>2 DEF Tidy, Spaced
  <2>4. f[i - 1] = s[i - 1] /\ f[i - 2] = s[i - 2]
    BY <1>4, <2>3 DEF Blank
  <2>5. QED
    BY <2>2, <2>3, <2>4
<1>12. \A i \in D : i \in 1 .. n /\ i > 2 /\ (f[i].kind = "slot" \/ (f[i] = Blank /\ f[i + 1].kind = "slot"))
  <2> TAKE i \in D
  <2>1. CASE i \in at
    BY <1>8, <2>1
  <2>2. ASSUME NEW x \in at, i = x - 1
        PROVE  i \in 1 .. n /\ i > 2 /\ f[i] = Blank /\ f[i + 1].kind = "slot"
    <3>1. x \in 1 .. n /\ f[x].kind = "slot" /\ x > 3 /\ f[x - 1] = Blank
      BY <1>8, <2>2
    <3>2. i + 1 = x /\ i \in 1 .. n /\ i > 2
      BY <1>1, <2>2, <3>1
    <3>3. QED
      BY <2>2, <3>1, <3>2
  <2>3. QED
    BY <2>1, <2>2
<1>13. \A i \in 1 .. n : f[i].kind = "slot" => i \in D
  BY <1>9
<1> HIDE DEF D
<1>14. r1 \in Seq(F) /\ \E p : Selection(f, n, D, r1, p)
  BY <1>2, WithoutType
<1>15. Titled(r1)
  <2>1. 1 \notin D /\ 2 \notin D
    BY <1>12
  <2>2. QED
    BY <1>2, <1>10, <2>1, TitleStays
<1>16. EndsApart(r1)
  <2>1. ASSUME NEW i \in 1 .. n, f[i] = End PROVE i - 1 \notin D /\ i - 2 \notin D
    <3>1. i > 2 /\ f[i - 1] = Blank /\ f[i - 2].kind = "text"
      BY <1>2, <1>11, <2>1 DEF EndsApart
    <3>2. f[i - 1].kind # "slot" /\ f[i - 2] # Blank /\ f[i - 2].kind # "slot" /\ f[i].kind # "slot"
      BY <2>1, <3>1 DEF Blank, End
    <3>3. (i - 1) + 1 = i
      BY <2>1
    <3>4. i - 1 \notin D
      BY <1>12, <3>2, <3>3
    <3>5. i - 2 \notin D
      BY <1>12, <3>2
    <3>6. QED
      BY <3>4, <3>5
  <2>2. QED
    BY <1>2, <1>11, <2>1, EndsStayApart
<1>17. \A k \in 1 .. Len(r1) : /\ r1[k].kind # "slot"
                               /\ r1[k].kind = "start" => r1[k] = Start
                               /\ r1[k].kind = "end" => r1[k] = End
  <2> TAKE k \in 1 .. Len(r1)
  <2>1. PICK p : Selection(f, n, D, r1, p)
    BY <1>14
  <2>2. p[k] \in (1 .. n) \ D /\ r1[k] = f[p[k]]
    BY <2>1 DEF Selection
  <2>3. r1[k].kind # "slot"
    BY <1>13, <2>2
  <2>4. r1[k].kind \in {"start", "end"} => r1[k] = s[p[k]]
    BY <1>6, <2>2
  <2>5. QED
    BY <2>2, <2>3, <2>4 DEF Tidy, Shaped
<1> HIDE DEF r1
<1>18. DOMAIN r1 = 1 .. Len(r1) /\ Len(r1) \in Nat
  BY <1>14
<1>19. \A i \in 1 .. Len(r1) : i \in D2 <=> r1[i] = Start
  BY <1>18
<1>20. D2 \subseteq 1 .. Len(r1)
  BY <1>18
<1> HIDE DEF D2
<1>21. r2 \in Seq(F) /\ \E p : Selection(r1, Len(r1), D2, r2, p)
  BY <1>14, WithoutType
<1>22. Titled(r2)
  <2>1. 1 \notin D2 /\ 2 \notin D2
    BY <1>15, <1>18, <1>19 DEF Titled, Start, Blank
  <2>2. QED
    BY <1>14, <1>15, <2>1, TitleStays
<1>23. EndsApart(r2)
  <2>1. ASSUME NEW i \in 1 .. Len(r1), r1[i] = End PROVE i - 1 \notin D2 /\ i - 2 \notin D2
    <3>1. i > 2 /\ r1[i - 1] = Blank /\ r1[i - 2].kind = "text"
      BY <1>16, <2>1 DEF EndsApart
    <3>2. r1[i - 1] # Start /\ r1[i - 2] # Start
      BY <3>1 DEF Blank, Start
    <3>3. QED
      BY <1>19, <1>20, <3>2
  <2>2. QED
    BY <1>14, <1>16, <2>1, EndsStayApart
<1>24. \A k \in 1 .. Len(r2) : /\ r2[k].kind \notin {"slot", "start"}
                               /\ r2[k].kind = "end" => r2[k] = End
  <2> TAKE k \in 1 .. Len(r2)
  <2>1. PICK p : Selection(r1, Len(r1), D2, r2, p)
    BY <1>21
  <2>2. p[k] \in (1 .. Len(r1)) \ D2 /\ r2[k] = r1[p[k]]
    BY <2>1 DEF Selection
  <2>3. r2[k] # Start
    BY <1>19, <2>2
  <2>4. QED
    BY <1>17, <2>2, <2>3
<1> HIDE DEF r2
<1>25. DOMAIN r2 = 1 .. Len(r2) /\ Len(r2) \in Nat
  BY <1>21
<1>26. \A i \in 1 .. Len(r2) : r2[i] = End => i \in D3
  BY <1>23, <1>25 DEF AfterBlank, EndsApart
<1>27. \A i \in D3 : i > 2
  BY DEF AfterBlank
<1> HIDE DEF D3
<1>28. \E p : Selection(r2, Len(r2), D3, r3, p)
  BY <1>21, WithoutType
<1>29. Titled(r3)
  <2>1. 1 \notin D3 /\ 2 \notin D3
    BY <1>27
  <2>2. QED
    BY <1>21, <1>22, <2>1, TitleStays
<1>30. Unmarked(r3)
  <2> SUFFICES ASSUME NEW k \in 1 .. Len(r3)
               PROVE  r3[k].kind \notin {"start", "end", "slot"}
    BY DEF Unmarked
  <2>1. PICK p : Selection(r2, Len(r2), D3, r3, p)
    BY <1>28
  <2>2. p[k] \in (1 .. Len(r2)) \ D3 /\ r3[k] = r2[p[k]]
    BY <2>1 DEF Selection
  <2>3. QED
    BY <1>24, <1>26, <2>2
<1>31. QED
  BY <1>3, <1>29, <1>30

(* A tidy changelog without a start marker has no marker at all.           *)
LEMMA UnstartedIsUnmarked ==
    ASSUME NEW T, NEW s \in Seq(T), Tidy(s), \A i \in 1 .. Len(s) : s[i] # Start
    PROVE  Unmarked(s)
<1> SUFFICES ASSUME NEW i \in 1 .. Len(s), s[i].kind \in {"start", "end", "slot"}
             PROVE  FALSE
  BY DEF Unmarked
<1>1. s[i].kind # "start"
  BY DEF Tidy, Shaped
<1>2. PICK j \in 1 .. i - 1 : s[j] = Start
  BY <1>1 DEF Tidy, Opened
<1>3. j \in 1 .. Len(s)
  OBVIOUS
<1>4. QED
  BY <1>2, <1>3

(* Where a section is cut out, the line at k was the line at k - a - 2 + f, and the *)
(* markers below the section belong to the scaffolds below it.             *)
LEMMA CutIsClean ==
    ASSUME NEW T, NEW s \in Seq(T), Tidy(s),
           NEW j, NEW e, NEW a, NEW f, Cut(s, j, e, a, f)
    PROVE  /\ j < e /\ a >= 1
           /\ \A i \in 1 .. a : s[i].kind \notin {"start", "end", "slot"}
           /\ \A i \in f .. Len(s) : s[i].kind \in {"slot", "end"} =>
                 \E o \in f .. i - 1 : s[o] = Start /\ \A k \in o .. i - 1 : s[k] # End
<1>1. /\ Len(s) \in Nat /\ j \in 1 .. Len(s) /\ e \in 1 .. Len(s) /\ a \in 0 .. j - 1
      /\ f \in e + 1 .. Len(s) + 1 /\ s[j] = Start /\ s[e] = End
      /\ \A i \in 1 .. j - 1 : s[i] # Start
      /\ \A i \in a + 1 .. j - 1 : s[i] = Blank
      /\ \A i \in e + 1 .. f - 1 : s[i] = Blank
  BY DEF Cut
<1>2. j < e
  <2>1. PICK o \in 1 .. e - 1 : s[o] = Start
    BY <1>1 DEF Tidy, Opened, End
  <2>2. ~(o \in 1 .. j - 1)
    BY <1>1, <2>1
  <2>3. QED
    BY <1>1, <2>1, <2>2
<1>3. a >= 1
  <2>1. s[1] # Start /\ s[1] # Blank
    BY DEF Tidy, Titled, Start, Blank
  <2>2. 1 \in 1 .. j - 1
    BY <1>1, <2>1
  <2>3. ~(1 \in a + 1 .. j - 1)
    BY <1>1, <2>1
  <2>4. QED
    BY <1>1, <2>2, <2>3
<1>4. ASSUME NEW i \in 1 .. a, s[i].kind \in {"start", "end", "slot"} PROVE FALSE
  <2>1. i \in 1 .. Len(s) /\ i \in 1 .. j - 1
    BY <1>1
  <2>2. s[i].kind # "start"
    BY <1>1, <2>1 DEF Tidy, Shaped
  <2>3. PICK o \in 1 .. i - 1 : s[o] = Start
    BY <1>4, <2>1, <2>2 DEF Tidy, Opened
  <2>4. o \in 1 .. j - 1
    BY <1>1, <2>1
  <2>5. QED
    BY <1>1, <2>3, <2>4
<1>5. ASSUME NEW i \in f .. Len(s), s[i].kind \in {"slot", "end"}
      PROVE  \E o \in f .. i - 1 : s[o] = Start /\ \A k \in o .. i - 1 : s[k] # End
  <2>1. i \in 1 .. Len(s) /\ e \in 1 .. i - 1
    BY <1>1
  <2>2. PICK o \in 1 .. i - 1 : s[o] = Start /\ \A k \in o .. i - 1 : s[k] # End
    BY <1>5, <2>1 DEF Tidy, Opened
  <2>3. ~(e \in o .. i - 1)
    BY <1>1, <2>2
  <2>4. ~(o \in e + 1 .. f - 1)
    BY <1>1, <2>2 DEF Start, Blank
  <2>5. o \in f .. i - 1
    BY <1>1, <2>1, <2>2, <2>3, <2>4
  <2>6. QED
    BY <2>2, <2>5
<1>6. QED
  BY <1>2, <1>3, <1>4, <1>5

(* Without its first section a tidy changelog is still tidy, and if that   *)
(* was the only one it has no marker left.                                 *)
LEMMA RestIsTidy ==
    ASSUME NEW T, NEW s \in Seq(T), Tidy(s),
           NEW j, NEW e, NEW a, NEW f, Cut(s, j, e, a, f)
    PROVE  /\ Tidy(Rest(s, a, f))
           /\ (\A i \in 1 .. Len(s) : s[i] = Start => i = j) => Unmarked(Rest(s, a, f))
<1> DEFINE n == Len(s)
           r == Rest(s, a, f)
           l == a + 1 + (n + 1 - f)
           P == a + 2 .. l
           back == [k \in P |-> (k - a - 2) + f]
<1>1. /\ n \in Nat /\ j \in 1 .. n /\ e \in 1 .. n /\ a \in 1 .. j - 1
      /\ f \in e + 1 .. n + 1 /\ j < e
      /\ \A i \in 1 .. a : s[i].kind \notin {"start", "end", "slot"}
      /\ \A i \in f .. n : s[i].kind \in {"slot", "end"} =>
            \E o \in f .. i - 1 : s[o] = Start /\ \A x \in o .. i - 1 : s[x] # End
      /\ \A i \in a + 1 .. j - 1 : s[i] = Blank
  <2>1. /\ j < e /\ a >= 1
        /\ \A i \in 1 .. a : s[i].kind \notin {"start", "end", "slot"}
        /\ \A i \in f .. n : s[i].kind \in {"slot", "end"} =>
              \E o \in f .. i - 1 : s[o] = Start /\ \A x \in o .. i - 1 : s[x] # End
    BY CutIsClean
  <2>2. /\ n \in Nat /\ j \in 1 .. n /\ e \in 1 .. n /\ a \in 0 .. j - 1
        /\ f \in e + 1 .. n + 1
        /\ \A i \in a + 1 .. j - 1 : s[i] = Blank
    BY DEF Cut
  <2>3. a \in 1 .. j - 1
    BY <2>1, <2>2
  <2>4. QED
    BY <2>1, <2>2, <2>3
<1> DEFINE S == ToSet(s) \cup {Blank}
<1>2. /\ r \in Seq(S) /\ Len(r) = l
      /\ \A x \in 1 .. a : r[x] = s[x]
      /\ r[a + 1] = Blank
      /\ \A k \in P : r[k] = s[back[k]]
  <2>1. s \in Seq(S) /\ Blank \in S
    <3>1. s \in Seq(ToSet(s)) /\ \A i \in 1 .. n : s[i] \in ToSet(s)
      BY SeqOfItself
    <3>2. QED
      BY <3>1, SeqOfElements
  <2>2. a \in 0 .. n /\ f \in 1 .. n + 1
    BY <1>1
  <2> HIDE DEF S
  <2>3. /\ r \in Seq(S) /\ Len(r) = l
        /\ \A x \in 1 .. a : r[x] = s[x]
        /\ r[a + 1] = Blank
        /\ \A k \in P : r[k] = s[(k - a - 2) + f]
    BY <2>1, <2>2, RestLines
  <2>4. \A k \in P : back[k] = (k - a - 2) + f
    OBVIOUS
  <2> HIDE DEF r, P, back
  <2>5. \A k \in P : r[k] = s[back[k]]
    BY <2>3, <2>4
  <2>6. QED
    BY <2>3, <2>5, Zenon
<1> HIDE DEF r, S
<1>3. \A k \in 1 .. l : k \in 1 .. a \/ k = a + 1 \/ k \in P
  BY <1>1
<1>4. \A k \in P : back[k] \in f .. n /\ back[k] \in 1 .. n
  BY <1>1
<1>5. \A i \in f .. n : i + a + 2 - f \in P /\ back[i + a + 2 - f] = i
  BY <1>1
<1> HIDE DEF back, l, P
<1>6. \A k \in 1 .. l : r[k].kind \in {"start", "end", "slot"} => k \in P
  <2>1. Blank.kind \notin {"start", "end", "slot"}
    BY DEF Blank
  <2>2. QED
    BY <1>1, <1>2, <1>3, <2>1
<1>7. \A k \in 1 .. l : r[k] \in {Start, End, Slot("versions"), Slot("breaking")}
                           => r[k].kind \in {"start", "end", "slot"}
  BY DEF Start, End, Slot
<1> DEFINE above(k, o) == /\ o \in a + 2 .. k - 1 /\ r[o] = Start
                          /\ \A x \in o .. k - 1 : r[x] # End
<1>8. ASSUME NEW k \in 1 .. l, r[k].kind \in {"slot", "end"}
      PROVE  \E o : above(k, o)
  <2>1. k \in P /\ r[k] = s[back[k]]
    BY <1>2, <1>6, <1>8
  <2>2. back[k] \in f .. n
    BY <1>4, <2>1
  <2>3. PICK o \in f .. back[k] - 1 : s[o] = Start /\ \A x \in o .. back[k] - 1 : s[x] # End
    BY <1>1, <1>8, <2>1, <2>2
  <2> DEFINE q == o + a + 2 - f
  <2>4. o \in f .. n /\ q \in a + 2 .. k - 1 /\ back[q] = o /\ q \in P
    BY <1>1, <2>1, <2>2, <2>3 DEF back, l, P
  <2>5. r[q] = Start
    BY <1>2, <2>3, <2>4
  <2>6. ASSUME NEW x \in q .. k - 1 PROVE r[x] # End
    <3>1. x \in P /\ back[x] \in o .. back[k] - 1
      BY <1>1, <2>1, <2>4 DEF back, l, P
    <3>2. QED
      BY <1>2, <2>3, <3>1
  <2> HIDE DEF q
  <2>7. above(k, q)
    BY <2>4, <2>5, <2>6
  <2>8. QED
    BY <2>7
<1>9. Shaped(r)
  <2> SUFFICES ASSUME NEW k \in 1 .. l
               PROVE  /\ r[k].kind = "start" => r[k] = Start
                      /\ r[k].kind = "end" => r[k] = End
                      /\ r[k].kind = "slot" =>
                           \E name \in {"version", "versions", "breaking", "other"} :
                              r[k] = Slot(name)
    BY <1>2 DEF Shaped
  <2>1. CASE r[k].kind \in {"start", "end", "slot"}
    <3>1. r[k] = s[back[k]] /\ back[k] \in 1 .. n
      BY <1>2, <1>4, <1>6, <2>1
    <3>2. QED
      BY <3>1 DEF Tidy, Shaped
  <2>2. QED
    BY <2>1
<1>10. Opened(r)
  <2> SUFFICES ASSUME NEW k \in 1 .. l, r[k].kind \in {"slot", "end"}
               PROVE  \E o \in 1 .. k - 1 : r[o] = Start /\ \A x \in o .. k - 1 : r[x] # End
    BY <1>2 DEF Opened
  <2>1. PICK o : above(k, o)
    BY <1>8
  <2>2. o \in 1 .. k - 1
    BY <1>1, <2>1
  <2>3. QED
    BY <2>1, <2>2
<1>11. Closed(r)
  <2> SUFFICES ASSUME NEW k \in 1 .. l, r[k] = Start
               PROVE  \E x \in k + 1 .. l : r[x] = End
    BY <1>2 DEF Closed
  <2>1. k \in P /\ s[back[k]] = Start /\ back[k] \in f .. n /\ back[k] \in 1 .. n
    BY <1>2, <1>4, <1>6, <1>7
  <2>2. PICK x \in back[k] + 1 .. n : s[x] = End
    <3>1. QED
      BY <2>1 DEF Tidy, Closed
  <2> DEFINE q == x + a + 2 - f
  <2>3. x \in f .. n /\ q \in k + 1 .. l /\ q \in P /\ back[q] = x
    BY <1>1, <2>1, <2>2 DEF back, l, P
  <2>4. r[q] = End
    BY <1>2, <2>2, <2>3
  <2> HIDE DEF q
  <2>5. QED
    BY <2>3, <2>4
<1>12. Spaced(r)
  <2> SUFFICES ASSUME NEW k \in 1 .. l
               PROVE  /\ r[k] \in {Slot("versions"), Slot("breaking")} => r[k - 1] = Blank
                      /\ r[k] = End => r[k - 1] = Blank /\ r[k - 2].kind = "text"
    BY <1>2 DEF Spaced
  <2>1. CASE r[k] \in {Slot("versions"), Slot("breaking"), End}
    <3>1. r[k].kind \in {"slot", "end"}
      BY <2>1 DEF Slot, End
    <3>2. PICK o : above(k, o)
      BY <1>8, <3>1
    <3>3. /\ k \in P /\ r[k] = s[back[k]] /\ back[k] \in 1 .. n
          /\ o \in a + 2 .. k - 1
      BY <1>2, <1>4, <1>6, <3>1, <3>2
    <3>8. k - 1 \in P /\ back[k - 1] = back[k] - 1
      BY SMTT(30), <1>1, <3>3 DEF back, l, P
    <3>4. r[k - 1] = s[back[k] - 1]
      BY <1>2, <3>8
    <3>5. s[back[k]] \in {Slot("versions"), Slot("breaking")} => s[back[k] - 1] = Blank
      <4>1. QED
        BY <3>3 DEF Tidy, Spaced
    <3>6. ASSUME r[k] = End PROVE r[k - 1] = Blank /\ r[k - 2].kind = "text"
      <4>1. s[back[k] - 1] = Blank /\ s[back[k] - 2].kind = "text"
        <5>1. QED
          BY <3>3, <3>6 DEF Tidy, Spaced
      <4>2. o # k - 1
        BY <3>2, <3>4, <4>1 DEF Start, Blank
      <4>3. k - 2 \in P /\ back[k - 2] = back[k] - 2
        BY <1>1, <3>3, <4>2 DEF back, l, P
      <4>4. r[k - 2] = s[back[k] - 2]
        BY <1>2, <4>3
      <4>5. QED
        BY <3>4, <4>1, <4>4
    <3>7. QED
      BY <3>3, <3>4, <3>5, <3>6
  <2>2. QED
    BY <2>1
<1>13. Titled(r)
  <2>1. n >= 2 /\ s[1].kind = "text" /\ s[2] = Blank
    BY DEF Tidy, Titled
  <2>2. l >= 2 /\ 1 \in 1 .. a
    BY <1>1 DEF l
  <2>3. r[1] = s[1]
    BY <1>2, <2>2
  <2>4. r[2] = Blank
    <3>1. a = 1 \/ 2 \in 1 .. a
      BY <1>1
    <3>2. QED
      BY <1>2, <2>1, <3>1
  <2>5. QED
    BY <1>2, <2>1, <2>2, <2>3, <2>4 DEF Titled
<1>14. Tidy(r)
  BY <1>9, <1>10, <1>11, <1>12, <1>13 DEF Tidy
<1>15. ASSUME \A i \in 1 .. n : s[i] = Start => i = j PROVE Unmarked(r)
  <2>1. ASSUME NEW k \in 1 .. Len(r), r[k] = Start PROVE FALSE
    <3>1. k \in P /\ s[back[k]] = Start /\ back[k] \in f .. n /\ back[k] \in 1 .. n
      BY <1>2, <1>4, <1>6, <1>7, <2>1
    <3>2. back[k] = j
      BY <1>15, <3>1
    <3>3. QED
      BY <1>1, <3>1, <3>2
  <2>2. QED
    BY <1>2, <1>14, <2>1, UnstartedIsUnmarked
<1>16. QED
  BY <1>14, <1>15 DEF r

LEMMA RemovedIsTidy ==
    ASSUME NEW T, NEW s \in Seq(T), Tidy(s)
    PROVE  Tidy(RemoveUpstreamSection(s))
<1>1. CASE RemoveUpstreamSection(s) = s
  BY <1>1
<1>2. QED
  BY <1>1, SectionRemoved, RestIsTidy

LEMMA RemovedIsUnmarked ==
    ASSUME NEW T, NEW s \in Seq(T), Tidy(s),
           NEW o \in 1 .. Len(s), \A i \in 1 .. Len(s) : s[i] = Start => i = o
    PROVE  Unmarked(RemoveUpstreamSection(s))
<1>1. CASE \A i \in 1 .. Len(s) : s[i] # Start
  <2>1. Unmarked(s)
    BY <1>1, UnstartedIsUnmarked
  <2>2. RemoveUpstreamSection(s) = s
    BY <1>1, SectionRemoved DEF Cut
  <2>3. QED
    BY <2>1, <2>2
<1>2. CASE \E i \in 1 .. Len(s) : s[i] = Start
  <2>1. \E e \in 1 .. Len(s) : s[e] = End
    <3>1. PICK i \in 1 .. Len(s) : s[i] = Start
      BY <1>2
    <3>2. PICK e \in i + 1 .. Len(s) : s[e] = End
      BY <3>1 DEF Tidy, Closed
    <3>3. e \in 1 .. Len(s)
      BY <3>2
    <3>4. QED
      BY <3>2, <3>3
  <2>2. PICK j, e, a, f : Cut(s, j, e, a, f) /\ RemoveUpstreamSection(s) = Rest(s, a, f)
    BY <1>2, <2>1, SectionRemoved
  <2>3. j = o
    BY <2>2 DEF Cut
  <2>4. QED
    BY <2>2, <2>3, RestIsTidy
<1>3. QED
  BY <1>1, <1>2

--------------------------------------------------------------------------------
(* The scaffold that `make chlog-update` puts below the title.             *)

Framed(s) == Shaped(s) /\ Opened(s) /\ Closed(s) /\ Spaced(s)

LEMMA UnmarkedIsFramed ==
    ASSUME NEW s, Unmarked(s)
    PROVE  Framed(s)
  BY DEF Framed, Shaped, Opened, Closed, Spaced, Unmarked, Start, End, Slot

LEMMA FramesJoin ==
    ASSUME NEW T, NEW x \in Seq(T), NEW y \in Seq(T), Framed(x), Framed(y)
    PROVE  x \o y \in Seq(T) /\ Framed(x \o y)
<1> DEFINE m == Len(x)
           n == Len(y)
           t == x \o y
<1>1. m \in Nat /\ n \in Nat
  OBVIOUS
<1>2. /\ t \in Seq(T) /\ Len(t) = m + n
      /\ \A i \in 1 .. m : t[i] = x[i]
      /\ \A i \in 1 .. n : t[i + m] = y[i]
  <2>1. /\ t \in Seq(T) /\ Len(t) = m + n
        /\ \A i \in 1 .. m + n : t[i] = IF i <= m THEN x[i] ELSE y[i - m]
    BY ConcatProperties
  <2> HIDE DEF t, m, n
  <2>2. \A i \in 1 .. m : i \in 1 .. m + n /\ i <= m
    BY <1>1
  <2>3. \A i \in 1 .. n : i + m \in 1 .. m + n /\ ~(i + m <= m) /\ (i + m) - m = i
    BY <1>1
  <2>4. \A i \in 1 .. m : t[i] = x[i]
    BY <2>1, <2>2
  <2>5. \A i \in 1 .. n : t[i + m] = y[i]
    <3> TAKE i \in 1 .. n
    <3>1. t[i + m] = y[(i + m) - m]
      BY <2>1, <2>3
    <3>2. QED
      BY <2>3, <3>1
  <2>6. QED
    BY <2>1, <2>4, <2>5
<1> HIDE DEF t, m, n
<1>3. \A k \in 1 .. m + n : k \in 1 .. m \/ \E i \in 1 .. n : k = i + m
  <2> TAKE k \in 1 .. m + n
  <2>1. k \in 1 .. m \/ (k - m \in 1 .. n /\ k = (k - m) + m)
    BY <1>1
  <2>2. QED
    BY <2>1
<1>4. ASSUME NEW i \in 1 .. n, y[i].kind \in {"slot", "end"}
      PROVE  \E j \in 1 .. i - 1 : y[j] = Start /\ \A k \in j .. i - 1 : y[k] # End
  BY <1>4 DEF Framed, Opened, n
<1>5. Shaped(t)
  <2> DEFINE Shape(l) ==
               /\ l.kind = "start" => l = Start
               /\ l.kind = "end" => l = End
               /\ l.kind = "slot" =>
                    \E name \in {"version", "versions", "breaking", "other"} : l = Slot(name)
  <2>1. (\A i \in 1 .. m : Shape(x[i])) /\ (\A i \in 1 .. n : Shape(y[i]))
    BY DEF Framed, Shaped, m, n
  <2>2. Shaped(t) <=> \A k \in 1 .. m + n : Shape(t[k])
    BY <1>2 DEF Shaped
  <2> HIDE DEF Shape
  <2>3. QED
    BY <1>2, <1>3, <2>1, <2>2
<1>6. Opened(t)
  <2> DEFINE Under(k) == \E j \in 1 .. k - 1 :
                            t[j] = Start /\ \A o \in j .. k - 1 : t[o] # End
  <2>1. ASSUME NEW i \in 1 .. m, t[i].kind \in {"slot", "end"}
        PROVE  Under(i)
    <3>1. x[i].kind \in {"slot", "end"}
      BY <1>2, <2>1
    <3>2. PICK j \in 1 .. i - 1 : x[j] = Start /\ \A k \in j .. i - 1 : x[k] # End
      BY <3>1 DEF Framed, Opened, m
    <3>3. \A k \in j .. i - 1 : k \in 1 .. m
      BY <1>1
    <3>4. j \in j .. i - 1
      OBVIOUS
    <3>5. QED
      BY <1>2, <3>2, <3>3, <3>4
  <2>2. ASSUME NEW i \in 1 .. n, t[i + m].kind \in {"slot", "end"}
        PROVE  Under(i + m)
    <3>1. PICK j \in 1 .. i - 1 : y[j] = Start /\ \A k \in j .. i - 1 : y[k] # End
      BY <1>2, <1>4, <2>2
    <3>2. j + m \in 1 .. (i + m) - 1 /\ j \in 1 .. n
      BY <1>1
    <3>3. t[j + m] = Start
      BY <1>2, <3>1, <3>2
    <3>4. ASSUME NEW k \in (j + m) .. (i + m) - 1 PROVE t[k] # End
      <4>1. k - m \in j .. i - 1 /\ k - m \in 1 .. n /\ (k - m) + m = k
        BY <1>1
      <4>2. t[(k - m) + m] = y[k - m]
        BY <1>2, <4>1
      <4>3. QED
        BY <3>1, <4>1, <4>2
    <3>5. \E q \in 1 .. (i + m) - 1 : t[q] = Start /\ \A k \in q .. (i + m) - 1 : t[k] # End
      <4> DEFINE q == j + m
      <4>1. q \in 1 .. (i + m) - 1 /\ t[q] = Start
        BY <1>1, <3>2, <3>3
      <4>2. \A k \in q .. (i + m) - 1 : t[k] # End
        BY <3>4
      <4> HIDE DEF q
      <4>3. QED
        BY <4>1, <4>2
    <3>6. QED
      BY <3>5, Zenon
  <2>3. Opened(t) <=> \A k \in 1 .. m + n : t[k].kind \in {"slot", "end"} => Under(k)
    BY <1>2 DEF Opened
  <2> HIDE DEF Under
  <2>4. QED
    BY <1>3, <2>1, <2>2, <2>3
<1>7. Closed(t)
  <2>1. ASSUME NEW i \in 1 .. m, t[i] = Start PROVE \E e \in i + 1 .. m + n : t[e] = End
    <3>1. PICK e \in i + 1 .. m : x[e] = End
      BY <1>2, <2>1 DEF Framed, Closed, m
    <3>2. e \in 1 .. m /\ e \in i + 1 .. m + n
      BY <1>1
    <3>3. QED
      BY <1>2, <3>1, <3>2
  <2>2. ASSUME NEW i \in 1 .. n, t[i + m] = Start
        PROVE  \E e \in i + m + 1 .. m + n : t[e] = End
    <3>1. PICK e \in i + 1 .. n : y[e] = End
      BY <1>2, <2>2 DEF Framed, Closed, n
    <3>2. e \in 1 .. n /\ e + m \in i + m + 1 .. m + n
      BY <1>1
    <3>3. QED
      BY <1>2, <3>1, <3>2
  <2>3. QED
    BY <1>2, <1>3, <2>1, <2>2 DEF Closed
<1>8. Spaced(t)
  <2> DEFINE Room(u, k) == /\ u[k] \in {Slot("versions"), Slot("breaking")} => u[k - 1] = Blank
                           /\ u[k] = End => u[k - 1] = Blank /\ u[k - 2].kind = "text"
  <2>1. ASSUME NEW u, NEW l \in Nat, Len(u) = l, Framed(u),
               NEW i \in 1 .. l, u[i] \in {Slot("versions"), Slot("breaking"), End}
        PROVE  i > 1 /\ (u[i] = End => i > 2)
    <3>1. u[i].kind \in {"slot", "end"}
      BY <2>1 DEF Slot, End
    <3>2. PICK j \in 1 .. i - 1 : u[j] = Start
      BY <2>1, <3>1 DEF Framed, Opened
    <3>3. u[i] = End => u[i - 1] = Blank
      BY <2>1 DEF Framed, Spaced
    <3>4. u[i] = End => j # i - 1
      BY <3>2, <3>3 DEF Start, Blank
    <3>5. QED
      BY <3>2, <3>4
  <2>2. ASSUME NEW i \in 1 .. m, t[i] \in {Slot("versions"), Slot("breaking"), End}
        PROVE  Room(t, i)
    <3>1. t[i] = x[i] /\ i > 1 /\ (x[i] = End => i > 2)
      BY <1>1, <1>2, <2>1, <2>2 DEF m
    <3>2. Room(x, i)
      BY DEF Framed, Spaced, m
    <3>3. i - 1 \in 1 .. m /\ (x[i] = End => i - 2 \in 1 .. m)
      BY <1>1, <3>1
    <3>4. t[i - 1] = x[i - 1] /\ (x[i] = End => t[i - 2] = x[i - 2])
      BY <1>2, <3>3
    <3>5. QED
      BY <3>1, <3>2, <3>4
  <2>3. ASSUME NEW i \in 1 .. n, t[i + m] \in {Slot("versions"), Slot("breaking"), End}
        PROVE  Room(t, i + m)
    <3>1. t[i + m] = y[i]
      BY <1>2
    <3>2. i > 1 /\ (y[i] = End => i > 2)
      BY <1>1, <2>1, <2>3, <3>1 DEF n
    <3>3. Room(y, i)
      BY DEF Framed, Spaced, n
    <3>4. i - 1 \in 1 .. n /\ (y[i] = End => i - 2 \in 1 .. n)
      BY <1>1, <3>2
    <3>5. t[(i - 1) + m] = y[i - 1] /\ (y[i] = End => t[(i - 2) + m] = y[i - 2])
      BY <1>2, <3>4
    <3>6. (i - 1) + m = (i + m) - 1 /\ (i - 2) + m = (i + m) - 2
      BY <1>1
    <3>7. QED
      BY <3>1, <3>3, <3>5, <3>6
  <2>4. ASSUME NEW k \in 1 .. m + n PROVE Room(t, k)
    <3>1. CASE t[k] \in {Slot("versions"), Slot("breaking"), End}
      BY <1>3, <2>2, <2>3, <3>1
    <3>2. QED
      BY <3>1
  <2>5. QED
    BY <1>2, <2>4 DEF Spaced
<1>9. QED
  BY <1>2, <1>5, <1>6, <1>7, <1>8 DEF Framed, t

(* The lines below the title, with everything they depend on.              *)
LEMMA BelowTitleIsFramed ==
    ASSUME NEW T, NEW s \in Seq(T), Tidy(s)
    PROVE  /\ SubSeq(s, 3, Len(s)) \in Seq(T)
           /\ Framed(SubSeq(s, 3, Len(s)))
<1> DEFINE n == Len(s)
           l == n - 2
           v == SubSeq(s, 3, n)
<1>1. n \in Nat /\ n >= 2 /\ l \in Nat /\ n = l + 2 /\ \A i \in 1 .. n : s[i] \in T
  BY DEF Tidy, Titled
<1>2. v \in Seq(T) /\ Len(v) = l /\ \A i \in 1 .. l : v[i] = s[i + 2]
  <2>1. \A i \in 3 .. n : s[i] \in T
    BY <1>1
  <2>2. /\ v \in Seq(T) /\ Len(v) = IF 3 <= n THEN n - 3 + 1 ELSE 0
        /\ \A i \in 1 .. n - 3 + 1 : v[i] = s[3 + i - 1]
    BY <1>1, <2>1, SubSeqProperties
  <2> HIDE DEF v
  <2> HIDE DEF n
  <2>3. n - 3 + 1 = l /\ (IF 3 <= n THEN n - 3 + 1 ELSE 0) = l
    BY <1>1
  <2>4. \A i \in 1 .. l : 3 + i - 1 = i + 2
    BY <1>1
  <2> HIDE DEF l
  <2>5. QED
    BY <2>2, <2>3, <2>4
<1> HIDE DEF v, l, n
<1>3. ASSUME NEW i \in 1 .. l, v[i].kind \in {"slot", "end"}
      PROVE  \E j \in 1 .. i - 1 : v[j] = Start /\ \A k \in j .. i - 1 : v[k] # End
  <2>1. i + 2 \in 1 .. n /\ s[i + 2].kind \in {"slot", "end"}
    BY <1>1, <1>2, <1>3
  <2>2. PICK q \in 1 .. (i + 2) - 1 : s[q] = Start /\ \A k \in q .. (i + 2) - 1 : s[k] # End
    <3> DEFINE m == i + 2
    <3> HIDE DEF m
    <3>1. m \in 1 .. n /\ s[m].kind \in {"slot", "end"}
      BY <2>1 DEF m
    <3>2. \E q \in 1 .. m - 1 : s[q] = Start /\ \A k \in q .. m - 1 : s[k] # End
      BY <3>1 DEF Tidy, Opened, n
    <3>3. QED
      BY <3>2 DEF m
  <2>3. s[1] # Start /\ s[2] # Start
    BY DEF Tidy, Titled, Start, Blank
  <2>4. q # 1 /\ q # 2
    BY <2>2, <2>3
  <2> DEFINE j == q - 2
  <2>5. j \in 1 .. i - 1 /\ j + 2 = q /\ \A k \in j .. i - 1 : k + 2 \in q .. (i + 2) - 1 /\ k \in 1 .. l
    BY <1>1, <2>2, <2>4
  <2>6. j \in j .. i - 1
    BY <2>5
  <2> HIDE DEF j
  <2>7. v[j] = Start /\ \A k \in j .. i - 1 : v[k] # End
    BY <1>2, <2>2, <2>5, <2>6
  <2>8. QED
    BY <2>5, <2>7
<1>4. Shaped(v)
  <2> DEFINE Shape(x) ==
               /\ x.kind = "start" => x = Start
               /\ x.kind = "end" => x = End
               /\ x.kind = "slot" =>
                    \E name \in {"version", "versions", "breaking", "other"} : x = Slot(name)
  <2>1. \A i \in 1 .. n : Shape(s[i])
    BY DEF Tidy, Shaped, n
  <2>2. Shaped(v) <=> \A k \in 1 .. l : Shape(v[k])
    BY <1>2 DEF Shaped
  <2>3. \A i \in 1 .. l : i + 2 \in 1 .. n
    BY <1>1
  <2> HIDE DEF Shape
  <2>4. QED
    BY <1>2, <2>1, <2>2, <2>3
<1>5. Opened(v)
  BY <1>2, <1>3 DEF Opened
<1>6. Closed(v)
  <2> SUFFICES ASSUME NEW i \in 1 .. l, v[i] = Start PROVE \E e \in i + 1 .. l : v[e] = End
    BY <1>2 DEF Closed
  <2> DEFINE m == i + 2
  <2>1. m \in 1 .. n /\ s[m] = Start
    BY <1>1, <1>2
  <2> HIDE DEF m
  <2>2. PICK q \in m + 1 .. n : s[q] = End
    BY <2>1 DEF Tidy, Closed, n
  <2>3. q - 2 \in i + 1 .. l /\ q - 2 \in 1 .. l /\ (q - 2) + 2 = q
    BY <1>1, <2>2 DEF m
  <2>4. v[q - 2] = s[(q - 2) + 2]
    BY <1>2, <2>3
  <2>5. QED
    BY <2>2, <2>3, <2>4
<1>7. Spaced(v)
  <2> SUFFICES ASSUME NEW i \in 1 .. l
               PROVE  /\ v[i] \in {Slot("versions"), Slot("breaking")} => v[i - 1] = Blank
                      /\ v[i] = End => v[i - 1] = Blank /\ v[i - 2].kind = "text"
    BY <1>2 DEF Spaced
  <2> DEFINE m == i + 2
  <2>1. m \in 1 .. n /\ s[m] = v[i]
    BY <1>1, <1>2
  <2> HIDE DEF m
  <2>2. /\ s[m] \in {Slot("versions"), Slot("breaking")} => s[m - 1] = Blank
        /\ s[m] = End => s[m - 1] = Blank /\ s[m - 2].kind = "text"
    BY <2>1 DEF Tidy, Spaced, n
  <2>3. CASE v[i] \in {Slot("versions"), Slot("breaking"), End}
    <3>1. v[i].kind \in {"slot", "end"}
      BY <2>3 DEF Slot, End
    <3>2. PICK j \in 1 .. i - 1 : v[j] = Start
      BY <1>3, <3>1
    <3>3. i - 1 \in 1 .. l /\ (i - 1) + 2 = m - 1
      BY <1>1, <3>2 DEF m
    <3>4. v[i - 1] = s[m - 1]
      BY <1>2, <3>3
    <3>5. ASSUME v[i] = End PROVE v[i - 2] = s[m - 2]
      <4>1. j # i - 1
        BY <2>1, <2>2, <3>2, <3>4, <3>5 DEF Start, Blank
      <4>2. i - 2 \in 1 .. l /\ (i - 2) + 2 = m - 2
        BY <1>1, <3>2, <4>1 DEF m
      <4>3. QED
        BY <1>2, <4>2
    <3>6. QED
      BY <2>1, <2>2, <3>4, <3>5
  <2>4. QED
    BY <2>3
<1>8. QED
  BY <1>2, <1>4, <1>5, <1>6, <1>7 DEF Framed, v, n

(* A title above a frame.                                                  *)
LEMMA TitleAbove ==
    ASSUME NEW T, NEW h \in Seq(T), NEW w \in Seq(T),
           Titled(h), Unmarked(h), Framed(w)
    PROVE  h \o w \in Seq(T) /\ Tidy(h \o w)
<1>1. Framed(h)
  BY UnmarkedIsFramed
<1>2. h \o w \in Seq(T) /\ Framed(h \o w)
  BY <1>1, FramesJoin
<1>3. Titled(h \o w)
  <2>1. Len(h) \in Nat /\ Len(w) \in Nat /\ Len(h) >= 2
    BY DEF Titled
  <2>2. /\ Len(h \o w) = Len(h) + Len(w)
        /\ \A i \in 1 .. Len(h) + Len(w) :
              (h \o w)[i] = IF i <= Len(h) THEN h[i] ELSE w[i - Len(h)]
    BY ConcatProperties
  <2> DEFINE t == h \o w
  <2> HIDE DEF t
  <2>3. Len(t) >= 2 /\ t[1] = h[1] /\ t[2] = h[2]
    BY <2>1, <2>2 DEF t
  <2>4. QED
    BY <2>3 DEF Titled, t
<1>4. QED
  BY <1>2, <1>3 DEF Tidy, Framed

LEMMA ScaffoldLines ==
    ASSUME NEW release, NEW own \in BOOLEAN
    PROVE  /\ Scaffold(release, own) \in Seq(ToSet(Scaffold(release, own)))
           /\ Framed(Scaffold(release, own))
           /\ OfKinds(Scaffold(release, own))
<1> DEFINE A == <<Text(release, "heading"), Blank,
                  Start, Slot("version"), Blank, Text(release, "upstream"), Blank,
                  Slot("versions"), Blank, Slot("breaking"), Blank,
                  Text(release, "upstream"), Blank, Slot("other"), Blank,
                  Text(release, "upstream"), Blank, End, Blank>>
           B == IF own THEN <<Text(release, "own"), Blank>> ELSE <<>>
           C == <<Text(release, "previous-version"), Blank>>
           Names == {"version", "versions", "breaking", "other"}
           T == {Text(release, part) : part \in {"heading", "upstream", "own", "previous-version"}}
                  \cup {Slot(name) : name \in Names} \cup {Blank, Start, End}
<1>1. Scaffold(release, own) = (A \o B) \o C
  BY Zenon DEF Scaffold
<1>2. A \in Seq(T) /\ Len(A) = 19
  OBVIOUS
<1>3. B \in Seq(T) /\ C \in Seq(T)
  <2>1. Text(release, "own") \in T /\ Text(release, "previous-version") \in T /\ Blank \in T
    OBVIOUS
  <2> HIDE DEF T
  <2>2. <<Text(release, "own"), Blank>> \in Seq(T) /\ C \in Seq(T) /\ <<>> \in Seq(T)
    BY <2>1
  <2>3. QED
    BY <2>2
<1>4. Unmarked(B) /\ Unmarked(C)
  <2>1. \A part : Unmarked(<<Text(release, part), Blank>>)
    BY DEF Unmarked, Text, Blank
  <2>2. Unmarked(<<>>)
    BY DEF Unmarked
  <2>3. QED
    BY <2>1, <2>2
<1>5. Framed(A)
  <2>1. /\ A[1] = Text(release, "heading") /\ A[2] = Blank
        /\ A[3] = Start /\ A[4] = Slot("version") /\ A[5] = Blank
        /\ A[6] = Text(release, "upstream") /\ A[7] = Blank
        /\ A[8] = Slot("versions") /\ A[9] = Blank
        /\ A[10] = Slot("breaking") /\ A[11] = Blank
        /\ A[12] = Text(release, "upstream") /\ A[13] = Blank
        /\ A[14] = Slot("other") /\ A[15] = Blank
        /\ A[16] = Text(release, "upstream") /\ A[17] = Blank
        /\ A[18] = End /\ A[19] = Blank
    OBVIOUS
  <2>2. \A i \in 1 .. 19 : \/ i = 1 \/ i = 2 \/ i = 3 \/ i = 4 \/ i = 5 \/ i = 6 \/ i = 7
                           \/ i = 8 \/ i = 9 \/ i = 10 \/ i = 11 \/ i = 12 \/ i = 13
                           \/ i = 14 \/ i = 15 \/ i = 16 \/ i = 17 \/ i = 18 \/ i = 19
    OBVIOUS
  <2> HIDE DEF A
  <2>3. /\ Text(release, "heading").kind = "text" /\ Text(release, "upstream").kind = "text"
        /\ Blank.kind = "blank" /\ Start.kind = "start" /\ End.kind = "end"
        /\ \A name : Slot(name).kind = "slot" /\ Slot(name).name = name
    BY DEF Text, Blank, Start, End, Slot
  <2>4. \A i \in 1 .. 19 : /\ A[i].kind \in {"slot", "end"} => i > 3
                           /\ A[i].kind \in {"start", "end", "slot"} => i < 19
                           /\ i # 3 => A[i].kind # "start"
                           /\ i # 18 => A[i].kind # "end"
    BY <2>1, <2>2, <2>3
  <2>5. Shaped(A)
    <3>1. \A i \in 1 .. 19 : A[i].kind = "slot" =>
             A[i] \in {Slot("version"), Slot("versions"), Slot("breaking"), Slot("other")}
      BY <2>1, <2>2, <2>3
    <3>2. QED
      BY <1>2, <2>1, <2>4, <3>1 DEF Shaped
  <2>6. Opened(A)
    <3> SUFFICES ASSUME NEW i \in 1 .. 19, A[i].kind \in {"slot", "end"}
                 PROVE  \E j \in 1 .. i - 1 : A[j] = Start /\ \A k \in j .. i - 1 : A[k] # End
      BY <1>2 DEF Opened
    <3>1. i > 3 /\ i < 19
      BY <2>4
    <3>2. 3 \in 1 .. i - 1 /\ \A k \in 3 .. i - 1 : k \in 1 .. 19 /\ k # 18
      BY <3>1
    <3>3. \A k \in 3 .. i - 1 : A[k] # End
      BY <2>3, <2>4, <3>2
    <3>4. QED
      BY <2>1, <3>2, <3>3
  <2>7. Closed(A)
    <3> SUFFICES ASSUME NEW i \in 1 .. 19, A[i] = Start PROVE \E e \in i + 1 .. 19 : A[e] = End
      BY <1>2 DEF Closed
    <3>1. i = 3
      BY <2>3, <2>4
    <3>2. 18 \in i + 1 .. 19
      BY <3>1
    <3>3. QED
      BY <2>1, <3>2
  <2>8. Spaced(A)
    <3>1. \A i \in 1 .. 19 : /\ A[i] = Slot("versions") => i = 8
                             /\ A[i] = Slot("breaking") => i = 10
                             /\ A[i] = End => i = 18
      BY <2>1, <2>2, <2>3
    <3>2. A[8 - 1] = Blank /\ A[10 - 1] = Blank /\ A[18 - 1] = Blank
          /\ A[18 - 2].kind = "text"
      <4>1. 8 - 1 = 7 /\ 10 - 1 = 9 /\ 18 - 1 = 17 /\ 18 - 2 = 16
        OBVIOUS
      <4>2. A[7] = Blank /\ A[9] = Blank /\ A[17] = Blank /\ A[16].kind = "text"
        BY <2>1, <2>3
      <4>3. QED
        BY <4>1, <4>2
    <3>3. \A i \in 1 .. 19 :
             /\ A[i] \in {Slot("versions"), Slot("breaking")} => A[i - 1] = Blank
             /\ A[i] = End => A[i - 1] = Blank /\ A[i - 2].kind = "text"
      BY <3>1, <3>2, Zenon
    <3>4. QED
      BY <1>2, <3>3, Zenon DEF Spaced
  <2>9. QED
    BY <2>5, <2>6, <2>7, <2>8 DEF Framed
<1>6. \A l \in T : l.kind \in Kinds
  BY DEF Text, Slot, Blank, Start, End, Kinds
<1> HIDE DEF A, B, C, T
<1>7. A \o B \in Seq(T) /\ Framed(A \o B)
  BY <1>2, <1>3, <1>4, <1>5, UnmarkedIsFramed, FramesJoin
<1>8. (A \o B) \o C \in Seq(T) /\ Framed((A \o B) \o C)
  BY <1>3, <1>4, <1>7, UnmarkedIsFramed, FramesJoin
<1>9. QED
  BY <1>1, <1>6, <1>8, SeqOfItself, OfKindsType

(* A new release is put below the title.                                   *)
LEMMA ReleasedIsTidy ==
    ASSUME NEW s, OfKinds(s), Tidy(s), NEW release, NEW own \in BOOLEAN
    PROVE  LET t == SubSeq(s, 1, 2) \o Scaffold(release, own) \o SubSeq(s, 3, Len(s))
           IN  OfKinds(t) /\ Tidy(t)
<1> DEFINE h == SubSeq(s, 1, 2)
           x == Scaffold(release, own)
           v == SubSeq(s, 3, Len(s))
           T == ToSet(s) \cup ToSet(x)
<1>1. s \in Seq(ToSet(s)) /\ x \in Seq(ToSet(x)) /\ Framed(x) /\ OfKinds(x)
  BY ScaffoldLines DEF OfKinds
<1>2. s \in Seq(T) /\ x \in Seq(T) /\ \A l \in T : l.kind \in Kinds
  <2>1. \A r, l : OfKinds(r) /\ l \in ToSet(r) => l.kind \in Kinds
    <3> SUFFICES ASSUME NEW r, OfKinds(r), NEW l \in ToSet(r) PROVE l.kind \in Kinds
      OBVIOUS
    <3>1. PICK i \in 1 .. Len(r) : l = r[i]
      BY SeqOfItself DEF OfKinds
    <3>2. QED
      BY <3>1 DEF OfKinds
  <2>2. \A l \in T : l.kind \in Kinds
    BY <1>1, <2>1
  <2>3. (\A i \in 1 .. Len(s) : s[i] \in ToSet(s)) /\ (\A i \in 1 .. Len(x) : x[i] \in ToSet(x))
    BY <1>1
  <2>4. (\A i \in 1 .. Len(s) : s[i] \in T) /\ (\A i \in 1 .. Len(x) : x[i] \in T)
    BY <2>3
  <2> HIDE DEF T, x
  <2>5. QED
    BY <1>1, <2>2, <2>4, SeqOfElements
<1> HIDE DEF T, x
<1>3. h \in Seq(T) /\ Titled(h) /\ Unmarked(h)
  <2>1. Len(s) >= 2 /\ s[1].kind = "text" /\ s[2] = Blank /\ s[1] \in T /\ s[2] \in T
    BY <1>2 DEF Tidy, Titled
  <2>2. /\ h \in Seq(T) /\ Len(h) = 2
        /\ \A i \in 1 .. 2 : h[i] = s[i]
    <3>1. \A i \in 1 .. 2 : s[i] \in T
      <4>1. \A i \in 1 .. 2 : i = 1 \/ i = 2
        OBVIOUS
      <4>2. QED
        BY <2>1, <4>1
    <3>2. /\ h \in Seq(T) /\ Len(h) = IF 1 <= 2 THEN 2 - 1 + 1 ELSE 0
          /\ \A i \in 1 .. 2 - 1 + 1 : h[i] = s[1 + i - 1]
      BY <3>1, SubSeqProperties
    <3> HIDE DEF h
    <3>3. QED
      BY <3>2
  <2> HIDE DEF h
  <2>3. h[1].kind = "text" /\ h[2] = Blank
    BY <2>1, <2>2
  <2>4. Titled(h)
    BY <2>2, <2>3 DEF Titled
  <2>5. Unmarked(h)
    <3>1. \A i \in 1 .. Len(h) : i = 1 \/ i = 2
      BY <2>2
    <3>2. QED
      BY <2>3, <3>1 DEF Unmarked, Blank
  <2>6. QED
    BY <2>2, <2>4, <2>5
<1>4. v \in Seq(T) /\ Framed(v)
  BY <1>2, BelowTitleIsFramed
<1> HIDE DEF h, v
<1>5. x \o v \in Seq(T) /\ Framed(x \o v)
  BY <1>1, <1>2, <1>4, FramesJoin
<1>6. h \o (x \o v) \in Seq(T) /\ Tidy(h \o (x \o v))
  BY <1>3, <1>5, TitleAbove
<1>7. (h \o x) \o v = h \o (x \o v)
  BY <1>2, <1>3, <1>4, ConcatAssociative
<1>8. OfKinds((h \o x) \o v)
  BY <1>2, <1>6, <1>7, OfKindsType
<1>9. QED
  BY <1>6, <1>7, <1>8 DEF h, x, v

(* What the repository starts with: one release below the title.           *)
LEMMA FirstIsTidy ==
    ASSUME NEW own \in BOOLEAN
    PROVE  LET t == <<Text(0, "title"), Blank>> \o Scaffold(1, own)
                        \o <<Text(0, "heading"), Blank>>
           IN  OfKinds(t) /\ Tidy(t)
<1> DEFINE h == <<Text(0, "title"), Blank>>
           x == Scaffold(1, own)
           v == <<Text(0, "heading"), Blank>>
           T == {l \in ToSet(x) : l.kind \in Kinds} \cup {Text(0, "title"), Text(0, "heading"), Blank}
<1>1. x \in Seq(ToSet(x)) /\ Framed(x) /\ OfKinds(x)
  BY ScaffoldLines
<1>2. x \in Seq(T)
  <2>1. \A i \in 1 .. Len(x) : x[i] \in ToSet(x) /\ x[i].kind \in Kinds
    BY <1>1 DEF OfKinds
  <2>2. \A i \in 1 .. Len(x) : x[i] \in T
    BY <2>1
  <2> HIDE DEF T, x
  <2>3. QED
    BY <1>1, <2>2, SeqOfElements
<1>3. \A l \in T : l.kind \in Kinds
  BY DEF Text, Blank, Kinds
<1>4. Text(0, "title") \in T /\ Text(0, "heading") \in T /\ Blank \in T
  OBVIOUS
<1> HIDE DEF T, x
<1>5. h \in Seq(T) /\ v \in Seq(T)
  BY <1>4
<1>6. Titled(h) /\ Unmarked(h) /\ Unmarked(v)
  BY DEF Titled, Unmarked, Text, Blank
<1> HIDE DEF h, v
<1>7. x \o v \in Seq(T) /\ Framed(x \o v)
  BY <1>1, <1>2, <1>5, <1>6, UnmarkedIsFramed, FramesJoin
<1>8. h \o (x \o v) \in Seq(T) /\ Tidy(h \o (x \o v))
  BY <1>5, <1>6, <1>7, TitleAbove
<1>9. (h \o x) \o v = h \o (x \o v)
  BY <1>2, <1>5, ConcatAssociative
<1>10. QED
  BY <1>3, <1>8, <1>9, OfKindsType DEF h, x, v

--------------------------------------------------------------------------------
(* What a run announces and reports.                                       *)

(* The versions that are announced, in ascending order.                    *)
LEMMA ReleasedVersions ==
    ASSUME NEW V, V \subseteq Nat, IsFiniteSet(V)
    PROVE  LET r == FilterCollectorReleaseVersions(SortedUniqueVersions(V))
               v0 == {v \in V : v < FirstMajor}
           IN  /\ r \in Seq(Nat)
               /\ ToSet(r) = IF v0 = {} THEN V ELSE v0
               /\ \A i, j \in 1 .. Len(r) : i < j => r[i] < r[j]
<1> DEFINE s == SortedUniqueVersions(V)
           r == FilterCollectorReleaseVersions(s)
           v0 == {v \in V : v < FirstMajor}
           D == {i \in DOMAIN s : ~(s[i] < FirstMajor)}
           q == Without(s, D)
<1>1. s \in SetToSeqs(V) /\ \A i, j \in DOMAIN s : i < j => s[i] < s[j]
  BY AscendingList DEF SortedUniqueVersions
<1>2. r = IF q # <<>> THEN q ELSE s
  BY DEF FilterCollectorReleaseVersions, Chosen
<1> HIDE DEF s, r
<1>3. s \in Seq(V) /\ ToSet(s) = V
  BY <1>1, SetToSeqsLists
<1>4. s \in Seq(Nat) /\ DOMAIN s = 1 .. Len(s)
  <2>1. s \in Seq(V)
    BY <1>3
  <2> HIDE <1>3
  <2>2. \A i \in 1 .. Len(s) : s[i] \in V
    BY <2>1
  <2>3. \A i \in 1 .. Len(s) : s[i] \in Nat
    BY <2>2
  <2>4. s \in Seq(Nat)
    BY <2>1, <2>3, SeqOfElements
  <2>5. QED
    BY <2>1, <2>4
<1>5. q \in Seq(Nat) /\ ToSet(q) = {s[i] : i \in (1 .. Len(s)) \ D}
  BY <1>4, KeptElements
<1>6. ToSet(q) = v0
  <2>1. V = {s[i] : i \in 1 .. Len(s)}
    BY <1>3, SeqOfItself
  <2>2. \A i \in 1 .. Len(s) : i \in D <=> ~(s[i] < FirstMajor)
    BY <1>4
  <2>3. \A i \in (1 .. Len(s)) \ D : s[i] \in v0
    <3> TAKE i \in (1 .. Len(s)) \ D
    <3>1. i \in 1 .. Len(s) /\ i \notin D
      OBVIOUS
    <3> HIDE DEF D
    <3>2. s[i] \in V /\ s[i] < FirstMajor
      BY <2>1, <2>2, <3>1
    <3> QED
      BY <3>2
  <2>4. \A v \in v0 : \E i \in (1 .. Len(s)) \ D : s[i] = v
    BY <2>1, <2>2
  <2> HIDE DEF D, v0
  <2>5. QED
    BY <1>5, <2>3, <2>4
<1>7. \A i, j \in 1 .. Len(q) : i < j => q[i] < q[j]
  BY <1>1, <1>4, KeptAscends
<1>8. \A i, j \in 1 .. Len(s) : i < j => s[i] < s[j]
  BY <1>1, <1>4
<1> HIDE DEF q, D, v0
<1>9. q = <<>> <=> v0 = {}
  <2>0. q \in Seq(Nat)
    BY <1>5
  <2>1. ToSet(q) = {q[i] : i \in 1 .. Len(q)} /\ Len(q) \in Nat
    BY <2>0, SeqOfItself
  <2>2. q = <<>> => ToSet(q) = {}
    BY <2>1
  <2>3. q # <<>> => 1 \in 1 .. Len(q)
    BY <1>5
  <2>4. QED
    BY <1>6, <2>1, <2>2, <2>3
<1>10. r \in Seq(Nat) /\ ToSet(r) = IF v0 = {} THEN V ELSE v0
  BY <1>2, <1>3, <1>4, <1>5, <1>6, <1>9
<1>11. \A i, j \in 1 .. Len(r) : i < j => r[i] < r[j]
  BY <1>2, <1>7, <1>8
<1>12. QED
  BY <1>10, <1>11 DEF r, s, v0

(* The entries of a section, each as often as it was collected.            *)
IsOfType(e, type, components, cfg) ==
    e.file.changeType = type /\ ShouldInclude(e.file.component, components, cfg)

Section(entries, type, components, cfg) == WriteEntries(OfType(entries, type, components, cfg))

LEMMA SectionEntries ==
    ASSUME NEW T, NEW entries \in Seq(T), NEW type, NEW components, NEW cfg,
           \A i \in 1 .. Len(entries) : entries[i].source \in {"core", "contrib"}
    PROVE  LET r == Section(entries, type, components, cfg)
           IN  /\ r \in Seq(T)
               /\ \A e : Times(e, r) = IF IsOfType(e, type, components, cfg)
                                       THEN Times(e, entries) ELSE 0
<1> DEFINE D == {i \in DOMAIN entries : ~IsOfType(entries[i], type, components, cfg)}
           o == Without(entries, D)
           C == {i \in DOMAIN o : ~(o[i].source = "core")}
           B == {i \in DOMAIN o : ~(o[i].source = "contrib")}
           x == Without(o, C)
           y == Without(o, B)
<1>1. o = OfType(entries, type, components, cfg)
  BY DEF OfType, Chosen, IsOfType
<1>2. x \o y = Section(entries, type, components, cfg)
  BY <1>1 DEF Section, WriteEntries, Chosen
<1>3. DOMAIN entries = 1 .. Len(entries)
  OBVIOUS
<1>4. o \in Seq(T) /\ ToSet(o) = {entries[i] : i \in (1 .. Len(entries)) \ D}
  BY KeptElements
<1>5. ASSUME NEW e PROVE Times(e, o) = IF IsOfType(e, type, components, cfg)
                                       THEN Times(e, entries) ELSE 0
  <2>1. CASE IsOfType(e, type, components, cfg)
    <3>1. \A i \in 1 .. Len(entries) : entries[i] = e => i \notin D
      BY <2>1
    <3> HIDE DEF D
    <3>2. QED
      BY <2>1, <3>1, TimesKept
  <2>2. CASE ~IsOfType(e, type, components, cfg)
    <3>1. \A i \in 1 .. Len(entries) : entries[i] = e => i \in D
      BY <1>3, <2>2
    <3> HIDE DEF D
    <3>2. QED
      BY <2>2, <3>1, TimesDropped
  <2>3. QED
    BY <2>1, <2>2
<1>6. \A i \in 1 .. Len(o) : o[i].source \in {"core", "contrib"}
  <2>1. ToSet(o) = {o[i] : i \in 1 .. Len(o)}
    BY <1>4, SeqOfItself
  <2> HIDE DEF o
  <2>2. QED
    BY <1>4, <2>1
<1> HIDE DEF o
<1>7. DOMAIN o = 1 .. Len(o)
  BY <1>4
<1>8. x \in Seq(T) /\ y \in Seq(T)
  BY <1>4, WithoutType
<1>9. ASSUME NEW e PROVE Times(e, x) + Times(e, y) = Times(e, o)
  <2>0. Times(e, o) \in Nat /\ (Times(e, o) = 0 <=> \A i \in 1 .. Len(o) : o[i] # e)
    BY <1>4, TimesCounts
  <2>1. CASE e.source = "core"
    <3>1. /\ \A i \in 1 .. Len(o) : o[i] = e => i \notin C
          /\ \A i \in 1 .. Len(o) : o[i] = e => i \in B
      BY <1>7, <2>1
    <3> HIDE DEF B, C
    <3>2. Times(e, x) = Times(e, o) /\ Times(e, y) = 0
      BY <1>4, <3>1, TimesKept, TimesDropped
    <3>3. QED
      BY <2>0, <3>2
  <2>2. CASE e.source = "contrib"
    <3>1. /\ \A i \in 1 .. Len(o) : o[i] = e => i \in C
          /\ \A i \in 1 .. Len(o) : o[i] = e => i \notin B
      BY <1>7, <2>2
    <3> HIDE DEF B, C
    <3>2. Times(e, x) = 0 /\ Times(e, y) = Times(e, o)
      BY <1>4, <3>1, TimesKept, TimesDropped
    <3>3. QED
      BY <2>0, <3>2
  <2>3. CASE e.source \notin {"core", "contrib"}
    <3>1. \A i \in 1 .. Len(o) : o[i] # e
      BY <1>6, <2>3
    <3>2. /\ \A i \in 1 .. Len(o) : o[i] = e => i \in C
          /\ \A i \in 1 .. Len(o) : o[i] = e => i \in B
      BY <3>1
    <3> HIDE DEF B, C
    <3>3. Times(e, x) = 0 /\ Times(e, y) = 0
      BY <1>4, <3>2, TimesDropped
    <3>4. QED
      BY <2>0, <3>1, <3>3
  <2>4. QED
    BY <2>1, <2>2, <2>3
<1> HIDE DEF x, y
<1>10. x \o y \in Seq(T) /\ \A e : Times(e, x \o y) = Times(e, x) + Times(e, y)
  BY <1>8, TimesConcat
<1>11. QED
  BY <1>2, <1>5, <1>9, <1>10

(* The breaking changes, and the others.                                   *)
Others == {"deprecation", "new_component", "enhancement", "bug_fix"}

LEMMA ReportedEntries ==
    ASSUME NEW T, NEW entries \in Seq(T), NEW components, NEW cfg,
           \A i \in 1 .. Len(entries) : entries[i].source \in {"core", "contrib"}
    PROVE  LET c == GenerateUpstreamContent(entries, components, cfg)
               Fits(e, types) == /\ e.file.changeType \in types
                                 /\ ShouldInclude(e.file.component, components, cfg)
           IN  /\ c.breaking \in Seq(T) /\ c.other \in Seq(T)
               /\ \A e : Times(e, c.breaking) = IF Fits(e, {"breaking"})
                                                THEN Times(e, entries) ELSE 0
               /\ \A e : Times(e, c.other) = IF Fits(e, Others) THEN Times(e, entries) ELSE 0
<1> DEFINE S(type) == Section(entries, type, components, cfg)
           c == GenerateUpstreamContent(entries, components, cfg)
           a1 == S("deprecation")
           a2 == S("new_component")
           a3 == S("enhancement")
           a4 == S("bug_fix")
           Fits(e, types) == /\ e.file.changeType \in types
                             /\ ShouldInclude(e.file.component, components, cfg)
<1>1. c.breaking = S("breaking") /\ c.other = a1 \o a2 \o a3 \o a4
  BY DEF GenerateUpstreamContent, Section
<1>2. \A type : /\ S(type) \in Seq(T)
                /\ \A e : Times(e, S(type)) = IF IsOfType(e, type, components, cfg)
                                              THEN Times(e, entries) ELSE 0
  BY SectionEntries
<1>3. a1 \in Seq(T) /\ a2 \in Seq(T) /\ a3 \in Seq(T) /\ a4 \in Seq(T)
  BY <1>2
<1>4. \A e, type : IsOfType(e, type, components, cfg)
                     <=> e.file.changeType = type /\ ShouldInclude(e.file.component, components, cfg)
  BY DEF IsOfType
<1>5. ASSUME NEW e PROVE Times(e, S("breaking")) = IF Fits(e, {"breaking"})
                                                   THEN Times(e, entries) ELSE 0
  BY <1>2, <1>4
<1>6. ASSUME NEW e
      PROVE  Times(e, a1) + Times(e, a2) + Times(e, a3) + Times(e, a4)
               = IF Fits(e, Others) THEN Times(e, entries) ELSE 0
  <2>1. /\ Times(e, a1) = IF IsOfType(e, "deprecation", components, cfg) THEN Times(e, entries) ELSE 0
        /\ Times(e, a2) = IF IsOfType(e, "new_component", components, cfg) THEN Times(e, entries) ELSE 0
        /\ Times(e, a3) = IF IsOfType(e, "enhancement", components, cfg) THEN Times(e, entries) ELSE 0
        /\ Times(e, a4) = IF IsOfType(e, "bug_fix", components, cfg) THEN Times(e, entries) ELSE 0
    BY <1>2
  <2>2. Times(e, entries) \in Nat
    BY TimesCounts
  <2> HIDE DEF a1, a2, a3, a4, S
  <2> DEFINE n == Times(e, entries)
             inc == ShouldInclude(e.file.component, components, cfg)
             t == e.file.changeType
  <2>3. /\ Times(e, a1) = IF t = "deprecation" /\ inc THEN n ELSE 0
        /\ Times(e, a2) = IF t = "new_component" /\ inc THEN n ELSE 0
        /\ Times(e, a3) = IF t = "enhancement" /\ inc THEN n ELSE 0
        /\ Times(e, a4) = IF t = "bug_fix" /\ inc THEN n ELSE 0
    BY <1>4, <2>1
  <2>4. n \in Nat /\ (Fits(e, Others) <=> t \in Others /\ inc)
    BY <2>2
  <2> HIDE DEF n, inc, t, Fits
  <2>5. CASE t \in Others /\ inc
    <3>1. \/ t = "deprecation"
          \/ t = "new_component"
          \/ t = "enhancement"
          \/ t = "bug_fix"
      BY <2>5 DEF Others
    <3>2. Times(e, a1) + Times(e, a2) + Times(e, a3) + Times(e, a4) = n
      BY <2>3, <2>4, <2>5, <3>1
    <3>3. QED
      BY <2>4, <2>5, <3>2 DEF n
  <2>6. CASE ~(t \in Others /\ inc)
    <3>1. /\ ~(t = "deprecation" /\ inc) /\ ~(t = "new_component" /\ inc)
          /\ ~(t = "enhancement" /\ inc) /\ ~(t = "bug_fix" /\ inc)
      BY <2>6 DEF Others
    <3>2. Times(e, a1) + Times(e, a2) + Times(e, a3) + Times(e, a4) = 0
      BY <2>3, <3>1
    <3>3. QED
      BY <2>4, <2>6, <3>2
  <2>7. QED
    BY <2>5, <2>6
<1> HIDE DEF a1, a2, a3, a4, c
<1>7. /\ a1 \o a2 \in Seq(T) /\ (a1 \o a2) \o a3 \in Seq(T)
      /\ ((a1 \o a2) \o a3) \o a4 \in Seq(T)
  BY <1>3
<1>8. ASSUME NEW e
      PROVE  Times(e, ((a1 \o a2) \o a3) \o a4)
               = Times(e, a1) + Times(e, a2) + Times(e, a3) + Times(e, a4)
  <2>1. Times(e, a1 \o a2) = Times(e, a1) + Times(e, a2)
    BY <1>3, TimesConcat
  <2>2. Times(e, (a1 \o a2) \o a3) = Times(e, a1 \o a2) + Times(e, a3)
    BY <1>3, <1>7, TimesConcat
  <2>3. Times(e, ((a1 \o a2) \o a3) \o a4) = Times(e, (a1 \o a2) \o a3) + Times(e, a4)
    BY <1>3, <1>7, TimesConcat
  <2>4. QED
    BY <2>1, <2>2, <2>3
<1>9. /\ c.breaking \in Seq(T) /\ c.other \in Seq(T)
  BY <1>1, <1>2, <1>7
<1>10. \A e : Times(e, c.breaking) = IF Fits(e, {"breaking"}) THEN Times(e, entries) ELSE 0
  BY <1>1, <1>5
<1>11. \A e : Times(e, c.other) = IF Fits(e, Others) THEN Times(e, entries) ELSE 0
  BY <1>1, <1>6, <1>8
<1>12. QED
  BY <1>9, <1>10, <1>11 DEF c

(* A filled line that was not there before holds what it was given, and    *)
(* nothing is filled without a version.                                    *)
LEMMA NewLinesAreFilled ==
    ASSUME NEW T, NEW s \in Seq(T), NEW c, NEW l \in ToSet(FillUpstreamPlaceholders(s, c)),
           l.kind = "filled", l \notin ToSet(s)
    PROVE  c.version # <<>> /\ l.body = c[l.name]
<1> DEFINE n == Len(s)
           f == FillSlots(s, c)
           F == {f[i] : i \in 1 .. n}
           at == AfterBlank(f, Slot("versions")) \cup AfterBlank(f, Slot("breaking"))
           D == at \cup {i - 1 : i \in at}
           r1 == Without(f, D)
           D2 == {i \in DOMAIN r1 : r1[i] = Start}
           r2 == Without(r1, D2)
           D3 == AfterBlank(r2, End)
           r3 == Without(r2, D3)
<1>1. CASE c.version = <<>>
  <2>1. l \in ToSet(RemoveUpstreamSection(s))
    BY <1>1 DEF FillUpstreamPlaceholders
  <2>2. CASE RemoveUpstreamSection(s) = s
    BY <2>1, <2>2
  <2>3. ASSUME NEW j, NEW e, NEW a, NEW g, Cut(s, j, e, a, g),
               RemoveUpstreamSection(s) = Rest(s, a, g)
        PROVE  FALSE
    <3> DEFINE S == ToSet(s) \cup {Blank}
    <3>1. s \in Seq(S) /\ Blank \in S
      <4>1. s \in Seq(ToSet(s)) /\ \A i \in 1 .. Len(s) : s[i] \in ToSet(s)
        BY SeqOfItself
      <4>2. \A i \in 1 .. Len(s) : s[i] \in S
        BY <4>1
      <4>3. Blank \in S
        OBVIOUS
      <4> HIDE DEF S
      <4>4. QED
        BY <4>1, <4>2, <4>3, SeqOfElements
    <3>2. a \in 0 .. Len(s) /\ g \in 1 .. Len(s) + 1
      BY <2>3 DEF Cut
    <3> HIDE DEF S
    <3>3. Rest(s, a, g) \in Seq(S)
      BY <3>1, <3>2, RestLines
    <3>4. ToSet(Rest(s, a, g)) = {Rest(s, a, g)[i] : i \in 1 .. Len(Rest(s, a, g))}
      BY <3>3, SeqOfItself
    <3>5. l \in S
      BY <2>1, <2>3, <3>3, <3>4
    <3>6. l # Blank
      BY DEF Blank
    <3>7. QED
      BY <3>5, <3>6 DEF S
  <2>4. QED
    BY <2>2, <2>3, SectionRemoved
<1>2. CASE c.version # <<>>
  <2>1. l \in ToSet(r3)
    BY <1>2 DEF FillUpstreamPlaceholders, RemoveSlots, RemoveStart, RemoveEnd
  <2>2. /\ f \in Seq(F) /\ Len(f) = n
        /\ \A i \in 1 .. n :
              f[i] = IF s[i].kind = "slot" /\ (s[i].name = "other" \/ c[s[i].name] # <<>>)
                     THEN Filled(s[i].name, c[s[i].name])
                     ELSE s[i]
    BY FillSlotsLines
  <2> HIDE DEF f, D, F
  <2>3. r1 \in Seq(F)
    BY <2>2, WithoutType
  <2> HIDE DEF r1, D2
  <2>4. r2 \in Seq(F)
    BY <2>3, WithoutType
  <2> HIDE DEF r2, D3
  <2>5. r3 \in Seq(F)
    BY <2>4, WithoutType
  <2>6. ToSet(r3) = {r3[i] : i \in 1 .. Len(r3)}
    BY <2>5, SeqOfItself
  <2> HIDE DEF r3
  <2>7. l \in F
    BY <2>1, <2>5, <2>6
  <2>8. PICK i \in 1 .. n : l = f[i]
    BY <2>7 DEF F
  <2>9. s[i] \in ToSet(s)
    BY SeqOfItself
  <2>10. l = Filled(s[i].name, c[s[i].name])
    BY <2>2, <2>8, <2>9
  <2>11. l.name = s[i].name /\ l.body = c[s[i].name]
    BY <2>10 DEF Filled
  <2>12. QED
    BY <1>2, <2>11
<1>3. QED
  BY <1>1, <1>2

LEMMA ElementStays ==
    ASSUME NEW T, NEW s \in Seq(T), NEW D, NEW x \in ToSet(s),
           \A i \in 1 .. Len(s) : s[i] = x => i \notin D
    PROVE  Without(s, D) \in Seq(T) /\ x \in ToSet(Without(s, D))
<1>1. PICK i \in 1 .. Len(s) : s[i] = x
  BY SeqOfItself
<1>2. i \in (1 .. Len(s)) \ D
  BY <1>1
<1>3. x \in {s[k] : k \in (1 .. Len(s)) \ D}
  BY <1>1, <1>2
<1>4. QED
  BY <1>3, KeptElements

(* A placeholder that has content is in the file when the run is over.     *)
LEMMA PlaceholdersAreFilled ==
    ASSUME NEW T, NEW s \in Seq(T), NEW c, c.version # <<>>,
           NEW name, Slot(name) \in ToSet(s), name = "other" \/ c[name] # <<>>
    PROVE  Filled(name, c[name]) \in ToSet(FillUpstreamPlaceholders(s, c))
<1> DEFINE n == Len(s)
           l == Filled(name, c[name])
           f == FillSlots(s, c)
           F == {f[i] : i \in 1 .. n}
           at == AfterBlank(f, Slot("versions")) \cup AfterBlank(f, Slot("breaking"))
           D == at \cup {i - 1 : i \in at}
           r1 == Without(f, D)
           D2 == {i \in DOMAIN r1 : r1[i] = Start}
           r2 == Without(r1, D2)
           D3 == AfterBlank(r2, End)
           r3 == Without(r2, D3)
<1>1. FillUpstreamPlaceholders(s, c) = r3
  BY DEF FillUpstreamPlaceholders, RemoveSlots, RemoveStart, RemoveEnd
<1>2. /\ f \in Seq(F) /\ Len(f) = n
      /\ \A i \in 1 .. n :
            f[i] = IF s[i].kind = "slot" /\ (s[i].name = "other" \/ c[s[i].name] # <<>>)
                   THEN Filled(s[i].name, c[s[i].name])
                   ELSE s[i]
  BY FillSlotsLines
<1>3. l # Blank /\ l # Start /\ l # End /\ \A x : l # Slot(x)
  BY DEF Filled, Blank, Start, End, Slot
<1> HIDE DEF f, F
<1>4. l \in ToSet(f)
  <2>1. PICK i \in 1 .. n : s[i] = Slot(name)
    BY SeqOfItself
  <2>2. s[i].kind = "slot" /\ s[i].name = name
    BY <2>1 DEF Slot
  <2>3. f[i] = l
    BY <1>2, <2>2
  <2> HIDE DEF l
  <2>4. f \in Seq(F) /\ Len(f) = n
    BY <1>2
  <2> HIDE DEF n
  <2>5. ToSet(f) = {f[k] : k \in 1 .. n}
    <3>1. ToSet(f) = {f[k] : k \in 1 .. Len(f)}
      BY <2>4, SeqOfItself
    <3>2. QED
      BY <2>4, <3>1
  <2>6. QED
    BY <2>3, <2>5
<1> HIDE DEF l
<1>5. DOMAIN f = 1 .. n
  BY <1>2
<1>6. \A i \in D : f[i] # l
  <2>1. \A i \in at : f[i] # l /\ f[i - 1] # l
    BY <1>3 DEF AfterBlank
  <2> HIDE DEF at
  <2>2. QED
    BY <2>1
<1> HIDE DEF D
<1>7. r1 \in Seq(F) /\ l \in ToSet(r1)
  <2>1. \A i \in 1 .. Len(f) : f[i] = l => i \notin D
    BY <1>6
  <2>2. QED
    BY <1>2, <1>4, <2>1, ElementStays
<1>8. \A i \in D2 : r1[i] # l
  BY <1>3
<1> HIDE DEF r1, D2
<1>9. r2 \in Seq(F) /\ l \in ToSet(r2)
  <2>1. \A i \in 1 .. Len(r1) : r1[i] = l => i \notin D2
    BY <1>8
  <2>2. QED
    BY <1>7, <2>1, ElementStays
<1>10. \A i \in D3 : r2[i] # l
  BY <1>3 DEF AfterBlank
<1> HIDE DEF r2, D3
<1>11. l \in ToSet(r3)
  <2>1. \A i \in 1 .. Len(r2) : r2[i] = l => i \notin D3
    BY <1>10
  <2>2. QED
    BY <1>9, <2>1, ElementStays
<1>12. QED
  BY <1>1, <1>11 DEF l
================================================================================
