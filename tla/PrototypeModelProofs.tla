------------------------ MODULE PrototypeModelProofs ------------------------
(***************************************************************************)
(* What learning and merging do to the classes and to the length of a      *)
(* model: the lemmas that SwarmNodeProofs rests on.  First come facts      *)
(* about loops over a finite range and about least elements; their         *)
(* induction principle is derived from the well-foundedness of < on Nat,   *)
(* with sets in the place of predicates.                                   *)
(***************************************************************************)
EXTENDS PrototypeModel, FiniteSetTheorems, FunctionTheorems, WellFoundedInduction, TLAPS

-----------------------------------------------------------------------------
(* Loops and least elements.                                               *)

(* Every non-empty set of naturals has a least element.                    *)
LEMMA LeastNat ==
    ASSUME NEW S, S \subseteq Nat, S # {}
    PROVE  \E x \in S : \A y \in S : x <= y
<1> DEFINE R == OpToRel(<, Nat)
<1>1. IsWellFoundedOn(R, Nat)
    BY NatLessThanWellFounded
<1>2. \A x, y \in Nat : << y, x >> \in R <=> y < x
    BY DEF OpToRel
<1> HIDE DEF R
<1>3. PICK x \in S : \A y \in S : ~ (<< y, x >> \in R)
    BY <1>1, WFMin
<1>4. \A y \in S : x <= y
  <2> TAKE y \in S
  <2>1. x \in Nat /\ y \in Nat
      OBVIOUS
  <2>2. ~ (y < x)
      BY <1>2, <1>3, <2>1
  <2> QED
      BY <2>1, <2>2
<1> QED
    BY <1>4

(* Induction up to n, for a property given as the set of the numbers that  *)
(* have it.                                                                *)
LEMMA BoundedInduction ==
    ASSUME NEW n \in Nat, NEW S, 0 \in S, \A k \in 0 .. n - 1 : k \in S => k + 1 \in S
    PROVE  \A k \in 0 .. n : k \in S
<1> SUFFICES ASSUME (0 .. n) \ S # {} PROVE FALSE
    OBVIOUS
<1>1. PICK x \in (0 .. n) \ S : \A y \in (0 .. n) \ S : x <= y
    BY LeastNat, (0 .. n) \ S \subseteq Nat
<1>2. x # 0 /\ x - 1 \in 0 .. n - 1
    OBVIOUS
<1>3. x - 1 \in S
    BY <1>1, <1>2
<1> QED
    BY <1>2, <1>3

(* The successive states g[0], ..., g[n] of a loop over V.                 *)
IsLoopRun(g, n, V, b, step) ==
    /\ g \in [0 .. n -> V] /\ g[0] = b
    /\ \A k \in 1 .. n : g[k] = step[<< k, g[k - 1] >>]

(* A loop of n turns whose state stays in V has a run.                     *)
LEMMA LoopRuns ==
    ASSUME NEW V, NEW b \in V, NEW n \in Nat, NEW step \in [(1 .. n) \X V -> V]
    PROVE  \E f : IsLoopRun(f, n, V, b, step)
<1> DEFINE Run(m, g) == IsLoopRun(g, m, V, b, step)
           S == {m \in 0 .. n : \E g : Run(m, g)}
<1>1. 0 \in S
  <2>1. Run(0, [k \in 0 .. 0 |-> b])
      BY DEF IsLoopRun
  <2> HIDE DEF Run
  <2> QED
      BY <2>1
<1>2. ASSUME NEW m \in 0 .. n - 1, m \in S
      PROVE  m + 1 \in S
  <2>1. PICK g : Run(m, g)
      BY <1>2
  <2> DEFINE h == [k \in 0 .. m + 1 |-> IF k = m + 1 THEN step[<< m + 1, g[m] >>] ELSE g[k]]
  <2>2. step[<< m + 1, g[m] >>] \in V
      BY <2>1 DEF IsLoopRun
  <2>3. h \in [0 .. m + 1 -> V] /\ h[0] = b
      BY <2>1, <2>2 DEF IsLoopRun
  <2>4. ASSUME NEW k \in 1 .. m + 1 PROVE h[k] = step[<< k, h[k - 1] >>]
    <3>1. CASE k = m + 1
      <4>1. h[m + 1] = step[<< m + 1, g[m] >>] /\ h[m] = g[m]
          OBVIOUS
      <4>2. k - 1 = m
          BY <3>1
      <4> HIDE DEF h
      <4> QED
          BY <3>1, <4>1, <4>2
    <3>2. CASE k \in 1 .. m
        BY <3>2, <2>1 DEF IsLoopRun
    <3> QED
        BY <3>1, <3>2
  <2>5. Run(m + 1, h)
      BY <2>3, <2>4 DEF IsLoopRun
  <2> HIDE DEF Run, h
  <2> QED
      BY <2>5
<1>3. n \in S
  <2> HIDE DEF S
  <2> QED
      BY <1>1, <1>2, BoundedInduction
<1> QED
    BY <1>3

(* ... and every run of it ends in V.                                      *)
LEMMA LoopStays ==
    ASSUME NEW V, NEW n \in Nat, NEW g, g[0] \in V,
           \A k \in 1 .. n : g[k - 1] \in V => g[k] \in V
    PROVE  g[n] \in V
<1> DEFINE S == {k \in 0 .. n : g[k] \in V}
<1>1. 0 \in S
    OBVIOUS
<1>2. ASSUME NEW k \in 0 .. n - 1, k \in S
      PROVE  k + 1 \in S
  <2>1. k + 1 \in 1 .. n /\ (k + 1) - 1 = k
      OBVIOUS
  <2>2. g[k + 1] \in V
      BY <1>2, <2>1
  <2> QED
      BY <2>1, <2>2
<1>3. n \in S
  <2> HIDE DEF S
  <2> QED
      BY <1>1, <1>2, BoundedInduction
<1> QED
    BY <1>3

(* a / x < b / y, by cross-multiplication.                                 *)
Under(a, x, b, y) == a * y < b * x

(* No fraction is both under and over another one.                         *)
LEMMA FractionAsym ==
    ASSUME NEW a \in Int, NEW b \in Int, NEW x \in Nat \ {0}, NEW y \in Nat \ {0},
           Under(a, x, b, y)
    PROVE  ~ Under(b, y, a, x)
<1>1. a * y \in Int /\ b * x \in Int
    OBVIOUS
<1> QED
    BY <1>1 DEF Under

(* Fractions compared by cross-multiplication are totally ordered.         *)
LEMMA FractionOrder ==
    ASSUME NEW a \in Int, NEW b \in Int, NEW c \in Int,
           NEW x \in Nat \ {0}, NEW y \in Nat \ {0}, NEW z \in Nat \ {0},
           ~ Under(b, y, a, x), ~ Under(c, z, b, y)
    PROVE  /\ ~ Under(c, z, a, x)
           /\ Under(a, x, b, y) \/ Under(b, y, c, z) => Under(a, x, c, z)
<1>1. (a * z) * y = (a * y) * z /\ (b * x) * z = (b * z) * x /\ (c * y) * x = (c * x) * y
    OBVIOUS
<1>2. /\ a * y <= b * x => (a * y) * z <= (b * x) * z
      /\ a * y < b * x => (a * y) * z < (b * x) * z
      /\ b * z <= c * y => (b * z) * x <= (c * y) * x
      /\ b * z < c * y => (b * z) * x < (c * y) * x
    OBVIOUS
<1>3. /\ (a * z) * y <= (c * x) * y => a * z <= c * x
      /\ (a * z) * y < (c * x) * y => a * z < c * x
    OBVIOUS
<1>4. /\ a * z \in Int /\ c * x \in Int /\ (a * z) * y \in Int /\ (c * x) * y \in Int
      /\ (b * x) * z \in Int /\ a * y \in Int /\ b * x \in Int /\ b * z \in Int /\ c * y \in Int
    OBVIOUS
<1> QED
    BY <1>1, <1>2, <1>3, <1>4 DEF Under

(* A total preorder, given as a set of pairs, has a least element on every *)
(* finite set.                                                             *)
LEMMA LeastElement ==
    ASSUME NEW S, IsFiniteSet(S), S # {}, NEW R,
           \A a, b \in S : << a, b >> \in R \/ << b, a >> \in R,
           \A a, b, c \in S : << a, b >> \in R /\ << b, c >> \in R => << a, c >> \in R
    PROVE  \E a \in S : \A b \in S : << a, b >> \in R
<1> DEFINE HasLeast(T) == \E a \in T : \A b \in T : << a, b >> \in R
           Bad == {T \in SUBSET S : T # {} /\ ~ HasLeast(T)}
           Sizes == {Cardinality(T) : T \in Bad}
<1>1. \A T \in SUBSET S : IsFiniteSet(T) /\ Cardinality(T) \in Nat
    BY FS_Subset, FS_CardinalityType
<1>2. SUFFICES ASSUME Bad # {} PROVE FALSE
  <2>1. S \in Bad \/ HasLeast(S)
      OBVIOUS
  <2> QED
      BY <2>1
<1>3. PICK T \in Bad : \A U \in Bad : Cardinality(T) <= Cardinality(U)
  <2>1. Sizes \subseteq Nat /\ Sizes # {}
      BY <1>1, <1>2
  <2>2. PICK n \in Sizes : \A m \in Sizes : n <= m
    <3> HIDE DEF Sizes
    <3> QED
      BY <2>1, LeastNat
  <2> QED
      BY <2>2
<1>4. PICK t : t \in T
    OBVIOUS
<1> DEFINE U == T \ {t}
<1>5. U \in SUBSET S /\ IsFiniteSet(U) /\ Cardinality(U) = Cardinality(T) - 1
    BY <1>1, <1>4, FS_RemoveElement
<1>6. CASE U = {}
  <2>1. << t, t >> \in R
      BY <1>4
  <2>2. \A b \in T : b = t
      BY <1>6
  <2>3. HasLeast(T)
      BY <1>4, <2>1, <2>2
  <2> QED
      BY <2>3
<1>7. CASE U # {}
  <2>1. U \notin Bad
    <3>1. T \in SUBSET S /\ Cardinality(T) \in Nat
        BY <1>1
    <3>2. U \in Bad => Cardinality(T) <= Cardinality(U)
      <4> HIDE DEF U, Bad
      <4> QED
          BY <1>3
    <3>3. Cardinality(U) = Cardinality(T) - 1
        BY <1>5
    <3> HIDE DEF U, Bad
    <3> QED
        BY <3>1, <3>2, <3>3
  <2>2. PICK u \in U : \A b \in U : << u, b >> \in R
    <3>1. HasLeast(U)
        BY <1>5, <1>7, <2>1
    <3> HIDE DEF U
    <3> QED
        BY <3>1
  <2>3. u \in T /\ u \in S /\ t \in S
      BY <1>4
  <2>4. CASE << u, t >> \in R
    <3>1. \A b \in T : << u, b >> \in R
        BY <2>2, <2>4
    <3> QED
        BY <2>3, <3>1
  <2>5. CASE << t, u >> \in R
    <3>1. << t, t >> \in R
        BY <2>3
    <3>2. \A b \in T : << t, b >> \in R
        BY <2>2, <2>3, <2>5, <3>1
    <3> QED
        BY <1>4, <3>2
  <2> QED
      BY <2>3, <2>4, <2>5
<1> QED
    BY <1>6, <1>7

(* num[a] / den[a] is least in S; Tie orders the equal ones.               *)
IsLeastFraction(a, S, num, den, Tie) ==
    \A b \in S :
        /\ ~ Under(num[b], den[b], num[a], den[a])
        /\ Under(num[a], den[a], num[b], den[b]) \/ << a, b >> \in Tie

TotalOrderOn(S, Tie) ==
    /\ \A a, b \in S : << a, b >> \in Tie \/ << b, a >> \in Tie
    /\ \A a, b, c \in S : << a, b >> \in Tie /\ << b, c >> \in Tie => << a, c >> \in Tie

(* A finite set has a least fraction, the first of them in the order Tie.  *)
LEMMA LeastFraction ==
    ASSUME NEW S, IsFiniteSet(S), S # {},
           NEW num \in [S -> Int], NEW den \in [S -> Nat \ {0}], NEW Tie,
           TotalOrderOn(S, Tie)
    PROVE  \E a \in S : IsLeastFraction(a, S, num, den, Tie)
<1> DEFINE less(a, b) == Under(num[a], den[a], num[b], den[b])
           Before(a, b) == ~ less(b, a) /\ (less(a, b) \/ << a, b >> \in Tie)
           R == {c \in S \X S : Before(c[1], c[2])}
<1>1. ASSUME NEW a \in S, NEW b \in S, less(a, b)
      PROVE  ~ less(b, a)
  <2>1. num[a] \in Int /\ num[b] \in Int /\ den[a] \in Nat \ {0} /\ den[b] \in Nat \ {0}
      OBVIOUS
  <2> QED
      BY <1>1, <2>1, FractionAsym
<1>2. ASSUME NEW a \in S, NEW b \in S, NEW c \in S, ~ less(b, a), ~ less(c, b)
      PROVE  ~ less(c, a) /\ (less(a, b) \/ less(b, c) => less(a, c))
  <2> DEFINE p == num[a]  q == num[b]  r == num[c]
             x == den[a]  y == den[b]  z == den[c]
  <2>1. /\ p \in Int /\ q \in Int /\ r \in Int
        /\ x \in Nat \ {0} /\ y \in Nat \ {0} /\ z \in Nat \ {0}
      OBVIOUS
  <2>2. ~ Under(q, y, p, x) /\ ~ Under(r, z, q, y)
      BY <1>2
  <2> HIDE DEF p, q, r, x, y, z
  <2>3. /\ ~ Under(r, z, p, x)
        /\ Under(p, x, q, y) \/ Under(q, y, r, z) => Under(p, x, r, z)
      BY <2>1, <2>2, FractionOrder, SMTT(60)
  <2> QED
      BY <2>3 DEF p, q, r, x, y, z
<1> HIDE DEF less
<1>3. \A a, b \in S : Before(a, b) \/ Before(b, a)
    BY <1>1 DEF TotalOrderOn
<1>4. ASSUME NEW a \in S, NEW b \in S, NEW c \in S, Before(a, b), Before(b, c)
      PROVE  Before(a, c)
  <2>1. << a, b >> \in Tie /\ << b, c >> \in Tie => << a, c >> \in Tie
      BY DEF TotalOrderOn
  <2> QED
      BY <1>2, <1>4, <2>1
<1>5. \A a, b \in S : << a, b >> \in R <=> Before(a, b)
    OBVIOUS
<1> HIDE DEF Before, R
<1>6. \E a \in S : \A b \in S : << a, b >> \in R
  <2>1. \A a, b \in S : << a, b >> \in R \/ << b, a >> \in R
      BY <1>3, <1>5
  <2>2. \A a, b, c \in S : << a, b >> \in R /\ << b, c >> \in R => << a, c >> \in R
      BY <1>4, <1>5
  <2> QED
      BY <2>1, <2>2, LeastElement
<1> QED
    BY <1>5, <1>6 DEF Before, less, IsLeastFraction

-----------------------------------------------------------------------------
(* The prototypes of a model.                                              *)

(* The prototypes whose class is in L.                                     *)
Of(L) == {p \in Prototype : p.label \in L}

IsPicking(kept, s, I) ==
    /\ kept[0] = << >>
    /\ \A k \in 1 .. Len(s) :
          /\ kept[k - 1] \in Seq({s[i] : i \in I})
          /\ kept[k] = IF k \in I THEN Append(kept[k - 1], s[k]) ELSE kept[k - 1]

(* Pick returns the list that its loop ends with.                          *)
LEMMA PickRuns ==
    ASSUME NEW T, NEW s \in Seq(T), NEW I, I \subseteq 1 .. Len(s)
    PROVE  /\ \E kept : IsPicking(kept, s, I) /\ Pick(s, I) = kept[Len(s)]
           /\ Pick(s, I) \in Seq({s[i] : i \in I})
<1> DEFINE V == Seq({s[i] : i \in I})
           n == Len(s)
           Turn(k, v) == IF k \in I THEN Append(v, s[k]) ELSE v
           step == [c \in (1 .. n) \X V |-> Turn(c[1], c[2])]
           Run(f) == [k \in 0 .. n |-> IF k = 0 THEN << >> ELSE Turn(k, f[k - 1])]
           kept == CHOOSE f : f = Run(f)
<1>1. n \in Nat /\ << >> \in V
    OBVIOUS
<1>2. \A k \in 1 .. n, v \in V : Turn(k, v) \in V
    OBVIOUS
<1>3. Pick(s, I) = kept[n]
    BY DEF Pick
<1> HIDE DEF V, n, Turn
<1>4. \A k \in 1 .. n, v \in V : step[<< k, v >>] = Turn(k, v)
    OBVIOUS
<1>5. step \in [(1 .. n) \X V -> V]
    BY <1>2
<1> HIDE DEF step
<1> DEFINE b == << >>
<1>0. b \in V
    BY <1>1
<1> HIDE DEF b
<1>6. PICK f : IsLoopRun(f, n, V, b, step)
    BY <1>0, <1>1, <1>5, LoopRuns
<1>7. \A k \in 1 .. n : f[k - 1] \in V /\ f[k] = Turn(k, f[k - 1])
  <2> TAKE k \in 1 .. n
  <2>1. k - 1 \in 0 .. n
      BY <1>1
  <2> QED
      BY <1>4, <1>6, <2>1 DEF IsLoopRun
<1>8. f = Run(f)
    BY <1>1, <1>6, <1>7 DEF b, IsLoopRun
<1>9. kept = Run(kept)
    BY <1>8
<1> HIDE DEF kept
<1>10. ASSUME NEW k \in 0 .. n PROVE kept[k] = IF k = 0 THEN << >> ELSE Turn(k, kept[k - 1])
    BY <1>9
<1>11. kept[0] \in V /\ \A k \in 1 .. n : kept[k] = Turn(k, kept[k - 1])
    BY <1>1, <1>10
<1>12. \A k \in 1 .. n : kept[k - 1] \in V => kept[k] \in V
    BY <1>2, <1>11
<1>13. kept[n] \in V
    BY <1>1, <1>11, <1>12, LoopStays
<1>14. ASSUME NEW k \in 1 .. n PROVE kept[k - 1] \in V
  <2>1. k - 1 \in Nat
      BY <1>1
  <2>2. \A m \in 1 .. k - 1 : kept[m - 1] \in V => kept[m] \in V
      BY <1>1, <1>12
  <2> QED
      BY <1>11, <2>1, <2>2, LoopStays
<1>15. IsPicking(kept, s, I)
  <2>1. kept[0] = << >>
      BY <1>1, <1>10
  <2>2. \A k \in 1 .. n : kept[k] = Turn(k, kept[k - 1])
      BY <1>11
  <2> QED
      BY <1>14, <2>1, <2>2 DEF IsPicking, V, n, Turn
<1> QED
    BY <1>3, <1>13, <1>15 DEF V, n

(* A list comprehension yields elements of the list at the given indices.  *)
LEMMA PickType ==
    ASSUME NEW T, NEW s \in Seq(T), NEW I, I \subseteq 1 .. Len(s)
    PROVE  Pick(s, I) \in Seq({s[i] : i \in I})
BY PickRuns

(* A list comprehension loses none of the elements it is to keep.          *)
LEMMA PickKeeps ==
    ASSUME NEW T, NEW s \in Seq(T), NEW I, I \subseteq 1 .. Len(s), NEW i \in I
    PROVE  \E j \in DOMAIN Pick(s, I) : Pick(s, I)[j] = s[i]
<1> DEFINE n == Len(s)
           Has(list) == \E j \in DOMAIN list : list[j] = s[i]
<1>1. PICK kept : IsPicking(kept, s, I) /\ Pick(s, I) = kept[n]
    BY PickRuns
<1> DEFINE S == {k \in 0 .. n : k >= i => kept[k] \in Seq(T) /\ Has(kept[k])}
<1>2. n \in Nat /\ i \in 1 .. n
    OBVIOUS
<1>3. 0 \in S
    BY <1>2
<1>4. ASSUME NEW k \in 0 .. n - 1, k \in S PROVE k + 1 \in S
  <2>1. k + 1 \in 1 .. n /\ (k + 1) - 1 = k
      BY <1>2
  <2> DEFINE list == kept[k]
             longer == kept[k + 1]
  <2>2. list \in Seq({s[m] : m \in I})
        /\ longer = IF k + 1 \in I THEN Append(list, s[k + 1]) ELSE list
      BY <1>1, <2>1 DEF IsPicking
  <2>3. k >= i => Has(list)
      BY <1>2, <1>4
  <2> HIDE DEF list, longer
  <2>4. {s[m] : m \in I} \subseteq T
      OBVIOUS
  <2>5. list \in Seq(T) /\ s[k + 1] \in T
    <3> DEFINE U == {s[m] : m \in I}
    <3>1. list \in Seq(U) /\ U \subseteq T
        BY <2>2, <2>4
    <3> HIDE DEF U
    <3> QED
        BY <2>1, <3>1
  <2>6. CASE k + 1 \in I
    <3>1. longer = Append(list, s[k + 1])
        BY <2>2, <2>6
    <3> DEFINE m == Len(list) + 1
    <3>a. /\ longer \in Seq(T) /\ m \in DOMAIN longer /\ longer[m] = s[k + 1]
          /\ \A j \in DOMAIN list : j \in DOMAIN longer /\ longer[j] = list[j]
        BY <2>5, <3>1
    <3> HIDE DEF m
    <3>2. longer \in Seq(T) /\ (k + 1 = i => Has(longer)) /\ (Has(list) => Has(longer))
        BY <3>a
    <3> QED
        BY <1>2, <2>1, <2>3, <3>2 DEF longer
  <2>7. CASE k + 1 \notin I
    <3>1. longer = list /\ k + 1 # i
        BY <2>2, <2>7
    <3> QED
        BY <1>2, <2>1, <2>3, <2>5, <3>1 DEF longer
  <2> QED
      BY <2>6, <2>7
<1>5. n \in S
  <2> HIDE DEF S, n, Has
  <2>1. \A k \in 0 .. n - 1 : k \in S => k + 1 \in S
      BY <1>4
  <2>2. \A k \in 0 .. n : k \in S
      BY <1>2, <1>3, <2>1, BoundedInduction
  <2> QED
      BY <1>2, <2>2
<1> QED
    BY <1>1, <1>2, <1>5

(* Gaps are naturals.                                                      *)
LEMMA GapType ==
    ASSUME NEW p \in Prototype, NEW q \in Prototype
    PROVE  Gap(p, q) \in Nat
<1>1. p.total * q.weight - q.total * p.weight \in Int
    BY DEF Prototype
<1> QED
    BY <1>1 DEF Gap, Abs

(* argmin returns one of the indices it is given.                          *)
LEMMA NearestIn ==
    ASSUME NEW protos \in Seq(Prototype), NEW I, I \subseteq DOMAIN protos, I # {},
           NEW x \in Prototype
    PROVE  Nearest(protos, I, x) \in I
<1> DEFINE num == [i \in I |-> Gap(protos[i], x)]
           den == [i \in I |-> protos[i].weight]
           Tie == {c \in I \X I : c[1] <= c[2]}
<1>1. \A i \in I : Gap(protos[i], x) \in Int /\ protos[i].weight \in Nat \ {0} /\ i \in Int
  <2> TAKE i \in I
  <2>1. protos[i] \in Prototype /\ i \in Int
      OBVIOUS
  <2>2. Gap(protos[i], x) \in Nat
      BY <2>1, GapType
  <2>3. protos[i].weight \in Nat \ {0}
      BY <2>1 DEF Prototype
  <2> QED
      BY <2>1, <2>2, <2>3
<1>2. IsFiniteSet(I)
    BY FS_Interval, FS_Subset
<1>3. num \in [I -> Int] /\ den \in [I -> Nat \ {0}]
    BY <1>1
<1>4. (\A i, j \in I : << i, j >> \in Tie <=> i <= j) /\ TotalOrderOn(I, Tie)
    BY <1>1 DEF TotalOrderOn
<1>5. \A i, j \in I : Under(num[i], den[i], num[j], den[j]) <=> Closer(protos[i], protos[j], x)
    BY DEF Under, Closer
<1> HIDE DEF num, den, Tie
<1>6. PICK i \in I : IsLeastFraction(i, I, num, den, Tie)
    BY <1>2, <1>3, <1>4, LeastFraction
<1>7. \A j \in I : /\ ~ Closer(protos[j], protos[i], x)
                   /\ Closer(protos[i], protos[j], x) \/ i <= j
    BY <1>4, <1>5, <1>6 DEF IsLeastFraction
<1> QED
    BY <1>7 DEF Nearest

(* A class of the list has a first prototype.                              *)
LEMMA FirstOfType ==
    ASSUME NEW protos \in Seq(Prototype), NEW i \in DOMAIN protos
    PROVE  FirstOf(protos, protos[i].label) \in Nat
<1> DEFINE c == protos[i].label
           S == {j \in DOMAIN protos : protos[j].label = c}
<1>1. S \subseteq Nat /\ S # {}
    OBVIOUS
<1>2. PICK x \in S : \A y \in S : x <= y
  <2> HIDE DEF S
  <2> QED
      BY <1>1, LeastNat
<1>3. \E x_1 \in DOMAIN protos :
        protos[x_1].label = c /\ \A j \in DOMAIN protos : protos[j].label = c => x_1 <= j
    BY <1>2
<1> HIDE DEF c
<1>4. FirstOf(protos, c) \in DOMAIN protos
    BY <1>3 DEF FirstOf
<1> QED
    BY <1>4 DEF c

(* Two prototypes of one class are found when there are any.               *)
LEMMA NearestPairIn ==
    ASSUME NEW protos \in Seq(Prototype), SameClassPairs(protos) # {}
    PROVE  NearestPair(protos) \in SameClassPairs(protos)
<1> DEFINE S == SameClassPairs(protos)
           num == [a \in S |-> Gap(protos[a[1]], protos[a[2]])]
           den == [a \in S |-> protos[a[1]].weight * protos[a[2]].weight]
           Tie == {c \in S \X S : ScannedBefore(protos, c[1], c[2])}
           First(a) == FirstOf(protos, protos[a[1]].label)
<1>1. ASSUME NEW a \in S
      PROVE  /\ a[1] \in DOMAIN protos /\ a[2] \in DOMAIN protos
             /\ a[1] \in Nat /\ a[2] \in Nat /\ a = << a[1], a[2] >>
             /\ protos[a[1]] \in Prototype /\ protos[a[2]] \in Prototype
    BY DEF SameClassPairs
<1>2. ASSUME NEW a \in S PROVE First(a) \in Nat
    BY <1>1, FirstOfType
<1>3. ASSUME NEW a \in S
      PROVE  Gap(protos[a[1]], protos[a[2]]) \in Int
             /\ protos[a[1]].weight * protos[a[2]].weight \in Nat \ {0}
  <2>1. Gap(protos[a[1]], protos[a[2]]) \in Nat
      BY <1>1, GapType
  <2>2. protos[a[1]].weight \in Nat \ {0} /\ protos[a[2]].weight \in Nat \ {0}
      BY <1>1 DEF Prototype
  <2>3. protos[a[1]].weight * protos[a[2]].weight \in Nat \ {0}
      BY <2>2
  <2> QED
      BY <2>1, <2>3
<1>4. num \in [S -> Int] /\ den \in [S -> Nat \ {0}]
    BY <1>3
<1>5. IsFiniteSet(S)
  <2>1. IsFiniteSet((DOMAIN protos) \X (DOMAIN protos))
    <3>1. DOMAIN protos = 1 .. Len(protos) /\ 1 \in Int /\ Len(protos) \in Int
        OBVIOUS
    <3>2. IsFiniteSet(DOMAIN protos)
        BY <3>1, FS_Interval
    <3> QED
        BY <3>2, FS_Product
  <2> QED
      BY <2>1, FS_Subset DEF SameClassPairs
<1>6. \A a, b \in S : << a, b >> \in Tie <=>
            \/ First(a) < First(b)
            \/ First(a) = First(b) /\ a[1] < b[1]
            \/ a[1] = b[1] /\ a[2] <= b[2]
    BY DEF ScannedBefore
<1>7. \A a, b \in S : a[1] = b[1] => First(a) = First(b)
    OBVIOUS
<1> HIDE DEF First, Tie
<1>8. TotalOrderOn(S, Tie)
  <2>1. ASSUME NEW a \in S, NEW b \in S PROVE << a, b >> \in Tie \/ << b, a >> \in Tie
    <3>1. /\ First(a) \in Nat /\ First(b) \in Nat /\ a[1] \in Nat /\ b[1] \in Nat
          /\ a[2] \in Nat /\ b[2] \in Nat
        BY <1>1, <1>2
    <3> QED
        BY <1>6, <3>1
  <2>2. ASSUME NEW a \in S, NEW b \in S, NEW c \in S, << a, b >> \in Tie, << b, c >> \in Tie
        PROVE  << a, c >> \in Tie
    <3>1. /\ First(a) \in Nat /\ First(b) \in Nat /\ First(c) \in Nat
          /\ a[1] \in Nat /\ b[1] \in Nat /\ c[1] \in Nat
          /\ a[2] \in Nat /\ b[2] \in Nat /\ c[2] \in Nat
        BY <1>1, <1>2
    <3>2. /\ First(a) < First(b) \/ (First(a) = First(b) /\ a[1] < b[1]) \/ (a[1] = b[1] /\ a[2] <= b[2])
          /\ First(b) < First(c) \/ (First(b) = First(c) /\ b[1] < c[1]) \/ (b[1] = c[1] /\ b[2] <= c[2])
          /\ (a[1] = b[1] => First(a) = First(b)) /\ (b[1] = c[1] => First(b) = First(c))
        BY <1>6, <1>7, <2>2
    <3>3. First(a) < First(c) \/ (First(a) = First(c) /\ a[1] < c[1]) \/ (a[1] = c[1] /\ a[2] <= c[2])
        BY <3>1, <3>2
    <3> QED
        BY <1>6, <3>3
  <2> QED
      BY <2>1, <2>2 DEF TotalOrderOn
<1>9. \A a, b \in S : /\ Under(num[a], den[a], num[b], den[b]) <=> PairCloser(protos, a, b)
    BY DEF Under, PairCloser
<1>10. \A a, b \in S : << a, b >> \in Tie <=> ScannedBefore(protos, a, b)
    BY DEF Tie
<1> HIDE DEF num, den, S
<1>11. PICK a \in S : IsLeastFraction(a, S, num, den, Tie)
    BY <1>4, <1>5, <1>8, LeastFraction DEF S
<1>12. \A b \in S : /\ ~ PairCloser(protos, b, a)
                    /\ PairCloser(protos, a, b) \/ ScannedBefore(protos, a, b)
    BY <1>9, <1>10, <1>11 DEF IsLeastFraction
<1> QED
    BY <1>12 DEF NearestPair, S

(* Deleting an element of a list.                                          *)
LEMMA WithoutType ==
    ASSUME NEW T, NEW s \in Seq(T), NEW j \in Nat \ {0}
    PROVE  /\ Without(s, j) \in Seq(T)
           /\ s # << >> => Len(Without(s, j)) = Len(s) - 1
<1>1. CASE s # << >>
  <2>1. Len(s) - 1 \in Nat
      BY <1>1
  <2>2. \A k \in 1 .. Len(s) - 1 : (IF k < j THEN s[k] ELSE s[k + 1]) \in T
      OBVIOUS
  <2> QED
      BY <2>1, <2>2 DEF Without
<1>2. CASE s = << >>
  <2>1. 1 .. Len(s) - 1 = 1 .. 0
      BY <1>2
  <2>2. Without(s, j) = [k \in 1 .. 0 |-> IF k < j THEN s[k] ELSE s[k + 1]]
      BY <2>1 DEF Without
  <2>3. \A k \in 1 .. 0 : (IF k < j THEN s[k] ELSE s[k + 1]) \in T
      OBVIOUS
  <2>4. Without(s, j) \in [1 .. 0 -> T]
      BY <2>2, <2>3
  <2> QED
      BY <1>2, <2>4
<1> QED
    BY <1>1, <1>2

(* A record with the fields of a prototype is one.                         *)
LEMMA OfType ==
    ASSUME NEW L, NEW t \in Int, NEW w \in Nat \ {0}, NEW c \in Nat, c \in L, NEW d \in Nat
    PROVE  [total |-> t, weight |-> w, label |-> c, shape |-> d] \in Of(L)
BY DEF Of, Prototype

(* Consolidating two prototypes of classes in L yields another one.        *)
LEMMA ConsolidatedType ==
    ASSUME NEW L, NEW p \in Of(L), NEW q \in Of(L)
    PROVE  Consolidated(p, q) \in Of(L)
<1>1. /\ p \in [total : Int, weight : Nat \ {0}, label : Nat, shape : Nat] /\ p.label \in L
      /\ q.total \in Int /\ q.weight \in Nat \ {0}
    BY DEF Of, Prototype
<1> DEFINE t == p.total + q.total
           w == p.weight + q.weight
<1>2. t \in Int /\ w \in Nat \ {0}
    BY <1>1
<1>3. Consolidated(p, q) = [total |-> t, weight |-> w, label |-> p.label, shape |-> p.shape]
    BY DEF Consolidated
<1> DEFINE c == p.label
           d == p.shape
<1>4. c \in Nat /\ c \in L /\ d \in Nat
    BY <1>1
<1> HIDE DEF t, w, c, d
<1>5. [total |-> t, weight |-> w, label |-> c, shape |-> d] \in Of(L)
    BY <1>2, <1>4, OfType
<1> QED
    BY <1>3, <1>5 DEF c, d

(* The outcome of a turn of _prune on prototypes whose classes are in L.   *)
Pruned(L) == [protos : Seq(Of(L)), raised : BOOLEAN]

(* A record with the fields of an outcome of _prune is one.                *)
LEMMA PrunedType ==
    ASSUME NEW L, NEW s \in Seq(Of(L)), NEW r \in BOOLEAN
    PROVE  [protos |-> s, raised |-> r] \in Pruned(L)
BY DEF Pruned

(* One turn of _prune brings no class in; it drops a prototype or raises,  *)
(* and raises only when no two prototypes are of one class.                *)
LEMMA PruneOnceType ==
    ASSUME NEW L, NEW protos \in Seq(Of(L))
    PROVE  /\ PruneOnce(protos) \in Pruned(L)
           /\ ~ PruneOnce(protos).raised /\ protos # << >> =>
                    Len(PruneOnce(protos).protos) = Len(protos) - 1
           /\ PruneOnce(protos).raised =>
                    SameClassPairs(protos) = {} /\ PruneOnce(protos).protos = protos
<1>1. protos \in Seq(Prototype)
    BY DEF Of
<1>2. CASE SameClassPairs(protos) # {}
  <2> DEFINE pair == NearestPair(protos)
             fused == Consolidated(protos[pair[1]], protos[pair[2]])
             list == [protos EXCEPT ![pair[1]] = fused]
             rest == Without(list, pair[2])
  <2>1. pair \in SameClassPairs(protos)
      BY <1>1, <1>2, NearestPairIn
  <2> HIDE DEF pair
  <2>2. pair[1] \in 1 .. Len(protos) /\ pair[2] \in 1 .. Len(protos)
      BY <2>1 DEF SameClassPairs
  <2>3. fused \in Of(L)
      BY <2>2, ConsolidatedType
  <2> HIDE DEF fused
  <2>4. list \in Seq(Of(L)) /\ Len(list) = Len(protos) /\ list # << >> /\ pair[2] \in Nat \ {0}
      BY <2>2, <2>3
  <2> HIDE DEF list
  <2>5. rest \in Seq(Of(L)) /\ Len(rest) = Len(protos) - 1
      BY <2>4, WithoutType
  <2>6. PruneOnce(protos) = [protos |-> rest, raised |-> FALSE]
      BY <1>2 DEF PruneOnce, list, fused, pair
  <2> HIDE DEF rest
  <2>7. PruneOnce(protos).protos = rest /\ PruneOnce(protos).raised = FALSE
      BY <2>6
  <2> QED
      BY <2>5, <2>6, <2>7, PrunedType
<1>3. CASE SameClassPairs(protos) = {}
  <2> DEFINE rest == Without(protos, 1)
  <2>1. rest \in Seq(Of(L)) /\ (protos # << >> => Len(rest) = Len(protos) - 1)
      BY WithoutType
  <2> HIDE DEF rest
  <2>2. CASE PruneOnce(protos) = [protos |-> rest, raised |-> FALSE]
    <3>1. PruneOnce(protos) \in Pruned(L)
        BY <2>1, <2>2, PrunedType
    <3> QED
        BY <1>3, <2>1, <2>2, <3>1
  <2>3. CASE PruneOnce(protos) = [protos |-> protos, raised |-> TRUE]
    <3>1. PruneOnce(protos) \in Pruned(L)
        BY <2>3, PrunedType
    <3> QED
        BY <1>3, <2>3, <3>1
  <2> QED
      BY <1>3, <2>2, <2>3 DEF PruneOnce, rest
<1> QED
    BY <1>2, <1>3

(* _prune as a loop of excess turns.                                       *)
Excess(protos) == IF Len(protos) > MaxPrototypes THEN Len(protos) - MaxPrototypes ELSE 0

IsPruning(turn, protos) ==
    /\ turn[0] = [protos |-> protos, raised |-> FALSE]
    /\ \A k \in 1 .. Excess(protos) :
          turn[k] = IF turn[k - 1].raised THEN turn[k - 1] ELSE PruneOnce(turn[k - 1].protos)

(* Prune returns the state of its loop after the last turn.                *)
LEMMA PruneRuns ==
    ASSUME NEW L, NEW protos \in Seq(Of(L))
    PROVE  \E turn : IsPruning(turn, protos) /\ Prune(protos) = turn[Excess(protos)]
<1> DEFINE V == Pruned(L)
           n == Excess(protos)
           b == [protos |-> protos, raised |-> FALSE]
           Turn(v) == IF v.raised THEN v ELSE PruneOnce(v.protos)
           step == [c \in (1 .. n) \X V |-> Turn(c[2])]
           Run(f) == [k \in 0 .. n |-> IF k = 0 THEN b ELSE Turn(f[k - 1])]
           turn == CHOOSE f : f = Run(f)
<1>1. n \in Nat
    BY ModelAssumption DEF Excess
<1>2. b \in V
    BY PrunedType
<1>3. ASSUME NEW v \in V PROVE Turn(v) \in V
  <2>1. v.protos \in Seq(Of(L))
      BY DEF Pruned
  <2> QED
      BY <2>1, PruneOnceType
<1>4. Prune(protos) = turn[n]
    BY DEF Prune, Excess
<1>5. turn[0] = b /\ (\A k \in 1 .. n : turn[k] = Turn(turn[k - 1])) => IsPruning(turn, protos)
    BY DEF IsPruning
<1> HIDE DEF V, n, b, Turn
<1>6. \A k \in 1 .. n, v \in V : step[<< k, v >>] = Turn(v)
    OBVIOUS
<1>7. step \in [(1 .. n) \X V -> V]
    BY <1>3
<1> HIDE DEF step
<1>8. PICK f : IsLoopRun(f, n, V, b, step)
    BY <1>1, <1>2, <1>7, LoopRuns
<1>9. \A k \in 1 .. n : f[k - 1] \in V /\ f[k] = Turn(f[k - 1])
  <2> TAKE k \in 1 .. n
  <2>1. k - 1 \in 0 .. n
      BY <1>1
  <2> QED
      BY <1>6, <1>8, <2>1 DEF IsLoopRun
<1>10. f = Run(f)
    BY <1>1, <1>8, <1>9 DEF IsLoopRun
<1>11. turn = Run(turn)
    BY <1>10
<1> HIDE DEF turn
<1>12. ASSUME NEW k \in 0 .. n PROVE turn[k] = IF k = 0 THEN b ELSE Turn(turn[k - 1])
    BY <1>11
<1>13. turn[0] = b /\ \A k \in 1 .. n : turn[k] = Turn(turn[k - 1])
    BY <1>1, <1>12
<1>14. IsPruning(turn, protos)
    BY <1>5, <1>13
<1>15. Prune(protos) = turn[Excess(protos)]
    BY <1>4 DEF n
<1> QED
    BY <1>14, <1>15

(* _prune brings no class in.  It ends within the budget, or it raises on  *)
(* a list over the budget without two prototypes of one class.             *)
LEMMA PruneType ==
    ASSUME NEW L, NEW protos \in Seq(Of(L))
    PROVE  /\ Prune(protos) \in Pruned(L)
           /\ ~ Prune(protos).raised => Len(Prune(protos).protos) <= MaxPrototypes
           /\ Prune(protos).raised =>
                  /\ SameClassPairs(Prune(protos).protos) = {}
                  /\ Len(Prune(protos).protos) > MaxPrototypes
<1> DEFINE n == Excess(protos)
           Good(v, k) ==
              /\ v \in Pruned(L)
              /\ ~ v.raised => Len(v.protos) = Len(protos) - k
              /\ v.raised => SameClassPairs(v.protos) = {} /\ Len(v.protos) > MaxPrototypes
<1>1. PICK turn : IsPruning(turn, protos) /\ Prune(protos) = turn[n]
    BY PruneRuns
<1> DEFINE S == {k \in 0 .. n : Good(turn[k], k)}
<1>2. n \in Nat /\ (n > 0 => Len(protos) - n = MaxPrototypes) /\ Len(protos) - n <= MaxPrototypes
    BY ModelAssumption DEF Excess
<1>3. 0 \in S
  <2>1. turn[0] = [protos |-> protos, raised |-> FALSE]
      BY <1>1 DEF IsPruning
  <2>2. turn[0] \in Pruned(L)
      BY <2>1, PrunedType
  <2> QED
      BY <1>2, <2>1, <2>2
<1>4. ASSUME NEW k \in 0 .. n - 1, k \in S PROVE k + 1 \in S
  <2> DEFINE v == turn[k]
             w == turn[k + 1]
  <2>1. w = IF v.raised THEN v ELSE PruneOnce(v.protos)
    <3>1. k + 1 \in 1 .. n /\ (k + 1) - 1 = k
        BY <1>2
    <3> QED
        BY <1>1, <3>1 DEF IsPruning
  <2>2. Good(v, k)
      BY <1>4
  <2>3. (v.raised => w = v) /\ (~ v.raised => w = PruneOnce(v.protos))
      BY <2>1
  <2> HIDE DEF v, w
  <2>4. ASSUME v.raised PROVE Good(w, k + 1)
    <3>1. w = v
        BY <2>3, <2>4
    <3>2. /\ v \in Pruned(L)
          /\ SameClassPairs(v.protos) = {} /\ Len(v.protos) > MaxPrototypes
        BY <2>2, <2>4
    <3> QED
        BY <2>4, <3>1, <3>2
  <2>5. ASSUME ~ v.raised PROVE Good(w, k + 1)
    <3> DEFINE list == v.protos
               next == PruneOnce(list)
    <3>1. list \in Seq(Of(L)) /\ Len(list) = Len(protos) - k /\ Len(list) > MaxPrototypes
        BY <1>2, <2>2, <2>5 DEF Pruned
    <3>2. w = next
        BY <2>3, <2>5
    <3> HIDE DEF list
    <3>3. list # << >>
        BY <3>1, ModelAssumption
    <3>4. /\ next \in Pruned(L)
          /\ ~ next.raised => Len(next.protos) = Len(list) - 1
          /\ next.raised => SameClassPairs(list) = {} /\ next.protos = list
        BY <3>1, <3>3, PruneOnceType
    <3>5. Len(list) - 1 = Len(protos) - (k + 1)
        BY <3>1
    <3> HIDE DEF next
    <3>6. /\ w \in Pruned(L)
          /\ ~ w.raised => Len(w.protos) = Len(protos) - (k + 1)
          /\ w.raised => SameClassPairs(w.protos) = {} /\ Len(w.protos) > MaxPrototypes
        BY <3>1, <3>2, <3>4, <3>5
    <3> QED
        BY <3>6
  <2>6. Good(w, k + 1)
    <3> HIDE DEF Good
    <3> QED
        BY <2>4, <2>5
  <2> QED
      BY <1>2, <2>6 DEF w
<1>5. n \in S
  <2> HIDE DEF S, n
  <2>1. \A k \in 0 .. n - 1 : k \in S => k + 1 \in S
      BY <1>4
  <2>2. \A k \in 0 .. n : k \in S
      BY <1>2, <1>3, <2>1, BoundedInduction
  <2> QED
      BY <1>2, <2>2
<1> QED
    BY <1>1, <1>2, <1>5

(* A list without two prototypes of one class is no longer than the number *)
(* of classes.                                                             *)
LEMMA Pigeonhole ==
    ASSUME NEW L, IsFiniteSet(L), NEW protos \in Seq(Of(L)), SameClassPairs(protos) = {}
    PROVE  Len(protos) <= Cardinality(L)
<1> DEFINE n == Len(protos)
           f == [i \in 1 .. n |-> protos[i].label]
<1>1. n \in Nat /\ IsFiniteSet(1 .. n) /\ Cardinality(1 .. n) = n
  <2>1. n \in Nat /\ n \in Int /\ 1 \in Int
      OBVIOUS
  <2>2. IsFiniteSet(1 .. n) /\ Cardinality(1 .. n) = IF 1 > n THEN 0 ELSE n - 1 + 1
      BY <2>1, FS_Interval
  <2> QED
      BY <2>1, <2>2
<1>2. ASSUME NEW i \in 1 .. n PROVE protos[i].label \in L
    BY DEF Of
<1>3. f \in [1 .. n -> L]
    BY <1>2
<1>4. ASSUME Cardinality(L) < Cardinality(1 .. n) PROVE FALSE
  <2>1. PICK i \in 1 .. n, j \in 1 .. n : i # j /\ f[i] = f[j]
    <3> HIDE DEF f, n
    <3> QED
        BY <1>1, <1>3, <1>4, FS_PigeonHole
  <2>2. protos[i].label = protos[j].label /\ DOMAIN protos = 1 .. n
      BY <2>1
  <2>3. << i, j >> \in SameClassPairs(protos) \/ << j, i >> \in SameClassPairs(protos)
      BY <1>1, <2>1, <2>2 DEF SameClassPairs
  <2> QED
      BY <2>3
<1>5. Cardinality(L) \in Nat
    BY FS_CardinalityType
<1> QED
    BY <1>1, <1>4, <1>5

(* Within a budget as large as the number of classes, _prune never raises. *)
LEMMA PruneFits ==
    ASSUME NEW L, IsFiniteSet(L), Cardinality(L) <= MaxPrototypes, NEW protos \in Seq(Of(L))
    PROVE  ~ Prune(protos).raised /\ Len(Prune(protos).protos) <= MaxPrototypes
<1>1. Prune(protos).protos \in Seq(Of(L)) /\ Prune(protos).raised \in BOOLEAN
    BY PruneType DEF Pruned
<1>2. ASSUME Prune(protos).raised PROVE FALSE
  <2>1. SameClassPairs(Prune(protos).protos) = {} /\ Len(Prune(protos).protos) > MaxPrototypes
      BY <1>2, PruneType
  <2>2. Len(Prune(protos).protos) <= Cardinality(L)
      BY <1>1, <2>1, Pigeonhole
  <2>3. Cardinality(L) \in Nat /\ Len(Prune(protos).protos) \in Nat /\ MaxPrototypes \in Nat
      BY <1>1, FS_CardinalityType, ModelAssumption
  <2> QED
      BY <2>1, <2>2, <2>3
<1> QED
    BY <1>2, PruneType

(* The loop of merged_with between two incoming prototypes.                *)
Merges(L) == [protos : Seq(Of(L)), accepted : Nat, conflicts : Nat]

(* A list comprehension yields elements of the list.                       *)
LEMMA PickOf ==
    ASSUME NEW T, NEW s \in Seq(T), NEW I, I \subseteq 1 .. Len(s)
    PROVE  Pick(s, I) \in Seq(T)
<1> DEFINE U == {s[i] : i \in I}
<1>1. Pick(s, I) \in Seq(U)
    BY PickType
<1>2. U \subseteq T
    OBVIOUS
<1> HIDE DEF U
<1> QED
    BY <1>1, <1>2

(* A turn of merged_with brings in no class but that of its prototype.     *)
LEMMA TakeType ==
    ASSUME NEW L, NEW own, NEW trust, NEW merge \in Merges(L), NEW p \in Of(L)
    PROVE  Take(own, trust, merge, p) \in Merges(L)
<1> DEFINE kept == Pick(merge.protos, (DOMAIN merge.protos) \ Clashes(merge.protos, p))
<1>1. merge.protos \in Seq(Of(L)) /\ merge.accepted \in Nat /\ merge.conflicts \in Nat
    BY DEF Merges
<1>2. kept \in Seq(Of(L))
    BY <1>1, PickOf
<1>3. Append(kept, p) \in Seq(Of(L))
    BY <1>2
<1> HIDE DEF kept
<1>4. CASE Take(own, trust, merge, p) = merge
    BY <1>4
<1>5. CASE Take(own, trust, merge, p) = [merge EXCEPT !.conflicts = @ + 1]
  <2>1. merge.conflicts + 1 \in Nat
      BY <1>1
  <2> QED
      BY <1>5, <2>1 DEF Merges
<1>6. CASE Take(own, trust, merge, p) = [merge EXCEPT !.protos = Append(kept, p), !.accepted = @ + 1]
  <2> DEFINE list == Append(kept, p)
  <2>1. merge.accepted + 1 \in Nat /\ list \in Seq(Of(L))
      BY <1>1, <1>3
  <2> HIDE DEF list
  <2>2. Take(own, trust, merge, p) = [merge EXCEPT !.protos = list, !.accepted = @ + 1]
      BY <1>6 DEF list
  <2> QED
      BY <2>1, <2>2 DEF Merges
<1> QED
    BY <1>4, <1>5, <1>6 DEF Take, kept

(* The models of classes in L bumped by nodes in N.                        *)
Models(L, N) == [protos : Seq(Of(L)), counter : Nat, bumper : N]

(* Bumping a version changes nothing but the prototypes.                   *)
LEMMA BumpedType ==
    ASSUME NEW L, NEW N, NEW model \in Models(L, N), NEW s \in Seq(Of(L)), NEW node \in N
    PROVE  Bumped(model, s, node) \in Models(L, N) /\ Bumped(model, s, node).protos = s
BY DEF Bumped, Models

IsMerging(taken, L, model, incoming, trust) ==
    /\ taken[0] = [protos |-> model.protos, accepted |-> 0, conflicts |-> 0]
    /\ \A k \in 1 .. Len(incoming) :
          /\ taken[k - 1] \in Merges(L)
          /\ taken[k] = Take(model.protos, trust, taken[k - 1], incoming[k])

(* merged_with takes the incoming prototypes one after the other, then     *)
(* prunes what it has.                                                     *)
LEMMA MergeRuns ==
    ASSUME NEW L, NEW N, NEW model \in Models(L, N), NEW node \in N,
           NEW incoming \in Seq(Of(L)), NEW trust
    PROVE  \E taken :
              /\ IsMerging(taken, L, model, incoming, trust)
              /\ taken[Len(incoming)] \in Merges(L)
              /\ MergedWith(model, incoming, node, trust).model =
                    Bumped(model, Prune(taken[Len(incoming)].protos).protos, node)
              /\ MergedWith(model, incoming, node, trust).raised = Prune(taken[Len(incoming)].protos).raised
              /\ MergedWith(model, incoming, node, trust).accepted = taken[Len(incoming)].accepted
<1> DEFINE V == Merges(L)
           n == Len(incoming)
           b == [protos |-> model.protos, accepted |-> 0, conflicts |-> 0]
           Turn(k, v) == Take(model.protos, trust, v, incoming[k])
           step == [c \in (1 .. n) \X V |-> Turn(c[1], c[2])]
           Run(f) == [k \in 0 .. n |-> IF k = 0 THEN b ELSE Turn(k, f[k - 1])]
           taken == CHOOSE f : f = Run(f)
<1>0. model.protos \in Seq(Of(L))
    BY DEF Models
<1>1. n \in Nat /\ b \in V
    BY <1>0 DEF Merges
<1>2. ASSUME NEW k \in 1 .. n, NEW v \in V PROVE Turn(k, v) \in V
  <2>1. incoming[k] \in Of(L)
      OBVIOUS
  <2> QED
      BY <2>1, TakeType
<1>3. /\ MergedWith(model, incoming, node, trust).model = Bumped(model, Prune(taken[n].protos).protos, node)
      /\ MergedWith(model, incoming, node, trust).raised = Prune(taken[n].protos).raised
      /\ MergedWith(model, incoming, node, trust).accepted = taken[n].accepted
    BY DEF MergedWith
<1> HIDE DEF V, n, b, Turn
<1>4. \A k \in 1 .. n, v \in V : step[<< k, v >>] = Turn(k, v)
    OBVIOUS
<1>5. step \in [(1 .. n) \X V -> V]
    BY <1>2
<1> HIDE DEF step
<1>6. PICK f : IsLoopRun(f, n, V, b, step)
    BY <1>1, <1>5, LoopRuns
<1>7. \A k \in 1 .. n : f[k - 1] \in V /\ f[k] = Turn(k, f[k - 1])
  <2> TAKE k \in 1 .. n
  <2>1. k - 1 \in 0 .. n
      BY <1>1
  <2> QED
      BY <1>4, <1>6, <2>1 DEF IsLoopRun
<1>8. f = Run(f)
    BY <1>1, <1>6, <1>7 DEF IsLoopRun
<1>9. taken = Run(taken)
    BY <1>8
<1> HIDE DEF taken
<1>10. ASSUME NEW k \in 0 .. n PROVE taken[k] = IF k = 0 THEN b ELSE Turn(k, taken[k - 1])
    BY <1>9
<1>11. taken[0] \in V /\ \A k \in 1 .. n : taken[k] = Turn(k, taken[k - 1])
    BY <1>1, <1>10
<1>12. \A k \in 1 .. n : taken[k - 1] \in V => taken[k] \in V
    BY <1>2, <1>11
<1>13. taken[n] \in V
    BY <1>1, <1>11, <1>12, LoopStays
<1>14. ASSUME NEW k \in 1 .. n PROVE taken[k - 1] \in V
  <2>1. k - 1 \in Nat
      BY <1>1
  <2>2. \A m \in 1 .. k - 1 : taken[m - 1] \in V => taken[m] \in V
      BY <1>1, <1>12
  <2> QED
      BY <1>11, <2>1, <2>2, LoopStays
<1>15. IsMerging(taken, L, model, incoming, trust)
    BY <1>1, <1>10, <1>11, <1>14 DEF IsMerging, V, n, b, Turn
<1> QED
    BY <1>3, <1>13, <1>15 DEF V, n

(* A merge takes over no class but those of the two lists, and ends within *)
(* the budget unless it raises.                                            *)
LEMMA MergedWithType ==
    ASSUME NEW L, NEW N, NEW model \in Models(L, N), NEW node \in N,
           NEW incoming \in Seq(Of(L)), NEW trust
    PROVE  LET merge == MergedWith(model, incoming, node, trust)
           IN  /\ merge.model \in Models(L, N)
               /\ ~ merge.raised => Len(merge.model.protos) <= MaxPrototypes
               /\ IsFiniteSet(L) /\ Cardinality(L) <= MaxPrototypes => ~ merge.raised
<1> DEFINE merge == MergedWith(model, incoming, node, trust)
<1>1. PICK taken :
         /\ taken[Len(incoming)] \in Merges(L)
         /\ merge.model = Bumped(model, Prune(taken[Len(incoming)].protos).protos, node)
         /\ merge.raised = Prune(taken[Len(incoming)].protos).raised
    BY MergeRuns
<1> HIDE DEF merge
<1> DEFINE all == taken[Len(incoming)].protos
<1>14. all \in Seq(Of(L))
    BY <1>1 DEF Merges
<1> HIDE DEF all
<1>15. /\ Prune(all).protos \in Seq(Of(L))
       /\ ~ Prune(all).raised => Len(Prune(all).protos) <= MaxPrototypes
    BY <1>14, PruneType DEF Pruned
<1>16. IsFiniteSet(L) /\ Cardinality(L) <= MaxPrototypes => ~ Prune(all).raised
    BY <1>14, PruneFits
<1>17. /\ Bumped(model, Prune(all).protos, node) \in Models(L, N)
       /\ Bumped(model, Prune(all).protos, node).protos = Prune(all).protos
    BY <1>15, BumpedType
<1> QED
    BY <1>1, <1>15, <1>16, <1>17 DEF all, merge

(* learn adds no class but that of its sample, and respects the budget.    *)
LEMMA LearnedType ==
    ASSUME NEW L, NEW N, NEW model \in Models(L, N), NEW node \in N,
           NEW x \in Sample, NEW y \in Nat, y \in L
    PROVE  LET next == Learned(model, x, y, node)
           IN  /\ next \in Models(L, N)
               /\ IsFiniteSet(L) /\ Cardinality(L) <= MaxPrototypes
                  /\ Len(model.protos) <= MaxPrototypes => Len(next.protos) <= MaxPrototypes
<1> DEFINE sample == Exemplar(x, y)
           same   == {i \in DOMAIN model.protos : model.protos[i].label = y}
           near   == Nearest(model.protos, same, sample)
           longer == Append(model.protos, sample)
           fused  == Consolidated(model.protos[near], sample)
           absorbed == [model.protos EXCEPT ![near] = fused]
           next   == Learned(model, x, y, node)
<1>1. sample \in Of(L)
    BY DEF Exemplar, Sample, Of, Prototype
<1>0. model.protos \in Seq(Of(L))
    BY DEF Models
<1>2. longer \in Seq(Of(L))
    BY <1>0, <1>1
<1>3. \/ same # {} /\ next = Bumped(model, [model.protos EXCEPT ![near] = Consolidated(@, sample)], node)
      \/ Prune(longer).raised /\ next = [model EXCEPT !.protos = Prune(longer).protos]
      \/ ~ Prune(longer).raised /\ next = Bumped(model, Prune(longer).protos, node)
    BY DEF Learned
<1> HIDE DEF next, sample, same
<1>4. CASE same # {} /\ next = Bumped(model, [model.protos EXCEPT ![near] = Consolidated(@, sample)], node)
  <2>1. near \in 1 .. Len(model.protos)
    <3>1. model.protos \in Seq(Prototype) /\ sample \in Prototype /\ same \subseteq DOMAIN model.protos
        BY <1>0, <1>1 DEF Of, same
    <3>2. near \in same
        BY <1>4, <3>1, NearestIn
    <3> QED
        BY <3>1, <3>2
  <2> HIDE DEF near
  <2>2. fused \in Of(L)
      BY <1>0, <1>1, <2>1, ConsolidatedType
  <2>3. next = Bumped(model, absorbed, node)
      BY <1>4
  <2> HIDE DEF fused
  <2>4. absorbed \in Seq(Of(L)) /\ Len(absorbed) = Len(model.protos)
      BY <1>0, <2>1, <2>2
  <2> HIDE DEF absorbed
  <2>5. next \in Models(L, N) /\ next.protos = absorbed
      BY <2>3, <2>4, BumpedType
  <2> QED
      BY <2>4, <2>5 DEF next
<1> HIDE DEF longer
<1>5. /\ Prune(longer).protos \in Seq(Of(L))
      /\ ~ Prune(longer).raised => Len(Prune(longer).protos) <= MaxPrototypes
    BY <1>2, PruneType DEF Pruned
<1>6. CASE Prune(longer).raised /\ next = [model EXCEPT !.protos = Prune(longer).protos]
  <2>1. ~ (IsFiniteSet(L) /\ Cardinality(L) <= MaxPrototypes)
      BY <1>2, <1>6, PruneFits
  <2> DEFINE s == Prune(longer).protos
  <2>2. next = [model EXCEPT !.protos = s]
      BY <1>6
  <2>3. s \in Seq(Of(L))
      BY <1>5
  <2> HIDE DEF s
  <2>4. next \in Models(L, N)
      BY <2>2, <2>3 DEF Models
  <2> QED
      BY <2>1, <2>4 DEF next
<1>7. CASE ~ Prune(longer).raised /\ next = Bumped(model, Prune(longer).protos, node)
  <2>1. next \in Models(L, N) /\ next.protos = Prune(longer).protos
      BY <1>5, <1>7, BumpedType
  <2> QED
      BY <1>5, <1>7, <2>1 DEF next
<1> QED
    BY <1>3, <1>4, <1>6, <1>7

-----------------------------------------------------------------------------
(* What consolidation loses: no class, as long as two of one class remain. *)

(* A list shares a class for each of its places with another one.          *)
LEMMA LabelsFollow ==
    ASSUME NEW s, NEW t, \A i \in DOMAIN s : \E j \in DOMAIN t : t[j].label = s[i].label
    PROVE  Labels(s) \subseteq Labels(t)
BY DEF Labels

(* A turn of _prune that finds two prototypes of a class keeps every class. *)
LEMMA PruneOnceKeeps ==
    ASSUME NEW L, NEW protos \in Seq(Of(L)), SameClassPairs(protos) # {}
    PROVE  ~ PruneOnce(protos).raised /\ Labels(protos) \subseteq Labels(PruneOnce(protos).protos)
<1> DEFINE pair == NearestPair(protos)
           a == pair[1]
           b == pair[2]
           fused == Consolidated(protos[a], protos[b])
           list == [protos EXCEPT ![a] = fused]
           rest == Without(list, b)
           n == Len(protos)
<1>1. protos \in Seq(Prototype)
    BY DEF Of
<1>2. pair \in SameClassPairs(protos)
    BY <1>1, NearestPairIn
<1>3. PruneOnce(protos).protos = rest /\ PruneOnce(protos).raised = FALSE
    BY DEF PruneOnce
<1> HIDE DEF pair
<1>4. a \in 1 .. n /\ b \in 1 .. n /\ a < b /\ protos[a].label = protos[b].label /\ n \in Nat
    BY <1>2 DEF SameClassPairs
<1> HIDE DEF a, b
<1>5. fused.label = protos[a].label
    BY DEF Consolidated
<1> HIDE DEF fused
<1>6. Len(list) = n /\ \A i \in 1 .. n : list[i].label = protos[i].label
    BY <1>4, <1>5
<1> HIDE DEF list
<1>7. DOMAIN rest = 1 .. n - 1 /\ \A k \in 1 .. n - 1 : rest[k] = IF k < b THEN list[k] ELSE list[k + 1]
    BY <1>6 DEF Without
<1> HIDE DEF rest, n
<1>8. ASSUME NEW i \in 1 .. n PROVE \E j \in 1 .. n - 1 : rest[j].label = protos[i].label
  <2>1. CASE i < b
    <3>1. i \in 1 .. n - 1
        BY <1>4, <2>1
    <3> QED
        BY <1>6, <1>7, <2>1, <3>1
  <2>2. CASE i = b
    <3>1. a \in 1 .. n - 1
        BY <1>4
    <3> QED
        BY <1>4, <1>6, <1>7, <2>2, <3>1
  <2>3. CASE i > b
    <3>1. i - 1 \in 1 .. n - 1 /\ ~ (i - 1 < b) /\ (i - 1) + 1 = i
        BY <1>4, <2>3
    <3> QED
        BY <1>6, <1>7, <3>1
  <2> QED
      BY <1>4, <2>1, <2>2, <2>3
<1>9. DOMAIN protos = 1 .. n
    BY DEF n
<1> QED
    BY <1>3, <1>7, <1>8, <1>9, LabelsFollow

(* Within a budget as large as the number of classes, _prune keeps every   *)
(* class.                                                                  *)
LEMMA PruneKeeps ==
    ASSUME NEW L, IsFiniteSet(L), Cardinality(L) <= MaxPrototypes, NEW protos \in Seq(Of(L))
    PROVE  Labels(protos) \subseteq Labels(Prune(protos).protos)
<1> DEFINE n == Excess(protos)
           Good(v, k) ==
              /\ v \in Pruned(L) /\ ~ v.raised
              /\ Len(v.protos) = Len(protos) - k
              /\ Labels(protos) \subseteq Labels(v.protos)
<1>1. PICK turn : IsPruning(turn, protos) /\ Prune(protos) = turn[n]
    BY PruneRuns
<1> DEFINE S == {k \in 0 .. n : Good(turn[k], k)}
<1>2. n \in Nat /\ (n > 0 => Len(protos) - n = MaxPrototypes) /\ Len(protos) \in Nat
      /\ MaxPrototypes \in Nat \ {0}
    BY ModelAssumption DEF Excess
<1>3. 0 \in S
  <2>1. turn[0] = [protos |-> protos, raised |-> FALSE]
      BY <1>1 DEF IsPruning
  <2>2. turn[0] \in Pruned(L)
      BY <2>1, PrunedType
  <2> QED
      BY <1>2, <2>1, <2>2
<1>4. ASSUME NEW k \in 0 .. n - 1, k \in S PROVE k + 1 \in S
  <2> DEFINE v == turn[k]
             w == turn[k + 1]
             list == v.protos
  <2>1. w = IF v.raised THEN v ELSE PruneOnce(v.protos)
    <3>1. k + 1 \in 1 .. n /\ (k + 1) - 1 = k
        BY <1>2
    <3> QED
        BY <1>1, <3>1 DEF IsPruning
  <2>2. Good(v, k)
      BY <1>4
  <2> HIDE DEF v, w
  <2>3. w = PruneOnce(list) /\ list \in Seq(Of(L)) /\ Len(list) = Len(protos) - k
        /\ Labels(protos) \subseteq Labels(list)
      BY <2>1, <2>2 DEF Pruned
  <2> HIDE DEF list
  <2>4. Len(list) > MaxPrototypes /\ list # << >>
      BY <1>2, <2>3
  <2>5. SameClassPairs(list) # {}
    <3>1. Cardinality(L) \in Nat
        BY FS_CardinalityType
    <3> QED
        BY <1>2, <2>3, <2>4, <3>1, Pigeonhole
  <2>6. ~ w.raised /\ Labels(list) \subseteq Labels(w.protos)
      BY <2>3, <2>5, PruneOnceKeeps
  <2>7. w \in Pruned(L) /\ Len(w.protos) = Len(list) - 1
      BY <2>3, <2>4, <2>6, PruneOnceType
  <2>8. Good(w, k + 1)
      BY <1>2, <2>3, <2>6, <2>7
  <2> QED
      BY <1>2, <2>8 DEF w
<1>5. n \in S
  <2> HIDE DEF S, n
  <2>1. \A k \in 0 .. n - 1 : k \in S => k + 1 \in S
      BY <1>4
  <2>2. \A k \in 0 .. n : k \in S
      BY <1>2, <1>3, <2>1, BoundedInduction
  <2> QED
      BY <1>2, <2>2
<1> QED
    BY <1>1, <1>2, <1>5

(* A sender that is not trusted to override removes nothing: what clashes  *)
(* with its prototype keeps it out.                                        *)
LEMMA TakeKeeps ==
    ASSUME NEW L, NEW own, NEW trust, trust < OverrideTrust, NEW merge \in Merges(L), NEW p \in Of(L)
    PROVE  Labels(merge.protos) \subseteq Labels(Take(own, trust, merge, p).protos)
<1> DEFINE list == merge.protos
           kept == Pick(list, (DOMAIN list) \ Clashes(list, p))
           next == Take(own, trust, merge, p)
<1>1. list \in Seq(Of(L)) /\ merge = [protos |-> list, accepted |-> merge.accepted, conflicts |-> merge.conflicts]
    BY DEF Merges
<1>2. next.protos = list \/ (next.protos = Append(kept, p) /\ Clashes(list, p) = {})
    BY <1>1 DEF Take
<1> HIDE DEF list, next
<1>3. CASE next.protos = list
    BY <1>3 DEF list, next
<1>4. CASE next.protos = Append(kept, p) /\ Clashes(list, p) = {}
  <2> DEFINE I == DOMAIN list
             whole == Pick(list, I)
             longer == Append(whole, p)
  <2>1. next.protos = longer /\ I \subseteq 1 .. Len(list) /\ I = DOMAIN list
      BY <1>1, <1>4
  <2> HIDE DEF I
  <2>2. whole \in Seq(Of(L))
      BY <1>1, <2>1, PickOf
  <2>3. ASSUME NEW i \in I PROVE \E j \in DOMAIN whole : whole[j] = list[i]
      BY <1>1, <2>1, PickKeeps
  <2> HIDE DEF whole
  <2>4. \A j \in DOMAIN whole : j \in DOMAIN longer /\ longer[j] = whole[j]
      BY <2>2
  <2> HIDE DEF longer
  <2>5. \A i \in DOMAIN list : \E j \in DOMAIN longer : longer[j].label = list[i].label
      BY <2>1, <2>3, <2>4
  <2>6. Labels(list) \subseteq Labels(longer)
      BY <2>5, LabelsFollow
  <2> QED
      BY <2>1, <2>6 DEF list, next
<1> QED
    BY <1>2, <1>3, <1>4

(* A merge from such a sender takes no class from the model.               *)
LEMMA MergeKeeps ==
    ASSUME NEW L, IsFiniteSet(L), Cardinality(L) <= MaxPrototypes,
           NEW N, NEW model \in Models(L, N), NEW node \in N,
           NEW incoming \in Seq(Of(L)), NEW trust, trust < OverrideTrust
    PROVE  Labels(model.protos) \subseteq Labels(MergedWith(model, incoming, node, trust).model.protos)
<1> DEFINE n == Len(incoming)
           next == MergedWith(model, incoming, node, trust).model
<1>1. PICK taken : /\ IsMerging(taken, L, model, incoming, trust) /\ taken[n] \in Merges(L)
                   /\ next = Bumped(model, Prune(taken[n].protos).protos, node)
    BY MergeRuns
<1> HIDE DEF next
<1> DEFINE S == {k \in 0 .. n : Labels(model.protos) \subseteq Labels(taken[k].protos)}
<1>2. n \in Nat
    OBVIOUS
<1>3. 0 \in S
    BY <1>1, <1>2 DEF IsMerging
<1>4. ASSUME NEW k \in 0 .. n - 1, k \in S PROVE k + 1 \in S
  <2>1. k + 1 \in 1 .. n /\ (k + 1) - 1 = k
      BY <1>2
  <2>2. taken[k] \in Merges(L) /\ taken[k + 1] = Take(model.protos, trust, taken[k], incoming[k + 1])
      BY <1>1, <2>1 DEF IsMerging
  <2>3. incoming[k + 1] \in Of(L)
      BY <2>1
  <2>4. Labels(taken[k].protos) \subseteq Labels(taken[k + 1].protos)
      BY <2>2, <2>3, TakeKeeps
  <2> QED
      BY <1>2, <1>4, <2>4
<1>5. Labels(model.protos) \subseteq Labels(taken[n].protos)
  <2> HIDE DEF S, n
  <2>1. \A k \in 0 .. n - 1 : k \in S => k + 1 \in S
      BY <1>4
  <2>2. \A k \in 0 .. n : k \in S
      BY <1>2, <1>3, <2>1, BoundedInduction
  <2>3. n \in S
      BY <1>2, <2>2
  <2> QED
      BY <2>3 DEF S
<1>6. taken[n].protos \in Seq(Of(L))
    BY <1>1 DEF Merges
<1>7. Labels(taken[n].protos) \subseteq Labels(Prune(taken[n].protos).protos)
    BY <1>6, PruneKeeps
<1>8. Prune(taken[n].protos).protos \in Seq(Of(L))
    BY <1>6, PruneType DEF Pruned
<1>9. next.protos = Prune(taken[n].protos).protos
    BY <1>1, <1>8, BumpedType
<1> QED
    BY <1>5, <1>7, <1>9 DEF next

(* Learning takes no class from the model.                                 *)
LEMMA LearnedKeeps ==
    ASSUME NEW L, IsFiniteSet(L), Cardinality(L) <= MaxPrototypes,
           NEW N, NEW model \in Models(L, N), NEW node \in N,
           NEW x \in Sample, NEW y \in Nat, y \in L
    PROVE  Labels(model.protos) \subseteq Labels(Learned(model, x, y, node).protos)
<1> DEFINE list   == model.protos
           sample == Exemplar(x, y)
           same   == {i \in DOMAIN list : list[i].label = y}
           near   == Nearest(list, same, sample)
           longer == Append(list, sample)
           next   == Learned(model, x, y, node)
<1>1. sample \in Of(L)
    BY DEF Exemplar, Sample, Of, Prototype
<1>2. list \in Seq(Of(L))
    BY DEF Models
<1>3. \/ same # {} /\ next.protos = [list EXCEPT ![near] = Consolidated(@, sample)]
      \/ next.protos = Prune(longer).protos
    BY DEF Learned, Bumped, Models
<1> HIDE DEF next, sample, same, list
<1>4. CASE same # {} /\ next.protos = [list EXCEPT ![near] = Consolidated(@, sample)]
  <2>1. \A i \in DOMAIN list : i \in DOMAIN next.protos /\ next.protos[i].label = list[i].label
      BY <1>2, <1>4 DEF Consolidated
  <2> QED
      BY <2>1, LabelsFollow DEF list, next
<1>5. CASE next.protos = Prune(longer).protos
  <2>1. longer \in Seq(Of(L)) /\ \A i \in DOMAIN list : i \in DOMAIN longer /\ longer[i] = list[i]
      BY <1>1, <1>2
  <2> HIDE DEF longer
  <2>2. Labels(list) \subseteq Labels(longer)
      BY <2>1, LabelsFollow
  <2>3. Labels(longer) \subseteq Labels(Prune(longer).protos)
      BY <2>1, PruneKeeps
  <2> QED
      BY <1>5, <2>2, <2>3 DEF list, next
<1> QED
    BY <1>3, <1>4, <1>5
=============================================================================
