------------------------ MODULE ModelExchangeProofs ------------------------
(***************************************************************************)
(* What consolidating and merging do to the evidence behind a model, for   *)
(* every budget, radius, threshold and stream.  A turn of _prune moves     *)
(* weight within a class; an untrusted merge only appends before that; and *)
(* within the budget what was appended is found again.  Sums over a list   *)
(* are compared through their partial sums.                                *)
(***************************************************************************)
EXTENDS ModelExchange, PrototypeModelProofs

-----------------------------------------------------------------------------
(* Sums.                                                                   *)

\* u[k] is the sum of the first k values.
IsSumming(u, values) ==
    /\ u[0] = 0
    /\ \A k \in 1 .. Len(values) : u[k - 1] \in Int /\ u[k] = u[k - 1] + values[k]

(* A list of integers has a sum, the last of its partial sums.             *)
LEMMA SumRuns ==
    ASSUME NEW values \in Seq(Int)
    PROVE  \E u : /\ IsSumming(u, values) /\ SumOf(values) = u[Len(values)]
                  /\ \A k \in 0 .. Len(values) : u[k] \in Int
<1> DEFINE n == Len(values)
           Turn(k, v) == v + values[k]
           step == [c \in (1 .. n) \X Int |-> Turn(c[1], c[2])]
           Run(f) == [k \in 0 .. n |-> IF k = 0 THEN 0 ELSE f[k - 1] + values[k]]
           upto == CHOOSE f : f = Run(f)
<1>1. n \in Nat /\ 0 \in Int /\ \A k \in 1 .. n : values[k] \in Int
    OBVIOUS
<1>2. SumOf(values) = upto[n]
    BY DEF SumOf
<1>3. \A k \in 1 .. n, v \in Int : step[<< k, v >>] = v + values[k]
    OBVIOUS
<1>4. step \in [(1 .. n) \X Int -> Int]
    BY <1>1
<1> HIDE DEF step, n
<1>5. PICK f : IsLoopRun(f, n, Int, 0, step)
    BY <1>1, <1>4, LoopRuns
<1>6. f \in [0 .. n -> Int] /\ f[0] = 0
    BY <1>5 DEF IsLoopRun
<1>7. \A k \in 1 .. n : f[k - 1] \in Int /\ f[k] = f[k - 1] + values[k]
  <2> TAKE k \in 1 .. n
  <2>1. k - 1 \in 0 .. n
      BY <1>1
  <2>2. f[k - 1] \in Int
      BY <1>6, <2>1
  <2> QED
      BY <1>3, <1>5, <2>2 DEF IsLoopRun
<1>8. f = Run(f)
    BY <1>1, <1>6, <1>7
<1>9. upto = Run(upto)
    BY <1>8
<1> HIDE DEF upto
<1>10. \A k \in 0 .. n : upto[k] = IF k = 0 THEN 0 ELSE upto[k - 1] + values[k]
    BY <1>9
<1>11. upto[0] = 0 /\ \A k \in 1 .. n : upto[k] = upto[k - 1] + values[k]
    BY <1>1, <1>10
<1>12. ASSUME NEW k \in 0 .. n PROVE upto[k] \in Int
  <2>1. k \in Nat /\ upto[0] \in Int /\ \A m \in 1 .. k : upto[m - 1] \in Int => upto[m] \in Int
      BY <1>1, <1>11
  <2> QED
      BY <2>1, LoopStays
<1>13. \A k \in 1 .. n : upto[k - 1] \in Int
  <2> TAKE k \in 1 .. n
  <2>1. k - 1 \in 0 .. n
      BY <1>1
  <2> QED
      BY <1>12, <2>1
<1>14. IsSumming(upto, values)
    BY <1>11, <1>13 DEF IsSumming, n
<1> QED
    BY <1>2, <1>12, <1>14 DEF n

(* Sums of lists of integers are integers.                                 *)
LEMMA SumType ==
    ASSUME NEW values \in Seq(Int)
    PROVE  SumOf(values) \in Int
<1>1. Len(values) \in 0 .. Len(values)
    OBVIOUS
<1> QED
    BY <1>1, SumRuns

(* A list with one value more.                                             *)
LEMMA SumAppend ==
    ASSUME NEW values \in Seq(Int), NEW x \in Int
    PROVE  SumOf(Append(values, x)) = SumOf(values) + x
<1> DEFINE longer == Append(values, x)
           n == Len(values)
<1>1. /\ longer \in Seq(Int) /\ n \in Nat /\ Len(longer) = n + 1
      /\ longer[n + 1] = x /\ \A k \in 1 .. n : longer[k] = values[k]
    OBVIOUS
<1> HIDE DEF longer
<1>2. PICK u : /\ IsSumming(u, values) /\ SumOf(values) = u[n] /\ \A k \in 0 .. n : u[k] \in Int
    BY SumRuns
<1>3. PICK w : /\ IsSumming(w, longer) /\ SumOf(longer) = w[n + 1]
    BY <1>1, SumRuns
<1> DEFINE S == {k \in 0 .. n : w[k] = u[k]}
<1>4. 0 \in S
    BY <1>1, <1>2, <1>3 DEF IsSumming
<1>5. ASSUME NEW k \in 0 .. n - 1, k \in S PROVE k + 1 \in S
  <2>1. k + 1 \in 1 .. n /\ k + 1 \in 1 .. n + 1 /\ (k + 1) - 1 = k
      BY <1>1
  <2>2. u[k + 1] = u[k] + values[k + 1] /\ w[k + 1] = w[k] + longer[k + 1]
      BY <1>1, <1>2, <1>3, <2>1 DEF IsSumming
  <2> QED
      BY <1>1, <1>5, <2>1, <2>2
<1>6. n \in S
  <2> HIDE DEF S, n
  <2>1. \A k \in 0 .. n : k \in S
      BY <1>1, <1>4, <1>5, BoundedInduction
  <2> QED
      BY <1>1, <2>1
<1>7. w[n + 1] = w[n] + x
  <2>1. n + 1 \in 1 .. Len(longer) /\ (n + 1) - 1 = n
      BY <1>1
  <2>2. w[n + 1] = w[(n + 1) - 1] + longer[n + 1]
      BY <1>3, <2>1 DEF IsSumming
  <2> QED
      BY <1>1, <2>1, <2>2
<1> QED
    BY <1>2, <1>3, <1>6, <1>7 DEF longer

(* Sums taken in another order.                                            *)
LEMMA Reordered ==
    ASSUME NEW a \in Int, NEW b \in Int, NEW c \in Int, NEW d \in Int
    PROVE  /\ a + c = a + b - b + c
           /\ a - b + c + d = a + d - b + c
           /\ a + d = a + b + d - b
           /\ a - b + d = a + d - b
OBVIOUS

(* A list with another value in one place.                                 *)
LEMMA SumExcept ==
    ASSUME NEW values \in Seq(Int), NEW i \in 1 .. Len(values), NEW x \in Int
    PROVE  SumOf([values EXCEPT ![i] = x]) = SumOf(values) - values[i] + x
<1> DEFINE other == [values EXCEPT ![i] = x]
           n == Len(values)
<1>1. /\ other \in Seq(Int) /\ n \in Nat /\ Len(other) = n
      /\ other[i] = x /\ \A k \in 1 .. n : k # i => other[k] = values[k]
      /\ values[i] \in Int /\ i \in 1 .. n
    OBVIOUS
<1> HIDE DEF other
<1>2. PICK u : /\ IsSumming(u, values) /\ SumOf(values) = u[n] /\ \A k \in 0 .. n : u[k] \in Int
    BY SumRuns
<1>3. PICK w : /\ IsSumming(w, other) /\ SumOf(other) = w[n]
    BY <1>1, SumRuns
<1> DEFINE S == {k \in 0 .. n : w[k] = IF k < i THEN u[k] ELSE u[k] - values[i] + x}
<1>4. 0 \in S
    BY <1>1, <1>2, <1>3 DEF IsSumming
<1>5. ASSUME NEW k \in 0 .. n - 1, k \in S PROVE k + 1 \in S
  <2>1. k + 1 \in 1 .. n /\ (k + 1) - 1 = k /\ k \in 0 .. n /\ k \in Nat /\ i \in Nat
      BY <1>1
  <2>2. u[k + 1] = u[k] + values[k + 1] /\ w[k + 1] = w[k] + other[k + 1] /\ u[k] \in Int
      BY <1>1, <1>2, <1>3, <2>1 DEF IsSumming
  <2>3. values[k + 1] \in Int
      BY <2>1
  <2>4. w[k] = IF k < i THEN u[k] ELSE u[k] - values[i] + x
      BY <1>5
  <2>5. w[k + 1] = IF k + 1 < i THEN u[k + 1] ELSE u[k + 1] - values[i] + x
    <3>1. CASE k + 1 = i
      <4>1. k < i /\ ~ (k + 1 < i) /\ other[k + 1] = x /\ values[k + 1] = values[i]
          BY <1>1, <2>1, <3>1
      <4>2. w[k + 1] = u[k] + x /\ u[k + 1] = u[k] + values[i]
          BY <2>2, <2>4, <4>1
      <4>3. w[k + 1] = u[k + 1] - values[i] + x
          BY <1>1, <2>2, <4>2, Reordered
      <4> QED
          BY <4>1, <4>3
    <3>2. CASE k + 1 < i
      <4>1. k < i /\ other[k + 1] = values[k + 1]
          BY <1>1, <2>1, <3>2
      <4> QED
          BY <2>2, <2>4, <3>2, <4>1
    <3>3. CASE k + 1 > i
      <4>1. ~ (k < i) /\ ~ (k + 1 < i) /\ other[k + 1] = values[k + 1]
          BY <1>1, <2>1, <3>3
      <4>2. w[k + 1] = u[k] - values[i] + x + values[k + 1] /\ u[k + 1] = u[k] + values[k + 1]
          BY <2>2, <2>4, <4>1
      <4> DEFINE a == u[k]
                 b == values[i]
                 d == values[k + 1]
      <4>3. /\ a \in Int /\ b \in Int /\ d \in Int
            /\ w[k + 1] = a - b + x + d /\ u[k + 1] = a + d
          BY <1>1, <2>2, <2>3, <4>2
      <4> HIDE DEF a, b, d
      <4>4. a - b + x + d = a + d - b + x
          BY <4>3, Reordered
      <4>5. w[k + 1] = u[k + 1] - b + x
          BY <4>3, <4>4
      <4> QED
          BY <4>1, <4>5 DEF b
    <3> QED
        BY <2>1, <3>1, <3>2, <3>3
  <2> QED
      BY <1>1, <2>1, <2>5
<1>6. n \in S
  <2> HIDE DEF S, n
  <2>1. \A k \in 0 .. n : k \in S
      BY <1>1, <1>4, <1>5, BoundedInduction
  <2> QED
      BY <1>1, <2>1
<1>7. w[n] = u[n] - values[i] + x
    BY <1>1, <1>6
<1> QED
    BY <1>2, <1>3, <1>7 DEF other

(* A list with one value less.                                             *)
LEMMA SumWithout ==
    ASSUME NEW values \in Seq(Int), NEW j \in 1 .. Len(values)
    PROVE  SumOf(Without(values, j)) = SumOf(values) - values[j]
<1> DEFINE other == Without(values, j)
           n == Len(values)
<1>1. /\ n \in Nat \ {0} /\ n - 1 \in Nat /\ values[j] \in Int /\ j \in 1 .. n
      /\ \A k \in 1 .. n : values[k] \in Int
    OBVIOUS
<1>2. other \in Seq(Int) /\ Len(other) = n - 1
  <2>1. j \in Nat \ {0} /\ values # << >>
      OBVIOUS
  <2> QED
      BY <2>1, WithoutType
<1>3. \A k \in 1 .. n - 1 : other[k] = IF k < j THEN values[k] ELSE values[k + 1]
    BY DEF Without
<1> HIDE DEF other
<1>4. PICK u : /\ IsSumming(u, values) /\ SumOf(values) = u[n] /\ \A k \in 0 .. n : u[k] \in Int
    BY SumRuns
<1>5. PICK w : /\ IsSumming(w, other) /\ SumOf(other) = w[n - 1]
    BY <1>2, SumRuns
<1>6. \A k \in 0 .. n - 1 : u[k + 1] = u[k] + values[k + 1] /\ u[k] \in Int
  <2> TAKE k \in 0 .. n - 1
  <2>1. k + 1 \in 1 .. n /\ (k + 1) - 1 = k /\ k \in 0 .. n
      BY <1>1
  <2> QED
      BY <1>4, <2>1 DEF IsSumming
<1> DEFINE S == {k \in 0 .. n - 1 : w[k] = IF k < j THEN u[k] ELSE u[k + 1] - values[j]}
<1>7. 0 \in S
    BY <1>1, <1>4, <1>5 DEF IsSumming
<1>8. ASSUME NEW k \in 0 .. (n - 1) - 1, k \in S PROVE k + 1 \in S
  <2>1. k + 1 \in 1 .. n - 1 /\ (k + 1) - 1 = k /\ k \in 0 .. n - 1 /\ k + 1 \in 0 .. n - 1 /\ j \in Nat /\ k \in Nat
      BY <1>1
  <2>2. w[k + 1] = w[k] + other[k + 1]
      BY <1>2, <1>5, <2>1 DEF IsSumming
  <2>3. other[k + 1] = IF k + 1 < j THEN values[k + 1] ELSE values[(k + 1) + 1]
      BY <1>3, <2>1
  <2>4. /\ u[k + 1] = u[k] + values[k + 1] /\ u[(k + 1) + 1] = u[k + 1] + values[(k + 1) + 1]
        /\ u[k] \in Int /\ u[k + 1] \in Int
      BY <1>6, <2>1
  <2>5. values[k + 1] \in Int /\ values[(k + 1) + 1] \in Int
      BY <1>1, <2>1
  <2>6. w[k] = IF k < j THEN u[k] ELSE u[k + 1] - values[j]
      BY <1>8
  <2>7. w[k + 1] = IF k + 1 < j THEN u[k + 1] ELSE u[(k + 1) + 1] - values[j]
    <3>1. CASE k + 1 < j
      <4>1. k < j
          BY <2>1, <3>1
      <4> QED
          BY <2>2, <2>3, <2>4, <2>6, <3>1, <4>1
    <3>2. CASE k + 1 = j
      <4>1. k < j /\ ~ (k + 1 < j) /\ values[k + 1] = values[j]
          BY <2>1, <3>2
      <4>2. w[k + 1] = u[k] + values[(k + 1) + 1]
            /\ u[(k + 1) + 1] = u[k] + values[j] + values[(k + 1) + 1]
          BY <2>2, <2>3, <2>4, <2>6, <4>1
      <4> DEFINE a == u[k]
                 b == values[j]
                 d == values[(k + 1) + 1]
      <4>3. /\ a \in Int /\ b \in Int /\ d \in Int
            /\ w[k + 1] = a + d /\ u[(k + 1) + 1] = a + b + d
          BY <1>1, <2>4, <2>5, <4>2
      <4> HIDE DEF a, b, d
      <4>4. a + d = a + b + d - b
          BY <4>3, Reordered
      <4>5. w[k + 1] = u[(k + 1) + 1] - b
          BY <4>3, <4>4
      <4> QED
          BY <4>1, <4>5 DEF b
    <3>3. CASE k + 1 > j
      <4>1. ~ (k < j) /\ ~ (k + 1 < j)
          BY <2>1, <3>3
      <4>2. w[k + 1] = u[k + 1] - values[j] + values[(k + 1) + 1]
            /\ u[(k + 1) + 1] = u[k + 1] + values[(k + 1) + 1]
          BY <2>2, <2>3, <2>4, <2>6, <4>1
      <4> DEFINE a == u[k + 1]
                 b == values[j]
                 d == values[(k + 1) + 1]
      <4>3. /\ a \in Int /\ b \in Int /\ d \in Int
            /\ w[k + 1] = a - b + d /\ u[(k + 1) + 1] = a + d
          BY <1>1, <2>4, <2>5, <4>2
      <4> HIDE DEF a, b, d
      <4>4. a - b + d = a + d - b
          BY <4>3, Reordered
      <4>5. w[k + 1] = u[(k + 1) + 1] - b
          BY <4>3, <4>4
      <4> QED
          BY <4>1, <4>5 DEF b
    <3> QED
        BY <2>1, <3>1, <3>2, <3>3
  <2> QED
      BY <2>1, <2>7
<1>9. n - 1 \in S
  <2> DEFINE m == n - 1
  <2>1. m \in Nat /\ \A k \in 0 .. m - 1 : k \in S => k + 1 \in S
      BY <1>1, <1>8
  <2> HIDE DEF S, m
  <2>2. 0 \in S
      BY <1>7
  <2>3. \A k \in 0 .. m : k \in S
      BY <2>1, <2>2, BoundedInduction
  <2> QED
      BY <2>1, <2>3 DEF m
<1>10. w[n - 1] = u[n] - values[j]
  <2>1. w[n - 1] = IF n - 1 < j THEN u[n - 1] ELSE u[(n - 1) + 1] - values[j]
      BY <1>9
  <2>2. u[(n - 1) + 1] = u[n - 1] + values[(n - 1) + 1] /\ (n - 1) + 1 = n /\ u[n - 1] \in Int
      BY <1>1, <1>6
  <2>3. CASE n - 1 < j
    <3>1. j = n
        BY <1>1, <2>3
    <3> QED
        BY <1>1, <2>1, <2>2, <2>3, <3>1
  <2>4. CASE ~ (n - 1 < j)
      BY <2>1, <2>2, <2>4
  <2> QED
      BY <2>3, <2>4
<1> QED
    BY <1>4, <1>5, <1>10 DEF other

-----------------------------------------------------------------------------
(* The evidence behind a list of prototypes.                               *)

\* Every class rests on the same samples in both lists.
SameEvidence(s, t) == \A c : Weight(t, c) = Weight(s, c) /\ Total(t, c) = Total(s, c)

(* The weight and the total of every prototype in a list.                  *)
LEMMA PartsType ==
    ASSUME NEW protos \in Seq(Prototype)
    PROVE  \A i \in 1 .. Len(protos) : /\ protos[i] \in Prototype /\ protos[i].weight \in Nat \ {0}
                                       /\ protos[i].weight \in Int /\ protos[i].total \in Int
<1> TAKE i \in 1 .. Len(protos)
<1>1. protos[i] \in Prototype
    OBVIOUS
<1> HIDE DEF Prototype
<1> QED
    BY <1>1 DEF Prototype

(* The weights and the totals of a class are integers.                     *)
LEMMA EvidenceType ==
    ASSUME NEW protos \in Seq(Prototype), NEW c
    PROVE  /\ Weights(protos, c) \in Seq(Int) /\ Len(Weights(protos, c)) = Len(protos)
           /\ Totals(protos, c) \in Seq(Int) /\ Len(Totals(protos, c)) = Len(protos)
           /\ Weight(protos, c) \in Int /\ Total(protos, c) \in Int
<1> DEFINE n == Len(protos)
<1>1. \A i \in 1 .. n : protos[i].weight \in Int /\ protos[i].total \in Int
    BY PartsType
<1>2. n \in Nat
    OBVIOUS
<1>3. Weights(protos, c) \in Seq(Int) /\ Len(Weights(protos, c)) = n
    BY <1>1, <1>2 DEF Weights
<1>4. Totals(protos, c) \in Seq(Int) /\ Len(Totals(protos, c)) = n
    BY <1>1, <1>2 DEF Totals
<1> QED
    BY <1>3, <1>4, SumType DEF Weight, Total

(* Fusing the values in two places and deleting the second keeps the sum.  *)
LEMMA SumFused ==
    ASSUME NEW values \in Seq(Int), NEW a \in 1 .. Len(values), NEW b \in 1 .. Len(values), a < b
    PROVE  SumOf(Without([values EXCEPT ![a] = values[a] + values[b]], b)) = SumOf(values)
<1> DEFINE x == values[a] + values[b]
           other == [values EXCEPT ![a] = x]
<1>1. values[a] \in Int /\ values[b] \in Int /\ x \in Int /\ a # b
    OBVIOUS
<1> HIDE DEF x
<1>2. other \in Seq(Int) /\ Len(other) = Len(values) /\ other[b] = values[b]
    BY <1>1
<1>3. SumOf(other) = SumOf(values) - values[a] + x
    BY <1>1, SumExcept
<1> HIDE DEF other
<1>4. SumOf(Without(other, b)) = SumOf(other) - other[b]
    BY <1>2, SumWithout
<1>5. SumOf(values) \in Int
    BY SumType
<1>6. SumOf(Without(other, b)) = SumOf(values)
    BY <1>1, <1>2, <1>3, <1>4, <1>5 DEF x
<1> QED
    BY <1>6 DEF other, x

(* A turn of _prune that finds two prototypes of a class keeps the         *)
(* evidence of every class.                                                *)
LEMMA PruneOnceEvidence ==
    ASSUME NEW protos \in Seq(Prototype), SameClassPairs(protos) # {}
    PROVE  SameEvidence(protos, PruneOnce(protos).protos)
<1> DEFINE pair == NearestPair(protos)
           a == pair[1]
           b == pair[2]
           fused == Consolidated(protos[a], protos[b])
           list == [protos EXCEPT ![a] = fused]
           rest == Without(list, b)
           n == Len(protos)
<1>1. pair \in SameClassPairs(protos)
    BY NearestPairIn
<1>2. PruneOnce(protos).protos = rest
    BY DEF PruneOnce
<1> HIDE DEF pair
<1>3. a \in 1 .. n /\ b \in 1 .. n /\ a < b /\ protos[a].label = protos[b].label /\ n \in Nat
    BY <1>1 DEF SameClassPairs
<1> HIDE DEF a, b
<1>4. /\ fused.label = protos[a].label
      /\ fused.weight = protos[a].weight + protos[b].weight
      /\ fused.total = protos[a].total + protos[b].total
    BY DEF Consolidated
<1> HIDE DEF fused
<1>5. Len(list) = n /\ list[a] = fused /\ \A i \in 1 .. n : i # a => list[i] = protos[i]
    BY <1>3
<1> HIDE DEF list
<1>6. /\ DOMAIN rest = 1 .. n - 1 /\ Len(rest) = n - 1
      /\ \A k \in 1 .. n - 1 : rest[k] = IF k < b THEN list[k] ELSE list[k + 1]
    BY <1>3, <1>5 DEF Without
<1> HIDE DEF rest
<1>7. ASSUME NEW c PROVE Weight(rest, c) = Weight(protos, c) /\ Total(rest, c) = Total(protos, c)
  <2> DEFINE w == Weights(protos, c)
             t == Totals(protos, c)
             w2 == [w EXCEPT ![a] = w[a] + w[b]]
             t2 == [t EXCEPT ![a] = t[a] + t[b]]
  <2>1. w \in Seq(Int) /\ Len(w) = n /\ t \in Seq(Int) /\ Len(t) = n
      BY EvidenceType
  <2>2. \A i \in 1 .. n : protos[i].weight \in Int /\ protos[i].total \in Int
      BY PartsType
  <2>3. /\ \A i \in 1 .. n : w[i] = IF protos[i].label = c THEN protos[i].weight ELSE 0
        /\ \A i \in 1 .. n : t[i] = IF protos[i].label = c THEN protos[i].total ELSE 0
      BY DEF Weights, Totals
  <2> HIDE DEF w, t
  <2>4. /\ Len(w2) = n /\ w2[a] = w[a] + w[b] /\ \A i \in 1 .. n : i # a => w2[i] = w[i]
        /\ Len(t2) = n /\ t2[a] = t[a] + t[b] /\ \A i \in 1 .. n : i # a => t2[i] = t[i]
      BY <1>3, <2>1
  <2>5. /\ SumOf(Without(w2, b)) = SumOf(w)
        /\ SumOf(Without(t2, b)) = SumOf(t)
      BY <1>3, <2>1, SumFused
  <2> HIDE DEF w2, t2
  <2>6. \A i \in 1 .. n : /\ w2[i] = IF list[i].label = c THEN list[i].weight ELSE 0
                          /\ t2[i] = IF list[i].label = c THEN list[i].total ELSE 0
    <3> TAKE i \in 1 .. n
    <3>1. CASE i = a
      <4>1. w[a] + w[b] = IF protos[a].label = c THEN protos[a].weight + protos[b].weight ELSE 0
          BY <1>3, <2>2, <2>3
      <4>2. t[a] + t[b] = IF protos[a].label = c THEN protos[a].total + protos[b].total ELSE 0
          BY <1>3, <2>2, <2>3
      <4> QED
          BY <1>4, <1>5, <2>4, <3>1, <4>1, <4>2
    <3>2. CASE i # a
        BY <1>5, <2>3, <2>4, <3>2
    <3> QED
        BY <3>1, <3>2
  <2>7. \A k \in 1 .. n - 1 : (k < b => k \in 1 .. n) /\ (~ (k < b) => k + 1 \in 1 .. n)
      BY <1>3
  <2>8. Weights(rest, c) = Without(w2, b)
    <3>1. \A k \in 1 .. n - 1 : (IF rest[k].label = c THEN rest[k].weight ELSE 0)
                                    = IF k < b THEN w2[k] ELSE w2[k + 1]
        BY <1>6, <2>6, <2>7
    <3> QED
        BY <1>6, <2>4, <3>1 DEF Weights, Without
  <2>9. Totals(rest, c) = Without(t2, b)
    <3>1. \A k \in 1 .. n - 1 : (IF rest[k].label = c THEN rest[k].total ELSE 0)
                                    = IF k < b THEN t2[k] ELSE t2[k + 1]
        BY <1>6, <2>6, <2>7
    <3> QED
        BY <1>6, <2>4, <3>1 DEF Totals, Without
  <2> QED
      BY <2>5, <2>8, <2>9 DEF Weight, Total, w, t
<1> QED
    BY <1>2, <1>7 DEF SameEvidence

(* Within a budget as large as the number of classes, _prune keeps the     *)
(* evidence of every class.                                                *)
LEMMA PruneEvidence ==
    ASSUME NEW L, IsFiniteSet(L), Cardinality(L) <= MaxPrototypes, NEW protos \in Seq(Of(L))
    PROVE  SameEvidence(protos, Prune(protos).protos)
<1> DEFINE n == Excess(protos)
           Good(v, k) ==
              /\ v \in Pruned(L) /\ ~ v.raised
              /\ Len(v.protos) = Len(protos) - k
              /\ SameEvidence(protos, v.protos)
<1>1. PICK turn : IsPruning(turn, protos) /\ Prune(protos) = turn[n]
    BY PruneRuns
<1> DEFINE S == {k \in 0 .. n : Good(turn[k], k)}
<1>2. n \in Nat /\ (n > 0 => Len(protos) - n = MaxPrototypes) /\ Len(protos) \in Nat
      /\ MaxPrototypes \in Nat \ {0}
    BY ModelAssumption DEF Excess
<1>3. 0 \in S
  <2>1. turn[0] = [protos |-> protos, raised |-> FALSE]
      BY <1>1 DEF IsPruning
  <2>2. turn[0] \in Pruned(L)
      BY <2>1, PrunedType
  <2>3. SameEvidence(protos, protos)
      BY DEF SameEvidence
  <2> QED
      BY <1>2, <2>1, <2>2, <2>3
<1>4. ASSUME NEW k \in 0 .. n - 1, k \in S PROVE k + 1 \in S
  <2> DEFINE v == turn[k]
             w == turn[k + 1]
             list == v.protos
  <2>1. w = IF v.raised THEN v ELSE PruneOnce(v.protos)
    <3>1. k + 1 \in 1 .. n /\ (k + 1) - 1 = k
        BY <1>2
    <3> QED
        BY <1>1, <3>1 DEF IsPruning
  <2>2. Good(v, k)
      BY <1>4
  <2> HIDE DEF v, w
  <2>3. w = PruneOnce(list) /\ list \in Seq(Of(L)) /\ Len(list) = Len(protos) - k
        /\ SameEvidence(protos, list)
      BY <2>1, <2>2 DEF Pruned
  <2> HIDE DEF list
  <2>4. Len(list) > MaxPrototypes /\ list # << >>
      BY <1>2, <2>3
  <2>5. SameClassPairs(list) # {}
    <3>1. Cardinality(L) \in Nat
        BY FS_CardinalityType
    <3> QED
        BY <1>2, <2>3, <2>4, <3>1, Pigeonhole
  <2>6. ~ w.raised
      BY <2>3, <2>5, PruneOnceKeeps
  <2>7. SameEvidence(list, w.protos)
    <3>1. list \in Seq(Prototype)
        BY <2>3 DEF Of
    <3> QED
        BY <2>3, <2>5, <3>1, PruneOnceEvidence
  <2>8. w \in Pruned(L) /\ Len(w.protos) = Len(list) - 1
      BY <2>3, <2>4, <2>6, PruneOnceType
  <2>9. SameEvidence(protos, w.protos)
      BY <2>3, <2>7 DEF SameEvidence
  <2>10. Good(w, k + 1)
      BY <1>2, <2>3, <2>6, <2>8, <2>9
  <2> QED
      BY <1>2, <2>10 DEF w
<1>5. n \in S
  <2> HIDE DEF S, n
  <2>1. \A k \in 0 .. n - 1 : k \in S => k + 1 \in S
      BY <1>4
  <2>2. \A k \in 0 .. n : k \in S
      BY <1>2, <1>3, <2>1, BoundedInduction
  <2> QED
      BY <1>2, <2>2
<1> QED
    BY <1>1, <1>2, <1>5

-----------------------------------------------------------------------------
(* Merging what a sender below override_trust offers.                      *)

(* Keeping every element of a list keeps the list.                         *)
LEMMA PickAll ==
    ASSUME NEW T, NEW s \in Seq(T)
    PROVE  Pick(s, DOMAIN s) = s
<1> DEFINE n == Len(s)
           I == DOMAIN s
           U == {s[i] : i \in I}
           Copies(list, k) == list \in Seq(U) /\ Len(list) = k /\ \A i \in 1 .. k : list[i] = s[i]
<1>1. n \in Nat /\ I = 1 .. n /\ I \subseteq 1 .. Len(s)
    OBVIOUS
<1>2. \A i \in 1 .. n : s[i] \in U
    OBVIOUS
<1>3. s \in Seq(U)
    BY <1>1, <1>2
<1>4. PICK kept : IsPicking(kept, s, I) /\ Pick(s, I) = kept[n]
    BY <1>1, PickRuns
<1> HIDE DEF I, U
<1> DEFINE S == {k \in 0 .. n : Copies(kept[k], k)}
<1>5. 0 \in S
  <2>1. kept[0] = << >>
      BY <1>4 DEF IsPicking
  <2> DEFINE list == kept[0]
  <2>2. Len(list) = 0 /\ list \in Seq(U) /\ \A i \in 1 .. 0 : list[i] = s[i]
      BY <2>1
  <2> HIDE DEF list
  <2>3. Copies(list, 0)
      BY <2>2
  <2> QED
      BY <1>1, <2>3 DEF list
<1>6. ASSUME NEW k \in 0 .. n - 1, k \in S PROVE k + 1 \in S
  <2> DEFINE list == kept[k]
             longer == kept[k + 1]
  <2>1. k + 1 \in 1 .. n /\ (k + 1) - 1 = k /\ k \in Nat
      BY <1>1
  <2>2. longer = Append(list, s[k + 1])
      BY <1>1, <1>4, <2>1 DEF IsPicking
  <2>3. Copies(list, k) /\ s[k + 1] \in U
      BY <1>2, <1>6, <2>1
  <2> HIDE DEF list, longer
  <2>4. Copies(longer, k + 1)
      BY <2>1, <2>2, <2>3
  <2> QED
      BY <1>1, <2>1, <2>4 DEF longer
<1>7. n \in S
  <2> HIDE DEF S, n
  <2>1. \A k \in 0 .. n : k \in S
      BY <1>1, <1>5, <1>6, BoundedInduction
  <2> QED
      BY <1>1, <2>1
<1> DEFINE whole == kept[n]
<1>8. Copies(whole, n)
    BY <1>7
<1> HIDE DEF whole
<1>9. whole = s
    BY <1>3, <1>8
<1> QED
    BY <1>4, <1>9 DEF whole, I

\* Why merged_with refuses p of such a sender, whatever the receiver has.
Refused(protos, p) ==
    \/ protos # << >> /\ protos[1].shape # p.shape
    \/ Clashes(protos, p) # {}

Known(own, p) == \E i \in DOMAIN own : SameKey(own[i], p)

\* What a turn of merged_with does with p then.
Turned(own, merge, p, next) ==
    IF Known(own, p) \/ Refused(merge.protos, p)
    THEN next.protos = merge.protos /\ next.accepted = merge.accepted
    ELSE next.protos = Append(merge.protos, p) /\ next.accepted = merge.accepted + 1

(* A prototype of such a sender is known, refused or appended.             *)
LEMMA UntrustedTurn ==
    ASSUME NEW L, NEW own, NEW trust, trust < OverrideTrust, NEW merge \in Merges(L), NEW p \in Of(L)
    PROVE  Turned(own, merge, p, Take(own, trust, merge, p))
<1> DEFINE list == merge.protos
           next == Take(own, trust, merge, p)
<1>1. list \in Seq(Of(L))
    BY DEF Merges
<1>2. merge = [protos |-> list, accepted |-> merge.accepted, conflicts |-> merge.conflicts]
    BY DEF Merges
<1>3. CASE Known(own, p)
  <2>1. next = merge
      BY <1>3 DEF Take, Known
  <2> QED
      BY <1>3, <2>1 DEF Turned
<1>4. CASE ~ Known(own, p) /\ Refused(list, p)
  <2>1. next = [merge EXCEPT !.conflicts = @ + 1]
      BY <1>4 DEF Take, Known, Refused
  <2>2. next.protos = list /\ next.accepted = merge.accepted
      BY <1>2, <2>1
  <2> QED
      BY <1>4, <2>2 DEF Turned
<1>5. CASE ~ Known(own, p) /\ ~ Refused(list, p)
  <2>1. next = [merge EXCEPT !.protos = Append(Pick(@, (DOMAIN @) \ Clashes(@, p)), p), !.accepted = @ + 1]
      BY <1>5 DEF Take, Known, Refused
  <2>2. next.protos = Append(Pick(list, (DOMAIN list) \ Clashes(list, p)), p)
        /\ next.accepted = merge.accepted + 1
      BY <1>2, <2>1
  <2>3. (DOMAIN list) \ Clashes(list, p) = DOMAIN list
      BY <1>5 DEF Refused
  <2>4. next.protos = Append(list, p)
      BY <1>1, <2>2, <2>3, PickAll
  <2> QED
      BY <1>5, <2>2, <2>4 DEF Turned
<1> QED
    BY <1>3, <1>4, <1>5

(* A prototype more takes no weight from any class.                        *)
LEMMA AppendWeighs ==
    ASSUME NEW protos \in Seq(Prototype), NEW p \in Prototype, NEW c
    PROVE  Weight(Append(protos, p), c) >= Weight(protos, c)
<1> DEFINE x == IF p.label = c THEN p.weight ELSE 0
           longer == Append(protos, p)
           n == Len(protos)
<1>1. x \in Nat
    BY DEF Prototype
<1> HIDE DEF x
<1>2. /\ n \in Nat /\ longer \in Seq(Prototype) /\ Len(longer) = n + 1 /\ longer[n + 1] = p
      /\ \A i \in 1 .. n : longer[i] = protos[i]
    OBVIOUS
<1> HIDE DEF longer
<1>3. Weights(protos, c) \in Seq(Int) /\ Len(Weights(protos, c)) = n
      /\ Weights(longer, c) \in Seq(Int) /\ Len(Weights(longer, c)) = n + 1
      /\ Weight(protos, c) \in Int
    BY <1>2, EvidenceType
<1> DEFINE w == Weights(protos, c)
           w2 == Weights(longer, c)
<1>4. /\ \A i \in 1 .. n : w2[i] = w[i]
      /\ w2[n + 1] = x
    BY <1>2 DEF Weights, x
<1> HIDE DEF w, w2
<1>5. w2 = Append(w, x)
    BY <1>1, <1>2, <1>3, <1>4 DEF w, w2
<1>6. SumOf(w2) = SumOf(w) + x
    BY <1>1, <1>3, <1>5, SumAppend DEF w
<1> QED
    BY <1>1, <1>3, <1>6 DEF w, w2, Weight, longer

(* What such a merge holds before it prunes rests, in every class, on no   *)
(* less than the model did.                                                *)
LEMMA UntrustedLoop ==
    ASSUME NEW L, NEW N, NEW model \in Models(L, N),
           NEW incoming \in Seq(Of(L)), NEW trust, trust < OverrideTrust,
           NEW taken, IsMerging(taken, L, model, incoming, trust), NEW c
    PROVE  Weight(taken[Len(incoming)].protos, c) >= Weight(model.protos, c)
<1> DEFINE n == Len(incoming)
           S == {k \in 0 .. n : Weight(taken[k].protos, c) >= Weight(model.protos, c)}
<1>1. n \in Nat
    OBVIOUS
<1>2. model.protos \in Seq(Prototype)
    BY DEF Models, Of
<1>3. Weight(model.protos, c) \in Int
    BY <1>2, EvidenceType
<1>4. 0 \in S
    BY <1>1, <1>3 DEF IsMerging
<1>5. ASSUME NEW k \in 0 .. n - 1, k \in S PROVE k + 1 \in S
  <2> DEFINE v == taken[k]
             w == taken[k + 1]
             p == incoming[k + 1]
  <2>1. k + 1 \in 1 .. n /\ (k + 1) - 1 = k
      BY <1>1
  <2>2. v \in Merges(L) /\ w = Take(model.protos, trust, v, p) /\ p \in Of(L)
      BY <2>1 DEF IsMerging
  <2>3. Weight(v.protos, c) >= Weight(model.protos, c)
      BY <1>5
  <2> HIDE DEF v, w, p
  <2>4. Turned(model.protos, v, p, w)
      BY <2>2, UntrustedTurn
  <2>5. v.protos \in Seq(Prototype) /\ p \in Prototype
      BY <2>2 DEF Merges, Of
  <2>6. Weight(v.protos, c) \in Int /\ Weight(Append(v.protos, p), c) \in Int
    <3>1. Append(v.protos, p) \in Seq(Prototype)
        BY <2>5
    <3> QED
        BY <2>5, <3>1, EvidenceType
  <2>7. Weight(Append(v.protos, p), c) >= Weight(v.protos, c)
      BY <2>5, AppendWeighs
  <2>8. Weight(w.protos, c) >= Weight(model.protos, c)
    <3> DEFINE a == Weight(v.protos, c)
               b == Weight(Append(v.protos, p), c)
    <3>1. Weight(w.protos, c) = a \/ Weight(w.protos, c) = b
        BY <2>4 DEF Turned
    <3>2. a \in Int /\ b \in Int /\ a >= Weight(model.protos, c) /\ b >= a
        BY <2>3, <2>6, <2>7
    <3> HIDE DEF a, b
    <3> QED
        BY <1>3, <3>1, <3>2
  <2> QED
      BY <1>1, <2>1, <2>8 DEF w
<1>6. n \in S
  <2> HIDE DEF S, n
  <2>1. \A k \in 0 .. n : k \in S
      BY <1>1, <1>4, <1>5, BoundedInduction
  <2> QED
      BY <1>1, <2>1
<1> QED
    BY <1>6

(* A list within the budget is not pruned.                                 *)
LEMMA PruneWithin ==
    ASSUME NEW L, NEW protos \in Seq(Of(L)), Len(protos) <= MaxPrototypes
    PROVE  Prune(protos).protos = protos
<1>1. PICK turn : IsPruning(turn, protos) /\ Prune(protos) = turn[Excess(protos)]
    BY PruneRuns
<1>2. Excess(protos) = 0
    BY ModelAssumption DEF Excess
<1> QED
    BY <1>1, <1>2 DEF IsPruning

IsStart(s, t) == Len(s) <= Len(t) /\ \A i \in 1 .. Len(s) : t[i] = s[i]

LEMMA StartOfStart ==
    ASSUME NEW s, NEW t, NEW r, Len(s) \in Nat, Len(t) \in Nat, Len(r) \in Nat,
           IsStart(s, t), IsStart(t, r)
    PROVE  IsStart(s, r)
<1>1. \A i \in 1 .. Len(s) : i \in 1 .. Len(t)
    BY DEF IsStart
<1> QED
    BY <1>1 DEF IsStart

(* Such a merge only appends: what it has at any turn starts what it ends  *)
(* with, and it is longer than the model by what was accepted.             *)
LEMMA MergeAppends ==
    ASSUME NEW L, NEW N, NEW model \in Models(L, N),
           NEW incoming \in Seq(Of(L)), NEW trust, trust < OverrideTrust,
           NEW taken, IsMerging(taken, L, model, incoming, trust),
           taken[Len(incoming)] \in Merges(L)
    PROVE  \A j \in 0 .. Len(incoming) :
              /\ taken[j] \in Merges(L)
              /\ IsStart(taken[j].protos, taken[Len(incoming)].protos)
              /\ Len(taken[j].protos) = Len(model.protos) + taken[j].accepted
<1> DEFINE n == Len(incoming)
<1>1. n \in Nat
    OBVIOUS
<1>2. ASSUME NEW k \in 0 .. n PROVE taken[k] \in Merges(L)
  <2>1. CASE k = n
      BY <2>1
  <2>2. CASE k # n
    <3>1. k + 1 \in 1 .. n /\ (k + 1) - 1 = k
        BY <1>1, <2>2
    <3> QED
        BY <3>1 DEF IsMerging
  <2> QED
      BY <2>1, <2>2
<1>3. ASSUME NEW k \in 0 .. n - 1
      PROVE  /\ IsStart(taken[k].protos, taken[k + 1].protos)
             /\ Len(taken[k].protos) = Len(model.protos) + taken[k].accepted =>
                    Len(taken[k + 1].protos) = Len(model.protos) + taken[k + 1].accepted
  <2> DEFINE v == taken[k]
             w == taken[k + 1]
             p == incoming[k + 1]
  <2>1. k + 1 \in 1 .. n /\ (k + 1) - 1 = k /\ k \in 0 .. n
      BY <1>1
  <2>2. v \in Merges(L) /\ w = Take(model.protos, trust, v, p) /\ p \in Of(L)
      BY <2>1 DEF IsMerging
  <2> HIDE DEF v, w, p
  <2>3. Turned(model.protos, v, p, w)
      BY <2>2, UntrustedTurn
  <2> DEFINE s == v.protos
  <2>4. s \in Seq(Of(L)) /\ v.accepted \in Nat /\ Len(model.protos) \in Nat
      BY <2>2 DEF Merges, Models
  <2>5. \/ w.protos = s /\ w.accepted = v.accepted
        \/ w.protos = Append(s, p) /\ w.accepted = v.accepted + 1
      BY <2>3 DEF Turned
  <2> HIDE DEF s
  <2>6. /\ Len(s) \in Nat /\ Len(Append(s, p)) = Len(s) + 1
        /\ IsStart(s, s) /\ IsStart(s, Append(s, p))
      BY <2>2, <2>4 DEF IsStart
  <2>7. IsStart(s, w.protos)
      BY <2>5, <2>6
  <2>8. Len(s) = Len(model.protos) + v.accepted => Len(w.protos) = Len(model.protos) + w.accepted
    <3>1. CASE w.protos = s /\ w.accepted = v.accepted
        BY <3>1
    <3>2. CASE w.protos = Append(s, p) /\ w.accepted = v.accepted + 1
      <4>1. Len(w.protos) = Len(s) + 1
          BY <2>6, <3>2
      <4> DEFINE a == Len(s)
                 b == Len(model.protos)
                 c == v.accepted
      <4>2. a \in Nat /\ b \in Nat /\ c \in Nat /\ w.accepted = c + 1 /\ Len(w.protos) = a + 1
          BY <2>4, <2>6, <3>2, <4>1
      <4> HIDE DEF a, b, c
      <4>3. a = b + c => a + 1 = b + (c + 1)
          BY <4>2
      <4> QED
          BY <4>2, <4>3 DEF a, b, c
    <3> QED
        BY <2>5, <3>1, <3>2
  <2> QED
      BY <2>7, <2>8 DEF v, w, s
<1>4. \A k \in 0 .. n : Len(taken[k].protos) \in Nat
    BY <1>2 DEF Merges
<1>5. ASSUME NEW j \in 0 .. n PROVE IsStart(taken[j].protos, taken[n].protos)
  <2> DEFINE S == {k \in 0 .. n : k >= j => IsStart(taken[j].protos, taken[k].protos)}
  <2>1. IsStart(taken[j].protos, taken[j].protos)
      BY <1>4 DEF IsStart
  <2>2. 0 \in S
      BY <1>1, <2>1
  <2>3. ASSUME NEW k \in 0 .. n - 1, k \in S PROVE k + 1 \in S
    <3>1. k \in 0 .. n /\ k + 1 \in 0 .. n
        BY <1>1
    <3>2. CASE k >= j
      <4>1. IsStart(taken[j].protos, taken[k].protos) /\ IsStart(taken[k].protos, taken[k + 1].protos)
          BY <1>3, <2>3, <3>2
      <4>2. IsStart(taken[j].protos, taken[k + 1].protos)
          BY <1>4, <3>1, <4>1, StartOfStart
      <4> QED
          BY <3>1, <4>2
    <3>3. CASE ~ (k >= j)
      <4>1. k + 1 > j => FALSE
          BY <3>1, <3>3
      <4> QED
          BY <2>1, <3>1, <4>1
    <3> QED
        BY <3>2, <3>3
  <2>4. n \in S
    <3> HIDE DEF S, n
    <3>1. \A k \in 0 .. n : k \in S
        BY <1>1, <2>2, <2>3, BoundedInduction
    <3> QED
        BY <1>1, <3>1
  <2> QED
      BY <2>4
<1>6. ASSUME NEW j \in 0 .. n PROVE Len(taken[j].protos) = Len(model.protos) + taken[j].accepted
  <2> DEFINE S == {k \in 0 .. n : Len(taken[k].protos) = Len(model.protos) + taken[k].accepted}
  <2>1. 0 \in S
    <3>1. Len(model.protos) \in Nat
        BY DEF Models
    <3>2. taken[0].protos = model.protos /\ taken[0].accepted = 0
        BY DEF IsMerging
    <3> QED
        BY <1>1, <3>1, <3>2
  <2>2. ASSUME NEW k \in 0 .. n - 1, k \in S PROVE k + 1 \in S
    <3>1. k + 1 \in 0 .. n
        BY <1>1
    <3> QED
        BY <1>3, <2>2, <3>1
  <2> HIDE DEF S, n
  <2>3. \A k \in 0 .. n : k \in S
      BY <1>1, <2>1, <2>2, BoundedInduction
  <2>4. j \in S
      BY <2>3
  <2> QED
      BY <2>4 DEF S
<1> QED
    BY <1>2, <1>5, <1>6

(* A prototype has its own key.                                            *)
LEMMA KeyOfItself ==
    ASSUME NEW p \in Prototype
    PROVE  SameKey(p, p)
<1> DEFINE x == p.total * p.weight
<1>1. x \in Int
    BY DEF Prototype
<1> HIDE DEF x
<1>2. x - x = 0
    BY <1>1
<1> QED
    BY <1>2 DEF SameKey, Gap, Abs, x

(* What is known or refused at the start of a list is at the end.          *)
LEMMA StillSettled ==
    ASSUME NEW s \in Seq(Prototype), NEW t \in Seq(Prototype), IsStart(s, t), NEW p
    PROVE  (Known(s, p) => Known(t, p)) /\ (Refused(s, p) => Refused(t, p))
<1>1. \A i \in DOMAIN s : i \in DOMAIN t /\ t[i] = s[i]
    BY DEF IsStart
<1>2. s # << >> => 1 \in DOMAIN s /\ t # << >>
    BY <1>1
<1> QED
    BY <1>1, <1>2 DEF Known, Refused, Clashes

(* After such a merge every prototype it was offered is known or refused.  *)
LEMMA AllSettled ==
    ASSUME NEW L, NEW N, NEW model \in Models(L, N),
           NEW incoming \in Seq(Of(L)), NEW trust, trust < OverrideTrust,
           NEW taken, IsMerging(taken, L, model, incoming, trust),
           taken[Len(incoming)] \in Merges(L), NEW k \in 1 .. Len(incoming)
    PROVE  LET all == taken[Len(incoming)].protos
           IN  Known(all, incoming[k]) \/ Refused(all, incoming[k])
<1> DEFINE n == Len(incoming)
           all == taken[n].protos
           p == incoming[k]
           v == taken[k - 1]
           w == taken[k]
           own == model.protos
<1>1. n \in Nat /\ k \in 0 .. n /\ k - 1 \in 0 .. n /\ 0 \in 0 .. n /\ n \in 0 .. n
    OBVIOUS
<1>2. /\ v \in Merges(L) /\ w \in Merges(L) /\ taken[n] \in Merges(L)
      /\ IsStart(taken[0].protos, all) /\ IsStart(v.protos, all) /\ IsStart(w.protos, all)
    BY <1>1, MergeAppends
<1>3. w = Take(own, trust, v, p) /\ taken[0].protos = own /\ p \in Of(L)
    BY DEF IsMerging
<1>4. own \in Seq(Of(L))
    BY DEF Models
<1>5. all \in Seq(Of(L)) /\ v.protos \in Seq(Of(L))
    BY <1>2 DEF Merges
<1> HIDE DEF n, all, p, v, w, own
<1>6. Turned(own, v, p, w)
    BY <1>2, <1>3, UntrustedTurn
<1>7. /\ own \in Seq(Prototype) /\ all \in Seq(Prototype) /\ v.protos \in Seq(Prototype)
      /\ p \in Prototype
    BY <1>3, <1>4, <1>5 DEF Of
<1>8. CASE Known(own, p)
    BY <1>2, <1>3, <1>7, <1>8, StillSettled DEF all, p, n
<1>9. CASE Refused(v.protos, p)
    BY <1>2, <1>7, <1>9, StillSettled DEF all, p, n
<1>10. CASE ~ Known(own, p) /\ ~ Refused(v.protos, p)
  <2> DEFINE s == Append(v.protos, p)
             m == Len(v.protos) + 1
  <2>1. IsStart(s, all)
      BY <1>2, <1>6, <1>10 DEF Turned
  <2>2. m \in 1 .. Len(s) /\ s[m] = p /\ m \in Nat
      BY <1>7
  <2> HIDE DEF s, m
  <2>3. m \in DOMAIN all /\ all[m] = p
      BY <1>7, <2>1, <2>2 DEF IsStart
  <2>4. Known(all, p)
      BY <1>7, <2>3, KeyOfItself DEF Known
  <2> QED
      BY <2>4 DEF all, p, n
<1> QED
    BY <1>8, <1>9, <1>10

(* A merge that is offered nothing but what is known or refused takes      *)
(* nothing.                                                                *)
LEMMA NothingTaken ==
    ASSUME NEW L, NEW N, NEW model \in Models(L, N),
           NEW incoming \in Seq(Of(L)), NEW trust, trust < OverrideTrust,
           NEW taken, IsMerging(taken, L, model, incoming, trust),
           \A k \in 1 .. Len(incoming) : Known(model.protos, incoming[k]) \/ Refused(model.protos, incoming[k])
    PROVE  taken[Len(incoming)].protos = model.protos /\ taken[Len(incoming)].accepted = 0
<1> DEFINE n == Len(incoming)
           own == model.protos
           S == {k \in 0 .. n : taken[k].protos = own /\ taken[k].accepted = 0}
<1>1. n \in Nat
    OBVIOUS
<1>2. 0 \in S
    BY <1>1 DEF IsMerging
<1>3. ASSUME NEW k \in 0 .. n - 1, k \in S PROVE k + 1 \in S
  <2> DEFINE v == taken[k]
             w == taken[k + 1]
             p == incoming[k + 1]
  <2>1. k + 1 \in 1 .. n /\ (k + 1) - 1 = k
      BY <1>1
  <2>2. v \in Merges(L) /\ w = Take(own, trust, v, p) /\ p \in Of(L)
        /\ (Known(own, p) \/ Refused(own, p))
      BY <2>1 DEF IsMerging
  <2>3. v.protos = own /\ v.accepted = 0
      BY <1>3
  <2> HIDE DEF v, w, p, own
  <2>4. Turned(own, v, p, w)
      BY <2>2, UntrustedTurn
  <2>5. w.protos = own /\ w.accepted = 0
      BY <2>2, <2>3, <2>4 DEF Turned
  <2> QED
      BY <1>1, <2>1, <2>5 DEF w
<1>4. n \in S
  <2> HIDE DEF S, n
  <2>1. \A k \in 0 .. n : k \in S
      BY <1>1, <1>2, <1>3, BoundedInduction
  <2> QED
      BY <1>1, <2>1
<1> QED
    BY <1>4

-----------------------------------------------------------------------------
(* The two models.                                                         *)

Classes == {d.y : d \in Stream}
Bumpers == {"none", "me", "them"}

\* Neither model has a class that no stream shows.
Learnt == mine \in Models(Classes, Bumpers) /\ theirs \in Models(Classes, Bumpers)

\* Both are within the budget, and the bound of their counters.
Sized ==
    /\ Len(mine.protos) <= MaxPrototypes /\ mine.counter <= MaxVersion
    /\ Len(theirs.protos) <= MaxPrototypes /\ theirs.counter <= MaxVersion

LEMMA LearntInit == Init => Learnt /\ Sized
<1> SUFFICES ASSUME Init PROVE Learnt /\ Sized
    OBVIOUS
<1> DEFINE s == << >>
<1>1. s \in Seq(Of(Classes)) /\ Len(s) = 0
    OBVIOUS
<1>2. Genesis = [protos |-> s, counter |-> 0, bumper |-> "none"]
    BY DEF Genesis
<1> HIDE DEF s
<1>3. Genesis \in Models(Classes, Bumpers) /\ Len(Genesis.protos) = 0 /\ Genesis.counter = 0
    BY <1>1, <1>2 DEF Models, Bumpers
<1> QED
    BY <1>3, ModelAssumption, ExchangeAssumption DEF Init, Learnt, Sized

(* Learning bumps the version by one at most.                              *)
LEMMA LearnedCounts ==
    ASSUME NEW L, NEW N, NEW model \in Models(L, N), NEW x, NEW y, NEW node
    PROVE  Learned(model, x, y, node).counter \in {model.counter, model.counter + 1}
<1>1. \A s : Bumped(model, s, node).counter = model.counter + 1
    BY DEF Bumped
<1>2. \A s : [model EXCEPT !.protos = s].counter = model.counter
    BY DEF Models
<1> QED
    BY <1>1, <1>2 DEF Learned

(* What a step of learning makes of a model.                               *)
LEMMA LearnStep ==
    ASSUME NEW m \in Models(Classes, Bumpers), NEW node \in Bumpers, NEW d \in Stream,
           m.counter < MaxVersion
    PROVE  LET next == Learned(m, d.x, d.y, node)
           IN  /\ next \in Models(Classes, Bumpers)
               /\ next.counter <= MaxVersion
               /\ IsFiniteSet(Classes) /\ Cardinality(Classes) <= MaxPrototypes
                  /\ Len(m.protos) <= MaxPrototypes => Len(next.protos) <= MaxPrototypes
<1>1. d.x \in Sample /\ d.y \in Nat /\ d.y \in Classes
    BY ExchangeAssumption DEF Classes
<1>2. m.counter \in Nat /\ MaxVersion \in Nat
    BY ExchangeAssumption DEF Models
<1> QED
    BY <1>1, <1>2, LearnedType, LearnedCounts

(* ... and a merge.                                                        *)
LEMMA MergeStep ==
    ASSUME Learnt, NEW trust, Merge(trust)
    PROVE  /\ mine' \in Models(Classes, Bumpers)
           /\ Len(mine'.protos) <= MaxPrototypes
           /\ mine'.counter <= MaxVersion
<1> DEFINE merge == MergedWith(mine, theirs.protos, "me", trust)
<1>1. theirs.protos \in Seq(Of(Classes)) /\ mine.counter \in Nat /\ MaxVersion \in Nat
    BY ExchangeAssumption DEF Learnt, Models
<1>2. /\ merge.model \in Models(Classes, Bumpers)
      /\ ~ merge.raised => Len(merge.model.protos) <= MaxPrototypes
    BY <1>1, MergedWithType DEF Learnt, Bumpers
<1>3. merge.model.counter = mine.counter + 1
    BY DEF MergedWith, Bumped
<1>4. mine' = merge.model /\ ~ merge.raised /\ mine.counter < MaxVersion
    BY DEF Merge
<1> HIDE DEF merge
<1> QED
    BY <1>1, <1>2, <1>3, <1>4

LEMMA LearntNext ==
    Learnt /\ [Next]_vars =>
        /\ Learnt'
        /\ IsFiniteSet(Classes) /\ Cardinality(Classes) <= MaxPrototypes /\ Sized => Sized'
<1> SUFFICES ASSUME Learnt, [Next]_vars
             PROVE  /\ Learnt'
                    /\ IsFiniteSet(Classes) /\ Cardinality(Classes) <= MaxPrototypes /\ Sized => Sized'
    OBVIOUS
<1>1. ASSUME NEW d \in Stream, LearnMine(d)
      PROVE  /\ Learnt'
             /\ IsFiniteSet(Classes) /\ Cardinality(Classes) <= MaxPrototypes /\ Sized => Sized'
  <2>1. mine' = Learned(mine, d.x, d.y, "me") /\ theirs' = theirs /\ mine.counter < MaxVersion
      BY <1>1 DEF LearnMine
  <2>2. /\ mine' \in Models(Classes, Bumpers) /\ mine'.counter <= MaxVersion
        /\ IsFiniteSet(Classes) /\ Cardinality(Classes) <= MaxPrototypes
           /\ Len(mine.protos) <= MaxPrototypes => Len(mine'.protos) <= MaxPrototypes
      BY <2>1, LearnStep DEF Learnt, Bumpers
  <2> QED
      BY <2>1, <2>2 DEF Learnt, Sized
<1>2. ASSUME NEW d \in Stream, LearnTheirs(d)
      PROVE  /\ Learnt'
             /\ IsFiniteSet(Classes) /\ Cardinality(Classes) <= MaxPrototypes /\ Sized => Sized'
  <2>1. theirs' = Learned(theirs, d.x, d.y, "them") /\ mine' = mine /\ theirs.counter < MaxVersion
      BY <1>2 DEF LearnTheirs
  <2>2. /\ theirs' \in Models(Classes, Bumpers) /\ theirs'.counter <= MaxVersion
        /\ IsFiniteSet(Classes) /\ Cardinality(Classes) <= MaxPrototypes
           /\ Len(theirs.protos) <= MaxPrototypes => Len(theirs'.protos) <= MaxPrototypes
      BY <2>1, LearnStep DEF Learnt, Bumpers
  <2> QED
      BY <2>1, <2>2 DEF Learnt, Sized
<1>3. ASSUME NEW t \in Trusts, Merge(t) PROVE Learnt' /\ (Sized => Sized')
  <2>1. theirs' = theirs
      BY <1>3 DEF Merge
  <2> QED
      BY <1>3, <2>1, MergeStep DEF Learnt, Sized
<1>4. CASE UNCHANGED vars
    BY <1>4 DEF vars, Learnt, Sized
<1> QED
    BY <1>1, <1>2, <1>3, <1>4 DEF Next

(* Both models stay within the budget, with no more classes to learn than  *)
(* prototypes to keep (learn and merged_with, which both prune).           *)
THEOREM ExchangeIsTyped ==
    ASSUME IsFiniteSet(Classes), Cardinality(Classes) <= MaxPrototypes
    PROVE  Spec => []TypeOK
<1>1. Learnt /\ Sized /\ [Next]_vars => Learnt' /\ Sized'
    BY LearntNext
<1>2. Learnt /\ Sized => TypeOK
  <2> SUFFICES ASSUME Learnt, Sized, NEW m \in {mine, theirs}
               PROVE  /\ m.protos \in Seq(Prototype) /\ Len(m.protos) <= MaxPrototypes
                      /\ m.counter \in 0 .. MaxVersion
      BY DEF TypeOK
  <2>1. m \in Models(Classes, Bumpers) /\ Len(m.protos) <= MaxPrototypes /\ m.counter <= MaxVersion
      BY DEF Learnt, Sized
  <2>2. m.protos \in Seq(Of(Classes)) /\ m.counter \in Nat
      BY <2>1 DEF Models
  <2>3. m.protos \in Seq(Prototype)
      BY <2>2 DEF Of
  <2> QED
      BY <2>1, <2>2, <2>3, ExchangeAssumption
<1> QED
    BY <1>1, <1>2, LearntInit, PTL DEF Spec

-----------------------------------------------------------------------------
(* The classes of a list are finitely many.                                *)
LEMMA LabelsFinite ==
    ASSUME NEW protos \in Seq(Prototype)
    PROVE  IsFiniteSet(Labels(protos)) /\ protos \in Seq(Of(Labels(protos)))
<1> DEFINE n == Len(protos)
           f == [i \in 1 .. n |-> protos[i].label]
<1>1. n \in Nat /\ IsFiniteSet(1 .. n) /\ DOMAIN protos = 1 .. n
  <2>1. n \in Nat /\ n \in Int /\ 1 \in Int
      OBVIOUS
  <2> QED
      BY <2>1, FS_Interval
<1>2. f \in Surjection(1 .. n, Labels(protos))
    BY <1>1 DEF Surjection, Labels
<1>3. IsFiniteSet(Labels(protos))
    BY <1>1, <1>2, FS_Surjection
<1>4. \A i \in 1 .. n : protos[i] \in Of(Labels(protos))
    BY <1>1 DEF Of, Labels
<1>5. protos \in Seq(Of(Labels(protos)))
    BY <1>1, <1>4
<1> QED
    BY <1>3, <1>5

(* The two lists, one after the other.                                     *)
LEMMA BothLists ==
    ASSUME Learnt
    PROVE  LET all == mine.protos \o theirs.protos
           IN  /\ all \in Seq(Prototype) /\ IsFiniteSet(Labels(all))
               /\ all \in Seq(Of(Labels(all)))
               /\ mine.protos \in Seq(Of(Labels(all))) /\ theirs.protos \in Seq(Of(Labels(all)))
<1> DEFINE s == mine.protos
           t == theirs.protos
           all == s \o t
<1>1. s \in Seq(Prototype) /\ t \in Seq(Prototype)
    BY DEF Learnt, Models, Of
<1> HIDE DEF s, t
<1>2. all \in Seq(Prototype) /\ Len(all) = Len(s) + Len(t) /\ Len(s) \in Nat /\ Len(t) \in Nat
      /\ (\A i \in 1 .. Len(s) : i \in DOMAIN all /\ all[i] = s[i])
      /\ (\A i \in 1 .. Len(t) : Len(s) + i \in DOMAIN all /\ all[Len(s) + i] = t[i])
    BY <1>1
<1> HIDE DEF all
<1>3. IsFiniteSet(Labels(all)) /\ all \in Seq(Of(Labels(all)))
    BY <1>2, LabelsFinite
<1>4. \A j \in DOMAIN all : all[j] \in Of(Labels(all))
    BY <1>3
<1>5. /\ \A i \in 1 .. Len(s) : s[i] \in Of(Labels(all))
      /\ \A i \in 1 .. Len(t) : t[i] \in Of(Labels(all))
    BY <1>2, <1>4
<1>6. s \in Seq(Of(Labels(all))) /\ t \in Seq(Of(Labels(all)))
    BY <1>1, <1>4, <1>5
<1> QED
    BY <1>2, <1>3, <1>6 DEF all, s, t

(* _prune keeps every class's weight and mean, and ends within the budget, *)
(* for any two models (the loop of _prune).                                *)
THEOREM PruningKeepsTheEvidence == Spec => []PruneKeepsEvidence
<1>1. Learnt => PruneKeepsEvidence
  <2> SUFFICES ASSUME Learnt PROVE PruneKeepsEvidence
      OBVIOUS
  <2> DEFINE all == mine.protos \o theirs.protos
  <2>1. IsFiniteSet(Labels(all)) /\ all \in Seq(Of(Labels(all)))
      BY BothLists
  <2> HIDE DEF all
  <2>2. Cardinality(Labels(all)) <= MaxPrototypes =>
            /\ ~ Prune(all).raised /\ Len(Prune(all).protos) <= MaxPrototypes
            /\ SameEvidence(all, Prune(all).protos)
      BY <2>1, PruneFits, PruneEvidence
  <2> QED
      BY <2>2 DEF PruneKeepsEvidence, SameEvidence, all
<1>2. Learnt /\ [Next]_vars => Learnt'
    BY LearntNext
<1> QED
    BY <1>1, <1>2, LearntInit, PTL DEF Spec

(* Merging what a sender below override_trust offers takes evidence from   *)
(* no class (merged_with).                                                 *)
THEOREM UntrustedMergesTakeNothing == Spec => []UntrustedTakesNothing
<1>1. Learnt => UntrustedTakesNothing
  <2> DEFINE L == Labels(mine.protos \o theirs.protos)
  <2> SUFFICES ASSUME Learnt, NEW t \in Trusts, t < OverrideTrust, Cardinality(L) <= MaxPrototypes, NEW c
               PROVE  Weight(MergedWith(mine, theirs.protos, "me", t).model.protos, c) >= Weight(mine.protos, c)
      BY DEF UntrustedTakesNothing
  <2> DEFINE incoming == theirs.protos
             next == MergedWith(mine, incoming, "me", t).model
  <2>1. IsFiniteSet(L) /\ mine.protos \in Seq(Of(L)) /\ incoming \in Seq(Of(L))
      BY BothLists
  <2>2. mine \in Models(L, Bumpers) /\ "me" \in Bumpers
      BY <2>1 DEF Learnt, Models, Bumpers
  <2> HIDE DEF L, incoming
  <2>3. PICK taken : /\ IsMerging(taken, L, mine, incoming, t)
                     /\ taken[Len(incoming)] \in Merges(L)
                     /\ next = Bumped(mine, Prune(taken[Len(incoming)].protos).protos, "me")
      BY <2>1, <2>2, MergeRuns
  <2> HIDE DEF next
  <2> DEFINE all == taken[Len(incoming)].protos
  <2>4. all \in Seq(Of(L))
      BY <2>3 DEF Merges
  <2>5. Weight(all, c) >= Weight(mine.protos, c)
      BY <2>1, <2>2, <2>3, UntrustedLoop
  <2> HIDE DEF all
  <2>6. Weight(Prune(all).protos, c) = Weight(all, c)
      BY <2>1, <2>4, PruneEvidence DEF SameEvidence
  <2>7. next.protos = Prune(all).protos
      BY <2>3 DEF Bumped, all
  <2> QED
      BY <2>5, <2>6, <2>7 DEF next, incoming
<1>2. Learnt /\ [Next]_vars => Learnt'
    BY LearntNext
<1> QED
    BY <1>1, <1>2, LearntInit, PTL DEF Spec

(* Gossip heard twice is taken once: what such a sender repeats is known   *)
(* or refused (merged_with and its key()).                                 *)
THEOREM RepeatedGossipIsNoOp == Spec => []RepeatIsNoOp
<1>1. Learnt => RepeatIsNoOp
  <2> DEFINE once(t) == MergedWith(mine, theirs.protos, "me", t)
  <2> SUFFICES ASSUME Learnt, NEW t \in Trusts, t < OverrideTrust,
                      Len(mine.protos) + once(t).accepted <= MaxPrototypes
               PROVE  LET twice == MergedWith(once(t).model, theirs.protos, "me", t)
                      IN  twice.accepted = 0 /\ twice.model.protos = once(t).model.protos
      BY DEF RepeatIsNoOp
  <2> DEFINE incoming == theirs.protos
             n == Len(incoming)
             first == once(t)
             twice == MergedWith(first.model, incoming, "me", t)
  <2>1. /\ incoming \in Seq(Of(Classes)) /\ "me" \in Bumpers /\ mine \in Models(Classes, Bumpers)
        /\ mine.protos \in Seq(Of(Classes)) /\ n \in 0 .. n
      BY DEF Learnt, Models, Bumpers
  <2>2. PICK taken : /\ IsMerging(taken, Classes, mine, incoming, t)
                     /\ taken[n] \in Merges(Classes)
                     /\ first.model = Bumped(mine, Prune(taken[n].protos).protos, "me")
                     /\ first.accepted = taken[n].accepted
      BY <2>1, MergeRuns
  <2> DEFINE all == taken[n].protos
  <2>3. first.model \in Models(Classes, Bumpers)
      BY <2>1, MergedWithType
  <2>4. Len(mine.protos) + first.accepted <= MaxPrototypes
      OBVIOUS
  <2> HIDE DEF first, incoming, once
  <2>5. all \in Seq(Of(Classes)) /\ Len(all) = Len(mine.protos) + taken[n].accepted
      BY <2>1, <2>2, MergeAppends DEF Merges
  <2>6. \A k \in 1 .. n : Known(all, incoming[k]) \/ Refused(all, incoming[k])
      BY <2>1, <2>2, AllSettled
  <2> HIDE DEF all
  <2>7. Len(all) <= MaxPrototypes
      BY <2>2, <2>4, <2>5
  <2>8. first.model.protos = all
    <3>1. Prune(all).protos = all
        BY <2>5, <2>7, PruneWithin
    <3> QED
        BY <2>2, <3>1 DEF Bumped, all
  <2>9. PICK again : /\ IsMerging(again, Classes, first.model, incoming, t)
                     /\ again[n] \in Merges(Classes)
                     /\ twice.model = Bumped(first.model, Prune(again[n].protos).protos, "me")
                     /\ twice.accepted = again[n].accepted
      BY <2>1, <2>3, MergeRuns
  <2> HIDE DEF twice
  <2>10. again[n].protos = all /\ again[n].accepted = 0
      BY <2>1, <2>3, <2>6, <2>8, <2>9, NothingTaken
  <2>11. twice.model.protos = all
    <3>1. Prune(all).protos = all
        BY <2>5, <2>7, PruneWithin
    <3> QED
        BY <2>9, <2>10, <3>1 DEF Bumped
  <2>12. twice.accepted = 0 /\ twice.model.protos = first.model.protos
      BY <2>8, <2>9, <2>10, <2>11
  <2> QED
      BY <2>12 DEF twice, first, incoming, once
<1>2. Learnt /\ [Next]_vars => Learnt'
    BY LearntNext
<1> QED
    BY <1>1, <1>2, LearntInit, PTL DEF Spec
=============================================================================
