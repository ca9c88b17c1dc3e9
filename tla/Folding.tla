------------------------------- MODULE Folding -------------------------------
(***************************************************************************)
(* What FoldLeft computes: the last of the values that start with the base *)
(* and go on by one application of the operator per position.  The library *)
(* defines a fold by recursion over the set of the positions; here that    *)
(* recursion is shown to have a solution, and a statement about the        *)
(* trace of values is proved by induction over the positions.  Op and Last *)
(* are parameters: a module instantiates this one with the operator of the *)
(* fold it reasons about and with the library's Max.  By the same          *)
(* induction a finite set can be listed in the order of a key.             *)
(***************************************************************************)
EXTENDS Integers, Sequences, WellFoundedInduction, TLAPS

CONSTANTS
  Op(_, _, _), \* the operator: a context that does not change, the value so far, an element
  Last(_)      \* the largest number of a set

\* A nonempty set of natural numbers has a least element.

LEMMA LeastNatural ==
  ASSUME NEW T \in SUBSET Nat, T # {}
  PROVE  \E n \in T : \A m \in T : n <= m
<1> DEFINE R == OpToRel(<, Nat)
<1>1. IsWellFoundedOn(R, Nat)
  BY NatLessThanWellFounded
<1>2. \A x, y \in Nat : <<y, x>> \in R <=> y < x
  BY DEF OpToRel
<1> HIDE DEF R
<1>3. PICK n \in T : \A m \in T : ~ (<<m, n>> \in R)
  BY <1>1, WFMin
<1>4. ASSUME NEW m \in T PROVE n <= m
  <2>1. ~(m < n) /\ m \in Nat /\ n \in Nat
    BY <1>2, <1>3
  <2> QED
    BY <2>1
<1> QED
  BY <1>4

\* Induction up to a bound, over the set of the numbers a statement holds of.
LEMMA SetInduction ==
  ASSUME NEW k \in Nat, NEW T, 0 \in T, \A n \in 1..k : n - 1 \in T => n \in T
  PROVE  0..k \subseteq T
<1> SUFFICES ASSUME ~(0..k \subseteq T) PROVE FALSE
  OBVIOUS
<1> DEFINE Bad == {n \in 0..k : n \notin T}
<1>1. Bad \in SUBSET Nat /\ Bad # {}
  OBVIOUS
<1>2. PICK n \in Bad : \A m \in Bad : n <= m
  BY <1>1, LeastNatural
<1>3. n \in 1..k
  BY <1>2
<1>4. n - 1 \notin Bad
  BY <1>2, <1>3
<1> QED
  BY <1>2, <1>3, <1>4

\* A nonempty set of positions has a last one.
LEMMA LastNatural ==
  ASSUME NEW k \in Nat, NEW s \in SUBSET (1..k), s # {}
  PROVE  \E n \in s : \A i \in s : i <= n
<1> DEFINE P == {n \in 0..k : \A i \in s : i <= n}
<1>1. P \in SUBSET Nat /\ P # {}
  <2>1. k \in P
    OBVIOUS
  <2> QED BY <2>1
<1>2. PICK n \in P : \A m \in P : n <= m
  BY <1>1, LeastNatural
<1>3. n \in s
  <2>1. SUFFICES ASSUME n \notin s PROVE FALSE
    OBVIOUS
  <2>2. n \in Nat /\ n <= k
    BY <1>2
  <2>3. PICK j \in s : TRUE
    OBVIOUS
  <2>4. j \in 1..k /\ j <= n
    BY <1>2
  <2>5. \A i \in s : i <= n - 1
    <3> SUFFICES ASSUME NEW i \in s PROVE i <= n - 1
      OBVIOUS
    <3>1. i \in 1..k /\ i <= n /\ i # n
      BY <1>2, <2>1
    <3> QED BY <2>2, <3>1
  <2>6. n - 1 \in P
    BY <2>2, <2>4, <2>5
  <2>7. n <= n - 1
    BY <1>2, <2>6
  <2> QED BY <2>2, <2>7
<1> QED
  BY <1>2, <1>3

IsLast(k) == \A s \in SUBSET (1..k) : s # {} => Last(s) \in s /\ \A i \in s : i <= Last(s)

\* What FoldLeft iterates over the positions of a sequence of length k.
Iterates(f, c, base, seq, k) ==
  f = [s \in SUBSET (1..k) |->
         IF s = {} THEN base ELSE Op(c, f[s \ {Last(s)}], seq[Last(s)])]

Folded(c, base, seq, k) == (CHOOSE f : Iterates(f, c, base, seq, k))[1..k]

\* The recursion has a solution.
LEMMA IterationExists ==
  ASSUME NEW c, NEW base, NEW seq, NEW k \in Nat, IsLast(k)
  PROVE  \E f : Iterates(f, c, base, seq, k)
<1> DEFINE Fix(f, n) == f = [s \in SUBSET (1..n) |->
             IF s = {} THEN base ELSE Op(c, f[s \ {Last(s)}], seq[Last(s)])]
           T == {n \in 0..k : \E f : Fix(f, n)}
<1>1. 0 \in T
  <2>1. SUBSET (1..0) = {{}}
    OBVIOUS
  <2>2. Fix([s \in SUBSET (1..0) |-> base], 0)
    BY <2>1
  <2> QED BY <2>2
<1>2. ASSUME NEW n \in 1..k, n - 1 \in T PROVE n \in T
  <2>0. n \in Nat /\ n - 1 \in Nat
    OBVIOUS
  <2>1. PICK f : Fix(f, n - 1)
    BY <1>2
  <2> DEFINE h == [s \in SUBSET (1..n) |->
                     IF n \in s THEN Op(c, f[s \ {n}], seq[n]) ELSE f[s]]
  <2>2. ASSUME NEW s \in SUBSET (1..n)
        PROVE  h[s] = IF s = {} THEN base ELSE Op(c, h[s \ {Last(s)}], seq[Last(s)])
    <3>1. /\ \A i \in s : s \ {i} \in SUBSET (1..n)
          /\ n \notin s => s \in SUBSET (1..(n - 1)) /\ \A i \in s : s \ {i} \in SUBSET (1..(n - 1))
      BY <2>0
    <3>2. s # {} => Last(s) \in s /\ \A i \in s : i <= Last(s)
      <4>1. s \in SUBSET (1..k)
        BY <2>0
      <4> QED BY <4>1 DEF IsLast
    <3>3. CASE s = {}
      BY <2>1, <3>1, <3>3
    <3>4. CASE n \in s
      <4>0. Last(s) \in 1..n /\ n <= Last(s)
        BY <3>2, <3>4
      <4>1. Last(s) = n
        BY <2>0, <4>0
      <4>2. h[s \ {n}] = f[s \ {n}] /\ h[s] = Op(c, f[s \ {n}], seq[n])
        BY <3>1, <3>4
      <4> HIDE DEF h
      <4> QED BY <3>4, <4>1, <4>2
    <3>5. CASE s # {} /\ n \notin s
      <4>1. h[s] = f[s] /\ h[s \ {Last(s)}] = f[s \ {Last(s)}]
        BY <3>1, <3>2, <3>5
      <4>2. f[s] = Op(c, f[s \ {Last(s)}], seq[Last(s)])
        BY <2>1, <3>1, <3>5
      <4> HIDE DEF h
      <4> QED BY <3>5, <4>1, <4>2
    <3> QED BY <3>3, <3>4, <3>5
  <2>3. Fix(h, n)
    <3>1. h = [s \in SUBSET (1..n) |-> h[s]]
      OBVIOUS
    <3>2. [s \in SUBSET (1..n) |-> h[s]] = [s \in SUBSET (1..n) |->
             IF s = {} THEN base ELSE Op(c, h[s \ {Last(s)}], seq[Last(s)])]
      <4> HIDE DEF h
      <4> QED BY <2>2
    <3> QED BY <3>1, <3>2
  <2> HIDE DEF Fix, h
  <2> QED BY <2>3
<1>3. k \in T
  <2> HIDE DEF T
  <2> QED BY <1>1, <1>2, SetInduction
<1>4. PICK f : Fix(f, k)
  BY <1>3
<1> QED BY <1>4 DEF Iterates

\* A fold is the end of a trace: t[0] is the base, and t[i] is what the operator makes of
\* t[i - 1] and the element at i.
THEOREM FoldTrace ==
  ASSUME NEW c, NEW base, NEW seq, NEW k \in Nat, IsLast(k)
  PROVE  \E t : /\ t[0] = base
                /\ \A i \in 1..k : t[i] = Op(c, t[i - 1], seq[i])
                /\ Folded(c, base, seq, k) = t[k]
<1> DEFINE f == CHOOSE f : Iterates(f, c, base, seq, k)
           t == [i \in 0..k |-> f[1..i]]
<1>1. f = [s \in SUBSET (1..k) |->
             IF s = {} THEN base ELSE Op(c, f[s \ {Last(s)}], seq[Last(s)])]
  <2>1. Iterates(f, c, base, seq, k)
    BY IterationExists
  <2> QED BY <2>1 DEF Iterates
<1>5. Folded(c, base, seq, k) = f[1..k]
  BY DEF Folded
<1> HIDE DEF f
<1>2. t[0] = base
  <2>1. 1..0 = {} /\ {} \in SUBSET (1..k)
    OBVIOUS
  <2>2. f[{}] = base
    BY <1>1, <2>1
  <2> QED BY <2>1, <2>2
<1>3. ASSUME NEW i \in 1..k PROVE t[i] = Op(c, t[i - 1], seq[i])
  <2>1. i \in Nat /\ i - 1 \in 0..k /\ i \in 0..k
    OBVIOUS
  <2>2. 1..i \in SUBSET (1..k)
    OBVIOUS
  <2>3. i \in 1..i
    OBVIOUS
  <2>4. (1..i) \ {i} = 1..(i - 1)
    OBVIOUS
  <2>5. Last(1..i) \in 1..i /\ i <= Last(1..i)
    BY <2>2, <2>3 DEF IsLast
  <2>6. Last(1..i) = i
    BY <2>1, <2>5
  <2>7. f[1..i] = Op(c, f[(1..i) \ {i}], seq[i])
    BY <1>1, <2>2, <2>3, <2>6
  <2> QED BY <2>1, <2>4, <2>7
<1>4. t[k] = f[1..k]
  OBVIOUS
<1> HIDE DEF t
<1> QED BY <1>2, <1>3, <1>4, <1>5

\* What holds of the base and is preserved by the operator holds of the fold.
THEOREM FoldPreserves ==
  ASSUME NEW c, NEW base, NEW seq, NEW k \in Nat, IsLast(k), NEW Good, base \in Good,
         \A i \in 1..k, v \in Good : Op(c, v, seq[i]) \in Good
  PROVE  Folded(c, base, seq, k) \in Good
<1>1. PICK t : /\ t[0] = base
               /\ \A i \in 1..k : t[i] = Op(c, t[i - 1], seq[i])
               /\ Folded(c, base, seq, k) = t[k]
  BY FoldTrace
<1> DEFINE T == {i \in 0..k : t[i] \in Good}
<1>2. 0 \in T
  BY <1>1
<1>3. \A n \in 1..k : n - 1 \in T => n \in T
  BY <1>1
<1>4. 0..k \subseteq T
  <2> HIDE DEF T
  <2> QED BY <1>2, <1>3, SetInduction
<1> QED
  BY <1>1, <1>4
\* A fold over one more element applies the operator once more.
THEOREM FoldAppend ==
  ASSUME NEW c, NEW base, NEW S, NEW seq \in Seq(S), NEW x \in S,
         IsLast(Len(seq)), IsLast(Len(seq) + 1)
  PROVE  Folded(c, base, Append(seq, x), Len(seq) + 1) = Op(c, Folded(c, base, seq, Len(seq)), x)
<1> DEFINE k == Len(seq)
           more == Append(seq, x)
<1>1. /\ k \in Nat /\ k + 1 \in Nat /\ k + 1 \in 1..(k + 1) /\ (k + 1) - 1 = k /\ k \in 0..k
      /\ more[k + 1] = x /\ \A i \in 1..k : more[i] = seq[i] /\ i \in 1..(k + 1)
  OBVIOUS
<1>2. k \in Nat /\ k + 1 \in Nat /\ IsLast(k) /\ IsLast(k + 1)
  OBVIOUS
<1> HIDE DEF k, more
<1>3. PICK t : /\ t[0] = base
               /\ \A i \in 1..k : t[i] = Op(c, t[i - 1], seq[i])
               /\ Folded(c, base, seq, k) = t[k]
  BY <1>2, FoldTrace
<1>4. PICK u : /\ u[0] = base
               /\ \A i \in 1..(k + 1) : u[i] = Op(c, u[i - 1], more[i])
               /\ Folded(c, base, more, k + 1) = u[k + 1]
  BY <1>2, FoldTrace
<1> DEFINE T == {i \in 0..k : u[i] = t[i]}
<1>5. 0 \in T
  BY <1>1, <1>3, <1>4
<1>6. \A n \in 1..k : n - 1 \in T => n \in T
  BY <1>1, <1>3, <1>4
<1>7. 0..k \subseteq T
  <2> HIDE DEF T
  <2> QED BY <1>1, <1>5, <1>6, SetInduction
<1>8. u[k] = t[k]
  BY <1>1, <1>7
<1>9. u[k + 1] = Op(c, u[(k + 1) - 1], more[k + 1])
  BY <1>1, <1>4
<1>10. Folded(c, base, more, k + 1) = Op(c, Folded(c, base, seq, k), x)
  BY <1>1, <1>3, <1>4, <1>8, <1>9
<1> QED BY <1>10 DEF k, more

-----------------------------------------------------------------------------
(* Sorting *)

\* f lists S: its n elements, each once.
Lists(f, n, S) ==
  /\ f \in [1..n -> S]
  /\ \A i, j \in 1..n : f[i] = f[j] => i = j
  /\ \A x \in S : \E i \in 1..n : f[i] = x

\* A list without one of its elements.
LEMMA ListWithout ==
  ASSUME NEW S, NEW n \in Nat \ {0}, NEW f, Lists(f, n, S), NEW x \in S
  PROVE  \E g : Lists(g, n - 1, S \ {x})
<1> DEFINE g == [i \in 1..(n - 1) |-> IF f[i] = x THEN f[n] ELSE f[i]]
<1>1. /\ f \in [1..n -> S] /\ n \in 1..n /\ \A i \in 1..(n - 1) : i \in 1..n /\ i # n
      /\ \A i \in 1..n : i # n => i \in 1..(n - 1)
  BY DEF Lists
<1>2. g \in [1..(n - 1) -> S \ {x}]
  BY <1>1 DEF Lists
<1>3. ASSUME NEW i \in 1..(n - 1), NEW j \in 1..(n - 1), g[i] = g[j] PROVE i = j
  BY <1>1, <1>3 DEF Lists
<1>4. ASSUME NEW y \in S \ {x} PROVE \E i \in 1..(n - 1) : g[i] = y
  <2>1. PICK i \in 1..n, j \in 1..n : f[i] = y /\ f[j] = x
    BY DEF Lists
  <2>2. CASE i = n
    <3>1. j \in 1..(n - 1) /\ g[j] = y
      BY <1>1, <2>1, <2>2
    <3> QED BY <3>1
  <2>3. CASE i # n
    <3>1. i \in 1..(n - 1) /\ g[i] = y
      BY <1>1, <2>1, <2>3
    <3> QED BY <3>1
  <2> QED BY <2>2, <2>3
<1> HIDE DEF g
<1> QED BY <1>2, <1>3, <1>4 DEF Lists

\* One of n listed elements, n > 0, has the largest key.
LEMMA LargestKey ==
  ASSUME NEW n \in Nat \ {0}, NEW S, NEW f, Lists(f, n, S), NEW key \in [S -> Int]
  PROVE  \E x \in S : \A y \in S : key[y] <= key[x]
<1> DEFINE T == {m \in 0..n : m = 0 \/ \E i \in 1..m : \A j \in 1..m : key[f[j]] <= key[f[i]]}
<1>1. f \in [1..n -> S] /\ \A i \in 1..n : key[f[i]] \in Int
  BY DEF Lists
<1>2. ASSUME NEW m \in 1..n, m - 1 \in T PROVE m \in T
  <2>1. \A j \in 1..m : j \in 1..n /\ (j = m \/ j \in 1..(m - 1))
    OBVIOUS
  <2>2. CASE m - 1 = 0
    <3>1. \A j \in 1..m : j = m
      BY <2>2
    <3>2. m \in 1..m /\ \A j \in 1..m : key[f[j]] <= key[f[m]]
      BY <1>1, <3>1
    <3> QED BY <3>2
  <2>3. CASE m - 1 # 0
    <3>1. PICK i \in 1..(m - 1) : \A j \in 1..(m - 1) : key[f[j]] <= key[f[i]]
      BY <1>2, <2>3
    <3>2. i \in 1..m /\ m \in 1..m
      OBVIOUS
    <3>3. CASE key[f[m]] <= key[f[i]]
      <4>1. \A j \in 1..m : key[f[j]] <= key[f[i]]
        BY <2>1, <3>1, <3>3
      <4> QED BY <3>2, <4>1
    <3>4. CASE ~(key[f[m]] <= key[f[i]])
      <4>1. \A j \in 1..m : key[f[j]] <= key[f[m]]
        BY <1>1, <2>1, <3>1, <3>2, <3>4
      <4> QED BY <3>2, <4>1
    <3> QED BY <3>3, <3>4
  <2> QED BY <2>2, <2>3
<1>3. n \in T
  <2>1. 0 \in T
    OBVIOUS
  <2> HIDE DEF T
  <2>2. 0..n \subseteq T
    BY <1>2, <2>1, SetInduction
  <2> QED BY <2>2
<1>4. PICK i \in 1..n : \A j \in 1..n : key[f[j]] <= key[f[i]]
  BY <1>3
<1>5. \A y \in S : key[y] <= key[f[i]]
  BY <1>4 DEF Lists
<1> QED BY <1>1, <1>5

\* The lists of n elements of S, none twice, in the order of a key.
Orders(n, S, key) ==
  {order \in [1..n -> S] :
     \A i, j \in 1..n : i < j => key[order[i]] <= key[order[j]] /\ order[i] # order[j]}

\* A set that can be listed can be listed in the order of a key.
THEOREM OrderExists ==
  ASSUME NEW n \in Nat, NEW S, NEW f, Lists(f, n, S), NEW key \in [S -> Int]
  PROVE  Orders(n, S, key) # {}
<1> DEFINE Has(m) == \A Q \in SUBSET S : (\E g : Lists(g, m, Q)) => Orders(m, Q, key) # {}
           T == {m \in 0..n : Has(m)}
<1>1. 0 \in T
  <2>1. \A Q : [i \in 1..0 |-> {}] \in Orders(0, Q, key)
    BY DEF Orders
  <2> QED BY <2>1
<1>2. ASSUME NEW m \in 1..n, m - 1 \in T PROVE m \in T
  <2>1. SUFFICES ASSUME NEW Q \in SUBSET S, NEW g, Lists(g, m, Q) PROVE Orders(m, Q, key) # {}
    BY <1>2
  <2>2. m \in Nat \ {0} /\ m - 1 \in Nat
    OBVIOUS
  <2>3. PICK x \in Q : \A y \in Q : key[y] <= key[x]
    <3> DEFINE part == [y \in Q |-> key[y]]
    <3>1. part \in [Q -> Int]
      OBVIOUS
    <3>2. \E x \in Q : \A y \in Q : part[y] <= part[x]
      <4> HIDE DEF part
      <4> QED BY <2>1, <2>2, <3>1, LargestKey
    <3> QED BY <3>2
  <2>4. \E h : Lists(h, m - 1, Q \ {x})
    BY <2>1, <2>2, ListWithout
  <2>5. PICK order : order \in Orders(m - 1, Q \ {x}, key)
    BY <1>2, <2>4
  <2>6. /\ order \in [1..(m - 1) -> Q \ {x}]
        /\ \A i, j \in 1..(m - 1) :
             i < j => key[order[i]] <= key[order[j]] /\ order[i] # order[j]
    BY <2>5 DEF Orders
  <2> DEFINE longer == [i \in 1..m |-> IF i = m THEN x ELSE order[i]]
  <2>7. longer \in [1..m -> Q]
    BY <2>2, <2>6
  <2>8. ASSUME NEW i \in 1..m, NEW j \in 1..m, i < j
        PROVE  key[longer[i]] <= key[longer[j]] /\ longer[i] # longer[j]
    <3>1. i \in 1..(m - 1) /\ longer[i] = order[i] /\ order[i] \in Q \ {x}
      BY <2>2, <2>6, <2>8
    <3>2. CASE j = m
      BY <2>3, <3>1, <3>2
    <3>3. CASE j # m
      BY <2>2, <2>6, <2>8, <3>1, <3>3
    <3> QED BY <3>2, <3>3
  <2>9. longer \in Orders(m, Q, key)
    <3> HIDE DEF longer
    <3> QED BY <2>7, <2>8 DEF Orders
  <2> QED BY <2>9
<1>3. n \in T
  <2> HIDE DEF T
  <2>1. 0..n \subseteq T
    BY <1>1, <1>2, SetInduction
  <2> QED BY <2>1
<1> QED BY <1>3
=============================================================================
