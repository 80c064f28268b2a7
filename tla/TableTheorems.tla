------------------------------ MODULE TableTheorems ------------------------------
(***************************************************************************)
(* What emplace, modify and erase do to the type of a table, and facts     *)
(* about the sum over a table, for every number of rows: how it moves when *)
(* a row is written, and that it bounds every row.                         *)
(***************************************************************************)
EXTENDS Tables, Sums, WellFoundedInduction, TLAPS

(* Rows. *)

\* Typed rows stay typed when a row is written.
THEOREM PutTyped ==
  ASSUME NEW K, NEW R, NEW t, IsTable(t, K, R), NEW k \in K, NEW r \in R
  PROVE  IsTable(Put(t, k, r), K, R) /\ DOMAIN Put(t, k, r) = DOMAIN t \cup {k}
BY DEF Put, IsTable

\* Typed rows stay typed when rows are erased.
THEOREM DropTyped ==
  ASSUME NEW K, NEW R, NEW t, IsTable(t, K, R), NEW S
  PROVE  IsTable(Drop(t, S), K, R) /\ DOMAIN Drop(t, S) = DOMAIN t \ S
BY DEF Drop, IsTable

\* Typed rows stay typed when a row that exists is modified.
THEOREM ModifyTyped ==
  ASSUME NEW K, NEW R, NEW t, IsTable(t, K, R), NEW k \in DOMAIN t, NEW r \in R
  PROVE  IsTable([t EXCEPT ![k] = r], K, R) /\ DOMAIN [t EXCEPT ![k] = r] = DOMAIN t
BY DEF IsTable

\* The next key is not in use.
THEOREM NextKeyIsNew ==
  ASSUME NEW t, DOMAIN t \subseteq Nat, NEW k \in Nat, IsNextKey(t, k)
  PROVE  k \notin DOMAIN t
BY DEF IsNextKey

-------------------------------------------------------------------------------
(* Sums. *)


\* f is the table of partial sums of w up to n.
IsPartials(f, w, n) == f = [k \in 0 .. n |-> IF k = 0 THEN 0 ELSE f[k - 1] + w[k]]

\* A set of naturals that is not empty has a least element; the proofs below are
\* by the least counterexample.
LEMMA LeastElement ==
  ASSUME NEW T, T \subseteq Nat, T # {}
  PROVE  \E m \in T : \A k \in T : ~ (k < m)
<1>1. \E m \in T : \A k \in T : ~ (<<k, m>> \in OpToRel(<, Nat))
  BY NatLessThanWellFounded, WFMin, Zenon
<1> QED BY <1>1 DEF OpToRel

\* Every table of integers has partial sums: the recursion in SumTo defines a
\* function.
LEMMA PartialsExist ==
  ASSUME NEW n \in Nat, NEW w \in [1 .. n -> Int]
  PROVE  \E f \in [0 .. n -> Int] : IsPartials(f, w, n)
<1> DEFINE Has(j) == \E f \in [0 .. j -> Int] : IsPartials(f, w, j)
           T == {j \in 0 .. n : ~ Has(j)}
<1>0. n \in 0 .. n OBVIOUS
<1>1. SUFFICES ASSUME T # {} PROVE FALSE
  <2>1. CASE T = {}
    <3>1. Has(n) BY <1>0, <2>1
    <3> QED BY <3>1
  <2> QED BY <2>1
<1>2. PICK m \in T : \A k \in T : ~ (k < m)
  <2>1. T \subseteq Nat OBVIOUS
  <2> HIDE DEF T
  <2> QED BY <1>1, <2>1, LeastElement
<1>3. m # 0
  <2>1. IsPartials([k \in 0 .. 0 |-> 0], w, 0)
    BY DEF IsPartials
  <2>2. [k \in 0 .. 0 |-> 0] \in [0 .. 0 -> Int]
    OBVIOUS
  <2>3. Has(0) BY <2>1, <2>2
  <2> QED BY <2>3
<1>4. Has(m - 1)
  BY <1>2, <1>3
<1>5. PICK f \in [0 .. (m - 1) -> Int] : IsPartials(f, w, m - 1)
  BY <1>4
<1> DEFINE g == [k \in 0 .. m |-> IF k = m THEN f[m - 1] + w[m] ELSE f[k]]
<1>6. g \in [0 .. m -> Int]
  BY <1>2, <1>3
<1>7. IsPartials(g, w, m)
  <2> SUFFICES ASSUME NEW k \in 0 .. m
               PROVE  g[k] = IF k = 0 THEN 0 ELSE g[k - 1] + w[k]
    BY DEF IsPartials
  <2>1. CASE k = m BY <2>1, <1>2, <1>3
  <2>2. CASE k # m
    <3>1. k \in 0 .. (m - 1) BY <2>2, <1>2
    <3>2. f[k] = IF k = 0 THEN 0 ELSE f[k - 1] + w[k]
      BY <1>5, <3>1 DEF IsPartials
    <3>3. g[k] = f[k]
      BY <2>2
    <3>4. CASE k = 0
      BY <3>2, <3>3, <3>4
    <3>5. CASE k # 0
      <4>1. k - 1 \in 0 .. m /\ k - 1 # m
        BY <3>1, <3>5, <1>2
      <4>2. g[k - 1] = f[k - 1]
        BY <4>1
      <4> QED BY <3>2, <3>3, <3>5, <4>2
    <3> QED BY <3>4, <3>5
  <2> QED BY <2>1, <2>2
<1> QED BY <1>2, <1>6, <1>7

\* It has only one function of partial sums.
LEMMA PartialsUnique ==
  ASSUME NEW n \in Nat, NEW w \in [1 .. n -> Int],
         NEW f, IsPartials(f, w, n), NEW g, IsPartials(g, w, n)
  PROVE  \A k \in 0 .. n : f[k] = g[k]
<1> DEFINE T == {k \in 0 .. n : f[k] # g[k]}
<1>1. SUFFICES ASSUME T # {} PROVE FALSE
  OBVIOUS
<1>2. PICK m \in T : \A k \in T : ~ (k < m)
  <2>1. T \subseteq Nat OBVIOUS
  <2> HIDE DEF T
  <2> QED BY <1>1, <2>1, LeastElement
<1>3. m \in 0 .. n /\ f[m] # g[m]
  BY <1>2
<1>4. \A k \in 0 .. n : /\ f[k] = IF k = 0 THEN 0 ELSE f[k - 1] + w[k]
                        /\ g[k] = IF k = 0 THEN 0 ELSE g[k - 1] + w[k]
  BY DEF IsPartials
<1>5. m # 0
  BY <1>3, <1>4
<1>6. m - 1 \in 0 .. n /\ f[m - 1] = g[m - 1]
  BY <1>2, <1>3, <1>5
<1> QED BY <1>3, <1>4, <1>5, <1>6

\* SumTo is the last one of any partial sums.
LEMMA SumIsPartial ==
  ASSUME NEW n \in Nat, NEW w \in [1 .. n -> Int],
         NEW f \in [0 .. n -> Int], IsPartials(f, w, n)
  PROVE  SumTo(w, n) = f[n]
<1> DEFINE g == CHOOSE h : IsPartials(h, w, n)
<1>1. IsPartials(g, w, n)
  OBVIOUS
<1>2. g[n] = f[n]
  <2> HIDE DEF g
  <2> QED BY <1>1, PartialsUnique
<1>3. SumTo(w, n) = g[n]
  BY DEF SumTo, IsPartials
<1> QED BY <1>2, <1>3

\* The form in which the theorems use the definition of SumTo.
LEMMA SumHasPartials ==
  ASSUME NEW n \in Nat, NEW w \in [1 .. n -> Int]
  PROVE  \E f \in [0 .. n -> Int] : IsPartials(f, w, n) /\ SumTo(w, n) = f[n]
BY PartialsExist, SumIsPartial

\* The sum of integers is an integer.
THEOREM SumType ==
  ASSUME NEW n \in Nat, NEW w \in [1 .. n -> Int]
  PROVE  SumTo(w, n) \in Int
BY SumHasPartials

\* Overwriting one row replaces its weight in the sum.
THEOREM SumUpdate ==
  ASSUME NEW n \in Nat, NEW w \in [1 .. n -> Int], NEW k \in 1 .. n, NEW v \in Int
  PROVE  SumTo([w EXCEPT ![k] = v], n) = SumTo(w, n) - w[k] + v
<1> DEFINE u == [w EXCEPT ![k] = v]
<1>1. PICK f \in [0 .. n -> Int] : IsPartials(f, w, n) /\ SumTo(w, n) = f[n]
  BY SumHasPartials
<1> DEFINE g == [j \in 0 .. n |-> IF j < k THEN f[j] ELSE f[j] - w[k] + v]
<1>2. u \in [1 .. n -> Int] /\ g \in [0 .. n -> Int]
  OBVIOUS
<1>3. IsPartials(g, u, n)
  <2> SUFFICES ASSUME NEW j \in 0 .. n
               PROVE  g[j] = IF j = 0 THEN 0 ELSE g[j - 1] + u[j]
    BY DEF IsPartials
  <2>1. f[j] = IF j = 0 THEN 0 ELSE f[j - 1] + w[j]
    BY <1>1 DEF IsPartials
  <2>2. CASE j < k BY <2>1, <2>2
  <2>3. CASE j = k BY <2>1, <2>3
  <2>4. CASE j > k
    <3>1. j # 0 /\ j - 1 \in 0 .. n /\ j \in 1 .. n /\ ~ (j - 1 < k)
      BY <2>4
    <3>2. u[j] = w[j] /\ w[j] \in Int /\ w[k] \in Int
      BY <3>1, <2>4
    <3>3. f[j] = f[j - 1] + w[j] /\ f[j - 1] \in Int
      BY <2>1, <3>1
    <3>4. g[j] = f[j] - w[k] + v /\ g[j - 1] = f[j - 1] - w[k] + v
      BY <3>1, <2>4
    <3> HIDE DEF u, g
    <3> QED BY <3>1, <3>2, <3>3, <3>4
  <2> QED BY <2>2, <2>3, <2>4
<1>4. SumTo(u, n) = g[n]
  <2> HIDE DEF u, g
  <2> QED BY <1>2, <1>3, SumIsPartial
<1> QED BY <1>1, <1>4

\* The sum of a table without negative rows is not negative.
LEMMA SumNonnegative ==
  ASSUME NEW n \in Nat, NEW w \in [1 .. n -> Int], \A k \in 1 .. n : w[k] >= 0
  PROVE  SumTo(w, n) >= 0
<1>1. PICK f \in [0 .. n -> Int] : IsPartials(f, w, n) /\ SumTo(w, n) = f[n]
  BY SumHasPartials
<1> DEFINE T == {k \in 0 .. n : f[k] < 0}
<1>2. SUFFICES ASSUME T # {} PROVE FALSE
  <2>1. CASE T = {} BY <1>1, <2>1
  <2> QED BY <2>1
<1>3. PICK m \in T : \A k \in T : ~ (k < m)
  <2>1. T \subseteq Nat OBVIOUS
  <2> HIDE DEF T
  <2> QED BY <1>2, <2>1, LeastElement
<1>4. f[m] = IF m = 0 THEN 0 ELSE f[m - 1] + w[m]
  BY <1>1 DEF IsPartials
<1>5. m # 0
  BY <1>4
<1>6. m - 1 \in 0 .. n /\ f[m - 1] >= 0
  BY <1>3, <1>5
<1> QED BY <1>4, <1>5, <1>6

\* No row of such a table weighs more than the sum: what a contract owes to one
\* row is covered when it owns the sum.
THEOREM SumBounds ==
  ASSUME NEW n \in Nat, NEW w \in [1 .. n -> Int], \A k \in 1 .. n : w[k] >= 0
  PROVE  SumTo(w, n) >= 0 /\ \A k \in 1 .. n : w[k] <= SumTo(w, n)
<1>1. SumTo(w, n) >= 0
  BY SumNonnegative
<1>2. ASSUME NEW k \in 1 .. n PROVE w[k] <= SumTo(w, n)
  <2> DEFINE u == [w EXCEPT ![k] = 0]
  <2>1. u \in [1 .. n -> Int] /\ \A j \in 1 .. n : u[j] >= 0
    OBVIOUS
  <2>2. SumTo(u, n) = SumTo(w, n) - w[k] + 0
    <3>1. 0 \in Int OBVIOUS
    <3> QED BY <3>1, SumUpdate, Zenon
  <2>3. SumTo(u, n) >= 0
    <3> HIDE DEF u
    <3> QED BY <2>1, SumNonnegative
  <2>4. SumTo(w, n) \in Int
    BY SumType
  <2> QED BY <2>2, <2>3, <2>4
<1> QED BY <1>1, <1>2

\* A table of zeros, as every table is before its first row, has the sum zero.
THEOREM SumOfZeros ==
  ASSUME NEW n \in Nat, NEW w \in [1 .. n -> Int], \A k \in 1 .. n : w[k] = 0
  PROVE  SumTo(w, n) = 0
<1>1. [k \in 0 .. n |-> 0] \in [0 .. n -> Int] /\ IsPartials([k \in 0 .. n |-> 0], w, n)
  BY DEF IsPartials
<1> QED BY <1>1, SumIsPartial

\* A step that rewrites one row moves the sum by the change of that row.
THEOREM SumOneRow ==
  ASSUME NEW n \in Nat, NEW w \in [1 .. n -> Int], NEW u \in [1 .. n -> Int],
         NEW k \in 1 .. n, \A j \in 1 .. n : j # k => u[j] = w[j]
  PROVE  SumTo(u, n) = SumTo(w, n) - w[k] + u[k]
<1>1. u = [w EXCEPT ![k] = u[k]]
  OBVIOUS
<1>2. u[k] \in Int
  OBVIOUS
<1>3. SumTo([w EXCEPT ![k] = u[k]], n) = SumTo(w, n) - w[k] + u[k]
  BY <1>2, SumUpdate, Zenon
<1> QED BY <1>1, <1>3, Zenon

\* A step that rewrites two rows moves the sum by the changes of both.
THEOREM SumTwoRows ==
  ASSUME NEW n \in Nat, NEW w \in [1 .. n -> Int], NEW u \in [1 .. n -> Int],
         NEW k \in 1 .. n, NEW l \in 1 .. n, k # l,
         \A j \in 1 .. n : j # k /\ j # l => u[j] = w[j]
  PROVE  SumTo(u, n) = SumTo(w, n) - w[k] + u[k] - w[l] + u[l]
<1> DEFINE m == [w EXCEPT ![k] = u[k]]
<1>1. m \in [1 .. n -> Int] /\ m[l] = w[l] /\ m[k] = u[k]
  OBVIOUS
<1>2. \A j \in 1 .. n : j # k => m[j] = w[j]
  OBVIOUS
<1>3. \A j \in 1 .. n : j # l => u[j] = m[j]
  OBVIOUS
<1> HIDE DEF m
<1>4. SumTo(m, n) = SumTo(w, n) - w[k] + m[k]
  BY <1>1, <1>2, SumOneRow, Zenon
<1>5. SumTo(u, n) = SumTo(m, n) - m[l] + u[l]
  BY <1>1, <1>3, SumOneRow, Zenon
<1>6. SumTo(w, n) \in Int /\ SumTo(m, n) \in Int /\ SumTo(u, n) \in Int
  BY <1>1, SumType
<1> QED BY <1>1, <1>4, <1>5, <1>6

\* What partial sums are, row by row.
LEMMA PartialRows ==
  ASSUME NEW n \in Nat, NEW w, NEW f, IsPartials(f, w, n)
  PROVE  f[0] = 0 /\ \A k \in 1 .. n : f[k] = f[k - 1] + w[k]
<1>1. ASSUME NEW k \in 0 .. n PROVE f[k] = IF k = 0 THEN 0 ELSE f[k - 1] + w[k]
  BY DEF IsPartials
<1>2. \A k \in 1 .. n : k \in 0 .. n /\ k # 0
  OBVIOUS
<1> QED BY <1>1, <1>2

\* The sum of two tables, row by row.
THEOREM SumAdd ==
  ASSUME NEW n \in Nat, NEW w \in [1 .. n -> Int], NEW v \in [1 .. n -> Int],
         NEW u \in [1 .. n -> Int], \A k \in 1 .. n : u[k] = w[k] + v[k]
  PROVE  SumTo(u, n) = SumTo(w, n) + SumTo(v, n)
<1>1. PICK f \in [0 .. n -> Int] : IsPartials(f, w, n) /\ SumTo(w, n) = f[n]
  BY SumHasPartials
<1>2. PICK g \in [0 .. n -> Int] : IsPartials(g, v, n) /\ SumTo(v, n) = g[n]
  BY SumHasPartials
<1> DEFINE h == [k \in 0 .. n |-> f[k] + g[k]]
<1>3. h \in [0 .. n -> Int]
  OBVIOUS
<1>4. ASSUME NEW k \in 0 .. n
      PROVE  h[k] = IF k = 0 THEN 0 ELSE h[k - 1] + u[k]
  <2>1. CASE k = 0
    BY <1>1, <1>2, <2>1, PartialRows
  <2>2. CASE k # 0
    <3>1. k \in 1 .. n /\ k - 1 \in 0 .. n
      BY <2>2
    <3>2. f[k] = f[k - 1] + w[k] /\ g[k] = g[k - 1] + v[k]
      <4>1. f[k] = f[k - 1] + w[k]
        BY <1>1, <3>1, PartialRows, Zenon
      <4>2. g[k] = g[k - 1] + v[k]
        BY <1>2, <3>1, PartialRows, Zenon
      <4> QED BY <4>1, <4>2
    <3>3. f[k - 1] \in Int /\ g[k - 1] \in Int /\ w[k] \in Int /\ v[k] \in Int
      BY <3>1
    <3>4. h[k] = f[k] + g[k] /\ h[k - 1] = f[k - 1] + g[k - 1]
      BY <3>1
    <3>5. u[k] = w[k] + v[k]
      BY <3>1
    <3> HIDE DEF h
    <3>6. (f[k - 1] + w[k]) + (g[k - 1] + v[k]) = (f[k - 1] + g[k - 1]) + (w[k] + v[k])
      <4> DEFINE a == f[k - 1]
                 b == w[k]
                 c == g[k - 1]
                 d == v[k]
      <4>1. a \in Int /\ b \in Int /\ c \in Int /\ d \in Int
        BY <3>3
      <4> HIDE DEF a, b, c, d
      <4>2. (a + b) + (c + d) = (a + c) + (b + d)
        BY <4>1
      <4> QED BY <4>2 DEF a, b, c, d
    <3>7. h[k] = h[k - 1] + u[k]
      BY <3>2, <3>4, <3>5, <3>6, Zenon
    <3> QED BY <2>2, <3>7
  <2> QED BY <2>1, <2>2
<1>5. IsPartials(h, u, n)
  BY <1>3, <1>4 DEF IsPartials
<1>6. SumTo(u, n) = h[n]
  BY <1>3, <1>5, SumIsPartial
<1> QED BY <1>1, <1>2, <1>6

\* A sum is no larger if no row is.
THEOREM SumMonotone ==
  ASSUME NEW n \in Nat, NEW w \in [1 .. n -> Int], NEW u \in [1 .. n -> Int],
         \A k \in 1 .. n : w[k] <= u[k]
  PROVE  SumTo(w, n) <= SumTo(u, n)
<1> DEFINE d == [k \in 1 .. n |-> u[k] - w[k]]
<1>1. d \in [1 .. n -> Int] /\ \A k \in 1 .. n : d[k] >= 0 /\ u[k] = w[k] + d[k]
  OBVIOUS
<1> HIDE DEF d
<1>2. SumTo(u, n) = SumTo(w, n) + SumTo(d, n)
  BY <1>1, SumAdd
<1>3. SumTo(d, n) >= 0
  BY <1>1, SumNonnegative
<1>4. SumTo(w, n) \in Int /\ SumTo(u, n) \in Int /\ SumTo(d, n) \in Int
  BY <1>1, SumType
<1> QED BY <1>2, <1>3, <1>4

\* The sum of a table whose rows are multiplied by one number.
THEOREM SumScale ==
  ASSUME NEW n \in Nat, NEW w \in [1 .. n -> Int], NEW c \in Int,
         NEW u \in [1 .. n -> Int], \A k \in 1 .. n : u[k] = c * w[k]
  PROVE  SumTo(u, n) = c * SumTo(w, n)
<1>1. PICK f \in [0 .. n -> Int] : IsPartials(f, w, n) /\ SumTo(w, n) = f[n]
  BY SumHasPartials
<1> DEFINE h == [k \in 0 .. n |-> c * f[k]]
<1>2. h \in [0 .. n -> Int]
  OBVIOUS
<1>3. ASSUME NEW k \in 0 .. n
      PROVE  h[k] = IF k = 0 THEN 0 ELSE h[k - 1] + u[k]
  <2>1. CASE k = 0
    <3>1. f[k] = 0
      BY <1>1, <2>1, PartialRows
    <3> QED BY <2>1, <3>1
  <2>2. CASE k # 0
    <3>1. k \in 1 .. n /\ k - 1 \in 0 .. n
      BY <2>2
    <3>2. f[k] = f[k - 1] + w[k]
      BY <1>1, <3>1, PartialRows, Zenon
    <3>3. f[k - 1] \in Int /\ w[k] \in Int
      BY <3>1
    <3>4. \A x, y \in Int : c * (x + y) = c * x + c * y
      OBVIOUS
    <3>5. c * f[k] = c * f[k - 1] + c * w[k]
      BY <3>2, <3>3, <3>4
    <3>6. h[k] = c * f[k] /\ h[k - 1] = c * f[k - 1] /\ u[k] = c * w[k]
      BY <3>1
    <3> QED BY <2>2, <3>5, <3>6
  <2> QED BY <2>1, <2>2
<1>4. IsPartials(h, u, n)
  BY <1>2, <1>3 DEF IsPartials
<1>5. SumTo(u, n) = h[n]
  BY <1>2, <1>4, SumIsPartial
<1> QED BY <1>1, <1>5

\* A table with one row that weighs something.
THEOREM SumSingle ==
  ASSUME NEW n \in Nat, NEW w \in [1 .. n -> Int], NEW j \in 1 .. n,
         \A k \in 1 .. n : k # j => w[k] = 0
  PROVE  SumTo(w, n) = w[j]
<1> DEFINE z == [k \in 1 .. n |-> 0]
<1>1. z \in [1 .. n -> Int] /\ \A k \in 1 .. n : z[k] = 0
  OBVIOUS
<1> HIDE DEF z
<1>2. SumTo(z, n) = 0
  BY <1>1, SumOfZeros
<1>3. SumTo(w, n) = SumTo(z, n) - z[j] + w[j]
  BY <1>1, SumOneRow
<1> QED BY <1>1, <1>2, <1>3

\* A matrix adds up to the same by rows and by columns.
THEOREM SumExchange ==
  ASSUME NEW r \in Nat, NEW n \in Nat, NEW m \in [1 .. r -> [1 .. n -> Int]]
  PROVE  SumTo([i \in 1 .. r |-> SumTo(m[i], n)], r)
           = SumTo([j \in 1 .. n |-> SumTo([i \in 1 .. r |-> m[i][j]], r)], n)
<1> DEFINE Partial(i) == CHOOSE f \in [0 .. n -> Int] :
                           IsPartials(f, m[i], n) /\ SumTo(m[i], n) = f[n]
           Col(j)  == [i \in 1 .. r |-> m[i][j]]
           Upto(j) == [i \in 1 .. r |-> Partial(i)[j]]
           s == [j \in 1 .. n |-> SumTo(Col(j), r)]
           h == [j \in 0 .. n |-> SumTo(Upto(j), r)]
<1>1. ASSUME NEW i \in 1 .. r
      PROVE  /\ Partial(i) \in [0 .. n -> Int]
             /\ IsPartials(Partial(i), m[i], n)
             /\ SumTo(m[i], n) = Partial(i)[n]
  <2>1. m[i] \in [1 .. n -> Int]
    OBVIOUS
  <2>2. \E f \in [0 .. n -> Int] : IsPartials(f, m[i], n) /\ SumTo(m[i], n) = f[n]
    BY <2>1, SumHasPartials
  <2> QED BY <2>2
<1> HIDE DEF Partial
<1>2. ASSUME NEW i \in 1 .. r
      PROVE  /\ Partial(i)[0] = 0
             /\ \A j \in 1 .. n : Partial(i)[j] = Partial(i)[j - 1] + m[i][j]
  BY <1>1, PartialRows
<1>3. ASSUME NEW j \in 1 .. n PROVE Col(j) \in [1 .. r -> Int]
  OBVIOUS
<1>4. ASSUME NEW j \in 0 .. n PROVE Upto(j) \in [1 .. r -> Int]
  BY <1>1
<1>5. \A i \in 1 .. r : Upto(0)[i] = 0
  BY <1>2
<1>6. ASSUME NEW j \in 1 .. n, NEW i \in 1 .. r
      PROVE  Upto(j)[i] = Upto(j - 1)[i] + Col(j)[i]
  BY <1>2
<1>7. Upto(n) = [i \in 1 .. r |-> SumTo(m[i], n)]
  BY <1>1
<1>8. s = [j \in 1 .. n |-> SumTo([i \in 1 .. r |-> m[i][j]], r)]
  OBVIOUS
<1> HIDE DEF Col, Upto
<1>9. ASSUME NEW j \in 1 .. n PROVE SumTo(Col(j), r) \in Int
  BY <1>3, SumType
<1>10. ASSUME NEW j \in 0 .. n PROVE SumTo(Upto(j), r) \in Int
  BY <1>4, SumType
<1>11. s \in [1 .. n -> Int] /\ h \in [0 .. n -> Int]
  BY <1>9, <1>10
<1>12. SumTo(Upto(0), r) = 0
  <2>1. Upto(0) \in [1 .. r -> Int]
    BY <1>4
  <2> QED BY <1>5, <2>1, SumOfZeros
<1>13. ASSUME NEW j \in 1 .. n
       PROVE  SumTo(Upto(j), r) = SumTo(Upto(j - 1), r) + SumTo(Col(j), r)
  <2>1. /\ Upto(j) \in [1 .. r -> Int] /\ Upto(j - 1) \in [1 .. r -> Int]
        /\ Col(j) \in [1 .. r -> Int]
    BY <1>3, <1>4
  <2>2. \A i \in 1 .. r : Upto(j)[i] = Upto(j - 1)[i] + Col(j)[i]
    BY <1>6
  <2> QED BY <2>1, <2>2, SumAdd
<1>14. h[0] = 0
  BY <1>12
<1>15. ASSUME NEW j \in 1 .. n PROVE h[j] = h[j - 1] + s[j]
  <2>1. j \in 0 .. n /\ j - 1 \in 0 .. n
    OBVIOUS
  <2>2. h[j] = SumTo(Upto(j), r) /\ h[j - 1] = SumTo(Upto(j - 1), r) /\ s[j] = SumTo(Col(j), r)
    BY <2>1
  <2> QED BY <1>13, <2>2, Zenon
<1>16. h[n] = SumTo(Upto(n), r)
  OBVIOUS
<1> HIDE DEF s, h
<1>17. IsPartials(h, s, n)
  BY <1>11, <1>14, <1>15 DEF IsPartials
<1>18. SumTo(s, n) = h[n]
  BY <1>11, <1>17, SumIsPartial
<1> QED BY <1>7, <1>8, <1>16, <1>18

\* Partial sums, row by row.
LEMMA SumHasRows ==
  ASSUME NEW n \in Nat, NEW w \in [1 .. n -> Int]
  PROVE  \E f \in [0 .. n -> Int] :
           /\ f[0] = 0 /\ \A k \in 1 .. n : f[k] = f[k - 1] + w[k]
           /\ SumTo(w, n) = f[n]
<1>1. PICK f \in [0 .. n -> Int] : IsPartials(f, w, n) /\ SumTo(w, n) = f[n]
  BY SumHasPartials
<1>2. f[0] = 0 /\ \A k \in 1 .. n : f[k] = f[k - 1] + w[k]
  BY <1>1, PartialRows
<1> QED BY <1>1, <1>2

\* A table of r blocks of n rows adds up to the sum of the sums of its blocks.
THEOREM SumBlocks ==
  ASSUME NEW r \in Nat, NEW n \in Nat, NEW z \in Nat,
         NEW w \in [1 .. z -> Int], NEW m \in [1 .. r -> [1 .. n -> Int]]
  PROVE  z = r * n /\ (\A p \in 1 .. r : \A o \in 1 .. n : m[p][o] = w[(p - 1) * n + o])
           => SumTo(w, z) = SumTo([p \in 1 .. r |-> SumTo(m[p], n)], r)
<1>0. SUFFICES ASSUME z = r * n,
                      \A p \in 1 .. r : \A o \in 1 .. n : m[p][o] = w[(p - 1) * n + o]
               PROVE  SumTo(w, z) = SumTo([p \in 1 .. r |-> SumTo(m[p], n)], r)
  OBVIOUS
<1>1. PICK f \in [0 .. z -> Int] :
             /\ f[0] = 0 /\ \A i \in 1 .. z : f[i] = f[i - 1] + w[i]
             /\ SumTo(w, z) = f[z]
  BY SumHasRows
<1>2. f[0] = 0 /\ \A i \in 1 .. z : f[i] = f[i - 1] + w[i]
  BY <1>1
<1>3. ASSUME NEW p \in 0 .. r PROVE p * n \in 0 .. z
  <2>1. p * n \in Nat /\ (r - p) * n \in Nat /\ (r - p) * n = r * n - p * n
    BY SMT
  <2> QED BY <1>0, <2>1
<1> DEFINE s == [p \in 1 .. r |-> SumTo(m[p], n)]
           h == [p \in 0 .. r |-> f[p * n]]
<1>4. ASSUME NEW p \in 0 .. r PROVE f[p * n] \in Int
  BY <1>3
<1>5. h \in [0 .. r -> Int] /\ h[0] = 0 /\ h[r] = f[z]
  <2>1. h \in [0 .. r -> Int]
    BY <1>4
  <2>2. h[0] = f[0 * n] /\ 0 * n = 0
    BY SMT
  <2>3. h[r] = f[r * n]
    OBVIOUS
  <2> QED BY <1>0, <1>2, <2>1, <2>2, <2>3
<1>6. ASSUME NEW p \in 1 .. r
      PROVE  SumTo(m[p], n) = f[p * n] - f[(p - 1) * n]
  <2>1. (p - 1) * n \in 0 .. z /\ p * n \in 0 .. z
    BY <1>3
  <2>2. (p - 1) * n + n = p * n
    BY SMT
  <2>3. PICK b \in Nat : b = (p - 1) * n /\ b + n = p * n /\ b + n <= z
    BY <2>1, <2>2
  <2>4. PICK v \in [1 .. n -> Int] : v = m[p]
    OBVIOUS
  <2>5. b + n <= z /\ \A o \in 1 .. n : v[o] = w[b + o]
    BY <1>0, <2>3, <2>4
  <2>6. \A i \in 1 .. z : f[i] = f[i - 1] + w[i]
    BY <1>2
  <2> DEFINE g == [o \in 0 .. n |-> f[b + o] - f[b]]
  <2>7. ASSUME NEW o \in 0 .. n PROVE f[b + o] \in Int
    <3>1. b + o \in 0 .. z
      BY <2>5
    <3> QED BY <3>1
  <2>8. f[b] \in Int
    BY <2>5
  <2>9. g \in [0 .. n -> Int]
    <3>1. ASSUME NEW o \in 0 .. n PROVE f[b + o] - f[b] \in Int
      BY <2>7, <2>8
    <3> QED BY <3>1
  <2>10. ASSUME NEW o \in 0 .. n PROVE g[o] = IF o = 0 THEN 0 ELSE g[o - 1] + v[o]
    <3>1. CASE o = 0
      BY <2>8, <3>1
    <3>2. CASE o # 0
      <4>1. o \in 1 .. n /\ o - 1 \in 0 .. n /\ b + o \in 1 .. z
        BY <2>5, <3>2
      <4>2. b + (o - 1) = (b + o) - 1
        BY <4>1
      <4>3. f[b + o] = f[b + (o - 1)] + v[o]
        BY <2>5, <2>6, <4>1, <4>2
      <4>4. g[o] = f[b + o] - f[b] /\ g[o - 1] = f[b + (o - 1)] - f[b]
        BY <4>1
      <4>5. v[o] \in Int /\ f[b + (o - 1)] \in Int
        BY <2>7, <4>1
      <4> DEFINE x == f[b + (o - 1)]
                 y == f[b]
                 e == v[o]
      <4>6. x \in Int /\ y \in Int /\ e \in Int
        BY <2>8, <4>5
      <4>7. g[o] = (x + e) - y /\ g[o - 1] = x - y
        BY <4>3, <4>4, Zenon
      <4> HIDE DEF x, y
      <4>8. (x + e) - y = (x - y) + e
        BY <4>6
      <4> HIDE DEF g
      <4>9. g[o] = g[o - 1] + v[o]
        BY <4>7, <4>8, Zenon
      <4> QED BY <3>2, <4>9
    <3> QED BY <3>1, <3>2
  <2>11. IsPartials(g, v, n)
    BY <2>10 DEF IsPartials
  <2>12. SumTo(v, n) = g[n]
    <3> HIDE DEF g
    <3> QED BY <2>9, <2>11, SumIsPartial
  <2>13. SumTo(v, n) = f[b + n] - f[b]
    BY <2>12
  <2> QED BY <2>3, <2>4, <2>13
<1>7. s \in [1 .. r -> Int]
  <2>1. ASSUME NEW p \in 1 .. r PROVE SumTo(m[p], n) \in Int
    <3>1. m[p] \in [1 .. n -> Int]
      OBVIOUS
    <3> QED BY <3>1, SumType
  <2> QED BY <2>1
<1>8. ASSUME NEW p \in 0 .. r PROVE h[p] = IF p = 0 THEN 0 ELSE h[p - 1] + s[p]
  <2>1. CASE p = 0
    BY <1>5, <2>1
  <2>2. CASE p # 0
    <3>1. p \in 1 .. r /\ p - 1 \in 0 .. r
      BY <2>2
    <3>2. s[p] = f[p * n] - f[(p - 1) * n]
      BY <1>6, <3>1
    <3>3. h[p] = f[p * n] /\ h[p - 1] = f[(p - 1) * n]
      BY <3>1
    <3>4. h[p] \in Int /\ h[p - 1] \in Int
      BY <1>4, <3>1, <3>3
    <3> HIDE DEF h, s
    <3>5. h[p] = h[p - 1] + s[p]
      BY <3>2, <3>3, <3>4
    <3> QED BY <2>2, <3>5
  <2> QED BY <2>1, <2>2
<1>9. IsPartials(h, s, r)
  <2>1. h = [p \in 0 .. r |-> h[p]]
    OBVIOUS
  <2> HIDE DEF h, s
  <2> QED BY <1>8, <2>1 DEF IsPartials
<1>10. SumTo(s, r) = h[r]
  <2> HIDE DEF h, s
  <2> QED BY <1>5, <1>7, <1>9, SumIsPartial
<1> QED BY <1>1, <1>5, <1>10

===============================================================================
