----------------------------- MODULE PartsProof ------------------------------
(***************************************************************************)
(* Proofs about Parts, for every value of its constants.                   *)
(***************************************************************************)
EXTENDS Parts, Lists, FiniteSetTheorems, SequenceTheorems, TLAPS

-----------------------------------------------------------------------------
(* Induction, and functions defined by it *)

\* Intervals from 0 are finite, and inclusion is well-founded on finite sets: so
\* every set of numbers that is not empty has a least element.
LEMMA LeastOf == ASSUME NEW Some \in SUBSET Nat, Some # {}
                 PROVE \E m \in Some : \A k \in Some : m <= k
  <1>1. PICK n \in Some : TRUE
    OBVIOUS
  <1> DEFINE Upto == 0..n
             Order == StrictSubsetOrdering(Upto)
             Sets == FiniteSubsetsOf(Upto)
             Initial == {0..m : m \in {k \in Some : k <= n}}
  <1>2. IsWellFoundedOn(Order, Sets)
    BY FS_StrictSubsetOrderingWellFounded
  <1>3. Initial \subseteq Sets
    <2>1. ASSUME NEW m \in Some, m <= n PROVE 0..m \in Sets
      <3>1. IsFiniteSet(0..m)
        BY FS_Interval
      <3>2. 0..m \subseteq Upto
        BY <2>1
      <3> QED BY <3>1, <3>2 DEF FiniteSubsetsOf
    <2> QED BY <2>1
  <1>4. Initial # {}
    BY <1>1
  <1>5. PICK least \in Initial : \A other \in Initial : ~ (<<other, least>> \in Order)
    <2> HIDE DEF Initial, Order, Sets
    <2> QED BY <1>2, <1>3, <1>4, WFMin, Zenon
  <1>6. PICK m \in Some : m <= n /\ least = 0..m
    OBVIOUS
  <1>7. ASSUME NEW k \in Some, k < m PROVE FALSE
    <2>1. k <= n /\ k \in Nat /\ m \in Nat
      BY <1>6, <1>7
    <2>2. 0..k \in Initial
      BY <2>1
    <2>3. 0..k \subseteq 0..m /\ 0..k # 0..m
      <3>1. m \in 0..m /\ m \notin 0..k
        BY <1>7, <2>1
      <3> QED BY <3>1, <2>1, <1>7
    <2>4. <<0..k, 0..m>> \in (SUBSET Upto) \X (SUBSET Upto)
      BY <2>1, <1>6
    <2>5. <<0..k, 0..m>> \in Order
      BY <2>3, <2>4 DEF StrictSubsetOrdering
    <2> QED BY <2>5, <2>2, <1>5, <1>6
  <1> QED BY <1>7, <1>6

\* Induction, for a set in the place of a predicate.
LEMMA Induction == ASSUME NEW Good \in SUBSET Nat, 0 \in Good, \A n \in Good : n + 1 \in Good
                   PROVE Good = Nat
  <1>1. SUFFICES ASSUME Nat \ Good # {} PROVE FALSE
    OBVIOUS
  <1>2. PICK m \in Nat \ Good : \A k \in Nat \ Good : m <= k
    BY <1>1, LeastOf
  <1>3. m - 1 \in Nat
    BY <1>2
  <1>4. m - 1 \in Good
    BY <1>2, <1>3
  <1>5. (m - 1) + 1 = m
    OBVIOUS
  <1> QED BY <1>4, <1>5

Steps(Value) == [Nat \X Value -> Value]

Iterated(Value, first, step, n) ==
    \E f \in [0..n -> Value] : f[0] = first /\ \A k \in 1..n : f[k] = step[<<k, f[k - 1]>>]

\* A function on 0..n may be defined by its first value and by how each value
\* follows from the one before.
LEMMA Iterates == ASSUME NEW Value, NEW first \in Value, NEW step \in Steps(Value), NEW n \in Nat
                  PROVE Iterated(Value, first, step, n)
  <1> DEFINE Fits(f, m) == f[0] = first /\ \A k \in 1..m : f[k] = step[<<k, f[k - 1]>>]
             Good == {m \in Nat : \E f \in [0..m -> Value] : Fits(f, m)}
  <1> USE DEF Steps
  <1>1. 0 \in Good
    <2>1. [k \in 0..0 |-> first] \in [0..0 -> Value] /\ Fits([k \in 0..0 |-> first], 0)
      OBVIOUS
    <2> QED BY <2>1
  <1>2. ASSUME NEW m \in Good PROVE m + 1 \in Good
    <2>1. PICK f \in [0..m -> Value] : Fits(f, m)
      OBVIOUS
    <2> DEFINE next == step[<<m + 1, f[m]>>]
               g == [k \in 0..m + 1 |-> IF k = m + 1 THEN next ELSE f[k]]
    <2>2. next \in Value
      OBVIOUS
    <2> HIDE DEF next
    <2>3. g \in [0..m + 1 -> Value]
      BY <2>2
    <2>4. g[0] = first
      BY <2>1
    <2>5. ASSUME NEW k \in 1..m + 1 PROVE g[k] = step[<<k, g[k - 1]>>]
      <3>1. k - 1 \in 0..m /\ k - 1 # m + 1 /\ k \in 0..m + 1
        OBVIOUS
      <3>2. g[k - 1] = f[k - 1]
        BY <3>1
      <3>3. CASE k = m + 1
        <4>1. k - 1 = m /\ g[k] = next
          BY <3>1, <3>3
        <4>2. g[k - 1] = f[m]
          BY <3>2, <4>1
        <4> HIDE DEF g
        <4> QED BY <3>3, <4>1, <4>2 DEF next
      <3>4. CASE k # m + 1
        <4>1. k \in 1..m
          BY <3>4
        <4>2. g[k] = f[k]
          BY <3>1, <3>4
        <4> QED BY <2>1, <3>2, <4>1, <4>2
      <3> QED BY <3>3, <3>4
    <2>6. Fits(g, m + 1)
      BY <2>4, <2>5
    <2> HIDE DEF g, Fits
    <2> QED BY <2>3, <2>6
  <1>3. Good = Nat
    <2> HIDE DEF Good
    <2>1. Good \subseteq Nat
      BY DEF Good
    <2> QED BY <1>1, <1>2, <2>1, Induction
  <1> QED BY <1>3 DEF Iterated

LEMMA AppendIs == ASSUME NEW Elem, NEW s \in Seq(Elem), NEW e \in Elem
                  PROVE Append(s, e) = [k \in 1..Len(s) + 1 |-> IF k = Len(s) + 1 THEN e ELSE s[k]]
  <1> DEFINE n == Len(s)
             t == [k \in 1..n + 1 |-> IF k = n + 1 THEN e ELSE s[k]]
  <1>1. n \in Nat /\ n + 1 \in Nat /\ \A k \in 1..n + 1 : k # n + 1 => k \in 1..n
    OBVIOUS
  <1>2. \A k \in 1..n : s[k] \in Elem
    OBVIOUS
  <1>3. t \in [1..n + 1 -> Elem]
    <2> HIDE DEF n
    <2> QED BY <1>1, <1>2
  <1>4. t \in Seq(Elem) /\ Len(t) = n + 1
    <2> HIDE DEF t, n
    <2> QED BY <1>1, <1>3
  <1>5. Append(s, e) \in Seq(Elem) /\ Len(Append(s, e)) = n + 1
    OBVIOUS
  <1>6. \A k \in 1..n + 1 : Append(s, e)[k] = t[k]
    OBVIOUS
  <1> HIDE DEF t, n
  <1>7. Append(s, e) = t
    BY <1>4, <1>5, <1>6, SeqEqual
  <1> QED BY <1>7 DEF t, n

LEMMA Concatenated == ASSUME NEW Elem, NEW r \in Seq(Elem), NEW s \in Seq(Elem), NEW t \in Seq(Elem)
                      PROVE (r \o s) \o t = r \o (s \o t)
  <1> DEFINE u == (r \o s) \o t
             v == r \o (s \o t)
  <1>1. /\ u \in Seq(Elem) /\ v \in Seq(Elem)
        /\ Len(u) = (Len(r) + Len(s)) + Len(t) /\ Len(v) = Len(u)
    OBVIOUS
  <1>2. \A k \in 1..Len(u) : u[k] = v[k]
    OBVIOUS
  <1> HIDE DEF u, v
  <1>3. u = v
    BY <1>1, <1>2, SeqEqual
  <1> QED BY <1>3 DEF u, v

-----------------------------------------------------------------------------
(* Kept, of Lists *)

KeptIsFunction(Elem, s, out) ==
    \E f \in [0..Len(s) -> Seq(Elem)] :
        /\ Kept(s, out) = f[Len(s)] /\ f[0] = <<>>
        /\ \A k \in 1..Len(s) :
              f[k] = IF s[k] \in out THEN f[k - 1] ELSE Append(f[k - 1], s[k])

\* The function that Kept is defined by exists, and its equations hold.
LEMMA KeptBy == ASSUME NEW Elem, NEW s \in Seq(Elem), NEW out
                PROVE KeptIsFunction(Elem, s, out)
  <1> DEFINE n == Len(s)
             step == [p \in Nat \X Seq(Elem) |->
                        IF p[1] \in 1..n /\ s[p[1]] \notin out THEN Append(p[2], s[p[1]]) ELSE p[2]]
             Fits(f) == f = [k \in 0..n |-> IF k = 0 THEN <<>>
                                ELSE IF s[k] \in out THEN f[k - 1] ELSE Append(f[k - 1], s[k])]
  <1>1. n \in Nat
    OBVIOUS
  <1>2. step \in [Nat \X Seq(Elem) -> Seq(Elem)]
    <2>1. ASSUME NEW p \in Nat \X Seq(Elem) PROVE
            (IF p[1] \in 1..n /\ s[p[1]] \notin out THEN Append(p[2], s[p[1]]) ELSE p[2]) \in Seq(Elem)
      OBVIOUS
    <2> QED BY <2>1
  <1>3. PICK f \in [0..n -> Seq(Elem)] : f[0] = <<>> /\ \A k \in 1..n : f[k] = step[<<k, f[k - 1]>>]
    <2> DEFINE value == Seq(Elem)
               empty == <<>>
    <2>1. empty \in value
      OBVIOUS
    <2>2. step \in Steps(value)
      BY <1>2 DEF Steps
    <2> HIDE DEF n, step, value, empty
    <2>3. Iterated(value, empty, step, n)
      BY <1>1, <2>1, <2>2, Iterates
    <2> QED BY <2>3 DEF value, empty, Iterated
  <1>4. ASSUME NEW k \in 1..n
        PROVE f[k] = IF s[k] \in out THEN f[k - 1] ELSE Append(f[k - 1], s[k])
    <2>1. k \in Nat /\ f[k - 1] \in Seq(Elem)
      BY <1>1
    <2>2. <<k, f[k - 1]>> \in Nat \X Seq(Elem)
      BY <2>1
    <2>3. f[k] = step[<<k, f[k - 1]>>]
      BY <1>3
    <2>4. step[<<k, f[k - 1]>>] = IF s[k] \notin out THEN Append(f[k - 1], s[k]) ELSE f[k - 1]
      BY <2>2
    <2> HIDE DEF step, n
    <2> QED BY <2>3, <2>4
  <1>5. Fits(f)
    <2> HIDE DEF n, step
    <2>1. \A k \in 0..n : f[k] = IF k = 0 THEN <<>>
                                ELSE IF s[k] \in out THEN f[k - 1] ELSE Append(f[k - 1], s[k])
      <3>1. \A k \in 0..n : k = 0 \/ k \in 1..n
        BY <1>1
      <3> QED BY <3>1, <1>3, <1>4, Zenon
    <2>2. f = [k \in 0..n |-> f[k]]
      BY <1>3
    <2> QED BY <2>1, <2>2
  <1>6. ASSUME NEW g, Fits(g) PROVE g = f
    <2>1. DOMAIN g = 0..n /\ g = [k \in 0..n |-> g[k]]
      BY <1>6
    <2>5. ASSUME NEW k \in 1..n
          PROVE g[k] = IF s[k] \in out THEN g[k - 1] ELSE Append(g[k - 1], s[k])
      <3>1. k \in 0..n /\ k # 0
        BY <1>1
      <3> QED BY <3>1, <1>6
    <2> DEFINE Good == {k \in Nat : k <= n => g[k] = f[k]}
    <2>2. 0 \in Good
      BY <1>6, <1>3
    <2>3. ASSUME NEW k \in Good PROVE k + 1 \in Good
      <3>1. SUFFICES ASSUME k + 1 <= n PROVE g[k + 1] = f[k + 1]
        OBVIOUS
      <3>2. g[k] = f[k] /\ k + 1 \in 1..n /\ (k + 1) - 1 = k
        BY <3>1
      <3> HIDE DEF Good, n, Fits
      <3> QED BY <3>2, <1>4, <2>5
    <2>4. Good = Nat
      <3> HIDE DEF Good
      <3>1. Good \subseteq Nat
        BY DEF Good
      <3> QED BY <2>2, <2>3, <3>1, Induction
    <2>6. \A k \in 0..n : g[k] = f[k]
      BY <1>1, <2>4
    <2>7. f = [k \in 0..n |-> f[k]]
      BY <1>3
    <2> HIDE DEF n, Fits, Good
    <2> QED BY <2>1, <2>6, <2>7
  <1>7. Kept(s, out) = f[n]
    BY <1>5, <1>6 DEF Kept
  <1> QED BY <1>3, <1>4, <1>7 DEF KeptIsFunction

\* t is what is left of the first k elements of s: those that are not thrown
\* away, in their order.
Sifted(t, s, k, out) ==
    /\ \A n \in 1..Len(t) : \E j \in 1..k : t[n] = s[j] /\ s[j] \notin out
    /\ \A j \in 1..k : s[j] \notin out => \E n \in 1..Len(t) : t[n] = s[j]
    /\ \A m, n \in 1..Len(t) : m < n => \E i, j \in 1..k : i < j /\ t[m] = s[i] /\ t[n] = s[j]

LEMMA SiftedLonger ==
    ASSUME NEW Elem, NEW s \in Seq(Elem), NEW out, NEW t \in Seq(Elem), NEW k \in Nat,
           k + 1 <= Len(s), Sifted(t, s, k, out)
    PROVE  Sifted(IF s[k + 1] \in out THEN t ELSE Append(t, s[k + 1]), s, k + 1, out)
  <1>1. \A j \in 1..k : j \in 1..k + 1 /\ j < k + 1
    OBVIOUS
  <1>2. \A j \in 1..k + 1 : j = k + 1 \/ j \in 1..k
    OBVIOUS
  <1>5. k + 1 \in 1..k + 1
    OBVIOUS
  <1>3. CASE s[k + 1] \in out
    <2>1. \A n \in 1..Len(t) : \E j \in 1..k + 1 : t[n] = s[j] /\ s[j] \notin out
      BY <1>1 DEF Sifted
    <2>2. \A j \in 1..k + 1 : s[j] \notin out => \E n \in 1..Len(t) : t[n] = s[j]
      BY <1>2, <1>3 DEF Sifted
    <2>3. \A m, n \in 1..Len(t) : m < n => \E i, j \in 1..k + 1 : i < j /\ t[m] = s[i] /\ t[n] = s[j]
      <3> SUFFICES ASSUME NEW m \in 1..Len(t), NEW n \in 1..Len(t), m < n
                   PROVE \E i, j \in 1..k + 1 : i < j /\ t[m] = s[i] /\ t[n] = s[j]
        OBVIOUS
      <3>1. PICK i \in 1..k, j \in 1..k : i < j /\ t[m] = s[i] /\ t[n] = s[j]
        BY DEF Sifted
      <3> QED BY <3>1, <1>1
    <2>4. Sifted(t, s, k + 1, out)
      BY <2>1, <2>2, <2>3 DEF Sifted
    <2> QED BY <2>4, <1>3
  <1>4. CASE s[k + 1] \notin out
    <2> DEFINE u == Append(t, s[k + 1])
    <2>1. /\ u \in Seq(Elem) /\ Len(u) = Len(t) + 1 /\ u[Len(t) + 1] = s[k + 1]
          /\ \A n \in 1..Len(t) : u[n] = t[n]
      OBVIOUS
    <2>2. \A n \in 1..Len(u) : n = Len(t) + 1 \/ n \in 1..Len(t)
      BY <2>1
    <2>3. \A n \in 1..Len(t) : n \in 1..Len(u)
      BY <2>1
    <2>4. Len(t) + 1 \in 1..Len(u)
      BY <2>1
    <2>5. \A n \in 1..Len(t) : ~ (Len(t) + 1 < n)
      OBVIOUS
    <2>10. ~ (Len(t) + 1 < Len(t) + 1)
      OBVIOUS
    <2> HIDE DEF u
    <2>6. \A n \in 1..Len(u) : \E j \in 1..k + 1 : u[n] = s[j] /\ s[j] \notin out
      <3>1. ASSUME NEW n \in 1..Len(t) PROVE \E j \in 1..k + 1 : u[n] = s[j] /\ s[j] \notin out
        BY <2>1, <1>1 DEF Sifted
      <3> QED BY <3>1, <2>1, <2>2, <1>4, <1>5
    <2>7. \A j \in 1..k + 1 : s[j] \notin out => \E n \in 1..Len(u) : u[n] = s[j]
      <3>1. ASSUME NEW j \in 1..k, s[j] \notin out PROVE \E n \in 1..Len(u) : u[n] = s[j]
        <4>1. PICK n \in 1..Len(t) : t[n] = s[j]
          BY <3>1 DEF Sifted
        <4> QED BY <4>1, <2>1, <2>3
      <3> QED BY <3>1, <2>1, <2>4, <1>2
    <2>8. \A m, n \in 1..Len(u) : m < n => \E i, j \in 1..k + 1 : i < j /\ u[m] = s[i] /\ u[n] = s[j]
      <3> SUFFICES ASSUME NEW m \in 1..Len(u), NEW n \in 1..Len(u), m < n
                   PROVE \E i, j \in 1..k + 1 : i < j /\ u[m] = s[i] /\ u[n] = s[j]
        OBVIOUS
      <3>1. m \in 1..Len(t)
        BY <2>1
      <3>2. CASE n \in 1..Len(t)
        <4>1. PICK i \in 1..k, j \in 1..k : i < j /\ t[m] = s[i] /\ t[n] = s[j]
          BY <3>1, <3>2 DEF Sifted
        <4> QED BY <4>1, <2>1, <3>1, <3>2, <1>1
      <3>3. CASE n = Len(t) + 1
        <4>1. PICK i \in 1..k : t[m] = s[i]
          BY <3>1 DEF Sifted
        <4>2. i \in 1..k + 1 /\ i < k + 1 /\ u[m] = s[i] /\ u[n] = s[k + 1]
          BY <4>1, <3>1, <3>3, <2>1, <1>1
        <4> QED BY <4>2, <1>5
      <3> QED BY <3>2, <3>3, <2>2
    <2>9. Sifted(u, s, k + 1, out)
      BY <2>6, <2>7, <2>8 DEF Sifted
    <2> QED BY <2>9, <1>4 DEF u
  <1> QED BY <1>3, <1>4

LEMMA KeptSifts ==
    ASSUME NEW Elem, NEW s \in Seq(Elem), NEW out
    PROVE  Kept(s, out) \in Seq(Elem) /\ Sifted(Kept(s, out), s, Len(s), out)
  <1>1. PICK f \in [0..Len(s) -> Seq(Elem)] :
          /\ Kept(s, out) = f[Len(s)] /\ f[0] = <<>>
          /\ \A k \in 1..Len(s) :
                f[k] = IF s[k] \in out THEN f[k - 1] ELSE Append(f[k - 1], s[k])
    <2>1. KeptIsFunction(Elem, s, out)
      BY KeptBy
    <2> QED BY <2>1, Zenon DEF KeptIsFunction
  <1> DEFINE Good == {k \in Nat : k <= Len(s) => Sifted(f[k], s, k, out)}
  <1>2. 0 \in Good
    BY <1>1 DEF Sifted
  <1>3. ASSUME NEW k \in Good PROVE k + 1 \in Good
    <2>1. k \in Nat /\ k + 1 \in Nat
      OBVIOUS
    <2>2. SUFFICES ASSUME k + 1 <= Len(s) PROVE Sifted(f[k + 1], s, k + 1, out)
      OBVIOUS
    <2>3. k <= Len(s) /\ k \in 0..Len(s) /\ k + 1 \in 1..Len(s) /\ (k + 1) - 1 = k
      BY <2>1, <2>2
    <2>4. Sifted(f[k], s, k, out) /\ f[k] \in Seq(Elem)
      BY <2>3
    <2>5. f[k + 1] = IF s[k + 1] \in out THEN f[k] ELSE Append(f[k], s[k + 1])
      BY <1>1, <2>3
    <2> HIDE DEF Good
    <2> QED BY <2>1, <2>2, <2>4, <2>5, SiftedLonger
  <1>4. Good = Nat
    <2> HIDE DEF Good
    <2>1. Good \subseteq Nat
      BY DEF Good
    <2> QED BY <1>2, <1>3, <2>1, Induction
  <1>5. Len(s) \in Nat /\ Len(s) \in 0..Len(s)
    OBVIOUS
  <1>6. Sifted(f[Len(s)], s, Len(s), out)
    BY <1>4, <1>5
  <1> QED BY <1>1, <1>5, <1>6

\* Where all that is thrown away lies behind what stays, the rest is as it was.
LEMMA KeptFront ==
    ASSUME NEW Elem, NEW front \in Seq(Elem), NEW back \in Seq(Elem), NEW out,
           \A i \in 1..Len(front) : front[i] \notin out,
           \A i \in 1..Len(back) : back[i] \in out
    PROVE  Kept(front \o back, out) = front
  <1> DEFINE s == front \o back
             Front(k) == [i \in 1..(IF k <= Len(front) THEN k ELSE Len(front)) |-> front[i]]
  <1>1. s \in Seq(Elem) /\ Len(s) = Len(front) + Len(back) /\ Len(front) \in Nat /\ Len(back) \in Nat
    OBVIOUS
  <1>2. \A k \in 1..Len(s) : s[k] \in out <=> ~ (k <= Len(front))
    <2> SUFFICES ASSUME NEW k \in 1..Len(s) PROVE s[k] \in out <=> ~ (k <= Len(front))
      OBVIOUS
    <2>1. CASE k <= Len(front)
      <3>1. s[k] = front[k]
        BY <2>1
      <3> QED BY <3>1, <2>1
    <2>2. CASE ~ (k <= Len(front))
      <3>1. s[k] = back[k - Len(front)] /\ k - Len(front) \in 1..Len(back)
        BY <2>2, <1>1
      <3> QED BY <3>1, <2>2
    <2> QED BY <2>1, <2>2
  <1>8. \A k \in 1..Len(front) : s[k] = front[k]
    OBVIOUS
  <1> HIDE DEF s
  <1>3. PICK f \in [0..Len(s) -> Seq(Elem)] :
          /\ Kept(s, out) = f[Len(s)] /\ f[0] = <<>>
          /\ \A k \in 1..Len(s) :
                f[k] = IF s[k] \in out THEN f[k - 1] ELSE Append(f[k - 1], s[k])
    <2>1. KeptIsFunction(Elem, s, out)
      BY <1>1, KeptBy
    <2> QED BY <2>1, Zenon DEF KeptIsFunction
  <1> DEFINE Good == {k \in Nat : k <= Len(s) => f[k] = Front(k)}
  <1>4. 0 \in Good
    BY <1>1, <1>3
  <1>5. ASSUME NEW k \in Good PROVE k + 1 \in Good
    <2>1. k \in Nat /\ k + 1 \in Nat
      OBVIOUS
    <2>2. SUFFICES ASSUME k + 1 <= Len(s) PROVE f[k + 1] = Front(k + 1)
      OBVIOUS
    <2>3. k + 1 \in 1..Len(s) /\ (k + 1) - 1 = k /\ f[k] = Front(k)
      BY <2>1, <2>2, <1>1
    <2>4. f[k + 1] = IF s[k + 1] \in out THEN f[k] ELSE Append(f[k], s[k + 1])
      BY <1>3, <2>3
    <2>5. CASE k + 1 <= Len(front)
      <3>1. f[k + 1] = Append(Front(k), front[k + 1])
        <4> HIDE DEF Front
        <4>1. k + 1 \in 1..Len(front)
          BY <2>1, <2>5
        <4> QED BY <2>3, <2>4, <2>5, <1>2, <1>8, <4>1
      <3>2. k <= Len(front)
        BY <2>1, <2>5, <1>1
      <3>3. Front(k) = [i \in 1..k |-> front[i]] /\ Front(k + 1) = [i \in 1..k + 1 |-> front[i]]
        BY <3>2, <2>5
      <3>4. Append([i \in 1..k |-> front[i]], front[k + 1]) = [i \in 1..k + 1 |-> front[i]]
        <4>1. \A i \in 1..k + 1 : front[i] \in Elem
          BY <2>5, <1>1, <2>1
        <4> QED BY <4>1, <2>1
      <3> QED BY <3>1, <3>3, <3>4
    <2>6. CASE ~ (k + 1 <= Len(front))
      <3>1. Front(k + 1) = Front(k)
        <4>1. k >= Len(front)
          BY <2>6, <2>1, <1>1
        <4>2. Front(k) = [i \in 1..Len(front) |-> front[i]]
          BY <4>1, <2>1, <1>1
        <4> QED BY <2>6, <4>2
      <3>2. s[k + 1] \in out
        BY <2>6, <1>2, <2>3
      <3> HIDE DEF Front
      <3> QED BY <3>1, <3>2, <2>3, <2>4
    <2> QED BY <2>5, <2>6
  <1>6. Good = Nat
    <2> HIDE DEF Good
    <2>1. Good \subseteq Nat
      BY DEF Good
    <2> QED BY <1>4, <1>5, <2>1, Induction
  <1>7. f[Len(s)] = Front(Len(s))
    <2> HIDE DEF Front
    <2>1. Len(s) \in Nat /\ Len(s) <= Len(s)
      BY <1>1
    <2> QED BY <1>6, <2>1
  <1>9. Front(Len(s)) = front
    <2>1. Front(Len(s)) = [i \in 1..Len(front) |-> front[i]]
      BY <1>1
    <2> QED BY <2>1
  <1> QED BY <1>3, <1>7, <1>9 DEF s

-----------------------------------------------------------------------------
(* Relayed voice *)

VoicePacket == [id : 1..MaxVoice, len : Lengths] \cup {V!NoPacket}

Increasing(s) == \A j, k \in 1..Len(s) : j < k => s[j] < s[k]

VoiceType ==
    /\ voipPacket \in [0..Slots - 1 -> VoicePacket]
    /\ queuedVoipPackets \in 0..Slots
    /\ downloading \in BOOLEAN /\ halves \in BOOLEAN
    /\ queuedIds \in Seq(1..MaxVoice) /\ written \in Seq(Nat)

\* Packets are queued under growing numbers, so that throwing away those that
\* wait for a download throws away no other.
VoiceInv == VoiceType /\ Increasing(queuedIds) /\ V!RelayedOnceIfHalved

\* The loop over the packets ends, at one of them or behind the last one.
LEMMA TakenInQueue == ASSUME VoiceType PROVE V!Taken \in 0..queuedVoipPackets
  <1>1. V!Stops \in SUBSET Nat /\ V!Stops # {}
    <2>1. queuedVoipPackets \in V!Stops
      BY DEF V!Stops, VoiceType
    <2>2. V!Stops \subseteq Nat
      BY DEF V!Stops, VoiceType
    <2> QED BY <2>1, <2>2
  <1>2. \E n \in V!Stops : \A m \in V!Stops : n <= m
    BY <1>1, LeastOf
  <1>3. V!Taken \in V!Stops
    BY <1>2, Zenon DEF V!Taken
  <1> QED BY <1>3 DEF V!Stops

LEMMA PendingTyped == ASSUME VoiceType PROVE V!Pending \in Seq(Nat) /\ Len(V!Pending) = queuedVoipPackets
  <1>1. \A k \in 1..queuedVoipPackets : k - 1 \in 0..Slots - 1
    BY VoipInstance DEF VoiceType, V!VoipAssumption
  <1>2. \A i \in 0..Slots - 1 : voipPacket[i].id \in Nat
    BY VoipInstance DEF VoiceType, VoicePacket, V!NoPacket, V!VoipAssumption
  <1>3. queuedVoipPackets \in Nat
    BY VoipInstance DEF VoiceType, V!VoipAssumption
  <1> QED BY <1>1, <1>2, <1>3 DEF V!Pending

\* A new packet is the last one.
LEMMA NextIdLast == ASSUME VoiceInv
                    PROVE V!NextId \in Nat \ {0} /\ \A k \in 1..Len(queuedIds) : queuedIds[k] < V!NextId
  <1>1. CASE queuedIds = <<>>
    BY <1>1 DEF V!NextId
  <1>2. CASE queuedIds # <<>>
    <2> DEFINE n == Len(queuedIds)
    <2>5. queuedIds \in Seq(1..MaxVoice)
      BY DEF VoiceInv, VoiceType
    <2>6. \A k \in 1..n : queuedIds[k] \in 1..MaxVoice
      BY <2>5, ElementOfSeq
    <2>7. n \in Nat \ {0}
      BY <1>2, <2>5
    <2>1. n \in Nat \ {0} /\ n \in 1..n /\ queuedIds[n] \in Nat /\ \A k \in 1..n : queuedIds[k] \in Nat
      <3> HIDE DEF n
      <3> QED BY <2>6, <2>7
    <2>2. V!NextId = queuedIds[n] + 1
      BY <1>2 DEF V!NextId
    <2>3. \A k \in 1..n : k = n \/ queuedIds[k] < queuedIds[n]
      BY <2>1 DEF VoiceInv, Increasing
    <2> HIDE DEF n
    <2>4. ASSUME NEW k \in 1..n PROVE queuedIds[k] < queuedIds[n] + 1
      BY <2>1, <2>3
    <2> QED BY <2>1, <2>2, <2>4 DEF n
  <1> QED BY <1>1, <1>2

LEMMA VoiceQueued == ASSUME VoiceInv, V!SV_UserVoip PROVE VoiceInv'
  <1> DEFINE q == queuedVoipPackets
             next == V!NextId
  <1>1. next \in 1..MaxVoice /\ \A k \in 1..Len(queuedIds) : queuedIds[k] < next
    BY NextIdLast, VoipInstance DEF V!SV_UserVoip, V!VoipAssumption
  <1>2. PICK len \in Lengths : voipPacket' = [i \in DOMAIN voipPacket |->
              IF i = q THEN [id |-> next, len |-> len] ELSE voipPacket[i]]
    BY DEF V!SV_UserVoip
  <1>3. q' = q + 1 /\ q \in 0..Slots - 1 /\ q + 1 \in 0..Slots /\ q \in Nat
    BY VoipInstance DEF V!SV_UserVoip, V!HasRoom, VoiceInv, VoiceType, V!VoipAssumption
  <1>4. queuedIds' = Append(queuedIds, next) /\ UNCHANGED <<downloading, written, halves>>
    BY DEF V!SV_UserVoip
  <1>5. queuedIds \in Seq(1..MaxVoice) /\ voipPacket \in [0..Slots - 1 -> VoicePacket]
    BY DEF VoiceInv, VoiceType
  <1> HIDE DEF next
  <1>6. [id |-> next, len |-> len] \in VoicePacket
    BY <1>1 DEF VoicePacket
  <1>7. voipPacket' \in [0..Slots - 1 -> VoicePacket]
    BY <1>2, <1>5, <1>6
  <1>8. VoiceType'
    BY <1>1, <1>3, <1>4, <1>5, <1>7 DEF VoiceInv, VoiceType
  <1>9. Increasing(queuedIds')
    <2> DEFINE n == Len(queuedIds)
    <2>1. /\ Len(queuedIds') = n + 1 /\ n \in Nat /\ queuedIds'[n + 1] = next
          /\ \A k \in 1..n : queuedIds'[k] = queuedIds[k] /\ queuedIds[k] < next
          /\ \A k \in 1..n + 1 : k = n + 1 \/ k \in 1..n
      BY <1>1, <1>4, <1>5
    <2>2. \A j, k \in 1..n : j < k => queuedIds[j] < queuedIds[k]
      BY DEF VoiceInv, Increasing
    <2> HIDE DEF n
    <2>3. ASSUME NEW j \in 1..n + 1, NEW k \in 1..n + 1, j < k PROVE queuedIds'[j] < queuedIds'[k]
      <3>1. j \in 1..n
        BY <2>1, <2>3
      <3>2. CASE k = n + 1
        BY <3>1, <3>2, <2>1
      <3>3. CASE k \in 1..n
        BY <3>1, <3>3, <2>1, <2>2, <2>3
      <3> QED BY <3>2, <3>3, <2>1
    <2> QED BY <2>1, <2>3 DEF Increasing
  <1>10. V!Pending' = Append(V!Pending, next)
    <2>1. ASSUME NEW k \in 1..q PROVE voipPacket'[k - 1].id = voipPacket[k - 1].id
      <3>1. k - 1 \in 0..Slots - 1 /\ k - 1 # q
        BY <1>3, VoipInstance DEF V!VoipAssumption
      <3> QED BY <3>1, <1>2, <1>5
    <2>2. voipPacket'[(q + 1) - 1].id = next
      <3>1. (q + 1) - 1 = q
        BY <1>3
      <3> QED BY <3>1, <1>2, <1>3, <1>5
    <2>3. V!Pending' = [k \in 1..q + 1 |-> voipPacket'[k - 1].id]
      BY <1>3 DEF V!Pending
    <2>4. V!Pending = [k \in 1..q |-> voipPacket[k - 1].id]
      BY DEF V!Pending
    <2>5. V!Pending \in Seq(Nat) /\ Len(V!Pending) = q
      BY PendingTyped DEF VoiceInv
    <2>6. Append(V!Pending, next) = [k \in 1..q + 1 |-> IF k = q + 1 THEN next ELSE V!Pending[k]]
      <3>1. next \in Nat
        BY <1>1
      <3> QED BY <3>1, <2>5, AppendIs
    <2>7. \A k \in 1..q + 1 : k = q + 1 \/ k \in 1..q
      BY <1>3
    <2>8. \A k \in 1..q + 1 : voipPacket'[k - 1].id = IF k = q + 1 THEN next ELSE V!Pending[k]
      <3>1. \A k \in 1..q : k # q + 1 /\ V!Pending[k] = voipPacket[k - 1].id
        BY <1>3, <2>4
      <3> HIDE DEF q
      <3> QED BY <3>1, <2>1, <2>2, <2>7
    <2> QED BY <2>3, <2>6, <2>8
  <1>11. V!RelayedOnceIfHalved'
    <2>1. SUFFICES ASSUME halves PROVE written \o V!Pending' = queuedIds'
      BY <1>4 DEF V!RelayedOnceIfHalved
    <2>2. written \o V!Pending = queuedIds
      BY <2>1 DEF VoiceInv, V!RelayedOnceIfHalved
    <2>3. written \in Seq(Nat) /\ V!Pending \in Seq(Nat) /\ next \in Nat
      BY <1>1, PendingTyped DEF VoiceInv, VoiceType
    <2>4. written \o Append(V!Pending, next) = Append(written \o V!Pending, next)
      <3> DEFINE pending == V!Pending
      <3> HIDE DEF pending
      <3>1. written \in Seq(Nat) /\ pending \in Seq(Nat) /\ next \in Nat
        BY <2>3 DEF pending
      <3>2. written \o Append(pending, next) = Append(written \o pending, next)
        BY <3>1
      <3> QED BY <3>2 DEF pending
    <2> QED BY <2>2, <2>4, <1>4, <1>10
  <1>12. Increasing(queuedIds)'
    BY <1>9
  <1> QED BY <1>8, <1>11, <1>12 DEF VoiceInv

LEMMA KeptIncreases == ASSUME NEW s \in Seq(Nat), NEW out, Increasing(s) PROVE Increasing(Kept(s, out))
  <1>1. Sifted(Kept(s, out), s, Len(s), out)
    BY KeptSifts
  <1>2. \A i, j \in 1..Len(s) : i < j => s[i] < s[j]
    BY DEF Increasing
  <1> QED BY <1>1, <1>2 DEF Sifted, Increasing

LEMMA PendingThrownAway ==
    ASSUME VoiceInv, V!SV_WriteVoipToClient, downloading
    PROVE  VoiceInv'
  <1> DEFINE q == queuedVoipPackets
             out == {voipPacket[i].id : i \in 0..q - 1}
  <1>1. /\ q' = 0 /\ queuedIds' = Kept(queuedIds, out)
        /\ UNCHANGED <<voipPacket, downloading, written, halves>>
    BY DEF V!SV_WriteVoipToClient, V!Kept, Kept
  <1>2. VoiceType
    BY DEF VoiceInv
  <1>3. queuedIds \in Seq(1..MaxVoice) /\ queuedIds \in Seq(Nat)
    <2>1. 1..MaxVoice \subseteq Nat
      OBVIOUS
    <2>2. queuedIds \in Seq(1..MaxVoice)
      BY <1>2 DEF VoiceType
    <2> QED BY <2>1, <2>2, SeqMonotonic
  <1>4. written \in Seq(Nat) /\ V!Pending \in Seq(Nat) /\ Len(V!Pending) = q
    BY <1>2, PendingTyped DEF VoiceType
  <1> HIDE DEF out
  <1>5. VoiceType'
    <2>1. Kept(queuedIds, out) \in Seq(1..MaxVoice)
      BY <1>3, KeptSifts
    <2>2. 0 \in 0..Slots
      BY VoipInstance DEF V!VoipAssumption
    <2> QED BY <1>1, <1>2, <2>1, <2>2 DEF VoiceType
  <1>6. Increasing(queuedIds)'
    <2>1. Increasing(queuedIds)
      BY DEF VoiceInv
    <2>2. Increasing(queuedIds')
      BY <1>1, <1>3, <2>1, KeptIncreases
    <2> QED BY <2>2
  <1>7. V!RelayedOnceIfHalved'
    <2> SUFFICES ASSUME halves PROVE written \o V!Pending' = queuedIds'
      BY <1>1 DEF V!RelayedOnceIfHalved
    <2>1. written \o V!Pending = queuedIds
      BY DEF VoiceInv, V!RelayedOnceIfHalved
    <2>2. V!Pending' = <<>>
      BY <1>1 DEF V!Pending
    <2>3. \A k \in 1..Len(V!Pending) : V!Pending[k] \in out
      <3>1. \A k \in 1..q : V!Pending[k] = voipPacket[k - 1].id /\ k - 1 \in 0..q - 1
        BY <1>2, VoipInstance DEF V!Pending, VoiceType, V!VoipAssumption
      <3> QED BY <3>1, <1>4 DEF out
    <2>4. \A i \in 1..Len(written) : written[i] \notin out
      <3> SUFFICES ASSUME NEW i \in 1..Len(written), NEW j \in 0..q - 1, written[i] = voipPacket[j].id
                   PROVE FALSE
        BY DEF out
      <3> DEFINE pending == V!Pending
                 w == Len(written)
      <3>1. pending[j + 1] = voipPacket[j].id /\ j + 1 \in 1..Len(pending)
        <4>1. j + 1 \in 1..q /\ (j + 1) - 1 = j
          BY <1>2, VoipInstance DEF VoiceType, V!VoipAssumption
        <4>2. pending[j + 1] = voipPacket[(j + 1) - 1].id
          BY <4>1 DEF V!Pending
        <4> QED BY <4>1, <4>2, <1>4
      <3> HIDE DEF pending
      <3>2. /\ written \in Seq(Nat) /\ pending \in Seq(Nat) /\ written \o pending = queuedIds
        BY <1>4, <2>1 DEF pending
      <3>3. /\ queuedIds[i] = written[i] /\ queuedIds[w + (j + 1)] = pending[j + 1]
            /\ i \in 1..Len(queuedIds) /\ w + (j + 1) \in 1..Len(queuedIds) /\ i < w + (j + 1)
        BY <3>1, <3>2, ConcatProperties, SMTT(30)
      <3>4. queuedIds[i] < queuedIds[w + (j + 1)]
        <4> HIDE DEF w
        <4> QED BY <3>3 DEF VoiceInv, Increasing
      <3>5. written[i] \in Nat
        BY <1>4
      <3> QED BY <3>1, <3>3, <3>4, <3>5
    <2>5. Kept(written \o V!Pending, out) = written
      BY <1>4, <2>3, <2>4, KeptFront
    <2>6. written \o <<>> = written
      BY <1>4
    <2> QED BY <1>1, <2>1, <2>2, <2>5, <2>6
  <1> QED BY <1>5, <1>6, <1>7 DEF VoiceInv

LEMMA PendingWritten ==
    ASSUME VoiceInv, V!SV_WriteVoipToClient, ~downloading
    PROVE  VoiceInv'
  <1> DEFINE q == queuedVoipPackets
             n == V!Taken
  <1>1. n \in 0..q /\ q \in 0..Slots /\ Slots \in Nat
    BY TakenInQueue, VoipInstance DEF VoiceInv, VoiceType, V!VoipAssumption
  <1> DEFINE block == [k \in 1..n |-> voipPacket[k - 1].id]
  <1>2. /\ written' = written \o block /\ q' = q - n
        /\ voipPacket' = IF q = n THEN voipPacket ELSE V!Moved(n)
        /\ halves' = (halves /\ q - n <= n)
        /\ UNCHANGED <<queuedIds, downloading>>
    BY DEF V!SV_WriteVoipToClient
  <1> HIDE DEF n
  <1>3. VoiceType
    BY DEF VoiceInv
  <1>4. voipPacket \in [0..Slots - 1 -> VoicePacket] /\ \A i \in 0..Slots - 1 : voipPacket[i].id \in Nat
    BY <1>3 DEF VoiceType, VoicePacket, V!NoPacket
  <1>5. block \in Seq(Nat) /\ Len(block) = n
    <2>1. \A k \in 1..n : k - 1 \in 0..Slots - 1
      BY <1>1
    <2> QED BY <2>1, <1>1, <1>4
  <1>6. voipPacket' \in [0..Slots - 1 -> VoicePacket]
    <2>1. CASE q = n
      BY <2>1, <1>2, <1>4
    <2>2. CASE q # n
      <3>1. ASSUME NEW i \in 0..Slots - 1 PROVE
              (IF i < n THEN (IF i + n < Slots THEN voipPacket[i + n] ELSE V!NoPacket)
               ELSE voipPacket[i]) \in VoicePacket
        <4>1. V!NoPacket \in VoicePacket
          BY DEF VoicePacket
        <4>2. i + n < Slots => i + n \in 0..Slots - 1
          BY <1>1
        <4> QED BY <4>1, <4>2, <1>4
      <3>2. voipPacket' = [i \in 0..Slots - 1 |->
              IF i < n THEN (IF i + n < Slots THEN voipPacket[i + n] ELSE V!NoPacket)
              ELSE voipPacket[i]]
        BY <2>2, <1>2, <1>4 DEF V!Moved
      <3> QED BY <3>1, <3>2
    <2> QED BY <2>1, <2>2
  <1>7. VoiceType'
    <2>1. written \o block \in Seq(Nat)
      <3> HIDE DEF block
      <3> QED BY <1>3, <1>5 DEF VoiceType
    <2>2. q - n \in 0..Slots /\ (halves /\ q - n <= n) \in BOOLEAN
      BY <1>1
    <2> HIDE DEF block
    <2> QED BY <1>2, <1>3, <1>6, <2>1, <2>2 DEF VoiceType
  <1>8. Increasing(queuedIds)'
    BY <1>2 DEF VoiceInv
  <1>9. V!RelayedOnceIfHalved'
    <2> SUFFICES ASSUME halves, q - n <= n PROVE written' \o V!Pending' = queuedIds
      BY <1>2 DEF V!RelayedOnceIfHalved
    <2>1. written \o V!Pending = queuedIds
      BY DEF VoiceInv, V!RelayedOnceIfHalved
    <2> DEFINE rest == [k \in 1..q - n |-> voipPacket[(k + n) - 1].id]
    <2>2. V!Pending' = rest
      <3>1. V!Pending' = [k \in 1..q - n |-> voipPacket'[k - 1].id]
        BY <1>2 DEF V!Pending
      <3>2. ASSUME NEW k \in 1..q - n PROVE voipPacket'[k - 1] = voipPacket[(k + n) - 1]
        <4>1. /\ k - 1 \in 0..Slots - 1 /\ k - 1 < n /\ (k - 1) + n < Slots /\ q # n
              /\ (k - 1) + n = (k + n) - 1
          BY <1>1
        <4>2. V!Moved(n)[k - 1] = voipPacket[(k - 1) + n]
          BY <4>1, <1>4 DEF V!Moved
        <4> QED BY <4>1, <4>2, <1>2
      <3> QED BY <3>1, <3>2
    <2>3. rest \in Seq(Nat) /\ Len(rest) = q - n
      <3>1. \A k \in 1..q - n : (k + n) - 1 \in 0..Slots - 1
        BY <1>1
      <3>2. q - n \in Nat
        BY <1>1
      <3> QED BY <3>1, <3>2, <1>4
    <2>4. V!Pending = block \o rest
      <3>1. V!Pending \in Seq(Nat) /\ Len(V!Pending) = q
        BY <1>3, PendingTyped
      <3>2. block \o rest \in Seq(Nat) /\ Len(block \o rest) = q
        <4> HIDE DEF block, rest
        <4>1. n + (q - n) = q
          BY <1>1
        <4> QED BY <1>5, <2>3, <4>1
      <3>3. ASSUME NEW k \in 1..q PROVE V!Pending[k] = (block \o rest)[k]
        <4>1. V!Pending[k] = voipPacket[k - 1].id
          BY DEF V!Pending
        <4>2. CASE k <= n
          <5>1. (block \o rest)[k] = block[k] /\ k \in 1..n
            <6>1. k \in 1..n
              BY <1>1, <4>2
            <6> HIDE DEF block, rest
            <6> QED BY <1>5, <2>3, <6>1
          <5> QED BY <4>1, <5>1
        <4>3. CASE ~ (k <= n)
          <5>1. k - n \in 1..q - n /\ ((k - n) + n) - 1 = k - 1 /\ k \in n + 1..n + (q - n)
            BY <1>1, <4>3
          <5>2. (block \o rest)[k] = rest[k - n]
            <6> HIDE DEF block, rest
            <6> QED BY <1>1, <1>5, <2>3, <5>1, <4>3, ConcatProperties
          <5>3. rest[k - n] = voipPacket[((k - n) + n) - 1].id
            BY <5>1
          <5> QED BY <4>1, <5>1, <5>2, <5>3
        <4> QED BY <4>2, <4>3
      <3> HIDE DEF block, rest
      <3> DEFINE pending == V!Pending
                 both == block \o rest
      <3>4. pending \in Seq(Nat) /\ both \in Seq(Nat) /\ Len(pending) = Len(both)
        BY <3>1, <3>2
      <3>5. \A k \in 1..Len(pending) : pending[k] = both[k]
        BY <3>1, <3>3
      <3> HIDE DEF pending, both
      <3>6. pending = both
        BY <3>4, <3>5, SeqEqual
      <3> QED BY <3>6 DEF pending, both
    <2>5. written \in Seq(Nat)
      BY <1>3 DEF VoiceType
    <2> HIDE DEF block, rest
    <2>6. (written \o block) \o rest = written \o (block \o rest)
      <3> DEFINE number == Nat
      <3>1. written \in Seq(number) /\ block \in Seq(number) /\ rest \in Seq(number)
        BY <1>5, <2>3, <2>5
      <3> HIDE DEF number
      <3> QED BY <3>1, Concatenated
    <2> QED BY <1>2, <2>1, <2>2, <2>4, <2>6
  <1> QED BY <1>7, <1>8, <1>9 DEF VoiceInv

\* Every step of every part that is no step of the voice leaves it alone.
LEMMA VoiceKept == ASSUME VoiceInv, UNCHANGED voip PROVE VoiceInv'
  <1>1. UNCHANGED <<voipPacket, queuedVoipPackets, downloading, queuedIds, written, halves>>
    BY DEF voip
  <1> QED BY <1>1 DEF VoiceInv, VoiceType, Increasing, V!RelayedOnceIfHalved, V!Pending

LEMMA VoiceStep == ASSUME VoiceInv, [Next]_vars PROVE VoiceInv'
  <1>1. CASE RunVoip
    <2>1. CASE V!SV_UserVoip
      BY <2>1, VoiceQueued
    <2>2. CASE V!SV_WriteVoipToClient
      BY <2>2, PendingThrownAway, PendingWritten DEF VoiceInv, VoiceType
    <2>3. CASE V!BeginOrEndDownload
      <3>1. /\ downloading' = ~downloading
            /\ UNCHANGED <<voipPacket, queuedVoipPackets, queuedIds, written, halves>>
        BY <2>3 DEF V!BeginOrEndDownload
      <3>2. VoiceType'
        BY <3>1 DEF VoiceInv, VoiceType
      <3>3. Increasing(queuedIds)' /\ V!RelayedOnceIfHalved'
        BY <3>1 DEF VoiceInv, Increasing, V!RelayedOnceIfHalved, V!Pending
      <3> QED BY <3>2, <3>3 DEF VoiceInv
    <2> QED BY <1>1, <2>1, <2>2, <2>3 DEF RunVoip, V!Next
  <1>2. CASE UNCHANGED voip
    BY <1>2, VoiceKept
  <1> QED BY <1>1, <1>2 DEF Next, vars, RunDownload, RunRate, RunHeap, RunSpawn, RunMaps, RunVotes,
            RunTime, RunMaster, RunAliens

\* Whatever the number of places and the lengths of packets: packets of voice
\* stay in their array, and are relayed once and in order where no snapshot
\* leaves more behind than it takes (SV_UserVoip, SV_WriteVoipToClient).
THEOREM Voice == Spec => []VoiceHolds
  <1>1. Init => VoiceInv
    <2> SUFFICES ASSUME Init PROVE VoiceInv
      OBVIOUS
    <2>1. V!Init
      BY DEF Init
    <2>2. VoiceType
      <3>1. V!NoPacket \in VoicePacket /\ 0 \in 0..Slots
        BY VoipInstance DEF VoicePacket, V!VoipAssumption
      <3>2. voipPacket = [i \in 0..Slots - 1 |-> V!NoPacket] /\ queuedVoipPackets = 0
        BY <2>1 DEF V!Init
      <3>3. voipPacket \in [0..Slots - 1 -> VoicePacket]
        BY <3>1, <3>2
      <3>4. <<>> \in Seq(1..MaxVoice) /\ <<>> \in Seq(Nat)
        OBVIOUS
      <3> QED BY <2>1, <3>1, <3>2, <3>3, <3>4 DEF V!Init, VoiceType
    <2>3. Increasing(queuedIds)
      BY <2>1 DEF V!Init, Increasing
    <2>4. V!RelayedOnceIfHalved
      BY <2>1 DEF V!Init, V!RelayedOnceIfHalved, V!Pending
    <2> QED BY <2>2, <2>3, <2>4 DEF VoiceInv
  <1>2. VoiceInv /\ [Next]_vars => VoiceInv'
    BY VoiceStep
  <1>3. VoiceInv => VoiceHolds
    <2> SUFFICES ASSUME VoiceInv PROVE V!TypeOK /\ V!RelayedOnceIfHalved
      BY DEF VoiceHolds, V!QueueHolds
    <2>1. ASSUME NEW i \in DOMAIN voipPacket
          PROVE voipPacket[i] = V!NoPacket \/
                  (voipPacket[i].id \in 1..MaxVoice /\ voipPacket[i].len \in Lengths)
      <3>1. voipPacket[i] \in VoicePacket
        BY DEF VoiceInv, VoiceType
      <3> QED BY <3>1 DEF VoicePacket
    <2> QED BY <2>1 DEF VoiceInv, VoiceType, V!TypeOK
  <1> QED BY <1>1, <1>2, <1>3, PTL DEF Spec

-----------------------------------------------------------------------------
(* The master server's table *)

\* c lists the elements of `of`, each once.
Enumerates(c, of) ==
    /\ \A k \in 1..Len(c) : c[k] \in of
    /\ \A i \in of : \E k \in 1..Len(c) : c[k] = i
    /\ \A j, k \in 1..Len(c) : c[j] = c[k] => j = k

LEMMA KeptEnumerates ==
    ASSUME NEW Elem, NEW c \in Seq(Elem), NEW of, NEW out, Enumerates(c, of)
    PROVE  Kept(c, out) \in Seq(Elem) /\ Enumerates(Kept(c, out), of \ out)
  <1> DEFINE t == Kept(c, out)
  <1>1. t \in Seq(Elem) /\ Sifted(t, c, Len(c), out)
    BY KeptSifts
  <1> HIDE DEF t
  <1>2. \A k \in 1..Len(t) : t[k] \in of \ out
    BY <1>1 DEF Sifted, Enumerates
  <1>3. \A i \in of \ out : \E k \in 1..Len(t) : t[k] = i
    BY <1>1 DEF Sifted, Enumerates
  <1>4. ASSUME NEW j \in 1..Len(t), NEW k \in 1..Len(t), j < k PROVE t[j] # t[k]
    <2>1. PICK m \in 1..Len(c), n \in 1..Len(c) : m < n /\ t[j] = c[m] /\ t[k] = c[n]
      BY <1>1, <1>4 DEF Sifted
    <2>2. m # n
      BY <2>1
    <2> QED BY <2>1, <2>2 DEF Enumerates
  <1>5. \A j, k \in 1..Len(t) : t[j] = t[k] => j = k
    <2> SUFFICES ASSUME NEW j \in 1..Len(t), NEW k \in 1..Len(t), j # k PROVE t[j] # t[k]
      OBVIOUS
    <2>1. j < k \/ k < j
      OBVIOUS
    <2> QED BY <2>1, <1>4
  <1> QED BY <1>1, <1>2, <1>3, <1>5 DEF t, Enumerates

LEMMA ToppedEnumerates ==
    ASSUME NEW Elem, NEW c \in Seq(Elem), NEW of, NEW e \in Elem, Enumerates(c, of)
    PROVE  <<e>> \o Kept(c, {e}) \in Seq(Elem) /\ Enumerates(<<e>> \o Kept(c, {e}), of \cup {e})
  <1> DEFINE t == Kept(c, {e})
             u == <<e>> \o t
  <1>1. t \in Seq(Elem) /\ Enumerates(t, of \ {e})
    BY KeptEnumerates
  <1> HIDE DEF t
  <1>2. /\ u \in Seq(Elem) /\ Len(u) = Len(t) + 1 /\ u[1] = e
        /\ \A k \in 2..Len(t) + 1 : u[k] = t[k - 1]
    BY <1>1
  <1>3. Len(t) \in Nat /\ \A k \in 1..Len(t) + 1 : k = 1 \/ (k \in 2..Len(t) + 1 /\ k - 1 \in 1..Len(t))
    BY <1>1
  <1>4. \A k \in 1..Len(t) : k + 1 \in 2..Len(t) + 1 /\ k + 1 \in 1..Len(t) + 1 /\ (k + 1) - 1 = k
    BY <1>3
  <1>5. 1 \in 1..Len(t) + 1
    BY <1>3
  <1> HIDE DEF u
  <1>6. \A k \in 1..Len(u) : u[k] \in of \cup {e}
    BY <1>1, <1>2, <1>3 DEF Enumerates
  <1>7. \A i \in of \cup {e} : \E k \in 1..Len(u) : u[k] = i
    <2>1. ASSUME NEW i \in of \ {e} PROVE \E k \in 1..Len(u) : u[k] = i
      <3>1. PICK k \in 1..Len(t) : t[k] = i
        BY <1>1 DEF Enumerates
      <3> QED BY <3>1, <1>2, <1>4
    <2> QED BY <2>1, <1>2, <1>5
  <1>8. \A j, k \in 1..Len(u) : u[j] = u[k] => j = k
    <2> SUFFICES ASSUME NEW j \in 1..Len(u), NEW k \in 1..Len(u), u[j] = u[k] PROVE j = k
      OBVIOUS
    <2>1. \A m \in 1..Len(t) : t[m] # e
      BY <1>1 DEF Enumerates
    <2>2. CASE j = 1 /\ k # 1
      BY <2>1, <2>2, <1>2, <1>3
    <2>3. CASE j # 1 /\ k = 1
      BY <2>1, <2>3, <1>2, <1>3
    <2>4. CASE j # 1 /\ k # 1
      <3>1. j - 1 \in 1..Len(t) /\ k - 1 \in 1..Len(t) /\ t[j - 1] = t[k - 1]
        BY <2>4, <1>2, <1>3
      <3>2. j - 1 = k - 1
        BY <3>1, <1>1 DEF Enumerates
      <3> QED BY <3>2, <1>2
    <2> QED BY <2>2, <2>3, <2>4
  <1> QED BY <1>2, <1>6, <1>7, <1>8 DEF u, t, Enumerates

\* What an entry of the table holds.
AnEntry == [address : Addresses, active : BOOLEAN, timeout : 0..MaxMasterTime + TIMEOUT_INFORESPONSE,
            challenge : 0..MaxMasterTime, known : BOOLEAN]

\* The table and its chains: E!TableWhole, without counting.
Whole(table, entries) ==
    /\ table \in [E!Hashes -> Seq(E!Slot)]
    /\ entries \in [E!Slot -> AnEntry]
    /\ \A h \in E!Hashes :
          Enumerates(table[h], {i \in E!Slot : entries[i].active /\ Hash[entries[i].address] = h})
    /\ \A i, j \in E!Slot : i # j /\ entries[i].active /\ entries[j].active
                              => entries[i].address # entries[j].address

\* Challenges are not from the future, and who is known has answered one: of
\* the entries that are timed out, too.
Answered(e, clock, newest) ==
    /\ e.challenge <= clock
    /\ e.known => /\ newest[e.address] # E!Never
                  /\ e.timeout <= newest[e.address] + TIMEOUT_CHALLENGE + TIMEOUT_INFORESPONSE

MasterInv ==
    /\ crt_time \in 1..MaxMasterTime /\ last_alloc \in E!Slot
    /\ asked \in [Addresses -> SUBSET (1..MaxMasterTime)]
    /\ listeners \in [Addresses -> 0..MaxMasterTime]
    /\ Whole(hash_table, servers)
    /\ \A i \in E!Slot : Answered(servers[i], crt_time, listeners)

LEMMA NoEntryIs == E!NoEntry \in AnEntry /\ E!NoEntry.active = FALSE /\ E!NoEntry.known = FALSE /\ E!NoEntry.challenge = 0
  <1>1. (CHOOSE a \in Addresses : TRUE) \in Addresses
    BY MasterInstance DEF E!MasterAssumption
  <1>2. 0 \in 0..MaxMasterTime /\ 0 \in 0..MaxMasterTime + TIMEOUT_INFORESPONSE
    BY MasterInstance DEF E!MasterAssumption
  <1> QED BY <1>1, <1>2 DEF E!NoEntry, E!Entry, E!Never, AnEntry

\* Removing entries keeps the table whole.
LEMMA WithoutWhole ==
    ASSUME MasterInv, NEW removed
    PROVE  /\ Whole(E!Without(removed).table, E!Without(removed).servers)
           /\ \A i \in E!Slot : /\ E!Without(removed).servers[i] = IF i \in removed THEN E!NoEntry ELSE servers[i]
                                /\ Answered(E!Without(removed).servers[i], crt_time, listeners)
  <1> DEFINE table == [h \in E!Hashes |-> Kept(hash_table[h], removed)]
             entries == [i \in E!Slot |-> IF i \in removed THEN E!NoEntry ELSE servers[i]]
  <1>1. E!Without(removed).table = table /\ E!Without(removed).servers = entries
    BY DEF E!Without, E!Kept, Kept
  <1>2. Whole(hash_table, servers)
    BY DEF MasterInv
  <1>3. \A i \in E!Slot : entries[i] = IF i \in removed THEN E!NoEntry ELSE servers[i]
    OBVIOUS
  <1>4. entries \in [E!Slot -> AnEntry]
    BY <1>2, NoEntryIs DEF Whole
  <1>5. ASSUME NEW h \in E!Hashes
        PROVE /\ table[h] \in Seq(E!Slot)
              /\ Enumerates(table[h], {i \in E!Slot : entries[i].active /\ Hash[entries[i].address] = h})
    <2> DEFINE of == {i \in E!Slot : servers[i].active /\ Hash[servers[i].address] = h}
    <2>1. hash_table[h] \in Seq(E!Slot) /\ Enumerates(hash_table[h], of)
      BY <1>2 DEF Whole
    <2>2. {i \in E!Slot : entries[i].active /\ Hash[entries[i].address] = h} = of \ removed
      <3> HIDE DEF entries
      <3> QED BY <1>3, NoEntryIs
    <2> HIDE DEF of, entries
    <2>3. Kept(hash_table[h], removed) \in Seq(E!Slot) /\ Enumerates(Kept(hash_table[h], removed), of \ removed)
      <3> DEFINE elem == E!Slot
      <3>1. hash_table[h] \in Seq(elem)
        BY <2>1
      <3> HIDE DEF elem
      <3>2. Kept(hash_table[h], removed) \in Seq(elem) /\ Enumerates(Kept(hash_table[h], removed), of \ removed)
        BY <2>1, <3>1, KeptEnumerates
      <3> QED BY <3>2 DEF elem
    <2> QED BY <2>2, <2>3
  <1>6. table \in [E!Hashes -> Seq(E!Slot)]
    BY <1>5
  <1>7. \A i, j \in E!Slot : i # j /\ entries[i].active /\ entries[j].active
                               => entries[i].address # entries[j].address
    <2> HIDE DEF entries
    <2> QED BY <1>2, <1>3, NoEntryIs DEF Whole
  <1>8. \A i \in E!Slot : Answered(entries[i], crt_time, listeners)
    <2>1. Answered(E!NoEntry, crt_time, listeners)
      BY NoEntryIs DEF Answered, MasterInv
    <2> HIDE DEF entries
    <2> QED BY <1>3, <2>1 DEF MasterInv
  <1> HIDE DEF table, entries
  <1>9. Whole(table, entries)
    BY <1>4, <1>5, <1>6, <1>7 DEF Whole
  <1> QED BY <1>1, <1>3, <1>8, <1>9

\* An entry is put on top of the chain of its address: one that had its place in
\* the table, or a new one for an address that has none.
LEMMA ToppedWhole ==
    ASSUME NEW table, NEW entries, NEW i \in E!Slot, NEW e \in AnEntry, Whole(table, entries),
           e.active, entries[i].active => entries[i].address = e.address,
           \A j \in E!Slot : j # i /\ entries[j].active => entries[j].address # e.address
    PROVE  Whole([table EXCEPT ![Hash[e.address]] = E!OnTop(@, i)], [entries EXCEPT ![i] = e])
  <1> DEFINE top == Hash[e.address]
             chains == [table EXCEPT ![top] = E!OnTop(@, i)]
             put == [entries EXCEPT ![i] = e]
             Of(es, h) == {j \in E!Slot : es[j].active /\ Hash[es[j].address] = h}
  <1>1. /\ table \in [E!Hashes -> Seq(E!Slot)] /\ entries \in [E!Slot -> AnEntry]
        /\ top \in E!Hashes
    BY DEF Whole, AnEntry, E!Hashes
  <1>2. put \in [E!Slot -> AnEntry] /\ \A j \in E!Slot : put[j] = IF j = i THEN e ELSE entries[j]
    BY <1>1
  <1>3. \A h \in E!Hashes : Enumerates(table[h], Of(entries, h))
    BY DEF Whole
  <1>4. Of(put, top) = Of(entries, top) \cup {i}
    <2> HIDE DEF put
    <2> QED BY <1>2
  <1>5. \A h \in E!Hashes : h # top => Of(put, h) = Of(entries, h)
    <2> HIDE DEF put
    <2> QED BY <1>2
  <1>6. E!OnTop(table[top], i) \in Seq(E!Slot) /\ Enumerates(E!OnTop(table[top], i), Of(put, top))
    <2> DEFINE elem == E!Slot
               of == Of(entries, top)
    <2>1. table[top] \in Seq(elem) /\ i \in elem /\ Enumerates(table[top], of)
      BY <1>1, <1>3
    <2>2. E!OnTop(table[top], i) = <<i>> \o Kept(table[top], {i})
      BY DEF E!OnTop, E!Kept, Kept
    <2> HIDE DEF elem, of, put, top
    <2>3. <<i>> \o Kept(table[top], {i}) \in Seq(elem) /\ Enumerates(<<i>> \o Kept(table[top], {i}), of \cup {i})
      BY <2>1, ToppedEnumerates
    <2> QED BY <2>2, <2>3, <1>4 DEF elem, of
  <1>7. \A h \in E!Hashes : chains[h] = IF h = top THEN E!OnTop(table[top], i) ELSE table[h]
    BY <1>1
  <1>8. chains \in [E!Hashes -> Seq(E!Slot)]
    <2> HIDE DEF top
    <2> QED BY <1>1, <1>6
  <1>9. \A h \in E!Hashes : Enumerates(chains[h], Of(put, h))
    <2> HIDE DEF chains, put, top, Of
    <2> QED BY <1>3, <1>5, <1>6, <1>7
  <1>10. \A j, k \in E!Slot : j # k /\ put[j].active /\ put[k].active => put[j].address # put[k].address
    <2>1. \A j, k \in E!Slot : j # k /\ entries[j].active /\ entries[k].active
                                 => entries[j].address # entries[k].address
      BY DEF Whole
    <2> HIDE DEF put
    <2> QED BY <1>2, <2>1
  <1> HIDE DEF chains, put
  <1>11. Whole(chains, put)
    BY <1>2, <1>8, <1>9, <1>10 DEF Whole
  <1> QED BY <1>11 DEF chains, put

\* What an entry says beside whose it is does not matter for the chains.
LEMMA SameWhole ==
    ASSUME NEW table, NEW entries, NEW others \in [E!Slot -> AnEntry], Whole(table, entries),
           \A i \in E!Slot : others[i].active = entries[i].active /\ others[i].address = entries[i].address
    PROVE  Whole(table, others)
  <1>1. \A h \in E!Hashes : {i \in E!Slot : others[i].active /\ Hash[others[i].address] = h}
                             = {i \in E!Slot : entries[i].active /\ Hash[entries[i].address] = h}
    OBVIOUS
  <1> QED BY <1>1 DEF Whole

LEMMA SlotMod == ASSUME MasterInv, NEW n \in Nat PROVE (last_alloc + n) % MaxServers \in E!Slot
  <1>1. last_alloc + n \in Nat /\ MaxServers \in Nat \ {0}
    BY MasterInstance DEF E!MasterAssumption, MasterInv, E!Slot
  <1> DEFINE m == last_alloc + n
  <1> HIDE DEF m
  <1>2. m % MaxServers \in 0..MaxServers - 1
    BY <1>1 DEF m
  <1> QED BY <1>2 DEF m, E!Slot

\* The search for a free entry looks at every one.
LEMMA SlotReached == ASSUME MasterInv, NEW i \in E!Slot
                     PROVE \E n \in 1..MaxServers : (last_alloc + n) % MaxServers = i
  <1>1. MaxServers \in Nat \ {0} /\ last_alloc \in 0..MaxServers - 1 /\ i \in 0..MaxServers - 1
    BY MasterInstance DEF E!MasterAssumption, MasterInv, E!Slot
  <1>2. CASE last_alloc < i
    <2>1. i - last_alloc \in 1..MaxServers /\ last_alloc + (i - last_alloc) = i
      BY <1>1, <1>2
    <2>2. i % MaxServers = i
      BY <1>1
    <2> QED BY <2>1, <2>2
  <1>3. CASE i <= last_alloc
    <2>1. (i + MaxServers) - last_alloc \in 1..MaxServers
          /\ last_alloc + ((i + MaxServers) - last_alloc) = i + MaxServers
      BY <1>1, <1>3
    <2>2. (i + MaxServers) % MaxServers = i
      BY <1>1
    <2> QED BY <2>1, <2>2
  <1> QED BY <1>1, <1>2, <1>3

\* What the search of an address leaves of the table: where it finds the address
\* that is its only entry, and where it does not it has none.
LEMMA FoundOnly ==
    ASSUME MasterInv, NEW a \in Addresses, NEW i \in E!Found(a)
    PROVE  /\ i \in E!Slot /\ servers[i].active /\ servers[i].address = a /\ i \notin E!Passed(a)
           /\ E!Without(E!Passed(a)).servers[i] = servers[i]
           /\ \A j \in E!Slot : j # i /\ E!Without(E!Passed(a)).servers[j].active
                                  => E!Without(E!Passed(a)).servers[j].address # a
  <1>1. i \in E!Slot /\ servers[i].active /\ servers[i].address = a /\ ~E!Expired(i)
    BY DEF E!Found, E!Has
  <1>2. \A j \in E!Passed(a) : E!Expired(j)
    BY DEF E!Passed
  <1>3. i \notin E!Passed(a)
    BY <1>1, <1>2
  <1>4. \A j \in E!Slot : E!Without(E!Passed(a)).servers[j] = IF j \in E!Passed(a) THEN E!NoEntry ELSE servers[j]
    BY WithoutWhole
  <1>5. \A j, k \in E!Slot : j # k /\ servers[j].active /\ servers[k].active
                               => servers[j].address # servers[k].address
    BY DEF MasterInv, Whole
  <1>6. ASSUME NEW j \in E!Slot, j # i, E!Without(E!Passed(a)).servers[j].active
        PROVE E!Without(E!Passed(a)).servers[j].address # a
    <2>1. E!Without(E!Passed(a)).servers[j] = servers[j]
      BY <1>4, <1>6, NoEntryIs
    <2> QED BY <2>1, <1>1, <1>5, <1>6
  <1> QED BY <1>1, <1>3, <1>4, <1>6

LEMMA NotFound ==
    ASSUME MasterInv, NEW a \in Addresses, E!Found(a) = {}, NEW j \in E!Slot,
           E!Without(E!Passed(a)).servers[j].active
    PROVE  E!Without(E!Passed(a)).servers[j].address # a
  <1> SUFFICES ASSUME E!Without(E!Passed(a)).servers[j].address = a PROVE FALSE
    OBVIOUS
  <1> DEFINE chain == hash_table[Hash[a]]
             of == {i \in E!Slot : servers[i].active /\ Hash[servers[i].address] = Hash[a]}
  <1>1. E!Without(E!Passed(a)).servers[j] = IF j \in E!Passed(a) THEN E!NoEntry ELSE servers[j]
    BY WithoutWhole
  <1>2. j \notin E!Passed(a) /\ servers[j].active /\ servers[j].address = a
    BY <1>1, NoEntryIs
  <1>3. Hash[a] \in E!Hashes
    BY DEF E!Hashes
  <1>4. chain \in Seq(E!Slot) /\ Enumerates(chain, of)
    BY <1>3 DEF MasterInv, Whole
  <1>5. \A i \in of : i \in E!Slot /\ servers[i].active
    OBVIOUS
  <1>6. j \in of
    BY <1>2
  <1> HIDE DEF chain, of
  <1>7. PICK n \in 1..Len(chain) : chain[n] = j
    BY <1>4, <1>6 DEF Enumerates
  <1>8. E!Expired(j)
    BY <1>2 DEF E!Found, E!Has
  <1>9. ASSUME NEW m \in 1..n - 1 PROVE ~E!Has(chain[m], a)
    <2>1. m \in 1..Len(chain)
      BY <1>4
    <2>2. chain[m] \in of
      BY <2>1, <1>4 DEF Enumerates
    <2> QED BY <2>2, <1>5 DEF E!Found
  <1>10. DOMAIN chain = 1..Len(chain)
    BY <1>4
  <1>11. j \in E!Passed(a)
    BY <1>7, <1>8, <1>9, <1>10 DEF E!Passed, chain
  <1> QED BY <1>2, <1>11

LEMMA BeatenIs ==
    ASSUME MasterInv, NEW e \in AnEntry, Answered(e, crt_time, listeners)
    PROVE  /\ E!Beaten(e) \in AnEntry /\ Answered(E!Beaten(e), crt_time, listeners)
           /\ E!Beaten(e).address = e.address /\ E!Beaten(e).active = e.active
           /\ E!Beaten(e).challenge \in 1..MaxMasterTime
  <1> DEFINE timeout == IF e.known THEN e.timeout ELSE crt_time + TIMEOUT_HEARTBEAT
             challenge == IF E!Outdated(e) THEN crt_time ELSE e.challenge
  <1>1. E!Beaten(e) = [e EXCEPT !.timeout = timeout, !.challenge = challenge]
    BY DEF E!Beaten
  <1>2. crt_time \in 1..MaxMasterTime /\ crt_time \in Nat
    BY MasterInstance DEF MasterInv, E!MasterAssumption
  <1>3. timeout \in 0..MaxMasterTime + TIMEOUT_INFORESPONSE
    BY <1>2, MasterInstance DEF E!MasterAssumption, AnEntry
  <1>4. challenge \in 1..MaxMasterTime /\ challenge <= crt_time
    <2>1. e.challenge \in 0..MaxMasterTime /\ e.challenge <= crt_time
      BY DEF AnEntry, Answered
    <2>2. ~E!Outdated(e) => e.challenge # 0
      BY DEF E!Outdated, E!Never
    <2> QED BY <1>2, <2>1, <2>2, MasterInstance DEF E!MasterAssumption
  <1>5. challenge \in 0..MaxMasterTime
    BY <1>4, MasterInstance DEF E!MasterAssumption
  <1>6. e.known => timeout = e.timeout
    OBVIOUS
  <1> HIDE DEF timeout, challenge
  <1>7. /\ E!Beaten(e) \in AnEntry /\ E!Beaten(e).address = e.address /\ E!Beaten(e).active = e.active
        /\ E!Beaten(e).known = e.known
        /\ E!Beaten(e).timeout = timeout /\ E!Beaten(e).challenge = challenge
    BY <1>1, <1>3, <1>5 DEF AnEntry
  <1> QED BY <1>4, <1>6, <1>7 DEF Answered

\* Entry e may be put into slot i: it is that of e's address, or free and no
\* other is.
MayPut(entries, i, e) ==
    /\ entries[i].active => entries[i].address = e.address
    /\ \A j \in E!Slot : j # i /\ entries[j].active => entries[j].address # e.address

AllAnswered(entries, clock, newest) == \A j \in E!Slot : Answered(entries[j], clock, newest)

LEMMA BeatsKeep ==
    ASSUME MasterInv, NEW table, NEW rest, NEW i \in E!Slot, NEW e \in AnEntry,
           Whole(table, rest), AllAnswered(rest, crt_time, listeners),
           e.active, Answered(e, crt_time, listeners), MayPut(rest, i, e),
           E!Beats(rest, table, i, e), UNCHANGED <<crt_time, listeners>>, last_alloc' \in E!Slot
    PROVE  MasterInv'
  <1> DEFINE b == E!Beaten(e)
  <1>1. /\ b \in AnEntry /\ Answered(b, crt_time, listeners)
        /\ b.address = e.address /\ b.active /\ b.challenge \in 1..MaxMasterTime
    BY BeatenIs
  <1>2. /\ servers' = [rest EXCEPT ![i] = b]
        /\ hash_table' = [table EXCEPT ![Hash[b.address]] = E!OnTop(@, i)]
        /\ asked' = [asked EXCEPT ![e.address] = @ \cup {b.challenge}]
    BY <1>1 DEF E!Beats
  <1> HIDE DEF b
  <1>3. Whole(hash_table', servers')
    <2>1. /\ rest[i].active => rest[i].address = b.address
          /\ \A j \in E!Slot : j # i /\ rest[j].active => rest[j].address # b.address
      BY <1>1 DEF MayPut
    <2> QED BY <1>1, <1>2, <2>1, ToppedWhole
  <1>4. rest \in [E!Slot -> AnEntry]
    BY DEF Whole
  <1>5. \A j \in E!Slot : Answered(servers'[j], crt_time', listeners')
    BY <1>1, <1>2, <1>4 DEF AllAnswered
  <1>6. asked' \in [Addresses -> SUBSET (1..MaxMasterTime)]
    BY <1>1, <1>2 DEF MasterInv
  <1> QED BY <1>3, <1>5, <1>6 DEF MasterInv

LEMMA HeartbeatKeeps == ASSUME MasterInv, NEW a \in Addresses, E!Heartbeat(a) PROVE MasterInv'
  <1> DEFINE table == E!Without(E!Passed(a)).table
             rest == E!Without(E!Passed(a)).servers
             free == E!FreeSlots(rest)
             n == CHOOSE k \in free : \A m \in free : k <= m
             i == (last_alloc + n) % MaxServers
  <1>1. UNCHANGED <<crt_time, listeners>>
    BY DEF E!Heartbeat
  <1>2. Whole(table, rest) /\ AllAnswered(rest, crt_time, listeners)
    BY WithoutWhole DEF AllAnswered
  <1>3. servers \in [E!Slot -> AnEntry] /\ \A j \in E!Slot : Answered(servers[j], crt_time, listeners)
    BY DEF MasterInv, Whole
  <1>4. ASSUME NEW j \in E!Found(a), E!Beats(rest, table, j, servers[j]), UNCHANGED last_alloc
        PROVE MasterInv'
    <2>1. /\ j \in E!Slot /\ servers[j].active /\ servers[j].address = a /\ rest[j] = servers[j]
          /\ \A k \in E!Slot : k # j /\ rest[k].active => rest[k].address # a
      BY FoundOnly
    <2>2. servers[j] \in AnEntry /\ Answered(servers[j], crt_time, listeners)
      BY <2>1, <1>3
    <2>3. last_alloc' \in E!Slot
      BY <1>4 DEF MasterInv
    <2>4. PICK e : e = servers[j]
      OBVIOUS
    <2>5. e \in AnEntry /\ Answered(e, crt_time, listeners) /\ e.active /\ j \in E!Slot
      BY <2>1, <2>2, <2>4
    <2>6. MayPut(rest, j, e)
      BY <2>1, <2>4 DEF MayPut
    <2>7. E!Beats(rest, table, j, e)
      BY <2>4, <1>4
    <2> HIDE DEF table, rest, free, n, i
    <2> QED BY <2>3, <2>5, <2>6, <2>7, <1>1, <1>2, BeatsKeep
  <1>5. ASSUME E!Found(a) = {}, free # {},
               E!Beats(E!Without(E!Passed(a) \cup {i}).servers, E!Without(E!Passed(a) \cup {i}).table, i, E!Entry(a)),
               last_alloc' = i
        PROVE MasterInv'
    <2>1. n \in Nat
      <3>1. free \in SUBSET Nat
        BY DEF E!FreeSlots
      <3>2. \E k \in free : \A m \in free : k <= m
        <4> HIDE DEF free
        <4> QED BY <3>1, <1>5, LeastOf
      <3> QED BY <3>1, <3>2
    <2> HIDE DEF n
    <2>2. i \in E!Slot
      BY <2>1, SlotMod
    <2> HIDE DEF i, free
    <2> DEFINE tab == E!Without(E!Passed(a) \cup {i}).table
               lef == E!Without(E!Passed(a) \cup {i}).servers
    <2>3. /\ Whole(tab, lef) /\ AllAnswered(lef, crt_time, listeners)
          /\ \A j \in E!Slot : lef[j] = IF j \in E!Passed(a) \cup {i} THEN E!NoEntry ELSE servers[j]
      BY WithoutWhole DEF AllAnswered
    <2>4. \A j \in E!Slot : rest[j] = IF j \in E!Passed(a) THEN E!NoEntry ELSE servers[j]
      BY WithoutWhole
    <2> HIDE DEF tab, lef, rest
    <2>5. ~lef[i].active
      BY <2>2, <2>3, NoEntryIs
    <2>6. ASSUME NEW j \in E!Slot, j # i, lef[j].active PROVE lef[j].address # a
      <3>1. lef[j] = rest[j]
        BY <2>3, <2>4, <2>6
      <3> QED BY <3>1, <2>6, <1>5, NotFound DEF rest
    <2>7. /\ E!Entry(a) \in AnEntry /\ E!Entry(a).active /\ E!Entry(a).address = a
          /\ Answered(E!Entry(a), crt_time, listeners)
      <3>1. 0 \in 0..MaxMasterTime /\ 0 \in 0..MaxMasterTime + TIMEOUT_INFORESPONSE /\ 0 <= crt_time
        BY MasterInstance DEF E!MasterAssumption, MasterInv
      <3> QED BY <3>1 DEF E!Entry, E!Never, AnEntry, Answered
    <2>8. last_alloc' \in E!Slot
      BY <1>5, <2>2
    <2>9. E!Beats(lef, tab, i, E!Entry(a))
      BY <1>5 DEF lef, tab
    <2>10. MayPut(lef, i, E!Entry(a))
      BY <2>5, <2>6, <2>7 DEF MayPut
    <2> QED BY <2>2, <2>3, <2>7, <2>8, <2>9, <2>10, <1>1, BeatsKeep
  <1>6. ASSUME servers' = rest, hash_table' = table, UNCHANGED <<last_alloc, asked>>
        PROVE MasterInv'
    BY <1>1, <1>2, <1>6 DEF MasterInv, AllAnswered
  <1> QED
    <2>1. \/ \E j \in E!Found(a) : E!Beats(rest, table, j, servers[j]) /\ UNCHANGED last_alloc
          \/ /\ E!Found(a) = {} /\ free # {}
             /\ E!Beats(E!Without(E!Passed(a) \cup {i}).servers, E!Without(E!Passed(a) \cup {i}).table, i, E!Entry(a))
             /\ last_alloc' = i
          \/ servers' = rest /\ hash_table' = table /\ UNCHANGED <<last_alloc, asked>>
      BY DEF E!Heartbeat
    <2> QED BY <2>1, <1>4, <1>5, <1>6

LEMMA LookedWhole ==
    ASSUME MasterInv, NEW a \in Addresses, E!Looked(a)
    PROVE  Whole(hash_table', E!Without(E!Passed(a)).servers)
  <1> DEFINE table == E!Without(E!Passed(a)).table
             rest == E!Without(E!Passed(a)).servers
  <1>1. Whole(table, rest)
    BY WithoutWhole
  <1>2. CASE E!Found(a) = {}
    BY <1>1, <1>2 DEF E!Looked
  <1>3. CASE E!Found(a) # {}
    <2> DEFINE i == CHOOSE j \in E!Found(a) : TRUE
    <2>1. i \in E!Found(a)
      BY <1>3
    <2>2. hash_table' = [table EXCEPT ![Hash[a]] = E!OnTop(@, i)]
      BY <1>3 DEF E!Looked
    <2> HIDE DEF i, table
    <2>3. /\ i \in E!Slot /\ servers[i].active /\ servers[i].address = a /\ rest[i] = servers[i]
          /\ \A k \in E!Slot : k # i /\ rest[k].active => rest[k].address # a
      BY <2>1, FoundOnly
    <2>4. PICK e : e = servers[i]
      OBVIOUS
    <2> HIDE DEF rest
    <2>5. e \in AnEntry /\ e.active /\ e.address = a
      BY <2>3, <2>4 DEF MasterInv, Whole
    <2>6. rest \in [E!Slot -> AnEntry]
      BY <1>1 DEF Whole
    <2>7. [rest EXCEPT ![i] = e] = rest
      BY <2>3, <2>4, <2>6
    <2>8. hash_table' = [table EXCEPT ![Hash[e.address]] = E!OnTop(@, i)]
      BY <2>2, <2>5
    <2>9. /\ rest[i].active => rest[i].address = e.address
          /\ \A k \in E!Slot : k # i /\ rest[k].active => rest[k].address # e.address
      BY <2>3, <2>5
    <2>10. Whole([table EXCEPT ![Hash[e.address]] = E!OnTop(@, i)], [rest EXCEPT ![i] = e])
      BY <1>1, <2>3, <2>5, <2>9, ToppedWhole
    <2> QED BY <2>7, <2>8, <2>10 DEF rest
  <1> QED BY <1>2, <1>3

\* Newer challenges may be answered, and time may pass.
LEMMA AnsweredLater ==
    ASSUME NEW e \in AnEntry, NEW clock \in Int, NEW later \in Int, clock <= later,
           NEW newest \in [Addresses -> 0..MaxMasterTime], NEW newer \in [Addresses -> 0..MaxMasterTime],
           \A a \in Addresses : newest[a] <= newer[a], Answered(e, clock, newest)
    PROVE  Answered(e, later, newer)
  <1>1. e.challenge \in Int /\ e.timeout \in Int /\ e.address \in Addresses
    BY MasterInstance DEF AnEntry, E!MasterAssumption
  <1>2. newest[e.address] \in 0..MaxMasterTime /\ newer[e.address] \in 0..MaxMasterTime
        /\ newest[e.address] <= newer[e.address]
    BY <1>1
  <1>3. e.challenge <= later
    BY <1>1 DEF Answered
  <1>4. ASSUME e.known PROVE newer[e.address] # 0 /\ e.timeout <= newer[e.address] + TIMEOUT_CHALLENGE + TIMEOUT_INFORESPONSE
    <2>1. newest[e.address] # 0 /\ e.timeout <= newest[e.address] + TIMEOUT_CHALLENGE + TIMEOUT_INFORESPONSE
      BY <1>4 DEF Answered, E!Never
    <2> QED BY <1>1, <1>2, <2>1, MasterInstance DEF E!MasterAssumption
  <1> QED BY <1>3, <1>4 DEF Answered, E!Never

LEMMA ResponseKeeps ==
    ASSUME MasterInv, NEW a \in Addresses, NEW c \in asked[a], E!InfoResponse(a, c)
    PROVE  MasterInv'
  <1> DEFINE rest == E!Without(E!Passed(a)).servers
             known(i) == [servers[i] EXCEPT !.known = TRUE, !.timeout = crt_time + TIMEOUT_INFORESPONSE]
  <1>1. /\ servers' = [i \in E!Slot |-> IF i \in E!Found(a) /\ E!IsAnswer(servers[i], c) THEN known(i) ELSE rest[i]]
        /\ listeners' = IF listeners[a] < c THEN [listeners EXCEPT ![a] = c] ELSE listeners
        /\ UNCHANGED <<crt_time, last_alloc, asked>>
    BY DEF E!InfoResponse
  <1>2. Whole(hash_table', rest)
    BY LookedWhole DEF E!InfoResponse
  <1>3. c \in 1..MaxMasterTime /\ crt_time \in 1..MaxMasterTime /\ listeners \in [Addresses -> 0..MaxMasterTime]
    BY DEF MasterInv
  <1>4. c \in 0..MaxMasterTime /\ crt_time \in Int
    BY <1>3
  <1>5. /\ listeners' \in [Addresses -> 0..MaxMasterTime] /\ c <= listeners'[a]
        /\ \A b \in Addresses : listeners[b] <= listeners'[b]
    <2>1. \A b \in Addresses : listeners[b] \in 0..MaxMasterTime
      BY <1>3
    <2>2. CASE listeners[a] < c
      <3>1. listeners' = [listeners EXCEPT ![a] = c]
        BY <1>1, <2>2
      <3>2. \A b \in Addresses : listeners'[b] = IF b = a THEN c ELSE listeners[b]
        BY <3>1, <1>3
      <3>3. listeners' \in [Addresses -> 0..MaxMasterTime]
        BY <3>1, <1>3, <1>4
      <3> QED BY <3>2, <3>3, <2>1, <2>2, <1>4
    <2>3. CASE ~(listeners[a] < c)
      <3>1. c \in Int /\ listeners[a] \in Int
        BY <1>3, <2>1
      <3>2. c <= listeners[a]
        BY <2>3, <3>1
      <3>3. listeners' = listeners /\ c <= listeners[a]
        BY <1>1, <2>3, <3>2
      <3>4. \A b \in Addresses : listeners[b] <= listeners[b]
        BY <2>1
      <3> QED BY <3>3, <3>4, <1>3
    <2> QED BY <2>2, <2>3
  <1>6. rest \in [E!Slot -> AnEntry] /\ AllAnswered(rest, crt_time, listeners)
    BY <1>2, WithoutWhole DEF Whole, AllAnswered
  <1>7. ASSUME NEW i \in E!Slot, i \in E!Found(a), E!IsAnswer(servers[i], c)
        PROVE /\ servers'[i] \in AnEntry /\ Answered(servers'[i], crt_time, listeners')
              /\ servers'[i].active = rest[i].active /\ servers'[i].address = rest[i].address
    <2>1. servers'[i] = known(i)
      BY <1>1, <1>7
    <2>2. servers[i].address = a /\ rest[i] = servers[i]
      BY <1>7, FoundOnly
    <2> HIDE DEF rest
    <2>3. servers[i] \in AnEntry /\ Answered(servers[i], crt_time, listeners)
      BY <1>6, <2>2 DEF AllAnswered
    <2>4. /\ servers[i].challenge = c /\ servers[i].challenge + TIMEOUT_CHALLENGE >= crt_time
      BY <1>7, <1>3, <2>3, MasterInstance DEF E!IsAnswer, E!Outdated, AnEntry, E!MasterAssumption
    <2>5. crt_time + TIMEOUT_INFORESPONSE \in 0..MaxMasterTime + TIMEOUT_INFORESPONSE
      BY <1>3, MasterInstance DEF E!MasterAssumption
    <2>6. known(i) \in AnEntry
      BY <2>3, <2>5 DEF AnEntry
    <2>7. /\ known(i).known /\ known(i).address = a /\ known(i).timeout = crt_time + TIMEOUT_INFORESPONSE
          /\ known(i).challenge = c /\ known(i).active = servers[i].active
      BY <2>2, <2>3, <2>4 DEF AnEntry
    <2>8. c <= crt_time
      BY <2>3, <2>4 DEF Answered
    <2>9. listeners'[a] \in 0..MaxMasterTime
      BY <1>5
    <2>10. /\ listeners'[a] # 0
           /\ crt_time + TIMEOUT_INFORESPONSE <= listeners'[a] + TIMEOUT_CHALLENGE + TIMEOUT_INFORESPONSE
      BY <1>3, <1>5, <2>4, <2>9, MasterInstance DEF E!MasterAssumption
    <2>11. Answered(known(i), crt_time, listeners')
      <3> HIDE DEF known
      <3> QED BY <2>7, <2>8, <2>10 DEF Answered, E!Never
    <2> QED BY <2>1, <2>2, <2>6, <2>7, <2>11
  <1>8. ASSUME NEW i \in E!Slot, ~(i \in E!Found(a) /\ E!IsAnswer(servers[i], c))
        PROVE /\ servers'[i] \in AnEntry /\ Answered(servers'[i], crt_time, listeners')
              /\ servers'[i].active = rest[i].active /\ servers'[i].address = rest[i].address
    <2>1. servers'[i] = rest[i]
      BY <1>1, <1>8
    <2> HIDE DEF rest
    <2>2. rest[i] \in AnEntry /\ Answered(rest[i], crt_time, listeners)
      BY <1>6 DEF AllAnswered
    <2>4. Answered(rest[i], crt_time, listeners')
      BY <1>3, <1>4, <1>5, <2>2, AnsweredLater
    <2> QED BY <2>1, <2>2, <2>4
  <1>9. DOMAIN servers' = E!Slot /\ servers' = [i \in E!Slot |-> servers'[i]]
    BY <1>1
  <1>10. servers' \in [E!Slot -> AnEntry]
    BY <1>7, <1>8, <1>9
  <1>11. Whole(hash_table', servers')
    <2>1. \A i \in E!Slot : servers'[i].active = rest[i].active /\ servers'[i].address = rest[i].address
      BY <1>7, <1>8
    <2> HIDE DEF rest
    <2> QED BY <1>2, <1>10, <2>1, SameWhole
  <1>12. \A i \in E!Slot : Answered(servers'[i], crt_time', listeners')
    BY <1>1, <1>7, <1>8
  <1> QED BY <1>1, <1>5, <1>11, <1>12 DEF MasterInv

LEMMA RefusedKeeps == ASSUME MasterInv, NEW a \in Addresses, E!Refused(a) PROVE MasterInv'
  <1>1. /\ Whole(hash_table', servers') /\ UNCHANGED <<crt_time, last_alloc, asked, listeners>>
        /\ servers' = E!Without(E!Passed(a)).servers
    BY LookedWhole DEF E!Refused
  <1>2. \A i \in E!Slot : Answered(servers'[i], crt_time, listeners)
    BY <1>1, WithoutWhole
  <1> QED BY <1>1, <1>2 DEF MasterInv

LEMMA GetServersKeeps == ASSUME MasterInv, E!GetServers PROVE MasterInv'
  <1> DEFINE removed == {i \in UNION {E!Visited(hash_table[h]) : h \in E!Hashes} : E!Expired(i)}
  <1>1. /\ servers' = E!Without(removed).servers /\ hash_table' = E!Without(removed).table
        /\ UNCHANGED <<crt_time, last_alloc, asked, listeners>>
    BY DEF E!GetServers
  <1> HIDE DEF removed
  <1>2. Whole(hash_table', servers') /\ \A i \in E!Slot : Answered(servers'[i], crt_time, listeners)
    BY <1>1, WithoutWhole
  <1> QED BY <1>1, <1>2 DEF MasterInv

LEMMA MasterSecondKeeps == ASSUME MasterInv, E!Second PROVE MasterInv'
  <1>1. /\ crt_time' \in 1..MaxMasterTime /\ crt_time <= crt_time' /\ crt_time \in Int /\ crt_time' \in Int
        /\ UNCHANGED <<servers, hash_table, last_alloc, asked, listeners>>
    BY MasterInstance DEF E!Second, MasterInv, E!MasterAssumption
  <1>2. servers \in [E!Slot -> AnEntry] /\ listeners \in [Addresses -> 0..MaxMasterTime]
    BY DEF MasterInv, Whole
  <1>3. ASSUME NEW i \in E!Slot PROVE Answered(servers[i], crt_time', listeners)
    <2>1. servers[i] \in AnEntry /\ Answered(servers[i], crt_time, listeners)
      BY <1>2 DEF MasterInv
    <2>2. \A a \in Addresses : listeners[a] <= listeners[a]
      BY <1>2
    <2> QED BY <1>1, <1>2, <2>1, <2>2, AnsweredLater
  <1> QED BY <1>1, <1>3 DEF MasterInv

LEMMA MasterStep == ASSUME MasterInv, [Next]_vars PROVE MasterInv'
  <1>1. CASE RunMaster
    <2>1. CASE \E a \in Addresses : E!Heartbeat(a)
      BY <2>1, HeartbeatKeeps
    <2>2. CASE \E a \in Addresses : \E c \in asked[a] : E!InfoResponse(a, c)
      BY <2>2, ResponseKeeps
    <2>3. CASE \E a \in Addresses : E!Refused(a)
      BY <2>3, RefusedKeeps
    <2>4. CASE E!GetServers
      BY <2>4, GetServersKeeps
    <2>5. CASE E!Second
      BY <2>5, MasterSecondKeeps
    <2> QED BY <1>1, <2>1, <2>2, <2>3, <2>4, <2>5 DEF RunMaster, E!Next
  <1>2. CASE UNCHANGED master
    BY <1>2 DEF master, MasterInv
  <1> QED BY <1>1, <1>2 DEF Next, vars, RunDownload, RunVoip, RunRate, RunHeap, RunSpawn, RunMaps, RunVotes,
            RunTime, RunAliens

\* A heartbeat that finds nothing and has no free entry has nothing to find.
LEMMA RefusedIfFull ==
    ASSUME MasterInv, NEW a \in Addresses, E!Found(a) = {},
           E!FreeSlots(E!Without(E!Passed(a)).servers) = {}, NEW i \in E!Slot
    PROVE  E!Live(i) /\ servers[i].address # a
  <1> DEFINE rest == E!Without(E!Passed(a)).servers
  <1>1. PICK n \in 1..MaxServers : (last_alloc + n) % MaxServers = i
    BY SlotReached
  <1>2. rest[i].active /\ ~(rest[i].timeout < crt_time)
    <2> HIDE DEF rest
    <2>1. E!FreeSlots(rest) = {}
      BY DEF rest
    <2> QED BY <1>1, <2>1 DEF E!FreeSlots
  <1>3. rest[i] = servers[i]
    <2>1. rest[i] = IF i \in E!Passed(a) THEN E!NoEntry ELSE servers[i]
      BY WithoutWhole
    <2> HIDE DEF rest
    <2> QED BY <2>1, <1>2, NoEntryIs
  <1>4. E!Live(i)
    BY <1>2, <1>3 DEF E!Live, E!Expired
  <1>5. servers[i].address # a
    BY <1>4 DEF E!Live, E!Found, E!Has
  <1> QED BY <1>4, <1>5

\* The number of places an element has in a list that has each of its own once.
LEMMA PlacesCounted ==
    ASSUME NEW c \in Seq(E!Slot), NEW of, Enumerates(c, of), NEW i \in E!Slot
    PROVE  Cardinality({k \in DOMAIN c : c[k] = i}) = IF i \in of THEN 1 ELSE 0
  <1> DEFINE places == {k \in DOMAIN c : c[k] = i}
  <1>1. DOMAIN c = 1..Len(c)
    OBVIOUS
  <1>2. CASE i \in of
    <2>1. PICK k \in 1..Len(c) : c[k] = i
      BY <1>2 DEF Enumerates
    <2>2. places = {k}
      BY <1>1, <2>1 DEF Enumerates
    <2>3. Cardinality({k}) = 1
      BY FS_Singleton
    <2> QED BY <1>2, <2>2, <2>3
  <1>3. CASE i \notin of
    <2>1. places = {}
      BY <1>1, <1>3 DEF Enumerates
    <2>2. Cardinality({}) = 0
      BY FS_EmptySet
    <2> QED BY <1>3, <2>1, <2>2
  <1> QED BY <1>2, <1>3

LEMMA SameCardinality == ASSUME NEW set PROVE E!Cardinality(set) = Cardinality(set)
  BY DEF E!Cardinality, Cardinality

LEMMA MasterHolds == ASSUME MasterInv PROVE E!TypeOK /\ E!TableWhole /\ E!ListedHaveAnswered /\ E!RefusedOnlyIfFull
  <1>1. /\ hash_table \in [E!Hashes -> Seq(E!Slot)] /\ servers \in [E!Slot -> AnEntry]
        /\ \A i \in E!Slot : Answered(servers[i], crt_time, listeners)
    BY DEF MasterInv, Whole
  <1>2. E!TypeOK
    <2>1. ASSUME NEW i \in E!Slot PROVE servers[i].challenge \in 0..crt_time
      <3>1. servers[i].challenge \in 0..MaxMasterTime /\ servers[i].challenge <= crt_time
        BY <1>1 DEF AnEntry, Answered
      <3> QED BY <3>1, MasterInstance DEF MasterInv, E!MasterAssumption
    <2>2. \A i \in E!Slot : /\ servers[i].address \in Addresses
                            /\ servers[i].timeout \in 0..MaxMasterTime + TIMEOUT_INFORESPONSE
      BY <1>1 DEF AnEntry
    <2> QED BY <1>1, <2>1, <2>2 DEF MasterInv, E!TypeOK
  <1>3. E!TableWhole
    <2>1. ASSUME NEW h \in E!Hashes, NEW i \in E!Slot
          PROVE Cardinality({k \in DOMAIN hash_table[h] : hash_table[h][k] = i})
                  = IF servers[i].active /\ Hash[servers[i].address] = h THEN 1 ELSE 0
      <3> DEFINE of == {j \in E!Slot : servers[j].active /\ Hash[servers[j].address] = h}
      <3>1. hash_table[h] \in Seq(E!Slot) /\ Enumerates(hash_table[h], of)
        BY DEF MasterInv, Whole
      <3>2. i \in of <=> servers[i].active /\ Hash[servers[i].address] = h
        OBVIOUS
      <3> HIDE DEF of
      <3>3. PICK c : c = hash_table[h]
        OBVIOUS
      <3>4. Cardinality({k \in DOMAIN c : c[k] = i}) = IF i \in of THEN 1 ELSE 0
        BY <3>1, <3>3, PlacesCounted
      <3> QED BY <3>2, <3>3, <3>4
    <2>2. \A i, j \in E!Slot : i # j /\ servers[i].active /\ servers[j].active
                                  => servers[i].address # servers[j].address
      BY DEF MasterInv, Whole
    <2>3. \A h \in E!Hashes, i \in E!Slot :
              Cardinality({k \in DOMAIN hash_table[h] : hash_table[h][k] = i})
                  = IF servers[i].active /\ Hash[servers[i].address] = h THEN 1 ELSE 0
      BY <2>1
    <2> QED BY <2>2, <2>3, SameCardinality, Zenon DEF E!TableWhole
  <1>4. E!ListedHaveAnswered
    BY <1>1 DEF E!ListedHaveAnswered, Answered
  <1>5. E!RefusedOnlyIfFull
    BY RefusedIfFull DEF E!RefusedOnlyIfFull
  <1> QED BY <1>2, <1>3, <1>4, <1>5

\* Whatever the size of the table, the hash and the timeouts: the chains are
\* whole, who is listed has answered a challenge in time, and a heartbeat is
\* refused only when every entry is another server's (HandleMessage,
\* HandleInfoResponse, Sv_GetByAddr).
THEOREM Servers == Spec => []ServersHold
  <1>1. Init => MasterInv
    <2> SUFFICES ASSUME Init PROVE MasterInv
      OBVIOUS
    <2>1. /\ crt_time = 1 /\ servers = [i \in E!Slot |-> E!NoEntry] /\ hash_table = [h \in E!Hashes |-> <<>>]
          /\ last_alloc = MaxServers - 1 /\ asked = [a \in Addresses |-> {}]
          /\ listeners = [a \in Addresses |-> 0]
      BY DEF Init, E!Init, E!Never
    <2>2. 1 \in 1..MaxMasterTime /\ 0 \in 0..MaxMasterTime /\ MaxServers - 1 \in E!Slot
      BY MasterInstance DEF E!MasterAssumption, E!Slot
    <2>3. Whole(hash_table, servers)
      <3>1. hash_table \in [E!Hashes -> Seq(E!Slot)] /\ servers \in [E!Slot -> AnEntry]
        BY <2>1, NoEntryIs
      <3>2. \A i \in E!Slot : ~servers[i].active
        BY <2>1, NoEntryIs
      <3>3. \A h \in E!Hashes : hash_table[h] = <<>>
        BY <2>1
      <3>4. \A h \in E!Hashes : {i \in E!Slot : servers[i].active /\ Hash[servers[i].address] = h} = {}
        BY <3>2
      <3>5. Enumerates(<<>>, {})
        BY DEF Enumerates
      <3> QED BY <3>1, <3>2, <3>3, <3>4, <3>5 DEF Whole
    <2>4. \A i \in E!Slot : Answered(servers[i], crt_time, listeners)
      BY <2>1, NoEntryIs DEF Answered
    <2> QED BY <2>1, <2>2, <2>3, <2>4 DEF MasterInv
  <1>2. MasterInv /\ [Next]_vars => MasterInv'
    BY MasterStep
  <1>3. MasterInv => ServersHold
    BY MasterHolds DEF ServersHold
  <1> QED BY <1>1, <1>2, <1>3, PTL DEF Spec

-----------------------------------------------------------------------------
(* Rate limits: the chains *)

ABucket == [address : QueryAddresses \cup {0}, lastTime : 0..MaxQueryTime, burst : 0..Burst,
            prev : 0..MAX_BUCKETS, next : 0..MAX_BUCKETS]

\* The buckets from head on are those of c, and point to each other.
Linked(c, head, bs) ==
    /\ head = IF c = <<>> THEN 0 ELSE c[1]
    /\ \A k \in 1..Len(c) : /\ bs[c[k]].next = IF k = Len(c) THEN 0 ELSE c[k + 1]
                            /\ bs[c[k]].prev = IF k = 1 THEN 0 ELSE c[k - 1]

LEMMA BucketNumbers == MAX_BUCKETS \in Nat /\ R!Bucket = 1..MAX_BUCKETS /\ 0 \notin R!Bucket
  BY RateLimitInstance DEF R!RateLimitAssumption, R!Bucket

\* Elements that are different are not more than there are.
LEMMA ShortEnough ==
    ASSUME NEW c \in Seq(R!Bucket), \A j, k \in 1..Len(c) : c[j] = c[k] => j = k
    PROVE  Len(c) <= MAX_BUCKETS
  <1>1. c \in Injection(1..Len(c), R!Bucket)
    <2>1. c \in [1..Len(c) -> R!Bucket]
      OBVIOUS
    <2> QED BY <2>1 DEF Injection, IsInjective
  <1>2. IsFiniteSet(R!Bucket) /\ Cardinality(R!Bucket) = MAX_BUCKETS
    <2>1. IsFiniteSet(1..MAX_BUCKETS) /\ Cardinality(1..MAX_BUCKETS) = MAX_BUCKETS
      BY BucketNumbers, FS_Interval
    <2> QED BY <2>1, BucketNumbers
  <1>3. Cardinality(1..Len(c)) <= MAX_BUCKETS
    BY <1>1, <1>2, FS_Injection
  <1>4. Len(c) \in Nat /\ Cardinality(1..Len(c)) = Len(c)
    <2>1. Len(c) \in Nat
      OBVIOUS
    <2>2. Cardinality(1..Len(c)) = IF 1 > Len(c) THEN 0 ELSE Len(c) - 1 + 1
      BY <2>1, FS_Interval
    <2> QED BY <2>1, <2>2
  <1> QED BY <1>3, <1>4

\* Following the pointers from the head of a chain gives the chain.
LEMMA ChainIs ==
    ASSUME NEW heads, NEW bs, NEW h, NEW c \in Seq(R!Bucket), Linked(c, heads[h], bs),
           Len(c) <= MAX_BUCKETS
    PROVE  R!Chain(heads, bs, h) = c
  <1> DEFINE max == MAX_BUCKETS
             first(n) == [k \in 1..(IF n + 1 <= Len(c) THEN n + 1 ELSE Len(c)) |-> c[k]]
             value(f, n) == IF n = 0 THEN (IF heads[h] = 0 THEN <<>> ELSE <<heads[h]>>)
                            ELSE LET w == f[n - 1]
                                     last == w[Len(w)]
                                 IN  IF w = <<>> \/ bs[last].next = 0 THEN w ELSE Append(w, bs[last].next)
             Fits(f) == f = [n \in 0..max |-> value(f, n)]
             walked == [n \in 0..max |-> first(n)]
  <1>1. Len(c) \in Nat /\ max \in Nat /\ \A k \in 1..Len(c) : c[k] \in R!Bucket /\ c[k] # 0
    BY BucketNumbers
  <1>2. ASSUME NEW w, w = first(0) PROVE w = IF heads[h] = 0 THEN <<>> ELSE <<heads[h]>>
    <2>1. CASE c = <<>>
      <3>1. w = [k \in 1..0 |-> c[k]] /\ heads[h] = 0
        BY <1>2, <2>1 DEF Linked
      <3> QED BY <3>1
    <2>2. CASE c # <<>>
      <3>1. 1 \in 1..Len(c) /\ 1 <= Len(c)
        BY <2>2
      <3>2. w = [k \in 1..1 |-> c[k]] /\ heads[h] = c[1] /\ c[1] # 0
        BY <1>1, <1>2, <2>2, <3>1 DEF Linked
      <3>3. [k \in 1..1 |-> c[k]] = <<c[1]>>
        OBVIOUS
      <3> QED BY <3>2, <3>3
    <2> QED BY <2>1, <2>2
  <1>3. ASSUME NEW n \in 1..max, NEW w, w = first(n - 1)
        PROVE first(n) = IF w = <<>> \/ bs[w[Len(w)]].next = 0 THEN w ELSE Append(w, bs[w[Len(w)]].next)
    <2>1. n \in Nat /\ n >= 1 /\ (n - 1) + 1 = n
      BY <1>1
    <2>2. CASE n + 1 <= Len(c)
      <3>1. w = [k \in 1..n |-> c[k]] /\ first(n) = [k \in 1..n + 1 |-> c[k]]
        BY <1>3, <2>1, <2>2, <1>1
      <3>2. w \in Seq(R!Bucket) /\ Len(w) = n /\ w[n] = c[n] /\ w # <<>>
        <4>1. \A k \in 1..n : c[k] \in R!Bucket
          BY <1>1, <2>1, <2>2
        <4> QED BY <3>1, <4>1, <2>1
      <3>3. n \in 1..Len(c) /\ n # Len(c) /\ n + 1 \in 1..Len(c)
        BY <1>1, <2>1, <2>2
      <3>4. bs[c[n]].next = c[n + 1] /\ c[n + 1] # 0 /\ c[n + 1] \in R!Bucket
        BY <1>1, <3>3 DEF Linked
      <3>5. w[Len(w)] = c[n]
        BY <3>2
      <3>6. Append(w, c[n + 1]) = [k \in 1..n + 1 |-> c[k]]
        <4>1. Append(w, c[n + 1]) = [k \in 1..n + 1 |-> IF k = n + 1 THEN c[n + 1] ELSE w[k]]
          <5> HIDE DEF first
          <5>1. Append(w, c[n + 1]) = [k \in 1..Len(w) + 1 |-> IF k = Len(w) + 1 THEN c[n + 1] ELSE w[k]]
            BY <3>2, <3>4, AppendIs
          <5> QED BY <5>1, <3>2
        <4>2. \A k \in 1..n + 1 : (IF k = n + 1 THEN c[n + 1] ELSE w[k]) = c[k]
          BY <3>1, <2>1
        <4> QED BY <4>1, <4>2
      <3> QED BY <3>1, <3>2, <3>4, <3>5, <3>6
    <2>3. CASE ~(n + 1 <= Len(c))
      <3>1. n >= Len(c)
        BY <1>1, <2>1, <2>3
      <3>2. w = [k \in 1..Len(c) |-> c[k]] /\ first(n) = w
        BY <1>1, <1>3, <2>1, <2>3, <3>1
      <3>3. w = c
        BY <3>2
      <3>4. CASE c = <<>>
        BY <3>2, <3>3, <3>4
      <3>5. CASE c # <<>>
        <4>1. Len(c) \in 1..Len(c)
          BY <3>5
        <4>2. bs[c[Len(c)]].next = 0
          BY <4>1 DEF Linked
        <4> QED BY <3>2, <3>3, <4>2
      <3> QED BY <3>4, <3>5
    <2> QED BY <2>2, <2>3
  <1>4. Fits(walked)
    <2>1. ASSUME NEW n \in 0..max PROVE first(n) = value(walked, n)
      <3>1. CASE n = 0
        <4>1. first(0) = IF heads[h] = 0 THEN <<>> ELSE <<heads[h]>>
          BY <1>2
        <4> HIDE DEF first
        <4> QED BY <3>1, <4>1
      <3>2. CASE n # 0
        <4>1. n \in 1..max /\ n - 1 \in 0..max
          BY <1>1, <3>2
        <4> HIDE DEF first
        <4>2. walked[n - 1] = first(n - 1)
          BY <4>1
        <4> QED BY <4>1, <4>2, <1>3, <3>2
      <3> QED BY <3>1, <3>2
    <2> HIDE DEF first, value
    <2> QED BY <2>1
  <1>5. ASSUME NEW f, Fits(f) PROVE f = walked
    <2>1. DOMAIN f = 0..max /\ f = [n \in 0..max |-> f[n]] /\ \A n \in 0..max : f[n] = value(f, n)
      <3> HIDE DEF value
      <3> QED BY <1>5
    <2> DEFINE Good == {n \in Nat : n <= max => f[n] = first(n)}
    <2>2. 0 \in Good
      <3>1. 0 \in 0..max /\ first(0) = IF heads[h] = 0 THEN <<>> ELSE <<heads[h]>>
        BY <1>1, <1>2
      <3> HIDE DEF first, Fits
      <3> QED BY <2>1, <3>1
    <2>3. ASSUME NEW n \in Good PROVE n + 1 \in Good
      <3>1. SUFFICES ASSUME n + 1 <= max PROVE f[n + 1] = first(n + 1)
        OBVIOUS
      <3>2. /\ f[n] = first(n) /\ n + 1 \in 1..max /\ n + 1 \in 0..max /\ (n + 1) - 1 = n /\ n + 1 # 0
        BY <1>1, <3>1
      <3> HIDE DEF first, Good, Fits
      <3>3. f[n + 1] = value(f, n + 1)
        BY <2>1, <3>2
      <3> QED BY <3>2, <3>3, <1>3
    <2>4. Good = Nat
      <3> HIDE DEF Good
      <3>1. Good \subseteq Nat
        BY DEF Good
      <3> QED BY <2>2, <2>3, <3>1, Induction
    <2>5. \A n \in 0..max : f[n] = first(n)
      <3> HIDE DEF first
      <3> QED BY <1>1, <2>4
    <2> HIDE DEF first, Fits, value, Good
    <2> QED BY <2>1, <2>5
  <1>6. R!Chain(heads, bs, h) = walked[max]
    <2> HIDE DEF first, walked
    <2> QED BY <1>4, <1>5 DEF R!Chain
  <1>7. walked[max] = first(max) /\ first(max) = c
    <2>1. max \in 0..max /\ ~(max + 1 <= Len(c))
      BY <1>1
    <2>2. first(max) = [k \in 1..Len(c) |-> c[k]]
      BY <2>1
    <2> HIDE DEF first
    <2>3. first(max) = c
      BY <2>2
    <2> QED BY <2>1, <2>3
  <1> QED BY <1>6, <1>7

LEMMA LinkedSame ==
    ASSUME NEW c \in Seq(R!Bucket), NEW head, NEW bs, NEW others, Linked(c, head, bs),
           \A k \in 1..Len(c) : others[c[k]].next = bs[c[k]].next /\ others[c[k]].prev = bs[c[k]].prev
    PROVE  Linked(c, head, others)
  BY DEF Linked

\* The buckets beside place p point to each other.
Bridged(c, p, bs, others) ==
    \A k \in 1..Len(c) : k # p =>
        /\ others[c[k]].next = IF c[k] = bs[c[p]].prev THEN bs[c[p]].next ELSE bs[c[k]].next
        /\ others[c[k]].prev = IF c[k] = bs[c[p]].next THEN bs[c[p]].prev ELSE bs[c[k]].prev

\* The bucket at place p is taken out.
LEMMA UnlinkedChain ==
    ASSUME NEW c \in Seq(R!Bucket), NEW of, NEW head, NEW bs, NEW others, NEW p \in 1..Len(c),
           Enumerates(c, of), Linked(c, head, bs), Bridged(c, p, bs, others)
    PROVE  \E d \in Seq(R!Bucket) :
              /\ Enumerates(d, of \ {c[p]})
              /\ Linked(d, IF bs[c[p]].prev = 0 THEN bs[c[p]].next ELSE head, others)
  <1> DEFINE n == Len(c)
             Place(k) == IF k < p THEN k ELSE k + 1
             d == [k \in 1..n - 1 |-> c[Place(k)]]
  <1>1. n \in Nat /\ n >= 1 /\ n - 1 \in Nat /\ p \in Nat /\ p >= 1 /\ p <= n
    OBVIOUS
  <1>2. \A k \in 1..n : c[k] \in R!Bucket /\ c[k] # 0
    BY BucketNumbers
  <1>3. \A j, k \in 1..n : c[j] = c[k] => j = k
    BY DEF Enumerates
  <1>4. /\ bs[c[p]].next = IF p = n THEN 0 ELSE c[p + 1]
        /\ bs[c[p]].prev = IF p = 1 THEN 0 ELSE c[p - 1]
    BY DEF Linked
  <1>5. \A k \in 1..n - 1 : Place(k) \in 1..n /\ Place(k) # p
    BY <1>1
  <1>6. d \in Seq(R!Bucket) /\ Len(d) = n - 1 /\ \A k \in 1..n - 1 : d[k] = c[Place(k)]
    <2> HIDE DEF Place, n
    <2>1. d \in [1..n - 1 -> R!Bucket]
      BY <1>2, <1>5
    <2> QED BY <1>1, <2>1
  <1> HIDE DEF d, n
  <1>7. Enumerates(d, of \ {c[p]})
    <2>1. ASSUME NEW k \in 1..Len(d) PROVE d[k] \in of \ {c[p]}
      <3>1. Place(k) \in 1..n /\ Place(k) # p /\ d[k] = c[Place(k)]
        BY <1>5, <1>6
      <3> HIDE DEF Place
      <3> QED BY <3>1, <1>1, <1>3 DEF Enumerates, n
    <2>2. ASSUME NEW i \in of \ {c[p]} PROVE \E k \in 1..Len(d) : d[k] = i
      <3>1. PICK k \in 1..n : c[k] = i
        BY DEF Enumerates, n
      <3>2. CASE k < p
        <4>1. k \in 1..n - 1 /\ Place(k) = k
          BY <1>1, <3>2
        <4> QED BY <4>1, <1>6, <3>1
      <3>3. CASE ~(k < p)
        <4>1. k # p
          BY <3>1
        <4>2. k - 1 \in 1..n - 1 /\ Place(k - 1) = k
          BY <1>1, <3>3, <4>1
        <4> QED BY <4>2, <1>6, <3>1
      <3> QED BY <3>2, <3>3
    <2>3. ASSUME NEW j \in 1..Len(d), NEW k \in 1..Len(d), d[j] = d[k] PROVE j = k
      <3>1. j \in 1..n - 1 /\ k \in 1..n - 1
        BY <1>6
      <3>2. Place(j) = Place(k)
        <4> HIDE DEF Place
        <4> QED BY <1>3, <1>5, <1>6, <2>3, <3>1
      <3> QED BY <1>1, <3>1, <3>2
    <2> QED BY <2>1, <2>2, <2>3 DEF Enumerates
  <1>8. \A k \in 1..n : k # p =>
           /\ others[c[k]].next = IF k = p - 1 THEN bs[c[p]].next ELSE bs[c[k]].next
           /\ others[c[k]].prev = IF k = p + 1 THEN bs[c[p]].prev ELSE bs[c[k]].prev
    <2> SUFFICES ASSUME NEW k \in 1..n, k # p
                 PROVE /\ others[c[k]].next = IF k = p - 1 THEN bs[c[p]].next ELSE bs[c[k]].next
                       /\ others[c[k]].prev = IF k = p + 1 THEN bs[c[p]].prev ELSE bs[c[k]].prev
      OBVIOUS
    <2>1. c[k] = bs[c[p]].prev <=> k = p - 1
      <3>1. CASE p = 1
        BY <1>1, <1>2, <1>4, <3>1
      <3>2. CASE p # 1
        <4>1. p - 1 \in 1..n
          BY <1>1, <3>2
        <4> QED BY <1>3, <1>4, <3>2, <4>1
      <3> QED BY <3>1, <3>2
    <2>2. c[k] = bs[c[p]].next <=> k = p + 1
      <3>1. CASE p = n
        BY <1>1, <1>2, <1>4, <3>1
      <3>2. CASE p # n
        <4>1. p + 1 \in 1..n
          BY <1>1, <3>2
        <4> QED BY <1>3, <1>4, <3>2, <4>1
      <3> QED BY <3>1, <3>2
    <2> QED BY <2>1, <2>2 DEF n, Bridged
  <1>9. \A k \in 1..n : /\ bs[c[k]].next = IF k = n THEN 0 ELSE c[k + 1]
                        /\ bs[c[k]].prev = IF k = 1 THEN 0 ELSE c[k - 1]
    BY DEF Linked, n
  <1>10. ASSUME NEW k \in 1..n - 1
         PROVE others[d[k]].next = IF k = n - 1 THEN 0 ELSE d[k + 1]
    <2>0. k \in Nat /\ k >= 1 /\ k <= n - 1
      BY <1>1
    <2>1. CASE k < p - 1
      <3>1. k \in 1..n /\ k # p /\ k # p - 1 /\ k # n /\ k # n - 1 /\ k + 1 \in 1..n - 1
            /\ Place(k) = k /\ Place(k + 1) = k + 1
        BY <1>1, <2>0, <2>1
      <3> HIDE DEF Place
      <3> QED BY <1>6, <1>8, <1>9, <3>1
    <2>2. CASE k = p - 1
      <3>1. /\ k \in 1..n /\ k # p /\ Place(k) = k
            /\ k # n - 1 => k + 1 \in 1..n - 1 /\ Place(k + 1) = p + 1
            /\ k = n - 1 <=> p = n
        BY <1>1, <2>0, <2>2
      <3> HIDE DEF Place
      <3> QED BY <1>4, <1>6, <1>8, <2>2, <3>1
    <2>3. CASE k >= p
      <3>1. /\ k + 1 \in 1..n /\ k + 1 # p /\ k + 1 # p - 1 /\ Place(k) = k + 1
            /\ k # n - 1 => k + 1 \in 1..n - 1 /\ Place(k + 1) = (k + 1) + 1
            /\ k = n - 1 <=> k + 1 = n
        BY <1>1, <2>0, <2>3
      <3> HIDE DEF Place
      <3> QED BY <1>6, <1>8, <1>9, <3>1
    <2> QED BY <1>1, <2>0, <2>1, <2>2, <2>3
  <1>11. ASSUME NEW k \in 1..n - 1
         PROVE others[d[k]].prev = IF k = 1 THEN 0 ELSE d[k - 1]
    <2>0. k \in Nat /\ k >= 1 /\ k <= n - 1
      BY <1>1
    <2>1. CASE k < p
      <3>1. /\ k \in 1..n /\ k # p /\ k # p + 1 /\ Place(k) = k
            /\ k # 1 => k - 1 \in 1..n - 1 /\ Place(k - 1) = k - 1
        BY <1>1, <2>0, <2>1
      <3> HIDE DEF Place
      <3> QED BY <1>6, <1>8, <1>9, <3>1
    <2>2. CASE k = p
      <3>1. /\ k + 1 \in 1..n /\ k + 1 # p /\ k + 1 = p + 1 /\ Place(k) = k + 1
            /\ k # 1 => k - 1 \in 1..n - 1 /\ Place(k - 1) = p - 1
        BY <1>1, <2>0, <2>2
      <3> HIDE DEF Place
      <3> QED BY <1>4, <1>6, <1>8, <2>2, <3>1
    <2>3. CASE k > p
      <3>1. /\ k + 1 \in 1..n /\ k + 1 # p /\ k + 1 # p + 1 /\ k + 1 # 1 /\ Place(k) = k + 1
            /\ k # 1 /\ k - 1 \in 1..n - 1 /\ Place(k - 1) = k /\ (k + 1) - 1 = k
        BY <1>1, <2>0, <2>3
      <3> HIDE DEF Place
      <3> QED BY <1>6, <1>8, <1>9, <3>1
    <2> QED BY <1>1, <2>0, <2>1, <2>2, <2>3
  <1>12. (IF bs[c[p]].prev = 0 THEN bs[c[p]].next ELSE head) = IF d = <<>> THEN 0 ELSE d[1]
    <2>1. d = <<>> <=> n = 1
      BY <1>1, <1>6
    <2>2. CASE p = 1
      <3>1. n # 1 => 1 \in 1..n - 1 /\ Place(1) = 2
        BY <1>1, <2>2
      <3>2. p = n <=> n = 1
        BY <2>2
      <3> HIDE DEF Place
      <3> QED BY <1>4, <1>6, <2>1, <2>2, <3>1, <3>2
    <2>3. CASE p # 1
      <3>1. /\ 1 \in 1..n - 1 /\ Place(1) = 1 /\ n # 1 /\ p - 1 \in 1..n
        BY <1>1, <2>3
      <3>2. c # <<>> /\ head = c[1]
        BY <1>1 DEF Linked, n
      <3> HIDE DEF Place
      <3> QED BY <1>2, <1>4, <1>6, <2>1, <2>3, <3>1, <3>2
    <2> QED BY <2>2, <2>3
  <1>13. Linked(d, IF bs[c[p]].prev = 0 THEN bs[c[p]].next ELSE head, others)
    <2> HIDE DEF Place
    <2> QED BY <1>6, <1>10, <1>11, <1>12 DEF Linked
  <1> QED BY <1>6, <1>7, <1>13

\* Bucket i and what was the first one point to each other.
Headed(c, i, head, bs, others) ==
    /\ others[i].next = head /\ others[i].prev = 0
    /\ \A k \in 1..Len(c) : /\ others[c[k]].next = bs[c[k]].next
                            /\ others[c[k]].prev = IF c[k] = head THEN i ELSE bs[c[k]].prev

\* A bucket is put before the others.
LEMMA ToppedChain ==
    ASSUME NEW c \in Seq(R!Bucket), NEW of, NEW head, NEW bs, NEW others, NEW i \in R!Bucket, i \notin of,
           Enumerates(c, of), Linked(c, head, bs), Headed(c, i, head, bs, others)
    PROVE  \E d \in Seq(R!Bucket) : Enumerates(d, of \cup {i}) /\ Linked(d, i, others)
  <1> DEFINE d == <<i>> \o c
             n == Len(c)
  <1>1. n \in Nat /\ d \in Seq(R!Bucket) /\ Len(d) = n + 1 /\ d[1] = i /\ \A k \in 2..n + 1 : d[k] = c[k - 1]
    OBVIOUS
  <1>2. \A k \in 1..n : c[k] \in R!Bucket /\ c[k] # 0 /\ c[k] \in of
    BY BucketNumbers DEF Enumerates
  <1>3. \A j, k \in 1..n : c[j] = c[k] => j = k
    BY DEF Enumerates
  <1>4. \A k \in 1..n + 1 : k = 1 \/ (k \in 2..n + 1 /\ k - 1 \in 1..n)
    BY <1>1
  <1>5. \A k \in 1..n : k + 1 \in 2..n + 1 /\ k + 1 \in 1..n + 1 /\ (k + 1) - 1 = k
    BY <1>1
  <1>6. 1 \in 1..n + 1
    BY <1>1
  <1> HIDE DEF d
  <1>7. Enumerates(d, of \cup {i})
    <2>1. \A k \in 1..Len(d) : d[k] \in of \cup {i}
      BY <1>1, <1>2, <1>4
    <2>2. ASSUME NEW e \in of PROVE \E k \in 1..Len(d) : d[k] = e
      <3>1. PICK k \in 1..n : c[k] = e
        BY DEF Enumerates
      <3>2. k + 1 \in 1..Len(d) /\ d[k + 1] = c[k]
        BY <1>1, <1>5
      <3> QED BY <3>1, <3>2
    <2>3. ASSUME NEW j \in 1..Len(d), NEW k \in 1..Len(d), d[j] = d[k] PROVE j = k
      <3>1. CASE j = 1 /\ k # 1
        BY <3>1, <2>3, <1>1, <1>2, <1>4
      <3>2. CASE j # 1 /\ k = 1
        BY <3>2, <2>3, <1>1, <1>2, <1>4
      <3>3. CASE j # 1 /\ k # 1
        <4>1. j - 1 \in 1..n /\ k - 1 \in 1..n /\ c[j - 1] = c[k - 1]
          BY <3>3, <2>3, <1>1, <1>4
        <4>2. j - 1 = k - 1
          BY <4>1, <1>3
        <4> QED BY <4>2, <1>1
      <3> QED BY <3>1, <3>2, <3>3
    <2> QED BY <2>1, <2>2, <2>3, <1>1, <1>6 DEF Enumerates
  <1>8. \A k \in 1..n : c[k] = head <=> k = 1
    <2>1. CASE n = 0
      BY <2>1
    <2>2. CASE n # 0
      <3>1. 1 \in 1..n /\ c # <<>>
        BY <1>1, <2>2
      <3>2. head = c[1]
        BY <3>1 DEF Linked
      <3> HIDE DEF n
      <3> QED BY <3>1, <3>2, <1>3
    <2> QED BY <2>1, <2>2
  <1>9. ASSUME NEW k \in 1..n + 1
        PROVE /\ others[d[k]].next = IF k = n + 1 THEN 0 ELSE d[k + 1]
              /\ others[d[k]].prev = IF k = 1 THEN 0 ELSE d[k - 1]
    <2>1. CASE k = 1
      <3>1. k = n + 1 <=> c = <<>>
        BY <2>1
      <3>2. others[d[k]].next = head /\ others[d[k]].prev = 0 /\ head = IF c = <<>> THEN 0 ELSE c[1]
        BY <2>1, <1>1 DEF Linked, Headed
      <3>3. c # <<>> => k + 1 \in 2..n + 1 /\ (k + 1) - 1 = 1
        BY <2>1
      <3> HIDE DEF n
      <3> QED BY <2>1, <1>1, <3>1, <3>2, <3>3
    <2>2. CASE k # 1
      <3>1. /\ k \in 2..n + 1 /\ k - 1 \in 1..n /\ d[k] = c[k - 1]
        BY <1>1, <1>4, <2>2
      <3>2. /\ others[d[k]].next = IF k - 1 = n THEN 0 ELSE c[(k - 1) + 1]
            /\ others[d[k]].prev = IF k - 1 = 1 THEN i ELSE c[(k - 1) - 1]
        <4>1. /\ others[c[k - 1]].next = bs[c[k - 1]].next
              /\ others[c[k - 1]].prev = IF c[k - 1] = head THEN i ELSE bs[c[k - 1]].prev
          BY <3>1 DEF Headed
        <4>2. /\ bs[c[k - 1]].next = IF k - 1 = n THEN 0 ELSE c[(k - 1) + 1]
              /\ bs[c[k - 1]].prev = IF k - 1 = 1 THEN 0 ELSE c[(k - 1) - 1]
          BY <3>1 DEF Linked
        <4>3. c[k - 1] = head <=> k - 1 = 1
          BY <3>1, <1>8
        <4> HIDE DEF n
        <4> QED BY <3>1, <4>1, <4>2, <4>3
      <3> HIDE DEF n
      <3>3. k - 1 = n <=> k = n + 1
        BY <1>1, <3>1
      <3>4. k # n + 1 => k + 1 \in 2..n + 1 /\ (k + 1) - 1 = (k - 1) + 1
        BY <1>1, <3>1
      <3>5. k - 1 = 1 => d[k - 1] = i
        BY <1>1
      <3>6. k - 1 # 1 => k - 1 \in 2..n + 1
        BY <1>1, <3>1
      <3> QED BY <1>1, <2>2, <3>2, <3>3, <3>4, <3>5, <3>6
    <2> QED BY <2>1, <2>2
  <1>10. d # <<>>
    BY <1>1
  <1>11. Linked(d, i, others)
    <2> HIDE DEF n
    <2> QED BY <1>1, <1>9, <1>10 DEF Linked
  <1> QED BY <1>1, <1>7, <1>11

\* The addresses of a hash, in a chain of their own.
Of(bs, h) == {i \in R!Bucket : bs[i].address # 0 /\ QueryHash[bs[i].address] = h}

Chained(chains, heads, bs) ==
    \A h \in R!Hashes : Enumerates(chains[h], Of(bs, h)) /\ Linked(chains[h], heads[h], bs)

\* The array and its chains: R!ChainsExact, with the chains as sequences.
WellChained(heads, bs) ==
    /\ bs \in [R!Bucket -> ABucket] /\ heads \in [R!Hashes -> 0..MAX_BUCKETS]
    /\ \E chains \in [R!Hashes -> Seq(R!Bucket)] : Chained(chains, heads, bs)
    /\ \A i, j \in R!Bucket : i # j /\ bs[i].address # 0 => bs[i].address # bs[j].address

\* Where addresses and pointers stay, the chains do.
LEMMA SameChains ==
    ASSUME NEW heads, NEW bs, NEW others \in [R!Bucket -> ABucket], WellChained(heads, bs),
           \A i \in R!Bucket : /\ others[i].address = bs[i].address
                               /\ others[i].next = bs[i].next /\ others[i].prev = bs[i].prev
    PROVE  WellChained(heads, others)
  <1>1. PICK chains \in [R!Hashes -> Seq(R!Bucket)] : Chained(chains, heads, bs)
    BY DEF WellChained
  <1>2. ASSUME NEW h \in R!Hashes
        PROVE  Enumerates(chains[h], Of(others, h)) /\ Linked(chains[h], heads[h], others)
    <2>1. /\ Enumerates(chains[h], Of(bs, h)) /\ Linked(chains[h], heads[h], bs)
          /\ chains[h] \in Seq(R!Bucket)
      BY <1>1 DEF Chained
    <2>2. Of(others, h) = Of(bs, h)
      BY DEF Of
    <2>3. Linked(chains[h], heads[h], others)
      <3>1. \A k \in 1..Len(chains[h]) : chains[h][k] \in R!Bucket
        BY <2>1
      <3>2. PICK c \in Seq(R!Bucket) : c = chains[h]
        BY <2>1
      <3>3. \A k \in 1..Len(c) : others[c[k]].next = bs[c[k]].next /\ others[c[k]].prev = bs[c[k]].prev
        BY <3>1, <3>2
      <3> QED BY <2>1, <3>2, <3>3, LinkedSame
    <2> QED BY <2>1, <2>2, <2>3
  <1>3. Chained(chains, heads, others)
    BY <1>2 DEF Chained
  <1> QED BY <1>1, <1>3 DEF WellChained

\* A bucket that is taken out of its chain leaves the others whole.
LEMMA UnlinkedWell ==
    ASSUME NEW heads, NEW bs, NEW i \in R!Bucket, WellChained(heads, bs), bs[i].address # 0
    PROVE  LET s == R!Unlinked([buckets |-> bs, heads |-> heads], i)
           IN  /\ WellChained(s.heads, s.buckets) /\ s.buckets[i].address = 0
               /\ \A j \in R!Bucket : j # i => /\ s.buckets[j].address = bs[j].address
                                               /\ s.buckets[j].lastTime = bs[j].lastTime
                                               /\ s.buckets[j].burst = bs[j].burst
  <1> DEFINE b == bs[i]
             own == QueryHash[b.address]
             bs1 == [bs EXCEPT ![i] = R!Free]
             bs2 == IF b.prev # 0 THEN [bs1 EXCEPT ![b.prev].next = b.next] ELSE bs1
             bs3 == IF b.next # 0 THEN [bs2 EXCEPT ![b.next].prev = b.prev] ELSE bs2
             heads2 == IF b.prev = 0 THEN [heads EXCEPT ![own] = b.next] ELSE heads
  <1>1. /\ R!Unlinked([buckets |-> bs, heads |-> heads], i).buckets = bs3
        /\ R!Unlinked([buckets |-> bs, heads |-> heads], i).heads = heads2
    BY DEF R!Unlinked
  <1>2. /\ bs \in [R!Bucket -> ABucket] /\ heads \in [R!Hashes -> 0..MAX_BUCKETS]
        /\ b \in ABucket /\ b.address \in QueryAddresses /\ own \in R!Hashes
        /\ b.next \in 0..MAX_BUCKETS /\ b.prev \in 0..MAX_BUCKETS
    <2>1. bs \in [R!Bucket -> ABucket] /\ heads \in [R!Hashes -> 0..MAX_BUCKETS]
      BY DEF WellChained
    <2>2. b \in ABucket
      BY <2>1
    <2>3. b.address \in QueryAddresses /\ b.next \in 0..MAX_BUCKETS /\ b.prev \in 0..MAX_BUCKETS
      BY <2>2 DEF ABucket
    <2> QED BY <2>1, <2>2, <2>3 DEF R!Hashes
  <1>3. R!Free \in ABucket /\ R!Free.address = 0
    BY BucketNumbers, RateLimitInstance DEF R!Free, ABucket, R!RateLimitAssumption
  <1>4. PICK chains \in [R!Hashes -> Seq(R!Bucket)] : Chained(chains, heads, bs)
    BY DEF WellChained
  <1>5. PICK c \in Seq(R!Bucket) : c = chains[own]
    BY <1>2, <1>4
  <1>6. Enumerates(c, Of(bs, own)) /\ Linked(c, heads[own], bs)
    BY <1>2, <1>4, <1>5 DEF Chained
  <1>7. PICK p \in 1..Len(c) : c[p] = i
    <2>1. i \in Of(bs, own)
      BY DEF Of
    <2> QED BY <1>6, <2>1 DEF Enumerates
  <1>8. /\ b.next # i /\ b.next # 0 => \E k \in 1..Len(c) : c[k] = b.next
        /\ b.prev # i /\ b.prev # 0 => \E k \in 1..Len(c) : c[k] = b.prev
    <2>1. /\ b.next = IF p = Len(c) THEN 0 ELSE c[p + 1]
          /\ b.prev = IF p = 1 THEN 0 ELSE c[p - 1]
      BY <1>6, <1>7 DEF Linked
    <2>2. Len(c) \in Nat /\ p \in Nat /\ i # 0
      BY BucketNumbers
    <2>3. \A j, k \in 1..Len(c) : c[j] = c[k] => j = k
      BY <1>6 DEF Enumerates
    <2>4. p # Len(c) => p + 1 \in 1..Len(c) /\ p + 1 # p
      BY <2>2
    <2>5. p # 1 => p - 1 \in 1..Len(c) /\ p - 1 # p
      BY <2>2
    <2> HIDE DEF b
    <2> QED BY <2>1, <2>2, <2>3, <2>4, <2>5, <1>7
  <1>9. \A j \in R!Bucket : bs1[j] = IF j = i THEN R!Free ELSE bs[j]
    BY <1>2
  <1>10. bs1 \in [R!Bucket -> ABucket]
    BY <1>2, <1>3
  <1>11. b.next # 0 => b.next \in R!Bucket
    BY <1>2, BucketNumbers
  <1>12. b.prev # 0 => b.prev \in R!Bucket
    BY <1>2, BucketNumbers
  <1> HIDE DEF b, own, bs1
  <1>13. /\ bs2 \in [R!Bucket -> ABucket]
         /\ \A j \in R!Bucket : /\ bs2[j].address = bs1[j].address /\ bs2[j].lastTime = bs1[j].lastTime
                                /\ bs2[j].burst = bs1[j].burst /\ bs2[j].prev = bs1[j].prev
                                /\ bs2[j].next = IF j = b.prev THEN b.next ELSE bs1[j].next
    <2>1. CASE b.prev = 0
      BY <1>10, <2>1, BucketNumbers
    <2>2. CASE b.prev # 0
      <3>1. b.prev \in R!Bucket /\ b.next \in 0..MAX_BUCKETS
        BY <1>2, <1>12, <2>2
      <3>2. PICK r : r = [bs1[b.prev] EXCEPT !.next = b.next]
        OBVIOUS
      <3>3. bs2 = [bs1 EXCEPT ![b.prev] = r]
        BY <2>2, <3>2
      <3>4. bs1[b.prev] \in ABucket
        BY <3>1, <1>10
      <3>5. /\ r \in ABucket /\ r.address = bs1[b.prev].address /\ r.lastTime = bs1[b.prev].lastTime
            /\ r.burst = bs1[b.prev].burst /\ r.prev = bs1[b.prev].prev /\ r.next = b.next
        BY <3>1, <3>2, <3>4 DEF ABucket
      <3> HIDE DEF bs2
      <3> QED BY <1>10, <3>1, <3>3, <3>5
    <2> QED BY <2>1, <2>2
  <1> HIDE DEF bs2
  <1>14. /\ bs3 \in [R!Bucket -> ABucket]
         /\ \A j \in R!Bucket : /\ bs3[j].address = bs2[j].address /\ bs3[j].lastTime = bs2[j].lastTime
                                /\ bs3[j].burst = bs2[j].burst /\ bs3[j].next = bs2[j].next
                                /\ bs3[j].prev = IF j = b.next THEN b.prev ELSE bs2[j].prev
    <2>1. CASE b.next = 0
      BY <1>13, <2>1, BucketNumbers
    <2>2. CASE b.next # 0
      <3>1. b.next \in R!Bucket /\ b.prev \in 0..MAX_BUCKETS
        BY <1>2, <1>11, <2>2
      <3>2. PICK r : r = [bs2[b.next] EXCEPT !.prev = b.prev]
        OBVIOUS
      <3>3. bs3 = [bs2 EXCEPT ![b.next] = r]
        BY <2>2, <3>2
      <3>4. bs2[b.next] \in ABucket
        BY <3>1, <1>13
      <3>5. /\ r \in ABucket /\ r.address = bs2[b.next].address /\ r.lastTime = bs2[b.next].lastTime
            /\ r.burst = bs2[b.next].burst /\ r.next = bs2[b.next].next /\ r.prev = b.prev
        BY <3>1, <3>2, <3>4 DEF ABucket
      <3> HIDE DEF bs3
      <3> QED BY <1>13, <3>1, <3>3, <3>5
    <2> QED BY <2>1, <2>2
  <1> HIDE DEF bs3
  <1>15. \A j \in R!Bucket : j # i =>
            /\ bs3[j].address = bs[j].address /\ bs3[j].lastTime = bs[j].lastTime /\ bs3[j].burst = bs[j].burst
            /\ bs3[j].next = (IF j = b.prev THEN b.next ELSE bs[j].next)
            /\ bs3[j].prev = (IF j = b.next THEN b.prev ELSE bs[j].prev)
    BY <1>9, <1>13, <1>14
  <1>16. bs3[i].address = 0
    BY <1>3, <1>9, <1>13, <1>14
  <1>17. heads2 \in [R!Hashes -> 0..MAX_BUCKETS]
         /\ \A h \in R!Hashes : heads2[h] = IF h = own /\ b.prev = 0 THEN b.next ELSE heads[h]
    BY <1>2
  <1> HIDE DEF heads2
  <1>18. PICK d \in Seq(R!Bucket) :
            /\ Enumerates(d, Of(bs, own) \ {c[p]})
            /\ Linked(d, IF bs[c[p]].prev = 0 THEN bs[c[p]].next ELSE heads[own], bs3)
    <2>1. ASSUME NEW k \in 1..Len(c), k # p
          PROVE /\ bs3[c[k]].next = IF c[k] = bs[c[p]].prev THEN bs[c[p]].next ELSE bs[c[k]].next
                /\ bs3[c[k]].prev = IF c[k] = bs[c[p]].next THEN bs[c[p]].prev ELSE bs[c[k]].prev
      <3>1. c[k] \in R!Bucket /\ c[k] # i
        BY <1>6, <1>7, <2>1 DEF Enumerates
      <3> QED BY <3>1, <1>7, <1>15 DEF b
    <2>2. PICK head : head = heads[own]
      OBVIOUS
    <2>3. PICK of, others : of = Of(bs, own) /\ others = bs3
      OBVIOUS
    <2>4. Bridged(c, p, bs, others) /\ Enumerates(c, of) /\ Linked(c, head, bs)
      BY <1>6, <2>1, <2>2, <2>3 DEF Bridged
    <2>5. \E d \in Seq(R!Bucket) :
            /\ Enumerates(d, of \ {c[p]})
            /\ Linked(d, IF bs[c[p]].prev = 0 THEN bs[c[p]].next ELSE head, others)
      BY <2>4, UnlinkedChain
    <2> QED BY <2>2, <2>3, <2>5
  <1>19. Enumerates(d, Of(bs3, own)) /\ Linked(d, heads2[own], bs3)
    <2>1. Of(bs3, own) = Of(bs, own) \ {c[p]}
      BY <1>7, <1>15, <1>16 DEF Of
    <2>2. heads2[own] = IF bs[c[p]].prev = 0 THEN bs[c[p]].next ELSE heads[own]
      BY <1>2, <1>7, <1>17 DEF b
    <2> QED BY <1>18, <2>1, <2>2
  <1>20. ASSUME NEW h \in R!Hashes, h # own
         PROVE  Enumerates(chains[h], Of(bs3, h)) /\ Linked(chains[h], heads2[h], bs3)
    <2>1. PICK e \in Seq(R!Bucket) : e = chains[h]
      BY <1>4
    <2>2. Enumerates(e, Of(bs, h)) /\ Linked(e, heads[h], bs)
      BY <1>4, <2>1 DEF Chained
    <2>3. Of(bs3, h) = Of(bs, h)
      BY <1>15, <1>16, <1>20 DEF Of, own, b
    <2>4. ASSUME NEW k \in 1..Len(e)
          PROVE  e[k] \in R!Bucket /\ e[k] # i /\ e[k] # b.next /\ e[k] # b.prev
      <3>1. e[k] \in Of(bs, h)
        BY <2>2 DEF Enumerates
      <3>2. e[k] \notin Of(bs, own)
        BY <3>1, <1>20 DEF Of
      <3>3. \A m \in 1..Len(c) : c[m] \in Of(bs, own)
        BY <1>6 DEF Enumerates
      <3>4. e[k] \in R!Bucket /\ e[k] # 0 /\ e[k] # i
        BY <3>1, <3>2, <3>3, <1>7, BucketNumbers DEF Of
      <3> QED BY <3>2, <3>3, <3>4, <1>8
    <2>5. Linked(e, heads[h], bs3)
      <3>1. \A k \in 1..Len(e) : bs3[e[k]].next = bs[e[k]].next /\ bs3[e[k]].prev = bs[e[k]].prev
        BY <2>4, <1>15
      <3>2. PICK head : head = heads[h]
        OBVIOUS
      <3> QED BY <2>2, <3>1, <3>2, LinkedSame
    <2> QED BY <2>1, <2>2, <2>3, <2>5, <1>17, <1>20
  <1>21. PICK left2 : left2 = [chains EXCEPT ![own] = d]
    OBVIOUS
  <1>22. left2 \in [R!Hashes -> Seq(R!Bucket)] /\ \A h \in R!Hashes : left2[h] = IF h = own THEN d ELSE chains[h]
    BY <1>2, <1>4, <1>18, <1>21
  <1>23. Chained(left2, heads2, bs3)
    BY <1>19, <1>20, <1>22 DEF Chained
  <1>24. \A j, k \in R!Bucket : j # k /\ bs3[j].address # 0 => bs3[j].address # bs3[k].address
    <2>1. \A j, k \in R!Bucket : j # k /\ bs[j].address # 0 => bs[j].address # bs[k].address
      BY DEF WellChained
    <2> QED BY <2>1, <1>15, <1>16
  <1>25. WellChained(heads2, bs3)
    BY <1>14, <1>17, <1>22, <1>23, <1>24 DEF WellChained
  <1> QED BY <1>1, <1>15, <1>16, <1>25

\* A free bucket is given to a and put at the head of its chain: what
\* R!Allocated does with what R!Unlinked leaves.
Given(heads, bs, a, i) ==
    LET head == heads[QueryHash[a]]
        b == [bs EXCEPT ![i] = [R!Free EXCEPT !.address = a, !.lastTime = now, !.next = head]]
    IN  [buckets |-> IF head # 0 THEN [b EXCEPT ![head].prev = i] ELSE b,
         heads |-> [heads EXCEPT ![QueryHash[a]] = i]]

LEMMA GivenWell ==
    ASSUME NEW heads, NEW bs, NEW a \in QueryAddresses, NEW i \in R!Bucket, WellChained(heads, bs),
           bs[i].address = 0, \A j \in R!Bucket : bs[j].address # a, now \in 0..MaxQueryTime
    PROVE  LET s == Given(heads, bs, a, i)
           IN  /\ WellChained(s.heads, s.buckets)
               /\ s.buckets[i].address = a /\ s.buckets[i].lastTime = now /\ s.buckets[i].burst = 0
               /\ \A j \in R!Bucket : j # i => /\ s.buckets[j].address = bs[j].address
                                               /\ s.buckets[j].lastTime = bs[j].lastTime
                                               /\ s.buckets[j].burst = bs[j].burst
  <1> DEFINE own == QueryHash[a]
             head == heads[own]
             new == [R!Free EXCEPT !.address = a, !.lastTime = now, !.next = head]
             bs1 == [bs EXCEPT ![i] = new]
             bs2 == IF head # 0 THEN [bs1 EXCEPT ![head].prev = i] ELSE bs1
             heads2 == [heads EXCEPT ![own] = i]
  <1>1. Given(heads, bs, a, i).buckets = bs2 /\ Given(heads, bs, a, i).heads = heads2
    BY DEF Given
  <1>2. bs \in [R!Bucket -> ABucket] /\ heads \in [R!Hashes -> 0..MAX_BUCKETS] /\ own \in R!Hashes
    BY DEF WellChained, R!Hashes
  <1>3. head \in 0..MAX_BUCKETS
    BY <1>2
  <1>4. PICK chains \in [R!Hashes -> Seq(R!Bucket)] : Chained(chains, heads, bs)
    BY DEF WellChained
  <1>5. PICK c \in Seq(R!Bucket) : c = chains[own]
    BY <1>2, <1>4
  <1>6. Enumerates(c, Of(bs, own)) /\ Linked(c, head, bs)
    BY <1>2, <1>4, <1>5 DEF Chained
  <1>7. \A k \in 1..Len(c) : c[k] \in R!Bucket /\ c[k] # i
    BY <1>6 DEF Enumerates, Of
  <1>8. head # 0 => head \in R!Bucket /\ head # i /\ head \in Of(bs, own)
    <2>1. ASSUME head # 0 PROVE c # <<>>
      BY <1>6, <2>1 DEF Linked
    <2>2. ASSUME head # 0 PROVE 1 \in 1..Len(c) /\ head = c[1]
      BY <1>6, <2>1, <2>2 DEF Linked
    <2> HIDE DEF head
    <2> QED BY <2>2, <1>6, <1>7 DEF Enumerates
  <1>9. a # 0 /\ R!Free.prev = 0
    BY RateLimitInstance DEF R!RateLimitAssumption, R!Free
  <1>10. /\ new \in ABucket /\ new.address = a /\ new.lastTime = now /\ new.burst = 0
         /\ new.prev = 0 /\ new.next = head
    <2> HIDE DEF head
    <2>1. 0 \in 0..Burst /\ 0 \in 0..MAX_BUCKETS /\ 0 \in 0..MaxQueryTime
      BY RateLimitInstance DEF R!RateLimitAssumption
    <2> QED BY <1>3, <2>1 DEF R!Free, ABucket
  <1> HIDE DEF new, head, own
  <1>11. bs1 \in [R!Bucket -> ABucket] /\ \A j \in R!Bucket : bs1[j] = IF j = i THEN new ELSE bs[j]
    BY <1>2, <1>10
  <1> HIDE DEF bs1
  <1>12. /\ bs2 \in [R!Bucket -> ABucket]
         /\ \A j \in R!Bucket : /\ bs2[j].address = bs1[j].address /\ bs2[j].lastTime = bs1[j].lastTime
                                /\ bs2[j].burst = bs1[j].burst /\ bs2[j].next = bs1[j].next
                                /\ bs2[j].prev = IF j = head THEN i ELSE bs1[j].prev
    <2>1. CASE head = 0
      BY <1>11, <2>1, BucketNumbers
    <2>2. CASE head # 0
      <3>1. head \in R!Bucket /\ i \in 0..MAX_BUCKETS
        BY <1>8, <2>2, BucketNumbers
      <3>2. PICK r : r = [bs1[head] EXCEPT !.prev = i]
        OBVIOUS
      <3>3. bs2 = [bs1 EXCEPT ![head] = r]
        BY <2>2, <3>2
      <3>4. bs1[head] \in ABucket
        BY <3>1, <1>11
      <3>5. /\ r \in ABucket /\ r.address = bs1[head].address /\ r.lastTime = bs1[head].lastTime
            /\ r.burst = bs1[head].burst /\ r.next = bs1[head].next /\ r.prev = i
        BY <3>1, <3>2, <3>4 DEF ABucket
      <3> HIDE DEF bs2
      <3> QED BY <1>11, <3>1, <3>3, <3>5
    <2> QED BY <2>1, <2>2
  <1> HIDE DEF bs2
  <1>13. \A j \in R!Bucket : j # i =>
            /\ bs2[j].address = bs[j].address /\ bs2[j].lastTime = bs[j].lastTime /\ bs2[j].burst = bs[j].burst
            /\ bs2[j].next = bs[j].next
            /\ bs2[j].prev = (IF j = head THEN i ELSE bs[j].prev)
    BY <1>11, <1>12
  <1>14. /\ bs2[i].address = a /\ bs2[i].lastTime = now /\ bs2[i].burst = 0
         /\ bs2[i].next = head /\ bs2[i].prev = 0
    <2>1. i # head
      BY <1>8, BucketNumbers
    <2> QED BY <2>1, <1>10, <1>11, <1>12
  <1>15. /\ heads2 \in [R!Hashes -> 0..MAX_BUCKETS]
         /\ \A h \in R!Hashes : heads2[h] = IF h = own THEN i ELSE heads[h]
    <2>1. i \in 0..MAX_BUCKETS
      BY BucketNumbers
    <2> QED BY <1>2, <2>1
  <1> HIDE DEF heads2
  <1>16. Of(bs2, own) = Of(bs, own) \cup {i} /\ i \notin Of(bs, own)
    BY <1>9, <1>13, <1>14 DEF Of, own
  <1>17. PICK d \in Seq(R!Bucket) : Enumerates(d, Of(bs2, own)) /\ Linked(d, i, bs2)
    <2>1. PICK of, others, first : of = Of(bs, own) /\ others = bs2 /\ first = head
      OBVIOUS
    <2>2. Headed(c, i, first, bs, others)
      BY <1>7, <1>13, <1>14, <2>1 DEF Headed
    <2>3. Enumerates(c, of) /\ Linked(c, first, bs) /\ i \notin of
      BY <1>6, <1>16, <2>1
    <2>4. \E d \in Seq(R!Bucket) : Enumerates(d, of \cup {i}) /\ Linked(d, i, others)
      BY <2>2, <2>3, ToppedChain
    <2> QED BY <1>16, <2>1, <2>4
  <1>18. ASSUME NEW h \in R!Hashes, h # own
         PROVE  Enumerates(chains[h], Of(bs2, h)) /\ Linked(chains[h], heads2[h], bs2)
    <2>1. PICK e \in Seq(R!Bucket) : e = chains[h]
      BY <1>4
    <2>2. Enumerates(e, Of(bs, h)) /\ Linked(e, heads[h], bs)
      BY <1>4, <2>1 DEF Chained
    <2>3. Of(bs2, h) = Of(bs, h)
      BY <1>13, <1>14, <1>18 DEF Of, own
    <2>4. ASSUME NEW k \in 1..Len(e) PROVE e[k] \in R!Bucket /\ e[k] # i /\ e[k] # head
      <3>1. e[k] \in Of(bs, h)
        BY <2>2 DEF Enumerates
      <3>2. e[k] \notin Of(bs, own)
        BY <3>1, <1>18 DEF Of
      <3> QED BY <3>1, <3>2, <1>8, BucketNumbers DEF Of
    <2>5. Linked(e, heads[h], bs2)
      <3>1. \A k \in 1..Len(e) : bs2[e[k]].next = bs[e[k]].next /\ bs2[e[k]].prev = bs[e[k]].prev
        BY <2>4, <1>13
      <3>2. PICK first : first = heads[h]
        OBVIOUS
      <3> QED BY <2>2, <3>1, <3>2, LinkedSame
    <2> QED BY <2>1, <2>2, <2>3, <2>5, <1>15, <1>18
  <1>19. PICK more : more = [chains EXCEPT ![own] = d]
    OBVIOUS
  <1>20. more \in [R!Hashes -> Seq(R!Bucket)] /\ \A h \in R!Hashes : more[h] = IF h = own THEN d ELSE chains[h]
    BY <1>2, <1>4, <1>17, <1>19
  <1>21. Chained(more, heads2, bs2)
    BY <1>2, <1>15, <1>17, <1>18, <1>20 DEF Chained
  <1>22. \A j, k \in R!Bucket : j # k /\ bs2[j].address # 0 => bs2[j].address # bs2[k].address
    <2>1. \A j, k \in R!Bucket : j # k /\ bs[j].address # 0 => bs[j].address # bs[k].address
      BY DEF WellChained
    <2> QED BY <2>1, <1>13, <1>14
  <1>23. WellChained(heads2, bs2)
    BY <1>12, <1>15, <1>20, <1>21, <1>22 DEF WellChained
  <1> QED BY <1>1, <1>13, <1>14, <1>23

\* A bucket for an address that has none.
LEMMA AllocatedWell ==
    ASSUME NEW a \in QueryAddresses, NEW i \in R!Bucket, WellChained(bucketHashes, buckets),
           \A j \in R!Bucket : buckets[j].address # a, now \in 0..MaxQueryTime,
           R!Expired(buckets[i]) <=> buckets[i].address # 0
    PROVE  LET s == R!Allocated(a, i)
           IN  /\ WellChained(s.heads, s.buckets)
               /\ s.buckets[i].address = a /\ s.buckets[i].lastTime = now /\ s.buckets[i].burst = 0
               /\ \A j \in R!Bucket : j # i => /\ s.buckets[j].address = buckets[j].address
                                               /\ s.buckets[j].lastTime = buckets[j].lastTime
                                               /\ s.buckets[j].burst = buckets[j].burst
  <1>1. PICK bs, heads : bs = buckets /\ heads = bucketHashes
    OBVIOUS
  <1> DEFINE s == IF R!Expired(buckets[i])
                  THEN R!Unlinked([buckets |-> buckets, heads |-> bucketHashes], i)
                  ELSE [buckets |-> buckets, heads |-> bucketHashes]
  <1>2. /\ WellChained(s.heads, s.buckets) /\ s.buckets[i].address = 0
        /\ \A j \in R!Bucket : j # i => /\ s.buckets[j].address = buckets[j].address
                                        /\ s.buckets[j].lastTime = buckets[j].lastTime
                                        /\ s.buckets[j].burst = buckets[j].burst
    <2>1. CASE R!Expired(buckets[i])
      <3>1. WellChained(heads, bs) /\ bs[i].address # 0
        BY <1>1, <2>1
      <3>2. PICK u : u = R!Unlinked([buckets |-> bs, heads |-> heads], i)
        OBVIOUS
      <3>3. /\ WellChained(u.heads, u.buckets) /\ u.buckets[i].address = 0
            /\ \A j \in R!Bucket : j # i => /\ u.buckets[j].address = bs[j].address
                                            /\ u.buckets[j].lastTime = bs[j].lastTime
                                            /\ u.buckets[j].burst = bs[j].burst
        BY <3>1, <3>2, UnlinkedWell
      <3>4. s = u
        BY <1>1, <2>1, <3>2
      <3> HIDE DEF s
      <3> QED BY <1>1, <3>3, <3>4
    <2>2. CASE ~R!Expired(buckets[i])
      <3>1. s.buckets = buckets /\ s.heads = bucketHashes
        BY <2>2
      <3> HIDE DEF s
      <3> QED BY <3>1, <2>2
    <2> QED BY <2>1, <2>2
  <1>3. R!Allocated(a, i) = Given(s.heads, s.buckets, a, i)
    BY DEF R!Allocated, Given
  <1> HIDE DEF s
  <1>4. PICK hs, more : hs = s.heads /\ more = s.buckets
    OBVIOUS
  <1>5. \A j \in R!Bucket : more[j].address # a
    <2>1. a # 0
      BY RateLimitInstance DEF R!RateLimitAssumption
    <2> QED BY <1>2, <1>4, <2>1
  <1>6. PICK g : g = Given(hs, more, a, i)
    OBVIOUS
  <1>7. /\ WellChained(g.heads, g.buckets)
        /\ g.buckets[i].address = a /\ g.buckets[i].lastTime = now /\ g.buckets[i].burst = 0
        /\ \A j \in R!Bucket : j # i => /\ g.buckets[j].address = more[j].address
                                        /\ g.buckets[j].lastTime = more[j].lastTime
                                        /\ g.buckets[j].burst = more[j].burst
    <2>1. WellChained(hs, more) /\ more[i].address = 0
      BY <1>2, <1>4
    <2> QED BY <1>5, <1>6, <2>1, GivenWell
  <1>8. R!Allocated(a, i) = g
    BY <1>3, <1>4, <1>6
  <1> QED BY <1>2, <1>4, <1>7, <1>8

-----------------------------------------------------------------------------
(* Rate limits: the rate *)

LEMMA Distributes == ASSUME NEW x \in Int, NEW y \in Int, NEW p \in Int
                     PROVE (x + y) * p = x * p + y * p /\ (x - y) * p = x * p - y * p
  OBVIOUS

LEMMA TimesMonotonic == ASSUME NEW x \in Int, NEW y \in Int, x <= y, NEW p \in Nat PROVE x * p <= y * p
  <1>1. y - x \in Nat
    OBVIOUS
  <1>2. (y - x) * p \in Nat
    BY <1>1
  <1>3. (y - x) * p = y * p - x * p
    BY Distributes
  <1>4. x * p \in Int /\ y * p \in Int
    OBVIOUS
  <1> QED BY <1>2, <1>3, <1>4

LEMMA DividedBy == ASSUME NEW x \in Int, NEW p \in Nat \ {0}
                   PROVE  /\ x \div p \in Int /\ x % p \in 0..p - 1
                          /\ x = (x \div p) * p + (x % p)
  OBVIOUS

\* Whole periods that fit are counted.
LEMMA AtMostDivided == ASSUME NEW x \in Int, NEW y \in Int, NEW p \in Nat \ {0}, x * p <= y
                       PROVE  x <= y \div p
  <1> DEFINE q == y \div p
             r == y % p
  <1>1. q \in Int /\ r \in 0..p - 1 /\ y = q * p + r
    BY DividedBy
  <1> HIDE DEF q, r
  <1>2. ASSUME q + 1 <= x PROVE FALSE
    <2>1. (q + 1) * p <= x * p
      BY <1>1, <1>2, TimesMonotonic
    <2>2. (q + 1) * p = q * p + 1 * p
      BY <1>1, Distributes
    <2>3. q * p \in Int /\ x * p \in Int /\ 1 * p = p /\ r \in Int /\ r < p
      BY <1>1
    <2> QED BY <1>1, <2>1, <2>2, <2>3
  <1>3. x <= q
    BY <1>1, <1>2
  <1> QED BY <1>3 DEF q

\* Of the answers s, those from the i-th on are as many as a bucket that holds
\* `burst` drops at time `last` lets through: it drains one in a period.
Drops(s, burst, last) == \A i \in 1..Len(s) : ((Len(s) - i) - burst) * Period <= last - s[i]

\* R!LimitHolds of the answers s, without division.
Spread(s) == \A i, j \in 1..Len(s) : i <= j => ((j - i) - Burst) * Period <= s[j] - s[i]

LEMMA PeriodIs == Period \in Nat \ {0} /\ Burst \in Nat /\ MaxQueryTime \in Nat \ {0} /\ 0 \notin QueryAddresses
  BY RateLimitInstance DEF R!RateLimitAssumption

LEMMA TimesAre == ASSUME NEW s \in Seq(1..MaxQueryTime)
                  PROVE Len(s) \in Nat /\ \A i \in 1..Len(s) : i \in Nat /\ s[i] \in 1..MaxQueryTime /\ s[i] \in Int
  <1> DEFINE times == 1..MaxQueryTime
  <1>1. s \in Seq(times)
    OBVIOUS
  <1>2. \A e \in times : e \in Int
    BY PeriodIs
  <1> HIDE DEF times
  <1>3. Len(s) \in Nat /\ \A i \in 1..Len(s) : s[i] \in times
    BY <1>1
  <1>4. \A i \in 1..Len(s) : i \in Nat
    BY <1>3
  <1> QED BY <1>2, <1>3, <1>4 DEF times

LEMMA DropsLater ==
    ASSUME NEW s \in Seq(1..MaxQueryTime), NEW burst \in Int, NEW last \in Int, NEW later \in Int,
           last <= later, Drops(s, burst, last)
    PROVE  Drops(s, burst, later)
  <1> SUFFICES ASSUME NEW i \in 1..Len(s) PROVE ((Len(s) - i) - burst) * Period <= later - s[i]
    BY DEF Drops
  <1>1. ((Len(s) - i) - burst) * Period <= last - s[i]
    BY DEF Drops
  <1>2. ((Len(s) - i) - burst) * Period \in Int /\ s[i] \in Int
    BY PeriodIs
  <1> QED BY <1>1, <1>2

\* A bucket that drains lets through what it lets through before.
LEMMA DrainedDrops ==
    ASSUME NEW s \in Seq(1..MaxQueryTime), NEW burst \in Nat, NEW last \in Int, Drops(s, burst, last),
           NEW drained \in Int, NEW later \in Int,
           last + drained * Period <= later, drained <= burst
    PROVE  Drops(s, burst - drained, later)
  <1> SUFFICES ASSUME NEW i \in 1..Len(s)
               PROVE ((Len(s) - i) - (burst - drained)) * Period <= later - s[i]
    BY DEF Drops
  <1> DEFINE x == (Len(s) - i) - burst
  <1>1. x * Period <= last - s[i]
    BY DEF Drops
  <1>2. x \in Int /\ (Len(s) - i) - (burst - drained) = x + drained /\ s[i] \in Int
    <2>1. Len(s) \in Nat /\ i \in Nat /\ s[i] \in 1..MaxQueryTime
      BY TimesAre
    <2>2. x \in Int /\ (Len(s) - i) - (burst - drained) = x + drained
      BY <2>1
    <2>3. s[i] \in Int
      BY <2>1, PeriodIs
    <2> QED BY <2>2, <2>3
  <1> HIDE DEF x
  <1>3. (x + drained) * Period = x * Period + drained * Period
    BY <1>2, PeriodIs, Distributes
  <1>4. x * Period \in Int /\ drained * Period \in Int
    BY <1>2, PeriodIs
  <1>5. x * Period + drained * Period <= later - s[i]
    BY <1>1, <1>2, <1>4, SMTT(30)
  <1> QED BY <1>2, <1>3, <1>5

\* A bucket that was drained at this moment takes one more drop.
LEMMA AnswerDrops ==
    ASSUME NEW s \in Seq(1..MaxQueryTime), NEW burst \in Nat, NEW last \in Int, NEW clock \in 1..MaxQueryTime,
           Drops(s, burst, last), Spread(s), burst < Burst, last <= clock, clock - last <= Period
    PROVE  /\ Append(s, clock) \in Seq(1..MaxQueryTime)
           /\ Drops(Append(s, clock), burst + 1, last) /\ Spread(Append(s, clock))
  <1> DEFINE n == Len(s)
             t == Append(s, clock)
  <1>1. /\ n \in Nat /\ t \in Seq(1..MaxQueryTime) /\ Len(t) = n + 1 /\ t[n + 1] = clock
        /\ \A i \in 1..n : t[i] = s[i] /\ s[i] \in Int
    <2>1. n \in Nat /\ \A i \in 1..n : s[i] \in 1..MaxQueryTime
      BY TimesAre
    <2>2. \A i \in 1..n : s[i] \in Int
      BY TimesAre
    <2>3. t \in Seq(1..MaxQueryTime) /\ Len(t) = n + 1 /\ t[n + 1] = clock /\ \A i \in 1..n : t[i] = s[i]
      OBVIOUS
    <2> HIDE DEF n, t
    <2> QED BY <2>1, <2>2, <2>3
  <1>2. \A i \in 1..n + 1 : i = n + 1 \/ (i \in 1..n /\ i # n + 1)
    BY <1>1
  <1>3. Period \in Nat /\ Burst \in Nat /\ clock \in Int
    BY PeriodIs
  <1>4. ASSUME NEW i \in 1..n PROVE ((n - i) - burst) * Period <= last - s[i]
    BY DEF Drops
  <1> HIDE DEF n, t
  <1>5. ASSUME NEW i \in 1..n + 1 PROVE (((n + 1) - i) - (burst + 1)) * Period <= last - t[i]
    <2>1. CASE i = n + 1
      <3>1. ((n + 1) - i) - (burst + 1) <= 0 - 1
        BY <1>1, <2>1
      <3>2. (((n + 1) - i) - (burst + 1)) * Period <= (0 - 1) * Period
        BY <1>1, <1>3, <3>1, TimesMonotonic
      <3>3. (0 - 1) * Period = 0 - Period /\ (((n + 1) - i) - (burst + 1)) * Period \in Int
        BY <1>1, <1>3
      <3>4. 0 - Period <= last - clock
        BY <1>3
      <3> QED BY <1>1, <1>3, <2>1, <3>2, <3>3, <3>4, SMTT(30)
    <2>2. CASE i \in 1..n
      <3>1. ((n + 1) - i) - (burst + 1) = (n - i) - burst
        BY <1>1
      <3> QED BY <1>1, <1>4, <2>2, <3>1
    <2> QED BY <1>2, <2>1, <2>2
  <1>6. Drops(t, burst + 1, last)
    BY <1>1, <1>5 DEF Drops
  <1>7. ASSUME NEW i \in 1..n + 1, NEW j \in 1..n + 1, i <= j
        PROVE ((j - i) - Burst) * Period <= t[j] - t[i]
    <2>1. CASE j = n + 1
      <3>1. (((n + 1) - i) - (burst + 1)) * Period <= last - t[i]
        BY <1>5
      <3>2. (j - i) - Burst <= ((n + 1) - i) - (burst + 1)
        BY <1>1, <1>3, <2>1
      <3>3. ((j - i) - Burst) * Period <= (((n + 1) - i) - (burst + 1)) * Period
        BY <1>1, <1>3, <3>2, TimesMonotonic
      <3>4. /\ ((j - i) - Burst) * Period \in Int /\ (((n + 1) - i) - (burst + 1)) * Period \in Int
            /\ t[i] \in Int /\ t[j] = clock
        BY <1>1, <1>3, <2>1
      <3> QED BY <1>3, <3>1, <3>3, <3>4
    <2>2. CASE j \in 1..n
      <3>1. i \in 1..n
        BY <1>7, <1>1, <2>2
      <3>2. ((j - i) - Burst) * Period <= s[j] - s[i]
        BY <1>7, <2>2, <3>1 DEF Spread, n
      <3> QED BY <1>1, <2>2, <3>1, <3>2
    <2> QED BY <1>2, <2>1, <2>2
  <1>8. Spread(t)
    BY <1>1, <1>7 DEF Spread
  <1> QED BY <1>1, <1>6, <1>8 DEF t

LEMMA SpreadIsLimit ==
    ASSUME NEW s \in Seq(1..MaxQueryTime), Spread(s), NEW i \in 1..Len(s), NEW j \in 1..Len(s), i <= j
    PROVE  j - i + 1 <= Burst + 1 + (s[j] - s[i]) \div Period
  <1>1. ((j - i) - Burst) * Period <= s[j] - s[i]
    BY DEF Spread
  <1>2. (j - i) - Burst \in Int /\ s[j] - s[i] \in Int
    BY PeriodIs
  <1>3. (j - i) - Burst <= (s[j] - s[i]) \div Period
    BY <1>1, <1>2, PeriodIs, AtMostDivided
  <1> DEFINE d == (s[j] - s[i]) \div Period
  <1>4. d \in Int
    BY <1>2, PeriodIs, DividedBy
  <1> HIDE DEF d
  <1>5. (j - i) - Burst <= d
    BY <1>3 DEF d
  <1>6. j - i + 1 <= Burst + 1 + d
    BY <1>4, <1>5, PeriodIs
  <1> QED BY <1>6 DEF d

-----------------------------------------------------------------------------
(* Rate limits: the invariant *)

\* A free bucket has no time, and no bucket one to come.
Dated(b, clock) == IF b.address = 0 THEN b.lastTime = 0 ELSE b.lastTime \in 1..clock

\* The answers s to address a fit its bucket; without one it may have an empty
\* one at any moment, so that what was reclaimed would have run dry.
Limited(bs, clock, s, a) ==
    /\ Spread(s)
    /\ \A b \in R!Bucket : bs[b].address = a => Drops(s, bs[b].burst, bs[b].lastTime)
    /\ (\A b \in R!Bucket : bs[b].address # a) => Drops(s, 0, clock)

AllLimited(bs, clock, ans) ==
    /\ \A i \in R!Bucket : Dated(bs[i], clock)
    /\ \A a \in QueryAddresses : Limited(bs, clock, ans[a], a)

RateInv ==
    /\ now \in 1..MaxQueryTime
    /\ answered \in [QueryAddresses -> Seq(1..MaxQueryTime)]
    /\ WellChained(bucketHashes, buckets)
    /\ AllLimited(buckets, now, answered)

LEMMA NowIs == ASSUME RateInv PROVE now \in Nat /\ now \in 1..MaxQueryTime /\ now \in 0..MaxQueryTime
  BY PeriodIs DEF RateInv

LEMMA ChainOf ==
    ASSUME RateInv, NEW h \in R!Hashes
    PROVE  /\ R!Chain(bucketHashes, buckets, h) \in Seq(R!Bucket)
           /\ Enumerates(R!Chain(bucketHashes, buckets, h), Of(buckets, h))
           /\ Linked(R!Chain(bucketHashes, buckets, h), bucketHashes[h], buckets)
  <1>1. PICK chains \in [R!Hashes -> Seq(R!Bucket)] : Chained(chains, bucketHashes, buckets)
    BY DEF RateInv, WellChained
  <1>2. PICK c \in Seq(R!Bucket) : c = chains[h]
    BY <1>1
  <1>3. Enumerates(c, Of(buckets, h)) /\ Linked(c, bucketHashes[h], buckets)
    BY <1>1, <1>2 DEF Chained
  <1>4. Len(c) <= MAX_BUCKETS
    BY <1>3, ShortEnough DEF Enumerates
  <1>5. R!Chain(bucketHashes, buckets, h) = c
    <2>1. PICK heads, bs : heads = bucketHashes /\ bs = buckets
      OBVIOUS
    <2>2. Linked(c, heads[h], bs)
      BY <1>3, <2>1
    <2>3. R!Chain(heads, bs, h) = c
      BY <1>4, <2>2, ChainIs
    <2> QED BY <2>1, <2>3
  <1> QED BY <1>3, <1>5

\* Looking along its chain finds the bucket of an address.
LEMMA InChainIs == ASSUME RateInv, NEW a \in QueryAddresses
                   PROVE R!InChain(a) = {i \in R!Bucket : buckets[i].address = a}
  <1>1. QueryHash[a] \in R!Hashes
    BY DEF R!Hashes
  <1>2. PICK c : c = R!Chain(bucketHashes, buckets, QueryHash[a])
    OBVIOUS
  <1>3. c \in Seq(R!Bucket) /\ Enumerates(c, Of(buckets, QueryHash[a]))
    BY <1>1, <1>2, ChainOf
  <1>4. DOMAIN c = 1..Len(c)
    BY <1>3
  <1>5. R!Range(c) = Of(buckets, QueryHash[a])
    BY <1>3, <1>4 DEF R!Range, Enumerates
  <1>6. R!InChain(a) = {i \in Of(buckets, QueryHash[a]) : buckets[i].address = a}
    BY <1>2, <1>5 DEF R!InChain
  <1> QED BY <1>6, PeriodIs DEF Of

\* R!Drained at a moment that does not change.
DrainsTo(b, clock, d) ==
    d = IF (clock - b.lastTime) \div Period > b.burst
        THEN [b EXCEPT !.burst = 0, !.lastTime = clock]
        ELSE [b EXCEPT !.burst = b.burst - ((clock - b.lastTime) \div Period),
                       !.lastTime = clock - ((clock - b.lastTime) % Period)]

LEMMA Drains ==
    ASSUME NEW clock \in 1..MaxQueryTime, NEW b \in ABucket, b.lastTime \in 1..clock, NEW d,
           DrainsTo(b, clock, d)
    PROVE  /\ d \in ABucket /\ d.address = b.address /\ d.next = b.next /\ d.prev = b.prev
           /\ d.lastTime \in 1..clock /\ clock - d.lastTime <= Period
           /\ \A s \in Seq(1..MaxQueryTime) :
                 Drops(s, b.burst, b.lastTime) => Drops(s, d.burst, d.lastTime)
  <1> DEFINE last == b.lastTime
             burst == b.burst
             e == (clock - last) \div Period
             r == (clock - last) % Period
  <1>1. last \in 1..clock /\ burst \in 0..Burst
    BY DEF ABucket
  <1>2. clock \in Nat /\ last \in Nat /\ burst \in Nat /\ clock - last \in Nat /\ clock <= MaxQueryTime
    BY <1>1, PeriodIs
  <1>3. e \in Int /\ r \in 0..Period - 1 /\ clock - last = e * Period + r
    <2>1. PICK x \in Int : x = clock - last
      BY <1>2
    <2>2. x \div Period \in Int /\ x % Period \in 0..Period - 1 /\ x = (x \div Period) * Period + (x % Period)
      BY PeriodIs, DividedBy
    <2> HIDE DEF last
    <2> QED BY <2>1, <2>2
  <1>4. d = IF e > burst THEN [b EXCEPT !.burst = 0, !.lastTime = clock]
            ELSE [b EXCEPT !.burst = burst - e, !.lastTime = clock - r]
    BY DEF DrainsTo
  <1> HIDE DEF e, r
  <1>5. e * Period \in Int /\ r \in Int /\ r < Period /\ r >= 0
    BY <1>3, PeriodIs
  <1>6. e \in Nat
    <2>1. ASSUME e <= 0 - 1 PROVE FALSE
      <3>1. e * Period <= (0 - 1) * Period
        BY <2>1, <1>3, PeriodIs, TimesMonotonic
      <3>2. (0 - 1) * Period = 0 - Period
        BY PeriodIs
      <3> HIDE DEF last, burst
      <3> QED BY <1>2, <1>3, <1>5, <3>1, <3>2, PeriodIs
    <2> QED BY <2>1, <1>3
  <1> HIDE DEF last, burst
  <1>7. last + e * Period = clock - r
    BY <1>2, <1>3, <1>5
  <1>8. CASE e > burst
    <2>1. d = [b EXCEPT !.burst = 0, !.lastTime = clock]
      BY <1>4, <1>8
    <2>2. 0 \in 0..Burst /\ clock \in 0..MaxQueryTime /\ clock \in 1..clock
      BY <1>2, PeriodIs
    <2>3. d \in ABucket /\ d.address = b.address /\ d.next = b.next /\ d.prev = b.prev
          /\ d.burst = 0 /\ d.lastTime = clock
      BY <2>1, <2>2 DEF ABucket
    <2>4. last + burst * Period <= clock
      <3>1. burst * Period <= e * Period
        BY <1>2, <1>3, <1>8, PeriodIs, TimesMonotonic
      <3>2. burst * Period \in Int
        BY <1>2, PeriodIs
      <3> QED BY <1>2, <1>5, <1>7, <3>1, <3>2
    <2>5. ASSUME NEW s \in Seq(1..MaxQueryTime), Drops(s, burst, last) PROVE Drops(s, 0, clock)
      <3>1. clock \in Int /\ last \in Int /\ burst \in Int /\ burst <= burst
        BY <1>2
      <3>2. Drops(s, burst - burst, clock)
        BY <1>2, <2>4, <2>5, <3>1, DrainedDrops
      <3>3. burst - burst = 0
        BY <1>2
      <3> QED BY <3>2, <3>3
    <2>6. clock - clock <= Period
      BY <1>2, PeriodIs
    <2> QED BY <2>2, <2>3, <2>5, <2>6 DEF last, burst
  <1>9. CASE ~(e > burst)
    <2>1. d = [b EXCEPT !.burst = burst - e, !.lastTime = clock - r]
      BY <1>4, <1>9
    <2>2. e * Period >= 0 /\ burst - e \in 0..Burst
      <3>1. 0 * Period <= e * Period
        BY <1>6, PeriodIs, TimesMonotonic
      <3>2. 0 * Period = 0
        BY PeriodIs
      <3> QED BY <1>1, <1>2, <1>6, <1>9, <3>1, <3>2, PeriodIs
    <2>3. clock - r \in 1..clock /\ clock - r \in 0..MaxQueryTime /\ clock - (clock - r) <= Period
      BY <1>1, <1>2, <1>5, <1>7, <2>2, PeriodIs
    <2>4. d \in ABucket /\ d.address = b.address /\ d.next = b.next /\ d.prev = b.prev
          /\ d.burst = burst - e /\ d.lastTime = clock - r
      BY <2>1, <2>2, <2>3 DEF ABucket
    <2>5. ASSUME NEW s \in Seq(1..MaxQueryTime), Drops(s, burst, last) PROVE Drops(s, burst - e, clock - r)
      <3>1. PICK later, was, drained : later = clock - r /\ was = last /\ drained = e
        OBVIOUS
      <3>2. PICK full : full = burst
        OBVIOUS
      <3>3. /\ later \in Int /\ was \in Int /\ drained \in Int /\ full \in Nat
            /\ was + drained * Period <= later /\ drained <= full /\ Drops(s, full, was)
        BY <1>2, <1>5, <1>6, <1>7, <1>9, <2>5, <3>1, <3>2
      <3>4. Drops(s, full - drained, later)
        BY <3>3, DrainedDrops
      <3> QED BY <3>1, <3>2, <3>4
    <2> QED BY <2>3, <2>4, <2>5 DEF last, burst
  <1> QED BY <1>8, <1>9


LEMMA DrainedIs ==
    ASSUME NEW b \in ABucket, b.address # 0, Dated(b, now), now \in 1..MaxQueryTime
    PROVE  /\ R!Drained(b) \in ABucket /\ R!Drained(b).address = b.address
           /\ R!Drained(b).next = b.next /\ R!Drained(b).prev = b.prev
           /\ R!Drained(b).lastTime \in 1..now /\ now - R!Drained(b).lastTime <= Period
           /\ \A s \in Seq(1..MaxQueryTime) :
                 Drops(s, b.burst, b.lastTime) => Drops(s, R!Drained(b).burst, R!Drained(b).lastTime)
  <1>1. PICK clock \in 1..MaxQueryTime : clock = now
    OBVIOUS
  <1>2. PICK d : d = R!Drained(b)
    OBVIOUS
  <1>3. DrainsTo(b, clock, d)
    BY <1>1, <1>2 DEF R!Drained, DrainsTo
  <1>4. b.lastTime \in 1..clock
    BY <1>1 DEF Dated
  <1>5. /\ d \in ABucket /\ d.address = b.address /\ d.next = b.next /\ d.prev = b.prev
        /\ d.lastTime \in 1..clock /\ clock - d.lastTime <= Period
        /\ \A s \in Seq(1..MaxQueryTime) :
              Drops(s, b.burst, b.lastTime) => Drops(s, d.burst, d.lastTime)
    BY <1>3, <1>4, Drains
  <1> QED BY <1>1, <1>2, <1>5

\* What SVC_RateLimitAddress does once there is a bucket for a.
Fill(heads, bs, a, i) ==
    LET b == R!Drained(bs[i])
    IN  /\ bucketHashes' = heads
        /\ IF R!HasRoom(b)
           THEN /\ buckets' = [bs EXCEPT ![i] = [b EXCEPT !.burst = @ + 1]]
                /\ answered' = [answered EXCEPT ![a] = Append(@, now)]
           ELSE buckets' = [bs EXCEPT ![i] = b] /\ UNCHANGED answered

LEMMA FillKeeps ==
    ASSUME RateInv, NEW heads, NEW bs, NEW a \in QueryAddresses, NEW i \in R!Bucket,
           WellChained(heads, bs), AllLimited(bs, now, answered), bs[i].address = a,
           Fill(heads, bs, a, i), UNCHANGED now
    PROVE  RateInv'
  <1>1. bs \in [R!Bucket -> ABucket] /\ a # 0
        /\ \A j, k \in R!Bucket : j # k /\ bs[j].address # 0 => bs[j].address # bs[k].address
    BY PeriodIs DEF WellChained
  <1>2. now \in Nat /\ now \in 1..MaxQueryTime /\ now \in 0..MaxQueryTime
    BY NowIs
  <1>3. PICK d : d = R!Drained(bs[i])
    OBVIOUS
  <1>4. PICK b : b = bs[i]
    OBVIOUS
  <1>5. b \in ABucket /\ b.address = a /\ Dated(b, now)
    BY <1>1, <1>4 DEF AllLimited
  <1>6. /\ d \in ABucket /\ d.address = a /\ d.next = b.next /\ d.prev = b.prev
        /\ d.lastTime \in 1..now /\ now - d.lastTime <= Period
        /\ \A s \in Seq(1..MaxQueryTime) : Drops(s, b.burst, b.lastTime) => Drops(s, d.burst, d.lastTime)
    BY <1>1, <1>2, <1>3, <1>4, <1>5, DrainedIs
  <1>7. \A k \in QueryAddresses : answered[k] \in Seq(1..MaxQueryTime)
    BY DEF RateInv
  <1>8. PICK s : s = answered[a]
    OBVIOUS
  <1>9. s \in Seq(1..MaxQueryTime) /\ Spread(s) /\ Drops(s, d.burst, d.lastTime)
    <2>1. s \in Seq(1..MaxQueryTime)
      BY <1>7, <1>8
    <2>2. Limited(bs, now, s, a)
      BY <1>8 DEF AllLimited
    <2>3. Spread(s) /\ Drops(s, b.burst, b.lastTime)
      BY <1>4, <2>2 DEF Limited
    <2> QED BY <1>6, <2>1, <2>3
  \* Whatever the bucket becomes and a's answers, if they fit each other.
  <1>10. ASSUME NEW new, NEW more, new \in ABucket, new.address = a, new.next = b.next, new.prev = b.prev,
                new.lastTime \in 1..now, more \in Seq(1..MaxQueryTime), Spread(more),
                Drops(more, new.burst, new.lastTime),
                bucketHashes' = heads, buckets' = [bs EXCEPT ![i] = new],
                answered' = [answered EXCEPT ![a] = more]
         PROVE  RateInv'
    <2>1. PICK put : put = buckets'
      OBVIOUS
    <2>2. put \in [R!Bucket -> ABucket] /\ \A j \in R!Bucket : put[j] = IF j = i THEN new ELSE bs[j]
      BY <1>1, <1>10, <2>1
    <2>3. WellChained(heads, put)
      <3>1. \A j \in R!Bucket : /\ put[j].address = bs[j].address
                                /\ put[j].next = bs[j].next /\ put[j].prev = bs[j].prev
        BY <1>4, <1>5, <1>10, <2>2
      <3> QED BY <2>2, <3>1, SameChains
    <2>4. \A k \in QueryAddresses : answered'[k] = IF k = a THEN more ELSE answered[k]
      BY <1>10 DEF RateInv
    <2>5. answered' \in [QueryAddresses -> Seq(1..MaxQueryTime)]
      BY <1>10 DEF RateInv
    <2>6. ASSUME NEW j \in R!Bucket PROVE Dated(put[j], now)
      <3>1. Dated(bs[j], now)
        BY DEF AllLimited
      <3>2. Dated(new, now)
        BY <1>1, <1>10 DEF Dated
      <3> QED BY <2>2, <3>1, <3>2
    <2>7. ASSUME NEW k \in QueryAddresses PROVE Limited(put, now, answered'[k], k)
      <3>1. CASE k = a
        <4>1. answered'[k] = more
          BY <2>4, <3>1
        <4>2. \A j \in R!Bucket : put[j].address = a => j = i
          BY <1>1, <1>5, <1>4, <2>2
        <4>3. put[i] = new
          BY <2>2
        <4>4. Limited(put, now, more, a)
          BY <1>10, <4>2, <4>3 DEF Limited
        <4> QED BY <3>1, <4>1, <4>4
      <3>2. CASE k # a
        <4>1. answered'[k] = answered[k] /\ Limited(bs, now, answered[k], k)
          BY <2>4, <3>2 DEF AllLimited
        <4>2. \A j \in R!Bucket : put[j].address = k <=> bs[j].address = k
          BY <1>4, <1>5, <1>10, <2>2
        <4>3. \A j \in R!Bucket : put[j].address = k => put[j] = bs[j]
          BY <1>10, <2>2, <3>2
        <4>4. PICK t : t = answered[k]
          OBVIOUS
        <4>5. Limited(put, now, t, k)
          BY <4>1, <4>2, <4>3, <4>4 DEF Limited
        <4> QED BY <4>1, <4>4, <4>5
      <3> QED BY <3>1, <3>2
    <2>8. AllLimited(put, now, answered')
      BY <2>6, <2>7 DEF AllLimited
    <2>9. now' \in 1..MaxQueryTime /\ now' = now
      BY <1>2
    <2> QED BY <1>10, <2>1, <2>3, <2>5, <2>8, <2>9 DEF RateInv
  <1>11. CASE R!HasRoom(d)
    <2>1. PICK new : new = [d EXCEPT !.burst = d.burst + 1]
      OBVIOUS
    <2>2. PICK more : more = Append(s, now)
      OBVIOUS
    <2>3. d.burst \in Nat /\ d.burst < Burst /\ d.lastTime \in Int /\ d.lastTime <= now
      BY <1>2, <1>6, <1>11, PeriodIs DEF R!HasRoom, ABucket
    <2>4. d.burst + 1 \in 0..Burst
      BY <2>3, PeriodIs
    <2>5. /\ new \in ABucket /\ new.address = a /\ new.next = b.next /\ new.prev = b.prev
          /\ new.lastTime = d.lastTime /\ new.burst = d.burst + 1
      BY <1>6, <2>1, <2>4 DEF ABucket
    <2>6. PICK clock \in 1..MaxQueryTime : clock = now
      BY <1>2
    <2>7. /\ Append(s, clock) \in Seq(1..MaxQueryTime)
          /\ Drops(Append(s, clock), d.burst + 1, d.lastTime) /\ Spread(Append(s, clock))
      <3>1. PICK burst, last : burst = d.burst /\ last = d.lastTime
        OBVIOUS
      <3>2. /\ burst \in Nat /\ last \in Int /\ burst < Burst /\ last <= clock /\ clock - last <= Period
            /\ Drops(s, burst, last)
        BY <1>6, <1>9, <2>3, <2>6, <3>1
      <3>3. /\ Append(s, clock) \in Seq(1..MaxQueryTime)
            /\ Drops(Append(s, clock), burst + 1, last) /\ Spread(Append(s, clock))
        BY <1>9, <3>2, AnswerDrops
      <3> QED BY <3>1, <3>3
    <2>8. /\ bucketHashes' = heads /\ buckets' = [bs EXCEPT ![i] = new]
          /\ answered' = [answered EXCEPT ![a] = more]
      BY <1>3, <1>8, <1>11, <2>1, <2>2 DEF Fill
    <2>9. more \in Seq(1..MaxQueryTime) /\ Spread(more) /\ Drops(more, new.burst, new.lastTime)
      BY <2>2, <2>5, <2>6, <2>7
    <2>10. new.lastTime \in 1..now
      BY <1>6, <2>5
    <2> QED BY <2>5, <2>8, <2>9, <2>10, <1>10
  <1>12. CASE ~R!HasRoom(d)
    <2>1. bucketHashes' = heads /\ buckets' = [bs EXCEPT ![i] = d] /\ answered' = answered
      BY <1>3, <1>12 DEF Fill
    <2>2. answered' = [answered EXCEPT ![a] = s]
      BY <1>8, <2>1 DEF RateInv
    <2> QED BY <1>6, <1>9, <2>1, <2>2, <1>10
  <1> QED BY <1>11, <1>12

-----------------------------------------------------------------------------
(* Rate limits: the steps *)

\* Bucket i is a's now, empty; what it was before has run dry.
Reclaimed(bs, put, clock, a, i) ==
    /\ \A j \in R!Bucket : bs[j].address # a
    /\ put[i].address = a /\ put[i].lastTime = clock /\ put[i].burst = 0
    /\ \A j \in R!Bucket : j # i => /\ put[j].address = bs[j].address
                                    /\ put[j].lastTime = bs[j].lastTime /\ put[j].burst = bs[j].burst
    /\ bs[i].address # 0 => clock - bs[i].lastTime > Burst * Period

LEMMA ReclaimedLimits ==
    ASSUME NEW clock \in 1..MaxQueryTime, NEW ans \in [QueryAddresses -> Seq(1..MaxQueryTime)],
           NEW bs \in [R!Bucket -> ABucket], NEW put, NEW a \in QueryAddresses, NEW i \in R!Bucket,
           AllLimited(bs, clock, ans), Reclaimed(bs, put, clock, a, i)
    PROVE  AllLimited(put, clock, ans)
  <1>1. clock \in Nat /\ clock \in 1..clock /\ a # 0
    BY PeriodIs
  <1>2. ASSUME NEW j \in R!Bucket PROVE Dated(put[j], clock)
    <2>1. Dated(bs[j], clock)
      BY DEF AllLimited
    <2> QED BY <1>1, <2>1 DEF Dated, Reclaimed
  <1>3. ASSUME NEW k \in QueryAddresses PROVE Limited(put, clock, ans[k], k)
    <2>1. PICK s \in Seq(1..MaxQueryTime) : s = ans[k]
      OBVIOUS
    <2>2. Limited(bs, clock, s, k)
      BY <2>1 DEF AllLimited
    <2>3. ASSUME bs[i].address = k PROVE Drops(s, 0, clock)
      <3>1. PICK burst, last : burst = bs[i].burst /\ last = bs[i].lastTime
        OBVIOUS
      <3>2. burst \in 0..Burst
        BY <3>1 DEF ABucket
      <3>3. last \in 1..clock /\ clock - last > Burst * Period
        <4>1. Dated(bs[i], clock) /\ bs[i].address # 0
          BY <2>3, PeriodIs DEF AllLimited
        <4> QED BY <3>1, <4>1 DEF Dated, Reclaimed
      <3>4. Drops(s, burst, last)
        BY <2>2, <2>3, <3>1 DEF Limited
      <3>5. burst \in Nat /\ burst <= Burst /\ last \in Int /\ clock \in Int
        BY <1>1, <3>2, <3>3, PeriodIs
      <3>6. burst * Period <= Burst * Period /\ burst * Period \in Int /\ Burst * Period \in Int
        BY <3>5, PeriodIs, TimesMonotonic
      <3>7. last + burst * Period <= clock /\ burst \in Int /\ burst <= burst
        BY <3>3, <3>5, <3>6
      <3>8. Drops(s, burst - burst, clock)
        BY <3>4, <3>5, <3>7, DrainedDrops
      <3>9. burst - burst = 0
        BY <3>5
      <3> QED BY <3>8, <3>9
    <2>4. CASE k = a
      <3>1. Drops(s, 0, clock)
        BY <2>2, <2>4 DEF Limited, Reclaimed
      <3>2. \A j \in R!Bucket : put[j].address = a => j = i
        BY DEF Reclaimed
      <3> QED BY <2>1, <2>2, <2>4, <3>1, <3>2 DEF Limited, Reclaimed
    <2>5. CASE k # a
      <3>1. ASSUME NEW j \in R!Bucket, put[j].address = k PROVE Drops(s, put[j].burst, put[j].lastTime)
        BY <2>2, <2>5, <3>1 DEF Limited, Reclaimed
      <3>2. ASSUME \A j \in R!Bucket : put[j].address # k PROVE Drops(s, 0, clock)
        <4>1. CASE bs[i].address = k
          BY <2>3, <4>1
        <4>2. CASE bs[i].address # k
          <5>1. \A j \in R!Bucket : bs[j].address # k
            BY <3>2, <4>2 DEF Reclaimed
          <5> QED BY <2>2, <5>1 DEF Limited
        <4> QED BY <4>1, <4>2
      <3> QED BY <2>1, <2>2, <3>1, <3>2 DEF Limited
    <2> QED BY <2>4, <2>5
  <1> QED BY <1>2, <1>3 DEF AllLimited

\* A bucket to be had is a free one or one that has run dry.
LEMMA UsableIs ==
    ASSUME RateInv, NEW i \in R!FirstUsable
    PROVE  i \in R!Bucket /\ (R!Expired(buckets[i]) <=> buckets[i].address # 0)
  <1> DEFINE stops == {j \in R!Bucket : R!Expired(buckets[j]) \/ buckets[j].address = 0}
  <1>1. PICK some : some = stops
    OBVIOUS
  <1>2. some # {} /\ i = CHOOSE j \in some : \A k \in some : j <= k
    BY <1>1 DEF R!FirstUsable
  <1>3. some \in SUBSET Nat
    BY <1>1, BucketNumbers
  <1>4. i \in some
    BY <1>2, <1>3, LeastOf
  <1>5. i \in R!Bucket /\ (R!Expired(buckets[i]) \/ buckets[i].address = 0)
    BY <1>1, <1>4
  <1>6. Dated(buckets[i], now)
    BY <1>5 DEF RateInv, AllLimited
  <1>7. ~(0 > 0)
    OBVIOUS
  <1>8. buckets[i].address = 0 => ~R!Expired(buckets[i])
    BY <1>6, <1>7 DEF Dated, R!Expired
  <1> QED BY <1>5, <1>8

LEMMA AllocatedKeeps ==
    ASSUME RateInv, NEW a \in QueryAddresses, \A j \in R!Bucket : buckets[j].address # a, NEW i \in R!FirstUsable
    PROVE  LET s == R!Allocated(a, i)
           IN  WellChained(s.heads, s.buckets) /\ AllLimited(s.buckets, now, answered) /\ s.buckets[i].address = a
  <1>1. i \in R!Bucket /\ (R!Expired(buckets[i]) <=> buckets[i].address # 0)
    BY UsableIs
  <1>2. now \in 0..MaxQueryTime
    BY NowIs
  <1>3. PICK s : s = R!Allocated(a, i)
    OBVIOUS
  <1>4. /\ WellChained(s.heads, s.buckets)
        /\ s.buckets[i].address = a /\ s.buckets[i].lastTime = now /\ s.buckets[i].burst = 0
        /\ \A j \in R!Bucket : j # i => /\ s.buckets[j].address = buckets[j].address
                                        /\ s.buckets[j].lastTime = buckets[j].lastTime
                                        /\ s.buckets[j].burst = buckets[j].burst
    BY <1>1, <1>2, <1>3, AllocatedWell DEF RateInv
  <1>5. PICK bs, clock, ans : bs = buckets /\ clock = now /\ ans = answered
    OBVIOUS
  <1>6. /\ bs \in [R!Bucket -> ABucket] /\ clock \in 1..MaxQueryTime
        /\ ans \in [QueryAddresses -> Seq(1..MaxQueryTime)] /\ AllLimited(bs, clock, ans)
    BY <1>5 DEF RateInv, WellChained
  <1>7. bs[i].address # 0 => clock - bs[i].lastTime > Burst * Period
    BY <1>1, <1>5 DEF R!Expired
  <1>8. Reclaimed(bs, s.buckets, clock, a, i)
    BY <1>4, <1>5, <1>7 DEF Reclaimed
  <1>9. AllLimited(s.buckets, clock, ans)
    BY <1>1, <1>6, <1>8, ReclaimedLimits
  <1> QED BY <1>3, <1>4, <1>5, <1>9

LEMMA QueryKeeps == ASSUME RateInv, R!Query PROVE RateInv'
  <1>1. PICK a \in QueryAddresses : R!SVC_RateLimitAddress(a) /\ UNCHANGED now
    BY DEF R!Query
  <1>2. PICK found : found = R!InChain(a)
    OBVIOUS
  <1>3. found = {i \in R!Bucket : buckets[i].address = a}
    BY <1>2, InChainIs
  <1>4. CASE found # {}
    <2>1. PICK i : i = CHOOSE j \in found : TRUE
      OBVIOUS
    <2>2. i \in found
      BY <1>4, <2>1
    <2>3. i \in R!Bucket /\ buckets[i].address = a
      BY <1>3, <2>2
    <2>4. Fill(bucketHashes, buckets, a, i)
      BY <1>1, <1>2, <1>4, <2>1 DEF R!SVC_RateLimitAddress, Fill
    <2>5. PICK heads, bs : heads = bucketHashes /\ bs = buckets
      OBVIOUS
    <2>6. /\ WellChained(heads, bs) /\ AllLimited(bs, now, answered) /\ bs[i].address = a
          /\ Fill(heads, bs, a, i)
      BY <2>3, <2>4, <2>5 DEF RateInv
    <2> QED BY <1>1, <2>3, <2>6, FillKeeps
  <1>5. CASE found = {}
    <2>1. \A j \in R!Bucket : buckets[j].address # a
      BY <1>3, <1>5
    <2>2. PICK some : some = R!FirstUsable
      OBVIOUS
    <2>3. CASE some = {}
      <3>1. UNCHANGED <<buckets, bucketHashes, answered>>
        BY <1>1, <1>2, <1>5, <2>2, <2>3 DEF R!SVC_RateLimitAddress
      <3> QED BY <1>1, <3>1 DEF RateInv
    <2>4. CASE some # {}
      <3>1. PICK i : i = CHOOSE j \in some : TRUE
        OBVIOUS
      <3>2. i \in some
        BY <2>4, <3>1
      <3>3. PICK s : s = R!Allocated(a, i)
        OBVIOUS
      <3>4. /\ WellChained(s.heads, s.buckets) /\ AllLimited(s.buckets, now, answered)
            /\ s.buckets[i].address = a /\ i \in R!Bucket
        BY <2>1, <2>2, <3>2, <3>3, AllocatedKeeps, UsableIs
      <3>5. Fill(s.heads, s.buckets, a, i)
        BY <1>1, <1>2, <1>5, <2>2, <2>4, <3>1, <3>3 DEF R!SVC_RateLimitAddress, Fill
      <3> QED BY <1>1, <3>4, <3>5, FillKeeps
    <2> QED BY <2>3, <2>4
  <1> QED BY <1>4, <1>5

\* The clock goes on.
LEMMA LimitedLater ==
    ASSUME NEW bs, NEW clock \in 1..MaxQueryTime, NEW ans \in [QueryAddresses -> Seq(1..MaxQueryTime)],
           AllLimited(bs, clock, ans)
    PROVE  AllLimited(bs, clock + 1, ans)
  <1>1. clock \in Int /\ clock + 1 \in Int /\ clock <= clock + 1 /\ 0 \in Int
    BY PeriodIs
  <1>2. \A x \in 1..clock : x \in 1..clock + 1
    BY <1>1
  <1>3. ASSUME NEW i \in R!Bucket PROVE Dated(bs[i], clock + 1)
    BY <1>2 DEF AllLimited, Dated
  <1>4. ASSUME NEW a \in QueryAddresses PROVE Limited(bs, clock + 1, ans[a], a)
    <2>1. PICK s \in Seq(1..MaxQueryTime) : s = ans[a]
      OBVIOUS
    <2>2. Limited(bs, clock, s, a)
      BY <2>1 DEF AllLimited
    <2>3. PICK later : later = clock + 1
      OBVIOUS
    <2>4. Drops(s, 0, clock) => Drops(s, 0, later)
      BY <1>1, <2>3, DropsLater
    <2>5. Limited(bs, later, s, a)
      BY <2>2, <2>4 DEF Limited
    <2> QED BY <2>1, <2>3, <2>5
  <1> QED BY <1>3, <1>4 DEF AllLimited

LEMMA RateTickKeeps == ASSUME RateInv, R!Tick PROVE RateInv'
  <1>1. now < MaxQueryTime /\ now' = now + 1 /\ UNCHANGED <<buckets, bucketHashes, answered>>
    BY DEF R!Tick
  <1>2. PICK bs, clock, ans : bs = buckets /\ clock = now /\ ans = answered
    OBVIOUS
  <1>3. clock \in 1..MaxQueryTime /\ ans \in [QueryAddresses -> Seq(1..MaxQueryTime)] /\ AllLimited(bs, clock, ans)
    BY <1>2 DEF RateInv
  <1>4. AllLimited(bs, clock + 1, ans)
    BY <1>3, LimitedLater
  <1>5. clock + 1 \in 1..MaxQueryTime
    BY <1>1, <1>2, <1>3, PeriodIs
  <1>6. bs = buckets' /\ clock + 1 = now' /\ ans = answered'
    BY <1>1, <1>2
  <1>7. AllLimited(buckets', now', answered') /\ now' \in 1..MaxQueryTime
    BY <1>4, <1>5, <1>6
  <1> QED BY <1>1, <1>7 DEF RateInv

LEMMA RateStep == ASSUME RateInv, [Next]_vars PROVE RateInv'
  <1>1. CASE UNCHANGED rate
    BY <1>1 DEF RateInv, rate
  <1>2. CASE RunRate
    BY <1>2, QueryKeeps, RateTickKeeps DEF RunRate, R!Next
  <1>3. CASE UNCHANGED vars
    BY <1>1, <1>3 DEF vars
  <1>4. CASE Next /\ ~RunRate
    <2>1. UNCHANGED rate
      BY <1>4 DEF Next, RunDownload, RunVoip, RunHeap, RunSpawn, RunMaps, RunVotes, RunTime,
                  RunAliens, RunMaster
    <2> QED BY <1>1, <2>1
  <1> QED BY <1>2, <1>3, <1>4

LEMMA RateInit == ASSUME Init PROVE RateInv
  <1>1. /\ now = 1 /\ buckets = [i \in R!Bucket |-> R!Free]
        /\ bucketHashes = [h \in R!Hashes |-> 0] /\ answered = [a \in QueryAddresses |-> <<>>]
    BY DEF Init, R!Init
  <1>2. PICK bs, heads, clock, ans : bs = buckets /\ heads = bucketHashes /\ clock = now /\ ans = answered
    OBVIOUS
  <1>3. /\ R!Free \in ABucket /\ R!Free.address = 0 /\ R!Free.lastTime = 0
    BY BucketNumbers, PeriodIs DEF R!Free, ABucket
  <1>4. /\ bs \in [R!Bucket -> ABucket] /\ heads \in [R!Hashes -> 0..MAX_BUCKETS]
        /\ \A i \in R!Bucket : bs[i] = R!Free
    BY <1>1, <1>2, <1>3, BucketNumbers
  <1>5. clock = 1 /\ clock \in 1..MaxQueryTime /\ ans \in [QueryAddresses -> Seq(1..MaxQueryTime)]
        /\ \A a \in QueryAddresses : ans[a] = <<>>
    BY <1>1, <1>2, PeriodIs
  <1>6. WellChained(heads, bs)
    <2> DEFINE chains == [h \in R!Hashes |-> <<>>]
    <2>1. chains \in [R!Hashes -> Seq(R!Bucket)]
      OBVIOUS
    <2>2. ASSUME NEW h \in R!Hashes
          PROVE  Enumerates(chains[h], Of(bs, h)) /\ Linked(chains[h], heads[h], bs)
      <3>1. chains[h] = <<>> /\ heads[h] = 0 /\ Of(bs, h) = {}
        BY <1>1, <1>2, <1>3, <1>4 DEF Of
      <3>2. 1..Len(<<>>) = {}
        OBVIOUS
      <3>3. Enumerates(<<>>, {}) /\ Linked(<<>>, 0, bs)
        BY <3>2 DEF Enumerates, Linked
      <3> QED BY <3>1, <3>3
    <2>3. Chained(chains, heads, bs)
      BY <2>2 DEF Chained
    <2> QED BY <1>3, <1>4, <2>1, <2>3 DEF WellChained
  <1>7. AllLimited(bs, clock, ans)
    <2>1. \A i \in R!Bucket : Dated(bs[i], clock)
      BY <1>3, <1>4 DEF Dated
    <2>2. 1..Len(<<>>) = {}
      OBVIOUS
    <2>3. \A x, y : Drops(<<>>, x, y)
      BY <2>2 DEF Drops
    <2>4. Spread(<<>>)
      BY <2>2 DEF Spread
    <2>5. \A a \in QueryAddresses : Limited(bs, clock, <<>>, a)
      BY <2>3, <2>4 DEF Limited
    <2> QED BY <1>5, <2>1, <2>5 DEF AllLimited
  <1> QED BY <1>2, <1>5, <1>6, <1>7 DEF RateInv

LEMMA RateInvHolds == ASSUME RateInv PROVE R!BucketsHold
  <1>1. R!TypeOK
    BY DEF RateInv, WellChained, ABucket, R!TypeOK
  <1>2. R!ChainsExact
    <2>1. ASSUME NEW h \in R!Hashes, NEW c, c = R!Chain(bucketHashes, buckets, h)
          PROVE  /\ R!IsInjective(c) /\ R!Range(c) = Of(buckets, h)
                 /\ \A k \in 1..Len(c) : buckets[c[k]].prev = (IF k = 1 THEN 0 ELSE c[k - 1])
      <3>1. c \in Seq(R!Bucket) /\ Enumerates(c, Of(buckets, h)) /\ Linked(c, bucketHashes[h], buckets)
        BY <2>1, ChainOf
      <3>2. DOMAIN c = 1..Len(c)
        BY <3>1
      <3>3. R!IsInjective(c)
        BY <3>1, <3>2 DEF Enumerates, R!IsInjective
      <3>4. R!Range(c) = Of(buckets, h)
        BY <3>1, <3>2 DEF Enumerates, R!Range
      <3> QED BY <3>1, <3>3, <3>4 DEF Linked
    <2>2. \A i, j \in R!Bucket : i # j /\ buckets[i].address # 0 => buckets[i].address # buckets[j].address
      BY DEF RateInv, WellChained
    <2>3. \A i, j \in R!Bucket : buckets[i].address = buckets[j].address => i = j \/ buckets[i].address = 0
      BY <2>2
    <2> QED BY <2>1, <2>3 DEF R!ChainsExact, Of
  <1>3. R!LimitHolds
    <2> SUFFICES ASSUME NEW a \in QueryAddresses, NEW i \in 1..Len(answered[a]), NEW j \in 1..Len(answered[a]), i <= j
                 PROVE  j - i + 1 <= Burst + 1 + (answered[a][j] - answered[a][i]) \div Period
      BY DEF R!LimitHolds
    <2>1. PICK s : s = answered[a]
      OBVIOUS
    <2>2. s \in Seq(1..MaxQueryTime) /\ Limited(buckets, now, s, a)
      BY <2>1 DEF RateInv, AllLimited
    <2>3. Spread(s)
      BY <2>2 DEF Limited
    <2>4. PICK m, n : m = i /\ n = j
      OBVIOUS
    <2>5. m \in 1..Len(s) /\ n \in 1..Len(s) /\ m <= n
      BY <2>1, <2>4
    <2>6. n - m + 1 <= Burst + 1 + (s[n] - s[m]) \div Period
      BY <2>2, <2>3, <2>5, SpreadIsLimit
    <2> QED BY <2>1, <2>4, <2>6
  <1> QED BY <1>1, <1>2, <1>3 DEF R!BucketsHold

\* SVC_BucketForAddress keeps every bucket in the chain of its address, linked
\* both ways, whichever it reclaims, and SVC_RateLimit answers no address more
\* often than its rate and burst allow, though its bucket may have been another's
\* in between: for any addresses, hash, limits and number of buckets.
THEOREM Buckets == Spec => []BucketsHold
  <1>1. Init => RateInv
    BY RateInit
  <1>2. RateInv /\ [Next]_vars => RateInv'
    BY RateStep
  <1>3. RateInv => BucketsHold
    BY RateInvHolds DEF BucketsHold
  <1> QED BY <1>1, <1>2, <1>3, PTL DEF Spec

-----------------------------------------------------------------------------
(* Votes *)

Ballot == {"none", "yes", "no"}

AVoter == [connected : BOOLEAN, team : VoteTeams, voted : SUBSET VoteTeams, vote : SUBSET VoteTeams]

AVote == [time : -1..VOTE_TIME - 1, execute : -1..ExecuteDelay, yes : Int, no : Int,
          threshold : {n \in Nat : n >= 50}, number : Nat]

\* What a client's bits say of his ballot, as long as he has a say.
SaidBy(voter, t) ==
    IF voter.connected /\ (t = "none" \/ voter.team = t) /\ t \in voter.voted
    THEN IF t \in voter.vote THEN "yes" ELSE "no"
    ELSE "none"

Cast(b, d) == {c \in Clients : b[c] = d}

\* A team's ballots are what the bits say, and its counts those of the ballots.
Counts(vs, v, b, t) ==
    /\ \A c \in Clients : b[c] = SaidBy(vs[c], t)
    /\ v.yes = Cardinality(Cast(b, "yes")) /\ v.no = Cardinality(Cast(b, "no"))

\* Nobody has voted where no vote is in progress, and none is while one waits to
\* be executed.
OneAtATime(vs, v, t) ==
    /\ v.time = -1 => \A c \in Clients : t \notin vs[c].voted
    /\ v.time # -1 => v.execute = -1

InTurn(v, done, won) == done \o (IF v.execute # -1 THEN <<v.number>> ELSE <<>>) = won

TeamInv(vs, v, b, back, done, won, t) ==
    /\ v \in AVote /\ b \in [Clients -> Ballot]
    /\ OneAtATime(vs, v, t)
    /\ t \notin back => Counts(vs, v, b, t)
    /\ done \in Seq(Nat) /\ InTurn(v, done, won)

VotesKeep(vs, vote, bs, back, done, won) ==
    /\ vs \in [Clients -> AVoter] /\ vote \in [VoteTeams -> AVote]
    /\ DOMAIN bs = VoteTeams /\ DOMAIN done = VoteTeams /\ DOMAIN won = VoteTeams
    /\ \A t \in VoteTeams : TeamInv(vs, vote[t], bs[t], back, done[t], won[t], t)

VotesInv == VotesKeep(voters, level, ballots, returned, executed, passed)

LEMMA VoteNumbers == /\ IsFiniteSet(Clients) /\ "none" \in VoteTeams
                     /\ VOTE_TIME \in Nat \ {0} /\ ExecuteDelay \in Nat
                     /\ \A n \in Thresholds : n \in Nat /\ n >= 50
  <1>1. IsFiniteSet(Clients)
    BY VotesInstance DEF Q!VotesAssumption, Q!IsFiniteSet, IsFiniteSet
  <1> QED BY <1>1, VotesInstance DEF Q!VotesAssumption

LEMMA CastCounts == ASSUME NEW b, NEW d
                    PROVE  /\ IsFiniteSet(Cast(b, d)) /\ Cardinality(Cast(b, d)) \in Nat
                           /\ Cardinality(Cast(b, d)) <= Cardinality(Clients)
  <1>1. Cast(b, d) \subseteq Clients
    BY DEF Cast
  <1> QED BY <1>1, VoteNumbers, FS_Subset, FS_CardinalityType

\* A ballot more.
OneMore(b, more, c, d) ==
    b[c] = "none" /\ more[c] = d /\ \A x \in Clients : x # c => more[x] = b[x]

LEMMA CastOne ==
    ASSUME NEW b, NEW more, NEW c \in Clients, NEW d \in {"yes", "no"}, OneMore(b, more, c, d)
    PROVE  /\ Cardinality(Cast(more, d)) = Cardinality(Cast(b, d)) + 1
           /\ d = "yes" => Cast(more, "no") = Cast(b, "no")
           /\ d = "no" => Cast(more, "yes") = Cast(b, "yes")
  <1>1. Cast(more, d) = Cast(b, d) \cup {c} /\ c \notin Cast(b, d)
    BY DEF Cast, OneMore
  <1>2. Cardinality(Cast(more, d)) = Cardinality(Cast(b, d)) + 1
    BY <1>1, CastCounts, FS_AddElement
  <1>3. /\ d = "yes" => Cast(more, "no") = Cast(b, "no")
        /\ d = "no" => Cast(more, "yes") = Cast(b, "yes")
    BY DEF Cast, OneMore
  <1> QED BY <1>2, <1>3

\* Where bits and ballots of a team stay.
LEMMA TeamKept ==
    ASSUME NEW vs, NEW others, NEW v, NEW b, NEW back, NEW more, NEW done, NEW won, NEW t,
           TeamInv(vs, v, b, back, done, won, t), t \in back => t \in more,
           t \notin more => \A c \in Clients : SaidBy(others[c], t) = SaidBy(vs[c], t),
           \A c \in Clients : t \in others[c].voted => t \in vs[c].voted
    PROVE  TeamInv(others, v, b, more, done, won, t)
  <1>1. OneAtATime(others, v, t)
    BY DEF TeamInv, OneAtATime
  <1>2. t \notin more => Counts(others, v, b, t)
    BY DEF TeamInv, Counts
  <1> QED BY <1>1, <1>2 DEF TeamInv

\* Client c, who had a say, has none any more: his ballot is taken back.
Leaves(vs, others, c, t) ==
    /\ vs[c].connected /\ (t = "none" \/ vs[c].team = t)
    /\ \A x \in Clients : x # c => others[x] = vs[x]
    /\ SaidBy(others[c], t) = "none" /\ (t \in others[c].voted => t \in vs[c].voted)

Retracted(v, w, b, less, voter, c, t) ==
    /\ w = IF v.time # -1 /\ t \in voter.voted THEN Q!Counted(v, voter, t, -1) ELSE v
    /\ less = [b EXCEPT ![c] = "none"]

LEMMA TeamLeft ==
    ASSUME NEW vs, NEW others, NEW v, NEW b, NEW back, NEW more, NEW done, NEW won,
           NEW t, NEW c \in Clients, NEW w, NEW less,
           TeamInv(vs, v, b, back, done, won, t), back \subseteq more,
           Leaves(vs, others, c, t), Retracted(v, w, b, less, vs[c], c, t)
    PROVE  TeamInv(others, w, less, more, done, won, t) /\ w \in AVote
  <1> USE DEF Leaves, Retracted
  <1>1. v \in AVote /\ b \in [Clients -> Ballot] /\ OneAtATime(vs, v, t) /\ InTurn(v, done, won)
    BY DEF TeamInv
  <1>2. less \in [Clients -> Ballot] /\ less[c] = "none" /\ \A x \in Clients : x # c => less[x] = b[x]
    BY <1>1 DEF Ballot
  <1>3. /\ w \in AVote /\ w.time = v.time /\ w.execute = v.execute /\ w.number = v.number
        /\ v.time # -1 /\ t \in vs[c].voted =>
              IF t \in vs[c].vote THEN w.yes = v.yes - 1 /\ w.no = v.no ELSE w.no = v.no - 1 /\ w.yes = v.yes
        /\ ~(v.time # -1 /\ t \in vs[c].voted) => w.yes = v.yes /\ w.no = v.no
    <2>1. v.yes \in Int /\ v.no \in Int /\ v.yes + -1 = v.yes - 1 /\ v.no + -1 = v.no - 1
      BY <1>1 DEF AVote
    <2>2. CASE v.time # -1 /\ t \in vs[c].voted /\ t \in vs[c].vote
      <3>1. w = [v EXCEPT !.yes = v.yes - 1]
        BY <2>1, <2>2 DEF Q!Counted
      <3> QED BY <1>1, <2>1, <2>2, <3>1 DEF AVote
    <2>3. CASE v.time # -1 /\ t \in vs[c].voted /\ t \notin vs[c].vote
      <3>1. w = [v EXCEPT !.no = v.no - 1]
        BY <2>1, <2>3 DEF Q!Counted
      <3> QED BY <1>1, <2>1, <2>3, <3>1 DEF AVote
    <2>4. CASE ~(v.time # -1 /\ t \in vs[c].voted)
      BY <1>1, <2>4
    <2> QED BY <2>2, <2>3, <2>4
  <1>4. OneAtATime(others, w, t) /\ InTurn(w, done, won)
    BY <1>1, <1>3 DEF OneAtATime, InTurn
  <1>5. ASSUME t \notin more PROVE Counts(others, w, less, t)
    <2>1. Counts(vs, v, b, t)
      BY <1>5 DEF TeamInv
    <2>2. \A x \in Clients : less[x] = SaidBy(others[x], t)
      BY <1>2, <2>1 DEF Counts
    <2>3. b[c] = IF t \in vs[c].voted THEN IF t \in vs[c].vote THEN "yes" ELSE "no" ELSE "none"
      BY <2>1 DEF Counts, SaidBy
    <2>4. t \in vs[c].voted => v.time # -1
      BY <1>1 DEF OneAtATime
    <2>5. CASE t \in vs[c].voted
      <3>1. PICK d \in {"yes", "no"} : d = b[c] /\ (d = "yes" <=> t \in vs[c].vote)
        BY <2>3, <2>5
      <3>2. /\ Cardinality(Cast(b, d)) = Cardinality(Cast(less, d)) + 1
            /\ d = "yes" => Cast(b, "no") = Cast(less, "no")
            /\ d = "no" => Cast(b, "yes") = Cast(less, "yes")
        <4>1. OneMore(less, b, c, d)
          BY <1>2, <3>1 DEF OneMore
        <4> QED BY <4>1, CastOne
      <3>3. Cardinality(Cast(less, "yes")) \in Nat /\ Cardinality(Cast(less, "no")) \in Nat
        BY CastCounts
      <3>4. v.yes = Cardinality(Cast(b, "yes")) /\ v.no = Cardinality(Cast(b, "no"))
        BY <2>1 DEF Counts
      <3>5. w.yes = Cardinality(Cast(less, "yes")) /\ w.no = Cardinality(Cast(less, "no"))
        <4>1. CASE d = "yes"
          <5>1. Cardinality(Cast(b, "yes")) = Cardinality(Cast(less, "yes")) + 1 /\ Cast(b, "no") = Cast(less, "no")
            BY <3>2, <4>1
          <5>2. w.yes = v.yes - 1 /\ w.no = v.no
            BY <1>3, <2>4, <2>5, <3>1, <4>1
          <5> QED BY <3>3, <3>4, <5>1, <5>2
        <4>2. CASE d = "no"
          <5>1. Cardinality(Cast(b, "no")) = Cardinality(Cast(less, "no")) + 1 /\ Cast(b, "yes") = Cast(less, "yes")
            BY <3>2, <4>2
          <5>2. w.no = v.no - 1 /\ w.yes = v.yes
            BY <1>3, <2>4, <2>5, <3>1, <4>2
          <5> QED BY <3>3, <3>4, <5>1, <5>2
        <4> QED BY <4>1, <4>2, <3>1
      <3> QED BY <2>2, <3>5 DEF Counts
    <2>6. CASE t \notin vs[c].voted
      <3>1. \A x \in Clients : less[x] = b[x]
        BY <1>2, <2>3, <2>6
      <3>2. Cast(less, "yes") = Cast(b, "yes") /\ Cast(less, "no") = Cast(b, "no")
        BY <3>1 DEF Cast
      <3> QED BY <1>3, <2>1, <2>2, <2>6, <3>2 DEF Counts
    <2> QED BY <2>5, <2>6
  <1> QED BY <1>2, <1>3, <1>4, <1>5 DEF TeamInv

\* Client c votes d.
Speaks(vs, others, b, more, c, t, d) ==
    /\ c \in Clients /\ d \in {"yes", "no"}
    /\ t \notin vs[c].voted
    /\ \A x \in Clients : x # c => others[x] = vs[x]
    /\ SaidBy(others[c], t) = d
    /\ more = [b EXCEPT ![c] = d]

\* The vote w counts it, if v had the count right.
CountsIn(v, w, d, t, back) ==
    /\ w \in AVote /\ w.time # -1 /\ w.execute = -1
    /\ t \notin back => /\ w.yes = (IF d = "yes" THEN v.yes + 1 ELSE v.yes)
                        /\ w.no = (IF d = "no" THEN v.no + 1 ELSE v.no)

LEMMA TeamVoted ==
    ASSUME NEW vs, NEW others, NEW v, NEW b, NEW more, NEW back, NEW done, NEW won,
           NEW t, NEW c, NEW w, NEW d,
           TeamInv(vs, v, b, back, done, won, t), Speaks(vs, others, b, more, c, t, d),
           CountsIn(v, w, d, t, back)
    PROVE  TeamInv(others, w, more, back, won, won, t)
  <1> USE DEF Speaks, CountsIn
  <1>1. b \in [Clients -> Ballot]
    BY DEF TeamInv
  <1>2. more \in [Clients -> Ballot] /\ more[c] = d /\ \A x \in Clients : x # c => more[x] = b[x]
    BY <1>1 DEF Ballot
  <1>3. OneAtATime(others, w, t)
    BY DEF OneAtATime
  <1>7. won \in Seq(Nat)
    <2>1. done \in Seq(Nat) /\ v.number \in Nat /\ InTurn(v, done, won)
      BY DEF TeamInv, AVote
    <2>2. done \o <<>> \in Seq(Nat) /\ done \o <<v.number>> \in Seq(Nat)
      BY <2>1
    <2> QED BY <2>1, <2>2 DEF InTurn
  <1>4. won \o <<>> = won
    BY <1>7
  <1>5. InTurn(w, won, won)
    BY <1>4 DEF InTurn
  <1>6. ASSUME t \notin back PROVE Counts(others, w, more, t)
    <2>1. Counts(vs, v, b, t)
      BY <1>6 DEF TeamInv
    <2>2. \A x \in Clients : more[x] = SaidBy(others[x], t)
      BY <1>2, <2>1 DEF Counts
    <2>3. b[c] = "none"
      BY <2>1 DEF Counts, SaidBy
    <2>9. OneMore(b, more, c, d)
      BY <1>2, <2>3 DEF OneMore
    <2>4. /\ Cardinality(Cast(more, d)) = Cardinality(Cast(b, d)) + 1
          /\ d = "yes" => Cast(more, "no") = Cast(b, "no")
          /\ d = "no" => Cast(more, "yes") = Cast(b, "yes")
      BY <2>9, CastOne
    <2>5. v.yes = Cardinality(Cast(b, "yes")) /\ v.no = Cardinality(Cast(b, "no"))
      BY <2>1 DEF Counts
    <2>6. w.yes = Cardinality(Cast(more, "yes")) /\ w.no = Cardinality(Cast(more, "no"))
      <3>1. /\ w.yes = (IF d = "yes" THEN v.yes + 1 ELSE v.yes)
            /\ w.no = (IF d = "no" THEN v.no + 1 ELSE v.no)
        BY <1>6
      <3>2. CASE d = "yes"
        BY <2>4, <2>5, <3>1, <3>2
      <3>3. CASE d = "no"
        BY <2>4, <2>5, <3>1, <3>3
      <3> QED BY <3>2, <3>3
    <2> QED BY <2>2, <2>6 DEF Counts
  <1> QED BY <1>2, <1>3, <1>5, <1>6, <1>7 DEF TeamInv

NoneCast == [c \in Clients |-> "none"]

LEMMA NobodyCast == /\ NoneCast \in [Clients -> Ballot]
                    /\ Cardinality(Cast(NoneCast, "yes")) = 0 /\ Cardinality(Cast(NoneCast, "no")) = 0
  <1>1. Cast(NoneCast, "yes") = {} /\ Cast(NoneCast, "no") = {}
    BY DEF Cast, NoneCast
  <1> QED BY <1>1, FS_EmptySet DEF NoneCast, Ballot

\* A vote as G_CheckVote finds it: older by a frame, or with its counts set.
Found(v, w) ==
    /\ w \in [time : -1..VOTE_TIME, execute : -1..ExecuteDelay + 1, yes : Int, no : Int,
              threshold : {n \in Nat : n >= 50}, number : Nat]
    /\ w.time = -1 <=> v.time = -1
    /\ w.execute = -1 <=> v.execute = -1
    /\ w.number = v.number

\* What G_CheckVote makes of it, when it is over, or passes.
Checked(w, over, passes) ==
    LET due == IF w.execute > ExecuteDelay THEN [w EXCEPT !.execute = -1] ELSE w
    IN  IF ~over THEN due
        ELSE [due EXCEPT !.time = -1, !.yes = 0, !.no = 0, !.execute = IF passes THEN 0 ELSE @]

\* The clients after the votes of `ended` are over.
WithoutBits(vs, ended) == [c \in Clients |-> [vs[c] EXCEPT !.voted = @ \ ended, !.vote = @ \ ended]]

LEMMA BitsLeft ==
    ASSUME NEW vs \in [Clients -> AVoter], NEW ended
    PROVE  /\ WithoutBits(vs, ended) \in [Clients -> AVoter]
           /\ \A c \in Clients : \A t : t \in WithoutBits(vs, ended)[c].voted <=> t \in vs[c].voted /\ t \notin ended
           /\ \A c \in Clients : \A t : t \notin ended => SaidBy(WithoutBits(vs, ended)[c], t) = SaidBy(vs[c], t)
  <1>1. ASSUME NEW c \in Clients
        PROVE  /\ WithoutBits(vs, ended)[c] \in AVoter
               /\ \A t : t \in WithoutBits(vs, ended)[c].voted <=> t \in vs[c].voted /\ t \notin ended
               /\ \A t : t \notin ended => SaidBy(WithoutBits(vs, ended)[c], t) = SaidBy(vs[c], t)
    <2>1. PICK v \in AVoter : v = vs[c]
      OBVIOUS
    <2>2. PICK w : w = [v EXCEPT !.voted = v.voted \ ended, !.vote = v.vote \ ended]
      OBVIOUS
    <2>3. WithoutBits(vs, ended)[c] = w
      BY <2>1, <2>2 DEF WithoutBits
    <2>4. /\ w.connected = v.connected /\ w.team = v.team
          /\ w.voted = v.voted \ ended /\ w.vote = v.vote \ ended
      BY <2>2 DEF AVoter
    <2>5. w \in AVoter
      BY <2>2 DEF AVoter
    <2>6. ASSUME NEW t, t \notin ended PROVE SaidBy(w, t) = SaidBy(v, t)
      BY <2>4, <2>6 DEF SaidBy
    <2> QED BY <2>1, <2>3, <2>4, <2>5, <2>6
  <1>2. DOMAIN WithoutBits(vs, ended) = Clients /\ WithoutBits(vs, ended) = [c \in Clients |-> WithoutBits(vs, ended)[c]]
    BY DEF WithoutBits
  <1>3. WithoutBits(vs, ended) \in [Clients -> AVoter]
    BY <1>1, <1>2
  <1> QED BY <1>1, <1>3

LEMMA CheckedIs ==
    ASSUME NEW v, NEW w, Found(v, w), NEW over \in BOOLEAN, NEW passes \in BOOLEAN,
           over => w.time # -1 /\ w.execute = -1, ~over => w.time # VOTE_TIME
    PROVE  /\ Checked(w, over, passes) \in AVote
           /\ Checked(w, over, passes).number = v.number
           /\ over => /\ Checked(w, over, passes).time = -1
                      /\ Checked(w, over, passes).yes = 0 /\ Checked(w, over, passes).no = 0
                      /\ Checked(w, over, passes).execute = (IF passes THEN 0 ELSE -1)
           /\ ~over => /\ Checked(w, over, passes).time = w.time
                       /\ Checked(w, over, passes).yes = w.yes /\ Checked(w, over, passes).no = w.no
                       /\ Checked(w, over, passes).execute = (IF w.execute > ExecuteDelay THEN -1 ELSE w.execute)
  <1> USE VoteNumbers
  <1>1. /\ w.time \in -1..VOTE_TIME /\ w.execute \in -1..ExecuteDelay + 1 /\ w.yes \in Int /\ w.no \in Int
        /\ w.threshold \in {n \in Nat : n >= 50} /\ w.number \in Nat /\ w.number = v.number
        /\ w = [time |-> w.time, execute |-> w.execute, yes |-> w.yes, no |-> w.no,
                threshold |-> w.threshold, number |-> w.number]
    BY DEF Found
  <1>2. -1 \in -1..VOTE_TIME - 1 /\ 0 \in -1..ExecuteDelay /\ -1 \in -1..ExecuteDelay /\ 0 \in Int
        /\ ~(-1 > ExecuteDelay)
    OBVIOUS
  <1>3. CASE over
    <2>1. w.execute = -1 /\ ~(w.execute > ExecuteDelay)
      BY <1>2, <1>3
    <2>2. Checked(w, over, passes) =
            [time |-> -1, execute |-> IF passes THEN 0 ELSE -1, yes |-> 0, no |-> 0,
             threshold |-> w.threshold, number |-> w.number]
      <3> HIDE VoteNumbers
      <3>1. Checked(w, over, passes) =
              [w EXCEPT !.time = -1, !.yes = 0, !.no = 0, !.execute = IF passes THEN 0 ELSE -1]
        BY <1>3, <2>1 DEF Checked
      <3> QED BY <1>1, <3>1
    <2>3. PICK r : r = Checked(w, over, passes)
      OBVIOUS
    <2>4. /\ r.time = -1 /\ r.execute = (IF passes THEN 0 ELSE -1) /\ r.yes = 0 /\ r.no = 0
          /\ r.number = w.number
      BY <2>2, <2>3
    <2>5. r \in AVote
      <3>1. PICK e : e = IF passes THEN 0 ELSE -1
        OBVIOUS
      <3>2. e \in -1..ExecuteDelay
        BY <1>2, <3>1
      <3> QED BY <1>1, <1>2, <2>2, <2>3, <3>1, <3>2 DEF AVote
    <2> QED BY <1>1, <1>3, <2>3, <2>4, <2>5
  <1>4. CASE ~over
    <2>1. w.time \in -1..VOTE_TIME - 1
      BY <1>1, <1>4
    <2>2. CASE w.execute > ExecuteDelay
      <3>1. Checked(w, over, passes) =
              [time |-> w.time, execute |-> -1, yes |-> w.yes, no |-> w.no,
               threshold |-> w.threshold, number |-> w.number]
        <4> HIDE VoteNumbers
        <4>1. Checked(w, over, passes) = [w EXCEPT !.execute = -1]
          BY <1>4, <2>2 DEF Checked
        <4> QED BY <1>1, <4>1
      <3> QED BY <1>1, <1>2, <1>4, <2>1, <2>2, <3>1 DEF AVote
    <2>3. CASE ~(w.execute > ExecuteDelay)
      <3>1. Checked(w, over, passes) = w
        BY <1>4, <2>3 DEF Checked
      <3>2. w.execute \in -1..ExecuteDelay
        BY <1>1, <2>3
      <3> QED BY <1>1, <1>4, <2>1, <2>3, <3>1, <3>2 DEF AVote
    <2> QED BY <2>2, <2>3
  <1> QED BY <1>3, <1>4

\* A vote that G_CheckVote looks at.
LEMMA TeamChecked ==
    ASSUME NEW vs \in [Clients -> AVoter], NEW ended, NEW v, NEW w, NEW b, NEW back, NEW done, NEW won, NEW t,
           TeamInv(vs, v, b, back, done, won, t), Found(v, w),
           NEW over \in BOOLEAN, NEW passes \in BOOLEAN, over <=> t \in ended,
           over => w.time # -1, ~over => w.time # VOTE_TIME /\ w.yes = v.yes /\ w.no = v.no
    PROVE  TeamInv(WithoutBits(vs, ended), Checked(w, over, passes), IF over THEN NoneCast ELSE b, back \ ended,
                   IF w.execute > ExecuteDelay THEN Append(done, w.number) ELSE done,
                   IF over /\ passes THEN Append(won, w.number) ELSE won, t)
  <1>1. v \in AVote /\ b \in [Clients -> Ballot] /\ OneAtATime(vs, v, t) /\ done \in Seq(Nat) /\ InTurn(v, done, won)
    BY DEF TeamInv
  <1>2. over => v.time # -1 /\ v.execute = -1 /\ w.execute = -1
    BY <1>1 DEF Found, OneAtATime
  <1>3. ~(-1 > ExecuteDelay) /\ w.number \in Nat /\ w.number = v.number
    BY VoteNumbers DEF Found
  <1>4. PICK vs2, u : vs2 = WithoutBits(vs, ended) /\ u = Checked(w, over, passes)
    OBVIOUS
  <1>5. /\ \A c \in Clients : t \in vs2[c].voted <=> t \in vs[c].voted /\ t \notin ended
        /\ \A c \in Clients : t \notin ended => SaidBy(vs2[c], t) = SaidBy(vs[c], t)
    BY <1>4, BitsLeft
  <1>6. /\ u \in AVote /\ u.number = v.number
        /\ over => u.time = -1 /\ u.yes = 0 /\ u.no = 0 /\ u.execute = (IF passes THEN 0 ELSE -1)
        /\ ~over => /\ u.time = w.time /\ u.yes = w.yes /\ u.no = w.no
                    /\ u.execute = (IF w.execute > ExecuteDelay THEN -1 ELSE w.execute)
    BY <1>2, <1>4, CheckedIs
  <1>7. done \o <<>> = done /\ done \o <<w.number>> = Append(done, w.number) /\ Append(done, w.number) \in Seq(Nat)
    BY <1>1, <1>3
  <1>8. CASE over
    <2>1. done = won
      BY <1>1, <1>2, <1>7, <1>8 DEF InTurn
    <2>2. OneAtATime(vs2, u, t)
      BY <1>5, <1>6, <1>8 DEF OneAtATime
    <2>3. Counts(vs2, u, NoneCast, t)
      <3>1. \A c \in Clients : NoneCast[c] = SaidBy(vs2[c], t)
        BY <1>5, <1>8 DEF NoneCast, SaidBy
      <3> QED BY <1>6, <1>8, <3>1, NobodyCast DEF Counts
    <2>4. InTurn(u, done, IF passes THEN Append(won, w.number) ELSE won)
      BY <1>3, <1>6, <1>7, <1>8, <2>1 DEF InTurn
    <2>5. TeamInv(vs2, u, NoneCast, back \ ended, done, IF passes THEN Append(won, w.number) ELSE won, t)
      BY <1>1, <1>6, <2>2, <2>3, <2>4, NobodyCast DEF TeamInv
    <2> QED BY <1>2, <1>3, <1>4, <1>8, <2>5
  <1>9. CASE ~over
    <2>1. v.time = -1 <=> u.time = -1
      BY <1>6, <1>9 DEF Found
    <2>2. OneAtATime(vs2, u, t)
      BY <1>1, <1>5, <1>6, <1>9, <2>1 DEF OneAtATime, Found
    <2>3. t \notin back \ ended => Counts(vs2, u, b, t)
      BY <1>5, <1>6, <1>9 DEF Counts, TeamInv
    <2>4. CASE w.execute > ExecuteDelay
      <3>1. w.execute # -1 /\ v.execute # -1 /\ u.execute = -1
        BY <1>3, <1>6, <1>9, <2>4 DEF Found
      <3>2. Append(done, w.number) = won /\ Append(done, w.number) \o <<>> = Append(done, w.number)
        BY <1>1, <1>3, <1>7, <3>1 DEF InTurn
      <3>3. InTurn(u, Append(done, w.number), won)
        BY <3>1, <3>2 DEF InTurn
      <3>4. TeamInv(vs2, u, b, back \ ended, Append(done, w.number), won, t)
        BY <1>1, <1>6, <1>7, <2>2, <2>3, <3>3 DEF TeamInv
      <3> QED BY <1>4, <1>9, <2>4, <3>4
    <2>5. CASE ~(w.execute > ExecuteDelay)
      <3>1. u.execute = w.execute /\ (u.execute = -1 <=> v.execute = -1)
        BY <1>6, <1>9, <2>5 DEF Found
      <3>2. InTurn(u, done, won)
        BY <1>1, <1>6, <3>1 DEF InTurn
      <3>3. TeamInv(vs2, u, b, back \ ended, done, won, t)
        BY <1>1, <1>6, <2>2, <2>3, <3>2 DEF TeamInv
      <3> QED BY <1>4, <1>9, <2>5, <3>3
    <2> QED BY <2>4, <2>5
  <1> QED BY <1>8, <1>9

LEMMA GoneIs == /\ Q!Gone \in AVoter /\ [Q!Gone EXCEPT !.connected = TRUE] \in AVoter
                /\ Q!Gone.voted = {} /\ [Q!Gone EXCEPT !.connected = TRUE].voted = {}
  <1>1. Q!Gone = [connected |-> FALSE, team |-> "none", voted |-> {}, vote |-> {}]
    BY DEF Q!Gone
  <1>3. PICK gone : gone = Q!Gone
    OBVIOUS
  <1>4. gone \in AVoter /\ gone.voted = {}
    BY <1>1, <1>3, VoteNumbers DEF AVoter
  <1>5. [gone EXCEPT !.connected = TRUE] \in AVoter /\ [gone EXCEPT !.connected = TRUE].voted = gone.voted
    BY <1>4 DEF AVoter
  <1> QED BY <1>3, <1>4, <1>5

LEMMA BeginKeeps == ASSUME VotesInv, NEW c \in Clients, Q!ClientBegin(c) PROVE VotesInv'
  <1>1. PICK vs, vote, bs, back, done, won :
             /\ vs = voters /\ vote = level /\ bs = ballots /\ back = returned /\ done = executed /\ won = passed
    OBVIOUS
  <1>2. VotesKeep(vs, vote, bs, back, done, won)
    BY <1>1 DEF VotesInv
  <1>3. PICK fresh : fresh = [Q!Gone EXCEPT !.connected = TRUE]
    OBVIOUS
  <1>4. PICK others : others = [vs EXCEPT ![c] = fresh]
    OBVIOUS
  <1>5. ~vs[c].connected /\ voters' = others
    BY <1>1, <1>3, <1>4 DEF Q!ClientBegin
  <1>6. level' = vote /\ ballots' = bs /\ returned' = back /\ executed' = done /\ passed' = won
    BY <1>1 DEF Q!ClientBegin
  <1>7. fresh \in AVoter /\ fresh.voted = {}
    BY <1>3, GoneIs
  <1>8. others \in [Clients -> AVoter]
    BY <1>2, <1>4, <1>7 DEF VotesKeep
  <1>9. \A t : SaidBy(fresh, t) = "none" /\ SaidBy(vs[c], t) = "none"
    BY <1>5, <1>7 DEF SaidBy
  <1>10. others[c] = fresh /\ \A x \in Clients : x # c => others[x] = vs[x]
    BY <1>2, <1>4 DEF VotesKeep
  <1>11. ASSUME NEW t \in VoteTeams PROVE TeamInv(others, vote[t], bs[t], back, done[t], won[t], t)
    <2>1. TeamInv(vs, vote[t], bs[t], back, done[t], won[t], t)
      BY <1>2 DEF VotesKeep
    <2>2. \A x \in Clients : SaidBy(others[x], t) = SaidBy(vs[x], t)
      BY <1>9, <1>10
    <2>3. \A x \in Clients : t \in others[x].voted => t \in vs[x].voted
      BY <1>7, <1>10
    <2> QED BY <2>1, <2>2, <2>3, TeamKept
  <1>12. VotesKeep(others, vote, bs, back, done, won)
    BY <1>2, <1>8, <1>11 DEF VotesKeep
  <1> QED BY <1>5, <1>6, <1>12 DEF VotesInv

LEMMA DisconnectKeeps == ASSUME VotesInv, NEW c \in Clients, Q!ClientDisconnect(c) PROVE VotesInv'
  <1>1. PICK vs, vote, bs, back, done, won :
             /\ vs = voters /\ vote = level /\ bs = ballots /\ back = returned /\ done = executed /\ won = passed
    OBVIOUS
  <1>2. VotesKeep(vs, vote, bs, back, done, won)
    BY <1>1 DEF VotesInv
  <1>3. PICK gone : gone = Q!Gone
    OBVIOUS
  <1>4. PICK others : others = [vs EXCEPT ![c] = gone]
    OBVIOUS
  <1>5. PICK has : has = {vs[c].team, "none"}
    OBVIOUS
  <1>6. PICK vote2 : vote2 = [t \in VoteTeams |->
                               IF t \in has
                               THEN IF vote[t].time # -1 /\ t \in vs[c].voted
                                    THEN Q!Counted(vote[t], vs[c], t, -1) ELSE vote[t]
                               ELSE vote[t]]
    OBVIOUS
  <1>7. PICK bs2 : bs2 = [t \in VoteTeams |-> IF t \in has THEN [bs[t] EXCEPT ![c] = "none"] ELSE bs[t]]
    OBVIOUS
  <1>8. vs[c].connected /\ voters' = others /\ ballots' = bs2
    BY <1>1, <1>3, <1>4, <1>5, <1>7 DEF Q!ClientDisconnect
  <1>9. level' = vote2
    BY <1>1, <1>5, <1>6 DEF Q!ClientDisconnect, Q!TakenBack
  <1>10. returned' = back /\ executed' = done /\ passed' = won
    BY <1>1 DEF Q!ClientDisconnect
  <1>11. gone \in AVoter /\ gone.voted = {}
    BY <1>3, GoneIs
  <1>12. others \in [Clients -> AVoter]
    BY <1>2, <1>4, <1>11 DEF VotesKeep
  <1>13. \A t : SaidBy(gone, t) = "none" /\ (t \notin has => SaidBy(vs[c], t) = "none")
    BY <1>5, <1>11 DEF SaidBy
  <1>14. others[c] = gone /\ \A x \in Clients : x # c => others[x] = vs[x]
    BY <1>2, <1>4 DEF VotesKeep
  <1>15. ASSUME NEW t \in VoteTeams
         PROVE  vote2[t] \in AVote /\ TeamInv(others, vote2[t], bs2[t], back, done[t], won[t], t)
    <2>1. TeamInv(vs, vote[t], bs[t], back, done[t], won[t], t) /\ vote[t] \in AVote /\ vs \in [Clients -> AVoter]
      BY <1>2 DEF VotesKeep
    <2>2. CASE t \in has
      <3>1. PICK v, w, b, less, d, e :
                /\ d = done[t] /\ e = won[t]
                /\ v = vote[t] /\ w = (IF v.time # -1 /\ t \in vs[c].voted THEN Q!Counted(v, vs[c], t, -1) ELSE v)
                /\ b = bs[t] /\ less = [b EXCEPT ![c] = "none"]
        OBVIOUS
      <3>2. vote2[t] = w /\ bs2[t] = less
        BY <1>6, <1>7, <2>2, <3>1
      <3>3. TeamInv(vs, v, b, back, d, e, t)
        BY <2>1, <3>1
      <3>4. vs[c].connected /\ (t = "none" \/ vs[c].team = t)
        BY <1>5, <1>8, <2>2
      <3>5. SaidBy(others[c], t) = "none" /\ t \notin others[c].voted
        BY <1>11, <1>13, <1>14
      <3>6. Leaves(vs, others, c, t)
        BY <1>14, <3>4, <3>5 DEF Leaves
      <3>7. Retracted(v, w, b, less, vs[c], c, t)
        BY <3>1 DEF Retracted
      <3>9. vs \in [Clients -> AVoter]
        BY <2>1
      <3>8. TeamInv(others, w, less, back, d, e, t) /\ w \in AVote
        BY <3>3, <3>6, <3>7, <3>9, TeamLeft
      <3> QED BY <3>1, <3>2, <3>8
    <2>3. CASE t \notin has
      <3>1. \A x \in Clients : SaidBy(others[x], t) = SaidBy(vs[x], t)
        BY <1>13, <1>14, <2>3
      <3>2. \A x \in Clients : t \in others[x].voted => t \in vs[x].voted
        BY <1>11, <1>14
      <3>3. vote2[t] = vote[t] /\ bs2[t] = bs[t]
        BY <1>6, <1>7, <2>3
      <3> QED BY <2>1, <3>1, <3>2, <3>3, TeamKept
    <2> QED BY <2>2, <2>3
  <1>16. vote2 \in [VoteTeams -> AVote] /\ DOMAIN bs2 = VoteTeams
    <2>1. \A t \in VoteTeams : vote2[t] \in AVote
      BY <1>15
    <2> QED BY <1>6, <1>7, <2>1
  <1>17. VotesKeep(others, vote2, bs2, back, done, won)
    BY <1>2, <1>12, <1>15, <1>16 DEF VotesKeep
  <1> QED BY <1>8, <1>9, <1>10, <1>17 DEF VotesInv

LEMMA ChangeTeamKeeps ==
    ASSUME VotesInv, NEW c \in Clients, NEW team \in VoteTeams, Q!G_ChangeTeam(c, team) PROVE VotesInv'
  <1>1. PICK vs, vote, bs, back, done, won :
             /\ vs = voters /\ vote = level /\ bs = ballots /\ back = returned /\ done = executed /\ won = passed
    OBVIOUS
  <1>2. VotesKeep(vs, vote, bs, back, done, won)
    BY <1>1 DEF VotesInv
  <1>3. PICK voter \in AVoter : voter = vs[c]
    BY <1>2 DEF VotesKeep
  <1>4. PICK moved : moved = [voter EXCEPT !.team = team]
    OBVIOUS
  <1>5. moved \in AVoter /\ moved.team = team /\ moved.voted = voter.voted /\ moved.vote = voter.vote
        /\ moved.connected = voter.connected
    BY <1>4 DEF AVoter
  <1>6. PICK others : others = [vs EXCEPT ![c] = moved]
    OBVIOUS
  <1>7. PICK old, more : old = voter.team /\ more = back \cup (voter.voted \cap ({team} \ {"none"}))
    OBVIOUS
  <1>8. voter.connected /\ old # team /\ returned' = more /\ executed' = done /\ passed' = won
    BY <1>1, <1>3, <1>7 DEF Q!G_ChangeTeam
  <1>9. voters' = others
    <2>1. voters' = [vs EXCEPT ![c] = [vs[c] EXCEPT !.team = team]]
      BY <1>1 DEF Q!G_ChangeTeam
    <2> QED BY <2>1, <1>3, <1>4, <1>6
  <1>10. others \in [Clients -> AVoter] /\ others[c] = moved /\ \A x \in Clients : x # c => others[x] = vs[x]
    BY <1>2, <1>5, <1>6 DEF VotesKeep
  <1>11. PICK v, w, b, less :
             /\ v = vote[old] /\ w = (IF v.time # -1 /\ old \in voter.voted THEN Q!Counted(v, voter, old, -1) ELSE v)
             /\ b = bs[old] /\ less = [b EXCEPT ![c] = "none"]
    OBVIOUS
  <1>12. PICK vote2, bs2 :
             /\ vote2 = (IF old = "none" THEN vote ELSE [vote EXCEPT ![old] = w])
             /\ bs2 = (IF old = "none" THEN bs ELSE [bs EXCEPT ![old] = less])
    OBVIOUS
  <1>13. level' = vote2 /\ ballots' = bs2
    <2>1. CASE old = "none"
      BY <1>1, <1>3, <1>7, <1>12, <2>1 DEF Q!G_ChangeTeam
    <2>2. CASE old # "none"
      <3>1. level' = [vote EXCEPT ![old] = Q!TakenBack(c, old)]
        BY <1>1, <1>3, <1>7, <2>2 DEF Q!G_ChangeTeam
      <3>2. Q!TakenBack(c, old) = w
        BY <1>1, <1>3, <1>11 DEF Q!TakenBack
      <3>3. ballots' = [bs EXCEPT ![old][c] = "none"]
        BY <1>1, <1>3, <1>7, <2>2 DEF Q!G_ChangeTeam
      <3> QED BY <1>11, <1>12, <2>2, <3>1, <3>2, <3>3
    <2> QED BY <2>1, <2>2
  <1>14. old \in VoteTeams /\ back \subseteq more
    BY <1>7 DEF AVoter
  <1>15. ASSUME NEW t \in VoteTeams
         PROVE  vote2[t] \in AVote /\ TeamInv(others, vote2[t], bs2[t], more, done[t], won[t], t)
    <2>1. PICK d, e : d = done[t] /\ e = won[t]
      OBVIOUS
    <2>2. TeamInv(vs, vote[t], bs[t], back, d, e, t) /\ vote[t] \in AVote
      BY <1>2, <2>1 DEF VotesKeep
    <2>3. CASE t = old /\ old # "none"
      <3>1. vote2[t] = w /\ bs2[t] = less
        BY <1>2, <1>12, <2>3 DEF VotesKeep
      <3>2. TeamInv(vs, v, b, back, d, e, t)
        BY <1>11, <2>2, <2>3
      <3>3. Leaves(vs, others, c, t)
        BY <1>3, <1>5, <1>7, <1>8, <1>10, <2>3 DEF Leaves, SaidBy
      <3>4. Retracted(v, w, b, less, voter, c, t)
        BY <1>11, <2>3 DEF Retracted
      <3>5. TeamInv(others, w, less, more, d, e, t) /\ w \in AVote
        BY <1>3, <1>14, <3>2, <3>3, <3>4, TeamLeft
      <3> QED BY <2>1, <3>1, <3>5
    <2>4. CASE ~(t = old /\ old # "none")
      <3>1. vote2[t] = vote[t] /\ bs2[t] = bs[t]
        BY <1>2, <1>12, <2>4 DEF VotesKeep
      <3>2. t \notin more => SaidBy(moved, t) = SaidBy(voter, t)
        BY <1>5, <1>7, <1>8, <2>4 DEF SaidBy
      <3>3. t \notin more => \A x \in Clients : SaidBy(others[x], t) = SaidBy(vs[x], t)
        BY <1>3, <1>10, <3>2
      <3>4. \A x \in Clients : t \in others[x].voted => t \in vs[x].voted
        BY <1>3, <1>5, <1>10
      <3>5. t \in back => t \in more
        BY <1>14
      <3>6. TeamInv(others, vote[t], bs[t], more, d, e, t)
        BY <2>2, <3>3, <3>4, <3>5, TeamKept
      <3> QED BY <2>1, <2>2, <3>1, <3>6
    <2> QED BY <2>3, <2>4
  <1>16. vote2 \in [VoteTeams -> AVote] /\ DOMAIN bs2 = VoteTeams
    <2>1. \A t \in VoteTeams : vote2[t] \in AVote
      BY <1>15
    <2>2. DOMAIN vote2 = VoteTeams /\ DOMAIN bs2 = VoteTeams /\ vote2 = [t \in VoteTeams |-> vote2[t]]
      BY <1>2, <1>12 DEF VotesKeep
    <2> QED BY <2>1, <2>2
  <1>17. VotesKeep(others, vote2, bs2, more, done, won)
    BY <1>2, <1>10, <1>15, <1>16 DEF VotesKeep
  <1> QED BY <1>8, <1>9, <1>13, <1>17 DEF VotesInv

\* A client's bits after he voted d for t.
Spoken(voter, t, d) ==
    [voter EXCEPT !.vote = IF d = "yes" THEN voter.vote \cup {t} ELSE voter.vote \ {t},
                  !.voted = voter.voted \cup {t}]

LEMMA SpokenIs ==
    ASSUME NEW voter \in AVoter, NEW t \in VoteTeams, NEW d \in {"yes", "no"}
    PROVE  /\ Spoken(voter, t, d) \in AVoter
           /\ voter.connected /\ (t = "none" \/ voter.team = t) => SaidBy(Spoken(voter, t, d), t) = d
           /\ t \in Spoken(voter, t, d).vote <=> d = "yes"
           /\ \A u : u # t => /\ SaidBy(Spoken(voter, t, d), u) = SaidBy(voter, u)
                              /\ u \in Spoken(voter, t, d).voted => u \in voter.voted
  <1>1. PICK s : s = Spoken(voter, t, d)
    OBVIOUS
  <1>2. /\ s \in AVoter /\ s.connected = voter.connected /\ s.team = voter.team
        /\ s.vote = (IF d = "yes" THEN voter.vote \cup {t} ELSE voter.vote \ {t})
        /\ s.voted = voter.voted \cup {t}
    <2>1. CASE d = "yes"
      <3>1. s = [voter EXCEPT !.vote = voter.vote \cup {t}, !.voted = voter.voted \cup {t}]
        BY <1>1, <2>1 DEF Spoken
      <3> QED BY <2>1, <3>1 DEF AVoter
    <2>2. CASE d = "no"
      <3>1. s = [voter EXCEPT !.vote = voter.vote \ {t}, !.voted = voter.voted \cup {t}]
        BY <1>1, <2>2 DEF Spoken
      <3> QED BY <2>2, <3>1 DEF AVoter
    <2> QED BY <2>1, <2>2
  <1>3. voter.connected /\ (t = "none" \/ voter.team = t) => SaidBy(s, t) = d
    BY <1>2 DEF SaidBy
  <1>4. ASSUME NEW u, u # t
        PROVE  SaidBy(s, u) = SaidBy(voter, u) /\ (u \in s.voted => u \in voter.voted)
    BY <1>2, <1>4 DEF SaidBy
  <1> QED BY <1>1, <1>2, <1>3, <1>4

\* Client c votes: the ballot is counted in w, as G_Vote or Cmd_CallVote_f do.
Spoke(vs, vote, bs, done, won, others, vote2, bs2, done2, c, t, d, w) ==
    /\ t \notin vs[c].voted /\ vs[c].connected /\ (t = "none" \/ vs[c].team = t)
    /\ others = [vs EXCEPT ![c] = Spoken(vs[c], t, d)]
    /\ vote2 = [vote EXCEPT ![t] = w]
    /\ bs2 = [bs EXCEPT ![t] = [bs[t] EXCEPT ![c] = d]]
    /\ DOMAIN done2 = VoteTeams /\ won[t] \in Seq(Nat) /\ done2[t] = won[t]
    /\ \A u \in VoteTeams : u # t => done2[u] = done[u]

LEMMA SpeaksKeeps ==
    ASSUME NEW vs, NEW vote, NEW bs, NEW back, NEW done, NEW won, VotesKeep(vs, vote, bs, back, done, won),
           NEW c \in Clients, NEW t \in VoteTeams, NEW d \in {"yes", "no"}, NEW v, NEW w,
           NEW others, NEW vote2, NEW bs2, NEW done2,
           Spoke(vs, vote, bs, done, won, others, vote2, bs2, done2, c, t, d, w),
           v = vote[t], CountsIn(v, w, d, t, back)
    PROVE  VotesKeep(others, vote2, bs2, back, done2, won)
  <1>1. PICK voter \in AVoter : voter = vs[c]
    BY DEF VotesKeep
  <1>2. PICK s : s = Spoken(voter, t, d)
    OBVIOUS
  <1>3. others = [vs EXCEPT ![c] = s]
    BY <1>1, <1>2 DEF Spoke
  <1>4. others \in [Clients -> AVoter] /\ others[c] = s /\ \A x \in Clients : x # c => others[x] = vs[x]
    BY <1>1, <1>2, <1>3, SpokenIs DEF VotesKeep
  <1>5. PICK b, e, o, more :
            /\ b = bs[t] /\ e = won[t] /\ o = done[t] /\ more = [b EXCEPT ![c] = d]
    OBVIOUS
  <1>6. TeamInv(vs, v, b, back, o, e, t) /\ e \in Seq(Nat)
    BY <1>5 DEF VotesKeep, Spoke
  <1>7. Speaks(vs, others, b, more, c, t, d)
    <2>1. SaidBy(s, t) = d
      BY <1>1, <1>2, SpokenIs DEF Spoke
    <2> QED BY <1>4, <1>5, <2>1 DEF Speaks, Spoke
  <1>8. TeamInv(others, w, more, back, e, e, t)
    BY <1>6, <1>7, TeamVoted
  <1>10. /\ w \in AVote /\ DOMAIN bs2 = VoteTeams
         /\ vote2[t] = w /\ bs2[t] = more /\ done2[t] = e
         /\ \A u \in VoteTeams : u # t => vote2[u] = vote[u] /\ bs2[u] = bs[u] /\ done2[u] = done[u]
    BY <1>5 DEF VotesKeep, Spoke, CountsIn
  <1>9. vote2 \in [VoteTeams -> AVote]
    BY <1>10 DEF VotesKeep, Spoke
  <1>11. ASSUME NEW u \in VoteTeams, u # t PROVE TeamInv(others, vote[u], bs[u], back, done[u], won[u], u)
    <2>1. TeamInv(vs, vote[u], bs[u], back, done[u], won[u], u)
      BY DEF VotesKeep
    <2>2. SaidBy(s, u) = SaidBy(voter, u) /\ (u \in s.voted => u \in voter.voted)
      <3>1. \A y : y # t => SaidBy(s, y) = SaidBy(voter, y) /\ (y \in s.voted => y \in voter.voted)
        BY <1>2, SpokenIs, SMTT(30)
      <3> QED BY <1>11, <3>1
    <2>3. \A x \in Clients : SaidBy(others[x], u) = SaidBy(vs[x], u)
      BY <1>1, <1>4, <2>2
    <2>4. \A x \in Clients : u \in others[x].voted => u \in vs[x].voted
      BY <1>1, <1>4, <2>2
    <2> QED BY <2>1, <2>3, <2>4, TeamKept
  <1>12. ASSUME NEW u \in VoteTeams PROVE TeamInv(others, vote2[u], bs2[u], back, done2[u], won[u], u)
    <2>1. CASE u = t
      BY <1>5, <1>8, <1>10, <2>1
    <2>2. CASE u # t
      BY <1>10, <1>11, <2>2
    <2> QED BY <2>1, <2>2
  <1> QED BY <1>4, <1>9, <1>10, <1>12 DEF VotesKeep, Spoke

LEMMA VoteKeeps == ASSUME VotesInv, NEW c \in Clients, NEW t \in VoteTeams, Q!Cmd_Vote_f(c, t) PROVE VotesInv'
  <1>1. PICK vs, vote, bs, back, done, won :
             /\ vs = voters /\ vote = level /\ bs = ballots /\ back = returned /\ done = executed /\ won = passed
    OBVIOUS
  <1>2. VotesKeep(vs, vote, bs, back, done, won)
    BY <1>1 DEF VotesInv
  <1>3. PICK d \in {"yes", "no"} :
            /\ voters' = Q!Cast(c, t, d = "yes")
            /\ level' = [vote EXCEPT ![t] = Q!Counted(@, voters'[c], t, 1)]
            /\ ballots' = [bs EXCEPT ![t][c] = d]
    <2>1. PICK yes \in BOOLEAN :
            /\ voters' = Q!Cast(c, t, yes)
            /\ level' = [vote EXCEPT ![t] = Q!Counted(@, voters'[c], t, 1)]
            /\ ballots' = [bs EXCEPT ![t][c] = IF yes THEN "yes" ELSE "no"]
      BY <1>1 DEF Q!Cmd_Vote_f
    <2>2. CASE yes = TRUE
      BY <2>1, <2>2
    <2>3. CASE yes = FALSE
      <3>1. ("no" = "yes") = FALSE
        OBVIOUS
      <3>2. voters' = Q!Cast(c, t, "no" = "yes")
        BY <2>1, <2>3, <3>1
      <3> QED BY <2>1, <2>3, <3>2
    <2> QED BY <2>2, <2>3
  <1>4. /\ t \notin vs[c].voted /\ vote[t].time # -1 /\ vs[c].connected /\ (t = "none" \/ vs[c].team = t)
        /\ returned' = back /\ executed' = done /\ passed' = won
    BY <1>1 DEF Q!Cmd_Vote_f, Q!Voting
  <1>5. PICK voter \in AVoter : voter = vs[c]
    BY <1>2 DEF VotesKeep
  <1>6. PICK s : s = Spoken(voter, t, d)
    OBVIOUS
  <1>7. voters' = [vs EXCEPT ![c] = s]
    BY <1>1, <1>3, <1>5, <1>6 DEF Q!Cast, Spoken
  <1>8. PICK v \in AVote : v = vote[t]
    BY <1>2 DEF VotesKeep
  <1>9. PICK w : w = Q!Counted(v, s, t, 1)
    OBVIOUS
  <1>10. vs \in [Clients -> AVoter] /\ vote \in [VoteTeams -> AVote]
    BY <1>2 DEF VotesKeep
  <1>11. level' = [vote EXCEPT ![t] = w]
    <2>1. voters'[c] = s
      BY <1>7, <1>10
    <2> QED BY <1>3, <1>8, <1>9, <2>1
  <1>12. ballots' = [bs EXCEPT ![t] = [bs[t] EXCEPT ![c] = d]]
    BY <1>3
  <1>14. done[t] \in Seq(Nat) /\ done[t] = won[t] /\ v.execute = -1
    <2>1. TeamInv(vs, vote[t], bs[t], back, done[t], won[t], t)
      BY <1>2 DEF VotesKeep
    <2>2. v.execute = -1 /\ done[t] \in Seq(Nat)
      BY <1>4, <1>8, <2>1 DEF TeamInv, OneAtATime
    <2>3. done[t] \o <<>> = done[t]
      BY <2>2
    <2>4. done[t] = won[t]
      BY <1>8, <2>1, <2>2, <2>3 DEF TeamInv, InTurn
    <2> QED BY <2>2, <2>4
  <1>13. CountsIn(v, w, d, t, back)
    <2>1. v.yes + 1 \in Int /\ v.no + 1 \in Int /\ v.time # -1
      BY <1>4, <1>8 DEF AVote
    <2>2. t \in s.vote <=> d = "yes"
      BY <1>6, SpokenIs
    <2>3. CASE d = "yes"
      <3>1. w = [v EXCEPT !.yes = v.yes + 1]
        BY <1>9, <2>2, <2>3 DEF Q!Counted
      <3> QED BY <1>14, <2>1, <2>3, <3>1 DEF AVote, CountsIn
    <2>4. CASE d = "no"
      <3>1. w = [v EXCEPT !.no = v.no + 1]
        BY <1>9, <2>2, <2>4 DEF Q!Counted
      <3> QED BY <1>14, <2>1, <2>4, <3>1 DEF AVote, CountsIn
    <2> QED BY <2>3, <2>4
  <1>15. PICK others, vote2, bs2 : others = voters' /\ vote2 = level' /\ bs2 = ballots'
    OBVIOUS
  <1>16. Spoke(vs, vote, bs, done, won, others, vote2, bs2, done, c, t, d, w)
    BY <1>2, <1>4, <1>5, <1>6, <1>7, <1>11, <1>12, <1>14, <1>15 DEF Spoke, VotesKeep
  <1>17. VotesKeep(others, vote2, bs2, back, done, won)
    BY <1>2, <1>8, <1>13, <1>16, SpeaksKeeps
  <1> QED BY <1>4, <1>15, <1>17 DEF VotesInv

\* When another vote is called, what passed has been executed.
LEMMA ExecutedEarly ==
    ASSUME NEW vs, NEW v, NEW b, NEW back, NEW done, NEW won, NEW t, NEW done2,
           TeamInv(vs, v, b, back, done, won, t),
           done2 = IF v.execute # -1 THEN Append(done, v.number) ELSE done
    PROVE  done2 = won /\ won \in Seq(Nat)
  <1>2. PICK o \in Seq(Nat), n \in Nat : o = done /\ n = v.number
    BY DEF TeamInv, AVote
  <1>3. Append(o, n) = o \o <<n>> /\ Append(o, n) \in Seq(Nat) /\ o \o <<>> = o
    OBVIOUS
  <1>4. won = o \o (IF v.execute # -1 THEN <<n>> ELSE <<>>)
    BY <1>2 DEF TeamInv, InTurn
  <1>5. CASE v.execute # -1
    BY <1>2, <1>3, <1>4, <1>5
  <1>6. CASE v.execute = -1
    BY <1>2, <1>3, <1>4, <1>6
  <1> QED BY <1>5, <1>6

\* A call that is refused executes what is pending, and leaves a threshold of 50.
LEMMA RefusedCallKeeps ==
    ASSUME VotesInv, NEW c \in Clients, NEW t \in VoteTeams, level[t].time = -1,
           level' = [level EXCEPT ![t].execute = IF Q!Pending(t) THEN -1 ELSE @,
                                  ![t].threshold = 50],
           voters' = voters, ballots' = ballots, returned' = returned, passed' = passed,
           executed' = [executed EXCEPT ![t] = IF Q!Pending(t) THEN Append(@, level[t].number) ELSE @]
    PROVE  VotesInv'
  <1>1. PICK vs, vote, bs, back, done, won :
             /\ vs = voters /\ vote = level /\ bs = ballots /\ back = returned /\ done = executed /\ won = passed
    OBVIOUS
  <1>2. VotesKeep(vs, vote, bs, back, done, won)
    BY <1>1 DEF VotesInv
  <1>3. PICK v \in AVote : v = vote[t]
    BY <1>2 DEF VotesKeep
  <1>4. PICK w : w = [v EXCEPT !.execute = -1, !.threshold = 50]
    OBVIOUS
  <1>5. level' = [vote EXCEPT ![t] = w]
    <2>1. level' = [vote EXCEPT ![t].execute = IF v.execute # -1 THEN -1 ELSE @, ![t].threshold = 50]
      BY <1>1, <1>3 DEF Q!Pending
    <2>2. level' = [vote EXCEPT ![t] = [v EXCEPT !.execute = IF v.execute # -1 THEN -1 ELSE v.execute,
                                                 !.threshold = 50]]
      BY <1>2, <1>3, <2>1 DEF VotesKeep
    <2>3. (IF v.execute # -1 THEN -1 ELSE v.execute) = -1
      OBVIOUS
    <2> QED BY <1>4, <2>2, <2>3
  <1>6. /\ w \in AVote /\ w.time = v.time /\ w.execute = -1 /\ w.yes = v.yes /\ w.no = v.no
        /\ v.time = -1
    <2>1. -1 \in -1..ExecuteDelay /\ 50 \in {n \in Nat : n >= 50}
      BY VoteNumbers
    <2> QED BY <1>1, <1>3, <1>4, <2>1 DEF AVote
  <1>7. PICK vote2, done2 : vote2 = level' /\ done2 = executed'
    OBVIOUS
  <1>8. TeamInv(vs, v, bs[t], back, done[t], won[t], t)
    BY <1>2, <1>3 DEF VotesKeep
  <1>9. /\ DOMAIN done2 = VoteTeams /\ \A u \in VoteTeams : u # t => done2[u] = done[u]
        /\ done2[t] = IF v.execute # -1 THEN Append(done[t], v.number) ELSE done[t]
    BY <1>1, <1>2, <1>3, <1>7 DEF VotesKeep, Q!Pending
  <1>10. done2[t] = won[t] /\ won[t] \in Seq(Nat)
    BY <1>8, <1>9, ExecutedEarly
  <1>11. TeamInv(vs, w, bs[t], back, done2[t], won[t], t)
    <2>1. InTurn(w, done2[t], won[t])
      <3>1. PICK o \in Seq(Nat) : o = won[t]
        BY <1>10
      <3>2. o \o <<>> = o
        OBVIOUS
      <3> QED BY <1>6, <1>10, <3>1, <3>2 DEF InTurn
    <2>2. OneAtATime(vs, w, t) /\ (t \notin back => Counts(vs, w, bs[t], t))
      BY <1>6, <1>8 DEF TeamInv, OneAtATime, Counts
    <2> QED BY <1>6, <1>8, <1>10, <2>1, <2>2 DEF TeamInv
  <1>12. /\ vote2 \in [VoteTeams -> AVote] /\ vote2[t] = w
         /\ \A u \in VoteTeams : u # t => vote2[u] = vote[u]
    BY <1>2, <1>5, <1>6, <1>7 DEF VotesKeep
  <1>13. \A u \in VoteTeams : TeamInv(vs, vote2[u], bs[u], back, done2[u], won[u], u)
    BY <1>2, <1>9, <1>11, <1>12 DEF VotesKeep
  <1>14. VotesKeep(vs, vote2, bs, back, done2, won)
    BY <1>2, <1>9, <1>12, <1>13 DEF VotesKeep
  <1> QED BY <1>1, <1>7, <1>14 DEF VotesInv

LEMMA CallVoteKeeps ==
    ASSUME VotesInv, NEW c \in Clients, NEW t \in VoteTeams, NEW threshold \in Thresholds,
           Q!Cmd_CallVote_f(c, t, threshold) PROVE VotesInv'
  <1>0. /\ level[t].time = -1 /\ returned' = returned /\ passed' = passed
        /\ executed' = [executed EXCEPT ![t] = IF Q!Pending(t) THEN Append(@, level[t].number) ELSE @]
    BY DEF Q!Cmd_CallVote_f
  <1>17. CASE /\ level' = [level EXCEPT ![t].execute = IF Q!Pending(t) THEN -1 ELSE @,
                                        ![t].threshold = 50]
              /\ voters' = voters /\ ballots' = ballots
    BY <1>0, <1>17, RefusedCallKeeps
  <1>18. SUFFICES ASSUME /\ level' = [level EXCEPT ![t].execute = IF Q!Pending(t) THEN -1 ELSE @,
                                                   ![t].time = 0, ![t].yes = 1, ![t].number = @ + 1,
                                                   ![t].threshold = threshold]
                         /\ voters' = Q!Cast(c, t, TRUE)
                         /\ ballots' = [ballots EXCEPT ![t][c] = "yes"]
                  PROVE  VotesInv'
    BY <1>17 DEF Q!Cmd_CallVote_f
  <1>1. PICK vs, vote, bs, back, done, won :
             /\ vs = voters /\ vote = level /\ bs = ballots /\ back = returned /\ done = executed /\ won = passed
    OBVIOUS
  <1>2. VotesKeep(vs, vote, bs, back, done, won)
    BY <1>1 DEF VotesInv
  <1>3. PICK voter \in AVoter, v \in AVote : voter = vs[c] /\ v = vote[t]
    BY <1>2 DEF VotesKeep
  <1>4. PICK w : w = [v EXCEPT !.execute = -1, !.time = 0, !.yes = 1, !.number = v.number + 1,
                               !.threshold = threshold]
    OBVIOUS
  <1>5. /\ vs[c].connected /\ (t = "none" \/ vs[c].team = t) /\ v.time = -1
        /\ voters' = Q!Cast(c, t, TRUE) /\ ballots' = [bs EXCEPT ![t][c] = "yes"]
        /\ returned' = back /\ passed' = won
        /\ executed' = [done EXCEPT ![t] = IF v.execute # -1 THEN Append(@, v.number) ELSE @]
    BY <1>1, <1>3, <1>18 DEF Q!Cmd_CallVote_f, Q!Voting, Q!Pending
  <1>6. level' = [vote EXCEPT ![t] = w]
    <2>1. level' = [vote EXCEPT ![t].execute = IF v.execute # -1 THEN -1 ELSE @, ![t].time = 0,
                                ![t].yes = 1, ![t].number = @ + 1, ![t].threshold = threshold]
      BY <1>1, <1>3, <1>18 DEF Q!Pending
    <2>2. level' = [vote EXCEPT ![t] = [v EXCEPT !.execute = IF v.execute # -1 THEN -1 ELSE v.execute, !.time = 0,
                                                 !.yes = 1, !.number = v.number + 1, !.threshold = threshold]]
      BY <1>2, <1>3, <2>1 DEF VotesKeep
    <2>3. (IF v.execute # -1 THEN -1 ELSE v.execute) = -1
      OBVIOUS
    <2> QED BY <1>4, <2>2, <2>3
  <1>7. TeamInv(vs, v, bs[t], back, done[t], won[t], t)
    BY <1>2, <1>3 DEF VotesKeep
  <1>8. t \notin voter.voted /\ \A x \in Clients : t \notin vs[x].voted
    BY <1>3, <1>5, <1>7 DEF TeamInv, OneAtATime
  <1>9. t \notin back => v.yes = 0 /\ v.no = 0
    <2> SUFFICES ASSUME t \notin back PROVE v.yes = 0 /\ v.no = 0
      OBVIOUS
    <2>1. PICK b : b = bs[t] /\ Counts(vs, v, b, t)
      BY <1>7 DEF TeamInv
    <2>2. Cast(b, "yes") = {} /\ Cast(b, "no") = {}
      BY <1>8, <2>1 DEF Counts, SaidBy, Cast
    <2> QED BY <2>1, <2>2, FS_EmptySet DEF Counts
  <1>10. CountsIn(v, w, "yes", t, back)
    <2>1. 0 \in -1..VOTE_TIME - 1 /\ -1 \in -1..ExecuteDelay /\ threshold \in {n \in Nat : n >= 50}
      BY VoteNumbers
    <2>2. v.number + 1 \in Nat /\ 1 \in Int
      BY DEF AVote
    <2>3. w \in AVote /\ w.time = 0 /\ w.execute = -1 /\ w.yes = 1 /\ w.no = v.no
      BY <1>4, <2>1, <2>2 DEF AVote
    <2> QED BY <1>9, <2>3 DEF CountsIn
  <1>11. PICK others, vote2, bs2, done2 : others = voters' /\ vote2 = level' /\ bs2 = ballots' /\ done2 = executed'
    OBVIOUS
  <1>12. done2[t] = won[t] /\ won[t] \in Seq(Nat)
    <2>1. done2[t] = IF v.execute # -1 THEN Append(done[t], v.number) ELSE done[t]
      BY <1>2, <1>5, <1>11 DEF VotesKeep
    <2> QED BY <1>7, <2>1, ExecutedEarly
  <1>13. others = [vs EXCEPT ![c] = Spoken(vs[c], t, "yes")]
    BY <1>1, <1>5, <1>11 DEF Q!Cast, Spoken
  <1>14. Spoke(vs, vote, bs, done, won, others, vote2, bs2, done2, c, t, "yes", w)
    <2>1. t \notin vs[c].voted
      BY <1>8
    <2>2. bs2 = [bs EXCEPT ![t] = [bs[t] EXCEPT ![c] = "yes"]]
      BY <1>5, <1>11
    <2>3. DOMAIN done2 = VoteTeams /\ \A u \in VoteTeams : u # t => done2[u] = done[u]
      BY <1>2, <1>5, <1>11 DEF VotesKeep
    <2> QED BY <1>5, <1>6, <1>11, <1>12, <1>13, <2>1, <2>2, <2>3 DEF Spoke
  <1>15. VotesKeep(others, vote2, bs2, back, done2, won)
    <2>1. "yes" \in {"yes", "no"}
      OBVIOUS
    <2> QED BY <1>2, <1>3, <1>10, <1>14, <2>1, SpeaksKeeps
  <1> QED BY <1>5, <1>11, <1>15 DEF VotesInv

\* What CheckVotes does for the votes of ls, of which `ended` are over and `passing` pass.
Checks(vs, vote, bs, done, won, ls, ended, passing, others, vote2, bs2, done2, won2) ==
    /\ DOMAIN ls \subseteq VoteTeams /\ ended \subseteq DOMAIN ls
    /\ \A t \in DOMAIN ls : Found(vote[t], ls[t])
    /\ \A t \in ended : ls[t].time # -1
    /\ \A t \in DOMAIN ls \ ended : ls[t].time # VOTE_TIME /\ ls[t].yes = vote[t].yes /\ ls[t].no = vote[t].no
    /\ others = WithoutBits(vs, ended)
    /\ vote2 = [t \in VoteTeams |-> IF t \in DOMAIN ls THEN Checked(ls[t], t \in ended, t \in passing)
                                    ELSE vote[t]]
    /\ bs2 = [t \in VoteTeams |-> IF t \in ended THEN NoneCast ELSE bs[t]]
    /\ done2 = [t \in VoteTeams |-> IF t \in DOMAIN ls /\ ls[t].execute > ExecuteDelay
                                    THEN Append(done[t], ls[t].number) ELSE done[t]]
    /\ won2 = [t \in VoteTeams |-> IF t \in ended /\ t \in passing
                                   THEN Append(won[t], ls[t].number) ELSE won[t]]

LEMMA ChecksKeep ==
    ASSUME NEW vs, NEW vote, NEW bs, NEW back, NEW done, NEW won, VotesKeep(vs, vote, bs, back, done, won),
           NEW ls, NEW ended, NEW passing, NEW others, NEW vote2, NEW bs2, NEW done2, NEW won2,
           Checks(vs, vote, bs, done, won, ls, ended, passing, others, vote2, bs2, done2, won2)
    PROVE  VotesKeep(others, vote2, bs2, back \ ended, done2, won2)
  <1>1. vs \in [Clients -> AVoter] /\ others = WithoutBits(vs, ended)
    BY DEF VotesKeep, Checks
  <1>2. others \in [Clients -> AVoter]
    BY <1>1, BitsLeft
  <1>3. ASSUME NEW t \in VoteTeams
        PROVE  vote2[t] \in AVote /\ TeamInv(others, vote2[t], bs2[t], back \ ended, done2[t], won2[t], t)
    <2>1. PICK v, b, d, e : v = vote[t] /\ b = bs[t] /\ d = done[t] /\ e = won[t]
      OBVIOUS
    <2>2. TeamInv(vs, v, b, back, d, e, t) /\ v \in AVote
      BY <2>1 DEF VotesKeep
    <2>3. CASE t \in DOMAIN ls
      <3>1. PICK w : w = ls[t]
        OBVIOUS
      <3>2. PICK over \in BOOLEAN, passes \in BOOLEAN : over = (t \in ended) /\ passes = (t \in passing)
        <4>1. (t \in ended) \in BOOLEAN /\ (t \in passing) \in BOOLEAN
          OBVIOUS
        <4> QED BY <4>1, Zenon
      <3>3. Found(v, w) /\ (over <=> t \in ended) /\ (over => w.time # -1)
            /\ (~over => w.time # VOTE_TIME /\ w.yes = v.yes /\ w.no = v.no)
        BY <2>1, <2>3, <3>1, <3>2 DEF Checks
      <3>4. PICK u, b2, d2, e2 :
                /\ u = Checked(w, over, passes) /\ b2 = (IF over THEN NoneCast ELSE b)
                /\ d2 = (IF w.execute > ExecuteDelay THEN Append(d, w.number) ELSE d)
                /\ e2 = (IF over /\ passes THEN Append(e, w.number) ELSE e)
        OBVIOUS
      <3>5. TeamInv(others, u, b2, back \ ended, d2, e2, t)
        BY <1>1, <2>2, <3>3, <3>4, TeamChecked, ZenonT(40)
      <3>6. vote2[t] = u /\ bs2[t] = b2 /\ done2[t] = d2 /\ won2[t] = e2
        BY <2>1, <2>3, <3>1, <3>2, <3>4 DEF Checks
      <3>7. u \in AVote
        BY <3>5 DEF TeamInv
      <3> QED BY <3>5, <3>6, <3>7
    <2>4. CASE t \notin DOMAIN ls
      <3>1. t \notin ended
        BY <2>4 DEF Checks
      <3>2. vote2[t] = v /\ bs2[t] = b /\ done2[t] = d /\ won2[t] = e
        BY <2>1, <2>4, <3>1 DEF Checks
      <3>3. /\ \A c \in Clients : SaidBy(others[c], t) = SaidBy(vs[c], t)
            /\ \A c \in Clients : t \in others[c].voted => t \in vs[c].voted
        BY <1>1, <3>1, BitsLeft
      <3>4. PICK more : more = back \ ended
        OBVIOUS
      <3>5. t \in back => t \in more
        BY <3>1, <3>4
      <3>6. TeamInv(others, v, b, more, d, e, t)
        BY <2>2, <3>3, <3>5, TeamKept
      <3> QED BY <2>2, <3>2, <3>4, <3>6
    <2> QED BY <2>3, <2>4
  <1>4. DOMAIN vote2 = VoteTeams /\ DOMAIN bs2 = VoteTeams /\ DOMAIN done2 = VoteTeams /\ DOMAIN won2 = VoteTeams
        /\ vote2 = [t \in VoteTeams |-> vote2[t]]
    BY DEF Checks
  <1>5. vote2 \in [VoteTeams -> AVote]
    <2>1. \A t \in VoteTeams : vote2[t] \in AVote
      BY <1>3
    <2> QED BY <1>4, <2>1
  <1> QED BY <1>2, <1>3, <1>4, <1>5 DEF VotesKeep

\* The votes of ls as the code finds them: those that are not over do not change.
LEMMA CheckVotesKeeps ==
    ASSUME VotesInv, NEW ls, Q!CheckVotes(ls), DOMAIN ls \subseteq VoteTeams,
           NEW vote, vote = level,
           \A t \in DOMAIN ls : Found(vote[t], ls[t]),
           \A t \in DOMAIN ls : Q!Ends(t, ls[t]) \/
               (ls[t].time # VOTE_TIME /\ ls[t].yes = vote[t].yes /\ ls[t].no = vote[t].no)
    PROVE  VotesInv'
  <1>1. PICK vs, bs, back, done, won :
             /\ vs = voters /\ bs = ballots /\ back = returned /\ done = executed /\ won = passed
    OBVIOUS
  <1>2. VotesKeep(vs, vote, bs, back, done, won)
    BY <1>1 DEF VotesInv
  <1>3. PICK ended, passing : /\ ended = {t \in DOMAIN ls : Q!Ends(t, ls[t])}
                              /\ passing = {t \in DOMAIN ls : Q!Passes(t, ls[t])}
    OBVIOUS
  <1>4. PICK others, vote2, bs2, done2, won2 :
            /\ others = voters' /\ vote2 = level' /\ bs2 = ballots' /\ done2 = executed' /\ won2 = passed'
    OBVIOUS
  <1>5. others = WithoutBits(vs, ended)
    BY <1>1, <1>3, <1>4 DEF Q!CheckVotes, WithoutBits
  <1>6. vote2 = [t \in VoteTeams |-> IF t \in DOMAIN ls THEN Checked(ls[t], t \in ended, t \in passing)
                                     ELSE vote[t]]
    <2>1. ASSUME NEW t \in VoteTeams, t \in DOMAIN ls
          PROVE  Q!CheckVote(t, ls[t]) = Checked(ls[t], t \in ended, t \in passing)
      <3>1. (Q!Ends(t, ls[t]) <=> t \in ended) /\ (Q!Passes(t, ls[t]) <=> t \in passing)
        BY <1>3, <2>1
      <3> QED BY <3>1 DEF Q!CheckVote, Checked, Q!Due
    <2>2. vote2 = [t \in VoteTeams |-> IF t \in DOMAIN ls THEN Q!CheckVote(t, ls[t]) ELSE vote[t]]
      BY <1>4 DEF Q!CheckVotes
    <2> QED BY <2>1, <2>2
  <1>7. bs2 = [t \in VoteTeams |-> IF t \in ended THEN NoneCast ELSE bs[t]]
    BY <1>1, <1>3, <1>4 DEF Q!CheckVotes, NoneCast, Q!NoBallots
  <1>8. done2 = [t \in VoteTeams |-> IF t \in DOMAIN ls /\ ls[t].execute > ExecuteDelay
                                     THEN Append(done[t], ls[t].number) ELSE done[t]]
    BY <1>1, <1>4 DEF Q!CheckVotes, Q!Due
  <1>9. won2 = [t \in VoteTeams |-> IF t \in ended /\ t \in passing
                                    THEN Append(won[t], ls[t].number) ELSE won[t]]
    <2>1. passed' = [t \in VoteTeams |-> IF t \in ended /\ Q!Passes(t, ls[t])
                                         THEN Append(passed[t], ls[t].number) ELSE passed[t]]
      BY <1>3 DEF Q!CheckVotes
    <2>2. \A t \in VoteTeams : (t \in ended /\ Q!Passes(t, ls[t])) <=> (t \in ended /\ t \in passing)
      BY <1>3
    <2> QED BY <1>1, <1>4, <2>1, <2>2
  <1>10. returned' = back \ ended
    BY <1>1, <1>3 DEF Q!CheckVotes
  <1>11. ended \subseteq DOMAIN ls /\ (\A t \in ended : ls[t].time # -1)
         /\ \A t \in DOMAIN ls \ ended : ls[t].time # VOTE_TIME /\ ls[t].yes = vote[t].yes /\ ls[t].no = vote[t].no
    BY <1>3 DEF Q!Ends
  <1>12. Checks(vs, vote, bs, done, won, ls, ended, passing, others, vote2, bs2, done2, won2)
    BY <1>5, <1>6, <1>7, <1>8, <1>9, <1>11 DEF Checks
  <1>13. VotesKeep(others, vote2, bs2, back \ ended, done2, won2)
    BY <1>2, <1>12, ChecksKeep
  <1> QED BY <1>4, <1>10, <1>13 DEF VotesInv

LEMMA VotesCardinality == ASSUME NEW set PROVE Q!Cardinality(set) = Cardinality(set)
  BY DEF Q!Cardinality, Cardinality, Q!IsFiniteSet, IsFiniteSet

LEMMA VotingCounted == ASSUME NEW t PROVE Q!Cardinality(Q!Voting(t)) \in Nat /\ IsFiniteSet(Q!Voting(t))
  <1>1. PICK voting : voting = Q!Voting(t)
    OBVIOUS
  <1>2. voting \subseteq Clients
    BY <1>1 DEF Q!Voting
  <1>3. IsFiniteSet(voting) /\ Cardinality(voting) \in Nat
    BY <1>2, VoteNumbers, FS_Subset, FS_CardinalityType
  <1> QED BY <1>1, <1>3, VotesCardinality

LEMMA FrameKeeps == ASSUME VotesInv, Q!G_RunFrame PROVE VotesInv'
  <1>1. PICK vote : vote = level
    OBVIOUS
  <1>2. vote \in [VoteTeams -> AVote]
    BY <1>1 DEF VotesInv, VotesKeep
  <1>3. PICK ls : ls = [t \in VoteTeams |-> [vote[t] EXCEPT !.time = Q!Older(vote[t].time),
                                                            !.execute = Q!Older(vote[t].execute)]]
    OBVIOUS
  <1>4. Q!CheckVotes(ls)
    BY <1>1, <1>3 DEF Q!G_RunFrame
  <1>5. ASSUME NEW t \in VoteTeams
        PROVE  /\ Found(vote[t], ls[t])
               /\ Q!Ends(t, ls[t]) \/
                     (ls[t].time # VOTE_TIME /\ ls[t].yes = vote[t].yes /\ ls[t].no = vote[t].no)
    <2>1. PICK v \in AVote : v = vote[t]
      BY <1>2
    <2>2. PICK age \in Int, wait \in Int : age = Q!Older(v.time) /\ wait = Q!Older(v.execute)
      <3>1. Q!Older(v.time) \in Int /\ Q!Older(v.execute) \in Int
        BY VoteNumbers DEF AVote, Q!Older
      <3> QED BY <3>1
    <2>3. /\ age \in -1..VOTE_TIME /\ (age = -1 <=> v.time = -1)
          /\ wait \in -1..ExecuteDelay + 1 /\ (wait = -1 <=> v.execute = -1)
      BY <2>2, VoteNumbers DEF AVote, Q!Older
    <2>4. PICK w : w = ls[t]
      OBVIOUS
    <2>5. w = [v EXCEPT !.time = age, !.execute = wait]
      BY <1>3, <2>1, <2>2, <2>4
    <2>6. /\ w.time = age /\ w.execute = wait /\ w.yes = v.yes /\ w.no = v.no /\ w.number = v.number
          /\ w \in [time : -1..VOTE_TIME, execute : -1..ExecuteDelay + 1, yes : Int, no : Int,
                    threshold : {n \in Nat : n >= 50}, number : Nat]
      BY <2>3, <2>5 DEF AVote
    <2>7. Found(v, w)
      BY <2>3, <2>6 DEF Found
    <2>8. w.time = VOTE_TIME => Q!Ends(t, w)
      <3> SUFFICES ASSUME w.time = VOTE_TIME PROVE Q!Ends(t, w)
        OBVIOUS
      <3>1. w.time # -1 /\ w.time >= VOTE_TIME
        BY VoteNumbers
      <3> QED BY <3>1 DEF Q!Ends, Q!Complete
    <2> QED BY <2>1, <2>4, <2>6, <2>7, <2>8
  <1>6. DOMAIN ls = VoteTeams
    BY <1>3
  <1>7. \A t \in DOMAIN ls : Found(vote[t], ls[t])
    BY <1>5, <1>6
  <1>8. \A t \in DOMAIN ls : Q!Ends(t, ls[t]) \/
            (ls[t].time # VOTE_TIME /\ ls[t].yes = vote[t].yes /\ ls[t].no = vote[t].no)
    BY <1>5, <1>6
  <1> QED BY <1>1, <1>4, <1>6, <1>7, <1>8, CheckVotesKeeps

LEMMA EndVoteKeeps ==
    ASSUME VotesInv, NEW t \in VoteTeams, NEW cancel \in BOOLEAN, Q!G_admin_endvote(t, cancel) PROVE VotesInv'
  <1>1. PICK vote : vote = level
    OBVIOUS
  <1>2. PICK v \in AVote : v = vote[t]
    BY <1>1 DEF VotesInv, VotesKeep
  <1>3. PICK n \in Nat : n = Q!Cardinality(Q!Voting(t))
    BY VotingCounted
  <1>4. PICK w : w = [v EXCEPT !.no = IF cancel THEN n ELSE 0, !.yes = IF cancel THEN 0 ELSE n]
    OBVIOUS
  <1>5. PICK ls : ls = [u \in {t} |-> w]
    OBVIOUS
  <1>6. Q!CheckVotes(ls) /\ v.time # -1
    BY <1>1, <1>2, <1>3, <1>4, <1>5 DEF Q!G_admin_endvote
  <1>7. /\ w.time = v.time /\ w.execute = v.execute /\ w.number = v.number
        /\ w.no = (IF cancel THEN n ELSE 0) /\ w.yes = (IF cancel THEN 0 ELSE n)
        /\ w \in AVote
    <2>1. PICK no \in Int, yes \in Int : no = (IF cancel THEN n ELSE 0) /\ yes = (IF cancel THEN 0 ELSE n)
      OBVIOUS
    <2>2. w = [v EXCEPT !.no = no, !.yes = yes]
      BY <1>4, <2>1
    <2> QED BY <2>1, <2>2 DEF AVote
  <1>8. Found(v, w)
    BY <1>7, VoteNumbers DEF Found, AVote
  <1>9. Q!Ends(t, w)
    <2>1. w.yes + w.no = n
      BY <1>7
    <2> QED BY <1>3, <1>6, <1>7, <2>1 DEF Q!Ends, Q!Complete
  <1>10. DOMAIN ls = {t} /\ ls[t] = w /\ DOMAIN ls \subseteq VoteTeams
    BY <1>5
  <1>11. \A u \in DOMAIN ls : Found(vote[u], ls[u])
    BY <1>2, <1>8, <1>10
  <1>12. \A u \in DOMAIN ls : Q!Ends(u, ls[u]) \/
             (ls[u].time # VOTE_TIME /\ ls[u].yes = vote[u].yes /\ ls[u].no = vote[u].no)
    BY <1>9, <1>10
  <1> QED BY <1>1, <1>6, <1>10, <1>11, <1>12, CheckVotesKeeps

LEMMA VotesKept == ASSUME VotesInv, UNCHANGED votes PROVE VotesInv'
  BY DEF VotesInv, votes

LEMMA VotesStep == ASSUME VotesInv, [Next]_vars PROVE VotesInv'
  <1>1. CASE UNCHANGED votes
    BY <1>1, VotesKept
  <1>2. CASE RunVotes
    <2>1. Q!Next
      BY <1>2 DEF RunVotes
    <2> QED BY <2>1, BeginKeeps, DisconnectKeeps, ChangeTeamKeeps, VoteKeeps, CallVoteKeeps, FrameKeeps,
               EndVoteKeeps DEF Q!Next
  <1>3. CASE UNCHANGED vars
    BY <1>1, <1>3 DEF vars
  <1>4. CASE Next /\ ~RunVotes
    <2>1. UNCHANGED votes
      BY <1>4 DEF Next, RunDownload, RunVoip, RunRate, RunHeap, RunSpawn, RunMaps, RunTime,
                  RunAliens, RunMaster
    <2> QED BY <1>1, <2>1
  <1> QED BY <1>2, <1>3, <1>4

LEMMA VotesInit == ASSUME Init PROVE VotesInv
  <1>1. PICK gone, unset : /\ gone = Q!Gone
                           /\ unset = [time |-> -1, execute |-> -1, yes |-> 0, no |-> 0,
                                       threshold |-> 50, number |-> 0]
    OBVIOUS
  <1>2. /\ voters = [c \in Clients |-> gone] /\ level = [t \in VoteTeams |-> unset]
        /\ ballots = [t \in VoteTeams |-> NoneCast]
        /\ passed = [t \in VoteTeams |-> <<>>] /\ executed = [t \in VoteTeams |-> <<>>]
    BY <1>1 DEF Init, Q!Init, Q!NoBallots, NoneCast
  <1>3. gone \in AVoter /\ gone.voted = {}
    BY <1>1, GoneIs
  <1>4. unset \in AVote /\ unset.time = -1 /\ unset.execute = -1 /\ unset.yes = 0 /\ unset.no = 0
    <2>1. -1 \in -1..VOTE_TIME - 1 /\ -1 \in -1..ExecuteDelay /\ 0 \in Int /\ 0 \in Nat
          /\ 50 \in {n \in Nat : n >= 50}
      BY VoteNumbers
    <2> QED BY <1>1, <2>1 DEF AVote
  <1>5. ASSUME NEW t \in VoteTeams PROVE TeamInv(voters, unset, NoneCast, returned, <<>>, <<>>, t)
    <2>1. OneAtATime(voters, unset, t)
      BY <1>2, <1>3, <1>4 DEF OneAtATime
    <2>2. Counts(voters, unset, NoneCast, t)
      BY <1>2, <1>3, <1>4, NobodyCast DEF Counts, NoneCast, SaidBy
    <2>3. InTurn(unset, <<>>, <<>>) /\ <<>> \in Seq(Nat)
      BY <1>4 DEF InTurn
    <2> QED BY <1>4, <2>1, <2>2, <2>3, NobodyCast DEF TeamInv
  <1> QED BY <1>2, <1>3, <1>4, <1>5 DEF VotesInv, VotesKeep

LEMMA VotesHeld == ASSUME VotesInv PROVE Q!TypeOK /\ Q!CountsExact /\ Q!ExecutedInTurn
  <1>1. PICK vs, vote, bs, back, done, won :
             /\ vs = voters /\ vote = level /\ bs = ballots /\ back = returned /\ done = executed /\ won = passed
    OBVIOUS
  <1>2. VotesKeep(vs, vote, bs, back, done, won)
    BY <1>1 DEF VotesInv
  <1>3. ASSUME NEW t \in VoteTeams, t \notin back
        PROVE  Q!Exact(t) /\ vote[t].yes \in 0..Q!Cardinality(Clients) /\ vote[t].no \in 0..Q!Cardinality(Clients)
    <2>1. PICK v, b : v = vote[t] /\ b = bs[t]
      OBVIOUS
    <2>2. v.yes = Cardinality(Cast(b, "yes")) /\ v.no = Cardinality(Cast(b, "no"))
      BY <1>2, <1>3, <2>1 DEF VotesKeep, TeamInv, Counts
    <2>3. Q!Ballots(t, "yes") = Cast(b, "yes") /\ Q!Ballots(t, "no") = Cast(b, "no")
      BY <1>1, <2>1 DEF Q!Ballots, Cast
    <2>4. Q!Exact(t)
      BY <1>1, <2>1, <2>2, <2>3, VotesCardinality DEF Q!Exact
    <2>5. PICK n : n = Cardinality(Clients)
      OBVIOUS
    <2>6. n \in Nat /\ v.yes \in Nat /\ v.yes <= n /\ v.no \in Nat /\ v.no <= n
      BY <2>2, <2>5, CastCounts, VoteNumbers, FS_CardinalityType
    <2> QED BY <2>1, <2>4, <2>5, <2>6, VotesCardinality
  <1>4. ASSUME NEW c \in Clients
        PROVE  vs[c].team \in VoteTeams /\ vs[c].vote \subseteq VoteTeams /\ \A t \in vs[c].voted : vote[t].time # -1
    <2>1. vs[c].team \in VoteTeams /\ vs[c].vote \subseteq VoteTeams /\ vs[c].voted \subseteq VoteTeams
      BY <1>2 DEF VotesKeep, AVoter
    <2>2. \A t \in VoteTeams : vote[t].time = -1 => t \notin vs[c].voted
      BY <1>2 DEF VotesKeep, TeamInv, OneAtATime
    <2> QED BY <2>1, <2>2
  <1>5. \A t \in VoteTeams : vote[t].time \in -1..VOTE_TIME - 1 /\ vote[t].execute \in -1..ExecuteDelay
    BY <1>2 DEF VotesKeep, AVote
  <1>6. Q!TypeOK
    BY <1>1, <1>3, <1>4, <1>5 DEF Q!TypeOK
  <1>7. Q!CountsExact
    BY <1>1, <1>3 DEF Q!CountsExact
  <1>8. Q!ExecutedInTurn
    BY <1>1, <1>2 DEF Q!ExecutedInTurn, Q!Pending, VotesKeep, TeamInv, InTurn
  <1> QED BY <1>6, <1>7, <1>8

\* More than the threshold of all who may vote, or of all who did, is more than half
\* of those who did.
LEMMA MoreThanHalf ==
    ASSUME NEW yes \in Nat, NEW no \in Nat, NEW n \in Nat, NEW threshold \in Nat, threshold >= 50,
           yes + no <= n, 100 * yes > n * threshold
    PROVE  yes > no
  <1>1. 50 * n <= threshold * n
    BY TimesMonotonic
  <1>2. PICK product \in Int : product = n * threshold /\ product = threshold * n
    OBVIOUS
  <1>3. 50 * n <= product /\ 100 * yes > product
    BY <1>1, <1>2
  <1>4. 100 * yes > 50 * n
    BY <1>3
  <1> QED BY <1>4

LEMMA MajorityOfThose ==
    ASSUME VotesInv, Q!G_RunFrame, NEW t \in VoteTeams \ returned, passed'[t] # passed[t]
    PROVE  Q!Cardinality(Q!Ballots(t, "yes")) > Q!Cardinality(Q!Ballots(t, "no"))
  <1>1. PICK vs, v, b : vs = voters /\ v = level[t] /\ b = ballots[t]
    OBVIOUS
  <1>2. v \in AVote /\ Counts(vs, v, b, t)
    BY <1>1 DEF VotesInv, VotesKeep, TeamInv
  <1>3. PICK w : w = [v EXCEPT !.time = Q!Older(v.time), !.execute = Q!Older(v.execute)]
    OBVIOUS
  <1>4. w.yes = v.yes /\ w.no = v.no /\ w.threshold = v.threshold
    BY <1>2, <1>3 DEF AVote
  <1>5. Q!Passes(t, w)
    <2>1. PICK ls : ls = [u \in VoteTeams |-> [level[u] EXCEPT !.time = Q!Older(level[u].time),
                                                               !.execute = Q!Older(level[u].execute)]]
      OBVIOUS
    <2>2. Q!CheckVotes(ls) /\ ls[t] = w
      BY <1>1, <1>3, <2>1 DEF Q!G_RunFrame
    <2>3. Q!Passes(t, ls[t])
      BY <2>2 DEF Q!CheckVotes
    <2> QED BY <2>2, <2>3
  <1>6. PICK ayes, noes, voting : ayes = Cast(b, "yes") /\ noes = Cast(b, "no") /\ voting = Q!Voting(t)
    OBVIOUS
  <1>7. ayes \cap noes = {} /\ ayes \cup noes \subseteq voting
    <2>1. \A c \in Clients : b[c] # "none" => c \in voting
      BY <1>1, <1>2, <1>6 DEF Counts, SaidBy, Q!Voting
    <2> QED BY <1>6, <2>1 DEF Cast
  <1>8. PICK yes \in Nat, no \in Nat, n \in Nat :
             yes = Cardinality(ayes) /\ no = Cardinality(noes) /\ n = Cardinality(voting)
    BY <1>6, CastCounts, VotingCounted, VotesCardinality
  <1>9. yes + no <= n
    <2>1. IsFiniteSet(ayes) /\ IsFiniteSet(noes) /\ IsFiniteSet(voting)
      BY <1>6, CastCounts, VotingCounted
    <2>2. Cardinality(ayes \cup noes) = Cardinality(ayes) + Cardinality(noes) - Cardinality(ayes \cap noes)
      BY <2>1, FS_Union
    <2>3. Cardinality(ayes \cap noes) = 0
      BY <1>7, FS_EmptySet
    <2>4. Cardinality(ayes \cup noes) <= Cardinality(voting)
      BY <1>7, <2>1, FS_Subset
    <2> QED BY <1>8, <2>2, <2>3, <2>4
  <1>10. w.yes = yes /\ w.no = no /\ Q!Cardinality(Q!Voting(t)) = n
    BY <1>2, <1>4, <1>6, <1>8, VotesCardinality DEF Counts
  <1>11. PICK threshold \in Nat : threshold = w.threshold /\ threshold >= 50
    BY <1>2, <1>4 DEF AVote
  <1>12. PICK all \in Nat : yes + no <= all /\ 100 * yes > all * threshold
    <2>1. CASE Q!Complete(t, w)
      <3>1. 100 * w.yes > (w.yes + w.no) * w.threshold
        BY <1>5, <2>1 DEF Q!Passes, Q!Majority
      <3>2. 100 * yes > (yes + no) * threshold
        BY <1>10, <1>11, <3>1
      <3> QED BY <3>2
    <2>2. CASE ~Q!Complete(t, w)
      <3>1. 100 * w.yes > Q!Cardinality(Q!Voting(t)) * w.threshold
        BY <1>5, <2>2 DEF Q!Passes, Q!Majority
      <3>2. 100 * yes > n * threshold
        BY <1>10, <1>11, <3>1
      <3> QED BY <1>9, <3>2
    <2> QED BY <2>1, <2>2
  <1>13. yes > no
    BY <1>11, <1>12, MoreThanHalf
  <1>14. Q!Ballots(t, "yes") = ayes /\ Q!Ballots(t, "no") = noes
    BY <1>1, <1>6 DEF Q!Ballots, Cast
  <1> QED BY <1>8, <1>13, <1>14, VotesCardinality

\* Ballots are counted once for each client who has a say, what passes has more for it
\* than against it, and is executed once, in turn (Votes: CountsExact,
\* MajorityPasses, ExecutedInTurn).
THEOREM Votes == Spec => VotesHold
  <1>1. Init => VotesInv
    BY VotesInit
  <1>2. VotesInv /\ [Next]_vars => VotesInv'
    BY VotesStep
  <1>3. VotesInv => (part = "votes" => Q!TypeOK /\ Q!CountsExact /\ Q!ExecutedInTurn)
    BY VotesHeld
  <1>4. VotesInv =>
          [passed' # passed /\ Q!G_RunFrame => \A t \in VoteTeams \ returned :
              passed'[t] # passed[t] =>
                  Q!Cardinality(Q!Ballots(t, "yes")) > Q!Cardinality(Q!Ballots(t, "no"))]_(Q!vars)
    BY MajorityOfThose
  <1> QED BY <1>1, <1>2, <1>3, <1>4, PTL DEF Spec, VotesHold, Q!MajorityPasses

-----------------------------------------------------------------------------
(* The client's time: the times of the client *)

ASnapshot == [serverTime : 0..MaxTime, active : BOOLEAN]

\* Snapshots follow each other in time, and once in the world a client stays there.
Later(s, m, n) == s[m].serverTime <= s[n].serverTime /\ (s[m].active => s[n].active)

Sent(s, clock) ==
    /\ s \in Seq(ASnapshot) /\ Len(s) <= MaxSnaps
    /\ \A n \in 1..Len(s) : s[n].serverTime <= clock /\ \A m \in 1..n : Later(s, m, n)

\* top is the newest snapshot of a.
Tops(a, top) == IF a = {} THEN top = 0 ELSE top \in a /\ \A m \in a : m <= top

Network(s, a, top) ==
    a \in SUBSET (1..Len(s)) /\ top \in 0..Len(s) /\ Tops(a, top)

LEMMA TopIsNewest ==
    ASSUME NEW s \in Seq(ASnapshot), NEW top, Network(s, arrived, top)
    PROVE  T!Newest = top
  <1>1. CASE arrived = {}
    BY <1>1 DEF Network, Tops, T!Newest
  <1>2. CASE arrived # {}
    <2>1. Len(s) \in Nat
      OBVIOUS
    <2>2. \A m \in arrived : m \in Nat
      BY <2>1 DEF Network
    <2>3. top \in arrived /\ \A m \in arrived : m <= top
      BY <1>2 DEF Network, Tops
    <2>4. ASSUME NEW n \in arrived, \A m \in arrived : m <= n PROVE n = top
      BY <2>2, <2>3, <2>4
    <2> QED BY <1>2, <2>3, <2>4 DEF T!Newest
  <1> QED BY <1>1, <1>2

TimeClient == [state : {"primed", "active"}, realtime : 0..MaxTime, serverTime : Int,
               oldServerTime : Int, delta : Int, oldFrame : Int, newSnapshots : BOOLEAN,
               extrapolated : BOOLEAN, inits : Nat, error : {""}, reset : BOOLEAN]

\* The delta grows by one for a snapshot, so it is no more than there were; no
\* frame was at a snapshot newer than the newest.
TimesKept(c, s, top) ==
    /\ c \in TimeClient
    /\ c.oldFrame = 0 \/ (top # 0 /\ c.oldFrame <= s[top].serverTime)
    /\ c.delta <= MaxTime + top
    /\ c.newSnapshots => top # 0 /\ c.delta <= MaxTime + top - 1
    /\ c.oldServerTime <= 3 * MaxTime + MaxSnaps
    /\ c.state = "active" => top # 0 /\ s[top].active

\* What a frame makes of the times of c.
TimesSet(c, d, s, top) ==
    /\ TimesKept(d, s, top)
    /\ d.inits = c.inits
    /\ d.state = "active" => d.serverTime = d.oldServerTime
    /\ d.state = "primed" => /\ c.state = "primed" /\ ~d.newSnapshots
                             /\ c.newSnapshots => ~s[top].active
    /\ c.state = "active" /\ ~d.reset => ~c.reset /\ d.oldServerTime >= c.oldServerTime

LEMMA TimeNumbers ==
    /\ MaxSnaps \in Nat /\ MaxTime \in Nat /\ MaxStep \in Nat /\ MaxSnaps # 0
    /\ RESET_TIME \in Int /\ FastTime \in Int /\ Ring \in Int
    /\ \A nudge \in Nudges : nudge \in Int /\ nudge >= -MaxTime
  BY TimeInstance DEF T!TimeAssumption

LEMMA TopIsSent ==
    ASSUME NEW s, NEW clock, Sent(s, clock), NEW top, top \in 1..Len(s)
    PROVE  s[top] \in ASnapshot /\ s[top].serverTime \in 0..MaxTime
  <1>1. s[top] \in ASnapshot
    BY DEF Sent
  <1> QED BY <1>1 DEF ASnapshot

LEMMA Halved ==
    ASSUME NEW d \in Int, NEW e \in Int, NEW m \in Int, d <= m, e <= m
    PROVE  (d + e) \div 2 \in Int /\ (d + e) \div 2 <= m
  OBVIOUS

LEMMA FirstSnapshotKeeps ==
    ASSUME NEW clock, Sent(sent, clock), NEW top, Network(sent, arrived, top),
           NEW c, TimesKept(c, sent, top), c.state = "primed"
    PROVE  /\ TimesKept(T!FirstSnapshot(c), sent, top)
           /\ T!FirstSnapshot(c).inits = c.inits /\ T!FirstSnapshot(c).realtime = c.realtime
           /\ T!FirstSnapshot(c).state = "primed" =>
                 ~T!FirstSnapshot(c).newSnapshots /\ (c.newSnapshots => ~sent[top].active)
  <1>1. T!Newest = top /\ Len(sent) \in Nat /\ MaxSnaps \in Nat /\ MaxTime \in Nat
    BY TopIsNewest, TimeNumbers DEF Sent
  <1>2. c \in TimeClient
    BY DEF TimesKept
  <1>3. CASE ~c.newSnapshots
    BY <1>3 DEF T!FirstSnapshot
  <1>4. CASE c.newSnapshots
    <2>1. top \in 1..Len(sent)
      BY <1>1, <1>4 DEF TimesKept, Network
    <2>2. PICK t \in 0..MaxTime : t = sent[top].serverTime
      BY <2>1, TopIsSent
    <2>3. CASE ~sent[top].active
      <3>1. T!FirstSnapshot(c) = [c EXCEPT !.newSnapshots = FALSE]
        BY <1>1, <1>4, <2>3 DEF T!FirstSnapshot
      <3> QED BY <1>1, <1>2, <2>3, <3>1 DEF TimesKept, TimeClient
    <2>4. CASE sent[top].active
      <3>1. T!FirstSnapshot(c) = [c EXCEPT !.newSnapshots = FALSE, !.state = "active",
                                           !.delta = t - c.realtime, !.oldServerTime = t]
        BY <1>1, <1>4, <2>2, <2>4 DEF T!FirstSnapshot, T!ServerTime
      <3>2. c.realtime \in 0..MaxTime
        BY <1>2 DEF TimeClient
      <3>3. t - c.realtime \in Int /\ t - c.realtime <= MaxTime + top /\ t <= 3 * MaxTime + MaxSnaps
        BY <1>1, <2>1, <2>2, <3>2
      <3>4. PICK d : d = T!FirstSnapshot(c)
        OBVIOUS
      <3>9. t \in Int
        BY <1>1
      <3>5. d \in TimeClient /\ d.inits = c.inits /\ d.realtime = c.realtime
        <4>1. PICK delta \in Int : delta = t - c.realtime
          BY <3>3
        <4>2. d = [c EXCEPT !.newSnapshots = FALSE, !.state = "active", !.delta = delta, !.oldServerTime = t]
          BY <3>1, <3>4, <4>1
        <4> QED BY <1>2, <3>9, <4>2 DEF TimeClient
      <3>6. /\ d.delta = t - c.realtime /\ d.oldServerTime = t /\ d.oldFrame = c.oldFrame
            /\ d.state = "active" /\ ~d.newSnapshots
        BY <1>2, <3>1, <3>4 DEF TimeClient
      <3>7. top # 0
        BY <2>1
      <3>8. TimesKept(d, sent, top)
        BY <2>4, <3>3, <3>5, <3>6, <3>7 DEF TimesKept
      <3> QED BY <3>4, <3>5, <3>6, <3>8
    <2> QED BY <2>3, <2>4
  <1> QED BY <1>3, <1>4

LEMMA SetTimeKeeps ==
    ASSUME NEW clock, Sent(sent, clock), NEW top, Network(sent, arrived, top),
           NEW c, TimesKept(c, sent, top), c.state = "active", NEW nudge \in Nudges
    PROVE  LET d == T!SetTime(c, nudge) IN
           /\ TimesKept(d, sent, top)
           /\ d.inits = c.inits /\ d.reset = c.reset /\ d.state = "active"
           /\ d.newSnapshots = c.newSnapshots
           /\ d.serverTime = d.oldServerTime /\ d.oldServerTime >= c.oldServerTime
  <1>1. T!Newest = top /\ Len(sent) \in Nat /\ MaxSnaps \in Nat /\ MaxTime \in Nat /\ Len(sent) <= MaxSnaps
    BY TopIsNewest, TimeNumbers DEF Sent
  <1>2. c \in TimeClient /\ nudge \in Int /\ nudge >= -MaxTime
    BY TimeNumbers DEF TimesKept
  <1>3. top \in 1..Len(sent)
    BY <1>1 DEF TimesKept, Network
  <1>4. PICK t \in 0..MaxTime : t = sent[top].serverTime
    BY <1>3, TopIsSent
  <1>5. c.realtime \in 0..MaxTime /\ c.delta \in Int /\ c.oldServerTime \in Int /\ c.oldFrame \in Int
    BY <1>2 DEF TimeClient
  <1>6. PICK u \in Int : u = T!Forward(c, c.realtime + c.delta - nudge) /\ u >= c.oldServerTime
                         /\ u <= 3 * MaxTime + MaxSnaps
    <2>1. c.delta <= MaxTime + top /\ c.oldServerTime <= 3 * MaxTime + MaxSnaps
      BY DEF TimesKept
    <2>2. c.realtime + c.delta - nudge \in Int /\ c.realtime + c.delta - nudge <= 3 * MaxTime + MaxSnaps
      BY <1>1, <1>2, <1>3, <1>5, <2>1, SMTT(30)
    <2> QED BY <1>1, <1>5, <2>1, <2>2 DEF T!Forward, T!Max2
  <1>7. ~(t < c.oldFrame)
    BY <1>4, <1>5 DEF TimesKept
  <1>8. PICK e \in BOOLEAN : e = (c.extrapolated \/ c.realtime + c.delta >= t - 1)
    OBVIOUS
  <1>9. PICK d : d = T!SetTime(c, nudge)
    OBVIOUS
  <1>10. d = [c EXCEPT !.oldFrame = t, !.serverTime = u, !.oldServerTime = u, !.extrapolated = e]
    BY <1>1, <1>4, <1>6, <1>7, <1>8, <1>9 DEF T!SetTime, T!ServerTime
  <1>11. d \in TimeClient
    <2>1. t \in Int
      BY <1>1
    <2> QED BY <1>2, <1>6, <1>8, <1>10, <2>1 DEF TimeClient
  <1>12. /\ d.oldFrame = t /\ d.serverTime = u /\ d.oldServerTime = u /\ d.delta = c.delta
         /\ d.inits = c.inits /\ d.reset = c.reset /\ d.state = c.state /\ d.newSnapshots = c.newSnapshots
    BY <1>2, <1>10 DEF TimeClient
  <1>13. TimesKept(d, sent, top)
    BY <1>4, <1>6, <1>11, <1>12 DEF TimesKept
  <1> QED BY <1>6, <1>9, <1>12, <1>13

LEMMA AdjustKeeps ==
    ASSUME NEW clock, Sent(sent, clock), NEW top, Network(sent, arrived, top),
           NEW c, TimesKept(c, sent, top), c.state = "active", c.newSnapshots,
           c.serverTime = c.oldServerTime
    PROVE  LET d == T!AdjustTimeDelta(c) IN
           /\ TimesKept(d, sent, top)
           /\ d.inits = c.inits /\ d.state = "active" /\ d.serverTime = d.oldServerTime
           /\ ~d.reset => ~c.reset /\ d.oldServerTime = c.oldServerTime
  <1>1. T!Newest = top /\ Len(sent) \in Nat /\ MaxSnaps \in Nat /\ MaxTime \in Nat /\ Len(sent) <= MaxSnaps
    BY TopIsNewest, TimeNumbers DEF Sent
  <1>2. c \in TimeClient
    BY DEF TimesKept
  <1>3. top \in 1..Len(sent)
    BY <1>1 DEF TimesKept, Network
  <1>4. PICK t \in 0..MaxTime : t = sent[top].serverTime
    BY <1>3, TopIsSent
  <1>5. c.realtime \in 0..MaxTime /\ c.delta \in Int /\ c.oldServerTime \in Int /\ c.oldFrame \in Int
    BY <1>2 DEF TimeClient
  <1>6. c.delta <= MaxTime + top - 1
    BY DEF TimesKept
  <1>7. PICK d : d = T!AdjustTimeDelta(c)
    OBVIOUS
  <1>8. CASE T!Off(c) > RESET_TIME
    <2>1. d = [c EXCEPT !.newSnapshots = FALSE, !.reset = TRUE, !.delta = t - c.realtime,
                        !.oldServerTime = t, !.serverTime = t]
      BY <1>1, <1>4, <1>7, <1>8 DEF T!AdjustTimeDelta, T!ServerTime
    <2>2. t - c.realtime \in Int /\ t - c.realtime <= MaxTime + top /\ t <= 3 * MaxTime + MaxSnaps
      BY <1>1, <1>3, <1>5
    <2>3. d \in TimeClient
      <3>1. t \in Int
        BY <1>1
      <3>2. PICK delta \in Int : delta = t - c.realtime
        BY <2>2
      <3>3. d = [c EXCEPT !.newSnapshots = FALSE, !.reset = TRUE, !.delta = delta,
                          !.oldServerTime = t, !.serverTime = t]
        BY <2>1, <3>2
      <3> QED BY <1>2, <3>1, <3>3 DEF TimeClient
    <2>4. /\ d.oldFrame = c.oldFrame /\ d.serverTime = t /\ d.oldServerTime = t /\ d.delta = t - c.realtime
          /\ d.inits = c.inits /\ d.reset /\ d.state = c.state /\ ~d.newSnapshots
      BY <1>2, <2>1 DEF TimeClient
    <2>5. TimesKept(d, sent, top)
      BY <2>2, <2>3, <2>4 DEF TimesKept
    <2> QED BY <1>7, <2>4, <2>5
  <1>9. CASE ~(T!Off(c) > RESET_TIME)
    <2>1. PICK e \in Int, x \in BOOLEAN :
              /\ d = [c EXCEPT !.newSnapshots = FALSE, !.delta = e, !.extrapolated = x]
              /\ e <= MaxTime + top
      <3>1. CASE T!Off(c) > FastTime
        <4>1. PICK n \in Int : n = t - c.realtime /\ n <= MaxTime + top
          BY <1>1, <1>3, <1>5
        <4>2. (c.delta + n) \div 2 \in Int /\ (c.delta + n) \div 2 <= MaxTime + top
          <5>1. MaxTime + top \in Int /\ c.delta <= MaxTime + top
            BY <1>1, <1>3, <1>5, <1>6
          <5> QED BY <1>5, <4>1, <5>1, Halved
        <4>3. d = [c EXCEPT !.newSnapshots = FALSE, !.delta = (c.delta + n) \div 2]
          BY <1>1, <1>4, <1>7, <1>9, <3>1, <4>1 DEF T!AdjustTimeDelta, T!ServerTime
        <4>4. d = [c EXCEPT !.newSnapshots = FALSE, !.delta = (c.delta + n) \div 2,
                            !.extrapolated = c.extrapolated]
          BY <1>2, <4>3 DEF TimeClient
        <4>5. c.extrapolated \in BOOLEAN
          BY <1>2 DEF TimeClient
        <4> QED BY <4>2, <4>4, <4>5
      <3>2. CASE ~(T!Off(c) > FastTime)
        <4>1. PICK n \in Int : n = (IF c.extrapolated THEN c.delta - 2 ELSE c.delta + 1) /\ n <= MaxTime + top
          BY <1>1, <1>3, <1>5, <1>6
        <4>2. d = [c EXCEPT !.newSnapshots = FALSE, !.extrapolated = FALSE, !.delta = n]
          BY <1>2, <1>7, <1>9, <3>2, <4>1 DEF T!AdjustTimeDelta, TimeClient
        <4>3. d = [c EXCEPT !.newSnapshots = FALSE, !.delta = n, !.extrapolated = FALSE]
          BY <1>2, <4>2 DEF TimeClient
        <4> QED BY <4>1, <4>3
      <3> QED BY <3>1, <3>2
    <2>3. d \in TimeClient
      BY <1>2, <2>1 DEF TimeClient
    <2>4. /\ d.oldFrame = c.oldFrame /\ d.serverTime = c.serverTime /\ d.oldServerTime = c.oldServerTime
          /\ d.delta = e /\ d.inits = c.inits /\ d.reset = c.reset /\ d.state = c.state /\ ~d.newSnapshots
      BY <1>2, <2>1 DEF TimeClient
    <2>5. TimesKept(d, sent, top)
      BY <2>1, <2>3, <2>4 DEF TimesKept
    <2> QED BY <1>7, <2>4, <2>5
  <1> QED BY <1>8, <1>9

\* A frame, after CL_SetCGameTime.
LEMMA FrameTimes ==
    ASSUME NEW clock, Sent(sent, clock), NEW top, Network(sent, arrived, top),
           NEW c, TimesKept(c, sent, top), NEW nudge \in Nudges
    PROVE  TimesSet(c, T!SetCGameTime(c, nudge), sent, top)
  <1>1. PICK d : d = IF c.state = "active" THEN c ELSE T!FirstSnapshot(c)
    OBVIOUS
  <1>2. PICK e : e = T!SetTime(d, nudge)
    OBVIOUS
  <1>3. PICK f : f = T!SetCGameTime(c, nudge)
    OBVIOUS
  <1>4. f = IF d.state # "active" THEN d
            ELSE IF e.newSnapshots /\ e.error = "" THEN T!AdjustTimeDelta(e) ELSE e
    BY <1>1, <1>2, <1>3 DEF T!SetCGameTime
  <1>5. c.state \in {"active", "primed"}
    BY DEF TimesKept, TimeClient
  <1>6. TimesKept(d, sent, top) /\ d.inits = c.inits
    BY <1>1, <1>5, FirstSnapshotKeeps
  <1>7. d.state \in {"active", "primed"} /\ (c.state = "active" => d = c)
    BY <1>1, <1>6 DEF TimesKept, TimeClient
  <1>8. CASE d.state = "primed"
    <2>1. f = d /\ c.state = "primed"
      BY <1>4, <1>5, <1>7, <1>8
    <2>2. ~d.newSnapshots /\ (c.newSnapshots => ~sent[top].active)
      BY <1>1, <1>8, <2>1, FirstSnapshotKeeps
    <2> QED BY <1>3, <1>6, <1>8, <2>1, <2>2 DEF TimesSet
  <1>9. CASE d.state = "active"
    <2>1. /\ TimesKept(e, sent, top)
          /\ e.inits = d.inits /\ e.reset = d.reset /\ e.state = "active"
          /\ e.serverTime = e.oldServerTime /\ e.oldServerTime >= d.oldServerTime
      BY <1>2, <1>6, <1>9, SetTimeKeeps
    <2>2. CASE e.newSnapshots
      <3>1. e.error = ""
        BY <2>1 DEF TimesKept, TimeClient
      <3>2. f = T!AdjustTimeDelta(e)
        BY <1>4, <1>9, <2>2, <3>1
      <3>3. /\ TimesKept(f, sent, top) /\ f.inits = e.inits /\ f.state = "active"
            /\ f.serverTime = f.oldServerTime
            /\ ~f.reset => ~e.reset /\ f.oldServerTime = e.oldServerTime
        BY <2>1, <2>2, <3>2, AdjustKeeps
      <3> QED BY <1>3, <1>6, <1>7, <2>1, <3>3 DEF TimesSet
    <2>3. CASE ~e.newSnapshots
      <3>1. f = e
        BY <1>4, <1>9, <2>3
      <3> QED BY <1>3, <1>6, <1>7, <2>1, <3>1 DEF TimesSet
    <2> QED BY <2>2, <2>3
  <1> QED BY <1>7, <1>8, <1>9

-----------------------------------------------------------------------------
(* The client's time: cgame between its snapshots *)

TimeCgame == [snap : Nat, next : Nat, processed : Nat, time : Int, error : {""}]

Reads(a, top, n) == n \in a /\ n > top - Ring

\* None of the snapshots after m, up to n, can be read.
NoneRead(a, top, m, n) == \A k \in m + 1..n : ~Reads(a, top, k)

\* cgame reads on after its next snapshot, or has passed none that can be read
\* since its snapshot.
CgameKept(g, a, top) ==
    /\ g \in TimeCgame
    /\ g.snap <= g.processed /\ g.processed <= top
    /\ g.next # 0 => g.snap # 0 /\ g.snap < g.next /\ g.next = g.processed
    /\ g.next = 0 /\ g.snap # 0 => NoneRead(a, top, g.snap, g.processed)

\* A round changes cgame no more: the time lies between its snapshots, or there is
\* nothing to read.
Rests(g, s, a, top) ==
    IF g.next # 0 THEN s[g.snap].serverTime <= g.time /\ g.time < s[g.next].serverTime
    ELSE NoneRead(a, top, g.processed, top)

NoneActive(s, a, m, n) == \A k \in m + 1..n : k \in a => ~s[k].active

\* cgame has no snapshot and nothing to begin with.
Quiet(g, s, a, top) == g.snap = 0 /\ NoneActive(s, a, g.processed, top)

\* Grows by one in each round, until cgame rests.
Progress(g) == 2 * g.processed + IF g.next = 0 THEN 1 ELSE 0

Advances(g, h, s, a, top) ==
    /\ CgameKept(h, a, top) /\ h.time = g.time /\ h.snap >= g.snap
    /\ Rests(g, s, a, top) => Rests(h, s, a, top)
    /\ Rests(g, s, a, top) \/ Progress(h) >= Progress(g) + 1
    /\ Quiet(g, s, a, top) => Quiet(h, s, a, top)

\* What CG_ReadNextSnapshot finds after m.
FoundNext(a, top, m, n) ==
    IF NoneRead(a, top, m, top) THEN n = 0
    ELSE n \in m + 1..top /\ Reads(a, top, n) /\ NoneRead(a, top, m, n - 1)

LEMMA NextReadFinds ==
    ASSUME NEW top \in Nat, T!Newest = top, NEW g, g.processed \in Nat
    PROVE  FoundNext(arrived, top, g.processed, T!NextRead(g))
  <1>1. PICK m \in Nat : m = g.processed
    OBVIOUS
  <1>2. PICK ns : ns = {n \in m + 1..top : Reads(arrived, top, n)}
    OBVIOUS
  <1>3. T!NextRead(g) = IF ns = {} THEN 0 ELSE CHOOSE n \in ns : \A k \in ns : n <= k
    <2>1. {n \in g.processed + 1..T!Newest : T!Readable(n)} = ns
      BY <1>1, <1>2 DEF T!Readable, Reads
    <2> DEFINE read == {n \in g.processed + 1..T!Newest : T!Readable(n)}
    <2>2. T!NextRead(g) = IF read = {} THEN 0 ELSE CHOOSE n \in read : \A k \in read : n <= k
      BY DEF T!NextRead
    <2> HIDE DEF read
    <2>3. read = ns
      BY <2>1 DEF read
    <2> QED BY <2>2, <2>3
  <1>4. CASE ns = {}
    <2>1. NoneRead(arrived, top, m, top)
      BY <1>2, <1>4 DEF NoneRead
    <2> QED BY <1>1, <1>3, <1>4, <2>1 DEF FoundNext
  <1>5. CASE ns # {}
    <2>1. ns \in SUBSET Nat
      BY <1>2
    <2>2. \E n \in ns : \A k \in ns : n <= k
      BY <1>5, <2>1, LeastOf
    <2>3. PICK n : n = T!NextRead(g) /\ n \in ns /\ \A k \in ns : n <= k
      BY <1>3, <1>5, <2>2
    <2>4. n \in m + 1..top /\ Reads(arrived, top, n)
      BY <1>2, <2>3
    <2>5. ~NoneRead(arrived, top, m, top)
      BY <2>4 DEF NoneRead
    <2>6. ASSUME NEW k \in m + 1..n - 1, Reads(arrived, top, k) PROVE FALSE
      <3>1. k \in m + 1..top /\ ~(n <= k)
        BY <2>4
      <3> QED BY <1>2, <2>3, <2>6, <3>1
    <2>7. NoneRead(arrived, top, m, n - 1)
      BY <2>6 DEF NoneRead
    <2> QED BY <1>1, <2>3, <2>4, <2>5, <2>7 DEF FoundNext
  <1> QED BY <1>4, <1>5

LEMMA NoneReadOn ==
    ASSUME NEW a, NEW top \in Nat, NEW k \in Nat, NEW m \in Nat, NEW n \in Nat,
           NoneRead(a, top, k, m), NoneRead(a, top, m, n)
    PROVE  NoneRead(a, top, k, n)
  <1> SUFFICES ASSUME NEW j \in k + 1..n PROVE ~Reads(a, top, j)
    BY DEF NoneRead
  <1>1. j \in k + 1..m \/ j \in m + 1..n
    OBVIOUS
  <1> QED BY <1>1 DEF NoneRead

LEMMA NoneReadHere ==
    ASSUME NEW a, NEW top \in Nat, NEW m \in Nat
    PROVE  NoneRead(a, top, m, m)
  BY DEF NoneRead

\* A round that reads, without or with a snapshot.
LEMMA RoundReads ==
    ASSUME NEW clock, Sent(sent, clock), NEW top, Network(sent, arrived, top),
           NEW g, CgameKept(g, arrived, top), g.next = 0
    PROVE  Advances(g, T!Round(g), sent, arrived, top)
  <1>1. Len(sent) \in Nat /\ top \in Nat /\ top <= Len(sent)
    <2>1. sent \in Seq(ASnapshot)
      BY DEF Sent
    <2>2. Len(sent) \in Nat
      BY <2>1
    <2> QED BY <2>2 DEF Network
  <1>0. T!Newest = top
    BY TopIsNewest DEF Sent
  <1>2. /\ g \in TimeCgame /\ g.snap \in Nat /\ g.processed \in Nat
        /\ g.snap <= g.processed /\ g.processed <= top
    BY DEF CgameKept, TimeCgame
  <1>3. PICK n : n = T!NextRead(g)
    OBVIOUS
  <1>4. FoundNext(arrived, top, g.processed, n)
    BY <1>0, <1>1, <1>2, <1>3, NextReadFinds
  <1>5. PICK h : h = T!Round(g)
    OBVIOUS
  <1>6. PICK got : got = [g EXCEPT !.processed = T!ReadUpTo(g, n)]
    OBVIOUS
  <1>7. CASE NoneRead(arrived, top, g.processed, top)
    <2>1. n = 0
      BY <1>4, <1>7 DEF FoundNext
    <2>2. got = [g EXCEPT !.processed = top]
      BY <1>0, <1>1, <1>2, <1>6, <2>1 DEF T!ReadUpTo, T!Max2
    <2>3. h = [g EXCEPT !.processed = top]
      BY <1>3, <1>5, <1>6, <2>1, <2>2 DEF T!Round
    <2>4. /\ h \in TimeCgame /\ h.processed = top /\ h.snap = g.snap /\ h.time = g.time /\ h.next = 0
      BY <1>1, <1>2, <2>3 DEF TimeCgame
    <2>5. g.snap # 0 => NoneRead(arrived, top, g.snap, top)
      BY <1>1, <1>2, <1>7, NoneReadOn DEF CgameKept
    <2>6. CgameKept(h, arrived, top)
      BY <1>1, <1>2, <2>4, <2>5 DEF CgameKept
    <2>7. Rests(g, sent, arrived, top) /\ Rests(h, sent, arrived, top)
      BY <1>1, <1>7, <2>4, NoneReadHere DEF Rests
    <2>8. NoneActive(sent, arrived, top, top)
      BY <1>1 DEF NoneActive
    <2>9. Quiet(g, sent, arrived, top) => Quiet(h, sent, arrived, top)
      BY <2>4, <2>8 DEF Quiet
    <2> QED BY <1>2, <1>5, <2>4, <2>6, <2>7, <2>9 DEF Advances
  <1>8. CASE ~NoneRead(arrived, top, g.processed, top)
    <2>1. /\ n \in g.processed + 1..top /\ n \in arrived /\ n # 0 /\ n \in Nat
          /\ n > g.processed /\ n <= top
      <3>1. n \in g.processed + 1..top /\ Reads(arrived, top, n)
        BY <1>4, <1>8 DEF FoundNext
      <3>2. n \in Nat /\ n > g.processed /\ n <= top /\ n # 0
        BY <1>1, <1>2, <3>1
      <3> QED BY <3>1, <3>2 DEF Reads
    <2>2. got = [g EXCEPT !.processed = n]
      BY <1>6, <2>1 DEF T!ReadUpTo
    <2>3. /\ got \in TimeCgame /\ got.processed = n /\ got.snap = g.snap /\ got.time = g.time
          /\ got.next = 0
      BY <1>2, <2>1, <2>2 DEF TimeCgame
    <2>10. ~Rests(g, sent, arrived, top)
      BY <1>8 DEF Rests
    <2>4. CASE g.snap = 0 /\ ~sent[n].active
      <3>1. h = got
        BY <1>3, <1>5, <1>6, <2>4 DEF T!Round
      <3>2. CgameKept(h, arrived, top)
        BY <1>1, <2>1, <2>3, <2>4, <3>1 DEF CgameKept
      <3>3. Progress(h) >= Progress(g) + 1
        BY <1>1, <1>2, <2>1, <2>3, <3>1 DEF Progress
      <3>4. Quiet(g, sent, arrived, top) => Quiet(h, sent, arrived, top)
        <4>1. \A k \in n + 1..top : k \in g.processed + 1..top
          BY <1>1, <1>2, <2>1
        <4> QED BY <2>3, <3>1, <4>1 DEF Quiet, NoneActive
      <3> QED BY <1>2, <1>5, <2>3, <2>10, <3>1, <3>2, <3>3, <3>4 DEF Advances
    <2>5. CASE g.snap = 0 /\ sent[n].active
      <3>1. h = [got EXCEPT !.snap = n]
        BY <1>3, <1>5, <1>6, <2>1, <2>5 DEF T!Round
      <3>2. /\ h \in TimeCgame /\ h.processed = n /\ h.snap = n /\ h.time = g.time /\ h.next = 0
        BY <2>1, <2>3, <3>1 DEF TimeCgame
      <3>3. CgameKept(h, arrived, top)
        BY <1>1, <2>1, <3>2, NoneReadHere DEF CgameKept
      <3>4. Progress(h) >= Progress(g) + 1 /\ h.snap >= g.snap
        BY <1>2, <2>1, <3>2 DEF Progress
      <3>5. ~Quiet(g, sent, arrived, top)
        BY <2>1, <2>5 DEF Quiet, NoneActive
      <3> QED BY <1>5, <2>10, <3>2, <3>3, <3>4, <3>5 DEF Advances
    <2>6. CASE g.snap # 0
      <3>1. g.snap \in 1..n /\ n \in 1..Len(sent)
        BY <1>1, <1>2, <2>1, <2>6
      <3>2. sent[g.snap].serverTime <= sent[n].serverTime
        BY <3>1 DEF Sent, Later
      <3>3. sent[n].serverTime \in Int /\ sent[g.snap].serverTime \in Int
        <4>1. g.snap \in 1..Len(sent)
          BY <1>1, <3>1
        <4>2. sent[n].serverTime \in 0..MaxTime /\ sent[g.snap].serverTime \in 0..MaxTime
          BY <3>1, <4>1, TopIsSent
        <4> QED BY <4>2, TimeNumbers
      <3>4. h = [got EXCEPT !.next = n]
        BY <1>3, <1>5, <1>6, <2>1, <2>6, <3>2, <3>3 DEF T!Round, T!ServerTime
      <3>5. /\ h \in TimeCgame /\ h.processed = n /\ h.snap = g.snap /\ h.time = g.time /\ h.next = n
        BY <2>1, <2>3, <3>4 DEF TimeCgame
      <3>6. CgameKept(h, arrived, top)
        BY <1>1, <1>2, <2>1, <2>6, <3>5 DEF CgameKept
      <3>7. Progress(h) >= Progress(g) + 1
        BY <1>2, <2>1, <3>5 DEF Progress
      <3>8. ~Quiet(g, sent, arrived, top)
        BY <2>6 DEF Quiet
      <3> QED BY <1>2, <1>5, <2>10, <3>5, <3>6, <3>7, <3>8 DEF Advances
    <2> QED BY <2>4, <2>5, <2>6
  <1> QED BY <1>7, <1>8

LEMMA RoundAdvances ==
    ASSUME NEW clock, Sent(sent, clock), NEW top, Network(sent, arrived, top),
           NEW g, CgameKept(g, arrived, top)
    PROVE  Advances(g, T!Round(g), sent, arrived, top)
  <1>1. CASE g.next = 0
    BY <1>1, RoundReads
  <1>2. CASE g.next # 0
    <2>1. /\ g \in TimeCgame /\ g.snap # 0 /\ g.snap < g.next /\ g.next = g.processed
          /\ g.snap \in Nat /\ g.next \in Nat /\ g.processed \in Nat /\ g.processed <= top
      BY <1>2 DEF CgameKept, TimeCgame
    <2>2. PICK h : h = T!Round(g)
      OBVIOUS
    <2>3. Rests(g, sent, arrived, top) <=> T!Between(g)
      BY <1>2 DEF Rests, T!Between, T!ServerTime
    <2>4. ~Quiet(g, sent, arrived, top)
      BY <2>1 DEF Quiet
    <2>5. CASE T!Between(g)
      <3>1. h = g
        BY <1>2, <2>1, <2>2, <2>5 DEF T!Round
      <3> QED BY <2>1, <2>2, <2>3, <2>4, <2>5, <3>1 DEF Advances
    <2>6. CASE ~T!Between(g)
      <3>1. h = [g EXCEPT !.snap = g.next, !.next = 0]
        BY <1>2, <2>1, <2>2, <2>6 DEF T!Round
      <3>2. /\ h \in TimeCgame /\ h.processed = g.processed /\ h.snap = g.processed /\ h.time = g.time
            /\ h.next = 0
        BY <2>1, <3>1 DEF TimeCgame
      <3>3. top \in Nat
        <4>1. sent \in Seq(ASnapshot)
          BY DEF Sent
        <4>2. Len(sent) \in Nat
          BY <4>1
        <4> QED BY <4>2 DEF Network
      <3>4. CgameKept(h, arrived, top)
        BY <2>1, <3>2, <3>3, NoneReadHere DEF CgameKept
      <3>5. Progress(h) >= Progress(g) + 1 /\ h.snap >= g.snap
        BY <1>2, <2>1, <3>2 DEF Progress
      <3> QED BY <2>2, <2>3, <2>4, <2>6, <3>2, <3>4, <3>5 DEF Advances
    <2> QED BY <2>5, <2>6
  <1> QED BY <1>1, <1>2

KeptCgames(a, top) == {g \in TimeCgame : CgameKept(g, a, top)}

RoundsFunction(f, g, n) == f = [k \in 0..n |->
    IF k = 0 THEN g ELSE LET p == f[k - 1] IN IF p.error # "" THEN p ELSE T!Round(p)]

RoundsAre(g, a, top) ==
    \E f \in [0..3 * MaxSnaps -> KeptCgames(a, top)] :
        /\ T!Rounds(g) = f[3 * MaxSnaps] /\ f[0] = g
        /\ \A k \in 1..3 * MaxSnaps : f[k] = T!Round(f[k - 1])

\* The function that Rounds is defined by exists, and its equations hold.
LEMMA RoundsBy ==
    ASSUME NEW clock, Sent(sent, clock), NEW top, Network(sent, arrived, top),
           NEW g, CgameKept(g, arrived, top)
    PROVE  RoundsAre(g, arrived, top)
  <1> DEFINE value == KeptCgames(arrived, top)
             step == [p \in Nat \X value |-> T!Round(p[2])]
  <1>1. PICK n \in Nat : n = 3 * MaxSnaps
    BY TimeNumbers
  <1>2. g \in value
    BY DEF KeptCgames, CgameKept
  <1>3. step \in Steps(value)
    <2>1. ASSUME NEW p \in Nat \X value PROVE T!Round(p[2]) \in value
      <3>1. CgameKept(p[2], arrived, top)
        BY DEF KeptCgames
      <3>2. CgameKept(T!Round(p[2]), arrived, top)
        BY <3>1, RoundAdvances DEF Advances
      <3> QED BY <3>2 DEF KeptCgames, CgameKept
    <2> QED BY <2>1 DEF Steps
  <1>4. PICK f \in [0..n -> value] : f[0] = g /\ \A k \in 1..n : f[k] = step[<<k, f[k - 1]>>]
    <2> HIDE DEF step, value
    <2>1. Iterated(value, g, step, n)
      BY <1>1, <1>2, <1>3, Iterates
    <2> QED BY <2>1 DEF Iterated
  <1>5. ASSUME NEW k \in 1..n PROVE f[k] = T!Round(f[k - 1])
    <2>1. k \in Nat /\ k - 1 \in 0..n
      BY <1>1
    <2> HIDE DEF value
    <2>2. <<k, f[k - 1]>> \in Nat \X value
      BY <2>1
    <2>3. step[<<k, f[k - 1]>>] = T!Round(f[k - 1])
      BY <2>2
    <2> HIDE DEF step
    <2> QED BY <1>4, <2>3
  <1>6. \A k \in 0..n : f[k].error = ""
    <2>1. \A h \in value : h.error = ""
      BY DEF KeptCgames, TimeCgame
    <2> HIDE DEF value
    <2> QED BY <2>1
  <1> HIDE DEF step, value
  <1>7. RoundsFunction(f, g, n)
    <2>1. ASSUME NEW k \in 0..n
          PROVE f[k] = IF k = 0 THEN g ELSE LET p == f[k - 1] IN IF p.error # "" THEN p ELSE T!Round(p)
      <3>1. k = 0 \/ (k # 0 /\ k \in 1..n /\ k - 1 \in 0..n)
        BY <1>1
      <3> QED BY <3>1, <1>4, <1>5, <1>6, Zenon
    <2>2. f = [k \in 0..n |-> f[k]]
      BY <1>4
    <2> QED BY <2>1, <2>2, Zenon DEF RoundsFunction
  <1>8. ASSUME NEW h, RoundsFunction(h, g, n) PROVE h = f
    <2>1. DOMAIN h = 0..n /\ h = [k \in 0..n |-> h[k]]
      BY <1>8 DEF RoundsFunction
    <2>2. h[0] = g
      <3>1. 0 \in 0..n
        BY <1>1
      <3>2. h[0] = IF 0 = 0 THEN g ELSE LET p == h[0 - 1] IN IF p.error # "" THEN p ELSE T!Round(p)
        BY <1>8, <3>1, Zenon DEF RoundsFunction
      <3> QED BY <3>2, Zenon
    <2>3. ASSUME NEW k \in 1..n, h[k - 1].error = "" PROVE h[k] = T!Round(h[k - 1])
      <3>1. k \in 0..n /\ k # 0
        BY <1>1
      <3>2. h[k] = IF k = 0 THEN g ELSE LET p == h[k - 1] IN IF p.error # "" THEN p ELSE T!Round(p)
        BY <1>8, <3>1, Zenon DEF RoundsFunction
      <3> QED BY <2>3, <3>1, <3>2, Zenon
    <2> DEFINE Good == {k \in Nat : k <= n => h[k] = f[k]}
    <2>4. 0 \in Good
      BY <2>2, <1>4
    <2>5. ASSUME NEW k \in Good PROVE k + 1 \in Good
      <3>1. SUFFICES ASSUME k + 1 <= n PROVE h[k + 1] = f[k + 1]
        OBVIOUS
      <3>2. h[k] = f[k] /\ k \in 0..n /\ k + 1 \in 1..n /\ (k + 1) - 1 = k
        BY <1>1, <3>1
      <3>3. f[k + 1] = T!Round(f[(k + 1) - 1])
        BY <1>5, <3>2
      <3>4. h[(k + 1) - 1].error = ""
        BY <1>6, <3>2, Zenon
      <3>5. h[k + 1] = T!Round(h[(k + 1) - 1])
        BY <2>3, <3>2, <3>4, Zenon
      <3> HIDE DEF Good
      <3> QED BY <3>2, <3>3, <3>5, Zenon
    <2>6. Good = Nat
      <3> HIDE DEF Good
      <3>1. Good \subseteq Nat
        BY DEF Good
      <3> QED BY <2>4, <2>5, <3>1, Induction
    <2>7. \A k \in 0..n : h[k] = f[k]
      BY <1>1, <2>6
    <2>8. f = [k \in 0..n |-> f[k]]
      BY <1>4
    <2> HIDE DEF Good
    <2> QED BY <2>1, <2>7, <2>8, Zenon
  <1>9. T!Rounds(g) = f[n]
    <2>1. f = CHOOSE h : RoundsFunction(h, g, n)
      BY <1>7, <1>8, Zenon
    <2> QED BY <1>1, <2>1 DEF T!Rounds, RoundsFunction
  <1> QED BY <1>1, <1>4, <1>5, <1>9 DEF RoundsAre, value

\* After k rounds from g.
Far(g, h, k, s, a, top) ==
    /\ CgameKept(h, a, top) /\ h.time = g.time /\ h.snap >= g.snap
    /\ Rests(h, s, a, top) \/ Progress(h) >= k
    /\ Quiet(g, s, a, top) => Quiet(h, s, a, top)

LEMMA RoundGoesOn ==
    ASSUME NEW clock, Sent(sent, clock), NEW top, Network(sent, arrived, top),
           NEW g, g.snap \in Nat, NEW h, NEW k \in Nat, Far(g, h, k, sent, arrived, top)
    PROVE  Far(g, T!Round(h), k + 1, sent, arrived, top)
  <1>1. PICK i : i = T!Round(h)
    OBVIOUS
  <1>2. CgameKept(h, arrived, top)
    BY DEF Far
  <1>3. Advances(h, i, sent, arrived, top)
    BY <1>1, <1>2, RoundAdvances
  <1>4. i.time = g.time /\ CgameKept(i, arrived, top)
    BY <1>3 DEF Far, Advances
  <1>5. i.snap >= g.snap
    <2>1. h.snap \in Nat /\ i.snap \in Nat
      BY <1>2, <1>4 DEF CgameKept, TimeCgame
    <2>2. h.snap >= g.snap /\ i.snap >= h.snap
      BY <1>3 DEF Far, Advances
    <2> QED BY <2>1, <2>2
  <1>6. Rests(i, sent, arrived, top) \/ Progress(i) >= k + 1
    <2>1. CASE Rests(h, sent, arrived, top)
      BY <1>3, <2>1 DEF Advances
    <2>2. CASE ~Rests(h, sent, arrived, top)
      <3>1. PICK x, y : x = Progress(h) /\ y = Progress(i)
        OBVIOUS
      <3>2. x >= k /\ y >= x + 1
        BY <1>3, <2>2, <3>1 DEF Far, Advances
      <3>3. x \in Int /\ y \in Int
        <4>1. /\ h.processed \in Nat /\ i.processed \in Nat
          BY <1>2, <1>4 DEF CgameKept, TimeCgame
        <4> QED BY <3>1, <4>1 DEF Progress
      <3>4. y >= k + 1
        BY <3>2, <3>3
      <3> QED BY <3>1, <3>4
    <2> QED BY <2>1, <2>2
  <1>7. Quiet(g, sent, arrived, top) => Quiet(i, sent, arrived, top)
    BY <1>3 DEF Far, Advances
  <1> QED BY <1>1, <1>4, <1>5, <1>6, <1>7 DEF Far

\* Each round gets on, so that 3 * MaxSnaps of them are enough.
LEMMA RoundsRest ==
    ASSUME NEW clock, Sent(sent, clock), NEW top, Network(sent, arrived, top),
           NEW g, CgameKept(g, arrived, top)
    PROVE  /\ CgameKept(T!Rounds(g), arrived, top)
           /\ T!Rounds(g).time = g.time /\ T!Rounds(g).snap >= g.snap
           /\ Rests(T!Rounds(g), sent, arrived, top)
           /\ Quiet(g, sent, arrived, top) => Quiet(T!Rounds(g), sent, arrived, top)
  <1>1. PICK n \in Nat : n = 3 * MaxSnaps
    BY TimeNumbers
  <1>2. PICK f : /\ T!Rounds(g) = f[n] /\ f[0] = g
                 /\ \A k \in 1..n : f[k] = T!Round(f[k - 1])
    BY <1>1, RoundsBy DEF RoundsAre
  <1>3. g.snap \in Nat /\ g.processed \in Nat
    BY DEF CgameKept, TimeCgame
  <1> DEFINE Good == {k \in Nat : k <= n => Far(g, f[k], k, sent, arrived, top)}
  <1>4. 0 \in Good
    <2>1. Progress(g) >= 0
      BY <1>3 DEF Progress
    <2>2. Far(g, g, 0, sent, arrived, top)
      BY <1>3, <2>1 DEF Far
    <2> QED BY <1>2, <2>2
  <1>5. ASSUME NEW k \in Good PROVE k + 1 \in Good
    <2>1. SUFFICES ASSUME k + 1 <= n PROVE Far(g, f[k + 1], k + 1, sent, arrived, top)
      OBVIOUS
    <2>2. k \in Nat /\ Far(g, f[k], k, sent, arrived, top)
      BY <1>1, <2>1
    <2>3. f[k + 1] = T!Round(f[k])
      <3>1. k + 1 \in 1..n /\ (k + 1) - 1 = k
        BY <2>1, <2>2
      <3> QED BY <1>2, <3>1
    <2>4. PICK h : h = f[k]
      OBVIOUS
    <2>5. Far(g, T!Round(h), k + 1, sent, arrived, top)
      BY <1>3, <2>2, <2>4, RoundGoesOn
    <2> QED BY <2>3, <2>4, <2>5
  <1>6. Good = Nat
    <2> HIDE DEF Good
    <2>1. Good \subseteq Nat
      BY DEF Good
    <2> QED BY <1>4, <1>5, <2>1, Induction
  <1>7. PICK r : r = T!Rounds(g)
    OBVIOUS
  <1>8. Far(g, r, n, sent, arrived, top)
    BY <1>1, <1>2, <1>6, <1>7
  <1>9. Rests(r, sent, arrived, top)
    <2> SUFFICES ASSUME ~Rests(r, sent, arrived, top) PROVE FALSE
      OBVIOUS
    <2>1. /\ r.processed \in Nat /\ r.processed <= top
      BY <1>8 DEF Far, CgameKept, TimeCgame
    <2>2. top \in Nat /\ top <= MaxSnaps /\ MaxSnaps \in Nat /\ MaxSnaps # 0
      <3>1. sent \in Seq(ASnapshot) /\ Len(sent) <= MaxSnaps
        BY DEF Sent
      <3>2. Len(sent) \in Nat
        BY <3>1
      <3> QED BY <3>1, <3>2, TimeNumbers DEF Network
    <2>3. r.next = 0 => r.processed < top
      <3> SUFFICES ASSUME r.next = 0, r.processed = top PROVE FALSE
        BY <2>1, <2>2
      <3>1. NoneRead(arrived, top, r.processed, top)
        BY <2>2, NoneReadHere
      <3> QED BY <3>1 DEF Rests
    <2>4. Progress(r) <= 2 * top
      BY <2>1, <2>2, <2>3 DEF Progress
    <2>5. Progress(r) >= n
      BY <1>8 DEF Far
    <2>6. Progress(r) \in Int
      BY <2>1 DEF Progress
    <2>7. PICK x \in Int : x = Progress(r)
      BY <2>6
    <2> QED BY <1>1, <2>2, <2>4, <2>5, <2>7
  <1> QED BY <1>7, <1>8, <1>9 DEF Far

\* What a frame at time t makes of cgame g.
ProcessedTo(g, t, h, s, a, top) ==
    /\ CgameKept(h, a, top) /\ h.snap >= g.snap
    /\ h.snap # 0 => /\ h.time >= t /\ h.time >= s[h.snap].serverTime
                     /\ h.time = t \/ h.time = s[h.snap].serverTime
                     /\ h.next = 0 => NoneRead(a, top, h.snap, top)
    /\ h.next # 0 => h.time < s[h.next].serverTime
    /\ Quiet(g, s, a, top) => Quiet(h, s, a, top)

LEMMA CgameAt ==
    ASSUME NEW a, NEW top, NEW g, CgameKept(g, a, top), NEW t \in Int, NEW h, h = [g EXCEPT !.time = t]
    PROVE  /\ CgameKept(h, a, top) /\ h.time = t
           /\ h.snap = g.snap /\ h.next = g.next /\ h.processed = g.processed
  <1>1. /\ h \in TimeCgame /\ h.time = t
        /\ h.snap = g.snap /\ h.next = g.next /\ h.processed = g.processed
    BY DEF CgameKept, TimeCgame
  <1>2. CgameKept(h, a, top)
    BY <1>1 DEF CgameKept
  <1> QED BY <1>1, <1>2

LEMMA FrameProcesses ==
    ASSUME NEW clock, Sent(sent, clock), NEW top, Network(sent, arrived, top),
           NEW g, CgameKept(g, arrived, top), NEW new \in Int
    PROVE  ProcessedTo(g, new, T!ProcessSnapshots(g, new), sent, arrived, top)
  <1>1. PICK h : h = T!ProcessSnapshots(g, new)
    OBVIOUS
  <1>2. PICK f : f = [g EXCEPT !.time = new]
    OBVIOUS
  <1>3. /\ CgameKept(f, arrived, top) /\ f.time = new
        /\ f.snap = g.snap /\ f.next = g.next /\ f.processed = g.processed
    BY <1>2, CgameAt
  <1>4. PICK r : r = T!Rounds(f)
    OBVIOUS
  <1>5. /\ CgameKept(r, arrived, top) /\ r.time = new /\ r.snap >= g.snap
        /\ Rests(r, sent, arrived, top)
        /\ Quiet(f, sent, arrived, top) => Quiet(r, sent, arrived, top)
    BY <1>3, <1>4, RoundsRest
  <1>6. r.snap \in Nat /\ r.next \in Nat /\ r.processed \in Nat
    BY <1>5 DEF CgameKept, TimeCgame
  <1>7. r.error = ""
    BY <1>5 DEF CgameKept, TimeCgame
  <1>8. top \in Nat /\ top <= Len(sent) /\ Len(sent) \in Nat /\ MaxTime \in Nat
    <2>1. sent \in Seq(ASnapshot)
      BY DEF Sent
    <2>2. Len(sent) \in Nat
      BY <2>1
    <2> QED BY <2>2, TimeNumbers DEF Network
  <1>9. ASSUME NEW k \in Nat, k # 0, k <= r.processed PROVE sent[k].serverTime \in Int
    <2>1. k \in 1..Len(sent)
      BY <1>5, <1>6, <1>8, <1>9 DEF CgameKept
    <2>2. sent[k].serverTime \in 0..MaxTime
      BY <2>1, TopIsSent
    <2> QED BY <1>8, <2>2
  <1>10. PICK t : t = IF r.snap = 0 THEN r.time ELSE T!Max2(r.time, T!ServerTime(r.snap))
    OBVIOUS
  <1>11. /\ t \in Int
         /\ r.snap # 0 => /\ t >= new /\ t >= sent[r.snap].serverTime
                          /\ t = new \/ t = sent[r.snap].serverTime
    <2>1. CASE r.snap = 0
      BY <1>5, <1>10, <2>1
    <2>2. CASE r.snap # 0
      <3>1. r.snap <= r.processed
        BY <1>5 DEF CgameKept
      <3>2. PICK x \in Int : x = sent[r.snap].serverTime
        BY <1>6, <1>9, <2>2, <3>1
      <3>3. t = IF new > x THEN new ELSE x
        BY <1>5, <1>10, <2>2, <3>2 DEF T!Max2, T!ServerTime
      <3> QED BY <3>2, <3>3
    <2> QED BY <2>1, <2>2
  <1>12. r.next # 0 => /\ t < sent[r.next].serverTime /\ sent[r.next].serverTime \in Int
    <2> SUFFICES ASSUME r.next # 0 PROVE /\ t < sent[r.next].serverTime /\ sent[r.next].serverTime \in Int
      OBVIOUS
    <2>1. r.snap # 0 /\ r.snap < r.next /\ r.next = r.processed
      BY <1>5 DEF CgameKept
    <2>2. sent[r.snap].serverTime <= new /\ new < sent[r.next].serverTime
      BY <1>5 DEF Rests
    <2>3. PICK x \in Int, y \in Int : x = sent[r.snap].serverTime /\ y = sent[r.next].serverTime
      <3>1. r.snap <= r.processed /\ r.next <= r.processed
        BY <1>6, <2>1
      <3> QED BY <1>6, <1>9, <2>1, <3>1
    <2>4. x <= new /\ new < y /\ (t = new \/ t = x)
      BY <1>11, <2>1, <2>2, <2>3
    <2> QED BY <2>3, <2>4
  <1>13. h = [r EXCEPT !.time = t]
    <2>1. ~(r.next # 0 /\ T!ServerTime(r.next) <= t)
      BY <1>11, <1>12 DEF T!ServerTime
    <2>2. h = IF r.error # "" THEN r
              ELSE IF r.next # 0 /\ T!ServerTime(r.next) <= t
              THEN [r EXCEPT !.time = t, !.error = "next"]
              ELSE [r EXCEPT !.time = t]
      BY <1>1, <1>2, <1>4, <1>10 DEF T!ProcessSnapshots
    <2> QED BY <1>7, <2>1, <2>2, Zenon
  <1>14. /\ CgameKept(h, arrived, top) /\ h.time = t
         /\ h.snap = r.snap /\ h.next = r.next /\ h.processed = r.processed
    BY <1>5, <1>11, <1>13, CgameAt
  <1>15. h.snap # 0 /\ h.next = 0 => NoneRead(arrived, top, h.snap, top)
    <2> SUFFICES ASSUME h.snap # 0, h.next = 0 PROVE NoneRead(arrived, top, h.snap, top)
      OBVIOUS
    <2>1. NoneRead(arrived, top, r.snap, r.processed)
      BY <1>5, <1>14 DEF CgameKept
    <2>2. NoneRead(arrived, top, r.processed, top)
      BY <1>5, <1>14 DEF Rests
    <2>3. NoneRead(arrived, top, r.snap, top)
      BY <1>6, <1>8, <2>1, <2>2, NoneReadOn
    <2> QED BY <1>14, <2>3
  <1>16. Quiet(g, sent, arrived, top) => Quiet(h, sent, arrived, top)
    BY <1>3, <1>5, <1>14 DEF Quiet
  <1>17. h.snap >= g.snap
    BY <1>5, <1>14
  <1>18. h.next # 0 => h.time < sent[h.next].serverTime
    BY <1>12, <1>14
  <1>19. h.snap # 0 => /\ h.time >= new /\ h.time >= sent[h.snap].serverTime
                       /\ h.time = new \/ h.time = sent[h.snap].serverTime
    BY <1>11, <1>14
  <1>20. ProcessedTo(g, new, h, sent, arrived, top)
    BY <1>14, <1>15, <1>16, <1>17, <1>18, <1>19 DEF ProcessedTo
  <1> QED BY <1>1, <1>20

-----------------------------------------------------------------------------
(* The client's time: the invariant *)

\* Until it is active cgame shows nothing, and no snapshot of the world waits for
\* it unseen; cgame is not ahead of both the client's time and its snapshot.
Follows(c, g, s, a, top) ==
    /\ c.state = "primed" => g.snap = 0 /\ (~c.newSnapshots => Quiet(g, s, a, top))
    /\ g.snap # 0 => g.time <= c.oldServerTime \/ g.time <= s[g.snap].serverTime

TimeKept(clock, s, a, top, c, g) ==
    /\ clock \in 0..MaxTime /\ Sent(s, clock) /\ Network(s, a, top)
    /\ TimesKept(c, s, top) /\ CgameKept(g, a, top) /\ Follows(c, g, s, a, top)

TimeInv == \E top : TimeKept(svTime, sent, arrived, top, cl, cg)

LEMMA TopNumbers ==
    ASSUME NEW s, NEW clock, NEW a, NEW top, Sent(s, clock), Network(s, a, top)
    PROVE  top \in Nat /\ top <= Len(s) /\ Len(s) \in Nat /\ Len(s) <= MaxSnaps /\ s \in Seq(ASnapshot)
  <1>1. s \in Seq(ASnapshot) /\ Len(s) <= MaxSnaps
    BY DEF Sent
  <1>2. Len(s) \in Nat
    BY <1>1
  <1> QED BY <1>1, <1>2 DEF Network

LEMMA TimeTicks ==
    ASSUME NEW s, NEW clock \in 0..MaxTime, Sent(s, clock), clock < MaxTime
    PROVE  clock + 1 \in 0..MaxTime /\ Sent(s, clock + 1)
  <1>1. clock + 1 \in 0..MaxTime
    BY TimeNumbers
  <1>2. s \in Seq(ASnapshot) /\ Len(s) <= MaxSnaps
    BY DEF Sent
  <1>3. ASSUME NEW n \in 1..Len(s) PROVE s[n].serverTime <= clock + 1 /\ \A m \in 1..n : Later(s, m, n)
    <2>1. s[n].serverTime \in 0..MaxTime /\ MaxTime \in Nat
      BY TopIsSent, TimeNumbers
    <2>2. s[n].serverTime <= clock /\ \A m \in 1..n : Later(s, m, n)
      BY DEF Sent
    <2>3. PICK t \in Int : t = s[n].serverTime
      BY <2>1
    <2>4. t <= clock + 1
      BY <2>1, <2>2, <2>3
    <2> QED BY <2>2, <2>3, <2>4
  <1> QED BY <1>1, <1>2, <1>3 DEF Sent

\* A snapshot is sent.
LEMMA SentMore ==
    ASSUME NEW s, NEW clock \in 0..MaxTime, Sent(s, clock), Len(s) < MaxSnaps, NEW active \in BOOLEAN,
           s # <<>> /\ s[Len(s)].active => active,
           NEW r, r = Append(s, [serverTime |-> clock, active |-> active])
    PROVE  Sent(r, clock) /\ Len(r) = Len(s) + 1 /\ \A k \in 1..Len(s) : r[k] = s[k]
  <1>1. s \in Seq(ASnapshot)
    BY DEF Sent
  <1>2. PICK e \in ASnapshot : e = [serverTime |-> clock, active |-> active]
    BY DEF ASnapshot
  <1>3. PICK l \in Nat : l = Len(s)
    BY <1>1
  <1>4. /\ r \in Seq(ASnapshot) /\ Len(r) = l + 1 /\ r[l + 1] = e
        /\ \A k \in 1..l : r[k] = s[k]
    BY <1>1, <1>2, <1>3
  <1>5. e.serverTime = clock /\ (active => e.active)
    BY <1>2
  <1>6. ASSUME NEW n \in 1..l + 1 PROVE r[n].serverTime <= clock /\ \A m \in 1..n : Later(r, m, n)
    <2>1. CASE n \in 1..l
      <3>1. s[n].serverTime <= clock /\ \A m \in 1..n : Later(s, m, n)
        BY <1>3, <2>1 DEF Sent
      <3>2. r[n] = s[n]
        BY <1>4, <2>1
      <3>3. ASSUME NEW m \in 1..n PROVE Later(r, m, n)
        <4>1. m \in 1..l
          BY <1>3, <2>1
        <4>2. r[m] = s[m] /\ Later(s, m, n)
          BY <1>4, <3>1, <4>1
        <4> QED BY <3>2, <4>2 DEF Later
      <3> QED BY <3>1, <3>2, <3>3
    <2>2. CASE n = l + 1
      <3>1. r[n] = e /\ clock \in Int
        BY <1>4, <2>2, TimeNumbers
      <3>2. e.serverTime <= e.serverTime /\ e.serverTime <= clock
        BY <1>5, <3>1
      <3>3. ASSUME NEW m \in 1..l PROVE Later(r, m, n)
        <4>1. l \in 1..Len(s) /\ m \in 1..l /\ s # <<>>
          BY <1>1, <1>3
        <4>2. s[m].serverTime <= clock /\ r[m] = s[m]
          BY <1>3, <1>4, <4>1 DEF Sent
        <4>3. s[m].active => s[l].active
          BY <4>1 DEF Sent, Later
        <4>4. s[m].active => e.active
          BY <1>3, <1>5, <4>1, <4>3
        <4>5. s[m].serverTime <= e.serverTime
          BY <1>5, <4>2
        <4> QED BY <3>1, <4>2, <4>4, <4>5 DEF Later
      <3>4. Later(r, n, n)
        BY <3>1, <3>2 DEF Later
      <3>5. \A m \in 1..n : m \in 1..l \/ m = n
        BY <2>2
      <3>6. \A m \in 1..n : Later(r, m, n)
        BY <3>3, <3>4, <3>5
      <3> QED BY <3>1, <3>2, <3>6
    <2>3. n \in 1..l \/ n = l + 1
      OBVIOUS
    <2> QED BY <2>1, <2>2, <2>3, Zenon
  <1>7. Len(r) <= MaxSnaps
    BY <1>3, <1>4, TimeNumbers
  <1> QED BY <1>3, <1>4, <1>6, <1>7 DEF Sent

\* What a snapshot sent later does not change.
LEMMA SentOn ==
    ASSUME NEW s, NEW clock, Sent(s, clock), NEW r, Sent(r, clock),
           Len(r) = Len(s) + 1, \A k \in 1..Len(s) : r[k] = s[k], NEW a, NEW top, NEW c, NEW g,
           Network(s, a, top), TimesKept(c, s, top), CgameKept(g, a, top), Follows(c, g, s, a, top)
    PROVE  Network(r, a, top) /\ TimesKept(c, r, top) /\ Follows(c, g, r, a, top)
  <1>1. PICK l \in Nat : l = Len(s) /\ Len(r) = l + 1 /\ top \in Nat /\ top <= l
    BY TopNumbers
  <1>2. Network(r, a, top)
    <2>1. 1..l \subseteq 1..l + 1 /\ top \in 0..l + 1
      BY <1>1
    <2> QED BY <1>1, <2>1 DEF Network
  <1>3. \A k \in 1..l : r[k] = s[k]
    BY <1>1
  <1>4. top # 0 => r[top] = s[top]
    <2>1. top # 0 => top \in 1..l
      BY <1>1
    <2> QED BY <1>3, <2>1
  <1>5. TimesKept(c, r, top)
    BY <1>4 DEF TimesKept
  <1>6. Quiet(g, s, a, top) => Quiet(g, r, a, top)
    <2>1. g.processed \in Nat
      BY DEF CgameKept, TimeCgame
    <2>2. \A k \in g.processed + 1..top : k \in 1..l
      BY <1>1, <2>1
    <2> QED BY <1>3, <2>2 DEF Quiet, NoneActive
  <1>7. g.snap # 0 => r[g.snap] = s[g.snap]
    <2>1. g.snap \in Nat /\ g.processed \in Nat /\ g.snap <= g.processed /\ g.processed <= top
      BY DEF CgameKept, TimeCgame
    <2>2. g.snap # 0 => g.snap \in 1..l
      BY <1>1, <2>1
    <2> QED BY <1>3, <2>2
  <1>8. Follows(c, g, r, a, top)
    BY <1>6, <1>7 DEF Follows
  <1> QED BY <1>2, <1>5, <1>8

LEMMA NewSnapshots ==
    ASSUME NEW c \in TimeClient, NEW d, d = [c EXCEPT !.newSnapshots = TRUE]
    PROVE  /\ d \in TimeClient /\ d.newSnapshots /\ d.oldFrame = c.oldFrame /\ d.delta = c.delta
           /\ d.oldServerTime = c.oldServerTime /\ d.state = c.state
  BY DEF TimeClient

\* A snapshot arrives.
LEMMA SnapshotArrives ==
    ASSUME NEW s, NEW clock, Sent(s, clock), NEW a, NEW top, NEW c, NEW g,
           Network(s, a, top), TimesKept(c, s, top), CgameKept(g, a, top), Follows(c, g, s, a, top),
           NEW n \in top + 1..Len(s), NEW d, d = [c EXCEPT !.newSnapshots = TRUE]
    PROVE  /\ Network(s, a \cup {n}, n) /\ TimesKept(d, s, n) /\ CgameKept(g, a \cup {n}, n)
           /\ Follows(d, g, s, a \cup {n}, n)
  <1>1. PICK l \in Nat : l = Len(s) /\ top \in Nat /\ top <= l /\ n \in 1..l /\ n > top /\ n \in Nat
    BY TopNumbers
  <1>2. \A m \in a : m \in Nat /\ m <= top
    <2>1. a \in SUBSET (1..l) /\ (a # {} => \A m \in a : m <= top)
      BY <1>1 DEF Network, Tops
    <2> QED BY <1>1, <2>1
  <1>3. Network(s, a \cup {n}, n)
    <2>1. \A m \in a \cup {n} : m <= n
      BY <1>1, <1>2
    <2>2. a \cup {n} \in SUBSET (1..l) /\ n \in 0..l
      BY <1>1 DEF Network
    <2> QED BY <1>1, <2>1, <2>2 DEF Network, Tops
  <1>4. top # 0 => top \in 1..n /\ Later(s, top, n)
    <2> SUFFICES ASSUME top # 0 PROVE top \in 1..n /\ Later(s, top, n)
      OBVIOUS
    <2>1. top \in 1..n
      BY <1>1
    <2> QED BY <1>1, <2>1 DEF Sent
  <1>5. /\ d \in TimeClient /\ d.newSnapshots /\ d.oldFrame = c.oldFrame /\ d.delta = c.delta
        /\ d.oldServerTime = c.oldServerTime /\ d.state = c.state
    BY NewSnapshots DEF TimesKept
  <1>6. TimesKept(d, s, n)
    <2>1. c.delta \in Int /\ c.oldFrame \in Int /\ MaxTime \in Nat
      BY TimeNumbers DEF TimesKept, TimeClient
    <2>2. d.delta <= MaxTime + n /\ d.delta <= MaxTime + n - 1
      <3>1. c.delta <= MaxTime + top
        BY DEF TimesKept
      <3> QED BY <1>1, <1>5, <2>1, <3>1
    <2>3. d.oldFrame = 0 \/ d.oldFrame <= s[n].serverTime
      <3>1. CASE c.oldFrame = 0
        BY <1>5, <3>1
      <3>2. CASE c.oldFrame # 0
        <4>1. top # 0 /\ c.oldFrame <= s[top].serverTime
          BY <3>2 DEF TimesKept
        <4>2. PICK t \in Int, u \in Int : t = s[top].serverTime /\ u = s[n].serverTime
          <5>1. top \in 1..Len(s) /\ n \in 1..Len(s)
            BY <1>1, <4>1
          <5>2. s[top].serverTime \in 0..MaxTime /\ s[n].serverTime \in 0..MaxTime
            BY <5>1, TopIsSent
          <5> QED BY <2>1, <5>2
        <4>3. t <= u
          BY <1>4, <4>1, <4>2 DEF Later
        <4>4. c.oldFrame <= u
          BY <2>1, <4>1, <4>2, <4>3
        <4> QED BY <1>5, <4>2, <4>4
      <3> QED BY <3>1, <3>2
    <2>4. n # 0
      BY <1>1
    <2>5. d.state = "active" => s[n].active
      BY <1>4, <1>5 DEF TimesKept, Later
    <2>6. d.oldServerTime <= 3 * MaxTime + MaxSnaps
      BY <1>5 DEF TimesKept
    <2> QED BY <1>5, <2>2, <2>3, <2>4, <2>5, <2>6 DEF TimesKept
  <1>7. CgameKept(g, a \cup {n}, n)
    <2>1. g.snap \in Nat /\ g.processed \in Nat /\ g.processed <= top
      BY DEF CgameKept, TimeCgame
    <2>2. g.processed <= n
      BY <1>1, <2>1
    <2>3. ASSUME g.next = 0, g.snap # 0 PROVE NoneRead(a \cup {n}, n, g.snap, g.processed)
      <3>1. NoneRead(a, top, g.snap, g.processed)
        BY <2>3 DEF CgameKept
      <3>2. ASSUME NEW k \in g.snap + 1..g.processed, Reads(a \cup {n}, n, k) PROVE Reads(a, top, k)
        <4>1. k # n /\ k \in Int
          BY <1>1, <2>1
        <4>2. k \in a /\ k > n - Ring
          BY <3>2, <4>1 DEF Reads
        <4>3. k > top - Ring
          BY <1>1, <4>1, <4>2, TimeNumbers
        <4> QED BY <4>2, <4>3 DEF Reads
      <3> QED BY <3>1, <3>2 DEF NoneRead
    <2> QED BY <2>2, <2>3 DEF CgameKept
  <1>8. Follows(d, g, s, a \cup {n}, n)
    BY <1>5 DEF Follows
  <1> QED BY <1>3, <1>6, <1>7, <1>8

-----------------------------------------------------------------------------
(* The client's time: the steps *)

\* A frame takes client and cgame from c and g to d and h.
Framed(c, g, d, h, s, a, top) ==
    \E b : /\ b.state = c.state /\ b.newSnapshots = c.newSnapshots /\ b.oldServerTime = c.oldServerTime
           /\ b.inits = c.inits /\ (~b.reset => ~c.reset)
           /\ TimesSet(b, d, s, top) /\ ProcessedTo(g, d.serverTime, h, s, a, top)

LEMMA FrameIs ==
    ASSUME NEW top, TimeKept(svTime, sent, arrived, top, cl, cg), T!CL_Frame
    PROVE  Framed(cl, cg, cl', cg', sent, arrived, top)
  <1>0. PICK c, g, d, h : c = cl /\ g = cg /\ d = cl' /\ h = cg'
    OBVIOUS
  <1>15. PICK msec \in 1..MaxStep, nudge \in Nudges :
            /\ c.realtime + msec <= MaxTime
            /\ d = T!SetCGameTime([c EXCEPT !.realtime = c.realtime + msec], nudge)
            /\ h = IF d.error # "" THEN g ELSE T!ProcessSnapshots(g, d.serverTime)
    BY <1>0 DEF T!CL_Frame
  <1>1. PICK b :
            /\ b = [c EXCEPT !.realtime = c.realtime + msec] /\ c.realtime + msec <= MaxTime
            /\ d = T!SetCGameTime(b, nudge)
            /\ h = IF d.error # "" THEN g ELSE T!ProcessSnapshots(g, d.serverTime)
    BY <1>15
  <1>2. /\ Sent(sent, svTime) /\ Network(sent, arrived, top) /\ TimesKept(c, sent, top)
        /\ CgameKept(g, arrived, top)
    BY <1>0 DEF TimeKept
  <1>3. c \in TimeClient /\ c.realtime \in 0..MaxTime
    BY <1>2 DEF TimesKept, TimeClient
  <1>4. PICK realtime \in 0..MaxTime : realtime = c.realtime + msec
    <2>1. MaxTime \in Nat /\ MaxStep \in Nat
      BY TimeNumbers
    <2>2. PICK r \in Nat : r = c.realtime
      BY <1>3, <2>1
    <2>4. c.realtime + msec <= MaxTime
      BY <1>1
    <2>3. r + msec <= MaxTime /\ msec \in Nat
      BY <2>1, <2>2, <2>4
    <2> QED BY <2>1, <2>2, <2>3
  <1>5. b \in TimeClient
    <2>1. b = [c EXCEPT !.realtime = realtime]
      BY <1>1, <1>4
    <2> QED BY <1>3, <2>1 DEF TimeClient
  <1>6. /\ b.state = c.state /\ b.newSnapshots = c.newSnapshots /\ b.oldServerTime = c.oldServerTime
        /\ b.inits = c.inits /\ b.reset = c.reset /\ b.oldFrame = c.oldFrame /\ b.delta = c.delta
    BY <1>1, <1>3 DEF TimeClient
  <1>7. TimesKept(b, sent, top)
    BY <1>2, <1>5, <1>6 DEF TimesKept
  <1>8. TimesSet(b, d, sent, top)
    BY <1>1, <1>2, <1>7, FrameTimes
  <1>9. d.serverTime \in Int
    BY <1>8 DEF TimesSet, TimesKept, TimeClient
  <1>10. d.error = ""
    BY <1>8 DEF TimesSet, TimesKept, TimeClient
  <1>11. h = T!ProcessSnapshots(g, d.serverTime)
    BY <1>1, <1>10
  <1>12. PICK t \in Int : t = d.serverTime
    BY <1>9
  <1>13. ProcessedTo(g, t, h, sent, arrived, top)
    BY <1>2, <1>11, <1>12, FrameProcesses
  <1>14. ~b.reset => ~c.reset
    BY <1>6
  <1>16. Framed(c, g, d, h, sent, arrived, top)
    BY <1>6, <1>8, <1>12, <1>13, <1>14 DEF Framed
  <1> QED BY <1>0, <1>16

LEMMA FrameKeepsTime ==
    ASSUME NEW s, NEW clock, NEW a, NEW top, NEW c, NEW g, TimeKept(clock, s, a, top, c, g),
           NEW d, NEW h, Framed(c, g, d, h, s, a, top)
    PROVE  TimeKept(clock, s, a, top, d, h)
  <1>1. PICK b : /\ b.state = c.state /\ b.newSnapshots = c.newSnapshots
                 /\ TimesSet(b, d, s, top) /\ ProcessedTo(g, d.serverTime, h, s, a, top)
    BY DEF Framed
  <1>2. TimesKept(d, s, top) /\ CgameKept(h, a, top)
    BY <1>1 DEF TimesSet, ProcessedTo
  <1>3. CgameKept(g, a, top) /\ g.snap \in Nat /\ h.snap \in Nat /\ g.processed \in Nat
    BY <1>2 DEF TimeKept, CgameKept, TimeCgame
  <1>4. ASSUME d.state = "primed" PROVE h.snap = 0 /\ Quiet(h, s, a, top)
    <2>1. c.state = "primed" /\ (c.newSnapshots => ~s[top].active)
      BY <1>1, <1>4 DEF TimesSet
    <2>2. g.snap = 0 /\ (~c.newSnapshots => Quiet(g, s, a, top))
      BY <2>1 DEF TimeKept, Follows
    <2>3. Quiet(g, s, a, top)
      <3>1. CASE ~c.newSnapshots
        BY <2>2, <3>1
      <3>2. CASE c.newSnapshots
        <4>1. ~s[top].active /\ top \in Nat /\ top <= Len(s) /\ Len(s) \in Nat
          BY <2>1, <3>2, TopNumbers DEF TimeKept
        <4>2. ASSUME NEW k \in g.processed + 1..top PROVE ~s[k].active
          <5>1. top \in 1..Len(s) /\ k \in 1..top
            BY <1>3, <4>1
          <5>2. Later(s, k, top)
            BY <5>1 DEF TimeKept, Sent
          <5> QED BY <4>1, <5>2 DEF Later
        <4> QED BY <2>2, <4>2 DEF Quiet, NoneActive
      <3> QED BY <3>1, <3>2
    <2>4. Quiet(h, s, a, top)
      BY <1>1, <2>3 DEF ProcessedTo
    <2> QED BY <2>4 DEF Quiet
  <1>5. ASSUME h.snap # 0 PROVE h.time <= d.oldServerTime \/ h.time <= s[h.snap].serverTime
    <2>1. d.state = "active"
      BY <1>2, <1>4, <1>5 DEF TimesKept, TimeClient
    <2>2. d.serverTime = d.oldServerTime
      BY <1>1, <2>1 DEF TimesSet
    <2>3. h.time = d.serverTime \/ h.time = s[h.snap].serverTime
      BY <1>1, <1>5 DEF ProcessedTo
    <2>4. h.time \in Int
      BY <1>2 DEF CgameKept, TimeCgame
    <2>5. PICK t \in Int : t = h.time
      BY <2>4
    <2> QED BY <2>2, <2>3, <2>5
  <1>6. Follows(d, h, s, a, top)
    BY <1>4, <1>5 DEF Follows
  <1> QED BY <1>2, <1>6 DEF TimeKept

LEMMA FreshRecord ==
    ASSUME NEW n \in Nat, NEW Errors, NEW e \in Errors,
           NEW g, g = [snap |-> 0, next |-> 0, processed |-> n, time |-> 0, error |-> e]
    PROVE  /\ g \in [snap : Nat, next : Nat, processed : Nat, time : Int, error : Errors]
           /\ g.snap = 0 /\ g.next = 0 /\ g.processed = n
  OBVIOUS

LEMMA FreshIs ==
    ASSUME NEW n \in Nat, NEW g, g = T!FreshCgame(n)
    PROVE  g \in TimeCgame /\ g.snap = 0 /\ g.next = 0 /\ g.processed = n
  BY FreshRecord, "" \in {""}, Zenon DEF T!FreshCgame, TimeCgame

\* cgame starts again.
LEMMA RestartKeepsTime ==
    ASSUME NEW s, NEW clock, NEW a, NEW top, NEW c, NEW g, TimeKept(clock, s, a, top, c, g),
           NEW d, d = [c EXCEPT !.state = "primed", !.inits = c.inits + 1, !.reset = FALSE]
    PROVE  TimeKept(clock, s, a, top, d, T!FreshCgame(top))
  <1>1. TimesKept(c, s, top) /\ c \in TimeClient /\ top \in Nat
    BY TopNumbers DEF TimeKept, TimesKept
  <1>2. d \in TimeClient
    <2>1. PICK n \in Nat : n = c.inits + 1
      <3>1. c.inits \in Nat
        BY <1>1 DEF TimeClient
      <3> QED BY <3>1
    <2>2. d = [c EXCEPT !.state = "primed", !.inits = n, !.reset = FALSE]
      BY <2>1
    <2> QED BY <1>1, <2>2 DEF TimeClient
  <1>3. /\ d.state = "primed" /\ d.newSnapshots = c.newSnapshots /\ d.oldServerTime = c.oldServerTime
        /\ d.oldFrame = c.oldFrame /\ d.delta = c.delta
    BY <1>1 DEF TimeClient
  <1>4. TimesKept(d, s, top)
    BY <1>1, <1>2, <1>3 DEF TimesKept
  <1>5. PICK h : h = T!FreshCgame(top)
    OBVIOUS
  <1>6. h \in TimeCgame /\ h.snap = 0 /\ h.next = 0 /\ h.processed = top
    BY <1>1, <1>5, FreshIs
  <1>7. CgameKept(h, a, top)
    BY <1>1, <1>6 DEF CgameKept
  <1>8. Quiet(h, s, a, top)
    BY <1>1, <1>6 DEF Quiet, NoneActive
  <1>9. Follows(d, h, s, a, top)
    BY <1>6, <1>8 DEF Follows
  <1> QED BY <1>4, <1>5, <1>7, <1>9 DEF TimeKept

LEMMA TickKeepsTime == ASSUME TimeInv, T!Tick PROVE TimeInv'
  <1>1. PICK top : TimeKept(svTime, sent, arrived, top, cl, cg)
    BY DEF TimeInv
  <1>2. /\ svTime < MaxTime /\ svTime' = svTime + 1 /\ UNCHANGED <<sent, arrived, cl, cg>>
    BY DEF T!Tick
  <1>3. svTime + 1 \in 0..MaxTime /\ Sent(sent, svTime + 1)
    BY <1>1, <1>2, TimeTicks DEF TimeKept
  <1>4. TimeKept(svTime', sent', arrived', top, cl', cg')
    BY <1>1, <1>2, <1>3 DEF TimeKept
  <1> QED BY <1>4 DEF TimeInv

LEMMA SendKeepsTime == ASSUME TimeInv, T!SV_SendClientSnapshot PROVE TimeInv'
  <1>1. PICK top : TimeKept(svTime, sent, arrived, top, cl, cg)
    BY DEF TimeInv
  <1>2. PICK active \in BOOLEAN :
            /\ Len(sent) < MaxSnaps /\ (sent # <<>> /\ sent[Len(sent)].active => active)
            /\ sent' = Append(sent, [serverTime |-> svTime, active |-> active])
            /\ UNCHANGED <<svTime, arrived, cl, cg>>
    BY DEF T!SV_SendClientSnapshot
  <1>7. PICK r : /\ r = Append(sent, [serverTime |-> svTime, active |-> active]) /\ sent' = r
    BY <1>2
  <1>3. svTime \in 0..MaxTime /\ Sent(sent, svTime)
    BY <1>1 DEF TimeKept
  <1>4. Sent(r, svTime) /\ Len(r) = Len(sent) + 1 /\ \A k \in 1..Len(sent) : r[k] = sent[k]
    BY <1>2, <1>3, <1>7, SentMore, ZenonT(40)
  <1>5. Network(r, arrived, top) /\ TimesKept(cl, r, top) /\ Follows(cl, cg, r, arrived, top)
    BY <1>1, <1>3, <1>4, SentOn DEF TimeKept
  <1>6. TimeKept(svTime', sent', arrived', top, cl', cg')
    BY <1>1, <1>2, <1>4, <1>5, <1>7 DEF TimeKept
  <1> QED BY <1>6 DEF TimeInv

LEMMA ParseKeepsTime == ASSUME TimeInv, T!CL_ParseSnapshot PROVE TimeInv'
  <1>1. PICK top : TimeKept(svTime, sent, arrived, top, cl, cg)
    BY DEF TimeInv
  <1>2. T!Newest = top
    BY <1>1, TopIsNewest, TopNumbers DEF TimeKept
  <1>3. PICK n \in top + 1..Len(sent) : arrived' = arrived \cup {n}
    BY <1>2 DEF T!CL_ParseSnapshot
  <1>4. cl' = [cl EXCEPT !.newSnapshots = TRUE] /\ UNCHANGED <<svTime, sent, cg>>
    BY DEF T!CL_ParseSnapshot
  <1>5. PICK s, clock, a, c, g, d : /\ s = sent /\ clock = svTime /\ a = arrived /\ c = cl /\ g = cg
                                    /\ d = [c EXCEPT !.newSnapshots = TRUE]
    OBVIOUS
  <1>6. /\ Network(s, a \cup {n}, n) /\ TimesKept(d, s, n) /\ CgameKept(g, a \cup {n}, n)
        /\ Follows(d, g, s, a \cup {n}, n)
    BY <1>1, <1>3, <1>5, SnapshotArrives DEF TimeKept
  <1>7. TimeKept(clock, s, a \cup {n}, n, d, g)
    BY <1>1, <1>5, <1>6 DEF TimeKept
  <1> QED BY <1>3, <1>4, <1>5, <1>7 DEF TimeInv

LEMMA FrameStepKeepsTime == ASSUME TimeInv, T!CL_Frame PROVE TimeInv'
  <1>1. PICK top : TimeKept(svTime, sent, arrived, top, cl, cg)
    BY DEF TimeInv
  <1>2. Framed(cl, cg, cl', cg', sent, arrived, top)
    BY <1>1, FrameIs
  <1>3. PICK d, h : d = cl' /\ h = cg'
    OBVIOUS
  <1>4. TimeKept(svTime, sent, arrived, top, d, h)
    BY <1>1, <1>2, <1>3, FrameKeepsTime
  <1>5. UNCHANGED <<svTime, sent, arrived>>
    BY DEF T!CL_Frame
  <1> QED BY <1>3, <1>4, <1>5 DEF TimeInv

LEMMA RestartStepKeepsTime == ASSUME TimeInv, T!CL_Vid_Restart_f PROVE TimeInv'
  <1>1. PICK top : TimeKept(svTime, sent, arrived, top, cl, cg)
    BY DEF TimeInv
  <1>2. T!Newest = top
    BY <1>1, TopIsNewest, TopNumbers DEF TimeKept
  <1>3. PICK d, h : d = cl' /\ h = cg' /\ h = T!FreshCgame(top)
    BY <1>2 DEF T!CL_Vid_Restart_f
  <1>4. PICK c : c = cl /\ d = [c EXCEPT !.state = "primed", !.inits = c.inits + 1, !.reset = FALSE]
    BY <1>3 DEF T!CL_Vid_Restart_f
  <1>5. TimeKept(svTime, sent, arrived, top, d, h)
    BY <1>1, <1>3, <1>4, RestartKeepsTime
  <1>6. UNCHANGED <<svTime, sent, arrived>>
    BY DEF T!CL_Vid_Restart_f
  <1> QED BY <1>3, <1>5, <1>6 DEF TimeInv

LEMMA TimeUnchanged == ASSUME TimeInv, UNCHANGED time PROVE TimeInv'
  BY DEF TimeInv, time

\* Where the time changes, it is by one of its own steps.
LEMMA TimeSteps == ASSUME [Next]_vars PROVE UNCHANGED time \/ T!Next
  <1>1. CASE RunTime
    BY <1>1 DEF RunTime
  <1>2. CASE UNCHANGED vars
    BY <1>2 DEF vars
  <1>3. CASE Next /\ ~RunTime
    BY <1>3 DEF Next, RunDownload, RunVoip, RunRate, RunHeap, RunSpawn, RunMaps, RunVotes,
                RunAliens, RunMaster
  <1> QED BY <1>1, <1>2, <1>3

LEMMA TimeStep == ASSUME TimeInv, [Next]_vars PROVE TimeInv'
  BY TimeSteps, TimeUnchanged, TickKeepsTime, SendKeepsTime, ParseKeepsTime, FrameStepKeepsTime,
     RestartStepKeepsTime DEF T!Next

LEMMA TimeInit == ASSUME Init PROVE TimeInv
  <1>1. PICK s, c, g : s = sent /\ c = cl /\ g = cg
    OBVIOUS
  <1>2. s = <<>> /\ arrived = {} /\ svTime = 0 /\ MaxTime \in Nat /\ MaxSnaps \in Nat
    BY <1>1, TimeNumbers DEF Init, T!Init
  <1>3. /\ c = [state |-> "primed", realtime |-> 0, serverTime |-> 0, oldServerTime |-> 0,
                delta |-> 0, oldFrame |-> 0, newSnapshots |-> FALSE, extrapolated |-> FALSE,
                inits |-> 1, error |-> "", reset |-> FALSE]
        /\ g = T!FreshCgame(0)
    BY <1>1 DEF Init, T!Init
  <1>4. /\ c \in TimeClient /\ c.state = "primed" /\ ~c.newSnapshots /\ c.delta = 0 /\ c.oldFrame = 0
        /\ c.oldServerTime = 0
    <2>1. 0 \in 0..MaxTime /\ 0 \in Int /\ 1 \in Nat
      BY <1>2
    <2> QED BY <1>3, <2>1 DEF TimeClient
  <1>5. g \in TimeCgame /\ g.snap = 0 /\ g.next = 0 /\ g.processed = 0
    BY <1>3, FreshIs
  <1>6. 0 \in 0..MaxTime /\ Sent(s, 0) /\ Network(s, arrived, 0)
    BY <1>2 DEF Sent, Network, Tops
  <1>7. TimesKept(c, s, 0)
    <2>1. 0 <= MaxTime + 0 /\ 0 <= 3 * MaxTime + MaxSnaps
      BY <1>2
    <2> QED BY <1>4, <2>1 DEF TimesKept
  <1>8. CgameKept(g, arrived, 0)
    BY <1>5 DEF CgameKept
  <1>9. Follows(c, g, s, arrived, 0)
    BY <1>5 DEF Follows, Quiet, NoneActive
  <1> QED BY <1>1, <1>2, <1>6, <1>7, <1>8, <1>9 DEF TimeKept, TimeInv

LEMMA TimeHeld == ASSUME TimeInv PROVE T!TypeOK /\ T!NoError
  <1>1. PICK top, s, c, g : /\ s = sent /\ c = cl /\ g = cg
                            /\ TimeKept(svTime, s, arrived, top, c, g)
    BY DEF TimeInv
  <1>2. T!Newest = top
    BY <1>1, TopIsNewest, TopNumbers DEF TimeKept
  <1>3. /\ top \in Nat /\ top <= Len(s) /\ Len(s) \in Nat /\ s \in Seq(ASnapshot)
    BY <1>1, TopNumbers DEF TimeKept
  <1>4. svTime \in 0..MaxTime /\ arrived \subseteq DOMAIN sent
    <2>1. arrived \in SUBSET (1..Len(s)) /\ svTime \in 0..MaxTime
      BY <1>1 DEF TimeKept, Network
    <2>2. DOMAIN s = 1..Len(s)
      BY <1>3
    <2> QED BY <1>1, <2>1, <2>2
  <1>5. /\ c.state \in {"primed", "active"} /\ c.realtime \in 0..MaxTime
        /\ c.oldServerTime <= 3 * MaxTime + MaxSnaps
        /\ c.state = "active" => top # 0 /\ s[top].active
    <2>1. c \in TimeClient
      BY <1>1 DEF TimeKept, TimesKept
    <2>2. c.state \in {"primed", "active"} /\ c.realtime \in 0..MaxTime
      BY <2>1 DEF TimeClient
    <2> QED BY <1>1, <2>2 DEF TimeKept, TimesKept
  <1>6. CgameKept(g, arrived, top) /\ g \in TimeCgame
    BY <1>1 DEF TimeKept, CgameKept
  <1>7. g.snap \in Nat /\ g.next \in Nat /\ g.processed \in Nat /\ g.error = ""
    BY <1>6 DEF TimeCgame
  <1>8. g.next # 0 => g.snap # 0 /\ g.snap < g.next /\ g.next <= g.processed
    <2>1. g.processed <= g.processed
      <3>1. g.processed \in Nat
        BY <1>7
      <3> QED BY <3>1
    <2> QED BY <1>6, <2>1 DEF CgameKept
  <1>9. {g.snap, g.next} \subseteq DOMAIN s \cup {0}
    <2>1. g.snap \in Nat /\ g.next \in Nat /\ g.processed \in Nat
      BY <1>7
    <2>2. g.snap <= top /\ g.next <= top
      <3>1. g.snap <= g.processed /\ g.processed <= top
        BY <1>6 DEF CgameKept
      <3>2. g.next <= g.processed
        BY <1>8, <2>1
      <3> QED BY <1>3, <2>1, <3>1, <3>2
    <2>3. g.snap \in 1..Len(s) \cup {0} /\ g.next \in 1..Len(s) \cup {0}
      BY <1>3, <2>1, <2>2
    <2>4. DOMAIN s = 1..Len(s)
      BY <1>3
    <2> QED BY <2>3, <2>4
  <1>10. T!TypeOK
    BY <1>1, <1>2, <1>4, <1>5, <1>8, <1>9 DEF T!TypeOK
  <1>11. c.error = ""
    BY <1>1 DEF TimeKept, TimesKept, TimeClient
  <1>12. T!NoError
    BY <1>1, <1>7, <1>11 DEF T!NoError
  <1> QED BY <1>10, <1>12

\* Only a frame lets the client's clock go on.
LEMMA ClockGoesOn == ASSUME [Next]_vars, TimeInv, cl'.realtime # cl.realtime PROVE T!CL_Frame
  <1>1. T!Next
    BY TimeSteps DEF time
  <1>2. PICK c, d : c = cl /\ d = cl'
    OBVIOUS
  <1>3. c \in TimeClient
    BY <1>2 DEF TimeInv, TimeKept, TimesKept
  <1>4. ASSUME d = [c EXCEPT !.newSnapshots = TRUE] PROVE d.realtime = c.realtime
    BY <1>3, <1>4 DEF TimeClient
  <1>5. ASSUME d = [c EXCEPT !.state = "primed", !.inits = c.inits + 1, !.reset = FALSE]
        PROVE  d.realtime = c.realtime
    BY <1>3, <1>5 DEF TimeClient
  <1>6. ~T!Tick /\ ~T!SV_SendClientSnapshot
    BY DEF T!Tick, T!SV_SendClientSnapshot
  <1>7. ~T!CL_ParseSnapshot
    BY <1>2, <1>4 DEF T!CL_ParseSnapshot
  <1>8. ~T!CL_Vid_Restart_f
    BY <1>2, <1>5 DEF T!CL_Vid_Restart_f
  <1> QED BY <1>1, <1>6, <1>7, <1>8 DEF T!Next

\* What is drawn lies between the snapshots.
LEMMA ViewIs ==
    ASSUME TimeInv, [Next]_vars, cl'.realtime # cl.realtime, cg'.snap # 0
    PROVE  /\ T!ServerTime(cg'.snap) <= cg'.time
           /\ cg'.next # 0 => cg'.time < T!ServerTime(cg'.next)
           /\ cg'.next = 0 => \A n \in cg'.snap + 1..T!Newest : ~T!Readable(n)
  <1>1. PICK top, d, h : d = cl' /\ h = cg' /\ TimeKept(svTime, sent, arrived, top, cl, cg)
    BY DEF TimeInv
  <1>2. T!Newest = top
    BY <1>1, TopIsNewest, TopNumbers DEF TimeKept
  <1>3. Framed(cl, cg, d, h, sent, arrived, top)
    BY <1>1, ClockGoesOn, FrameIs
  <1>4. PICK g, t : ProcessedTo(g, t, h, sent, arrived, top)
    BY <1>3 DEF Framed
  <1>5. h.snap # 0
    BY <1>1
  <1>6. /\ h.time >= sent[h.snap].serverTime
        /\ h.next # 0 => h.time < sent[h.next].serverTime
        /\ h.next = 0 => NoneRead(arrived, top, h.snap, top)
    BY <1>4, <1>5 DEF ProcessedTo
  <1>7. sent[h.snap].serverTime <= h.time
    BY <1>6
  <1>8. h.next = 0 => \A n \in h.snap + 1..T!Newest : ~T!Readable(n)
    BY <1>2, <1>6 DEF NoneRead, Reads, T!Readable
  <1> QED BY <1>1, <1>6, <1>7, <1>8 DEF T!ServerTime

\* cgame's time after a frame is no less than before, if the client's time was not
\* set anew.
LEMMA FrameForward ==
    ASSUME NEW s, NEW clock, NEW a, NEW top, NEW c, NEW g, TimeKept(clock, s, a, top, c, g),
           NEW d, NEW h, Framed(c, g, d, h, s, a, top), ~d.reset, g.snap # 0
    PROVE  h.time >= g.time
  <1>1. PICK b : /\ b.state = c.state /\ b.oldServerTime = c.oldServerTime
                 /\ TimesSet(b, d, s, top) /\ ProcessedTo(g, d.serverTime, h, s, a, top)
    BY DEF Framed
  <1>2. TimesKept(c, s, top) /\ TimesKept(d, s, top) /\ CgameKept(h, a, top) /\ CgameKept(g, a, top)
    BY <1>1 DEF TimeKept, TimesSet, ProcessedTo
  <1>3. c.state = "active"
    <2>1. c.state \in {"primed", "active"}
      BY <1>2 DEF TimesKept, TimeClient
    <2> QED BY <2>1 DEF TimeKept, Follows
  <1>4. d.state = "active"
    <2>1. d.state \in {"primed", "active"}
      BY <1>2 DEF TimesKept, TimeClient
    <2> QED BY <1>1, <1>3, <2>1 DEF TimesSet
  <1>5. d.serverTime = d.oldServerTime /\ d.oldServerTime >= c.oldServerTime
    BY <1>1, <1>3, <1>4 DEF TimesSet
  <1>6. /\ g.snap \in Nat /\ h.snap \in Nat /\ h.processed \in Nat /\ h.time \in Int /\ g.time \in Int
    BY <1>2 DEF CgameKept, TimeCgame
  <1>7. c.oldServerTime \in Int /\ d.oldServerTime \in Int
    BY <1>2 DEF TimesKept, TimeClient
  <1>8. h.snap >= g.snap /\ h.snap # 0
    <2>1. h.snap >= g.snap
      BY <1>1 DEF ProcessedTo
    <2> QED BY <1>6, <2>1
  <1>9. h.time >= d.serverTime /\ h.time >= s[h.snap].serverTime
    BY <1>1, <1>8 DEF ProcessedTo
  <1>10. PICK x \in Int, y \in Int : /\ x = s[g.snap].serverTime /\ y = s[h.snap].serverTime /\ x <= y
    <2>1. h.snap \in 1..Len(s) /\ g.snap \in 1..h.snap /\ g.snap \in 1..Len(s)
      <3>1. h.snap <= h.processed /\ h.processed <= top
        BY <1>2 DEF CgameKept
      <3>2. top \in Nat /\ top <= Len(s) /\ Len(s) \in Nat
        BY TopNumbers DEF TimeKept
      <3> QED BY <1>6, <1>8, <3>1, <3>2
    <2>2. Sent(s, clock)
      BY DEF TimeKept
    <2>3. Later(s, g.snap, h.snap)
      BY <2>1, <2>2 DEF Sent
    <2>4. s[g.snap].serverTime \in 0..MaxTime /\ s[h.snap].serverTime \in 0..MaxTime
      BY <2>1, <2>2, TopIsSent
    <2> QED BY <2>3, <2>4, TimeNumbers DEF Later
  <1>11. g.time <= c.oldServerTime \/ g.time <= x
    BY <1>10 DEF TimeKept, Follows
  <1> QED BY <1>5, <1>6, <1>7, <1>9, <1>10, <1>11

LEMMA NotSetAnew ==
    ASSUME TimeInv, [Next]_vars, ~cl'.reset, cg.snap # 0, cl'.inits = cl.inits
    PROVE  cg'.time >= cg.time
  <1>1. PICK top, c, g, d, h : /\ c = cl /\ g = cg /\ d = cl' /\ h = cg'
                               /\ TimeKept(svTime, sent, arrived, top, c, g)
    BY DEF TimeInv
  <1>2. g.time \in Int
    BY <1>1 DEF TimeKept, CgameKept, TimeCgame
  <1>3. CASE h = g
    BY <1>1, <1>2, <1>3
  <1>4. CASE T!CL_Frame
    <2>1. Framed(c, g, d, h, sent, arrived, top)
      BY <1>1, <1>4, FrameIs
    <2> QED BY <1>1, <2>1, FrameForward
  <1>5. ~T!CL_Vid_Restart_f
    <2> SUFFICES ASSUME T!CL_Vid_Restart_f PROVE FALSE
      OBVIOUS
    <2>1. d = [c EXCEPT !.state = "primed", !.inits = c.inits + 1, !.reset = FALSE]
      BY <1>1 DEF T!CL_Vid_Restart_f
    <2>2. PICK n \in Nat : n = c.inits
      BY <1>1 DEF TimeKept, TimesKept, TimeClient
    <2>3. c \in TimeClient
      BY <1>1 DEF TimeKept, TimesKept
    <2>4. PICK m : m = n + 1
      OBVIOUS
    <2>5. d = [c EXCEPT !.state = "primed", !.inits = m, !.reset = FALSE]
      BY <2>1, <2>2, <2>4
    <2>6. d.inits = m
      BY <2>3, <2>5 DEF TimeClient
    <2>7. m = n
      BY <1>1, <2>2, <2>6
    <2> QED BY <2>4, <2>7
  <1>6. h = g \/ T!CL_Frame \/ T!CL_Vid_Restart_f
    <2>1. T!Tick \/ T!SV_SendClientSnapshot \/ T!CL_ParseSnapshot => h = g
      BY <1>1 DEF T!Tick, T!SV_SendClientSnapshot, T!CL_ParseSnapshot
    <2>2. UNCHANGED time => h = g
      BY <1>1 DEF time
    <2> QED BY <2>1, <2>2, TimeSteps DEF T!Next
  <1> QED BY <1>3, <1>4, <1>5, <1>6

\* Neither client nor cgame meets one of the errors they check for; cgame draws
\* between two snapshots, extrapolates only past the last that can be read, and
\* never draws an earlier time than before, unless the time was set anew
\* (ClientTime: NoError, ViewHolds, ForwardUnlessReset).
THEOREM Time == Spec => TimeHolds
  <1>1. Init => TimeInv
    BY TimeInit
  <1>2. TimeInv /\ [Next]_vars => TimeInv'
    BY TimeStep
  <1>3. TimeInv => (part = "time" => T!TypeOK /\ T!NoError)
    BY TimeHeld
  <1>4. TimeInv /\ [Next]_vars =>
          [cl'.realtime # cl.realtime /\ cg'.snap # 0 =>
              /\ T!ServerTime(cg'.snap) <= cg'.time
              /\ cg'.next # 0 => cg'.time < T!ServerTime(cg'.next)
              /\ cg'.next = 0 => \A n \in cg'.snap + 1..T!Newest : ~T!Readable(n)]_(T!vars)
    BY ViewIs
  <1>5. TimeInv /\ [Next]_vars =>
          [~cl'.reset /\ cg.snap # 0 /\ cl'.inits = cl.inits => cg'.time >= cg.time]_(T!vars)
    BY NotSetAnew
  <1> QED BY <1>1, <1>2, <1>3, <1>4, <1>5, PTL DEF Spec, TimeHolds, T!ViewHolds, T!ForwardUnlessReset

-----------------------------------------------------------------------------
(* Downloads: what DownloadProof proves of a download, brought here.  An      *)
(* instance has definitions of its own, so those of D and of the instance of  *)
(* the proof are first shown to be the same.                                  *)

DP == INSTANCE DownloadProof WITH cl <- clc, Cases <- DownloadCases

LEMMA SameAssumption == DP!DownloadAssumption
  BY DownloadInstance DEF D!DownloadAssumption, DP!DownloadAssumption

LEMMA SameInit == D!Init => DP!Init
  BY DEF D!Init, DP!Init, D!Eof, DP!Eof

LEMMA SameHolds == DP!DownloadHolds => D!DownloadHolds
  BY Zenon DEF D!DownloadHolds, DP!DownloadHolds, D!TypeOK, DP!TypeOK, D!WindowHolds, DP!WindowHolds,
         D!SavedIsServed, DP!SavedIsServed, D!NotBroken, DP!NotBroken, D!Eof, DP!Eof, D!Content, DP!Content,
         D!Gone, DP!Gone

LEMMA SameSV_WriteDownloadToClient == D!SV_WriteDownloadToClient => DP!SV_WriteDownloadToClient
  BY Zenon DEF D!SV_WriteDownloadToClient, DP!SV_WriteDownloadToClient, D!Eof, DP!Eof, D!Opened, DP!Opened, D!Room, DP!Room, D!Reads, DP!Reads, D!Filled, DP!Filled, D!NextToSend, DP!NextToSend, D!Send, DP!Send, D!RefuseDownload, DP!RefuseDownload, D!Short, DP!Short

LEMMA SameSecondPasses == D!SecondPasses => DP!SecondPasses
  BY DEF D!SecondPasses, DP!SecondPasses

LEMMA SameSV_ClientCommand == D!SV_ClientCommand => DP!SV_ClientCommand
  BY DEF D!SV_ClientCommand, DP!SV_ClientCommand, D!Closed, DP!Closed, D!DropClient, DP!DropClient, D!SV_NextDownload_f, DP!SV_NextDownload_f, D!Eof, DP!Eof

LEMMA SameCL_ParseDownload == D!CL_ParseDownload => DP!CL_ParseDownload
  BY DEF D!CL_ParseDownload, DP!CL_ParseDownload, D!Eof, DP!Eof, D!Gone, DP!Gone, D!Add, DP!Add, D!AddTwo, DP!AddTwo, D!Content, DP!Content, D!CL_NextDownload, DP!CL_NextDownload, D!Expected, DP!Expected

LEMMA SameLoseBlock == D!LoseBlock => DP!LoseBlock
  BY DEF D!LoseBlock, DP!LoseBlock

LEMMA SameNext == D!Next => DP!Next
  BY SameSV_WriteDownloadToClient, SameSecondPasses, SameSV_ClientCommand, SameCL_ParseDownload, SameLoseBlock DEF D!Next, DP!Next
LEMMA DownloadKept == ASSUME DP!IInv, UNCHANGED download PROVE DP!IInv'
  <1>1. [DP!Next]_(DP!vars)
    BY DEF download, DP!vars
  <1> QED BY <1>1, SameAssumption, DP!NextInv

LEMMA DownloadStep == ASSUME DP!IInv, [Next]_vars PROVE DP!IInv'
  <1>1. CASE RunDownload
    <2>1. [DP!Next]_(DP!vars)
      BY <1>1, SameNext DEF RunDownload
    <2> QED BY <2>1, SameAssumption, DP!NextInv
  <1>2. CASE UNCHANGED download
    BY <1>2, DownloadKept
  <1> QED BY <1>1, <1>2 DEF Next, vars, RunVoip, RunRate, RunHeap, RunSpawn, RunMaps, RunVotes,
            RunTime, RunMaster, RunAliens

\* Whatever is lost, late or refused, and however long the files and the window
\* are: reading ahead never goes over a block that may have to be sent again,
\* the files the client keeps are the server's, and no client that acknowledges
\* what it gets is dropped (SV_WriteDownloadToClient, SV_NextDownload_f,
\* CL_ParseDownload).
THEOREM DownloadsHold == Spec => []DownloadHolds
  <1>1. Init => DP!IInv
    <2> SUFFICES ASSUME Init PROVE DP!IInv
      OBVIOUS
    <2>1. DP!Init
      BY SameInit DEF Init
    <2> QED BY <2>1, SameAssumption, DP!InitInv
  <1>2. DP!IInv /\ [Next]_vars => DP!IInv'
    BY DownloadStep
  <1>3. DP!IInv => DownloadHolds
    BY DP!StagesHold, SameHolds DEF DownloadHolds
  <1> QED BY <1>1, <1>2, <1>3, PTL DEF Spec
=============================================================================
