---------------------------- MODULE SequenceLemmas ---------------------------
(***************************************************************************)
(* Facts about taking one element out of a list (list.remove, list.pop),   *)
(* about the first of some places in it, about the folds that stand for    *)
(* loops over a list, about sums over a set, about whole division, about   *)
(* what sorting and filtering return and about one step after another,     *)
(* cited by the proofs of the models.                                      *)
(***************************************************************************)
EXTENDS Integers, SequencesExt, Sorting, FiniteSetTheorems, SequenceTheorems, WellFoundedInduction, TLAPS

\* A set of numbers that is not empty has a first one.
LEMMA MinOf ==
  ASSUME NEW cs \in SUBSET Nat, cs # {}
  PROVE  Min(cs) \in cs /\ \A c \in cs : Min(cs) <= c
<1> DEFINE R == OpToRel(<, Nat)
<1>1. \E x \in cs : \A y \in cs : <<y, x>> \notin R
  BY NatLessThanWellFounded, WFMin
<1>2. \A x, y \in Nat : <<y, x>> \notin R => x <= y
  BY DEF OpToRel
<1>3. \E x \in cs : \A y \in cs : x <= y
  BY <1>1, <1>2
<1> QED
  BY <1>3 DEF Min

\* Where the j-th element of a list without its k-th came from.
Origin(j, k) == IF j < k THEN j ELSE j + 1

LEMMA Concatenated ==
  \A S : \A a, b \in Seq(S) : a \o b \in Seq(S) /\ Len(a \o b) = Len(a) + Len(b)
  OBVIOUS

\* Taking the k-th element out keeps the others, in their order.
LEMMA RemoveAtOne ==
  ASSUME NEW S, NEW s \in Seq(S), NEW k \in 1..Len(s)
  PROVE  /\ RemoveAt(s, k) \in Seq(S) /\ Len(RemoveAt(s, k)) = Len(s) - 1
         /\ DOMAIN RemoveAt(s, k) = 1..(Len(s) - 1)
         /\ \A j \in 1..(Len(s) - 1) : /\ Origin(j, k) \in DOMAIN s \ {k}
                                       /\ RemoveAt(s, k)[j] = s[Origin(j, k)]
<1>1. /\ Len(s) \in Nat /\ k \in Int /\ 1 <= k /\ k <= Len(s)
      /\ k - 1 \in Int /\ k + 1 \in Int /\ Len(s) \in Int /\ \A i \in 1..Len(s) : s[i] \in S
  OBVIOUS
<1>2. /\ SubSeq(s, 1, k - 1) \in Seq(S)
      /\ Len(SubSeq(s, 1, k - 1)) = k - 1
      /\ \A j \in 1..(k - 1) : SubSeq(s, 1, k - 1)[j] = s[j]
  <2>1. \A i \in 1..(k - 1) : s[i] \in S
    BY <1>1
  <2>2. /\ SubSeq(s, 1, k - 1) \in Seq(S)
        /\ Len(SubSeq(s, 1, k - 1)) = IF 1 <= k - 1 THEN k - 1 - 1 + 1 ELSE 0
        /\ \A j \in 1..(k - 1 - 1 + 1) : SubSeq(s, 1, k - 1)[j] = s[1 + j - 1]
    BY <1>1, <2>1, SubSeqProperties
  <2> QED
    BY <1>1, <2>2
<1>3. /\ SubSeq(s, k + 1, Len(s)) \in Seq(S)
      /\ Len(SubSeq(s, k + 1, Len(s))) = Len(s) - k
      /\ \A j \in 1..(Len(s) - k) : SubSeq(s, k + 1, Len(s))[j] = s[k + j]
  <2>1. \A i \in (k + 1)..Len(s) : s[i] \in S
    BY <1>1
  <2>2. /\ SubSeq(s, k + 1, Len(s)) \in Seq(S)
        /\ Len(SubSeq(s, k + 1, Len(s)))
             = IF k + 1 <= Len(s) THEN Len(s) - (k + 1) + 1 ELSE 0
        /\ \A j \in 1..(Len(s) - (k + 1) + 1) :
             SubSeq(s, k + 1, Len(s))[j] = s[(k + 1) + j - 1]
    BY <1>1, <2>1, SubSeqProperties
  <2> QED
    BY <1>1, <2>2
<1>4. PICK a \in Seq(S) : a = SubSeq(s, 1, k - 1)
  BY <1>2
<1>5. PICK b \in Seq(S) : b = SubSeq(s, k + 1, Len(s))
  BY <1>3
<1>6. PICK c \in Seq(S) : c = a \o b
  BY Concatenated, Zenon
<1>7. RemoveAt(s, k) = c
  BY <1>4, <1>5, <1>6 DEF RemoveAt
<1>8. /\ Len(a) = k - 1 /\ \A j \in 1..(k - 1) : a[j] = s[j]
      /\ Len(b) = Len(s) - k /\ \A j \in 1..(Len(s) - k) : b[j] = s[k + j]
  BY <1>2, <1>3, <1>4, <1>5, Zenon
<1>9. /\ c \in Seq(S) /\ Len(c) = Len(s) - 1
      /\ DOMAIN c = 1..(Len(s) - 1)
      /\ \A j \in 1..(Len(s) - 1) : /\ Origin(j, k) \in DOMAIN s \ {k}
                                    /\ c[j] = s[Origin(j, k)]
  <2>2. c \in Seq(S) /\ Len(c) = Len(s) - 1 /\ DOMAIN c = 1..(Len(s) - 1)
    <3>1. c \in Seq(S) /\ Len(c) = Len(a) + Len(b)
      BY <1>6, Concatenated, Zenon
    <3>2. Len(a) + Len(b) = Len(s) - 1
      BY <1>1, <1>8
    <3> QED
      BY <3>1, <3>2
  <2>3. ASSUME NEW j \in 1..(Len(s) - 1), j < k
        PROVE  Origin(j, k) \in DOMAIN s \ {k} /\ c[j] = s[Origin(j, k)]
    <3>1. Origin(j, k) = j /\ j \in 1..(k - 1) /\ j \in DOMAIN s \ {k}
      BY <1>1, <1>8, <2>3 DEF Origin
    <3>2. c[j] = a[j]
      BY <1>1, <1>6, <1>8, <3>1
    <3> QED
      BY <1>8, <3>1, <3>2
  <2>4. ASSUME NEW j \in 1..(Len(s) - 1), ~(j < k)
        PROVE  Origin(j, k) \in DOMAIN s \ {k} /\ c[j] = s[Origin(j, k)]
    <3>1. PICK i \in 1..(Len(s) - k) : k + i = j + 1 /\ j = (k - 1) + i
      <4>1. j - (k - 1) \in 1..(Len(s) - k) /\ k + (j - (k - 1)) = j + 1
        BY <1>1, <1>8, <2>4
      <4> QED
        BY <1>1, <1>8, <4>1
    <3>2. Origin(j, k) = j + 1 /\ j + 1 \in DOMAIN s \ {k}
      BY <1>1, <1>8, <2>4 DEF Origin
    <3>3. c[j] = b[i]
      BY <1>1, <1>6, <1>8, <3>1
    <3> QED
      BY <1>8, <3>1, <3>2, <3>3
  <2> QED
    BY <2>2, <2>3, <2>4
<1> QED
  BY <1>7, <1>9, Zenon

LEMMA RemoveAtKeeps ==
  ASSUME NEW S, NEW s \in Seq(S), NEW k \in 1..Len(s), NEW j \in 1..Len(s), j # k
  PROVE  \E n \in 1..(Len(s) - 1) : RemoveAt(s, k)[n] = s[j] /\ Origin(n, k) = j
<1>1. Len(s) \in Nat /\ k \in Int /\ j \in Int
  OBVIOUS
<1>2. PICK n \in 1..(Len(s) - 1) : Origin(n, k) = j
  <2>1. CASE j < k
    BY <1>1, <2>1 DEF Origin
  <2>2. CASE j > k
    <3>1. j - 1 \in 1..(Len(s) - 1) /\ ~(j - 1 < k) /\ (j - 1) + 1 = j
      BY <1>1, <2>2
    <3> QED
      BY <3>1 DEF Origin
  <2> QED
    BY <1>1, <2>1, <2>2
<1> QED
  BY <1>2, RemoveAtOne

\* r is s without its k-th element: what it has, and that nothing else is lost.
Removed(r, s, k) ==
    /\ Len(r) = Len(s) - 1 /\ DOMAIN r = 1..(Len(s) - 1)
    /\ \A j \in 1..(Len(s) - 1) : Origin(j, k) \in DOMAIN s \ {k} /\ r[j] = s[Origin(j, k)]
    /\ \A j \in DOMAIN s \ {k} : \E n \in 1..(Len(s) - 1) : r[n] = s[j]

LEMMA RemoveAtRemoved ==
  ASSUME NEW S, NEW s \in Seq(S), NEW k \in 1..Len(s)
  PROVE  RemoveAt(s, k) \in Seq(S) /\ Removed(RemoveAt(s, k), s, k)
<1>1. DOMAIN s = 1..Len(s)
  OBVIOUS
<1>2. ASSUME NEW j \in 1..Len(s), j # k
      PROVE  \E n \in 1..(Len(s) - 1) : RemoveAt(s, k)[n] = s[j]
  BY <1>2, RemoveAtKeeps
<1>3. RemoveAt(s, k) \in Seq(S) /\ Len(RemoveAt(s, k)) = Len(s) - 1
  BY RemoveAtOne
<1>4. DOMAIN RemoveAt(s, k) = 1..(Len(s) - 1)
  BY RemoveAtOne
<1>5. \A j \in 1..(Len(s) - 1) :
        Origin(j, k) \in DOMAIN s \ {k} /\ RemoveAt(s, k)[j] = s[Origin(j, k)]
  BY RemoveAtOne
<1>6. \A j \in DOMAIN s \ {k} : \E n \in 1..(Len(s) - 1) : RemoveAt(s, k)[n] = s[j]
  BY <1>1, <1>2
<1> QED
  BY <1>3, <1>4, <1>5, <1>6, Zenon DEF Removed

\* Different places come from different places.
LEMMA OriginInjective ==
  ASSUME NEW j \in Int, NEW n \in Int, NEW k \in Int, Origin(j, k) = Origin(n, k)
  PROVE  j = n
  BY DEF Origin

\* The places of a list without its k-th element that came from P are as many
\* as those of P, the k-th left out.
LEMMA PlacesLeft ==
  ASSUME NEW n \in Nat, NEW k \in 1..n, NEW P \in SUBSET (1..n)
  PROVE  Cardinality({j \in 1..(n - 1) : Origin(j, k) \in P}) = Cardinality(P \ {k})
<1> DEFINE Q == {j \in 1..(n - 1) : Origin(j, k) \in P}
           f == [j \in Q |-> Origin(j, k)]
<1>1. IsFiniteSet(Q)
  <2>1. IsFiniteSet(1..(n - 1))
    BY FS_Interval
  <2> QED
    BY <2>1, FS_Subset
<1>2. \A j \in Q : f[j] \in P \ {k}
  BY DEF Origin
<1>3. \A i, j \in Q : f[i] = f[j] => i = j
  BY DEF Origin
<1>4. ASSUME NEW p \in P \ {k} PROVE \E j \in Q : f[j] = p
  <2>1. CASE p < k
    <3>1. p \in Q /\ f[p] = p
      BY <2>1 DEF Origin
    <3> QED
      BY <3>1
  <2>2. CASE ~(p < k)
    <3>1. p \in 1..n /\ p > k
      BY <2>2
    <3>2. p - 1 \in Q /\ f[p - 1] = p
      BY <3>1 DEF Origin
    <3> QED
      BY <3>2
  <2> QED
    BY <2>1, <2>2
<1>5. f \in Bijection(Q, P \ {k})
  <2>1. f \in [Q -> P \ {k}]
    BY <1>2
  <2> HIDE DEF f, Q
  <2> QED
    BY <1>3, <1>4, <2>1 DEF Bijection, Injection, Surjection, IsInjective
<1>6. ExistsBijection(Q, P \ {k})
  BY <1>5 DEF ExistsBijection
<1> QED
  BY <1>1, <1>6, FS_Bijection

\* What taking one out of a list that ends with an element leaves.
LEMMA RemoveFromAppended ==
  ASSUME NEW S, NEW s \in Seq(S), NEW x \in S
  PROVE  /\ RemoveAt(Append(s, x), Len(s) + 1) = s
         /\ \A k \in 1..Len(s) : RemoveAt(Append(s, x), k) = Append(RemoveAt(s, k), x)
<1> DEFINE t == Append(s, x)
<1>1. /\ t \in Seq(S) /\ Len(t) = Len(s) + 1 /\ Len(s) \in Nat /\ t[Len(s) + 1] = x
      /\ \A j \in 1..Len(s) : t[j] = s[j]
  OBVIOUS
<1> HIDE DEF t
<1>2. RemoveAt(t, Len(s) + 1) = s
  <2>1. /\ RemoveAt(t, Len(s) + 1) \in Seq(S) /\ Len(RemoveAt(t, Len(s) + 1)) = Len(s)
        /\ \A j \in 1..Len(s) : RemoveAt(t, Len(s) + 1)[j] = t[Origin(j, Len(s) + 1)]
    <3>1. Len(s) + 1 \in 1..Len(t) /\ Len(t) - 1 = Len(s)
      BY <1>1
    <3>2. RemoveAt(t, Len(s) + 1) \in Seq(S) /\ Removed(RemoveAt(t, Len(s) + 1), t, Len(s) + 1)
      BY <1>1, <3>1, RemoveAtRemoved
    <3> QED
      BY <3>1, <3>2 DEF Removed
  <2>2. \A j \in 1..Len(s) : Origin(j, Len(s) + 1) = j
    BY <1>1 DEF Origin
  <2>3. \A j \in 1..Len(s) : RemoveAt(t, Len(s) + 1)[j] = s[j]
    BY <1>1, <2>1, <2>2
  <2> QED
    BY <1>1, <2>1, <2>3, SeqEqual
<1>3. ASSUME NEW k \in 1..Len(s)
      PROVE  RemoveAt(t, k) = Append(RemoveAt(s, k), x)
  <2>1. /\ RemoveAt(t, k) \in Seq(S) /\ Len(RemoveAt(t, k)) = Len(s)
        /\ \A j \in 1..Len(s) : RemoveAt(t, k)[j] = t[Origin(j, k)]
    <3>1. k \in 1..Len(t) /\ Len(t) - 1 = Len(s)
      BY <1>1
    <3>2. RemoveAt(t, k) \in Seq(S) /\ Removed(RemoveAt(t, k), t, k)
      BY <1>1, <3>1, RemoveAtRemoved
    <3> QED
      BY <3>1, <3>2 DEF Removed
  <2>2. /\ RemoveAt(s, k) \in Seq(S) /\ Len(RemoveAt(s, k)) = Len(s) - 1
        /\ \A j \in 1..(Len(s) - 1) : /\ Origin(j, k) \in DOMAIN s \ {k}
                                      /\ RemoveAt(s, k)[j] = s[Origin(j, k)]
    <3>1. RemoveAt(s, k) \in Seq(S) /\ Removed(RemoveAt(s, k), s, k)
      BY RemoveAtRemoved
    <3> QED
      BY <3>1 DEF Removed
  <2>3. PICK r \in Seq(S) : r = RemoveAt(s, k)
    BY <2>2
  <2>4. /\ Append(r, x) \in Seq(S) /\ Len(Append(r, x)) = Len(s)
        /\ Append(r, x)[Len(s)] = x
        /\ \A j \in 1..(Len(s) - 1) : Append(r, x)[j] = r[j]
    BY <1>1, <2>2, <2>3
  <2>5. ASSUME NEW j \in 1..Len(s) PROVE RemoveAt(t, k)[j] = Append(r, x)[j]
    <3>1. CASE j = Len(s)
      <4>1. Origin(j, k) = Len(s) + 1
        BY <1>1, <3>1 DEF Origin
      <4> QED
        BY <1>1, <2>1, <2>4, <3>1, <4>1
    <3>2. CASE j # Len(s)
      <4>1. j \in 1..(Len(s) - 1) /\ Origin(j, k) \in 1..Len(s)
        BY <1>1, <2>2, <3>2
      <4> QED
        BY <1>1, <2>1, <2>2, <2>3, <2>4, <4>1
    <3> QED
      BY <3>1, <3>2
  <2>6. RemoveAt(t, k) = Append(r, x)
    BY <2>1, <2>4, <2>5, SeqEqual
  <2> QED
    BY <2>3, <2>6
<1> QED
  BY <1>2, <1>3 DEF t

\* list.remove takes one of the places out.
LEMMA RemoveFirstTakesOne ==
  ASSUME NEW S, NEW s \in Seq(S), NEW x, Contains(s, x)
  PROVE  \E k \in 1..Len(s) : s[k] = x /\ RemoveFirst(s, x) = RemoveAt(s, k)
<1> DEFINE I == {i \in 1..Len(s) : s[i] = x}
<1>1. I \in SUBSET Nat /\ I # {} /\ \E i \in 1..Len(s) : s[i] = x
  BY DEF Contains
<1>2. Min(I) \in I
  BY <1>1, MinOf
<1>3. RemoveFirst(s, x) = RemoveAt(s, Min(I))
  BY <1>1 DEF RemoveFirst, SelectInSeq
<1> QED
  BY <1>2, <1>3

-----------------------------------------------------------------------------
(***************************************************************************)
(* What FoldLeft computes, by the table over the sets of places that it is *)
(* defined with. The operator is a function here, and a fold has a table   *)
(* of it once the values it meets are known to be in a set.                *)
(***************************************************************************)
Places(seq) == 1..Len(seq)

Operators(A, E) == [A \X E -> A]

Tables(A, seq) == [SUBSET Places(seq) -> A]

\* The value of every set of places of the sequence.
IsTable(f, op, base, seq) ==
    f = [s \in SUBSET Places(seq) |->
            IF s = {} THEN base ELSE op[<<f[s \ {Max(s)}], seq[Max(s)]>>]]

\* A function on the sets of places that takes the steps of the operator, as
\* long as its values are in the set the operator is for.
Follows(f, A, op, base, seq) ==
    /\ f = [s \in SUBSET Places(seq) |-> f[s]] /\ f[{}] = base
    /\ \A s \in SUBSET Places(seq) : s # {} /\ f[s \ {Max(s)}] \in A =>
          f[s] = op[<<f[s \ {Max(s)}], seq[Max(s)]>>]

\* A set of numbers up to one has a last one.
LEMMA MaxOf ==
  ASSUME NEW n \in Nat, NEW s \in SUBSET (1..n), s # {}
  PROVE  Max(s) \in s /\ \A x \in s : x <= Max(s)
<1> DEFINE Bounds == {b \in Nat : \A x \in s : x <= b}
<1>1. n \in Bounds /\ Bounds \in SUBSET Nat
  OBVIOUS
<1>2. /\ Min(Bounds) \in Nat /\ \A x \in s : x <= Min(Bounds)
      /\ \A b \in Bounds : Min(Bounds) <= b
  BY <1>1, MinOf
<1> DEFINE m == Min(Bounds)
<1> HIDE DEF m
<1>3. m \in s
  <2> SUFFICES ASSUME m \notin s PROVE FALSE
    OBVIOUS
  <2>1. PICK x \in s : TRUE
    OBVIOUS
  <2>2. m >= 1 /\ \A y \in s : y <= m - 1
    BY <1>2, <2>1 DEF m
  <2>3. m - 1 \in Bounds
    BY <1>2, <2>2 DEF m
  <2> QED
    BY <1>2, <2>3 DEF m
<1>4. \E x \in s : \A y \in s : x >= y
  BY <1>2, <1>3 DEF m
<1> QED
  BY <1>4 DEF Max

\* Such a function is the table.
LEMMA TableReached ==
  ASSUME NEW A, NEW E, NEW base, NEW op \in Operators(A, E), NEW seq \in Seq(E),
         NEW g \in Tables(A, seq), IsTable(g, op, base, seq),
         NEW f, Follows(f, A, op, base, seq)
  PROVE  f = g
<1> DEFINE Bad == {k \in 0..Len(seq) : \E s \in SUBSET (1..k) : f[s] # g[s]}
<1>1. Len(seq) \in Nat /\ \A k \in 0..Len(seq) : SUBSET (1..k) \subseteq SUBSET Places(seq)
  BY DEF Places
<1>2. Bad = {}
  <2> SUFFICES ASSUME Bad # {} PROVE FALSE
    OBVIOUS
  <2> DEFINE k == Min(Bad)
  <2>1. k \in Bad /\ \A j \in Bad : k <= j
    <3>1. Bad \in SUBSET Nat
      OBVIOUS
    <3> QED
      BY <3>1, MinOf
  <2>2. PICK s \in SUBSET (1..k) : f[s] # g[s]
    BY <2>1
  <2>3. s \in SUBSET Places(seq) /\ s \in SUBSET (1..Len(seq)) /\ k \in 0..Len(seq)
    BY <1>1, <2>1 DEF Places
  <2> HIDE DEF k
  <2>4. s # {}
    <3>1. {} \in SUBSET Places(seq)
      OBVIOUS
    <3>2. g[{}] = base /\ f[{}] = base
      BY <3>1 DEF IsTable, Follows
    <3> QED
      BY <2>2, <3>2
  <2>5. Max(s) \in s /\ \A x \in s : x <= Max(s)
    BY <1>1, <2>3, <2>4, MaxOf
  <2> DEFINE t == s \ {Max(s)}
  <2>6. Max(s) - 1 \in 0..Len(seq) /\ t \in SUBSET (1..(Max(s) - 1)) /\ Max(s) - 1 < k
    <3>1. \A x \in s : x \in 1..k /\ x <= Max(s)
      BY <2>2, <2>5
    <3>2. Max(s) \in 1..k
      BY <2>5, <3>1
    <3> HIDE DEF Bad
    <3>3. Max(s) - 1 \in 0..Len(seq) /\ Max(s) - 1 < k
      BY <1>1, <2>3, <3>2
    <3>4. \A x \in t : x \in 1..(Max(s) - 1)
      BY <3>1, <3>2
    <3> QED
      BY <3>3, <3>4
  <2>7. f[t] = g[t]
    <3>1. Max(s) - 1 \notin Bad
      <4>1. Max(s) - 1 \in Int /\ k \in Int
        BY <1>1, <2>3, <2>6
      <4> HIDE DEF Bad
      <4> QED
        BY <2>1, <2>6, <4>1
    <3> QED
      BY <2>6, <3>1
  <2>8. t \in SUBSET Places(seq) /\ f[t] \in A
    BY <2>3, <2>7 DEF Tables
  <2>9. g[s] = op[<<g[t], seq[Max(s)]>>]
    BY <2>3, <2>4 DEF IsTable
  <2>10. f[s] = op[<<f[t], seq[Max(s)]>>]
    BY <2>3, <2>4, <2>8 DEF Follows
  <2> QED
    BY <2>2, <2>7, <2>9, <2>10
<1>3. \A s \in SUBSET Places(seq) : f[s] = g[s]
  <2>1. Len(seq) \in 0..Len(seq)
    BY <1>1
  <2> QED
    BY <1>2, <2>1 DEF Places
<1>4. f = [s \in SUBSET Places(seq) |-> f[s]] /\ g = [s \in SUBSET Places(seq) |-> g[s]]
  BY DEF Follows, Tables
<1> QED
  BY <1>3, <1>4

\* A sequence has a table, of values of the set that the operator stays in.
LEMMA TableExists ==
  ASSUME NEW A, NEW E, NEW base \in A, NEW op \in Operators(A, E), NEW seq \in Seq(E)
  PROVE  \E f \in Tables(A, seq) : IsTable(f, op, base, seq)
<1> DEFINE Upto(k, f) ==
      /\ f \in [SUBSET (1..k) -> A]
      /\ f = [s \in SUBSET (1..k) |->
                 IF s = {} THEN base ELSE op[<<f[s \ {Max(s)}], seq[Max(s)]>>]]
<1> DEFINE Bad == {k \in 0..Len(seq) : ~ \E f : Upto(k, f)}
<1>0. Len(seq) \in Nat /\ \A i \in 1..Len(seq) : seq[i] \in E
  OBVIOUS
<1>1. Bad = {}
  <2> SUFFICES ASSUME Bad # {} PROVE FALSE
    OBVIOUS
  <2> DEFINE k == Min(Bad)
  <2>1. k \in Bad /\ \A j \in Bad : k <= j
    <3>1. Bad \in SUBSET Nat
      OBVIOUS
    <3> QED
      BY <3>1, MinOf
  <2> HIDE DEF k
  <2>2. CASE k = 0
    <3>1. SUBSET (1..0) = {{}}
      OBVIOUS
    <3>2. Upto(0, [s \in SUBSET (1..0) |-> base])
      BY <3>1
    <3> QED
      BY <2>1, <2>2, <3>2
  <2>3. CASE k # 0
    <3>1. k \in 1..Len(seq) /\ k - 1 \in 0..Len(seq) /\ k - 1 \notin Bad
      <4>1. k \in 0..Len(seq)
        BY <2>1
      <4> HIDE DEF Bad
      <4> QED
        BY <1>0, <2>1, <2>3, <4>1
    <3>2. PICK g : Upto(k - 1, g)
      BY <3>1
    <3> DEFINE f == [s \in SUBSET (1..k) |-> IF k \in s THEN op[<<g[s \ {k}], seq[k]>>] ELSE g[s]]
    <3>3. ASSUME NEW s \in SUBSET (1..k), k \in s
          PROVE  /\ s \ {k} \in SUBSET (1..(k - 1)) /\ s \ {k} \in SUBSET (1..k)
                 /\ Max(s) = k /\ f[s] = op[<<g[s \ {k}], seq[k]>>] /\ f[s] \in A
                 /\ f[s] = op[<<f[s \ {Max(s)}], seq[Max(s)]>>]
      <4>1. s \ {k} \in SUBSET (1..(k - 1)) /\ s \ {k} \in SUBSET (1..k)
        BY <3>1, <3>3
      <4>2. Max(s) \in s /\ \A x \in s : x <= Max(s)
        <5> HIDE DEF f, Bad, Upto
        <5>1. k \in Nat /\ s # {}
          BY <1>0, <3>1, <3>3
        <5> QED
          BY <5>1, MaxOf
      <4>3. Max(s) = k
        <5> HIDE DEF f, Bad, Upto
        <5>1. k \in Nat
          BY <1>0, <3>1
        <5>2. k <= Max(s) /\ Max(s) \in 1..k
          BY <3>3, <4>2
        <5> QED
          BY <5>1, <5>2
      <4>4. f[s \ {k}] = g[s \ {k}] /\ g[s \ {k}] \in A
        BY <3>2, <4>1
      <4>5. seq[k] \in E
        BY <3>1
      <4> QED
        BY <3>3, <4>1, <4>3, <4>4, <4>5 DEF Operators
    <3>4. ASSUME NEW s \in SUBSET (1..k), k \notin s
          PROVE  /\ f[s] = g[s] /\ f[s] \in A
                 /\ f[s] = IF s = {} THEN base ELSE op[<<f[s \ {Max(s)}], seq[Max(s)]>>]
      <4>1. s \in SUBSET (1..(k - 1)) /\ s \ {Max(s)} \in SUBSET (1..(k - 1))
            /\ s \ {Max(s)} \in SUBSET (1..k) /\ k \notin s \ {Max(s)}
        <5> HIDE DEF f, Bad, Upto
        <5>1. k \in Nat /\ \A x \in s : x \in 1..k /\ x # k
          BY <1>0, <3>1, <3>4
        <5>2. \A x \in s : x \in 1..(k - 1)
          BY <5>1
        <5> QED
          BY <3>4, <5>2
      <4>2. f[s] = g[s] /\ f[s \ {Max(s)}] = g[s \ {Max(s)}]
        BY <3>4, <4>1
      <4>3. g[s] \in A /\ g[s] = IF s = {} THEN base ELSE op[<<g[s \ {Max(s)}], seq[Max(s)]>>]
        BY <3>2, <4>1
      <4> QED
        BY <4>2, <4>3
    <3>5. \A s \in SUBSET (1..k) :
             /\ f[s] \in A
             /\ f[s] = IF s = {} THEN base ELSE op[<<f[s \ {Max(s)}], seq[Max(s)]>>]
      BY <3>3, <3>4
    <3>6. Upto(k, f)
      <4> DEFINE h == [s \in SUBSET (1..k) |->
                          IF s = {} THEN base ELSE op[<<f[s \ {Max(s)}], seq[Max(s)]>>]]
      <4>1. f \in [SUBSET (1..k) -> A]
        BY <3>5
      <4>2. \A s \in SUBSET (1..k) : f[s] = h[s]
        BY <3>5
      <4> HIDE DEF f
      <4>3. f = h
        BY <4>1, <4>2
      <4> QED
        BY <4>1, <4>3
    <3> QED
      BY <2>1, <3>6
  <2> QED
    BY <2>2, <2>3
<1>2. Len(seq) \in 0..Len(seq)
  OBVIOUS
<1>3. \E f : Upto(Len(seq), f)
  BY <1>1, <1>2
<1> QED
  BY <1>3 DEF IsTable, Places, Tables

\* The value of the whole sequence.
FoldOf(op, base, seq) == (CHOOSE f : IsTable(f, op, base, seq))[Places(seq)]

\* The table of a sequence is the one that a fold of it has.
LEMMA FoldTable ==
  ASSUME NEW A, NEW E, NEW base \in A, NEW op \in Operators(A, E), NEW seq \in Seq(E)
  PROVE  \E g \in Tables(A, seq) :
            /\ IsTable(g, op, base, seq) /\ g[{}] = base
            /\ FoldOf(op, base, seq) = g[Places(seq)]
            /\ \A f : IsTable(f, op, base, seq) => f = g
<1>1. PICK g \in Tables(A, seq) : IsTable(g, op, base, seq)
  BY TableExists
<1>2. ASSUME NEW f, IsTable(f, op, base, seq)
      PROVE  f = g
  <2>1. /\ f = [s \in SUBSET Places(seq) |-> f[s]]
        /\ \A s \in SUBSET Places(seq) :
              f[s] = IF s = {} THEN base ELSE op[<<f[s \ {Max(s)}], seq[Max(s)]>>]
    BY <1>2 DEF IsTable
  <2>2. {} \in SUBSET Places(seq)
    OBVIOUS
  <2>3. Follows(f, A, op, base, seq)
    BY <2>1, <2>2 DEF Follows
  <2> QED
    BY <1>1, <2>3, TableReached
<1>3. (CHOOSE f : IsTable(f, op, base, seq)) = g
  BY <1>1, <1>2
<1>4. g[{}] = base
  <2>1. {} \in SUBSET Places(seq)
    OBVIOUS
  <2> QED
    BY <1>1, <2>1 DEF IsTable
<1> QED
  BY <1>1, <1>2, <1>3, <1>4 DEF FoldOf

\* A fold stays in the set of its operator, is the base for the empty sequence,
\* and takes one step of the operator for one more element.
LEMMA FoldType ==
  ASSUME NEW A, NEW E, NEW base \in A, NEW op \in Operators(A, E), NEW seq \in Seq(E)
  PROVE  FoldOf(op, base, seq) \in A
<1>1. Places(seq) \in SUBSET Places(seq)
  OBVIOUS
<1>2. \E g \in Tables(A, seq) : FoldOf(op, base, seq) = g[Places(seq)]
  BY FoldTable
<1> QED
  BY <1>1, <1>2 DEF Tables

LEMMA FoldEmpty ==
  ASSUME NEW A, NEW E, NEW base \in A, NEW op \in Operators(A, E)
  PROVE  FoldOf(op, base, <<>>) = base
<1>1. <<>> \in Seq(E) /\ Places(<<>>) = {}
  BY DEF Places
<1>2. ASSUME NEW none \in Seq(E), Places(none) = {}
      PROVE  FoldOf(op, base, none) = base
  <2>1. \E g \in Tables(A, none) : g[{}] = base /\ FoldOf(op, base, none) = g[Places(none)]
    BY FoldTable
  <2> QED
    BY <1>2, <2>1
<1> QED
  BY <1>1, <1>2

LEMMA FoldAppend ==
  ASSUME NEW A, NEW E, NEW base \in A, NEW op \in Operators(A, E),
         NEW seq \in Seq(E), NEW e \in E
  PROVE  FoldOf(op, base, Append(seq, e)) = op[<<FoldOf(op, base, seq), e>>]
<1> DEFINE n == Len(seq)
           longer == Append(seq, e)
<1>1. /\ n \in Nat /\ Places(seq) = 1..n /\ Places(longer) = 1..(n + 1)
      /\ longer \in Seq(E) /\ longer[n + 1] = e
      /\ \A i \in 1..n : longer[i] = seq[i]
  BY DEF Places
<1>2. \A s \in SUBSET Places(seq) : s \in SUBSET Places(longer)
  <2>1. \A x \in 1..n : x \in 1..(n + 1)
    BY <1>1
  <2> QED
    BY <1>1, <2>1
<1> HIDE DEF n, longer
<1>3. PICK f : /\ IsTable(f, op, base, seq) /\ FoldOf(op, base, seq) = f[Places(seq)]
               /\ \A h : IsTable(h, op, base, seq) => h = f
  BY FoldTable
<1>4. PICK g : IsTable(g, op, base, longer) /\ FoldOf(op, base, longer) = g[Places(longer)]
  BY <1>1, FoldTable
<1> DEFINE h == [s \in SUBSET Places(seq) |-> g[s]]
<1>5. ASSUME NEW s \in SUBSET Places(seq)
      PROVE  h[s] = IF s = {} THEN base ELSE op[<<h[s \ {Max(s)}], seq[Max(s)]>>]
  <2>1. /\ s \in SUBSET Places(longer) /\ s \ {Max(s)} \in SUBSET Places(seq)
        /\ h[s] = g[s] /\ h[s \ {Max(s)}] = g[s \ {Max(s)}]
    BY <1>2
  <2>2. g[s] = IF s = {} THEN base ELSE op[<<g[s \ {Max(s)}], longer[Max(s)]>>]
    BY <2>1, <1>4 DEF IsTable
  <2>3. CASE s # {}
    <3>1. Max(s) \in 1..n
      BY <1>1, <2>3, MaxOf
    <3> QED
      BY <1>1, <2>1, <2>2, <3>1
  <2> QED
    BY <2>1, <2>2, <2>3
<1>6. h = f
  <2>1. IsTable(h, op, base, seq)
    BY <1>5 DEF IsTable
  <2> HIDE DEF h
  <2> QED
    BY <1>3, <2>1
<1>7. Max(1..(n + 1)) = n + 1
  <2> DEFINE m == n + 1
  <2>1. m \in Nat /\ m \in 1..m
    BY <1>1
  <2> HIDE DEF m
  <2>2. Max(1..m) \in 1..m /\ \A x \in 1..m : x <= Max(1..m)
    BY <2>1, MaxOf
  <2>3. Max(1..m) = m
    BY <2>1, <2>2
  <2> QED
    BY <2>3 DEF m
<1>8. (1..(n + 1)) \ {n + 1} = 1..n /\ n + 1 \in 1..(n + 1)
  <2>1. n \in Nat
    BY <1>1
  <2> QED
    BY <2>1
<1>9. g[Places(longer)] = op[<<g[Places(seq)], e>>]
  <2> DEFINE all == Places(longer)
  <2>1. g[all] = IF all = {} THEN base ELSE op[<<g[all \ {Max(all)}], longer[Max(all)]>>]
    BY <1>4 DEF IsTable
  <2> QED
    BY <1>1, <1>7, <1>8, <2>1
<1>10. g[Places(seq)] = f[Places(seq)]
  BY <1>6
<1> QED
  BY <1>3, <1>4, <1>9, <1>10 DEF longer

\* A set of sequences that holds the empty one and, with a sequence, those of
\* one more element holds them all.
LEMMA SequenceInduction ==
  ASSUME NEW E, NEW S, <<>> \in S,
         \A seq \in Seq(E), e \in E : seq \in S => Append(seq, e) \in S
  PROVE  \A seq \in Seq(E) : seq \in S
<1> DEFINE Bad == {n \in Nat : \E seq \in Seq(E) : Len(seq) = n /\ seq \notin S}
<1>1. Bad = {}
  <2> SUFFICES ASSUME Bad # {} PROVE FALSE
    OBVIOUS
  <2>1. Min(Bad) \in Bad /\ \A j \in Bad : Min(Bad) <= j
    <3>1. Bad \in SUBSET Nat
      OBVIOUS
    <3> QED
      BY <3>1, MinOf
  <2>2. PICK seq \in Seq(E) : Len(seq) = Min(Bad) /\ seq \notin S
    BY <2>1
  <2>3. seq # <<>>
    BY <2>2
  <2> DEFINE front == SubSeq(seq, 1, Len(seq) - 1)
             last == seq[Len(seq)]
  <2>4. front \in Seq(E) /\ Len(front) = Len(seq) - 1 /\ last \in E /\ Len(front) \in Nat
    <3> HIDE DEF Bad
    <3>1. Len(seq) \in Nat /\ Len(seq) # 0 /\ \A i \in 1..Len(seq) : seq[i] \in E
      BY <2>3
    <3>2. Len(seq) - 1 \in Nat /\ \A i \in 1..(Len(seq) - 1) : seq[i] \in E
      BY <3>1
    <3> DEFINE k == Len(seq) - 1
    <3> HIDE DEF k
    <3>3. /\ SubSeq(seq, 1, k) \in Seq(E)
          /\ Len(SubSeq(seq, 1, k)) = IF 1 <= k THEN k - 1 + 1 ELSE 0
      <4>1. k \in Int /\ 1 \in Int /\ \A i \in 1..k : seq[i] \in E
        BY <3>2 DEF k
      <4> QED
        BY <4>1, SubSeqProperties
    <3>4. Len(SubSeq(seq, 1, k)) = k
      <4>1. k \in Nat
        BY <3>2 DEF k
      <4> QED
        BY <3>3, <4>1
    <3>5. front \in Seq(E) /\ Len(front) = Len(seq) - 1
      BY <3>3, <3>4 DEF k
    <3> QED
      BY <3>1, <3>2, <3>5
  <2>5. seq = Append(front, last)
    BY <2>3
  <2>6. front \notin S
    BY <2>2, <2>4, <2>5
  <2>7. Len(front) \in Bad
    BY <2>4, <2>6
  <2> QED
    BY <2>1, <2>2, <2>4, <2>7
<1> QED
  BY <1>1

\* The first step of a fold taken by hand.
LEMMA FoldPrepend ==
  ASSUME NEW A, NEW E, NEW base \in A, NEW op \in Operators(A, E),
         NEW e \in E, NEW seq \in Seq(E)
  PROVE  FoldOf(op, base, <<e>> \o seq) = FoldOf(op, op[<<base, e>>], seq)
<1> DEFINE S == {s \in Seq(E) : FoldOf(op, base, <<e>> \o s) = FoldOf(op, op[<<base, e>>], s)}
<1>1. op[<<base, e>>] \in A /\ <<>> \in Seq(E) /\ <<e>> \in Seq(E)
  BY DEF Operators
<1>2. <<>> \in S
  <2>1. <<e>> \o <<>> = Append(<<>>, e)
    OBVIOUS
  <2>2. FoldOf(op, base, Append(<<>>, e)) = op[<<FoldOf(op, base, <<>>), e>>]
    <3>1. PICK none \in Seq(E) : none = <<>>
      BY <1>1
    <3>2. FoldOf(op, base, Append(none, e)) = op[<<FoldOf(op, base, none), e>>]
      BY FoldAppend
    <3> QED
      BY <3>1, <3>2
  <2>3. FoldOf(op, base, <<>>) = base /\ FoldOf(op, op[<<base, e>>], <<>>) = op[<<base, e>>]
    BY <1>1, FoldEmpty
  <2> QED
    BY <1>1, <2>1, <2>2, <2>3
<1>3. ASSUME NEW s \in Seq(E), NEW x \in E, s \in S
      PROVE  Append(s, x) \in S
  <2>1. PICK more \in Seq(E) : more = <<e>> \o s
    BY <1>1, Concatenated
  <2>2. <<e>> \o Append(s, x) = Append(more, x) /\ Append(s, x) \in Seq(E)
    BY <2>1
  <2>3. FoldOf(op, base, Append(more, x)) = op[<<FoldOf(op, base, more), x>>]
    BY FoldAppend
  <2>4. FoldOf(op, op[<<base, e>>], Append(s, x)) = op[<<FoldOf(op, op[<<base, e>>], s), x>>]
    BY <1>1, FoldAppend
  <2>5. FoldOf(op, base, more) = FoldOf(op, op[<<base, e>>], s)
    BY <1>3, <2>1
  <2> QED
    BY <2>2, <2>3, <2>4, <2>5
<1> HIDE DEF S
<1>4. \A s \in Seq(E) : s \in S
  BY <1>2, <1>3, SequenceInduction
<1> QED
  BY <1>4 DEF S

-----------------------------------------------------------------------------
(***************************************************************************)
(* A sum over a set takes its elements in an order nobody fixes: a table   *)
(* of the sums over the subsets, each that over one element less.          *)
(***************************************************************************)
Some(s) == CHOOSE x \in s : TRUE

IsSums(f, v, D) ==
    f = [s \in SUBSET D |-> IF s = {} THEN 0 ELSE v[Some(s)] + f[s \ {Some(s)}]]

SumTable(v, D) == CHOOSE f : IsSums(f, v, D)

SumOver(v, D) == SumTable(v, D)[D]

\* A set of subsets that holds a subset as soon as it holds all that are smaller
\* holds them all.
LEMMA SubsetInduction ==
  ASSUME NEW D, IsFiniteSet(D), NEW S,
         \A s \in SUBSET D : (\A t \in SUBSET s : t # s => t \in S) => s \in S
  PROVE  \A s \in SUBSET D : s \in S
<1> DEFINE Bad == {n \in Nat : \E s \in SUBSET D : Cardinality(s) = n /\ s \notin S}
<1>1. Bad = {}
  <2> SUFFICES ASSUME Bad # {} PROVE FALSE
    OBVIOUS
  <2>1. Min(Bad) \in Bad /\ \A j \in Bad : Min(Bad) <= j
    <3>1. Bad \in SUBSET Nat
      OBVIOUS
    <3> QED
      BY <3>1, MinOf
  <2>2. PICK s \in SUBSET D : Cardinality(s) = Min(Bad) /\ s \notin S
    BY <2>1
  <2>3. PICK t \in SUBSET s : t # s /\ t \notin S
    BY <2>2
  <2>4. IsFiniteSet(s) /\ IsFiniteSet(t)
    BY <2>3, FS_Subset
  <2>5. Cardinality(t) \in Nat /\ Cardinality(s) \in Nat /\ Cardinality(t) < Cardinality(s)
    <3>1. Cardinality(t) <= Cardinality(s) /\ Cardinality(s) # Cardinality(t)
      BY <2>3, <2>4, FS_Subset
    <3>2. Cardinality(t) \in Nat /\ Cardinality(s) \in Nat
      BY <2>4, FS_CardinalityType
    <3> QED
      BY <3>1, <3>2
  <2>6. Cardinality(t) \in Bad
    BY <2>3, <2>5
  <2> QED
    BY <2>1, <2>2, <2>5, <2>6
<1> QED
  <2> SUFFICES ASSUME NEW s \in SUBSET D, s \notin S PROVE FALSE
    OBVIOUS
  <2>1. Cardinality(s) \in Nat
    BY FS_Subset, FS_CardinalityType
  <2>2. Cardinality(s) \in Bad
    BY <2>1
  <2> QED
    BY <1>1, <2>2

LEMMA SomeIn == \A s : s # {} => Some(s) \in s
  BY DEF Some

\* A set of one element less is smaller.
LEMMA OneLess ==
  ASSUME NEW D, NEW s \in SUBSET D, NEW x \in s
  PROVE  s \ {x} \in SUBSET D /\ s \ {x} \in SUBSET s /\ s \ {x} # s
  OBVIOUS

LEMMA SumsExist ==
  ASSUME NEW D, IsFiniteSet(D), NEW v \in [D -> Int]
  PROVE  \E f \in [SUBSET D -> Int] : IsSums(f, v, D)
<1> DEFINE Small(k) == {s \in SUBSET D : Cardinality(s) <= k}
           Upto(k, f) ==
              /\ f \in [Small(k) -> Int]
              /\ \A s \in Small(k) : f[s] = IF s = {} THEN 0 ELSE v[Some(s)] + f[s \ {Some(s)}]
           Bad == {k \in Nat : ~ \E f : Upto(k, f)}
<1>0. ASSUME NEW s \in SUBSET D
      PROVE  /\ Cardinality(s) \in Nat /\ (Cardinality(s) = 0 <=> s = {})
             /\ \A x \in s : Cardinality(s \ {x}) = Cardinality(s) - 1
  <2>1. IsFiniteSet(s)
    BY FS_Subset
  <2> QED
    BY <2>1, FS_CardinalityType, FS_EmptySet, FS_RemoveElement
<1>1. Bad = {}
  <2> SUFFICES ASSUME Bad # {} PROVE FALSE
    OBVIOUS
  <2> DEFINE k == Min(Bad)
  <2>1. k \in Bad /\ \A j \in Bad : k <= j
    <3>1. Bad \in SUBSET Nat
      OBVIOUS
    <3> QED
      BY <3>1, MinOf
  <2> HIDE DEF k
  <2>2. CASE k = 0
    <3>1. \A s \in Small(0) : s = {}
      BY <1>0
    <3>2. Upto(0, [s \in Small(0) |-> 0])
      BY <3>1
    <3> QED
      BY <2>1, <2>2, <3>2
  <2>3. CASE k # 0
    <3>1. k \in Nat /\ k - 1 \in Nat /\ k - 1 \notin Bad
      <4>1. k \in Nat
        BY <2>1
      <4>2. k - 1 \in Nat /\ ~(k <= k - 1)
        BY <4>1, <2>3
      <4> HIDE DEF Bad
      <4> QED
        BY <2>1, <4>1, <4>2
    <3>2. PICK g : Upto(k - 1, g)
      BY <3>1
    <3> DEFINE f == [s \in Small(k) |-> IF s = {} THEN 0 ELSE v[Some(s)] + g[s \ {Some(s)}]]
    <3>3. ASSUME NEW s \in Small(k), s # {}
          PROVE  Some(s) \in s /\ Some(s) \in D /\ s \ {Some(s)} \in Small(k - 1)
      <4>1. Some(s) \in s /\ s \in SUBSET D
        BY <3>3, SomeIn
      <4>2. s \ {Some(s)} \in SUBSET D /\ Cardinality(s \ {Some(s)}) = Cardinality(s) - 1 /\ Cardinality(s) \in Nat
        BY <1>0, <4>1
      <4> QED
        BY <3>1, <4>1, <4>2
    <3>4. \A s \in Small(k - 1) : s \in Small(k) /\ g[s] = f[s] /\ g[s] \in Int
      <4>1. \A s \in Small(k - 1) : s \in Small(k)
        BY <1>0, <3>1
      <4> QED
        BY <3>2, <4>1
    <3>5. \A s \in Small(k) : f[s] \in Int /\ f[s] = IF s = {} THEN 0 ELSE v[Some(s)] + f[s \ {Some(s)}]
      <4>1. ASSUME NEW s \in Small(k), s # {}
            PROVE  f[s] \in Int /\ f[s] = v[Some(s)] + f[s \ {Some(s)}]
        <5>1. /\ g[s \ {Some(s)}] = f[s \ {Some(s)}] /\ g[s \ {Some(s)}] \in Int
              /\ v[Some(s)] \in Int
          BY <3>3, <3>4, <4>1
        <5>2. f[s] = v[Some(s)] + g[s \ {Some(s)}]
          BY <4>1
        <5> HIDE DEF f, Small
        <5> QED
          BY <5>1, <5>2
      <4>2. ASSUME NEW s \in Small(k), s = {}
            PROVE  f[s] \in Int /\ f[s] = 0
        BY <4>2
      <4> HIDE DEF f, Small
      <4>3. ASSUME NEW s \in Small(k)
            PROVE  f[s] \in Int /\ f[s] = IF s = {} THEN 0 ELSE v[Some(s)] + f[s \ {Some(s)}]
        <5>1. CASE s = {}
          BY <4>2, <5>1
        <5>2. CASE s # {}
          BY <4>1, <5>2
        <5> QED
          BY <5>1, <5>2
      <4> QED
        BY <4>3
    <3>6. Upto(k, f)
      <4>1. f = [s \in Small(k) |-> f[s]]
        OBVIOUS
      <4> HIDE DEF f, Small
      <4> QED
        BY <3>5, <4>1
    <3> QED
      BY <2>1, <3>6
  <2> QED
    BY <2>2, <2>3
<1>2. PICK f : Upto(Cardinality(D), f)
  BY <1>0, <1>1
<1>3. Small(Cardinality(D)) = SUBSET D
  <2>1. \A s \in SUBSET D : Cardinality(s) <= Cardinality(D)
    BY FS_Subset
  <2> QED
    BY <2>1
<1> HIDE DEF Small
<1>4. f \in [SUBSET D -> Int]
  BY <1>2, <1>3
<1>5. f = [s \in SUBSET D |-> IF s = {} THEN 0 ELSE v[Some(s)] + f[s \ {Some(s)}]]
  BY <1>2, <1>3, <1>4
<1> QED
  BY <1>4, <1>5 DEF IsSums

LEMMA SumsUnique ==
  ASSUME NEW D, IsFiniteSet(D), NEW v, NEW f, NEW g, IsSums(f, v, D), IsSums(g, v, D)
  PROVE  f = g
<1> DEFINE S == {s \in SUBSET D : f[s] = g[s]}
<1>1. ASSUME NEW s \in SUBSET D
      PROVE  /\ f[s] = IF s = {} THEN 0 ELSE v[Some(s)] + f[s \ {Some(s)}]
             /\ g[s] = IF s = {} THEN 0 ELSE v[Some(s)] + g[s \ {Some(s)}]
  BY DEF IsSums
<1>2. ASSUME NEW s \in SUBSET D, \A t \in SUBSET s : t # s => t \in S
      PROVE  s \in S
  <2>1. CASE s = {}
    BY <1>1, <2>1
  <2>2. CASE s # {}
    <3>1. s \ {Some(s)} \in S
      BY <1>2, <2>2, SomeIn, OneLess
    <3>2. f[s \ {Some(s)}] = g[s \ {Some(s)}]
      BY <3>1
    <3> QED
      BY <1>1, <2>2, <3>2
  <2> QED
    BY <2>1, <2>2
<1>3. \A s \in SUBSET D : s \in S
  <2> HIDE DEF S
  <2> QED
    BY <1>2, SubsetInduction
<1>4. \A s \in SUBSET D : f[s] = g[s]
  BY <1>3
<1>5. f = [s \in SUBSET D |-> f[s]] /\ g = [s \in SUBSET D |-> g[s]]
  BY DEF IsSums
<1> QED
  BY <1>4, <1>5

\* Any element may be the last one added.
AnyLast(f, v, D) == \A s \in SUBSET D : \A x \in s : f[s] = v[x] + f[s \ {x}]

LEMMA SumsTable ==
  ASSUME NEW D, IsFiniteSet(D), NEW v \in [D -> Int]
  PROVE  /\ IsSums(SumTable(v, D), v, D)
         /\ SumTable(v, D) \in [SUBSET D -> Int] /\ SumTable(v, D)[{}] = 0
         /\ AnyLast(SumTable(v, D), v, D)
<1> DEFINE f == SumTable(v, D)
<1>1. PICK g \in [SUBSET D -> Int] : IsSums(g, v, D)
  BY SumsExist
<1>2. IsSums(f, v, D) /\ f = g
  <2>1. IsSums(f, v, D)
    BY <1>1 DEF SumTable
  <2> QED
    BY <1>1, <2>1, SumsUnique
<1> HIDE DEF f
<1>3. f[{}] = 0
  BY <1>2 DEF IsSums
<1>4. \A s \in SUBSET D : s # {} => f[s] = v[Some(s)] + f[s \ {Some(s)}]
  BY <1>2 DEF IsSums
<1>5. f \in [SUBSET D -> Int]
  BY <1>1, <1>2
<1> DEFINE S == {s \in SUBSET D : \A x \in s : f[s] = v[x] + f[s \ {x}]}
<1>6. ASSUME NEW s \in SUBSET D, \A t \in SUBSET s : t # s => t \in S, NEW x \in s
      PROVE  f[s] = v[x] + f[s \ {x}]
  <2>1. PICK y \in s : y = Some(s)
    BY SomeIn
  <2>2. f[s] = v[y] + f[s \ {y}]
    BY <1>4, <2>1
  <2>3. CASE x = y
    BY <2>2, <2>3
  <2>4. CASE x # y
    <3>0. s \ {y} \in S /\ s \ {x} \in S
      <4>1. /\ s \ {y} \in SUBSET s /\ s \ {y} # s
            /\ s \ {x} \in SUBSET s /\ s \ {x} # s
        BY OneLess
      <4> HIDE DEF S
      <4> QED
        BY <1>6, <4>1
    <3>1. /\ s \ {y} \in S /\ x \in s \ {y} /\ s \ {x} \in S /\ y \in s \ {x}
          /\ (s \ {y}) \ {x} = (s \ {x}) \ {y} /\ (s \ {x}) \ {y} \in SUBSET D
      <4> HIDE DEF S
      <4> QED
        BY <2>4, <3>0
    <3>2. f[s \ {y}] = v[x] + f[(s \ {y}) \ {x}] /\ f[s \ {x}] = v[y] + f[(s \ {x}) \ {y}]
      BY <3>1
    <3>3. v[x] \in Int /\ v[y] \in Int /\ f[(s \ {x}) \ {y}] \in Int
      BY <1>5, <3>1
    <3> QED
      BY <2>2, <3>1, <3>2, <3>3
  <2> QED
    BY <2>3, <2>4
<1>7. \A s \in SUBSET D : s \in S
  <2>1. ASSUME NEW s \in SUBSET D, \A t \in SUBSET s : t # s => t \in S
        PROVE  s \in S
    BY <1>6, <2>1
  <2> HIDE DEF S
  <2> QED
    BY <2>1, SubsetInduction
<1>8. AnyLast(f, v, D)
  BY <1>7 DEF AnyLast
<1> QED
  BY <1>2, <1>3, <1>5, <1>8 DEF f

\* The sums over the subsets of a part are those of the whole.
LEMMA SumsAgree ==
  ASSUME NEW D, IsFiniteSet(D), NEW v \in [D -> Int],
         NEW E \in SUBSET D, NEW w \in [E -> Int], \A x \in E : v[x] = w[x]
  PROVE  \A s \in SUBSET E : SumTable(v, D)[s] = SumTable(w, E)[s]
<1> DEFINE f == SumTable(v, D)
           g == SumTable(w, E)
           S == {s \in SUBSET E : f[s] = g[s]}
<1>0. IsFiniteSet(E)
  BY FS_Subset
<1>1. IsSums(f, v, D) /\ IsSums(g, w, E)
  BY <1>0, SumsTable
<1> HIDE DEF f, g
<1>2. ASSUME NEW s \in SUBSET E, \A t \in SUBSET s : t # s => t \in S
      PROVE  s \in S
  <2>1. /\ f[s] = IF s = {} THEN 0 ELSE v[Some(s)] + f[s \ {Some(s)}]
        /\ g[s] = IF s = {} THEN 0 ELSE w[Some(s)] + g[s \ {Some(s)}]
    BY <1>1 DEF IsSums
  <2>2. CASE s = {}
    BY <2>1, <2>2
  <2>3. CASE s # {}
    <3>1. s \ {Some(s)} \in S /\ Some(s) \in E
      BY <1>2, <2>3, SomeIn, OneLess
    <3>2. f[s \ {Some(s)}] = g[s \ {Some(s)}] /\ v[Some(s)] = w[Some(s)]
      BY <3>1
    <3> QED
      BY <2>1, <2>3, <3>2
  <2> QED
    BY <2>2, <2>3
<1>3. \A s \in SUBSET E : s \in S
  <2> HIDE DEF S
  <2> QED
    BY <1>0, <1>2, SubsetInduction
<1> QED
  BY <1>3 DEF f, g

LEMMA SumType ==
  ASSUME NEW D, IsFiniteSet(D), NEW v \in [D -> Int]
  PROVE  SumOver(v, D) \in Int
<1>1. SumTable(v, D) \in [SUBSET D -> Int] /\ D \in SUBSET D
  BY SumsTable
<1> QED
  BY <1>1 DEF SumOver

LEMMA SumEmpty ==
  ASSUME NEW v \in [{} -> Int]
  PROVE  SumOver(v, {}) = 0
  BY SumsTable, FS_EmptySet DEF SumOver

\* One more element adds its value.
LEMMA SumMore ==
  ASSUME NEW D, IsFiniteSet(D), NEW d \in D, NEW v \in [D -> Int],
         NEW w \in [D \ {d} -> Int], \A x \in D \ {d} : v[x] = w[x]
  PROVE  SumOver(v, D) = v[d] + SumOver(w, D \ {d})
<1>1. D \in SUBSET D /\ D \ {d} \in SUBSET D
  OBVIOUS
<1>2. SumTable(v, D)[D] = v[d] + SumTable(v, D)[D \ {d}]
  <2>1. AnyLast(SumTable(v, D), v, D)
    BY SumsTable
  <2> QED
    BY <1>1, <2>1 DEF AnyLast
<1>3. SumTable(v, D)[D \ {d}] = SumTable(w, D \ {d})[D \ {d}]
  BY <1>1, SumsAgree
<1> QED
  BY <1>2, <1>3 DEF SumOver

\* One value changed changes the sum by as much.
LEMMA SumChanged ==
  ASSUME NEW D, IsFiniteSet(D), NEW d \in D, NEW v \in [D -> Int], NEW w \in [D -> Int],
         \A x \in D \ {d} : v[x] = w[x]
  PROVE  SumOver(w, D) = SumOver(v, D) + w[d] - v[d]
<1> DEFINE u == [x \in D \ {d} |-> v[x]]
<1>1. u \in [D \ {d} -> Int] /\ \A x \in D \ {d} : v[x] = u[x] /\ w[x] = u[x]
  OBVIOUS
<1> HIDE DEF u
<1>2. SumOver(v, D) = v[d] + SumOver(u, D \ {d})
  BY <1>1, SumMore
<1>3. SumOver(w, D) = w[d] + SumOver(u, D \ {d})
  BY <1>1, SumMore
<1>4. IsFiniteSet(D \ {d})
  BY FS_RemoveElement
<1>5. SumOver(u, D \ {d}) \in Int /\ v[d] \in Int /\ w[d] \in Int
  BY <1>1, <1>4, SumType
<1> QED
  BY <1>2, <1>3, <1>5

\* A sum of sums is the sum of both.
LEMMA SumPlus ==
  ASSUME NEW D, IsFiniteSet(D), NEW u \in [D -> Int], NEW v \in [D -> Int], NEW w \in [D -> Int],
         \A x \in D : w[x] = u[x] + v[x]
  PROVE  SumOver(w, D) = SumOver(u, D) + SumOver(v, D)
<1> DEFINE f == SumTable(u, D)
           g == SumTable(v, D)
           h == SumTable(w, D)
           S == {s \in SUBSET D : h[s] = f[s] + g[s]}
<1>1. /\ IsSums(f, u, D) /\ IsSums(g, v, D) /\ IsSums(h, w, D)
      /\ f \in [SUBSET D -> Int] /\ g \in [SUBSET D -> Int] /\ h \in [SUBSET D -> Int]
  BY SumsTable
<1> HIDE DEF f, g, h
<1>2. ASSUME NEW s \in SUBSET D, \A t \in SUBSET s : t # s => t \in S
      PROVE  s \in S
  <2>1. /\ f[s] = IF s = {} THEN 0 ELSE u[Some(s)] + f[s \ {Some(s)}]
        /\ g[s] = IF s = {} THEN 0 ELSE v[Some(s)] + g[s \ {Some(s)}]
        /\ h[s] = IF s = {} THEN 0 ELSE w[Some(s)] + h[s \ {Some(s)}]
    BY <1>1 DEF IsSums
  <2>2. CASE s = {}
    BY <2>1, <2>2
  <2>3. CASE s # {}
    <3>1. s \ {Some(s)} \in S /\ Some(s) \in D /\ s \ {Some(s)} \in SUBSET D
      BY <1>2, <2>3, SomeIn, OneLess
    <3>2. h[s \ {Some(s)}] = f[s \ {Some(s)}] + g[s \ {Some(s)}] /\ w[Some(s)] = u[Some(s)] + v[Some(s)]
      BY <3>1
    <3>3. /\ f[s \ {Some(s)}] \in Int /\ g[s \ {Some(s)}] \in Int
          /\ u[Some(s)] \in Int /\ v[Some(s)] \in Int
      BY <1>1, <3>1
    <3>4. h[s] = f[s] + g[s]
      BY <2>1, <2>3, <3>2, <3>3
    <3> QED
      BY <3>4
  <2> QED
    BY <2>2, <2>3
<1>3. \A s \in SUBSET D : s \in S
  <2> HIDE DEF S
  <2> QED
    BY <1>2, SubsetInduction
<1>4. h[D] = f[D] + g[D]
  BY <1>3
<1> QED
  BY <1>4 DEF SumOver, f, g, h

\* Values that are no larger have a sum that is no larger.
LEMMA SumAtMost ==
  ASSUME NEW D, IsFiniteSet(D), NEW v \in [D -> Int], NEW w \in [D -> Int],
         \A x \in D : v[x] <= w[x]
  PROVE  SumOver(v, D) <= SumOver(w, D)
<1> DEFINE f == SumTable(v, D)
           g == SumTable(w, D)
           S == {s \in SUBSET D : f[s] <= g[s]}
<1>1. /\ IsSums(f, v, D) /\ IsSums(g, w, D)
      /\ f \in [SUBSET D -> Int] /\ g \in [SUBSET D -> Int]
  BY SumsTable
<1> HIDE DEF f, g
<1>2. ASSUME NEW s \in SUBSET D, \A t \in SUBSET s : t # s => t \in S
      PROVE  s \in S
  <2>1. /\ f[s] = IF s = {} THEN 0 ELSE v[Some(s)] + f[s \ {Some(s)}]
        /\ g[s] = IF s = {} THEN 0 ELSE w[Some(s)] + g[s \ {Some(s)}]
    BY <1>1 DEF IsSums
  <2>2. CASE s = {}
    BY <2>1, <2>2
  <2>3. CASE s # {}
    <3>1. s \ {Some(s)} \in S /\ Some(s) \in D /\ s \ {Some(s)} \in SUBSET D
      BY <1>2, <2>3, SomeIn, OneLess
    <3>2. f[s \ {Some(s)}] <= g[s \ {Some(s)}] /\ v[Some(s)] <= w[Some(s)]
      BY <3>1
    <3>3. /\ f[s \ {Some(s)}] \in Int /\ g[s \ {Some(s)}] \in Int
          /\ v[Some(s)] \in Int /\ w[Some(s)] \in Int
      BY <1>1, <3>1
    <3>4. f[s] <= g[s]
      BY <2>1, <2>3, <3>2, <3>3
    <3> QED
      BY <3>4
  <2> QED
    BY <2>2, <2>3
<1>3. \A s \in SUBSET D : s \in S
  <2> HIDE DEF S
  <2> QED
    BY <1>2, SubsetInduction
<1>4. f[D] <= g[D]
  BY <1>3
<1> QED
  BY <1>4 DEF SumOver, f, g

\* A sum of nothing but zeros is zero.
LEMMA SumOfNone ==
  ASSUME NEW D, IsFiniteSet(D), NEW v \in [D -> Int], \A x \in D : v[x] = 0
  PROVE  SumOver(v, D) = 0
<1>1. \A x \in D : v[x] = v[x] + v[x]
  OBVIOUS
<1>2. SumOver(v, D) = SumOver(v, D) + SumOver(v, D)
  BY <1>1, SumPlus
<1>3. SumOver(v, D) \in Int
  BY SumType
<1>4. \A a \in Int : a = a + a => a = 0
  OBVIOUS
<1> QED
  BY <1>2, <1>3, <1>4, Zenon

\* A sum may be taken over what stands one to one for its elements.
LEMMA SumReindexed ==
  ASSUME NEW D, IsFiniteSet(D), NEW E, IsFiniteSet(E), NEW h \in [D -> E],
         \A x, y \in D : h[x] = h[y] => x = y, \A z \in E : \E x \in D : h[x] = z,
         NEW v \in [E -> Int], NEW w \in [D -> Int], \A x \in D : w[x] = v[h[x]]
  PROVE  SumOver(w, D) = SumOver(v, E)
<1> DEFINE f == SumTable(w, D)
           g == SumTable(v, E)
           Image(s) == {h[x] : x \in s}
           S == {s \in SUBSET D : f[s] = g[Image(s)]}
<1>1. /\ AnyLast(f, w, D) /\ f[{}] = 0
      /\ AnyLast(g, v, E) /\ g[{}] = 0
  BY SumsTable
<1> HIDE DEF f, g
<1>2. ASSUME NEW s \in SUBSET D, \A t \in SUBSET s : t # s => t \in S
      PROVE  s \in S
  <2>1. CASE s = {}
    <3>1. Image(s) = {}
      BY <2>1
    <3> QED
      BY <1>1, <2>1, <3>1
  <2>2. CASE s # {}
    <3>1. PICK x \in s : TRUE
      BY <2>2
    <3>2. s \ {x} \in S
      <4>1. s \ {x} \in SUBSET s /\ s \ {x} # s
        BY OneLess
      <4> HIDE DEF S
      <4> QED
        BY <1>2, <4>1
    <3>3. Image(s) \in SUBSET E /\ h[x] \in Image(s) /\ Image(s) \ {h[x]} = Image(s \ {x})
      OBVIOUS
    <3>4. f[s] = w[x] + f[s \ {x}]
      BY <1>1 DEF AnyLast
    <3> HIDE DEF Image
    <3>5. g[Image(s)] = v[h[x]] + g[Image(s) \ {h[x]}]
      BY <1>1, <3>3 DEF AnyLast
    <3>6. f[s \ {x}] = g[Image(s \ {x})] /\ w[x] = v[h[x]]
      BY <3>2
    <3> QED
      BY <3>3, <3>4, <3>5, <3>6
  <2> QED
    BY <2>1, <2>2
<1>3. \A s \in SUBSET D : s \in S
  <2> HIDE DEF S
  <2> QED
    BY <1>2, SubsetInduction
<1>4. f[D] = g[Image(D)] /\ Image(D) = E
  <2>1. Image(D) = E
    OBVIOUS
  <2> QED
    BY <1>3, <2>1
<1> QED
  BY <1>4 DEF SumOver, f, g

\* Of some things with a value there is one whose value is least.
LEMMA SomeLeast ==
  ASSUME NEW D, IsFiniteSet(D), D # {}, NEW v \in [D -> Int]
  PROVE  \E x \in D : \A y \in D : v[x] <= v[y]
<1> DEFINE S == {s \in SUBSET D : s # {} => \E x \in s : \A y \in s : v[x] <= v[y]}
<1>1. ASSUME NEW s \in SUBSET D, \A t \in SUBSET s : t # s => t \in S
      PROVE  s \in S
  <2> SUFFICES ASSUME s # {} PROVE \E x \in s : \A y \in s : v[x] <= v[y]
    OBVIOUS
  <2>1. PICK z \in s : TRUE
    OBVIOUS
  <2>2. s \ {z} \in S
    <3>1. s \ {z} \in SUBSET s /\ s \ {z} # s
      BY OneLess
    <3> HIDE DEF S
    <3> QED
      BY <1>1, <3>1
  <2>3. CASE s \ {z} = {}
    <3>1. \A y \in s : y = z
      BY <2>3
    <3>2. v[z] \in Int
      OBVIOUS
    <3> QED
      BY <3>1, <3>2
  <2>4. CASE s \ {z} # {}
    <3>1. PICK x \in s \ {z} : \A y \in s \ {z} : v[x] <= v[y]
      BY <2>2, <2>4
    <3>2. \A y \in s : v[y] \in Int
      OBVIOUS
    <3>3. CASE v[x] <= v[z]
      <4>1. \A y \in s : v[x] <= v[y]
        BY <3>1, <3>3
      <4> QED
        BY <4>1
    <3>4. CASE v[z] <= v[x]
      <4>1. ASSUME NEW y \in s
            PROVE  v[z] <= v[y]
        BY <3>1, <3>2, <3>4
      <4> QED
        BY <4>1
    <3> QED
      BY <3>2, <3>3, <3>4
  <2> QED
    BY <2>3, <2>4
<1>2. \A s \in SUBSET D : s \in S
  <2> HIDE DEF S
  <2> QED
    BY <1>1, SubsetInduction
<1>3. D \in S
  BY <1>2
<1> QED
  BY <1>3

-----------------------------------------------------------------------------
(* Numbers: the less and the more of two, whole groups, induction. *)

LEMMA MinOfTwo ==
  ASSUME NEW a \in Int, NEW b \in Int
  PROVE  Min({a, b}) = IF a <= b THEN a ELSE b
<1>1. \E x \in {a, b} : \A y \in {a, b} : x <= y
  OBVIOUS
<1> QED
  BY <1>1 DEF Min

LEMMA MaxOfTwo ==
  ASSUME NEW a \in Int, NEW b \in Int
  PROVE  Max({a, b}) = IF a >= b THEN a ELSE b
<1>1. \E x \in {a, b} : \A y \in {a, b} : x >= y
  OBVIOUS
<1> QED
  BY <1>1 DEF Max

\* Whole groups and what is left over.
DividedInto(n, g, q, r) == q = n \div g /\ r = n % g

Grouped(n, g, q, r) == q \in Int /\ r \in Int /\ n = g * q + r /\ 0 <= r /\ r < g

LEMMA DivMod ==
  ASSUME NEW n \in Int, NEW g \in Nat \ {0}, NEW q, NEW r
  PROVE  DividedInto(n, g, q, r) <=> Grouped(n, g, q, r)
<1>1. ASSUME DividedInto(n, g, q, r) PROVE Grouped(n, g, q, r)
  BY <1>1 DEF DividedInto, Grouped
<1>2. ASSUME Grouped(n, g, q, r) PROVE DividedInto(n, g, q, r)
  BY <1>2 DEF DividedInto, Grouped
<1> QED
  BY <1>1, <1>2

LEMMA GroupsExist ==
  ASSUME NEW n \in Nat, NEW g \in Nat \ {0}
  PROVE  Grouped(n, g, n \div g, n % g)
<1>1. DividedInto(n, g, n \div g, n % g)
  BY DEF DividedInto
<1> QED
  BY <1>1, DivMod

LEMMA TimesMore ==
  ASSUME NEW a \in Nat, NEW b \in Int, NEW c \in Int, b <= c
  PROVE  a * b <= a * c
  OBVIOUS

LEMMA PercentOfWhole ==
  ASSUME NEW a \in Nat, NEW k \in 0..100
  PROVE (a * k) \div 100 \in Int /\ 0 <= (a * k) \div 100 /\ (a * k) \div 100 <= a
  OBVIOUS

LEMMA NumberInduction ==
  ASSUME NEW S, 0 \in S, \A n \in Nat : n \in S => n + 1 \in S
  PROVE  \A n \in Nat : n \in S
<1> DEFINE Bad == {n \in Nat : n \notin S}
<1>1. Bad = {}
  <2> SUFFICES ASSUME Bad # {} PROVE FALSE
    OBVIOUS
  <2>1. Min(Bad) \in Bad /\ \A j \in Bad : Min(Bad) <= j
    <3>1. Bad \in SUBSET Nat
      OBVIOUS
    <3> QED
      BY <3>1, MinOf
  <2> DEFINE m == Min(Bad)
  <2> HIDE DEF m
  <2>2. m \in Nat /\ m \notin S /\ \A j \in Nat : j \notin S => m <= j
    BY <2>1 DEF m
  <2>3. m # 0 /\ m - 1 \in Nat /\ (m - 1) + 1 = m
    BY <2>2
  <2>4. m - 1 \in S
    BY <2>2, <2>3
  <2> QED
    BY <2>2, <2>3, <2>4
<1> QED
  BY <1>1

LEMMA MinOfOne == \A i \in Int : Min({i}) = i
<1> SUFFICES ASSUME NEW i \in Int PROVE Min({i}) = i
  OBVIOUS
<1> QED
  BY MinOfTwo

-----------------------------------------------------------------------------
\* An order that tells any two elements apart.
StrictOrder(R, S) ==
    /\ \A x \in S : <<x, x>> \notin R
    /\ \A x, y, z \in S : <<x, y>> \in R /\ <<y, z>> \in R => <<x, z>> \in R
    /\ \A x, y \in S : x = y \/ <<x, y>> \in R \/ <<y, x>> \in R

\* Every element of S once, each before those that R puts behind it.
Sorts(s, S, R) ==
    /\ Cardinality(S) \in Nat
    /\ s \in [1..Cardinality(S) -> S]
    /\ \A x \in S : \E k \in 1..Cardinality(S) : s[k] = x
    /\ \A j, k \in 1..Cardinality(S) : <<s[j], s[k]>> \in R <=> j < k
    /\ \A j, k \in 1..Cardinality(S) : s[j] = s[k] => j = k

\* In a strict order the k-th element is the one behind k - 1 others.
LEMMA SortedBySorts ==
  ASSUME NEW S, IsFiniteSet(S), NEW R, StrictOrder(R, S)
  PROVE  Sorts(SortedBy(S, R), S, R)
<1> DEFINE n == Cardinality(S)
           ahead(x) == {y \in S : <<y, x>> \in R}
           rank == [x \in S |-> Cardinality(ahead(x))]
           s == SortedBy(S, R)
<1>1. n \in Nat /\ IsFiniteSet(0..(n - 1)) /\ Cardinality(0..(n - 1)) = n
  <2>1. n \in Nat
    BY FS_CardinalityType
  <2> QED
    BY <2>1, FS_Interval
<1>2. ASSUME NEW x \in S
      PROVE  IsFiniteSet(ahead(x)) /\ rank[x] = Cardinality(ahead(x)) /\ rank[x] \in 0..(n - 1)
  <2>1. ahead(x) \in SUBSET S /\ ahead(x) # S
    BY DEF StrictOrder
  <2>2. IsFiniteSet(ahead(x)) /\ Cardinality(ahead(x)) <= n /\ Cardinality(ahead(x)) # n
    BY <2>1, FS_Subset
  <2>3. Cardinality(ahead(x)) \in Nat
    BY <2>2, FS_CardinalityType
  <2> QED
    BY <1>1, <2>2, <2>3
<1> HIDE DEF rank, ahead
<1>3. ASSUME NEW x \in S, NEW y \in S, <<x, y>> \in R
      PROVE  rank[x] < rank[y]
  <2>0. \A z \in S : <<z, x>> \in R => <<z, y>> \in R
    BY <1>3 DEF StrictOrder
  <2>01. x \in ahead(y) /\ x \notin ahead(x)
    BY <1>3 DEF StrictOrder, ahead
  <2>1. ahead(x) \in SUBSET ahead(y) /\ ahead(x) # ahead(y)
    <3>1. \A z \in ahead(x) : z \in ahead(y)
      BY <2>0 DEF ahead
    <3> QED
      BY <2>01, <3>1
  <2>2. Cardinality(ahead(x)) <= Cardinality(ahead(y)) /\ Cardinality(ahead(x)) # Cardinality(ahead(y))
    BY <1>2, <2>1, FS_Subset
  <2>3. /\ rank[x] = Cardinality(ahead(x)) /\ rank[y] = Cardinality(ahead(y))
        /\ rank[x] \in Int /\ rank[y] \in Int
    BY <1>1, <1>2
  <2> QED
    BY <2>2, <2>3
<1>4. ASSUME NEW x \in S, NEW y \in S
      PROVE  <<x, y>> \in R <=> rank[x] < rank[y]
  <2>1. CASE x = y
    <3>1. rank[x] \in Int /\ <<x, x>> \notin R
      BY <1>1, <1>2 DEF StrictOrder
    <3> QED
      BY <2>1, <3>1
  <2>2. CASE <<x, y>> \in R
    BY <1>3, <2>2
  <2>3. CASE <<y, x>> \in R
    <3>1. rank[y] < rank[x]
      BY <1>3, <2>3
    <3>2. ~(rank[x] < rank[y])
      <4>1. rank[x] \in Int /\ rank[y] \in Int
        BY <1>1, <1>2
      <4> QED
        BY <3>1, <4>1
    <3> QED
      BY <1>3, <3>2
  <2> QED
    BY <2>1, <2>2, <2>3 DEF StrictOrder
<1>5. ASSUME NEW x \in S, NEW y \in S, rank[x] = rank[y]
      PROVE  x = y
  <2>1. ~(rank[x] < rank[y]) /\ ~(rank[y] < rank[x])
    BY <1>2, <1>5
  <2> QED
    BY <1>4, <2>1 DEF StrictOrder
<1>6. ASSUME NEW k \in 0..(n - 1)
      PROVE  \E x \in S : rank[x] = k
  <2>1. rank \in Injection(S, 0..(n - 1))
    <3>1. rank \in [S -> 0..(n - 1)]
      BY <1>2 DEF rank
    <3> QED
      BY <1>5, <3>1 DEF Injection, IsInjective
  <2>2. rank \in Surjection(S, 0..(n - 1))
    BY <1>1, <2>1, FS_Injection
  <2> QED
    BY <2>2 DEF Surjection
<1>7. s = [k \in 1..n |-> CHOOSE x \in S : Cardinality(ahead(x)) = k - 1]
  BY DEF SortedBy, ahead
<1>8. ASSUME NEW k \in 1..n
      PROVE  s[k] \in S /\ rank[s[k]] = k - 1
  <2>1. k - 1 \in 0..(n - 1)
    BY <1>1
  <2>2. PICK x \in S : rank[x] = k - 1
    BY <1>6, <2>1
  <2>3. Cardinality(ahead(x)) = k - 1
    BY <1>2, <2>2
  <2>4. s[k] = CHOOSE y \in S : Cardinality(ahead(y)) = k - 1
    BY <1>7
  <2> HIDE DEF s
  <2>5. s[k] \in S /\ Cardinality(ahead(s[k])) = k - 1
    BY <2>3, <2>4
  <2> QED
    BY <1>2, <2>5
<1> HIDE DEF s
<1>9. s \in [1..n -> S]
  BY <1>7, <1>8
<1>10. ASSUME NEW x \in S PROVE \E k \in 1..n : s[k] = x
  <2>1. rank[x] \in 0..(n - 1) /\ rank[x] + 1 \in 1..n /\ (rank[x] + 1) - 1 = rank[x]
    BY <1>1, <1>2
  <2>2. s[rank[x] + 1] \in S /\ rank[s[rank[x] + 1]] = rank[x]
    BY <1>8, <2>1
  <2> QED
    BY <1>5, <2>1, <2>2
<1>11. ASSUME NEW j \in 1..n, NEW k \in 1..n
       PROVE  (<<s[j], s[k]>> \in R <=> j < k) /\ (s[j] = s[k] => j = k)
  <2>1. s[j] \in S /\ s[k] \in S /\ rank[s[j]] = j - 1 /\ rank[s[k]] = k - 1
    BY <1>8
  <2> QED
    BY <1>1, <1>4, <2>1
<1> QED
  BY <1>1, <1>9, <1>10, <1>11 DEF Sorts, s

Climbs(s, n) == \A j, k \in 1..n : s[j] < s[k] <=> j < k

\* A finite set of numbers from the least to the greatest.
LEMMA AscendingSorts ==
  ASSUME NEW S \in SUBSET Int, IsFiniteSet(S)
  PROVE  /\ Sorts(Ascending(S), S, {p \in S \X S : p[1] < p[2]})
         /\ Climbs(Ascending(S), Cardinality(S))
<1> DEFINE R == {p \in S \X S : p[1] < p[2]}
<1>1. \A x, y \in S : <<x, y>> \in R <=> x < y
  OBVIOUS
<1>2. StrictOrder(R, S)
  <2> HIDE DEF R
  <2> QED
    BY <1>1 DEF StrictOrder
<1>3. Sorts(Ascending(S), S, R)
  BY <1>2, SortedBySorts DEF Ascending
<1> HIDE DEF R
<1> QED
  BY <1>1, <1>3 DEF Sorts, Climbs, R

\* The places of seq that hold an element of P, in order.
KeptPlaces(at, n, seq, P) ==
    /\ n \in Nat
    /\ at \in [1..n -> DOMAIN seq]
    /\ Climbs(at, n)
    /\ \A k \in 1..n : seq[at[k]] \in P
    /\ \A i \in DOMAIN seq : seq[i] \in P => \E k \in 1..n : at[k] = i

\* f has what seq has at those places, and nothing else.
IsFiltered(f, seq, P, T) ==
    \E n \in Nat : \E at \in [1..n -> DOMAIN seq] :
        /\ KeptPlaces(at, n, seq, P)
        /\ f = [k \in 1..n |-> seq[at[k]]] /\ f \in Seq(T) /\ Len(f) = n /\ DOMAIN f = 1..n

\* A filter keeps the elements of P, in the order they had.
LEMMA FilteredKeeps ==
  ASSUME NEW T, NEW seq \in Seq(T), NEW P
  PROVE  IsFiltered(Filtered(seq, P), seq, P, T)
<1> DEFINE S == {i \in DOMAIN seq : seq[i] \in P}
           at == Ascending(S)
           n == Cardinality(S)
<1>1. DOMAIN seq = 1..Len(seq) /\ Len(seq) \in Nat
  OBVIOUS
<1>2. IsFiniteSet(S) /\ S \in SUBSET Int
  <2>1. IsFiniteSet(DOMAIN seq) /\ S \in SUBSET (DOMAIN seq)
    BY <1>1, FS_Interval
  <2> QED
    BY <1>1, <2>1, FS_Subset
<1>3. Sorts(at, S, {p \in S \X S : p[1] < p[2]}) /\ Climbs(at, n)
  BY <1>2, AscendingSorts
<1>4. n \in Nat /\ at \in [1..n -> S] /\ \A x \in S : \E k \in 1..n : at[k] = x
  BY <1>3 DEF Sorts
<1>5. Filtered(seq, P) = [k \in 1..n |-> seq[at[k]]]
  BY <1>4 DEF Filtered
<1> HIDE DEF at, n
<1>6. KeptPlaces(at, n, seq, P) /\ at \in [1..n -> DOMAIN seq]
  BY <1>3, <1>4 DEF KeptPlaces
<1>7. \A k \in 1..n : seq[at[k]] \in T
  BY <1>6, <1>1
<1>8. Filtered(seq, P) \in Seq(T) /\ Len(Filtered(seq, P)) = n /\ DOMAIN Filtered(seq, P) = 1..n
  BY <1>4, <1>5, <1>7
<1> QED
  BY <1>4, <1>5, <1>6, <1>8 DEF IsFiltered

\* What is reached from a by one step after another, for ever.
Steps(f, a, step) == f[0] = a /\ \A n \in Nat : f[n + 1] = step[f[n]]

StepsTo(g, n, S, a, step) ==
    g \in [0..n -> S] /\ g[0] = a /\ \A k \in 0..n : k + 1 <= n => g[k + 1] = step[g[k]]

LEMMA StepsExist ==
  ASSUME NEW S, NEW a \in S, NEW step \in [S -> S]
  PROVE  \E f \in [Nat -> S] : Steps(f, a, step)
<1> DEFINE Reached == {n \in Nat : \E g : StepsTo(g, n, S, a, step)}
<1>1. \A n \in Nat : n \in Reached
  <2>1. 0 \in Reached
    <3> DEFINE g == [k \in 0..0 |-> a]
    <3>1. StepsTo(g, 0, S, a, step)
      BY DEF StepsTo
    <3> QED
      BY <3>1
  <2>2. ASSUME NEW n \in Nat, n \in Reached
        PROVE  n + 1 \in Reached
    <3>1. PICK g : StepsTo(g, n, S, a, step)
      BY <2>2
    <3> DEFINE h == [k \in 0..(n + 1) |-> IF k <= n THEN g[k] ELSE step[g[n]]]
    <3>2. g \in [0..n -> S] /\ g[n] \in S /\ step[g[n]] \in S
      BY <3>1 DEF StepsTo
    <3>3. h \in [0..(n + 1) -> S] /\ h[0] = a
      BY <3>1, <3>2 DEF StepsTo
    <3>4. \A k \in 0..(n + 1) : k + 1 <= n + 1 => h[k + 1] = step[h[k]]
      <4> SUFFICES ASSUME NEW k \in 0..(n + 1), k + 1 <= n + 1 PROVE h[k + 1] = step[h[k]]
        OBVIOUS
      <4>1. k \in 0..n /\ h[k] = g[k]
        OBVIOUS
      <4>2. CASE k = n
        BY <4>1, <4>2
      <4>3. CASE k # n
        <5>1. k + 1 \in 0..n /\ h[k + 1] = g[k + 1]
          BY <4>1, <4>3
        <5> QED
          BY <3>1, <4>1, <5>1 DEF StepsTo
      <4> QED
        BY <4>2, <4>3
    <3> HIDE DEF h
    <3>5. StepsTo(h, n + 1, S, a, step)
      BY <3>3, <3>4 DEF StepsTo
    <3> QED
      BY <3>5
  <2> HIDE DEF Reached
  <2> QED
    BY <2>1, <2>2, NumberInduction
<1> DEFINE G(n) == CHOOSE g : StepsTo(g, n, S, a, step)
           f == [n \in Nat |-> G(n)[n]]
<1>2. ASSUME NEW n \in Nat PROVE StepsTo(G(n), n, S, a, step)
  <2>1. \E g : StepsTo(g, n, S, a, step)
    BY <1>1
  <2> QED
    BY <2>1, Zenon
<1> HIDE DEF G
<1>3. ASSUME NEW n \in Nat
      PROVE  \A k \in Nat : k <= n => G(n)[k] = G(n + 1)[k]
  <2> DEFINE Same == {k \in Nat : k <= n => G(n)[k] = G(n + 1)[k]}
  <2>0. StepsTo(G(n), n, S, a, step) /\ StepsTo(G(n + 1), n + 1, S, a, step)
    BY <1>2
  <2>1. 0 \in Same
    BY <2>0 DEF StepsTo
  <2>2. ASSUME NEW k \in Nat, k \in Same
        PROVE  k + 1 \in Same
    <3> SUFFICES ASSUME k + 1 <= n PROVE G(n)[k + 1] = G(n + 1)[k + 1]
      OBVIOUS
    <3>1. k \in 0..n /\ k \in 0..(n + 1) /\ k + 1 <= n + 1 /\ k <= n
      OBVIOUS
    <3>2. G(n)[k + 1] = step[G(n)[k]] /\ G(n + 1)[k + 1] = step[G(n + 1)[k]]
      BY <2>0, <3>1 DEF StepsTo
    <3> QED
      BY <2>2, <3>1, <3>2
  <2> HIDE DEF Same
  <2>3. \A k \in Nat : k \in Same
    BY <2>1, <2>2, NumberInduction
  <2> QED
    BY <2>3 DEF Same
<1>4. f \in [Nat -> S]
  <2>1. \A n \in Nat : G(n)[n] \in S
    BY <1>2 DEF StepsTo
  <2> QED
    BY <2>1
<1>5. f[0] = a
  BY <1>2 DEF StepsTo
<1>6. ASSUME NEW n \in Nat PROVE f[n + 1] = step[f[n]]
  <2>1. G(n + 1)[n + 1] = step[G(n + 1)[n]]
    <3>1. n \in 0..(n + 1) /\ n + 1 <= n + 1
      OBVIOUS
    <3> QED
      BY <1>2, <3>1 DEF StepsTo
  <2>2. G(n + 1)[n] = G(n)[n]
    BY <1>3
  <2> QED
    BY <2>1, <2>2
<1> QED
  BY <1>4, <1>5, <1>6 DEF Steps

\* The least and the greatest of finitely many numbers.
LEMMA Extremes ==
  ASSUME NEW D, IsFiniteSet(D), D # {}, NEW v \in [D -> Int]
  PROVE  LET values == {v[i] : i \in D} IN
         /\ Min(values) \in Int /\ (\E i \in D : v[i] = Min(values)) /\ (\A i \in D : Min(values) <= v[i])
         /\ Max(values) \in Int /\ (\E i \in D : v[i] = Max(values)) /\ (\A i \in D : v[i] <= Max(values))
<1> DEFINE values == {v[i] : i \in D}
           u == [i \in D |-> -v[i]]
<1>1. PICK x \in D : \A y \in D : v[x] <= v[y]
  BY SomeLeast
<1>2. Min(values) \in values /\ \A y \in values : Min(values) <= y
  <2>1. v[x] \in values /\ \A y \in values : v[x] <= y
    BY <1>1
  <2> HIDE DEF values
  <2> QED
    BY <2>1 DEF Min
<1>3. PICK z \in D : \A y \in D : v[y] <= v[z]
  <2>1. u \in [D -> Int]
    OBVIOUS
  <2>2. PICK z \in D : \A y \in D : u[z] <= u[y]
    BY <2>1, SomeLeast
  <2>3. \A y \in D : v[y] <= v[z]
    BY <2>2
  <2> QED
    BY <2>3
<1>4. Max(values) \in values /\ \A y \in values : y <= Max(values)
  <2>1. v[z] \in values /\ \A y \in values : y <= v[z]
    BY <1>3
  <2> HIDE DEF values
  <2> QED
    BY <2>1 DEF Max
<1> QED
  BY <1>2, <1>4

LEMMA SumOfSame ==
  ASSUME NEW c \in Int, NEW n \in Nat
  PROVE  SumOver([i \in 1..n |-> c], 1..n) = c * n
<1> DEFINE same(m) == [i \in 1..m |-> c]
           S == {m \in Nat : SumOver(same(m), 1..m) = c * m}
<1>1. 0 \in S
  <2>1. 1..0 = {} /\ c * 0 = 0 /\ same(0) \in [{} -> Int]
    OBVIOUS
  <2> QED
    BY <2>1, SumEmpty
<1>2. ASSUME NEW m \in Nat, m \in S
      PROVE  m + 1 \in S
  <2>1. IsFiniteSet(1..(m + 1)) /\ m + 1 \in 1..(m + 1) /\ (1..(m + 1)) \ {m + 1} = 1..m
    BY FS_Interval
  <2>2. same(m + 1) \in [1..(m + 1) -> Int] /\ same(m) \in [1..m -> Int]
        /\ same(m + 1)[m + 1] = c /\ \A i \in 1..m : same(m + 1)[i] = same(m)[i]
    OBVIOUS
  <2> HIDE DEF same
  <2>3. SumOver(same(m + 1), 1..(m + 1)) = c + SumOver(same(m), 1..m)
    BY <2>1, <2>2, SumMore
  <2>4. SumOver(same(m + 1), 1..(m + 1)) = c + c * m
    BY <1>2, <2>3
  <2>5. c + c * m = c * (m + 1)
    OBVIOUS
  <2> QED
    BY <2>4, <2>5
<1> HIDE DEF S
<1>3. \A m \in Nat : m \in S
  BY <1>1, <1>2, NumberInduction
<1> QED
  BY <1>3 DEF S

\* A sum lies between its least and its greatest term, taken as often.
LEMMA SumWithin ==
  ASSUME NEW n \in Nat, NEW v \in [1..n -> Int], NEW a \in Int, NEW b \in Int,
         \A i \in 1..n : a <= v[i] /\ v[i] <= b
  PROVE  a * n <= SumOver(v, 1..n) /\ SumOver(v, 1..n) <= b * n
<1>1. IsFiniteSet(1..n)
  BY FS_Interval
<1>2. SumOver([i \in 1..n |-> a], 1..n) <= SumOver(v, 1..n)
  <2> DEFINE u == [i \in 1..n |-> a]
  <2>1. u \in [1..n -> Int] /\ \A i \in 1..n : u[i] <= v[i]
    OBVIOUS
  <2> HIDE DEF u
  <2>2. SumOver(u, 1..n) <= SumOver(v, 1..n)
    BY <1>1, <2>1, SumAtMost
  <2> QED
    BY <2>2 DEF u
<1>3. SumOver(v, 1..n) <= SumOver([i \in 1..n |-> b], 1..n)
  <2> DEFINE u == [i \in 1..n |-> b]
  <2>1. u \in [1..n -> Int] /\ \A i \in 1..n : v[i] <= u[i]
    OBVIOUS
  <2> HIDE DEF u
  <2>2. SumOver(v, 1..n) <= SumOver(u, 1..n)
    BY <1>1, <2>1, SumAtMost
  <2> QED
    BY <2>2 DEF u
<1> QED
  BY <1>2, <1>3, SumOfSame

\* t is s with one element more, v, behind p others.
GrownAt(t, s, p, v, S) ==
    /\ t \in Seq(S) /\ Len(t) = Len(s) + 1
    /\ \A j \in 1..(Len(s) + 1) : t[j] = IF j <= p THEN s[j] ELSE IF j = p + 1 THEN v ELSE s[j - 1]

LEMMA InsertAtGrows ==
  ASSUME NEW S, NEW s \in Seq(S), NEW v \in S, NEW p \in 0..Len(s)
  PROVE  GrownAt(InsertAt(s, p + 1, v), s, p, v, S)
<1> DEFINE n == Len(s)
           a == SubSeq(s, 1, p)
           b == SubSeq(s, p + 1, n)
<1>1. n \in Nat /\ p \in Int /\ 0 <= p /\ p <= n /\ \A i \in 1..n : s[i] \in S
  OBVIOUS
<1>2. a \in Seq(S) /\ Len(a) = p /\ \A j \in 1..p : a[j] = s[j]
  <2>1. \A i \in 1..p : s[i] \in S
    BY <1>1
  <2>2. /\ SubSeq(s, 1, p) \in Seq(S)
        /\ Len(SubSeq(s, 1, p)) = IF 1 <= p THEN p - 1 + 1 ELSE 0
        /\ \A j \in 1..(p - 1 + 1) : SubSeq(s, 1, p)[j] = s[1 + j - 1]
    BY <1>1, <2>1, SubSeqProperties
  <2> QED
    BY <1>1, <2>2
<1>3. b \in Seq(S) /\ Len(b) = n - p /\ \A j \in 1..(n - p) : b[j] = s[p + j]
  <2>1. \A i \in (p + 1)..n : s[i] \in S
    BY <1>1
  <2>2. /\ SubSeq(s, p + 1, n) \in Seq(S)
        /\ Len(SubSeq(s, p + 1, n)) = IF p + 1 <= n THEN n - (p + 1) + 1 ELSE 0
        /\ \A j \in 1..(n - (p + 1) + 1) : SubSeq(s, p + 1, n)[j] = s[p + 1 + j - 1]
    BY <1>1, <2>1, SubSeqProperties
  <2> QED
    BY <1>1, <2>2
<1>4. InsertAt(s, p + 1, v) = (a \o <<v>>) \o b
  <2>1. (p + 1) - 1 = p
    BY <1>1
  <2> QED
    BY <2>1 DEF InsertAt
<1> HIDE DEF a, b
<1> DEFINE u == a \o <<v>>
<1>5. u \in Seq(S) /\ Len(u) = p + 1 /\ \A j \in 1..(p + 1) : u[j] = IF j <= p THEN s[j] ELSE v
  BY <1>1, <1>2
<1> HIDE DEF u
<1> DEFINE t == u \o b
<1>6. /\ t \in Seq(S) /\ Len(t) = n + 1
      /\ \A j \in 1..(n + 1) : t[j] = IF j <= p + 1 THEN u[j] ELSE b[j - (p + 1)]
  <2>1. Len(u) + Len(b) = n + 1
    BY <1>1, <1>3, <1>5
  <2>2. /\ u \o b \in Seq(S) /\ Len(u \o b) = Len(u) + Len(b)
        /\ \A j \in 1..(Len(u) + Len(b)) : (u \o b)[j] = IF j <= Len(u) THEN u[j] ELSE b[j - Len(u)]
    BY <1>3, <1>5, ConcatProperties
  <2> HIDE DEF n
  <2> QED
    BY <1>5, <2>1, <2>2, Zenon
<1> HIDE DEF t, n
<1>7. ASSUME NEW j \in 1..(n + 1)
      PROVE  t[j] = IF j <= p THEN s[j] ELSE IF j = p + 1 THEN v ELSE s[j - 1]
  <2>1. CASE j <= p + 1
    BY <1>1, <1>5, <1>6, <2>1
  <2>2. CASE j > p + 1
    <3>1. j - (p + 1) \in 1..(n - p) /\ p + (j - (p + 1)) = j - 1
      BY <1>1, <2>2
    <3>2. b[j - (p + 1)] = s[j - 1]
      BY <1>3, <3>1
    <3> QED
      BY <1>1, <1>6, <2>2, <3>2
  <2> QED
    BY <1>1, <2>1, <2>2
<1> QED
  <2>1. InsertAt(s, p + 1, v) = t
    BY <1>4 DEF t, u
  <2> QED
    BY <1>6, <1>7, <2>1 DEF GrownAt, n

LEMMA EndsGrow ==
  ASSUME NEW S, NEW s \in Seq(S), NEW v \in S
  PROVE  /\ GrownAt(<<v>> \o s, s, 0, v, S)
         /\ GrownAt(Append(s, v), s, Len(s), v, S)
<1>1. GrownAt(<<v>> \o s, s, 0, v, S)
  BY DEF GrownAt
<1>2. GrownAt(Append(s, v), s, Len(s), v, S)
  BY DEF GrownAt
<1> QED
  BY <1>1, <1>2

\* What climbs through a whole range takes it one by one.
LEMMA ClimbsThrough ==
  ASSUME NEW n \in Nat, NEW a \in Int, NEW b \in Int, a <= b + 1, NEW at \in [1..n -> a..b],
         Climbs(at, n), \A x \in a..b : \E k \in 1..n : at[k] = x
  PROVE  n = b - a + 1 /\ \A k \in 1..n : at[k] = a + k - 1
<1>1. \A j, k \in 1..n : at[j] = at[k] => j = k
  <2> SUFFICES ASSUME NEW j \in 1..n, NEW k \in 1..n, at[j] = at[k] PROVE j = k
    OBVIOUS
  <2>1. at[j] \in Int
    OBVIOUS
  <2>2. ~(j < k) /\ ~(k < j)
    BY <2>1 DEF Climbs
  <2> QED
    BY <2>2
<1>2. ASSUME NEW m \in 0..n, NEW e \in Int, a <= e + 1, e <= b,
             \A k \in 1..n : k <= m <=> at[k] <= e
      PROVE  m = e - a + 1
  <2> DEFINE f == [k \in 1..m |-> at[k]]
  <2>1. m \in Nat /\ \A k \in 1..m : k \in 1..n
    OBVIOUS
  <2>2. \A k \in 1..m : f[k] = at[k] /\ at[k] \in a..e
    BY <1>2, <2>1
  <2>3. f \in [1..m -> a..e]
    BY <2>2
  <2>4. ASSUME NEW x \in a..e PROVE \E k \in 1..m : f[k] = x
    <3>1. x \in a..b
      BY <1>2
    <3>2. PICK k \in 1..n : at[k] = x
      BY <3>1
    <3>3. k \in 1..m
      BY <1>2, <3>2
    <3> QED
      BY <2>2, <3>2, <3>3
  <2>5. \A j, k \in 1..m : f[j] = f[k] => j = k
    BY <1>1, <2>1, <2>2
  <2> HIDE DEF f
  <2>6. f \in Bijection(1..m, a..e)
    BY <2>3, <2>4, <2>5 DEF Bijection, Injection, Surjection, IsInjective
  <2>7. IsFiniteSet(a..e) /\ Cardinality(a..e) = IF a > e THEN 0 ELSE e - a + 1
    BY FS_Interval
  <2>8. Cardinality(a..e) = m
    <3>1. ExistsBijection(1..m, a..e)
      BY <2>6 DEF ExistsBijection
    <3> QED
      BY <2>1, <2>7, <3>1, FS_CountingElements
  <2> QED
    BY <1>2, <2>1, <2>7, <2>8
<1>3. n = b - a + 1
  <2>1. n \in 0..n /\ \A k \in 1..n : k <= n <=> at[k] <= b
    OBVIOUS
  <2>2. b <= b
    OBVIOUS
  <2> QED
    BY <1>2, <2>1, <2>2
<1>4. ASSUME NEW k \in 1..n PROVE at[k] = a + k - 1
  <2>1. at[k] \in a..b
    OBVIOUS
  <2>2. \A j \in 1..n : j <= k - 1 <=> at[j] <= at[k] - 1
    <3> SUFFICES ASSUME NEW j \in 1..n PROVE j <= k - 1 <=> at[j] <= at[k] - 1
      OBVIOUS
    <3>1. at[j] \in Int /\ at[k] \in Int
      OBVIOUS
    <3>2. at[j] < at[k] <=> j < k
      BY DEF Climbs
    <3> QED
      BY <3>1, <3>2
  <2>3. k - 1 \in 0..n /\ at[k] - 1 \in Int /\ a <= (at[k] - 1) + 1 /\ at[k] - 1 <= b
    BY <2>1
  <2>4. k - 1 = (at[k] - 1) - a + 1
    BY <1>2, <2>2, <2>3
  <2> QED
    BY <2>1, <2>4
<1> QED
  BY <1>3, <1>4

\* A sequence of which P has the beginning and Q the rest.
LEMMA FilteredParts ==
  ASSUME NEW T, NEW seq \in Seq(T), NEW P, NEW Q, NEW m \in 0..Len(seq),
         \A i \in 1..Len(seq) : (seq[i] \in P <=> i <= m) /\ (seq[i] \in Q <=> i > m)
  PROVE  seq = Filtered(seq, P) \o Filtered(seq, Q)
<1> DEFINE n == Len(seq)
           f == Filtered(seq, P)
           g == Filtered(seq, Q)
<1>1. n \in Nat /\ DOMAIN seq = 1..n
  OBVIOUS
<1>2. IsFiltered(f, seq, P, T) /\ IsFiltered(g, seq, Q, T)
  BY FilteredKeeps
<1> HIDE DEF f, g, n
<1>30. PICK k \in Nat : \E at \in [1..k -> DOMAIN seq] :
         KeptPlaces(at, k, seq, P) /\ f = [i \in 1..k |-> seq[at[i]]] /\ f \in Seq(T) /\ Len(f) = k
  BY <1>2 DEF IsFiltered
<1>3. PICK at \in [1..k -> DOMAIN seq] :
         KeptPlaces(at, k, seq, P) /\ f = [i \in 1..k |-> seq[at[i]]] /\ f \in Seq(T) /\ Len(f) = k
  BY <1>30
<1>31. PICK h \in Nat : \E to \in [1..h -> DOMAIN seq] :
         KeptPlaces(to, h, seq, Q) /\ g = [i \in 1..h |-> seq[to[i]]] /\ g \in Seq(T) /\ Len(g) = h
  BY <1>2 DEF IsFiltered
<1>32. PICK to \in [1..h -> DOMAIN seq] :
         KeptPlaces(to, h, seq, Q) /\ g = [i \in 1..h |-> seq[to[i]]] /\ g \in Seq(T) /\ Len(g) = h
  BY <1>31
<1>4. k = m /\ \A i \in 1..k : at[i] = i
  <2>1. at \in [1..k -> 1..m] /\ Climbs(at, k) /\ \A x \in 1..m : \E i \in 1..k : at[i] = x
    <3>1. \A i \in 1..k : at[i] \in 1..m
      BY <1>1, <1>3 DEF KeptPlaces, n
    <3>2. \A x \in 1..m : x \in DOMAIN seq /\ seq[x] \in P
      BY <1>1 DEF n
    <3> QED
      BY <1>3, <3>1, <3>2 DEF KeptPlaces
  <2>2. 1 <= m + 1 /\ m \in Int /\ 1 \in Int
    BY <1>1 DEF n
  <2>3. k = m - 1 + 1 /\ \A i \in 1..k : at[i] = 1 + i - 1
    BY <1>3, <2>1, <2>2, ClimbsThrough
  <2> QED
    BY <2>2, <2>3
<1>5. h = n - m /\ \A i \in 1..h : to[i] = m + i
  <2>0. m \in Int /\ n \in Int /\ m + 1 \in Int /\ m + 1 <= n + 1 /\ 0 <= m
    BY <1>1 DEF n
  <2>1. to \in [1..h -> (m + 1)..n] /\ Climbs(to, h) /\ \A x \in (m + 1)..n : \E i \in 1..h : to[i] = x
    <3>1. \A i \in 1..h : to[i] \in 1..n /\ to[i] > m
      BY <1>1, <1>32 DEF KeptPlaces, n
    <3>2. \A i \in 1..h : to[i] \in (m + 1)..n
      BY <2>0, <3>1
    <3>3. \A x \in (m + 1)..n : x \in DOMAIN seq /\ seq[x] \in Q
      BY <1>1, <2>0 DEF n
    <3> QED
      BY <1>32, <3>2, <3>3 DEF KeptPlaces
  <2>3. h = n - (m + 1) + 1 /\ \A i \in 1..h : to[i] = (m + 1) + i - 1
    <3>1. h \in Nat
      BY <1>32
    <3> DEFINE a == m + 1
    <3>2. /\ a \in Int /\ n \in Int /\ a <= n + 1 /\ to \in [1..h -> a..n] /\ Climbs(to, h)
          /\ \A x \in a..n : \E i \in 1..h : to[i] = x
      BY <2>0, <2>1
    <3> HIDE DEF n, a
    <3>3. h = n - a + 1 /\ \A i \in 1..h : to[i] = a + i - 1
      BY <3>1, <3>2, ClimbsThrough
    <3> QED
      BY <3>3 DEF a
  <2> QED
    BY <1>32, <2>0, <2>3
<1>6. /\ f \o g \in Seq(T) /\ Len(f \o g) = n
      /\ \A i \in 1..n : (f \o g)[i] = seq[i]
  <2>0. m \in 0..n
    BY DEF n
  <2>1. /\ f \o g \in Seq(T) /\ Len(f \o g) = k + h
        /\ \A i \in 1..(k + h) : (f \o g)[i] = IF i <= k THEN f[i] ELSE g[i - k]
    BY <1>3, <1>32, ConcatProperties
  <2>2. ASSUME NEW i \in 1..n PROVE (f \o g)[i] = seq[i]
    <3>1. i \in 1..(k + h)
      BY <1>1, <1>4, <1>5, <2>0
    <3>2. CASE i <= k
      <4>1. i \in 1..k
        BY <3>2
      <4> QED
        BY <1>3, <1>4, <2>1, <3>1, <3>2, <4>1
    <3>3. CASE ~(i <= k)
      <4>1. i - k \in 1..h /\ m + (i - k) = i
        BY <1>1, <1>4, <1>5, <2>0, <3>3
      <4>2. g[i - k] = seq[i]
        BY <1>32, <1>5, <4>1
      <4> QED
        BY <2>1, <3>1, <3>3, <4>2
    <3> QED
      BY <3>2, <3>3
  <2>3. k + h = n
    BY <1>1, <1>4, <1>5, <2>0
  <2> QED
    BY <2>1, <2>2, <2>3
<1> DEFINE u == f \o g
<1>7. u \in Seq(T) /\ Len(u) = Len(seq) /\ \A i \in 1..Len(seq) : u[i] = seq[i]
  BY <1>6 DEF n
<1> HIDE DEF u
<1>8. u = seq
  BY <1>7
<1> QED
  BY <1>8 DEF u, f, g

LEMMA FilteredSet ==
  ASSUME NEW T, NEW seq \in Seq(T), NEW P
  PROVE  ToSet(Filtered(seq, P)) = ToSet(seq) \cap P /\ Filtered(seq, P) \in Seq(ToSet(seq) \cap P)
<1> DEFINE f == Filtered(seq, P)
<1>1. IsFiltered(f, seq, P, T)
  BY FilteredKeeps
<1> HIDE DEF f
<1>2. PICK n \in Nat : \E at \in [1..n -> DOMAIN seq] :
         /\ KeptPlaces(at, n, seq, P)
         /\ f = [k \in 1..n |-> seq[at[k]]] /\ f \in Seq(T) /\ Len(f) = n /\ DOMAIN f = 1..n
  BY <1>1 DEF IsFiltered
<1>3. PICK at \in [1..n -> DOMAIN seq] :
         /\ KeptPlaces(at, n, seq, P)
         /\ f = [k \in 1..n |-> seq[at[k]]] /\ f \in Seq(T) /\ Len(f) = n /\ DOMAIN f = 1..n
  BY <1>2
<1>4. \A k \in 1..n : f[k] = seq[at[k]] /\ at[k] \in DOMAIN seq /\ f[k] \in P
  BY <1>3 DEF KeptPlaces
<1>5. \A x \in ToSet(seq) \cap P : \E k \in 1..n : f[k] = x
  <2> SUFFICES ASSUME NEW i \in DOMAIN seq, seq[i] \in P PROVE \E k \in 1..n : f[k] = seq[i]
    BY DEF ToSet
  <2>1. PICK k \in 1..n : at[k] = i
    BY <1>3 DEF KeptPlaces
  <2> QED
    BY <1>4, <2>1
<1>6. \A k \in 1..n : f[k] \in ToSet(seq) \cap P
  BY <1>4 DEF ToSet
<1>7. ToSet(f) = ToSet(seq) \cap P
  BY <1>3, <1>5, <1>6 DEF ToSet
<1>8. f \in Seq(ToSet(seq) \cap P)
  BY <1>3, <1>6
<1> QED
  BY <1>7, <1>8 DEF f

LEMMA HeadAndTail ==
  ASSUME NEW S, NEW s \in Seq(S), s # <<>>
  PROVE  /\ Head(s) \in S /\ Head(s) = s[1] /\ 1 \in DOMAIN s /\ DOMAIN s = 1..Len(s) /\ Len(s) \in Nat \ {0}
         /\ Tail(s) \in Seq(S) /\ Len(Tail(s)) = Len(s) - 1 /\ DOMAIN Tail(s) = 1..(Len(s) - 1)
         /\ \A i \in 1..(Len(s) - 1) : Tail(s)[i] = s[i + 1] /\ i + 1 \in DOMAIN s /\ i \in Nat
         /\ ToSet(s) = ToSet(Tail(s)) \cup {Head(s)}
<1>1. /\ Head(s) = s[1] /\ Len(s) \in Nat /\ DOMAIN s = 1..Len(s) /\ Tail(s) \in Seq(S)
      /\ Len(Tail(s)) = Len(s) - 1 /\ \A i \in 1..Len(s) : s[i] \in S
  OBVIOUS
<1>2. Len(s) # 0
  BY EmptySeq
<1>3. DOMAIN Tail(s) = 1..(Len(s) - 1) /\ \A i \in 1..(Len(s) - 1) : Tail(s)[i] = s[i + 1]
  BY <1>1, <1>2
<1>4. 1 \in DOMAIN s /\ \A i \in 1..(Len(s) - 1) : i + 1 \in DOMAIN s
  BY <1>1, <1>2
<1>5. \A i \in DOMAIN s : i = 1 \/ (i - 1 \in 1..(Len(s) - 1) /\ s[i] = Tail(s)[i - 1])
  <2>1. \A i \in DOMAIN s : i = 1 \/ (i - 1 \in 1..(Len(s) - 1) /\ (i - 1) + 1 = i)
    BY <1>1, <1>2
  <2> QED
    BY <1>3, <2>1
<1>6. \A x \in ToSet(s) : x \in ToSet(Tail(s)) \cup {s[1]}
  <2>1. \A i \in 1..(Len(s) - 1) : Tail(s)[i] \in ToSet(Tail(s))
    BY <1>3 DEF ToSet
  <2>2. \A i \in DOMAIN s : s[i] \in ToSet(Tail(s)) \cup {s[1]}
    BY <1>5, <2>1
  <2> QED
    BY <2>2 DEF ToSet
<1>7. \A x \in ToSet(Tail(s)) \cup {s[1]} : x \in ToSet(s)
  BY <1>3, <1>4 DEF ToSet
<1> QED
  BY <1>1, <1>2, <1>3, <1>4, <1>6, <1>7

LEMMA OneMore ==
  ASSUME NEW S, IsFiniteSet(S), NEW T, NEW x, x \notin S
  PROVE  /\ IsFiniteSet(S \cup {x})
         /\ Cardinality((S \cup {x}) \cap T) = Cardinality(S \cap T) + (IF x \in T THEN 1 ELSE 0)
<1>1. IsFiniteSet(S \cap T) /\ Cardinality(S \cap T) \in Nat /\ IsFiniteSet(S \cup {x})
  <2>1. S \cap T \in SUBSET S
    OBVIOUS
  <2> QED
    BY <2>1, FS_Subset, FS_AddElement, FS_CardinalityType
<1>2. CASE x \in T
  <2>1. (S \cup {x}) \cap T = (S \cap T) \cup {x} /\ x \notin S \cap T
    BY <1>2
  <2>2. Cardinality((S \cap T) \cup {x}) = Cardinality(S \cap T) + 1
    BY <1>1, <2>1, FS_AddElement
  <2> QED
    BY <1>1, <1>2, <2>1, <2>2
<1>3. CASE x \notin T
  <2>1. (S \cup {x}) \cap T = S \cap T
    BY <1>3
  <2>2. (IF x \in T THEN 1 ELSE 0) = 0
    BY <1>3
  <2>3. Cardinality(S \cap T) + 0 = Cardinality(S \cap T)
    BY <1>1
  <2> QED
    BY <1>1, <2>1, <2>2, <2>3
<1> QED
  BY <1>2, <1>3

\* s with x in front.
Fronted(t, x, s, S) == t \in Seq(S) /\ Len(t) = Len(s) + 1 /\ t[1] = x /\ \A i \in 1..Len(s) : t[i + 1] = s[i]

LEMMA OneBefore ==
  ASSUME NEW S, NEW e \in Seq(S), Len(e) = 1, NEW s \in Seq(S)
  PROVE  Fronted(e \o s, e[1], s, S)
<1>0. PICK t : t = e \o s
  OBVIOUS
<1>1. Len(s) \in Nat
  BY LenProperties
<1>2. t \in Seq(S) /\ Len(t) = Len(e) + Len(s)
  BY <1>0, ConcatProperties
<1>3. \A i \in 1..(Len(e) + Len(s)) : t[i] = IF i <= Len(e) THEN e[i] ELSE s[i - Len(e)]
  BY <1>0, ConcatProperties, Zenon
<1>4. Len(t) = Len(s) + 1
  BY <1>1, <1>2
<1>5. t[1] = e[1]
  <2>1. 1 \in 1..(Len(e) + Len(s)) /\ 1 <= Len(e)
    BY <1>1
  <2> QED
    BY <1>3, <2>1
<1>6. ASSUME NEW i \in 1..Len(s) PROVE t[i + 1] = s[i]
  <2>1. i + 1 \in 1..(Len(e) + Len(s)) /\ ~(i + 1 <= Len(e)) /\ (i + 1) - Len(e) = i
    BY <1>1
  <2>2. t[i + 1] = IF i + 1 <= Len(e) THEN e[i + 1] ELSE s[(i + 1) - Len(e)]
    BY <1>3, <2>1
  <2> QED
    BY <2>1, <2>2
<1>7. Fronted(t, e[1], s, S)
  BY <1>2, <1>4, <1>5, <1>6 DEF Fronted
<1> QED
  BY <1>0, <1>7
=============================================================================
