----------------------------- MODULE NotesProofs -----------------------------
(***************************************************************************)
(* Theorems about the tools that rewrite a note, for every note: what      *)
(* normalize-frontmatter, the tag fixer and the patch of the managed       *)
(* regions leave as it was, what they write, and that to do it again       *)
(* changes nothing.                                                        *)
(***************************************************************************)
EXTENDS PartsProofs, SequenceTheorems

-----------------------------------------------------------------------------
(* Lists with the same at some of their places *)

(* A list of members of a set of numbers is in order and complete. *)
Enumerates(a, n, Q) ==
  /\ a \in [1..n -> Q]
  /\ \A i, j \in 1..n : i < j => a[i] < a[j]
  /\ \A q \in Q : \E i \in 1..n : a[i] = q

LEMMA OneEnumeration ==
  ASSUME NEW n \in Nat, NEW Q, Q \subseteq Int, NEW a, NEW b, Enumerates(a, n, Q), Enumerates(b, n, Q)
  PROVE  a = b
<1> DEFINE S == {i \in 1..n : a[i] # b[i]}
<1>1. a \in [1..n -> Q] /\ b \in [1..n -> Q]
  BY DEF Enumerates
<1>2. /\ \A i \in 1..n : a[i] \in Int /\ b[i] \in Int
      /\ \A i, j \in 1..n : i < j => a[i] < a[j] /\ b[i] < b[j]
      /\ \A i \in 1..n : \E j \in 1..n : b[j] = a[i]
      /\ \A i \in 1..n : \E j \in 1..n : a[j] = b[i]
  <2>1. \A i \in 1..n : a[i] \in Q /\ b[i] \in Q
    BY <1>1
  <2> QED
    BY <2>1 DEF Enumerates
<1> SUFFICES ASSUME S # {} PROVE FALSE
  BY <1>1
<1>3. PICK k \in S : \A m \in S : k <= m
  <2>1. S \subseteq Nat
    OBVIOUS
  <2> QED
    BY <2>1, Least
<1>4. k \in 1..n /\ a[k] # b[k] /\ \A m \in 1..n : m < k => a[m] = b[m]
  BY <1>3
<1> HIDE DEF S
<1>5. CASE a[k] < b[k]
  <2>1. PICK j \in 1..n : b[j] = a[k]
    BY <1>2, <1>4
  <2>2. b[j] < b[k] /\ b[j] \in Int /\ b[k] \in Int
    BY <1>2, <1>4, <1>5, <2>1
  <2>3. ~(k < j) /\ j # k
    <3>1. ASSUME k < j PROVE FALSE
      <4>1. b[k] < b[j]
        BY <1>2, <1>4, <3>1
      <4> QED
        BY <2>2, <4>1
    <3>2. ASSUME j = k PROVE FALSE
      BY <2>2, <3>2
    <3> QED
      BY <3>1, <3>2
  <2>4. j < k /\ a[j] = b[j]
    BY <1>4, <2>3
  <2>5. a[j] < a[k] /\ a[j] \in Int
    BY <1>2, <1>4, <2>4
  <2> QED
    BY <2>1, <2>4, <2>5
<1>6. CASE b[k] < a[k]
  <2>1. PICK j \in 1..n : a[j] = b[k]
    BY <1>2, <1>4
  <2>2. a[j] < a[k] /\ a[j] \in Int /\ a[k] \in Int
    BY <1>2, <1>4, <1>6, <2>1
  <2>3. ~(k < j) /\ j # k
    <3>1. ASSUME k < j PROVE FALSE
      <4>1. a[k] < a[j]
        BY <1>2, <1>4, <3>1
      <4> QED
        BY <2>2, <4>1
    <3>2. ASSUME j = k PROVE FALSE
      BY <2>2, <3>2
    <3> QED
      BY <3>1, <3>2
  <2>4. j < k /\ b[j] = a[j]
    BY <1>4, <2>3
  <2>5. b[j] < b[k] /\ b[j] \in Int
    BY <1>2, <1>4, <2>4
  <2> QED
    BY <2>1, <2>4, <2>5
<1> QED
  BY <1>2, <1>4, <1>5, <1>6

LEMMA RisingEnumerates ==
  ASSUME NEW places, ArePlaces(places)
  PROVE  Cardinality(places) \in Nat /\ Enumerates(Rising(places), Cardinality(places), places)
<1> DEFINE n == Cardinality(places)
           order == Rising(places)
<1>1. n \in Nat /\ order \in [1..n -> places]
  BY FilteredInOrder
<1>2. \A i, j \in 1..n : i < j => order[i] < order[j]
  BY FilteredInOrder
<1>3. \A x \in places : \E i \in 1..n : order[i] = x
  BY FilteredInOrder
<1> HIDE DEF n, order
<1>4. n \in Nat /\ Enumerates(order, n, places)
  BY <1>1, <1>2, <1>3 DEF Enumerates
<1> QED
  BY <1>4 DEF n, order

(* Two lists have the same at some places of each, and in the same order. *)
AlikeAt(s, P, t, Q, h) ==
  /\ h \in [P -> Q] /\ \A q \in Q : \E p \in P : h[p] = q
  /\ \A p, q \in P : p < q => h[p] < h[q]
  /\ \A p \in P : t[h[p]] = s[p]

LEMMA FilteredAlike ==
  ASSUME NEW s, NEW P, ArePlaces(P), NEW t, NEW Q, ArePlaces(Q), NEW h, AlikeAt(s, P, t, Q, h)
  PROVE  Filtered(t, Q) = Filtered(s, P) /\ Cardinality(Q) = Cardinality(P)
<1> DEFINE n == Cardinality(P)
           a == Rising(P)
           b == [i \in 1..n |-> h[a[i]]]
<1>1. P \subseteq Int /\ Q \subseteq Int /\ IsFiniteSet(P)
  BY DEF ArePlaces
<1>2. /\ h \in [P -> Q] /\ \A q \in Q : \E p \in P : h[p] = q
      /\ \A p, q \in P : p < q => h[p] < h[q]
      /\ \A p \in P : t[h[p]] = s[p]
  BY DEF AlikeAt
<1>3. \A p, q \in P : h[p] = h[q] => p = q
  <2>1. \A p \in P : p \in Int /\ h[p] \in Int
    BY <1>1, <1>2
  <2> QED
    BY <1>2, <2>1
<1>4. Cardinality(Q) = n
  <2>1. h \in Bijection(P, Q)
    BY <1>2, <1>3, Fun_IsBij
  <2> QED
    BY <1>1, <2>1, FS_Bijection DEF ExistsBijection
<1>5. n \in Nat /\ Enumerates(a, n, P)
  BY RisingEnumerates
<1>6. Enumerates(Rising(Q), n, Q)
  BY <1>4, RisingEnumerates
<1>7. Filtered(s, P) = [i \in 1..n |-> s[a[i]]] /\ Filtered(t, Q) = [i \in 1..n |-> t[Rising(Q)[i]]]
  BY <1>4 DEF Filtered
<1> HIDE DEF n, a
<1>8. /\ a \in [1..n -> P] /\ \A i, j \in 1..n : i < j => a[i] < a[j]
      /\ \A p \in P : \E i \in 1..n : a[i] = p
  BY <1>5 DEF Enumerates
<1>9. Enumerates(b, n, Q)
  <2>1. b \in [1..n -> Q]
    BY <1>2, <1>8
  <2>2. \A i, j \in 1..n : i < j => b[i] < b[j]
    BY <1>2, <1>8
  <2>3. \A q \in Q : \E i \in 1..n : b[i] = q
    BY <1>2, <1>8
  <2> HIDE DEF b
  <2> QED
    BY <2>1, <2>2, <2>3 DEF Enumerates
<1>10. Rising(Q) = b
  BY <1>1, <1>5, <1>6, <1>9, OneEnumeration
<1>11. \A i \in 1..n : t[Rising(Q)[i]] = s[a[i]]
  BY <1>2, <1>8, <1>10
<1> QED
  BY <1>4, <1>7, <1>11 DEF n

LEMMA FilteredSame ==
  ASSUME NEW s, NEW P, ArePlaces(P), NEW t, \A p \in P : t[p] = s[p]
  PROVE  Filtered(t, P) = Filtered(s, P)
<1> DEFINE h == [p \in P |-> p]
<1>1. AlikeAt(s, P, t, P, h)
  BY DEF AlikeAt
<1> QED
  BY <1>1, FilteredAlike

LEMMA SameNoteFiltering ==
  ASSUME NEW s, NEW places
  PROVE  Patch!Filtered(s, places) = Filtered(s, places) /\ Matter!Filtered(s, places) = Filtered(s, places)
BY DEF Patch!Filtered, Matter!Filtered, Filtered, Patch!Rising, Matter!Rising, Rising,
       Patch!Listed, Matter!Listed, Listed, Patch!Cardinality, Matter!Cardinality, Cardinality,
       Patch!IsFiniteSet, Matter!IsFiniteSet, IsFiniteSet

-----------------------------------------------------------------------------
(* Lists with a part replaced *)

(* A list with the members from one place up to another replaced. *)
Spliced(s, i, j, m) == SubSeq(s, 1, i - 1) \o m \o SubSeq(s, j, Len(s))

IsSpliced(out, s, i, j, m, X) ==
  /\ out \in Seq(X) /\ Len(out) = Len(s) + Len(m) - (j - i)
  /\ \A p \in 1..(i - 1) : out[p] = s[p]
  /\ \A p \in 1..Len(m) : out[i - 1 + p] = m[p]
  /\ \A p \in j..Len(s) : out[p + Len(m) - (j - i)] = s[p]

LEMMA SplicedPlaces ==
  ASSUME NEW X, NEW s \in Seq(X), NEW m \in Seq(X), NEW i \in Nat, NEW j \in Nat,
         1 <= i, i <= Len(s) + 1, 1 <= j, j <= Len(s) + 1
  PROVE  IsSpliced(Spliced(s, i, j, m), s, i, j, m, X)
<1> DEFINE n == Len(s)
           k == Len(m)
           a == SubSeq(s, 1, i - 1)
           b == SubSeq(s, j, n)
           out == Spliced(s, i, j, m)
<1>1. n \in Nat /\ k \in Nat
  OBVIOUS
<1>2. a \in Seq(X) /\ Len(a) = i - 1 /\ \A p \in 1..(i - 1) : a[p] = s[p]
  <2>1. \A p \in 1..(i - 1) : s[p] \in X
    OBVIOUS
  <2>2. i - 1 \in Int /\ 1 \in Int /\ (i - 1) - 1 + 1 = i - 1
    OBVIOUS
  <2>3. /\ a \in Seq(X) /\ Len(a) = IF 1 <= i - 1 THEN (i - 1) - 1 + 1 ELSE 0
        /\ \A p \in 1..((i - 1) - 1 + 1) : a[p] = s[1 + p - 1]
    BY <2>1, <2>2, SubSeqProperties
  <2> QED
    BY <2>2, <2>3
<1>3. b \in Seq(X) /\ Len(b) = n - j + 1 /\ \A p \in 1..(n - j + 1) : b[p] = s[j + p - 1]
  <2>1. \A p \in j..n : s[p] \in X
    OBVIOUS
  <2>2. n \in Int /\ j \in Int
    OBVIOUS
  <2>3. /\ b \in Seq(X) /\ Len(b) = IF j <= n THEN n - j + 1 ELSE 0
        /\ \A p \in 1..(n - j + 1) : b[p] = s[j + p - 1]
    BY <2>1, <2>2, SubSeqProperties
  <2> QED
    BY <2>2, <2>3
<1>4. out = (a \o m) \o b
  BY DEF Spliced
<1> HIDE DEF a, b, out, n, k
<1> DEFINE am == a \o m
<1>5. am \in Seq(X) /\ Len(am) = Len(a) + Len(m)
      /\ \A p \in 1..(Len(a) + Len(m)) : am[p] = IF p <= Len(a) THEN a[p] ELSE m[p - Len(a)]
  BY <1>2, ConcatProperties
<1>6. am \in Seq(X) /\ Len(am) = i - 1 + k
      /\ (\A p \in 1..(i - 1) : am[p] = s[p])
      /\ \A p \in 1..k : am[i - 1 + p] = m[p]
  <2> HIDE DEF am
  <2>1. Len(a) = i - 1 /\ Len(m) = k
    BY <1>2 DEF k
  <2>2. ASSUME NEW p \in 1..(i - 1) PROVE am[p] = s[p]
    <3>1. p \in 1..(Len(a) + Len(m)) /\ p <= Len(a)
      BY <1>1, <2>1
    <3> QED
      BY <1>2, <1>5, <3>1
  <2>3. ASSUME NEW p \in 1..k PROVE am[i - 1 + p] = m[p]
    <3> DEFINE q == i - 1 + p
    <3>1. q \in 1..(Len(a) + Len(m)) /\ ~(q <= Len(a)) /\ q - Len(a) = p
      BY <1>1, <2>1
    <3> HIDE DEF q
    <3>2. am[q] = m[p]
      BY <1>5, <3>1
    <3> QED
      BY <3>2 DEF q
  <2> QED
    BY <1>5, <2>1, <2>2, <2>3
<1> HIDE DEF am
<1>7. out \in Seq(X) /\ Len(out) = Len(am) + Len(b)
      /\ \A p \in 1..(Len(am) + Len(b)) : out[p] = IF p <= Len(am) THEN am[p] ELSE b[p - Len(am)]
  <2>1. out = am \o b
    BY <1>4 DEF am
  <2> QED
    BY <1>3, <1>6, <2>1, ConcatProperties
<1>8. out \in Seq(X) /\ Len(out) = n + k - (j - i)
  BY <1>1, <1>3, <1>6, <1>7
<1>9. \A p \in 1..(i - 1 + k) : out[p] = am[p]
  <2>1. Len(am) = i - 1 + k /\ Len(am) \in Nat /\ Len(b) \in Nat
    BY <1>1, <1>3, <1>6
  <2> QED
    BY <1>7, <2>1
<1>10. \A p \in 1..(n - j + 1) : out[i - 1 + k + p] = b[p]
  <2> TAKE p \in 1..(n - j + 1)
  <2> DEFINE q == i - 1 + k + p
  <2>1. Len(am) = i - 1 + k /\ Len(b) = n - j + 1
    BY <1>3, <1>6
  <2>2. q \in 1..(Len(am) + Len(b)) /\ ~(q <= Len(am)) /\ q - Len(am) = p
    BY <1>1, <2>1
  <2> HIDE DEF q
  <2>3. out[q] = b[p]
    BY <1>7, <2>2
  <2> QED
    BY <2>3 DEF q
<1>11. ASSUME NEW p \in 1..(i - 1) PROVE out[p] = s[p]
  BY <1>1, <1>6, <1>9
<1>12. ASSUME NEW p \in 1..k PROVE out[i - 1 + p] = m[p]
  <2>1. i - 1 + p \in 1..(i - 1 + k)
    BY <1>1
  <2> QED
    BY <1>6, <1>9, <2>1
<1>13. ASSUME NEW p \in j..n PROVE out[p + k - (j - i)] = s[p]
  <2> DEFINE q == p - j + 1
  <2>1. q \in 1..(n - j + 1) /\ i - 1 + k + q = p + k - (j - i) /\ j + q - 1 = p
    BY <1>1
  <2> HIDE DEF q
  <2>2. out[i - 1 + k + q] = b[q] /\ b[q] = s[j + q - 1]
    BY <1>3, <1>10, <2>1
  <2> QED
    BY <2>1, <2>2
<1> QED
  BY <1>8, <1>11, <1>12, <1>13 DEF n, k, out, IsSpliced

-----------------------------------------------------------------------------
(* Normalising a note: one value *)

LEMMA AtIsFirst ==
  ASSUME NEW X, NEW fm \in Seq(X), NEW key, key \in Matter!Keys(fm)
  PROVE  /\ Matter!At(fm, key) \in 1..Len(fm)
         /\ fm[Matter!At(fm, key)].key = key
         /\ \A j \in 1..(Matter!At(fm, key) - 1) : fm[j].key # key
<1> DEFINE S == {i \in DOMAIN fm : fm[i].key = key}
           good(i) == fm[i].key = key /\ \A j \in 1..(i - 1) : fm[j].key # key
<1>1. DOMAIN fm = 1..Len(fm) /\ Len(fm) \in Nat
  OBVIOUS
<1>2. S \subseteq Nat /\ S # {}
  BY <1>1 DEF Matter!Keys
<1>3. PICK i \in S : \A j \in S : i <= j
  BY <1>2, Least
<1>4. i \in DOMAIN fm /\ good(i)
  BY <1>1, <1>3
<1>5. Matter!At(fm, key) = CHOOSE n \in DOMAIN fm : good(n)
  BY DEF Matter!At
<1> HIDE DEF good
<1>6. Matter!At(fm, key) \in DOMAIN fm /\ good(Matter!At(fm, key))
  BY <1>4, <1>5
<1> QED
  BY <1>1, <1>6 DEF good

LEMMA AtIs ==
  ASSUME NEW X, NEW fm \in Seq(X), NEW i \in 1..Len(fm), \A j \in 1..(i - 1) : fm[j].key # fm[i].key
  PROVE  Matter!At(fm, fm[i].key) = i
<1> DEFINE k == fm[i].key
           a == Matter!At(fm, k)
<1>1. k \in Matter!Keys(fm)
  BY DEF Matter!Keys
<1> HIDE DEF k
<1>2. a \in 1..Len(fm) /\ fm[a].key = k /\ \A j \in 1..(a - 1) : fm[j].key # k
  BY <1>1, AtIsFirst
<1> HIDE DEF a
<1>3. fm[i].key = k /\ \A j \in 1..(i - 1) : fm[j].key # k
  BY DEF k
<1>4. a = i
  <2>1. ~(a < i)
    BY <1>2, <1>3
  <2>2. ~(i < a)
    BY <1>2, <1>3
  <2> QED
    BY <1>2, <2>1, <2>2
<1> QED
  BY <1>4 DEF a, k

(* The line of a key: the first one. *)
LineOf(fm, key) == fm[Matter!At(fm, key)]

(* What setting a value does, where the key is missing or has a value. *)
HasSet(fm, out, key, line, X) ==
  /\ out \in Seq(X)
  /\ Matter!Keys(out) = Matter!Keys(fm) \cup {key}
  /\ LineOf(out, key) = line
  /\ \A k \in Matter!Keys(fm) : k # key => LineOf(out, k) = LineOf(fm, k)
  /\ \A K : key \in K => Matter!Others(out, K) = Matter!Others(fm, K)
  /\ key \in Matter!Keys(fm) /\ LineOf(fm, key) = line => out = fm

LEMMA OthersIs ==
  ASSUME NEW fm, NEW K
  PROVE  Matter!Others(fm, K) = Filtered(fm, {i \in DOMAIN fm : fm[i].key \notin K})
BY SameNoteFiltering DEF Matter!Others

LEMMA LineReplaced ==
  ASSUME NEW X, NEW fm \in Seq(X), NEW i \in 1..Len(fm), NEW line \in X, fm[i].key = line.key,
         \A j \in 1..(i - 1) : fm[j].key # line.key
  PROVE  HasSet(fm, Spliced(fm, i, i + 1, <<line>>), line.key, line, X)
<1> DEFINE key == line.key
           out == Spliced(fm, i, i + 1, <<line>>)
           n == Len(fm)
<1>1. n \in Nat /\ DOMAIN fm = 1..n
  OBVIOUS
<1>2. /\ out \in Seq(X) /\ Len(out) = n
      /\ \A p \in 1..n : p # i => out[p] = fm[p]
      /\ out[i] = line
  <2> DEFINE m == <<line>>
             next == i + 1
             o == Spliced(fm, i, next, m)
  <2>1. m \in Seq(X) /\ Len(m) = 1 /\ m[1] = line
    OBVIOUS
  <2>2. i \in Nat /\ next \in Nat /\ 1 <= i /\ i <= next /\ next <= Len(fm) + 1
    OBVIOUS
  <2> HIDE DEF m, next, o
  <2>0. IsSpliced(o, fm, i, next, m, X)
    BY <2>1, <2>2, SplicedPlaces DEF o
  <2>3. /\ o \in Seq(X) /\ Len(o) = Len(fm) + Len(m) - (next - i)
        /\ \A p \in 1..(i - 1) : o[p] = fm[p]
        /\ \A p \in 1..Len(m) : o[i - 1 + p] = m[p]
        /\ \A p \in next..Len(fm) : o[p + Len(m) - (next - i)] = fm[p]
    BY <2>0 DEF IsSpliced
  <2>4. out = o
    BY DEF m, next, o
  <2> HIDE DEF out
  <2>5. o[i - 1 + 1] = m[1]
    BY <2>1, <2>3
  <2>6. /\ Len(o) = n /\ i - 1 + 1 = i
        /\ \A p \in (i + 1)..n : p + Len(m) - (next - i) = p /\ p \in next..Len(fm)
    BY <1>1, <2>1, <2>3 DEF next
  <2>7. \A p \in (i + 1)..n : o[p] = fm[p]
    BY <2>3, <2>6
  <2>8. \A p \in 1..n : p # i => p \in 1..(i - 1) \/ p \in (i + 1)..n
    BY <1>1
  <2> QED
    BY <2>1, <2>3, <2>4, <2>5, <2>6, <2>7, <2>8
<1> HIDE DEF out, n
<1>3. DOMAIN out = 1..n
  BY <1>2
<1>4. \A p \in 1..n : out[p].key = fm[p].key
  BY <1>2
<1>5. Matter!Keys(out) = Matter!Keys(fm) /\ key \in Matter!Keys(fm)
  BY <1>1, <1>3, <1>4 DEF Matter!Keys, n
<1>6. ASSUME NEW k \in Matter!Keys(fm) PROVE Matter!At(out, k) = Matter!At(fm, k)
  <2> DEFINE a == Matter!At(fm, k)
  <2>1. a \in 1..n /\ fm[a].key = k /\ \A j \in 1..(a - 1) : fm[j].key # k
    BY AtIsFirst DEF n
  <2> HIDE DEF a
  <2>2. out[a].key = k /\ \A j \in 1..(a - 1) : out[j].key # k
    BY <1>1, <1>4, <2>1
  <2>3. a \in 1..Len(out)
    BY <1>2, <2>1
  <2>4. Matter!At(out, out[a].key) = a
    BY <1>2, <2>2, <2>3, AtIs
  <2> QED
    BY <2>2, <2>4 DEF a
<1>7. Matter!At(fm, key) = i
  BY AtIs
<1>8. ASSUME NEW k \in Matter!Keys(fm), k # key PROVE LineOf(out, k) = LineOf(fm, k)
  <2>1. Matter!At(fm, k) \in 1..n /\ fm[Matter!At(fm, k)].key = k
    BY AtIsFirst DEF n
  <2>2. Matter!At(fm, k) # i
    BY <1>8, <2>1
  <2> QED
    BY <1>2, <1>6, <2>1, <2>2 DEF LineOf
<1>9. LineOf(out, key) = line
  BY <1>2, <1>5, <1>6, <1>7 DEF LineOf
<1>10. ASSUME NEW K, key \in K PROVE Matter!Others(out, K) = Matter!Others(fm, K)
  <2> DEFINE P == {j \in 1..n : fm[j].key \notin K}
  <2>1. P = {j \in 1..n : out[j].key \notin K}
    BY <1>4
  <2>2. \A p \in P : out[p] = fm[p]
    BY <1>2, <1>10
  <2>3. ArePlaces(P)
    BY <1>1, PlacesAreFinite
  <2> HIDE DEF P
  <2>4. Filtered(out, P) = Filtered(fm, P)
    BY <2>2, <2>3, FilteredSame
  <2> QED
    BY <1>1, <1>3, <2>1, <2>4, OthersIs DEF P
<1>11. ASSUME LineOf(fm, key) = line PROVE out = fm
  <2>1. fm[i] = line
    BY <1>7, <1>11 DEF LineOf
  <2>2. \A p \in 1..n : out[p] = fm[p]
    BY <1>2, <2>1
  <2> QED
    BY <1>1, <1>2, <1>3, <2>2
<1> QED
  BY <1>2, <1>5, <1>8, <1>9, <1>10, <1>11 DEF HasSet, out

LEMMA LineInserted ==
  ASSUME NEW X, NEW fm \in Seq(X), NEW i \in 1..(Len(fm) + 1), NEW line \in X,
         line.key \notin Matter!Keys(fm)
  PROVE  HasSet(fm, Spliced(fm, i, i, <<line>>), line.key, line, X)
<1> DEFINE key == line.key
           m == <<line>>
           out == Spliced(fm, i, i, m)
           n == Len(fm)
           h(p) == IF p < i THEN p ELSE p + 1
<1>1. n \in Nat /\ DOMAIN fm = 1..n /\ i \in Nat /\ i \in 1..(n + 1)
  OBVIOUS
<1>2. m \in Seq(X) /\ Len(m) = 1 /\ m[1] = line
  OBVIOUS
<1> HIDE DEF m, out
<1>3. IsSpliced(out, fm, i, i, m, X)
  <2>1. 1 <= i /\ i <= i /\ i <= Len(fm) + 1
    BY <1>1
  <2> QED
    BY <1>1, <1>2, <2>1, SplicedPlaces DEF out
<1>4. /\ out \in Seq(X) /\ Len(out) = n + 1
      /\ \A p \in 1..(i - 1) : out[p] = fm[p]
      /\ out[i] = line
      /\ \A p \in i..n : out[p + 1] = fm[p]
  <2>1. /\ out \in Seq(X) /\ Len(out) = n + Len(m) - (i - i)
        /\ \A p \in 1..(i - 1) : out[p] = fm[p]
        /\ \A p \in 1..Len(m) : out[i - 1 + p] = m[p]
        /\ \A p \in i..n : out[p + Len(m) - (i - i)] = fm[p]
    BY <1>3 DEF IsSpliced
  <2>2. out[i - 1 + 1] = line /\ i - 1 + 1 = i
    BY <1>1, <1>2, <2>1
  <2>3. n + Len(m) - (i - i) = n + 1 /\ \A p \in i..n : p + Len(m) - (i - i) = p + 1
    BY <1>1, <1>2
  <2> QED
    BY <2>1, <2>2, <2>3
<1> HIDE DEF n
<1>5. DOMAIN out = 1..(n + 1) /\ Len(fm) = n
  BY <1>1, <1>4 DEF n
<1>6. /\ \A p \in 1..n : h(p) \in 1..(n + 1) /\ h(p) # i /\ out[h(p)] = fm[p]
      /\ \A q \in 1..(n + 1) : q # i => \E p \in 1..n : h(p) = q
      /\ \A p, q \in 1..n : p < q => h(p) < h(q)
  <2>1. ASSUME NEW p \in 1..n PROVE h(p) \in 1..(n + 1) /\ h(p) # i /\ out[h(p)] = fm[p]
    <3>1. CASE p < i
      BY <1>1, <1>4, <3>1
    <3>2. CASE ~(p < i)
      BY <1>1, <1>4, <3>2
    <3> QED
      BY <3>1, <3>2
  <2>2. ASSUME NEW q \in 1..(n + 1), q # i PROVE \E p \in 1..n : h(p) = q
    <3>1. CASE q < i
      <4>1. q \in 1..n /\ h(q) = q
        BY <1>1, <3>1
      <4> QED
        BY <4>1
    <3>2. CASE ~(q < i)
      <4>1. q - 1 \in 1..n /\ h(q - 1) = q
        BY <1>1, <2>2, <3>2
      <4> QED
        BY <4>1
    <3> QED
      BY <3>1, <3>2
  <2>3. \A p, q \in 1..n : p < q => h(p) < h(q)
    BY <1>1
  <2> QED
    BY <2>1, <2>2, <2>3
<1> HIDE DEF h
<1>7. \A p \in 1..n : fm[p].key # key
  BY <1>1 DEF Matter!Keys
<1>8. Matter!Keys(out) = Matter!Keys(fm) \cup {key}
  <2>1. ASSUME NEW q \in 1..(n + 1) PROVE out[q].key \in Matter!Keys(fm) \cup {key}
    <3>1. CASE q = i
      BY <1>4, <3>1
    <3>2. CASE q # i
      <4>1. PICK p \in 1..n : h(p) = q
        BY <1>6, <3>2
      <4>2. out[q] = fm[p] /\ p \in DOMAIN fm
        BY <1>1, <1>5, <1>6, <4>1
      <4> QED
        BY <4>2 DEF Matter!Keys
    <3> QED
      BY <3>1, <3>2
  <2>2. ASSUME NEW p \in 1..n PROVE fm[p].key \in Matter!Keys(out)
    BY <1>5, <1>6 DEF Matter!Keys
  <2>3. key \in Matter!Keys(out)
    <3>1. i \in DOMAIN out /\ out[i].key = key
      BY <1>1, <1>4, <1>5
    <3> QED
      BY <3>1 DEF Matter!Keys
  <2> QED
    BY <1>1, <1>5, <2>1, <2>2, <2>3 DEF Matter!Keys
<1>9. LineOf(out, key) = line
  <2>1. i \in 1..Len(out) /\ out[i].key = key
    BY <1>1, <1>4
  <2>2. \A j \in 1..(i - 1) : out[j].key # key
    BY <1>1, <1>4, <1>7
  <2>3. Matter!At(out, out[i].key) = i
    BY <1>4, <2>1, <2>2, AtIs
  <2> QED
    BY <1>4, <2>1, <2>3 DEF LineOf
<1>10. ASSUME NEW k \in Matter!Keys(fm) PROVE LineOf(out, k) = LineOf(fm, k)
  <2> DEFINE a == Matter!At(fm, k)
             b == h(a)
  <2>1. a \in 1..n /\ fm[a].key = k /\ \A j \in 1..(a - 1) : fm[j].key # k
    BY AtIsFirst, <1>5
  <2> HIDE DEF a
  <2>2. b \in 1..(n + 1) /\ out[b] = fm[a]
    BY <1>6, <2>1
  <2>3. ASSUME NEW j \in 1..(b - 1) PROVE out[j].key # k
    <3>1. CASE j = i
      <4>1. key # k
        OBVIOUS
      <4> QED
        BY <1>4, <3>1, <4>1
    <3>2. CASE j # i
      <4>1. j \in 1..(n + 1)
        BY <1>1, <2>2
      <4>2. PICK p \in 1..n : h(p) = j
        BY <1>6, <3>2, <4>1
      <4>3. ~(a < p) /\ p # a
        <5>1. j < b /\ j \in Int /\ b \in Int
          BY <1>1, <2>2
        <5>2. ASSUME a < p PROVE FALSE
          <6>1. h(a) < h(p)
            BY <1>6, <2>1, <5>2
          <6> QED
            BY <4>2, <5>1, <6>1
        <5> QED
          BY <4>2, <5>1, <5>2
      <4>4. p \in 1..(a - 1)
        BY <1>1, <2>1, <4>3
      <4>5. out[j] = fm[p]
        BY <1>6, <4>2
      <4> QED
        BY <2>1, <4>4, <4>5
    <3> QED
      BY <3>1, <3>2
  <2> HIDE DEF b
  <2>4. out[b].key = k /\ b \in 1..Len(out)
    BY <1>4, <2>1, <2>2
  <2>5. Matter!At(out, out[b].key) = b
    BY <1>4, <2>3, <2>4, AtIs
  <2>6. out[Matter!At(out, k)] = fm[a]
    BY <2>2, <2>4, <2>5
  <2> QED
    BY <2>6 DEF LineOf, a
<1>11. ASSUME NEW K, key \in K PROVE Matter!Others(out, K) = Matter!Others(fm, K)
  <2> DEFINE P == {j \in 1..n : fm[j].key \notin K}
             Q == {j \in 1..(n + 1) : out[j].key \notin K}
             g == [p \in P |-> h(p)]
  <2>1. ArePlaces(P) /\ ArePlaces(Q)
    BY <1>1, PlacesAreFinite
  <2>2. g \in [P -> Q]
    BY <1>6
  <2>3. \A q \in Q : \E p \in P : g[p] = q
    <3> TAKE q \in Q
    <3>1. q # i
      BY <1>4, <1>11
    <3>2. PICK p \in 1..n : h(p) = q
      BY <1>6, <3>1
    <3>3. p \in P
      BY <1>6, <3>2
    <3> QED
      BY <3>2, <3>3
  <2>4. \A p, q \in P : p < q => g[p] < g[q]
    BY <1>6
  <2>5. \A p \in P : out[g[p]] = fm[p]
    BY <1>6
  <2> HIDE DEF g, P, Q
  <2>6. AlikeAt(fm, P, out, Q, g)
    BY <2>2, <2>3, <2>4, <2>5 DEF AlikeAt
  <2>7. Filtered(out, Q) = Filtered(fm, P)
    BY <2>1, <2>6, FilteredAlike
  <2> QED
    BY <1>1, <1>5, <2>7, OthersIs DEF P, Q
<1> QED
  BY <1>4, <1>8, <1>9, <1>10, <1>11 DEF HasSet, out, m

LEMMA SetValueSets ==
  ASSUME NEW X, NEW fm \in Seq(X), NEW key, NEW word, Matter!Set(key, word) \in X,
         key \in Matter!Keys(fm) => LineOf(fm, key).words # << >>
  PROVE  HasSet(fm, Matter!SetValue(fm, key, word), key, Matter!Set(key, word), X)
<1> DEFINE line == Matter!Set(key, word)
<1>1. line.key = key /\ line \in X
  BY DEF Matter!Set, Matter!Line
<1> HIDE DEF line
<1>2. CASE key \in Matter!Keys(fm)
  <2> DEFINE i == Matter!At(fm, key)
  <2>1. i \in 1..Len(fm) /\ fm[i].key = key /\ \A j \in 1..(i - 1) : fm[j].key # key
    BY <1>2, AtIsFirst
  <2>2. fm[i].words # << >>
    BY <1>2 DEF LineOf
  <2>3. Matter!SetValue(fm, key, word) = Spliced(fm, i, i + 1, <<line>>)
    BY <1>2, <2>2 DEF Matter!SetValue, Matter!Ahead, Matter!From, Spliced, line
  <2> HIDE DEF i
  <2>4. HasSet(fm, Spliced(fm, i, i + 1, <<line>>), line.key, line, X)
    BY <1>1, <2>1, LineReplaced
  <2> QED
    BY <1>1, <2>3, <2>4 DEF line
<1>3. CASE key \notin Matter!Keys(fm)
  <2> DEFINE i == IF fm # << >> /\ fm[1].key = "type" THEN 2 ELSE 1
  <2>1. Matter!SetValue(fm, key, word) = Spliced(fm, i, i, <<line>>)
    BY <1>3 DEF Matter!SetValue, Matter!Ahead, Matter!From, Spliced, line
  <2>2. i \in 1..(Len(fm) + 1)
    OBVIOUS
  <2> HIDE DEF i
  <2>3. HasSet(fm, Spliced(fm, i, i, <<line>>), line.key, line, X)
    BY <1>1, <1>3, <2>2, LineInserted
  <2> QED
    BY <1>1, <2>1, <2>3 DEF line
<1> QED
  BY <1>2, <1>3

LEMMA SetValueIsLines ==
  ASSUME NEW X, NEW fm \in Seq(X), NEW key, NEW word, Matter!Set(key, word) \in X
  PROVE  Matter!SetValue(fm, key, word) \in Seq(X)
<1> DEFINE line == Matter!Set(key, word)
           n == Len(fm)
           piece(i, j) == SubSeq(fm, 1, i - 1) \o <<line>> \o SubSeq(fm, j, n)
<1>1. line \in X /\ <<line>> \in Seq(X) /\ n \in Nat /\ \A p \in 1..n : fm[p] \in X
  OBVIOUS
<1> HIDE DEF line, n
<1>2. ASSUME NEW i \in 1..(n + 1), NEW j \in 1..(n + 2) PROVE piece(i, j) \in Seq(X)
  <2>1. i - 1 \in Int /\ \A p \in 1..(i - 1) : fm[p] \in X
    BY <1>1
  <2>2. SubSeq(fm, 1, i - 1) \in Seq(X)
    BY <2>1, SubSeqProperties
  <2>3. j \in Int /\ n \in Int /\ \A p \in j..n : fm[p] \in X
    BY <1>1
  <2>4. SubSeq(fm, j, n) \in Seq(X)
    BY <2>3, SubSeqProperties
  <2> QED
    BY <1>1, <2>2, <2>4
<1>3. CASE key \in Matter!Keys(fm)
  <2> DEFINE i == Matter!At(fm, key)
             j == IF fm[i].words = << >> THEN i + 2 ELSE i + 1
  <2>1. i \in 1..n
    BY <1>3, AtIsFirst DEF n
  <2>2. Matter!SetValue(fm, key, word) = piece(i, j)
    BY <1>3 DEF Matter!SetValue, Matter!Ahead, Matter!From, line, n
  <2> HIDE DEF i, piece
  <2>3. i \in 1..(n + 1) /\ j \in 1..(n + 2)
    BY <1>1, <2>1
  <2> QED
    BY <1>2, <2>2, <2>3
<1>4. CASE key \notin Matter!Keys(fm)
  <2> DEFINE i == IF fm # << >> /\ fm[1].key = "type" THEN 2 ELSE 1
  <2>1. Matter!SetValue(fm, key, word) = piece(i, i)
    BY <1>4 DEF Matter!SetValue, Matter!Ahead, Matter!From, line, n
  <2>2. i \in 1..(n + 1) /\ i \in 1..(n + 2)
    BY <1>1 DEF n
  <2> HIDE DEF i, piece
  <2> QED
    BY <1>2, <2>1, <2>2
<1> QED
  BY <1>3, <1>4

(* A missing key gets its default. *)
WithDefault(fm, key) ==
  IF key \in Matter!Keys(fm) THEN fm ELSE Matter!SetValue(fm, key, "default")
FilledStates(fm) ==
  CHOOSE after : after = [i \in 0..Len(Matter!Defaults) |->
    IF i = 0 THEN fm
    ELSE IF Matter!Defaults[i] \in Matter!Keys(after[i - 1]) THEN after[i - 1]
    ELSE Matter!SetValue(after[i - 1], Matter!Defaults[i], "default")]
DefaultLines == {Matter!Set(Matter!Defaults[i], "default") : i \in DOMAIN Matter!Defaults}

LEMMA ThereAreDefaults == Len(Matter!Defaults) \in Nat /\ DOMAIN Matter!Defaults = 1..Len(Matter!Defaults)
BY DEF Matter!Defaults

LEMMA FilledSteps ==
  ASSUME NEW X, NEW fm \in Seq(X), DefaultLines \subseteq X
  PROVE  LET f == FilledStates(fm)
         IN  /\ Matter!EnsureDefaults(fm) = f[Len(Matter!Defaults)]
             /\ f[0] = fm
             /\ \A n \in 1..Len(Matter!Defaults) : f[n] = WithDefault(f[n - 1], Matter!Defaults[n])
<1> DEFINE N == Len(Matter!Defaults)
           D == Seq(X)
           step == [n \in 1..N |-> [d \in D |-> WithDefault(d, Matter!Defaults[n])]]
           body(after, n) == IF n = 0 THEN fm
                             ELSE IF Matter!Defaults[n] \in Matter!Keys(after[n - 1]) THEN after[n - 1]
                             ELSE Matter!SetValue(after[n - 1], Matter!Defaults[n], "default")
           f == FilledStates(fm)
<1>1. N \in Nat /\ fm \in D /\ DOMAIN Matter!Defaults = 1..N
  BY ThereAreDefaults
<1>2. \A n \in 1..N : \A d \in D : WithDefault(d, Matter!Defaults[n]) \in D
  <2> TAKE n \in 1..N
  <2> TAKE d \in D
  <2>1. Matter!Set(Matter!Defaults[n], "default") \in X
    BY <1>1 DEF DefaultLines
  <2>2. Matter!SetValue(d, Matter!Defaults[n], "default") \in D
    BY <2>1, SetValueIsLines
  <2> QED
    BY <2>2 DEF WithDefault
<1> HIDE DEF D
<1>3. step \in [1..N -> [D -> D]]
  BY <1>2
<1> HIDE DEF N, step
<1>4. \E g : Recursion(g, N, D, fm, step)
  BY <1>1, <1>3, RecursionExists
<1>5. PICK g \in [0..N -> D] : g[0] = fm /\ \A n \in 1..N : g[n] = step[n][g[n - 1]]
  BY <1>4 DEF Recursion
<1>6. ASSUME NEW n \in 1..N PROVE g[n] = WithDefault(g[n - 1], Matter!Defaults[n])
  <2>1. g[n - 1] \in D
    BY <1>1
  <2> QED
    BY <1>5, <2>1 DEF step
<1>7. \A n \in 0..N : g[n] = body(g, n)
  <2> TAKE n \in 0..N
  <2>1. n # 0 => n \in 1..N
    BY <1>1
  <2> QED
    BY <1>5, <1>6, <2>1 DEF WithDefault
<1> HIDE DEF body
<1>8. g = [n \in 0..N |-> body(g, n)]
  BY <1>5, <1>7
<1>9. f = CHOOSE after : after = [n \in 0..N |-> body(after, n)]
  BY DEF FilledStates, body, N
<1>10. Matter!EnsureDefaults(fm) = f[N]
  BY DEF Matter!EnsureDefaults, FilledStates, N
<1> HIDE DEF f
<1>11. f = [n \in 0..N |-> body(f, n)]
  BY <1>8, <1>9
<1>12. f[0] = fm /\ \A n \in 1..N : f[n] = WithDefault(f[n - 1], Matter!Defaults[n])
  <2>1. \A n \in 0..N : f[n] = body(f, n)
    BY <1>11
  <2>2. 0 \in 0..N /\ \A n \in 1..N : n \in 0..N /\ n # 0
    BY <1>1
  <2> QED
    BY <2>1, <2>2 DEF body, WithDefault
<1> QED
  BY <1>10, <1>12 DEF f, N

(* The values of the settings are set one after another. *)
SetStates(fm, settings) ==
  CHOOSE after : after = [i \in 0..Len(settings) |->
    IF i = 0 THEN fm ELSE Matter!SetValue(after[i - 1], settings[i][1], settings[i][2])]
SettingLines(settings) ==
  {Matter!Set(settings[i][1], settings[i][2]) : i \in 1..Len(settings)}

LEMMA SetSteps ==
  ASSUME NEW X, NEW fm \in Seq(X), NEW settings, Len(settings) \in Nat, SettingLines(settings) \subseteq X
  PROVE  LET f == SetStates(fm, settings)
         IN  /\ f[0] = fm
             /\ \A n \in 1..Len(settings) :
                  f[n] = Matter!SetValue(f[n - 1], settings[n][1], settings[n][2])
<1> DEFINE N == Len(settings)
           D == Seq(X)
           set(d, n) == Matter!SetValue(d, settings[n][1], settings[n][2])
           step == [n \in 1..N |-> [d \in D |-> set(d, n)]]
           body(after, n) == IF n = 0 THEN fm ELSE set(after[n - 1], n)
           f == SetStates(fm, settings)
<1>1. N \in Nat /\ fm \in D
  OBVIOUS
<1>2. \A n \in 1..N : \A d \in D : set(d, n) \in D
  <2> TAKE n \in 1..N
  <2> TAKE d \in D
  <2>1. Matter!Set(settings[n][1], settings[n][2]) \in X
    BY DEF SettingLines
  <2> QED
    BY <2>1, SetValueIsLines
<1>9. f = CHOOSE after : after = [n \in 0..N |-> body(after, n)]
  BY DEF SetStates
<1> HIDE DEF D, set
<1>3. step \in [1..N -> [D -> D]]
  BY <1>2
<1> HIDE DEF N, step
<1>4. \E g : Recursion(g, N, D, fm, step)
  BY <1>1, <1>3, RecursionExists
<1>5. PICK g \in [0..N -> D] : g[0] = fm /\ \A n \in 1..N : g[n] = step[n][g[n - 1]]
  BY <1>4 DEF Recursion
<1>6. ASSUME NEW n \in 1..N PROVE g[n] = set(g[n - 1], n)
  <2>1. g[n - 1] \in D
    BY <1>1
  <2> QED
    BY <1>5, <2>1 DEF step
<1>7. \A n \in 0..N : g[n] = body(g, n)
  <2> TAKE n \in 0..N
  <2>1. n # 0 => n \in 1..N
    BY <1>1
  <2> QED
    BY <1>5, <1>6, <2>1
<1> HIDE DEF body
<1>8. g = [n \in 0..N |-> body(g, n)]
  BY <1>5, <1>7
<1> HIDE DEF f
<1>11. f = [n \in 0..N |-> body(f, n)]
  BY <1>8, <1>9
<1>12. f[0] = fm /\ \A n \in 1..N : f[n] = set(f[n - 1], n)
  <2>1. \A n \in 0..N : f[n] = body(f, n)
    BY <1>11
  <2>2. 0 \in 0..N /\ \A n \in 1..N : n \in 0..N /\ n # 0
    BY <1>1
  <2> QED
    BY <2>1, <2>2 DEF body
<1> QED
  BY <1>12 DEF f, N, set

LEMMA NormalizedIsSet ==
  ASSUME NEW parts0, NEW fm
  PROVE  LET filled == Matter!EnsureDefaults(fm)
             settings == Matter!Settings(parts0, filled)
         IN  Matter!Normalized(parts0, fm) = SetStates(filled, settings)[Len(settings)]
BY DEF Matter!Normalized, SetStates

-----------------------------------------------------------------------------
(* Normalising a note: what is set *)

ContextKeys == {"firm", "client", "engagement"}
MeetingKeys == {"note_type", "title"}

(* A list of settings of keys that differ. *)
SetsApart(settings, keys) ==
  /\ settings \in Seq({settings[i] : i \in DOMAIN settings})
  /\ \A i \in 1..Len(settings) : settings[i][1] \in keys
  /\ \A i, j \in 1..Len(settings) : i # j => settings[i][1] # settings[j][1]

LEMMA NoneApart == ASSUME NEW keys PROVE SetsApart(<< >>, keys)
BY DEF SetsApart

LEMMA OneApart ==
  ASSUME NEW a, NEW keys, a[1] \in keys
  PROVE  SetsApart(<<a>>, keys)
<1> DEFINE s == <<a>>
<1>1. Len(s) = 1 /\ DOMAIN s = 1..1 /\ s[1] = a
  OBVIOUS
<1>2. s \in Seq({a})
  OBVIOUS
<1> HIDE DEF s
<1>3. {s[i] : i \in DOMAIN s} = {a}
  BY <1>1
<1>4. SetsApart(s, keys)
  BY <1>1, <1>2, <1>3 DEF SetsApart
<1> QED
  BY <1>4 DEF s

LEMMA TwoApart ==
  ASSUME NEW a, NEW b, NEW keys, a[1] \in keys, b[1] \in keys, a[1] # b[1]
  PROVE  SetsApart(<<a, b>>, keys)
<1> DEFINE s == <<a, b>>
<1>1. Len(s) = 2 /\ DOMAIN s = 1..2 /\ s[1] = a /\ s[2] = b
  OBVIOUS
<1>2. s \in Seq({a, b})
  OBVIOUS
<1> HIDE DEF s
<1>3. {s[i] : i \in DOMAIN s} = {a, b}
  BY <1>1
<1>4. SetsApart(s, keys)
  BY <1>1, <1>2, <1>3 DEF SetsApart
<1> QED
  BY <1>4 DEF s

LEMMA ThreeApart ==
  ASSUME NEW a, NEW b, NEW c, NEW keys, a[1] \in keys, b[1] \in keys, c[1] \in keys,
         a[1] # b[1], a[1] # c[1], b[1] # c[1]
  PROVE  SetsApart(<<a, b, c>>, keys)
<1> DEFINE s == <<a, b, c>>
<1>1. Len(s) = 3 /\ DOMAIN s = 1..3 /\ s[1] = a /\ s[2] = b /\ s[3] = c
  OBVIOUS
<1>2. s \in Seq({a, b, c})
  OBVIOUS
<1> HIDE DEF s
<1>3. {s[i] : i \in DOMAIN s} = {a, b, c}
  BY <1>1
<1>4. SetsApart(s, keys)
  BY <1>1, <1>2, <1>3 DEF SetsApart
<1> QED
  BY <1>4 DEF s

LEMMA SettingsAreApart ==
  ASSUME NEW path, NEW fm
  PROVE  SetsApart(Matter!Settings(path, fm), ContextKeys \cup MeetingKeys)
<1> DEFINE w == Matter!InferWorkContext(path)
           t == IF Matter!LooksLikeMeeting(path, fm)
                  THEN <<<<"note_type", "meeting">>, <<"title", path[Len(path)]>>>> ELSE << >>
           n == Len(w)
           k == Len(t)
           out == w \o t
           X == {w[i] : i \in DOMAIN w} \cup {t[i] : i \in DOMAIN t}
<1>1. SetsApart(w, ContextKeys)
  <2> DEFINE firm == <<"firm", path[2]>>
             inClients == Len(path) >= 4 /\ path[3] = "Clients"
             clientIs(at) == <<"client", path[at]>>
             engagement(kind) == <<"engagement", kind>>
  <2>1. \/ w = << >>
        \/ w = <<firm>>
        \/ w = <<firm, clientIs(4), engagement("Client")>>
        \/ w = <<firm, clientIs(5), engagement("Lead")>>
        \/ w = <<firm, engagement("Lead")>>
    BY DEF Matter!InferWorkContext
  <2>2. firm[1] = "firm" /\ (\A at : clientIs(at)[1] = "client") /\ \A kind : engagement(kind)[1] = "engagement"
    OBVIOUS
  <2> HIDE DEF firm, clientIs, engagement, w
  <2>3. ASSUME NEW at, NEW kind
        PROVE  /\ SetsApart(<< >>, ContextKeys) /\ SetsApart(<<firm>>, ContextKeys)
               /\ SetsApart(<<firm, engagement(kind)>>, ContextKeys)
               /\ SetsApart(<<firm, clientIs(at), engagement(kind)>>, ContextKeys)
    <3> DEFINE c == clientIs(at)
               e == engagement(kind)
    <3>1. /\ firm[1] = "firm" /\ c[1] = "client" /\ e[1] = "engagement"
          /\ firm[1] \in ContextKeys /\ c[1] \in ContextKeys /\ e[1] \in ContextKeys
      BY <2>2 DEF ContextKeys
    <3>2. firm[1] # c[1] /\ firm[1] # e[1] /\ c[1] # e[1]
      BY <3>1
    <3> HIDE DEF c, e
    <3>3. SetsApart(<<firm>>, ContextKeys)
      BY <3>1, OneApart
    <3>4. SetsApart(<<firm, e>>, ContextKeys)
      BY <3>1, <3>2, TwoApart
    <3>5. SetsApart(<<firm, c, e>>, ContextKeys)
      BY <3>1, <3>2, ThreeApart
    <3> QED
      BY <3>3, <3>4, <3>5, NoneApart DEF c, e
  <2> QED
    BY <2>1, <2>3
<1>2. SetsApart(t, MeetingKeys)
  <2> DEFINE x == <<"note_type", "meeting">>
             y == <<"title", path[Len(path)]>>
  <2>1. t = << >> \/ t = <<x, y>>
    OBVIOUS
  <2>2. x[1] = "note_type" /\ y[1] = "title" /\ x[1] \in MeetingKeys /\ y[1] \in MeetingKeys
    BY DEF MeetingKeys
  <2>3. x[1] # y[1]
    BY <2>2
  <2> HIDE DEF x, y, t
  <2>4. SetsApart(<<x, y>>, MeetingKeys)
    BY <2>2, <2>3, TwoApart
  <2> QED
    BY <2>1, <2>4, NoneApart
<1>3. Matter!Settings(path, fm) = out
  BY DEF Matter!Settings
<1> HIDE DEF w, t
<1>4. w \in Seq(X) /\ t \in Seq(X)
  <2>1. w \in Seq({w[i] : i \in DOMAIN w}) /\ t \in Seq({t[i] : i \in DOMAIN t})
    BY <1>1, <1>2 DEF SetsApart
  <2> QED
    BY <2>1
<1> HIDE DEF X, out
<1>5. /\ n \in Nat /\ k \in Nat
      /\ out \in Seq(X) /\ Len(out) = n + k
      /\ \A i \in 1..n : out[i] = w[i]
      /\ \A i \in (n + 1)..(n + k) : out[i] = t[i - n] /\ i - n \in 1..k
  BY <1>4 DEF out
<1> HIDE DEF n, k
<1>6. /\ \A i \in 1..n : out[i][1] \in ContextKeys
      /\ \A i, j \in 1..n : i # j => out[i][1] # out[j][1]
  BY <1>1, <1>5 DEF SetsApart, n
<1>7. /\ \A i \in (n + 1)..(n + k) : out[i][1] \in MeetingKeys
      /\ \A i, j \in (n + 1)..(n + k) : i # j => out[i][1] # out[j][1]
  <2>1. /\ \A i \in 1..k : t[i][1] \in MeetingKeys
        /\ \A i, j \in 1..k : i # j => t[i][1] # t[j][1]
    BY <1>2 DEF SetsApart, k
  <2>2. \A i, j \in (n + 1)..(n + k) : i # j => i - n # j - n
    BY <1>5
  <2> QED
    BY <1>5, <2>1, <2>2
<1>8. ContextKeys \cap MeetingKeys = {}
  BY DEF ContextKeys, MeetingKeys
<1>9. \A i \in 1..Len(out) : i \in 1..n \/ i \in (n + 1)..(n + k)
  BY <1>5
<1>10. \A i \in 1..Len(out) : out[i][1] \in ContextKeys \cup MeetingKeys
  BY <1>6, <1>7, <1>9
<1>11. ASSUME NEW i \in 1..Len(out), NEW j \in 1..Len(out), i # j PROVE out[i][1] # out[j][1]
  <2>1. CASE i \in 1..n /\ j \in 1..n
    BY <1>6, <1>11, <2>1
  <2>2. CASE i \in (n + 1)..(n + k) /\ j \in (n + 1)..(n + k)
    BY <1>7, <1>11, <2>2
  <2>3. CASE i \in 1..n /\ j \in (n + 1)..(n + k)
    BY <1>6, <1>7, <1>8, <2>3
  <2>4. CASE j \in 1..n /\ i \in (n + 1)..(n + k)
    BY <1>6, <1>7, <1>8, <2>4
  <2> QED
    BY <1>9, <2>1, <2>2, <2>3, <2>4
<1>12. out \in Seq({out[i] : i \in DOMAIN out})
  BY <1>5
<1> QED
  BY <1>3, <1>10, <1>11, <1>12 DEF SetsApart

(* Settings look at no line but that of the meeting's id. *)
LEMMA SettingsAgree ==
  ASSUME NEW path, NEW fm, NEW out, "meeting_id" \in Matter!Keys(fm) <=> "meeting_id" \in Matter!Keys(out)
  PROVE  Matter!Settings(path, out) = Matter!Settings(path, fm)
BY DEF Matter!Settings, Matter!LooksLikeMeeting

(* The lines after the first n defaults are there. *)
FilledSoFar(e, n, fm, K, X) ==
  /\ e \in Seq(X)
  /\ Matter!Others(e, K) = Matter!Others(fm, K)
  /\ Matter!Keys(e) = Matter!Keys(fm) \cup {Matter!Defaults[i] : i \in 1..n}
  /\ \A k \in Matter!Keys(fm) : LineOf(e, k) = LineOf(fm, k)
  /\ \A k \in Matter!Keys(e) \ Matter!Keys(fm) : LineOf(e, k).words # << >>

LEMMA FilledAgain ==
  ASSUME NEW X, NEW fm \in Seq(X), DefaultLines \subseteq X, NEW K,
         \A i \in DOMAIN Matter!Defaults : Matter!Defaults[i] \in Matter!Keys(fm) \cup K,
         NEW n \in 1..Len(Matter!Defaults), NEW e, FilledSoFar(e, n - 1, fm, K, X)
  PROVE  FilledSoFar(WithDefault(e, Matter!Defaults[n]), n, fm, K, X)
<1> DEFINE key == Matter!Defaults[n]
           line == Matter!Set(key, "default")
           out == WithDefault(e, key)
<1>1. /\ e \in Seq(X) /\ Matter!Others(e, K) = Matter!Others(fm, K)
      /\ Matter!Keys(e) = Matter!Keys(fm) \cup {Matter!Defaults[i] : i \in 1..(n - 1)}
      /\ \A k \in Matter!Keys(fm) : LineOf(e, k) = LineOf(fm, k)
      /\ \A k \in Matter!Keys(e) \ Matter!Keys(fm) : LineOf(e, k).words # << >>
  BY DEF FilledSoFar
<1>2. Matter!Keys(e) \cup {key} = Matter!Keys(fm) \cup {Matter!Defaults[i] : i \in 1..n}
  <2>1. \A i \in 1..n : i = n \/ i \in 1..(n - 1)
    BY ThereAreDefaults
  <2>2. \A i \in 1..(n - 1) : i \in 1..n
    BY ThereAreDefaults
  <2>3. n \in 1..n
    BY ThereAreDefaults
  <2> QED
    BY <1>1, <2>1, <2>2, <2>3
<1>3. line \in X /\ line.words # << >>
  <2>1. n \in DOMAIN Matter!Defaults
    BY ThereAreDefaults
  <2>2. line \in DefaultLines
    BY <2>1 DEF DefaultLines
  <2> QED
    BY <2>2 DEF Matter!Set, Matter!Line
<1>4. CASE key \in Matter!Keys(e)
  <2>1. out = e
    BY <1>4 DEF WithDefault
  <2>2. Matter!Keys(e) \cup {key} = Matter!Keys(e)
    BY <1>4
  <2> HIDE DEF out, key
  <2>3. FilledSoFar(out, n, fm, K, X)
    BY <1>1, <1>2, <2>1, <2>2 DEF FilledSoFar
  <2> QED
    BY <2>3 DEF out, key
<1>5. CASE key \notin Matter!Keys(e)
  <2>1. out = Matter!SetValue(e, key, "default")
    BY <1>5 DEF WithDefault
  <2>2. HasSet(e, Matter!SetValue(e, key, "default"), key, line, X)
    BY <1>1, <1>3, <1>5, SetValueSets
  <2>3. key \in K
    BY <1>1, <1>5, ThereAreDefaults
  <2> HIDE DEF key, line, out
  <2>4. /\ out \in Seq(X)
        /\ Matter!Keys(out) = Matter!Keys(e) \cup {key}
        /\ LineOf(out, key) = line
        /\ \A k \in Matter!Keys(e) : k # key => LineOf(out, k) = LineOf(e, k)
        /\ Matter!Others(out, K) = Matter!Others(e, K)
    BY <2>1, <2>2, <2>3 DEF HasSet
  <2>5. \A k \in Matter!Keys(fm) : LineOf(out, k) = LineOf(fm, k)
    BY <1>1, <1>5, <2>4
  <2>6. \A k \in Matter!Keys(out) \ Matter!Keys(fm) : LineOf(out, k).words # << >>
    BY <1>1, <1>3, <2>4
  <2>7. FilledSoFar(out, n, fm, K, X)
    BY <1>1, <1>2, <2>4, <2>5, <2>6 DEF FilledSoFar
  <2> QED
    BY <2>7 DEF out, key
<1> QED
  BY <1>4, <1>5

LEMMA DefaultsAreFilled ==
  ASSUME NEW X, NEW fm \in Seq(X), DefaultLines \subseteq X, NEW K,
         \A i \in DOMAIN Matter!Defaults : Matter!Defaults[i] \in Matter!Keys(fm) \cup K
  PROVE  FilledSoFar(Matter!EnsureDefaults(fm), Len(Matter!Defaults), fm, K, X)
<1> DEFINE N == Len(Matter!Defaults)
           f == FilledStates(fm)
           P == {n \in 0..N : FilledSoFar(f[n], n, fm, K, X)}
<1>1. N \in Nat
  BY ThereAreDefaults
<1>2. /\ Matter!EnsureDefaults(fm) = f[N] /\ f[0] = fm
      /\ \A n \in 1..N : f[n] = WithDefault(f[n - 1], Matter!Defaults[n])
  BY FilledSteps
<1> HIDE DEF f
<1>3. 0 \in P
  <2>1. FilledSoFar(fm, 0, fm, K, X)
    BY DEF FilledSoFar
  <2> QED
    BY <1>1, <1>2, <2>1
<1>4. ASSUME NEW n \in 1..N, n - 1 \in P PROVE n \in P
  <2>1. FilledSoFar(WithDefault(f[n - 1], Matter!Defaults[n]), n, fm, K, X)
    BY <1>4, FilledAgain
  <2> QED
    BY <1>1, <1>2, <2>1
<1> HIDE DEF P, N
<1>5. 0..N \subseteq P
  BY <1>1, <1>3, <1>4, InductUpTo
<1>6. N \in P
  BY <1>1, <1>5
<1> QED
  BY <1>2, <1>6 DEF P, N

(* Nothing is missing. *)
LEMMA NothingToFill ==
  ASSUME NEW X, NEW fm \in Seq(X), DefaultLines \subseteq X,
         \A i \in DOMAIN Matter!Defaults : Matter!Defaults[i] \in Matter!Keys(fm)
  PROVE  Matter!EnsureDefaults(fm) = fm
<1> DEFINE N == Len(Matter!Defaults)
           f == FilledStates(fm)
           P == {n \in 0..N : f[n] = fm}
<1>1. N \in Nat
  BY ThereAreDefaults
<1>2. /\ Matter!EnsureDefaults(fm) = f[N] /\ f[0] = fm
      /\ \A n \in 1..N : f[n] = WithDefault(f[n - 1], Matter!Defaults[n])
  BY FilledSteps
<1> HIDE DEF f
<1>3. 0 \in P
  BY <1>1, <1>2
<1>4. ASSUME NEW n \in 1..N, n - 1 \in P PROVE n \in P
  BY <1>1, <1>2, <1>4, ThereAreDefaults DEF WithDefault
<1> HIDE DEF P, N
<1>5. 0..N \subseteq P
  BY <1>1, <1>3, <1>4, InductUpTo
<1>6. N \in P
  BY <1>1, <1>5
<1> QED
  BY <1>2, <1>6 DEF P, N

SetKeys(settings, n) == {settings[i][1] : i \in 1..n}

(* The first n settings are made. *)
SetSoFar(e, n, fm, settings, K, X) ==
  /\ e \in Seq(X)
  /\ Matter!Others(e, K) = Matter!Others(fm, K)
  /\ Matter!Keys(e) = Matter!Keys(fm) \cup SetKeys(settings, n)
  /\ \A i \in 1..n : LineOf(e, settings[i][1]) = Matter!Set(settings[i][1], settings[i][2])
  /\ \A k \in Matter!Keys(fm) \ SetKeys(settings, n) : LineOf(e, k) = LineOf(fm, k)

LEMMA SetAgain ==
  ASSUME NEW X, NEW fm \in Seq(X), NEW settings, NEW K, NEW keys, SetsApart(settings, keys),
         SettingLines(settings) \subseteq X, SetKeys(settings, Len(settings)) \subseteq K,
         \A k \in Matter!Keys(fm) \cap SetKeys(settings, Len(settings)) : LineOf(fm, k).words # << >>,
         NEW n \in 1..Len(settings), NEW e, SetSoFar(e, n - 1, fm, settings, K, X)
  PROVE  SetSoFar(Matter!SetValue(e, settings[n][1], settings[n][2]), n, fm, settings, K, X)
<1> DEFINE key == settings[n][1]
           word == settings[n][2]
           line == Matter!Set(key, word)
           out == Matter!SetValue(e, key, word)
           N == Len(settings)
<1>1. /\ e \in Seq(X)
      /\ Matter!Others(e, K) = Matter!Others(fm, K)
      /\ Matter!Keys(e) = Matter!Keys(fm) \cup SetKeys(settings, n - 1)
      /\ \A i \in 1..(n - 1) : LineOf(e, settings[i][1]) = Matter!Set(settings[i][1], settings[i][2])
      /\ \A k \in Matter!Keys(fm) \ SetKeys(settings, n - 1) : LineOf(e, k) = LineOf(fm, k)
  BY DEF SetSoFar
<1>2. N \in Nat /\ \A i, j \in 1..N : i # j => settings[i][1] # settings[j][1]
  BY DEF SetsApart
<1>3. /\ n \in 1..N /\ n - 1 \in 0..N
      /\ \A i \in 1..n : i = n \/ i \in 1..(n - 1)
      /\ \A i \in 1..(n - 1) : i \in 1..n /\ i \in 1..N /\ i # n
      /\ n \in 1..n
  BY <1>2
<1>4. SetKeys(settings, n) = SetKeys(settings, n - 1) \cup {key} /\ key \in SetKeys(settings, N)
      /\ key \notin SetKeys(settings, n - 1)
  BY <1>2, <1>3 DEF SetKeys
<1>5. key \in K
  BY <1>4
<1>6. line \in X
  BY DEF SettingLines
<1>7. key \in Matter!Keys(e) => LineOf(e, key).words # << >>
  BY <1>1, <1>4
<1>8. HasSet(e, out, key, line, X)
  BY <1>1, <1>6, <1>7, SetValueSets
<1> HIDE DEF key, word, line, out
<1>9. /\ out \in Seq(X)
      /\ Matter!Keys(out) = Matter!Keys(e) \cup {key}
      /\ LineOf(out, key) = line
      /\ \A k \in Matter!Keys(e) : k # key => LineOf(out, k) = LineOf(e, k)
      /\ Matter!Others(out, K) = Matter!Others(e, K)
  BY <1>5, <1>8 DEF HasSet
<1>10. ASSUME NEW i \in 1..n
       PROVE  LineOf(out, settings[i][1]) = Matter!Set(settings[i][1], settings[i][2])
  <2>1. CASE i = n
    BY <1>9, <2>1 DEF key, word, line
  <2>2. CASE i # n
    <3>1. i \in 1..(n - 1)
      BY <1>3, <2>2
    <3>2. settings[i][1] # key /\ settings[i][1] \in Matter!Keys(e)
      BY <1>1, <1>2, <1>3, <2>2, <3>1 DEF SetKeys, key
    <3>3. LineOf(e, settings[i][1]) = Matter!Set(settings[i][1], settings[i][2])
      BY <1>1, <3>1
    <3> QED
      BY <1>9, <3>2, <3>3
  <2> QED
    BY <2>1, <2>2
<1>11. ASSUME NEW k \in Matter!Keys(fm) \ SetKeys(settings, n) PROVE LineOf(out, k) = LineOf(fm, k)
  BY <1>1, <1>4, <1>9
<1>12. Matter!Keys(out) = Matter!Keys(fm) \cup SetKeys(settings, n)
  BY <1>1, <1>4, <1>9
<1>13. SetSoFar(out, n, fm, settings, K, X)
  BY <1>1, <1>9, <1>10, <1>11, <1>12 DEF SetSoFar
<1> QED
  BY <1>13 DEF out, key, word

LEMMA SettingsAreSet ==
  ASSUME NEW X, NEW fm \in Seq(X), NEW settings, NEW K, NEW keys, SetsApart(settings, keys),
         SettingLines(settings) \subseteq X, SetKeys(settings, Len(settings)) \subseteq K,
         \A k \in Matter!Keys(fm) \cap SetKeys(settings, Len(settings)) : LineOf(fm, k).words # << >>
  PROVE  SetSoFar(SetStates(fm, settings)[Len(settings)], Len(settings), fm, settings, K, X)
<1> DEFINE N == Len(settings)
           f == SetStates(fm, settings)
           P == {n \in 0..N : SetSoFar(f[n], n, fm, settings, K, X)}
<1>1. N \in Nat
  BY DEF SetsApart
<1>2. f[0] = fm /\ \A n \in 1..N : f[n] = Matter!SetValue(f[n - 1], settings[n][1], settings[n][2])
  BY <1>1, SetSteps
<1> HIDE DEF f
<1>3. 0 \in P
  <2>1. SetSoFar(fm, 0, fm, settings, K, X)
    BY DEF SetSoFar, SetKeys
  <2> QED
    BY <1>1, <1>2, <2>1
<1>4. ASSUME NEW n \in 1..N, n - 1 \in P PROVE n \in P
  <2>1. SetSoFar(Matter!SetValue(f[n - 1], settings[n][1], settings[n][2]), n, fm, settings, K, X)
    BY <1>4, SetAgain
  <2> QED
    BY <1>1, <1>2, <2>1
<1> HIDE DEF P, N
<1>5. 0..N \subseteq P
  BY <1>1, <1>3, <1>4, InductUpTo
<1>6. N \in P
  BY <1>1, <1>5
<1> QED
  BY <1>6 DEF P, N, f

(* Everything is set already. *)
LEMMA NothingToSet ==
  ASSUME NEW X, NEW fm \in Seq(X), NEW settings, Len(settings) \in Nat, SettingLines(settings) \subseteq X,
         \A i \in 1..Len(settings) :
           /\ settings[i][1] \in Matter!Keys(fm)
           /\ LineOf(fm, settings[i][1]) = Matter!Set(settings[i][1], settings[i][2])
  PROVE  SetStates(fm, settings)[Len(settings)] = fm
<1> DEFINE N == Len(settings)
           f == SetStates(fm, settings)
           P == {n \in 0..N : f[n] = fm}
<1>1. N \in Nat
  OBVIOUS
<1>2. f[0] = fm /\ \A n \in 1..N : f[n] = Matter!SetValue(f[n - 1], settings[n][1], settings[n][2])
  BY <1>1, SetSteps
<1> HIDE DEF f
<1>3. 0 \in P
  BY <1>1, <1>2
<1>4. ASSUME NEW n \in 1..N, n - 1 \in P PROVE n \in P
  <2> DEFINE key == settings[n][1]
             word == settings[n][2]
             line == Matter!Set(key, word)
  <2>1. line \in X /\ key \in Matter!Keys(fm) /\ LineOf(fm, key) = line
    BY DEF SettingLines
  <2>2. line.words # << >>
    BY DEF Matter!Set, Matter!Line
  <2>3. HasSet(fm, Matter!SetValue(fm, key, word), key, line, X)
    BY <2>1, <2>2, SetValueSets
  <2>4. Matter!SetValue(fm, key, word) = fm
    BY <2>1, <2>3 DEF HasSet
  <2>5. f[n] = Matter!SetValue(fm, key, word)
    BY <1>2, <1>4
  <2> QED
    BY <1>1, <2>4, <2>5
<1> HIDE DEF P, N
<1>5. 0..N \subseteq P
  BY <1>1, <1>3, <1>4, InductUpTo
<1>6. N \in P
  BY <1>1, <1>5
<1> QED
  BY <1>6 DEF P, N, f

(* Normalising sets what the place and the name of a note say and the      *)
(* defaults it lacks, keeps the rest in its order, and settles in one run. *)
THEOREM NormalizingKeepsTheRest ==
  ASSUME NEW fm, IsList(fm), NEW path
  PROVE  Matter!NormalizeKeepsTheRest(path, fm)
<1> DEFINE settings == Matter!Settings(path, fm)
           N == Len(settings)
           set == {settings[i][1] : i \in DOMAIN settings}
           added == {Matter!Defaults[i] : i \in DOMAIN Matter!Defaults} \ Matter!Keys(fm)
           K == set \cup added
           X == {fm[i] : i \in DOMAIN fm} \cup DefaultLines \cup SettingLines(settings)
           filled == Matter!EnsureDefaults(fm)
           out == Matter!Normalized(path, fm)
           keys == ContextKeys \cup MeetingKeys
<1> SUFFICES ASSUME ~\E i \in DOMAIN fm : fm[i].key \in set /\ fm[i].words = << >>
             PROVE  /\ Matter!Others(out, K) = Matter!Others(fm, K)
                    /\ \A i \in DOMAIN settings : out[Matter!At(out, settings[i][1])]
                                                    = Matter!Set(settings[i][1], settings[i][2])
                    /\ Matter!Normalized(path, out) = out
  BY DEF Matter!NormalizeKeepsTheRest
<1>1. fm \in Seq(X) /\ DefaultLines \subseteq X /\ SettingLines(settings) \subseteq X
  BY DEF IsList
<1>2. /\ SetsApart(settings, keys) /\ N \in Nat /\ DOMAIN settings = 1..N
      /\ \A i \in 1..N : settings[i][1] \in keys
  <2>1. SetsApart(settings, keys)
    BY SettingsAreApart
  <2> HIDE DEF settings, keys
  <2>2. settings \in Seq({settings[i] : i \in DOMAIN settings})
    BY <2>1 DEF SetsApart
  <2>3. N \in Nat /\ DOMAIN settings = 1..N
    BY <2>2
  <2> QED
    BY <2>1, <2>3 DEF SetsApart
<1>3. set = SetKeys(settings, N)
  BY <1>2 DEF SetKeys
<1>4. \A i \in DOMAIN Matter!Defaults : Matter!Defaults[i] \in Matter!Keys(fm) \cup K
  OBVIOUS
<1>5. \A k \in Matter!Keys(fm) \cap set : LineOf(fm, k).words # << >>
  <2> TAKE k \in Matter!Keys(fm) \cap set
  <2>1. Matter!At(fm, k) \in 1..Len(fm) /\ fm[Matter!At(fm, k)].key = k
    BY <1>1, AtIsFirst
  <2>2. Matter!At(fm, k) \in DOMAIN fm
    BY <1>1, <2>1
  <2> QED
    BY <2>1, <2>2 DEF LineOf
<1>6. "meeting_id" \notin {Matter!Defaults[i] : i \in DOMAIN Matter!Defaults} /\ "meeting_id" \notin keys
  BY DEF Matter!Defaults, ContextKeys, MeetingKeys
<1> HIDE DEF X, K, filled
<1>7. FilledSoFar(filled, Len(Matter!Defaults), fm, K, X)
  BY <1>1, <1>4, DefaultsAreFilled DEF filled
<1>8. /\ filled \in Seq(X)
      /\ Matter!Others(filled, K) = Matter!Others(fm, K)
      /\ Matter!Keys(filled) = Matter!Keys(fm) \cup {Matter!Defaults[i] : i \in DOMAIN Matter!Defaults}
      /\ \A k \in Matter!Keys(fm) : LineOf(filled, k) = LineOf(fm, k)
      /\ \A k \in Matter!Keys(filled) \ Matter!Keys(fm) : LineOf(filled, k).words # << >>
  BY <1>7, ThereAreDefaults DEF FilledSoFar
<1>9. Matter!Settings(path, filled) = settings
  BY <1>6, <1>8, SettingsAgree
<1>10. out = SetStates(filled, settings)[N]
  BY <1>9, NormalizedIsSet DEF filled
<1> HIDE DEF out, settings, keys
<1>11. SetSoFar(out, N, filled, settings, K, X)
  <2>1. SetKeys(settings, N) \subseteq K
    BY <1>3 DEF K
  <2>2. \A k \in Matter!Keys(filled) \cap SetKeys(settings, N) : LineOf(filled, k).words # << >>
    BY <1>3, <1>5, <1>8
  <2> QED
    BY <1>1, <1>2, <1>8, <1>10, <2>1, <2>2, SettingsAreSet
<1>12. /\ out \in Seq(X)
       /\ Matter!Others(out, K) = Matter!Others(filled, K)
       /\ Matter!Keys(out) = Matter!Keys(filled) \cup set
       /\ \A i \in 1..N : LineOf(out, settings[i][1]) = Matter!Set(settings[i][1], settings[i][2])
  BY <1>3, <1>11 DEF SetSoFar
<1>13. Matter!Normalized(path, out) = out
  <2>1. Matter!EnsureDefaults(out) = out
    <3>1. \A i \in DOMAIN Matter!Defaults : Matter!Defaults[i] \in Matter!Keys(out)
      BY <1>8, <1>12
    <3> QED
      BY <1>1, <1>12, <3>1, NothingToFill
  <2>2. Matter!Settings(path, out) = settings
    <3>1. "meeting_id" \notin set
      BY <1>2, <1>6
    <3>2. "meeting_id" \in Matter!Keys(fm) <=> "meeting_id" \in Matter!Keys(out)
      BY <1>6, <1>8, <1>12, <3>1
    <3> QED
      BY <3>2, SettingsAgree DEF settings
  <2>3. SetStates(out, settings)[N] = out
    <3>1. \A i \in 1..N : settings[i][1] \in Matter!Keys(out)
      BY <1>2, <1>12
    <3> QED
      BY <1>1, <1>2, <1>12, <3>1, NothingToSet
  <2> QED
    BY <2>1, <2>2, <2>3, NormalizedIsSet
<1> QED
  BY <1>2, <1>8, <1>12, <1>13 DEF LineOf

-----------------------------------------------------------------------------
(* Tags *)

LEMMA BlockEnds ==
  ASSUME NEW X, NEW fm \in Seq(X), NEW i \in 1..Len(fm)
  PROVE  /\ Matter!BlockEnd(fm, i) \in (i + 1)..(Len(fm) + 1)
         /\ \A j \in (i + 1)..(Matter!BlockEnd(fm, i) - 1) : ~Matter!IsKey(fm[j])
         /\ Matter!BlockEnd(fm, i) <= Len(fm) => Matter!IsKey(fm[Matter!BlockEnd(fm, i)])
<1> DEFINE n == Len(fm)
           S == {j \in (i + 1)..n : Matter!IsKey(fm[j])}
           b == Matter!BlockEnd(fm, i)
<1>1. n \in Nat /\ S \subseteq Nat /\ i \in 1..n
  OBVIOUS
<1>2. b = IF S = {} THEN n + 1 ELSE CHOOSE j \in S : \A k \in S : j <= k
  BY DEF Matter!BlockEnd
<1> HIDE DEF b
<1>3. CASE S = {}
  BY <1>1, <1>2, <1>3 DEF b
<1>4. CASE S # {}
  <2>1. \E j \in S : \A k \in S : j <= k
    BY <1>1, <1>4, Least
  <2> HIDE DEF S
  <2>2. b \in S /\ \A k \in S : b <= k
    BY <1>2, <1>4, <2>1
  <2>3. b \in (i + 1)..n /\ Matter!IsKey(fm[b])
    BY <2>2 DEF S
  <2>4. \A j \in (i + 1)..(b - 1) : j \notin S /\ j \in (i + 1)..n
    BY <1>1, <2>2, <2>3
  <2>5. \A j \in (i + 1)..(b - 1) : ~Matter!IsKey(fm[j])
    BY <2>4 DEF S
  <2> QED
    BY <1>1, <2>3, <2>5 DEF b, n
<1> QED
  BY <1>3, <1>4

LEMMA BlockEndIs ==
  ASSUME NEW X, NEW fm \in Seq(X), NEW i \in 1..Len(fm), NEW b \in (i + 1)..(Len(fm) + 1),
         \A j \in (i + 1)..(b - 1) : ~Matter!IsKey(fm[j]),
         b <= Len(fm) => Matter!IsKey(fm[b])
  PROVE  Matter!BlockEnd(fm, i) = b
<1> DEFINE n == Len(fm)
           e == Matter!BlockEnd(fm, i)
<1>1. n \in Nat /\ i \in 1..n
  OBVIOUS
<1>2. /\ e \in (i + 1)..(n + 1)
      /\ \A j \in (i + 1)..(e - 1) : ~Matter!IsKey(fm[j])
      /\ e <= n => Matter!IsKey(fm[e])
  BY BlockEnds
<1> HIDE DEF e, n
<1>3. b \in (i + 1)..(n + 1) /\ (b <= n => Matter!IsKey(fm[b]))
  BY DEF n
<1>4. ~(e < b)
  <2> SUFFICES ASSUME e < b PROVE FALSE
    OBVIOUS
  <2>1. e \in (i + 1)..(b - 1) /\ e <= n
    BY <1>1, <1>2, <1>3
  <2> QED
    BY <1>2, <2>1
<1>5. ~(b < e)
  <2> SUFFICES ASSUME b < e PROVE FALSE
    OBVIOUS
  <2>1. b \in (i + 1)..(e - 1) /\ b <= n
    BY <1>1, <1>2, <1>3
  <2> QED
    BY <1>2, <1>3, <2>1
<1>6. e = b
  BY <1>1, <1>2, <1>3, <1>4, <1>5
<1> QED
  BY <1>6 DEF e

LEMMA KeptIs ==
  ASSUME NEW tags, NEW dropped
  PROVE  Matter!Kept(tags, dropped) = Filtered(tags, {n \in DOMAIN tags : tags[n] \notin dropped})
BY SameNoteFiltering DEF Matter!Kept

LEMMA ItemsIs ==
  ASSUME NEW fm, NEW i
  PROVE  LET items == Filtered(fm, {j \in (i + 1)..(Matter!BlockEnd(fm, i) - 1) : fm[j].key = "-"})
         IN  Matter!Items(fm, i) = [n \in DOMAIN items |-> items[n].words[1]]
BY SameNoteFiltering DEF Matter!Items

LEMMA ListOfLength ==
  ASSUME NEW n \in Nat, NEW s, DOMAIN s = 1..n, s = [p \in 1..n |-> s[p]]
  PROVE  IsList(s) /\ Len(s) = n
<1> DEFINE T == {s[p] : p \in DOMAIN s}
<1>1. s \in [1..n -> T]
  OBVIOUS
<1> HIDE DEF T
<1>2. s \in Seq(T) /\ Len(s) = n
  BY <1>1
<1> QED
  BY <1>2 DEF IsList, T

LEMMA FilteredIsList ==
  ASSUME NEW s, NEW places, ArePlaces(places)
  PROVE  IsList(Filtered(s, places)) /\ Len(Filtered(s, places)) = Cardinality(places)
<1> DEFINE out == Filtered(s, places)
           n == Cardinality(places)
<1>1. n \in Nat /\ DOMAIN out = 1..n
  BY FilteredInOrder
<1>2. out = [p \in 1..n |-> out[p]]
  BY DEF Filtered
<1> HIDE DEF out, n
<1>3. IsList(out) /\ Len(out) = n
  BY <1>1, <1>2, ListOfLength
<1> QED
  BY <1>3 DEF out, n

LEMMA KeptIsList ==
  ASSUME NEW tags, IsList(tags), NEW dropped
  PROVE  /\ IsList(Matter!Kept(tags, dropped))
         /\ \A n \in DOMAIN Matter!Kept(tags, dropped) : Matter!Kept(tags, dropped)[n] \notin dropped
<1> DEFINE P == {n \in DOMAIN tags : tags[n] \notin dropped}
<1>1. DOMAIN tags = 1..Len(tags) /\ Len(tags) \in Nat
  BY DEF IsList
<1>2. ArePlaces(P)
  BY <1>1, PlacesAreFinite
<1>3. Matter!Kept(tags, dropped) = Filtered(tags, P)
  BY KeptIs
<1>4. \A p \in P : tags[p] \notin dropped
  OBVIOUS
<1> HIDE DEF P
<1>5. \A n \in DOMAIN Filtered(tags, P) : \E p \in P : Filtered(tags, P)[n] = tags[p]
  BY <1>2, FilteredMembers
<1> QED
  BY <1>2, <1>3, <1>4, <1>5, FilteredIsList

LEMMA AllAreKept ==
  ASSUME NEW tags, IsList(tags), NEW dropped, \A n \in DOMAIN tags : tags[n] \notin dropped
  PROVE  Matter!Kept(tags, dropped) = tags
<1>1. {n \in DOMAIN tags : tags[n] \notin dropped} = DOMAIN tags
  OBVIOUS
<1>2. Filtered(tags, DOMAIN tags) = tags
  BY FilteredAll DEF IsList
<1> QED
  BY <1>1, <1>2, KeptIs

LEMMA ItemsAreList ==
  ASSUME NEW X, NEW fm \in Seq(X), NEW i \in 1..Len(fm)
  PROVE  IsList(Matter!Items(fm, i))
<1> DEFINE b == Matter!BlockEnd(fm, i)
           P == {j \in (i + 1)..(b - 1) : fm[j].key = "-"}
           items == Filtered(fm, P)
           out == Matter!Items(fm, i)
<1>1. b \in (i + 1)..(Len(fm) + 1) /\ Len(fm) \in Nat
  BY BlockEnds
<1>2. P \subseteq 1..Len(fm)
  BY <1>1
<1>3. ArePlaces(P)
  BY <1>1, <1>2, PlacesAreFinite
<1>4. out = [n \in DOMAIN items |-> items[n].words[1]]
  BY ItemsIs
<1> HIDE DEF P, out
<1>5. DOMAIN items = 1..Cardinality(P) /\ Cardinality(P) \in Nat
  BY <1>3, FilteredInOrder
<1> HIDE DEF items
<1>6. DOMAIN out = 1..Cardinality(P) /\ out = [n \in 1..Cardinality(P) |-> out[n]]
  BY <1>4, <1>5
<1>7. IsList(out)
  BY <1>5, <1>6, ListOfLength
<1> QED
  BY <1>7 DEF out

TagLine == Matter!Line("tags", "scalar", << >>)
TagItems(kept) == [n \in DOMAIN kept |-> Matter!Item(kept[n])]
TagLines(kept) == {TagLine} \cup {Matter!Item(kept[n]) : n \in DOMAIN kept}

(* The lines from i up to rest replaced by the tags as a block list. *)
IsFixed(out, fm, i, rest, kept) ==
  LET c == Len(kept)
      d == i + 1 + c - rest
  IN  /\ Len(out) = Len(fm) + d /\ DOMAIN out = 1..(Len(fm) + d)
      /\ \A p \in 1..(i - 1) : out[p] = fm[p]
      /\ out[i] = TagLine
      /\ \A p \in 1..c : out[i + p] = Matter!Item(kept[p])
      /\ \A p \in rest..Len(fm) : out[p + d] = fm[p]

LEMMA FixedPlaces ==
  ASSUME NEW X, NEW fm \in Seq(X), NEW i \in 1..Len(fm), NEW rest \in (i + 1)..(Len(fm) + 1),
         NEW kept, IsList(kept)
  PROVE  LET out == Spliced(fm, i, rest, <<TagLine>> \o TagItems(kept))
         IN  out \in Seq(X \cup TagLines(kept)) /\ IsFixed(out, fm, i, rest, kept)
<1> DEFINE n == Len(fm)
           c == Len(kept)
           items == TagItems(kept)
           Y == X \cup TagLines(kept)
           m == <<TagLine>> \o items
           out == Spliced(fm, i, rest, m)
<1>1. n \in Nat /\ i \in 1..n /\ rest \in (i + 1)..(n + 1) /\ c \in Nat /\ DOMAIN kept = 1..c
  BY DEF IsList
<1>2. items \in Seq(Y) /\ Len(items) = c /\ \A p \in 1..c : items[p] = Matter!Item(kept[p])
  <2>1. \A p \in 1..c : Matter!Item(kept[p]) \in Y
    BY <1>1 DEF TagLines
  <2>2. items = [p \in 1..c |-> Matter!Item(kept[p])]
    BY <1>1 DEF TagItems
  <2> HIDE DEF Y, items, c
  <2>3. items \in [1..c -> Y]
    BY <2>1, <2>2
  <2> QED
    BY <1>1, <2>2, <2>3
<1>3. TagLine \in Y /\ fm \in Seq(Y)
  BY DEF TagLines
<1> HIDE DEF n, c, items, Y
<1>4. m \in Seq(Y) /\ Len(m) = 1 + c /\ m[1] = TagLine /\ \A p \in 1..c : m[1 + p] = items[p]
  <2> DEFINE t == <<TagLine>>
  <2>1. t \in Seq(Y) /\ Len(t) = 1 /\ t[1] = TagLine
    BY <1>3
  <2> HIDE DEF t
  <2>2. m = t \o items
    BY DEF t
  <2>3. m \in Seq(Y) /\ Len(m) = 1 + c
        /\ \A p \in 1..(1 + c) : m[p] = IF p <= 1 THEN t[p] ELSE items[p - 1]
    BY <1>2, <2>1, <2>2, ConcatProperties
  <2>4. m[1] = TagLine
    BY <1>1, <2>1, <2>3
  <2>5. \A p \in 1..c : 1 + p \in 1..(1 + c) /\ ~(1 + p <= 1) /\ 1 + p - 1 = p
    BY <1>1
  <2>6. \A p \in 1..c : m[1 + p] = items[p]
    BY <2>3, <2>5
  <2> QED
    BY <2>3, <2>4, <2>6
<1> HIDE DEF m
<1>5. IsSpliced(out, fm, i, rest, m, Y)
  <2>1. i \in Nat /\ rest \in Nat /\ 1 <= i /\ i <= rest /\ rest <= Len(fm) + 1
    BY <1>1 DEF n
  <2> QED
    BY <1>3, <1>4, <2>1, SplicedPlaces
<1> HIDE DEF out
<1> DEFINE d == i + 1 + c - rest
<1>6. /\ out \in Seq(Y) /\ Len(out) = n + (1 + c) - (rest - i)
      /\ \A p \in 1..(i - 1) : out[p] = fm[p]
      /\ \A p \in 1..(1 + c) : out[i - 1 + p] = m[p]
      /\ \A p \in rest..n : out[p + (1 + c) - (rest - i)] = fm[p]
  BY <1>4, <1>5 DEF IsSpliced, n
<1>7. n + (1 + c) - (rest - i) = n + d /\ \A p \in rest..n : p + (1 + c) - (rest - i) = p + d
  BY <1>1
<1>8. Len(out) = n + d /\ DOMAIN out = 1..(n + d) /\ \A p \in rest..n : out[p + d] = fm[p]
  <2> HIDE DEF d
  <2> QED
    BY <1>6, <1>7
<1>9. out[i] = TagLine
  <2>1. 1 \in 1..(1 + c) /\ i - 1 + 1 = i
    BY <1>1
  <2>2. out[i - 1 + 1] = m[1]
    BY <1>6, <2>1
  <2> QED
    BY <1>4, <2>1, <2>2
<1>10. ASSUME NEW p \in 1..c PROVE out[i + p] = Matter!Item(kept[p])
  <2>1. 1 + p \in 1..(1 + c) /\ i - 1 + (1 + p) = i + p
    BY <1>1
  <2>2. out[i - 1 + (1 + p)] = m[1 + p]
    BY <1>6, <2>1
  <2> QED
    BY <1>2, <1>4, <2>1, <2>2
<1> HIDE DEF d
<1>11. out \in Seq(Y) /\ IsFixed(out, fm, i, rest, kept)
  BY <1>6, <1>8, <1>9, <1>10 DEF IsFixed, d, n, c
<1> QED
  BY <1>11 DEF out, m, items, Y


(* The first line that the fixer keeps after the tags. *)
RestAt(fm, i) ==
  IF fm[i].form = "scalar" /\ fm[i].words = << >> THEN Matter!BlockEnd(fm, i) ELSE i + 1

LEMMA FixTagsIs ==
  ASSUME NEW X, NEW fm \in Seq(X), NEW i \in 1..Len(fm), fm[i].key = "tags", Matter!At(fm, "tags") = i,
         ~Matter!Ambiguous(fm), NEW dropped, IsList(Matter!Kept(Matter!Tags(fm), dropped))
  PROVE  LET rest == RestAt(fm, i)
         IN  /\ rest \in (i + 1)..(Len(fm) + 1)
             /\ Matter!FixTags(fm, dropped)
                  = Spliced(fm, i, rest, <<TagLine>> \o TagItems(Matter!Kept(Matter!Tags(fm), dropped)))
<1> DEFINE rest == RestAt(fm, i)
           kept == Matter!Kept(Matter!Tags(fm), dropped)
           a == SubSeq(fm, 1, i - 1)
           b == SubSeq(fm, rest, Len(fm))
           t == <<TagLine>>
           items == TagItems(kept)
<1>1. rest \in (i + 1)..(Len(fm) + 1)
  BY BlockEnds DEF RestAt
<1>2. "tags" \in Matter!Keys(fm)
  BY DEF Matter!Keys
<1>3. Matter!FixTags(fm, dropped) = ((a \o t) \o items) \o b
  BY <1>2 DEF Matter!FixTags, Matter!Ahead, Matter!From, TagLine, TagItems, RestAt
<1> DEFINE Y == X \cup TagLines(kept)
<1>4. a \in Seq(Y) /\ t \in Seq(Y) /\ items \in Seq(Y)
  <2>1. a \in Seq(Y)
    <3>1. \A p \in 1..(i - 1) : fm[p] \in Y
      OBVIOUS
    <3>2. i - 1 \in Int /\ 1 \in Int
      OBVIOUS
    <3> HIDE DEF Y
    <3> QED
      BY <3>1, <3>2, SubSeqProperties
  <2>2. t \in Seq(Y)
    BY DEF TagLines
  <2>3. items \in Seq(Y)
    <3>1. Len(kept) \in Nat /\ DOMAIN kept = 1..Len(kept)
      BY DEF IsList
    <3>2. \A p \in 1..Len(kept) : Matter!Item(kept[p]) \in Y
      BY <3>1 DEF TagLines
    <3>3. items = [p \in 1..Len(kept) |-> Matter!Item(kept[p])]
      BY <3>1 DEF TagItems
    <3> HIDE DEF Y, items, kept
    <3>4. items \in [1..Len(kept) -> Y]
      BY <3>2, <3>3
    <3> QED
      BY <3>1, <3>4
  <2> QED
    BY <2>1, <2>2, <2>3
<1> HIDE DEF a, b, t, items, Y
<1>5. (a \o t) \o items = a \o (t \o items)
  BY <1>4, ConcatAssociative
<1>6. Matter!FixTags(fm, dropped) = (a \o (t \o items)) \o b
  BY <1>3, <1>5
<1> QED
  BY <1>1, <1>6 DEF Spliced, a, b, t, items

(* An item is under its key; so none stands below the fixed lines. *)
LEMMA NoStrayItems ==
  ASSUME NEW X, NEW fm \in Seq(X), NEW i \in 1..Len(fm), fm[i].key = "tags", Matter!Readable(fm),
         NEW rest, rest = RestAt(fm, i), NEW q \in rest..Len(fm), fm[q].key = "-"
  PROVE  \E k \in rest..(q - 1) : Matter!IsKey(fm[k])
<1>1. Len(fm) \in Nat /\ rest \in (i + 1)..(Len(fm) + 1)
      /\ (rest = Matter!BlockEnd(fm, i) /\ rest <= Len(fm) => Matter!IsKey(fm[rest]))
  BY BlockEnds DEF RestAt
<1>2. ~Matter!IsKey(fm[q]) /\ Matter!IsKey(fm[i])
  BY DEF Matter!IsKey
<1>3. CASE rest = Matter!BlockEnd(fm, i)
  <2>1. Matter!IsKey(fm[rest])
    BY <1>1, <1>3
  <2>2. rest # q
    BY <1>2, <2>1
  <2>3. rest \in rest..(q - 1)
    BY <1>1, <2>2
  <2> QED
    BY <2>1, <2>3
<1>4. CASE rest # Matter!BlockEnd(fm, i)
  <2>1. rest = i + 1 /\ ~(fm[i].form = "scalar" /\ fm[i].words = << >>)
    BY <1>4 DEF RestAt
  <2>2. q \in DOMAIN fm
    BY <1>1
  <2>3. PICK j \in 1..(q - 1) : /\ Matter!IsKey(fm[j]) /\ fm[j].form = "scalar" /\ fm[j].words = << >>
                                /\ \A k \in (j + 1)..q : ~Matter!IsKey(fm[k])
    BY <2>2 DEF Matter!Readable
  <2>4. j # i
    BY <2>1, <2>3
  <2>5. ~(j < i)
    <3> SUFFICES ASSUME j < i PROVE FALSE
      OBVIOUS
    <3>1. i \in (j + 1)..q
      BY <1>1
    <3> QED
      BY <1>2, <2>3, <3>1
  <2>6. j \in rest..(q - 1)
    BY <1>1, <2>1, <2>4, <2>5
  <2> QED
    BY <2>3, <2>6
<1> QED
  BY <1>3, <1>4

(* What is between tags and the rest is taken away, and no key is. *)
LEMMA NoKeyIsTaken ==
  ASSUME NEW X, NEW fm \in Seq(X), NEW i \in 1..Len(fm),
         NEW rest, rest = RestAt(fm, i)
  PROVE  \A j \in (i + 1)..(rest - 1) : ~Matter!IsKey(fm[j])
<1>1. CASE rest = Matter!BlockEnd(fm, i)
  BY <1>1, BlockEnds
<1>2. CASE rest = i + 1
  BY <1>2
<1> QED
  BY <1>1, <1>2 DEF RestAt

(* The keys beside the tags stay, in their order. *)
LEMMA FixedKeepsKeys ==
  ASSUME NEW X, NEW fm \in Seq(X), NEW i \in 1..Len(fm), fm[i].key = "tags",
         NEW rest \in (i + 1)..(Len(fm) + 1),
         \A j \in (i + 1)..(rest - 1) : ~Matter!IsKey(fm[j]),
         NEW kept, IsList(kept), NEW out, IsFixed(out, fm, i, rest, kept)
  PROVE  Matter!KeysBeside(out, "tags") = Matter!KeysBeside(fm, "tags")
<1> DEFINE n == Len(fm)
           c == Len(kept)
           d == i + 1 + c - rest
           beside(l) == Matter!IsKey(l) /\ l.key # "tags"
           P == {j \in 1..n : beside(fm[j])}
           Q == {j \in 1..(n + d) : beside(out[j])}
           h == [p \in P |-> IF p < i THEN p ELSE p + d]
<1>1. n \in Nat /\ c \in Nat /\ DOMAIN fm = 1..n /\ i \in 1..n /\ rest \in (i + 1)..(n + 1)
  BY DEF IsList
<1>2. d \in Int /\ rest + d = i + 1 + c
  BY <1>1
<1>3. /\ DOMAIN out = 1..(n + d)
      /\ \A p \in 1..(i - 1) : out[p] = fm[p]
      /\ out[i] = TagLine
      /\ \A p \in 1..c : out[i + p] = Matter!Item(kept[p])
      /\ \A p \in rest..n : out[p + d] = fm[p]
  BY DEF IsFixed
<1>4. ~beside(fm[i]) /\ ~beside(out[i])
  BY <1>3 DEF TagLine, Matter!Line
<1>5. \A p \in 1..c : ~beside(out[i + p])
  <2>1. \A tag : Matter!Item(tag).key = "-"
    BY DEF Matter!Item, Matter!Line
  <2>2. \A tag : ~Matter!IsKey(Matter!Item(tag))
    BY <2>1 DEF Matter!IsKey
  <2> QED
    BY <1>3, <2>2
<1> HIDE DEF n, c, d
<1>6. \A p \in P : p \in 1..(i - 1) \/ p \in rest..n
  <2> TAKE p \in P
  <2>1. p # i
    BY <1>4
  <2>2. p \notin (i + 1)..(rest - 1)
    OBVIOUS
  <2>3. p \in 1..n
    OBVIOUS
  <2> QED
    BY <1>1, <2>1, <2>2, <2>3
<1> HIDE DEF beside
<1>7. \A p \in P : h[p] \in Q /\ out[h[p]] = fm[p]
  <2> TAKE p \in P
  <2>1. CASE p \in 1..(i - 1)
    <3>1. h[p] = p /\ p \in 1..(n + d)
      BY <1>1, <1>2, <2>1
    <3> QED
      BY <1>3, <2>1, <3>1
  <2>2. CASE p \in rest..n
    <3>1. h[p] = p + d /\ p + d \in 1..(n + d)
      BY <1>1, <1>2, <2>2
    <3> QED
      BY <1>3, <2>2, <3>1
  <2> QED
    BY <1>6, <2>1, <2>2
<1>8. \A q \in Q : \E p \in P : h[p] = q
  <2> TAKE q \in Q
  <2>1. q # i
    BY <1>4
  <2>2. q \notin (i + 1)..(i + c)
    <3> SUFFICES ASSUME q \in (i + 1)..(i + c) PROVE FALSE
      OBVIOUS
    <3>1. q - i \in 1..c /\ i + (q - i) = q
      BY <1>1
    <3> QED
      BY <1>5, <3>1
  <2>3. q \in 1..(n + d)
    OBVIOUS
  <2>4. CASE q < i
    <3>1. q \in P
      BY <1>1, <1>3, <2>3, <2>4
    <3>2. h[q] = q
      BY <2>4, <3>1
    <3> QED
      BY <3>1, <3>2
  <2>5. CASE ~(q < i)
    <3> DEFINE p == q - d
    <3>1. p \in rest..n /\ p + d = q
      BY <1>1, <1>2, <2>1, <2>2, <2>3, <2>5
    <3> HIDE DEF p
    <3>2. p \in P
      BY <1>1, <1>3, <3>1
    <3>3. h[p] = q
      BY <1>1, <3>1, <3>2
    <3> QED
      BY <3>2, <3>3
  <2> QED
    BY <2>4, <2>5
<1>9. \A p, q \in P : p < q => h[p] < h[q]
  <2> TAKE p, q \in P
  <2> HAVE p < q
  <2>1. h[p] = IF p < i THEN p ELSE p + d
    OBVIOUS
  <2>2. h[q] = IF q < i THEN q ELSE q + d
    OBVIOUS
  <2> HIDE DEF h
  <2> QED
    BY <1>1, <1>2, <1>6, <2>1, <2>2
<1>10. h \in [P -> Q] /\ \A p \in P : out[h[p]] = fm[p]
  BY <1>7
<1>11. ArePlaces(P) /\ ArePlaces(Q)
  <2>1. n + d \in Nat
    BY <1>1, <1>2
  <2> QED
    BY <1>1, <2>1, PlacesAreFinite
<1> HIDE DEF h, P, Q
<1>12. AlikeAt(fm, P, out, Q, h)
  BY <1>8, <1>9, <1>10 DEF AlikeAt
<1>13. Filtered(out, Q) = Filtered(fm, P)
  BY <1>11, <1>12, FilteredAlike
<1> QED
  BY <1>1, <1>3, <1>13, SameNoteFiltering DEF P, Q, beside, Matter!KeysBeside

(* The tags of the fixed lines are those that were kept. *)
LEMMA FixedHasTags ==
  ASSUME NEW X, NEW fm \in Seq(X), NEW i \in 1..Len(fm), fm[i].key = "tags", Matter!Readable(fm),
         \A j \in 1..(i - 1) : fm[j].key # "tags",
         NEW rest \in (i + 1)..(Len(fm) + 1), rest = RestAt(fm, i),
         NEW kept, IsList(kept), NEW Y, NEW out \in Seq(Y), IsFixed(out, fm, i, rest, kept)
  PROVE  /\ i \in 1..Len(out) /\ out[i] = TagLine
         /\ Matter!At(out, "tags") = i
         /\ Matter!Items(out, i) = kept
<1> DEFINE n == Len(fm)
           c == Len(kept)
           d == i + 1 + c - rest
           b == Matter!BlockEnd(out, i)
           P == {j \in (i + 1)..(b - 1) : out[j].key = "-"}
           Q == (i + 1)..(i + c)
           items == TagItems(kept)
           h == [p \in 1..c |-> i + p]
<1>1. n \in Nat /\ c \in Nat /\ DOMAIN kept = 1..c /\ i \in 1..n /\ rest \in (i + 1)..(n + 1)
  BY DEF IsList
<1>2. d \in Int /\ rest + d = i + 1 + c
  <2>1. rest \in Int /\ i \in Int /\ c \in Int
    BY <1>1
  <2> HIDE DEF c
  <2> QED
    BY <2>1
<1>3. /\ Len(out) = n + d /\ DOMAIN out = 1..(n + d)
      /\ \A p \in 1..(i - 1) : out[p] = fm[p]
      /\ out[i] = TagLine
      /\ \A p \in 1..c : out[i + p] = Matter!Item(kept[p])
      /\ \A p \in rest..n : out[p + d] = fm[p]
  BY DEF IsFixed
<1>4. /\ \A tag : Matter!Item(tag).key = "-" /\ ~Matter!IsKey(Matter!Item(tag))
                  /\ Matter!Item(tag).words[1] = tag
      /\ TagLine.key = "tags"
  <2>1. \A tag : Matter!Item(tag).key = "-"
    BY DEF Matter!Item, Matter!Line
  <2> QED
    BY <2>1 DEF TagLine, Matter!Item, Matter!Line, Matter!IsKey
<1> HIDE DEF n, c, d
<1>5. i \in 1..Len(out)
  BY <1>1, <1>2, <1>3
<1>6. Matter!At(out, "tags") = i
  <2>1. out[i].key = "tags" /\ \A j \in 1..(i - 1) : out[j].key # out[i].key
    BY <1>3, <1>4
  <2> QED
    BY <1>5, <2>1, AtIs
<1>7. /\ b \in (i + 1)..(n + d + 1)
      /\ \A j \in (i + 1)..(b - 1) : ~Matter!IsKey(out[j])
      /\ b <= n + d => Matter!IsKey(out[b])
  <2>1. /\ b \in (i + 1)..(Len(out) + 1)
        /\ \A j \in (i + 1)..(b - 1) : ~Matter!IsKey(out[j])
        /\ b <= Len(out) => Matter!IsKey(out[b])
    BY <1>5, BlockEnds
  <2> QED
    BY <1>3, <2>1
<1> HIDE DEF b
<1>8. \A j \in Q : j - i \in 1..c /\ out[j] = Matter!Item(kept[j - i])
  <2> TAKE j \in Q
  <2>1. j - i \in 1..c /\ i + (j - i) = j
    BY <1>1
  <2> QED
    BY <1>3, <2>1
<1>9. b >= i + c + 1
  <2> SUFFICES ASSUME b < i + c + 1 PROVE FALSE
    BY <1>1, <1>7
  <2>1. b \in Q
    BY <1>1, <1>7
  <2>2. b <= n + d
    BY <1>1, <1>2, <2>1
  <2> QED
    BY <1>4, <1>7, <1>8, <2>1, <2>2
<1>10. P = Q
  <2>1. ASSUME NEW j \in Q PROVE j \in P
    <3>1. j \in (i + 1)..(b - 1)
      BY <1>1, <1>7, <1>9
    <3> QED
      BY <1>4, <1>8, <3>1
  <2>2. ASSUME NEW j \in P, j \notin Q PROVE FALSE
    <3> DEFINE q == j - d
    <3>1. j \in (i + 1)..(b - 1) /\ out[j].key = "-"
      OBVIOUS
    <3>2. q \in rest..n /\ q + d = j
      BY <1>1, <1>2, <1>7, <2>2, <3>1
    <3> HIDE DEF q
    <3>3. fm[q].key = "-"
      BY <1>3, <3>1, <3>2
    <3>4. PICK k \in rest..(q - 1) : Matter!IsKey(fm[k])
      BY <3>2, <3>3, NoStrayItems DEF n
    <3>5. k \in rest..n /\ k + d \in (i + 1)..(b - 1)
      BY <1>1, <1>2, <1>7, <3>1, <3>2
    <3>6. out[k + d] = fm[k]
      BY <1>3, <3>5
    <3> QED
      BY <1>7, <3>4, <3>5, <3>6
  <2> QED
    BY <2>1, <2>2
<1>11. Filtered(out, Q) = items
  <2>1. items \in Seq({items[p] : p \in DOMAIN items}) /\ DOMAIN items = 1..c
    <3>1. DOMAIN items = 1..c /\ items = [p \in 1..c |-> items[p]]
      BY <1>1 DEF TagItems
    <3> HIDE DEF items
    <3> QED
      BY <1>1, <3>1, ListOfLength DEF IsList
  <2>2. \A p \in 1..c : items[p] = Matter!Item(kept[p])
    BY <1>1 DEF TagItems
  <2> HIDE DEF items
  <2>3. Filtered(items, 1..c) = items
    BY <2>1, FilteredAll
  <2>4. h \in [1..c -> Q] /\ \A q \in Q : \E p \in 1..c : h[p] = q
    <3>1. \A p \in 1..c : i + p \in Q
      BY <1>1
    <3>2. \A q \in Q : q - i \in 1..c /\ i + (q - i) = q
      BY <1>1
    <3> QED
      BY <3>1, <3>2
  <2>5. \A p, q \in 1..c : p < q => h[p] < h[q]
    BY <1>1
  <2>6. \A p \in 1..c : out[h[p]] = items[p]
    BY <1>3, <2>2
  <2>7. ArePlaces(1..c) /\ ArePlaces(Q)
    <3>1. Q \subseteq 1..(i + c) /\ i + c \in Nat
      BY <1>1
    <3> QED
      BY <1>1, <3>1, PlacesAreFinite
  <2> HIDE DEF h, Q
  <2>8. AlikeAt(items, 1..c, out, Q, h)
    BY <2>4, <2>5, <2>6 DEF AlikeAt
  <2>9. Filtered(out, Q) = Filtered(items, 1..c)
    BY <2>7, <2>8, FilteredAlike
  <2> QED
    BY <2>3, <2>9
<1>12. Matter!Items(out, i) = [p \in DOMAIN items |-> items[p].words[1]]
  <2>1. LET found == Filtered(out, P)
        IN  Matter!Items(out, i) = [p \in DOMAIN found |-> found[p].words[1]]
    BY ItemsIs DEF b
  <2> HIDE DEF P, Q, items
  <2> QED
    BY <1>10, <1>11, <2>1
<1>13. kept = [p \in 1..c |-> kept[p]]
  BY <1>1 DEF IsList
<1>14. Matter!Items(out, i) = kept
  <2>1. DOMAIN items = 1..c /\ \A p \in 1..c : items[p].words[1] = kept[p]
    BY <1>1, <1>4 DEF TagItems
  <2> HIDE DEF items
  <2> QED
    BY <1>12, <1>13, <2>1
<1> QED
  BY <1>3, <1>5, <1>6, <1>14

(* Where nothing but items stood below the tags the fixed lines are fixed  *)
(* to themselves.                                                          *)
LEMMA FixedIsFixed ==
  ASSUME NEW X, NEW fm \in Seq(X), NEW i \in 1..Len(fm), fm[i].key = "tags", Matter!Readable(fm),
         NEW rest \in (i + 1)..(Len(fm) + 1), rest = RestAt(fm, i),
         NEW kept, IsList(kept), kept # << >>, NEW dropped,
         \A n \in DOMAIN kept : kept[n] \notin dropped,
         NEW Y, NEW out \in Seq(Y), IsFixed(out, fm, i, rest, kept),
         i \in 1..Len(out), Matter!At(out, "tags") = i, Matter!Items(out, i) = kept,
         rest <= Len(fm) /\ rest # Matter!BlockEnd(fm, i) => fm[rest].key # "?"
  PROVE  Matter!FixTags(out, dropped) = out
<1> DEFINE n == Len(fm)
           c == Len(kept)
           d == i + 1 + c - rest
           b == i + c + 1
           N == Len(out)
           again == Spliced(out, i, b, <<TagLine>> \o TagItems(kept))
<1>1. n \in Nat /\ c \in Nat /\ DOMAIN kept = 1..c /\ i \in 1..n /\ rest \in (i + 1)..(n + 1)
  BY DEF IsList
<1>2. d \in Int /\ rest + d = b
  <2>1. rest \in Int /\ i \in Int /\ c \in Int
    BY <1>1
  <2> HIDE DEF c
  <2> QED
    BY <2>1
<1>3. /\ N = n + d /\ DOMAIN out = 1..(n + d)
      /\ \A p \in 1..(i - 1) : out[p] = fm[p]
      /\ out[i] = TagLine
      /\ \A p \in 1..c : out[i + p] = Matter!Item(kept[p])
      /\ \A p \in rest..n : out[p + d] = fm[p]
  BY DEF IsFixed
<1>4. TagLine.key = "tags" /\ TagLine.form = "scalar" /\ TagLine.words = << >>
  BY DEF TagLine, Matter!Line
<1> HIDE DEF n, c, d
<1>5. Matter!Tags(out) = kept
  BY <1>3, <1>4 DEF Matter!Tags
<1>6. ~Matter!Ambiguous(out)
  BY <1>3, <1>4, <1>5 DEF Matter!Ambiguous
<1>7. Matter!Kept(kept, dropped) = kept
  BY AllAreKept
<1>8. b \in (i + 1)..(N + 1) /\ i \in 1..N
  BY <1>1, <1>2, <1>3
<1>9. \A j \in (i + 1)..(b - 1) : ~Matter!IsKey(out[j])
  <2> TAKE j \in (i + 1)..(b - 1)
  <2>1. j - i \in 1..c /\ i + (j - i) = j
    BY <1>1
  <2>2. out[j] = Matter!Item(kept[j - i])
    BY <1>3, <2>1
  <2>3. \A tag : Matter!Item(tag).key = "-"
    BY DEF Matter!Item, Matter!Line
  <2> QED
    BY <2>2, <2>3 DEF Matter!IsKey
<1>10. b <= N => Matter!IsKey(out[b])
  <2> SUFFICES ASSUME b <= N PROVE Matter!IsKey(out[b])
    OBVIOUS
  <2>1. rest \in rest..n
    BY <1>1, <1>2, <1>3
  <2>2. out[b] = fm[rest]
    BY <1>2, <1>3, <2>1
  <2>3. CASE rest = Matter!BlockEnd(fm, i)
    <3>1. Matter!IsKey(fm[rest])
      BY <1>1, <2>1, <2>3, BlockEnds DEF n
    <3> QED
      BY <2>2, <3>1
  <2>4. CASE rest # Matter!BlockEnd(fm, i)
    <3>1. fm[rest].key # "?"
      BY <1>1, <2>1, <2>4 DEF n
    <3>2. fm[rest].key # "-"
      <4> SUFFICES ASSUME fm[rest].key = "-" PROVE FALSE
        OBVIOUS
      <4>1. \E k \in rest..(rest - 1) : Matter!IsKey(fm[k])
        BY <2>1, NoStrayItems DEF n
      <4> QED
        BY <1>1, <4>1
    <3> QED
      BY <2>2, <3>1, <3>2 DEF Matter!IsKey
  <2> QED
    BY <2>3, <2>4
<1> HIDE DEF b
<1>11. Matter!BlockEnd(out, i) = b
  BY <1>8, <1>9, <1>10, BlockEndIs
<1>12. Matter!FixTags(out, dropped) = again
  <2>1. RestAt(out, i) = b
    BY <1>3, <1>4, <1>11 DEF RestAt
  <2>2. IsList(Matter!Kept(Matter!Tags(out), dropped)) /\ out[i].key = "tags"
    BY <1>3, <1>4, <1>5, <1>7
  <2>3. Matter!FixTags(out, dropped)
          = Spliced(out, i, RestAt(out, i), <<TagLine>> \o TagItems(Matter!Kept(Matter!Tags(out), dropped)))
    BY <1>6, <1>8, <2>2, FixTagsIs
  <2> QED
    BY <1>5, <1>7, <2>1, <2>3
<1>13. again \in Seq(Y \cup TagLines(kept)) /\ IsFixed(again, out, i, b, kept)
  BY <1>8, FixedPlaces
<1> HIDE DEF again, N
<1>14. /\ Len(again) = N
       /\ \A p \in 1..(i - 1) : again[p] = out[p]
       /\ again[i] = TagLine
       /\ \A p \in 1..c : again[i + p] = Matter!Item(kept[p])
       /\ \A p \in b..N : again[p] = out[p]
  <2> DEFINE e == i + 1 + c - b
  <2>1. e = 0 /\ N \in Nat
    BY <1>1, <1>8 DEF b, N
  <2>2. /\ Len(again) = N + e
        /\ \A p \in 1..(i - 1) : again[p] = out[p]
        /\ again[i] = TagLine
        /\ \A p \in 1..c : again[i + p] = Matter!Item(kept[p])
        /\ \A p \in b..N : again[p + e] = out[p]
    BY <1>13 DEF IsFixed, N, c
  <2> HIDE DEF e
  <2>3. N + e = N /\ \A p \in b..N : p + e = p
    BY <1>8, <2>1
  <2> QED
    BY <2>2, <2>3
<1>15. ASSUME NEW p \in 1..N PROVE again[p] = out[p]
  <2>1. CASE p \in 1..(i - 1)
    BY <1>14, <2>1
  <2>2. CASE p = i
    BY <1>3, <1>14, <2>2
  <2>3. CASE p \in (i + 1)..(b - 1)
    <3>1. p - i \in 1..c /\ i + (p - i) = p
      <4>1. i \in Int /\ c \in Int
        BY <1>1
      <4>2. p \in (i + 1)..(i + c)
        BY <2>3, <4>1 DEF b
      <4> QED
        BY <4>1, <4>2
    <3>2. again[i + (p - i)] = Matter!Item(kept[p - i]) /\ out[i + (p - i)] = Matter!Item(kept[p - i])
      BY <1>3, <1>14, <3>1
    <3> QED
      BY <3>1, <3>2
  <2>4. CASE p \in b..N
    BY <1>14, <2>4
  <2>5. N \in Nat
    BY DEF N
  <2> QED
    BY <1>8, <2>1, <2>2, <2>3, <2>4, <2>5
<1>16. again = out
  <2> DEFINE Z == Y \cup TagLines(kept)
  <2>1. again \in Seq(Z) /\ out \in Seq(Z) /\ Len(again) = N /\ Len(out) = N
    BY <1>13, <1>14 DEF N
  <2> HIDE DEF Z, N
  <2> QED
    BY <1>15, <2>1
<1> QED
  BY <1>12, <1>16

(* The tag fixer loses no tag but those it drops, keeps every key and its  *)
(* order and settles in one run, and the audit finds a list in what it has *)
(* rewritten exactly when a tag that was kept has a word.                  *)
THEOREM FixerAgrees ==
  ASSUME NEW fm, IsList(fm), \A j \in DOMAIN fm : IsList(fm[j].words),
         NEW dropped
  PROVE  Matter!FixerAgreesWithAudit(fm, dropped)
<1> DEFINE X == {fm[j] : j \in DOMAIN fm}
           n == Len(fm)
           T == {j \in DOMAIN fm : fm[j].key = "tags"}
           i == Matter!At(fm, "tags")
           rest == RestAt(fm, i)
           kept == Matter!Kept(Matter!Tags(fm), dropped)
           out == Matter!FixTags(fm, dropped)
           strayed == \E a \in DOMAIN fm : fm[a].key = "tags" /\
                        \E j \in (a + 1)..(Matter!BlockEnd(fm, a) - 1) : fm[j].key = "?"
<1> SUFFICES ASSUME Cardinality(T) = 1, Matter!Readable(fm)
             PROVE  /\ Matter!KeysBeside(out, "tags") = Matter!KeysBeside(fm, "tags")
                    /\ ~Matter!Ambiguous(fm) =>
                         /\ Matter!Tags(out) = kept
                         /\ Matter!Audit(out) = IF Matter!Worded(kept) THEN "list" ELSE "scalar"
                    /\ ~strayed => Matter!FixTags(out, dropped) = out
  BY DEF Matter!FixerAgreesWithAudit, Matter!Cardinality, Cardinality, Matter!IsFiniteSet, IsFiniteSet
<1> HIDE DEF X
<1>1. n \in Nat /\ DOMAIN fm = 1..n /\ fm \in Seq(X)
  BY DEF IsList, X
<1>2. PICK a \in T : T = {a}
  <2>1. T \subseteq 0..n
    BY <1>1
  <2> HIDE DEF T
  <2> QED
    BY <1>1, <2>1, OneMember
<1>3. /\ i \in 1..Len(fm) /\ fm[i].key = "tags" /\ "tags" \in Matter!Keys(fm)
      /\ \A j \in 1..(i - 1) : fm[j].key # "tags"
  <2>1. "tags" \in Matter!Keys(fm)
    BY <1>2 DEF Matter!Keys
  <2> QED
    BY <1>1, <2>1, AtIsFirst
<1> HIDE DEF i
<1>4. CASE Matter!Ambiguous(fm)
  <2>1. out = fm
    BY <1>4 DEF Matter!FixTags
  <2> QED
    BY <1>4, <2>1
<1>5. CASE ~Matter!Ambiguous(fm)
  <2>1. IsList(kept) /\ \A m \in DOMAIN kept : kept[m] \notin dropped
    <3>1. IsList(Matter!Tags(fm))
      <4>1. IsList(Matter!Items(fm, i)) /\ IsList(fm[i].words)
        BY <1>1, <1>3, ItemsAreList
      <4> QED
        BY <4>1 DEF Matter!Tags, i
    <3> QED
      BY <3>1, KeptIsList
  <2> HIDE DEF kept
  <2>2. /\ rest \in (i + 1)..(Len(fm) + 1)
        /\ out = Spliced(fm, i, rest, <<TagLine>> \o TagItems(kept))
    BY <1>1, <1>3, <1>5, <2>1, FixTagsIs DEF kept, i
  <2> DEFINE Y == X \cup TagLines(kept)
  <2> HIDE DEF rest, out
  <2>3. out \in Seq(Y) /\ IsFixed(out, fm, i, rest, kept)
    BY <1>1, <1>3, <2>1, <2>2, FixedPlaces
  <2> HIDE DEF Y
  <2>4. rest = RestAt(fm, i)
    BY DEF rest
  <2>5. i \in 1..Len(out) /\ out[i] = TagLine /\ Matter!At(out, "tags") = i /\ Matter!Items(out, i) = kept
    <3>1. fm \in Seq(X) /\ i \in 1..Len(fm) /\ fm[i].key = "tags" /\ Matter!Readable(fm)
      BY <1>1, <1>3
    <3>2. \A j \in 1..(i - 1) : fm[j].key # "tags"
      BY <1>3
    <3>3. IsList(kept) /\ out \in Seq(Y) /\ IsFixed(out, fm, i, rest, kept)
      BY <2>1, <2>3
    <3>4. rest \in (i + 1)..(Len(fm) + 1) /\ rest = RestAt(fm, i)
      BY <2>2, <2>4
    <3> HIDE DEF strayed, T, n
    <3> QED
      BY <3>1, <3>2, <3>3, <3>4, FixedHasTags
  <2>6. TagLine.key = "tags" /\ TagLine.form = "scalar" /\ TagLine.words = << >>
    BY DEF TagLine, Matter!Line
  <2>7. Matter!Tags(out) = kept
    BY <2>5, <2>6 DEF Matter!Tags
  <2>8. Matter!Audit(out) = IF Matter!Worded(kept) THEN "list" ELSE "scalar"
    <3>1. "tags" \in Matter!Keys(out)
      BY <2>3, <2>5, <2>6 DEF Matter!Keys
    <3> QED
      BY <2>5, <2>6, <3>1 DEF Matter!Audit
  <2>9. Matter!KeysBeside(out, "tags") = Matter!KeysBeside(fm, "tags")
    <3>1. fm \in Seq(X) /\ i \in 1..Len(fm) /\ fm[i].key = "tags"
      BY <1>1, <1>3
    <3>2. \A j \in (i + 1)..(rest - 1) : ~Matter!IsKey(fm[j])
      BY <2>4, <3>1, NoKeyIsTaken
    <3>3. rest \in (i + 1)..(Len(fm) + 1)
      BY <2>2
    <3>4. IsList(kept) /\ IsFixed(out, fm, i, rest, kept)
      BY <2>1, <2>3
    <3> HIDE DEF strayed, T, n
    <3> QED
      BY <3>1, <3>2, <3>3, <3>4, FixedKeepsKeys
  <2>10. ASSUME ~strayed PROVE Matter!FixTags(out, dropped) = out
    <3>1. CASE kept = << >>
      <4>1. Matter!Ambiguous(out)
        BY <2>5, <2>6, <2>7, <3>1 DEF Matter!Ambiguous
      <4> QED
        BY <4>1 DEF Matter!FixTags
    <3>2. CASE kept # << >>
      <4>1. rest <= Len(fm) /\ rest # Matter!BlockEnd(fm, i) => fm[rest].key # "?"
        <5> SUFFICES ASSUME rest <= Len(fm), rest # Matter!BlockEnd(fm, i), fm[rest].key = "?"
                     PROVE  FALSE
          OBVIOUS
        <5>1. rest = i + 1
          BY <2>4 DEF RestAt
        <5>2. Matter!BlockEnd(fm, i) \in (i + 1)..(n + 1)
          BY <1>1, <1>3, BlockEnds
        <5>3. rest \in (i + 1)..(Matter!BlockEnd(fm, i) - 1) /\ i \in DOMAIN fm
          BY <1>1, <1>3, <5>1, <5>2
        <5> QED
          BY <1>3, <2>10, <5>3
      <4> HIDE DEF strayed
      <4> QED
        BY <1>1, <1>3, <2>1, <2>2, <2>3, <2>4, <2>5, <3>2, <4>1, FixedIsFixed
    <3> QED
      BY <3>1, <3>2
  <2> HIDE DEF strayed
  <2> QED
    BY <2>7, <2>8, <2>9, <2>10 DEF out, kept
<1> QED
  BY <1>4, <1>5

-----------------------------------------------------------------------------
(* Regions of a note *)

LEMMA FindsFirst ==
  ASSUME NEW note, Len(note) \in Nat, NEW token, NEW from \in Nat \ {0}
  PROVE  /\ Patch!Find(note, token, from) = 0 =>
              \A i \in from..Len(note) : note[i] # token
         /\ Patch!Find(note, token, from) # 0 =>
              /\ Patch!Find(note, token, from) \in from..Len(note)
              /\ note[Patch!Find(note, token, from)] = token
              /\ \A i \in from..(Patch!Find(note, token, from) - 1) : note[i] # token
<1> DEFINE places == {i \in from..Len(note) : note[i] = token}
           least == CHOOSE i \in places : \A j \in places : i <= j
<1>1. Patch!Find(note, token, from) = IF places = {} THEN 0 ELSE least
  BY DEF Patch!Find
<1>2. CASE places = {}
  BY <1>1, <1>2
<1>3. CASE places # {}
  <2>1. places \subseteq Nat
    OBVIOUS
  <2>2. \E i \in places : \A j \in places : i <= j
    <3> HIDE DEF places
    <3> QED
      BY <1>3, <2>1, Least
  <2>3. least \in places /\ \A j \in places : least <= j
    <3> HIDE DEF places
    <3> QED
      BY <2>2
  <2> HIDE DEF least
  <2>4. least \in from..Len(note) /\ note[least] = token /\ least # 0
    BY <2>3
  <2>5. \A i \in from..(least - 1) : note[i] # token
    BY <2>3
  <2> QED
    BY <1>1, <1>3, <2>4, <2>5
<1> QED
  BY <1>2, <1>3

(* The one start of a region is at a and its one end, after it, at b. *)
Stands(note, r, a, b) ==
  /\ a \in 1..Len(note) /\ b \in (a + 1)..Len(note)
  /\ \A i \in 1..Len(note) : (note[i] = Patch!Start(r) <=> i = a) /\ (note[i] = Patch!End(r) <=> i = b)

LEMMA StandsThere ==
  ASSUME NEW note, Len(note) \in Nat, NEW r, NEW a, NEW b, Stands(note, r, a, b)
  PROVE  Patch!Opens(note, r) = a /\ Patch!Closes(note, r) = b /\ Patch!HasRegion(note, r)
<1>1. /\ a \in 1..Len(note) /\ b \in (a + 1)..Len(note)
      /\ \A i \in 1..Len(note) :
           (note[i] = Patch!Start(r) <=> i = a) /\ (note[i] = Patch!End(r) <=> i = b)
  BY DEF Stands
<1>2. Patch!Opens(note, r) = a
  <2> DEFINE f == Patch!Find(note, Patch!Start(r), 1)
  <2>1. f # 0 => f \in 1..Len(note) /\ note[f] = Patch!Start(r)
    BY FindsFirst
  <2>2. f = 0 => \A i \in 1..Len(note) : note[i] # Patch!Start(r)
    BY FindsFirst
  <2> HIDE DEF f
  <2>3. f = a
    BY <1>1, <2>1, <2>2
  <2> QED
    BY <2>3 DEF f, Patch!Opens
<1>3. Patch!Closes(note, r) = b
  <2> DEFINE f == Patch!Find(note, Patch!End(r), a + 1)
  <2>0. a + 1 \in Nat \ {0}
    BY <1>1
  <2>1. f # 0 => f \in (a + 1)..Len(note) /\ note[f] = Patch!End(r)
    BY <2>0, FindsFirst
  <2>2. f = 0 => \A i \in (a + 1)..Len(note) : note[i] # Patch!End(r)
    BY <2>0, FindsFirst
  <2>3. Patch!Closes(note, r) = f
    BY <1>1, <1>2 DEF Patch!Closes
  <2> HIDE DEF f
  <2>4. f = b
    BY <1>1, <2>1, <2>2
  <2> QED
    BY <2>3, <2>4
<1> QED
  BY <1>1, <1>2, <1>3 DEF Patch!HasRegion

(* A note has a region where an end stands somewhere after a start. *)
LEMMA HasBoth ==
  ASSUME NEW note, Len(note) \in Nat, NEW r
  PROVE  Patch!HasRegion(note, r) <=>
           \E a, b \in 1..Len(note) : a < b /\ note[a] = Patch!Start(r) /\ note[b] = Patch!End(r)
<1> DEFINE f == Patch!Opens(note, r)
           g == Patch!Find(note, Patch!End(r), f + 1)
<1>1. /\ f = 0 => \A i \in 1..Len(note) : note[i] # Patch!Start(r)
      /\ f # 0 => /\ f \in 1..Len(note) /\ note[f] = Patch!Start(r)
                  /\ \A i \in 1..(f - 1) : note[i] # Patch!Start(r)
  BY FindsFirst DEF Patch!Opens
<1>2. CASE f = 0
  <2>1. ~Patch!HasRegion(note, r)
    BY <1>2 DEF Patch!HasRegion, Patch!Closes
  <2> QED
    BY <1>1, <1>2, <2>1
<1>3. CASE f # 0
  <2>0. f + 1 \in Nat \ {0}
    BY <1>1, <1>3
  <2>1. /\ g = 0 => \A i \in (f + 1)..Len(note) : note[i] # Patch!End(r)
        /\ g # 0 => g \in (f + 1)..Len(note) /\ note[g] = Patch!End(r)
    BY <2>0, FindsFirst
  <2>2. Patch!HasRegion(note, r) <=> g # 0
    BY <1>3 DEF Patch!HasRegion, Patch!Closes
  <2> HIDE DEF f, g
  <2>3. ASSUME g # 0
        PROVE  \E a, b \in 1..Len(note) : a < b /\ note[a] = Patch!Start(r) /\ note[b] = Patch!End(r)
    <3>1. f \in 1..Len(note) /\ g \in 1..Len(note) /\ f < g
      BY <1>1, <1>3, <2>1, <2>3
    <3> QED
      BY <1>1, <1>3, <2>1, <2>3, <3>1
  <2>4. ASSUME NEW a \in 1..Len(note), NEW b \in 1..Len(note), a < b,
               note[a] = Patch!Start(r), note[b] = Patch!End(r)
        PROVE  g # 0
    <3>1. ~(a < f)
      BY <1>1, <1>3, <2>4
    <3>2. b \in (f + 1)..Len(note)
      BY <1>1, <1>3, <2>4, <3>1
    <3> QED
      BY <2>1, <2>4, <3>2
  <2> QED
    BY <2>2, <2>3, <2>4
<1> QED
  BY <1>2, <1>3

LEMMA OnePlace ==
  ASSUME NEW note, Len(note) \in Nat, DOMAIN note = 1..Len(note), NEW token,
         NEW a \in 1..Len(note), \A i \in 1..Len(note) : note[i] = token <=> i = a
  PROVE  Cardinality({i \in DOMAIN note : note[i] = token}) = 1
<1>1. {i \in DOMAIN note : note[i] = token} = {a}
  OBVIOUS
<1> QED
  BY <1>1, FS_Singleton

(* The regions stand in a note, one after another. *)
LEMMA WellFormedStands ==
  ASSUME NEW note, Len(note) \in Nat, DOMAIN note = 1..Len(note), NEW regions,
         Patch!WellFormed(note, regions), NEW r \in regions
  PROVE  Stands(note, r, Patch!Opens(note, r), Patch!Closes(note, r))
<1> DEFINE n == Len(note)
           a == Patch!Opens(note, r)
           b == Patch!Closes(note, r)
           S == {i \in DOMAIN note : note[i] = Patch!Start(r)}
           E == {i \in DOMAIN note : note[i] = Patch!End(r)}
<1>1. Cardinality(S) = 1 /\ Cardinality(E) = 1 /\ Patch!HasRegion(note, r)
  BY DEF Patch!WellFormed, Patch!Cardinality, Cardinality, Patch!IsFiniteSet, IsFiniteSet
<1>2. S \subseteq 0..n /\ E \subseteq 0..n
  OBVIOUS
<1>3. (\E i \in S : S = {i}) /\ (\E i \in E : E = {i})
  <2> HIDE DEF S, E, n
  <2>1. n \in Nat
    BY DEF n
  <2> QED
    BY <1>1, <1>2, <2>1, OneMember
<1>4. b # 0 /\ a # 0
  BY <1>1 DEF Patch!HasRegion, Patch!Closes
<1>5. a \in 1..n /\ note[a] = Patch!Start(r)
  BY <1>4, FindsFirst DEF Patch!Opens
<1>6. b \in (a + 1)..n /\ note[b] = Patch!End(r)
  <2>1. a + 1 \in Nat \ {0}
    BY <1>5
  <2>2. b = Patch!Find(note, Patch!End(r), a + 1)
    BY <1>4 DEF Patch!Closes
  <2> QED
    BY <1>4, <2>1, <2>2, FindsFirst
<1> HIDE DEF a, b
<1>7. a \in S /\ b \in E
  BY <1>5, <1>6
<1>8. S = {a} /\ E = {b}
  <2> HIDE DEF S, E
  <2> QED
    BY <1>3, <1>7
<1>9. \A i \in 1..n : (note[i] = Patch!Start(r) <=> i = a) /\ (note[i] = Patch!End(r) <=> i = b)
  BY <1>8
<1> QED
  BY <1>5, <1>6, <1>9 DEF Stands, a, b

LEMMA StandingIsWellFormed ==
  ASSUME NEW note, Len(note) \in Nat, DOMAIN note = 1..Len(note), NEW regions,
         \A r \in regions : \E a, b : Stands(note, r, a, b),
         \A q, r \in regions : q # r => \/ Patch!Closes(note, q) < Patch!Opens(note, r)
                                        \/ Patch!Closes(note, r) < Patch!Opens(note, q)
  PROVE  Patch!WellFormed(note, regions)
<1>1. ASSUME NEW r \in regions
      PROVE  /\ Cardinality({i \in DOMAIN note : note[i] = Patch!Start(r)}) = 1
             /\ Cardinality({i \in DOMAIN note : note[i] = Patch!End(r)}) = 1
             /\ Patch!HasRegion(note, r)
  <2>1. PICK a, b : Stands(note, r, a, b)
    OBVIOUS
  <2>2. a \in 1..Len(note) /\ b \in 1..Len(note)
    BY <2>1 DEF Stands
  <2>3. \A i \in 1..Len(note) : note[i] = Patch!Start(r) <=> i = a
    BY <2>1 DEF Stands
  <2>4. \A i \in 1..Len(note) : note[i] = Patch!End(r) <=> i = b
    BY <2>1 DEF Stands
  <2>5. Cardinality({i \in DOMAIN note : note[i] = Patch!Start(r)}) = 1
    BY <2>2, <2>3, OnePlace
  <2>6. Cardinality({i \in DOMAIN note : note[i] = Patch!End(r)}) = 1
    BY <2>2, <2>4, OnePlace
  <2> QED
    BY <2>1, <2>5, <2>6, StandsThere
<1> QED
  BY <1>1 DEF Patch!WellFormed, Patch!Cardinality, Cardinality, Patch!IsFiniteSet, IsFiniteSet

-----------------------------------------------------------------------------
(* A note with the text of a region replaced *)

(* What stands between two places of a note is replaced with what has no   *)
(* marker, and the rest moves on by d.                                     *)
IsMoved(new, note, open, close, d) ==
  /\ Len(note) \in Nat /\ DOMAIN note = 1..Len(note)
  /\ open \in 1..Len(note) /\ close \in (open + 1)..Len(note)
  /\ d \in Int /\ Len(new) = Len(note) + d /\ DOMAIN new = 1..Len(new) /\ open < close + d
  /\ \A p \in 1..open : new[p] = note[p]
  /\ \A p \in close..Len(note) : new[p + d] = note[p]
  /\ \A p \in (open + 1)..(close + d - 1) : ~Patch!IsMarker(new[p])
MovedTo(p, open, d) == IF p <= open THEN p ELSE p + d

LEMMA MovedMarker ==
  ASSUME NEW new, NEW note, NEW open, NEW close, NEW d, IsMoved(new, note, open, close, d),
         NEW token, Patch!IsMarker(token),
         NEW x \in 1..Len(note), x <= open \/ close <= x,
         \A i \in 1..Len(note) : note[i] = token <=> i = x
  PROVE  /\ MovedTo(x, open, d) \in 1..Len(new)
         /\ \A i \in 1..Len(new) : new[i] = token <=> i = MovedTo(x, open, d)
<1> DEFINE n == Len(note)
           y == MovedTo(x, open, d)
<1>1. /\ n \in Nat /\ open \in 1..n /\ close \in (open + 1)..n
      /\ d \in Int /\ Len(new) = n + d /\ open < close + d
      /\ \A p \in 1..open : new[p] = note[p]
      /\ \A p \in close..n : new[p + d] = note[p]
      /\ \A p \in (open + 1)..(close + d - 1) : ~Patch!IsMarker(new[p])
  BY DEF IsMoved
<1>2. /\ x <= open => y = x
      /\ ~(x <= open) => y = x + d /\ x \in close..n
  BY <1>1 DEF MovedTo
<1> HIDE DEF y, n
<1>3. x \in 1..n /\ (x <= open \/ close <= x)
  BY DEF n
<1>4. y \in 1..Len(new)
  BY <1>1, <1>2, <1>3
<1>5. ASSUME NEW i \in 1..Len(new), new[i] = token PROVE i = y
  <2>1. CASE i <= open
    <3>1. i \in 1..open /\ i \in 1..n
      BY <1>1, <2>1
    <3>2. i = x
      BY <1>1, <1>5, <3>1 DEF n
    <3> QED
      BY <1>2, <2>1, <3>2
  <2>2. CASE i \in (open + 1)..(close + d - 1)
    BY <1>1, <1>5, <2>2
  <2>3. CASE close + d <= i
    <3> DEFINE p == i - d
    <3>1. p \in close..n /\ p + d = i /\ p \in 1..n
      BY <1>1, <2>3
    <3> HIDE DEF p
    <3>2. note[p] = token
      BY <1>1, <1>5, <3>1
    <3>3. p = x
      BY <3>1, <3>2 DEF n
    <3>4. open \in Int /\ close \in Int /\ open < close
      BY <1>1
    <3>5. ~(x <= open)
      BY <3>1, <3>3, <3>4
    <3> QED
      BY <1>2, <3>1, <3>3, <3>5
  <2> QED
    BY <1>1, <2>1, <2>2, <2>3
<1>6. new[y] = token
  <2>1. note[x] = token
    OBVIOUS
  <2>2. CASE x <= open
    BY <1>1, <1>2, <1>3, <2>1, <2>2
  <2>3. CASE ~(x <= open)
    BY <1>1, <1>2, <2>1, <2>3
  <2> QED
    BY <2>2, <2>3
<1> QED
  BY <1>4, <1>5, <1>6 DEF y

LEMMA MarkersAre ==
  ASSUME NEW r
  PROVE  Patch!IsMarker(Patch!Start(r)) /\ Patch!IsMarker(Patch!End(r))
BY DEF Patch!IsMarker, Patch!Start, Patch!End

(* The region the text is in, and one before or after it, still stand.     *)
LEMMA MovedStands ==
  ASSUME NEW new, NEW note, NEW open, NEW close, NEW d, IsMoved(new, note, open, close, d),
         NEW q, NEW a, NEW b, Stands(note, q, a, b),
         (a = open /\ b = close) \/ b < open \/ close < a
  PROVE  Stands(new, q, MovedTo(a, open, d), MovedTo(b, open, d))
<1>1. /\ Len(note) \in Nat /\ open \in 1..Len(note) /\ close \in (open + 1)..Len(note)
      /\ d \in Int /\ open < close + d
  BY DEF IsMoved
<1>2. /\ a \in 1..Len(note) /\ b \in (a + 1)..Len(note) /\ b \in 1..Len(note)
      /\ a <= open \/ close <= a
      /\ b <= open \/ close <= b
  BY <1>1 DEF Stands
<1>3. \A i \in 1..Len(note) : note[i] = Patch!Start(q) <=> i = a
  BY DEF Stands
<1>4. \A i \in 1..Len(note) : note[i] = Patch!End(q) <=> i = b
  BY DEF Stands
<1>5. /\ MovedTo(a, open, d) \in 1..Len(new)
      /\ \A i \in 1..Len(new) : new[i] = Patch!Start(q) <=> i = MovedTo(a, open, d)
  BY <1>2, <1>3, MarkersAre, MovedMarker
<1>6. /\ MovedTo(b, open, d) \in 1..Len(new)
      /\ \A i \in 1..Len(new) : new[i] = Patch!End(q) <=> i = MovedTo(b, open, d)
  BY <1>2, <1>4, MarkersAre, MovedMarker
<1>7. MovedTo(a, open, d) < MovedTo(b, open, d)
  BY <1>1, <1>2 DEF MovedTo
<1>8. MovedTo(b, open, d) \in (MovedTo(a, open, d) + 1)..Len(new)
  <2>1. Len(new) \in Int
    BY <1>1 DEF IsMoved
  <2> HIDE DEF MovedTo
  <2> QED
    BY <1>5, <1>6, <1>7, <2>1
<1> QED
  BY <1>5, <1>6, <1>8 DEF Stands

(* No region comes to be. *)
LEMMA MovedLacks ==
  ASSUME NEW new, NEW note, NEW open, NEW close, NEW d, IsMoved(new, note, open, close, d),
         NEW q, Patch!HasRegion(new, q)
  PROVE  Patch!HasRegion(note, q)
<1> DEFINE n == Len(note)
<1>1. /\ n \in Nat /\ open \in 1..n /\ close \in (open + 1)..n
      /\ d \in Int /\ Len(new) = n + d /\ open < close + d
      /\ \A p \in 1..open : new[p] = note[p]
      /\ \A p \in close..n : new[p + d] = note[p]
      /\ \A p \in (open + 1)..(close + d - 1) : ~Patch!IsMarker(new[p])
  BY DEF IsMoved
<1>2. PICK a, b \in 1..Len(new) : a < b /\ new[a] = Patch!Start(q) /\ new[b] = Patch!End(q)
  <2>1. Len(new) \in Nat
    BY <1>1
  <2> QED
    BY <2>1, HasBoth
<1>3. Patch!IsMarker(new[a]) /\ Patch!IsMarker(new[b])
  BY <1>2, MarkersAre
<1> DEFINE Back(p) == IF p <= open THEN p ELSE p - d
<1>4. ASSUME NEW p \in 1..Len(new), Patch!IsMarker(new[p])
      PROVE  /\ p <= open \/ close + d <= p
             /\ Back(p) \in 1..n /\ note[Back(p)] = new[p]
  <2>1. p <= open \/ close + d <= p
    BY <1>1, <1>4
  <2>2. CASE p <= open
    BY <1>1, <2>2
  <2>3. CASE close + d <= p
    <3>1. ~(p <= open) /\ Back(p) = p - d
      BY <1>1, <2>3
    <3>2. Back(p) \in close..n /\ Back(p) + d = p
      BY <1>1, <2>3, <3>1
    <3> HIDE DEF Back
    <3> QED
      BY <1>1, <2>3, <3>2
  <2> QED
    BY <2>1, <2>2, <2>3
<1>5. Back(a) < Back(b)
  <2>1. (a <= open \/ close + d <= a) /\ (b <= open \/ close + d <= b)
    BY <1>3, <1>4
  <2> QED
    BY <1>1, <1>2, <2>1
<1>6. Back(a) \in 1..n /\ Back(b) \in 1..n /\ note[Back(a)] = Patch!Start(q) /\ note[Back(b)] = Patch!End(q)
  BY <1>2, <1>3, <1>4
<1> HIDE DEF Back
<1> QED
  BY <1>1, <1>5, <1>6, HasBoth

(* What is between two places that have not come apart. *)
LEMMA SameBetween ==
  ASSUME NEW X, NEW s \in Seq(X), NEW t \in Seq(X), NEW a \in 1..Len(s), NEW b \in (a + 1)..Len(s),
         NEW d \in Int, a + d \in 1..Len(t), b + d \in 1..Len(t),
         \A p \in (a + 1)..(b - 1) : t[p + d] = s[p]
  PROVE  SubSeq(t, a + d + 1, b + d - 1) = SubSeq(s, a + 1, b - 1)
<1> DEFINE u == SubSeq(s, a + 1, b - 1)
           v == SubSeq(t, a + d + 1, b + d - 1)
           k == b - 1 - a
<1>1. u \in Seq(X) /\ Len(u) = k /\ \A p \in 1..k : u[p] = s[a + p]
  <2>1. \A p \in (a + 1)..(b - 1) : s[p] \in X
    OBVIOUS
  <2>2. a + 1 \in Int /\ b - 1 \in Int /\ (b - 1) - (a + 1) + 1 = k
    OBVIOUS
  <2>3. /\ u \in Seq(X) /\ Len(u) = IF a + 1 <= b - 1 THEN (b - 1) - (a + 1) + 1 ELSE 0
        /\ \A p \in 1..((b - 1) - (a + 1) + 1) : u[p] = s[a + 1 + p - 1]
    BY <2>1, <2>2, SubSeqProperties
  <2>4. \A p \in 1..k : a + 1 + p - 1 = a + p
    OBVIOUS
  <2> QED
    BY <2>2, <2>3, <2>4
<1>2. v \in Seq(X) /\ Len(v) = k /\ \A p \in 1..k : v[p] = t[a + d + p]
  <2>1. \A p \in (a + d + 1)..(b + d - 1) : t[p] \in X
    OBVIOUS
  <2>2. a + d + 1 \in Int /\ b + d - 1 \in Int /\ (b + d - 1) - (a + d + 1) + 1 = k
    OBVIOUS
  <2>3. /\ v \in Seq(X) /\ Len(v) = IF a + d + 1 <= b + d - 1 THEN (b + d - 1) - (a + d + 1) + 1 ELSE 0
        /\ \A p \in 1..((b + d - 1) - (a + d + 1) + 1) : v[p] = t[a + d + 1 + p - 1]
    BY <2>1, <2>2, SubSeqProperties
  <2>4. \A p \in 1..k : a + d + 1 + p - 1 = a + d + p
    OBVIOUS
  <2> QED
    BY <2>2, <2>3, <2>4
<1>3. \A p \in 1..k : v[p] = u[p]
  <2> TAKE p \in 1..k
  <2>1. a + p \in (a + 1)..(b - 1) /\ (a + p) + d = a + d + p
    OBVIOUS
  <2> QED
    BY <1>1, <1>2, <2>1
<1> HIDE DEF u, v
<1>4. v = u
  <2> HIDE DEF k
  <2> QED
    BY <1>1, <1>2, <1>3, SeqEqual
<1> QED
  BY <1>4 DEF u, v

LEMMA MovedInside ==
  ASSUME NEW X, NEW new \in Seq(X), NEW note \in Seq(X), NEW open, NEW close, NEW d,
         IsMoved(new, note, open, close, d),
         NEW q, NEW a, NEW b, Stands(note, q, a, b), b < open \/ close < a
  PROVE  Patch!Inside(new, q) = Patch!Inside(note, q)
<1> DEFINE n == Len(note)
<1>1. /\ n \in Nat /\ open \in 1..n /\ close \in (open + 1)..n
      /\ d \in Int /\ Len(new) = n + d /\ open < close + d
      /\ \A p \in 1..open : new[p] = note[p]
      /\ \A p \in close..n : new[p + d] = note[p]
  BY DEF IsMoved
<1>2. a \in 1..n /\ b \in (a + 1)..n
  BY DEF Stands
<1>3. Patch!Opens(note, q) = a /\ Patch!Closes(note, q) = b
  BY <1>1, StandsThere
<1>4. Patch!Opens(new, q) = MovedTo(a, open, d) /\ Patch!Closes(new, q) = MovedTo(b, open, d)
  <2>1. Stands(new, q, MovedTo(a, open, d), MovedTo(b, open, d))
    BY MovedStands
  <2> QED
    BY <2>1, StandsThere
<1> DEFINE e == IF b < open THEN 0 ELSE d
<1>5. MovedTo(a, open, d) = a + e /\ MovedTo(b, open, d) = b + e
  BY <1>1, <1>2 DEF MovedTo
<1>6. e \in Int /\ a + e \in 1..Len(new) /\ b + e \in 1..Len(new)
  BY <1>1, <1>2
<1>7. \A p \in (a + 1)..(b - 1) : new[p + e] = note[p]
  <2>1. CASE b < open
    BY <1>1, <1>2, <2>1
  <2>2. CASE ~(b < open)
    BY <1>1, <1>2, <2>2
  <2> QED
    BY <2>1, <2>2
<1> HIDE DEF e
<1>8. SubSeq(new, a + e + 1, b + e - 1) = SubSeq(note, a + 1, b - 1)
  BY <1>2, <1>6, <1>7, SameBetween
<1>9. Patch!Inside(note, q) = SubSeq(note, a + 1, b - 1)
  BY <1>3 DEF Patch!Inside
<1>10. Patch!Inside(new, q) = SubSeq(new, a + e + 1, (b + e) - 1)
  <2>1. Patch!Opens(new, q) = a + e /\ Patch!Closes(new, q) = b + e
    BY <1>4, <1>5
  <2> QED
    BY <2>1 DEF Patch!Inside
<1>11. (b + e) - 1 = b + e - 1
  BY <1>2, <1>6
<1> QED
  BY <1>8, <1>9, <1>10, <1>11

LEMMA MovedInOrder ==
  ASSUME NEW new, NEW note, NEW open, NEW close, NEW d, IsMoved(new, note, open, close, d),
         NEW p \in 1..Len(note), p <= open \/ close <= p,
         NEW q \in 1..Len(note), q <= open \/ close <= q
  PROVE  p < q <=> MovedTo(p, open, d) < MovedTo(q, open, d)
<1>1. /\ Len(note) \in Nat /\ open \in 1..Len(note) /\ close \in (open + 1)..Len(note)
      /\ d \in Int /\ open < close + d
  BY DEF IsMoved
<1> QED
  BY <1>1 DEF MovedTo

(* Where the regions stand that a well-formed note has. *)
LEMMA RegionsStand ==
  ASSUME NEW note, Len(note) \in Nat, DOMAIN note = 1..Len(note), NEW regions,
         Patch!WellFormed(note, regions), NEW r \in regions, NEW q \in regions
  PROVE  /\ Stands(note, q, Patch!Opens(note, q), Patch!Closes(note, q))
         /\ \/ Patch!Opens(note, q) = Patch!Opens(note, r) /\ Patch!Closes(note, q) = Patch!Closes(note, r)
            \/ Patch!Closes(note, q) < Patch!Opens(note, r)
            \/ Patch!Closes(note, r) < Patch!Opens(note, q)
<1>1. Stands(note, q, Patch!Opens(note, q), Patch!Closes(note, q))
  BY WellFormedStands
<1>2. q # r => \/ Patch!Closes(note, q) < Patch!Opens(note, r)
               \/ Patch!Closes(note, r) < Patch!Opens(note, q)
  BY DEF Patch!WellFormed
<1> QED
  BY <1>1, <1>2

LEMMA MovedRegion ==
  ASSUME NEW note, NEW regions, Patch!WellFormed(note, regions), NEW r \in regions, NEW new, NEW d,
         IsMoved(new, note, Patch!Opens(note, r), Patch!Closes(note, r), d), NEW q \in regions
  PROVE  /\ Stands(new, q, MovedTo(Patch!Opens(note, q), Patch!Opens(note, r), d),
                           MovedTo(Patch!Closes(note, q), Patch!Opens(note, r), d))
         /\ Patch!Opens(new, q) = MovedTo(Patch!Opens(note, q), Patch!Opens(note, r), d)
         /\ Patch!Closes(new, q) = MovedTo(Patch!Closes(note, q), Patch!Opens(note, r), d)
         /\ Patch!Opens(note, q) \in 1..Len(note)
         /\ Patch!Opens(note, q) <= Patch!Opens(note, r) \/ Patch!Closes(note, r) <= Patch!Opens(note, q)
         /\ Patch!Closes(note, q) \in 1..Len(note)
         /\ Patch!Closes(note, q) <= Patch!Opens(note, r) \/ Patch!Closes(note, r) <= Patch!Closes(note, q)
<1> DEFINE open == Patch!Opens(note, r)
           close == Patch!Closes(note, r)
           a == Patch!Opens(note, q)
           b == Patch!Closes(note, q)
<1>1. Len(note) \in Nat /\ DOMAIN note = 1..Len(note) /\ Len(new) \in Nat
      /\ open \in Nat /\ close \in Nat /\ open < close
  BY DEF IsMoved
<1>2. /\ Stands(note, q, a, b)
      /\ (a = open /\ b = close) \/ b < open \/ close < a
  BY <1>1, RegionsStand
<1>3. a \in 1..Len(note) /\ b \in (a + 1)..Len(note)
  BY <1>2 DEF Stands
<1> HIDE DEF open, close, a, b
<1>4. Stands(new, q, MovedTo(a, open, d), MovedTo(b, open, d))
  <2>1. IsMoved(new, note, open, close, d)
    BY DEF open, close
  <2> QED
    BY <1>2, <2>1, MovedStands
<1>5. Patch!Opens(new, q) = MovedTo(a, open, d) /\ Patch!Closes(new, q) = MovedTo(b, open, d)
  BY <1>1, <1>4, StandsThere
<1>6. (a <= open \/ close <= a) /\ (b <= open \/ close <= b) /\ b \in 1..Len(note)
  BY <1>1, <1>2, <1>3
<1> QED
  BY <1>3, <1>4, <1>5, <1>6 DEF open, close, a, b

LEMMA MovedWellFormed ==
  ASSUME NEW note, NEW regions, Patch!WellFormed(note, regions), NEW r \in regions, NEW new, NEW d,
         IsMoved(new, note, Patch!Opens(note, r), Patch!Closes(note, r), d)
  PROVE  Patch!WellFormed(new, regions)
<1>1. Len(new) \in Nat /\ DOMAIN new = 1..Len(new)
  BY DEF IsMoved
<1>2. \A q \in regions : \E a, b : Stands(new, q, a, b)
  BY MovedRegion
<1>3. ASSUME NEW p \in regions, NEW q \in regions, p # q
      PROVE  \/ Patch!Closes(new, p) < Patch!Opens(new, q)
             \/ Patch!Closes(new, q) < Patch!Opens(new, p)
  <2>1. \/ Patch!Closes(note, p) < Patch!Opens(note, q)
        \/ Patch!Closes(note, q) < Patch!Opens(note, p)
    BY <1>3 DEF Patch!WellFormed
  <2>2. CASE Patch!Closes(note, p) < Patch!Opens(note, q)
    <3> DEFINE x == Patch!Closes(note, p)
               y == Patch!Opens(note, q)
               open == Patch!Opens(note, r)
               close == Patch!Closes(note, r)
    <3>1. x \in 1..Len(note) /\ (x <= open \/ close <= x) /\ Patch!Closes(new, p) = MovedTo(x, open, d)
      BY MovedRegion
    <3>2. y \in 1..Len(note) /\ (y <= open \/ close <= y) /\ Patch!Opens(new, q) = MovedTo(y, open, d)
      BY MovedRegion
    <3>3. IsMoved(new, note, open, close, d) /\ x < y
      BY <2>2
    <3> HIDE DEF x, y, open, close
    <3>4. MovedTo(x, open, d) < MovedTo(y, open, d)
      BY <3>1, <3>2, <3>3, MovedInOrder
    <3> QED
      BY <3>1, <3>2, <3>4
  <2>3. CASE Patch!Closes(note, q) < Patch!Opens(note, p)
    <3> DEFINE x == Patch!Closes(note, q)
               y == Patch!Opens(note, p)
               open == Patch!Opens(note, r)
               close == Patch!Closes(note, r)
    <3>1. x \in 1..Len(note) /\ (x <= open \/ close <= x) /\ Patch!Closes(new, q) = MovedTo(x, open, d)
      BY MovedRegion
    <3>2. y \in 1..Len(note) /\ (y <= open \/ close <= y) /\ Patch!Opens(new, p) = MovedTo(y, open, d)
      BY MovedRegion
    <3>3. IsMoved(new, note, open, close, d) /\ x < y
      BY <2>3
    <3> HIDE DEF x, y, open, close
    <3>4. MovedTo(x, open, d) < MovedTo(y, open, d)
      BY <3>1, <3>2, <3>3, MovedInOrder
    <3> QED
      BY <3>1, <3>2, <3>4
  <2> QED
    BY <2>1, <2>2, <2>3
<1> QED
  BY <1>1, <1>2, <1>3, StandingIsWellFormed

(* A place that stays is in the same regions as before. *)
LEMMA MovedWithin ==
  ASSUME NEW note, NEW regions, Patch!WellFormed(note, regions), NEW r \in regions, NEW new, NEW d,
         IsMoved(new, note, Patch!Opens(note, r), Patch!Closes(note, r), d), NEW q \in regions,
         NEW p \in 1..Len(note), p <= Patch!Opens(note, r) \/ Patch!Closes(note, r) <= p
  PROVE  Patch!Within(new, q, MovedTo(p, Patch!Opens(note, r), d)) <=> Patch!Within(note, q, p)
<1> DEFINE open == Patch!Opens(note, r)
           close == Patch!Closes(note, r)
           a == Patch!Opens(note, q)
           b == Patch!Closes(note, q)
<1>1. /\ a \in 1..Len(note) /\ (a <= open \/ close <= a) /\ Patch!Opens(new, q) = MovedTo(a, open, d)
      /\ b \in 1..Len(note) /\ (b <= open \/ close <= b) /\ Patch!Closes(new, q) = MovedTo(b, open, d)
  BY MovedRegion
<1>2. IsMoved(new, note, open, close, d) /\ p \in 1..Len(note) /\ (p <= open \/ close <= p)
  OBVIOUS
<1>3. Patch!Within(note, q, p) <=> a < p /\ p < b
  BY DEF Patch!Within
<1> HIDE DEF open, close, a, b
<1>4. a < p <=> MovedTo(a, open, d) < MovedTo(p, open, d)
  BY <1>1, <1>2, MovedInOrder
<1>5. p < b <=> MovedTo(p, open, d) < MovedTo(b, open, d)
  BY <1>1, <1>2, MovedInOrder
<1>6. Patch!Within(new, q, MovedTo(p, open, d)) <=> a < p /\ p < b
  BY <1>1, <1>4, <1>5 DEF Patch!Within
<1> QED
  BY <1>3, <1>6 DEF open

LEMMA MovedOutside ==
  ASSUME NEW note, NEW regions, Patch!WellFormed(note, regions), NEW r \in regions, NEW new, NEW d,
         IsMoved(new, note, Patch!Opens(note, r), Patch!Closes(note, r), d),
         NEW given, given \subseteq regions, r \in given
  PROVE  Patch!Outside(new, given) = Patch!Outside(note, given)
<1> DEFINE n == Len(note)
           open == Patch!Opens(note, r)
           close == Patch!Closes(note, r)
           P == {i \in DOMAIN note : \A q \in given : ~Patch!Within(note, q, i)}
           Q == {i \in DOMAIN new : \A q \in given : ~Patch!Within(new, q, i)}
           h == [p \in P |-> MovedTo(p, open, d)]
<1>1. /\ n \in Nat /\ DOMAIN note = 1..n /\ open \in 1..n /\ close \in (open + 1)..n
      /\ d \in Int /\ Len(new) = n + d /\ DOMAIN new = 1..(n + d) /\ open < close + d
      /\ \A p \in 1..open : new[p] = note[p]
      /\ \A p \in close..n : new[p + d] = note[p]
  BY DEF IsMoved
<1>2. Patch!Opens(new, r) = open /\ Patch!Closes(new, r) = close + d
  <2>1. Patch!Opens(new, r) = MovedTo(open, open, d) /\ Patch!Closes(new, r) = MovedTo(close, open, d)
    BY MovedRegion
  <2> HIDE DEF open, close
  <2> QED
    BY <1>1, <2>1 DEF MovedTo
<1>3. ASSUME NEW p \in P PROVE p \in 1..n /\ (p <= open \/ close <= p)
  <2>1. ~Patch!Within(note, r, p) /\ p \in 1..n
    BY <1>1
  <2> QED
    BY <1>1, <2>1 DEF Patch!Within
<1>4. ASSUME NEW p \in 1..n, p <= open \/ close <= p
      PROVE  /\ MovedTo(p, open, d) \in 1..(n + d) /\ new[MovedTo(p, open, d)] = note[p]
             /\ \A q \in given : Patch!Within(new, q, MovedTo(p, open, d)) <=> Patch!Within(note, q, p)
  <2>1. \A q \in given : Patch!Within(new, q, MovedTo(p, open, d)) <=> Patch!Within(note, q, p)
    BY <1>4, MovedWithin
  <2> HIDE DEF open, close
  <2>2. MovedTo(p, open, d) \in 1..(n + d) /\ new[MovedTo(p, open, d)] = note[p]
    <3>1. CASE p <= open
      BY <1>1, <3>1 DEF MovedTo
    <3>2. CASE ~(p <= open)
      <4>1. p \in close..n /\ MovedTo(p, open, d) = p + d
        BY <1>1, <1>4, <3>2 DEF MovedTo
      <4> QED
        BY <1>1, <4>1
    <3> QED
      BY <3>1, <3>2
  <2> QED
    BY <2>1, <2>2
<1>5. ASSUME NEW y \in Q PROVE \E p \in P : MovedTo(p, open, d) = y
  <2>1. ~Patch!Within(new, r, y) /\ y \in 1..(n + d)
    BY <1>1
  <2>2. y <= open \/ close + d <= y
    BY <1>1, <1>2, <2>1 DEF Patch!Within
  <2> DEFINE p == IF y <= open THEN y ELSE y - d
  <2>3. p \in 1..n /\ (p <= open \/ close <= p) /\ MovedTo(p, open, d) = y
    <3> HIDE DEF open, close
    <3>1. CASE y <= open
      BY <1>1, <2>1, <3>1 DEF MovedTo
    <3>2. CASE ~(y <= open)
      <4>1. p = y - d /\ p \in close..n /\ ~(p <= open) /\ p + d = y
        BY <1>1, <2>1, <2>2, <3>2
      <4> HIDE DEF p
      <4> QED
        BY <1>1, <4>1 DEF MovedTo
    <3> QED
      BY <3>1, <3>2
  <2> HIDE DEF p, open, close
  <2>4. \A q \in given : ~Patch!Within(new, q, y)
    OBVIOUS
  <2>5. \A q \in given : ~Patch!Within(note, q, p)
    BY <1>4, <2>3, <2>4
  <2>6. p \in P
    BY <1>1, <2>3, <2>5
  <2> QED
    BY <2>3, <2>6
<1>6. \A p \in P : MovedTo(p, open, d) \in Q /\ new[MovedTo(p, open, d)] = note[p]
  <2> TAKE p \in P
  <2>1. p \in 1..n /\ (p <= open \/ close <= p) /\ \A q \in given : ~Patch!Within(note, q, p)
    BY <1>3
  <2> HIDE DEF open, close
  <2> QED
    BY <1>1, <1>4, <2>1
<1>7. ArePlaces(P) /\ ArePlaces(Q)
  <2>1. P \subseteq 1..n /\ Q \subseteq 1..(n + d) /\ n + d \in Nat
    BY <1>1
  <2> HIDE DEF P, Q, n
  <2> QED
    BY <1>1, <2>1, PlacesAreFinite
<1>8. \A p, q \in P : p < q => MovedTo(p, open, d) < MovedTo(q, open, d)
  <2> HIDE DEF P
  <2>1. IsMoved(new, note, open, close, d)
    OBVIOUS
  <2> HIDE DEF open, close
  <2> QED
    BY <1>3, <2>1, MovedInOrder
<1> HIDE DEF P, Q
<1>9. AlikeAt(note, P, new, Q, h)
  <2>1. h \in [P -> Q] /\ \A p \in P : h[p] = MovedTo(p, open, d)
    BY <1>6
  <2> HIDE DEF h, open
  <2> QED
    BY <1>5, <1>6, <1>8, <2>1 DEF AlikeAt
<1> HIDE DEF h
<1>10. Filtered(new, Q) = Filtered(note, P)
  BY <1>7, <1>9, FilteredAlike
<1> QED
  BY <1>10, SameNoteFiltering DEF Patch!Outside, P, Q

-----------------------------------------------------------------------------
(* One update *)

IsUnmarked(content) == \A p \in 1..Len(content) : ~Patch!IsMarker(content[p])

(* What is left of a content is its head, and the rest of it is newlines.  *)
IsTrimmed(T, content) ==
  /\ Len(T) <= Len(content)
  /\ \A p \in 1..Len(T) : T[p] = content[p]
  /\ \A p \in (Len(T) + 1)..Len(content) : content[p] = Patch!Newline

LEMMA TrimmedIs ==
  ASSUME NEW Y, NEW content \in Seq(Y)
  PROVE  /\ Patch!TrailingDropped(content) \in Seq(Y)
         /\ IsTrimmed(Patch!TrailingDropped(content), content)
<1> DEFINE n == Len(content)
           words == {i \in DOMAIN content : content[i] # Patch!Newline}
           last == CHOOSE i \in words : \A j \in words : j <= i
           T == Patch!TrailingDropped(content)
<1>1. n \in Nat /\ DOMAIN content = 1..n
  OBVIOUS
<1>2. T = IF words = {} THEN << >> ELSE SubSeq(content, 1, last)
  BY DEF Patch!TrailingDropped
<1>3. CASE words = {}
  <2>1. T = << >> /\ \A p \in 1..n : content[p] = Patch!Newline
    BY <1>1, <1>2, <1>3
  <2> QED
    BY <1>1, <2>1 DEF IsTrimmed
<1>4. CASE words # {}
  <2>1. words \subseteq 0..n
    BY <1>1
  <2>2. last \in words /\ \A j \in words : j <= last
    <3>1. \E i \in words : \A j \in words : j <= i
      <4> HIDE DEF words, n
      <4> QED
        BY <1>1, <1>4, <2>1, Greatest
    <3> HIDE DEF words
    <3> QED
      BY <3>1
  <2> HIDE DEF last
  <2>3. last \in 1..n
    BY <1>1, <2>2
  <2>4. \A p \in (last + 1)..n : content[p] = Patch!Newline
    BY <1>1, <2>2, <2>3
  <2>5. T \in Seq(Y) /\ Len(T) = last /\ \A p \in 1..last : T[p] = content[p]
    <3>1. T = SubSeq(content, 1, last)
      BY <1>2, <1>4
    <3>2. \A p \in 1..last : content[p] \in Y
      BY <2>3
    <3>3. 1 \in Int /\ last \in Int /\ last - 1 + 1 = last
      BY <2>3
    <3> HIDE DEF T
    <3>4. /\ T \in Seq(Y) /\ Len(T) = IF 1 <= last THEN last - 1 + 1 ELSE 0
          /\ \A p \in 1..(last - 1 + 1) : T[p] = content[1 + p - 1]
      BY <3>1, <3>2, <3>3, SubSeqProperties
    <3>5. \A p \in 1..last : 1 + p - 1 = p
      OBVIOUS
    <3> QED
      BY <2>3, <3>3, <3>4, <3>5
  <2> HIDE DEF T
  <2>6. IsTrimmed(T, content)
    BY <2>3, <2>4, <2>5 DEF IsTrimmed
  <2> QED
    BY <2>5, <2>6 DEF T
<1> QED
  BY <1>3, <1>4

(* Where the old text of a region begins and ends: a newline beside each   *)
(* marker is not of it.                                                    *)
LastKept(note, open) == IF note[open + 1] = Patch!Newline THEN open + 1 ELSE open
FirstKept(note, close) == IF note[close - 1] = Patch!Newline THEN close - 1 ELSE close

(* The text between those places is replaced with T and a newline.         *)
IsReplaced(new, note, a, b, T) ==
  /\ Len(new) = Len(note) + Len(T) + a + 2 - b
  /\ \A p \in 1..a : new[p] = note[p]
  /\ \A p \in 1..Len(T) : new[a + p] = T[p]
  /\ new[a + Len(T) + 1] = Patch!Newline
  /\ \A p \in b..Len(note) : new[p + (Len(T) + a + 2 - b)] = note[p]

LEMMA KeptAround ==
  ASSUME NEW note, Len(note) \in Nat, NEW r, NEW open, NEW close, Stands(note, r, open, close)
  PROVE  /\ LastKept(note, open) \in open..(close - 1) /\ FirstKept(note, close) \in (open + 1)..close
         /\ LastKept(note, open) # open => note[open + 1] = Patch!Newline /\ LastKept(note, open) = open + 1
         /\ FirstKept(note, close) # close => note[close - 1] = Patch!Newline /\ FirstKept(note, close) = close - 1
<1>1. open \in 1..Len(note) /\ close \in (open + 1)..Len(note) /\ close \in 1..Len(note)
  BY DEF Stands
<1>2. note[open] = Patch!Start(r) /\ note[close] = Patch!End(r)
  BY <1>1 DEF Stands
<1>3. note[open] # Patch!Newline /\ note[close] # Patch!Newline
  <2>1. ~Patch!IsMarker(Patch!Newline)
    BY DEF Patch!IsMarker, Patch!Newline
  <2> QED
    BY <1>2, <2>1, MarkersAre
<1>4. note[open + 1] = Patch!Newline => open + 1 # close
  BY <1>3
<1>5. note[close - 1] = Patch!Newline => close - 1 # open
  BY <1>3
<1> QED
  BY <1>1, <1>4, <1>5 DEF LastKept, FirstKept

LEMMA ReplacedIs ==
  ASSUME NEW Y, NEW note \in Seq(Y), NEW content \in Seq(Y), Patch!Newline \in Y,
         NEW r, NEW open, NEW close, Stands(note, r, open, close)
  PROVE  /\ Patch!ReplaceRegion(note, r, content) \in Seq(Y)
         /\ IsReplaced(Patch!ReplaceRegion(note, r, content), note, LastKept(note, open),
                       FirstKept(note, close), Patch!TrailingDropped(content))
<1> DEFINE n == Len(note)
           a == LastKept(note, open)
           b == FirstKept(note, close)
           T == Patch!TrailingDropped(content)
           k == Len(T)
           new == Patch!ReplaceRegion(note, r, content)
           x == SubSeq(note, 1, a)
           z == SubSeq(note, b, n)
           m == T \o <<Patch!Newline>>
<1>1. n \in Nat /\ open \in 1..n /\ close \in (open + 1)..n
  BY DEF Stands
<1>2. a \in open..(close - 1) /\ b \in (open + 1)..close
  BY <1>1, KeptAround
<1>3. T \in Seq(Y) /\ k \in Nat
  <2>1. T \in Seq(Y)
    BY TrimmedIs
  <2> HIDE DEF T
  <2> QED
    BY <2>1
<1>4. new = x \o T \o <<Patch!Newline>> \o z
  <2> DEFINE s == IF note[open + 1] = Patch!Newline THEN open + 2 ELSE open + 1
  <2>1. Patch!Opens(note, r) = open /\ Patch!Closes(note, r) = close
    BY <1>1, StandsThere
  <2>2. new = SubSeq(note, 1, s - 1) \o T \o <<Patch!Newline>> \o SubSeq(note, b, n)
    BY <2>1 DEF Patch!ReplaceRegion, Patch!Ahead, Patch!From, FirstKept
  <2>3. s - 1 = a
    BY <1>1 DEF LastKept
  <2> HIDE DEF s, new, T, a, b
  <2> QED
    BY <2>2, <2>3
<1>5. new = Spliced(note, a + 1, b, m)
  <2>1. x \in Seq(Y)
    <3>1. \A p \in 1..a : note[p] \in Y
      BY <1>1, <1>2
    <3>2. 1 \in Int /\ a \in Int
      BY <1>1, <1>2
    <3> HIDE DEF a
    <3> QED
      BY <3>1, <3>2, SubSeqProperties
  <2>2. <<Patch!Newline>> \in Seq(Y)
    OBVIOUS
  <2>3. (a + 1) - 1 = a
    BY <1>1, <1>2
  <2>4. Spliced(note, a + 1, b, m) = SubSeq(note, 1, (a + 1) - 1) \o m \o z
    BY DEF Spliced
  <2>5. (x \o T) \o <<Patch!Newline>> = x \o m
    <3> HIDE DEF x, T
    <3> QED
      BY <1>3, <2>1, <2>2, ConcatAssociative
  <2> HIDE DEF new, a, b, T, m, z
  <2>6. Spliced(note, a + 1, b, m) = x \o m \o z
    BY <2>3, <2>4
  <2> HIDE DEF x
  <2> QED
    BY <1>4, <2>5, <2>6
<1>6. m \in Seq(Y) /\ Len(m) = k + 1 /\ m[k + 1] = Patch!Newline /\ \A p \in 1..k : m[p] = T[p]
  <2> DEFINE nl == <<Patch!Newline>>
  <2>1. nl \in Seq(Y) /\ Len(nl) = 1 /\ nl[1] = Patch!Newline
    OBVIOUS
  <2> HIDE DEF T, nl
  <2>2. /\ m \in Seq(Y) /\ Len(m) = Len(T) + Len(nl)
        /\ \A p \in 1..(Len(T) + Len(nl)) : m[p] = IF p <= Len(T) THEN T[p] ELSE nl[p - Len(T)]
    BY <1>3, <2>1, ConcatProperties DEF nl
  <2> HIDE DEF m
  <2>3. m[k + 1] = nl[1]
    BY <1>3, <2>1, <2>2
  <2> QED
    BY <1>3, <2>1, <2>2, <2>3
<1> HIDE DEF n, a, b, T, k, m, new
<1>7. /\ a + 1 \in Nat /\ b \in Nat /\ 1 <= a + 1 /\ a + 1 <= Len(note) + 1
      /\ 1 <= b /\ b <= Len(note) + 1
  BY <1>1, <1>2 DEF n
<1> DEFINE i == a + 1
<1> HIDE DEF i
<1>8. IsSpliced(new, note, i, b, m, Y)
  <2>1. new = Spliced(note, i, b, m)
    BY <1>5 DEF i
  <2>2. i \in Nat /\ 1 <= i /\ i <= Len(note) + 1
    BY <1>7 DEF i
  <2> QED
    BY <1>6, <1>7, <2>1, <2>2, SplicedPlaces
<1>9. /\ new \in Seq(Y) /\ Len(new) = n + (k + 1) - (b - i)
      /\ \A p \in 1..(i - 1) : new[p] = note[p]
      /\ \A p \in 1..(k + 1) : new[i - 1 + p] = m[p]
      /\ \A p \in b..n : new[p + (k + 1) - (b - i)] = note[p]
  BY <1>6, <1>8 DEF IsSpliced, n
<1>10. /\ new \in Seq(Y) /\ Len(new) = n + k + a + 2 - b
       /\ \A p \in 1..a : new[p] = note[p]
       /\ \A p \in 1..k : new[a + p] = T[p]
       /\ new[a + k + 1] = Patch!Newline
       /\ \A p \in b..n : new[p + (k + a + 2 - b)] = note[p]
  <2>1. i - 1 = a /\ a \in Int /\ b \in Int /\ n \in Int
    BY <1>1, <1>2 DEF i
  <2>2. n + (k + 1) - (b - i) = n + k + a + 2 - b
    BY <1>3, <2>1 DEF i
  <2>3. \A p \in 1..a : new[p] = note[p]
    BY <1>9, <2>1
  <2>4. \A p \in 1..(k + 1) : new[a + p] = m[p]
    BY <1>9, <2>1
  <2>5. \A p \in 1..k : new[a + p] = T[p]
    BY <1>3, <1>6, <2>4
  <2>6. new[a + k + 1] = Patch!Newline
    <3>1. k + 1 \in 1..(k + 1) /\ a + (k + 1) = a + k + 1
      BY <1>3, <2>1
    <3> QED
      BY <1>6, <2>4, <3>1
  <2>7. ASSUME NEW p \in b..n PROVE new[p + (k + a + 2 - b)] = note[p]
    <3>1. p + (k + 1) - (b - i) = p + (k + a + 2 - b)
      BY <1>3, <2>1 DEF i
    <3> QED
      BY <1>9, <3>1
  <2> QED
    BY <1>9, <2>2, <2>3, <2>5, <2>6, <2>7
<1> QED
  BY <1>10 DEF IsReplaced, n, a, b, T, k, new

LEMMA ReplacedMoves ==
  ASSUME NEW note, Len(note) \in Nat, DOMAIN note = 1..Len(note), NEW r, NEW open, NEW close,
         Stands(note, r, open, close), NEW content, IsUnmarked(content),
         Len(content) \in Nat, NEW T, Len(T) \in Nat, IsTrimmed(T, content),
         NEW new, DOMAIN new = 1..Len(new),
         IsReplaced(new, note, LastKept(note, open), FirstKept(note, close), T)
  PROVE  IsMoved(new, note, open, close,
                 Len(T) + LastKept(note, open) + 2 - FirstKept(note, close))
<1> DEFINE n == Len(note)
           k == Len(T)
           a == LastKept(note, open)
           b == FirstKept(note, close)
           d == k + a + 2 - b
<1>1. n \in Nat /\ k \in Nat /\ open \in 1..n /\ close \in (open + 1)..n
  BY DEF Stands
<1>2. /\ a \in open..(close - 1) /\ b \in (open + 1)..close
      /\ a # open => note[open + 1] = Patch!Newline /\ a = open + 1
      /\ b # close => note[close - 1] = Patch!Newline /\ b = close - 1
  BY <1>1, KeptAround
<1>3. /\ Len(new) = n + k + a + 2 - b
      /\ \A p \in 1..a : new[p] = note[p]
      /\ \A p \in 1..k : new[a + p] = T[p]
      /\ new[a + k + 1] = Patch!Newline
      /\ \A p \in b..n : new[p + d] = note[p]
  BY DEF IsReplaced
<1>4. \A p \in 1..k : ~Patch!IsMarker(T[p])
  <2>1. \A p \in 1..k : T[p] = content[p] /\ p \in 1..Len(content)
    BY DEF IsTrimmed
  <2> QED
    BY <2>1 DEF IsUnmarked
<1>5. ~Patch!IsMarker(Patch!Newline)
  BY DEF Patch!IsMarker, Patch!Newline
<1> HIDE DEF n, k, a, b
<1>6. a \in Int /\ b \in Int /\ d \in Int /\ b + d = a + k + 2
  BY <1>1, <1>2
<1>7. Len(new) = n + d /\ open < close + d
  BY <1>1, <1>2, <1>3, <1>6
<1> HIDE DEF d
<1>8. ASSUME NEW p \in (open + 1)..(close + d - 1) PROVE ~Patch!IsMarker(new[p])
  <2>1. CASE p <= a
    <3>1. p = open + 1 /\ p \in 1..a /\ a # open
      BY <1>1, <1>2, <2>1
    <3>2. new[p] = Patch!Newline
      BY <1>2, <1>3, <3>1
    <3> QED
      BY <1>5, <3>2
  <2>2. CASE a < p /\ p <= a + k
    <3>1. p - a \in 1..k /\ a + (p - a) = p
      BY <1>1, <1>6, <2>2
    <3>2. new[p] = T[p - a]
      BY <1>3, <3>1
    <3> QED
      BY <1>4, <3>1, <3>2
  <2>3. CASE p = a + k + 1
    BY <1>3, <1>5, <2>3
  <2>4. CASE p > a + k + 1
    <3> DEFINE q == p - d
    <3>1. q \in b..(close - 1) /\ q + d = p
      BY <1>1, <1>2, <1>6, <2>4
    <3> HIDE DEF q
    <3>2. q \in b..n /\ q = close - 1 /\ b # close
      BY <1>1, <1>2, <3>1
    <3>3. new[p] = note[q] /\ note[q] = Patch!Newline
      BY <1>2, <1>3, <3>1, <3>2
    <3> QED
      BY <1>5, <3>3
  <2> QED
    BY <1>1, <1>6, <2>1, <2>2, <2>3, <2>4
<1>9. \A p \in 1..open : new[p] = note[p]
  <2>1. \A p \in 1..open : p \in 1..a
    BY <1>1, <1>2
  <2> QED
    BY <1>3, <2>1
<1>10. \A p \in close..n : new[p + d] = note[p]
  BY <1>1, <1>2, <1>3
<1>11. IsMoved(new, note, open, close, d)
  BY <1>1, <1>6, <1>7, <1>8, <1>9, <1>10 DEF IsMoved, n
<1> QED
  BY <1>11 DEF d, k, a, b

LEMMA InsideIs ==
  ASSUME NEW Y, NEW note \in Seq(Y), NEW r, NEW open, NEW close, Stands(note, r, open, close)
  PROVE  /\ Patch!Inside(note, r) \in Seq(Y) /\ Len(Patch!Inside(note, r)) = close - open - 1
         /\ \A p \in 1..(close - open - 1) : Patch!Inside(note, r)[p] = note[open + p]
<1> DEFINE inside == Patch!Inside(note, r)
           k == close - open - 1
<1>1. open \in 1..Len(note) /\ close \in (open + 1)..Len(note)
  BY DEF Stands
<1>2. Patch!Opens(note, r) = open /\ Patch!Closes(note, r) = close
  BY StandsThere
<1>3. inside = SubSeq(note, open + 1, close - 1)
  BY <1>2 DEF Patch!Inside
<1>4. \A p \in (open + 1)..(close - 1) : note[p] \in Y
  BY <1>1
<1>5. open + 1 \in Int /\ close - 1 \in Int /\ (close - 1) - (open + 1) + 1 = k
  BY <1>1
<1> HIDE DEF inside
<1>6. /\ inside \in Seq(Y) /\ Len(inside) = IF open + 1 <= close - 1 THEN (close - 1) - (open + 1) + 1 ELSE 0
      /\ \A p \in 1..((close - 1) - (open + 1) + 1) : inside[p] = note[open + 1 + p - 1]
  BY <1>3, <1>4, <1>5, SubSeqProperties
<1>7. \A p \in 1..k : open + 1 + p - 1 = open + p
  BY <1>1
<1>8. Len(inside) = k
  BY <1>1, <1>5, <1>6
<1>9. \A p \in 1..k : inside[p] = note[open + p]
  BY <1>5, <1>6, <1>7
<1> QED
  BY <1>6, <1>8, <1>9 DEF inside

(* The region says what it was given, newlines apart. *)
LEMMA ReplacedWords ==
  ASSUME NEW Y, NEW note \in Seq(Y), NEW content \in Seq(Y), NEW r, NEW open, NEW close,
         Stands(note, r, open, close), NEW T \in Seq(Y), IsTrimmed(T, content), NEW new \in Seq(Y),
         IsReplaced(new, note, LastKept(note, open), FirstKept(note, close), T), NEW d \in Int,
         d = Len(T) + LastKept(note, open) + 2 - FirstKept(note, close),
         Stands(new, r, open, close + d)
  PROVE  Patch!Words(Patch!Inside(new, r)) = Patch!Words(content)
<1> DEFINE n == Len(note)
           k == Len(T)
           a == LastKept(note, open)
           b == FirstKept(note, close)
           inside == Patch!Inside(new, r)
           m == close + d - open - 1
           P == {i \in DOMAIN content : content[i] # Patch!Newline}
           Q == {i \in DOMAIN inside : inside[i] # Patch!Newline}
           e == a - open
           h == [p \in P |-> p + e]
<1>1. n \in Nat /\ k \in Nat /\ open \in 1..n /\ close \in (open + 1)..n
  BY DEF Stands
<1>2. /\ a \in open..(close - 1) /\ b \in (open + 1)..close
      /\ a # open => note[open + 1] = Patch!Newline /\ a = open + 1
      /\ b # close => note[close - 1] = Patch!Newline /\ b = close - 1
  BY <1>1, KeptAround
<1>3. /\ \A p \in 1..a : new[p] = note[p]
      /\ \A p \in 1..k : new[a + p] = T[p]
      /\ new[a + k + 1] = Patch!Newline
      /\ \A p \in b..n : new[p + d] = note[p]
  BY DEF IsReplaced
<1>4. inside \in Seq(Y) /\ Len(inside) = m /\ DOMAIN inside = 1..m /\ \A p \in 1..m : inside[p] = new[open + p]
  <2>1. (close + d) - open - 1 = m
    BY <1>1
  <2> HIDE DEF inside
  <2>2. inside \in Seq(Y) /\ Len(inside) = (close + d) - open - 1
        /\ \A p \in 1..((close + d) - open - 1) : inside[p] = new[open + p]
    BY InsideIs DEF inside
  <2> HIDE DEF m
  <2> QED
    BY <2>1, <2>2
<1>5. b + d = a + k + 2
  <2>1. d = k + a + 2 - b
    OBVIOUS
  <2> HIDE DEF a, b, k
  <2> QED
    BY <1>1, <1>2, <2>1
<1>6. \A p \in P : p \in 1..k /\ T[p] = content[p]
  <2>1. /\ \A p \in 1..k : T[p] = content[p]
        /\ \A p \in (k + 1)..Len(content) : content[p] = Patch!Newline
    BY DEF IsTrimmed
  <2> TAKE p \in P
  <2>2. p \in 1..Len(content) /\ content[p] # Patch!Newline /\ Len(content) \in Nat
    OBVIOUS
  <2> HIDE DEF P, k
  <2>3. p \notin (k + 1)..Len(content)
    BY <2>1, <2>2
  <2>4. p \in 1..k
    BY <1>1, <2>2, <2>3
  <2> QED
    BY <2>1, <2>4
<1>7. k <= Len(content) /\ \A p \in 1..k : T[p] = content[p]
  BY DEF IsTrimmed
<1> HIDE DEF n, k, a, b, inside
<1>0. /\ n \in Int /\ k \in Int /\ a \in Int /\ b \in Int /\ open \in Int /\ close \in Int
      /\ 0 <= k /\ 1 <= open /\ open <= a /\ a < close /\ open < b /\ b <= close /\ close <= n
      /\ a <= open + 1 /\ close - 1 <= b
  BY <1>1, <1>2
<1>8. m \in Int /\ e \in 0..1 /\ m = e + k + 1 + (close - b)
  <2>1. e \in 0..1
    BY <1>0
  <2>2. m \in Int
    BY <1>0
  <2>3. d = a + k + 2 - b
    BY <1>0, <1>5
  <2>4. m = e + k + 1 + (close - b)
    <3>1. m = close - open - 1 + d
      BY <1>0
    <3>2. close - open - 1 + d = (close - open - 1) + (a + k + 2 - b)
      BY <1>0, <2>3
    <3>3. (close - open - 1) + (a + k + 2 - b) = e + k + 1 + (close - b)
      BY <1>0
    <3> QED
      BY <3>1, <3>2, <3>3
  <2> QED
    BY <2>1, <2>2, <2>4
<1>9. \A p \in 1..k : p + e \in 1..m /\ inside[p + e] = T[p]
  <2> TAKE p \in 1..k
  <2>1. p + e \in 1..m /\ open + (p + e) = a + p
    BY <1>1, <1>2, <1>8
  <2> HIDE DEF e, m
  <2> QED
    BY <1>3, <1>4, <2>1
<1>10. ASSUME NEW q \in Q PROVE q - e \in 1..k
  <2> DEFINE y == open + q
  <2>1. q \in 1..m /\ new[y] # Patch!Newline
    BY <1>4
  <2>2. y \in Int /\ y > open /\ y < close + d
    BY <1>1, <2>1
  <2> HIDE DEF y
  <2>3. ~(y <= a)
    <3> SUFFICES ASSUME y <= a PROVE FALSE
      OBVIOUS
    <3>1. y = open + 1 /\ y \in 1..a /\ a # open
      BY <1>1, <1>2, <2>2
    <3> QED
      BY <1>2, <1>3, <2>1, <3>1
  <2>4. y # a + k + 1
    BY <1>3, <2>1
  <2>5. ~(y > a + k + 1)
    <3> SUFFICES ASSUME y > a + k + 1 PROVE FALSE
      OBVIOUS
    <3> DEFINE p == y - d
    <3>1. p \in b..(close - 1) /\ p + d = y
      BY <1>0, <1>5, <2>2
    <3> HIDE DEF p
    <3>2. p \in b..n /\ p = close - 1 /\ b # close
      BY <1>1, <1>2, <3>1
    <3> QED
      BY <1>2, <1>3, <2>1, <3>1, <3>2
  <2>6. y \in (a + 1)..(a + k)
    BY <1>1, <1>2, <2>2, <2>3, <2>4, <2>5
  <2>7. q \in Int /\ y = open + q
    BY <2>1 DEF y
  <2> QED
    BY <1>0, <2>6, <2>7
<1>11. ArePlaces(P) /\ ArePlaces(Q)
  <2>1. P \subseteq 1..Len(content) /\ Len(content) \in Nat
    OBVIOUS
  <2>2. Q \subseteq 1..Len(inside) /\ Len(inside) \in Nat
    BY <1>4
  <2> HIDE DEF P, Q
  <2> QED
    BY <2>1, <2>2, PlacesAreFinite
<1>12. \A p \in P : p + e \in Q /\ inside[p + e] = content[p]
  <2> TAKE p \in P
  <2>1. p \in 1..k /\ T[p] = content[p] /\ content[p] # Patch!Newline
    BY <1>6
  <2> HIDE DEF e, P
  <2>2. p + e \in 1..m /\ inside[p + e] = T[p]
    BY <1>9, <2>1
  <2> HIDE DEF m
  <2> QED
    BY <1>4, <2>1, <2>2
<1>13. \A q \in Q : \E p \in P : p + e = q
  <2> TAKE q \in Q
  <2> DEFINE p == q - e
  <2>1. p \in 1..k
    BY <1>10
  <2>2. p + e = q
    BY <1>4, <1>8
  <2>3. inside[q] # Patch!Newline
    OBVIOUS
  <2> HIDE DEF p, e, Q
  <2>4. T[p] # Patch!Newline
    BY <1>9, <2>1, <2>2, <2>3
  <2>5. p \in P
    BY <1>1, <1>7, <2>1, <2>4
  <2> QED
    BY <2>2, <2>5
<1>14. \A p, q \in P : p < q => p + e < q + e
  BY <1>8
<1> HIDE DEF P, Q, e
<1>15. AlikeAt(content, P, inside, Q, h)
  <2>1. h \in [P -> Q] /\ \A p \in P : h[p] = p + e
    BY <1>12
  <2> HIDE DEF h
  <2> QED
    BY <1>12, <1>13, <1>14, <2>1 DEF AlikeAt
<1> HIDE DEF h
<1>16. Filtered(inside, Q) = Filtered(content, P)
  BY <1>11, <1>15, FilteredAlike
<1> QED
  BY <1>16, SameNoteFiltering DEF Patch!Words, P, Q, inside

(* What is between markers that stand on lines of their own, and what a    *)
(* patch leaves there.                                                     *)
IsLined(inside) ==
  Len(inside) >= 1 /\ inside[1] = Patch!Newline /\ inside[Len(inside)] = Patch!Newline
Says(inside, T) ==
  /\ Len(inside) = Len(T) + 3 /\ inside[1] = Patch!Newline
  /\ \A p \in 1..Len(T) : inside[p + 1] = T[p]
  /\ inside[Len(T) + 2] = Patch!Newline /\ inside[Len(T) + 3] = Patch!Newline

LEMMA SaysIsLined ==
  ASSUME NEW inside, NEW T, Len(T) \in Nat, Says(inside, T)
  PROVE  IsLined(inside)
BY DEF Says, IsLined

LEMMA LinedAround ==
  ASSUME NEW Y, NEW note \in Seq(Y), NEW r, NEW open, NEW close, Stands(note, r, open, close)
  PROVE  IsLined(Patch!Inside(note, r)) <=>
           note[open + 1] = Patch!Newline /\ note[close - 1] = Patch!Newline
<1> DEFINE inside == Patch!Inside(note, r)
           k == close - open - 1
<1>1. open \in 1..Len(note) /\ close \in (open + 1)..Len(note) /\ close \in 1..Len(note)
      /\ note[open] = Patch!Start(r) /\ note[close] = Patch!End(r)
  BY DEF Stands
<1>2. Len(inside) = k /\ \A p \in 1..k : inside[p] = note[open + p]
  BY InsideIs
<1>3. note[open] # Patch!Newline /\ note[close] # Patch!Newline
  <2>1. ~Patch!IsMarker(Patch!Newline)
    BY DEF Patch!IsMarker, Patch!Newline
  <2> QED
    BY <1>1, <2>1, MarkersAre
<1> HIDE DEF inside
<1>4. k \in Nat /\ open + k = close - 1
  BY <1>1
<1>5. CASE k = 0
  <2>1. open + 1 = close
    BY <1>1, <1>5
  <2> QED
    BY <1>2, <1>3, <1>5, <2>1 DEF IsLined, inside
<1>6. CASE k # 0
  <2> HIDE DEF k
  <2>1. 1 \in 1..k /\ k \in 1..k
    BY <1>4, <1>6
  <2>2. inside[1] = note[open + 1] /\ inside[k] = note[open + k]
    BY <1>2, <2>1
  <2>3. inside[k] = note[close - 1]
    BY <1>4, <2>2
  <2> QED
    BY <1>2, <2>1, <2>2, <2>3 DEF IsLined, inside
<1> QED
  BY <1>5, <1>6

LEMMA LinedIsSaid ==
  ASSUME NEW Y, NEW note \in Seq(Y), NEW r, NEW open, NEW close,
         Stands(note, r, open, close), IsLined(Patch!Inside(note, r)),
         NEW T \in Seq(Y), NEW new \in Seq(Y),
         IsReplaced(new, note, LastKept(note, open), FirstKept(note, close), T), NEW d \in Int,
         d = Len(T) + LastKept(note, open) + 2 - FirstKept(note, close),
         Stands(new, r, open, close + d)
  PROVE  Says(Patch!Inside(new, r), T)
<1> DEFINE n == Len(note)
           k == Len(T)
           b == close - 1
           inside == Patch!Inside(new, r)
           m == close + d - open - 1
<1>1. n \in Nat /\ k \in Nat /\ open \in 1..n /\ close \in (open + 1)..n
  BY DEF Stands
<1>2. note[open + 1] = Patch!Newline /\ note[b] = Patch!Newline
  BY LinedAround
<1>3. LastKept(note, open) = open + 1 /\ FirstKept(note, close) = b
  BY <1>2 DEF LastKept, FirstKept
<1>4. b \in (open + 1)..n /\ b \in Int
  <2>1. FirstKept(note, close) \in (open + 1)..close
    BY <1>1, KeptAround
  <2> QED
    BY <1>1, <1>3, <2>1
<1>5. d = k + (open + 1) + 2 - b
  BY <1>3
<1>6. d = k + open + 3 - b /\ m = k + 3
  <2> HIDE DEF k
  <2>1. d = k + open + 3 - b
    BY <1>1, <1>5
  <2>2. m = (close - open - 1) + d
    BY <1>1
  <2>3. (close - open - 1) + d = k + 3
    BY <1>1, <2>1
  <2> QED
    BY <2>1, <2>2, <2>3
<1>7. /\ \A p \in 1..(open + 1) : new[p] = note[p]
      /\ \A p \in 1..k : new[(open + 1) + p] = T[p]
      /\ new[(open + 1) + k + 1] = Patch!Newline
      /\ \A p \in b..n : new[p + (k + (open + 1) + 2 - b)] = note[p]
  <2>1. IsReplaced(new, note, open + 1, b, T)
    BY <1>3
  <2> HIDE DEF b
  <2> QED
    BY <2>1 DEF IsReplaced
<1>8. Len(inside) = k + 3 /\ \A p \in 1..(k + 3) : inside[p] = new[open + p]
  <2>1. (close + d) - open - 1 = m
    BY <1>1
  <2> HIDE DEF inside
  <2>2. Len(inside) = (close + d) - open - 1
        /\ \A p \in 1..((close + d) - open - 1) : inside[p] = new[open + p]
    BY InsideIs DEF inside
  <2> HIDE DEF m, k
  <2> QED
    BY <1>6, <2>1, <2>2
<1> HIDE DEF k, inside, b, n, m
<1>9. inside[1] = Patch!Newline
  <2>1. 1 \in 1..(k + 3) /\ open + 1 \in 1..(open + 1)
    BY <1>1
  <2> QED
    BY <1>2, <1>7, <1>8, <2>1
<1>10. ASSUME NEW p \in 1..k PROVE inside[p + 1] = T[p]
  <2>1. p + 1 \in 1..(k + 3) /\ open + (p + 1) = (open + 1) + p
    BY <1>1
  <2> QED
    BY <1>7, <1>8, <2>1
<1>11. inside[k + 2] = Patch!Newline
  <2>1. k + 2 \in 1..(k + 3) /\ open + (k + 2) = (open + 1) + k + 1
    BY <1>1
  <2> QED
    BY <1>7, <1>8, <2>1
<1>12. inside[k + 3] = Patch!Newline
  <2>1. b \in b..n
    BY <1>1, <1>4
  <2>2. k + 3 \in 1..(k + 3) /\ open + (k + 3) = b + (k + (open + 1) + 2 - b)
    BY <1>1, <1>4
  <2> QED
    BY <1>2, <1>7, <1>8, <2>1, <2>2
<1> QED
  BY <1>8, <1>9, <1>10, <1>11, <1>12 DEF Says, k, inside

(* Where a region says already what a patch gives it, nothing changes.     *)
LEMMA SaidStays ==
  ASSUME NEW Y, NEW note \in Seq(Y), NEW content \in Seq(Y), Patch!Newline \in Y,
         NEW r, NEW open, NEW close, Stands(note, r, open, close),
         Says(Patch!Inside(note, r), Patch!TrailingDropped(content))
  PROVE  Patch!ReplaceRegion(note, r, content) = note
<1> DEFINE n == Len(note)
           T == Patch!TrailingDropped(content)
           k == Len(T)
           b == close - 1
           inside == Patch!Inside(note, r)
           new == Patch!ReplaceRegion(note, r, content)
<1>1. n \in Nat /\ open \in 1..n /\ close \in (open + 1)..n
  BY DEF Stands
<1>2. T \in Seq(Y) /\ k \in Nat
  <2>1. T \in Seq(Y)
    BY TrimmedIs
  <2> HIDE DEF T
  <2> QED
    BY <2>1
<1>3. note[open + 1] = Patch!Newline /\ note[b] = Patch!Newline
  <2>1. IsLined(inside)
    BY <1>2, SaysIsLined
  <2> QED
    BY <2>1, LinedAround
<1>4. new \in Seq(Y) /\ IsReplaced(new, note, open + 1, b, T)
  <2>1. LastKept(note, open) = open + 1 /\ FirstKept(note, close) = b
    BY <1>3 DEF LastKept, FirstKept
  <2>2. new \in Seq(Y) /\ IsReplaced(new, note, LastKept(note, open), FirstKept(note, close), T)
    BY ReplacedIs
  <2> QED
    BY <2>1, <2>2
<1>5. /\ Len(inside) = k + 3
      /\ \A p \in 1..k : inside[p + 1] = T[p]
      /\ inside[k + 2] = Patch!Newline
  BY DEF Says
<1>6. Len(inside) = close - open - 1 /\ \A p \in 1..(close - open - 1) : inside[p] = note[open + p]
  BY InsideIs
<1> HIDE DEF T, k, inside, new
<1>7. close - open - 1 = k + 3 /\ close = open + k + 4 /\ b = open + k + 3
  <2>1. close - open - 1 = k + 3
    BY <1>5, <1>6
  <2>2. close = open + k + 4
    BY <1>1, <1>2, <2>1
  <2> QED
    BY <1>1, <1>2, <2>1, <2>2
<1>8. k + (open + 1) + 2 - b = 0 /\ n + k + (open + 1) + 2 - b = n /\ b \in Int
  BY <1>1, <1>2, <1>7
<1> HIDE DEF b
<1>9. /\ Len(new) = n + k + (open + 1) + 2 - b
      /\ \A p \in 1..(open + 1) : new[p] = note[p]
      /\ \A p \in 1..k : new[(open + 1) + p] = T[p]
      /\ new[(open + 1) + k + 1] = Patch!Newline
      /\ \A p \in b..n : new[p + (k + (open + 1) + 2 - b)] = note[p]
  BY <1>4 DEF IsReplaced, k
<1>10. ASSUME NEW p \in 1..n PROVE new[p] = note[p]
  <2>1. CASE p <= open + 1
    <3>1. p \in 1..(open + 1)
      BY <1>1, <2>1
    <3> QED
      BY <1>9, <3>1
  <2>2. CASE open + 1 < p /\ p <= open + 1 + k
    <3> DEFINE q == p - (open + 1)
    <3>1. q \in 1..k /\ (open + 1) + q = p /\ q + 1 \in 1..(k + 3) /\ open + (q + 1) = p
      BY <1>1, <1>2, <2>2
    <3> HIDE DEF q
    <3>2. new[p] = T[q] /\ inside[q + 1] = T[q]
      BY <1>5, <1>9, <3>1
    <3>3. inside[q + 1] = note[p]
      BY <1>6, <1>7, <3>1
    <3> QED
      BY <3>2, <3>3
  <2>3. CASE p = open + k + 2
    <3>1. (open + 1) + k + 1 = p /\ k + 2 \in 1..(k + 3) /\ open + (k + 2) = p
      BY <1>1, <1>2, <2>3
    <3>2. inside[k + 2] = note[p]
      BY <1>6, <1>7, <3>1
    <3> QED
      BY <1>5, <1>9, <3>1, <3>2
  <2>4. CASE p > open + k + 2
    <3>1. p \in b..n /\ p + (k + (open + 1) + 2 - b) = p
      BY <1>1, <1>2, <1>7, <1>8, <2>4
    <3> QED
      BY <1>9, <3>1
  <2> QED
    BY <1>1, <1>2, <2>1, <2>2, <2>3, <2>4
<1>11. Len(new) = Len(note)
  BY <1>8, <1>9
<1>12. new = note
  <2>1. \A p \in 1..Len(new) : new[p] = note[p]
    BY <1>10, <1>11
  <2> QED
    BY <1>4, <1>11, <2>1, SeqEqual
<1> QED
  BY <1>12 DEF new

-----------------------------------------------------------------------------
(* All updates *)

LEMMA UpdateKeeps ==
  ASSUME NEW Y, NEW note \in Seq(Y), NEW content \in Seq(Y), Patch!Newline \in Y,
         IsUnmarked(content), NEW regions, Patch!WellFormed(note, regions), NEW r \in regions
  PROVE  LET new == Patch!ReplaceRegion(note, r, content)
         IN  /\ new \in Seq(Y) /\ Patch!WellFormed(new, regions)
             /\ \A q : Patch!HasRegion(new, q) => Patch!HasRegion(note, q)
             /\ \A given : given \subseteq regions /\ r \in given =>
                             Patch!Outside(new, given) = Patch!Outside(note, given)
             /\ Patch!Words(Patch!Inside(new, r)) = Patch!Words(content)
             /\ IsLined(Patch!Inside(note, r)) =>
                  Says(Patch!Inside(new, r), Patch!TrailingDropped(content))
             /\ \A q \in regions \ {r} : Patch!Inside(new, q) = Patch!Inside(note, q)
<1> DEFINE open == Patch!Opens(note, r)
           close == Patch!Closes(note, r)
           a == LastKept(note, open)
           b == FirstKept(note, close)
           T == Patch!TrailingDropped(content)
           new == Patch!ReplaceRegion(note, r, content)
           d == Len(T) + a + 2 - b
<1>1. Len(note) \in Nat /\ DOMAIN note = 1..Len(note) /\ Len(content) \in Nat
  OBVIOUS
<1>2. Stands(note, r, open, close)
  BY <1>1, WellFormedStands
<1>3. T \in Seq(Y) /\ IsTrimmed(T, content)
  BY TrimmedIs
<1>4. new \in Seq(Y) /\ IsReplaced(new, note, a, b, T)
  BY <1>2, ReplacedIs
<1> HIDE DEF new, T
<1>5. DOMAIN new = 1..Len(new) /\ Len(new) \in Nat /\ Len(T) \in Nat
  BY <1>3, <1>4
<1>6. IsMoved(new, note, open, close, d)
  BY <1>1, <1>2, <1>3, <1>4, <1>5, ReplacedMoves
<1>7. d \in Int
  BY <1>6 DEF IsMoved
<1> HIDE DEF d
<1>8. Patch!WellFormed(new, regions)
  BY <1>6, MovedWellFormed
<1>9. \A q : Patch!HasRegion(new, q) => Patch!HasRegion(note, q)
  <2> HIDE DEF open, close
  <2> QED
    BY <1>6, MovedLacks
<1>10. ASSUME NEW given, given \subseteq regions, r \in given
       PROVE  Patch!Outside(new, given) = Patch!Outside(note, given)
  BY <1>6, <1>10, MovedOutside
<1>11. Stands(new, r, open, close + d)
  <2>1. Stands(new, r, MovedTo(open, open, d), MovedTo(close, open, d))
    BY <1>6, MovedRegion
  <2> HIDE DEF open, close
  <2>2. open \in Int /\ close \in Int /\ open < close
    BY <1>2, <1>1 DEF Stands
  <2>3. MovedTo(open, open, d) = open /\ MovedTo(close, open, d) = close + d
    BY <2>2 DEF MovedTo
  <2> QED
    BY <2>1, <2>3
<1>12. ASSUME NEW q \in regions \ {r} PROVE Patch!Inside(new, q) = Patch!Inside(note, q)
  <2> DEFINE x == Patch!Opens(note, q)
             y == Patch!Closes(note, q)
  <2>1. Stands(note, q, x, y)
    BY <1>1, WellFormedStands
  <2>2. y < open \/ close < x
    BY DEF Patch!WellFormed
  <2> HIDE DEF x, y, open, close
  <2> QED
    BY <1>4, <1>6, <2>1, <2>2, MovedInside
<1>13. d = Len(T) + LastKept(note, open) + 2 - FirstKept(note, close)
  BY DEF d
<1> HIDE DEF open, close
<1>14. Patch!Words(Patch!Inside(new, r)) = Patch!Words(content)
  BY <1>2, <1>3, <1>4, <1>7, <1>11, <1>13, ReplacedWords
<1>15. ASSUME IsLined(Patch!Inside(note, r)) PROVE Says(Patch!Inside(new, r), T)
  BY <1>2, <1>3, <1>4, <1>7, <1>11, <1>13, <1>15, LinedIsSaid
<1> QED
  BY <1>4, <1>8, <1>9, <1>10, <1>12, <1>14, <1>15 DEF new, T

(* What a patch is given, and the notes it may meet on the way. *)
AreUpdates(updates, Y) ==
  /\ Len(updates) \in Nat /\ DOMAIN updates = 1..Len(updates)
  /\ \A n \in 1..Len(updates) : updates[n][2] \in Seq(Y) /\ IsUnmarked(updates[n][2])
NotesOnTheWay(Y, regions, updates) ==
  {note \in Seq(Y) : /\ Patch!WellFormed(note, regions)
                     /\ \A n \in 1..Len(updates) :
                          Patch!HasRegion(note, updates[n][1]) => updates[n][1] \in regions}
PatchStates(note, updates) ==
  CHOOSE after : after = [i \in 0..Len(updates) |->
    IF i = 0 THEN note
    ELSE IF Patch!HasRegion(after[i - 1], updates[i][1])
           THEN Patch!ReplaceRegion(after[i - 1], updates[i][1], updates[i][2])
           ELSE after[i - 1]]
Updated(note, update, regions) ==
  IF update[1] \in regions THEN Patch!ReplaceRegion(note, update[1], update[2]) ELSE note

LEMMA UpdatedOnTheWay ==
  ASSUME NEW Y, Patch!Newline \in Y, NEW regions, NEW updates, AreUpdates(updates, Y),
         NEW note \in NotesOnTheWay(Y, regions, updates), NEW n \in 1..Len(updates)
  PROVE  /\ Updated(note, updates[n], regions) \in NotesOnTheWay(Y, regions, updates)
         /\ Patch!HasRegion(note, updates[n][1]) <=> updates[n][1] \in regions
<1> DEFINE r == updates[n][1]
           content == updates[n][2]
           new == Patch!ReplaceRegion(note, r, content)
<1>1. /\ note \in Seq(Y) /\ Patch!WellFormed(note, regions)
      /\ \A m \in 1..Len(updates) : Patch!HasRegion(note, updates[m][1]) => updates[m][1] \in regions
  BY DEF NotesOnTheWay
<1>2. r \in regions => Patch!HasRegion(note, r)
  BY <1>1 DEF Patch!WellFormed
<1>3. content \in Seq(Y) /\ IsUnmarked(content)
  BY DEF AreUpdates
<1>4. ASSUME r \in regions PROVE new \in NotesOnTheWay(Y, regions, updates)
  <2> HIDE DEF r, content
  <2>1. /\ new \in Seq(Y) /\ Patch!WellFormed(new, regions)
        /\ \A q : Patch!HasRegion(new, q) => Patch!HasRegion(note, q)
    BY <1>1, <1>3, <1>4, UpdateKeeps
  <2> HIDE DEF new
  <2>2. \A m \in 1..Len(updates) : Patch!HasRegion(new, updates[m][1]) => updates[m][1] \in regions
    BY <1>1, <2>1
  <2> QED
    BY <2>1, <2>2 DEF NotesOnTheWay
<1> QED
  BY <1>1, <1>2, <1>4 DEF Updated

LEMMA PatchSteps ==
  ASSUME NEW Y, Patch!Newline \in Y, NEW regions, NEW updates, AreUpdates(updates, Y),
         NEW note \in NotesOnTheWay(Y, regions, updates)
  PROVE  LET f == PatchStates(note, updates)
         IN  /\ f[0] = note
             /\ \A n \in 0..Len(updates) : f[n] \in NotesOnTheWay(Y, regions, updates)
             /\ \A n \in 1..Len(updates) : f[n] = Updated(f[n - 1], updates[n], regions)
<1> DEFINE N == Len(updates)
           D == NotesOnTheWay(Y, regions, updates)
           step == [n \in 1..N |-> [e \in D |-> Updated(e, updates[n], regions)]]
           body(after, n) == IF n = 0 THEN note
                             ELSE IF Patch!HasRegion(after[n - 1], updates[n][1])
                                    THEN Patch!ReplaceRegion(after[n - 1], updates[n][1], updates[n][2])
                                    ELSE after[n - 1]
           f == PatchStates(note, updates)
<1>1. N \in Nat /\ note \in D
  BY DEF AreUpdates
<1>2. \A n \in 1..N : \A e \in D : Updated(e, updates[n], regions) \in D
  BY UpdatedOnTheWay
<1>20. \A n \in 1..N : \A e \in D : Patch!HasRegion(e, updates[n][1]) <=> updates[n][1] \in regions
  BY UpdatedOnTheWay
<1>9. f = CHOOSE after : after = [n \in 0..N |-> body(after, n)]
  BY DEF PatchStates
<1> HIDE DEF D
<1>3. step \in [1..N -> [D -> D]]
  BY <1>2
<1> HIDE DEF N, step
<1>4. \E g : Recursion(g, N, D, note, step)
  BY <1>1, <1>3, RecursionExists
<1>5. PICK g \in [0..N -> D] : g[0] = note /\ \A n \in 1..N : g[n] = step[n][g[n - 1]]
  BY <1>4 DEF Recursion
<1>6. ASSUME NEW n \in 1..N PROVE g[n] = Updated(g[n - 1], updates[n], regions) /\ g[n - 1] \in D
  <2>1. g[n - 1] \in D
    BY <1>1
  <2> QED
    BY <1>5, <2>1 DEF step
<1>7. ASSUME NEW n \in 0..N PROVE g[n] = body(g, n)
  <2>1. CASE n = 0
    BY <1>5, <2>1
  <2>2. CASE n # 0
    <3>1. n \in 1..N
      BY <1>1, <2>2
    <3>2. Patch!HasRegion(g[n - 1], updates[n][1]) <=> updates[n][1] \in regions
      BY <1>6, <1>20, <3>1
    <3> QED
      BY <1>6, <2>2, <3>1, <3>2 DEF Updated
  <2> QED
    BY <2>1, <2>2
<1> HIDE DEF body
<1>8. g = [n \in 0..N |-> body(g, n)]
  BY <1>5, <1>7
<1> HIDE DEF f
<1>11. f = [n \in 0..N |-> body(f, n)]
  BY <1>8, <1>9
<1>12. ASSUME NEW n \in 1..N, f[n - 1] \in D PROVE f[n] = Updated(f[n - 1], updates[n], regions)
  <2>1. n \in 0..N /\ n # 0
    BY <1>1
  <2>2. f[n] = body(f, n)
    BY <1>11, <2>1
  <2>3. Patch!HasRegion(f[n - 1], updates[n][1]) <=> updates[n][1] \in regions
    BY <1>12, <1>20
  <2> QED
    BY <2>1, <2>2, <2>3 DEF body, Updated
<1>13. f[0] = note
  <2>1. 0 \in 0..N
    BY <1>1
  <2> QED
    BY <1>11, <2>1 DEF body
<1> DEFINE P == {n \in 0..N : f[n] \in D}
<1>14. 0..N \subseteq P
  <2>1. 0 \in P
    BY <1>1, <1>13
  <2>2. ASSUME NEW n \in 1..N, n - 1 \in P PROVE n \in P
    <3>1. f[n - 1] \in D /\ n \in 0..N
      BY <2>2
    <3>2. f[n] = Updated(f[n - 1], updates[n], regions)
      BY <1>12, <3>1
    <3>3. f[n] \in D
      BY <1>2, <3>1, <3>2
    <3> QED
      BY <3>1, <3>3
  <2> HIDE DEF P
  <2> QED
    BY <1>1, <2>1, <2>2, InductUpTo
<1>15. \A n \in 0..N : f[n] \in D
  BY <1>14
<1>16. ASSUME NEW n \in 1..N PROVE f[n] = Updated(f[n - 1], updates[n], regions)
  <2>1. n - 1 \in 0..N
    BY <1>1
  <2> QED
    BY <1>12, <1>15, <2>1
<1> QED
  BY <1>13, <1>15, <1>16 DEF f, N, D

LEMMA PatchedIs ==
  ASSUME NEW Y, Patch!Newline \in Y, NEW regions, NEW updates, AreUpdates(updates, Y),
         NEW note \in NotesOnTheWay(Y, regions, updates)
  PROVE  Patch!Patched(note, updates) =
           IF \A n \in 1..Len(updates) : updates[n][1] \in regions
             THEN PatchStates(note, updates)[Len(updates)] ELSE note
<1> DEFINE f == PatchStates(note, updates)
           refused == \E i \in DOMAIN updates : ~Patch!HasRegion(f[i - 1], updates[i][1])
<1>1. Patch!Patched(note, updates) = IF refused THEN note ELSE f[Len(updates)]
  BY DEF Patch!Patched, PatchStates
<1>2. Len(updates) \in Nat /\ DOMAIN updates = 1..Len(updates)
  BY DEF AreUpdates
<1>3. \A n \in 1..Len(updates) : Patch!HasRegion(f[n - 1], updates[n][1]) <=> updates[n][1] \in regions
  <2> TAKE n \in 1..Len(updates)
  <2>1. n - 1 \in 0..Len(updates)
    BY <1>2
  <2>2. f[n - 1] \in NotesOnTheWay(Y, regions, updates)
    BY <2>1, PatchSteps
  <2> HIDE DEF f
  <2> QED
    BY <2>2, UpdatedOnTheWay
<1> HIDE DEF f
<1> QED
  BY <1>1, <1>2, <1>3 DEF f

(* How far the note is changed after so many updates. *)
IsPatchedTo(new, note, updates, given, n) ==
  /\ Patch!Outside(new, given) = Patch!Outside(note, given)
  /\ \A i \in 1..n : Patch!Words(Patch!Inside(new, updates[i][1])) = Patch!Words(updates[i][2])
  /\ (\A r \in given : IsLined(Patch!Inside(note, r))) =>
       /\ \A r \in given : IsLined(Patch!Inside(new, r))
       /\ \A i \in 1..n : Says(Patch!Inside(new, updates[i][1]), Patch!TrailingDropped(updates[i][2]))

LEMMA PatchedFurther ==
  ASSUME NEW Y, Patch!Newline \in Y, NEW regions, NEW updates, AreUpdates(updates, Y),
         \A i, j \in 1..Len(updates) : updates[i][1] = updates[j][1] => i = j,
         NEW given, given \subseteq regions, \A i \in 1..Len(updates) : updates[i][1] \in given,
         NEW note, NEW old \in NotesOnTheWay(Y, regions, updates),
         NEW n \in 1..Len(updates), IsPatchedTo(old, note, updates, given, n - 1)
  PROVE  IsPatchedTo(Updated(old, updates[n], regions), note, updates, given, n)
<1> DEFINE q == updates[n][1]
           content == updates[n][2]
           T == Patch!TrailingDropped(content)
           new == Patch!ReplaceRegion(old, q, content)
<1>1. q \in given /\ q \in regions /\ Updated(old, updates[n], regions) = new /\ n \in Nat
  BY DEF Updated, AreUpdates
<1>2. old \in Seq(Y) /\ Patch!WellFormed(old, regions) /\ content \in Seq(Y) /\ IsUnmarked(content)
  BY DEF NotesOnTheWay, AreUpdates
<1>3. /\ Patch!Outside(old, given) = Patch!Outside(note, given)
      /\ \A i \in 1..(n - 1) : Patch!Words(Patch!Inside(old, updates[i][1])) = Patch!Words(updates[i][2])
      /\ (\A r \in given : IsLined(Patch!Inside(note, r))) =>
           /\ \A r \in given : IsLined(Patch!Inside(old, r))
           /\ \A i \in 1..(n - 1) :
                Says(Patch!Inside(old, updates[i][1]), Patch!TrailingDropped(updates[i][2]))
  BY DEF IsPatchedTo
<1>4. \A i \in 1..(n - 1) : i \in 1..Len(updates) /\ updates[i][1] # q /\ updates[i][1] \in regions \ {q}
  <2> TAKE i \in 1..(n - 1)
  <2>1. i \in 1..Len(updates) /\ i # n
    BY DEF AreUpdates
  <2> QED
    BY <2>1
<1>5. \A i \in 1..n : i \in 1..(n - 1) \/ i = n
  BY <1>1
<1>9. T = Patch!TrailingDropped(updates[n][2]) /\ Patch!Words(content) = Patch!Words(updates[n][2])
      /\ q = updates[n][1]
  OBVIOUS
<1> HIDE DEF q, content
<1>6. /\ Patch!Outside(new, given) = Patch!Outside(old, given)
      /\ Patch!Words(Patch!Inside(new, q)) = Patch!Words(content)
      /\ IsLined(Patch!Inside(old, q)) => Says(Patch!Inside(new, q), T)
      /\ \A r \in regions \ {q} : Patch!Inside(new, r) = Patch!Inside(old, r)
  BY <1>1, <1>2, UpdateKeeps
<1>7. Len(T) \in Nat
  <2>1. T \in Seq(Y)
    BY <1>2, TrimmedIs
  <2> HIDE DEF T
  <2> QED
    BY <2>1
<1> HIDE DEF new, T
<1>8. Patch!Outside(new, given) = Patch!Outside(note, given)
  BY <1>3, <1>6
<1>10. ASSUME NEW i \in 1..n
       PROVE  Patch!Words(Patch!Inside(new, updates[i][1])) = Patch!Words(updates[i][2])
  <2>1. CASE i \in 1..(n - 1)
    BY <1>3, <1>4, <1>6, <2>1
  <2>2. CASE i = n
    BY <1>6, <1>9, <2>2
  <2> QED
    BY <1>5, <2>1, <2>2
<1>11. ASSUME \A r \in given : IsLined(Patch!Inside(note, r))
       PROVE  /\ \A r \in given : IsLined(Patch!Inside(new, r))
              /\ \A i \in 1..n : Says(Patch!Inside(new, updates[i][1]), Patch!TrailingDropped(updates[i][2]))
  <2>1. /\ \A r \in given : IsLined(Patch!Inside(old, r))
        /\ \A i \in 1..(n - 1) :
             Says(Patch!Inside(old, updates[i][1]), Patch!TrailingDropped(updates[i][2]))
    BY <1>3, <1>11
  <2>2. Says(Patch!Inside(new, q), T)
    BY <1>1, <1>6, <2>1
  <2>3. IsLined(Patch!Inside(new, q))
    BY <1>7, <2>2, SaysIsLined
  <2>4. ASSUME NEW r \in given PROVE IsLined(Patch!Inside(new, r))
    <3>1. CASE r = q
      BY <2>3, <3>1
    <3>2. CASE r # q
      BY <1>6, <2>1, <3>2
    <3> QED
      BY <3>1, <3>2
  <2>5. ASSUME NEW i \in 1..n
        PROVE  Says(Patch!Inside(new, updates[i][1]), Patch!TrailingDropped(updates[i][2]))
    <3>1. CASE i \in 1..(n - 1)
      BY <1>4, <1>6, <2>1, <3>1
    <3>2. CASE i = n
      BY <1>9, <2>2, <3>2
    <3> QED
      BY <1>5, <3>1, <3>2
  <2> QED
    BY <2>4, <2>5
<1>12. IsPatchedTo(new, note, updates, given, n)
  BY <1>8, <1>10, <1>11 DEF IsPatchedTo
<1> QED
  BY <1>1, <1>12

LEMMA AllArePatched ==
  ASSUME NEW Y, Patch!Newline \in Y, NEW regions, NEW updates, AreUpdates(updates, Y),
         \A i, j \in 1..Len(updates) : updates[i][1] = updates[j][1] => i = j,
         NEW given, given \subseteq regions, \A i \in 1..Len(updates) : updates[i][1] \in given,
         NEW note \in NotesOnTheWay(Y, regions, updates)
  PROVE  IsPatchedTo(PatchStates(note, updates)[Len(updates)], note, updates, given, Len(updates))
<1> DEFINE N == Len(updates)
           f == PatchStates(note, updates)
           P == {n \in 0..N : IsPatchedTo(f[n], note, updates, given, n)}
<1>1. N \in Nat
  BY DEF AreUpdates
<1>2. /\ f[0] = note
      /\ \A n \in 0..N : f[n] \in NotesOnTheWay(Y, regions, updates)
      /\ \A n \in 1..N : f[n] = Updated(f[n - 1], updates[n], regions)
  BY PatchSteps
<1> HIDE DEF f
<1>3. 0 \in P
  <2>1. IsPatchedTo(note, note, updates, given, 0)
    BY DEF IsPatchedTo
  <2> QED
    BY <1>1, <1>2, <2>1
<1>4. ASSUME NEW n \in 1..N, n - 1 \in P PROVE n \in P
  <2> DEFINE old == f[n - 1]
  <2>1. n - 1 \in 0..N /\ n \in 0..N /\ IsPatchedTo(old, note, updates, given, n - 1)
    BY <1>4
  <2>2. old \in NotesOnTheWay(Y, regions, updates) /\ f[n] = Updated(old, updates[n], regions)
    BY <1>2, <2>1
  <2> HIDE DEF old, P
  <2>3. IsPatchedTo(Updated(old, updates[n], regions), note, updates, given, n)
    BY <2>1, <2>2, PatchedFurther
  <2> QED
    BY <2>1, <2>2, <2>3 DEF P
<1>5. N \in P
  <2> HIDE DEF P, N
  <2>1. 0..N \subseteq P
    BY <1>1, <1>3, <1>4, InductUpTo
  <2> QED
    BY <1>1, <2>1
<1> QED
  BY <1>5 DEF f

(* Patching again with what the regions say already. *)
LEMMA PatchedStays ==
  ASSUME NEW Y, Patch!Newline \in Y, NEW regions, NEW updates, AreUpdates(updates, Y),
         \A i \in 1..Len(updates) : updates[i][1] \in regions,
         NEW note \in NotesOnTheWay(Y, regions, updates),
         \A i \in 1..Len(updates) :
           Says(Patch!Inside(note, updates[i][1]), Patch!TrailingDropped(updates[i][2]))
  PROVE  Patch!Patched(note, updates) = note
<1> DEFINE N == Len(updates)
           f == PatchStates(note, updates)
           P == {n \in 0..N : f[n] = note}
<1>1. N \in Nat
  BY DEF AreUpdates
<1>2. f[0] = note /\ \A n \in 1..N : f[n] = Updated(f[n - 1], updates[n], regions)
  BY PatchSteps
<1>3. Patch!Patched(note, updates) = f[N]
  BY PatchedIs
<1> HIDE DEF f
<1>4. 0 \in P
  BY <1>1, <1>2
<1>5. ASSUME NEW n \in 1..N PROVE Updated(note, updates[n], regions) = note
  <2> DEFINE r == updates[n][1]
             content == updates[n][2]
  <2>1. note \in Seq(Y) /\ Patch!WellFormed(note, regions) /\ r \in regions
        /\ content \in Seq(Y)
    BY DEF NotesOnTheWay, AreUpdates
  <2>2. Says(Patch!Inside(note, r), Patch!TrailingDropped(content))
    OBVIOUS
  <2>3. Len(note) \in Nat /\ DOMAIN note = 1..Len(note)
    BY <2>1
  <2> HIDE DEF r, content
  <2>4. Stands(note, r, Patch!Opens(note, r), Patch!Closes(note, r))
    BY <2>1, <2>3, WellFormedStands
  <2>5. Patch!ReplaceRegion(note, r, content) = note
    BY <2>1, <2>2, <2>4, SaidStays
  <2> QED
    BY <2>1, <2>5 DEF Updated, r, content
<1>6. ASSUME NEW n \in 1..N, n - 1 \in P PROVE n \in P
  <2>1. f[n - 1] = note /\ n \in 0..N
    BY <1>6
  <2>2. f[n] = note
    BY <1>2, <1>5, <2>1
  <2> QED
    BY <2>1, <2>2
<1>7. N \in P
  <2> HIDE DEF P, N
  <2>1. 0..N \subseteq P
    BY <1>1, <1>4, <1>6, InductUpTo
  <2> QED
    BY <1>1, <2>1
<1> QED
  BY <1>3, <1>7

(* A patch changes the regions it was given and nothing else; it says      *)
(* there what it was given, and settles in one run.                        *)
THEOREM PatchKeepsToItsRegions ==
  ASSUME NEW note, IsList(note), NEW updates, OneForEach(updates), NEW regions,
         \A i \in DOMAIN updates : Patch!HasRegion(note, updates[i][1]) => updates[i][1] \in regions
  PROVE  Patch!PatchTouchesItsRegions(note, updates, regions)
<1> DEFINE once == Patch!Patched(note, updates)
           N == Len(updates)
           given == {updates[i][1] : i \in DOMAIN updates}
           marked == \E i \in DOMAIN updates : \E j \in DOMAIN updates[i][2] : Patch!IsMarker(updates[i][2][j])
           onLines == \A r \in given : /\ note[Patch!Opens(note, r) + 1] = Patch!Newline
                                       /\ note[Patch!Closes(note, r) - 1] = Patch!Newline
           X == {note[i] : i \in DOMAIN note}
           Of(i) == {updates[i][2][k] : k \in DOMAIN updates[i][2]}
           Y == X \cup {Patch!Newline} \cup UNION {Of(i) : i \in DOMAIN updates}
<1> SUFFICES ASSUME Patch!WellFormed(note, regions), ~marked
             PROVE  IF ~(given \subseteq regions) THEN once = note ELSE
                    /\ Patch!WellFormed(once, regions)
                    /\ Patch!Outside(once, given) = Patch!Outside(note, given)
                    /\ \A i \in DOMAIN updates :
                         Patch!Words(Patch!Inside(once, updates[i][1])) = Patch!Words(updates[i][2])
                    /\ onLines => Patch!Patched(once, updates) = once
  BY DEF Patch!PatchTouchesItsRegions
<1>1. N \in Nat /\ DOMAIN updates = 1..N
  BY DEF OneForEach, IsList
<1>2. AreUpdates(updates, Y)
  <2>1. ASSUME NEW i \in 1..N PROVE updates[i][2] \in Seq(Y) /\ IsUnmarked(updates[i][2])
    <3> DEFINE content == updates[i][2]
    <3>1. content \in Seq(Of(i))
      BY <1>1 DEF OneForEach, IsList
    <3>2. Of(i) \subseteq Y
      BY <1>1
    <3>3. \A j \in DOMAIN content : ~Patch!IsMarker(content[j])
      BY <1>1
    <3> HIDE DEF content, Y, Of
    <3>4. content \in Seq(Y) /\ DOMAIN content = 1..Len(content)
      BY <3>1, <3>2
    <3> QED
      BY <3>3, <3>4 DEF IsUnmarked, content
  <2> HIDE DEF Y, marked
  <2> QED
    BY <1>1, <2>1 DEF AreUpdates
<1>3. note \in NotesOnTheWay(Y, regions, updates)
  <2>1. note \in Seq(Y)
    <3>1. X \subseteq Y
      OBVIOUS
    <3> HIDE DEF X, Y
    <3>2. note \in Seq(X)
      BY DEF IsList, X
    <3> QED
      BY <3>1, <3>2
  <2> HIDE DEF Y
  <2> QED
    BY <1>1, <2>1 DEF NotesOnTheWay
<1>4. Patch!Newline \in Y
  OBVIOUS
<1>5. \A i, j \in 1..N : updates[i][1] = updates[j][1] => i = j
  BY <1>1 DEF OneForEach
<1>6. given \subseteq regions <=> \A n \in 1..N : updates[n][1] \in regions
  BY <1>1
<1>7. \A n \in 1..N : updates[n][1] \in given
  BY <1>1
<1> HIDE DEF Y, marked
<1>8. once = IF \A n \in 1..N : updates[n][1] \in regions THEN PatchStates(note, updates)[N] ELSE note
  BY <1>2, <1>3, <1>4, PatchedIs
<1>9. CASE ~(given \subseteq regions)
  BY <1>6, <1>8, <1>9
<1>10. CASE given \subseteq regions
  <2> HIDE DEF once, given
  <2>1. once = PatchStates(note, updates)[N]
    BY <1>6, <1>8, <1>10
  <2>2. once \in NotesOnTheWay(Y, regions, updates)
    <3>1. N \in 0..N
      BY <1>1
    <3> QED
      BY <1>2, <1>3, <1>4, <2>1, <3>1, PatchSteps
  <2>3. IsPatchedTo(once, note, updates, given, N)
    BY <1>2, <1>3, <1>4, <1>5, <1>7, <1>10, <2>1, AllArePatched
  <2>4. /\ Patch!WellFormed(once, regions)
        /\ Patch!Outside(once, given) = Patch!Outside(note, given)
        /\ \A i \in DOMAIN updates :
             Patch!Words(Patch!Inside(once, updates[i][1])) = Patch!Words(updates[i][2])
    BY <1>1, <2>2, <2>3 DEF IsPatchedTo, NotesOnTheWay
  <2>5. ASSUME onLines PROVE Patch!Patched(once, updates) = once
    <3>1. ASSUME NEW r \in given PROVE IsLined(Patch!Inside(note, r))
      <4>1. note \in Seq(Y) /\ Patch!WellFormed(note, regions) /\ r \in regions
        BY <1>3, <1>10 DEF NotesOnTheWay
      <4>2. Len(note) \in Nat /\ DOMAIN note = 1..Len(note)
        BY <4>1
      <4> DEFINE open == Patch!Opens(note, r)
                 close == Patch!Closes(note, r)
      <4>3. Stands(note, r, open, close)
        BY <4>1, <4>2, WellFormedStands
      <4>4. note[open + 1] = Patch!Newline /\ note[close - 1] = Patch!Newline
        BY <2>5
      <4> HIDE DEF open, close, onLines
      <4> QED
        BY <4>1, <4>3, <4>4, LinedAround
    <3>2. \A i \in 1..N : Says(Patch!Inside(once, updates[i][1]), Patch!TrailingDropped(updates[i][2]))
      BY <2>3, <3>1 DEF IsPatchedTo
    <3> HIDE DEF onLines
    <3> QED
      BY <1>2, <1>4, <1>6, <1>10, <2>2, <3>2, PatchedStays
  <2> HIDE DEF onLines
  <2> QED
    BY <1>10, <2>4, <2>5 DEF once, given
<1> QED
  BY <1>9, <1>10

-----------------------------------------------------------------------------
(* The tools that rewrite a note *)

(* Of every note there is, they keep what is not theirs.                   *)
THEOREM NotesStayKept == PartsSpec => []NotesAreKept
<1>1. Asked => NotesAreKept
  <2>1. ASSUME Asked, part = "patch"
        PROVE  Patch!PatchTouchesItsRegions(input.note, input.updates,
                                            {r \in Regions : Patch!HasRegion(input.note, r)})
    <3> DEFINE note == input.note
               updates == input.updates
               regions == {r \in Regions : Patch!HasRegion(note, r)}
    <3>1. input \in Inputs.patch
      BY <2>1 DEF Asked, Questions
    <3>2. /\ IsList(note) /\ OneForEach(updates)
          /\ \A i \in DOMAIN note : Patch!IsMarker(note[i]) => note[i].of \in Regions
      BY <3>1, NotesAssumption
    <3> HIDE DEF note, updates
    <3>3. ASSUME NEW r, Patch!HasRegion(note, r) PROVE r \in regions
      <4>1. Len(note) \in Nat /\ DOMAIN note = 1..Len(note)
        BY <3>2 DEF IsList
      <4>2. PICK a \in 1..Len(note) : note[a] = Patch!Start(r)
        BY <3>3, <4>1, HasBoth
      <4>3. note[a].of \in Regions
        BY <3>2, <4>1, <4>2, MarkersAre
      <4>4. note[a].of = r
        BY <4>2 DEF Patch!Start
      <4> QED
        BY <3>3, <4>3, <4>4
    <3>4. \A i \in DOMAIN updates : Patch!HasRegion(note, updates[i][1]) => updates[i][1] \in regions
      BY <3>3
    <3> HIDE DEF regions
    <3>5. Patch!PatchTouchesItsRegions(note, updates, regions)
      BY <3>2, <3>4, PatchKeepsToItsRegions
    <3> QED
      BY <3>5 DEF note, updates, regions
  <2>2. ASSUME Asked, part = "normalize" PROVE Matter!NormalizeKeepsTheRest(input.parts, input.fm)
    <3> DEFINE fm == input.fm
    <3>1. input \in Inputs.normalize
      BY <2>2 DEF Asked, Questions
    <3>2. IsList(fm)
      BY <3>1, NotesAssumption
    <3> HIDE DEF fm
    <3>3. Matter!NormalizeKeepsTheRest(input.parts, fm)
      BY <3>2, NormalizingKeepsTheRest
    <3> QED
      BY <3>3 DEF fm
  <2>3. ASSUME Asked, part = "tags" PROVE Matter!FixerAgreesWithAudit(input.fm, input.dropped)
    <3> DEFINE fm == input.fm
    <3>1. input \in Inputs.tags
      BY <2>3 DEF Asked, Questions
    <3>2. IsList(fm) /\ \A j \in DOMAIN fm : IsList(fm[j].words)
      BY <3>1, NotesAssumption
    <3> HIDE DEF fm
    <3>3. Matter!FixerAgreesWithAudit(fm, input.dropped)
      BY <3>2, FixerAgrees
    <3> QED
      BY <3>3 DEF fm
  <2> QED
    BY <2>1, <2>2, <2>3 DEF NotesAreKept
<1> QED
  BY <1>1, AlwaysAsked, PTL
=============================================================================
