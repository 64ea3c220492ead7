------------------------------- MODULE Minimos -------------------------------
(* Facts about Min, Max, sequences and divisions of a set among places that *)
(* the proofs of several modules use.                                       *)
EXTENDS Integers, FiniteSetsExt, SequencesExt, SequenceTheorems, WellFoundedInduction, TLAPS

\* Min of a set of naturals that is not empty is one of its elements.
LEMMA MinEsElemento ==
  ASSUME NEW S, S \subseteq Nat, S # {}
  PROVE  Min(S) \in S /\ \A y \in S : Min(S) <= y
<1>. DEFINE R == {ss \in Nat \X Nat : ss[1] < ss[2]}
<1>1. IsWellFoundedOn(R, Nat)
  BY NatLessThanWellFounded DEF OpToRel
<1>2. \A a, b \in Nat : a < b => <<a, b>> \in R
  OBVIOUS
<1>. HIDE DEF R
<1>3. PICK x \in S : \A y \in S : ~ (<<y, x>> \in R)
  BY <1>1, WFMin
<1>4. \A y \in S : x <= y
  <2>1. TAKE y \in S
  <2>2. ~ (y < x)
    BY <1>2, <1>3
  <2>. QED  BY <2>2
<1>. QED  BY <1>4 DEF Min

\* Max of a set of naturals that is not empty and has a bound is one of its elements.
LEMMA MaxEsElemento ==
  ASSUME NEW S, S \subseteq Nat, S # {}, NEW n \in Nat, \A x \in S : x <= n
  PROVE  Max(S) \in S /\ \A y \in S : Max(S) >= y
<1>. DEFINE D == {k \in 0 .. n : n - k \in S}
<1>1. D \subseteq Nat
  OBVIOUS
<1>2. PICK x \in S : TRUE
  OBVIOUS
<1>3. n - x \in D
  BY n - (n - x) = x
<1>4. PICK m \in D : \A k \in D : m <= k
  <2>1. D # {}
    BY <1>3
  <2>. HIDE DEF D
  <2>. QED  BY <1>1, <2>1, MinEsElemento
<1>5. n - m \in S
  BY <1>4
<1>6. ASSUME NEW y \in S PROVE n - m >= y
  <2>1. n - y \in D
    BY n - (n - y) = y
  <2>2. m <= n - y
    BY <1>4, <2>1
  <2>. QED  BY <1>4, <2>2
<1>. QED  BY <1>5, <1>6 DEF Max

\* Removing an element of a sequence leaves a sequence of the same type.
LEMMA RemoveAtEsSeq ==
  ASSUME NEW T, NEW s \in Seq(T), NEW i \in 1 .. Len(s)
  PROVE  RemoveAt(s, i) \in Seq(T)
<1>1. SubSeq(s, 1, i - 1) \in Seq(T)
  BY SubSeqProperties, ElementOfSeq, LenProperties, \A j \in 1 .. i - 1 : s[j] \in T
<1>2. SubSeq(s, i + 1, Len(s)) \in Seq(T)
  BY SubSeqProperties, ElementOfSeq, LenProperties, \A j \in i + 1 .. Len(s) : s[j] \in T
<1>. QED  BY <1>1, <1>2, ConcatProperties DEF RemoveAt

LEMMA RemoveFirstEsSeq ==
  ASSUME NEW T, NEW s \in Seq(T), NEW e
  PROVE  RemoveFirst(s, e) \in Seq(T)
<1>. DEFINE I == {i \in 1 .. Len(s) : s[i] = e}
<1>1. CASE \E i \in 1 .. Len(s) : s[i] = e
  <2>1. I \subseteq Nat /\ I # {}
    BY <1>1, LenProperties
  <2>. HIDE DEF I
  <2>3. Min(I) \in I
    BY <2>1, MinEsElemento
  <2>. USE DEF I
  <2>2. RemoveFirst(s, e) = RemoveAt(s, Min(I))
    BY <1>1 DEF RemoveFirst, SelectInSeq
  <2>. QED  BY <2>3, <2>2, RemoveAtEsSeq
<1>2. CASE ~ \E i \in 1 .. Len(s) : s[i] = e
  BY <1>2 DEF RemoveFirst
<1>. QED  BY <1>1, <1>2

-----------------------------------------------------------------------------
(* Sequences as lists of a program: what each operation does to the elements *)
(* and to a list that has none twice.                                        *)

LEMMA ToSetAppend ==
  ASSUME NEW T, NEW s \in Seq(T), NEW e \in T
  PROVE  ToSet(Append(s, e)) = ToSet(s) \cup {e}
<1>1. /\ DOMAIN Append(s, e) = 1 .. Len(s) + 1 /\ DOMAIN s = 1 .. Len(s)
      /\ Append(s, e)[Len(s) + 1] = e
      /\ \A i \in 1 .. Len(s) : Append(s, e)[i] = s[i]
  BY AppendProperties
<1>. QED  BY <1>1 DEF ToSet

LEMMA AppendSinRepetir ==
  ASSUME NEW T, NEW s \in Seq(T), NEW e \in T, IsInjective(s), e \notin ToSet(s)
  PROVE  IsInjective(Append(s, e))
<1>1. /\ DOMAIN Append(s, e) = 1 .. Len(s) + 1 /\ DOMAIN s = 1 .. Len(s)
      /\ Len(s) \in Nat
      /\ Append(s, e)[Len(s) + 1] = e
      /\ \A i \in 1 .. Len(s) : Append(s, e)[i] = s[i]
  BY AppendProperties, LenProperties
<1>2. \A i \in 1 .. Len(s) : s[i] # e
  BY <1>1 DEF ToSet
<1>3. \A i, j \in 1 .. Len(s) : s[i] = s[j] => i = j
  BY <1>1 DEF IsInjective
<1>4. \A i \in 1 .. Len(s) + 1 : i \in 1 .. Len(s) \/ i = Len(s) + 1
  BY <1>1
<1>. QED  BY <1>1, <1>2, <1>3, <1>4 DEF IsInjective

LEMMA AnteponerElementos ==
  ASSUME NEW T, NEW s \in Seq(T), NEW e \in T
  PROVE  /\ ToSet(<<e>> \o s) = ToSet(s) \cup {e}
         /\ IsInjective(s) /\ e \notin ToSet(s) => IsInjective(<<e>> \o s)
<1>. DEFINE z == <<e>> \o s
<1>1. /\ DOMAIN s = 1 .. Len(s) /\ Len(s) \in Nat
      /\ <<e>> \in Seq(T) /\ Len(<<e>>) = 1 /\ <<e>>[1] = e
  BY LenProperties
<1>2. /\ z \in Seq(T) /\ Len(z) = Len(s) + 1
      /\ \A i \in 1 .. Len(s) + 1 : z[i] = IF i <= 1 THEN e ELSE s[i - 1]
  BY <1>1, ConcatProperties
<1>3. DOMAIN z = 1 .. Len(s) + 1
  BY <1>2, LenProperties
<1>. HIDE DEF z
<1>4. z[1] = e /\ \A i \in 1 .. Len(s) : z[i + 1] = s[i]
  BY <1>1, <1>2
<1>5. \A i \in 1 .. Len(s) + 1 : i = 1 \/ (i - 1 \in 1 .. Len(s) /\ z[i] = s[i - 1])
  BY <1>1, <1>2
<1>6. ToSet(z) = ToSet(s) \cup {e}
  <2>1. ToSet(z) \subseteq ToSet(s) \cup {e}
    <3>1. ASSUME NEW i \in 1 .. Len(s) + 1 PROVE z[i] \in ToSet(s) \cup {e}
      BY <1>1, <1>4, <1>5 DEF ToSet
    <3>. QED  BY <1>3, <3>1 DEF ToSet
  <2>2. e \in ToSet(z)
    BY <1>1, <1>3, <1>4 DEF ToSet
  <2>3. ASSUME NEW i \in 1 .. Len(s) PROVE s[i] \in ToSet(z)
    BY <1>1, <1>3, <1>4, <2>3, i + 1 \in 1 .. Len(s) + 1 DEF ToSet
  <2>. QED  BY <1>1, <2>1, <2>2, <2>3 DEF ToSet
<1>7. ASSUME IsInjective(s), e \notin ToSet(s), NEW i \in 1 .. Len(s) + 1,
             NEW j \in 1 .. Len(s) + 1, z[i] = z[j]
      PROVE  i = j
  <2>1. \A k \in 1 .. Len(s) : s[k] # e
    BY <1>1, <1>7 DEF ToSet
  <2>2. i # 1 /\ j # 1 => i - 1 = j - 1
    BY <1>1, <1>5, <1>7 DEF IsInjective
  <2>. QED  BY <1>1, <1>4, <1>5, <1>7, <2>1, <2>2
<1>. QED  BY <1>3, <1>6, <1>7 DEF IsInjective, z

LEMMA CabezaYCola ==
  ASSUME NEW T, NEW s \in Seq(T), s # <<>>
  PROVE  /\ Head(s) \in ToSet(s)
         /\ ToSet(s) = ToSet(Tail(s)) \cup {Head(s)}
         /\ IsInjective(s) => IsInjective(Tail(s)) /\ ToSet(Tail(s)) = ToSet(s) \ {Head(s)}
<1>1. /\ DOMAIN s = 1 .. Len(s) /\ Len(s) \in Nat \ {0} /\ Head(s) = s[1]
      /\ Tail(s) \in Seq(T) /\ Len(Tail(s)) = Len(s) - 1
      /\ \A i \in 1 .. Len(s) - 1 : Tail(s)[i] = s[i + 1]
  BY LenProperties, EmptySeq, HeadTailProperties
<1>2. DOMAIN Tail(s) = 1 .. Len(s) - 1
  BY <1>1, LenProperties
<1>3. \A i \in 1 .. Len(s) : i = 1 \/ (i - 1 \in 1 .. Len(s) - 1 /\ Tail(s)[i - 1] = s[i])
  BY <1>1
<1>4. ToSet(s) = ToSet(Tail(s)) \cup {Head(s)}
  <2>1. ASSUME NEW i \in 1 .. Len(s) PROVE s[i] \in ToSet(Tail(s)) \cup {Head(s)}
    <3>1. CASE i = 1
      BY <1>1, <3>1
    <3>2. CASE i # 1
      BY <1>2, <1>3, <3>2 DEF ToSet
    <3>. QED  BY <3>1, <3>2
  <2>2. ASSUME NEW i \in 1 .. Len(s) - 1 PROVE Tail(s)[i] \in ToSet(s)
    BY <1>1, <2>2, i + 1 \in 1 .. Len(s) DEF ToSet
  <2>. QED  BY <1>1, <1>2, <2>1, <2>2 DEF ToSet
<1>5. ASSUME IsInjective(s) PROVE IsInjective(Tail(s)) /\ Head(s) \notin ToSet(Tail(s))
  <2>1. ASSUME NEW i \in 1 .. Len(s) - 1, NEW j \in 1 .. Len(s) - 1, Tail(s)[i] = Tail(s)[j]
        PROVE  i = j
    <3>1. i + 1 \in 1 .. Len(s) /\ j + 1 \in 1 .. Len(s) /\ s[i + 1] = s[j + 1]
      BY <1>1, <2>1
    <3>2. i + 1 = j + 1
      BY <1>1, <1>5, <3>1 DEF IsInjective
    <3>. QED  BY <3>2
  <2>2. ASSUME NEW i \in 1 .. Len(s) - 1, Tail(s)[i] = Head(s) PROVE FALSE
    <3>1. i + 1 \in 1 .. Len(s) /\ 1 \in 1 .. Len(s) /\ s[i + 1] = s[1]
      BY <1>1, <2>2
    <3>2. i + 1 = 1
      BY <1>1, <1>5, <3>1 DEF IsInjective
    <3>. QED  BY <3>2
  <2>. QED  BY <1>2, <2>1, <2>2 DEF IsInjective, ToSet
<1>. QED  BY <1>1, <1>2, <1>4, <1>5 DEF ToSet

\* What is left after removing position k: the other elements, in order.
LEMMA RemoveAtElementos ==
  ASSUME NEW T, NEW s \in Seq(T), NEW k \in 1 .. Len(s), IsInjective(s)
  PROVE  IsInjective(RemoveAt(s, k)) /\ ToSet(RemoveAt(s, k)) = ToSet(s) \ {s[k]}
<1>. DEFINE z == RemoveAt(s, k)
            n == Len(s)
<1>1. n \in Nat /\ DOMAIN s = 1 .. n /\ \A i \in 1 .. n : s[i] \in T
  BY LenProperties, ElementOfSeq
<1>2. /\ SubSeq(s, 1, k - 1) \in Seq(T) /\ Len(SubSeq(s, 1, k - 1)) = k - 1
      /\ \A i \in 1 .. k - 1 : SubSeq(s, 1, k - 1)[i] = s[i]
  <2>1. \A i \in 1 .. k - 1 : s[i] \in T
    BY <1>1
  <2>2. /\ SubSeq(s, 1, k - 1) \in Seq(T)
        /\ Len(SubSeq(s, 1, k - 1)) = IF 1 <= k - 1 THEN (k - 1) - 1 + 1 ELSE 0
        /\ \A i \in 1 .. (k - 1) - 1 + 1 : SubSeq(s, 1, k - 1)[i] = s[1 + i - 1]
    BY <1>1, <2>1, SubSeqProperties
  <2>. QED  BY <1>1, <2>2
<1>3. /\ SubSeq(s, k + 1, n) \in Seq(T) /\ Len(SubSeq(s, k + 1, n)) = n - k
      /\ \A i \in 1 .. n - k : SubSeq(s, k + 1, n)[i] = s[k + i]
  <2>1. \A i \in k + 1 .. n : s[i] \in T
    BY <1>1
  <2>2. /\ SubSeq(s, k + 1, n) \in Seq(T)
        /\ Len(SubSeq(s, k + 1, n)) = IF k + 1 <= n THEN n - (k + 1) + 1 ELSE 0
        /\ \A i \in 1 .. n - (k + 1) + 1 : SubSeq(s, k + 1, n)[i] = s[(k + 1) + i - 1]
    BY <1>1, <2>1, SubSeqProperties
  <2>3. n - (k + 1) + 1 = n - k /\ \A i \in 1 .. n - k : (k + 1) + i - 1 = k + i
    BY <1>1
  <2>4. Len(SubSeq(s, k + 1, n)) = n - k
    <3>1. k <= n /\ k \in Nat /\ (k + 1 <= n => n - (k + 1) + 1 = n - k)
          /\ (~ (k + 1 <= n) => n - k = 0)
      <4>1. n \in Nat /\ k \in 1 .. n
        BY <1>1
      <4>. HIDE DEF n
      <4>. QED  BY ONLY <4>1
    <3>. HIDE DEF n
    <3>. QED  BY <2>2, <3>1
  <2>. HIDE DEF n
  <2>. QED  BY <2>2, <2>3, <2>4
<1>4. /\ z \in Seq(T) /\ Len(z) = n - 1
      /\ \A i \in 1 .. n - 1 : z[i] = IF i <= k - 1 THEN s[i] ELSE s[i + 1]
  <2>1. /\ z \in Seq(T) /\ Len(z) = (k - 1) + (n - k)
        /\ \A i \in 1 .. (k - 1) + (n - k) :
             z[i] = IF i <= k - 1 THEN SubSeq(s, 1, k - 1)[i]
                    ELSE SubSeq(s, k + 1, n)[i - (k - 1)]
    <3>. DEFINE a == SubSeq(s, 1, k - 1)
                b == SubSeq(s, k + 1, n)
    <3>1. z = a \o b
      BY DEF RemoveAt
    <3>2. a \in Seq(T) /\ b \in Seq(T) /\ Len(a) = k - 1 /\ Len(b) = n - k
      BY <1>2, <1>3
    <3>. HIDE DEF z, a, b
    <3>3. /\ z \in Seq(T) /\ Len(z) = Len(a) + Len(b)
          /\ \A i \in 1 .. Len(a) + Len(b) : z[i] = IF i <= Len(a) THEN a[i] ELSE b[i - Len(a)]
      BY <3>1, <3>2, ConcatProperties
    <3>. QED  BY <3>2, <3>3 DEF a, b
  <2>. HIDE DEF z
  <2>2. ASSUME NEW i \in 1 .. n - 1 PROVE z[i] = IF i <= k - 1 THEN s[i] ELSE s[i + 1]
    <3>1. CASE i <= k - 1
      BY <1>1, <1>2, <2>1, <3>1
    <3>2. CASE ~ (i <= k - 1)
      <4>1. i - (k - 1) \in 1 .. n - k
        BY <1>1, <3>2
      <4>2. SubSeq(s, k + 1, n)[i - (k - 1)] = s[k + (i - (k - 1))]
        BY <1>3, <4>1
      <4>3. k + (i - (k - 1)) = i + 1
        BY <1>1
      <4>. QED  BY <1>1, <2>1, <3>2, <4>2, <4>3
    <3>. QED  BY <3>1, <3>2
  <2>. QED  BY <1>1, <2>1, <2>2
<1>5. DOMAIN z = 1 .. n - 1
  BY <1>4, LenProperties
<1>. HIDE DEF z, n
<1>. DEFINE f(i) == IF i <= k - 1 THEN i ELSE i + 1
<1>6. \A i \in 1 .. n - 1 : f(i) \in 1 .. n /\ f(i) # k /\ z[i] = s[f(i)]
  BY <1>1, <1>4 DEF n
<1>7. \A j \in 1 .. n : j # k => \E i \in 1 .. n - 1 : f(i) = j
  <2>1. ASSUME NEW j \in 1 .. n, j # k PROVE \E i \in 1 .. n - 1 : f(i) = j
    <3>1. CASE j < k
      <4>1. j \in 1 .. n - 1 /\ f(j) = j
        BY <1>1, <3>1 DEF n
      <4>. QED  BY <4>1
    <3>2. CASE j > k
      <4>1. j - 1 \in 1 .. n - 1 /\ f(j - 1) = j
        BY <1>1, <3>2 DEF n
      <4>. QED  BY <4>1
    <3>. QED  BY <1>1, <2>1, <3>1, <3>2 DEF n
  <2>. QED  BY <2>1
<1>8. \A i, j \in 1 .. n - 1 : f(i) = f(j) => i = j
  BY <1>1 DEF n
<1>. HIDE DEF f
<1>9. \A i, j \in 1 .. n : s[i] = s[j] => i = j
  BY <1>1 DEF IsInjective
<1>10. IsInjective(z)
  BY <1>5, <1>6, <1>8, <1>9 DEF IsInjective
<1>11. ToSet(z) = ToSet(s) \ {s[k]}
  <2>1. \A i \in 1 .. n - 1 : z[i] \in ToSet(s) /\ z[i] # s[k]
    BY <1>1, <1>6, <1>9 DEF ToSet, n
  <2>2. ASSUME NEW j \in 1 .. n, s[j] # s[k] PROVE s[j] \in ToSet(z)
    <3>1. PICK i \in 1 .. n - 1 : f(i) = j
      BY <1>7, <2>2
    <3>. QED  BY <1>5, <1>6, <3>1 DEF ToSet
  <2>. QED  BY <1>1, <1>5, <2>1, <2>2 DEF ToSet
<1>. QED  BY <1>10, <1>11 DEF z

LEMMA RemoveFirstElementos ==
  ASSUME NEW T, NEW s \in Seq(T), NEW e, IsInjective(s)
  PROVE  IsInjective(RemoveFirst(s, e)) /\ ToSet(RemoveFirst(s, e)) = ToSet(s) \ {e}
<1>. DEFINE I == {i \in 1 .. Len(s) : s[i] = e}
<1>1. CASE \E i \in 1 .. Len(s) : s[i] = e
  <2>1. I \subseteq Nat /\ I # {}
    BY <1>1, LenProperties
  <2>. HIDE DEF I
  <2>2. Min(I) \in I
    BY <2>1, MinEsElemento
  <2>. USE DEF I
  <2>3. RemoveFirst(s, e) = RemoveAt(s, Min(I))
    BY <1>1 DEF RemoveFirst, SelectInSeq
  <2>4. Min(I) \in 1 .. Len(s) /\ s[Min(I)] = e
    BY <2>2
  <2>. HIDE DEF I
  <2>. QED  BY <2>3, <2>4, RemoveAtElementos
<1>2. CASE ~ \E i \in 1 .. Len(s) : s[i] = e
  <2>1. RemoveFirst(s, e) = s
    BY <1>2 DEF RemoveFirst
  <2>2. e \notin ToSet(s)
    BY <1>2, LenProperties DEF ToSet
  <2>. QED  BY <2>1, <2>2
<1>. QED  BY <1>1, <1>2

-----------------------------------------------------------------------------
(* Divisions of a set among places: lists, and the hands of threads *)

\* f gives each element of X to one place of its domain.
Reparto(f, X) ==
  /\ \A x, y \in DOMAIN f : f[x] \cap f[y] # {} => x = y
  /\ UNION {f[x] : x \in DOMAIN f} = X

LEMMA RepartoIgual ==
  ASSUME NEW f, NEW g, NEW X, Reparto(f, X), DOMAIN g = DOMAIN f,
         \A y \in DOMAIN f : g[y] = f[y]
  PROVE  Reparto(g, X)
BY DEF Reparto

LEMMA RepartoEntra ==
  ASSUME NEW f, NEW g, NEW X, Reparto(f, X), NEW x \in DOMAIN f, NEW p, p \notin X,
         DOMAIN g = DOMAIN f, \A y \in DOMAIN f \ {x} : g[y] = f[y], g[x] = f[x] \cup {p}
  PROVE  Reparto(g, X \cup {p})
<1>1. \A y \in DOMAIN f : p \notin f[y]
  BY DEF Reparto
<1>2. \A y \in DOMAIN f : f[y] \subseteq g[y] /\ g[y] \subseteq f[y] \cup {p}
  OBVIOUS
<1>3. UNION {g[y] : y \in DOMAIN g} = X \cup {p}
  <2>1. UNION {f[y] : y \in DOMAIN f} = X
    BY DEF Reparto
  <2>. QED  BY <1>2, <2>1
<1>4. ASSUME NEW y \in DOMAIN f, NEW z \in DOMAIN f, g[y] \cap g[z] # {}
      PROVE  y = z
  <2>1. f[y] \cap f[z] # {} => y = z
    BY DEF Reparto
  <2>2. p \in g[y] => y = x
    BY <1>1
  <2>3. p \in g[z] => z = x
    BY <1>1
  <2>. QED  BY <1>2, <1>4, <2>1, <2>2, <2>3
<1>. QED  BY <1>3, <1>4 DEF Reparto

LEMMA RepartoSale ==
  ASSUME NEW f, NEW g, NEW X, Reparto(f, X), NEW x \in DOMAIN f, NEW p \in f[x],
         DOMAIN g = DOMAIN f, \A y \in DOMAIN f \ {x} : g[y] = f[y], g[x] = f[x] \ {p}
  PROVE  Reparto(g, X \ {p})
<1>1. \A y \in DOMAIN f : p \in f[y] => y = x
  BY DEF Reparto
<1>2. \A y \in DOMAIN f : g[y] = f[y] \ {p}
  BY <1>1
<1>3. UNION {g[y] : y \in DOMAIN g} = X \ {p}
  <2>1. UNION {f[y] : y \in DOMAIN f} = X
    BY DEF Reparto
  <2>. QED  BY <1>2, <2>1
<1>4. \A y, z \in DOMAIN f : g[y] \cap g[z] # {} => y = z
  BY <1>2 DEF Reparto
<1>. QED  BY <1>3, <1>4 DEF Reparto

\* A process goes from place x to place z.
LEMMA RepartoPasa ==
  ASSUME NEW f, NEW g, NEW X, Reparto(f, X), NEW x \in DOMAIN f, NEW z \in DOMAIN f \ {x},
         NEW p \in f[x], DOMAIN g = DOMAIN f, \A y \in DOMAIN f \ {x, z} : g[y] = f[y],
         g[x] = f[x] \ {p}, g[z] = f[z] \cup {p}
  PROVE  Reparto(g, X)
<1>. DEFINE h == [f EXCEPT ![x] = f[x] \ {p}]
<1>1. /\ DOMAIN h = DOMAIN f /\ h[x] = f[x] \ {p} /\ \A y \in DOMAIN f \ {x} : h[y] = f[y]
  OBVIOUS
<1>. HIDE DEF h
<1>2. Reparto(h, X \ {p})
  BY <1>1, RepartoSale
<1>3. /\ DOMAIN g = DOMAIN h /\ z \in DOMAIN h /\ p \notin X \ {p}
      /\ \A y \in DOMAIN h \ {z} : g[y] = h[y]
      /\ g[z] = h[z] \cup {p}
  BY <1>1
<1>4. Reparto(g, (X \ {p}) \cup {p})
  BY <1>2, <1>3, RepartoEntra
<1>5. p \in X
  BY DEF Reparto
<1>6. (X \ {p}) \cup {p} = X
  BY <1>5
<1>. QED  BY <1>4, <1>6
=============================================================================
