--------------------------- MODULE MeteringProofs ---------------------------
(***************************************************************************)
(* What is metered and reported, for any requests, providers, prices,      *)
(* mappings and streams.  A record is attributed to the provider, price    *)
(* and tenant that are right however Go's maps are iterated; a stream's    *)
(* usage is recorded once, however its bytes are split into reads; and a   *)
(* report's sums are those of the records in its window.                   *)
(*                                                                         *)
(* First what sums, prices and percentiles are, then which provider        *)
(* matches which path, then the invariant of Reports: a request that is    *)
(* forwarded is so whatever the registry, a record that is queued is       *)
(* attributed, and a result that has been read holds of the table it was   *)
(* made of, which has only grown since.  Last the body of a streaming      *)
(* response.                                                               *)
(***************************************************************************)
EXTENDS Reports, StreamInterceptor, FiniteSetTheorems, SequenceTheorems, WellFoundedInduction,
        TLAPS

(***************************************************************************)
(* Numbers and sequences.                                                  *)

\* Among subsets of a finite set one has no smaller one: the induction below.
LEMMA SmallestSet ==
  ASSUME NEW S, IsFiniteSet(S), NEW T, T \subseteq SUBSET S, T # {}
  PROVE  \E x \in T : \A y \in SUBSET x : y # x => y \notin T
<1>1. FiniteSubsetsOf(S) = SUBSET S
  BY FS_FiniteSubsetsOfFinite
<1>2. IsWellFoundedOn(StrictSubsetOrdering(S), SUBSET S)
  BY <1>1, FS_StrictSubsetOrderingWellFounded
<1>3. PICK x \in T : \A y \in T : ~(<<y, x>> \in StrictSubsetOrdering(S))
  BY <1>2, WFMin
<1>4. ASSUME NEW y \in SUBSET x, y # x, y \in T PROVE FALSE
  <2>1. <<y, x>> \in StrictSubsetOrdering(S)
    BY <1>4 DEF StrictSubsetOrdering
  <2> QED BY <1>3, <1>4, <2>1
<1> QED BY <1>4

LEMMA LeastNumber ==
  ASSUME NEW T, T \subseteq Nat, T # {}
  PROVE  \E x \in T : \A y \in T : x <= y
<1>1. IsWellFoundedOn(OpToRel(<, Nat), Nat)
  BY NatLessThanWellFounded
<1>2. PICK x \in T : \A y \in T : ~(<<y, x>> \in OpToRel(<, Nat))
  BY <1>1, WFMin
<1>3. \A y \in T : ~(y < x)
  BY <1>2 DEF OpToRel
<1> QED BY <1>3

LEMMA MinOf ==
  ASSUME NEW T, T \subseteq Nat, T # {}
  PROVE  Min(T) \in T /\ \A y \in T : Min(T) <= y
BY LeastNumber DEF Min

LEMMA MaxOf ==
  ASSUME NEW T, T \subseteq Nat, T # {}, IsFiniteSet(T)
  PROVE  Max(T) \in T /\ \A y \in T : y <= Max(T)
<1> DEFINE Bounded(u) == \E x \in u : \A y \in u : y <= x
           C == {u \in SUBSET T : u # {} /\ ~Bounded(u)}
<1>1. CASE C = {}
  <2>1. Bounded(T)
    BY <1>1
  <2> QED BY <2>1 DEF Max
<1>2. CASE C # {}
  <2>1. C \subseteq SUBSET T
    OBVIOUS
  <2>2. PICK u \in C : \A y \in SUBSET u : y # u => y \notin C
    <3> HIDE DEF C
    <3> QED BY <1>2, <2>1, SmallestSet
  <2>3. PICK x : x \in u
    BY <2>2
  <2>4. CASE u \ {x} = {}
    BY <2>2, <2>3, <2>4
  <2>5. CASE u \ {x} # {}
    <3>1. Bounded(u \ {x})
      BY <2>2, <2>3, <2>5
    <3>2. PICK m \in u \ {x} : \A y \in u \ {x} : y <= m
      BY <3>1
    <3>3. x \in Nat /\ m \in Nat /\ \A y \in u : y \in Nat
      BY <2>2, <2>3, <3>2
    <3>4. \A y \in u : y <= m \/ y = x
      BY <3>2
    <3>5. CASE m <= x
      <4>1. \A y \in u : y <= x
        BY <3>3, <3>4, <3>5
      <4> QED BY <2>2, <2>3, <4>1
    <3>6. CASE x <= m
      <4>1. \A y \in u : y <= m
        BY <3>4, <3>6
      <4> QED BY <2>2, <3>2, <4>1
    <3> QED BY <3>3, <3>5, <3>6
  <2> QED BY <2>4, <2>5
<1> QED BY <1>1, <1>2

\* Two elements in a row.
LEMMA Pair ==
  ASSUME NEW a, NEW b
  PROVE  <<a>> \o <<b>> = <<a, b>> /\ Append(<<a>>, b) = <<a, b>>
<1> DEFINE S == {a, b}
           s == <<a>> \o <<b>>
           t == Append(<<a>>, b)
<1>1. <<a, b>> \in Seq(S) /\ Len(<<a, b>>) = 2 /\ <<a, b>>[1] = a /\ <<a, b>>[2] = b
  OBVIOUS
<1>2. <<a>> \in Seq(S) /\ <<b>> \in Seq(S)
  OBVIOUS
<1>3. s \in Seq(S) /\ Len(s) = 2 /\ s[1] = a /\ s[2] = b
  BY <1>2
<1>4. t \in Seq(S) /\ Len(t) = 2 /\ t[1] = a /\ t[2] = b
  BY <1>2
<1>5. \A u, v \in Seq(S) : Len(u) = Len(v) /\ (\A i \in 1 .. Len(u) : u[i] = v[i]) => u = v
  OBVIOUS
<1> HIDE DEF s, t
<1>6. s = <<a, b>> /\ t = <<a, b>>
  BY <1>1, <1>3, <1>4, <1>5
<1> QED BY <1>6 DEF s, t

LEMMA Joined ==
  ASSUME NEW S, NEW a \in Seq(S), NEW b \in Seq(S)
  PROVE  /\ a \o b \in Seq(S) /\ Len(a \o b) = Len(a) + Len(b)
         /\ \A i \in 1 .. Len(a) : (a \o b)[i] = a[i]
         /\ \A i \in 1 .. Len(b) : (a \o b)[Len(a) + i] = b[i]
<1>1. Len(a) \in Nat /\ Len(b) \in Nat
  OBVIOUS
<1>2. a \o b \in Seq(S) /\ Len(a \o b) = Len(a) + Len(b)
  OBVIOUS
<1>3. \A i \in 1 .. Len(a) + Len(b) : (a \o b)[i] = IF i <= Len(a) THEN a[i] ELSE b[i - Len(a)]
  BY ConcatProperties
<1>4. \A i \in 1 .. Len(a) : i \in 1 .. Len(a) + Len(b) /\ i <= Len(a)
  BY <1>1
<1>5. \A i \in 1 .. Len(b) : /\ Len(a) + i \in 1 .. Len(a) + Len(b) /\ ~(Len(a) + i <= Len(a))
                            /\ (Len(a) + i) - Len(a) = i
  BY <1>1
<1> QED BY <1>2, <1>3, <1>4, <1>5

LEMMA Subsequence ==
  ASSUME NEW S, NEW s \in Seq(S), NEW i \in 1 .. Len(s) + 1, NEW j \in i - 1 .. Len(s)
  PROVE  /\ SubSeq(s, i, j) \in Seq(S) /\ Len(SubSeq(s, i, j)) = j - i + 1
         /\ \A k \in 1 .. j - i + 1 : SubSeq(s, i, j)[k] = s[i + k - 1]
BY SubSeqProperties

LEMMA Appended ==
  ASSUME NEW S, NEW s \in Seq(S), NEW e \in S
  PROVE  /\ Append(s, e) \in Seq(S) /\ Len(Append(s, e)) = Len(s) + 1
         /\ \A k \in 1 .. Len(s) : Append(s, e)[k] = s[k]
         /\ Append(s, e)[Len(s) + 1] = e
BY AppendProperties

LEMMA TailOf ==
  ASSUME NEW S, NEW s \in Seq(S), s # <<>>
  PROVE  /\ Head(s) \in S /\ Head(s) = s[1] /\ Len(s) \in Nat \ {0}
         /\ Tail(s) \in Seq(S) /\ Len(Tail(s)) = Len(s) - 1
         /\ \A k \in 1 .. Len(s) - 1 : Tail(s)[k] = s[k + 1]
BY HeadTailProperties, EmptySeq

(***************************************************************************)
(* Sums over finite sets.  SumFunction is a recursion that picks an        *)
(* element and goes on with the others.                                    *)

\* The element the recursion takes out first.
taken(s) == CHOOSE x \in s : TRUE

turn(w, f, s) == IF s = {} THEN 0 ELSE w[taken(s)] + f[s \ {taken(s)}]

\* f has the sums of w over all subsets of S.
Sums(w, S, f) == f = [s \in SUBSET S |-> turn(w, f, s)]

LEMMA Taken ==
  ASSUME NEW s, s # {}
  PROVE  taken(s) \in s
BY DEF taken

LEMMA SumsAt ==
  ASSUME NEW w, NEW S, NEW f, Sums(w, S, f), NEW s \in SUBSET S
  PROVE  f[s] = turn(w, f, s)
BY DEF Sums

LEMMA SumsAgree ==
  ASSUME NEW v, NEW w, NEW A, NEW B, NEW f, NEW g, Sums(v, A, f), Sums(w, B, g),
         NEW S, IsFiniteSet(S), S \subseteq A, S \subseteq B, \A x \in S : v[x] = w[x]
  PROVE  f[S] = g[S]
<1> DEFINE T == {s \in SUBSET S : f[s] # g[s]}
<1>1. CASE T = {}
  BY <1>1
<1>2. CASE T # {}
  <2>1. T \subseteq SUBSET S
    OBVIOUS
  <2>2. PICK s \in T : \A y \in SUBSET s : y # s => y \notin T
    <3> HIDE DEF T
    <3> QED BY <1>2, <2>1, SmallestSet
  <2>3. s \in SUBSET S /\ f[s] # g[s]
    BY <2>2
  <2>4. f[s] = turn(v, f, s) /\ g[s] = turn(w, g, s)
    BY <2>3, SumsAt
  <2>5. s # {}
    BY <2>3, <2>4 DEF turn
  <2>6. taken(s) \in s
    BY <2>5, Taken
  <2>7. f[s \ {taken(s)}] = g[s \ {taken(s)}]
    BY <2>2, <2>3, <2>6
  <2> QED BY <2>3, <2>4, <2>5, <2>6, <2>7 DEF turn
<1> QED BY <1>1, <1>2

LEMMA SumsExist ==
  ASSUME NEW w, NEW S, IsFiniteSet(S)
  PROVE  \E f : Sums(w, S, f)
<1> DEFINE T == {s \in SUBSET S : ~ \E f : Sums(w, s, f)}
<1>1. CASE T = {}
  BY <1>1
<1>2. CASE T # {}
  <2>1. T \subseteq SUBSET S
    OBVIOUS
  <2>2. PICK s \in T : \A y \in SUBSET s : y # s => y \notin T
    <3> HIDE DEF T
    <3> QED BY <1>2, <2>1, SmallestSet
  <2>3. s \in SUBSET S /\ ~ \E f : Sums(w, s, f)
    BY <2>2
  <2> DEFINE F(u) == CHOOSE f : Sums(w, u, f)
             g == [u \in SUBSET s |-> IF u = {} THEN 0
                                      ELSE w[taken(u)] + F(u \ {taken(u)})[u \ {taken(u)}]]
             k == [u \in SUBSET s |-> turn(w, g, u)]
  <2>4. ASSUME NEW u \in SUBSET s, u # s PROVE Sums(w, u, F(u))
    BY <2>2, <2>3, <2>4
  <2> HIDE DEF F
  <2>5. ASSUME NEW u \in SUBSET s PROVE IsFiniteSet(u)
    BY <2>3, FS_Subset
  <2>6. ASSUME NEW u \in SUBSET s, NEW v \in SUBSET u, u # s PROVE F(u)[v] = F(v)[v]
    <3>1. v \in SUBSET s /\ v # s
      BY <2>6
    <3> QED BY <2>4, <2>5, <2>6, <3>1, SumsAgree
  <2>7. ASSUME NEW u \in SUBSET s, u # s PROVE g[u] = F(u)[u]
    <3>1. F(u)[u] = turn(w, F(u), u)
      BY <2>4, <2>7, SumsAt
    <3>2. CASE u = {}
      BY <3>1, <3>2 DEF turn
    <3>3. CASE u # {}
      <4>1. F(u)[u \ {taken(u)}] = F(u \ {taken(u)})[u \ {taken(u)}]
        BY <2>6, <2>7
      <4> QED BY <3>1, <3>3, <4>1 DEF turn
    <3> QED BY <3>2, <3>3
  <2>8. ASSUME NEW u \in SUBSET s PROVE g[u] = turn(w, g, u)
    <3>1. CASE u = {}
      BY <3>1 DEF turn
    <3>2. CASE u # {}
      <4>1. u \ {taken(u)} \in SUBSET s /\ u \ {taken(u)} # s
        BY <3>2, Taken
      <4>2. g[u \ {taken(u)}] = F(u \ {taken(u)})[u \ {taken(u)}]
        BY <2>7, <4>1
      <4> QED BY <3>2, <4>2 DEF turn
    <3> QED BY <3>1, <3>2
  <2>9. g = k
    BY <2>8
  <2>10. Sums(w, s, g)
    <3> HIDE DEF g
    <3> QED BY <2>9 DEF Sums
  <2> QED BY <2>3, <2>10
<1> QED BY <1>1, <1>2

\* What SumFunction computes, without the recursion.
LEMMA SumIs ==
  ASSUME NEW w, NEW f, IsFiniteSet(DOMAIN w), Sums(w, DOMAIN w, f)
  PROVE  SumFunction(w) = f[DOMAIN w]
<1> DEFINE g == CHOOSE k : Sums(w, DOMAIN w, k)
<1>1. SumFunction(w) = g[DOMAIN w]
  BY DEF SumFunction, SumFunctionOnSet, FoldFunctionOnSet, MapThenFoldSet, Sums, turn, taken
<1>2. Sums(w, DOMAIN w, g)
  OBVIOUS
<1> HIDE DEF g
<1>3. g[DOMAIN w] = f[DOMAIN w]
  BY <1>2, SumsAgree
<1> QED BY <1>1, <1>3

LEMMA SumEmpty ==
  ASSUME NEW w, DOMAIN w = {}
  PROVE  SumFunction(w) = 0
<1>1. IsFiniteSet(DOMAIN w)
  BY FS_EmptySet
<1>2. PICK f : Sums(w, DOMAIN w, f)
  BY <1>1, SumsExist
<1>3. f[DOMAIN w] = turn(w, f, DOMAIN w)
  BY <1>2, SumsAt
<1> QED BY <1>1, <1>2, <1>3, SumIs DEF turn

LEMMA SumTaken ==
  ASSUME NEW w, IsFiniteSet(DOMAIN w), DOMAIN w # {}
  PROVE  LET x == taken(DOMAIN w)
         IN  SumFunction(w) = w[x] + SumFunction(Restrict(w, DOMAIN w \ {x}))
<1> DEFINE x == taken(DOMAIN w)
           D == DOMAIN w \ {x}
           v == Restrict(w, D)
<1>1. DOMAIN v = D /\ \A y \in D : v[y] = w[y]
  BY DEF Restrict
<1>2. IsFiniteSet(D)
  BY FS_RemoveElement
<1>3. PICK f : Sums(w, DOMAIN w, f)
  BY SumsExist
<1>4. PICK g : Sums(v, D, g)
  BY <1>2, SumsExist
<1> HIDE DEF v, D
<1>5. f[D] = g[D]
  <2>1. D \subseteq DOMAIN w
    BY DEF D
  <2> QED BY <1>1, <1>2, <1>3, <1>4, <2>1, SumsAgree
<1>6. SumFunction(v) = g[D]
  BY <1>1, <1>2, <1>4, SumIs
<1>7. SumFunction(w) = turn(w, f, DOMAIN w)
  BY <1>3, SumIs, SumsAt
<1> QED BY <1>5, <1>6, <1>7 DEF turn, v, D

sum(w, s) == SumFunction(Restrict(w, s))

\* Any element may be taken out first.
LEMMA SumWithout ==
  ASSUME NEW D, IsFiniteSet(D), NEW w \in [D -> Nat], NEW s \in SUBSET D
  PROVE  sum(w, s) \in Nat /\ \A x \in s : sum(w, s) = w[x] + sum(w, s \ {x})
<1> DEFINE Good(u) == sum(w, u) \in Nat /\ \A x \in u : sum(w, u) = w[x] + sum(w, u \ {x})
           T == {u \in SUBSET D : ~Good(u)}
<1>1. CASE T = {}
  BY <1>1
<1>2. CASE T # {}
  <2>1. T \subseteq SUBSET D
    OBVIOUS
  <2>2. PICK u \in T : \A y \in SUBSET u : y # u => y \notin T
    <3> HIDE DEF T
    <3> QED BY <1>2, <2>1, SmallestSet
  <2>3. u \in SUBSET D /\ ~Good(u) /\ IsFiniteSet(u)
    BY <2>2, FS_Subset
  <2>4. ASSUME NEW y \in SUBSET u, y # u PROVE Good(y)
    BY <2>2, <2>3, <2>4
  <2> HIDE DEF T
  <2>5. \A y \in SUBSET D : DOMAIN Restrict(w, y) = y /\ \A x \in y : Restrict(w, y)[x] = w[x]
    BY DEF Restrict
  <2>6. CASE u = {}
    <3>1. sum(w, u) = 0
      BY <2>3, <2>5, <2>6, SumEmpty DEF sum
    <3> QED BY <2>3, <2>6, <3>1
  <2>7. CASE u # {}
    <3> DEFINE c == taken(u)
               others == u \ {c}
    <3>1. c \in u /\ others \in SUBSET u /\ others # u
      BY <2>7, Taken
    <3>2. Restrict(Restrict(w, u), others) = Restrict(w, others)
      BY DEF Restrict
    <3>3. sum(w, u) = w[c] + sum(w, others)
      BY <2>3, <2>5, <2>7, <3>1, <3>2, SumTaken DEF sum
    <3>4. Good(others)
      BY <2>4, <3>1
    <3>5. w[c] \in Nat
      BY <2>3, <3>1
    <3>6. ASSUME NEW x \in u, x # c PROVE sum(w, u) = w[x] + sum(w, u \ {x})
      <4>1. x \in others /\ c \in u \ {x} /\ u \ {x} \in SUBSET u /\ u \ {x} # u
        BY <3>1, <3>6
      <4>2. Good(u \ {x})
        BY <2>4, <4>1
      <4>3. others \ {x} = (u \ {x}) \ {c} /\ others \ {x} \in SUBSET u /\ others \ {x} # u
        BY <4>1
      <4>4. Good(others \ {x})
        BY <2>4, <4>3
      <4>5. sum(w, others) = w[x] + sum(w, others \ {x})
        BY <3>4, <4>1
      <4>6. sum(w, u \ {x}) = w[c] + sum(w, others \ {x})
        BY <4>1, <4>2, <4>3
      <4>7. w[x] \in Nat
        BY <2>3
      <4> HIDE DEF c, others
      <4> QED BY <3>3, <3>5, <4>4, <4>5, <4>6, <4>7
    <3>7. Good(u)
      <4>1. sum(w, u) \in Nat
        BY <3>3, <3>4, <3>5
      <4> QED BY <3>3, <3>6, <4>1
    <3> QED BY <2>3, <3>7
  <2> QED BY <2>6, <2>7
<1> QED BY <1>1, <1>2

LEMMA SumZero ==
  ASSUME NEW w
  PROVE  sum(w, {}) = 0
BY SumEmpty DEF sum, Restrict

LEMMA SumUnion ==
  ASSUME NEW D, IsFiniteSet(D), NEW w \in [D -> Nat], NEW A \in SUBSET D, NEW B \in SUBSET D,
         A \cap B = {}
  PROVE  sum(w, A \cup B) = sum(w, A) + sum(w, B)
<1> DEFINE Good(u) == sum(w, u \cup B) = sum(w, u) + sum(w, B)
           T == {u \in SUBSET A : ~Good(u)}
<1>1. CASE T = {}
  BY <1>1
<1>2. CASE T # {}
  <2>1. T \subseteq SUBSET A /\ IsFiniteSet(A)
    BY FS_Subset
  <2>2. PICK u \in T : \A y \in SUBSET u : y # u => y \notin T
    <3> HIDE DEF T
    <3> QED BY <1>2, <2>1, SmallestSet
  <2>3. u \in SUBSET A /\ ~Good(u)
    BY <2>2
  <2>4. sum(w, B) \in Nat
    BY SumWithout
  <2>5. CASE u = {}
    BY <2>3, <2>4, <2>5, SumZero
  <2>6. CASE u # {}
    <3>1. PICK x : x \in u
      BY <2>6
    <3> DEFINE others == u \ {x}
    <3>2. Good(others)
      BY <2>2, <2>3, <3>1
    <3>3. (u \cup B) \ {x} = others \cup B /\ u \cup B \in SUBSET D /\ x \in u \cup B
      BY <2>3, <3>1
    <3>4. sum(w, u \cup B) = w[x] + sum(w, others \cup B)
      BY <3>3, SumWithout
    <3>5. sum(w, u) = w[x] + sum(w, others) /\ sum(w, others) \in Nat /\ w[x] \in Nat
      BY <2>3, <3>1, SumWithout
    <3> QED BY <2>3, <2>4, <3>2, <3>4, <3>5
  <2> QED BY <2>5, <2>6
<1> QED BY <1>1, <1>2

LEMMA SumGrows ==
  ASSUME NEW D, IsFiniteSet(D), NEW w \in [D -> Nat], NEW A \in SUBSET D, NEW B \in SUBSET A
  PROVE  sum(w, B) <= sum(w, A)
<1>1. A = (A \ B) \cup B
  OBVIOUS
<1>2. sum(w, A) = sum(w, A \ B) + sum(w, B)
  BY <1>1, SumUnion
<1>3. sum(w, A \ B) \in Nat /\ sum(w, B) \in Nat
  BY SumWithout
<1> QED BY <1>2, <1>3

LEMMA SumOnes ==
  ASSUME NEW D, IsFiniteSet(D)
  PROVE  sum([x \in D |-> 1], D) = Cardinality(D)
<1> DEFINE one == [x \in D |-> 1]
           Good(u) == sum(one, u) = Cardinality(u)
           T == {u \in SUBSET D : ~Good(u)}
<1>1. CASE T = {}
  BY <1>1
<1>2. CASE T # {}
  <2>1. T \subseteq SUBSET D
    OBVIOUS
  <2>2. PICK u \in T : \A y \in SUBSET u : y # u => y \notin T
    <3> HIDE DEF T
    <3> QED BY <1>2, <2>1, SmallestSet
  <2>3. u \in SUBSET D /\ ~Good(u) /\ IsFiniteSet(u)
    BY <2>2, FS_Subset
  <2>4. CASE u = {}
    BY <2>3, <2>4, SumZero, FS_EmptySet
  <2>5. CASE u # {}
    <3>1. PICK x : x \in u
      BY <2>5
    <3>2. Good(u \ {x})
      BY <2>2, <2>3, <3>1
    <3>3. one \in [D -> Nat] /\ one[x] = 1
      BY <2>3, <3>1
    <3> HIDE DEF one
    <3>4. sum(one, u) = 1 + sum(one, u \ {x})
      BY <2>3, <3>1, <3>3, SumWithout
    <3>5. Cardinality(u \ {x}) = Cardinality(u) - 1 /\ Cardinality(u) \in Nat
      BY <2>3, <3>1, FS_RemoveElement, FS_CardinalityType
    <3> QED BY <2>3, <3>2, <3>4, <3>5
  <2> QED BY <2>4, <2>5
<1> QED BY <1>1, <1>2

\* GROUP BY: if every row of S belongs to the group key[x], and v has the sums
\* of the groups, then v adds up to the sum over S.
LEMMA SumGroups ==
  ASSUME NEW S, IsFiniteSet(S), NEW w \in [S -> Nat], NEW Q, IsFiniteSet(Q), NEW key \in [S -> Q],
         NEW v \in [Q -> Nat], \A e \in Q : v[e] = sum(w, {x \in S : key[x] = e})
  PROVE  sum(v, Q) = sum(w, S)
<1> DEFINE grouped(P) == {x \in S : key[x] \in P}
           Good(P) == sum(v, P) = sum(w, grouped(P))
           T == {P \in SUBSET Q : ~Good(P)}
<1>1. CASE T = {}
  <2>1. Good(Q) /\ grouped(Q) = S
    BY <1>1
  <2> QED BY <2>1
<1>2. CASE T # {}
  <2>1. T \subseteq SUBSET Q
    OBVIOUS
  <2>2. PICK P \in T : \A y \in SUBSET P : y # P => y \notin T
    <3> HIDE DEF T
    <3> QED BY <1>2, <2>1, SmallestSet
  <2>3. P \in SUBSET Q /\ ~Good(P)
    BY <2>2
  <2>4. CASE P = {}
    BY <2>3, <2>4, SumZero
  <2>5. CASE P # {}
    <3>1. PICK e : e \in P
      BY <2>5
    <3> DEFINE group == {x \in S : key[x] = e}
    <3>2. Good(P \ {e})
      BY <2>2, <2>3, <3>1
    <3>3. grouped(P) = group \cup grouped(P \ {e}) /\ group \cap grouped(P \ {e}) = {}
      BY <3>1
    <3>4. group \in SUBSET S /\ grouped(P \ {e}) \in SUBSET S
      OBVIOUS
    <3> HIDE DEF group
    <3>5. sum(w, group \cup grouped(P \ {e})) = sum(w, group) + sum(w, grouped(P \ {e}))
      <4> DEFINE others == grouped(P \ {e})
      <4>1. group \in SUBSET S /\ others \in SUBSET S /\ group \cap others = {}
        BY <3>3, <3>4
      <4> HIDE DEF others
      <4>2. sum(w, group \cup others) = sum(w, group) + sum(w, others)
        BY <4>1, SumUnion
      <4> QED BY <4>2 DEF others
    <3>6. sum(v, P) = v[e] + sum(v, P \ {e})
      BY <2>3, <3>1, SumWithout
    <3>7. v[e] = sum(w, group)
      BY <2>3, <3>1 DEF group
    <3> HIDE DEF grouped
    <3>8. sum(w, grouped(P)) = v[e] + sum(w, grouped(P \ {e}))
      BY <3>3, <3>5, <3>7
    <3> QED BY <2>3, <3>2, <3>6, <3>8
  <2> QED BY <2>4, <2>5
<1> QED BY <1>1, <1>2

(***************************************************************************)
(* The price does not depend on the order of iteration, for any table.     *)

LEMMA PricedNames ==
  \A key \in DOMAIN Pricing : key \in Seq(STRING) /\ Len(key) \in Nat \ {0}
<1> SUFFICES ASSUME NEW key \in DOMAIN Pricing
             PROVE  key \in Seq(STRING) /\ Len(key) \in Nat \ {0}
  OBVIOUS
<1>1. key \in Seq(STRING) /\ key # <<>>
  BY MeterAssumption
<1>2. Len(key) \in Nat /\ Len(key) # 0
  BY <1>1, EmptySeq
<1> QED BY <1>1, <1>2

\* An order names every key.
LEMMA OrdersComplete ==
  ASSUME NEW order \in iterations
  PROVE  /\ Len(order) \in Nat /\ order \in [1 .. Len(order) -> DOMAIN Pricing]
         /\ \A key \in DOMAIN Pricing : \E i \in 1 .. Len(order) : order[i] = key
<1> DEFINE K == DOMAIN Pricing
           n == Cardinality(K)
<1>1. IsFiniteSet(K) /\ n \in Nat
  BY MeterAssumption, FS_CardinalityType
<1>2. order \in [1 .. n -> K] /\ \A i, j \in 1 .. n : i # j => order[i] # order[j]
  BY DEF iterations, SetToSeqs
<1> HIDE DEF K
<1>3. order \in Injection(1 .. n, K)
  BY <1>2 DEF Injection, IsInjective
<1>4. Cardinality(1 .. n) = n
  BY <1>1, FS_Interval
<1>5. order \in Surjection(1 .. n, K)
  BY <1>1, <1>3, <1>4, FS_Injection
<1> HIDE DEF n
<1>6. Len(order) = n
  BY <1>1, <1>2
<1> QED BY <1>1, <1>2, <1>5, <1>6 DEF Surjection, K

\* A longest name that starts the model's, if one does.
Longest(key, model) ==
    /\ key = NoModel \/ (key \in DOMAIN Pricing /\ IsPrefix(key, model))
    /\ \A k \in DOMAIN Pricing : IsPrefix(k, model) => Len(k) <= Len(key)

LEMMA LongestUnique ==
  ASSUME NEW model, NEW p, NEW q, Longest(p, model), Longest(q, model)
  PROVE  p = q
<1>1. Len(NoModel) = 0
  BY DEF NoModel
<1>2. \A key \in DOMAIN Pricing : key \in Seq(STRING) /\ Len(key) \in Nat \ {0}
  BY PricedNames
<1>3. CASE p = NoModel
  <2>1. q \notin DOMAIN Pricing \/ ~IsPrefix(q, model)
    BY <1>1, <1>2, <1>3 DEF Longest
  <2> QED BY <1>3, <2>1 DEF Longest
<1>4. CASE q = NoModel
  <2>1. p \notin DOMAIN Pricing \/ ~IsPrefix(p, model)
    BY <1>1, <1>2, <1>4 DEF Longest
  <2> QED BY <1>4, <2>1 DEF Longest
<1>5. CASE p # NoModel /\ q # NoModel
  <2>1. /\ p \in DOMAIN Pricing /\ IsPrefix(p, model)
        /\ q \in DOMAIN Pricing /\ IsPrefix(q, model)
    BY <1>5 DEF Longest
  <2>2. p \in Seq(STRING) /\ q \in Seq(STRING) /\ Len(p) \in Nat \ {0} /\ Len(q) \in Nat \ {0}
    BY <1>2, <2>1
  <2>3. Len(p) = Len(q)
    <3>1. Len(p) <= Len(q) /\ Len(q) <= Len(p)
      BY <2>1 DEF Longest
    <3> QED BY <2>2, <3>1
  <2>4. SubSeq(p, 1, Len(p)) = SubSeq(q, 1, Len(q))
    BY <2>1, <2>3 DEF IsPrefix
  <2>5. SubSeq(p, 1, Len(p)) = p /\ SubSeq(q, 1, Len(q)) = q
    BY <2>2, SubSeqFull
  <2> QED BY <2>4, <2>5
<1> QED BY <1>3, <1>4, <1>5

\* The recursion defines a function.
LEMMA Unrolled ==
  ASSUME NEW order \in iterations, NEW model
  PROVE  LET best == longestPrefix(order, model)
         IN  /\ best[0] = NoModel
             /\ \A i \in 1 .. Len(order) :
                  best[i] = IF IsPrefix(order[i], model) /\ Len(order[i]) > Len(best[i - 1])
                            THEN order[i] ELSE best[i - 1]
<1> DEFINE fits(i, b) == IF IsPrefix(order[i], model) /\ Len(order[i]) > Len(b) THEN order[i] ELSE b
           Rec(m, f) == f = [k \in 0 .. m |-> IF k = 0 THEN NoModel ELSE fits(k, f[k - 1])]
           T == {m \in Nat : ~ \E f : Rec(m, f)}
<1>1. Len(order) \in Nat
  BY OrdersComplete
<1>2. longestPrefix(order, model) = CHOOSE f : Rec(Len(order), f)
  BY DEF longestPrefix
<1> HIDE DEF fits
<1>3. T = {}
  <2> SUFFICES ASSUME T # {} PROVE FALSE
    OBVIOUS
  <2>1. PICK x \in T : \A y \in T : x <= y
    <3>1. T \subseteq Nat
      OBVIOUS
    <3> HIDE DEF T
    <3> QED BY <3>1, LeastNumber
  <2>2. x \in Nat /\ ~ \E f : Rec(x, f)
    BY <2>1
  <2>3. CASE x = 0
    <3> DEFINE f == [k \in 0 .. 0 |-> NoModel]
    <3>1. [k \in 0 .. 0 |-> IF k = 0 THEN NoModel ELSE fits(k, f[k - 1])] = f
      OBVIOUS
    <3> QED BY <2>2, <2>3, <3>1
  <2>4. CASE x # 0
    <3>1. x - 1 \in Nat /\ ~(x <= x - 1)
      BY <2>2, <2>4
    <3>2. PICK f : Rec(x - 1, f)
      BY <2>1, <3>1
    <3> DEFINE g == [k \in 0 .. x |-> IF k = x THEN fits(x, f[x - 1]) ELSE f[k]]
               unrolled == [k \in 0 .. x |-> IF k = 0 THEN NoModel ELSE fits(k, g[k - 1])]
    <3>3. \A k \in 0 .. x - 1 : f[k] = IF k = 0 THEN NoModel ELSE fits(k, f[k - 1])
      <4> HIDE DEF g, unrolled
      <4> QED BY <3>2
    <3>4. ASSUME NEW k \in 0 .. x PROVE g[k] = unrolled[k]
      <4>1. CASE k = 0
        BY <2>2, <2>4, <3>1, <3>3, <4>1
      <4>2. CASE k # 0
        <5>1. k - 1 \in 0 .. x /\ k - 1 # x
          BY <2>2, <4>2
        <5>2. g[k - 1] = f[k - 1] /\ unrolled[k] = fits(k, g[k - 1])
          BY <4>2, <5>1
        <5>3. CASE k = x
          BY <5>2, <5>3
        <5>4. CASE k # x
          <6>1. k \in 0 .. x - 1
            BY <2>2, <5>4
          <6>2. g[k] = f[k]
            BY <5>4
          <6> HIDE DEF g, unrolled
          <6> QED BY <3>3, <4>2, <5>2, <6>1, <6>2
        <5> QED BY <5>3, <5>4
      <4> QED BY <4>1, <4>2
    <3>5. g = unrolled
      BY <3>4
    <3>6. Rec(x, g)
      BY <3>5
    <3> QED BY <2>2, <3>6
  <2> QED BY <2>3, <2>4
<1>4. \E f : Rec(Len(order), f)
  BY <1>1, <1>3
<1> HIDE DEF Rec, T
<1>5. Rec(Len(order), longestPrefix(order, model))
  BY <1>2, <1>4
<1> DEFINE best == longestPrefix(order, model)
<1>6. best = [k \in 0 .. Len(order) |-> IF k = 0 THEN NoModel ELSE fits(k, best[k - 1])]
  BY <1>5 DEF Rec
<1> HIDE DEF best
<1>7. 0 \in 0 .. Len(order) /\ \A i \in 1 .. Len(order) : i \in 0 .. Len(order) /\ i # 0
  BY <1>1
<1>8. best[0] = NoModel /\ \A i \in 1 .. Len(order) : best[i] = fits(i, best[i - 1])
  BY <1>6, <1>7
<1> QED BY <1>8 DEF fits, best

\* After each turn of the loop the name is a longest among those seen.
LEMMA LongestFound ==
  ASSUME NEW order \in iterations, NEW model
  PROVE  Longest(longestPrefix(order, model)[Len(order)], model)
<1> DEFINE best == longestPrefix(order, model)
           n == Len(order)
           Good(b) == b = NoModel \/ (b \in DOMAIN Pricing /\ IsPrefix(b, model))
           Seen(k) == /\ Good(best[k])
                      /\ \A i \in 1 .. k : IsPrefix(order[i], model) => Len(order[i]) <= Len(best[k])
           T == {k \in 0 .. n : ~Seen(k)}
<1>1. n \in Nat /\ \A i \in 1 .. n : order[i] \in DOMAIN Pricing /\ Len(order[i]) \in Nat
  BY OrdersComplete, PricedNames
<1>2. /\ best[0] = NoModel
      /\ \A i \in 1 .. n :
            best[i] = IF IsPrefix(order[i], model) /\ Len(order[i]) > Len(best[i - 1])
                      THEN order[i] ELSE best[i - 1]
  BY Unrolled
<1> HIDE DEF best, n
<1>3. \A b : Good(b) => Len(b) \in Nat
  BY PricedNames DEF NoModel
<1> HIDE DEF Good
<1>4. Seen(0)
  BY <1>2 DEF Good
<1>5. ASSUME NEW k \in 1 .. n, Seen(k - 1) PROVE Seen(k)
  <2>1. Len(best[k - 1]) \in Nat /\ Len(order[k]) \in Nat /\ order[k] \in DOMAIN Pricing
    BY <1>1, <1>3, <1>5
  <2>2. \A i \in 1 .. k : i = k \/ i \in 1 .. k - 1
    BY <1>1
  <2>3. \A i \in 1 .. k - 1 : Len(order[i]) \in Nat
    BY <1>1
  <2>4. CASE IsPrefix(order[k], model) /\ Len(order[k]) > Len(best[k - 1])
    <3>1. best[k] = order[k] /\ Good(order[k])
      BY <1>2, <2>1, <2>4 DEF Good
    <3>2. \A i \in 1 .. k - 1 : IsPrefix(order[i], model) => Len(order[i]) <= Len(order[k])
      BY <1>5, <2>1, <2>3, <2>4
    <3> QED BY <2>1, <2>2, <3>1, <3>2
  <2>5. CASE ~(IsPrefix(order[k], model) /\ Len(order[k]) > Len(best[k - 1]))
    <3>1. best[k] = best[k - 1]
      BY <1>2, <2>5
    <3>2. IsPrefix(order[k], model) => Len(order[k]) <= Len(best[k - 1])
      BY <2>1, <2>5
    <3> QED BY <1>5, <2>2, <3>1, <3>2
  <2> QED BY <2>4, <2>5
<1>6. T = {}
  <2> SUFFICES ASSUME T # {} PROVE FALSE
    OBVIOUS
  <2>1. PICK x \in T : \A y \in T : x <= y
    <3>1. T \subseteq Nat
      BY <1>1
    <3> HIDE DEF T
    <3> QED BY <3>1, LeastNumber
  <2>2. x \in 0 .. n /\ ~Seen(x)
    BY <2>1
  <2> HIDE DEF Seen
  <2>3. x # 0
    BY <1>4, <2>2
  <2>4. x - 1 \in 0 .. n /\ ~(x <= x - 1) /\ x \in 1 .. n
    BY <1>1, <2>2, <2>3
  <2>5. Seen(x - 1)
    BY <2>1, <2>4
  <2> QED BY <1>5, <2>2, <2>4, <2>5
<1>7. Seen(n)
  BY <1>1, <1>6
<1>8. \A key \in DOMAIN Pricing : IsPrefix(key, model) => Len(key) <= Len(best[n])
  BY <1>7, OrdersComplete DEF n
<1> QED BY <1>7, <1>8 DEF Good, Longest, best, n

\* The price of a call does not depend on the order in which the pricing
\* table is iterated (Go's map order, new for every lookup).
THEOREM PriceUnordered ==
  \A model, input, output : \A p, q \in iterations :
      Calculate(p, model, input, output) = Calculate(q, model, input, output)
<1> SUFFICES ASSUME NEW model, NEW input, NEW output, NEW p \in iterations, NEW q \in iterations
             PROVE  Calculate(p, model, input, output) = Calculate(q, model, input, output)
  OBVIOUS
<1>1. longestPrefix(p, model)[Len(p)] = longestPrefix(q, model)[Len(q)]
  BY LongestFound, LongestUnique
<1>2. findPricing(p, model) = findPricing(q, model)
  BY <1>1 DEF findPricing
<1> QED BY <1>2 DEF Calculate

\* What a lookup finds is a longest known name, also when it is the model's own.
LEMMA PricingFound ==
  ASSUME NEW order \in iterations, NEW model
  PROVE  Longest(findPricing(order, model), model)
<1>1. CASE model \in DOMAIN Pricing
  <2>1. IsPrefix(model, model) /\ \A k \in DOMAIN Pricing : IsPrefix(k, model) => Len(k) <= Len(model)
    <3>1. Len(model) \in Nat
      BY <1>1, PricedNames
    <3> QED BY <3>1 DEF IsPrefix
  <2> QED BY <1>1, <2>1 DEF findPricing, Longest
<1>2. CASE model \notin DOMAIN Pricing
  BY <1>2, LongestFound DEF findPricing
<1> QED BY <1>1, <1>2

\* The price a reader of the table expects is the one that is calculated.
LEMMA PriceExpected ==
  ASSUME NEW order \in iterations, NEW rec, rec.input \in Nat, rec.output \in Nat
  PROVE  LET cost == Calculate(order, rec.model, rec.input, rec.output)
         IN  /\ cost = expectedCost(rec) /\ cost \in Nat
             /\ ~KnownModel(order, rec.model) => cost = 0
<1> DEFINE model == rec.model
           key == findPricing(order, model)
           fits == {k \in DOMAIN Pricing : IsPrefix(k, model)}
           best == CHOOSE k \in fits : \A other \in fits : Len(other) <= Len(k)
           cost == Calculate(order, model, rec.input, rec.output)
<1>1. Longest(key, model)
  BY PricingFound
<1>2. \A k \in DOMAIN Pricing : Pricing[k] \in [input : Nat, output : Nat]
  BY MeterAssumption
<1>3. Len(NoModel) = 0 /\ \A k \in DOMAIN Pricing : Len(k) \in Nat \ {0}
  BY PricedNames DEF NoModel
<1>4. CASE key = NoModel
  <2>1. fits = {}
    BY <1>1, <1>3, <1>4 DEF Longest
  <2>2. cost = rec.input * 0 + rec.output * 0
    BY <1>4 DEF Calculate, NoPrice, price
  <2>3. cost = 0
    BY <2>2
  <2> QED BY <2>1, <2>3 DEF expectedCost
<1>5. CASE key # NoModel
  <2>1. key \in fits /\ \A other \in fits : Len(other) <= Len(key)
    BY <1>1, <1>5 DEF Longest
  <2>2. best \in fits /\ \A other \in fits : Len(other) <= Len(best)
    BY <2>1
  <2>3. Longest(best, model)
    BY <2>2 DEF Longest
  <2>4. best = key
    BY <1>1, <2>3, LongestUnique
  <2>5. cost = rec.input * Pricing[key].input + rec.output * Pricing[key].output
    BY <1>5 DEF Calculate
  <2>6. expectedCost(rec) = rec.input * Pricing[best].input + rec.output * Pricing[best].output
    BY <2>1 DEF expectedCost
  <2>7. cost \in Nat
    <3>1. Pricing[key].input \in Nat /\ Pricing[key].output \in Nat
      BY <1>2, <2>1
    <3> HIDE DEF cost, key
    <3>2. rec.input * Pricing[key].input \in Nat /\ rec.output * Pricing[key].output \in Nat
      BY <3>1
    <3> QED BY <2>5, <3>2
  <2> QED BY <1>5, <2>4, <2>5, <2>6, <2>7 DEF KnownModel
<1> QED BY <1>4, <1>5

(***************************************************************************)
(* The providers: the two built in, and what the extras make.              *)

\* (The provers do not know of a literal that it is a string.)
Str == STRING \cup {"v1", "chat", "completions", "embeddings", "models", "responses", "messages",
                    "openai", "anthropic", "deployments", "health"}

Provider == [name : Str, style : Styles, prefix : Seq(Str), base : Seq(Str)]

LEMMA LiteralPairs ==
  /\ \A x \in {"chat", "completions", "embeddings", "models", "responses", "messages"} :
        <<"v1", x>> \in Seq(Str) /\ Len(<<"v1", x>>) = 2 /\ <<"v1", x>> # <<>>
  /\ LET s == <<"openai", "deployments">> IN s \in Seq(Str) /\ Len(s) = 2 /\ s # <<>>
<1>1. ASSUME NEW x \in Str, NEW y \in Str
      PROVE  <<x, y>> \in Seq(Str) /\ Len(<<x, y>>) = 2 /\ <<x, y>> # <<>>
  OBVIOUS
<1>2. /\ {"v1", "chat", "completions", "embeddings", "models", "responses", "messages"} \subseteq Str
      /\ "openai" \in Str /\ "deployments" \in Str
  BY DEF Str
<1> QED BY <1>1, <1>2

LEMMA StringsAreStr ==
  /\ Seq(STRING) \subseteq Seq(Str) /\ STRING \subseteq Str
  /\ [name : STRING, style : Styles, prefix : Seq(STRING), base : Seq(STRING)] \subseteq Provider
<1>1. STRING \subseteq Str
  BY DEF Str
<1>2. ASSUME NEW s \in Seq(STRING) PROVE s \in Seq(Str)
  BY <1>1, SeqMonotonic
<1> QED BY <1>1, <1>2 DEF Provider

openai    == provider("openai", "openai", <<>>, <<>>)
anthropic == provider("anthropic", "anthropic", <<>>, <<>>)
made      == Extras \ {NoProvider}
Served    == {openai, anthropic} \cup made

\* A provider with a prefix of its own.
Prefixed(p) == p \in made /\ p.style # "anthropic"

LEMMA ServedTypes ==
  /\ IsFiniteSet(made)
  /\ Served \subseteq Provider /\ NoProvider \notin Served
  /\ \A p \in Served : Prefixed(p) \/ (p.style = "anthropic" /\ p.prefix = <<>>) \/ p = openai
  /\ \A p : Prefixed(p) => p.prefix # <<>> /\ Head(p.prefix) # "v1"
  /\ \A p, o : Prefixed(p) /\ Prefixed(o) /\ Head(p.prefix) = Head(o.prefix) => p = o
<1>1. IsFiniteSet(made)
  BY ExtrasAssumption, FS_Subset DEF made
<1>2. made \subseteq Provider /\ NoProvider \notin made
  BY ExtrasAssumption, StringsAreStr DEF made
<1>3. openai \in Provider /\ anthropic \in Provider /\ openai # NoProvider /\ anthropic # NoProvider
  <2>1. openai \in Provider /\ anthropic \in Provider
    BY DEF openai, anthropic, provider, Provider, Styles, Str
  <2> QED BY <2>1, ExtrasAssumption DEF openai, anthropic
<1>4. /\ \A p \in made : p.style = "anthropic" => p.prefix = <<>>
      /\ \A p : Prefixed(p) => p.prefix # <<>> /\ Head(p.prefix) # "v1"
      /\ \A p, o : Prefixed(p) /\ Prefixed(o) /\ Head(p.prefix) = Head(o.prefix) => p = o
  BY ExtrasAssumption DEF made, Prefixed
<1>5. anthropic.style = "anthropic" /\ anthropic.prefix = <<>>
  BY DEF anthropic, provider
<1> QED BY <1>1, <1>2, <1>3, <1>4, <1>5 DEF Served, Prefixed

LEMMA Permuted ==
  ASSUME NEW S, IsFiniteSet(S), NEW s \in SetToSeqs(S)
  PROVE  s \in Seq(S) /\ \A x \in S : \E i \in 1 .. Len(s) : s[i] = x
<1> DEFINE n == Cardinality(S)
<1>1. n \in Nat
  BY FS_CardinalityType
<1>2. s \in [1 .. n -> S] /\ \A i, j \in 1 .. n : i # j => s[i] # s[j]
  BY DEF SetToSeqs
<1>3. s \in Injection(1 .. n, S)
  BY <1>2 DEF Injection, IsInjective
<1>4. Cardinality(1 .. n) = n
  BY <1>1, FS_Interval
<1>5. s \in Surjection(1 .. n, S)
  BY <1>3, <1>4, FS_Injection
<1> HIDE DEF n
<1>6. Len(s) = n /\ s \in Seq(S)
  BY <1>1, <1>2
<1> QED BY <1>5, <1>6 DEF Surjection

LEMMA RegistryMembers ==
  ASSUME NEW reg \in registries
  PROVE  /\ reg \in Seq(Served) /\ Len(reg) >= 2
         /\ reg[1] = openai /\ reg[2] = anthropic
         /\ \A i \in 3 .. Len(reg) : reg[i] \in made
         /\ \A p \in Served : \E i \in 1 .. Len(reg) : reg[i] = p
<1>1. PICK s \in SetToSeqs(made) : reg = NewRegistry(TRUE, TRUE, s)
  BY DEF registries, made
<1>2. s \in Seq(made) /\ \A x \in made : \E i \in 1 .. Len(s) : s[i] = x
  BY ServedTypes, Permuted
<1> DEFINE two == <<openai, anthropic>>
<1>3. reg = two \o s
  <2>1. <<openai>> \o <<anthropic>> = two
    BY Pair
  <2> QED BY <1>1, <2>1 DEF NewRegistry, openai, anthropic
<1>4. two \in Seq(Served) /\ s \in Seq(Served) /\ Len(two) = 2 /\ two[1] = openai /\ two[2] = anthropic
  BY <1>2 DEF Served
<1>10. Len(s) \in Nat
  BY <1>2
<1> HIDE DEF two
<1>5. /\ reg \in Seq(Served) /\ Len(reg) = Len(s) + 2
      /\ reg[1] = openai /\ reg[2] = anthropic
      /\ \A i \in 1 .. Len(s) : reg[i + 2] = s[i]
  <2> SUFFICES two \o s \in Seq(Served)
               /\ Len(two \o s) = Len(s) + 2 /\ (two \o s)[1] = openai /\ (two \o s)[2] = anthropic
               /\ \A i \in 1 .. Len(s) : (two \o s)[i + 2] = s[i]
    BY <1>3
  <2>1. /\ two \o s \in Seq(Served) /\ Len(two \o s) = 2 + Len(s)
        /\ \A i \in 1 .. 2 : (two \o s)[i] = two[i]
        /\ \A i \in 1 .. Len(s) : (two \o s)[2 + i] = s[i]
    <3>1. /\ two \o s \in Seq(Served) /\ Len(two \o s) = Len(two) + Len(s)
          /\ \A i \in 1 .. Len(two) : (two \o s)[i] = two[i]
          /\ \A i \in 1 .. Len(s) : (two \o s)[Len(two) + i] = s[i]
      <4>1. two \in Seq(Served) /\ s \in Seq(Served)
        BY <1>4
      <4> HIDE <1>3
      <4> QED BY <4>1, Joined
    <3> QED BY <1>4, <3>1
  <2>2. \A i \in 1 .. Len(s) : 2 + i = i + 2
    OBVIOUS
  <2>3. (two \o s)[1] = openai /\ (two \o s)[2] = anthropic
    BY <1>4, <2>1
  <2> QED BY <1>10, <2>1, <2>2, <2>3
<1>6. \A i \in 3 .. Len(reg) : i - 2 \in 1 .. Len(s) /\ reg[i] = s[i - 2]
  BY <1>2, <1>5, <1>10
<1>7. \A i \in 1 .. Len(s) : s[i] \in made
  BY <1>2
<1>8. ASSUME NEW p \in Served PROVE \E i \in 1 .. Len(reg) : reg[i] = p
  <2>1. Len(s) \in Nat
    BY <1>2
  <2>2. CASE p = openai
    BY <1>5, <2>1, <2>2
  <2>3. CASE p = anthropic
    BY <1>5, <2>1, <2>3
  <2>4. CASE p \in made
    <3>1. PICK i \in 1 .. Len(s) : s[i] = p
      BY <1>2, <2>4
    <3>2. i + 2 \in 1 .. Len(reg) /\ reg[i + 2] = p
      BY <1>5, <2>1, <3>1
    <3> QED BY <3>2
  <2> QED BY <2>2, <2>3, <2>4 DEF Served
<1>9. \A i \in 3 .. Len(reg) : reg[i] \in made
  <2> SUFFICES ASSUME NEW i \in 3 .. Len(reg) PROVE reg[i] \in made
    OBVIOUS
  <2> QED BY <1>6, <1>7
<1>11. Len(reg) >= 2
  <2> DEFINE n == Len(reg)
             m == Len(s)
  <2>1. n = m + 2 /\ m \in Nat
    BY <1>5, <1>10
  <2> HIDE DEF n, m
  <2>2. n >= 2
    BY <2>1
  <2> QED BY <2>2 DEF n
<1> QED BY <1>5, <1>8, <1>9, <1>11

\* Detect finds the first that matches.
LEMMA Detected ==
  ASSUME NEW reg \in registries, NEW r
  PROVE  \/ /\ Detect(reg, r) = NoProvider
            /\ \A p \in Served : ~Match(p, r)
         \/ \E i \in 1 .. Len(reg) :
               /\ Detect(reg, r) = reg[i] /\ reg[i] \in Served /\ Match(reg[i], r)
               /\ \A j \in 1 .. i - 1 : ~Match(reg[j], r)
<1> DEFINE fits == {i \in 1 .. Len(reg) : Match(reg[i], r)}
           k == IF fits # {} THEN Min(fits) ELSE 0
<1>1. Detect(reg, r) = IF k = 0 THEN NoProvider ELSE reg[k]
  BY DEF Detect, first, SelectInSeq
<1>2. /\ Len(reg) \in Nat /\ \A i \in 1 .. Len(reg) : reg[i] \in Served
      /\ \A p \in Served : \E i \in 1 .. Len(reg) : reg[i] = p
  BY RegistryMembers
<1>3. CASE fits = {}
  BY <1>1, <1>2, <1>3
<1>4. CASE fits # {}
  <2>1. fits \subseteq Nat
    OBVIOUS
  <2> HIDE DEF fits
  <2>2. Min(fits) \in fits /\ \A y \in fits : Min(fits) <= y
    BY <1>4, <2>1, MinOf
  <2>3. k = Min(fits) /\ k \in 1 .. Len(reg)
    BY <1>4, <2>2 DEF fits
  <2>4. Match(reg[k], r) /\ \A j \in 1 .. Len(reg) : Match(reg[j], r) => k <= j
    BY <2>2, <2>3 DEF fits
  <2> HIDE DEF k
  <2>5. \A j \in 1 .. k - 1 : ~Match(reg[j], r)
    BY <1>2, <2>3, <2>4
  <2> QED BY <1>1, <1>2, <2>3, <2>4, <2>5
<1> QED BY <1>3, <1>4

(***************************************************************************)
(* Paths.                                                                  *)

LEMMA Prefix ==
  ASSUME NEW S, NEW s \in Seq(S), NEW t \in Seq(S), IsPrefix(s, t)
  PROVE  Len(s) <= Len(t) /\ \A i \in 1 .. Len(s) : t[i] = s[i]
<1>1. Len(s) <= Len(t) /\ SubSeq(s, 1, Len(s)) = SubSeq(t, 1, Len(s))
  BY DEF IsPrefix
<1>2. ASSUME NEW i \in 1 .. Len(s) PROVE t[i] = s[i]
  <2>1. SubSeq(s, 1, Len(s))[i] = s[i] /\ SubSeq(t, 1, Len(s))[i] = t[i]
    BY <1>1
  <2> QED BY <1>1, <2>1
<1> QED BY <1>1, <1>2

LEMMA PrefixIf ==
  ASSUME NEW S, NEW s \in Seq(S), NEW t \in Seq(S), Len(s) <= Len(t),
         \A i \in 1 .. Len(s) : t[i] = s[i]
  PROVE  IsPrefix(s, t)
<1> DEFINE a == SubSeq(s, 1, Len(s))
           b == SubSeq(t, 1, Len(s))
<1>1. /\ a \in Seq(S) /\ b \in Seq(S) /\ Len(a) = Len(s) /\ Len(b) = Len(s)
      /\ \A i \in 1 .. Len(s) : a[i] = s[i] /\ b[i] = t[i]
  OBVIOUS
<1> HIDE DEF a, b
<1>2. a = b
  BY <1>1
<1> QED BY <1>2 DEF IsPrefix, a, b

\* What a match says of the path.
LEMMA MatchPath ==
  ASSUME NEW p \in Served, NEW r, r.path \in Seq(Str), Match(p, r)
  PROVE  /\ Prefixed(p) => under(p.prefix, r.path) /\ Head(p.prefix) = r.path[1]
         /\ ~Prefixed(p) => /\ Len(r.path) >= 2 /\ r.path[1] = "v1"
                            /\ p.style = "anthropic" <=> r.path[2] = "messages"
<1> DEFINE path == r.path
<1>1. p \in Provider /\ Len(path) \in Nat /\ p.prefix \in Seq(Str) /\ p.style \in Styles
  BY ServedTypes DEF Provider
<1>2. ASSUME NEW tl \in Seq(Str), tl # <<>>, IsPrefix(p.prefix \o tl, path)
      PROVE  /\ under(p.prefix, path) /\ Len(path) >= Len(p.prefix) + Len(tl)
             /\ \A i \in 1 .. Len(tl) : path[Len(p.prefix) + i] = tl[i]
             /\ p.prefix # <<>> => Head(p.prefix) = path[1]
  <2> DEFINE pre == p.prefix
             s == pre \o tl
  <2>1. /\ s \in Seq(Str) /\ Len(s) = Len(pre) + Len(tl) /\ Len(pre) \in Nat /\ Len(tl) \in Nat \ {0}
        /\ \A i \in 1 .. Len(pre) : s[i] = pre[i]
        /\ \A i \in 1 .. Len(tl) : s[Len(pre) + i] = tl[i]
    BY <1>1, <1>2, Joined
  <2> HIDE DEF s
  <2>2. Len(s) <= Len(path) /\ \A i \in 1 .. Len(s) : path[i] = s[i]
    BY <1>2, <2>1, Prefix DEF s
  <2>3. \A i \in 1 .. Len(pre) : path[i] = pre[i]
    BY <2>1, <2>2
  <2>4. Len(path) > Len(pre) /\ Len(pre) <= Len(path)
    BY <1>1, <2>1, <2>2
  <2>5. IsPrefix(pre, path)
    BY <1>1, <2>3, <2>4, PrefixIf
  <2>6. \A i \in 1 .. Len(tl) : path[Len(pre) + i] = tl[i]
    <3>1. \A i \in 1 .. Len(tl) : Len(pre) + i \in 1 .. Len(s)
      BY <2>1
    <3> QED BY <2>1, <2>2, <3>1
  <2>7. pre # <<>> => Head(pre) = path[1]
    BY <1>1, <2>3
  <2> QED BY <2>1, <2>2, <2>4, <2>5, <2>6, <2>7 DEF under
<1>3. CASE p.style = "openai"
  <2>1. PICK api \in {"chat", "completions", "embeddings", "models", "responses"} :
           IsPrefix(p.prefix \o <<"v1", api>>, path)
    BY <1>3 DEF Match, openaiMatch, under
  <2>2. <<"v1", api>> \in Seq(Str) /\ Len(<<"v1", api>>) = 2 /\ <<"v1", api>> # <<>>
    BY LiteralPairs
  <2>3. /\ under(p.prefix, path) /\ Len(path) >= Len(p.prefix) + 2
        /\ \A i \in 1 .. 2 : path[Len(p.prefix) + i] = <<"v1", api>>[i]
        /\ p.prefix # <<>> => Head(p.prefix) = path[1]
    BY <1>2, <2>1, <2>2
  <2>4. path[Len(p.prefix) + 1] = "v1" /\ path[Len(p.prefix) + 2] = api
    BY <2>3
  <2>5. CASE Prefixed(p)
    BY <2>3, <2>5, ServedTypes
  <2>6. CASE ~Prefixed(p)
    <3>1. p = openai
      BY <1>3, <2>6, ServedTypes
    <3>2. Len(p.prefix) = 0
      BY <3>1 DEF openai, provider
    <3> QED BY <1>1, <1>3, <2>3, <2>4, <2>6, <3>2
  <2> QED BY <2>5, <2>6
<1>4. CASE p.style = "anthropic"
  <2>1. IsPrefix(<<"v1", "messages">>, path)
    BY <1>4 DEF Match, anthropicMatch
  <2>2. Len(<<"v1", "messages">>) = 2 /\ <<"v1", "messages">> \in Seq(Str)
    BY LiteralPairs
  <2>3. Len(path) >= 2 /\ \A i \in 1 .. 2 : path[i] = <<"v1", "messages">>[i]
    BY <1>1, <2>1, <2>2, Prefix
  <2>4. path[1] = "v1" /\ path[2] = "messages"
    BY <2>3
  <2> QED BY <1>4, <2>3, <2>4 DEF Prefixed
<1>5. CASE p.style \in {"azure", "gemini", "cohere"}
  <2>1. Prefixed(p) /\ p.prefix # <<>>
    <3>1. p # openai
      BY <1>5 DEF openai, provider
    <3> QED BY <1>5, <3>1, ServedTypes
  <2>2. CASE p.style = "azure"
    <3>1. IsPrefix(p.prefix \o <<"openai", "deployments">>, path)
      BY <2>2 DEF Match, azureMatch, under
    <3>2. <<"openai", "deployments">> \in Seq(Str) /\ <<"openai", "deployments">> # <<>>
      BY LiteralPairs
    <3> QED BY <1>2, <2>1, <3>1, <3>2
  <2>3. CASE p.style # "azure"
    <3>1. under(p.prefix, path)
      BY <1>5, <2>3 DEF Match
    <3>2. IsPrefix(p.prefix, path)
      BY <3>1 DEF under
    <3>3. \A i \in 1 .. Len(p.prefix) : path[i] = p.prefix[i]
      BY <1>1, <3>2, Prefix
    <3>4. Head(p.prefix) = path[1]
      BY <1>1, <2>1, <3>3
    <3> QED BY <2>1, <3>1, <3>4
  <2> QED BY <2>2, <2>3
<1> QED BY <1>1, <1>3, <1>4, <1>5 DEF Styles

\* The provider found does not depend on the order in which the map of extra
\* providers was iterated.
THEOREM DetectUnordered ==
  \A a, b \in registries : \A r : r.path \in Seq(Str) => Detect(a, r) = Detect(b, r)
<1> SUFFICES ASSUME NEW a \in registries, NEW b \in registries, NEW r, r.path \in Seq(Str)
             PROVE  Detect(a, r) = Detect(b, r)
  OBVIOUS
<1>1. CASE \A p \in Served : ~Match(p, r)
  BY <1>1, Detected
<1>2. CASE \E p \in Served : Match(p, r)
  <2>1. ASSUME NEW c \in registries
        PROVE  \E i \in 1 .. Len(c) :
                  /\ Detect(c, r) = c[i] /\ c[i] \in Served /\ Match(c[i], r)
                  /\ \A j \in 1 .. i - 1 : ~Match(c[j], r)
    BY <1>2, Detected
  <2>2. PICK i \in 1 .. Len(a) :
           /\ Detect(a, r) = a[i] /\ a[i] \in Served /\ Match(a[i], r)
           /\ \A j \in 1 .. i - 1 : ~Match(a[j], r)
    BY <2>1
  <2>3. PICK k \in 1 .. Len(b) :
           /\ Detect(b, r) = b[k] /\ b[k] \in Served /\ Match(b[k], r)
           /\ \A j \in 1 .. k - 1 : ~Match(b[j], r)
    BY <2>1
  <2>4. Prefixed(a[i]) <=> Prefixed(b[k])
    BY <2>2, <2>3, MatchPath, ServedTypes
  <2>5. CASE Prefixed(a[i])
    BY <2>2, <2>3, <2>4, <2>5, MatchPath, ServedTypes
  <2>6. CASE ~Prefixed(a[i])
    <3>1. ASSUME NEW c \in registries, NEW n \in 1 .. Len(c), c[n] \in Served, Match(c[n], r),
                 ~Prefixed(c[n]), \A j \in 1 .. n - 1 : ~Match(c[j], r)
          PROVE  c[n] = IF r.path[2] = "messages" THEN anthropic ELSE openai
      <4>1. Len(c) \in Nat /\ Len(c) >= 2 /\ c[1] = openai /\ c[2] = anthropic
        BY RegistryMembers
      <4>2. c[n].style = "anthropic" <=> r.path[2] = "messages"
        BY <3>1, MatchPath
      <4>3. CASE c[n] = openai
        BY <4>2, <4>3 DEF openai, provider
      <4>4. CASE c[n] # openai
        <5>1. c[n].style = "anthropic"
          BY <3>1, <4>4, ServedTypes
        <5>2. Match(anthropic, r)
          BY <3>1, <5>1 DEF Match, anthropic, provider
        <5>3. n = 1 \/ n = 2
          <6>1. ~(2 \in 1 .. n - 1)
            BY <3>1, <4>1, <5>2
          <6> QED BY <4>1, <6>1
        <5> QED BY <4>1, <4>2, <4>4, <5>1, <5>3
      <4> QED BY <4>3, <4>4
    <3> QED BY <2>2, <2>3, <2>4, <2>6, <3>1
  <2> QED BY <2>2, <2>5, <2>6
<1> QED BY <1>1, <1>2

\* What a provider matches is for the proxy, in every registry.
LEMMA MatchRouted ==
  ASSUME NEW p \in Served, NEW r, r.path \in Seq(Str), Match(p, r), NEW reg \in registries
  PROVE  routed(reg, r.path) /\ r.path # <<"health">> /\ Detect(reg, r) # NoProvider
<1>1. Detect(reg, r) # NoProvider
  BY Detected, ServedTypes
<1>2. CASE Prefixed(p)
  <2>1. under(p.prefix, r.path) /\ p.prefix # <<>> /\ p.prefix \in Seq(Str)
    BY <1>2, MatchPath, ServedTypes DEF Provider
  <2>2. p \in ToSet(reg)
    BY RegistryMembers DEF ToSet
  <2>3. routed(reg, r.path)
    BY <2>1, <2>2 DEF routed, PathPrefixes
  <2>4. Len(p.prefix) \in Nat \ {0} /\ Len(r.path) \in Nat
    BY <2>1, EmptySeq
  <2>5. Len(r.path) >= 2
    BY <2>1, <2>4 DEF under
  <2>6. Len(<<"health">>) = 1
    OBVIOUS
  <2>7. r.path # <<"health">>
    <3> DEFINE n == Len(r.path)
    <3>1. n \in Nat /\ n >= 2
      BY <2>4, <2>5
    <3> HIDE DEF n
    <3>2. n # 1
      BY <3>1
    <3> QED BY <2>6, <3>2 DEF n
  <2> QED BY <1>1, <2>3, <2>7
<1>3. CASE ~Prefixed(p)
  <2>1. Len(r.path) >= 2 /\ r.path[1] = "v1" /\ Len(r.path) \in Nat
    BY <1>3, MatchPath
  <2>2. <<"v1">> \in Seq(Str) /\ Len(<<"v1">>) = 1 /\ <<"v1">>[1] = "v1"
    BY DEF Str
  <2>3. \A i \in 1 .. Len(<<"v1">>) : r.path[i] = <<"v1">>[i]
    BY <2>1, <2>2
  <2>4. IsPrefix(<<"v1">>, r.path)
    <3>1. Len(<<"v1">>) <= Len(r.path)
      BY <2>1, <2>2
    <3> QED BY <2>2, <2>3, <3>1, PrefixIf
  <2>5. under(<<"v1">>, r.path)
    BY <2>1, <2>2, <2>4 DEF under
  <2>6. Len(<<"health">>) = 1
    OBVIOUS
  <2> QED BY <1>1, <2>1, <2>5, <2>6 DEF routed
<1> QED BY <1>2, <1>3

\* The prefix that is trimmed is the one that was matched.
LEMMA NativePath ==
  ASSUME NEW p \in Served, NEW r, r.path \in Seq(Str), Match(p, r), p.base = <<>>
  PROVE  p.prefix \o rewrite(p, r.path) = r.path
<1> DEFINE path == r.path
           pre  == p.prefix
<1>1. p.base \o path = path
  BY ConcatEmptySeq
<1>2. pre \in Seq(Str) /\ Len(pre) \in Nat /\ Len(path) \in Nat
  BY ServedTypes DEF Provider
<1>3. CASE pre = <<>>
  BY <1>1, <1>3, ConcatEmptySeq DEF rewrite
<1>4. CASE pre # <<>>
  <2>1. Prefixed(p)
    BY <1>4, ServedTypes DEF openai, provider
  <2>2. IsPrefix(pre, path) /\ Len(path) > Len(pre)
    BY <2>1, MatchPath DEF under
  <2> DEFINE rest1 == SubSeq(path, Len(pre) + 1, Len(path))
             s == pre \o rest1
  <2>3. rewrite(p, path) = rest1
    BY <1>1, <1>4, <2>2 DEF rewrite
  <2>4. /\ rest1 \in Seq(Str) /\ Len(rest1) = Len(path) - Len(pre)
        /\ \A i \in 1 .. Len(path) - Len(pre) : rest1[i] = path[Len(pre) + i]
    <3>1. Len(pre) + 1 \in 1 .. Len(path) + 1 /\ Len(path) \in (Len(pre) + 1) - 1 .. Len(path)
      BY <1>2, <2>2
    <3>2. /\ rest1 \in Seq(Str) /\ Len(rest1) = Len(path) - (Len(pre) + 1) + 1
          /\ \A i \in 1 .. Len(path) - (Len(pre) + 1) + 1 : rest1[i] = path[(Len(pre) + 1) + i - 1]
      BY <1>2, <3>1, Subsequence
    <3>3. /\ Len(path) - (Len(pre) + 1) + 1 = Len(path) - Len(pre)
          /\ \A i \in 1 .. Len(path) - Len(pre) : (Len(pre) + 1) + i - 1 = Len(pre) + i
      BY <1>2
    <3> HIDE DEF rest1
    <3> QED BY <3>2, <3>3
  <2> HIDE DEF rest1
  <2>5. /\ s \in Seq(Str) /\ Len(s) = Len(pre) + Len(rest1)
        /\ \A i \in 1 .. Len(pre) : s[i] = pre[i]
        /\ \A i \in 1 .. Len(rest1) : s[Len(pre) + i] = rest1[i]
    BY <1>2, <2>4, Joined
  <2>6. \A i \in 1 .. Len(pre) : s[i] = path[i]
    BY <1>2, <2>2, <2>5, Prefix
  <2>7. ASSUME NEW i \in 1 .. Len(path) PROVE s[i] = path[i]
    <3>1. CASE i \in 1 .. Len(pre)
      BY <2>6, <3>1
    <3>2. CASE i \notin 1 .. Len(pre)
      <4>1. i - Len(pre) \in 1 .. Len(rest1) /\ Len(pre) + (i - Len(pre)) = i
        BY <1>2, <2>2, <2>4, <3>2
      <4>2. rest1[i - Len(pre)] = path[Len(pre) + (i - Len(pre))]
        BY <2>4, <4>1
      <4>3. s[Len(pre) + (i - Len(pre))] = rest1[i - Len(pre)]
        BY <2>5, <4>1
      <4> QED BY <4>1, <4>2, <4>3
    <3> QED BY <3>1, <3>2
  <2>8. Len(s) = Len(path)
    BY <1>2, <2>2, <2>4, <2>5
  <2> HIDE DEF s
  <2>9. s = path
    BY <2>5, <2>7, <2>8, SeqEqual
  <2> QED BY <2>3, <2>9 DEF s
<1> QED BY <1>3, <1>4

(***************************************************************************)
(* Keys, tenants and paths.                                                *)

LEMMA SameKey ==
  ASSUME NEW r, r.apiKey = NoKey, r.bearer # EmptyBearer
  PROVE  extractRawKey(r) = ExtractAPIKey(r)
<1> DEFINE s == <<r.bearer, r.xApiKey, r.goog>>
           t == <<r.bearer, r.xApiKey, r.goog, r.apiKey>>
           A == {i \in 1 .. Len(s) : s[i] # NoKey}
           B == {i \in 1 .. Len(t) : t[i] # NoKey}
<1>1. Len(s) = 3 /\ Len(t) = 4 /\ t[4] = NoKey
  OBVIOUS
<1>2. s[1] = t[1] /\ s[2] = t[2] /\ s[3] = t[3]
  OBVIOUS
<1>3. firstKey(s) = LET i == IF A # {} THEN Min(A) ELSE 0 IN IF i = 0 THEN NoKey ELSE s[i]
  BY DEF firstKey, first, SelectInSeq
<1>4. firstKey(t) = LET i == IF B # {} THEN Min(B) ELSE 0 IN IF i = 0 THEN NoKey ELSE t[i]
  BY DEF firstKey, first, SelectInSeq
<1>5. extractRawKey(r) = firstKey(s) /\ ExtractAPIKey(r) = firstKey(t)
  BY DEF extractRawKey, ExtractAPIKey
<1> HIDE DEF s, t
<1>6. A = B /\ A \subseteq 1 .. 3 /\ \A i \in 1 .. 3 : s[i] = t[i]
  <2>1. \A i \in 1 .. 3 : i = 1 \/ i = 2 \/ i = 3
    OBVIOUS
  <2>2. \A i \in 1 .. 3 : s[i] = t[i]
    BY <1>2, <2>1
  <2>3. \A i \in 1 .. 4 : i # 4 => i \in 1 .. 3
    OBVIOUS
  <2>4. \A i \in 1 .. 3 : i \in 1 .. 4
    OBVIOUS
  <2> QED BY <1>1, <2>2, <2>3, <2>4
<1> HIDE DEF A, B
<1>7. CASE A = {}
  BY <1>3, <1>4, <1>5, <1>6, <1>7
<1>8. CASE A # {}
  <2>1. Min(A) \in A
    <3>1. A \subseteq Nat
      BY <1>6
    <3> QED BY <1>8, <3>1, MinOf
  <2>2. Min(A) \in 1 .. 3
    BY <1>6, <2>1
  <2>3. Min(A) # 0
    BY <2>2
  <2> QED BY <1>3, <1>4, <1>5, <1>6, <1>8, <2>2, <2>3
<1> QED BY <1>7, <1>8

LEMMA TenantExpected ==
  ASSUME NEW r, r.apiKey = NoKey, r.bearer # EmptyBearer
  PROVE  ResolveTenant(TRUE, Mappings, r) = expectedTenant(r)
<1> DEFINE T(k) == first(Mappings, LAMBDA m : k \in m.pattern, [tenant |-> NoTenant]).tenant
<1>1. T(extractRawKey(r)) = T(ExtractAPIKey(r))
  <2> HIDE DEF T
  <2> QED BY SameKey
<1>2. configTenant(Mappings, r) = T(extractRawKey(r))
  BY DEF configTenant
<1>3. r.tenant = NoTenant => expectedTenant(r) = T(ExtractAPIKey(r))
  BY DEF expectedTenant
<1>4. r.tenant # NoTenant => expectedTenant(r) = r.tenant
  BY DEF expectedTenant
<1> QED BY <1>1, <1>2, <1>3, <1>4 DEF ResolveTenant

\* The same for whole functions.
LEMMA GroupsAddUp ==
  ASSUME NEW S, IsFiniteSet(S), NEW Q, NEW key \in [S -> Q], \A e \in Q : \E x \in S : key[x] = e,
         NEW w \in [S -> Nat], NEW v, v = [e \in Q |-> v[e]],
         \A e \in Q : v[e] = SumFunction([x \in {y \in S : key[y] = e} |-> w[x]])
  PROVE  SumFunction(v) = SumFunction(w)
<1>1. IsFiniteSet(Q)
  <2>1. key \in Surjection(S, Q)
    BY DEF Surjection
  <2> QED BY <2>1, FS_Surjection
<1>2. \A e \in Q : v[e] = sum(w, {x \in S : key[x] = e})
  BY DEF sum, Restrict
<1>3. \A e \in Q : sum(w, {x \in S : key[x] = e}) \in Nat
  <2>1. \A e \in Q : {x \in S : key[x] = e} \in SUBSET S
    OBVIOUS
  <2> QED BY <2>1, SumWithout
<1>4. v \in [Q -> Nat]
  <2>1. \A e \in Q : v[e] \in Nat
    BY <1>2, <1>3
  <2> QED BY <2>1
<1>5. sum(v, Q) = sum(w, S)
  BY <1>1, <1>2, <1>4, SumGroups
<1>6. Restrict(v, Q) = v /\ Restrict(w, S) = w
  BY <1>4 DEF Restrict
<1> QED BY <1>5, <1>6 DEF sum

(***************************************************************************)
(* The queries.                                                            *)

Row(rec) == /\ rec.ts \in Nat /\ rec.duration \in Nat
            /\ rec.cost \in Nat /\ rec.input \in Nat /\ rec.output \in Nat

Table(S) == IsFiniteSet(S) /\ \A rec \in S : Row(rec)

LEMMA PartOfTable ==
  ASSUME NEW S, Table(S), NEW T \in SUBSET S
  PROVE  Table(T)
BY FS_Subset DEF Table

LEMMA SelectedRows ==
  ASSUME NEW S, Table(S), NEW since, NEW until, NEW tenant
  PROVE  Table(selected(S, since, until, tenant))
BY PartOfTable DEF selected

\* How many sel the groups have, so many there are.
LEMMA GroupsCount ==
  ASSUME NEW S, IsFiniteSet(S), NEW Q, NEW key \in [S -> Q], \A e \in Q : \E x \in S : key[x] = e,
         NEW v, v = [e \in Q |-> v[e]], \A e \in Q : v[e] = Cardinality({x \in S : key[x] = e})
  PROVE  SumFunction(v) = Cardinality(S)
<1> DEFINE one == [x \in S |-> 1]
<1>1. one \in [S -> Nat]
  OBVIOUS
<1>2. ASSUME NEW T \in SUBSET S PROVE SumFunction([x \in T |-> one[x]]) = Cardinality(T)
  <2>1. [x \in T |-> one[x]] = Restrict([x \in T |-> 1], T)
    BY DEF Restrict
  <2>2. IsFiniteSet(T)
    BY FS_Subset
  <2> QED BY <2>1, <2>2, SumOnes DEF sum
<1>3. SumFunction([x \in S |-> one[x]]) = Cardinality(S)
  BY <1>2
<1>4. [x \in S |-> one[x]] = one
  OBVIOUS
<1> HIDE DEF one
<1>5. \A e \in Q : v[e] = SumFunction([x \in {y \in S : key[y] = e} |-> one[x]])
  BY <1>2
<1>6. SumFunction(v) = SumFunction(one)
  BY <1>1, <1>5, GroupsAddUp
<1> QED BY <1>3, <1>4, <1>6

\* What a column adds up to in the groups, it adds up to in all.
LEMMA CountAndSums ==
  ASSUME NEW S, Table(S), NEW Q, NEW key \in [S -> Q], \A e \in Q : \E x \in S : key[x] = e
  PROVE  /\ (\A e \in Q : e.requests = Cardinality({x \in S : key[x] = e}))
            => SumFunction([e \in Q |-> e.requests]) = Cardinality(S)
         /\ (\A e \in Q : e.cost = totalCost({x \in S : key[x] = e}))
            => totalCost(Q) = totalCost(S)
         /\ (\A e \in Q : e.input = totalInput({x \in S : key[x] = e}))
            => totalInput(Q) = totalInput(S)
         /\ (\A e \in Q : e.output = totalOutput({x \in S : key[x] = e}))
            => totalOutput(Q) = totalOutput(S)
<1>0. IsFiniteSet(S)
  BY DEF Table
<1>1. ASSUME NEW w \in [S -> Nat], NEW v, v = [e \in Q |-> v[e]],
             \A e \in Q : v[e] = SumFunction([x \in {y \in S : key[y] = e} |-> w[x]])
      PROVE  SumFunction(v) = SumFunction(w)
  BY <1>0, <1>1, GroupsAddUp, SMTT(60)
<1>2. ASSUME \A e \in Q : e.requests = Cardinality({x \in S : key[x] = e})
      PROVE  SumFunction([e \in Q |-> e.requests]) = Cardinality(S)
  <2> DEFINE v == [e \in Q |-> e.requests]
  <2>1. v = [e \in Q |-> v[e]] /\ \A e \in Q : v[e] = Cardinality({x \in S : key[x] = e})
    BY <1>2
  <2> HIDE DEF v
  <2>2. SumFunction(v) = Cardinality(S)
    BY <1>0, <2>1, GroupsCount
  <2> QED BY <2>2 DEF v
<1>3. ASSUME \A e \in Q : e.cost = totalCost({x \in S : key[x] = e})
      PROVE  totalCost(Q) = totalCost(S)
  <2> DEFINE w == [x \in S |-> x.cost]
             v == [e \in Q |-> e.cost]
  <2>1. w \in [S -> Nat] /\ v = [e \in Q |-> v[e]]
    BY DEF Table, Row
  <2>2. \A e \in Q : v[e] = SumFunction([x \in {y \in S : key[y] = e} |-> w[x]])
    <3>1. \A T \in SUBSET S : [x \in T |-> w[x]] = [x \in T |-> x.cost]
      OBVIOUS
    <3> QED BY <1>3, <3>1 DEF totalCost
  <2> HIDE DEF v, w
  <2>3. SumFunction(v) = SumFunction(w)
    BY <1>1, <2>1, <2>2
  <2> QED BY <2>3 DEF totalCost, v, w
<1>4. ASSUME \A e \in Q : e.input = totalInput({x \in S : key[x] = e})
      PROVE  totalInput(Q) = totalInput(S)
  <2> DEFINE w == [x \in S |-> x.input]
             v == [e \in Q |-> e.input]
  <2>1. w \in [S -> Nat] /\ v = [e \in Q |-> v[e]]
    BY DEF Table, Row
  <2>2. \A e \in Q : v[e] = SumFunction([x \in {y \in S : key[y] = e} |-> w[x]])
    <3>1. \A T \in SUBSET S : [x \in T |-> w[x]] = [x \in T |-> x.input]
      OBVIOUS
    <3> QED BY <1>4, <3>1 DEF totalInput
  <2> HIDE DEF v, w
  <2>3. SumFunction(v) = SumFunction(w)
    BY <1>1, <2>1, <2>2
  <2> QED BY <2>3 DEF totalInput, v, w
<1>5. ASSUME \A e \in Q : e.output = totalOutput({x \in S : key[x] = e})
      PROVE  totalOutput(Q) = totalOutput(S)
  <2> DEFINE w == [x \in S |-> x.output]
             v == [e \in Q |-> e.output]
  <2>1. w \in [S -> Nat] /\ v = [e \in Q |-> v[e]]
    BY DEF Table, Row
  <2>2. \A e \in Q : v[e] = SumFunction([x \in {y \in S : key[y] = e} |-> w[x]])
    <3>1. \A T \in SUBSET S : [x \in T |-> w[x]] = [x \in T |-> x.output]
      OBVIOUS
    <3> QED BY <1>5, <3>1 DEF totalOutput
  <2> HIDE DEF v, w
  <2>3. SumFunction(v) = SumFunction(w)
    BY <1>1, <2>1, <2>2
  <2> QED BY <2>3 DEF totalOutput, v, w
<1> QED BY <1>2, <1>3, <1>4, <1>5

LEMMA CostsTrue ==
  ASSUME NEW S, Table(S), NEW since, NEW until, NEW tenant, NEW by
  PROVE  LET sel == selected(S, since, until, tenant)
             Q    == QueryCosts(S, since, until, tenant, by)
         IN  /\ SumFunction([e \in Q |-> e.requests]) = Cardinality(sel)
             /\ totalCost(Q) = totalCost(sel) /\ totalInput(Q) = totalInput(sel)
             /\ totalOutput(Q) = totalOutput(sel)
             /\ \A e \in Q : e.cost = totalCost({rec \in sel : groupCol(by, rec) = e.group})
<1> DEFINE sel == selected(S, since, until, tenant)
           in(g) == {rec \in sel : groupCol(by, rec) = g}
           entry(g) == [group |-> g, requests |-> Cardinality(in(g)), cost |-> totalCost(in(g)),
                        input |-> totalInput(in(g)), output |-> totalOutput(in(g))]
           Q == {entry(g) : g \in {groupCol(by, rec) : rec \in sel}}
           key == [rec \in sel |-> entry(groupCol(by, rec))]
<1>1. Table(sel)
  BY SelectedRows
<1>2. Q = QueryCosts(S, since, until, tenant, by)
  BY DEF QueryCosts
<1>3. \A g : entry(g).group = g
  OBVIOUS
<1>4. key \in [sel -> Q] /\ \A e \in Q : \E x \in sel : key[x] = e
  OBVIOUS
<1>5. ASSUME NEW e \in Q
      PROVE  /\ {x \in sel : key[x] = e} = in(e.group)
             /\ e.requests = Cardinality(in(e.group)) /\ e.cost = totalCost(in(e.group))
             /\ e.input = totalInput(in(e.group)) /\ e.output = totalOutput(in(e.group))
  <2>1. PICK g : e = entry(g)
    OBVIOUS
  <2>2. e.group = g
    BY <1>3, <2>1
  <2>3. \A x \in sel : key[x] = e <=> groupCol(by, x) = g
    <3>1. \A x \in sel : key[x] = entry(groupCol(by, x))
      OBVIOUS
    <3> HIDE DEF entry, key
    <3> QED BY <1>3, <2>1, <3>1
  <2> QED BY <2>1, <2>2, <2>3
<1> HIDE DEF sel, Q, key, in
<1>6. /\ SumFunction([e \in Q |-> e.requests]) = Cardinality(sel)
      /\ totalCost(Q) = totalCost(sel) /\ totalInput(Q) = totalInput(sel)
      /\ totalOutput(Q) = totalOutput(sel)
  <2>1. /\ \A e \in Q : e.requests = Cardinality({x \in sel : key[x] = e})
        /\ \A e \in Q : e.cost = totalCost({x \in sel : key[x] = e})
        /\ \A e \in Q : e.input = totalInput({x \in sel : key[x] = e})
        /\ \A e \in Q : e.output = totalOutput({x \in sel : key[x] = e})
    BY <1>5
  <2> QED BY <1>1, <1>4, <2>1, CountAndSums
<1> QED BY <1>2, <1>5, <1>6 DEF sel, in

LEMMA CostSeriesTrue ==
  ASSUME NEW S, Table(S), NEW since, NEW until, NEW tenant, NEW interval
  PROVE  LET sel == selected(S, since, until, tenant)
             Q    == QueryCostTimeseries(S, interval, since, until, tenant)
         IN  /\ SumFunction([e \in Q |-> e.requests]) = Cardinality(sel)
             /\ totalCost(Q) = totalCost(sel)
<1> DEFINE sel == selected(S, since, until, tenant)
           series == buckets(S, interval, since, until, tenant)
           at(rec) == bucket(interval, rec.ts)
           entry(b) == [at |-> b, requests |-> Cardinality(series[b]), cost |-> totalCost(series[b])]
           Q == {entry(b) : b \in DOMAIN series}
           key == [rec \in sel |-> entry(at(rec))]
<1>1. Table(sel)
  BY SelectedRows
<1>2. Q = QueryCostTimeseries(S, interval, since, until, tenant)
  BY DEF QueryCostTimeseries
<1>3. /\ DOMAIN series = {at(rec) : rec \in sel}
      /\ \A b \in DOMAIN series : series[b] = {rec \in sel : at(rec) = b}
  BY DEF buckets
<1> HIDE DEF series, at
<1>4. key \in [sel -> Q] /\ \A e \in Q : \E x \in sel : key[x] = e
  BY <1>3
<1>5. ASSUME NEW e \in Q
      PROVE  /\ e.requests = Cardinality({x \in sel : key[x] = e})
             /\ e.cost = totalCost({x \in sel : key[x] = e})
  <2>1. PICK b \in DOMAIN series : e = entry(b)
    OBVIOUS
  <2>2. e.at = b /\ \A c : entry(c).at = c
    BY <2>1
  <2>3. \A x \in sel : key[x] = entry(at(x))
    OBVIOUS
  <2>4. e.requests = Cardinality(series[b]) /\ e.cost = totalCost(series[b])
    BY <2>1
  <2> HIDE DEF entry, key
  <2>5. {x \in sel : key[x] = e} = series[b]
    BY <1>3, <2>1, <2>2, <2>3
  <2> QED BY <2>4, <2>5
<1> HIDE DEF sel, Q, key
<1>6. SumFunction([e \in Q |-> e.requests]) = Cardinality(sel) /\ totalCost(Q) = totalCost(sel)
  <2>1. /\ \A e \in Q : e.requests = Cardinality({x \in sel : key[x] = e})
        /\ \A e \in Q : e.cost = totalCost({x \in sel : key[x] = e})
    BY <1>5
  <2> QED BY <1>1, <1>4, <2>1, CountAndSums
<1> QED BY <1>2, <1>6 DEF sel

LEMMA TokenSeriesTrue ==
  ASSUME NEW S, Table(S), NEW since, NEW until, NEW tenant, NEW interval
  PROVE  LET sel == selected(S, since, until, tenant)
             Q    == QueryTokenTimeseries(S, interval, since, until, tenant)
         IN  totalInput(Q) = totalInput(sel) /\ totalOutput(Q) = totalOutput(sel)
<1> DEFINE sel == selected(S, since, until, tenant)
           series == buckets(S, interval, since, until, tenant)
           at(rec) == bucket(interval, rec.ts)
           entry(b) == [at |-> b, input |-> totalInput(series[b]), output |-> totalOutput(series[b])]
           Q == {entry(b) : b \in DOMAIN series}
           key == [rec \in sel |-> entry(at(rec))]
<1>1. Table(sel)
  BY SelectedRows
<1>2. Q = QueryTokenTimeseries(S, interval, since, until, tenant)
  BY DEF QueryTokenTimeseries
<1>3. /\ DOMAIN series = {at(rec) : rec \in sel}
      /\ \A b \in DOMAIN series : series[b] = {rec \in sel : at(rec) = b}
  BY DEF buckets
<1> HIDE DEF series, at
<1>4. key \in [sel -> Q] /\ \A e \in Q : \E x \in sel : key[x] = e
  BY <1>3
<1>5. ASSUME NEW e \in Q
      PROVE  /\ e.input = totalInput({x \in sel : key[x] = e})
             /\ e.output = totalOutput({x \in sel : key[x] = e})
  <2>1. PICK b \in DOMAIN series : e = entry(b)
    OBVIOUS
  <2>2. e.at = b /\ \A c : entry(c).at = c
    BY <2>1
  <2>3. \A x \in sel : key[x] = entry(at(x))
    OBVIOUS
  <2>4. e.input = totalInput(series[b]) /\ e.output = totalOutput(series[b])
    BY <2>1
  <2> HIDE DEF entry, key
  <2>5. {x \in sel : key[x] = e} = series[b]
    BY <1>3, <2>1, <2>2, <2>3
  <2> QED BY <2>4, <2>5
<1> HIDE DEF sel, Q, key
<1>6. totalInput(Q) = totalInput(sel) /\ totalOutput(Q) = totalOutput(sel)
  <2>1. /\ \A e \in Q : e.input = totalInput({x \in sel : key[x] = e})
        /\ \A e \in Q : e.output = totalOutput({x \in sel : key[x] = e})
    BY <1>5
  <2> QED BY <1>1, <1>4, <2>1, CountAndSums
<1> QED BY <1>2, <1>6 DEF sel

LEMMA HistogramTrue ==
  ASSUME NEW S, Table(S), NEW since, NEW until, NEW tenant
  PROVE  SumFunction(latencyBuckets(S, since, until, tenant))
           = Cardinality(selected(S, since, until, tenant))
<1> DEFINE sel == selected(S, since, until, tenant)
           label(rec) == Cardinality({limit \in LatencyLimits : rec.duration >= limit})
           Q == {label(rec) : rec \in sel}
           key == [rec \in sel |-> label(rec)]
           v == [i \in Q |-> Cardinality({rec \in sel : label(rec) = i})]
<1>1. IsFiniteSet(sel)
  BY SelectedRows DEF Table
<1>2. v = latencyBuckets(S, since, until, tenant)
  BY DEF latencyBuckets
<1> HIDE DEF label
<1>3. key \in [sel -> Q] /\ \A e \in Q : \E x \in sel : key[x] = e
  OBVIOUS
<1>4. \A e \in Q : v[e] = Cardinality({x \in sel : key[x] = e})
  <2>1. \A e \in Q : {x \in sel : key[x] = e} = {rec \in sel : label(rec) = e}
    OBVIOUS
  <2> QED BY <2>1
<1>5. v = [e \in Q |-> v[e]]
  OBVIOUS
<1> HIDE DEF sel, Q, key, v
<1>6. SumFunction(v) = Cardinality(sel)
  BY <1>1, <1>3, <1>4, <1>5, GroupsCount
<1> QED BY <1>2, <1>6 DEF sel

\* More sel cost no less.
LEMMA CostGrows ==
  ASSUME NEW S, Table(S), NEW T \in SUBSET S
  PROVE  totalCost(T) <= totalCost(S)
<1> DEFINE w == [x \in S |-> x.cost]
<1>1. w \in [S -> Nat] /\ IsFiniteSet(S)
  BY DEF Table, Row
<1>2. Restrict(w, T) = [x \in T |-> x.cost] /\ Restrict(w, S) = w
  BY DEF Restrict
<1>3. sum(w, T) <= sum(w, S)
  <2> HIDE DEF w
  <2> QED BY <1>1, SumGrows
<1> QED BY <1>2, <1>3 DEF sum, totalCost

Ascending(s) == \A i, j \in 1 .. Len(s) : i <= j => s[i] <= s[j]

LEMMA DurationsSorted ==
  ASSUME NEW S, Table(S), NEW since, NEW until, NEW tenant
  PROVE  LET sel == {rec \in selected(S, since, until, tenant) : rec.duration > 0}
             d    == sortedDurations(S, since, until, tenant)
         IN  /\ d \in Seq({rec.duration : rec \in sel})
             /\ Len(d) = Cardinality(sel)
             /\ Ascending(d)
<1> DEFINE sel == {rec \in selected(S, since, until, tenant) : rec.duration > 0}
           upTo(x) == Cardinality({rec \in sel : rec.duration <= x})
           lasted == {rec.duration : rec \in sel}
           n == Cardinality(sel)
           reach(i) == {x \in lasted : upTo(x) >= i}
           d == [i \in 1 .. n |-> Min(reach(i))]
<1>1. d = sortedDurations(S, since, until, tenant)
  BY DEF sortedDurations
<1>2. Table(sel)
  <2>1. sel \in SUBSET selected(S, since, until, tenant)
    OBVIOUS
  <2> QED BY <2>1, SelectedRows, PartOfTable
<1>3. IsFiniteSet(sel) /\ n \in Nat /\ lasted \subseteq Nat
  BY <1>2, FS_CardinalityType DEF Table, Row
<1> HIDE DEF sel
<1>4. ASSUME sel # {} PROVE lasted # {} /\ upTo(Max(lasted)) = n /\ Max(lasted) \in lasted
  <2>1. IsFiniteSet(lasted)
    <3>1. [rec \in sel |-> rec.duration] \in Surjection(sel, lasted)
      BY DEF Surjection
    <3> QED BY <1>3, <3>1, FS_Surjection
  <2>2. lasted # {}
    BY <1>4
  <2>3. Max(lasted) \in lasted /\ \A y \in lasted : y <= Max(lasted)
    <3> HIDE DEF lasted
    <3> QED BY <1>3, <2>1, <2>2, MaxOf
  <2>4. {rec \in sel : rec.duration <= Max(lasted)} = sel
    BY <2>3
  <2> QED BY <2>2, <2>3, <2>4
<1>5. \A x \in lasted : upTo(x) \in Nat
  <2>1. \A x : IsFiniteSet({rec \in sel : rec.duration <= x})
    BY <1>3, FS_Subset
  <2> QED BY <2>1, FS_CardinalityType
<1>6. ASSUME NEW i \in 1 .. n
      PROVE  reach(i) # {} /\ reach(i) \subseteq Nat
             /\ Min(reach(i)) \in reach(i) /\ \A y \in reach(i) : Min(reach(i)) <= y
  <2>1. sel # {}
    BY <1>3, FS_EmptySet
  <2>2. reach(i) # {}
    <3> HIDE DEF lasted, upTo, n
    <3>1. Max(lasted) \in lasted /\ upTo(Max(lasted)) >= i
      BY <1>3, <1>4, <2>1
    <3> QED BY <3>1
  <2>3. reach(i) \subseteq Nat
    BY <1>3
  <2> HIDE DEF reach
  <2> QED BY <2>2, <2>3, MinOf
<1>7. d \in Seq(lasted) /\ Len(d) = n
  <2>1. \A i \in 1 .. n : Min(reach(i)) \in lasted
    BY <1>6
  <2> HIDE DEF reach, lasted
  <2>2. d \in [1 .. n -> lasted]
    BY <2>1
  <2> QED BY <1>3, <2>2
<1>8. Ascending(d)
  <2> SUFFICES ASSUME NEW i \in 1 .. n, NEW j \in 1 .. n, i <= j PROVE Min(reach(i)) <= Min(reach(j))
    BY <1>7 DEF Ascending
  <2>1. \A x \in reach(j) : x \in reach(i)
    <3> HIDE DEF lasted, upTo, n
    <3> QED BY <1>3, <1>5
  <2> HIDE DEF reach
  <2> QED BY <1>6, <2>1
<1> QED BY <1>1, <1>7, <1>8 DEF sel

(***************************************************************************)
(* Interpolation.                                                          *)

LEMMA Between ==
  ASSUME NEW a \in Nat, NEW b \in Nat, a <= b, NEW f \in 0 .. 100, NEW g \in 0 .. 100, f <= g
  PROVE  /\ a * (100 - f) + b * f <= a * (100 - g) + b * g
         /\ a * (100 - f) + b * f \in Nat
<1>1. (b - a) \in Nat /\ (g - f) \in Nat
  OBVIOUS
<1>2. (b - a) * (g - f) \in Nat
  BY <1>1
<1>3. a * (100 - g) + b * g = a * (100 - f) + b * f + (b - a) * (g - f)
  OBVIOUS
<1>4. a * (100 - f) \in Nat /\ b * f \in Nat
  <2>1. 100 - f \in Nat /\ f \in Nat
    OBVIOUS
  <2> QED BY <2>1
<1> QED BY <1>2, <1>3, <1>4

\* Where a percentile lies: between the k-th duration and the next.
At(s, p, k, f) ==
    /\ 100 * (k - 1) + f = p * (Len(s) - 1)
    /\ percentile(s, p) = IF k = Len(s) THEN 100 * s[k] ELSE s[k] * (100 - f) + s[k + 1] * f

LEMMA Interpolated ==
  ASSUME NEW s \in Seq(Nat), s # <<>>, NEW p \in {50, 90, 99}
  PROVE  \E k \in 1 .. Len(s), f \in 0 .. 99 : At(s, p, k, f)
<1> DEFINE idx == p * (Len(s) - 1)
           k == idx \div 100 + 1
           f == idx % 100
<1>1. Len(s) \in Nat \ {0}
  OBVIOUS
<1>2. idx \in Nat /\ idx <= 100 * (Len(s) - 1)
  BY <1>1
<1>3. idx = 100 * (k - 1) + f /\ f \in 0 .. 99 /\ k \in Nat \ {0}
  <2> HIDE DEF idx
  <2> QED BY <1>2
<1>4. k \in 1 .. Len(s)
  <2>1. 100 * (k - 1) <= idx
    <3> HIDE DEF idx, k, f
    <3> QED BY <1>2, <1>3
  <2>2. k <= Len(s)
    <3> HIDE DEF idx, k, f
    <3> QED BY <1>1, <1>2, <1>3, <2>1
  <2> HIDE DEF idx, k, f
  <2> QED BY <1>1, <1>3, <2>2
<1>5. percentile(s, p) = IF k = Len(s) THEN 100 * s[k] ELSE s[k] * (100 - f) + s[k + 1] * f
  <2>1. percentile(s, p) = IF k >= Len(s) THEN 100 * s[Len(s)] ELSE s[k] * (100 - f) + s[k + 1] * f
    BY DEF percentile
  <2> HIDE DEF idx, k, f
  <2> QED BY <1>1, <1>4, <2>1
<1> QED BY <1>3, <1>4, <1>5 DEF At

LEMMA AtBounds ==
  ASSUME NEW s \in Seq(Nat), Ascending(s), NEW k \in 1 .. Len(s), NEW f \in 0 .. 99, NEW p,
         At(s, p, k, f)
  PROVE  /\ percentile(s, p) \in Nat /\ 100 * s[k] <= percentile(s, p)
         /\ k = Len(s) => percentile(s, p) = 100 * s[k]
         /\ k < Len(s) => percentile(s, p) <= 100 * s[k + 1]
<1>1. s[k] \in Nat /\ 100 * s[k] \in Nat
  OBVIOUS
<1>2. CASE k = Len(s)
  BY <1>1, <1>2 DEF At
<1>3. CASE k < Len(s)
  <2>1. k + 1 \in 1 .. Len(s)
    BY <1>3
  <2>2. s[k + 1] \in Nat /\ s[k] <= s[k + 1]
    BY <2>1 DEF Ascending
  <2> DEFINE a == s[k]
             b == s[k + 1]
  <2>3. percentile(s, p) = a * (100 - f) + b * f
    BY <1>3 DEF At
  <2>4. a \in Nat /\ b \in Nat /\ a <= b
    BY <1>1, <2>2
  <2> HIDE DEF a, b
  <2>5. a * (100 - f) + b * f \in Nat /\ a * (100 - f) + b * f <= a * (100 - 100) + b * 100
    BY <2>4, Between
  <2>6. a * (100 - 0) + b * 0 <= a * (100 - f) + b * f
    BY <2>4, Between
  <2>7. a * (100 - 100) + b * 100 = 100 * b /\ a * (100 - 0) + b * 0 = 100 * a
    BY <2>4
  <2>8. percentile(s, p) \in Nat /\ 100 * a <= percentile(s, p) /\ percentile(s, p) <= 100 * b
    BY <2>3, <2>5, <2>6, <2>7
  <2> QED BY <1>3, <2>8 DEF a, b
<1> QED BY <1>2, <1>3

LEMMA PercentilesOrdered ==
  ASSUME NEW s \in Seq(Nat), s # <<>>, Ascending(s), NEW p \in {50, 90, 99}, NEW q \in {50, 90, 99},
         p <= q
  PROVE  /\ percentile(s, p) \in Nat /\ percentile(s, q) \in Nat
         /\ percentile(s, p) <= percentile(s, q)
         /\ 100 * s[1] <= percentile(s, p) /\ percentile(s, q) <= 100 * s[Len(s)]
<1>0. Len(s) \in Nat \ {0} /\ \A i \in 1 .. Len(s) : s[i] \in Nat /\ s[1] <= s[i] /\ s[i] <= s[Len(s)]
  <2>1. Len(s) \in Nat \ {0}
    OBVIOUS
  <2> QED BY <2>1 DEF Ascending
<1>1. PICK k \in 1 .. Len(s), f \in 0 .. 99 : At(s, p, k, f)
  BY Interpolated
<1>2. PICK l \in 1 .. Len(s), g \in 0 .. 99 : At(s, q, l, g)
  BY Interpolated
<1>3. /\ percentile(s, p) \in Nat /\ 100 * s[k] <= percentile(s, p)
      /\ k < Len(s) => percentile(s, p) <= 100 * s[k + 1]
  BY <1>1, AtBounds
<1>4. /\ percentile(s, q) \in Nat /\ 100 * s[l] <= percentile(s, q)
      /\ l = Len(s) => percentile(s, q) = 100 * s[l]
      /\ l < Len(s) => percentile(s, q) <= 100 * s[l + 1]
  BY <1>2, AtBounds
<1>5. 100 * s[1] <= percentile(s, p)
  BY <1>0, <1>1, <1>3
<1>6. percentile(s, q) <= 100 * s[Len(s)]
  <2>1. CASE l = Len(s)
    BY <1>0, <1>4, <2>1
  <2>2. CASE l < Len(s)
    <3>1. l + 1 \in 1 .. Len(s)
      BY <1>0, <1>2, <2>2
    <3>2. s[l + 1] \in Nat /\ s[Len(s)] \in Nat /\ s[l + 1] <= s[Len(s)]
      BY <1>0, <3>1
    <3>3. percentile(s, q) \in Nat /\ percentile(s, q) <= 100 * s[l + 1]
      BY <1>4, <2>2
    <3>4. \A a, b, x \in Nat : x <= 100 * a /\ a <= b => x <= 100 * b
      OBVIOUS
    <3> QED BY <3>2, <3>3, <3>4
  <2> QED BY <1>0, <1>2, <2>1, <2>2
<1>7. k < l \/ (k = l /\ f <= g)
  <2>1. p * (Len(s) - 1) <= q * (Len(s) - 1)
    BY <1>0
  <2>2. 100 * (k - 1) + f <= 100 * (l - 1) + g
    BY <1>1, <1>2, <2>1 DEF At
  <2>3. k \in Nat /\ l \in Nat
    OBVIOUS
  <2> QED BY <2>2, <2>3
<1>8. CASE k < l
  <2>1. k < Len(s) /\ k + 1 \in 1 .. Len(s) /\ k + 1 <= l
    BY <1>0, <1>1, <1>2, <1>8
  <2>2. s[k + 1] <= s[l]
    BY <1>2, <2>1 DEF Ascending
  <2>3. s[k + 1] \in Nat /\ s[l] \in Nat
    BY <1>0, <2>1
  <2>4. percentile(s, p) <= percentile(s, q)
    <3> DEFINE a == s[k + 1]
               b == s[l]
               x == percentile(s, p)
               y == percentile(s, q)
    <3>1. x <= 100 * a /\ a <= b /\ 100 * b <= y /\ a \in Nat /\ b \in Nat /\ x \in Nat /\ y \in Nat
      BY <1>3, <1>4, <2>1, <2>2, <2>3
    <3> HIDE DEF a, b, x, y
    <3>2. x <= y
      BY <3>1
    <3> QED BY <3>2 DEF x, y
  <2> QED BY <1>3, <1>4, <1>5, <1>6, <2>4
<1>9. CASE k = l /\ f <= g
  <2>1. CASE k = Len(s)
    BY <1>0, <1>1, <1>2, <1>3, <1>4, <1>5, <1>6, <1>9, <2>1 DEF At
  <2>2. CASE k < Len(s)
    <3> DEFINE a == s[k]
               b == s[k + 1]
    <3>1. k + 1 \in 1 .. Len(s)
      BY <1>0, <1>1, <2>2
    <3>2. a \in Nat /\ b \in Nat /\ a <= b
      BY <1>0, <1>1, <3>1 DEF Ascending
    <3>3. percentile(s, p) = a * (100 - f) + b * f /\ percentile(s, q) = a * (100 - g) + b * g
      BY <1>1, <1>2, <1>9, <2>2 DEF At
    <3> HIDE DEF a, b
    <3>4. f \in 0 .. 100 /\ g \in 0 .. 100 /\ f <= g
      BY <1>9
    <3>5. a * (100 - f) + b * f <= a * (100 - g) + b * g
      BY <3>2, <3>4, Between
    <3> QED BY <1>3, <1>4, <1>5, <1>6, <3>3, <3>5
  <2> QED BY <1>0, <1>1, <2>1, <2>2
<1> QED BY <1>7, <1>8, <1>9

(***************************************************************************)
(* What the result of a query says of the table it was made of.            *)

SumsUp(Q, sel) ==
    /\ SumFunction([e \in Q |-> e.requests]) = Cardinality(sel)
    /\ totalCost(Q) = totalCost(sel)
    /\ totalInput(Q) = totalInput(sel) /\ totalOutput(Q) = totalOutput(sel)

AsBudgeted(Q, S, by, tenant, since, until) ==
    /\ by = "key" /\ tenant = AnyTenant =>
          \A e \in Q : e.cost = GetTotalSpend(S, e.group, since, until)
    /\ tenant # AnyTenant => totalCost(Q) = GetTotalSpendByTenant(S, tenant, since, until)

lasted(sel) == {rec.duration : rec \in {c \in sel : c.duration > 0}}

Spread(p, sel) ==
    /\ p[1] <= p[2] /\ p[2] <= p[3]
    /\ IF lasted(sel) = {} THEN p[3] = 0
       ELSE 100 * Min(lasted(sel)) <= p[1] /\ p[3] <= 100 * Max(lasted(sel))

LEMMA CostsHold ==
  ASSUME NEW S, Table(S), NEW since, NEW until, NEW tenant, NEW by,
         NEW Q, Q = QueryCosts(S, since, until, tenant, by)
  PROVE  SumsUp(Q, selected(S, since, until, tenant)) /\ AsBudgeted(Q, S, by, tenant, since, until)
<1> DEFINE sel == selected(S, since, until, tenant)
<1>1. /\ SumFunction([e \in Q |-> e.requests]) = Cardinality(sel)
      /\ totalCost(Q) = totalCost(sel) /\ totalInput(Q) = totalInput(sel)
      /\ totalOutput(Q) = totalOutput(sel)
      /\ \A e \in Q : e.cost = totalCost({rec \in sel : groupCol(by, rec) = e.group})
  BY CostsTrue
<1>2. ASSUME by = "key", tenant = AnyTenant, NEW e \in Q
      PROVE  e.cost = GetTotalSpend(S, e.group, since, until)
  <2>1. {rec \in sel : groupCol(by, rec) = e.group} = {rec \in sel : rec.key = e.group}
    BY <1>2 DEF groupCol
  <2> QED BY <1>1, <1>2, <2>1 DEF GetTotalSpend
<1>3. tenant # AnyTenant => totalCost(Q) = GetTotalSpendByTenant(S, tenant, since, until)
  BY <1>1 DEF GetTotalSpendByTenant
<1> HIDE DEF sel
<1> QED BY <1>1, <1>2, <1>3 DEF SumsUp, AsBudgeted, sel

LEMMA DearestHold ==
  ASSUME NEW S, NEW since, NEW until, NEW tenant, Table(S),
         NEW Q \in QueryRecentExpensive(S, since, until, tenant, TopLimit)
  PROVE  \A x \in selected(S, since, until, tenant) \ Q, y \in Q : x.cost <= y.cost
<1> DEFINE sel == selected(S, since, until, tenant)
           rank == [rec \in sel |-> rec.cost]
<1>1. Table(sel)
  BY SelectedRows
<1>2. Q \in SUBSET sel /\ \A x \in Q, y \in sel \ Q : rank[x] >= rank[y]
  BY DEF QueryRecentExpensive, top, kSubset
<1>3. \A x \in sel : x.cost \in Nat /\ rank[x] = x.cost
  BY <1>1 DEF Table, Row
<1> HIDE DEF rank, sel
<1>4. ASSUME NEW x \in sel \ Q, NEW y \in Q PROVE x.cost <= y.cost
  <2>1. x \in sel /\ y \in sel
    BY <1>2
  <2>2. rank[y] >= rank[x]
    BY <1>2
  <2> QED BY <1>3, <2>1, <2>2
<1> QED BY <1>4 DEF sel

LEMMA StatsHold ==
  ASSUME NEW S, NEW since, NEW until, NEW tenant, Table(S),
         QueryErrorStats(S, since, until, tenant).ok
  PROVE  LET Q == QueryErrorStats(S, since, until, tenant)
         IN  Q.requests = Cardinality(selected(S, since, until, tenant)) /\ Q.requests > 0
<1> DEFINE sel == selected(S, since, until, tenant)
<1>1. IsFiniteSet(sel)
  BY SelectedRows DEF Table
<1>2. sel # {}
  BY DEF QueryErrorStats
<1>3. Cardinality(sel) \in Nat /\ Cardinality(sel) # 0
  BY <1>1, <1>2, FS_CardinalityType, FS_EmptySet
<1> HIDE DEF sel
<1>4. Cardinality(sel) > 0
  BY <1>3
<1> QED BY <1>4 DEF QueryErrorStats, sel

LEMMA RecentHold ==
  ASSUME NEW since, NEW until, NEW status, NEW table,
         NEW Q \in QueryRecentSessions(table, since, until, status, TopLimit)
  PROVE  \A s \in Q : s \in table /\ s.started >= since /\ s.started <= until
BY DEF QueryRecentSessions, top, kSubset

\* The percentiles of a run of the shortest durations.
LEMMA SpreadHolds ==
  ASSUME NEW S, NEW since, NEW until, NEW tenant, Table(S), NEW n \in Nat,
         n <= Len(sortedDurations(S, since, until, tenant)),
         n = 0 => sortedDurations(S, since, until, tenant) = <<>>
  PROVE  Spread(p50p90p99(SubSeq(sortedDurations(S, since, until, tenant), 1, n)),
                selected(S, since, until, tenant))
<1> DEFINE sel == selected(S, since, until, tenant)
           R   == {rec \in sel : rec.duration > 0}
           D   == {rec.duration : rec \in R}
           d   == sortedDurations(S, since, until, tenant)
           s   == SubSeq(d, 1, n)
           p   == p50p90p99(s)
<1>1. Table(R) /\ D = lasted(sel)
  <2>1. Table(sel)
    BY SelectedRows
  <2> HIDE DEF sel
  <2> QED BY <2>1, PartOfTable DEF lasted
<1>2. d \in Seq(D) /\ Len(d) = Cardinality(R) /\ Ascending(d)
  BY DurationsSorted
<1>3. D \subseteq Nat /\ IsFiniteSet(D)
  <2>1. IsFiniteSet(R) /\ \A rec \in R : rec.duration \in Nat
    BY <1>1 DEF Table, Row
  <2> HIDE DEF R
  <2>2. IsFiniteSet(D)
    <3>1. [rec \in R |-> rec.duration] \in Surjection(R, D)
      BY DEF Surjection
    <3> QED BY <2>1, <3>1, FS_Surjection
  <2> QED BY <2>1, <2>2
<1> HIDE DEF d, D, R, sel
<1>4. /\ s \in Seq(D) /\ Len(s) = n
      /\ \A k \in 1 .. n : s[k] = d[k]
  <2>1. Len(d) \in Nat
    BY <1>2
  <2>2. 1 \in 1 .. Len(d) + 1 /\ n \in 1 - 1 .. Len(d)
    BY <2>1 DEF d
  <2>3. /\ SubSeq(d, 1, n) \in Seq(D) /\ Len(SubSeq(d, 1, n)) = n - 1 + 1
        /\ \A k \in 1 .. n - 1 + 1 : SubSeq(d, 1, n)[k] = d[1 + k - 1]
    BY <1>2, <2>2, Subsequence
  <2>4. n - 1 + 1 = n /\ \A k \in 1 .. n : 1 + k - 1 = k
    OBVIOUS
  <2> HIDE DEF s
  <2> QED BY <2>3, <2>4 DEF s
<1> HIDE DEF s
<1>5. s \in Seq(Nat) /\ Ascending(s)
  <2>1. s \in Seq(Nat)
    BY <1>3, <1>4, SeqMonotonic
  <2>2. n <= Len(d) /\ Len(d) \in Nat
    BY <1>2 DEF d
  <2> QED BY <1>2, <1>4, <2>1, <2>2 DEF Ascending
<1>6. p = <<percentile(s, 50), percentile(s, 90), percentile(s, 99)>>
  BY DEF p50p90p99
<1>7. CASE n = 0
  <2>1. d = <<>> /\ s = <<>>
    BY <1>4, <1>7, EmptySeq DEF d
  <2>2. D = {}
    <3>1. Cardinality(R) = 0 /\ IsFiniteSet(R)
      BY <1>1, <1>2, <2>1 DEF Table
    <3>2. R = {}
      BY <3>1, FS_EmptySet
    <3> QED BY <3>2 DEF D
  <2>3. p[1] = 0 /\ p[2] = 0 /\ p[3] = 0
    BY <1>6, <2>1 DEF percentile
  <2> HIDE DEF p
  <2> QED BY <1>1, <2>2, <2>3 DEF Spread, p, s, d, sel
<1>8. CASE n # 0
  <2>1. s # <<>> /\ s[1] \in D /\ s[Len(s)] \in D
    <3>1. Len(s) \in Nat \ {0}
      BY <1>4, <1>8
    <3> QED BY <1>4, <3>1
  <2>2. /\ percentile(s, 50) <= percentile(s, 90) /\ percentile(s, 90) <= percentile(s, 99)
        /\ 100 * s[1] <= percentile(s, 50) /\ percentile(s, 99) <= 100 * s[Len(s)]
    BY <1>5, <2>1, PercentilesOrdered
  <2>3. /\ Min(D) \in D /\ Min(D) <= s[1]
        /\ Max(D) \in D /\ s[Len(s)] <= Max(D)
    BY <1>3, <2>1, MinOf, MaxOf
  <2>4. p[1] = percentile(s, 50) /\ p[2] = percentile(s, 90) /\ p[3] = percentile(s, 99)
    BY <1>6
  <2>5. 100 * Min(D) <= p[1] /\ p[3] <= 100 * Max(D)
    <3> DEFINE a == Min(D)
               b == s[1]
               c == s[Len(s)]
               e == Max(D)
               x == percentile(s, 50)
               y == percentile(s, 99)
    <3>1. a \in Nat /\ b \in Nat /\ c \in Nat /\ e \in Nat /\ x \in Nat /\ y \in Nat
      <4>1. a \in Nat /\ b \in Nat /\ c \in Nat /\ e \in Nat
        BY <1>3, <2>1, <2>3
      <4>2. x \in Nat /\ y \in Nat
        BY <1>5, <2>1, PercentilesOrdered
      <4> QED BY <4>1, <4>2
    <3>2. a <= b /\ c <= e /\ 100 * b <= x /\ y <= 100 * c
      BY <2>2, <2>3
    <3> HIDE DEF a, b, c, e, x, y
    <3>3. 100 * a <= x /\ y <= 100 * e
      BY <3>1, <3>2
    <3> QED BY <2>4, <3>3 DEF a, e, x, y
  <2>6. lasted(sel) # {} /\ lasted(sel) = D
    BY <1>1, <2>1
  <2> HIDE DEF p
  <2> QED BY <2>2, <2>4, <2>5, <2>6 DEF Spread, p, s, d, sel
<1> QED BY <1>7, <1>8

LEMMA LatencyHolds ==
  ASSUME NEW S, NEW since, NEW until, NEW tenant, Table(S)
  PROVE  /\ Spread(latencyPercentiles(S, since, until, tenant), selected(S, since, until, tenant))
         /\ Spread(pgPercentiles(S, since, until, tenant), selected(S, since, until, tenant))
<1> DEFINE d == sortedDurations(S, since, until, tenant)
           sel == selected(S, since, until, tenant)
           n == IF Len(d) < PercentileRows THEN Len(d) ELSE PercentileRows
<1>1. PICK T : d \in Seq(T)
  BY DurationsSorted
<1>2. Len(d) \in Nat /\ (Len(d) = 0 => d = <<>>) /\ PercentileRows \in Nat \ {0}
  BY <1>1, EmptySeq, ReportsAssumption
<1>3. latencyPercentiles(S, since, until, tenant) = p50p90p99(SubSeq(d, 1, n))
  BY DEF latencyPercentiles
<1>4. pgPercentiles(S, since, until, tenant) = p50p90p99(SubSeq(d, 1, Len(d)))
  BY <1>1, SubSeqFull DEF pgPercentiles
<1>5. n \in Nat /\ n <= Len(d) /\ (n = 0 => d = <<>>)
  <2> HIDE DEF d
  <2> QED BY <1>2
<1>6. Spread(p50p90p99(SubSeq(d, 1, n)), sel)
  <2> HIDE DEF n
  <2> QED BY <1>5, SpreadHolds
<1>7. Spread(p50p90p99(SubSeq(d, 1, Len(d))), sel)
  <2> DEFINE m == Len(d)
  <2>1. m \in Nat /\ m <= Len(d) /\ (m = 0 => d = <<>>)
    <3> HIDE DEF d
    <3> QED BY <1>2
  <2> HIDE DEF m
  <2>2. Spread(p50p90p99(SubSeq(d, 1, m)), sel)
    BY <2>1, SpreadHolds
  <2> QED BY <2>2 DEF m
<1> QED BY <1>3, <1>4, <1>6, <1>7

(***************************************************************************)
(* The calendar.                                                           *)

\* A multiple of n that is at most t is at most the last one.
LEMMA LastMultiple ==
  ASSUME NEW t \in Nat, NEW n \in Nat \ {0}
  PROVE  /\ t - (t % n) = n * (t \div n) /\ t - (t % n) \in Nat
         /\ \A k \in Nat : n * k <= t => n * k <= n * (t \div n)
<1>1. t = n * (t \div n) + (t % n) /\ t \div n \in Nat /\ t % n \in 0 .. n - 1
  OBVIOUS
<1>2. n * (t \div n) \in Nat
  BY <1>1
<1>3. ASSUME NEW k \in Nat, n * k <= t PROVE n * k <= n * (t \div n)
  <2> DEFINE q == t \div n
  <2>1. q \in Nat /\ t < n * q + n /\ n * q \in Nat /\ n * k \in Nat
    BY <1>1, <1>2
  <2> HIDE DEF q
  <2>2. CASE k <= q
    <3>1. q - k \in Nat /\ n * (q - k) \in Nat /\ n * (q - k) = n * q - n * k
      BY <2>1, <2>2
    <3> QED BY <2>1, <3>1 DEF q
  <2>3. CASE ~(k <= q)
    <3>1. k - q - 1 \in Nat
      BY <2>1, <2>3
    <3>2. n * (k - q - 1) \in Nat
      BY <3>1
    <3>3. n * (k - q - 1) = n * k - n * q - n
      BY <2>1
    <3> QED BY <1>3, <2>1, <3>2, <3>3
  <2> QED BY <2>2, <2>3
<1> QED BY <1>1, <1>2, <1>3

LEMMA Calendar ==
  ASSUME NEW t \in Nat
  PROVE  /\ dayStart(t) = DayLen * (t \div DayLen) /\ dayStart(t) \in Nat
         /\ monthStart(t) = MonthLen * (t \div MonthLen) /\ monthStart(t) \in Nat
         /\ monthStart(t) <= dayStart(t)
<1>1. DayLen \in Nat \ {0}
  BY ReportsAssumption
<1>2. PICK days \in 1 .. MonthLen : MonthLen = days * DayLen
  BY ReportsAssumption
<1>3. MonthLen \in Nat \ {0}
  <2>1. days \in Nat \ {0}
    BY <1>2
  <2>2. days * DayLen \in Nat \ {0}
    BY <1>1, <2>1
  <2> QED BY <1>2, <2>2
<1>4. /\ dayStart(t) = DayLen * (t \div DayLen) /\ dayStart(t) \in Nat
      /\ \A k \in Nat : DayLen * k <= t => DayLen * k <= dayStart(t)
  BY <1>1, LastMultiple DEF dayStart
<1>5. monthStart(t) = MonthLen * (t \div MonthLen) /\ monthStart(t) \in Nat
  BY <1>3, LastMultiple DEF monthStart
<1>6. monthStart(t) <= t
  <2>1. t % MonthLen \in Nat
    BY <1>3
  <2> QED BY <1>5, <2>1 DEF monthStart
<1>7. monthStart(t) = DayLen * (days * (t \div MonthLen)) /\ days * (t \div MonthLen) \in Nat
  <2>1. t \div MonthLen \in Nat /\ days \in Nat
    BY <1>2, <1>3
  <2> DEFINE m == t \div MonthLen
  <2>2. (days * DayLen) * m = DayLen * (days * m) /\ days * m \in Nat
    <3> HIDE DEF m
    <3> QED BY <1>1, <2>1 DEF m
  <2> QED BY <1>2, <1>5, <2>2
<1> QED BY <1>4, <1>5, <1>6, <1>7

(***************************************************************************)
(* The invariant.                                                          *)

\* What Attribution says of a record.
Attributed(r, rec) ==
    /\ \A registry \in registries :
          LET p == Detect(registry, r)
          IN  /\ p # NoProvider /\ p.name = rec.provider
              /\ p.base = <<>> => p.prefix \o rec.path = r.path
    /\ rec.cost = expectedCost(rec)
    /\ rec.estimated => rec.cost = 0
    /\ r.model # NoModel => rec.model # NoModel
    /\ r.apiKey = NoKey /\ r.bearer # EmptyBearer => rec.tenant = expectedTenant(r)

\* A request that has been forwarded was, whatever the registry.
RequestOK(q) ==
    /\ h[q].stage = "refused" =>
          \A registry \in registries : \A p \in ToSet(registry) : ~Match(p, h[q].r)
    /\ h[q].stage = "upstream" =>
          /\ h[q].r \in Traffic[q] /\ h[q].p \in Served /\ Match(h[q].p, h[q].r)
          /\ \A registry \in registries : Detect(registry, h[q].r) = h[q].p
          /\ h[q].start \in Nat /\ h[q].start <= now
    /\ h[q].stage = "queued" => Row(h[q].row) /\ Attributed(h[q].r, h[q].row)

\* The sessions of the requests that have arrived.
begun == {r.session : r \in UNION {Traffic[q] : q \in {x \in Requests : h[x].stage # "new"}}}

SessionsOK ==
    \A s \in sessions : /\ s = [id |-> s.id, started |-> s.started, status |-> s.status]
                        /\ s.started \in Nat /\ s.id \in begun

\* What the result of the i-th query of a report, asked for a, says of the table
\* it was made of.
Holds(a, i, part, S) ==
    LET sel(t) == selected(S, t, a.until, a.tenant)
        ith    == IF i = 1 THEN dayStart(a.until) ELSE monthStart(a.until)
        month  == monthStart(a.until)
    IN  CASE a.kind = "summary" -> SumsUp(part, sel(ith))
          [] a.kind = "status"  -> part # {} => SumsUp(part, sel(ith))
          [] a.kind = "keys"    -> /\ SumsUp(part, sel(month))
                                   /\ AsBudgeted(part, S, a.by, a.tenant, month, a.until)
          [] a.kind \in {"costs", "cli"} -> /\ SumsUp(part, sel(a.since))
                                            /\ AsBudgeted(part, S, a.by, a.tenant, a.since, a.until)
          [] a.kind = "timeseries" ->
                /\ SumFunction([e \in part |-> e.requests]) = Cardinality(sel(a.since))
                /\ totalCost(part) = totalCost(sel(a.since))
          [] a.kind = "tokens" -> /\ totalInput(part) = totalInput(sel(a.since))
                                  /\ totalOutput(part) = totalOutput(sel(a.since))
          [] a.kind = "expensive" ->
                \A x \in sel(a.since) \ part, y \in part : x.cost <= y.cost
          [] a.kind = "stats" ->
                part.requests = Cardinality(sel(a.since)) /\ part.requests > 0
          [] a.kind = "latency" -> IF i = 1 THEN SumFunction(part) = Cardinality(sel(a.since))
                                   ELSE \/ part = NoStats /\ a.driver = "sqlite"
                                        \/ Spread(part, sel(a.since))
          [] a.kind = "history" -> \A s \in part : s.started >= a.since /\ s.started <= a.until

\* The answer to a query: the table was one, of which the present one, T, has
\* every row; B are the sessions begun.
Answered(a, i, part, S, T, B) ==
    /\ Table(S) /\ S \subseteq T
    /\ Holds(a, i, part, S)
    /\ a.kind = "history" => \A s \in part : s.started \in Nat /\ s.id \in B

\* A report makes as many queries as its kind has, and remembers each.
Report(pc, a, parts, seen, T, B) ==
    /\ pc \in {"wait", "query", "done"} /\ a.kind \in kinds /\ a.since \in Int /\ a.until \in Nat
    /\ \/ parts = <<>> /\ seen = <<>> /\ pc # "done"
       \/ /\ parts = <<parts[1]>> /\ seen = <<seen[1]>>
          /\ pc = "done" <=> queries(a.kind) = 1
          /\ Answered(a, 1, parts[1], seen[1], T, B)
       \/ /\ parts = <<parts[1], parts[2]>> /\ seen = <<seen[1], seen[2]>>
          /\ pc = "done" /\ queries(a.kind) = 2
          /\ Answered(a, 1, parts[1], seen[1], T, B)
          /\ Answered(a, 2, parts[2], seen[2], T, B)
          /\ seen[1] \subseteq seen[2]

\* What the report was asked for.
asked == [kind |-> job.kind, by |-> job.by, tenant |-> job.tenant,
          since |-> job.since, until |-> job.until, driver |-> driver]

JobOK ==
    \/ job = [pc |-> job.pc] /\ job.pc \in {"idle", "failed"}
    \/ /\ job = [pc |-> job.pc, kind |-> job.kind, by |-> job.by, tenant |-> job.tenant,
                 since |-> job.since, until |-> job.until, parts |-> job.parts, seen |-> job.seen]
       /\ Report(job.pc, asked, job.parts, job.seen, rows, begun)

ReportsInv ==
    /\ now \in Nat /\ driver \in Drivers
    /\ h = [q \in Requests |-> h[q]]
    /\ \A q \in Requests : RequestOK(q)
    /\ Table(rows)
    /\ SessionsOK
    /\ JobOK

-----------------------------------------------------------------------------

\* What the invariant says is what the two properties say.
LEMMA InvAttribution == ReportsInv => Attribution
BY DEF ReportsInv, RequestOK, Attributed, Attribution

\* The covered records are those that were selected.
LEMMA CoveredSelected ==
  ASSUME NEW i, NEW t
  PROVE  covered(i, t) = selected(job.seen[i], t, job.until, job.tenant)
BY DEF covered, selected

LEMMA InvReports == ReportsInv => ReportsTrue
<1> SUFFICES ASSUME ReportsInv, job.pc = "done" PROVE ReportsTrue
  BY DEF ReportsTrue
<1> DEFINE kind == job.kind
           since == job.since
           until == job.until
           parts == job.parts
           seen == job.seen
           sel(i, t) == selected(seen[i], t, until, job.tenant)
           A(i) == Answered(asked, i, parts[i], seen[i], rows, begun)
<1>1. /\ kind \in kinds /\ since \in Int /\ until \in Nat /\ A(1)
      /\ queries(kind) = 2 => A(2) /\ seen[1] \subseteq seen[2]
  BY DEF ReportsInv, JobOK, Report, queries, asked
<1>2. /\ today = dayStart(until) /\ thisMonth = monthStart(until)
      /\ today \in Nat /\ thisMonth \in Nat /\ thisMonth <= today
  BY <1>1, Calendar DEF today, thisMonth
<1>3. \A i, t : covered(i, t) = sel(i, t)
  BY CoveredSelected
<1>4. ASSUME NEW i, NEW t, SumsUp(parts[i], sel(i, t)) PROVE Accounts(i, t)
  BY <1>3, <1>4 DEF SumsUp, Accounts, CostsAddUp, TokensAddUp
<1>5. ASSUME NEW t, AsBudgeted(parts[1], seen[1], job.by, job.tenant, t, until)
      PROVE  AgreesWithBudgets(t)
  BY <1>5 DEF AsBudgeted, AgreesWithBudgets
<1>6. CASE kind \in twoWindows
  <2>1. queries(kind) = 2 /\ kind \in {"summary", "status"}
    BY <1>6 DEF queries, twoWindows
  <2>2. CASE kind = "summary"
    <3>1. SumsUp(parts[1], sel(1, today)) /\ SumsUp(parts[2], sel(2, thisMonth))
      BY <1>1, <1>2, <2>1, <2>2 DEF Answered, Holds, asked
    <3>2. Accounts(1, today) /\ Accounts(2, thisMonth)
      BY <1>4, <3>1
    <3>3. Table(sel(2, thisMonth)) /\ sel(1, today) \in SUBSET sel(2, thisMonth)
      <4>1. Table(seen[1]) /\ Table(seen[2]) /\ seen[1] \subseteq seen[2]
        BY <1>1, <2>1 DEF Answered
      <4>2. \A rec \in seen[1] : rec.ts \in Nat
        BY <4>1 DEF Table, Row
      <4>3. \A rec \in seen[1] : rec.ts >= today => rec.ts >= thisMonth
        BY <1>2, <4>2
      <4>4. sel(1, today) \subseteq sel(2, thisMonth)
        BY <4>1, <4>3 DEF selected
      <4> QED BY <4>1, <4>4, SelectedRows
    <3>4. totalCost(sel(1, today)) <= totalCost(sel(2, thisMonth))
      BY <3>3, CostGrows
    <3>5. totalCost(parts[1]) <= totalCost(parts[2])
      BY <3>1, <3>4 DEF SumsUp
    <3> QED BY <2>2, <3>2, <3>5 DEF ReportsTrue, SummaryTrue
  <2>3. CASE kind = "status"
    <3>1. /\ parts[1] # {} => SumsUp(parts[1], sel(1, today))
          /\ parts[2] # {} => SumsUp(parts[2], sel(2, thisMonth))
      BY <1>1, <1>2, <2>1, <2>3 DEF Answered, Holds, asked
    <3> QED BY <1>4, <2>3, <3>1 DEF ReportsTrue, StatusTrue
  <2> QED BY <2>1, <2>2, <2>3
<1>7. CASE kind = "keys"
  <2>1. /\ SumsUp(parts[1], sel(1, thisMonth))
        /\ AsBudgeted(parts[1], seen[1], job.by, job.tenant, thisMonth, until)
    BY <1>1, <1>2, <1>7 DEF Answered, Holds, asked
  <2> QED BY <1>4, <1>5, <1>7, <2>1 DEF ReportsTrue
<1>8. CASE kind \in {"costs", "cli"}
  <2>1. /\ SumsUp(parts[1], sel(1, since))
        /\ AsBudgeted(parts[1], seen[1], job.by, job.tenant, since, until)
    BY <1>1, <1>8 DEF Answered, Holds, asked
  <2>2. Accounts(1, since) /\ AgreesWithBudgets(since)
    BY <1>4, <1>5, <2>1
  <2> QED BY <1>8, <2>2 DEF ReportsTrue
<1>9. CASE kind = "timeseries"
  BY <1>1, <1>3, <1>9 DEF Answered, Holds, asked, ReportsTrue, CostsAddUp
<1>10. CASE kind = "tokens"
  BY <1>1, <1>3, <1>10 DEF Answered, Holds, asked, ReportsTrue, TokensAddUp
<1>11. CASE kind = "expensive"
  BY <1>1, <1>3, <1>11 DEF Answered, Holds, asked, ReportsTrue
<1>12. CASE kind = "stats"
  BY <1>1, <1>3, <1>12 DEF Answered, Holds, asked, ReportsTrue
<1>13. CASE kind = "latency"
  <2>1. queries(kind) = 2
    BY <1>13 DEF queries
  <2>2. /\ SumFunction(parts[1]) = Cardinality(sel(1, since))
        /\ (parts[2] = NoStats /\ driver = "sqlite") \/ Spread(parts[2], sel(2, since))
    BY <1>1, <1>13, <2>1 DEF Answered, Holds, asked
  <2> QED BY <1>3, <1>13, <2>2 DEF ReportsTrue, LatencyTrue, Spread, lasted
<1>14. CASE kind = "history"
  <2>1. \A s \in parts[1] : /\ s.started >= since /\ s.started <= until
                            /\ s.started \in Nat /\ s.id \in begun
    BY <1>1, <1>14 DEF Answered, Holds, asked
  <2>2. \A s \in parts[1] : s.started \in since .. until
    BY <1>1, <2>1
  <2> QED BY <1>14, <2>1, <2>2 DEF ReportsTrue, HistoryTrue, begun
<1> QED BY <1>1, <1>6, <1>7, <1>8, <1>9, <1>10, <1>11, <1>12, <1>13, <1>14 DEF kinds, twoWindows

LEMMA InvInit == Init => ReportsInv
<1> SUFFICES ASSUME Init PROVE ReportsInv
  OBVIOUS
<1>1. now \in Nat /\ driver \in Drivers
  BY ReportsAssumption DEF Init
<1>2. h = [q \in Requests |-> h[q]] /\ \A q \in Requests : RequestOK(q)
  BY DEF Init, RequestOK
<1>3. Table(rows) /\ SessionsOK
  BY FS_EmptySet DEF Init, Table, SessionsOK
<1>4. JobOK
  BY DEF Init, JobOK
<1> QED BY <1>1, <1>2, <1>3, <1>4 DEF ReportsInv

\* A request may look as the provers need it.
LEMMA TrafficTypes ==
  ASSUME NEW q \in Requests, NEW r \in Traffic[q]
  PROVE  r.path \in Seq(Str) /\ r.model \in Seq(Str)
BY ReportsAssumption, StringsAreStr

\* What a response is parsed to names a model and counts tokens.
LEMMA ResponseTypes ==
  ASSUME NEW type \in Styles, NEW r, r.model \in Seq(Str)
  PROVE  LET resp == ParseResponse(type, body(type, r))
         IN  /\ resp.input \in Nat /\ resp.output \in Nat
             /\ type # "cohere" => resp.model # NoModel
<1> DEFINE b == body(type, r)
           u == b.usage
<1>1. /\ u.prompt \in Nat /\ u.completion \in Nat /\ u.input \in Nat /\ u.output \in Nat
  BY DEF body, counts, Styles
<1>2. b.model # <<>>
  <2> DEFINE x == "-2025"
             S == Str \cup {x}
  <2>1. r.model \in Seq(S)
    BY SeqMonotonic
  <2>2. <<x>> \in Seq(S) /\ Len(<<x>>) = 1
    OBVIOUS
  <2>3. b.model = r.model \o <<x>>
    BY DEF body
  <2> HIDE DEF x, S, b
  <2>4. Len(b.model) = Len(r.model) + 1 /\ Len(r.model) \in Nat
    BY <2>1, <2>2, <2>3, Joined
  <2>5. Len(<<>>) = 0
    OBVIOUS
  <2> DEFINE n == Len(r.model)
             m == Len(b.model)
  <2>6. m # 0
    <3>1. m = n + 1 /\ n \in Nat
      BY <2>4
    <3> HIDE DEF m, n
    <3> QED BY <3>1
  <2> QED BY <2>5, <2>6
<1> HIDE DEF b
<1>3. styleUsage(type, u).input \in Nat /\ styleUsage(type, u).output \in Nat
  BY <1>1 DEF Styles, styleUsage, openaiUsage, azureUsage, geminiUsage, anthropicUsage,
              cohereUsage, override
<1> QED BY <1>2, <1>3 DEF ParseResponse, NoModel, b

\* The record of a response is attributed as it should be.
LEMMA MeteredRecord ==
  ASSUME ReportsInv, NEW q \in Requests, h[q].stage = "upstream", NEW order \in iterations
  PROVE  LET rec == proxyRecord(q, 200, order)
         IN  Row(rec) /\ Attributed(h[q].r, rec)
<1> DEFINE r == h[q].r
           p == h[q].p
           resp == ParseResponse(p.style, body(p.style, r))
           model == IF resp.model = NoModel THEN RequestModel(p.style, r.model) ELSE resp.model
           rec == proxyRecord(q, 200, order)
<1>1. /\ r \in Traffic[q] /\ p \in Served /\ Match(p, r)
      /\ \A registry \in registries : Detect(registry, r) = p
      /\ h[q].start \in Nat /\ h[q].start <= now /\ now \in Nat
  BY DEF ReportsInv, RequestOK
<1>2. r.path \in Seq(Str) /\ r.model \in Seq(Str) /\ p.style \in Styles
  BY <1>1, TrafficTypes, ServedTypes DEF Provider
<1>3. /\ resp.input \in Nat /\ resp.output \in Nat
      /\ p.style # "cohere" => resp.model # NoModel
  BY <1>2, ResponseTypes
<1>4. r.model # NoModel => model # NoModel
  BY <1>3 DEF RequestModel
<1> HIDE DEF r, p, resp, model
<1>5. /\ rec.ts = h[q].start /\ rec.duration = now - h[q].start
      /\ rec.provider = p.name /\ rec.model = model
      /\ rec.input = resp.input /\ rec.output = resp.output
      /\ rec.cost = Calculate(order, model, resp.input, resp.output)
      /\ rec.estimated = ~KnownModel(order, model)
      /\ rec.tenant = ResolveTenant(TRUE, Mappings, r)
      /\ rec.path = rewrite(p, r.path)
  BY DEF proxyRecord, r, p, resp, model
<1> HIDE DEF rec
<1>6. /\ rec.cost = expectedCost(rec) /\ rec.cost \in Nat
      /\ rec.estimated => rec.cost = 0
  BY <1>3, <1>5, PriceExpected
<1>7. Row(rec)
  BY <1>1, <1>3, <1>5, <1>6 DEF Row
<1>8. p.base = <<>> => p.prefix \o rec.path = r.path
  BY <1>1, <1>2, <1>5, NativePath
<1>9. \A registry \in registries :
          /\ Detect(registry, r) # NoProvider /\ Detect(registry, r).name = rec.provider
          /\ Detect(registry, r).base = <<>> => Detect(registry, r).prefix \o rec.path = r.path
  BY <1>1, <1>5, <1>8, ServedTypes
<1>10. r.apiKey = NoKey /\ r.bearer # EmptyBearer => rec.tenant = expectedTenant(r)
  BY <1>5, TenantExpected
<1> QED BY <1>4, <1>5, <1>6, <1>7, <1>9, <1>10 DEF Attributed, r, rec

\* What is not forwarded is served by no provider, and what is by the one found.
LEMMA ForwardedRightly ==
  ASSUME NEW q \in Requests, NEW r \in Traffic[q], NEW reg \in registries
  PROVE  LET p == Detect(reg, r)
         IN  IF routed(reg, r.path) /\ r.path # <<"health">> /\ p # NoProvider
             THEN p \in Served /\ Match(p, r) /\ \A registry \in registries : Detect(registry, r) = p
             ELSE \A registry \in registries : \A o \in ToSet(registry) : ~Match(o, r)
<1>1. r.path \in Seq(Str)
  BY TrafficTypes
<1>2. Detect(reg, r) # NoProvider => Detect(reg, r) \in Served /\ Match(Detect(reg, r), r)
  BY Detected
<1>3. \A registry \in registries : Detect(registry, r) = Detect(reg, r)
  BY <1>1, DetectUnordered
<1>4. ASSUME NEW registry \in registries, NEW o \in ToSet(registry), Match(o, r)
      PROVE  routed(reg, r.path) /\ r.path # <<"health">> /\ Detect(reg, r) # NoProvider
  <2>1. o \in Served
    BY RegistryMembers DEF ToSet
  <2> QED BY <1>1, <1>4, <2>1, MatchRouted
<1> QED BY <1>2, <1>3, <1>4

\* A report stays true while records are added and sessions begin.
LEMMA ReportKept ==
  ASSUME NEW pc, NEW a, NEW parts, NEW seen, NEW T, NEW B, NEW U, NEW C,
         Report(pc, a, parts, seen, T, B), T \subseteq U, B \subseteq C
  PROVE  Report(pc, a, parts, seen, U, C)
<1>1. ASSUME NEW i, NEW part, NEW S, Answered(a, i, part, S, T, B)
      PROVE  Answered(a, i, part, S, U, C)
  BY <1>1 DEF Answered
<1> QED BY <1>1 DEF Report

LEMMA JobKept ==
  ASSUME JobOK, UNCHANGED <<job, driver>>, rows \subseteq rows', begun \subseteq begun'
  PROVE  JobOK'
<1>1. asked' = asked
  BY DEF asked
<1>2. CASE job = [pc |-> job.pc] /\ job.pc \in {"idle", "failed"}
  BY <1>2 DEF JobOK
<1>3. CASE ~(job = [pc |-> job.pc] /\ job.pc \in {"idle", "failed"})
  <2>1. Report(job.pc, asked, job.parts, job.seen, rows, begun)
    BY <1>3 DEF JobOK
  <2>2. Report(job.pc, asked, job.parts, job.seen, rows', begun')
    BY <2>1, ReportKept
  <2> QED BY <1>1, <1>3, <2>2 DEF JobOK
<1> QED BY <1>2, <1>3

\* An answer to the next query makes the report longer.
LEMMA ReportGrows ==
  ASSUME NEW pc, NEW a, NEW parts, NEW seen, NEW T, NEW B, Report(pc, a, parts, seen, T, B),
         pc # "done", Table(T), NEW part, Answered(a, Len(parts) + 1, part, T, T, B),
         NEW to, to = IF Len(parts) + 1 = queries(a.kind) THEN "done" ELSE "wait"
  PROVE  Report(to, a, Append(parts, part), Append(seen, T), T, B)
<1>1. queries(a.kind) \in {1, 2}
  BY DEF queries
<1>2. CASE parts = <<>> /\ seen = <<>>
  <2>1. Append(parts, part) = <<part>> /\ Append(seen, T) = <<T>> /\ Len(parts) = 0
    BY <1>2
  <2>2. <<part>>[1] = part /\ <<T>>[1] = T
    OBVIOUS
  <2>3. to = IF queries(a.kind) = 1 THEN "done" ELSE "wait"
    BY <2>1
  <2>4. Answered(a, 1, part, T, T, B)
    BY <2>1
  <2> HIDE <2>1
  <2>5. Report(to, a, <<part>>, <<T>>, T, B)
    BY <1>1, <2>2, <2>3, <2>4 DEF Report
  <2> QED BY <2>1, <2>5
<1>3. CASE parts # <<>> /\ parts = <<parts[1]>> /\ seen = <<seen[1]>>
  <2> DEFINE x == parts[1]
             S == seen[1]
  <2>1. Append(parts, part) = <<x, part>> /\ Append(seen, T) = <<S, T>> /\ Len(parts) = 1
    BY <1>3, Pair
  <2>2. /\ <<x, part>>[1] = x /\ <<x, part>>[2] = part
        /\ <<S, T>>[1] = S /\ <<S, T>>[2] = T
    OBVIOUS
  <2>3. /\ a.kind \in kinds /\ a.since \in Int /\ a.until \in Nat
        /\ Answered(a, 1, x, S, T, B) /\ queries(a.kind) = 2
    BY <1>1, <1>3 DEF Report
  <2>4. to = "done" /\ Answered(a, 2, part, T, T, B)
    BY <2>1, <2>3
  <2>5. S \subseteq T
    BY <2>3 DEF Answered
  <2> HIDE DEF x, S
  <2>6. Report(to, a, <<x, part>>, <<S, T>>, T, B)
    BY <2>2, <2>3, <2>4, <2>5 DEF Report
  <2> QED BY <2>1, <2>6
<1>5. \/ parts = <<>> /\ seen = <<>>
      \/ parts = <<parts[1]>> /\ seen = <<seen[1]>>
  BY DEF Report
<1>6. parts = <<parts[1]>> => parts # <<>>
  <2> DEFINE x == parts[1]
  <2>1. <<x>> # <<>>
    OBVIOUS
  <2> HIDE DEF x
  <2>2. parts = <<x>> => parts # <<>>
    BY <2>1
  <2> QED BY <2>2 DEF x
<1> QED BY <1>2, <1>3, <1>5, <1>6

LEMMA Advanced ==
  ASSUME ReportsInv, job.pc \in {"wait", "query"}, UNCHANGED <<h, rows, driver>>, NEW part,
         Answered(asked, Len(job.parts) + 1, part, rows, rows, begun), advance(part)
  PROVE  JobOK'
<1>1. /\ job = [pc |-> job.pc, kind |-> job.kind, by |-> job.by, tenant |-> job.tenant,
                since |-> job.since, until |-> job.until, parts |-> job.parts, seen |-> job.seen]
      /\ Report(job.pc, asked, job.parts, job.seen, rows, begun) /\ Table(rows)
  BY DEF ReportsInv, JobOK
<1> DEFINE to == IF Len(job.parts) + 1 = queries(job.kind) THEN "done" ELSE "wait"
           parts == Append(job.parts, part)
           seen == Append(job.seen, rows)
<1>2. job' = [job EXCEPT !.parts = parts, !.seen = seen, !.pc = to]
  BY DEF advance
<1>3. Report(to, asked, parts, seen, rows, begun)
  <2>1. asked.kind = job.kind
    BY DEF asked
  <2> QED BY <1>1, <2>1, ReportGrows
<1> HIDE DEF to, parts, seen
<1>4. /\ job'.pc = to /\ job'.parts = parts /\ job'.seen = seen
      /\ job'.kind = job.kind /\ job'.by = job.by /\ job'.tenant = job.tenant
      /\ job'.since = job.since /\ job'.until = job.until
  BY <1>1, <1>2
<1>5. job' = [pc |-> job'.pc, kind |-> job'.kind, by |-> job'.by, tenant |-> job'.tenant,
              since |-> job'.since, until |-> job'.until, parts |-> job'.parts, seen |-> job'.seen]
  BY <1>1, <1>2, <1>4
<1>6. asked' = asked /\ rows' = rows /\ begun' = begun
  BY <1>4 DEF asked, begun
<1>7. Report(job'.pc, asked', job'.parts, job'.seen, rows', begun')
  BY <1>3, <1>4, <1>6
<1> QED BY <1>5, <1>7 DEF JobOK

\* What a query returns holds of the table it is made of.
LEMMA QueryHolds ==
  ASSUME ReportsInv, job.pc = "query", NEW result \in results(job)
  PROVE  Answered(asked, Len(job.parts) + 1, result, rows, rows, begun)
<1> DEFINE kind == job.kind
           n == Len(job.parts) + 1
           w == queryWindow(job)
           sel(t) == selected(rows, t, job.until, job.tenant)
<1>1. /\ Report(job.pc, asked, job.parts, job.seen, rows, begun) /\ Table(rows)
      /\ driver \in Drivers /\ SessionsOK
  BY DEF ReportsInv, JobOK
<1>2. /\ kind \in kinds
      /\ ((n = 1 /\ job.parts = <<>>) \/ (n = 2 /\ job.parts # <<>> /\ queries(kind) = 2))
  <2>1. CASE job.parts = <<>>
    BY <1>1, <2>1 DEF Report, asked
  <2>2. CASE job.parts # <<>>
    <3>1. job.parts = <<job.parts[1]>> /\ queries(kind) # 1 /\ kind \in kinds
      BY <1>1, <2>2 DEF Report, asked
    <3>2. Len(job.parts) = 1
      BY <3>1
    <3> HIDE <3>1
    <3> QED BY <2>2, <3>1, <3>2 DEF queries
  <2> QED BY <2>1, <2>2
<1>3. /\ asked.kind = kind /\ asked.by = job.by /\ asked.tenant = job.tenant
      /\ asked.since = job.since /\ asked.until = job.until
  BY DEF asked
<1>4. w.until = job.until /\ w.since = sinceAt(job, job.until)
  BY DEF queryWindow
<1>5. kind \notin twoWindows \cup {"keys"} => w.since = job.since
  BY <1>4 DEF sinceAt
<1> HIDE DEF n, w
<1>6. kind \in twoWindows => w.since = IF n = 1 THEN dayStart(job.until) ELSE monthStart(job.until)
  BY <1>2, <1>4 DEF sinceAt, twoWindows
<1>7. kind = "keys" => w.since = monthStart(job.until)
  BY <1>4 DEF sinceAt, twoWindows
<1>8. kind = "history" => \A s \in result : s.started \in Nat /\ s.id \in begun
  <2> SUFFICES ASSUME kind = "history" PROVE \A s \in result : s.started \in Nat /\ s.id \in begun
    OBVIOUS
  <2>1. result \in QueryRecentSessions(sessions, w.since, w.until, job.by, TopLimit)
    BY DEF results, costReports, twoWindows, w
  <2> QED BY <1>1, <2>1, RecentHold DEF SessionsOK
<1>9. Holds(asked, n, result, rows)
  <2>1. CASE kind \in costReports
    <3>1. result = QueryCosts(rows, w.since, job.until, job.tenant, job.by)
      <4>1. result \in {QueryCosts(rows, w.since, w.until, job.tenant, job.by)}
        <5>1. result \in IF rejectsQueryCosts(driver) THEN {}
                         ELSE {QueryCosts(rows, w.since, w.until, job.tenant, job.by)}
          BY <2>1 DEF results, w, costReports, twoWindows
        <5> QED BY <5>1
      <4> QED BY <1>4, <4>1
    <3>2. /\ SumsUp(result, sel(w.since))
          /\ AsBudgeted(result, rows, job.by, job.tenant, w.since, job.until)
      BY <1>1, <3>1, CostsHold
    <3>3. CASE kind \in twoWindows
      BY <1>3, <1>6, <3>2, <3>3 DEF Holds, twoWindows
    <3>4. CASE kind = "keys"
      BY <1>3, <1>7, <3>2, <3>4 DEF Holds
    <3>5. CASE kind \in {"costs", "cli"}
      <4>1. w.since = job.since
        BY <1>5, <3>5 DEF twoWindows
      <4> QED BY <1>3, <3>2, <3>5, <4>1 DEF Holds
    <3> QED BY <2>1, <3>3, <3>4, <3>5 DEF costReports
  <2>2. CASE kind \notin costReports
    <3>0. w.since = job.since
      BY <1>5, <2>2 DEF costReports, twoWindows
    <3>1. CASE kind = "timeseries"
      <4>1. result = QueryCostTimeseries(rows, job.by, job.since, job.until, job.tenant)
        BY <1>4, <2>2, <3>0, <3>1 DEF results, w
      <4> QED BY <1>1, <1>3, <3>1, <4>1, CostSeriesTrue DEF Holds
    <3>2. CASE kind = "tokens"
      <4>1. result = QueryTokenTimeseries(rows, job.by, job.since, job.until, job.tenant)
        BY <1>4, <2>2, <3>0, <3>2 DEF results, w
      <4> QED BY <1>1, <1>3, <3>2, <4>1, TokenSeriesTrue DEF Holds
    <3>3. CASE kind = "expensive"
      <4>1. result \in QueryRecentExpensive(rows, job.since, job.until, job.tenant, TopLimit)
        BY <1>4, <2>2, <3>0, <3>3 DEF results, w
      <4>2. \A x \in sel(job.since) \ result, y \in result : x.cost <= y.cost
        BY <1>1, <4>1, DearestHold
      <4> QED BY <1>3, <3>3, <4>2 DEF Holds
    <3>4. CASE kind = "stats"
      <4>1. /\ result = QueryErrorStats(rows, job.since, job.until, job.tenant) /\ result.ok
        BY <1>4, <2>2, <3>0, <3>4 DEF results, w
      <4>2. result.requests = Cardinality(sel(job.since)) /\ result.requests > 0
        BY <1>1, <4>1, StatsHold
      <4> QED BY <1>3, <3>4, <4>2 DEF Holds
    <3>5. CASE kind = "latency"
      <4>1. CASE n = 1
        <5>1. result = latencyBuckets(rows, job.since, job.until, job.tenant)
          BY <1>2, <1>4, <2>2, <3>0, <3>5, <4>1 DEF results, w
        <5>2. SumFunction(result) = Cardinality(sel(job.since))
          BY <1>1, <5>1, HistogramTrue
        <5> QED BY <1>3, <3>5, <4>1, <5>2 DEF Holds
      <4>2. CASE n # 1
        <5>1. result \in {latencyPercentiles(rows, job.since, job.until, job.tenant),
                          pgPercentiles(rows, job.since, job.until, job.tenant)}
          BY <1>2, <1>4, <2>2, <3>0, <3>5, <4>2 DEF results, w
        <5>2. Spread(result, sel(job.since))
          BY <1>1, <5>1, LatencyHolds
        <5> QED BY <1>3, <3>5, <4>2, <5>2 DEF Holds
      <4> QED BY <4>1, <4>2
    <3>6. CASE kind = "history"
      <4>1. result \in QueryRecentSessions(sessions, job.since, job.until, job.by, TopLimit)
        BY <1>4, <2>2, <3>0, <3>6 DEF results, w
      <4>2. \A s \in result : s.started >= job.since /\ s.started <= job.until
        BY <4>1, RecentHold
      <4> QED BY <1>3, <3>6, <4>2 DEF Holds
    <3> QED BY <1>2, <2>2, <3>1, <3>2, <3>3, <3>4, <3>5, <3>6 DEF kinds, costReports, twoWindows
  <2> QED BY <2>1, <2>2
<1> QED BY <1>1, <1>3, <1>8, <1>9 DEF Answered, n

\* A request that takes a step other than its arrival: the others stay as they
\* are, and no session is forgotten.
LEMMA RequestMoves ==
  ASSUME ReportsInv, NEW q \in Requests, NEW to, h' = [h EXCEPT ![q] = to], to.stage # "new"
  PROVE  /\ h' = [x \in Requests |-> h'[x]] /\ h'[q] = to
         /\ \A x \in Requests : x # q => h'[x] = h[x]
         /\ begun \subseteq begun'
<1>1. h = [x \in Requests |-> h[x]]
  BY DEF ReportsInv
<1>2. /\ h' = [x \in Requests |-> h'[x]] /\ h'[q] = to
      /\ \A x \in Requests : x # q => h'[x] = h[x]
  BY <1>1
<1>3. \A x \in Requests : h[x].stage # "new" => h'[x].stage # "new"
  BY <1>2
<1>4. {x \in Requests : h[x].stage # "new"} \subseteq {x \in Requests : h'[x].stage # "new"}
  BY <1>3
<1>5. begun \subseteq begun'
  BY <1>4 DEF begun
<1> QED BY <1>2, <1>5

\* What the others are is not changed, nor is it by time.
LEMMA OthersKept ==
  ASSUME ReportsInv, NEW x \in Requests, h'[x] = h[x], now' \in Nat, now <= now'
  PROVE  RequestOK(x)'
<1>1. RequestOK(x) /\ now \in Nat
  BY DEF ReportsInv
<1>2. h[x].stage = "upstream" => h[x].start \in Nat /\ h[x].start <= now'
  BY <1>1 DEF RequestOK
<1> QED BY <1>1, <1>2 DEF RequestOK

LEMMA SessionsKept ==
  ASSUME SessionsOK, UNCHANGED sessions, begun \subseteq begun'
  PROVE  SessionsOK'
BY DEF SessionsOK

LEMMA ForwardKeeps ==
  ASSUME ReportsInv, NEW q \in Requests, Forward(q)
  PROVE  ReportsInv'
<1>1. UNCHANGED <<now, driver, rows, sessions, pooled, job>>
  BY DEF Forward
<1>2. PICK r \in Traffic[q], reg \in registries :
         LET p == Detect(reg, r)
         IN  h' = [h EXCEPT ![q] =
                     IF routed(reg, r.path) /\ r.path # <<"health">> /\ p # NoProvider
                     THEN [stage |-> "upstream", r |-> r, p |-> p, start |-> now]
                     ELSE [stage |-> "refused", r |-> r]]
  BY DEF Forward
<1> DEFINE p == Detect(reg, r)
           served == routed(reg, r.path) /\ r.path # <<"health">> /\ p # NoProvider
           to == IF served THEN [stage |-> "upstream", r |-> r, p |-> p, start |-> now]
                 ELSE [stage |-> "refused", r |-> r]
<1>3. h' = [h EXCEPT ![q] = to]
  BY <1>2
<1>4. IF served
      THEN p \in Served /\ Match(p, r) /\ \A registry \in registries : Detect(registry, r) = p
      ELSE \A registry \in registries : \A o \in ToSet(registry) : ~Match(o, r)
  BY ForwardedRightly
<1>5. now \in Nat /\ Table(rows) /\ SessionsOK /\ JobOK /\ driver \in Drivers
  BY DEF ReportsInv
<1> HIDE DEF p, served
<1>6. to.stage # "new"
  OBVIOUS
<1>7. CASE served
  <2>1. to.stage = "upstream" /\ to.r = r /\ to.p = p /\ to.start = now
    BY <1>7
  <2> HIDE DEF to
  <2>2. /\ h' = [x \in Requests |-> h'[x]] /\ h'[q] = to
        /\ \A x \in Requests : x # q => h'[x] = h[x]
        /\ begun \subseteq begun'
    BY <1>3, <1>6, RequestMoves
  <2>3. RequestOK(q)'
    BY <1>1, <1>4, <1>5, <1>7, <2>1, <2>2 DEF RequestOK
  <2>4. \A x \in Requests : RequestOK(x)'
    <3>1. ASSUME NEW x \in Requests, x # q PROVE RequestOK(x)'
      BY <1>1, <1>5, <2>2, <3>1, OthersKept
    <3> QED BY <2>3, <3>1
  <2>5. SessionsOK' /\ JobOK'
    BY <1>1, <1>5, <2>2, SessionsKept, JobKept
  <2> QED BY <1>1, <1>5, <2>2, <2>4, <2>5 DEF ReportsInv
<1>8. CASE ~served
  <2>1. to.stage = "refused" /\ to.r = r
    BY <1>8
  <2> HIDE DEF to
  <2>2. /\ h' = [x \in Requests |-> h'[x]] /\ h'[q] = to
        /\ \A x \in Requests : x # q => h'[x] = h[x]
        /\ begun \subseteq begun'
    BY <1>3, <1>6, RequestMoves
  <2>3. RequestOK(q)'
    BY <1>4, <1>8, <2>1, <2>2 DEF RequestOK
  <2>4. \A x \in Requests : RequestOK(x)'
    <3>1. ASSUME NEW x \in Requests, x # q PROVE RequestOK(x)'
      BY <1>1, <1>5, <2>2, <3>1, OthersKept
    <3> QED BY <2>3, <3>1
  <2>5. SessionsOK' /\ JobOK'
    BY <1>1, <1>5, <2>2, SessionsKept, JobKept
  <2> QED BY <1>1, <1>5, <2>2, <2>4, <2>5 DEF ReportsInv
<1> QED BY <1>7, <1>8

LEMMA RespondKeeps ==
  ASSUME ReportsInv, NEW q \in Requests, Respond(q)
  PROVE  ReportsInv'
<1>1. UNCHANGED <<now, driver, rows, sessions, pooled, job>> /\ h[q].stage = "upstream"
  BY DEF Respond
<1>2. now \in Nat /\ Table(rows) /\ SessionsOK /\ JobOK /\ driver \in Drivers
  BY DEF ReportsInv
<1>3. \E to : /\ h' = [h EXCEPT ![q] = to] /\ to.stage \in {"unmetered", "queued"}
              /\ to.stage = "queued" => Row(to.row) /\ Attributed(to.r, to.row)
  <2>1. CASE h' = [h EXCEPT ![q] = [stage |-> "unmetered"]]
    <3> WITNESS [stage |-> "unmetered"]
    <3> QED BY <2>1
  <2>2. CASE \E order \in iterations :
               h' = [h EXCEPT ![q] = [stage |-> "queued", r |-> h[q].r,
                                      row |-> proxyRecord(q, 200, order)]]
    <3>1. PICK order \in iterations :
             h' = [h EXCEPT ![q] = [stage |-> "queued", r |-> h[q].r,
                                    row |-> proxyRecord(q, 200, order)]]
      BY <2>2
    <3> DEFINE rec == proxyRecord(q, 200, order)
               to == [stage |-> "queued", r |-> h[q].r, row |-> rec]
    <3>2. Row(rec) /\ Attributed(h[q].r, rec)
      BY <1>1, MeteredRecord
    <3> HIDE DEF rec
    <3>3. to.stage = "queued" /\ to.r = h[q].r /\ to.row = rec
      OBVIOUS
    <3>4. h' = [h EXCEPT ![q] = to]
      BY <3>1 DEF rec
    <3> HIDE DEF to
    <3> WITNESS to
    <3> QED BY <3>2, <3>3, <3>4
  <2> QED BY <2>1, <2>2 DEF Respond
<1>4. PICK to : /\ h' = [h EXCEPT ![q] = to] /\ to.stage \in {"unmetered", "queued"}
                /\ to.stage = "queued" => Row(to.row) /\ Attributed(to.r, to.row)
  BY <1>3
<1>5. /\ h' = [x \in Requests |-> h'[x]] /\ h'[q] = to
      /\ \A x \in Requests : x # q => h'[x] = h[x]
      /\ begun \subseteq begun'
  BY <1>4, RequestMoves
<1>6. RequestOK(q)'
  BY <1>4, <1>5 DEF RequestOK
<1>7. \A x \in Requests : RequestOK(x)'
  <2>1. ASSUME NEW x \in Requests, x # q PROVE RequestOK(x)'
    BY <1>1, <1>2, <1>5, <2>1, OthersKept
  <2> QED BY <1>6, <2>1
<1>8. SessionsOK' /\ JobOK'
  BY <1>1, <1>2, <1>5, SessionsKept, JobKept
<1> QED BY <1>1, <1>2, <1>5, <1>7, <1>8 DEF ReportsInv

LEMMA InsertKeeps ==
  ASSUME ReportsInv, NEW q \in Requests, Insert(q)
  PROVE  ReportsInv'
<1>1. /\ UNCHANGED <<now, driver, sessions, pooled, job>> /\ h[q].stage = "queued"
      /\ rows' = rows \cup {h[q].row} /\ h' = [h EXCEPT ![q] = [stage |-> "recorded"]]
  BY DEF Insert, RecordUsage
<1>2. now \in Nat /\ Table(rows) /\ SessionsOK /\ JobOK /\ driver \in Drivers /\ Row(h[q].row)
  BY <1>1 DEF ReportsInv, RequestOK
<1>3. Table(rows') /\ rows \subseteq rows'
  BY <1>1, <1>2, FS_AddElement DEF Table
<1> DEFINE to == [stage |-> "recorded"]
<1>4. to.stage = "recorded" /\ h' = [h EXCEPT ![q] = to]
  BY <1>1
<1> HIDE DEF to
<1>5. /\ h' = [x \in Requests |-> h'[x]] /\ h'[q] = to
      /\ \A x \in Requests : x # q => h'[x] = h[x]
      /\ begun \subseteq begun'
  BY <1>4, RequestMoves
<1>6. RequestOK(q)'
  BY <1>4, <1>5 DEF RequestOK
<1>7. \A x \in Requests : RequestOK(x)'
  <2>1. ASSUME NEW x \in Requests, x # q PROVE RequestOK(x)'
    BY <1>1, <1>2, <1>5, <2>1, OthersKept
  <2> QED BY <1>6, <2>1
<1>8. SessionsOK' /\ JobOK'
  BY <1>1, <1>2, <1>3, <1>5, SessionsKept, JobKept
<1> QED BY <1>1, <1>2, <1>3, <1>5, <1>7, <1>8 DEF ReportsInv

LEMMA FlushKeeps ==
  ASSUME ReportsInv, NEW q \in Requests, Flush(q)
  PROVE  ReportsInv'
<1>1. UNCHANGED <<now, driver, h, rows, pooled, job>> /\ h[q].stage = "upstream"
  BY DEF Flush
<1>2. /\ h[q].r \in Traffic[q] /\ h[q].start \in Nat /\ now \in Nat /\ SessionsOK /\ JobOK
  BY <1>1 DEF ReportsInv, RequestOK
<1>3. h[q].r.session \in begun /\ begun' = begun
  BY <1>1, <1>2 DEF begun
<1>4. PICK status : sessions' = UpsertSession(sessions, [id |-> h[q].r.session, started |-> h[q].start,
                                                         status |-> status])
  BY DEF Flush
<1>5. SessionsOK'
  <2> DEFINE new == [id |-> h[q].r.session, started |-> h[q].start, status |-> status]
  <2> SUFFICES ASSUME NEW s \in sessions'
               PROVE  /\ s = [id |-> s.id, started |-> s.started, status |-> s.status]
                      /\ s.started \in Nat /\ s.id \in begun
    BY <1>3 DEF SessionsOK
  <2>1. \/ s \in sessions \/ s = new
        \/ \E o \in sessions : s = [o EXCEPT !.status = new.status]
    BY <1>4 DEF UpsertSession
  <2>2. CASE s \in sessions
    BY <1>2, <2>2 DEF SessionsOK
  <2>3. CASE s = new
    BY <1>2, <1>3, <2>3
  <2>4. CASE \E o \in sessions : s = [o EXCEPT !.status = new.status]
    <3>1. PICK o \in sessions : s = [o EXCEPT !.status = status]
      BY <2>4
    <3>2. /\ o = [id |-> o.id, started |-> o.started, status |-> o.status]
          /\ o.started \in Nat /\ o.id \in begun
      BY <1>2 DEF SessionsOK
    <3>3. s = [id |-> o.id, started |-> o.started, status |-> status]
      BY <3>1, <3>2
    <3> QED BY <3>2, <3>3
  <2> QED BY <2>1, <2>2, <2>3, <2>4
<1>6. JobOK' /\ \A x \in Requests : RequestOK(x)'
  BY <1>1, <1>2, <1>3, JobKept, OthersKept
<1> QED BY <1>1, <1>5, <1>6 DEF ReportsInv

\* The steps of a report, and time.
LEMMA ReportKeeps ==
  ASSUME ReportsInv, JobOK', UNCHANGED <<driver, h, rows, sessions>>, now' \in Nat, now <= now'
  PROVE  ReportsInv'
<1>1. begun' = begun
  BY DEF begun
<1>2. \A x \in Requests : RequestOK(x)'
  BY OthersKept
<1> QED BY <1>1, <1>2 DEF ReportsInv, SessionsOK

LEMMA StartKeeps ==
  ASSUME ReportsInv, Start
  PROVE  ReportsInv'
<1>1. UNCHANGED <<now, driver, h, rows, sessions, pooled>> /\ now \in Nat
  BY DEF Start, ReportsInv
<1>2. PICK q \in Queries[driver], length \in Windows :
         job' = [pc |-> IF q.kind \in commands THEN "query" ELSE "wait",
                 kind |-> q.kind, by |-> q.by, tenant |-> q.tenant,
                 since |-> now - length, until |-> now, parts |-> <<>>, seen |-> <<>>]
  BY DEF Start
<1>3. q.kind \in kinds /\ now - length \in Int
  BY <1>1, ReportsAssumption DEF ReportsInv
<1>4. /\ job' = [pc |-> job'.pc, kind |-> job'.kind, by |-> job'.by, tenant |-> job'.tenant,
                 since |-> job'.since, until |-> job'.until, parts |-> job'.parts, seen |-> job'.seen]
      /\ job'.pc \in {"wait", "query"} /\ job'.parts = <<>> /\ job'.seen = <<>>
      /\ job'.kind = q.kind /\ job'.since = now - length /\ job'.until = now
  BY <1>2
<1>5. asked'.kind \in kinds /\ asked'.since \in Int /\ asked'.until \in Nat
  BY <1>1, <1>3, <1>4 DEF asked
<1>6. Report(job'.pc, asked', job'.parts, job'.seen, rows', begun')
  BY <1>4, <1>5 DEF Report
<1>7. JobOK'
  BY <1>4, <1>6 DEF JobOK
<1> QED BY <1>1, <1>7, ReportKeeps

LEMMA AcquireKeeps ==
  ASSUME ReportsInv, Acquire
  PROVE  ReportsInv'
<1>1. /\ UNCHANGED <<now, driver, h, rows, sessions>> /\ now \in Nat
      /\ job.pc = "wait" /\ job' = [job EXCEPT !.pc = "query"]
  BY DEF Acquire, ReportsInv
<1>2. /\ job = [pc |-> job.pc, kind |-> job.kind, by |-> job.by, tenant |-> job.tenant,
                since |-> job.since, until |-> job.until, parts |-> job.parts, seen |-> job.seen]
      /\ Report(job.pc, asked, job.parts, job.seen, rows, begun)
  BY <1>1 DEF ReportsInv, JobOK
<1>3. /\ job' = [pc |-> job'.pc, kind |-> job'.kind, by |-> job'.by, tenant |-> job'.tenant,
                 since |-> job'.since, until |-> job'.until, parts |-> job'.parts, seen |-> job'.seen]
      /\ job'.pc = "query" /\ job'.parts = job.parts /\ job'.seen = job.seen /\ asked' = asked
  BY <1>1, <1>2 DEF asked
<1>4. Report("query", asked, job.parts, job.seen, rows, begun)
  BY <1>1, <1>2 DEF Report
<1>5. begun' = begun
  BY <1>1 DEF begun
<1>6. JobOK'
  BY <1>1, <1>3, <1>4, <1>5 DEF JobOK
<1> QED BY <1>1, <1>6, ReportKeeps

LEMMA AnswerKeeps ==
  ASSUME ReportsInv, Answer
  PROVE  ReportsInv'
<1>1. /\ UNCHANGED <<now, driver, h, rows, sessions>> /\ now \in Nat /\ job.pc = "query"
  BY DEF Answer, AnswerThen, ReportsInv
<1>2. PICK result \in results(job) : advance(result)
  BY DEF Answer, AnswerThen
<1>3. Answered(asked, Len(job.parts) + 1, result, rows, rows, begun)
  BY <1>1, QueryHolds
<1>4. JobOK'
  BY <1>1, <1>2, <1>3, Advanced
<1> QED BY <1>1, <1>4, ReportKeeps

LEMMA FailKeeps ==
  ASSUME ReportsInv, Fail
  PROVE  ReportsInv'
<1>1. UNCHANGED <<now, driver, h, rows, sessions>> /\ now \in Nat /\ job' = [pc |-> "failed"]
  BY DEF Fail, ReportsInv
<1>2. JobOK'
  BY <1>1 DEF JobOK
<1> QED BY <1>1, <1>2, ReportKeeps

LEMMA FailIgnoredKeeps ==
  ASSUME ReportsInv, FailIgnored
  PROVE  ReportsInv'
<1>1. /\ UNCHANGED <<now, driver, h, rows, sessions>> /\ now \in Nat
      /\ job.pc \in {"wait", "query"} /\ Table(rows) /\ advance({})
  BY DEF FailIgnored, ReportsInv
<1>2. asked.kind = "status"
  BY DEF asked, FailIgnored
<1>3. Holds(asked, Len(job.parts) + 1, {}, rows)
  BY <1>2 DEF Holds
<1>4. Answered(asked, Len(job.parts) + 1, {}, rows, rows, begun)
  BY <1>1, <1>2, <1>3 DEF Answered
<1>5. JobOK'
  BY <1>1, <1>4, Advanced
<1> QED BY <1>1, <1>5, ReportKeeps

\* The durations are read by the second query, so that what is lost is not
\* taken for a histogram.
LEMMA ReadFailsKeeps ==
  ASSUME ReportsInv, ReadFails
  PROVE  ReportsInv'
<1>1. /\ UNCHANGED <<now, driver, h, rows, sessions>> /\ now \in Nat
      /\ job.pc \in {"wait", "query"} /\ Table(rows) /\ advance(NoStats)
  BY DEF ReadFails, ReportsInv
<1>2. asked.kind = "latency" /\ asked.driver = "sqlite" /\ job.parts # <<>>
  BY DEF asked, ReadFails
<1>3. Len(job.parts) + 1 # 1
  <2>1. Report(job.pc, asked, job.parts, job.seen, rows, begun)
    BY <1>1 DEF ReportsInv, JobOK
  <2>2. job.parts = <<job.parts[1]>> \/ job.parts = <<job.parts[1], job.parts[2]>>
    BY <1>2, <2>1 DEF Report
  <2> DEFINE x == job.parts[1]
             y == job.parts[2]
  <2>3. Len(<<x>>) = 1 /\ Len(<<x, y>>) = 2
    OBVIOUS
  <2> HIDE DEF x, y
  <2>4. job.parts = <<x>> \/ job.parts = <<x, y>>
    BY <2>2 DEF x, y
  <2>5. Len(job.parts) \in {1, 2}
    BY <2>3, <2>4
  <2> QED BY <2>5
<1>4. Holds(asked, Len(job.parts) + 1, NoStats, rows)
  BY <1>2, <1>3 DEF Holds
<1>5. Answered(asked, Len(job.parts) + 1, NoStats, rows, rows, begun)
  BY <1>1, <1>2, <1>4 DEF Answered
<1>6. JobOK'
  BY <1>1, <1>5, Advanced
<1> QED BY <1>1, <1>6, ReportKeeps

LEMMA InvNext == ReportsInv /\ [Next]_vars => ReportsInv'
<1> SUFFICES ASSUME ReportsInv, [Next]_vars PROVE ReportsInv'
  OBVIOUS
<1>1. ASSUME NEW q \in Requests, Forward(q) PROVE ReportsInv'
  BY <1>1, ForwardKeeps
<1>2. ASSUME NEW q \in Requests, Respond(q) PROVE ReportsInv'
  BY <1>2, RespondKeeps
<1>3. ASSUME NEW q \in Requests, Insert(q) PROVE ReportsInv'
  BY <1>3, InsertKeeps
<1>4. ASSUME NEW q \in Requests, Flush(q) PROVE ReportsInv'
  BY <1>4, FlushKeeps
<1>5. ASSUME UNCHANGED job, UNCHANGED <<driver, h, rows, sessions>>, now' \in Nat, now <= now'
      PROVE  ReportsInv'
  <2>1. JobOK /\ begun' = begun
    BY <1>5 DEF ReportsInv, begun
  <2>2. JobOK'
    BY <1>5, <2>1, JobKept
  <2> QED BY <1>5, <2>2, ReportKeeps
<1>6. CASE Tick
  <2>1. now' \in Nat /\ now <= now'
    BY <1>6 DEF Tick, ReportsInv
  <2> QED BY <1>5, <1>6, <2>1 DEF Tick
<1>7. CASE UNCHANGED vars
  <2>1. now' \in Nat /\ now <= now'
    BY <1>7 DEF vars, ReportsInv
  <2> QED BY <1>5, <1>7, <2>1 DEF vars
<1> QED BY <1>1, <1>2, <1>3, <1>4, <1>6, <1>7, StartKeeps, AcquireKeeps, AnswerKeeps,
          FailKeeps, FailIgnoredKeeps, ReadFailsKeeps DEF Next

\* What holds throughout: a forwarded request would be forwarded so by any
\* registry, a queued record is attributed, rows only come, and the results a
\* report has read (runServe's API, the dashboard, the commands) hold of the
\* table each was made of.
THEOREM ReportsInvariant == Spec => []ReportsInv
<1> QED BY InvInit, InvNext, PTL DEF Spec

\* Every record says the provider any restart would find, the price of the
\* longest known name of its model and the tenant whose key pays, and what no
\* provider serves is refused: Detect, Calculate and Resolve iterate Go maps.
THEOREM ReportsAttribution == Spec => []Attribution
<1> QED BY ReportsInvariant, InvAttribution, PTL

\* A finished report tells the truth about its window, whatever it groups by
\* and however records come in between its queries: the queries of both stores
\* and the handlers that make them.  (The latency report of SQLite is true or
\* lost as a whole.)
THEOREM ReportsAreTrue == Spec => []ReportsTrue
<1> QED BY ReportsInvariant, InvReports, PTL

-----------------------------------------------------------------------------

(***************************************************************************)
(* The stream interceptor.  For any events of the providers' formats, any  *)
(* framing and any number of events, what is accumulated between reads is  *)
(* what the complete events report.  If all events end in sep, the buffer  *)
(* is always the events after the first c, each w symbols long, short of   *)
(* what is still to come of the last (Framed): so the first terminator     *)
(* found is that of the first event, and none is found once every complete *)
(* event has been cut.                                                     *)
(*                                                                         *)
(* First, one event.                                                       *)

\* Parsing an event of the provider's format yields what it says.
LEMMA FormatParsed ==
  ASSUME NEW s \in Styles, NEW c, c.text \in Nat, inFormat(s, c),
         c.usage \in [prompt : Nat, completion : Nat, input : Nat, output : Nat]
  PROVE  ParseStreamChunk(s, c) = says(c)
<1>2. CASE s = "openai"
  <2>1. CASE c.type = "response.completed"
    <3>1. ParseStreamChunk(s, c) = openaiChunk(c)
      BY <1>2 DEF ParseStreamChunk
    <3>2. openaiChunk(c) = [model |-> c.model, input |-> c.usage.input, output |-> c.usage.output,
                            text |-> 0]
      BY <2>1 DEF openaiChunk, NoMeta
    <3>3. c.text = 0 /\ c.usage.prompt = 0 /\ c.usage.completion = 0
      BY <1>2, <2>1 DEF inFormat
    <3> QED BY <3>1, <3>2, <3>3 DEF says
  <2>2. CASE c.type # "response.completed"
    <3>1. ParseStreamChunk(s, c) = openaiChunk(c)
      BY <1>2 DEF ParseStreamChunk
    <3> QED BY <1>2, <2>2, <3>1 DEF openaiChunk, openaiUsage, override, says, inFormat
  <2> QED BY <2>1, <2>2
<1>3. CASE s = "anthropic"
  <2>1. ParseStreamChunk(s, c) = anthropicChunk(c)
    BY <1>3 DEF ParseStreamChunk
  <2>2. /\ c.usage.prompt = 0 /\ c.usage.completion = 0
        /\ c.model # NoModel \/ c.usage.input > 0 => c.event = "message_start"
        /\ c.text > 0 => c.event = "content_block_delta"
        /\ c.usage.output > 0 => c.event = "message_delta"
    BY <1>3 DEF inFormat
  <2>3. anthropicChunk(c) =
          [model  |-> IF c.event = "message_start" THEN c.model ELSE NoModel,
           input  |-> IF c.event = "message_start" THEN c.usage.input ELSE 0,
           output |-> IF c.event = "message_delta" THEN c.usage.output ELSE 0,
           text   |-> IF c.event = "content_block_delta" THEN c.text ELSE 0]
    BY DEF anthropicChunk, NoMeta, NoModel
  <2> QED BY <2>1, <2>2, <2>3 DEF says
<1>4. CASE s = "azure"
  <2>1. ParseStreamChunk(s, c) = azureChunk(c)
    BY <1>4 DEF ParseStreamChunk
  <2> QED BY <1>4, <2>1 DEF azureChunk, says, inFormat
<1>5. CASE s = "gemini"
  <2>1. ParseStreamChunk(s, c) = geminiChunk(c)
    BY <1>5 DEF ParseStreamChunk
  <2>2. CASE c.type = "bracket"
    <3>1. says(c) = says(Silent)
      BY <1>5, <2>2 DEF inFormat
    <3>2. says(Silent) = NoMeta
      BY DEF says, Silent, chunk, NoCounts, counts, NoMeta, NoModel
    <3> QED BY <2>1, <2>2, <3>1, <3>2 DEF geminiChunk
  <2>3. CASE c.type # "bracket"
    BY <1>5, <2>1, <2>3 DEF geminiChunk, azureChunk, says, inFormat
  <2> QED BY <2>2, <2>3
<1>6. CASE s = "cohere"
  <2>1. ParseStreamChunk(s, c) = cohereChunk(c)
    BY <1>6 DEF ParseStreamChunk
  <2>2. /\ c.model = NoModel /\ c.usage.prompt = 0 /\ c.usage.completion = 0
        /\ c.text > 0 => is(c, "content-delta")
        /\ c.usage.input > 0 \/ c.usage.output > 0 =>
             is(c, "message-end") /\ ~is(c, "content-delta")
    BY <1>6 DEF inFormat
  <2>3. cohereChunk(c) =
          [model  |-> NoModel,
           input  |-> IF is(c, "message-end") /\ ~is(c, "content-delta") THEN c.usage.input ELSE 0,
           output |-> IF is(c, "message-end") /\ ~is(c, "content-delta") THEN c.usage.output ELSE 0,
           text   |-> IF is(c, "content-delta") THEN c.text ELSE 0]
    BY DEF cohereChunk, NoMeta, NoModel
  <2> QED BY <2>1, <2>2, <2>3 DEF says
<1> QED BY <1>2, <1>3, <1>4, <1>5, <1>6 DEF Styles

LEMMA ParsedAsSaid ==
  ASSUME NEW s \in DOMAIN Events, NEW e \in Events[s]
  PROVE  ParseStreamChunk(s, e.chunk) = says(e.chunk)
BY StreamAssumption, FormatParsed

\* What an event says.
LEMMA SaysType ==
  ASSUME style \in DOMAIN Events, NEW e \in Events[style]
  PROVE  says(e.chunk) \in Usage
BY StreamAssumption DEF says, Usage, Models

\* Accumulating keeps the type, and what says nothing changes nothing.
LEMMA AccumulateType ==
  ASSUME NEW u \in Usage, NEW c \in Usage
  PROVE  accumulate(u, c) \in Usage
BY DEF accumulate, override, Usage, Models

LEMMA AccumulateSilent ==
  ASSUME NEW u \in Usage
  PROVE  accumulate(u, says(Silent)) = u
BY DEF accumulate, override, Usage, says, Silent, chunk, NoCounts, counts, NoModel

LEMMA NoMetaType == NoMeta \in Usage
BY DEF NoMeta, Usage, Models, NoModel

LEMMA SymbolsDiffer == lf # cr
<1>1. lf.kind = "n" /\ cr.kind = "r"
  BY DEF lf, cr, symbol
<1> QED BY <1>1

\* A terminator's symbols are no events.
LEMMA SymbolsApart ==
  ASSUME style \in DOMAIN Events, NEW e \in Events[style]
  PROVE  e # lf /\ e # cr /\ lf # cr
<1>1. lf.kind = "n" /\ cr.kind = "r"
  BY DEF lf, cr, symbol
<1>2. e.kind \in {"data", "other"}
  BY StreamAssumption
<1> QED BY <1>1, <1>2

\* An event cut from the buffer alone is accumulated as what it says.
LEMMA ParseOne ==
  ASSUME style \in DOMAIN Events, NEW e \in Events[style], NEW u \in Usage
  PROVE  parseSSEEvent(u, <<e>>) = accumulate(u, says(e.chunk))
<1> DEFINE payload == {i \in DOMAIN <<e>> : <<e>>[i].kind = "data"}
<1>1. DOMAIN <<e>> = {1} /\ <<e>>[1] = e
  OBVIOUS
<1>2. CASE e.kind = "data"
  <2>1. payload = {1}
    BY <1>1, <1>2
  <2>2. (CHOOSE i \in payload : TRUE) = 1
    BY <2>1
  <2>3. parseSSEEvent(u, <<e>>) = accumulate(u, ParseStreamChunk(style, e.chunk))
    BY <1>1, <2>1, <2>2 DEF parseSSEEvent
  <2> QED BY <2>3, ParsedAsSaid
<1>3. CASE e.kind # "data"
  <2>1. payload = {}
    BY <1>1, <1>3
  <2>2. parseSSEEvent(u, <<e>>) = u
    BY <2>1 DEF parseSSEEvent
  <2>3. e.chunk = Silent
    BY <1>3, StreamAssumption
  <2> QED BY <2>2, <2>3, AccumulateSilent
<1> QED BY <1>2, <1>3

\* Whatever is cut from the buffer, the usage keeps its type.
LEMMA ParseType ==
  ASSUME style \in DOMAIN Events, NEW event \in Seq(Symbols), NEW u \in Usage
  PROVE  parseSSEEvent(u, event) \in Usage
<1> DEFINE payload == {i \in DOMAIN event : event[i].kind = "data"}
<1>1. CASE \E i \in payload : payload = {i}
  <2> DEFINE j == CHOOSE i \in payload : TRUE
  <2>1. j \in DOMAIN event /\ event[j].kind = "data"
    BY <1>1
  <2>2. event[j] \in Symbols
    BY <2>1
  <2>3. event[j] \in Events[style]
    BY <2>1, <2>2 DEF Symbols, lf, cr, symbol
  <2>4. parseSSEEvent(u, event) = accumulate(u, ParseStreamChunk(style, event[j].chunk))
    BY <1>1 DEF parseSSEEvent
  <2> HIDE DEF j
  <2> QED BY <2>3, <2>4, ParsedAsSaid, SaysType, AccumulateType
<1>2. CASE ~ \E i \in payload : payload = {i}
  BY <1>2 DEF parseSSEEvent
<1> QED BY <1>1, <1>2

(***************************************************************************)
(* Types, and what has been recorded.                                      *)

\* What a record says of the usage it was made of.
RecordTrue(rec) ==
    /\ rec.input = usage.input
    /\ rec.estimated <=> (usage.output = 0 /\ usage.text > 0)
    /\ usage.output > 0 => rec.output = usage.output
    /\ rec.output \in {0, usage.output, usage.text}
    /\ usage.model # NoModel => rec.model = usage.model
    /\ \A order \in iterations :
          rec.cost = Calculate(order, rec.model, rec.input, rec.output)

\* finalize runs when reading is over, and makes one record; afterwards the
\* usage stays as it is.
Recorded ==
    /\ ~once => records = <<>>
    /\ once => /\ reader \in {"close", "done"}
               /\ Len(records) = 1 /\ RecordTrue(records[1])
    /\ reader = "done" => once

(***************************************************************************)
(* The buffer of a stream whose events all end in sep.                     *)

\* What the first k events report.
told(k) == IF k = 0 THEN NoMeta ELSE reported[k]

Told == \A k \in 1 .. Len(reported) :
           reported[k] = accumulate(told(k - 1), says(sent[k].lines.chunk))

\* The buffer holds the events after the first c, each w symbols long, except
\* for what is still to come of the last.
Layout(c, w, sep) ==
    /\ Len(parseBuf) = w * (Len(sent) - c) - Len(rest)
    /\ \A k \in 1 .. Len(sent) - c :
         /\ parseBuf[w * (k - 1) + 1] = sent[c + k].lines
         /\ \A t \in 1 .. w - 1 : w * (k - 1) + 1 + t <= Len(parseBuf) =>
               parseBuf[w * (k - 1) + 1 + t] = sep[t]

\* The first c events have been accumulated, all that are complete unless
\* something has been read that was not looked at yet.
Cut(c, w, sep) ==
    /\ usage = told(c)
    /\ Layout(c, w, sep)
    /\ reader \notin {"fill", "parse"} => c = Len(reported)

EndAlike(sep) == \A k \in 1 .. Len(sent) : sent[k].end = sep

Framed(w, sep) ==
    EndAlike(sep) =>
      /\ Len(rest) <= w - 1
      /\ \A t \in 1 .. Len(rest) : rest[t] = sep[w - 1 - Len(rest) + t]
      /\ \E c \in 0 .. Len(reported) : Cut(c, w, sep)

StreamInv == StreamTypeOK /\ Recorded /\ Told /\ Framed(3, LF) /\ Framed(5, CRLF)

(***************************************************************************)
(* The terminators of lines and events.                                    *)

LEMMA Terminators ==
  /\ LF \in Seq({lf, cr}) /\ Len(LF) = 2 /\ LF[1] = lf /\ LF[2] = lf
  /\ CRLF \in Seq({lf, cr}) /\ Len(CRLF) = 4
  /\ CRLF[1] = cr /\ CRLF[2] = lf /\ CRLF[3] = cr /\ CRLF[4] = lf
<1>1. LF \in Seq({lf, cr}) /\ CRLF \in Seq({lf, cr})
  BY DEF LF, CRLF
<1> QED BY <1>1 DEF LF, CRLF

\* Where a terminator is found.
LEMMA FoundAt ==
  ASSUME StreamTypeOK, NEW sep \in {LF, CRLF}, NEW i \in found(sep)
  PROVE  /\ i \in Nat \ {0} /\ i + Len(sep) - 1 <= Len(parseBuf)
         /\ \A t \in 1 .. Len(sep) : parseBuf[i + t - 1] = sep[t]
<1>1. Len(sep) \in {2, 4}
  BY Terminators
<1>2. parseBuf \in Seq(Symbols) /\ Len(parseBuf) \in Nat
  BY DEF StreamTypeOK
<1>3. i \in 1 .. Len(parseBuf) + 1 - Len(sep) /\ SubSeq(parseBuf, i, i + Len(sep) - 1) = sep
  BY DEF found
<1>4. i \in 1 .. Len(parseBuf) + 1 /\ i + Len(sep) - 1 \in i - 1 .. Len(parseBuf)
  BY <1>1, <1>2, <1>3
<1>5. \A k \in 1 .. (i + Len(sep) - 1) - i + 1 : sep[k] = parseBuf[i + k - 1]
  BY <1>2, <1>3, <1>4, Subsequence
<1> QED BY <1>1, <1>3, <1>4, <1>5

LEMMA FoundIf ==
  ASSUME StreamTypeOK, NEW sep \in {LF, CRLF}, NEW i \in Nat \ {0},
         i + Len(sep) - 1 <= Len(parseBuf),
         \A t \in 1 .. Len(sep) : parseBuf[i + t - 1] = sep[t]
  PROVE  i \in found(sep)
<1>1. Len(sep) \in {2, 4} /\ sep \in Seq({lf, cr})
  BY Terminators
<1>2. parseBuf \in Seq(Symbols) /\ Len(parseBuf) \in Nat
  BY DEF StreamTypeOK
<1>3. i \in 1 .. Len(parseBuf) + 1 /\ i + Len(sep) - 1 \in i - 1 .. Len(parseBuf)
  BY <1>1, <1>2
<1> DEFINE s == SubSeq(parseBuf, i, i + Len(sep) - 1)
<1>4. /\ s \in Seq(Symbols) /\ Len(s) = Len(sep)
      /\ \A k \in 1 .. Len(sep) : s[k] = sep[k]
  BY <1>1, <1>2, <1>3, Subsequence
<1>5. s = sep
  <2> HIDE DEF s
  <2>1. s \in Seq(Symbols \cup {lf, cr}) /\ sep \in Seq(Symbols \cup {lf, cr})
    BY <1>1, <1>4, SeqMonotonic
  <2> QED BY <1>4, <2>1, SeqEqual
<1> QED BY <1>1, <1>2, <1>5 DEF found

(***************************************************************************)
(* Types.                                                                  *)

\* What the stream reports is typed.
LEMMA LatestType ==
  ASSUME StreamTypeOK
  PROVE  latest \in Usage
<1>1. CASE reported = <<>>
  BY <1>1, NoMetaType DEF latest
<1>2. CASE reported # <<>>
  <2>1. reported \in Seq(Usage)
    BY DEF StreamTypeOK
  <2>2. Len(reported) \in 1 .. Len(reported)
    BY <1>2, <2>1, EmptySeq
  <2> QED BY <1>2, <2>1, <2>2, ElementOfSeq DEF latest
<1> QED BY <1>1, <1>2

\* The sequences the upstream extends.
LEMMA BeginTypes ==
  ASSUME StreamTypeOK, NEW e \in Events[style], NEW end \in Framings,
         rest = <<>>, sent' = Append(sent, [lines |-> e, end |-> end]),
         parseBuf' = Append(parseBuf, e), rest' = end, UNCHANGED <<style, reported>>
  PROVE  /\ sent' \in Seq([lines : Events[style], end : Framings])
         /\ Len(sent') = Len(sent) + 1
         /\ parseBuf' \in Seq(Symbols)
         /\ rest' \in Seq({lf, cr}) /\ Len(rest') \in {2, 4} /\ rest' # <<>>
         /\ Len(reported') = Len(sent') - 1
<1>1. [lines |-> e, end |-> end] \in [lines : Events[style], end : Framings] /\ e \in Symbols
  BY DEF Symbols
<1>2. sent \in Seq([lines : Events[style], end : Framings]) /\ parseBuf \in Seq(Symbols)
      /\ Len(reported) = Len(sent)
  BY DEF StreamTypeOK
<1>3. end \in {LF, CRLF}
  BY StreamAssumption
<1>4. end # <<>>
  <2>1. Len(end) # 0
    <3>1. CASE end = LF
      BY <3>1, Terminators
    <3>2. CASE end = CRLF
      BY <3>2, Terminators
    <3> QED BY <1>3, <3>1, <3>2
  <2>2. Len(<<>>) = 0
    OBVIOUS
  <2> QED BY <2>1, <2>2
<1>5. Len(sent) \in Nat
  BY <1>2
<1>6. sent' \in Seq([lines : Events[style], end : Framings]) /\ Len(sent') = Len(sent) + 1
  BY <1>1, <1>2, Appended
<1>7. parseBuf' \in Seq(Symbols)
  BY <1>1, <1>2, Appended
<1> QED BY <1>2, <1>3, <1>4, <1>5, <1>6, <1>7, Terminators

LEMMA ContinueTypes ==
  ASSUME StreamTypeOK, Continue, UNCHANGED style
  PROVE  /\ rest' \in Seq({lf, cr}) /\ Len(rest') = Len(rest) - 1
         /\ parseBuf' \in Seq(Symbols)
         /\ reported' \in Seq(Usage)
         /\ Len(reported') = Len(sent') - (IF rest' = <<>> THEN 0 ELSE 1)
         /\ rest' = <<>> =>
              /\ Len(reported') = Len(reported) + 1
              /\ \A k \in 1 .. Len(reported) : reported'[k] = reported[k]
              /\ reported'[Len(reported) + 1] =
                   accumulate(latest, says(sent[Len(sent)].lines.chunk))
         /\ rest' # <<>> => reported' = reported
<1>1. /\ Head(rest) \in {lf, cr} /\ Tail(rest) \in Seq({lf, cr})
      /\ Len(Tail(rest)) = Len(rest) - 1
  BY TailOf DEF StreamTypeOK, Continue
<1>2. parseBuf' \in Seq(Symbols)
  BY <1>1, Appended DEF StreamTypeOK, Continue, Symbols
<1>3. /\ reported \in Seq(Usage) /\ Len(reported) = Len(sent) - 1
      /\ sent \in Seq([lines : Events[style], end : Framings])
      /\ Len(reported) \in Nat /\ Len(sent) \in Nat
  BY DEF StreamTypeOK, Continue
<1>4. sent[Len(sent)].lines \in Events[style]
  <2>1. Len(sent) \in 1 .. Len(sent)
    BY <1>3
  <2>2. sent[Len(sent)] \in [lines : Events[style], end : Framings]
    BY <1>3, <2>1, ElementOfSeq
  <2> QED BY <2>2
<1>5. accumulate(latest, says(sent[Len(sent)].lines.chunk)) \in Usage
  BY <1>4, LatestType, SaysType, AccumulateType DEF StreamTypeOK
<1>6. CASE rest' = <<>>
  <2>1. reported' = Append(reported, accumulate(latest, says(sent[Len(sent)].lines.chunk)))
    BY <1>6 DEF Continue
  <2>2. /\ reported' \in Seq(Usage) /\ Len(reported') = Len(reported) + 1
        /\ \A k \in 1 .. Len(reported) : reported'[k] = reported[k]
        /\ reported'[Len(reported) + 1] = accumulate(latest, says(sent[Len(sent)].lines.chunk))
    BY <1>3, <1>5, <2>1, Appended
  <2>3. rest' = Tail(rest) /\ UNCHANGED sent
    BY DEF Continue
  <2>4. rest' \in Seq({lf, cr}) /\ Len(rest') = Len(rest) - 1
    BY <1>1, <2>3
  <2>5. Len(reported') = Len(sent') - (IF rest' = <<>> THEN 0 ELSE 1)
    BY <1>3, <1>6, <2>2, <2>3
  <2> QED BY <1>2, <1>6, <2>2, <2>4, <2>5, Zenon
<1>7. CASE rest' # <<>>
  <2>1. rest' = Tail(rest) /\ UNCHANGED sent
    BY DEF Continue
  <2>2. reported' = reported
    BY <1>7, <2>1 DEF Continue
  <2>3. reported' \in Seq(Usage) /\ Len(reported') = Len(sent') - 1
    BY <1>3, <2>1, <2>2
  <2>4. rest' \in Seq({lf, cr}) /\ Len(rest') = Len(rest) - 1
    BY <1>1, <2>1
  <2>5. Len(reported') = Len(sent') - (IF rest' = <<>> THEN 0 ELSE 1)
    BY <1>7, <2>3
  <2> QED BY <1>2, <1>7, <2>2, <2>3, <2>4, <2>5, Zenon
<1> QED BY <1>6, <1>7

\* An event is cut from the buffer and leaves a rest of it.
LEMMA CutTypes ==
  ASSUME StreamTypeOK, NEW sep \in {LF, CRLF}, cut(sep), UNCHANGED style
  PROVE  usage' \in Usage /\ parseBuf' \in Seq(Symbols)
<1>1. PICK idx \in firstOf(found(sep)) :
         cutAt(idx, SubSeq(parseBuf, idx + Len(sep), Len(parseBuf)))
  BY DEF cut
<1>2. idx \in found(sep)
  BY DEF firstOf
<1>3. idx \in Nat \ {0} /\ idx + Len(sep) - 1 <= Len(parseBuf)
  BY <1>2, FoundAt
<1>4. Len(sep) \in {2, 4} /\ parseBuf \in Seq(Symbols) /\ Len(parseBuf) \in Nat
  BY Terminators DEF StreamTypeOK
<1>5. SubSeq(parseBuf, 1, idx - 1) \in Seq(Symbols)
  <2>1. 1 \in 1 .. Len(parseBuf) + 1 /\ idx - 1 \in 1 - 1 .. Len(parseBuf)
    BY <1>3, <1>4
  <2> QED BY <1>4, <2>1, Subsequence
<1>6. SubSeq(parseBuf, idx + Len(sep), Len(parseBuf)) \in Seq(Symbols)
  <2>1. /\ idx + Len(sep) \in 1 .. Len(parseBuf) + 1
        /\ Len(parseBuf) \in (idx + Len(sep)) - 1 .. Len(parseBuf)
    BY <1>3, <1>4
  <2> QED BY <1>4, <2>1, Subsequence
<1>7. parseSSEEvent(usage, SubSeq(parseBuf, 1, idx - 1)) \in Usage
  BY <1>5, ParseType DEF StreamTypeOK
<1> QED BY <1>1, <1>6, <1>7 DEF cutAt, Usage, Models, Symbols

LEMMA StreamTypeStep ==
  ASSUME StreamTypeOK, [StreamNext]_streamVars
  PROVE  StreamTypeOK'
<1>0. style' = style /\ Symbols' = Symbols /\ Usage' = Usage
  <2>1. style' = style
    BY DEF StreamNext, Receive, Read, processEvent, ReadReturn, ReadEOF, Abort, StreamClose,
           streamVars
  <2> QED BY <2>1 DEF Symbols, Usage, Models
<1>1. CASE Receive /\ Begin
  <2>1. PICK e \in Events[style], end \in Framings :
           /\ sent' = Append(sent, [lines |-> e, end |-> end])
           /\ parseBuf' = Append(parseBuf, e) /\ rest' = end
    BY <1>1 DEF Begin
  <2>2. rest = <<>> /\ UNCHANGED reported
    BY <1>1 DEF Begin
  <2>3. /\ sent' \in Seq([lines : Events[style], end : Framings])
        /\ parseBuf' \in Seq(Symbols)
        /\ rest' \in Seq({lf, cr}) /\ Len(rest') \in {2, 4} /\ rest' # <<>>
        /\ Len(reported') = Len(sent') - 1
    BY <1>0, <2>1, <2>2, BeginTypes
  <2>4. reader' = "fill" /\ UNCHANGED <<style, usage, eof, once>>
    BY <1>1 DEF Receive
  <2>5. Len(reported') = Len(sent') - (IF rest' = <<>> THEN 0 ELSE 1)
    BY ONLY <2>3
  <2>7. Len(rest') <= 4
    <3>1. Len(rest') = 2 \/ Len(rest') = 4
      BY <2>3
    <3>2. CASE Len(rest') = 2
      BY <3>2
    <3>3. CASE Len(rest') = 4
      BY <3>3
    <3> QED BY <3>1, <3>2, <3>3
  <2>6. /\ style \in DOMAIN Events /\ reported \in Seq(Usage) /\ usage \in Usage
        /\ eof \in BOOLEAN /\ once \in BOOLEAN
    BY DEF StreamTypeOK
  <2> QED BY <1>0, <2>2, <2>3, <2>4, <2>5, <2>6, <2>7 DEF StreamTypeOK
<1>2. CASE Receive /\ Continue
  <2>1. /\ rest' \in Seq({lf, cr}) /\ Len(rest') = Len(rest) - 1
        /\ parseBuf' \in Seq(Symbols) /\ reported' \in Seq(Usage)
        /\ Len(reported') = Len(sent') - (IF rest' = <<>> THEN 0 ELSE 1)
    BY <1>0, <1>2, ContinueTypes
  <2>2. Len(rest') <= 4
    BY <2>1 DEF StreamTypeOK
  <2>3. reader' = "fill" /\ UNCHANGED <<style, usage, eof, once, sent>>
    BY <1>2 DEF Receive, Continue
  <2> QED BY <1>0, <2>1, <2>2, <2>3 DEF StreamTypeOK
<1>3. CASE Read
  BY <1>0, <1>3 DEF Read, wire, StreamTypeOK
<1>4. CASE processEvent
  <2>1. PICK sep \in {LF, CRLF} : cut(sep)
    BY <1>4 DEF processEvent
  <2>2. usage' \in Usage /\ parseBuf' \in Seq(Symbols)
    BY <1>0, <2>1, CutTypes
  <2> QED BY <1>0, <1>4, <2>2 DEF processEvent, wire, StreamTypeOK
<1>5. CASE ReadReturn
  BY <1>0, <1>5 DEF ReadReturn, finalize, wire, StreamTypeOK
<1>6. CASE ReadEOF
  BY <1>0, <1>6 DEF ReadEOF, finalize, wire, StreamTypeOK
<1>7. CASE Abort
  BY <1>0, <1>7 DEF Abort, wire, StreamTypeOK
<1>8. CASE StreamClose
  BY <1>0, <1>8 DEF StreamClose, finalize, wire, StreamTypeOK
<1>9. CASE UNCHANGED streamVars
  BY <1>0, <1>9 DEF streamVars, wire, StreamTypeOK
<1> QED BY <1>1, <1>2, <1>3, <1>4, <1>5, <1>6, <1>7, <1>8, <1>9 DEF StreamNext, Receive

(***************************************************************************)
(* What the events report.                                                 *)

LEMMA ToldStep ==
  ASSUME StreamTypeOK, Told, [StreamNext]_streamVars
  PROVE  Told'
<1>1. CASE Receive /\ Begin
  <2>1. PICK e \in Events[style], end \in Framings :
           /\ sent' = Append(sent, [lines |-> e, end |-> end])
           /\ rest = <<>> /\ reported' = reported
    BY <1>1 DEF Begin
  <2>2. /\ [lines |-> e, end |-> end] \in [lines : Events[style], end : Framings]
        /\ sent \in Seq([lines : Events[style], end : Framings])
        /\ Len(reported) = Len(sent)
    BY <2>1 DEF StreamTypeOK
  <2>3. \A k \in 1 .. Len(reported) : sent'[k] = sent[k]
    BY <2>1, <2>2, Appended
  <2> QED BY <2>1, <2>3 DEF Told, told
<1>2. CASE Receive /\ Continue
  <2>1. sent' = sent /\ style' = style
    BY <1>2 DEF Receive, Continue
  <2>2. CASE rest' # <<>>
    <3>1. reported' = reported
      BY <1>2, <2>1, <2>2, ContinueTypes
    <3> QED BY <2>1, <3>1 DEF Told, told
  <2>3. CASE rest' = <<>>
    <3>1. /\ Len(reported') = Len(reported) + 1
          /\ \A k \in 1 .. Len(reported) : reported'[k] = reported[k]
          /\ reported'[Len(reported) + 1] = accumulate(latest, says(sent[Len(sent)].lines.chunk))
      BY <1>2, <2>1, <2>3, ContinueTypes
    <3>2. Len(sent) = Len(reported) + 1 /\ Len(reported) \in Nat
      BY <1>2 DEF StreamTypeOK, Continue
    <3>3. latest = told(Len(reported))
      BY <3>2, EmptySeq DEF latest, told, StreamTypeOK
    <3>4. PICK n \in Nat : n = Len(reported)
      BY <3>2
    <3>5. ASSUME NEW k \in 0 .. n
          PROVE  told(k)' = told(k)
      BY <3>1, <3>4, <3>5 DEF told
    <3>6. ASSUME NEW k \in 1 .. n
          PROVE  reported'[k] = accumulate(told(k - 1)', says(sent'[k].lines.chunk))
      BY <2>1, <3>1, <3>4, <3>5, <3>6 DEF Told
    <3>7. reported'[n + 1] = accumulate(told(n)', says(sent'[n + 1].lines.chunk))
      BY <2>1, <3>1, <3>2, <3>3, <3>4, <3>5
    <3>8. Len(reported') = n + 1 /\ n + 1 - 1 = n
      BY <3>1, <3>4
    <3> QED BY <3>6, <3>7, <3>8 DEF Told
  <2> QED BY <2>2, <2>3
<1>3. CASE UNCHANGED wire
  BY <1>3 DEF wire, Told, told
<1> QED
  BY <1>1, <1>2, <1>3 DEF StreamNext, Receive, Read, processEvent, ReadReturn, ReadEOF, Abort,
                          StreamClose, streamVars

(***************************************************************************)
(* What is recorded.                                                       *)

\* The record made of the accumulated usage.
LEMMA RecordMade ==
  ASSUME StreamTypeOK, NEW loads \in BOOLEAN, NEW order \in iterations
  PROVE  RecordTrue(usageRecord(loads, order))
<1> DEFINE rec == usageRecord(loads, order)
           model == IF usage.model # NoModel THEN usage.model ELSE RequestModel(style, Asked)
           estimated == usage.output = 0 /\ usage.text > 0
           output == IF estimated THEN CountTokens(model, usage.text, loads) ELSE usage.output
<1>1. rec = [model |-> model, input |-> usage.input, output |-> output, estimated |-> estimated,
             cost |-> Calculate(order, model, usage.input, output)]
  BY DEF usageRecord
<1>2. usage.output \in Nat /\ usage.text \in Nat
  BY DEF StreamTypeOK, Usage
<1>3. /\ estimated => output \in {0, usage.text}
      /\ ~estimated => output = usage.output
  BY DEF CountTokens
<1> HIDE DEF output, model
<1>4. /\ rec.model = model /\ rec.input = usage.input /\ rec.output = output
      /\ rec.estimated = estimated /\ rec.cost = Calculate(order, model, usage.input, output)
  BY <1>1
<1>5. \A other \in iterations : rec.cost = Calculate(other, rec.model, rec.input, rec.output)
  BY <1>4, PriceUnordered
<1>6. usage.model # NoModel => rec.model = usage.model
  BY <1>4 DEF model
<1>7. /\ rec.output \in {0, usage.output, usage.text}
      /\ usage.output > 0 => rec.output = usage.output
  BY <1>2, <1>3, <1>4
<1> HIDE DEF rec
<1> QED BY <1>4, <1>5, <1>6, <1>7 DEF RecordTrue, rec

\* finalize records, unless it has.
LEMMA FinalizeStep ==
  ASSUME StreamTypeOK, Recorded, finalize, UNCHANGED <<style, usage>>,
         reader' \in {"close", "done"}
  PROVE  Recorded'
<1>1. once' = TRUE
  BY DEF finalize
<1>2. CASE once
  <2>1. records' = records
    BY <1>2 DEF finalize
  <2> QED BY <1>1, <1>2, <2>1 DEF Recorded, RecordTrue
<1>3. CASE ~once
  <2>1. PICK loads \in BOOLEAN, order \in iterations :
           records' = Append(records, usageRecord(loads, order))
    BY <1>3 DEF finalize
  <2>2. records = <<>>
    BY <1>3 DEF Recorded
  <2>3. records' = <<usageRecord(loads, order)>>
    BY <2>1, <2>2
  <2>4. Len(records') = 1 /\ records'[1] = usageRecord(loads, order)
    BY <2>3
  <2>5. RecordTrue(records'[1])
    BY <2>4, RecordMade
  <2>6. RecordTrue(records[1])'
    BY <2>5 DEF RecordTrue
  <2> QED BY <1>1, <2>4, <2>6 DEF Recorded
<1> QED BY <1>2, <1>3 DEF StreamTypeOK

LEMMA RecordedStep ==
  ASSUME StreamTypeOK, Recorded, [StreamNext]_streamVars
  PROVE  Recorded'
<1>1. CASE Receive
  BY <1>1 DEF Receive, Recorded
<1>2. CASE Read
  BY <1>2 DEF Read, Recorded
<1>3. CASE processEvent
  BY <1>3 DEF processEvent, Recorded
<1>4. CASE ReadReturn
  <2>1. CASE eof
    BY <1>4, <2>1, FinalizeStep DEF ReadReturn
  <2>2. CASE ~eof
    BY <1>4, <2>2 DEF ReadReturn, Recorded
  <2> QED BY <2>1, <2>2
<1>5. CASE ReadEOF
  BY <1>5, FinalizeStep DEF ReadEOF
<1>6. CASE Abort
  BY <1>6 DEF Abort, Recorded
<1>7. CASE StreamClose
  BY <1>7, FinalizeStep DEF StreamClose
<1>8. CASE UNCHANGED streamVars
  BY <1>8 DEF streamVars, Recorded, RecordTrue
<1> QED BY <1>1, <1>2, <1>3, <1>4, <1>5, <1>6, <1>7, <1>8 DEF StreamNext

(***************************************************************************)
(* Where the events lie in the buffer.                                     *)

\* An event with a terminator takes w symbols.
Paired(w, sep) == (w = 3 /\ sep = LF) \/ (w = 5 /\ sep = CRLF)

LEMMA PairedTypes ==
  ASSUME NEW w, NEW sep, Paired(w, sep)
  PROVE  /\ w \in {3, 5} /\ w \in Nat /\ sep \in {LF, CRLF} /\ Len(sep) = w - 1
         /\ sep \in Seq({lf, cr}) /\ (sep[1] = lf \/ sep[1] = cr)
<1>1. CASE w = 3 /\ sep = LF
  BY <1>1, Terminators
<1>2. CASE w = 5 /\ sep = CRLF
  BY <1>2, Terminators
<1> QED BY <1>1, <1>2 DEF Paired

LEMMA Multiples ==
  ASSUME NEW w \in {3, 5}, NEW m \in Nat
  PROVE  /\ w * m \in Nat /\ w * (m + 1) = w * m + w /\ w * 1 = w /\ w * 0 = 0
         /\ m > 0 => w * (m - 1) = w * m - w
         /\ m > 0 => w * m >= w
         /\ m > 1 => w * m >= w + w
         /\ \A k \in 1 .. m : w * (k - 1) \in Nat /\ w * (k - 1) + w <= w * m
<1>1. CASE w = 3
  BY <1>1
<1>2. CASE w = 5
  BY <1>2
<1> QED BY <1>1, <1>2

LEMMA SentTypes ==
  ASSUME StreamTypeOK
  PROVE  /\ sent \in Seq([lines : Events[style], end : Framings])
         /\ Len(sent) \in Nat /\ Len(rest) \in Nat /\ Len(reported) \in Nat
         /\ parseBuf \in Seq(Symbols) /\ Len(parseBuf) \in Nat
         /\ rest = <<>> => Len(rest) = 0 /\ Len(reported) = Len(sent)
         /\ rest # <<>> => Len(rest) > 0 /\ Len(reported) = Len(sent) - 1
         /\ \A k \in 1 .. Len(sent) : sent[k].lines \in Events[style] /\ sent[k].end \in Framings
<1>1. /\ sent \in Seq([lines : Events[style], end : Framings])
      /\ rest \in Seq({lf, cr}) /\ reported \in Seq(Usage) /\ parseBuf \in Seq(Symbols)
      /\ Len(reported) = Len(sent) - (IF rest = <<>> THEN 0 ELSE 1)
  BY DEF StreamTypeOK
<1>2. Len(sent) \in Nat /\ Len(rest) \in Nat /\ Len(reported) \in Nat /\ Len(parseBuf) \in Nat
  BY <1>1
<1>3. rest # <<>> => Len(rest) > 0
  BY <1>1, <1>2, EmptySeq
<1>4. rest = <<>> => Len(rest) = 0
  OBVIOUS
<1>5. ASSUME NEW k \in 1 .. Len(sent)
      PROVE  sent[k].lines \in Events[style] /\ sent[k].end \in Framings
  <2>1. sent[k] \in [lines : Events[style], end : Framings]
    BY <1>1, ElementOfSeq
  <2> QED BY <2>1
<1> QED BY <1>1, <1>2, <1>3, <1>4, <1>5

LEMMA LayoutBegin ==
  ASSUME StreamTypeOK, NEW w, NEW sep, Paired(w, sep), NEW c \in 0 .. Len(sent),
         Layout(c, w, sep), NEW e \in Events[style], NEW end \in Framings, rest = <<>>,
         sent' = Append(sent, [lines |-> e, end |-> end]),
         parseBuf' = Append(parseBuf, e), rest' = sep
  PROVE  Layout(c, w, sep)'
<1>1. w \in {3, 5} /\ w \in Nat /\ Len(sep) = w - 1
  BY PairedTypes
<1>2. PICK m \in Nat : m = Len(sent) - c
  <2>1. Len(sent) \in Nat
    BY SentTypes
  <2>2. Len(sent) - c \in Nat
    BY <2>1
  <2> QED BY <2>2
<1>3. /\ Len(sent') = Len(sent) + 1
      /\ \A k \in 1 .. Len(sent) : sent'[k] = sent[k]
      /\ sent'[Len(sent) + 1] = [lines |-> e, end |-> end]
  BY SentTypes, Appended
<1>4. /\ Len(parseBuf') = Len(parseBuf) + 1
      /\ \A j \in 1 .. Len(parseBuf) : parseBuf'[j] = parseBuf[j]
      /\ parseBuf'[Len(parseBuf) + 1] = e
  BY SentTypes, Appended DEF Symbols
<1>5. Len(parseBuf) = w * m /\ w * m \in Nat
  BY <1>1, <1>2, SentTypes, Multiples DEF Layout
<1>6. Len(sent') - c = m + 1
  BY <1>2, <1>3, SentTypes
<1>7. Len(parseBuf') = w * (Len(sent') - c) - Len(rest')
  BY <1>1, <1>4, <1>5, <1>6, Multiples
<1>8. ASSUME NEW k \in 1 .. m
      PROVE  /\ parseBuf'[w * (k - 1) + 1] = sent'[c + k].lines
             /\ \A t \in 1 .. w - 1 : parseBuf'[w * (k - 1) + 1 + t] = sep[t]
  <2>1. w * (k - 1) \in Nat /\ w * (k - 1) + w <= w * m
    BY <1>1, Multiples
  <2>2. PICK p \in Nat : p = w * (k - 1) /\ p + w <= Len(parseBuf)
    BY <1>5, <2>1
  <2>3. c + k \in 1 .. Len(sent) /\ k \in 1 .. Len(sent) - c
    BY <1>2, SentTypes
  <2>4. /\ parseBuf[p + 1] = sent[c + k].lines
        /\ \A t \in 1 .. w - 1 : p + 1 + t <= Len(parseBuf) => parseBuf[p + 1 + t] = sep[t]
    BY <2>2, <2>3 DEF Layout
  <2>5. p + 1 \in 1 .. Len(parseBuf) /\ \A t \in 1 .. w - 1 : p + 1 + t \in 1 .. Len(parseBuf)
    <3>1. Len(parseBuf) \in Nat /\ p + w <= Len(parseBuf)
      BY <2>2, SentTypes
    <3> QED BY <1>1, <3>1
  <2>6. /\ parseBuf'[p + 1] = sent'[c + k].lines
        /\ \A t \in 1 .. w - 1 : parseBuf'[p + 1 + t] = sep[t]
    BY <1>3, <1>4, <2>3, <2>4, <2>5
  <2> QED BY <2>2, <2>6
<1>9. ASSUME NEW k \in {m + 1}
      PROVE  /\ parseBuf'[w * (k - 1) + 1] = sent'[c + k].lines
             /\ \A t \in 1 .. w - 1 : ~(w * (k - 1) + 1 + t <= Len(parseBuf'))
  <2>1. k - 1 = m /\ c + k = Len(sent) + 1
    BY <1>2, SentTypes
  <2> QED BY <1>3, <1>4, <1>5, <2>1
<1>10. \A k \in 1 .. Len(sent') - c : k \in 1 .. m \/ k \in {m + 1}
  BY <1>6
<1>11. \A k \in 1 .. Len(sent') - c :
         /\ parseBuf'[w * (k - 1) + 1] = sent'[c + k].lines
         /\ \A t \in 1 .. w - 1 : w * (k - 1) + 1 + t <= Len(parseBuf') =>
               parseBuf'[w * (k - 1) + 1 + t] = sep[t]
  BY <1>8, <1>9, <1>10, Zenon
<1> QED BY <1>7, <1>11, Zenon DEF Layout

LEMMA LayoutContinue ==
  ASSUME StreamTypeOK, NEW w, NEW sep, Paired(w, sep), NEW c \in 0 .. Len(reported),
         Layout(c, w, sep), Continue, Len(rest) <= w - 1, rest[1] = sep[w - Len(rest)]
  PROVE  Layout(c, w, sep)'
<1>1. w \in {3, 5} /\ w \in Nat
  BY PairedTypes
<1>2. rest # <<>> /\ sent' = sent /\ rest' = Tail(rest) /\ parseBuf' = Append(parseBuf, Head(rest))
  BY DEF Continue
<1>3. PICK m \in Nat : m = Len(sent) - c /\ m > 0
  <2>1. Len(sent) \in Nat /\ Len(reported) \in Nat /\ Len(reported) = Len(sent) - 1
    BY <1>2, SentTypes
  <2>2. Len(sent) - c \in Nat /\ Len(sent) - c > 0
    BY <2>1
  <2> QED BY <2>2
<1>4. PICK l \in 1 .. w - 1 : l = Len(rest)
  BY <1>1, <1>2, SentTypes
<1>5. Head(rest) = sep[w - l] /\ Head(rest) \in Symbols /\ Len(rest') = l - 1
  BY <1>2, <1>4, TailOf DEF StreamTypeOK, Symbols
<1>6. PICK q \in Nat : q = w * (m - 1) /\ w * m = q + w
  BY <1>1, <1>3, Multiples
<1>7. Len(parseBuf) = q + w - l
  <2>1. Len(parseBuf) = w * (Len(sent) - c) - Len(rest)
    BY DEF Layout
  <2>2. Len(parseBuf) = (q + w) - l
    BY <1>3, <1>4, <1>6, <2>1, Zenon
  <2>3. (q + w) - l = q + w - l
    BY <1>1, <1>4, <1>6
  <2> QED BY <2>2, <2>3
<1>8. /\ Len(parseBuf') = Len(parseBuf) + 1
      /\ \A j \in 1 .. Len(parseBuf) : parseBuf'[j] = parseBuf[j]
      /\ parseBuf'[Len(parseBuf) + 1] = sep[w - l]
  BY <1>2, <1>5, SentTypes, Appended
<1>9. Len(parseBuf') = w * m - Len(rest')
  BY <1>1, <1>4, <1>5, <1>6, <1>7, <1>8
<1>10. ASSUME NEW k \in 1 .. m
       PROVE  /\ parseBuf'[w * (k - 1) + 1] = sent[c + k].lines
              /\ \A t \in 1 .. w - 1 : w * (k - 1) + 1 + t <= Len(parseBuf') =>
                    parseBuf'[w * (k - 1) + 1 + t] = sep[t]
  <2>1. PICK p \in Nat : p = w * (k - 1) /\ p <= q /\ (p = q \/ p + w <= q)
    <3>1. CASE k = m
      BY <1>6, <3>1
    <3>2. CASE k # m
      <4>1. m - 1 \in Nat /\ k \in 1 .. m - 1
        BY <3>2
      <4>2. w * (k - 1) \in Nat /\ w * (k - 1) + w <= w * (m - 1)
        BY <1>1, <4>1, Multiples
      <4> QED BY <1>1, <1>6, <4>2
    <3> QED BY <3>1, <3>2
  <2>2. k \in 1 .. Len(sent) - c
    BY <1>3
  <2>3. /\ parseBuf[p + 1] = sent[c + k].lines
        /\ \A t \in 1 .. w - 1 : p + 1 + t <= Len(parseBuf) => parseBuf[p + 1 + t] = sep[t]
    BY <2>1, <2>2 DEF Layout
  <2>4. p + 1 \in 1 .. Len(parseBuf)
    BY <1>1, <1>4, <1>7, <2>1
  <2>5. ASSUME NEW t \in 1 .. w - 1, p + 1 + t <= Len(parseBuf')
        PROVE  parseBuf'[p + 1 + t] = sep[t]
    <3>1. CASE p + 1 + t <= Len(parseBuf)
      <4>1. p + 1 + t \in 1 .. Len(parseBuf)
        BY <1>1, <1>4, <1>7, <3>1
      <4> QED BY <1>8, <2>3, <3>1, <4>1
    <3>2. CASE ~(p + 1 + t <= Len(parseBuf))
      <4>1. Len(parseBuf') = q + w - l + 1
        BY <1>7, <1>8
      <4>2. p + 1 + t <= q + w - l + 1 /\ ~(p + 1 + t <= q + w - l)
        BY <1>7, <2>5, <3>2, <4>1
      <4>3. t = w - l /\ p + 1 + t = q + w - l + 1
        BY <1>1, <1>4, <2>1, <4>2
      <4>4. p + 1 + t = Len(parseBuf) + 1
        BY <1>7, <4>3
      <4> QED BY <1>8, <4>3, <4>4, Zenon
    <3> QED BY <3>1, <3>2
  <2>6. parseBuf'[p + 1] = sent[c + k].lines
    BY <1>8, <2>3, <2>4
  <2> QED BY <2>1, <2>5, <2>6
<1> QED BY <1>2, <1>3, <1>9, <1>10 DEF Layout

LEMMA LayoutCut ==
  ASSUME StreamTypeOK, NEW w, NEW sep, Paired(w, sep), NEW c \in Nat, c < Len(sent),
         Layout(c, w, sep), Len(rest) <= w - 1, w <= Len(parseBuf),
         parseBuf' = SubSeq(parseBuf, w + 1, Len(parseBuf)), UNCHANGED <<sent, rest>>
  PROVE  Layout(c + 1, w, sep)'
<1>1. w \in {3, 5} /\ w \in Nat
  BY PairedTypes
<1>2. PICK m \in Nat : m = Len(sent) - c /\ m > 0
  <2>1. Len(sent) \in Nat
    BY SentTypes
  <2>2. Len(sent) - c \in Nat /\ Len(sent) - c > 0
    BY <2>1
  <2> QED BY <2>2
<1>3. PICK l \in 0 .. w - 1 : l = Len(rest)
  BY <1>1, SentTypes
<1>4. PICK q \in Nat : q = w * (m - 1) /\ w * m = q + w
  BY <1>1, <1>2, Multiples
<1>5. Len(parseBuf) = q + w - l
  <2>1. Len(parseBuf) = w * (Len(sent) - c) - Len(rest)
    BY DEF Layout
  <2>2. Len(parseBuf) = (q + w) - l
    BY <1>2, <1>3, <1>4, <2>1, Zenon
  <2>3. (q + w) - l = q + w - l
    BY <1>1, <1>3, <1>4
  <2> QED BY <2>2, <2>3
<1>6. /\ Len(parseBuf') = q - l
      /\ \A j \in 1 .. q - l : parseBuf'[j] = parseBuf[w + j]
  <2>1. w + 1 \in 1 .. Len(parseBuf) + 1 /\ Len(parseBuf) \in (w + 1) - 1 .. Len(parseBuf)
    <3>1. Len(parseBuf) \in Nat
      BY SentTypes
    <3> QED BY <1>1, <3>1
  <2>2. /\ Len(parseBuf') = Len(parseBuf) - (w + 1) + 1
        /\ \A j \in 1 .. Len(parseBuf) - (w + 1) + 1 : parseBuf'[j] = parseBuf[(w + 1) + j - 1]
    BY <2>1, SentTypes, Subsequence
  <2>3. Len(parseBuf) - (w + 1) + 1 = q - l
    BY <1>1, <1>3, <1>5
  <2>4. \A j \in 1 .. q - l : (w + 1) + j - 1 = w + j
    BY <1>1
  <2> QED BY <2>2, <2>3, <2>4
<1>7. ASSUME NEW k \in 1 .. m - 1
      PROVE  /\ parseBuf'[w * (k - 1) + 1] = sent[(c + 1) + k].lines
             /\ \A t \in 1 .. w - 1 : w * (k - 1) + 1 + t <= Len(parseBuf') =>
                   parseBuf'[w * (k - 1) + 1 + t] = sep[t]
  <2>1. PICK p \in Nat : p = w * (k - 1) /\ p + w <= q /\ w * ((k + 1) - 1) = p + w
    <3>1. m - 1 \in Nat /\ k - 1 \in Nat /\ (k - 1) + 1 = k /\ (k + 1) - 1 = k
      OBVIOUS
    <3>2. w * (k - 1) \in Nat /\ w * (k - 1) + w <= w * (m - 1)
      BY <1>1, <3>1, Multiples
    <3>3. w * k = w * (k - 1) + w
      BY <1>1, <3>1, Multiples
    <3> QED BY <1>4, <3>1, <3>2, <3>3
  <2>2. k + 1 \in 1 .. Len(sent) - c /\ c + (k + 1) = (c + 1) + k
    BY <1>2
  <2>3. /\ parseBuf[p + w + 1] = sent[(c + 1) + k].lines
        /\ \A t \in 1 .. w - 1 :
              p + w + 1 + t <= Len(parseBuf) => parseBuf[p + w + 1 + t] = sep[t]
    BY <2>1, <2>2 DEF Layout
  <2>4. p + 1 \in 1 .. q - l /\ w + (p + 1) = p + w + 1
    BY <1>1, <1>3, <2>1
  <2>5. ASSUME NEW t \in 1 .. w - 1, p + 1 + t <= Len(parseBuf')
        PROVE  parseBuf'[p + 1 + t] = sep[t]
    <3>1. p + 1 + t <= q - l
      BY <1>6, <2>5
    <3>2. /\ p + 1 + t \in 1 .. q - l /\ w + (p + 1 + t) = p + w + 1 + t
          /\ p + w + 1 + t <= q + w - l
      BY <1>1, <1>3, <3>1
    <3> QED BY <1>5, <1>6, <2>3, <3>2
  <2>6. parseBuf'[p + 1] = sent[(c + 1) + k].lines
    BY <1>6, <2>3, <2>4
  <2> QED BY <2>1, <2>5, <2>6
<1>8. Len(sent) - (c + 1) = m - 1
  <2>1. Len(sent) \in Nat
    BY SentTypes
  <2> QED BY <1>2, <2>1
<1>9. Len(parseBuf') = w * (m - 1) - Len(rest)
  BY <1>3, <1>4, <1>6
<1> QED BY <1>7, <1>8, <1>9 DEF Layout

(***************************************************************************)
(* Where a terminator is found in such a buffer.                           *)

\* What stands where: m events, each w symbols from the one before.
Placed(m, c, w, sep) ==
    /\ m = Len(sent) - c /\ Len(parseBuf) = w * m - Len(rest) /\ Len(parseBuf) <= w * m
    /\ \A k \in 1 .. m : \E p \in Nat :
         /\ p = w * (k - 1)
         /\ parseBuf[p + 1] \in Events[style] /\ parseBuf[p + 1] = sent[c + k].lines
         /\ \A t \in 1 .. w - 1 : p + 1 + t <= Len(parseBuf) => parseBuf[p + 1 + t] = sep[t]

LEMMA LayoutFacts ==
  ASSUME StreamTypeOK, NEW w, NEW sep, Paired(w, sep), NEW c \in 0 .. Len(reported),
         Layout(c, w, sep)
  PROVE  \E m \in Nat : Placed(m, c, w, sep)
<1>1. /\ Len(sent) \in Nat /\ Len(reported) \in Nat /\ Len(reported) <= Len(sent)
      /\ Len(rest) \in Nat /\ Len(sent) - c \in Nat
  <2>1. /\ Len(sent) \in Nat /\ Len(reported) \in Nat /\ Len(rest) \in Nat
        /\ Len(reported) = Len(sent) \/ Len(reported) = Len(sent) - 1
    BY SentTypes
  <2> QED BY <2>1
<1>2. PICK m \in Nat : m = Len(sent) - c
  BY <1>1
<1>3. Len(parseBuf) = w * m - Len(rest)
  BY <1>2, Zenon DEF Layout
<1>4. w * m \in Nat /\ \A k \in 1 .. m : w * (k - 1) \in Nat
  BY PairedTypes, Multiples
<1>5. Len(parseBuf) <= w * m
  BY <1>1, <1>3, <1>4
<1>6. \A k \in 1 .. m :
        /\ parseBuf[w * (k - 1) + 1] = sent[c + k].lines
        /\ \A t \in 1 .. w - 1 : w * (k - 1) + 1 + t <= Len(parseBuf) =>
              parseBuf[w * (k - 1) + 1 + t] = sep[t]
  BY <1>2, Zenon DEF Layout
<1>7. \A k \in 1 .. m : sent[c + k].lines \in Events[style]
  <2>1. \A k \in 1 .. m : c + k \in 1 .. Len(sent)
    BY <1>1, <1>2
  <2> QED BY <2>1, SentTypes
<1>8. ASSUME NEW k \in 1 .. m
      PROVE  \E p \in Nat :
               /\ p = w * (k - 1)
               /\ parseBuf[p + 1] \in Events[style] /\ parseBuf[p + 1] = sent[c + k].lines
               /\ \A t \in 1 .. w - 1 : p + 1 + t <= Len(parseBuf) =>
                     parseBuf[p + 1 + t] = sep[t]
  <2> w * (k - 1) \in Nat
    BY <1>4
  <2> WITNESS w * (k - 1) \in Nat
  <2> QED BY <1>4, <1>6, <1>7, Zenon
<1> QED BY <1>2, <1>3, <1>5, <1>8, Zenon DEF Placed

LEMMA Position ==
  ASSUME NEW w \in {3, 5}, NEW m \in Nat, NEW j \in Nat \ {0}, j <= w * m
  PROVE  \E k \in 1 .. m : \E t \in 0 .. w - 1 : j = w * (k - 1) + 1 + t
<1>1. CASE w = 3
  <2>1. (j - 1) \div 3 + 1 \in 1 .. m /\ (j - 1) % 3 \in 0 .. 2
    BY <1>1
  <2>2. j = 3 * ((j - 1) \div 3 + 1 - 1) + 1 + ((j - 1) % 3)
    OBVIOUS
  <2> QED BY <1>1, <2>1, <2>2
<1>2. CASE w = 5
  <2>1. (j - 1) \div 5 + 1 \in 1 .. m /\ (j - 1) % 5 \in 0 .. 4
    BY <1>2
  <2>2. j = 5 * ((j - 1) \div 5 + 1 - 1) + 1 + ((j - 1) % 5)
    OBVIOUS
  <2> QED BY <1>2, <2>1, <2>2
<1> QED BY <1>1, <1>2

\* The first complete event ends in the terminator ...
LEMMA CompleteFound ==
  ASSUME StreamTypeOK, NEW w, NEW sep, Paired(w, sep), NEW c \in 0 .. Len(reported),
         Layout(c, w, sep), Len(rest) <= w - 1, c < Len(reported)
  PROVE  /\ w <= Len(parseBuf) /\ 2 \in found(sep)
         /\ parseBuf[1] = sent[c + 1].lines /\ parseBuf[1] \in Events[style]
<1>1. w \in {3, 5} /\ w \in Nat /\ sep \in {LF, CRLF} /\ Len(sep) = w - 1
  BY PairedTypes
<1>11. PICK m \in Nat : Placed(m, c, w, sep)
  BY LayoutFacts
<1>2. m = Len(sent) - c /\ Len(parseBuf) = w * m - Len(rest)
  BY <1>11 DEF Placed
<1>3. Len(sent) \in Nat /\ Len(reported) \in Nat /\ Len(rest) \in Nat
  BY SentTypes
<1>4. m > 0
  BY <1>2, <1>3, SentTypes
<1>5. w <= Len(parseBuf)
  <2>1. PICK q \in Nat : q = w * m /\ q >= w /\ (m > 1 => q >= w + w)
    BY <1>1, <1>4, Multiples
  <2>2. CASE rest = <<>>
    <3>1. Len(rest) = 0
      BY <2>2, SentTypes
    <3> QED BY <1>1, <1>2, <2>1, <3>1
  <2>3. CASE rest # <<>>
    <3>1. Len(reported) = Len(sent) - 1
      BY <2>3, SentTypes
    <3>2. m > 1
      BY <1>2, <1>3, <3>1
    <3> QED BY <1>1, <1>2, <1>3, <2>1, <3>2
  <2> QED BY <2>2, <2>3
<1>6. 1 \in 1 .. m /\ w * (1 - 1) = 0
  BY <1>1, <1>4, Multiples
<1>7. /\ parseBuf[1] \in Events[style] /\ parseBuf[1] = sent[c + 1].lines
      /\ \A t \in 1 .. w - 1 : 1 + t <= Len(parseBuf) => parseBuf[1 + t] = sep[t]
  BY <1>11, <1>6 DEF Placed
<1>8. \A t \in 1 .. Len(sep) : parseBuf[2 + t - 1] = sep[t]
  <2>1. Len(parseBuf) \in Nat
    BY SentTypes
  <2>2. \A t \in 1 .. Len(sep) : t \in 1 .. w - 1 /\ 1 + t <= Len(parseBuf) /\ 2 + t - 1 = 1 + t
    BY <1>1, <1>5, <2>1
  <2> QED BY <1>7, <2>2
<1>9. 2 + Len(sep) - 1 <= Len(parseBuf)
  BY <1>1, <1>5
<1>10. 2 \in found(sep)
  <2>1. 2 \in Nat \ {0}
    OBVIOUS
  <2> QED BY <1>1, <1>8, <1>9, <2>1, FoundIf, Zenon
<1> QED BY <1>5, <1>7, <1>10

\* ... and nothing else is found.
LEMMA OnlyComplete ==
  ASSUME StreamTypeOK, NEW w, NEW sep, Paired(w, sep), NEW c \in 0 .. Len(reported),
         Layout(c, w, sep), Len(rest) <= w - 1, NEW i \in found(sep)
  PROVE  c < Len(reported) /\ i \in Nat /\ i >= 2
<1>1. /\ w \in {3, 5} /\ w \in Nat /\ sep \in {LF, CRLF} /\ Len(sep) = w - 1
      /\ sep[1] = lf \/ sep[1] = cr
  BY PairedTypes
<1>11. PICK m \in Nat : Placed(m, c, w, sep)
  BY LayoutFacts
<1>2. m = Len(sent) - c /\ Len(parseBuf) = w * m - Len(rest)
  BY <1>11 DEF Placed
<1>3. /\ Len(sent) \in Nat /\ Len(reported) \in Nat /\ Len(rest) \in Nat
      /\ Len(parseBuf) \in Nat
  BY SentTypes
<1>4. /\ i \in Nat \ {0} /\ i + Len(sep) - 1 <= Len(parseBuf)
      /\ parseBuf[i + 1 - 1] = sep[1]
  <2>1. 1 \in 1 .. Len(sep)
    BY <1>1
  <2> QED BY <1>1, <2>1, FoundAt
<1>5. m > 0
  <2>1. Len(parseBuf) > 0
    BY <1>1, <1>3, <1>4
  <2>2. CASE m = 0
    <3>1. w * m = 0
      BY <1>1, <2>2
    <3> QED BY <1>2, <1>3, <2>1, <3>1
  <2> QED BY <2>2
<1>6. i # 1
  <2>1. 1 \in 1 .. m /\ w * (1 - 1) = 0
    BY <1>1, <1>5, Multiples
  <2>2. parseBuf[1] \in Events[style]
    BY <1>11, <2>1 DEF Placed
  <2>3. parseBuf[1] # sep[1]
    BY <1>1, <2>2, SymbolsApart DEF StreamTypeOK
  <2>4. i = 1 => i + 1 - 1 = 1
    OBVIOUS
  <2> QED BY <1>4, <2>3, <2>4
<1>7. Len(parseBuf) >= w
  BY <1>1, <1>3, <1>4, <1>6
<1>8. c # Len(reported)
  <2> SUFFICES ASSUME c = Len(reported) PROVE FALSE
    OBVIOUS
  <2>1. rest # <<>> /\ m = 1
    BY <1>2, <1>3, <1>5, SentTypes
  <2>2. Len(rest) > 0
    BY <2>1, SentTypes
  <2>3. w * m = w
    BY <1>1, <2>1
  <2> QED BY <1>1, <1>2, <1>3, <1>7, <2>2, <2>3
<1> QED BY <1>3, <1>4, <1>6, <1>8

\* The other terminator is not found.
LEMMA OtherNotFound ==
  ASSUME StreamTypeOK, NEW w, NEW sep, Paired(w, sep), NEW c \in 0 .. Len(reported),
         Layout(c, w, sep), NEW other \in {LF, CRLF}, other # sep
  PROVE  found(other) = {}
<1> SUFFICES ASSUME NEW i \in found(other) PROVE FALSE
  OBVIOUS
<1>1. w \in {3, 5} /\ w \in Nat
  BY PairedTypes
<1>11. PICK m \in Nat : Placed(m, c, w, sep)
  BY LayoutFacts
<1>2. Len(parseBuf) <= w * m
  BY <1>11 DEF Placed
<1>3. Len(parseBuf) \in Nat /\ w * m \in Nat
  BY <1>1, SentTypes, Multiples
<1>4. /\ i \in Nat \ {0} /\ i + Len(other) - 1 <= Len(parseBuf)
      /\ \A t \in 1 .. Len(other) : parseBuf[i + t - 1] = other[t]
  BY FoundAt
<1>5. /\ i \in Nat /\ i + 1 \in 1 .. Len(parseBuf)
      /\ parseBuf[i] = other[1] /\ parseBuf[i + 1] = other[2]
  <2>1. CASE other = LF
    <3>1. Len(other) = 2 /\ i + 1 - 1 = i /\ i + 2 - 1 = i + 1 /\ 1 \in 1 .. 2 /\ 2 \in 1 .. 2
      BY <1>4, <2>1, Terminators
    <3> QED BY <1>3, <1>4, <3>1
  <2>2. CASE other = CRLF
    <3>1. Len(other) = 4 /\ i + 1 - 1 = i /\ i + 2 - 1 = i + 1 /\ 1 \in 1 .. 4 /\ 2 \in 1 .. 4
      BY <1>4, <2>2, Terminators
    <3> QED BY <1>3, <1>4, <3>1
  <2> QED BY <2>1, <2>2
<1>6. PICK k \in 1 .. m, t \in 0 .. w - 1 : i = w * (k - 1) + 1 + t
  <2>1. i <= w * m /\ i \in Nat \ {0}
    BY <1>2, <1>3, <1>4, <1>5
  <2> QED BY <1>1, <2>1, Position
<1>7. PICK p \in Nat :
        /\ p = w * (k - 1) /\ i = p + 1 + t
        /\ parseBuf[p + 1] \in Events[style]
        /\ \A d \in 1 .. w - 1 : p + 1 + d <= Len(parseBuf) => parseBuf[p + 1 + d] = sep[d]
  BY <1>11, <1>6 DEF Placed
<1>8. \A e \in Events[style] : e # lf /\ e # cr
  BY SymbolsApart DEF StreamTypeOK
<1>9. CASE t = 0
  <2>1. i = p + 1
    BY <1>7, <1>9
  <2>2. parseBuf[i] \in Events[style]
    BY <1>7, <2>1
  <2>3. other[1] = lf \/ other[1] = cr
    BY Terminators
  <2> QED BY <1>5, <1>8, <2>2, <2>3
<1>10. CASE t # 0
  <2>1. parseBuf[i] = sep[t] /\ t \in 1 .. w - 1
    <3>1. t \in 1 .. w - 1
      BY <1>1, <1>10
    <3>2. p + 1 + t <= Len(parseBuf)
      <4>1. p + 1 + t = i /\ i <= Len(parseBuf)
        BY <1>3, <1>5, <1>7
      <4> QED BY <4>1
    <3> QED BY <1>7, <3>1, <3>2
  <2>2. CASE w = 3 /\ sep = LF /\ other = CRLF
    <3>1. t = 1 \/ t = 2
      BY <2>1, <2>2
    <3>2. sep[t] = lf
      BY <2>2, <3>1, Terminators
    <3>3. other[1] = cr
      BY <2>2, Terminators
    <3> QED BY <1>5, <1>8, <2>1, <3>2, <3>3, SymbolsDiffer
  <2>3. CASE w = 5 /\ sep = CRLF /\ other = LF
    <3>1. t = 1 \/ t = 2 \/ t = 3 \/ t = 4
      BY <2>1, <2>3
    <3>2. parseBuf[i] = lf /\ parseBuf[i + 1] = lf
      BY <1>5, <2>3, Terminators
    <3>3. sep[1] = cr /\ sep[3] = cr
      BY <2>3, Terminators
    <3>4. t # 1 /\ t # 3
      BY <2>1, <3>2, <3>3, SymbolsDiffer
    <3>5. CASE t = 2
      <4>1. i + 1 = p + 1 + 3 /\ 3 \in 1 .. w - 1 /\ p + 1 + 3 <= Len(parseBuf)
        BY <1>3, <1>5, <1>7, <2>3, <3>5
      <4>2. parseBuf[i + 1] = sep[3]
        BY <1>7, <4>1
      <4> QED BY <3>2, <3>3, <4>2, SymbolsDiffer
    <3>6. CASE t = 4
      <4>1. PICK q \in Nat : q = w * m /\ i + 1 <= q
        BY <1>2, <1>3, <1>5
      <4>2. k # m
        BY <1>7, <2>3, <3>6, <4>1
      <4>3. k + 1 \in 1 .. m /\ w * ((k + 1) - 1) = p + 5
        BY <1>7, <2>3, <4>2
      <4>4. parseBuf[(p + 5) + 1] \in Events[style]
        BY <1>11, <4>3 DEF Placed
      <4>5. (p + 5) + 1 = i + 1
        BY <1>7, <3>6
      <4> QED BY <1>8, <3>2, <4>4, <4>5
    <3> QED BY <3>1, <3>4, <3>5, <3>6
  <2> QED BY <2>2, <2>3 DEF Paired
<1> QED BY <1>9, <1>10

(***************************************************************************)
(* Every step keeps the buffer framed.                                     *)

\* The upstream begins an event.
LEMMA FramedBegin ==
  ASSUME StreamTypeOK, NEW w, NEW sep, Paired(w, sep), Framed(w, sep), Receive, Begin
  PROVE  Framed(w, sep)'
<1> SUFFICES ASSUME EndAlike(sep)'
             PROVE  /\ Len(rest') <= w - 1
                    /\ \A t \in 1 .. Len(rest') : rest'[t] = sep[w - 1 - Len(rest') + t]
                    /\ \E c \in 0 .. Len(reported') : Cut(c, w, sep)'
  BY DEF Framed
<1>1. w \in {3, 5} /\ w \in Nat /\ Len(sep) = w - 1
  BY PairedTypes
<1>2. PICK e \in Events[style], end \in Framings :
         /\ sent' = Append(sent, [lines |-> e, end |-> end])
         /\ parseBuf' = Append(parseBuf, e) /\ rest' = end
  BY DEF Begin
<1>3. /\ rest = <<>> /\ UNCHANGED <<style, reported, usage>> /\ reader' = "fill"
      /\ reader \in {"read", "fill"}
  BY DEF Begin, Receive
<1>4. /\ Len(sent) \in Nat /\ Len(sent') = Len(sent) + 1
      /\ \A k \in 1 .. Len(sent) : sent'[k] = sent[k]
      /\ sent'[Len(sent) + 1] = [lines |-> e, end |-> end]
  BY <1>2, SentTypes, Appended
<1>5. EndAlike(sep) /\ end = sep
  <2>1. \A k \in 1 .. Len(sent) : sent[k].end = sep
    BY <1>4 DEF EndAlike
  <2>2. sent'[Len(sent) + 1].end = sep
    BY <1>4 DEF EndAlike
  <2> QED BY <1>4, <2>1, <2>2 DEF EndAlike
<1>6. PICK c \in 0 .. Len(reported) : Cut(c, w, sep)
  BY <1>5 DEF Framed
<1>7. c \in 0 .. Len(sent)
  BY <1>3, SentTypes
<1>8. Layout(c, w, sep)'
  BY <1>2, <1>3, <1>5, <1>6, <1>7, LayoutBegin DEF Cut
<1>9. told(c)' = told(c)
  BY <1>3 DEF told
<1>10. Cut(c, w, sep)'
  BY <1>3, <1>6, <1>8, <1>9 DEF Cut
<1>11. rest' = sep /\ Len(rest') = w - 1
  BY <1>1, <1>2, <1>5
<1>12. \A t \in 1 .. Len(rest') : w - 1 - Len(rest') + t = t
  BY <1>1, <1>11
<1>13. \A t \in 1 .. Len(rest') : rest'[t] = sep[w - 1 - Len(rest') + t]
  BY <1>11, <1>12, Zenon
<1>14. Len(rest') <= w - 1
  BY <1>1, <1>11
<1>15. \E d \in 0 .. Len(reported') : Cut(d, w, sep)'
  BY <1>3, <1>10
<1> QED BY <1>13, <1>14, <1>15

\* The upstream sends a byte of a terminator.
LEMMA FramedContinue ==
  ASSUME StreamTypeOK, NEW w, NEW sep, Paired(w, sep), Framed(w, sep), Receive, Continue
  PROVE  Framed(w, sep)'
<1> SUFFICES ASSUME EndAlike(sep)'
             PROVE  /\ Len(rest') <= w - 1
                    /\ \A t \in 1 .. Len(rest') : rest'[t] = sep[w - 1 - Len(rest') + t]
                    /\ \E c \in 0 .. Len(reported') : Cut(c, w, sep)'
  BY DEF Framed
<1>1. w \in {3, 5} /\ w \in Nat
  BY PairedTypes
<1>2. /\ rest # <<>> /\ UNCHANGED <<style, sent, usage>> /\ reader' = "fill" /\ rest' = Tail(rest)
  BY DEF Continue, Receive
<1>3. EndAlike(sep)
  BY <1>2 DEF EndAlike
<1>4. /\ Len(rest) <= w - 1
      /\ \A t \in 1 .. Len(rest) : rest[t] = sep[w - 1 - Len(rest) + t]
  BY <1>3 DEF Framed
<1>5. PICK c \in 0 .. Len(reported) : Cut(c, w, sep)
  BY <1>3 DEF Framed
<1>6. PICK l \in 1 .. w - 1 : l = Len(rest)
  BY <1>1, <1>2, <1>4, SentTypes
<1>7. rest[1] = sep[w - Len(rest)]
  <2>1. 1 \in 1 .. Len(rest) /\ w - 1 - Len(rest) + 1 = w - Len(rest)
    BY <1>1, <1>6
  <2> QED BY <1>4, <2>1
<1>8. Layout(c, w, sep)'
  BY <1>4, <1>5, <1>7, LayoutContinue DEF Cut
<1>9. /\ Len(reported) \in Nat /\ Len(reported') \in Nat /\ Len(reported) <= Len(reported')
      /\ \A k \in 1 .. Len(reported) : reported'[k] = reported[k]
  <2>1. Len(reported) \in Nat
    BY SentTypes
  <2>2. CASE rest' = <<>>
    <3>1. /\ Len(reported') = Len(reported) + 1
          /\ \A k \in 1 .. Len(reported) : reported'[k] = reported[k]
      BY <1>2, <2>2, ContinueTypes
    <3> QED BY <2>1, <3>1
  <2>3. CASE rest' # <<>>
    <3>1. reported' = reported
      BY <1>2, <2>3, ContinueTypes
    <3> QED BY <2>1, <3>1
  <2> QED BY <2>2, <2>3
<1>10. told(c)' = told(c)
  BY <1>9 DEF told
<1>11. Cut(c, w, sep)' /\ c \in 0 .. Len(reported')
  BY <1>2, <1>5, <1>8, <1>9, <1>10 DEF Cut
<1>12. Len(rest') = l - 1 /\ \A t \in 1 .. l - 1 : rest'[t] = rest[t + 1]
  BY <1>2, <1>6, TailOf DEF StreamTypeOK
<1>13. \A t \in 1 .. l - 1 : t + 1 \in 1 .. l /\ w - 1 - l + (t + 1) = w - 1 - (l - 1) + t
  BY <1>1
<1>14. \A t \in 1 .. Len(rest') : rest'[t] = sep[w - 1 - Len(rest') + t]
  BY <1>4, <1>6, <1>12, <1>13
<1>15. Len(rest') <= w - 1
  BY <1>1, <1>6, <1>12
<1>16. \E d \in 0 .. Len(reported') : Cut(d, w, sep)'
  BY <1>11
<1> QED BY <1>14, <1>15, <1>16

\* An event is cut from the buffer: it is the first that was complete.
LEMMA FramedCut ==
  ASSUME StreamTypeOK, Told, NEW w, NEW sep, Paired(w, sep), Framed(w, sep), processEvent
  PROVE  Framed(w, sep)'
<1>0. UNCHANGED <<style, sent, rest, reported, reader>> /\ reader = "parse"
  BY DEF processEvent, wire
<1> SUFFICES ASSUME EndAlike(sep)
             PROVE  \E c \in 0 .. Len(reported) : Cut(c, w, sep)'
  BY <1>0 DEF Framed, EndAlike
<1>1. w \in {3, 5} /\ w \in Nat /\ sep \in {LF, CRLF} /\ Len(sep) = w - 1
  BY PairedTypes
<1>2. Len(rest) <= w - 1
  BY DEF Framed
<1>3. PICK c \in 0 .. Len(reported) : Cut(c, w, sep)
  BY DEF Framed
<1>4. Layout(c, w, sep)
  BY <1>3 DEF Cut
<1>5. cut(sep)
  <2>1. \A other \in {LF, CRLF} : other # sep => found(other) = {}
    BY <1>4, OtherNotFound
  <2>2. \A other \in {LF, CRLF} : cut(other) => found(other) # {}
    BY DEF cut, firstOf
  <2> QED BY <2>1, <2>2 DEF processEvent
<1>6. PICK idx \in firstOf(found(sep)) :
         cutAt(idx, SubSeq(parseBuf, idx + Len(sep), Len(parseBuf)))
  BY <1>5 DEF cut
<1>7. idx \in found(sep) /\ \A j \in found(sep) : idx <= j
  BY <1>6 DEF firstOf
<1>8. c < Len(reported) /\ idx \in Nat /\ idx >= 2
  BY <1>2, <1>4, <1>7, OnlyComplete
<1>9. /\ w <= Len(parseBuf) /\ 2 \in found(sep)
      /\ parseBuf[1] = sent[c + 1].lines /\ parseBuf[1] \in Events[style]
  BY <1>2, <1>4, <1>8, CompleteFound
<1>10. idx = 2 /\ idx - 1 = 1 /\ idx + Len(sep) = w + 1
  <2>1. idx <= 2
    BY <1>7, <1>9
  <2>2. idx = 2
    BY <1>8, <2>1
  <2> QED BY <1>1, <2>2
<1>11. SubSeq(parseBuf, 1, 1) = <<parseBuf[1]>>
  <2>1. parseBuf \in Seq(Symbols) /\ Len(parseBuf) \in Nat
    BY SentTypes
  <2>2. 1 \in 1 .. Len(parseBuf) + 1 /\ 1 \in 1 - 1 .. Len(parseBuf) /\ 1 - 1 + 1 = 1
    BY <1>1, <1>9, <2>1
  <2>3. /\ SubSeq(parseBuf, 1, 1) \in Seq(Symbols) /\ Len(SubSeq(parseBuf, 1, 1)) = 1
        /\ SubSeq(parseBuf, 1, 1)[1] = parseBuf[1]
    <3>1. /\ SubSeq(parseBuf, 1, 1) \in Seq(Symbols)
          /\ Len(SubSeq(parseBuf, 1, 1)) = 1 - 1 + 1
          /\ \A k \in 1 .. 1 - 1 + 1 : SubSeq(parseBuf, 1, 1)[k] = parseBuf[1 + k - 1]
      BY <2>1, <2>2, Subsequence
    <3>2. 1 \in 1 .. 1 - 1 + 1 /\ 1 + 1 - 1 = 1
      OBVIOUS
    <3> QED BY <3>1, <3>2
  <2>4. parseBuf[1] \in Symbols
    BY <1>9 DEF Symbols
  <2>5. /\ <<parseBuf[1]>> \in Seq(Symbols) /\ Len(<<parseBuf[1]>>) = 1
        /\ <<parseBuf[1]>>[1] = parseBuf[1]
    BY <2>4
  <2>6. \A i \in 1 .. 1 : i = 1
    OBVIOUS
  <2> HIDE DEF Symbols
  <2> QED BY <2>3, <2>5, <2>6, SeqEqual
<1>12. usage' = accumulate(usage, says(sent[c + 1].lines.chunk))
  <2>1. usage' = parseSSEEvent(usage, <<parseBuf[1]>>)
    BY <1>6, <1>10, <1>11 DEF cutAt
  <2> QED BY <1>9, <2>1, ParseOne DEF StreamTypeOK
<1>13. Len(reported) \in Nat /\ Len(sent) \in Nat /\ Len(reported) <= Len(sent)
  <2>1. /\ Len(sent) \in Nat /\ Len(reported) \in Nat
        /\ Len(reported) = Len(sent) \/ Len(reported) = Len(sent) - 1
    BY SentTypes
  <2> QED BY <2>1
<1>14. PICK d \in 1 .. Len(reported) : d = c + 1 /\ d - 1 = c
  <2>1. c + 1 \in 1 .. Len(reported) /\ (c + 1) - 1 = c
    BY <1>8, <1>13
  <2> QED BY <2>1
<1>15. usage' = told(d)'
  <2>1. reported[d] = accumulate(told(c), says(sent[d].lines.chunk))
    BY <1>14 DEF Told
  <2>2. usage = told(c)
    BY <1>3 DEF Cut
  <2>3. told(d)' = reported[d]
    BY <1>0, <1>14 DEF told
  <2> QED BY <1>12, <1>14, <2>1, <2>2, <2>3
<1>16. Layout(d, w, sep)'
  <2>1. parseBuf' = SubSeq(parseBuf, w + 1, Len(parseBuf))
    BY <1>6, <1>10 DEF cutAt
  <2>2. c \in Nat /\ c < Len(sent)
    BY <1>8, <1>13
  <2>3. Layout(c + 1, w, sep)'
    BY <1>0, <1>2, <1>4, <1>9, <2>1, <2>2, LayoutCut
  <2> QED BY <1>14, <2>3
<1>17. Cut(d, w, sep)'
  BY <1>0, <1>15, <1>16 DEF Cut
<1> QED BY <1>14, <1>17, <1>13

\* Nothing is left to cut: every complete event has been accumulated.
LEMMA FramedReturn ==
  ASSUME StreamTypeOK, NEW w, NEW sep, Paired(w, sep), Framed(w, sep), ReadReturn
  PROVE  Framed(w, sep)'
<1>0. /\ UNCHANGED <<style, sent, rest, reported, parseBuf, usage>>
      /\ found(LF) = {} /\ found(CRLF) = {}
  BY DEF ReadReturn, wire
<1> SUFFICES ASSUME EndAlike(sep)
             PROVE  \E c \in 0 .. Len(reported) : Cut(c, w, sep)'
  BY <1>0 DEF Framed, EndAlike
<1>1. sep \in {LF, CRLF} /\ Len(rest) <= w - 1
  BY PairedTypes DEF Framed
<1>2. PICK c \in 0 .. Len(reported) : Cut(c, w, sep)
  BY DEF Framed
<1>3. ~(c < Len(reported))
  BY <1>0, <1>1, <1>2, CompleteFound DEF Cut
<1>4. c = Len(reported)
  BY <1>3, SentTypes
<1>5. Layout(c, w, sep)' /\ told(c)' = told(c)
  BY <1>0, <1>2 DEF Cut, Layout, told
<1> QED BY <1>0, <1>2, <1>4, <1>5 DEF Cut

LEMMA FramedStep ==
  ASSUME StreamTypeOK, Told, NEW w, NEW sep, Paired(w, sep), Framed(w, sep),
         [StreamNext]_streamVars
  PROVE  Framed(w, sep)'
<1>1. CASE Receive
  BY <1>1, FramedBegin, FramedContinue DEF Receive
<1>2. CASE processEvent
  BY <1>2, FramedCut
<1>3. CASE ReadReturn
  BY <1>3, FramedReturn
<1>4. CASE UNCHANGED <<sent, rest, reported, parseBuf, usage>>
           /\ (reader' \notin {"fill", "parse"} => reader \notin {"fill", "parse"})
  BY <1>4 DEF Framed, EndAlike, Cut, Layout, told
<1> QED BY <1>1, <1>2, <1>3, <1>4 DEF StreamNext, Read, ReadEOF, Abort, StreamClose, streamVars, wire

(***************************************************************************)
(* The theorems.                                                           *)

LEMMA FramedInit ==
  ASSUME StreamInit, NEW w, NEW sep, Paired(w, sep)
  PROVE  Framed(w, sep)
<1>1. /\ Len(sent) = 0 /\ Len(rest) = 0 /\ Len(reported) = 0 /\ Len(parseBuf) = 0
      /\ usage = NoMeta
  BY DEF StreamInit
<1>2. w \in {3, 5} /\ w \in Nat /\ w * 0 = 0
  BY PairedTypes, Multiples
<1>3. Layout(0, w, sep)
  BY <1>1, <1>2 DEF Layout
<1>4. 0 \in 0 .. Len(reported) /\ Cut(0, w, sep)
  BY <1>1, <1>3 DEF Cut, told
<1> QED BY <1>1, <1>2, <1>4 DEF Framed

LEMMA PairsExist == Paired(3, LF) /\ Paired(5, CRLF)
BY DEF Paired

LEMMA StreamInvInit == StreamInit => StreamInv
<1> SUFFICES ASSUME StreamInit PROVE StreamInv
  OBVIOUS
<1>1. StreamTypeOK
  <2>1. NoMeta \in Usage
    BY NoMetaType
  <2>2. \A S : <<>> \in Seq(S)
    OBVIOUS
  <2>3. Len(<<>>) = 0
    OBVIOUS
  <2>4. sent \in Seq([lines : Events[style], end : Framings]) /\ parseBuf \in Seq(Symbols)
        /\ reported \in Seq(Usage) /\ rest \in Seq({lf, cr})
    BY <2>2 DEF StreamInit
  <2>5. Len(rest) <= 4 /\ Len(reported) = Len(sent) - (IF rest = <<>> THEN 0 ELSE 1)
    BY <2>3 DEF StreamInit
  <2> QED BY <2>1, <2>4, <2>5 DEF StreamInit, StreamTypeOK
<1>2. Recorded
  BY DEF StreamInit, Recorded
<1>3. Told
  BY DEF StreamInit, Told
<1> QED BY <1>1, <1>2, <1>3, FramedInit, PairsExist DEF StreamInv

LEMMA StreamInvNext == StreamInv /\ [StreamNext]_streamVars => StreamInv'
<1> SUFFICES ASSUME StreamInv, [StreamNext]_streamVars PROVE StreamInv'
  OBVIOUS
<1>1. StreamTypeOK /\ Recorded /\ Told /\ Framed(3, LF) /\ Framed(5, CRLF)
  BY DEF StreamInv
<1>2. StreamTypeOK'
  BY <1>1, StreamTypeStep
<1>3. Recorded'
  BY <1>1, RecordedStep
<1>4. Told'
  BY <1>1, ToldStep
<1>5. Framed(3, LF)' /\ Framed(5, CRLF)'
  BY <1>1, PairsExist, FramedStep
<1> QED BY <1>2, <1>3, <1>4, <1>5 DEF StreamInv

\* A stream whose events end alike ends them all in one of the terminators.
LEMMA OneTerminator ==
  ASSUME StreamTypeOK, uniform
  PROVE  EndAlike(LF) \/ EndAlike(CRLF)
<1>1. Len(sent) \in Nat /\ \A k \in 1 .. Len(sent) : sent[k].end \in Framings
  BY SentTypes
<1>2. CASE Len(sent) = 0
  BY <1>2 DEF EndAlike
<1>3. CASE Len(sent) # 0
  <2>1. 1 \in 1 .. Len(sent)
    BY <1>1, <1>3
  <2>2. sent[1].end \in {LF, CRLF}
    BY <1>1, <2>1, StreamAssumption
  <2>3. \A k \in 1 .. Len(sent) : sent[k].end = sent[1].end
    BY <2>1 DEF uniform
  <2> QED BY <2>2, <2>3 DEF EndAlike
<1> QED BY <1>2, <1>3

\* Once the bytes of the last read have been looked at, the usage is what the
\* complete events report.
LEMMA UsageLatest ==
  ASSUME StreamInv, uniform, reader \notin {"fill", "parse"}
  PROVE  usage = latest
<1>1. StreamTypeOK /\ Framed(3, LF) /\ Framed(5, CRLF)
  BY DEF StreamInv
<1>2. usage = told(Len(reported))
  <2>1. CASE EndAlike(LF)
    BY <1>1, <2>1 DEF Framed, Cut
  <2>2. CASE EndAlike(CRLF)
    BY <1>1, <2>2 DEF Framed, Cut
  <2> QED BY <1>1, <2>1, <2>2, OneTerminator
<1>3. told(Len(reported)) = latest
  BY <1>1, EmptySeq DEF told, latest, StreamTypeOK
<1> QED BY <1>2, <1>3

\* However the upstream's bytes are split into reads, the usage accumulated
\* between two reads is what the complete events report: processEvents cuts
\* at the terminators, wherever a read ended.
THEOREM StreamChunkingInvisible == StreamSpec => []ChunkingInvisible
<1>1. StreamInv => ChunkingInvisible
  BY UsageLatest DEF ChunkingInvisible
<1> QED BY <1>1, StreamInvInit, StreamInvNext, PTL DEF StreamSpec

\* Every stream that has ended is recorded once, with what its events report
\* and at the price of the tokens recorded, in whatever order the pricing
\* table was iterated: finalize runs at io.EOF or in Close, once.
THEOREM StreamRecordedOnce == StreamSpec => []RecordedOnce
<1>1. StreamInv => RecordedOnce
  <2> SUFFICES ASSUME StreamInv PROVE RecordedOnce
    OBVIOUS
  <2>1. StreamTypeOK /\ Recorded
    BY DEF StreamInv
  <2>2. ASSUME reader = "done"
        PROVE  Len(records) = 1 /\ RecordTrue(records[1])
    BY <2>1, <2>2 DEF Recorded
  <2>3. ASSUME reader = "done", uniform
        PROVE  usage = latest
    BY <2>3, UsageLatest
  <2> QED BY <2>1, <2>2, <2>3 DEF RecordedOnce, RecordTrue
<1> QED BY <1>1, StreamInvInit, StreamInvNext, PTL DEF StreamSpec
=============================================================================
