----------------------------- MODULE SinkProofs -----------------------------
(***************************************************************************)
(* What is proved of Sink: what its recursive definitions compute, for     *)
(* every list of events, and what each of its steps does to Conserved and  *)
(* to the size.  ServiceProofs puts the steps together.                    *)
(***************************************************************************)
EXTENDS Sink, SequenceTheorems, WellFoundedInduction, FiniteSetTheorems, TLAPS

-----------------------------------------------------------------------------
(* Induction *)

(* A set of numbers has a least element; so what holds of 0 and of the     *)
(* successor of a number it holds of, holds of every number.  Sets stand   *)
(* for the predicates: the provers do not instantiate operators.           *)
LEMMA Least ==
  ASSUME NEW T \in SUBSET Nat, T # {}
  PROVE  \E m \in T : \A k \in T : m <= k
<1> DEFINE R == OpToRel(<, Nat)
<1>1. IsWellFoundedOn(R, Nat)
  BY NatLessThanWellFounded
<1> HIDE DEF R
<1>2. PICK x \in T : \A y \in T : ~(<<y, x>> \in R)
  BY <1>1, WFMin
<1>3. \A y \in T : ~(y < x)
  BY <1>2 DEF R, OpToRel
<1> QED BY <1>3

LEMMA Induction ==
  ASSUME NEW G \in SUBSET Nat, 0 \in G, \A n \in Nat : n \in G => n + 1 \in G
  PROVE  G = Nat
<1> DEFINE T == Nat \ G
<1>1. ASSUME T # {} PROVE FALSE
  <2>1. PICK m \in T : \A k \in T : m <= k
    BY <1>1, Least
  <2>2. m # 0 /\ m - 1 \in Nat /\ m - 1 \notin T
    BY <2>1
  <2> QED BY <2>1, <2>2
<1> QED BY <1>1

(* F starts with c, and f[i] makes its i-th value from the one before. *)
Runs(F, N, V, c, f) ==
    F \in [0..N -> V] /\ F[0] = c /\ \A i \in 1..N : F[i] = f[i][F[i-1]]

(* Hence a function defined by recursion over 0..N exists. *)
LEMMA RecurrenceExists ==
  ASSUME NEW N \in Nat, NEW V, NEW c \in V, NEW f \in [1..N -> [V -> V]]
  PROVE  \E F : Runs(F, N, V, c, f)
<1> DEFINE Good(n) == \E F \in [0..n -> V] : F[0] = c /\ \A i \in 1..n : F[i] = f[i][F[i-1]]
           G == {n \in Nat : n <= N => Good(n)}
<1>1. 0 \in G
  <2> DEFINE F == [i \in 0..0 |-> c]
  <2>1. F \in [0..0 -> V] /\ F[0] = c /\ \A i \in 1..0 : F[i] = f[i][F[i-1]]
    OBVIOUS
  <2> HIDE DEF F
  <2>2. Good(0)
    BY <2>1
  <2> HIDE DEF Good
  <2> QED BY <2>2
<1>2. ASSUME NEW n \in Nat, n \in G
      PROVE  n + 1 \in G
  <2> SUFFICES ASSUME n + 1 <= N PROVE Good(n + 1)
    OBVIOUS
  <2>1. PICK F \in [0..n -> V] : F[0] = c /\ \A i \in 1..n : F[i] = f[i][F[i-1]]
    BY <1>2
  <2> DEFINE H == [i \in 0..(n+1) |-> IF i = n + 1 THEN f[n + 1][F[n]] ELSE F[i]]
  <2>2. F[n] \in V /\ n + 1 \in 1..N
    BY <2>1
  <2>3. H \in [0..(n+1) -> V]
    BY <2>2
  <2>4. H[0] = c
    BY <2>1
  <2>5. ASSUME NEW i \in 1..(n+1)
        PROVE  H[i] = f[i][H[i-1]]
    <3>1. CASE i = n + 1
      <4>1. i - 1 = n /\ n \in 0..(n+1) /\ n # n + 1
        BY <3>1
      <4>2. H[i - 1] = F[n]
        BY <4>1
      <4>3. H[n + 1] = f[n + 1][F[n]]
        OBVIOUS
      <4> HIDE DEF H
      <4> QED BY <3>1, <4>2, <4>3
    <3>2. CASE i # n + 1
      <4>1. i \in 1..n /\ i - 1 \in 0..n /\ i - 1 # n + 1
        BY <3>2
      <4> QED BY <2>1, <4>1
    <3> QED BY <3>1, <3>2
  <2> QED BY <2>3, <2>4, <2>5
<1> HIDE DEF Good
<1>3. G = Nat
  BY <1>1, <1>2, Induction
<1>4. Good(N)
  BY <1>3
<1> QED BY <1>4 DEF Good, Runs

(* And two that start alike and make the same steps end alike. *)
Alike(F, G, N) == F[0] = G[0] /\ \A i \in 1..N : F[i-1] = G[i-1] => F[i] = G[i]

LEMMA Agree ==
  ASSUME NEW N \in Nat, NEW F, NEW G, Alike(F, G, N)
  PROVE  F[N] = G[N]
<1> DEFINE Same == {n \in Nat : n <= N => F[n] = G[n]}
<1>1. 0 \in Same
  BY DEF Alike
<1>2. ASSUME NEW n \in Nat, n \in Same
      PROVE  n + 1 \in Same
  <2> SUFFICES ASSUME n + 1 <= N PROVE F[n+1] = G[n+1]
    OBVIOUS
  <2>1. n + 1 \in 1..N /\ F[n] = G[n] /\ (n + 1) - 1 = n
    BY <1>2
  <2> QED BY <2>1 DEF Alike
<1>3. Same = Nat
  BY <1>1, <1>2, Induction
<1> QED BY <1>3

-----------------------------------------------------------------------------
(* Filter and sizeOf *)

(* The local functions of the two are what their equations say. *)
LEMMA FilterRuns ==
  ASSUME NEW s \in Seq(Event), NEW S
  PROVE  \E F \in [0..Len(s) -> Seq(Event)] :
           /\ F[0] = <<>>
           /\ \A i \in 1..Len(s) : F[i] = IF s[i] \in S THEN Append(F[i-1], s[i]) ELSE F[i-1]
           /\ Filter(s, S) = F[Len(s)]
<1> DEFINE N == Len(s)
           V == Seq(Event)
           none == <<>>
           f == [i \in 1..N |-> [v \in V |-> IF s[i] \in S THEN Append(v, s[i]) ELSE v]]
           E(H) == [i \in 0..N |-> IF i = 0 THEN <<>> ELSE IF s[i] \in S THEN Append(H[i-1], s[i]) ELSE H[i-1]]
           G == CHOOSE H : H = E(H)
<1>1. N \in Nat /\ \A i \in 1..N : s[i] \in Event
  OBVIOUS
<1>2. \A i \in 1..N, v \in V : (IF s[i] \in S THEN Append(v, s[i]) ELSE v) \in V
  BY <1>1
<1>3. none \in V /\ f \in [1..N -> [V -> V]]
  <2>1. none \in V
    OBVIOUS
  <2> HIDE DEF V, none, N
  <2> QED BY <1>2, <2>1
<1>4. PICK F \in [0..N -> Seq(Event)] : F[0] = <<>> /\ \A i \in 1..N : F[i] = f[i][F[i-1]]
  <2>0. N \in Nat
    OBVIOUS
  <2> HIDE DEF f, N, V, none
  <2>1. \E F : Runs(F, N, V, none, f)
    BY <2>0, <1>3, RecurrenceExists
  <2> QED BY <2>1 DEF V, none, Runs
<1> HIDE DEF f
<1>5. \A i \in 1..N : F[i] = IF s[i] \in S THEN Append(F[i-1], s[i]) ELSE F[i-1]
  <2> SUFFICES ASSUME NEW i \in 1..N
               PROVE  F[i] = IF s[i] \in S THEN Append(F[i-1], s[i]) ELSE F[i-1]
    OBVIOUS
  <2>1. F[i-1] \in V /\ F[i] = f[i][F[i-1]]
    BY <1>1, <1>4
  <2> HIDE DEF V, N
  <2> QED BY <2>1 DEF f
<1>6. F = E(F)
  <2>1. \A i \in 0..N : i = 0 \/ i \in 1..N
    BY <1>1
  <2>2. \A i \in 0..N : F[i] = IF i = 0 THEN <<>> ELSE IF s[i] \in S THEN Append(F[i-1], s[i]) ELSE F[i-1]
    BY <1>4, <1>5, <2>1
  <2> QED BY <2>2
<1>7. G = E(G)
  <2> HIDE DEF E
  <2> QED BY <1>6
<1>8. Filter(s, S) = G[N]
  BY DEF Filter
<1> HIDE DEF G
<1>9. G[N] = F[N]
  <2>1. G[0] = F[0]
    BY <1>1, <1>4, <1>7
  <2>2. \A i \in 1..N : i \in 0..N /\ i # 0
    BY <1>1
  <2>3. \A i \in 1..N : G[i] = IF s[i] \in S THEN Append(G[i-1], s[i]) ELSE G[i-1]
    BY <1>7, <2>2
  <2>4. Alike(G, F, N)
    BY <1>5, <2>1, <2>3 DEF Alike
  <2>5. N \in Nat
    BY <1>1
  <2> HIDE DEF N
  <2> QED BY <2>4, <2>5, Agree
<1> QED BY <1>1, <1>4, <1>5, <1>8, <1>9
LEMMA TotalRuns ==
  ASSUME NEW s \in Seq(Event)
  PROVE  \E F \in [0..Len(s) -> Nat] :
           /\ F[0] = 0
           /\ \A i \in 1..Len(s) : F[i] = F[i-1] + Size[s[i]]
           /\ sizeOf(s) = F[Len(s)]
<1> DEFINE N == Len(s)
           f == [i \in 1..N |-> [v \in Nat |-> v + Size[s[i]]]]
           E(H) == [i \in 0..N |-> IF i = 0 THEN 0 ELSE H[i-1] + Size[s[i]]]
           G == CHOOSE H : H = E(H)
<1>1. N \in Nat /\ \A i \in 1..N : Size[s[i]] \in Nat
  BY EventAssumption
<1>2. f \in [1..N -> [Nat -> Nat]]
  BY <1>1
<1>4. PICK F \in [0..N -> Nat] : F[0] = 0 /\ \A i \in 1..N : F[i] = f[i][F[i-1]]
  <2> HIDE DEF f, N
  <2>1. \E F : Runs(F, N, Nat, 0, f)
    BY <1>1, <1>2, RecurrenceExists
  <2> QED BY <2>1 DEF Runs
<1> HIDE DEF f
<1>5. \A i \in 1..N : F[i] = F[i-1] + Size[s[i]]
  <2> SUFFICES ASSUME NEW i \in 1..N
               PROVE  F[i] = F[i-1] + Size[s[i]]
    OBVIOUS
  <2>1. F[i-1] \in Nat /\ F[i] = f[i][F[i-1]]
    BY <1>1, <1>4
  <2> HIDE DEF N
  <2> QED BY <2>1 DEF f
<1>6. F = E(F)
  <2>1. \A i \in 0..N : i = 0 \/ i \in 1..N
    BY <1>1
  <2>2. \A i \in 0..N : F[i] = IF i = 0 THEN 0 ELSE F[i-1] + Size[s[i]]
    BY <1>4, <1>5, <2>1
  <2> QED BY <2>2
<1>7. G = E(G)
  <2> HIDE DEF E
  <2> QED BY <1>6
<1>8. sizeOf(s) = G[N]
  BY DEF sizeOf
<1> HIDE DEF G
<1>9. G[N] = F[N]
  <2>1. G[0] = F[0]
    BY <1>1, <1>4, <1>7
  <2>2. \A i \in 1..N : i \in 0..N /\ i # 0
    BY <1>1
  <2>3. \A i \in 1..N : G[i] = G[i-1] + Size[s[i]]
    BY <1>7, <2>2
  <2>4. Alike(G, F, N)
    BY <1>5, <2>1, <2>3 DEF Alike
  <2>5. N \in Nat
    BY <1>1
  <2> HIDE DEF N
  <2> QED BY <2>4, <2>5, Agree
<1> QED BY <1>1, <1>4, <1>5, <1>8, <1>9


(* Induction on lists, from the front. *)
LEMMA ListInduction ==
  ASSUME NEW G \in SUBSET Seq(Event), <<>> \in G,
         \A s \in Seq(Event), e \in Event : s \in G => Append(s, e) \in G
  PROVE  G = Seq(Event)
<1> DEFINE H == {n \in Nat : \A s \in Seq(Event) : Len(s) = n => s \in G}
<1>1. 0 \in H
  <2>1. \A s \in Seq(Event) : Len(s) = 0 => s = <<>>
    OBVIOUS
  <2> QED BY <2>1
<1>2. ASSUME NEW n \in Nat, n \in H
      PROVE  n + 1 \in H
  <2> SUFFICES ASSUME NEW s \in Seq(Event), Len(s) = n + 1
               PROVE  s \in G
    OBVIOUS
  <2>1. s # <<>>
    OBVIOUS
  <2>2. PICK t \in Seq(Event), e \in Event : s = Append(t, e)
    BY <2>1, SequenceEmptyOrAppend
  <2>3. Len(t) = n
    BY <2>2
  <2> QED BY <1>2, <2>2, <2>3
<1>3. H = Nat
  BY <1>1, <1>2, Induction
<1>4. \A s \in Seq(Event) : Len(s) \in Nat
  OBVIOUS
<1> QED BY <1>3, <1>4

LEMMA FilterType ==
  ASSUME NEW s \in Seq(Event), NEW S
  PROVE  Filter(s, S) \in Seq(Event)
<1>1. PICK F \in [0..Len(s) -> Seq(Event)] : Filter(s, S) = F[Len(s)]
  BY FilterRuns
<1>2. Len(s) \in 0..Len(s)
  OBVIOUS
<1> QED BY <1>1, <1>2

LEMMA FilterEmpty == \A S : Filter(<<>>, S) = <<>>
<1>1. ASSUME NEW S, NEW s \in Seq(Event), Len(s) = 0
      PROVE  Filter(s, S) = <<>>
  <2>1. PICK F \in [0..Len(s) -> Seq(Event)] : F[0] = <<>> /\ Filter(s, S) = F[Len(s)]
    BY FilterRuns
  <2> QED BY <1>1, <2>1
<1>2. <<>> \in Seq(Event) /\ Len(<<>>) = 0
  OBVIOUS
<1> QED BY <1>1, <1>2

LEMMA FilterAppend ==
  ASSUME NEW s \in Seq(Event), NEW e \in Event, NEW S
  PROVE  Filter(Append(s, e), S) = IF e \in S THEN Append(Filter(s, S), e) ELSE Filter(s, S)
<1> DEFINE t == Append(s, e)
           N == Len(s)
<1>1. t \in Seq(Event) /\ N \in Nat /\ Len(t) = N + 1 /\ t[N+1] = e /\ \A i \in 1..N : t[i] = s[i]
  OBVIOUS
<1>2. PICK F \in [0..N -> Seq(Event)] :
        /\ F[0] = <<>>
        /\ \A i \in 1..N : F[i] = IF s[i] \in S THEN Append(F[i-1], s[i]) ELSE F[i-1]
        /\ Filter(s, S) = F[N]
  BY FilterRuns
<1> HIDE DEF t
<1>3. PICK G \in [0..Len(t) -> Seq(Event)] :
        /\ G[0] = <<>>
        /\ \A i \in 1..Len(t) : G[i] = IF t[i] \in S THEN Append(G[i-1], t[i]) ELSE G[i-1]
        /\ Filter(t, S) = G[Len(t)]
  BY <1>1, FilterRuns
<1> HIDE DEF N
<1>4. \A i \in 1..N : i \in 1..Len(t)
  BY <1>1
<1>5. \A i \in 1..N : G[i-1] = F[i-1] => G[i] = F[i]
  BY <1>1, <1>2, <1>3, <1>4
<1>6. Alike(G, F, N)
  BY <1>2, <1>3, <1>5 DEF Alike
<1>7. G[N] = F[N]
  <2>1. N \in Nat
    BY <1>1
  <2> QED BY <1>6, <2>1, Agree
<1>8. N + 1 \in 1..Len(t) /\ (N + 1) - 1 = N
  BY <1>1
<1>9. G[N+1] = IF t[N+1] \in S THEN Append(G[N], t[N+1]) ELSE G[N]
  BY <1>3, <1>8
<1>10. Filter(t, S) = G[N+1] /\ Filter(s, S) = G[N]
  BY <1>1, <1>2, <1>3, <1>7
<1> QED BY <1>1, <1>9, <1>10 DEF t

LEMMA SizeType ==
  ASSUME NEW s \in Seq(Event)
  PROVE  sizeOf(s) \in Nat
<1>1. PICK F \in [0..Len(s) -> Nat] : sizeOf(s) = F[Len(s)]
  BY TotalRuns
<1>2. Len(s) \in 0..Len(s)
  OBVIOUS
<1> QED BY <1>1, <1>2

LEMMA SizeEmpty == sizeOf(<<>>) = 0
<1>1. <<>> \in Seq(Event) /\ Len(<<>>) = 0
  OBVIOUS
<1>2. PICK F \in [0..0 -> Nat] : F[0] = 0 /\ sizeOf(<<>>) = F[0]
  BY <1>1, TotalRuns
<1> QED BY <1>2

LEMMA SizeAppend ==
  ASSUME NEW s \in Seq(Event), NEW e \in Event
  PROVE  sizeOf(Append(s, e)) = sizeOf(s) + Size[e]
<1> DEFINE t == Append(s, e)
           N == Len(s)
<1>1. t \in Seq(Event) /\ N \in Nat /\ Len(t) = N + 1 /\ t[N+1] = e /\ \A i \in 1..N : t[i] = s[i]
  OBVIOUS
<1>2. PICK F \in [0..N -> Nat] :
        /\ F[0] = 0
        /\ \A i \in 1..N : F[i] = F[i-1] + Size[s[i]]
        /\ sizeOf(s) = F[N]
  BY TotalRuns
<1> HIDE DEF t
<1>3. PICK G \in [0..Len(t) -> Nat] :
        /\ G[0] = 0
        /\ \A i \in 1..Len(t) : G[i] = G[i-1] + Size[t[i]]
        /\ sizeOf(t) = G[Len(t)]
  BY <1>1, TotalRuns
<1> HIDE DEF N
<1>4. \A i \in 1..N : i \in 1..Len(t)
  BY <1>1
<1>5. \A i \in 1..N : G[i-1] = F[i-1] => G[i] = F[i]
  BY <1>1, <1>2, <1>3, <1>4
<1>6. Alike(G, F, N)
  BY <1>2, <1>3, <1>5 DEF Alike
<1>7. G[N] = F[N]
  <2>1. N \in Nat
    BY <1>1
  <2> QED BY <1>6, <2>1, Agree
<1>8. N + 1 \in 1..Len(t) /\ (N + 1) - 1 = N
  BY <1>1
<1>9. G[N+1] = G[N] + Size[t[N+1]]
  BY <1>3, <1>8
<1>10. sizeOf(t) = G[N+1] /\ sizeOf(s) = G[N]
  BY <1>1, <1>2, <1>3, <1>7
<1> QED BY <1>1, <1>9, <1>10 DEF t

(* A list and the set of its elements. *)
LEMMA ElementsOf ==
  ASSUME NEW s \in Seq(Event)
  PROVE  /\ Elements(s) \subseteq Event
         /\ Elements(s) = {s[i] : i \in 1..Len(s)}
         /\ Elements(<<>>) = {}
BY DEF Elements

LEMMA ElementsAppend ==
  ASSUME NEW s \in Seq(Event), NEW e \in Event
  PROVE  Elements(Append(s, e)) = Elements(s) \cup {e}
<1> DEFINE t == Append(s, e)
<1>1. t \in Seq(Event) /\ Len(t) = Len(s) + 1 /\ t[Len(s) + 1] = e /\ \A i \in 1..Len(s) : t[i] = s[i]
  OBVIOUS
<1>2. \A i : i \in 1..Len(t) <=> (i \in 1..Len(s) \/ i = Len(s) + 1)
  BY <1>1
<1> HIDE DEF t
<1>3. Elements(t) = Elements(s) \cup {e}
  BY <1>1, <1>2, ElementsOf
<1> QED BY <1>3 DEF t

LEMMA ElementsConcat ==
  ASSUME NEW s \in Seq(Event), NEW t \in Seq(Event)
  PROVE  Elements(s \o t) = Elements(s) \cup Elements(t)
<1> DEFINE u == s \o t
<1>1. u \in Seq(Event) /\ Len(u) = Len(s) + Len(t)
  BY ConcatProperties
<1>2. \A i \in 1..Len(s) : i \in 1..Len(u) /\ u[i] = s[i]
  BY <1>1, ConcatProperties
<1>3. \A i \in 1..Len(t) : Len(s) + i \in 1..Len(u) /\ u[Len(s) + i] = t[i]
  <2> SUFFICES ASSUME NEW i \in 1..Len(t)
               PROVE  Len(s) + i \in 1..Len(u) /\ u[Len(s) + i] = t[i]
    OBVIOUS
  <2>1. Len(s) + i \in 1..(Len(s) + Len(t)) /\ ~(Len(s) + i <= Len(s)) /\ (Len(s) + i) - Len(s) = i
    OBVIOUS
  <2> QED BY <1>1, <2>1, ConcatProperties
<1>4. \A i \in 1..Len(u) : i \in 1..Len(s) \/ \E j \in 1..Len(t) : i = Len(s) + j
  <2> SUFFICES ASSUME NEW i \in 1..Len(u), i \notin 1..Len(s)
               PROVE  \E j \in 1..Len(t) : i = Len(s) + j
    OBVIOUS
  <2>1. i - Len(s) \in 1..Len(t) /\ i = Len(s) + (i - Len(s))
    BY <1>1
  <2> QED BY <2>1
<1> HIDE DEF u
<1>5. /\ Elements(u) = {u[i] : i \in 1..Len(u)}
      /\ Elements(s) = {s[i] : i \in 1..Len(s)}
      /\ Elements(t) = {t[i] : i \in 1..Len(t)}
  BY <1>1, ElementsOf
<1>6. Elements(s) \cup Elements(t) \subseteq Elements(u)
  BY <1>2, <1>3, <1>5
<1>7. Elements(u) \subseteq Elements(s) \cup Elements(t)
  <2> SUFFICES ASSUME NEW i \in 1..Len(u)
               PROVE  u[i] \in Elements(s) \cup Elements(t)
    BY <1>5
  <2>1. CASE i \in 1..Len(s)
    BY <1>2, <1>5, <2>1
  <2>2. CASE \E j \in 1..Len(t) : i = Len(s) + j
    BY <1>3, <1>5, <2>2
  <2> QED BY <1>4, <2>1, <2>2
<1>8. Elements(u) = Elements(s) \cup Elements(t)
  BY <1>6, <1>7
<1> QED BY <1>8 DEF u

LEMMA FilterElements ==
  ASSUME NEW s \in Seq(Event), NEW S
  PROVE  Elements(Filter(s, S)) = Elements(s) \cap S
<1> DEFINE G == {t \in Seq(Event) : Elements(Filter(t, S)) = Elements(t) \cap S}
<1>1. <<>> \in G
  BY FilterEmpty, ElementsOf
<1>2. ASSUME NEW t \in Seq(Event), NEW e \in Event, t \in G
      PROVE  Append(t, e) \in G
  <2> DEFINE v == Append(t, e)
             w == Append(Filter(t, S), e)
  <2>1. v \in Seq(Event) /\ Elements(v) = Elements(t) \cup {e}
    BY ElementsAppend
  <2>2. Filter(v, S) = IF e \in S THEN w ELSE Filter(t, S)
    BY FilterAppend
  <2>3. Elements(w) = Elements(Filter(t, S)) \cup {e}
    BY FilterType, ElementsAppend
  <2> SUFFICES v \in G
    OBVIOUS
  <2> HIDE DEF v, w
  <2>4. Elements(Filter(t, S)) = Elements(t) \cap S
    BY <1>2
  <2>5. Elements(Filter(v, S)) = Elements(v) \cap S
    BY <2>1, <2>2, <2>3, <2>4
  <2> QED BY <2>1, <2>5
<1>3. G = Seq(Event)
  BY <1>1, <1>2, ListInduction
<1> QED BY <1>3

LEMMA FilterConcat ==
  ASSUME NEW s \in Seq(Event), NEW t \in Seq(Event), NEW S
  PROVE  Filter(s \o t, S) = Filter(s, S) \o Filter(t, S)
<1> DEFINE G == {u \in Seq(Event) : Filter(s \o u, S) = Filter(s, S) \o Filter(u, S)}
<1>0. Filter(s, S) \in Seq(Event)
  BY FilterType
<1>1. <<>> \in G
  <2> DEFINE none == <<>>
  <2>1. s \o none = s /\ Filter(s, S) \o none = Filter(s, S) /\ none \in Seq(Event)
    BY <1>0, ConcatEmptySeq
  <2>2. Filter(none, S) = none
    BY FilterEmpty
  <2> SUFFICES none \in G
    OBVIOUS
  <2> HIDE DEF none
  <2> QED BY <2>1, <2>2
<1>2. ASSUME NEW u \in Seq(Event), NEW e \in Event, u \in G
      PROVE  Append(u, e) \in G
  <2> DEFINE v == Append(u, e)
             w == Append(Filter(u, S), e)
             x == Append(Filter(s, S) \o Filter(u, S), e)
  <2>1. Filter(u, S) \in Seq(Event) /\ s \o u \in Seq(Event) /\ v \in Seq(Event)
    BY FilterType
  <2>2. s \o v = Append(s \o u, e) /\ Filter(s, S) \o w = x
    BY <1>0, <2>1
  <2>3. Filter(s \o v, S) = IF e \in S THEN x ELSE Filter(s \o u, S)
    <3>1. Filter(Append(s \o u, e), S) = IF e \in S THEN Append(Filter(s \o u, S), e) ELSE Filter(s \o u, S)
      BY <2>1, FilterAppend
    <3>2. Append(Filter(s \o u, S), e) = x
      BY <1>2
    <3> HIDE DEF v, x
    <3> QED BY <2>2, <3>1, <3>2
  <2>4. Filter(v, S) = IF e \in S THEN w ELSE Filter(u, S)
    BY FilterAppend
  <2> SUFFICES v \in G
    OBVIOUS
  <2> HIDE DEF v, w, x
  <2>5. Filter(s \o v, S) = Filter(s, S) \o Filter(v, S)
    BY <1>2, <2>2, <2>3, <2>4
  <2> QED BY <2>1, <2>5
<1>3. G = Seq(Event)
  BY <1>1, <1>2, ListInduction
<1> QED BY <1>3

LEMMA FilterTwice ==
  ASSUME NEW s \in Seq(Event), NEW S, NEW R
  PROVE  Filter(Filter(s, S), R) = Filter(s, S \cap R)
<1> DEFINE G == {t \in Seq(Event) : Filter(Filter(t, S), R) = Filter(t, S \cap R)}
<1>1. <<>> \in G
  BY FilterEmpty
<1>2. ASSUME NEW t \in Seq(Event), NEW e \in Event, t \in G
      PROVE  Append(t, e) \in G
  <2> DEFINE v == Append(t, e)
             w == Append(Filter(t, S), e)
             x == Append(Filter(t, S \cap R), e)
  <2>1. Filter(t, S) \in Seq(Event) /\ v \in Seq(Event) /\ Filter(Filter(t, S), R) = Filter(t, S \cap R)
    BY <1>2, FilterType
  <2>2. Filter(v, S) = IF e \in S THEN w ELSE Filter(t, S)
    BY FilterAppend
  <2>3. Filter(v, S \cap R) = IF e \in S \cap R THEN x ELSE Filter(t, S \cap R)
    BY FilterAppend
  <2>4. Filter(w, R) = IF e \in R THEN x ELSE Filter(t, S \cap R)
    BY <2>1, FilterAppend
  <2> SUFFICES v \in G
    OBVIOUS
  <2> HIDE DEF v, w, x
  <2>5. Filter(Filter(v, S), R) = Filter(v, S \cap R)
    BY <2>1, <2>2, <2>3, <2>4
  <2> QED BY <2>1, <2>5
<1>3. G = Seq(Event)
  BY <1>1, <1>2, ListInduction
<1> QED BY <1>3

(* Only the elements of a list matter to what is kept of it. *)
LEMMA FilterSame ==
  ASSUME NEW s \in Seq(Event), NEW S, NEW R, Elements(s) \cap S = Elements(s) \cap R
  PROVE  Filter(s, S) = Filter(s, R)
<1> DEFINE G == {t \in Seq(Event) : Elements(t) \cap S = Elements(t) \cap R => Filter(t, S) = Filter(t, R)}
<1>1. <<>> \in G
  BY FilterEmpty
<1>2. ASSUME NEW t \in Seq(Event), NEW e \in Event, t \in G
      PROVE  Append(t, e) \in G
  <2> DEFINE v == Append(t, e)
             w == Append(Filter(t, S), e)
  <2>1. v \in Seq(Event) /\ Elements(v) = Elements(t) \cup {e}
    BY ElementsAppend
  <2>2. Filter(v, S) = IF e \in S THEN w ELSE Filter(t, S)
    BY FilterAppend
  <2>3. Filter(t, S) = Filter(t, R) => Filter(v, R) = IF e \in R THEN w ELSE Filter(t, R)
    BY FilterAppend
  <2> SUFFICES v \in G
    OBVIOUS
  <2> HIDE DEF v, w
  <2>4. ASSUME Elements(v) \cap S = Elements(v) \cap R
        PROVE  Filter(v, S) = Filter(v, R)
    <3>1. Elements(t) \cap S = Elements(t) \cap R /\ (e \in S <=> e \in R)
      BY <2>1, <2>4
    <3>2. Filter(t, S) = Filter(t, R)
      BY <1>2, <3>1
    <3> QED BY <2>2, <2>3, <3>1, <3>2
  <2> QED BY <2>1, <2>4
<1>3. G = Seq(Event)
  BY <1>1, <1>2, ListInduction
<1> QED BY <1>3

LEMMA FilterAll ==
  ASSUME NEW s \in Seq(Event), NEW S, Elements(s) \subseteq S
  PROVE  Filter(s, S) = s
<1> DEFINE G == {t \in Seq(Event) : Filter(t, Event) = t}
<1>1. <<>> \in G
  BY FilterEmpty
<1>2. ASSUME NEW t \in Seq(Event), NEW e \in Event, t \in G
      PROVE  Append(t, e) \in G
  BY <1>2, FilterAppend
<1>3. G = Seq(Event)
  BY <1>1, <1>2, ListInduction
<1>4. Filter(s, S) = Filter(s, Event)
  BY ElementsOf, FilterSame
<1> QED BY <1>3, <1>4

LEMMA FilterNone ==
  ASSUME NEW s \in Seq(Event), NEW S, Elements(s) \cap S = {}
  PROVE  Filter(s, S) = <<>>
<1>1. Filter(s, S) \in Seq(Event) /\ Elements(Filter(s, S)) = {}
  BY FilterType, FilterElements
<1>2. ASSUME NEW t \in Seq(Event), Elements(t) = {}
      PROVE  t = <<>>
  <2>1. ASSUME t # <<>> PROVE FALSE
    <3>1. 1 \in 1..Len(t)
      BY <2>1
    <3>2. Elements(t) = {t[i] : i \in 1..Len(t)}
      BY ElementsOf
    <3> QED BY <1>2, <3>1, <3>2
  <2> QED BY <2>1
<1> QED BY <1>1, <1>2

LEMMA FilterShorter ==
  ASSUME NEW s \in Seq(Event), NEW S
  PROVE  Len(Filter(s, S)) <= Len(s)
<1> DEFINE G == {t \in Seq(Event) : Len(Filter(t, S)) <= Len(t)}
<1>1. <<>> \in G
  <2>1. Len(Filter(<<>>, S)) = 0
    BY FilterEmpty
  <2> QED BY <2>1
<1>2. ASSUME NEW t \in Seq(Event), NEW e \in Event, t \in G
      PROVE  Append(t, e) \in G
  <2> DEFINE v == Append(t, e)
             w == Append(Filter(t, S), e)
  <2>1. v \in Seq(Event) /\ Len(v) = Len(t) + 1 /\ Len(t) \in Nat
    OBVIOUS
  <2>2. Len(w) = Len(Filter(t, S)) + 1 /\ Len(Filter(t, S)) \in Nat
    BY FilterType
  <2>3. Filter(v, S) = IF e \in S THEN w ELSE Filter(t, S)
    BY FilterAppend
  <2> SUFFICES v \in G
    OBVIOUS
  <2> HIDE DEF v, w
  <2>4. Len(Filter(v, S)) <= Len(v)
    BY <1>2, <2>1, <2>2, <2>3
  <2> QED BY <2>1, <2>4
<1>3. G = Seq(Event)
  BY <1>1, <1>2, ListInduction
<1> QED BY <1>3

(* What is left of a list without its middle part. *)
LEMMA WithoutMiddle ==
  ASSUME NEW a \in Seq(Event), NEW b \in Seq(Event), NEW c \in Seq(Event), NEW C,
         Elements(b) \subseteq C, Elements(a) \cap C = {}, Elements(c) \cap C = {}
  PROVE  Filter((a \o b) \o c, Event \ C) = a \o c
<1>1. a \o b \in Seq(Event)
  OBVIOUS
<1>2. Elements(a) \subseteq Event /\ Elements(c) \subseteq Event
  BY ElementsOf
<1>3. Filter(a, Event \ C) = a
  BY <1>2, FilterAll
<1>4. Filter(c, Event \ C) = c
  BY <1>2, FilterAll
<1>5. Filter(b, Event \ C) = <<>>
  BY FilterNone
<1>6. Filter((a \o b) \o c, Event \ C) = (Filter(a, Event \ C) \o Filter(b, Event \ C)) \o Filter(c, Event \ C)
  <2> DEFINE d == a \o b
  <2>1. Filter(d \o c, Event \ C) = Filter(d, Event \ C) \o Filter(c, Event \ C)
    <3>1. d \in Seq(Event)
      BY <1>1
    <3> HIDE DEF d
    <3> QED BY <3>1, FilterConcat
  <2>2. Filter(a \o b, Event \ C) = Filter(a, Event \ C) \o Filter(b, Event \ C)
    BY FilterConcat
  <2> QED BY <2>1, <2>2
<1>7. a \o <<>> = a
  BY ConcatEmptySeq
<1> QED BY <1>3, <1>4, <1>5, <1>6, <1>7

LEMMA AppendRight ==
  ASSUME NEW a \in Seq(Event), NEW b \in Seq(Event), NEW e \in Event
  PROVE  Append(a \o b, e) = a \o Append(b, e)
OBVIOUS

LEMMA Regroup ==
  ASSUME NEW a \in Seq(Event), NEW b \in Seq(Event), NEW c \in Seq(Event)
  PROVE  a \o (b \o c) = (a \o b) \o c
BY ConcatAssociative

Distinct(s) == \A i, j \in 1..Len(s) : s[i] = s[j] => i = j

(* A list cut in two. *)
Cut(s, k, a, b) ==
    /\ a \in Seq(Event) /\ Len(a) = k /\ \A i \in 1..k : a[i] = s[i]
    /\ b \in Seq(Event) /\ Len(b) = Len(s) - k /\ \A i \in 1..Len(b) : b[i] = s[k + i]

LEMMA CutAt ==
  ASSUME NEW s \in Seq(Event), NEW k \in 0..Len(s)
  PROVE  Cut(s, k, SubSeq(s, 1, k), SubSeq(s, k + 1, Len(s)))
BY DEF Cut

LEMMA Halves ==
  ASSUME NEW s \in Seq(Event), NEW k \in 0..Len(s), NEW a, NEW b, Cut(s, k, a, b)
  PROVE  /\ a \in Seq(Event) /\ b \in Seq(Event) /\ s = a \o b
         /\ Len(a) = k /\ Len(b) = Len(s) - k
         /\ Elements(s) = Elements(a) \cup Elements(b)
         /\ Distinct(s) => Elements(a) \cap Elements(b) = {} /\ Distinct(b)
<1> USE DEF Cut
<1>1. Len(s) \in Nat /\ \A i \in 1..Len(s) : s[i] \in Event
  OBVIOUS
<1>2. s = a \o b
  <2> DEFINE u == a \o b
  <2>1. /\ u \in Seq(Event) /\ Len(u) = Len(a) + Len(b)
        /\ \A i \in 1..(Len(a) + Len(b)) : u[i] = IF i <= Len(a) THEN a[i] ELSE b[i - Len(a)]
    BY ConcatProperties
  <2> HIDE DEF u
  <2>2. ASSUME NEW i \in 1..Len(s)
        PROVE  s[i] = u[i]
    <3>1. CASE i <= k
      <4>1. i \in 1..k /\ i \in 1..(Len(a) + Len(b))
        BY <1>1, <3>1
      <4> QED BY <2>1, <3>1, <4>1
    <3>2. CASE ~(i <= k)
      <4>1. i - k \in 1..Len(b) /\ i \in 1..(Len(a) + Len(b)) /\ k + (i - k) = i
        BY <1>1, <3>2
      <4> QED BY <2>1, <3>2, <4>1
    <3> QED BY <3>1, <3>2
  <2>3. Len(u) = Len(s)
    BY <1>1, <2>1
  <2>4. s = u
    BY <2>1, <2>2, <2>3, SeqEqual
  <2> QED BY <2>4 DEF u
<1>3. Elements(s) = Elements(a) \cup Elements(b)
  BY <1>2, ElementsConcat
<1>4. ASSUME Distinct(s)
      PROVE  Elements(a) \cap Elements(b) = {} /\ Distinct(b)
  <2>1. \A j \in 1..Len(b) : k + j \in 1..Len(s) /\ b[j] = s[k + j]
    BY <1>1
  <2>2. \A i \in 1..k : i \in 1..Len(s) /\ a[i] = s[i]
    BY <1>1
  <2>3. \A i \in 1..k, j \in 1..Len(b) : a[i] # b[j]
    <3> SUFFICES ASSUME NEW i \in 1..k, NEW j \in 1..Len(b), a[i] = b[j]
                 PROVE  FALSE
      OBVIOUS
    <3>1. s[i] = s[k + j] /\ i # k + j
      BY <2>1, <2>2
    <3> QED BY <1>4, <2>1, <2>2, <3>1 DEF Distinct
  <2>4. Elements(a) \cap Elements(b) = {}
    <3>1. Elements(a) = {a[i] : i \in 1..k} /\ Elements(b) = {b[i] : i \in 1..Len(b)}
      BY ElementsOf
    <3> QED BY <2>3, <3>1
  <2>5. Distinct(b)
    <3> SUFFICES ASSUME NEW i \in 1..Len(b), NEW j \in 1..Len(b), b[i] = b[j]
                 PROVE  i = j
      BY DEF Distinct
    <3>1. s[k + i] = s[k + j]
      BY <2>1
    <3>2. k + i = k + j
      BY <1>4, <2>1, <3>1 DEF Distinct
    <3> QED BY <1>1, <3>2
  <2> QED BY <2>4, <2>5
<1> QED BY <1>2, <1>3, <1>4

LEMMA DistinctAppend ==
  ASSUME NEW s \in Seq(Event), NEW e \in Event, Distinct(s), e \notin Elements(s)
  PROVE  Distinct(Append(s, e))
<1> DEFINE t == Append(s, e)
<1>1. Len(t) = Len(s) + 1 /\ t[Len(s) + 1] = e /\ \A i \in 1..Len(s) : t[i] = s[i]
  OBVIOUS
<1>2. \A i \in 1..Len(t) : i \in 1..Len(s) \/ i = Len(s) + 1
  BY <1>1
<1>3. \A i \in 1..Len(s) : s[i] # e
  BY ElementsOf
<1> HIDE DEF t
<1>4. Distinct(t)
  BY <1>1, <1>2, <1>3 DEF Distinct
<1> QED BY <1>4 DEF t

-----------------------------------------------------------------------------
(* The invariant of the sink *)

(* An event is in one place: waiting, on its way, out or cut off. *)
Apart ==
    /\ Distinct(pending)
    /\ Elements(pending) \cap (Elements(hand) \cup gone) = {}
    /\ \A sub \in Subjects : Elements(sent[sub]) \cap (Elements(pending) \cup Elements(hand)) = {}
    /\ Elements(pending) \cup Elements(hand) \cup gone \cup lost \subseteq Elements(added)
    /\ \A sub \in Subjects : Elements(sent[sub]) \subseteq Elements(added)

Sized == size = sizeOf(pending) /\ Len(pending) <= MaxPending

(* One subject's part of Conserved. *)
Kept(sub) ==
    (sent[sub] \o Under(hand, sub)) \o Under(pending, sub) = Filter(added, Of(sub) \ (gone \cup lost))

Counted == IsFiniteSet(gone) /\ dropped = Cardinality(gone)

SinkInv == SinkTypeOK /\ Sized /\ Apart /\ Counted /\ \A sub \in Subjects : Kept(sub)

LEMMA SinkInitInv == SinkInit => SinkInv
<1> SUFFICES ASSUME SinkInit PROVE SinkInv
  OBVIOUS
<1> USE DEF SinkInit
<1>1. wake \in BOOLEAN /\ stop \in BOOLEAN
  BY Zenon
<1>2. SinkTypeOK
  BY <1>1, LimitAssumption DEF SinkTypeOK
<1>3. Sized
  BY SizeEmpty, LimitAssumption DEF Sized
<1>4. Elements(<<>>) = {}
  BY DEF Elements
<1>5. Apart
  BY <1>4 DEF Apart, Distinct
<1>6. Counted
  BY FS_EmptySet DEF Counted
<1>7. ASSUME NEW sub \in Subjects
      PROVE  Kept(sub)
  <2>1. (<<>> \o <<>>) \o <<>> = <<>>
    OBVIOUS
  <2> QED BY <2>1, FilterEmpty DEF Kept, Under
<1> QED BY <1>2, <1>3, <1>5, <1>6, <1>7 DEF SinkInv

(* What Add does to the list.  The cut is of one event at most, because    *)
(* the list was within its limit before.                                   *)
LEMMA AddCuts ==
  ASSUME SinkInv, NEW e \in Event, e \notin Elements(added), Add(e)
  PROVE  \E c \in Seq(Event) :
           /\ pending' \in Seq(Event) /\ Append(pending, e) = c \o pending'
           /\ gone' = gone \cup Elements(c)
           /\ Elements(c) \cap Elements(pending') = {}
           /\ Elements(c) \cup Elements(pending') = Elements(pending) \cup {e}
           /\ Distinct(pending') /\ Len(pending') <= MaxPending
           /\ dropped' = dropped + Len(c) /\ Len(c) \in {0, 1} /\ (Len(c) = 1 => Elements(c) = {pending[1]} /\ pending # <<>>)
           /\ size' = sizeOf(pending')
<1> DEFINE all == Append(pending, e)
           k == IF Len(all) > MaxPending THEN Len(all) - MaxPending ELSE 0
           c == SubSeq(all, 1, k)
<1>0. SinkTypeOK /\ Sized /\ Apart
  BY DEF SinkInv
<1>1. pending \in Seq(Event) /\ Len(pending) <= MaxPending /\ MaxPending \in Nat \ {0}
  BY <1>0, LimitAssumption DEF SinkTypeOK, Sized
<1>2. /\ all \in Seq(Event) /\ Len(all) = Len(pending) + 1
      /\ Elements(all) = Elements(pending) \cup {e}
  BY <1>1, ElementsAppend
<1>3. k \in {0, 1} /\ k \in 0..Len(all) /\ Len(all) - k <= MaxPending
  BY <1>1, <1>2
<1>4. /\ pending' = SubSeq(all, k + 1, Len(all)) /\ dropped' = dropped + k
      /\ size' = (IF k > 0 THEN sizeOf(pending') ELSE size + Size[e])
      /\ gone' = gone \cup Elements(c)
  BY DEF Add
<1>5. Distinct(all)
  <2>1. Distinct(pending) /\ e \notin Elements(pending)
    BY <1>0 DEF Apart
  <2> QED BY <1>1, <2>1, DistinctAppend
<1>6. k = 1 => all[1] = pending[1] /\ pending # <<>>
  BY <1>1, <1>2
<1>7. sizeOf(all) = size + Size[e]
  BY <1>0, <1>1, SizeAppend DEF Sized
<1>8. k = 0 => SubSeq(all, 1, Len(all)) = all
  BY <1>2, SubSeqFull
<1>9. \A t \in Seq(Event) : Len(t) = 1 => Elements(t) = {t[1]}
  <2>1. \A t \in Seq(Event) : Len(t) = 1 => \A i : i \in 1..Len(t) <=> i = 1
    OBVIOUS
  <2> QED BY <2>1, ElementsOf
<1>10. k = 1 => c[1] = all[1]
  BY <1>2
<1> HIDE DEF all, k
<1>11. Cut(all, k, c, pending')
  BY <1>2, <1>3, <1>4, CutAt
<1> HIDE DEF c
<1>12. /\ c \in Seq(Event) /\ pending' \in Seq(Event) /\ all = c \o pending'
       /\ Len(c) = k /\ Len(pending') = Len(all) - k
       /\ Elements(all) = Elements(c) \cup Elements(pending')
       /\ Elements(c) \cap Elements(pending') = {} /\ Distinct(pending')
  BY <1>2, <1>3, <1>5, <1>11, Halves
<1>13. size' = sizeOf(pending')
  <2>1. CASE k = 0
    <3>1. k + 1 = 1 /\ ~(k > 0)
      BY <2>1
    <3>2. pending' = all
      BY <1>4, <1>8, <2>1, <3>1
    <3> QED BY <1>4, <1>7, <3>1, <3>2
  <2>2. CASE k = 1
    BY <1>4, <2>2
  <2> QED BY <1>3, <2>1, <2>2
<1>14. Len(c) = 1 => Elements(c) = {pending[1]}
  BY <1>6, <1>9, <1>10, <1>12
<1> QED BY <1>2, <1>3, <1>4, <1>6, <1>12, <1>13, <1>14 DEF all

LEMMA AddKeeps ==
  ASSUME SinkInv, NEW e \in Event, e \notin Elements(added), Add(e)
  PROVE  SinkInv'
<1> DEFINE all == Append(pending, e)
<1>0. SinkTypeOK /\ Sized /\ Apart /\ Counted /\ \A sub \in Subjects : Kept(sub)
  BY DEF SinkInv
<1>1. PICK c \in Seq(Event) :
        /\ pending' \in Seq(Event) /\ all = c \o pending'
        /\ gone' = gone \cup Elements(c)
        /\ Elements(c) \cap Elements(pending') = {}
        /\ Elements(c) \cup Elements(pending') = Elements(pending) \cup {e}
        /\ Distinct(pending') /\ Len(pending') <= MaxPending
        /\ dropped' = dropped + Len(c) /\ Len(c) \in {0, 1} /\ (Len(c) = 1 => Elements(c) = {pending[1]} /\ pending # <<>>)
        /\ size' = sizeOf(pending')
  BY AddCuts
<1>2. added' = Append(added, e) /\ UNCHANGED <<wake, stop, loop, hand, sent, lost>>
  BY DEF Add
<1>3. /\ pending \in Seq(Event) /\ hand \in Seq(Event) /\ added \in Seq(Event)
      /\ sent \in [Subjects -> Seq(Event)] /\ gone \subseteq Event
  BY <1>0 DEF SinkTypeOK
<1>4. all \in Seq(Event) /\ added' \in Seq(Event) /\ Elements(added') = Elements(added) \cup {e}
  BY <1>2, <1>3, ElementsAppend
<1> HIDE DEF all
<1>5. SinkTypeOK'
  <2>1. size' \in Nat /\ dropped' \in Nat /\ gone' \subseteq Event
    BY <1>0, <1>1, <1>3, SizeType, ElementsOf DEF SinkTypeOK
  <2> QED BY <1>0, <1>1, <1>2, <1>4, <2>1 DEF SinkTypeOK
<1>6. Sized'
  BY <1>1 DEF Sized
<1>7. Apart'
  BY <1>0, <1>1, <1>2, <1>4 DEF Apart
<1>8. Counted'
  <2>1. CASE Len(c) = 0
    <3>1. Elements(c) = {}
      <4>1. Elements(c) = {c[i] : i \in 1..Len(c)}
        BY ElementsOf
      <4> QED BY <2>1, <4>1
    <3>2. gone' = gone /\ dropped' = dropped
      BY <1>0, <1>1, <2>1, <3>1 DEF SinkTypeOK
    <3> QED BY <1>0, <3>2 DEF Counted
  <2>2. CASE Len(c) = 1
    <3>1. gone' = gone \cup {pending[1]} /\ dropped' = dropped + 1
      BY <1>1, <2>2
    <3>2. pending[1] \in Elements(pending)
      <4>1. 1 \in 1..Len(pending)
        BY <1>1, <1>3, <2>2
      <4> QED BY <1>3, <4>1, ElementsOf
    <3>3. pending[1] \notin gone
      BY <1>0, <3>2 DEF Apart
    <3>4. IsFiniteSet(gone') /\ Cardinality(gone') = Cardinality(gone) + 1
      BY <1>0, <3>1, <3>3, FS_AddElement DEF Counted
    <3> QED BY <1>0, <3>1, <3>4 DEF Counted
  <2> QED BY <1>1, <2>1, <2>2
<1>9. ASSUME NEW sub \in Subjects
      PROVE  Kept(sub)'
  <2> DEFINE S == Of(sub) \ (gone \cup lost)
             C == Elements(c)
             L == sent[sub] \o Under(hand, sub)
             u == Under(c, sub)
             v == Under(pending', sub)
             w == Under(pending, sub)
  <2>1. /\ sent[sub] \in Seq(Event) /\ Under(hand, sub) \in Seq(Event)
        /\ w \in Seq(Event) /\ u \in Seq(Event) /\ v \in Seq(Event)
    BY <1>1, <1>3, FilterType DEF Under
  <2>2. L \in Seq(Event) /\ Elements(L) = Elements(sent[sub]) \cup Elements(Under(hand, sub))
    BY <2>1, ElementsConcat
  <2>3. Elements(u) \subseteq C /\ Elements(v) \cap C = {}
    BY <1>1, FilterElements DEF Under
  <2>4. Elements(L) \cap C = {}
    <3>1. Elements(Under(hand, sub)) \subseteq Elements(hand)
      BY <1>3, FilterElements DEF Under
    <3>2. C \subseteq Elements(pending) \cup {e}
      BY <1>1
    <3>3. Elements(L) \cap Elements(pending) = {} /\ e \notin Elements(L)
      BY <1>0, <2>2, <3>1 DEF Apart
    <3> HIDE DEF C, L
    <3> QED BY <3>2, <3>3
  <2>5. L \o w = Filter(added, S)
    BY <1>0 DEF Kept
  <2>6. Under(all, sub) = u \o v
    BY <1>1, FilterConcat DEF Under
  <2>7. Under(all, sub) = IF e \in Of(sub) THEN Append(w, e) ELSE w
    BY <1>3, FilterAppend DEF Under, all
  <2>8. e \in S <=> e \in Of(sub)
    BY <1>0 DEF Apart
  <2>9. Filter(added', S) = IF e \in S THEN Append(Filter(added, S), e) ELSE Filter(added, S)
    BY <1>2, <1>3, FilterAppend
  <2>10. Append(L \o w, e) = L \o Append(w, e)
    <3>1. L \in Seq(Event) /\ w \in Seq(Event)
      BY <2>1, <2>2
    <3> HIDE DEF L, w
    <3> QED BY <3>1, AppendRight
  <2>11. Filter(added', S \cap (Event \ C)) = Filter(Filter(added', S), Event \ C)
    BY <1>4, FilterTwice
  <2>12. S \cap (Event \ C) = Of(sub) \ (gone' \cup lost')
    BY <1>1, <1>2 DEF Of
  <2> HIDE DEF S, C, L, u, v, w
  <2>13. Filter(added', S) = L \o (u \o v)
    <3>1. CASE e \in S
      <4>1. Filter(added', S) = Append(Filter(added, S), e) /\ u \o v = Append(w, e)
        BY <2>6, <2>7, <2>8, <2>9, <3>1
      <4>2. Append(Filter(added, S), e) = Append(L \o w, e)
        BY <2>5
      <4> QED BY <2>10, <4>1, <4>2
    <3>2. CASE e \notin S
      <4>1. Filter(added', S) = Filter(added, S) /\ u \o v = w
        BY <2>6, <2>7, <2>8, <2>9, <3>2
      <4> QED BY <2>5, <4>1
    <3> QED BY <3>1, <3>2
  <2>14. L \o (u \o v) = (L \o u) \o v
    <3>1. L \in Seq(Event) /\ u \in Seq(Event) /\ v \in Seq(Event)
      BY <2>1, <2>2
    <3> QED BY <3>1, Regroup
  <2>15. Filter((L \o u) \o v, Event \ C) = L \o v
    BY <2>1, <2>2, <2>3, <2>4, WithoutMiddle
  <2>16. Filter(added', Of(sub) \ (gone' \cup lost')) = L \o v
    BY <2>11, <2>12, <2>13, <2>14, <2>15
  <2> QED BY <1>2, <2>16 DEF Kept, L, v, Under, Of
<1> QED BY <1>5, <1>6, <1>7, <1>8, <1>9 DEF SinkInv

LEMMA TakeKeeps ==
  ASSUME SinkInv, FlushTake
  PROVE  SinkInv'
<1> DEFINE n == IF Len(pending) > MaxItems THEN MaxItems ELSE Len(pending)
<1>0. SinkTypeOK /\ Sized /\ Apart /\ Counted /\ \A sub \in Subjects : Kept(sub)
  BY DEF SinkInv
<1>1. /\ pending \in Seq(Event) /\ sent \in [Subjects -> Seq(Event)] /\ hand = <<>>
      /\ hand' = SubSeq(pending, 1, n) /\ pending' = SubSeq(pending, n + 1, Len(pending))
      /\ size' = sizeOf(pending')
      /\ UNCHANGED <<dropped, wake, stop, loop, added, sent, gone, lost>>
  BY <1>0 DEF FlushTake, Flushing, SinkTypeOK, history
<1>2. n \in 0..Len(pending) /\ n <= MaxItems /\ Len(pending) - n <= Len(pending)
  BY <1>1, LimitAssumption
<1> HIDE DEF n
<1>3. Cut(pending, n, hand', pending')
  BY <1>1, <1>2, CutAt
<1>4. /\ hand' \in Seq(Event) /\ pending' \in Seq(Event) /\ pending = hand' \o pending'
      /\ Len(hand') = n /\ Len(pending') = Len(pending) - n
      /\ Elements(pending) = Elements(hand') \cup Elements(pending')
      /\ Elements(hand') \cap Elements(pending') = {} /\ Distinct(pending')
  <2>1. Distinct(pending)
    BY <1>0 DEF Apart
  <2>2. pending \in Seq(Event) /\ n \in 0..Len(pending)
    BY <1>1, <1>2
  <2> QED BY <1>3, <2>1, <2>2, Halves
<1>5. SinkTypeOK'
  <2>1. size' \in Nat /\ Len(hand') <= MaxItems
    BY <1>1, <1>2, <1>4, SizeType
  <2> QED BY <1>0, <1>1, <1>4, <2>1 DEF SinkTypeOK
<1>6. Sized'
  <2>1. Len(pending) <= MaxPending /\ Len(pending) \in Nat /\ n \in Nat /\ MaxPending \in Nat
    BY <1>0, <1>1, <1>2, LimitAssumption DEF Sized
  <2>2. Len(pending') <= MaxPending
    BY <1>4, <2>1
  <2> QED BY <1>1, <2>2 DEF Sized
<1>7. Apart'
  BY <1>0, <1>1, <1>4 DEF Apart
<1>8. Counted'
  BY <1>0, <1>1 DEF Counted
<1>9. ASSUME NEW sub \in Subjects
      PROVE  Kept(sub)'
  <2> DEFINE x == sent[sub]
             u == Under(hand', sub)
             v == Under(pending', sub)
  <2>1. x \in Seq(Event) /\ u \in Seq(Event) /\ v \in Seq(Event)
    BY <1>1, <1>4, FilterType DEF Under
  <2>2. Under(pending, sub) = u \o v
    BY <1>4, FilterConcat DEF Under
  <2>3. Under(hand, sub) = <<>>
    BY <1>1, FilterEmpty DEF Under
  <2>4. (x \o Under(hand, sub)) \o Under(pending, sub) = Filter(added, Of(sub) \ (gone \cup lost))
    BY <1>0 DEF Kept
  <2>5. Filter(added', Of(sub) \ (gone' \cup lost')) = Filter(added, Of(sub) \ (gone \cup lost))
    BY <1>1
  <2>6. sent'[sub] = x
    BY <1>1
  <2> HIDE DEF x, u, v
  <2>7. x \o <<>> = x
    BY <2>1, ConcatEmptySeq
  <2>8. x \o (u \o v) = (x \o u) \o v
    BY <2>1, Regroup
  <2>9. (x \o u) \o v = Filter(added', Of(sub) \ (gone' \cup lost'))
    BY <2>2, <2>3, <2>4, <2>5, <2>7, <2>8
  <2> QED BY <2>6, <2>9 DEF Kept, u, v, Under, Of
<1> QED BY <1>5, <1>6, <1>7, <1>8, <1>9 DEF SinkInv

(* The batch of a subject leaves the hand, and nothing of another one.     *)
LEMMA BatchLeaves ==
  ASSUME SinkInv, hand # <<>>, hand' = Rest
  PROVE  /\ Subject[hand[1]] \in Subjects
         /\ Batch \in Seq(Event) /\ hand' \in Seq(Event) /\ Len(hand') <= MaxItems
         /\ Elements(hand) = Elements(Batch) \cup Elements(hand')
         /\ Elements(Batch) \cap Elements(hand') = {}
         /\ Elements(Batch) \subseteq Of(Subject[hand[1]])
         /\ Under(hand', Subject[hand[1]]) = <<>>
         /\ \A sub \in Subjects : sub # Subject[hand[1]] => Under(hand', sub) = Under(hand, sub)
<1> DEFINE one == Subject[hand[1]]
<1>1. hand \in Seq(Event) /\ Len(hand) <= MaxItems /\ 1 \in 1..Len(hand)
  BY DEF SinkInv, SinkTypeOK
<1>2. one \in Subjects
  BY <1>1 DEF Subjects
<1>3. Batch = Filter(hand, Of(one)) /\ hand' = Filter(hand, Event \ Of(one))
  BY DEF Batch, Rest, Under
<1> HIDE DEF one
<1>4. Batch \in Seq(Event) /\ hand' \in Seq(Event)
  BY <1>1, <1>3, FilterType
<1>5. /\ Elements(Batch) = Elements(hand) \cap Of(one)
      /\ Elements(hand') = Elements(hand) \cap (Event \ Of(one))
      /\ Elements(hand) \subseteq Event
  BY <1>1, <1>3, FilterElements, ElementsOf
<1>6. Len(hand') <= MaxItems
  <2>1. Len(hand') <= Len(hand)
    BY <1>1, <1>3, FilterShorter
  <2> QED BY <1>1, <1>4, <2>1, LimitAssumption
<1>7. Under(hand', one) = <<>>
  <2>1. Elements(hand') \cap Of(one) = {}
    BY <1>5
  <2> QED BY <1>4, <2>1, FilterNone DEF Under
<1>8. ASSUME NEW sub \in Subjects, sub # one
      PROVE  Under(hand', sub) = Under(hand, sub)
  <2>1. (Event \ Of(one)) \cap Of(sub) = Of(sub)
    BY <1>8 DEF Of
  <2> QED BY <1>1, <1>3, <2>1, FilterTwice DEF Under
<1> QED BY <1>2, <1>4, <1>5, <1>6, <1>7, <1>8 DEF one

LEMMA SendKeeps ==
  ASSUME SinkInv, SendOK
  PROVE  SinkInv'
<1> DEFINE one == Subject[hand[1]]
<1>0. SinkTypeOK /\ Sized /\ Apart /\ Counted /\ \A sub \in Subjects : Kept(sub)
  BY DEF SinkInv
<1>1. /\ hand # <<>> /\ hand' = Rest /\ sent' = [sent EXCEPT ![one] = @ \o Batch]
      /\ UNCHANGED <<pending, size, dropped, wake, stop, loop, added, gone, lost>>
  BY DEF SendOK, fields
<1>2. /\ pending \in Seq(Event) /\ hand \in Seq(Event) /\ sent \in [Subjects -> Seq(Event)]
  BY <1>0 DEF SinkTypeOK
<1>3. /\ one \in Subjects
      /\ Batch \in Seq(Event) /\ hand' \in Seq(Event) /\ Len(hand') <= MaxItems
      /\ Elements(hand) = Elements(Batch) \cup Elements(hand')
      /\ Elements(Batch) \cap Elements(hand') = {}
      /\ Under(hand', one) = <<>>
      /\ \A sub \in Subjects : sub # one => Under(hand', sub) = Under(hand, sub)
  BY <1>1, BatchLeaves
<1>4. Batch = Under(hand, one)
  BY DEF Batch
<1> HIDE DEF one
<1>5. /\ sent' \in [Subjects -> Seq(Event)] /\ sent'[one] = sent[one] \o Batch
      /\ \A sub \in Subjects : sub # one => sent'[sub] = sent[sub]
  BY <1>1, <1>2, <1>3
<1>6. Elements(sent'[one]) = Elements(sent[one]) \cup Elements(Batch)
  BY <1>2, <1>3, <1>5, ElementsConcat
<1>7. SinkTypeOK' /\ Sized' /\ Counted'
  BY <1>0, <1>1, <1>3, <1>5 DEF SinkTypeOK, Sized, Counted
<1>8. Apart'
  <2>1. ASSUME NEW sub \in Subjects
        PROVE  /\ Elements(sent'[sub]) \cap (Elements(pending) \cup Elements(hand')) = {}
               /\ Elements(sent'[sub]) \subseteq Elements(added)
    <3>1. CASE sub = one
      BY <1>0, <1>3, <1>6, <3>1 DEF Apart
    <3>2. CASE sub # one
      BY <1>0, <1>3, <1>5, <3>2 DEF Apart
    <3> QED BY <3>1, <3>2
  <2> QED BY <1>0, <1>1, <1>3, <2>1 DEF Apart
<1>9. ASSUME NEW sub \in Subjects
      PROVE  Kept(sub)'
  <2>1. (sent[sub] \o Under(hand, sub)) \o Under(pending, sub) = Filter(added, Of(sub) \ (gone \cup lost))
    BY <1>0 DEF Kept
  <2>2. sent'[sub] \o Under(hand', sub) = sent[sub] \o Under(hand, sub)
    <3>1. CASE sub = one
      <4>1. sent'[one] \in Seq(Event)
        BY <1>3, <1>5
      <4>2. sent'[one] \o <<>> = sent'[one]
        BY <4>1, ConcatEmptySeq
      <4> QED BY <1>3, <1>4, <1>5, <3>1, <4>2
    <3>2. CASE sub # one
      BY <1>3, <1>5, <3>2
    <3> QED BY <3>1, <3>2
  <2>3. (sent'[sub] \o Under(hand', sub)) \o Under(pending', sub) = Filter(added', Of(sub) \ (gone' \cup lost'))
    BY <1>1, <2>1, <2>2
  <2> QED BY <2>3 DEF Kept, Under, Of
<1> QED BY <1>7, <1>8, <1>9 DEF SinkInv

LEMMA FailKeeps ==
  ASSUME SinkInv, SendFails
  PROVE  SinkInv'
<1> DEFINE one == Subject[hand[1]]
           C == Elements(Batch)
<1>0. SinkTypeOK /\ Sized /\ Apart /\ Counted /\ \A sub \in Subjects : Kept(sub)
  BY DEF SinkInv
<1>1. /\ hand # <<>> /\ hand' = Rest /\ lost' = lost \cup C
      /\ UNCHANGED <<pending, size, dropped, wake, stop, loop, added, sent, gone>>
  BY DEF SendFails, fields
<1>2. /\ pending \in Seq(Event) /\ hand \in Seq(Event) /\ sent \in [Subjects -> Seq(Event)]
      /\ added \in Seq(Event) /\ lost \subseteq Event
  BY <1>0 DEF SinkTypeOK
<1>3. /\ one \in Subjects
      /\ Batch \in Seq(Event) /\ hand' \in Seq(Event) /\ Len(hand') <= MaxItems
      /\ Elements(hand) = C \cup Elements(hand') /\ C \cap Elements(hand') = {}
      /\ C \subseteq Of(one)
      /\ Under(hand', one) = <<>>
      /\ \A sub \in Subjects : sub # one => Under(hand', sub) = Under(hand, sub)
  BY <1>1, BatchLeaves
<1>4. Batch = Under(hand, one) /\ C \subseteq Event
  BY <1>3, ElementsOf DEF Batch
<1> HIDE DEF one
<1>5. Elements(Batch) = C
  OBVIOUS
<1> HIDE DEF C
<1>6. SinkTypeOK' /\ Sized' /\ Counted'
  BY <1>0, <1>1, <1>3, <1>4 DEF SinkTypeOK, Sized, Counted
<1>7. Apart'
  BY <1>0, <1>1, <1>3 DEF Apart
<1>8. ASSUME NEW sub \in Subjects
      PROVE  Kept(sub)'
  <2> DEFINE S == Of(sub) \ (gone \cup lost)
             x == sent[sub]
             v == Under(pending, sub)
  <2>1. (x \o Under(hand, sub)) \o v = Filter(added, S)
    BY <1>0 DEF Kept
  <2>2. x \in Seq(Event) /\ v \in Seq(Event) /\ Under(hand, sub) \in Seq(Event)
    BY <1>2, FilterType DEF Under
  <2>3. (x \o Under(hand', sub)) \o v = Filter(added, S \ C)
    <3>1. CASE sub = one
      <4>1. Elements(x) \cap C = {} /\ Elements(v) \cap C = {}
        <5>1. Elements(x) \cap Elements(hand) = {} /\ Elements(pending) \cap Elements(hand) = {}
          BY <1>0 DEF Apart
        <5>2. Elements(v) \subseteq Elements(pending) /\ C \subseteq Elements(hand)
          BY <1>2, <1>3, FilterElements DEF Under
        <5> HIDE DEF x, v
        <5> QED BY <5>1, <5>2
      <4>2. Under(hand, sub) = Batch /\ Under(hand', sub) = <<>>
        BY <1>3, <1>4, <3>1
      <4>3. S \cap (Event \ C) = S \ C
        BY DEF Of
      <4> HIDE DEF S, x, v
      <4>4. Filter((x \o Batch) \o v, Event \ C) = x \o v
        BY <1>3, <1>5, <2>2, <4>1, WithoutMiddle
      <4>5. Filter(Filter(added, S), Event \ C) = Filter(added, S \cap (Event \ C))
        BY <1>2, FilterTwice
      <4>6. x \o <<>> = x
        BY <2>2, ConcatEmptySeq
      <4>7. Filter(added, S) = (x \o Batch) \o v
        BY <2>1, <4>2
      <4>8. Filter(added, S \ C) = x \o v
        BY <4>3, <4>4, <4>5, <4>7
      <4> QED BY <4>2, <4>6, <4>8
    <3>2. CASE sub # one
      <4>1. S \ C = S
        BY <1>3, <3>2 DEF Of
      <4> QED BY <1>3, <2>1, <3>2, <4>1
    <3> QED BY <3>1, <3>2
  <2>4. Of(sub) \ (gone' \cup lost') = S \ C
    BY <1>1
  <2>5. (sent'[sub] \o Under(hand', sub)) \o Under(pending', sub) = Filter(added', Of(sub) \ (gone' \cup lost'))
    BY <1>1, <2>3, <2>4
  <2> QED BY <2>5 DEF Kept, Under, Of
<1> QED BY <1>6, <1>7, <1>8 DEF SinkInv

(* The fields, the hand and the history: what the invariant is about, but  *)
(* for types.                                                              *)
LEMMA IdleKeeps ==
  ASSUME SinkInv, UNCHANGED <<pending, size, dropped, hand, added, sent, gone, lost>>,
         wake' \in BOOLEAN, stop' \in BOOLEAN, loop' \in {"select", "flush", "last", "done"}
  PROVE  SinkInv'
<1>1. SinkTypeOK /\ Sized /\ Apart /\ Counted /\ \A sub \in Subjects : Kept(sub)
  BY DEF SinkInv
<1>2. SinkTypeOK' /\ Sized' /\ Apart' /\ Counted'
  BY <1>1 DEF SinkTypeOK, Sized, Apart, Counted
<1>3. \A sub \in Subjects : Kept(sub)'
  BY <1>1 DEF Kept, Under, Of
<1> QED BY <1>2, <1>3 DEF SinkInv

LEMMA LoopKeeps ==
  ASSUME SinkInv, LoopStep
  PROVE  SinkInv'
<1>0. wake \in BOOLEAN /\ stop \in BOOLEAN /\ loop \in {"select", "flush", "last", "done"}
  BY DEF SinkInv, SinkTypeOK
<1>1. CASE LoopStop \/ LoopTick \/ FlushEnd
  <2>1. /\ UNCHANGED <<pending, size, dropped, hand, added, sent, gone, lost>>
        /\ wake' = wake /\ stop' = stop /\ loop' \in {"select", "flush", "last", "done"}
    BY <1>1 DEF LoopStop, LoopTick, FlushEnd, fields, history
  <2> QED BY <1>0, <2>1, IdleKeeps
<1>2. CASE LoopWake
  <2>1. /\ UNCHANGED <<pending, size, dropped, hand, added, sent, gone, lost>>
        /\ wake' = FALSE /\ stop' = stop /\ loop' = "flush"
    BY <1>2 DEF LoopWake, fields, history
  <2>2. wake' \in BOOLEAN
    BY <2>1, Zenon
  <2> QED BY <1>0, <2>1, <2>2, IdleKeeps
<1> QED BY <1>1, <1>2, TakeKeeps, SendKeeps, FailKeeps DEF LoopStep

LEMMA InvIsConserved == SinkInv => Conserved
BY DEF SinkInv, Counted, Kept, Conserved
=============================================================================
