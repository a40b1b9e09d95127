----------------------------- MODULE SpecFileProofs -----------------------------
(***************************************************************************)
(* For all documents, keys and transforms, however long: the file always   *)
(* says what its author saved last, and what a sync deploys of it is the   *)
(* merge that is documented, with all its secrets in place.                *)
(*                                                                         *)
(* The merge is a fold of folds.  A fold is a CHOOSE of a recursive        *)
(* function; the lemmas of the first part turn it into a sequence of       *)
(* intermediate results, in which what a step preserves is shown for each  *)
(* index from its predecessor's.                                           *)
(***************************************************************************)
EXTENDS SpecFile, TLAPS, WellFoundedInduction, SequenceTheorems

-----------------------------------------------------------------------------
(* Folds of sequences.                                                     *)

\* A set of numbers that is not empty has a least one.
LEMMA Least ==
  ASSUME NEW T \in SUBSET Nat, T # {}
  PROVE  \E x \in T : \A y \in T : x <= y
<1>1. PICK x \in T : \A y \in T : ~(<<y, x>> \in OpToRel(<, Nat))
  BY NatLessThanWellFounded, WFMin
<1>2. \A y \in T : ~(y < x)
  BY <1>1 DEF OpToRel
<1> QED
  BY <1>2

\* Induction up to a bound: what holds of 0, and of each i in 1..n that it holds of the
\* predecessor of, holds of all of 0..n.
LEMMA UpTo ==
  ASSUME NEW n \in Nat, NEW T, 0 \in T, \A i \in 1..n : i - 1 \in T => i \in T
  PROVE  \A i \in 0..n : i \in T
<1> SUFFICES ASSUME (0..n) \ T # {} PROVE FALSE
  OBVIOUS
<1> DEFINE U == (0..n) \ T
<1>1. PICK x \in U : \A y \in U : x <= y
  <2>1. U \in SUBSET Nat /\ U # {}
    OBVIOUS
  <2> HIDE DEF U
  <2> QED
    BY <2>1, Least
<1>2. x \in 1..n
  BY <1>1
<1>3. x - 1 \in T
  BY <1>1, <1>2
<1> QED
  BY <1>1, <1>2, <1>3

\* Max is the largest of the numbers that a fold has still to go through.
LEMMA Largest ==
  ASSUME NEW n \in Nat, NEW s \in SUBSET (1..n), s # {}
  PROVE  Max(s) \in s /\ \A x \in s : x <= Max(s)
<1> DEFINE Above == {x \in Nat : \A y \in s : y <= x}
<1>1. PICK m \in Above : \A x \in Above : m <= x
  <2>1. n \in Above
    OBVIOUS
  <2> QED
    BY <2>1, Least
<1>2. m \in s
  <2> SUFFICES ASSUME m \notin s PROVE FALSE
    OBVIOUS
  <2>1. PICK y \in s : TRUE
    OBVIOUS
  <2>2. y \in 1..n /\ y <= m /\ m \in Nat
    OBVIOUS
  <2>3. m - 1 \in Nat
    BY <2>2
  <2>4. m - 1 \in Above
    BY <2>3
  <2> QED
    BY <1>1, <2>4
<1> QED
  BY <1>2 DEF Max

\* A fold of a function over a sequence exists: its CHOOSE in Folds.tla has a witness.
Step(F, base, seq, it, s) ==
  IF s = {} THEN base ELSE F[<<it[s \ {Max(s)}], seq[Max(s)]>>]

Iterates(F, base, seq, n, S, it) ==
  /\ it \in [SUBSET (1..n) -> S]
  /\ \A s \in SUBSET (1..n) : it[s] = Step(F, base, seq, it, s)

LEMMA FoldExists ==
  ASSUME NEW S, NEW E, NEW F \in [S \X E -> S], NEW base \in S,
         NEW n \in Nat, NEW seq \in [1..n -> E]
  PROVE  \E it : Iterates(F, base, seq, n, S, it)
<1> DEFINE T == {k \in 0..n : \E it : Iterates(F, base, seq, k, S, it)}
<1>1. 0 \in T
  <2> DEFINE it == [s \in SUBSET (1..0) |-> base]
  <2>1. Iterates(F, base, seq, 0, S, it)
    BY DEF Step, Iterates
  <2> QED
    BY <2>1
<1>2. ASSUME NEW k \in 1..n, k - 1 \in T
      PROVE  k \in T
  <2>1. PICK g : Iterates(F, base, seq, k - 1, S, g)
    BY <1>2
  <2> DEFINE h == [s \in SUBSET (1..k) |-> IF k \in s THEN F[<<g[s \ {k}], seq[k]>>] ELSE g[s]]
  <2>2. ASSUME NEW s \in SUBSET (1..k), k \notin s
        PROVE  s \in SUBSET (1 .. k - 1)
    BY <2>2
  <2>3. ASSUME NEW s \in SUBSET (1..k)
        PROVE  s \ {k} \in SUBSET (1 .. k - 1)
    OBVIOUS
  <2>4. h \in [SUBSET (1..k) -> S]
    BY <2>1, <2>2, <2>3 DEF Iterates
  <2>5. ASSUME NEW s \in SUBSET (1..k)
        PROVE  h[s] = Step(F, base, seq, h, s)
    <3>1. CASE k \in s
      <4>1. Max(s) \in s /\ k <= Max(s)
        <5>1. k \in Nat /\ s # {}
          BY <3>1
        <5> QED
          BY <3>1, <5>1, Largest
      <4>2. Max(s) = k
        <5>1. Max(s) \in 1..k
          BY <4>1
        <5> QED
          BY <4>1, <5>1
      <4>3. h[s \ {k}] = g[s \ {k}]
        BY <2>3
      <4> QED
        BY <3>1, <4>2, <4>3 DEF Step
    <3>2. CASE k \notin s /\ s # {}
      <4>1. s \in SUBSET (1 .. k - 1) /\ s \ {Max(s)} \in SUBSET (1 .. k - 1)
        BY <3>2, <2>2
      <4>2. h[s] = g[s] /\ h[s \ {Max(s)}] = g[s \ {Max(s)}]
        BY <3>2, <4>1
      <4> QED
        BY <2>1, <3>2, <4>1, <4>2 DEF Step, Iterates
    <3>3. CASE s = {}
      BY <2>1, <2>2, <3>3 DEF Step, Iterates
    <3> QED
      BY <3>1, <3>2, <3>3
  <2>6. Iterates(F, base, seq, k, S, h)
    BY <2>4, <2>5 DEF Iterates
  <2> QED
    BY <2>6
<1>3. n \in T
  <2> HIDE DEF T
  <2>1. \A i \in 0..n : i \in T
    BY <1>1, <1>2, UpTo
  <2> QED
    BY <2>1
<1> QED
  BY <1>3

\* What is left of 1..i without its largest is 1 .. i - 1: folds go from the left.
LEMMA Indexes ==
  ASSUME NEW i \in Nat, i # 0
  PROVE  1..i # {} /\ Max(1..i) = i /\ (1..i) \ {i} = 1 .. i - 1
<1> DEFINE s == 1..i
<1>1. s # {} /\ s \in SUBSET (1..i) /\ i \in s
  OBVIOUS
<1>2. Max(s) \in s /\ i <= Max(s)
  <2> HIDE DEF s
  <2> QED
    BY <1>1, Largest
<1>3. (1..i) \ {i} = 1 .. i - 1
  OBVIOUS
<1> QED
  BY <1>1, <1>2, <1>3

\* The same of an iteration whose results are only known to be in S one by one.
Unfolds(F, base, seq, n, S, it) ==
  /\ it[{}] = base
  /\ \A s \in SUBSET (1..n) : s # {} /\ it[s \ {Max(s)}] \in S =>
       it[s] = F[<<it[s \ {Max(s)}], seq[Max(s)]>>]

\* A fold, seen as the chain of its intermediate results.
Chain(F, base, seq, n, S, h, result) ==
  /\ h \in [0..n -> S]
  /\ h[0] = base
  /\ h[n] = result
  /\ \A i \in 1..n : h[i] = F[<<h[i - 1], seq[i]>>]

\* A function that satisfies the equation of a fold has the chain of its results.
LEMMA FoldChain ==
  ASSUME NEW S, NEW E, NEW F \in [S \X E -> S], NEW base \in S,
         NEW n \in Nat, NEW seq \in [1..n -> E], NEW iter,
         Unfolds(F, base, seq, n, S, iter)
  PROVE  \E h : Chain(F, base, seq, n, S, h, iter[1..n])
<1> DEFINE h == [i \in 0..n |-> iter[1..i]]
           T == {i \in 0..n : iter[1..i] \in S}
<1>1. ASSUME NEW i \in 1..n, i - 1 \in T
      PROVE  iter[1..i] = F[<<iter[1 .. i - 1], seq[i]>>]
  <2>1. i \in Nat /\ i # 0
    OBVIOUS
  <2>2. 1..i # {} /\ Max(1..i) = i /\ (1..i) \ {i} = 1 .. i - 1
    BY <2>1, Indexes
  <2>3. 1..i \in SUBSET (1..n) /\ iter[1 .. i - 1] \in S
    BY <1>1
  <2> QED
    BY <2>2, <2>3 DEF Unfolds
<1>2. iter[1..0] = base
  BY DEF Unfolds
<1>3. 0 \in T
  BY <1>2
<1>4. ASSUME NEW i \in 1..n, i - 1 \in T
      PROVE  i \in T
  <2>1. iter[1 .. i - 1] \in S /\ seq[i] \in E
    BY <1>4
  <2>2. iter[1..i] = F[<<iter[1 .. i - 1], seq[i]>>]
    BY <1>1, <1>4
  <2>3. iter[1..i] \in S
    BY <2>1, <2>2
  <2> QED
    BY <2>3
<1>5. \A i \in 0..n : i \in T
  <2> HIDE DEF T
  <2> QED
    BY <1>3, <1>4, UpTo
<1>6. h \in [0..n -> S] /\ h[0] = base /\ h[n] = iter[1..n]
  BY <1>2, <1>5
<1>7. \A i \in 1..n : h[i] = F[<<h[i - 1], seq[i]>>]
  BY <1>1, <1>5
<1> QED
  BY <1>6, <1>7 DEF Chain

\* Every fold has its chain.
LEMMA ChainExists ==
  ASSUME NEW S, NEW E, NEW F \in [S \X E -> S], NEW base \in S,
         NEW n \in Nat, NEW seq \in [1..n -> E]
  PROVE  \E h, r : Chain(F, base, seq, n, S, h, r)
<1>1. PICK iter : Iterates(F, base, seq, n, S, iter)
  BY FoldExists
<1>2. Unfolds(F, base, seq, n, S, iter)
  BY <1>1 DEF Iterates, Step, Unfolds
<1> QED
  BY <1>2, FoldChain

-----------------------------------------------------------------------------
(* The folds of Quadlet.                                                   *)

\* The elements of T are kept one after the other.
LEMMA KeepChain ==
  ASSUME NEW E, NEW seq \in Seq(E), NEW T
  PROVE  \E h : /\ h \in [0..Len(seq) -> Seq(E \cap T)]
                /\ h[Len(seq)] = Keep(seq, T)
<1> DEFINE op(x, e) == IF e \in T THEN Append(x, e) ELSE x
           n == Len(seq)
           S == Seq(E \cap T)
           F == [p \in S \X E |-> op(p[1], p[2])]
           Unrolled(it) == [s \in SUBSET DOMAIN seq |->
                          IF s = {} THEN <<>> ELSE op(it[s \ {Max(s)}], seq[Max(s)])]
           iter == CHOOSE it : it = Unrolled(it)
<1>1. n \in Nat /\ seq \in [1..n -> E] /\ <<>> \in S /\ DOMAIN seq = 1..n
  OBVIOUS
<1>2. F \in [S \X E -> S]
  OBVIOUS
<1>3. PICK g : Iterates(F, <<>>, seq, n, S, g)
  <2> HIDE DEF n, F, S
  <2> QED
    BY <1>1, <1>2, FoldExists
<1>4. g = Unrolled(g)
  <2>1. ASSUME NEW s \in SUBSET (1..n), s # {}
        PROVE  g[s] = op(g[s \ {Max(s)}], seq[Max(s)])
    <3>1. Max(s) \in 1..n
      BY <1>1, <2>1, Largest
    <3> QED
      BY <1>1, <1>3, <2>1, <3>1 DEF Step, Iterates
  <2> QED
    BY <1>1, <1>3, <2>1 DEF Step, Iterates
<1>5. iter = Unrolled(iter)
  BY <1>4
<1>6. Keep(seq, T) = iter[DOMAIN seq]
  BY DEF Keep, FoldLeft, MapThenFoldSet
<1> HIDE DEF iter
<1>7. iter[{}] = <<>>
  BY <1>5
<1>8. ASSUME NEW s \in SUBSET (1..n), s # {}, iter[s \ {Max(s)}] \in S
      PROVE  iter[s] = F[<<iter[s \ {Max(s)}], seq[Max(s)]>>]
  <2>1. Max(s) \in 1..n
    BY <1>1, <1>8, Largest
  <2> QED
    BY <1>1, <1>5, <1>8, <2>1
<1>9. \E h : Chain(F, <<>>, seq, n, S, h, iter[1..n])
  <2> HIDE DEF n, F, S
  <2>1. Unfolds(F, <<>>, seq, n, S, iter)
    BY <1>7, <1>8 DEF Unfolds
  <2> QED
    BY <1>1, <1>2, <2>1, FoldChain
<1> QED
  BY <1>1, <1>6, <1>9 DEF Chain

\* Keep leads to a sequence of what the sequence has in T.
LEMMA KeepIn ==
  ASSUME NEW E, NEW seq \in Seq(E), NEW T
  PROVE  Keep(seq, T) \in Seq(E \cap T)
BY KeepChain

\* The defaults are added one after the other.
LEMMA DefaultsChain ==
  ASSUME NEW E, NEW base \in Seq(E), NEW ds \in Seq(E)
  PROVE  \E h : /\ h \in [0..Len(ds) -> Seq(E)]
                /\ h[0] = base
                /\ h[Len(ds)] = AddDefaults(base, ds)
                /\ \A i \in 1..Len(ds) : h[i] = AddDefault(h[i - 1], ds[i])
<1> DEFINE n == Len(ds)
           R == Seq(E)
           F == [p \in R \X E |-> AddDefault(p[1], p[2])]
           Unrolled(it) == [s \in SUBSET DOMAIN ds |->
             IF s = {} THEN base ELSE AddDefault(it[s \ {Max(s)}], ds[Max(s)])]
           iter == CHOOSE it : it = Unrolled(it)
<1>1. n \in Nat /\ ds \in [1..n -> E] /\ base \in R /\ DOMAIN ds = 1..n
  OBVIOUS
<1>2. F \in [R \X E -> R]
  BY DEF AddDefault
<1>3. PICK g : Iterates(F, base, ds, n, R, g)
  <2> HIDE DEF n, F, R
  <2> QED
    BY <1>1, <1>2, FoldExists
<1>4. g = Unrolled(g)
  <2>1. ASSUME NEW s \in SUBSET (1..n), s # {}
        PROVE  g[s] = AddDefault(g[s \ {Max(s)}], ds[Max(s)])
    <3>1. Max(s) \in 1..n
      BY <1>1, <2>1, Largest
    <3> QED
      BY <1>1, <1>3, <2>1, <3>1 DEF Step, Iterates
  <2> QED
    BY <1>1, <1>3, <2>1 DEF Step, Iterates
<1>5. iter = Unrolled(iter)
  BY <1>4
<1>6. AddDefaults(base, ds) = iter[DOMAIN ds]
  BY DEF AddDefaults, FoldLeft, MapThenFoldSet
<1> HIDE DEF iter
<1>7. iter[{}] = base
  BY <1>5
<1>8. ASSUME NEW s \in SUBSET (1..n), s # {}, iter[s \ {Max(s)}] \in R
      PROVE  iter[s] = F[<<iter[s \ {Max(s)}], ds[Max(s)]>>]
  <2>1. Max(s) \in 1..n
    BY <1>1, <1>8, Largest
  <2> QED
    BY <1>1, <1>5, <1>8, <2>1
<1>9. PICK h : Chain(F, base, ds, n, R, h, iter[1..n])
  <2> HIDE DEF n, F, R
  <2>1. Unfolds(F, base, ds, n, R, iter)
    BY <1>7, <1>8 DEF Unfolds
  <2> QED
    BY <1>1, <1>2, <2>1, FoldChain
<1>10. ASSUME NEW i \in 1..n
       PROVE  h[i] = AddDefault(h[i - 1], ds[i])
  <2>1. h[i - 1] \in R /\ ds[i] \in E
    BY <1>1, <1>9 DEF Chain
  <2> HIDE DEF R
  <2> QED
    BY <1>9, <2>1 DEF Chain
<1>11. h \in [0..n -> R] /\ h[0] = base /\ h[n] = AddDefaults(base, ds)
  <2> HIDE DEF n, R
  <2> QED
    BY <1>1, <1>6, <1>9 DEF Chain
<1> HIDE DEF F
<1> QED
  BY <1>10, <1>11

\* The store of every step of creating the secrets.
Creation(h, base, ss, D, V) ==
  /\ h \in [0..Len(ss) -> [D -> V]]
  /\ h[0] = base
  /\ h[Len(ss)] = CreateSecrets(base, ss)
  /\ \A i \in 1..Len(ss) : h[i] = [h[i - 1] EXCEPT ![PodmanName(ss[i])] = ss[i].value]

\* The secrets are created one after the other.
LEMMA StoreChain ==
  ASSUME NEW D, NEW V, NEW base \in [D -> V], NEW E, NEW ss \in Seq(E), \A e \in E : e.value \in V
  PROVE  \E h : Creation(h, base, ss, D, V)
<1> DEFINE n == Len(ss)
           R == [D -> V]
           F == [p \in R \X E |-> [p[1] EXCEPT ![PodmanName(p[2])] = p[2].value]]
           Unrolled(it) == [s \in SUBSET DOMAIN ss |->
             IF s = {} THEN base
             ELSE [it[s \ {Max(s)}] EXCEPT ![PodmanName(ss[Max(s)])] = ss[Max(s)].value]]
           iter == CHOOSE it : it = Unrolled(it)
<1>1. n \in Nat /\ ss \in [1..n -> E] /\ base \in R /\ DOMAIN ss = 1..n
  OBVIOUS
<1>2. F \in [R \X E -> R]
  OBVIOUS
<1>3. PICK g : Iterates(F, base, ss, n, R, g)
  <2> HIDE DEF n, F, R
  <2> QED
    BY <1>1, <1>2, FoldExists
<1>4. g = Unrolled(g)
  <2>1. ASSUME NEW s \in SUBSET (1..n), s # {}
        PROVE  g[s] = [g[s \ {Max(s)}] EXCEPT ![PodmanName(ss[Max(s)])] = ss[Max(s)].value]
    <3>1. Max(s) \in 1..n
      BY <1>1, <2>1, Largest
    <3> QED
      BY <1>1, <1>3, <2>1, <3>1 DEF Step, Iterates
  <2> QED
    BY <1>1, <1>3, <2>1 DEF Step, Iterates
<1>5. iter = Unrolled(iter)
  BY <1>4
<1>6. CreateSecrets(base, ss) = iter[DOMAIN ss]
  BY DEF CreateSecrets, FoldLeft, MapThenFoldSet
<1> HIDE DEF iter
<1>7. iter[{}] = base
  BY <1>5
<1>8. ASSUME NEW s \in SUBSET (1..n), s # {}, iter[s \ {Max(s)}] \in R
      PROVE  iter[s] = F[<<iter[s \ {Max(s)}], ss[Max(s)]>>]
  <2>1. Max(s) \in 1..n
    BY <1>1, <1>8, Largest
  <2> QED
    BY <1>1, <1>5, <1>8, <2>1
<1>9. PICK h : Chain(F, base, ss, n, R, h, iter[1..n])
  <2> HIDE DEF n, F, R
  <2>1. Unfolds(F, base, ss, n, R, iter)
    BY <1>7, <1>8 DEF Unfolds
  <2> QED
    BY <1>1, <1>2, <2>1, FoldChain
<1>10. ASSUME NEW i \in 1..n
       PROVE  h[i] = [h[i - 1] EXCEPT ![PodmanName(ss[i])] = ss[i].value]
  <2>1. h[i - 1] \in R /\ ss[i] \in E
    BY <1>1, <1>9 DEF Chain
  <2> HIDE DEF R
  <2> QED
    BY <1>9, <2>1 DEF Chain
<1>11. h \in [0..n -> R] /\ h[0] = base /\ h[n] = CreateSecrets(base, ss)
  <2> HIDE DEF n, R
  <2> QED
    BY <1>1, <1>6, <1>9 DEF Chain
<1> HIDE DEF F
<1> QED
  BY <1>10, <1>11 DEF Creation

-----------------------------------------------------------------------------
(* Merging.                                                                *)

\* The lines with values in V, and the sections of such lines.  (To the provers a
\* literal is not in STRING.)
Line(V)     == [key : STRING \cup {"Secret"}, value : V, plus : BOOLEAN]
Sections(V) == [name : STRING, entries : Seq(Line(V))]

\* A key is set in two runs of lines when it is set in one of them.
LEMMA HasKeyConcat ==
  ASSUME NEW V, NEW s \in Seq(Line(V)), NEW t \in Seq(Line(V)), NEW k
  PROVE  HasKey(s \o t, k) <=> HasKey(s, k) \/ HasKey(t, k)
<1>1. ASSUME NEW i \in DOMAIN s
      PROVE  i \in DOMAIN (s \o t) /\ (s \o t)[i] = s[i]
  OBVIOUS
<1>2. ASSUME NEW i \in DOMAIN t
      PROVE  Len(s) + i \in DOMAIN (s \o t) /\ (s \o t)[Len(s) + i] = t[i]
  OBVIOUS
<1>3. ASSUME NEW i \in DOMAIN (s \o t), i \notin DOMAIN s
      PROVE  i - Len(s) \in DOMAIN t /\ (s \o t)[i] = t[i - Len(s)]
  BY <1>3
<1>4. HasKey(s, k) \/ HasKey(t, k) => HasKey(s \o t, k)
  BY <1>1, <1>2 DEF HasKey
<1>5. HasKey(s \o t, k) => HasKey(s, k) \/ HasKey(t, k)
  BY <1>1, <1>3 DEF HasKey
<1> QED
  BY <1>4, <1>5

\* What the first n of the defaults ds add to base: lines for keys that are not there,
\* one for each; and then every key is there.
Missing(added, base, ds, n) ==
  /\ \A k \in 1..Len(added) : /\ added[k] \in Range(ds)
                              /\ ~HasKey(base, added[k].key)
                              /\ \A m \in 1..Len(added) : m < k => added[m].key # added[k].key
  /\ \A i \in 1..n : HasKey(base \o added, ds[i].key)

\* One more default is added when, and only when, it is missing.
LEMMA MissingOne ==
  ASSUME NEW V, NEW base \in Seq(Line(V)), NEW ds \in Seq(Line(V)),
         \A i \in DOMAIN ds : ~ds[i].plus,
         NEW i \in 1..Len(ds), NEW added \in Seq(Line(V)), Missing(added, base, ds, i - 1)
  PROVE  \E more \in Seq(Line(V)) : /\ AddDefault(base \o added, ds[i]) = base \o more
                                    /\ Missing(more, base, ds, i)
<1> DEFINE d == ds[i]
<1>1. d \in Line(V) /\ d \in Range(ds) /\ ~d.plus
  BY DEF Range
<1>2. CASE HasKey(base \o added, d.key)
  <2>1. AddDefault(base \o added, d) = base \o added
    BY <1>2 DEF AddDefault
  <2>2. Missing(added, base, ds, i)
    BY <1>2 DEF Missing
  <2> QED
    BY <2>1, <2>2
<1>3. CASE ~HasKey(base \o added, d.key)
  <2> DEFINE more == Append(added, d)
  <2>1. more \in Seq(Line(V)) /\ Append(base \o added, d) = base \o more
    <3> HIDE DEF d
    <3>1. d \in Line(V)
      BY <1>1
    <3>2. more \in Seq(Line(V))
      BY <3>1, AppendProperties
    <3>3. Append(base \o added, d) = base \o Append(added, d)
      <4> DEFINE L == Line(V)
      <4>1. base \in Seq(L) /\ added \in Seq(L) /\ d \in L
        BY <3>1
      <4> HIDE DEF L
      <4> QED
        BY ONLY <4>1
    <3> QED
      BY <3>2, <3>3
  <2>2. AddDefault(base \o added, d) = base \o more
    BY <1>3, <2>1 DEF AddDefault
  <2>3. ~HasKey(base, d.key) /\ ~HasKey(added, d.key)
    BY <1>3, HasKeyConcat
  <2>4. \A m \in 1..Len(added) : added[m].key # d.key
    <3>1. \A m \in 1..Len(added) : ~added[m].plus
      BY DEF Missing, Range
    <3> QED
      BY <2>3, <3>1 DEF HasKey
  <2>5. /\ Len(more) = Len(added) + 1 /\ more[Len(more)] = d
        /\ \A k \in 1..Len(added) : more[k] = added[k]
    BY <1>1
  <2>6. \A k \in 1..Len(more) :
          /\ more[k] \in Range(ds)
          /\ ~HasKey(base, more[k].key)
          /\ \A m \in 1..Len(more) : m < k => more[m].key # more[k].key
    <3> SUFFICES ASSUME NEW k \in 1..Len(more)
                 PROVE  /\ more[k] \in Range(ds)
                        /\ ~HasKey(base, more[k].key)
                        /\ \A m \in 1..Len(more) : m < k => more[m].key # more[k].key
      OBVIOUS
    <3>1. CASE k = Len(more)
      BY <1>1, <2>3, <2>4, <2>5, <3>1
    <3>2. CASE k \in 1..Len(added)
      BY <2>5, <3>2 DEF Missing
    <3> QED
      BY <2>5, <3>1, <3>2
  <2>7. ASSUME NEW x \in 1..i
        PROVE  HasKey(base \o more, ds[x].key)
    <3>1. CASE x = i
      <4>1. HasKey(more, d.key)
        BY <1>1, <2>1, <2>5 DEF HasKey
      <4> QED
        BY <2>1, <3>1, <4>1, HasKeyConcat
    <3>2. CASE x # i
      <4>1. HasKey(base \o added, ds[x].key)
        BY <3>2 DEF Missing
      <4>2. HasKey(base, ds[x].key) \/ HasKey(added, ds[x].key)
        BY <4>1, HasKeyConcat
      <4>3. HasKey(added, ds[x].key) => HasKey(more, ds[x].key)
        BY <2>5 DEF HasKey
      <4> QED
        BY <2>1, <4>2, <4>3, HasKeyConcat
    <3> QED
      BY <3>1, <3>2
  <2>8. Missing(more, base, ds, i)
    BY <2>6, <2>7 DEF Missing
  <2> QED
    BY <2>1, <2>2, <2>8
<1> QED
  BY <1>2, <1>3

\* AddDefaults adds what is missing.
LEMMA DefaultsAdded ==
  ASSUME NEW V, NEW base \in Seq(Line(V)), NEW ds \in Seq(Line(V)),
         \A i \in DOMAIN ds : ~ds[i].plus
  PROVE  \E added \in Seq(Line(V)) : /\ AddDefaults(base, ds) = base \o added
                                     /\ Missing(added, base, ds, Len(ds))
<1>1. PICK h : /\ h \in [0..Len(ds) -> Seq(Line(V))]
               /\ h[0] = base
               /\ h[Len(ds)] = AddDefaults(base, ds)
               /\ \A i \in 1..Len(ds) : h[i] = AddDefault(h[i - 1], ds[i])
  BY DefaultsChain
<1> DEFINE T == {i \in 0..Len(ds) : \E added \in Seq(Line(V)) :
                                      h[i] = base \o added /\ Missing(added, base, ds, i)}
<1>2. 0 \in T
  <2>1. Missing(<<>>, base, ds, 0)
    BY DEF Missing
  <2>2. h[0] = base \o <<>> /\ <<>> \in Seq(Line(V))
    BY <1>1
  <2>3. Len(ds) \in Nat
    OBVIOUS
  <2>4. \E added \in Seq(Line(V)) : h[0] = base \o added /\ Missing(added, base, ds, 0)
    BY <2>1, <2>2
  <2> QED
    BY <2>3, <2>4
<1>3. ASSUME NEW i \in 1..Len(ds), i - 1 \in T
      PROVE  i \in T
  <2>1. PICK added \in Seq(Line(V)) : h[i - 1] = base \o added /\ Missing(added, base, ds, i - 1)
    BY <1>3
  <2>2. \E more \in Seq(Line(V)) : h[i] = base \o more /\ Missing(more, base, ds, i)
    <3>1. h[i] = AddDefault(base \o added, ds[i])
      BY <1>1, <2>1
    <3>2. \E more \in Seq(Line(V)) : /\ AddDefault(base \o added, ds[i]) = base \o more
                                     /\ Missing(more, base, ds, i)
      BY <2>1, MissingOne
    <3> QED
      BY <3>1, <3>2
  <2>3. i \in 0..Len(ds)
    OBVIOUS
  <2> QED
    BY <2>2, <2>3
<1>4. \A i \in 0..Len(ds) : i \in T
  <2>1. Len(ds) \in Nat
    OBVIOUS
  <2> HIDE DEF T
  <2> QED
    BY <1>2, <1>3, <2>1, UpTo
<1>5. Len(ds) \in T
  BY <1>4
<1> QED
  BY <1>1, <1>5

\* The "+" lines of a section, without their "+", and its defaults are lines of it.
LEMMA PlusLines ==
  ASSUME NEW V, NEW es \in Seq(Line(V))
  PROVE  /\ StripPlus(WithPlus(es)) \in Seq(Line(V))
         /\ WithoutPlus(es) \in Seq(Line(V))
         /\ Range(WithoutPlus(es)) \subseteq Range(es)
         /\ \A i \in DOMAIN WithoutPlus(es) : ~WithoutPlus(es)[i].plus
         /\ \A x \in Range(StripPlus(WithPlus(es))) :
              \E y \in Range(es) : x = [y EXCEPT !.plus = FALSE]
<1> DEFINE P == {e \in Range(es) : e.plus}
           Q == {e \in Range(es) : ~e.plus}
<1>1. es \in Seq(Range(es)) /\ Range(es) \subseteq Line(V)
  BY SeqOfRange, RangeOfSeq
<1>2. WithPlus(es) \in Seq(P) /\ WithoutPlus(es) \in Seq(Q)
  <2>1. Keep(es, P) \in Seq(Range(es) \cap P) /\ Keep(es, Q) \in Seq(Range(es) \cap Q)
    <3> HIDE DEF P, Q
    <3> QED
      BY <1>1, KeepIn
  <2>2. Range(es) \cap P = P /\ Range(es) \cap Q = Q
    OBVIOUS
  <2> QED
    BY <2>1, <2>2 DEF WithPlus, WithoutPlus
<1>3. \A i \in DOMAIN WithoutPlus(es) : WithoutPlus(es)[i] \in Q
  BY <1>2
<1>4. \A i \in DOMAIN WithPlus(es) : WithPlus(es)[i] \in P
  BY <1>2
<1>5. WithoutPlus(es) \in Seq(Line(V))
  <2>1. Q \subseteq Line(V)
    BY <1>1
  <2> HIDE DEF Q
  <2> QED
    BY <1>2, <2>1, SeqMonotonic
<1>6. StripPlus(WithPlus(es)) \in Seq(Line(V))
  <2>1. \A i \in DOMAIN WithPlus(es) : [WithPlus(es)[i] EXCEPT !.plus = FALSE] \in Line(V)
    <3>1. \A i \in DOMAIN WithPlus(es) : WithPlus(es)[i] \in Line(V)
      BY <1>1, <1>4
    <3> QED
      BY <3>1 DEF Line
  <2>2. \E n \in Nat : DOMAIN WithPlus(es) = 1..n
    <3> HIDE DEF P
    <3> QED
      BY <1>2
  <2> QED
    BY <2>1, <2>2 DEF StripPlus
<1>7. Range(WithoutPlus(es)) \subseteq Range(es)
  BY <1>3 DEF Range
<1>8. \A x \in Range(StripPlus(WithPlus(es))) :
        \E y \in Range(es) : x = [y EXCEPT !.plus = FALSE]
  BY <1>4 DEF Range, StripPlus
<1> QED
  BY <1>3, <1>5, <1>6, <1>7, <1>8

\* IndexOf is the index of the first section of the name.
LEMMA FirstIndex ==
  ASSUME NEW S, NEW body \in Seq(S), NEW s, HasSection(body, s)
  PROVE  /\ IndexOf(body, s) \in DOMAIN body
         /\ body[IndexOf(body, s)].name = s
         /\ \A i \in DOMAIN body : body[i].name = s => IndexOf(body, s) <= i
<1> DEFINE I == {i \in 1..Len(body) : body[i].name = s}
<1>1. I \in SUBSET Nat /\ I # {}
  BY DEF HasSection
<1>2. PICK m \in I : \A i \in I : m <= i
  <2> HIDE DEF I
  <2> QED
    BY <1>1, Least
<1>3. IndexOf(body, s) = Min(I)
  BY <1>1 DEF IndexOf, SelectInSeq
<1>4. Min(I) \in I /\ \A i \in I : Min(I) <= i
  <2> HIDE DEF I
  <2> QED
    BY <1>1, <1>2 DEF Min
<1> QED
  BY <1>3, <1>4

\* The rules for a section are lines, and none where there is no such section.
LEMMA RulesTyped ==
  ASSUME NEW V, NEW trans \in Seq(Sections(V)), NEW s
  PROVE  Rules(trans, s) \in Seq(Line(V))
<1>1. CASE HasSection(trans, s)
  <2>1. IndexOf(trans, s) \in DOMAIN trans
    BY <1>1, FirstIndex
  <2>2. trans[IndexOf(trans, s)] \in Sections(V)
    BY <2>1
  <2> QED
    BY <1>1, <2>2 DEF Rules, GetSection, Sections
<1>2. CASE ~HasSection(trans, s)
  BY <1>2 DEF Rules
<1> QED
  BY <1>1, <1>2

\* What a transform does to a section of the spec.
Extended(es, rules, V, got) ==
  \E added \in Seq(Line(V)) :
    /\ got = (StripPlus(WithPlus(rules)) \o es) \o added
    /\ Missing(added, StripPlus(WithPlus(rules)) \o es,
               WithoutPlus(rules), Len(WithoutPlus(rules)))

\* MergeSection prepends and adds defaults, and does no more.
LEMMA SectionExtended ==
  ASSUME NEW V, NEW es \in Seq(Line(V)), NEW rules \in Seq(Line(V))
  PROVE  /\ MergeSection(es, rules) \in Seq(Line(V))
         /\ Extended(es, rules, V, MergeSection(es, rules))
<1> DEFINE pre == StripPlus(WithPlus(rules))
           ds == WithoutPlus(rules)
<1>1. pre \in Seq(Line(V)) /\ ds \in Seq(Line(V)) /\ \A i \in DOMAIN ds : ~ds[i].plus
  BY PlusLines
<1>2. pre \o es \in Seq(Line(V))
  BY <1>1
<1>3. PICK added \in Seq(Line(V)) : /\ AddDefaults(pre \o es, ds) = (pre \o es) \o added
                                    /\ Missing(added, pre \o es, ds, Len(ds))
  <2> DEFINE base == pre \o es
  <2> HIDE DEF base, ds
  <2>1. \E added \in Seq(Line(V)) : /\ AddDefaults(base, ds) = base \o added
                                    /\ Missing(added, base, ds, Len(ds))
    BY <1>1, <1>2, DefaultsAdded DEF base
  <2> QED
    BY <2>1 DEF base
<1>4. (pre \o es) \o added \in Seq(Line(V))
  BY <1>1, <1>2
<1> QED
  BY <1>3, <1>4 DEF MergeSection, Extended

\* A section for which there are no rules stays as it is.
LEMMA NothingExtended ==
  ASSUME NEW V, NEW es \in Seq(Line(V))
  PROVE  Extended(es, <<>>, V, es)
<1>1. StripPlus(WithPlus(<<>>)) = <<>> /\ WithoutPlus(<<>>) = <<>>
  <2>1. /\ WithPlus(<<>>) \in Seq({}) /\ WithoutPlus(<<>>) \in Seq({})
    <3>1. <<>> \in Seq({}) /\ Range(<<>>) = {}
      BY DEF Range
    <3> QED
      BY <3>1, KeepIn DEF WithPlus, WithoutPlus
  <2> QED
    BY <2>1 DEF StripPlus
<1>2. es = (<<>> \o es) \o <<>> /\ <<>> \in Seq(Line(V))
  OBVIOUS
<1>3. Missing(<<>>, <<>> \o es, <<>>, Len(<<>>))
  BY DEF Missing
<1> QED
  BY <1>1, <1>2, <1>3 DEF Extended

\* What a transform does to all sections of the spec.
Merges(spec, trans, V, got) ==
  /\ got \in Seq(Sections(V))
  /\ Len(spec) <= Len(got)
  /\ \A j \in 1..Len(spec) :
       /\ got[j].name = spec[j].name
       /\ Extended(spec[j].entries, Rules(trans, spec[j].name), V, got[j].entries)

\* MergeTransform does that to each section, and puts new sections behind them.
LEMMA MergeIs ==
  ASSUME NEW V, NEW spec \in Seq(Sections(V)), NEW trans \in Seq(Sections(V))
  PROVE  Merges(spec, trans, V, MergeTransform(spec, trans))
<1> DEFINE Merged(sec) ==
             IF HasSection(trans, sec.name)
             THEN [sec EXCEPT !.entries = MergeSection(@, GetSection(trans, sec.name).entries)]
             ELSE sec
           New == Keep(trans, {sec \in Range(trans) : ~HasSection(spec, sec.name)})
           left == [i \in DOMAIN spec |-> Merged(spec[i])]
           right == [i \in DOMAIN New |-> [New[i] EXCEPT !.entries = StripPlus(@)]]
<1>1. MergeTransform(spec, trans) = left \o right
  BY DEF MergeTransform
<1>2. ASSUME NEW j \in 1..Len(spec)
      PROVE  /\ Merged(spec[j]) \in Sections(V)
             /\ Merged(spec[j]).name = spec[j].name
             /\ Extended(spec[j].entries, Rules(trans, spec[j].name), V, Merged(spec[j]).entries)
  <2> DEFINE sec == spec[j]
             rules == Rules(trans, sec.name)
  <2>1. sec \in Sections(V) /\ sec.entries \in Seq(Line(V)) /\ rules \in Seq(Line(V))
    <3>1. sec \in Sections(V)
      OBVIOUS
    <3>2. sec.entries \in Seq(Line(V))
      BY <3>1 DEF Sections
    <3>3. rules \in Seq(Line(V))
      BY RulesTyped
    <3> QED
      BY <3>1, <3>2, <3>3
  <2>2. CASE HasSection(trans, sec.name)
    <3>1. Merged(sec) = [sec EXCEPT !.entries = MergeSection(sec.entries, rules)]
      BY <2>2 DEF Rules
    <3>2. /\ MergeSection(sec.entries, rules) \in Seq(Line(V))
          /\ Extended(sec.entries, rules, V, MergeSection(sec.entries, rules))
      <4> HIDE DEF sec, rules
      <4> QED
        BY <2>1, SectionExtended
    <3>3. /\ Merged(sec) \in Sections(V) /\ Merged(sec).name = sec.name
          /\ Merged(sec).entries = MergeSection(sec.entries, rules)
      <4> HIDE DEF sec, rules, Merged
      <4> QED
        BY <2>1, <3>1, <3>2 DEF Sections
    <3> QED
      BY <3>2, <3>3
  <2>3. CASE ~HasSection(trans, sec.name)
    <3>1. Merged(sec) = sec /\ rules = <<>>
      BY <2>3 DEF Rules
    <3> QED
      BY <2>1, <3>1, NothingExtended
  <2> QED
    BY <2>2, <2>3
<1>3. left \in Seq(Sections(V)) /\ Len(left) = Len(spec)
  <2> HIDE DEF Merged
  <2>1. \A j \in DOMAIN spec : Merged(spec[j]) \in Sections(V)
    BY <1>2
  <2>2. Len(spec) \in Nat /\ DOMAIN spec = 1..Len(spec)
    OBVIOUS
  <2> QED
    BY <2>1, <2>2
<1>4. right \in Seq(Sections(V))
  <2>1. New \in Seq(Sections(V))
    <3> DEFINE U == {sec \in Range(trans) : ~HasSection(spec, sec.name)}
    <3>1. Keep(trans, U) \in Seq(Sections(V) \cap U)
      <4> HIDE DEF U
      <4> QED
        BY KeepIn
    <3> HIDE DEF U
    <3> QED
      BY <3>1, SeqMonotonic DEF U
  <2> HIDE DEF New
  <2>2. ASSUME NEW i \in DOMAIN New
        PROVE  [New[i] EXCEPT !.entries = StripPlus(@)] \in Sections(V)
    <3>1. New[i] \in Sections(V)
      BY <2>1
    <3>2. StripPlus(New[i].entries) \in Seq(Line(V))
      <4>1. New[i].entries \in Seq(Line(V))
        BY <3>1 DEF Sections
      <4>2. \A k \in DOMAIN New[i].entries : [New[i].entries[k] EXCEPT !.plus = FALSE] \in Line(V)
        <5>1. \A k \in DOMAIN New[i].entries : New[i].entries[k] \in Line(V)
          BY <4>1
        <5> QED
          BY <5>1 DEF Line
      <4>3. Len(New[i].entries) \in Nat /\ DOMAIN New[i].entries = 1..Len(New[i].entries)
        BY <4>1
      <4> QED
        BY <4>2, <4>3 DEF StripPlus
    <3> QED
      BY <3>1, <3>2 DEF Sections
  <2>3. Len(New) \in Nat /\ DOMAIN New = 1..Len(New)
    BY <2>1
  <2> QED
    BY <2>2, <2>3
<1> HIDE DEF Merged, New, left, right
<1>5. /\ left \o right \in Seq(Sections(V)) /\ Len(spec) <= Len(left \o right)
      /\ \A j \in 1..Len(spec) : (left \o right)[j] = left[j]
  BY <1>3, <1>4
<1>6. \A j \in 1..Len(spec) : left[j] = Merged(spec[j])
  BY DEF left
<1> QED
  BY <1>1, <1>2, <1>5, <1>6 DEF Merges

\* The transforms are applied one after the other.
LEMMA MergesChain ==
  ASSUME NEW V, NEW base \in Seq(Sections(V)), NEW ts \in Seq(Seq(Sections(V)))
  PROVE  \E h : /\ h \in [0..Len(ts) -> Seq(Sections(V))]
                /\ h[0] = base
                /\ h[Len(ts)] = ApplyTransforms(base, ts)
                /\ \A i \in 1..Len(ts) : h[i] = MergeTransform(h[i - 1], ts[i])
<1> DEFINE n == Len(ts)
           R == Seq(Sections(V))
           F == [p \in R \X Seq(Sections(V)) |-> MergeTransform(p[1], p[2])]
           Unrolled(it) == [s \in SUBSET DOMAIN ts |->
             IF s = {} THEN base ELSE MergeTransform(it[s \ {Max(s)}], ts[Max(s)])]
           iter == CHOOSE it : it = Unrolled(it)
<1>1. n \in Nat /\ ts \in [1..n -> Seq(Sections(V))] /\ base \in R /\ DOMAIN ts = 1..n
  OBVIOUS
<1>2. F \in [R \X Seq(Sections(V)) -> R]
  <2>1. \A a, b \in Seq(Sections(V)) : MergeTransform(a, b) \in Seq(Sections(V))
    BY MergeIs DEF Merges
  <2> QED
    BY <2>1
<1>3. PICK g : Iterates(F, base, ts, n, R, g)
  <2> HIDE DEF n, F, R
  <2> QED
    BY <1>1, <1>2, FoldExists
<1>4. g = Unrolled(g)
  <2>1. ASSUME NEW s \in SUBSET (1..n), s # {}
        PROVE  g[s] = MergeTransform(g[s \ {Max(s)}], ts[Max(s)])
    <3>1. Max(s) \in 1..n
      BY <1>1, <2>1, Largest
    <3> QED
      BY <1>1, <1>3, <2>1, <3>1 DEF Step, Iterates
  <2> QED
    BY <1>1, <1>3, <2>1 DEF Step, Iterates
<1>5. iter = Unrolled(iter)
  BY <1>4
<1>6. ApplyTransforms(base, ts) = iter[DOMAIN ts]
  BY DEF ApplyTransforms, FoldLeft, MapThenFoldSet
<1> HIDE DEF iter
<1>7. iter[{}] = base
  BY <1>5
<1>8. ASSUME NEW s \in SUBSET (1..n), s # {}, iter[s \ {Max(s)}] \in R
      PROVE  iter[s] = F[<<iter[s \ {Max(s)}], ts[Max(s)]>>]
  <2>1. Max(s) \in 1..n
    BY <1>1, <1>8, Largest
  <2> QED
    BY <1>1, <1>5, <1>8, <2>1
<1>9. PICK h : Chain(F, base, ts, n, R, h, iter[1..n])
  <2> HIDE DEF n, F, R
  <2>1. Unfolds(F, base, ts, n, R, iter)
    BY <1>7, <1>8 DEF Unfolds
  <2> QED
    BY <1>1, <1>2, <2>1, FoldChain
<1>10. ASSUME NEW i \in 1..n
       PROVE  h[i] = MergeTransform(h[i - 1], ts[i])
  <2>1. h[i - 1] \in R /\ ts[i] \in Seq(Sections(V))
    <3>1. i - 1 \in 0..n /\ i \in 1..n
      BY <1>1
    <3> HIDE DEF n, R
    <3> QED
      BY <1>1, <1>9, <3>1 DEF Chain
  <2> HIDE DEF R
  <2> QED
    BY <1>9, <2>1 DEF Chain
<1>11. h \in [0..n -> R] /\ h[0] = base /\ h[n] = ApplyTransforms(base, ts)
  <2> HIDE DEF n, R
  <2> QED
    BY <1>1, <1>6, <1>9 DEF Chain
<1> HIDE DEF F
<1> QED
  BY <1>10, <1>11

\* The recursive function of Prepended exists: its CHOOSE has a witness.
LEMMA PrependedIs ==
  ASSUME NEW V, NEW ts \in Seq(Seq(Sections(V))), NEW s
  PROVE  /\ Prepended(ts, s) \in [0..Len(ts) -> Seq(Line(V))]
         /\ Prepended(ts, s)[0] = <<>>
         /\ \A i \in 1..Len(ts) :
              Prepended(ts, s)[i]
                = StripPlus(WithPlus(Rules(ts[i], s))) \o Prepended(ts, s)[i - 1]
<1> DEFINE n == Len(ts)
           R == Seq(Line(V))
           D == Seq(Sections(V))
           F == [p \in R \X D |-> StripPlus(WithPlus(Rules(p[2], s))) \o p[1]]
           Unrolled(it) == [i \in 0..n |->
             IF i = 0 THEN <<>> ELSE StripPlus(WithPlus(Rules(ts[i], s))) \o it[i - 1]]
           lines == CHOOSE it : it = Unrolled(it)
<1>1. n \in Nat /\ ts \in [1..n -> D] /\ <<>> \in R
  OBVIOUS
<1>2. ASSUME NEW x \in R, NEW t \in D
      PROVE  StripPlus(WithPlus(Rules(t, s))) \o x \in R
  <2>1. StripPlus(WithPlus(Rules(t, s))) \in R
    BY RulesTyped, PlusLines
  <2> QED
    BY <2>1
<1>3. F \in [R \X D -> R]
  <2> HIDE DEF R
  <2> QED
    BY <1>2
<1>4. PICK h, r : Chain(F, <<>>, ts, n, R, h, r)
  <2> HIDE DEF n, F, R, D
  <2> QED
    BY <1>1, <1>3, ChainExists
<1>5. h = Unrolled(h)
  <2>1. ASSUME NEW i \in 0..n, i # 0
        PROVE  h[i] = StripPlus(WithPlus(Rules(ts[i], s))) \o h[i - 1]
    <3>1. h[i - 1] \in R /\ ts[i] \in D /\ i \in 1..n
      BY <1>1, <1>4, <2>1 DEF Chain
    <3> HIDE DEF R, D
    <3> QED
      BY <1>4, <3>1 DEF Chain
  <2>2. h \in [0..n -> R] /\ h[0] = <<>>
    BY <1>4 DEF Chain
  <2> HIDE DEF n, R
  <2> QED
    BY <2>1, <2>2
<1>6. lines = Unrolled(lines)
  BY <1>5
<1>7. Prepended(ts, s) = lines
  BY DEF Prepended
<1> HIDE DEF lines
<1>8. /\ lines[0] = <<>>
      /\ \A i \in 1..n : lines[i] = StripPlus(WithPlus(Rules(ts[i], s))) \o lines[i - 1]
  <2>1. 0 \in 0..n /\ \A i \in 1..n : i \in 0..n /\ i # 0
    BY <1>1
  <2> HIDE DEF n
  <2> QED
    BY <1>6, <2>1
<1>9. \A i \in 0..n : lines[i] \in R
  <2> DEFINE T == {i \in 0..n : lines[i] \in R}
  <2>1. 0 \in T
    <3>1. 0 \in 0..n
      BY <1>1
    <3> HIDE DEF n, R
    <3> QED
      BY <1>1, <1>8, <3>1
  <2>2. ASSUME NEW i \in 1..n, i - 1 \in T
        PROVE  i \in T
    <3>1. lines[i] = StripPlus(WithPlus(Rules(ts[i], s))) \o lines[i - 1]
      BY <1>8
    <3>2. lines[i - 1] \in R /\ ts[i] \in D
      BY <1>1, <2>2
    <3> HIDE DEF R, D
    <3>3. lines[i] \in R
      BY <1>2, <3>1, <3>2
    <3> QED
      BY <3>3
  <2>3. \A i \in 0..n : i \in T
    <3> HIDE DEF T, n
    <3> QED
      BY <1>1, <2>1, <2>2, UpTo
  <2> QED
    BY <2>3
<1> QED
  BY <1>6, <1>7, <1>8, <1>9

\* What the first i transforms have added to a section of the name s, whose lines are es.
Defaulted(added, es, ts, s, i) ==
  /\ \A k \in 1..Len(added) :
       /\ \E x \in 1..i : /\ added[k] \in Range(WithoutPlus(Rules(ts[x], s)))
                          /\ ~HasKey(Prepended(ts, s)[x] \o es, added[k].key)
       /\ ~added[k].plus
       /\ \A m \in 1..Len(added) : m < k => added[m].key # added[k].key
  /\ \A x \in 1..i : \A e \in Range(WithoutPlus(Rules(ts[x], s))) :
       HasKey((Prepended(ts, s)[i] \o es) \o added, e.key)

Documented(es, ts, s, V, i, got) ==
  \E added \in Seq(Line(V)) : /\ got = (Prepended(ts, s)[i] \o es) \o added
                              /\ Defaulted(added, es, ts, s, i)

\* A further transform extends what the earlier ones have made of a section: what it
\* prepends comes first, and its defaults join those that have been added.
LEMMA OneMore ==
  ASSUME NEW V, NEW ts \in Seq(Seq(Sections(V))), NEW s, NEW es \in Seq(Line(V)),
         NEW i \in 1..Len(ts), NEW got, NEW next,
         Documented(es, ts, s, V, i - 1, got), Extended(got, Rules(ts[i], s), V, next)
  PROVE  Documented(es, ts, s, V, i, next)
<1> DEFINE L == Line(V)
           pre == Prepended(ts, s)
           rules == Rules(ts[i], s)
           P == StripPlus(WithPlus(rules))
           ds == WithoutPlus(rules)
<1>1. /\ P \in Seq(L) /\ ds \in Seq(L) /\ \A x \in DOMAIN ds : ~ds[x].plus
      /\ pre[i - 1] \in Seq(L) /\ pre[i] = P \o pre[i - 1]
  <2>1. rules \in Seq(L)
    BY RulesTyped
  <2>2. pre \in [0..Len(ts) -> Seq(L)] /\ pre[i] = P \o pre[i - 1]
    BY PrependedIs
  <2> HIDE DEF rules, pre
  <2> QED
    BY <2>1, <2>2, PlusLines
<1>2. PICK a \in Seq(L) : got = (pre[i - 1] \o es) \o a /\ Defaulted(a, es, ts, s, i - 1)
  BY DEF Documented
<1>3. PICK b \in Seq(L) : next = (P \o got) \o b /\ Missing(b, P \o got, ds, Len(ds))
  BY DEF Extended
<1> DEFINE all == a \o b
           base == pre[i] \o es
<1>4. all \in Seq(L) /\ got \in Seq(L) /\ base \in Seq(L) /\ es \in Seq(L) /\ P \o got \in Seq(L)
  <2> HIDE DEF L, pre, P
  <2>1. es \in Seq(L)
    BY DEF L
  <2> QED
    BY <1>1, <1>2, <2>1
<1>5. next = base \o all
  <2> DEFINE q == pre[i - 1]
  <2> HIDE DEF L, P, q
  <2>1. P \in Seq(L) /\ q \in Seq(L) /\ es \in Seq(L) /\ a \in Seq(L) /\ b \in Seq(L)
    BY <1>1, <1>2, <1>3, <1>4 DEF q
  <2>2. (P \o ((q \o es) \o a)) \o b = ((P \o q) \o es) \o (a \o b)
    BY ONLY <2>1
  <2>3. got = (q \o es) \o a /\ pre[i] = P \o q
    BY <1>1, <1>2 DEF q
  <2> HIDE DEF pre
  <2> QED
    BY <1>3, <2>2, <2>3
<1>6. \A k : HasKey(P \o got, k) <=> HasKey(base, k) \/ HasKey(a, k)
  <2> SUFFICES ASSUME NEW k
               PROVE  HasKey(P \o got, k) <=> HasKey(base, k) \/ HasKey(a, k)
    OBVIOUS
  <2>1. /\ HasKey(P \o got, k) <=> HasKey(P, k) \/ HasKey(got, k)
        /\ HasKey(got, k) <=> HasKey(pre[i - 1] \o es, k) \/ HasKey(a, k)
        /\ HasKey(pre[i - 1] \o es, k) <=> HasKey(pre[i - 1], k) \/ HasKey(es, k)
        /\ HasKey(base, k) <=> HasKey(pre[i], k) \/ HasKey(es, k)
        /\ HasKey(pre[i], k) <=> HasKey(P, k) \/ HasKey(pre[i - 1], k)
    <3> HIDE DEF pre, P
    <3>1. pre[i - 1] \o es \in Seq(L) /\ pre[i] \in Seq(L)
      <4> HIDE DEF L
      <4> QED
        BY <1>1, <1>4
    <3>2. HasKey(P \o got, k) <=> HasKey(P, k) \/ HasKey(got, k)
      BY <1>1, <1>4, HasKeyConcat
    <3>3. HasKey(got, k) <=> HasKey(pre[i - 1] \o es, k) \/ HasKey(a, k)
      <4> DEFINE q == pre[i - 1] \o es
      <4>1. q \in Seq(Line(V)) /\ got = q \o a
        BY <1>2, <3>1
      <4> HIDE DEF q
      <4>2. HasKey(q \o a, k) <=> HasKey(q, k) \/ HasKey(a, k)
        BY <4>1, HasKeyConcat
      <4> QED
        BY <4>1, <4>2 DEF q
    <3>4. HasKey(pre[i - 1] \o es, k) <=> HasKey(pre[i - 1], k) \/ HasKey(es, k)
      BY <1>1, <1>4, HasKeyConcat
    <3>5. HasKey(pre[i] \o es, k) <=> HasKey(pre[i], k) \/ HasKey(es, k)
      BY <1>4, <3>1, HasKeyConcat
    <3>6. HasKey(pre[i], k) <=> HasKey(P, k) \/ HasKey(pre[i - 1], k)
      BY <1>1, HasKeyConcat
    <3> QED
      BY <3>2, <3>3, <3>4, <3>5, <3>6
  <2> HIDE DEF pre, P, base
  <2> QED
    BY <2>1
<1>7. \A k : HasKey(base \o all, k) <=> HasKey(base, k) \/ HasKey(a, k) \/ HasKey(b, k)
  <2> HIDE DEF base
  <2> QED
    BY <1>2, <1>3, <1>4, HasKeyConcat
<1>8. \A k \in 1..Len(all) : \/ k \in 1..Len(a) /\ all[k] = a[k]
                             \/ k - Len(a) \in 1..Len(b) /\ k > Len(a) /\ all[k] = b[k - Len(a)]
  <2> HIDE DEF L
  <2> QED
    BY <1>2, <1>3
<1>9. ASSUME NEW k \in 1..Len(a)
      PROVE  /\ \E x \in 1..i : /\ a[k] \in Range(WithoutPlus(Rules(ts[x], s)))
                                /\ ~HasKey(pre[x] \o es, a[k].key)
             /\ ~a[k].plus
             /\ \A m \in 1..Len(a) : m < k => a[m].key # a[k].key
  BY <1>2 DEF Defaulted
<1>10. ASSUME NEW k \in 1..Len(b)
       PROVE  /\ b[k] \in Range(WithoutPlus(Rules(ts[i], s)))
              /\ ~HasKey(base, b[k].key)
              /\ ~b[k].plus
              /\ \A m \in 1..Len(a) : a[m].key # b[k].key
              /\ \A m \in 1..Len(b) : m < k => b[m].key # b[k].key
  <2>1. /\ b[k] \in Range(ds) /\ ~HasKey(P \o got, b[k].key)
        /\ \A m \in 1..Len(b) : m < k => b[m].key # b[k].key
    BY <1>3 DEF Missing
  <2>2. ~HasKey(base, b[k].key) /\ ~HasKey(a, b[k].key)
    BY <1>6, <2>1
  <2>3. \A m \in 1..Len(a) : a[m].key # b[k].key
    <3>1. \A m \in 1..Len(a) : m \in DOMAIN a /\ ~a[m].plus
      BY <1>2, <1>9
    <3> QED
      BY <2>2, <3>1 DEF HasKey
  <2>4. ~b[k].plus
    <3> HIDE DEF ds
    <3> QED
      BY <1>1, <2>1 DEF Range
  <2> QED
    BY <2>1, <2>2, <2>3, <2>4
<1>11. ASSUME NEW k \in 1..Len(all)
       PROVE  /\ \E x \in 1..i : /\ all[k] \in Range(WithoutPlus(Rules(ts[x], s)))
                                 /\ ~HasKey(pre[x] \o es, all[k].key)
              /\ ~all[k].plus
              /\ \A m \in 1..Len(all) : m < k => all[m].key # all[k].key
  <2> HIDE DEF all
  <2>1. CASE k \in 1..Len(a) /\ all[k] = a[k]
    <3>1. \A m \in 1..Len(all) : m < k => m \in 1..Len(a) /\ all[m] = a[m]
      <4>1. Len(a) \in Nat /\ Len(b) \in Nat
        BY <1>2, <1>3
      <4> QED
        BY <1>8, <2>1, <4>1
    <3> HIDE DEF pre
    <3> QED
      BY <1>9, <2>1, <3>1
  <2>2. CASE k - Len(a) \in 1..Len(b) /\ k > Len(a) /\ all[k] = b[k - Len(a)]
    <3>1. \A m \in 1..Len(all) : m < k => all[m].key # all[k].key
      <4> SUFFICES ASSUME NEW m \in 1..Len(all), m < k
                   PROVE  all[m].key # all[k].key
        OBVIOUS
      <4>1. CASE m \in 1..Len(a) /\ all[m] = a[m]
        BY <1>10, <2>2, <4>1
      <4>2. CASE m - Len(a) \in 1..Len(b) /\ m > Len(a) /\ all[m] = b[m - Len(a)]
        <5>1. m - Len(a) < k - Len(a)
          BY <1>2, <2>2
        <5> QED
          BY <1>10, <2>2, <4>2, <5>1
      <4> QED
        BY <1>8, <4>1, <4>2
    <3>2. i \in 1..i
      OBVIOUS
    <3> HIDE DEF pre
    <3> QED
      BY <1>10, <2>2, <3>1, <3>2
  <2> QED
    BY <1>8, <2>1, <2>2
<1>12. ASSUME NEW x \in 1..i, NEW e \in Range(WithoutPlus(Rules(ts[x], s)))
       PROVE  HasKey(base \o all, e.key)
  <2>1. CASE x = i
    <3>1. PICK y \in 1..Len(ds) : e = ds[y]
      BY <1>1, <2>1 DEF Range
    <3>2. HasKey((P \o got) \o b, e.key)
      BY <1>3, <3>1 DEF Missing
    <3>3. HasKey(P \o got, e.key) \/ HasKey(b, e.key)
      <4> HIDE DEF P
      <4> QED
        BY <1>3, <1>4, <3>2, HasKeyConcat
    <3> QED
      BY <1>6, <1>7, <3>3
  <2>2. CASE x # i
    <3>1. x \in 1 .. i - 1
      BY <2>2
    <3>2. HasKey((pre[i - 1] \o es) \o a, e.key)
      BY <1>2, <3>1 DEF Defaulted
    <3>3. HasKey(P \o got, e.key)
      <4> HIDE DEF P, pre
      <4>1. HasKey(got, e.key)
        BY <1>2, <3>2
      <4> QED
        BY <1>1, <1>4, <4>1, HasKeyConcat
    <3> QED
      BY <1>6, <1>7, <3>3
  <2> QED
    BY <2>1, <2>2
<1>13. Defaulted(all, es, ts, s, i)
  <2> HIDE DEF all
  <2> QED
    BY <1>11, <1>12 DEF Defaulted
<1> QED
  <2> HIDE DEF all
  <2> QED
    BY <1>4, <1>5, <1>13 DEF Documented

\* What the first i transforms have made of the spec.
Grown(spec, ts, V, i, got) ==
  /\ got \in Seq(Sections(V))
  /\ Len(spec) <= Len(got)
  /\ \A j \in 1..Len(spec) :
       /\ got[j].name = spec[j].name
       /\ Documented(spec[j].entries, ts, spec[j].name, V, i, got[j].entries)

\* Without transforms the spec is as it was.
LEMMA NothingYet ==
  ASSUME NEW V, NEW spec \in Seq(Sections(V)), NEW ts \in Seq(Seq(Sections(V)))
  PROVE  Grown(spec, ts, V, 0, spec)
<1>1. ASSUME NEW j \in 1..Len(spec)
      PROVE  Documented(spec[j].entries, ts, spec[j].name, V, 0, spec[j].entries)
  <2> DEFINE es == spec[j].entries
             s == spec[j].name
  <2>1. es \in Seq(Line(V))
    <3>1. spec[j] \in Sections(V)
      OBVIOUS
    <3> QED
      BY <3>1 DEF Sections
  <2>2. Prepended(ts, s)[0] = <<>>
    BY PrependedIs
  <2> HIDE DEF es
  <2>3. es = (Prepended(ts, s)[0] \o es) \o <<>>
    BY <2>1, <2>2
  <2>4. Defaulted(<<>>, es, ts, s, 0) /\ <<>> \in Seq(Line(V))
    BY DEF Defaulted
  <2> QED
    BY <2>3, <2>4 DEF Documented, es
<1> QED
  BY <1>1 DEF Grown

\* One transform more, for all sections.
LEMMA GrowOnce ==
  ASSUME NEW V, NEW spec \in Seq(Sections(V)), NEW ts \in Seq(Seq(Sections(V))),
         NEW i \in 1..Len(ts), NEW got, Grown(spec, ts, V, i - 1, got)
  PROVE  Grown(spec, ts, V, i, MergeTransform(got, ts[i]))
<1> DEFINE next == MergeTransform(got, ts[i])
<1>1. Merges(got, ts[i], V, next)
  <2>1. got \in Seq(Sections(V)) /\ ts[i] \in Seq(Sections(V))
    BY DEF Grown
  <2> QED
    BY <2>1, MergeIs
<1>2. next \in Seq(Sections(V)) /\ Len(spec) <= Len(next)
  <2>1. Len(spec) \in Nat /\ Len(got) \in Nat /\ Len(spec) <= Len(got)
    BY DEF Grown
  <2>2. next \in Seq(Sections(V)) /\ Len(got) <= Len(next)
    BY <1>1 DEF Merges
  <2>3. Len(next) \in Nat
    <3> HIDE DEF next
    <3> QED
      BY <2>2
  <2> HIDE DEF next
  <2> QED
    BY <2>1, <2>2, <2>3
<1>3. ASSUME NEW j \in 1..Len(spec)
      PROVE  /\ next[j].name = spec[j].name
             /\ Documented(spec[j].entries, ts, spec[j].name, V, i, next[j].entries)
  <2>1. j \in 1..Len(got)
    <3>1. Len(got) \in Nat /\ Len(spec) \in Nat /\ Len(spec) <= Len(got)
      BY DEF Grown
    <3> QED
      BY <3>1
  <2>2. /\ got[j].name = spec[j].name
        /\ Documented(spec[j].entries, ts, spec[j].name, V, i - 1, got[j].entries)
    BY DEF Grown
  <2>3. /\ next[j].name = spec[j].name
        /\ Extended(got[j].entries, Rules(ts[i], spec[j].name), V, next[j].entries)
    BY <1>1, <2>1, <2>2 DEF Merges
  <2>4. spec[j].entries \in Seq(Line(V))
    <3>1. spec[j] \in Sections(V)
      OBVIOUS
    <3> QED
      BY <3>1 DEF Sections
  <2> HIDE DEF next
  <2> QED
    BY <2>2, <2>3, <2>4, OneMore
<1> HIDE DEF next
<1>4. Grown(spec, ts, V, i, next)
  BY <1>2, <1>3 DEF Grown
<1> QED
  BY <1>4 DEF next

\* All transforms, one after the other.
LEMMA AllDocumented ==
  ASSUME NEW V, NEW spec \in Seq(Sections(V)), NEW ts \in Seq(Seq(Sections(V)))
  PROVE  Grown(spec, ts, V, Len(ts), ApplyTransforms(spec, ts))
<1>1. PICK h : /\ h \in [0..Len(ts) -> Seq(Sections(V))]
               /\ h[0] = spec
               /\ h[Len(ts)] = ApplyTransforms(spec, ts)
               /\ \A i \in 1..Len(ts) : h[i] = MergeTransform(h[i - 1], ts[i])
  <2>1. spec \in Seq(Sections(V)) /\ ts \in Seq(Seq(Sections(V)))
    OBVIOUS
  <2> QED
    BY ONLY <2>1, MergesChain
<1> DEFINE n == Len(ts)
<1> DEFINE T == {i \in 0..n : Grown(spec, ts, V, i, h[i])}
<1>2. n \in Nat /\ 0 \in T
  <2>1. n \in Nat /\ 0 \in 0..n
    OBVIOUS
  <2> QED
    BY <1>1, <2>1, NothingYet
<1>3. ASSUME NEW i \in 1..n, i - 1 \in T
      PROVE  i \in T
  <2>1. Grown(spec, ts, V, i - 1, h[i - 1])
    BY <1>3
  <2>2. Grown(spec, ts, V, i, MergeTransform(h[i - 1], ts[i]))
    BY <2>1, GrowOnce
  <2>3. i \in 0..n
    BY <1>2
  <2> QED
    BY <1>1, <2>2, <2>3
<1>4. \A i \in 0..n : i \in T
  <2> HIDE DEF T, n
  <2> QED
    BY <1>2, <1>3, UpTo
<1>5. n \in T
  BY <1>2, <1>4
<1> QED
  BY <1>1, <1>5

\* A section that the transforms have gone through is as it is documented, with and
\* without the pod that is appended to it.
LEMMA SectionWithPod ==
  ASSUME NEW V, NEW ts \in Seq(Seq(Sections(V))), NEW s, NEW es \in Seq(Line(V)),
         NEW m \in Seq(Line(V)), Documented(es, ts, s, V, Len(ts), m),
         NEW tail \in Seq({PodLine})
  PROVE  SectionAsDocumented(es, ts, s, m \o tail)
<1> DEFINE pre == Prepended(ts, s)
           have == pre[Len(ts)] \o es
           got == m \o tail
           added == Len(have) + 1 .. Len(got)
<1>1. PICK a \in Seq(Line(V)) : m = have \o a /\ Defaulted(a, es, ts, s, Len(ts))
  BY DEF Documented
<1>2. have \in Seq(Line(V))
  <2>1. Len(ts) \in 0..Len(ts)
    OBVIOUS
  <2>2. pre[Len(ts)] \in Seq(Line(V))
    BY <2>1, PrependedIs
  <2> HIDE DEF pre
  <2> QED
    BY <2>2
<1>3. /\ Len(have) \in Nat /\ Len(a) \in Nat /\ Len(tail) \in Nat
      /\ Len(got) = Len(have) + Len(a) + Len(tail)
      /\ \A k \in 1..Len(have) : got[k] = have[k]
      /\ \A k \in 1..Len(a) : got[Len(have) + k] = a[k]
      /\ \A k \in 1..Len(tail) : got[Len(have) + Len(a) + k] = PodLine
  <2> HIDE DEF have, PodLine
  <2>1. \A k \in 1..Len(tail) : tail[k] = PodLine
    OBVIOUS
  <2>2. /\ Len(have) \in Nat /\ Len(a) \in Nat /\ Len(tail) \in Nat
        /\ Len(m) = Len(have) + Len(a) /\ Len(got) = Len(m) + Len(tail)
        /\ \A k \in 1..Len(m) : got[k] = m[k]
        /\ \A k \in 1..Len(tail) : got[Len(m) + k] = tail[k]
        /\ \A k \in 1..Len(have) : m[k] = have[k]
        /\ \A k \in 1..Len(a) : m[Len(have) + k] = a[k]
    BY <1>1, <1>2
  <2> HIDE DEF got
  <2> QED
    BY <2>1, <2>2
<1>4. IsPrefix(have, got)
  <2> HIDE DEF have, got
  <2>1. SubSeq(have, 1, Len(have)) = [k \in 1..Len(have) |-> have[k]]
    BY <1>2
  <2>2. SubSeq(got, 1, Len(have)) = [k \in 1..Len(have) |-> got[k]]
    BY <1>2, <1>3
  <2>3. [k \in 1..Len(have) |-> have[k]] = [k \in 1..Len(have) |-> got[k]]
    BY <1>3
  <2> QED
    BY <1>3, <2>1, <2>2, <2>3 DEF IsPrefix
<1>5. ASSUME NEW k \in added
      PROVE  \/ got[k] = PodLine
             \/ \E i \in DOMAIN ts : /\ got[k] \in Range(WithoutPlus(Rules(ts[i], s)))
                                     /\ ~HasKey(pre[i] \o es, got[k].key)
                                     /\ \A x \in added : x < k => got[x].key # got[k].key
  <2> DEFINE c == k - Len(have)
  <2>1. CASE c \in 1..Len(a)
    <3>1. got[k] = a[c]
      <4>1. k = Len(have) + c
        <5> HIDE DEF got, have
        <5> QED
          BY <1>3
      <4> HIDE DEF got, have, c
      <4> QED
        BY <1>3, <2>1, <4>1
    <3>2. PICK i \in 1..Len(ts) : /\ a[c] \in Range(WithoutPlus(Rules(ts[i], s)))
                                  /\ ~HasKey(pre[i] \o es, a[c].key)
      BY <1>1, <2>1 DEF Defaulted
    <3>3. ASSUME NEW x \in added, x < k
          PROVE  got[x].key # got[k].key
      <4>1. x - Len(have) \in 1..Len(a) /\ x - Len(have) < c
        <5> HIDE DEF got, have
        <5> QED
          BY <1>3, <2>1, <3>3
      <4>2. got[x] = a[x - Len(have)]
        <5> DEFINE y == x - Len(have)
        <5>1. x = Len(have) + y /\ y \in 1..Len(a)
          <6> HIDE DEF got, have
          <6> QED
            BY <1>3, <4>1
        <5> HIDE DEF got, have, y
        <5>2. got[x] = a[y]
          BY <1>3, <5>1
        <5> QED
          BY <5>2 DEF y
      <4> HIDE DEF got, have, c
      <4> QED
        BY <1>1, <2>1, <3>1, <4>1, <4>2 DEF Defaulted
    <3>4. i \in DOMAIN ts
      OBVIOUS
    <3> HIDE DEF got, have, c, pre
    <3> QED
      BY <3>1, <3>2, <3>3, <3>4
  <2>2. CASE c \notin 1..Len(a)
    <3>1. k - (Len(have) + Len(a)) \in 1..Len(tail)
      <4> HIDE DEF got, have
      <4> QED
        BY <1>3, <2>2
    <3> DEFINE y == k - (Len(have) + Len(a))
    <3>2. k = Len(have) + Len(a) + y
      <4> HIDE DEF got, have
      <4> QED
        BY <1>3
    <3>3. y \in 1..Len(tail)
      BY <3>1
    <3> HIDE DEF got, have, y
    <3>4. got[k] = PodLine
      BY <1>3, <3>2, <3>3
    <3> QED
      BY <3>4
  <2> QED
    BY <2>1, <2>2
<1>6. ASSUME NEW i \in DOMAIN ts, NEW e \in Range(WithoutPlus(Rules(ts[i], s)))
      PROVE  HasKey(got, e.key)
  <2>1. i \in 1..Len(ts)
    OBVIOUS
  <2>2. HasKey(m, e.key)
    <3>1. HasKey(have \o a, e.key)
      BY <1>1, <2>1 DEF Defaulted
    <3> HIDE DEF have
    <3> QED
      BY <1>1, <3>1
  <2>3. \A x \in DOMAIN m : x \in DOMAIN got /\ got[x] = m[x]
    <3> HIDE DEF PodLine
    <3> QED
      OBVIOUS
  <2> HIDE DEF got
  <2> QED
    BY <2>2, <2>3 DEF HasKey
<1> HIDE DEF have, got, pre
<1>7. have = Prepended(ts, s)[Len(ts)] \o es
  BY DEF have, pre
<1>8. pre = Prepended(ts, s) /\ got = m \o tail
  BY DEF pre, got
<1> QED
  BY <1>4, <1>5, <1>6, <1>7, <1>8 DEF SectionAsDocumented

\* x is a line of the transforms ts for the sections named s.
OfTransforms(x, ts, s) ==
  \E i \in DOMAIN ts : \E y \in Range(Rules(ts[i], s)) : x = [y EXCEPT !.plus = FALSE]

\* What is prepended are lines of the transforms.
LEMMA PrependedLines ==
  ASSUME NEW V, NEW ts \in Seq(Seq(Sections(V))), NEW s
  PROVE  \A x \in Range(Prepended(ts, s)[Len(ts)]) : OfTransforms(x, ts, s)
<1> DEFINE n == Len(ts)
           pre == Prepended(ts, s)
           Rule(x, k) == \E i \in 1..k : \E y \in Range(Rules(ts[i], s)) :
                           x = [y EXCEPT !.plus = FALSE]
           T == {k \in 0..n : \A x \in Range(pre[k]) : Rule(x, k)}
<1>1. n \in Nat
  OBVIOUS
<1>2. 0 \in T
  <2>1. pre[0] = <<>>
    BY PrependedIs
  <2> QED
    BY <1>1, <2>1 DEF Range
<1>3. ASSUME NEW k \in 1..n, k - 1 \in T
      PROVE  k \in T
  <2> DEFINE P == StripPlus(WithPlus(Rules(ts[k], s)))
  <2>1. pre[k] = P \o pre[k - 1]
    BY PrependedIs
  <2>2. Rules(ts[k], s) \in Seq(Line(V))
    BY RulesTyped
  <2>3. /\ P \in Seq(Line(V))
        /\ \A x \in Range(P) : \E y \in Range(Rules(ts[k], s)) : x = [y EXCEPT !.plus = FALSE]
    BY <2>2, PlusLines
  <2>4. pre[k - 1] \in Seq(Line(V))
    <3>1. k - 1 \in 0..Len(ts)
      BY <1>1
    <3> QED
      BY <3>1, PrependedIs
  <2> HIDE DEF P, pre
  <2>5. Range(P \o pre[k - 1]) = Range(P) \cup Range(pre[k - 1])
    BY <2>3, <2>4, RangeConcatenation
  <2>6. \A x \in Range(pre[k - 1]) : Rule(x, k - 1)
    BY <1>3
  <2>7. \A x \in Range(pre[k]) : Rule(x, k)
    <3>1. SUFFICES ASSUME NEW x \in Range(pre[k])
                   PROVE  Rule(x, k)
      OBVIOUS
    <3>2. k \in 1..k /\ 1 .. k - 1 \subseteq 1..k
      OBVIOUS
    <3> QED
      BY <2>1, <2>3, <2>5, <2>6, <3>2
  <2>8. k \in 0..n
    BY <1>1
  <2> QED
    BY <2>7, <2>8
<1>4. \A k \in 0..n : k \in T
  <2> HIDE DEF T, n
  <2> QED
    BY <1>1, <1>2, <1>3, UpTo
<1>5. n \in T /\ DOMAIN ts = 1..n
  BY <1>1, <1>4
<1> HIDE DEF pre
<1> QED
  BY <1>5 DEF pre, OfTransforms

-----------------------------------------------------------------------------
(* Secrets and their directives.                                           *)

\* The values of the lines of a spec, with the directives of its secrets.
Values == STRING \cup {Directive(e).value : e \in Secret}

\* A body as its author writes it is one of those that directives may be added to.
LEMMA LinesTyped ==
  /\ Body \subseteq Seq(Sections(STRING)) /\ Body \subseteq Seq(Sections(Values))
  /\ PodLine.key = "Pod"
<1>1. /\ [key : STRING, value : STRING, plus : BOOLEAN] \subseteq Line(STRING)
      /\ Line(STRING) \subseteq Line(Values)
  BY DEF Line, Values
<1>2. /\ Seq([key : STRING, value : STRING, plus : BOOLEAN]) \subseteq Seq(Line(STRING))
      /\ Seq(Line(STRING)) \subseteq Seq(Line(Values))
  BY <1>1, SeqMonotonic
<1> DEFINE S == [name : STRING,
                 entries : Seq([key : STRING, value : STRING, plus : BOOLEAN])]
<1>3. S \subseteq Sections(STRING) /\ Sections(STRING) \subseteq Sections(Values)
  BY <1>2 DEF Sections
<1>4. S \subseteq Sections(Values)
  BY <1>3
<1>5. Body = Seq(S)
  BY DEF Body
<1> HIDE DEF S
<1>6. Seq(S) \subseteq Seq(Sections(STRING)) /\ Seq(S) \subseteq Seq(Sections(Values))
  BY <1>3, <1>4, SeqMonotonic
<1> QED
  BY <1>5, <1>6 DEF PodLine

\* The directives of the secrets are lines.
LEMMA DirectivesTyped ==
  ASSUME NEW ss \in Seq(Secret)
  PROVE  [i \in DOMAIN ss |-> Directive(ss[i])] \in Seq(Line(Values))
<1>1. \A i \in DOMAIN ss : Directive(ss[i]) \in Line(Values)
  <2>1. ASSUME NEW e \in Secret
        PROVE  Directive(e) \in Line(Values)
    <3> DEFINE v == [secret |-> PodmanName(e), kind |-> e.kind, target |-> e.target]
    <3>1. Directive(e) = [key |-> "Secret", value |-> v, plus |-> FALSE]
      BY DEF Directive
    <3> HIDE DEF v
    <3>2. Directive(e).value = v
      BY <3>1
    <3>3. v \in Values
      BY <3>2 DEF Values
    <3> QED
      BY <3>1, <3>3 DEF Line
  <2> QED
    BY <2>1
<1>2. DOMAIN ss = 1..Len(ss) /\ Len(ss) \in Nat
  OBVIOUS
<1> QED
  BY <1>1, <1>2

\* The sections of the spec are those of the file, with the directives of the secrets
\* at the end of the first [Container].
LEMMA Injected ==
  ASSUME NEW body \in Body, NEW ss \in Seq(Secret), HasSection(body, "Container"),
         NEW spec, spec = InjectSecretDirectives(body, ss)
  PROVE  /\ spec \in Seq(Sections(Values)) /\ Len(spec) = Len(body)
         /\ \A j \in 1..Len(body) : spec[j].name = body[j].name
         /\ IndexOf(body, "Container") \in 1..Len(body)
         /\ spec[IndexOf(body, "Container")].entries
              = body[IndexOf(body, "Container")].entries \o [i \in DOMAIN ss |-> Directive(ss[i])]
<1> DEFINE c == IndexOf(body, "Container")
           ds == [i \in DOMAIN ss |-> Directive(ss[i])]
<1>1. body \in Seq(Sections(Values))
  BY LinesTyped
<1>2. c \in 1..Len(body)
  BY <1>1, FirstIndex
<1>3. spec = [body EXCEPT ![c].entries = body[c].entries \o ds]
  BY DEF InjectSecretDirectives, AppendTo
<1>4. body[c] \in Sections(Values) /\ body[c].entries \o ds \in Seq(Line(Values))
  <2>1. body[c] \in Sections(Values)
    BY <1>1, <1>2
  <2>2. body[c].entries \in Seq(Line(Values)) /\ ds \in Seq(Line(Values))
    BY <2>1, DirectivesTyped DEF Sections
  <2> HIDE DEF ds, c
  <2> QED
    BY <2>1, <2>2
<1> DEFINE sec == [body[c] EXCEPT !.entries = body[c].entries \o ds]
<1>5. sec \in Sections(Values) /\ sec.name = body[c].name /\ sec.entries = body[c].entries \o ds
  <2> HIDE DEF ds, c
  <2> QED
    BY <1>4 DEF Sections
<1>6. spec = [body EXCEPT ![c] = sec]
  <2> HIDE DEF ds, c
  <2> QED
    BY <1>3
<1> HIDE DEF sec, c, ds
<1>7. /\ spec \in Seq(Sections(Values)) /\ Len(spec) = Len(body)
      /\ spec[c] = sec
      /\ \A j \in 1..Len(body) : j # c => spec[j] = body[j]
  BY <1>1, <1>2, <1>5, <1>6
<1>8. \A j \in 1..Len(body) : spec[j].name = body[j].name
  BY <1>5, <1>7
<1>9. c \in 1..Len(body) /\ spec[c].entries = body[c].entries \o ds
  BY <1>2, <1>5, <1>7
<1> QED
  BY <1>7, <1>8, <1>9 DEF c, ds

\* Decrypting changes nothing but the keys, and only in the first [Secrets].
LEMMA Decrypted ==
  ASSUME NEW secs \in Seq(Seq(Secret))
  PROVE  /\ Decrypt(secs) \in Seq(Seq(Secret))
         /\ SecretsOf(secs) \in Seq(Secret)
         /\ SecretsOf(Decrypt(secs)) \in Seq(Secret)
         /\ Len(SecretsOf(Decrypt(secs))) = Len(SecretsOf(secs))
         /\ \A j \in 1..Len(SecretsOf(secs)) :
              SecretsOf(Decrypt(secs))[j] = [SecretsOf(secs)[j] EXCEPT !.by = Plain]
<1> DEFINE Opened(s) == [j \in DOMAIN s |-> [s[j] EXCEPT !.by = Plain]]
<1>1. ASSUME NEW s \in Seq(Secret)
      PROVE  Opened(s) \in Seq(Secret) /\ Len(Opened(s)) = Len(s)
  <2>1. \A j \in DOMAIN s : [s[j] EXCEPT !.by = Plain] \in Secret
    <3>1. \A e \in Secret : [e EXCEPT !.by = Plain] \in Secret
      BY DEF Secret, Named, SecretName
    <3> QED
      BY <3>1
  <2>2. DOMAIN s = 1..Len(s) /\ Len(s) \in Nat
    OBVIOUS
  <2> QED
    BY <2>1, <2>2
<1>2. CASE secs = <<>>
  BY <1>2 DEF Decrypt, SecretsOf
<1>3. CASE secs # <<>>
  <2>1. 1 \in DOMAIN secs /\ secs[1] \in Seq(Secret) /\ DOMAIN secs = 1..Len(secs)
    BY <1>3
  <2>2. Decrypt(secs) = [i \in DOMAIN secs |-> IF i = 1 THEN Opened(secs[1]) ELSE secs[i]]
    BY DEF Decrypt
  <2>3. Opened(secs[1]) \in Seq(Secret) /\ Len(Opened(secs[1])) = Len(secs[1])
    BY <1>1, <2>1
  <2>4. \A j \in 1..Len(secs[1]) : Opened(secs[1])[j] = [secs[1][j] EXCEPT !.by = Plain]
    <3>1. DOMAIN secs[1] = 1..Len(secs[1])
      BY <2>1
    <3> QED
      BY <3>1
  <2> HIDE DEF Opened
  <2>5. Decrypt(secs) \in Seq(Seq(Secret)) /\ Decrypt(secs) # <<>>
        /\ Decrypt(secs)[1] = Opened(secs[1])
    BY <2>1, <2>2, <2>3
  <2> QED
    BY <1>3, <2>1, <2>3, <2>4, <2>5 DEF SecretsOf
<1> QED
  BY <1>2, <1>3

\* What is decrypted of the file is what the author meant, apart from the keys.
LEMMA AsMeant ==
  ASSUME NEW f \in Document, NEW m \in Document, Plaintext(f) = Plaintext(m),
         NEW s, s = SecretsOf(Decrypt(f.secrets)), NEW t, t = SecretsOf(m.secrets)
  PROVE  /\ f.body = m.body /\ f.body \in Body
         /\ s \in Seq(Secret) /\ t \in Seq(Secret) /\ Len(s) = Len(t)
         /\ \A j \in 1..Len(t) : s[j] = [t[j] EXCEPT !.by = Plain]
<1>1. f.body = m.body /\ Decrypt(f.secrets) = Decrypt(m.secrets)
  BY DEF Plaintext, Document
<1>2. f.body \in Body /\ m.secrets \in Seq(Seq(Secret))
  BY DEF Document
<1> QED
  BY <1>1, <1>2, Decrypted

\* Secrets that differ in their keys alone have the same directives, names and values.
LEMMA SameDirectives ==
  ASSUME NEW t \in Seq(Secret), NEW s \in Seq(Secret), Len(s) = Len(t),
         \A j \in 1..Len(t) : s[j] = [t[j] EXCEPT !.by = Plain]
  PROVE  /\ [i \in DOMAIN s |-> Directive(s[i])] = [i \in DOMAIN t |-> Directive(t[i])]
         /\ \A j \in 1..Len(t) : PodmanName(s[j]) = PodmanName(t[j]) /\ s[j].value = t[j].value
<1>1. ASSUME NEW e \in Secret, NEW d, d = [e EXCEPT !.by = Plain]
      PROVE  PodmanName(d) = PodmanName(e) /\ Directive(d) = Directive(e) /\ d.value = e.value
  <2>1. d.kind = e.kind /\ d.target = e.target /\ d.value = e.value
    BY <1>1 DEF Secret
  <2>2. PodmanName(d) = PodmanName(e)
    BY <2>1 DEF PodmanName, SecretName
  <2> QED
    BY <2>1, <2>2 DEF Directive
<1>2. \A j \in 1..Len(t) : /\ PodmanName(s[j]) = PodmanName(t[j])
                           /\ Directive(s[j]) = Directive(t[j])
                           /\ s[j].value = t[j].value
  <2>1. \A j \in 1..Len(t) : t[j] \in Secret /\ s[j] = [t[j] EXCEPT !.by = Plain]
    OBVIOUS
  <2> QED
    BY <1>1, <2>1
<1>3. DOMAIN s = 1..Len(t) /\ DOMAIN t = 1..Len(t)
  OBVIOUS
<1> QED
  BY <1>2, <1>3

\* The store has a place for each secret of E.
Storable(E, D, V) == \A e \in E : e.value \in V /\ PodmanName(e) \in D

\* The store has the value of each of ss.
Holds(st, ss) == \A j \in 1..Len(ss) : st[PodmanName(ss[j])] = ss[j].value

\* Names that are distinct keep their values while the other secrets are created.
LEMMA Stored ==
  ASSUME NEW D, NEW V, NEW base \in [D -> V], NEW E, NEW ss \in Seq(E),
         Storable(E, D, V)
  PROVE  /\ CreateSecrets(base, ss) \in [D -> V]
         /\ DistinctNames(ss) => Holds(CreateSecrets(base, ss), ss)
<1>1. PICK h : Creation(h, base, ss, D, V)
  BY StoreChain DEF Storable
<1>2. CreateSecrets(base, ss) \in [D -> V]
  BY <1>1 DEF Creation
<1>3. ASSUME DistinctNames(ss)
      PROVE  Holds(CreateSecrets(base, ss), ss)
  <2> DEFINE n == Len(ss)
             T == {i \in 0..n : \A j \in 1..i : h[i][PodmanName(ss[j])] = ss[j].value}
  <2>1. n \in Nat /\ 0 \in T
    OBVIOUS
  <2>2. ASSUME NEW i \in 1..n, i - 1 \in T
        PROVE  i \in T
    <3>1. i \in 0..n /\ i - 1 \in 0..n
      BY <2>1
    <3>2. \A j \in 1..n : PodmanName(ss[j]) \in D /\ j \in DOMAIN ss
      BY DEF Storable
    <3>3. h[i] = [h[i - 1] EXCEPT ![PodmanName(ss[i])] = ss[i].value] /\ h[i - 1] \in [D -> V]
      BY <1>1, <3>1 DEF Creation
    <3>4. h[i][PodmanName(ss[i])] = ss[i].value
      BY <3>2, <3>3
    <3>5. ASSUME NEW j \in 1..i, j # i
          PROVE  h[i][PodmanName(ss[j])] = ss[j].value
      <4>1. j \in 1 .. i - 1 /\ j \in 1..n
        BY <3>5, <2>1
      <4>2. PodmanName(ss[j]) # PodmanName(ss[i])
        BY <1>3, <3>2, <3>5, <4>1 DEF DistinctNames
      <4>3. h[i - 1][PodmanName(ss[j])] = ss[j].value
        BY <2>2, <4>1
      <4> QED
        BY <3>2, <3>3, <4>1, <4>2, <4>3
    <3> QED
      BY <3>1, <3>4, <3>5
  <2>3. \A i \in 0..n : i \in T
    <3> HIDE DEF T, n
    <3> QED
      BY <2>1, <2>2, UpTo
  <2>4. n \in T
    BY <2>1, <2>3
  <2> QED
    BY <1>1, <2>4 DEF Creation, Holds
<1> QED
  BY <1>2, <1>3

-----------------------------------------------------------------------------
(* The edit.                                                               *)

\* What is written decrypts to what was edited, and is whole before the rename.
Saved ==
  /\ FileIsMeant
  /\ pc \in {"write", "rename"} => Plaintext(output) = Plaintext(Edited)
  /\ pc = "rename" => new = output

\* A secret that is encrypted and then decrypted is the secret, whatever key either
\* was done with: only "by" has changed.
LEMMA EntryRoundTrip ==
  ASSUME NEW e, NEW k
  PROVE  [[e EXCEPT !.by = k] EXCEPT !.by = Plain] = [e EXCEPT !.by = Plain]
OBVIOUS

\* So are all that are encrypted together.
LEMMA RoundTrip ==
  ASSUME NEW secs, NEW k
  PROVE  Decrypt(Encrypt(secs, k)) = Decrypt(secs)
<1> DEFINE Sealed == Encrypt(secs, k)
<1>1. DOMAIN Sealed = DOMAIN secs
  BY DEF Encrypt
<1>2. \A i \in DOMAIN secs : i # 1 => Sealed[i] = secs[i]
  BY DEF Encrypt
<1>3. ASSUME 1 \in DOMAIN secs
      PROVE  [j \in DOMAIN Sealed[1] |-> [Sealed[1][j] EXCEPT !.by = Plain]]
               = [j \in DOMAIN secs[1] |-> [secs[1][j] EXCEPT !.by = Plain]]
  <2>1. /\ DOMAIN Sealed[1] = DOMAIN secs[1]
        /\ \A j \in DOMAIN secs[1] :
             Sealed[1][j] \in {secs[1][j], [secs[1][j] EXCEPT !.by = k]}
    BY <1>3 DEF Encrypt
  <2>2. \A j \in DOMAIN secs[1] :
          [Sealed[1][j] EXCEPT !.by = Plain] = [secs[1][j] EXCEPT !.by = Plain]
    BY <2>1, EntryRoundTrip
  <2> QED
    BY <2>1, <2>2
<1> QED
  BY <1>1, <1>2, <1>3 DEF Decrypt

\* So is the document they are in.
LEMMA DocRoundTrip ==
  ASSUME NEW doc, NEW k
  PROVE  Plaintext([doc EXCEPT !.secrets = Encrypt(@, k)]) = Plaintext(doc)
<1>1. Decrypt(Encrypt(doc.secrets, k)) = Decrypt(doc.secrets)
  BY RoundTrip
<1> QED
  BY <1>1 DEF Plaintext

\* Saved is inductive.
LEMMA InitSaved == Init => Saved
BY DEF Init, Saved, FileIsMeant

LEMMA StepSaved ==
  ASSUME Saved, [Next]_vars
  PROVE  Saved'
<1>1. ASSUME GiveUp PROVE Saved'
  BY <1>1 DEF GiveUp, Saved, FileIsMeant, Plaintext, host
<1>2. CASE Open \/ RunEditor
  BY <1>2 DEF Open, RunEditor, Saved, FileIsMeant, Plaintext, host
<1>3. CASE EditorFails \/ EditRefused \/ RenameFails \/ Killed
  BY <1>1, <1>3 DEF EditorFails, EditRefused, RenameFails, Killed
<1>4. CASE CheckEdited
  <2>1. Plaintext(output') = Plaintext(Edited)
    BY <1>4, DocRoundTrip DEF CheckEdited
  <2>2. Plaintext(output)' = Plaintext(output') /\ Plaintext(Edited)' = Plaintext(Edited)
    BY <1>4 DEF CheckEdited, Plaintext, Edited
  <2> QED
    BY <1>4, <2>1, <2>2 DEF CheckEdited, Saved, FileIsMeant, Plaintext
<1>5. CASE WriteNew
  BY <1>1, <1>5 DEF WriteNew, Saved, FileIsMeant, Plaintext, Edited, host
<1>6. CASE Rename
  BY <1>6 DEF Rename, Saved, FileIsMeant, Plaintext, host
<1>7. CASE RotateKey \/ Deploy
  BY <1>7 DEF RotateKey, Deploy, Saved, FileIsMeant, Plaintext, Edited, edit
<1>8. CASE UNCHANGED vars
  BY <1>8 DEF vars, edit, host, Saved, FileIsMeant, Plaintext, Edited
<1> QED
  BY <1>2, <1>3, <1>4, <1>5, <1>6, <1>7, <1>8 DEF Next, EditStep

\* No failed editor, refused text, lost key, torn write or killed edit changes what
\* the file says; only a rename does, to exactly what was edited.

-----------------------------------------------------------------------------
(* The sync.                                                               *)

\* The first section of a name stays the first one when sections follow it.
LEMMA SameIndex ==
  ASSUME NEW S, NEW a \in Seq(S), NEW T, NEW b \in Seq(T), NEW s, HasSection(a, s),
         Len(a) <= Len(b), \A j \in 1..Len(a) : b[j].name = a[j].name
  PROVE  HasSection(b, s) /\ IndexOf(b, s) = IndexOf(a, s)
<1> DEFINE i == IndexOf(a, s)
           k == IndexOf(b, s)
<1>1. i \in 1..Len(a) /\ a[i].name = s /\ \A x \in 1..Len(a) : a[x].name = s => i <= x
  <2>1. DOMAIN a = 1..Len(a)
    OBVIOUS
  <2> QED
    BY <2>1, FirstIndex
<1>2. Len(a) \in Nat /\ Len(b) \in Nat /\ DOMAIN b = 1..Len(b)
  OBVIOUS
<1>3. HasSection(b, s)
  <2> HIDE DEF i
  <2>1. i \in DOMAIN b /\ b[i].name = s
    BY <1>1, <1>2
  <2> QED
    BY <2>1 DEF HasSection
<1>4. k \in 1..Len(b) /\ b[k].name = s /\ \A x \in 1..Len(b) : b[x].name = s => k <= x
  BY <1>2, <1>3, FirstIndex
<1> HIDE DEF i, k
<1>5. k <= i
  BY <1>1, <1>2, <1>4
<1>6. k \in 1..Len(a) /\ a[k].name = s
  BY <1>1, <1>2, <1>4, <1>5
<1>7. i = k
  BY <1>1, <1>4, <1>5, <1>6
<1> QED
  BY <1>3, <1>7 DEF i, k

\* What a sync deploys of the spec under the transforms ts.
Outcome(spec, ts, got) ==
  /\ \A j \in 1..Len(spec) :
       /\ got[j].name = spec[j].name
       /\ \E m \in Seq(Line(Values)), tail \in Seq({PodLine}) :
            /\ Documented(spec[j].entries, ts, spec[j].name, Values, Len(ts), m)
            /\ got[j].entries = m \o tail
  /\ IndexOf(got, "Container") = IndexOf(spec, "Container")

\* The pod goes to the end of the first [Container], which is the spec's.
LEMMA PodInjected ==
  ASSUME NEW spec \in Seq(Sections(Values)), NEW ts \in Seq(Seq(Sections(Values))),
         HasSection(spec, "Container"), NEW merged, Grown(spec, ts, Values, Len(ts), merged)
  PROVE  Outcome(spec, ts, InjectPod(merged, Pod))
<1> DEFINE V == Values
           c == IndexOf(merged, "Container")
           sec == [merged[c] EXCEPT !.entries = merged[c].entries \o <<PodLine>>]
           got == [merged EXCEPT ![c] = sec]
<1>1. /\ merged \in Seq(Sections(V)) /\ Len(spec) <= Len(merged)
      /\ \A j \in 1..Len(spec) :
           /\ merged[j].name = spec[j].name
           /\ Documented(spec[j].entries, ts, spec[j].name, V, Len(ts), merged[j].entries)
  BY DEF Grown
<1>2. c = IndexOf(spec, "Container") /\ c \in 1..Len(merged)
  <2>1. HasSection(merged, "Container") /\ c = IndexOf(spec, "Container")
    BY <1>1, SameIndex
  <2> QED
    BY <1>1, <2>1, FirstIndex
<1>3. InjectPod(merged, Pod) = got
  BY DEF InjectPod, AppendTo, PodLine
<1>4. merged[c] \in Sections(V) /\ sec.name = merged[c].name
      /\ sec.entries = merged[c].entries \o <<PodLine>>
  <2>1. merged[c] \in Sections(V)
    BY <1>1, <1>2
  <2> HIDE DEF c, PodLine
  <2> QED
    BY <2>1 DEF Sections
<1> HIDE DEF sec, c
<1>5. /\ got \in Seq(Sections(V) \cup {sec}) /\ Len(got) = Len(merged)
      /\ got[c] = sec /\ \A j \in 1..Len(merged) : j # c => got[j] = merged[j]
  BY <1>1, <1>2
<1> HIDE DEF got
<1>6. \A j \in 1..Len(merged) : got[j].name = merged[j].name
  BY <1>4, <1>5
<1>7. Len(spec) \in Nat /\ Len(merged) \in Nat /\ 1..Len(spec) \subseteq 1..Len(merged)
  BY <1>1
<1>8. IndexOf(got, "Container") = IndexOf(spec, "Container")
  <2>1. \A j \in 1..Len(spec) : got[j].name = spec[j].name
    BY <1>1, <1>6, <1>7
  <2>2. Len(spec) <= Len(got)
    BY <1>1, <1>5
  <2> QED
    BY <1>5, <2>1, <2>2, SameIndex
<1>9. ASSUME NEW j \in 1..Len(spec)
      PROVE  \E m \in Seq(Line(V)), tail \in Seq({PodLine}) :
               /\ Documented(spec[j].entries, ts, spec[j].name, V, Len(ts), m)
               /\ got[j].entries = m \o tail
  <2>1. merged[j] \in Sections(V) /\ merged[j].entries \in Seq(Line(V))
    <3>1. merged[j] \in Sections(V)
      BY <1>1, <1>7
    <3> QED
      BY <3>1 DEF Sections
  <2>2. <<>> \in Seq({PodLine}) /\ <<PodLine>> \in Seq({PodLine})
    OBVIOUS
  <2>3. \/ got[j].entries = merged[j].entries \o <<PodLine>>
        \/ got[j].entries = merged[j].entries \o <<>>
    <3>1. CASE j = c
      BY <1>4, <1>5, <3>1
    <3>2. CASE j # c
      <4>1. got[j].entries = merged[j].entries
        BY <1>5, <1>7, <3>2
      <4> QED
        BY <2>1, <4>1
    <3> QED
      BY <3>1, <3>2
  <2> QED
    BY <1>1, <2>1, <2>2, <2>3
<1>10. \A j \in 1..Len(spec) : got[j].name = spec[j].name
  BY <1>1, <1>6, <1>7
<1> QED
  BY <1>3, <1>8, <1>9, <1>10 DEF Outcome

\* What the author meant, as the spec that the transforms see.
Wanted(doc) == InjectSecretDirectives(doc.body, SecretsOf(doc.secrets))

\* A sync deploys what the author meant, whatever key the file is encrypted for now.
LEMMA Deployed ==
  ASSUME TypeOK, FileIsMeant, Deploy
  PROVE  /\ source'.doc = meant /\ source'.transforms \in Transforms
         /\ HasSection(meant.body, "Container")
         /\ Outcome(Wanted(meant), source'.transforms, unit')
         /\ \E s \in Seq(Secret) :
              /\ store' = CreateSecrets(store, s)
              /\ Len(s) = Len(SecretsOf(meant.secrets))
              /\ \A j \in 1..Len(s) : s[j] = [SecretsOf(meant.secrets)[j] EXCEPT !.by = Plain]
<1> DEFINE doc == [file EXCEPT !.secrets = Decrypt(file.secrets)]
           s == SecretsOf(Decrypt(file.secrets))
           t == SecretsOf(meant.secrets)
<1>1. PICK ts \in Transforms :
        /\ HasSection(file.body, "Container")
        /\ unit' = InjectPod(TransformContainerFile(doc, ts), Pod)
        /\ store' = CreateSecrets(store, SecretsOf(doc.secrets))
        /\ source' = [doc |-> meant, transforms |-> ts]
  BY DEF Deploy, CheckContent
<1>2. file \in Document /\ meant \in Document /\ Plaintext(file) = Plaintext(meant)
  BY DEF TypeOK, FileIsMeant
<1>3. doc.body = file.body /\ doc.secrets = Decrypt(file.secrets)
  BY <1>2 DEF Document
<1>4. /\ file.body = meant.body /\ file.body \in Body
      /\ s \in Seq(Secret) /\ t \in Seq(Secret) /\ Len(s) = Len(t)
      /\ \A j \in 1..Len(t) : s[j] = [t[j] EXCEPT !.by = Plain]
  BY <1>2, AsMeant
<1>5. InjectSecretDirectives(file.body, s) = Wanted(meant)
  <2> HIDE DEF s, t
  <2>1. [i \in DOMAIN s |-> Directive(s[i])] = [i \in DOMAIN t |-> Directive(t[i])]
    BY <1>4, SameDirectives
  <2> QED
    BY <1>4, <2>1 DEF InjectSecretDirectives, Wanted, t
<1>6. TransformContainerFile(doc, ts) = ApplyTransforms(Wanted(meant), ts)
  BY <1>3, <1>5 DEF TransformContainerFile
<1>7. ts \in Seq(Seq(Sections(Values)))
  <2>1. ts \in Seq(Body)
    BY SpecFileAssumption
  <2> QED
    BY <2>1, LinesTyped, SeqMonotonic
<1>8. Wanted(meant) \in Seq(Sections(Values)) /\ HasSection(Wanted(meant), "Container")
  <2> HIDE DEF s, t
  <2>1. HasSection(meant.body, "Container") /\ meant.body \in Body
    BY <1>1, <1>4
  <2>2. Wanted(meant) = InjectSecretDirectives(meant.body, t)
    BY DEF Wanted, t
  <2>3. /\ Wanted(meant) \in Seq(Sections(Values)) /\ Len(Wanted(meant)) = Len(meant.body)
        /\ \A j \in 1..Len(meant.body) : Wanted(meant)[j].name = meant.body[j].name
    <3> DEFINE b == meant.body
               w == Wanted(meant)
    <3>1. b \in Body /\ t \in Seq(Secret) /\ HasSection(b, "Container")
          /\ w = InjectSecretDirectives(b, t)
      BY <1>4, <2>1, <2>2
    <3> HIDE DEF b, w
    <3>2. /\ w \in Seq(Sections(Values)) /\ Len(w) = Len(b)
          /\ \A j \in 1..Len(b) : w[j].name = b[j].name
      BY ONLY <3>1, Injected
    <3> QED
      BY <3>2 DEF b, w
  <2>4. meant.body \in Seq(Sections(Values))
    BY <2>1, LinesTyped
  <2>5. Len(meant.body) \in Nat
    BY <2>4
  <2>6. HasSection(Wanted(meant), "Container")
    BY <2>1, <2>3, <2>4, <2>5, SameIndex
  <2> QED
    BY <2>3, <2>6
<1>9. Outcome(Wanted(meant), ts, unit')
  <2>1. Grown(Wanted(meant), ts, Values, Len(ts), ApplyTransforms(Wanted(meant), ts))
    BY <1>7, <1>8, AllDocumented
  <2> HIDE DEF doc
  <2> QED
    BY <1>1, <1>6, <1>7, <1>8, <2>1, PodInjected
<1>10. store' = CreateSecrets(store, s)
  BY <1>1, <1>3
<1> HIDE DEF s, doc
<1> QED
  BY <1>1, <1>4, <1>9, <1>10

\* Decrypting, encrypting, scaffolding and stripping lead from documents to documents.
LEMMA Documents ==
  ASSUME NEW doc \in Document
  PROVE  /\ [doc EXCEPT !.secrets = Decrypt(@)] \in Document
         /\ AppendScaffold(doc) \in Document
         /\ StripEmptySecretsSection(doc) \in Document
         /\ \A k \in Key : [doc EXCEPT !.secrets = Encrypt(@, k)] \in Document
<1> DEFINE secs == doc.secrets
<1>1. /\ doc.body \in Body /\ secs \in Seq(Seq(Secret))
      /\ \A opened \in Seq(Seq(Secret)) : [doc EXCEPT !.secrets = opened] \in Document
  BY DEF Document
<1> HIDE DEF secs
<1>2. Decrypt(secs) \in Seq(Seq(Secret))
  BY <1>1, Decrypted
<1>3. << <<>> >> \in Seq(Seq(Secret))
  OBVIOUS
<1>4. Keep(secs, {s \in Range(secs) : s # <<>>}) \in Seq(Seq(Secret))
  <2> DEFINE T == {s \in Range(secs) : s # <<>>}
  <2> HIDE DEF T
  <2>1. Keep(secs, T) \in Seq(Seq(Secret) \cap T)
    BY <1>1, KeepIn
  <2>2. Keep(secs, T) \in Seq(Seq(Secret))
    BY <2>1, SeqMonotonic
  <2> QED
    BY <2>2 DEF T
<1>5. ASSUME NEW k \in Key
      PROVE  Encrypt(secs, k) \in Seq(Seq(Secret))
  <2> DEFINE Sealed(s) == [j \in DOMAIN s |-> IF Encrypted(s[j]) THEN s[j]
                                              ELSE [s[j] EXCEPT !.by = k]]
  <2>1. ASSUME NEW s \in Seq(Secret)
        PROVE  Sealed(s) \in Seq(Secret)
    <3>1. \A e \in Secret : [e EXCEPT !.by = k] \in Secret
      BY DEF Secret, Named, SecretName
    <3>2. \A j \in DOMAIN s : s[j] \in Secret
      OBVIOUS
    <3>3. DOMAIN s = 1..Len(s) /\ Len(s) \in Nat
      OBVIOUS
    <3> QED
      BY <3>1, <3>2, <3>3
  <2>2. Encrypt(secs, k) = [i \in DOMAIN secs |-> IF i = 1 THEN Sealed(secs[1]) ELSE secs[i]]
    BY DEF Encrypt
  <2>3. \A i \in DOMAIN secs : /\ secs[i] \in Seq(Secret)
                               /\ i = 1 => Sealed(secs[1]) \in Seq(Secret)
    BY <1>1, <2>1
  <2>4. DOMAIN secs = 1..Len(secs) /\ Len(secs) \in Nat
    BY <1>1
  <2> HIDE DEF Sealed
  <2> QED
    BY <2>2, <2>3, <2>4
<1> QED
  BY <1>1, <1>2, <1>3, <1>4, <1>5 DEF secs, AppendScaffold, StripEmptySecretsSection

\* The types are kept, given that a rename finds what was written (Saved).
LEMMA InitTyped == Init => TypeOK
BY SpecFileAssumption DEF Init, TypeOK

LEMMA StepTyped ==
  ASSUME TypeOK, Saved, [Next]_vars
  PROVE  TypeOK'
<1> USE DEF TypeOK
<1>1. ASSUME pc # "idle"
      PROVE  Edited \in Document
  BY <1>1, Documents DEF Edited
<1>2. ASSUME GiveUp, new' \in Document \cup {NoDoc, Torn}
      PROVE  TypeOK'
  BY <1>2 DEF GiveUp, host
<1>3. CASE Open
  <2>1. [file EXCEPT !.secrets = Decrypt(@)] \in Document
    BY Documents
  <2>2. scratch' \in Document
    BY <1>3, <2>1, Documents DEF Open
  <2> QED
    BY <1>3, <2>2 DEF Open, host
<1>4. CASE RunEditor
  BY <1>4, SpecFileAssumption DEF RunEditor, host
<1>5. CASE EditorFails \/ EditRefused \/ RenameFails
  BY <1>2, <1>5 DEF EditorFails, EditRefused, RenameFails
<1>6. CASE CheckEdited
  <2>1. output' \in Document
    <3>1. Edited.secrets # <<>> => key \in Key
      BY <1>6 DEF CheckEdited, CanSave, CanEncrypt
    <3>2. Edited \in Document
      BY <1>1, <1>6 DEF CheckEdited
    <3> QED
      BY <1>6, <3>1, <3>2, Documents DEF CheckEdited
  <2> QED
    BY <1>6, <2>1 DEF CheckEdited, host
<1>7. CASE WriteNew
  BY <1>2, <1>7 DEF WriteNew, host
<1>8. CASE Rename
  BY <1>1, <1>8 DEF Rename, Saved, host
<1>9. CASE Killed
  BY <1>2, <1>9 DEF Killed
<1>10. CASE RotateKey
  BY <1>10 DEF RotateKey, edit, host
<1>11. CASE Deploy
  <2>1. store' \in [Podman -> STRING \cup {Empty}]
    <3>1. PICK s \in Seq(Secret) : store' = CreateSecrets(store, s)
      BY <1>11, Deployed DEF Saved
    <3>2. Storable(Secret, Podman, STRING \cup {Empty})
      BY DEF Storable, Secret, Named, Podman, PodmanName
    <3> QED
      BY <3>1, <3>2, Stored
  <2>2. source'.doc = meant /\ source'.transforms \in Transforms
    BY <1>11, Deployed DEF Saved
  <2> QED
    BY <1>11, <2>1, <2>2 DEF Deploy, edit
<1>12. CASE UNCHANGED vars
  BY <1>12 DEF vars, edit, host
<1> QED
  BY <1>3, <1>4, <1>5, <1>6, <1>7, <1>8, <1>9, <1>10, <1>11, <1>12 DEF Next, EditStep

\* What was deployed last does not change until a sync deploys something.
LEMMA OnlyDeploys == ASSUME [Next]_vars, ~Deploy PROVE UNCHANGED host
BY DEF Next, EditStep, Open, RunEditor, EditorFails, EditRefused, CheckEdited, WriteNew,
       Rename, RenameFails, Killed, RotateKey, GiveUp, vars

\* A sync deploys the sections that are documented.
LEMMA SectionsDeployed ==
  ASSUME TypeOK, FileIsMeant, Deploy
  PROVE  MergedAsDocumented'
<1> DEFINE spec == Wanted(meant)
           ts == source'.transforms
<1>1. ts \in Seq(Seq(Sections(Values))) /\ spec \in Seq(Sections(Values))
  <2>1. ts \in Seq(Body)
    BY Deployed, SpecFileAssumption
  <2>2. meant.body \in Body /\ SecretsOf(meant.secrets) \in Seq(Secret)
    BY Decrypted DEF TypeOK, Document
  <2>3. spec \in Seq(Sections(Values))
    <3> DEFINE b == meant.body
               s == SecretsOf(meant.secrets)
    <3>1. b \in Body /\ s \in Seq(Secret) /\ HasSection(b, "Container")
          /\ spec = InjectSecretDirectives(b, s)
      BY <2>2, Deployed DEF Wanted
    <3> HIDE DEF b, s, spec
    <3> QED
      BY ONLY <3>1, Injected
  <2> QED
    BY <2>1, <2>3, LinesTyped, SeqMonotonic
<1>2. Outcome(spec, ts, unit')
  BY Deployed
<1>3. ASSUME NEW j \in DOMAIN spec
      PROVE  /\ unit'[j].name = spec[j].name
             /\ SectionAsDocumented(spec[j].entries, ts, spec[j].name, unit'[j].entries)
  <2>1. j \in 1..Len(spec) /\ spec[j] \in Sections(Values)
    <3> HIDE DEF spec
    <3> QED
      BY <1>1
  <2>2. spec[j].entries \in Seq(Line(Values))
    BY <2>1 DEF Sections
  <2> HIDE DEF spec, ts
  <2>3. PICK m \in Seq(Line(Values)), tail \in Seq({PodLine}) :
          /\ Documented(spec[j].entries, ts, spec[j].name, Values, Len(ts), m)
          /\ unit'[j].entries = m \o tail
    BY <1>2, <2>1 DEF Outcome
  <2>4. SectionAsDocumented(spec[j].entries, ts, spec[j].name, m \o tail)
    BY <1>1, <2>2, <2>3, SectionWithPod
  <2> QED
    BY <1>2, <2>1, <2>3, <2>4 DEF Outcome
<1>4. source'.doc = meant
  BY Deployed
<1> QED
  BY <1>3, <1>4 DEF MergedAsDocumented, Wanted

\* A sync deploys the secrets: the lines of [Container] are those that are prepended,
\* the author's, the directives, the defaults and the pod, and the store takes each
\* value in turn.
LEMMA SecretsDeployed ==
  ASSUME TypeOK, FileIsMeant, Deploy
  PROVE  SecretsReachTargets'
<1> DEFINE t == SecretsOf(meant.secrets)
           body == meant.body
           ts == source'.transforms
           c == IndexOf(body, "Container")
           ds == [i \in DOMAIN t |-> Directive(t[i])]
           got == GetSection(unit', "Container").entries
           es == body[c].entries
           pre == Prepended(ts, "Container")[Len(ts)]
<1>1. /\ source'.doc = meant /\ ts \in Seq(Seq(Sections(Values)))
      /\ body \in Body /\ t \in Seq(Secret) /\ HasSection(body, "Container")
  <2>1. ts \in Seq(Body)
    BY Deployed, SpecFileAssumption
  <2> QED
    BY <2>1, Deployed, Decrypted, LinesTyped, SeqMonotonic DEF TypeOK, Document
<1>2. PICK a \in Seq(Line(Values)), tail \in Seq({PodLine}) :
        /\ got = ((pre \o (es \o ds)) \o a) \o tail
        /\ Defaulted(a, es \o ds, ts, "Container", Len(ts))
  <2> DEFINE spec == Wanted(meant)
  <2>1. /\ spec \in Seq(Sections(Values)) /\ Len(spec) = Len(body)
        /\ \A j \in 1..Len(body) : spec[j].name = body[j].name
        /\ c \in 1..Len(body) /\ spec[c].entries = es \o ds
    <3>1. spec = InjectSecretDirectives(body, t)
      BY DEF Wanted
    <3> HIDE DEF spec, body, t
    <3> QED
      BY ONLY <1>1, <3>1, Injected
  <2>2. body \in Seq(Sections(Values)) /\ Len(body) \in Nat
    BY <1>1, LinesTyped
  <2>3. IndexOf(spec, "Container") = c
    <3> HIDE DEF spec, body
    <3> QED
      BY <1>1, <2>1, <2>2, SameIndex
  <2>4. body[c].name = "Container"
    BY <1>1, <2>2, FirstIndex
  <2>5. got = unit'[c].entries
    BY <2>3, Deployed DEF Outcome, GetSection
  <2> HIDE DEF spec, body, c, ts, got
  <2>6. Outcome(spec, ts, unit')
    BY Deployed DEF spec, ts
  <2>7. PICK m \in Seq(Line(Values)), tail \in Seq({PodLine}) :
          /\ Documented(spec[c].entries, ts, spec[c].name, Values, Len(ts), m)
          /\ unit'[c].entries = m \o tail
    BY <2>1, <2>6 DEF Outcome
  <2>8. spec[c].entries = es \o ds /\ spec[c].name = "Container"
    BY <2>1, <2>4
  <2> HIDE DEF es, ds
  <2>9. Documented(es \o ds, ts, "Container", Values, Len(ts), m)
    BY <2>7, <2>8
  <2>10. PICK a \in Seq(Line(Values)) :
           /\ m = (pre \o (es \o ds)) \o a /\ Defaulted(a, es \o ds, ts, "Container", Len(ts))
    BY <2>9 DEF Documented
  <2> QED
    BY <2>5, <2>7, <2>10
<1>3. pre \in Seq(Line(Values)) /\ es \in Seq(Line(Values)) /\ ds \in Seq(Line(Values))
  <2>1. pre \in Seq(Line(Values))
    <3>1. Len(ts) \in 0..Len(ts)
      BY <1>1
    <3> HIDE DEF ts
    <3> QED
      BY <1>1, <3>1, PrependedIs
  <2>2. body \in Seq(Sections(Values)) /\ c \in DOMAIN body
    BY <1>1, LinesTyped, FirstIndex
  <2>3. body[c] \in Sections(Values)
    BY <2>2
  <2>4. ds \in Seq(Line(Values))
    BY <1>1, DirectivesTyped
  <2> QED
    BY <2>1, <2>3, <2>4 DEF Sections
<1> HIDE DEF ts, pre, es, got
<1>4. Range(got) = Range(pre) \cup Range(es) \cup Range(ds) \cup Range(a) \cup Range(tail)
  <2> HIDE DEF ds
  <2> DEFINE U == Line(Values) \cup {PodLine}
             p == pre \o (es \o ds)
  <2>1. /\ pre \in Seq(U) /\ es \in Seq(U) /\ ds \in Seq(U) /\ a \in Seq(U) /\ tail \in Seq(U)
    <3>1. Seq(Line(Values)) \subseteq Seq(U) /\ Seq({PodLine}) \subseteq Seq(U)
      <4>1. Line(Values) \subseteq U /\ {PodLine} \subseteq U
        OBVIOUS
      <4> HIDE DEF U
      <4> QED
        BY <4>1, SeqMonotonic
    <3> HIDE DEF U
    <3> QED
      BY <1>2, <1>3, <3>1
  <2> HIDE DEF U
  <2>2. es \o ds \in Seq(U) /\ Range(es \o ds) = Range(es) \cup Range(ds)
    BY <2>1, RangeConcatenation
  <2>3. p \in Seq(U) /\ Range(p) = Range(pre) \cup Range(es \o ds)
    <3> DEFINE q == es \o ds
    <3> HIDE DEF q
    <3>1. q \in Seq(U)
      BY <2>2 DEF q
    <3>2. pre \o q \in Seq(U) /\ Range(pre \o q) = Range(pre) \cup Range(q)
      BY <2>1, <3>1, RangeConcatenation
    <3> QED
      BY <3>2 DEF q
  <2> HIDE DEF p
  <2>4. p \o a \in Seq(U) /\ Range(p \o a) = Range(p) \cup Range(a)
    BY <2>1, <2>3, RangeConcatenation
  <2>5. Range((p \o a) \o tail) = Range(p \o a) \cup Range(tail)
    <3> DEFINE q == p \o a
    <3> HIDE DEF q
    <3>1. q \in Seq(U)
      BY <2>4 DEF q
    <3>2. Range(q \o tail) = Range(q) \cup Range(tail)
      BY <2>1, <3>1, RangeConcatenation
    <3> QED
      BY <3>2 DEF q
  <2>6. got = (p \o a) \o tail
    BY <1>2 DEF p
  <2> QED
    BY <2>2, <2>3, <2>4, <2>5, <2>6
<1>5. \A e \in Range(t) : Directive(e) \in Range(got)
  BY <1>4 DEF Range
<1>6. DistinctNames(t) => \A e \in Range(t) : store'[PodmanName(e)] = e.value
  <2>1. PICK s \in Seq(Secret) :
          /\ store' = CreateSecrets(store, s)
          /\ Len(s) = Len(t)
          /\ \A j \in 1..Len(s) : s[j] = [t[j] EXCEPT !.by = Plain]
    BY Deployed
  <2> HIDE DEF t
  <2>2. \A j \in 1..Len(t) : PodmanName(s[j]) = PodmanName(t[j]) /\ s[j].value = t[j].value
    BY <1>1, <2>1, SameDirectives
  <2>3. Storable(Secret, Podman, STRING \cup {Empty})
    BY DEF Storable, Secret, Named, Podman, PodmanName
  <2>4. store \in [Podman -> STRING \cup {Empty}]
    BY DEF TypeOK
  <2>5. DistinctNames(s) => \A j \in 1..Len(s) : store'[PodmanName(s[j])] = s[j].value
    <3> DEFINE U == STRING \cup {Empty}
    <3>1. store \in [Podman -> U] /\ s \in Seq(Secret) /\ Storable(Secret, Podman, U)
      BY <2>1, <2>3, <2>4
    <3> HIDE DEF U
    <3>2. DistinctNames(s) => Holds(CreateSecrets(store, s), s)
      BY ONLY <3>1, Stored
    <3> QED
      BY <2>1, <3>2 DEF Holds
  <2>6. DOMAIN s = 1..Len(t) /\ DOMAIN t = 1..Len(t)
    BY <1>1, <2>1
  <2>7. DistinctNames(t) => DistinctNames(s)
    BY <2>2, <2>6 DEF DistinctNames
  <2> QED
    BY <2>1, <2>2, <2>5, <2>6, <2>7 DEF Range
<1>7. ASSUME NEW x \in Range(got), x.key = "Secret"
      PROVE  \/ \E e \in Range(t) : x = Directive(e)
             \/ \E y \in Range(es) : x = y
             \/ \E i \in DOMAIN ts : \E y \in Range(Rules(ts[i], "Container")) :
                  x = [y EXCEPT !.plus = FALSE]
  <2>1. CASE x \in Range(pre)
    <3>1. x \in Range(Prepended(ts, "Container")[Len(ts)])
      BY <2>1 DEF pre
    <3>2. OfTransforms(x, ts, "Container")
      BY <1>1, <3>1, PrependedLines
    <3> QED
      BY <3>2 DEF OfTransforms
  <2>2. CASE x \in Range(es)
    BY <2>2
  <2>3. CASE x \in Range(ds)
    BY <2>3 DEF Range
  <2>4. CASE x \in Range(a)
    <3>1. PICK k \in 1..Len(a) : x = a[k]
      BY <2>4 DEF Range
    <3>2. PICK i \in 1..Len(ts) : x \in Range(WithoutPlus(Rules(ts[i], "Container")))
      BY <1>2, <3>1 DEF Defaulted
    <3>3. ~x.plus /\ x \in Line(Values)
      BY <1>2, <3>1 DEF Defaulted
    <3>4. Rules(ts[i], "Container") \in Seq(Line(Values)) /\ i \in DOMAIN ts
      BY <1>1, RulesTyped
    <3>5. x \in Range(Rules(ts[i], "Container"))
      BY <3>2, <3>4, PlusLines
    <3>6. x = [x EXCEPT !.plus = FALSE]
      BY <3>3 DEF Line
    <3> QED
      BY <3>4, <3>5, <3>6
  <2>5. CASE x \in Range(tail)
    BY <1>7, <2>5, LinesTyped DEF Range
  <2> QED
    BY <1>4, <2>1, <2>2, <2>3, <2>4, <2>5
<1> HIDE DEF t, body, c, ds
<1> QED
  BY <1>1, <1>5, <1>6, <1>7 DEF SecretsReachTargets, t, body, c, ts, es, got, GetSection

\* Only a sync can break the two, and none does.
LEMMA StepDeployed ==
  ASSUME TypeOK, FileIsMeant, [Next]_vars, MergedAsDocumented, SecretsReachTargets
  PROVE  MergedAsDocumented' /\ SecretsReachTargets'
<1>1. CASE Deploy
  BY <1>1, SectionsDeployed, SecretsDeployed
<1>2. CASE ~Deploy
  BY <1>2, OnlyDeploys DEF host, MergedAsDocumented, SecretsReachTargets
<1> QED
  BY <1>1, <1>2

-----------------------------------------------------------------------------
(* The theorems.                                                           *)

\* No failed editor, refused text, lost key, torn write or killed edit changes what
\* the file says; only a rename does, to exactly what was edited.
THEOREM FileKept == Spec => []FileIsMeant
<1>1. Saved => FileIsMeant
  BY DEF Saved
<1> QED
  BY <1>1, InitSaved, StepSaved, PTL DEF Spec

\* What is in the file, and in the editor of an edit that is under way, is a document
\* with secrets whose names podman takes; a write that was cut short is never in it.
THEOREM SpecFileTyped == Spec => []TypeOK
<1>1. TypeOK /\ Saved /\ [Next]_vars => TypeOK'
  BY StepTyped
<1> QED
  BY <1>1, InitTyped, InitSaved, StepSaved, PTL DEF Spec

\* The inductive invariant: what is typed, saved and deployed.
Delivered == TypeOK /\ Saved /\ MergedAsDocumented /\ SecretsReachTargets

LEMMA InitDelivered == Init => Delivered
BY InitTyped, InitSaved DEF Init, Delivered, MergedAsDocumented, SecretsReachTargets

LEMMA StepDelivered == Delivered /\ [Next]_vars => Delivered'
BY StepTyped, StepSaved, StepDeployed DEF Delivered, Saved

\* Every section that a sync deploys holds what the transforms prepend, all that the
\* author wrote and the directives of the secrets, and then the defaults that were
\* missing and no other: however many transforms, sections and lines there are.
THEOREM MergeDocumented == Spec => []MergedAsDocumented
<1>1. Delivered => MergedAsDocumented
  BY DEF Delivered
<1> QED
  BY <1>1, InitDelivered, StepDelivered, PTL DEF Spec

\* Every secret reaches the unit and, if the names are distinct, podman's store with
\* the value that the author meant, and the unit names no others.
THEOREM SecretsArrive == Spec => []SecretsReachTargets
<1>1. Delivered => SecretsReachTargets
  BY DEF Delivered
<1> QED
  BY <1>1, InitDelivered, StepDelivered, PTL DEF Spec
=============================================================================
