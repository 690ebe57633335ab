----------------------------- MODULE SequenceFacts -----------------------------
(***************************************************************************)
(* What the proofs about sequences and recursive functions have in common. *)
(* The library's induction theorems take an operator as a parameter; here  *)
(* an induction is one over a set of numbers.                              *)
(***************************************************************************)
EXTENDS Integers, SequencesExt, SequenceTheorems, WellFoundedInduction, TLAPS

-----------------------------------------------------------------------------
\* A set of numbers with a member has a least one.
LEMMA LeastNumber ==
  ASSUME NEW T, T \subseteq Nat, T # {}
  PROVE  \E m \in T : \A k \in T : m <= k
<1>1. IsWellFoundedOn(OpToRel(<, Nat), Nat)
  BY NatLessThanWellFounded
<1>2. PICK m \in T : \A k \in T : ~(<<k, m>> \in OpToRel(<, Nat))
  BY <1>1, WFMin
<1>3. \A k \in T : ~(k < m)
  BY <1>2 DEF OpToRel
<1> QED BY <1>3

\* Induction over the numbers up to N.
LEMMA IntervalInduction ==
  ASSUME NEW N \in Nat, NEW T, 0 \in T, \A n \in 1 .. N : n - 1 \in T => n \in T
  PROVE  0 .. N \subseteq T
<1> SUFFICES ASSUME (0 .. N) \ T # {} PROVE FALSE
  OBVIOUS
<1>0. (0 .. N) \ T \subseteq Nat
  OBVIOUS
<1>1. PICK m \in (0 .. N) \ T : \A k \in (0 .. N) \ T : m <= k
  BY ONLY <1>0, (0 .. N) \ T # {}, LeastNumber
<1>2. m \in 1 .. N /\ m - 1 \in 0 .. N /\ m - 1 < m
  BY <1>1
<1> QED BY <1>1, <1>2

\* What a state becomes in N steps: for a step at every number there is a
\* function that gives the state after each.
LEMMA FoldExists ==
  ASSUME NEW State, NEW base \in State, NEW N \in Nat,
         NEW step \in [1 .. N -> [State -> State]]
  PROVE  \E f \in [0 .. N -> State] :
           f[0] = base /\ \A n \in 1 .. N : f[n] = step[n][f[n - 1]]
<1> DEFINE Folds(f, m) == /\ f \in [0 .. m -> State]
                          /\ f[0] = base
                          /\ \A n \in 1 .. m : f[n] = step[n][f[n - 1]]
           T == { m \in 0 .. N : \E f : Folds(f, m) }
<1>1. 0 \in T
  <2>1. Folds([n \in 0 .. 0 |-> base], 0)
    OBVIOUS
  <2>2. \E f : Folds(f, 0)
    <3> HIDE DEF Folds
    <3> QED BY <2>1
  <2> QED BY <2>2
<1>2. ASSUME NEW m \in 1 .. N, m - 1 \in T PROVE m \in T
  <2>1. PICK f : Folds(f, m - 1)
    BY <1>2
  <2> DEFINE next == step[m][f[m - 1]]
             g == [n \in 0 .. m |-> IF n = m THEN next ELSE f[n]]
  <2>2. m - 1 \in 0 .. m - 1 /\ f[m - 1] \in State
    BY <2>1
  <2>3. next \in State
    BY <2>2
  <2>4. \A n \in 0 .. m - 1 : g[n] = f[n] /\ f[n] \in State
    BY <2>1
  <2>5. g[m] = next
    OBVIOUS
  <2>6. g \in [0 .. m -> State]
    BY <2>1, <2>3
  <2> HIDE DEF g
  <2>7. g[0] = base
    BY <2>1, <2>4
  <2>8. ASSUME NEW n \in 1 .. m PROVE g[n] = step[n][g[n - 1]]
    <3>1. n - 1 \in 0 .. m - 1 /\ g[n - 1] = f[n - 1]
      BY <2>4
    <3>2. CASE n = m
      BY <2>5, <3>1, <3>2
    <3>3. CASE n # m
      <4>1. n \in 1 .. m - 1 /\ n \in 0 .. m - 1
        BY <3>3
      <4> QED BY <2>1, <2>4, <3>1, <4>1
    <3> QED BY <3>2, <3>3
  <2>9. Folds(g, m)
    BY <2>6, <2>7, <2>8
  <2> QED BY <2>9
<1> HIDE DEF T
<1>3. 0 .. N \subseteq T
  BY <1>1, <1>2, IntervalInduction
<1> QED BY <1>3 DEF T

\* Such a function.
FoldOf(State, base, N, step) ==
  CHOOSE f \in [0 .. N -> State] :
    f[0] = base /\ \A n \in 1 .. N : f[n] = step[n][f[n - 1]]

\* What it is after each step.
LEMMA FoldSteps ==
  ASSUME NEW State, NEW base \in State, NEW N \in Nat,
         NEW step \in [1 .. N -> [State -> State]]
  PROVE  /\ FoldOf(State, base, N, step) \in [0 .. N -> State]
         /\ FoldOf(State, base, N, step)[0] = base
         /\ \A n \in 1 .. N : FoldOf(State, base, N, step)[n]
                                = step[n][FoldOf(State, base, N, step)[n - 1]]
<1>1. \E f \in [0 .. N -> State] :
        f[0] = base /\ \A n \in 1 .. N : f[n] = step[n][f[n - 1]]
  BY FoldExists
<1> QED BY ONLY <1>1 DEF FoldOf

-----------------------------------------------------------------------------
\* The part of a sequence between two indices, the empty parts before the first
\* and after the last included.
LEMMA PartOf ==
  ASSUME NEW S, NEW s \in Seq(S), NEW m \in 1 .. Len(s) + 1, NEW k \in 0 .. Len(s)
  PROVE  /\ SubSeq(s, m, k) \in Seq(S)
         /\ Len(SubSeq(s, m, k)) = IF m <= k THEN k - m + 1 ELSE 0
         /\ \A i \in 1 .. k - m + 1 : SubSeq(s, m, k)[i] = s[m + i - 1]
<1>1. Len(s) \in Nat
  BY LenProperties
<1>2. \A i \in m .. k : s[i] \in S
  BY <1>1, ElementOfSeq
<1> QED BY <1>1, <1>2, SubSeqProperties

\* Three parts put together, index by index.
LEMMA ThreeParts ==
  ASSUME NEW S, NEW r \in Seq(S), NEW s \in Seq(S), NEW t \in Seq(S)
  PROVE  /\ r \o s \o t \in Seq(S)
         /\ Len(r \o s \o t) = Len(r) + Len(s) + Len(t)
         /\ \A i \in 1 .. Len(r) : (r \o s \o t)[i] = r[i]
         /\ \A i \in 1 .. Len(s) : (r \o s \o t)[Len(r) + i] = s[i]
         /\ \A i \in 1 .. Len(t) : (r \o s \o t)[Len(r) + Len(s) + i] = t[i]
<1>1. Len(r) \in Nat /\ Len(s) \in Nat /\ Len(t) \in Nat
  BY LenProperties
<1>2. /\ r \o s \in Seq(S)
      /\ Len(r \o s) = Len(r) + Len(s)
      /\ \A i \in 1 .. Len(r) + Len(s) :
           (r \o s)[i] = IF i <= Len(r) THEN r[i] ELSE s[i - Len(r)]
  BY ConcatProperties
<1> DEFINE rs == r \o s
<1>3. /\ rs \o t \in Seq(S)
      /\ Len(rs \o t) = Len(rs) + Len(t)
      /\ \A i \in 1 .. Len(rs) + Len(t) :
           (rs \o t)[i] = IF i <= Len(rs) THEN rs[i] ELSE t[i - Len(rs)]
  <2>1. rs \in Seq(S)
    BY <1>2
  <2> HIDE DEF rs
  <2> QED BY <2>1, ConcatProperties
<1>4. \A i \in 1 .. Len(r) : rs[i] = r[i] /\ i \in 1 .. Len(rs)
  BY <1>1, <1>2
<1>5. \A i \in 1 .. Len(s) : rs[Len(r) + i] = s[i] /\ Len(r) + i \in 1 .. Len(rs)
  <2> TAKE i \in 1 .. Len(s)
  <2>1. Len(r) + i \in 1 .. Len(r) + Len(s) /\ ~(Len(r) + i <= Len(r))
        /\ Len(r) + i - Len(r) = i
    BY <1>1
  <2> QED BY <1>2, <2>1
<1>6. Len(rs) = Len(r) + Len(s)
  BY <1>2
<1> HIDE DEF rs
<1>7. \A i \in 1 .. Len(r) : (rs \o t)[i] = r[i]
  BY <1>1, <1>3, <1>4, <1>6
<1>8. \A i \in 1 .. Len(s) : (rs \o t)[Len(r) + i] = s[i]
  BY <1>1, <1>3, <1>5, <1>6
<1>9. \A i \in 1 .. Len(t) : (rs \o t)[Len(r) + Len(s) + i] = t[i]
  <2> TAKE i \in 1 .. Len(t)
  <2>1. Len(r) + Len(s) + i \in 1 .. Len(rs) + Len(t)
        /\ ~(Len(r) + Len(s) + i <= Len(rs)) /\ Len(r) + Len(s) + i - Len(rs) = i
    BY <1>1, <1>6
  <2> QED BY <1>3, <2>1
<1> QED BY <1>1, <1>3, <1>6, <1>7, <1>8, <1>9 DEF rs

\* All but the last of a sequence.
LEMMA FrontType ==
  ASSUME NEW S, NEW s \in Seq(S), s # << >>
  PROVE  /\ Front(s) \in Seq(S)
         /\ Len(s) \in Nat \ {0}
         /\ Len(Front(s)) = Len(s) - 1
         /\ \A i \in 1 .. Len(s) - 1 : Front(s)[i] = s[i]
<1>1. Len(s) \in Nat \ {0}
  BY LenProperties, EmptySeq
<1>2. \A i \in 1 .. Len(s) - 1 : s[i] \in S
  BY <1>1, ElementOfSeq
<1>3. 1 \in 1 .. Len(s) /\ Len(s) - 1 \in Nat
  BY <1>1
<1>4. /\ Front(s) \in Seq(S)
      /\ Len(Front(s)) = IF 1 <= Len(s) - 1 THEN Len(s) - 1 - 1 + 1 ELSE 0
      /\ \A i \in 1 .. Len(s) - 1 - 1 + 1 : Front(s)[i] = s[1 + i - 1]
  BY <1>2, <1>3, SubSeqProperties DEF Front
<1> DEFINE r == Front(s)
           N == Len(s) - 1
<1>5. /\ r \in Seq(S)
      /\ Len(r) = IF 1 <= N THEN N - 1 + 1 ELSE 0
      /\ \A i \in 1 .. N - 1 + 1 : r[i] = s[1 + i - 1]
  BY <1>4
<1>6. N \in Nat
  BY <1>3
<1> HIDE DEF r, N
<1>7. Len(r) = N /\ \A i \in 1 .. N : r[i] = s[i]
  BY <1>5, <1>6
<1> QED BY <1>1, <1>5, <1>7 DEF r, N

\* The first m names of a name.
LEMMA PrefixFacts ==
  ASSUME NEW S, NEW t \in Seq(S), NEW m \in 0 .. Len(t)
  PROVE  /\ SubSeq(t, 1, m) \in Seq(S)
         /\ Len(SubSeq(t, 1, m)) = m
         /\ m = 0 <=> SubSeq(t, 1, m) = << >>
         /\ m >= 1 => Front(SubSeq(t, 1, m)) = SubSeq(t, 1, m - 1)
         /\ m = Len(t) => SubSeq(t, 1, m) = t
<1>1. Len(t) \in Nat /\ \A i \in 1 .. Len(t) : t[i] \in S
  BY LenProperties, ElementOfSeq
<1>2. ASSUME NEW k \in 0 .. Len(t)
      PROVE  /\ SubSeq(t, 1, k) \in Seq(S)
             /\ Len(SubSeq(t, 1, k)) = k
             /\ \A i \in 1 .. k : SubSeq(t, 1, k)[i] = t[i]
  <2>1. /\ SubSeq(t, 1, k) \in Seq(S)
        /\ Len(SubSeq(t, 1, k)) = IF 1 <= k THEN k - 1 + 1 ELSE 0
        /\ \A i \in 1 .. k - 1 + 1 : SubSeq(t, 1, k)[i] = t[1 + i - 1]
    <3>1. \A i \in 1 .. k : t[i] \in S
      BY <1>1
    <3> QED BY <3>1, SubSeqProperties
  <2> DEFINE r == SubSeq(t, 1, k)
  <2> HIDE DEF r
  <2>2. /\ r \in Seq(S) /\ Len(r) = k
        /\ \A i \in 1 .. k : r[i] = t[i]
    BY <2>1 DEF r
  <2> QED BY <2>2 DEF r
<1> DEFINE first == SubSeq(t, 1, m)
<1>3. first \in Seq(S) /\ Len(first) = m /\ \A i \in 1 .. m : first[i] = t[i]
  BY <1>2
<1>4. m = 0 <=> first = << >>
  <2> HIDE DEF first
  <2> QED BY <1>3, EmptySeq
<1>5. m = Len(t) => first = t
  <2> HIDE DEF first
  <2> QED BY <1>3, SeqEqual
<1>6. ASSUME m >= 1 PROVE Front(first) = SubSeq(t, 1, m - 1)
  <2> DEFINE fewer == SubSeq(t, 1, m - 1)
             front == Front(first)
  <2>1. fewer \in Seq(S) /\ Len(fewer) = m - 1 /\ \A i \in 1 .. m - 1 : fewer[i] = t[i]
    BY <1>1, <1>2, <1>6
  <2> HIDE DEF first, fewer
  <2>2. /\ front \in Seq(S) /\ Len(front) = m - 1
        /\ \A i \in 1 .. m - 1 : front[i] = first[i]
    BY <1>3, <1>4, <1>6, FrontType
  <2> HIDE DEF front
  <2>3. \A i \in 1 .. m - 1 : front[i] = fewer[i]
    BY <1>3, <2>1, <2>2
  <2>4. front = fewer
    <3>1. /\ front \in Seq(S) /\ fewer \in Seq(S) /\ Len(front) = Len(fewer)
          /\ \A i \in 1 .. Len(front) : front[i] = fewer[i]
      BY <2>1, <2>2, <2>3
    <3> QED BY ONLY <3>1, SeqEqual
  <2> QED BY <2>4 DEF first, fewer, front
<1> HIDE DEF first
<1> QED BY <1>3, <1>4, <1>5, <1>6 DEF first

\* The last name is the one appended.
LEMMA AppendFacts ==
  ASSUME NEW S, NEW s \in Seq(S), NEW c \in S
  PROVE  Append(s, c) # << >> /\ Front(Append(s, c)) = s
<1> DEFINE longer == Append(s, c)
           front == Front(longer)
<1>1. /\ longer \in Seq(S) /\ Len(longer) = Len(s) + 1 /\ Len(s) \in Nat
      /\ \A i \in 1 .. Len(s) : longer[i] = s[i]
  BY AppendProperties, LenProperties
<1> HIDE DEF longer
<1>2. longer # << >>
  BY <1>1, EmptySeq
<1>3. /\ front \in Seq(S) /\ Len(front) = Len(longer) - 1
      /\ \A i \in 1 .. Len(longer) - 1 : front[i] = longer[i]
  BY <1>1, <1>2, FrontType
<1> HIDE DEF front
<1>4. Len(front) = Len(s) /\ \A i \in 1 .. Len(s) : front[i] = s[i]
  BY <1>1, <1>3
<1>5. front = s
  BY <1>3, <1>4, SeqEqual
<1> QED BY <1>2, <1>5 DEF longer, front

-----------------------------------------------------------------------------
\* The sums of the first n numbers, as a recursive function.
LEMMA PartialSums ==
  ASSUME NEW N \in Nat, NEW d \in [1 .. N -> Nat]
  PROVE  \E f \in [0 .. N -> Nat] :
           f = [n \in 0 .. N |-> IF n = 0 THEN 0 ELSE f[n - 1] + d[n]]
<1> DEFINE State == Nat
           base == 0
           step == [n \in 1 .. N |-> [x \in State |-> x + d[n]]]
<1>0. base \in State
  OBVIOUS
<1>1. step \in [1 .. N -> [State -> State]]
  OBVIOUS
<1>2. \A n \in 1 .. N, x \in State : step[n][x] = x + d[n]
  OBVIOUS
<1> HIDE DEF step, State
<1> DEFINE f == FoldOf(State, base, N, step)
<1>3. f \in [0 .. N -> State] /\ f[0] = 0 /\ \A n \in 1 .. N : f[n] = step[n][f[n - 1]]
  BY <1>0, <1>1, FoldSteps
<1> HIDE DEF f
<1>4. \A n \in 1 .. N : n - 1 \in 0 .. N /\ f[n - 1] \in State
  BY <1>3
<1>5. \A n \in 1 .. N : f[n] = f[n - 1] + d[n]
  BY <1>2, <1>3, <1>4
<1>6. ASSUME NEW n \in 0 .. N PROVE f[n] = IF n = 0 THEN 0 ELSE f[n - 1] + d[n]
  BY <1>3, <1>5
<1>7. f = [n \in 0 .. N |-> IF n = 0 THEN 0 ELSE f[n - 1] + d[n]]
  <2> DEFINE g == [n \in 0 .. N |-> IF n = 0 THEN 0 ELSE f[n - 1] + d[n]]
  <2>1. f = [n \in 0 .. N |-> f[n]] /\ g = [n \in 0 .. N |-> g[n]]
    BY <1>3
  <2>2. \A n \in 0 .. N : f[n] = g[n]
    BY <1>6
  <2> HIDE DEF g
  <2>3. f = g
    BY <2>1, <2>2
  <2> QED BY <2>3 DEF g
<1> QED BY <1>3, <1>7 DEF State

\* Sums of numbers grow.
LEMMA SumsGrow ==
  ASSUME NEW N \in Nat, NEW d \in [1 .. N -> Nat], NEW f \in [0 .. N -> Nat],
         \A n \in 1 .. N : f[n] = f[n - 1] + d[n],
         NEW m \in 0 .. N, NEW n \in m .. N
  PROVE  f[m] <= f[n]
<1> DEFINE T == { k \in 0 .. N - m : f[m] <= f[m + k] }
<1>1. 0 \in T
  OBVIOUS
<1>2. ASSUME NEW k \in 1 .. N - m, k - 1 \in T PROVE k \in T
  <2>1. m + k \in 1 .. N /\ m + k - 1 = m + (k - 1) /\ m + (k - 1) \in 0 .. N
    OBVIOUS
  <2>2. f[m + k] = f[m + (k - 1)] + d[m + k] /\ f[m] <= f[m + (k - 1)]
    BY <1>2, <2>1
  <2>3. f[m + k] \in Nat /\ f[m + (k - 1)] \in Nat /\ d[m + k] \in Nat /\ f[m] \in Nat
    BY <2>1
  <2> QED BY <2>2, <2>3
<1> HIDE DEF T
<1>3. 0 .. N - m \subseteq T
  <2>1. N - m \in Nat
    OBVIOUS
  <2> QED BY ONLY <1>1, <1>2, <2>1, IntervalInduction
<1>4. n - m \in 0 .. N - m /\ m + (n - m) = n
  OBVIOUS
<1> QED BY <1>3, <1>4 DEF T

\* Sequences over S, and where each ends when they are put together.
Parts(S, seqs, e) ==
  /\ seqs \in Seq(Seq(S))
  /\ Len(seqs) # 0
  /\ e \in [0 .. Len(seqs) -> Nat]
  /\ e[0] = 0
  /\ \A n \in 1 .. Len(seqs) : e[n] = e[n - 1] + Len(seqs[n])

\* Sequences put together: each is where the one before it ends.
LEMMA FlattenFacts ==
  ASSUME NEW S, NEW seqs, NEW e, Parts(S, seqs, e)
  PROVE  /\ FlattenSeq(seqs) \in Seq(S)
         /\ Len(FlattenSeq(seqs)) = e[Len(seqs)]
         /\ \A n \in 1 .. Len(seqs) : \A k \in 1 .. Len(seqs[n]) :
              FlattenSeq(seqs)[e[n - 1] + k] = seqs[n][k]
<1> DEFINE N == Len(seqs)
<1>e. /\ N \in Nat \ {0} /\ seqs \in Seq(Seq(S))
      /\ e \in [0 .. N -> Nat] /\ e[0] = 0
      /\ \A n \in 1 .. N : e[n] = e[n - 1] + Len(seqs[n])
  BY LenProperties DEF Parts
<1>n. Len(seqs) = N
  OBVIOUS
<1> HIDE DEF N
<1> USE <1>e, <1>n
<1> DEFINE State == Seq(S)
           base == << >>
           step == [n \in 1 .. N |-> [s \in State |-> s \o seqs[n]]]
<1>1. \A n \in 1 .. N : seqs[n] \in Seq(S) /\ Len(seqs[n]) \in Nat
  BY <1>n, LenProperties, ElementOfSeq
<1>0. base \in State
  BY EmptySeq
<1>2. step \in [1 .. N -> [State -> State]]
  BY <1>1, ConcatProperties
<1>3. \A n \in 1 .. N, s \in State : step[n][s] = s \o seqs[n]
  OBVIOUS
<1> HIDE DEF step
<1> DEFINE f == FoldOf(State, base, N, step)
<1>4. /\ f \in [0 .. N -> State] /\ f[0] = << >>
      /\ \A n \in 1 .. N : f[n] = step[n][f[n - 1]]
  <2> HIDE DEF State, base
  <2>1. N \in Nat
    OBVIOUS
  <2>2. /\ f \in [0 .. N -> State] /\ f[0] = base
        /\ \A n \in 1 .. N : f[n] = step[n][f[n - 1]]
    BY ONLY <1>0, <1>2, <2>1, FoldSteps
  <2> QED BY <2>2 DEF base
<1> HIDE DEF f
<1>5. ASSUME NEW n \in 1 .. N
      PROVE  /\ n - 1 \in 0 .. N /\ f[n - 1] \in Seq(S) /\ f[n] \in Seq(S)
             /\ f[n] = f[n - 1] \o seqs[n]
  <2>1. n - 1 \in 0 .. N /\ n \in 0 .. N
    OBVIOUS
  <2>2. f[n - 1] \in State /\ f[n] \in State
    BY <1>4, <2>1
  <2>3. f[n] = step[n][f[n - 1]]
    BY <1>4
  <2> QED BY <1>3, <2>1, <2>2, <2>3
<1> DEFINE g == [i \in 1 .. N |-> f[i]]
           flatten == CHOOSE h : h = [i \in 1 .. N |->
                                        IF i = 1 THEN seqs[i] ELSE h[i - 1] \o seqs[i]]
<1>6. f[1] = seqs[1]
  <2>1. f[1] = f[0] \o seqs[1] /\ f[0] = << >>
    <3>1. 1 \in 1 .. N /\ 1 - 1 = 0
      OBVIOUS
    <3>2. f[1] = f[1 - 1] \o seqs[1]
      BY <1>5, <3>1
    <3> QED BY <1>4, <3>1, <3>2
  <2>2. seqs[1] \in Seq(S)
    BY <1>1
  <2> QED BY <2>1, <2>2, ConcatEmptySeq
<1>7. g = [i \in 1 .. N |-> IF i = 1 THEN seqs[i] ELSE g[i - 1] \o seqs[i]]
  <2>1. ASSUME NEW i \in 1 .. N
        PROVE  f[i] = IF i = 1 THEN seqs[i] ELSE g[i - 1] \o seqs[i]
    <3>1. i # 1 => i - 1 \in 1 .. N
      OBVIOUS
    <3> QED BY <1>5, <1>6, <3>1
  <2> QED BY <2>1
<1>8. flatten = [i \in 1 .. N |-> IF i = 1 THEN seqs[i] ELSE flatten[i - 1] \o seqs[i]]
  <2> HIDE DEF g
  <2> QED BY <1>7
<1>9. FlattenSeq(seqs) = flatten[N]
  BY <1>n DEF FlattenSeq
<1> HIDE DEF flatten
<1> DEFINE T == { n \in 0 .. N : n = 0 \/ flatten[n] = f[n] }
<1>10. ASSUME NEW n \in 1 .. N, n - 1 \in T PROVE n \in T
  <2>1. flatten[n] = IF n = 1 THEN seqs[n] ELSE flatten[n - 1] \o seqs[n]
    BY <1>8
  <2>2. CASE n = 1
    BY <1>6, <2>1, <2>2
  <2>3. CASE n # 1
    <3>1. flatten[n - 1] = f[n - 1]
      BY <1>10, <2>3
    <3>2. f[n] = f[n - 1] \o seqs[n]
      BY <1>5
    <3>3. flatten[n] = f[n]
      BY <2>1, <2>3, <3>1, <3>2
    <3> QED BY <3>3
  <2> QED BY <2>2, <2>3
<1>11. 0 \in T
  OBVIOUS
<1> HIDE DEF T
<1>12. 0 .. N \subseteq T
  BY <1>10, <1>11, IntervalInduction
<1>13. flatten[N] = f[N]
  BY <1>12 DEF T
\* What the first n are, put together.
<1> DEFINE Sums(n) == /\ Len(f[n]) = e[n]
                      /\ \A m \in 1 .. n : \A k \in 1 .. Len(seqs[m]) :
                           /\ e[m - 1] + k \in 1 .. e[n]
                           /\ f[n][e[m - 1] + k] = seqs[m][k]
           U == { n \in 0 .. N : Sums(n) }
<1>14. 0 \in U
  BY <1>4, EmptySeq
<1>15. ASSUME NEW n \in 1 .. N, n - 1 \in U PROVE n \in U
  <2> DEFINE a == f[n - 1]
             b == seqs[n]
             c == f[n]
  <2>1. /\ a \in Seq(S) /\ b \in Seq(S) /\ c = a \o b
        /\ Len(a) = e[n - 1] /\ Len(b) \in Nat /\ e[n - 1] \in Nat
        /\ e[n] = e[n - 1] + Len(b)
    BY <1>1, <1>5, <1>15
  <2>0. Len(a) \in Nat /\ Len(b) \in Nat
    BY <2>1
  <2>2. \A m \in 1 .. n - 1 : \A k \in 1 .. Len(seqs[m]) :
          e[m - 1] + k \in 1 .. e[n - 1] /\ a[e[m - 1] + k] = seqs[m][k]
    BY <1>15
  <2> HIDE DEF a, b, c
  <2>3. /\ Len(c) = Len(a) + Len(b)
        /\ \A i \in 1 .. Len(a) + Len(b) : c[i] = IF i <= Len(a) THEN a[i] ELSE b[i - Len(a)]
    <3>1. /\ Len(a \o b) = Len(a) + Len(b)
          /\ \A i \in 1 .. Len(a) + Len(b) :
               (a \o b)[i] = IF i <= Len(a) THEN a[i] ELSE b[i - Len(a)]
      BY ONLY <2>1, ConcatProperties
    <3> QED BY <2>1, <3>1
  <2>4. Len(c) = e[n]
    BY <2>1, <2>3
  <2>5. ASSUME NEW m \in 1 .. n, NEW k \in 1 .. Len(seqs[m])
        PROVE  e[m - 1] + k \in 1 .. e[n] /\ c[e[m - 1] + k] = seqs[m][k]
    <3>1. CASE m = n
      <4>1. k \in 1 .. Len(b) /\ e[m - 1] + k = Len(a) + k /\ seqs[m][k] = b[k]
        BY <2>1, <3>1 DEF b
      <4>2. /\ Len(a) + k \in 1 .. Len(a) + Len(b) /\ ~(Len(a) + k <= Len(a))
            /\ (Len(a) + k) - Len(a) = k
        <5>1. k \in Int /\ 1 <= k /\ k <= Len(b)
          BY ONLY <2>0, <4>1
        <5> QED BY ONLY <2>0, <5>1
      <4> QED BY <2>1, <2>3, <4>1, <4>2
    <3>2. CASE m # n
      <4>1. e[m - 1] + k \in 1 .. e[n - 1] /\ a[e[m - 1] + k] = seqs[m][k]
        BY <2>2, <3>2
      <4>2. e[m - 1] + k \in 1 .. Len(a) + Len(b) /\ e[m - 1] + k <= Len(a)
        <5>1. e[m - 1] + k \in 1 .. Len(a)
          BY <2>1, <4>1
        <5> QED BY ONLY <2>0, <5>1
      <4> QED BY <2>1, <2>3, <4>1, <4>2
    <3> QED BY <3>1, <3>2
  <2> QED BY <2>4, <2>5 DEF c
<1> HIDE DEF U
<1>16. 0 .. N \subseteq U
  BY <1>14, <1>15, IntervalInduction
<1>17. Sums(N) /\ f[N] \in Seq(S)
  BY <1>5, <1>16 DEF U
<1> QED BY <1>9, <1>13, <1>17, <1>n
==============================================================================
