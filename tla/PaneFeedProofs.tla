---------------------------- MODULE PaneFeedProofs ----------------------------
(***************************************************************************)
(* From an agent's bytes to its pane, for any of the units in any number   *)
(* and order and any size of a batch: what the three automata make of      *)
(* them, byte by byte, is what Meant says, unit by unit.                   *)
(*                                                                         *)
(* Meant and the scanner's run over what the status scanner gives are      *)
(* folds.  That a fold over one more element is one more step is proved    *)
(* from the recursive function by which FoldLeft is defined, by the least  *)
(* length at which it would not be.  Then, for each automaton, an operator *)
(* says where it is when it has read n bytes of a unit (QueryAt, OscWithin,*)
(* SyncWithin), and a lemma that every byte takes it one further, and past *)
(* the last one back to its start, with the effect of the whole unit       *)
(* (QueryFollows, OscFollows, SyncFollows).  FeedInv puts the three side   *)
(* by side.  Nothing is said of a pane whose session dropped within a unit,*)
(* nor of what is shown once a batch that holds something is begun again.  *)
(***************************************************************************)
EXTENDS PaneFeed, SequenceTheorems, WellFoundedInduction, TLAPS

-----------------------------------------------------------------------------
(* Induction: a set of naturals that is not empty has a least element, and a fold *)
(* is what its recursive function says                                     *)

\* The natural numbers are well-founded.
LEMMA LeastNatural ==
  ASSUME NEW T, T \subseteq Nat, T # {}
  PROVE  \E m \in T : \A k \in T : m <= k
<1>1. PICK m \in T : \A k \in T : <<k, m>> \notin OpToRel(<, Nat)
  <2>1. IsWellFoundedOn(OpToRel(<, Nat), Nat)
    BY NatLessThanWellFounded
  <2>2. QED
    BY <2>1, WFMin
<1>2. \A k \in T : ~ (k < m)
  BY <1>1 DEF OpToRel
<1>3. QED
  BY <1>2

\* The greatest element of a set of positions, where FoldLeft begins.
LEMMA MaxOfSubset ==
  ASSUME NEW n \in Nat, NEW S \in SUBSET (1..n), S # {}
  PROVE  Max(S) \in S /\ \A k \in S : k <= Max(S)
<1> DEFINE T == {b \in Nat : \A k \in S : k <= b}
<1>1. PICK m \in T : \A k \in T : m <= k
  <2>1. T \subseteq Nat /\ n \in T
    OBVIOUS
  <2>2. QED
    BY <2>1, LeastNatural
<1>2. m \in S
  <2>1. SUFFICES ASSUME m \notin S PROVE FALSE
    OBVIOUS
  <2>2. PICK k \in S : k <= m
    BY <1>1
  <2>3. m - 1 \in T
    BY <1>1, <2>1, <2>2
  <2>4. QED
    BY <1>1, <2>3
<1>3. \A k \in S : k <= m
  BY <1>1
<1>4. QED
  BY <1>2, <1>3 DEF Max

\* What the batch scanner makes of a sequence of bytes.
Scanned(s, out) == FoldLeft(SyncStep, s, out)

\* The recursive function on the sets of positions by which FoldLeft is defined.
SyncFolds(g, n, s, out) ==
  g = [S \in SUBSET (1..n) |-> IF S = {} THEN s ELSE SyncStep(g[S \ {Max(S)}], out[Max(S)])]

\* There is one, whatever the length: take the least length at which there is none.
LEMMA SyncFoldExists ==
  ASSUME NEW n \in Nat, NEW s, NEW out
  PROVE  \E g : SyncFolds(g, n, s, out)
<1> DEFINE T == {k \in Nat : \A g : ~SyncFolds(g, k, s, out)}
<1>1. SUFFICES ASSUME T # {} PROVE FALSE
  BY DEF T
<1>2. PICK m \in T : \A k \in T : m <= k
  BY <1>1, LeastNatural
<1>3. m # 0
  <2>1. SUFFICES SyncFolds([S \in SUBSET (1..0) |-> s], 0, s, out)
    OBVIOUS
  <2>2. QED
    BY DEF SyncFolds
<1>4. PICK g : SyncFolds(g, m - 1, s, out)
  BY <1>2, <1>3
<1>5. ASSUME NEW S \in SUBSET (1..(m - 1))
      PROVE  g[S] = IF S = {} THEN s ELSE SyncStep(g[S \ {Max(S)}], out[Max(S)])
  BY <1>4 DEF SyncFolds
<1> DEFINE f == [S \in SUBSET (1..m) |-> IF m \in S THEN SyncStep(g[S \ {m}], out[m]) ELSE g[S]]
<1>6. \A S \in SUBSET (1..m) : f[S] = IF m \in S THEN SyncStep(g[S \ {m}], out[m]) ELSE g[S]
  OBVIOUS
<1> HIDE DEF f
<1>7. ASSUME NEW S \in SUBSET (1..m), S # {}
      PROVE  f[S] = SyncStep(f[S \ {Max(S)}], out[Max(S)])
  <2>1. Max(S) \in S /\ \A k \in S : k <= Max(S)
    BY <1>7, MaxOfSubset
  <2>2. CASE m \in S
    <3>1. Max(S) = m
      <4>1. Max(S) \in 1..m /\ m <= Max(S)
        BY <2>1, <2>2
      <4>2. QED
        BY <4>1
    <3>2. S \ {m} \in SUBSET (1..m) /\ m \notin S \ {m}
      OBVIOUS
    <3>3. f[S \ {m}] = g[S \ {m}]
      BY <1>6, <3>2
    <3>4. QED
      BY <1>6, <2>2, <3>1, <3>3
  <2>3. CASE m \notin S
    <3>1. S \in SUBSET (1..(m - 1)) /\ S \ {Max(S)} \in SUBSET (1..m) /\ m \notin S \ {Max(S)}
      <4>1. \A x \in S : x \in 1..m /\ x # m
        BY <2>3
      <4>2. \A x \in S : x \in 1..(m - 1)
        BY <4>1
      <4>3. QED
        BY <4>1, <4>2
    <3>2. g[S] = SyncStep(g[S \ {Max(S)}], out[Max(S)])
      BY <1>5, <1>7, <3>1
    <3>3. f[S \ {Max(S)}] = g[S \ {Max(S)}] /\ f[S] = g[S]
      BY <1>6, <2>3, <3>1
    <3>4. QED
      BY <3>2, <3>3
  <2>4. QED
    BY <2>2, <2>3
<1>8. f[{}] = s
  <2>1. {} \in SUBSET (1..m) /\ {} \in SUBSET (1..(m - 1)) /\ m \notin {}
    OBVIOUS
  <2>2. QED
    BY <1>5, <1>6, <2>1
<1>9. f = [S \in SUBSET (1..m) |-> IF S = {} THEN s ELSE SyncStep(f[S \ {Max(S)}], out[Max(S)])]
  <2>1. \A S \in SUBSET (1..m) : f[S] = IF S = {} THEN s ELSE SyncStep(f[S \ {Max(S)}], out[Max(S)])
    BY <1>7, <1>8
  <2>2. f = [S \in SUBSET (1..m) |-> f[S]]
    BY DEF f
  <2>3. QED
    BY <2>1, <2>2
<1>10. SyncFolds(f, m, s, out)
  BY <1>9 DEF SyncFolds
<1>11. QED
  BY <1>2, <1>10

\* What a fold makes of the first m elements depends on them alone.
LEMMA SyncFoldsAgree ==
  ASSUME NEW n \in Nat, NEW m \in 0..n, NEW s, NEW out, NEW other, NEW g, NEW h,
         SyncFolds(g, n, s, out), SyncFolds(h, m, s, other), \A i \in 1..m : out[i] = other[i]
  PROVE  g[1..m] = h[1..m]
<1> DEFINE T == {k \in 0..m : \E S \in SUBSET (1..k) : g[S] # h[S]}
<1>1. SUFFICES ASSUME T # {} PROVE FALSE
  <2>1. T = {} => m \notin T
    OBVIOUS
  <2>2. m \in 0..m /\ (1..m) \in SUBSET (1..m)
    OBVIOUS
  <2>3. QED
    BY <2>1, <2>2
<1>2. PICK k \in T : \A j \in T : k <= j
  <2>1. T \subseteq Nat
    OBVIOUS
  <2>2. QED
    BY <1>1, <2>1, LeastNatural
<1>3. PICK S \in SUBSET (1..k) : g[S] # h[S]
  BY <1>2
<1>4. S \in SUBSET (1..n) /\ S \in SUBSET (1..m) /\ {} \in SUBSET (1..n) /\ {} \in SUBSET (1..m)
  BY <1>2
<1>5. S # {}
  <2>1. g[{}] = s /\ h[{}] = s
    BY <1>4 DEF SyncFolds
  <2>2. QED
    BY <1>3, <2>1
<1>6. Max(S) \in S /\ \A j \in S : j <= Max(S)
  BY <1>4, <1>5, MaxOfSubset
<1>7. g[S] = SyncStep(g[S \ {Max(S)}], out[Max(S)]) /\ h[S] = SyncStep(h[S \ {Max(S)}], other[Max(S)])
  BY <1>4, <1>5 DEF SyncFolds
<1>8. g[S \ {Max(S)}] = h[S \ {Max(S)}]
  <2>1. PICK j \in 1..k : j = Max(S)
    BY <1>6
  <2>2. k \in 0..m /\ j - 1 \in 0..m
    BY <1>2, <2>1
  <2>3. j - 1 \notin T
    BY <1>2, <2>1, <2>2
  <2>4. S \ {j} \in SUBSET (1..(j - 1))
    <3>1. \A x \in S \ {j} : x \in 1..k /\ x <= j /\ x # j
      BY <1>6, <2>1
    <3>2. \A x \in S \ {j} : x \in 1..(j - 1)
      BY <2>1, <3>1
    <3>3. QED
      BY <3>2
  <2>5. QED
    BY <2>1, <2>2, <2>3, <2>4
<1>9. out[Max(S)] = other[Max(S)]
  BY <1>4, <1>6
<1>10. QED
  BY <1>3, <1>7, <1>8, <1>9

\* The fold is its value on all positions.
LEMMA SyncFoldIs ==
  ASSUME NEW s, NEW D, NEW out \in Seq(D)
  PROVE  \E g : SyncFolds(g, Len(out), s, out) /\ Scanned(s, out) = g[1..Len(out)]
<1>1. DOMAIN out = 1..Len(out) /\ Len(out) \in Nat
  OBVIOUS
<1> DEFINE g == CHOOSE iter : iter = [S \in SUBSET DOMAIN out |-> IF S = {} THEN s ELSE SyncStep(iter[S \ {Max(S)}], out[Max(S)])]
<1>2. Scanned(s, out) = g[DOMAIN out]
  BY Zenon DEF Scanned, FoldLeft, MapThenFoldSet
<1>3. \E iter : iter = [S \in SUBSET DOMAIN out |-> IF S = {} THEN s ELSE SyncStep(iter[S \ {Max(S)}], out[Max(S)])]
  <2>1. PICK iter : SyncFolds(iter, Len(out), s, out)
    BY <1>1, SyncFoldExists
  <2>2. iter = [S \in SUBSET DOMAIN out |-> IF S = {} THEN s ELSE SyncStep(iter[S \ {Max(S)}], out[Max(S)])]
    BY <1>1, <2>1, Zenon DEF SyncFolds
  <2>3. QED
    BY <2>2, Zenon
<1>4. g = [S \in SUBSET DOMAIN out |-> IF S = {} THEN s ELSE SyncStep(g[S \ {Max(S)}], out[Max(S)])]
  BY <1>3, Zenon
<1>5. SyncFolds(g, Len(out), s, out)
  BY <1>1, <1>4, Zenon DEF SyncFolds
<1>6. QED
  BY <1>1, <1>2, <1>5, Zenon

\* A fold over nothing, and over one more element.
LEMMA SyncFold ==
  ASSUME NEW s, NEW D, NEW out \in Seq(D)
  PROVE  /\ Scanned(s, <<>>) = s
         /\ \A b \in D : Scanned(s, Append(out, b)) = SyncStep(Scanned(s, out), b)
<1>1. Scanned(s, <<>>) = s
  <2>1. <<>> \in Seq(D) /\ Len(<<>>) = 0
    OBVIOUS
  <2>2. PICK g : SyncFolds(g, 0, s, <<>>) /\ Scanned(s, <<>>) = g[1..0]
    BY <2>1, SyncFoldIs
  <2>3. 1..0 = {} /\ {} \in SUBSET (1..0)
    OBVIOUS
  <2>4. QED
    BY <2>2, <2>3 DEF SyncFolds
<1>2. ASSUME NEW b \in D PROVE Scanned(s, Append(out, b)) = SyncStep(Scanned(s, out), b)
  <2> DEFINE n == Len(out)
             more == Append(out, b)
  <2>1. more \in Seq(D) /\ Len(more) = n + 1 /\ n \in Nat /\ more[n + 1] = b /\ \A i \in 1..n : more[i] = out[i]
    OBVIOUS
  <2>2. PICK g : SyncFolds(g, n + 1, s, more) /\ Scanned(s, more) = g[1..(n + 1)]
    BY <2>1, SyncFoldIs
  <2>3. PICK h : SyncFolds(h, n, s, out) /\ Scanned(s, out) = h[1..n]
    BY SyncFoldIs
  <2> HIDE DEF n, more
  <2>4. 1..(n + 1) \in SUBSET (1..(n + 1)) /\ 1..(n + 1) # {}
    <3>1. n + 1 \in 1..(n + 1)
      BY <2>1
    <3>2. QED
      BY <3>1
  <2>5. Max(1..(n + 1)) = n + 1
    <3>1. n + 1 \in Nat
      BY <2>1
    <3>2. Max(1..(n + 1)) \in 1..(n + 1) /\ \A k \in 1..(n + 1) : k <= Max(1..(n + 1))
      BY <2>4, <3>1, MaxOfSubset
    <3>3. QED
      BY <2>1, <3>2
  <2>6. (1..(n + 1)) \ {n + 1} = 1..n
    BY <2>1
  <2>7. g[1..(n + 1)] = SyncStep(g[1..n], b)
    <3>1. g[1..(n + 1)] = SyncStep(g[(1..(n + 1)) \ {Max(1..(n + 1))}], more[Max(1..(n + 1))])
      BY <2>2, <2>4 DEF SyncFolds
    <3>2. QED
      BY <2>1, <2>5, <2>6, <3>1
  <2>8. g[1..n] = h[1..n]
    <3>1. n + 1 \in Nat /\ n \in 0..(n + 1)
      BY <2>1
    <3>2. QED
      BY <2>1, <2>2, <2>3, <3>1, SyncFoldsAgree
  <2>9. QED
    BY <2>2, <2>3, <2>7, <2>8 DEF more
<1>3. QED
  BY <1>1, <1>2

\* What a sequence of units means.
Understood(s, out) == FoldLeft(Reads, s, out)

\* The recursive function on the sets of positions by which FoldLeft is defined.
ReadFolds(g, n, s, out) ==
  g = [S \in SUBSET (1..n) |-> IF S = {} THEN s ELSE Reads(g[S \ {Max(S)}], out[Max(S)])]

\* There is one, whatever the length: take the least length at which there is none.
LEMMA ReadFoldExists ==
  ASSUME NEW n \in Nat, NEW s, NEW out
  PROVE  \E g : ReadFolds(g, n, s, out)
<1> DEFINE T == {k \in Nat : \A g : ~ReadFolds(g, k, s, out)}
<1>1. SUFFICES ASSUME T # {} PROVE FALSE
  BY DEF T
<1>2. PICK m \in T : \A k \in T : m <= k
  BY <1>1, LeastNatural
<1>3. m # 0
  <2>1. SUFFICES ReadFolds([S \in SUBSET (1..0) |-> s], 0, s, out)
    OBVIOUS
  <2>2. QED
    BY DEF ReadFolds
<1>4. PICK g : ReadFolds(g, m - 1, s, out)
  BY <1>2, <1>3
<1>5. ASSUME NEW S \in SUBSET (1..(m - 1))
      PROVE  g[S] = IF S = {} THEN s ELSE Reads(g[S \ {Max(S)}], out[Max(S)])
  BY <1>4 DEF ReadFolds
<1> DEFINE f == [S \in SUBSET (1..m) |-> IF m \in S THEN Reads(g[S \ {m}], out[m]) ELSE g[S]]
<1>6. \A S \in SUBSET (1..m) : f[S] = IF m \in S THEN Reads(g[S \ {m}], out[m]) ELSE g[S]
  OBVIOUS
<1> HIDE DEF f
<1>7. ASSUME NEW S \in SUBSET (1..m), S # {}
      PROVE  f[S] = Reads(f[S \ {Max(S)}], out[Max(S)])
  <2>1. Max(S) \in S /\ \A k \in S : k <= Max(S)
    BY <1>7, MaxOfSubset
  <2>2. CASE m \in S
    <3>1. Max(S) = m
      <4>1. Max(S) \in 1..m /\ m <= Max(S)
        BY <2>1, <2>2
      <4>2. QED
        BY <4>1
    <3>2. S \ {m} \in SUBSET (1..m) /\ m \notin S \ {m}
      OBVIOUS
    <3>3. f[S \ {m}] = g[S \ {m}]
      BY <1>6, <3>2
    <3>4. QED
      BY <1>6, <2>2, <3>1, <3>3
  <2>3. CASE m \notin S
    <3>1. S \in SUBSET (1..(m - 1)) /\ S \ {Max(S)} \in SUBSET (1..m) /\ m \notin S \ {Max(S)}
      <4>1. \A x \in S : x \in 1..m /\ x # m
        BY <2>3
      <4>2. \A x \in S : x \in 1..(m - 1)
        BY <4>1
      <4>3. QED
        BY <4>1, <4>2
    <3>2. g[S] = Reads(g[S \ {Max(S)}], out[Max(S)])
      BY <1>5, <1>7, <3>1
    <3>3. f[S \ {Max(S)}] = g[S \ {Max(S)}] /\ f[S] = g[S]
      BY <1>6, <2>3, <3>1
    <3>4. QED
      BY <3>2, <3>3
  <2>4. QED
    BY <2>2, <2>3
<1>8. f[{}] = s
  <2>1. {} \in SUBSET (1..m) /\ {} \in SUBSET (1..(m - 1)) /\ m \notin {}
    OBVIOUS
  <2>2. QED
    BY <1>5, <1>6, <2>1
<1>9. f = [S \in SUBSET (1..m) |-> IF S = {} THEN s ELSE Reads(f[S \ {Max(S)}], out[Max(S)])]
  <2>1. \A S \in SUBSET (1..m) : f[S] = IF S = {} THEN s ELSE Reads(f[S \ {Max(S)}], out[Max(S)])
    BY <1>7, <1>8
  <2>2. f = [S \in SUBSET (1..m) |-> f[S]]
    BY DEF f
  <2>3. QED
    BY <2>1, <2>2
<1>10. ReadFolds(f, m, s, out)
  BY <1>9 DEF ReadFolds
<1>11. QED
  BY <1>2, <1>10

\* What a fold makes of the first m elements depends on them alone.
LEMMA ReadFoldsAgree ==
  ASSUME NEW n \in Nat, NEW m \in 0..n, NEW s, NEW out, NEW other, NEW g, NEW h,
         ReadFolds(g, n, s, out), ReadFolds(h, m, s, other), \A i \in 1..m : out[i] = other[i]
  PROVE  g[1..m] = h[1..m]
<1> DEFINE T == {k \in 0..m : \E S \in SUBSET (1..k) : g[S] # h[S]}
<1>1. SUFFICES ASSUME T # {} PROVE FALSE
  <2>1. T = {} => m \notin T
    OBVIOUS
  <2>2. m \in 0..m /\ (1..m) \in SUBSET (1..m)
    OBVIOUS
  <2>3. QED
    BY <2>1, <2>2
<1>2. PICK k \in T : \A j \in T : k <= j
  <2>1. T \subseteq Nat
    OBVIOUS
  <2>2. QED
    BY <1>1, <2>1, LeastNatural
<1>3. PICK S \in SUBSET (1..k) : g[S] # h[S]
  BY <1>2
<1>4. S \in SUBSET (1..n) /\ S \in SUBSET (1..m) /\ {} \in SUBSET (1..n) /\ {} \in SUBSET (1..m)
  BY <1>2
<1>5. S # {}
  <2>1. g[{}] = s /\ h[{}] = s
    BY <1>4 DEF ReadFolds
  <2>2. QED
    BY <1>3, <2>1
<1>6. Max(S) \in S /\ \A j \in S : j <= Max(S)
  BY <1>4, <1>5, MaxOfSubset
<1>7. g[S] = Reads(g[S \ {Max(S)}], out[Max(S)]) /\ h[S] = Reads(h[S \ {Max(S)}], other[Max(S)])
  BY <1>4, <1>5 DEF ReadFolds
<1>8. g[S \ {Max(S)}] = h[S \ {Max(S)}]
  <2>1. PICK j \in 1..k : j = Max(S)
    BY <1>6
  <2>2. k \in 0..m /\ j - 1 \in 0..m
    BY <1>2, <2>1
  <2>3. j - 1 \notin T
    BY <1>2, <2>1, <2>2
  <2>4. S \ {j} \in SUBSET (1..(j - 1))
    <3>1. \A x \in S \ {j} : x \in 1..k /\ x <= j /\ x # j
      BY <1>6, <2>1
    <3>2. \A x \in S \ {j} : x \in 1..(j - 1)
      BY <2>1, <3>1
    <3>3. QED
      BY <3>2
  <2>5. QED
    BY <2>1, <2>2, <2>3, <2>4
<1>9. out[Max(S)] = other[Max(S)]
  BY <1>4, <1>6
<1>10. QED
  BY <1>3, <1>7, <1>8, <1>9

\* The fold is its value on all positions.
LEMMA ReadFoldIs ==
  ASSUME NEW s, NEW D, NEW out \in Seq(D)
  PROVE  \E g : ReadFolds(g, Len(out), s, out) /\ Understood(s, out) = g[1..Len(out)]
<1>1. DOMAIN out = 1..Len(out) /\ Len(out) \in Nat
  OBVIOUS
<1> DEFINE g == CHOOSE iter : iter = [S \in SUBSET DOMAIN out |-> IF S = {} THEN s ELSE Reads(iter[S \ {Max(S)}], out[Max(S)])]
<1>2. Understood(s, out) = g[DOMAIN out]
  BY Zenon DEF Understood, FoldLeft, MapThenFoldSet
<1>3. \E iter : iter = [S \in SUBSET DOMAIN out |-> IF S = {} THEN s ELSE Reads(iter[S \ {Max(S)}], out[Max(S)])]
  <2>1. PICK iter : ReadFolds(iter, Len(out), s, out)
    BY <1>1, ReadFoldExists
  <2>2. iter = [S \in SUBSET DOMAIN out |-> IF S = {} THEN s ELSE Reads(iter[S \ {Max(S)}], out[Max(S)])]
    BY <1>1, <2>1, Zenon DEF ReadFolds
  <2>3. QED
    BY <2>2, Zenon
<1>4. g = [S \in SUBSET DOMAIN out |-> IF S = {} THEN s ELSE Reads(g[S \ {Max(S)}], out[Max(S)])]
  BY <1>3, Zenon
<1>5. ReadFolds(g, Len(out), s, out)
  BY <1>1, <1>4, Zenon DEF ReadFolds
<1>6. QED
  BY <1>1, <1>2, <1>5, Zenon

\* A fold over nothing, and over one more element.
LEMMA ReadFold ==
  ASSUME NEW s, NEW D, NEW out \in Seq(D)
  PROVE  /\ Understood(s, <<>>) = s
         /\ \A b \in D : Understood(s, Append(out, b)) = Reads(Understood(s, out), b)
<1>1. Understood(s, <<>>) = s
  <2>1. <<>> \in Seq(D) /\ Len(<<>>) = 0
    OBVIOUS
  <2>2. PICK g : ReadFolds(g, 0, s, <<>>) /\ Understood(s, <<>>) = g[1..0]
    BY <2>1, ReadFoldIs
  <2>3. 1..0 = {} /\ {} \in SUBSET (1..0)
    OBVIOUS
  <2>4. QED
    BY <2>2, <2>3 DEF ReadFolds
<1>2. ASSUME NEW b \in D PROVE Understood(s, Append(out, b)) = Reads(Understood(s, out), b)
  <2> DEFINE n == Len(out)
             more == Append(out, b)
  <2>1. more \in Seq(D) /\ Len(more) = n + 1 /\ n \in Nat /\ more[n + 1] = b /\ \A i \in 1..n : more[i] = out[i]
    OBVIOUS
  <2>2. PICK g : ReadFolds(g, n + 1, s, more) /\ Understood(s, more) = g[1..(n + 1)]
    BY <2>1, ReadFoldIs
  <2>3. PICK h : ReadFolds(h, n, s, out) /\ Understood(s, out) = h[1..n]
    BY ReadFoldIs
  <2> HIDE DEF n, more
  <2>4. 1..(n + 1) \in SUBSET (1..(n + 1)) /\ 1..(n + 1) # {}
    <3>1. n + 1 \in 1..(n + 1)
      BY <2>1
    <3>2. QED
      BY <3>1
  <2>5. Max(1..(n + 1)) = n + 1
    <3>1. n + 1 \in Nat
      BY <2>1
    <3>2. Max(1..(n + 1)) \in 1..(n + 1) /\ \A k \in 1..(n + 1) : k <= Max(1..(n + 1))
      BY <2>4, <3>1, MaxOfSubset
    <3>3. QED
      BY <2>1, <3>2
  <2>6. (1..(n + 1)) \ {n + 1} = 1..n
    BY <2>1
  <2>7. g[1..(n + 1)] = Reads(g[1..n], b)
    <3>1. g[1..(n + 1)] = Reads(g[(1..(n + 1)) \ {Max(1..(n + 1))}], more[Max(1..(n + 1))])
      BY <2>2, <2>4 DEF ReadFolds
    <3>2. QED
      BY <2>1, <2>5, <2>6, <3>1
  <2>8. g[1..n] = h[1..n]
    <3>1. n + 1 \in Nat /\ n \in 0..(n + 1)
      BY <2>1
    <3>2. QED
      BY <2>1, <2>2, <2>3, <3>1, ReadFoldsAgree
  <2>9. QED
    BY <2>2, <2>3, <2>7, <2>8 DEF more
<1>3. QED
  BY <1>1, <1>2

-----------------------------------------------------------------------------
(* The units: their forms, and what each has where *)

\* Bytes as names: what a unit of each form has where.
CSI_SECOND == "["
OSC_SECOND == "]"
DCS_SECOND == "P"
SEPARATOR == ";"
CODE == "9999"

Texts == {"text"}
Escs == {"escM"}
Dcss == {"terminfo"}
Csis == {"colour", "begin", "end", "da1", "da2", "decrqm"}
Oscs == {"title", "link", "status", "done", "garbled", "fg", "bg"}
Statuses == {"status", "done", "garbled"}

CsiForm(u) ==
  /\ Len(u) >= 3 /\ u[1] = ESC /\ u[2] = CSI_SECOND
  /\ \A i \in 3..(Len(u) - 1) : u[i] \notin Finals
  /\ \A i \in 2..Len(u) : u[i] # ESC
  /\ u[Len(u)] \in Finals
OscStart(u) ==
  /\ u[1] = ESC /\ u[2] = OSC_SECOND /\ u[4] = SEPARATOR
  /\ u[3] # BEL /\ u[3] # ESC /\ u[3] # SEPARATOR /\ u[5] # BEL /\ u[5] # ESC
OscEnd(u) ==
  /\ Len(u) \in 6..7
  /\ Len(u) = 6 => u[6] = BEL
  /\ Len(u) = 7 => u[6] = ESC /\ u[7] = ST_SECOND
OscForm(u) == OscStart(u) /\ OscEnd(u)
DcsForm(u) ==
  /\ Len(u) = 6 /\ u[1] = ESC /\ u[2] = DCS_SECOND /\ u[5] = ESC /\ u[6] = ST_SECOND
  /\ u[3] # ESC /\ u[4] # ESC

\* The bytes of all units.
Bytes == {"x", ESC, "M", "[", "31", "m", "?2026", "h", "l", "]", "0", ";", "t", BEL, "8", ST_SECOND,
          "9999", "working", "done", "10", "?", "11", "c", ">", "?2004", "$", "p", "P", "+q", "544e"}

\* Every unit has one form.
LEMMA UnitKinds ==
  /\ DOMAIN Unit = Texts \cup Escs \cup Csis \cup Oscs \cup Dcss
  /\ \A k \in Texts : k \notin Escs /\ k \notin Csis /\ k \notin Oscs /\ k \notin Dcss
  /\ \A k \in Escs : k \notin Csis /\ k \notin Oscs /\ k \notin Dcss
  /\ \A k \in Csis : k \notin Oscs /\ k \notin Dcss
  /\ \A k \in Oscs : k \notin Dcss
BY DEF Unit, Texts, Escs, Csis, Oscs, Dcss

\* The units by name.
LEMMA UnitBytes ==
  /\ Unit["text"] = <<"x">>
  /\ Unit["escM"] = <<ESC, "M">>
  /\ Unit["colour"] = <<ESC, "[", "31", "m">>
  /\ Unit["begin"] = <<ESC, "[", "?2026", "h">>
  /\ Unit["end"] = <<ESC, "[", "?2026", "l">>
  /\ Unit["title"] = <<ESC, "]", "0", ";", "t", BEL>>
  /\ Unit["link"] = <<ESC, "]", "8", ";", "t", ESC, ST_SECOND>>
  /\ Unit["status"] = <<ESC, "]", "9999", ";", "working", BEL>>
  /\ Unit["done"] = <<ESC, "]", "9999", ";", "done", ESC, ST_SECOND>>
  /\ Unit["garbled"] = <<ESC, "]", "9999", ";", "t", BEL>>
  /\ Unit["fg"] = <<ESC, "]", "10", ";", "?", BEL>>
  /\ Unit["bg"] = <<ESC, "]", "11", ";", "?", ESC, ST_SECOND>>
  /\ Unit["da1"] = <<ESC, "[", "c">>
  /\ Unit["da2"] = <<ESC, "[", ">", "c">>
  /\ Unit["decrqm"] = <<ESC, "[", "?2004", "$", "p">>
  /\ Unit["terminfo"] = <<ESC, "P", "+q", "544e", ESC, ST_SECOND>>
BY DEF Unit

\* What a tuple of a given length has where.
LEMMA Tuples ==
  ASSUME NEW S
  PROVE  /\ \A a \in S : <<a>> \in Seq(S)
         /\ \A a, b \in S : <<a, b>> \in Seq(S)
         /\ \A a, b, c \in S : <<a, b, c>> \in Seq(S)
         /\ \A a, b, c, d \in S : <<a, b, c, d>> \in Seq(S)
         /\ \A a, b, c, d, e \in S : <<a, b, c, d, e>> \in Seq(S)
         /\ \A a, b, c, d, e, f \in S : <<a, b, c, d, e, f>> \in Seq(S)
         /\ \A a, b, c, d, e, f, g \in S : <<a, b, c, d, e, f, g>> \in Seq(S)
OBVIOUS

LEMMA Six ==
  ASSUME NEW u, NEW a, NEW b, NEW c, NEW d, NEW e, NEW f, u = <<a, b, c, d, e, f>>
  PROVE  Len(u) = 6 /\ u[1] = a /\ u[2] = b /\ u[3] = c /\ u[4] = d /\ u[5] = e /\ u[6] = f
OBVIOUS

LEMMA Seven ==
  ASSUME NEW u, NEW a, NEW b, NEW c, NEW d, NEW e, NEW f, NEW g, u = <<a, b, c, d, e, f, g>>
  PROVE  Len(u) = 7 /\ u[1] = a /\ u[2] = b /\ u[3] = c /\ u[4] = d /\ u[5] = e /\ u[6] = f /\ u[7] = g
OBVIOUS

\* What each unit has where, one lemma per unit.
LEMMA TextUnit ==
  ASSUME NEW k, k = "text"
  PROVE  Unit[k] \in Seq(Bytes) /\ Len(Unit[k]) = 1 /\ Unit[k][1] = "x"
<1> DEFINE u == Unit[k]
<1>1. u = <<"x">>
  BY UnitBytes
<1> HIDE DEF u
<1>2. Len(u) = 1 /\ u[1] = "x"
  BY <1>1
<1>3. {"x"} \subseteq Bytes
  BY DEF Bytes
<1>4. u \in Seq(Bytes)
  BY <1>1, <1>3, Tuples
<1>5. QED
  BY <1>2, <1>4 DEF u

LEMMA EscMUnit ==
  ASSUME NEW k, k = "escM"
  PROVE  Unit[k] \in Seq(Bytes) /\ Len(Unit[k]) = 2 /\ Unit[k][1] = ESC /\ Unit[k][2] = "M"
<1> DEFINE u == Unit[k]
<1>1. u = <<ESC, "M">>
  BY UnitBytes
<1> HIDE DEF u
<1>2. Len(u) = 2 /\ u[1] = ESC /\ u[2] = "M"
  BY <1>1
<1>3. {ESC, "M"} \subseteq Bytes
  BY DEF Bytes
<1>4. u \in Seq(Bytes)
  BY <1>1, <1>3, Tuples
<1>5. QED
  BY <1>2, <1>4 DEF u

LEMMA ColourUnit ==
  ASSUME NEW k, k = "colour"
  PROVE  Unit[k] \in Seq(Bytes) /\ Len(Unit[k]) = 4 /\ Unit[k][1] = ESC
         /\ Unit[k][2] = "[" /\ Unit[k][3] = "31" /\ Unit[k][4] = "m"
<1> DEFINE u == Unit[k]
<1>1. u = <<ESC, "[", "31", "m">>
  BY UnitBytes
<1> HIDE DEF u
<1>2. Len(u) = 4 /\ u[1] = ESC /\ u[2] = "[" /\ u[3] = "31" /\ u[4] = "m"
  BY <1>1
<1>3. {ESC, "[", "31", "m"} \subseteq Bytes
  BY DEF Bytes
<1>4. u \in Seq(Bytes)
  BY <1>1, <1>3, Tuples
<1>5. QED
  BY <1>2, <1>4 DEF u

LEMMA BeginUnit ==
  ASSUME NEW k, k = "begin"
  PROVE  Unit[k] \in Seq(Bytes) /\ Len(Unit[k]) = 4 /\ Unit[k][1] = ESC
         /\ Unit[k][2] = "[" /\ Unit[k][3] = "?2026" /\ Unit[k][4] = "h"
<1> DEFINE u == Unit[k]
<1>1. u = <<ESC, "[", "?2026", "h">>
  BY UnitBytes
<1> HIDE DEF u
<1>2. Len(u) = 4 /\ u[1] = ESC /\ u[2] = "[" /\ u[3] = "?2026" /\ u[4] = "h"
  BY <1>1
<1>3. {ESC, "[", "?2026", "h"} \subseteq Bytes
  BY DEF Bytes
<1>4. u \in Seq(Bytes)
  BY <1>1, <1>3, Tuples
<1>5. QED
  BY <1>2, <1>4 DEF u

LEMMA EndUnit ==
  ASSUME NEW k, k = "end"
  PROVE  Unit[k] \in Seq(Bytes) /\ Len(Unit[k]) = 4 /\ Unit[k][1] = ESC
         /\ Unit[k][2] = "[" /\ Unit[k][3] = "?2026" /\ Unit[k][4] = "l"
<1> DEFINE u == Unit[k]
<1>1. u = <<ESC, "[", "?2026", "l">>
  BY UnitBytes
<1> HIDE DEF u
<1>2. Len(u) = 4 /\ u[1] = ESC /\ u[2] = "[" /\ u[3] = "?2026" /\ u[4] = "l"
  BY <1>1
<1>3. {ESC, "[", "?2026", "l"} \subseteq Bytes
  BY DEF Bytes
<1>4. u \in Seq(Bytes)
  BY <1>1, <1>3, Tuples
<1>5. QED
  BY <1>2, <1>4 DEF u

LEMMA TitleUnit ==
  ASSUME NEW k, k = "title"
  PROVE  Unit[k] \in Seq(Bytes) /\ Len(Unit[k]) = 6 /\ Unit[k][1] = ESC /\ Unit[k][2] = "]"
         /\ Unit[k][3] = "0" /\ Unit[k][4] = ";" /\ Unit[k][5] = "t" /\ Unit[k][6] = BEL
<1> DEFINE u == Unit[k]
<1>1. u = <<ESC, "]", "0", ";", "t", BEL>>
  BY UnitBytes
<1> HIDE DEF u
<1>2. Len(u) = 6 /\ u[1] = ESC /\ u[2] = "]" /\ u[3] = "0" /\ u[4] = ";" /\ u[5] = "t" /\ u[6] = BEL
  BY <1>1, Six
<1>3. {ESC, "]", "0", ";", "t", BEL} \subseteq Bytes
  BY DEF Bytes
<1>4. u \in Seq(Bytes)
  BY <1>1, <1>3, Tuples
<1>5. QED
  BY <1>2, <1>4 DEF u

LEMMA LinkUnit ==
  ASSUME NEW k, k = "link"
  PROVE  Unit[k] \in Seq(Bytes) /\ Len(Unit[k]) = 7 /\ Unit[k][1] = ESC /\ Unit[k][2] = "]"
         /\ Unit[k][3] = "8" /\ Unit[k][4] = ";" /\ Unit[k][5] = "t" /\ Unit[k][6] = ESC /\ Unit[k][7] = ST_SECOND
<1> DEFINE u == Unit[k]
<1>1. u = <<ESC, "]", "8", ";", "t", ESC, ST_SECOND>>
  BY UnitBytes
<1> HIDE DEF u
<1>2. Len(u) = 7 /\ u[1] = ESC /\ u[2] = "]" /\ u[3] = "8" /\ u[4] = ";" /\ u[5] = "t" /\ u[6] = ESC /\ u[7] = ST_SECOND
  BY <1>1, Seven
<1>3. {ESC, "]", "8", ";", "t", ESC, ST_SECOND} \subseteq Bytes
  BY DEF Bytes
<1>4. u \in Seq(Bytes)
  BY <1>1, <1>3, Tuples
<1>5. QED
  BY <1>2, <1>4 DEF u

LEMMA StatusUnit ==
  ASSUME NEW k, k = "status"
  PROVE  Unit[k] \in Seq(Bytes) /\ Len(Unit[k]) = 6 /\ Unit[k][1] = ESC /\ Unit[k][2] = "]"
         /\ Unit[k][3] = "9999" /\ Unit[k][4] = ";" /\ Unit[k][5] = "working" /\ Unit[k][6] = BEL
<1> DEFINE u == Unit[k]
<1>1. u = <<ESC, "]", "9999", ";", "working", BEL>>
  BY UnitBytes
<1> HIDE DEF u
<1>2. Len(u) = 6 /\ u[1] = ESC /\ u[2] = "]" /\ u[3] = "9999" /\ u[4] = ";" /\ u[5] = "working" /\ u[6] = BEL
  BY <1>1, Six
<1>3. {ESC, "]", "9999", ";", "working", BEL} \subseteq Bytes
  BY DEF Bytes
<1>4. u \in Seq(Bytes)
  BY <1>1, <1>3, Tuples
<1>5. QED
  BY <1>2, <1>4 DEF u

LEMMA DoneUnit ==
  ASSUME NEW k, k = "done"
  PROVE  Unit[k] \in Seq(Bytes) /\ Len(Unit[k]) = 7 /\ Unit[k][1] = ESC /\ Unit[k][2] = "]"
         /\ Unit[k][3] = "9999" /\ Unit[k][4] = ";" /\ Unit[k][5] = "done" /\ Unit[k][6] = ESC /\ Unit[k][7] = ST_SECOND
<1> DEFINE u == Unit[k]
<1>1. u = <<ESC, "]", "9999", ";", "done", ESC, ST_SECOND>>
  BY UnitBytes
<1> HIDE DEF u
<1>2. Len(u) = 7 /\ u[1] = ESC /\ u[2] = "]" /\ u[3] = "9999" /\ u[4] = ";" /\ u[5] = "done" /\ u[6] = ESC /\ u[7] = ST_SECOND
  BY <1>1, Seven
<1>3. {ESC, "]", "9999", ";", "done", ESC, ST_SECOND} \subseteq Bytes
  BY DEF Bytes
<1>4. u \in Seq(Bytes)
  BY <1>1, <1>3, Tuples
<1>5. QED
  BY <1>2, <1>4 DEF u

LEMMA GarbledUnit ==
  ASSUME NEW k, k = "garbled"
  PROVE  Unit[k] \in Seq(Bytes) /\ Len(Unit[k]) = 6 /\ Unit[k][1] = ESC /\ Unit[k][2] = "]"
         /\ Unit[k][3] = "9999" /\ Unit[k][4] = ";" /\ Unit[k][5] = "t" /\ Unit[k][6] = BEL
<1> DEFINE u == Unit[k]
<1>1. u = <<ESC, "]", "9999", ";", "t", BEL>>
  BY UnitBytes
<1> HIDE DEF u
<1>2. Len(u) = 6 /\ u[1] = ESC /\ u[2] = "]" /\ u[3] = "9999" /\ u[4] = ";" /\ u[5] = "t" /\ u[6] = BEL
  BY <1>1, Six
<1>3. {ESC, "]", "9999", ";", "t", BEL} \subseteq Bytes
  BY DEF Bytes
<1>4. u \in Seq(Bytes)
  BY <1>1, <1>3, Tuples
<1>5. QED
  BY <1>2, <1>4 DEF u

LEMMA FgUnit ==
  ASSUME NEW k, k = "fg"
  PROVE  Unit[k] \in Seq(Bytes) /\ Len(Unit[k]) = 6 /\ Unit[k][1] = ESC /\ Unit[k][2] = "]"
         /\ Unit[k][3] = "10" /\ Unit[k][4] = ";" /\ Unit[k][5] = "?" /\ Unit[k][6] = BEL
<1> DEFINE u == Unit[k]
<1>1. u = <<ESC, "]", "10", ";", "?", BEL>>
  BY UnitBytes
<1> HIDE DEF u
<1>2. Len(u) = 6 /\ u[1] = ESC /\ u[2] = "]" /\ u[3] = "10" /\ u[4] = ";" /\ u[5] = "?" /\ u[6] = BEL
  BY <1>1, Six
<1>3. {ESC, "]", "10", ";", "?", BEL} \subseteq Bytes
  BY DEF Bytes
<1>4. u \in Seq(Bytes)
  BY <1>1, <1>3, Tuples
<1>5. QED
  BY <1>2, <1>4 DEF u

LEMMA BgUnit ==
  ASSUME NEW k, k = "bg"
  PROVE  Unit[k] \in Seq(Bytes) /\ Len(Unit[k]) = 7 /\ Unit[k][1] = ESC /\ Unit[k][2] = "]"
         /\ Unit[k][3] = "11" /\ Unit[k][4] = ";" /\ Unit[k][5] = "?" /\ Unit[k][6] = ESC /\ Unit[k][7] = ST_SECOND
<1> DEFINE u == Unit[k]
<1>1. u = <<ESC, "]", "11", ";", "?", ESC, ST_SECOND>>
  BY UnitBytes
<1> HIDE DEF u
<1>2. Len(u) = 7 /\ u[1] = ESC /\ u[2] = "]" /\ u[3] = "11" /\ u[4] = ";" /\ u[5] = "?" /\ u[6] = ESC /\ u[7] = ST_SECOND
  BY <1>1, Seven
<1>3. {ESC, "]", "11", ";", "?", ESC, ST_SECOND} \subseteq Bytes
  BY DEF Bytes
<1>4. u \in Seq(Bytes)
  BY <1>1, <1>3, Tuples
<1>5. QED
  BY <1>2, <1>4 DEF u

LEMMA Da1Unit ==
  ASSUME NEW k, k = "da1"
  PROVE  Unit[k] \in Seq(Bytes) /\ Len(Unit[k]) = 3 /\ Unit[k][1] = ESC /\ Unit[k][2] = "[" /\ Unit[k][3] = "c"
<1> DEFINE u == Unit[k]
<1>1. u = <<ESC, "[", "c">>
  BY UnitBytes
<1> HIDE DEF u
<1>2. Len(u) = 3 /\ u[1] = ESC /\ u[2] = "[" /\ u[3] = "c"
  BY <1>1
<1>3. {ESC, "[", "c"} \subseteq Bytes
  BY DEF Bytes
<1>4. u \in Seq(Bytes)
  BY <1>1, <1>3, Tuples
<1>5. QED
  BY <1>2, <1>4 DEF u

LEMMA Da2Unit ==
  ASSUME NEW k, k = "da2"
  PROVE  Unit[k] \in Seq(Bytes) /\ Len(Unit[k]) = 4 /\ Unit[k][1] = ESC
         /\ Unit[k][2] = "[" /\ Unit[k][3] = ">" /\ Unit[k][4] = "c"
<1> DEFINE u == Unit[k]
<1>1. u = <<ESC, "[", ">", "c">>
  BY UnitBytes
<1> HIDE DEF u
<1>2. Len(u) = 4 /\ u[1] = ESC /\ u[2] = "[" /\ u[3] = ">" /\ u[4] = "c"
  BY <1>1
<1>3. {ESC, "[", ">", "c"} \subseteq Bytes
  BY DEF Bytes
<1>4. u \in Seq(Bytes)
  BY <1>1, <1>3, Tuples
<1>5. QED
  BY <1>2, <1>4 DEF u

LEMMA DecrqmUnit ==
  ASSUME NEW k, k = "decrqm"
  PROVE  Unit[k] \in Seq(Bytes) /\ Len(Unit[k]) = 5 /\ Unit[k][1] = ESC
         /\ Unit[k][2] = "[" /\ Unit[k][3] = "?2004" /\ Unit[k][4] = "$" /\ Unit[k][5] = "p"
<1> DEFINE u == Unit[k]
<1>1. u = <<ESC, "[", "?2004", "$", "p">>
  BY UnitBytes
<1> HIDE DEF u
<1>2. Len(u) = 5 /\ u[1] = ESC /\ u[2] = "[" /\ u[3] = "?2004" /\ u[4] = "$" /\ u[5] = "p"
  BY <1>1
<1>3. {ESC, "[", "?2004", "$", "p"} \subseteq Bytes
  BY DEF Bytes
<1>4. u \in Seq(Bytes)
  BY <1>1, <1>3, Tuples
<1>5. QED
  BY <1>2, <1>4 DEF u

LEMMA TerminfoUnit ==
  ASSUME NEW k, k = "terminfo"
  PROVE  Unit[k] \in Seq(Bytes) /\ Len(Unit[k]) = 6 /\ Unit[k][1] = ESC /\ Unit[k][2] = "P"
         /\ Unit[k][3] = "+q" /\ Unit[k][4] = "544e" /\ Unit[k][5] = ESC /\ Unit[k][6] = ST_SECOND
<1> DEFINE u == Unit[k]
<1>1. u = <<ESC, "P", "+q", "544e", ESC, ST_SECOND>>
  BY UnitBytes
<1> HIDE DEF u
<1>2. Len(u) = 6 /\ u[1] = ESC /\ u[2] = "P" /\ u[3] = "+q" /\ u[4] = "544e" /\ u[5] = ESC /\ u[6] = ST_SECOND
  BY <1>1, Six
<1>3. {ESC, "P", "+q", "544e", ESC, ST_SECOND} \subseteq Bytes
  BY DEF Bytes
<1>4. u \in Seq(Bytes)
  BY <1>1, <1>3, Tuples
<1>5. QED
  BY <1>2, <1>4 DEF u

\* A CSI has its final byte last and only there.
LEMMA CsiForms ==
  ASSUME NEW k \in Csis
  PROVE  Unit[k] \in Seq(Bytes) /\ CsiForm(Unit[k])
<1> DEFINE u == Unit[k]
<1>1. CASE k = "colour"
  <2>1. u \in Seq(Bytes) /\ Len(u) = 4 /\ u[1] = ESC /\ u[2] = "[" /\ u[3] = "31" /\ u[4] = "m"
    BY <1>1, ColourUnit
  <2> HIDE DEF u
  <2>2. QED
    BY <2>1 DEF u, CsiForm, Finals, ESC, CSI_SECOND, ST_SECOND
<1>2. CASE k = "begin"
  <2>1. u \in Seq(Bytes) /\ Len(u) = 4 /\ u[1] = ESC /\ u[2] = "[" /\ u[3] = "?2026" /\ u[4] = "h"
    BY <1>2, BeginUnit
  <2> HIDE DEF u
  <2>2. QED
    BY <2>1 DEF u, CsiForm, Finals, ESC, CSI_SECOND, ST_SECOND
<1>3. CASE k = "end"
  <2>1. u \in Seq(Bytes) /\ Len(u) = 4 /\ u[1] = ESC /\ u[2] = "[" /\ u[3] = "?2026" /\ u[4] = "l"
    BY <1>3, EndUnit
  <2> HIDE DEF u
  <2>2. QED
    BY <2>1 DEF u, CsiForm, Finals, ESC, CSI_SECOND, ST_SECOND
<1>4. CASE k = "da1"
  <2>1. u \in Seq(Bytes) /\ Len(u) = 3 /\ u[1] = ESC /\ u[2] = "[" /\ u[3] = "c"
    BY <1>4, Da1Unit
  <2> HIDE DEF u
  <2>2. QED
    BY <2>1 DEF u, CsiForm, Finals, ESC, CSI_SECOND, ST_SECOND
<1>5. CASE k = "decrqm"
  <2>1. u \in Seq(Bytes) /\ Len(u) = 5 /\ u[1] = ESC /\ u[2] = "[" /\ u[3] = "?2004" /\ u[4] = "$" /\ u[5] = "p"
    BY <1>5, DecrqmUnit
  <2> HIDE DEF u
  <2>2. QED
    BY <2>1 DEF u, CsiForm, Finals, ESC, CSI_SECOND, ST_SECOND
<1>6. CASE k = "da2"
  <2>1. u \in Seq(Bytes) /\ Len(u) = 4 /\ u[1] = ESC /\ u[2] = "[" /\ u[3] = ">" /\ u[4] = "c"
    BY <1>6, Da2Unit
  <2> HIDE DEF u
  <2>2. QED
    BY <2>1 DEF u, CsiForm, Finals, ESC, CSI_SECOND, ST_SECOND
<1>7. QED
  BY <1>1, <1>2, <1>3, <1>4, <1>5, <1>6 DEF Csis

\* The first and the last bytes of a CSI tell which query it is.
LEMMA CsiBytes ==
  ASSUME NEW k \in Csis
  PROVE  /\ k = "da1" => Len(Unit[k]) = 3 /\ Unit[k][3] = "c"
         /\ k = "da2" => Len(Unit[k]) = 4 /\ Unit[k][3] = ">" /\ Unit[k][4] = "c"
         /\ k = "decrqm" => Len(Unit[k]) = 5 /\ Unit[k][3] = "?2004" /\ Unit[k][4] = "$" /\ Unit[k][5] = "p"
         /\ k \notin {"da1", "da2", "decrqm"} => Len(Unit[k]) = 4 /\ Unit[k][4] \notin {"c", "p"}
<1>1. CASE k = "colour"
  BY <1>1, ColourUnit DEF ESC
<1>2. CASE k = "begin"
  BY <1>2, BeginUnit DEF ESC
<1>3. CASE k = "end"
  BY <1>3, EndUnit DEF ESC
<1>4. CASE k = "da1"
  BY <1>4, Da1Unit DEF ESC
<1>5. CASE k = "decrqm"
  BY <1>5, DecrqmUnit DEF ESC
<1>6. CASE k = "da2"
  BY <1>6, Da2Unit DEF ESC
<1>7. QED
  BY <1>1, <1>2, <1>3, <1>4, <1>5, <1>6 DEF Csis

\* An OSC has a code, a separator, a payload and one of the two terminators.
LEMMA OscForms ==
  ASSUME NEW k \in Oscs
  PROVE  Unit[k] \in Seq(Bytes) /\ OscForm(Unit[k])
<1> DEFINE u == Unit[k]
<1>1. CASE k = "title"
  <2>1. u \in Seq(Bytes) /\ Len(u) = 6 /\ u[1] = ESC /\ u[2] = "]" /\ u[3] = "0" /\ u[4] = ";" /\ u[5] = "t" /\ u[6] = BEL
    BY <1>1, TitleUnit
  <2> HIDE DEF u
  <2>2. OscStart(u)
    BY <2>1 DEF OscStart, ESC, BEL, OSC_SECOND, SEPARATOR
  <2>3. Len(u) = 6 /\ u[6] = BEL
    BY <2>1
  <2>4. OscEnd(u)
    BY ONLY <2>3 DEF OscEnd
  <2>5. QED
    BY <2>1, <2>2, <2>4 DEF u, OscForm
<1>2. CASE k = "link"
  <2>1. u \in Seq(Bytes) /\ Len(u) = 7 /\ u[1] = ESC /\ u[2] = "]"
        /\ u[3] = "8" /\ u[4] = ";" /\ u[5] = "t" /\ u[6] = ESC /\ u[7] = ST_SECOND
    BY <1>2, LinkUnit
  <2> HIDE DEF u
  <2>2. OscStart(u)
    BY <2>1 DEF OscStart, ESC, BEL, OSC_SECOND, SEPARATOR
  <2>3. Len(u) = 7 /\ u[6] = ESC /\ u[7] = ST_SECOND
    BY <2>1
  <2>4. OscEnd(u)
    BY ONLY <2>3 DEF OscEnd
  <2>5. QED
    BY <2>1, <2>2, <2>4 DEF u, OscForm
<1>3. CASE k = "status"
  <2>1. u \in Seq(Bytes) /\ Len(u) = 6 /\ u[1] = ESC /\ u[2] = "]"
        /\ u[3] = "9999" /\ u[4] = ";" /\ u[5] = "working" /\ u[6] = BEL
    BY <1>3, StatusUnit
  <2> HIDE DEF u
  <2>2. OscStart(u)
    BY <2>1 DEF OscStart, ESC, BEL, OSC_SECOND, SEPARATOR
  <2>3. Len(u) = 6 /\ u[6] = BEL
    BY <2>1
  <2>4. OscEnd(u)
    BY ONLY <2>3 DEF OscEnd
  <2>5. QED
    BY <2>1, <2>2, <2>4 DEF u, OscForm
<1>4. CASE k = "done"
  <2>1. u \in Seq(Bytes) /\ Len(u) = 7 /\ u[1] = ESC /\ u[2] = "]"
        /\ u[3] = "9999" /\ u[4] = ";" /\ u[5] = "done" /\ u[6] = ESC /\ u[7] = ST_SECOND
    BY <1>4, DoneUnit
  <2> HIDE DEF u
  <2>2. OscStart(u)
    BY <2>1 DEF OscStart, ESC, BEL, OSC_SECOND, SEPARATOR
  <2>3. Len(u) = 7 /\ u[6] = ESC /\ u[7] = ST_SECOND
    BY <2>1
  <2>4. OscEnd(u)
    BY ONLY <2>3 DEF OscEnd
  <2>5. QED
    BY <2>1, <2>2, <2>4 DEF u, OscForm
<1>5. CASE k = "garbled"
  <2>1. u \in Seq(Bytes) /\ Len(u) = 6 /\ u[1] = ESC /\ u[2] = "]" /\ u[3] = "9999" /\ u[4] = ";" /\ u[5] = "t" /\ u[6] = BEL
    BY <1>5, GarbledUnit
  <2> HIDE DEF u
  <2>2. OscStart(u)
    BY <2>1 DEF OscStart, ESC, BEL, OSC_SECOND, SEPARATOR
  <2>3. Len(u) = 6 /\ u[6] = BEL
    BY <2>1
  <2>4. OscEnd(u)
    BY ONLY <2>3 DEF OscEnd
  <2>5. QED
    BY <2>1, <2>2, <2>4 DEF u, OscForm
<1>6. CASE k = "fg"
  <2>1. u \in Seq(Bytes) /\ Len(u) = 6 /\ u[1] = ESC /\ u[2] = "]" /\ u[3] = "10" /\ u[4] = ";" /\ u[5] = "?" /\ u[6] = BEL
    BY <1>6, FgUnit
  <2> HIDE DEF u
  <2>2. OscStart(u)
    BY <2>1 DEF OscStart, ESC, BEL, OSC_SECOND, SEPARATOR
  <2>3. Len(u) = 6 /\ u[6] = BEL
    BY <2>1
  <2>4. OscEnd(u)
    BY ONLY <2>3 DEF OscEnd
  <2>5. QED
    BY <2>1, <2>2, <2>4 DEF u, OscForm
<1>7. CASE k = "bg"
  <2>1. u \in Seq(Bytes) /\ Len(u) = 7 /\ u[1] = ESC /\ u[2] = "]"
        /\ u[3] = "11" /\ u[4] = ";" /\ u[5] = "?" /\ u[6] = ESC /\ u[7] = ST_SECOND
    BY <1>7, BgUnit
  <2> HIDE DEF u
  <2>2. OscStart(u)
    BY <2>1 DEF OscStart, ESC, BEL, OSC_SECOND, SEPARATOR
  <2>3. Len(u) = 7 /\ u[6] = ESC /\ u[7] = ST_SECOND
    BY <2>1
  <2>4. OscEnd(u)
    BY ONLY <2>3 DEF OscEnd
  <2>5. QED
    BY <2>1, <2>2, <2>4 DEF u, OscForm
<1>8. QED
  BY <1>1, <1>2, <1>3, <1>4, <1>5, <1>6, <1>7 DEF Oscs

\* The code and the payload tell what an OSC is for.
LEMMA OscBytes ==
  ASSUME NEW k \in Oscs
  PROVE  /\ (Unit[k][3] = CODE) <=> (k \in Statuses)
         /\ k = "fg" => Unit[k][3] = "10" /\ Unit[k][5] = "?"
         /\ k = "bg" => Unit[k][3] = "11" /\ Unit[k][5] = "?"
         /\ k \in {"title", "link", "garbled"} => Unit[k][5] = "t"
         /\ k = "status" => Unit[k][5] = "working"
         /\ k = "done" => Unit[k][5] = "done"
<1>1. CASE k = "title"
  BY <1>1, TitleUnit DEF Statuses, CODE
<1>2. CASE k = "link"
  BY <1>2, LinkUnit DEF Statuses, CODE
<1>3. CASE k = "status"
  BY <1>3, StatusUnit DEF Statuses, CODE
<1>4. CASE k = "done"
  BY <1>4, DoneUnit DEF Statuses, CODE
<1>5. CASE k = "garbled"
  BY <1>5, GarbledUnit DEF Statuses, CODE
<1>6. CASE k = "fg"
  BY <1>6, FgUnit DEF Statuses, CODE
<1>7. CASE k = "bg"
  BY <1>7, BgUnit DEF Statuses, CODE
<1>8. QED
  BY <1>1, <1>2, <1>3, <1>4, <1>5, <1>6, <1>7 DEF Oscs

\* A text unit is one byte, an escape two, a DCS six.
LEMMA TextForms ==
  ASSUME NEW k \in Texts
  PROVE  Unit[k] \in Seq(Bytes) /\ Len(Unit[k]) = 1 /\ Unit[k][1] # ESC
BY TextUnit DEF Texts, ESC

LEMMA EscForms ==
  ASSUME NEW k \in Escs
  PROVE  Unit[k] \in Seq(Bytes) /\ Len(Unit[k]) = 2 /\ Unit[k][1] = ESC /\ Unit[k][2] = "M"
BY EscMUnit DEF Escs

LEMMA DcsForms ==
  ASSUME NEW k \in Dcss
  PROVE  Unit[k] \in Seq(Bytes) /\ DcsForm(Unit[k])
<1>1. k = "terminfo"
  BY DEF Dcss
<1> DEFINE u == Unit[k]
<1>2. u \in Seq(Bytes) /\ Len(u) = 6 /\ u[1] = ESC /\ u[2] = "P"
      /\ u[3] = "+q" /\ u[4] = "544e" /\ u[5] = ESC /\ u[6] = ST_SECOND
  BY <1>1, TerminfoUnit
<1> HIDE DEF u
<1>3. QED
  BY <1>2 DEF u, DcsForm, DCS_SECOND, ESC

\* Units are sequences of bytes, not empty.
LEMMA UnitTypes ==
  ASSUME NEW k \in DOMAIN Unit
  PROVE  Unit[k] \in Seq(Bytes) /\ Len(Unit[k]) \in Nat \ {0}
<1>1. CASE k \in Texts \cup Escs \cup Dcss
  BY <1>1, TextForms, EscForms, DcsForms DEF DcsForm
<1>2. CASE k \in Csis
  BY <1>2, CsiForms DEF CsiForm
<1>3. CASE k \in Oscs
  <2>1. Unit[k] \in Seq(Bytes) /\ OscForm(Unit[k])
    BY <1>3, OscForms
  <2>2. Len(Unit[k]) \in 6..7
    BY <2>1 DEF OscForm, OscEnd
  <2>3. Len(Unit[k]) \in Nat \ {0}
    BY <2>2
  <2>4. QED
    BY <2>1, <2>3
<1>4. QED
  BY <1>1, <1>2, <1>3, UnitKinds

\* The bytes of u from the m-th to the n-th, taken one at a time.
LEMMA OneMore ==
  ASSUME NEW u \in Seq(Bytes), NEW m \in Nat \ {0}, NEW n \in Nat, m <= n + 1, n + 1 <= Len(u)
  PROVE  /\ SubSeq(u, m, n + 1) = Append(SubSeq(u, m, n), u[n + 1])
         /\ SubSeq(u, m, n) \in Seq(Bytes) /\ u[n + 1] \in Bytes
         /\ SubSeq(u, m, m - 1) = <<>>
OBVIOUS

\* All of a sequence.
LEMMA AllOf ==
  ASSUME NEW u \in Seq(Bytes)
  PROVE  SubSeq(u, 1, Len(u)) = u
OBVIOUS

\* How many bytes a unit has.
Size(k) == Len(Unit[k])

\* The size of a unit, by its form.
LEMMA Sizes ==
  ASSUME NEW k \in DOMAIN Unit
  PROVE  /\ Size(k) \in Nat \ {0} /\ Unit[k] \in Seq(Bytes) /\ Len(Unit[k]) = Size(k)
         /\ k \in Texts => Size(k) = 1
         /\ k \in Escs => Size(k) = 2
         /\ k \in Csis => Size(k) >= 3
         /\ k \in Oscs => Size(k) \in 6..7
         /\ k \in Dcss => Size(k) = 6
<1>1. k \in Texts => Size(k) = 1
  BY TextForms DEF Size
<1>2. k \in Escs => Size(k) = 2
  BY EscForms DEF Size
<1>3. k \in Csis => Size(k) >= 3
  BY CsiForms DEF Size, CsiForm
<1>4. k \in Oscs => Size(k) \in 6..7
  BY OscForms DEF Size, OscForm, OscEnd
<1>5. k \in Dcss => Size(k) = 6
  BY DcsForms DEF Size, DcsForm
<1>6. Size(k) \in Nat \ {0} /\ Unit[k] \in Seq(Bytes) /\ Len(Unit[k]) = Size(k)
  BY UnitTypes DEF Size
<1>7. QED
  BY <1>1, <1>2, <1>3, <1>4, <1>5, <1>6
\* The form of a CSI, said with Size.
LEMMA CsiFinals ==
  ASSUME NEW k \in Csis
  PROVE  /\ Unit[k][1] = ESC /\ Unit[k][2] = CSI_SECOND
         /\ \A i \in 2..Size(k) : Unit[k][i] # ESC
         /\ \A i \in 3..Size(k) : (Unit[k][i] \in Finals) <=> (i = Size(k))
<1>1. CsiForm(Unit[k]) /\ Len(Unit[k]) \in Nat
  BY CsiForms
<1>2. \A i \in 3..Len(Unit[k]) : (Unit[k][i] \in Finals) <=> (i = Len(Unit[k]))
  BY <1>1 DEF CsiForm
<1>3. QED
  BY <1>1, <1>2 DEF Size, CsiForm

\* The form of an OSC, said with Size.
LEMMA OscPlaces ==
  ASSUME NEW k \in Oscs
  PROVE  /\ OscStart(Unit[k])
         /\ Size(k) = 6 => Unit[k][6] = BEL
         /\ Size(k) = 7 => Unit[k][6] = ESC /\ Unit[k][7] = ST_SECOND
BY OscForms DEF OscForm, OscEnd, Size

-----------------------------------------------------------------------------
(* The query responder, unit by unit *)

Query(state, buf) == [state |-> state, buf |-> buf]

\* Where the query responder is when it has read the first n bytes of a unit.
QueryAt(k, n) ==
  CASE n = 0 -> QueryInit
    [] n = 1 -> Query("Esc", <<>>)
    [] n > 1 /\ k \in Csis -> Query("Csi", SubSeq(Unit[k], 3, n))
    [] n \in 2..5 /\ k \in Oscs -> Query("Osc", SubSeq(Unit[k], 3, n))
    [] n = 6 /\ k \in Oscs -> Query("OscEsc", SubSeq(Unit[k], 3, 5))
    [] n \in 2..4 /\ k \in Dcss -> Query("Dcs", SubSeq(Unit[k], 3, n))
    [] n = 5 /\ k \in Dcss -> Query("DcsEsc", SubSeq(Unit[k], 3, 4))

\* The responder has buffered what follows the introducer.
LEMMA QueryPlaces ==
  /\ \A k \in DOMAIN Unit : QueryAt(k, 0) = QueryInit /\ QueryAt(k, 1) = Query("Esc", <<>>)
  /\ \A k \in Csis : \A n \in Nat : n > 1 => QueryAt(k, n) = Query("Csi", SubSeq(Unit[k], 3, n))
  /\ \A k \in Oscs : /\ \A n \in 2..5 : QueryAt(k, n) = Query("Osc", SubSeq(Unit[k], 3, n))
                     /\ QueryAt(k, 6) = Query("OscEsc", SubSeq(Unit[k], 3, 5))
  /\ \A k \in Dcss : /\ \A n \in 2..4 : QueryAt(k, n) = Query("Dcs", SubSeq(Unit[k], 3, n))
                     /\ QueryAt(k, 5) = Query("DcsEsc", SubSeq(Unit[k], 3, 4))
<1>1. ASSUME NEW k, NEW n \in Nat, n > 1, k \in Csis
      PROVE  QueryAt(k, n) = Query("Csi", SubSeq(Unit[k], 3, n))
  BY <1>1, UnitKinds DEF QueryAt
<1>2. ASSUME NEW k, NEW n \in 2..5, k \in Oscs
      PROVE  QueryAt(k, n) = Query("Osc", SubSeq(Unit[k], 3, n))
  BY <1>2, UnitKinds DEF QueryAt
<1>3. ASSUME NEW k, NEW n \in 2..4, k \in Dcss
      PROVE  QueryAt(k, n) = Query("Dcs", SubSeq(Unit[k], 3, n))
  BY <1>3, UnitKinds DEF QueryAt
<1>4. ASSUME NEW k \in Oscs
      PROVE  QueryAt(k, 6) = Query("OscEsc", SubSeq(Unit[k], 3, 5))
  BY UnitKinds DEF QueryAt
<1>5. ASSUME NEW k \in Dcss
      PROVE  QueryAt(k, 5) = Query("DcsEsc", SubSeq(Unit[k], 3, 4))
  BY UnitKinds DEF QueryAt
<1>6. ASSUME NEW k \in DOMAIN Unit
      PROVE  QueryAt(k, 0) = QueryInit /\ QueryAt(k, 1) = Query("Esc", <<>>)
  BY DEF QueryAt
<1>7. QED
  BY <1>1, <1>2, <1>3, <1>4, <1>5, <1>6

Answered(k) == IF k \in DOMAIN Answer THEN <<Answer[k]>> ELSE <<>>

Goes(q, b, next, out) == QueryStep(q, b) = [next |-> next, out |-> out]

\* One byte, state by state.
LEMMA QueryNormal ==
  ASSUME NEW b
  PROVE  Goes(QueryInit, b, Query(IF b = ESC THEN "Esc" ELSE "Normal", <<>>), <<>>)
BY DEF Goes, QueryStep, QueryInit, Query

LEMMA QueryEsc ==
  /\ Goes(Query("Esc", <<>>), CSI_SECOND, Query("Csi", <<>>), <<>>)
  /\ Goes(Query("Esc", <<>>), OSC_SECOND, Query("Osc", <<>>), <<>>)
  /\ Goes(Query("Esc", <<>>), DCS_SECOND, Query("Dcs", <<>>), <<>>)
  /\ Goes(Query("Esc", <<>>), "M", QueryInit, <<>>)
BY DEF Goes, QueryStep, QueryInit, Query, ESC, CSI_SECOND, OSC_SECOND, DCS_SECOND

LEMMA QueryCsi ==
  ASSUME NEW buf, NEW b
  PROVE  IF b \in Finals THEN Goes(Query("Csi", buf), b, QueryInit, CsiResponse(Append(buf, b)))
         ELSE Goes(Query("Csi", buf), b, Query("Csi", Append(buf, b)), <<>>)
BY DEF Goes, QueryStep, QueryInit, Query

LEMMA QueryOsc ==
  ASSUME NEW buf, NEW b
  PROVE  /\ b \notin {BEL, ESC} => Goes(Query("Osc", buf), b, Query("Osc", Append(buf, b)), <<>>)
         /\ Goes(Query("Osc", buf), ESC, Query("OscEsc", buf), <<>>)
         /\ Goes(Query("Osc", buf), BEL, QueryInit, ColourResponse(buf))
         /\ Goes(Query("OscEsc", buf), ST_SECOND, QueryInit, ColourResponse(buf))
BY DEF Goes, QueryStep, QueryInit, Query, BEL, ESC, ST_SECOND

LEMMA QueryDcs ==
  ASSUME NEW buf, NEW b
  PROVE  /\ b # ESC => Goes(Query("Dcs", buf), b, Query("Dcs", Append(buf, b)), <<>>)
         /\ Goes(Query("Dcs", buf), ESC, Query("DcsEsc", buf), <<>>)
         /\ Goes(Query("DcsEsc", buf), ST_SECOND, QueryInit, DcsResponse(buf))
BY DEF Goes, QueryStep, QueryInit, Query, BEL, ESC, ST_SECOND

\* The responses, from the bytes after the introducer.
LEMMA CsiAnswered ==
  ASSUME NEW k \in Csis
  PROVE  CsiResponse(SubSeq(Unit[k], 3, Len(Unit[k]))) = Answered(k)
<1> DEFINE u == Unit[k]
           body == SubSeq(u, 3, Len(u))
<1>1. u \in Seq(Bytes) /\ Len(u) >= 3
  BY CsiForms DEF CsiForm
<1> HIDE DEF u
<1>2. body \in Seq(Bytes) /\ Len(body) = Len(u) - 2
      /\ Head(body) = u[3] /\ body[Len(u) - 2] = u[Len(u)] /\ (Len(u) > 3 => body[Len(u) - 3] = u[Len(u) - 1])
  BY <1>1
<1>3. Last(body) = u[Len(u)]
  BY <1>2 DEF Last
<1> HIDE DEF body
<1>4. CASE k = "da1"
  <2>1. Len(u) = 3 /\ u[3] = "c"
    BY <1>4, CsiBytes DEF u
  <2>2. Last(body) = "c" /\ Head(body) = "c"
    BY <1>2, <1>3, <2>1
  <2>3. CsiResponse(body) = <<"da">>
    BY <2>2 DEF CsiResponse
  <2>4. QED
    BY <1>4, <2>3 DEF Answered, Answer, body, u
<1>5. CASE k = "decrqm"
  <2>1. Len(u) = 5 /\ u[5] = "p" /\ u[4] = "$" /\ u[3] = "?2004"
    BY <1>5, CsiBytes DEF u
  <2>2. Len(body) = 3
    BY <1>2, <2>1
  <2>3. Last(body) = "p" /\ body[2] = "$" /\ Head(body) = "?2004"
    BY <1>2, <1>3, <2>1
  <2>4. CsiResponse(body) = <<"decrqm">>
    BY <2>2, <2>3 DEF CsiResponse, Private
  <2>5. QED
    BY <1>5, <2>4 DEF Answered, Answer, body, u
<1>6. CASE k \in {"colour", "begin", "end"}
  <2>1. Len(u) = 4 /\ u[4] \notin {"c", "p"}
    BY <1>6, CsiBytes DEF u
  <2>2. Last(body) \notin {"c", "p"}
    BY <1>3, <2>1
  <2>3. CsiResponse(body) = <<>>
    BY <2>2 DEF CsiResponse
  <2>4. QED
    BY <1>6, <2>3 DEF Answered, Answer, body, u
<1>7. CASE k = "da2"
  <2>1. Len(u) = 4 /\ u[3] = ">" /\ u[4] = "c"
    BY <1>7, CsiBytes DEF u
  <2>2. Last(body) = "c" /\ Head(body) = ">"
    BY <1>2, <1>3, <2>1
  <2>3. CsiResponse(body) = <<"da2">>
    BY <2>2 DEF CsiResponse
  <2>4. QED
    BY <1>7, <2>3 DEF Answered, Answer, body, u
<1>8. QED
  BY <1>4, <1>5, <1>6, <1>7 DEF Csis

\* A colour query is one of 10, 11 and 12 with a question mark.
LEMMA OscAnswered ==
  ASSUME NEW k \in Oscs
  PROVE  ColourResponse(SubSeq(Unit[k], 3, 5)) = Answered(k)
<1> DEFINE u == Unit[k]
           body == SubSeq(u, 3, 5)
<1>1. u \in Seq(Bytes) /\ Len(u) \in 6..7
  BY OscForms DEF OscForm, OscEnd
<1>2. u[4] = SEPARATOR
  BY OscForms DEF OscForm, OscStart
<1> HIDE DEF u
<1>3. body = <<u[3], u[4], u[5]>>
  <2>1. body \in Seq(Bytes) /\ Len(body) = 3 /\ body[1] = u[3] /\ body[2] = u[4] /\ body[3] = u[5]
    BY <1>1
  <2> HIDE DEF body
  <2>2. QED
    BY <2>1
<1> HIDE DEF body
<1>4. (body \in {<<p, ";", "?">> : p \in {"10", "11", "12"}}) <=> (u[5] = "?" /\ u[3] \in {"10", "11", "12"})
  BY <1>2, <1>3 DEF SEPARATOR
<1>5. body[1] = u[3]
  BY <1>3
<1>6. ColourResponse(body) = IF u[5] = "?" /\ u[3] \in {"10", "11", "12"} THEN <<u[3]>> ELSE <<>>
  BY <1>4, <1>5 DEF ColourResponse
<1>7. CASE k \in {"fg", "bg"}
  <2>1. u[5] = "?" /\ u[3] = Answer[k] /\ u[3] \in {"10", "11", "12"} /\ k \in DOMAIN Answer
    BY <1>7, OscBytes DEF u, Oscs, Answer
  <2>2. QED
    BY <1>6, <2>1 DEF Answered, body, u
<1>8. CASE k \notin {"fg", "bg"}
  <2>1. u[5] # "?"
    BY <1>8, OscBytes DEF u, Oscs
  <2>2. QED
    BY <1>6, <1>8, <2>1 DEF Answered, Answer, body, u, Oscs
<1>9. QED
  BY <1>7, <1>8

\* A terminfo query begins with +q.
LEMMA DcsAnswered ==
  ASSUME NEW k \in Dcss
  PROVE  DcsResponse(SubSeq(Unit[k], 3, 4)) = Answered(k)
<1> DEFINE u == Unit[k]
           body == SubSeq(u, 3, 4)
<1>1. u \in Seq(Bytes) /\ Len(u) = 6
  BY DcsForms DEF DcsForm
<1> HIDE DEF u
<1>2. body # <<>> /\ Head(body) = u[3]
  BY <1>1
<1> HIDE DEF body
<1>3. u[3] = "+q"
  BY TerminfoUnit DEF u, Dcss
<1>4. DcsResponse(body) = <<"terminfo">>
  BY <1>2, <1>3 DEF DcsResponse
<1>5. QED
  BY <1>4 DEF Answered, Answer, body, u, Dcss

QueryWalks(k, n) ==
  QueryStep(QueryAt(k, n), Unit[k][n + 1]) =
    IF n + 1 = Size(k) THEN [next |-> QueryInit, out |-> Answered(k)]
    ELSE [next |-> QueryAt(k, n + 1), out |-> <<>>]

\* A step of the responder, at the end of a unit or before it.
LEMMA Walks ==
  ASSUME NEW k \in DOMAIN Unit, NEW n \in Nat
  PROVE  /\ n + 1 = Size(k) /\ Goes(QueryAt(k, n), Unit[k][n + 1], QueryInit, Answered(k)) => QueryWalks(k, n)
         /\ n + 1 # Size(k) /\ Goes(QueryAt(k, n), Unit[k][n + 1], QueryAt(k, n + 1), <<>>) => QueryWalks(k, n)
BY DEF QueryWalks, Goes

\* The responder follows a CSI, an OSC, and a DCS after the escape.
LEMMA QueryWalksCsi ==
  ASSUME NEW k \in Csis, NEW n \in Nat, n >= 1, n < Size(k)
  PROVE  QueryWalks(k, n)
<1> DEFINE u == Unit[k]
<1>3. k \in DOMAIN Unit
  BY UnitKinds
<1>1. u \in Seq(Bytes) /\ Len(u) = Size(k) /\ Size(k) \in Nat /\ Size(k) >= 3
  BY <1>3, Sizes
<1>2. u[2] = CSI_SECOND /\ \A i \in 3..Size(k) : (u[i] \in Finals) <=> (i = Size(k))
  BY CsiFinals
<1>4. QueryAt(k, 1) = Query("Esc", <<>>) /\ \A i \in 2..Size(k) : QueryAt(k, i) = Query("Csi", SubSeq(u, 3, i))
  BY <1>1, <1>3, QueryPlaces
<1>5. CASE n = 1
  <2>1. SubSeq(u, 3, 2) = <<>>
    BY <1>1
  <2>2. QueryAt(k, n + 1) = Query("Csi", <<>>) /\ n + 1 # Size(k)
    <3>1. n + 1 = 2 /\ n + 1 # Size(k)
      BY ONLY <1>1, <1>5
    <3>2. QueryAt(k, 2) = Query("Csi", SubSeq(u, 3, 2))
      BY <1>1, <1>4
    <3>3. QED
      BY ONLY <2>1, <3>1, <3>2
  <2>3. Goes(QueryAt(k, n), u[n + 1], QueryAt(k, n + 1), <<>>)
    BY <1>2, <1>4, <1>5, <2>2, QueryEsc
  <2>4. QED
    BY <1>3, <1>5, <2>2, <2>3, Walks
<1>6. CASE n > 1
  <2> DEFINE buf == SubSeq(u, 3, n)
             b == u[n + 1]
  <2>1. SubSeq(u, 3, n + 1) = Append(buf, b)
    BY <1>1, <1>6, OneMore
  <2>2. n \in 2..Size(k) /\ n + 1 \in 2..Size(k) /\ n + 1 \in 3..Size(k) /\ n \in Nat
    BY <1>1, <1>6
  <2>3. QueryAt(k, n) = Query("Csi", buf) /\ QueryAt(k, n + 1) = Query("Csi", Append(buf, b))
    BY <1>4, <2>1, <2>2
  <2>4. CASE n + 1 = Size(k)
    <3>1. b \in Finals
      BY <1>2, <2>2, <2>4
    <3>2. CsiResponse(Append(buf, b)) = Answered(k)
      BY <1>1, <2>1, <2>4, CsiAnswered
    <3>3. Goes(Query("Csi", buf), b, QueryInit, Answered(k))
      BY <3>1, <3>2, QueryCsi
    <3>4. QED
      BY <1>3, <2>2, <2>3, <2>4, <3>3, Walks
  <2>5. CASE n + 1 # Size(k)
    <3>1. b \notin Finals
      BY <1>2, <2>2, <2>5
    <3>2. Goes(Query("Csi", buf), b, Query("Csi", Append(buf, b)), <<>>)
      BY <3>1, QueryCsi
    <3>3. QED
      BY <1>3, <2>2, <2>3, <2>5, <3>2, Walks
  <2>6. QED
    BY <2>4, <2>5
<1>7. QED
  BY <1>5, <1>6

LEMMA QueryWalksOsc ==
  ASSUME NEW k \in Oscs, NEW n \in Nat, n >= 1, n < Size(k)
  PROVE  QueryWalks(k, n)
<1> DEFINE u == Unit[k]
<1>3. k \in DOMAIN Unit
  BY UnitKinds
<1>1. u \in Seq(Bytes) /\ Len(u) = Size(k) /\ Size(k) \in 6..7
  BY <1>3, Sizes
<1>2. OscStart(u)
  BY OscPlaces
<1>4. /\ \A i \in 2..5 : QueryAt(k, i) = Query("Osc", SubSeq(u, 3, i))
      /\ QueryAt(k, 6) = Query("OscEsc", SubSeq(u, 3, 5))
      /\ QueryAt(k, 1) = Query("Esc", <<>>)
  BY <1>3, QueryPlaces
<1> HIDE DEF u
<1>5. CASE n = 1
  <2>1. SubSeq(u, 3, 2) = <<>>
    BY <1>1
  <2>2. QueryAt(k, n + 1) = Query("Osc", <<>>) /\ n + 1 # Size(k)
    <3>1. n + 1 = 2 /\ n + 1 # Size(k)
      BY ONLY <1>1, <1>5
    <3>2. QueryAt(k, 2) = Query("Osc", SubSeq(u, 3, 2))
      BY <1>1, <1>4
    <3>3. QED
      BY ONLY <2>1, <3>1, <3>2
  <2>3. u[2] = OSC_SECOND
    BY <1>2 DEF OscStart
  <2>4. Goes(QueryAt(k, n), u[n + 1], QueryAt(k, n + 1), <<>>)
    BY <1>4, <1>5, <2>2, <2>3, QueryEsc
  <2>5. QED
    BY <1>3, <1>5, <2>2, <2>4, Walks DEF u
<1>6. CASE n \in 2..4
  <2> DEFINE buf == SubSeq(u, 3, n)
             b == u[n + 1]
  <2>1. SubSeq(u, 3, n + 1) = Append(buf, b)
    BY <1>1, <1>6, OneMore
  <2>2. b # BEL /\ b # ESC
    <3>1. u[3] # BEL /\ u[3] # ESC /\ u[4] # BEL /\ u[4] # ESC /\ u[5] # BEL /\ u[5] # ESC
      BY <1>2 DEF OscStart, SEPARATOR, BEL, ESC
    <3>2. QED
      BY <1>6, <3>1
  <2>3. Goes(Query("Osc", buf), b, Query("Osc", Append(buf, b)), <<>>)
    BY <2>2, QueryOsc
  <2>4. n \in 2..5 /\ n + 1 \in 2..5 /\ n + 1 # Size(k) /\ n \in Nat
    <3>1. Size(k) \in 6..7
      BY <1>1
    <3>2. QED
      BY ONLY <1>6, <3>1
  <2>5. QueryAt(k, n) = Query("Osc", buf) /\ QueryAt(k, n + 1) = Query("Osc", Append(buf, b))
    BY <1>4, <2>1, <2>4
  <2>6. QED
    BY <1>3, <2>3, <2>4, <2>5, Walks DEF u
<1>7. CASE n = 5 /\ Size(k) = 6
  <2>1. u[6] = BEL
    BY <1>7, OscPlaces DEF u
  <2>2. Goes(Query("Osc", SubSeq(u, 3, 5)), u[6], QueryInit, Answered(k))
    BY <2>1, OscAnswered, QueryOsc DEF u
  <2>3. Goes(QueryAt(k, n), u[n + 1], QueryInit, Answered(k)) /\ n + 1 = Size(k)
    BY <1>4, <1>7, <2>2
  <2>4. QED
    BY <1>3, <2>3, Walks DEF u
<1>8. CASE n = 5 /\ Size(k) = 7
  <2>1. u[6] = ESC
    BY <1>8, OscPlaces DEF u
  <2>2. Goes(Query("Osc", SubSeq(u, 3, 5)), u[6], Query("OscEsc", SubSeq(u, 3, 5)), <<>>)
    BY <2>1, QueryOsc
  <2>3. Goes(QueryAt(k, n), u[n + 1], QueryAt(k, n + 1), <<>>) /\ n + 1 # Size(k)
    BY <1>4, <1>8, <2>2
  <2>4. QED
    BY <1>3, <2>3, Walks DEF u
<1>9. CASE n = 6 /\ Size(k) = 7
  <2>1. u[7] = ST_SECOND
    BY <1>9, OscPlaces DEF u
  <2>2. Goes(Query("OscEsc", SubSeq(u, 3, 5)), u[7], QueryInit, Answered(k))
    BY <2>1, OscAnswered, QueryOsc DEF u
  <2>3. Goes(QueryAt(k, n), u[n + 1], QueryInit, Answered(k)) /\ n + 1 = Size(k)
    BY <1>4, <1>9, <2>2
  <2>4. QED
    BY <1>3, <2>3, Walks DEF u
<1>10. n \in 1..6 /\ (n = 6 => Size(k) = 7)
  <2>1. Size(k) \in 6..7 /\ n >= 1 /\ n < Size(k)
    BY <1>1 DEF u
  <2>2. QED
    BY ONLY <2>1
<1>11. QED
  BY <1>1, <1>5, <1>6, <1>7, <1>8, <1>9, <1>10

LEMMA QueryWalksDcs ==
  ASSUME NEW k \in Dcss, NEW n \in 1..5
  PROVE  QueryWalks(k, n)
<1> DEFINE u == Unit[k]
<1>3. k \in DOMAIN Unit
  BY UnitKinds
<1>1. u \in Seq(Bytes) /\ Len(u) = Size(k) /\ Size(k) = 6
  BY <1>3, Sizes
<1>2. DcsForm(u)
  BY DcsForms
<1>4. /\ \A i \in 2..4 : QueryAt(k, i) = Query("Dcs", SubSeq(u, 3, i))
      /\ QueryAt(k, 5) = Query("DcsEsc", SubSeq(u, 3, 4))
      /\ QueryAt(k, 1) = Query("Esc", <<>>)
  BY <1>3, QueryPlaces
<1> HIDE DEF u
<1>5. CASE n = 1
  <2>1. SubSeq(u, 3, 2) = <<>>
    BY <1>1
  <2>2. QueryAt(k, n + 1) = Query("Dcs", <<>>) /\ n + 1 # Size(k)
    <3>1. n + 1 = 2 /\ n + 1 # Size(k)
      BY ONLY <1>1, <1>5
    <3>2. QueryAt(k, 2) = Query("Dcs", SubSeq(u, 3, 2))
      BY <1>1, <1>4
    <3>3. QED
      BY ONLY <2>1, <3>1, <3>2
  <2>3. u[2] = DCS_SECOND
    BY <1>2 DEF DcsForm
  <2>4. Goes(QueryAt(k, n), u[n + 1], QueryAt(k, n + 1), <<>>)
    BY <1>4, <1>5, <2>2, <2>3, QueryEsc
  <2>5. QED
    BY <1>3, <1>5, <2>2, <2>4, Walks DEF u
<1>6. CASE n \in 2..3
  <2> DEFINE buf == SubSeq(u, 3, n)
             b == u[n + 1]
  <2>1. SubSeq(u, 3, n + 1) = Append(buf, b)
    BY <1>1, <1>6, OneMore
  <2>2. b # ESC
    BY <1>2, <1>6 DEF DcsForm
  <2>3. Goes(Query("Dcs", buf), b, Query("Dcs", Append(buf, b)), <<>>)
    BY <2>2, QueryDcs
  <2>4. n \in 2..4 /\ n + 1 \in 2..4 /\ n + 1 # Size(k) /\ n \in Nat
    BY <1>1, <1>6
  <2>5. QueryAt(k, n) = Query("Dcs", buf) /\ QueryAt(k, n + 1) = Query("Dcs", Append(buf, b))
    BY <1>4, <2>1, <2>4
  <2>6. QED
    BY <1>3, <2>3, <2>4, <2>5, Walks DEF u
<1>7. CASE n = 4
  <2>1. u[5] = ESC
    BY <1>2 DEF DcsForm
  <2>2. Goes(Query("Dcs", SubSeq(u, 3, 4)), u[5], Query("DcsEsc", SubSeq(u, 3, 4)), <<>>)
    BY <2>1, QueryDcs
  <2>3. Goes(QueryAt(k, n), u[n + 1], QueryAt(k, n + 1), <<>>) /\ n + 1 # Size(k)
    BY <1>1, <1>4, <1>7, <2>2
  <2>4. QED
    BY <1>3, <2>3, Walks DEF u
<1>8. CASE n = 5
  <2>1. u[6] = ST_SECOND
    BY <1>2 DEF DcsForm
  <2>2. Goes(Query("DcsEsc", SubSeq(u, 3, 4)), u[6], QueryInit, Answered(k))
    BY <2>1, DcsAnswered, QueryDcs DEF u
  <2>3. Goes(QueryAt(k, n), u[n + 1], QueryInit, Answered(k)) /\ n + 1 = Size(k)
    BY <1>1, <1>4, <1>8, <2>2
  <2>4. QED
    BY <1>3, <2>3, Walks DEF u
<1>9. QED
  BY <1>5, <1>6, <1>7, <1>8

\* The responder follows every unit, and answers at its end and only there.
LEMMA QueryFollows ==
  ASSUME NEW k \in DOMAIN Unit, NEW n \in Nat, n < Size(k)
  PROVE  QueryWalks(k, n)
<1>1. CASE k \in Texts
  <2>1. Size(k) = 1 /\ Unit[k][1] # ESC /\ n = 0
    <3>1. Size(k) = 1 /\ n < Size(k)
      BY <1>1, Sizes
    <3>2. n = 0
      BY ONLY <3>1
    <3>3. QED
      BY <1>1, <3>1, <3>2, TextForms
  <2>2. Goes(QueryInit, Unit[k][1], QueryInit, <<>>)
    <3>1. Query("Normal", <<>>) = QueryInit
      BY DEF Query, QueryInit
    <3>2. QED
      BY <2>1, <3>1, QueryNormal
  <2>3. Answered(k) = <<>>
    BY <1>1 DEF Answered, Answer, Texts
  <2>4. QueryAt(k, 0) = QueryInit
    BY QueryPlaces
  <2>5. Goes(QueryAt(k, n), Unit[k][n + 1], QueryInit, Answered(k))
    BY <2>1, <2>2, <2>3, <2>4
  <2>6. n + 1 = Size(k) /\ n \in Nat
    BY <2>1
  <2>7. QED
    BY <2>5, <2>6, Walks
<1>2. CASE k \notin Texts /\ n = 0
  <2>1. Unit[k][1] = ESC /\ Size(k) # 1
    <3>1. CASE k \in Csis
      BY <3>1, Sizes, UnitKinds, CsiFinals
    <3>2. CASE k \in Oscs
      BY <3>2, Sizes, UnitKinds, OscPlaces DEF OscStart
    <3>3. CASE k \in Dcss \cup Escs
      BY <3>3, Sizes, UnitKinds, EscForms, DcsForms DEF DcsForm
    <3>4. QED
      BY <1>2, <3>1, <3>2, <3>3, UnitKinds
  <2>2. Goes(QueryInit, Unit[k][1], Query("Esc", <<>>), <<>>)
    BY <2>1, QueryNormal
  <2>3. Goes(QueryAt(k, n), Unit[k][n + 1], QueryAt(k, n + 1), <<>>) /\ n + 1 # Size(k)
    BY <1>2, <2>1, <2>2, QueryPlaces
  <2>4. QED
    BY <2>3, Walks
<1>3. CASE k \in Escs /\ n # 0
  <2>1. Size(k) = 2 /\ n = 1
    <3>1. Size(k) = 2 /\ n < Size(k) /\ n # 0
      BY <1>3, Sizes
    <3>2. n = 1
      BY ONLY <3>1
    <3>3. QED
      BY <3>1, <3>2
  <2>2. Unit[k][2] = "M"
    BY <1>3, EscForms
  <2>3. Answered(k) = <<>>
    BY <1>3 DEF Answered, Answer, Escs
  <2>4. Goes(QueryAt(k, n), Unit[k][n + 1], QueryInit, Answered(k)) /\ n + 1 = Size(k)
    BY <2>1, <2>2, <2>3, QueryPlaces, QueryEsc
  <2>5. QED
    BY <2>4, Walks
<1>4. CASE k \in Csis /\ n # 0
  BY <1>4, QueryWalksCsi
<1>5. CASE k \in Oscs /\ n # 0
  BY <1>5, QueryWalksOsc
<1>6. CASE k \in Dcss /\ n # 0
  <2>1. Size(k) = 6
    BY <1>6, Sizes
  <2>2. n \in 1..5
    BY <1>6, <2>1
  <2>3. QED
    BY <1>6, <2>2, QueryWalksDcs
<1>7. QED
  BY <1>1, <1>2, <1>3, <1>4, <1>5, <1>6, UnitKinds

-----------------------------------------------------------------------------
(* The status scanner, byte by byte *)

\* The status scanner's states.  The context and the parameter are left over
\* from earlier sequences where nothing is said of them.
OscStates == [state : {"Normal", "EscSeen", "OscParam", "OscPayload", "PassthroughOsc", "EscInOsc"},
              ctx : {"Param", "Payload", "Passthrough"}, held : Seq(Bytes), param : Seq(Bytes), payload : Seq(Bytes)]
OscIs(o, state, held, payload) == o \in OscStates /\ o.state = state /\ o.held = held /\ o.payload = payload

\* What a byte makes of the status scanner: where it is next, and what it gave.
OscGoes(o, b, state, held, payload) == OscIs(OscStep(o, b).next, state, held, payload)
OscGave(o, b, out, acts) == OscStep(o, b).out = out /\ OscStep(o, b).acts = acts

\* What Gives is made of.
LEMMA GivesParts ==
  ASSUME NEW n, NEW o, NEW a
  PROVE  Gives(n, o, a).next = n /\ Gives(n, o, a).out = o /\ Gives(n, o, a).acts = a
BY DEF Gives

\* Sequences one element at a time.
LEMMA Growing ==
  ASSUME NEW S
  PROVE  /\ <<>> \in Seq(S)
         /\ \A a \in S : Append(<<>>, a) = <<a>> /\ <<a>> \in Seq(S)
         /\ \A a, b \in S : Append(<<a>>, b) = <<a, b>> /\ <<a, b>> \in Seq(S)
         /\ \A s \in Seq(S), a \in S : Append(s, a) = s \o <<a>> /\ Append(s, a) \in Seq(S)
<1>1. \A a \in S : Append(<<>>, a) = <<a>> /\ <<a>> \in Seq(S)
  OBVIOUS
<1>2. ASSUME NEW a \in S, NEW b \in S
      PROVE  Append(<<a>>, b) = <<a, b>> /\ <<a, b>> \in Seq(S)
  <2>1. <<a>> \in Seq(S) /\ <<a, b>> \in Seq(S)
    OBVIOUS
  <2>2. Append(<<a>>, b) \in Seq(S) /\ Len(Append(<<a>>, b)) = 2 /\ Append(<<a>>, b)[1] = a /\ Append(<<a>>, b)[2] = b
    BY <2>1
  <2>3. Len(<<a, b>>) = 2 /\ <<a, b>>[1] = a /\ <<a, b>>[2] = b
    OBVIOUS
  <2> DEFINE x == Append(<<a>>, b)
             y == <<a, b>>
  <2>4. x \in Seq(S) /\ y \in Seq(S) /\ Len(x) = 2 /\ Len(y) = 2 /\ x[1] = y[1] /\ x[2] = y[2]
    BY <2>1, <2>2, <2>3
  <2> HIDE DEF x, y
  <2>5. x = y
    BY <2>4, SeqEqual
  <2>6. QED
    BY <2>1, <2>5 DEF x, y
<1>3. ASSUME NEW s \in Seq(S), NEW a \in S
      PROVE  Append(s, a) = s \o <<a>> /\ Append(s, a) \in Seq(S)
  OBVIOUS
<1>4. QED
  BY <1>1, <1>2, <1>3

\* The bytes that move an automaton are bytes of units.
LEMMA Controls == {ESC, BEL, ST_SECOND, CSI_SECOND, OSC_SECOND, DCS_SECOND, SEPARATOR, CODE} \subseteq Bytes
BY DEF Bytes, CSI_SECOND, OSC_SECOND, DCS_SECOND, SEPARATOR, CODE

\* One byte, state by state.
LEMMA OscQuietStep ==
  ASSUME NEW o, OscIs(o, "Normal", <<>>, <<>>), NEW b
  PROVE  /\ b = ESC => OscGoes(o, b, "EscSeen", <<ESC>>, <<>>) /\ OscGave(o, b, <<>>, <<>>)
         /\ b # ESC => OscGoes(o, b, "Normal", <<>>, <<>>) /\ OscGave(o, b, <<b>>, <<>>)
<1>1. OscStep(o, b) = OscNormal(o, b)
  BY DEF OscStep, OscIs
<1>2. CASE b = ESC
  <2> DEFINE e == [o EXCEPT !.state = "EscSeen", !.held = Append(@, ESC)]
  <2>1. OscNormal(o, b) = Gives(e, <<>>, <<>>)
    BY <1>2 DEF OscNormal
  <2>2. Append(<<>>, ESC) = <<ESC>> /\ <<ESC>> \in Seq(Bytes)
    BY Growing, Controls
  <2>3. OscIs(e, "EscSeen", <<ESC>>, <<>>)
    BY <2>2 DEF OscIs, OscStates
  <2> HIDE DEF e
  <2>4. QED
    BY <1>1, <1>2, <2>1, <2>3, GivesParts DEF OscGoes, OscGave
<1>3. CASE b # ESC
  <2>1. OscNormal(o, b) = Gives(o, <<b>>, <<>>)
    BY <1>3 DEF OscNormal
  <2>2. QED
    BY <1>1, <1>3, <2>1, GivesParts DEF OscGoes, OscGave
<1>4. QED
  BY <1>2, <1>3

\* After an escape: an introducer of an OSC, or both bytes are given.
LEMMA OscEscStep ==
  ASSUME NEW o, OscIs(o, "EscSeen", <<ESC>>, <<>>), NEW b
  PROVE  /\ b = OSC_SECOND => OscGoes(o, b, "OscParam", <<ESC, OSC_SECOND>>, <<>>)
              /\ OscStep(o, b).next.param = <<>> /\ OscGave(o, b, <<>>, <<>>)
         /\ b # OSC_SECOND /\ b # ESC => OscGoes(o, b, "Normal", <<>>, <<>>) /\ OscGave(o, b, <<ESC, b>>, <<>>)
<1>1. OscStep(o, b) = OscEscSeen(o, b)
  BY DEF OscStep, OscIs
<1>2. CASE b = OSC_SECOND
  <2> DEFINE e == [o EXCEPT !.state = "OscParam", !.held = Append(@, b), !.param = <<>>]
  <2>1. OscEscSeen(o, b) = Gives(e, <<>>, <<>>)
    BY <1>2 DEF OscEscSeen, OSC_SECOND, ESC
  <2>2. Append(<<ESC>>, b) = <<ESC, b>> /\ <<ESC, b>> \in Seq(Bytes) /\ <<>> \in Seq(Bytes)
    BY <1>2, Growing, Controls
  <2>3. OscIs(e, "OscParam", <<ESC, b>>, <<>>) /\ e.param = <<>>
    BY <2>2 DEF OscIs, OscStates
  <2> HIDE DEF e
  <2>4. QED
    BY <1>1, <1>2, <2>1, <2>3, GivesParts DEF OscGoes, OscGave
<1>3. CASE b # OSC_SECOND /\ b # ESC
  <2> DEFINE e == [o EXCEPT !.state = "Normal", !.held = <<>>]
  <2>1. OscEscSeen(o, b) = Gives(e, <<ESC, b>>, <<>>)
    BY <1>3 DEF OscEscSeen, OSC_SECOND, ESC
  <2>2. OscIs(e, "Normal", <<>>, <<>>)
    BY Growing DEF OscIs, OscStates
  <2> HIDE DEF e
  <2>3. QED
    BY <1>1, <1>3, <2>1, <2>2, GivesParts DEF OscGoes, OscGave
<1>4. QED
  BY <1>2, <1>3

\* In the code of an OSC.
LEMMA OscParamStep ==
  ASSUME NEW o, NEW h \in Seq(Bytes), OscIs(o, "OscParam", h, <<>>), NEW b \in Bytes
  PROVE  /\ b # SEPARATOR /\ b # BEL /\ b # ESC =>
              /\ OscGoes(o, b, "OscParam", Append(h, b), <<>>) /\ OscGave(o, b, <<>>, <<>>)
              /\ OscStep(o, b).next.param = Append(o.param, b)
         /\ b = SEPARATOR /\ o.param = <<CODE>> => OscGoes(o, b, "OscPayload", <<>>, <<>>) /\ OscGave(o, b, <<>>, <<>>)
         /\ b = SEPARATOR /\ o.param # <<CODE>> => OscGoes(o, b, "PassthroughOsc", Append(h, b), <<>>) /\ OscGave(o, b, <<>>, <<>>)
<1>1. OscStep(o, b) = OscParam(o, b)
  BY DEF OscStep, OscIs
<1>2. Append(h, b) \in Seq(Bytes) /\ <<>> \in Seq(Bytes) /\ Append(o.param, b) \in Seq(Bytes)
  BY Growing DEF OscIs, OscStates
<1>3. CASE b # SEPARATOR /\ b # BEL /\ b # ESC
  <2> DEFINE e == [o EXCEPT !.held = Append(@, b), !.param = Append(@, b)]
  <2>1. OscParam(o, b) = Gives(e, <<>>, <<>>)
    BY <1>3 DEF OscParam, SEPARATOR
  <2>2. OscIs(e, "OscParam", Append(h, b), <<>>) /\ e.param = Append(o.param, b)
    BY <1>2 DEF OscIs, OscStates
  <2> HIDE DEF e
  <2>3. QED
    BY <1>1, <1>3, <2>1, <2>2, GivesParts DEF OscGoes, OscGave
<1>4. CASE b = SEPARATOR
  <2> DEFINE e == [o EXCEPT !.state = IF Is9999(o) THEN "OscPayload" ELSE "PassthroughOsc",
                            !.held = IF Is9999(o) THEN <<>> ELSE Append(@, b), !.payload = <<>>]
  <2>1. OscParam(o, b) = Gives(e, <<>>, <<>>)
    BY <1>4 DEF OscParam, SEPARATOR, ESC, BEL
  <2>2. Is9999(o) <=> o.param = <<CODE>>
    BY DEF Is9999, CODE
  <2>3. o.param = <<CODE>> => OscIs(e, "OscPayload", <<>>, <<>>)
    BY <1>2, <2>2 DEF OscIs, OscStates
  <2>4. o.param # <<CODE>> => OscIs(e, "PassthroughOsc", Append(h, b), <<>>)
    BY <1>2, <2>2 DEF OscIs, OscStates
  <2> HIDE DEF e
  <2>5. QED
    BY <1>1, <1>4, <2>1, <2>3, <2>4, GivesParts DEF OscGoes, OscGave
<1>5. QED
  BY <1>3, <1>4

\* An OSC that is over leaves the scanner as it started.
LEMMA OscOver ==
  ASSUME NEW o \in OscStates, NEW rest
  PROVE  /\ OscIs(OscEnds(o, "Payload", rest).next, "Normal", <<>>, <<>>)
         /\ OscEnds(o, "Payload", rest).out = <<>> /\ OscEnds(o, "Payload", rest).acts = Parsed(o.payload)
         /\ OscIs(OscEnds(o, "Passthrough", rest).next, "Normal", <<>>, <<>>)
         /\ OscEnds(o, "Passthrough", rest).out = o.held \o rest /\ OscEnds(o, "Passthrough", rest).acts = <<>>
<1> DEFINE back == [o EXCEPT !.state = "Normal", !.held = <<>>, !.payload = <<>>]
           flushed == o.held \o rest
<1>1. OscIs(back, "Normal", <<>>, <<>>)
  BY Growing DEF OscIs, OscStates
<1>2. OscEnds(o, "Payload", rest) = Gives(back, <<>>, Parsed(o.payload))
  BY DEF OscEnds
<1>3. OscEnds(o, "Passthrough", rest) = Gives(back, flushed, <<>>)
  BY DEF OscEnds
<1> HIDE DEF back, flushed
<1>4. /\ OscEnds(o, "Payload", rest).next = back /\ OscEnds(o, "Payload", rest).out = <<>>
      /\ OscEnds(o, "Payload", rest).acts = Parsed(o.payload)
  BY <1>2, GivesParts
<1>5. /\ OscEnds(o, "Passthrough", rest).next = back /\ OscEnds(o, "Passthrough", rest).out = flushed
      /\ OscEnds(o, "Passthrough", rest).acts = <<>>
  BY <1>3, GivesParts
<1>6. QED
  BY <1>1, <1>4, <1>5 DEF flushed

\* In the payload of an OSC 9999, whose bytes are not held.
LEMMA OscPayloadStep ==
  ASSUME NEW o, NEW y \in Seq(Bytes), OscIs(o, "OscPayload", <<>>, y), NEW b \in Bytes
  PROVE  /\ b # BEL /\ b # ESC => OscGoes(o, b, "OscPayload", <<>>, Append(y, b)) /\ OscGave(o, b, <<>>, <<>>)
         /\ b = BEL => OscGoes(o, b, "Normal", <<>>, <<>>) /\ OscGave(o, b, <<>>, Parsed(y))
         /\ b = ESC => OscGoes(o, b, "EscInOsc", <<>>, y) /\ OscStep(o, b).next.ctx = "Payload" /\ OscGave(o, b, <<>>, <<>>)
<1>1. OscStep(o, b) = OscPayload(o, b)
  BY DEF OscStep, OscIs
<1>2. CASE b # BEL /\ b # ESC
  <2> DEFINE e == [o EXCEPT !.payload = Append(@, b)]
  <2>1. OscPayload(o, b) = Gives(e, <<>>, <<>>)
    BY <1>2 DEF OscPayload
  <2>2. Append(y, b) \in Seq(Bytes)
    BY Growing
  <2>3. OscIs(e, "OscPayload", <<>>, Append(y, b))
    BY <2>2 DEF OscIs, OscStates
  <2> HIDE DEF e
  <2>4. QED
    BY <1>1, <1>2, <2>1, <2>3, GivesParts DEF OscGoes, OscGave
<1>3. CASE b = BEL
  <2>1. OscPayload(o, b) = OscEnds(o, "Payload", <<>>)
    BY <1>3 DEF OscPayload, BEL, ESC
  <2>2. BEL # ESC
    BY DEF BEL, ESC
  <2>3. o \in OscStates /\ o.payload = y
    BY DEF OscIs
  <2>4. OscIs(OscEnds(o, "Payload", <<>>).next, "Normal", <<>>, <<>>) /\ OscEnds(o, "Payload", <<>>).out = <<>>
        /\ OscEnds(o, "Payload", <<>>).acts = Parsed(y)
    BY <2>3, OscOver
  <2>5. QED
    BY <1>1, <1>3, <2>1, <2>2, <2>4 DEF OscGoes, OscGave
<1>4. CASE b = ESC
  <2> DEFINE e == [o EXCEPT !.state = "EscInOsc", !.ctx = "Payload"]
  <2>1. OscPayload(o, b) = Gives(e, <<>>, <<>>) /\ BEL # ESC
    BY <1>4 DEF OscPayload, BEL, ESC
  <2>2. OscIs(e, "EscInOsc", <<>>, y) /\ e.ctx = "Payload"
    BY DEF OscIs, OscStates
  <2> HIDE DEF e
  <2>3. QED
    BY <1>1, <1>4, <2>1, <2>2, GivesParts DEF OscGoes, OscGave
<1>5. QED
  BY <1>2, <1>3, <1>4

\* In any other OSC, whose bytes are all held.
LEMMA OscPassthroughStep ==
  ASSUME NEW o, NEW h \in Seq(Bytes), OscIs(o, "PassthroughOsc", h, <<>>), NEW b \in Bytes
  PROVE  /\ b # BEL /\ b # ESC => OscGoes(o, b, "PassthroughOsc", Append(h, b), <<>>) /\ OscGave(o, b, <<>>, <<>>)
         /\ b = BEL => OscGoes(o, b, "Normal", <<>>, <<>>) /\ OscGave(o, b, Append(h, b), <<>>)
         /\ b = ESC => OscGoes(o, b, "EscInOsc", Append(h, b), <<>>) /\ OscStep(o, b).next.ctx = "Passthrough" /\ OscGave(o, b, <<>>, <<>>)
<1>1. OscStep(o, b) = PassthroughOsc(o, b)
  BY DEF OscStep, OscIs
<1>2. Append(h, b) \in Seq(Bytes) /\ Append(h, b) = h \o <<b>>
  BY Growing
<1>3. CASE b # BEL /\ b # ESC
  <2> DEFINE e == [o EXCEPT !.held = Append(@, b)]
  <2>1. PassthroughOsc(o, b) = Gives(e, <<>>, <<>>)
    BY <1>3 DEF PassthroughOsc
  <2>2. OscIs(e, "PassthroughOsc", Append(h, b), <<>>)
    BY <1>2 DEF OscIs, OscStates
  <2> HIDE DEF e
  <2>3. QED
    BY <1>1, <1>3, <2>1, <2>2, GivesParts DEF OscGoes, OscGave
<1>4. CASE b = BEL
  <2>1. PassthroughOsc(o, b) = OscEnds(o, "Passthrough", <<BEL>>) /\ BEL # ESC
    BY <1>4 DEF PassthroughOsc, BEL, ESC
  <2>2. o \in OscStates /\ o.held = h
    BY DEF OscIs
  <2>3. OscIs(OscEnds(o, "Passthrough", <<BEL>>).next, "Normal", <<>>, <<>>)
        /\ OscEnds(o, "Passthrough", <<BEL>>).out = o.held \o <<BEL>>
        /\ OscEnds(o, "Passthrough", <<BEL>>).acts = <<>>
    BY <2>2, OscOver
  <2>4. OscEnds(o, "Passthrough", <<BEL>>).out = Append(h, b)
    BY <1>2, <1>4, <2>2, <2>3
  <2>5. QED
    BY <1>1, <1>4, <2>1, <2>3, <2>4 DEF OscGoes, OscGave
<1>5. CASE b = ESC
  <2> DEFINE e == [o EXCEPT !.state = "EscInOsc", !.ctx = "Passthrough", !.held = Append(@, b)]
  <2>1. PassthroughOsc(o, b) = Gives(e, <<>>, <<>>) /\ BEL # ESC
    BY <1>5 DEF PassthroughOsc, BEL, ESC
  <2>2. OscIs(e, "EscInOsc", Append(h, b), <<>>) /\ e.ctx = "Passthrough"
    BY <1>2 DEF OscIs, OscStates
  <2> HIDE DEF e
  <2>3. QED
    BY <1>1, <1>5, <2>1, <2>2, GivesParts DEF OscGoes, OscGave
<1>6. QED
  BY <1>3, <1>4, <1>5

\* At the second byte of a terminator.
LEMMA OscTerminator ==
  ASSUME NEW o, NEW h \in Seq(Bytes), NEW y, OscIs(o, "EscInOsc", h, y)
  PROVE  /\ o.ctx = "Payload" => OscGoes(o, ST_SECOND, "Normal", <<>>, <<>>) /\ OscGave(o, ST_SECOND, <<>>, Parsed(y))
         /\ o.ctx = "Passthrough" => OscGoes(o, ST_SECOND, "Normal", <<>>, <<>>) /\ OscGave(o, ST_SECOND, Append(h, ST_SECOND), <<>>)
<1>1. OscStep(o, ST_SECOND) = OscEnds(o, o.ctx, <<ST_SECOND>>)
  BY DEF OscStep, OscIs, EscInOsc
<1>2. Append(h, ST_SECOND) = h \o <<ST_SECOND>>
  BY Growing, Controls
<1>3. o \in OscStates /\ o.held = h /\ o.payload = y
  BY DEF OscIs
<1> DEFINE r == <<ST_SECOND>>
<1>4. /\ OscIs(OscEnds(o, "Payload", r).next, "Normal", <<>>, <<>>)
      /\ OscEnds(o, "Payload", r).out = <<>> /\ OscEnds(o, "Payload", r).acts = Parsed(y)
  BY <1>3, OscOver
<1>5. /\ OscIs(OscEnds(o, "Passthrough", r).next, "Normal", <<>>, <<>>)
      /\ OscEnds(o, "Passthrough", r).out = o.held \o r /\ OscEnds(o, "Passthrough", r).acts = <<>>
  BY <1>3, OscOver
<1>6. OscEnds(o, "Passthrough", r).out = Append(h, ST_SECOND)
  BY <1>2, <1>3, <1>5
<1> HIDE DEF r
<1>7. OscStep(o, ST_SECOND) = OscEnds(o, o.ctx, r)
  BY <1>1 DEF r
<1>8. QED
  BY <1>4, <1>5, <1>6, <1>7 DEF OscGoes, OscGave

-----------------------------------------------------------------------------
(* Where the status scanner is within a unit *)

\* Where the status scanner is when it has read the first n bytes of a unit.
OscWithin(k, n, o) ==
  /\ n = 0 => OscIs(o, "Normal", <<>>, <<>>)
  /\ n = 1 => OscIs(o, "EscSeen", <<ESC>>, <<>>)
  /\ k \in Csis /\ n > 1 => OscIs(o, "Normal", <<>>, <<>>)
  /\ k \in Dcss /\ n \in 2..4 => OscIs(o, "Normal", <<>>, <<>>)
  /\ k \in Dcss /\ n = 5 => OscIs(o, "EscSeen", <<ESC>>, <<>>)
  /\ k \in Oscs /\ n = 2 => OscIs(o, "OscParam", SubSeq(Unit[k], 1, 2), <<>>) /\ o.param = <<>>
  /\ k \in Oscs /\ n = 3 => OscIs(o, "OscParam", SubSeq(Unit[k], 1, 3), <<>>) /\ o.param = <<Unit[k][3]>>
  /\ k \in Statuses /\ n = 4 => OscIs(o, "OscPayload", <<>>, <<>>)
  /\ k \in Statuses /\ n = 5 => OscIs(o, "OscPayload", <<>>, <<Unit[k][5]>>)
  /\ k \in Statuses /\ n = 6 => OscIs(o, "EscInOsc", <<>>, <<Unit[k][5]>>) /\ o.ctx = "Payload"
  /\ k \in Oscs \ Statuses /\ n \in 4..5 => OscIs(o, "PassthroughOsc", SubSeq(Unit[k], 1, n), <<>>)
  /\ k \in Oscs \ Statuses /\ n = 6 => OscIs(o, "EscInOsc", SubSeq(Unit[k], 1, 6), <<>>) /\ o.ctx = "Passthrough"

\* OscWithin, phase by phase.
LEMMA OscPhases ==
  ASSUME NEW o, NEW k \in DOMAIN Unit
  PROVE  /\ OscWithin(k, 0, o) <=> OscIs(o, "Normal", <<>>, <<>>)
         /\ OscWithin(k, 1, o) <=> OscIs(o, "EscSeen", <<ESC>>, <<>>)
         /\ k \in Csis => \A n \in Nat : n > 1 => (OscWithin(k, n, o) <=> OscIs(o, "Normal", <<>>, <<>>))
         /\ k \in Dcss => /\ \A n \in 2..4 : OscWithin(k, n, o) <=> OscIs(o, "Normal", <<>>, <<>>)
                          /\ OscWithin(k, 5, o) <=> OscIs(o, "EscSeen", <<ESC>>, <<>>)
<1>1. OscWithin(k, 0, o) <=> OscIs(o, "Normal", <<>>, <<>>)
  BY DEF OscWithin
<1>2. OscWithin(k, 1, o) <=> OscIs(o, "EscSeen", <<ESC>>, <<>>)
  BY DEF OscWithin
<1>3. k \in Statuses => k \in Oscs
  BY DEF Statuses, Oscs
<1>4. ASSUME k \in Csis, NEW n \in Nat, n > 1
      PROVE  OscWithin(k, n, o) <=> OscIs(o, "Normal", <<>>, <<>>)
  <2>1. k \notin Oscs /\ k \notin Dcss /\ k \notin Statuses
    BY <1>3, <1>4, UnitKinds
  <2>2. QED
    BY ONLY <1>4, <2>1 DEF OscWithin
<1>5. ASSUME k \in Dcss, NEW n \in 2..4
      PROVE  OscWithin(k, n, o) <=> OscIs(o, "Normal", <<>>, <<>>)
  <2>1. k \notin Oscs /\ k \notin Csis /\ k \notin Statuses
    BY <1>3, <1>5, UnitKinds
  <2>2. QED
    BY ONLY <1>5, <2>1 DEF OscWithin
<1>6. ASSUME k \in Dcss
      PROVE  OscWithin(k, 5, o) <=> OscIs(o, "EscSeen", <<ESC>>, <<>>)
  <2>1. k \notin Oscs /\ k \notin Csis /\ k \notin Statuses
    BY <1>3, <1>6, UnitKinds
  <2>2. QED
    BY ONLY <1>6, <2>1 DEF OscWithin
<1>7. QED
  BY <1>1, <1>2, <1>4, <1>5, <1>6

\* OscWithin for an OSC.
LEMMA OscPhasesOfOscs ==
  ASSUME NEW o, NEW k \in Oscs
  PROVE  /\ OscWithin(k, 2, o) <=> OscIs(o, "OscParam", SubSeq(Unit[k], 1, 2), <<>>) /\ o.param = <<>>
         /\ OscWithin(k, 3, o) <=> OscIs(o, "OscParam", SubSeq(Unit[k], 1, 3), <<>>) /\ o.param = <<Unit[k][3]>>
         /\ k \in Statuses => /\ OscWithin(k, 4, o) <=> OscIs(o, "OscPayload", <<>>, <<>>)
                              /\ OscWithin(k, 5, o) <=> OscIs(o, "OscPayload", <<>>, <<Unit[k][5]>>)
                              /\ OscWithin(k, 6, o) <=> OscIs(o, "EscInOsc", <<>>, <<Unit[k][5]>>) /\ o.ctx = "Payload"
         /\ k \notin Statuses => /\ OscWithin(k, 4, o) <=> OscIs(o, "PassthroughOsc", SubSeq(Unit[k], 1, 4), <<>>)
                                 /\ OscWithin(k, 5, o) <=> OscIs(o, "PassthroughOsc", SubSeq(Unit[k], 1, 5), <<>>)
                                 /\ OscWithin(k, 6, o) <=> OscIs(o, "EscInOsc", SubSeq(Unit[k], 1, 6), <<>>) /\ o.ctx = "Passthrough"
<1>1. k \notin Csis /\ k \notin Dcss
  BY UnitKinds
<1>2. OscWithin(k, 2, o) <=> OscIs(o, "OscParam", SubSeq(Unit[k], 1, 2), <<>>) /\ o.param = <<>>
  BY <1>1 DEF OscWithin
<1>3. OscWithin(k, 3, o) <=> OscIs(o, "OscParam", SubSeq(Unit[k], 1, 3), <<>>) /\ o.param = <<Unit[k][3]>>
  BY <1>1 DEF OscWithin
<1>4. CASE k \in Statuses
  <2>1. OscWithin(k, 4, o) <=> OscIs(o, "OscPayload", <<>>, <<>>)
    BY <1>1, <1>4 DEF OscWithin
  <2>2. OscWithin(k, 5, o) <=> OscIs(o, "OscPayload", <<>>, <<Unit[k][5]>>)
    BY <1>1, <1>4 DEF OscWithin
  <2>3. OscWithin(k, 6, o) <=> OscIs(o, "EscInOsc", <<>>, <<Unit[k][5]>>) /\ o.ctx = "Payload"
    BY <1>1, <1>4 DEF OscWithin
  <2>4. QED
    BY <1>2, <1>3, <1>4, <2>1, <2>2, <2>3
<1>5. CASE k \notin Statuses
  <2>1. OscWithin(k, 4, o) <=> OscIs(o, "PassthroughOsc", SubSeq(Unit[k], 1, 4), <<>>)
    BY <1>1, <1>5 DEF OscWithin
  <2>2. OscWithin(k, 5, o) <=> OscIs(o, "PassthroughOsc", SubSeq(Unit[k], 1, 5), <<>>)
    BY <1>1, <1>5 DEF OscWithin
  <2>3. OscWithin(k, 6, o) <=> OscIs(o, "EscInOsc", SubSeq(Unit[k], 1, 6), <<>>) /\ o.ctx = "Passthrough"
    BY <1>1, <1>5 DEF OscWithin
  <2>4. QED
    BY <1>2, <1>3, <1>5, <2>1, <2>2, <2>3
<1>6. QED
  BY <1>4, <1>5

\* What the status scanner gives for byte n + 1 of a unit: the bytes it does not
\* keep, an escape only with the byte after it and an OSC only whole.
OscOut(k, n) ==
  IF n = 0 THEN IF k \in Texts THEN <<Unit[k][1]>> ELSE <<>>
  ELSE IF k \in Oscs THEN IF n + 1 = Size(k) /\ k \notin Statuses THEN Unit[k] ELSE <<>>
  ELSE IF n = 1 THEN <<ESC, Unit[k][2]>>
  ELSE IF k \in Dcss /\ n = 4 THEN <<>>
  ELSE IF k \in Dcss /\ n = 5 THEN <<ESC, ST_SECOND>>
  ELSE <<Unit[k][n + 1]>>
OscActs(k, n) == IF n + 1 = Size(k) /\ k \in DOMAIN Reports THEN <<Reports[k]>> ELSE <<>>

\* OscOut, form by form.
LEMMA OscOuts ==
  ASSUME NEW k \in DOMAIN Unit
  PROVE  /\ OscOut(k, 0) = IF k \in Texts THEN <<Unit[k][1]>> ELSE <<>>
         /\ k \notin Oscs => OscOut(k, 1) = <<ESC, Unit[k][2]>>
         /\ k \in Csis => \A n \in Nat : n > 1 => OscOut(k, n) = <<Unit[k][n + 1]>>
         /\ k \in Dcss => (\A n \in 2..3 : OscOut(k, n) = <<Unit[k][n + 1]>>) /\ OscOut(k, 4) = <<>> /\ OscOut(k, 5) = <<ESC, ST_SECOND>>
         /\ k \in Oscs => \A n \in Nat : n > 0 => OscOut(k, n) = IF n + 1 = Size(k) /\ k \notin Statuses THEN Unit[k] ELSE <<>>
<1>1. OscOut(k, 0) = IF k \in Texts THEN <<Unit[k][1]>> ELSE <<>>
  BY DEF OscOut
<1>2. k \notin Oscs => OscOut(k, 1) = <<ESC, Unit[k][2]>>
  BY DEF OscOut
<1>3. ASSUME k \in Csis, NEW n \in Nat, n > 1
      PROVE  OscOut(k, n) = <<Unit[k][n + 1]>>
  <2>1. k \notin Oscs /\ k \notin Dcss
    BY <1>3, UnitKinds
  <2>2. QED
    BY ONLY <1>3, <2>1 DEF OscOut
<1>4. ASSUME k \in Dcss
      PROVE  (\A n \in 2..3 : OscOut(k, n) = <<Unit[k][n + 1]>>) /\ OscOut(k, 4) = <<>> /\ OscOut(k, 5) = <<ESC, ST_SECOND>>
  <2>1. k \notin Oscs /\ k \notin Csis
    BY <1>4, UnitKinds
  <2>2. QED
    BY ONLY <1>4, <2>1 DEF OscOut
<1>5. ASSUME k \in Oscs, NEW n \in Nat, n > 0
      PROVE  OscOut(k, n) = IF n + 1 = Size(k) /\ k \notin Statuses THEN Unit[k] ELSE <<>>
  BY ONLY <1>5 DEF OscOut
<1>6. QED
  BY <1>1, <1>2, <1>3, <1>4, <1>5

\* OscActs: a status that parses reports, at its last byte.
LEMMA OscActions ==
  ASSUME NEW k \in DOMAIN Unit, NEW n \in Nat
  PROVE  /\ n + 1 # Size(k) => OscActs(k, n) = <<>>
         /\ k \notin Statuses => OscActs(k, n) = <<>>
         /\ n + 1 = Size(k) /\ k \in Statuses => OscActs(k, n) = Parsed(<<Unit[k][5]>>)
<1>1. n + 1 # Size(k) => OscActs(k, n) = <<>>
  BY DEF OscActs
<1>2. k \notin Statuses => OscActs(k, n) = <<>>
  BY DEF OscActs, Reports, Statuses
<1>3. ASSUME n + 1 = Size(k), k \in Statuses
      PROVE  OscActs(k, n) = Parsed(<<Unit[k][5]>>)
  <2>1. ASSUME NEW y
        PROVE  Parsed(<<y>>) = IF y \in Activities THEN <<y>> ELSE <<>>
    BY DEF Parsed
  <2>2. CASE k = "status"
    <3>1. Unit[k][5] = "working"
      BY <2>2, OscBytes DEF Oscs
    <3>2. Parsed(<<"working">>) = <<"working">>
      BY <2>1 DEF Activities
    <3>3. OscActs(k, n) = <<"working">>
      BY <1>3, <2>2 DEF OscActs, Reports
    <3>4. QED
      BY <3>1, <3>2, <3>3
  <2>3. CASE k = "done"
    <3>1. Unit[k][5] = "done"
      BY <2>3, OscBytes DEF Oscs
    <3>2. Parsed(<<"done">>) = <<"done">>
      BY <2>1 DEF Activities
    <3>3. OscActs(k, n) = <<"done">>
      BY <1>3, <2>3 DEF OscActs, Reports
    <3>4. QED
      BY <3>1, <3>2, <3>3
  <2>4. CASE k = "garbled"
    <3>1. Unit[k][5] = "t"
      BY <2>4, OscBytes DEF Oscs
    <3>2. Parsed(<<"t">>) = <<>>
      BY <2>1 DEF Activities
    <3>3. OscActs(k, n) = <<>>
      BY <1>3, <2>4 DEF OscActs, Reports
    <3>4. QED
      BY <3>1, <3>2, <3>3
  <2>5. QED
    BY <1>3, <2>2, <2>3, <2>4 DEF Statuses
<1>4. QED
  BY <1>1, <1>2, <1>3

-----------------------------------------------------------------------------
(* The status scanner, unit by unit *)

\* One byte of a unit, seen by the status scanner.
OscWalks(k, n, o) ==
  /\ n + 1 = Size(k) => OscGoes(o, Unit[k][n + 1], "Normal", <<>>, <<>>)
  /\ n + 1 # Size(k) => OscWithin(k, n + 1, OscStep(o, Unit[k][n + 1]).next)
  /\ OscGave(o, Unit[k][n + 1], OscOut(k, n), OscActs(k, n))

\* The first byte of any unit.
LEMMA OscWalksStart ==
  ASSUME NEW k \in DOMAIN Unit, NEW o, OscWithin(k, 0, o)
  PROVE  OscWalks(k, 0, o)
<1>1. OscIs(o, "Normal", <<>>, <<>>)
  BY OscPhases
<1>2. CASE k \in Texts
  <2>1. Size(k) = 1 /\ Unit[k][1] # ESC
    BY <1>2, Sizes, TextForms
  <2>2. OscGoes(o, Unit[k][1], "Normal", <<>>, <<>>) /\ OscGave(o, Unit[k][1], <<Unit[k][1]>>, <<>>)
    BY <1>1, <2>1, OscQuietStep
  <2>3. k \notin Statuses
    BY <1>2 DEF Texts, Statuses
  <2>4. OscOut(k, 0) = <<Unit[k][1]>> /\ OscActs(k, 0) = <<>>
    BY <1>2, <2>3, OscOuts, OscActions
  <2>5. 0 + 1 = 1
    OBVIOUS
  <2>6. QED
    BY <2>1, <2>2, <2>4, <2>5 DEF OscWalks
<1>3. CASE k \notin Texts
  <2>1. Unit[k][1] = ESC
    BY <1>3, UnitKinds, CsiFinals, OscPlaces, EscForms, DcsForms DEF OscStart, DcsForm
  <2>2. Size(k) # 1
    BY <1>3, UnitKinds, Sizes
  <2>3. OscGoes(o, Unit[k][1], "EscSeen", <<ESC>>, <<>>) /\ OscGave(o, Unit[k][1], <<>>, <<>>)
    BY <1>1, <2>1, OscQuietStep
  <2>4. OscWithin(k, 1, OscStep(o, Unit[k][1]).next)
    BY <2>3, OscPhases DEF OscGoes
  <2>5. 0 + 1 = 1
    OBVIOUS
  <2>6. OscOut(k, 0) = <<>>
    BY <1>3, OscOuts
  <2>7. OscActs(k, 0) = <<>>
    BY <2>2, <2>5, OscActions
  <2>8. QED
    BY <2>2, <2>3, <2>4, <2>5, <2>6, <2>7 DEF OscWalks
<1>4. QED
  BY <1>2, <1>3

\* The second byte of an escape, a CSI or a DCS.
LEMMA OscWalksEsc ==
  ASSUME NEW k \in Escs \cup Csis \cup Dcss, NEW o, OscWithin(k, 1, o)
  PROVE  OscWalks(k, 1, o)
<1>1. k \in DOMAIN Unit /\ k \notin Oscs
  BY UnitKinds
<1>2. OscIs(o, "EscSeen", <<ESC>>, <<>>)
  BY <1>1, OscPhases
<1>3. k \notin Statuses
  BY <1>1 DEF Oscs, Statuses
<1>4. Unit[k][2] # OSC_SECOND /\ Unit[k][2] # ESC
  <2>1. CASE k \in Escs
    BY <2>1, EscForms DEF OSC_SECOND, ESC
  <2>2. CASE k \in Csis
    BY <2>2, CsiFinals DEF CSI_SECOND, OSC_SECOND, ESC
  <2>3. CASE k \in Dcss
    BY <2>3, DcsForms DEF DcsForm, DCS_SECOND, OSC_SECOND, ESC
  <2>4. QED
    BY <2>1, <2>2, <2>3
<1>5. OscGoes(o, Unit[k][2], "Normal", <<>>, <<>>) /\ OscGave(o, Unit[k][2], <<ESC, Unit[k][2]>>, <<>>)
  BY <1>2, <1>4, OscEscStep
<1>6. OscOut(k, 1) = <<ESC, Unit[k][2]>> /\ OscActs(k, 1) = <<>>
  BY <1>1, <1>3, OscOuts, OscActions
<1>7. Size(k) # 2 => OscWithin(k, 2, OscStep(o, Unit[k][2]).next)
  <2>1. CASE k \in Csis
    BY <1>1, <1>5, <2>1, OscPhases DEF OscGoes
  <2>2. CASE k \in Dcss
    BY <1>1, <1>5, <2>2, OscPhases DEF OscGoes
  <2>3. CASE k \in Escs
    BY <1>1, <2>3, Sizes
  <2>4. QED
    BY <2>1, <2>2, <2>3
<1>8. 1 + 1 = 2
  OBVIOUS
<1>9. QED
  BY <1>5, <1>6, <1>7, <1>8 DEF OscWalks

\* The rest of a CSI passes, byte by byte.
LEMMA OscWalksCsi ==
  ASSUME NEW k \in Csis, NEW n \in Nat, n > 1, n < Size(k), NEW o, OscWithin(k, n, o)
  PROVE  OscWalks(k, n, o)
<1>1. k \in DOMAIN Unit /\ k \notin Oscs
  BY UnitKinds
<1>2. OscIs(o, "Normal", <<>>, <<>>)
  BY <1>1, OscPhases
<1>3. k \notin Statuses
  BY <1>1 DEF Oscs, Statuses
<1>4. n + 1 \in 2..Size(k) /\ n + 1 \in Nat /\ n + 1 > 1
  BY <1>1, Sizes
<1>5. Unit[k][n + 1] # ESC
  BY <1>4, CsiFinals
<1>6. OscGoes(o, Unit[k][n + 1], "Normal", <<>>, <<>>) /\ OscGave(o, Unit[k][n + 1], <<Unit[k][n + 1]>>, <<>>)
  BY <1>2, <1>5, OscQuietStep
<1>7. OscOut(k, n) = <<Unit[k][n + 1]>> /\ OscActs(k, n) = <<>>
  BY <1>1, <1>3, OscOuts, OscActions
<1>8. OscWithin(k, n + 1, OscStep(o, Unit[k][n + 1]).next)
  BY <1>1, <1>4, <1>6, OscPhases DEF OscGoes
<1>9. QED
  BY <1>6, <1>7, <1>8 DEF OscWalks

\* The rest of a DCS passes, its escape with the byte after it.
LEMMA OscWalksDcs ==
  ASSUME NEW k \in Dcss, NEW n \in 2..5, NEW o, OscWithin(k, n, o)
  PROVE  OscWalks(k, n, o)
<1>1. k \in DOMAIN Unit /\ k \notin Oscs /\ Size(k) = 6
  BY UnitKinds, Sizes
<1>2. k \notin Statuses
  BY <1>1 DEF Oscs, Statuses
<1>3. OscActs(k, n) = <<>>
  <2>1. n \in Nat
    OBVIOUS
  <2>2. QED
    BY <1>1, <1>2, <2>1, OscActions
<1>4. DcsForm(Unit[k])
  BY DcsForms
<1>5. CASE n \in 2..3
  <2>1. Unit[k][n + 1] # ESC
    BY <1>4, <1>5 DEF DcsForm
  <2>2. OscIs(o, "Normal", <<>>, <<>>)
    BY <1>1, <1>5, OscPhases
  <2>3. OscGoes(o, Unit[k][n + 1], "Normal", <<>>, <<>>) /\ OscGave(o, Unit[k][n + 1], <<Unit[k][n + 1]>>, <<>>)
    BY <2>1, <2>2, OscQuietStep
  <2>4. n + 1 \in 2..4 /\ n + 1 # Size(k)
    BY <1>1, <1>5
  <2>5. OscWithin(k, n + 1, OscStep(o, Unit[k][n + 1]).next)
    BY <1>1, <2>3, <2>4, OscPhases DEF OscGoes
  <2>6. OscOut(k, n) = <<Unit[k][n + 1]>>
    BY <1>1, <1>5, OscOuts
  <2>7. QED
    BY <1>3, <2>3, <2>4, <2>5, <2>6 DEF OscWalks
<1>6. CASE n = 4
  <2>1. Unit[k][5] = ESC
    BY <1>4 DEF DcsForm
  <2>2. OscIs(o, "Normal", <<>>, <<>>)
    BY <1>1, <1>6, OscPhases
  <2>3. OscGoes(o, Unit[k][5], "EscSeen", <<ESC>>, <<>>) /\ OscGave(o, Unit[k][5], <<>>, <<>>)
    BY <2>1, <2>2, OscQuietStep
  <2>4. n + 1 = 5 /\ 5 # Size(k)
    BY <1>1, <1>6
  <2>5. OscWithin(k, 5, OscStep(o, Unit[k][5]).next)
    BY <1>1, <2>3, OscPhases DEF OscGoes
  <2>6. OscOut(k, n) = <<>>
    BY <1>1, <1>6, OscOuts
  <2>7. QED
    BY <1>3, <2>3, <2>4, <2>5, <2>6 DEF OscWalks
<1>7. CASE n = 5
  <2>1. Unit[k][6] = ST_SECOND
    BY <1>4 DEF DcsForm
  <2>2. OscIs(o, "EscSeen", <<ESC>>, <<>>)
    BY <1>1, <1>7, OscPhases
  <2>3. ST_SECOND # ESC /\ ST_SECOND # OSC_SECOND
    BY DEF ST_SECOND, ESC, OSC_SECOND
  <2>4. OscGoes(o, Unit[k][6], "Normal", <<>>, <<>>) /\ OscGave(o, Unit[k][6], <<ESC, ST_SECOND>>, <<>>)
    BY <2>1, <2>2, <2>3, OscEscStep
  <2>5. n + 1 = 6
    BY <1>7
  <2>6. OscOut(k, n) = <<ESC, ST_SECOND>>
    BY <1>1, <1>7, OscOuts
  <2>7. QED
    BY <1>1, <1>3, <2>4, <2>5, <2>6 DEF OscWalks
<1>8. QED
  BY <1>5, <1>6, <1>7

\* The beginnings of an OSC.
LEMMA OscPieces ==
  ASSUME NEW k \in Oscs
  PROVE  /\ k \in DOMAIN Unit
         /\ SubSeq(Unit[k], 1, 2) = <<ESC, OSC_SECOND>>
         /\ \A n \in 2..5 : /\ SubSeq(Unit[k], 1, n) \in Seq(Bytes) /\ Unit[k][n + 1] \in Bytes
                           /\ SubSeq(Unit[k], 1, n + 1) = Append(SubSeq(Unit[k], 1, n), Unit[k][n + 1])
         /\ Size(k) = 6 => Append(SubSeq(Unit[k], 1, 5), BEL) = Unit[k]
         /\ Size(k) = 7 => SubSeq(Unit[k], 1, 6) \in Seq(Bytes) /\ Append(SubSeq(Unit[k], 1, 6), ST_SECOND) = Unit[k]
<1> DEFINE u == Unit[k]
<1>1. k \in DOMAIN Unit
  BY UnitKinds
<1>2. u \in Seq(Bytes) /\ Len(u) = Size(k) /\ Size(k) \in 6..7
  BY <1>1, Sizes
<1>3. u[1] = ESC /\ u[2] = OSC_SECOND /\ (Size(k) = 6 => u[6] = BEL) /\ (Size(k) = 7 => u[7] = ST_SECOND)
  BY OscPlaces DEF OscStart
<1> HIDE DEF u
<1>4. SubSeq(u, 1, 2) = <<ESC, OSC_SECOND>>
  <2>1. SubSeq(u, 1, 1) = Append(SubSeq(u, 1, 0), u[1]) /\ SubSeq(u, 1, 0) = <<>>
    <3>1. 0 + 1 <= Len(u) /\ 1 <= 0 + 1
      BY <1>2
    <3>2. SubSeq(u, 1, 0 + 1) = Append(SubSeq(u, 1, 0), u[0 + 1]) /\ SubSeq(u, 1, 1 - 1) = <<>>
      BY <1>2, <3>1, OneMore
    <3>3. QED
      BY <3>2
  <2>2. SubSeq(u, 1, 2) = Append(SubSeq(u, 1, 1), u[2])
    <3>1. 1 + 1 <= Len(u) /\ 1 <= 1 + 1
      BY <1>2
    <3>2. SubSeq(u, 1, 1 + 1) = Append(SubSeq(u, 1, 1), u[1 + 1])
      BY <1>2, <3>1, OneMore
    <3>3. QED
      BY <3>2
  <2>3. ESC \in Bytes /\ OSC_SECOND \in Bytes
    BY Controls
  <2>4. Append(<<>>, ESC) = <<ESC>>
    BY <2>3, Growing
  <2>5. Append(<<ESC>>, OSC_SECOND) = <<ESC, OSC_SECOND>>
    BY <2>3, Growing
  <2>6. SubSeq(u, 1, 1) = <<ESC>>
    BY ONLY <1>3, <2>1, <2>4
  <2>7. QED
    BY ONLY <1>3, <2>2, <2>5, <2>6
<1>5. ASSUME NEW n \in 2..6, n < Size(k)
      PROVE  /\ SubSeq(u, 1, n) \in Seq(Bytes) /\ u[n + 1] \in Bytes
             /\ SubSeq(u, 1, n + 1) = Append(SubSeq(u, 1, n), u[n + 1])
  <2>1. n \in Nat /\ 1 <= n + 1 /\ n + 1 <= Len(u)
    BY <1>2, <1>5
  <2>2. QED
    BY <1>2, <2>1, OneMore
<1>6. \A n \in 2..5 : n \in 2..6 /\ n < Size(k)
  BY <1>2
<1>7. SubSeq(u, 1, Size(k)) = u
  BY <1>2, AllOf
<1>8. Size(k) = 6 => Append(SubSeq(u, 1, 5), BEL) = u
  <2>1. ASSUME Size(k) = 6
        PROVE  SubSeq(u, 1, 5 + 1) = Append(SubSeq(u, 1, 5), u[5 + 1])
    BY <1>5, <2>1
  <2>2. QED
    BY <1>3, <1>7, <2>1
<1>9. Size(k) = 7 => SubSeq(u, 1, 6) \in Seq(Bytes) /\ Append(SubSeq(u, 1, 6), ST_SECOND) = u
  <2>1. ASSUME Size(k) = 7
        PROVE  SubSeq(u, 1, 6) \in Seq(Bytes) /\ SubSeq(u, 1, 6 + 1) = Append(SubSeq(u, 1, 6), u[6 + 1])
    BY <1>5, <2>1
  <2>2. QED
    BY <1>3, <1>7, <2>1
<1>10. QED
  BY <1>1, <1>4, <1>5, <1>6, <1>8, <1>9 DEF u

\* The introducer and the code of an OSC.
LEMMA OscWalksParam ==
  ASSUME NEW k \in Oscs, NEW n \in 1..3, NEW o, OscWithin(k, n, o)
  PROVE  OscWalks(k, n, o)
<1>1. k \in DOMAIN Unit
  BY OscPieces
<1>2. n + 1 # Size(k) /\ n \in Nat /\ n > 0
  <2>1. Size(k) \in 6..7
    BY <1>1, Sizes
  <2>2. QED
    BY <2>1
<1>3. OscOut(k, n) = <<>> /\ OscActs(k, n) = <<>>
  BY <1>1, <1>2, OscOuts, OscActions
<1> DEFINE u == Unit[k]
<1>4. OscStart(u)
  BY OscPlaces
<1>5. \A m \in 2..5 : SubSeq(u, 1, m) \in Seq(Bytes) /\ u[m + 1] \in Bytes /\ SubSeq(u, 1, m + 1) = Append(SubSeq(u, 1, m), u[m + 1])
  BY OscPieces
<1>6. CASE n = 1
  <2>1. OscIs(o, "EscSeen", <<ESC>>, <<>>)
    BY <1>1, <1>6, OscPhases
  <2>2. u[2] = OSC_SECOND
    BY <1>4 DEF OscStart
  <2>3. OscGoes(o, u[2], "OscParam", SubSeq(u, 1, 2), <<>>)
        /\ OscStep(o, u[2]).next.param = <<>> /\ OscGave(o, u[2], <<>>, <<>>)
    BY <2>1, <2>2, OscEscStep, OscPieces
  <2>4. OscWithin(k, 2, OscStep(o, u[2]).next)
    BY <2>3, OscPhasesOfOscs DEF OscGoes
  <2>5. n + 1 = 2
    BY <1>6
  <2>6. QED
    BY <1>2, <1>3, <2>3, <2>4, <2>5 DEF OscWalks
<1>7. CASE n = 2
  <2>1. OscIs(o, "OscParam", SubSeq(u, 1, 2), <<>>) /\ o.param = <<>>
    BY <1>7, OscPhasesOfOscs
  <2>2. u[3] # BEL /\ u[3] # ESC /\ u[3] # SEPARATOR
    BY <1>4 DEF OscStart
  <2>3. SubSeq(u, 1, 2) \in Seq(Bytes) /\ u[2 + 1] \in Bytes /\ SubSeq(u, 1, 2 + 1) = Append(SubSeq(u, 1, 2), u[2 + 1])
    BY <1>5
  <2>4. 2 + 1 = 3
    OBVIOUS
  <2>5. Append(<<>>, u[3]) = <<u[3]>>
    BY <2>3, <2>4, Growing
  <2>6. OscGoes(o, u[3], "OscParam", SubSeq(u, 1, 3), <<>>)
        /\ OscStep(o, u[3]).next.param = <<u[3]>> /\ OscGave(o, u[3], <<>>, <<>>)
    BY <2>1, <2>2, <2>3, <2>4, <2>5, OscParamStep
  <2>7. OscWithin(k, 3, OscStep(o, u[3]).next)
    BY <2>6, OscPhasesOfOscs DEF OscGoes
  <2>8. QED
    BY <1>2, <1>3, <1>7, <2>4, <2>6, <2>7 DEF OscWalks
<1>8. CASE n = 3
  <2>1. OscIs(o, "OscParam", SubSeq(u, 1, 3), <<>>) /\ o.param = <<u[3]>>
    BY <1>8, OscPhasesOfOscs
  <2>2. u[4] = SEPARATOR
    BY <1>4 DEF OscStart
  <2>3. SubSeq(u, 1, 3) \in Seq(Bytes) /\ u[3 + 1] \in Bytes /\ SubSeq(u, 1, 3 + 1) = Append(SubSeq(u, 1, 3), u[3 + 1])
    BY <1>5
  <2>4. 3 + 1 = 4
    OBVIOUS
  <2>5. (<<u[3]>> = <<CODE>>) <=> k \in Statuses
    <3>1. (u[3] = CODE) <=> k \in Statuses
      BY OscBytes
    <3>2. QED
      BY <3>1
  <2>6. CASE k \in Statuses
    <3>1. OscGoes(o, u[4], "OscPayload", <<>>, <<>>) /\ OscGave(o, u[4], <<>>, <<>>)
      BY <2>1, <2>2, <2>3, <2>4, <2>5, <2>6, OscParamStep
    <3>2. OscWithin(k, 4, OscStep(o, u[4]).next)
      BY <2>6, <3>1, OscPhasesOfOscs DEF OscGoes
    <3>3. QED
      BY <1>2, <1>3, <1>8, <2>4, <3>1, <3>2 DEF OscWalks
  <2>7. CASE k \notin Statuses
    <3>1. OscGoes(o, u[4], "PassthroughOsc", SubSeq(u, 1, 4), <<>>) /\ OscGave(o, u[4], <<>>, <<>>)
      BY <2>1, <2>2, <2>3, <2>4, <2>5, <2>7, OscParamStep
    <3>2. OscWithin(k, 4, OscStep(o, u[4]).next)
      BY <2>7, <3>1, OscPhasesOfOscs DEF OscGoes
    <3>3. QED
      BY <1>2, <1>3, <1>8, <2>4, <3>1, <3>2 DEF OscWalks
  <2>8. QED
    BY <2>6, <2>7
<1>9. QED
  BY <1>6, <1>7, <1>8

\* The payload and the end of a status.
LEMMA OscWalksPayload ==
  ASSUME NEW k \in Statuses, NEW n \in 4..6, n < Size(k), NEW o, OscWithin(k, n, o)
  PROVE  OscWalks(k, n, o)
<1>1. k \in Oscs
  BY DEF Oscs, Statuses
<1>2. k \in DOMAIN Unit /\ Size(k) \in 6..7
  BY <1>1, UnitKinds, Sizes
<1>3. n \in Nat /\ n > 0
  OBVIOUS
<1>4. OscOut(k, n) = <<>>
  BY <1>1, <1>2, <1>3, OscOuts
<1> DEFINE u == Unit[k]
<1>5. /\ n + 1 # Size(k) => OscActs(k, n) = <<>>
      /\ n + 1 = Size(k) => OscActs(k, n) = Parsed(<<u[5]>>)
  BY <1>2, <1>3, OscActions
<1>6. OscStart(u) /\ (Size(k) = 6 => u[6] = BEL) /\ (Size(k) = 7 => u[6] = ESC /\ u[7] = ST_SECOND)
  BY <1>1, OscPlaces
<1>7. u[5] \in Bytes /\ Append(<<>>, u[5]) = <<u[5]>> /\ <<u[5]>> \in Seq(Bytes) /\ <<>> \in Seq(Bytes)
  <2>1. u[4 + 1] \in Bytes /\ 4 + 1 = 5
    BY <1>1, OscPieces
  <2>2. QED
    BY <2>1, Growing
<1>8. CASE n = 4
  <2>1. OscIs(o, "OscPayload", <<>>, <<>>)
    BY <1>1, <1>8, OscPhasesOfOscs
  <2>2. u[5] # BEL /\ u[5] # ESC
    BY <1>6 DEF OscStart
  <2>3. OscGoes(o, u[5], "OscPayload", <<>>, <<u[5]>>) /\ OscGave(o, u[5], <<>>, <<>>)
    BY <1>7, <2>1, <2>2, OscPayloadStep
  <2>4. OscWithin(k, 5, OscStep(o, u[5]).next)
    BY <1>1, <2>3, OscPhasesOfOscs DEF OscGoes
  <2>5. n + 1 = 5 /\ n + 1 # Size(k)
    BY <1>2, <1>8
  <2>6. QED
    BY <1>4, <1>5, <2>3, <2>4, <2>5 DEF OscWalks
<1>9. CASE n = 5
  <2>1. OscIs(o, "OscPayload", <<>>, <<u[5]>>)
    BY <1>1, <1>9, OscPhasesOfOscs
  <2>2. n + 1 = 6
    BY <1>9
  <2>3. CASE Size(k) = 6
    <3>1. OscGoes(o, u[6], "Normal", <<>>, <<>>) /\ OscGave(o, u[6], <<>>, Parsed(<<u[5]>>))
      BY <1>6, <1>7, <2>1, <2>3, OscPayloadStep, Controls
    <3>2. QED
      BY <1>4, <1>5, <2>2, <2>3, <3>1 DEF OscWalks
  <2>4. CASE Size(k) = 7
    <3>1. OscGoes(o, u[6], "EscInOsc", <<>>, <<u[5]>>) /\ OscStep(o, u[6]).next.ctx = "Payload" /\ OscGave(o, u[6], <<>>, <<>>)
      BY <1>6, <1>7, <2>1, <2>4, OscPayloadStep, Controls
    <3>2. OscWithin(k, 6, OscStep(o, u[6]).next)
      BY <1>1, <3>1, OscPhasesOfOscs DEF OscGoes
    <3>3. n + 1 # Size(k)
      BY <2>2, <2>4
    <3>4. QED
      BY <1>4, <1>5, <2>2, <3>1, <3>2, <3>3 DEF OscWalks
  <2>5. QED
    BY <1>2, <2>3, <2>4
<1>10. CASE n = 6
  <2>1. OscIs(o, "EscInOsc", <<>>, <<u[5]>>) /\ o.ctx = "Payload"
    BY <1>1, <1>10, OscPhasesOfOscs
  <2>2. n + 1 = 7 /\ Size(k) = 7
    BY <1>2, <1>10
  <2>3. OscGoes(o, u[7], "Normal", <<>>, <<>>) /\ OscGave(o, u[7], <<>>, Parsed(<<u[5]>>))
    BY <1>6, <1>7, <2>1, <2>2, OscTerminator
  <2>4. QED
    BY <1>4, <1>5, <2>2, <2>3 DEF OscWalks
<1>11. QED
  BY <1>8, <1>9, <1>10

\* The payload and the end of any other OSC.
LEMMA OscWalksPassthrough ==
  ASSUME NEW k \in Oscs, k \notin Statuses, NEW n \in 4..6, n < Size(k), NEW o, OscWithin(k, n, o)
  PROVE  OscWalks(k, n, o)
<1>1. k \in DOMAIN Unit /\ Size(k) \in 6..7
  BY UnitKinds, Sizes
<1>2. n \in Nat /\ n > 0
  OBVIOUS
<1> DEFINE u == Unit[k]
<1>3. /\ n + 1 # Size(k) => OscOut(k, n) = <<>>
      /\ n + 1 = Size(k) => OscOut(k, n) = u
  BY <1>1, <1>2, OscOuts
<1>4. OscActs(k, n) = <<>>
  BY <1>1, <1>2, OscActions
<1>5. OscStart(u) /\ (Size(k) = 6 => u[6] = BEL) /\ (Size(k) = 7 => u[6] = ESC /\ u[7] = ST_SECOND)
  BY OscPlaces
<1>6. \A m \in 2..5 : SubSeq(u, 1, m) \in Seq(Bytes) /\ u[m + 1] \in Bytes /\ SubSeq(u, 1, m + 1) = Append(SubSeq(u, 1, m), u[m + 1])
  BY OscPieces
<1>7. CASE n = 4
  <2>1. OscIs(o, "PassthroughOsc", SubSeq(u, 1, 4), <<>>)
    BY <1>7, OscPhasesOfOscs
  <2>2. u[5] # BEL /\ u[5] # ESC
    BY <1>5 DEF OscStart
  <2>3. SubSeq(u, 1, 4) \in Seq(Bytes) /\ u[4 + 1] \in Bytes /\ SubSeq(u, 1, 4 + 1) = Append(SubSeq(u, 1, 4), u[4 + 1])
    BY <1>6
  <2>4. 4 + 1 = 5
    OBVIOUS
  <2>5. OscGoes(o, u[5], "PassthroughOsc", SubSeq(u, 1, 5), <<>>) /\ OscGave(o, u[5], <<>>, <<>>)
    BY <2>1, <2>2, <2>3, <2>4, OscPassthroughStep
  <2>6. OscWithin(k, 5, OscStep(o, u[5]).next)
    BY <2>5, OscPhasesOfOscs DEF OscGoes
  <2>7. n + 1 = 5 /\ n + 1 # Size(k)
    BY <1>1, <1>7
  <2>8. QED
    BY <1>3, <1>4, <2>5, <2>6, <2>7 DEF OscWalks
<1>8. CASE n = 5
  <2>1. OscIs(o, "PassthroughOsc", SubSeq(u, 1, 5), <<>>)
    BY <1>8, OscPhasesOfOscs
  <2>2. n + 1 = 6
    BY <1>8
  <2>3. SubSeq(u, 1, 5) \in Seq(Bytes) /\ u[5 + 1] \in Bytes /\ SubSeq(u, 1, 5 + 1) = Append(SubSeq(u, 1, 5), u[5 + 1])
    BY <1>6
  <2>4. 5 + 1 = 6
    OBVIOUS
  <2>5. CASE Size(k) = 6
    <3>1. Append(SubSeq(u, 1, 5), BEL) = u
      BY <2>5, OscPieces
    <3>2. OscGoes(o, u[6], "Normal", <<>>, <<>>) /\ OscGave(o, u[6], u, <<>>)
      BY <1>5, <2>1, <2>3, <2>4, <2>5, <3>1, OscPassthroughStep
    <3>3. QED
      BY <1>3, <1>4, <2>2, <2>5, <3>2 DEF OscWalks
  <2>6. CASE Size(k) = 7
    <3>1. OscGoes(o, u[6], "EscInOsc", SubSeq(u, 1, 6), <<>>)
          /\ OscStep(o, u[6]).next.ctx = "Passthrough" /\ OscGave(o, u[6], <<>>, <<>>)
      BY <1>5, <2>1, <2>3, <2>4, <2>6, OscPassthroughStep
    <3>2. OscWithin(k, 6, OscStep(o, u[6]).next)
      BY <3>1, OscPhasesOfOscs DEF OscGoes
    <3>3. n + 1 # Size(k)
      BY <2>2, <2>6
    <3>4. QED
      BY <1>3, <1>4, <2>2, <3>1, <3>2, <3>3 DEF OscWalks
  <2>7. QED
    BY <1>1, <2>5, <2>6
<1>9. CASE n = 6
  <2>1. OscIs(o, "EscInOsc", SubSeq(u, 1, 6), <<>>) /\ o.ctx = "Passthrough"
    BY <1>9, OscPhasesOfOscs
  <2>2. n + 1 = 7 /\ Size(k) = 7
    BY <1>1, <1>9
  <2>3. SubSeq(u, 1, 6) \in Seq(Bytes) /\ Append(SubSeq(u, 1, 6), ST_SECOND) = u
    BY <2>2, OscPieces
  <2>4. OscGoes(o, u[7], "Normal", <<>>, <<>>) /\ OscGave(o, u[7], u, <<>>)
    BY <1>5, <2>1, <2>2, <2>3, OscTerminator
  <2>5. QED
    BY <1>3, <1>4, <2>2, <2>4 DEF OscWalks
<1>10. QED
  BY <1>7, <1>8, <1>9

\* The status scanner follows every unit.
LEMMA OscFollows ==
  ASSUME NEW k \in DOMAIN Unit, NEW n \in Nat, n < Size(k), NEW o, OscWithin(k, n, o)
  PROVE  OscWalks(k, n, o)
<1>1. CASE n = 0
  BY <1>1, OscWalksStart
<1>2. CASE n = 1 /\ k \notin Texts /\ k \notin Oscs
  <2>1. k \in Escs \cup Csis \cup Dcss
    BY <1>2, UnitKinds
  <2>2. QED
    BY <1>2, <2>1, OscWalksEsc
<1>3. CASE n > 1 /\ k \in Csis
  BY <1>3, OscWalksCsi
<1>4. CASE n > 1 /\ k \in Dcss
  <2>1. Size(k) = 6
    BY <1>4, Sizes
  <2>2. n \in 2..5
    BY <1>4, <2>1
  <2>3. QED
    BY <1>4, <2>2, OscWalksDcs
<1>5. CASE n > 0 /\ k \in Oscs
  <2>1. Size(k) \in 6..7
    BY <1>5, Sizes
  <2>2. n \in 1..3 \/ n \in 4..6
    BY <1>5, <2>1
  <2>3. CASE n \in 1..3
    BY <1>5, <2>3, OscWalksParam
  <2>4. CASE n \in 4..6 /\ k \in Statuses
    BY <2>4, OscWalksPayload
  <2>5. CASE n \in 4..6 /\ k \notin Statuses
    BY <1>5, <2>5, OscWalksPassthrough
  <2>6. QED
    BY <2>2, <2>3, <2>4, <2>5
<1>6. CASE k \in Texts /\ n # 0
  <2>1. Size(k) = 1
    BY <1>6, Sizes
  <2>2. QED
    BY <1>6, <2>1
<1>7. CASE k \in Escs /\ n > 1
  <2>1. Size(k) = 2
    BY <1>7, Sizes
  <2>2. QED
    BY <1>7, <2>1
<1>8. n = 0 \/ n = 1 \/ n > 1
  OBVIOUS
<1>9. QED
  BY <1>1, <1>2, <1>3, <1>4, <1>5, <1>6, <1>7, <1>8, UnitKinds

-----------------------------------------------------------------------------
(* The batch scanner: batches *)

SyncStates == [state : {"Ground", "Esc", "Csi", "Osc", "OscEsc", "Dcs", "DcsEsc"}, in_sync : BOOLEAN,
               buf : Seq(Bytes), seq : Seq(Bytes), out : Seq(Bytes)]
AnswerNames == {Answer[k] : k \in DOMAIN Answer}
Meanings == [open : BOOLEAN, reopened : BOOLEAN, held : Seq(Bytes), shown : Seq(Bytes), activity : Seq(Activities), answers : Seq(AnswerNames)]

\* What a list of units means: outside a batch nothing is held.
Sound(m) == m \in Meanings /\ (~m.open => m.held = <<>>)

\* The batch scanner has the batch that m has.
Batches(s, m) == s \in SyncStates /\ s.in_sync = m.open /\ s.buf = m.held /\ s.out = <<>>
SyncIs(s, state, seq, m) == Batches(s, m) /\ s.state = state /\ s.seq = seq

\* It now has the batch that m2 has, and gave what m2 shows and m does not.
Shows(s, m, m2) == s \in SyncStates /\ s.in_sync = m2.open /\ s.buf = m2.held /\ m2.shown = m.shown \o s.out
SyncOver(s, m, m2) == Shows(s, m, m2) /\ s.state = "Ground" /\ s.seq = <<>>

\* Joining sequences of bytes.
LEMMA Joined ==
  /\ \A s \in Seq(Bytes) : s \o <<>> = s /\ <<>> \o s = s
  /\ \A s, t \in Seq(Bytes) : s \o t \in Seq(Bytes) /\ Len(s \o t) \in Nat
  /\ \A s, t, v \in Seq(Bytes) : (s \o t) \o v = s \o (t \o v)
  /\ <<>> \in Seq(Bytes)
<1>1. \A s \in Seq(Bytes) : s \o <<>> = s /\ <<>> \o s = s
  BY ConcatEmptySeq
<1>2. \A s, t \in Seq(Bytes) : s \o t \in Seq(Bytes) /\ Len(s \o t) \in Nat
  BY ConcatProperties, LenProperties
<1>3. \A s, t, v \in Seq(Bytes) : (s \o t) \o v = s \o (t \o v)
  BY ConcatAssociative
<1>4. <<>> \in Seq(Bytes)
  OBVIOUS
<1>5. QED
  BY <1>1, <1>2, <1>3, <1>4

\* route does what a batch is meant to do.
LEMMA RouteBatches ==
  ASSUME NEW m, Sound(m), NEW s, Batches(s, m), NEW bytes \in Seq(Bytes)
  PROVE  /\ Shows(Route(s, bytes), m, Batched(m, bytes)) /\ Sound(Batched(m, bytes))
         /\ Route(s, bytes).state = s.state /\ Route(s, bytes).seq = s.seq
<1> DEFINE all == m.held \o bytes
           grown == [s EXCEPT !.buf = @ \o bytes]
<1>1. m.held \in Seq(Bytes) /\ m.shown \in Seq(Bytes) /\ s \in SyncStates
      /\ s.buf = m.held /\ s.out = <<>> /\ s.in_sync = m.open /\ m.open \in BOOLEAN
  BY DEF Sound, Meanings, Batches
<1>2. all \in Seq(Bytes) /\ <<>> \o bytes = bytes /\ <<>> \o all = all /\ <<>> \in Seq(Bytes)
  BY <1>1, Joined
<1>3. (m.shown \o m.held) \o bytes = m.shown \o all /\ m.shown \o all \in Seq(Bytes) /\ m.shown \o <<>> = m.shown
  BY <1>1, <1>2, Joined
<1>4. s.buf \o bytes = all
  BY <1>1
<1>5. CASE ~m.open
  <2> DEFINE r == [s EXCEPT !.out = @ \o bytes]
             n == [m EXCEPT !.open = FALSE, !.held = <<>>, !.shown = @ \o m.held \o bytes]
  <2>1. Route(s, bytes) = r
    BY <1>1, <1>5 DEF Route
  <2>2. Batched(m, bytes) = n
    BY <1>5 DEF Batched
  <2>3. m.held = <<>>
    BY <1>5 DEF Sound
  <2>4. all = bytes
    BY <1>2, <2>3
  <2>5. r \in SyncStates /\ r.in_sync = FALSE /\ r.buf = <<>> /\ r.out = bytes /\ r.state = s.state /\ r.seq = s.seq
    BY <1>1, <1>2, <1>5, <2>3 DEF SyncStates
  <2>6. n \in Meanings /\ n.open = FALSE /\ n.held = <<>> /\ n.shown = m.shown \o bytes
    <3>1. m.shown \o m.held \o bytes = m.shown \o bytes
      BY <1>3, <2>4
    <3>2. m \in Meanings /\ m.shown \o bytes \in Seq(Bytes)
      BY <1>3, <2>4 DEF Sound
    <3>3. QED
      BY <1>2, <3>1, <3>2 DEF Meanings
  <2> HIDE DEF r, n
  <2>7. QED
    BY <2>1, <2>2, <2>5, <2>6 DEF Shows, Sound
<1>6. CASE m.open /\ Len(all) <= MAX_BATCH
  <2> DEFINE n == [m EXCEPT !.held = @ \o bytes]
  <2>1. grown.buf = all /\ grown \in SyncStates /\ grown.in_sync = TRUE
        /\ grown.out = <<>> /\ grown.state = s.state /\ grown.seq = s.seq
    BY <1>1, <1>2, <1>4, <1>6 DEF SyncStates
  <2>2. Route(s, bytes) = IF Len(grown.buf) > MAX_BATCH THEN Flush(grown) ELSE grown
    BY <1>1, <1>6 DEF Route
  <2>3. ~(Len(grown.buf) > MAX_BATCH)
    <3>1. Len(all) \in Nat /\ MAX_BATCH \in Nat
      BY <1>2, LenProperties, FeedAssumption
    <3>2. QED
      BY <1>6, <2>1, <3>1
  <2>4. Batched(m, bytes) = n
    BY <1>6 DEF Batched
  <2>5. n \in Meanings /\ n.open = TRUE /\ n.held = all /\ n.shown = m.shown
    <3>1. m \in Meanings
      BY DEF Sound
    <3>2. QED
      BY <1>2, <1>6, <3>1 DEF Meanings
  <2> HIDE DEF n, grown
  <2>6. Route(s, bytes) = grown
    BY <2>2, <2>3
  <2>7. QED
    BY <1>3, <2>1, <2>4, <2>5, <2>6 DEF Shows, Sound
<1>7. CASE m.open /\ ~(Len(all) <= MAX_BATCH)
  <2> DEFINE n == [m EXCEPT !.open = FALSE, !.held = <<>>, !.shown = @ \o m.held \o bytes]
             r == [grown EXCEPT !.out = @ \o grown.buf, !.buf = <<>>, !.in_sync = FALSE]
  <2>1. grown.buf = all /\ grown \in SyncStates /\ grown.out = <<>> /\ grown.state = s.state /\ grown.seq = s.seq
    BY <1>1, <1>2, <1>4 DEF SyncStates
  <2>2. Route(s, bytes) = IF Len(grown.buf) > MAX_BATCH THEN Flush(grown) ELSE grown
    BY <1>1, <1>7 DEF Route
  <2>3. Len(grown.buf) > MAX_BATCH
    <3>1. Len(all) \in Nat /\ MAX_BATCH \in Nat
      BY <1>2, LenProperties, FeedAssumption
    <3>2. QED
      BY <1>7, <2>1, <3>1
  <2>4. Batched(m, bytes) = n
    BY <1>7 DEF Batched
  <2>5. n \in Meanings /\ n.open = FALSE /\ n.held = <<>> /\ n.shown = m.shown \o all
    <3>1. m \in Meanings
      BY DEF Sound
    <3>2. m.shown \o m.held \o bytes = m.shown \o all
      BY <1>3
    <3>3. QED
      BY <1>2, <1>3, <3>1, <3>2 DEF Meanings
  <2> HIDE DEF n, grown
  <2>6. Route(s, bytes) = r
    BY <2>2, <2>3 DEF Flush
  <2>7. r \in SyncStates /\ r.in_sync = FALSE /\ r.buf = <<>> /\ r.out = all /\ r.state = s.state /\ r.seq = s.seq
    BY <1>2, <2>1 DEF SyncStates
  <2> HIDE DEF r
  <2>8. QED
    BY <2>4, <2>5, <2>6, <2>7 DEF Shows, Sound
<1>8. QED
  BY <1>5, <1>6, <1>7

\* Back to ground once a sequence was routed.
LEMMA GroundShows ==
  ASSUME NEW s, NEW m, NEW m2, Shows(s, m, m2)
  PROVE  SyncOver(Ground(s), m, m2)
<1>1. <<>> \in Seq(Bytes)
  OBVIOUS
<1>2. s \in SyncStates
  BY DEF Shows
<1>3. Ground(s) \in SyncStates /\ Ground(s).in_sync = s.in_sync /\ Ground(s).buf = s.buf /\ Ground(s).out = s.out
      /\ Ground(s).state = "Ground" /\ Ground(s).seq = <<>>
  BY <1>1, <1>2 DEF Ground, SyncStates
<1>4. QED
  BY <1>3 DEF Shows, SyncOver

-----------------------------------------------------------------------------
(* The batch scanner, byte by byte *)

More(s, b) == [s EXCEPT !.seq = Append(@, b)]
Into(s, b, state) == [More(s, b) EXCEPT !.state = state]

\* One more byte of a sequence is held.
LEMMA SyncMore ==
  ASSUME NEW m, NEW s, NEW state, NEW q \in Seq(Bytes), SyncIs(s, state, q, m), NEW b \in Bytes
  PROVE  /\ SyncIs(More(s, b), state, Append(q, b), m) /\ Append(q, b) \in Seq(Bytes)
         /\ \A t \in {"Ground", "Esc", "Csi", "Osc", "OscEsc", "Dcs", "DcsEsc"} : SyncIs(Into(s, b, t), t, Append(q, b), m)
<1>1. s \in SyncStates /\ s.seq = q /\ s.state = state
  BY DEF SyncIs, Batches
<1>2. Append(q, b) \in Seq(Bytes)
  BY Growing
<1> DEFINE w == Append(q, b)
<1> HIDE DEF w
<1>3. w \in Seq(Bytes)
  BY <1>2 DEF w
<1>4. More(s, b) = [s EXCEPT !.seq = w]
  BY <1>1 DEF More, w
<1>5. SyncIs(More(s, b), state, w, m)
  BY <1>3, <1>4 DEF SyncIs, Batches, SyncStates
<1>6. ASSUME NEW t \in {"Ground", "Esc", "Csi", "Osc", "OscEsc", "Dcs", "DcsEsc"}
      PROVE  SyncIs(Into(s, b, t), t, w, m)
  <2> DEFINE e == More(s, b)
  <2>1. SyncIs(e, state, w, m)
    BY <1>5
  <2> HIDE DEF e
  <2>2. SyncIs([e EXCEPT !.state = t], t, w, m)
    BY <2>1 DEF SyncIs, Batches, SyncStates
  <2>3. QED
    BY <2>2 DEF Into, e
<1>7. QED
  BY <1>2, <1>5, <1>6 DEF w

\* A byte outside any sequence.
LEMMA SyncGroundStep ==
  ASSUME NEW m, Sound(m), NEW s, SyncIs(s, "Ground", <<>>, m), NEW b \in Bytes
  PROVE  /\ b = ESC => SyncIs(SyncStep(s, b), "Esc", <<ESC>>, m)
         /\ b # ESC => SyncOver(SyncStep(s, b), m, Batched(m, <<b>>)) /\ Sound(Batched(m, <<b>>))
<1>1. <<ESC>> \in Seq(Bytes) /\ <<b>> \in Seq(Bytes)
  BY Growing, Controls
<1>2. s.state = "Ground" /\ s.seq = <<>> /\ s \in SyncStates /\ Batches(s, m)
  BY DEF SyncIs, Batches
<1>3. CASE b = ESC
  <2>1. SyncStep(s, b) = [s EXCEPT !.seq = <<ESC>>, !.state = "Esc"]
    BY <1>2, <1>3 DEF SyncStep
  <2>2. SyncIs([s EXCEPT !.seq = <<ESC>>, !.state = "Esc"], "Esc", <<ESC>>, m)
    BY <1>1, <1>2 DEF SyncIs, Batches, SyncStates
  <2>3. QED
    BY <1>3, <2>1, <2>2
<1>4. CASE b # ESC
  <2>1. SyncStep(s, b) = Route(s, <<b>>)
    BY <1>2, <1>4 DEF SyncStep
  <2>2. QED
    BY <1>1, <1>2, <1>4, <2>1, RouteBatches DEF SyncOver
<1>5. QED
  BY <1>3, <1>4

\* The byte after an escape.
LEMMA SyncEscStep ==
  ASSUME NEW m, Sound(m), NEW s, SyncIs(s, "Esc", <<ESC>>, m), NEW b \in Bytes
  PROVE  /\ b = CSI_SECOND => SyncIs(SyncStep(s, b), "Csi", <<ESC, b>>, m)
         /\ b = OSC_SECOND => SyncIs(SyncStep(s, b), "Osc", <<ESC, b>>, m)
         /\ b = DCS_SECOND => SyncIs(SyncStep(s, b), "Dcs", <<ESC, b>>, m)
         /\ b \notin {CSI_SECOND, OSC_SECOND, DCS_SECOND, ESC} =>
              SyncOver(SyncStep(s, b), m, Batched(m, <<ESC, b>>)) /\ Sound(Batched(m, <<ESC, b>>))
<1>1. ESC \in Bytes /\ <<ESC>> \in Seq(Bytes) /\ Append(<<ESC>>, b) = <<ESC, b>> /\ <<ESC, b>> \in Seq(Bytes)
  <2>1. ESC \in Bytes
    BY Controls
  <2>2. QED
    BY <2>1, Growing
<1>2. s.state = "Esc" /\ s \in SyncStates /\ Batches(s, m)
  BY DEF SyncIs, Batches
<1>3. \A t \in {"Ground", "Esc", "Csi", "Osc", "OscEsc", "Dcs", "DcsEsc"} : SyncIs(Into(s, b, t), t, <<ESC, b>>, m)
  <2>1. \A t \in {"Ground", "Esc", "Csi", "Osc", "OscEsc", "Dcs", "DcsEsc"} : SyncIs(Into(s, b, t), t, Append(<<ESC>>, b), m)
    BY <1>1, SyncMore
  <2>2. QED
    BY <1>1, <2>1
<1>4. b = CSI_SECOND => SyncStep(s, b) = Into(s, b, "Csi")
  BY <1>2 DEF SyncStep, Into, More, CSI_SECOND, ESC
<1>5. b = OSC_SECOND => SyncStep(s, b) = Into(s, b, "Osc")
  BY <1>2 DEF SyncStep, Into, More, OSC_SECOND, ESC
<1>6. b = DCS_SECOND => SyncStep(s, b) = Into(s, b, "Dcs")
  BY <1>2 DEF SyncStep, Into, More, DCS_SECOND, ESC
<1>7. b \notin {CSI_SECOND, OSC_SECOND, DCS_SECOND, ESC} => SyncStep(s, b) = Ground(Route(s, <<ESC, b>>))
  BY <1>2 DEF SyncStep, CSI_SECOND, OSC_SECOND, DCS_SECOND, ESC
<1>8. SyncOver(Ground(Route(s, <<ESC, b>>)), m, Batched(m, <<ESC, b>>)) /\ Sound(Batched(m, <<ESC, b>>))
  BY <1>1, <1>2, RouteBatches, GroundShows
<1>9. QED
  BY <1>3, <1>4, <1>5, <1>6, <1>7, <1>8

\* A whole sequence goes to the batch, or is not held.
LEMMA SyncWhole ==
  ASSUME NEW m, Sound(m), NEW s, NEW state, NEW q \in Seq(Bytes), SyncIs(s, state, q, m), NEW b \in Bytes
  PROVE  /\ More(s, b).seq = Append(q, b)
         /\ SyncOver(Ground(Route(More(s, b), Append(q, b))), m, Batched(m, Append(q, b))) /\ Sound(Batched(m, Append(q, b)))
<1>1. SyncIs(More(s, b), state, Append(q, b), m) /\ Append(q, b) \in Seq(Bytes)
  BY SyncMore
<1>2. Batches(More(s, b), m) /\ More(s, b).seq = Append(q, b)
  BY <1>1 DEF SyncIs
<1>3. Shows(Route(More(s, b), Append(q, b)), m, Batched(m, Append(q, b))) /\ Sound(Batched(m, Append(q, b)))
  BY <1>1, <1>2, RouteBatches
<1>4. QED
  BY <1>2, <1>3, GroundShows

\* A byte of a CSI, of an OSC, of a DCS.
LEMMA SyncCsiStep ==
  ASSUME NEW m, Sound(m), NEW s, NEW q \in Seq(Bytes), SyncIs(s, "Csi", q, m), NEW b \in Bytes
  PROVE  /\ b \notin Finals => SyncIs(SyncStep(s, b), "Csi", Append(q, b), m)
         /\ b \in Finals => SyncStep(s, b) = Ground(SyncCsi(More(s, b)))
<1>1. s.state = "Csi"
  BY DEF SyncIs
<1>2. b \notin Finals => SyncStep(s, b) = More(s, b)
  BY <1>1 DEF SyncStep, More
<1>3. b \in Finals => SyncStep(s, b) = Ground(SyncCsi(More(s, b)))
  BY <1>1 DEF SyncStep, More
<1>4. SyncIs(More(s, b), "Csi", Append(q, b), m)
  BY SyncMore
<1>5. QED
  BY <1>2, <1>3, <1>4

LEMMA SyncOscStep ==
  ASSUME NEW m, Sound(m), NEW s, NEW q \in Seq(Bytes), SyncIs(s, "Osc", q, m), NEW b \in Bytes
  PROVE  /\ b # BEL /\ b # ESC => SyncIs(SyncStep(s, b), "Osc", Append(q, b), m)
         /\ b = ESC => SyncIs(SyncStep(s, b), "OscEsc", Append(q, b), m)
         /\ b = BEL => SyncOver(SyncStep(s, b), m, Batched(m, Append(q, b))) /\ Sound(Batched(m, Append(q, b)))
<1>1. s.state = "Osc"
  BY DEF SyncIs
<1>2. b # BEL /\ b # ESC => SyncStep(s, b) = More(s, b)
  BY <1>1 DEF SyncStep, More
<1>3. b = ESC => SyncStep(s, b) = Into(s, b, "OscEsc")
  BY <1>1 DEF SyncStep, Into, More, ESC, BEL
<1>4. b = BEL => SyncStep(s, b) = Ground(Route(More(s, b), More(s, b).seq))
  BY <1>1 DEF SyncStep, More, ESC, BEL
<1>5. SyncIs(More(s, b), "Osc", Append(q, b), m) /\ SyncIs(Into(s, b, "OscEsc"), "OscEsc", Append(q, b), m)
  BY SyncMore
<1>6. More(s, b).seq = Append(q, b)
      /\ SyncOver(Ground(Route(More(s, b), Append(q, b))), m, Batched(m, Append(q, b))) /\ Sound(Batched(m, Append(q, b)))
  BY SyncWhole
<1>7. QED
  BY <1>2, <1>3, <1>4, <1>5, <1>6

LEMMA SyncDcsStep ==
  ASSUME NEW m, Sound(m), NEW s, NEW q \in Seq(Bytes), SyncIs(s, "Dcs", q, m), NEW b \in Bytes
  PROVE  /\ b # ESC => SyncIs(SyncStep(s, b), "Dcs", Append(q, b), m)
         /\ b = ESC => SyncIs(SyncStep(s, b), "DcsEsc", Append(q, b), m)
<1>1. s.state = "Dcs"
  BY DEF SyncIs
<1>2. b # ESC => SyncStep(s, b) = More(s, b)
  BY <1>1 DEF SyncStep, More
<1>3. b = ESC => SyncStep(s, b) = Into(s, b, "DcsEsc")
  BY <1>1 DEF SyncStep, Into, More
<1>4. SyncIs(More(s, b), "Dcs", Append(q, b), m) /\ SyncIs(Into(s, b, "DcsEsc"), "DcsEsc", Append(q, b), m)
  BY SyncMore
<1>5. QED
  BY <1>2, <1>3, <1>4

\* The second byte of a terminator.
LEMMA SyncTerminator ==
  ASSUME NEW m, Sound(m), NEW s, NEW q \in Seq(Bytes), SyncIs(s, "OscEsc", q, m) \/ SyncIs(s, "DcsEsc", q, m)
  PROVE  SyncOver(SyncStep(s, ST_SECOND), m, Batched(m, Append(q, ST_SECOND))) /\ Sound(Batched(m, Append(q, ST_SECOND)))
<1>1. s.state \in {"OscEsc", "DcsEsc"} /\ SyncIs(s, s.state, q, m)
  BY DEF SyncIs
<1>2. SyncStep(s, ST_SECOND) = Ground(Route(More(s, ST_SECOND), More(s, ST_SECOND).seq))
  BY <1>1 DEF SyncStep, More
<1>3. ST_SECOND \in Bytes
  BY Controls
<1>4. QED
  BY <1>1, <1>2, <1>3, SyncWhole

-----------------------------------------------------------------------------
(* What one more unit means *)

\* The units that are shown or held as they came.
Plain(k) == k \notin Statuses /\ k # "begin" /\ k # "end"

\* m2 has the batch of n, and shows what n shows.
SameBatch(m2, n) == m2.open = n.open /\ m2.held = n.held /\ m2.shown = n.shown

\* k begins a batch again, and what the batch held is lost.
Spills(m, k) == k = "begin" /\ m.held # <<>>

\* What is a query, and what is answered.
LEMMA AnswerTypes ==
  ASSUME NEW k \in DOMAIN Unit
  PROVE  /\ Answered(k) \in Seq(AnswerNames)
         /\ k \in DOMAIN Answer => Answer[k] \in AnswerNames /\ Answered(k) = <<Answer[k]>> /\ Plain(k) /\ k \notin DOMAIN Reports
         /\ k \notin DOMAIN Answer => Answered(k) = <<>>
<1>1. k \in DOMAIN Answer => Answer[k] \in AnswerNames
  BY DEF AnswerNames
<1>2. k \in DOMAIN Answer => Plain(k) /\ k \notin DOMAIN Reports
  BY DEF Answer, Plain, Statuses, Reports
<1>3. QED
  BY <1>1, <1>2 DEF Answered

\* What is a status, and what it reports.
LEMMA ReportTypes ==
  ASSUME NEW k
  PROVE  /\ k \in DOMAIN Reports => <<Reports[k]>> \in Seq(Activities) /\ k \in Statuses
         /\ k \in Statuses /\ k \notin DOMAIN Reports => k = "garbled"
         /\ k \in {"garbled", "begin", "end"} => k \notin DOMAIN Reports /\ k \notin DOMAIN Answer
         /\ (k \in Statuses) => k # "begin" /\ k # "end"
<1>1. k \in DOMAIN Reports => Reports[k] \in Activities
  BY DEF Reports, Activities
<1>2. k \in DOMAIN Reports => k \in Statuses
  BY DEF Reports, Statuses
<1>3. k \in Statuses /\ k \notin DOMAIN Reports => k = "garbled"
  BY DEF Reports, Statuses
<1>4. k \in {"garbled", "begin", "end"} => k \notin DOMAIN Reports /\ k \notin DOMAIN Answer
  BY DEF Reports, Answer
<1>5. (k \in Statuses) => k # "begin" /\ k # "end"
  BY DEF Statuses
<1>6. QED
  BY <1>1, <1>2, <1>3, <1>4, <1>5

\* A batch changes neither the activity nor the answers.
LEMMA BatchedParts ==
  ASSUME NEW m, m \in Meanings, NEW bytes
  PROVE  /\ Batched(m, bytes).answers = m.answers /\ Batched(m, bytes).activity = m.activity
         /\ Batched(m, bytes).reopened = m.reopened
<1> DEFINE n1 == [m EXCEPT !.held = @ \o bytes]
           n2 == [m EXCEPT !.open = FALSE, !.held = <<>>, !.shown = @ \o m.held \o bytes]
<1>1. n1.answers = m.answers /\ n1.activity = m.activity /\ n1.reopened = m.reopened
  BY DEF Meanings
<1>2. n2.answers = m.answers /\ n2.activity = m.activity /\ n2.reopened = m.reopened
  BY DEF Meanings
<1>3. Batched(m, bytes) = n1 \/ Batched(m, bytes) = n2
  BY DEF Batched
<1> HIDE DEF n1, n2
<1>4. QED
  BY <1>1, <1>2, <1>3

\* What one more unit changes.
LEMMA ReadsParts ==
  ASSUME NEW m, Sound(m), NEW k \in DOMAIN Unit
  PROVE  /\ Sound(Reads(m, k))
         /\ Reads(m, k).answers = m.answers \o Answered(k)
         /\ Reads(m, k).activity = IF k \in DOMAIN Reports THEN <<Reports[k]>> ELSE m.activity
         /\ k \in Statuses => SameBatch(Reads(m, k), m)
         /\ Reads(m, k).reopened = (m.reopened \/ Spills(m, k))
         /\ k = "begin" => Reads(m, k).open = TRUE /\ Reads(m, k).held = m.held /\ Reads(m, k).shown = m.shown
         /\ k = "end" => Reads(m, k).open = FALSE /\ Reads(m, k).held = <<>> /\ Reads(m, k).shown = m.shown \o m.held
         /\ Plain(k) => SameBatch(Reads(m, k), Batched(m, Unit[k]))
<1>1. m \in Meanings /\ m.answers \in Seq(AnswerNames) /\ m.held \in Seq(Bytes)
      /\ m.shown \in Seq(Bytes) /\ (~m.open => m.held = <<>>) /\ m.reopened \in BOOLEAN
  BY DEF Sound, Meanings
<1>2. m.answers \o <<>> = m.answers
  BY <1>1, ConcatEmptySeq
<1>3. <<>> \in Seq(Bytes) /\ m.shown \o m.held \in Seq(Bytes)
  BY <1>1, Joined
<1>4. CASE k \in DOMAIN Reports
  <2> DEFINE n == [m EXCEPT !.activity = <<Reports[k]>>]
  <2>1. Reads(m, k) = n
    <3>1. k # "garbled" /\ k # "begin" /\ k # "end" /\ k \notin DOMAIN Answer
      BY <1>4, ReportTypes, AnswerTypes
    <3>2. QED
      BY <1>4, <3>1 DEF Reads
  <2>2. <<Reports[k]>> \in Seq(Activities) /\ k \in Statuses
    BY <1>4, ReportTypes
  <2>3. n \in Meanings /\ n.activity = <<Reports[k]>> /\ n.answers = m.answers
        /\ n.open = m.open /\ n.held = m.held /\ n.shown = m.shown /\ n.reopened = m.reopened
    BY <1>1, <2>2 DEF Meanings
  <2> HIDE DEF n
  <2>4. Answered(k) = <<>> /\ ~Plain(k) /\ k # "begin" /\ k # "end"
    BY <1>4, <2>2, AnswerTypes, ReportTypes DEF Plain
  <2>5. QED
    BY <1>1, <1>2, <1>4, <2>1, <2>2, <2>3, <2>4 DEF Sound, SameBatch, Spills
<1>5. CASE k = "garbled"
  <2>1. k \notin DOMAIN Reports /\ k \notin DOMAIN Answer /\ k \in Statuses
    BY <1>5, ReportTypes DEF Statuses
  <2>2. k # "begin" /\ k # "end"
    BY <1>5
  <2>3. Reads(m, k) = m
    BY <1>5, <2>1, <2>2 DEF Reads
  <2>4. Answered(k) = <<>> /\ ~Plain(k)
    BY <2>1, AnswerTypes DEF Plain
  <2>5. QED
    BY <1>1, <1>2, <2>1, <2>2, <2>3, <2>4 DEF SameBatch, Spills
<1>6. CASE k = "begin"
  <2> DEFINE n == [m EXCEPT !.open = TRUE, !.reopened = @ \/ m.held # <<>>]
  <2>1. k \notin DOMAIN Reports /\ k \notin DOMAIN Answer /\ k \notin Statuses /\ ~Plain(k)
    BY <1>6, ReportTypes DEF Plain
  <2>2. k # "garbled" /\ k # "end"
    BY <1>6
  <2>3. Reads(m, k) = n
    BY <1>6, <2>1, <2>2 DEF Reads
  <2>4. n \in Meanings /\ n.activity = m.activity /\ n.answers = m.answers
        /\ n.open = TRUE /\ n.held = m.held /\ n.shown = m.shown /\ n.reopened = (m.reopened \/ m.held # <<>>)
    BY <1>1, <1>3 DEF Meanings
  <2> HIDE DEF n
  <2>5. Answered(k) = <<>>
    BY <2>1, AnswerTypes
  <2>6. QED
    BY <1>2, <1>6, <2>1, <2>2, <2>3, <2>4, <2>5 DEF Sound, Spills
<1>7. CASE k = "end"
  <2> DEFINE n == [m EXCEPT !.open = FALSE, !.held = <<>>, !.shown = @ \o m.held]
  <2>1. k \notin DOMAIN Reports /\ k \notin DOMAIN Answer /\ k \notin Statuses /\ ~Plain(k)
    BY <1>7, ReportTypes DEF Plain
  <2>2. k # "garbled" /\ k # "begin"
    BY <1>7
  <2>3. Reads(m, k) = n
    BY <1>7, <2>1, <2>2 DEF Reads
  <2>4. n \in Meanings /\ n.activity = m.activity /\ n.answers = m.answers
        /\ n.open = FALSE /\ n.held = <<>> /\ n.shown = m.shown \o m.held /\ n.reopened = m.reopened
    BY <1>1, <1>3 DEF Meanings
  <2> HIDE DEF n
  <2>5. Answered(k) = <<>>
    BY <2>1, AnswerTypes
  <2>6. QED
    BY <1>1, <1>2, <2>1, <2>2, <2>3, <2>4, <2>5 DEF Sound, Spills
<1>8. CASE k \notin DOMAIN Reports /\ k # "garbled" /\ k # "begin" /\ k # "end"
  <2> DEFINE n == Batched(m, Unit[k])
  <2>1. k \notin Statuses /\ Plain(k) /\ ~Spills(m, k)
    BY <1>8, ReportTypes DEF Plain, Spills
  <2>2. Unit[k] \in Seq(Bytes)
    BY Sizes
  <2>3. Sound(n)
    <3>1. PICK s \in SyncStates : Batches(s, m)
      <4> DEFINE s == [state |-> "Ground", in_sync |-> m.open, buf |-> m.held, seq |-> <<>>, out |-> <<>>]
      <4>1. s \in SyncStates /\ Batches(s, m)
        BY <1>1, <1>3 DEF SyncStates, Batches, Meanings
      <4>2. QED
        BY <4>1
    <3>2. QED
      BY <2>2, <3>1, RouteBatches
  <2>4. n.answers = m.answers /\ n.activity = m.activity /\ n.reopened = m.reopened
    BY <1>1, BatchedParts
  <2> HIDE DEF n
  <2>5. CASE k \in DOMAIN Answer
    <3> DEFINE n2 == [n EXCEPT !.answers = Append(@, Answer[k])]
    <3>1. Reads(m, k) = n2
      BY <1>8, <2>5 DEF Reads, n
    <3>2. Answer[k] \in AnswerNames /\ Answered(k) = <<Answer[k]>>
      BY <2>5, AnswerTypes
    <3>3. Append(m.answers, Answer[k]) = m.answers \o Answered(k) /\ Append(m.answers, Answer[k]) \in Seq(AnswerNames)
      <4> DEFINE a == m.answers
                 e == Answer[k]
      <4>1. a \in Seq(AnswerNames) /\ e \in AnswerNames
        BY <1>1, <3>2
      <4> HIDE DEF a, e
      <4>2. Append(a, e) = a \o <<e>> /\ Append(a, e) \in Seq(AnswerNames)
        BY ONLY <4>1, Growing
      <4>3. QED
        BY <3>2, <4>2 DEF a, e
    <3>4. n2 \in Meanings /\ n2.answers = Append(m.answers, Answer[k])
          /\ n2.activity = n.activity /\ n2.open = n.open /\ n2.held = n.held /\ n2.shown = n.shown
          /\ n2.reopened = n.reopened
      BY <2>3, <2>4, <3>3 DEF Sound, Meanings
    <3> HIDE DEF n2
    <3>5. QED
      BY <1>1, <1>8, <2>1, <2>3, <2>4, <3>1, <3>3, <3>4 DEF Sound, SameBatch, n
  <2>6. CASE k \notin DOMAIN Answer
    <3>1. Reads(m, k) = n
      BY <1>8, <2>6 DEF Reads, n
    <3>2. Answered(k) = <<>>
      BY <2>6, AnswerTypes
    <3>3. QED
      BY <1>1, <1>2, <1>8, <2>1, <2>3, <2>4, <3>1, <3>2 DEF SameBatch, n
  <2>7. QED
    BY <2>5, <2>6
<1>9. QED
  BY <1>4, <1>5, <1>6, <1>7, <1>8

\* Which CSI it is, can be told from its third and fourth byte.
LEMMA CsiUnits ==
  ASSUME NEW k \in Csis
  PROVE  /\ (Unit[k] = Unit.begin) <=> k = "begin"
         /\ (Unit[k] = Unit.end) <=> k = "end"
<1> DEFINE b == "begin"
           e == "end"
<1>1. Unit[b][3] = "?2026" /\ Unit[b][4] = "h"
  BY BeginUnit
<1>2. Unit[e][3] = "?2026" /\ Unit[e][4] = "l"
  BY EndUnit
<1>3. Unit.begin = Unit[b] /\ Unit.end = Unit[e]
  OBVIOUS
<1>4. k \in {"colour", "da1", "da2", "decrqm"} => Unit[k][3] # "?2026"
  BY ColourUnit, Da1Unit, Da2Unit, DecrqmUnit
<1>5. k \in {"colour", "da1", "da2", "decrqm"} => Unit[k] # Unit.begin /\ Unit[k] # Unit.end
  BY <1>1, <1>2, <1>3, <1>4
<1>6. Unit.begin # Unit.end
  BY <1>1, <1>2, <1>3
<1>7. QED
  BY <1>3, <1>5, <1>6 DEF Csis

\* At its last byte, a CSI begins a batch, ends it, or goes to it.
LEMMA SyncCsiEnd ==
  ASSUME NEW m, Sound(m), NEW k \in Csis, ~Spills(m, k), NEW s, SyncIs(s, "Csi", Unit[k], m)
  PROVE  SyncOver(Ground(SyncCsi(s)), m, Reads(m, k))
<1>1. k \in DOMAIN Unit
  BY UnitKinds
<1>2. s \in SyncStates /\ s.seq = Unit[k] /\ s.out = <<>> /\ s.buf = m.held /\ s.in_sync = m.open /\ Batches(s, m)
  BY DEF SyncIs, Batches
<1>3. m.held \in Seq(Bytes) /\ m.shown \in Seq(Bytes)
  BY DEF Sound, Meanings
<1>4. m.shown \o <<>> = m.shown /\ <<>> \o m.held = m.held /\ <<>> \in Seq(Bytes)
  BY <1>3, Joined
<1>5. k \notin Statuses
  BY UnitKinds DEF Csis, Statuses
<1>6. CASE k = "begin"
  <2> DEFINE r == [s EXCEPT !.in_sync = TRUE, !.buf = <<>>]
  <2>1. s.seq = Unit.begin /\ s.seq # Unit.end
    BY <1>2, <1>6, CsiUnits
  <2>2. SyncCsi(s) = r
    BY <2>1 DEF SyncCsi
  <2>3. r \in SyncStates /\ r.in_sync = TRUE /\ r.buf = m.held /\ r.out = <<>>
    <3>1. m.held = <<>>
      BY <1>6 DEF Spills
    <3>2. QED
      BY <1>2, <1>4, <3>1 DEF SyncStates
  <2> HIDE DEF r
  <2>4. Shows(r, m, Reads(m, k))
    BY <1>1, <1>4, <1>6, <2>3, ReadsParts DEF Shows
  <2>5. QED
    BY <2>2, <2>4, GroundShows
<1>7. CASE k = "end"
  <2> DEFINE r == [s EXCEPT !.out = @ \o s.buf, !.buf = <<>>, !.in_sync = FALSE]
  <2>1. s.seq # Unit.begin /\ s.seq = Unit.end
    BY <1>2, <1>7, CsiUnits
  <2>2. SyncCsi(s) = r
    BY <2>1 DEF SyncCsi, Flush
  <2>3. s.out \o s.buf = m.held
    BY <1>2, <1>4
  <2>4. r \in SyncStates /\ r.in_sync = FALSE /\ r.buf = <<>> /\ r.out = m.held
    BY <1>2, <1>3, <1>4, <2>3 DEF SyncStates
  <2> HIDE DEF r
  <2>5. Shows(r, m, Reads(m, k))
    <3>1. Reads(m, k).open = FALSE /\ Reads(m, k).held = <<>> /\ Reads(m, k).shown = m.shown \o m.held
      BY <1>1, <1>7, ReadsParts
    <3>2. QED
      BY <2>4, <3>1 DEF Shows
  <2>6. QED
    BY <2>2, <2>5, GroundShows
<1>8. CASE k # "begin" /\ k # "end"
  <2>1. s.seq # Unit.begin /\ s.seq # Unit.end
    BY <1>2, <1>8, CsiUnits
  <2>2. SyncCsi(s) = Route(s, Unit[k])
    BY <1>2, <2>1 DEF SyncCsi
  <2>3. Unit[k] \in Seq(Bytes) /\ Plain(k)
    BY <1>1, <1>5, <1>8, Sizes DEF Plain
  <2>4. Shows(Route(s, Unit[k]), m, Batched(m, Unit[k]))
    BY <1>2, <2>3, RouteBatches
  <2>5. SameBatch(Reads(m, k), Batched(m, Unit[k]))
    BY <1>1, <2>3, ReadsParts
  <2>6. Shows(Route(s, Unit[k]), m, Reads(m, k))
    BY <2>4, <2>5 DEF Shows, SameBatch
  <2>7. QED
    BY <2>2, <2>6, GroundShows
<1>9. QED
  BY <1>6, <1>7, <1>8

-----------------------------------------------------------------------------
(* The batch scanner, unit by unit *)

\* Scanning nothing, one byte, two bytes, and one more byte.
LEMMA ScannedParts ==
  ASSUME NEW s
  PROVE  /\ Scanned(s, <<>>) = s
         /\ \A a \in Bytes : Scanned(s, <<a>>) = SyncStep(s, a)
         /\ \A a, b \in Bytes : Scanned(s, <<a, b>>) = SyncStep(SyncStep(s, a), b)
         /\ \A out \in Seq(Bytes), b \in Bytes : Scanned(s, Append(out, b)) = SyncStep(Scanned(s, out), b)
<1>1. Scanned(s, <<>>) = s
  <2>1. <<>> \in Seq(Bytes)
    OBVIOUS
  <2>2. QED
    BY <2>1, SyncFold
<1>2. ASSUME NEW out \in Seq(Bytes), NEW b \in Bytes
      PROVE  Scanned(s, Append(out, b)) = SyncStep(Scanned(s, out), b)
  BY SyncFold
<1>3. ASSUME NEW a \in Bytes
      PROVE  Scanned(s, <<a>>) = SyncStep(s, a)
  <2>1. <<>> \in Seq(Bytes) /\ Append(<<>>, a) = <<a>>
    BY Growing
  <2>2. Scanned(s, Append(<<>>, a)) = SyncStep(Scanned(s, <<>>), a)
    BY <1>2, <2>1
  <2>3. QED
    BY ONLY <1>1, <2>1, <2>2
<1>4. ASSUME NEW a \in Bytes, NEW b \in Bytes
      PROVE  Scanned(s, <<a, b>>) = SyncStep(SyncStep(s, a), b)
  <2>1. <<a>> \in Seq(Bytes) /\ Append(<<a>>, b) = <<a, b>>
    BY Growing
  <2>2. Scanned(s, Append(<<a>>, b)) = SyncStep(Scanned(s, <<a>>), b)
    BY <1>2, <2>1
  <2>3. Scanned(s, <<a>>) = SyncStep(s, a)
    BY <1>3
  <2>4. QED
    BY ONLY <2>1, <2>2, <2>3
<1>5. QED
  BY <1>1, <1>2, <1>3, <1>4

\* Where the batch scanner is when the status scanner has read n bytes of a unit.
SyncWithin(k, n, s, m) ==
  /\ n = 0 \/ n = 1 \/ k \in Oscs => SyncIs(s, "Ground", <<>>, m)
  /\ k \in Csis /\ n > 1 => SyncIs(s, "Csi", SubSeq(Unit[k], 1, n), m)
  /\ k \in Dcss /\ n \in 2..4 => SyncIs(s, "Dcs", SubSeq(Unit[k], 1, n), m)
  /\ k \in Dcss /\ n = 5 => SyncIs(s, "Dcs", SubSeq(Unit[k], 1, 4), m)

\* SyncWithin, phase by phase.
LEMMA SyncPhases ==
  ASSUME NEW s, NEW m, NEW k \in DOMAIN Unit
  PROVE  /\ SyncWithin(k, 0, s, m) <=> SyncIs(s, "Ground", <<>>, m)
         /\ SyncWithin(k, 1, s, m) <=> SyncIs(s, "Ground", <<>>, m)
         /\ k \in Oscs => \A n \in Nat : SyncWithin(k, n, s, m) <=> SyncIs(s, "Ground", <<>>, m)
         /\ k \in Csis => \A n \in Nat : n > 1 => (SyncWithin(k, n, s, m) <=> SyncIs(s, "Csi", SubSeq(Unit[k], 1, n), m))
         /\ k \in Dcss => /\ \A n \in 2..4 : SyncWithin(k, n, s, m) <=> SyncIs(s, "Dcs", SubSeq(Unit[k], 1, n), m)
                          /\ SyncWithin(k, 5, s, m) <=> SyncIs(s, "Dcs", SubSeq(Unit[k], 1, 4), m)
<1>1. SyncWithin(k, 0, s, m) <=> SyncIs(s, "Ground", <<>>, m)
  BY DEF SyncWithin
<1>2. SyncWithin(k, 1, s, m) <=> SyncIs(s, "Ground", <<>>, m)
  BY DEF SyncWithin
<1>3. ASSUME k \in Oscs, NEW n \in Nat
      PROVE  SyncWithin(k, n, s, m) <=> SyncIs(s, "Ground", <<>>, m)
  <2>1. k \notin Csis /\ k \notin Dcss
    BY <1>3, UnitKinds
  <2>2. QED
    BY ONLY <1>3, <2>1 DEF SyncWithin
<1>4. ASSUME k \in Csis, NEW n \in Nat, n > 1
      PROVE  SyncWithin(k, n, s, m) <=> SyncIs(s, "Csi", SubSeq(Unit[k], 1, n), m)
  <2>1. k \notin Oscs /\ k \notin Dcss
    BY <1>4, UnitKinds
  <2>2. QED
    BY ONLY <1>4, <2>1 DEF SyncWithin
<1>5. ASSUME k \in Dcss, NEW n \in 2..4
      PROVE  SyncWithin(k, n, s, m) <=> SyncIs(s, "Dcs", SubSeq(Unit[k], 1, n), m)
  <2>1. k \notin Oscs /\ k \notin Csis
    BY <1>5, UnitKinds
  <2>2. QED
    BY ONLY <1>5, <2>1 DEF SyncWithin
<1>6. ASSUME k \in Dcss
      PROVE  SyncWithin(k, 5, s, m) <=> SyncIs(s, "Dcs", SubSeq(Unit[k], 1, 4), m)
  <2>1. k \notin Oscs /\ k \notin Csis
    BY <1>6, UnitKinds
  <2>2. QED
    BY ONLY <1>6, <2>1 DEF SyncWithin
<1>7. QED
  BY <1>1, <1>2, <1>3, <1>4, <1>5, <1>6

\* One byte of a unit, seen by the batch scanner.
SyncWalks(k, n, s, m) ==
  /\ n + 1 = Size(k) /\ ~Spills(m, k) => SyncOver(Scanned(s, OscOut(k, n)), m, Reads(m, k))
  /\ n + 1 # Size(k) => SyncWithin(k, n + 1, Scanned(s, OscOut(k, n)), m)

\* A plain unit is given whole, in its last byte or earlier.
LEMMA SyncPlain ==
  ASSUME NEW m, Sound(m), NEW k \in DOMAIN Unit, Plain(k), NEW s, SyncOver(s, m, Batched(m, Unit[k]))
  PROVE  SyncOver(s, m, Reads(m, k))
<1>1. SameBatch(Reads(m, k), Batched(m, Unit[k]))
  BY ReadsParts
<1>2. QED
  BY ONLY <1>1, SyncOver(s, m, Batched(m, Unit[k])) DEF SyncOver, Shows, SameBatch

\* The first byte of any unit.
LEMMA SyncWalksStart ==
  ASSUME NEW m, Sound(m), NEW k \in DOMAIN Unit, NEW s, SyncWithin(k, 0, s, m)
  PROVE  SyncWalks(k, 0, s, m)
<1>1. SyncIs(s, "Ground", <<>>, m)
  BY SyncPhases
<1>2. 0 + 1 = 1
  OBVIOUS
<1>3. CASE k \in Texts
  <2>1. Size(k) = 1 /\ Unit[k][1] # ESC /\ Unit[k] \in Seq(Bytes) /\ Len(Unit[k]) = Size(k)
    BY <1>3, Sizes, TextForms
  <2>2. Unit[k][1] \in Bytes /\ Unit[k] = <<Unit[k][1]>>
    <3> DEFINE u == Unit[k]
    <3>1. u \in Seq(Bytes) /\ Len(u) = 1
      BY <2>1
    <3> HIDE DEF u
    <3>2. u[1] \in Bytes /\ u = <<u[1]>>
      BY <3>1
    <3>3. QED
      BY <3>2 DEF u
  <2>3. OscOut(k, 0) = Unit[k]
    BY <1>3, <2>2, OscOuts
  <2>4. Scanned(s, Unit[k]) = SyncStep(s, Unit[k][1])
    BY <2>2, ScannedParts
  <2>5. SyncOver(SyncStep(s, Unit[k][1]), m, Batched(m, Unit[k]))
    BY <1>1, <2>1, <2>2, SyncGroundStep
  <2>6. Plain(k)
    BY <1>3 DEF Plain, Texts, Statuses
  <2>7. QED
    BY <1>2, <2>1, <2>3, <2>4, <2>5, <2>6, SyncPlain DEF SyncWalks
<1>4. CASE k \notin Texts
  <2>1. OscOut(k, 0) = <<>>
    BY <1>4, OscOuts
  <2>2. Size(k) # 1
    BY <1>4, UnitKinds, Sizes
  <2>3. SyncWithin(k, 1, Scanned(s, <<>>), m)
    BY <1>1, ScannedParts, SyncPhases
  <2>4. QED
    BY <1>2, <2>1, <2>2, <2>3 DEF SyncWalks
<1>5. QED
  BY <1>3, <1>4

\* The two bytes that begin a sequence.
LEMMA SyncWalksEsc ==
  ASSUME NEW m, Sound(m), NEW k \in Escs \cup Csis \cup Dcss, NEW s, SyncWithin(k, 1, s, m)
  PROVE  SyncWalks(k, 1, s, m)
<1> DEFINE u == Unit[k]
           b == u[2]
<1>1. k \in DOMAIN Unit /\ k \notin Oscs
  BY UnitKinds
<1>2. SyncIs(s, "Ground", <<>>, m)
  BY <1>1, SyncPhases
<1>3. u \in Seq(Bytes) /\ Len(u) = Size(k) /\ Size(k) \in Nat /\ Size(k) >= 2
  BY <1>1, Sizes
<1>4. u[1] = ESC
  BY CsiFinals, EscForms, DcsForms DEF DcsForm
<1> HIDE DEF u
<1>5. b \in Bytes /\ SubSeq(u, 1, 2) = <<ESC, b>>
  <2>1. 0 + 1 <= Len(u) /\ 1 <= 0 + 1 /\ 1 + 1 <= Len(u) /\ 1 <= 1 + 1
    BY <1>3
  <2>2. SubSeq(u, 1, 0 + 1) = Append(SubSeq(u, 1, 0), u[0 + 1]) /\ SubSeq(u, 1, 1 - 1) = <<>>
    BY <1>3, <2>1, OneMore
  <2>3. SubSeq(u, 1, 1 + 1) = Append(SubSeq(u, 1, 1), u[1 + 1]) /\ u[1 + 1] \in Bytes
    BY <1>3, <2>1, OneMore
  <2>4. SubSeq(u, 1, 1) = Append(<<>>, u[1]) /\ SubSeq(u, 1, 2) = Append(SubSeq(u, 1, 1), b) /\ b \in Bytes
    <3>1. 0 + 1 = 1 /\ 1 - 1 = 0 /\ 1 + 1 = 2
      OBVIOUS
    <3>2. QED
      BY ONLY <2>2, <2>3, <3>1
  <2>5. ESC \in Bytes
    BY Controls
  <2>6. Append(<<>>, ESC) = <<ESC>> /\ Append(<<ESC>>, b) = <<ESC, b>>
    BY <2>4, <2>5, Growing
  <2>7. QED
    BY ONLY <1>4, <2>4, <2>6
<1>6. OscOut(k, 1) = <<ESC, b>>
  BY <1>1, OscOuts DEF u
<1>7. ESC \in Bytes
  BY Controls
<1>8. Scanned(s, OscOut(k, 1)) = SyncStep(SyncStep(s, ESC), b)
  <2>1. Scanned(s, <<ESC, b>>) = SyncStep(SyncStep(s, ESC), b)
    BY <1>5, <1>7, ScannedParts
  <2>2. QED
    BY ONLY <1>6, <2>1
<1> DEFINE e == SyncStep(s, ESC)
<1>9. SyncIs(e, "Esc", <<ESC>>, m)
  BY <1>2, <1>7, SyncGroundStep
<1> HIDE DEF e
<1>10. 1 + 1 = 2
  OBVIOUS
<1>11. CASE k \in Csis
  <2>1. b = CSI_SECOND
    BY <1>11, CsiFinals DEF u
  <2>2. SyncIs(SyncStep(e, b), "Csi", SubSeq(u, 1, 2), m)
    BY <1>5, <1>9, <2>1, SyncEscStep
  <2>3. SyncWithin(k, 2, SyncStep(e, b), m)
    BY <1>1, <1>11, <2>2, SyncPhases DEF u
  <2>4. 2 # Size(k)
    <3>1. Size(k) >= 3
      BY <1>1, <1>11, Sizes
    <3>2. QED
      BY <1>3, <3>1
  <2>5. QED
    BY <1>8, <1>10, <2>3, <2>4 DEF SyncWalks, e
<1>12. CASE k \in Dcss
  <2>1. b = DCS_SECOND
    BY <1>12, DcsForms DEF DcsForm, u
  <2>2. SyncIs(SyncStep(e, b), "Dcs", SubSeq(u, 1, 2), m)
    BY <1>5, <1>9, <2>1, SyncEscStep
  <2>3. SyncWithin(k, 2, SyncStep(e, b), m)
    BY <1>1, <1>12, <2>2, SyncPhases DEF u
  <2>4. 2 # Size(k)
    <3>1. Size(k) = 6
      BY <1>1, <1>12, Sizes
    <3>2. QED
      BY <3>1
  <2>5. QED
    BY <1>8, <1>10, <2>3, <2>4 DEF SyncWalks, e
<1>13. CASE k \in Escs
  <2>1. b = "M" /\ Size(k) = 2
    BY <1>1, <1>13, EscForms, Sizes DEF u
  <2>2. b \notin {CSI_SECOND, OSC_SECOND, DCS_SECOND, ESC}
    BY <2>1 DEF CSI_SECOND, OSC_SECOND, DCS_SECOND, ESC
  <2>3. SubSeq(u, 1, 2) = u
    BY <1>3, <2>1, AllOf
  <2>4. SyncOver(SyncStep(e, b), m, Batched(m, u))
    BY <1>5, <1>9, <2>2, <2>3, SyncEscStep
  <2>5. Plain(k)
    BY <1>13 DEF Plain, Escs, Statuses
  <2>6. SyncOver(SyncStep(e, b), m, Reads(m, k))
    BY <1>1, <2>4, <2>5, SyncPlain DEF u
  <2>7. QED
    BY <1>8, <1>10, <2>1, <2>6 DEF SyncWalks, e
<1>14. QED
  BY <1>11, <1>12, <1>13

\* The rest of a CSI is held until its final byte.
LEMMA SyncWalksCsi ==
  ASSUME NEW m, Sound(m), NEW k \in Csis, NEW n \in Nat, n > 1, n < Size(k), NEW s, SyncWithin(k, n, s, m)
  PROVE  SyncWalks(k, n, s, m)
<1> DEFINE u == Unit[k]
           q == SubSeq(u, 1, n)
           b == u[n + 1]
<1>1. k \in DOMAIN Unit
  BY UnitKinds
<1>2. SyncIs(s, "Csi", q, m)
  BY <1>1, SyncPhases
<1>3. u \in Seq(Bytes) /\ Len(u) = Size(k) /\ Size(k) \in Nat
  BY <1>1, Sizes
<1>4. (b \in Finals) <=> (n + 1 = Size(k))
  <2>1. n + 1 \in 3..Size(k)
    BY <1>3
  <2>2. QED
    BY <2>1, CsiFinals
<1>5. Scanned(s, OscOut(k, n)) = SyncStep(s, b) /\ b \in Bytes /\ q \in Seq(Bytes) /\ SubSeq(u, 1, n + 1) = Append(q, b)
  <2>1. 1 <= n + 1 /\ n + 1 <= Len(u)
    BY <1>3
  <2>2. b \in Bytes /\ q \in Seq(Bytes) /\ SubSeq(u, 1, n + 1) = Append(q, b)
    BY <1>3, <2>1, OneMore
  <2>3. OscOut(k, n) = <<b>>
    BY <1>1, OscOuts
  <2>4. QED
    BY <2>2, <2>3, ScannedParts
<1>6. CASE n + 1 = Size(k)
  <2>1. SyncStep(s, b) = Ground(SyncCsi(More(s, b)))
    BY <1>2, <1>4, <1>5, <1>6, SyncCsiStep
  <2>2. Append(q, b) = u
    BY <1>3, <1>5, <1>6, AllOf
  <2>3. SyncIs(More(s, b), "Csi", u, m)
    <3>1. SyncIs(More(s, b), "Csi", Append(q, b), m)
      BY <1>2, <1>5, SyncMore
    <3>2. QED
      BY ONLY <2>2, <3>1
  <2>4. ~Spills(m, k) => SyncOver(SyncStep(s, b), m, Reads(m, k))
    BY <2>1, <2>3, SyncCsiEnd
  <2>5. QED
    BY <1>5, <1>6, <2>4 DEF SyncWalks
<1>7. CASE n + 1 # Size(k)
  <2>1. SyncIs(SyncStep(s, b), "Csi", SubSeq(u, 1, n + 1), m)
    BY <1>2, <1>4, <1>5, <1>7, SyncCsiStep
  <2>2. n + 1 \in Nat /\ n + 1 > 1
    OBVIOUS
  <2>3. SyncWithin(k, n + 1, SyncStep(s, b), m)
    BY <1>1, <2>1, <2>2, SyncPhases
  <2>4. QED
    BY <1>5, <1>7, <2>3 DEF SyncWalks
<1>8. QED
  BY <1>6, <1>7

\* The rest of a DCS, which comes without its terminator and then with it.
LEMMA SyncWalksDcs ==
  ASSUME NEW m, Sound(m), NEW k \in Dcss, NEW n \in 2..5, NEW s, SyncWithin(k, n, s, m)
  PROVE  SyncWalks(k, n, s, m)
<1> DEFINE u == Unit[k]
<1>1. k \in DOMAIN Unit /\ k \notin Oscs /\ Size(k) = 6
  BY UnitKinds, Sizes
<1>2. u \in Seq(Bytes) /\ Len(u) = 6
  BY <1>1, Sizes
<1>3. DcsForm(u)
  BY DcsForms
<1> HIDE DEF u
<1>4. ASSUME NEW i \in 2..5
      PROVE  SubSeq(u, 1, i) \in Seq(Bytes) /\ u[i + 1] \in Bytes /\ SubSeq(u, 1, i + 1) = Append(SubSeq(u, 1, i), u[i + 1])
  <2>1. i \in Nat /\ 1 <= i + 1 /\ i + 1 <= Len(u)
    BY <1>2
  <2>2. 1 \in Nat \ {0} /\ u \in Seq(Bytes)
    BY <1>2
  <2>3. QED
    BY ONLY <2>1, <2>2, OneMore
<1>5. CASE n \in 2..3
  <2> DEFINE q == SubSeq(u, 1, n)
             b == u[n + 1]
  <2>1. q \in Seq(Bytes) /\ b \in Bytes /\ SubSeq(u, 1, n + 1) = Append(q, b)
    BY <1>4
  <2>2. b # ESC
    BY <1>3, <1>5 DEF DcsForm
  <2>3. n \in 2..4 /\ n + 1 \in 2..4 /\ n + 1 # Size(k)
    BY <1>1, <1>5
  <2>4. SyncIs(s, "Dcs", q, m)
    BY <1>1, <2>3, SyncPhases DEF u
  <2>5. OscOut(k, n) = <<b>>
    BY <1>1, <1>5, OscOuts DEF u
  <2> HIDE DEF q, b
  <2>6. SyncIs(SyncStep(s, b), "Dcs", Append(q, b), m)
    BY <2>1, <2>2, <2>4, SyncDcsStep
  <2>7. SyncIs(SyncStep(s, b), "Dcs", SubSeq(u, 1, n + 1), m)
    BY ONLY <2>1, <2>6
  <2>8. SyncWithin(k, n + 1, SyncStep(s, b), m)
    BY <1>1, <2>3, <2>7, SyncPhases DEF u
  <2>9. Scanned(s, <<b>>) = SyncStep(s, b)
    BY <2>1, ScannedParts
  <2>10. SyncWithin(k, n + 1, Scanned(s, OscOut(k, n)), m)
    BY ONLY <2>5, <2>8, <2>9
  <2>11. QED
    BY <2>3, <2>10 DEF SyncWalks
<1>6. CASE n = 4
  <2>1. OscOut(k, 4) = <<>>
    BY <1>1, OscOuts
  <2>2. Scanned(s, <<>>) = s
    BY ScannedParts
  <2>3. SyncWithin(k, 4, s, m)
    BY <1>6
  <2>4. SyncIs(s, "Dcs", SubSeq(u, 1, 4), m)
    <3>1. 4 \in 2..4
      OBVIOUS
    <3>2. QED
      BY <1>1, <2>3, <3>1, SyncPhases DEF u
  <2>5. SyncWithin(k, 5, s, m)
    BY <1>1, <2>4, SyncPhases DEF u
  <2>6. SyncWithin(k, 5, Scanned(s, OscOut(k, 4)), m)
    BY ONLY <2>1, <2>2, <2>5
  <2>7. 4 + 1 = 5 /\ 4 + 1 # Size(k)
    BY <1>1
  <2>8. SyncWalks(k, 4, s, m)
    BY <2>6, <2>7 DEF SyncWalks
  <2>9. QED
    BY <1>6, <2>8
<1>7. CASE n = 5
  <2>1. OscOut(k, 5) = <<ESC, ST_SECOND>>
    BY <1>1, OscOuts
  <2>2. ESC \in Bytes /\ ST_SECOND \in Bytes
    BY Controls
  <2>3. Scanned(s, <<ESC, ST_SECOND>>) = SyncStep(SyncStep(s, ESC), ST_SECOND)
    BY <2>2, ScannedParts
  <2>4. SyncIs(s, "Dcs", SubSeq(u, 1, 4), m)
    BY <1>1, <1>7, SyncPhases DEF u
  <2>5. u[5] = ESC /\ u[6] = ST_SECOND
    BY <1>3 DEF DcsForm
  <2>6. /\ SubSeq(u, 1, 4) \in Seq(Bytes) /\ SubSeq(u, 1, 5) \in Seq(Bytes)
        /\ SubSeq(u, 1, 5) = Append(SubSeq(u, 1, 4), ESC) /\ SubSeq(u, 1, 6) = Append(SubSeq(u, 1, 5), ST_SECOND)
    <3>1. 4 \in 2..5 /\ 5 \in 2..5 /\ 4 + 1 = 5 /\ 5 + 1 = 6
      OBVIOUS
    <3>2. SubSeq(u, 1, 4) \in Seq(Bytes) /\ SubSeq(u, 1, 4 + 1) = Append(SubSeq(u, 1, 4), u[4 + 1])
      BY <1>4, <3>1
    <3>3. SubSeq(u, 1, 5) \in Seq(Bytes) /\ SubSeq(u, 1, 5 + 1) = Append(SubSeq(u, 1, 5), u[5 + 1])
      BY <1>4, <3>1
    <3>4. QED
      BY ONLY <2>5, <3>1, <3>2, <3>3
  <2>7. SyncIs(SyncStep(s, ESC), "DcsEsc", SubSeq(u, 1, 5), m)
    <3>1. SyncIs(SyncStep(s, ESC), "DcsEsc", Append(SubSeq(u, 1, 4), ESC), m)
      BY <2>2, <2>4, <2>6, SyncDcsStep
    <3>2. QED
      BY ONLY <2>6, <3>1
  <2>8. SyncOver(SyncStep(SyncStep(s, ESC), ST_SECOND), m, Batched(m, u))
    <3>1. SyncOver(SyncStep(SyncStep(s, ESC), ST_SECOND), m, Batched(m, Append(SubSeq(u, 1, 5), ST_SECOND)))
      BY <2>6, <2>7, SyncTerminator
    <3>2. SubSeq(u, 1, 6) = u
      BY <1>2, AllOf
    <3>3. QED
      BY ONLY <2>6, <3>1, <3>2
  <2>9. Plain(k)
    BY DEF Plain, Dcss, Statuses
  <2>10. SyncOver(SyncStep(SyncStep(s, ESC), ST_SECOND), m, Reads(m, k))
    BY <1>1, <2>8, <2>9, SyncPlain DEF u
  <2>11. SyncOver(Scanned(s, OscOut(k, 5)), m, Reads(m, k))
    BY ONLY <2>1, <2>3, <2>10
  <2>12. 5 + 1 = Size(k)
    BY <1>1
  <2>13. SyncWalks(k, 5, s, m)
    BY <2>11, <2>12 DEF SyncWalks
  <2>14. QED
    BY <1>7, <2>13
<1>8. QED
  BY <1>5, <1>6, <1>7

\* A whole OSC that is not a status, given at its last byte.
LEMMA SyncOscWhole ==
  ASSUME NEW m, Sound(m), NEW k \in Oscs, k \notin Statuses, NEW s, SyncIs(s, "Ground", <<>>, m)
  PROVE  SyncOver(Scanned(s, Unit[k]), m, Reads(m, k))
<1> DEFINE u == Unit[k]
           upto(i) == Scanned(s, SubSeq(u, 1, i))
<1>1. k \in DOMAIN Unit /\ Size(k) \in 6..7 /\ u \in Seq(Bytes) /\ Len(u) = Size(k)
  BY UnitKinds, Sizes
<1>2. OscStart(u) /\ (Size(k) = 6 => u[6] = BEL) /\ (Size(k) = 7 => u[6] = ESC /\ u[7] = ST_SECOND)
  BY OscPlaces
<1>3. \A i \in 2..5 : SubSeq(u, 1, i) \in Seq(Bytes) /\ u[i + 1] \in Bytes /\ SubSeq(u, 1, i + 1) = Append(SubSeq(u, 1, i), u[i + 1])
  BY OscPieces
<1>4. SubSeq(u, 1, 2) = <<ESC, OSC_SECOND>>
  BY OscPieces
<1>5. /\ Size(k) = 6 => Append(SubSeq(u, 1, 5), BEL) = u
      /\ Size(k) = 7 => SubSeq(u, 1, 6) \in Seq(Bytes) /\ Append(SubSeq(u, 1, 6), ST_SECOND) = u
  BY OscPieces
<1> HIDE DEF u
<1>6. SyncIs(upto(2), "Osc", SubSeq(u, 1, 2), m)
  <2>1. ESC \in Bytes /\ OSC_SECOND \in Bytes
    BY Controls
  <2>2. Scanned(s, <<ESC, OSC_SECOND>>) = SyncStep(SyncStep(s, ESC), OSC_SECOND)
    BY <2>1, ScannedParts
  <2>3. SyncIs(SyncStep(s, ESC), "Esc", <<ESC>>, m)
    BY <2>1, SyncGroundStep
  <2>4. SyncIs(SyncStep(SyncStep(s, ESC), OSC_SECOND), "Osc", <<ESC, OSC_SECOND>>, m)
    BY <2>1, <2>3, SyncEscStep
  <2>5. QED
    BY ONLY <1>4, <2>2, <2>4
<1>7. ASSUME NEW i \in 2..5, SyncIs(upto(i), "Osc", SubSeq(u, 1, i), m)
      PROVE  /\ u[i + 1] # BEL /\ u[i + 1] # ESC => SyncIs(upto(i + 1), "Osc", SubSeq(u, 1, i + 1), m)
             /\ u[i + 1] = ESC => SyncIs(upto(i + 1), "OscEsc", SubSeq(u, 1, i + 1), m)
             /\ u[i + 1] = BEL => SyncOver(upto(i + 1), m, Batched(m, SubSeq(u, 1, i + 1)))
  <2> DEFINE q == SubSeq(u, 1, i)
             b == u[i + 1]
             p == Scanned(s, q)
  <2>1. q \in Seq(Bytes) /\ b \in Bytes /\ SubSeq(u, 1, i + 1) = Append(q, b)
    BY <1>3
  <2>2. SyncIs(p, "Osc", q, m)
    BY <1>7
  <2>3. upto(i + 1) = SyncStep(p, b)
    <3> HIDE DEF q, b
    <3>1. Scanned(s, Append(q, b)) = SyncStep(Scanned(s, q), b)
      BY <2>1, ScannedParts
    <3>2. QED
      BY ONLY <2>1, <3>1 DEF p
  <2> HIDE DEF p, q, b, upto
  <2>4. /\ b # BEL /\ b # ESC => SyncIs(SyncStep(p, b), "Osc", Append(q, b), m)
        /\ b = ESC => SyncIs(SyncStep(p, b), "OscEsc", Append(q, b), m)
        /\ b = BEL => SyncOver(SyncStep(p, b), m, Batched(m, Append(q, b)))
    BY <2>1, <2>2, SyncOscStep
  <2>5. QED
    BY ONLY <2>1, <2>3, <2>4 DEF b
<1>8. SyncIs(upto(5), "Osc", SubSeq(u, 1, 5), m)
  <2>1. u[3] # BEL /\ u[3] # ESC /\ u[4] # BEL /\ u[4] # ESC /\ u[5] # BEL /\ u[5] # ESC
    BY <1>2 DEF OscStart, SEPARATOR, BEL, ESC
  <2>2. 2 \in 2..5 /\ 3 \in 2..5 /\ 4 \in 2..5 /\ 2 + 1 = 3 /\ 3 + 1 = 4 /\ 4 + 1 = 5
    OBVIOUS
  <2> HIDE DEF upto
  <2>3. SyncIs(upto(3), "Osc", SubSeq(u, 1, 3), m)
    BY <1>6, <1>7, <2>1, <2>2
  <2>4. SyncIs(upto(4), "Osc", SubSeq(u, 1, 4), m)
    BY <1>7, <2>1, <2>2, <2>3
  <2>5. QED
    BY <1>7, <2>1, <2>2, <2>4
<1>9. 5 \in 2..5 /\ 5 + 1 = 6
  OBVIOUS
<1>10. SyncOver(Scanned(s, u), m, Batched(m, u))
  <2>1. CASE Size(k) = 6
    <3>1. SyncOver(upto(6), m, Batched(m, SubSeq(u, 1, 6)))
      <4> HIDE DEF upto
      <4>1. QED
        BY <1>2, <1>7, <1>8, <1>9, <2>1
    <3>2. SubSeq(u, 1, 6) = u
      BY <1>1, <2>1, AllOf
    <3>3. QED
      BY ONLY <3>1, <3>2
  <2>2. CASE Size(k) = 7
    <3> DEFINE p == Scanned(s, SubSeq(u, 1, 6))
               q == SubSeq(u, 1, 6)
    <3>1. SyncIs(p, "OscEsc", q, m)
      <4>1. SyncIs(upto(6), "OscEsc", SubSeq(u, 1, 6), m)
        <5> HIDE DEF upto
        <5>1. QED
          BY <1>2, <1>7, <1>8, <1>9, <2>2
      <4>2. QED
        BY <4>1
    <3>2. q \in Seq(Bytes) /\ Append(q, ST_SECOND) = u /\ ST_SECOND \in Bytes
      BY <1>5, <2>2, Controls
    <3>3. Scanned(s, Append(q, ST_SECOND)) = SyncStep(p, ST_SECOND)
      <4> HIDE DEF q
      <4>1. Scanned(s, Append(q, ST_SECOND)) = SyncStep(Scanned(s, q), ST_SECOND)
        BY <3>2, ScannedParts
      <4>2. QED
        BY ONLY <4>1 DEF q
    <3> HIDE DEF p, q
    <3>4. SyncOver(SyncStep(p, ST_SECOND), m, Batched(m, Append(q, ST_SECOND)))
      BY <3>1, <3>2, SyncTerminator
    <3>5. QED
      BY ONLY <3>2, <3>3, <3>4
  <2>3. QED
    BY <1>1, <2>1, <2>2
<1>11. Plain(k)
  BY DEF Plain, Oscs
<1>12. QED
  BY <1>1, <1>10, <1>11, SyncPlain DEF u

\* An OSC comes whole, at its end, or not at all.
LEMMA SyncWalksOsc ==
  ASSUME NEW m, Sound(m), NEW k \in Oscs, NEW n \in Nat, n > 0, n < Size(k), NEW s, SyncWithin(k, n, s, m)
  PROVE  SyncWalks(k, n, s, m)
<1>1. k \in DOMAIN Unit
  BY UnitKinds
<1>2. SyncIs(s, "Ground", <<>>, m)
  BY <1>1, SyncPhases
<1>3. OscOut(k, n) = IF n + 1 = Size(k) /\ k \notin Statuses THEN Unit[k] ELSE <<>>
  BY <1>1, OscOuts
<1>4. Scanned(s, <<>>) = s
  BY ScannedParts
<1>5. CASE n + 1 # Size(k)
  <2>1. n + 1 \in Nat
    OBVIOUS
  <2>2. SyncWithin(k, n + 1, s, m)
    BY <1>1, <1>2, <2>1, SyncPhases
  <2>3. OscOut(k, n) = <<>>
    BY <1>3, <1>5
  <2>4. SyncWithin(k, n + 1, Scanned(s, OscOut(k, n)), m)
    BY ONLY <1>4, <2>2, <2>3
  <2>5. QED
    BY <1>5, <2>4 DEF SyncWalks
<1>6. CASE n + 1 = Size(k) /\ k \in Statuses
  <2>1. OscOut(k, n) = <<>>
    BY <1>3, <1>6
  <2>2. SameBatch(Reads(m, k), m)
    BY <1>1, <1>6, ReadsParts
  <2>3. m.shown \o <<>> = m.shown
    BY Joined DEF Sound, Meanings
  <2>4. SyncOver(s, m, Reads(m, k))
    BY <1>2, <2>2, <2>3 DEF SyncOver, Shows, SyncIs, Batches, SameBatch
  <2>5. SyncOver(Scanned(s, OscOut(k, n)), m, Reads(m, k))
    BY ONLY <1>4, <2>1, <2>4
  <2>6. QED
    BY <1>6, <2>5 DEF SyncWalks
<1>7. CASE n + 1 = Size(k) /\ k \notin Statuses
  <2>1. OscOut(k, n) = Unit[k]
    BY <1>3, <1>7
  <2>2. SyncOver(Scanned(s, Unit[k]), m, Reads(m, k))
    BY <1>2, <1>7, SyncOscWhole
  <2>3. SyncOver(Scanned(s, OscOut(k, n)), m, Reads(m, k))
    BY ONLY <2>1, <2>2
  <2>4. QED
    BY <1>7, <2>3 DEF SyncWalks
<1>8. QED
  BY <1>5, <1>6, <1>7

\* The batch scanner follows every unit.
LEMMA SyncFollows ==
  ASSUME NEW m, Sound(m), NEW k \in DOMAIN Unit, NEW n \in Nat, n < Size(k), NEW s, SyncWithin(k, n, s, m)
  PROVE  SyncWalks(k, n, s, m)
<1>1. CASE n = 0
  BY <1>1, SyncWalksStart
<1>2. CASE n = 1 /\ k \notin Texts /\ k \notin Oscs
  <2>1. k \in Escs \cup Csis \cup Dcss
    BY <1>2, UnitKinds
  <2>2. QED
    BY <1>2, <2>1, SyncWalksEsc
<1>3. CASE n > 1 /\ k \in Csis
  BY <1>3, SyncWalksCsi
<1>4. CASE n > 1 /\ k \in Dcss
  <2>1. Size(k) = 6
    BY <1>4, Sizes
  <2>2. n \in 2..5
    BY <1>4, <2>1
  <2>3. QED
    BY <1>4, <2>2, SyncWalksDcs
<1>5. CASE n > 0 /\ k \in Oscs
  BY <1>5, SyncWalksOsc
<1>6. CASE k \in Texts /\ n # 0
  <2>1. Size(k) = 1
    BY <1>6, Sizes
  <2>2. QED
    BY <1>6, <2>1
<1>7. CASE k \in Escs /\ n > 1
  <2>1. Size(k) = 2
    BY <1>7, Sizes
  <2>2. QED
    BY <1>7, <2>1
<1>8. n = 0 \/ n = 1 \/ n > 1
  OBVIOUS
<1>9. QED
  BY <1>1, <1>2, <1>3, <1>4, <1>5, <1>6, <1>7, <1>8, UnitKinds

-----------------------------------------------------------------------------
(* The pane *)

\* The invariant of a pane whose session never dropped; the batch scanner's
\* part until a batch that holds something is begun once more.
UnitPlace ==
  /\ written \in Seq(Kinds) /\ kind \in Kinds /\ kind \in DOMAIN Unit
  /\ at \in Nat /\ at < Size(kind) /\ cuts \in Nat
Responded == query = QueryAt(kind, at) /\ answers = Meant.answers
Scanning == OscWithin(kind, at, osc) /\ activity = Meant.activity
Batching == SyncWithin(kind, at, sync, Meant) /\ fed = Meant.shown
FeedInv == UnitPlace /\ (cuts = 0 => Sound(Meant) /\ Responded /\ Scanning /\ (Meant.reopened \/ Batching))

\* Meant is a fold: nothing was meant of nothing, and one more unit is read last.
LEMMA MeantGrows ==
  /\ Meant = Understood(Nothing, written)
  /\ Meant' = Understood(Nothing, written')
  /\ \A units \in Seq(Kinds), k \in Kinds : Understood(Nothing, Append(units, k)) = Reads(Understood(Nothing, units), k)
  /\ Understood(Nothing, <<>>) = Nothing
<1>1. Meant = Understood(Nothing, written)
  BY DEF Meant, Understood
<1>2. Meant' = Understood(Nothing, written')
  BY DEF Meant, Understood
<1>3. ASSUME NEW units \in Seq(Kinds), NEW k \in Kinds
      PROVE  Understood(Nothing, Append(units, k)) = Reads(Understood(Nothing, units), k)
  BY ReadFold
<1>4. Understood(Nothing, <<>>) = Nothing
  <2>1. <<>> \in Seq(Kinds)
    OBVIOUS
  <2>2. QED
    BY <2>1, ReadFold
<1>5. QED
  BY <1>1, <1>2, <1>3, <1>4

\* Nothing is sound.
LEMMA NothingMeant ==
  Sound(Nothing) /\ Nothing.shown = <<>> /\ Nothing.activity = <<>> /\ Nothing.answers = <<>>
<1>1. <<>> \in Seq(Bytes) /\ <<>> \in Seq(Activities) /\ <<>> \in Seq(AnswerNames)
  OBVIOUS
<1>2. QED
  BY <1>1 DEF Nothing, Sound, Meanings

\* At the start every automaton is at the first byte of a unit.
LEMMA FeedStarts == FeedInit => FeedInv
<1> SUFFICES ASSUME FeedInit PROVE FeedInv
  OBVIOUS
<1>1. kind \in Kinds /\ kind \in DOMAIN Unit
  BY FeedAssumption DEF FeedInit
<1>2. UnitPlace
  <2>1. at = 0 /\ cuts = 0 /\ written = <<>>
    BY DEF FeedInit
  <2>2. written \in Seq(Kinds)
    BY <2>1
  <2>3. Size(kind) \in Nat \ {0}
    BY <1>1, Sizes
  <2>4. at \in Nat /\ cuts \in Nat /\ at < Size(kind)
    BY <2>1, <2>3
  <2>5. QED
    BY <1>1, <2>2, <2>4 DEF UnitPlace
<1>3. Meant = Nothing
  <2>1. written = <<>>
    BY DEF FeedInit
  <2>2. QED
    BY ONLY <2>1, MeantGrows
<1>4. Responded
  <2>1. query = QueryInit /\ at = 0 /\ answers = <<>>
    BY DEF FeedInit
  <2>2. QueryAt(kind, 0) = QueryInit
    BY <1>1, QueryPlaces
  <2>3. QED
    BY <1>3, <2>1, <2>2, NothingMeant DEF Responded
<1>5. Scanning
  <2>1. osc = OscInit /\ at = 0 /\ activity = <<>>
    BY DEF FeedInit
  <2>2. <<>> \in Seq(Bytes)
    OBVIOUS
  <2>3. OscIs(OscInit, "Normal", <<>>, <<>>)
    BY <2>2 DEF OscInit, Osc, OscIs, OscStates
  <2>4. OscWithin(kind, 0, OscInit)
    BY <1>1, <2>3, OscPhases
  <2>5. QED
    BY <1>3, <2>1, <2>4, NothingMeant DEF Scanning
<1>6. Batching
  <2>1. sync = SyncInit /\ at = 0 /\ fed = <<>>
    BY DEF FeedInit
  <2>2. <<>> \in Seq(Bytes)
    OBVIOUS
  <2>3. SyncIs(SyncInit, "Ground", <<>>, Nothing)
    BY <2>2 DEF SyncInit, SyncIs, Batches, SyncStates, Nothing
  <2>4. SyncWithin(kind, 0, SyncInit, Nothing)
    BY <1>1, <2>3, SyncPhases
  <2>5. QED
    BY <1>3, <2>1, <2>4, NothingMeant DEF Batching
<1>7. QED
  BY <1>2, <1>3, <1>4, <1>5, <1>6, NothingMeant DEF FeedInv

\* Within a unit nothing was given yet.
LEMMA SyncWithinBatches ==
  ASSUME NEW k \in DOMAIN Unit, NEW n \in Nat, n < Size(k), NEW s, NEW m, SyncWithin(k, n, s, m)
  PROVE  Batches(s, m) /\ [s EXCEPT !.out = <<>>] = s
<1>1. Batches(s, m)
  <2>1. CASE n = 0 \/ n = 1 \/ k \in Oscs
    BY <2>1 DEF SyncWithin, SyncIs
  <2>2. CASE k \in Csis /\ n > 1
    BY <2>2 DEF SyncWithin, SyncIs
  <2>3. CASE k \in Dcss /\ n > 1
    <3>1. Size(k) = 6
      BY <2>3, Sizes
    <3>2. n \in 2..4 \/ n = 5
      BY <2>3, <3>1
    <3>3. QED
      BY <2>3, <3>2 DEF SyncWithin, SyncIs
  <2>4. CASE k \in Texts \cup Escs /\ n > 1
    <3>1. Size(k) = 1 \/ Size(k) = 2
      BY <2>4, Sizes
    <3>2. QED
      BY <2>4, <3>1
  <2>5. n = 0 \/ n = 1 \/ n > 1
    OBVIOUS
  <2>6. QED
    BY <2>1, <2>2, <2>3, <2>4, <2>5, UnitKinds
<1>2. s \in SyncStates /\ s.out = <<>>
  BY <1>1 DEF Batches
<1>3. [s EXCEPT !.out = <<>>] = s
  BY <1>2 DEF SyncStates
<1>4. QED
  BY <1>1, <1>3

\* At its end what was given goes to the emulator.
LEMMA SyncGiven ==
  ASSUME NEW s, NEW m, NEW m2, SyncOver(s, m, m2)
  PROVE  SyncIs([s EXCEPT !.out = <<>>], "Ground", <<>>, m2) /\ m2.shown = m.shown \o s.out
<1>1. <<>> \in Seq(Bytes)
  OBVIOUS
<1>2. s \in SyncStates /\ s.in_sync = m2.open /\ s.buf = m2.held
      /\ s.state = "Ground" /\ s.seq = <<>> /\ m2.shown = m.shown \o s.out
  BY DEF SyncOver, Shows
<1> DEFINE r == [s EXCEPT !.out = <<>>]
<1>3. r \in SyncStates /\ r.in_sync = s.in_sync /\ r.buf = s.buf /\ r.state = s.state /\ r.seq = s.seq /\ r.out = <<>>
  BY <1>1, <1>2 DEF SyncStates
<1> HIDE DEF r
<1>4. SyncIs(r, "Ground", <<>>, m2)
  BY <1>2, <1>3 DEF SyncIs, Batches
<1>5. QED
  BY <1>2, <1>4 DEF r

\* Output, one variable at a time.
LEMMA OutputParts ==
  ASSUME Output
  PROVE  /\ query' = QueryStep(query, Byte).next /\ answers' = answers \o QueryStep(query, Byte).out
         /\ osc' = OscStep(osc, Byte).next
         /\ activity' = IF OscStep(osc, Byte).acts = <<>> THEN activity ELSE OscStep(osc, Byte).acts
         /\ sync' = [Scanned(sync, OscStep(osc, Byte).out) EXCEPT !.out = <<>>]
         /\ fed' = fed \o Scanned(sync, OscStep(osc, Byte).out).out
         /\ grid_cache' = <<>> /\ scroll' = 0 /\ cuts' = cuts
         /\ Whole => written' = Append(written, kind) /\ kind' \in Kinds /\ at' = 0
         /\ ~Whole => at' = at + 1 /\ written' = written /\ kind' = kind
BY DEF Output, Scanned, CacheAfter

\* A byte within a unit.
LEMMA OutputWithin ==
  ASSUME FeedInv, Output, at + 1 # Size(kind)
  PROVE  FeedInv'
<1>1. UnitPlace
  BY DEF FeedInv
<1>2. kind \in DOMAIN Unit /\ at \in Nat /\ at < Size(kind) /\ Size(kind) \in Nat
  BY <1>1, Sizes DEF UnitPlace
<1>3. ~Whole
  BY DEF Whole, Size
<1>4. at' = at + 1 /\ written' = written /\ kind' = kind /\ cuts' = cuts
  BY <1>3, OutputParts
<1>5. UnitPlace'
  <2>1. at + 1 \in Nat /\ at + 1 < Size(kind)
    BY <1>2
  <2>2. Size(kind)' = Size(kind)
    BY <1>4 DEF Size
  <2>3. QED
    BY <1>1, <1>4, <2>1, <2>2 DEF UnitPlace
<1>6. Meant' = Meant
  BY ONLY <1>4, MeantGrows
<1>7. CASE cuts # 0
  BY <1>4, <1>5, <1>7 DEF FeedInv
<1>8. CASE cuts = 0
  <2>1. Sound(Meant) /\ Responded /\ Scanning /\ (Meant.reopened \/ Batching)
    BY <1>8 DEF FeedInv
  <2> DEFINE m == Meant
             b == Unit[kind][at + 1]
             s == Scanned(sync, OscOut(kind, at))
  <2>2. QueryStep(query, b) = [next |-> QueryAt(kind, at + 1), out |-> <<>>]
    <3>1. QueryWalks(kind, at)
      BY <1>2, QueryFollows
    <3>2. QED
      BY <2>1, <3>1 DEF QueryWalks, Responded
  <2>3. OscWalks(kind, at, osc)
    BY <1>2, <2>1, OscFollows DEF Scanning
  <2>4. OscStep(osc, b).out = OscOut(kind, at) /\ OscStep(osc, b).acts = <<>> /\ OscWithin(kind, at + 1, OscStep(osc, b).next)
    <3>1. OscActs(kind, at) = <<>>
      BY <1>2, OscActions
    <3>2. QED
      BY <2>3, <3>1 DEF OscWalks, OscGave
  <2>6. Byte = b
    BY DEF Byte
  <2> HIDE DEF m, b, s
  <2>8. Responded'
    <3>1. query' = QueryAt(kind, at + 1) /\ answers' = answers \o <<>>
      <4>1. query' = QueryStep(query, b).next /\ answers' = answers \o QueryStep(query, b).out
        BY <2>6, OutputParts
      <4>2. QED
        BY ONLY <2>2, <4>1
    <3>2. answers \in Seq(AnswerNames) /\ answers = Meant.answers
      BY <2>1 DEF Responded, Sound, Meanings
    <3>3. answers \o <<>> = answers
      BY <3>2, ConcatEmptySeq
    <3>4. QueryAt(kind, at)' = QueryAt(kind, at + 1)
      BY <1>4 DEF QueryAt
    <3>5. QED
      BY <1>6, <3>1, <3>2, <3>3, <3>4 DEF Responded
  <2>9. Scanning'
    <3>1. osc' = OscStep(osc, b).next /\ activity' = activity
      BY <2>4, <2>6, OutputParts
    <3>2. OscWithin(kind', at', osc')
      BY <1>4, <2>4, <3>1
    <3>3. activity = Meant.activity
      BY <2>1 DEF Scanning
    <3>4. QED
      BY <1>6, <3>1, <3>2, <3>3 DEF Scanning
  <2>10. ASSUME Batching PROVE Batching'
    <3>1. sync' = [s EXCEPT !.out = <<>>] /\ fed' = fed \o s.out
      BY <2>4, <2>6, OutputParts DEF s
    <3>2. SyncWithin(kind, at + 1, s, m)
      <4>1. SyncWalks(kind, at, sync, m)
        BY <1>2, <2>1, <2>10, SyncFollows DEF Batching, m
      <4>2. QED
        BY <4>1 DEF SyncWalks, s
    <3>3. Batches(s, m) /\ [s EXCEPT !.out = <<>>] = s
      <4>1. at + 1 \in Nat /\ at + 1 < Size(kind)
        BY <1>2
      <4>2. QED
        BY <1>2, <3>2, <4>1, SyncWithinBatches
    <3>4. s.out = <<>> /\ sync' = s
      BY <3>1, <3>3 DEF Batches
    <3>5. fed = Meant.shown /\ fed \in Seq(Bytes)
      BY <2>1, <2>10 DEF Batching, Sound, Meanings
    <3>6. fed' = fed
      BY <3>1, <3>4, <3>5, Joined
    <3>7. SyncWithin(kind', at', sync', Meant')
      BY <1>4, <1>6, <3>2, <3>4 DEF m
    <3>8. QED
      BY <1>6, <3>5, <3>6, <3>7 DEF Batching
  <2>11. Sound(Meant)'
    BY <1>6, <2>1
  <2>12. QED
    BY <1>5, <1>6, <2>1, <2>8, <2>9, <2>10, <2>11 DEF FeedInv
<1>9. QED
  BY <1>7, <1>8

\* The last byte of a unit.
LEMMA OutputWhole ==
  ASSUME FeedInv, Output, at + 1 = Size(kind)
  PROVE  FeedInv'
<1>1. UnitPlace
  BY DEF FeedInv
<1>2. kind \in DOMAIN Unit /\ at \in Nat /\ at < Size(kind) /\ kind \in Kinds /\ written \in Seq(Kinds)
  BY <1>1 DEF UnitPlace
<1>3. Whole
  BY DEF Whole, Size
<1>4. at' = 0 /\ written' = Append(written, kind) /\ kind' \in Kinds /\ cuts' = cuts
  BY <1>3, OutputParts
<1>5. kind' \in DOMAIN Unit
  BY <1>4, FeedAssumption
<1>6. UnitPlace'
  <2>1. Size(kind') \in Nat \ {0}
    BY <1>5, Sizes
  <2>2. written' \in Seq(Kinds)
    BY <1>2, <1>4
  <2>3. 0 \in Nat /\ 0 < Size(kind')
    BY <2>1
  <2>4. QED
    BY <1>1, <1>4, <1>5, <2>2, <2>3 DEF UnitPlace
<1> DEFINE m == Meant
           n == Reads(m, kind)
<1>7. Meant' = n
  <2>1. Understood(Nothing, Append(written, kind)) = Reads(Understood(Nothing, written), kind)
    BY <1>2, MeantGrows
  <2>2. QED
    BY ONLY <1>4, <2>1, MeantGrows
<1>8. CASE cuts # 0
  BY <1>4, <1>6, <1>8 DEF FeedInv
<1>9. CASE cuts = 0
  <2>1. Sound(m) /\ Responded /\ Scanning /\ (m.reopened \/ Batching)
    BY <1>9 DEF FeedInv
  <2> DEFINE b == Unit[kind][at + 1]
             s == Scanned(sync, OscOut(kind, at))
  <2>2. QueryStep(query, b) = [next |-> QueryInit, out |-> Answered(kind)]
    <3>1. QueryWalks(kind, at)
      BY <1>2, QueryFollows
    <3>2. QED
      BY <2>1, <3>1 DEF QueryWalks, Responded
  <2>3. OscWalks(kind, at, osc)
    BY <1>2, <2>1, OscFollows DEF Scanning
  <2>4. /\ OscStep(osc, b).out = OscOut(kind, at) /\ OscIs(OscStep(osc, b).next, "Normal", <<>>, <<>>)
        /\ OscStep(osc, b).acts = OscActs(kind, at)
    BY <2>3 DEF OscWalks, OscGave, OscGoes
  <2>6. Byte = b
    BY DEF Byte
  <2>7. /\ Sound(n) /\ n.reopened = (m.reopened \/ Spills(m, kind)) /\ n.answers = m.answers \o Answered(kind)
        /\ n.activity = IF kind \in DOMAIN Reports THEN <<Reports[kind]>> ELSE m.activity
    BY <1>2, <2>1, ReadsParts
  <2>9. m.answers = answers /\ m.activity = activity
    BY <2>1 DEF Responded, Scanning
  <2> HIDE DEF m, n, b, s
  <2>10. Responded'
    <3>1. query' = QueryInit /\ answers' = answers \o Answered(kind)
      <4>1. query' = QueryStep(query, b).next /\ answers' = answers \o QueryStep(query, b).out
        BY <2>6, OutputParts
      <4>2. QED
        BY ONLY <2>2, <4>1
    <3>2. QueryAt(kind', 0) = QueryInit
      BY <1>5, QueryPlaces
    <3>3. query' = QueryAt(kind', at')
      BY <1>4, <3>1, <3>2
    <3>4. answers' = Meant'.answers
      BY <1>7, <2>7, <2>9, <3>1
    <3>5. QED
      BY <3>3, <3>4 DEF Responded
  <2>11. Scanning'
    <3>1. osc' = OscStep(osc, b).next /\ activity' = IF OscActs(kind, at) = <<>> THEN activity ELSE OscActs(kind, at)
      BY <2>4, <2>6, OutputParts
    <3>2. OscWithin(kind', 0, osc')
      BY <1>5, <2>4, <3>1, OscPhases
    <3>3. activity' = n.activity
      <4>1. CASE kind \in DOMAIN Reports
        <5>1. OscActs(kind, at) = <<Reports[kind]>>
          BY <4>1 DEF OscActs
        <5>2. QED
          BY <2>7, <3>1, <4>1, <5>1
      <4>2. CASE kind \notin DOMAIN Reports
        <5>1. OscActs(kind, at) = <<>>
          BY <4>2 DEF OscActs
        <5>2. QED
          BY <2>7, <2>9, <3>1, <4>2, <5>1
      <4>3. QED
        BY <4>1, <4>2
    <3>4. QED
      BY <1>4, <1>7, <3>2, <3>3 DEF Scanning
  <2>12. ASSUME ~n.reopened PROVE Batching'
    <3>1. sync' = [s EXCEPT !.out = <<>>] /\ fed' = fed \o s.out
      BY <2>4, <2>6, OutputParts DEF s
    <3>2. Batching /\ ~Spills(m, kind)
      BY <2>1, <2>7, <2>12
    <3>3. SyncOver(s, m, n)
      <4>1. SyncWalks(kind, at, sync, m)
        BY <1>2, <2>1, <3>2, SyncFollows DEF Batching, m
      <4>2. QED
        BY <3>2, <4>1 DEF SyncWalks, s, n
    <3>4. SyncIs([s EXCEPT !.out = <<>>], "Ground", <<>>, n) /\ n.shown = m.shown \o s.out
      BY <3>3, SyncGiven
    <3>5. SyncIs(sync', "Ground", <<>>, n)
      BY <3>1, <3>4
    <3>6. SyncWithin(kind', 0, sync', n)
      BY <1>5, <3>5, SyncPhases
    <3>7. m.shown = fed
      BY <3>2 DEF Batching, m
    <3>8. fed' = n.shown
      BY <3>1, <3>4, <3>7
    <3>9. QED
      BY <1>4, <1>7, <3>6, <3>8 DEF Batching
  <2>13. Sound(Meant)'
    BY <1>7, <2>7
  <2>14. QED
    BY <1>6, <1>7, <2>10, <2>11, <2>12, <2>13 DEF FeedInv
<1>10. QED
  BY <1>8, <1>9

\* Nothing but Output and Cut touches what the invariant is about.
LEMMA FeedUntouched ==
  ASSUME FeedInv, UNCHANGED <<written, kind, at, cuts, osc, sync, query, activity, answers, fed>>
  PROVE  FeedInv'
<1>1. Meant' = Meant
  BY ONLY UNCHANGED <<written, kind, at, cuts, osc, sync, query, activity, answers, fed>>, MeantGrows
<1>2. UnitPlace'
  BY DEF FeedInv, UnitPlace, Size
<1>3. ASSUME cuts = 0 PROVE Sound(Meant)' /\ Responded' /\ Scanning' /\ (Meant'.reopened \/ Batching')
  <2>1. Sound(Meant) /\ Responded /\ Scanning /\ (Meant.reopened \/ Batching)
    BY <1>3 DEF FeedInv
  <2>2. Sound(Meant)'
    BY <1>1, <2>1
  <2>3. QueryAt(kind', at') = QueryAt(kind, at) /\ OscWithin(kind', at', osc') <=> OscWithin(kind, at, osc)
    OBVIOUS
  <2>4. Responded'
    BY <1>1, <2>1 DEF Responded
  <2>5. Scanning'
    BY <1>1, <2>1 DEF Scanning
  <2>6. Meant'.reopened \/ Batching'
    BY <1>1, <2>1 DEF Batching
  <2>7. QED
    BY <2>2, <2>4, <2>5, <2>6
<1>4. QED
  BY <1>2, <1>3 DEF FeedInv

\* A session that dropped.
LEMMA FeedCut ==
  ASSUME FeedInv, Cut
  PROVE  FeedInv'
<1>1. kind' \in Kinds /\ at' = 0 /\ cuts = 0 /\ cuts' = cuts + 1 /\ written' = written
  BY DEF Cut
<1>2. kind' \in DOMAIN Unit
  BY <1>1, FeedAssumption
<1>3. Size(kind') \in Nat \ {0}
  BY <1>2, Sizes
<1>4. 0 \in Nat /\ 0 < Size(kind') /\ cuts' \in Nat /\ cuts' # 0
  BY <1>1, <1>3
<1>5. UnitPlace'
  BY <1>1, <1>2, <1>4 DEF FeedInv, UnitPlace
<1>6. QED
  BY <1>4, <1>5 DEF FeedInv

\* Every step keeps the invariant.
LEMMA FeedInductive == FeedInv /\ [FeedNext]_feedVars => FeedInv'
<1> SUFFICES ASSUME FeedInv, [FeedNext]_feedVars PROVE FeedInv'
  OBVIOUS
<1>1. CASE Output
  BY <1>1, OutputWithin, OutputWhole
<1>2. CASE Cut
  BY <1>2, FeedCut
<1>3. CASE Scroll
  BY <1>3, FeedUntouched DEF Scroll
<1>4. CASE Paint
  BY <1>4, FeedUntouched DEF Paint
<1>5. CASE Drag
  BY <1>5, FeedUntouched DEF Drag
<1>6. CASE Release
  BY <1>6, FeedUntouched DEF Release
<1>7. CASE UNCHANGED feedVars
  BY <1>7, FeedUntouched DEF feedVars
<1>8. QED
  BY <1>1, <1>2, <1>3, <1>4, <1>5, <1>6, <1>7 DEF FeedNext

\* Between any two bytes, the three automata are where the units written so far
\* leave them, and the pane has what those units mean.
THEOREM FeedInvariant == FeedSpec => []FeedInv
BY FeedStarts, FeedInductive, PTL DEF FeedSpec

\* Wherever chunks end, the activity is the last status that parsed, and until
\* a batch that holds something is begun once more the emulator was fed what the
\* units written whole show, where a batch releases all it was given (osc.rs and
\* sync.rs, process; Pane::feed): for any units of the sixteen, any number of
\* them, in any order, and any size of a batch.
THEOREM WholeFrames == FeedSpec => []ShowsWholeFrames
<1>1. FeedInv => ShowsWholeFrames
  BY DEF FeedInv, Scanning, Batching, ShowsWholeFrames
<1>2. QED
  BY <1>1, FeedInvariant, PTL

\* Every query written whole was answered once, in order, and nothing else was
\* (query.rs, process), for any list of units.
THEOREM QueriesAnswered == FeedSpec => []EveryQueryAnswered
<1>1. FeedInv => EveryQueryAnswered
  BY DEF FeedInv, Responded, EveryQueryAnswered
<1>2. QED
  BY <1>1, FeedInvariant, PTL

\* The cached grid is the emulator's at the user's scroll position, or marked
\* stale (Pane::feed, scroll, resize and paint_grid), however much is written.
THEOREM CurrentPaint == FeedSpec => []PaintIsCurrent
<1>1. FeedInit => PaintIsCurrent
  BY DEF FeedInit, PaintIsCurrent
<1>2. PaintIsCurrent /\ [FeedNext]_feedVars => PaintIsCurrent'
  <2> SUFFICES ASSUME PaintIsCurrent, [FeedNext]_feedVars PROVE PaintIsCurrent'
    OBVIOUS
  <2>1. CASE Output
    BY <2>1, OutputParts DEF PaintIsCurrent
  <2>2. CASE Scroll
    BY <2>2 DEF Scroll, PaintIsCurrent
  <2>3. CASE Paint
    BY <2>3 DEF Paint, PaintIsCurrent
  <2>4. CASE UNCHANGED <<fed, scroll, grid_cache>>
    BY <2>4 DEF PaintIsCurrent
  <2>5. QED
    BY <2>1, <2>2, <2>3, <2>4 DEF FeedNext, Cut, Drag, Release, feedVars
<1>3. QED
  BY <1>1, <1>2, PTL DEF FeedSpec

\* A selection, and the cells it is about.
Selections == [grid : [1..Rows -> GridRows], drawn : [1..Rows -> GridRows],
               start : Cells, end : Cells, cursor : SUBSET Cells]

\* What is drawn is what the emulator has, unless that is marked stale.
SelectionInv ==
  selection = <<>> \/ \E s \in Selections : selection = <<s>> /\ (grid_cache # <<>> => s.drawn = s.grid)

\* A drag selects, and extends, between cells of its grid; output marks stale
\* what is drawn, and Paint draws it anew.
LEMMA SelectionInductive == SelectionInv /\ [FeedNext]_feedVars => SelectionInv'
<1> SUFFICES ASSUME SelectionInv, [FeedNext]_feedVars PROVE SelectionInv'
  OBVIOUS
<1> DEFINE New(grid, start, end, cursor) == [grid |-> grid, drawn |-> grid, start |-> start, end |-> end, cursor |-> cursor]
<1>1. CASE Drag /\ selection = <<>>
  <2>1. PICK end \in Cells, grid \in [1..Rows -> GridRows], start \in Cells :
          \E cursor \in {{}, {start}} : selection' = <<New(grid, start, end, cursor)>>
    BY <1>1 DEF Drag
  <2>2. PICK cursor \in {{}, {start}} : selection' = <<New(grid, start, end, cursor)>>
    BY <2>1
  <2> DEFINE n == New(grid, start, end, cursor)
  <2>3. n \in Selections /\ n.drawn = n.grid
    BY DEF Selections
  <2> HIDE DEF n
  <2>4. QED
    BY <2>2, <2>3 DEF SelectionInv, n
<1>2. CASE Drag /\ selection # <<>>
  <2>1. PICK s \in Selections : selection = <<s>> /\ (grid_cache # <<>> => s.drawn = s.grid)
    BY <1>2 DEF SelectionInv
  <2>2. PICK end \in Cells : selection' = <<[s EXCEPT !.end = end]>>
    BY <1>2, <2>1 DEF Drag
  <2> DEFINE n == [s EXCEPT !.end = end]
  <2>3. n \in Selections /\ n.drawn = s.drawn /\ n.grid = s.grid
    BY DEF Selections
  <2>4. grid_cache' = grid_cache
    BY <1>2 DEF Drag
  <2> HIDE DEF n
  <2>5. QED
    BY <2>1, <2>2, <2>3, <2>4 DEF SelectionInv, n
<1>3. CASE Release
  BY <1>3 DEF Release, SelectionInv
<1>4. CASE UNCHANGED <<selection, grid_cache>>
  BY <1>4 DEF SelectionInv
<1>5. CASE Output
  <2>1. grid_cache' = <<>>
    BY <1>5, OutputParts
  <2>2. CASE selection' = selection
    BY <2>1, <2>2 DEF SelectionInv
  <2>3. CASE selection' # selection
    <3>1. PICK r \in 1..Rows, row \in GridRows : selection # <<>> /\ selection' = <<[selection[1] EXCEPT !.grid[r] = row]>>
      BY <1>5, <2>3 DEF Output, Redraws
    <3>2. PICK s \in Selections : selection = <<s>>
      BY <3>1 DEF SelectionInv
    <3>3. [s EXCEPT !.grid[r] = row] \in Selections
      BY DEF Selections
    <3>4. selection' = <<[s EXCEPT !.grid[r] = row]>>
      BY <3>1, <3>2
    <3>5. QED
      BY <2>1, <3>3, <3>4 DEF SelectionInv
  <2>4. QED
    BY <2>2, <2>3
<1>6. CASE Paint
  <2>1. selection' = [i \in DOMAIN selection |-> [selection[i] EXCEPT !.drawn = selection[i].grid]]
    BY <1>6 DEF Paint
  <2>2. CASE selection = <<>>
    <3>1. selection' = <<>>
      BY <2>1, <2>2
    <3>2. QED
      BY <3>1 DEF SelectionInv
  <2>3. CASE selection # <<>>
    <3>1. PICK s \in Selections : selection = <<s>>
      BY <2>3 DEF SelectionInv
    <3> DEFINE n == [s EXCEPT !.drawn = s.grid]
    <3>2. n \in Selections /\ n.drawn = n.grid
      BY DEF Selections
    <3> HIDE DEF n
    <3>3. selection' = <<n>>
      BY <2>1, <3>1 DEF n
    <3>4. QED
      BY <3>2, <3>3 DEF SelectionInv
  <2>4. QED
    BY <2>2, <2>3
<1>7. CASE Cut \/ Scroll
  BY <1>7 DEF Cut, Scroll, SelectionInv
<1>8. QED
  BY <1>1, <1>2, <1>3, <1>4, <1>5, <1>6, <1>7 DEF FeedNext, feedVars

\* Row by row, selected_text takes what paint_grid draws as selected.
LEMMA CopiedIffSelected ==
  ASSUME NEW s \in Selections, NEW p \in Contents(s)
  PROVE  p \in Copied(s) <=> InSelection(p, s)
<1> DEFINE f == From(s)
           u == Until(s)
<1>1. p \in Cells /\ Rows \in Nat /\ Cols \in Nat
  BY FeedAssumption DEF Contents
<1>2. f \in Cells /\ u \in Cells
  BY DEF Selections, From, Until
<1> HIDE DEF f, u
<1>3. p[1] \in 1..Rows /\ p[2] \in 1..Cols /\ f[1] \in 1..Rows /\ f[2] \in 1..Cols /\ u[1] \in 1..Rows /\ u[2] \in 1..Cols
  BY <1>1, <1>2 DEF Cells
<1>4. p \in Copied(s) <=> /\ p[1] \in f[1]..u[1]
                          /\ p[2] \in (IF p[1] = f[1] THEN f[2] ELSE 1)..(IF p[1] = u[1] THEN u[2] ELSE Cols)
  BY DEF Copied, f, u
<1>5. InSelection(p, s) <=> /\ p[1] \in f[1]..u[1]
                            /\ CASE p[1] = f[1] /\ p[1] = u[1] -> p[2] >= f[2] /\ p[2] <= u[2]
                                 [] p[1] = f[1] /\ p[1] # u[1] -> p[2] >= f[2]
                                 [] p[1] # f[1] /\ p[1] = u[1] -> p[2] <= u[2]
                                 [] OTHER -> TRUE
  BY DEF InSelection, f, u
<1>6. CASE p[1] = f[1] /\ p[1] = u[1]
  BY <1>1, <1>3, <1>4, <1>5, <1>6
<1>7. CASE p[1] = f[1] /\ p[1] # u[1]
  BY <1>1, <1>3, <1>4, <1>5, <1>7
<1>8. CASE p[1] # f[1] /\ p[1] = u[1]
  BY <1>1, <1>3, <1>4, <1>5, <1>8
<1>9. CASE p[1] # f[1] /\ p[1] # u[1]
  BY <1>1, <1>3, <1>4, <1>5, <1>9
<1>10. QED
  BY <1>6, <1>7, <1>8, <1>9

\* On a grid of any size and content, with wide characters, and for a drag in
\* either direction, selected_text copies what paint_grid draws as selected,
\* whenever what is drawn is what the emulator has.
THEOREM HighlightIsCopied == FeedSpec => []CopiedIsHighlighted
<1>1. FeedInit => SelectionInv
  BY DEF FeedInit, SelectionInv
<1>2. SelectionInv => CopiedIsHighlighted
  <2> SUFFICES ASSUME SelectionInv, grid_cache # <<>>, NEW i \in DOMAIN selection, NEW p \in Contents(selection[i])
               PROVE  p \in Copied(selection[i]) <=> (p \in Reversed(selection[i])) # (p \in CursorCell(selection[i]))
    BY DEF CopiedIsHighlighted
  <2>1. selection[i] \in Selections /\ selection[i].drawn = selection[i].grid
    BY DEF SelectionInv
  <2> DEFINE s == selection[i]
  <2>2. p \in Copied(s) <=> InSelection(p, s)
    BY <2>1, CopiedIffSelected
  <2>3. p \in Painted(s)
    BY <2>1 DEF Contents, Painted
  <2>4. (p \in Reversed(s)) <=> (InSelection(p, s) <=> p \notin CursorCell(s))
    BY <2>3 DEF Reversed
  <2>5. QED
    BY <2>2, <2>4
<1>3. QED
  BY <1>1, <1>2, SelectionInductive, PTL DEF FeedSpec

=============================================================================
