------------------------------ MODULE ListLemmas ------------------------------
(***************************************************************************)
(* Lemmas that do not depend on the program: sequences in which an element *)
(* is inserted, removed or replaced, induction on natural numbers, and     *)
(* loops as functions of the number of their rounds.                       *)
(***************************************************************************)
EXTENDS Integers, SequencesExt, WellFoundedInduction, TLAPS

-----------------------------------------------------------------------------
(* Sequences.                                                              *)

LEMMA InsertElements ==
  ASSUME NEW S, NEW list \in Seq(S), NEW i \in 1 .. Len(list) + 1, NEW x \in S
  PROVE  /\ InsertAt(list, i, x) \in Seq(S)
         /\ Len(InsertAt(list, i, x)) = Len(list) + 1
         /\ \A k \in 1 .. Len(list) + 1 :
              InsertAt(list, i, x)[k] = IF k < i THEN list[k]
                                        ELSE IF k = i THEN x ELSE list[k - 1]
<1> DEFINE front == SubSeq(list, 1, i - 1)
           back  == SubSeq(list, i, Len(list))
<1>1. /\ front \in Seq(S) /\ Len(front) = i - 1
      /\ \A k \in 1 .. i - 1 : front[k] = list[k]
  OBVIOUS
<1>2. /\ back \in Seq(S) /\ Len(back) = Len(list) - i + 1
      /\ \A k \in 1 .. Len(list) - i + 1 : back[k] = list[k + i - 1]
  OBVIOUS
<1> HIDE DEF front, back
<1>3. InsertAt(list, i, x) = (front \o <<x>>) \o back
  BY DEF InsertAt, front, back
<1>4. /\ front \o <<x>> \in Seq(S) /\ Len(front \o <<x>>) = i
      /\ (front \o <<x>>)[i] = x
      /\ \A k \in 1 .. i - 1 : (front \o <<x>>)[k] = list[k]
  BY <1>1
<1> DEFINE head == front \o <<x>>
<1> HIDE DEF head
<1>5. /\ head \o back \in Seq(S) /\ Len(head \o back) = Len(list) + 1
      /\ \A k \in 1 .. i : (head \o back)[k] = head[k]
      /\ \A k \in i + 1 .. Len(list) + 1 : (head \o back)[k] = back[k - i]
  <2>1. head \in Seq(S) /\ Len(head) = i
    BY <1>4 DEF head
  <2> QED
    BY <1>2, <2>1
<1>6. \A k \in 1 .. i : (head \o back)[k] = IF k < i THEN list[k] ELSE x
  BY <1>4, <1>5 DEF head
<1>8. \A k \in i + 1 .. Len(list) + 1 : (head \o back)[k] = list[k - 1]
  <2>1. ASSUME NEW k \in i + 1 .. Len(list) + 1
        PROVE  k - i \in 1 .. Len(list) - i + 1 /\ k - i + i - 1 = k - 1
    OBVIOUS
  <2>2. ASSUME NEW k \in i + 1 .. Len(list) + 1
        PROVE  back[k - i] = list[k - 1]
    BY <1>2, <2>1
  <2> QED
    BY <1>5, <2>2
<1>7. InsertAt(list, i, x) = head \o back
  BY <1>3 DEF head
<1>9. /\ InsertAt(list, i, x) \in Seq(S) /\ Len(InsertAt(list, i, x)) = Len(list) + 1
      /\ \A k \in 1 .. i : InsertAt(list, i, x)[k] = IF k < i THEN list[k] ELSE x
      /\ \A k \in i + 1 .. Len(list) + 1 : InsertAt(list, i, x)[k] = list[k - 1]
  BY <1>5, <1>6, <1>7, <1>8
<1>10. \A k \in 1 .. Len(list) + 1 : k \in 1 .. i \/ (k \in i + 1 .. Len(list) + 1 /\ k > i)
  OBVIOUS
<1> QED
  BY <1>9, <1>10

LEMMA RemoveElements ==
  ASSUME NEW S, NEW list \in Seq(S), NEW i \in 1 .. Len(list)
  PROVE  /\ RemoveAt(list, i) \in Seq(S)
         /\ Len(RemoveAt(list, i)) = Len(list) - 1
         /\ \A k \in 1 .. Len(list) - 1 :
              RemoveAt(list, i)[k] = IF k < i THEN list[k] ELSE list[k + 1]
<1> DEFINE front == SubSeq(list, 1, i - 1)
           back  == SubSeq(list, i + 1, Len(list))
<1>1. /\ front \in Seq(S) /\ Len(front) = i - 1
      /\ \A k \in 1 .. i - 1 : front[k] = list[k]
  OBVIOUS
<1>2. /\ back \in Seq(S) /\ Len(back) = Len(list) - i
      /\ \A k \in 1 .. Len(list) - i : back[k] = list[k + i]
  OBVIOUS
<1> HIDE DEF front, back
<1>3. RemoveAt(list, i) = front \o back
  BY DEF RemoveAt, front, back
<1>4. /\ front \o back \in Seq(S) /\ Len(front \o back) = Len(list) - 1
      /\ \A k \in 1 .. i - 1 : (front \o back)[k] = front[k]
      /\ \A k \in i .. Len(list) - 1 : (front \o back)[k] = back[k - (i - 1)]
  <2>1. front \in Seq(S) /\ back \in Seq(S) /\ Len(front) = i - 1 /\ Len(back) = Len(list) - i
    BY <1>1, <1>2
  <2>2. front \o back \in Seq(S) /\ Len(front \o back) = Len(list) - 1
    BY <2>1
  <2>3. ASSUME NEW k \in 1 .. i - 1 PROVE (front \o back)[k] = front[k]
    BY <2>1
  <2>4. ASSUME NEW k \in i .. Len(list) - 1
        PROVE  (front \o back)[k] = back[k - (i - 1)]
    BY <2>1
  <2> QED
    BY <2>2, <2>3, <2>4
<1>5. \A k \in 1 .. Len(list) - 1 :
        \/ k \in 1 .. i - 1 /\ k < i
        \/ k \in i .. Len(list) - 1 /\ ~(k < i) /\ k - (i - 1) \in 1 .. Len(list) - i
  OBVIOUS
<1>6. \A k \in i .. Len(list) - 1 : back[k - (i - 1)] = list[k + 1]
  <2>1. ASSUME NEW k \in i .. Len(list) - 1
        PROVE  k - (i - 1) \in 1 .. Len(list) - i /\ k - (i - 1) + i = k + 1
    OBVIOUS
  <2> QED
    BY <1>2, <2>1
<1>7. /\ \A k \in 1 .. i - 1 : RemoveAt(list, i)[k] = list[k]
      /\ \A k \in i .. Len(list) - 1 : RemoveAt(list, i)[k] = list[k + 1]
  BY <1>1, <1>3, <1>4, <1>6
<1> QED
  BY <1>3, <1>4, <1>5, <1>7
-----------------------------------------------------------------------------
(* Induction.                                                              *)

(* A set of natural numbers that is not empty has a least one.             *)
LEMMA LeastNumber ==
  ASSUME NEW T, T \subseteq Nat, T # {}
  PROVE  \E x \in T : \A y \in T : ~(y < x)
<1> DEFINE R == {pair \in Nat \X Nat : pair[1] < pair[2]}
<1>1. IsWellFoundedOn(R, Nat)
  BY NatLessThanWellFounded DEF OpToRel
<1> HIDE DEF R
<1>2. PICK x \in T : \A y \in T : <<y, x>> \notin R
  BY <1>1, WFMin
<1>3. \A y \in T : y < x => <<y, x>> \in R
  BY DEF R
<1> QED
  BY <1>2, <1>3

(* A set that has 0 and with a number its successor has all numbers.       *)
LEMMA SetInduction ==
  ASSUME NEW S, 0 \in S, \A n \in Nat : n \in S => n + 1 \in S
  PROVE  Nat \subseteq S
<1> DEFINE T == Nat \ S
<1>1. CASE T # {}
  <2>1. PICK x \in T : \A y \in T : ~(y < x)
    <3> HIDE DEF T
    <3>1. T \subseteq Nat
      BY DEF T
    <3> QED
      BY <1>1, <3>1, LeastNumber
  <2>2. x \in Nat /\ x # 0 /\ x - 1 \in Nat
    BY <2>1
  <2>3. x - 1 \in S
    BY <2>1, <2>2
  <2>4. x - 1 + 1 = x
    BY <2>2
  <2> QED
    BY <2>1, <2>2, <2>3, <2>4
<1> QED
  BY <1>1

(* A loop that applies W[n] in round n is the function it says.            *)
IsLoop(f, start, W, N) ==
  f = [n \in 0 .. N |-> IF n = 0 THEN start ELSE W[n][f[n - 1]]]

(* A loop that does the same in each round.                                *)
IsPlainLoop(f, start, W, N) ==
  f = [n \in 0 .. N |-> IF n = 0 THEN start ELSE W[f[n - 1]]]

LEMMA PlainLoop ==
  ASSUME NEW start, NEW W, NEW N \in Nat, NEW f
  PROVE  IsLoop(f, start, [k \in Nat |-> W], N) <=> IsPlainLoop(f, start, W, N)
<1> DEFINE Round == [k \in Nat |-> W]
<1>1. \A k \in 0 .. N : Round[k] = W
  OBVIOUS
<1> HIDE DEF Round
<1>2. [n \in 0 .. N |-> IF n = 0 THEN start ELSE Round[n][f[n - 1]]]
        = [n \in 0 .. N |-> IF n = 0 THEN start ELSE W[f[n - 1]]]
  BY <1>1
<1>3. IsLoop(f, start, Round, N) <=> IsPlainLoop(f, start, W, N)
  BY <1>2 DEF IsLoop, IsPlainLoop
<1> QED
  BY <1>3 DEF Round

(* The rounds of a loop, one after the other.                              *)
AreRounds(f, start, W, N) ==
  /\ f[0] = start
  /\ \A n \in 0 .. N - 1 : f[n + 1] = W[n + 1][f[n]]

LEMMA LoopRounds ==
  ASSUME NEW start, NEW W, NEW N \in Nat, NEW f, IsLoop(f, start, W, N)
  PROVE  AreRounds(f, start, W, N)
<1>1. 0 \in 0 .. N
  OBVIOUS
<1>2. f[0] = start
  BY <1>1 DEF IsLoop
<1>3. ASSUME NEW n \in 0 .. N - 1 PROVE f[n + 1] = W[n + 1][f[n]]
  <2>1. n + 1 \in 0 .. N /\ n + 1 # 0 /\ n + 1 - 1 = n
    OBVIOUS
  <2> QED
    BY <2>1 DEF IsLoop
<1> QED
  BY <1>2, <1>3 DEF AreRounds

LEMMA LoopExists ==
  ASSUME NEW start, NEW W, NEW N \in Nat
  PROVE  \E f : IsLoop(f, start, W, N)
<1> DEFINE S == {n \in Nat : \E f : IsLoop(f, start, W, n)}
<1>1. 0 \in S
  <2>1. IsLoop([n \in 0 .. 0 |-> start], start, W, 0)
    BY DEF IsLoop
  <2> QED
    BY <2>1
<1>2. ASSUME NEW n \in Nat, n \in S PROVE n + 1 \in S
  <2>1. PICK f : IsLoop(f, start, W, n)
    BY <1>2
  <2> DEFINE g == [m \in 0 .. n + 1 |-> IF m = n + 1 THEN W[n + 1][f[n]] ELSE f[m]]
  <2>2. ASSUME NEW m \in 0 .. n + 1
        PROVE  g[m] = IF m = 0 THEN start ELSE W[m][g[m - 1]]
    <3>1. CASE m = 0
      <4>1. g[m] = f[0] /\ 0 \in 0 .. n
        BY <3>1
      <4> QED
        BY <2>1, <3>1, <4>1 DEF IsLoop
    <3>2. CASE m = n + 1
      <4>1. m - 1 = n /\ m - 1 \in 0 .. n + 1 /\ m - 1 # n + 1 /\ m # 0
        BY <3>2
      <4>2. g[m - 1] = f[n]
        BY <4>1
      <4> QED
        BY <3>2, <4>1, <4>2
    <3>3. CASE m \in 1 .. n
      <4>1. g[m] = f[m] /\ g[m - 1] = f[m - 1]
        BY <3>3
      <4>2. \A l \in 0 .. n - 1 : f[l + 1] = W[l + 1][f[l]]
        BY <2>1, LoopRounds DEF AreRounds
      <4>3. m - 1 \in 0 .. n - 1 /\ m - 1 + 1 = m
        BY <3>3
      <4>4. f[m] = W[m][f[m - 1]]
        BY <4>2, <4>3
      <4> QED
        BY <3>3, <4>1, <4>4
    <3> QED
      BY <3>1, <3>2, <3>3
  <2>3. g = [m \in 0 .. n + 1 |-> IF m = 0 THEN start ELSE W[m][g[m - 1]]]
    <3>1. g = [m \in 0 .. n + 1 |-> g[m]]
      OBVIOUS
    <3> HIDE DEF g
    <3> QED
      BY <2>2, <3>1
  <2>4. IsLoop(g, start, W, n + 1)
    BY <2>3 DEF IsLoop
  <2> QED
    BY <2>4
<1>3. Nat \subseteq S
  <2> HIDE DEF S
  <2> QED
    BY <1>1, <1>2, SetInduction
<1> QED
  BY <1>3

(* So a recursive function that is chosen is that loop.                    *)
LEMMA LoopChosen ==
  ASSUME NEW start, NEW W, NEW N \in Nat, NEW f,
         f = CHOOSE g : g = [n \in 0 .. N |-> IF n = 0 THEN start ELSE W[g[n - 1]]]
  PROVE  IsLoop(f, start, [k \in Nat |-> W], N)
<1>1. PICK g : IsPlainLoop(g, start, W, N)
  BY LoopExists, PlainLoop
<1>2. f = CHOOSE h : IsPlainLoop(h, start, W, N)
  BY DEF IsPlainLoop
<1>3. IsPlainLoop(f, start, W, N)
  BY <1>1, <1>2
<1> QED
  BY <1>3, PlainLoop

(* What holds at the start and is kept by a round holds at the end: I[n]   *)
(* is what the loop may have after n rounds.                               *)
LEMMA LoopKeeps ==
  ASSUME NEW start, NEW W, NEW N \in Nat, NEW f, IsLoop(f, start, W, N),
         NEW I, start \in I[0],
         \A n \in 0 .. N - 1 : \A x \in I[n] : W[n + 1][x] \in I[n + 1]
  PROVE  f[N] \in I[N]
<1> DEFINE S == {n \in Nat : n <= N => f[n] \in I[n]}
<1>0. f[0] = start /\ \A n \in 0 .. N - 1 : f[n + 1] = W[n + 1][f[n]]
  BY LoopRounds DEF AreRounds
<1>1. 0 \in S
  BY <1>0
<1>2. ASSUME NEW n \in Nat, n \in S PROVE n + 1 \in S
  <2>1. CASE n + 1 <= N
    <3>1. n \in 0 .. N - 1 /\ f[n] \in I[n]
      BY <1>2, <2>1
    <3> QED
      BY <1>0, <3>1
  <2> QED
    BY <2>1
<1>3. Nat \subseteq S
  <2> HIDE DEF S
  <2> QED
    BY <1>1, <1>2, SetInduction
<1> QED
  BY <1>3

(* The rounds of a loop stay in a set that they are closed on.             *)
LEMMA TypedLoop ==
  ASSUME NEW N \in Nat, NEW D, NEW start \in D, NEW W,
         \A n \in 1 .. N : \A x \in D : W[n][x] \in D
  PROVE  \E f : f \in [0 .. N -> D] /\ IsLoop(f, start, W, N)
<1>1. PICK f : IsLoop(f, start, W, N)
  BY LoopExists
<1> DEFINE S == {n \in Nat : n <= N => f[n] \in D}
<1>2. f[0] = start /\ \A n \in 0 .. N - 1 : f[n + 1] = W[n + 1][f[n]]
  BY <1>1, LoopRounds DEF AreRounds
<1>3. 0 \in S
  BY <1>2
<1>4. ASSUME NEW n \in Nat, n \in S PROVE n + 1 \in S
  <2>1. CASE n + 1 <= N
    <3>1. n \in 0 .. N - 1 /\ n + 1 \in 1 .. N /\ f[n] \in D
      BY <1>4, <2>1
    <3> QED
      BY <1>2, <3>1
  <2> QED
    BY <2>1
<1>5. Nat \subseteq S
  <2> HIDE DEF S
  <2> QED
    BY <1>3, <1>4, SetInduction
<1>6. f \in [0 .. N -> D]
  <2>1. \A n \in 0 .. N : f[n] \in D
    BY <1>5
  <2>2. \E g : f = [n \in 0 .. N |-> g[n]]
    <3>1. f = [n \in 0 .. N |->
                 [m \in 0 .. N |-> IF m = 0 THEN start ELSE W[m][f[m - 1]]][n]]
      BY <1>1 DEF IsLoop
    <3> QED
      BY <3>1
  <2> QED
    BY <2>1, <2>2
<1> QED
  BY <1>1, <1>6

(* What holds before the first round and is kept by a round holds after    *)
(* the last one.                                                           *)
LEMMA RoundsKeep ==
  ASSUME NEW N \in Nat, NEW f, NEW I, f[0] \in I[0],
         \A n \in 0 .. N - 1 : f[n] \in I[n] => f[n + 1] \in I[n + 1]
  PROVE  f[N] \in I[N]
<1> DEFINE S == {n \in Nat : n <= N => f[n] \in I[n]}
<1>1. 0 \in S
  OBVIOUS
<1>2. ASSUME NEW n \in Nat, n \in S PROVE n + 1 \in S
  <2>1. CASE n + 1 <= N
    <3>1. n \in 0 .. N - 1 /\ f[n] \in I[n]
      BY <1>2, <2>1
    <3> QED
      BY <3>1
  <2> QED
    BY <2>1
<1>3. Nat \subseteq S
  <2> HIDE DEF S
  <2> QED
    BY <1>1, <1>2, SetInduction
<1> QED
  BY <1>3
=============================================================================
