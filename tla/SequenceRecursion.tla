------------------------- MODULE SequenceRecursion -------------------------
(***************************************************************************)
(* Induction over the natural numbers, and functions defined by recursion  *)
(* along a sequence.  The library states both with operators; they are     *)
(* stated here with sets and functions, so that their instances are        *)
(* first-order.                                                            *)
(***************************************************************************)
EXTENDS Naturals, Sequences, WellFoundedInduction, TLAPS

(* A set that has 0 and, with a number, the next one has all numbers. *)
LEMMA Induction ==
  ASSUME NEW S, 0 \in S, \A n \in Nat : n \in S => n + 1 \in S
  PROVE  Nat \subseteq S
<1> SUFFICES ASSUME ~ (Nat \subseteq S) PROVE FALSE
  OBVIOUS
<1> DEFINE Rest == Nat \ S
           Less == {p \in Nat \X Nat : p[1] < p[2]}
<1>1. IsWellFoundedOn(Less, Nat)
  BY NatLessThanWellFounded DEF OpToRel
<1>2. Rest \subseteq Nat /\ Rest # {}
  OBVIOUS
<1>3. PICK x \in Rest : \A y \in Rest : ~ (<<y, x>> \in Less)
  <2> HIDE DEF Rest, Less
  <2> QED
    BY <1>1, <1>2, WFMin
<1>4. \A y \in Rest : ~ (y < x)
  BY <1>3
<1>5. x # 0 /\ x - 1 \in Nat
  OBVIOUS
<1>6. x - 1 \in S
  BY <1>4, <1>5
<1>7. x \in S
  <2>1. (x - 1) + 1 \in S
    BY <1>5, <1>6
  <2> QED
    BY <1>5, <2>1
<1> QED
  BY <1>7

-----------------------------------------------------------------------------
(* f starts with a and goes on by step, along w up to its n-th element. *)
Follows(f, n, X, a, step, w) ==
  /\ f \in [0 .. n -> X] /\ f[0] = a
  /\ \A k \in 1 .. n : f[k] = step[<<f[k - 1], w[k]>>]

LEMMA FollowsExists ==
  ASSUME NEW X, NEW T, NEW a \in X, NEW step \in [X \X T -> X], NEW w \in Seq(T)
  PROVE  \A n \in 0 .. Len(w) : \E f : Follows(f, n, X, a, step, w)
<1> DEFINE S == {n \in Nat : n <= Len(w) => \E f : Follows(f, n, X, a, step, w)}
<1>0. Len(w) \in Nat /\ \A k \in 1 .. Len(w) : w[k] \in T
  OBVIOUS
<1>1. 0 \in S
  <2>1. Follows([k \in 0 .. 0 |-> a], 0, X, a, step, w)
    BY DEF Follows
  <2> QED
    BY <2>1
<1>2. ASSUME NEW n \in Nat, n \in S PROVE n + 1 \in S
  <2> SUFFICES ASSUME n + 1 <= Len(w) PROVE \E f : Follows(f, n + 1, X, a, step, w)
    OBVIOUS
  <2>1. PICK g : Follows(g, n, X, a, step, w)
    BY <1>0, <1>2
  <2> DEFINE h == [k \in 0 .. n + 1 |-> IF k = n + 1 THEN step[<<g[n], w[n + 1]>>] ELSE g[k]]
  <2>2. g \in [0 .. n -> X] /\ g[n] \in X /\ g[0] = a
    BY <2>1 DEF Follows
  <2>3. step[<<g[n], w[n + 1]>>] \in X
    BY <1>0, <2>2
  <2>4. h \in [0 .. n + 1 -> X] /\ h[0] = a
    BY <2>2, <2>3
  <2>5. ASSUME NEW k \in 1 .. n + 1 PROVE h[k] = step[<<h[k - 1], w[k]>>]
    <3>1. h[k - 1] = g[k - 1] /\ k - 1 \in 0 .. n
      OBVIOUS
    <3>2. CASE k = n + 1
      <4>1. h[k] = step[<<g[n], w[n + 1]>>] /\ h[k - 1] = g[n]
        BY <3>1, <3>2
      <4> HIDE DEF h
      <4> QED
        BY <3>2, <4>1
    <3>3. CASE k \in 1 .. n
      <4>1. h[k] = g[k]
        BY <3>3
      <4> QED
        BY <2>1, <3>1, <3>3, <4>1 DEF Follows
    <3> QED
      BY <3>2, <3>3
  <2> HIDE DEF h
  <2> QED
    BY <2>4, <2>5 DEF Follows
<1> HIDE DEF S
<1>3. Nat \subseteq S
  BY <1>1, <1>2, Induction
<1> QED
  BY <1>0, <1>3 DEF S

(* A recursive definition along w stands for a function that satisfies its  *)
(* equation.  There is one, and what satisfies the equation, as far as it   *)
(* stays in X, follows step to the end.                                     *)
Recurs(f, X, a, step, w) ==
  /\ f \in [0 .. Len(w) -> X]
  /\ f = [n \in 0 .. Len(w) |-> IF n = 0 THEN a ELSE step[<<f[n - 1], w[n]>>]]

LEMMA RecursionExists ==
  ASSUME NEW X, NEW T, NEW a \in X, NEW step \in [X \X T -> X], NEW w \in Seq(T)
  PROVE  \E f : Recurs(f, X, a, step, w)
<1>0. Len(w) \in Nat /\ Len(w) \in 0 .. Len(w)
  OBVIOUS
<1>1. PICK f : Follows(f, Len(w), X, a, step, w)
  BY <1>0, FollowsExists
<1>2. f \in [0 .. Len(w) -> X]
  BY <1>1 DEF Follows
<1>3. \A n \in 0 .. Len(w) : f[n] = IF n = 0 THEN a ELSE step[<<f[n - 1], w[n]>>]
  BY <1>0, <1>1 DEF Follows
<1> QED
  BY <1>2, <1>3 DEF Recurs

LEMMA RecursionFollows ==
  ASSUME NEW X, NEW T, NEW a \in X, NEW step \in [X \X T -> X], NEW w \in Seq(T), NEW f,
         f = [n \in 0 .. Len(w) |-> f[n]], f[0] = a,
         \A k \in 1 .. Len(w) : f[k - 1] \in X => f[k] = step[<<f[k - 1], w[k]>>]
  PROVE  Follows(f, Len(w), X, a, step, w)
<1> DEFINE S == {k \in Nat : k <= Len(w) => f[k] \in X}
<1>0. Len(w) \in Nat /\ \A k \in 1 .. Len(w) : w[k] \in T
  OBVIOUS
<1>1. 0 \in S
  OBVIOUS
<1>2. ASSUME NEW k \in Nat, k \in S PROVE k + 1 \in S
  <2> SUFFICES ASSUME k + 1 <= Len(w) PROVE f[k + 1] \in X
    OBVIOUS
  <2>1. f[k] \in X /\ k + 1 \in 1 .. Len(w) /\ (k + 1) - 1 = k
    BY <1>0, <1>2
  <2>2. f[k + 1] = step[<<f[k], w[k + 1]>>]
    BY <2>1
  <2> QED
    BY <1>0, <2>1, <2>2
<1> HIDE DEF S
<1>3. Nat \subseteq S
  BY <1>1, <1>2, Induction
<1>4. \A k \in 0 .. Len(w) : f[k] \in X
  BY <1>0, <1>3 DEF S
<1>5. \A k \in 1 .. Len(w) : k - 1 \in 0 .. Len(w)
  BY <1>0
<1>6. f \in [0 .. Len(w) -> X]
  BY <1>4
<1> QED
  BY <1>4, <1>5, <1>6 DEF Follows

(* Two of them have the same value as long as the sequences are the same. *)
LEMMA FollowsAgree ==
  ASSUME NEW X, NEW a, NEW step, NEW n \in Nat, NEW m \in Nat, NEW f, NEW g, NEW v, NEW w,
         Follows(f, n, X, a, step, v), Follows(g, m, X, a, step, w),
         NEW l \in Nat, l <= n, l <= m, \A k \in 1 .. l : v[k] = w[k]
  PROVE  f[l] = g[l]
<1> DEFINE S == {k \in Nat : k <= l => f[k] = g[k]}
<1>1. 0 \in S
  BY DEF Follows
<1>2. ASSUME NEW k \in Nat, k \in S PROVE k + 1 \in S
  <2> SUFFICES ASSUME k + 1 <= l PROVE f[k + 1] = g[k + 1]
    OBVIOUS
  <2>1. f[k] = g[k] /\ v[k + 1] = w[k + 1]
    BY <1>2
  <2>2. k + 1 \in 1 .. n /\ k + 1 \in 1 .. m /\ (k + 1) - 1 = k
    OBVIOUS
  <2>3. f[k + 1] = step[<<f[k], v[k + 1]>>] /\ g[k + 1] = step[<<g[k], w[k + 1]>>]
    BY <2>2 DEF Follows
  <2> QED
    BY <2>1, <2>3
<1> HIDE DEF S
<1>3. Nat \subseteq S
  BY <1>1, <1>2, Induction
<1> QED
  BY <1>3 DEF S

(* And so the last value goes on by step when the sequence grows. *)
LEMMA FollowsAppend ==
  ASSUME NEW X, NEW T, NEW a \in X, NEW step, NEW w \in Seq(T), NEW r \in T, NEW f, NEW g,
         Follows(f, Len(w), X, a, step, w),
         Follows(g, Len(Append(w, r)), X, a, step, Append(w, r))
  PROVE  g[Len(Append(w, r))] = step[<<f[Len(w)], r>>]
<1>1. /\ Len(w) \in Nat /\ Len(Append(w, r)) = Len(w) + 1
      /\ Append(w, r)[Len(w) + 1] = r
      /\ \A k \in 1 .. Len(w) : w[k] = Append(w, r)[k]
  OBVIOUS
<1> DEFINE l == Len(w)
           v == Append(w, r)
<1> HIDE DEF l, v
<1>2. l \in Nat /\ Len(v) = l + 1 /\ v[l + 1] = r /\ \A k \in 1 .. l : w[k] = v[k]
  BY <1>1 DEF l, v
<1>3. Follows(f, l, X, a, step, w) /\ Follows(g, l + 1, X, a, step, v)
  BY <1>2 DEF l, v
<1>4. f[l] = g[l]
  <2>1. l + 1 \in Nat /\ l <= l /\ l <= l + 1
    BY <1>2
  <2> QED
    BY <1>2, <1>3, <2>1, FollowsAgree
<1>5. g[l + 1] = step[<<g[l], v[l + 1]>>]
  <2>1. l + 1 \in 1 .. l + 1 /\ (l + 1) - 1 = l
    BY <1>2
  <2> QED
    BY <1>3, <2>1 DEF Follows
<1> QED
  BY <1>2, <1>4, <1>5 DEF l, v
=============================================================================
