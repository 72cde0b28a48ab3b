------------------------- MODULE ShellEscapeProofs -------------------------
(***************************************************************************)
(* What Safe promises of a text of any length: its output is one word, and *)
(* the shell reads the text back wherever nothing looks like an escape.    *)
(***************************************************************************)
EXTENDS ShellEscape, SequenceRecursion, SequenceTheorems

ShellState == [inside : BOOLEAN, protects : BOOLEAN, text : Seq(Runes)]

(* The runes are three, and a sequence of escaped runes is one of runes. *)
LEMMA RunesAre ==
  /\ Delimiter \in Runes /\ Backslash \in Runes /\ Other \in Runes
  /\ Delimiter # Backslash /\ Delimiter # Other /\ Backslash # Other
  /\ seqEscaped \in Seq(Runes)
BY DEF Runes, Delimiter, Backslash, Other, seqEscaped

(* A step of the shell keeps the type of its state. *)
LEMMA ShellStepType ==
  ASSUME NEW q, NEW s \in ShellState, NEW r \in Runes
  PROVE  ShellStep(q, s, r) \in ShellState
<1>1. s.text \in Seq(Runes) /\ <<r>> \in Seq(Runes) /\ <<Backslash, r>> \in Seq(Runes)
  BY RunesAre DEF ShellState
<1>2. s.text \o <<r>> \in Seq(Runes) /\ s.text \o <<Backslash, r>> \in Seq(Runes)
      /\ Append(s.text, r) \in Seq(Runes)
  BY <1>1
<1> HIDE DEF Runes
<1> QED
  BY <1>2 DEF ShellStep, ShellState

(* What the shell has read after a word, and after one more rune. *)
LEMMA ShellReadsOn ==
  ASSUME NEW q
  PROVE  /\ ShellReads(q, <<>>) = ShellStart
         /\ \A w \in Seq(Runes) : ShellReads(q, w) \in ShellState
         /\ \A w \in Seq(Runes), r \in Runes :
              ShellReads(q, Append(w, r)) = ShellStep(q, ShellReads(q, w), r)
<1> DEFINE step == [p \in ShellState \X Runes |-> ShellStep(q, p[1], p[2])]
           Read(w) == CHOOSE read : read = [n \in 0 .. Len(w) |->
                        IF n = 0 THEN ShellStart ELSE ShellStep(q, read[n - 1], w[n])]
<1>1. ShellStart \in ShellState
  BY DEF ShellStart, ShellState
<1>2. step \in [ShellState \X Runes -> ShellState]
  BY ShellStepType
<1>3. \A s \in ShellState, r \in Runes : step[<<s, r>>] = ShellStep(q, s, r)
  OBVIOUS
<1> HIDE DEF step
<1>4. ASSUME NEW w \in Seq(Runes)
      PROVE  Follows(Read(w), Len(w), ShellState, ShellStart, step, w)
  <2>0. Len(w) \in Nat /\ \A k \in 1 .. Len(w) : w[k] \in Runes
    OBVIOUS
  <2>1. PICK f : Recurs(f, ShellState, ShellStart, step, w)
    BY <1>1, <1>2, RecursionExists
  <2>2. ASSUME NEW n \in 0 .. Len(w), n # 0
        PROVE  step[<<f[n - 1], w[n]>>] = ShellStep(q, f[n - 1], w[n])
    <3>1. n - 1 \in 0 .. Len(w) /\ w[n] \in Runes
      BY <2>0, <2>2
    <3>2. f[n - 1] \in ShellState
      BY <2>1, <3>1 DEF Recurs
    <3> QED
      BY <1>3, <3>1, <3>2
  <2>3. f = [n \in 0 .. Len(w) |-> IF n = 0 THEN ShellStart ELSE ShellStep(q, f[n - 1], w[n])]
    BY <2>1, <2>2 DEF Recurs
  <2>4. Read(w) = [n \in 0 .. Len(w) |->
                     IF n = 0 THEN ShellStart ELSE ShellStep(q, Read(w)[n - 1], w[n])]
    BY <2>3
  <2> HIDE DEF Read
  <2>5. Read(w) = [n \in 0 .. Len(w) |-> Read(w)[n]] /\ Read(w)[0] = ShellStart
    BY <2>0, <2>4
  <2>6. \A k \in 1 .. Len(w) : Read(w)[k] = ShellStep(q, Read(w)[k - 1], w[k])
    BY <2>0, <2>4
  <2>7. \A k \in 1 .. Len(w) : Read(w)[k - 1] \in ShellState =>
          Read(w)[k] = step[<<Read(w)[k - 1], w[k]>>]
    BY <1>3, <2>0, <2>6
  <2> QED
    BY <1>1, <1>2, <2>5, <2>7, RecursionFollows
<1>5. \A w : ShellReads(q, w) = Read(w)[Len(w)]
  BY DEF ShellReads
<1> HIDE DEF Read
<1>6. ShellReads(q, <<>>) = ShellStart
  <2>1. <<>> \in Seq(Runes) /\ Len(<<>>) = 0
    OBVIOUS
  <2> QED
    BY <1>4, <1>5, <2>1 DEF Follows
<1>7. ASSUME NEW w \in Seq(Runes) PROVE ShellReads(q, w) \in ShellState
  <2>1. Len(w) \in 0 .. Len(w)
    OBVIOUS
  <2> QED
    BY <1>4, <1>5, <2>1 DEF Follows
<1>8. ASSUME NEW w \in Seq(Runes), NEW r \in Runes
      PROVE  ShellReads(q, Append(w, r)) = ShellStep(q, ShellReads(q, w), r)
  <2>1. Append(w, r) \in Seq(Runes)
    OBVIOUS
  <2>2. /\ Follows(Read(w), Len(w), ShellState, ShellStart, step, w)
        /\ Follows(Read(Append(w, r)), Len(Append(w, r)), ShellState, ShellStart, step,
                   Append(w, r))
    BY <1>4, <2>1
  <2>3. Read(Append(w, r))[Len(Append(w, r))] = step[<<Read(w)[Len(w)], r>>]
    BY <1>1, <2>2, FollowsAppend
  <2> QED
    BY <1>3, <1>5, <1>7, <2>3
<1> QED
  BY <1>6, <1>7, <1>8

(* What the reference makes of one rune, of a text, and of one rune more. *)
Piece(r) == IF r = Delimiter THEN seqEscaped ELSE <<r>>

LEMMA PieceType == \A r \in Runes : Piece(r) \in Seq(Runes)
BY RunesAre DEF Piece

LEMMA EscapeQuotesOn ==
  /\ EscapeQuotes(<<>>) = <<>>
  /\ \A w \in Seq(Runes) : EscapeQuotes(w) \in Seq(Runes)
  /\ \A w \in Seq(Runes), r \in Runes :
       EscapeQuotes(Append(w, r)) = EscapeQuotes(w) \o Piece(r)
<1> DEFINE X == Seq(Runes)
           step == [p \in X \X Runes |-> p[1] \o Piece(p[2])]
           Made(w) == CHOOSE made : made = [n \in 0 .. Len(w) |->
                        IF n = 0 THEN <<>> ELSE made[n - 1] \o Piece(w[n])]
<1>1. <<>> \in X
  OBVIOUS
<1>2. step \in [X \X Runes -> X]
  BY PieceType
<1>3. \A s \in X, r \in Runes : step[<<s, r>>] = s \o Piece(r)
  OBVIOUS
<1> HIDE DEF step
<1>4. ASSUME NEW w \in Seq(Runes) PROVE Follows(Made(w), Len(w), X, <<>>, step, w)
  <2>0. Len(w) \in Nat /\ \A k \in 1 .. Len(w) : w[k] \in Runes
    OBVIOUS
  <2> HIDE DEF X
  <2>1. PICK f : Recurs(f, X, <<>>, step, w)
    BY <1>1, <1>2, RecursionExists
  <2>2. ASSUME NEW n \in 0 .. Len(w), n # 0
        PROVE  step[<<f[n - 1], w[n]>>] = f[n - 1] \o Piece(w[n])
    <3>1. n - 1 \in 0 .. Len(w) /\ w[n] \in Runes
      BY <2>0, <2>2
    <3>2. f[n - 1] \in X
      BY <2>1, <3>1 DEF Recurs
    <3> QED
      BY <1>3, <3>1, <3>2
  <2>3. f = [n \in 0 .. Len(w) |-> IF n = 0 THEN <<>> ELSE f[n - 1] \o Piece(w[n])]
    BY <2>1, <2>2 DEF Recurs
  <2>4. Made(w) = [n \in 0 .. Len(w) |-> IF n = 0 THEN <<>> ELSE Made(w)[n - 1] \o Piece(w[n])]
    BY <2>3
  <2> HIDE DEF Made
  <2>5. Made(w) = [n \in 0 .. Len(w) |-> Made(w)[n]] /\ Made(w)[0] = <<>>
    BY <2>0, <2>4
  <2>6. \A k \in 1 .. Len(w) : Made(w)[k] = Made(w)[k - 1] \o Piece(w[k])
    BY <2>0, <2>4
  <2>7. \A k \in 1 .. Len(w) : Made(w)[k - 1] \in X =>
          Made(w)[k] = step[<<Made(w)[k - 1], w[k]>>]
    BY <1>3, <2>0, <2>6
  <2> QED
    BY <1>1, <1>2, <2>5, <2>7, RecursionFollows
<1>5. \A w : EscapeQuotes(w) = Made(w)[Len(w)]
  BY DEF EscapeQuotes, Piece
<1> HIDE DEF Made
<1>6. EscapeQuotes(<<>>) = <<>>
  <2>1. <<>> \in Seq(Runes) /\ Len(<<>>) = 0
    OBVIOUS
  <2> QED
    BY <1>4, <1>5, <2>1 DEF Follows
<1>7. ASSUME NEW w \in Seq(Runes) PROVE EscapeQuotes(w) \in X
  <2>1. Len(w) \in 0 .. Len(w)
    OBVIOUS
  <2> HIDE DEF X
  <2> QED
    BY <1>4, <1>5, <2>1 DEF Follows
<1>8. ASSUME NEW w \in Seq(Runes), NEW r \in Runes
      PROVE  EscapeQuotes(Append(w, r)) = EscapeQuotes(w) \o Piece(r)
  <2>1. Append(w, r) \in Seq(Runes)
    OBVIOUS
  <2>2. /\ Follows(Made(w), Len(w), X, <<>>, step, w)
        /\ Follows(Made(Append(w, r)), Len(Append(w, r)), X, <<>>, step, Append(w, r))
    BY <1>4, <2>1
  <2> HIDE DEF X
  <2>3. Made(Append(w, r))[Len(Append(w, r))] = step[<<Made(w)[Len(w)], r>>]
    BY <1>1, <2>2, FollowsAppend
  <2> QED
    BY <1>3, <1>5, <1>7, <2>3
<1> QED
  BY <1>6, <1>7, <1>8

-----------------------------------------------------------------------------
(* Where Safe is, and what it has written. *)
TypeInv ==
  /\ quotes \in {"single", "double"} /\ input \in Seq(Runes)
  /\ pos \in 0 .. Len(input) /\ out \in Seq(Runes)

(* A sequence is a list when it has its length and its elements. *)
LEMMA Listed ==
  ASSUME NEW S, NEW s \in Seq(S), NEW a, NEW b, NEW c
  PROVE  /\ s = <<a>> <=> Len(s) = 1 /\ s[1] = a
         /\ s = <<a, b>> <=> Len(s) = 2 /\ s[1] = a /\ s[2] = b
         /\ s = <<a, b, c>> <=> Len(s) = 3 /\ s[1] = a /\ s[2] = b /\ s[3] = c
<1>1. ASSUME Len(s) = 1, s[1] = a PROVE s = <<a>>
  BY <1>1
<1>2. ASSUME Len(s) = 2, s[1] = a, s[2] = b PROVE s = <<a, b>>
  BY <1>2
<1>3. ASSUME Len(s) = 3, s[1] = a, s[2] = b, s[3] = c PROVE s = <<a, b, c>>
  BY <1>3
<1> QED
  BY <1>1, <1>2, <1>3

(* What a look-ahead sees is there, rune by rune. *)
LEMMA Ahead ==
  ASSUME TypeInv, pos < Len(input), NEW a, NEW b, NEW c
  PROVE  /\ lookup(1) = <<a>> <=> pos + 2 <= Len(input) /\ input[pos + 2] = a
         /\ lookup(2) = <<a, b>> <=> pos + 3 <= Len(input) /\ input[pos + 2] = a /\ input[pos + 3] = b
         /\ lookup(3) = <<a, b, c>> <=> /\ pos + 4 <= Len(input) /\ input[pos + 2] = a
                                        /\ input[pos + 3] = b /\ input[pos + 4] = c
<1>0. pos \in Nat /\ Len(input) \in Nat /\ input \in Seq(Runes)
  BY DEF TypeInv
<1> DEFINE End(n) == IF pos + 1 + n < Len(input) THEN pos + 1 + n ELSE Len(input)
<1>1. ASSUME NEW n \in 1 .. 3
      PROVE  /\ End(n) \in Nat /\ lookup(n) \in Seq(Runes) /\ Len(lookup(n)) = End(n) - pos - 1
             /\ \A i \in 1 .. End(n) - pos - 1 : lookup(n)[i] = input[pos + 1 + i]
  <2>1. End(n) \in Nat /\ End(n) <= Len(input) /\ pos + 2 <= End(n) + 1
    BY <1>0
  <2>2. lookup(n) = SubSeq(input, pos + 2, End(n))
    BY DEF lookup
  <2> HIDE DEF End
  <2>3. /\ SubSeq(input, pos + 2, End(n)) \in Seq(Runes)
        /\ Len(SubSeq(input, pos + 2, End(n))) = End(n) - (pos + 2) + 1
        /\ \A i \in 1 .. End(n) - (pos + 2) + 1 :
             SubSeq(input, pos + 2, End(n))[i] = input[pos + 2 + i - 1]
    BY <1>0, <2>1
  <2> QED
    BY <1>0, <2>1, <2>2, <2>3
<1>2. /\ Len(lookup(1)) = 1 <=> pos + 2 <= Len(input)
      /\ Len(lookup(2)) = 2 <=> pos + 3 <= Len(input)
      /\ Len(lookup(3)) = 3 <=> pos + 4 <= Len(input)
  <2>1. ASSUME NEW n \in 1 .. 3 PROVE End(n) - pos - 1 = n <=> pos + 1 + n <= Len(input)
    BY <1>0
  <2> HIDE DEF End
  <2>2. \A n \in 1 .. 3 : Len(lookup(n)) = n <=> pos + 1 + n <= Len(input)
    BY <1>1, <2>1
  <2> QED
    BY <1>0, <2>2
<1>3. /\ pos + 2 <= Len(input) => lookup(1)[1] = input[pos + 2]
      /\ pos + 3 <= Len(input) => lookup(2)[1] = input[pos + 2] /\ lookup(2)[2] = input[pos + 3]
      /\ pos + 4 <= Len(input) => /\ lookup(3)[1] = input[pos + 2] /\ lookup(3)[2] = input[pos + 3]
                                  /\ lookup(3)[3] = input[pos + 4]
  BY <1>0, <1>1
<1>4. lookup(1) \in Seq(Runes) /\ lookup(2) \in Seq(Runes) /\ lookup(3) \in Seq(Runes)
  BY <1>1
<1>5. /\ lookup(1) = <<a>> <=> Len(lookup(1)) = 1 /\ lookup(1)[1] = a
      /\ lookup(2) = <<a, b>> <=> Len(lookup(2)) = 2 /\ lookup(2)[1] = a /\ lookup(2)[2] = b
      /\ lookup(3) = <<a, b, c>> <=> /\ Len(lookup(3)) = 3 /\ lookup(3)[1] = a
                                     /\ lookup(3)[2] = b /\ lookup(3)[3] = c
  BY <1>4, Listed
<1> QED
  BY <1>2, <1>3, <1>5

(* A step takes one rune and writes its piece, or takes more because of a   *)
(* backslash before a quote, and writes one escape.                         *)
OneRune == pos' = pos + 1 /\ out' = out \o Piece(input[pos + 1])
AheadTaken == LooksEscaped /\ pos' \in pos + 2 .. Len(input) /\ out' = out \o seqEscaped

LEMMA StepIs ==
  ASSUME TypeInv, Next
  PROVE  pos < Len(input) /\ UNCHANGED <<quotes, input>> /\ (OneRune \/ AheadTaken)
<1>0. pos \in Nat /\ Len(input) \in Nat /\ pos < Len(input)
  BY DEF TypeInv, Next, EscapeDelimiter, EscapeBackslash, Copy
<1>1. CASE EscapeDelimiter
  <2>1. input[pos + 1] = Delimiter /\ Piece(input[pos + 1]) = seqEscaped
        /\ UNCHANGED <<quotes, input>> /\ out' = out \o seqEscaped
    BY <1>1 DEF EscapeDelimiter, Emit, Piece
  <2>2. CASE lookup(3) = seqLookAheadLong
    <3>1. pos' = pos + 4
      BY <1>1, <2>2 DEF EscapeDelimiter, Emit
    <3>2. pos + 4 <= Len(input) /\ input[pos + 2] = Backslash /\ input[pos + 3] = Delimiter
      BY <1>0, <2>2, Ahead DEF seqLookAheadLong
    <3>3. LooksEscaped
      BY <1>0, <3>2 DEF LooksEscaped
    <3> QED
      BY <1>0, <2>1, <3>1, <3>2, <3>3 DEF AheadTaken
  <2>3. CASE lookup(3) # seqLookAheadLong /\ lookup(2) = seqLookAheadShort
    <3>1. pos' = pos + 3
      BY <1>1, <2>3 DEF EscapeDelimiter, Emit
    <3>2. pos + 3 <= Len(input) /\ input[pos + 2] = Backslash /\ input[pos + 3] = Delimiter
      BY <1>0, <2>3, Ahead DEF seqLookAheadShort
    <3>3. LooksEscaped
      BY <1>0, <3>2 DEF LooksEscaped
    <3> QED
      BY <1>0, <2>1, <3>1, <3>2, <3>3 DEF AheadTaken
  <2>4. CASE lookup(3) # seqLookAheadLong /\ lookup(2) # seqLookAheadShort
    <3>1. pos' = pos + 1
      BY <1>1, <2>4 DEF EscapeDelimiter, Emit
    <3> QED
      BY <1>0, <2>1, <3>1 DEF OneRune
  <2> QED
    BY <1>0, <2>1, <2>2, <2>3, <2>4
<1>2. CASE EscapeBackslash
  <2>1. /\ input[pos + 1] = Backslash /\ lookup(1) = <<Delimiter>>
        /\ UNCHANGED <<quotes, input>> /\ out' = out \o seqEscaped /\ pos' = pos + 2
    BY <1>2 DEF EscapeBackslash, Emit
  <2>2. pos + 2 <= Len(input) /\ input[pos + 2] = Delimiter
    BY <1>0, <2>1, Ahead
  <2>3. LooksEscaped
    BY <1>0, <2>1, <2>2 DEF LooksEscaped
  <2> QED
    BY <1>0, <2>1, <2>2, <2>3 DEF AheadTaken
<1>3. CASE Copy
  BY <1>0, <1>3 DEF Copy, Emit, OneRune, Piece
<1> QED
  BY <1>1, <1>2, <1>3 DEF Next

LEMMA TypeStep ==
  ASSUME TypeInv, Next
  PROVE  TypeInv' /\ input[pos + 1] \in Runes
<1>1. /\ pos < Len(input) /\ UNCHANGED <<quotes, input>> /\ (OneRune \/ AheadTaken)
      /\ pos \in Nat /\ Len(input) \in Nat /\ input \in Seq(Runes) /\ out \in Seq(Runes)
  BY StepIs DEF TypeInv
<1>2. input[pos + 1] \in Runes
  BY <1>1
<1>3. Piece(input[pos + 1]) \in Seq(Runes) /\ seqEscaped \in Seq(Runes)
  BY <1>2, PieceType, RunesAre
<1>4. pos' \in 0 .. Len(input)
  BY <1>1 DEF OneRune, AheadTaken
<1>5. out' \in Seq(Runes)
  <2>1. out \o Piece(input[pos + 1]) \in Seq(Runes) /\ out \o seqEscaped \in Seq(Runes)
    BY <1>1, <1>3
  <2> QED
    BY <1>1, <2>1 DEF OneRune, AheadTaken
<1> QED
  BY <1>1, <1>2, <1>4, <1>5 DEF TypeInv

LEMMA TypeAlways == Spec => []TypeInv
<1>1. ASSUME Init PROVE TypeInv
  <2>1. input \in Seq(Runes)
    BY <1>1, EscapeAssumption DEF Init, Inputs
  <2> QED
    BY <1>1, <2>1 DEF Init, TypeInv
<1>2. ASSUME TypeInv, UNCHANGED vars PROVE TypeInv'
  BY <1>2 DEF TypeInv, vars
<1> QED
  BY <1>1, <1>2, TypeStep, PTL DEF Spec

-----------------------------------------------------------------------------
(* The shell is inside the quotes, and the runes of an escape, one by one. *)
InsideAt(q, w) == ShellReads(q, w).inside /\ ~ShellReads(q, w).protects

At(i, p, x) == [inside |-> i, protects |-> p, text |-> x]

LEMMA EscapeSteps ==
  ASSUME NEW q, NEW t
  PROVE  /\ ShellStep(q, At(TRUE, FALSE, t), Delimiter) = At(FALSE, FALSE, t)
         /\ ShellStep(q, At(FALSE, FALSE, t), Backslash) = At(FALSE, TRUE, t)
         /\ ShellStep(q, At(FALSE, TRUE, t), Delimiter) = At(FALSE, FALSE, t \o <<Delimiter>>)
         /\ ShellStep(q, At(FALSE, FALSE, t), Delimiter) = At(TRUE, FALSE, t)
<1>1. ShellStep(q, At(TRUE, FALSE, t), Delimiter) = At(FALSE, FALSE, t)
  BY DEF ShellStep, At
<1>2. ShellStep(q, At(FALSE, FALSE, t), Backslash) = At(FALSE, TRUE, t)
  BY RunesAre DEF ShellStep, At
<1>3. ShellStep(q, At(FALSE, TRUE, t), Delimiter) = At(FALSE, FALSE, t \o <<Delimiter>>)
  BY RunesAre DEF ShellStep, At
<1>4. ShellStep(q, At(FALSE, FALSE, t), Delimiter) = At(TRUE, FALSE, t)
  BY DEF ShellStep, At
<1> QED
  BY <1>1, <1>2, <1>3, <1>4

(* From inside the quotes an escape is read as one quote, and the shell is   *)
(* inside them again.                                                       *)
LEMMA EscapeIsRead ==
  ASSUME NEW q, NEW w \in Seq(Runes), InsideAt(q, w)
  PROVE  /\ InsideAt(q, w \o seqEscaped)
         /\ ShellReads(q, w \o seqEscaped).text = Append(ShellReads(q, w).text, Delimiter)
<1> DEFINE w1 == Append(w, Delimiter)
           w2 == Append(w1, Backslash)
           w3 == Append(w2, Delimiter)
           w4 == Append(w3, Delimiter)
<1>1. w1 \in Seq(Runes) /\ w2 \in Seq(Runes) /\ w3 \in Seq(Runes)
  BY RunesAre
<1>2. w \o seqEscaped = w4
  BY RunesAre DEF seqEscaped
<1>3. /\ ShellReads(q, w) \in ShellState
      /\ ShellReads(q, w1) = ShellStep(q, ShellReads(q, w), Delimiter)
      /\ ShellReads(q, w2) = ShellStep(q, ShellReads(q, w1), Backslash)
      /\ ShellReads(q, w3) = ShellStep(q, ShellReads(q, w2), Delimiter)
      /\ ShellReads(q, w4) = ShellStep(q, ShellReads(q, w3), Delimiter)
  BY <1>1, RunesAre, ShellReadsOn
<1> HIDE DEF w1, w2, w3, w4
<1>4. PICK t \in Seq(Runes) : ShellReads(q, w) = At(TRUE, FALSE, t)
  BY <1>3 DEF InsideAt, ShellState, At
<1>5. t \o <<Delimiter>> = Append(t, Delimiter)
  BY RunesAre
<1>6. ShellReads(q, w4) = At(TRUE, FALSE, Append(t, Delimiter))
  <2>1. ShellReads(q, w1) = At(FALSE, FALSE, t)
    BY <1>3, <1>4, EscapeSteps
  <2>2. ShellReads(q, w2) = At(FALSE, TRUE, t)
    BY <1>3, <2>1, EscapeSteps
  <2>3. ShellReads(q, w3) = At(FALSE, FALSE, Append(t, Delimiter))
    BY <1>3, <1>5, <2>2, EscapeSteps
  <2> QED
    BY <1>3, <2>3, EscapeSteps
<1> QED
  BY <1>2, <1>4, <1>6 DEF InsideAt, At

(* Any other rune is read as itself, but for a backslash in double quotes. *)
LEMMA RuneIsRead ==
  ASSUME NEW q, NEW w \in Seq(Runes), InsideAt(q, w), NEW r \in Runes, r # Delimiter,
         q = "double" => r # Backslash
  PROVE  /\ InsideAt(q, w \o <<r>>)
         /\ ShellReads(q, w \o <<r>>).text = Append(ShellReads(q, w).text, r)
<1>1. w \o <<r>> = Append(w, r)
  OBVIOUS
<1>2. ShellReads(q, w) \in ShellState
      /\ ShellReads(q, Append(w, r)) = ShellStep(q, ShellReads(q, w), r)
  BY ShellReadsOn
<1>3. ShellReads(q, Append(w, r))
        = [ShellReads(q, w) EXCEPT !.text = Append(ShellReads(q, w).text, r)]
  BY <1>2 DEF ShellStep, InsideAt
<1> QED
  BY <1>1, <1>2, <1>3 DEF InsideAt, ShellState

-----------------------------------------------------------------------------
(* The text of any length, in single quotes or without a backslash, is one  *)
(* word for the shell at every moment of Safe.                              *)
QuotedInv == quotes = "single" \/ NoBackslash => InsideAt(quotes, out)

LEMMA QuotedStep ==
  ASSUME TypeInv, QuotedInv, Next
  PROVE  QuotedInv'
<1>1. /\ UNCHANGED <<quotes, input>> /\ (OneRune \/ AheadTaken) /\ pos < Len(input)
      /\ input[pos + 1] \in Runes /\ out \in Seq(Runes) /\ pos + 1 \in DOMAIN input
      /\ quotes \in {"single", "double"}
  BY StepIs, TypeStep DEF TypeInv
<1> SUFFICES ASSUME quotes = "single" \/ NoBackslash, InsideAt(quotes, out)
             PROVE  InsideAt(quotes, out')
  BY <1>1 DEF QuotedInv, NoBackslash, InsideAt
<1>2. CASE out' = out \o seqEscaped
  BY <1>1, <1>2, EscapeIsRead
<1>3. CASE OneRune /\ input[pos + 1] # Delimiter
  <2>1. out' = out \o <<input[pos + 1]>>
    BY <1>3 DEF OneRune, Piece
  <2>2. quotes = "double" => input[pos + 1] # Backslash
    BY <1>1 DEF NoBackslash
  <2> QED
    BY <1>1, <1>3, <2>1, <2>2, RuneIsRead
<1> QED
  BY <1>1, <1>2, <1>3 DEF OneRune, AheadTaken, Piece

(* However long the input: what has been escaped so far is one word to the  *)
(* shell, that is back inside the quotes after every rune Safe consumes.     *)
THEOREM OneWord == Spec => []StaysQuoted
<1>1. ASSUME Init PROVE QuotedInv
  <2>1. ShellReads(quotes, out) = ShellStart
    BY <1>1, ShellReadsOn DEF Init
  <2> QED
    BY <2>1 DEF QuotedInv, InsideAt, ShellStart
<1>2. ASSUME QuotedInv, UNCHANGED vars PROVE QuotedInv'
  BY <1>2 DEF QuotedInv, InsideAt, NoBackslash, vars
<1>3. QuotedInv => StaysQuoted
  BY DEF QuotedInv, StaysQuoted, InsideAt
<1> QED
  BY <1>1, <1>2, <1>3, QuotedStep, TypeAlways, PTL DEF Spec

-----------------------------------------------------------------------------
(* The beginnings of a text: none of it, one rune more, all of it. *)
LEMMA Beginnings ==
  ASSUME NEW w \in Seq(Runes)
  PROVE  /\ SubSeq(w, 1, 0) = <<>> /\ SubSeq(w, 1, Len(w)) = w
         /\ \A k \in 0 .. Len(w) : SubSeq(w, 1, k) \in Seq(Runes)
         /\ \A k \in 0 .. Len(w) - 1 :
              w[k + 1] \in Runes /\ SubSeq(w, 1, k + 1) = Append(SubSeq(w, 1, k), w[k + 1])
<1>0. Len(w) \in Nat
  OBVIOUS
<1>1. \A k \in 0 .. Len(w) : /\ SubSeq(w, 1, k) \in Seq(Runes) /\ Len(SubSeq(w, 1, k)) = k
                             /\ \A i \in 1 .. k : SubSeq(w, 1, k)[i] = w[i]
  BY <1>0
<1>2. SubSeq(w, 1, 0) = <<>>
  BY <1>0, <1>1
<1>3. SubSeq(w, 1, Len(w)) = w
  <2>1. Len(w) \in 0 .. Len(w)
    BY <1>0
  <2> QED
    BY <1>1, <2>1
<1>4. ASSUME NEW k \in 0 .. Len(w) - 1
      PROVE  w[k + 1] \in Runes /\ SubSeq(w, 1, k + 1) = Append(SubSeq(w, 1, k), w[k + 1])
  <2> DEFINE s == SubSeq(w, 1, k)
             t == SubSeq(w, 1, k + 1)
  <2>1. k \in 0 .. Len(w) /\ k + 1 \in 0 .. Len(w) /\ w[k + 1] \in Runes
    BY <1>0
  <2>2. /\ s \in Seq(Runes) /\ Len(s) = k /\ \A i \in 1 .. k : s[i] = w[i]
        /\ t \in Seq(Runes) /\ Len(t) = k + 1 /\ \A i \in 1 .. k + 1 : t[i] = w[i]
    BY <1>1, <2>1
  <2> HIDE DEF s, t
  <2>3. /\ Append(s, w[k + 1]) \in Seq(Runes) /\ Len(Append(s, w[k + 1])) = k + 1
        /\ \A i \in 1 .. k + 1 : Append(s, w[k + 1])[i] = w[i]
    BY <2>1, <2>2
  <2>4. t = Append(s, w[k + 1])
    BY <2>1, <2>2, <2>3
  <2> QED
    BY <2>1, <2>4 DEF s, t
<1> QED
  BY <1>1, <1>2, <1>3, <1>4

(* The part of the input that has been escaped. *)
Before == SubSeq(input, 1, pos)

LEMMA OneRuneMore ==
  ASSUME TypeInv, pos < Len(input), input' = input, pos' = pos + 1
  PROVE  Before \in Seq(Runes) /\ Before' = Append(Before, input[pos + 1])
<1>1. input \in Seq(Runes) /\ pos \in 0 .. Len(input) - 1 /\ pos \in 0 .. Len(input)
  BY DEF TypeInv
<1> QED
  BY <1>1, Beginnings DEF Before

LEMMA DoneIsAll ==
  ASSUME TypeInv, Done
  PROVE  Before = input
<1>1. pos = Len(input) /\ input \in Seq(Runes)
  BY DEF TypeInv, Done
<1> QED
  BY <1>1, Beginnings DEF Before

(* Where nothing looks like an escape, what has been written is what the    *)
(* reference makes of what has been read, and in single quotes the shell    *)
(* reads just that.                                                         *)
PlainInv ==
  ~LooksEscaped =>
    /\ out = EscapeQuotes(Before)
    /\ quotes = "single" =>
         InsideAt(quotes, out) /\ ShellReads(quotes, out).text = Before

LEMMA PlainStep ==
  ASSUME TypeInv, PlainInv, Next
  PROVE  PlainInv'
<1>1. /\ UNCHANGED <<quotes, input>> /\ (OneRune \/ AheadTaken) /\ pos < Len(input)
      /\ input[pos + 1] \in Runes /\ out \in Seq(Runes)
  BY StepIs, TypeStep DEF TypeInv
<1> SUFFICES ASSUME ~LooksEscaped
             PROVE  /\ out' = EscapeQuotes(Before')
                    /\ quotes = "single" => /\ InsideAt(quotes, out')
                                            /\ ShellReads(quotes, out').text = Before'
  BY <1>1 DEF PlainInv, LooksEscaped, InsideAt
<1> DEFINE r == input[pos + 1]
<1>2. OneRune
  BY <1>1 DEF AheadTaken
<1>3. Before \in Seq(Runes) /\ Before' = Append(Before, r) /\ out' = out \o Piece(r)
  BY <1>1, <1>2, OneRuneMore DEF OneRune
<1>4. /\ out = EscapeQuotes(Before)
      /\ quotes = "single" => InsideAt(quotes, out) /\ ShellReads(quotes, out).text = Before
  BY DEF PlainInv
<1> HIDE DEF r
<1>5. out' = EscapeQuotes(Before')
  BY <1>1, <1>3, <1>4, EscapeQuotesOn DEF r
<1>6. ASSUME quotes = "single"
      PROVE  InsideAt(quotes, out') /\ ShellReads(quotes, out').text = Before'
  <2>1. InsideAt(quotes, out) /\ ShellReads(quotes, out).text = Before /\ r \in Runes
    BY <1>1, <1>4, <1>6 DEF r
  <2>2. CASE r = Delimiter
    <3>1. out' = out \o seqEscaped
      BY <1>3, <2>2 DEF Piece
    <3> QED
      BY <1>1, <1>3, <2>1, <2>2, <3>1, EscapeIsRead
  <2>3. CASE r # Delimiter
    <3>1. out' = out \o <<r>> /\ quotes # "double"
      BY <1>3, <1>6, <2>3 DEF Piece
    <3> QED
      BY <1>1, <1>3, <2>1, <2>3, <3>1, RuneIsRead
  <2> QED
    BY <2>2, <2>3
<1> QED
  BY <1>5, <1>6

LEMMA PlainAlways == Spec => []PlainInv
<1>1. ASSUME Init PROVE PlainInv
  <2>1. input \in Seq(Runes)
    BY <1>1, EscapeAssumption DEF Init, Inputs
  <2>2. Before = <<>> /\ out = <<>>
    BY <1>1, <2>1 DEF Init, Before
  <2>3. ShellReads(quotes, <<>>) = ShellStart /\ EscapeQuotes(<<>>) = <<>>
    BY ShellReadsOn, EscapeQuotesOn
  <2>4. ShellStart.inside = TRUE /\ ShellStart.protects = FALSE /\ ShellStart.text = <<>>
    BY DEF ShellStart
  <2> QED
    BY <2>2, <2>3, <2>4 DEF PlainInv, InsideAt
<1>2. ASSUME PlainInv, UNCHANGED vars PROVE PlainInv'
  BY <1>2 DEF PlainInv, InsideAt, LooksEscaped, Before, vars
<1> QED
  BY <1>1, <1>2, PlainStep, TypeAlways, PTL DEF Spec

(* However long: a text without backslashes is escaped as the reference     *)
(* does, for its look-aheads find nothing that was escaped before.          *)
THEOREM PlainIsEscapedOnce == Spec => []QuotesEscapedOnce
<1>1. ASSUME TypeInv, PlainInv PROVE QuotesEscapedOnce
  <2> SUFFICES ASSUME Done, NoBackslash PROVE out = EscapeQuotes(input)
    BY DEF QuotesEscapedOnce
  <2>1. ~LooksEscaped
    <3>1. \A i \in 1 .. Len(input) - 1 : i \in DOMAIN input
      BY <1>1 DEF TypeInv
    <3> QED
      BY <3>1 DEF LooksEscaped, NoBackslash
  <2> QED
    BY <1>1, <2>1, DoneIsAll DEF PlainInv
<1> QED
  BY <1>1, TypeAlways, PlainAlways, PTL

(* However long: in single quotes the shell reads back the input, unless a  *)
(* backslash stands right before one of its quotes.                         *)
THEOREM PlainIsReadBack == Spec => []ReadsBack
<1>1. TypeInv /\ PlainInv => ReadsBack
  BY DoneIsAll DEF PlainInv, ReadsBack
<1> QED
  BY <1>1, TypeAlways, PlainAlways, PTL

-----------------------------------------------------------------------------
(* What the reference makes of the first k runes of a text begins what it   *)
(* makes of the whole, and the piece of the next rune follows.              *)
Made(text, k) == EscapeQuotes(SubSeq(text, 1, k))
Begins(v, w) == Len(v) <= Len(w) /\ \A i \in 1 .. Len(v) : w[i] = v[i]

LEMMA MadeOn ==
  ASSUME NEW text \in Seq(Runes)
  PROVE  /\ Made(text, 0) = <<>> /\ Made(text, Len(text)) = EscapeQuotes(text)
         /\ \A k \in 0 .. Len(text) : Made(text, k) \in Seq(Runes)
         /\ \A k \in 0 .. Len(text) - 1 :
              text[k + 1] \in Runes /\ Made(text, k + 1) = Made(text, k) \o Piece(text[k + 1])
<1>1. ASSUME NEW k \in 0 .. Len(text) - 1
      PROVE  text[k + 1] \in Runes /\ Made(text, k + 1) = Made(text, k) \o Piece(text[k + 1])
  <2>1. k \in 0 .. Len(text)
    OBVIOUS
  <2>2. /\ SubSeq(text, 1, k) \in Seq(Runes) /\ text[k + 1] \in Runes
        /\ SubSeq(text, 1, k + 1) = Append(SubSeq(text, 1, k), text[k + 1])
    BY <2>1, Beginnings
  <2> QED
    BY <2>2, EscapeQuotesOn DEF Made
<1> QED
  BY <1>1, Beginnings, EscapeQuotesOn DEF Made

LEMMA MadeBegins ==
  ASSUME NEW text \in Seq(Runes), NEW k \in 0 .. Len(text)
  PROVE  Begins(Made(text, k), EscapeQuotes(text))
<1>0. Len(text) \in Nat /\ k \in Nat /\ k <= Len(text) /\ Len(text) \in 0 .. Len(text)
  OBVIOUS
<1> DEFINE S == {n \in Nat : k + n <= Len(text) => Begins(Made(text, k), Made(text, k + n))}
<1>1. 0 \in S
  <2>1. Made(text, k) \in Seq(Runes)
    BY MadeOn
  <2>2. Begins(Made(text, k), Made(text, k)) /\ k + 0 = k
    BY <1>0, <2>1 DEF Begins
  <2> QED
    BY <2>2
<1>2. ASSUME NEW n \in Nat, n \in S PROVE n + 1 \in S
  <2> SUFFICES ASSUME k + (n + 1) <= Len(text)
               PROVE  Begins(Made(text, k), Made(text, k + (n + 1)))
    OBVIOUS
  <2> DEFINE v == Made(text, k)
             w == Made(text, k + n)
             p == Piece(text[k + n + 1])
  <2>1. k + n \in 0 .. Len(text) - 1 /\ k + n \in 0 .. Len(text) /\ k + (n + 1) = (k + n) + 1
    BY <1>0
  <2>2. Begins(v, w)
    BY <1>0, <1>2, <2>1
  <2>3. v \in Seq(Runes) /\ w \in Seq(Runes)
    BY <2>1, MadeOn
  <2>4. text[k + n + 1] \in Runes /\ Made(text, k + n + 1) = w \o p
    BY <2>1, MadeOn
  <2>5. p \in Seq(Runes)
    BY <2>4, PieceType
  <2> HIDE DEF v, w, p
  <2>6. Len(w \o p) = Len(w) + Len(p) /\ \A i \in 1 .. Len(w) : (w \o p)[i] = w[i]
    BY <2>3, <2>5
  <2>7. Begins(v, w \o p)
    BY <2>2, <2>3, <2>5, <2>6 DEF Begins
  <2> QED
    BY <2>1, <2>4, <2>7 DEF v
<1> HIDE DEF S
<1>3. Len(text) - k \in S
  BY <1>0, <1>1, <1>2, Induction
<1>4. k + (Len(text) - k) = Len(text)
  BY <1>0
<1> QED
  BY <1>0, <1>3, <1>4, MadeOn DEF S

(* A text that the reference made is read piece by piece, and each piece    *)
(* written again: the look-ahead of three takes an escape for one.          *)
KeptInv ==
  \A text \in Plain : input = EscapeQuotes(text) =>
    \E k \in 0 .. Len(text) : out = Made(text, k) /\ pos = Len(out)

LEMMA PlainTexts ==
  ASSUME NEW text \in Plain
  PROVE  text \in Seq(Runes) /\ \A i \in 1 .. Len(text) : text[i] \in {Delimiter, Other}
BY EscapeAssumption, RunesAre DEF Plain

(* The step over one piece. *)
LEMMA PieceTaken ==
  ASSUME TypeInv, Next, pos = Len(out), NEW r \in {Delimiter, Other},
         Begins(out \o Piece(r), input)
  PROVE  out' = out \o Piece(r) /\ pos' = Len(out')
<1>1. out \in Seq(Runes) /\ Len(out) \in Nat /\ input \in Seq(Runes) /\ Len(input) \in Nat
  BY DEF TypeInv
<1>2. Delimiter # Other /\ Backslash # Other /\ Backslash # Delimiter
  BY RunesAre
<1>3. CASE r = Other
  <2>1. Piece(r) = <<Other>>
    BY <1>2, <1>3 DEF Piece
  <2>2. /\ Len(out \o <<Other>>) = pos + 1 /\ (out \o <<Other>>)[pos + 1] = Other
        /\ pos + 1 \in 1 .. pos + 1
    BY <1>1
  <2>3. input[pos + 1] = Other
    BY <2>1, <2>2 DEF Begins
  <2>4. out' = out \o <<Other>> /\ pos' = pos + 1
    BY <1>2, <2>3 DEF Next, EscapeDelimiter, EscapeBackslash, Copy, Emit
  <2> QED
    BY <2>1, <2>2, <2>4
<1>4. CASE r = Delimiter
  <2>1. Piece(r) = <<Delimiter, Backslash, Delimiter, Delimiter>>
    BY <1>4 DEF Piece, seqEscaped
  <2> DEFINE w == out \o <<Delimiter, Backslash, Delimiter, Delimiter>>
  <2>2. /\ Len(w) = pos + 4 /\ w[pos + 1] = Delimiter /\ w[pos + 2] = Backslash
        /\ w[pos + 3] = Delimiter /\ w[pos + 4] = Delimiter
    BY <1>1
  <2>3. Begins(w, input)
    BY <2>1
  <2> HIDE DEF w
  <2>4. /\ pos + 4 <= Len(input) /\ input[pos + 1] = Delimiter /\ input[pos + 2] = Backslash
        /\ input[pos + 3] = Delimiter /\ input[pos + 4] = Delimiter
    BY <1>1, <2>2, <2>3 DEF Begins
  <2>5. lookup(3) = seqLookAheadLong
    BY <1>1, <2>4, Ahead DEF seqLookAheadLong
  <2>6. out' = out \o seqEscaped /\ pos' = pos + 4
    BY <1>2, <2>4, <2>5 DEF Next, EscapeDelimiter, EscapeBackslash, Copy, Emit
  <2> QED
    BY <2>1, <2>2, <2>6 DEF w, seqEscaped
<1> QED
  BY <1>3, <1>4

LEMMA KeptStep ==
  ASSUME TypeInv, KeptInv, Next
  PROVE  KeptInv'
<1>1. input' = input /\ pos < Len(input)
  BY StepIs
<1> SUFFICES ASSUME NEW text \in Plain, input = EscapeQuotes(text)
             PROVE  \E k \in 0 .. Len(text) : out' = Made(text, k) /\ pos' = Len(out')
  BY <1>1 DEF KeptInv
<1>2. text \in Seq(Runes) /\ Len(text) \in Nat
  BY PlainTexts
<1>3. PICK k \in 0 .. Len(text) : out = Made(text, k) /\ pos = Len(out)
  BY DEF KeptInv
<1>4. k \in 0 .. Len(text) - 1
  <2>1. k # Len(text)
    BY <1>1, <1>2, <1>3, MadeOn
  <2> QED
    BY <1>2, <2>1
<1>5. text[k + 1] \in {Delimiter, Other} /\ k + 1 \in 0 .. Len(text)
  BY <1>2, <1>4, PlainTexts
<1>6. Made(text, k + 1) = out \o Piece(text[k + 1])
  BY <1>2, <1>3, <1>4, MadeOn
<1>7. Begins(out \o Piece(text[k + 1]), input)
  BY <1>2, <1>5, <1>6, MadeBegins
<1>8. out' = out \o Piece(text[k + 1]) /\ pos' = Len(out')
  BY <1>3, <1>5, <1>7, PieceTaken
<1> QED
  BY <1>5, <1>6, <1>8

(* At the end the piece of the last rune has been written. *)
LEMMA KeptDone ==
  ASSUME TypeInv, KeptInv
  PROVE  EscapedKept
<1> SUFFICES ASSUME Done, NEW text \in Plain, input = EscapeQuotes(text)
             PROVE  out = input
  BY DEF EscapedKept
<1>1. PICK k \in 0 .. Len(text) : out = Made(text, k) /\ pos = Len(out)
  BY DEF KeptInv
<1>2. Begins(out, input)
  BY <1>1, PlainTexts, MadeBegins
<1>3. Len(out) = Len(input) /\ out \in Seq(Runes) /\ input \in Seq(Runes)
  BY <1>1 DEF TypeInv, Done
<1> QED
  BY <1>2, <1>3 DEF Begins

(* However long: what the reference makes of a text comes out as it went    *)
(* in, each escape consumed by the long look-ahead and written once.        *)
THEOREM EscapedIsKept == Spec => []EscapedKept
<1>1. ASSUME Init PROVE KeptInv
  <2>1. out = <<>> /\ pos = 0 /\ Len(out) = 0
    BY <1>1 DEF Init
  <2>2. \A text \in Plain : 0 \in 0 .. Len(text) /\ Made(text, 0) = <<>>
    BY PlainTexts, MadeOn
  <2> QED
    BY <2>1, <2>2 DEF KeptInv
<1>2. ASSUME KeptInv, UNCHANGED vars PROVE KeptInv'
  BY <1>2 DEF KeptInv, vars
<1> QED
  BY <1>1, <1>2, KeptStep, KeptDone, TypeAlways, PTL DEF Spec
=============================================================================
