---------------------------- MODULE ShellEscape ----------------------------
(***************************************************************************)
(* shellescape/extra_vars_escape.go: defaultEscape.Safe, one rune of the   *)
(* input at a time, and the shell that reads what it makes.                *)
(***************************************************************************)
EXTENDS Integers, Sequences

CONSTANTS
  MaxLen  \* bound on the length of the input

(* The runes Safe tells apart: its delimiter, the backslash, any other. *)
Delimiter == "delimiter"
Backslash == "backslash"
Other == "other"
Runes == {Delimiter, Backslash, Other}

ASSUME EscapeAssumption == MaxLen \in Nat

VARIABLES
  quotes, \* made by NewSingleQuoteEscape or by NewDoubleQuoteEscape
  input, pos, out

vars == <<quotes, input, pos, out>>

Inputs == UNION {[1 .. n -> Runes] : n \in 0 .. MaxLen}

(* newDefaultEscape *)
seqEscaped == <<Delimiter, Backslash, Delimiter, Delimiter>>
seqLookAheadLong == <<Backslash, Delimiter, Delimiter>>
seqLookAheadShort == <<Backslash, Delimiter>>

Init == quotes \in {"single", "double"} /\ input \in Inputs /\ pos = 0 /\ out = <<>>

(* The n runes after the current one, or what there is of them. *)
lookup(n) ==
  SubSeq(input, pos + 2, IF pos + 1 + n < Len(input) THEN pos + 1 + n ELSE Len(input))

Emit(runes, consumed) ==
  out' = out \o runes /\ pos' = pos + consumed /\ UNCHANGED <<quotes, input>>

(* The short look-ahead tried first. *)
BugShortFirst ==
  /\ pos < Len(input) /\ input[pos + 1] = Delimiter
  /\ Emit(seqEscaped, IF lookup(2) = seqLookAheadShort THEN 3
                      ELSE IF lookup(3) = seqLookAheadLong THEN 4 ELSE 1)

(* The second of two quotes taken for the end of an escape. *)
BugQuoteSwallowed ==
  /\ pos < Len(input) /\ input[pos + 1] = Delimiter
  /\ Emit(seqEscaped, IF lookup(3) = seqLookAheadLong THEN 4
                      ELSE IF lookup(1) = <<Delimiter>> THEN 2 ELSE 1)

EscapeDelimiter ==
  /\ pos < Len(input) /\ input[pos + 1] = Delimiter
  /\ Emit(seqEscaped, IF lookup(3) = seqLookAheadLong THEN 4
                      ELSE IF lookup(2) = seqLookAheadShort THEN 3 ELSE 1)

(* The escape without the quote that opens the string again. *)
BugNotReopened ==
  /\ pos < Len(input) /\ input[pos + 1] = Backslash /\ lookup(1) = <<Delimiter>>
  /\ Emit(<<Delimiter, Backslash, Delimiter>>, 2)

EscapeBackslash ==
  /\ pos < Len(input) /\ input[pos + 1] = Backslash /\ lookup(1) = <<Delimiter>>
  /\ Emit(seqEscaped, 2)

Copy ==
  /\ pos < Len(input) /\ input[pos + 1] # Delimiter
  /\ input[pos + 1] = Backslash => lookup(1) # <<Delimiter>>
  /\ Emit(<<input[pos + 1]>>, 1)

Next == EscapeDelimiter \/ EscapeBackslash \/ Copy

Spec == Init /\ [][Next]_vars

-----------------------------------------------------------------------------
(* The shell, started inside the quotes: what it takes the text for, and    *)
(* whether it is inside them at its end.  In double quotes a backslash      *)
(* protects a quote and a backslash, in single quotes nothing; outside it   *)
(* protects anything.                                                       *)
ShellStart == [inside |-> TRUE, protects |-> FALSE, text |-> <<>>]

ShellStep(q, s, r) ==
  IF s.protects
  THEN [s EXCEPT !.protects = FALSE,
                 !.text = @ \o (IF s.inside /\ r = Other THEN <<Backslash, r>> ELSE <<r>>)]
  ELSE IF r = Delimiter THEN [s EXCEPT !.inside = ~s.inside]
  ELSE IF r = Backslash /\ (~s.inside \/ q = "double") THEN [s EXCEPT !.protects = TRUE]
  ELSE [s EXCEPT !.text = Append(@, r)]

ShellReads(q, word) ==
  LET read[n \in 0 .. Len(word)] ==
        IF n = 0 THEN ShellStart ELSE ShellStep(q, read[n - 1], word[n])
  IN  read[Len(word)]

Done == pos >= Len(input)

(* The reference: each quote of a text replaced, nothing else looked at. *)
EscapeQuotes(text) ==
  LET made[n \in 0 .. Len(text)] ==
        IF n = 0 THEN <<>>
        ELSE made[n - 1] \o (IF text[n] = Delimiter THEN seqEscaped ELSE <<text[n]>>)
  IN  made[Len(text)]

-----------------------------------------------------------------------------
(* Properties *)

(* Whatever has been escaped so far, the shell that read it is back inside  *)
(* the quotes put around it: the text is one word, and ends where the       *)
(* command line says.  play.go uses single quotes; in double quotes it      *)
(* holds only for a text that has no backslash.                             *)
NoBackslash == Backslash \notin {input[i] : i \in DOMAIN input}
StaysQuoted ==
  quotes = "single" \/ NoBackslash =>
    ShellReads(quotes, out).inside /\ ~ShellReads(quotes, out).protects

(* A text with no backslash is escaped as the reference says: every quote    *)
(* once, none swallowed by the look-ahead.                                   *)
QuotesEscapedOnce ==
  Done /\ NoBackslash => out = EscapeQuotes(input)

(* A text escaped already is left as it is (extra_vars_escape_test.go:27),  *)
(* however many quotes it has.                                              *)
Plain == UNION {[1 .. n -> {Delimiter, Other}] : n \in 0 .. MaxLen}
EscapedKept == Done /\ (\E text \in Plain : input = EscapeQuotes(text)) => out = input

(* In single quotes, those of play.go, the shell reads back the text that   *)
(* was escaped, provided no backslash of it stands right before a quote.    *)
(* Where one does, the code takes it for an escape already made.            *)
LooksEscaped == \E i \in 1 .. Len(input) - 1 : input[i] = Backslash /\ input[i + 1] = Delimiter
ReadsBack ==
  Done /\ quotes = "single" /\ ~LooksEscaped => ShellReads(quotes, out).text = input

-----------------------------------------------------------------------------
(* extra_vars_escape.go:7: Safe returns a safe to use copy of the input.    *)
(* The inputs it is given are JSON, where backslashes come in pairs before  *)
(* a quote: the shell is to read back what was serialised.                  *)
Paired(text) ==
  \A i \in DOMAIN text : text[i] = Delimiter =>
    LET run == {j \in 1 .. i : \A k \in j .. i - 1 : text[k] = Backslash}
    IN  (i - CHOOSE j \in run : \A k \in run : j <= k) % 2 = 0
CopyOfInput == Done /\ quotes = "single" /\ Paired(input) => ShellReads(quotes, out).text = input
=============================================================================
