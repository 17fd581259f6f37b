------------------------------- MODULE Money -------------------------------
(***************************************************************************)
(* Amounts on their way through the program (internal/platform/money):     *)
(* the text of a request is parsed into centavos, checked, and printed     *)
(* again for EFi and for the response.                                     *)
(*                                                                         *)
(* A text is a sequence of characters, since what ParseString accepts is   *)
(* decided by them.  int64 is an integer that wraps around.                *)
(***************************************************************************)
EXTENDS Integers, Sequences, SequencesExt

CONSTANTS
  Half,     \* half of the integers there are: 2^63
  Chars,    \* the characters texts are made of
  MaxLen    \* bound: the length of a text

Digits == <<"0", "1", "2", "3", "4", "5", "6", "7", "8", "9">>

ASSUME MoneyAssumption ==
  /\ Half \in Nat \ {0}
  /\ MaxLen \in Nat
  /\ Chars \subseteq ToSet(Digits) \cup {"-", "+", ".", " ", "x"}

VARIABLES
  text,      \* createChargeRequest.Amount
  amount,    \* the Centavos it was parsed into
  original,  \* valor.original of the PUT to EFi
  pc         \* where the request is

vars == <<text, amount, original, pc>>

Words == -Half .. Half - 1

\* The integer that n overflows to.
Wrap(n) == ((n + Half) % (2 * Half)) - Half

-----------------------------------------------------------------------------
\* strconv, strings and fmt, as money.go uses them.

IsNumeral(s) == s # <<>> /\ ToSet(s) \subseteq ToSet(Digits)

ValueOf(c) == CHOOSE d \in 0..9 : Digits[d + 1] = c

NumberOf(s) == FoldLeft(LAMBDA n, c : 10 * n + ValueOf(c), 0, s)

Invalid == [ok |-> FALSE, value |-> 0]

\* strconv.ParseInt: one sign, digits, no overflow.
ParseInt(s) ==
  LET signed == s # <<>> /\ s[1] \in {"-", "+"}
      digits == IF signed THEN Tail(s) ELSE s
      n      == (IF signed /\ s[1] = "-" THEN -1 ELSE 1) * NumberOf(digits)
  IN  IF IsNumeral(digits) /\ n \in Words THEN [ok |-> TRUE, value |-> n] ELSE Invalid

TrimSpace(s) ==
  LET inside == {i \in DOMAIN s : s[i] # " "}
  IN  IF inside = {} THEN <<>> ELSE SubSeq(s, Min(inside), Max(inside))

Numeral(n) ==
  LET of[k \in 0..n] ==
        IF k < 10 THEN <<Digits[k + 1]>> ELSE Append(of[k \div 10], Digits[(k % 10) + 1])
  IN  of[n]

-----------------------------------------------------------------------------
\* The parts before and after the first point, and whether there is one.
Whole(s) == LET dot == SelectInSeq(s, LAMBDA c : c = ".")
            IN  IF dot = 0 THEN s ELSE SubSeq(s, 1, dot - 1)
Rest(s) == SubSeq(s, Len(Whole(s)) + 2, Len(s))
HasPoint(s) == "." \in ToSet(s)

Centavos(reais, cents) ==
  IF reais.ok /\ cents.ok THEN [ok |-> TRUE, value |-> Wrap(reais.value * 100 + cents.value)] ELSE Invalid

\* Mutant of ParseString: the fraction is cut to two digits, but not filled up.
ParseStringUnfilled(s) ==
  LET t == TrimSpace(s)
      r == Rest(t)
  IN  Centavos(ParseInt(Whole(t)),
               IF HasPoint(t) /\ r # <<>> THEN ParseInt(SubSeq(r, 1, IF Len(r) > 2 THEN 2 ELSE Len(r)))
               ELSE [ok |-> TRUE, value |-> 0])

\* The fraction is filled up with zeros and cut to two characters.
ParseString(s) ==
  LET t == TrimSpace(s)
  IN  Centavos(ParseInt(Whole(t)),
               IF HasPoint(t) THEN ParseInt(SubSeq(Rest(t) \o <<"0", "0">>, 1, 2))
               ELSE [ok |-> TRUE, value |-> 0])

\* Mutant of String: "%d.%d".
StringUnfilled(c) == Numeral(c \div 100) \o <<".">> \o Numeral(c % 100)

\* "%d.%02d", of the positive amounts that are ever printed.
String(c) ==
  Numeral(c \div 100) \o <<".", Digits[((c % 100) \div 10) + 1], Digits[(c % 10) + 1]>>

-----------------------------------------------------------------------------
Init ==
  /\ text \in BoundedSeq(Chars, MaxLen) \ {<<>>}
  /\ amount = 0
  /\ original = <<>>
  /\ pc = "received"

\* process: the amount is parsed, and must be positive.
Accept ==
  /\ pc = "received"
  /\ LET parsed == ParseString(text)
     IN  parsed.ok /\ parsed.value > 0 /\ amount' = parsed.value
  /\ pc' = "accepted"
  /\ UNCHANGED <<text, original>>

\* process: 422, "invalid amount".
Refuse ==
  /\ pc = "received"
  /\ LET parsed == ParseString(text) IN ~parsed.ok \/ parsed.value <= 0
  /\ pc' = "refused"
  /\ UNCHANGED <<text, amount, original>>

\* CreateImmediateCharge: the amount is printed for EFi.
Send ==
  /\ pc = "accepted"
  /\ original' = String(amount)
  /\ pc' = "sent"
  /\ UNCHANGED <<text, amount>>

Next == Accept \/ Refuse \/ Send

Spec == Init /\ [][Next]_vars

-----------------------------------------------------------------------------
\* Ten to the length of s.
Scale(s) == FoldLeft(LAMBDA p, c : 10 * p, 1, s)

\* Texts such as 10, 10.5 or 10.50, and what they denote in centavos: the
\* value of all their digits, by the power of ten the point says.
IsPlain(s) == IsNumeral(Whole(s)) /\ (Rest(s) = <<>> \/ IsNumeral(Rest(s)))

Denoted(s) == (100 * NumberOf(Whole(s) \o Rest(s))) \div Scale(Rest(s))

\* A decimal text that an integer has room for is accepted exactly if it denotes a
\* centavo or more, for the amount it denotes, fractions of a centavo cut off
\* (ParseString, and the check in process).
PlainIsExact ==
  IsPlain(text) /\ Denoted(text) \in Words =>
    /\ pc = "refused" => Denoted(text) = 0
    /\ pc \in {"accepted", "sent"} => amount = Denoted(text)

\* What EFi is sent has two decimals and reads as the amount that was accepted
\* (String against ParseString).
SentReadsBack ==
  pc = "sent" =>
    /\ IsPlain(original) /\ Len(Rest(original)) = 2
    /\ ParseString(original) = [ok |-> TRUE, value |-> amount]

-----------------------------------------------------------------------------
\* What the check in the handler says, and does not do.

\* handler.go 56-57, amount <= 0 is an "invalid amount": a text with a minus sign
\* is refused.
NegativeIsRefused == pc \in {"accepted", "sent"} => TrimSpace(text)[1] # "-"
=============================================================================
