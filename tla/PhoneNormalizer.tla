-------------------------- MODULE PhoneNormalizer --------------------------
(***************************************************************************)
(* session.normalizePhone: one pass over the characters of a phone number  *)
(* into a buffer of twelve digits, then the three accepted forms.  A       *)
(* number that was accepted is normalised once more.                       *)
(***************************************************************************)
EXTENDS Integers, FiniteSets, Sequences

CONSTANT Inputs   \* what callers may pass

Digits     == {"0", "1", "2", "3", "4", "5", "6", "7", "8", "9"}
Separators == {" ", "-", "(", ")"}
Chars      == Digits \cup Separators \cup {"+", "x"}   \* "x": any other

ASSUME InputsAssumption == Inputs \subseteq Seq(Chars)

VARIABLES
  text,     \* the argument
  i,        \* the next character
  digits,   \* the digits read so far
  result,   \* "running", "error" or "ok"
  phone,    \* what is returned with "ok"
  round     \* 2 when the argument is a result, else 1

vars == <<text, i, digits, result, phone, round>>

Init ==
  /\ text \in Inputs
  /\ i = 1
  /\ digits = <<>>
  /\ result = "running"
  /\ phone = <<>>
  /\ round = 1

\* Every variable has its type; the buffer holds twelve digits.
TypeOK ==
  /\ text \in Seq(Chars)
  /\ i \in Nat \ {0}
  /\ digits \in Seq(Digits) /\ Len(digits) <= 12
  /\ result \in {"running", "error", "ok"}
  /\ phone \in Seq(Chars)
  /\ round \in {1, 2}

Rejects ==
  /\ result' = "error"
  /\ UNCHANGED <<text, i, digits, phone, round>>

\* Fault: the plus is an invalid character.
SkippedSeparator(c) == c \in Separators

\* The characters that are passed over: any leading plus, and separators.
Skipped(c) == c \in Separators \/ (c = "+" /\ digits = <<>>)

\* Fault: the buffer's length is not looked at.
ScansUnbounded ==
  /\ result = "running" /\ i <= Len(text)
  /\ IF text[i] \in Digits THEN digits' = Append(digits, text[i])
                           ELSE Skipped(text[i]) /\ UNCHANGED digits
  /\ i' = i + 1
  /\ UNCHANGED <<text, result, phone, round>>

Scans ==
  /\ result = "running" /\ i <= Len(text)
  /\ \/ /\ text[i] \in Digits /\ Len(digits) < 12
        /\ digits' = Append(digits, text[i])
        /\ i' = i + 1
        /\ UNCHANGED <<text, result, phone, round>>
     \/ /\ Skipped(text[i])
        /\ i' = i + 1
        /\ UNCHANGED <<text, digits, result, phone, round>>
     \/ /\ IF text[i] \in Digits THEN Len(digits) = 12 ELSE ~Skipped(text[i])
        /\ Rejects

\* Fault: only 07 numbers.
isSafaricomPrefix(a) == a = "7"

\* The second digit is any digit.
isValidKenyanPrefix(a) == a \in {"7", "1"}

\* Fault: the digits before the last nine are not looked at.
FormsByLength(n, s) == n \in {9, 10, 12}

\* The country code or a leading zero, before nine digits, or nothing.
Forms(n, s) ==
  \/ n = 12 /\ s[1] = "2" /\ s[2] = "5" /\ s[3] = "4"
  \/ n = 10 /\ s[1] = "0"
  \/ n = 9

Country == <<"+", "2", "5", "4">>

Finishes ==
  LET n     == Len(digits)
      local == SubSeq(digits, n - 8, n)
  IN /\ result = "running" /\ i > Len(text)
     /\ IF n >= 9 /\ Forms(n, digits) /\ isValidKenyanPrefix(digits[n - 8])
        THEN /\ result' = "ok"
             /\ phone' = IF n = 12 THEN <<"+">> \o digits ELSE Country \o local
             /\ UNCHANGED <<text, i, digits, round>>
        ELSE Rejects

\* The result is passed in again.
Repeats ==
  /\ result = "ok" /\ round = 1
  /\ text' = phone
  /\ i' = 1
  /\ digits' = <<>>
  /\ result' = "running"
  /\ round' = 2
  /\ UNCHANGED phone

Next == Scans \/ Finishes \/ Repeats

Spec == Init /\ [][Next]_vars

-----------------------------------------------------------------------------
(* Properties.                                                             *)

IsDigit(c) == c \in Digits

\* How many of the first j characters are digits.
DigitCount(p, j) == Cardinality({k \in 1 .. j : IsDigit(p[k])})

\* The digits of p in their order.
DigitsOf(p) ==
  [n \in 1 .. DigitCount(p, Len(p)) |->
     p[CHOOSE k \in 1 .. Len(p) : IsDigit(p[k]) /\ DigitCount(p, k) = n]]

Last9(s) == SubSeq(s, Len(s) - 8, Len(s))

\* Nine digits that begin with 7 or 1, after nothing, 0 or 254.
KnownForm(s) ==
  /\ Len(s) >= 9 /\ Last9(s)[1] \in {"7", "1"}
  /\ s \in {Last9(s), <<"0">> \o Last9(s), <<"2", "5", "4">> \o Last9(s)}

\* What normalizePhone accepts, without reading the input from left to right:
\* no foreign character, no plus after a digit, and digits of a known form.
Accepted(p) ==
  /\ KnownForm(DigitsOf(p))
  /\ \A j \in 1 .. Len(p) :
       /\ p[j] # "x"
       /\ p[j] = "+" => \A k \in 1 .. j - 1 : ~IsDigit(p[k])

\* normalizePhone accepts exactly the numbers of the accepted forms, and
\* returns +254 with their nine digits.
MatchesForms ==
  /\ result = "ok" => /\ Accepted(text)
                      /\ phone = Country \o Last9(DigitsOf(text))
  /\ result = "error" => ~Accepted(text)

\* The result is an E.164 number: +254 and nine digits that begin with 7 or 1.
IsE164(p) ==
  /\ p \in Seq(Chars) /\ Len(p) = 13
  /\ \A j \in 1 .. 4 : p[j] = Country[j]
  /\ p[5] \in {"7", "1"}
  /\ \A j \in 6 .. 13 : p[j] \in Digits

ReturnsE164 == result = "ok" => IsE164(phone)

\* Normalising a normalised number is accepted and changes nothing.
Idempotent == round = 2 => result # "error" /\ phone = text
=============================================================================
