----------------------- MODULE PhoneNormalizerProofs -----------------------
(***************************************************************************)
(* Proofs about normalizePhone, for every input.                           *)
(***************************************************************************)
EXTENDS PhoneNormalizer, FiniteSetTheorems, SequenceTheorems, TLAPS

\* Whatever is normalised again is an E.164 number.
PhoneInv == result = "ok" \/ round = 2 => IsE164(phone)

\* The second time, the plus is passed over and every digit is read.
AgainInv ==
  round = 2 =>
    /\ result # "error" /\ text = phone
    /\ result = "running" =>
         /\ i \in 1 .. 14
         /\ Len(digits) = (IF i = 1 THEN 0 ELSE i - 2)
         /\ \A j \in 1 .. Len(digits) : digits[j] = text[j + 1]

IInv == TypeOK /\ PhoneInv /\ AgainInv

LEMMA InitIInv == Init => IInv
<1> SUFFICES ASSUME Init PROVE IInv
  OBVIOUS
<1>1. text \in Seq(Chars) /\ <<>> \in Seq(Chars) /\ <<>> \in Seq(Digits)
  BY InputsAssumption DEF Init
<1>2. Len(digits) = 0
  BY DEF Init
<1>3. TypeOK
  BY <1>1, <1>2 DEF Init, TypeOK
<1>4. PhoneInv /\ AgainInv
  BY DEF Init, PhoneInv, AgainInv
<1> QED
  BY <1>3, <1>4 DEF IInv

-----------------------------------------------------------------------------
(* The forms.                                                              *)

\* A plus before a number's digits.
LEMMA PlusFirst ==
  ASSUME NEW s \in Seq(Digits), NEW p, p = <<"+">> \o s
  PROVE  /\ p \in Seq(Chars) /\ Len(p) = Len(s) + 1 /\ p[1] = "+"
         /\ \A j \in 2 .. Len(s) + 1 : p[j] = s[j - 1]
<1>1. <<"+">> \in Seq(Chars) /\ Len(<<"+">>) = 1
  BY DEF Chars
<1>2. s \in Seq(Chars)
  BY SeqMonotonic DEF Chars
<1> QED
  BY <1>1, <1>2, ConcatProperties

\* The country code before nine digits.
LEMMA CountryFirst ==
  ASSUME NEW s \in Seq(Digits)
  PROVE  /\ Country \o s \in Seq(Chars) /\ Len(Country \o s) = Len(s) + 4
         /\ \A j \in 1 .. 4 : (Country \o s)[j] = Country[j]
         /\ \A j \in 5 .. Len(s) + 4 : (Country \o s)[j] = s[j - 4]
<1> DEFINE p == Country \o s
<1>1. Country \in Seq(Chars) /\ Len(Country) = 4
  BY DEF Country, Chars, Digits
<1>2. s \in Seq(Chars)
  BY SeqMonotonic DEF Chars
<1>3. /\ p \in Seq(Chars) /\ Len(p) = Len(Country) + Len(s)
      /\ \A j \in 1 .. Len(Country) + Len(s) :
           p[j] = IF j <= Len(Country) THEN Country[j]
                  ELSE s[j - Len(Country)]
  BY <1>1, <1>2, ConcatProperties, Zenon
<1> HIDE DEF p
<1>4. /\ p \in Seq(Chars) /\ Len(p) = Len(s) + 4
      /\ \A j \in 1 .. 4 : p[j] = Country[j]
      /\ \A j \in 5 .. Len(s) + 4 : p[j] = s[j - 4]
  BY <1>1, <1>3
<1> QED
  BY <1>4 DEF p

\* An E.164 number, character by character.
LEMMA E164Chars ==
  ASSUME NEW p
  PROVE  IsE164(p) <=>
           /\ p \in Seq(Chars) /\ Len(p) = 13
           /\ p[1] = "+" /\ p[2] = "2" /\ p[3] = "5" /\ p[4] = "4"
           /\ p[5] \in {"7", "1"}
           /\ \A j \in 6 .. 13 : p[j] \in Digits
<1>1. (\A j \in 1 .. 4 : p[j] = Country[j]) <=>
      (p[1] = "+" /\ p[2] = "2" /\ p[3] = "5" /\ p[4] = "4")
  BY DEF Country
<1> QED
  BY <1>1 DEF IsE164

\* Twelve digits that are accepted become an E.164 number with a plus.
LEMMA LongForm ==
  ASSUME NEW s \in Seq(Digits), Len(s) = 12,
         s[1] = "2", s[2] = "5", s[3] = "4", isValidKenyanPrefix(s[4]),
         NEW p, p = <<"+">> \o s
  PROVE  IsE164(p)
<1>a. /\ p \in Seq(Chars) /\ Len(p) = Len(s) + 1 /\ p[1] = "+"
      /\ \A j \in 2 .. Len(s) + 1 : p[j] = s[j - 1]
  BY PlusFirst, Zenon
<1>1. Len(p) = 13 /\ \A j \in 2 .. 13 : p[j] = s[j - 1]
  BY <1>a
<1>2. p[2] = s[1] /\ p[3] = s[2] /\ p[4] = s[3] /\ p[5] = s[4]
  BY <1>1
<1>3. ASSUME NEW j \in 6 .. 13 PROVE p[j] \in Digits
  BY <1>1
<1> QED
  BY <1>a, <1>1, <1>2, <1>3, E164Chars DEF isValidKenyanPrefix

\* Nine digits that are accepted become one with the country code.
LEMMA ShortForm ==
  ASSUME NEW s \in Seq(Digits), Len(s) = 9, isValidKenyanPrefix(s[1])
  PROVE  IsE164(Country \o s)
<1> DEFINE p == Country \o s
<1>1. /\ p \in Seq(Chars) /\ Len(p) = Len(s) + 4
      /\ \A j \in 1 .. 4 : p[j] = Country[j]
      /\ \A j \in 5 .. Len(s) + 4 : p[j] = s[j - 4]
  BY CountryFirst, Zenon
<1> HIDE DEF p
<1>2. Len(p) = 13 /\ p[5] = s[1]
  BY <1>1
<1>a. ASSUME NEW j \in 6 .. 13 PROVE p[j] \in Digits
  <2>1. p[j] = s[j - 4] /\ j - 4 \in 1 .. Len(s)
    BY <1>1
  <2> QED
    BY <2>1, ElementOfSeq
<1>3. IsE164(p)
  BY <1>1, <1>2, <1>a DEF IsE164, isValidKenyanPrefix
<1> QED
  BY <1>3 DEF p

\* A number that Finishes accepts.
LEMMA FinishForms ==
  ASSUME TypeOK, Finishes, result' = "ok"
  PROVE  IsE164(phone') /\ phone' \in Seq(Chars)
<1>1. digits \in Seq(Digits) /\ Len(digits) \in Nat
  BY DEF TypeOK
<1>2. /\ Len(digits) >= 9 /\ Forms(Len(digits), digits)
      /\ isValidKenyanPrefix(digits[Len(digits) - 8])
      /\ phone' = IF Len(digits) = 12 THEN <<"+">> \o digits
                  ELSE Country \o SubSeq(digits, Len(digits) - 8, Len(digits))
  BY DEF Finishes, Rejects
<1>3. IsE164(phone')
  <2>1. CASE Len(digits) = 12
    <3>1. /\ digits[1] = "2" /\ digits[2] = "5" /\ digits[3] = "4"
          /\ isValidKenyanPrefix(digits[4])
      BY <1>2, <2>1 DEF Forms
    <3>2. IsE164(<<"+">> \o digits)
      BY <1>1, <2>1, <3>1, LongForm
    <3> QED
      BY <1>2, <2>1, <3>2
  <2>2. CASE Len(digits) # 12
    <3> DEFINE local == SubSeq(digits, Len(digits) - 8, Len(digits))
    <3>1. /\ local \in Seq(Digits) /\ Len(local) = 9
          /\ local[1] = digits[Len(digits) - 8]
      BY <1>1, <1>2
    <3>2. phone' = Country \o local
      BY <1>2, <2>2
    <3> HIDE DEF local
    <3>3. IsE164(Country \o local)
      BY <1>2, <3>1, ShortForm
    <3> QED
      BY <3>2, <3>3
  <2> QED
    BY <2>1, <2>2
<1> QED
  BY <1>3 DEF IsE164

-----------------------------------------------------------------------------
(* The steps.                                                              *)

LEMMA TypeStep == TypeOK /\ [Next]_vars => TypeOK'
<1> SUFFICES ASSUME TypeOK, [Next]_vars PROVE TypeOK'
  OBVIOUS
<1>1. CASE Scans
  <2>1. CASE /\ text[i] \in Digits /\ Len(digits) < 12
             /\ digits' = Append(digits, text[i])
             /\ i' = i + 1
             /\ UNCHANGED <<text, result, phone, round>>
    <3>1. digits' \in Seq(Digits) /\ Len(digits') = Len(digits) + 1
      BY <2>1 DEF TypeOK
    <3> QED
      BY <2>1, <3>1 DEF TypeOK
  <2>2. CASE i' = i + 1 /\ UNCHANGED <<text, digits, result, phone, round>>
    BY <2>2 DEF TypeOK
  <2>3. CASE Rejects
    BY <2>3 DEF Rejects, TypeOK
  <2> QED
    BY <1>1, <2>1, <2>2, <2>3 DEF Scans
<1>2. CASE Finishes
  BY <1>2, FinishForms DEF Finishes, Rejects, TypeOK
<1>3. CASE Repeats
  BY <1>3 DEF Repeats, TypeOK
<1>4. CASE UNCHANGED vars
  BY <1>4 DEF vars, TypeOK
<1> QED
  BY <1>1, <1>2, <1>3, <1>4 DEF Next

LEMMA PhoneStep == TypeOK /\ PhoneInv /\ [Next]_vars => PhoneInv'
<1> SUFFICES ASSUME TypeOK, PhoneInv, [Next]_vars,
                    result' = "ok" \/ round' = 2
             PROVE  IsE164(phone')
  BY DEF PhoneInv, IsE164
<1>1. CASE Scans
  BY <1>1 DEF Scans, Rejects, PhoneInv
<1>2. CASE Finishes
  <2>1. CASE result' = "ok"
    BY <1>2, <2>1, FinishForms
  <2>2. CASE result' # "ok"
    BY <1>2, <2>2 DEF Finishes, Rejects, PhoneInv
  <2> QED
    BY <2>1, <2>2
<1>3. CASE Repeats
  BY <1>3 DEF Repeats, PhoneInv
<1>4. CASE UNCHANGED vars
  BY <1>4 DEF vars, PhoneInv
<1> QED
  BY <1>1, <1>2, <1>3, <1>4 DEF Next

LEMMA AgainStep == TypeOK /\ PhoneInv /\ AgainInv /\ [Next]_vars => AgainInv'
<1> SUFFICES ASSUME TypeOK, PhoneInv, AgainInv, [Next]_vars, round' = 2
             PROVE  AgainInv'
  BY DEF AgainInv
<1>1. CASE Repeats
  BY <1>1 DEF Repeats, AgainInv
<1>2. CASE UNCHANGED vars
  BY <1>2 DEF vars, AgainInv
<1>3. ASSUME Scans \/ Finishes
      PROVE  /\ round = 2 /\ result = "running" /\ text = phone
             /\ i \in 1 .. 14 /\ digits \in Seq(Digits)
             /\ Len(digits) = (IF i = 1 THEN 0 ELSE i - 2)
             /\ \A j \in 1 .. Len(digits) : digits[j] = text[j + 1]
             /\ IsE164(text)
  BY <1>3 DEF Scans, Finishes, Rejects, AgainInv, PhoneInv, TypeOK
<1>4. ASSUME Scans \/ Finishes
      PROVE  /\ text \in Seq(Chars) /\ Len(text) = 13 /\ text[1] = "+"
             /\ text[2] = "2" /\ text[3] = "5" /\ text[4] = "4"
             /\ text[5] \in {"7", "1"} /\ \A j \in 2 .. 13 : text[j] \in Digits
  <2>1. /\ text \in Seq(Chars) /\ Len(text) = 13 /\ text[1] = "+"
        /\ text[2] = "2" /\ text[3] = "5" /\ text[4] = "4"
        /\ text[5] \in {"7", "1"} /\ \A j \in 6 .. 13 : text[j] \in Digits
    BY <1>3, <1>4, E164Chars
  <2>2. \A j \in 2 .. 5 : text[j] \in Digits
    BY <2>1 DEF Digits
  <2>3. ASSUME NEW j \in 2 .. 13 PROVE j \in 2 .. 5 \/ j \in 6 .. 13
    OBVIOUS
  <2> QED
    BY <2>1, <2>2, <2>3
<1>5. CASE Scans
  <2>1. CASE i = 1
    <3>1. text[i] \notin Digits /\ Skipped(text[i]) /\ digits = <<>>
      BY <1>3, <1>4, <1>5, <2>1 DEF Digits, Skipped
    <3>2. i' = 2 /\ UNCHANGED <<text, digits, result, phone, round>>
      BY <1>5, <2>1, <3>1 DEF Scans
    <3> QED
      BY <1>3, <1>5, <2>1, <3>1, <3>2 DEF AgainInv
  <2>2. CASE i # 1
    <3>1. i \in 2 .. 13 /\ text[i] \in Digits /\ Len(digits) \in 0 .. 11
      <4>1. i <= Len(text)
        BY <1>5 DEF Scans
      <4>a. i \in 1 .. 14 /\ Len(text) = 13
        BY <1>3, <1>4, <1>5
      <4>2. i \in 2 .. 13
        BY <2>2, <4>1, <4>a
      <4>3. Len(digits) = i - 2
        BY <1>3, <1>5, <4>2
      <4>4. text[i] \in Digits
        BY <1>4, <1>5, <4>2
      <4> QED
        BY <4>2, <4>3, <4>4
    <3>2. ~Skipped(text[i])
      BY <3>1 DEF Digits, Skipped, Separators
    <3>3. /\ digits' = Append(digits, text[i]) /\ i' = i + 1
          /\ UNCHANGED <<text, result, phone, round>>
      <4>a. ASSUME NEW n \in 0 .. 11 PROVE n # 12
        OBVIOUS
      <4>1. Len(digits) # 12
        BY <3>1, <4>a, Zenon
      <4> QED
        BY <1>5, <3>1, <3>2, <4>1, Zenon DEF Scans
    <3> QED
      BY <1>3, <1>5, <2>2, <3>1, <3>3 DEF AgainInv
  <2> QED
    BY <2>1, <2>2
<1>6. CASE Finishes
  <2>1. Len(digits) = 12
    <3>1. i > 13
      BY <1>4, <1>6 DEF Finishes
    <3>2. i \in 1 .. 14 /\ Len(digits) = (IF i = 1 THEN 0 ELSE i - 2)
      BY <1>3, <1>6
    <3> QED
      BY <3>1, <3>2
  <2>2. /\ digits[1] = text[2] /\ digits[2] = text[3] /\ digits[3] = text[4]
        /\ digits[4] = text[5]
    BY <1>3, <1>6, <2>1
  <2>3. Forms(12, digits) /\ isValidKenyanPrefix(digits[12 - 8])
    BY <1>4, <1>6, <2>2 DEF Forms, isValidKenyanPrefix
  <2>4. /\ result' = "ok" /\ phone' = <<"+">> \o digits
        /\ UNCHANGED <<text, round>>
    BY <1>6, <2>1, <2>3 DEF Finishes
  <2>5. phone' = text
    <3>a. /\ phone' \in Seq(Chars) /\ Len(phone') = Len(digits) + 1
          /\ phone'[1] = "+"
          /\ \A j \in 2 .. Len(digits) + 1 : phone'[j] = digits[j - 1]
      BY <1>3, <1>6, <2>4, PlusFirst, Zenon
    <3>1. /\ phone' \in Seq(Chars) /\ Len(phone') = 13 /\ phone'[1] = "+"
          /\ \A j \in 2 .. 13 : phone'[j] = digits[j - 1]
      BY <2>1, <3>a
    <3>2. ASSUME NEW j \in 1 .. 13 PROVE phone'[j] = text[j]
      <4>1. CASE j = 1
        BY <1>4, <1>6, <3>1, <4>1
      <4>2. CASE j # 1
        <5>1. j - 1 \in 1 .. 12 /\ j = (j - 1) + 1
          BY <4>2
        <5> QED
          BY <1>3, <1>6, <2>1, <3>1, <5>1
      <4> QED
        BY <4>1, <4>2
    <3> QED
      BY <1>4, <1>6, <3>1, <3>2, SeqEqual
  <2> QED
    BY <1>3, <1>6, <2>4, <2>5 DEF AgainInv
<1> QED
  BY <1>1, <1>2, <1>5, <1>6 DEF Next

LEMMA IInvStep == IInv /\ [Next]_vars => IInv'
  BY TypeStep, PhoneStep, AgainStep DEF IInv

LEMMA PhoneInvariance == Spec => []IInv
  BY InitIInv, IInvStep, PTL DEF Spec

-----------------------------------------------------------------------------
\* The buffer of twelve digits never overflows, whatever is passed in.
THEOREM BufferSuffices == Spec => []TypeOK
<1>1. IInv => TypeOK
  BY DEF IInv
<1> QED
  BY <1>1, PhoneInvariance, PTL

\* Whatever normalizePhone accepts, it returns an E.164 number.
THEOREM AlwaysE164 == Spec => []ReturnsE164
<1>1. IInv => ReturnsE164
  BY DEF IInv, PhoneInv, ReturnsE164
<1> QED
  BY <1>1, PhoneInvariance, PTL

\* Normalising what normalizePhone returned is accepted and changes nothing.
THEOREM NormalForm == Spec => []Idempotent
<1>1. IInv => Idempotent
  BY DEF IInv, AgainInv, Idempotent
<1> QED
  BY <1>1, PhoneInvariance, PTL

-----------------------------------------------------------------------------
(* The digits of a text.                                                   *)

LEMMA CountSteps ==
  ASSUME NEW p
  PROVE  /\ DigitCount(p, 0) = 0
         /\ \A j \in Nat : DigitCount(p, j) \in Nat
         /\ \A j \in Nat \ {0} :
              DigitCount(p, j) =
                DigitCount(p, j - 1) + (IF IsDigit(p[j]) THEN 1 ELSE 0)
<1> DEFINE At(j) == {k \in 1 .. j : IsDigit(p[k])}
<1>1. At(0) = {}
  OBVIOUS
<1>2. ASSUME NEW j \in Nat PROVE IsFiniteSet(At(j))
  <2>1. IsFiniteSet(1 .. j) /\ At(j) \in SUBSET (1 .. j)
    BY FS_Interval
  <2> QED
    BY <2>1, FS_Subset
<1>3. ASSUME NEW j \in Nat \ {0}
      PROVE  Cardinality(At(j)) =
               Cardinality(At(j - 1)) + (IF IsDigit(p[j]) THEN 1 ELSE 0)
  <2>1. CASE IsDigit(p[j])
    <3>1. At(j) = At(j - 1) \cup {j} /\ j \notin At(j - 1)
      BY <2>1
    <3>2. IsFiniteSet(At(j - 1))
      BY <1>2
    <3> HIDE DEF At
    <3> QED
      BY <2>1, <3>1, <3>2, FS_AddElement
  <2>2. CASE ~IsDigit(p[j])
    <3>1. At(j) = At(j - 1)
      BY <2>2
    <3>2. Cardinality(At(j - 1)) \in Nat
      BY <1>2, FS_CardinalityType
    <3> HIDE DEF At
    <3> QED
      BY <2>2, <3>1, <3>2
  <2> QED
    BY <2>1, <2>2
<1>4. ASSUME NEW j \in Nat PROVE Cardinality(At(j)) \in Nat
  BY <1>2, FS_CardinalityType
<1> QED
  BY <1>1, <1>3, <1>4, FS_EmptySet DEF DigitCount

\* The count grows with every digit.
LEMMA CountGrows ==
  ASSUME NEW p, NEW j \in Nat, NEW k \in Nat, j <= k
  PROVE  /\ DigitCount(p, j) <= DigitCount(p, k)
         /\ j < k /\ IsDigit(p[k]) => DigitCount(p, j) < DigitCount(p, k)
<1>1. ASSUME NEW m \in Nat, j <= m
      PROVE  DigitCount(p, j) <= DigitCount(p, m)
  <2> DEFINE S == {n \in 1 .. j : IsDigit(p[n])}
             T == {n \in 1 .. m : IsDigit(p[n])}
  <2>1. IsFiniteSet(1 .. m) /\ T \in SUBSET (1 .. m) /\ S \in SUBSET T
    BY <1>1, FS_Interval
  <2>2. IsFiniteSet(T)
    BY <2>1, FS_Subset
  <2> QED
    BY <2>1, <2>2, FS_Subset DEF DigitCount
<1>2. ASSUME j < k, IsDigit(p[k]) PROVE DigitCount(p, j) < DigitCount(p, k)
  <2>1. k - 1 \in Nat /\ j <= k - 1 /\ k \in Nat \ {0}
    BY <1>2
  <2>2. DigitCount(p, j) <= DigitCount(p, k - 1)
    BY <1>1, <2>1
  <2>3. DigitCount(p, k) = DigitCount(p, k - 1) + 1
    BY <1>2, <2>1, CountSteps
  <2>4. DigitCount(p, j) \in Nat /\ DigitCount(p, k - 1) \in Nat
    BY <2>1, CountSteps
  <2> QED
    BY <2>2, <2>3, <2>4
<1> QED
  BY <1>1, <1>2

\* A sequence that holds, for each of its positions, the digit with this
\* count is the sequence of all digits.
LEMMA DigitsAre ==
  ASSUME NEW p \in Seq(Chars), NEW d \in Seq(Digits),
         Len(d) = DigitCount(p, Len(p)),
         \A n \in 1 .. Len(d) : \E k \in 1 .. Len(p) :
           IsDigit(p[k]) /\ DigitCount(p, k) = n /\ d[n] = p[k]
  PROVE  DigitsOf(p) = d
<1> DEFINE IsNth(k, n) == IsDigit(p[k]) /\ DigitCount(p, k) = n
           Nth(n) == CHOOSE k \in 1 .. Len(p) : IsNth(k, n)
<1>1. ASSUME NEW n \in 1 .. Len(d) PROVE d[n] = p[Nth(n)]
  <2>1. PICK k \in 1 .. Len(p) : IsNth(k, n) /\ d[n] = p[k]
    OBVIOUS
  <2>2. Nth(n) \in 1 .. Len(p) /\ IsNth(Nth(n), n)
    BY <2>1
  <2> HIDE DEF Nth
  <2>3. k \in Nat /\ Nth(n) \in Nat
    BY <2>1, <2>2
  <2>4. ~(k < Nth(n)) /\ ~(Nth(n) < k)
    <3>1. DigitCount(p, k) = n /\ DigitCount(p, Nth(n)) = n /\ ~(n < n)
      BY <2>1, <2>2
    <3>2. IsDigit(p[k]) /\ IsDigit(p[Nth(n)])
      BY <2>1, <2>2
    <3>3. ASSUME k < Nth(n) PROVE FALSE
      BY <2>3, <3>1, <3>2, <3>3, CountGrows
    <3>4. ASSUME Nth(n) < k PROVE FALSE
      BY <2>3, <3>1, <3>2, <3>4, CountGrows
    <3> QED
      BY <3>3, <3>4
  <2>5. k = Nth(n)
    BY <2>3, <2>4
  <2> QED
    BY <2>1, <2>5
<1>2. DigitsOf(p) = [n \in 1 .. Len(d) |-> p[Nth(n)]]
  BY DEF DigitsOf
<1> HIDE DEF Nth
<1>3. d = [n \in 1 .. Len(d) |-> d[n]]
  BY LenProperties
<1>4. [n \in 1 .. Len(d) |-> p[Nth(n)]] = [n \in 1 .. Len(d) |-> d[n]]
  BY <1>1
<1> QED
  BY <1>2, <1>3, <1>4

\* There are as many digits as are counted.
LEMMA DigitsLength ==
  ASSUME NEW p \in Seq(Chars)
  PROVE  \E S : DigitsOf(p) \in Seq(S) /\ Len(DigitsOf(p)) = DigitCount(p, Len(p))
<1> DEFINE N == DigitCount(p, Len(p))
           d == DigitsOf(p)
           S == {d[n] : n \in 1 .. N}
<1>1. N \in Nat
  BY CountSteps
<1>2. d \in [1 .. N -> S]
  BY DEF DigitsOf
<1> HIDE DEF N, d, S
<1>3. d \in Seq(S) /\ Len(d) = N
  BY <1>1, <1>2
<1> QED
  BY <1>3 DEF N, d
-----------------------------------------------------------------------------
(* Known forms.                                                            *)

LEMMA Last9Digits ==
  ASSUME NEW S, NEW s \in Seq(S), Len(s) >= 9
  PROVE  /\ Last9(s) \in Seq(S) /\ Len(Last9(s)) = 9
         /\ \A j \in 1 .. 9 : Last9(s)[j] = s[Len(s) - 9 + j]
<1> DEFINE n == Len(s)
<1>1. n \in Nat /\ \A j \in n - 8 .. n : s[j] \in S
  BY ElementOfSeq
<1>2. /\ SubSeq(s, n - 8, n) \in Seq(S)
      /\ Len(SubSeq(s, n - 8, n)) = 9
      /\ \A j \in 1 .. 9 : SubSeq(s, n - 8, n)[j] = s[n - 9 + j]
  BY <1>1
<1> QED
  BY <1>2 DEF Last9

\* What a known form has in front of its nine digits.
LEMMA Fronts ==
  ASSUME NEW S, Digits \subseteq S, NEW l \in Seq(S), Len(l) = 9
  PROVE  /\ <<"0">> \o l \in Seq(S) /\ Len(<<"0">> \o l) = 10
         /\ (<<"0">> \o l)[1] = "0"
         /\ \A j \in 2 .. 10 : (<<"0">> \o l)[j] = l[j - 1]
         /\ <<"2", "5", "4">> \o l \in Seq(S)
         /\ Len(<<"2", "5", "4">> \o l) = 12
         /\ (<<"2", "5", "4">> \o l)[1] = "2"
         /\ (<<"2", "5", "4">> \o l)[2] = "5"
         /\ (<<"2", "5", "4">> \o l)[3] = "4"
         /\ \A j \in 4 .. 12 : (<<"2", "5", "4">> \o l)[j] = l[j - 3]
<1> DEFINE z == <<"0">>  c == <<"2", "5", "4">>
<1>1. z \in Seq(S) /\ Len(z) = 1 /\ z[1] = "0"
  BY DEF Digits
<1>2. c \in Seq(S) /\ Len(c) = 3 /\ c[1] = "2" /\ c[2] = "5" /\ c[3] = "4"
  BY DEF Digits
<1> HIDE DEF z, c
<1>3. /\ z \o l \in Seq(S) /\ Len(z \o l) = Len(z) + Len(l)
      /\ \A j \in 1 .. Len(z) + Len(l) :
           (z \o l)[j] = IF j <= Len(z) THEN z[j] ELSE l[j - Len(z)]
  BY <1>1, ConcatProperties, Zenon
<1>4. /\ c \o l \in Seq(S) /\ Len(c \o l) = Len(c) + Len(l)
      /\ \A j \in 1 .. Len(c) + Len(l) :
           (c \o l)[j] = IF j <= Len(c) THEN c[j] ELSE l[j - Len(c)]
  BY <1>2, ConcatProperties, Zenon
<1>5. /\ z \o l \in Seq(S) /\ Len(z \o l) = 10 /\ (z \o l)[1] = "0"
      /\ \A j \in 2 .. 10 : (z \o l)[j] = l[j - 1]
  BY <1>1, <1>3
<1>6. /\ c \o l \in Seq(S) /\ Len(c \o l) = 12
      /\ (c \o l)[1] = "2" /\ (c \o l)[2] = "5" /\ (c \o l)[3] = "4"
      /\ \A j \in 4 .. 12 : (c \o l)[j] = l[j - 3]
  BY <1>2, <1>4
<1> QED
  BY <1>5, <1>6 DEF z, c

\* A known form has at most twelve digits.
LEMMA KnownLength ==
  ASSUME NEW S, NEW s \in Seq(S), KnownForm(s)
  PROVE  Len(s) <= 12
<1> DEFINE U == S \cup Digits
<1>1. Len(s) >= 9
  BY DEF KnownForm
<1>2. Last9(s) \in Seq(S) /\ Len(Last9(s)) = 9
  BY <1>1, Last9Digits
<1>3. Last9(s) \in Seq(U)
  BY <1>2, SeqMonotonic
<1>4. Digits \subseteq U
  OBVIOUS
<1> HIDE DEF U
<1>5. Len(<<"0">> \o Last9(s)) = 10 /\ Len(<<"2", "5", "4">> \o Last9(s)) = 12
  BY <1>2, <1>3, <1>4, Fronts
<1> QED
  BY <1>2, <1>5 DEF KnownForm

\* The three forms by their leading digits are the known ones.
LEMMA FormsKnown ==
  ASSUME NEW s \in Seq(Digits), Len(s) >= 9
  PROVE  KnownForm(s) <=>
           Forms(Len(s), s) /\ isValidKenyanPrefix(s[Len(s) - 8])
<1> DEFINE l == Last9(s)
           z == <<"0">> \o l
           c == <<"2", "5", "4">> \o l
<1>1. /\ l \in Seq(Digits) /\ Len(l) = 9
      /\ \A j \in 1 .. 9 : l[j] = s[Len(s) - 9 + j]
  BY Last9Digits
<1>2. l[1] = s[Len(s) - 8]
  <2>1. Len(s) \in Nat /\ Len(s) - 9 + 1 = Len(s) - 8
    OBVIOUS
  <2> QED
    BY <1>1, <2>1
<1> HIDE DEF l
<1>3. /\ z \in Seq(Digits) /\ Len(z) = 10 /\ z[1] = "0"
      /\ \A j \in 2 .. 10 : z[j] = l[j - 1]
  BY <1>1, Fronts
<1>4. /\ c \in Seq(Digits) /\ Len(c) = 12
      /\ c[1] = "2" /\ c[2] = "5" /\ c[3] = "4"
      /\ \A j \in 4 .. 12 : c[j] = l[j - 3]
  BY <1>1, Fronts
<1> HIDE DEF z, c
<1>5. s = l <=> Len(s) = 9
  <2>1. ASSUME Len(s) = 9, NEW j \in 1 .. 9 PROVE s[j] = l[j]
    <3>1. Len(s) - 9 + j = j
      BY <2>1
    <3> QED
      BY <1>1, <3>1
  <2> QED
    BY <1>1, <2>1, SeqEqual
<1>6. s = z <=> Len(s) = 10 /\ s[1] = "0"
  <2>1. ASSUME Len(s) = 10, s[1] = "0", NEW j \in 1 .. 10 PROVE s[j] = z[j]
    <3>1. CASE j = 1
      BY <1>3, <2>1, <3>1
    <3>2. CASE j # 1
      <4>1. j - 1 \in 1 .. 9 /\ Len(s) - 9 + (j - 1) = j
        BY <2>1, <3>2
      <4> QED
        BY <1>1, <1>3, <2>1, <3>2, <4>1
    <3> QED
      BY <3>1, <3>2
  <2> QED
    BY <1>3, <2>1, SeqEqual
<1>7. s = c <=> Len(s) = 12 /\ s[1] = "2" /\ s[2] = "5" /\ s[3] = "4"
  <2>1. ASSUME Len(s) = 12, s[1] = "2", s[2] = "5", s[3] = "4",
               NEW j \in 1 .. 12
        PROVE  s[j] = c[j]
    <3>1. CASE j \in {1, 2, 3}
      BY <1>4, <2>1, <3>1
    <3>2. CASE j \notin {1, 2, 3}
      <4>1. j - 3 \in 1 .. 9 /\ Len(s) - 9 + (j - 3) = j /\ j \in 4 .. 12
        BY <2>1, <3>2
      <4> QED
        BY <1>1, <1>4, <2>1, <4>1
    <3> QED
      BY <3>1, <3>2
  <2> QED
    BY <1>4, <2>1, SeqEqual
<1>8. KnownForm(s) <=> l[1] \in {"7", "1"} /\ (s = l \/ s = z \/ s = c)
  BY DEF KnownForm, l, z, c
<1> QED
  BY <1>2, <1>5, <1>6, <1>7, <1>8 DEF Forms, isValidKenyanPrefix

\* With the country code in front, the plus makes it what the others become.
LEMMA PlusIsCountry ==
  ASSUME NEW s \in Seq(Digits), Len(s) = 12,
         s[1] = "2", s[2] = "5", s[3] = "4"
  PROVE  <<"+">> \o s = Country \o Last9(s)
<1> DEFINE l == Last9(s)
           p == <<"+">> \o s
           q == Country \o l
<1>1. /\ l \in Seq(Digits) /\ Len(l) = 9
      /\ \A j \in 1 .. 9 : l[j] = s[3 + j]
  <2> HIDE DEF l
  <2>1. /\ l \in Seq(Digits) /\ Len(l) = 9
        /\ \A j \in 1 .. 9 : l[j] = s[Len(s) - 9 + j]
    <3>1. Len(s) >= 9
      OBVIOUS
    <3> QED
      BY <3>1, Last9Digits, Zenon DEF l
  <2>2. \A j \in 1 .. 9 : Len(s) - 9 + j = 3 + j
    OBVIOUS
  <2> QED
    BY <2>1, <2>2
<1>2. /\ p \in Seq(Chars) /\ Len(p) = 13 /\ p[1] = "+"
      /\ \A j \in 2 .. 13 : p[j] = s[j - 1]
  <2> HIDE DEF p
  <2>1. /\ p \in Seq(Chars) /\ Len(p) = Len(s) + 1 /\ p[1] = "+"
        /\ \A j \in 2 .. Len(s) + 1 : p[j] = s[j - 1]
    BY PlusFirst, Zenon DEF p
  <2> QED
    BY <2>1
<1> HIDE DEF l
<1>3. /\ q \in Seq(Chars) /\ Len(q) = 13
      /\ \A j \in 1 .. 4 : q[j] = Country[j]
      /\ \A j \in 5 .. 13 : q[j] = l[j - 4]
  <2> HIDE DEF q
  <2>1. /\ q \in Seq(Chars) /\ Len(q) = Len(l) + 4
        /\ \A j \in 1 .. 4 : q[j] = Country[j]
        /\ \A j \in 5 .. Len(l) + 4 : q[j] = l[j - 4]
    BY <1>1, CountryFirst, Zenon DEF q
  <2> QED
    BY <1>1, <2>1
<1> HIDE DEF p, q
<1>4. q[1] = "+" /\ q[2] = "2" /\ q[3] = "5" /\ q[4] = "4"
  BY <1>3 DEF Country
<1>5. p[2] = "2" /\ p[3] = "5" /\ p[4] = "4"
  BY <1>2
<1>6. ASSUME NEW j \in 1 .. 13 PROVE p[j] = q[j]
  <2>1. CASE j \in {1, 2, 3, 4}
    BY <1>2, <1>4, <1>5, <2>1
  <2>2. CASE j \notin {1, 2, 3, 4}
    <3>1. j \in 5 .. 13 /\ j - 4 \in 1 .. 9 /\ 3 + (j - 4) = j - 1
      BY <2>2
    <3> QED
      BY <1>1, <1>2, <1>3, <3>1
  <2> QED
    BY <2>1, <2>2
<1>7. p = q
  BY <1>2, <1>3, <1>6, SeqEqual
<1> QED
  BY <1>7 DEF p, q, l
-----------------------------------------------------------------------------
(* What was read.                                                          *)

\* No character that makes the number unacceptable is among the first m.
Clean(p, m) ==
  \A j \in 1 .. m :
    /\ p[j] # "x"
    /\ p[j] = "+" => \A k \in 1 .. j - 1 : ~IsDigit(p[k])

\* The buffer holds the digits before i, each in its place.
ReadInv ==
  result = "running" =>
    /\ i <= Len(text) + 1
    /\ Len(digits) = DigitCount(text, i - 1)
    /\ \A n \in 1 .. Len(digits) : \E k \in 1 .. i - 1 :
         IsDigit(text[k]) /\ DigitCount(text, k) = n /\ digits[n] = text[k]
    /\ Clean(text, i - 1)

\* What is read or passed over keeps the buffer in step with the text.
LEMMA ReadStep ==
  ASSUME TypeOK, ReadInv, Scans, result' = "running"
  PROVE  ReadInv'
<1>1. /\ result = "running" /\ i \in Nat \ {0} /\ i <= Len(text)
      /\ Len(text) \in Nat /\ text \in Seq(Chars) /\ digits \in Seq(Digits)
      /\ Len(digits) \in Nat
  BY DEF Scans, TypeOK
<1>2. /\ Len(digits) = DigitCount(text, i - 1)
      /\ \A n \in 1 .. Len(digits) : \E k \in 1 .. i - 1 :
           IsDigit(text[k]) /\ DigitCount(text, k) = n /\ digits[n] = text[k]
      /\ Clean(text, i - 1)
  BY <1>1 DEF ReadInv
<1>3. DigitCount(text, i) =
        DigitCount(text, i - 1) + (IF IsDigit(text[i]) THEN 1 ELSE 0)
  BY <1>1, CountSteps
<1>4. i' = i + 1 /\ text' = text
  BY DEF Scans, Rejects
<1>5. i' <= Len(text') + 1 /\ i' - 1 = i
  BY <1>1, <1>4
<1>6. CASE text[i] \in Digits /\ digits' = Append(digits, text[i])
  <2>1. /\ Len(digits') = Len(digits) + 1
        /\ digits'[Len(digits) + 1] = text[i]
        /\ \A n \in 1 .. Len(digits) : digits'[n] = digits[n]
    BY <1>1, <1>6
  <2>2. DigitCount(text, i) = Len(digits) + 1
    BY <1>2, <1>3, <1>6 DEF IsDigit
  <2>3. ASSUME NEW n \in 1 .. Len(digits')
        PROVE  \E k \in 1 .. i :
                 IsDigit(text[k]) /\ DigitCount(text, k) = n
                 /\ digits'[n] = text[k]
    <3>1. CASE n = Len(digits) + 1
      <4>1. i \in 1 .. i /\ IsDigit(text[i])
        BY <1>1, <1>6 DEF IsDigit
      <4> QED
        BY <2>1, <2>2, <3>1, <4>1
    <3>2. CASE n # Len(digits) + 1
      <4>1. n \in 1 .. Len(digits)
        BY <1>1, <2>1, <3>2
      <4>2. PICK k \in 1 .. i - 1 :
              IsDigit(text[k]) /\ DigitCount(text, k) = n /\ digits[n] = text[k]
        BY <1>2, <4>1
      <4>3. k \in 1 .. i
        BY <1>1, <4>2
      <4> QED
        BY <2>1, <4>1, <4>2, <4>3
    <3> QED
      BY <3>1, <3>2
  <2>4. text[i] # "x" /\ text[i] # "+"
    BY <1>6 DEF Digits
  <2>5. Clean(text, i)
    BY <1>1, <1>2, <2>4 DEF Clean
  <2> QED
    BY <1>4, <1>5, <2>1, <2>2, <2>3, <2>5 DEF ReadInv
<1>7. CASE Skipped(text[i]) /\ digits' = digits
  <2>1. text[i] \notin Digits /\ text[i] # "x"
    BY <1>7 DEF Skipped, Separators, Digits
  <2>2. DigitCount(text, i) = Len(digits)
    BY <1>1, <1>2, <1>3, <2>1 DEF IsDigit
  <2>3. ASSUME text[i] = "+", NEW k \in 1 .. i - 1 PROVE ~IsDigit(text[k])
    <3>1. digits = <<>>
      BY <1>7, <2>3 DEF Skipped, Separators
    <3>2. DigitCount(text, i - 1) = 0
      BY <1>2, <3>1
    <3>3. CASE IsDigit(text[k])
      <4>1. k - 1 \in Nat /\ k \in Nat \ {0} /\ i - 1 \in Nat /\ k <= i - 1
        BY <1>1
      <4>2. DigitCount(text, k) = DigitCount(text, k - 1) + 1
        BY <3>3, <4>1, CountSteps
      <4>3. DigitCount(text, k - 1) \in Nat /\ DigitCount(text, k) \in Nat
        BY <4>1, CountSteps
      <4>4. DigitCount(text, k) <= DigitCount(text, i - 1)
        BY <4>1, CountGrows
      <4> QED
        BY <3>2, <4>2, <4>3, <4>4
    <3> QED
      BY <3>3
  <2>4. Clean(text, i)
    BY <1>1, <1>2, <2>1, <2>3 DEF Clean
  <2>5. ASSUME NEW n \in 1 .. Len(digits)
        PROVE  \E k \in 1 .. i :
                 IsDigit(text[k]) /\ DigitCount(text, k) = n
                 /\ digits[n] = text[k]
    <3>1. PICK k \in 1 .. i - 1 :
            IsDigit(text[k]) /\ DigitCount(text, k) = n /\ digits[n] = text[k]
      BY <1>2
    <3>2. k \in 1 .. i
      BY <1>1, <3>1
    <3> QED
      BY <3>1, <3>2
  <2> QED
    BY <1>4, <1>5, <1>7, <2>2, <2>4, <2>5 DEF ReadInv
<1> QED
  BY <1>1, <1>6, <1>7 DEF Scans, Rejects

\* At the end the buffer holds the digits of the text.
LEMMA AllRead ==
  ASSUME TypeOK, ReadInv, result = "running", i > Len(text)
  PROVE  /\ digits = DigitsOf(text)
         /\ Accepted(text) <=> KnownForm(digits)
<1>1. /\ text \in Seq(Chars) /\ digits \in Seq(Digits) /\ Len(text) \in Nat
      /\ i \in Nat
  BY DEF TypeOK
<1>2. i - 1 = Len(text)
  BY <1>1 DEF ReadInv
<1>3. DigitsOf(text) = digits
  BY <1>1, <1>2, DigitsAre DEF ReadInv
<1>4. Clean(text, Len(text))
  BY <1>2 DEF ReadInv
<1> QED
  BY <1>3, <1>4 DEF Accepted, Clean

\* A number that is rejected while it is read is not of a known form, or not
\* clean.
LEMMA RejectedRightly ==
  ASSUME TypeOK, ReadInv, Scans, result' = "error"
  PROVE  ~Accepted(text)
<1>1. /\ result = "running" /\ i \in 1 .. Len(text) /\ Len(text) \in Nat
      /\ text \in Seq(Chars) /\ digits \in Seq(Digits)
      /\ i - 1 \in Nat /\ i \in Nat \ {0}
  BY DEF Scans, TypeOK
<1>2. IF text[i] \in Digits THEN Len(digits) = 12 ELSE ~Skipped(text[i])
  BY <1>1 DEF Scans
<1>3. CASE text[i] \in Digits
  <2>1. DigitCount(text, i) = 13
    <3>1. DigitCount(text, i - 1) = 12
      BY <1>1, <1>2, <1>3 DEF ReadInv
    <3>2. DigitCount(text, i) = DigitCount(text, i - 1) + 1
      BY <1>1, <1>3, CountSteps DEF IsDigit
    <3> QED
      BY <3>1, <3>2
  <2>2. DigitCount(text, Len(text)) >= 13
    <3>1. DigitCount(text, i) <= DigitCount(text, Len(text))
      BY <1>1, CountGrows
    <3>2. DigitCount(text, Len(text)) \in Nat
      BY <1>1, CountSteps
    <3> QED
      BY <2>1, <3>1, <3>2
  <2>3. PICK S : /\ DigitsOf(text) \in Seq(S)
                 /\ Len(DigitsOf(text)) = DigitCount(text, Len(text))
    BY <1>1, DigitsLength
  <2>4. ~(Len(DigitsOf(text)) <= 12)
    BY <2>2, <2>3
  <2>5. ~KnownForm(DigitsOf(text))
    BY <2>3, <2>4, KnownLength
  <2> QED
    BY <2>5 DEF Accepted
<1>4. CASE text[i] \notin Digits
  <2>1. text[i] \in Chars /\ ~Skipped(text[i])
    BY <1>1, <1>2, <1>4, ElementOfSeq
  <2>2. text[i] = "x" \/ (text[i] = "+" /\ digits # <<>>)
    BY <1>4, <2>1 DEF Chars, Skipped
  <2>3. CASE text[i] = "x"
    BY <1>1, <2>3 DEF Accepted
  <2>4. CASE text[i] = "+" /\ digits # <<>>
    <3>1. 1 \in 1 .. Len(digits)
      BY <1>1, <2>4
    <3>2. PICK k \in 1 .. i - 1 : IsDigit(text[k])
      BY <1>1, <3>1 DEF ReadInv
    <3> QED
      BY <1>1, <2>4, <3>2 DEF Accepted
  <2> QED
    BY <2>2, <2>3, <2>4
<1> QED
  BY <1>3, <1>4

LEMMA ReadInvStep == TypeOK /\ ReadInv /\ [Next]_vars => ReadInv'
<1> SUFFICES ASSUME TypeOK, ReadInv, [Next]_vars, result' = "running"
             PROVE  ReadInv'
  BY DEF ReadInv
<1>1. CASE Scans
  BY <1>1, ReadStep
<1>2. CASE Finishes
  BY <1>2 DEF Finishes, Rejects
<1>3. CASE Repeats
  <2>1. i' - 1 = 0 /\ digits' = <<>> /\ text' = phone /\ i' = 1
    BY <1>3 DEF Repeats
  <2>2. Len(text') \in Nat /\ DigitCount(text', 0) = 0
    BY <1>3, CountSteps DEF Repeats, TypeOK
  <2> QED
    BY <2>1, <2>2 DEF ReadInv, Clean
<1>4. CASE UNCHANGED vars
  BY <1>4 DEF vars, ReadInv
<1> QED
  BY <1>1, <1>2, <1>3, <1>4 DEF Next

LEMMA MatchesStep ==
  TypeOK /\ ReadInv /\ MatchesForms /\ [Next]_vars => MatchesForms'
<1> SUFFICES ASSUME TypeOK, ReadInv, MatchesForms, [Next]_vars
             PROVE  MatchesForms'
  OBVIOUS
<1>1. CASE Scans
  <2>1. text' = text /\ result' \in {"running", "error"}
    BY <1>1 DEF Scans, Rejects
  <2> QED
    BY <1>1, <2>1, RejectedRightly DEF MatchesForms
<1>2. CASE Finishes
  <2> DEFINE n == Len(digits)
             ok == /\ n >= 9 /\ Forms(n, digits)
                   /\ isValidKenyanPrefix(digits[n - 8])
  <2>1. /\ digits \in Seq(Digits) /\ n \in Nat /\ text' = text
        /\ result = "running" /\ i > Len(text)
    BY <1>2 DEF Finishes, Rejects, TypeOK
  <2>2. digits = DigitsOf(text) /\ (Accepted(text) <=> KnownForm(digits))
    BY <2>1, AllRead
  <2>3. KnownForm(digits) <=> ok
    <3>1. CASE n >= 9
      BY <2>1, <3>1, FormsKnown
    <3>2. CASE ~(n >= 9)
      BY <3>2 DEF KnownForm
    <3> QED
      BY <3>1, <3>2
  <2>4. CASE ok
    <3>1. /\ result' = "ok"
          /\ phone' = IF n = 12 THEN <<"+">> \o digits
                      ELSE Country \o Last9(digits)
      BY <1>2, <2>4 DEF Finishes, Last9
    <3>2. n = 12 => <<"+">> \o digits = Country \o Last9(digits)
      <4>1. n = 12 => digits[1] = "2" /\ digits[2] = "5" /\ digits[3] = "4"
        BY <2>4 DEF Forms
      <4> QED
        BY <2>1, <4>1, PlusIsCountry
    <3> QED
      BY <2>1, <2>2, <2>3, <2>4, <3>1, <3>2 DEF MatchesForms
  <2>5. CASE ~ok
    <3>1. result' = "error"
      BY <1>2, <2>5 DEF Finishes, Rejects
    <3> QED
      BY <2>1, <2>2, <2>3, <2>5, <3>1 DEF MatchesForms
  <2> QED
    BY <2>4, <2>5
<1>3. CASE Repeats
  BY <1>3 DEF Repeats, MatchesForms
<1>4. CASE UNCHANGED vars
  BY <1>4 DEF vars, MatchesForms
<1> QED
  BY <1>1, <1>2, <1>3, <1>4 DEF Next

\* normalizePhone accepts exactly the numbers of the accepted forms, whatever
\* is passed in, and returns them as +254 and their nine digits.
THEOREM FormsMatched == Spec => []MatchesForms
<1>1. Init => ReadInv /\ MatchesForms
  <2> SUFFICES ASSUME Init PROVE ReadInv /\ MatchesForms
    OBVIOUS
  <2>1. text \in Seq(Chars) /\ Len(text) \in Nat
    BY InputsAssumption DEF Init
  <2>2. i = 1 /\ i - 1 = 0 /\ digits = <<>> /\ result = "running"
    BY DEF Init
  <2>3. DigitCount(text, 0) = 0
    BY CountSteps
  <2> QED
    BY <2>1, <2>2, <2>3 DEF ReadInv, Clean, MatchesForms
<1>2. /\ TypeOK /\ ReadInv /\ MatchesForms /\ [Next]_vars
      => (ReadInv /\ MatchesForms)'
  BY ReadInvStep, MatchesStep
<1> QED
  BY <1>1, <1>2, BufferSuffices, PTL DEF Spec
=============================================================================
