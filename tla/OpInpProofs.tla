----------------------------- MODULE OpInpProofs -----------------------------
(***************************************************************************)
(* Theorems about OpInp, for every width of int, base, set of lines and    *)
(* number of lines and INPs.                                               *)
(***************************************************************************)
EXTENDS OpInp, FiniteSetTheorems, WellFoundedInduction, TLAPS

Char == Digit \cup Others \cup {Newline}
Text == Seq(Char)

LEMMA Characters ==
  /\ Digit \subseteq Nat /\ Digit \subseteq Char /\ Others \subseteq Char
  /\ Newline \in Char /\ Newline # Blank /\ Newline \notin {Minus, Plus} /\ Newline \notin Digit
  /\ Digit \cup Others \subseteq Char \ {Newline}
<1>1. Newline \notin Others
  BY InpAssumption DEF IsInjective, Others
<1>2. Newline \notin Digit /\ Digit \subseteq Nat
  BY InpAssumption DEF Digit
<1>3. QED
  BY <1>1, <1>2 DEF Char, Others

LEMMA SameElements ==
  ASSUME NEW S, NEW T, S \subseteq T, NEW s \in Seq(S)
  PROVE  s \in Seq(T)
  OBVIOUS

LEMMA OneElement ==
  ASSUME NEW S, NEW s \in Seq(S), Len(s) = 1
  PROVE  s = <<s[1]>>
<1>1. <<s[1]>> \in Seq(S) /\ Len(<<s[1]>>) = 1
  OBVIOUS
<1>2. \A i \in 1 .. 1 : s[i] = <<s[1]>>[i]
  OBVIOUS
<1>3. QED
  BY <1>1, <1>2

LEMMA AppendIsConcatenation ==
  ASSUME NEW S, NEW s \in Seq(S), NEW e \in S
  PROVE  Append(s, e) = s \o <<e>>
  OBVIOUS

LEMMA Concatenated ==
  ASSUME NEW S, NEW s \in Seq(S), NEW t \in Seq(S)
  PROVE  /\ s \o t \in Seq(S) /\ Len(s \o t) = Len(s) + Len(t)
         /\ \A i \in 1 .. Len(s) : (s \o t)[i] = s[i]
         /\ \A i \in 1 .. Len(t) : (s \o t)[Len(s) + i] = t[i]
  OBVIOUS

-----------------------------------------------------------------------------
\* Numbers

Below == {p \in Nat \X Nat : p[1] < p[2]}

LEMMA BelowIsWellFounded == IsWellFoundedOn(Below, Nat)
  BY NatLessThanWellFounded, Zenon DEF OpToRel, Below

LEMMA LeastNumber ==
  ASSUME NEW S \in SUBSET Nat, S # {}
  PROVE  \E m \in S : \A n \in S : m <= n
<1>1. PICK m \in S : \A n \in S : <<n, m>> \notin Below
  BY BelowIsWellFounded, WFMin
<1>2. ASSUME NEW n \in S PROVE m <= n
  <2>1. n \in Nat /\ m \in Nat
    OBVIOUS
  <2>2. <<n, m>> \notin Below
    BY <1>1
  <2>3. QED
    BY <2>1, <2>2 DEF Below
<1>3. QED
  BY <1>2

\* Induction for sets: the first number not in S would be 0 or one more than a
\* number in S.
LEMMA NatInductionOnSets ==
  ASSUME NEW S, 0 \in S, \A n \in Nat : n \in S => n + 1 \in S
  PROVE  \A n \in Nat : n \in S
<1> DEFINE Missing == {n \in Nat : n \notin S}
<1> SUFFICES ASSUME Missing # {} PROVE FALSE
  OBVIOUS
<1>1. PICK first \in Missing : \A n \in Missing : first <= n
  BY LeastNumber
<1>2. first # 0 /\ first - 1 \in Nat
  OBVIOUS
<1>3. first - 1 \in S
  BY <1>1, <1>2
<1>4. (first - 1) + 1 \in S /\ (first - 1) + 1 = first
  BY <1>2, <1>3
<1>5. QED
  BY <1>4

LEMMA DigitsOfANumber ==
  ASSUME NEW v \in Nat
  PROVE  Digits(v) \in Nat /\ Digits(v) >= 1
<1> DEFINE powers == {n \in 1 .. v : Base ^ n <= v}
<1>1. IsFiniteSet(1 .. v)
  BY FS_Interval
<1>2. IsFiniteSet(powers) /\ Cardinality(powers) \in Nat
  BY <1>1, FS_Subset, FS_CardinalityType
<1>3. QED
  BY <1>2 DEF Digits

LEMMA RoomForADigit == accept_digits \in Nat /\ accept_digits >= 1
<1>1. IntMax \in Nat /\ -IntMin \in Nat
  BY InpAssumption DEF IntMin
<1>2. QED
  BY <1>1, DigitsOfANumber DEF accept_digits

\* The conversion to int gives an int, and an int back.
LEMMA AsIntIsRegister == \A v \in Int : AsInt(v) \in Register
<1>1. SUFFICES ASSUME NEW v \in Int PROVE AsInt(v) \in Register
  OBVIOUS
<1> DEFINE m == IntMax + 1
           r == (v + m) % (2 * m)
<1>2. m \in Nat /\ m >= 1
  BY InpAssumption
<1> HIDE DEF m
<1>3. 2 * m \in Nat /\ 2 * m >= 1 /\ v + m \in Int
  BY <1>2
<1>4. r \in 0 .. 2 * m - 1
  BY <1>3
<1>5. AsInt(v) = r - m
  BY InpAssumption DEF AsInt, m
<1> HIDE DEF r
<1>6. QED
  BY <1>2, <1>4, <1>5, InpAssumption DEF Register, IntMin, m

LEMMA AsIntOfRegister == \A v \in Register : AsInt(v) = v
<1>1. SUFFICES ASSUME NEW v \in Register PROVE AsInt(v) = v
  OBVIOUS
<1> DEFINE m == IntMax + 1
<1>2. m \in Nat /\ m >= 1 /\ v \in Int /\ v + m \in Nat /\ v + m < 2 * m
  BY InpAssumption DEF Register, IntMin
<1>3. AsInt(v) = ((v + m) % (2 * m)) - m
  <2>1. v + IntMax + 1 = v + m
    BY InpAssumption DEF Register, IntMin
  <2>2. QED
    BY <2>1 DEF AsInt
<1> HIDE DEF m
<1>4. ASSUME NEW a \in Nat, NEW b \in Nat, a < b PROVE a % b = a
  BY <1>4
<1>5. (v + m) % (2 * m) = v + m
  BY <1>2, <1>4
<1>6. QED
  BY <1>2, <1>3, <1>5

-----------------------------------------------------------------------------
\* strtol

IsBlanks(text, n) == /\ \A i \in 1 .. n : text[i] = Blank
                     /\ n < Len(text) => text[n + 1] # Blank

LEMMA BlanksOfText ==
  ASSUME NEW text \in Text
  PROVE  /\ Blanks(text) \in 0 .. Len(text) /\ IsBlanks(text, Blanks(text))
         /\ \A n \in 0 .. Len(text) : IsBlanks(text, n) => n = Blanks(text)
<1>0. Len(text) \in Nat
  BY DEF Text
<1> DEFINE NoBlank == {n \in 0 .. Len(text) : n < Len(text) => text[n + 1] # Blank}
<1>1. PICK first \in NoBlank : \A n \in NoBlank : first <= n
  <2>1. Len(text) \in NoBlank
    BY <1>0
  <2>2. NoBlank \in SUBSET Nat
    BY <1>0
  <2> HIDE DEF NoBlank
  <2>3. QED
    BY <2>1, <2>2, LeastNumber
<1>2. \A i \in 1 .. first : text[i] = Blank
  <2>1. SUFFICES ASSUME NEW i \in 1 .. first PROVE text[i] = Blank
    OBVIOUS
  <2>2. first \in 0 .. Len(text)
    OBVIOUS
  <2>3. i - 1 \in 0 .. Len(text) /\ ~(first <= i - 1) /\ (i - 1) + 1 = i
    BY <1>0, <2>2
  <2>4. i - 1 \notin NoBlank
    BY <1>1, <2>3
  <2>5. QED
    BY <2>3, <2>4
<1>3. first \in 0 .. Len(text) /\ IsBlanks(text, first)
  BY <1>2 DEF IsBlanks
<1>4. ASSUME NEW n \in 0 .. Len(text), IsBlanks(text, n),
             NEW m \in 0 .. Len(text), IsBlanks(text, m), n < m
      PROVE  FALSE
  BY <1>0, <1>4 DEF IsBlanks
<1>5. Blanks(text) \in 0 .. Len(text) /\ IsBlanks(text, Blanks(text))
  BY <1>3 DEF Blanks, IsBlanks
<1>6. \A n \in 0 .. Len(text) : IsBlanks(text, n) => n = Blanks(text)
  BY <1>0, <1>4, <1>5
<1>7. QED
  BY <1>5, <1>6

LEMMA FirstDigitInText ==
  ASSUME NEW text \in Text
  PROVE  FirstDigit(text) \in 1 .. Len(text) + 1
<1>1. Blanks(text) \in 0 .. Len(text) /\ Len(text) \in Nat
  BY BlanksOfText DEF Text
<1>2. QED
  BY <1>1 DEF FirstDigit, Signed

IsDigits(text, n) ==
  LET after == FirstDigit(text) + n
  IN  /\ \A i \in FirstDigit(text) .. after - 1 : text[i] \in Digit
      /\ after <= Len(text) => text[after] \notin Digit

LEMMA DigitsOfText ==
  ASSUME NEW text \in Text
  PROVE  /\ NumDigits(text) \in 0 .. Len(text) + 1 - FirstDigit(text)
         /\ IsDigits(text, NumDigits(text))
         /\ \A n \in 0 .. Len(text) + 1 - FirstDigit(text) :
              IsDigits(text, n) => n = NumDigits(text)
<1> DEFINE first == FirstDigit(text)
           Room == 0 .. Len(text) + 1 - first
           Ends == {n \in Room : first + n <= Len(text) => text[first + n] \notin Digit}
<1>1. Len(text) \in Nat /\ first \in 1 .. Len(text) + 1
  BY FirstDigitInText DEF Text
<1>0. \A n : IsDigits(text, n) <=>
               /\ \A i \in first .. (first + n) - 1 : text[i] \in Digit
               /\ first + n <= Len(text) => text[first + n] \notin Digit
  BY DEF IsDigits
<1> HIDE DEF first
<1>2. PICK end \in Ends : \A n \in Ends : end <= n
  <2>1. Len(text) + 1 - first \in Ends
    BY <1>1
  <2>2. Ends \in SUBSET Nat
    BY <1>1
  <2> HIDE DEF Ends
  <2>3. QED
    BY <2>1, <2>2, LeastNumber
<1>3. \A i \in first .. (first + end) - 1 : text[i] \in Digit
  <2>1. SUFFICES ASSUME NEW i \in first .. (first + end) - 1 PROVE text[i] \in Digit
    OBVIOUS
  <2>2. end \in Room
    OBVIOUS
  <2>3. i - first \in Room /\ ~(end <= i - first) /\ first + (i - first) = i
    BY <1>1, <2>2
  <2>4. i - first \notin Ends
    BY <1>2, <2>3
  <2>5. QED
    BY <2>3, <2>4
<1>4. end \in Room /\ IsDigits(text, end)
  BY <1>0, <1>3
<1>5. ASSUME NEW n \in Room, IsDigits(text, n), NEW m \in Room, IsDigits(text, m), n < m
      PROVE  FALSE
  <2>1. first + n \in first .. (first + m) - 1 /\ first + n <= Len(text)
    BY <1>1, <1>5
  <2>2. QED
    BY <1>0, <1>5, <2>1
<1>6. NumDigits(text) \in Room /\ IsDigits(text, NumDigits(text))
  BY <1>4 DEF NumDigits, IsDigits, first
<1>7. \A n \in Room : IsDigits(text, n) => n = NumDigits(text)
  BY <1>1, <1>5, <1>6
<1>8. QED
  BY <1>6, <1>7 DEF first

\* The digits of a text, and the number they are.
LEMMA NumeralOfText ==
  ASSUME NEW text \in Text
  PROVE  /\ Numeral(text) \in Seq(Digit) /\ Len(Numeral(text)) = NumDigits(text)
         /\ \A i \in 1 .. NumDigits(text) : Numeral(text)[i] = text[FirstDigit(text) + i - 1]
<1> DEFINE first == FirstDigit(text)
           n == NumDigits(text)
<1>1. text \in Seq(Char) /\ Len(text) \in Nat /\ first \in 1 .. Len(text) + 1
  BY FirstDigitInText DEF Text
<1>2. n \in 0 .. Len(text) + 1 - first /\ \A i \in first .. (first + n) - 1 : text[i] \in Digit
  BY DigitsOfText DEF IsDigits
<1>3. Numeral(text) = SubSeq(text, first, first + n - 1)
  BY DEF Numeral
<1> HIDE DEF first, n
<1>4. /\ Numeral(text) \in Seq(Char) /\ Len(Numeral(text)) = n
      /\ \A i \in 1 .. n : Numeral(text)[i] = text[first + i - 1]
  BY <1>1, <1>2, <1>3
<1>5. \A i \in 1 .. n : Numeral(text)[i] \in Digit
  BY <1>1, <1>2, <1>4
<1>6. Numeral(text) \in Seq(Digit)
  BY <1>4, <1>5
<1>7. QED
  BY <1>4, <1>6 DEF first, n

\* The recursion over the digits defines a function.
LEMMA ValueIsDefined ==
  ASSUME NEW digits \in Seq(Digit)
  PROVE  Value(digits) = [n \in 0 .. Len(digits) |->
                            IF n = 0 THEN 0 ELSE Value(digits)[n - 1] * Base + digits[n]]
<1> DEFINE Number(f, n) == IF n = 0 THEN 0 ELSE f[n - 1] * Base + digits[n]
           Defined == {k \in Nat : \E f : f = [n \in 0 .. k |-> Number(f, n)]}
<1>1. 0 \in Defined
  <2>1. [n \in 0 .. 0 |-> 0] = [n \in 0 .. 0 |-> Number([m \in 0 .. 0 |-> 0], n)]
    OBVIOUS
  <2>2. QED
    BY <2>1
<1>2. ASSUME NEW k \in Nat, k \in Defined PROVE k + 1 \in Defined
  <2>1. PICK f : f = [n \in 0 .. k |-> Number(f, n)]
    BY <1>2
  <2> DEFINE g == [n \in 0 .. k + 1 |->
                     IF n <= k THEN f[n] ELSE f[k] * Base + digits[k + 1]]
  <2>2. ASSUME NEW n \in 0 .. k + 1 PROVE g[n] = Number(g, n)
    <3>1. CASE n = 0
      BY <2>1, <3>1
    <3>2. CASE n \in 1 .. k
      <4>1. g[n] = f[n] /\ g[n - 1] = f[n - 1]
        BY <3>2
      <4>2. f[n] = Number(f, n)
        BY <2>1, <3>2
      <4>3. QED
        BY <3>2, <4>1, <4>2
    <3>3. CASE n = k + 1
      <4>1. g[n] = f[k] * Base + digits[k + 1] /\ g[k] = f[k] /\ n - 1 = k /\ n # 0
        BY <3>3
      <4>2. QED
        BY <3>3, <4>1
    <3>4. QED
      BY <3>1, <3>2, <3>3
  <2>3. g = [n \in 0 .. k + 1 |-> Number(g, n)]
    BY <2>2
  <2>4. \E h : h = [n \in 0 .. k + 1 |-> Number(h, n)]
    <3> HIDE DEF g
    <3>1. QED
      BY <2>3
  <2>5. k + 1 \in Nat
    OBVIOUS
  <2>6. QED
    BY <2>4, <2>5, Zenon
<1>3. Len(digits) \in Defined
  <2> HIDE DEF Defined
  <2>1. \A n \in Nat : n \in Defined
    BY <1>1, <1>2, NatInductionOnSets
  <2>2. QED
    BY <2>1
<1>4. QED
  BY <1>3 DEF Value

LEMMA ValueIsNat ==
  ASSUME NEW digits \in Seq(Digit)
  PROVE  Value(digits)[Len(digits)] \in Nat
<1> DEFINE Numbers == {n \in Nat : n <= Len(digits) => Value(digits)[n] \in Nat}
<1>1. \A n \in 0 .. Len(digits) :
        Value(digits)[n] = IF n = 0 THEN 0 ELSE Value(digits)[n - 1] * Base + digits[n]
  BY ValueIsDefined
<1>2. 0 \in Numbers
  BY <1>1
<1>3. ASSUME NEW n \in Nat, n \in Numbers PROVE n + 1 \in Numbers
  <2> SUFFICES ASSUME n + 1 <= Len(digits) PROVE Value(digits)[n + 1] \in Nat
    OBVIOUS
  <2>1. Value(digits)[n + 1] = Value(digits)[n] * Base + digits[n + 1]
    BY <1>1
  <2>2. Value(digits)[n] \in Nat /\ Base \in Nat /\ digits[n + 1] \in Nat
    <3>1. n + 1 \in 1 .. Len(digits) /\ n <= Len(digits)
      OBVIOUS
    <3>2. digits[n + 1] \in Digit
      BY <3>1
    <3>3. QED
      BY <1>3, <3>1, <3>2, Characters, InpAssumption
  <2>3. Value(digits)[n] * Base \in Nat
    BY <2>2
  <2>4. QED
    BY <2>1, <2>2, <2>3
<1>4. Len(digits) \in Numbers
  <2> HIDE DEF Numbers
  <2>1. QED
    BY <1>2, <1>3, NatInductionOnSets
<1>5. QED
  BY <1>4

LEMMA strtolIsInt ==
  ASSUME NEW text \in Text
  PROVE  strtol(text) \in Int
<1>1. Magnitude(text) \in Nat
  BY NumeralOfText, ValueIsNat DEF Magnitude
<1>2. QED
  BY <1>1 DEF strtol

\* A Newline behind a line changes nothing: strtol stops there.
LEMMA NewlineIsNotRead ==
  ASSUME NEW line \in Seq(Digit \cup Others)
  PROVE  LET read == Append(line, Newline)
         IN  /\ line \in Text /\ read \in Text
             /\ NumDigits(read) = NumDigits(line) /\ strtol(read) = strtol(line)
<1> DEFINE read == Append(line, Newline)
           n == Len(line)
<1>1. line \in Text /\ read \in Text /\ n \in Nat
  <2>1. Digit \cup Others \subseteq Char /\ Newline \in Char
    BY Characters
  <2>2. line \in Seq(Char)
    BY <2>1, SameElements
  <2>3. QED
    BY <2>1, <2>2 DEF Text
<1>2. /\ Len(read) = n + 1 /\ read[n + 1] = Newline
      /\ \A i \in 1 .. n : read[i] = line[i]
  OBVIOUS
<1> HIDE DEF read, n
<1>3. Blanks(read) = Blanks(line)
  <2>1. Blanks(line) \in 0 .. n /\ IsBlanks(line, Blanks(line))
    BY <1>1, BlanksOfText DEF n
  <2>2. IsBlanks(read, Blanks(line))
    BY <1>1, <1>2, <2>1, Characters DEF IsBlanks, n
  <2>3. Blanks(line) \in 0 .. Len(read)
    BY <1>1, <1>2, <2>1
  <2>4. QED
    BY <1>1, <2>2, <2>3, BlanksOfText
<1>4. Signed(read) = Signed(line)
  <2>1. Blanks(line) \in 0 .. n
    BY <1>1, BlanksOfText DEF n
  <2>2. CASE Blanks(line) < n
    <3>1. Blanks(line) + 1 \in 1 .. n
      BY <1>1, <2>1, <2>2
    <3>2. read[Blanks(line) + 1] = line[Blanks(line) + 1]
      BY <1>2, <3>1
    <3>3. QED
      BY <1>1, <1>2, <1>3, <2>1, <2>2, <3>1, <3>2 DEF Signed, n
  <2>3. CASE Blanks(line) = n
    <3>1. ~Signed(line) /\ ~Signed(read)
      BY <1>1, <1>2, <1>3, <2>3, Characters DEF Signed, n
    <3>2. QED
      BY <3>1 DEF Signed
  <2>4. QED
    BY <1>1, <2>1, <2>2, <2>3
<1>5. FirstDigit(read) = FirstDigit(line)
  BY <1>3, <1>4 DEF FirstDigit
<1> DEFINE first == FirstDigit(line)
           digits == NumDigits(line)
<1>6. first \in 1 .. n + 1 /\ digits \in 0 .. n + 1 - first /\ IsDigits(line, digits)
  BY <1>1, FirstDigitInText, DigitsOfText DEF n
<1>7. NumDigits(read) = digits
  <2>1. \A i \in first .. (first + digits) - 1 : read[i] \in Digit
    BY <1>1, <1>2, <1>6 DEF IsDigits
  <2>2. first + digits <= Len(read) => read[first + digits] \notin Digit
    <3> HIDE DEF first, digits
    <3>1. first + digits \in 1 .. n + 1
      BY <1>1, <1>6
    <3>2. CASE first + digits = n + 1
      BY <1>2, <3>2, Characters
    <3>3. CASE first + digits \in 1 .. n
      BY <1>1, <1>2, <1>6, <3>3 DEF IsDigits, n, first, digits
    <3>4. QED
      BY <1>1, <3>1, <3>2, <3>3
  <2>3. IsDigits(read, digits)
    BY <1>5, <2>1, <2>2 DEF IsDigits
  <2>4. digits \in 0 .. Len(read) + 1 - first
    BY <1>1, <1>2, <1>6
  <2>5. QED
    BY <1>1, <1>5, <2>3, <2>4, DigitsOfText
<1>8. Numeral(read) = Numeral(line)
  <2>1. /\ Numeral(read) \in Seq(Digit) /\ Len(Numeral(read)) = digits
        /\ \A i \in 1 .. digits : Numeral(read)[i] = read[first + i - 1]
    BY <1>1, <1>5, <1>7, NumeralOfText
  <2>2. /\ Numeral(line) \in Seq(Digit) /\ Len(Numeral(line)) = digits
        /\ \A i \in 1 .. digits : Numeral(line)[i] = line[first + i - 1]
    BY <1>1, NumeralOfText
  <2> HIDE DEF first, digits
  <2>3. \A i \in 1 .. digits : read[first + i - 1] = line[first + i - 1]
    BY <1>1, <1>2, <1>6
  <2>4. QED
    BY <2>1, <2>2, <2>3
<1>9. ASSUME Signed(line) PROVE read[first - 1] = line[first - 1]
  <2>1. first - 1 \in 1 .. n
    BY <1>1, <1>9, BlanksOfText DEF Signed, FirstDigit, n
  <2>2. QED
    BY <1>2, <2>1
<1>10. strtol(read) = strtol(line)
  BY <1>4, <1>5, <1>8, <1>9 DEF strtol, Magnitude
<1>11. QED
  BY <1>1, <1>7, <1>10 DEF read

LEMMA NewlineIsNoNumber == NumDigits(<<Newline>>) = 0
<1>1. <<>> \in Seq(Digit \cup Others) /\ Append(<<>>, Newline) = <<Newline>>
  OBVIOUS
<1>2. <<>> \in Text /\ NumDigits(<<Newline>>) = NumDigits(<<>>)
  BY <1>1, NewlineIsNotRead
<1>3. FirstDigit(<<>>) \in 1 .. Len(<<>>) + 1
  BY <1>2, FirstDigitInText
<1>4. NumDigits(<<>>) \in 0 .. Len(<<>>) + 1 - FirstDigit(<<>>)
  BY <1>2, DigitsOfText
<1>5. QED
  BY <1>2, <1>3, <1>4

-----------------------------------------------------------------------------
\* What lines spell

LEMMA SpellingIsDefined ==
  ASSUME NEW lines \in Seq(Lines)
  PROVE  Spelling(lines) = [n \in 0 .. Len(lines) |->
                              IF n = 0 THEN <<>>
                              ELSE Spelling(lines)[n - 1] \o NumbersOn(lines[n])]
<1> DEFINE none == <<>>
           With(before, n) == before \o NumbersOn(lines[n])
           Grown(f, n) == IF n = 0 THEN none ELSE With(f[n - 1], n)
           Defined == {k \in Nat : \E f : f = [n \in 0 .. k |-> Grown(f, n)]}
<1> HIDE DEF none, With
<1>1. 0 \in Defined
  <2>1. [n \in 0 .. 0 |-> none] = [n \in 0 .. 0 |-> Grown([m \in 0 .. 0 |-> none], n)]
    OBVIOUS
  <2>2. QED
    BY <2>1
<1>2. ASSUME NEW k \in Nat, k \in Defined PROVE k + 1 \in Defined
  <2>1. PICK f : f = [n \in 0 .. k |-> Grown(f, n)]
    BY <1>2
  <2> DEFINE last == With(f[k], k + 1)
             g == [n \in 0 .. k + 1 |-> IF n <= k THEN f[n] ELSE last]
  <2>2. ASSUME NEW n \in 0 .. k + 1 PROVE g[n] = Grown(g, n)
    <3>1. CASE n = 0
      BY <2>1, <3>1
    <3>2. CASE n \in 1 .. k
      <4>1. g[n] = f[n] /\ g[n - 1] = f[n - 1]
        BY <3>2
      <4>2. f[n] = Grown(f, n)
        BY <2>1, <3>2
      <4>3. QED
        BY <3>2, <4>1, <4>2
    <3>3. CASE n = k + 1
      <4>1. g[n] = last /\ g[k] = f[k] /\ n - 1 = k /\ n # 0
        BY <3>3
      <4>2. QED
        BY <3>3, <4>1
    <3>4. QED
      BY <3>1, <3>2, <3>3
  <2>3. g = [n \in 0 .. k + 1 |-> Grown(g, n)]
    BY <2>2
  <2>4. \E h : h = [n \in 0 .. k + 1 |-> Grown(h, n)]
    <3> HIDE DEF g
    <3>1. QED
      BY <2>3
  <2>5. k + 1 \in Nat
    OBVIOUS
  <2>6. QED
    BY <2>4, <2>5, Zenon
<1>3. Len(lines) \in Defined
  <2> HIDE DEF Defined
  <2>1. \A n \in Nat : n \in Defined
    BY <1>1, <1>2, NatInductionOnSets
  <2>2. QED
    BY <2>1
<1>4. QED
  BY <1>3 DEF Spelling, none, With

\* Line by line.
LEMMA SpellingStep ==
  ASSUME NEW lines \in Seq(Lines)
  PROVE  /\ Spelling(lines)[0] = <<>>
         /\ \A n \in Nat : n + 1 <= Len(lines) =>
              Spelling(lines)[n + 1] = Spelling(lines)[n] \o NumbersOn(lines[n + 1])
<1>1. \A n \in 0 .. Len(lines) :
        Spelling(lines)[n] = IF n = 0 THEN <<>>
                             ELSE Spelling(lines)[n - 1] \o NumbersOn(lines[n])
  BY SpellingIsDefined
<1>2. ASSUME NEW n \in Nat, n + 1 <= Len(lines)
      PROVE  n + 1 \in 0 .. Len(lines) /\ n + 1 # 0 /\ (n + 1) - 1 = n
  BY <1>2
<1>3. Spelling(lines)[0] = <<>>
  <2>1. 0 \in 0 .. Len(lines)
    OBVIOUS
  <2>2. QED
    BY <1>1, <2>1, Zenon
<1>4. ASSUME NEW n \in Nat, n + 1 <= Len(lines)
      PROVE  Spelling(lines)[n + 1] = Spelling(lines)[n] \o NumbersOn(lines[n + 1])
  <2>1. n + 1 \in 0 .. Len(lines) /\ n + 1 # 0 /\ (n + 1) - 1 = n
    BY <1>2, <1>4
  <2>2. QED
    BY <1>1, <2>1, Zenon
<1>5. QED
  BY <1>3, <1>4

LEMMA SpellingIsNumbers ==
  ASSUME NEW lines \in Seq(Lines)
  PROVE  \A n \in Nat : n <= Len(lines) => Spelling(lines)[n] \in Seq(Register)
<1> DEFINE Typed == {n \in Nat : n <= Len(lines) => Spelling(lines)[n] \in Seq(Register)}
<1>1. 0 \in Typed
  <2>1. Spelling(lines)[0] = <<>>
    BY SpellingStep
  <2>2. <<>> \in Seq(Register)
    OBVIOUS
  <2>3. QED
    BY <2>1, <2>2, Zenon
<1>2. ASSUME NEW n \in Nat, n \in Typed PROVE n + 1 \in Typed
  <2> SUFFICES ASSUME n + 1 <= Len(lines) PROVE Spelling(lines)[n + 1] \in Seq(Register)
    OBVIOUS
  <2>1. Spelling(lines)[n] \in Seq(Register)
    BY <1>2
  <2>2. NumbersOn(lines[n + 1]) \in Seq(Register)
    BY DEF Spells, NumbersOn
  <2>3. Spelling(lines)[n + 1] = Spelling(lines)[n] \o NumbersOn(lines[n + 1])
    BY SpellingStep
  <2>4. QED
    BY <2>1, <2>2, <2>3
<1>3. QED
  <2> HIDE DEF Typed
  <2>1. \A n \in Nat : n \in Typed
    BY <1>1, <1>2, NatInductionOnSets
  <2>2. QED
    BY <2>1 DEF Typed

\* A line more changes nothing of what the lines before it spell.
LEMMA SpellingOfMore ==
  ASSUME NEW lines \in Seq(Lines), NEW line \in Lines
  PROVE  \A n \in 0 .. Len(lines) : Spelling(Append(lines, line))[n] = Spelling(lines)[n]
<1> DEFINE more == Append(lines, line)
           Same == {n \in Nat : n <= Len(lines) => Spelling(more)[n] = Spelling(lines)[n]}
<1>1. /\ Len(lines) \in Nat /\ more \in Seq(Lines) /\ Len(more) = Len(lines) + 1
      /\ \A i \in 1 .. Len(lines) : more[i] = lines[i]
  OBVIOUS
<1> HIDE DEF more
<1>2. 0 \in Same
  BY <1>1, SpellingStep
<1>3. ASSUME NEW n \in Nat, n \in Same PROVE n + 1 \in Same
  <2> SUFFICES ASSUME n + 1 <= Len(lines) PROVE Spelling(more)[n + 1] = Spelling(lines)[n + 1]
    OBVIOUS
  <2>1. Spelling(more)[n] = Spelling(lines)[n] /\ more[n + 1] = lines[n + 1]
    BY <1>1, <1>3
  <2>2. n + 1 <= Len(more) /\ Len(more) \in Nat
    BY <1>1
  <2>3. QED
    BY <1>1, <2>1, <2>2, SpellingStep
<1>4. QED
  <2> HIDE DEF Same
  <2>1. \A n \in Nat : n \in Same
    BY <1>2, <1>3, NatInductionOnSets
  <2>2. QED
    BY <1>1, <2>1 DEF Same, more

Begins(s, t) == Len(s) <= Len(t) /\ \A i \in 1 .. Len(s) : t[i] = s[i]

LEMMA BeginsIsPrefix ==
  ASSUME NEW S, NEW s \in Seq(S), NEW t \in Seq(S), Begins(s, t)
  PROVE  IsPrefix(s, t)
<1>1. Len(s) <= Len(t) /\ \A i \in 1 .. Len(s) : t[i] = s[i]
  BY DEF Begins
<1>2. SubSeq(t, 1, Len(s)) \in Seq(S) /\ Len(SubSeq(t, 1, Len(s))) = Len(s)
  BY <1>1
<1>3. SubSeq(s, 1, Len(s)) = s
  OBVIOUS
<1>4. \A i \in 1 .. Len(s) : SubSeq(t, 1, Len(s))[i] = t[i]
  BY <1>1
<1>5. SubSeq(t, 1, Len(s)) = s
  BY <1>1, <1>2, <1>4
<1>6. QED
  BY <1>1, <1>3, <1>5 DEF IsPrefix

\* More lines spell more numbers.
LEMMA SpellingGrows ==
  ASSUME NEW lines \in Seq(Lines), NEW k \in 0 .. Len(lines)
  PROVE  Begins(Spelling(lines)[k], Spelling(lines)[Len(lines)])
<1> DEFINE s == Spelling(lines)[k]
           Longer == {n \in Nat : k <= n /\ n <= Len(lines) => Begins(s, Spelling(lines)[n])}
<1>1. \A n \in Nat : n <= Len(lines) => Spelling(lines)[n] \in Seq(Register)
  BY SpellingIsNumbers
<1>2. s \in Seq(Register) /\ Begins(s, s)
  BY <1>1 DEF Begins
<1> HIDE DEF s
<1>3. 0 \in Longer
  BY <1>2 DEF s
<1>4. ASSUME NEW n \in Nat, n \in Longer PROVE n + 1 \in Longer
  <2> SUFFICES ASSUME k <= n + 1, n + 1 <= Len(lines) PROVE Begins(s, Spelling(lines)[n + 1])
    OBVIOUS
  <2>1. CASE k = n + 1
    BY <1>2, <2>1 DEF s
  <2>2. CASE k <= n
    <3>1. Begins(s, Spelling(lines)[n]) /\ Spelling(lines)[n] \in Seq(Register)
      BY <1>1, <1>4, <2>2
    <3> DEFINE t == Spelling(lines)[n]
               v == NumbersOn(lines[n + 1])
    <3>2. Spelling(lines)[n + 1] = t \o v
      BY SpellingStep
    <3>3. v \in Seq(Register)
      BY DEF NumbersOn, Spells
    <3> HIDE DEF t, v
    <3>4. Begins(s, t \o v)
      BY <1>2, <3>1, <3>3 DEF Begins, t
    <3>5. QED
      BY <3>2, <3>4
  <2>3. QED
    BY <2>1, <2>2
<1>5. QED
  <2> HIDE DEF Longer
  <2>1. \A n \in Nat : n \in Longer
    BY <1>3, <1>4, NatInductionOnSets
  <2>2. QED
    BY <2>1 DEF Longer, s

-----------------------------------------------------------------------------
\* Types

LEMMA ChunkOfStdin ==
  ASSUME TypeOK, ChunkEnds # {}
  PROVE  /\ ChunkLength \in 1 .. Len(stdin)
         /\ ChunkLength \in ChunkEnds /\ \A n \in ChunkEnds : ChunkLength <= n
         /\ Chunk \in Text
         /\ AfterChunk \in Text /\ Len(AfterChunk) = Len(stdin) - ChunkLength
         /\ \A i \in 1 .. Len(AfterChunk) : AfterChunk[i] = stdin[ChunkLength + i]
<1>1. stdin \in Seq(Char) /\ Len(stdin) \in Nat
  BY DEF TypeOK, Char
<1>2. ChunkEnds \in SUBSET Nat /\ ChunkEnds \subseteq 1 .. Len(stdin)
  BY <1>1 DEF ChunkEnds
<1>3. ChunkLength \in ChunkEnds /\ \A n \in ChunkEnds : ChunkLength <= n
  BY <1>2, LeastNumber DEF ChunkLength
<1>4. ChunkLength \in 1 .. Len(stdin)
  BY <1>2, <1>3
<1>5. Chunk \in Text
  BY <1>1, <1>4 DEF Chunk, Text
<1>6. /\ AfterChunk \in Text /\ Len(AfterChunk) = Len(stdin) - ChunkLength
      /\ \A i \in 1 .. Len(AfterChunk) : AfterChunk[i] = stdin[ChunkLength + i]
  BY <1>1, <1>4 DEF AfterChunk, Text
<1>7. QED
  BY <1>3, <1>4, <1>5, <1>6

LEMMA TypedText ==
  ASSUME NEW line \in Lines
  PROVE  /\ line \in Seq(Digit \cup Others) /\ Len(line) \in Nat
         /\ Append(line, Newline) \in Text
<1>1. line \in Seq(Digit \cup Others)
  BY InpAssumption
<1>2. QED
  BY <1>1, NewlineIsNotRead

LEMMA TypeTypes == TypeOK /\ Type => TypeOK'
<1> SUFFICES ASSUME TypeOK, Type PROVE TypeOK'
  OBVIOUS
<1>1. PICK line \in Lines : /\ typed' = Append(typed, line)
                            /\ stdin' = stdin \o Append(line, Newline)
  BY DEF Type
<1> DEFINE read == Append(line, Newline)
<1>2. stdin \in Seq(Char) /\ read \in Seq(Char) /\ Len(line) \in Nat
  BY TypedText DEF TypeOK, Char, Text
<1>3. read[Len(read)] = Newline /\ Len(read) \in Nat \ {0}
  BY <1>2, TypedText
<1> HIDE DEF read
<1>4. /\ stdin' \in Seq(Char) /\ Len(stdin') = Len(stdin) + Len(read)
      /\ stdin'[Len(stdin) + Len(read)] = read[Len(read)]
  BY <1>1, <1>2, <1>3 DEF read
<1>5. Last(stdin') = Newline
  BY <1>3, <1>4 DEF Last
<1>6. typed' \in Seq(Lines) /\ Len(typed') <= MaxLines
  BY <1>1, InpAssumption DEF Type, TypeOK
<1>7. QED
  BY <1>4, <1>5, <1>6 DEF Type, TypeOK, Char

LEMMA ReturnTypes ==
  ASSUME TypeOK, asking, Len(numbers) < MaxNumbers, NEW number \in Register, Return(number)
  PROVE  /\ asking' \in BOOLEAN
         /\ numbers' \in Seq(Register) /\ Len(numbers') <= MaxNumbers
<1>1. MaxNumbers \in Nat /\ numbers \in Seq(Register)
  BY InpAssumption DEF TypeOK
<1>2. numbers' \in Seq(Register) /\ Len(numbers') = Len(numbers) + 1
  BY <1>1 DEF Return
<1>3. Len(numbers) \in Nat
  BY <1>1
<1>4. Len(numbers') <= MaxNumbers
  BY <1>1, <1>2, <1>3
<1>5. QED
  BY <1>2, <1>4 DEF Return

\* Only an INP that may still return a number asks for one.
TInv == TypeOK /\ (asking => Len(numbers) < MaxNumbers)

LEMMA ReadChunkTypes == TInv /\ ReadChunk => TInv'
<1> SUFFICES ASSUME TInv, ReadChunk PROVE TInv'
  OBVIOUS
<1>1. /\ TypeOK /\ asking /\ Len(numbers) < MaxNumbers /\ ChunkEnds # {}
      /\ stdin \in Seq(Char) /\ (stdin # <<>> => Last(stdin) = Newline)
  BY DEF TInv, TypeOK, ReadChunk, Char
<1>2. AsInt(strtol(Chunk)) \in Register
  BY <1>1, ChunkOfStdin, strtolIsInt, AsIntIsRegister
<1>3. stdin' \in Text /\ (stdin' # <<>> => Last(stdin') = Newline)
  <2>1. stdin' = AfterChunk
    BY DEF ReadChunk
  <2>2. /\ ChunkLength \in 1 .. Len(stdin) /\ AfterChunk \in Seq(Char)
        /\ Len(AfterChunk) = Len(stdin) - ChunkLength
        /\ \A i \in 1 .. Len(AfterChunk) : AfterChunk[i] = stdin[ChunkLength + i]
    BY <1>1, ChunkOfStdin DEF Text
  <2>3. ASSUME AfterChunk # <<>> PROVE AfterChunk[Len(AfterChunk)] = stdin[Len(stdin)]
    <3>1. Len(AfterChunk) \in Nat /\ Len(AfterChunk) # 0 /\ Len(stdin) \in Nat
      BY <1>1, <2>2, <2>3
    <3>2. Len(AfterChunk) \in 1 .. Len(AfterChunk) /\ ChunkLength + Len(AfterChunk) = Len(stdin)
      BY <2>2, <3>1
    <3>3. QED
      BY <2>2, <3>2
  <2>4. stdin # <<>>
    BY <2>2
  <2>5. QED
    BY <1>1, <2>1, <2>2, <2>3, <2>4 DEF Last, Text
<1>4. CASE IsNumber(Chunk)
  <2>1. Return(AsInt(strtol(Chunk))) /\ UNCHANGED <<closed, typed>>
    BY <1>4 DEF ReadChunk
  <2>2. asking' = FALSE /\ numbers' \in Seq(Register) /\ Len(numbers') <= MaxNumbers
    BY <1>1, <1>2, <2>1, ReturnTypes DEF Return
  <2>3. QED
    BY <1>1, <1>3, <2>1, <2>2 DEF TInv, TypeOK, Char, Text
<1>5. CASE ~IsNumber(Chunk)
  BY <1>1, <1>3, <1>5 DEF ReadChunk, TInv, TypeOK, Char, Text
<1>6. QED
  BY <1>4, <1>5

LEMMA NextTypes == TInv /\ [Next]_vars => TInv'
<1> SUFFICES ASSUME TInv, [Next]_vars PROVE TInv'
  OBVIOUS
<1>1. CASE Type
  BY <1>1, TypeTypes DEF TInv, Type
<1>2. CASE Close \/ Ask
  <2>1. /\ UNCHANGED <<stdin, numbers, typed>>
        /\ asking' => Len(numbers) < MaxNumbers
    BY <1>2 DEF Close, Ask, TInv
  <2>2. closed' \in BOOLEAN /\ asking' \in BOOLEAN
    BY <1>2 DEF Close, Ask, TInv, TypeOK
  <2>3. QED
    BY <2>1, <2>2 DEF TInv, TypeOK
<1>3. CASE ReadChunk
  BY <1>3, ReadChunkTypes
<1>4. CASE ReadPastEnd
  <2>1. UNCHANGED <<stdin, closed, typed>> /\ asking /\ TypeOK /\ Len(numbers) < MaxNumbers
    BY <1>4 DEF ReadPastEnd, AtEnd, TInv
  <2>2. CASE \E stale \in Register : Return(stale)
    <3>1. asking' = FALSE /\ numbers' \in Seq(Register) /\ Len(numbers') <= MaxNumbers
      BY <2>1, <2>2, ReturnTypes DEF Return
    <3>2. QED
      BY <2>1, <3>1 DEF TInv, TypeOK
  <2>3. CASE UNCHANGED <<asking, numbers>>
    BY <2>1, <2>3 DEF TInv, TypeOK
  <2>4. QED
    BY <1>4, <2>2, <2>3 DEF ReadPastEnd
<1>5. CASE Done \/ Waits \/ UNCHANGED vars
  BY <1>5 DEF Done, Waits, vars, TInv, TypeOK
<1>6. QED
  BY <1>1, <1>2, <1>3, <1>4, <1>5 DEF Next

LEMMA InitTypes == Init => TInv
<1> SUFFICES ASSUME Init PROVE TInv
  OBVIOUS
<1>1. <<>> \in Seq(Char) /\ <<>> \in Seq(Register) /\ <<>> \in Seq(Lines)
  OBVIOUS
<1>2. MaxNumbers \in Nat /\ MaxLines \in Nat
  BY InpAssumption
<1>3. Len(numbers) = 0 /\ Len(typed) = 0
  BY DEF Init
<1>4. QED
  <2>1. stdin \in Seq(Char) /\ stdin = <<>>
    BY <1>1 DEF Init
  <2>2. numbers \in Seq(Register) /\ typed \in Seq(Lines)
    BY <1>1 DEF Init
  <2>3. closed \in BOOLEAN /\ asking \in BOOLEAN /\ ~asking
    BY DEF Init
  <2>4. Len(numbers) <= MaxNumbers /\ Len(typed) <= MaxLines
    BY <1>2, <1>3
  <2>5. QED
    BY <2>1, <2>2, <2>3, <2>4 DEF TInv, TypeOK, Char

\* What op_inp returns is an int, and standard input the rest of whole lines.
THEOREM TypesOK == Spec => []TypeOK
<1>1. TInv => TypeOK
  BY DEF TInv
<1>2. QED
  BY <1>1, InitTypes, NextTypes, PTL DEF Spec

-----------------------------------------------------------------------------
\* One number per line

AllFit == \A i \in DOMAIN typed : Fits(typed[i])

\* The first k lines have been read, but for the Newline of line k perhaps:
\* line i begins behind character at[i] of standard input.
Unread(k, at) ==
  /\ at \in [k + 1 .. Len(typed) + 1 -> 0 .. Len(stdin)]
  /\ at[k + 1] = 0 \/ (at[k + 1] = 1 /\ stdin[1] = Newline)
  /\ at[Len(typed) + 1] = Len(stdin)
  /\ \A i, j \in k + 1 .. Len(typed) + 1 : i <= j => at[i] <= at[j]
  /\ \A i \in k + 1 .. Len(typed) :
       /\ at[i + 1] = at[i] + Len(typed[i]) + 1
       /\ \A j \in 1 .. Len(typed[i]) : stdin[at[i] + j] = typed[i][j]
       /\ stdin[at[i + 1]] = Newline

Orderly == \E k \in 0 .. Len(typed) : /\ numbers = Spelling(typed)[k]
                                      /\ \E at : Unread(k, at)

\* INPs were executed behind the end of the input.
PastEnd == closed /\ stdin = <<>> /\ Begins(Spelled, numbers)

LineInv == TInv /\ (Plain /\ AllFit => Orderly \/ PastEnd)

LEMMA Sizes ==
  ASSUME TInv
  PROVE  /\ stdin \in Seq(Char) /\ Len(stdin) \in Nat
         /\ typed \in Seq(Lines) /\ Len(typed) \in Nat
         /\ \A i \in 1 .. Len(typed) : /\ typed[i] \in Seq(Digit \cup Others)
                                       /\ Len(typed[i]) \in Nat
         /\ numbers \in Seq(Register)
         /\ Spelling(typed)[Len(typed)] \in Seq(Register)
<1>1. stdin \in Seq(Char) /\ typed \in Seq(Lines) /\ numbers \in Seq(Register)
  BY DEF TInv, TypeOK, Char
<1>2. Len(stdin) \in Nat /\ Len(typed) \in Nat
  BY <1>1
<1>3. ASSUME NEW i \in 1 .. Len(typed)
      PROVE  typed[i] \in Seq(Digit \cup Others) /\ Len(typed[i]) \in Nat
  <2>1. typed[i] \in Lines
    BY <1>1
  <2>2. QED
    BY <2>1, TypedText
<1>4. Spelling(typed)[Len(typed)] \in Seq(Register)
  BY <1>1, <1>2, SpellingIsNumbers
<1>5. QED
  BY <1>1, <1>2, <1>3, <1>4

\* A line typed is the last to be read.
LEMMA TypeKeepsOrder ==
  ASSUME TInv, Type, Orderly
  PROVE  Orderly'
<1> DEFINE n == Len(typed)
           m == Len(stdin)
<1>1. PICK k \in 0 .. n : numbers = Spelling(typed)[k] /\ \E at : Unread(k, at)
  BY DEF Orderly
<1>2. PICK at : Unread(k, at)
  BY <1>1
<1>3. PICK line \in Lines : /\ typed' = Append(typed, line)
                            /\ stdin' = stdin \o Append(line, Newline)
  BY DEF Type
<1> DEFINE l == Len(line)
<1>4. /\ n \in Nat /\ m \in Nat /\ l \in Nat /\ typed \in Seq(Lines)
      /\ \A i \in 1 .. n : Len(typed[i]) \in Nat
  BY Sizes, TypedText
<1>5. Len(typed') = n + 1 /\ typed'[n + 1] = line /\ \A i \in 1 .. n : typed'[i] = typed[i]
  BY <1>3, <1>4
<1>6. /\ Len(stdin') = m + l + 1 /\ stdin'[m + l + 1] = Newline
      /\ \A i \in 1 .. m : stdin'[i] = stdin[i]
      /\ \A j \in 1 .. l : stdin'[m + j] = line[j]
  <2>1. stdin \in Seq(Char) /\ line \in Seq(Digit \cup Others)
    BY Sizes, TypedText
  <2> DEFINE read == Append(line, Newline)
  <2>2. /\ read \in Seq(Char) /\ Len(read) = l + 1 /\ read[l + 1] = Newline
        /\ \A j \in 1 .. l : read[j] = line[j]
    BY <2>1, TypedText DEF Text
  <2>3. stdin' = stdin \o read
    BY <1>3
  <2> HIDE DEF read, l
  <2>4. /\ Len(stdin') = m + Len(read)
        /\ \A i \in 1 .. m : stdin'[i] = stdin[i]
        /\ \A j \in 1 .. Len(read) : stdin'[m + j] = read[j]
    <3> HIDE DEF m
    <3>0. stdin \in Seq(Char) /\ read \in Seq(Char)
      BY <2>1, <2>2
    <3>1. /\ Len(stdin \o read) = Len(stdin) + Len(read)
          /\ \A i \in 1 .. Len(stdin) : (stdin \o read)[i] = stdin[i]
          /\ \A j \in 1 .. Len(read) : (stdin \o read)[Len(stdin) + j] = read[j]
      BY <3>0, Concatenated
    <3>2. QED
      BY <2>3, <3>1, Zenon DEF m
  <2> HIDE DEF m
  <2>5. l + 1 \in 1 .. Len(read) /\ \A j \in 1 .. l : j \in 1 .. Len(read)
    BY <1>4, <2>2
  <2>6. stdin'[m + (l + 1)] = Newline /\ \A j \in 1 .. l : stdin'[m + j] = line[j]
    BY <2>2, <2>4, <2>5
  <2>7. m + (l + 1) = m + l + 1
    BY <1>4
  <2>8. QED
    BY <2>2, <2>4, <2>6, <2>7
<1> HIDE DEF n, m, l
<1>7. PICK at2 : at2 = [i \in k + 1 .. n + 2 |-> IF i <= n + 1 THEN at[i] ELSE m + l + 1]
  OBVIOUS
<1>8. /\ \A i \in k + 1 .. n + 1 : at[i] \in 0 .. m /\ at2[i] = at[i] /\ at[i] \in Nat
      /\ at2[n + 2] = m + l + 1 /\ at[n + 1] = m
  <2>1. at \in [k + 1 .. n + 1 -> 0 .. m] /\ at[n + 1] = m
    BY <1>2 DEF Unread, n, m
  <2>2. ASSUME NEW i \in k + 1 .. n + 1
        PROVE  at[i] \in 0 .. m /\ at2[i] = at[i] /\ at[i] \in Nat
    <3>1. i \in k + 1 .. n + 2 /\ i <= n + 1
      BY <1>4
    <3>2. at[i] \in 0 .. m
      BY <2>1
    <3>3. QED
      BY <1>4, <1>7, <3>1, <3>2
  <2>3. at2[n + 2] = m + l + 1
    <3>1. n + 2 \in k + 1 .. n + 2 /\ ~(n + 2 <= n + 1)
      BY <1>4
    <3>2. QED
      BY <1>7, <3>1
  <2>4. QED
    BY <2>1, <2>2, <2>3
<1>9. Unread(k, at2)'
  <2>1. at2 \in [k + 1 .. Len(typed') + 1 -> 0 .. Len(stdin')]
    <3>1. k + 1 .. Len(typed') + 1 = k + 1 .. n + 2
      BY <1>4, <1>5
    <3>2. ASSUME NEW i \in k + 1 .. n + 2 PROVE at2[i] \in 0 .. Len(stdin')
      <4>1. i \in k + 1 .. n + 1 \/ i = n + 2
        BY <1>4
      <4>2. at2[i] \in 0 .. m \/ at2[i] = m + l + 1
        BY <1>8, <4>1
      <4>3. QED
        BY <1>4, <1>6, <4>2
    <3>3. QED
      BY <1>7, <3>1, <3>2
  <2>2. at2[k + 1] = 0 \/ (at2[k + 1] = 1 /\ stdin'[1] = Newline)
    <3>1. k + 1 \in k + 1 .. n + 1
      BY <1>4 DEF n
    <3>2. at[k + 1] = 0 \/ (at[k + 1] = 1 /\ stdin[1] = Newline)
      BY <1>2 DEF Unread
    <3>3. QED
      BY <1>4, <1>6, <1>8, <3>1, <3>2
  <2>3. at2[Len(typed') + 1] = Len(stdin')
    BY <1>4, <1>5, <1>6, <1>8
  <2>4. \A i, j \in k + 1 .. Len(typed') + 1 : i <= j => at2[i] <= at2[j]
    <3>1. \A i, j \in k + 1 .. n + 1 : i <= j => at[i] <= at[j]
      BY <1>2 DEF Unread, n
    <3>2. SUFFICES ASSUME NEW i \in k + 1 .. n + 2, NEW j \in k + 1 .. n + 2, i <= j
                   PROVE  at2[i] <= at2[j]
      BY <1>4, <1>5
    <3>3. CASE j = n + 2
      <4>1. i = n + 2 \/ i \in k + 1 .. n + 1
        BY <1>4
      <4>2. at2[i] = m + l + 1 \/ at2[i] \in 0 .. m
        BY <1>8, <4>1
      <4>3. QED
        BY <1>4, <1>8, <3>3, <4>2
    <3>4. CASE j # n + 2
      <4>1. i \in k + 1 .. n + 1 /\ j \in k + 1 .. n + 1
        BY <1>4, <3>2, <3>4
      <4>2. QED
        BY <1>8, <3>1, <3>2, <4>1
    <3>5. QED
      BY <3>3, <3>4
  <2>5. ASSUME NEW i \in k + 1 .. Len(typed')
        PROVE  /\ at2[i + 1] = at2[i] + Len(typed'[i]) + 1
               /\ \A j \in 1 .. Len(typed'[i]) : stdin'[at2[i] + j] = typed'[i][j]
               /\ stdin'[at2[i + 1]] = Newline
    <3>1. CASE i = n + 1
      <4>1. n + 1 \in k + 1 .. n + 1 /\ i + 1 = n + 2
        BY <1>4, <3>1
      <4>2. at2[i] = m /\ at2[i + 1] = m + l + 1 /\ typed'[i] = line /\ Len(line) = l
        BY <1>5, <1>8, <3>1, <4>1 DEF l
      <4>3. QED
        BY <1>6, <4>2
    <3>2. CASE i \in k + 1 .. n
      <4>1. i \in 1 .. n /\ i \in k + 1 .. n + 1 /\ i + 1 \in k + 1 .. n + 1
        BY <1>4, <3>2
      <4>2. /\ typed'[i] = typed[i] /\ at2[i] = at[i] /\ at2[i + 1] = at[i + 1]
            /\ at[i] \in 0 .. m /\ at[i + 1] \in 0 .. m /\ Len(typed[i]) \in Nat
        BY <1>4, <1>5, <1>8, <4>1
      <4>3. /\ at[i + 1] = at[i] + Len(typed[i]) + 1
            /\ \A j \in 1 .. Len(typed[i]) : stdin[at[i] + j] = typed[i][j]
            /\ stdin[at[i + 1]] = Newline
        BY <1>2, <3>2 DEF Unread, n
      <4>4. at[i + 1] \in 1 .. m /\ \A j \in 1 .. Len(typed[i]) : at[i] + j \in 1 .. m
        <5> DEFINE a == at[i]
                   b == at[i + 1]
                   w == Len(typed[i])
        <5>1. a \in 0 .. m /\ b \in 0 .. m /\ w \in Nat /\ b = a + w + 1
          BY <4>2, <4>3
        <5> HIDE DEF a, b, w
        <5>2. b \in 1 .. m /\ \A j \in 1 .. w : a + j \in 1 .. m
          BY <1>4, <5>1
        <5>3. QED
          BY <5>2 DEF a, b, w
      <4>5. QED
        BY <1>6, <4>2, <4>3, <4>4
    <3>3. QED
      BY <1>4, <1>5, <3>1, <3>2
  <2>6. QED
    BY <2>1, <2>2, <2>3, <2>4, <2>5 DEF Unread
<1>10. numbers' = Spelling(typed')[k]
  BY <1>1, <1>3, <1>4, SpellingOfMore DEF Type, n
<1>11. k \in 0 .. Len(typed')
  BY <1>4, <1>5 DEF n
<1>12. QED
  BY <1>9, <1>10, <1>11 DEF Orderly

\* Reading c characters moves every line by as many.
LEMMA ReadingMovesLines ==
  ASSUME TInv, NEW k \in 0 .. Len(typed), NEW at, Unread(k, at),
         NEW left \in k .. Len(typed), NEW c \in 1 .. Len(stdin),
         at[left + 1] = c \/ (at[left + 1] = c + 1 /\ stdin[c + 1] = Newline),
         typed' = typed, Len(stdin') = Len(stdin) - c,
         \A i \in 1 .. Len(stdin') : stdin'[i] = stdin[c + i]
  PROVE  \E at2 : Unread(left, at2)'
<1> DEFINE n == Len(typed)
           m == Len(stdin)
<1>1. /\ n \in Nat /\ m \in Nat /\ \A i \in 1 .. n : Len(typed[i]) \in Nat
      /\ k \in Nat /\ left \in Nat /\ k <= left /\ left <= n
      /\ c \in Nat /\ c >= 1
  BY Sizes
<1>2. /\ \A i \in k + 1 .. n + 1 : at[i] \in 0 .. m
      /\ at[n + 1] = m
      /\ \A i, j \in k + 1 .. n + 1 : i <= j => at[i] <= at[j]
      /\ \A i \in k + 1 .. n : /\ at[i + 1] = at[i] + Len(typed[i]) + 1
                               /\ \A j \in 1 .. Len(typed[i]) : stdin[at[i] + j] = typed[i][j]
                               /\ stdin[at[i + 1]] = Newline
  BY DEF Unread
<1> HIDE DEF n, m
<1>3. PICK at2 : at2 = [i \in left + 1 .. n + 1 |-> at[i] - c]
  OBVIOUS
<1>4. ASSUME NEW i \in left + 1 .. n + 1
      PROVE  at2[i] = at[i] - c /\ at[i] \in c .. m /\ at[i] \in Nat
  <2>1. i \in k + 1 .. n + 1 /\ left + 1 \in k + 1 .. n + 1 /\ left + 1 <= i
    BY <1>1
  <2>2. at[left + 1] >= c
    BY <1>1
  <2>3. at[left + 1] <= at[i] /\ at[i] \in 0 .. m /\ at[left + 1] \in 0 .. m
    BY <1>2, <2>1
  <2>4. QED
    BY <1>1, <1>3, <2>2, <2>3
<1>5. Len(stdin') = m - c
  BY DEF m
<1>6. at2 \in [left + 1 .. Len(typed') + 1 -> 0 .. Len(stdin')]
  <2>1. ASSUME NEW i \in left + 1 .. n + 1
        PROVE  at2[i] \in 0 .. Len(stdin')
    <3>1. at2[i] = at[i] - c /\ at[i] \in c .. m
      BY <1>4
    <3>2. at[i] - c \in 0 .. m - c
      BY <1>1, <3>1
    <3>3. QED
      BY <1>5, <3>1, <3>2
  <2>2. QED
    BY <1>3, <2>1 DEF n
<1>7. at2[left + 1] = 0 \/ (at2[left + 1] = 1 /\ stdin'[1] = Newline)
  <2>1. left + 1 \in left + 1 .. n + 1
    BY <1>1
  <2>2. at2[left + 1] = at[left + 1] - c /\ at[left + 1] \in c .. m
    BY <1>4, <2>1
  <2>3. CASE at[left + 1] = c
    BY <1>1, <2>2, <2>3
  <2>4. CASE at[left + 1] = c + 1 /\ stdin[c + 1] = Newline
    <3>1. 1 \in 1 .. Len(stdin')
      BY <1>1, <1>5, <2>2, <2>4
    <3>2. QED
      BY <1>1, <2>2, <2>4, <3>1
  <2>5. QED
    BY <2>3, <2>4
<1>8. at2[Len(typed') + 1] = Len(stdin')
  <2>1. n + 1 \in left + 1 .. n + 1
    BY <1>1
  <2>2. at2[n + 1] = m - c
    BY <1>2, <1>4, <2>1
  <2>3. QED
    BY <1>5, <2>2 DEF n
<1>9. \A i, j \in left + 1 .. Len(typed') + 1 : i <= j => at2[i] <= at2[j]
  <2>1. SUFFICES ASSUME NEW i \in left + 1 .. n + 1, NEW j \in left + 1 .. n + 1, i <= j
                 PROVE  at2[i] <= at2[j]
    BY DEF n
  <2>2. i \in k + 1 .. n + 1 /\ j \in k + 1 .. n + 1
    BY <1>1
  <2>3. at[i] <= at[j]
    BY <1>2, <2>1, <2>2
  <2>4. QED
    BY <1>4, <2>3
<1>10. ASSUME NEW i \in left + 1 .. n
       PROVE  /\ at2[i + 1] = at2[i] + Len(typed[i]) + 1
              /\ \A j \in 1 .. Len(typed[i]) : stdin'[at2[i] + j] = typed[i][j]
              /\ stdin'[at2[i + 1]] = Newline
  <2>1. i \in k + 1 .. n /\ i \in 1 .. n /\ i \in left + 1 .. n + 1 /\ i + 1 \in left + 1 .. n + 1
    BY <1>1
  <2>2. /\ at[i + 1] = at[i] + Len(typed[i]) + 1
        /\ \A j \in 1 .. Len(typed[i]) : stdin[at[i] + j] = typed[i][j]
        /\ stdin[at[i + 1]] = Newline
    BY <1>2, <2>1
  <2>3. /\ at2[i] = at[i] - c /\ at2[i + 1] = at[i + 1] - c
        /\ at[i] \in c .. m /\ at[i + 1] \in c .. m /\ Len(typed[i]) \in Nat
        /\ at[i] \in Nat /\ at[i + 1] \in Nat
    BY <1>1, <1>4, <2>1
  <2> DEFINE a == at[i]
             b == at[i + 1]
             w == Len(typed[i])
             size == Len(stdin')
  <2>4. /\ a \in Nat /\ b \in Nat /\ w \in Nat /\ b = a + w + 1 /\ b <= m /\ c <= a
        /\ at2[i] = a - c /\ at2[i + 1] = b - c /\ size = m - c
    BY <1>1, <1>5, <2>2, <2>3
  <2> HIDE DEF a, b, w, size
  <2>5. \A j \in 1 .. w : (a - c) + j \in 1 .. size /\ c + ((a - c) + j) = a + j
    BY <1>1, <2>4
  <2>6. b - c \in 1 .. size /\ c + (b - c) = b /\ b - c = (a - c) + w + 1
    BY <1>1, <2>4
  <2>7. \A j \in 1 .. w : stdin'[at2[i] + j] = typed[i][j]
    BY <2>2, <2>4, <2>5 DEF a, w, size
  <2>8. stdin'[at2[i + 1]] = Newline
    BY <2>2, <2>4, <2>6 DEF b, size
  <2>9. QED
    BY <2>4, <2>6, <2>7, <2>8 DEF w
<1>11. Unread(left, at2)'
  BY <1>6, <1>7, <1>8, <1>9, <1>10 DEF Unread, n
<1>12. QED
  BY <1>11

\* The Newline of a line that filled the buffer.
LEMMA ReadNewlineKeepsOrder ==
  ASSUME TInv, ReadChunk, NEW k \in 0 .. Len(typed), NEW at, Unread(k, at),
         numbers = Spelling(typed)[k], at[k + 1] = 1, stdin[1] = Newline
  PROVE  Orderly'
<1>1. TypeOK /\ ChunkEnds # {} /\ stdin \in Seq(Char) /\ Len(stdin) \in Nat /\ typed' = typed
  BY Sizes DEF TInv, ReadChunk
<1>2. /\ ChunkLength \in 1 .. Len(stdin) /\ \A i \in ChunkEnds : ChunkLength <= i
      /\ AfterChunk \in Text /\ Len(AfterChunk) = Len(stdin) - ChunkLength
      /\ \A i \in 1 .. Len(AfterChunk) : AfterChunk[i] = stdin[ChunkLength + i]
  BY <1>1, ChunkOfStdin
<1>3. ChunkLength = 1
  <2>1. 1 \in ChunkEnds
    BY <1>1, <1>2 DEF ChunkEnds
  <2>2. QED
    BY <1>1, <1>2, <2>1
<1>4. Chunk = <<Newline>>
  <2>1. /\ SubSeq(stdin, 1, 1) \in Seq(Char) /\ Len(SubSeq(stdin, 1, 1)) = 1
        /\ SubSeq(stdin, 1, 1)[1] = Newline
    BY <1>1, <1>2, <1>3
  <2>2. Chunk = SubSeq(stdin, 1, 1)
    BY <1>3 DEF Chunk
  <2> DEFINE read == SubSeq(stdin, 1, 1)
  <2> HIDE DEF read
  <2>3. read = <<Newline>>
    <3>1. read \in Seq(Char) /\ Len(read) = 1 /\ read[1] = Newline
      BY <2>1 DEF read
    <3>2. QED
      BY <3>1, OneElement
  <2>4. QED
    BY <2>2, <2>3 DEF read
<1>5. ~IsNumber(Chunk)
  BY <1>4, NewlineIsNoNumber DEF IsNumber
<1>6. numbers' = numbers /\ stdin' = AfterChunk
  BY <1>5 DEF ReadChunk
<1>7. \E at2 : Unread(k, at2)'
  <2>1. k \in k .. Len(typed) /\ 1 \in 1 .. Len(stdin)
    BY <1>1, <1>2, <1>3
  <2>2. Len(stdin') = Len(stdin) - 1 /\ \A i \in 1 .. Len(stdin') : stdin'[i] = stdin[1 + i]
    BY <1>2, <1>3, <1>6
  <2>3. QED
    BY <1>1, <2>1, <2>2, ReadingMovesLines
<1>8. QED
  BY <1>1, <1>6, <1>7 DEF Orderly

\* A line that fits is one chunk, with its Newline or without.
LEMMA ChunkOfLine ==
  ASSUME TInv, ChunkEnds # {}, NEW k \in 0 .. Len(typed) - 1, NEW at, Unread(k, at),
         at[k + 1] = 0, Fits(typed[k + 1])
  PROVE  LET line == typed[k + 1]
         IN  /\ at[k + 2] = Len(line) + 1 /\ stdin[Len(line) + 1] = Newline
             /\ \/ ChunkLength = Len(line) /\ Chunk = line
                \/ ChunkLength = Len(line) + 1 /\ Chunk = Append(line, Newline)
<1> DEFINE line == typed[k + 1]
           l == Len(line)
           m == Len(stdin)
           n == Len(typed)
<1>1. /\ n \in Nat /\ m \in Nat /\ l \in Nat /\ stdin \in Seq(Char)
      /\ line \in Seq(Digit \cup Others) /\ k \in Nat /\ k + 1 <= n
      /\ k + 1 \in k + 1 .. n /\ k + 2 \in k + 1 .. n + 1
  <2>1. n \in Nat /\ m \in Nat /\ stdin \in Seq(Char)
    BY Sizes
  <2>2. k \in Nat /\ k + 1 <= n /\ k + 1 \in 1 .. n
    BY <2>1
  <2>3. line \in Seq(Digit \cup Others) /\ l \in Nat
    BY <2>2, Sizes
  <2>4. QED
    BY <2>1, <2>2, <2>3
<1>2. /\ at[k + 2] = 0 + l + 1 /\ at[k + 2] \in 0 .. m
      /\ \A j \in 1 .. l : stdin[0 + j] = line[j]
      /\ stdin[at[k + 2]] = Newline
  <2>1. (k + 1) + 1 = k + 2
    BY <1>1
  <2>2. /\ at[(k + 1) + 1] = at[k + 1] + l + 1
        /\ \A j \in 1 .. l : stdin[at[k + 1] + j] = line[j]
        /\ stdin[at[(k + 1) + 1]] = Newline
    BY <1>1 DEF Unread
  <2>3. at[k + 2] \in 0 .. m
    BY <1>1 DEF Unread
  <2>4. QED
    BY <2>1, <2>2, <2>3
<1> HIDE DEF line, l, m, n
<1>3. /\ at[k + 2] = l + 1 /\ l + 1 <= m /\ stdin[l + 1] = Newline
      /\ \A j \in 1 .. l : stdin[j] = line[j]
  BY <1>1, <1>2
<1>4. \A j \in 1 .. l : stdin[j] # Newline
  <2>1. \A j \in 1 .. l : line[j] \in Digit \cup Others
    BY <1>1 DEF l
  <2>2. QED
    BY <1>3, <2>1, Characters
<1>5. /\ ChunkLength \in 1 .. m /\ ChunkLength \in ChunkEnds
      /\ \A i \in ChunkEnds : ChunkLength <= i
  BY ChunkOfStdin DEF TInv, m
<1>6. ChunkLength <= l + 1
  <2>1. l + 1 \in ChunkEnds
    BY <1>1, <1>3 DEF ChunkEnds, m
  <2>2. QED
    BY <1>5, <2>1
<1>7. CASE ChunkLength = l + 1
  <2>1. Chunk = SubSeq(stdin, 1, l + 1)
    BY <1>7 DEF Chunk
  <2>2. /\ SubSeq(stdin, 1, l + 1) \in Seq(Char) /\ Len(SubSeq(stdin, 1, l + 1)) = l + 1
        /\ \A i \in 1 .. l + 1 : SubSeq(stdin, 1, l + 1)[i] = stdin[i]
    BY <1>1, <1>3 DEF m
  <2>3. Append(line, Newline) \in Text
    BY <1>1, NewlineIsNotRead
  <2>4. /\ Len(Append(line, Newline)) = l + 1
        /\ \A i \in 1 .. l : Append(line, Newline)[i] = line[i]
        /\ Append(line, Newline)[l + 1] = Newline
    BY <1>1 DEF l
  <2>5. \A i \in 1 .. l + 1 : i \in 1 .. l \/ i = l + 1
    BY <1>1
  <2>6. \A i \in 1 .. l + 1 : SubSeq(stdin, 1, l + 1)[i] = Append(line, Newline)[i]
    BY <1>3, <2>2, <2>4, <2>5
  <2>7. SubSeq(stdin, 1, l + 1) = Append(line, Newline)
    BY <1>1, <2>2, <2>3, <2>4, <2>6 DEF Text
  <2>8. QED
    BY <1>3, <1>7, <2>1, <2>7 DEF l, line
<1>8. CASE ChunkLength <= l
  <2>1. ChunkLength \in 1 .. l
    BY <1>1, <1>5, <1>8
  <2>2. ChunkLength = accept_digits
    BY <1>4, <1>5, <2>1 DEF ChunkEnds
  <2>3. l <= accept_digits
    BY DEF Fits, l, line
  <2>4. ChunkLength = l
    BY <1>1, <1>8, <2>1, <2>2, <2>3, RoomForADigit
  <2>5. Chunk = SubSeq(stdin, 1, l)
    BY <2>4 DEF Chunk
  <2>6. /\ SubSeq(stdin, 1, l) \in Seq(Char) /\ Len(SubSeq(stdin, 1, l)) = l
        /\ \A i \in 1 .. l : SubSeq(stdin, 1, l)[i] = stdin[i]
    BY <1>1, <1>3 DEF m
  <2>7. line \in Seq(Char) /\ Len(line) = l
    BY <1>1, NewlineIsNotRead DEF Text, l
  <2>8. \A i \in 1 .. l : SubSeq(stdin, 1, l)[i] = line[i]
    BY <1>3, <2>6
  <2>9. SubSeq(stdin, 1, l) = line
    BY <1>1, <2>6, <2>7, <2>8
  <2>10. QED
    BY <1>3, <2>4, <2>5, <2>9 DEF l, line
<1>9. QED
  BY <1>1, <1>5, <1>6, <1>7, <1>8

\* The line that is next gives its number, if it is one.
LEMMA ReadLineKeepsOrder ==
  ASSUME TInv, ReadChunk, Plain, AllFit,
         NEW k \in 0 .. Len(typed) - 1, NEW at, Unread(k, at),
         numbers = Spelling(typed)[k], at[k + 1] = 0
  PROVE  Orderly'
<1> DEFINE line == typed[k + 1]
<1>1. /\ TypeOK /\ ChunkEnds # {} /\ typed' = typed /\ Len(typed) \in Nat /\ Len(stdin) \in Nat
      /\ typed \in Seq(Lines) /\ numbers \in Seq(Register)
  BY Sizes DEF TInv, ReadChunk
<1>2. k \in Nat /\ k + 1 \in 0 .. Len(typed) /\ k + 1 \in 1 .. Len(typed) /\ k + 1 \in DOMAIN typed
      /\ k + 1 \in k .. Len(typed) /\ k \in 0 .. Len(typed) /\ k + 1 <= Len(typed)
  BY <1>1
<1>3. line \in Seq(Digit \cup Others) /\ Len(line) \in Nat
  BY <1>2, Sizes
<1>4. Fits(line)
  BY <1>2 DEF AllFit
<1>5. /\ at[k + 2] = Len(line) + 1 /\ stdin[Len(line) + 1] = Newline
      /\ \/ ChunkLength = Len(line) /\ Chunk = line
         \/ ChunkLength = Len(line) + 1 /\ Chunk = Append(line, Newline)
  BY <1>1, <1>4, ChunkOfLine
<1>6. IsNumber(Chunk) = IsNumber(line) /\ strtol(Chunk) = strtol(line)
  BY <1>3, <1>5, NewlineIsNotRead DEF IsNumber
<1>7. IsNumber(line) <=> Spells(line)
  <2>1. Spells(line) \/ NumDigits(Append(line, Newline)) = 0
    BY <1>2 DEF Plain
  <2>2. IsNumber(line) => Spells(line)
    BY <1>3, <2>1, NewlineIsNotRead DEF IsNumber
  <2>3. QED
    BY <2>2 DEF Spells
<1> HIDE DEF line
<1>8. numbers' = numbers \o NumbersOn(line)
  <2>1. CASE IsNumber(line)
    <3>1. strtol(line) \in Register /\ NumbersOn(line) = <<strtol(line)>>
      BY <1>7, <2>1 DEF Spells, NumbersOn
    <3>2. numbers' = Append(numbers, AsInt(strtol(line)))
      BY <1>6, <2>1 DEF ReadChunk, Return
    <3>3. AsInt(strtol(line)) = strtol(line)
      BY <3>1, AsIntOfRegister
    <3>4. Append(numbers, strtol(line)) = numbers \o <<strtol(line)>>
      BY <1>1, <3>1, AppendIsConcatenation
    <3>5. QED
      BY <3>1, <3>2, <3>3, <3>4, Zenon
  <2>2. CASE ~IsNumber(line)
    <3>1. NumbersOn(line) = <<>>
      BY <1>7, <2>2 DEF NumbersOn
    <3>2. numbers' = numbers
      BY <1>6, <2>2 DEF ReadChunk
    <3>3. QED
      BY <1>1, <3>1, <3>2
  <2>3. QED
    BY <2>1, <2>2
<1>9. numbers' = Spelling(typed')[k + 1]
  BY <1>1, <1>2, <1>8, SpellingStep DEF line
<1>10. \E at2 : Unread(k + 1, at2)'
  <2>1. /\ ChunkLength \in 1 .. Len(stdin)
        /\ Len(AfterChunk) = Len(stdin) - ChunkLength
        /\ \A i \in 1 .. Len(AfterChunk) : AfterChunk[i] = stdin[ChunkLength + i]
    BY <1>1, ChunkOfStdin
  <2>2. stdin' = AfterChunk
    BY DEF ReadChunk
  <2>3. (k + 1) + 1 = k + 2
    BY <1>2
  <2>4. \/ at[(k + 1) + 1] = ChunkLength
        \/ at[(k + 1) + 1] = ChunkLength + 1 /\ stdin[ChunkLength + 1] = Newline
    BY <1>5, <2>3
  <2>5. QED
    BY <1>1, <1>2, <2>1, <2>2, <2>4, ReadingMovesLines
<1>11. QED
  BY <1>1, <1>2, <1>9, <1>10 DEF Orderly

\* Where nothing is left to read, every line has been read.
LEMMA AllRead ==
  ASSUME TInv, Orderly, stdin = <<>>
  PROVE  numbers = Spelled
<1>1. PICK k \in 0 .. Len(typed) : numbers = Spelling(typed)[k] /\ \E at : Unread(k, at)
  BY DEF Orderly
<1>2. PICK at : Unread(k, at)
  BY <1>1
<1>3. Len(stdin) = 0 /\ Len(typed) \in Nat
  BY Sizes
<1>4. ASSUME k < Len(typed) PROVE FALSE
  <2>1. k + 1 \in k + 1 .. Len(typed) + 1 /\ (k + 1) + 1 \in k + 1 .. Len(typed) + 1
    BY <1>3, <1>4
  <2>2. at[k + 1] = 0 /\ at[(k + 1) + 1] = 0
    BY <1>2, <1>3, <2>1 DEF Unread
  <2>3. k + 1 \in k + 1 .. Len(typed) /\ k + 1 \in 1 .. Len(typed)
    BY <1>3, <1>4
  <2>4. at[(k + 1) + 1] = at[k + 1] + Len(typed[k + 1]) + 1
    BY <1>2, <2>3 DEF Unread
  <2>5. Len(typed[k + 1]) \in Nat
    BY <2>3, Sizes
  <2>6. QED
    BY <2>2, <2>4, <2>5
<1>5. k = Len(typed)
  BY <1>3, <1>4
<1>6. QED
  BY <1>1, <1>5 DEF Spelled

LEMMA ReadChunkKeepsOrder ==
  ASSUME TInv, ReadChunk, Plain, AllFit, Orderly
  PROVE  Orderly'
<1>1. PICK k \in 0 .. Len(typed) : numbers = Spelling(typed)[k] /\ \E at : Unread(k, at)
  BY DEF Orderly
<1>2. PICK at : Unread(k, at)
  BY <1>1
<1>3. CASE at[k + 1] = 1 /\ stdin[1] = Newline
  BY <1>1, <1>2, <1>3, ReadNewlineKeepsOrder
<1>4. CASE at[k + 1] = 0
  <2>1. ChunkLength \in 1 .. Len(stdin) /\ Len(stdin) \in Nat /\ Len(typed) \in Nat
    BY ChunkOfStdin, Sizes DEF TInv, ReadChunk
  <2>2. at[Len(typed) + 1] = Len(stdin)
    BY <1>2 DEF Unread
  <2>3. k # Len(typed)
    BY <1>4, <2>1, <2>2
  <2>4. k \in 0 .. Len(typed) - 1
    BY <2>1, <2>3
  <2>5. QED
    BY <1>1, <1>2, <1>4, <2>4, ReadLineKeepsOrder
<1>5. QED
  BY <1>2, <1>3, <1>4 DEF Unread

LEMMA ReadPastEndIsPastEnd ==
  ASSUME TInv, ReadPastEnd, Orderly \/ PastEnd
  PROVE  PastEnd'
<1>1. stdin = <<>> /\ closed /\ UNCHANGED <<stdin, closed, typed>>
  BY DEF ReadPastEnd, AtEnd
<1>2. Spelled \in Seq(Register) /\ numbers \in Seq(Register)
  BY Sizes DEF Spelled
<1>3. Begins(Spelled, numbers)
  BY <1>1, <1>2, AllRead DEF PastEnd, Begins
<1>4. Spelled' = Spelled
  BY <1>1 DEF Spelled
<1>5. CASE numbers' = numbers
  BY <1>1, <1>3, <1>4, <1>5 DEF PastEnd, Begins
<1>6. CASE \E stale \in Register : Return(stale)
  <2>1. PICK stale \in Register : numbers' = Append(numbers, stale)
    BY <1>6 DEF Return
  <2>2. /\ Len(numbers') = Len(numbers) + 1 /\ Len(numbers) \in Nat /\ Len(Spelled) \in Nat
        /\ \A i \in 1 .. Len(numbers) : numbers'[i] = numbers[i]
    BY <1>2, <2>1
  <2>3. Len(Spelled) <= Len(numbers) /\ \A i \in 1 .. Len(Spelled) : numbers[i] = Spelled[i]
    BY <1>3 DEF Begins
  <2>4. Len(Spelled) <= Len(numbers') /\ \A i \in 1 .. Len(Spelled) : numbers'[i] = Spelled[i]
    BY <2>2, <2>3
  <2>5. QED
    BY <1>1, <1>4, <2>4 DEF PastEnd, Begins
<1>7. QED
  BY <1>5, <1>6 DEF ReadPastEnd

LEMMA StillPlain ==
  ASSUME TInv, Next \/ UNCHANGED vars, Plain', AllFit'
  PROVE  Plain /\ AllFit
<1>1. CASE typed' = typed
  BY <1>1 DEF Plain, AllFit
<1>2. CASE Type
  <2>1. PICK line \in Lines : typed' = Append(typed, line)
    BY <1>2 DEF Type
  <2>2. typed \in Seq(Lines)
    BY Sizes
  <2>3. ASSUME NEW i \in DOMAIN typed PROVE i \in DOMAIN typed' /\ typed'[i] = typed[i]
    BY <2>1, <2>2
  <2>4. QED
    BY <2>3 DEF Plain, AllFit
<1>3. QED
  BY <1>1, <1>2 DEF Next, Close, Ask, ReadChunk, ReadPastEnd, Done, Waits, vars

LEMMA NextLineInv == LineInv /\ [Next]_vars => LineInv'
<1> SUFFICES ASSUME LineInv, [Next]_vars PROVE LineInv'
  OBVIOUS
<1>1. TInv /\ TInv'
  BY NextTypes DEF LineInv
<1>2. SUFFICES ASSUME Plain', AllFit' PROVE Orderly' \/ PastEnd'
  BY <1>1 DEF LineInv
<1>3. Plain /\ AllFit /\ (Orderly \/ PastEnd)
  BY <1>1, <1>2, StillPlain DEF LineInv
<1>4. CASE Type
  <2>1. Orderly \/ (stdin = <<>> /\ closed)
    BY <1>3 DEF PastEnd
  <2>2. Orderly
    BY <1>4, <2>1 DEF Type
  <2>3. QED
    BY <1>1, <1>4, <2>2, TypeKeepsOrder
<1>5. CASE ReadChunk
  <2>1. ~PastEnd
    <3>1. SUFFICES ASSUME stdin = <<>> PROVE FALSE
      BY DEF PastEnd
    <3>2. ChunkLength \in 1 .. Len(stdin)
      BY <1>1, <1>5, ChunkOfStdin DEF TInv, ReadChunk
    <3>3. Len(stdin) = 0
      BY <3>1
    <3>4. QED
      BY <3>2, <3>3
  <2>2. QED
    BY <1>1, <1>3, <1>5, <2>1, ReadChunkKeepsOrder
<1>6. CASE ReadPastEnd
  BY <1>1, <1>3, <1>6, ReadPastEndIsPastEnd
<1>7. CASE Close \/ Ask \/ Done \/ Waits \/ UNCHANGED vars
  <2>1. UNCHANGED <<stdin, numbers, typed>> /\ (closed => closed')
    BY <1>7 DEF Close, Ask, Done, Waits, vars
  <2>2. Orderly => Orderly'
    BY <2>1 DEF Orderly, Unread
  <2>3. PastEnd => PastEnd'
    BY <2>1 DEF PastEnd, Spelled, Begins
  <2>4. QED
    BY <1>3, <2>2, <2>3
<1>8. QED
  BY <1>4, <1>5, <1>6, <1>7 DEF Next

LEMMA InitLineInv == Init => LineInv
<1> SUFFICES ASSUME Init PROVE LineInv
  OBVIOUS
<1>1. TInv
  BY InitTypes
<1>2. /\ Len(typed) = 0 /\ Len(stdin) = 0 /\ typed \in Seq(Lines)
      /\ numbers = <<>>
  BY <1>1, Sizes DEF Init
<1>3. Spelling(typed)[0] = <<>>
  BY <1>2, SpellingStep
<1>4. PICK at : at = [i \in 1 .. 1 |-> 0]
  OBVIOUS
<1>5. Unread(0, at)
  BY <1>2, <1>4 DEF Unread
<1>6. Orderly
  BY <1>2, <1>3, <1>5 DEF Orderly
<1>7. QED
  BY <1>1, <1>6 DEF LineInv

\* Whatever is typed, if every line fits the buffer each INP gets the number of
\* one line, in order, and no line is skipped or used twice (fgets takes a full
\* line without its Newline, and the Newline alone later).
THEOREM NumbersInOrder == Spec => []OneNumberPerLine
<1>1. LineInv => OneNumberPerLine
  <2> SUFFICES ASSUME LineInv, Plain, AllFit
               PROVE  /\ stdin # <<>> \/ ~closed => IsPrefix(numbers, Spelled)
                      /\ stdin = <<>> => IsPrefix(Spelled, numbers)
    BY DEF OneNumberPerLine, AllFit
  <2>1. /\ TInv /\ numbers \in Seq(Register) /\ Spelled \in Seq(Register)
        /\ typed \in Seq(Lines)
    BY Sizes DEF LineInv, Spelled
  <2>2. CASE Orderly
    <3>1. PICK k \in 0 .. Len(typed) : numbers = Spelling(typed)[k]
      BY <2>2 DEF Orderly
    <3>2. Begins(numbers, Spelled)
      BY <2>1, <3>1, SpellingGrows DEF Spelled
    <3>3. stdin = <<>> => Begins(Spelled, numbers)
      BY <2>1, <2>2, AllRead DEF Begins
    <3>4. QED
      BY <2>1, <3>2, <3>3, BeginsIsPrefix
  <2>3. CASE PastEnd
    BY <2>1, <2>3, BeginsIsPrefix DEF PastEnd
  <2>4. QED
    BY <2>2, <2>3 DEF LineInv
<1>2. QED
  BY <1>1, InitLineInv, NextLineInv, PTL DEF Spec
=============================================================================
