----------------------------- MODULE OtaProofs -----------------------------
(***************************************************************************)
(* Proofs about OtaUpdate, for every size of sectors and partitions, every *)
(* release, asset and detour: the image that the boot ROM falls back to is *)
(* never touched, and is only ever replaced by a newer one; what is        *)
(* downloaded is the asset of a release with this tag, as far as the tag   *)
(* fits, and what is booted is the whole of it.                            *)
(***************************************************************************)
EXTENDS OtaUpdate, SequenceTheorems, WellFoundedInduction, TLAPS

-----------------------------------------------------------------------------
(* Versions.                                                               *)

\* ota_version_compare is positive exactly for a newer version.
THEOREM CompareIsOrder ==
    ASSUME NEW a \in Version, NEW b \in Version
    PROVE  /\ ota_version_compare(a, b) > 0 <=> Precedes(b, a)
           /\ ota_version_compare(a, b) = 0 <=> a = b
           /\ ota_version_compare(a, b) < 0 <=> Precedes(a, b)
<1>1. /\ a.major \in Int /\ a.minor \in Int /\ a.patch \in Int
      /\ b.major \in Int /\ b.minor \in Int /\ b.patch \in Int
  <2>1. U16 \subseteq Int
    BY DEF U16
  <2> QED
    BY <2>1 DEF Version
<1>2. a = b <=> a.major = b.major /\ a.minor = b.minor /\ a.patch = b.patch
  BY DEF Version
<1> QED
  BY <1>1, <1>2 DEF ota_version_compare, Precedes

\* The least-number principle, for a set of numbers.
LEMMA LeastNumber ==
    ASSUME NEW T, T \subseteq Nat, T # {}
    PROVE  \E x \in T : \A y \in T : x <= y
<1> DEFINE R == {ss \in Nat \X Nat : ss[1] < ss[2]}
<1>1. R = OpToRel(<, Nat)
  BY DEF OpToRel
<1>2. IsWellFoundedOn(R, Nat)
  BY <1>1, NatLessThanWellFounded, Zenon
<1>3. \E x \in T : \A y \in T : ~ (<<y, x>> \in R)
  <2> HIDE DEF R
  <2> QED
    BY <1>2, WFMin, Zenon
<1>4. PICK x \in T : \A y \in T : ~ (<<y, x>> \in R)
  BY <1>3
<1>5. \A y \in T : x <= y
  <2> TAKE y \in T
  <2>1. x \in Nat /\ y \in Nat
    OBVIOUS
  <2>2. <<y, x>> \in Nat \X Nat /\ <<y, x>>[1] = y /\ <<y, x>>[2] = x
    BY <2>1
  <2>3. ~(y < x)
    BY <1>4, <2>1, <2>2
  <2> QED
    BY <2>1, <2>3
<1> QED
  BY <1>5

\* A text starts with some number of digits.
LEMMA DigitsCount ==
    ASSUME NEW s \in Text
    PROVE  /\ Digits(s) \in 0 .. Len(s)
           /\ \A i \in 1 .. Digits(s) : IsDigit(s[i])
           /\ Digits(s) < Len(s) => ~IsDigit(s[Digits(s) + 1])
<1> DEFINE Others == {i \in 1 .. Len(s) : ~IsDigit(s[i])}
           P(n) == /\ \A i \in 1 .. n : IsDigit(s[i])
                   /\ n < Len(s) => ~IsDigit(s[n + 1])
<1>1. Len(s) \in Nat
  BY DEF Text
<1>2. \E n \in 0 .. Len(s) : P(n)
  <2>1. CASE Others = {}
    <3>1. P(Len(s))
      BY <2>1, <1>1
    <3> QED
      BY <3>1, <1>1
  <2>2. CASE Others # {}
    <3>0. \E x \in Others : \A y \in Others : x <= y
      <4>1. Others \subseteq Nat
        BY <1>1
      <4> HIDE DEF Others
      <4> QED
        BY <2>2, <4>1, LeastNumber, Zenon
    <3>1. PICK x \in Others : \A y \in Others : x <= y
      BY <3>0, Zenon
    <3>2. x \in 1 .. Len(s) /\ ~IsDigit(s[x])
      OBVIOUS
    <3>3. x - 1 \in 0 .. Len(s) /\ (x - 1) + 1 = x
      BY <3>2, <1>1
    <3>4. ASSUME NEW i \in 1 .. (x - 1) PROVE IsDigit(s[i])
      <4>1. i \in 1 .. Len(s) /\ ~(x <= i)
        BY <3>2, <1>1
      <4> QED
        BY <3>1, <4>1
    <3>5. P(x - 1)
      BY <3>2, <3>3, <3>4
    <3> QED
      BY <3>3, <3>5
  <2> QED
    BY <2>1, <2>2
<1>3. Digits(s) = CHOOSE n \in 0 .. Len(s) : P(n)
  BY DEF Digits
<1> HIDE DEF P
<1>4. Digits(s) \in 0 .. Len(s) /\ P(Digits(s))
  BY <1>2, <1>3
<1> QED
  BY <1>4 DEF P

\* The empty text has no number.
LEMMA NoNumberInNothing == parse_u16[<<>>].value = NoNumber
<1>1. <<>> \in Text /\ Len(<<>>) = 0
  BY DEF Text
<1>2. Digits(<<>>) = 0
  BY <1>1, DigitsCount
<1> QED
  BY <1>1, <1>2 DEF parse_u16

\* A number is kept only if it has sixteen bits, and what follows is a text.
LEMMA NumberInRange ==
    ASSUME NEW s \in Text
    PROVE  /\ parse_u16[s].value \in U16 \cup {NoNumber}
           /\ parse_u16[s].rest \in Text
           /\ parse_u16[s].value = NoNumber => parse_u16[s].rest = <<>>
<1> DEFINE n == Digits(s)
           value == IF n = 0 THEN NoNumber ELSE Kept(Decimal(SubSeq(s, 1, n)))
           rest == IF value = NoNumber THEN <<>> ELSE SubSeq(s, n + 1, Len(s))
<1>1. parse_u16[s] = [value |-> value, rest |-> rest]
  BY DEF parse_u16
<1>2. value \in U16 \cup {NoNumber}
  BY DEF Kept
<1>3. Len(s) \in Nat
  BY DEF Text
<1>4. rest \in Text
  <2>1. CASE value = NoNumber
    BY <2>1 DEF Text
  <2>2. CASE value # NoNumber
    <3>1. n \in 0 .. Len(s)
      BY DigitsCount
    <3> HIDE DEF n
    <3>2. SubSeq(s, n + 1, Len(s)) \in Text
      BY <3>1, <1>3, SubSeqProperties DEF Text
    <3> QED
      BY <2>2, <3>2
  <2> QED
    BY <2>1, <2>2
<1> HIDE DEF value, rest
<1> QED
  BY <1>1, <1>2, <1>4 DEF rest

\* What follows a dot is a text.
LEMMA AfterDotIsText ==
    ASSUME NEW s \in Text
    PROVE  AfterDot[s] \in Text /\ (s = <<>> => AfterDot[s] = <<>>)
<1>1. AfterDot[s] = IF s # <<>> /\ Head(s) = "." THEN Tail(s) ELSE <<>>
  BY DEF AfterDot
<1>2. <<>> \in Text
  BY DEF Text
<1>3. s # <<>> => Tail(s) \in Text
  BY HeadTailProperties DEF Text
<1> QED
  BY <1>1, <1>2, <1>3, Zenon

\* A tag has a version of three numbers of sixteen bits, or none at all.
THEOREM ParseInRange ==
    ASSUME NEW str \in Text
    PROVE  ota_version_parse(str) \in Version \cup {NoVersion}
<1> DEFINE first == IF Prefixed(str) THEN Tail(str) ELSE str
           major == parse_u16[first]
           minor == parse_u16[AfterDot[major.rest]]
           patch == parse_u16[AfterDot[minor.rest]]
<1>1. first \in Text
  BY HeadTailProperties DEF Prefixed, Text
<1> HIDE DEF first
<1>2. /\ major.value \in U16 \cup {NoNumber}
      /\ major.rest \in Text
      /\ major.value = NoNumber => major.rest = <<>>
  BY <1>1, NumberInRange
<1> HIDE DEF major
<1>3. /\ AfterDot[major.rest] \in Text
      /\ major.value = NoNumber => AfterDot[major.rest] = <<>>
  BY <1>2, AfterDotIsText
<1>4. /\ minor.value \in U16 \cup {NoNumber}
      /\ minor.rest \in Text
      /\ minor.value = NoNumber => minor.rest = <<>>
      /\ major.value = NoNumber => minor.value = NoNumber
  BY <1>3, NumberInRange, NoNumberInNothing
<1> HIDE DEF minor
<1>5. /\ AfterDot[minor.rest] \in Text
      /\ minor.value = NoNumber => AfterDot[minor.rest] = <<>>
  BY <1>4, AfterDotIsText
<1>6. /\ patch.value \in U16 \cup {NoNumber}
      /\ minor.value = NoNumber => patch.value = NoNumber
  BY <1>5, NumberInRange, NoNumberInNothing
<1> HIDE DEF patch
<1>7. ota_version_parse(str) =
        IF patch.value = NoNumber THEN NoVersion
        ELSE V(major.value, minor.value, patch.value)
  BY DEF ota_version_parse, first, major, minor, patch
<1> QED
  BY <1>2, <1>4, <1>6, <1>7 DEF V, Version

\* What follows the first k elements.
LEMMA RestOfSeq ==
    ASSUME NEW S, NEW t \in Seq(S), NEW k \in 0 .. Len(t)
    PROVE  /\ SubSeq(t, k + 1, Len(t)) \in Seq(S)
           /\ Len(SubSeq(t, k + 1, Len(t))) = Len(t) - k
           /\ \A l \in 1 .. (Len(t) - k) : SubSeq(t, k + 1, Len(t))[l] = t[k + l]
<1>1. Len(t) \in Nat /\ \A l \in k + 1 .. Len(t) : t[l] \in S
  BY ElementOfSeq
<1>2. k + 1 \in Int /\ Len(t) \in Int
  BY <1>1
<1>3. /\ SubSeq(t, k + 1, Len(t)) \in Seq(S)
      /\ Len(SubSeq(t, k + 1, Len(t))) = IF k + 1 <= Len(t) THEN Len(t) - (k + 1) + 1 ELSE 0
      /\ \A l \in 1 .. Len(t) - (k + 1) + 1 :
            SubSeq(t, k + 1, Len(t))[l] = t[(k + 1) + l - 1]
  BY <1>1, <1>2, SubSeqProperties
<1>4. Len(t) - (k + 1) + 1 = Len(t) - k /\ (k + 1 > Len(t) => Len(t) - k = 0)
  BY <1>1
<1>5. \A l \in 1 .. (Len(t) - k) : (k + 1) + l - 1 = k + l
  BY <1>1
<1>6. Len(SubSeq(t, k + 1, Len(t))) = Len(t) - k
  <2> DEFINE after == SubSeq(t, k + 1, Len(t))
             n == Len(t)
  <2>1. /\ Len(after) = IF k + 1 <= n THEN n - (k + 1) + 1 ELSE 0
        /\ n - (k + 1) + 1 = n - k /\ (k + 1 > n => n - k = 0)
    BY <1>3, <1>4, Zenon
  <2>3. n \in Nat /\ k \in Nat
    BY <1>1
  <2> HIDE DEF after, n
  <2>2. Len(after) = n - k
    BY <2>1, <2>3
  <2> QED
    BY <2>2 DEF after, n
<1>7. \A l \in 1 .. (Len(t) - k) : SubSeq(t, k + 1, Len(t))[l] = t[k + l]
  <2> TAKE l \in 1 .. (Len(t) - k)
  <2>1. SubSeq(t, k + 1, Len(t))[l] = t[(k + 1) + l - 1]
    BY <1>3, <1>4
  <2> QED
    BY <1>5, <2>1
<1> QED
  BY <1>3, <1>6, <1>7

\* The number at position p of a text, and what follows it.
LEMMA NumberAt ==
    ASSUME NEW str \in Text, NEW p \in 1 .. Len(str) + 1, NEW s,
           s = SubSeq(str, p, Len(str)), parse_u16[s].value # NoNumber
    PROVE  \E i \in p .. Len(str) :
              /\ \A l \in p .. i : IsDigit(str[l])
              /\ Decimal(SubSeq(str, p, i)) = parse_u16[s].value
              /\ parse_u16[s].rest = SubSeq(str, i + 1, Len(str))
              /\ i < Len(str) => ~IsDigit(str[i + 1])
<1> DEFINE n == Digits(s)
           i == p + n - 1
<1>1. Len(str) \in Nat /\ \A l \in 1 .. Len(str) : str[l] \in STRING
  BY ElementOfSeq DEF Text
<1>2. /\ s \in Text /\ Len(s) = Len(str) - p + 1
      /\ \A l \in 1 .. Len(s) : s[l] = str[p + l - 1]
  <2>1. \A l \in p .. Len(str) : str[l] \in STRING
    BY <1>1
  <2>2. p \in Int /\ Len(str) \in Int /\ Len(str) - p + 1 >= 0
    BY <1>1
  <2>3. /\ SubSeq(str, p, Len(str)) \in Seq(STRING)
        /\ Len(SubSeq(str, p, Len(str))) = IF p <= Len(str) THEN Len(str) - p + 1 ELSE 0
        /\ \A l \in 1 .. Len(str) - p + 1 : SubSeq(str, p, Len(str))[l] = str[p + l - 1]
    BY <2>1, <2>2, SubSeqProperties
  <2> QED
    BY <2>2, <2>3, <1>1 DEF Text
<1>3. parse_u16[s] =
        [value |-> IF n = 0 THEN NoNumber ELSE Kept(Decimal(SubSeq(s, 1, n))),
         rest  |-> IF (IF n = 0 THEN NoNumber ELSE Kept(Decimal(SubSeq(s, 1, n))))
                        = NoNumber
                   THEN <<>> ELSE SubSeq(s, n + 1, Len(s))]
  BY <1>2 DEF parse_u16
<1>a. /\ n \in 0 .. Len(s) /\ \A l \in 1 .. n : IsDigit(s[l])
      /\ n < Len(s) => ~IsDigit(s[n + 1])
  BY <1>2, DigitsCount
<1> HIDE DEF n
<1>4. /\ n # 0 /\ parse_u16[s].value = Decimal(SubSeq(s, 1, n))
      /\ parse_u16[s].rest = SubSeq(s, n + 1, Len(s))
  <2> DEFINE d == Decimal(SubSeq(s, 1, n))
             after == SubSeq(s, n + 1, Len(s))
             value == IF n = 0 THEN NoNumber ELSE Kept(d)
  <2>1. parse_u16[s] = [value |-> value, rest |-> IF value = NoNumber THEN <<>> ELSE after]
    BY <1>3
  <2> HIDE DEF d, after
  <2>2. n # 0 /\ Kept(d) # NoNumber
    BY <2>1
  <2>3. parse_u16[s].value = Kept(d) /\ parse_u16[s].rest = after
    BY <2>1, <2>2
  <2>4. Kept(d) = d
    BY <2>2 DEF Kept
  <2> QED
    BY <2>2, <2>3, <2>4 DEF d, after
<1>5. /\ n \in 1 .. Len(s) /\ \A l \in 1 .. n : IsDigit(s[l])
      /\ n < Len(s) => ~IsDigit(s[n + 1])
  BY <1>1, <1>2, <1>4, <1>a
<1>6. i \in p .. Len(str) /\ p \in 1 .. Len(str)
  BY <1>1, <1>2, <1>5
<1>7. \A l \in p .. i : IsDigit(str[l])
  <2> TAKE l \in p .. i
  <2>1. l - p + 1 \in 1 .. n /\ p + (l - p + 1) - 1 = l
    BY <1>1, <1>5
  <2>2. l - p + 1 \in 1 .. Len(s)
    BY <1>5, <1>2, <2>1, <1>1
  <2> QED
    BY <1>2, <1>5, <2>1, <2>2
<1>8. i < Len(str) => ~IsDigit(str[i + 1])
  <2>1. i < Len(str) => n + 1 \in 1 .. Len(s) /\ p + (n + 1) - 1 = i + 1
    BY <1>1, <1>2, <1>5
  <2> QED
    BY <1>2, <1>5, <2>1, <1>1
<1>9. SubSeq(s, 1, n) = SubSeq(str, p, i)
  <2>1. /\ SubSeq(s, 1, n) \in Seq(STRING) /\ Len(SubSeq(s, 1, n)) = n
        /\ \A l \in 1 .. n : SubSeq(s, 1, n)[l] = s[l]
    <3>1. \A l \in 1 .. n : s[l] \in STRING
      BY <1>2, <1>5 DEF Text
    <3> QED
      BY <1>5, <1>2, <1>1, <3>1, SubSeqProperties
  <2>2. /\ SubSeq(str, p, i) \in Seq(STRING) /\ Len(SubSeq(str, p, i)) = n
        /\ \A l \in 1 .. n : SubSeq(str, p, i)[l] = str[p + l - 1]
    <3>1. \A l \in p .. i : str[l] \in STRING
      BY <1>1, <1>6
    <3>2. i - p + 1 = n /\ p <= i /\ p \in Int /\ i \in Int
      BY <1>1, <1>5, <1>6, <1>2
    <3> QED
      BY <3>1, <3>2, SubSeqProperties
  <2>3. \A l \in 1 .. n : SubSeq(s, 1, n)[l] = SubSeq(str, p, i)[l]
    BY <1>2, <1>5, <2>1, <2>2, <1>1
  <2> QED
    BY <2>1, <2>2, <2>3, SeqEqual
<1>10. SubSeq(s, n + 1, Len(s)) = SubSeq(str, i + 1, Len(str))
  <2> DEFINE m == Len(s) - n
  <2>0. m \in Nat /\ Len(str) - (i + 1) + 1 = m /\ n \in Nat
    BY <1>1, <1>2, <1>5
  <2>1. /\ SubSeq(s, n + 1, Len(s)) \in Seq(STRING)
        /\ Len(SubSeq(s, n + 1, Len(s))) = m
        /\ \A l \in 1 .. m : SubSeq(s, n + 1, Len(s))[l] = s[n + l]
    <3>1. s \in Seq(STRING) /\ n \in 0 .. Len(s)
      BY <1>2, <1>a DEF Text
    <3> QED
      BY <3>1, RestOfSeq, Zenon
  <2>2. /\ SubSeq(str, i + 1, Len(str)) \in Seq(STRING)
        /\ Len(SubSeq(str, i + 1, Len(str))) = m
        /\ \A l \in 1 .. m : SubSeq(str, i + 1, Len(str))[l] = str[i + l]
    <3>1. str \in Seq(STRING) /\ i \in 0 .. Len(str) /\ Len(str) - i = m
      BY <1>1, <1>6, <2>0 DEF Text
    <3> HIDE DEF i, m
    <3> QED
      BY <3>1, RestOfSeq
  <2>3. \A l \in 1 .. m : n + l \in 1 .. Len(s) /\ p + (n + l) - 1 = i + l
    BY <1>1, <1>2, <1>5
  <2>4. \A l \in 1 .. m :
           SubSeq(s, n + 1, Len(s))[l] = SubSeq(str, i + 1, Len(str))[l]
    <3> HIDE DEF i, m
    <3> QED
      BY <1>2, <2>1, <2>2, <2>3
  <2> HIDE DEF i, m
  <2> QED
    BY <2>1, <2>2, <2>4, SeqEqual
<1> HIDE DEF i
<1> QED
  BY <1>4, <1>6, <1>7, <1>8, <1>9, <1>10

\* The dot at position p of a text, and what follows it.
LEMMA DotAt ==
    ASSUME NEW str \in Text, NEW p \in 1 .. Len(str) + 1, NEW s,
           s = SubSeq(str, p, Len(str)), AfterDot[s] # <<>>
    PROVE  /\ p <= Len(str) /\ str[p] = "."
           /\ AfterDot[s] = SubSeq(str, p + 1, Len(str))
<1>1. Len(str) \in Nat /\ str \in Seq(STRING)
  BY DEF Text
<1>2. p <= Len(str)
  <2>1. ASSUME p > Len(str) PROVE FALSE
    <3>1. s = <<>>
      BY <1>1, <2>1, SubSeqEmpty
    <3>2. s \in Text
      BY <3>1 DEF Text
    <3> QED
      BY <3>1, <3>2, AfterDotIsText
  <2> QED
    BY <1>1, <2>1
<1>3. p \in 1 .. Len(str) /\ Len(str) \in p .. Len(str)
  BY <1>1, <1>2
<1>4. Head(s) = str[p] /\ Tail(s) = SubSeq(str, p + 1, Len(str))
  BY <1>1, <1>3, HeadTailOfSubSeq
<1>5. s \in Text
  <2>1. \A l \in p .. Len(str) : str[l] \in STRING
    BY <1>1, <1>3, ElementOfSeq
  <2> QED
    BY <1>1, <2>1, SubSeqProperties DEF Text
<1>6. AfterDot[s] = IF s # <<>> /\ Head(s) = "." THEN Tail(s) ELSE <<>>
  BY <1>5 DEF AfterDot
<1>7. Head(s) = "." /\ AfterDot[s] = Tail(s)
  BY <1>6
<1> QED
  BY <1>2, <1>4, <1>7

\* A version that is found is what the whole text says: three numbers with dots
\* between them, each to its last digit, whatever its length.
THEOREM ParseMeans ==
    ASSUME NEW str \in Text, ota_version_parse(str) # NoVersion
    PROVE  Means(str, ota_version_parse(str))
<1> DEFINE h == IF Prefixed(str) THEN 1 ELSE 0
           first == IF Prefixed(str) THEN Tail(str) ELSE str
           major == parse_u16[first]
           afterMajor == AfterDot[major.rest]
           minor == parse_u16[afterMajor]
           afterMinor == AfterDot[minor.rest]
           patch == parse_u16[afterMinor]
           N == Len(str)
<1>1. N \in Nat /\ str \in Seq(STRING)
  BY DEF Text
<1>2. first = SubSeq(str, h + 1, N) /\ h + 1 \in 1 .. N + 1 /\ h \in {0, 1}
  <2>1. CASE Prefixed(str)
    <3>1. str # <<>>
      BY <2>1 DEF Prefixed
    <3>2. N > 0
      BY <1>1, <3>1
    <3> QED
      BY <1>1, <2>1, <3>1, <3>2, TailIsSubSeq
  <2>2. CASE ~Prefixed(str)
    BY <1>1, <2>2, SubSeqFull
  <2> QED
    BY <2>1, <2>2
<1>3. ota_version_parse(str) =
        IF patch.value = NoNumber THEN NoVersion
        ELSE V(major.value, minor.value, patch.value)
  BY DEF ota_version_parse
<1>4. /\ first \in Text
      /\ major.value # NoNumber /\ minor.value # NoNumber /\ patch.value # NoNumber
      /\ afterMajor # <<>> /\ afterMinor # <<>>
  <2>1. first \in Text
    BY HeadTailProperties DEF Prefixed, Text
  <2>2. patch.value # NoNumber
    BY <1>3
  <2> HIDE DEF first
  <2>3. major.rest \in Text /\ (major.value = NoNumber => major.rest = <<>>)
    BY <2>1, NumberInRange
  <2> HIDE DEF major
  <2>4. afterMajor \in Text /\ (major.value = NoNumber => afterMajor = <<>>)
    BY <2>3, AfterDotIsText
  <2> HIDE DEF afterMajor
  <2>5. /\ minor.rest \in Text /\ (minor.value = NoNumber => minor.rest = <<>>)
        /\ afterMajor = <<>> => minor.value = NoNumber
    BY <2>4, NumberInRange, NoNumberInNothing
  <2> HIDE DEF minor
  <2>6. minor.value = NoNumber => afterMinor = <<>>
    BY <2>5, AfterDotIsText
  <2> HIDE DEF afterMinor
  <2>7. afterMinor # <<>>
    BY <2>2, NoNumberInNothing
  <2> QED
    BY <2>1, <2>2, <2>4, <2>5, <2>6, <2>7
<1>5. ota_version_parse(str) = [major |-> major.value, minor |-> minor.value,
                                patch |-> patch.value]
  BY <1>3, <1>4 DEF V
<1> HIDE DEF h, first
<1>6. PICK i \in (h + 1) .. N :
          /\ \A l \in (h + 1) .. i : IsDigit(str[l])
          /\ Decimal(SubSeq(str, h + 1, i)) = major.value
          /\ major.rest = SubSeq(str, i + 1, N)
  <2>1. \E i \in (h + 1) .. N :
          /\ \A l \in (h + 1) .. i : IsDigit(str[l])
          /\ Decimal(SubSeq(str, h + 1, i)) = parse_u16[first].value
          /\ parse_u16[first].rest = SubSeq(str, i + 1, N)
          /\ i < N => ~IsDigit(str[i + 1])
    <3>1. h + 1 \in 1 .. N + 1 /\ parse_u16[first].value # NoNumber
      BY <1>2, <1>4
    <3> QED
      BY <3>1, <1>2, NumberAt, Zenon
  <2> QED
    BY <2>1
<1> HIDE DEF major
<1>7. i \in 1 .. N /\ i + 1 \in 1 .. N + 1
  BY <1>1, <1>2, <1>6
<1>8. i + 1 <= N /\ str[i + 1] = "." /\ afterMajor = SubSeq(str, (i + 1) + 1, N)
  BY <1>4, <1>6, <1>7, DotAt
<1> HIDE DEF afterMajor
<1>9. i + 2 \in 1 .. N + 1 /\ (i + 1) + 1 = i + 2
  BY <1>1, <1>7, <1>8
<1>10. PICK j \in (i + 2) .. N :
          /\ \A l \in (i + 2) .. j : IsDigit(str[l])
          /\ Decimal(SubSeq(str, i + 2, j)) = minor.value
          /\ minor.rest = SubSeq(str, j + 1, N)
  <2>1. \E j \in (i + 2) .. N :
          /\ \A l \in (i + 2) .. j : IsDigit(str[l])
          /\ Decimal(SubSeq(str, i + 2, j)) = parse_u16[afterMajor].value
          /\ parse_u16[afterMajor].rest = SubSeq(str, j + 1, N)
          /\ j < N => ~IsDigit(str[j + 1])
    <3>1. afterMajor = SubSeq(str, i + 2, N) /\ parse_u16[afterMajor].value # NoNumber
      BY <1>4, <1>8, <1>9
    <3> QED
      BY <3>1, <1>9, NumberAt, Zenon
  <2> QED
    BY <2>1
<1> HIDE DEF minor
<1>11. j \in 1 .. N /\ j + 1 \in 1 .. N + 1
  BY <1>1, <1>7, <1>10
<1>12. j + 1 <= N /\ str[j + 1] = "." /\ afterMinor = SubSeq(str, (j + 1) + 1, N)
  BY <1>4, <1>10, <1>11, DotAt
<1> HIDE DEF afterMinor
<1>13. j + 2 \in 1 .. N + 1 /\ (j + 1) + 1 = j + 2
  BY <1>1, <1>11, <1>12
<1>14. PICK k \in (j + 2) .. N :
          /\ \A l \in (j + 2) .. k : IsDigit(str[l])
          /\ Decimal(SubSeq(str, j + 2, k)) = patch.value
          /\ k < N => ~IsDigit(str[k + 1])
  BY <1>4, <1>12, <1>13, NumberAt
<1>15. k \in 1 .. N /\ h + 1 <= i /\ i + 2 <= j /\ j + 2 <= k
  BY <1>1, <1>2, <1>6, <1>7, <1>10, <1>11, <1>14
<1> HIDE DEF patch
<1> DEFINE v == [major |-> major.value, minor |-> minor.value, patch |-> patch.value]
<1>16. Means(str, v)
  BY <1>6, <1>7, <1>8, <1>10, <1>11, <1>12, <1>14, <1>15 DEF Means, h
<1> QED
  BY <1>5, <1>16

-----------------------------------------------------------------------------
(* The flash writer.                                                       *)

WriterTypes ==
    /\ flash \in [Addr -> Byte]
    /\ flash_offset \in Nat /\ partition_end \in Nat
    /\ sector_buf \in Seq(Byte) /\ Len(sector_buf) <= SectorSize
    /\ total_written \in Nat /\ fw_error \in BOOLEAN
    /\ input \in Seq(Byte)

\* What a step of the writer may change.
Within ==
    /\ flash_offset <= flash_offset'
    /\ \A a \in Addr : flash'[a] # flash[a] =>
          flash_offset <= a /\ a < partition_end

\* A flush writes one sector, at the offset and before the partition's end.
LEMMA FlushWithin ==
    ASSUME WriterTypes, NEW buf \in Seq(Byte), Len(buf) <= SectorSize,
           flash_writer_flush(buf)
    PROVE  /\ flash' \in [Addr -> Byte] /\ flash_offset' \in Nat
           /\ sector_buf' \in Seq(Byte) /\ Len(sector_buf') <= SectorSize
           /\ Within
<1>1. SectorSize \in Nat /\ SectorSize > 0 /\ Erased \in Byte /\ Addr \subseteq Nat
  BY WriterAssumption
<1>2. CASE buf # <<>> /\ SectorFits
  <2>1. /\ flash' = Programmed(flash, flash_offset, buf)
        /\ flash_offset' = flash_offset + SectorSize
        /\ sector_buf' = <<>>
        /\ flash_offset + SectorSize <= partition_end
    BY <1>2 DEF flash_writer_flush, SectorFits
  <2>2. ASSUME NEW a \in Addr, a \in flash_offset .. (flash_offset + SectorSize - 1)
        PROVE  /\ flash_offset <= a /\ a < partition_end
               /\ a - flash_offset < Len(buf) => buf[a - flash_offset + 1] \in Byte
    <3>1. a \in Nat /\ flash_offset <= a /\ a < flash_offset + SectorSize
      BY <2>2, <1>1 DEF WriterTypes
    <3>2. a - flash_offset < Len(buf) => a - flash_offset + 1 \in 1 .. Len(buf)
      BY <3>1 DEF WriterTypes
    <3> QED
      BY <3>1, <3>2, <2>1, <1>1, ElementOfSeq DEF WriterTypes
  <2>3. flash' \in [Addr -> Byte]
    BY <2>1, <2>2, <1>1 DEF Programmed, WriterTypes
  <2>4. \A a \in Addr : flash'[a] # flash[a] =>
           flash_offset <= a /\ a < partition_end
    BY <2>1, <2>2 DEF Programmed, WriterTypes
  <2> QED
    BY <2>1, <2>3, <2>4, <1>1 DEF WriterTypes, Within
<1>3. CASE ~(buf # <<>> /\ SectorFits)
  BY <1>3 DEF flash_writer_flush, WriterTypes, Within
<1> QED
  BY <1>2, <1>3

\* So does a round of flash_write_cb, whatever it was given.
LEMMA RoundWithin ==
    ASSUME WriterTypes, flash_write_cb
    PROVE  WriterTypes' /\ Within
<1> DEFINE buf == sector_buf \o SubSeq(input, 1, Chunk)
           rest == SubSeq(input, Chunk + 1, Len(input))
<1>1. SectorSize \in Nat /\ SectorSize > 0
  BY WriterAssumption
<1>2. /\ Len(input) \in Nat /\ Len(sector_buf) \in Nat
      /\ Chunk \in 0 .. Len(input) /\ Len(sector_buf) + Chunk <= SectorSize
  BY <1>1 DEF WriterTypes, Chunk
<1>3. SubSeq(input, 1, Chunk) \in Seq(Byte) /\ Len(SubSeq(input, 1, Chunk)) = Chunk
  BY <1>2, SubSeqProperties DEF WriterTypes
<1>4. buf \in Seq(Byte) /\ Len(buf) <= SectorSize
  BY <1>2, <1>3, ConcatProperties DEF WriterTypes
<1>5. rest \in Seq(Byte)
  BY <1>2, SubSeqProperties DEF WriterTypes
<1>6. /\ IF Len(buf) = SectorSize
         THEN /\ flash_writer_flush(buf)
              /\ \/ input' = rest /\ fw_error' = fw_error
                 \/ input' = <<>> /\ fw_error' = TRUE
         ELSE /\ sector_buf' = buf /\ input' = rest
              /\ UNCHANGED <<flash, flash_offset, fw_error>>
      /\ total_written' = total_written + Chunk
      /\ partition_end' = partition_end
  BY DEF flash_write_cb
<1> HIDE DEF buf, rest
<1>7. total_written' \in Nat /\ partition_end' \in Nat
  BY <1>2, <1>6 DEF WriterTypes
<1>8. CASE Len(buf) = SectorSize
  <2>1. /\ flash_writer_flush(buf)
        /\ \/ input' = rest /\ fw_error' = fw_error
           \/ input' = <<>> /\ fw_error' = TRUE
    BY <1>6, <1>8, Zenon
  <2>2. <<>> \in Seq(Byte)
    OBVIOUS
  <2>3. input' \in Seq(Byte) /\ fw_error' \in BOOLEAN
    BY <1>5, <2>1, <2>2, Zenon DEF WriterTypes
  <2>4. /\ flash' \in [Addr -> Byte] /\ flash_offset' \in Nat
        /\ sector_buf' \in Seq(Byte) /\ Len(sector_buf') <= SectorSize
        /\ Within
    BY <2>1, <1>4, FlushWithin
  <2> QED
    BY <2>3, <2>4, <1>7, Zenon DEF WriterTypes
<1>9. CASE Len(buf) # SectorSize
  BY <1>4, <1>5, <1>6, <1>7, <1>9 DEF WriterTypes, Within
<1> QED
  BY <1>8, <1>9

-----------------------------------------------------------------------------
(* The partitions.                                                         *)

Size == PartSectors * SectorSize
Base(p) == First(p) * SectorSize

\* The partitions follow one another in the flash.
LEMMA Layout ==
    /\ Size \in Nat /\ Size > 0
    /\ \A p \in Partition :
          /\ Base(p) = IF p = "A" THEN 0 ELSE Size
          /\ AddrsOf(p) = Base(p) .. (Base(p) + Size - 1)
          /\ PartitionSize(p) = Size
<1>1. PartSectors \in Nat /\ PartSectors > 0 /\ SectorSize \in Nat /\ SectorSize > 0
  BY OtaAssumption, WriterAssumption
<1>2. Size \in Nat /\ Size > 0
  BY <1>1 DEF Size
<1>3. ASSUME NEW p \in Partition
      PROVE  /\ Base(p) = IF p = "A" THEN 0 ELSE Size
             /\ AddrsOf(p) = Base(p) .. (Base(p) + Size - 1)
             /\ PartitionSize(p) = Size
  <2> DEFINE f == First(p)
  <2>1. f \in Nat
    BY <1>1 DEF First
  <2>2. (f + PartSectors - 1) * SectorSize = f * SectorSize + PartSectors * SectorSize - SectorSize
    BY <1>1, <2>1
  <2>3. Last(p) - First(p) + 1 = PartSectors
    BY <1>1, <2>1 DEF Last
  <2>4. Base(p) = IF p = "A" THEN 0 ELSE Size
    BY <1>1 DEF Base, First, Size
  <2>5. AddrsOf(p) = Base(p) .. (Base(p) + Size - 1)
    <3>1. AddrsOf(p) = (f * SectorSize) ..
                          ((f + PartSectors - 1) * SectorSize + SectorSize - 1)
      BY DEF AddrsOf, Last
    <3>2. (f + PartSectors - 1) * SectorSize + SectorSize - 1
            = f * SectorSize + Size - 1
      BY <1>1, <1>2, <2>1, <2>2 DEF Size
    <3> QED
      BY <3>1, <3>2 DEF Base
  <2>6. PartitionSize(p) = Size
    BY <2>3, Zenon DEF PartitionSize, Size
  <2> QED
    BY <2>4, <2>5, <2>6
<1> QED
  BY <1>2, <1>3

\* The target is the partition that does not run, and has no address of it.
LEMMA TargetIsOther ==
    ASSUME running \in Partition
    PROVE  /\ target \in Partition /\ target # running
           /\ \A a \in AddrsOf(running) :
                 ~(Base(target) <= a /\ a < Base(target) + Size)
<1>1. target \in Partition /\ target # running
  BY DEF target, Partition
<1>2. CASE running = "A"
  <2>1. Base(target) = Size /\ AddrsOf(running) = 0 .. (0 + Size - 1)
    BY <1>1, <1>2, Layout
  <2> QED
    BY <1>1, <2>1, Layout
<1>3. CASE running # "A"
  <2>0. target = "A"
    BY <1>3 DEF target
  <2>1. Base(target) = 0 /\ AddrsOf(running) = Size .. (Size + Size - 1)
    BY <1>1, <1>3, <2>0, Layout
  <2> QED
    BY <1>1, <2>1, Layout
<1> QED
  BY <1>2, <1>3

-----------------------------------------------------------------------------
(* The invariant.                                                          *)

\* The boot ROM: while the program runs, what runs is what was bought; what
\* runs on trial, or will, or is being downloaded, is newer.
RomInv ==
    /\ pc # "boot" => bought = running
    /\ bought # running => Precedes(image[bought], image[running])
    /\ reboot_pending => pc = "main" /\ Precedes(image[running], image[target])
    /\ body_cb = "flash" => pc # "boot" /\ Precedes(image[running], remote_ver)

\* The writer works on the target, and only for the download.
DownloadInv ==
    /\ body_cb = "flash" => /\ Base(target) <= flash_offset
                            /\ partition_end = Base(target) + Size
    /\ input # <<>> => pc = "wait" /\ body_cb = "flash"
    /\ pc = "finish" => body_cb = "flash"

\* What a reply is made of.
BodyOf(cb) == IF cb = "flash" THEN Seq(Byte) ELSE Seq(String)

\* The requests: the release first, then the file; what comes is of a kind.
HttpInv ==
    /\ api_buf \in Seq(String)
    /\ url \in IF body_cb = "flash" THEN {"bin", "other", "bad"} ELSE {"api", "bad"}
    /\ pc \in {"dns", "wait", "response"} => url # "bad" /\ hops < MAX_REDIRECTS
    /\ conn = "open" =>
          /\ pc = "wait"
          /\ reply.status \in {0, 200, 302, 404}
          /\ reply.location \in {"none", "url", "bad"}
          /\ reply.body \in BodyOf(body_cb)

Inv == TypeOK /\ WriterTypes /\ RomInv /\ DownloadInv /\ HttpInv

\* The device as it was flashed.
LEMMA InitInv == ASSUME Init PROVE Inv
<1>1. ApiCap \in Nat /\ MAX_REDIRECTS \in Nat /\ MAX_REDIRECTS > 0
  BY OtaAssumption
<1>2. SectorSize \in Nat /\ SectorSize > 0 /\ Erased \in Byte
  BY WriterAssumption
<1>3. PICK v \in Installed :
         /\ image = [p \in Partition |-> v]
         /\ remote_ver = v
         /\ flash = [a \in Addr |->
              LET i == (a % (PartSectors * SectorSize)) + 1
              IN  IF i <= Len(Asset[v]) THEN Asset[v][i] ELSE Erased]
  BY DEF Init
<1>4. v \in Version /\ Asset[v] \in Seq(Byte)
  BY OtaAssumption
<1>5. flash \in [Addr -> Byte]
  <2>1. ASSUME NEW a \in Addr
        PROVE  LET i == (a % (PartSectors * SectorSize)) + 1
               IN  (IF i <= Len(Asset[v]) THEN Asset[v][i] ELSE Erased) \in Byte
    <3> DEFINE i == (a % (PartSectors * SectorSize)) + 1
    <3>1. a \in Nat
      BY WriterAssumption
    <3>2. i \in Nat /\ i >= 1
      <4>1. Size \in Nat /\ Size > 0
        BY Layout
      <4>2. a % Size \in Nat
        BY <3>1, <4>1
      <4> QED
        BY <4>2 DEF Size
    <3> HIDE DEF i
    <3>3. (IF i <= Len(Asset[v]) THEN Asset[v][i] ELSE Erased) \in Byte
      BY <3>2, <1>2, <1>4, ElementOfSeq
    <3> QED
      BY <3>3 DEF i
  <2> QED
    BY <1>3, <2>1
<1>6. image \in [Partition -> Version] /\ remote_ver \in Version
  BY <1>3, <1>4
<1>7. api_buf = <<>> /\ sector_buf = <<>> /\ input = <<>>
  BY DEF Init
<1>8. api_buf \in Seq(String) /\ sector_buf \in Seq(Byte) /\ input \in Seq(Byte)
  BY <1>7
<1>9. TypeOK /\ WriterTypes
  <2>1. Len(api_buf) = 0 /\ Len(sector_buf) = 0
    BY <1>7
  <2>2. /\ flash_offset \in Nat /\ partition_end \in Nat /\ total_written \in Nat
        /\ fw_error \in BOOLEAN
    BY DEF Init
  <2>3. WriterTypes
    BY <2>1, <2>2, <1>2, <1>5, <1>8 DEF WriterTypes
  <2>4. body_len = 0 /\ hops = 0 /\ flaws = {}
    BY DEF Init
  <2>5. body_len \in {0, Len(api_buf)} /\ Len(api_buf) <= ApiCap
        /\ hops \in 0 .. MAX_REDIRECTS /\ flaws \subseteq {"cut", "redirect"}
    BY <1>1, <2>1, <2>4
  <2>6. /\ bought \in Partition /\ running \in Partition /\ reboot_pending \in BOOLEAN
        /\ pc \in {"boot", "check", "url", "dns", "wait", "response", "release",
                   "finish", "main"}
        /\ body_cb \in {"api_buf", "flash"} /\ url \in {"api", "bin", "other", "bad"}
        /\ complete \in BOOLEAN /\ error \in BOOLEAN /\ late \in BOOLEAN
        /\ headers_done \in BOOLEAN /\ status_code \in {0, 200, 302, 404}
        /\ location \in {"none", "url", "bad"}
        /\ conn \in {"none", "connecting", "open", "closing"}
    BY DEF Init
  <2> QED
    BY <2>2, <2>3, <2>5, <2>6, <1>6, Zenon DEF TypeOK, WriterTypes
<1>10. RomInv /\ DownloadInv /\ HttpInv
  BY <1>8 DEF Init, RomInv, DownloadInv, HttpInv
<1> QED
  BY <1>9, <1>10 DEF Inv

-----------------------------------------------------------------------------
(* What the server sends.                                                  *)

\* What may come is of the kind of what was asked for.
LEMMA AnswersAreOfAKind ==
    ASSUME url # "bad", body_cb \in {"api_buf", "flash"},
           url \in IF body_cb = "flash" THEN {"bin", "other", "bad"}
                   ELSE {"api", "bad"},
           NEW r \in Answers
    PROVE  /\ r.status \in {0, 200, 302, 404}
           /\ r.location \in {"none", "url", "bad"}
           /\ r.body \in BodyOf(body_cb)
<1>1. \A body : /\ Page(body).status = 200 /\ Page(body).location = "none"
                 /\ Page(body).body = body
  BY DEF Page
<1>2. \A d \in Detours : /\ d.status \in {200, 302, 404}
                         /\ d.location \in {"none", "url", "bad"}
                         /\ d.body \in Seq(Byte)
  BY OtaAssumption
<1>3. CASE body_cb = "flash"
  <2>1. url \in {"bin", "other"}
    BY <1>3
  <2>2. \A v \in Versions : Asset[v] \in Seq(Byte)
    BY OtaAssumption
  <2>3. <<Erased>> \in Seq(Byte)
    BY WriterAssumption
  <2>4. BodyOf(body_cb) = Seq(Byte)
    BY <1>3 DEF BodyOf
  <2>5. CASE url = "bin"
    <3>1. \/ \E v \in Versions : r = Page(Asset[v])
          \/ r \in Detours
      BY <2>5 DEF Answers
    <3> QED
      BY <3>1, <1>1, <1>2, <2>2, <2>4
  <2>6. CASE url = "other"
    <3> DEFINE file == <<Erased>>
    <3>1. (r = Page(file) \/ r \in Detours) /\ file \in Seq(Byte)
      BY <2>3, <2>6 DEF Answers
    <3> HIDE DEF file
    <3> QED
      BY <3>1, <1>1, <1>2, <2>3, <2>4
  <2> QED
    BY <2>1, <2>5, <2>6
<1>4. CASE body_cb = "api_buf"
  <2>1. url = "api" /\ BodyOf(body_cb) = Seq(String)
    BY <1>4 DEF BodyOf
  <2>2. \/ \E release \in Releases : r = Page(release)
        \/ \E d \in Detours : r = [d EXCEPT !.body =
              [i \in DOMAIN @ |-> [part |-> "other", text |-> <<>>]]]
    BY <2>1 DEF Answers
  <2>3. CASE \E release \in Releases : r = Page(release)
    BY <2>3, <2>1, <1>1, OtaAssumption
  <2>4. ASSUME NEW d \in Detours,
               r = [d EXCEPT !.body =
                      [i \in DOMAIN @ |-> [part |-> "other", text |-> <<>>]]]
        PROVE  /\ r.status \in {0, 200, 302, 404}
               /\ r.location \in {"none", "url", "bad"}
               /\ r.body \in Seq(String)
    <3> DEFINE other == [part |-> "other", text |-> <<>>]
    <3>1. d \in [status : {200, 302, 404}, location : {"none", "url", "bad"},
                 fits : BOOLEAN, body : Seq(Byte)]
      BY OtaAssumption
    <3>2. r.status = d.status /\ r.location = d.location
          /\ r.body = [i \in DOMAIN d.body |-> other]
      BY <2>4, <3>1
    <3>3. DOMAIN d.body = 1 .. Len(d.body) /\ Len(d.body) \in Nat
      BY <3>1
    <3>4. other \in String
      <4>1. <<>> \in Text
        BY DEF Text
      <4> QED
        BY <4>1 DEF String
    <3> HIDE DEF other
    <3>5. [i \in 1 .. Len(d.body) |-> other] \in Seq(String)
      BY <3>3, <3>4
    <3> QED
      BY <3>1, <3>2, <3>3, <3>5
  <2> QED
    BY <2>1, <2>2, <2>3, <2>4
<1> QED
  BY <1>3, <1>4

\* A text that main finds in a release is a text, and a URL one of those.
LEMMA FoundIsOfAKind ==
    ASSUME api_buf \in Seq(String), NEW part \in {"tag", "url"}, NEW i \in Nat,
           i > 0, TextOf(part, i) # <<>>
    PROVE  IF part = "tag" THEN TextOf(part, i) \in Text
           ELSE TextOf(part, i) \in {<<"bin">>, <<"other">>, <<"bad">>}
<1> DEFINE at == {j \in i .. Len(api_buf) : api_buf[j].part = part}
<1>1. at # {}
  BY DEF TextOf
<1>2. at \subseteq Nat
  OBVIOUS
<1>3. \E j \in at : \A k \in at : j <= k
  <2> HIDE DEF at
  <2> QED
    BY <1>1, <1>2, LeastNumber, Zenon
<1> DEFINE first == CHOOSE j \in at : \A k \in at : j <= k
<1>4. first \in at
  <2> HIDE DEF at
  <2> QED
    BY <1>3
<1>5. TextOf(part, i) = api_buf[first].text
  BY <1>1, Zenon DEF TextOf
<1> HIDE DEF first
<1>6. api_buf[first] \in String /\ api_buf[first].part = part
  BY <1>4
<1> QED
  BY <1>5, <1>6 DEF String

\* What main takes of the tag is the whole of it, or as much as fits.
LEMMA TagIsBeginning ==
    ASSUME api_buf \in Seq(String)
    PROVE  \E n \in 0 .. Len(TextOf("tag", 1)) :
              /\ json_find_string = SubSeq(TextOf("tag", 1), 1, n)
              /\ \/ n = Len(TextOf("tag", 1))
                 \/ n = TAG_MAX - 1 /\ n < Len(TextOf("tag", 1))
              /\ TextOf("tag", 1) \in Seq(STRING)
<1> DEFINE text == TextOf("tag", 1)
           n == IF Len(text) < TAG_MAX THEN Len(text) ELSE TAG_MAX - 1
<1>1. text \in Seq(STRING)
  <2>1. CASE TextOf("tag", 1) = <<>>
    <3>1. <<>> \in Seq(STRING)
      OBVIOUS
    <3> QED
      BY <2>1, <3>1, Zenon
  <2>2. CASE TextOf("tag", 1) # <<>>
    BY <2>2, FoundIsOfAKind DEF Text
  <2> QED
    BY <2>1, <2>2
<1>2. json_find_string = SubSeq(text, 1, n)
  BY Zenon DEF json_find_string
<1> HIDE DEF text
<1>3. Len(text) \in Nat /\ TAG_MAX \in Nat /\ TAG_MAX > 0
  BY <1>1, OtaAssumption
<1>4. /\ n \in 0 .. Len(text)
      /\ \/ n = Len(text)
         \/ n = TAG_MAX - 1 /\ n < Len(text)
  BY <1>3
<1> HIDE DEF n
<1> QED
  BY <1>1, <1>2, <1>4 DEF text

\* So are the tag and the asset's URL.
LEMMA ReleaseIsOfAKind ==
    ASSUME api_buf \in Seq(String)
    PROVE  /\ json_find_string \in Text
           /\ find_bin_asset_url # <<>> =>
                 find_bin_asset_url \in {<<"bin">>, <<"other">>, <<"bad">>}
<1>1. json_find_string \in Text
  <2>1. PICK n \in 0 .. Len(TextOf("tag", 1)) :
           /\ json_find_string = SubSeq(TextOf("tag", 1), 1, n)
           /\ TextOf("tag", 1) \in Seq(STRING)
    BY TagIsBeginning
  <2> QED
    BY <2>1 DEF Text
<1>2. ASSUME find_bin_asset_url # <<>>
      PROVE  find_bin_asset_url \in {<<"bin">>, <<"other">>, <<"bad">>}
  <2> DEFINE at == {j \in 1 .. Len(api_buf) : api_buf[j] = AssetName}
             first == CHOOSE j \in at : \A k \in at : j <= k
  <2>1. at # {} /\ find_bin_asset_url = TextOf("url", first)
    BY <1>2, Zenon DEF find_bin_asset_url
  <2>2. at \subseteq 1 .. Len(api_buf)
    OBVIOUS
  <2> HIDE DEF at
  <2>3. \E j \in at : \A k \in at : j <= k
    <3>1. at \subseteq Nat
      BY <2>2
    <3> QED
      BY <2>1, <3>1, LeastNumber, Zenon
  <2>4. first \in at
    BY <2>3
  <2> HIDE DEF first
  <2>5. first \in Nat /\ first > 0
    BY <2>2, <2>4
  <2>6. TextOf("url", first) # <<>>
    BY <1>2, <2>1
  <2> QED
    BY <2>1, <2>5, <2>6, FoundIsOfAKind
<1> QED
  BY <1>1, <1>2

-----------------------------------------------------------------------------
(* The steps.                                                              *)

\* Nothing of boot ROM, download and flash changes, and the program does not
\* leave the update by a reset.
Quiet ==
    /\ UNCHANGED <<romVars, body_cb, remote_ver, fwVars>>
    /\ pc \notin {"boot", "main"} /\ pc' # "boot"
    /\ pc' = "finish" => body_cb = "flash"
    /\ input = <<>> \/ pc' = pc

\* Such a step keeps what only depends on these.
LEMMA QuietStep ==
    ASSUME Inv, Quiet
    PROVE  WriterTypes' /\ RomInv' /\ DownloadInv'
<1>1. WriterTypes'
  BY DEF Inv, Quiet, WriterTypes, fwVars, writerVars
<1>2. target' = target
  BY DEF Quiet, romVars, target
<1>3. RomInv'
  BY <1>2 DEF Inv, Quiet, RomInv, romVars
<1>4. DownloadInv'
  BY <1>2, Zenon DEF Inv, Quiet, DownloadInv, fwVars, writerVars, Base
<1> QED
  BY <1>1, <1>3, <1>4

\* The end of an update without a reboot.
LEMMA ReturnKeepsInv ==
    ASSUME Inv, Return, pc \notin {"boot", "main"}, input = <<>>
    PROVE  Inv'
<1>1. Quiet
  BY DEF Return, Quiet, followVars
<1>2. TypeOK'
  BY DEF Inv, TypeOK, Return, romVars, followVars, ctxVars, headVars, bodyVars,
         fwVars, writerVars
<1>3. HttpInv'
  BY DEF Inv, HttpInv, Return, followVars, ctxVars, bodyVars
<1> QED
  BY <1>1, <1>2, <1>3, QuietStep DEF Inv

\* The steps of https_get and https_get_follow.
LEMMA RequestKeepsInv ==
    ASSUME Inv,
           \/ https_get \/ dns_found_cb \/ dns_timeout \/ http_wait
           \/ http_response
    PROVE  Inv'
<1>0. input = <<>> \/ pc = "wait"
  BY DEF Inv, DownloadInv
<1>1. CASE https_get
  <2>1. CASE Return
    BY <1>0, <1>1, <2>1, ReturnKeepsInv DEF https_get
  <2>2. CASE ~Return
    <3>1. Quiet
      BY <1>0, <1>1, <2>2 DEF https_get, Quiet, followVars
    <3>2. TypeOK'
      <4>1. /\ UNCHANGED <<romVars, followVars, api_buf, reply, flaws, fwVars>>
            /\ headers_done' = FALSE /\ status_code' = 0 /\ location' = "none"
            /\ body_len' = 0 /\ complete' = FALSE /\ error' = FALSE /\ late' = FALSE
            /\ pc' \in {"main", "dns", "wait"} /\ conn' \in {conn, "connecting"}
        BY <1>1, <2>2 DEF https_get
      <4>2. /\ conn' \in {"none", "connecting", "open", "closing"}
            /\ body_len' \in {0, Len(api_buf')} /\ Len(api_buf') <= ApiCap
        BY <4>1 DEF Inv, TypeOK
      <4>3. /\ headers_done' \in BOOLEAN /\ status_code' \in {0, 200, 302, 404}
            /\ location' \in {"none", "url", "bad"}
            /\ pc' \in {"boot", "check", "url", "dns", "wait", "response", "release",
                        "finish", "main"}
            /\ complete' \in BOOLEAN /\ error' \in BOOLEAN /\ late' \in BOOLEAN
        BY <4>1
      <4>4. /\ UNCHANGED <<bought, running, reboot_pending, image, body_cb, url, hops>>
            /\ UNCHANGED <<remote_ver, api_buf, flaws, flash, sector_buf>>
            /\ UNCHANGED <<total_written, fw_error>>
        BY <4>1 DEF romVars, followVars, fwVars, writerVars
      <4> QED
        BY <4>2, <4>3, <4>4 DEF Inv, TypeOK
    <3>3. HttpInv'
      <4>1. hops < MAX_REDIRECTS /\ url # "bad"
        BY <1>1, <2>2, OtaAssumption DEF https_get, LastHop, Inv, TypeOK
      <4>2. conn' = "open" => conn = "open"
        BY <1>1, <2>2 DEF https_get
      <4>3. conn # "open"
        BY <1>1 DEF https_get, Inv, HttpInv
      <4> QED
        BY <1>1, <2>2, <4>1, <4>2, <4>3 DEF https_get, Inv, HttpInv, followVars
    <3> QED
      BY <3>1, <3>2, <3>3, QuietStep DEF Inv
  <2> QED
    BY <2>1, <2>2
<1>2. CASE dns_found_cb
  <2>1. CASE Return
    BY <1>0, <1>2, <2>1, ReturnKeepsInv DEF dns_found_cb
  <2>2. CASE ~Return
    <3>1. Quiet
      BY <1>0, <1>2, <2>2 DEF dns_found_cb, Quiet, followVars
    <3>2. TypeOK'
      <4>1. /\ UNCHANGED <<romVars, followVars, ctxVars, late, flaws, fwVars>>
            /\ pc' = "wait" /\ conn' = "connecting"
        BY <1>2, <2>2 DEF dns_found_cb
      <4> QED
        BY <4>1 DEF Inv, TypeOK, romVars, followVars, ctxVars, headVars, bodyVars,
                    fwVars, writerVars
    <3>3. HttpInv'
      BY <1>2, <2>2 DEF dns_found_cb, Inv, HttpInv, followVars, ctxVars, bodyVars
    <3> QED
      BY <3>1, <3>2, <3>3, QuietStep DEF Inv
  <2> QED
    BY <2>1, <2>2
<1>3. CASE dns_timeout
  BY <1>0, <1>3, ReturnKeepsInv DEF dns_timeout
<1>4. CASE http_wait
  <2>1. CASE Return
    BY <1>4, <2>1, ReturnKeepsInv DEF http_wait
  <2>2. CASE ~Return
    <3>1. Quiet
      BY <1>4, <2>2 DEF http_wait, Quiet, followVars
    <3>2. TypeOK'
      <4>1. /\ UNCHANGED <<romVars, followVars, ctxVars, late, flaws, fwVars>>
            /\ pc' = "response" /\ conn' = "none"
        BY <1>4, <2>2 DEF http_wait
      <4> QED
        BY <4>1 DEF Inv, TypeOK, romVars, followVars, ctxVars, headVars, bodyVars,
                    fwVars, writerVars
    <3>3. HttpInv'
      BY <1>4, <2>2 DEF http_wait, Inv, HttpInv, followVars, ctxVars, bodyVars
    <3> QED
      BY <3>1, <3>2, <3>3, QuietStep DEF Inv
  <2> QED
    BY <2>1, <2>2
<1>5. CASE http_response
  <2>0. body_cb \in {"api_buf", "flash"} /\ conn # "open"
    BY <1>5 DEF http_response, Inv, TypeOK, HttpInv
  <2>1. Quiet
    BY <1>0, <1>5, <2>0 DEF http_response, Quiet, followVars
  <2>2. hops \in 0 .. MAX_REDIRECTS /\ hops < MAX_REDIRECTS /\ MAX_REDIRECTS \in Nat
    BY <1>5, OtaAssumption DEF http_response, Inv, TypeOK, HttpInv
  <2>3. /\ url' \in {url, "bad"} /\ hops' \in 0 .. MAX_REDIRECTS
        /\ body_len' \in {0, body_len} /\ api_buf' = api_buf
        /\ pc' \in {"url", "release", "finish"} /\ body_cb' = body_cb
        /\ conn' = conn
    BY <1>5, <2>2 DEF http_response, followVars, bodyVars, netVars
  <2>4. TypeOK'
    BY <1>5, <2>3, <2>1 DEF http_response, Inv, TypeOK, romVars, headVars, netVars,
                      fwVars, writerVars, Quiet
  <2>5. HttpInv'
    BY <2>0, <2>3 DEF Inv, HttpInv
  <2> QED
    BY <2>1, <2>4, <2>5, QuietStep DEF Inv
<1> QED
  BY <1>1, <1>2, <1>3, <1>4, <1>5

\* The callbacks that take no data, and the clock.
LEMMA CallbackKeepsInv ==
    ASSUME Inv,
           \/ http_connected_cb \/ http_recv_cb_closed \/ http_err_cb
           \/ DeadlinePasses
    PROVE  Inv'
<1>1. CASE http_connected_cb
  <2>1. input = <<>> \/ pc' = pc
    BY <1>1 DEF http_connected_cb
  <2>2. Quiet
    BY <1>1, <2>1 DEF http_connected_cb, Quiet, followVars, Inv, DownloadInv
  <2>3. TypeOK'
    <3>1. conn' \in {"none", "open"} /\ error' \in BOOLEAN
      BY <1>1 DEF http_connected_cb, Inv, TypeOK
    <3>2. UNCHANGED <<romVars, pc, followVars, complete, headVars, bodyVars, late,
                      flaws, fwVars>>
      BY <1>1, Zenon DEF http_connected_cb
    <3> QED
      BY <3>1, <3>2 DEF Inv, TypeOK, romVars, followVars, headVars, bodyVars, fwVars,
                        writerVars
  <2>4. conn' = "open" => reply' \in Answers
    BY <1>1 DEF http_connected_cb
  <2>5. url # "bad" /\ body_cb \in {"api_buf", "flash"}
        /\ url \in IF body_cb = "flash" THEN {"bin", "other", "bad"} ELSE {"api", "bad"}
    BY <1>1 DEF http_connected_cb, Inv, TypeOK, HttpInv
  <2>6. conn' = "open" => /\ reply'.status \in {0, 200, 302, 404}
                          /\ reply'.location \in {"none", "url", "bad"}
                          /\ reply'.body \in BodyOf(body_cb)
    BY <2>4, <2>5, AnswersAreOfAKind
  <2>7. HttpInv'
    BY <1>1, <2>6 DEF http_connected_cb, Inv, HttpInv, followVars, bodyVars
  <2> QED
    BY <2>2, <2>3, <2>7, QuietStep DEF Inv
<1>2. CASE http_recv_cb_closed
  <2>1. Quiet
    BY <1>2 DEF http_recv_cb_closed, Quiet, followVars
  <2>2. flaws' \subseteq {"cut", "redirect"}
    BY <1>2 DEF http_recv_cb_closed, Inv, TypeOK
  <2>3. TypeOK'
    BY <1>2, <2>2 DEF http_recv_cb_closed, Inv, TypeOK, romVars, followVars,
                      headVars, bodyVars, fwVars, writerVars
  <2>4. HttpInv'
    BY <1>2 DEF http_recv_cb_closed, Inv, HttpInv, followVars, bodyVars
  <2> QED
    BY <2>1, <2>3, <2>4, QuietStep DEF Inv
<1>3. CASE http_err_cb
  <2>1. Quiet
    BY <1>3 DEF http_err_cb, Quiet, followVars
  <2>2. TypeOK'
    BY <1>3 DEF http_err_cb, Inv, TypeOK, romVars, followVars, headVars, bodyVars,
                fwVars, writerVars
  <2>3. HttpInv'
    BY <1>3 DEF http_err_cb, Inv, HttpInv, followVars, bodyVars
  <2> QED
    BY <2>1, <2>2, <2>3, QuietStep DEF Inv
<1>4. CASE DeadlinePasses
  <2>1. Quiet
    BY <1>4 DEF DeadlinePasses, Quiet, followVars
  <2>2. TypeOK'
    BY <1>4 DEF DeadlinePasses, Inv, TypeOK, romVars, followVars, ctxVars, headVars,
                bodyVars, netVars, fwVars, writerVars
  <2>3. HttpInv'
    BY <1>4 DEF DeadlinePasses, Inv, HttpInv, followVars, ctxVars, bodyVars, netVars
  <2> QED
    BY <2>1, <2>2, <2>3, QuietStep DEF Inv
<1> QED
  BY <1>1, <1>2, <1>3, <1>4

\* A piece of a reply goes to api_buf or to the writer, whole.
LEMMA DataKeepsInv == ASSUME Inv, http_recv_cb PROVE Inv'
<1>1. /\ pc = "wait" /\ conn = "open" /\ input = <<>>
      /\ UNCHANGED <<romVars, pc, followVars, complete, error, late, conn>>
  BY DEF http_recv_cb
<1>2. /\ reply.status \in {0, 200, 302, 404}
      /\ reply.location \in {"none", "url", "bad"}
      /\ reply.body \in BodyOf(body_cb)
      /\ api_buf \in Seq(String)
  BY <1>1 DEF Inv, HttpInv
<1>3. PICK n \in (IF headers_done THEN 1 ELSE 0) .. Len(reply.body) :
          /\ process_data(SubSeq(reply.body, 1, n))
          /\ reply' = [reply EXCEPT !.body = SubSeq(@, n + 1, Len(@))]
  BY DEF http_recv_cb
<1> DEFINE data == SubSeq(reply.body, 1, n)
           rest == SubSeq(reply.body, n + 1, Len(reply.body))
<1>4. data \in BodyOf(body_cb) /\ rest \in BodyOf(body_cb)
  <2>1. PICK X : BodyOf(body_cb) = Seq(X)
    BY Zenon DEF BodyOf
  <2>2. reply.body \in Seq(X) /\ Len(reply.body) \in Nat
    BY <1>2, <2>1
  <2>3. n \in 0 .. Len(reply.body)
    BY <1>3, <2>2
  <2>4. data \in Seq(X) /\ rest \in Seq(X)
    BY <2>2, <2>3, SubSeqProperties
  <2> QED
    BY <2>1, <2>4
<1>5. /\ process_data(data)
      /\ reply' = [reply EXCEPT !.body = rest]
  BY <1>3
<1> HIDE DEF data, rest
<1>6. body_cb \in {"api_buf", "flash"} /\ target' = target
  BY <1>1 DEF Inv, TypeOK, romVars, target
<1>7. WriterTypes' /\ flash' = flash /\ flash_offset' = flash_offset
      /\ partition_end' = partition_end /\ sector_buf' = sector_buf
      /\ total_written' = total_written /\ fw_error' = fw_error
      /\ (input' = <<>> \/ body_cb = "flash")
  <2>1. CASE flash_write_call(data) /\ body_cb = "flash"
    <3>1. data \in Seq(Byte)
      BY <1>4, <2>1 DEF BodyOf
    <3> QED
      BY <2>1, <3>1 DEF flash_write_call, Inv, WriterTypes, writerVars
  <2>2. CASE UNCHANGED fwVars
    BY <1>1, <2>2 DEF Inv, WriterTypes, fwVars, writerVars
  <2>3. (flash_write_call(data) /\ body_cb = "flash") \/ UNCHANGED fwVars
    BY <1>5, Zenon DEF process_data
  <2> QED
    BY <2>1, <2>2, <2>3
<1>8. /\ api_buf' \in Seq(String) /\ Len(api_buf') <= ApiCap
      /\ body_len' \in {0, Len(api_buf')}
  <2>1. CASE UNCHANGED bodyVars
    BY <1>2, <2>1 DEF bodyVars, Inv, TypeOK
  <2>2. CASE ~UNCHANGED bodyVars
    <3> DEFINE got == SubSeq(api_buf, 1, body_len) \o data
    <3>1. /\ body_cb = "api_buf"
          /\ body_len' = IF Len(got) < ApiCap THEN Len(got) ELSE ApiCap
          /\ api_buf' = SubSeq(got, 1, body_len')
      BY <1>5, <2>2 DEF process_data
    <3>2. data \in Seq(String)
      BY <1>4, <3>1 DEF BodyOf
    <3>3. body_len \in 0 .. Len(api_buf)
      BY <1>2 DEF Inv, TypeOK
    <3>4. SubSeq(api_buf, 1, body_len) \in Seq(String)
      BY <1>2, <3>3, SubSeqProperties
    <3>5. got \in Seq(String)
      BY <3>2, <3>4, ConcatProperties
    <3> HIDE DEF got
    <3>6. body_len' \in 0 .. Len(got) /\ body_len' <= ApiCap
      BY <3>1, <3>5, OtaAssumption
    <3>7. api_buf' \in Seq(String) /\ Len(api_buf') = body_len'
      BY <3>1, <3>5, <3>6, SubSeqProperties
    <3> QED
      BY <3>6, <3>7
  <2> QED
    BY <2>1, <2>2
<1>9. /\ headers_done' \in BOOLEAN /\ status_code' \in {0, 200, 302, 404}
      /\ location' \in {"none", "url", "bad"} /\ flaws' \subseteq {"cut", "redirect"}
  <2>1. CASE Ignored
    BY <1>5, <2>1 DEF process_data, headVars, Inv, TypeOK
  <2>2. CASE ~Ignored
    <3>1. headers_done' = TRUE /\ status_code' = reply.status /\ location' = reply.location
      BY <1>5, <2>2, Zenon DEF process_data
    <3>2. flaws' \in {flaws, flaws \cup {"redirect"}}
      BY <1>5, <2>2 DEF process_data
    <3> QED
      BY <1>2, <3>1, <3>2 DEF Inv, TypeOK
  <2> QED
    BY <2>1, <2>2
<1>10. TypeOK'
  BY <1>1, <1>7, <1>8, <1>9 DEF Inv, TypeOK, WriterTypes, romVars, followVars
<1>11. RomInv'
  BY <1>1, <1>6 DEF Inv, RomInv, romVars, followVars
<1>12. DownloadInv'
  BY <1>1, <1>6, <1>7 DEF Inv, DownloadInv, followVars, Base
<1>13. HttpInv'
  <2>1. /\ reply'.status = reply.status /\ reply'.location = reply.location
        /\ reply'.body \in BodyOf(body_cb)
    BY <1>2, <1>4, <1>5
  <2> QED
    BY <1>1, <1>2, <1>8, <2>1 DEF Inv, HttpInv, followVars
<1> QED
  BY <1>7, <1>10, <1>11, <1>12, <1>13 DEF Inv

\* A round of the writer stays in the target.
LEMMA WriteKeepsInv == ASSUME Inv, body_callback PROVE Inv' /\ Within
<1>1. /\ flash_write_cb /\ error' = fw_error' /\ input # <<>>
      /\ UNCHANGED <<romVars, pc, followVars, complete, headVars, bodyVars, late,
                      netVars>>
  BY DEF body_callback, flash_write_cb
<1>2. pc = "wait" /\ body_cb = "flash"
  BY <1>1 DEF Inv, DownloadInv
<1>3. WriterTypes' /\ Within
  BY <1>1, RoundWithin DEF Inv
<1>4. target' = target
  BY <1>1 DEF romVars, target
<1>5. TypeOK'
  <2>1. /\ flash' \in [Addr -> Byte] /\ sector_buf' \in Seq(Byte)
        /\ Len(sector_buf') <= SectorSize /\ total_written' \in Nat
        /\ fw_error' \in BOOLEAN /\ error' \in BOOLEAN
    BY <1>1, <1>3 DEF WriterTypes
  <2> QED
    BY <1>1, <2>1 DEF Inv, TypeOK, romVars, followVars, headVars, bodyVars, netVars
<1>6. RomInv'
  BY <1>1, <1>4 DEF Inv, RomInv, romVars, followVars
<1>7. DownloadInv'
  <2>1. partition_end' = partition_end /\ flash_offset <= flash_offset'
    BY <1>1, <1>3 DEF flash_write_cb, Within
  <2>2. flash_offset \in Nat /\ flash_offset' \in Nat /\ Base(target) \in Nat
    <3>1. target \in Partition
      BY TargetIsOther DEF Inv, TypeOK
    <3> QED
      BY <1>3, <3>1, Layout DEF Inv, WriterTypes
  <2>3. Base(target') = Base(target)
    BY <1>4
  <2> QED
    BY <1>1, <1>2, <1>4, <2>1, <2>2, <2>3 DEF Inv, DownloadInv, followVars
<1>8. HttpInv'
  BY <1>1 DEF Inv, HttpInv, followVars, bodyVars, netVars
<1> QED
  BY <1>3, <1>5, <1>6, <1>7, <1>8 DEF Inv

\* A newer release is taken, and the writer is set to the target.
LEMMA ReleaseKeepsInv == ASSUME Inv, check_release PROVE Inv'
<1>1. pc = "release" /\ input = <<>>
  BY DEF check_release, Inv, DownloadInv
<1>2. CASE Return
  BY <1>1, <1>2, ReturnKeepsInv
<1>3. CASE ~Return
  <2> DEFINE v == ota_version_parse(json_find_string)
  <2>1. /\ v # NoVersion
        /\ ~(ota_version_compare(v, image[running]) <= 0)
        /\ find_bin_asset_url # <<>>
        /\ remote_ver' = v
        /\ flash_writer_init(First(target) * SectorSize, PartitionSize(target))
        /\ https_get_follow("flash", find_bin_asset_url[1])
        /\ flaws' = {}
        /\ UNCHANGED <<romVars, ctxVars, late, conn, reply, flash, input>>
    BY <1>3, Zenon DEF check_release
  <2>2. v \in Version
    <3>1. json_find_string \in Text
      BY ReleaseIsOfAKind DEF Inv, HttpInv
    <3> QED
      BY <2>1, <3>1, ParseInRange
  <2>3. url' \in {"bin", "other", "bad"} /\ body_cb' = "flash" /\ pc' = "url"
        /\ hops' = 0
    <3>1. find_bin_asset_url \in {<<"bin">>, <<"other">>, <<"bad">>}
      BY <2>1, ReleaseIsOfAKind DEF Inv, HttpInv
    <3> QED
      BY <2>1, <3>1 DEF https_get_follow
  <2>4. target \in Partition /\ target' = target
    BY <2>1, TargetIsOther DEF Inv, TypeOK, romVars, target
  <2>5. /\ flash_offset' = Base(target) /\ partition_end' = Base(target) + Size
        /\ Base(target) \in Nat /\ Size \in Nat
        /\ sector_buf' = <<>> /\ total_written' = 0 /\ fw_error' = FALSE
        /\ Len(sector_buf') = 0 /\ sector_buf' \in Seq(Byte)
    BY <2>1, <2>4, Layout DEF flash_writer_init, Base
  <2>6. Precedes(image[running], v)
    <3>1. image[running] \in Version /\ ota_version_compare(v, image[running]) \in Int
      BY DEF Inv, TypeOK, ota_version_compare
    <3> HIDE DEF v
    <3>2. ota_version_compare(v, image[running]) > 0
      BY <2>1, <3>1
    <3> QED
      BY <2>2, <3>1, <3>2, CompareIsOrder
  <2> HIDE DEF v
  <2>7. WriterTypes'
    <3>1. flash' = flash /\ input' = input
      BY <2>1
    <3>2. Base(target) + Size \in Nat /\ 0 <= SectorSize
      BY <2>5, WriterAssumption
    <3> QED
      BY <2>5, <3>1, <3>2 DEF Inv, WriterTypes
  <2>8. TypeOK'
    <3>1. hops' \in 0 .. MAX_REDIRECTS
      BY <2>3, OtaAssumption
    <3> QED
      BY <2>1, <2>2, <2>3, <2>7, <3>1
         DEF Inv, TypeOK, WriterTypes, romVars, ctxVars, headVars, bodyVars
  <2>9. RomInv'
    BY <1>1, <2>1, <2>3, <2>4, <2>6 DEF Inv, RomInv, romVars
  <2>10. DownloadInv'
    <3>1. Base(target') = Base(target)
      BY <2>4
    <3> QED
      BY <1>1, <2>1, <2>3, <2>5, <3>1 DEF DownloadInv
  <2>11. HttpInv'
    BY <1>1, <2>1, <2>3 DEF Inv, HttpInv, ctxVars, bodyVars
  <2> QED
    BY <2>7, <2>8, <2>9, <2>10, <2>11 DEF Inv
<1> QED
  BY <1>2, <1>3

\* The last sector goes to the target; a reboot that is asked for leads to it.
LEMMA FinishKeepsInv == ASSUME Inv, finish_download PROVE Inv' /\ Within
<1>1. /\ pc = "finish" /\ pc' = "main" /\ body_cb = "flash" /\ input = <<>>
      /\ UNCHANGED <<bought, running, followVars, ctxVars, late, netVars>>
      /\ UNCHANGED <<partition_end, total_written, fw_error, input>>
  BY DEF finish_download, Inv, DownloadInv
<1>2. target \in Partition /\ target # running /\ target' = target
  BY <1>1, TargetIsOther DEF Inv, TypeOK, target
<1>3. /\ flash' \in [Addr -> Byte] /\ flash_offset' \in Nat
      /\ sector_buf' \in Seq(Byte) /\ Len(sector_buf') <= SectorSize
      /\ Within
  <2>1. CASE Accepted
    BY <2>1, FlushWithin DEF finish_download, Inv, WriterTypes
  <2>2. CASE ~Accepted
    BY <2>2 DEF finish_download, Inv, WriterTypes, Within
  <2> QED
    BY <2>1, <2>2
<1>4. /\ reboot_pending' \in BOOLEAN
      /\ image' = IF reboot_pending' THEN [image EXCEPT ![target] = remote_ver]
                  ELSE image
  BY DEF finish_download, Accepted, FlushSucceeds
<1>5. /\ image' \in [Partition -> Version]
      /\ image'[running] = image[running]
      /\ reboot_pending' => image'[target] = remote_ver
  BY <1>2, <1>4 DEF Inv, TypeOK
<1>6. WriterTypes'
  BY <1>1, <1>3 DEF Inv, WriterTypes
<1>7. TypeOK'
  BY <1>1, <1>3, <1>4, <1>5
     DEF Inv, TypeOK, followVars, ctxVars, headVars, bodyVars, netVars
<1>8. RomInv'
  BY <1>1, <1>2, <1>5 DEF Inv, RomInv, followVars
<1>9. DownloadInv'
  <2>1. flash_offset <= flash_offset' /\ Base(target') = Base(target)
        /\ flash_offset \in Nat /\ Base(target) \in Nat
    BY <1>2, <1>3, Layout DEF Within, Inv, WriterTypes
  <2> QED
    BY <1>1, <1>3, <2>1 DEF Inv, DownloadInv, followVars
<1>10. HttpInv'
  BY <1>1 DEF Inv, HttpInv, followVars, ctxVars, bodyVars, netVars
<1> QED
  BY <1>3, <1>6, <1>7, <1>8, <1>9, <1>10 DEF Inv

\* A boot starts anew, in the partition that was asked for or was bought.
LEMMA RomKeepsInv == ASSUME Inv, Rom PROVE Inv' /\ bought' = bought /\ image' = image
<1>1. /\ MemoryLost /\ reboot_pending' = FALSE
      /\ UNCHANGED <<bought, image, remote_ver, flash>>
      /\ running' \in Partition
      /\ bought # running' => Precedes(image[bought], image[running'])
  <2>1. CASE FlashUpdateBoot
    <3>1. running' = target /\ reboot_pending
      BY <2>1 DEF FlashUpdateBoot
    <3>2. target \in Partition
      BY TargetIsOther DEF Inv, TypeOK
    <3>3. bought = running /\ Precedes(image[running], image[target])
      BY <3>1 DEF Inv, RomInv
    <3> QED
      BY <2>1, <3>1, <3>2, <3>3 DEF FlashUpdateBoot
  <2>2. CASE Reset
    BY <2>2 DEF Reset, Inv, TypeOK
  <2> QED
    BY <2>1, <2>2 DEF Rom
<1>2. /\ pc' = "boot" /\ body_cb' = "api_buf" /\ url' = "api" /\ hops' = 0
      /\ complete' = FALSE /\ error' = FALSE /\ headers_done' = FALSE
      /\ late' = FALSE /\ status_code' = 0 /\ location' = "none" /\ body_len' = 0
      /\ conn' = "none" /\ flaws' = {} /\ total_written' = 0 /\ fw_error' = FALSE
      /\ flash_offset' = 0 /\ partition_end' = 0
  BY <1>1, Zenon DEF MemoryLost
<1>3. api_buf' = <<>> /\ sector_buf' = <<>> /\ input' = <<>>
  BY <1>1, Zenon DEF MemoryLost
<1>4. /\ api_buf' \in Seq(String) /\ Len(api_buf') = 0
      /\ sector_buf' \in Seq(Byte) /\ Len(sector_buf') = 0
      /\ input' \in Seq(Byte)
  BY <1>3
<1>5. WriterTypes'
  <2>1. flash' = flash /\ Len(sector_buf') <= SectorSize
    BY <1>1, <1>4, WriterAssumption
  <2> QED
    BY <1>2, <1>4, <2>1 DEF Inv, WriterTypes
<1>6. TypeOK'
  <2>1. hops' \in 0 .. MAX_REDIRECTS /\ Len(api_buf') <= ApiCap
        /\ body_len' \in {0, Len(api_buf')}
    BY <1>2, <1>4, OtaAssumption
  <2>2. /\ pc' \in {"boot", "check", "url", "dns", "wait", "response", "release",
                   "finish", "main"}
        /\ body_cb' \in {"api_buf", "flash"} /\ url' \in {"api", "bin", "other", "bad"}
        /\ complete' \in BOOLEAN /\ error' \in BOOLEAN /\ late' \in BOOLEAN
        /\ headers_done' \in BOOLEAN /\ status_code' \in {0, 200, 302, 404}
        /\ location' \in {"none", "url", "bad"} /\ reboot_pending' \in BOOLEAN
        /\ conn' \in {"none", "connecting", "open", "closing"}
        /\ flaws' \subseteq {"cut", "redirect"}
    BY <1>1, <1>2
  <2>3. /\ bought' \in Partition /\ running' \in Partition
        /\ image' \in [Partition -> Version] /\ remote_ver' \in Version
    BY <1>1 DEF Inv, TypeOK
  <2> QED
    BY <1>5, <2>1, <2>2, <2>3, Zenon DEF TypeOK, WriterTypes
<1>7. RomInv'
  BY <1>1, <1>2 DEF RomInv
<1>8. DownloadInv'
  BY <1>2, <1>3 DEF DownloadInv
<1>9. HttpInv'
  BY <1>2, <1>4 DEF HttpInv
<1> QED
  BY <1>1, <1>5, <1>6, <1>7, <1>8, <1>9 DEF Inv

\* The first two steps after a boot: the image is accepted, a check begins.
LEMMA BootKeepsInv ==
    ASSUME Inv, ota_accept_current_image \/ ota_update_check_and_apply
    PROVE  Inv'
<1>1. CASE ota_accept_current_image
  <2>1. /\ pc = "boot" /\ pc' = "check" /\ bought' = running
        /\ UNCHANGED <<running, reboot_pending, image, followVars, ctxVars, late,
                       netVars, fwVars>>
    BY <1>1, Zenon DEF ota_accept_current_image
  <2>2. TypeOK'
    BY <2>1 DEF Inv, TypeOK, followVars, ctxVars, headVars, bodyVars, netVars,
                fwVars, writerVars
  <2>3. WriterTypes'
    BY <2>1 DEF Inv, WriterTypes, fwVars, writerVars
  <2>4. RomInv' /\ DownloadInv'
    BY <2>1 DEF Inv, RomInv, DownloadInv, followVars, fwVars
  <2>5. HttpInv'
    BY <2>1 DEF Inv, HttpInv, followVars, ctxVars, bodyVars, netVars
  <2> QED
    BY <2>2, <2>3, <2>4, <2>5 DEF Inv
<1>2. CASE ota_update_check_and_apply
  <2>1. pc = "check" /\ input = <<>>
    BY <1>2 DEF ota_update_check_and_apply, Inv, DownloadInv
  <2>2. CASE Return
    BY <2>1, <2>2, ReturnKeepsInv
  <2>3. CASE ~Return
    <3>1. /\ pc' = "url" /\ body_cb' = "api_buf" /\ url' = "api" /\ hops' = 0
          /\ UNCHANGED <<romVars, remote_ver, ctxVars, late, netVars, fwVars>>
      BY <1>2, <2>3 DEF ota_update_check_and_apply, https_get_follow
    <3>2. TypeOK'
      <4>1. hops' \in 0 .. MAX_REDIRECTS
        BY <3>1, OtaAssumption
      <4> QED
        BY <3>1, <4>1 DEF Inv, TypeOK, romVars, ctxVars, headVars, bodyVars, netVars,
                          fwVars, writerVars
    <3>3. WriterTypes'
      BY <3>1 DEF Inv, WriterTypes, fwVars, writerVars
    <3>4. RomInv'
      BY <2>1, <3>1 DEF Inv, RomInv, romVars, target
    <3>5. DownloadInv'
      BY <2>1, <3>1 DEF DownloadInv, fwVars
    <3>6. HttpInv'
      BY <2>1, <3>1 DEF Inv, HttpInv, ctxVars, bodyVars, netVars
    <3> QED
      BY <3>2, <3>3, <3>4, <3>5, <3>6 DEF Inv
  <2> QED
    BY <2>2, <2>3
<1> QED
  BY <1>1, <1>2

\* Every step keeps the invariant.
LEMMA NextInv == ASSUME Inv, [Next]_vars PROVE Inv'
<1>1. CASE UNCHANGED vars
  <2>1. /\ UNCHANGED <<bought, running, reboot_pending, image, pc, body_cb, url, hops>>
        /\ UNCHANGED <<remote_ver, complete, error, headers_done, status_code, location>>
        /\ UNCHANGED <<body_len, api_buf, late, conn, reply, flaws, flash, flash_offset>>
        /\ UNCHANGED <<partition_end, sector_buf, total_written, fw_error, input>>
    BY <1>1 DEF vars, romVars, followVars, ctxVars, headVars, bodyVars, netVars,
                fwVars, writerVars
  <2>2. TypeOK' /\ WriterTypes'
    BY <2>1 DEF Inv, TypeOK, WriterTypes
  <2>3. RomInv' /\ DownloadInv' /\ HttpInv'
    BY <2>1 DEF Inv, RomInv, DownloadInv, HttpInv, target
  <2> QED
    BY <2>2, <2>3 DEF Inv
<1>2. CASE Next
  BY <1>2, BootKeepsInv, RequestKeepsInv, CallbackKeepsInv, DataKeepsInv,
     WriteKeepsInv, ReleaseKeepsInv, FinishKeepsInv, RomKeepsInv
     DEF Next, Main, Network
<1> QED
  BY <1>1, <1>2

\* The invariant holds in every behaviour.
THEOREM InvHolds == Spec => []Inv
<1>1. Init => Inv
  BY InitInv
<1>2. Inv /\ [Next]_vars => Inv'
  BY NextInv
<1> QED
  BY <1>1, <1>2, PTL DEF Spec

-----------------------------------------------------------------------------
(* What the update promises.                                               *)

\* All that the update keeps is of its kind.
THEOREM TypeCorrect == Spec => []TypeOK
<1>1. Inv => TypeOK
  BY DEF Inv
<1> QED
  BY <1>1, InvHolds, PTL

\* The steps that touch neither the flash nor what the boot ROM keeps.
LEMMA OthersKeepRom ==
    ASSUME [Next]_vars, ~body_callback, ~finish_download, ~Rom,
           ~ota_accept_current_image
    PROVE  UNCHANGED <<flash, bought, image>>
<1>1. CASE UNCHANGED vars
  BY <1>1 DEF vars, romVars, fwVars
<1>2. CASE Return
  BY <1>2 DEF Return, romVars, fwVars
<1>3. CASE Next /\ ~Return
  <2>1. CASE ota_update_check_and_apply \/ https_get \/ dns_timeout \/ http_wait
    BY <1>3, <2>1 DEF ota_update_check_and_apply, https_get, dns_timeout, http_wait,
                      romVars, fwVars
  <2>2. CASE http_response \/ dns_found_cb \/ http_connected_cb
    BY <1>3, <2>2 DEF http_response, dns_found_cb, http_connected_cb, romVars, fwVars
  <2>3. CASE http_recv_cb_closed \/ http_err_cb \/ DeadlinePasses
    BY <2>3 DEF http_recv_cb_closed, http_err_cb, DeadlinePasses, romVars, fwVars
  <2>4. CASE http_recv_cb
    <3>1. UNCHANGED romVars
      BY <2>4 DEF http_recv_cb
    <3>2. PICK data : process_data(data)
      BY <2>4 DEF http_recv_cb
    <3>3. flash' = flash
      BY <3>2 DEF process_data, flash_write_call, fwVars
    <3> QED
      BY <3>1, <3>3 DEF romVars
  <2>5. CASE check_release
    BY <1>3, <2>5 DEF check_release, romVars
  <2> QED
    BY <1>3, <2>1, <2>2, <2>3, <2>4, <2>5 DEF Next, Main, Network
<1> QED
  BY <1>1, <1>2, <1>3

\* The image that the boot ROM falls back to is never touched, whatever comes
\* from the network and whenever the power fails.
THEOREM FallbackIsUntouched == Spec => FallbackUntouched
<1>1. ASSUME Inv, [Next]_vars
      PROVE  \A a \in AddrsOf(bought) : flash'[a] = flash[a]
  <2>1. CASE body_callback \/ finish_download
    <3>1. Within
      BY <1>1, <2>1, WriteKeepsInv, FinishKeepsInv
    <3>2. body_cb = "flash" /\ pc # "boot"
      BY <1>1, <2>1 DEF Inv, RomInv, DownloadInv, body_callback, flash_write_cb,
                        finish_download
    <3>3. bought = running /\ running \in Partition
      BY <1>1, <3>2 DEF Inv, TypeOK, RomInv
    <3>4. /\ Base(target) <= flash_offset /\ partition_end = Base(target) + Size
          /\ flash_offset \in Nat /\ Base(target) \in Nat /\ Size \in Nat
      BY <1>1, <3>2, <3>3, TargetIsOther, Layout DEF Inv, DownloadInv, WriterTypes
    <3>5. ASSUME NEW a \in AddrsOf(bought) PROVE flash'[a] = flash[a]
      <4>1. a \in Addr /\ a \in Nat
        BY <3>3, <3>5, OtaAssumption, WriterAssumption DEF Partition
      <4>2. ~(Base(target) <= a /\ a < Base(target) + Size)
        BY <3>3, <3>5, TargetIsOther
      <4>3. ~(flash_offset <= a /\ a < partition_end)
        BY <3>4, <4>1, <4>2
      <4> QED
        BY <3>1, <4>1, <4>3 DEF Within
    <3> QED
      BY <3>5
  <2>2. CASE Rom
    BY <2>2 DEF Rom, FlashUpdateBoot, Reset
  <2>3. CASE ota_accept_current_image
    BY <2>3 DEF ota_accept_current_image, fwVars
  <2> QED
    BY <1>1, <2>1, <2>2, <2>3, OthersKeepRom
<1> QED
  BY <1>1, InvHolds, PTL DEF Spec, FallbackUntouched

\* The permanent image is only ever replaced by a newer one.
THEOREM NeverDowngrades == Spec => NoDowngrade
<1>1. ASSUME Inv, [Next]_vars
      PROVE  /\ image'[bought] = image[bought]
             /\ bought' # bought => Precedes(image[bought], image'[bought'])
  <2>1. CASE body_callback
    BY <2>1 DEF body_callback, romVars
  <2>2. CASE finish_download
    <3>1. bought' = bought /\ image' \in {image, [image EXCEPT ![target] = remote_ver]}
      BY <2>2 DEF finish_download
    <3>2. bought = running
      BY <1>1, <2>2 DEF Inv, RomInv, finish_download
    <3>3. target # running /\ running \in Partition
      BY <1>1, TargetIsOther DEF Inv, TypeOK
    <3> QED
      BY <1>1, <3>1, <3>2, <3>3 DEF Inv, TypeOK
  <2>3. CASE Rom
    BY <1>1, <2>3, RomKeepsInv
  <2>4. CASE ota_accept_current_image
    BY <1>1, <2>4 DEF ota_accept_current_image, Inv, RomInv
  <2> QED
    BY <1>1, <2>1, <2>2, <2>3, <2>4, OthersKeepRom
<1> QED
  BY <1>1, InvHolds, PTL DEF Spec, NoDowngrade

-----------------------------------------------------------------------------
(* A request, and the release it brings.                                   *)

\* A reply is a record of four fields.
ReplyRecord(r) ==
    /\ r = [status |-> r.status, location |-> r.location, fits |-> r.fits,
            body |-> r.body]
    /\ r.fits \in BOOLEAN

\* What is known of a request where main and the callbacks meet.
RequestInv ==
    /\ conn # "none" => pc = "wait"
    /\ pc \notin {"wait", "main"} => ~error
    /\ pc = "dns" \/ conn = "connecting" =>
          ~complete /\ status_code = 0 /\ body_len = 0
    /\ pc = "wait" /\ ~error =>
          conn # "none" /\ (complete => conn = "closing")
    /\ conn = "open" =>
          /\ status_code = 0 \/ (reply.fits /\ status_code = reply.status)
          /\ ReplyRecord(reply)
    /\ input # <<>> => ~error /\ conn = "open"
    /\ body_cb = "flash" /\ fw_error => error \/ pc = "main"

\* n strings of s have been processed, and as many kept as api_buf holds.
Kept_of(s, n) ==
    /\ UrlFollows(s)
    /\ reply.body = SubSeq(s, n + 1, Len(s))
    /\ body_len <= n /\ body_len <= Len(api_buf)
    /\ body_len < n => body_len = ApiCap
    /\ \A k \in 1 .. body_len : api_buf[k] = s[k]

\* api_buf is the beginning of one release, or of a page without files.
ApiInv ==
    /\ UrlFollows(api_buf)
    /\ body_cb = "flash" => url # "other"
    /\ body_cb = "api_buf" /\ conn = "open" /\ reply.fits /\ ~error =>
          \E s \in Seq(String) : \E n \in 0 .. Len(s) : Kept_of(s, n)

AskInv == RequestInv /\ ApiInv

\* The beginning of a release is as good as the release.
LEMMA PrefixFollows ==
    ASSUME NEW s \in Seq(String), UrlFollows(s),
           NEW t \in Seq(String), Len(t) <= Len(s),
           \A k \in 1 .. Len(t) : t[k] = s[k]
    PROVE  UrlFollows(t)
<1> SUFFICES ASSUME NEW i \in 1 .. Len(t), NEW j \in 1 .. Len(t),
                    i < j, t[i] = AssetName, t[j].part = "url",
                    \A k \in i + 1 .. j - 1 : t[k].part # "url"
             PROVE  t[j].text # <<"other">>
  BY DEF UrlFollows
<1>1. i \in 1 .. Len(s) /\ j \in 1 .. Len(s)
  OBVIOUS
<1>2. s[i] = AssetName /\ s[j].part = "url" /\ s[j] = t[j]
  OBVIOUS
<1>3. \A k \in i + 1 .. j - 1 : s[k].part # "url"
  OBVIOUS
<1> QED
  BY <1>1, <1>2, <1>3 DEF UrlFollows

\* The URL that main takes is not that of another file.
LEMMA AssetUrl ==
    ASSUME api_buf \in Seq(String), UrlFollows(api_buf), find_bin_asset_url # <<>>
    PROVE  find_bin_asset_url \in {<<"bin">>, <<"bad">>}
<1> DEFINE at == {j \in 1 .. Len(api_buf) : api_buf[j] = AssetName}
           first == CHOOSE j \in at : \A k \in at : j <= k
           urls == {j \in first .. Len(api_buf) : api_buf[j].part = "url"}
           next == CHOOSE j \in urls : \A k \in urls : j <= k
<1>1. at # {} /\ find_bin_asset_url = TextOf("url", first)
  BY Zenon DEF find_bin_asset_url
<1>2. \E j \in at : \A k \in at : j <= k
  <2>1. at \subseteq Nat
    OBVIOUS
  <2> HIDE DEF at
  <2> QED
    BY <1>1, <2>1, LeastNumber, Zenon
<1>3. first \in at
  <2> HIDE DEF at
  <2> QED
    BY <1>2
<1>4. first \in 1 .. Len(api_buf) /\ api_buf[first] = AssetName
  BY <1>3
<1> HIDE DEF at, first
<1>5. urls # {} /\ find_bin_asset_url = api_buf[next].text
  BY <1>1, Zenon DEF TextOf
<1>6. \E j \in urls : \A k \in urls : j <= k
  <2>1. urls \subseteq Nat
    BY <1>4
  <2> HIDE DEF urls
  <2> QED
    BY <1>5, <2>1, LeastNumber, Zenon
<1>7. next \in urls /\ \A k \in urls : next <= k
  <2> HIDE DEF urls
  <2> QED
    BY <1>6
<1> HIDE DEF next
<1>8. next \in first .. Len(api_buf) /\ api_buf[next].part = "url"
  BY <1>7
<1>9. AssetName.part # "url"
  BY DEF AssetName
<1>10. first < next /\ next \in 1 .. Len(api_buf)
  BY <1>4, <1>8, <1>9
<1>11. \A k \in first + 1 .. next - 1 : api_buf[k].part # "url"
  BY <1>4, <1>7, <1>10
<1> HIDE DEF urls
<1>12. api_buf[next].text # <<"other">>
  BY <1>4, <1>8, <1>10, <1>11 DEF UrlFollows
<1>13. find_bin_asset_url \in {<<"bin">>, <<"other">>, <<"bad">>}
  BY ReleaseIsOfAKind
<1> QED
  BY <1>5, <1>12, <1>13

\* All answers are such records.
LEMMA AnswersAreRecords == ASSUME NEW r \in Answers PROVE ReplyRecord(r)
<1>1. ASSUME NEW body PROVE ReplyRecord(Page(body))
  BY DEF Page, ReplyRecord
<1>2. ASSUME NEW d \in Detours PROVE ReplyRecord(d)
  <2>1. d \in [status : {200, 302, 404}, location : {"none", "url", "bad"},
               fits : BOOLEAN, body : Seq(Byte)]
    BY OtaAssumption
  <2> QED
    BY <2>1 DEF ReplyRecord
<1>3. ASSUME NEW d \in Detours, NEW body PROVE ReplyRecord([d EXCEPT !.body = body])
  <2>1. d \in [status : {200, 302, 404}, location : {"none", "url", "bad"},
               fits : BOOLEAN, body : Seq(Byte)]
    BY OtaAssumption
  <2> QED
    BY <2>1 DEF ReplyRecord
<1>4. CASE url = "bin"
  BY <1>1, <1>2, <1>4, Zenon DEF Answers
<1>5. CASE url = "other"
  <2>1. r \in {Page(<<Erased>>)} \cup Detours
    BY <1>5 DEF Answers
  <2> QED
    BY <1>1, <1>2, <2>1
<1>6. CASE url # "bin" /\ url # "other"
  <2>1. \/ \E release \in Releases : r = Page(release)
        \/ \E d \in Detours : r = [d EXCEPT !.body =
              [i \in DOMAIN d.body |-> [part |-> "other", text |-> <<>>]]]
    BY <1>6 DEF Answers
  <2> QED
    BY <1>1, <1>3, <2>1
<1> QED
  BY <1>4, <1>5, <1>6

\* The end of an update without a reboot, for these two.
LEMMA ReturnAsks == ASSUME AskInv, Return, input = <<>> PROVE AskInv'
<1>1. /\ pc' = "main" /\ conn' = "none"
      /\ UNCHANGED <<body_cb, url, api_buf, error, input>>
  BY DEF Return, followVars, ctxVars, bodyVars, fwVars
<1> QED
  BY <1>1 DEF AskInv, RequestInv, ApiInv, UrlFollows

\* The steps of https_get and https_get_follow.
LEMMA RequestAsks ==
    ASSUME Inv, AskInv,
           \/ https_get \/ dns_found_cb \/ dns_timeout \/ http_wait
           \/ http_response
    PROVE  AskInv'
<1>1. CASE Return
  <2>1. input = <<>>
    BY DEF https_get, dns_found_cb, dns_timeout, http_wait, http_response, Inv,
           DownloadInv
  <2> QED
    BY <1>1, <2>1, ReturnAsks
<1>2. CASE https_get /\ ~Return
  <2>1. /\ pc = "url" /\ conn # "open"
        /\ UNCHANGED <<body_cb, url, api_buf, input, fw_error>> /\ ~error
        /\ status_code' = 0 /\ body_len' = 0 /\ complete' = FALSE /\ error' = FALSE
        /\ \/ pc' \in {"main", "dns"} /\ conn' = conn
           \/ pc' = "wait" /\ conn' = "connecting"
    BY <1>2 DEF https_get, followVars, fwVars, writerVars, AskInv, RequestInv
  <2> QED
    BY <2>1 DEF AskInv, RequestInv, ApiInv, UrlFollows
<1>3. CASE dns_found_cb /\ ~Return
  <2>1. /\ pc = "dns" /\ pc' = "wait" /\ conn' = "connecting"
        /\ UNCHANGED <<body_cb, url, api_buf, status_code, body_len, complete, error,
                        input, fw_error>>
    BY <1>3 DEF dns_found_cb, followVars, ctxVars, headVars, bodyVars, fwVars, writerVars
  <2> QED
    BY <2>1 DEF AskInv, RequestInv, ApiInv, UrlFollows
<1>4. CASE http_wait /\ ~Return
  <2>1. /\ pc = "wait" /\ pc' = "response" /\ conn' = "none" /\ ~error
        /\ input = <<>>
        /\ UNCHANGED <<body_cb, url, api_buf, error, input, fw_error>>
    BY <1>4 DEF http_wait, followVars, ctxVars, bodyVars, fwVars, writerVars
  <2> QED
    BY <2>1 DEF AskInv, RequestInv, ApiInv, UrlFollows
<1>5. CASE http_response
  <2>1. /\ pc = "response" /\ conn' = conn /\ conn = "none" /\ ~error
        /\ pc' \in {"url", "release", "finish"}
        /\ UNCHANGED <<body_cb, api_buf, error, input, fw_error>>
        /\ url' \in {url, "bad"}
    BY <1>5 DEF http_response, followVars, bodyVars, netVars, fwVars, writerVars,
                AskInv, RequestInv, Inv, TypeOK
  <2> QED
    BY <2>1 DEF AskInv, RequestInv, ApiInv, UrlFollows
<1> QED
  BY <1>1, <1>2, <1>3, <1>4, <1>5 DEF dns_timeout

\* A server's answer to the release query begins a release, or a page.
LEMMA AnswerBegins ==
    ASSUME Inv, AskInv, body_cb = "api_buf", url # "bad", body_len = 0,
           reply' \in Answers, UNCHANGED <<body_len, api_buf>>
    PROVE  \E s \in Seq(String) : \E n \in 0 .. Len(s) : Kept_of(s, n)'
<1>1. url = "api"
  BY DEF Inv, HttpInv
<1>2. body_len' = 0 /\ api_buf' = api_buf /\ Len(api_buf) \in Nat
  BY DEF Inv, HttpInv
<1>3. ASSUME NEW s \in Seq(String), UrlFollows(s), reply'.body = s
      PROVE  \E n \in 0 .. Len(s) : Kept_of(s, n)'
  <2>1. s = SubSeq(s, 0 + 1, Len(s)) /\ 0 \in 0 .. Len(s)
    BY <1>3, SubSeqFull
  <2>2. Kept_of(s, 0)'
    BY <1>2, <1>3, <2>1 DEF Kept_of
  <2> QED
    BY <2>1, <2>2
<1>4. \/ \E release \in Releases : reply' = Page(release)
      \/ \E d \in Detours : reply' = [d EXCEPT !.body =
            [i \in DOMAIN @ |-> [part |-> "other", text |-> <<>>]]]
  BY <1>1 DEF Answers
<1>5. ASSUME NEW release \in Releases, reply' = Page(release)
      PROVE  \E s \in Seq(String) : UrlFollows(s) /\ reply'.body = s
  BY <1>5, OtaAssumption DEF Page
<1>6. ASSUME NEW d \in Detours,
             reply' = [d EXCEPT !.body =
                         [i \in DOMAIN @ |-> [part |-> "other", text |-> <<>>]]]
      PROVE  \E s \in Seq(String) : UrlFollows(s) /\ reply'.body = s
  <2> DEFINE other == [part |-> "other", text |-> <<>>]
             s == [i \in 1 .. Len(d.body) |-> other]
  <2>1. d \in [status : {200, 302, 404}, location : {"none", "url", "bad"},
               fits : BOOLEAN, body : Seq(Byte)]
    BY OtaAssumption
  <2>2. d.body \in Seq(Byte) /\ DOMAIN d.body = 1 .. Len(d.body) /\ Len(d.body) \in Nat
    BY <2>1
  <2>3. reply'.body = s
    BY <1>6, <2>1, <2>2
  <2>4. other \in String /\ other.part = "other"
    <3>1. <<>> \in Text
      BY DEF Text
    <3> QED
      BY <3>1 DEF String
  <2>5. other # AssetName
    BY <2>4 DEF AssetName
  <2> HIDE DEF other
  <2>6. s \in Seq(String) /\ Len(s) = Len(d.body) /\ \A i \in 1 .. Len(s) : s[i] = other
    BY <2>2, <2>4
  <2> HIDE DEF s
  <2>7. UrlFollows(s)
    BY <2>5, <2>6 DEF UrlFollows
  <2> QED
    BY <2>3, <2>6, <2>7
<1> QED
  BY <1>3, <1>4, <1>5, <1>6

\* The callbacks that take no data, and the clock.
LEMMA CallbackAsks ==
    ASSUME Inv, AskInv,
           \/ http_connected_cb \/ http_recv_cb_closed \/ http_err_cb
           \/ DeadlinePasses
    PROVE  AskInv'
<1>1. CASE http_connected_cb
  <2>1. /\ pc = "wait" /\ conn = "connecting" /\ pc' = pc
        /\ UNCHANGED <<body_cb, url, api_buf, status_code, body_len, complete, input,
                        fw_error>>
        /\ \/ error' = TRUE /\ conn' = "none"
           \/ conn' = "open" /\ reply' \in Answers /\ error' = error
    BY <1>1, Zenon DEF http_connected_cb, followVars, headVars, bodyVars, fwVars,
                       writerVars
  <2>5. conn' = "open" => ReplyRecord(reply')
    <3>1. reply' \in Answers => ReplyRecord(reply')
      BY AnswersAreRecords, Zenon
    <3> QED
      BY <2>1, <3>1
  <2>2. RequestInv'
    BY <2>1, <2>5 DEF AskInv, RequestInv, ReplyRecord
  <2>3. /\ UrlFollows(api_buf') /\ (body_cb' = "flash" => url' # "other")
        /\ body_len = 0 /\ url # "bad"
    BY <2>1 DEF AskInv, RequestInv, ApiInv, UrlFollows, Inv, HttpInv
  <2>4. body_cb' = "api_buf" /\ conn' = "open" /\ reply'.fits /\ ~error' =>
           \E s \in Seq(String) : \E n \in 0 .. Len(s) : Kept_of(s, n)'
    BY <2>1, <2>3, AnswerBegins
  <2> QED
    BY <2>2, <2>3, <2>4 DEF AskInv, ApiInv
<1>2. CASE http_recv_cb_closed
  <2>1. /\ pc = "wait" /\ conn' = "closing" /\ complete' /\ pc' = pc /\ input = <<>>
        /\ UNCHANGED <<body_cb, url, api_buf, status_code, body_len, error, input,
                        fw_error>>
    BY <1>2, Zenon DEF http_recv_cb_closed, followVars, headVars, bodyVars, fwVars,
                       writerVars
  <2> QED
    BY <2>1 DEF AskInv, RequestInv, ApiInv, UrlFollows
<1>3. CASE http_err_cb
  <2>1. /\ pc = "wait" /\ conn' = "none" /\ error' /\ pc' = pc
        /\ UNCHANGED <<body_cb, url, api_buf, input>> /\ input = <<>>
    BY <1>3, Zenon DEF http_err_cb, followVars, bodyVars, fwVars
  <2> QED
    BY <2>1 DEF AskInv, RequestInv, ApiInv, UrlFollows
<1>4. CASE DeadlinePasses
  <2>1. UNCHANGED <<pc, conn, body_cb, url, api_buf, status_code, body_len, error,
                    complete, reply, input, fw_error>>
    BY <1>4, Zenon DEF DeadlinePasses, followVars, ctxVars, headVars, bodyVars, netVars,
                       fwVars, writerVars
  <2> QED
    BY <2>1 DEF AskInv, RequestInv, ReplyRecord, ApiInv, UrlFollows, Kept_of
<1> QED
  BY <1>1, <1>2, <1>3, <1>4

\* What follows m elements of what follows n.
LEMMA RestOfRest ==
    ASSUME NEW S, NEW s \in Seq(S), NEW n \in 0 .. Len(s), NEW m \in 0 .. Len(s) - n,
           NEW b, b = SubSeq(s, n + 1, Len(s))
    PROVE  /\ b \in Seq(S) /\ Len(b) = Len(s) - n
           /\ SubSeq(b, m + 1, Len(b)) = SubSeq(s, n + m + 1, Len(s))
           /\ Len(SubSeq(b, 1, m)) = m /\ SubSeq(b, 1, m) \in Seq(S)
           /\ \A k \in 1 .. m : SubSeq(b, 1, m)[k] = s[n + k]
<1>1. /\ b \in Seq(S) /\ Len(b) = Len(s) - n
      /\ \A l \in 1 .. (Len(s) - n) : b[l] = s[n + l]
  BY RestOfSeq
<1>2. Len(s) \in Nat /\ n \in Nat /\ m \in Nat /\ m \in 0 .. Len(b)
      /\ n + m \in 0 .. Len(s)
  BY <1>1
<1> DEFINE after == SubSeq(b, m + 1, Len(b))
           beyond == SubSeq(s, n + m + 1, Len(s))
<1>3. /\ after \in Seq(S) /\ Len(after) = Len(b) - m
      /\ \A l \in 1 .. (Len(b) - m) : after[l] = b[m + l]
  BY <1>1, <1>2, RestOfSeq
<1>4. /\ beyond \in Seq(S) /\ Len(beyond) = Len(s) - (n + m)
      /\ \A l \in 1 .. (Len(s) - (n + m)) : beyond[l] = s[(n + m) + l]
  BY <1>2, RestOfSeq
<1>5. /\ SubSeq(b, 1, m) \in Seq(S) /\ Len(SubSeq(b, 1, m)) = m
      /\ \A k \in 1 .. m : SubSeq(b, 1, m)[k] = b[k]
  <2>1. \A i \in 1 .. m : b[i] \in S
    BY <1>1, <1>2, ElementOfSeq
  <2>2. /\ SubSeq(b, 1, m) \in Seq(S)
        /\ Len(SubSeq(b, 1, m)) = IF 1 <= m THEN m - 1 + 1 ELSE 0
        /\ \A i \in 1 .. m - 1 + 1 : SubSeq(b, 1, m)[i] = b[1 + i - 1]
    BY <1>2, <2>1, SubSeqProperties
  <2>3. m - 1 + 1 = m /\ \A i \in 1 .. m : 1 + i - 1 = i
    BY <1>2
  <2> DEFINE front == SubSeq(b, 1, m)
  <2> HIDE DEF front
  <2>4. Len(front) = m
    BY <1>2, <2>2 DEF front
  <2> QED
    BY <2>2, <2>3, <2>4 DEF front
<1> HIDE DEF after, beyond
<1>6. Len(after) = Len(beyond)
  BY <1>1, <1>2, <1>3, <1>4
<1>7. \A l \in 1 .. Len(after) : after[l] = beyond[l]
  <2> TAKE l \in 1 .. Len(after)
  <2> DEFINE full == Len(s)
  <2>2. full \in Nat /\ n \in Nat /\ m \in Nat /\ Len(b) = full - n
        /\ l \in 1 .. (full - n) - m
    BY <1>1, <1>2, <1>3
  <2> HIDE DEF full
  <2>1. /\ l \in 1 .. ((full - n) - m) /\ m + l \in 1 .. (full - n)
        /\ l \in 1 .. (full - (n + m)) /\ n + (m + l) = (n + m) + l
    BY <2>2
  <2>3. after[l] = b[m + l] /\ b[m + l] = s[n + (m + l)]
    BY <1>1, <1>3, <2>1, <2>2 DEF full
  <2>4. beyond[l] = s[(n + m) + l]
    BY <1>4, <2>1 DEF full
  <2> QED
    BY <2>1, <2>3, <2>4
<1>8. after = beyond
  BY <1>3, <1>4, <1>6, <1>7, SeqEqual
<1>9. \A k \in 1 .. m : SubSeq(b, 1, m)[k] = s[n + k]
  BY <1>1, <1>2, <1>5
<1> QED
  BY <1>1, <1>5, <1>8, <1>9 DEF after, beyond

\* What is kept of a release grows with what is processed of it.
LEMMA KeepsMore ==
    ASSUME Inv, NEW s \in Seq(String), NEW n \in 0 .. Len(s), Kept_of(s, n),
           NEW m \in 0 .. Len(s) - n,
           LET data == SubSeq(reply.body, 1, m)
               got  == SubSeq(api_buf, 1, body_len) \o data
           IN  IF data # <<>>
               THEN /\ body_len' = IF Len(got) < ApiCap THEN Len(got) ELSE ApiCap
                    /\ api_buf' = SubSeq(got, 1, body_len')
               ELSE UNCHANGED bodyVars,
           UrlFollows(api_buf),
           reply'.body = SubSeq(reply.body, m + 1, Len(reply.body))
    PROVE  UrlFollows(api_buf') /\ Kept_of(s, n + m)'
<1> DEFINE data == SubSeq(reply.body, 1, m)
           got  == SubSeq(api_buf, 1, body_len) \o data
<1>1. /\ UrlFollows(s) /\ reply.body = SubSeq(s, n + 1, Len(s))
      /\ body_len <= n /\ body_len <= Len(api_buf)
      /\ body_len < n => body_len = ApiCap
      /\ \A k \in 1 .. body_len : api_buf[k] = s[k]
  BY DEF Kept_of
<1>2. /\ reply'.body = SubSeq(s, n + m + 1, Len(s))
      /\ data \in Seq(String) /\ Len(data) = m
      /\ \A k \in 1 .. m : data[k] = s[n + k]
  BY <1>1, RestOfRest
<1>3. /\ api_buf \in Seq(String) /\ body_len \in Nat /\ ApiCap \in Nat
      /\ Len(api_buf) \in Nat /\ Len(api_buf) <= ApiCap
      /\ Len(s) \in Nat /\ n \in Nat /\ m \in Nat /\ n + m <= Len(s)
  BY OtaAssumption DEF Inv, TypeOK, HttpInv
<1>4. /\ SubSeq(api_buf, 1, body_len) \in Seq(String)
      /\ Len(SubSeq(api_buf, 1, body_len)) = body_len
      /\ \A k \in 1 .. body_len : SubSeq(api_buf, 1, body_len)[k] = s[k]
  BY <1>1, <1>3, SubSeqProperties
<1>5. CASE data = <<>>
  <2>1. m = 0 /\ UNCHANGED bodyVars
    <3>1. Len(<<>>) = 0
      OBVIOUS
    <3> QED
      BY <1>2, <1>5, <3>1
  <2> HIDE DEF data
  <2> QED
    BY <1>1, <1>2, <1>3, <2>1 DEF bodyVars, Kept_of
<1>6. CASE data # <<>>
  <2>1. /\ body_len' = IF Len(got) < ApiCap THEN Len(got) ELSE ApiCap
        /\ api_buf' = SubSeq(got, 1, body_len')
    BY <1>6
  <2> HIDE DEF data
  <2> DEFINE front == SubSeq(api_buf, 1, body_len)
  <2>8. /\ front \in Seq(String) /\ Len(front) = body_len
        /\ \A k \in 1 .. body_len : front[k] = s[k]
        /\ data \in Seq(String) /\ Len(data) = m
        /\ got = front \o data /\ body_len \in Nat /\ m \in Nat
    BY <1>2, <1>3, <1>4
  <2> HIDE DEF front
  <2>2. /\ got \in Seq(String) /\ Len(got) = body_len + m
        /\ \A i \in 1 .. body_len + m :
              got[i] = IF i <= body_len THEN s[i] ELSE data[i - body_len]
    <3> HIDE DEF got
    <3>1. /\ got \in Seq(String) /\ Len(got) = body_len + m
          /\ \A i \in 1 .. body_len + m :
                got[i] = IF i <= body_len THEN front[i] ELSE data[i - body_len]
      BY <2>8, ConcatProperties
    <3> QED
      BY <2>8, <3>1
  <2> HIDE DEF got
  <2>3. body_len' \in 0 .. Len(got) /\ body_len' <= n + m /\ body_len' <= ApiCap
    BY <1>1, <1>3, <2>1, <2>2
  <2>4. \A k \in 1 .. body_len' : got[k] = s[k]
    <3> TAKE k \in 1 .. body_len'
    <3>1. CASE k <= body_len
      BY <1>3, <2>2, <2>3, <3>1
    <3>2. CASE k > body_len
      <4>1. body_len = n
        BY <1>1, <1>3, <2>3, <3>2
      <4>2. k - body_len \in 1 .. m /\ n + (k - body_len) = k /\ k \in 1 .. body_len + m
        BY <1>3, <2>2, <2>3, <3>2, <4>1
      <4> QED
        BY <1>2, <2>2, <3>2, <4>2
    <3> QED
      BY <1>3, <2>3, <3>1, <3>2
  <2>5. /\ api_buf' \in Seq(String) /\ Len(api_buf') = body_len'
        /\ \A k \in 1 .. body_len' : api_buf'[k] = s[k]
    BY <2>1, <2>2, <2>3, <2>4, SubSeqProperties
  <2>6. UrlFollows(api_buf')
    <3> DEFINE kept == api_buf'
    <3>1. /\ kept \in Seq(String) /\ Len(kept) <= Len(s)
          /\ \A k \in 1 .. Len(kept) : kept[k] = s[k]
      BY <1>3, <2>3, <2>5
    <3> HIDE DEF kept
    <3>2. UrlFollows(kept)
      BY <1>1, <3>1, PrefixFollows
    <3> QED
      BY <3>2 DEF kept, UrlFollows
  <2>7. body_len' < n + m => body_len' = ApiCap
    BY <1>1, <1>3, <2>1, <2>2
  <2> QED
    BY <1>1, <1>2, <2>3, <2>5, <2>6, <2>7 DEF Kept_of
<1> QED
  BY <1>5, <1>6

\* A piece of a reply.
LEMMA DataAsks == ASSUME Inv, AskInv, http_recv_cb PROVE AskInv'
<1>1. /\ pc = "wait" /\ conn = "open"
      /\ UNCHANGED <<pc, followVars, complete, error, conn>>
  BY Zenon DEF http_recv_cb
<1>2. PICK m \in (IF headers_done THEN 1 ELSE 0) .. Len(reply.body) :
          /\ process_data(SubSeq(reply.body, 1, m))
          /\ reply' = [reply EXCEPT !.body = SubSeq(@, m + 1, Len(@))]
  BY DEF http_recv_cb
<1>3. /\ reply'.body = SubSeq(reply.body, m + 1, Len(reply.body))
      /\ reply'.fits = reply.fits /\ reply'.status = reply.status
      /\ ReplyRecord(reply)'
  <2>1. reply = [status |-> reply.status, location |-> reply.location,
                 fits |-> reply.fits, body |-> reply.body]
    BY <1>1 DEF AskInv, RequestInv, ReplyRecord
  <2> DEFINE rest == SubSeq(reply.body, m + 1, Len(reply.body))
  <2>2. reply' = [reply EXCEPT !.body = rest]
    BY <1>2
  <2> HIDE DEF rest
  <2>3. reply' = [status |-> reply.status, location |-> reply.location,
                  fits |-> reply.fits, body |-> rest]
    BY <2>1, <2>2
  <2>4. ReplyRecord(reply')
    BY <1>1, <2>3 DEF ReplyRecord, AskInv, RequestInv
  <2> QED
    BY <2>3, <2>4 DEF rest, ReplyRecord
<1>4. RequestInv'
  <2>1. CASE Ignored
    <3>1. UNCHANGED <<status_code, body_len, input, fw_error>>
      BY <1>2, <2>1 DEF process_data, headVars, bodyVars, fwVars, writerVars
    <3> QED
      BY <1>1, <1>3, <3>1 DEF followVars, AskInv, RequestInv
  <2>2. CASE ~Ignored
    <3>1. status_code' = reply.status /\ reply.fits /\ ~error
      BY <1>2, <2>2, Zenon DEF process_data, Ignored
    <3>2. fw_error' = fw_error
      BY <1>2, Zenon DEF process_data, flash_write_call, fwVars, writerVars
    <3> QED
      BY <1>1, <1>3, <3>1, <3>2 DEF followVars, AskInv, RequestInv
  <2> QED
    BY <2>1, <2>2
<1>5. CASE body_cb = "flash" \/ Ignored
  <2>1. UNCHANGED <<api_buf, body_cb, url>>
    BY <1>1, <1>2, <1>5 DEF process_data, bodyVars, followVars
  <2>2. body_cb = "flash" \/ error \/ ~reply.fits
    BY <1>1, <1>5 DEF Ignored, AskInv, RequestInv
  <2> QED
    BY <1>1, <1>3, <1>4, <2>1, <2>2 DEF AskInv, ApiInv, UrlFollows
<1>6. CASE body_cb # "flash" /\ ~Ignored
  <2>1. body_cb = "api_buf" /\ reply.fits /\ ~error /\ UNCHANGED <<body_cb, url>>
    BY <1>1, <1>6 DEF Inv, TypeOK, Ignored, followVars
  <2>2. PICK s \in Seq(String) : \E n \in 0 .. Len(s) : Kept_of(s, n)
    BY <1>1, <2>1, Zenon DEF AskInv, ApiInv
  <2>3. PICK n \in 0 .. Len(s) : Kept_of(s, n)
    BY <2>2
  <2>4. m \in 0 .. Len(s) - n
    <3>1. Len(reply.body) = Len(s) - n /\ Len(s) \in Nat
      BY <2>3, RestOfSeq DEF Kept_of
    <3> QED
      BY <1>2, <3>1
  <2>5. UrlFollows(api_buf') /\ Kept_of(s, n + m)'
    <3>1. LET data == SubSeq(reply.body, 1, m)
              got  == SubSeq(api_buf, 1, body_len) \o data
          IN  IF data # <<>>
              THEN /\ body_len' = IF Len(got) < ApiCap THEN Len(got) ELSE ApiCap
                   /\ api_buf' = SubSeq(got, 1, body_len')
              ELSE UNCHANGED bodyVars
      BY <1>2, <1>6, <2>1 DEF process_data
    <3>2. UrlFollows(api_buf)
      BY DEF AskInv, ApiInv
    <3> QED
      BY <1>3, <2>3, <2>4, <3>1, <3>2, KeepsMore
  <2>6. n + m \in 0 .. Len(s)
    BY <2>4
  <2> QED
    BY <1>1, <1>4, <2>1, <2>5, <2>6 DEF AskInv, ApiInv
<1> QED
  BY <1>5, <1>6

\* The other steps of an update: a boot, a release taken, a round of the
\* writer, the end of a download.
LEMMA OthersAsk ==
    ASSUME Inv, AskInv,
           \/ ota_accept_current_image \/ ota_update_check_and_apply
           \/ check_release \/ body_callback \/ finish_download \/ Rom
    PROVE  AskInv'
<1>1. CASE Return /\ ~Rom /\ ~body_callback
  <2>1. pc # "wait"
    BY <1>1 DEF ota_accept_current_image, ota_update_check_and_apply, check_release,
                finish_download
  <2>2. input = <<>>
    BY <2>1 DEF Inv, DownloadInv
  <2> QED
    BY <1>1, <2>2, ReturnAsks
<1>2. CASE ota_accept_current_image
  <2>1. /\ pc = "boot" /\ pc' = "check"
        /\ UNCHANGED <<body_cb, url, api_buf, status_code, body_len, complete, error,
                        input, fw_error, conn, reply>>
    BY <1>2 DEF ota_accept_current_image, followVars, ctxVars, headVars, bodyVars,
                netVars, fwVars, writerVars
  <2> QED
    BY <2>1 DEF AskInv, RequestInv, ApiInv, UrlFollows
<1>3. CASE ota_update_check_and_apply /\ ~Return
  <2>1. /\ pc = "check" /\ pc' = "url" /\ body_cb' = "api_buf"
        /\ UNCHANGED <<api_buf, status_code, body_len, complete, error,
                        input, fw_error, conn, reply>>
    BY <1>3 DEF ota_update_check_and_apply, https_get_follow, ctxVars, headVars,
                bodyVars, netVars, fwVars, writerVars
  <2> QED
    BY <2>1 DEF AskInv, RequestInv, ApiInv, UrlFollows
<1>4. CASE check_release /\ ~Return
  <2>1. /\ pc = "release" /\ find_bin_asset_url # <<>>
        /\ flash_writer_init(First(target) * SectorSize, PartitionSize(target))
        /\ https_get_follow("flash", find_bin_asset_url[1])
        /\ UNCHANGED <<romVars, ctxVars, late, conn, reply, flash, input>>
    BY <1>4, Zenon DEF check_release
  <2>2. /\ pc' = "url" /\ body_cb' = "flash" /\ url' = find_bin_asset_url[1]
        /\ fw_error' = FALSE
        /\ UNCHANGED <<api_buf, status_code, body_len, complete, error, input, conn,
                        reply>>
    BY <2>1 DEF https_get_follow, flash_writer_init, ctxVars, headVars, bodyVars
  <2>3. find_bin_asset_url \in {<<"bin">>, <<"bad">>}
    BY <2>1, AssetUrl DEF AskInv, ApiInv, Inv, HttpInv
  <2>4. url' # "other"
    BY <2>2, <2>3
  <2>5. RequestInv'
    BY <2>1, <2>2 DEF AskInv, RequestInv
  <2> QED
    BY <2>1, <2>2, <2>4, <2>5 DEF AskInv, RequestInv, ApiInv, UrlFollows
<1>5. CASE body_callback
  <2>1. /\ pc = "wait" /\ body_cb = "flash" /\ input # <<>>
        /\ flash_write_cb /\ error' = fw_error'
        /\ UNCHANGED <<pc, body_cb, url, api_buf, status_code, body_len, complete,
                        conn, reply>>
    BY <1>5 DEF body_callback, flash_write_cb, Inv, DownloadInv, followVars, headVars,
                bodyVars, netVars
  <2>2. ~error /\ ~fw_error
    BY <2>1 DEF AskInv, RequestInv
  <2>3. input' # <<>> => fw_error' = fw_error
    BY <2>1, Zenon DEF flash_write_cb
  <2> QED
    BY <2>1, <2>2, <2>3 DEF AskInv, RequestInv, ApiInv, UrlFollows
<1>6. CASE finish_download
  <2>1. /\ pc = "finish" /\ pc' = "main"
        /\ UNCHANGED <<body_cb, url, api_buf, error, input, conn>>
    BY <1>6 DEF finish_download, followVars, ctxVars, bodyVars, netVars
  <2> QED
    BY <2>1 DEF AskInv, RequestInv, ApiInv, UrlFollows
<1>7. CASE Rom
  <2>1. MemoryLost
    BY <1>7 DEF Rom, FlashUpdateBoot, Reset
  <2>2. /\ pc' = "boot" /\ body_cb' = "api_buf" /\ error' = FALSE
        /\ conn' = "none" /\ input' = <<>> /\ api_buf' = <<>>
    BY <2>1, Zenon DEF MemoryLost
  <2>3. Len(api_buf') = 0
    BY <2>2
  <2>4. UrlFollows(api_buf')
    BY <2>3 DEF UrlFollows
  <2> QED
    BY <2>2, <2>4 DEF AskInv, RequestInv, ApiInv, UrlFollows
<1> QED
  BY <1>1, <1>2, <1>3, <1>4, <1>5, <1>6, <1>7

\* The device as it was flashed.
LEMMA InitAsks == ASSUME Init PROVE AskInv
<1>1. /\ pc = "boot" /\ body_cb = "api_buf" /\ error = FALSE /\ conn = "none"
      /\ input = <<>> /\ api_buf = <<>>
  BY DEF Init
<1>2. Len(api_buf) = 0
  BY <1>1
<1>3. UrlFollows(api_buf)
  BY <1>2 DEF UrlFollows
<1> QED
  BY <1>1, <1>3 DEF AskInv, RequestInv, ApiInv

\* Every step keeps what is known of requests.
LEMMA NextAsks == ASSUME Inv, AskInv, [Next]_vars PROVE AskInv'
<1>1. CASE UNCHANGED vars
  <2>1. UNCHANGED <<pc, conn, body_cb, url, api_buf, status_code, body_len, error,
                    complete, reply, input, fw_error>>
    BY <1>1 DEF vars, followVars, ctxVars, headVars, bodyVars, netVars, fwVars,
                writerVars
  <2> QED
    BY <2>1 DEF AskInv, RequestInv, ReplyRecord, ApiInv, UrlFollows, Kept_of
<1>2. CASE Next
  BY <1>2, RequestAsks, CallbackAsks, DataAsks, OthersAsk DEF Next, Main, Network
<1> QED
  BY <1>1, <1>2

\* What is known of requests holds in every behaviour.
LEMMA AskHolds == Spec => [](Inv /\ AskInv)
<1>1. Init => Inv /\ AskInv
  BY InitInv, InitAsks
<1>2. Inv /\ AskInv /\ [Next]_vars => (Inv /\ AskInv)'
  BY NextInv, NextAsks
<1> QED
  BY <1>1, <1>2, PTL DEF Spec

\* Only the padproxy.bin of a release of that version is ever downloaded: its
\* whole tag says so if the tag fits its buffer, else the part of it that fits.
THEOREM DownloadIsTagged == Spec => DownloadsTagged
<1> DEFINE tag == TextOf("tag", 1)
           Tagged == \E n \in 1 .. Len(tag) :
                        /\ Means(SubSeq(tag, 1, n), remote_ver')
                        /\ \/ n = Len(tag)
                           \/ n = TAG_MAX - 1 /\ n < Len(tag)
<1>1. ASSUME Inv, AskInv, Next, body_cb' = "flash", body_cb # "flash"
      PROVE  Tagged /\ url' \in {"bin", "bad"}
  <2>1. check_release /\ ~Return
    BY <1>1, Zenon DEF Next, Main, Network, Rom, ota_accept_current_image,
       ota_update_check_and_apply, https_get_follow, https_get, dns_timeout,
       http_wait, http_response, body_callback, finish_download, dns_found_cb,
       http_connected_cb, http_recv_cb, http_recv_cb_closed, http_err_cb,
       DeadlinePasses, FlashUpdateBoot, Reset, MemoryLost, Return, followVars
  <2>2. /\ ota_version_parse(json_find_string) # NoVersion
        /\ remote_ver' = ota_version_parse(json_find_string)
        /\ find_bin_asset_url # <<>> /\ url' = find_bin_asset_url[1]
    BY <2>1, Zenon DEF check_release, https_get_follow
  <2>3. Means(json_find_string, remote_ver')
    <3>1. json_find_string \in Text
      BY <1>1, ReleaseIsOfAKind DEF Inv, HttpInv
    <3> QED
      BY <2>2, <3>1, ParseMeans
  <2>4. find_bin_asset_url \in {<<"bin">>, <<"bad">>}
    BY <1>1, <2>2, AssetUrl DEF AskInv, ApiInv, Inv, HttpInv
  <2>5. Tagged
    <3>1. PICK n \in 0 .. Len(tag) :
             /\ json_find_string = SubSeq(tag, 1, n)
             /\ \/ n = Len(tag)
                \/ n = TAG_MAX - 1 /\ n < Len(tag)
             /\ tag \in Seq(STRING)
      BY <1>1, TagIsBeginning DEF Inv, HttpInv
    <3> HIDE DEF tag
    <3>2. Len(json_find_string) = n
      BY <3>1
    <3>3. \E i \in 1 .. Len(json_find_string) : TRUE
      BY <2>3 DEF Means
    <3>4. n \in 1 .. Len(tag)
      BY <3>1, <3>2, <3>3
    <3> QED
      BY <2>3, <3>1, <3>4
  <2> HIDE DEF Tagged
  <2> QED
    BY <2>2, <2>4, <2>5
<1>2. Inv /\ AskInv /\ [Next]_vars =>
         [body_cb' = "flash" /\ body_cb # "flash" =>
            Tagged /\ url' \in {"bin", "bad"}]_vars
  <2> HIDE DEF Tagged
  <2> QED
    BY <1>1
<1> QED
  BY <1>2, AskHolds, PTL DEF Spec, DownloadsTagged

-----------------------------------------------------------------------------
(* The image: what the writer has taken lands in the target.               *)

\* How much of the stream is in the flash when buf and rest are in hand.
Written(buf, rest) == Len(stream) - Len(rest) - Len(buf)

\* The stream is in the flash, then in buf, then in rest.
Lands(buf, rest) ==
    LET n == Written(buf, rest) IN
    /\ n \in Nat /\ flash_offset = Base(target) + n
    /\ \A i \in 1 .. n : flash[Base(target) + i - 1] = stream[i]
    /\ \A i \in 1 .. Len(buf) : buf[i] = stream[n + i]
    /\ \A i \in 1 .. Len(rest) : rest[i] = stream[n + Len(buf) + i]

Landed ==
    /\ ~fw_error
    /\ Len(sector_buf) < SectorSize
    /\ stream \in Seq(Byte)
    /\ Lands(sector_buf, input)

\* What a round of flash_write_cb works on.
LEMMA RoundTakes ==
    ASSUME input \in Seq(Byte), input # <<>>, sector_buf \in Seq(Byte),
           Len(sector_buf) < SectorSize
    PROVE  LET buf  == sector_buf \o SubSeq(input, 1, Chunk)
               rest == SubSeq(input, Chunk + 1, Len(input))
           IN  /\ Chunk \in 1 .. Len(input)
               /\ buf \in Seq(Byte) /\ rest \in Seq(Byte)
               /\ Len(buf) = Len(sector_buf) + Chunk
               /\ Len(rest) = Len(input) - Chunk
               /\ Len(buf) <= SectorSize
               /\ \A i \in 1 .. Len(sector_buf) : buf[i] = sector_buf[i]
               /\ \A i \in 1 .. Chunk : buf[Len(sector_buf) + i] = input[i]
               /\ \A i \in 1 .. Len(rest) : rest[i] = input[Chunk + i]
<1> DEFINE head == SubSeq(input, 1, Chunk)
           rest == SubSeq(input, Chunk + 1, Len(input))
<1>1. Len(input) \in Nat \ {0} /\ Len(sector_buf) \in Nat /\ SectorSize \in Nat
  BY WriterAssumption
<1>2. Chunk \in 1 .. Len(input) /\ Len(sector_buf) + Chunk <= SectorSize
  BY <1>1 DEF Chunk
<1>3. head \in Seq(Byte) /\ Len(head) = Chunk /\ \A i \in 1 .. Chunk : head[i] = input[i]
  BY <1>2
<1>4. rest \in Seq(Byte) /\ Len(rest) = Len(input) - Chunk
      /\ \A i \in 1 .. Len(rest) : rest[i] = input[Chunk + i]
  BY <1>2
<1> HIDE DEF head, rest
<1>5. /\ sector_buf \o head \in Seq(Byte)
      /\ Len(sector_buf \o head) = Len(sector_buf) + Chunk
      /\ \A i \in 1 .. Len(sector_buf) : (sector_buf \o head)[i] = sector_buf[i]
      /\ \A i \in 1 .. Chunk : (sector_buf \o head)[Len(sector_buf) + i] = input[i]
  BY <1>1, <1>2, <1>3
<1> QED
  BY <1>2, <1>4, <1>5 DEF head, rest

\* A round only moves the boundary between the buffer and the chunk.
LEMMA RoundLands ==
    ASSUME Landed, input \in Seq(Byte), input # <<>>, sector_buf \in Seq(Byte)
    PROVE  Lands(sector_buf \o SubSeq(input, 1, Chunk),
                 SubSeq(input, Chunk + 1, Len(input)))
<1> DEFINE buf  == sector_buf \o SubSeq(input, 1, Chunk)
           rest == SubSeq(input, Chunk + 1, Len(input))
           n == Written(sector_buf, input)
<1>1. /\ Chunk \in 1 .. Len(input) /\ Len(input) \in Nat /\ Len(sector_buf) \in Nat
      /\ Len(buf) = Len(sector_buf) + Chunk /\ Len(rest) = Len(input) - Chunk
      /\ \A i \in 1 .. Len(sector_buf) : buf[i] = sector_buf[i]
      /\ \A i \in 1 .. Chunk : buf[Len(sector_buf) + i] = input[i]
      /\ \A i \in 1 .. Len(rest) : rest[i] = input[Chunk + i]
  BY RoundTakes DEF Landed
<1>2. /\ n \in Nat /\ flash_offset = Base(target) + n /\ Len(stream) \in Nat
      /\ \A i \in 1 .. n : flash[Base(target) + i - 1] = stream[i]
      /\ \A i \in 1 .. Len(sector_buf) : sector_buf[i] = stream[n + i]
      /\ \A i \in 1 .. Len(input) : input[i] = stream[n + Len(sector_buf) + i]
  BY DEF Landed, Lands
<1> HIDE DEF buf, rest
<1>3. Written(buf, rest) = n
  BY <1>1, <1>2 DEF Written
<1> HIDE DEF n
<1>4. ASSUME NEW i \in 1 .. Len(buf) PROVE buf[i] = stream[n + i]
  <2>1. CASE i <= Len(sector_buf)
    BY <1>1, <1>2, <2>1
  <2>2. CASE i > Len(sector_buf)
    <3> DEFINE j == i - Len(sector_buf)
    <3>1. j \in 1 .. Chunk /\ i = Len(sector_buf) + j /\ j \in 1 .. Len(input)
          /\ n + Len(sector_buf) + j = n + i
      BY <1>1, <1>2, <2>2
    <3> HIDE DEF j
    <3> QED
      BY <1>1, <1>2, <3>1
  <2> QED
    BY <1>1, <2>1, <2>2
<1>5. ASSUME NEW i \in 1 .. Len(rest) PROVE rest[i] = stream[n + Len(buf) + i]
  <2>1. Chunk + i \in 1 .. Len(input)
        /\ n + Len(sector_buf) + (Chunk + i) = n + Len(buf) + i
    BY <1>1, <1>2
  <2> QED
    BY <1>1, <1>2, <2>1
<1> QED
  BY <1>2, <1>3, <1>4, <1>5 DEF Lands, buf, rest

\* A sector that fits continues the image in the flash.
LEMMA SectorLands ==
    ASSUME NEW buf \in Seq(Byte), NEW rest \in Seq(Byte), Lands(buf, rest),
           Len(buf) <= SectorSize, flash \in [Addr -> Byte], target \in Partition,
           partition_end = Base(target) + Size, SectorFits,
           flash' = Programmed(flash, flash_offset, buf)
    PROVE  \A i \in 1 .. Written(buf, rest) + Len(buf) :
              flash'[Base(target) + i - 1] = stream[i]
<1> DEFINE n == Written(buf, rest)
           base == Base(target)
<1>1. /\ n \in Nat /\ flash_offset = base + n /\ base \in Nat /\ Size \in Nat
      /\ SectorSize \in Nat /\ Len(buf) \in Nat
      /\ flash_offset + SectorSize <= base + Size
  BY Layout, WriterAssumption DEF Lands, SectorFits
<1>2. /\ \A i \in 1 .. n : flash[base + i - 1] = stream[i]
      /\ \A i \in 1 .. Len(buf) : buf[i] = stream[n + i]
  BY DEF Lands
<1>3. \A a \in base .. (base + Size - 1) : a \in Addr
  BY Layout, OtaAssumption DEF Partition
<1> HIDE DEF n, base
<1> SUFFICES ASSUME NEW i \in 1 .. n + Len(buf)
             PROVE  flash'[base + i - 1] = stream[i]
  BY DEF n, base
<1> DEFINE a == base + i - 1
<1>4. a \in Addr /\ i \in Nat /\ a = base + i - 1 /\ a \in Int
  BY <1>1, <1>3
<1> HIDE DEF a
<1>5. flash'[a] =
         IF a \in flash_offset .. (flash_offset + SectorSize - 1)
         THEN IF a - flash_offset < Len(buf) THEN buf[a - flash_offset + 1] ELSE Erased
         ELSE flash[a]
  BY <1>4 DEF Programmed
<1>6. CASE i <= n
  <2>1. a \notin flash_offset .. (flash_offset + SectorSize - 1) /\ i \in 1 .. n
    BY <1>1, <1>4, <1>6
  <2>2. flash'[a] = flash[a]
    BY <1>5, <2>1, Zenon
  <2> QED
    BY <1>2, <1>4, <2>1, <2>2
<1>7. CASE i > n
  <2> DEFINE j == i - n
  <2>1. /\ j \in 1 .. Len(buf) /\ n + j = i /\ a - flash_offset + 1 = j
        /\ a \in flash_offset .. (flash_offset + SectorSize - 1)
        /\ a - flash_offset < Len(buf)
    BY <1>1, <1>4, <1>7
  <2> HIDE DEF j
  <2>2. flash'[a] = buf[j]
    BY <1>5, <2>1, Zenon
  <2> QED
    BY <1>2, <1>4, <2>1, <2>2
<1> QED
  BY <1>1, <1>4, <1>6, <1>7

\* A round that ends without an error lands.
LEMMA WriteLands ==
    ASSUME Inv, Landed, body_callback, ~error'
    PROVE  Landed'
<1> DEFINE buf  == sector_buf \o SubSeq(input, 1, Chunk)
           rest == SubSeq(input, Chunk + 1, Len(input))
<1>1. /\ input # <<>> /\ flash_write_cb /\ ~fw_error' /\ stream' = stream
      /\ target' = target /\ partition_end = Base(target) + Size
      /\ target \in Partition
  BY TargetIsOther DEF body_callback, flash_write_cb, romVars, target, Inv, TypeOK,
     DownloadInv
<1>2. /\ input \in Seq(Byte) /\ sector_buf \in Seq(Byte) /\ flash \in [Addr -> Byte]
      /\ SectorSize \in Nat /\ SectorSize > 0
  BY WriterAssumption DEF Inv, WriterTypes
<1>3. /\ buf \in Seq(Byte) /\ rest \in Seq(Byte) /\ Len(buf) <= SectorSize
      /\ Lands(buf, rest)
  BY <1>1, <1>2, RoundTakes, RoundLands DEF Landed
<1>4. CASE Len(buf) # SectorSize
  <2>1. /\ sector_buf' = buf /\ input' = rest
        /\ UNCHANGED <<flash, flash_offset>>
    BY <1>1, <1>4 DEF flash_write_cb
  <2> HIDE DEF buf, rest
  <2>2. Len(buf) < SectorSize
    BY <1>2, <1>3, <1>4
  <2>3. Lands(sector_buf, input)'
    BY <1>1, <1>3, <2>1 DEF Lands, Written, Base, First
  <2> QED
    BY <1>1, <2>1, <2>2, <2>3 DEF Landed
<1>5. CASE Len(buf) = SectorSize
  <2>1. buf # <<>>
    <3> HIDE DEF buf
    <3> QED
      BY <1>2, <1>5
  <2>2. FlushSucceeds(buf)
    BY <1>1, <1>5, Zenon DEF flash_write_cb
  <2>3. /\ SectorFits /\ flash' = Programmed(flash, flash_offset, buf)
        /\ flash_offset' = flash_offset + SectorSize
        /\ sector_buf' = <<>> /\ input' = rest
    BY <1>1, <1>5, <2>1, <2>2 DEF flash_write_cb, flash_writer_flush, FlushSucceeds
  <2> DEFINE n == Written(buf, rest)
  <2> HIDE DEF buf, rest
  <2>4. \A i \in 1 .. n + Len(buf) : flash'[Base(target) + i - 1] = stream[i]
    BY <1>1, <1>2, <1>3, <2>3, SectorLands
  <2>5. /\ n \in Nat /\ flash_offset = Base(target) + n
        /\ \A i \in 1 .. Len(rest) : rest[i] = stream[n + Len(buf) + i]
    BY <1>3 DEF Lands
  <2>6. Len(sector_buf') = 0
    BY <2>3
  <2>7. Written(sector_buf, input)' = n + Len(buf)
    BY <1>1, <1>3, <2>3, <2>6 DEF Written, Landed
  <2>8. Base(target') = Base(target) /\ Base(target) \in Nat
    BY <1>1, Layout
  <2> HIDE DEF n
  <2>9. Lands(sector_buf, input)'
    <3>1. /\ n + Len(buf) \in Nat
          /\ flash_offset' = Base(target') + (n + Len(buf))
          /\ n + Len(buf) + 0 = n + Len(buf)
      BY <1>2, <1>5, <2>3, <2>5, <2>8
    <3>2. \A i \in 1 .. n + Len(buf) : flash'[Base(target') + i - 1] = stream'[i]
      BY <1>1, <2>4
    <3>3. \A i \in 1 .. Len(input') : input'[i] = stream'[n + Len(buf) + Len(sector_buf') + i]
      BY <1>1, <2>3, <2>5, <2>6, <3>1
    <3> QED
      BY <2>6, <2>7, <3>1, <3>2, <3>3 DEF Lands
  <2> QED
    BY <1>1, <1>2, <2>6, <2>9 DEF Landed
<1> QED
  BY <1>4, <1>5

\* ConcatAssociative of the library, for bytes.
LEMMA BytesAssociate ==
    ASSUME NEW x \in Seq(Byte), NEW y \in Seq(Byte), NEW z \in Seq(Byte)
    PROVE  (x \o y) \o z = x \o (y \o z)
  BY ConcatAssociative, SMT

\* Two pieces of a stream of bytes make one.
LEMMA Appended ==
    ASSUME NEW s \in Seq(Byte), NEW b \in Seq(Byte), NEW m \in 0 .. Len(b)
    PROVE  /\ SubSeq(b, 1, m) \in Seq(Byte) /\ Len(SubSeq(b, 1, m)) = m
           /\ s \o SubSeq(b, 1, m) \in Seq(Byte)
           /\ Len(s \o SubSeq(b, 1, m)) = Len(s) + m
           /\ \A i \in 1 .. Len(s) : (s \o SubSeq(b, 1, m))[i] = s[i]
           /\ \A i \in 1 .. m : (s \o SubSeq(b, 1, m))[Len(s) + i] = SubSeq(b, 1, m)[i]
           /\ (s \o SubSeq(b, 1, m)) \o SubSeq(b, m + 1, Len(b)) = s \o b
<1> DEFINE head == SubSeq(b, 1, m)
           rest == SubSeq(b, m + 1, Len(b))
<1>1. Len(b) \in Nat /\ Len(s) \in Nat /\ m \in Nat
  OBVIOUS
<1>2. head \in Seq(Byte) /\ Len(head) = m /\ \A i \in 1 .. m : head[i] = b[i]
  BY <1>1
<1>3. rest \in Seq(Byte) /\ Len(rest) = Len(b) - m
      /\ \A i \in 1 .. Len(b) - m : rest[i] = b[m + i]
  BY RestOfSeq
<1> HIDE DEF head, rest
<1>4. head \o rest = b
  <2>1. head \o rest \in Seq(Byte) /\ Len(head \o rest) = Len(b)
        /\ \A i \in 1 .. Len(b) :
              (head \o rest)[i] = IF i <= m THEN head[i] ELSE rest[i - m]
    BY <1>1, <1>2, <1>3, ConcatProperties
  <2>2. ASSUME NEW i \in 1 .. Len(b) PROVE (head \o rest)[i] = b[i]
    <3>1. CASE i <= m
      BY <1>1, <1>2, <2>1, <3>1
    <3>2. CASE i > m
      <4>1. i - m \in 1 .. Len(b) - m /\ m + (i - m) = i
        BY <1>1, <3>2
      <4> QED
        BY <1>3, <2>1, <3>2, <4>1, <1>1
    <3>3. i <= m \/ i > m
      BY <1>1
    <3> QED
      BY <3>1, <3>2, <3>3, Zenon
  <2>3. \A i \in 1 .. Len(head \o rest) : (head \o rest)[i] = b[i]
    BY <2>1, <2>2
  <2> QED
    BY <2>1, <2>3, SeqEqual
<1>5. (s \o head) \o rest = s \o b
  <2>1. (s \o head) \o rest = s \o (head \o rest)
    <3>1. head \in Seq(Byte) /\ rest \in Seq(Byte)
      BY <1>2, <1>3
    <3> QED
      BY <3>1, BytesAssociate, Zenon
  <2> QED
    BY <1>4, <2>1, Zenon
<1>6. /\ s \o head \in Seq(Byte) /\ Len(s \o head) = Len(s) + m
      /\ \A i \in 1 .. Len(s) : (s \o head)[i] = s[i]
      /\ \A i \in 1 .. m : (s \o head)[Len(s) + i] = head[i]
  BY <1>1, <1>2
<1> QED
  BY <1>2, <1>5, <1>6 DEF head, rest

\* A chunk that arrives lands behind what there is.
LEMMA ChunkLands ==
    ASSUME Landed, input = <<>>, sector_buf \in Seq(Byte),
           NEW b \in Seq(Byte), NEW m \in 0 .. Len(b),
           flash_write_call(SubSeq(b, 1, m)), target' = target
    PROVE  Landed'
<1> DEFINE data == SubSeq(b, 1, m)
           n == Written(sector_buf, input)
<1>1. /\ input' = data /\ stream' = stream \o data
      /\ UNCHANGED <<flash, flash_offset, sector_buf, fw_error>>
  BY DEF flash_write_call, writerVars
<1>2. /\ stream \in Seq(Byte) /\ Len(data) = m /\ stream' \in Seq(Byte)
      /\ Len(stream') = Len(stream) + m
      /\ \A i \in 1 .. Len(stream) : stream'[i] = stream[i]
      /\ \A i \in 1 .. m : stream'[Len(stream) + i] = data[i]
  <2>1. stream \in Seq(Byte)
    BY DEF Landed
  <2> QED
    BY <1>1, <2>1, Appended
<1> HIDE DEF data
<1>3. Len(input) = 0
  OBVIOUS
<1>4. /\ n \in Nat /\ flash_offset = Base(target) + n
      /\ Len(stream) = n + Len(sector_buf) /\ Len(sector_buf) \in Nat /\ m \in Nat
      /\ \A i \in 1 .. n : flash[Base(target) + i - 1] = stream[i]
      /\ \A i \in 1 .. Len(sector_buf) : sector_buf[i] = stream[n + i]
  <2>1. Len(stream) \in Nat /\ Len(sector_buf) \in Nat /\ m \in Nat
    BY <1>2
  <2> QED
    BY <1>3, <2>1 DEF Landed, Lands, Written
<1>5. Written(sector_buf, input)' = n
  BY <1>1, <1>2, <1>3, <1>4 DEF Written
<1> HIDE DEF n
<1>6. \A i \in 1 .. n + Len(sector_buf) : stream'[i] = stream[i]
  BY <1>2, <1>4
<1>7. \A i \in 1 .. Len(sector_buf) : n + i \in 1 .. n + Len(sector_buf)
  BY <1>4
<1>8. \A i \in 1 .. n : i \in 1 .. n + Len(sector_buf)
  BY <1>4
<1>9. \A i \in 1 .. m : data[i] = stream'[n + Len(sector_buf) + i]
  BY <1>2, <1>4
<1>10. Lands(sector_buf, input)'
  <2>1. Base(target') = Base(target)
    OBVIOUS
  <2>2. flash_offset' = Base(target') + n /\ n \in Nat
    BY <1>1, <1>4, <2>1
  <2>3. \A i \in 1 .. n : flash'[Base(target') + i - 1] = stream'[i]
    BY <1>1, <1>4, <1>6, <1>8, <2>1
  <2>4. \A i \in 1 .. Len(sector_buf') : sector_buf'[i] = stream'[n + i]
    BY <1>1, <1>4, <1>6, <1>7
  <2>5. \A i \in 1 .. Len(input') : input'[i] = stream'[n + Len(sector_buf') + i]
    BY <1>1, <1>2, <1>9
  <2> QED
    BY <1>5, <2>2, <2>3, <2>4, <2>5 DEF Lands
<1> QED
  BY <1>1, <1>2, <1>10 DEF Landed

\* As long as nothing is flawed: what has arrived is the beginning of the
\* asset, what is to come is its rest, and what ends with 200 is whole.
AssetInv ==
    /\ pc \in {"url", "dns"} \/ conn = "connecting" => stream = <<>>
    /\ conn = "open" /\ (reply.status = 302 \/ ~reply.fits) => stream = <<>>
    /\ conn = "open" /\ reply.status = 200 /\ reply.fits =>
          Asset[remote_ver] = stream \o reply.body
    /\ pc \in {"response", "finish"} \/ conn = "closing" =>
          /\ status_code = 200 => stream = Asset[remote_ver]
          /\ status_code = 302 => stream = <<>>

ImageInv ==
    body_cb = "flash" /\ ~error /\ pc # "main" =>
        Landed /\ (flaws = {} => AssetInv)

\* Only a reboot that is asked for promises an image.
LEMMA NotPending ==
    ASSUME Inv, pc # "main", reboot_pending' = reboot_pending
    PROVE  BootsAsset'
  BY DEF Inv, RomInv, BootsAsset

\* The writer stands still.
Stands == UNCHANGED <<romVars, fwVars, body_cb, remote_ver>>

\* What has landed stays where it is.
LEMMA StandsLanded == ASSUME Landed, Stands PROVE Landed'
<1>1. target' = target /\ Base(target') = Base(target)
  BY DEF Stands, romVars, target
<1>2. UNCHANGED <<flash, flash_offset, sector_buf, fw_error, input, stream>>
  BY DEF Stands, fwVars, writerVars
<1> QED
  BY <1>1, <1>2 DEF Landed, Lands, Written

\* The end of an update without a reboot, for the image.
LEMMA ReturnImage ==
    ASSUME Inv, Return, pc # "main" PROVE ImageInv' /\ BootsAsset'
<1>1. pc' = "main" /\ reboot_pending' = reboot_pending
  BY DEF Return, romVars
<1> QED
  BY <1>1, NotPending DEF ImageInv

\* The steps of https_get and https_get_follow.
LEMMA RequestImage ==
    ASSUME Inv, AskInv, ImageInv,
           \/ https_get \/ dns_found_cb \/ dns_timeout \/ http_wait
           \/ http_response
    PROVE  ImageInv' /\ BootsAsset'
<1>0. pc # "main"
  BY DEF https_get, dns_found_cb, dns_timeout, http_wait, http_response
<1>1. CASE Return
  BY <1>0, <1>1, ReturnImage
<1>2. CASE ~Return
  <2>1. Stands /\ flaws' = flaws /\ reply' = reply /\ stream' = stream
    <3>1. CASE http_response
      <4>1. UNCHANGED <<body_cb, remote_ver>>
        BY <3>1 DEF http_response, followVars
      <4> QED
        BY <3>1, <4>1 DEF http_response, Stands, netVars, fwVars
    <3> QED
      BY <1>2, <3>1 DEF https_get, dns_found_cb, dns_timeout, http_wait, Stands,
                        followVars, fwVars
  <2>2. BootsAsset'
    BY <1>0, <2>1, NotPending DEF Stands, romVars
  <2>3. SUFFICES ASSUME body_cb = "flash", ~error', pc' # "main"
                 PROVE  Landed' /\ (flaws = {} => AssetInv')
    BY <2>1, <2>2 DEF ImageInv, Stands
  <2>4. ~error
    <3>1. CASE http_wait
      BY <1>2, <3>1 DEF http_wait
    <3> QED
      BY <1>0, <1>2, <3>1 DEF https_get, dns_found_cb, dns_timeout, http_response,
                              AskInv, RequestInv
  <2>5. Landed /\ (flaws = {} => AssetInv)
    BY <1>0, <2>3, <2>4 DEF ImageInv
  <2>6. Landed'
    BY <2>1, <2>5, StandsLanded
  <2>7. ASSUME flaws = {} PROVE AssetInv'
    <3>1. CASE https_get
      <4>1. /\ pc = "url" /\ conn # "open" /\ conn # "closing"
            /\ pc' \in {"dns", "wait"} /\ conn' \in {conn, "connecting"}
        BY <1>2, <2>3, <3>1 DEF https_get, AskInv, RequestInv
      <4> QED
        BY <2>1, <2>5, <2>7, <4>1 DEF AssetInv
    <3>2. CASE dns_found_cb
      <4>1. pc = "dns" /\ pc' = "wait" /\ conn' = "connecting"
        BY <1>2, <3>2 DEF dns_found_cb
      <4> QED
        BY <2>1, <2>5, <2>7, <4>1 DEF AssetInv
    <3>3. CASE http_wait
      <4>1. /\ pc = "wait" /\ conn = "closing" /\ pc' = "response" /\ conn' = "none"
            /\ UNCHANGED <<status_code, remote_ver>>
        BY <1>2, <2>4, <3>3 DEF http_wait, ctxVars, headVars, followVars, AskInv,
                                RequestInv
      <4> QED
        BY <2>1, <2>5, <2>7, <4>1 DEF AssetInv
    <3>4. CASE http_response
      <4>1. /\ pc = "response" /\ conn' = conn /\ conn = "none"
            /\ UNCHANGED <<status_code, remote_ver>>
            /\ \/ pc' = "url" /\ status_code = 302
               \/ pc' \in {"release", "finish"}
        BY <3>4, <2>1 DEF http_response, netVars, headVars, Stands, AskInv, RequestInv,
                          Inv, TypeOK
      <4> QED
        BY <2>1, <2>5, <2>7, <4>1 DEF AssetInv
    <3> QED
      BY <1>2, <3>1, <3>2, <3>3, <3>4 DEF dns_timeout
  <2> QED
    BY <2>6, <2>7
<1> QED
  BY <1>1, <1>2

\* The answer to the download is the asset, or nothing that is kept as it.
LEMMA AnswerImage ==
    ASSUME Inv, AskInv, body_cb = "flash", pc = "wait", NEW r \in Answers,
           r.status = 200, r.fits
    PROVE  r.body = Asset[remote_ver] /\ Asset[remote_ver] \in Seq(Byte)
<1>1. url = "bin"
  BY DEF Inv, HttpInv, AskInv, ApiInv
<1>2. CASE r \in Detours
  BY <1>2, OtaAssumption
<1>3. CASE r \notin Detours
  <2>1. PICK v \in Versions \cap {remote_ver} : r = Page(Asset[v])
    BY <1>1, <1>3 DEF Answers
  <2> QED
    BY <2>1, OtaAssumption DEF Page
<1> QED
  BY <1>2, <1>3

\* The callbacks that take no data, and the clock.
LEMMA CallbackImage ==
    ASSUME Inv, AskInv, ImageInv,
           \/ http_connected_cb \/ http_recv_cb_closed \/ http_err_cb
           \/ DeadlinePasses
    PROVE  ImageInv' /\ BootsAsset'
<1>0. /\ pc # "main" /\ Stands /\ stream' = stream /\ pc' = pc
      /\ UNCHANGED <<status_code, remote_ver>>
  BY DEF http_connected_cb, http_recv_cb_closed, http_err_cb, DeadlinePasses,
         followVars, ctxVars, headVars, fwVars, Stands
<1>1. BootsAsset'
  BY <1>0, NotPending DEF Stands, romVars
<1>2. SUFFICES ASSUME body_cb = "flash", ~error'
               PROVE  Landed' /\ (flaws' = {} => AssetInv')
  BY <1>0, <1>1 DEF ImageInv, Stands
<1>3. ~error /\ flaws \subseteq flaws'
  BY <1>2 DEF http_connected_cb, http_recv_cb_closed, http_err_cb, DeadlinePasses,
              ctxVars, netVars
<1>4. Landed /\ (flaws = {} => AssetInv)
  BY <1>0, <1>2, <1>3 DEF ImageInv
<1>5. Landed'
  BY <1>0, <1>4, StandsLanded
<1>6. ASSUME flaws' = {} PROVE AssetInv'
  <2>0. AssetInv
    BY <1>3, <1>4, <1>6
  <2>1. CASE http_connected_cb
    <3>1. pc = "wait" /\ conn = "connecting" /\ conn' = "open" /\ reply' \in Answers
      BY <1>2, <2>1 DEF http_connected_cb
    <3>2. stream = <<>>
      BY <2>0, <3>1 DEF AssetInv
    <3>3. reply'.status = 200 /\ reply'.fits =>
             Asset[remote_ver] = stream \o reply'.body
      <4> SUFFICES ASSUME reply'.status = 200, reply'.fits
                   PROVE  Asset[remote_ver] = stream \o reply'.body
        OBVIOUS
      <4>1. reply'.body = Asset[remote_ver] /\ Asset[remote_ver] \in Seq(Byte)
        BY <1>2, <3>1, AnswerImage
      <4>2. \A t \in Seq(Byte) : <<>> \o t = t
        OBVIOUS
      <4> QED
        BY <3>2, <4>1, <4>2
    <3> QED
      BY <1>0, <3>1, <3>2, <3>3 DEF AssetInv
  <2>2. CASE http_recv_cb_closed
    <3>1. /\ pc = "wait" /\ conn = "open" /\ conn' = "closing" /\ reply' = reply
          /\ reply.status = 200 => reply.body = <<>>
      BY <1>2, <1>6, <2>2 DEF http_recv_cb_closed
    <3>2. status_code = 0 \/ (reply.fits /\ status_code = reply.status)
      BY <3>1 DEF AskInv, RequestInv
    <3>3. status_code = 200 => stream = Asset[remote_ver]
      <4>1. stream \in Seq(Byte)
        BY <1>4 DEF Landed
      <4>2. stream \o <<>> = stream
        BY <4>1
      <4> SUFFICES ASSUME status_code = 200 PROVE stream = Asset[remote_ver]
        OBVIOUS
      <4>3. reply.status = 200 /\ reply.fits /\ reply.body = <<>>
        BY <3>1, <3>2
      <4>4. Asset[remote_ver] = stream \o reply.body
        BY <2>0, <3>1, <4>3, Zenon DEF AssetInv
      <4> QED
        BY <4>2, <4>3, <4>4, Zenon
    <3>4. status_code = 302 => stream = <<>>
      BY <2>0, <3>1, <3>2 DEF AssetInv
    <3> QED
      BY <1>0, <3>1, <3>3, <3>4 DEF AssetInv
  <2>3. CASE DeadlinePasses
    BY <1>0, <2>0, <2>3 DEF DeadlinePasses, netVars, AssetInv
  <2>4. ~http_err_cb
    BY <1>2 DEF http_err_cb
  <2> QED
    BY <2>1, <2>2, <2>3, <2>4
<1> QED
  BY <1>5, <1>6

\* A piece of the download.
LEMMA DataImage ==
    ASSUME Inv, AskInv, ImageInv, http_recv_cb
    PROVE  ImageInv' /\ BootsAsset'
<1>1. /\ pc = "wait" /\ conn = "open" /\ input = <<>>
      /\ UNCHANGED <<romVars, pc, followVars, complete, error, late, conn>>
  BY Zenon DEF http_recv_cb
<1>2. PICK m \in (IF headers_done THEN 1 ELSE 0) .. Len(reply.body) :
          /\ process_data(SubSeq(reply.body, 1, m))
          /\ reply' = [reply EXCEPT !.body = SubSeq(@, m + 1, Len(@))]
  BY DEF http_recv_cb
<1>3. BootsAsset'
  BY <1>1, NotPending DEF romVars
<1>4. SUFFICES ASSUME body_cb = "flash", ~error
               PROVE  Landed' /\ (flaws' = {} => AssetInv')
  BY <1>1, <1>3 DEF ImageInv, followVars
<1>5. Landed /\ (flaws = {} => AssetInv)
  BY <1>1, <1>4 DEF ImageInv
<1>6. ~complete
  BY <1>1, <1>4 DEF AskInv, RequestInv
<1> DEFINE data == SubSeq(reply.body, 1, m)
           rest == SubSeq(reply.body, m + 1, Len(reply.body))
<1>7. /\ reply'.body = rest /\ reply'.fits = reply.fits
      /\ reply'.status = reply.status
  <2> HIDE DEF rest
  <2>1. reply = [status |-> reply.status, location |-> reply.location,
                 fits |-> reply.fits, body |-> reply.body]
    BY <1>1 DEF AskInv, RequestInv, ReplyRecord
  <2>2. reply' = [reply EXCEPT !.body = rest]
    BY <1>2 DEF rest
  <2> QED
    BY <2>1, <2>2
<1>8. reply.body \in Seq(Byte) /\ m \in 0 .. Len(reply.body)
  <2>1. reply.body \in Seq(Byte)
    BY <1>1, <1>4 DEF Inv, HttpInv, BodyOf
  <2> QED
    BY <1>2, <2>1
<1>9. /\ stream \in Seq(Byte)
      /\ (stream \o data) \o rest = stream \o reply.body /\ data \in Seq(Byte)
  BY <1>5, <1>8, Appended DEF Landed
<1>10. CASE UNCHANGED fwVars
  <2>1. Stands /\ stream' = stream
    BY <1>1, <1>10 DEF Stands, followVars, fwVars
  <2>2. Landed'
    BY <1>5, <2>1, StandsLanded
  <2>3. CASE ~reply.fits
    <3>1. flaws' = flaws
      BY <1>2, <2>3 DEF process_data, Ignored
    <3> QED
      BY <1>1, <1>5, <1>7, <2>1, <2>2, <2>3, <3>1 DEF AssetInv, followVars
  <2>4. CASE reply.fits
    <3>1. CASE data = <<>>
      <4>1. flaws' = flaws
        BY <1>2, <3>1 DEF process_data
      <4>2. m = 0
        BY <1>8, <3>1
      <4>3. rest = reply.body
        BY <1>8, <4>2
      <4> QED
        BY <1>1, <1>5, <1>7, <2>1, <2>2, <4>1, <4>3 DEF AssetInv, followVars
    <3>2. CASE data # <<>>
      <4>1. flash_write_call(data)
        BY <1>2, <1>4, <1>6, <2>4, <3>2 DEF process_data, Ignored
      <4>2. stream \o data = stream
        BY <2>1, <4>1 DEF flash_write_call
      <4> QED
        BY <1>9, <3>2, <4>2, ConcatSimplifications
    <3> QED
      BY <3>1, <3>2
  <2> QED
    BY <2>3, <2>4, <1>1 DEF AskInv, RequestInv, ReplyRecord
<1>11. CASE ~UNCHANGED fwVars
  <2>1. /\ flash_write_call(data) /\ ~Ignored /\ data # <<>>
        /\ flaws' = IF reply.status = 302 THEN flaws \cup {"redirect"} ELSE flaws
    BY <1>2, <1>11, Zenon DEF process_data
  <2>2. Landed'
    <3>1. target' = target /\ sector_buf \in Seq(Byte)
      BY <1>1 DEF romVars, target, Inv, WriterTypes
    <3> QED
      BY <1>1, <1>5, <1>8, <2>1, <3>1, ChunkLands
  <2>3. ASSUME flaws' = {} PROVE AssetInv'
    <3>1. flaws = {} /\ reply.status # 302 /\ reply.fits
      BY <2>1, <2>3 DEF Ignored
    <3>2. reply.status = 200 => Asset[remote_ver] = stream \o reply.body
      BY <1>1, <1>5, <3>1 DEF AssetInv
    <3>3. stream' = stream \o data
      BY <2>1 DEF flash_write_call
    <3> HIDE DEF data, rest
    <3>4. reply'.status = 200 => Asset[remote_ver'] = stream' \o reply'.body
      BY <1>1, <1>7, <1>9, <3>2, <3>3 DEF followVars
    <3> QED
      BY <1>1, <1>7, <3>1, <3>4 DEF AssetInv
  <2> QED
    BY <2>2, <2>3
<1> QED
  BY <1>10, <1>11

\* The end of a download: what has arrived whole is in the target.
LEMMA FinishImage ==
    ASSUME Inv, AskInv, ImageInv, finish_download
    PROVE  ImageInv' /\ BootsAsset'
<1>1. /\ pc = "finish" /\ pc' = "main" /\ body_cb = "flash" /\ input = <<>> /\ ~error
      /\ UNCHANGED <<running, remote_ver, flaws, stream>> /\ target' = target
  BY DEF finish_download, Inv, DownloadInv, AskInv, RequestInv, followVars, netVars,
         target
<1>2. ImageInv'
  BY <1>1 DEF ImageInv
<1> SUFFICES ASSUME reboot_pending', flaws = {}
             PROVE  Holds(target, Asset[remote_ver])'
  BY <1>1, <1>2 DEF BootsAsset
<1>3. Accepted /\ FlushSucceeds(sector_buf) /\ flash_writer_flush(sector_buf)
  BY DEF finish_download
<1>4. Landed /\ stream = Asset[remote_ver]
  BY <1>1, <1>3 DEF ImageInv, AssetInv, Accepted
<1> DEFINE n == Written(sector_buf, input)
<1>5. /\ n \in Nat /\ Len(stream) = n + Len(sector_buf) /\ Len(sector_buf) \in Nat
      /\ \A i \in 1 .. n : flash[Base(target) + i - 1] = stream[i]
      /\ Lands(sector_buf, input)
  <2>1. Len(stream) \in Nat /\ Len(sector_buf) \in Nat
    BY <1>4 DEF Landed, Inv, WriterTypes
  <2>2. Len(input) = 0
    BY <1>1
  <2> QED
    BY <1>4, <2>1, <2>2 DEF Landed, Lands, Written
<1>6. \A i \in 1 .. Len(stream) : flash'[Base(target) + i - 1] = stream[i]
  <2>1. CASE sector_buf = <<>>
    <3>1. flash' = flash /\ Len(sector_buf) = 0
      BY <1>3, <2>1 DEF flash_writer_flush
    <3> HIDE DEF n
    <3> QED
      BY <1>5, <3>1
  <2>2. CASE sector_buf # <<>>
    <3>1. SectorFits /\ flash' = Programmed(flash, flash_offset, sector_buf)
      BY <1>3, <2>2 DEF FlushSucceeds, flash_writer_flush
    <3>2. /\ sector_buf \in Seq(Byte) /\ input \in Seq(Byte) /\ flash \in [Addr -> Byte]
          /\ Len(sector_buf) <= SectorSize /\ target \in Partition
          /\ partition_end = Base(target) + Size
      BY <1>1, TargetIsOther DEF Inv, WriterTypes, TypeOK, DownloadInv
    <3> QED
      BY <1>5, <3>1, <3>2, SectorLands
  <2> QED
    BY <2>1, <2>2
<1> QED
  BY <1>1, <1>4, <1>6 DEF Holds, Base, First

\* A new release is to be written from the start of the target on.
LEMMA ReleaseImage ==
    ASSUME Inv, AskInv, check_release PROVE ImageInv' /\ BootsAsset'
<1>1. pc = "release" /\ input = <<>> /\ conn = "none"
  BY DEF check_release, Inv, DownloadInv, TypeOK, AskInv, RequestInv
<1>2. CASE Return
  BY <1>1, <1>2, ReturnImage
<1>3. CASE ~Return
  <2>1. /\ flash_writer_init(First(target) * SectorSize, PartitionSize(target))
        /\ https_get_follow("flash", find_bin_asset_url[1])
        /\ UNCHANGED <<romVars, ctxVars, late, conn, reply, flash, input>>
    BY <1>3, Zenon DEF check_release
  <2>2. /\ flash_offset' = Base(target) /\ sector_buf' = <<>> /\ fw_error' = FALSE
        /\ stream' = <<>> /\ pc' = "url" /\ conn' = "none" /\ input' = <<>>
        /\ target' = target /\ reboot_pending' = reboot_pending
    BY <1>1, <2>1 DEF flash_writer_init, https_get_follow, romVars, target, Base
  <2>3. target \in Partition /\ Base(target) \in Nat /\ Base(target') = Base(target)
    BY <2>2, TargetIsOther, Layout DEF Inv, TypeOK
  <2>4. Len(sector_buf') = 0 /\ Len(stream') = 0 /\ Len(input') = 0
        /\ stream' \in Seq(Byte)
    BY <2>2
  <2>5. Lands(sector_buf, input)'
    BY <2>2, <2>3, <2>4 DEF Lands, Written
  <2>6. Landed'
    BY <2>2, <2>4, <2>5, WriterAssumption DEF Landed
  <2>7. AssetInv'
    BY <2>2 DEF AssetInv
  <2>8. BootsAsset'
    BY <1>1, <2>2, NotPending
  <2> QED
    BY <2>6, <2>7, <2>8 DEF ImageInv
<1> QED
  BY <1>2, <1>3

\* The other steps: a boot, the start of a check, a round of the writer.
LEMMA OthersImage ==
    ASSUME Inv, AskInv, ImageInv,
           \/ ota_accept_current_image \/ ota_update_check_and_apply
           \/ body_callback \/ Rom
    PROVE  ImageInv' /\ BootsAsset'
<1>1. CASE ota_accept_current_image
  <2>1. pc = "boot" /\ body_cb' = body_cb /\ reboot_pending' = reboot_pending
    BY <1>1 DEF ota_accept_current_image, followVars
  <2>2. body_cb # "flash"
    BY <2>1 DEF Inv, RomInv
  <2> QED
    BY <2>1, <2>2, NotPending DEF ImageInv
<1>2. CASE ota_update_check_and_apply
  <2>1. CASE Return
    BY <1>2, <2>1, ReturnImage DEF ota_update_check_and_apply
  <2>2. CASE ~Return
    <3>1. pc = "check" /\ body_cb' = "api_buf" /\ reboot_pending' = reboot_pending
      BY <1>2, <2>2 DEF ota_update_check_and_apply, https_get_follow, romVars
    <3> QED
      BY <3>1, NotPending DEF ImageInv
  <2> QED
    BY <2>1, <2>2
<1>3. CASE body_callback
  <2>1. /\ pc = "wait" /\ body_cb = "flash" /\ ~error /\ stream' = stream
        /\ UNCHANGED <<romVars, pc, followVars, status_code, conn, reply, flaws>>
    BY <1>3 DEF body_callback, flash_write_cb, Inv, DownloadInv, AskInv, RequestInv,
                headVars, netVars
  <2>2. Landed /\ (flaws = {} => AssetInv)
    BY <2>1 DEF ImageInv
  <2>3. ~error' => Landed'
    BY <1>3, <2>2, WriteLands
  <2>4. AssetInv => AssetInv'
    BY <2>1 DEF AssetInv, followVars
  <2>5. BootsAsset'
    BY <2>1, NotPending DEF romVars
  <2> QED
    BY <2>1, <2>2, <2>3, <2>4, <2>5 DEF ImageInv
<1>4. CASE Rom
  <2>1. body_cb' = "api_buf" /\ reboot_pending' = FALSE
    BY <1>4 DEF Rom, FlashUpdateBoot, Reset, MemoryLost
  <2> QED
    BY <2>1 DEF ImageInv, BootsAsset
<1> QED
  BY <1>1, <1>2, <1>3, <1>4

\* Every step keeps the image.
LEMMA NextImage ==
    ASSUME Inv, AskInv, ImageInv, BootsAsset, [Next]_vars
    PROVE  ImageInv' /\ BootsAsset'
<1>1. CASE UNCHANGED vars
  <2>1. /\ Stands /\ UNCHANGED <<pc, error, conn, reply, status_code, flaws, stream>>
    BY <1>1 DEF vars, Stands, followVars, ctxVars, headVars, netVars, fwVars
  <2>2. Landed => Landed'
    BY <2>1, StandsLanded
  <2>3. AssetInv => AssetInv'
    BY <2>1 DEF AssetInv, Stands
  <2>4. BootsAsset'
    <3>1. UNCHANGED <<reboot_pending, flaws, running, remote_ver, flash>>
      BY <2>1 DEF Stands, romVars, fwVars
    <3> QED
      BY <3>1 DEF BootsAsset, Holds, target
  <2> QED
    BY <2>1, <2>2, <2>3, <2>4 DEF ImageInv, Stands
<1>2. CASE Next
  BY <1>2, RequestImage, CallbackImage, DataImage, FinishImage, ReleaseImage,
     OthersImage DEF Next, Main, Network
<1> QED
  BY <1>1, <1>2

\* What is booted is the whole asset of the release that was downloaded.
THEOREM BootsTheAsset == Spec => []BootsAsset
<1>1. Init => ImageInv /\ BootsAsset
  BY DEF Init, ImageInv, BootsAsset
<1>2. Inv /\ AskInv /\ ImageInv /\ BootsAsset /\ [Next]_vars
         => ImageInv' /\ BootsAsset'
  BY NextImage
<1> QED
  BY <1>1, <1>2, AskHolds, PTL DEF Spec

=============================================================================
