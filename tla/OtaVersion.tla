----------------------------- MODULE OtaVersion -----------------------------
(***************************************************************************)
(* Version numbers, firmware/src/ota_version.c: pure operators.  A text is *)
(* the sequence of its characters.                                         *)
(***************************************************************************)
EXTENDS Integers, Sequences

Text == Seq(STRING)

UINT16_MAX == 65535
U16 == 0 .. UINT16_MAX

Version == [major : U16, minor : U16, patch : U16]

V(a, b, c) == [major |-> a, minor |-> b, patch |-> c]

\* Where parse_u16 and ota_version_parse return false.
NoNumber == -1
NoVersion == V(NoNumber, NoNumber, NoNumber)

-----------------------------------------------------------------------------
Numeral == <<"0", "1", "2", "3", "4", "5", "6", "7", "8", "9">>
IsDigit(c) == \E n \in 0 .. 9 : Numeral[n + 1] = c
Value(c) == CHOOSE n \in 0 .. 9 : Numeral[n + 1] = c

\* The value of a text of digits.
Decimal(digits) ==
    LET upTo[n \in 0 .. Len(digits)] ==
            IF n = 0 THEN 0 ELSE 10 * upTo[n - 1] + Value(digits[n])
    IN  upTo[Len(digits)]

\* How many digits a text starts with.
Digits(s) ==
    CHOOSE n \in 0 .. Len(s) :
        /\ \A i \in 1 .. n : IsDigit(s[i])
        /\ n < Len(s) => ~IsDigit(s[n + 1])

\* Faulty variant: the value is cut to sixteen bits.
Kept_cut(value) == value % 65536

\* A value of more than sixteen bits is refused.
Kept(value) == IF value \in U16 THEN value ELSE NoNumber

\* The number a text starts with, and what follows it.
parse_u16[s \in Text] ==
    LET n == Digits(s)
        value == IF n = 0 THEN NoNumber ELSE Kept(Decimal(SubSeq(s, 1, n)))
    IN  [value |-> value,
         rest  |-> IF value = NoNumber THEN <<>> ELSE SubSeq(s, n + 1, Len(s))]

\* What follows a dot, nothing if there is none.
AfterDot[s \in Text] == IF s # <<>> /\ Head(s) = "." THEN Tail(s) ELSE <<>>

Prefixed(s) == s # <<>> /\ Head(s) \in {"v", "V"}

\* An optional v, three numbers with dots between them, and any suffix.
ota_version_parse(str) ==
    LET major == parse_u16[IF Prefixed(str) THEN Tail(str) ELSE str]
        minor == parse_u16[AfterDot[major.rest]]
        patch == parse_u16[AfterDot[minor.rest]]
    IN  IF patch.value = NoNumber THEN NoVersion
        ELSE V(major.value, minor.value, patch.value)

\* The same said of the whole text, without a parser: it is h characters of
\* prefix, three numbers up to i, j and k, and a suffix that goes on with no
\* digit.
Means(str, v) ==
    \E i, j, k \in 1 .. Len(str) :
        LET h == IF Prefixed(str) THEN 1 ELSE 0
            Number(first, last, n) ==
                /\ first <= last
                /\ \A l \in first .. last : IsDigit(str[l])
                /\ Decimal(SubSeq(str, first, last)) = n
        IN  /\ Number(h + 1, i, v.major)
            /\ Number(i + 2, j, v.minor)
            /\ Number(j + 2, k, v.patch)
            /\ str[i + 1] = "." /\ str[j + 1] = "."
            /\ k < Len(str) => ~IsDigit(str[k + 1])

-----------------------------------------------------------------------------
\* Faulty variant: only greater fields are looked at.
ota_version_compare_greater_only(a, b) ==
    IF a.major > b.major \/ a.minor > b.minor \/ a.patch > b.patch THEN 1
    ELSE IF a = b THEN 0 ELSE -1

\* -1, 0 or 1 as a is older than, as old as or newer than b.
ota_version_compare(a, b) ==
    CASE a.major # b.major -> IF a.major > b.major THEN 1 ELSE -1
      [] a.major = b.major /\ a.minor # b.minor ->
            IF a.minor > b.minor THEN 1 ELSE -1
      [] a.major = b.major /\ a.minor = b.minor /\ a.patch # b.patch ->
            IF a.patch > b.patch THEN 1 ELSE -1
      [] OTHER -> 0

\* The order of versions as their authors mean it.
Precedes(a, b) ==
    \/ a.major < b.major
    \/ a.major = b.major /\ a.minor < b.minor
    \/ a.major = b.major /\ a.minor = b.minor /\ a.patch < b.patch

=============================================================================
