------------------------------ MODULE TextTime ------------------------------
(***************************************************************************)
(* Times as the tables hold them.  formatTime writes RFC3339Nano text: the *)
(* trailing zeros of the fraction are trimmed and a whole second has no    *)
(* fraction at all.  SQL then compares that text byte by byte.             *)
(***************************************************************************)
EXTENDS Naturals, Sequences

CONSTANT Base \* the digits of a fraction are below Base (10 in the code)

ASSUME BaseAssumption == Base \in Nat \ {0, 1}

Digit == 0 .. Base - 1

\* Two digits of fraction stand for the nine of a nanosecond: enough for no fraction, a
\* fraction that is a prefix of another, and one of full length.
Times == [second : Nat, tenth : Digit, hundredth : Digit]

IsWhole(t) == t.tenth = 0 /\ t.hundredth = 0

\* time.Time.Before.
Before(s, t) ==
  \/ s.second < t.second
  \/ s.second = t.second /\ s.tenth < t.tenth
  \/ s.second = t.second /\ s.tenth = t.tenth /\ s.hundredth < t.hundredth

NotAfter(s, t) == ~Before(t, s)

\* time.Time.Add of a whole number of seconds.
AddSeconds(t, n) == [t EXCEPT !.second = @ + n]

\* The bytes, in the order ASCII gives them: '.', the digits, 'Z'.
Dot == 0
DigitByte(d) == d + 1
Zulu == Base + 1

\* Everything up to the seconds has fixed width and orders as the number does.
formatTime(t) ==
  <<t.second>> \o
  (CASE IsWhole(t) -> <<Zulu>>
     [] ~IsWhole(t) /\ t.hundredth = 0 -> <<Dot, DigitByte(t.tenth), Zulu>>
     [] t.hundredth # 0 -> <<Dot, DigitByte(t.tenth), DigitByte(t.hundredth), Zulu>>)

\* `<` on text: the first byte that differs decides; no text is a prefix of another.
TextLess(a, b) ==
  \E i \in (1 .. Len(a)) \cap (1 .. Len(b)) :
    a[i] < b[i] /\ \A j \in 1 .. i - 1 : a[j] = b[j]

TextBefore(s, t) == TextLess(formatTime(s), formatTime(t))

TextNotAfter(s, t) == ~TextBefore(t, s)

=============================================================================
