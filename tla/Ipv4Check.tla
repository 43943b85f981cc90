------------------------------ MODULE Ipv4Check ------------------------------
(***************************************************************************)
(* checkIpv4() and isValidIpv4(): what is accepted as dtoe-ip.  A text is  *)
(* a sequence of characters: digits are themselves, and there is the dot   *)
(* and one other character.                                                *)
(***************************************************************************)
EXTENDS Integers, Sequences, SequencesExt

Dot == 10
Other == 11
IsDigit(c) == c \in 0..9

\* The number of digits of ip from p on.
DigitsAt(ip, p) ==
  CHOOSE n \in 0..(Len(ip) + 1 - p) :
    /\ \A i \in p..(p + n - 1) : IsDigit(ip[i])
    /\ p + n <= Len(ip) => ~IsDigit(ip[p + n])

Number(digits) == FoldLeft(LAMBDA num, d : num * 10 + d, 0, digits)

\* (variant: leading zeros are accepted)
PartLoose(digits) == Len(digits) \in 1..3 /\ Number(digits) <= 255

\* A part between dots: at most three digits, at most 255, no leading zero.
Part(digits) ==
  Len(digits) \in 1..3 /\ Number(digits) <= 255 /\ (Len(digits) > 1 => digits[1] # 0)

\* The variables of the loop of checkIpv4().
LoopState(ip) == [p : 1..(Len(ip) + 1), dots : Nat]

\* One round, for a part: what the loop returns from s, if it returns rest[t] from t.
Round(ip, rest, s) ==
  IF s.p > Len(ip) THEN s.dots = 3
  ELSE LET q == s.p + DigitsAt(ip, s.p) IN
       /\ Part(SubSeq(ip, s.p, q - 1))
       /\ IF q > Len(ip) THEN s.dots = 3
          ELSE ip[q] = Dot /\ rest[[p |-> q + 1, dots |-> s.dots + 1]]

checkIpv4(ip) ==
  LET from[s \in LoopState(ip)] == Round(ip, from, s) IN from[[p |-> 1, dots |-> 0]]

isValidIpv4(ip) == ip = <<>> \/ checkIpv4(ip)

-----------------------------------------------------------------------------
(* The reference: four octets in decimal, joined by dots. *)

Octets == {<<a>> : a \in 0..9} \union {<<a, b>> : a \in 1..9, b \in 0..9}
            \union {<<1, a, b>> : a, b \in 0..9} \union {<<2, a, b>> : a \in 0..4, b \in 0..9}
            \union {<<2, 5, a>> : a \in 0..5}

\* The text of the parts, of which there is one at least, joined by dots.
Joined(parts) ==
  FoldLeft(LAMBDA text, part : text \o <<Dot>> \o part, Head(parts), Tail(parts))

DottedQuad(parts) == Len(parts) = 4 /\ \A i \in 1..4 : parts[i] \in Octets

\* Three octets, each with a dot after it.
TrailingDot(parts) ==
  Len(parts) = 4 /\ (\A i \in 1..3 : parts[i] \in Octets) /\ parts[4] = <<>>
=============================================================================
