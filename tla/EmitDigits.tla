----------------------------- MODULE EmitDigits -----------------------------
(***************************************************************************)
(* emit_digits() of fpconv_dtoa.c: digits times 10^K as text, a sequence   *)
(* of characters, and what a reader of the text takes it for.              *)
(***************************************************************************)
EXTENDS Integers, Sequences, SequencesExt

Char == <<"0", "1", "2", "3", "4", "5", "6", "7", "8", "9">>
Digit(n) == Char[n + 1]
Zeros(n) == [i \in 1..n |-> "0"]
Abs(n) == IF n < 0 THEN -n ELSE n
First(s, n) == SubSeq(s, 1, n)
Rest(s, n) == SubSeq(s, n + 1, Len(s))

\* (variant: no zero between the hundreds and the units of an exponent)
ExponentDropsZero(exp) ==
  (IF exp > 99 THEN <<Digit(exp \div 100)>> ELSE <<>>)
    \o (IF exp % 100 > 9 THEN <<Digit((exp % 100) \div 10)>> ELSE <<>>)
    \o <<Digit(exp % 10)>>

\* The digits of the exponent, at least one.
Exponent(exp) ==
  (IF exp > 99 THEN <<Digit(exp \div 100)>> ELSE <<>>)
    \o (IF exp > 9 THEN <<Digit((exp % 100) \div 10)>> ELSE <<>>)
    \o <<Digit(exp % 10)>>

emit_digits(digits, K, neg) ==
  LET ndigits == Len(digits)
      exp == Abs(K + ndigits - 1)
      offset == ndigits - Abs(K)
      limit == IF neg THEN 17 ELSE 18
      kept == IF ndigits > limit THEN limit ELSE ndigits IN
  IF K >= 0 /\ exp < ndigits + 7 THEN digits \o Zeros(K)
  ELSE IF K < 0 /\ (K > -7 \/ exp < 4)
  THEN IF offset <= 0 THEN <<"0", ".">> \o Zeros(-offset) \o digits
       ELSE First(digits, offset) \o <<".">> \o Rest(digits, offset)
  ELSE <<digits[1]>> \o (IF kept > 1 THEN <<".">> \o SubSeq(digits, 2, kept) ELSE <<>>)
         \o <<"e", IF K + kept - 1 < 0 THEN "-" ELSE "+">> \o Exponent(exp)

-----------------------------------------------------------------------------
(* The reference: reading a decimal number. *)

Position(text, c) == IF Contains(text, c) THEN CHOOSE i \in DOMAIN text : text[i] = c
                     ELSE Len(text) + 1

Natural(text) ==
  FoldLeft(LAMBDA n, c : n * 10 + (CHOOSE d \in 0..9 : Digit(d) = c), 0, text)

\* A number as its digits without zeros at either end and the exponent of the last.
Stripped(digits, exponent) ==
  LET nonzero == {i \in DOMAIN digits : digits[i] # "0"}
      from == CHOOSE i \in nonzero : \A j \in nonzero : i <= j
      to == CHOOSE i \in nonzero : \A j \in nonzero : j <= i IN
  [digits |-> SubSeq(digits, from, to), exponent |-> exponent + Len(digits) - to]

Read(text) ==
  LET e == Position(text, "e")
      mantissa == First(text, e - 1)
      point == Position(mantissa, ".")
      fraction == Rest(mantissa, point)
      tail == Rest(text, e)
      exponent == IF tail = <<>> THEN 0
                  ELSE IF tail[1] = "-" THEN -Natural(Tail(tail)) ELSE Natural(Tail(tail)) IN
  Stripped(First(mantissa, point - 1) \o fraction, exponent - Len(fraction))
=============================================================================
