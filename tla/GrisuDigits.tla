----------------------------- MODULE GrisuDigits -----------------------------
(***************************************************************************)
(* generate_digits() and round_digit() of fpconv_dtoa.c: upper, lower and  *)
(* w are integers that stand for themselves divided by One.                *)
(***************************************************************************)
EXTENDS Integers, Sequences, SequencesExt

CONSTANTS
  One,             \* bound: one.frac, a power of two
  Kappa            \* bound: decimal digits of the integral part (10 in the code)

ASSUME GrisuAssumption == {One, Kappa} \subseteq Nat \ {0}

\* The powers of ten, in order.
Tens[n \in Nat] == IF n = 0 THEN 1 ELSE 10 * Tens[n - 1]

\* (variant: the remainder is not compared with the interval)
RoundsPast(delta, rem, kappa, frac) ==
  rem < frac /\ (rem + kappa < frac \/ frac - rem > rem + kappa - frac)

\* The condition of the loop in round_digit().
Rounds(delta, rem, kappa, frac) ==
  rem < frac /\ delta - rem >= kappa /\ (rem + kappa < frac \/ frac - rem > rem + kappa - frac)

\* round_digit(): how often the last digit is decremented.
Decrements(delta, rem, kappa, frac) ==
  CHOOSE n \in 0..(frac \div kappa + 1) :
    /\ ~Rounds(delta, rem + n * kappa, kappa, frac)
    /\ \A i \in 0..(n - 1) : Rounds(delta, rem + i * kappa, kappa, frac)

\* digits[idx++] = digit, except for leading zeros.
Pushed(digits, digit) == IF digit # 0 \/ digits # <<>> THEN Append(digits, digit) ELSE digits

Finished(digits, kappa, n) ==
  [digits |-> [digits EXCEPT ![Len(digits)] = @ - n], kappa |-> kappa]

\* A round of the first loop, with kappa digits of part1 left after it.
Integral(st, kappa) ==
  [st EXCEPT !.digits = Pushed(@, st.part1 \div Tens[kappa]), !.part1 = @ % Tens[kappa]]

\* A round of the second loop.
Fractional(st) ==
  [st EXCEPT !.digits = Pushed(@, (st.part2 * 10) \div One), !.part2 = (@ * 10) % One]

\* What the rounds make of upper, the first Kappa of them in the first loop.
Generated(upper) ==
  LET after[n \in Nat] ==
        IF n = 0 THEN [digits |-> <<>>, part1 |-> upper \div One, part2 |-> upper % One]
        ELSE IF n <= Kappa THEN Integral(after[n - 1], Kappa - n)
        ELSE Fractional(after[n - 1]) IN
  after

\* What is left of upper, and whether this is the last round.
Left(st) == st.part1 * One + st.part2

Stops(st, n, delta) ==
  IF n <= Kappa THEN Left(st) <= delta ELSE st.part2 < delta * Tens[n - Kappa]

LastRound(after, delta) ==
  CHOOSE n \in 1..(Kappa + One) :
    Stops(after[n], n, delta) /\ \A k \in 1..(n - 1) : ~Stops(after[k], k, delta)

\* The digits and the exponent of the last of them.
GenerateDigits(w, upper, lower) ==
  LET wfrac == upper - w
      delta == upper - lower
      n == LastRound(Generated(upper), delta)
      st == Generated(upper)[n] IN
  Finished(st.digits, Kappa - n,
           IF n <= Kappa THEN Decrements(delta, Left(st), Tens[Kappa - n] * One, wfrac)
           ELSE Decrements(delta * Tens[n - Kappa], st.part2, One, wfrac * Tens[n - Kappa]))

-----------------------------------------------------------------------------
(* The reference. *)

\* m * Unit(kappa) stands for m * 10^kappa where Scaled(x, kappa) stands for x.
Unit(kappa) == IF kappa >= 0 THEN Tens[kappa] * One ELSE One
Scaled(x, kappa) == IF kappa >= 0 THEN x ELSE x * Tens[-kappa]

\* The multiples of 10^kappa in the interval; behind the point those at its lower end go
\* unnoticed, although round_digit() may step onto it.
Multiples(upper, lower, kappa) ==
  {m \in (Scaled(lower, kappa) \div Unit(kappa))..(Scaled(upper, kappa) \div Unit(kappa)) :
     Scaled(lower, kappa) <= m * Unit(kappa)}

Noticed(upper, lower, kappa) ==
  {m \in Multiples(upper, lower, kappa) : kappa >= 0 \/ Scaled(lower, kappa) < m * Unit(kappa)}

Distance(a, b) == IF a < b THEN b - a ELSE a - b

\* The shortest: the greatest kappa with a multiple of 10^kappa in the interval; of all
\* these multiples the one closest to w, the larger of two.
IsShortest(m, kappa, w, upper, lower) ==
  LET away(n) == Distance(n * Unit(kappa), Scaled(w, kappa)) IN
  /\ m \in Multiples(upper, lower, kappa)
  /\ \A k \in (kappa + 1)..(Kappa - 1) : Noticed(upper, lower, k) = {}
  /\ \A n \in Multiples(upper, lower, kappa) :
       away(m) < away(n) \/ (away(m) = away(n) /\ n <= m)

Value(digits) == FoldLeft(LAMBDA num, d : num * 10 + d, 0, digits)
=============================================================================
