---------------------------- MODULE MCAlgorithms ----------------------------
(***************************************************************************)
(* The pure algorithms of the repository on bounded inputs: each step      *)
(* chooses one input of one algorithm, the invariants compare the result   *)
(* with the reference definition.                                          *)
(***************************************************************************)
EXTENDS Ipv4Check, GrisuDigits, EmitDigits, PatchResolve

CONSTANTS
  MaxWidth,        \* bound: the width of an interval
  MaxExponent      \* bound: decimal exponents

\* Some of the inputs name three features; the exponents are those of a double.
ASSUME BoundsAssumption == Features >= 3 /\ MaxWidth \in Nat /\ MaxExponent \in 110..330

VARIABLES kind, input

vars == <<kind, input>>

-----------------------------------------------------------------------------
(* Inputs. *)

\* Parts of an address: octets, and what is almost one.
PartTexts == {<<>>, <<0>>, <<7>>, <<0, 1>>, <<9, 9>>, <<2, 5, 5>>, <<2, 5, 6>>,
              <<1, 0, 0, 0>>, <<1, Other>>}

ChooseAddress ==
  /\ kind = "start" /\ kind' = "address"
  /\ \E n \in 1..5 : \E fixed \in [1..n -> {<<7>>, <<2, 5, 5>>}], i \in 1..n,
        part \in PartTexts, last \in {<<>>, <<0>>} :
       input' = [parts |-> [[fixed EXCEPT ![i] = part] EXCEPT ![n] =
                              IF i = n THEN part ELSE IF last = <<>> THEN last ELSE @]]

\* Three numbers as get_normalized_boundaries() gives them, w inside the interval.
ChooseNumber ==
  /\ kind = "start" /\ kind' = "number"
  /\ \E upper \in 2..(Tens[Kappa] * One - 1), width \in 2..MaxWidth :
       /\ width < upper
       /\ \E w \in {upper - width + 1, upper - width \div 2, upper - 1} :
            input' = [w |-> w, upper |-> upper, lower |-> upper - width]

\* Digits in three patterns, of the lengths and exponents a double can have.
ChooseDigits ==
  /\ kind = "start" /\ kind' = "digits"
  /\ \E n \in {1, 2, 3, 8, 16, 17}, zeros \in 0..2, neg \in BOOLEAN,
        K \in -25..25 \union {-MaxExponent, -110, -100, -99, 90, 99, 100, 105, MaxExponent} :
       /\ zeros < n
       /\ input' = [digits |-> [i \in 1..n |-> IF i > n - zeros THEN "0" ELSE Digit((i % 9) + 1)],
                    K |-> K, neg |-> neg]

\* Manifests in which up to every feature depends on up to two others, itself or a name
\* without a directory, and at most one pair conflicts; requests of up to two names.
DependsTexts == {<<>>} \union {<<a>> : a \in Name} \union {<<2, 1>>, <<1, 3>>, <<2, 3>>}

ChooseFeatures ==
  /\ kind = "start" /\ kind' = "features"
  /\ \E keys \in SUBSET Feature :
     \E deps \in [keys -> DependsTexts], pair \in {<<1, 1>>, <<1, 2>>, <<3, 1>>},
        request \in {<<>>, <<0>>, <<1>>, <<3>>, <<2, 1>>, <<1, 3>>, <<3, 0>>} :
       input' = [depends |-> deps, request |-> request,
                 conflicts |-> [f \in Name |-> IF f = pair[1] THEN {pair[2]} \ {f} ELSE {}]]

Init == kind = "start" /\ input = <<>>

Next == ChooseAddress \/ ChooseNumber \/ ChooseDigits \/ ChooseFeatures

Spec == Init /\ [][Next]_vars

-----------------------------------------------------------------------------
(* Properties. *)

\* isValidIpv4() accepts exactly the empty text and dotted quads, and one text more: three
\* octets and a dot, because the loop ends with the text and only dots are counted.
AcceptsDottedQuads ==
  kind = "address" =>
    (isValidIpv4(Joined(input.parts))
       <=> \/ DottedQuad(input.parts) \/ TrailingDot(input.parts)
           \/ Joined(input.parts) = <<>>)

\* generate_digits() yields decimal digits (the decrements of round_digit() never take
\* the last one below zero), no leading zero, and the shortest number in the interval,
\* of these the closest to w. Behind the point a shorter number goes unnoticed if it is
\* exactly the lower end.
ShortestDigits ==
  kind = "number" =>
    LET r == GenerateDigits(input.w, input.upper, input.lower) IN
    /\ \A i \in DOMAIN r.digits : r.digits[i] \in 0..9
    /\ r.digits # <<>> /\ Head(r.digits) # 0
    /\ IsShortest(Value(r.digits), r.kappa, input.w, input.upper, input.lower)

\* What emit_digits() writes is read back as the same number, in each of its three forms,
\* and fits the 24 characters of fpconv_dtoa() with its sign; except that a negative
\* integer of 17 digits and 7 zeros takes one more.
TextReadsBack ==
  kind = "digits" =>
    LET text == emit_digits(input.digits, input.K, input.neg)
        sign == IF input.neg THEN 1 ELSE 0 IN
    /\ Read(text) = Stripped(input.digits, input.K)
    /\ Len(text) + sign <= 24 \/ (input.neg /\ Len(input.digits) = 17 /\ input.K = 7)

\* A series is refused for a cycle exactly if a feature asked for leads into one; every
\* feature asked for comes after all it needs, once; no two of the series conflict; and
\* without depends the series holds what was asked for and nothing else.
SeriesInOrder ==
  kind = "features" => InOrder(input.depends, input.conflicts, input.request)
=============================================================================
