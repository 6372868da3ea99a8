---------------------------- MODULE TokenAmount ----------------------------
(***************************************************************************)
(* parseTokenAmount and formatTokenAmount of packages/web/ui/src/amount.ts *)
(* as an input field uses them: what is typed becomes base units, and base *)
(* units are shown.  A text is told by its digits, or by why it has none.  *)
(***************************************************************************)
EXTENDS Integers, Sequences, SequencesExt, FiniteSetsExt, Powers

CONSTANTS
  Typed,       \* the texts of digits: [whole, frac], sequences of 0 .. 9
  Decimals,    \* the tokens' scales; outside 0 .. 255 refused
  MaxAmount,   \* options.max; MAX_U128 in the code
  Balances,    \* base units shown that nobody typed, negative ones too
  MaxDigits    \* bound of the digits of a number

Digit == 0 .. 9

ASSUME AmountAssumption ==
  /\ \A t \in Typed : t.whole \in Seq(Digit) /\ t.frac \in Seq(Digit)
  /\ Decimals \subseteq Int /\ Balances \subseteq Int
  /\ MaxDigits \in Nat \ {0} /\ MaxAmount \in Nat /\ MaxAmount < Pow(10, MaxDigits)

VARIABLE field   \* [decimals, text, result, shown]

Nothing == [whole |-> << >>, frac |-> << >>, form |-> "empty"]
Garbled == [Nothing EXCEPT !.form = "garbled"]
Number(whole, frac) == [whole |-> whole, frac |-> frac, form |-> "number"]

NotShown == [negative |-> FALSE, whole |-> << >>, frac |-> << >>]
Untouched == [decimals |-> 0, text |-> Nothing, result |-> [kind |-> "none", value |-> 0], shown |-> NotShown]

AmountInit == field = Untouched

-----------------------------------------------------------------------------
\* BigInt(digits)
Numeral(digits) ==
  LET n[k \in 0 .. Len(digits)] == IF k = 0 THEN 0 ELSE 10 * n[k - 1] + digits[k]
  IN n[Len(digits)]

\* n.toString()
DigitsOf(n) ==
  LET length == Min({k \in 1 .. MaxDigits : n < Pow(10, k)})
  IN [i \in 1 .. length |-> (n \div Pow(10, length - i)) % 10]

Zeros(n) == [i \in 1 .. n |-> 0]

\* Fault: the fraction is read as it was typed.
padEndNot(digits, n) == digits

padEnd(digits, n) == digits \o Zeros(n - Len(digits))
padStart(digits, n) == Zeros(n - Len(digits)) \o digits

\* replace(/0+$/, "")
TrimZeros(digits) ==
  SubSeq(digits, 1, Max({0} \cup {i \in DOMAIN digits : digits[i] # 0}))

Refusal(kind) == [kind |-> kind, value |-> 0]

parseTokenAmount(text, decimals) ==
  LET value == Numeral(text.whole) * Pow(10, decimals)
               + (IF text.frac = << >> THEN 0 ELSE Numeral(padEnd(text.frac, decimals)))
  IN CASE decimals \notin 0 .. 255 -> Refusal("invalid-decimals")
       [] decimals \in 0 .. 255 /\ text.form = "empty" -> Refusal("empty")
       [] decimals \in 0 .. 255 /\ text.form = "garbled" -> Refusal("not-a-number")
       [] OTHER ->
          IF Len(text.frac) > decimals THEN Refusal("too-many-fractional-digits")
          ELSE IF value <= 0 THEN Refusal("not-positive")
          ELSE IF value > MaxAmount THEN Refusal("exceeds-max")
          ELSE [kind |-> "ok", value |-> value]

\* The separator: a character that is no digit.
Comma == 10

\* A comma before every third digit from the right, but the first.
addThousandsSeparators(digits) ==
  FlattenSeq([i \in DOMAIN digits |->
    IF i > 1 /\ (Len(digits) - i + 1) % 3 = 0 THEN <<Comma, digits[i]>> ELSE <<digits[i]>>])

formatTokenAmount(value, decimals) ==
  LET abs == IF value < 0 THEN -value ELSE value
      base == Pow(10, decimals)
  IN [negative |-> value < 0,
      whole |-> addThousandsSeparators(DigitsOf(abs \div base)),
      frac |-> IF decimals > 0 THEN TrimZeros(padStart(DigitsOf(abs % base), decimals)) ELSE << >>]

-----------------------------------------------------------------------------
\* The form parses what was typed; what it accepts is shown.
Submit(text, decimals) ==
  LET result == parseTokenAmount(text, decimals)
  IN field' = [decimals |-> decimals, text |-> text, result |-> result,
               shown |-> IF result.kind = "ok" THEN formatTokenAmount(result.value, decimals)
                         ELSE NotShown]

\* A balance is shown that comes from the chain.
ShowBalance(value, decimals) ==
  /\ decimals \in 0 .. 255
  /\ field' = [decimals |-> decimals, text |-> Nothing,
               result |-> [kind |-> "balance", value |-> value],
               shown |-> formatTokenAmount(value, decimals)]

AmountNext ==
  \/ field = Untouched /\ \E decimals \in Decimals :
       \/ \E t \in Typed : Submit(Number(t.whole, t.frac), decimals)
       \/ \E text \in {Nothing, Garbled} : Submit(text, decimals)
       \/ \E value \in Balances : ShowBalance(value, decimals)
  \/ field # Untouched /\ UNCHANGED field

AmountSpec == AmountInit /\ [][AmountNext]_field

-----------------------------------------------------------------------------
\* The text that is shown, without its separators, as someone would type it.
WithoutCommas(s) ==
  LET w[k \in 0 .. Len(s)] ==
        IF k = 0 THEN << >> ELSE IF s[k] = Comma THEN w[k - 1] ELSE Append(w[k - 1], s[k])
  IN w[Len(s)]
Retyped == Number(WithoutCommas(field.shown.whole), field.shown.frac)

\* The base units are the typed decimal times the scale, exactly; and every
\* amount above zero that is shown, typed or not, is read back to the same base
\* units and shown without superfluous zeros.
AmountRoundTrip ==
  LET r == field.result
      t == field.text
  IN /\ r.kind = "ok" =>
          r.value * Pow(10, Len(t.frac)) = Numeral(t.whole \o t.frac) * Pow(10, field.decimals)
     /\ r.kind \in {"ok", "balance"} /\ r.value \in 1 .. MaxAmount =>
          /\ parseTokenAmount(Retyped, field.decimals) = [kind |-> "ok", value |-> r.value]
          /\ Retyped.frac # << >> => Last(Retyped.frac) # 0
          /\ Len(Retyped.whole) > 1 => Head(Retyped.whole) # 0
=============================================================================
