------------------------------- MODULE Digits -------------------------------
(***************************************************************************)
(* Numbers and their digits in any base, the highest digit first: of the     *)
(* hexadecimal sizes of V1 and of the base64 of tokens.                      *)
(***************************************************************************)
EXTENDS Naturals, Sequences

NumberOf(digits, base) ==
  LET value[n \in 0..Len(digits)] ==
        IF n = 0 THEN 0 ELSE value[n - 1] * base + digits[n]
  IN  value[Len(digits)]

\* The lowest digits of a number, as many as length says.
DigitsOf(number, base, length) ==
  LET rest[n \in 0..length] == IF n = 0 THEN number ELSE rest[n - 1] \div base
  IN  [i \in 1..length |-> rest[length - i] % base]
=============================================================================
