-------------------------------- MODULE Money --------------------------------
(***************************************************************************)
(* Amounts of money (money.py) in their quantum, 0.01.                     *)
(***************************************************************************)
EXTENDS Integers

\* as_money of a product with a percentage, which is in hundredths of the
\* quantum.  It rounds half to even: the quotient, and one more above the half
\* or at it when the quotient is odd.  signed_money is only applied to sums of
\* amounts already rounded.
as_money(hundredths) ==
    LET whole == hundredths \div 100
        rest == hundredths % 100
    IN  IF rest > 50 \/ (rest = 50 /\ whole % 2 = 1) THEN whole + 1 ELSE whole
=============================================================================
