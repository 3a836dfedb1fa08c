----------------------------- MODULE Arithmetic -----------------------------
(* The integer arithmetic of C++, whose division rounds towards zero. *)
EXTENDS Integers

Quotient(a, b) == IF a >= 0 THEN a \div b ELSE -((-a) \div b)

Remainder(a, b) == a - b * Quotient(a, b)

=============================================================================
