------------------------------ MODULE LogFile ------------------------------
(***************************************************************************)
(* A log file, read while it is being written. Every line has Width bytes  *)
(* and a newline; a position is the number of bytes before it. A reader    *)
(* that takes the bytes between two positions splits them at the newlines  *)
(* and can parse a piece only if it is the whole body of a line; what is   *)
(* left of a line that was cut is discarded without a trace.               *)
(***************************************************************************)
EXTENDS Integers

CONSTANT Width  \* bytes of a line without its newline

ASSUME WidthAssumption == Width \in Nat \ {0}

LineStart(k) == (k - 1) * (Width + 1)
BodyEnd(k) == LineStart(k) + Width
LineEnd(k) == BodyEnd(k) + 1

\* The line a byte after position n belongs to.
LineAt(n) == n \div (Width + 1) + 1

\* Position n cuts the body of a line in two.
Cuts(n) == LineStart(LineAt(n)) < n /\ n < BodyEnd(LineAt(n))

\* Lines whose body lies between two positions.
LinesBetween(from, to) ==
  {k \in 1 .. LineAt(to) : from <= LineStart(k) /\ BodyEnd(k) <= to}
=============================================================================
