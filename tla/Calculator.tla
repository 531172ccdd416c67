----------------------------- MODULE Calculator -----------------------------
(***************************************************************************)
(* The keys of a calculator that works from left to right and repeats on   *)
(* equals. The display is a number, or Error.                              *)
(***************************************************************************)
EXTENDS Integers, FiniteSets

CONSTANTS Digits, MaxShown    \* the digits pressed; bound: size of the numbers
VARIABLE calc

ASSUME CalculatorAssumption == Digits \subseteq 0..9 /\ MaxShown \in Nat

OperatorKeys == {"+", "-", "*", "/"}
NoOperator == "none"

Cleared == [display |-> 0, reads |-> "number", left |-> 0, pending |-> NoOperator, remembered |-> 0,
            hasRemembered |-> FALSE, entering |-> FALSE, evaluated |-> FALSE, inError |-> FALSE]

Abs(n) == IF n < 0 THEN -n ELSE n
\* The code divides floats and truncates: the same while the numbers shown stay
\* below 2^53, far above MaxShown in any run.
TruncDiv(a, b) == (IF (a < 0) = (b < 0) THEN 1 ELSE -1) * (Abs(a) \div Abs(b))

Apply(a, op, b) ==
    CASE op = "+" -> a + b
      [] op = "-" -> a - b
      [] op = "*" -> a * b
      [] op = "/" -> TruncDiv(a, b)

DividesByZero(op, b) == op = "/" /\ b = 0

EnterError(c) == [c EXCEPT !.inError = TRUE, !.reads = "error"]
Small(c) == Abs(c.display) <= MaxShown                          \* bound

-----------------------------------------------------------------------------
CalcInit == calc = Cleared

PressDigit(d) ==
    /\ ~calc.inError
    /\ IF calc.evaluated
       THEN calc' = [calc EXCEPT !.left = 0, !.pending = NoOperator, !.hasRemembered = FALSE,
                                 !.display = d, !.entering = TRUE, !.evaluated = FALSE]
       ELSE calc' = [calc EXCEPT !.display = IF calc.entering THEN 10 * @ + d ELSE d, !.entering = TRUE]
    /\ Small(calc')

\* An operator after an operand folds what is pending. If that divides by zero
\* its result, 0, is written over the Error on the display.
PressOperator(op) ==
    /\ ~calc.inError
    /\ LET folds == calc.pending # NoOperator /\ calc.entering
           fails == folds /\ DividesByZero(calc.pending, calc.display)
           left == IF folds /\ ~fails THEN Apply(calc.left, calc.pending, calc.display) ELSE calc.display
       IN  \/ /\ ~calc.entering /\ ~calc.evaluated
              /\ calc' = EnterError(calc)
           \/ /\ fails
              /\ calc' = [EnterError(calc) EXCEPT !.left = 0, !.display = 0, !.reads = "number"]
           \/ /\ (calc.entering \/ calc.evaluated) /\ ~fails
              /\ calc' = [calc EXCEPT !.left = left, !.display = left, !.pending = op, !.entering = FALSE,
                                      !.evaluated = FALSE, !.hasRemembered = FALSE]
              /\ Small(calc')

PressEquals ==
    /\ ~calc.inError /\ calc.pending # NoOperator
    /\ LET right == IF calc.hasRemembered /\ ~calc.entering THEN calc.remembered ELSE calc.display
       IN  \/ /\ DividesByZero(calc.pending, right)
              /\ calc' = EnterError(calc)
           \/ /\ ~DividesByZero(calc.pending, right)
              /\ LET result == Apply(calc.left, calc.pending, right)
                 IN  calc' = [calc EXCEPT !.remembered = right, !.hasRemembered = TRUE, !.left = result,
                                          !.display = result, !.entering = FALSE, !.evaluated = TRUE]
              /\ Small(calc')

PressClear == calc' = Cleared

CalcNext ==
    \/ \E d \in Digits : PressDigit(d)
    \/ \E op \in OperatorKeys : PressOperator(op)
    \/ PressEquals \/ PressClear

CalcSpec == CalcInit /\ [][CalcNext]_calc

-----------------------------------------------------------------------------
CalcTypeOK ==
    calc \in [display : Int, reads : {"number", "error"}, left : Int, pending : OperatorKeys \cup {NoOperator},
              remembered : Int, hasRemembered : BOOLEAN, entering : BOOLEAN, evaluated : BOOLEAN, inError : BOOLEAN]

AtStart(c) == c.pending = NoOperator /\ ~c.entering /\ ~c.evaluated /\ c.display = 0
Operand(c) == c.entering /\ ~c.evaluated /\ c.display >= 0
Operator(c) == c.pending # NoOperator /\ ~c.entering /\ ~c.evaluated /\ c.display = c.left
Evaluated(c) == c.pending # NoOperator /\ ~c.entering /\ c.evaluated /\ c.display = c.left

\* The flags are one mode: what they say together is that the calculator is
\* fresh, reading an operand, past an operator or past equals, what it shows
\* being what it goes on with; the right side is remembered in the last mode
\* only; and Error is shown only in error (calculator.py:50-152).
FlagsAreOneMode ==
    /\ ~calc.inError => Cardinality({m \in 1..4 :
          <<AtStart(calc), Operand(calc), Operator(calc), Evaluated(calc)>>[m]}) = 1
    /\ calc.hasRemembered <=> calc.evaluated
    /\ calc.reads = "error" => calc.inError

\* In the error state the display reads Error (SCENARIOS.md:17).
ErrorIsShown == calc.inError => calc.reads = "error"
=============================================================================
