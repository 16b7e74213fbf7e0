----------------------------- MODULE CheckedMath -----------------------------
(***************************************************************************)
(* The integer arithmetic of a Bux program (rt/runtime.c 132-202): the      *)
(* compiler emits calls of these functions for divisions, and in checked    *)
(* functions for the other operators.  A result is <<v>>, and Panic when    *)
(* the program stops.  The width of the integers is a parameter.            *)
(*                                                                         *)
(* The compiler's builtin (__builtin_add_overflow) is Checked; the tests    *)
(* the source has for other C compilers are the operators ...Panics.        *)
(*                                                                         *)
(* An operator marked (slip) is a function with a plausible programming     *)
(* mistake in it, used by nothing here.                                    *)
(***************************************************************************)
EXTENDS Integers

CONSTANTS MinInt, MaxInt   \* INT64_MIN, INT64_MAX

ASSUME IntAssumption ==
    MaxInt \in Nat \ {0} /\ MinInt = -MaxInt - 1

Ints == MinInt..MaxInt

Panic == <<>>

Magnitude(a) == IF a < 0 THEN -a ELSE a

\* C's division rounds towards zero and the remainder has the dividend's sign.
Quot(a, b) ==
    LET q == Magnitude(a) \div Magnitude(b)
    IN  IF (a < 0) = (b < 0) THEN q ELSE -q

Rem(a, b) == a - b * Quot(a, b)

\* What two's complement keeps of a number that is out of range.
Wrap(n) == MinInt + ((n - MinInt) % (MaxInt - MinInt + 1))

\* __builtin_..._overflow: the exact result, and whether it fits.
Checked(exact) == IF exact \in Ints THEN <<exact>> ELSE Panic

------------------------------------------------------------------------------
\* The portable overflow tests.
AddPanics(a, b) ==
    \/ b > 0 /\ a > MaxInt - b
    \/ b < 0 /\ a < MinInt - b

\* (slip) The two limits are exchanged.
SubPanicsOnWrongLimit(a, b) ==
    \/ b > 0 /\ a < MaxInt + b
    \/ b < 0 /\ a > MinInt + b

SubPanics(a, b) ==
    \/ b > 0 /\ a < MinInt + b
    \/ b < 0 /\ a > MaxInt + b

MulPanics(a, b) ==
    /\ a # 0 /\ b # 0
    /\ \/ a > 0 /\ b > 0 /\ a > Quot(MaxInt, b)
       \/ a > 0 /\ b < 0 /\ b < Quot(MinInt, a)
       \/ a < 0 /\ b > 0 /\ a < Quot(MinInt, b)
       \/ a < 0 /\ b < 0 /\ a < Quot(MaxInt, b)

\* The numbers these tests themselves compute: they are C integers too.
TestTerms(a, b) ==
    (IF b > 0 THEN {MaxInt - b, MinInt + b} ELSE {})
    \cup (IF b < 0 THEN {MinInt - b, MaxInt + b} ELSE {})
    \cup (IF b # 0 THEN {Quot(MaxInt, b)} ELSE {})
    \cup (IF a > 0 /\ b < 0 THEN {Quot(MinInt, a)} ELSE {})
    \cup (IF a < 0 /\ b > 0 THEN {Quot(MinInt, b)} ELSE {})

------------------------------------------------------------------------------
\* bux_div_i64, bux_mod_i64: only a zero divisor is looked at.  MinInt / -1 has
\* no value in C, and the processor the build runs on stops the program.
Div(a, b) == IF b = 0 THEN Panic ELSE Checked(Quot(a, b))
Mod(a, b) == IF b = 0 \/ Quot(a, b) \notin Ints THEN Panic ELSE <<Rem(a, b)>>

\* bux_..._i64_checked, as gcc and clang build them.
AddChecked(a, b) == Checked(a + b)
SubChecked(a, b) == Checked(a - b)
MulChecked(a, b) == Checked(a * b)
NegChecked(a) == IF a = MinInt THEN Panic ELSE <<-a>>

\* bux_abs_i64 has no test.
AbsI64(a) == Wrap(IF a < 0 THEN -a ELSE a)

\* The same functions in runtime_minimal.c, runtime_win.c and
\* runtime_freestanding.c: division alone is tested.
MinimalArithmetic(a, b) ==
    <<<<Wrap(a + b)>>, <<Wrap(a - b)>>, <<Wrap(a * b)>>, <<Wrap(-a)>>, Div(a, b), Mod(a, b)>>
WinArithmetic(a, b) == MinimalArithmetic(a, b)
FsArithmetic(a, b) == MinimalArithmetic(a, b)

------------------------------------------------------------------------------
\* For one pair of operands: the portable tests panic exactly when the builtin
\* does, they compute nothing that overflows, quotient and remainder make up
\* the dividend, and a runtime without tests gives the same answer whenever the
\* full runtime gives one.
ArithmeticExact(a, b) ==
    /\ AddPanics(a, b) <=> AddChecked(a, b) = Panic
    /\ SubPanics(a, b) <=> SubChecked(a, b) = Panic
    /\ MulPanics(a, b) <=> MulChecked(a, b) = Panic
    /\ NegChecked(a) = SubChecked(0, a)
    /\ TestTerms(a, b) \subseteq Ints
    /\ Div(a, b) # Panic =>
          Div(a, b)[1] * b + Mod(a, b)[1] = a /\ Magnitude(Mod(a, b)[1]) < Magnitude(b)
    /\ LET full == <<AddChecked(a, b), SubChecked(a, b), MulChecked(a, b), NegChecked(a),
                    Div(a, b), Mod(a, b)>>
       IN  \A thin \in {MinimalArithmetic(a, b), WinArithmetic(a, b), FsArithmetic(a, b)} :
              \A i \in 1..6 : full[i] # Panic => thin[i] = full[i]
==============================================================================
