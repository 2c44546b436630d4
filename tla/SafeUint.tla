----------------------------- MODULE SafeUint -----------------------------
(* The arithmetic of SafeUint8_t, which those of 16, 32, 64 and 256 bits     *)
(* repeat, on a variable of a contract: calls that combine it with operands, *)
(* and that an exception ends.                                               *)
EXTENDS Integers

CONSTANTS
  Limit,     \* std::numeric_limits of the type
  Operands,  \* the right-hand sides
  Overflow, Underflow, Domain  \* overflow_error, underflow_error, domain_error

Errors == {Overflow, Underflow, Domain}

SafeUintAssumption ==
  /\ Limit \in Nat \ {0} /\ Operands \subseteq 0..Limit
  /\ \A e \in Errors : e \notin Int
  /\ Overflow # Underflow /\ Overflow # Domain /\ Underflow # Domain

VARIABLES
  value, current,  \* the committed value; *valuePtr
  exact,           \* <<committed, current>> computed on unbounded integers
  last             \* the last operation: [op, a, b, r], r its result or error

safeUintVars == <<value, current, exact, last>>

(* Unsigned arithmetic of the machine. *)
Wrap(n) == n % (Limit + 1)

Add(a, b) == IF a > Limit - b THEN Overflow ELSE Wrap(a + b)
Sub(a, b) == IF a < b THEN Underflow ELSE Wrap(a - b)
Mul(a, b) ==
  IF b = 0 \/ a = 0 THEN Domain
  ELSE IF a > Limit \div b THEN Overflow ELSE Wrap(a * b)
Div(a, b) == IF a = 0 \/ b = 0 THEN Domain ELSE a \div b
Mod(a, b) == IF a = 0 \/ b = 0 THEN Domain ELSE a % b
Inc(a) == IF a = Limit THEN Overflow ELSE Wrap(a + 1)
Dec(a) == IF a = 0 THEN Underflow ELSE Wrap(a - 1)

SafeUintInit ==
  /\ value = 0 /\ current = 0 /\ exact = <<0, 0>>
  /\ last = [op |-> "none", a |-> 0, b |-> 0, r |-> 0]

(* An operation with result r, e on unbounded integers.  An error ends the   *)
(* call: DynamicContract::ethCall reverts the variable.                      *)
Apply(op, b, r, e) ==
  /\ last' = [op |-> op, a |-> current, b |-> b, r |-> r]
  /\ UNCHANGED value
  /\ IF r \in Errors
       THEN current' = value /\ exact' = <<exact[1], exact[1]>>
       ELSE current' = r /\ exact' = <<exact[1], e>>

Assign(b) == Apply("=", b, b, b)
AddAssign(b) == Apply("+=", b, Add(current, b), exact[2] + b)
SubAssign(b) == Apply("-=", b, Sub(current, b), exact[2] - b)
MulAssign(b) == Apply("*=", b, Mul(current, b), exact[2] * b)
DivAssign(b) == Apply("/=", b, Div(current, b), exact[2] \div (IF b = 0 THEN 1 ELSE b))
ModAssign(b) == Apply("%=", b, Mod(current, b), exact[2] % (IF b = 0 THEN 1 ELSE b))
Increment == Apply("++", 1, Inc(current), exact[2] + 1)
Decrement == Apply("--", 1, Dec(current), exact[2] - 1)

Commit ==
  /\ value' = current /\ exact' = <<exact[2], exact[2]>>
  /\ UNCHANGED <<current, last>>

SafeUintNext ==
  \/ \E b \in Operands :
       \/ Assign(b) \/ AddAssign(b) \/ SubAssign(b) \/ MulAssign(b)
       \/ DivAssign(b) \/ ModAssign(b)
  \/ Increment \/ Decrement \/ Commit

SafeUintSpec == SafeUintInit /\ [][SafeUintNext]_safeUintVars

-----------------------------------------------------------------------------
(* No sequence of operations, failures and commits ever wraps: the variable  *)
(* holds what unbounded integers would (operator+= and its siblings check    *)
(* before they compute).                                                     *)
NeverWraps == exact = <<value, current>>

(* An operation is refused exactly when its result is not representable, or, *)
(* for *, / and %, when an operand is zero.                                  *)
RefusedExactly ==
  LET Refused == last.r \in Errors
      SomeZero == last.a = 0 \/ last.b = 0
  IN /\ last.op \in {"+=", "++"} => (Refused <=> last.a + last.b > Limit)
     /\ last.op \in {"-=", "--"} => (Refused <=> last.a - last.b < 0)
     /\ last.op = "*=" => (Refused <=> SomeZero \/ last.a * last.b > Limit)
     /\ last.op \in {"/=", "%="} => (Refused <=> SomeZero)

(* Refuted by TLC (README, Disagreements): operator/= refuses nothing but a  *)
(* division by zero.                                                         *)
DivisionRefusesZeroDivisorOnly ==
  last.op = "/=" /\ last.r = Domain => last.b = 0
=============================================================================
