----------------------------- MODULE AluValues -----------------------------
(***************************************************************************)
(* What the arithmetic operations compute, as each engine writes it: the   *)
(* shared actions of emu/purv.c, and the cases of emu/purg.c.  Words have  *)
(* XLen bits (32 in the code); a shift amount is masked with XLen - 1.     *)
(***************************************************************************)
EXTENDS Integers, Bitwise

CONSTANT XLen   \* bits of a register: 32 in the code

ASSUME XLenAssumption == XLen \in {2, 4, 8}

M == 2^XLen
Value == 0 .. (M - 1)

\* (int32_t)a, and back
Signed(a) == IF a >= M \div 2 THEN a - M ELSE a
Wrap(v)   == v % M

\* (int64_t)v of a uint64_t product
Signed2(v) == LET u == v % (M * M) IN IF u >= (M * M) \div 2 THEN u - M * M ELSE u

\* C division truncates towards zero.
TruncDiv(a, b) ==
  LET q == (IF a < 0 THEN -a ELSE a) \div (IF b < 0 THEN -b ELSE b)
  IN IF (a < 0) = (b < 0) THEN q ELSE -q
TruncRem(a, b) == a - b * TruncDiv(a, b)

Shift(b) == b % XLen
Flag(p)  == IF p THEN 1 ELSE 0

\* alu: of purv.c.
PurvAlu(op, a, b) ==
  CASE op = "add"  -> Wrap(a + b)
    [] op = "sub"  -> Wrap(a - b)
    [] op = "sll"  -> Wrap(a * 2^Shift(b))
    [] op = "slt"  -> Flag(Signed(a) < Signed(b))
    [] op = "sltu" -> Flag(a < b)
    [] op = "xor"  -> a ^^ b
    [] op = "srl"  -> a \div 2^Shift(b)
    [] op = "sra"  -> Wrap(Signed(a) \div 2^Shift(b))
    [] op = "or"   -> a | b
    [] op = "and"  -> a & b

\* Mutated form: the most negative number divided by -1 is not singled out,
\* and the quotient is what the host's divide instruction leaves: 0.
PurvMulNoOverflow(op, a, b) ==
  CASE op = "mul"    -> Wrap(a * b)
    [] op = "mulh"   -> Wrap((Signed(a) * Signed(b)) \div M)
    [] op = "mulhsu" -> Wrap(Signed2((Signed(a) % (M * M)) * b) \div M)
    [] op = "mulhu"  -> (a * b) \div M
    [] op = "div"    -> IF b = 0 THEN M - 1
                        ELSE IF a = M \div 2 /\ Signed(b) = -1 THEN 0
                        ELSE Wrap(TruncDiv(Signed(a), Signed(b)))
    [] op = "divu"   -> IF b = 0 THEN M - 1 ELSE a \div b
    [] op = "rem"    -> IF b = 0 THEN a ELSE Wrap(TruncRem(Signed(a), Signed(b)))
    [] op = "remu"   -> IF b = 0 THEN a ELSE a % b

\* mul: of purv.c, which singles out division by zero and the one quotient
\* that does not fit.
PurvMul(op, a, b) ==
  CASE op = "mul"    -> Wrap(a * b)
    [] op = "mulh"   -> Wrap((Signed(a) * Signed(b)) \div M)
    [] op = "mulhsu" -> Wrap(Signed2((Signed(a) % (M * M)) * b) \div M)
    [] op = "mulhu"  -> (a * b) \div M
    [] op = "div"    -> IF b = 0 THEN M - 1
                        ELSE IF a = M \div 2 /\ Signed(b) = -1 THEN a
                        ELSE Wrap(TruncDiv(Signed(a), Signed(b)))
    [] op = "divu"   -> IF b = 0 THEN M - 1 ELSE a \div b
    [] op = "rem"    -> IF b = 0 THEN a
                        ELSE IF a = M \div 2 /\ Signed(b) = -1 THEN 0
                        ELSE Wrap(TruncRem(Signed(a), Signed(b)))
    [] op = "remu"   -> IF b = 0 THEN a ELSE a % b

\* branch: of purv.c.
PurvTaken(op, a, b) ==
  CASE op = "beq"  -> a = b
    [] op = "bne"  -> a # b
    [] op = "blt"  -> Signed(a) < Signed(b)
    [] op = "bge"  -> Signed(a) >= Signed(b)
    [] op = "bltu" -> a < b
    [] op = "bgeu" -> a >= b

\* The OPERATION cases of purg.c.
PurgOperation(op, a, b) ==
  CASE op = "add"  -> Wrap(Signed(a) + Signed(b))
    [] op = "sub"  -> Wrap(Signed(a) - Signed(b))
    [] op = "sll"  -> Wrap(a * 2^Shift(b))
    [] op = "slt"  -> Flag(Signed(a) < Signed(b))
    [] op = "sltu" -> Flag(a < b)
    [] op = "xor"  -> a ^^ b
    [] op = "srl"  -> a \div 2^Shift(b)
    [] op = "sra"  -> Wrap(Signed(a) \div 2^Shift(b))
    [] op = "or"   -> a | b
    [] op = "and"  -> a & b
    [] op = "mul"  -> Wrap(a * b)
    [] op = "mulh"   -> Wrap(Signed2(Signed(a) * Signed(b)) \div M)
    [] op = "mulhsu" -> Wrap(Signed2((Signed(a) * b) % (M * M)) \div M)
    [] op = "mulhu"  -> Wrap(((a * b) % (M * M)) \div M)
    [] op = "div"  -> IF Signed(b) = 0 THEN Wrap(-1)
                      ELSE IF Signed(a) = -(M \div 2) /\ Signed(b) = -1 THEN Wrap(-(M \div 2))
                      ELSE Wrap(TruncDiv(Signed(a), Signed(b)))
    [] op = "divu" -> IF b = 0 THEN M - 1 ELSE a \div b
    [] op = "rem"  -> IF Signed(b) = 0 THEN a
                      ELSE IF Signed(a) = -(M \div 2) /\ Signed(b) = -1 THEN 0
                      ELSE Wrap(TruncRem(Signed(a), Signed(b)))
    [] op = "remu" -> IF b = 0 THEN a ELSE a % b

\* The BRANCH cases of purg.c.
PurgTaken(op, a, b) ==
  CASE op = "beq"  -> Signed(a) = Signed(b)
    [] op = "bne"  -> Signed(a) # Signed(b)
    [] op = "bge"  -> Signed(a) >= Signed(b)
    [] op = "bgeu" -> a >= b
    [] op = "blt"  -> Signed(a) < Signed(b)
    [] op = "bltu" -> a < b
=============================================================================
