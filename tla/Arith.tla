-------------------------------- MODULE Arith --------------------------------
(***************************************************************************)
(* Integer arithmetic of the interpreter: BinOp, UnOp, Convert and the use *)
(* of an integer as an index (ops.go).  The operand's dynamic type selects *)
(* a case that computes in the host's type of the same name; a conversion  *)
(* goes through the widest type of the operand's signedness.  Values keep  *)
(* their width: every case is one operator, told the type.                 *)
(***************************************************************************)
EXTENDS Integers

CONSTANTS
  Widths,    \* the widths of the integer types, in bits
  IntBits,   \* the width of int, uint and uintptr, and of int64 and uint64
  MaxLength  \* bound on the lengths of the slices indexed

\* 2 to the n
Pow2[n \in Nat] == IF n = 0 THEN 1 ELSE 2 * Pow2[n - 1]

\* A length is an int.
ASSUME ArithAssumption ==
  /\ IntBits \in Widths
  /\ \A w \in Widths : w \in Nat \ {0} /\ w <= IntBits
  /\ MaxLength \in Nat /\ MaxLength < Pow2[IntBits - 1]

\* Types and values -------------------------------------------------------------

IntTypes == [signed : BOOLEAN, bits : Widths]
Int64 == [signed |-> TRUE, bits |-> IntBits]
Uint64 == [signed |-> FALSE, bits |-> IntBits]

Modulus(T) == Pow2[T.bits]
Least(T) == IF T.signed THEN -Pow2[T.bits - 1] ELSE 0
InRange(T) == Least(T) .. Least(T) + Modulus(T) - 1

\* The number that a host variable of type T holds for n.
Wrap(T, n) == Least(T) + ((n - Least(T)) % Modulus(T))

\* The bits of a number of type T, as a natural number.
Pattern(T, n) == n % Modulus(T)
Bit(n, i) == (n \div Pow2[i]) % 2
Ones(T, n) == {i \in 0 .. T.bits - 1 : Bit(Pattern(T, n), i) = 1}

\* The word with the bits at S set.
Word(T, S) ==
  LET sum[n \in 0 .. T.bits] ==
        IF n = 0 THEN 0 ELSE sum[n - 1] + IF n - 1 \in S THEN Pow2[n - 1] ELSE 0
  IN sum[T.bits]

Magnitude(n) == IF n < 0 THEN -n ELSE n
Towards(n, positive) == IF positive THEN n ELSE -n

\* The host's x / y and x % y before they are wrapped.
Quo(x, y) == Towards(Magnitude(x) \div Magnitude(y), (x < 0) = (y < 0))
Rem(x, y) == Towards(Magnitude(x) % Magnitude(y), x >= 0)

\* binop, y not 0 where it divides
BinOp(op, T, x, y) ==
  LET p == Ones(T, x)
      q == Ones(T, y)
  IN Wrap(T, CASE op = "ADD" -> x + y
               [] op = "SUB" -> x - y
               [] op = "MUL" -> x * y
               [] op = "QUO" -> Quo(x, y)
               [] op = "REM" -> Rem(x, y)
               [] op = "AND" -> Word(T, p \cap q)
               [] op = "OR" -> Word(T, p \cup q)
               [] op = "XOR" -> Word(T, (p \ q) \cup (q \ p))
               [] op = "AND_NOT" -> Word(T, p \ q))
BinOps == {"ADD", "SUB", "MUL", "QUO", "REM", "AND", "OR", "XOR", "AND_NOT"}

\* Mutant: the count is taken modulo the width, as many processors do.
ShiftCountMasked(T, k) == k % T.bits
ShiftCount(T, k) == k

\* binop, SHL and SHR by k
Shift(op, T, x, k) ==
  LET c == ShiftCount(T, k)
  IN IF c >= T.bits
     THEN IF op = "SHR" /\ x < 0 THEN -1 ELSE 0
     ELSE Wrap(T, IF op = "SHL" THEN x * Pow2[c] ELSE x \div Pow2[c])

\* unop
UnOp(op, T, x) == Wrap(T, IF op = "NEG" THEN -x ELSE -x - 1)

\* Mutant: a signed operand is widened without its sign.
WidenBits(T, x) == Pattern(T, x)

\* widen: to int64 or uint64, which keeps the number.
Widen(T, x) == IF T.signed THEN Wrap(Int64, x) ELSE Wrap(Uint64, x)

\* conv between integer types; asInt is the conversion to int, asUint64 to uint64.
Conv(D, S, x) == Wrap(D, Widen(S, x))
AsInt(T, x) == Conv(Int64, T, x)
AsUint64(T, x) == Conv(Uint64, T, x)

-----------------------------------------------------------------------------
\* The machine -----------------------------------------------------------------

VARIABLES
  reg,    \* the number in the register at hand
  type,   \* its type
  trap,   \* whether the last instruction panicked
  last    \* (history) the last instruction and its operands

arithVars == <<reg, type, trap, last>>

NoInstr == [op |-> "none", x |-> 0, y |-> 0, from |-> Int64]

ArithInit ==
  /\ reg = 0
  /\ type = Int64
  /\ trap = FALSE
  /\ last = NoInstr

\* A constant or a value from elsewhere: constValue
Const(T, n) ==
  /\ reg' = n
  /\ type' = T
  /\ trap' = FALSE
  /\ last' = NoInstr

\* BinOp; the host panics when it divides by 0.
Binary(op, y) ==
  /\ ~trap
  /\ last' = [op |-> op, x |-> reg, y |-> y, from |-> type]
  /\ \/ /\ op \in {"QUO", "REM"} /\ y = 0
        /\ trap' = TRUE
        /\ UNCHANGED reg
     \/ /\ op \notin {"QUO", "REM"} \/ y # 0
        /\ reg' = BinOp(op, type, reg, y)
        /\ UNCHANGED trap
  /\ UNCHANGED type

\* BinOp SHL and SHR.  A count of a signed type comes converted to uint64 from the SSA
\* builder, a negative one as a large one.
ShiftBy(op, S, y) ==
  /\ ~trap
  /\ last' = [op |-> op, x |-> reg, y |-> y, from |-> type]
  /\ reg' = Shift(op, type, reg, AsUint64(S, y))
  /\ UNCHANGED <<type, trap>>

\* UnOp - and ^
Unary(op) ==
  /\ ~trap
  /\ last' = [op |-> op, x |-> reg, y |-> 0, from |-> type]
  /\ reg' = UnOp(op, type, reg)
  /\ UNCHANGED <<type, trap>>

Convert(D) ==
  /\ ~trap
  /\ last' = [op |-> "CONV", x |-> reg, y |-> 0, from |-> type]
  /\ reg' = Conv(D, type, reg)
  /\ type' = D
  /\ UNCHANGED trap

\* IndexAddr of a slice of length n: the host checks the index asInt gives it.
Index(n) ==
  /\ ~trap
  /\ last' = [op |-> "INDEX", x |-> reg, y |-> n, from |-> type]
  /\ reg' = AsInt(type, reg)
  /\ type' = Int64
  /\ trap' = (AsInt(type, reg) \notin 0 .. n - 1)

ArithNext ==
  \/ \E T \in IntTypes : \E n \in InRange(T) : Const(T, n)
  \/ \E op \in BinOps, y \in InRange(type) : Binary(op, y)
  \/ \E op \in {"SHL", "SHR"}, S \in IntTypes : \E y \in InRange(S) : ShiftBy(op, S, y)
  \/ \E op \in {"NEG", "NOT"} : Unary(op)
  \/ \E D \in IntTypes : Convert(D)
  \/ \E n \in 0 .. MaxLength : Index(n)

ArithSpec == ArithInit /\ [][ArithNext]_arithVars

-----------------------------------------------------------------------------
\* Properties -----------------------------------------------------------------

Congruent(T, m, n) == (m - n) % Modulus(T) = 0

\* What the Go specification says of the result r of an operation on x and y of type T:
\* sums, differences and products are exact modulo 2^bits, division truncates towards
\* zero and leaves a remainder of the dividend's sign, bitwise operations go bit by bit
\* and shifts multiply and divide by two as often as the count says.
GoResult(op, T, x, y, r) ==
  CASE op = "ADD" -> Congruent(T, r, x + y)
    [] op = "SUB" -> Congruent(T, r, x - y)
    [] op = "MUL" -> Congruent(T, r, x * y)
    [] op = "NEG" -> Congruent(T, r + x, 0)
    [] op = "QUO" ->
         \E rem \in -Magnitude(x) .. Magnitude(x) :
           /\ Magnitude(rem) < Magnitude(y)
           /\ rem # 0 => (rem < 0) = (x < 0)
           /\ \E q \in -Magnitude(x) .. Magnitude(x) : x = q * y + rem /\ Congruent(T, r, q)
    [] op = "REM" ->
         /\ Magnitude(r) < Magnitude(y)
         /\ r # 0 => (r < 0) = (x < 0)
         /\ \E q \in -Magnitude(x) .. Magnitude(x) : x = q * y + r
    [] op \in {"AND", "OR", "XOR", "AND_NOT", "NOT"} ->
         \A i \in 0 .. T.bits - 1 :
           LET a == Bit(x, i) = 1
               b == Bit(y, i) = 1
           IN (Bit(r, i) = 1) <=> (CASE op = "AND" -> a /\ b
                                     [] op = "OR" -> a \/ b
                                     [] op = "XOR" -> a # b
                                     [] op = "AND_NOT" -> a /\ ~b
                                     [] op = "NOT" -> ~a)
    [] op = "SHL" -> y >= 0 => Congruent(T, r, x * Pow2[y])
    [] op = "SHR" -> y >= 0 => r * Pow2[y] <= x /\ x < (r + 1) * Pow2[y]

\* Every operation, at every width and at the ends of the ranges, gives Go's result, and
\* panics exactly when it divides by zero; only a shift by a negative count, for which Go
\* panics, goes on.
ArithIsGo ==
  LET dividesByZero == last.op \in {"QUO", "REM"} /\ last.y = 0
  IN last.op \in BinOps \cup {"SHL", "SHR", "NEG", "NOT"} =>
       /\ trap <=> dividesByZero
       /\ dividesByZero \/ GoResult(last.op, type, last.x, last.y, reg)

\* A conversion keeps the number where the new type has it and its low bits where not;
\* an index beyond the length, a negative one, and an unsigned one that int does not
\* have, are all refused.
ConvIsGo ==
  /\ last.op = "CONV" =>
       /\ last.x \in InRange(type) => reg = last.x
       /\ \A i \in 0 .. type.bits - 1 : Bit(reg, i) = Bit(last.x, i)
  /\ last.op = "INDEX" => (trap <=> last.x \notin 0 .. last.y - 1)
=============================================================================
