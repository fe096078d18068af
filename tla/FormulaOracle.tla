----------------------------- MODULE FormulaOracle -----------------------------
(* Formulas in the reference engine (reference/engine.py): a cell at a     *)
(* time, money as a decimal number, a rate as an exact fraction that is    *)
(* written as a decimal of bounded precision when it meets money.          *)
EXTENDS StagedCell, Reference

CONSTANT Precision   \* decimal places a fraction keeps when it meets money

OracleRate(ratio, zero) == [kind |-> "rate", ratio |-> ratio, zero |-> zero]
OracleMoney(value, zero) == [kind |-> "money", value |-> value, zero |-> zero]
OracleBool(value, zero) == [kind |-> "bool", value |-> value, zero |-> zero]

InMoney(v) == CASE v.kind = "rate" -> Quantized(v.ratio.n * Minor, v.ratio.d)
                [] v.kind = "money" -> v.value
                [] v.kind = "bool" -> IF v.value THEN Minor ELSE 0
Truth(v) == IF v.kind = "rate" THEN v.ratio.n # 0
            ELSE IF v.kind = "money" THEN v.value # 0 ELSE v.value

\* A fraction as a decimal: rounded half even at the last place kept.
ExactDecimal(ratio) ==
    LET unit == 10 ^ Precision
        floor == (ratio.n * unit) \div ratio.d
        twice == 2 * ((ratio.n * unit) % ratio.d)
        up == twice > ratio.d \/ (twice = ratio.d /\ floor % 2 = 1)
    IN Ratio(IF up THEN floor + 1 ELSE floor, unit)
Terminates(ratio) == (ratio.n * 10 ^ Precision) % ratio.d = 0

UnaryOracle(op, v) ==
    CASE op = "not" -> OracleBool(~Truth(v), v.zero)
      [] op = "pos" -> v
      [] op = "neg" -> IF v.kind = "rate" THEN OracleRate(Opposite(v.ratio), v.zero)
                       ELSE OracleMoney(-InMoney(v), v.zero)

TimesOracle(a, b, flag) ==
    LET by(money, ratio) == OracleMoney(Quantized(InMoney(money) * ratio.n, ratio.d), flag) IN
    IF a.kind = "rate" THEN by(b, ExactDecimal(a.ratio))
    ELSE IF b.kind = "rate" THEN by(a, ExactDecimal(b.ratio)) ELSE by(a, Ratio(InMoney(b), Minor))

OverOracle(a, b, flag) ==
    LET ratio == IF b.kind = "rate" THEN ExactDecimal(b.ratio) ELSE Ratio(InMoney(b), Minor) IN
    IF ratio.n = 0 THEN OracleMoney(0, TRUE)
    ELSE OracleMoney(Quantized(InMoney(a) * ratio.d, ratio.n), flag)

BinaryOracle(op, a, b) ==
    LET flag == a.zero \/ b.zero IN
    IF a.kind = "rate" /\ b.kind = "rate"
    THEN IF op = "/" /\ b.ratio.n = 0 THEN OracleRate(Ratio(0, 1), TRUE)
         ELSE OracleRate(Rational(op, a.ratio, b.ratio), flag)
    ELSE CASE op = "+" -> OracleMoney(InMoney(a) + InMoney(b), flag)
           [] op = "-" -> OracleMoney(InMoney(a) - InMoney(b), flag)
           [] op = "*" -> TimesOracle(a, b, flag)
           [] op = "/" -> OverOracle(a, b, flag)

CompareOracle(op, a, b) ==
    OracleBool(IF a.kind = "rate" /\ b.kind = "rate" THEN RatesHold(op, a.ratio, b.ratio)
               ELSE Holds(op, InMoney(a), InMoney(b)),
               a.zero \/ b.zero)

WhereOracle(condition, then, otherwise) ==
    LET taken == IF Truth(condition) THEN then ELSE otherwise IN
    OracleMoney(InMoney(taken), condition.zero \/ taken.zero)

BuiltinOracle(name, args) ==
    LET money == [k \in DOMAIN args |-> InMoney(args[k])]
        quantum == 10 ^ (Places - money[2] \div Minor)
    IN OracleMoney(CASE name = "abs_" -> IF money[1] < 0 THEN -money[1] ELSE money[1]
                     [] name = "round_" -> Quantized(money[1], quantum) * quantum
                     [] name = "clip" -> LET low == Max({money[1], money[2]}) IN
                                         IF low < money[3] THEN low ELSE money[3]
                     [] name \in {"min", "max"} -> Extreme(name, money),
                   \E k \in DOMAIN args : args[k].zero)

RECURSIVE EvalOracle(_, _, _)
EvalOracle(env, expr, day) ==
    LET args == [k \in DOMAIN Operands(expr) |-> EvalOracle(env, Operands(expr)[k], day)]
        money(value) == OracleMoney(value, FALSE)
        initial == IF expr.init.op = "param" THEN ParamValue(expr.init.key) ELSE expr.init.value
    IN CASE expr.op = "lit" -> OracleRate(expr.value, FALSE)
         [] expr.op = "param" -> OracleRate(ParamValue(expr.key), FALSE)
         [] expr.op = "time" -> IF expr.field \in {"index", "month"}
                                THEN money(TimeNumber(expr.field, day))
                                ELSE OracleBool(TimeTest(expr.field, day), FALSE)
         [] expr.op \in {"it", "agg"} -> money(Reading(env, expr, day))
         [] expr.op = "prev" -> IF day < expr.lag THEN money(InMoney(OracleRate(initial, FALSE)))
                                ELSE money(Reading(env, expr, day - expr.lag))
         [] expr.op = "cum" -> money(MapThenSumSet(LAMBDA d : Reading(env, expr, d), 0 .. day))
         [] expr.op \in {"neg", "pos", "not"} -> UnaryOracle(expr.op, args[1])
         [] expr.op \in Arithmetic -> BinaryOracle(expr.op, args[1], args[2])
         [] expr.op \in Comparisons -> CompareOracle(expr.op, args[1], args[2])
         [] expr.op = "and" -> OracleBool(\A k \in DOMAIN args : Truth(args[k]),
                                          \E k \in DOMAIN args : args[k].zero)
         [] expr.op = "or" -> OracleBool(\E k \in DOMAIN args : Truth(args[k]),
                                         \E k \in DOMAIN args : args[k].zero)
         [] expr.op = "where" -> WhereOracle(args[1], args[2], args[3])
         [] expr.op \in DOMAIN Arity -> BuiltinOracle(expr.op, args)

FormulaOracleAt(env, expr, day) ==
    LET value == EvalOracle(env, expr, day) IN [minor |-> InMoney(value), zero |-> value.zero]

\* Somewhere, money meets a fraction that no decimal of that precision is.
RECURSIVE MeetsFraction(_, _)
MeetsFraction(env, expr) ==
    LET rate(k) == ColumnOf(env, expr.args[k], {0}) IN
    \/ /\ expr.op \in {"*", "/"}
       /\ \E k \in 1 .. 2 : IsRate(rate(k)) /\ ~IsRate(rate(3 - k)) /\ ~Terminates(rate(k).ratio)
    \/ \E k \in DOMAIN Operands(expr) : MeetsFraction(env, Operands(expr)[k])
-----------------------------------------------------------------------------
(* "Operator semantics, identical to the reference engine's node for node" *)
(* (columns.py), and fold.py's cells must not drift from either: on the    *)
(* columns of every run, a formula the parser accepts has the same amount  *)
(* and the same division-by-zero flag on every day as a column, as the     *)
(* scalar of one day, as a cell compiled for any loop of the book, and in  *)
(* the oracle - there unless money meets a fraction without a finite       *)
(* decimal.                                                                *)
EvaluatorsAgree ==
    primed => \A source \in Sources : Ok(Parse(source)) =>
        \A expr \in {Parse(source).expr} :
        \A column \in {FormulaColumn(Env, expr, Days)} :
            /\ \A t \in Days : FormulaColumn(Env, expr, {t})[t] = column[t]
            /\ \A loop \in ToSet(compiled.components) : CompileCell(Env, expr, loop) = column
            /\ MeetsFraction(Env, expr)
               \/ \A t \in Days : FormulaOracleAt(Env, expr, t) = column[t]
=============================================================================
