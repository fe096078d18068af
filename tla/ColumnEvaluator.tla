--------------------------- MODULE ColumnEvaluator ---------------------------
(* Formulas over columns (engine/columns.py): an expression is evaluated   *)
(* for all the days of a span at once.  A literal or a parameter is an     *)
(* exact rate and stays one until it meets money; money is whole minor     *)
(* units; a comparison is a mask.  A division by zero yields zero and      *)
(* raises a flag on the days it happened.                                  *)
EXTENDS Formula

CONSTANTS
    Params,          \* the parameters of the book, as exact ratios
    OpeningBalance   \* what p.opening_balance reads when no parameter has its name

Minor == 10 ^ Places
ParamValue(key) == IF key \in DOMAIN Params THEN Params[key] ELSE OpeningBalance

ToMinor(ratio) == RoundDiv(ratio.n * Minor, ratio.d)

Opposite(a) == Ratio(-a.n, a.d)
Product(a, b) == Ratio(a.n * b.n, a.d * b.d)
Inverted(a) == IF a.n < 0 THEN Ratio(-a.d, -a.n) ELSE Ratio(a.d, a.n)
Added(a, b) == Ratio(a.n * b.d + b.n * a.d, a.d * b.d)
Rational(op, a, b) == CASE op = "+" -> Added(a, b)
                        [] op = "-" -> Added(a, Opposite(b))
                        [] op = "*" -> Product(a, b)
                        [] op = "/" -> Product(a, Inverted(b))

Holds(op, a, b) == CASE op = "==" -> a = b
                     [] op = "!=" -> a # b
                     [] op = "<" -> a < b
                     [] op = "<=" -> a <= b
                     [] op = ">" -> a > b
                     [] op = ">=" -> a >= b
RatesHold(op, a, b) == Holds(op, a.n * b.d, b.n * a.d)

Extreme(name, values) == IF name = "min" THEN Min(ToSet(values)) ELSE Max(ToSet(values))

\* The period columns: numbers as money, the others as masks.
TimeNumber(field, day) == Minor * (IF field = "index" THEN day ELSE day \div MonthLength + 1)
TimeTest(field, day) == IF field = "is_quarter_end" THEN (day + 1) % (3 * MonthLength) = 0
                        ELSE day \notin Closed

\* What a reference reads on a day; a lag may reach before the horizon.
ReadItems(expr) == Members(Items, [fn |-> expr.op, of |-> expr.of])
Reading(env, expr, day) ==
    MapThenSumSet(LAMBDA i : Read(env, compiled.items, i, expr.measure)[day], ReadItems(expr))
InitMinor(init) == ToMinor(IF init.op = "param" THEN ParamValue(init.key) ELSE init.value)
-----------------------------------------------------------------------------
(* Values over a span, a function of the day but for rates.                *)

Rate(ratio, zero) == [kind |-> "rate", ratio |-> ratio, zero |-> zero]
Column(value, zero) == [kind |-> "money", value |-> value, zero |-> zero]
Mask(value, zero) == [kind |-> "mask", value |-> value, zero |-> zero]
IsRate(value) == value.kind = "rate"

FlagOf(value, t) == IF IsRate(value) THEN value.zero ELSE value.zero[t]
Combined(values, span) == [t \in span |-> \E k \in DOMAIN values : FlagOf(values[k], t)]
NoFlag(span) == [t \in span |-> FALSE]

\* Money on a day: a rate is rounded here, a mask is one or zero.
MoneyOf(value, t) == CASE value.kind = "rate" -> ToMinor(value.ratio)
                       [] value.kind = "money" -> value.value[t]
                       [] value.kind = "mask" -> IF value.value[t] THEN Minor ELSE 0
TruthOf(value, t) == CASE value.kind = "rate" -> value.ratio.n # 0
                       [] value.kind = "money" -> value.value[t] # 0
                       [] value.kind = "mask" -> value.value[t]

UnaryColumn(op, operand, span) ==
    CASE op = "not" -> Mask([t \in span |-> ~TruthOf(operand, t)], Combined(<<operand>>, span))
      [] op = "pos" -> operand
      [] op = "neg" /\ IsRate(operand) -> Rate(Opposite(operand.ratio), operand.zero)
      [] op = "neg" /\ ~IsRate(operand) ->
           Column([t \in span |-> -MoneyOf(operand, t)], Combined(<<operand>>, span))

\* Rates among themselves stay exact; nothing is divided by zero.
RateBinary(op, a, b) ==
    IF op = "/" /\ b.ratio.n = 0 THEN Rate(Ratio(0, 1), TRUE)
    ELSE Rate(Rational(op, a.ratio, b.ratio), a.zero \/ b.zero)

ScaledColumn(money, ratio, flag, span) ==
    Column([t \in span |-> RoundDiv(MoneyOf(money, t) * ratio.n, ratio.d)], flag)

Times(a, b, flag, span) ==
    CASE IsRate(a) -> ScaledColumn(b, a.ratio, flag, span)
      [] IsRate(b) -> ScaledColumn(a, b.ratio, flag, span)
      [] ~IsRate(a) /\ ~IsRate(b) ->
           Column([t \in span |-> RoundDiv(MoneyOf(a, t) * MoneyOf(b, t), Minor)], flag)

\* Division of a whole column is masked where it would divide by zero.
Divided(a, b, flag, span) ==
    CASE IsRate(b) /\ b.ratio.n = 0 -> Column([t \in span |-> 0], [t \in span |-> TRUE])
      [] IsRate(b) /\ b.ratio.n # 0 -> ScaledColumn(a, Inverted(b.ratio), flag, span)
      [] ~IsRate(b) ->
           Column([t \in span |-> RoundDivElementwise(MoneyOf(a, t) * Minor, MoneyOf(b, t))],
                  [t \in span |-> flag[t] \/ MoneyOf(b, t) = 0])

BinaryColumn(op, a, b, span) ==
    LET flag == Combined(<<a, b>>, span) IN
    CASE IsRate(a) /\ IsRate(b) -> RateBinary(op, a, b)
      [] ~(IsRate(a) /\ IsRate(b)) /\ op \in {"+", "-"} ->
           Column([t \in span |-> MoneyOf(a, t) + (IF op = "+" THEN 1 ELSE -1) * MoneyOf(b, t)], flag)
      [] ~(IsRate(a) /\ IsRate(b)) /\ op = "*" -> Times(a, b, flag, span)
      [] ~(IsRate(a) /\ IsRate(b)) /\ op = "/" -> Divided(a, b, flag, span)

CompareColumn(op, a, b, span) ==
    Mask([t \in span |-> IF IsRate(a) /\ IsRate(b) THEN RatesHold(op, a.ratio, b.ratio)
                         ELSE Holds(op, MoneyOf(a, t), MoneyOf(b, t))],
         Combined(<<a, b>>, span))

\* Both branches are evaluated; only the taken one's flag survives.
WhereColumn(condition, then, otherwise, span) ==
    LET taken(t) == IF TruthOf(condition, t) THEN then ELSE otherwise IN
    Column([t \in span |-> MoneyOf(taken(t), t)],
           [t \in span |-> FlagOf(condition, t) \/ FlagOf(taken(t), t)])

BuiltinColumn(name, args, span) ==
    LET arg(k, t) == MoneyOf(args[k], t)
        quantum == 10 ^ (Places - arg(2, CHOOSE t \in span : TRUE) \div Minor)
        value(t) ==
            CASE name = "abs_" -> Magnitude(arg(1, t))
              [] name = "round_" -> RoundDiv(arg(1, t), quantum) * quantum
              [] name = "clip" -> Min({Max({arg(1, t), arg(2, t)}), arg(3, t)})
              [] name \in {"min", "max"} -> Extreme(name, [k \in DOMAIN args |-> arg(k, t)])
    IN Column([t \in span |-> value(t)], Combined(args, span))

\* Every operand is evaluated, whatever the others are.
RECURSIVE ColumnOf(_, _, _)
ColumnOf(env, expr, span) ==
    LET args == [k \in DOMAIN Operands(expr) |-> ColumnOf(env, Operands(expr)[k], span)]
        read(t) == CASE expr.op \in {"it", "agg"} -> Reading(env, expr, t)
                     [] expr.op = "prev" -> IF t < expr.lag THEN InitMinor(expr.init)
                                            ELSE Reading(env, expr, t - expr.lag)
                     [] expr.op = "cum" -> MapThenSumSet(LAMBDA d : Reading(env, expr, d), 0 .. t)
    IN CASE expr.op = "lit" -> Rate(expr.value, FALSE)
         [] expr.op = "param" -> Rate(ParamValue(expr.key), FALSE)
         [] expr.op = "time" ->
              IF expr.field \in {"index", "month"}
              THEN Column([t \in span |-> TimeNumber(expr.field, t)], NoFlag(span))
              ELSE Mask([t \in span |-> TimeTest(expr.field, t)], NoFlag(span))
         [] expr.op \in {"it", "agg", "prev", "cum"} ->
              Column([t \in span |-> read(t)], NoFlag(span))
         [] expr.op \in {"neg", "pos", "not"} -> UnaryColumn(expr.op, args[1], span)
         [] expr.op \in Arithmetic -> BinaryColumn(expr.op, args[1], args[2], span)
         [] expr.op \in Comparisons -> CompareColumn(expr.op, args[1], args[2], span)
         [] expr.op = "and" ->
              Mask([t \in span |-> \A k \in DOMAIN args : TruthOf(args[k], t)], Combined(args, span))
         [] expr.op = "or" ->
              Mask([t \in span |-> \E k \in DOMAIN args : TruthOf(args[k], t)], Combined(args, span))
         [] expr.op = "where" -> WhereColumn(args[1], args[2], args[3], span)
         [] expr.op \in DOMAIN Arity -> BuiltinColumn(expr.op, args, span)

\* What a formula gives its item: money and a flag, day by day.
FormulaColumn(env, expr, span) ==
    LET value == ColumnOf(env, expr, span) IN
    [t \in span |-> [minor |-> MoneyOf(value, t), zero |-> FlagOf(value, t)]]
=============================================================================
