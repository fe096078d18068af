------------------------------ MODULE StagedCell ------------------------------
(* The compiled cells of a feedback loop (engine/fold.py): a formula is    *)
(* walked once, before the loop's days are evaluated one by one, and       *)
(* becomes a function of the day.  What is the same every day is computed  *)
(* during the walk: rates, the rounding of a rate, and the part of an      *)
(* aggregate that the loop does not change.                                *)
EXTENDS ColumnEvaluator

Const(ratio, flag) == [kind |-> "const", ratio |-> ratio, flag |-> flag]
Cell(value, flag) == [value |-> value, flag |-> flag]
Dyn(kind, at) == [kind |-> kind, at |-> at]
Staged(node) == node.kind = "const"

\* A compiled node as money, and as a mask.
AsMoney(node) ==
    CASE node.kind = "const" -> LET cell == Cell(ToMinor(node.ratio), node.flag) IN [t \in Days |-> cell]
      [] node.kind = "money" -> node.at
      [] node.kind = "mask" ->
           [t \in Days |-> Cell(IF node.at[t].value THEN Minor ELSE 0, node.at[t].flag)]
AsMask(node) ==
    CASE node.kind = "const" -> LET cell == Cell(node.ratio.n # 0, node.flag) IN [t \in Days |-> cell]
      [] node.kind = "mask" -> node.at
      [] node.kind = "money" -> [t \in Days |-> Cell(node.at[t].value # 0, node.at[t].flag)]

\* Both operands' flags, and a value made of both.
Merged(kind, f(_, _), a, b) ==
    Dyn(kind, [t \in Days |-> Cell(f(a[t].value, b[t].value), a[t].flag \/ b[t].flag)])
Mapped(kind, f(_), a) == Dyn(kind, [t \in Days |-> Cell(f(a[t].value), a[t].flag)])

\* An aggregate: what lies outside the loop is summed once for all days.
Presummed(env, expr, loop) ==
    LET outside == ReadItems(expr) \ loop IN
    [t \in Days |-> MapThenSumSet(LAMBDA i : Read(env, compiled.items, i, expr.measure)[t], outside)]
CompiledAgg(env, expr, loop) ==
    LET presum == Presummed(env, expr, loop)
        live(t) == MapThenSumSet(LAMBDA i : Read(env, compiled.items, i, expr.measure)[t],
                                 ReadItems(expr) \cap loop)
    IN Dyn("money", [t \in Days |-> Cell(presum[t] + live(t), FALSE)])

CompiledPrev(env, expr) ==
    LET initial == InitMinor(expr.init) IN
    Dyn("money", [t \in Days |-> Cell(IF t < expr.lag THEN initial
                                      ELSE Reading(env, expr, t - expr.lag), FALSE)])

CompiledUnary(op, operand) ==
    CASE op = "not" -> Mapped("mask", LAMBDA v : ~v, AsMask(operand))
      [] op = "pos" -> operand
      [] op = "neg" /\ Staged(operand) -> Const(Opposite(operand.ratio), operand.flag)
      [] op = "neg" /\ ~Staged(operand) -> Mapped("money", LAMBDA v : -v, AsMoney(operand))

(* Mutant: the constant's own flag is lost.                                *)
ScaledCellUnflagged(money, ratio, flag) ==
    Dyn("money", [t \in Days |-> Cell(RoundDiv(money[t].value * ratio.n, ratio.d), money[t].flag)])

\* A constant and money: the ratio was settled at compile time.
ScaledCell(money, ratio, flag) ==
    Dyn("money", [t \in Days |-> Cell(RoundDiv(money[t].value * ratio.n, ratio.d), money[t].flag \/ flag)])

CompiledDivision(a, b) ==
    LET over == AsMoney(b) IN
    CASE Staged(b) /\ b.ratio.n = 0 -> Dyn("money", [t \in Days |-> Cell(0, TRUE)])
      [] Staged(b) /\ b.ratio.n # 0 -> ScaledCell(AsMoney(a), Inverted(b.ratio), b.flag)
      [] ~Staged(b) ->
           Dyn("money", [t \in Days |->
               IF over[t].value = 0 THEN Cell(0, TRUE)
               ELSE Cell(RoundDiv(AsMoney(a)[t].value * Minor, over[t].value),
                         AsMoney(a)[t].flag \/ over[t].flag)])

CompiledBinary(op, a, b) ==
    CASE Staged(a) /\ Staged(b) ->
           IF op = "/" /\ b.ratio.n = 0 THEN Const(Ratio(0, 1), TRUE)
           ELSE Const(Rational(op, a.ratio, b.ratio), a.flag \/ b.flag)
      [] ~(Staged(a) /\ Staged(b)) /\ op = "+" -> Merged("money", +, AsMoney(a), AsMoney(b))
      [] ~(Staged(a) /\ Staged(b)) /\ op = "-" -> Merged("money", -, AsMoney(a), AsMoney(b))
      [] ~(Staged(a) /\ Staged(b)) /\ op = "*" ->
           (CASE Staged(a) -> ScaledCell(AsMoney(b), a.ratio, a.flag)
              [] Staged(b) -> ScaledCell(AsMoney(a), b.ratio, b.flag)
              [] ~Staged(a) /\ ~Staged(b) ->
                   Merged("money", LAMBDA x, y : RoundDiv(x * y, Minor), AsMoney(a), AsMoney(b)))
      [] ~(Staged(a) /\ Staged(b)) /\ op = "/" -> CompiledDivision(a, b)

CompiledCompare(op, a, b) ==
    IF Staged(a) /\ Staged(b)
    THEN LET cell == Cell(RatesHold(op, a.ratio, b.ratio), a.flag \/ b.flag)
         IN Dyn("mask", [t \in Days |-> cell])
    ELSE Merged("mask", LAMBDA x, y : Holds(op, x, y), AsMoney(a), AsMoney(b))

\* Operand by operand: the flags of all, whatever the result already is.
CompiledLogical(op, operands) ==
    LET join(x, y) == IF op = "and" THEN x /\ y ELSE x \/ y
        cells == [k \in DOMAIN operands |-> AsMask(operands[k])]
        total[k \in DOMAIN cells] ==
            IF k = 1 THEN cells[1] ELSE Merged("mask", join, total[k - 1], cells[k]).at
    IN Dyn("mask", total[Len(cells)])

CompiledWhere(condition, then, otherwise) ==
    LET taken(t) == IF condition[t].value THEN then[t] ELSE otherwise[t] IN
    Dyn("money", [t \in Days |-> Cell(taken(t).value, condition[t].flag \/ taken(t).flag)])

\* round_() reads its digits once, on the first day.
CompiledBuiltin(name, args) ==
    LET flag(t) == \E k \in DOMAIN args : args[k][t].flag
        quantum == 10 ^ (Places - args[2][0].value \div Minor)
        value(t) ==
            CASE name = "abs_" -> Magnitude(args[1][t].value)
              [] name = "round_" -> RoundDiv(args[1][t].value, quantum) * quantum
              [] name = "clip" -> Min({Max({args[1][t].value, args[2][t].value}), args[3][t].value})
              [] name \in {"min", "max"} -> Extreme(name, [k \in DOMAIN args |-> args[k][t].value])
    IN Dyn("money", [t \in Days |-> Cell(value(t), flag(t))])

RECURSIVE CompileNode(_, _, _)
CompileNode(env, expr, loop) ==
    LET args == [k \in DOMAIN Operands(expr) |-> CompileNode(env, Operands(expr)[k], loop)]
        money == [k \in DOMAIN args |-> AsMoney(args[k])]
    IN CASE expr.op = "lit" -> Const(expr.value, FALSE)
         [] expr.op = "param" -> Const(ParamValue(expr.key), FALSE)
         [] expr.op = "time" ->
              IF expr.field \in {"index", "month"}
              THEN Dyn("money", [t \in Days |-> Cell(TimeNumber(expr.field, t), FALSE)])
              ELSE Dyn("mask", [t \in Days |-> Cell(TimeTest(expr.field, t), FALSE)])
         [] expr.op = "it" -> Dyn("money", [t \in Days |-> Cell(Reading(env, expr, t), FALSE)])
         [] expr.op = "agg" -> CompiledAgg(env, expr, loop)
         [] expr.op = "prev" -> CompiledPrev(env, expr)
         [] expr.op = "cum" ->
              Dyn("money", [t \in Days |->
                  Cell(MapThenSumSet(LAMBDA d : Reading(env, expr, d), 0 .. t), FALSE)])
         [] expr.op \in {"neg", "pos", "not"} -> CompiledUnary(expr.op, args[1])
         [] expr.op \in Arithmetic -> CompiledBinary(expr.op, args[1], args[2])
         [] expr.op \in Comparisons -> CompiledCompare(expr.op, args[1], args[2])
         [] expr.op \in {"and", "or"} -> CompiledLogical(expr.op, args)
         [] expr.op = "where" -> CompiledWhere(AsMask(args[1]), money[2], money[3])
         [] expr.op \in DOMAIN Arity -> CompiledBuiltin(expr.op, money)

\* A cell of the loop, for each of its days.
CompileCell(env, expr, loop) ==
    LET cells == AsMoney(CompileNode(env, expr, loop)) IN
    [t \in Days |-> [minor |-> cells[t].value, zero |-> cells[t].flag]]
=============================================================================
