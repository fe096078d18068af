------------------------------ MODULE Formula ------------------------------
(* The formula language (engine/formula.py, the rendering half of          *)
(* sdk/introspection.py).  A formula is the tree Python's parser makes of  *)
(* its text; the translator turns it into an expression of the closed set  *)
(* of nodes below or refuses it with a code, and the renderer writes an    *)
(* expression back as text.  The trees are recursive, so nothing here is   *)
(* used from a module of proofs.                                           *)
EXTENDS Engine

CONSTANTS
    Identifiers,   \* the strings that are well-formed ids and parameter keys
    Selectors,     \* the strings that are well-formed selectors
    MaxDepth,      \* nesting beyond this is refused
    MaxLag,        \* a longer lag is refused
    MaxLiteral,    \* a larger number is refused
    Places,        \* decimal places of money
    Sources        \* trees of formula texts an author may write

MeasureNames == {"cash", "accrual"}
DefaultMeasure == "cash"
TimeFields == {"index", "month", "is_quarter_end", "is_business_day"}
Arithmetic == {"+", "-", "*", "/"}
Comparisons == {"==", "!=", "<", "<=", ">", ">="}
\* The builtins and how many arguments each takes.
Arity == [min |-> 2 .. MaxDepth, max |-> 2 .. MaxDepth, clip |-> {3}, abs_ |-> {1}, round_ |-> {1}]
-----------------------------------------------------------------------------
(* Expressions: leaves, and nodes with operands.                           *)

Ratio(n, d) == [n |-> n, d |-> d]
Lit(value) == [op |-> "lit", value |-> value]
Op(op, args) == [op |-> op, args |-> args]

Leaf(expr) == expr.op \in {"lit", "param", "time", "it", "prev", "agg", "cum"}
Operands(expr) == IF Leaf(expr) THEN <<>> ELSE expr.args

\* The references of an expression, in source order.
RECURSIVE Refs(_)
Refs(expr) ==
    IF expr.op \in {"it", "prev", "agg", "cum"} THEN <<expr>>
    ELSE FlattenSeq([k \in DOMAIN Operands(expr) |-> Refs(Operands(expr)[k])])
-----------------------------------------------------------------------------
(* The translator: an expression, or the code of its refusal.              *)

Rejected(code) == [expr |-> None, code |-> code]
Accepted(expr) == [expr |-> expr, code |-> None]
Malformed == Rejected("CK-E003")
Ok(outcome) == outcome.code = None

\* The first refusal among some parts, or what they build together.
Built(parts, expr) ==
    IF \A k \in DOMAIN parts : Ok(parts[k]) THEN Accepted(expr)
    ELSE SelectSeq(parts, LAMBDA part : ~Ok(part))[1]

IsText(node, among) == node.node = "Constant" /\ node.type = "string" /\ node.text \in among
IsInt(node) == node.node = "Constant" /\ node.type = "int"

\* Keywords of a call: known, named, given once.
KeywordsOf(call, allowed) ==
    LET named(k) == call.keywords[k].name IN
    /\ \A k \in DOMAIN call.keywords : named(k) \in allowed
    /\ \A j, k \in DOMAIN call.keywords : named(j) = named(k) => j = k
Given(call, name) == \E k \in DOMAIN call.keywords : call.keywords[k].name = name
Keyword(call, name) ==
    call.keywords[CHOOSE k \in DOMAIN call.keywords : call.keywords[k].name = name].value

MeasureOk(call) == Given(call, "measure") => IsText(Keyword(call, "measure"), MeasureNames)
MeasureOf(call) == IF Given(call, "measure") THEN Keyword(call, "measure").text ELSE DefaultMeasure

TranslateConstant(node) ==
    CASE node.type = "bool" -> Accepted(Lit(IF node.truth THEN Ratio(1, 1) ELSE Ratio(0, 1)))
      [] node.type \in {"int", "decimal"} ->
           IF Magnitude(node.value.n) > MaxLiteral * node.value.d THEN Malformed
           ELSE Accepted(Lit(node.value))
      [] node.type \in {"string", "none"} -> Malformed

RECURSIVE RootedAtP(_)
RootedAtP(node) == CASE node.node = "Attribute" -> RootedAtP(node.base)
                     [] node.node = "Name" -> node.id = "p"
                     [] node.node \notin {"Attribute", "Name"} -> FALSE

\* p.<key> and t.<field> are the only attributes.
TranslateAttribute(node) ==
    CASE node.base.node = "Attribute" -> IF RootedAtP(node) THEN Rejected("CK-E007") ELSE Malformed
      [] node.base.node = "Name" ->
           (CASE node.base.id = "p" -> IF node.attr \in Identifiers
                                       THEN Accepted([op |-> "param", key |-> node.attr])
                                       ELSE Rejected("CK-E007")
              [] node.base.id = "t" -> IF node.attr \in TimeFields
                                       THEN Accepted([op |-> "time", field |-> node.attr])
                                       ELSE Malformed
              [] node.base.id \notin {"p", "t"} -> Malformed)
      [] node.base.node \notin {"Attribute", "Name"} -> Malformed

\* it() and cum(): one item, and a measure.
TranslateRead(op, call) ==
    IF /\ KeywordsOf(call, {"measure"})
       /\ Len(call.args) = 1
       /\ IsText(call.args[1], Identifiers)
       /\ MeasureOk(call)
    THEN Accepted([op |-> op, of |-> call.args[1].text, measure |-> MeasureOf(call)])
    ELSE Malformed

\* agg(): the selector comes first or as tag=, never both.
TranslateAgg(call) ==
    IF \/ ~KeywordsOf(call, {"tag", "measure"})
       \/ Len(call.args) > 1
       \/ (Len(call.args) = 1) = Given(call, "tag")
    THEN Malformed
    ELSE LET selector == IF call.args # <<>> THEN call.args[1] ELSE Keyword(call, "tag") IN
         IF IsText(selector, Selectors) /\ MeasureOk(call)
         THEN Accepted([op |-> "agg", of |-> selector.text, measure |-> MeasureOf(call)])
         ELSE Malformed

\* prev(init=): a number, with or without its sign, or a parameter.
InitOf(outcome) ==
    IF ~Ok(outcome) THEN outcome
    ELSE CASE outcome.expr.op \in {"lit", "param"} -> outcome
           [] outcome.expr.op \in {"neg", "pos", "not"} ->
                LET operand == outcome.expr.args[1] IN
                IF operand.op # "lit" THEN Malformed
                ELSE Accepted(Lit(IF outcome.expr.op = "neg"
                                  THEN Ratio(-operand.value.n, operand.value.d) ELSE operand.value))
           [] outcome.expr.op \notin {"lit", "param", "neg", "pos", "not"} -> Malformed

TranslatePrev(call, init) ==
    LET lag == IF Given(call, "n") THEN Keyword(call, "n").value.n ELSE 1 IN
    IF \/ ~KeywordsOf(call, {"n", "init", "measure"})
       \/ Len(call.args) # 1
       \/ Given(call, "n") /\ ~IsInt(Keyword(call, "n"))
    THEN Malformed
    ELSE IF lag \notin 1 .. MaxLag \/ ~IsText(call.args[1], Identifiers) THEN Malformed
    ELSE IF ~Ok(InitOf(init)) THEN InitOf(init)
    ELSE IF MeasureOk(call)
    THEN Accepted([op |-> "prev", of |-> call.args[1].text, lag |-> lag,
                   init |-> InitOf(init).expr, measure |-> MeasureOf(call)])
    ELSE Malformed

\* where() and the builtins; round_() has its digits as a keyword.
TranslateBuiltin(call, args) ==
    LET name == call.func.id
        exprs == [k \in DOMAIN args |-> args[k].expr]
        digits == IF Given(call, "ndigits") THEN Keyword(call, "ndigits") ELSE [value |-> Ratio(0, 1)]
    IN IF ~KeywordsOf(call, IF name = "round_" THEN {"ndigits"} ELSE {}) THEN Malformed
       ELSE IF \E k \in DOMAIN args : ~Ok(args[k]) THEN Built(args, None)
       ELSE IF Len(args) \notin (IF name = "where" THEN {3} ELSE Arity[name]) THEN Malformed
       ELSE IF name # "round_" THEN Accepted(Op(name, exprs))
       ELSE IF \/ Given(call, "ndigits") /\ ~IsInt(digits)
               \/ digits.value.n \notin 0 .. Places
       THEN Malformed
       ELSE Accepted(Op("round_", Append(exprs, Lit(digits.value))))

\* Every node the language has, and nothing else.
RECURSIVE Visit(_, _)
Visit(node, depth) ==
    LET parts(nodes) == [k \in DOMAIN nodes |-> Visit(nodes[k], depth + 1)]
        exprs(nodes) == [k \in DOMAIN nodes |-> parts(nodes)[k].expr]
    IN IF depth > MaxDepth THEN Malformed
       ELSE CASE node.node = "Constant" -> TranslateConstant(node)
              [] node.node = "Attribute" -> TranslateAttribute(node)
              [] node.node = "Call" ->
                   IF node.func.node # "Name" THEN Malformed
                   ELSE (CASE node.func.id \in {"it", "cum"} -> TranslateRead(node.func.id, node)
                           [] node.func.id = "agg" -> TranslateAgg(node)
                           [] node.func.id = "prev" ->
                                TranslatePrev(node, IF Given(node, "init") THEN Visit(Keyword(node, "init"), 0)
                                                    ELSE Accepted(Lit(Ratio(0, 1))))
                           [] node.func.id \in {"where"} \cup DOMAIN Arity ->
                                TranslateBuiltin(node, parts(node.args))
                           [] OTHER -> Malformed)
              [] node.node = "BinOp" -> IF node.ops[1] \notin Arithmetic THEN Malformed
                                        ELSE Built(parts(node.values), Op(node.ops[1], exprs(node.values)))
              [] node.node = "Compare" -> IF Len(node.ops) # 1 \/ node.ops[1] \notin Comparisons THEN Malformed
                                          ELSE Built(parts(node.values), Op(node.ops[1], exprs(node.values)))
              [] node.node \in {"UnaryOp", "BoolOp"} ->
                   Built(parts(node.values), Op(node.ops[1], exprs(node.values)))
              [] node.node \in {"Name", "Other", "SyntaxError"} -> Malformed

Parse(source) == Visit(source, 0)
-----------------------------------------------------------------------------
(* The renderer.  An expression is written with brackets around every      *)
(* arithmetic, comparison and logical node, but "not (x)" has none around  *)
(* it; what is modelled is the tree Python reads in that text.             *)

Number(value) ==
    IF value.n < 0
    THEN [node |-> "UnaryOp", ops |-> <<"neg">>,
          values |-> <<[node |-> "Constant", type |-> "decimal", value |-> Ratio(-value.n, value.d)]>>]
    ELSE [node |-> "Constant", type |-> IF value.d = 1 THEN "int" ELSE "decimal", value |-> value]
Text(value) == [node |-> "Constant", type |-> "string", text |-> value]
NameOf(id) == [node |-> "Name", id |-> id]
Attribute(root, attr) == [node |-> "Attribute", base |-> NameOf(root), attr |-> attr]
Call(name, args, keywords) ==
    [node |-> "Call", func |-> NameOf(name), args |-> args, keywords |-> keywords]
Named(name, value) == [name |-> name, value |-> value]
Node(node, op, values) == [node |-> node, ops |-> <<op>>, values |-> values]
Negation(expr) == expr.op = "not"

\* "not" binds looser than any operator beside it: first, it takes both
\* operands; second, it is no expression at all.
Infix(node, expr, read) ==
    CASE Negation(expr.args[2]) -> [node |-> "SyntaxError"]
      [] ~Negation(expr.args[2]) /\ Negation(expr.args[1]) ->
           Node("UnaryOp", "not", <<Node(node, expr.op, <<read[1].values[1], read[2]>>)>>)
      [] ~Negation(expr.args[2]) /\ ~Negation(expr.args[1]) -> Node(node, expr.op, read)

RoundCall(read) == Call("round_", <<read[1]>>, <<Named("ndigits", read[2])>>)

RECURSIVE Rendered(_)
Rendered(expr) ==
    LET read == [k \in DOMAIN Operands(expr) |-> Rendered(Operands(expr)[k])]
        measure == Named("measure", Text(expr.measure))
    IN CASE expr.op = "lit" -> Number(expr.value)
         [] expr.op = "param" -> Attribute("p", expr.key)
         [] expr.op = "time" -> Attribute("t", expr.field)
         [] expr.op \in {"it", "cum"} -> Call(expr.op, <<Text(expr.of)>>, <<measure>>)
         [] expr.op = "agg" -> Call("agg", <<>>, <<Named("tag", Text(expr.of)), measure>>)
         [] expr.op = "prev" ->
              Call("prev", <<Text(expr.of)>>,
                   <<Named("n", Number(Ratio(expr.lag, 1))), Named("init", Rendered(expr.init)), measure>>)
         [] expr.op \in {"neg", "pos", "not"} -> Node("UnaryOp", expr.op, read)
         [] expr.op \in Arithmetic -> Infix("BinOp", expr, read)
         [] expr.op \in Comparisons -> Infix("Compare", expr, read)
         [] expr.op \in {"and", "or"} -> Node("BoolOp", expr.op, read)
         [] expr.op = "round_" -> RoundCall(read)
         [] expr.op \in {"where"} \cup (DOMAIN Arity \ {"round_"}) -> Call(expr.op, read, <<>>)

\* A "not" beside an operator: the renderer leaves its brackets out.
RECURSIVE NegatesAnOperand(_)
NegatesAnOperand(expr) ==
    \/ /\ expr.op \in Arithmetic \cup Comparisons
       /\ \E k \in DOMAIN expr.args : Negation(expr.args[k])
    \/ \E k \in DOMAIN Operands(expr) : NegatesAnOperand(Operands(expr)[k])
=============================================================================
