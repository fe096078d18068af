------------------------------- MODULE Graph -------------------------------
(* Compilation of a book (engine/graph.py, the planning half of            *)
(* engine/tax.py): formulas are bound to the items they read, the tax      *)
(* regime becomes two items of the book, and the dependency graph is       *)
(* condensed into components in evaluation order.                          *)
EXTENDS Settlement

CONSTANTS
    Credit,       \* _tax:<id>:credit, a stock
    Liability,    \* _tax:<id>:liability, a flow
    TaxTag        \* the tag of both, cat:tax

TaxIds == {Credit, Liability}

Derived(item) == item.kind \in {"derived", "stock"}

TaxItem(i) ==
    [kind |-> IF i = Credit THEN "stock" ELSE "flow", tag |-> TaxTag, direction |-> None,
     segments |-> <<>>, formula |-> None, settlement |-> None, vat |-> None]

\* By default a regime accumulates every item that carries a VatSpec.
TaxBase(items) == {i \in DOMAIN items \ TaxIds : items[i].vat # None}

\* A regime with nothing to accumulate is refused; otherwise its items join.
TaxNodes(items) == IF TaxBase(items) = {} THEN {} ELSE TaxIds
WithTax(items) ==
    [i \in DOMAIN items \cup TaxNodes(items) |->
        IF i \in TaxNodes(items) THEN TaxItem(i) ELSE items[i]]

\* The items a reference reads: agg() names a tag, the others an id.
Members(items, ref) ==
    IF ref.fn = "agg" THEN {i \in DOMAIN items : items[i].tag = ref.of}
    ELSE {ref.of} \cap DOMAIN items

RefNotes(items, i, ref) ==
    CASE Members(items, ref) = {} -> {"CK-E001"}
      [] ref.fn = "agg" /\ i \in Members(items, ref) -> {"CK-E002"}
      [] OTHER -> {}

KindNotes(item) ==
    IF item.kind = "flow" THEN IF item.formula = None THEN {} ELSE {"CK-E003"}
    ELSE (IF item.formula = None THEN {"CK-E003"} ELSE {})
         \cup (IF item.segments = <<>> THEN {}
               ELSE IF item.kind = "stock" THEN {"CK-E012"} ELSE {"CK-E003"})

ItemNotes(items, i) ==
    KindNotes(items[i])
    \cup (IF Derived(items[i]) /\ items[i].formula # None
          THEN UNION {RefNotes(items, i, ref) : ref \in items[i].formula} ELSE {})
    \cup (IF items[i].vat # None /\ items[i].vat.rate = Unknown THEN {"CK-E008"} ELSE {})

BoundItem(items, i, refs, problems) ==
    LET reads(some) == UNION {Members(items, ref) : ref \in some} IN
    [item   |-> items[i],
     expr   |-> {[ref |-> ref, members |-> Members(items, ref)] : ref \in refs},
     same   |-> reads({ref \in refs : ref.fn # "prev"}),
     lagged |-> reads({ref \in refs : ref.fn = "prev"}),
     broken |-> problems # {},
     problems |-> problems]

\* A tax item's dependencies are fixed; a broken item has none.
CompileItem(items, taxed, i) ==
    IF i \in taxed
    THEN [BoundItem(items, i, {}, {}) EXCEPT
            !.same = IF i = Credit THEN TaxBase(items) ELSE {Credit}]
    ELSE IF ItemNotes(items, i) # {} THEN BoundItem(items, i, {}, ItemNotes(items, i))
    ELSE BoundItem(items, i, IF Derived(items[i]) THEN items[i].formula ELSE {}, {})

\* Everything reached from a set along edges, in one step or more.
Reached(edges, from) ==
    LET next(s) == UNION {edges[n] : n \in s}
        grown[k \in Nat] == IF k = 0 THEN next(from)
                            ELSE LET g == grown[k - 1] IN g \cup next(g)
    IN grown[Cardinality(DOMAIN edges)]

\* A set listed so that each element follows what it needs.
InOrder(s, needs) ==
    LET listed[k \in 0 .. Cardinality(s)] ==
        IF k = 0 THEN <<>>
        ELSE LET before == listed[k - 1]
                 left == s \ ToSet(before)
             IN Append(before, CHOOSE n \in left : needs[n] \cap left \subseteq {n})
    IN listed[Cardinality(s)]

Cyclic(members, edges) ==
    LET inner == [n \in members |-> edges[n] \cap members]
    IN \E n \in members : n \in Reached(inner, {n})

\* The strongly connected components, dependencies first.
Components(reached) ==
    {{n} \cup {m \in reached[n] : n \in reached[m]} : n \in DOMAIN reached}

Ranked(components, edges) ==
    InOrder(components, [c \in components |->
                           {d \in components : \E n \in c : edges[n] \cap d # {}}])

Condense(edges) ==
    Ranked(Components([n \in DOMAIN edges |-> Reached(edges, {n})]), edges)

\* A cycle without prev(), or through a tax item, breaks all its members.
Refused(component, edges, same, taxed) ==
    /\ Cyclic(component, edges)
    /\ Cyclic(component, same) \/ component \cap taxed # {}

Disabled(entry) == [entry EXCEPT !.expr = {}, !.same = {}, !.lagged = {}, !.broken = TRUE]

RefusalCode(component, same) == IF Cyclic(component, same) THEN "CK-E002" ELSE "CK-E019"

\* The compiled book, given its items, its components and those refused.
CompiledBook(items, edges, same, components, refused, taxed) ==
    [items      |-> [i \in DOMAIN items |->
                       IF i \in UNION refused THEN Disabled(items[i]) ELSE items[i]],
     components |-> components,
     edges      |-> edges,
     taxed      |-> taxed,
     same       |-> same,
     notes      |-> UNION {{<<code, i>> : code \in items[i].problems} : i \in DOMAIN items}
                    \cup {<<RefusalCode(c, same), c>> : c \in refused}
                    \cup (IF taxed = {} THEN {<<"CK-E019", None>>} ELSE {})]

Refuse(items, edges, same, components, taxed) ==
    CompiledBook(items, edges, same, components,
                 {c \in ToSet(components) : Refused(c, edges, same, taxed)}, taxed)

Link(items, taxed) ==
    LET same == [i \in DOMAIN items |-> items[i].same]
        edges == [i \in DOMAIN items |-> items[i].same \cup items[i].lagged]
    IN Refuse(items, edges, same, Condense(edges), taxed)

Bind(items, taxed) == Link([i \in DOMAIN items |-> CompileItem(items, taxed, i)], taxed)

Compile(given) == Bind(WithTax(given), TaxNodes(given))

\* The changed items and all that depend on them.
Downstream(compiled, changed) ==
    LET dependents == [i \in DOMAIN compiled.edges |->
                         {j \in DOMAIN compiled.edges : i \in compiled.edges[j]}]
    IN changed \cup Reached(dependents, changed)
=============================================================================
