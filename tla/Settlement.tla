----------------------------- MODULE Settlement -----------------------------
(* Settlement and VAT of one accrued line (engine/expand.py, engine/vat.py,*)
(* engine/calendars.py): an amount is split into legs, each leg lands on a *)
(* day, and the line's VAT follows the line and its legs.  The base grain  *)
(* is the day, so a period index is a day of the horizon.                  *)
EXTENDS Money, SequencesExt

CONSTANTS
    Horizon,       \* number of days of the horizon
    Closed,        \* the days that are not business days
    MonthLength,   \* days in a month
    None,          \* an absent field
    Unknown        \* a rate naming a parameter the book does not define

ASSUME HorizonAssumption ==
    /\ Horizon \in Nat \ {0}
    /\ MonthLength \in Nat \ {0}
    /\ Closed \subseteq Int
    /\ IsFiniteSet(Closed)

Days == 0 .. (Horizon - 1)
Outside == -1
DayOf(day) == IF day \in Days THEN day ELSE Outside

Columns == {"accrual", "cash", "outputAccrual", "inputAccrual", "outputCash", "inputCash"}
Zeros == [c \in Columns |-> [t \in Days |-> 0]]

Sum(s) == FoldLeft(LAMBDA total, n : total + n, 0, s)

Posting(column, day, amount) == [column |-> column, day |-> day, amount |-> amount]

\* Scattering postings into an item's columns: what lands outside is dropped.
Post(columns, p) ==
    IF p.day = Outside THEN columns ELSE [columns EXCEPT ![p.column][p.day] = @ + p.amount]

Posted(columns, postings) == FoldLeft(LAMBDA posted, p : Post(posted, p), columns, postings)
-----------------------------------------------------------------------------
(* Where a leg lands.                                                      *)

\* The nearest business day before or after a day.
Adjust(day, mode) ==
    LET walk == Cardinality(Closed) IN
    CASE mode = "none" -> day
      [] mode = "prev" -> Max({d \in (day - walk) .. day : d \notin Closed})
      [] mode = "next" -> Min({d \in day .. (day + walk) : d \notin Closed})

MonthEnd(day) == (day \div MonthLength) * MonthLength + MonthLength - 1

LegTarget(term, day) ==
    LET basis == IF term.basis = "month_end" THEN MonthEnd(day) ELSE day
    IN DayOf(Adjust(basis + term.offset, term.adjust))
-----------------------------------------------------------------------------
(* How an amount splits.  A settlement is None or a sequence of terms, a   *)
(* term a share of the amount, a fixed amount or the remainder.            *)

TermsOf(settlement, kind) == {k \in DOMAIN settlement : settlement[k].kind = kind}

TermTotal(settlement, kind) ==
    MapThenSumSet(LAMBDA k : settlement[k].value, TermsOf(settlement, kind))

Mixed(settlement) ==
    TermsOf(settlement, "share") \notin {{}, DOMAIN settlement}

Classify(settlement) ==
    CASE settlement = None -> "immediate"
      [] settlement = <<>> -> "never"
      [] settlement \notin {None, <<>>} ->
           CASE Mixed(settlement) -> "invalid"
             [] TermsOf(settlement, "share") = DOMAIN settlement ->
                  IF TermTotal(settlement, "share") = RateScale THEN "shares" ELSE "invalid"
             [] OTHER ->
                  IF Cardinality(TermsOf(settlement, "remainder")) = 1
                  THEN "fixed" ELSE "invalid"

ClassifyNotes(settlement) ==
    IF Classify(settlement) # "invalid" THEN {}
    ELSE IF TermsOf(settlement, "share") = DOMAIN settlement THEN {"CK-E004"} ELSE {"CK-E005"}

\* The last share absorbs what rounding left of the amount.
ShareLegs(settlement, amount) ==
    LET share(k) == MulRate(amount, settlement[k].value)
        last == Len(settlement)
    IN [k \in DOMAIN settlement |->
          IF k = last THEN amount - Sum([j \in 1 .. (last - 1) |-> share(j)]) ELSE share(k)]

\* Fixed legs never change sign: a negative amount is all remainder.
FixedLegs(settlement, amount) ==
    LET leftover == amount - TermTotal(settlement, "amount") IN
    [k \in DOMAIN settlement |->
        CASE amount < 0 -> IF settlement[k].kind = "remainder" THEN amount ELSE 0
          [] amount >= 0 -> IF settlement[k].kind = "remainder" THEN Max({0, leftover})
                            ELSE settlement[k].value]

GrossLegs(settlement, amount) ==
    IF Classify(settlement) = "shares" THEN ShareLegs(settlement, amount)
    ELSE FixedLegs(settlement, amount)

NetLegs(settlement, amount) ==
    LET gross == GrossLegs(settlement, amount) IN
    [k \in DOMAIN gross |-> gross[k] - MulRate(gross[k], settlement[k].withholding)]

SplitNotes(settlement, amount) ==
    IF Classify(settlement) # "fixed" \/ TermsOf(settlement, "amount") = {} THEN {}
    ELSE CASE amount < 0 -> {"CK-W002"}
           [] amount >= 0 -> IF amount < TermTotal(settlement, "amount") THEN {"CK-W001"} ELSE {}
-----------------------------------------------------------------------------
(* The line's VAT.  A rule is a VatSpec with the item's direction.         *)

NoVat == [rate |-> 0, recoverable |-> 0, treatment |-> "out_of_scope", direction |-> None]

ResolveVat(spec, direction) ==
    IF spec = None \/ (spec # None /\ spec.rate = Unknown) THEN NoVat
    ELSE [rate |-> spec.rate, recoverable |-> spec.recoverable,
          treatment |-> spec.treatment, direction |-> direction]

Inert(rule) == rule.treatment \notin {"standard", "reverse_charge"} \/ rule.rate = 0

\* Sales VAT or purchase VAT: the direction decides, then the sign.
OutputSide(rule, amount) ==
    CASE rule.direction = "in" -> TRUE
      [] rule.direction = "out" -> FALSE
      [] rule.direction = None -> amount >= 0

LineVat(rule, amount) ==
    LET line == MulRate(amount, rule.rate)
        output == OutputSide(rule, amount)
        deductible == IF rule.recoverable = RateScale THEN line
                      ELSE MulRate(line, rule.recoverable)
        reverse == rule.treatment = "reverse_charge"
    IN [cash   |-> IF reverse THEN 0 ELSE line,
        output |-> IF reverse = output THEN 0 ELSE IF output THEN line ELSE -line,
        input  |-> IF output THEN 0 ELSE deductible]

(* Mutant: every leg is rounded and nothing absorbs the rest.              *)
AllocateRounded(total, legs) ==
    [k \in DOMAIN legs |-> RoundDivElementwise(total * legs[k], Sum(legs))]

\* A line's total over its legs in proportion, the last absorbing the rest.
Allocate(total, legs) ==
    LET last == Len(legs)
        whole == Sum(legs)
        part(k) == RoundDivElementwise(total * legs[k], whole)
    IN [k \in DOMAIN legs |->
          CASE last = 1 -> total
            [] last > 1 /\ k < last -> part(k)
            [] last > 1 /\ k = last ->
                 IF whole = 0 THEN 0 ELSE total - Sum([j \in 1 .. (last - 1) |-> part(j)])]
-----------------------------------------------------------------------------
(* A line becomes cash and VAT: the legs and days it moves on.             *)

Splits(kind) == kind \in {"shares", "fixed"}

LegDays(settlement, day) == [k \in DOMAIN settlement |-> LegTarget(settlement[k], day)]

CashPostings(settlement, kind, day, amount) ==
    CASE kind \in {"never", "invalid"} -> <<>>
      [] kind = "immediate" -> <<Posting("cash", day, amount)>>
      [] Splits(kind) ->
           LET net == NetLegs(settlement, amount)
               target == LegDays(settlement, day)
           IN [k \in DOMAIN net |-> Posting("cash", target[k], net[k])]

VatOnCash(settlement, kind, day, amount, column, total) ==
    CASE kind \in {"never", "invalid"} -> <<>>
      [] kind = "immediate" -> <<Posting(column, day, total)>>
      [] Splits(kind) ->
           LET parts == Allocate(total, GrossLegs(settlement, amount))
               target == LegDays(settlement, day)
           IN [k \in DOMAIN parts |-> Posting(column, target[k], parts[k])]

VatPostings(settlement, kind, rule, day, amount) ==
    IF Inert(rule) THEN <<>>
    ELSE LET vat == LineVat(rule, amount) IN
         <<Posting("outputAccrual", day, vat.output), Posting("inputAccrual", day, vat.input)>>
         \o VatOnCash(settlement, kind, day, amount, "cash", vat.cash)
         \o VatOnCash(settlement, kind, day, amount, "outputCash", vat.output)
         \o VatOnCash(settlement, kind, day, amount, "inputCash", vat.input)

Settle(settlement, kind, rule, day, amount) ==
    CashPostings(settlement, kind, day, amount)
    \o VatPostings(settlement, kind, rule, day, amount)

\* A batch of lines as postings, accrual included.
LinePostings(settlement, kind, rule, lines) ==
    FlattenSeq([n \in DOMAIN lines |->
        <<Posting("accrual", lines[n].day, lines[n].amount)>>
        \o Settle(settlement, kind, rule, lines[n].day, lines[n].amount)])
-----------------------------------------------------------------------------
(* The tax account of a regime (engine/tax.py).                            *)

\* One return: the credit it leaves and the movement of its payment; a refund
\* pays the credit out.
Assess(credit, due, refunds, surcharge) ==
    LET applied == Min({credit, due})
        kept == IF due >= 0 THEN credit - applied ELSE credit - due
        payable == IF due >= 0 THEN due - applied ELSE 0
        surcharged == payable + MulRate(payable, surcharge)
        refund == IF refunds THEN kept ELSE 0
    IN [credit |-> kept - refund, movement |-> refund - surcharged]

\* The credit after each return and the movement of its payment, given what is
\* due at the day each return closes on.
Account(due, refunds, surcharge) ==
    LET at[t \in -1 .. (Horizon - 1)] ==
        IF t = -1 THEN [credit |-> 0, movement |-> 0]
        ELSE IF t \in DOMAIN due THEN Assess(at[t - 1].credit, due[t], t \in refunds, surcharge)
        ELSE [credit |-> at[t - 1].credit, movement |-> 0]
    IN [t \in Days |-> at[t]]
=============================================================================
