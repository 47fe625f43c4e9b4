----------------------------- MODULE PriceQuotes -----------------------------
(* apps/pricing, for one rate plan: staff activate and retire it and add    *)
(* overrides and modifiers while quotes are computed.  A quote reads the    *)
(* plan, its overrides, its modifiers and the policy's bounds one after the *)
(* other; an override is checked, then inserted.  Amounts are minor units   *)
(* of the plan's currency, dates are numbers, and 0 is a Sunday.            *)
EXTENDS Integers, FiniteSets, FiniteSetsExt

CONSTANTS Staff, Quoter, Nothing,
          BaseRate, Percent, Amount,   \* values that rates and adjustments take
          Bound,                       \* values that floors and ceilings take
          MaxDate,                     \* bound: dates are 0..MaxDate
          MaxOverrides, MaxModifiers,  \* bounds: rows ever added
          MaxVersion                   \* bound: saves of the plan

VARIABLES
  plan,        \* RatePlan: status, version, base rate
  overrides, modifiers,
  editing,     \* per member of staff: the call under way
  quote        \* per quoter: what it has read, and what it answered last

vars == <<plan, overrides, modifiers, editing, quote>>

Date == 0..MaxDate
Adjustment == [type : {"absolute"}, value : Amount \ {0}] \cup [type : {"percent"}, value : Percent \ {0}]
Override == {o \in [start_date : Date, end_date : Date, adjustment : Adjustment] :
               o.start_date <= o.end_date}

(* validate_modifier_config(): the shapes a modifier's config may have. *)
Modifier ==
  {m \in [type : {"season"}, start_date : Date, end_date : Date, pct : Percent] :
     m.start_date <= m.end_date}
  \cup [type : {"weekend"}, weekdays : {{6, 7}}, pct : Percent]
  \cup [type : {"holiday"}, dates : {{d} : d \in Date}, pct : Percent]
  \cup [type : {"long_stay"}, min_nights : 1..MaxDate, pct : Percent]
  \cup [type : {"corporate"}, pct : Percent]

Init ==
  /\ plan \in [status : {"draft"}, version : {0}, base_rate : BaseRate]
  /\ overrides = {} /\ modifiers = {}
  /\ editing = [s \in Staff |-> Nothing]
  /\ quote = [q \in Quoter |-> Nothing]

-----------------------------------------------------------------------------
(* PricingService's lifecycle.  Neither call looks at the plan's status,    *)
(* each saves the plan as it was read.                                      *)

ReadPlan(s) ==
  /\ editing[s] = Nothing /\ plan.version < MaxVersion
  /\ \E status \in {"active", "retired"} :
       editing' = [editing EXCEPT ![s] = [op |-> "status", row |-> [plan EXCEPT !.status = status]]]
  /\ UNCHANGED <<plan, overrides, modifiers, quote>>

SavePlan(s) ==
  /\ editing[s] # Nothing /\ editing[s].op = "status"
  /\ plan' = IF plan.version = editing[s].row.version
             THEN [editing[s].row EXCEPT !.version = @ + 1] ELSE plan
  /\ editing' = [editing EXCEPT ![s] = Nothing]
  /\ UNCHANGED <<overrides, modifiers, quote>>

overlap(a, b) == a.start_date <= b.end_date /\ b.start_date <= a.end_date

CheckOverride(s) ==
  /\ editing[s] = Nothing /\ Cardinality(overrides) < MaxOverrides
  /\ \E o \in Override :
       /\ \A existing \in overrides : ~overlap(o, existing)
       /\ editing' = [editing EXCEPT ![s] = [op |-> "override", row |-> o]]
  /\ UNCHANGED <<plan, overrides, modifiers, quote>>

(* A definition whose name carries a suffix is the one it is named after    *)
(* with a slip in it, for the properties to catch; nothing else uses it.    *)
Excluded_CheckedBefore(o) == FALSE

(* The database excludes overlapping ranges of one plan. *)
Excluded(o) == \E existing \in overrides : overlap(o, existing)

InsertOverride(s) ==
  LET o == editing[s].row
  IN
  /\ editing[s] # Nothing /\ editing[s].op = "override"
  /\ overrides' = IF Excluded(o) THEN overrides ELSE overrides \cup {o}
  /\ editing' = [editing EXCEPT ![s] = Nothing]
  /\ UNCHANGED <<plan, modifiers, quote>>

AddModifier ==
  /\ Cardinality(modifiers) < MaxModifiers
  /\ \E m \in Modifier : modifiers' = modifiers \cup {m}
  /\ UNCHANGED <<plan, overrides, editing, quote>>

-----------------------------------------------------------------------------
(* The computation.                                                         *)

Abs(n) == IF n < 0 THEN -n ELSE n

(* Money.percentage_of(): halves round away from zero. *)
percentage_of(amount, pct) ==
  LET rounded == (Abs(amount * pct) + 50) \div 100
  IN IF amount * pct < 0 THEN -rounded ELSE rounded

Nights(stay) == stay.arrival..(stay.arrival + stay.nights - 1)
Sum(S, value(_)) == MapThenSumSet(value, S)

covers(o, night) == o.start_date <= night /\ night <= o.end_date
override_adjustment(o, base) ==
  IF o.adjustment.type = "absolute" THEN o.adjustment.value
                                    ELSE percentage_of(base, o.adjustment.value)

(* effective_overrides() are in order of start_date; the first that covers. *)
override_amount(rows, night, base) ==
  LET covering == {o \in rows : covers(o, night)}
  IN IF covering = {} THEN 0
     ELSE override_adjustment(
            CHOOSE o \in covering : \A p \in covering : o.start_date <= p.start_date, base)

calendar_matches(m, night) ==
  CASE m.type = "season" -> m.start_date <= night /\ night <= m.end_date
    [] m.type = "weekend" -> ((night + 6) % 7) + 1 \in m.weekdays
    [] m.type = "holiday" -> night \in m.dates
    [] OTHER -> FALSE

segment_matches(m, stay) ==
  CASE m.type = "long_stay" -> stay.nights >= m.min_nights
    [] m.type = "corporate" -> stay.corporate
    [] OTHER -> FALSE

night_total(q, night) ==
  q.base + override_amount(q.overrides, night, q.base)
    + Sum({m \in q.modifiers : calendar_matches(m, night)}, LAMBDA m : percentage_of(q.base, m.pct))

nightly_subtotal(q) == Sum(Nights(q.stay), LAMBDA night : night_total(q, night))

subtotal(q) ==
  nightly_subtotal(q)
    + Sum({m \in q.modifiers : segment_matches(m, q.stay)},
          LAMBDA m : percentage_of(nightly_subtotal(q), m.pct))

clamp(amount, floor, ceiling) ==
  LET capped == IF ceiling # Nothing /\ amount > ceiling THEN ceiling ELSE amount
  IN IF floor # Nothing /\ capped < floor THEN floor ELSE capped

(* What NightlyPrice and PriceBreakdown refuse. *)
Invalid(q, total) ==
  \/ \E night \in Nights(q.stay) : night_total(q, night) < 0
  \/ subtotal(q) < 0 \/ total < 0

-----------------------------------------------------------------------------
(* PricingService.price().                                                  *)

Reading(q, step) == quote[q] # Nothing /\ quote[q].step = step

ReadActivePlan(q) ==
  /\ quote[q] = Nothing
  /\ plan.status = "active"
  /\ \E arrival \in Date, nights \in 1..(MaxDate + 1), corporate \in BOOLEAN :
       /\ arrival + nights - 1 <= MaxDate
       /\ quote' = [quote EXCEPT ![q] =
            [step |-> "overrides", base |-> plan.base_rate,
             stay |-> [arrival |-> arrival, nights |-> nights, corporate |-> corporate]]]
  /\ UNCHANGED <<plan, overrides, modifiers, editing>>

ReadOverrides(q) ==
  /\ Reading(q, "overrides")
  /\ quote' = [quote EXCEPT ![q] =
       [step |-> "modifiers", base |-> @.base, stay |-> @.stay, overrides |-> overrides]]
  /\ UNCHANGED <<plan, overrides, modifiers, editing>>

Compute(q) ==
  /\ Reading(q, "modifiers")
  /\ \E floor, ceiling \in Bound \cup {Nothing} :
       LET read == [base |-> quote[q].base, stay |-> quote[q].stay,
                    overrides |-> quote[q].overrides, modifiers |-> modifiers]
           total == clamp(subtotal(read), floor, ceiling)
       IN quote' = [quote EXCEPT ![q] =
            IF Invalid(read, total)
            THEN Nothing
            ELSE [step |-> "answered", read |-> read, floor |-> floor, ceiling |-> ceiling,
                  subtotal |-> subtotal(read), total |-> total]]
  /\ UNCHANGED <<plan, overrides, modifiers, editing>>

(* The quote is handed over; the quoter serves another. *)
Forget(q) ==
  /\ Reading(q, "answered")
  /\ quote' = [quote EXCEPT ![q] = Nothing]
  /\ UNCHANGED <<plan, overrides, modifiers, editing>>

Next ==
  \/ \E s \in Staff : ReadPlan(s) \/ SavePlan(s) \/ CheckOverride(s) \/ InsertOverride(s)
  \/ AddModifier
  \/ \E q \in Quoter : ReadActivePlan(q) \/ ReadOverrides(q) \/ Compute(q) \/ Forget(q)

Spec == Init /\ [][Next]_vars

-----------------------------------------------------------------------------
TypeOK ==
  /\ plan \in [status : {"draft", "active", "retired"}, version : 0..MaxVersion, base_rate : BaseRate]
  /\ overrides \subseteq Override /\ modifiers \subseteq Modifier
  /\ \A s \in Staff : editing[s] # Nothing => editing[s].op \in {"status", "override"}
  /\ \A q \in Quoter : quote[q] # Nothing =>
       quote[q].step \in {"overrides", "modifiers", "answered"}

(* A quote is auditable: its subtotal is the base rate of every night and   *)
(* every override and modifier that applies, none counted twice and none    *)
(* left out, and its total is the subtotal or the bound that it crossed.    *)
QuotesAddUp ==
  \A q \in Quoter : Reading(q, "answered") =>
    LET a == quote[q]
        r == a.read
        night_by_night ==
          Sum(Nights(r.stay), LAMBDA n :
            r.base + Sum({o \in r.overrides : covers(o, n)}, LAMBDA o : override_adjustment(o, r.base))
                   + Sum({m \in r.modifiers : calendar_matches(m, n)},
                         LAMBDA m : percentage_of(r.base, m.pct)))
    IN
    /\ a.subtotal = night_by_night
         + Sum({m \in r.modifiers : segment_matches(m, r.stay)},
               LAMBDA m : percentage_of(night_by_night, m.pct))
    /\ a.total >= 0
    /\ a.floor # Nothing => a.total >= a.floor
    /\ a.ceiling # Nothing /\ a.total > a.ceiling => a.total = a.floor
    /\ a.total # a.subtotal => a.total \in {a.floor, a.ceiling}
=============================================================================
