----------------------------- MODULE Calculators -----------------------------
(***************************************************************************)
(* assess_savings and check_qualification, the two calculators the planner *)
(* asks before it emits a home_purchase card.  They exist twice: in         *)
(* tools.py for the runtime (Tools...) and in handler.py for the gateway    *)
(* (Gateway...), and the two do not compute the same.                       *)
(*                                                                         *)
(* Both read clients/<id>.json, in two formats: what one layer reads makes  *)
(* the other raise.  The variable household is the client, whose figures    *)
(* the record carries in the fields its format has; format says which of    *)
(* the two that is, and so which layer can answer at all.                   *)
(*                                                                         *)
(* Figures are whole dollars, as compute_signals rounds them; a down        *)
(* payment is in cents and a payment in thousandths of a dollar, which      *)
(* keeps every product whole.  Prices are whole dollars, for which the      *)
(* code's float comparisons decide as exact arithmetic does.  The payment   *)
(* on one dollar of principal at the stress-test rate is PaymentRate        *)
(* thousandths; the code's factor is 6.8147.                                *)
(***************************************************************************)
EXTENDS Integers

CONSTANTS
  FirstRecord,  \* the record the client begins with
  Figures,      \* the values each figure of a later record may take
  Prices,       \* the target prices the planner asks for, NoPrice: it names none
  PaymentRate

Fields == {"fhsa", "rrsp", "liquid", "velocity", "contribution", "surplus",
           "income", "debts", "pct", "target", "score"}

\* product_telemetry is a dictionary with the fields of tools.py, or a list.
Formats == {"runtime", "gateway"}

NoPrice == -1

\* pct, target and score are 0 when the record has none.
Household == {c \in [Fields -> Int] : \A f \in Fields \ {"surplus"} : c[f] >= 0}

ASSUME FirstRecordType == FirstRecord \in Household
ASSUME FiguresType == \A f \in Fields : Figures[f] \subseteq (IF f = "surplus" THEN Int ELSE Nat)
ASSUME PricesType == Prices \subseteq Nat \cup {NoPrice}
ASSUME PaymentRateType == PaymentRate \in Nat \ {0}

VARIABLES
  household,   \* the figures of the client
  format,      \* the format of the client's record
  price        \* the target price of the planner's next calls

vars == <<household, format, price>>
-----------------------------------------------------------------------------
Larger(a, b) == IF a < b THEN b ELSE a
Smaller(a, b) == IF a < b THEN a ELSE b

\* Python's round(n / d): to the nearest integer, a tie to the even one.
Round(n, d) ==
  LET q == n \div d
      r == n % d
  IN IF 2 * r < d \/ (2 * r = d /\ q % 2 = 0) THEN q ELSE q + 1

HBPLimit == 60000

BugAvailable(c) ==  \* mutant: an RRSP above the limit is not eligible at all
  c["fhsa"] + (IF c["rrsp"] > HBPLimit THEN 0 ELSE c["rrsp"]) + c["liquid"]

\* down_payment_available, from liquid_savings in one format and from
\* liquidity_savings or the accounts in the other
ToolsAvailable(c) == c["fhsa"] + Smaller(c["rrsp"], HBPLimit) + c["liquid"]

GatewayAvailable(c) == c["fhsa"] + Smaller(c["rrsp"], HBPLimit) + c["liquid"]

\* Without a price tools.py takes its default, handler.py the client's own;
\* for handler.py a price of 0 is none.
ToolsPrice == IF price = NoPrice THEN 900000 ELSE price
GatewayPrice ==
  IF price \notin {NoPrice, 0} THEN price
  ELSE IF household["target"] # 0 THEN household["target"] ELSE 900000

\* needed, in cents
ToolsNeeded(p) ==
  IF p > 1000000 THEN 20 * p
  ELSE Smaller(5 * 500000 + 10 * Larger(0, p - 500000), 20 * p)

GatewayNeeded(c, p) ==
  IF c["pct"] # 0 THEN c["pct"] * p
  ELSE IF p > 1000000 THEN 20 * p
  ELSE 5 * Smaller(p, 500000) + 10 * Larger(0, p - 500000)

\* monthly_add, in cents
ToolsMonthlyAdd(c) == 100 * c["velocity"] + 50 * Larger(0, c["surplus"])
GatewayMonthlyAdd(c) == ToolsMonthlyAdd(c) + 100 * c["contribution"]

\* gap, in cents; the savings are sufficient when it is 0.
Gap(needed, available) == Larger(0, needed - 100 * available)

ToolsGap(c, p) == Gap(ToolsNeeded(p), ToolsAvailable(c))
GatewayGap(c, p) == Gap(GatewayNeeded(c, p), GatewayAvailable(c))

Never == -1   \* months_to_target None: nothing is saved

BugMonths(gap, add) ==  \* mutant: the month that is running counts too
  IF gap = 0 THEN 0 ELSE IF add > 0 THEN Round(gap, add) + 1 ELSE Never

\* months_to_target
Months(gap, add) ==
  IF gap = 0 THEN 0 ELSE IF add > 0 THEN Round(gap, add) ELSE Never

ToolsMonths(c, p) == Months(ToolsGap(c, p), ToolsMonthlyAdd(c))
GatewayMonths(c, p) == Months(GatewayGap(c, p), GatewayMonthlyAdd(c))
-----------------------------------------------------------------------------
\* housing: the payment on the principal, 350 for taxes and 150 for heat.
Housing(principal) ==
  (IF principal > 0 THEN PaymentRate * principal ELSE 0) + 500000

\* A yearly income bears monthly costs up to limit percent: 12 * costs / income,
\* costs in thousandths, is at most limit / 100.
Within(costs, income, limit) == 12 * costs <= 10 * limit * income

ToolsPrincipal(c, p) == p - ToolsAvailable(c)
GatewayPrincipal(c, p) == Larger(0, p - GatewayAvailable(c))

\* gds and tds divide by the income: ZeroDivisionError when it is 0.
ToolsQualifyRaises(c) == c["income"] = 0

BugToolsQualifies(c, p) ==  \* mutant: the limit of each ratio is the other's
  /\ Within(Housing(ToolsPrincipal(c, p)), c["income"], 44)
  /\ Within(Housing(ToolsPrincipal(c, p)) + 1000 * c["debts"], c["income"], 39)

\* qualifies
ToolsQualifies(c, p) ==
  /\ Within(Housing(ToolsPrincipal(c, p)), c["income"], 39)
  /\ Within(Housing(ToolsPrincipal(c, p)) + 1000 * c["debts"], c["income"], 44)

\* An income that is missing or 0 counts as one dollar a year.
GatewayIncome(c) == IF c["income"] = 0 THEN 1 ELSE c["income"]

GatewayQualifies(c, p) ==
  /\ Within(Housing(GatewayPrincipal(c, p)), GatewayIncome(c), 39)
  /\ Within(Housing(GatewayPrincipal(c, p)) + 1000 * c["debts"], GatewayIncome(c), 44)
  /\ c["score"] >= 650
-----------------------------------------------------------------------------
Init == household = FirstRecord /\ format \in Formats /\ price \in Prices

\* Somebody uploads a record with one figure changed (external).
Change(field) ==
  /\ \E v \in Figures[field] : household' = [household EXCEPT ![field] = v]
  /\ UNCHANGED <<format, price>>

\* The client is moved to the other deployment: somebody uploads the same
\* client in the other format (external).
Move ==
  /\ \E f \in Formats \ {format} : format' = f
  /\ UNCHANGED <<household, price>>

\* The planner's model asks for another target price.
Ask(p) == price' = p /\ UNCHANGED <<household, format>>

Next == (\E f \in Fields : Change(f)) \/ Move \/ (\E p \in Prices : Ask(p))

Spec == Init /\ [][Next]_vars
-----------------------------------------------------------------------------
TypeOK ==
  /\ household \in Household
  /\ format \in Formats
  /\ price \in Nat \cup {NoPrice}

\* Client d is nowhere worse off than c for somebody who wants to buy a home.
NoWorse(c, d) ==
  /\ \A f \in {"fhsa", "rrsp", "liquid", "velocity", "contribution", "surplus",
               "income", "score"} : c[f] <= d[f]
  /\ d["debts"] <= c["debts"]
  /\ d["pct"] = c["pct"]

Sooner(m, n) == m = Never \/ (n # Never /\ n <= m)

\* What client d is told at price q is no worse than what client c is told at
\* price p: no larger gap, no later month, no qualification lost, no division
\* by zero that was none.
ToolsNoWorse(c, p, d, q) ==
  /\ ToolsGap(d, q) <= ToolsGap(c, p)
  /\ Sooner(ToolsMonths(c, p), ToolsMonths(d, q))
  /\ ToolsQualifies(c, p) => ToolsQualifies(d, q)
  /\ ToolsQualifyRaises(d) => ToolsQualifyRaises(c)

GatewayNoWorse(c, p, d, q) ==
  /\ GatewayGap(d, q) <= GatewayGap(c, p)
  /\ Sooner(GatewayMonths(c, p), GatewayMonths(d, q))
  /\ GatewayQualifies(c, p) => GatewayQualifies(d, q)

\* Whoever saves more, earns more, owes less or looks for a cheaper home is never
\* told of a larger gap or a later month, and never refused what was granted
\* before: by the layer that reads the record, across every cap and threshold.
EasierNeverHurts ==
  [][NoWorse(household, household') /\ format' = format =>
       /\ format = "runtime" /\ ToolsPrice' <= ToolsPrice =>
            ToolsNoWorse(household, ToolsPrice, household', ToolsPrice')
       /\ format = "gateway" /\ GatewayPrice' <= GatewayPrice =>
            GatewayNoWorse(household, GatewayPrice, household', GatewayPrice')]_vars

\* One client at one price, c as the runtime reads them and d as the gateway
\* does: the runtime never calls the savings sufficient that the gateway calls
\* short, and the gateway never grants a qualification that the runtime refuses
\* or cannot compute.
OneSided(c, d, p) ==
  /\ d["pct"] = 0 /\ ToolsGap(c, p) = 0 => GatewayGap(d, p) = 0
  /\ GatewayQualifies(d, p) => ~ToolsQualifyRaises(c) /\ ToolsQualifies(c, p)

\* The two deployments err to one side: what a client is told at a price that is
\* named changes in one direction only when they are moved from the one to the
\* other, as far as they have no percentage of their own.
MovingErrsToOneSide ==
  [][format' # format /\ price \notin {NoPrice, 0} =>
       IF format = "runtime" THEN OneSided(household, household', price)
       ELSE OneSided(household', household, price)]_vars

\* A month after months the gap is closed and a month before it is open.
CloseTo(months, gap, add) ==
  months # Never /\ gap # 0 => (months + 1) * add >= gap /\ (months - 1) * add < gap

\* The months_to_target that either layer reports is off by less than one month.
MonthsOffByLessThanOne ==
  /\ format = "runtime" =>
       CloseTo(ToolsMonths(household, ToolsPrice), ToolsGap(household, ToolsPrice),
               ToolsMonthlyAdd(household))
  /\ format = "gateway" =>
       CloseTo(GatewayMonths(household, GatewayPrice), GatewayGap(household, GatewayPrice),
               GatewayMonthlyAdd(household))

\* assess_savings tells "how many months until they do" cover the down payment
\* (tools.py:83): saving that long closes the gap.
SavedUpByThen ==
  LET months == ToolsMonths(household, ToolsPrice)
  IN format = "runtime" /\ months # Never =>
       months * ToolsMonthlyAdd(household) >= ToolsGap(household, ToolsPrice)
=============================================================================
