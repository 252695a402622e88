-------------------------- MODULE CalculatorsProofs --------------------------
(***************************************************************************)
(* What Calculators promises for every client, every price and every       *)
(* payment rate.  The arithmetic rests on three facts about Round: it is    *)
(* within half of its divisor, it grows with what is divided, and it        *)
(* shrinks as the divisor grows.                                           *)
(***************************************************************************)
EXTENDS Calculators, TLAPS

\* Euclid's division, the only fact about \div and % used below.

LEMMA Division ==
  ASSUME NEW n \in Int, NEW d \in Nat \ {0}
  PROVE  /\ n \div d \in Int /\ n % d \in Int
         /\ 0 <= n % d /\ n % d < d
         /\ n = d * (n \div d) + (n % d)
  BY SMTT(30)

\* Round is within half of its divisor.
LEMMA RoundIsClose ==
  ASSUME NEW n \in Int, NEW d \in Nat \ {0}
  PROVE  /\ Round(n, d) \in Int
         /\ 2 * n - d <= 2 * (d * Round(n, d))
         /\ 2 * (d * Round(n, d)) <= 2 * n + d
<1> DEFINE q == n \div d
           r == n % d
<1>1. q \in Int /\ r \in Int /\ 0 <= r /\ r < d /\ n = d * q + r
  BY Division
<1>2. d * (q + 1) = d * q + d
  BY <1>1
<1>3. Round(n, d) = (IF 2 * r < d \/ (2 * r = d /\ q % 2 = 0) THEN q ELSE q + 1)
  BY DEF Round
<1>4. d * q \in Int
  BY <1>1
<1> HIDE DEF q, r
<1>5. CASE 2 * r < d \/ (2 * r = d /\ q % 2 = 0)
  BY <1>1, <1>3, <1>4, <1>5
<1>6. CASE ~(2 * r < d \/ (2 * r = d /\ q % 2 = 0)) /\ 2 * r >= d
  BY <1>1, <1>2, <1>3, <1>4, <1>6
<1> QED
  BY <1>1, <1>5, <1>6

\* Round is monotone in what is divided.
LEMMA RoundIsMonotone ==
  ASSUME NEW m \in Int, NEW n \in Int, NEW d \in Nat \ {0}, m <= n
  PROVE  Round(m, d) <= Round(n, d)
<1> DEFINE p == m \div d
           q == n \div d
<1>1. p \in Int /\ q \in Int /\ m % d \in 0 .. d - 1 /\ n % d \in 0 .. d - 1
      /\ m = d * p + (m % d) /\ n = d * q + (n % d)
  BY Division
<1>2. p <= q
  <2> SUFFICES ASSUME p >= q + 1 PROVE FALSE
    BY <1>1
  <2> HIDE DEF p, q
  <2>1. d * p >= d * (q + 1)
    BY <1>1
  <2>2. d * (q + 1) = d * q + d
    BY <1>1
  <2>3. d * p \in Int /\ d * q \in Int
    BY <1>1
  <2> QED
    BY <1>1, <2>1, <2>2, <2>3
<1>3. CASE p = q
  BY <1>1, <1>3 DEF Round
<1>4. CASE p < q
  BY <1>1, <1>4 DEF Round
<1> QED
  BY <1>1, <1>2, <1>3, <1>4

\* Round is antitone in the divisor.
LEMMA RoundIsAntitone ==
  ASSUME NEW n \in Nat, NEW d \in Nat \ {0}, NEW e \in Nat \ {0}, d <= e
  PROVE  Round(n, e) <= Round(n, d)
<1> DEFINE p == n \div e
           q == n \div d
           r == n % e
           s == n % d
<1>1. /\ p \in Int /\ r \in Int /\ 0 <= r /\ r < e /\ n = e * p + r
      /\ q \in Int /\ s \in Int /\ 0 <= s /\ s < d /\ n = d * q + s
  BY Division
<1>2. /\ Round(n, e) = (IF 2 * r < e \/ (2 * r = e /\ p % 2 = 0) THEN p ELSE p + 1)
      /\ Round(n, d) = (IF 2 * s < d \/ (2 * s = d /\ q % 2 = 0) THEN q ELSE q + 1)
  BY DEF Round
<1> HIDE DEF p, q, r, s
<1>3. 0 <= q
  <2> SUFFICES ASSUME q <= -1 PROVE FALSE
    BY <1>1
  <2>1. d * q <= d * (-1)
    BY <1>1
  <2> QED
    BY <1>1, <2>1
<1>4. d * q <= e * q
  BY <1>1, <1>3
<1>5. p <= q
  <2> SUFFICES ASSUME q + 1 <= p PROVE FALSE
    BY <1>1
  <2>1. e * (q + 1) <= e * p
    BY <1>1
  <2>2. e * (q + 1) = e * q + e
    BY <1>1
  <2>3. e * q \in Int /\ e * p \in Int /\ d * q \in Int
    BY <1>1
  <2> QED
    BY <1>1, <1>4, <2>1, <2>2, <2>3
<1>6. CASE p = q
  <2>1. r <= s
    BY <1>1, <1>4, <1>6
  <2> QED
    BY <1>1, <1>2, <1>6, <2>1
<1>7. CASE p < q
  BY <1>1, <1>2, <1>7
<1> QED
  BY <1>1, <1>5, <1>6, <1>7

\* What is not negative rounds to what is not negative.
LEMMA RoundIsNatural == ASSUME NEW n \in Nat, NEW d \in Nat \ {0} PROVE Round(n, d) \in Nat
<1>1. Round(n, d) \in Int /\ 2 * n - d <= 2 * (d * Round(n, d))
  BY RoundIsClose
<1> SUFFICES ASSUME Round(n, d) <= -1 PROVE FALSE
  BY <1>1
<1>2. d * Round(n, d) <= d * (-1)
  BY <1>1
<1>3. d * Round(n, d) \in Int
  BY <1>1
<1> QED
  BY <1>1, <1>2, <1>3
-----------------------------------------------------------------------------
LEMMA Figure ==
  ASSUME NEW c \in Household
  PROVE  /\ c["fhsa"] \in Nat /\ c["rrsp"] \in Nat /\ c["liquid"] \in Nat
         /\ c["velocity"] \in Nat /\ c["contribution"] \in Nat /\ c["surplus"] \in Int
         /\ c["income"] \in Nat /\ c["debts"] \in Nat /\ c["pct"] \in Nat
         /\ c["target"] \in Nat /\ c["score"] \in Nat
  BY DEF Household, Fields

\* The figures, the format and the price keep their types whatever is uploaded
\* and asked.
THEOREM Typing == Spec => []TypeOK
<1>1. Init => TypeOK
  BY FirstRecordType, PricesType DEF Init, TypeOK
<1>2. TypeOK /\ [Next]_vars => TypeOK'
  <2> SUFFICES ASSUME TypeOK, [Next]_vars PROVE TypeOK'
    OBVIOUS
  <2>1. ASSUME NEW f \in Fields, Change(f) PROVE TypeOK'
    <3>1. PICK v \in Figures[f] : household' = [household EXCEPT ![f] = v]
      BY <2>1 DEF Change
    <3>2. v \in Int /\ (f # "surplus" => v >= 0)
      BY FiguresType
    <3> QED
      BY <2>1, <3>1, <3>2 DEF TypeOK, Household, Change
  <2>2. CASE Move
    BY <2>2 DEF TypeOK, Move
  <2>3. ASSUME NEW p \in Prices, Ask(p) PROVE TypeOK'
    BY <2>3, PricesType DEF TypeOK, Ask
  <2>4. CASE UNCHANGED vars
    BY <2>4 DEF TypeOK, vars
  <2> QED
    BY <2>1, <2>2, <2>3, <2>4 DEF Next
<1> QED
  BY <1>1, <1>2, PTL DEF Spec

LEMMA AvailableIsNatural ==
  ASSUME NEW c \in Household PROVE ToolsAvailable(c) \in Nat /\ GatewayAvailable(c) \in Nat
  BY Figure DEF ToolsAvailable, GatewayAvailable, Smaller, HBPLimit

LEMMA NeededIsNatural ==
  ASSUME NEW c \in Household, NEW p \in Nat
  PROVE  ToolsNeeded(p) \in Nat /\ GatewayNeeded(c, p) \in Nat
<1>1. c["pct"] \in Nat
  BY Figure
<1>2. c["pct"] * p \in Nat
  BY <1>1
<1> QED
  BY <1>2 DEF ToolsNeeded, GatewayNeeded, Larger, Smaller

LEMMA GapIsNatural ==
  ASSUME NEW c \in Household, NEW p \in Nat
  PROVE  ToolsGap(c, p) \in Nat /\ GatewayGap(c, p) \in Nat
  BY AvailableIsNatural, NeededIsNatural DEF ToolsGap, GatewayGap, Gap, Larger

LEMMA MonthlyAddIsNatural ==
  ASSUME NEW c \in Household PROVE ToolsMonthlyAdd(c) \in Nat /\ GatewayMonthlyAdd(c) \in Nat
  BY Figure DEF ToolsMonthlyAdd, GatewayMonthlyAdd, Larger

LEMMA PriceIsNatural == TypeOK => ToolsPrice \in Nat /\ GatewayPrice \in Nat
  BY Figure DEF TypeOK, ToolsPrice, GatewayPrice, NoPrice

\* What is rounded to months is less than one month off.
LEMMA MonthsClose ==
  ASSUME NEW gap \in Nat, NEW add \in Nat PROVE CloseTo(Months(gap, add), gap, add)
<1> DEFINE months == Months(gap, add)
<1> SUFFICES ASSUME months # Never, gap # 0
             PROVE  (months + 1) * add >= gap /\ (months - 1) * add < gap
  BY DEF CloseTo
<1>1. add > 0 /\ months = Round(gap, add)
  BY DEF Months
<1> HIDE DEF months
<1>2. months \in Int /\ 2 * gap - add <= 2 * (add * months) /\ 2 * (add * months) <= 2 * gap + add
  BY <1>1, RoundIsClose
<1>3. (months + 1) * add = add * months + add /\ (months - 1) * add = add * months - add
  BY <1>2
<1>4. add * months \in Int
  BY <1>2
<1> QED
  BY <1>1, <1>2, <1>3, <1>4

\* The months that either layer reports are less than one month off the time the
\* gap takes to close.
THEOREM MonthsAreClose == Spec => []MonthsOffByLessThanOne
<1>1. TypeOK => MonthsOffByLessThanOne
  <2> SUFFICES ASSUME TypeOK PROVE MonthsOffByLessThanOne
    OBVIOUS
  <2>1. household \in Household
    BY DEF TypeOK
  <2>2. /\ ToolsGap(household, ToolsPrice) \in Nat /\ ToolsMonthlyAdd(household) \in Nat
        /\ GatewayGap(household, GatewayPrice) \in Nat /\ GatewayMonthlyAdd(household) \in Nat
    BY <2>1, PriceIsNatural, GapIsNatural, MonthlyAddIsNatural
  <2> QED
    BY <2>2, MonthsClose DEF MonthsOffByLessThanOne, ToolsMonths, GatewayMonths
<1> QED
  BY <1>1, Typing, PTL
-----------------------------------------------------------------------------
LEMMA HousingGrows ==
  ASSUME NEW p \in Int, NEW q \in Int, p <= q
  PROVE  Housing(p) \in Nat /\ Housing(q) \in Nat /\ Housing(p) <= Housing(q)
<1>1. p > 0 => PaymentRate * p \in Nat
  BY PaymentRateType
<1>2. q > 0 => PaymentRate * q \in Nat
  BY PaymentRateType
<1>3. PaymentRate * p <= PaymentRate * q
  BY PaymentRateType
<1> QED
  BY <1>1, <1>2, <1>3 DEF Housing

\* Lower costs and a higher income never break a limit.
LEMMA WithinEases ==
  ASSUME NEW costs \in Nat, NEW lower \in Nat, lower <= costs,
         NEW income \in Nat, NEW higher \in Nat, income <= higher,
         NEW limit \in {39, 44}, Within(costs, income, limit)
  PROVE  Within(lower, higher, limit)
BY DEF Within

\* A client who is nowhere worse off has no less to pay down.
LEMMA AvailableGrows ==
  ASSUME NEW c \in Household, NEW d \in Household, NoWorse(c, d)
  PROVE  /\ ToolsAvailable(c) <= ToolsAvailable(d)
         /\ GatewayAvailable(c) <= GatewayAvailable(d)
<1>1. c["fhsa"] <= d["fhsa"] /\ c["rrsp"] <= d["rrsp"] /\ c["liquid"] <= d["liquid"]
  BY DEF NoWorse
<1> QED
  BY <1>1, Figure DEF ToolsAvailable, GatewayAvailable, Smaller, HBPLimit

\* A cheaper home needs no larger down payment, whatever thresholds lie between.
LEMMA NeededGrows ==
  ASSUME NEW c \in Household, NEW d \in Household, c["pct"] = d["pct"],
         NEW p \in Nat, NEW q \in Nat, q <= p
  PROVE  ToolsNeeded(q) <= ToolsNeeded(p) /\ GatewayNeeded(d, q) <= GatewayNeeded(c, p)
<1>1. ToolsNeeded(q) <= ToolsNeeded(p)
  BY DEF ToolsNeeded, Larger, Smaller
<1>2. CASE c["pct"] # 0
  <2>1. c["pct"] \in Nat
    BY Figure
  <2>2. c["pct"] * q <= c["pct"] * p
    BY <2>1
  <2> QED
    BY <1>1, <1>2, <2>2 DEF GatewayNeeded
<1>3. CASE c["pct"] = 0
  BY <1>1, <1>3 DEF GatewayNeeded, Larger, Smaller
<1> QED
  BY <1>2, <1>3

\* A client who is nowhere worse off has no larger gap for a home no dearer.
LEMMA GapShrinks ==
  ASSUME NEW c \in Household, NEW d \in Household, NoWorse(c, d),
         NEW p \in Nat, NEW q \in Nat, q <= p
  PROVE  ToolsGap(d, q) <= ToolsGap(c, p) /\ GatewayGap(d, q) <= GatewayGap(c, p)
<1>1. ASSUME NEW m \in Nat, NEW n \in Nat, m <= n, NEW a \in Nat, NEW b \in Nat, a <= b
      PROVE  Gap(m, b) <= Gap(n, a)
  BY <1>1 DEF Gap, Larger
<1>2. ToolsNeeded(q) <= ToolsNeeded(p) /\ GatewayNeeded(d, q) <= GatewayNeeded(c, p)
  BY NeededGrows DEF NoWorse
<1>3. /\ ToolsAvailable(c) \in Nat /\ ToolsAvailable(d) \in Nat
      /\ GatewayAvailable(c) \in Nat /\ GatewayAvailable(d) \in Nat
      /\ ToolsNeeded(p) \in Nat /\ ToolsNeeded(q) \in Nat
      /\ GatewayNeeded(c, p) \in Nat /\ GatewayNeeded(d, q) \in Nat
  BY AvailableIsNatural, NeededIsNatural
<1> QED
  BY <1>1, <1>2, <1>3, AvailableGrows DEF ToolsGap, GatewayGap

\* Saving at least as much each month towards a gap no larger takes no longer.
LEMMA MonthsShrink ==
  ASSUME NEW g \in Nat, NEW h \in Nat, h <= g, NEW a \in Nat, NEW b \in Nat, a <= b
  PROVE  Sooner(Months(g, a), Months(h, b))
<1>1. ASSUME g # 0, a > 0 PROVE Months(g, a) \in Nat
  BY <1>1, RoundIsNatural DEF Months
<1>2. CASE h = 0
  <2>1. Months(h, b) = 0
    BY <1>2 DEF Months
  <2>2. Months(g, a) = Never \/ Months(g, a) \in Nat
    BY <1>1 DEF Months
  <2> QED
    BY <2>1, <2>2 DEF Sooner, Never
<1>3. CASE h # 0 /\ a = 0
  BY <1>3 DEF Months, Sooner
<1>4. CASE h # 0 /\ a > 0
  <2>1. Months(g, a) = Round(g, a) /\ Months(h, b) = Round(h, b)
    BY <1>4 DEF Months
  <2>2. Round(h, b) <= Round(h, a)
    BY <1>4, RoundIsAntitone
  <2>3. Round(h, a) <= Round(g, a)
    BY <1>4, RoundIsMonotone
  <2>4. Round(h, b) \in Nat /\ Round(h, a) \in Nat /\ Round(g, a) \in Nat
    BY <1>4, RoundIsNatural
  <2> QED
    BY <2>1, <2>2, <2>3, <2>4 DEF Sooner, Never
<1> QED
  BY <1>2, <1>3, <1>4

\* A qualification is not lost by a client who is nowhere worse off and looks for
\* a home no dearer.
LEMMA QualificationKept ==
  ASSUME NEW c \in Household, NEW d \in Household, NoWorse(c, d),
         NEW p \in Nat, NEW q \in Nat, q <= p
  PROVE  /\ ToolsQualifies(c, p) => ToolsQualifies(d, q)
         /\ GatewayQualifies(c, p) => GatewayQualifies(d, q)
<1>1. /\ c["income"] <= d["income"] /\ c["score"] <= d["score"] /\ d["debts"] <= c["debts"]
  BY DEF NoWorse
<1>2. /\ ToolsPrincipal(c, p) \in Int /\ ToolsPrincipal(d, q) \in Int
      /\ ToolsPrincipal(d, q) <= ToolsPrincipal(c, p)
      /\ GatewayPrincipal(c, p) \in Int /\ GatewayPrincipal(d, q) \in Int
      /\ GatewayPrincipal(d, q) <= GatewayPrincipal(c, p)
  BY AvailableGrows, AvailableIsNatural DEF ToolsPrincipal, GatewayPrincipal, Larger
<1>3. /\ GatewayIncome(c) \in Nat /\ GatewayIncome(d) \in Nat
      /\ GatewayIncome(c) <= GatewayIncome(d)
  BY <1>1, Figure DEF GatewayIncome
<1>4. ASSUME NEW h \in Nat, NEW l \in Nat, l <= h, NEW i \in Nat, NEW j \in Nat, i <= j,
             Within(h, i, 39), Within(h + 1000 * c["debts"], i, 44)
      PROVE  Within(l, j, 39) /\ Within(l + 1000 * d["debts"], j, 44)
  <2>1. /\ h + 1000 * c["debts"] \in Nat /\ l + 1000 * d["debts"] \in Nat
        /\ l + 1000 * d["debts"] <= h + 1000 * c["debts"]
    BY <1>1, <1>4, Figure
  <2> QED
    BY <1>4, <2>1, WithinEases
<1>5. ToolsQualifies(c, p) => ToolsQualifies(d, q)
  <2>1. /\ Housing(ToolsPrincipal(c, p)) \in Nat /\ Housing(ToolsPrincipal(d, q)) \in Nat
        /\ Housing(ToolsPrincipal(d, q)) <= Housing(ToolsPrincipal(c, p))
    BY <1>2, HousingGrows
  <2>2. c["income"] \in Nat /\ d["income"] \in Nat
    BY Figure
  <2> QED
    BY <1>1, <1>4, <2>1, <2>2 DEF ToolsQualifies
<1>6. GatewayQualifies(c, p) => GatewayQualifies(d, q)
  <2>1. /\ Housing(GatewayPrincipal(c, p)) \in Nat /\ Housing(GatewayPrincipal(d, q)) \in Nat
        /\ Housing(GatewayPrincipal(d, q)) <= Housing(GatewayPrincipal(c, p))
    BY <1>2, HousingGrows
  <2>2. c["score"] >= 650 => d["score"] >= 650
    BY <1>1, Figure
  <2> QED
    BY <1>3, <1>4, <2>1, <2>2 DEF GatewayQualifies
<1> QED
  BY <1>5, <1>6

LEMMA AnswersNoWorse ==
  ASSUME NEW c \in Household, NEW d \in Household, NoWorse(c, d),
         NEW p \in Nat, NEW q \in Nat, q <= p
  PROVE  ToolsNoWorse(c, p, d, q) /\ GatewayNoWorse(c, p, d, q)
<1>1. /\ ToolsMonthlyAdd(c) \in Nat /\ ToolsMonthlyAdd(d) \in Nat
      /\ GatewayMonthlyAdd(c) \in Nat /\ GatewayMonthlyAdd(d) \in Nat
  BY MonthlyAddIsNatural
<1>2. /\ ToolsMonthlyAdd(c) <= ToolsMonthlyAdd(d)
      /\ GatewayMonthlyAdd(c) <= GatewayMonthlyAdd(d)
  <2>1. /\ c["velocity"] <= d["velocity"] /\ c["contribution"] <= d["contribution"]
        /\ c["surplus"] <= d["surplus"]
    BY DEF NoWorse
  <2> QED
    BY <2>1, Figure DEF ToolsMonthlyAdd, GatewayMonthlyAdd, Larger
<1>3. /\ ToolsGap(c, p) \in Nat /\ ToolsGap(d, q) \in Nat
      /\ GatewayGap(c, p) \in Nat /\ GatewayGap(d, q) \in Nat
  BY GapIsNatural
<1>4. ToolsGap(d, q) <= ToolsGap(c, p) /\ GatewayGap(d, q) <= GatewayGap(c, p)
  BY GapShrinks
<1>5. /\ Sooner(ToolsMonths(c, p), ToolsMonths(d, q))
      /\ Sooner(GatewayMonths(c, p), GatewayMonths(d, q))
  BY <1>1, <1>2, <1>3, <1>4, MonthsShrink DEF ToolsMonths, GatewayMonths
<1>6. ToolsQualifyRaises(d) => ToolsQualifyRaises(c)
  <2>1. c["income"] <= d["income"]
    BY DEF NoWorse
  <2> QED
    BY <2>1, Figure DEF ToolsQualifyRaises
<1> QED
  BY <1>4, <1>5, <1>6, QualificationKept DEF ToolsNoWorse, GatewayNoWorse

\* Saving more, earning more, owing less or a cheaper home never makes an answer
\* of the layer that reads the record worse.
THEOREM SavingIsSafe == Spec => EasierNeverHurts
<1> DEFINE Kept ==
      NoWorse(household, household') /\ format' = format =>
        /\ format = "runtime" /\ ToolsPrice' <= ToolsPrice =>
             ToolsNoWorse(household, ToolsPrice, household', ToolsPrice')
        /\ format = "gateway" /\ GatewayPrice' <= GatewayPrice =>
             GatewayNoWorse(household, GatewayPrice, household', GatewayPrice')
<1>1. TypeOK /\ TypeOK' => [Kept]_vars
  <2> SUFFICES ASSUME TypeOK, TypeOK', NoWorse(household, household') PROVE Kept
    BY DEF vars
  <2>1. household \in Household /\ household' \in Household
    BY DEF TypeOK
  <2>2. ToolsPrice \in Nat /\ GatewayPrice \in Nat /\ ToolsPrice' \in Nat /\ GatewayPrice' \in Nat
    BY <2>1, PriceIsNatural, Figure DEF TypeOK, ToolsPrice, GatewayPrice, NoPrice
  <2>3. ToolsPrice' <= ToolsPrice => ToolsNoWorse(household, ToolsPrice, household', ToolsPrice')
    BY <2>1, <2>2, AnswersNoWorse
  <2>4. GatewayPrice' <= GatewayPrice =>
          GatewayNoWorse(household, GatewayPrice, household', GatewayPrice')
    BY <2>1, <2>2, AnswersNoWorse
  <2> QED
    BY <2>3, <2>4
<1> QED
  BY <1>1, Typing, PTL DEF EasierNeverHurts

\* At one price the gateway asks for no larger down payment of a client without a
\* percentage, and its qualification implies that of the runtime.
LEMMA LayersDiffer ==
  ASSUME NEW c \in Household, NEW p \in Nat PROVE OneSided(c, c, p)
<1>1. ASSUME c["pct"] = 0, ToolsGap(c, p) = 0 PROVE GatewayGap(c, p) = 0
  <2>1. GatewayNeeded(c, p) <= ToolsNeeded(p)
    BY <1>1 DEF GatewayNeeded, ToolsNeeded, Larger, Smaller
  <2>2. GatewayNeeded(c, p) \in Nat /\ ToolsNeeded(p) \in Nat
    BY NeededIsNatural
  <2>3. ToolsAvailable(c) \in Nat /\ GatewayAvailable(c) = ToolsAvailable(c)
    BY AvailableIsNatural DEF ToolsAvailable, GatewayAvailable
  <2> QED
    BY <1>1, <2>1, <2>2, <2>3 DEF ToolsGap, GatewayGap, Gap, Larger
<1>2. ASSUME GatewayQualifies(c, p) PROVE ~ToolsQualifyRaises(c) /\ ToolsQualifies(c, p)
  <2>1. ToolsAvailable(c) \in Nat /\ GatewayAvailable(c) = ToolsAvailable(c)
    BY AvailableIsNatural DEF ToolsAvailable, GatewayAvailable
  <2>2. Housing(GatewayPrincipal(c, p)) = Housing(ToolsPrincipal(c, p))
    BY <2>1 DEF Housing, GatewayPrincipal, ToolsPrincipal, Larger
  <2>3. /\ Housing(ToolsPrincipal(c, p)) \in Nat
        /\ Housing(ToolsPrincipal(c, p)) >= 500000
    <3>1. ToolsPrincipal(c, p) \in Int
      BY <2>1 DEF ToolsPrincipal
    <3>2. ToolsPrincipal(c, p) > 0 => PaymentRate * ToolsPrincipal(c, p) \in Nat
      BY <3>1, PaymentRateType
    <3> QED
      BY <3>2 DEF Housing
  <2>4. Within(Housing(ToolsPrincipal(c, p)), GatewayIncome(c), 39)
    BY <1>2, <2>2 DEF GatewayQualifies
  <2>5. c["income"] # 0
    BY <2>3, <2>4 DEF Within, GatewayIncome
  <2> QED
    BY <1>2, <2>2, <2>5 DEF GatewayQualifies, ToolsQualifies, ToolsQualifyRaises, GatewayIncome
<1> QED
  BY <1>1, <1>2 DEF OneSided

\* Moving a client to the gateway can only make savings sufficient and lose a
\* qualification, moving them to the runtime only the reverse.
THEOREM MovingIsOneSided == Spec => MovingErrsToOneSide
<1> DEFINE Errs ==
      format' # format /\ price \notin {NoPrice, 0} =>
        IF format = "runtime" THEN OneSided(household, household', price)
        ELSE OneSided(household', household, price)
<1>1. TypeOK /\ [Next]_vars => [Errs]_vars
  <2> SUFFICES ASSUME TypeOK, Next, format' # format, price \notin {NoPrice, 0} PROVE Errs
    BY DEF vars
  <2>1. household \in Household /\ price \in Nat
    BY DEF TypeOK
  <2>2. household' = household
    BY DEF Next, Change, Move, Ask
  <2>3. OneSided(household, household, price)
    BY <2>1, LayersDiffer
  <2> QED
    BY <2>2, <2>3
<1> QED
  BY <1>1, Typing, PTL DEF Spec, MovingErrsToOneSide
=============================================================================
