---------------------------- MODULE MCCalculators ----------------------------
(***************************************************************************)
(* Records around the calculators' thresholds: a savings gap of less than  *)
(* half a month, an RRSP on either side of the Home Buyers' Plan limit,     *)
(* prices on either side of 500,000 and of one million, no price and the    *)
(* price 0, and an income at which gds is just above its limit.             *)
(***************************************************************************)
EXTENDS Calculators

SomeFigures ==
  [fhsa |-> {0, 20000}, rrsp |-> {0, 50000, 70000}, liquid |-> {4900, 45000},
   velocity |-> {0, 500}, contribution |-> {0, 300}, surplus |-> {-100, 1500},
   income |-> {0, 182168, 245000}, debts |-> {0, 2100}, pct |-> {0, 10},
   target |-> {0, 600000}, score |-> {0, 700}]

\* A client with nothing saved.
Nothing == [f \in Fields |-> 0]

SomePrices == {NoPrice, 0, 120000, 450000, 900000, 1000001}
=============================================================================
