------------------------------ MODULE Pricing ------------------------------
(***************************************************************************)
(* The money rules: exchange (exchange_rate.py), the fee rules an order is *)
(* quoted with (simulated_fee_rules.py) and the tariff rules the landed    *)
(* price of a search card is computed with (tariff_schedule.py).           *)
(*                                                                         *)
(* Amounts are minor units.  The code multiplies by binary fractions and   *)
(* rounds; here the product is exact, and where it lies halfway between    *)
(* two integers either may come out.  So a rule yields the SET of amounts  *)
(* the code may compute, almost always of one element.                     *)
(*                                                                         *)
(* The tables hold the source's numbers; of the fifteen currencies the six *)
(* the markets use, of the product categories the one whose rates differ.  *)
(***************************************************************************)
EXTENDS Integers

CONSTANT None

\* Thousandths of a CNY for one unit.
RateToCny == [CNY |-> 1000, USD |-> 7100, EUR |-> 7800, GBP |-> 9100, JPY |-> 48,
              SGD |-> 5300]

Currencies == DOMAIN RateToCny

\* The integers nearest to n / d.
Near(n, d) ==
  LET k == n \div d
      r == n % d
  IN IF 2 * r < d THEN {k} ELSE IF 2 * r > d THEN {k + 1} ELSE {k, k + 1}

\* ExchangeRateTable.convert: the currency's own amount is left alone.
Convert(amount, from, to) ==
  IF from = to THEN {amount} ELSE Near(amount * RateToCny[from], RateToCny[to])

Excess(amount, free) == IF amount > free THEN amount - free ELSE 0

\* The first item in full, each further one at 60 per cent.
Freight(base, quantity) == Near(base * (4 + 6 * quantity), 10)

-----------------------------------------------------------------------------
(* SimulatedFeeSchedule: what an order is quoted with.                     *)

Rule(num, den, base, free, currency) ==
  [num |-> num, den |-> den, base |-> base, free |-> free, currency |-> currency]

FeeRules == [US |-> Rule(3, 50, 6500, 80000, "USD"),
             EU |-> Rule(1, 5, 7500, None, "EUR"),
             GB |-> Rule(1, 5, 7000, None, "GBP"),
             JP |-> Rule(1, 10, 4500, 1000000, "JPY"),
             CN |-> Rule(91, 1000, 2500, 500000, "CNY")]

FeeMarkets == DOMAIN FeeRules

Shipping(market, quantity, currency) ==
  UNION {Convert(f, "CNY", currency) : f \in Freight(FeeRules[market].base, quantity)}

\* Mutant of Free: the threshold is taken as an amount of the quote's currency.
MutFreeUnconverted(market, currency) == {FeeRules[market].free}

\* The amounts below which a market takes nothing, in the quote's currency.
Free(market, currency) ==
  Convert(FeeRules[market].free, FeeRules[market].currency, currency)

TaxBase(market, amount, currency) ==
  IF FeeRules[market].free = None THEN {amount}
  ELSE {Excess(amount, free) : free \in Free(market, currency)}

ImportTax(market, amount, currency) ==
  UNION {Near(base * FeeRules[market].num, FeeRules[market].den) :
           base \in TaxBase(market, amount, currency)}

\* The subtotal is in the quote's currency already, line by line.
FeeQuotes(subtotal, quantity, market, currency) ==
  UNION {{[subtotal |-> subtotal, shipping |-> s, tax |-> t] :
            t \in ImportTax(market, subtotal + s, currency)} :
          s \in Shipping(market, quantity, currency)}

Total(fees) == fees.subtotal + fees.shipping + fees.tax

-----------------------------------------------------------------------------
(* TariffSchedule: the landed price inlined in a search card.              *)

Tariff(rates, free, base) == [rates |-> rates, free |-> free, base |-> base]

Rates(digital, other) == [digital |-> digital, other |-> other]

\* Rates in thousandths, by category; what is free, in minor units of CNY.
TariffRules == [CN |-> Tariff(Rates(130, 90), 500000, 2500),
                US |-> Tariff(Rates(0, 75), 568000, 6500),
                EU |-> Tariff(Rates(120, 120), 117000, 7500),
                JP |-> Tariff(Rates(80, 80), 50000, 4500),
                SG |-> Tariff(Rates(70, 70), 212000, 4000)]

TariffMarkets == DOMAIN TariffRules

\* The subtotal is taxed in CNY, the three amounts are shown in the target.
Landed(price, from, category, market, currency) ==
  LET rule == TariffRules[market] IN
  UNION {UNION {UNION {UNION {
    {[subtotal |-> s, freight |-> f, tariff |-> t, exempt |-> Excess(cny, rule.free) = 0] :
       t \in UNION {Convert(x, "CNY", currency) :
               x \in Near(Excess(cny, rule.free) * rule.rates[category], 1000)}} :
     cny \in Convert(price, from, "CNY")} :
    f \in UNION {Convert(g, "CNY", currency) : g \in Freight(rule.base, 1)}} :
   s \in Convert(price, from, currency)}}
=============================================================================
