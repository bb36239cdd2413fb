--------------------------- MODULE ShoppingProofs ---------------------------
(***************************************************************************)
(* Proofs about Shopping and the money rules of Pricing it rests on: for   *)
(* any seeds and releases, searches, scores, quantities and limits, and    *)
(* for the currencies and rules the code has.                              *)
(*                                                                         *)
(* Money.  Every conversion, freight and tax is off by half a minor unit   *)
(* at most (NearBounds, ConvertBounds).  Two quotes of the same lines in   *)
(* two currencies therefore differ by what the roundings of the pieces, of *)
(* the freight, of the threshold and of the tax add up to (TotalsAgree),   *)
(* and the freight of a further piece, 15 CNY at least, outweighs them all *)
(* (NeverCheaper).                                                         *)
(*                                                                         *)
(* Lists.  A sort is defined by ranks.  When the keys put all indices in   *)
(* one order, the ranks are the numbers from 0 up, each once, and so the   *)
(* sort lists every element once and in order (SortedLists).  The keys of  *)
(* the code do: numbers compared one by one, and the place in the list.    *)
(*                                                                         *)
(* The invariant says what a search and a quote know at each step: what    *)
(* was found is listed once each in the order of its keys (ScoredFits),    *)
(* and a quote's sums are those of its lines, in two currencies (SumsFit). *)
(***************************************************************************)
EXTENDS Shopping, FiniteSetTheorems, SequenceTheorems, TLAPS

-----------------------------------------------------------------------------
(* Money.                                                                  *)

\* What is nearest is no further away than one half.
LEMMA NearBounds ==
  ASSUME NEW n \in Nat, NEW d \in Nat \ {0}
  PROVE  /\ Near(n, d) # {}
         /\ \A k \in Near(n, d) : k \in Nat /\ 2 * (d * k) <= 2 * n + d /\ 2 * n <= 2 * (d * k) + d
<1> DEFINE k == n \div d
           r == n % d
<1>1. k \in Nat /\ r \in Nat /\ r < d /\ n = d * k + r
  OBVIOUS
<1>2. Near(n, d) = IF 2 * r < d THEN {k} ELSE IF 2 * r > d THEN {k + 1} ELSE {k, k + 1}
  BY DEF Near
<1> HIDE DEF k, r
<1>3. d * (k + 1) = d * k + d /\ d * k \in Nat
  BY <1>1
<1>4. ASSUME NEW m \in Near(n, d)
      PROVE  m \in Nat /\ 2 * (d * m) <= 2 * n + d /\ 2 * n <= 2 * (d * m) + d
  <2>1. CASE m = k /\ 2 * r <= d
    BY <1>1, <1>3, <2>1
  <2>2. CASE m = k + 1 /\ 2 * r >= d
    BY <1>1, <1>3, <2>2
  <2> QED BY <1>1, <1>2, <2>1, <2>2
<1>5. Near(n, d) # {}
  BY <1>2
<1> QED BY <1>4, <1>5

\* The rates, as numbers.
LEMMA RatesAre ==
  /\ Currencies = {"CNY", "USD", "EUR", "GBP", "JPY", "SGD"}
  /\ RateToCny["CNY"] = 1000 /\ RateToCny["USD"] = 7100 /\ RateToCny["EUR"] = 7800
  /\ RateToCny["GBP"] = 9100 /\ RateToCny["JPY"] = 48 /\ RateToCny["SGD"] = 5300
BY DEF RateToCny, Currencies

\* Rates are positive.
LEMMA RateType == \A c \in Currencies : RateToCny[c] \in Nat \ {0}
BY RatesAre

\* A conversion keeps the value, but for half a minor unit of the currency it ends in.
LEMMA ConvertBounds ==
  ASSUME NEW amount \in Nat, NEW from \in Currencies, NEW to \in Currencies
  PROVE  /\ Convert(amount, from, to) # {}
         /\ \A k \in Convert(amount, from, to) :
              /\ k \in Nat
              /\ 2 * (RateToCny[to] * k) <= 2 * (amount * RateToCny[from]) + RateToCny[to]
              /\ 2 * (amount * RateToCny[from]) <= 2 * (RateToCny[to] * k) + RateToCny[to]
<1>1. RateToCny[from] \in Nat \ {0} /\ RateToCny[to] \in Nat \ {0}
  BY RateType
<1>2. amount * RateToCny[from] \in Nat /\ RateToCny[to] * amount = amount * RateToCny[to]
  BY <1>1
<1>3. CASE from = to
  BY <1>1, <1>2, <1>3 DEF Convert
<1>4. CASE from # to
  BY <1>1, <1>2, <1>4, NearBounds DEF Convert
<1> QED BY <1>3, <1>4

\* What the fee rules are.
LEMMA RulesAre ==
  /\ FeeMarkets = {"US", "EU", "GB", "JP", "CN"}
  /\ FeeRules["US"] = [num |-> 3, den |-> 50, base |-> 6500, free |-> 80000, currency |-> "USD"]
  /\ FeeRules["EU"] = [num |-> 1, den |-> 5, base |-> 7500, free |-> None, currency |-> "EUR"]
  /\ FeeRules["GB"] = [num |-> 1, den |-> 5, base |-> 7000, free |-> None, currency |-> "GBP"]
  /\ FeeRules["JP"] = [num |-> 1, den |-> 10, base |-> 4500, free |-> 1000000, currency |-> "JPY"]
  /\ FeeRules["CN"] = [num |-> 91, den |-> 1000, base |-> 2500, free |-> 500000, currency |-> "CNY"]
BY DEF FeeRules, FeeMarkets, Rule

-----------------------------------------------------------------------------
(* Fees.                                                                   *)

\* Products are monotone.
LEMMA Scaled ==
  ASSUME NEW a \in Int, NEW b \in Int, NEW r \in Nat, a <= b
  PROVE  r * a <= r * b
OBVIOUS

\* The entries of a rule.
BaseOf(market) == FeeRules[market].base
NumOf(market) == FeeRules[market].num
DenOf(market) == FeeRules[market].den
FreeOf(market) == FeeRules[market].free
FreeIn(market) == FeeRules[market].currency

\* Freight has no half minor units: what a market takes for one piece is a multiple
\* of ten in all its rules.
FreightOf(market, pieces) == (BaseOf(market) \div 10) * (4 + 6 * pieces)

\* So it is one amount, and grows by 15 CNY at least with every piece.
LEMMA FreightIs ==
  ASSUME NEW market \in FeeMarkets, NEW pieces \in Nat
  PROVE  /\ \A f : f \in Freight(BaseOf(market), pieces) <=> f = FreightOf(market, pieces)
         /\ FreightOf(market, pieces) \in Nat
         /\ FreightOf(market, pieces + 1) >= FreightOf(market, pieces) + 1500
<1>1. ASSUME NEW b \in {250, 450, 650, 700, 750}, BaseOf(market) = 10 * b
      PROVE  /\ \A f : f \in Freight(BaseOf(market), pieces) <=> f = FreightOf(market, pieces)
             /\ FreightOf(market, pieces) \in Nat
             /\ FreightOf(market, pieces + 1) >= FreightOf(market, pieces) + 1500
  <2> DEFINE m == b * (4 + 6 * pieces)
  <2>1. m \in Nat /\ b * (4 + 6 * (pieces + 1)) >= m + 1500
    OBVIOUS
  <2>2. BaseOf(market) \div 10 = b
    BY <1>1
  <2>3. (10 * b) * (4 + 6 * pieces) = 10 * m
    OBVIOUS
  <2> HIDE DEF m
  <2>4. (10 * m) \div 10 = m /\ (10 * m) % 10 = 0
    BY <2>1
  <2>5. Near(10 * m, 10) = {m}
    BY <2>4 DEF Near
  <2> QED BY <1>1, <2>1, <2>2, <2>3, <2>5 DEF Freight, FreightOf, m
<1>2. \E b \in {250, 450, 650, 700, 750} : BaseOf(market) = 10 * b
  BY RulesAre DEF BaseOf
<1> QED BY <1>1, <1>2

\* Shipping is the freight, but for one conversion.
LEMMA ShippingBounds ==
  ASSUME NEW market \in FeeMarkets, NEW pieces \in Nat, NEW currency \in Currencies,
         NEW s \in Shipping(market, pieces, currency)
  PROVE  /\ s \in Nat
         /\ 2 * (RateToCny[currency] * s) <= 2000 * FreightOf(market, pieces) + RateToCny[currency]
         /\ 2000 * FreightOf(market, pieces) <= 2 * (RateToCny[currency] * s) + RateToCny[currency]
<1> DEFINE f == FreightOf(market, pieces)
<1>1. f \in Nat /\ \A g : g \in Freight(BaseOf(market), pieces) <=> g = f
  BY FreightIs
<1>2. s \in Convert(f, "CNY", currency)
  BY <1>1 DEF Shipping, BaseOf
<1> HIDE DEF f
<1>3. "CNY" \in Currencies /\ RateToCny["CNY"] = 1000 /\ RateToCny[currency] \in Nat
  BY RatesAre, RateType
<1>4. /\ s \in Nat
      /\ 2 * (RateToCny[currency] * s) <= 2 * (f * 1000) + RateToCny[currency]
      /\ 2 * (f * 1000) <= 2 * (RateToCny[currency] * s) + RateToCny[currency]
  BY <1>1, <1>2, <1>3, ConvertBounds
<1> QED BY <1>1, <1>3, <1>4 DEF f

\* A threshold is the one of the rule, but for one conversion.
LEMMA FreeBounds ==
  ASSUME NEW market \in FeeMarkets, FreeOf(market) # None, NEW currency \in Currencies,
         NEW t \in Free(market, currency)
  PROVE  \E v \in Nat :
         /\ v = FreeOf(market) * RateToCny[FreeIn(market)]
         /\ t \in Nat
         /\ 2 * (RateToCny[currency] * t) <= 2 * v + RateToCny[currency]
         /\ 2 * v <= 2 * (RateToCny[currency] * t) + RateToCny[currency]
<1>1. FreeIn(market) \in Currencies /\ FreeOf(market) \in Nat
  BY RulesAre, RatesAre DEF FreeIn, FreeOf
<1>2. FreeOf(market) * RateToCny[FreeIn(market)] \in Nat
  BY <1>1, RateType
<1> QED BY <1>1, <1>2, ConvertBounds DEF Free, FreeOf, FreeIn

\* Amounts in a currency of rate r and in CNY are apart by d at most, in half
\* thousandths of a minor unit.
Within(r, amount, inCny, d) ==
  /\ 2 * (r * amount) - 2000 * inCny <= d
  /\ 2000 * inCny - 2 * (r * amount) <= d

\* A tax on what is over a threshold differs no more than the two amounts together.
LEMMA ExcessBounds ==
  ASSUME NEW r \in Nat \ {0}, NEW a \in Nat, NEW t \in Nat, NEW b \in Nat, NEW u \in Nat,
         NEW d \in Int, NEW e \in Int, Within(r, a, b, d), Within(r, t, u, e)
  PROVE  /\ Excess(a, t) \in Nat /\ Excess(b, u) \in Nat
         /\ Within(r, Excess(a, t), Excess(b, u), d + e)
<1> USE DEF Within
<1>1. r * a \in Nat /\ r * t \in Nat /\ r * (a - t) = r * a - r * t /\ r * 0 = 0
  OBVIOUS
<1>2. a > t => r * a > r * t
  OBVIOUS
<1>3. a <= t => r * a <= r * t
  OBVIOUS
<1>4. CASE a > t /\ b > u
  BY <1>1, <1>2, <1>4 DEF Excess
<1>5. CASE a > t /\ b <= u
  BY <1>1, <1>2, <1>5 DEF Excess
<1>6. CASE a <= t /\ b > u
  BY <1>1, <1>3, <1>6 DEF Excess
<1>7. CASE a <= t /\ b <= u
  BY <1>1, <1>3, <1>7 DEF Excess
<1> QED BY <1>4, <1>5, <1>6, <1>7

\* The rate of no market is above one fifth.
LEMMA TaxRates ==
  ASSUME NEW market \in FeeMarkets
  PROVE  \/ NumOf(market) = 3 /\ DenOf(market) = 50
         \/ NumOf(market) = 1 /\ DenOf(market) = 5
         \/ NumOf(market) = 1 /\ DenOf(market) = 10
         \/ NumOf(market) = 91 /\ DenOf(market) = 1000
BY RulesAre DEF NumOf, DenOf

\* What is taxed is the subtotal and the freight over the threshold, if there is one.
LEMMA TaxBounds ==
  ASSUME NEW market \in FeeMarkets, NEW currency \in Currencies, NEW a \in Nat,
         NEW tax \in ImportTax(market, a, currency)
  PROVE  \E b \in TaxBase(market, a, currency) :
           /\ b \in Nat /\ tax \in Nat
           /\ LET num == NumOf(market)
                  den == DenOf(market)
              IN  /\ 2 * (den * tax) <= 2 * (b * num) + den
                  /\ 2 * (b * num) <= 2 * (den * tax) + den
<1>1. PICK b \in TaxBase(market, a, currency) :
        tax \in Near(b * NumOf(market), DenOf(market))
  BY DEF ImportTax, NumOf, DenOf
<1>2. b \in Nat
  <2>1. CASE FreeOf(market) = None
    BY <1>1, <2>1 DEF TaxBase, FreeOf
  <2>2. CASE FreeOf(market) # None
    BY <1>1, <2>2, FreeBounds DEF TaxBase, Excess, FreeOf
  <2> QED BY <2>1, <2>2
<1>3. /\ NumOf(market) \in Nat /\ DenOf(market) \in Nat \ {0}
      /\ b * NumOf(market) \in Nat
  BY <1>2, TaxRates
<1> QED BY <1>1, <1>2, <1>3, NearBounds

\* What a quote adds up.
LEMMA FeesAre ==
  ASSUME NEW market \in FeeMarkets, NEW pieces \in Nat, NEW currency \in Currencies,
         NEW subtotal \in Nat, NEW fees \in FeeQuotes(subtotal, pieces, market, currency)
  PROVE  /\ fees.subtotal = subtotal
         /\ fees.shipping \in Shipping(market, pieces, currency)
         /\ fees.tax \in ImportTax(market, subtotal + fees.shipping, currency)
         /\ fees.shipping \in Nat /\ fees.tax \in Nat
         /\ Total(fees) = subtotal + fees.shipping + fees.tax
<1>1. PICK s \in Shipping(market, pieces, currency) :
        \E t \in ImportTax(market, subtotal + s, currency) :
          fees = [subtotal |-> subtotal, shipping |-> s, tax |-> t]
  BY DEF FeeQuotes
<1>4. PICK t \in ImportTax(market, subtotal + s, currency) :
        fees = [subtotal |-> subtotal, shipping |-> s, tax |-> t]
  BY <1>1
<1>2. s \in Nat
  BY ShippingBounds
<1>3. t \in Nat
  BY <1>2, TaxBounds
<1> QED BY <1>2, <1>3, <1>4 DEF Total

\* At a rate of at most one fifth, what is taxed passes on a fifth of its difference.
LEMMA TaxDiffers ==
  ASSUME NEW r \in Nat \ {0}, NEW num \in Nat, NEW den \in Nat,
         \/ num = 3 /\ den = 50
         \/ num = 1 /\ den = 5
         \/ num = 1 /\ den = 10
         \/ num = 91 /\ den = 1000,
         NEW b \in Nat, NEW c \in Nat, NEW tax \in Nat, NEW other \in Nat, NEW e \in Nat,
         2 * (r * b) - 2000 * c <= e, 2000 * c - 2 * (r * b) <= e,
         2 * (den * tax) <= 2 * (b * num) + den, 2 * (b * num) <= 2 * (den * tax) + den,
         2 * (den * other) <= 2 * (c * num) + den, 2 * (c * num) <= 2 * (den * other) + den
  PROVE  /\ 10 * (r * tax) - 10000 * other <= e + 5 * r + 5000
         /\ 10000 * other - 10 * (r * tax) <= e + 5 * r + 5000
<1> DEFINE x == r * tax
           y == r * b
<1>1. x \in Int /\ y \in Int
  OBVIOUS
<1>2. ASSUME NEW m \in Nat, NEW d \in Nat, num = m, den = d
      PROVE  r * (2 * (d * tax)) <= r * (2 * (b * m) + d) /\ r * (2 * (b * m)) <= r * (2 * (d * tax) + d)
  BY <1>2, Scaled
<1>3. CASE num = 3 /\ den = 50
  <2>1. r * (2 * (50 * tax)) <= r * (2 * (b * 3) + 50) /\ r * (2 * (b * 3)) <= r * (2 * (50 * tax) + 50)
    BY <1>2, <1>3
  <2>2. /\ r * (2 * (50 * tax)) = 100 * x /\ r * (2 * (b * 3) + 50) = 6 * y + 50 * r
        /\ r * (2 * (b * 3)) = 6 * y /\ r * (2 * (50 * tax) + 50) = 100 * x + 50 * r
    OBVIOUS
  <2>3. 100 * x <= 6 * y + 50 * r /\ 6 * y <= 100 * x + 50 * r
    BY <2>1, <2>2
  <2> HIDE DEF x, y
  <2> QED BY <1>1, <1>3, <2>3 DEF x, y
<1>4. CASE num = 1 /\ den = 5
  <2>1. r * (2 * (5 * tax)) <= r * (2 * (b * 1) + 5) /\ r * (2 * (b * 1)) <= r * (2 * (5 * tax) + 5)
    BY <1>2, <1>4
  <2>2. /\ r * (2 * (5 * tax)) = 10 * x /\ r * (2 * (b * 1) + 5) = 2 * y + 5 * r
        /\ r * (2 * (b * 1)) = 2 * y /\ r * (2 * (5 * tax) + 5) = 10 * x + 5 * r
    OBVIOUS
  <2>3. 10 * x <= 2 * y + 5 * r /\ 2 * y <= 10 * x + 5 * r
    BY <2>1, <2>2
  <2> QED BY <1>1, <1>4, <2>3
<1>5. CASE num = 1 /\ den = 10
  <2>1. r * (2 * (10 * tax)) <= r * (2 * (b * 1) + 10) /\ r * (2 * (b * 1)) <= r * (2 * (10 * tax) + 10)
    BY <1>2, <1>5
  <2>2. /\ r * (2 * (10 * tax)) = 20 * x /\ r * (2 * (b * 1) + 10) = 2 * y + 10 * r
        /\ r * (2 * (b * 1)) = 2 * y /\ r * (2 * (10 * tax) + 10) = 20 * x + 10 * r
    OBVIOUS
  <2>3. 20 * x <= 2 * y + 10 * r /\ 2 * y <= 20 * x + 10 * r
    BY <2>1, <2>2
  <2> QED BY <1>1, <1>5, <2>3
<1>6. CASE num = 91 /\ den = 1000
  <2>1. r * (2 * (1000 * tax)) <= r * (2 * (b * 91) + 1000) /\ r * (2 * (b * 91)) <= r * (2 * (1000 * tax) + 1000)
    BY <1>2, <1>6
  <2>2. /\ r * (2 * (1000 * tax)) = 2000 * x /\ r * (2 * (b * 91) + 1000) = 182 * y + 1000 * r
        /\ r * (2 * (b * 91)) = 182 * y /\ r * (2 * (1000 * tax) + 1000) = 2000 * x + 1000 * r
    OBVIOUS
  <2>3. 2000 * x <= 182 * y + 1000 * r /\ 182 * y <= 2000 * x + 1000 * r
    BY <2>1, <2>2
  <2> QED BY <1>1, <1>6, <2>3
<1> QED BY <1>3, <1>4, <1>5, <1>6

\* The same lines, quoted in a currency and in CNY.
LEMMA TotalsAgree ==
  ASSUME NEW market \in FeeMarkets, NEW currency \in Currencies, NEW pieces \in Nat,
         NEW subtotal \in Nat, NEW inCny \in Nat,
         Within(RateToCny[currency], subtotal, inCny, pieces * (RateToCny[currency] + 1000)),
         NEW fees \in FeeQuotes(subtotal, pieces, market, currency),
         NEW other \in FeeQuotes(inCny, pieces, market, "CNY")
  PROVE  LET r == RateToCny[currency]
             d == 6 * (pieces * (r + 1000)) + 12 * r + 6000
         IN  /\ 10 * (r * Total(fees)) - 10000 * Total(other) <= d
             /\ 10000 * Total(other) - 10 * (r * Total(fees)) <= d
<1> DEFINE r == RateToCny[currency]
           f == FreightOf(market, pieces)
           p == pieces * (r + 1000)
           s == fees.shipping
           t == fees.tax
           u == other.shipping
           v == other.tax
<1>1. "CNY" \in Currencies /\ RateToCny["CNY"] = 1000 /\ r \in Nat \ {0}
  BY RatesAre, RateType
<1>2. /\ s \in Shipping(market, pieces, currency) /\ s \in Nat /\ t \in Nat
      /\ t \in ImportTax(market, subtotal + s, currency)
      /\ Total(fees) = subtotal + s + t
  BY FeesAre
<1>3. /\ u \in Shipping(market, pieces, "CNY") /\ u \in Nat /\ v \in Nat
      /\ v \in ImportTax(market, inCny + u, "CNY")
      /\ Total(other) = inCny + u + v
  BY <1>1, FeesAre
<1>4. f \in Nat
  BY FreightIs
<1>5. 2 * (r * s) <= 2000 * f + r /\ 2000 * f <= 2 * (r * s) + r
  BY <1>2, ShippingBounds
<1>6. 2 * (1000 * u) <= 2000 * f + 1000 /\ 2000 * f <= 2 * (1000 * u) + 1000
  BY <1>1, <1>3, ShippingBounds
<1> HIDE DEF r, f, s, t, u, v
<1>7. u = f
  BY <1>3, <1>4, <1>6
<1>8. p \in Nat /\ 2 * (r * subtotal) - 2000 * inCny <= p /\ 2000 * inCny - 2 * (r * subtotal) <= p
  BY <1>1 DEF Within, r
<1> HIDE DEF p
<1>9. r * subtotal \in Nat /\ r * s \in Nat /\ r * (subtotal + s) = r * subtotal + r * s
  BY <1>1, <1>2
<1>10. /\ 2 * (r * (subtotal + s)) - 2000 * (inCny + u) <= p + r
       /\ 2000 * (inCny + u) - 2 * (r * (subtotal + s)) <= p + r
  BY <1>1, <1>4, <1>5, <1>7, <1>8, <1>9
<1>11. PICK b \in TaxBase(market, subtotal + s, currency) :
         /\ b \in Nat
         /\ 2 * (DenOf(market) * t) <= 2 * (b * NumOf(market)) + DenOf(market)
         /\ 2 * (b * NumOf(market)) <= 2 * (DenOf(market) * t) + DenOf(market)
  BY <1>2, TaxBounds
<1>12. PICK c \in TaxBase(market, inCny + u, "CNY") :
         /\ c \in Nat
         /\ 2 * (DenOf(market) * v) <= 2 * (c * NumOf(market)) + DenOf(market)
         /\ 2 * (c * NumOf(market)) <= 2 * (DenOf(market) * v) + DenOf(market)
  BY <1>1, <1>3, TaxBounds
<1>13. /\ 2 * (r * b) - 2000 * c <= p + 2 * r + 1000
       /\ 2000 * c - 2 * (r * b) <= p + 2 * r + 1000
  <2>1. CASE FreeOf(market) = None
    <3>1. b = subtotal + s /\ c = inCny + u
      BY <2>1, <1>11, <1>12 DEF TaxBase, FreeOf
    <3> QED BY <1>1, <1>9, <1>10, <3>1, <1>8
  <2>2. CASE FreeOf(market) # None
    <3>1. PICK g \in Free(market, currency) : b = Excess(subtotal + s, g)
      BY <2>2, <1>11 DEF TaxBase, FreeOf
    <3>2. PICK h \in Free(market, "CNY") : c = Excess(inCny + u, h)
      BY <2>2, <1>12 DEF TaxBase, FreeOf
    <3>3. PICK w \in Nat : /\ w = FreeOf(market) * RateToCny[FreeIn(market)]
                           /\ g \in Nat /\ 2 * (r * g) <= 2 * w + r /\ 2 * w <= 2 * (r * g) + r
      BY <2>2, FreeBounds DEF r
    <3>4. PICK z \in Nat : /\ z = FreeOf(market) * RateToCny[FreeIn(market)]
                           /\ h \in Nat /\ 2 * (1000 * h) <= 2 * z + 1000 /\ 2 * z <= 2 * (1000 * h) + 1000
      BY <1>1, <2>2, FreeBounds
    <3>5. r * g \in Nat
      BY <1>1, <3>3
    <3>6. 2 * (r * g) - 2000 * h <= r + 1000 /\ 2000 * h - 2 * (r * g) <= r + 1000
      BY <1>1, <3>3, <3>4, <3>5
    <3>7. subtotal + s \in Nat /\ inCny + u \in Nat /\ p + r \in Int /\ r + 1000 \in Int
      BY <1>1, <1>2, <1>3, <1>8
    <3> DEFINE x == subtotal + s
               y == inCny + u
               d == p + r
               e == r + 1000
    <3>8. /\ 2 * (r * b) - 2000 * c <= d + e
          /\ 2000 * c - 2 * (r * b) <= d + e
      <4>1. x \in Nat /\ y \in Nat /\ d \in Int /\ e \in Int
        BY <3>7
      <4>4. g \in Nat /\ h \in Nat
        BY <3>3, <3>4
      <4>2. Within(r, x, y, d) /\ Within(r, g, h, e)
        BY <1>10, <3>6 DEF Within
      <4>3. b = Excess(x, g) /\ c = Excess(y, h)
        BY <3>1, <3>2
      <4> HIDE DEF x, y, d, e
      <4>5. Within(r, Excess(x, g), Excess(y, h), d + e)
        BY <1>1, <4>1, <4>2, <4>4, ExcessBounds
      <4> QED BY <4>3, <4>5 DEF Within
    <3>9. r * b \in Nat /\ (p + r) + (r + 1000) = p + 2 * r + 1000
      BY <1>1, <1>8, <1>11
    <3> QED BY <3>8, <3>9
  <2> QED BY <2>1, <2>2
<1>14. /\ 10 * (r * t) - 10000 * v <= p + 2 * r + 1000 + 5 * r + 5000
       /\ 10000 * v - 10 * (r * t) <= p + 2 * r + 1000 + 5 * r + 5000
  <2>1. NumOf(market) \in Nat /\ DenOf(market) \in Nat
    BY TaxRates
  <2>2. p + 2 * r + 1000 \in Nat
    BY <1>1, <1>8
  <2> DEFINE e == p + 2 * r + 1000
             num == NumOf(market)
             den == DenOf(market)
  <2>7. num \in Nat /\ den \in Nat /\ e \in Nat
    BY <2>1, <2>2
  <2>3. \/ num = 3 /\ den = 50
        \/ num = 1 /\ den = 5
        \/ num = 1 /\ den = 10
        \/ num = 91 /\ den = 1000
    BY TaxRates
  <2>4. /\ 2 * (r * b) - 2000 * c <= e /\ 2000 * c - 2 * (r * b) <= e
        /\ 2 * (den * t) <= 2 * (b * num) + den /\ 2 * (b * num) <= 2 * (den * t) + den
        /\ 2 * (den * v) <= 2 * (c * num) + den /\ 2 * (c * num) <= 2 * (den * v) + den
    BY <1>11, <1>12, <1>13
  <2>5. b \in Nat /\ c \in Nat /\ t \in Nat /\ v \in Nat
    BY <1>2, <1>3, <1>11, <1>12
  <2> HIDE DEF e, num, den
  <2>6. /\ 10 * (r * t) - 10000 * v <= e + 5 * r + 5000
        /\ 10000 * v - 10 * (r * t) <= e + 5 * r + 5000
    BY <1>1, <2>3, <2>4, <2>5, <2>7, TaxDiffers
  <2> QED BY <2>6 DEF e
<1>15. /\ r * Total(fees) = r * (subtotal + s) + r * t /\ r * t \in Nat
       /\ r * (subtotal + s) \in Nat
  BY <1>1, <1>2
<1>16. /\ 10 * (r * Total(fees)) - 10000 * Total(other) <= 6 * p + 12 * r + 6000
       /\ 10000 * Total(other) - 10 * (r * Total(fees)) <= 6 * p + 12 * r + 6000
  BY <1>1, <1>2, <1>3, <1>8, <1>10, <1>14, <1>15
<1> QED BY <1>16 DEF r, p

\* What the two totals may differ by is within the tolerance.
LEMMA TotalsTolerated ==
  ASSUME NEW market \in FeeMarkets, NEW currency \in Currencies, NEW pieces \in Nat,
         NEW subtotal \in Nat, NEW inCny \in Nat,
         Within(RateToCny[currency], subtotal, inCny, pieces * (RateToCny[currency] + 1000)),
         NEW fees \in FeeQuotes(subtotal, pieces, market, currency),
         NEW other \in FeeQuotes(inCny, pieces, market, "CNY"),
         NEW c \in Convert(Total(fees), currency, "CNY")
  PROVE  Difference(c, Total(other)) <=
           ((pieces + 3) * RateToCny[currency]) \div 1000 + pieces + 4
<1> DEFINE r == RateToCny[currency]
           x == pieces * r
           a == Total(fees)
           b == Total(other)
           k == ((pieces + 3) * r) \div 1000
           w == r * a
<1>1. "CNY" \in Currencies /\ RateToCny["CNY"] = 1000 /\ r \in Nat \ {0}
  BY RatesAre, RateType
<1>2. a \in Nat /\ b \in Nat
  <2>1. fees.shipping \in Nat /\ fees.tax \in Nat /\ a = subtotal + fees.shipping + fees.tax
    BY FeesAre
  <2>2. other.shipping \in Nat /\ other.tax \in Nat /\ b = inCny + other.shipping + other.tax
    BY <1>1, FeesAre
  <2> QED BY <2>1, <2>2
<1>3. /\ 10 * w - 10000 * b <= 6 * (pieces * (r + 1000)) + 12 * r + 6000
      /\ 10000 * b - 10 * w <= 6 * (pieces * (r + 1000)) + 12 * r + 6000
  BY TotalsAgree
<1> HIDE DEF r, a, b
<1>4. pieces * (r + 1000) = x + 1000 * pieces /\ x \in Nat /\ (pieces + 3) * r = x + 3 * r
  BY <1>1
<1>5. a * r = w /\ w \in Nat
  BY <1>1, <1>2
<1>6. c \in Nat /\ 2 * (1000 * c) <= 2 * (a * r) + 1000 /\ 2 * (a * r) <= 2 * (1000 * c) + 1000
  BY <1>1, <1>2, ConvertBounds DEF a, r
<1>7. k \in Nat /\ 1000 * k >= x + 3 * r - 999
  <2> DEFINE y == (pieces + 3) * r
  <2>1. y \in Nat /\ y = x + 3 * r
    BY <1>1, <1>4
  <2>3. k = y \div 1000
    OBVIOUS
  <2> HIDE DEF y, x, k
  <2>2. y \div 1000 \in Nat /\ 1000 * (y \div 1000) >= y - 999
    BY <2>1
  <2> QED BY <1>1, <1>4, <2>1, <2>2, <2>3
<1> HIDE DEF x, w, k
<1>8. /\ 10 * w - 10000 * b <= 6 * x + 6000 * pieces + 12 * r + 6000
      /\ 10000 * b - 10 * w <= 6 * x + 6000 * pieces + 12 * r + 6000
  BY <1>1, <1>2, <1>3, <1>4, <1>5
<1>9. 2000 * c <= 2 * w + 1000 /\ 2 * w <= 2000 * c + 1000
  BY <1>5, <1>6
<1>10. c - b <= k + pieces + 4 /\ b - c <= k + pieces + 4
  BY <1>1, <1>2, <1>4, <1>5, <1>6, <1>7, <1>8, <1>9
<1>11. Difference(c, b) <= k + pieces + 4
  BY <1>2, <1>6, <1>10 DEF Difference
<1> QED BY <1>11 DEF b, k, r

\* The first tax on at least as much is at most one smaller, whichever way it was rounded.
LEMMA MoreTaxed ==
  ASSUME NEW num \in Nat, NEW den \in Nat \ {0}, NEW b \in Nat, NEW c \in Nat, b <= c,
         NEW tax \in Nat, NEW more \in Nat,
         2 * (den * tax) <= 2 * (b * num) + den, 2 * (c * num) <= 2 * (den * more) + den
  PROVE  more >= tax - 1
<1>1. b * num \in Nat /\ c * num \in Nat /\ b * num <= c * num
  <2>1. num * b <= num * c
    BY Scaled
  <2>2. num * b = b * num /\ num * c = c * num
    OBVIOUS
  <2> QED BY <2>1, <2>2
<1>2. 2 * (den * tax) <= 2 * (den * more) + 2 * den
  <2> DEFINE x == den * tax
             y == den * more
             v == b * num
             w == c * num
  <2>1. x \in Nat /\ y \in Nat
    OBVIOUS
  <2>2. 2 * x <= 2 * v + den /\ 2 * w <= 2 * y + den /\ v <= w /\ v \in Nat /\ w \in Nat
    BY <1>1
  <2> HIDE DEF x, y, v, w
  <2>3. 2 * x <= 2 * y + 2 * den
    BY <2>1, <2>2
  <2> QED BY <2>3 DEF x, y
<1>3. den * tax <= den * (more + 1) /\ den * (more + 1) = den * more + den
  BY <1>2
<1>4. ASSUME tax > more + 1 PROVE FALSE
  <2>1. more + 2 <= tax /\ more + 2 \in Int
    BY <1>4
  <2>2. den * (more + 2) <= den * tax
    BY <2>1, Scaled
  <2>3. den * (more + 2) = den * (more + 1) + den /\ den * (more + 1) \in Int /\ den * tax \in Int
    OBVIOUS
  <2> QED BY <1>3, <2>2, <2>3
<1> QED BY <1>4

\* One piece more costs at least as much: its freight outweighs every rounding.
LEMMA NeverCheaper ==
  ASSUME NEW market \in FeeMarkets, NEW currency \in Currencies, NEW pieces \in Nat,
         NEW subtotal \in Nat, NEW unit \in Nat,
         NEW fees \in FeeQuotes(subtotal, pieces, market, currency),
         NEW more \in FeeQuotes(subtotal + unit, pieces + 1, market, currency)
  PROVE  Total(more) >= Total(fees)
<1> DEFINE r == RateToCny[currency]
           f == FreightOf(market, pieces)
           g == FreightOf(market, pieces + 1)
           s == fees.shipping
           t == fees.tax
           u == more.shipping
           v == more.tax
<1>1. r \in Nat \ {0} /\ r <= 9100 /\ pieces + 1 \in Nat /\ subtotal + unit \in Nat
  BY RatesAre
<1>2. /\ s \in Shipping(market, pieces, currency) /\ s \in Nat /\ t \in Nat
      /\ t \in ImportTax(market, subtotal + s, currency)
      /\ Total(fees) = subtotal + s + t
  BY FeesAre
<1>3. /\ u \in Shipping(market, pieces + 1, currency) /\ u \in Nat /\ v \in Nat
      /\ v \in ImportTax(market, subtotal + unit + u, currency)
      /\ Total(more) = subtotal + unit + u + v
  BY <1>1, FeesAre
<1>4. f \in Nat /\ g \in Nat /\ g >= f + 1500
  BY <1>1, FreightIs
<1>5. 2 * (r * s) <= 2000 * f + r /\ 2000 * f <= 2 * (r * s) + r
  BY <1>2, ShippingBounds
<1>6. 2 * (r * u) <= 2000 * g + r /\ 2000 * g <= 2 * (r * u) + r
  BY <1>1, <1>3, ShippingBounds
<1> HIDE DEF r, f, g, s, t, u, v
<1>7. u >= s + 1
  <2>1. ASSUME u <= s PROVE FALSE
    <3>1. r * u <= r * s /\ r * u \in Nat /\ r * s \in Nat
      BY <1>1, <1>2, <1>3, <2>1, Scaled
    <3> QED BY <1>1, <1>4, <1>5, <1>6, <3>1
  <2> QED BY <1>2, <1>3, <2>1
<1>8. PICK b \in TaxBase(market, subtotal + s, currency) :
        /\ b \in Nat
        /\ 2 * (DenOf(market) * t) <= 2 * (b * NumOf(market)) + DenOf(market)
  BY <1>2, TaxBounds
<1>9. PICK c \in TaxBase(market, subtotal + unit + u, currency) :
        /\ c \in Nat
        /\ 2 * (c * NumOf(market)) <= 2 * (DenOf(market) * v) + DenOf(market)
  BY <1>1, <1>3, TaxBounds
<1>10. b <= c
  <2>1. CASE FreeOf(market) = None
    BY <1>2, <1>3, <1>7, <1>8, <1>9, <2>1 DEF TaxBase, FreeOf
  <2>2. CASE FreeOf(market) # None
    <3>1. PICK h \in Free(market, currency) : b = Excess(subtotal + s, h)
      BY <2>2, <1>8 DEF TaxBase, FreeOf
    <3>2. PICK k \in Free(market, currency) : c = Excess(subtotal + unit + u, k)
      BY <2>2, <1>9 DEF TaxBase, FreeOf
    <3>3. PICK w \in Nat : /\ w = FreeOf(market) * RateToCny[FreeIn(market)]
                           /\ h \in Nat /\ 2 * (r * h) <= 2 * w + r /\ 2 * w <= 2 * (r * h) + r
      BY <2>2, FreeBounds DEF r
    <3>4. PICK z \in Nat : /\ z = FreeOf(market) * RateToCny[FreeIn(market)]
                           /\ k \in Nat /\ 2 * (r * k) <= 2 * z + r /\ 2 * z <= 2 * (r * k) + r
      BY <2>2, FreeBounds DEF r
    <3>5. k <= h + 1
      <4>1. ASSUME k >= h + 2 PROVE FALSE
        <5>1. h + 2 \in Int /\ r * (h + 2) <= r * k
          BY <1>1, <3>3, <3>4, <4>1, Scaled
        <5>2. r * (h + 2) = r * h + 2 * r /\ r * h \in Nat /\ r * k \in Nat
          BY <1>1, <3>3, <3>4
        <5> QED BY <1>1, <3>3, <3>4, <5>1, <5>2
      <4> QED BY <3>3, <3>4, <4>1
    <3> QED BY <1>2, <1>3, <1>7, <3>1, <3>2, <3>3, <3>4, <3>5 DEF Excess
  <2> QED BY <2>1, <2>2
<1>11. v >= t - 1
  <2> DEFINE num == NumOf(market)
             den == DenOf(market)
  <2>1. num \in Nat /\ den \in Nat \ {0}
    BY TaxRates
  <2>2. 2 * (den * t) <= 2 * (b * num) + den /\ 2 * (c * num) <= 2 * (den * v) + den
    BY <1>8, <1>9
  <2> HIDE DEF num, den
  <2> QED BY <1>2, <1>3, <1>8, <1>9, <1>10, <2>1, <2>2, MoreTaxed
<1> QED BY <1>2, <1>3, <1>7, <1>11

\* The freight of one piece is the same in both tables of rules.
LEMMA CardShowsFreight ==
  ASSUME NEW market \in FeeMarkets \cap TariffMarkets, NEW currency \in Currencies,
         NEW price \in Nat, NEW from \in Currencies, NEW category \in {"digital", "other"},
         NEW subtotal \in Convert(price, from, currency),
         NEW shipping \in Shipping(market, 1, currency)
  PROVE  \E card \in Landed(price, from, category, market, currency) :
           card.freight = shipping /\ card.subtotal = subtotal
<1> DEFINE rule == TariffRules[market]
<1>1. /\ rule.base = FeeRules[market].base /\ rule.free \in Nat
      /\ rule.rates[category] \in Nat
  BY DEF TariffMarkets, TariffRules, Tariff, Rates, FeeMarkets, FeeRules, Rule
<1> HIDE DEF rule
<1>2. PICK g \in Freight(rule.base, 1) : shipping \in Convert(g, "CNY", currency)
  BY <1>1 DEF Shipping
<1>3. "CNY" \in Currencies
  BY RatesAre
<1>4. PICK cny \in Convert(price, from, "CNY") : cny \in Nat
  BY <1>3, ConvertBounds
<1>5. Excess(cny, rule.free) * rule.rates[category] \in Nat
  BY <1>1, <1>4 DEF Excess
<1>6. PICK x \in Near(Excess(cny, rule.free) * rule.rates[category], 1000) : x \in Nat
  BY <1>5, NearBounds
<1>7. PICK t \in Convert(x, "CNY", currency) : TRUE
  BY <1>3, <1>6, ConvertBounds
<1> DEFINE card == [subtotal |-> subtotal, freight |-> shipping, tariff |-> t,
                    exempt |-> Excess(cny, rule.free) = 0]
<1>8. card \in Landed(price, from, category, market, currency)
  BY <1>2, <1>4, <1>6, <1>7 DEF Landed, rule
<1> QED BY <1>8

-----------------------------------------------------------------------------
(* Lists.                                                                  *)

\* Tuples of up to four numbers, the first difference decides.
LEMMA ExceedsOne ==
  ASSUME NEW a \in Int, NEW b \in Int
  PROVE  Exceeds(<<a>>, <<b>>) <=> a > b
<1> DEFINE k == <<a>>
           l == <<b>>
<1>1. DOMAIN k = 1 .. 1 /\ k[1] = a /\ l[1] = b
  OBVIOUS
<1> HIDE DEF k, l
<1>2. Exceeds(k, l) <=> k[1] > l[1]
  BY <1>1 DEF Exceeds
<1> QED BY <1>1, <1>2 DEF k, l

\* Of two numbers.
LEMMA ExceedsTwo ==
  ASSUME NEW a \in Int, NEW b \in Int, NEW c \in Int, NEW d \in Int
  PROVE  Exceeds(<<a, b>>, <<c, d>>) <=> a > c \/ (a = c /\ b > d)
<1> DEFINE k == <<a, b>>
           l == <<c, d>>
<1>1. DOMAIN k = 1 .. 2 /\ k[1] = a /\ k[2] = b /\ l[1] = c /\ l[2] = d
  OBVIOUS
<1> HIDE DEF k, l
<1>2. Exceeds(k, l) <=> k[1] > l[1] \/ (k[2] > l[2] /\ k[1] = l[1])
  BY <1>1 DEF Exceeds
<1> QED BY <1>1, <1>2 DEF k, l

\* Of three.
LEMMA ExceedsThree ==
  ASSUME NEW a \in Int, NEW b \in Int, NEW c \in Int,
         NEW d \in Int, NEW e \in Int, NEW f \in Int
  PROVE  Exceeds(<<a, b, c>>, <<d, e, f>>) <=>
           a > d \/ (a = d /\ b > e) \/ (a = d /\ b = e /\ c > f)
<1> DEFINE k == <<a, b, c>>
           l == <<d, e, f>>
<1>1. DOMAIN k = 1 .. 3 /\ k[1] = a /\ k[2] = b /\ k[3] = c /\ l[1] = d /\ l[2] = e /\ l[3] = f
  OBVIOUS
<1> HIDE DEF k, l
<1>2. Exceeds(k, l) <=> \/ k[1] > l[1]
                        \/ k[2] > l[2] /\ k[1] = l[1]
                        \/ k[3] > l[3] /\ k[1] = l[1] /\ k[2] = l[2]
  BY <1>1 DEF Exceeds
<1> QED BY <1>1, <1>2 DEF k, l

\* Of four.
LEMMA ExceedsFour ==
  ASSUME NEW a \in Int, NEW b \in Int, NEW c \in Int, NEW g \in Int,
         NEW d \in Int, NEW e \in Int, NEW f \in Int, NEW h \in Int
  PROVE  Exceeds(<<a, b, c, g>>, <<d, e, f, h>>) <=>
           \/ a > d
           \/ a = d /\ b > e
           \/ a = d /\ b = e /\ c > f
           \/ a = d /\ b = e /\ c = f /\ g > h
<1> DEFINE k == <<a, b, c, g>>
           l == <<d, e, f, h>>
<1>1. /\ DOMAIN k = 1 .. 4 /\ k[1] = a /\ k[2] = b /\ k[3] = c /\ k[4] = g
      /\ l[1] = d /\ l[2] = e /\ l[3] = f /\ l[4] = h
  OBVIOUS
<1> HIDE DEF k, l
<1>2. Exceeds(k, l) <=> \/ k[1] > l[1]
                        \/ k[2] > l[2] /\ k[1] = l[1]
                        \/ k[3] > l[3] /\ k[1] = l[1] /\ k[2] = l[2]
                        \/ k[4] > l[4] /\ k[1] = l[1] /\ k[2] = l[2] /\ k[3] = l[3]
  BY <1>1 DEF Exceeds
<1> QED BY <1>1, <1>2 DEF k, l

\* The keys put the indices in one order.
Orderly(indices, keys) ==
  /\ \A i, j \in indices : i # j => Before(keys, i, j) \/ Before(keys, j, i)
  /\ \A i \in indices : ~Before(keys, i, i)
  /\ \A i, j, k \in indices : Before(keys, i, j) /\ Before(keys, j, k) => Before(keys, i, k)

\* pick lists the indices in the order of the keys.
Lists(pick, indices, keys) ==
  /\ pick \in [1 .. Cardinality(indices) -> indices]
  /\ \A i \in indices : \E m \in 1 .. Cardinality(indices) : pick[m] = i
  /\ \A m, n \in 1 .. Cardinality(indices) : m < n => Before(keys, pick[m], pick[n])

\* A sort lists every element once, in order.
LEMMA SortedLists ==
  ASSUME NEW indices, IsFiniteSet(indices), NEW keys, Orderly(indices, keys), NEW s
  PROVE  /\ Cardinality(indices) \in Nat
         /\ \E pick : /\ Lists(pick, indices, keys)
                      /\ Sorted(s, indices, keys) =
                           [m \in 1 .. Cardinality(indices) |-> s[pick[m]]]
<1> DEFINE n == Cardinality(indices)
           Ahead(i) == {j \in indices : Before(keys, j, i)}
           Rank(i) == Cardinality(Ahead(i))
<1>1. n \in Nat
  BY FS_CardinalityType
<1>2. ASSUME NEW i \in indices
      PROVE  IsFiniteSet(Ahead(i)) /\ Rank(i) \in Nat /\ Rank(i) <= n - 1
  <2>1. Ahead(i) \subseteq indices \ {i}
    BY DEF Orderly
  <2>2. IsFiniteSet(indices \ {i}) /\ Cardinality(indices \ {i}) = n - 1
    BY FS_RemoveElement
  <2>3. IsFiniteSet(Ahead(i)) /\ Rank(i) <= Cardinality(indices \ {i})
    BY <2>1, <2>2, FS_Subset
  <2> QED BY <2>2, <2>3, FS_CardinalityType
<1>3. ASSUME NEW i \in indices, NEW k \in indices, Before(keys, i, k)
      PROVE  Rank(i) < Rank(k)
  <2>1. Ahead(i) \subseteq Ahead(k) /\ i \in Ahead(k) /\ i \notin Ahead(i)
    BY <1>3 DEF Orderly
  <2>2. IsFiniteSet(Ahead(k))
    BY <1>2
  <2>3. Rank(i) <= Rank(k) /\ (Rank(i) = Rank(k) => Ahead(i) = Ahead(k))
    BY <2>1, <2>2, FS_Subset
  <2>4. Rank(i) \in Nat /\ Rank(k) \in Nat
    BY <1>2
  <2> HIDE DEF Ahead, Rank
  <2> QED BY <2>1, <2>3, <2>4
<1> DEFINE rank == [i \in indices |-> Rank(i) + 1]
<1>4. rank \in Injection(indices, 1 .. n)
  <2>1. ASSUME NEW i \in indices PROVE Rank(i) + 1 \in 1 .. n
    <3>1. Rank(i) \in Nat /\ Rank(i) <= n - 1
      BY <1>2
    <3> HIDE DEF Rank, n
    <3> QED BY <1>1, <3>1
  <2>3. rank \in [indices -> 1 .. n]
    <3> HIDE DEF Rank, n
    <3> QED BY <2>1
  <2>2. ASSUME NEW i \in indices, NEW k \in indices, rank[i] = rank[k] PROVE i = k
    <3>1. Rank(i) \in Nat /\ Rank(k) \in Nat
      BY <1>2
    <3>2. Before(keys, i, k) => Rank(i) < Rank(k)
      BY <1>3
    <3>3. Before(keys, k, i) => Rank(k) < Rank(i)
      BY <1>3
    <3>4. i # k => Before(keys, i, k) \/ Before(keys, k, i)
      BY DEF Orderly
    <3> HIDE DEF Rank
    <3> QED BY <2>2, <3>1, <3>2, <3>3, <3>4
  <2> HIDE DEF rank
  <2> QED BY <2>2, <2>3 DEF Injection, IsInjective
<1>5. rank \in Surjection(indices, 1 .. n)
  <2>1. IsFiniteSet(1 .. n) /\ Cardinality(1 .. n) = n
    BY <1>1, FS_Interval
  <2> HIDE DEF rank
  <2> QED BY <1>4, <2>1, FS_Injection
<1>6. \A m \in 1 .. n : \E i \in indices : rank[i] = m
  <2> HIDE DEF rank
  <2> QED BY <1>5 DEF Surjection
<1> DEFINE pick == [m \in 1 .. n |-> CHOOSE i \in indices : Rank(i) = m - 1]
<1>7. ASSUME NEW m \in 1 .. n PROVE pick[m] \in indices /\ Rank(pick[m]) = m - 1
  <2>1. PICK i \in indices : rank[i] = m
    BY <1>6
  <2>2. Rank(i) = m - 1
    <3>1. Rank(i) + 1 = m /\ Rank(i) \in Nat
      BY <1>2, <2>1
    <3> HIDE DEF Rank
    <3> QED BY <3>1
  <2> HIDE DEF Rank
  <2> QED BY <2>2
<1>8. Sorted(s, indices, keys) = [m \in 1 .. n |-> s[pick[m]]]
  BY DEF Sorted
<1>9. Lists(pick, indices, keys)
  <2>1. pick \in [1 .. n -> indices]
    <3> HIDE DEF Rank
    <3> QED BY <1>7
  <2>2. ASSUME NEW m \in 1 .. n, NEW k \in 1 .. n, m < k
        PROVE  Before(keys, pick[m], pick[k])
    <3>1. /\ pick[m] \in indices /\ Rank(pick[m]) = m - 1
          /\ pick[k] \in indices /\ Rank(pick[k]) = k - 1
      BY <1>7
    <3>2. Before(keys, pick[k], pick[m]) => Rank(pick[k]) < Rank(pick[m])
      BY <1>3, <3>1
    <3>3. pick[m] # pick[k] => Before(keys, pick[m], pick[k]) \/ Before(keys, pick[k], pick[m])
      BY <3>1 DEF Orderly
    <3> HIDE DEF Rank, pick
    <3> QED BY <2>2, <3>1, <3>2, <3>3
  <2>3. ASSUME NEW i \in indices PROVE \E m \in 1 .. n : pick[m] = i
    <3> DEFINE m == rank[i]
    <3>1. m \in 1 .. n /\ m = Rank(i) + 1 /\ Rank(i) \in Nat
      <4>1. Rank(i) \in Nat /\ Rank(i) <= n - 1
        BY <1>2
      <4> HIDE DEF Rank, n
      <4> QED BY <1>1, <4>1
    <3>2. pick[m] \in indices /\ Rank(pick[m]) = m - 1
      <4> HIDE DEF m
      <4> QED BY <1>7, <3>1
    <3>3. Rank(pick[m]) = Rank(i)
      <4> HIDE DEF Rank, m, pick
      <4> QED BY <3>1, <3>2
    <3>4. ~Before(keys, i, pick[m]) /\ ~Before(keys, pick[m], i)
      <4>1. Rank(pick[m]) \in Nat
        BY <1>2, <3>2
      <4>2. Before(keys, i, pick[m]) => Rank(i) < Rank(pick[m])
        BY <1>3, <3>2
      <4>3. Before(keys, pick[m], i) => Rank(pick[m]) < Rank(i)
        BY <1>3, <3>2
      <4> HIDE DEF Rank, m, pick
      <4> QED BY <3>1, <3>3, <4>1, <4>2, <4>3
    <3>5. pick[m] = i
      <4> HIDE DEF Rank, m, pick
      <4> QED BY <3>2, <3>4 DEF Orderly
    <3> HIDE DEF m, pick
    <3> QED BY <3>1, <3>5
  <2> HIDE DEF pick
  <2> QED BY <2>1, <2>2, <2>3 DEF Lists
<1> HIDE DEF pick
<1> QED BY <1>1, <1>8, <1>9

\* Keys that are ordered, equal ones aside, put their indices in one order.
LEMMA KeysOrderly ==
  ASSUME NEW D \in SUBSET Int, NEW keys,
         \A i, j \in D : ~(Exceeds(keys[i], keys[j]) /\ Exceeds(keys[j], keys[i])),
         \A i, j, k \in D : Exceeds(keys[i], keys[k]) =>
                              Exceeds(keys[i], keys[j]) \/ Exceeds(keys[j], keys[k])
  PROVE  Orderly(D, keys)
<1>1. ASSUME NEW i \in D, NEW j \in D, i # j PROVE Before(keys, i, j) \/ Before(keys, j, i)
  <2>1. i < j \/ j < i
    BY <1>1
  <2> QED BY <2>1 DEF Before
<1>2. ASSUME NEW i \in D PROVE ~Before(keys, i, i)
  BY DEF Before
<1>3. ASSUME NEW i \in D, NEW j \in D, NEW k \in D, Before(keys, i, j), Before(keys, j, k)
      PROVE  Before(keys, i, k)
  <2>1. i < j /\ j < k => i < k
    OBVIOUS
  <2> QED BY <1>3, <2>1 DEF Before
<1> QED BY <1>1, <1>2, <1>3 DEF Orderly

\* No keys: the order of the list.
LEMMA NoKeys ==
  ASSUME NEW D \in SUBSET Int, NEW keys, \A i \in D : keys[i] = <<>>
  PROVE  /\ Orderly(D, keys)
         /\ \A i, j \in D : Before(keys, i, j) <=> i < j
<1>1. \A i, j \in D : ~Exceeds(keys[i], keys[j])
  <2>1. ~Exceeds(<<>>, <<>>)
    BY DEF Exceeds
  <2> QED BY <2>1
<1> QED BY <1>1, KeysOrderly DEF Before

\* One number: ties in the order of the list.
LEMMA SingleKeys ==
  ASSUME NEW D \in SUBSET Int, NEW v, \A i \in D : v[i] \in Int,
         NEW keys, \A i \in D : keys[i] = <<v[i]>>
  PROVE  /\ Orderly(D, keys)
         /\ \A i, j \in D : Before(keys, i, j) <=> \/ v[i] > v[j]
                                                   \/ v[i] = v[j] /\ i < j
<1>1. \A i, j \in D : Exceeds(keys[i], keys[j]) <=> v[i] > v[j]
  BY ExceedsOne
<1>2. Orderly(D, keys)
  BY <1>1, KeysOrderly
<1>3. ASSUME NEW i \in D, NEW j \in D
      PROVE  Before(keys, i, j) <=> v[i] > v[j] \/ (v[i] = v[j] /\ i < j)
  <2>1. v[i] \in Int /\ v[j] \in Int
    OBVIOUS
  <2> QED BY <1>1, <2>1 DEF Before
<1> QED BY <1>2, <1>3

\* Two numbers, the second one different.
LEMMA PairKeys ==
  ASSUME NEW D \in SUBSET Int, NEW v, NEW w, \A i \in D : v[i] \in Int /\ w[i] \in Int,
         \A i, j \in D : i # j => w[i] # w[j],
         NEW keys, \A i \in D : keys[i] = <<v[i], w[i]>>
  PROVE  /\ Orderly(D, keys)
         /\ \A i, j \in D : Before(keys, i, j) => \/ v[i] > v[j]
                                                  \/ v[i] = v[j] /\ w[i] > w[j]
<1>1. \A i, j \in D : Exceeds(keys[i], keys[j]) <=> \/ v[i] > v[j]
                                                    \/ v[i] = v[j] /\ w[i] > w[j]
  BY ExceedsTwo
<1>2. Orderly(D, keys)
  BY <1>1, KeysOrderly
<1>3. ASSUME NEW i \in D, NEW j \in D, Before(keys, i, j)
      PROVE  v[i] > v[j] \/ (v[i] = v[j] /\ w[i] > w[j])
  <2>1. v[i] \in Int /\ v[j] \in Int /\ w[i] \in Int /\ w[j] \in Int
    OBVIOUS
  <2>2. i < j => i # j
    OBVIOUS
  <2> QED BY <1>1, <1>3, <2>1, <2>2 DEF Before
<1> QED BY <1>2, <1>3

Hits == [id : Products, sim : Int, score : Int]

Distinct(s) == \A i, j \in DOMAIN s : i # j => s[i].id # s[j].id

\* The numbers of a key.
LEMMA VectorKeyIs ==
  ASSUME NEW h \in Hits, NEW g \in Hits, NEW keyword \in [Products -> Scores]
  PROVE  /\ h.sim \in Int /\ h.score \in Int /\ keyword[h.id] \in Int /\ h.id \in Int
         /\ Exceeds(VectorKey(h, keyword), VectorKey(g, keyword)) <=>
              \/ h.sim > g.sim
              \/ h.sim = g.sim /\ keyword[h.id] > keyword[g.id]
              \/ h.sim = g.sim /\ keyword[h.id] = keyword[g.id] /\ h.id < g.id
<1>1. /\ h.sim \in Int /\ h.score \in Int /\ keyword[h.id] \in Int /\ h.id \in Int
      /\ g.sim \in Int /\ g.score \in Int /\ keyword[g.id] \in Int /\ g.id \in Int
  <2>1. Scores \subseteq Int /\ Products \subseteq Int
    BY ShoppingAssumption DEF Products
  <2> QED BY <2>1 DEF Hits
<1> DEFINE m == -h.id
           n == -g.id
<1>2. m \in Int /\ n \in Int /\ (m > n <=> h.id < g.id)
  BY <1>1
<1>3. Exceeds(VectorKey(h, keyword), VectorKey(g, keyword)) <=>
        \/ h.sim > g.sim
        \/ h.sim = g.sim /\ keyword[h.id] > keyword[g.id]
        \/ h.sim = g.sim /\ keyword[h.id] = keyword[g.id] /\ m > n
  <2> DEFINE k == <<h.sim, keyword[h.id], m>>
             l == <<g.sim, keyword[g.id], n>>
  <2>1. VectorKey(h, keyword) = k /\ VectorKey(g, keyword) = l
    BY DEF VectorKey
  <2> HIDE DEF m, n
  <2>2. Exceeds(k, l) <=>
          \/ h.sim > g.sim
          \/ h.sim = g.sim /\ keyword[h.id] > keyword[g.id]
          \/ h.sim = g.sim /\ keyword[h.id] = keyword[g.id] /\ m > n
    <3> DEFINE a == h.sim
               b == keyword[h.id]
               c == g.sim
               d == keyword[g.id]
    <3>1. a \in Int /\ b \in Int /\ c \in Int /\ d \in Int
      BY <1>1
    <3> HIDE DEF a, b, c, d
    <3>2. Exceeds(<<a, b, m>>, <<c, d, n>>) <=> \/ a > c
                                                \/ a = c /\ b > d
                                                \/ a = c /\ b = d /\ m > n
      BY <1>2, <3>1, ExceedsThree
    <3> QED BY <3>2 DEF a, b, c, d
  <2> QED BY <2>1, <2>2
<1> HIDE DEF m, n
<1> QED BY <1>1, <1>2, <1>3

\* The order an answer is shown in.
Ranked(h, g, keyword) ==
  Exceeds(<<h.score, h.sim, keyword[h.id], -h.id>>, <<g.score, g.sim, keyword[g.id], -g.id>>)

\* Score first, then as the vectors had it.
LEMMA RankedIs ==
  ASSUME NEW h \in Hits, NEW g \in Hits, NEW keyword \in [Products -> Scores]
  PROVE  Ranked(h, g, keyword) <=>
           \/ h.score > g.score
           \/ h.score = g.score /\ Exceeds(VectorKey(h, keyword), VectorKey(g, keyword))
<1>1. /\ h.sim \in Int /\ h.score \in Int /\ keyword[h.id] \in Int /\ h.id \in Int
      /\ g.sim \in Int /\ g.score \in Int /\ keyword[g.id] \in Int /\ g.id \in Int
  BY VectorKeyIs
<1> DEFINE m == -h.id
           n == -g.id
<1>2. m \in Int /\ n \in Int /\ (m > n <=> h.id < g.id)
  BY <1>1
<1>3. Ranked(h, g, keyword) <=>
        \/ h.score > g.score
        \/ h.score = g.score /\ h.sim > g.sim
        \/ h.score = g.score /\ h.sim = g.sim /\ keyword[h.id] > keyword[g.id]
        \/ h.score = g.score /\ h.sim = g.sim /\ keyword[h.id] = keyword[g.id] /\ m > n
  <2> DEFINE k == <<h.score, h.sim, keyword[h.id], m>>
             l == <<g.score, g.sim, keyword[g.id], n>>
  <2>1. Ranked(h, g, keyword) <=> Exceeds(k, l)
    BY DEF Ranked
  <2> HIDE DEF m, n
  <2>2. Exceeds(k, l) <=>
          \/ h.score > g.score
          \/ h.score = g.score /\ h.sim > g.sim
          \/ h.score = g.score /\ h.sim = g.sim /\ keyword[h.id] > keyword[g.id]
          \/ /\ h.score = g.score /\ h.sim = g.sim /\ keyword[h.id] = keyword[g.id]
             /\ m > n
    <3> DEFINE a == h.sim
               b == keyword[h.id]
               c == g.sim
               d == keyword[g.id]
               e == h.score
               f == g.score
    <3>1. /\ a \in Int /\ b \in Int /\ c \in Int /\ d \in Int
          /\ e \in Int /\ f \in Int
      BY <1>1
    <3> HIDE DEF a, b, c, d, e, f
    <3>2. Exceeds(<<e, a, b, m>>, <<f, c, d, n>>) <=>
            \/ e > f
            \/ e = f /\ a > c
            \/ e = f /\ a = c /\ b > d
            \/ e = f /\ a = c /\ b = d /\ m > n
      BY <1>2, <3>1, ExceedsFour, SMTT(60)
    <3> QED BY <3>2 DEF a, b, c, d, e, f
  <2> QED BY <2>1, <2>2
<1> HIDE DEF m, n
<1> QED BY <1>1, <1>2, <1>3, VectorKeyIs

\* Keys of the vectors of different products.
LEMMA VectorKeys ==
  ASSUME NEW D \in SUBSET Int, NEW found, \A i \in D : found[i] \in Hits,
         \A i, j \in D : i # j => found[i].id # found[j].id,
         NEW keyword \in [Products -> Scores],
         NEW keys, \A i \in D : keys[i] = VectorKey(found[i], keyword)
  PROVE  /\ Orderly(D, keys)
         /\ \A i, j \in D : Before(keys, i, j) => Exceeds(keys[i], keys[j])
<1> DEFINE S(i) == found[i].sim
           K(i) == keyword[found[i].id]
           P(i) == found[i].id
<1>1. \A i \in D : S(i) \in Int /\ K(i) \in Int /\ P(i) \in Int
  BY VectorKeyIs
<1>2. \A i, j \in D : Exceeds(keys[i], keys[j]) <=> \/ S(i) > S(j)
                                                    \/ S(i) = S(j) /\ K(i) > K(j)
                                                    \/ S(i) = S(j) /\ K(i) = K(j) /\ P(i) < P(j)
  BY VectorKeyIs
<1>3. \A i, j \in D : i # j => P(i) # P(j)
  OBVIOUS
<1> HIDE DEF S, K, P
<1>4. Orderly(D, keys)
  BY <1>1, <1>2, KeysOrderly
<1>5. ASSUME NEW i \in D, NEW j \in D, Before(keys, i, j) PROVE Exceeds(keys[i], keys[j])
  <2>1. i < j => i # j
    OBVIOUS
  <2> QED BY <1>1, <1>2, <1>3, <1>5, <2>1 DEF Before
<1> QED BY <1>4, <1>5

\* A filtered list: the elements at the indices, in the order of the indices.
LEMMA ThoseList ==
  ASSUME NEW T, NEW s \in Seq(T), NEW indices \in SUBSET DOMAIN s
  PROVE  /\ IsFiniteSet(indices) /\ Cardinality(indices) \in Nat
         /\ \E pick :
              /\ pick \in [1 .. Cardinality(indices) -> indices]
              /\ \A i \in indices : \E m \in 1 .. Cardinality(indices) : pick[m] = i
              /\ \A m, n \in 1 .. Cardinality(indices) : m < n => pick[m] < pick[n]
              /\ Those(s, indices) = [m \in 1 .. Cardinality(indices) |-> s[pick[m]]]
<1> DEFINE none == [i \in DOMAIN s |-> <<>>]
<1>1. IsFiniteSet(indices)
  <2>1. IsFiniteSet(1 .. Len(s))
    BY FS_Interval
  <2> QED BY <2>1, FS_Subset
<1>2. indices \in SUBSET Int /\ \A i \in indices : none[i] = <<>>
  OBVIOUS
<1>3. Those(s, indices) = Sorted(s, indices, none)
  BY DEF Those
<1> HIDE DEF none
<1>4. /\ Orderly(indices, none)
      /\ \A i, j \in indices : Before(none, i, j) <=> i < j
  BY <1>2, NoKeys
<1>5. PICK pick : /\ Lists(pick, indices, none)
                  /\ Sorted(s, indices, none) = [m \in 1 .. Cardinality(indices) |-> s[pick[m]]]
  BY <1>1, <1>4, SortedLists
<1> QED BY <1>1, <1>3, <1>4, <1>5, FS_CardinalityType DEF Lists

\* The first elements of a list.
LEMMA FirstOf ==
  ASSUME NEW T, NEW s \in Seq(T), NEW n \in Nat
  PROVE  /\ First(s, n) \in Seq(T)
         /\ Len(First(s, n)) = Capped(n, Len(s)) /\ Len(First(s, n)) <= Len(s)
         /\ \A i \in 1 .. Len(First(s, n)) : First(s, n)[i] = s[i]
<1>1. Capped(n, Len(s)) \in Nat /\ Capped(n, Len(s)) <= Len(s)
  BY DEF Capped
<1> DEFINE c == Capped(n, Len(s))
<1> HIDE DEF c
<1>2. c \in Nat /\ c <= Len(s)
  BY <1>1 DEF c
<1>3. SubSeq(s, 1, c) \in Seq(T) /\ Len(SubSeq(s, 1, c)) = c
  BY <1>2
<1>4. \A i \in 1 .. c : SubSeq(s, 1, c)[i] = s[i]
  BY <1>2
<1> QED BY <1>2, <1>3, <1>4 DEF First, c

-----------------------------------------------------------------------------
(* The invariant.                                                          *)

Seeds == {Catalogue[r][p] : r \in Releases, p \in Products}

ItemSet == [product : Products, quantity : Int]

LineSet == [product : Products, quantity : 1 .. 10, unit : Nat, read : Seeds]

Points == [id : Products, sim : Scores]

\* Points of different products.
NearFits ==
  /\ search.near \in Seq(Points)
  /\ Distinct(search.near)

\* What the vectors found in the table, in the order of its keys.
ScoredFits ==
  /\ search.scored \in Seq(Hits) /\ Distinct(search.scored)
  /\ {search.scored[i].id : i \in DOMAIN search.scored} =
       {search.near[i].id : i \in DOMAIN search.near} \intersect Stocked(search.read)
  /\ \A i \in DOMAIN search.scored : search.scored[i].score = search.scored[i].sim
  /\ \A i, j \in DOMAIN search.scored : i < j =>
       Exceeds(VectorKey(search.scored[i], search.keyword),
               VectorKey(search.scored[j], search.keyword))

SearchFits ==
  search # NoSearch =>
    /\ search.pc \in {"recall", "resolve", "keyword", "rerank", "done"}
    /\ search.spec \in Specs /\ search.keyword \in [Products -> Scores]
    /\ search.pc \in {"resolve", "rerank"} => NearFits
    /\ search.pc \in {"rerank", "done"} => \A p \in Products : search.read[p] \in Seeds
    /\ search.pc = "rerank" => ScoredFits

QuoteShape ==
  quote = [pc |-> quote.pc, items |-> quote.items, market |-> quote.market,
           currency |-> quote.currency, lines |-> quote.lines, pieces |-> quote.pieces,
           subtotal |-> quote.subtotal, inCny |-> quote.inCny, fees |-> quote.fees,
           from |-> quote.from, seen |-> quote.seen]

\* The lines, and what they add up to.
LinesFit ==
  /\ quote.items \in Seq(ItemSet) /\ quote.items # <<>>
  /\ quote.lines \in Seq(LineSet) /\ Len(quote.lines) <= Len(quote.items)
  /\ \A l \in DOMAIN quote.lines :
       LET line == quote.lines[l] IN
       /\ line.quantity = quote.items[l].quantity
       /\ line.read # None
       /\ line.unit \in Convert(line.read.price, line.read.currency, quote.currency)

SumsFit ==
  /\ quote.pieces \in Nat /\ quote.subtotal \in Nat /\ quote.inCny \in Nat
  /\ quote.pieces >= Len(quote.lines)
  /\ quote.lines = <<>> => quote.pieces = 0 /\ quote.subtotal = 0 /\ quote.inCny = 0
  /\ Len(quote.lines) = 1 =>
       /\ quote.pieces = quote.lines[1].quantity
       /\ quote.subtotal = quote.lines[1].unit * quote.lines[1].quantity
  /\ Within(RateToCny[quote.currency], quote.subtotal, quote.inCny,
            quote.pieces * (RateToCny[quote.currency] + 1000))

\* A card asks for one to ten of a product it was made of.
CardFits ==
  LET item == quote.items[1] IN
  /\ Len(quote.items) = 1
  /\ item.quantity \in 1 .. 10
  /\ quote.from[item.product] # None
  /\ quote.market \in quote.from[item.product].markets

QuoteFits ==
  quote # NoQuote =>
    /\ quote.pc \in {"items", "accepted", "refused"}
    /\ QuoteShape
    /\ quote.currency \in Currencies
    /\ quote.pc \in {"items", "accepted"} =>
         quote.market \in FeeMarkets /\ LinesFit /\ SumsFit
    /\ quote.pc = "items" /\ quote.from # None => CardFits
    /\ quote.pc = "accepted" =>
         /\ quote.lines # <<>> /\ quote.pieces <= 10
         /\ quote.fees \in FeeQuotes(quote.subtotal, quote.pieces, quote.market,
                                     quote.currency)

ShoppingInvariant ==
  /\ \A p \in Products : table[p] \in Seeds
  /\ index \subseteq Products
  /\ SearchFits /\ HitsSound
  /\ QuoteFits /\ OfferedIsQuotable

-----------------------------------------------------------------------------
(* Searches.                                                               *)

\* The assumption, product by product and search by search.
LEMMA Assumed ==
  /\ Scores \subseteq Int /\ Quantities \subseteq Int /\ Targets \subseteq Currencies
  /\ RejectLimit \in Nat \ {0} /\ RecallLimit \in Nat /\ Products \subseteq Int
  /\ IsFiniteSet(Products)
  /\ \A product \in Seeds : product # None => WellFormedProduct(product)
  /\ \A spec \in Specs : WellFormedSpec(spec)
<1>1. Products \subseteq Int /\ IsFiniteSet(Products)
  BY ShoppingAssumption, FS_Interval DEF Products
<1>2. \A product \in Seeds : product # None => WellFormedProduct(product)
  BY ShoppingAssumption DEF Seeds
<1> QED BY <1>1, <1>2, ShoppingAssumption

\* What is not rejected fits.
LEMMA NotRejected ==
  ASSUME NEW item, WellFormedProduct(item), NEW spec, WellFormedSpec(spec),
         Rejection(item, spec) = None
  PROVE  /\ spec.market # None => spec.market \in item.markets
         /\ spec.cap # None =>
              \A c \in Convert(item.price, item.currency, spec.currency) : c <= spec.cap
<1>1. "ship_to_unavailable" # None /\ "over_price_cap" # None
  BY ShoppingAssumption
<1>2. spec.market # None => spec.market \in item.markets
  BY <1>1 DEF Rejection
<1>3. ~ \E c \in Convert(item.price, item.currency, spec.currency) :
            spec.cap # None /\ c > spec.cap
  BY <1>1, <1>2 DEF Rejection
<1>4. \A c \in Convert(item.price, item.currency, spec.currency) : c \in Nat
  BY ConvertBounds DEF WellFormedProduct, WellFormedSpec
<1> QED BY <1>2, <1>3, <1>4 DEF WellFormedSpec

\* An answer that is made of the candidates, each once and in the order of their keys,
\* is sound.
LEMMA AnswerSound ==
  ASSUME search.spec \in Specs, search.keyword \in [Products -> Scores],
         NEW read, \A p \in Products : read[p] \in Seeds,
         NEW scored \in Seq(Hits), Distinct(scored),
         \A i, j \in DOMAIN scored : i < j => Ranked(scored[i], scored[j], search.keyword),
         NEW strategy, NEW near,
         {scored[i].id : i \in DOMAIN scored} =
           IF strategy = "keyword_2gram"
           THEN {p \in Stocked(read) : search.keyword[p] > 0}
           ELSE {near[i].id : i \in DOMAIN near} \intersect Stocked(read),
         search' = Answer(scored, read, strategy, near)
  PROVE  SearchFits' /\ HitsSound' /\ search'.pc = "done"
<1> DEFINE spec == search.spec
           fit == {i \in DOMAIN scored : Rejection(read[scored[i].id], spec) = None}
           left == DOMAIN scored \ fit
           passing == Those(scored, fit)
           others == Those(scored, left)
           hits == First(passing, spec.top)
           rejected == First(others, RejectLimit)
<1>1. /\ search'.pc = "done" /\ search'.spec = spec /\ search'.keyword = search.keyword
      /\ search'.near = near /\ search'.read = read /\ search'.strategy = strategy
      /\ search'.hits = hits /\ search'.total = Len(passing) /\ search'.rejected = rejected
  BY DEF Answer
<1>2. WellFormedSpec(spec)
  BY Assumed
<1>3. spec.top \in Nat \ {0}
  BY <1>2 DEF WellFormedSpec
<1>4. fit \subseteq DOMAIN scored /\ left \subseteq DOMAIN scored
  OBVIOUS
<1> DEFINE ids == {hits[i].id : i \in DOMAIN hits}
<1> HIDE DEF hits, rejected
<1>5. PICK pick : /\ Cardinality(fit) \in Nat /\ IsFiniteSet(fit)
                  /\ pick \in [1 .. Cardinality(fit) -> fit]
                  /\ \A m, n \in 1 .. Cardinality(fit) : m < n => pick[m] < pick[n]
                  /\ passing = [m \in 1 .. Cardinality(fit) |-> scored[pick[m]]]
  <2> HIDE DEF fit
  <2> QED BY <1>4, ThoseList
<1>6. PICK rest : /\ Cardinality(left) \in Nat /\ IsFiniteSet(left)
                  /\ rest \in [1 .. Cardinality(left) -> left]
                  /\ others = [m \in 1 .. Cardinality(left) |-> scored[rest[m]]]
  <2> HIDE DEF left
  <2> QED BY <1>4, ThoseList
<1>7. passing \in Seq(Hits) /\ Len(passing) = Cardinality(fit)
  <2> HIDE DEF fit, passing
  <2>1. \A m \in 1 .. Cardinality(fit) : pick[m] \in DOMAIN scored
    BY <1>4, <1>5
  <2> QED BY <1>5, <2>1
<1>8. others \in Seq(Hits) /\ Len(others) = Cardinality(left)
  <2> HIDE DEF left, others
  <2>1. \A m \in 1 .. Cardinality(left) : rest[m] \in DOMAIN scored
    BY <1>4, <1>6
  <2> QED BY <1>6, <2>1
<1>9. /\ hits \in Seq(Hits) /\ Len(hits) = Capped(spec.top, Len(passing))
      /\ Len(hits) <= Len(passing)
      /\ \A i \in DOMAIN hits : hits[i] = passing[i]
  <2> DEFINE n == spec.top
  <2>1. n \in Nat
    BY <1>3
  <2> HIDE DEF passing, n
  <2>2. /\ First(passing, n) \in Seq(Hits)
        /\ Len(First(passing, n)) = Capped(n, Len(passing))
        /\ Len(First(passing, n)) <= Len(passing)
        /\ \A i \in 1 .. Len(First(passing, n)) : First(passing, n)[i] = passing[i]
    BY <1>7, <2>1, FirstOf
  <2>3. hits = First(passing, n)
    BY DEF hits, n
  <2> HIDE DEF spec
  <2>4. DOMAIN hits = 1 .. Len(hits)
    BY <2>2, <2>3
  <2> QED BY <2>2, <2>3, <2>4 DEF n
<1>10. rejected \in Seq(Hits) /\ Len(rejected) = Capped(RejectLimit, Len(others))
  <2>1. RejectLimit \in Nat
    BY Assumed
  <2> HIDE DEF others
  <2> QED BY <1>8, <2>1, FirstOf DEF rejected
<1> DEFINE candidates == {scored[i].id : i \in DOMAIN scored}
           all == {scored[i].id : i \in fit}
<1>11. Candidates' = candidates
  BY <1>1 DEF Candidates
<1>12. Passing' = all
  <2>1. Passing' = {p \in candidates : Rejection(read[p], spec) = None}
    BY <1>1, <1>11 DEF Passing
  <2> QED BY <2>1
<1>13. Cardinality(all) = Cardinality(fit)
  <2> DEFINE f == [i \in fit |-> scored[i].id]
  <2>1. f \in Surjection(fit, all)
    BY DEF Surjection
  <2>2. f \in Injection(fit, all)
    <3>1. \A i, j \in fit : i # j => scored[i].id # scored[j].id
      BY <1>4 DEF Distinct
    <3> HIDE DEF fit
    <3> QED BY <3>1 DEF Injection, IsInjective
  <2> HIDE DEF f, fit
  <2> QED BY <1>5, <2>1, <2>2, FS_Surjection
<1>14. \A p \in all : p \in Products /\ read[p] # None
  <2>1. all \subseteq candidates
    OBVIOUS
  <2>2. candidates \subseteq Stocked(read)
    OBVIOUS
  <2> QED BY <2>1, <2>2 DEF Stocked
<1>15. \A i \in DOMAIN hits : pick[i] \in fit /\ hits[i] = scored[pick[i]]
  <2> HIDE DEF fit, passing
  <2>1. DOMAIN hits \subseteq 1 .. Cardinality(fit)
    BY <1>5, <1>7, <1>9
  <2>2. \A i \in DOMAIN hits : passing[i] = scored[pick[i]]
    BY <1>5, <2>1
  <2> QED BY <1>5, <1>9, <2>1, <2>2
<1>16. ids \subseteq all
  <2> HIDE DEF fit
  <2> QED BY <1>15
<1>17. ASSUME NEW i \in DOMAIN hits, NEW j \in DOMAIN hits, i < j
       PROVE  Ranked(hits[i], hits[j], search.keyword)
  <2>1. pick[i] < pick[j]
    <3> HIDE DEF fit, passing
    <3>1. i \in 1 .. Cardinality(fit) /\ j \in 1 .. Cardinality(fit)
      BY <1>5, <1>7, <1>9
    <3> QED BY <1>5, <1>17, <3>1
  <2> QED BY <1>4, <1>15, <2>1
<1>18. ASSUME NEW p \in ids
       PROVE  LET item == read[p] IN
              /\ spec.market # None => spec.market \in item.markets
              /\ spec.cap # None =>
                   \A c \in Convert(item.price, item.currency, spec.currency) : c <= spec.cap
  <2>1. p \in all
    BY <1>16
  <2>2. Rejection(read[p], spec) = None
    BY <2>1
  <2>3. WellFormedProduct(read[p])
    BY <1>14, <2>1, Assumed
  <2> HIDE DEF ids, spec
  <2> QED BY <1>2, <2>2, <2>3, NotRejected
<1>19. hits = <<>> /\ candidates # {} => rejected # <<>>
  <2> SUFFICES ASSUME hits = <<>>, candidates # {} PROVE rejected # <<>>
    OBVIOUS
  <2>1. Cardinality(fit) = 0
    <3> HIDE DEF fit, passing
    <3> QED BY <1>3, <1>5, <1>7, <1>9 DEF Capped
  <2>2. fit = {}
    <3> HIDE DEF fit
    <3> QED BY <1>5, <2>1, FS_EmptySet
  <2>3. left # {}
    BY <2>2
  <2>4. Cardinality(left) # 0
    <3> HIDE DEF left
    <3> QED BY <1>6, <2>3, FS_EmptySet
  <2>5. RejectLimit \in Nat \ {0}
    BY Assumed
  <2>6. Len(rejected) # 0
    <3> HIDE DEF left, others
    <3> QED BY <1>6, <1>8, <1>10, <2>4, <2>5 DEF Capped
  <2> QED BY <2>6
<1>20. HitsSound'
  <2> HIDE DEF spec, fit, passing, others, candidates, all, ids
  <2>1. search'.total = Cardinality(Passing') /\ Len(hits) = Capped(spec.top, search'.total)
    BY <1>1, <1>7, <1>9, <1>12, <1>13
  <2>2. hits = <<>> /\ Candidates' # {} => search'.rejected # <<>>
    BY <1>1, <1>11, <1>19
  <2>3. ids \subseteq Passing'
    BY <1>12, <1>16
  <2> QED BY <1>1, <1>17, <1>18, <2>1, <2>2, <2>3 
         DEF HitsSound, Done, ids, Ranked, RankKey
<1>21. SearchFits'
  BY <1>1 DEF SearchFits
<1> QED BY <1>1, <1>20, <1>21

\* list has the elements of s in the order of pick.
Listed(list, s, pick, n) == list = [m \in 1 .. n |-> s[pick[m]]]

\* Hits of different products at these indices.
Differ(s, indices) ==
  /\ \A i \in indices : s[i] \in Hits
  /\ \A i, j \in indices : i # j => s[i].id # s[j].id

\* The products at some indices.
Ids(s, indices) == {s[i].id : i \in indices}

\* Whatever is sorted, its elements come once each.
LEMMA SortedElements ==
  ASSUME NEW indices, IsFiniteSet(indices), NEW s, Differ(s, indices),
         NEW keys, NEW pick, Lists(pick, indices, keys), Orderly(indices, keys),
         NEW list, Listed(list, s, pick, Cardinality(indices))
  PROVE  /\ list \in Seq(Hits) /\ Distinct(list) /\ Len(list) = Cardinality(indices)
         /\ Ids(list, DOMAIN list) = Ids(s, indices)
<1> DEFINE n == Cardinality(indices)
<1>1. n \in Nat
  BY FS_CardinalityType
<1>2. pick \in [1 .. n -> indices] /\ \A i \in indices : \E m \in 1 .. n : pick[m] = i
  BY DEF Lists
<1> HIDE DEF n
<1>3. DOMAIN list = 1 .. n /\ \A m \in 1 .. n : list[m] = s[pick[m]]
  BY DEF n, Listed
<1>4. ASSUME NEW m \in 1 .. n
      PROVE  pick[m] \in indices /\ list[m] = s[pick[m]] /\ list[m] \in Hits
  <2>1. pick[m] \in indices
    BY <1>2
  <2>2. s[pick[m]] \in Hits
    BY <2>1 DEF Differ
  <2>3. list[m] = s[pick[m]]
    BY <1>3
  <2> QED BY <2>1, <2>2, <2>3
<1>8. list \in Seq(Hits) /\ Len(list) = n /\ DOMAIN list = 1 .. n
  <2>1. DOMAIN list = 1 .. n
    BY <1>3
  <2>2. list \in [1 .. n -> Hits]
    <3>1. list = [m \in 1 .. n |-> list[m]]
      BY <1>3 DEF Listed
    <3> QED BY <1>4, <3>1
  <2> QED BY <1>1, <2>1, <2>2
<1>5. ASSUME NEW m \in 1 .. n, NEW k \in 1 .. n, m # k PROVE pick[m] # pick[k]
  <2>1. m < k \/ k < m
    BY <1>5
  <2>2. Before(keys, pick[m], pick[k]) \/ Before(keys, pick[k], pick[m])
    BY <1>5, <2>1 DEF Lists, n
  <2> QED BY <1>2, <2>2 DEF Orderly
<1>6. Distinct(list)
  <2>1. ASSUME NEW m \in 1 .. n, NEW k \in 1 .. n, m # k PROVE list[m].id # list[k].id
    BY <1>4, <1>5, <2>1 DEF Differ
  <2> QED BY <1>8, <2>1 DEF Distinct
<1>7. Ids(list, DOMAIN list) = Ids(s, indices)
  <2>1. ASSUME NEW m \in 1 .. n PROVE list[m].id \in {s[i].id : i \in indices}
    BY <1>4
  <2>2. ASSUME NEW i \in indices PROVE \E m \in 1 .. n : s[i].id = list[m].id
    BY <1>2, <1>4
  <2> QED BY <1>8, <2>1, <2>2 DEF Ids
<1> QED BY <1>6, <1>7, <1>8 DEF n

\* The keyword recall answers soundly.
LEMMA KeywordRecallSound ==
  ASSUME SearchFits, \A p \in Products : table[p] \in Seeds, KeywordRecall
  PROVE  SearchFits' /\ HitsSound' /\ search'.pc = "done"
<1> DEFINE all == [p \in Products |-> [id |-> p, sim |-> 0, score |-> search.keyword[p]]]
           some == {p \in Stocked(table) : search.keyword[p] > 0}
           keys == [p \in Products |-> <<search.keyword[p], -p>>]
           list == Sorted(all, some, keys)
           keyword == search.keyword
<1>1. search.spec \in Specs /\ keyword \in [Products -> Scores]
  BY DEF SearchFits, KeywordRecall, NoSearch
<1>2. search' = Answer(list, table, "keyword_2gram", <<>>)
  BY DEF KeywordRecall
<1>3. some \subseteq Products /\ IsFiniteSet(some) /\ some \in SUBSET Int
  <2>1. some \subseteq Products
    BY DEF Stocked
  <2> HIDE DEF some
  <2> QED BY <2>1, Assumed, FS_Subset
<1>4. \A p \in some : /\ p \in Int /\ -p \in Int /\ keyword[p] \in Int
                      /\ all[p] = [id |-> p, sim |-> 0, score |-> keyword[p]]
                      /\ keys[p] = <<keyword[p], -p>>
  <2> SUFFICES ASSUME NEW p \in some
               PROVE  /\ p \in Int /\ -p \in Int /\ keyword[p] \in Int
                      /\ all[p] = [id |-> p, sim |-> 0, score |-> keyword[p]]
                      /\ keys[p] = <<keyword[p], -p>>
    OBVIOUS
  <2> HIDE DEF some
  <2>1. p \in Products /\ p \in Int
    BY <1>3
  <2>2. -p \in Int
    BY <2>1
  <2>3. keyword[p] \in Int
    BY <1>1, <2>1, Assumed
  <2> QED BY <2>1, <2>2, <2>3
<1>5. \A p \in some : all[p] \in Hits /\ all[p].id = p
  <2> HIDE DEF all, some, keyword
  <2>1. ASSUME NEW p \in some PROVE all[p] \in Hits /\ all[p].id = p
    <3>1. p \in Products /\ keyword[p] \in Int
      BY <1>3, <1>4
    <3>2. all[p] = [id |-> p, sim |-> 0, score |-> keyword[p]]
      BY <1>4
    <3> QED BY <3>1, <3>2 DEF Hits
  <2> QED BY <2>1
<1> HIDE DEF all, some, keys
<1>6. /\ Orderly(some, keys)
      /\ \A p, q \in some : Before(keys, p, q) => \/ keyword[p] > keyword[q]
                                                  \/ keyword[p] = keyword[q] /\ -p > -q
  <2> DEFINE w == [p \in some |-> -p]
  <2>1. \A p \in some : w[p] = -p /\ w[p] \in Int
    BY <1>4
  <2>2. ASSUME NEW p \in some, NEW q \in some, p # q PROVE w[p] # w[q]
    <3>1. p \in Int /\ q \in Int
      BY <1>4
    <3>2. -p # -q
      BY <2>2, <3>1
    <3> QED BY <2>1, <3>2
  <2>3. \A p \in some : keys[p] = <<keyword[p], w[p]>>
    BY <1>4, <2>1
  <2> HIDE DEF w, keyword
  <2>4. /\ Orderly(some, keys)
        /\ \A p, q \in some : Before(keys, p, q) => \/ keyword[p] > keyword[q]
                                                    \/ keyword[p] = keyword[q] /\ w[p] > w[q]
    BY <1>3, <1>4, <2>1, <2>2, <2>3, PairKeys
  <2> QED BY <2>1, <2>4
<1>7. PICK pick : /\ Lists(pick, some, keys)
                  /\ Listed(list, all, pick, Cardinality(some))
  BY <1>3, <1>6, SortedLists DEF Listed
<1>8. /\ list \in Seq(Hits) /\ Distinct(list) /\ Len(list) = Cardinality(some)
      /\ Ids(list, DOMAIN list) = Ids(all, some)
  <2>1. Differ(all, some)
    BY <1>5 DEF Differ
  <2>2. Orderly(some, keys) /\ Lists(pick, some, keys) /\ IsFiniteSet(some)
    BY <1>3, <1>6, <1>7
  <2>3. Listed(list, all, pick, Cardinality(some))
    BY <1>7
  <2> HIDE DEF list
  <2> QED BY <2>1, <2>2, <2>3, SortedElements
<1>9. {list[m].id : m \in DOMAIN list} = {p \in Stocked(table) : keyword[p] > 0}
  <2>1. Ids(all, some) = some
    BY <1>5 DEF Ids
  <2> HIDE DEF list
  <2> QED BY <1>8, <2>1 DEF some, Ids
<1>10. ASSUME NEW m \in DOMAIN list, NEW k \in DOMAIN list, m < k
       PROVE  Ranked(list[m], list[k], keyword)
  <2> DEFINE p == pick[m]
             q == pick[k]
  <2> HIDE DEF list
  <2>1. m \in 1 .. Cardinality(some) /\ k \in 1 .. Cardinality(some)
    BY <1>8
  <2>2. p \in some /\ q \in some /\ Before(keys, p, q) /\ list[m] = all[p] /\ list[k] = all[q]
    BY <1>7, <1>10, <2>1 DEF Lists, Listed
  <2> HIDE DEF p, q, keyword
  <2>3. keyword[p] > keyword[q] \/ (keyword[p] = keyword[q] /\ -p > -q)
    BY <1>6, <2>2
  <2>4. keyword[p] > keyword[q] \/ (keyword[p] = keyword[q] /\ p < q)
    <3>1. p \in Int /\ q \in Int
      BY <1>4, <2>2
    <3>2. -p > -q => p < q
      BY <3>1
    <3> QED BY <2>3, <3>2
  <2>5. /\ all[p].id = p /\ all[p].sim = 0 /\ all[p].score = keyword[p]
        /\ all[q].id = q /\ all[q].sim = 0 /\ all[q].score = keyword[q]
    <3>1. /\ all[p] = [id |-> p, sim |-> 0, score |-> keyword[p]]
          /\ all[q] = [id |-> q, sim |-> 0, score |-> keyword[q]]
      BY <1>4, <2>2
    <3> QED BY <3>1
  <2>6. Ranked(all[p], all[q], keyword)
    BY <1>1, <1>5, <2>2, <2>4, <2>5, RankedIs, VectorKeyIs
  <2> QED BY <2>2, <2>6
<1> HIDE DEF list
<1> QED BY <1>1, <1>2, <1>8, <1>9, <1>10, AnswerSound DEF keyword

\* Without a reranker the order of the vectors stands.
LEMMA RerankFailsSound ==
  ASSUME SearchFits, RerankFails
  PROVE  SearchFits' /\ HitsSound' /\ search'.pc = "done"
<1>1. /\ search.spec \in Specs /\ search.keyword \in [Products -> Scores]
      /\ \A p \in Products : search.read[p] \in Seeds
      /\ ScoredFits
  BY DEF SearchFits, RerankFails, NoSearch
<1>2. ASSUME NEW i \in DOMAIN search.scored, NEW j \in DOMAIN search.scored, i < j
      PROVE  Ranked(search.scored[i], search.scored[j], search.keyword)
  <2> DEFINE h == search.scored[i]
             g == search.scored[j]
             keyword == search.keyword
  <2>1. /\ h \in Hits /\ g \in Hits /\ h.score = h.sim /\ g.score = g.sim
        /\ Exceeds(VectorKey(h, keyword), VectorKey(g, keyword))
    BY <1>1, <1>2 DEF ScoredFits
  <2>2. keyword \in [Products -> Scores]
    BY <1>1
  <2> HIDE DEF h, g, keyword
  <2>3. Ranked(h, g, keyword)
    BY <2>1, <2>2, RankedIs, VectorKeyIs
  <2> QED BY <2>3 DEF h, g, keyword
<1>3. search' = Answer(search.scored, search.read, "embedding_only", search.near)
  BY DEF RerankFails
<1>4. {search.scored[i].id : i \in DOMAIN search.scored} =
        {search.near[i].id : i \in DOMAIN search.near} \intersect Stocked(search.read)
  BY <1>1 DEF ScoredFits
<1> QED BY <1>1, <1>2, <1>3, <1>4, AnswerSound DEF ScoredFits

\* What the vectors found is listed once each, in the order of the keys.
LEMMA ResolveFits ==
  ASSUME SearchFits, \A p \in Products : table[p] \in Seeds, Resolve
  PROVE  SearchFits' /\ search'.pc # "done"
<1> DEFINE near == search.near
           keyword == search.keyword
           found == [i \in DOMAIN near |-> [id |-> near[i].id, sim |-> near[i].sim,
                                            score |-> near[i].sim]]
           known == {i \in DOMAIN found : found[i].id \in Stocked(table)}
           keys == [i \in DOMAIN found |-> VectorKey(found[i], keyword)]
           list == Sorted(found, known, keys)
<1>1. /\ search.spec \in Specs /\ keyword \in [Products -> Scores]
      /\ near \in Seq(Points) /\ Distinct(near)
  BY DEF SearchFits, Resolve, NoSearch, NearFits
<1>2. CASE search' = [pc |-> "keyword", spec |-> search.spec, keyword |-> search.keyword]
  BY <1>1, <1>2 DEF SearchFits
<1>3. CASE search' = [pc |-> "rerank", spec |-> search.spec, keyword |-> search.keyword,
                      near |-> search.near, read |-> table, scored |-> list]
  <2>1. ASSUME NEW i \in DOMAIN near
        PROVE  /\ found[i] \in Hits /\ found[i].id = near[i].id
               /\ found[i].score = found[i].sim
    <3>1. near[i].id \in Products /\ near[i].sim \in Int
      <4> HIDE DEF near, found
      <4>1. near[i] \in Points
        BY <1>1
      <4> QED BY <4>1, Assumed DEF Points
    <3>2. found[i] = [id |-> near[i].id, sim |-> near[i].sim, score |-> near[i].sim]
      OBVIOUS
    <3> HIDE DEF found, near
    <3> QED BY <3>1, <3>2 DEF Hits
  <2>2. DOMAIN found = DOMAIN near /\ DOMAIN near = 1 .. Len(near)
    BY <1>1
  <2>3. known \subseteq DOMAIN near /\ known \in SUBSET Int /\ IsFiniteSet(known)
    <3>1. known \subseteq DOMAIN near
      BY <2>2
    <3>2. IsFiniteSet(1 .. Len(near))
      BY <1>1, FS_Interval
    <3> HIDE DEF known, near
    <3> QED BY <2>2, <3>1, <3>2, FS_Subset
  <2>4. \A i \in known : keys[i] = VectorKey(found[i], keyword)
    OBVIOUS
  <2>5. Differ(found, known)
    <3> HIDE DEF found, near, known
    <3> QED BY <1>1, <2>1, <2>3 DEF Differ, Distinct
  <2>6. Ids(found, known) = Ids(near, DOMAIN near) \intersect Stocked(table)
    <3>1. known = {i \in DOMAIN near : near[i].id \in Stocked(table)}
      BY <2>1, <2>2
    <3> HIDE DEF found, near, known
    <3>2. \A i \in known : found[i].id = near[i].id /\ near[i].id \in Stocked(table)
      BY <2>1, <3>1
    <3> QED BY <2>3, <3>1, <3>2 DEF Ids
  <2> HIDE DEF found, known, keys
  <2>7. /\ Orderly(known, keys)
        /\ \A i, j \in known : Before(keys, i, j) => Exceeds(keys[i], keys[j])
    <3> HIDE DEF keyword
    <3> QED BY <1>1, <2>3, <2>4, <2>5, VectorKeys DEF Differ
  <2>8. PICK pick : Lists(pick, known, keys) /\ Listed(list, found, pick, Cardinality(known))
    BY <2>3, <2>7, SortedLists DEF Listed
  <2> HIDE DEF list
  <2>9. /\ list \in Seq(Hits) /\ Distinct(list) /\ Len(list) = Cardinality(known)
        /\ Ids(list, DOMAIN list) = Ids(found, known)
    BY <2>3, <2>5, <2>7, <2>8, SortedElements
  <2>10. ASSUME NEW m \in DOMAIN list
         PROVE  pick[m] \in known /\ list[m] = found[pick[m]] /\ m \in 1 .. Cardinality(known)
    BY <2>8, <2>9 DEF Lists, Listed
  <2>11. ASSUME NEW m \in DOMAIN list PROVE list[m].score = list[m].sim
    BY <2>1, <2>3, <2>10
  <2>12. ASSUME NEW m \in DOMAIN list, NEW k \in DOMAIN list, m < k
         PROVE  Exceeds(VectorKey(list[m], keyword), VectorKey(list[k], keyword))
    <3>1. Before(keys, pick[m], pick[k])
      BY <2>8, <2>10, <2>12 DEF Lists
    <3> QED BY <2>4, <2>7, <2>10, <3>1
  <2>13. /\ search'.pc = "rerank" /\ search'.spec = search.spec /\ search'.keyword = keyword
         /\ search'.near = near /\ search'.read = table /\ search'.scored = list
    BY <1>3
  <2>14. NearFits'
    BY <1>1, <2>13 DEF NearFits, Distinct
  <2>15. ScoredFits'
    <3> HIDE DEF near, keyword
    <3>1. /\ search'.scored \in Seq(Hits) /\ Distinct(search.scored)'
          /\ \A m \in DOMAIN search'.scored : search'.scored[m].score = search'.scored[m].sim
      BY <2>9, <2>11, <2>13 DEF Distinct
    <3>2. {list[m].id : m \in DOMAIN list} =
            {near[i].id : i \in DOMAIN near} \intersect Stocked(table)
      BY <2>6, <2>9 DEF Ids
    <3>3. {search'.scored[m].id : m \in DOMAIN search'.scored} =
            {search'.near[i].id : i \in DOMAIN search'.near} \intersect Stocked(search.read)'
      BY <2>13, <3>2 DEF Stocked
    <3>4. \A m, k \in DOMAIN search'.scored : m < k =>
            Exceeds(VectorKey(search'.scored[m], search'.keyword),
                    VectorKey(search'.scored[k], search'.keyword))
      BY <2>12, <2>13
    <3> QED BY <3>1, <3>3, <3>4 DEF ScoredFits, VectorKey
  <2> QED BY <1>1, <2>13, <2>14, <2>15 DEF SearchFits
<1> QED BY <1>2, <1>3 DEF Resolve

\* The reranker's order, ties in the order of the vectors, is the order of the answer.
LEMMA RerankSound ==
  ASSUME SearchFits, Rerank
  PROVE  SearchFits' /\ HitsSound' /\ search'.pc = "done"
<1> DEFINE scored == search.scored
           keyword == search.keyword
<1>1. /\ search.spec \in Specs /\ keyword \in [Products -> Scores]
      /\ \A p \in Products : search.read[p] \in Seeds
      /\ ScoredFits
  BY DEF SearchFits, Rerank, NoSearch
<1>2. PICK relevance \in [{scored[i].id : i \in DOMAIN scored} -> Scores] :
        LET ranked == [i \in DOMAIN scored |->
                         [scored[i] EXCEPT !.score = relevance[scored[i].id]]]
            keys   == [i \in DOMAIN ranked |-> <<ranked[i].score>>]
        IN search' = Answer(Sorted(ranked, DOMAIN ranked, keys), search.read,
                            "embedding_rerank", search.near)
  BY DEF Rerank
<1> DEFINE ranked == [i \in DOMAIN scored |->
                        [scored[i] EXCEPT !.score = relevance[scored[i].id]]]
           keys == [i \in DOMAIN ranked |-> <<ranked[i].score>>]
           D == DOMAIN ranked
           list == Sorted(ranked, D, keys)
<1>3. search' = Answer(list, search.read, "embedding_rerank", search.near)
  BY <1>2
<1>4. /\ scored \in Seq(Hits) /\ Distinct(scored) /\ DOMAIN scored = 1 .. Len(scored)
      /\ D = DOMAIN scored
  BY <1>1 DEF ScoredFits
<1>5. ASSUME NEW i \in D
      PROVE  /\ scored[i] \in Hits /\ ranked[i] \in Hits
             /\ ranked[i].id = scored[i].id /\ ranked[i].sim = scored[i].sim
             /\ keys[i] = <<ranked[i].score>>
  <2>1. scored[i] \in Hits
    BY <1>4
  <2>2. relevance[scored[i].id] \in Int
    BY <1>2, <1>4, Assumed
  <2>3. ranked[i] = [scored[i] EXCEPT !.score = relevance[scored[i].id]]
    BY <1>4
  <2>4. keys[i] = <<ranked[i].score>>
    OBVIOUS
  <2> HIDE DEF ranked, keys, scored
  <2> QED BY <2>1, <2>2, <2>3, <2>4 DEF Hits
<1>6. D \in SUBSET Int /\ IsFiniteSet(D)
  <2> DEFINE n == Len(scored)
  <2>2. n \in Nat
    BY <1>4
  <2>1. IsFiniteSet(1 .. n)
    <3> HIDE DEF n
    <3> QED BY <2>2, FS_Interval
  <2> QED BY <1>4, <2>1
<1> HIDE DEF ranked, keys, D
<1>7. Differ(ranked, D)
  BY <1>4, <1>5 DEF Differ, Distinct
<1>8. Ids(ranked, D) = Ids(scored, DOMAIN scored)
  BY <1>4, <1>5 DEF Ids
<1>9. /\ Orderly(D, keys)
      /\ \A i, j \in D : Before(keys, i, j) =>
           \/ ranked[i].score > ranked[j].score
           \/ ranked[i].score = ranked[j].score /\ i < j
  <2> DEFINE v == [i \in D |-> ranked[i].score]
  <2>1. \A i \in D : v[i] \in Int /\ v[i] = ranked[i].score /\ keys[i] = <<v[i]>>
    BY <1>5 DEF Hits
  <2> HIDE DEF v
  <2>2. /\ Orderly(D, keys)
        /\ \A i, j \in D : Before(keys, i, j) <=> \/ v[i] > v[j]
                                                  \/ v[i] = v[j] /\ i < j
    BY <1>6, <2>1, SingleKeys
  <2> QED BY <2>1, <2>2
<1>10. PICK pick : Lists(pick, D, keys) /\ Listed(list, ranked, pick, Cardinality(D))
  BY <1>6, <1>9, SortedLists DEF Listed
<1> HIDE DEF list
<1>11. /\ list \in Seq(Hits) /\ Distinct(list) /\ Len(list) = Cardinality(D)
       /\ Ids(list, DOMAIN list) = Ids(ranked, D)
  BY <1>6, <1>7, <1>9, <1>10, SortedElements
<1>12. ASSUME NEW m \in DOMAIN list, NEW k \in DOMAIN list, m < k
       PROVE  Ranked(list[m], list[k], keyword)
  <2> DEFINE i == pick[m]
             j == pick[k]
             h == ranked[i]
             g == ranked[j]
  <2>1. /\ i \in D /\ j \in D /\ Before(keys, i, j) /\ list[m] = h /\ list[k] = g
    BY <1>10, <1>11, <1>12 DEF Lists, Listed
  <2> HIDE DEF i, j
  <2>2. h \in Hits /\ g \in Hits
    BY <1>5, <2>1
  <2>3. CASE h.score > g.score
    <3> HIDE DEF h, g, keyword
    <3> QED BY <1>1, <2>1, <2>2, <2>3, RankedIs
  <2>4. CASE h.score = g.score /\ i < j
    <3>1. Exceeds(VectorKey(scored[i], keyword), VectorKey(scored[j], keyword))
      BY <1>1, <1>4, <2>1, <2>4 DEF ScoredFits
    <3>2. /\ h.id = scored[i].id /\ h.sim = scored[i].sim
          /\ g.id = scored[j].id /\ g.sim = scored[j].sim
      BY <1>5, <2>1
    <3>3. Exceeds(VectorKey(h, keyword), VectorKey(g, keyword))
      <4> HIDE DEF h, g, keyword, scored
      <4> QED BY <3>1, <3>2 DEF VectorKey
    <3> HIDE DEF h, g, keyword
    <3> QED BY <1>1, <2>1, <2>2, <2>4, <3>3, RankedIs
  <2> QED BY <1>9, <2>1, <2>3, <2>4
<1>13. {list[i].id : i \in DOMAIN list} =
         {search.near[i].id : i \in DOMAIN search.near} \intersect Stocked(search.read)
  BY <1>1, <1>8, <1>11 DEF ScoredFits, Ids
<1> QED BY <1>1, <1>3, <1>11, <1>12, <1>13, AnswerSound DEF keyword

\* The index answers with points of different products.
LEMMA IndexAnswersFits ==
  ASSUME SearchFits, index \subseteq Products, IndexAnswers
  PROVE  SearchFits' /\ search'.pc # "done"
<1>1. search.spec \in Specs /\ search.keyword \in [Products -> Scores]
  BY DEF SearchFits, IndexAnswers, NoSearch
<1> DEFINE n == Capped(RecallLimit, Cardinality(index))
<1>2. n \in Nat
  <2>1. IsFiniteSet(index)
    BY Assumed, FS_Subset
  <2>2. Cardinality(index) \in Nat /\ RecallLimit \in Nat
    BY <2>1, Assumed, FS_CardinalityType
  <2> QED BY <2>2 DEF Capped
<1>3. PICK near \in [1 .. n -> [id : index, sim : Scores]] :
        /\ \A i, j \in DOMAIN near : i < j =>
             near[i].id # near[j].id /\ near[i].sim >= near[j].sim
        /\ search' = [pc |-> "resolve", spec |-> search.spec,
                      keyword |-> search.keyword, near |-> near]
  BY DEF IndexAnswers
<1> HIDE DEF n
<1>4. near \in Seq(Points)
  <2>1. [id : index, sim : Scores] \subseteq Points
    BY DEF Points
  <2>2. near \in [1 .. n -> Points]
    BY <1>3, <2>1
  <2> QED BY <1>2, <2>2
<1>5. Distinct(near)
  <2> SUFFICES ASSUME NEW i \in DOMAIN near, NEW j \in DOMAIN near, i # j
               PROVE  near[i].id # near[j].id
    BY DEF Distinct
  <2>1. i < j \/ j < i
    BY <1>2, <1>3
  <2> QED BY <1>3, <2>1
<1>6. NearFits'
  BY <1>3, <1>4, <1>5 DEF NearFits, Distinct
<1> QED BY <1>1, <1>3, <1>6 DEF SearchFits

\* The other steps of a search.
LEMMA OtherSearchFits ==
  ASSUME SearchFits, HitsSound,
         \/ UNCHANGED search
         \/ \E spec \in Specs, keyword \in [Products -> Scores] : Ask(spec, keyword)
         \/ RecallFails
         \/ search' = NoSearch
  PROVE  SearchFits' /\ HitsSound'
<1>1. CASE UNCHANGED search
  <2>1. search' = search
    BY <1>1
  <2>2. SearchFits'
    BY <2>1 DEF SearchFits, NearFits, ScoredFits, Distinct, VectorKey, Stocked
  <2>3. Candidates' = Candidates
    BY <2>1 DEF Candidates, Stocked
  <2>4. Passing' = Passing
    BY <2>1, <2>3 DEF Passing
  <2>5. HitsSound'
    BY <2>1, <2>3, <2>4 DEF HitsSound, Done, RankKey
  <2> QED BY <2>2, <2>5
<1>2. CASE \E spec \in Specs, keyword \in [Products -> Scores] : Ask(spec, keyword)
  BY <1>2 DEF Ask, SearchFits, HitsSound, Done
<1>3. CASE RecallFails
  <2>1. search.spec \in Specs /\ search.keyword \in [Products -> Scores]
    BY <1>3 DEF SearchFits, RecallFails, NoSearch
  <2> QED BY <1>3, <2>1 DEF RecallFails, SearchFits, HitsSound, Done
<1>4. CASE search' = NoSearch
  BY <1>4 DEF NoSearch, SearchFits, HitsSound, Done
<1> QED BY <1>1, <1>2, <1>3, <1>4

-----------------------------------------------------------------------------
(* Quotes.                                                                 *)

\* A quote that begins has no lines.
LEMMA BeginFits ==
  ASSUME NEW items \in Seq(ItemSet), items # <<>>, NEW market \in FeeMarkets,
         NEW currency \in Currencies, NEW from,
         from # None =>
           /\ Len(items) = 1 /\ items[1].quantity \in 1 .. 10
           /\ from[items[1].product] # None
           /\ market \in from[items[1].product].markets,
         quote' = Quote(items, market, currency, from)
  PROVE  QuoteFits' /\ OfferedIsQuotable'
<1>1. /\ quote'.pc = "items" /\ quote'.items = items /\ quote'.market = market
      /\ quote'.currency = currency /\ quote'.lines = <<>> /\ quote'.pieces = 0
      /\ quote'.subtotal = 0 /\ quote'.inCny = 0 /\ quote'.from = from
  BY DEF Quote
<1>2. QuoteShape'
  BY DEF Quote, QuoteShape
<1>3. LinesFit'
  <2>1. <<>> \in Seq(LineSet) /\ Len(<<>>) = 0 /\ DOMAIN <<>> = {} /\ Len(items) \in Nat
    OBVIOUS
  <2> QED BY <1>1, <2>1 DEF LinesFit
<1>4. SumsFit'
  <2>1. RateToCny[currency] \in Nat
    BY RateType
  <2>2. Within(RateToCny[currency], 0, 0, 0 * (RateToCny[currency] + 1000))
    <3> DEFINE r == RateToCny[currency]
    <3> HIDE DEF r
    <3>1. r \in Nat
      BY <2>1 DEF r
    <3>2. r * 0 = 0 /\ 0 * (r + 1000) = 0
      BY <3>1
    <3> QED BY <3>2 DEF Within, r
  <2>3. Within(RateToCny[currency], 0, 0, 0 * (RateToCny[currency] + 1000))'
    BY <2>2 DEF Within
  <2>4. Len(<<>>) = 0
    OBVIOUS
  <2> QED BY <1>1, <2>3, <2>4 DEF SumsFit
<1>5. from # None => CardFits'
  BY <1>1 DEF CardFits
<1> QED BY <1>1, <1>2, <1>3, <1>4, <1>5 DEF QuoteFits, OfferedIsQuotable

\* What a card offers.
LEMMA QuoteCardFits ==
  ASSUME SearchFits, HitsSound, NEW i, NEW q, NEW market \in FeeMarkets,
         NEW currency \in Targets, QuoteCard(i, q, market, currency)
  PROVE  QuoteFits' /\ OfferedIsQuotable'
<1> DEFINE p == search.hits[i].id
           items == <<Item(p, q)>>
<1>1. /\ search.pc = "done" /\ i \in DOMAIN search.hits /\ q \in 1 .. 10
      /\ market \in Offered(search.read[p])
      /\ quote' = Quote(items, market, currency, search.read)
  BY DEF QuoteCard
<1>2. p \in Passing
  BY <1>1 DEF HitsSound, Done
<1>3. p \in Products /\ search.read[p] # None
  BY <1>2 DEF Passing, Candidates, Stocked
<1>4. market \in search.read[p].markets
  <2>1. search.read[p] \in Seeds
    BY <1>1, <1>3 DEF SearchFits, NoSearch
  <2>2. search.read[p].markets # {}
    BY <1>3, <2>1, ShoppingAssumption DEF Seeds, WellFormedProduct
  <2> QED BY <1>1, <2>2 DEF Offered
<1> HIDE DEF p
<1>5. Item(p, q) \in ItemSet /\ Item(p, q).product = p /\ Item(p, q).quantity = q
  BY <1>1, <1>3 DEF Item, ItemSet
<1>6. items \in Seq(ItemSet) /\ items # <<>> /\ Len(items) = 1 /\ items[1] = Item(p, q)
  BY <1>5
<1>7. currency \in Currencies
  BY Assumed
<1> HIDE DEF items
<1> QED BY <1>1, <1>3, <1>4, <1>5, <1>6, <1>7, BeginFits

\* What a form asks for.
LEMMA QuoteFormFits ==
  ASSUME NEW items \in Forms, NEW market, NEW currency \in Targets,
         QuoteForm(items, market, currency)
  PROVE  QuoteFits' /\ OfferedIsQuotable'
<1> DEFINE asked == Quote(items, market, currency, None)
<1>1. \/ items # <<>> /\ market \in FeeMarkets /\ quote' = asked
      \/ quote' = [asked EXCEPT !.pc = "refused"]
  BY DEF QuoteForm
<1>2. currency \in Currencies
  BY Assumed
<1>3. items \in Seq(ItemSet)
  <2>1. PICK n \in 0 .. MaxItems : items \in [1 .. n -> [product : Products, quantity : Quantities]]
    BY DEF Forms
  <2>2. [product : Products, quantity : Quantities] \subseteq ItemSet
    BY Assumed DEF ItemSet
  <2>3. n \in Nat
    BY <2>1, ShoppingAssumption
  <2>4. items \in [1 .. n -> ItemSet]
    BY <2>1, <2>2
  <2> QED BY <2>3, <2>4
<1>4. CASE items # <<>> /\ market \in FeeMarkets /\ quote' = asked
  BY <1>2, <1>3, <1>4, BeginFits
<1>5. CASE quote' = [asked EXCEPT !.pc = "refused"]
  <2>1. /\ quote'.pc = "refused" /\ quote'.from = None /\ quote'.currency = currency
        /\ QuoteShape'
    BY <1>5 DEF Quote, QuoteShape
  <2> QED BY <1>2, <2>1 DEF QuoteFits, OfferedIsQuotable
<1> QED BY <1>1, <1>4, <1>5

\* An amount in a currency of rate r is worth v, in thousandths of a minor unit of CNY, but
\* for its rounding.
Worth(r, amount, v) == 2 * (r * amount) <= 2 * v + r /\ 2 * v <= 2 * (r * amount) + r

\* Another line adds to both subtotals what its price is worth, but for the rounding of
\* each piece.
LEMMA LineAdds ==
  ASSUME NEW r \in Nat, NEW amount \in Nat, NEW inCny \in Nat, NEW pieces \in Nat,
         Within(r, amount, inCny, pieces * (r + 1000)),
         NEW unit \in Nat, NEW cny \in Nat, NEW v \in Nat, NEW q \in Nat,
         Worth(r, unit, v), Worth(1000, cny, v)
  PROVE  Within(r, amount + unit * q, inCny + cny * q, (pieces + q) * (r + 1000))
<1> DEFINE a == r * amount
           u == r * unit
           e == r + 1000
           x == pieces * e
           y == q * e
           s == q * u
           t == q * cny
<1>1. a \in Nat /\ u \in Nat /\ e \in Nat /\ x \in Nat /\ y \in Nat /\ s \in Nat /\ t \in Nat
  <2>1. a \in Nat /\ u \in Nat /\ e \in Nat
    OBVIOUS
  <2> HIDE DEF a, u, e
  <2> QED BY <2>1
<1>2. 2 * a - 2000 * inCny <= x /\ 2000 * inCny - 2 * a <= x
  BY DEF Within
<1>3. 2 * u - 2000 * cny <= e /\ 2000 * cny - 2 * u <= e
  <2> HIDE DEF a, x, y, s, t
  <2>1. u \in Nat
    BY <1>1
  <2> HIDE DEF u
  <2>2. 2 * u <= 2 * v + r /\ 2 * v <= 2 * u + r
    BY DEF u, Worth
  <2>3. 2000 * cny <= 2 * v + 1000 /\ 2 * v <= 2000 * cny + 1000
    BY DEF Worth
  <2> QED BY <2>1, <2>2, <2>3
<1>4. r * (amount + unit * q) = a + s
  <2>1. r * (amount + unit * q) = r * amount + r * (unit * q)
    OBVIOUS
  <2>2. r * (unit * q) = q * (r * unit)
    OBVIOUS
  <2> QED BY <2>1, <2>2
<1>5. (pieces + q) * (r + 1000) = x + y
  <2>1. (pieces + q) * e = pieces * e + q * e
    BY <1>1
  <2> QED BY <2>1
<1>6. cny * q = t
  OBVIOUS
<1>7. 2 * s - 2000 * t <= y /\ 2000 * t - 2 * s <= y
  <2> HIDE DEF u, e
  <2>1. q * (2 * u - 2000 * cny) <= q * e
    BY <1>1, <1>3, Scaled
  <2>2. q * (2000 * cny - 2 * u) <= q * e
    BY <1>1, <1>3, Scaled
  <2>3. /\ q * (2 * u - 2000 * cny) = 2 * (q * u) - 2000 * (q * cny)
        /\ q * (2000 * cny - 2 * u) = 2000 * (q * cny) - 2 * (q * u)
    BY <1>1
  <2> QED BY <2>1, <2>2, <2>3
<1> HIDE DEF a, u, e, x, y, s, t
<1>8. /\ 2 * (a + s) - 2000 * (inCny + t) <= x + y
      /\ 2000 * (inCny + t) - 2 * (a + s) <= x + y
  BY <1>1, <1>2, <1>7
<1> QED BY <1>4, <1>5, <1>6, <1>8 DEF Within

\* What holds while the lines of a quote are read.
LEMMA ReadingLines ==
  ASSUME QuoteFits, quote.pc = "items"
  PROVE  /\ QuoteShape /\ quote.currency \in Currencies /\ quote.market \in FeeMarkets
         /\ LinesFit /\ SumsFit /\ (quote.from # None => CardFits)
<1>1. quote # NoQuote
  BY DEF NoQuote
<1> QED BY <1>1 DEF QuoteFits

\* A quote that is refused keeps what it was made of.
LEMMA RefusedFits ==
  ASSUME QuoteFits, quote.pc = "items", quote' = Refused, quote.from # None => quote.from # table
  PROVE  QuoteFits' /\ OfferedIsQuotable'
<1>1. QuoteShape /\ quote.currency \in Currencies
  BY ReadingLines
<1>2. /\ quote'.pc = "refused" /\ quote'.from = quote.from /\ quote'.seen = table
      /\ quote'.currency = quote.currency /\ QuoteShape'
  BY <1>1 DEF Refused, QuoteShape
<1> QED BY <1>1, <1>2 DEF QuoteFits, OfferedIsQuotable

\* The next line of a quote, or its refusal.
LEMMA QuoteItemFits ==
  ASSUME QuoteFits, \A p \in Products : table[p] \in Seeds, QuoteItem
  PROVE  QuoteFits' /\ OfferedIsQuotable'
<1> DEFINE n == Len(quote.lines)
           item == quote.items[n + 1]
           product == table[item.product]
           q == item.quantity
           r == RateToCny[quote.currency]
<1>1. quote.pc = "items" /\ n < Len(quote.items)
  BY DEF QuoteItem
<1>2. /\ QuoteShape /\ quote.currency \in Currencies /\ quote.market \in FeeMarkets
      /\ LinesFit /\ SumsFit /\ (quote.from # None => CardFits)
  BY <1>1, ReadingLines
<1>3. n \in Nat /\ n + 1 \in DOMAIN quote.items /\ item \in ItemSet
  BY <1>1, <1>2 DEF LinesFit
<1>4. item.product \in Products /\ product \in Seeds
  BY <1>3 DEF ItemSet
<1>5. CASE ~Orderable(item)
  <2>1. quote' = Refused
    BY <1>5 DEF QuoteItem
  <2>2. ASSUME quote.from # None PROVE quote.from # table
    <3>1. CardFits /\ n + 1 = 1
      BY <1>1, <1>2, <1>3, <2>2 DEF CardFits, LinesFit
    <3>2. /\ item.quantity \in 1 .. 10
          /\ quote.from[item.product] # None
          /\ quote.market \in quote.from[item.product].markets
      BY <3>1 DEF CardFits
    <3> QED BY <1>5, <3>2 DEF Orderable
  <2> QED BY <1>1, <2>1, <2>2, RefusedFits
<1>6. CASE Orderable(item)
  <2>1. q \in 1 .. 10 /\ product # None
    BY <1>6 DEF Orderable
  <2>2. WellFormedProduct(product)
    BY <1>4, <2>1, Assumed
  <2>3. PICK unit \in Convert(product.price, product.currency, quote.currency),
             cny \in Convert(product.price, product.currency, "CNY") :
          quote' = [quote EXCEPT
            !.lines = Append(@, [product |-> item.product, quantity |-> item.quantity,
                                 unit |-> unit, read |-> product]),
            !.pieces = @ + item.quantity,
            !.subtotal = @ + unit * item.quantity,
            !.inCny = @ + cny * item.quantity]
    BY <1>6 DEF QuoteItem
  <2> DEFINE line == [product |-> item.product, quantity |-> item.quantity,
                      unit |-> unit, read |-> product]
             v == product.price * RateToCny[product.currency]
  <2>4. /\ product.price \in Nat /\ product.currency \in Currencies
        /\ "CNY" \in Currencies /\ RateToCny["CNY"] = 1000
    BY <2>2, RatesAre DEF WellFormedProduct
  <2>5. /\ unit \in Nat /\ cny \in Nat
        /\ Worth(r, unit, v) /\ Worth(1000, cny, v)
    <3> DEFINE price == product.price
               from == product.currency
               to == quote.currency
    <3>1. price \in Nat /\ from \in Currencies /\ to \in Currencies
      BY <1>2, <2>4
    <3>2. unit \in Convert(price, from, to) /\ cny \in Convert(price, from, "CNY")
      BY <2>3
    <3> HIDE DEF price, from, to
    <3>3. unit \in Nat /\ Worth(RateToCny[to], unit, price * RateToCny[from])
      BY <3>1, <3>2, ConvertBounds DEF Worth
    <3>4. cny \in Nat /\ Worth(RateToCny["CNY"], cny, price * RateToCny[from])
      <4>1. "CNY" \in Currencies
        BY RatesAre
      <4> QED BY <3>1, <3>2, <4>1, ConvertBounds DEF Worth
    <3>5. RateToCny["CNY"] = 1000
      BY <2>4
    <3> QED BY <3>3, <3>4, <3>5 DEF price, from, to
  <2>6. /\ quote'.pc = "items" /\ quote'.items = quote.items /\ quote'.market = quote.market
        /\ quote'.currency = quote.currency /\ quote'.from = quote.from
        /\ quote'.lines = Append(quote.lines, line)
        /\ quote'.pieces = quote.pieces + q
        /\ quote'.subtotal = quote.subtotal + unit * q
        /\ quote'.inCny = quote.inCny + cny * q
        /\ QuoteShape'
    BY <1>1, <1>2, <2>3 DEF QuoteShape
  <2>7. line \in LineSet
    BY <1>4, <2>1, <2>5 DEF LineSet
  <2>8. /\ line.quantity = q /\ line.unit = unit /\ line.read = product
    OBVIOUS
  <2>9. /\ quote.items \in Seq(ItemSet) /\ quote.items # <<>> /\ quote.lines \in Seq(LineSet)
        /\ Len(quote.items) \in Nat
    BY <1>2 DEF LinesFit
  <2> HIDE DEF line
  <2>10. /\ quote'.lines \in Seq(LineSet) /\ Len(quote'.lines) = n + 1
         /\ quote'.lines[n + 1] = line
         /\ \A l \in 1 .. n : quote'.lines[l] = quote.lines[l]
         /\ DOMAIN quote'.lines = 1 .. n + 1
    BY <2>6, <2>7, <2>9
  <2>11. LinesFit'
    <3>1. ASSUME NEW l \in DOMAIN quote'.lines
          PROVE  /\ quote'.lines[l].quantity = quote.items[l].quantity
                 /\ quote'.lines[l].read # None
                 /\ quote'.lines[l].unit \in Convert(quote'.lines[l].read.price,
                                                     quote'.lines[l].read.currency,
                                                     quote.currency)
      <4>1. CASE l = n + 1
        BY <2>1, <2>3, <2>8, <2>10, <4>1
      <4>2. CASE l # n + 1
        <5>1. l \in 1 .. n /\ l \in DOMAIN quote.lines
          BY <1>3, <2>9, <2>10, <4>2
        <5> QED BY <1>2, <2>10, <5>1 DEF LinesFit
      <4> QED BY <4>1, <4>2
    <3>2. n + 1 <= Len(quote.items)
      BY <1>1, <1>3, <2>9
    <3> QED BY <2>6, <2>9, <2>10, <3>1, <3>2 DEF LinesFit
  <2>12. SumsFit'
    <3>1. /\ quote.pieces \in Nat /\ quote.subtotal \in Nat /\ quote.inCny \in Nat
          /\ quote.pieces >= n
          /\ quote.lines = <<>> => quote.pieces = 0 /\ quote.subtotal = 0 /\ quote.inCny = 0
          /\ Within(r, quote.subtotal, quote.inCny, quote.pieces * (r + 1000))
      BY <1>2 DEF SumsFit
    <3>2. unit * q \in Nat /\ cny * q \in Nat /\ q \in Nat /\ q >= 1
      <4>1. unit \in Nat /\ cny \in Nat /\ q \in 1 .. 10
        BY <2>1, <2>5
      <4> HIDE DEF q
      <4>2. q \in Nat /\ q >= 1
        BY <4>1
      <4> QED BY <4>1, <4>2
    <3>3. Within(r, quote'.subtotal, quote'.inCny, quote'.pieces * (r + 1000))
      <4>1. r \in Nat /\ v \in Nat
        BY <1>2, <2>4, RateType
      <4> DEFINE a == quote.subtotal
                 b == quote.inCny
                 c == quote.pieces
      <4>2. /\ a \in Nat /\ b \in Nat /\ c \in Nat /\ q \in Nat
            /\ Within(r, a, b, c * (r + 1000))
        BY <3>1, <3>2
      <4> HIDE DEF a, b, c, r, v, q
      <4>3. Within(r, a + unit * q, b + cny * q, (c + q) * (r + 1000))
        BY <2>5, <4>1, <4>2, LineAdds, SMTT(30)
      <4> QED BY <2>6, <4>3 DEF a, b, c
    <3>4. n + 1 = 1 => /\ quote'.pieces = quote'.lines[1].quantity
                       /\ quote'.subtotal = quote'.lines[1].unit * quote'.lines[1].quantity
      <4> SUFFICES ASSUME n + 1 = 1
                   PROVE  /\ quote'.pieces = quote'.lines[1].quantity
                          /\ quote'.subtotal = quote'.lines[1].unit * quote'.lines[1].quantity
        OBVIOUS
      <4>1. quote.lines = <<>>
        BY <1>3, <2>9
      <4>2. quote'.lines[1] = line
        BY <2>10
      <4> HIDE DEF q
      <4> QED BY <2>6, <2>8, <3>1, <3>2, <4>1, <4>2
    <3>5. quote'.lines # <<>>
      BY <1>3, <2>10
    <3>6. /\ quote'.pieces \in Nat /\ quote'.subtotal \in Nat /\ quote'.inCny \in Nat
          /\ quote'.pieces >= n + 1
      <4> DEFINE x == unit * q
                 y == cny * q
      <4>1. /\ quote'.pieces = quote.pieces + q
            /\ quote'.subtotal = quote.subtotal + x /\ quote'.inCny = quote.inCny + y
        BY <2>6
      <4>2. x \in Nat /\ y \in Nat /\ q \in Nat /\ q >= 1
        BY <3>2
      <4>3. /\ quote.pieces \in Nat /\ quote.subtotal \in Nat /\ quote.inCny \in Nat
            /\ quote.pieces >= n /\ n \in Nat
        BY <1>3, <3>1
      <4> HIDE DEF q, n, x, y
      <4> QED BY <4>1, <4>2, <4>3
    <3>7. quote'.currency = quote.currency
      BY <2>6
    <3> HIDE DEF n
    <3> QED BY <2>10, <3>3, <3>4, <3>5, <3>6, <3>7 DEF SumsFit, Within, r
  <2>13. quote.from # None => CardFits'
    BY <1>2, <2>6 DEF CardFits
  <2> QED BY <1>2, <2>6, <2>11, <2>12, <2>13 DEF QuoteFits, OfferedIsQuotable
<1> QED BY <1>5, <1>6

\* The fees of a quote whose lines are all read, or its refusal.
LEMMA QuoteFeesFits ==
  ASSUME QuoteFits, QuoteFees
  PROVE  QuoteFits' /\ OfferedIsQuotable'
<1>1. quote.pc = "items" /\ Len(quote.lines) = Len(quote.items)
  BY DEF QuoteFees
<1>2. /\ QuoteShape /\ quote.currency \in Currencies /\ quote.market \in FeeMarkets
      /\ LinesFit /\ SumsFit /\ (quote.from # None => CardFits)
  BY <1>1, ReadingLines
<1>3. CASE ~TotalAllowed /\ quote' = Refused
  <2>1. ASSUME quote.from # None PROVE FALSE
    <3>1. /\ Len(quote.lines) = 1 /\ quote.items[1].quantity \in 1 .. 10
          /\ quote.lines[1].quantity = quote.items[1].quantity
      BY <1>1, <1>2, <2>1 DEF CardFits, LinesFit
    <3>2. quote.pieces = quote.lines[1].quantity
      BY <1>2, <3>1 DEF SumsFit
    <3> QED BY <1>3, <3>1, <3>2 DEF TotalAllowed
  <2> QED BY <1>1, <1>3, <2>1, RefusedFits
<1>4. CASE TotalAllowed /\ \E fees \in FeeQuotes(quote.subtotal, quote.pieces, quote.market,
                                                 quote.currency) :
             quote' = [quote EXCEPT !.pc = "accepted", !.fees = fees]
  <2>1. PICK fees \in FeeQuotes(quote.subtotal, quote.pieces, quote.market, quote.currency) :
          quote' = [quote EXCEPT !.pc = "accepted", !.fees = fees]
    BY <1>4
  <2>2. /\ quote'.pc = "accepted" /\ quote'.fees = fees /\ quote'.items = quote.items
        /\ quote'.market = quote.market /\ quote'.currency = quote.currency
        /\ quote'.lines = quote.lines /\ quote'.pieces = quote.pieces
        /\ quote'.subtotal = quote.subtotal /\ quote'.inCny = quote.inCny
        /\ QuoteShape'
    BY <1>2, <2>1 DEF QuoteShape
  <2>3. quote.lines # <<>> /\ quote.pieces <= 10
    BY <1>1, <1>2, <1>4 DEF LinesFit, TotalAllowed
  <2>4. LinesFit' /\ SumsFit'
    BY <1>2, <2>2 DEF LinesFit, SumsFit, Within
  <2> QED BY <1>2, <2>1, <2>2, <2>3, <2>4 DEF QuoteFits, OfferedIsQuotable
<1> QED BY <1>3, <1>4 DEF QuoteFees

\* The other steps of a quote.
LEMMA OtherQuoteFits ==
  ASSUME QuoteFits, OfferedIsQuotable, UNCHANGED quote \/ quote' = NoQuote
  PROVE  QuoteFits' /\ OfferedIsQuotable'
<1>1. CASE UNCHANGED quote
  <2>1. quote' = quote
    BY <1>1
  <2>2. /\ QuoteShape' <=> QuoteShape
        /\ LinesFit' <=> LinesFit
        /\ SumsFit' <=> SumsFit
        /\ CardFits' <=> CardFits
    BY <2>1 DEF QuoteShape, LinesFit, SumsFit, CardFits, Within
  <2> QED BY <2>1, <2>2 DEF QuoteFits, OfferedIsQuotable
<1>2. CASE quote' = NoQuote
  BY <1>2 DEF NoQuote, QuoteFits, OfferedIsQuotable
<1> QED BY <1>1, <1>2

\* What the invariant says of a quote that is accepted.
LEMMA AcceptedIsFair ==
  ASSUME QuoteFits
  PROVE  QuoteIsFair
<1> SUFFICES ASSUME quote.pc = "accepted" PROVE QuoteIsFair
  BY DEF QuoteIsFair
<1> DEFINE fees == quote.fees
           pieces == quote.pieces
           market == quote.market
           currency == quote.currency
<1>1. /\ currency \in Currencies /\ market \in FeeMarkets /\ LinesFit /\ SumsFit
      /\ quote.lines # <<>> /\ pieces <= 10
      /\ fees \in FeeQuotes(quote.subtotal, pieces, market, currency)
  <2>1. quote # NoQuote
    BY DEF NoQuote
  <2> QED BY <2>1 DEF QuoteFits
<1>2. /\ pieces \in Nat /\ quote.subtotal \in Nat /\ quote.inCny \in Nat
      /\ pieces >= Len(quote.lines)
      /\ Within(RateToCny[currency], quote.subtotal, quote.inCny,
                pieces * (RateToCny[currency] + 1000))
  BY <1>1 DEF SumsFit
<1>3. quote.lines \in Seq(LineSet) /\ Len(quote.lines) \in Nat /\ Len(quote.lines) >= 1
  BY <1>1 DEF LinesFit
<1>4. pieces \in 1 .. 10
  <2> HIDE DEF pieces
  <2> QED BY <1>1, <1>2, <1>3
<1>5. ASSUME NEW c \in Convert(Total(fees), currency, "CNY"), NEW other \in InCny
      PROVE  Difference(c, Total(other)) <= Tolerance
  <2> DEFINE subtotal == quote.subtotal
             inCny == quote.inCny
  <2>1. other \in FeeQuotes(inCny, pieces, market, "CNY")
    BY DEF InCny
  <2>2. /\ subtotal \in Nat /\ inCny \in Nat
        /\ Within(RateToCny[currency], subtotal, inCny, pieces * (RateToCny[currency] + 1000))
        /\ fees \in FeeQuotes(subtotal, pieces, market, currency)
    BY <1>1, <1>2
  <2>3. Tolerance = ((pieces + 3) * RateToCny[currency]) \div 1000 + pieces + 4
    BY DEF Tolerance
  <2> HIDE DEF subtotal, inCny, fees, pieces, market, currency
  <2>4. Difference(c, Total(other)) <=
          ((pieces + 3) * RateToCny[currency]) \div 1000 + pieces + 4
    BY <1>1, <1>2, <1>5, <2>1, <2>2, TotalsTolerated
  <2> QED BY <2>3, <2>4
<1>6. fees.subtotal = quote.subtotal /\ fees.shipping \in Shipping(market, pieces, currency)
  <2> HIDE DEF fees, pieces, market, currency
  <2> QED BY <1>1, <1>2, FeesAre
<1>7. ASSUME NEW l \in DOMAIN quote.lines,
             NEW more \in FeeQuotes(fees.subtotal + quote.lines[l].unit, pieces + 1, market,
                                    currency)
      PROVE  Total(more) >= Total(fees)
  <2> DEFINE unit == quote.lines[l].unit
             subtotal == quote.subtotal
  <2>1. unit \in Nat
    <3>1. quote.lines[l] \in LineSet
      BY <1>3
    <3> QED BY <3>1 DEF LineSet
  <2>2. more \in FeeQuotes(subtotal + unit, pieces + 1, market, currency)
    BY <1>6, <1>7
  <2>3. subtotal \in Nat /\ fees \in FeeQuotes(subtotal, pieces, market, currency)
    BY <1>1, <1>2
  <2> HIDE DEF unit, subtotal, fees, pieces, market, currency
  <2> QED BY <1>1, <1>2, <2>1, <2>2, <2>3, NeverCheaper
<1>8. ASSUME pieces = 1, market \in TariffMarkets
      PROVE  LET item == quote.lines[1].read IN
             \E card \in Landed(item.price, item.currency, item.category, market, currency) :
               card.freight = fees.shipping /\ card.subtotal = fees.subtotal
  <2> DEFINE line == quote.lines[1]
             item == line.read
  <2>1. Len(quote.lines) = 1
    <3> DEFINE n == Len(quote.lines)
    <3>1. n \in Nat /\ n >= 1 /\ pieces >= n /\ pieces = 1
      BY <1>2, <1>3, <1>8
    <3> HIDE DEF n, pieces
    <3>2. n = 1
      BY <3>1
    <3> QED BY <3>2 DEF n
  <2>2. 1 \in DOMAIN quote.lines /\ line \in LineSet
    BY <1>3, <2>1
  <2>3. /\ item # None /\ line.unit \in Convert(item.price, item.currency, currency)
    BY <1>1, <2>2 DEF LinesFit
  <2>4. item \in Seeds /\ line.unit \in Nat /\ line.quantity \in Nat
    BY <2>2 DEF LineSet
  <2>5. WellFormedProduct(item)
    BY <2>3, <2>4, Assumed
  <2>6. fees.subtotal = line.unit
    <3>1. line.quantity = 1 /\ quote.subtotal = line.unit * line.quantity
      BY <1>1, <1>8, <2>1 DEF SumsFit
    <3> HIDE DEF line
    <3> QED BY <1>6, <2>4, <3>1
  <2>7. /\ item.price \in Nat /\ item.currency \in Currencies
        /\ item.category \in {"digital", "other"}
    BY <2>5 DEF WellFormedProduct
  <2>8. market \in FeeMarkets \cap TariffMarkets
    BY <1>1, <1>8
  <2>9. fees.shipping \in Shipping(market, 1, currency)
    BY <1>6, <1>8
  <2>10. fees.subtotal \in Convert(item.price, item.currency, currency)
    BY <2>3, <2>6
  <2> HIDE DEF item, fees, pieces, market, currency
  <2>11. \E card \in Landed(item.price, item.currency, item.category, market, currency) :
           card.freight = fees.shipping /\ card.subtotal = fees.subtotal
    BY <1>1, <2>7, <2>8, <2>9, <2>10, CardShowsFreight
  <2> QED BY <2>11 DEF item
<1> QED BY <1>4, <1>5, <1>7, <1>8 DEF QuoteIsFair

-----------------------------------------------------------------------------
(* The invariant holds, and what follows.                                  *)

\* Starts add and replace products of the seeds.
LEMMA StartupFits ==
  ASSUME \A p \in Products : table[p] \in Seeds, index \subseteq Products, Startup
  PROVE  /\ \A p \in Products : table'[p] \in Seeds
         /\ index' \subseteq Products
         /\ search' = search /\ quote' = quote
<1>1. CASE BootstrapIndex
  BY <1>1 DEF BootstrapIndex, Upserted, Stocked
<1>2. ASSUME NEW r \in Releases, Resync(r)
      PROVE  /\ \A p \in Products : table'[p] \in Seeds
             /\ index' = index /\ search' = search /\ quote' = quote
  BY <1>2 DEF Resync, Seeds
<1> QED BY <1>1, <1>2 DEF Startup

\* It holds before anything was asked.
LEMMA InitialInvariant == Init => ShoppingInvariant
<1> SUFFICES ASSUME Init PROVE ShoppingInvariant
  OBVIOUS
<1>1. \A p \in Products : table[p] \in Seeds
  BY DEF Init, Seeds
<1>2. index \subseteq Products
  BY DEF Init, Stocked
<1>3. search = NoSearch /\ quote = NoQuote
  BY DEF Init
<1>4. SearchFits /\ HitsSound
  BY <1>3 DEF SearchFits, HitsSound, Done, NoSearch
<1>5. QuoteFits /\ OfferedIsQuotable
  BY <1>3 DEF QuoteFits, OfferedIsQuotable, NoQuote
<1> QED BY <1>1, <1>2, <1>4, <1>5 DEF ShoppingInvariant

\* Every step keeps it.
LEMMA NextInvariant == ShoppingInvariant /\ [Next]_vars => ShoppingInvariant'
<1> SUFFICES ASSUME ShoppingInvariant, [Next]_vars PROVE ShoppingInvariant'
  OBVIOUS
<1>1. /\ \A p \in Products : table[p] \in Seeds
      /\ index \subseteq Products
      /\ SearchFits /\ HitsSound /\ QuoteFits /\ OfferedIsQuotable
  BY DEF ShoppingInvariant
<1> DEFINE Kept == (\A p \in Products : table'[p] \in Seeds) /\ index' \subseteq Products
           Sought == SearchFits' /\ HitsSound'
           Quoted == QuoteFits' /\ OfferedIsQuotable'
<1>2. UNCHANGED <<table, index>> => Kept
  BY <1>1
<1>3. UNCHANGED search => Sought
  BY <1>1, OtherSearchFits
<1>4. UNCHANGED quote => Quoted
  BY <1>1, OtherQuoteFits
<1>5. quote' = NoQuote => Quoted
  BY <1>1, OtherQuoteFits
<1>6. search' = NoSearch => Sought
  BY <1>1, OtherSearchFits
<1>7. (\E spec \in Specs, keyword \in [Products -> Scores] : Ask(spec, keyword)) => Sought
  BY <1>1, OtherSearchFits
<1>8. RecallFails => Sought
  BY <1>1, OtherSearchFits
<1>9. IndexAnswers => Sought
  <2> SUFFICES ASSUME IndexAnswers PROVE Sought
    OBVIOUS
  <2>1. SearchFits' /\ search'.pc # "done"
    BY <1>1, IndexAnswersFits
  <2> QED BY <2>1 DEF HitsSound, Done
<1>10. Resolve => Sought
  <2> SUFFICES ASSUME Resolve PROVE Sought
    OBVIOUS
  <2>1. SearchFits' /\ search'.pc # "done"
    BY <1>1, ResolveFits
  <2> QED BY <2>1 DEF HitsSound, Done
<1>11. Rerank => Sought
  BY <1>1, RerankSound
<1>12. RerankFails => Sought
  BY <1>1, RerankFailsSound
<1>13. KeywordRecall => Sought
  BY <1>1, KeywordRecallSound
<1>14. \A i \in Products, q \in Quantities, market \in FeeMarkets, currency \in Targets :
         QuoteCard(i, q, market, currency) => Quoted
  BY <1>1, QuoteCardFits
<1>15. \A items \in Forms, currency \in Targets, market \in FeeMarkets \union TariffMarkets :
         QuoteForm(items, market, currency) => Quoted
  BY <1>1, QuoteFormFits
<1>16. QuoteItem => Quoted
  BY <1>1, QuoteItemFits
<1>17. QuoteFees => Quoted
  BY <1>1, QuoteFeesFits
<1>18. Startup => Kept /\ UNCHANGED <<search, quote>>
  BY <1>1, StartupFits
<1> HIDE DEF Kept, Sought, Quoted
<1>19. Kept /\ Sought /\ Quoted
  <2>1. CASE Startup
    BY <1>3, <1>4, <1>18, <2>1
  <2>2. CASE \E spec \in Specs, keyword \in [Products -> Scores] : Ask(spec, keyword)
    <3>1. UNCHANGED <<table, index, quote>>
      BY <2>2 DEF Ask
    <3> QED BY <1>2, <1>4, <1>7, <2>2, <3>1
  <2>3. CASE IndexAnswers
    <3>1. UNCHANGED <<table, index, quote>>
      BY <2>3 DEF IndexAnswers
    <3> QED BY <1>2, <1>4, <1>9, <2>3, <3>1
  <2>4. CASE RecallFails
    <3>1. UNCHANGED <<table, index, quote>>
      BY <2>4 DEF RecallFails
    <3> QED BY <1>2, <1>4, <1>8, <2>4, <3>1
  <2>5. CASE Resolve
    <3>1. UNCHANGED <<table, index, quote>>
      BY <2>5 DEF Resolve
    <3> QED BY <1>2, <1>4, <1>10, <2>5, <3>1
  <2>6. CASE Rerank
    <3>1. UNCHANGED <<table, index, quote>>
      BY <2>6 DEF Rerank
    <3> QED BY <1>2, <1>4, <1>11, <2>6, <3>1
  <2>7. CASE RerankFails
    <3>1. UNCHANGED <<table, index, quote>>
      BY <2>7 DEF RerankFails
    <3> QED BY <1>2, <1>4, <1>12, <2>7, <3>1
  <2>8. CASE KeywordRecall
    <3>1. UNCHANGED <<table, index, quote>>
      BY <2>8 DEF KeywordRecall
    <3> QED BY <1>2, <1>4, <1>13, <2>8, <3>1
  <2>9. CASE SearchFails
    <3>1. UNCHANGED <<table, index, quote>> /\ search' = NoSearch
      BY <2>9 DEF SearchFails
    <3> QED BY <1>2, <1>4, <1>6, <3>1
  <2>10. CASE Leave
    <3>1. UNCHANGED <<table, index>> /\ search' = NoSearch /\ quote' = NoQuote
      BY <2>10 DEF Leave
    <3> QED BY <1>2, <1>5, <1>6, <3>1
  <2>11. ASSUME NEW i \in Products, NEW q \in Quantities, NEW market \in FeeMarkets,
                NEW currency \in Targets, QuoteCard(i, q, market, currency)
         PROVE  Kept /\ Sought /\ Quoted
    <3>1. UNCHANGED <<table, index>> /\ search' = NoSearch
      BY <2>11 DEF QuoteCard
    <3> QED BY <1>2, <1>6, <1>14, <2>11, <3>1
  <2>12. ASSUME NEW items \in Forms, NEW currency \in Targets,
                NEW market \in FeeMarkets \union TariffMarkets,
                QuoteForm(items, market, currency)
         PROVE  Kept /\ Sought /\ Quoted
    <3>1. UNCHANGED <<table, index, search>>
      BY <2>12 DEF QuoteForm
    <3> QED BY <1>2, <1>3, <1>15, <2>12, <3>1
  <2>13. CASE QuoteItem
    <3>1. UNCHANGED <<table, index, search>>
      BY <2>13 DEF QuoteItem
    <3> QED BY <1>2, <1>3, <1>16, <2>13, <3>1
  <2>14. CASE QuoteFees
    <3>1. UNCHANGED <<table, index, search>>
      BY <2>14 DEF QuoteFees
    <3> QED BY <1>2, <1>3, <1>17, <2>14, <3>1
  <2>15. CASE UNCHANGED vars
    <3>1. UNCHANGED <<table, index, search, quote>>
      BY <2>15 DEF vars
    <3> QED BY <1>2, <1>3, <1>4, <3>1
  <2> QED BY <2>1, <2>2, <2>3, <2>4, <2>5, <2>6, <2>7, <2>8, <2>9, <2>10, <2>11, <2>12, <2>13,
             <2>14, <2>15 DEF Next
<1> QED BY <1>19 DEF ShoppingInvariant, Kept, Sought, Quoted

\* Whatever the seeds, the searches and the scores: the invariant of a search and a quote.
THEOREM ShoppingIsInvariant == Spec => []ShoppingInvariant
<1>1. Init => ShoppingInvariant
  BY InitialInvariant
<1>2. ShoppingInvariant /\ [Next]_vars => ShoppingInvariant'
  BY NextInvariant
<1> QED BY <1>1, <1>2, PTL DEF Spec

\* An answer lists the best of what was recalled and fits, in an order that depends on
\* nothing but the scores and the ids (catalog_search.py: sorts, constraints, top_k).
THEOREM AnswersAreSound == Spec => []HitsSound
<1>1. ShoppingInvariant => HitsSound
  BY DEF ShoppingInvariant
<1> QED BY <1>1, ShoppingIsInvariant, PTL

\* What a card offers can be ordered, unless the table changed in between.
THEOREM OffersAreQuotable == Spec => []OfferedIsQuotable
<1>1. ShoppingInvariant => OfferedIsQuotable
  BY DEF ShoppingInvariant
<1> QED BY <1>1, ShoppingIsInvariant, PTL

\* A quote costs the same in every currency but for rounding, no piece makes it cheaper,
\* and its freight is the one the card showed.
THEOREM QuotesAreFair == Spec => []QuoteIsFair
<1>1. ShoppingInvariant => QuoteIsFair
  BY AcceptedIsFair DEF ShoppingInvariant
<1> QED BY <1>1, ShoppingIsInvariant, PTL

=============================================================================
