----------------------------- MODULE MCShopping -----------------------------
(* A small instance of Shopping for TLC: three products, one of them new in  *)
(* the second release, which also changes a price and a market.              *)
EXTENDS Shopping

CONSTANTS v1, v2

Product(price, currency, category, markets) ==
  [price |-> price, currency |-> currency, category |-> category, markets |-> markets]

MCCatalogue ==
  [r \in {v1, v2} |->
     IF r = v1
     THEN <<Product(13950, "CNY", "other", {"CN", "US", "SG"}),
            Product(19900, "USD", "digital", {"US", "EU", "GB", "JP"}),
            None>>
     ELSE <<Product(14900, "CNY", "other", {"CN", "US"}),
            Product(19900, "USD", "digital", {"US", "EU", "JP"}),
            Product(499, "EUR", "other", {"EU", "GB", "CN"})>>]

Search(market, cap, top, currency) ==
  [market |-> market, cap |-> cap, top |-> top, currency |-> currency]

MCSpecs == {Search(None, None, 2, "CNY"), Search("US", 15000, 1, "CNY"),
            Search("GB", 2200, 2, "USD"), Search("SG", None, 1, "JPY")}
=============================================================================
