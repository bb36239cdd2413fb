------------------------------ MODULE Shopping ------------------------------
(***************************************************************************)
(* From a question to a price: CatalogSearchUseCase (recall by vectors,    *)
(* reranking, keyword fallback, hard constraints, cards), the vector index *)
(* behind it (qdrant_product_index.py, index_bootstrap.py) and             *)
(* QuoteSimulatedOrderUseCase, which prices what a card offers or what the *)
(* form of the order centre says.                                          *)
(*                                                                         *)
(* A process that starts may bring another release of the seeds into the   *)
(* products table at any time (seed_if_empty) and rebuild the index, or    *)
(* fail to; no start takes a product away.                                 *)
(*                                                                         *)
(* Abstractions.  A product has one SKU, the primary one that a search     *)
(* prices; what the form orders of another SKU is to a quote like another  *)
(* product.  A product is read in one step.  Texts, embeddings and the     *)
(* reranker are external: similarity, keyword overlap (with the weight of  *)
(* the category) and relevance are freely chosen.                          *)
(***************************************************************************)
EXTENDS Pricing, FiniteSets, Sequences

CONSTANTS
  NProducts,     \* products are 1 .. NProducts, in the order of their ids
  Releases,
  Catalogue,     \* the seeds: Catalogue[release][product], or None
  Specs,         \* searches: market or None, price cap or None, top_k, currency
  RecallLimit,   \* _RECALL_TOP_N
  RejectLimit,   \* _FILTERED_OUT_LIMIT
  Scores,        \* scores of the external services
  Quantities,    \* quantities a request may carry
  Targets,       \* currencies a quote may ask for
  MaxItems       \* bound: items of a form

Products == 1 .. NProducts

\* What a product needs to be built: here also a price and a market, which
\* every product of the seeds has.
WellFormedProduct(product) ==
  /\ product.price \in Nat /\ product.currency \in Currencies
  /\ product.category \in {"digital", "other"}
  /\ product.markets # {}

\* What a search needs to be built: it asks for at least one product.
WellFormedSpec(spec) ==
  /\ spec.top \in Nat \ {0}
  /\ spec.currency \in Currencies
  /\ spec.cap = None \/ spec.cap \in Nat

ASSUME ShoppingAssumption ==
  /\ NProducts \in Nat /\ RecallLimit \in Nat \ {0} /\ RejectLimit \in Nat \ {0}
  /\ Scores \subseteq Int /\ Quantities \subseteq Int
  /\ Targets \subseteq Currencies
  /\ MaxItems \in Nat
  /\ \A r \in Releases : \A p \in Products :
       Catalogue[r][p] # None => WellFormedProduct(Catalogue[r][p])
  /\ None \notin {"ship_to_unavailable", "over_price_cap"}
  /\ \A spec \in Specs : WellFormedSpec(spec)

VARIABLES
  table,     \* the products table, with prices and markets
  index,     \* products with a point in the vector index
  search,    \* the search under way, or answered
  quote      \* the quote under way, or answered

vars == <<table, index, search, quote>>

Stocked(products) == {p \in Products : products[p] # None}

NoSearch == [pc |-> "idle"]
NoQuote  == [pc |-> "idle"]

\* The index may be missing, if the embedding service failed at startup, or know
\* products of another release, if it outlived the database.
Init ==
  /\ \E r \in Releases : table = Catalogue[r]
  /\ index \in {{}} \union {Stocked(Catalogue[r]) : r \in Releases}
  /\ search = NoSearch
  /\ quote = NoQuote

-----------------------------------------------------------------------------
(* Startup of a process, while others serve.                               *)

\* seed_if_empty: products of the release are added or overwritten, others stay.
Resync(r) ==
  /\ table' = [p \in Products |-> IF Catalogue[r][p] = None THEN table[p] ELSE Catalogue[r][p]]
  /\ table' # table
  /\ UNCHANGED <<index, search, quote>>

\* Points are added and replaced, never taken away.
Upserted(products) == index \union products

BootstrapIndex ==
  /\ index' = Upserted(Stocked(table))
  /\ UNCHANGED <<table, search, quote>>

\* Container.startup: catalogue, then index; either may fail by itself, and two
\* processes may start at a time.
Startup == BootstrapIndex \/ \E r \in Releases : Resync(r)

-----------------------------------------------------------------------------
(* CatalogSearchUseCase.execute                                            *)

Ask(spec, keyword) ==
  /\ search.pc = "idle" /\ quote.pc = "idle"
  /\ search' = [pc |-> "recall", spec |-> spec, keyword |-> keyword]
  /\ UNCHANGED <<table, index, quote>>

Capped(n, m) == IF n < m THEN n ELSE m

\* The index answers with its nearest points, best first, ties in any order.
IndexAnswers ==
  /\ search.pc = "recall"
  /\ \E near \in [1 .. Capped(RecallLimit, Cardinality(index)) ->
                    [id : index, sim : Scores]] :
       /\ \A i, j \in DOMAIN near : i < j =>
            near[i].id # near[j].id /\ near[i].sim >= near[j].sim
       /\ search' = [pc |-> "resolve", spec |-> search.spec,
                     keyword |-> search.keyword, near |-> near]
  /\ UNCHANGED <<table, index, quote>>

\* Embedding, index or database fail: the search goes on with keywords.
RecallFails ==
  /\ search.pc \in {"recall", "resolve"}
  /\ search' = [pc |-> "keyword", spec |-> search.spec, keyword |-> search.keyword]
  /\ UNCHANGED <<table, index, quote>>

\* Tuples in the order of Python, the larger one first.
Exceeds(k, l) ==
  \E n \in DOMAIN k : k[n] > l[n] /\ \A m \in 1 .. n - 1 : k[m] = l[m]

\* The sort is stable: of two equal keys the earlier one stays in front.
Before(keys, i, j) == Exceeds(keys[i], keys[j]) \/ (~Exceeds(keys[j], keys[i]) /\ i < j)

\* list.sort(key = ...) of the elements of s at some indices, by descending key.
Sorted(s, indices, keys) ==
  [n \in 1 .. Cardinality(indices) |->
     s[CHOOSE i \in indices : Cardinality({j \in indices : Before(keys, j, i)}) = n - 1]]

\* [x for x in s if ...]: these elements of s, in the order they had.
Those(s, indices) == Sorted(s, indices, [i \in DOMAIN s |-> <<>>])

\* Mutant of VectorKey: ties are left in the order of the index.
MutVectorKeyNoTie(hit, keyword) == <<hit.sim>>

\* Similarity, then keyword overlap, then the smaller id.
VectorKey(hit, keyword) == <<hit.sim, keyword[hit.id], -hit.id>>

Resolve ==
  LET found == [i \in DOMAIN search.near |->
                  [id |-> search.near[i].id, sim |-> search.near[i].sim,
                   score |-> search.near[i].sim]]
      known == {i \in DOMAIN found : found[i].id \in Stocked(table)}
      keys  == [i \in DOMAIN found |-> VectorKey(found[i], search.keyword)]
  IN
  /\ search.pc = "resolve"
  /\ search' = IF known = {}
       THEN [pc |-> "keyword", spec |-> search.spec, keyword |-> search.keyword]
       ELSE [pc |-> "rerank", spec |-> search.spec, keyword |-> search.keyword,
             near |-> search.near, read |-> table, scored |-> Sorted(found, known, keys)]
  /\ UNCHANGED <<table, index, quote>>

Rejection(item, spec) ==
  CASE spec.market # None /\ spec.market \notin item.markets -> "ship_to_unavailable"
    [] spec.cap # None /\ \E c \in Convert(item.price, item.currency, spec.currency) :
                             c > spec.cap -> "over_price_cap"
    [] OTHER -> None

\* The landed price of a card: of the market searched for, if it has tariffs.
LandedIn(spec) ==
  IF spec.market = None THEN "none"
  ELSE IF spec.market \in TariffMarkets THEN "inlined" ELSE "unavailable"

First(s, n) == SubSeq(s, 1, Capped(n, Len(s)))

\* Hard constraints, top_k, and a few of the candidates left out.
Answer(scored, read, strategy, near) ==
  LET spec    == search.spec
      fit     == {i \in DOMAIN scored : Rejection(read[scored[i].id], spec) = None}
      passing == Those(scored, fit)
      others  == Those(scored, DOMAIN scored \ fit)
  IN [pc |-> "done", spec |-> spec, keyword |-> search.keyword, near |-> near,
      read |-> read, strategy |-> strategy, hits |-> First(passing, spec.top),
      total |-> Len(passing), rejected |-> First(others, RejectLimit),
      landed |-> LandedIn(spec)]

\* The relevance replaces the score; equal ones keep the order they had.
Rerank ==
  /\ search.pc = "rerank"
  /\ \E relevance \in [{search.scored[i].id : i \in DOMAIN search.scored} -> Scores] :
       LET ranked == [i \in DOMAIN search.scored |->
                        [search.scored[i] EXCEPT !.score = relevance[search.scored[i].id]]]
           keys   == [i \in DOMAIN ranked |-> <<ranked[i].score>>]
       IN search' = Answer(Sorted(ranked, DOMAIN ranked, keys), search.read,
                           "embedding_rerank", search.near)
  /\ UNCHANGED <<table, index, quote>>

\* No reranker, or it fails: the order of the vectors stands.
RerankFails ==
  /\ search.pc = "rerank"
  /\ search' = Answer(search.scored, search.read, "embedding_only", search.near)
  /\ UNCHANGED <<table, index, quote>>

\* list_all; products without a common term are left out.
KeywordRecall ==
  LET all  == [p \in Products |-> [id |-> p, sim |-> 0, score |-> search.keyword[p]]]
      some == {p \in Stocked(table) : search.keyword[p] > 0}
      keys == [p \in Products |-> <<search.keyword[p], -p>>]
  IN
  /\ search.pc = "keyword"
  /\ search' = Answer(Sorted(all, some, keys), table, "keyword_2gram", <<>>)
  /\ UNCHANGED <<table, index, quote>>

\* The database fails here too: the tool reports an error.
SearchFails ==
  /\ search.pc = "keyword"
  /\ search' = NoSearch
  /\ UNCHANGED <<table, index, quote>>

\* The buyer asks something else.
Leave ==
  /\ search.pc = "done" \/ quote.pc \in {"accepted", "refused"}
  /\ search' = NoSearch /\ quote' = NoQuote
  /\ UNCHANGED <<table, index>>

-----------------------------------------------------------------------------
(* QuoteSimulatedOrderUseCase.execute                                      *)

Item(p, q) == [product |-> p, quantity |-> q]

\* pieces and subtotal: of the lines so far; inCny, a history: the subtotal of the same
\* lines at prices in CNY.  from: the table a card was made of, or None for a form typed
\* in; seen: the table the last item was read from.
Quote(items, market, currency, from) ==
  [pc |-> "items", items |-> items, market |-> market, currency |-> currency,
   lines |-> <<>>, pieces |-> 0, subtotal |-> 0, inCny |-> 0, fees |-> None,
   from |-> from, seen |-> table]

\* Mutant of Offered: the form falls back to every market, whatever the product names.
MutOfferedAny(item) == FeeMarkets

\* The card offers the markets of the product that have fee rules, all of these if it
\* has no market (no product of the seeds), quantities 1 to 10 and the currencies of the
\* table.
Offered(item) == IF item.markets = {} THEN FeeMarkets ELSE item.markets \intersect FeeMarkets

QuoteCard(i, q, market, currency) ==
  /\ search.pc = "done" /\ quote.pc = "idle" /\ i \in DOMAIN search.hits
  /\ q \in 1 .. 10
  /\ market \in Offered(search.read[search.hits[i].id])
  /\ quote' = Quote(<<Item(search.hits[i].id, q)>>, market, currency, search.read)
  /\ search' = NoSearch
  /\ UNCHANGED <<table, index>>

Refused == [quote EXCEPT !.pc = "refused", !.seen = table]

\* The form carries anything; an empty one, duplicates (of a product and a SKU) and
\* unknown markets are refused first.
QuoteForm(items, market, currency) ==
  LET twice == \E i, j \in DOMAIN items : i # j /\ items[i].product = items[j].product
      asked == Quote(items, market, currency, None)
  IN
  /\ search.pc = "idle" /\ quote.pc = "idle"
  /\ quote' = IF items = <<>> \/ market \notin FeeMarkets \/ twice
                THEN [asked EXCEPT !.pc = "refused"] ELSE asked
  /\ UNCHANGED <<table, index, search>>

\* One to ten of a product of the catalogue that is sent to the market.
Orderable(item) ==
  LET product == table[item.product] IN
  item.quantity \in 1 .. 10 /\ product # None /\ quote.market \in product.markets

\* One turn of the loop: the catalogue is read again for every item, the unit price
\* converted, the line counted and, here at once, added to the subtotal.
QuoteItem ==
  LET item    == quote.items[Len(quote.lines) + 1]
      product == table[item.product]
  IN
  /\ quote.pc = "items" /\ Len(quote.lines) < Len(quote.items)
  /\ \/ /\ Orderable(item)
        /\ \E unit \in Convert(product.price, product.currency, quote.currency),
              cny \in Convert(product.price, product.currency, "CNY") :
             quote' = [quote EXCEPT
               !.lines = Append(@, [product |-> item.product, quantity |-> item.quantity,
                                    unit |-> unit, read |-> product]),
               !.pieces = @ + item.quantity,
               !.subtotal = @ + unit * item.quantity,
               !.inCny = @ + cny * item.quantity]
     \/ ~Orderable(item) /\ quote' = Refused
  /\ UNCHANGED <<table, index, search>>

TotalAllowed == quote.pieces <= 10

QuoteFees ==
  /\ quote.pc = "items" /\ Len(quote.lines) = Len(quote.items)
  /\ \/ /\ TotalAllowed
        /\ \E fees \in FeeQuotes(quote.subtotal, quote.pieces, quote.market, quote.currency) :
             quote' = [quote EXCEPT !.pc = "accepted", !.fees = fees]
     \/ ~TotalAllowed /\ quote' = Refused
  /\ UNCHANGED <<table, index, search>>

\* What a form may carry.
Forms == UNION {[1 .. n -> [product : Products, quantity : Quantities]] : n \in 0 .. MaxItems}

Next ==
  \/ Startup
  \/ \E spec \in Specs, keyword \in [Products -> Scores] : Ask(spec, keyword)
  \/ IndexAnswers \/ RecallFails \/ Resolve \/ Rerank \/ RerankFails
  \/ KeywordRecall \/ SearchFails \/ Leave
  \/ \E i \in Products, q \in Quantities, market \in FeeMarkets, currency \in Targets :
       QuoteCard(i, q, market, currency)
  \/ \E items \in Forms, currency \in Targets, market \in FeeMarkets \union TariffMarkets :
       QuoteForm(items, market, currency)
  \/ QuoteItem \/ QuoteFees

Spec == Init /\ [][Next]_vars

-----------------------------------------------------------------------------
(* Properties.                                                             *)

Done == search.pc = "done"

\* What the recall had to choose from, whatever order it came in.
Candidates ==
  IF search.strategy = "keyword_2gram"
  THEN {p \in Stocked(search.read) : search.keyword[p] > 0}
  ELSE {search.near[i].id : i \in DOMAIN search.near} \intersect Stocked(search.read)

Passing == {p \in Candidates : Rejection(search.read[p], search.spec) = None}

\* Score, similarity, keyword overlap, id: no two products have the same.
RankKey(h) == <<h.score, h.sim, search.keyword[h.id], -h.id>>

\* The answer of a search does not depend on the order in which the index
\* lists ties among what it recalled (a tie at RecallLimit is still decided by
\* the index): the hits are strictly ordered, fit what was asked for (market
\* and budget, the cap compared in the currency it was given in), are the
\* first top_k of all that fit; and an empty answer names a product left out
\* if there was one (the comment at catalog_search.py:153).
HitsSound ==
  Done =>
    LET hits == search.hits
        ids  == {hits[i].id : i \in DOMAIN hits}
        spec == search.spec
    IN
    /\ \A i, j \in DOMAIN hits : i < j => Exceeds(RankKey(hits[i]), RankKey(hits[j]))
    /\ \A p \in ids :
         LET item == search.read[p] IN
         /\ spec.market # None => spec.market \in item.markets
         /\ spec.cap # None =>
              \A c \in Convert(item.price, item.currency, spec.currency) : c <= spec.cap
    /\ ids \subseteq Passing /\ search.total = Cardinality(Passing)
    /\ Len(hits) = Capped(spec.top, search.total)
    /\ hits = <<>> /\ Candidates # {} => search.rejected # <<>>

\* What a card offers can be ordered (the comment at catalog_search.py:57): a
\* quote of a card is refused only if it was read from another state of
\* the table.
OfferedIsQuotable ==
  quote.pc = "refused" /\ quote.from # None => quote.from # quote.seen

Difference(a, b) == IF a > b THEN a - b ELSE b - a

\* The same lines priced in CNY.
InCny == FeeQuotes(quote.inCny, quote.pieces, quote.market, "CNY")

\* What rounding may move: a minor unit of the quote's currency per piece, for
\* freight, threshold and tax, and as much in CNY.
Tolerance ==
  ((quote.pieces + 3) * RateToCny[quote.currency]) \div 1000 + quote.pieces + 4

\* A quote is one to ten pieces; it costs the same in whatever currency it is
\* shown, but for rounding; a further piece never makes it cheaper; and its
\* freight for one piece is the one the card of the search showed.
QuoteIsFair ==
  quote.pc = "accepted" =>
    LET fees == quote.fees IN
    /\ quote.pieces \in 1 .. 10
    /\ \A c \in Convert(Total(fees), quote.currency, "CNY"), other \in InCny :
         Difference(c, Total(other)) <= Tolerance
    /\ \A l \in DOMAIN quote.lines :
         \A more \in FeeQuotes(fees.subtotal + quote.lines[l].unit, quote.pieces + 1,
                               quote.market, quote.currency) :
           Total(more) >= Total(fees)
    /\ quote.pieces = 1 /\ quote.market \in TariffMarkets =>
         LET item == quote.lines[1].read IN
         \E card \in Landed(item.price, item.currency, item.category,
                            quote.market, quote.currency) :
           card.freight = fees.shipping /\ card.subtotal = fees.subtotal
=============================================================================
