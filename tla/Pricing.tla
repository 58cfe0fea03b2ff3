------------------------------ MODULE Pricing ------------------------------
(***************************************************************************)
(* The price table (pricing.py): the bundled one with the last remote      *)
(* document over it, the rates in force on the day it was last rebuilt     *)
(* for, and the refreshes, several of which may be under way: the loop's   *)
(* and those of admins.                                                    *)
(*                                                                         *)
(* A document is a function from keys to sequences of [from, price]; the   *)
(* days count from 0, and an undated rate is in force from 0.  A price     *)
(* stands for the five tiers.  PRICING_REMOTE_URL is set.                  *)
(***************************************************************************)
EXTENDS Integers, Sequences, FiniteSetsExt, SequencesExt

CONSTANTS
    Model,              \* model ids of responses
    KeysOf(_),          \* the keys a model id matches, the longest first
    PRICING_FALLBACK,   \* the price of a model without a key
    _BUNDLED_TABLE,
    Documents,          \* what is published at the URL, one after the other
    Fetcher             \* the loop and the admins

VARIABLES
    day,
    _table,         \* the document installed over the bundled table, 0 for none
    PRICING,        \* prices by key
    _priced_day,
    priceCache,     \* the document in the cache file, 0 for none
    published,      \* the document at the URL
    fetch,          \* by fetcher: no refresh, one asked, or the document it was answered
    overlapped,     \* history: fetchers that had another's document installed meanwhile
    newest,         \* history: the latest document ever installed
    stale,          \* history: why an older one may be in use
    charged         \* history: of the last response, the price, the right one,
                    \* and why it may be wrong

pricingVars == <<day, _table, PRICING, _priced_day, priceCache, published, fetch,
                 overlapped, newest, stale, charged>>

Idle == -2
Asked == -1
NoRate == -1
NoCharge == [price |-> 0, right |-> 0, excuse |-> {}]

-----------------------------------------------------------------------------

rates_on(table, key, d) ==
    LET known == {i \in DOMAIN table[key] : table[key][i].from <= d}
    IN  IF known = {} THEN NoRate
        ELSE table[key][CHOOSE i \in known :
                            \A j \in known : table[key][j].from <= table[key][i].from].price

\* parse_pricing takes the document: as a whole or not at all
parse_pricing(doc) ==
    \A key \in DOMAIN doc :
        /\ Len(doc[key]) > 0
        /\ \A i, j \in DOMAIN doc[key] : i # j => doc[key][i].from # doc[key][j].from
        /\ \A i \in DOMAIN doc[key] : doc[key][i].price >= 0

\* the table install_table makes of a document
Merged(n) ==
    IF n = 0 THEN _BUNDLED_TABLE
    ELSE [key \in DOMAIN Documents[n] \cup DOMAIN _BUNDLED_TABLE |->
             IF key \in DOMAIN Documents[n] THEN Documents[n][key] ELSE _BUNDLED_TABLE[key]]

\* the rates _rebuild finds: those in force
InForce(n, d) ==
    LET table == Merged(n)
    IN  [key \in {k \in DOMAIN table : rates_on(table, k, d) # NoRate} |->
            rates_on(table, key, d)]

install_table(n) ==
    /\ _table' = n
    /\ PRICING' = InForce(n, day)
    /\ _priced_day' = day

-----------------------------------------------------------------------------

\* mutant: a day's rates are kept
KeepsRates == UNCHANGED <<PRICING, _priced_day>>

_ensure_today ==
    IF day = _priced_day THEN UNCHANGED <<PRICING, _priced_day>>
    ELSE /\ PRICING' = InForce(_table, day)
         /\ _priced_day' = day

\* the first key of those a model id matches that is among the given ones
KeyAmong(m, keys) ==
    LET known == SelectSeq(KeysOf(m), LAMBDA key : key \in keys)
    IN  IF known = <<>> THEN "unknown" ELSE known[1]

_normalize_model_key(m) == KeyAmong(m, DOMAIN PRICING)

PriceOf(key, prices) == IF key \in DOMAIN prices THEN prices[key] ELSE PRICING_FALLBACK

RightPrice(m) ==
    LET prices == InForce(newest, day) IN PriceOf(KeyAmong(m, DOMAIN prices), prices)

(* The cost of a response: the key is looked up before the rates are made  *)
(* those of today, so on a day's first response a key that has a price     *)
(* from today on is not found.                                             *)
Charge(m) ==
    /\ _ensure_today
    /\ charged' = [price  |-> PriceOf(_normalize_model_key(m), PRICING'),
                   right  |-> RightPrice(m),
                   excuse |-> IF _table # newest THEN stale
                              ELSE IF DOMAIN PRICING # DOMAIN InForce(_table, day)
                              THEN {"new key"} ELSE {}]
    /\ UNCHANGED <<day, _table, priceCache, published, fetch, overlapped, newest, stale>>

\* GET /pricing
pricing_view ==
    /\ _ensure_today
    /\ UNCHANGED <<day, _table, priceCache, published, fetch, overlapped, newest, stale,
                   charged>>

BeginRefresh(f) ==
    /\ fetch[f] = Idle
    /\ fetch' = [fetch EXCEPT ![f] = Asked]
    /\ overlapped' = overlapped \ {f}
    /\ UNCHANGED <<day, _table, PRICING, _priced_day, priceCache, published, newest, stale,
                   charged>>

Answered(f) ==
    /\ fetch[f] = Asked
    /\ fetch' = [fetch EXCEPT ![f] = published]
    /\ UNCHANGED <<day, _table, PRICING, _priced_day, priceCache, published, overlapped,
                   newest, stale, charged>>

(* The answer is taken: an invalid document leaves everything as it is; a  *)
(* valid one is installed, and written to the cache if it can be.          *)
EndRefresh(f) ==
    /\ fetch[f] >= 0
    /\ fetch' = [fetch EXCEPT ![f] = Idle]
    /\ IF parse_pricing(Documents[fetch[f]])
       THEN /\ install_table(fetch[f])
            /\ priceCache' \in {fetch[f], priceCache}
            /\ overlapped' = {g \in Fetcher \ {f} : fetch[g] # Idle} \cup overlapped
            /\ newest' = IF fetch[f] > newest THEN fetch[f] ELSE newest
            /\ stale' = IF fetch[f] < newest
                        THEN stale \cup IF f \in overlapped THEN {"overtaken"} ELSE {}
                        ELSE IF priceCache' = fetch[f] THEN {} ELSE stale \cup {"unwritten"}
       ELSE UNCHANGED <<_table, PRICING, _priced_day, priceCache, overlapped, newest, stale>>
    /\ UNCHANGED <<day, published, charged>>

\* no connection, an error status, or a cancelled loop
RefreshFails(f) ==
    /\ fetch[f] # Idle
    /\ fetch' = [fetch EXCEPT ![f] = Idle]
    /\ UNCHANGED <<day, _table, PRICING, _priced_day, priceCache, published, overlapped,
                   newest, stale, charged>>

Publish ==
    /\ published < Len(Documents)
    /\ published' = published + 1
    /\ UNCHANGED <<day, _table, PRICING, _priced_day, priceCache, fetch, overlapped, newest,
                   stale, charged>>

Tomorrow ==
    /\ day' = day + 1
    /\ UNCHANGED <<_table, PRICING, _priced_day, priceCache, published, fetch, overlapped,
                   newest, stale, charged>>

\* the process ends
ForgetPrices ==
    /\ fetch' = [f \in Fetcher |-> Idle]
    /\ UNCHANGED <<day, _table, PRICING, _priced_day, priceCache, published, overlapped,
                   newest, stale, charged>>

(* The module's import rebuilds from the bundled table; load_cached_remote *)
(* installs the cached document, if it can be read.                        *)
load_cached_remote ==
    /\ \E n \in {0, priceCache} :
         /\ install_table(n)
         /\ stale' = IF n = priceCache THEN stale ELSE stale \cup {"unread"}
    /\ UNCHANGED <<day, priceCache, published, fetch, overlapped, newest, charged>>

PricingInit ==
    /\ day = 0
    /\ _table = 0 /\ PRICING = InForce(0, 0) /\ _priced_day = 0
    /\ priceCache = 0 /\ published = 1
    /\ fetch = [f \in Fetcher |-> Idle]
    /\ overlapped = {} /\ newest = 0 /\ stale = {}
    /\ charged = NoCharge

PricingTypeOK ==
    /\ {_table, newest, priceCache} \subseteq 0..published
    /\ PRICING = InForce(_table, _priced_day)
    /\ _priced_day \in 0..day
    /\ fetch \in [Fetcher -> {Idle, Asked} \cup 1..published]
    /\ overlapped \subseteq Fetcher

-----------------------------------------------------------------------------

(* A response is charged at the rate in force that day for its model in    *)
(* the newest document any refresh has brought, over days, refreshes,      *)
(* restarts and failures; except that the day's first response does not    *)
(* know the keys of the day, that of two refreshes under way together the  *)
(* older answer may come last, and that a restart knows what could be      *)
(* written to the cache file and read from it.                             *)
PricesRight == charged.price = charged.right \/ charged.excuse # {}
=============================================================================
