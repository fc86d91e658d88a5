------------------------------ MODULE Pricing ------------------------------
(***************************************************************************)
(* What a quote promises to pay: the price catalog's decimal literals      *)
(* become whole minor units, the sealed pages become token bounds, and the *)
(* two are multiplied into the upper bound that is reserved.  An amount is *)
(* an integer of a limited width; one that does not fit is refused.        *)
(***************************************************************************)
EXTENDS Naturals, FiniteSets, Sequences

CONSTANTS Literals,      \* decimal literals: digits before and after the point
          Invalid,       \* a literal that is no such number
          Radix,         \* 10
          Scale,         \* digits of a minor unit
          MaxDigits,     \* digits after the point a literal may have (a bound)
          MaxMinor,      \* the largest amount, 2^63 - 1
          PerUnits,      \* tokens a token price is for, one million
          PageBytes,     \* sizes of a page's text, 0 for none
          MaxQuoted,     \* pages of a preparation
          BatchPages,    \* MANUAL_PAGES_PER_BATCH
          Overhead,      \* prompt tokens of a batch: upper, expected
          ImageTokens,   \* tokens of a page image: upper, expected
          BytesPerToken, \* expected bytes of a token
          MaxOutput,     \* output tokens a batch may use
          PageOutput,    \* output tokens expected of a page
          NoQuote

ASSUME PricingAssumption ==
    /\ Literals \subseteq [whole : Nat, digits : 0 .. MaxDigits, frac : Nat]
    /\ Radix \in Nat \ {0, 1} /\ BytesPerToken \in Nat \ {0} /\ BatchPages \in Nat \ {0}
    /\ Scale \in Nat /\ MaxDigits \in Nat /\ MaxMinor \in Nat /\ PerUnits \in Nat \ {0}
    /\ PageBytes \subseteq Nat /\ MaxQuoted \in Nat
    /\ \A tokens \in {Overhead, ImageTokens} :
          tokens \in [upper : Nat, expected : Nat] /\ tokens.expected <= tokens.upper
    /\ MaxOutput \in Nat /\ PageOutput \in Nat /\ PageOutput * BatchPages <= MaxOutput

VARIABLES catalog,   \* the loaded price catalog, or its literals were refused
          setup,     \* what the providers are set up with
          sealed,    \* text bytes of the sealed pages
          quoted     \* the quote that was stored

pricingVars == <<catalog, setup, sealed, quoted>>

Prices == {"preset", "segment", "input", "output", "image"}
Unset == [p \in Prices |-> Invalid]

PricingInit ==
    /\ catalog = [literal |-> Unset, minor |-> <<>>]
    /\ setup \in [configured : BOOLEAN, model : {"v3", "older"}, autoStages : BOOLEAN]
    /\ sealed \in UNION {[1 .. n -> PageBytes] : n \in 1 .. MaxQuoted}
    /\ quoted = NoQuote

-----------------------------------------------------------------------------
(* parse_decimal_scaled, mul_div_ceil                                      *)

\* Power[n] is Radix ^ n.
Power[n \in 0 .. Scale + MaxDigits] == IF n = 0 THEN 1 ELSE Radix * Power[n - 1]

Whole(l) == l.whole * Power[Scale]

CeilDiv(a, b) == (a + b - 1) \div b

\* Mutant: digits beyond the scale round to the nearest.
PriceToNearest(l) ==
    Whole(l) + (IF l.digits <= Scale THEN l.frac * Power[Scale - l.digits]
                ELSE (2 * l.frac + Power[l.digits - Scale])
                        \div (2 * Power[l.digits - Scale]))

\* Digits beyond the scale round up.
PriceToMinor(l) ==
    Whole(l) + (IF l.digits <= Scale THEN l.frac * Power[Scale - l.digits]
                ELSE CeilDiv(l.frac, Power[l.digits - Scale]))

Fits(amount) == amount <= MaxMinor

-----------------------------------------------------------------------------
(* PriceCatalog: read at start-up, refused as a whole.                     *)

Accepted(literals) ==
    /\ \A p \in Prices \ {"segment"} : literals[p] # Invalid
    /\ \A p \in Prices : literals[p] # Invalid => Fits(PriceToMinor(literals[p]))
    /\ literals["segment"] # Invalid => PriceToMinor(literals["segment"]) > 0

LoadCatalog ==
    /\ catalog.minor = <<>>
    /\ \E literals \in [Prices -> Literals \cup {Invalid}] :
         /\ Accepted(literals)
         /\ catalog' = [literal |-> literals,
                        minor |-> [p \in {q \in Prices : literals[q] # Invalid} |->
                                      PriceToMinor(literals[p])]]
    /\ UNCHANGED <<setup, sealed, quoted>>

-----------------------------------------------------------------------------
(* plan_manual_ai                                                          *)

QuoteBatches == CeilDiv(Len(sealed), BatchPages)
Images == Cardinality({p \in DOMAIN sealed : sealed[p] = 0})

UpperTokens(bytes) == IF bytes > 0 THEN bytes ELSE ImageTokens.upper
ExpectedTokens(bytes) ==
    IF bytes > 0 THEN CeilDiv(bytes, BytesPerToken) ELSE ImageTokens.expected

SumOf(numbers) ==
    LET upTo[n \in 0 .. Len(numbers)] ==
            IF n = 0 THEN 0 ELSE upTo[n - 1] + numbers[n]
    IN  upTo[Len(numbers)]

InputUpper ==
    QuoteBatches * Overhead.upper
      + SumOf([p \in DOMAIN sealed |-> UpperTokens(sealed[p])])
InputExpected ==
    QuoteBatches * Overhead.expected
      + SumOf([p \in DOMAIN sealed |-> ExpectedTokens(sealed[p])])
OutputUpper == QuoteBatches * MaxOutput
OutputExpected == Len(sealed) * PageOutput

-----------------------------------------------------------------------------
(* tripo_amount, manual_ai_amount                                          *)

TokenCost(tokens, price) == CeilDiv(tokens * catalog.minor[price], PerUnits)
ImageCost == Images * catalog.minor["image"]

ManualUpper == <<TokenCost(InputUpper, "input"), TokenCost(OutputUpper, "output"), ImageCost>>
ManualExpected ==
    <<TokenCost(InputExpected, "input"), TokenCost(OutputExpected, "output"), ImageCost>>

\* The segmentation is quoted when the stages that need it are on.
Segmented == setup.autoStages /\ "segment" \in DOMAIN catalog.minor
TripoLines ==
    <<catalog.minor["preset"]>>
      \o (IF Segmented THEN <<catalog.minor["segment"]>> ELSE <<>>)

AmountOf(expected, upper) ==
    [estimated |-> SumOf(expected), upper |-> SumOf(upper), lines |-> upper]

Quoted ==
    [tripo |-> AmountOf(TripoLines, TripoLines), segmented |-> Segmented,
     manual |-> AmountOf(ManualExpected, ManualUpper)]

-----------------------------------------------------------------------------
(* create_estimate                                                         *)

PhotoViews == {"front", "left", "detail"}

\* A preset of the catalog for the configured model, and a front photo with
\* a side view and no detail.
Quotable(chosen) ==
    /\ setup.configured /\ setup.model = "v3"
    /\ "front" \in chosen /\ "left" \in chosen /\ "detail" \notin chosen
    /\ \A provider \in {Quoted.tripo, Quoted.manual} : Fits(provider.upper)

Estimate(chosen) ==
    /\ catalog.minor # <<>> /\ quoted = NoQuote
    /\ Quotable(chosen)
    /\ quoted' = Quoted
    /\ UNCHANGED <<catalog, setup, sealed>>

\* The settings are saved anew.
SetUp(new) ==
    /\ setup # new /\ setup' = new
    /\ UNCHANGED <<catalog, sealed, quoted>>

PricingNext ==
    \/ LoadCatalog
    \/ \E chosen \in SUBSET PhotoViews : Estimate(chosen)
    \/ \E new \in [configured : {TRUE}, model : {"v3"}, autoStages : BOOLEAN] : SetUp(new)

PricingSpec == PricingInit /\ [][PricingNext]_pricingVars

-----------------------------------------------------------------------------
PricingTypeOK ==
    /\ DOMAIN catalog.minor \subseteq Prices
    /\ \A p \in DOMAIN catalog.minor : catalog.minor[p] \in 0 .. MaxMinor
    /\ sealed \in Seq(PageBytes)
    /\ quoted # NoQuote => /\ quoted.tripo.upper \in 0 .. MaxMinor
                           /\ quoted.manual.upper \in 0 .. MaxMinor

\* A literal in units of Radix ^ -MaxDigits of a minor unit.
Exact(l) == (l.whole * Power[l.digits] + l.frac) * Power[Scale + MaxDigits - l.digits]

\* Every batch may use all the tokens its request allows, and the exact
\* price of that, without any rounding, is at most what was quoted; the
\* expectation never exceeds the bound.
QuoteCoversTheBill ==
    quoted # NoQuote =>
        LET price(p) == Exact(catalog.literal[p])
            unit == Power[MaxDigits]
        IN  /\ quoted.manual.upper * PerUnits * unit
                 >= InputUpper * price("input") + OutputUpper * price("output")
                      + Images * price("image") * PerUnits
            /\ quoted.tripo.upper * unit
                 >= price("preset") + (IF quoted.segmented THEN price("segment") ELSE 0)
            /\ \A a \in {quoted.tripo, quoted.manual} :
                  a.estimated <= a.upper
=============================================================================
