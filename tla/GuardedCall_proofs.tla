--------------------------- MODULE GuardedCall_proofs ---------------------------
(***************************************************************************)
(* Theorems about Pricing, for every price entry, request and usage, and   *)
(* about GuardedCall, for every set of callers, whatever they ask for,     *)
(* share and pay.                                                          *)
(***************************************************************************)
EXTENDS GuardedCall, WellFoundedInduction, TLAPS

--------------------------------------------------------------------------------
(* Prices.                                                                 *)

(* Of the tiers that a prompt is above, one has the highest threshold.     *)
LEMMA HighestTier ==
  ASSUME NEW prompt \in Nat, NEW above \in SUBSET PriceTier, above # {},
         \A t \in above : prompt > t.above
  PROVE  \E t \in above : \A u \in above : u.above <= t.above
  <1> DEFINE Less == OpToRel(<, Nat)
             slack == {prompt - t.above : t \in above}
  <1>1. \A t \in above : t.above \in Nat
    BY DEF PriceTier
  <1>2. slack \subseteq Nat /\ slack # {}
    BY <1>1
  <1>3. PICK s \in slack : \A x \in slack : <<x, s>> \notin Less
    <2>1. IsWellFoundedOn(Less, Nat)
      BY NatLessThanWellFounded
    <2> QED
      BY <1>2, <2>1, WFMin
  <1>4. \A x \in slack : ~(x < s)
    <2> SUFFICES ASSUME NEW x \in slack, x < s PROVE FALSE
      OBVIOUS
    <2>1. x \in Nat /\ s \in Nat
      BY <1>2
    <2>2. <<x, s>> \in Less
      BY <2>1 DEF OpToRel
    <2> QED
      BY <1>3, <2>2
  <1>5. PICK t \in above : s = prompt - t.above
    OBVIOUS
  <1>6. ASSUME NEW u \in above PROVE u.above <= t.above
    <2>1. ~(prompt - u.above < prompt - t.above)
      BY <1>4, <1>5
    <2> QED
      BY <1>1, <2>1
  <1> QED
    BY <1>6

(* The rates for a prompt have the prices of input and output.             *)
LEMMA RatesForTyped ==
  ASSUME NEW price \in PriceEntry, NEW prompt \in Nat
  PROVE  RatesFor(price, prompt) \in Rates
  <1> DEFINE above == {t \in price.tiers : prompt > t.above}
             tier == CHOOSE t \in above : \A u \in above : u.above <= t.above
             rates == [k \in TokenKinds |-> First(tier.rates[k], price.base[k])]
  <1>1. price.base \in Rates /\ above \in SUBSET PriceTier
    BY DEF PriceEntry
  <1>2. CASE above = {}
    BY <1>1, <1>2 DEF RatesFor
  <1>3. CASE above # {}
    <2>1. tier \in above
      BY <1>1, <1>3, HighestTier
    <2>2. tier.rates \in TierRates
      BY <1>1, <2>1 DEF PriceTier
    <2> HIDE DEF tier
    <2>3. rates \in Rates
      BY <1>1, <2>2 DEF Rates, TierRates, First, TokenKinds
    <2>4. RatesFor(price, prompt) = rates
      BY <1>3 DEF RatesFor, tier
    <2> QED
      BY <2>3, <2>4
  <1> QED
    BY <1>2, <1>3

(* A charge grows with the tokens and with the rate.                       *)
LEMMA ChargeGrows ==
  ASSUME NEW a \in Nat, NEW b \in Nat, NEW r \in Nat, NEW m \in Nat, a <= b, r <= m
  PROVE  a * r <= b * m
  <1>1. a * r <= a * m
    <2>1. PICK d \in Nat : m = r + d
      BY m - r \in Nat
    <2>2. a * m = a * r + a * d /\ a * d \in Nat /\ a * r \in Nat
      BY <2>1
    <2> QED
      BY <2>2
  <1>2. a * m <= b * m
    <2>1. PICK d \in Nat : b = a + d
      BY b - a \in Nat
    <2>2. b * m = a * m + d * m /\ d * m \in Nat /\ a * m \in Nat
      BY <2>1
    <2> QED
      BY <2>2
  <1>3. a * r \in Int /\ a * m \in Int /\ b * m \in Int
    OBVIOUS
  <1> QED
    BY <1>1, <1>2, <1>3

--------------------------------------------------------------------------------
(* How many tokens a prompt has does not depend on how they are counted.   *)
LEMMA OnlyCounts ==
  ASSUME NEW kind \in PromptKinds, NEW tokens \in Nat, NEW output \in Nat
  PROVE  /\ Only(kind, tokens, output) \in Usage
         /\ PromptTokens(Only(kind, tokens, output)) = tokens
  BY DEF PromptKinds, TokenKinds, Only, Usage, PromptTokens

LEMMA UnsplitCounts ==
  ASSUME NEW price, NEW usage \in Usage
  PROVE  /\ Unsplit(price, usage) \in Usage
         /\ PromptTokens(Unsplit(price, usage)) = PromptTokens(usage)
         /\ Unsplit(price, usage)["output"] = usage["output"]
         /\ Unsplit(price, usage)["write1h"] = usage["write1h"]
  <1> DEFINE u == Unsplit(price, usage)
  <1>1. \A k \in TokenKinds : usage[k] \in Nat
    BY DEF Usage
  <1>2. u = [k \in TokenKinds |-> u[k]]
    BY DEF Unsplit
  <1>3. /\ u["output"] = usage["output"]
        /\ u["write1h"] = usage["write1h"]
        /\ u["read"] = IF price.base["read"] = NoRate THEN 0 ELSE usage["read"]
        /\ u["write"] = IF price.base["write"] = NoRate THEN 0 ELSE usage["write"]
        /\ u["input"] = usage["input"]
             + (IF price.base["read"] = NoRate THEN usage["read"] ELSE 0)
             + (IF price.base["write"] = NoRate THEN usage["write"] ELSE 0)
    BY DEF Unsplit, TokenKinds
  <1> HIDE DEF u
  <1>4. \A k \in TokenKinds : u[k] \in Nat
    BY <1>1, <1>3 DEF TokenKinds
  <1>5. u \in Usage
    BY <1>2, <1>4 DEF Usage
  <1>6. PromptTokens(u) = PromptTokens(usage)
    BY <1>1, <1>3 DEF PromptTokens, TokenKinds
  <1> QED
    BY <1>3, <1>5, <1>6 DEF u

(* A cost is made of the rates of the kinds of token that occur.           *)
LEMMA ChargeTyped ==
  ASSUME NEW tokens \in Nat, NEW rate, tokens # 0 => rate \in Nat
  PROVE  Charge(tokens, rate) \in Nat
  <1>1. CASE tokens = 0
    BY <1>1 DEF Charge
  <1>2. CASE tokens # 0
    BY <1>2 DEF Charge
  <1> QED
    BY <1>1, <1>2

LEMMA CostTyped ==
  ASSUME NEW rates \in Rates, NEW usage \in Usage,
         \A k \in TokenKinds : usage[k] # 0 => rates[k] # NoRate
  PROVE  CostAt(rates, usage) \in Nat
  <1>1. \A k \in TokenKinds : Charge(usage[k], rates[k]) \in Nat
    <2> TAKE k \in TokenKinds
    <2>1. usage[k] \in Nat /\ (usage[k] # 0 => rates[k] \in Nat)
      BY DEF Usage, Rates
    <2> QED
      BY <2>1, ChargeTyped
  <1> QED
    BY <1>1 DEF CostAt, TokenKinds

(* What a prompt of one kind costs.                                        *)
LEMMA CostOfOnly ==
  ASSUME NEW price \in PriceEntry, NEW kind \in PromptKinds,
         NEW tokens \in Nat, NEW output \in Nat,
         RatesFor(price, tokens)[kind] # NoRate
  PROVE  /\ RatesFor(price, tokens)[kind] \in Nat
         /\ Cost(price, Only(kind, tokens, output))
              = tokens * RatesFor(price, tokens)[kind]
                + output * RatesFor(price, tokens)["output"]
  <1> DEFINE rates == RatesFor(price, tokens)
             usage == Only(kind, tokens, output)
  <1>1. rates \in Rates
    BY RatesForTyped
  <1>2. usage \in Usage /\ PromptTokens(usage) = tokens
    BY OnlyCounts
  <1>3. /\ usage[kind] = tokens /\ usage["output"] = output
        /\ \A k \in TokenKinds \ {kind, "output"} : usage[k] = 0
    BY DEF Only, PromptKinds, TokenKinds
  <1> HIDE DEF rates, usage
  <1>4. rates[kind] \in Nat /\ rates["output"] \in Nat
    BY <1>1 DEF rates, Rates, PromptKinds, TokenKinds
  <1>5. ~ \E k \in TokenKinds : usage[k] # 0 /\ rates[k] = NoRate
    BY <1>1, <1>3, <1>4 DEF rates, Rates
  <1>6. \A k \in {kind, "output"} : Charge(usage[k], rates[k]) = usage[k] * rates[k]
    BY <1>3, <1>4 DEF Charge
  <1>7. \A k \in TokenKinds \ {kind, "output"} : Charge(usage[k], rates[k]) = 0
    BY <1>3 DEF Charge
  <1>8. tokens * rates[kind] \in Nat /\ output * rates["output"] \in Nat
    BY <1>4
  <1>9. CostAt(rates, usage) = Charge(tokens, rates[kind]) + Charge(output, rates["output"])
    <2>1. Charge(tokens, rates[kind]) \in Nat /\ Charge(output, rates["output"]) \in Nat
      BY <1>3, <1>6, <1>8
    <2> QED
      BY <1>3, <1>7, <2>1 DEF CostAt, TokenKinds, PromptKinds
  <1>10. Cost(price, usage) = CostAt(rates, usage)
    BY <1>2, <1>5 DEF Cost, rates
  <1> QED
    BY <1>3, <1>4, <1>6, <1>9, <1>10 DEF rates, usage

--------------------------------------------------------------------------------
(* The estimate is the prompt at one rate, and that rate is as high as the *)
(* rate of input and as the rate of what the prompt may be cached as.      *)
EstimateRate(price, req, top) ==
  LET rates == RatesFor(price, req.prompt)
  IN  /\ top \in Nat
      /\ rates["input"] <= top
      /\ rates[CacheKind(req)] # NoRate => rates[CacheKind(req)] <= top
      /\ EstimateCents(price, req) \in Nat
      /\ req.prompt * top + req.max * rates["output"] <= EstimateCents(price, req)

LEMMA EstimateHasRate ==
  ASSUME NEW price \in PriceEntry, NEW req \in Request
  PROVE  \E top : EstimateRate(price, req, top)
  <1> DEFINE rates == RatesFor(price, req.prompt)
             kind == CacheKind(req)
             Of(k) == req.prompt * rates[k] + req.max * rates["output"]
  <1>1. req.prompt \in Nat /\ req.max \in Nat
    BY DEF Request
  <1>2. rates \in Rates
    BY <1>1, RatesForTyped
  <1>3. rates["input"] \in Nat /\ rates["output"] \in Nat /\ rates["input"] # NoRate
    BY <1>2 DEF Rates, TokenKinds
  <1>4. kind \in PromptKinds /\ "input" \in PromptKinds
    BY DEF Request, CacheKind, PromptKinds, TokenKinds
  <1>5. ASSUME NEW k \in PromptKinds, rates[k] # NoRate
        PROVE  /\ rates[k] \in Nat
               /\ Of(k) \in Nat
               /\ Cost(price, Only(k, req.prompt, req.max)) = Of(k)
    <2>1. rates[k] \in Nat /\ Cost(price, Only(k, req.prompt, req.max)) = Of(k)
      BY <1>1, <1>5, CostOfOnly
    <2> HIDE DEF rates
    <2>2. Of(k) \in Nat
      BY <1>1, <1>3, <2>1
    <2> QED
      BY <2>1, <2>2
  <1>6. Of("input") \in Nat /\ Cost(price, Only("input", req.prompt, req.max)) = Of("input")
    <2> HIDE DEF rates, Of
    <2> QED
      BY <1>3, <1>4, <1>5
  <1>7. CASE rates[kind] # NoRate
    <2>1. /\ rates[kind] \in Nat
          /\ Of(kind) \in Nat
          /\ Cost(price, Only(kind, req.prompt, req.max)) = Of(kind)
      <3> HIDE DEF rates, Of, kind
      <3> QED
        BY <1>4, <1>5, <1>7
    <2>2. EstimateCents(price, req) = Maximum(Of("input"), Of(kind))
      <3>1. Of(kind) # Unpriceable
        BY <2>1, PricingAssumption
      <3> HIDE DEF Of, rates, kind
      <3> QED
        BY <1>6, <2>1, <3>1 DEF EstimateCents, kind
    <2>3. CASE rates[kind] <= rates["input"]
      <3>1. EstimateRate(price, req, rates["input"])
        BY <1>3, <1>6, <2>1, <2>2, <2>3 DEF EstimateRate, Maximum
      <3> QED
        BY <3>1
    <2>4. CASE rates["input"] <= rates[kind]
      <3>1. EstimateRate(price, req, rates[kind])
        BY <1>3, <1>6, <2>1, <2>2, <2>4 DEF EstimateRate, Maximum
      <3> QED
        BY <3>1
    <2> QED
      BY <1>3, <2>1, <2>3, <2>4
  <1>8. CASE rates[kind] = NoRate
    <2>1. EstimateCents(price, req) \in Nat /\ Of("input") <= EstimateCents(price, req)
      <3> DEFINE asWritten == Cost(price, Only(kind, req.prompt, req.max))
      <3>1. CASE asWritten = Unpriceable
        BY <1>6, <3>1 DEF EstimateCents
      <3>2. CASE asWritten # Unpriceable
        <4>1. asWritten \in Nat
          BY <1>1, <1>4, <3>2, OnlyCounts, CostTyped, RatesForTyped DEF Cost
        <4> QED
          BY <1>6, <3>2, <4>1 DEF EstimateCents, Maximum
      <3> QED
        BY <3>1, <3>2
    <2>2. EstimateRate(price, req, rates["input"])
      BY <1>3, <1>8, <2>1 DEF EstimateRate
    <2> QED
      BY <2>2
  <1> QED
    BY <1>7, <1>8

(* A usage none of whose rates is above the estimate's costs no more.      *)
LEMMA CostWithinRate ==
  ASSUME NEW rates \in Rates, NEW usage \in Usage, NEW top \in Nat, NEW output \in Nat,
         usage["output"] <= output,
         \A k \in PromptKinds : usage[k] # 0 => rates[k] \in Nat /\ rates[k] <= top
  PROVE  CostAt(rates, usage) <= PromptTokens(usage) * top + output * rates["output"]
  <1>1. \A k \in TokenKinds : usage[k] \in Nat
    BY DEF Usage
  <1>2. rates["output"] \in Nat
    BY DEF Rates, TokenKinds
  <1>3. ASSUME NEW k \in PromptKinds
        PROVE  /\ Charge(usage[k], rates[k]) \in Nat
               /\ usage[k] * top \in Nat
               /\ Charge(usage[k], rates[k]) <= usage[k] * top
    <2>1. usage[k] \in Nat
      BY <1>1 DEF PromptKinds
    <2>2. usage[k] * top \in Nat
      BY <2>1
    <2>3. CASE usage[k] = 0
      BY <2>2, <2>3 DEF Charge
    <2>4. CASE usage[k] # 0
      <3>1. usage[k] * rates[k] <= usage[k] * top
        BY <2>1, <2>4, ChargeGrows
      <3>2. usage[k] * rates[k] \in Nat
        BY <2>1, <2>4
      <3> QED
        BY <2>2, <2>4, <3>1, <3>2 DEF Charge
    <2> QED
      BY <2>3, <2>4
  <1>4. /\ Charge(usage["output"], rates["output"]) \in Nat
        /\ output * rates["output"] \in Nat
        /\ Charge(usage["output"], rates["output"]) <= output * rates["output"]
    <2>1. usage["output"] \in Nat
      BY <1>1 DEF TokenKinds
    <2>2. usage["output"] * rates["output"] <= output * rates["output"]
      BY <1>2, <2>1, ChargeGrows
    <2>3. output * rates["output"] \in Nat /\ usage["output"] * rates["output"] \in Nat
      BY <1>2, <2>1
    <2> QED
      BY <2>2, <2>3 DEF Charge
  <1>5. PromptTokens(usage) * top = usage["input"] * top + usage["read"] * top
          + usage["write"] * top + usage["write1h"] * top
    BY <1>1 DEF PromptTokens, TokenKinds
  <1> QED
    BY <1>3, <1>4, <1>5 DEF CostAt, PromptKinds, TokenKinds

(* Whatever the provider counts as read from the cache or written to it is *)
(* no dearer than the estimate's rate.                                     *)
LEMMA RatesWithinTop ==
  ASSUME NEW price \in PriceEntry, NEW req \in Request, NEW usage \in Usage, NEW top,
         EstimateRate(price, req, top), Allowed(req, usage), Bounded(price, req),
         NEW k \in PromptKinds, usage[k] # 0,
         RatesFor(price, req.prompt)[k] # NoRate
  PROVE  /\ RatesFor(price, req.prompt)[k] \in Nat
         /\ RatesFor(price, req.prompt)[k] <= top
  <1> DEFINE rates == RatesFor(price, req.prompt)
  <1>1. rates \in Rates
    BY RatesForTyped DEF Request
  <1>2. /\ \A j \in TokenKinds : rates[j] # NoRate => rates[j] \in Nat
        /\ rates["input"] # NoRate
    BY <1>1 DEF Rates
  <1>3. /\ top \in Nat
        /\ rates["input"] <= top
        /\ rates[CacheKind(req)] # NoRate => rates[CacheKind(req)] <= top
        /\ BoundedRates(rates, req)
    BY DEF EstimateRate, Bounded
  <1> HIDE DEF rates
  <1>4. req.provider \in {"anthropic", "openai"} /\ req.ttl \in {"none", "5m", "1h"}
    BY DEF Request
  <1>5. rates[k] # NoRate => rates[k] \in Nat /\ rates[k] <= top
    <2>1. CASE k = "input"
      BY <1>2, <1>3, <2>1 DEF TokenKinds
    <2>2. CASE k = "read"
      BY <1>2, <1>3, <2>2 DEF BoundedRates, TokenKinds
    <2>3. CASE k = "write" /\ CacheKind(req) = "write"
      BY <1>2, <1>3, <2>3 DEF TokenKinds
    <2>4. CASE k = "write" /\ CacheKind(req) = "write1h"
      BY <1>2, <1>3, <1>4, <2>4 DEF BoundedRates, TokenKinds, CacheKind
    <2>5. CASE k = "write1h"
      BY <1>2, <1>3, <1>4, <2>5 DEF Allowed, TokenKinds, CacheKind
    <2>6. k = "write" => CacheKind(req) \in {"write", "write1h"}
      BY <1>4 DEF Allowed, CacheKind
    <2> QED
      BY <2>1, <2>2, <2>3, <2>4, <2>5, <2>6 DEF PromptKinds, TokenKinds
  <1> QED
    BY <1>5 DEF rates

(* What the code computes from a usage the provider may report is covered. *)
LEMMA CostWithinEstimate ==
  ASSUME NEW price \in PriceEntry, NEW req \in Request, NEW usage \in Usage,
         Allowed(req, usage), Bounded(price, req), Cost(price, usage) # Unpriceable
  PROVE  Cost(price, usage) \in Nat /\ Cost(price, usage) <= EstimateCents(price, req)
  <1> DEFINE rates == RatesFor(price, req.prompt)
  <1>1. PICK top : EstimateRate(price, req, top)
    BY EstimateHasRate
  <1>2. /\ req.prompt \in Nat /\ req.max \in Nat
        /\ PromptTokens(usage) = req.prompt
        /\ usage["output"] <= req.max
    BY DEF Request, Allowed
  <1>3. rates \in Rates
    BY <1>2, RatesForTyped
  <1>4. /\ \A k \in TokenKinds : usage[k] # 0 => rates[k] # NoRate
        /\ Cost(price, usage) = CostAt(rates, usage)
    BY <1>2 DEF Cost
  <1>5. CostAt(rates, usage) \in Nat
    BY <1>3, <1>4, CostTyped
  <1>6. \A k \in PromptKinds : usage[k] # 0 => rates[k] \in Nat /\ rates[k] <= top
    BY <1>1, <1>4, RatesWithinTop DEF PromptKinds
  <1>7. /\ top \in Nat
        /\ EstimateCents(price, req) \in Nat
        /\ req.prompt * top + req.max * rates["output"] <= EstimateCents(price, req)
    BY <1>1 DEF EstimateRate
  <1> HIDE DEF rates
  <1>8. CostAt(rates, usage) <= req.prompt * top + req.max * rates["output"]
    BY <1>2, <1>3, <1>6, <1>7, CostWithinRate
  <1>9. req.prompt * top + req.max * rates["output"] \in Nat
    BY <1>2, <1>3, <1>7 DEF Rates, TokenKinds
  <1> QED
    BY <1>4, <1>5, <1>7, <1>8, <1>9

(* With the estimate for what cannot be priced, and OpenAI's split of the  *)
(* usage, too.                                                             *)
LEMMA PriceWithinEstimate ==
  ASSUME NEW price \in PriceEntry, NEW req \in Request, NEW usage \in Usage,
         Allowed(req, usage), Bounded(price, req)
  PROVE  /\ EstimateCents(price, req) \in Nat
         /\ PriceOrEstimate(price, req, usage) \in Nat
         /\ PriceOrEstimate(price, req, usage) <= EstimateCents(price, req)
  <1>1. EstimateCents(price, req) \in Nat
    BY EstimateHasRate DEF EstimateRate
  <1>2. CASE req.provider = "openai"
    <2> DEFINE split == Unsplit(price, usage)
    <2>1. split \in Usage /\ Allowed(req, split)
      BY <1>2, UnsplitCounts DEF Allowed
    <2>2. UsageCents(price, req, usage) = Cost(price, split)
      BY <1>2 DEF UsageCents
    <2> HIDE DEF split
    <2> QED
      BY <1>1, <2>1, <2>2, CostWithinEstimate DEF PriceOrEstimate
  <1>3. CASE req.provider # "openai"
    <2>1. UsageCents(price, req, usage) = Cost(price, usage)
      BY <1>3 DEF UsageCents
    <2> QED
      BY <1>1, <2>1, CostWithinEstimate DEF PriceOrEstimate
  <1> QED
    BY <1>1, <1>2, <1>3

(* However much of a response was read, and whatever usage it reports, the *)
(* settlement of _guard.py commits at most the estimate that was reserved  *)
(* (_estimate_cents in integrations/anthropic.py and openai.py).           *)
THEOREM SettledWithinEstimate ==
  ASSUME NEW price \in PriceEntry, NEW req \in Request, NEW usage \in Usage, NEW got,
         Allowed(req, usage), Bounded(price, req)
  PROVE  /\ EstimateCents(price, req) \in Nat
         /\ SettledCents(price, req, usage, got) \in Nat
         /\ SettledCents(price, req, usage, got) <= EstimateCents(price, req)
  <1>1. EstimateCents(price, req) \in Nat
    BY EstimateHasRate DEF EstimateRate
  <1>2. CASE got = "final"
    BY <1>1, <1>2, PriceWithinEstimate DEF SettledCents
  <1>3. CASE got = "start" /\ req.provider = "anthropic"
    <2> DEFINE most == [usage EXCEPT !["output"] = req.max]
    <2>1. req.max \in Nat
      BY DEF Request
    <2>2. most \in Usage
      BY <2>1 DEF Usage
    <2>3. most["output"] = req.max /\ \A k \in PromptKinds : most[k] = usage[k]
      BY DEF Usage, PromptKinds, TokenKinds
    <2>4. SettledCents(price, req, usage, got) = PriceOrEstimate(price, req, most)
      BY <1>3 DEF SettledCents
    <2> HIDE DEF most
    <2>5. Allowed(req, most)
      BY <2>1, <2>3 DEF Allowed, PromptTokens, PromptKinds, TokenKinds
    <2> QED
      BY <1>1, <2>2, <2>4, <2>5, PriceWithinEstimate
  <1>4. CASE got # "final" /\ ~(got = "start" /\ req.provider = "anthropic")
    BY <1>1, <1>4 DEF SettledCents
  <1> QED
    BY <1>1, <1>2, <1>3, <1>4

--------------------------------------------------------------------------------
(* What the provider bills. An entry of OpenAI must not price cache writes *)
(* in its tiers alone: _usage_cents asks the base entry whether it has a   *)
(* rate and counts them as input if not.                                   *)
WritesInBase(price) ==
  price.base["write"] = NoRate => \A t \in price.tiers : t.rates["write"] = NoRate

(* The rates of a bill: what has no rate of its own is billed as input.    *)
BilledRates(rates) == [k \in TokenKinds |-> First(rates[k], rates["input"])]

LEMMA BilledRatesTyped ==
  ASSUME NEW rates \in Rates
  PROVE  /\ BilledRates(rates) \in Rates
         /\ \A k \in TokenKinds : BilledRates(rates)[k] \in Nat
  <1>1. /\ \A k \in TokenKinds : rates[k] \in Nat \cup {NoRate}
        /\ rates["input"] \in Nat
    BY DEF Rates, TokenKinds
  <1>2. \A k \in TokenKinds : BilledRates(rates)[k] \in Nat
    BY <1>1 DEF BilledRates, First
  <1>3. BilledRates(rates) \in [TokenKinds -> Nat]
    BY <1>1 DEF BilledRates, First
  <1> QED
    BY <1>2, <1>3, PricingAssumption DEF Rates, TokenKinds

(* The bill is at the rates that Pricing.cost would choose.                *)
LEMMA BillAtRates ==
  ASSUME NEW price \in PriceEntry, NEW usage \in Usage, TiersDiffer(price)
  PROVE  ProviderBill(price, usage)
           = CostAt(BilledRates(RatesFor(price, PromptTokens(usage))), usage)
  <1> DEFINE prompt == PromptTokens(usage)
             above == {t \in price.tiers : prompt > t.above}
             rates == RatesFor(price, prompt)
             Set(k) == {t \in above : t.rates[k] # NoRate /\ \A u \in above : u.above <= t.above}
             Rate(k) == IF Set(k) # {} THEN (CHOOSE t \in Set(k) : TRUE).rates[k]
                                       ELSE price.base[k]
  <1>1. prompt \in Nat /\ above \in SUBSET PriceTier
    BY DEF PromptTokens, Usage, TokenKinds, PriceEntry
  <1>2. \A k \in TokenKinds : Rate(k) = rates[k]
    <2>1. CASE above = {}
      <3>1. \A k : Set(k) = {}
        BY <2>1
      <3>2. rates = price.base
        BY <2>1 DEF RatesFor
      <3> QED
        BY <3>1, <3>2
    <2>2. CASE above # {}
      <3> DEFINE tier == CHOOSE t \in above : \A u \in above : u.above <= t.above
      <3>1. \E t \in above : \A u \in above : u.above <= t.above
        BY <1>1, <2>2, HighestTier
      <3>2. tier \in above /\ \A u \in above : u.above <= tier.above
        BY <3>1
      <3>3. \A t \in above : (\A u \in above : u.above <= t.above) => t = tier
        <4> SUFFICES ASSUME NEW t \in above, \A u \in above : u.above <= t.above
                     PROVE  t = tier
          OBVIOUS
        <4>1. t.above \in Nat /\ tier.above \in Nat
          BY <1>1, <3>2 DEF PriceTier
        <4>2. t.above = tier.above
          BY <3>2, <4>1
        <4> QED
          BY <3>2, <4>2 DEF TiersDiffer
      <3>4. rates = [k \in TokenKinds |-> First(tier.rates[k], price.base[k])]
        BY <2>2 DEF RatesFor
      <3> HIDE DEF tier
      <3>5. ASSUME NEW k \in TokenKinds
            PROVE  Rate(k) = First(tier.rates[k], price.base[k])
        <4>1. CASE tier.rates[k] = NoRate
          <5>1. Set(k) = {}
            BY <3>3, <4>1
          <5> QED
            BY <4>1, <5>1 DEF First
        <4>2. CASE tier.rates[k] # NoRate
          <5>1. Set(k) = {tier}
            BY <3>2, <3>3, <4>2
          <5>2. (CHOOSE t \in Set(k) : TRUE) = tier
            BY <5>1
          <5> QED
            BY <4>2, <5>1, <5>2 DEF First
        <4> QED
          BY <4>1, <4>2
      <3> QED
        BY <3>4, <3>5
    <2> QED
      BY <2>1, <2>2
  <1>3. ProviderBill(price, usage)
          = CostAt([k \in TokenKinds |-> First(Rate(k), Rate("input"))], usage)
    BY DEF ProviderBill
  <1> HIDE DEF Rate, rates
  <1>4. [k \in TokenKinds |-> First(Rate(k), Rate("input"))] = BilledRates(rates)
    BY <1>2 DEF BilledRates, TokenKinds
  <1> QED
    BY <1>3, <1>4 DEF rates

(* The estimate covers the bill.                                           *)
LEMMA EstimateCoversBill ==
  ASSUME NEW price \in PriceEntry, NEW req \in Request, NEW usage \in Usage,
         Allowed(req, usage), Bounded(price, req), TiersDiffer(price)
  PROVE  /\ ProviderBill(price, usage) \in Nat
         /\ ProviderBill(price, usage) <= EstimateCents(price, req)
  <1> DEFINE rates == RatesFor(price, req.prompt)
             billed == BilledRates(rates)
  <1>1. PICK top : EstimateRate(price, req, top)
    BY EstimateHasRate
  <1>2. /\ req.prompt \in Nat /\ req.max \in Nat
        /\ PromptTokens(usage) = req.prompt
        /\ usage["output"] <= req.max
    BY DEF Request, Allowed
  <1>3. rates \in Rates
    BY <1>2, RatesForTyped
  <1>4. billed \in Rates /\ \A k \in TokenKinds : billed[k] \in Nat
    BY <1>3, BilledRatesTyped
  <1>5. ProviderBill(price, usage) = CostAt(billed, usage)
    BY <1>2, BillAtRates
  <1>6. /\ top \in Nat /\ rates["input"] <= top
        /\ EstimateCents(price, req) \in Nat
        /\ req.prompt * top + req.max * rates["output"] <= EstimateCents(price, req)
    BY <1>1 DEF EstimateRate
  <1>7. \A k \in PromptKinds : usage[k] # 0 /\ rates[k] # NoRate => rates[k] <= top
    BY <1>1, RatesWithinTop
  <1> HIDE DEF rates
  <1>8. /\ \A k \in PromptKinds : usage[k] # 0 => billed[k] \in Nat /\ billed[k] <= top
        /\ billed["output"] = rates["output"]
    <2>1. \A k \in TokenKinds :
            billed[k] = IF rates[k] = NoRate THEN rates["input"] ELSE rates[k]
      BY DEF BilledRates, First
    <2>2. billed["output"] = rates["output"]
      BY <1>3, <2>1 DEF Rates, TokenKinds
    <2>3. ASSUME NEW k \in PromptKinds, usage[k] # 0
          PROVE  billed[k] \in Nat /\ billed[k] <= top
      <3>1. k \in TokenKinds
        BY DEF PromptKinds
      <3> HIDE DEF billed
      <3> QED
        BY <1>4, <1>6, <1>7, <2>1, <2>3, <3>1
    <2> QED
      BY <2>2, <2>3
  <1>9. CostAt(billed, usage) \in Nat
    BY <1>4, CostTyped, PricingAssumption
  <1> HIDE DEF billed
  <1>10. CostAt(billed, usage) <= req.prompt * top + req.max * billed["output"]
    BY <1>2, <1>4, <1>6, <1>8, CostWithinRate
  <1>11. req.prompt * top + req.max * rates["output"] \in Nat
    BY <1>2, <1>3, <1>6 DEF Rates, TokenKinds
  <1> QED
    BY <1>5, <1>6, <1>8, <1>9, <1>10, <1>11

(* What is computed of a response covers the bill of its usage, though     *)
(* OpenAI's tokens without a rate stay among the input tokens.             *)
LEMMA SplitCoversBill ==
  ASSUME NEW rates \in Rates, NEW price, NEW usage \in Usage, usage["write1h"] = 0,
         \A k \in {"read", "write"} : price.base[k] # NoRate => rates[k] # NoRate,
         price.base["write"] = NoRate => rates["write"] = NoRate,
         rates["read"] # NoRate => rates["read"] <= rates["input"]
  PROVE  /\ CostAt(rates, Unsplit(price, usage)) \in Nat
         /\ CostAt(BilledRates(rates), usage) <= CostAt(rates, Unsplit(price, usage))
  <1> DEFINE split == Unsplit(price, usage)
             a == usage["input"]
             b == usage["read"]
             w == usage["write"]
             o == usage["output"]
             ri == rates["input"]
             ro == rates["output"]
             br == First(rates["read"], ri)
             bw == First(rates["write"], ri)
             noRead == price.base["read"] = NoRate
             noWrite == price.base["write"] = NoRate
  <1>1. a \in Nat /\ b \in Nat /\ w \in Nat /\ o \in Nat
    BY DEF Usage, TokenKinds
  <1>2. /\ ri \in Nat /\ ro \in Nat
        /\ rates["read"] \in Nat \cup {NoRate} /\ rates["write"] \in Nat \cup {NoRate}
    BY DEF Rates, TokenKinds
  <1>3. br \in Nat /\ bw \in Nat /\ br <= ri
    BY <1>2 DEF First
  <1>4. /\ split["input"] = a + (IF noRead THEN b ELSE 0) + (IF noWrite THEN w ELSE 0)
        /\ split["read"] = IF noRead THEN 0 ELSE b
        /\ split["write"] = IF noWrite THEN 0 ELSE w
        /\ split["output"] = o /\ split["write1h"] = 0
    BY DEF Unsplit, TokenKinds
  <1>5. \A k \in TokenKinds : BilledRates(rates)[k] = First(rates[k], ri)
    BY DEF BilledRates
  <1>6. \A n \in Nat, r \in Nat : Charge(n, r) = n * r /\ n * r \in Nat
    BY DEF Charge
  <1>7. \A r : Charge(0, r) = 0
    BY DEF Charge
  <1>8. CostAt(BilledRates(rates), usage) = a * ri + o * ro + b * br + w * bw
    <2>1. /\ BilledRates(rates)["input"] = ri /\ BilledRates(rates)["output"] = ro
          /\ BilledRates(rates)["read"] = br /\ BilledRates(rates)["write"] = bw
      BY <1>2, <1>5, PricingAssumption DEF First, TokenKinds
    <2>2. Charge(usage["write1h"], BilledRates(rates)["write1h"]) = 0
      BY <1>7
    <2>3. CostAt(BilledRates(rates), usage)
            = Charge(a, ri) + Charge(o, ro) + Charge(b, br) + Charge(w, bw) + 0
      BY <2>1, <2>2 DEF CostAt
    <2>4. /\ Charge(a, ri) = a * ri /\ a * ri \in Nat
          /\ Charge(o, ro) = o * ro /\ o * ro \in Nat
          /\ Charge(b, br) = b * br /\ b * br \in Nat
          /\ Charge(w, bw) = w * bw /\ w * bw \in Nat
      BY <1>1, <1>2, <1>3, <1>6
    <2> HIDE DEF a, b, w, o, ri, ro, br, bw
    <2> QED
      BY <2>3, <2>4
  <1>9. /\ ~noRead => rates["read"] = br
        /\ ~noWrite => rates["write"] = bw
        /\ noWrite => bw = ri
    BY <1>2 DEF First
  <1>10. CostAt(rates, split)
           = (a + (IF noRead THEN b ELSE 0) + (IF noWrite THEN w ELSE 0)) * ri + o * ro
             + (IF noRead THEN 0 ELSE b * br) + (IF noWrite THEN 0 ELSE w * bw)
    <2>1. CostAt(rates, split)
            = Charge(split["input"], ri) + Charge(o, ro)
              + Charge(split["read"], rates["read"]) + Charge(split["write"], rates["write"])
              + 0
      BY <1>4, <1>7 DEF CostAt
    <2>2. Charge(split["read"], rates["read"]) = IF noRead THEN 0 ELSE b * br
      BY <1>1, <1>3, <1>4, <1>6, <1>7, <1>9
    <2>3. Charge(split["write"], rates["write"]) = IF noWrite THEN 0 ELSE w * bw
      BY <1>1, <1>3, <1>4, <1>6, <1>7, <1>9
    <2>4. split["input"] \in Nat
      BY <1>1, <1>4
    <2>5. /\ Charge(split["input"], ri) = split["input"] * ri
          /\ Charge(o, ro) = o * ro
          /\ split["input"] * ri \in Nat /\ o * ro \in Nat
      BY <1>1, <1>2, <1>6, <2>4
    <2>6. /\ (IF noRead THEN 0 ELSE b * br) \in Nat
          /\ (IF noWrite THEN 0 ELSE w * bw) \in Nat
      BY <1>1, <1>3, <1>6
    <2> HIDE DEF a, b, w, o, ri, ro, br, bw, noRead, noWrite, split
    <2> QED
      BY <1>4, <2>1, <2>2, <2>3, <2>5, <2>6
  <1>11. b * br <= b * ri
    BY <1>1, <1>2, <1>3, ChargeGrows
  <1>12. /\ a * ri \in Nat /\ b * ri \in Nat /\ w * ri \in Nat /\ o * ro \in Nat
         /\ b * br \in Nat /\ w * bw \in Nat
    BY <1>1, <1>2, <1>3, <1>6
  <1> HIDE DEF a, b, w, o, ri, ro, br, bw
  <1>13. \A x, y, z \in Nat : (x + y + z) * ri = x * ri + y * ri + z * ri
    BY <1>2
  <1>14. 0 * ri = 0
    BY <1>2
  <1>15. (a + (IF noRead THEN b ELSE 0) + (IF noWrite THEN w ELSE 0)) * ri
           = a * ri + (IF noRead THEN b * ri ELSE 0) + (IF noWrite THEN w * ri ELSE 0)
    <2>1. CASE noRead /\ noWrite
      BY <1>1, <1>13, <2>1
    <2>2. CASE noRead /\ ~noWrite
      BY <1>1, <1>13, <1>14, <2>2
    <2>3. CASE ~noRead /\ noWrite
      BY <1>1, <1>13, <1>14, <2>3
    <2>4. CASE ~noRead /\ ~noWrite
      BY <1>1, <1>13, <1>14, <2>4
    <2> QED
      BY <2>1, <2>2, <2>3, <2>4
  <1>16. noWrite => w * bw = w * ri
    BY <1>9
  <1> DEFINE ari == a * ri
             bri == b * ri
             wri == w * ri
             oro == o * ro
             bbr == b * br
             wbw == w * bw
             bill == CostAt(BilledRates(rates), usage)
             cost == CostAt(rates, split)
  <1>17. /\ ari \in Nat /\ bri \in Nat /\ wri \in Nat /\ oro \in Nat
         /\ bbr \in Nat /\ wbw \in Nat /\ bbr <= bri
         /\ noWrite => wbw = wri
         /\ bill = ari + oro + bbr + wbw
         /\ cost = (ari + (IF noRead THEN bri ELSE 0) + (IF noWrite THEN wri ELSE 0)) + oro
                   + (IF noRead THEN 0 ELSE bbr) + (IF noWrite THEN 0 ELSE wbw)
    BY <1>8, <1>10, <1>11, <1>12, <1>15, <1>16
  <1>18. cost \in Nat /\ bill <= cost
    <2> HIDE DEF ari, bri, wri, oro, bbr, wbw, bill, cost
    <2>1. CASE noRead /\ noWrite
      BY <1>17, <2>1
    <2>2. CASE noRead /\ ~noWrite
      BY <1>17, <2>2
    <2>3. CASE ~noRead /\ noWrite
      BY <1>17, <2>3
    <2>4. CASE ~noRead /\ ~noWrite
      BY <1>17, <2>4
    <2> QED
      BY <2>1, <2>2, <2>3, <2>4
  <1> QED
    BY <1>18

LEMMA UsageCoversBill ==
  ASSUME NEW price \in PriceEntry, NEW req \in Request, NEW usage \in Usage,
         Allowed(req, usage), Bounded(price, req), TiersDiffer(price), WritesInBase(price),
         UsageCents(price, req, usage) # Unpriceable
  PROVE  ProviderBill(price, usage) <= UsageCents(price, req, usage)
  <1> DEFINE rates == RatesFor(price, req.prompt)
  <1>1. /\ req.prompt \in Nat /\ req.provider \in {"anthropic", "openai"}
        /\ PromptTokens(usage) = req.prompt
    BY DEF Request, Allowed
  <1>2. rates \in Rates
    BY <1>1, RatesForTyped
  <1>3. ProviderBill(price, usage) = CostAt(BilledRates(rates), usage)
    BY <1>1, BillAtRates
  <1>4. CASE req.provider = "openai"
    <2> DEFINE split == Unsplit(price, usage)
    <2>1. UsageCents(price, req, usage) = CostAt(rates, split)
      BY <1>1, <1>4, UnsplitCounts DEF UsageCents, Cost
    <2>2. rates["read"] # NoRate => rates["read"] <= rates["input"]
      BY DEF Bounded, BoundedRates
    <2>3. \A k \in {"read", "write"} :
            /\ price.base[k] # NoRate => rates[k] # NoRate
            /\ k = "write" /\ price.base[k] = NoRate => rates[k] = NoRate
      <3> DEFINE above == {t \in price.tiers : req.prompt > t.above}
                 tier == CHOOSE t \in above : \A u \in above : u.above <= t.above
      <3>1. CASE above = {}
        BY <3>1 DEF RatesFor
      <3>2. CASE above # {}
        <4>1. rates = [k \in TokenKinds |-> First(tier.rates[k], price.base[k])]
          BY <3>2 DEF RatesFor
        <4>2. above \in SUBSET PriceTier /\ \A t \in above : req.prompt > t.above
          BY DEF PriceEntry
        <4>3. tier \in above
          BY <1>1, <3>2, <4>2, HighestTier
        <4>4. price.base["write"] = NoRate => tier.rates["write"] = NoRate
          BY <4>3 DEF WritesInBase
        <4> HIDE DEF tier, rates
        <4> QED
          BY <4>1, <4>4 DEF First, TokenKinds
      <3> QED
        BY <3>1, <3>2
    <2>4. usage["write1h"] = 0
      BY <1>4 DEF Allowed
    <2> HIDE DEF rates, split
    <2> QED
      BY <1>2, <1>3, <2>1, <2>2, <2>3, <2>4, SplitCoversBill DEF split
  <1>5. CASE req.provider = "anthropic"
    <2>1. /\ UsageCents(price, req, usage) = CostAt(rates, usage)
          /\ \A k \in TokenKinds : usage[k] # 0 => rates[k] # NoRate
      BY <1>1, <1>5 DEF UsageCents, Cost
    <2>2. ASSUME NEW k \in TokenKinds
          PROVE  Charge(usage[k], BilledRates(rates)[k]) = Charge(usage[k], rates[k])
      BY <2>1 DEF Charge, BilledRates, First
    <2>3. CostAt(BilledRates(rates), usage) = CostAt(rates, usage)
      <3> HIDE DEF rates
      <3> QED
        BY <2>2 DEF CostAt, TokenKinds
    <2>4. CostAt(rates, usage) \in Nat
      BY <1>2, <2>1, CostTyped
    <2> QED
      BY <1>3, <2>1, <2>3, <2>4
  <1> QED
    BY <1>1, <1>4, <1>5

LEMMA PriceCoversBill ==
  ASSUME NEW price \in PriceEntry, NEW req \in Request, NEW usage \in Usage,
         Allowed(req, usage), Bounded(price, req), TiersDiffer(price), WritesInBase(price)
  PROVE  ProviderBill(price, usage) <= PriceOrEstimate(price, req, usage)
  <1>1. CASE UsageCents(price, req, usage) = Unpriceable
    BY <1>1, EstimateCoversBill DEF PriceOrEstimate
  <1>2. CASE UsageCents(price, req, usage) # Unpriceable
    BY <1>2, UsageCoversBill DEF PriceOrEstimate
  <1> QED
    BY <1>1, <1>2

(* However much of a response was read, the settlement commits at least    *)
(* what the provider bills for the call: the cost of the reported usage,   *)
(* or an estimate that bounds it.                                          *)
THEOREM SettledCoversBill ==
  ASSUME NEW price \in PriceEntry, NEW req \in Request, NEW usage \in Usage, NEW got,
         Allowed(req, usage), Bounded(price, req), TiersDiffer(price), WritesInBase(price)
  PROVE  /\ ProviderBill(price, usage) \in Nat
         /\ ProviderBill(price, usage) <= SettledCents(price, req, usage, got)
  <1>1. /\ ProviderBill(price, usage) \in Nat
        /\ ProviderBill(price, usage) <= EstimateCents(price, req)
    BY EstimateCoversBill
  <1>2. CASE got = "final"
    BY <1>1, <1>2, PriceCoversBill DEF SettledCents
  <1>3. CASE got = "start" /\ req.provider = "anthropic"
    <2> DEFINE most == [usage EXCEPT !["output"] = req.max]
               billed == BilledRates(RatesFor(price, req.prompt))
    <2>1. req.max \in Nat /\ req.prompt \in Nat
      BY DEF Request
    <2>2. most \in Usage
      BY <2>1 DEF Usage
    <2>3. most["output"] = req.max /\ \A k \in PromptKinds : most[k] = usage[k]
      BY DEF Usage, PromptKinds, TokenKinds
    <2>4. SettledCents(price, req, usage, got) = PriceOrEstimate(price, req, most)
      BY <1>3 DEF SettledCents
    <2> HIDE DEF most
    <2>5. Allowed(req, most)
      BY <2>1, <2>3 DEF Allowed, PromptTokens, PromptKinds, TokenKinds
    <2>6. /\ PromptTokens(usage) = req.prompt /\ PromptTokens(most) = req.prompt
          /\ usage["output"] <= req.max
      BY <2>5 DEF Allowed
    <2>7. /\ ProviderBill(price, usage) = CostAt(billed, usage)
          /\ ProviderBill(price, most) = CostAt(billed, most)
      BY <2>2, <2>6, BillAtRates
    <2>8. \A k \in TokenKinds : billed[k] \in Nat
      BY <2>1, RatesForTyped, BilledRatesTyped
    <2> HIDE DEF billed
    <2>9. /\ ProviderBill(price, most) \in Nat
          /\ ProviderBill(price, most) <= PriceOrEstimate(price, req, most)
          /\ PriceOrEstimate(price, req, most) \in Nat
      BY <2>2, <2>5, EstimateCoversBill, PriceCoversBill, PriceWithinEstimate
    <2>10. \A k \in TokenKinds : usage[k] \in Nat /\ most[k] \in Nat
      BY <2>2 DEF Usage
    <2>11. /\ Charge(usage["output"], billed["output"]) \in Nat
           /\ Charge(req.max, billed["output"]) \in Nat
           /\ Charge(usage["output"], billed["output"]) <= Charge(req.max, billed["output"])
      <3>1. \A n \in Nat, r \in Nat : Charge(n, r) = n * r /\ n * r \in Nat
        BY DEF Charge
      <3>2. usage["output"] * billed["output"] <= req.max * billed["output"]
        BY <2>1, <2>6, <2>8, <2>10, ChargeGrows DEF TokenKinds
      <3>3. /\ usage["output"] \in Nat /\ billed["output"] \in Nat
        BY <2>8, <2>10 DEF TokenKinds
      <3>4. /\ Charge(usage["output"], billed["output"]) = usage["output"] * billed["output"]
            /\ usage["output"] * billed["output"] \in Nat
        BY <3>1, <3>3
      <3>5. /\ Charge(req.max, billed["output"]) = req.max * billed["output"]
            /\ req.max * billed["output"] \in Nat
        BY <2>1, <3>1, <3>3
      <3> QED
        BY <3>2, <3>4, <3>5
    <2>12. \A k \in PromptKinds : /\ Charge(usage[k], billed[k]) \in Nat
                                  /\ most[k] = usage[k]
      BY <2>3, <2>8, <2>10, ChargeTyped DEF PromptKinds
    <2>13. CostAt(billed, usage) <= CostAt(billed, most)
      BY <2>3, <2>11, <2>12 DEF CostAt, PromptKinds, TokenKinds
    <2> QED
      BY <1>1, <2>4, <2>7, <2>9, <2>13
  <1>4. CASE got # "final" /\ ~(got = "start" /\ req.provider = "anthropic")
    BY <1>1, <1>4 DEF SettledCents
  <1> QED
    BY <1>1, <1>2, <1>3, <1>4

--------------------------------------------------------------------------------
(* Calls.                                                                  *)

Phase == {"none", "reserved", "committed", "released", "lapsed", "committedLate"}
Places == {"reserve", "reserved", "call", "block", "observe", "settle", "settled",
           "cleanup", "exit", "done"}
Handle == [on : Callers \cup {None}, created : BOOLEAN,
           state : {"none", "reserved", "committed", "released"}]

CallsTyped ==
  /\ phase \in [Callers -> Phase]
  /\ pc \in [Callers -> Places]
  /\ handle \in [Callers -> Handle]
  /\ wire \in [Callers -> {"none", "sent", "billed", "rejected"}]

(* A caller that has not reserved has no reservation of its own, ...       *)
NothingYet == \A c \in Callers : pc[c] = "reserve" => phase[c] = "none"

(* ... nothing is sent before Begin, ...                                   *)
SentByBegin == \A c \in Callers : pc[c] \in {"reserve", "reserved"} => wire[c] = "none"

(* ... and a guard sends only for the reservation that it made itself.     *)
CreatedIsOwn == \A c \in Callers : handle[c].created => handle[c].on = c
SentOnOwn == \A c \in Guarded : wire[c] # "none" => handle[c].created

CallInv == CallsTyped /\ NothingYet /\ SentByBegin /\ CreatedIsOwn /\ SentOnOwn

LEMMA GuardInitInvariant == GuardInit => CallInv
  BY DEF GuardInit, CallInv, CallsTyped, NothingYet, SentByBegin, CreatedIsOwn,
         SentOnOwn, Phase, Places, Handle, NotHeld, Guarded

--------------------------------------------------------------------------------
(* What a settlement does to the ledger.                                   *)

(* A commit that lands takes one step of the lifecycle.                    *)
LEMMA CommitMoves ==
  ASSUME CallInv, NEW r, NEW cents, Lands(r), Committed(r, cents)
  PROVE  /\ phase' \in [Callers -> Phase]
         /\ \A q \in Callers : phase[q] = "none" => phase'[q] = "none"
         /\ [L!Next]_phase
  <1> USE DEF CallInv, CallsTyped, Lands, Committed, Phase
  <1>1. CASE r \in Callers
    <2>1. phase' = [phase EXCEPT ![r] = IF phase[r] = "lapsed" THEN "committedLate"
                                                               ELSE "committed"]
      BY <1>1
    <2>2. L!Commit(r) \/ L!CommitLate(r)
      BY <1>1, <2>1 DEF L!Commit, L!CommitLate, L!Move
    <2> QED
      BY <1>1, <2>1, <2>2 DEF L!Next
  <1>2. CASE r \notin Callers
    BY <1>2
  <1> QED
    BY <1>1, <1>2

(* So does a release, which leaves alone what is no longer reserved.       *)
LEMMA ReleaseMoves ==
  ASSUME CallInv, NEW r, Released(r)
  PROVE  /\ phase' \in [Callers -> Phase]
         /\ \A q \in Callers : phase[q] = "none" => phase'[q] = "none"
         /\ [L!Next]_phase
  <1> USE DEF CallInv, CallsTyped, Released, Phase
  <1>1. CASE r \in Callers /\ phase[r] = "reserved"
    <2>1. L!Release(r)
      BY <1>1 DEF L!Release, L!Move
    <2> QED
      BY <1>1, <2>1 DEF L!Next
  <1>2. CASE ~(r \in Callers /\ phase[r] = "reserved")
    BY <1>2
  <1> QED
    BY <1>1, <1>2

(* The reservation of a call is made once, in the phase "none".            *)
LEMMA ReserveStep ==
  ASSUME CallInv, NEW c \in Callers, Reserve(c)
  PROVE  CallInv' /\ [L!Next]_phase
  <1> USE DEF CallInv, CallsTyped
  <1>1. /\ pc' = [pc EXCEPT ![c] = "reserved"]
        /\ UNCHANGED <<job, wire>>
        /\ pc[c] = "reserve" /\ phase[c] = "none" /\ wire[c] = "none"
    BY DEF Reserve, At, Goto, setup, NothingYet, SentByBegin
  <1>2. PICK h \in Handle : /\ handle' = [handle EXCEPT ![c] = h]
                            /\ h.created => h.on = c
    <2>1. CASE ReservedFor(job[c].request) = {}
      <3>1. [on |-> c, created |-> TRUE, state |-> "reserved"] \in Handle
        BY DEF Handle
      <3> QED
        BY <2>1, <3>1 DEF Reserve
    <2>2. ASSUME NEW r \in ReservedFor(job[c].request),
                 handle' = [handle EXCEPT ![c] =
                              [on |-> r, created |-> FALSE, state |-> RowState(r)]]
          PROVE  \E h \in Handle : /\ handle' = [handle EXCEPT ![c] = h]
                                   /\ h.created => h.on = c
      <3>1. RowState(r) \in {"none", "reserved", "committed", "released"}
        BY DEF RowState
      <3>2. [on |-> r, created |-> FALSE, state |-> RowState(r)] \in Handle
        BY <3>1 DEF Handle, ReservedFor
      <3> QED
        BY <2>2, <3>2
    <2> QED
      BY <2>1, <2>2 DEF Reserve
  <1>3. \/ phase' = [phase EXCEPT ![c] = "reserved"]
        \/ UNCHANGED phase
    BY DEF Reserve
  <1>4. CallsTyped'
    BY <1>1, <1>2, <1>3 DEF Phase, Places
  <1>5. NothingYet' /\ SentByBegin'
    BY <1>1, <1>3 DEF NothingYet, SentByBegin, Phase
  <1>6. CreatedIsOwn' /\ SentOnOwn'
    BY <1>1, <1>2 DEF CreatedIsOwn, SentOnOwn, Guarded
  <1>7. [L!Next]_phase
    <2>1. CASE phase' = [phase EXCEPT ![c] = "reserved"]
      <3>1. L!Reserve(c)
        BY <1>1, <2>1 DEF L!Reserve, L!Move
      <3> QED
        BY <3>1 DEF L!Next
    <2> QED
      BY <1>3, <2>1
  <1> QED
    BY <1>4, <1>5, <1>6, <1>7

(* The steps that settle.                                                  *)
LEMMA SettlingSteps ==
  ASSUME CallInv, NEW c \in Callers,
         SettleSuccess(c) \/ RunSettlement(c) \/ ExitRelease(c) \/ ExitCommit(c)
  PROVE  CallInv' /\ [L!Next]_phase
  <1> DEFINE r == handle[c].on
  <1>1. \/ \E cents : Lands(r) /\ Committed(r, cents)
        \/ Released(r)
        \/ UNCHANGED phase
    BY DEF SettleSuccess, RunSettlement, ExitRelease, ExitCommit, money
  <1>2. /\ phase' \in [Callers -> Phase]
        /\ \A q \in Callers : phase[q] = "none" => phase'[q] = "none"
        /\ [L!Next]_phase
    BY <1>1, CommitMoves, ReleaseMoves DEF CallInv, CallsTyped
  <1>3. /\ UNCHANGED <<job, handle, wire>>
        /\ pc' \in [Callers -> Places]
        /\ \A d \in Callers : pc'[d] \in {"reserve", "reserved"} => pc'[d] = pc[d]
    BY DEF SettleSuccess, RunSettlement, ExitRelease, ExitCommit, setup, CallInv,
           CallsTyped, Places, End, Goto
  <1> QED
    BY <1>2, <1>3 DEF CallInv, CallsTyped, NothingYet, SentByBegin, CreatedIsOwn,
                      SentOnOwn, Guarded

(* Sending is the guard's decision.                                        *)
LEMMA BeginStep ==
  ASSUME CallInv, NEW c \in Callers, Begin(c)
  PROVE  CallInv' /\ [L!Next]_phase
  BY DEF CallInv, CallsTyped, NothingYet, SentByBegin, CreatedIsOwn, SentOnOwn,
         Guarded, Places, Begin, At, Goto, End, setup, money

(* The sweeper.                                                            *)
LEMMA LapseStep ==
  ASSUME CallInv, NEW c \in Callers, Lapse(c)
  PROVE  CallInv' /\ [L!Next]_phase
  <1> USE DEF CallInv, CallsTyped, Phase
  <1>1. L!Sweep({c})
    BY DEF Lapse, L!Sweep
  <1>2. {c} \in SUBSET Callers
    OBVIOUS
  <1>3. L!Next
    BY <1>1, <1>2 DEF L!Next
  <1> QED
    BY <1>3 DEF Lapse, NothingYet, SentByBegin, CreatedIsOwn, SentOnOwn, Guarded, setup

(* The provider answers only what it was sent.                             *)
LEMMA ProviderStep ==
  ASSUME CallInv, NEW c \in Callers, Bill(c) \/ Reject(c)
  PROVE  CallInv' /\ [L!Next]_phase
  BY DEF CallInv, CallsTyped, NothingYet, SentByBegin, CreatedIsOwn, SentOnOwn,
         Guarded, Bill, Reject, setup, money

(* The other steps of a call only move it on.                              *)
LEMMA QuietSteps ==
  ASSUME CallInv, NEW c \in Callers,
         \/ Answer(c) \/ SeeRejection(c) \/ Return(c) \/ Reraise(c) \/ Priced(c)
         \/ Event(c) \/ LeaveBlock(c) \/ Fail(c)
  PROVE  CallInv' /\ [L!Next]_phase
  <1>1. /\ UNCHANGED <<job, phase, handle, wire>>
        /\ pc' \in [Callers -> Places]
        /\ \A d \in Callers : pc'[d] \in {"reserve", "reserved"} => pc'[d] = pc[d]
    <2> USE DEF CallInv, CallsTyped, Places, Goto, End, Shield, setup, money
    <2>1. CASE Answer(c)
      BY <2>1 DEF Answer
    <2>2. CASE SeeRejection(c) \/ Reraise(c) \/ LoseTouch(c) \/ FailOtherwise(c)
      BY <2>2 DEF SeeRejection, Reraise, LoseTouch, FailOtherwise
    <2>3. CASE Return(c) \/ CancelledReturn(c) \/ ReserveFails(c) \/ SettleFails(c)
      BY <2>3 DEF Return, CancelledReturn, ReserveFails, SettleFails
    <2>4. CASE Priced(c) \/ BodyRaises(c) \/ BlockRaises(c)
      BY <2>4 DEF Priced, BodyRaises, BlockRaises
    <2>5. CASE Event(c) \/ LeaveBlock(c) \/ SettlementFails(c)
      BY <2>5 DEF Event, LeaveBlock, SettlementFails
    <2> QED
      BY <2>1, <2>2, <2>3, <2>4, <2>5 DEF Fail
  <1> QED
    BY <1>1 DEF CallInv, CallsTyped, NothingYet, SentByBegin, CreatedIsOwn, SentOnOwn,
                Guarded

LEMMA CrashStep ==
  ASSUME CallInv, Crash
  PROVE  CallInv' /\ [L!Next]_phase
  BY DEF CallInv, CallsTyped, NothingYet, SentByBegin, CreatedIsOwn, SentOnOwn,
         Guarded, Places, Crash, setup, money

LEMMA GuardStep ==
  ASSUME CallInv, [GuardNext]_guardVars
  PROVE  CallInv' /\ [L!Next]_phase
  <1>1. CASE UNCHANGED guardVars
    BY <1>1 DEF guardVars, setup, money, CallInv, CallsTyped, NothingYet, SentByBegin,
                CreatedIsOwn, SentOnOwn, Guarded
  <1>2. CASE Crash
    BY <1>2, CrashStep
  <1>3. ASSUME NEW c \in Callers,
               \/ Run(c) \/ RunSettlement(c) \/ Event(c) \/ LeaveBlock(c) \/ Fail(c)
               \/ Bill(c) \/ Reject(c) \/ Lapse(c)
        PROVE  CallInv' /\ [L!Next]_phase
    BY <1>3, ReserveStep, BeginStep, SettlingSteps, LapseStep, ProviderStep, QuietSteps
       DEF Run
  <1> QED
    BY <1>1, <1>2, <1>3 DEF GuardNext

(* A caller reserves before it sends, and a guard sends only for the       *)
(* reservation that it made.                                               *)
THEOREM GuardSpecInvariant == GuardSpec => []CallInv
  <1>1. CallInv /\ [GuardNext]_guardVars => CallInv'
    BY GuardStep
  <1> QED
    BY <1>1, GuardInitInvariant, PTL DEF GuardSpec

(* The guards send the provider one request for one reservation, for any   *)
(* number of callers with one request_id (_guard.reserve).                 *)
THEOREM GuardsPayOnce == GuardSpec => []GuardedPaidOnce
  <1>1. CallInv => GuardedPaidOnce
    BY DEF CallInv, CreatedIsOwn, SentOnOwn, GuardedPaidOnce, Guarded
  <1> QED
    BY <1>1, GuardSpecInvariant, PTL

(* Guarded and decorated calls move reservations only as the lifecycle of  *)
(* the protocol allows, whatever fails or is cancelled (_guard.py).        *)
THEOREM CallsFollowLifecycle == GuardSpec => ImplementsLifecycle
  <1>1. GuardInit => L!Init
    BY DEF GuardInit, L!Init
  <1>2. CallInv /\ [GuardNext]_guardVars => [L!Next]_phase
    BY GuardStep
  <1> QED
    BY <1>1, <1>2, GuardSpecInvariant, PTL DEF GuardSpec, L!Spec, ImplementsLifecycle

--------------------------------------------------------------------------------
(* What is charged. The price book and the order stay what they were, ...  *)
OrderInv ==
  /\ entry \in PriceEntry
  /\ order.req \in Request /\ order.usage \in Usage
  /\ Allowed(order.req, order.usage)
  /\ Bounded(entry, order.req)

(* ... and neither a charge nor a settlement on its way exceeds the        *)
(* reservation.                                                            *)
Outcomes == {"none", "answered", "duplicate", "raised", "other", "unsettled", "dead"}
Tasks == {"none", "commit", "release", "done", "failed"}

RestTyped ==
  /\ charge \in [Callers -> Nat]
  /\ read \in [Callers -> {"nothing", "start", "final"}]
  /\ settling \in [Callers -> [what : Tasks, cents : Nat]]
  /\ outcome \in [Callers -> Outcomes]

TasksWithinReservation ==
  \A c \in Callers : settling[c].what = "commit" => settling[c].cents <= Estimate

ChargeInv == OrderInv /\ RestTyped /\ ChargeWithinReservation /\ TasksWithinReservation

LEMMA BookTyped ==
  ASSUME NEW rows \in Overrides, NEW m \in DOMAIN WithBackend(DefaultBook, rows)
  PROVE  WithBackend(DefaultBook, rows)[m] \in PriceEntry
  <1>1. CASE m \in DOMAIN rows
    <2>1. rows[m].base \in Rates /\ rows[m].tiers \in Seq(PriceTier)
      BY <1>1, GuardAssumption
    <2>2. {rows[m].tiers[i] : i \in DOMAIN rows[m].tiers} \in SUBSET PriceTier
      BY <2>1
    <2>3. ParseEntry(rows[m]) \in PriceEntry
      BY <2>1, <2>2 DEF ParseEntry, PriceEntry
    <2> QED
      BY <1>1, <2>3 DEF WithBackend, OverriddenBy
  <1>2. CASE m \notin DOMAIN rows
    BY <1>2, GuardAssumption DEF WithBackend, OverriddenBy
  <1> QED
    BY <1>1, <1>2

LEMMA ChargeInitInvariant == GuardInit => ChargeInv
  <1> SUFFICES ASSUME GuardInit PROVE ChargeInv
    OBVIOUS
  <1>1. OrderInv
    BY BookTyped, GuardAssumption DEF GuardInit, OrderInv, entry
  <1>2. RestTyped
    BY DEF GuardInit, RestTyped, Tasks, Outcomes, NoTask
  <1>3. ChargeWithinReservation /\ TasksWithinReservation
    BY DEF GuardInit, ChargeWithinReservation, TasksWithinReservation, Charged, NoTask
  <1> QED
    BY <1>1, <1>2, <1>3 DEF ChargeInv

(* What a call may commit is within its reservation.                       *)
LEMMA BillWithinReservation ==
  ASSUME OrderInv, NEW c
  PROVE  /\ Estimate \in Nat
         /\ BilledCents(c) \in Nat
         /\ BilledCents(c) <= Estimate
  BY SettledWithinEstimate DEF OrderInv, Estimate, BilledCents

(* What a step may do to the charges.                                      *)
ChargesFairly ==
  \/ \E r : \E cents \in Nat : Lands(r) /\ Committed(r, cents) /\ cents <= Estimate
  \/ /\ UNCHANGED charge
     /\ \A r \in Callers : phase'[r] \in {"committed", "committedLate"} =>
                             phase'[r] = phase[r]

LEMMA FairStep ==
  ASSUME CallInv, ChargeInv, UNCHANGED setup, ChargesFairly,
         settling' \in [Callers -> [what : Tasks, cents : Nat]],
         \A c \in Callers : settling'[c].what = "commit" => settling'[c].cents <= Estimate,
         read' \in [Callers -> {"nothing", "start", "final"}],
         outcome' \in [Callers -> Outcomes]
  PROVE  ChargeInv'
  <1>1. entry' = entry /\ order' = order /\ Estimate' = Estimate
    BY DEF setup, entry, Estimate
  <1>2. OrderInv'
    BY <1>1 DEF ChargeInv, OrderInv
  <1>3. charge' \in [Callers -> Nat]
    BY DEF ChargesFairly, Committed, ChargeInv, RestTyped
  <1>4. ASSUME NEW r \in Callers, phase'[r] \in {"committed", "committedLate"}
        PROVE  charge'[r] <= Estimate
    <2>1. ASSUME NEW q, NEW cents \in Nat,
                 Lands(q), Committed(q, cents), cents <= Estimate
          PROVE  charge'[r] <= Estimate
      <3>1. CASE r = q
        BY <2>1, <3>1 DEF Committed, ChargeInv, RestTyped
      <3>2. CASE r # q
        <4>1. phase'[r] = phase[r] /\ charge'[r] = charge[r]
          BY <2>1, <3>2 DEF Committed, ChargeInv, RestTyped, CallInv, CallsTyped
        <4> QED
          BY <1>4, <4>1, GuardAssumption DEF ChargeInv, ChargeWithinReservation, Charged
      <3> QED
        BY <3>1, <3>2
    <2>2. CASE UNCHANGED charge /\ phase'[r] = phase[r]
      BY <1>4, <2>2, GuardAssumption DEF ChargeInv, ChargeWithinReservation, Charged
    <2> QED
      BY <1>4, <2>1, <2>2 DEF ChargesFairly
  <1> QED
    BY <1>1, <1>2, <1>3, <1>4 DEF ChargeInv, RestTyped, ChargeWithinReservation, Charged,
                                 TasksWithinReservation

(* The steps that charge commit what the provider billed, or the estimate. *)
LEMMA ChargingSteps ==
  ASSUME CallInv, ChargeInv, NEW c \in Callers,
         SettleSuccess(c) \/ RunSettlement(c) \/ ExitRelease(c) \/ ExitCommit(c)
  PROVE  ChargeInv'
  <1> DEFINE r == handle[c].on
  <1>1. /\ BilledCents(c) \in Nat /\ BilledCents(c) <= Estimate
    BY BillWithinReservation DEF ChargeInv
  <1>2. /\ settling[c].cents \in Nat /\ settling[c].what \in Tasks
        /\ settling[c].what = "commit" => settling[c].cents <= Estimate
    BY DEF ChargeInv, RestTyped, TasksWithinReservation
  <1>3. \/ Lands(r) /\ Committed(r, BilledCents(c))
        \/ settling[c].what = "commit" /\ Lands(r) /\ Committed(r, settling[c].cents)
        \/ Released(r)
        \/ UNCHANGED money
    BY DEF SettleSuccess, RunSettlement, ExitRelease, ExitCommit
  <1>4. Released(r) => ChargesFairly
    BY DEF Released, ChargesFairly, CallInv, CallsTyped
  <1>5. ChargesFairly
    BY <1>1, <1>2, <1>3, <1>4 DEF ChargesFairly, money
  <1>6. /\ UNCHANGED <<setup, read>>
        /\ outcome' \in [Callers -> Outcomes]
    BY DEF SettleSuccess, RunSettlement, ExitRelease, ExitCommit, End, ChargeInv,
           RestTyped, Outcomes
  <1>7. UNCHANGED settling \/ settling' = [settling EXCEPT ![c].what = "done"]
    BY DEF SettleSuccess, RunSettlement, ExitRelease, ExitCommit, TaskDone
  <1>8. /\ settling' \in [Callers -> [what : Tasks, cents : Nat]]
        /\ \A d \in Callers : settling'[d].what = "commit" => settling'[d].cents <= Estimate
    BY <1>7 DEF ChargeInv, RestTyped, TasksWithinReservation, Tasks
  <1> QED
    BY <1>5, <1>6, <1>8, FairStep DEF ChargeInv, RestTyped

(* The steps that plan a settlement.                                       *)
LEMMA PlanningSteps ==
  ASSUME CallInv, ChargeInv, NEW c \in Callers,
         \/ SeeRejection(c) \/ LoseTouch(c) \/ FailOtherwise(c) \/ BlockRaises(c)
         \/ SettlementFails(c)
  PROVE  ChargeInv'
  <1>1. /\ Estimate \in Nat /\ BilledCents(c) \in Nat /\ BilledCents(c) <= Estimate
    BY BillWithinReservation DEF ChargeInv
  <1>2. \/ settling' = [settling EXCEPT ![c] = [what |-> "release", cents |-> 0]]
        \/ settling' = [settling EXCEPT ![c] = [what |-> "commit", cents |-> Estimate]]
        \/ settling' = [settling EXCEPT ![c] = [what |-> "commit", cents |-> BilledCents(c)]]
        \/ settling' = [settling EXCEPT ![c].what = "failed"]
    BY DEF SeeRejection, LoseTouch, FailOtherwise, BlockRaises, SettlementFails, Shield,
           TaskDone
  <1>3. /\ settling' \in [Callers -> [what : Tasks, cents : Nat]]
        /\ \A d \in Callers : settling'[d].what = "commit" => settling'[d].cents <= Estimate
    BY <1>1, <1>2 DEF ChargeInv, RestTyped, TasksWithinReservation, Tasks
  <1>4. /\ UNCHANGED <<setup, money, read>>
        /\ outcome' \in [Callers -> Outcomes]
    BY DEF SeeRejection, LoseTouch, FailOtherwise, BlockRaises, SettlementFails, Shield,
           ChargeInv, RestTyped, Outcomes
  <1>5. ChargesFairly
    BY <1>4 DEF ChargesFairly, money
  <1> QED
    BY <1>3, <1>4, <1>5, FairStep DEF ChargeInv, RestTyped

(* The other steps of a call leave its charge and its task alone.          *)
LEMMA OtherSteps ==
  ASSUME CallInv, ChargeInv, NEW c \in Callers,
         \/ Reserve(c) \/ Begin(c) \/ Answer(c) \/ Return(c) \/ Reraise(c) \/ Priced(c)
         \/ Event(c) \/ LeaveBlock(c) \/ ReserveFails(c) \/ SettleFails(c)
         \/ CancelledReturn(c) \/ BodyRaises(c) \/ Bill(c) \/ Reject(c) \/ Lapse(c)
  PROVE  ChargeInv'
  <1>1. UNCHANGED <<setup, charge, settling>>
    BY DEF Reserve, Begin, Answer, Return, Reraise, Priced, Event, LeaveBlock,
           ReserveFails, SettleFails, CancelledReturn, BodyRaises, Bill, Reject, Lapse, money
  <1>2. \A r \in Callers : phase'[r] \in {"committed", "committedLate"} =>
                            phase'[r] = phase[r]
    BY DEF Reserve, Begin, Answer, Return, Reraise, Priced, Event, LeaveBlock,
           ReserveFails, SettleFails, CancelledReturn, BodyRaises, Bill, Reject, Lapse,
           money, CallInv, CallsTyped
  <1>3. read' \in [Callers -> {"nothing", "start", "final"}]
    <2> USE DEF ChargeInv, RestTyped
    <2>1. CASE Answer(c)
      BY <2>1 DEF Answer, Reported
    <2>2. CASE Priced(c) \/ Event(c)
      BY <2>2 DEF Priced, Event
    <2> QED
      BY <2>1, <2>2 DEF Reserve, Begin, Return, Reraise, LeaveBlock, ReserveFails,
         SettleFails, CancelledReturn, BodyRaises, Bill, Reject, Lapse
  <1>4. outcome' \in [Callers -> Outcomes]
    <2> USE DEF ChargeInv, RestTyped, Outcomes, End
    <2>1. CASE Reserve(c) \/ Begin(c) \/ Answer(c) \/ Return(c) \/ Reraise(c) \/ Priced(c)
      BY <2>1 DEF Reserve, Begin, Answer, Return, Reraise, Priced
    <2>2. CASE \/ Event(c) \/ LeaveBlock(c) \/ ReserveFails(c) \/ SettleFails(c)
               \/ CancelledReturn(c) \/ BodyRaises(c)
      BY <2>2 DEF Event, LeaveBlock, ReserveFails, SettleFails, CancelledReturn, BodyRaises
    <2>3. CASE Bill(c) \/ Reject(c) \/ Lapse(c)
      BY <2>3 DEF Bill, Reject, Lapse
    <2> QED
      BY <2>1, <2>2, <2>3
  <1>5. ChargesFairly
    BY <1>1, <1>2 DEF ChargesFairly
  <1> QED
    BY <1>1, <1>3, <1>4, <1>5, FairStep DEF ChargeInv, RestTyped, TasksWithinReservation

(* A crash plans nothing.                                                  *)
LEMMA CrashCharges ==
  ASSUME CallInv, ChargeInv, Crash
  PROVE  ChargeInv'
  <1>1. UNCHANGED <<setup, money, read>>
    BY DEF Crash
  <1>2. /\ settling' \in [Callers -> [what : Tasks, cents : Nat]]
        /\ \A d \in Callers : settling'[d].what = "commit" => settling'[d].cents <= Estimate
    BY DEF Crash, ChargeInv, RestTyped, TasksWithinReservation, Tasks
  <1>3. outcome' \in [Callers -> Outcomes]
    BY DEF Crash, ChargeInv, RestTyped, Outcomes
  <1>4. ChargesFairly
    BY <1>1 DEF ChargesFairly, money
  <1> QED
    BY <1>1, <1>2, <1>3, <1>4, FairStep DEF ChargeInv, RestTyped

LEMMA ChargeStep ==
  ASSUME CallInv, ChargeInv, [GuardNext]_guardVars
  PROVE  ChargeInv'
  <1>1. CASE UNCHANGED guardVars
    <2>1. ChargesFairly
      BY <1>1 DEF ChargesFairly, guardVars, money
    <2> QED
      BY <1>1, <2>1, FairStep DEF guardVars, ChargeInv, RestTyped, TasksWithinReservation
  <1>2. CASE Crash
    BY <1>2, CrashCharges
  <1>3. ASSUME NEW c \in Callers,
               \/ Run(c) \/ RunSettlement(c) \/ Event(c) \/ LeaveBlock(c) \/ Fail(c)
               \/ Bill(c) \/ Reject(c) \/ Lapse(c)
        PROVE  ChargeInv'
    BY <1>3, ChargingSteps, PlanningSteps, OtherSteps DEF Run, Fail
  <1> QED
    BY <1>1, <1>2, <1>3 DEF GuardNext

(* The invariant of the calls and of what they are charged.                *)
THEOREM ChargeSpecInvariant == GuardSpec => [](CallInv /\ ChargeInv)
  <1>1. CallInv /\ ChargeInv /\ [GuardNext]_guardVars => ChargeInv'
    BY ChargeStep
  <1> QED
    BY <1>1, ChargeInitInvariant, GuardSpecInvariant, PTL DEF GuardSpec

(* Types, for every set of callers, book, order and job.                   *)
THEOREM GuardTypes == GuardSpec => []GuardTypeOK
  <1>1. CallInv /\ ChargeInv => GuardTypeOK
    BY DEF CallInv, CallsTyped, ChargeInv, RestTyped, GuardTypeOK, Phase, Places,
           Handle, Tasks, Outcomes
  <1> QED
    BY <1>1, ChargeSpecInvariant, PTL

(* Whichever way a call ends, it is charged at most what was reserved for  *)
(* it, at every price and for every usage the provider may bill.           *)
THEOREM ChargesWithinReservations == GuardSpec => []ChargeWithinReservation
  <1>1. ChargeInv => ChargeWithinReservation
    BY DEF ChargeInv
  <1> QED
    BY <1>1, ChargeSpecInvariant, PTL

--------------------------------------------------------------------------------
(* What is billed is charged. The books of providers whose tiers price     *)
(* cache writes price them in the base entry as well.                      *)
BooksPriceWrites ==
  /\ \A m \in DOMAIN DefaultBook : WritesInBase(DefaultBook[m])
  /\ \A rows \in Overrides : \A m \in DOMAIN rows : WritesInBase(ParseEntry(rows[m]))

ProviderCents == ProviderBill(entry, order.usage)

Covered(c) == Charged(handle[c].on) /\ charge[handle[c].on] >= ProviderCents

(* The reservation of c is still to be settled, by c.                      *)
Unsettled(c) ==
  pc[c] \in {"reserved", "call", "block", "settle"} \/ settling[c].what = "commit"

(* Which places go with which handles, requests, settlements and outcomes. *)
Course(c) ==
  /\ pc[c] = "reserve" => handle[c] = NotHeld
  /\ handle[c].created => handle[c].state = "reserved"
  /\ handle[c].state # "none" => handle[c].on # None
  /\ pc[c] \in {"call", "block", "observe", "settle", "settled", "cleanup"} => wire[c] # "none"
  /\ pc[c] = "block" => c \in Guarded
  /\ settling[c].what # "none" => /\ c \in Guarded
                                  /\ pc[c] \in {"cleanup", "done"}
                                  /\ wire[c] # "none"
  /\ pc[c] = "cleanup" => settling[c].what # "none" /\ outcome[c] \in {"none", "other"}
  /\ pc[c] \notin {"cleanup", "done"} => outcome[c] = "none"

(* What has become of the bill of c, by where its call has got.            *)
Fate(c) ==
  /\ settling[c].what = "commit" => settling[c].cents >= ProviderCents
  /\ settling[c].what = "release" => wire[c] = "rejected" \/ outcome[c] = "other"
  /\ settling[c].what = "done" =>
       wire[c] = "rejected" \/ outcome[c] = "other" \/ Covered(c) \/ ~Alone(c)
  /\ pc[c] = "settled" => Covered(c)
  /\ outcome[c] = "answered" /\ handle[c].created => Covered(c)
  /\ outcome[c] = "raised" /\ c \in Guarded =>
       wire[c] = "none" \/ settling[c].what # "none" \/ Covered(c)

(* A guard whose reservation nobody else uses finds it unsettled.          *)
OwnUnsettled(c) ==
  c \in Guarded /\ handle[c].created /\ Alone(c) /\ Unsettled(c)
    => phase[c] \in {"reserved", "lapsed"}

CourseInv == \A c \in Callers : Course(c)
BillInv ==
  /\ TiersDiffer(entry) /\ WritesInBase(entry)
  /\ CourseInv
  /\ \A c \in Callers : Fate(c) /\ OwnUnsettled(c)

(* What a call may commit covers its bill.                                 *)
LEMMA CommitsCoverBill ==
  ASSUME OrderInv, BillInv, NEW c
  PROVE  /\ ProviderCents \in Nat
         /\ Estimate \in Nat /\ Estimate >= ProviderCents
         /\ BilledCents(c) \in Nat /\ BilledCents(c) >= ProviderCents
  BY SettledCoversBill, EstimateCoversBill, SettledWithinEstimate
     DEF OrderInv, BillInv, Estimate, BilledCents, ProviderCents

LEMMA BillInit ==
  ASSUME BooksPriceWrites, GuardInit
  PROVE  BillInv
  <1>1. PICK rows \in Overrides :
          /\ Loads(rows) /\ book = WithBackend(DefaultBook, rows)
    BY DEF GuardInit
  <1>2. order.model \in DOMAIN book
    BY DEF GuardInit
  <1> DEFINE m == order.model
  <1>3. ASSUME m \in DOMAIN rows PROVE TiersDiffer(entry) /\ WritesInBase(entry)
    <2>1. entry = ParseEntry(rows[m])
      BY <1>1, <1>2, <1>3 DEF entry, WithBackend, OverriddenBy
    <2>2. AcceptedTiers(rows[m].tiers)
      BY <1>1, <1>3 DEF Loads
    <2>3. TiersDiffer(ParseEntry(rows[m]))
      <3> DEFINE raw == rows[m].tiers
      <3>1. ParseEntry(rows[m]).tiers = {raw[i] : i \in DOMAIN raw}
        BY DEF ParseEntry
      <3>2. \A i, j \in DOMAIN raw : raw[i].above = raw[j].above => i = j
        BY <2>2 DEF AcceptedTiers
      <3> HIDE DEF raw
      <3> QED
        BY <3>1, <3>2 DEF TiersDiffer
    <2>4. WritesInBase(ParseEntry(rows[m]))
      BY <1>3 DEF BooksPriceWrites
    <2>5. TiersDiffer(entry) /\ WritesInBase(entry)
      BY <2>1, <2>3, <2>4
    <2> QED
      BY <2>5
  <1>4. ASSUME m \notin DOMAIN rows PROVE TiersDiffer(entry) /\ WritesInBase(entry)
    <2>1. m \in DOMAIN DefaultBook /\ entry = DefaultBook[m]
      BY <1>1, <1>2, <1>4 DEF entry, WithBackend, OverriddenBy
    <2> QED
      BY <2>1, GuardAssumption DEF BooksPriceWrites
  <1>5. ASSUME NEW c \in Callers PROVE Course(c) /\ Fate(c) /\ OwnUnsettled(c)
    BY DEF GuardInit, Course, Fate, OwnUnsettled, Unsettled, NotHeld, NoTask
  <1> QED
    BY <1>3, <1>4, <1>5 DEF BillInv, CourseInv

LEMMA SetupStays ==
  ASSUME UNCHANGED setup
  PROVE  /\ entry' = entry /\ Guarded' = Guarded
         /\ Estimate' = Estimate /\ ProviderCents' = ProviderCents
  BY DEF setup, entry, Guarded, Estimate, ProviderCents

(* What a step leaves alone: the call of c, and every charge made.         *)
Same(c) ==
  /\ pc'[c] = pc[c] /\ handle'[c] = handle[c] /\ wire'[c] = wire[c]
  /\ settling'[c] = settling[c] /\ outcome'[c] = outcome[c]

PaidStay == \A r \in Callers : Charged(r) => Charged(r)' /\ charge'[r] = charge[r]

LEMMA CoverStays ==
  ASSUME CallInv, UNCHANGED setup, PaidStay, NEW c \in Callers,
         handle'[c] = handle[c], Covered(c)
  PROVE  Covered(c)'
  <1>1. handle[c].on \in Callers
    BY DEF Covered, Charged, CallInv, CallsTyped, Handle
  <1> QED
    BY <1>1, SetupStays DEF PaidStay, Covered, Charged

(* A step of another caller keeps what is known of c, as long as it leaves *)
(* the reservation of c alone.                                             *)
LEMMA OthersKeep ==
  ASSUME CallInv, UNCHANGED setup, PaidStay, NEW c \in Callers, Same(c),
         Course(c), Fate(c), OwnUnsettled(c),
         handle[c].created /\ Alone(c)' => Alone(c),
         c \in Guarded /\ handle[c].created /\ Alone(c) /\ phase[c] \in {"reserved", "lapsed"}
           => phase'[c] \in {"reserved", "lapsed"}
  PROVE  Course(c)' /\ Fate(c)' /\ OwnUnsettled(c)'
  <1>1. Guarded' = Guarded /\ ProviderCents' = ProviderCents
    BY SetupStays
  <1>2. Course(c)'
    BY <1>1 DEF Same, Course, NotHeld
  <1>3. Covered(c) => Covered(c)'
    BY CoverStays DEF Same
  <1>4. settling[c].what # "none" => handle[c].created
    BY DEF Course, CallInv, SentOnOwn
  <1>5. Fate(c)'
    BY <1>1, <1>3, <1>4 DEF Same, Fate
  <1>6. OwnUnsettled(c)'
    BY <1>1 DEF Same, OwnUnsettled, Unsettled
  <1> QED
    BY <1>2, <1>5, <1>6

(* A step of d alone that touches no reservation and no handle.            *)
LEMMA QuietKeeps ==
  ASSUME CallInv, BillInv, NEW d \in Callers,
         UNCHANGED <<setup, money, handle>>,
         \A c \in Callers \ {d} : Same(c),
         Course(d)', Fate(d)', OwnUnsettled(d)'
  PROVE  BillInv'
  <1>1. PaidStay
    BY DEF PaidStay, Charged, money
  <1>2. ASSUME NEW c \in Callers, c # d
        PROVE  Course(c)' /\ Fate(c)' /\ OwnUnsettled(c)'
    <2>1. Alone(c)' => Alone(c)
      BY SetupStays DEF Alone
    <2>2. phase'[c] = phase[c]
      BY DEF money
    <2> QED
      BY <1>1, <1>2, <2>1, <2>2, OthersKeep DEF BillInv, CourseInv
  <1> QED
    BY <1>2, SetupStays DEF BillInv, CourseInv

(* What d itself knows after such a step, by where it was and is.          *)
LEMMA QuietFacts ==
  ASSUME CallInv, UNCHANGED <<setup, money, handle>>, NEW d \in Callers
  PROVE  /\ Guarded' = Guarded /\ ProviderCents' = ProviderCents
         /\ Covered(d) => Covered(d)'
         /\ Alone(d)' => Alone(d)
         /\ handle'[d] = handle[d] /\ phase'[d] = phase[d]
  <1>1. PaidStay
    BY DEF PaidStay, Charged, money
  <1>2. Alone(d)' => Alone(d)
    BY SetupStays DEF Alone
  <1> QED
    BY <1>1, <1>2, CoverStays, SetupStays DEF money

(* The steps that only move a call on, plan its settlement or end it.      *)
QuietStep(d) ==
  \/ ReserveFails(d) \/ Begin(d) \/ Bill(d) \/ Reject(d) \/ Answer(d) \/ Event(d)
  \/ LeaveBlock(d) \/ SeeRejection(d) \/ LoseTouch(d) \/ FailOtherwise(d)
  \/ BlockRaises(d) \/ SettleFails(d) \/ Return(d) \/ CancelledReturn(d)
  \/ SettlementFails(d) \/ Reraise(d) \/ BodyRaises(d) \/ Priced(d)

LEMMA QuietBills ==
  ASSUME CallInv, ChargeInv, BillInv, NEW d \in Callers, QuietStep(d)
  PROVE  BillInv'
  <1>1. /\ pc \in [Callers -> Places] /\ wire \in [Callers -> {"none", "sent", "billed", "rejected"}]
        /\ settling \in [Callers -> [what : Tasks, cents : Nat]]
        /\ outcome \in [Callers -> Outcomes]
    BY DEF CallInv, CallsTyped, ChargeInv, RestTyped
  <1>2. UNCHANGED <<setup, money, handle>> /\ \A c \in Callers \ {d} : Same(c)
    <2> USE <1>1 DEF Same, Goto, End, Shield, TaskDone
    <2>1. CASE ReserveFails(d)
      BY <2>1 DEF ReserveFails
    <2>2. CASE Begin(d)
      BY <2>2 DEF Begin
    <2>3. CASE Bill(d)
      BY <2>3 DEF Bill
    <2>4. CASE Reject(d)
      BY <2>4 DEF Reject
    <2>5. CASE Answer(d)
      BY <2>5 DEF Answer
    <2>6. CASE Event(d)
      BY <2>6 DEF Event
    <2>7. CASE LeaveBlock(d)
      BY <2>7 DEF LeaveBlock
    <2>8. CASE SeeRejection(d)
      BY <2>8 DEF SeeRejection
    <2>9. CASE LoseTouch(d)
      BY <2>9 DEF LoseTouch
    <2>10. CASE FailOtherwise(d)
      BY <2>10 DEF FailOtherwise
    <2>11. CASE BlockRaises(d)
      BY <2>11 DEF BlockRaises
    <2>12. CASE SettleFails(d)
      BY <2>12 DEF SettleFails
    <2>13. CASE Return(d)
      BY <2>13 DEF Return
    <2>14. CASE CancelledReturn(d)
      BY <2>14 DEF CancelledReturn
    <2>15. CASE SettlementFails(d)
      BY <2>15 DEF SettlementFails
    <2>16. CASE Reraise(d)
      BY <2>16 DEF Reraise
    <2>17. CASE BodyRaises(d)
      BY <2>17 DEF BodyRaises
    <2>18. CASE Priced(d)
      BY <2>18 DEF Priced
    <2> QED
      BY <2>1, <2>2, <2>3, <2>4, <2>5, <2>6, <2>7, <2>8, <2>9, <2>10, <2>11, <2>12, <2>13, <2>14, <2>15, <2>16, <2>17, <2>18 DEF QuietStep
  <1>3. /\ Guarded' = Guarded /\ ProviderCents' = ProviderCents
        /\ Covered(d) => Covered(d)'
        /\ Alone(d)' => Alone(d)
        /\ handle'[d] = handle[d] /\ phase'[d] = phase[d]
    BY <1>2, QuietFacts
  <1>4. Course(d) /\ Fate(d) /\ OwnUnsettled(d)
    BY DEF BillInv, CourseInv
  <1>5. /\ Estimate \in Nat /\ Estimate >= ProviderCents
        /\ BilledCents(d) \in Nat /\ BilledCents(d) >= ProviderCents
    BY CommitsCoverBill DEF ChargeInv
  <1>6. Course(d)' /\ Fate(d)' /\ OwnUnsettled(d)'
    <2> USE <1>1, <1>3, <1>4, <1>5 DEF Goto, End, Shield, TaskDone, At, Course, Fate, OwnUnsettled, Unsettled, NotHeld
    <2>1. CASE ReserveFails(d)
      <3>1. pc[d] \in {"reserve", "reserved"} /\ wire[d] = "none"
        BY <2>1 DEF ReserveFails, CallInv, SentByBegin
      <3>2. settling[d].what = "none"
        BY <3>1
      <3>3. pc'[d] = "done" /\ outcome'[d] = "raised" /\ wire' = wire /\ settling' = settling
        BY <2>1 DEF ReserveFails
      <3> QED
        BY <3>1, <3>2, <3>3
    <2>2. CASE Begin(d)
      <3>1. CASE d \in Guarded /\ ~handle[d].created
        BY <2>2, <3>1 DEF Begin
      <3>2. CASE ~(d \in Guarded /\ ~handle[d].created)
        BY <2>2, <3>2 DEF Begin
      <3> QED
        BY <3>1, <3>2
    <2>3. CASE Bill(d)
      BY <2>3 DEF Bill
    <2>4. CASE Reject(d)
      BY <2>4 DEF Reject
    <2>5. CASE Answer(d)
      <3>1. /\ pc[d] = "call"
            /\ \/ pc' = [pc EXCEPT ![d] = "settle"]
               \/ pc' = [pc EXCEPT ![d] = "block"] /\ d \in Guarded
               \/ pc' = [pc EXCEPT ![d] = "observe"]
            /\ UNCHANGED <<wire, settling, outcome>>
        BY <2>5 DEF Answer, Guarded
      <3> QED
        BY <3>1
    <2>6. CASE Event(d)
      BY <2>6 DEF Event
    <2>7. CASE LeaveBlock(d)
      BY <2>7 DEF LeaveBlock
    <2>8. CASE SeeRejection(d)
      BY <2>8 DEF SeeRejection
    <2>9. CASE LoseTouch(d)
      BY <2>9 DEF LoseTouch
    <2>10. CASE FailOtherwise(d)
      BY <2>10 DEF FailOtherwise
    <2>11. CASE BlockRaises(d)
      BY <2>11 DEF BlockRaises
    <2>12. CASE SettleFails(d)
      BY <2>12 DEF SettleFails
    <2>13. CASE Return(d)
      BY <2>13 DEF Return
    <2>14. CASE CancelledReturn(d)
      BY <2>14 DEF CancelledReturn
    <2>15. CASE SettlementFails(d)
      BY <2>15 DEF SettlementFails
    <2>16. CASE Reraise(d)
      BY <2>16 DEF Reraise
    <2>17. CASE BodyRaises(d)
      BY <2>17 DEF BodyRaises
    <2>18. CASE Priced(d)
      BY <2>18 DEF Priced
    <2> QED
      BY <2>1, <2>2, <2>3, <2>4, <2>5, <2>6, <2>7, <2>8, <2>9, <2>10, <2>11, <2>12, <2>13, <2>14, <2>15, <2>16, <2>17, <2>18 DEF QuietStep
  <1> QED
    BY <1>2, <1>6, QuietKeeps

(* A reservation is nobody else's when it is made.                         *)
LEMMA ReserveBills ==
  ASSUME CallInv, ChargeInv, BillInv, NEW d \in Callers, Reserve(d)
  PROVE  BillInv'
  <1>1. /\ UNCHANGED <<setup, charge, wire, settling, outcome>>
        /\ pc' = [pc EXCEPT ![d] = "reserved"]
        /\ pc[d] = "reserve" /\ phase[d] = "none" /\ wire[d] = "none"
        /\ handle[d] = NotHeld /\ settling[d].what = "none" /\ outcome[d] = "none"
    <2>1. pc[d] = "reserve"
      BY DEF Reserve, At
    <2>2. Course(d)
      BY DEF BillInv, CourseInv
    <2> QED
      BY <2>1, <2>2 DEF Reserve, Goto, CallInv, NothingYet, SentByBegin, Course
  <1>2. PICK h : /\ handle' = [handle EXCEPT ![d] = h]
                 /\ h.on # None
                 /\ h.created => h.state = "reserved" /\ phase'[d] = "reserved"
    <2>1. CASE ReservedFor(job[d].request) = {}
      <3>1. phase' = [phase EXCEPT ![d] = "reserved"]
        BY <2>1 DEF Reserve
      <3>2. phase'[d] = "reserved"
        BY <3>1 DEF CallInv, CallsTyped
      <3> DEFINE own == [on |-> d, created |-> TRUE, state |-> "reserved"]
      <3>3. handle' = [handle EXCEPT ![d] = own]
        BY <2>1 DEF Reserve
      <3>4. own.on # None /\ own.state = "reserved"
        BY GuardAssumption
      <3> QED
        BY <3>2, <3>3, <3>4
    <2>2. ASSUME NEW r \in ReservedFor(job[d].request),
                 handle' = [handle EXCEPT ![d] =
                              [on |-> r, created |-> FALSE, state |-> RowState(r)]]
          PROVE  \E h : /\ handle' = [handle EXCEPT ![d] = h]
                        /\ h.on # None
                        /\ h.created => h.state = "reserved" /\ phase'[d] = "reserved"
      <3> DEFINE found == [on |-> r, created |-> FALSE, state |-> RowState(r)]
      <3>1. found.on # None /\ ~found.created
        BY GuardAssumption DEF ReservedFor
      <3> QED
        BY <2>2, <3>1
    <2> QED
      BY <2>1, <2>2 DEF Reserve
  <1>3. phase' = [phase EXCEPT ![d] = "reserved"] \/ UNCHANGED phase
    BY DEF Reserve
  <1>4. PaidStay
    BY <1>1, <1>3 DEF PaidStay, Charged, CallInv, CallsTyped
  <1>5. \A c \in Callers \ {d} : Same(c) /\ phase'[c] = phase[c]
    BY <1>1, <1>2, <1>3 DEF Same, CallInv, CallsTyped
  <1>6. ASSUME NEW c \in Callers, c # d
        PROVE  Course(c)' /\ Fate(c)' /\ OwnUnsettled(c)'
    <2>1. handle[c].created /\ Alone(c)' => Alone(c)
      <3> SUFFICES ASSUME handle[c].created, Alone(c)',
                          NEW e \in Callers \ (Guarded \cup {c})
                   PROVE  handle[e].on # handle[c].on
        BY DEF Alone
      <3>1. handle[c].on = c /\ handle'[c] = handle[c]
        BY <1>5, <1>6 DEF CallInv, CreatedIsOwn, Same
      <3>2. CASE e = d
        BY <3>1, <3>2, <1>1, GuardAssumption DEF NotHeld
      <3>3. CASE e # d
        <4>1. handle'[e] = handle[e]
          BY <1>5, <3>3 DEF Same
        <4>2. e \in (Callers \ (Guarded \cup {c}))'
          BY <1>1, SetupStays
        <4> QED
          BY <3>1, <4>1, <4>2 DEF Alone
      <3> QED
        BY <3>2, <3>3
    <2> QED
      BY <1>1, <1>4, <1>5, <1>6, <2>1, OthersKeep DEF BillInv, CourseInv
  <1>7. Course(d)' /\ Fate(d)' /\ OwnUnsettled(d)'
    <2>1. /\ pc'[d] = "reserved" /\ handle'[d] = h /\ wire'[d] = "none"
          /\ settling'[d].what = "none" /\ outcome'[d] = "none"
      BY <1>1, <1>2 DEF CallInv, CallsTyped
    <2>2. h.on = d /\ h.created => phase'[d] = "reserved"
      BY <1>2
    <2>3. Course(d)' /\ Fate(d)'
      BY <1>2, <2>1 DEF Course, Fate
    <2>4. OwnUnsettled(d)'
      BY <1>2, <2>1 DEF OwnUnsettled
    <2> QED
      BY <2>3, <2>4
  <1> QED
    BY <1>1, <1>6, <1>7, SetupStays DEF BillInv, CourseInv

(* A reservation that lapsed can still be charged.                         *)
LEMMA LapseBills ==
  ASSUME CallInv, BillInv, NEW d \in Callers, Lapse(d)
  PROVE  BillInv'
  <1>1. /\ UNCHANGED <<setup, charge, pc, handle, wire, settling, outcome>>
        /\ phase[d] = "reserved" /\ phase' = [phase EXCEPT ![d] = "lapsed"]
    BY DEF Lapse
  <1>2. PaidStay
    BY <1>1 DEF PaidStay, Charged, CallInv, CallsTyped
  <1>3. ASSUME NEW c \in Callers
        PROVE  Course(c)' /\ Fate(c)' /\ OwnUnsettled(c)'
    <2>1. Same(c)
      BY <1>1 DEF Same
    <2>2. Alone(c)' => Alone(c)
      BY <1>1, SetupStays DEF Alone
    <2>3. phase[c] \in {"reserved", "lapsed"} => phase'[c] \in {"reserved", "lapsed"}
      BY <1>1 DEF CallInv, CallsTyped
    <2> QED
      BY <1>1, <1>2, <2>1, <2>2, <2>3, OthersKeep DEF BillInv, CourseInv
  <1> QED
    BY <1>1, <1>3, SetupStays DEF BillInv, CourseInv

(* The dead settle nothing any more.                                       *)
LEMMA CrashBills ==
  ASSUME CallInv, BillInv, Crash
  PROVE  BillInv'
  <1>1. UNCHANGED <<setup, money, handle, wire>>
    BY DEF Crash
  <1>2. ASSUME NEW c \in Callers
        PROVE  Course(c)' /\ Fate(c)' /\ OwnUnsettled(c)'
    <2>1. /\ Guarded' = Guarded /\ ProviderCents' = ProviderCents
          /\ Covered(c) => Covered(c)'
          /\ Alone(c)' => Alone(c)
          /\ handle'[c] = handle[c] /\ phase'[c] = phase[c]
      BY <1>1, QuietFacts
    <2>2. Course(c) /\ Fate(c)
      BY DEF BillInv, CourseInv
    <2>3. /\ pc'[c] = "done"
          /\ outcome'[c] = IF outcome[c] = "none" THEN "dead" ELSE outcome[c]
          /\ settling'[c].what = IF settling[c].what \in {"commit", "release"}
                                 THEN "failed" ELSE settling[c].what
      BY DEF Crash
    <2>4. wire'[c] = wire[c]
      BY <1>1
    <2>5. Course(c)'
      BY <2>1, <2>2, <2>3, <2>4 DEF Course, NotHeld
    <2>6. Fate(c)'
      BY <2>1, <2>2, <2>3, <2>4 DEF Fate
    <2>7. OwnUnsettled(c)'
      BY <2>3 DEF OwnUnsettled, Unsettled
    <2> QED
      BY <2>5, <2>6, <2>7
  <1> QED
    BY <1>1, <1>2, SetupStays DEF BillInv, CourseInv

(* A settlement touches one reservation, which nobody else counts on: that *)
(* of a guard is its own, and a decorated caller's is shared with it.      *)
LEMMA SettlementKeeps ==
  ASSUME CallInv, BillInv, NEW d \in Callers, UNCHANGED <<setup, handle>>, PaidStay,
         \A q \in Callers \ {handle[d].on} : phase'[q] = phase[q],
         d \in Guarded => handle[d].created,
         \A c \in Callers \ {d} : Same(c),
         Course(d)', Fate(d)', OwnUnsettled(d)'
  PROVE  BillInv'
  <1>1. ASSUME NEW c \in Callers, c # d
        PROVE  Course(c)' /\ Fate(c)' /\ OwnUnsettled(c)'
    <2>1. Alone(c)' => Alone(c)
      BY SetupStays DEF Alone
    <2>2. handle[c].created /\ Alone(c) => handle[d].on # c
      BY <1>1 DEF Alone, CallInv, CreatedIsOwn
    <2>3. handle[c].created /\ Alone(c) => phase'[c] = phase[c]
      BY <2>2
    <2> QED
      BY <1>1, <2>1, <2>3, OthersKeep DEF BillInv, CourseInv
  <1> QED
    BY <1>1, SetupStays DEF BillInv, CourseInv

(* What a commit that lands does.                                          *)
LEMMA LandingPays ==
  ASSUME CallInv, ChargeInv, UNCHANGED <<setup, handle>>, NEW d \in Callers,
         NEW cents, cents >= ProviderCents,
         handle[d].on \in Callers, Lands(handle[d].on), Committed(handle[d].on, cents)
  PROVE  /\ PaidStay
         /\ \A q \in Callers \ {handle[d].on} : phase'[q] = phase[q]
         /\ Covered(d)'
  <1> DEFINE r == handle[d].on
  <1>1. /\ \A q \in Callers \ {r} : phase'[q] = phase[q] /\ charge'[q] = charge[q]
        /\ phase'[r] \in {"committed", "committedLate"} /\ charge'[r] = cents
    BY DEF Committed, Lands, CallInv, CallsTyped, ChargeInv, RestTyped
  <1>2. ~Charged(r)
    BY DEF Lands, Charged
  <1>3. PaidStay
    BY <1>1, <1>2 DEF PaidStay, Charged
  <1>4. Covered(d)'
    BY <1>1, SetupStays, GuardAssumption DEF Covered, Charged
  <1> QED
    BY <1>1, <1>3, <1>4

(* A release takes back no charge.                                         *)
LEMMA ReleasePays ==
  ASSUME CallInv, NEW r, Released(r)
  PROVE  PaidStay /\ \A q \in Callers \ {r} : phase'[q] = phase[q]
  BY DEF PaidStay, Charged, Released, CallInv, CallsTyped

LEMMA SettleSuccessBills ==
  ASSUME CallInv, ChargeInv, BillInv, NEW d \in Callers, SettleSuccess(d)
  PROVE  BillInv'
  <1>1. Course(d)
    BY DEF BillInv, CourseInv
  <1>2. /\ UNCHANGED <<setup, handle, wire, read, settling>>
        /\ d \in Guarded /\ pc[d] = "settle"
        /\ handle[d].created /\ handle[d].on = d
        /\ settling[d].what = "none" /\ outcome[d] = "none" /\ wire[d] # "none"
    BY <1>1 DEF SettleSuccess, At, Course, CallInv, SentOnOwn, CreatedIsOwn
  <1>3. Guarded' = Guarded /\ handle'[d] = handle[d]
    BY <1>2, SetupStays
  <1>4. CASE Lands(d)
    <2>1. /\ Committed(d, BilledCents(d)) /\ pc' = [pc EXCEPT ![d] = "settled"]
          /\ UNCHANGED outcome
      BY <1>2, <1>4 DEF SettleSuccess, Goto
    <2>2. BilledCents(d) >= ProviderCents
      BY CommitsCoverBill DEF ChargeInv
    <2>3. /\ PaidStay /\ \A q \in Callers \ {handle[d].on} : phase'[q] = phase[q]
          /\ Covered(d)'
      BY <1>2, <1>4, <2>1, <2>2, LandingPays
    <2>4. \A c \in Callers \ {d} : Same(c)
      BY <1>2, <2>1 DEF Same, CallInv, CallsTyped
    <2>5. pc'[d] = "settled"
      BY <2>1 DEF CallInv, CallsTyped
    <2>6. Course(d)' /\ Fate(d)' /\ OwnUnsettled(d)'
      BY <1>1, <1>2, <1>3, <2>1, <2>3, <2>5 DEF Course, Fate, OwnUnsettled, Unsettled
    <2> QED
      BY <1>2, <2>3, <2>4, <2>6, SettlementKeeps
  <1>5. CASE ~Lands(d)
    <2>1. /\ UNCHANGED money /\ pc' = [pc EXCEPT ![d] = "done"]
          /\ outcome' = [outcome EXCEPT ![d] = "unsettled"]
      BY <1>2, <1>5 DEF SettleSuccess, End, Goto
    <2>2. \A c \in Callers \ {d} : Same(c)
      BY <1>2, <2>1 DEF Same, CallInv, CallsTyped, ChargeInv, RestTyped
    <2>3. pc'[d] = "done" /\ outcome'[d] = "unsettled"
      BY <2>1 DEF CallInv, CallsTyped, ChargeInv, RestTyped
    <2>4. Course(d)' /\ Fate(d)' /\ OwnUnsettled(d)'
      BY <1>1, <1>2, <1>3, <2>3 DEF Course, Fate, OwnUnsettled, Unsettled
    <2> QED
      BY <1>2, <2>1, <2>2, <2>4, QuietKeeps
  <1> QED
    BY <1>4, <1>5

LEMMA RunSettlementBills ==
  ASSUME CallInv, ChargeInv, BillInv, NEW d \in Callers, RunSettlement(d)
  PROVE  BillInv'
  <1>1. Course(d) /\ Fate(d) /\ OwnUnsettled(d)
    BY DEF BillInv, CourseInv
  <1>2. /\ UNCHANGED <<setup, pc, handle, wire, read, outcome>>
        /\ settling[d].what \in {"commit", "release"}
        /\ settling' = [settling EXCEPT ![d].what = "done"]
        /\ d \in Guarded /\ handle[d].created /\ handle[d].on = d
        /\ pc[d] \in {"cleanup", "done"} /\ wire[d] # "none"
    BY <1>1 DEF RunSettlement, TaskDone, Course, CallInv, SentOnOwn, CreatedIsOwn
  <1>3. Guarded' = Guarded /\ handle'[d] = handle[d]
    BY <1>2, SetupStays
  <1>4. settling'[d].what = "done" /\ \A c \in Callers \ {d} : Same(c)
    BY <1>2 DEF Same, ChargeInv, RestTyped
  <1>5. /\ PaidStay /\ \A q \in Callers \ {handle[d].on} : phase'[q] = phase[q]
        /\ wire[d] = "rejected" \/ outcome[d] = "other" \/ Covered(d)' \/ ~Alone(d)'
    <2>1. CASE settling[d].what = "release"
      <3>1. Released(d)
        BY <1>2, <2>1 DEF RunSettlement
      <3> QED
        BY <1>1, <1>2, <2>1, <3>1, ReleasePays DEF Fate
    <2>2. CASE settling[d].what = "commit" /\ Lands(d)
      <3>1. Committed(d, settling[d].cents)
        BY <1>2, <2>2 DEF RunSettlement
      <3>2. settling[d].cents >= ProviderCents
        BY <1>1, <2>2 DEF Fate
      <3> QED
        BY <1>2, <2>2, <3>1, <3>2, LandingPays
    <2>3. CASE settling[d].what = "commit" /\ ~Lands(d)
      <3>1. UNCHANGED money
        BY <1>2, <2>3 DEF RunSettlement
      <3>2. PaidStay /\ \A q \in Callers : phase'[q] = phase[q]
        BY <3>1 DEF PaidStay, Charged, money
      <3>3. ~Alone(d)
        BY <1>1, <1>2, <2>3 DEF OwnUnsettled, Unsettled, Lands
      <3>4. Alone(d)' => Alone(d)
        BY <1>2, SetupStays DEF Alone
      <3> QED
        BY <3>2, <3>3, <3>4
    <2> QED
      BY <1>2, <2>1, <2>2, <2>3
  <1>6. Covered(d) => Covered(d)'
    BY <1>2, <1>3, <1>5, CoverStays
  <1>7. Course(d)' /\ Fate(d)' /\ OwnUnsettled(d)'
    <2>1. pc'[d] = pc[d] /\ wire'[d] = wire[d] /\ outcome'[d] = outcome[d]
      BY <1>2
    <2>2. Course(d)'
      BY <1>1, <1>2, <1>3, <1>4, <2>1 DEF Course
    <2>3. Fate(d)'
      BY <1>1, <1>2, <1>3, <1>4, <1>5, <1>6, <2>1 DEF Fate
    <2>4. OwnUnsettled(d)'
      BY <1>2, <1>4, <2>1 DEF OwnUnsettled, Unsettled
    <2> QED
      BY <2>2, <2>3, <2>4
  <1> QED
    BY <1>2, <1>4, <1>5, <1>7, SettlementKeeps

(* The decorator settles as its handle says.                               *)
LEMMA ExitBills ==
  ASSUME CallInv, ChargeInv, BillInv, NEW d \in Callers, ExitRelease(d) \/ ExitCommit(d)
  PROVE  BillInv'
  <1> DEFINE r == handle[d].on
  <1>1. Course(d)
    BY DEF BillInv, CourseInv
  <1>2. /\ UNCHANGED <<setup, handle, wire, read, settling>>
        /\ d \notin Guarded /\ settling[d].what = "none"
        /\ pc[d] \in {"exit", "settle"} /\ outcome[d] = "none"
    BY <1>1 DEF ExitRelease, ExitCommit, At, Course
  <1>3. Guarded' = Guarded /\ handle'[d] = handle[d]
    BY <1>2, SetupStays
  <1>4. \/ /\ pc' = [pc EXCEPT ![d] = "settled"] /\ UNCHANGED outcome
           /\ pc[d] = "settle" /\ handle[d].state = "reserved"
           /\ Lands(r) /\ Committed(r, BilledCents(d))
        \/ /\ pc' = [pc EXCEPT ![d] = "done"]
           /\ outcome' = [outcome EXCEPT ![d] = "raised"]
           /\ Released(r) \/ UNCHANGED money
        \/ /\ pc' = [pc EXCEPT ![d] = "done"]
           /\ outcome' = [outcome EXCEPT ![d] = "answered"]
           /\ handle[d].state # "reserved" /\ UNCHANGED money
    BY DEF ExitRelease, ExitCommit, Goto, End, At
  <1>5. \A c \in Callers \ {d} : Same(c)
    BY <1>2, <1>4 DEF Same, CallInv, CallsTyped, ChargeInv, RestTyped
  <1>6. CASE /\ pc' = [pc EXCEPT ![d] = "settled"] /\ UNCHANGED outcome
             /\ pc[d] = "settle" /\ handle[d].state = "reserved"
             /\ Lands(r) /\ Committed(r, BilledCents(d))
    <2>1. r \in Callers
      BY <1>1, <1>6 DEF Course, CallInv, CallsTyped, Handle
    <2>2. BilledCents(d) >= ProviderCents
      BY CommitsCoverBill DEF ChargeInv
    <2>3. PaidStay /\ (\A q \in Callers \ {r} : phase'[q] = phase[q]) /\ Covered(d)'
      BY <1>2, <1>6, <2>1, <2>2, LandingPays
    <2>4. pc'[d] = "settled"
      BY <1>6 DEF CallInv, CallsTyped
    <2>5. Course(d)' /\ Fate(d)' /\ OwnUnsettled(d)'
      BY <1>1, <1>2, <1>3, <1>6, <2>3, <2>4 DEF Course, Fate, OwnUnsettled, Unsettled
    <2> QED
      BY <1>2, <1>5, <2>3, <2>5, SettlementKeeps
  <1>7. CASE /\ pc' = [pc EXCEPT ![d] = "done"]
             /\ outcome' = [outcome EXCEPT ![d] = "raised"]
             /\ Released(r) \/ UNCHANGED money
    <2>1. PaidStay /\ \A q \in Callers \ {r} : phase'[q] = phase[q]
      BY <1>7, ReleasePays DEF PaidStay, Charged, money
    <2>2. pc'[d] = "done" /\ outcome'[d] = "raised"
      BY <1>7 DEF CallInv, CallsTyped, ChargeInv, RestTyped
    <2>3. Course(d)' /\ Fate(d)' /\ OwnUnsettled(d)'
      BY <1>1, <1>2, <1>3, <2>2 DEF Course, Fate, OwnUnsettled, Unsettled
    <2> QED
      BY <1>2, <1>5, <2>1, <2>3, SettlementKeeps
  <1>8. CASE /\ pc' = [pc EXCEPT ![d] = "done"]
             /\ outcome' = [outcome EXCEPT ![d] = "answered"]
             /\ handle[d].state # "reserved" /\ UNCHANGED money
    <2>1. pc'[d] = "done" /\ outcome'[d] = "answered"
      BY <1>8 DEF CallInv, CallsTyped, ChargeInv, RestTyped
    <2>2. ~handle[d].created
      BY <1>1, <1>8 DEF Course
    <2>3. Course(d)' /\ Fate(d)' /\ OwnUnsettled(d)'
      BY <1>1, <1>2, <1>3, <2>1, <2>2 DEF Course, Fate, OwnUnsettled, Unsettled
    <2> QED
      BY <1>2, <1>5, <1>8, <2>3, QuietKeeps
  <1> QED
    BY <1>4, <1>6, <1>7, <1>8

LEMMA BillStep ==
  ASSUME CallInv, ChargeInv, BillInv, [GuardNext]_guardVars
  PROVE  BillInv'
  <1>1. CASE UNCHANGED guardVars
    <2>1. UNCHANGED <<setup, money, handle, pc, wire, settling, outcome>>
      BY <1>1 DEF guardVars
    <2>2. PaidStay
      BY <2>1 DEF PaidStay, Charged, money
    <2>3. ASSUME NEW c \in Callers
          PROVE  Course(c)' /\ Fate(c)' /\ OwnUnsettled(c)'
      <3>1. Same(c) /\ (Alone(c)' => Alone(c)) /\ phase'[c] = phase[c]
        BY <2>1, SetupStays DEF Same, Alone, money
      <3> QED
        BY <2>1, <2>2, <3>1, OthersKeep DEF BillInv, CourseInv
    <2> QED
      BY <2>1, <2>3, SetupStays DEF BillInv, CourseInv
  <1>2. CASE Crash
    BY <1>2, CrashBills
  <1>3. ASSUME NEW c \in Callers,
               \/ Run(c) \/ RunSettlement(c) \/ Event(c) \/ LeaveBlock(c) \/ Fail(c)
               \/ Bill(c) \/ Reject(c) \/ Lapse(c)
        PROVE  BillInv'
    <2>1. \/ Reserve(c) \/ Lapse(c) \/ SettleSuccess(c) \/ RunSettlement(c)
          \/ ExitRelease(c) \/ ExitCommit(c) \/ QuietStep(c)
      BY <1>3 DEF Run, Fail, QuietStep
    <2> QED
      BY <2>1, ReserveBills, LapseBills, SettleSuccessBills, RunSettlementBills,
         ExitBills, QuietBills
  <1> QED
    BY <1>1, <1>2, <1>3 DEF GuardNext

(* What is known of every call, its reservation and its bill.              *)
THEOREM BillSpecInvariant ==
  ASSUME BooksPriceWrites
  PROVE  GuardSpec => [](CallInv /\ ChargeInv /\ BillInv)
  <1>1. GuardInit => BillInv
    BY BillInit
  <1>2. CallInv /\ ChargeInv /\ BillInv /\ [GuardNext]_guardVars => BillInv'
    BY BillStep
  <1> QED
    BY <1>1, <1>2, ChargeSpecInvariant, PTL DEF GuardSpec

(* Whoever was billed for a call that ended, whichever way, has been       *)
(* charged at least the bill, unless a decorated caller used the same      *)
(* reservation or something failed that the code only logs.                *)
THEOREM BillsAreCharged ==
  ASSUME BooksPriceWrites
  PROVE  GuardSpec => []ChargeCoversBill
  <1>1. ASSUME ChargeInv, BillInv, NEW c \in Callers,
               wire[c] = "billed", Settled(c), Alone(c)
        PROVE  Covered(c)
    <2>1. Fate(c) /\ settling[c].what \in Tasks
      BY <1>1 DEF BillInv, ChargeInv, RestTyped
    <2>2. CASE outcome[c] = "answered" /\ handle[c].created
      BY <2>1, <2>2 DEF Fate
    <2>3. CASE /\ c \in Guarded /\ outcome[c] = "raised"
               /\ settling[c].what \notin {"commit", "failed"}
      BY <1>1, <2>1, <2>3 DEF Fate, Tasks
    <2> QED
      BY <1>1, <2>2, <2>3 DEF Settled
  <1>2. ChargeInv /\ BillInv => ChargeCoversBill
    BY <1>1 DEF ChargeCoversBill, Covered, ProviderCents
  <1> QED
    BY <1>2, BillSpecInvariant, PTL

================================================================================
