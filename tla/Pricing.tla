-------------------------------- MODULE Pricing --------------------------------
(***************************************************************************)
(* pricing.py and the pricing half of integrations/anthropic.py and        *)
(* integrations/openai.py: price books, what a call may cost at most, and  *)
(* what the usage of its response costs.                                   *)
(*                                                                         *)
(* A price is an amount per token; the division by a million, exact in     *)
(* Decimal, is left out. A usage, like a price, is a function of the kind  *)
(* of token.                                                               *)
(***************************************************************************)
EXTENDS Integers, Sequences

CONSTANTS
  NoRate,      \* None: the price entry has no rate for this kind of token
  Unpriceable  \* Pricing.cost raises ValueError

ASSUME PricingAssumption == NoRate \notin Nat /\ Unpriceable \notin Nat

TokenKinds == {"input", "output", "read", "write", "write1h"}
PromptKinds == TokenKinds \ {"output"}

Rates == {rates \in [TokenKinds -> Nat \cup {NoRate}] :
            rates["input"] # NoRate /\ rates["output"] # NoRate}
TierRates == [TokenKinds -> Nat \cup {NoRate}]
PriceTier == [above : Nat, rates : TierRates]

(* The tiers are kept sorted and their thresholds differ: they are a set.  *)
PriceEntry == [base : Rates, tiers : SUBSET PriceTier]
TiersDiffer(entry) == \A t, u \in entry.tiers : t.above = u.above => t = u

Usage == [TokenKinds -> Nat]

Maximum(a, b) == IF a >= b THEN a ELSE b

--------------------------------------------------------------------------------
(* Price books: model -> PriceEntry.                                       *)

(* _parse_tiers rejects a list that would silently drop a tier.            *)
AcceptedTiers(raw) ==
  /\ \A i \in DOMAIN raw : /\ raw[i].above > 0
                           /\ \E k \in TokenKinds : raw[i].rates[k] # NoRate
  /\ \A i, j \in DOMAIN raw : raw[i].above = raw[j].above => i = j

ParseEntry(row) == [base |-> row.base,
                    tiers |-> {row.tiers[i] : i \in DOMAIN row.tiers}]

OverriddenBy(book, other) ==
  [m \in DOMAIN book \cup DOMAIN other |->
     IF m \in DOMAIN other THEN other[m] ELSE book[m]]

(* The rows of snipz_pricing over the vendored book. One row that does not *)
(* parse makes the whole load raise.                                       *)
Loads(rows) == \A m \in DOMAIN rows : AcceptedTiers(rows[m].tiers)
WithBackend(defaults, rows) ==
  OverriddenBy(defaults, [m \in DOMAIN rows |-> ParseEntry(rows[m])])

--------------------------------------------------------------------------------
(* PriceEntry.rates_for and Pricing.cost.                                  *)

First(preferred, fallback) == IF preferred = NoRate THEN fallback ELSE preferred

(* The highest tier that the prompt is strictly above, or the base rates.  *)
RatesFor(entry, prompt) ==
  LET above == {t \in entry.tiers : prompt > t.above}
      tier == CHOOSE t \in above : \A u \in above : u.above <= t.above
  IN  IF above = {} THEN entry.base
      ELSE [k \in TokenKinds |-> First(tier.rates[k], entry.base[k])]

PromptTokens(usage) ==
  usage["input"] + usage["read"] + usage["write"] + usage["write1h"]

Charge(tokens, rate) == IF tokens = 0 THEN 0 ELSE tokens * rate

(* The cost at given rates, all of which are there.                        *)
CostAt(rates, usage) ==
  Charge(usage["input"], rates["input"]) + Charge(usage["output"], rates["output"])
  + Charge(usage["read"], rates["read"]) + Charge(usage["write"], rates["write"])
  + Charge(usage["write1h"], rates["write1h"])

Cost(entry, usage) ==
  LET rates == RatesFor(entry, PromptTokens(usage))
  IN  IF \E k \in TokenKinds : usage[k] # 0 /\ rates[k] = NoRate
      THEN Unpriceable
      ELSE CostAt(rates, usage)

--------------------------------------------------------------------------------
(* The requests, and what they may cost at most. "prompt" is counted by    *)
(* the provider before the request is sent.                                *)

Request == [provider : {"anthropic", "openai"}, prompt : Nat, max : Nat,
            ttl : {"none", "5m", "1h"}]

Only(kind, tokens, output) ==
  [k \in TokenKinds |-> IF k = kind THEN tokens
                        ELSE IF k = "output" THEN output ELSE 0]

(* What the prompt might be written to the cache as. OpenAI caches unasked.*)
CacheKind(req) ==
  CASE req.provider = "openai" -> "write"
    [] req.provider = "anthropic" /\ req.ttl = "5m" -> "write"
    [] req.provider = "anthropic" /\ req.ttl = "1h" -> "write1h"
    [] OTHER -> "input"

(* Mutant of EstimateCents: cache writes are forgotten.                    *)
EstimateUncached(entry, req) == Cost(entry, Only("input", req.prompt, req.max))

(* _estimate_cents: the dearer of a prompt that is all input and one that  *)
(* is all written to the cache; the latter is skipped without a rate.      *)
EstimateCents(entry, req) ==
  LET asInput == Cost(entry, Only("input", req.prompt, req.max))
      asWritten == Cost(entry, Only(CacheKind(req), req.prompt, req.max))
  IN  IF asWritten = Unpriceable THEN asInput ELSE Maximum(asInput, asWritten)

--------------------------------------------------------------------------------
(* What a response costs.                                                  *)

(* OpenAI's _usage_cents: without a rate in the base entry, cached tokens  *)
(* stay among the input tokens.                                            *)
Unsplit(entry, usage) ==
  LET free == {k \in {"read", "write"} : entry.base[k] = NoRate}
  IN  [k \in TokenKinds |->
         IF k \in free THEN 0
         ELSE IF k = "input"
              THEN usage["input"] + (IF "read" \in free THEN usage["read"] ELSE 0)
                                  + (IF "write" \in free THEN usage["write"] ELSE 0)
              ELSE usage[k]]

UsageCents(entry, req, usage) ==
  Cost(entry, IF req.provider = "openai" THEN Unsplit(entry, usage) ELSE usage)

(* settle_success and settle_quietly commit the reserved amount when the   *)
(* cost cannot be computed.                                                *)
PriceOrEstimate(entry, req, usage) ==
  LET cents == UsageCents(entry, req, usage)
  IN  IF cents = Unpriceable THEN EstimateCents(entry, req) ELSE cents

(* What a call cost, by what was read of its usage: "nothing", the start   *)
(* of a stream (Anthropic reports the usage of the prompt there) or all.   *)
SettledCents(entry, req, usage, read) ==
  CASE read = "final" -> PriceOrEstimate(entry, req, usage)
    [] read = "start" /\ req.provider = "anthropic" ->
         PriceOrEstimate(entry, req, [usage EXCEPT !["output"] = req.max])
    [] OTHER -> EstimateCents(entry, req)

--------------------------------------------------------------------------------
(* The provider's side.                                                    *)

(* The usages a request may be billed for.                                 *)
Allowed(req, usage) ==
  /\ PromptTokens(usage) = req.prompt
  /\ usage["output"] <= req.max
  /\ req.provider = "openai" => usage["write1h"] = 0
  /\ req.provider = "anthropic" /\ req.ttl = "none" =>
       usage["read"] = 0 /\ usage["write"] = 0 /\ usage["write1h"] = 0
  /\ req.provider = "anthropic" /\ req.ttl = "5m" => usage["write1h"] = 0

(* The provider's own bill: a kind of token with no price of its own is    *)
(* billed as input.                                                        *)
ProviderBill(entry, usage) ==
  LET above == {t \in entry.tiers : PromptTokens(usage) > t.above}
      Rate(k) ==
        LET set == {t \in above : t.rates[k] # NoRate /\ \A u \in above : u.above <= t.above}
        IN  IF set # {} THEN (CHOOSE t \in set : TRUE).rates[k] ELSE entry.base[k]
  IN  CostAt([k \in TokenKinds |-> First(Rate(k), Rate("input"))], usage)

(* What the reservation's bound rests on: reading from the cache is not    *)
(* dearer than reading the prompt, a longer cache not cheaper than a short *)
(* one, and an entry that prices 5-minute writes prices 1-hour writes when *)
(* the request asks for them.                                              *)
BoundedRates(rates, req) ==
  /\ rates["read"] # NoRate => rates["read"] <= rates["input"]
  /\ rates["write"] # NoRate /\ rates["write1h"] # NoRate =>
       rates["write"] <= rates["write1h"]
  /\ req.ttl = "1h" /\ rates["write"] # NoRate => rates["write1h"] # NoRate

Bounded(entry, req) == BoundedRates(RatesFor(entry, req.prompt), req)

================================================================================
