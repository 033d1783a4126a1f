----------------------------- MODULE MCGuardedCall -----------------------------
(***************************************************************************)
(* Instances of GuardedCall: two callers, a vendored entry that a row of   *)
(* the database may replace, and requests above and below its tier.        *)
(***************************************************************************)
EXTENDS GuardedCall, TLC

CONSTANTS c1, c2

Symmetry == Permutations(Callers)

NoRates == [k \in TokenKinds |-> NoRate]

(* No cache rates; a tier that raises the price of input.                  *)
Plain == [base |-> [NoRates EXCEPT !["input"] = 2, !["output"] = 3],
          tiers |-> {[above |-> 1, rates |-> [NoRates EXCEPT !["input"] = 4]]}]

(* All the rates, and two tiers, given in the wrong order.                 *)
Caching ==
  [base |-> [input |-> 2, output |-> 3, read |-> 1, write |-> 3, write1h |-> 4],
   tiers |-> <<[above |-> 2, rates |-> [NoRates EXCEPT !["input"] = 5, !["output"] = 6,
                                                       !["write"] = 7, !["write1h"] = 8]],
               [above |-> 1, rates |-> [NoRates EXCEPT !["input"] = 4,
                                                       !["write"] = 5, !["write1h"] = 6]]>>]

MCBook == [m |-> Plain]
MCOverrides == {<<>>, [m |-> Caching]}

Tokens(input, readTokens, written, written1h, output) ==
  [input |-> input, read |-> readTokens, write |-> written, write1h |-> written1h,
   output |-> output]

Order(provider, ttl, tokens) ==
  [model |-> "m", usage |-> tokens,
   req |-> [provider |-> provider, ttl |-> ttl, prompt |-> PromptTokens(tokens), max |-> 1]]

(* At the threshold of the first tier and above it, with the cache read,   *)
(* written, or both, and with all of the output or none.                   *)
MCOrders ==
  {Order("anthropic", "none", Tokens(1, 0, 0, 0, 1)),
   Order("anthropic", "5m", Tokens(0, 1, 1, 0, 0)),
   Order("anthropic", "1h", Tokens(0, 0, 1, 1, 1)),
   Order("openai", "none", Tokens(0, 1, 1, 0, 1))}

(* Callers that share a request_id, in every combination of kinds, and one *)
(* decorated and one guarded call that do not.                             *)
Pair(kind1, request1, kind2, request2) ==
  [c \in Callers |-> IF c = c1 THEN [kind |-> kind1, request |-> request1]
                     ELSE [kind |-> kind2, request |-> request2]]

MCJobs ==
  {Pair(k, "q", k, "q") : k \in Kinds} \cup
  {Pair("create", "q", "stream", "q"), Pair("create", "q", "decorated", "q"),
   Pair("stream", "q", "decorated", "q"),
   Pair("decorated", NoRequest, "stream", "q")}

(* Two decorated calls with one request_id.                                *)
DecoratedRetries == [Callers -> [kind : {"decorated"}, request : RequestIds]]

================================================================================
