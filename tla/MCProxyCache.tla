----------------------------- MODULE MCProxyCache -----------------------------
(***************************************************************************)
(* Instances of ProxyCache: three requests; "long" takes two pieces, the   *)
(* second one shorter, "short" exactly one, "empty" none, "missing" is not *)
(* in the cache.  Who asks for what is chosen by the configuration.        *)
(***************************************************************************)
EXTENDS ProxyCache, TLC

MCReqs == {1, 2, 3}
MCKeys == {"long", "short", "empty", "missing"}
MCCached == {"long", "short", "empty"}
MCSize == [k \in MCCached |-> CASE k = "long" -> 3 [] k = "short" -> 2 [] k = "empty" -> 0]

DistinctWant == <<"long", "short", "missing">>
EmptyWant == <<"long", "empty", "short">>
PairWant == <<"long", "long", "missing">>
===============================================================================
