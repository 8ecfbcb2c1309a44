---- MODULE MCSeenCache ----
(* One cache of three slots and five keys: the ring wraps, evicts and meets *)
(* evicted keys again.                                                      *)
EXTENDS SeenCacheSpec
====
