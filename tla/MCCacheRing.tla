----------------------------- MODULE MCCacheRing -----------------------------
(* Instances of CacheRing for TLC.                                          *)
EXTENDS CacheRing

CONSTANTS a, b
=============================================================================
