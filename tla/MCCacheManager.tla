---------------------------- MODULE MCCacheManager ----------------------------
(* Small instances of CacheManager for TLC. *)
EXTENDS CacheManager

MCDir_ids == {0, 1}

\* With USECS = 10 and USEC_RANGE = 12: sums that need more than a second of
\* usec, and sums that overflow them, but never two seconds' worth.
MCGaps == {4, 12}
===============================================================================
