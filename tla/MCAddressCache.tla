--------------------------- MODULE MCAddressCache ---------------------------
(***************************************************************************)
(* Instances of AddressCache for TLC: more devices than entries, so that   *)
(* the cache overflows; one device comes from the address_cache file.      *)
(***************************************************************************)
EXTENDS AddressCache

CONSTANTS d1, d2, d3, a1, a2

MCCacheFile == << <<d1, a1>> >>
MCUserTTLs  == {0, 2}
MCPeriods   == {1}

=============================================================================
