--------------------------- MODULE MCCatapultCache ---------------------------
(* CatapultCache for TLC: two of the sub-caches.                            *)
EXTENDS CatapultCache

MCSubCaches == <<"accountState", "blockStatistic">>
=============================================================================
