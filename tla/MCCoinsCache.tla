---------------------------- MODULE MCCoinsCache ----------------------------
(***************************************************************************)
(* An instance of CoinsCache.                                               *)
(***************************************************************************)
EXTENDS CoinsCache

CONSTANTS o1, o2, data, c1, c2

MCOutpoint == {o1, o2, data}
MCUnspendable == {data}
MCCoin == {c1, c2}
=============================================================================
