-------------------------- MODULE MCShopLifecycle --------------------------
(* Small instances of ShopLifecycle: one shop domain, two intervals.       *)
EXTENDS ShopLifecycle
=============================================================================
