---------------------------- MODULE MCShopScans ----------------------------
(***************************************************************************)
(* Two technicians: of one shop, of two shops, or one of them a super      *)
(* admin.  The other assignments only rename the shops.                    *)
(***************************************************************************)
EXTENDS ShopScans, TLC

CONSTANTS c1, c2, o1, o2

MCTokens ==
  { c1 :> o1 @@ c2 :> o1, c1 :> o1 @@ c2 :> o2,
    c1 :> AllOrgs @@ c2 :> o1, c1 :> o1 @@ c2 :> AllOrgs }
=============================================================================
