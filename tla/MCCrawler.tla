------------------------------ MODULE MCCrawler ------------------------------
(***************************************************************************)
(* Two directories at the root and one inside another, a file in each, and *)
(* a socket; fewer descriptors than a crawl can use.                       *)
(***************************************************************************)
EXTENDS Crawler, TLC

CONSTANTS d1, d2, d3, f1, f2, f3, s1

MCParent == d1 :> Root @@ d2 :> Root @@ d3 :> d1 @@ f1 :> d1 @@ f2 :> d2 @@ f3 :> d3
            @@ s1 :> d2
==============================================================================
