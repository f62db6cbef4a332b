------------------------------ MODULE MCCrawl ------------------------------
(* Instances of Crawl small enough for TLC.                                *)
EXTENDS Crawl, TLC

CONSTANTS c1, c2, x, y

\* Two executions that may overlap, and what a page of a source may show:
\* nothing, one listing, two, the same one twice (overlapping pages).
OneListing  == {<<>>, <<x>>}
TwoListings == {<<>>, <<x>>, <<y>>, <<x, x>>, <<y, x>>}
=============================================================================
