---------------------------- MODULE MCFundingWait ----------------------------
(* Two small cells and a large one; thresholds that need none, one, two of *)
(* them, or all.                                                           *)
EXTENDS FundingWait

MCCapacity(c) == IF c = 3 THEN 2 ELSE 1
MCMinCapacities == {0, 1, 2, 4}
==============================================================================
