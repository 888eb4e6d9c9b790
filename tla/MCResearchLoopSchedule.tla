----------------------- MODULE MCResearchLoopSchedule -----------------------
(***************************************************************************)
(* Small instances of ResearchLoopSchedule.  Owners and loops are          *)
(* interchangeable: no constant and no property singles one out.  The run  *)
(* "schedule" has two loops, so that a step that moves one row is seen to  *)
(* leave the other alone and a tick to age both.                           *)
(***************************************************************************)
EXTENDS ResearchLoopSchedule, TLC

Symmetry == Permutations(Owners) \cup Permutations(Loops)
=============================================================================
