------------------------------- MODULE MCQueue -------------------------------
(* Instances of CollectionQueue for TLC.  The priorities keep the order of  *)
(* default_schedules: x before clue build before public.                    *)
EXTENDS CollectionQueueRefinement, TLC

MCPriority == [s \in Schedule |->
                 CASE s = "x" -> 96 [] s = "build" -> 88 [] OTHER -> 72]

Symmetric == Permutations(JobId) \cup Permutations(Row) \cup Permutations(Proc)
==============================================================================
