-------------------------- MODULE MCInvestigation --------------------------
(* Values for the constants of Investigation *)
EXTENDS Investigation

MCSources == 1..4
MCLayer   == (1 :> 1) @@ (2 :> 1) @@ (3 :> 2) @@ (4 :> 2)
MCBlocked == {4}
MCKeyOf   == (1 :> "tool") @@ (2 :> "contact") @@ (3 :> "contact")
MCGood    == {2, 3}
MCYield   == {2}
MCImports == {{1}, {2, 3}}

Asking(available) ==
  [provided |-> {}, available |-> available, wanted |-> {"tool", "contact"},
   relevant |-> {"tool", "contact"}, cross |-> FALSE, precise |-> FALSE,
   profile |-> "balanced", workers |-> 1]

MCRequests ==
  {[Asking({1, 2, 3}) EXCEPT !.precise = TRUE],
   [Asking({1, 2, 3}) EXCEPT !.cross = TRUE, !.workers = 2],
   [Asking({1, 4}) EXCEPT !.cross = TRUE, !.relevant = {"tool"}],
   [Asking({1, 3}) EXCEPT !.profile = "fast"],
   [Asking({}) EXCEPT !.provided = {1, 2}],
   Asking({4})}

=============================================================================
