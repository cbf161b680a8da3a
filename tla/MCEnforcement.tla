--------------------------- MODULE MCEnforcement ---------------------------
(* Instance of Enforcement for TLC. *)
EXTENDS Enforcement

\* As an operator opens it, and each gate closed in turn.
Open == [enabled |-> TRUE, dryRun |-> FALSE, approval |-> TRUE, token |-> TRUE,
         secret |-> "secret", minConfidence |-> 2, maxActions |-> 2, connector |-> TRUE]
MCPolicies ==
  {Open, [Open EXCEPT !.enabled = FALSE], [Open EXCEPT !.dryRun = TRUE],
   [Open EXCEPT !.connector = FALSE], [Open EXCEPT !.secret = NoToken],
   [Open EXCEPT !.approval = FALSE, !.token = FALSE]}

Sound == [wellFormed |-> TRUE, allowed |-> TRUE, confidence |-> 2, approved |-> TRUE]
Fresh == [Sound EXCEPT !.approved = FALSE]
Doubtful == [Sound EXCEPT !.confidence = 1]
Odd == [Sound EXCEPT !.allowed = FALSE]
Broken == [Sound EXCEPT !.wellFormed = FALSE]
MCBatches == {<<>>, <<Sound, Broken>>, <<Odd, Doubtful>>, <<Fresh, Sound, Sound>>}
=============================================================================
