------------------------------ MODULE MCWatch ------------------------------
(* Instance of LayeredWatch for TLC. *)
EXTENDS LayeredWatch

CONSTANTS t1, t2, query, chat

MCQueries == <<query>>
MCChats == <<chat>>
MCPage == [t \in {t1} |-> t2]
MCInterval == [l \in Layer |-> IF l = "slow" THEN 2 ELSE 1]
=============================================================================
