---------------------------- MODULE MCWebServer -----------------------------
(***************************************************************************)
(* A handler at "/" with a rate limit, a honeypot at another pattern, and  *)
(* a page that only "/" matches.                                           *)
(***************************************************************************)
EXTENDS WebServer

CONSTANTS page, trap

TwoStarts == 1..2
TwoRequests == 1..2
TrapAndRoot == {trap, Root}
Configured == [p \in Patterns |-> IF p = trap THEN "honeypot" ELSE "handler"]
RootLimited == {Root}
=============================================================================
