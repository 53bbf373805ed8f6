--------------------------- MODULE MCMailManager ----------------------------
(***************************************************************************)
(* Two messages without an SMTP server; or one message, or two sessions    *)
(* with two handlers, or a second start of the server; one worker, whose   *)
(* queue holds two tasks.                                                  *)
(***************************************************************************)
EXTENDS MailManager

Two == 1..2
MCBudgets ==
    {[enabled |-> FALSE, start |-> 1, mail |-> 2, session |-> 0, handler |-> 0],
     [enabled |-> TRUE, start |-> 1, mail |-> 1, session |-> 0, handler |-> 0],
     [enabled |-> TRUE, start |-> 2, mail |-> 0, session |-> 1, handler |-> 2],
     [enabled |-> TRUE, start |-> 1, mail |-> 0, session |-> 2, handler |-> 2]}
=============================================================================
