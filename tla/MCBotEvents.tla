---------------------------- MODULE MCBotEvents -----------------------------
(***************************************************************************)
(* BotEvents for TLC: an event of any sort, since events share nothing but *)
(* handlers, and a user of whom two reactions or messages are handled at a *)
(* time, so that he can be sent the choices of the quiz twice.             *)
(***************************************************************************)
EXTENDS BotEvents

CONSTANTS rita, first, second, admin, reaction, quiz, choice

SortOf == [e \in Events |-> CASE e = reaction -> "reaction" [] e = quiz -> "quiz" [] e = choice -> "choice"]

OwnKey == [e \in Events |-> [key |-> e]]
=============================================================================
