--------------------------- MODULE MC_ManagerBot ----------------------------
(* Model checking of ManagerBot: the user's own key and one to generate.    *)
EXTENDS ManagerBot
=============================================================================
