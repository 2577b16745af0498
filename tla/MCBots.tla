--------------------------------- MODULE MCBots ---------------------------------
(***************************************************************************)
(* A small legacy database for Bots: at first full pages of two and so an  *)
(* empty one at the end, some bots mapped, one created later in the middle *)
(* of the order, and a flow that gets a second bot.                        *)
(***************************************************************************)
EXTENDS Bots

MCBotSet == 1..5
MCOld == {1, 3, 4, 5}
MCMapped == {3}
MCReturning == {1}

MCEnvironments == [quiet : BOOLEAN, migrates : BOOLEAN, answered : BOOLEAN]
================================================================================
