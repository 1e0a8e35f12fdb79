--------------------------- MODULE MCBotCommands ---------------------------
(***************************************************************************)
(* A small instance of BotCommands for TLC: three uses of a command, two   *)
(* by one user, one of them in private.                                    *)
(***************************************************************************)
EXTENDS BotCommands, TLC

CONSTANTS c1, c2, c3

MCCommands == {c1, c2, c3}
MCGuildOf == c1 :> "tavern" @@ c2 :> "inn" @@ c3 :> "private"
MCActorOf == c1 :> "ana" @@ c2 :> "bia" @@ c3 :> "ana"
=============================================================================
