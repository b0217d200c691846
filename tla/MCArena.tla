------------------------------ MODULE MCArena -------------------------------
(* Two old chats, one of which the user may open.                              *)
EXTENDS Arena

MCOldChats == {MaxRounds + 1, MaxRounds + 2}
MCRemembered == {0, MaxRounds + 1}
MCPicks == {MaxRounds + 2}
==============================================================================
