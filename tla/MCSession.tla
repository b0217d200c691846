----------------------------- MODULE MCSession ------------------------------
(* Two tabs of one browser; the first has two calls at a time.                 *)
EXTENDS Session

CONSTANTS t1, t2, a1, a2, b1
MCTabOf == [c \in {a1, a2, b1} |-> IF c = b1 THEN t2 ELSE t1]
MCUses == [c \in {a1, a2, b1} |-> CASE c = a1 -> {"init", "login"}
                                    [] c = a2 -> {"plain", "logout"}
                                    [] c = b1 -> {"init"}]
MCUsesMe == [MCUses EXCEPT ![a2] = {"plain", "me"}]
=============================================================================
