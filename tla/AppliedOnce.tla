---------------------------- MODULE AppliedOnce ----------------------------
(***************************************************************************)
(* What the webhook ledger (core/webhook_idempotency.py) promises to the   *)
(* billing handlers: the effects of an event are applied at most once,     *)
(* however often it is delivered.                                          *)
(***************************************************************************)
EXTENDS Naturals

CONSTANT Events

VARIABLE times   \* times[e]: how often the effects of e were committed

Init == times = [e \in Events |-> 0]

Apply(e) ==
  /\ times[e] = 0
  /\ times' = [times EXCEPT ![e] = 1]

Next == \E e \in Events : Apply(e)

Spec == Init /\ [][Next]_times
=============================================================================
