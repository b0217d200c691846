----------------------------- MODULE MCBilling -----------------------------
(* Instances of Billing for TLC. *)
EXTENDS Billing, TLC

CONSTANTS plus, pro, annual, addon, spare

OnePlan == [s \in {pro} |-> "pro_monthly"]
TwoPlans == (plus :> "plus_monthly") @@ (pro :> "pro_monthly")
PlanAndAddon == (plus :> "plus_monthly") @@ (addon :> "agent_addon_monthly")
TwoAddons == PlanAndAddon @@ (spare :> "agent_addon_monthly")
ThreePlans == (plus :> "plus_monthly") @@ (annual :> "pro_annual")
              @@ (addon :> "agent_addon_monthly")
=============================================================================
