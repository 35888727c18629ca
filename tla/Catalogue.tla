------------------------------ MODULE Catalogue ------------------------------
(***************************************************************************)
(* The tables behind the panel: CatalogService of services/admin.py, which *)
(* the administrators and the bot's own membership events both write       *)
(* (bot/system_router.py).                                                 *)
(*                                                                         *)
(* One Telegram resource is followed, and the tariffs it is linked to.     *)
(* Prices, periods and trials are the subject of Terms.                    *)
(***************************************************************************)
EXTENDS Integers, FiniteSets

CONSTANTS
    Plans,        \* the rows that plans may hold
    DefaultPlan   \* the row with the code default_plan_code

ASSUME CatalogueAssumption == DefaultPlan \in Plans

VARIABLES
    plan,     \* the rows of plans
    linked,   \* plan_resources: the tariffs that the resource is linked to
    served    \* TRUE while the bot administers the resource: its is_active

catalogue == <<plan, linked, served>>

-----------------------------------------------------------------------------
Known(p) == plan[p] # "none"

\* count == 0: no tariff was ever created.
NoPlans == \A p \in Plans : ~Known(p)

CatalogueInit ==
    /\ plan \in {[p \in Plans |-> "none"], [p \in Plans |-> "active"]}
    /\ linked = {}
    /\ served = TRUE

\* Faulty variant: the code of the first tariff is made of its name as well.
RowForName(first) == {p \in Plans : ~Known(p)}

\* The row that an insert takes: the first tariff has the default code, and the
\* code of any other is unused.  Two transactions may both have seen no tariff,
\* and then the second violates the unique code: it takes no row.
RowFor(first) ==
    {p \in Plans : ~Known(p) /\ (p = DefaultPlan <=> first)}

InsertPlan(p) ==
    /\ plan' = [plan EXCEPT ![p] = "active"]
    /\ UNCHANGED <<linked, served>>

\* ProtectedPlanError is raised for the default tariff.
MayArchive(p) == Known(p) /\ p # DefaultPlan

ArchivePlan(p) ==
    /\ MayArchive(p)
    /\ plan' = [plan EXCEPT ![p] = "archived"]
    /\ UNCHANGED <<linked, served>>

RestorePlan(p) ==
    /\ Known(p)
    /\ plan' = [plan EXCEPT ![p] = "active"]
    /\ UNCHANGED <<linked, served>>

\* The bot is made an administrator of the channel, or it ceases to be one.
RegisterResource ==
    /\ served' = TRUE
    /\ UNCHANGED <<plan, linked>>

\* With the resource go its rows of plan_resources.
DeactivateResource ==
    /\ served
    /\ served' = FALSE
    /\ linked' = {}
    /\ UNCHANGED plan

\* The second half of toggle_plan_resource: what the first half has found is
\* turned over, whether the resource is served or not.
Toggled(p, exists) ==
    /\ linked' = IF exists THEN linked \ {p} ELSE linked \cup {p}
    /\ UNCHANGED <<plan, served>>

\* What other administrators and Telegram do meanwhile.
CatalogueMoves ==
    \/ \E p \in RowFor(NoPlans) : InsertPlan(p)
    \/ \E p \in Plans : ArchivePlan(p) \/ RestorePlan(p)
    \/ RegisterResource \/ DeactivateResource

-----------------------------------------------------------------------------
CatalogueTypeOK ==
    /\ plan \in [Plans -> {"none", "active", "archived"}]
    /\ linked \subseteq Plans
    /\ served \in BOOLEAN

\* Once there are tariffs, the default one is among them and is for sale, though
\* the first two may be created at the same time and any may be archived: the
\* plain payment link of the public pages leads to it.
DefaultPlanStands == NoPlans \/ plan[DefaultPlan] = "active"

=============================================================================
