------------------------------- MODULE MCPanel -------------------------------
(***************************************************************************)
(* An instance of Panel for TLC.                                           *)
(***************************************************************************)
EXTENDS Panel, TLC

Errands == Pressed \cup {"catalogue", "rights", "restart"}

\* Every errand of S once, and every errand of T twice.
Todo(S, T) ==
    [e \in Errands |-> IF e \in T THEN 2 ELSE IF e \in S THEN 1 ELSE 0]

\* What is done side by side: two tariffs, a tariff and its links, two
\* broadcasts, a broadcast and another dialogue, pages and settings.
MCAgendas ==
    {Todo({"rights", "restart", "home", "catalogue"}, {"plan_new"}),
     Todo({"plan_edit", "card"}, {"catalogue", "toggle"}),
     Todo({"rights", "restart", "home"}, {"broadcast_new"}),
     Todo({"broadcast_new", "plan_edit", "menu_new"}, {}),
     Todo({"menu_new", "landing_edit", "setting", "home"}, {}),
     Todo({"landing_new", "admin", "plan_new"}, {})}

Symmetric == Permutations(Handlers) \cup Permutations(Posts)

=============================================================================
