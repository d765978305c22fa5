------------------------------ MODULE Scenarios ------------------------------
(***************************************************************************)
(* ScenarioCatalog: the scenarios that can be run and the inputs each of   *)
(* them asks for.  An execution started through /executions/run has the    *)
(* scenario "default", which is not one of them.                           *)
(***************************************************************************)

InvestigationInputs ==
    {"request_id", "execution_id", "order_id", "restaurant_id",
     "time_window_start", "time_window_end"}

\* Scenario id -> required inputs.
Catalog ==
    [s \in {"kaiso_whatsapp_incident", "kaiso_kds_pos_sync"} |-> InvestigationInputs]

\* get: a KeyError otherwise.
Has(s) == s \in DOMAIN Catalog

\* validate_inputs, on the names of the inputs that are given and not empty.
ValidInputs(s, given) == Has(s) /\ Catalog[s] \subseteq given

=============================================================================
