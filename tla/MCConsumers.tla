------------------------------ MODULE MCConsumers ------------------------------
(***************************************************************************)
(* One letter on the console, which alone is a tab and twice is a status   *)
(* request, one snapshot, one logger state, and a touch of every kind of   *)
(* control.                                                                *)
(***************************************************************************)
EXTENDS TabletConsumers, TLC

MCLetters == {"a"}
MCWords == <<"a">> :> "traces" @@ <<"a", "a">> :> "STATUS"
MCSnapshots == {[key |-> 1, valid |-> TRUE, rpm |-> "stopped"]}
MCStatuses == {[state |-> "Recording", active |-> TRUE]}
MCTouches == {"none", "list", "traces", "right", "scope", "log"}
===============================================================================
