---------------------------- MODULE MCUsbFunctions ----------------------------
(***************************************************************************)
(* The device classes of the USB host, which share no variable in the      *)
(* models, checked side by side: a behaviour is one of whichever class     *)
(* "part" names, the others stay as they began.                            *)
(***************************************************************************)
EXTENDS UsbMassStorage, UsbNetwork, UsbOutPool, UsbCcid, UsbInput

VARIABLE part

Parts == {"storage", "network", "pool", "ccid", "input"}

FunctionsInit ==
  /\ part \in Parts
  /\ MscInit /\ NetInit /\ PoolInit /\ CcidInit /\ InputInit
  /\ part # "input" => bitmap = FALSE

Still(parts) ==
  /\ IF "storage" \in parts THEN UNCHANGED mscVars ELSE TRUE
  /\ IF "network" \in parts THEN UNCHANGED netVars ELSE TRUE
  /\ IF "pool" \in parts THEN UNCHANGED poolVars ELSE TRUE
  /\ IF "ccid" \in parts THEN UNCHANGED ccidVars ELSE TRUE
  /\ IF "input" \in parts THEN UNCHANGED inputVars ELSE TRUE

Turn(p) == part = p /\ part' = p /\ Still(Parts \ {p})

FunctionsNext ==
  \/ Turn("storage") /\ MscNext
  \/ Turn("network") /\ NetNext
  \/ Turn("pool") /\ PoolNext
  \/ Turn("ccid") /\ CcidNext
  \/ Turn("input") /\ InputNext

functionsVars == <<part, mscVars, netVars, poolVars, ccidVars, inputVars>>

FunctionsSpec == FunctionsInit /\ [][FunctionsNext]_functionsVars
===============================================================================
