------------------------------- MODULE MCTablet -------------------------------
(***************************************************************************)
(* The tablet's components that share no variable in the models, and the   *)
(* two bench sketches, checked side by side: a behaviour is one of         *)
(* whichever component "part" names, the others stay as they began.        *)
(***************************************************************************)
EXTENDS RxIngressRing, KwpByteEngine, ProcessingPipeline, AudioPipeline, ImuSampling,
        ProtoTester, AudioProbe

VARIABLE part

Parts == {"ingress", "engine", "processing", "audio", "imu", "proto", "probe"}

TabletInit ==
  /\ part \in Parts
  /\ RingInit /\ EngineInit /\ Init /\ AudioInit /\ ImuInit /\ ProtoInit /\ ProbeInit

Still(parts) ==
  /\ IF "ingress" \in parts THEN UNCHANGED rxRingVars ELSE TRUE
  /\ IF "engine" \in parts THEN UNCHANGED engine ELSE TRUE
  /\ IF "processing" \in parts THEN UNCHANGED vars ELSE TRUE
  /\ IF "audio" \in parts THEN UNCHANGED audioVars ELSE TRUE
  /\ IF "imu" \in parts THEN UNCHANGED imuVars ELSE TRUE
  /\ IF "proto" \in parts THEN UNCHANGED protoVars ELSE TRUE
  /\ IF "probe" \in parts THEN UNCHANGED probeVars ELSE TRUE

Turn(p) == part = p /\ part' = p /\ Still(Parts \ {p})

TabletNext ==
  \/ Turn("ingress") /\ RingNext
  \/ Turn("engine") /\ EngineNext
  \/ Turn("processing") /\ Next
  \/ Turn("audio") /\ AudioNext
  \/ Turn("imu") /\ ImuNext
  \/ Turn("proto") /\ ProtoNext
  \/ Turn("probe") /\ ProbeNext

tabletVars == <<part, rxRingVars, engine, vars, audioVars, imuVars, protoVars, probeVars>>

TabletSpec == TabletInit /\ [][TabletNext]_tabletVars
===============================================================================
