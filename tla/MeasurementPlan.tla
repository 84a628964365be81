-------------------------- MODULE MeasurementPlan --------------------------
(***************************************************************************)
(* The group plan of the measurement phase (measurement_plan.h): which     *)
(* host block answers which block of the control unit.  start, onFrame and *)
(* popCommand are functions on a plan; their caller owns the state.        *)
(***************************************************************************)
EXTENDS Naturals

Stages == {"WaitingIdentification", "WaitingGroupZero", "WaitingGroupSwitchAck",
           "WaitingGroupHeader", "WaitingGroupBody", "Fault"}
Titles == {"Identification", "Ack", "GroupHeader", "GroupBody", "Refused",
           "Unknown"}
LastGroup == 4
Groups == 0 .. LastGroup

Commands == [kind : {"Ack", "GroupZero", "GroupSelect"}, group : Groups]
Command(kind, group) == [kind |-> kind, group |-> group]

Plan == [stage : Stages, group : Groups, pending : BOOLEAN, command : Commands]

StartedPlan ==
  [stage |-> "WaitingIdentification", group |-> 0, pending |-> FALSE,
   command |-> Command("Ack", 0)]

Emit(plan, stage, group, command) ==
  [stage |-> stage, group |-> group, pending |-> TRUE, command |-> command]

\* Mutated form: the same group is selected again.
AdvanceToSameGroup(plan) ==
  IF plan.group >= LastGroup
  THEN Emit(plan, "WaitingGroupZero", 0, Command("GroupZero", 0))
  ELSE Emit(plan, "WaitingGroupSwitchAck", plan.group, Command("Ack", 0))

AdvanceAfterGroup(plan) ==
  IF plan.group >= LastGroup
  THEN Emit(plan, "WaitingGroupZero", 0, Command("GroupZero", 0))
  ELSE Emit(plan, "WaitingGroupSwitchAck", plan.group + 1, Command("Ack", 0))

\* Does the plan answer a block with this title?  onFrame returns the same.
Accepts(plan, title) ==
  /\ ~plan.pending
  /\ \/ plan.stage = "WaitingIdentification" /\ title \in {"Identification", "Ack"}
     \/ plan.stage = "WaitingGroupZero"      /\ title = "GroupBody"
     \/ plan.stage = "WaitingGroupSwitchAck" /\ title = "Ack"
     \/ plan.stage = "WaitingGroupHeader"    /\ title = "GroupHeader"
     \/ plan.stage = "WaitingGroupBody"      /\ title \in {"GroupBody", "Refused"}

OnFrame(plan, title) ==
  IF plan.pending THEN [plan EXCEPT !.stage = "Fault"]
  ELSE IF ~Accepts(plan, title) THEN plan
  ELSE CASE plan.stage = "WaitingIdentification" /\ title = "Identification" ->
              Emit(plan, plan.stage, plan.group, Command("Ack", 0))
         [] plan.stage = "WaitingIdentification" /\ title = "Ack" ->
              Emit(plan, "WaitingGroupZero", 0, Command("GroupZero", 0))
         [] plan.stage = "WaitingGroupZero" ->
              Emit(plan, "WaitingGroupSwitchAck", 1, Command("Ack", 0))
         [] plan.stage = "WaitingGroupSwitchAck" ->
              Emit(plan, "WaitingGroupHeader", plan.group,
                   Command("GroupSelect", plan.group))
         [] plan.stage = "WaitingGroupHeader" ->
              Emit(plan, "WaitingGroupBody", plan.group,
                   Command("GroupSelect", plan.group))
         [] plan.stage = "WaitingGroupBody" -> AdvanceAfterGroup(plan)

PopCommand(plan) == [plan EXCEPT !.pending = FALSE]
=============================================================================
