---------------------------- MODULE ImuSampling ----------------------------
(***************************************************************************)
(* The task that samples the IMU (ImuSampler, imu_sampler.h) with its sink *)
(* (ImuDiagnosticsSink in the sketch): a sample goes to the logger's ring  *)
(* and, if the ring took it, to the mailbox of the serial console, which   *)
(* counts what it was given (imu_sample_ring.h).  The values measured are  *)
(* left out, their validity is kept.                                       *)
(***************************************************************************)
EXTENDS Integers, Sequences

CONSTANTS
  Period,        \* kPeriodUs: 40 000
  RingSlots,     \* kCapacity: 256
  ReportEvery,   \* accepted samples between two reports: 125
  MaxImuTime     \* bound of the model

ASSUME ImuAssumption ==
  {Period, RingSlots, ReportEvery, MaxImuTime} \subseteq Nat \ {0}

VARIABLES
  imuNow,
  imuSampler,     \* started, deadline, sequence
  imuRing,        \* samples the logger has not read
  diagnostics,    \* ImuDiagnosticsMailbox: its sample, and how many it accepted
  imuReported,    \* imuReported_ of the console
  lastSampled     \* history: when the last sample was taken, and the first

imuVars == <<imuNow, imuSampler, imuRing, diagnostics, imuReported, lastSampled>>

Never == [first |-> 0, at |-> 0]

ImuInit ==
  /\ imuNow = 1
  /\ imuSampler = [started |-> FALSE, deadline |-> 0, sequence |-> 0]
  /\ imuRing = <<>> /\ imuReported = 0 /\ lastSampled = Never
  /\ diagnostics = [fresh |-> FALSE, sequence |-> 0, accepted |-> 0]

ImuTick ==
  /\ imuNow < MaxImuTime /\ imuNow' = imuNow + 1
  /\ UNCHANGED <<imuSampler, imuRing, diagnostics, imuReported, lastSampled>>

\* IImuSource::read with the adapter: what is not read is not valid.
Readings == {{}} \cup {{"read"} \cup v : v \in SUBSET {"accel", "gyro"} \ {{}}}

\* Mutant: a deadline that has just come is taken to lie ahead.
NextDeadlineAtNow(deadline, now) ==
  LET d == deadline + Period
  IN  IF d < now THEN d + ((now - d) \div Period) * Period ELSE d

\* The absolute deadlines: the periods that were missed are skipped.
NextDeadline(deadline, now) ==
  LET d == deadline + Period
  IN  IF d <= now THEN d + ((now - d) \div Period + 1) * Period ELSE d

\* ImuSampler::poll; the logger's ring refuses a sample when it is full.
ImuPoll ==
  LET deadline == IF imuSampler.started THEN imuSampler.deadline ELSE imuNow
      sequence == imuSampler.sequence
      accepted == Len(imuRing) < RingSlots
  IN  /\ imuNow >= deadline
      /\ \E v \in Readings :
           imuRing' = IF accepted
                      THEN Append(imuRing, [sequence |-> sequence, validity |-> v])
                      ELSE imuRing
      /\ diagnostics' = IF accepted
                        THEN [fresh |-> TRUE, sequence |-> sequence,
                              accepted |-> diagnostics.accepted + 1]
                        ELSE diagnostics
      /\ imuSampler' = [started |-> TRUE, sequence |-> sequence + 1,
                        deadline |-> NextDeadline(deadline, imuNow)]
      /\ lastSampled' = [first |-> IF imuSampler.started THEN lastSampled.first
                                   ELSE imuNow,
                         at |-> imuNow]
      /\ UNCHANGED <<imuNow, imuReported>>

\* ImuSampleRing::tryPop
LoggerReads ==
  /\ imuRing # <<>> /\ imuRing' = Tail(imuRing)
  /\ UNCHANGED <<imuNow, imuSampler, diagnostics, imuReported, lastSampled>>

\* SerialConsumer::poll: the console reports every so many accepted samples.
ConsoleReports ==
  /\ diagnostics.accepted - imuReported >= ReportEvery /\ diagnostics.fresh
  /\ imuReported' = diagnostics.accepted
  /\ diagnostics' = [diagnostics EXCEPT !.fresh = FALSE]
  /\ UNCHANGED <<imuNow, imuSampler, imuRing, lastSampled>>

ImuNext == ImuTick \/ ImuPoll \/ LoggerReads \/ ConsoleReports

ImuSpec == ImuInit /\ [][ImuNext]_imuVars
-----------------------------------------------------------------------------
\* No period of the grid that begins with the first sample has two samples,
\* however late the task runs and whatever the ring refuses: no burst makes up
\* for missed periods.
OneSamplePerPeriod ==
  [][lastSampled # Never /\ imuSampler' # imuSampler =>
       (lastSampled'.at - lastSampled.first) \div Period
         > (lastSampled.at - lastSampled.first) \div Period]_imuVars
=============================================================================
