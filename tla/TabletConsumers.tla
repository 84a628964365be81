-------------------------- MODULE TabletConsumers --------------------------
(***************************************************************************)
(* The two consumers of snapshots and logger states: the serial console    *)
(* (SerialConsumer, serial_consumer.h) and the display (DisplayUi with     *)
(* DisplayUiModel), and the trace of tab changes in RuntimeDebug.          *)
(*                                                                         *)
(* The mailboxes are the registers SnapshotMailbox shows them to be, with  *)
(* an overwritten value lost.  What the logger makes of a command is in    *)
(* SprotzRecording; here a command is queued or refused.  A letter of the  *)
(* console is one of Letters and a command a word of Words; the only other *)
(* thing said of text is whether it overflows the line.  Positions,        *)
(* colours and wording are left out: the screen is what it was drawn from. *)
(***************************************************************************)
EXTENDS Integers, Sequences

CONSTANTS
  Letters,       \* bound: what the console types, besides the line end
  Words,         \* bound: line -> a tab, "STATUS", "LOG" or "DEBUG_STATUS"
  LineLength,    \* sizeof(commandLine_): 32
  Snapshots,     \* bound: snapshots, with a key (the fields accept compares)
  Statuses,      \* bound: logger states, with a state and sprotzActive
  Touches,       \* bound: what the user touches
  SpriteAttempts,  \* kMaxSpriteInitAttempts: 20
  MaxTabSequence   \* bound of the model

ASSUME ConsumersAssumption ==
  {LineLength, SpriteAttempts, MaxTabSequence} \subseteq Nat \ {0}

VARIABLES
  consoleLine,   \* commandLine_ up to commandLength_
  consolePc,     \* processChar in the middle of a TAB command, or not
  tabRequest,    \* serial_tab_request
  requestedTab, appliedTab, renderedTab,   \* RuntimeDebug: [tab, sequence]
  tabSequence,
  statusBox, snapshotBox,   \* what the display has not received yet
  displayPc, taken,         \* the display between exchange and the rest
  display,                  \* DisplayUi and DisplayUiModel
  screen                    \* what the screen shows

console == <<consoleLine, consolePc, tabSequence, requestedTab>>
boxes == <<statusBox, snapshotBox>>
consumersVars == <<console, tabRequest, appliedTab, renderedTab, boxes, displayPc,
                   taken, display, screen>>

Tabs == {"compact", "list", "system", "traces"}
NoTab == "none"
NoSnapshot == [key |-> 0, valid |-> FALSE, rpm |-> "none"]
NoMail == [none |-> TRUE]

-----------------------------------------------------------------------------
(***************************************************************************)
(* The display model                                                       *)
(***************************************************************************)

\* DisplayUiModel::accept: only some of the fields make the screen stale.
AcceptSnapshot(d, s) ==
  IF d.snapshot.key # 0 /\ d.snapshot.key = s.key
  THEN [d EXCEPT !.snapshot = s]
  ELSE [d EXCEPT !.snapshot = s, !.dirty = TRUE]

\* setTab, and what the serial request adds to it
SetTab(d, tab) ==
  IF d.tab = tab THEN d ELSE [d EXCEPT !.tab = tab, !.dirty = TRUE]

SetTabFromSerial(d, tab) ==
  [SetTab(d, tab) EXCEPT !.needLayout = TRUE, !.loggerDirty = TRUE]

\* sampleIfDue: the scope keeps the last sequences; only the newest is told apart.
SampleIfDue(d, due) ==
  IF d.snapshot.key = 0 \/ d.paused \/ ~due THEN d
  ELSE [d EXCEPT !.sampled = d.snapshot.key,
                 !.dirty = @ \/ d.sampled # d.snapshot.key]

\* Mutant: a new logger state redraws the status line only.
ConsumeStatusKeepsControls(d, s) ==
  IF s = d.status THEN d ELSE [d EXCEPT !.status = s, !.loggerDirty = TRUE]

\* DisplayUi::consumeLoggerStatus
ConsumeStatus(d, s) ==
  IF s = d.status THEN d
  ELSE [d EXCEPT !.status = s, !.loggerDirty = TRUE, !.needControls = TRUE]

\* engineOperatingState and compactAvailability: a value that needs a running
\* engine, or one that does not.
TileText(s, needsEngine) ==
  CASE ~s.valid -> "---"
    [] s.valid /\ needsEngine /\ s.rpm = "none" -> "STATUS ---"
    [] s.valid /\ needsEngine /\ s.rpm = "stopped" -> "MOTOR AUS"
    [] OTHER -> "value"

\* drawStatus with drawCompact, drawList, drawSystem or drawTraces; the logger's
\* buttons are drawn again only when asked for.
Drawn(d) ==
  [tab |-> d.tab, key |-> d.snapshot.key,
   tiles |-> {TileText(d.snapshot, needs) : needs \in BOOLEAN},
   state |-> d.status,
   controls |-> IF d.tab # "traces" THEN NoMail
                ELSE IF d.needControls \/ d.needLayout \/ d.drawnTab # d.tab
                     THEN d.status ELSE screen.controls]

AfterDraw(d) ==
  [d EXCEPT !.needControls =
              IF d.tab = "traces" THEN FALSE
              ELSE @ \/ d.needLayout \/ d.drawnTab # d.tab,
            !.drawnTab = d.tab, !.needLayout = FALSE, !.dirty = FALSE,
            !.loggerDirty = FALSE]

\* sendLoggerCommand
SendCommand(d, queued) ==
  [d EXCEPT !.rejected = ~queued, !.loggerDirty = TRUE, !.needControls = TRUE]

\* handleTouch, but for the trace
HandleTouch(d, touch, queued) ==
  CASE touch \in Tabs /\ touch # d.tab ->
         [SetTab(d, touch) EXCEPT !.needLayout = TRUE]
    [] touch \in {"left", "right"} /\ d.tab = "list" /\ touch # d.page ->
         [d EXCEPT !.page = touch, !.needLayout = TRUE, !.dirty = TRUE]
    [] touch = "scope" /\ d.tab = "traces" ->
         [d EXCEPT !.paused = ~@, !.dirty = TRUE]
    [] touch = "log" /\ d.tab = "traces" -> SendCommand(d, queued)
    [] touch \in {"sprotz", "marker"} /\ d.tab = "traces"
         /\ d.status.state = "Recording" -> SendCommand(d, queued)
    [] OTHER -> d

\* begin() with initializeSprites, which draws when the sprites fit.
FreshDisplay ==
  [ready |-> FALSE, attempts |-> 1, tab |-> "compact", page |-> "left", paused |-> FALSE,
   dirty |-> TRUE, needLayout |-> TRUE, loggerDirty |-> TRUE,
   needControls |-> TRUE, rejected |-> FALSE, snapshot |-> NoSnapshot,
   status |-> [state |-> "Initializing", active |-> FALSE], sampled |-> 0,
   drawnTab |-> NoTab]

BlankScreen ==
  [tab |-> NoTab, key |-> 0, tiles |-> {}, state |-> NoMail, controls |-> NoMail]

ConsumersInit ==
  /\ consoleLine = <<>> /\ consolePc = "read" /\ tabRequest = NoTab
  /\ requestedTab = [tab |-> NoTab, sequence |-> 0]
  /\ appliedTab = requestedTab /\ renderedTab = requestedTab /\ tabSequence = 0
  /\ statusBox = NoMail /\ snapshotBox = NoMail
  /\ displayPc = "exchange" /\ taken = NoTab
  /\ display = FreshDisplay /\ screen = BlankScreen

-----------------------------------------------------------------------------
(***************************************************************************)
(* The serial console                                                      *)
(***************************************************************************)

\* The store of the request comes before its note in the trace, so the display
\* may take the request in between and trace it under the number before.
TabCommand(tab) ==
  /\ tabRequest' = tab /\ consolePc' = "note"
  /\ UNCHANGED <<tabSequence, requestedTab>>

NoteTabRequest ==
  /\ consolePc = "note" /\ consolePc' = "read"
  /\ tabSequence' = tabSequence + 1
  /\ requestedTab' = [tab |-> tabRequest, sequence |-> tabSequence']
  /\ UNCHANGED <<consoleLine, tabRequest, appliedTab, renderedTab, boxes, displayPc,
                 taken, display, screen>>

\* processChar at a line end: what is not a TAB command answers, and a logger
\* command is queued or refused.
LineEnd ==
  /\ consolePc = "read" /\ consoleLine # <<>>
  /\ consoleLine' = <<>>
  /\ IF consoleLine \in DOMAIN Words /\ Words[consoleLine] \in Tabs
     THEN tabSequence < MaxTabSequence /\ TabCommand(Words[consoleLine])
     ELSE UNCHANGED <<tabRequest, consolePc, tabSequence, requestedTab>>
  /\ UNCHANGED <<appliedTab, renderedTab, boxes, displayPc, taken, display, screen>>

\* processChar otherwise: a line that is too long is forgotten, the letter that
\* overflows it included, and the rest of it begins a new one.
Letter ==
  /\ consolePc = "read"
  /\ \E l \in Letters :
       consoleLine' = IF Len(consoleLine) + 1 < LineLength
                      THEN Append(consoleLine, l) ELSE <<>>
  /\ UNCHANGED <<consolePc, tabSequence, requestedTab, tabRequest, appliedTab,
                 renderedTab, boxes, displayPc, taken, display, screen>>

-----------------------------------------------------------------------------
(***************************************************************************)
(* The display task                                                        *)
(***************************************************************************)

PublishStatus ==
  /\ statusBox' \in Statuses \ {statusBox}
  /\ UNCHANGED <<console, tabRequest, appliedTab, renderedTab, snapshotBox,
                 displayPc, taken, display, screen>>

PublishSnapshot ==
  /\ snapshotBox' \in Snapshots \ {snapshotBox}
  /\ UNCHANGED <<console, tabRequest, appliedTab, renderedTab, statusBox,
                 displayPc, taken, display, screen>>

\* serial_tab_request.exchange(255)
TakeTabRequest ==
  /\ displayPc = "exchange" /\ displayPc' = "update"
  /\ taken' = tabRequest /\ tabRequest' = NoTab
  /\ UNCHANGED <<console, appliedTab, renderedTab, boxes, display, screen>>

\* setTabFromSerial and the two receives
Received ==
  LET d0 == IF taken = NoTab THEN display ELSE SetTabFromSerial(display, taken)
      d1 == IF snapshotBox = NoMail THEN d0 ELSE AcceptSnapshot(d0, snapshotBox)
  IN  IF statusBox = NoMail THEN d1 ELSE ConsumeStatus(d1, statusBox)

\* draw()
Draw(d) ==
  /\ screen' = Drawn(d) /\ display' = AfterDraw(d)
  /\ renderedTab' = IF d.needLayout \/ d.drawnTab # d.tab
                    THEN [tab |-> d.tab, sequence |-> appliedTab'.sequence]
                    ELSE renderedTab

\* update() while the sprites do not fit: some tries, then none.
UpdateSprites ==
  \/ display' = Received /\ UNCHANGED <<screen, renderedTab>>
  \/ /\ Received.attempts < SpriteAttempts
     /\ LET d == [Received EXCEPT !.attempts = @ + 1]
        IN  \/ display' = d /\ UNCHANGED <<screen, renderedTab>>
            \/ Draw([d EXCEPT !.ready = TRUE, !.needLayout = TRUE,
                              !.drawnTab = NoTab])

\* update() otherwise: touch, sample, and draw when something changed and the
\* refresh period is over ("due").
Update(touch, queued, sampleDue, due) ==
  LET d == SampleIfDue(HandleTouch(Received, touch, queued), sampleDue)
  IN  IF (d.dirty \/ d.loggerDirty) /\ due THEN Draw(d)
      ELSE display' = d /\ UNCHANGED <<screen, renderedTab>>

\* Where a touch changes the tab, the request is traced by the display itself.
TouchesTab(touch) == display.ready /\ touch \in Tabs /\ touch # Received.tab

TraceTab(touch) ==
  IF TouchesTab(touch)
  THEN /\ tabSequence < MaxTabSequence
       /\ tabSequence' = tabSequence + 1
       /\ requestedTab' = [tab |-> touch, sequence |-> tabSequence']
       /\ appliedTab' = requestedTab'
  ELSE /\ UNCHANGED <<tabSequence, requestedTab>>
       /\ appliedTab' = IF taken = NoTab THEN appliedTab
                        ELSE [tab |-> taken, sequence |-> requestedTab.sequence]

DisplayLoop(due) ==
  /\ displayPc = "update" /\ displayPc' = "exchange"
  /\ taken' = NoTab /\ statusBox' = NoMail /\ snapshotBox' = NoMail
  /\ \E touch \in Touches, queued, sampleDue \in BOOLEAN :
       /\ TraceTab(touch)
       /\ IF display.ready THEN Update(touch, queued, sampleDue, due)
          ELSE touch = "none" /\ UpdateSprites
  /\ UNCHANGED <<consoleLine, consolePc, tabRequest>>

ConsumersNext ==
  \/ Letter \/ LineEnd \/ NoteTabRequest
  \/ PublishStatus \/ PublishSnapshot
  \/ TakeTabRequest \/ \E due \in BOOLEAN : DisplayLoop(due)

\* The display task loops, and its refresh period passes again and again.
ConsumersFairness ==
  WF_consumersVars(TakeTabRequest) /\ SF_consumersVars(DisplayLoop(TRUE))

ConsumersSpec == ConsumersInit /\ [][ConsumersNext]_consumersVars /\ ConsumersFairness
-----------------------------------------------------------------------------
(***************************************************************************)
(* Properties                                                              *)
(***************************************************************************)

Wanted ==
  [tab |-> display.tab, key |-> display.snapshot.key,
   tiles |-> screen.tiles, state |-> display.status,
   controls |-> IF display.tab = "traces" THEN display.status ELSE NoMail]

\* Once the sprites are there, the screen catches up with the tab asked for, the
\* last snapshot and the last logger state, buttons included, whichever of the
\* flags dirty_, loggerDirty_, needLayout_ and needLoggerControls_ the way there
\* sets and clears.
ScreenFollows == display.ready /\ screen # Wanted ~> screen = Wanted
=============================================================================
