----------------------------- MODULE AudioProbe -----------------------------
(***************************************************************************)
(* The audio probe: a menu of tests (ui_state.h), a capture in blocks of   *)
(* 250 ms into one PCM buffer, and the file written from that buffer, all  *)
(* advanced from one loop(): touch, console, capture, storage.  A block is *)
(* its number of the start it was recorded after; levels, drawing and the  *)
(* touch controller's reset are left out.                                  *)
(***************************************************************************)
EXTENDS Integers, Sequences

CONSTANTS
    TestCount,       \* kTestCount: 6
    BufferBlocks,    \* kMaxFrames / kChunkFrames: 120
    MaxStarts        \* bound of the model: calls of Mic.begin()

ASSUME ProbeAssumption == {TestCount, BufferBlocks, MaxStarts} \subseteq Nat \ {0}

VARIABLES
    service,         \* the part of loop() that runs next
    model,           \* UiModel
    touchWasDown,
    probeMic,             \* external: running, and the block it is recording, if any
    capture,         \* audio: frames in blocks, blockPending; captureChannels; start
    pcm,             \* audio.pcm, what was written past its end included
    results, pcmTest, \* captureResults
    storage,         \* StorageService, and the file
    starts

probeVars == <<service, model, touchWasDown, probeMic, capture, pcm, results, pcmTest,
               storage, starts>>

Tests == 0..(TestCount - 1)
NoTest == -1
WavBusy == storage.state \in {"Requested", "Data", "Verify"}

ProbeInit ==
    /\ service = "touch" /\ touchWasDown = FALSE /\ starts = 0
    /\ model = [state |-> "List", test |-> 0]
    /\ probeMic = [running |-> FALSE, recording |-> FALSE]
    /\ capture = [blocks |-> 0, pending |-> FALSE, levels |-> <<>>]
    /\ pcm = <<>> /\ pcmTest = NoTest
    /\ results = [t \in Tests |-> [available |-> FALSE, blocks |-> 0, levels |-> <<>>]]
    /\ storage = [state |-> "Idle", blocks |-> 0, file |-> <<>>]

(* dispatch: the state an accepted event leads to. *)
Dispatch(event, test) ==
    LET to(states, next) == IF model.state \in states THEN [model EXCEPT !.state = next]
                            ELSE model
    IN CASE event = "SelectTest" ->
              IF test \in Tests /\ model.state \notin {"Capturing", "StopConfirm"}
              THEN [state |-> "Detail", test |-> test] ELSE model
         [] event = "Activate" -> to({"Detail"}, "Capturing")
         [] event = "Stop" -> to({"Capturing"}, "StopConfirm")
         [] event = "Resume" -> to({"StopConfirm"}, "Capturing")
         [] event = "ConfirmStop" -> to({"StopConfirm"}, "Result")
         [] event = "Complete" -> to({"Capturing"}, "Result")
         [] event = "Repeat" -> to({"Result"}, "Detail")
         [] event = "Back" -> to({"Detail", "Result"}, "List")
         [] OTHER -> model

(* eventForTap: what a finger on a row means; the row of the selected test *)
(* has two halves.                                                         *)
EventForTap(row, left) ==
    CASE model.state = "List" -> "SelectTest"
      [] model.state # "List" /\ row # model.test ->
            IF model.state \in {"Detail", "Result"} THEN "SelectTest" ELSE "None"
      [] model.state = "Detail" /\ row = model.test -> "Activate"
      [] model.state = "Capturing" /\ row = model.test -> "Stop"
      [] model.state = "StopConfirm" /\ row = model.test ->
            IF left THEN "Resume" ELSE "ConfirmStop"
      [] model.state = "Result" /\ row = model.test ->
            IF left THEN "Repeat" ELSE "WriteWav"

(* A start that succeeds and does not resume clears the capture before it. *)
StartMicrophone(from) ==
    /\ starts < MaxStarts /\ starts' = starts + 1
    /\ \E success \in BOOLEAN :
         /\ probeMic' = [running |-> success, recording |-> FALSE]
         /\ IF success /\ from # "StopConfirm"
            THEN /\ capture' = [blocks |-> 0, pending |-> FALSE, levels |-> <<>>]
                 /\ pcmTest' = NoTest
                 /\ storage' = [storage EXCEPT !.state =
                                  IF @ \in {"Complete", "Failed"} THEN "Idle" ELSE @]
            ELSE UNCHANGED <<capture, pcmTest, storage>>
    /\ UNCHANGED results

(* finalizeCaptureResult: whatever the capture holds is the selected       *)
(* test's result.                                                          *)
FinalizeCaptureResult(blocks, levels) ==
    /\ results' = [results EXCEPT ![model.test] =
                     [available |-> TRUE, blocks |-> blocks, levels |-> levels]]
    /\ pcmTest' = model.test

StopMicrophone(next) ==
    /\ probeMic' = [running |-> FALSE, recording |-> FALSE]
    /\ capture' = [capture EXCEPT !.pending = FALSE]
    /\ IF next = "Result" THEN FinalizeCaptureResult(capture.blocks, capture.levels)
       ELSE UNCHANGED <<results, pcmTest>>
    /\ UNCHANGED <<storage, starts>>

RejectedAsBusyNever(event) == FALSE
RejectedAsBusy(event) == event = "Activate" /\ WavBusy

(* applyEvent, dispatch and the effect of the transition. *)
ApplyEvent(event, test) ==
    LET next == IF RejectedAsBusy(event) THEN model ELSE Dispatch(event, test)
    IN /\ model' = next
       /\ CASE next.state = "Capturing" /\ model.state # "Capturing" ->
                 StartMicrophone(model.state)
            [] next.state # "Capturing" /\ model.state = "Capturing" ->
                 StopMicrophone(next.state)
            [] model.state = "StopConfirm" /\ next.state = "Result" ->
                 /\ FinalizeCaptureResult(capture.blocks, capture.levels)
                 /\ UNCHANGED <<probeMic, capture, storage, starts>>
            [] event = "WriteWav" /\ model.state = "Result" ->
                 /\ storage' = [storage EXCEPT !.state =
                                  IF WavBusy THEN @ ELSE "Requested"]
                 /\ UNCHANGED <<probeMic, capture, results, pcmTest, starts>>
            [] OTHER -> UNCHANGED <<probeMic, capture, results, pcmTest, storage, starts>>
       /\ UNCHANGED pcm

(* serviceTouch, pollTouch: a press counts once; without one, or once the  *)
(* controller's line has been high for 30 ms, the next one counts again.   *)
ServiceTouch ==
    /\ service = "touch" /\ service' = "serial"
    /\ \/ \E row \in Tests, left \in BOOLEAN :
            /\ ~touchWasDown /\ touchWasDown' = TRUE
            /\ ApplyEvent(EventForTap(row, left), row)
       \/ touchWasDown' \in {FALSE, touchWasDown}
          /\ UNCHANGED <<model, probeMic, capture, pcm, results, pcmTest, storage, starts>>

(* executeCommand: LIST, WAV, SELECT n and NEXT go through the same        *)
(* function; pollSerial takes every command that has arrived.              *)
NextEvent ==
    [List |-> "SelectTest", Detail |-> "Activate", Capturing |-> "Stop",
     StopConfirm |-> "ConfirmStop", Result |-> "Repeat"][model.state]

ExecuteCommand ==
    /\ service = "serial"
    /\ \/ \E event \in {"Back", "WriteWav", NextEvent} : ApplyEvent(event, model.test)
       \/ \E number \in Tests \cup {TestCount} : ApplyEvent("SelectTest", number)
    /\ UNCHANGED <<service, touchWasDown>>

(* TOUCHRESET: the controller is started again (initializeTouchController) *)
(* and a finger still down counts as a new press.                          *)
TouchReset ==
    /\ service = "serial" /\ touchWasDown' = FALSE
    /\ UNCHANGED <<service, model, probeMic, capture, pcm, results, pcmTest, storage, starts>>

SerialEmpty ==
    /\ service = "serial" /\ service' = "capture"
    /\ UNCHANGED <<model, touchWasDown, probeMic, capture, pcm, results, pcmTest, storage, starts>>

(* The recording of a block ends by itself. *)
BlockRecorded ==
    /\ probeMic.recording /\ probeMic' = [probeMic EXCEPT !.recording = FALSE]
    /\ UNCHANGED <<service, model, touchWasDown, capture, pcm, results, pcmTest, storage, starts>>

(* CompleteCapture, with what the capture holds by then. *)
CompleteCapture(blocks, levels, samples) ==
    /\ model' = [model EXCEPT !.state = "Result"]
    /\ probeMic' = [running |-> FALSE, recording |-> FALSE]
    /\ capture' = [blocks |-> blocks, pending |-> FALSE, levels |-> levels]
    /\ FinalizeCaptureResult(blocks, levels)
    /\ pcm' = samples

(* memcpy to the place the blocks so far end at. *)
Stored(samples, blocks, block) ==
    [i \in 1..(IF blocks + 1 > Len(samples) THEN blocks + 1 ELSE Len(samples)) |->
        IF i = blocks + 1 THEN block ELSE samples[i]]

(* serviceAudioCapture: take the block that is ready, ask for the next. *)
ServiceAudioCapture ==
    /\ service = "capture" /\ service' = "storage"
    /\ UNCHANGED <<touchWasDown, storage, starts>>
    /\ LET ready == capture.pending /\ ~probeMic.recording
           blocks == capture.blocks + (IF ready THEN 1 ELSE 0)
           levels == IF ready THEN Append(capture.levels, starts) ELSE capture.levels
           samples == IF ready THEN Stored(pcm, capture.blocks, starts) ELSE pcm
       IN CASE model.state # "Capturing" \/ (probeMic.running /\ capture.pending /\ ~ready) ->
                 UNCHANGED <<model, probeMic, capture, pcm, results, pcmTest>>
            [] model.state = "Capturing" /\ ~probeMic.running ->
                 CompleteCapture(capture.blocks, capture.levels, pcm)
            [] model.state = "Capturing" /\ probeMic.running /\ ready /\ blocks >= BufferBlocks ->
                 CompleteCapture(blocks, levels, samples)
            [] OTHER ->
                 \/ /\ probeMic' = [probeMic EXCEPT !.recording = TRUE]
                    /\ capture' = [blocks |-> blocks, pending |-> TRUE, levels |-> levels]
                    /\ pcm' = samples
                    /\ UNCHANGED <<model, results, pcmTest>>
                 \/ CompleteCapture(blocks, levels, samples)

(* serviceStorage: open and write the header, a chunk, or read it back;    *)
(* each may fail.                                                          *)
ServiceStorage ==
    /\ service = "storage" /\ service' = "touch"
    /\ UNCHANGED <<model, touchWasDown, probeMic, capture, pcm, results, pcmTest, starts>>
    /\ \/ /\ WavBusy
          /\ storage' = [storage EXCEPT !.state = "Failed"]
       \/ /\ storage.state = "Requested"
          /\ pcmTest = model.test /\ results[model.test].available
          /\ results[model.test].blocks # 0
          /\ storage' = [state |-> "Data", blocks |-> results[model.test].blocks, file |-> <<>>]
       \/ /\ storage.state = "Data"
          /\ LET file == Append(storage.file, pcm[Len(storage.file) + 1])
             IN storage' = [storage EXCEPT !.file = file, !.state =
                              IF Len(file) < storage.blocks THEN "Data" ELSE "Verify"]
       \/ /\ storage.state = "Verify"
          /\ storage' = [storage EXCEPT !.state = "Complete"]
       \/ /\ ~WavBusy /\ UNCHANGED storage

ProbeNext ==
    \/ ServiceTouch \/ ExecuteCommand \/ TouchReset \/ SerialEmpty
    \/ BlockRecorded \/ ServiceAudioCapture \/ ServiceStorage

ProbeSpec == ProbeInit /\ [][ProbeNext]_probeVars

(***************************************************************************)
(* Properties                                                              *)
(***************************************************************************)

(* A file that is complete (serviceStorage) holds the blocks whose levels  *)
(* the selected test's result showed: no capture touches the buffer while  *)
(* it is written, chunk by chunk, between other services of loop().        *)
FileIsTheCapture ==
    storage.state = "Verify" =>
        /\ pcmTest \in Tests
        /\ results[pcmTest].levels = storage.file

(* README.md:105-106: "Bis zu 120 Bloecke beziehungsweise 30 Sekunden werden *)
(* in den vorab reservierten PCM-Puffer kopiert."  No block is copied past *)
(* the end of the buffer.                                                  *)
CaptureFitsBuffer == Len(pcm) <= BufferBlocks
=============================================================================
