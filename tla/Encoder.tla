-------------------------------- MODULE Encoder --------------------------------
(***************************************************************************)
(* Control_Mon_demo/encoder.cpp: the interrupt of timer PIT3 samples the   *)
(* two phases of the knob and its button once a millisecond, debounces     *)
(* them, and calls EncodeStep, ButtonChange and ButtonDoubleClick, which   *)
(* are the actions of StepControl.  A pin may have any level at any        *)
(* sample: contacts bounce.                                                *)
(***************************************************************************)
EXTENDS Integers

CONSTANTS
  DEBOUNCE_COUNT,
  DOUBLE_CLICK_COUNT,
  Range32 \* 2^32: lastButtonUp is a uint32_t

ASSUME EncoderAssumption ==
  /\ DEBOUNCE_COUNT \in Nat \ {0}
  /\ DOUBLE_CLICK_COUNT \in Nat
  /\ Range32 \in Nat \ {0}

Signal == {"a", "b", "zed"}

VARIABLES
  prev, lastStable, dupCount, \* the three EdgeCaptStruct
  lastButtonUp

(* What the last interrupt called, and history of the samples. *)
VARIABLES
  changed,  \* the signals it took for changed
  turned,   \* the directions it called EncoderEdgeFunc with
  clicked,  \* whether it called ButtonDoubleClickFunc
  run,      \* how many samples in a row were prev, counted to DEBOUNCE_COUNT+1
  gap,      \* samples since it was last taken for changed, counted likewise
  sinceUp   \* samples since a release set lastButtonUp to 0, or since the start

capture     == <<prev, lastStable, dupCount>>
history     == <<changed, turned, clicked, run, gap, sinceUp>>
encoderVars == <<capture, lastButtonUp, history>>

AtMost(n, max) == IF n <= max THEN n ELSE max

(* EnableEncoder reads the first levels, that of b from another pin.       *)
EncoderInit ==
  /\ prev \in [Signal -> BOOLEAN]
  /\ lastStable = prev
  /\ dupCount = [s \in Signal |-> 0]
  /\ lastButtonUp = Range32 - 1
  /\ changed = {} /\ turned = {} /\ clicked = FALSE
  /\ run = [s \in Signal |-> 1]
  /\ gap = [s \in Signal |-> DEBOUNCE_COUNT + 1]
  /\ sinceUp = -1

(* Mutant of Counted: the sample that differs counts. *)
CountedFromOne(s, cur) ==
  IF cur # prev[s] THEN 1 ELSE AtMost(dupCount[s] + 1, DEBOUNCE_COUNT)

(* The samples that were like the one before, until they are enough. *)
Counted(s, cur) ==
  IF cur # prev[s] THEN 0 ELSE AtMost(dupCount[s] + 1, DEBOUNCE_COUNT)

(* Mutant of Settles: one sample too early. *)
SettlesEarly(s, cur) ==
  cur = prev[s] /\ dupCount[s] < DEBOUNCE_COUNT /\ dupCount[s] + 1 >= DEBOUNCE_COUNT - 1
(* Mutant of Settles: compared before the increment, which its guard excludes. *)
SettlesNever(s, cur) ==
  cur = prev[s] /\ dupCount[s] < DEBOUNCE_COUNT /\ dupCount[s] = DEBOUNCE_COUNT
(* This sample is the one that makes them enough. *)
Settles(s, cur) ==
  cur = prev[s] /\ dupCount[s] < DEBOUNCE_COUNT /\ dupCount[s] + 1 = DEBOUNCE_COUNT

(* Mutant of DoubleClick: the release after any other. *)
DoubleClickLate == (lastButtonUp + 1) % Range32 <= DOUBLE_CLICK_COUNT + 1
(* At a release, with the count already incremented. *)
DoubleClick == (lastButtonUp + 1) % Range32 <= DOUBLE_CLICK_COUNT

EdgeCaptureISR ==
  \E cur \in [Signal -> BOOLEAN] :
    LET settling == {s \in Signal : Settles(s, cur[s])}
        release  == "zed" \in settling /\ cur["zed"]
        restart  == release /\ ~DoubleClick
    IN  /\ prev' = cur
        /\ dupCount' = [s \in Signal |-> Counted(s, cur[s])]
        /\ lastStable' = [s \in Signal |-> IF s \in settling THEN cur[s] ELSE lastStable[s]]
        /\ lastButtonUp' = IF restart THEN 0 ELSE (lastButtonUp + 1) % Range32
        /\ changed' = settling
        /\ turned' = {d \in {-1, 1} : /\ (IF d = 1 THEN "b" ELSE "a") \in settling
                                       /\ lastStable'["a"] /\ lastStable'["b"]}
        /\ clicked' = (release /\ DoubleClick)
        /\ run' = [s \in Signal |->
                     IF cur[s] = prev[s] THEN AtMost(run[s] + 1, DEBOUNCE_COUNT + 1) ELSE 1]
        /\ gap' = [s \in Signal |-> IF s \in changed THEN 1
                                    ELSE AtMost(gap[s] + 1, DEBOUNCE_COUNT + 1)]
        /\ sinceUp' = IF restart THEN 0 ELSE AtMost(sinceUp + 1, Range32)

EncoderSpec ==
  EncoderInit /\ [][EdgeCaptureISR]_encoderVars /\ WF_encoderVars(EdgeCaptureISR)

-------------------------------------------------------------------------------
EncoderTypeOK ==
  /\ prev \in [Signal -> BOOLEAN] /\ lastStable \in [Signal -> BOOLEAN]
  /\ dupCount \in [Signal -> 0..DEBOUNCE_COUNT]
  /\ lastButtonUp \in 0..Range32 - 1
  /\ changed \subseteq Signal /\ clicked \in BOOLEAN
  /\ run \in [Signal -> 1..DEBOUNCE_COUNT + 1]
  /\ gap \in [Signal -> 1..DEBOUNCE_COUNT + 1]
  /\ sinceUp \in -1..Range32

(***************************************************************************)
(* What is reported has stayed for DEBOUNCE_COUNT samples after the first, *)
(* however the contacts bounced before, and is what was seen.              *)
(***************************************************************************)
ReportIsDebounced ==
  \A s \in changed : run[s] > DEBOUNCE_COUNT /\ lastStable[s] = prev[s]

(***************************************************************************)
(* Between two reports of a signal, and so between two clicks of the knob  *)
(* by the same phase, lie more than DEBOUNCE_COUNT samples: bouncing does  *)
(* not drive the motor faster.  It does not say that the level differs: a  *)
(* bounce that is too short to be reported has the old level reported      *)
(* again, as a click of the knob if both phases are high.                  *)
(***************************************************************************)
ReportsAreSpaced == \A s \in changed : gap[s] > DEBOUNCE_COUNT

(***************************************************************************)
(* A double click is a second release within DOUBLE_CLICK_COUNT samples of *)
(* one that was not the second itself; or the first one so soon after the  *)
(* start; or any when the count has wrapped, 2^32 ms later.                *)
(***************************************************************************)
DoubleClickIsTimely ==
  clicked => /\ "zed" \in changed /\ lastStable["zed"]
             /\ sinceUp <= DOUBLE_CLICK_COUNT \/ sinceUp >= Range32

(***************************************************************************)
(* A level that stays is taken for stable in the end, whatever came before *)
(* it: no count is stuck at its limit, and what EnableEncoder read from    *)
(* the wrong pin is forgotten.                                             *)
(***************************************************************************)
LevelIsFollowed ==
  \A s \in Signal : \A level \in BOOLEAN :
    <>[](prev[s] = level) => <>[](lastStable[s] = level)
=============================================================================
