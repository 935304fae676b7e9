------------------------------ MODULE StepControl ------------------------------
(***************************************************************************)
(* Control_Mon_demo: the stepper motor, which the interrupt of timer PIT1  *)
(* steps (stepper.cpp), and the knob that controls it: EncodeStep,         *)
(* ButtonChange and ButtonDoubleClick (main.cpp), which the encoder's      *)
(* interrupt of PIT3 calls.  Both handlers run with SR 0x2600, so that     *)
(* neither interrupts the other, and a handler's call is one step here.    *)
(* The knob may be turned and pressed between any two interrupts of PIT1.  *)
(*                                                                         *)
(* A modulus or a prescaler is the speed it was computed for.  No task     *)
(* calls the stepper library once UserMain has enabled the encoder, except *)
(* InputTask with what ParseInput reads from an empty buffer, which is     *)
(* left out.  EncodeStep's "restart the pit" is left out as well: every    *)
(* path to it has just written a pcsr with the bit it looks for.           *)
(***************************************************************************)
EXTENDS Integers

CONSTANTS
  MaxSpeed,     \* STEPPER_MAX_SPEED
  SpeedPerStep, \* 10: at speed s a click of the knob is s / 10 steps
  SeqLen,       \* seqLen: the phases of the motor
  IntRange,     \* 2^31: stepsTaken is an int32_t
  MaxRem        \* bound on stepsRem

ASSUME StepAssumption ==
  /\ MaxSpeed \in Nat \ {0}
  /\ SpeedPerStep \in Nat \ {0}
  /\ SeqLen \in Nat \ {0}
  /\ IntRange \in Nat \ {0}
  /\ (2 * IntRange) % SeqLen = 0
  /\ MaxRem \in Nat

(* stepSpeed, stepDir, stepForever and keyUp of main.cpp *)
VARIABLES stepSpeed, stepDir, stepForever, keyUp

(* Steppers[1], and the motor's seqIndex *)
VARIABLES stepsRem, stepsTaken, runForever, dir, done, seqIndex

VARIABLES
  pie,          \* whether PIT1 interrupts: bit 3 of its pcsr
  pmr,          \* its modulus
  prescale,     \* the prescaler in its pcsr
  new_pmr,      \* the modulus for the next interrupt to set, or 0
  pit_pcsr_clr, \* the prescaler for the next interrupt to set
  stale         \* history: ConfigureStepperTimer left another rate's new_pmr

knobVars == <<stepSpeed, stepDir, stepForever, keyUp>>
pitVars  == <<pie, pmr, prescale, new_pmr, pit_pcsr_clr, stale>>
motor    == <<stepsTaken, seqIndex>>
stepVars == <<knobVars, pitVars, motor, stepsRem, runForever, dir, done>>

Dir   == {-1, 1}
Speed == 1..MaxSpeed

(* UserMain has called StartStepper, and EnableEncoder has called          *)
(* ButtonChange with the state of the button.                              *)
StepInit ==
  /\ stepSpeed = MaxSpeed
  /\ stepDir = 1
  /\ stepForever = TRUE
  /\ keyUp \in BOOLEAN
  /\ stepsRem = 0 /\ stepsTaken = 0 /\ seqIndex = 0
  /\ runForever = TRUE
  /\ dir = 1
  /\ done = FALSE
  /\ pie = TRUE
  /\ pmr = MaxSpeed /\ prescale = MaxSpeed /\ pit_pcsr_clr = MaxSpeed
  /\ new_pmr = 0
  /\ stale = FALSE

Wrapped(i) == ((i + IntRange) % (2 * IntRange)) - IntRange

(* Mutant of NextIndex: -1 becomes the first phase. *)
NextIndexToFirst ==
  IF seqIndex + dir < 0 THEN 0 ELSE (seqIndex + dir) % SeqLen

(* C's % of -1 is -1, which line 59 turns into seqLen - 1. *)
NextIndex ==
  IF seqIndex + dir < 0 THEN SeqLen - 1 ELSE (seqIndex + dir) % SeqLen

(* Mutant of Stepped: a step is not counted. *)
SteppedNoCount ==
  /\ stepsTaken' = Wrapped(stepsTaken + dir)
  /\ seqIndex' = NextIndex
  /\ IF ~runForever /\ stepsRem = 0
     THEN pie' = FALSE /\ done' = TRUE
     ELSE UNCHANGED <<pie, done>>
  /\ UNCHANGED stepsRem

(* StepperISR: a step, also when no step is left, and the end of a move. *)
Stepped ==
  /\ stepsTaken' = Wrapped(stepsTaken + dir)
  /\ seqIndex' = NextIndex
  /\ stepsRem' = IF ~runForever /\ stepsRem > 0 THEN stepsRem - 1 ELSE stepsRem
  /\ IF ~runForever /\ stepsRem' = 0
     THEN pie' = FALSE /\ done' = TRUE
     ELSE UNCHANGED <<pie, done>>

(* Mutant of StepPit1_ISR: the prescaler stays as it was. *)
StepPit1_ISRNoPrescaler ==
  /\ pie
  /\ pmr' = IF new_pmr # 0 THEN new_pmr ELSE pmr
  /\ new_pmr' = 0
  /\ Stepped
  /\ UNCHANGED <<knobVars, runForever, dir, prescale, pit_pcsr_clr, stale>>

StepPit1_ISR ==
  /\ pie
  /\ pmr' = IF new_pmr # 0 THEN new_pmr ELSE pmr
  /\ new_pmr' = 0
  /\ prescale' = pit_pcsr_clr
  /\ Stepped
  /\ UNCHANGED <<knobVars, runForever, dir, pit_pcsr_clr, stale>>

(* ConfigureStepperTimer also enables the interrupt, and it forgets the    *)
(* modulus that waits in new_pmr.                                          *)
ConfigureStepperTimer(speed) ==
  /\ pit_pcsr_clr' = speed
  /\ prescale' = speed
  /\ pmr' = speed
  /\ pie' = TRUE
  /\ stale' = (new_pmr \notin {0, speed})
  /\ UNCHANGED new_pmr

StartStepper(d, speed) ==
  /\ dir' = d
  /\ runForever' = TRUE
  /\ done' = FALSE
  /\ ConfigureStepperTimer(speed)
  /\ UNCHANGED stepsRem

ChangeStepRate(speed) ==
  /\ pit_pcsr_clr' = speed
  /\ new_pmr' = speed
  /\ stale' = FALSE
  /\ UNCHANGED <<pie, pmr, prescale>>

(* A click faster or slower: from the slowest speed, the other direction. *)
Turned(d) ==
  LET s == IF d = stepDir THEN stepSpeed + 1 ELSE stepSpeed - 1
  IN  /\ stepDir' = IF s <= 0 THEN -stepDir ELSE stepDir
      /\ stepSpeed' = IF s <= 0 THEN 1 - s
                      ELSE IF s > MaxSpeed THEN MaxSpeed ELSE s

(* EncodeStep, in its four branches: the motor runs forever. *)
EncodeForever(d) ==
  /\ stepForever
  /\ Turned(d)
  /\ StartStepper(stepDir', stepSpeed')
  /\ UNCHANGED <<stepForever, keyUp, motor>>

StepCount == IF stepSpeed \div SpeedPerStep # 0 THEN stepSpeed \div SpeedPerStep ELSE 1

(* The knob adds steps. *)
EncodeMore(d) ==
  /\ ~stepForever /\ keyUp
  /\ d = stepDir
  /\ stepsRem + StepCount <= MaxRem
  /\ stepsRem' = stepsRem + StepCount
  /\ done' = FALSE
  /\ ConfigureStepperTimer(stepSpeed)
  /\ UNCHANGED <<knobVars, motor, runForever, dir>>

(* Mutant of EncodeLess: the timer is not started, the move is not over. *)
EncodeLessNoTimer(d) ==
  /\ ~stepForever /\ keyUp
  /\ d # stepDir
  /\ stepsRem >= StepCount
  /\ stepsRem' = stepsRem - StepCount
  /\ done' = TRUE
  /\ UNCHANGED <<knobVars, pitVars, motor, runForever, dir>>

(* It takes steps away. *)
EncodeLess(d) ==
  /\ ~stepForever /\ keyUp
  /\ d # stepDir
  /\ stepsRem >= StepCount
  /\ stepsRem' = stepsRem - StepCount
  /\ done' = FALSE
  /\ ConfigureStepperTimer(stepSpeed)
  /\ UNCHANGED <<knobVars, motor, runForever, dir>>

(* It turns the motor around: more steps were to be taken away than left. *)
EncodeReverse(d) ==
  /\ ~stepForever /\ keyUp
  /\ d # stepDir
  /\ stepsRem < StepCount
  /\ stepsRem' = 0
  /\ stepDir' = -stepDir
  /\ dir' = stepDir'
  /\ done' = FALSE
  /\ ConfigureStepperTimer(stepSpeed)
  /\ UNCHANGED <<stepSpeed, stepForever, keyUp, motor, runForever>>

(* With the button down it changes the speed, at the next interrupt. *)
EncodeSpeed(d) ==
  /\ ~stepForever /\ ~keyUp
  /\ Turned(d)
  /\ dir' = IF stepDir' # stepDir THEN stepDir' ELSE dir
  /\ ChangeStepRate(stepSpeed')
  /\ UNCHANGED <<stepForever, keyUp, motor, stepsRem, runForever, done>>

ButtonChange(state) ==
  /\ keyUp' = state
  /\ UNCHANGED <<stepSpeed, stepDir, stepForever, motor, pitVars, stepsRem,
                 runForever, dir, done>>

(* The encoder calls ButtonDoubleClick when it has reported a release. *)
ButtonDoubleClick ==
  /\ keyUp
  /\ stepForever' = ~stepForever
  /\ IF stepForever'
     THEN StartStepper(stepDir, stepSpeed)
     ELSE runForever' = FALSE /\ UNCHANGED <<pitVars, stepsRem, dir, done>>
  /\ UNCHANGED <<stepSpeed, stepDir, keyUp, motor>>

EncodeStep(d) ==
  \/ EncodeForever(d)
  \/ EncodeMore(d)
  \/ EncodeLess(d)
  \/ EncodeReverse(d)
  \/ EncodeSpeed(d)

StepNext ==
  \/ StepPit1_ISR
  \/ \E d \in Dir : EncodeStep(d)
  \/ \E state \in BOOLEAN : ButtonChange(state)
  \/ ButtonDoubleClick

StepSpec == StepInit /\ [][StepNext]_stepVars

(* A timer that may interrupt does. *)
StepFairSpec == StepSpec /\ WF_stepVars(StepPit1_ISR)

-------------------------------------------------------------------------------
StepTypeOK ==
  /\ stepSpeed \in Speed
  /\ stepDir \in Dir /\ dir \in Dir
  /\ stepForever \in BOOLEAN /\ keyUp \in BOOLEAN
  /\ stepsRem \in 0..MaxRem
  /\ stepsTaken \in (-IntRange)..(IntRange - 1)
  /\ seqIndex \in 0..(SeqLen - 1)
  /\ runForever \in BOOLEAN /\ done \in BOOLEAN
  /\ pie \in BOOLEAN /\ stale \in BOOLEAN
  /\ pmr \in Speed /\ prescale \in Speed /\ pit_pcsr_clr \in Speed
  /\ new_pmr \in Speed \cup {0}

(***************************************************************************)
(* The timer interrupts exactly until the move is done, and a move that is *)
(* done has no step left: no click of the knob is left standing with the   *)
(* timer off.                                                              *)
(***************************************************************************)
RunsUntilDone ==
  /\ pie <=> ~done
  /\ done => stepsRem = 0 /\ ~runForever

(***************************************************************************)
(* The phase of the motor is its position: no change of direction, at any  *)
(* point of the sequence, and no wrap of stepsTaken loses a step.          *)
(***************************************************************************)
PhaseIsPosition == seqIndex = stepsTaken % SeqLen

(***************************************************************************)
(* What the report task tells the web page, stepDir and stepForever, is    *)
(* what the library does.                                                  *)
(***************************************************************************)
SidesAgree == dir = stepDir /\ runForever = stepForever

(***************************************************************************)
(* The timer runs, or at its next interrupt will run, at stepSpeed, which  *)
(* is never 0 (the library divides by it).  The two halves of a rate have  *)
(* separate ways to the timer, and the prescaler is always that of         *)
(* stepSpeed; the modulus is, unless one was left waiting in new_pmr when  *)
(* ConfigureStepperTimer set another.                                      *)
(***************************************************************************)
RateIsSpeed ==
  /\ stepSpeed \in Speed
  /\ stepSpeed = IF new_pmr # 0 THEN pit_pcsr_clr ELSE prescale
  /\ ~stale => stepSpeed = IF new_pmr # 0 THEN new_pmr ELSE pmr

(***************************************************************************)
(* Once the knob and the button are left alone, the motor comes to a stop  *)
(* or is one that runs forever.                                            *)
(***************************************************************************)
MotorStops == <>[][StepPit1_ISR]_stepVars => <>[](done \/ runForever)
=============================================================================
