---------------------------- MODULE Programs_proofs ----------------------------
(***************************************************************************)
(* The theorems about the programs beside the kernel: the knob (Encoder)   *)
(* and the stepper it controls (StepControl), the receiver of DSPISlave-   *)
(* ToTCP (DspiRx) and the SWD programmer (Swd).  They share the lemmas     *)
(* about remainders.                                                       *)
(***************************************************************************)
EXTENDS Encoder, StepControl, DspiRx, Swd,
        SequenceTheorems, FiniteSetTheorems, TLAPS

-------------------------------------------------------------------------------
(* Arithmetic: a remainder is what is left of a multiple, *)
LEMMA Remainder ==
  ASSUME NEW L \in Nat \ {0}, NEW q \in Int, NEW r \in 0..(L - 1),
         NEW a \in Int, a = L * q + r
  PROVE  a % L = r
<1> DEFINE p == a \div L
           s == a % L
<1>1. p \in Int /\ s \in 0..(L - 1) /\ a = L * p + s
  OBVIOUS
<1> HIDE DEF p, s
<1>2. L * (q - p) = s - r
  BY <1>1
<1>3. CASE q - p >= 1
  <2>1. L * (q - p) >= L
    BY <1>1, <1>3
  <2> QED
    BY <1>1, <1>2, <2>1
<1>4. CASE q - p <= -1
  <2>1. L * (q - p) <= -L
    BY <1>1, <1>4
  <2> QED
    BY <1>1, <1>2, <2>1
<1>5. CASE q = p
  BY <1>1, <1>2, <1>5 DEF s
<1> QED
  BY <1>1, <1>3, <1>4, <1>5

(* and it does not change by a multiple more. *)
LEMMA Multiples ==
  ASSUME NEW a \in Int, NEW k \in Int, NEW L \in Nat \ {0}
  PROVE  (a + L * k) % L = a % L
<1> DEFINE p == a \div L
           s == a % L
<1>1. p \in Int /\ s \in 0..(L - 1) /\ a = L * p + s
  OBVIOUS
<1> HIDE DEF p, s
<1>2. /\ a + L * k = L * (p + k) + s
      /\ a + L * k \in Int /\ p + k \in Int
  BY <1>1
<1>3. (a + L * k) % L = s
  BY <1>1, <1>2, Remainder
<1> QED
  BY <1>3 DEF s

(* The next value of a counter that wraps.                                 *)
LEMMA Successor ==
  ASSUME NEW L \in Nat \ {0}, NEW x \in 0..L-1
  PROVE  (x + 1) % L = IF x + 1 = L THEN 0 ELSE x + 1
<1> DEFINE q == (x + 1) \div L
           r == (x + 1) % L
<1>1. q \in Int /\ r \in 0..L-1 /\ x + 1 = L * q + r
  OBVIOUS
<1> HIDE DEF q, r
<1>2. CASE q >= 2
  <2>1. L * q >= L + L
    BY <1>1, <1>2
  <2> QED
    BY <1>1, <2>1
<1>3. CASE q <= -1
  <2>1. L * q <= -L
    BY <1>1, <1>3
  <2> QED
    BY <1>1, <2>1
<1>4. CASE q = 0
  BY <1>1, <1>4 DEF r
<1>5. CASE q = 1
  BY <1>1, <1>5 DEF r
<1> QED
  BY <1>1, <1>2, <1>3, <1>4, <1>5

LEMMA Division ==
  ASSUME NEW L \in Nat \ {0}, NEW a \in Int
  PROVE  /\ a \div L \in Int /\ a % L \in 0..(L - 1)
         /\ a = L * (a \div L) + (a % L)
OBVIOUS

(* and the quotient with it. *)
LEMMA Quotient ==
  ASSUME NEW L \in Nat \ {0}, NEW q \in Int, NEW r \in 0..(L - 1),
         NEW a \in Int, a = L * q + r
  PROVE  a \div L = q
<1> DEFINE p == a \div L
           s == a % L
<1>1. p \in Int /\ s \in 0..(L - 1) /\ a = L * p + s
  OBVIOUS
<1>2. s = r
  BY Remainder
<1> HIDE DEF p, s
<1>3. L * (q - p) = 0
  BY <1>1, <1>2
<1>4. CASE q - p >= 1
  <2>1. L * (q - p) >= L
    BY <1>1, <1>4
  <2> QED
    BY <1>3, <2>1
<1>5. CASE q - p <= -1
  <2>1. L * (q - p) <= -L
    BY <1>1, <1>5
  <2> QED
    BY <1>3, <2>1
<1>6. CASE q = p
  BY <1>6 DEF p
<1> QED
  BY <1>1, <1>4, <1>5, <1>6

(* The multiple that a lies behind is one, *)
LEMMA Behind ==
  ASSUME NEW L \in Nat \ {0}, NEW a \in Nat
  PROVE  /\ a % L \in 0..(L - 1)
         /\ a - (a % L) \in Nat
         /\ (a - (a % L)) % L = 0
<1> DEFINE p == a \div L
           s == a % L
<1>1. p \in Int /\ s \in 0..(L - 1) /\ a = L * p + s
  OBVIOUS
<1> HIDE DEF p, s
<1>2. L * p = a - s /\ a - s = L * p + 0 /\ a - s \in Int
  BY <1>1
<1>3. (a - s) % L = 0
  <2>1. 0 \in 0..(L - 1)
    OBVIOUS
  <2> QED
    BY <1>1, <1>2, <2>1, Remainder
<1>4. a - s >= 0
  <2>1. CASE p <= -1
    <3>1. L * p <= -L
      BY <1>1, <2>1
    <3> QED
      BY <1>1, <3>1
  <2>2. CASE p >= 0
    <3>1. L * p >= 0
      BY <1>1, <2>2
    <3> QED
      BY <1>2, <3>1
  <2> QED
    BY <1>1, <2>1, <2>2
<1> QED
  BY <1>1, <1>2, <1>3, <1>4 DEF s

(* and the next one begins when a + 1 is one. *)
LEMMA Following ==
  ASSUME NEW L \in Nat \ {0}, NEW a \in Nat
  PROVE  /\ (a + 1) % L = 0 =>
              /\ (a + 1) - ((a + 1) % L) = a - (a % L) + L
              /\ a - (a % L) + L = a + 1
              /\ (a + 1) \div L = (a \div L) + 1
         /\ (a + 1) % L # 0 =>
              /\ (a + 1) - ((a + 1) % L) = a - (a % L)
              /\ (a + 1) \div L = a \div L
<1> DEFINE p == a \div L
           s == a % L
           b == a + 1
<1>1. p \in Int /\ s \in 0..(L - 1) /\ a = L * p + s /\ b \in Int /\ b = a + 1
  OBVIOUS
<1> HIDE DEF p, s, b
<1>2. CASE s + 1 = L
  <2> DEFINE q == p + 1
  <2>0. q \in Int /\ b \in Int /\ 0 \in 0..(L - 1)
    BY <1>1
  <2>1. b = L * q + 0
    BY <1>1, <1>2
  <2> HIDE DEF q
  <2>2. b % L = 0
    BY <2>0, <2>1, Remainder
  <2>3. b \div L = p + 1
    <3>1. b \div L = q
      BY <2>0, <2>1, Quotient
    <3> QED
      BY <3>1 DEF q
  <2>4. a - s + L = b
    BY <1>1, <1>2
  <2> QED
    BY <1>1, <2>2, <2>3, <2>4 DEF p, s, b
<1>3. CASE s + 1 < L
  <2>1. b = L * p + (s + 1) /\ s + 1 \in 0..(L - 1)
    BY <1>1, <1>3
  <2>2. b % L = s + 1
    BY <1>1, <2>1, Remainder
  <2>3. b \div L = p
    BY <1>1, <2>1, Quotient
  <2>4. b - (s + 1) = a - s /\ s + 1 # 0
    BY <1>1
  <2> QED
    BY <1>1, <2>2, <2>3, <2>4 DEF p, s, b
<1> QED
  BY <1>1, <1>2, <1>3

(* A step within the ring, and one over its end. *)
LEMMA Along ==
  ASSUME NEW L \in Nat \ {0}, NEW a \in Int, NEW i \in Int
  PROVE  /\ (a % L) + i \in 0..(L - 1) => (a + i) % L = (a % L) + i
         /\ (a % L) + i - L \in 0..(L - 1) => (a + i) % L = (a % L) + i - L
<1> DEFINE p == a \div L
           s == a % L
           b == a + i
<1>1. p \in Int /\ s \in Int /\ a = L * p + s
  BY Division
<1>2. b \in Int /\ b = a + i
  OBVIOUS
<1> HIDE DEF p, s, b
<1>3. ASSUME s + i \in 0..(L - 1)
      PROVE  b % L = s + i
  <2>1. b = L * p + (s + i)
    BY <1>1, <1>2
  <2> QED
    BY <1>1, <1>2, <1>3, <2>1, Remainder
<1>4. ASSUME s + i - L \in 0..(L - 1)
      PROVE  b % L = s + i - L
  <2> DEFINE q == p + 1
             r == s + i - L
  <2>1. q \in Int /\ L * q = L * p + L
    BY <1>1
  <2>2. r \in 0..(L - 1)
    BY <1>4
  <2>3. b = L * q + r
    BY <1>1, <1>2, <2>1
  <2> HIDE DEF q, r
  <2>4. q \in Int /\ b \in Int
    BY <1>2, <2>1
  <2>5. b % L = r
    BY <2>2, <2>3, <2>4, Remainder
  <2> QED
    BY <2>5 DEF r
<1> QED
  BY <1>3, <1>4 DEF s, b

(***************************************************************************)
(* A ring of two halves.  From a place that a half begins at, a half's     *)
(* places follow, and after them the other half.                           *)
(***************************************************************************)
LEMMA InRing ==
  ASSUME NEW H \in Nat \ {0}, NEW L \in Nat \ {0}, NEW a \in Int
  PROVE  L = H + H /\ a % L \in {0, H} =>
           /\ \A i \in 0..(H - 1) : (a + i) % L = (a % L) + i
           /\ (a + H) % L = H - (a % L)
<1> DEFINE s == a % L
           f(i) == (a + i) % L
<1>1. ASSUME NEW i \in Int
      PROVE  /\ s + i \in 0..(L - 1) => f(i) = s + i
             /\ s + i - L \in 0..(L - 1) => f(i) = s + i - L
  BY Along
<1> HIDE DEF s, f
<1>2. ASSUME L = H + H, s \in {0, H}
      PROVE  (\A i \in 0..(H - 1) : f(i) = s + i) /\ f(H) = H - s
  BY <1>1, <1>2
<1> QED
  BY <1>2 DEF s, f

(* The last L samples before sample a are in places other than a's. *)
LEMMA OtherPlace ==
  ASSUME NEW L \in Nat \ {0}, NEW a \in Int, NEW k \in Int, a - L < k, k < a
  PROVE  k % L # a % L
<1> DEFINE p == a \div L
           q == k \div L
           s == a % L
<1>0. p \in Int /\ s \in 0..(L - 1) /\ a = L * p + s
  OBVIOUS
<1>1. q \in Int /\ k = L * q + (k % L)
  BY Division
<1> SUFFICES ASSUME k % L = a % L
             PROVE  FALSE
  OBVIOUS
<1>2. k = L * q + s
  BY <1>1
<1> HIDE DEF p, q, s
<1>3. L * (p - q) = a - k
  BY <1>0, <1>1, <1>2
<1>4. CASE p - q >= 1
  <2>1. L * (p - q) >= L
    BY <1>0, <1>1, <1>4
  <2> QED
    BY <1>3, <2>1
<1>5. CASE p - q <= 0
  <2>1. L * (p - q) <= 0
    BY <1>0, <1>1, <1>5
  <2> QED
    BY <1>3, <2>1
<1> QED
  BY <1>0, <1>1, <1>4, <1>5

-------------------------------------------------------------------------------
(***************************************************************************)
(* Encoder: what is reported of the knob and the button, for any debounce  *)
(* and double-click times, any width of the counter and any samples.       *)
(***************************************************************************)
(***************************************************************************)
(* The inductive invariant: the code's counts are those of the history.    *)
(* dupCount has not reached its limit only if the last report lies further *)
(* back than the level it counts; lastButtonUp is sinceUp until it wraps.  *)
(***************************************************************************)
CountInv ==
  \A s \in Signal : /\ run[s] = dupCount[s] + 1
                    /\ s \in changed => dupCount[s] = DEBOUNCE_COUNT
                    /\ dupCount[s] < DEBOUNCE_COUNT => gap[s] > dupCount[s]

ButtonInv ==
  sinceUp < Range32 =>
    lastButtonUp = IF sinceUp = -1 THEN Range32 - 1 ELSE sinceUp

EncoderInv ==
  EncoderTypeOK /\ CountInv /\ ButtonInv
  /\ ReportIsDebounced /\ ReportsAreSpaced /\ DoubleClickIsTimely

-------------------------------------------------------------------------------
LEMMA InitEncoder ==
  ASSUME EncoderInit
  PROVE  EncoderInv
<1>1. /\ DEBOUNCE_COUNT \in Nat /\ DEBOUNCE_COUNT >= 1
      /\ Range32 \in Nat /\ Range32 >= 1
  BY EncoderAssumption
<1>2. EncoderTypeOK
  <2>1. /\ 0 \in 0..DEBOUNCE_COUNT /\ 1 \in 1..DEBOUNCE_COUNT+1
        /\ DEBOUNCE_COUNT + 1 \in 1..DEBOUNCE_COUNT+1
        /\ Range32 - 1 \in 0..Range32-1 /\ -1 \in -1..Range32
    BY <1>1
  <2>2. /\ prev \in [Signal -> BOOLEAN] /\ lastStable = prev
        /\ dupCount = [s \in Signal |-> 0]
        /\ run = [s \in Signal |-> 1]
        /\ gap = [s \in Signal |-> DEBOUNCE_COUNT + 1]
        /\ lastButtonUp = Range32 - 1 /\ sinceUp = -1
        /\ changed = {} /\ clicked = FALSE
    BY DEF EncoderInit
  <2> QED
    BY <2>1, <2>2 DEF EncoderTypeOK
<1>3. CountInv /\ ButtonInv
  BY <1>1 DEF EncoderInit, CountInv, ButtonInv
<1>4. ReportIsDebounced /\ ReportsAreSpaced /\ DoubleClickIsTimely
  BY <1>1 DEF EncoderInit, ReportIsDebounced, ReportsAreSpaced, DoubleClickIsTimely
<1> QED
  BY <1>2, <1>3, <1>4 DEF EncoderInv

(* One sample of one signal.                                               *)
LEMMA SampleOne ==
  ASSUME EncoderInv, NEW cur \in [Signal -> BOOLEAN], NEW s \in Signal,
         NEW d, d = Counted(s, cur[s]),
         NEW r, r = IF cur[s] = prev[s] THEN AtMost(run[s] + 1, DEBOUNCE_COUNT + 1) ELSE 1,
         NEW g, g = IF s \in changed THEN 1 ELSE AtMost(gap[s] + 1, DEBOUNCE_COUNT + 1)
  PROVE  /\ d \in 0..DEBOUNCE_COUNT
         /\ r \in 1..DEBOUNCE_COUNT+1 /\ g \in 1..DEBOUNCE_COUNT+1
         /\ r = d + 1
         /\ Settles(s, cur[s]) => d = DEBOUNCE_COUNT /\ g > DEBOUNCE_COUNT
         /\ d < DEBOUNCE_COUNT => g > d
<1>1. /\ DEBOUNCE_COUNT \in Nat /\ DEBOUNCE_COUNT >= 1
      /\ dupCount[s] \in 0..DEBOUNCE_COUNT
      /\ run[s] = dupCount[s] + 1 /\ gap[s] \in 1..DEBOUNCE_COUNT+1
      /\ s \in changed => dupCount[s] = DEBOUNCE_COUNT
      /\ dupCount[s] < DEBOUNCE_COUNT => gap[s] > dupCount[s]
  BY EncoderAssumption DEF EncoderInv, EncoderTypeOK, CountInv
<1> QED
  BY <1>1 DEF Counted, Settles, AtMost

LEMMA StepEncoder ==
  ASSUME EncoderInv, EdgeCaptureISR
  PROVE  EncoderInv'
<1> DEFINE settled(cur) == {s \in Signal : Settles(s, cur[s])}
<1>1. PICK cur \in [Signal -> BOOLEAN] :
        LET settling == settled(cur)
            release  == "zed" \in settling /\ cur["zed"]
            restart  == release /\ ~DoubleClick
        IN  /\ prev' = cur
            /\ dupCount' = [s \in Signal |-> Counted(s, cur[s])]
            /\ lastStable' = [s \in Signal |-> IF s \in settling THEN cur[s] ELSE lastStable[s]]
            /\ lastButtonUp' = IF restart THEN 0 ELSE (lastButtonUp + 1) % Range32
            /\ changed' = settling
            /\ clicked' = (release /\ DoubleClick)
            /\ run' = [s \in Signal |->
                         IF cur[s] = prev[s] THEN AtMost(run[s] + 1, DEBOUNCE_COUNT + 1) ELSE 1]
            /\ gap' = [s \in Signal |-> IF s \in changed THEN 1
                                        ELSE AtMost(gap[s] + 1, DEBOUNCE_COUNT + 1)]
            /\ sinceUp' = IF restart THEN 0 ELSE AtMost(sinceUp + 1, Range32)
  BY DEF EdgeCaptureISR
<1> DEFINE settling == settled(cur)
           release  == "zed" \in settling /\ cur["zed"]
           restart  == release /\ ~DoubleClick
<1>2. /\ dupCount' = [s \in Signal |-> Counted(s, cur[s])]
      /\ run' = [s \in Signal |->
                   IF cur[s] = prev[s] THEN AtMost(run[s] + 1, DEBOUNCE_COUNT + 1) ELSE 1]
      /\ gap' = [s \in Signal |-> IF s \in changed THEN 1
                                  ELSE AtMost(gap[s] + 1, DEBOUNCE_COUNT + 1)]
  BY <1>1
<1>3. prev' = cur /\ changed' = settling /\ settling \subseteq Signal
      /\ \A s \in Signal : s \in settling <=> Settles(s, cur[s])
  BY <1>1
<1>4. lastStable' = [s \in Signal |-> IF s \in settling THEN cur[s] ELSE lastStable[s]]
  BY <1>1
<1>5. /\ lastButtonUp' = IF restart THEN 0 ELSE (lastButtonUp + 1) % Range32
      /\ clicked' = (release /\ DoubleClick)
      /\ sinceUp' = IF restart THEN 0 ELSE AtMost(sinceUp + 1, Range32)
  BY <1>1
<1>6. \A s \in Signal :
        /\ dupCount'[s] \in 0..DEBOUNCE_COUNT
        /\ run'[s] \in 1..DEBOUNCE_COUNT+1 /\ gap'[s] \in 1..DEBOUNCE_COUNT+1
        /\ run'[s] = dupCount'[s] + 1
        /\ s \in settling => dupCount'[s] = DEBOUNCE_COUNT /\ gap'[s] > DEBOUNCE_COUNT
        /\ dupCount'[s] < DEBOUNCE_COUNT => gap'[s] > dupCount'[s]
  <2> TAKE s \in Signal
  <2>1. /\ dupCount'[s] = Counted(s, cur[s])
        /\ run'[s] = IF cur[s] = prev[s] THEN AtMost(run[s] + 1, DEBOUNCE_COUNT + 1) ELSE 1
        /\ gap'[s] = IF s \in changed THEN 1 ELSE AtMost(gap[s] + 1, DEBOUNCE_COUNT + 1)
    BY <1>2
  <2> QED
    BY <1>3, <2>1, SampleOne
<1> HIDE DEF settling
<1>7. /\ Range32 \in Nat /\ Range32 >= 1 /\ DOUBLE_CLICK_COUNT \in Nat
      /\ DEBOUNCE_COUNT \in Nat
      /\ lastButtonUp \in 0..Range32-1 /\ sinceUp \in -1..Range32
  BY EncoderAssumption DEF EncoderInv, EncoderTypeOK
<1>8. (lastButtonUp + 1) % Range32 = IF lastButtonUp + 1 = Range32 THEN 0 ELSE lastButtonUp + 1
  BY <1>7, Successor
<1>9. ButtonInv
  BY DEF EncoderInv
<1>10. /\ lastButtonUp' \in 0..Range32-1 /\ sinceUp' \in -1..Range32 /\ clicked' \in BOOLEAN
  BY <1>5, <1>7, <1>8 DEF AtMost
<1>11. EncoderTypeOK'
  <2>1. prev' \in [Signal -> BOOLEAN] /\ lastStable' \in [Signal -> BOOLEAN]
    BY <1>3, <1>4 DEF EncoderInv, EncoderTypeOK
  <2>2. /\ dupCount' \in [Signal -> 0..DEBOUNCE_COUNT]
        /\ run' \in [Signal -> 1..DEBOUNCE_COUNT + 1]
        /\ gap' \in [Signal -> 1..DEBOUNCE_COUNT + 1]
    BY <1>2, <1>6
  <2> QED
    BY <1>3, <1>10, <2>1, <2>2 DEF EncoderTypeOK
<1>12. CountInv'
  BY <1>3, <1>6 DEF CountInv
<1>13. ButtonInv'
  BY <1>5, <1>7, <1>8, <1>9 DEF ButtonInv, AtMost
<1>14. ReportIsDebounced'
  <2>1. \A s \in settling : s \in Signal /\ lastStable'[s] = cur[s]
    BY <1>3, <1>4
  <2> QED
    BY <1>3, <1>6, <1>7, <2>1 DEF ReportIsDebounced
<1>15. ReportsAreSpaced'
  BY <1>3, <1>6 DEF ReportsAreSpaced
<1>16. DoubleClickIsTimely'
  <2> SUFFICES ASSUME clicked'
               PROVE  /\ "zed" \in settling /\ lastStable'["zed"]
                      /\ sinceUp' <= DOUBLE_CLICK_COUNT \/ sinceUp' >= Range32
    BY <1>3 DEF DoubleClickIsTimely
  <2>1. "zed" \in settling /\ cur["zed"] /\ DoubleClick /\ "zed" \in Signal
    BY <1>5 DEF Signal
  <2>2. lastStable'["zed"]
    BY <1>4, <2>1
  <2>3. (lastButtonUp + 1) % Range32 <= DOUBLE_CLICK_COUNT
    BY <2>1 DEF DoubleClick
  <2>4. sinceUp' = AtMost(sinceUp + 1, Range32)
    BY <1>5, <2>1
  <2>5. sinceUp' <= DOUBLE_CLICK_COUNT \/ sinceUp' >= Range32
    BY <1>7, <1>8, <1>9, <2>3, <2>4 DEF ButtonInv, AtMost
  <2> QED
    BY <2>1, <2>2, <2>5
<1> QED
  BY <1>11, <1>12, <1>13, <1>14, <1>15, <1>16 DEF EncoderInv

THEOREM EncoderInvariant == EncoderSpec => []EncoderInv
<1>1. EncoderInit => EncoderInv
  BY InitEncoder
<1>2. EncoderInv /\ [EdgeCaptureISR]_encoderVars => EncoderInv'
  <2>1. ASSUME EncoderInv, UNCHANGED encoderVars PROVE EncoderInv'
    BY <2>1 DEF encoderVars, capture, history, EncoderInv, EncoderTypeOK, CountInv, ButtonInv,
                ReportIsDebounced, ReportsAreSpaced, DoubleClickIsTimely
  <2> QED
    BY <2>1, StepEncoder
<1> QED
  BY <1>1, <1>2, PTL DEF EncoderSpec

(***************************************************************************)
(* A level is reported only after it has stayed for DEBOUNCE_COUNT samples *)
(* after the first.                                                        *)
(***************************************************************************)
THEOREM EncoderDebounces == EncoderSpec => []ReportIsDebounced
<1>1. EncoderInv => ReportIsDebounced
  BY DEF EncoderInv
<1> QED
  BY <1>1, EncoderInvariant, PTL

(***************************************************************************)
(* More than DEBOUNCE_COUNT samples lie between two reports of a signal.   *)
(***************************************************************************)
THEOREM EncoderSpaces == EncoderSpec => []ReportsAreSpaced
<1>1. EncoderInv => ReportsAreSpaced
  BY DEF EncoderInv
<1> QED
  BY <1>1, EncoderInvariant, PTL

(***************************************************************************)
(* A double click is the second release within its time, or one soon after *)
(* the start, or one when the counter has wrapped.                         *)
(***************************************************************************)
THEOREM EncoderDoubleClicks == EncoderSpec => []DoubleClickIsTimely
<1>1. EncoderInv => DoubleClickIsTimely
  BY DEF EncoderInv
<1> QED
  BY <1>1, EncoderInvariant, PTL

-------------------------------------------------------------------------------
(***************************************************************************)
(* StepControl, for every range of speeds: the timer interrupts exactly    *)
(* until the move is done, main.cpp and stepper.cpp agree on direction and *)
(* mode, the timer's rate is stepSpeed, and the motor's phase follows its  *)
(* position, also where the position wraps.                                *)
(***************************************************************************)

(* What the rate rests on: the types of the speeds and moduli, that the    *)
(* prescaler for the next interrupt is that of stepSpeed, and where a      *)
(* modulus may wait.                                                       *)
RateInv ==
  /\ stepSpeed \in Speed
  /\ stepDir \in Dir
  /\ pmr \in Speed /\ prescale \in Speed
  /\ new_pmr \in Speed \cup {0}
  /\ pit_pcsr_clr = stepSpeed
  /\ ~stale => stepSpeed = IF new_pmr # 0 THEN new_pmr ELSE pmr
  /\ new_pmr = 0 => prescale = stepSpeed

RunInv == stepsRem \in Nat /\ pie \in BOOLEAN /\ done \in BOOLEAN /\ RunsUntilDone

StepInv == RateInv /\ RunInv /\ SidesAgree

LEMMA InitStep ==
  ASSUME StepInit
  PROVE  StepInv
<1> USE DEF StepInit
<1>1. RateInv
  BY StepAssumption DEF RateInv, Speed, Dir
<1>2. RunInv
  BY DEF RunInv, RunsUntilDone
<1>3. SidesAgree
  BY DEF SidesAgree
<1> QED
  BY <1>1, <1>2, <1>3 DEF StepInv

(* A click keeps the speed in its range, also where it turns around. *)
LEMMA TurnedInRange ==
  ASSUME NEW d \in Dir, stepSpeed \in Speed, stepDir \in Dir, Turned(d)
  PROVE  stepSpeed' \in Speed /\ stepDir' \in Dir
BY StepAssumption DEF Turned, Speed, Dir

LEMMA StepCountIsNat ==
  ASSUME stepSpeed \in Speed
  PROVE  StepCount \in Nat
BY StepAssumption DEF StepCount, Speed

LEMMA ISRStep ==
  ASSUME StepInv, StepPit1_ISR
  PROVE  StepInv'
<1> USE DEF StepInv, StepPit1_ISR, knobVars
<1>1. RateInv'
  BY StepAssumption DEF RateInv, Speed
<1>2. RunInv'
  <2>1. stepsRem' \in Nat
    BY DEF RunInv, Stepped
  <2>2. CASE ~runForever /\ stepsRem' = 0
    BY <2>1, <2>2, Zenon DEF RunInv, RunsUntilDone, Stepped
  <2>3. CASE ~(~runForever /\ stepsRem' = 0)
    BY <2>1, <2>3, Zenon DEF RunInv, RunsUntilDone, Stepped
  <2> QED
    BY <2>2, <2>3
<1>3. SidesAgree'
  BY DEF SidesAgree
<1> QED
  BY <1>1, <1>2, <1>3

LEMMA ForeverStep ==
  ASSUME StepInv, NEW d \in Dir, EncodeForever(d)
  PROVE  StepInv'
<1> USE DEF StepInv, EncodeForever, StartStepper, ConfigureStepperTimer
<1>1. stepSpeed' \in Speed /\ stepDir' \in Dir
  BY TurnedInRange DEF RateInv
<1>2. RateInv'
  BY <1>1 DEF RateInv
<1>3. RunInv'
  BY DEF RunInv, RunsUntilDone
<1>4. SidesAgree'
  BY DEF SidesAgree
<1> QED
  BY <1>2, <1>3, <1>4

(* The three branches in which the knob counts steps. *)
LEMMA CountedStep ==
  ASSUME StepInv, NEW d \in Dir, EncodeMore(d) \/ EncodeLess(d) \/ EncodeReverse(d)
  PROVE  StepInv'
<1> USE DEF StepInv, EncodeMore, EncodeLess, EncodeReverse,
            ConfigureStepperTimer, knobVars
<1>1. RateInv'
  <2>1. stepDir' \in Dir /\ stepSpeed' = stepSpeed
    BY DEF RateInv, Dir
  <2>2. /\ pit_pcsr_clr' = stepSpeed /\ prescale' = stepSpeed /\ pmr' = stepSpeed
        /\ new_pmr' = new_pmr
        /\ stale' = (new_pmr \notin {0, stepSpeed})
    OBVIOUS
  <2> QED
    BY <2>1, <2>2 DEF RateInv
<1>2. RunInv'
  <2>1. StepCount \in Nat
    BY StepCountIsNat DEF RateInv
  <2>2. stepsRem' \in Nat
    BY <2>1 DEF RunInv
  <2>3. pie' = TRUE /\ done' = FALSE
    OBVIOUS
  <2> QED
    BY <2>2, <2>3, Zenon DEF RunInv, RunsUntilDone
<1>3. SidesAgree'
  BY DEF SidesAgree
<1> QED
  BY <1>1, <1>2, <1>3

LEMMA SpeedStep ==
  ASSUME StepInv, NEW d \in Dir, EncodeSpeed(d)
  PROVE  StepInv'
<1> USE DEF StepInv, EncodeSpeed, ChangeStepRate
<1>1. stepSpeed' \in Speed /\ stepDir' \in Dir
  BY TurnedInRange DEF RateInv
<1>2. RateInv'
  BY <1>1, StepAssumption DEF RateInv, Speed
<1>3. RunInv'
  BY DEF RunInv, RunsUntilDone
<1>4. SidesAgree'
  BY DEF SidesAgree
<1> QED
  BY <1>2, <1>3, <1>4

LEMMA ButtonStep ==
  ASSUME StepInv, ButtonDoubleClick \/ \E state \in BOOLEAN : ButtonChange(state)
  PROVE  StepInv'
<1> USE DEF StepInv, ButtonChange, ButtonDoubleClick, pitVars, motor
<1>1. RateInv'
  BY DEF RateInv, StartStepper, ConfigureStepperTimer
<1>2. RunInv'
  <2>1. CASE \E state \in BOOLEAN : ButtonChange(state)
    <3>1. /\ pie' = pie /\ done' = done /\ stepsRem' = stepsRem
          /\ runForever' = runForever
      BY <2>1
    <3> QED
      BY <3>1, Zenon DEF RunInv, RunsUntilDone
  <2>2. CASE ButtonDoubleClick /\ stepForever'
    BY <2>2, Zenon DEF RunInv, RunsUntilDone, StartStepper, ConfigureStepperTimer
  <2>3. CASE ButtonDoubleClick /\ ~stepForever'
    <3>1. /\ pie' = pie /\ done' = done /\ stepsRem' = stepsRem
          /\ runForever' = FALSE
      BY <2>3
    <3> QED
      BY <3>1, Zenon DEF RunInv, RunsUntilDone
  <2> QED
    BY <2>1, <2>2, <2>3
<1>3. SidesAgree'
  BY DEF SidesAgree, StartStepper
<1> QED
  BY <1>1, <1>2, <1>3

LEMMA NextStep ==
  ASSUME StepInv, [StepNext]_stepVars
  PROVE  StepInv'
<1>1. CASE UNCHANGED stepVars
  BY <1>1 DEF stepVars, knobVars, pitVars, motor, StepInv, RateInv, RunInv,
              RunsUntilDone, SidesAgree
<1>2. CASE StepPit1_ISR
  BY <1>2, ISRStep
<1>3. CASE \E d \in Dir : EncodeStep(d)
  BY <1>3, ForeverStep, CountedStep, SpeedStep DEF EncodeStep
<1>4. CASE ButtonDoubleClick \/ \E state \in BOOLEAN : ButtonChange(state)
  BY <1>4, ButtonStep
<1> QED
  BY <1>1, <1>2, <1>3, <1>4 DEF StepNext

LEMMA StepInvariant == StepSpec => []StepInv
<1>1. StepInit => StepInv
  BY InitStep
<1>2. StepInv /\ [StepNext]_stepVars => StepInv'
  BY NextStep
<1> QED
  BY <1>1, <1>2, PTL DEF StepSpec

(***************************************************************************)
(* PIT1 interrupts exactly until the move is done, and a move that is done *)
(* has no step left.                                                       *)
(***************************************************************************)
THEOREM StepRuns == StepSpec => []RunsUntilDone
<1>1. StepInv => RunsUntilDone
  BY DEF StepInv, RunInv
<1> QED
  BY <1>1, StepInvariant, PTL

(***************************************************************************)
(* What main.cpp keeps of direction and mode is what the library does.     *)
(***************************************************************************)
THEOREM StepSidesAgree == StepSpec => []SidesAgree
<1>1. StepInv => SidesAgree
  BY DEF StepInv
<1> QED
  BY <1>1, StepInvariant, PTL

(***************************************************************************)
(* The timer's rate is stepSpeed, never 0, unless ConfigureStepperTimer    *)
(* has left a modulus of another rate waiting.                             *)
(***************************************************************************)
THEOREM StepRate == StepSpec => []RateIsSpeed
<1>1. StepInv => RateIsSpeed
  BY DEF StepInv, RateInv, RateIsSpeed
<1> QED
  BY <1>1, StepInvariant, PTL

-------------------------------------------------------------------------------
PhaseInv ==
  /\ dir \in Dir
  /\ stepDir \in Dir
  /\ stepsTaken \in (-IntRange)..(IntRange - 1)
  /\ seqIndex \in 0..(SeqLen - 1)
  /\ PhaseIsPosition

(* stepsTaken wraps at most once in a step. *)
LEMMA WrapsOnce ==
  ASSUME NEW i \in (-IntRange - 1)..IntRange
  PROVE  /\ Wrapped(i) \in (-IntRange)..(IntRange - 1)
         /\ \E w \in {-1, 0, 1} : Wrapped(i) = i + (2 * IntRange) * w
<1> DEFINE range == 2 * IntRange
<1>1. range \in Nat \ {0} /\ IntRange \in Nat \ {0}
  BY StepAssumption
<1>2. CASE i = -IntRange - 1
  <2>1. i + IntRange = range * (-1) + (range - 1)
    BY <1>1, <1>2
  <2>2. (i + IntRange) % range = range - 1
    BY <1>1, <2>1, Remainder
  <2> QED
    BY <1>1, <1>2, <2>2 DEF Wrapped
<1>3. CASE i = IntRange
  <2>1. i + IntRange = range * 1 + 0
    BY <1>1, <1>3
  <2>2. (i + IntRange) % range = 0
    BY <1>1, <2>1, Remainder
  <2> QED
    BY <1>1, <1>3, <2>2 DEF Wrapped
<1>4. CASE i \in (-IntRange)..(IntRange - 1)
  <2>1. i + IntRange = range * 0 + (i + IntRange) /\ i + IntRange \in 0..(range - 1)
    BY <1>1, <1>4
  <2>2. (i + IntRange) % range = i + IntRange
    BY <1>1, <2>1, Remainder
  <2> QED
    BY <1>1, <1>4, <2>2 DEF Wrapped
<1> QED
  BY <1>1, <1>2, <1>3, <1>4

(* The wrap is a multiple of the motor's phases. *)
LEMMA WrapKeepsPhase ==
  ASSUME NEW i \in (-IntRange - 1)..IntRange
  PROVE  Wrapped(i) % SeqLen = i % SeqLen
<1>1. IntRange \in Nat \ {0} /\ SeqLen \in Nat \ {0} /\ i \in Int
  BY StepAssumption
<1>2. PICK w \in {-1, 0, 1} : Wrapped(i) = i + (2 * IntRange) * w
  BY WrapsOnce
<1> DEFINE n == (2 * IntRange) \div SeqLen
<1>3. n \in Int /\ 2 * IntRange = SeqLen * n
  BY <1>1, StepAssumption
<1> HIDE DEF n
<1> DEFINE m == n * w
<1>4. Wrapped(i) = i + SeqLen * m /\ m \in Int
  BY <1>1, <1>2, <1>3
<1> HIDE DEF m
<1>5. (i + SeqLen * m) % SeqLen = i % SeqLen
  BY <1>1, <1>4, Multiples, Zenon
<1> QED
  BY <1>4, <1>5, Zenon

(* NextIndex is the phase one step on. *)
LEMMA NextPhase ==
  ASSUME PhaseInv
  PROVE  NextIndex = (stepsTaken + dir) % SeqLen /\ NextIndex \in 0..(SeqLen - 1)
<1> DEFINE q == stepsTaken \div SeqLen
           x == seqIndex + dir
<1>1. /\ SeqLen \in Nat \ {0} /\ stepsTaken \in Int /\ dir \in Int
      /\ dir \in {-1, 1} /\ seqIndex \in 0..(SeqLen - 1)
  BY StepAssumption DEF PhaseInv, Dir
<1>2. q \in Int /\ stepsTaken = SeqLen * q + seqIndex
  BY <1>1 DEF PhaseInv, PhaseIsPosition
<1> HIDE DEF q
<1>3. CASE x < 0
  <2> DEFINE k == q - 1
             r == SeqLen - 1
             a == stepsTaken + dir
  <2>1. /\ a = SeqLen * k + r
        /\ k \in Int /\ r \in 0..(SeqLen - 1) /\ a \in Int
        /\ SeqLen \in Nat \ {0}
    BY <1>1, <1>2, <1>3
  <2> HIDE DEF k, r, a
  <2>2. a % SeqLen = r
    BY <2>1, Remainder
  <2> USE DEF r, a
  <2> QED
    BY <1>1, <1>3, <2>2 DEF NextIndex
<1>4. CASE x = SeqLen
  <2>1. stepsTaken + dir = SeqLen * (q + 1) + 0 /\ x = SeqLen * 1 + 0
    BY <1>1, <1>2, <1>4
  <2>2. (stepsTaken + dir) % SeqLen = 0 /\ x % SeqLen = 0
    BY <1>1, <1>2, <2>1, Remainder
  <2> QED
    BY <1>1, <1>4, <2>2 DEF NextIndex
<1>5. CASE x \in 0..(SeqLen - 1)
  <2>1. stepsTaken + dir = SeqLen * q + x /\ x = SeqLen * 0 + x
    BY <1>1, <1>2
  <2>2. (stepsTaken + dir) % SeqLen = x /\ x % SeqLen = x
    BY <1>1, <1>2, <1>5, <2>1, Remainder
  <2> QED
    BY <1>1, <1>5, <2>2 DEF NextIndex
<1> QED
  BY <1>1, <1>3, <1>4, <1>5

(***************************************************************************)
(* The motor's phase is its position modulo the number of phases.          *)
(***************************************************************************)
THEOREM StepPhase == StepSpec => []PhaseIsPosition
<1>1. StepInit => PhaseInv
  BY StepAssumption DEF StepInit, PhaseInv, PhaseIsPosition, Dir
<1>2. PhaseInv /\ [StepNext]_stepVars => PhaseInv'
  <2> SUFFICES ASSUME PhaseInv, [StepNext]_stepVars
               PROVE  PhaseInv'
    OBVIOUS
  <2>1. CASE StepPit1_ISR
    <3>1. stepsTaken + dir \in (-IntRange - 1)..IntRange
      BY StepAssumption DEF PhaseInv, Dir
    <3>2. /\ stepsTaken' = Wrapped(stepsTaken + dir)
          /\ seqIndex' = NextIndex
          /\ dir' = dir /\ stepDir' = stepDir
      BY <2>1 DEF StepPit1_ISR, Stepped, knobVars
    <3>3. stepsTaken' \in (-IntRange)..(IntRange - 1)
      BY <3>1, <3>2, WrapsOnce
    <3>4. /\ seqIndex' = stepsTaken' % SeqLen
          /\ seqIndex' \in 0..(SeqLen - 1)
      BY <3>1, <3>2, WrapKeepsPhase, NextPhase
    <3> QED
      BY <3>2, <3>3, <3>4 DEF PhaseInv, PhaseIsPosition
  <2>2. CASE UNCHANGED motor /\ dir' \in Dir /\ stepDir' \in Dir
    BY <2>2 DEF PhaseInv, PhaseIsPosition, motor
  <2>3. ASSUME NEW d \in Dir, EncodeStep(d)
        PROVE  UNCHANGED motor /\ dir' \in Dir /\ stepDir' \in Dir
    BY <2>3 DEF EncodeStep, EncodeForever, EncodeMore, EncodeLess, EncodeReverse,
                EncodeSpeed, StartStepper, Turned, PhaseInv, Dir, knobVars
  <2>4. ASSUME ButtonDoubleClick \/ \E state \in BOOLEAN : ButtonChange(state)
        PROVE  UNCHANGED motor /\ dir' \in Dir /\ stepDir' \in Dir
    BY <2>4 DEF ButtonDoubleClick, ButtonChange, StartStepper, PhaseInv
  <2>5. ASSUME UNCHANGED stepVars
        PROVE  UNCHANGED motor /\ dir' \in Dir /\ stepDir' \in Dir
    BY <2>5 DEF stepVars, knobVars, PhaseInv
  <2> QED
    BY <2>1, <2>2, <2>3, <2>4, <2>5 DEF StepNext
<1>3. PhaseInv => PhaseIsPosition
  BY DEF PhaseInv
<1> QED
  BY <1>1, <1>2, <1>3, PTL DEF StepSpec

-------------------------------------------------------------------------------
(***************************************************************************)
(* DspiRx: that no pool buffer is lost or overwritten, and that what is    *)
(* sent are the halves of the bus in their order, for any number of        *)
(* buffers, any size of the halves and any number of samples.              *)
(***************************************************************************)
(* Where the half that the DMA fills begins; the first sample that no      *)
(* chunk may have, which is the half that is requested and not yet posted. *)
Base  == received - (received % Half)
Bound == IF Pending THEN Base - Half ELSE Base

(***************************************************************************)
(* The buffers: each in one place, which the program counters tell.        *)
(***************************************************************************)
PoolInv ==
  /\ IsInjective(DestBuffers) /\ IsInjective(dspiRXFifo)
  /\ ToSet(DestBuffers) \cap ToSet(dspiRXFifo) = {}
  /\ {isrBuf, mainBuf} \cap (ToSet(DestBuffers) \cup ToSet(dspiRXFifo)) = {}
  /\ isrBuf = mainBuf => isrBuf = NULL
  /\ Buffer \subseteq ToSet(DestBuffers) \cup ToSet(dspiRXFifo) \cup {isrBuf, mainBuf}
  /\ isrBuf # NULL <=> isr \in {"copy", "post"}
  /\ mainBuf # NULL <=> main \in {"write", "insert"}

(* What is posted is a whole half, whether or not its samples are in order. *)
FillInv ==
  /\ isr = "copy" => Len(pData[isrBuf]) < Half
  /\ isr = "post" => Len(pData[isrBuf]) = Half
  /\ \A b \in ToSet(dspiRXFifo) : Len(pData[b]) = Half
  /\ main = "write" => Len(pData[mainBuf]) = Half

(* RxBuffer holds the last samples, each in its place of the ring.         *)
RingInv ==
  \A k \in 0..(received - 1) :
    k >= received - 2 * Half => RxBuffer[k % (2 * Half)] = k

(* The handler serves a request, for a half that begins where BackHalf     *)
(* says; and what it has copied of it are its samples.                     *)
HandlerInv ==
  /\ isr # "idle" => intReq
  /\ intReq => Base >= Half
  /\ unnoticed = 0 =>
       /\ From = (IF Pending \/ isr = "flip" THEN Base - Half ELSE Base) % (2 * Half)
       /\ isrBuf # NULL => \A i \in 1..Len(pData[isrBuf]) :
                             pData[isrBuf][i] = Base - Half + i - 1

(* The halves in the buffers of u are in the order of the bus, after the   *)
(* one that began with sample last and before the one that does with bound. *)
Ordered(u, bufs, last, bound) ==
  /\ \A i \in 1..Len(u) : IsChunk(bufs[u[i]]) /\ bufs[u[i]][1] < bound
  /\ \A i \in 1..Len(u) :
       (IF i = 1 THEN last ELSE bufs[u[i - 1]][1]) < bufs[u[i]][1]
  /\ last < bound

(* What was passed on lies before what will be. *)
OrderInv == unnoticed = 0 => Ordered(Unsent, pData, lastSent, Bound)

DspiInv ==
  /\ DspiTypeOK /\ PoolInv /\ FillInv /\ RingInv /\ HandlerInv /\ OrderInv
  /\ HalvesAccounted

LEMMA DspiHalf == Half \in Nat \ {0} /\ 2 * Half \in Nat \ {0} /\ 2 * Half = Half + Half
                  /\ NULL \notin Buffer /\ MaxSamples \in Nat
BY DspiAssumption

LEMMA ChunkFirst ==
  ASSUME NEW p \in Seq(Int), IsChunk(p)
  PROVE  p[1] \in Int
<1>1. Len(p) >= 1
  BY DspiHalf DEF IsChunk
<1> QED
  BY <1>1, ElementOfSeq

(* Chunks that nobody writes to stay in order; *)
LEMMA OrderedSame ==
  ASSUME NEW u \in Seq(Buffer), NEW p \in [Buffer -> Seq(Int)], NEW q,
         \A i \in 1..Len(u) : q[u[i]] = p[u[i]],
         NEW last \in Int, NEW bound \in Int, NEW later \in Int, bound <= later,
         Ordered(u, p, last, bound)
  PROVE  Ordered(u, q, last, later)
<1>1. Len(u) \in Nat /\ \A i \in 1..Len(u) : u[i] \in Buffer
  BY LenProperties, ElementOfSeq
<1>2. ASSUME NEW i \in 1..Len(u)
      PROVE  IsChunk(q[u[i]]) /\ q[u[i]][1] < later
  <2>1. IsChunk(p[u[i]]) /\ p[u[i]] \in Seq(Int) /\ p[u[i]][1] < bound /\ q[u[i]] = p[u[i]]
    BY <1>1 DEF Ordered
  <2>2. p[u[i]][1] \in Int
    BY <2>1, ChunkFirst
  <2> QED
    BY <2>1, <2>2
<1>3. ASSUME NEW i \in 1..Len(u)
      PROVE  (IF i = 1 THEN last ELSE q[u[i - 1]][1]) < q[u[i]][1]
  <2>1. (IF i = 1 THEN last ELSE p[u[i - 1]][1]) < p[u[i]][1]
    BY DEF Ordered
  <2>2. i # 1 => i - 1 \in 1..Len(u)
    BY <1>1
  <2>3. i # 1 => q[u[i - 1]] = p[u[i - 1]]
    BY <2>2
  <2> QED
    BY <2>1, <2>3
<1>4. last < later
  BY DEF Ordered
<1> QED
  BY <1>2, <1>3, <1>4 DEF Ordered

(* the first is sent, and the next is the first; *)
LEMMA OrderedTail ==
  ASSUME NEW u \in Seq(Buffer), u # <<>>, NEW p, NEW last, NEW bound,
         Ordered(u, p, last, bound)
  PROVE  Ordered(Tail(u), p, p[Head(u)][1], bound)
<1> DEFINE t == Tail(u)
           n == Len(u)
<1>1. /\ n \in Nat /\ n >= 1 /\ Head(u) = u[1] /\ Len(t) = n - 1
      /\ \A i \in 1..(n - 1) : t[i] = u[i + 1]
  BY HeadTailProperties, LenProperties
<1> HIDE DEF t, n
<1>2. \A i \in 1..n : IsChunk(p[u[i]]) /\ p[u[i]][1] < bound
  BY DEF Ordered, n
<1>3. ASSUME NEW i \in 1..(n - 1)
      PROVE  (IF i = 1 THEN p[u[1]][1] ELSE p[t[i - 1]][1]) < p[t[i]][1]
  <2>1. /\ i + 1 \in 1..n /\ i + 1 # 1 /\ (i + 1) - 1 = i /\ t[i] = u[i + 1]
        /\ i # 1 => i - 1 \in 1..(n - 1) /\ (i - 1) + 1 = i
    BY <1>1
  <2>2. (IF i + 1 = 1 THEN last ELSE p[u[(i + 1) - 1]][1]) < p[u[i + 1]][1]
    BY <2>1 DEF Ordered, n
  <2>3. p[u[i]][1] < p[t[i]][1]
    BY <2>1, <2>2
  <2>4. i # 1 => t[i - 1] = u[i]
    BY <1>1, <2>1
  <2> QED
    BY <2>3, <2>4
<1>4. \A i \in 1..(n - 1) : i + 1 \in 1..n
  BY <1>1
<1>5. \A i \in 1..(n - 1) : IsChunk(p[t[i]]) /\ p[t[i]][1] < bound
  BY <1>1, <1>2, <1>4
<1>6. p[u[1]][1] < bound
  BY <1>1, <1>2
<1> QED
  BY <1>1, <1>3, <1>5, <1>6 DEF Ordered, t

(* and one is posted that begins where none before it did. *)
LEMMA OrderedAppend ==
  ASSUME NEW u \in Seq(Buffer), NEW p \in [Buffer -> Seq(Int)], NEW b \in Buffer,
         NEW last \in Int, NEW bound \in Int, NEW later \in Int,
         Ordered(u, p, last, bound),
         IsChunk(p[b]), bound <= p[b][1], p[b][1] < later
  PROVE  Ordered(Append(u, b), p, last, later)
<1> DEFINE t == Append(u, b)
           n == Len(u)
<1>1. /\ n \in Nat /\ Len(t) = n + 1 /\ t[n + 1] = b
      /\ \A i \in 1..n : t[i] = u[i]
      /\ \A i \in 1..(n + 1) : i \in 1..n \/ i = n + 1
      /\ \A i \in 1..n : u[i] \in Buffer
  BY AppendProperties, LenProperties, ElementOfSeq
<1> HIDE DEF t, n
<1>2. p[b][1] \in Int /\ \A i \in 1..n : p[u[i]][1] \in Int
  BY <1>1, ChunkFirst DEF Ordered, n
<1>3. \A i \in 1..n : IsChunk(p[u[i]]) /\ p[u[i]][1] < bound
  BY DEF Ordered, n
<1>4. last < bound
  BY DEF Ordered
<1>5. \A i \in 1..(n + 1) : IsChunk(p[t[i]]) /\ p[t[i]][1] < later
  <2>1. ASSUME NEW i \in 1..n
        PROVE  IsChunk(p[t[i]]) /\ p[t[i]][1] < later
    <3> DEFINE x == p[u[i]][1]
               y == p[b][1]
    <3>1. x \in Int /\ y \in Int /\ x < bound /\ bound <= y /\ y < later
      BY <1>2, <1>3
    <3> HIDE DEF x, y
    <3>2. x < later
      BY <3>1
    <3> QED
      BY <1>1, <1>3, <3>2 DEF x
  <2> QED
    BY <1>1, <2>1
<1>6. ASSUME NEW i \in 1..(n + 1)
      PROVE  (IF i = 1 THEN last ELSE p[t[i - 1]][1]) < p[t[i]][1]
  <2>0. i # 1 => i - 1 \in 1..n /\ t[i - 1] = u[i - 1]
    <3>1. i # 1 => i - 1 \in 1..n
      BY <1>1
    <3> QED
      BY <1>1, <3>1
  <2>1. CASE i \in 1..n
    <3>1. (IF i = 1 THEN last ELSE p[u[i - 1]][1]) < p[u[i]][1]
      BY <2>1 DEF Ordered, n
    <3> QED
      BY <1>1, <2>0, <2>1, <3>1
  <2>2. CASE i = n + 1
    <3>1. CASE i = 1
      BY <1>1, <1>2, <1>4, <2>2, <3>1
    <3>2. CASE i # 1
      <4> DEFINE x == p[u[i - 1]][1]
                 y == p[b][1]
      <4>1. x \in Int /\ y \in Int /\ x < bound /\ bound <= y
        BY <1>2, <1>3, <2>0, <3>2
      <4>2. t[i] = b /\ t[i - 1] = u[i - 1]
        BY <1>1, <2>0, <2>2, <3>2
      <4> HIDE DEF x, y
      <4>3. x < y
        BY <4>1
      <4> QED
        BY <3>2, <4>2, <4>3 DEF x, y
    <3> QED
      BY <3>1, <3>2
  <2> QED
    BY <1>1, <2>1, <2>2
<1>7. last < later
  BY <1>2, <1>4
<1> QED
  BY <1>1, <1>5, <1>6, <1>7 DEF Ordered, t

-------------------------------------------------------------------------------
(***************************************************************************)
(* Sequences without repetition.                                           *)
(***************************************************************************)
LEMMA TailOnce ==
  ASSUME NEW S, NEW f \in Seq(S), f # <<>>, IsInjective(f)
  PROVE  /\ Head(f) \in S /\ Tail(f) \in Seq(S) /\ IsInjective(Tail(f))
         /\ Head(f) \notin ToSet(Tail(f))
         /\ ToSet(f) = ToSet(Tail(f)) \cup {Head(f)}
<1> DEFINE t == Tail(f)
           n == Len(f)
<1>1. /\ n \in Nat /\ n >= 1 /\ DOMAIN f = 1..n /\ f[1] = Head(f) /\ f[1] \in S
      /\ t \in Seq(S) /\ Len(t) = n - 1 /\ DOMAIN t = 1..(n - 1)
      /\ \A i \in 1..(n - 1) : t[i] = f[i + 1]
  BY HeadTailProperties, LenProperties
<1> HIDE DEF t, n
<1>0. \A i \in 1..(n - 1) : i + 1 \in 1..n /\ i + 1 # 1
  BY <1>1
<1>2. IsInjective(t)
  <2> SUFFICES ASSUME NEW i \in 1..(n - 1), NEW j \in 1..(n - 1), t[i] = t[j]
               PROVE  i = j
    BY <1>1 DEF IsInjective
  <2>1. /\ i + 1 \in 1..n /\ t[i] = f[i + 1]
        /\ j + 1 \in 1..n /\ t[j] = f[j + 1]
    BY <1>0, <1>1
  <2>2. i + 1 = j + 1
    BY <1>1, <2>1 DEF IsInjective
  <2> QED
    BY <2>2
<1>3. f[1] \notin ToSet(t)
  <2>1. ASSUME NEW i \in 1..(n - 1)
        PROVE  f[i + 1] # f[1]
    <3>1. i + 1 \in 1..n /\ 1 \in 1..n /\ i + 1 # 1
      BY <1>0, <1>1
    <3> QED
      BY <1>1, <3>1 DEF IsInjective
  <2> QED
    BY <1>1, <2>1 DEF ToSet
<1>4. ToSet(f) = ToSet(t) \cup {f[1]}
  <2>1. ASSUME NEW i \in 1..n
        PROVE  f[i] \in ToSet(t) \cup {f[1]}
    <3>1. CASE i = 1
      BY <3>1
    <3>2. CASE i # 1
      <4>1. i - 1 \in 1..(n - 1) /\ t[i - 1] = f[i]
        BY <1>1, <3>2
      <4> QED
        BY <1>1, <4>1 DEF ToSet
    <3> QED
      BY <3>1, <3>2
  <2>2. ASSUME NEW i \in 1..(n - 1)
        PROVE  t[i] \in ToSet(f)
    <3>1. i + 1 \in DOMAIN f /\ t[i] = f[i + 1]
      BY <1>0, <1>1
    <3> QED
      BY <3>1 DEF ToSet
  <2>3. f[1] \in ToSet(f)
    BY <1>1 DEF ToSet
  <2> QED
    BY <1>1, <2>1, <2>2, <2>3 DEF ToSet
<1> QED
  BY <1>1, <1>2, <1>3, <1>4 DEF t

LEMMA AppendOnce ==
  ASSUME NEW S, NEW f \in Seq(S), NEW e \in S, IsInjective(f), e \notin ToSet(f)
  PROVE  /\ Append(f, e) \in Seq(S) /\ IsInjective(Append(f, e))
         /\ ToSet(Append(f, e)) = ToSet(f) \cup {e}
<1> DEFINE t == Append(f, e)
           n == Len(f)
<1>1. /\ n \in Nat /\ DOMAIN f = 1..n
      /\ t \in Seq(S) /\ DOMAIN t = 1..(n + 1) /\ t[n + 1] = e
      /\ \A i \in 1..n : t[i] = f[i]
  BY AppendProperties, LenProperties
<1> HIDE DEF t, n
<1>2. \A i \in 1..n : f[i] # e
  BY <1>1 DEF ToSet
<1>3. IsInjective(t)
  BY <1>1, <1>2 DEF IsInjective
<1>4. ToSet(t) = ToSet(f) \cup {e}
  <2>1. \A i \in 1..(n + 1) : i \in 1..n \/ i = n + 1
    BY <1>1
  <2>2. n + 1 \in 1..(n + 1) /\ \A i \in 1..n : i \in 1..(n + 1)
    BY <1>1
  <2> QED
    BY <1>1, <2>1, <2>2 DEF ToSet
<1> QED
  BY <1>1, <1>3, <1>4 DEF t

LEMMA ConcatOnce ==
  ASSUME NEW S, NEW f \in Seq(S), NEW g \in Seq(S), IsInjective(f), IsInjective(g),
         ToSet(f) \cap ToSet(g) = {}
  PROVE  /\ f \o g \in Seq(S) /\ IsInjective(f \o g)
         /\ ToSet(f \o g) = ToSet(f) \cup ToSet(g)
<1> DEFINE t == f \o g
           n == Len(f)
           m == Len(g)
<1>1. /\ n \in Nat /\ m \in Nat /\ DOMAIN f = 1..n /\ DOMAIN g = 1..m
      /\ t \in Seq(S) /\ DOMAIN t = 1..(n + m)
      /\ \A i \in 1..(n + m) : t[i] = IF i <= n THEN f[i] ELSE g[i - n]
  BY ConcatProperties, LenProperties
<1> HIDE DEF t, n, m
<1>2. \A i \in 1..n, j \in 1..m : f[i] # g[j]
  BY <1>1 DEF ToSet
<1>3. \A i \in 1..n : i \in 1..(n + m) /\ t[i] = f[i]
  BY <1>1
<1>4. \A j \in 1..m : j + n \in 1..(n + m) /\ t[j + n] = g[j]
  BY <1>1
<1>5. \A i \in 1..(n + m) : i \in 1..n \/ (i - n \in 1..m /\ t[i] = g[i - n])
  BY <1>1
<1>6. IsInjective(t)
  <2> SUFFICES ASSUME NEW i \in 1..(n + m), NEW j \in 1..(n + m), t[i] = t[j]
               PROVE  i = j
    BY <1>1 DEF IsInjective
  <2>1. CASE i \in 1..n /\ j \in 1..n
    BY <1>1, <1>3, <2>1 DEF IsInjective
  <2>2. CASE i \notin 1..n /\ j \notin 1..n
    <3>1. /\ i - n \in 1..m /\ t[i] = g[i - n]
          /\ j - n \in 1..m /\ t[j] = g[j - n]
      BY <1>5, <2>2
    <3>2. i - n = j - n
      BY <1>1, <3>1 DEF IsInjective
    <3> QED
      BY <1>1, <3>2
  <2>3. CASE (i \in 1..n) # (j \in 1..n)
    BY <1>2, <1>3, <1>5, <2>3
  <2> QED
    BY <2>1, <2>2, <2>3
<1>7. ToSet(t) = ToSet(f) \cup ToSet(g)
  <2>1. \A x \in ToSet(f) : x \in ToSet(t)
    BY <1>1, <1>3 DEF ToSet
  <2>3. \A x \in ToSet(g) : x \in ToSet(t)
    <3> SUFFICES ASSUME NEW j \in 1..m
                 PROVE  g[j] \in ToSet(t)
      BY <1>1 DEF ToSet
    <3> QED
      BY <1>1, <1>4 DEF ToSet
  <2>2. \A x \in ToSet(t) : x \in ToSet(f) \cup ToSet(g)
    BY <1>1, <1>3, <1>5 DEF ToSet
  <2> QED
    BY <2>1, <2>2, <2>3
<1> QED
  BY <1>1, <1>6, <1>7 DEF t

(* At most one element. *)
LEMMA AtMostOne ==
  ASSUME NEW S, NEW x \in S
  PROVE  /\ <<>> \in Seq(S) /\ IsInjective(<<>>) /\ ToSet(<<>>) = {}
         /\ <<x>> \in Seq(S) /\ IsInjective(<<x>>) /\ ToSet(<<x>>) = {x}
<1>1. /\ <<x>> \in Seq(S) /\ Len(<<x>>) = 1 /\ DOMAIN <<x>> = 1..1 /\ <<x>>[1] = x
      /\ DOMAIN <<>> = {}
  OBVIOUS
<1>2. \A i \in 1..1 : i = 1
  OBVIOUS
<1> QED
  BY <1>1, <1>2 DEF IsInjective, ToSet

-------------------------------------------------------------------------------
LEMMA FirstThenRest ==
  ASSUME NEW b \in Buffer, NEW f \in Seq(Buffer)
  PROVE  LET u == <<b>> \o f
         IN  /\ u \in Seq(Buffer) /\ u # <<>> /\ Len(u) = Len(f) + 1
             /\ Head(u) = b /\ Tail(u) = f
             /\ \A i \in 1..Len(u) : u[i] \in {b} \cup ToSet(f)
<1> DEFINE o == <<b>>
           u == o \o f
           n == Len(f)
<1>1. /\ o \in Seq(Buffer) /\ Len(o) = 1 /\ o[1] = b
      /\ n \in Nat /\ DOMAIN f = 1..n
  BY LenProperties
<1> HIDE DEF o
<1>2. /\ u \in Seq(Buffer) /\ Len(u) = n + 1
      /\ \A i \in 1..(n + 1) : u[i] = IF i <= 1 THEN o[i] ELSE f[i - 1]
  <2>1. /\ u \in Seq(Buffer) /\ Len(u) = Len(o) + Len(f)
        /\ \A i \in 1..(Len(o) + Len(f)) : u[i] = IF i <= Len(o) THEN o[i] ELSE f[i - Len(o)]
    BY <1>1, ConcatProperties
  <2>2. Len(o) + Len(f) = n + 1
    BY <1>1
  <2> QED
    BY <1>1, <2>1, <2>2
<1> HIDE DEF u, n
<1>3. u # <<>> /\ u[1] = b
  BY <1>1, <1>2
<1>4. Head(u) = b /\ Tail(u) \in Seq(Buffer) /\ Len(Tail(u)) = n
      /\ \A i \in 1..n : Tail(u)[i] = u[i + 1]
  BY <1>1, <1>2, <1>3, HeadTailProperties
<1>5. Tail(u) = f
  <2>1. \A i \in 1..n : Tail(u)[i] = f[i]
    <3> TAKE i \in 1..n
    <3>1. i + 1 \in 1..(n + 1) /\ ~(i + 1 <= 1) /\ (i + 1) - 1 = i
      BY <1>1
    <3> QED
      BY <1>2, <1>4, <3>1
  <2> QED
    BY <1>1, <1>4, <2>1, SeqEqual DEF n
<1>6. \A i \in 1..(n + 1) : u[i] \in {b} \cup ToSet(f)
  <2> TAKE i \in 1..(n + 1)
  <2>1. CASE i = 1
    BY <1>3, <2>1
  <2>2. CASE i # 1
    <3>1. i - 1 \in 1..n /\ u[i] = f[i - 1]
      BY <1>1, <1>2, <2>2
    <3> QED
      BY <1>1, <3>1 DEF ToSet
  <2> QED
    BY <2>1, <2>2
<1> QED
  BY <1>2, <1>3, <1>4, <1>5, <1>6 DEF u, o, n

LEMMA SameHeadTail ==
  ASSUME NEW u \in Seq(Buffer), NEW v \in Seq(Buffer), u # <<>>, v # <<>>,
         Head(u) = Head(v), Tail(u) = Tail(v)
  PROVE  u = v
<1>1. /\ Len(u) \in Nat /\ Len(u) >= 1 /\ Len(Tail(u)) = Len(u) - 1 /\ Head(u) = u[1]
      /\ \A i \in 1..(Len(u) - 1) : Tail(u)[i] = u[i + 1]
  BY HeadTailProperties, LenProperties
<1>2. /\ Len(v) \in Nat /\ Len(v) >= 1 /\ Len(Tail(v)) = Len(v) - 1 /\ Head(v) = v[1]
      /\ \A i \in 1..(Len(v) - 1) : Tail(v)[i] = v[i + 1]
  BY HeadTailProperties, LenProperties
<1>3. Len(u) = Len(v)
  <2>1. /\ Len(u) \in Nat /\ Len(v) \in Nat
        /\ Len(Tail(u)) = Len(u) - 1 /\ Len(Tail(u)) = Len(v) - 1
    BY <1>1, <1>2
  <2> QED
    BY <2>1
<1>4. ASSUME NEW i \in 1..Len(u)
      PROVE  u[i] = v[i]
  <2>1. CASE i = 1
    BY <1>1, <1>2, <2>1
  <2>2. CASE i # 1
    <3>1. i - 1 \in 1..(Len(u) - 1) /\ (i - 1) + 1 = i
      BY <1>1, <2>2
    <3> QED
      BY <1>1, <1>2, <1>3, <3>1
  <2> QED
    BY <2>1, <2>2
<1> QED
  BY <1>3, <1>4, SeqEqual

(* The chunks not sent yet, in numbers. *)
LEMMA UnsentIs ==
  ASSUME DspiTypeOK, PoolInv
  PROVE  /\ Unsent \in Seq(Buffer)
         /\ main # "write" => Unsent = dspiRXFifo
         /\ main = "write" =>
              /\ mainBuf \in Buffer /\ Unsent = <<mainBuf>> \o dspiRXFifo
              /\ Unsent # <<>> /\ Head(Unsent) = mainBuf /\ Tail(Unsent) = dspiRXFifo
              /\ Len(Unsent) = Len(dspiRXFifo) + 1
         /\ \A i \in 1..Len(Unsent) :
              Unsent[i] \in ToSet(dspiRXFifo) \/ (main = "write" /\ Unsent[i] = mainBuf)
<1>1. dspiRXFifo \in Seq(Buffer) /\ (main = "write" => mainBuf \in Buffer)
  BY DspiHalf DEF DspiTypeOK, PoolInv
<1>2. CASE main = "write"
  BY <1>1, <1>2, FirstThenRest DEF Unsent
<1>3. CASE main # "write"
  <2>1. Unsent = dspiRXFifo
    BY <1>1, <1>3, ConcatEmptySeq DEF Unsent
  <2>2. \A i \in 1..Len(dspiRXFifo) : dspiRXFifo[i] \in ToSet(dspiRXFifo)
    BY <1>1, LenProperties DEF ToSet
  <2> QED
    BY <1>1, <1>3, <2>1, <2>2
<1> QED
  BY <1>2, <1>3

(* Where the DMA and the handler are. *)
LEMMA DspiFacts ==
  ASSUME DspiTypeOK
  PROVE  /\ received \in Nat /\ Base \in Nat /\ Base <= received /\ received < Base + Half
         /\ Base % Half = 0 /\ (Base - Half) % Half = 0
         /\ Bound \in Int /\ lastSent \in Int /\ Pending \in BOOLEAN
         /\ From \in {0, Half} /\ pData \in [Buffer -> Seq(Int)]
         /\ received \div Half \in Int
<1>1. received \in Nat /\ BackHalf \in BOOLEAN /\ lastSent \in Int
      /\ pData \in [Buffer -> Seq(-1..MaxSamples)] /\ intReq \in BOOLEAN
  BY DspiHalf DEF DspiTypeOK
<1>2. /\ received % Half \in 0..(Half - 1) /\ Base \in Nat /\ Base % Half = 0
  BY <1>1, DspiHalf, Behind DEF Base
<1>3. Base <= received /\ received < Base + Half
  <2> DEFINE r == received % Half
  <2>1. r \in 0..(Half - 1) /\ Base = received - r
    BY <1>2 DEF Base
  <2> HIDE DEF r
  <2> QED
    BY <1>1, <2>1, DspiHalf
<1>4. (Base - Half) % Half = 0
  <2>1. (Base + Half * (-1)) % Half = Base % Half
    BY <1>2, DspiHalf, Multiples
  <2>2. Base + Half * (-1) = Base - Half
    BY <1>2, DspiHalf
  <2> QED
    BY <1>2, <2>1, <2>2
<1>5. Pending \in BOOLEAN
  BY <1>1 DEF Pending
<1>6. Bound \in Int
  BY <1>2, <1>5, DspiHalf DEF Bound
<1>7. From \in {0, Half}
  BY DspiHalf DEF From
<1>8. pData \in [Buffer -> Seq(Int)]
  <2>1. -1..MaxSamples \subseteq Int
    BY DspiHalf
  <2>2. Seq(-1..MaxSamples) \subseteq Seq(Int)
    BY <2>1, SeqMonotonic
  <2> QED
    BY <1>1, <2>2
<1>9. received \div Half \in Int
  BY <1>1, DspiHalf, Division
<1> QED
  BY <1>1, <1>2, <1>3, <1>4, <1>5, <1>6, <1>7, <1>8, <1>9

LEMMA InitDspi ==
  ASSUME DspiInit
  PROVE  DspiInv
<1>1. /\ DestBuffers \in Seq(Buffer) /\ IsInjective(DestBuffers) /\ ToSet(DestBuffers) = Buffer
  <2> DEFINE n == Cardinality(Buffer)
             D == 1..n
  <2>1. IsFiniteSet(Buffer) /\ n \in Nat
    BY DspiAssumption, FS_CardinalityType
  <2>2. /\ DestBuffers \in [D -> Buffer]
        /\ \A i, j \in D : i # j => DestBuffers[i] # DestBuffers[j]
    BY DEF DspiInit, SetToSeqs
  <2>3. IsFiniteSet(D) /\ Cardinality(D) = n
    BY <2>1, FS_Interval
  <2>4. DestBuffers \in Injection(D, Buffer) /\ IsInjective(DestBuffers)
    BY <2>2 DEF Injection, IsInjective
  <2>5. DestBuffers \in Surjection(D, Buffer)
    BY <2>1, <2>3, <2>4, FS_Injection
  <2>6. \A b \in Buffer : \E i \in D : DestBuffers[i] = b
    BY <2>5 DEF Surjection
  <2>7. DestBuffers \in Seq(Buffer)
    BY <2>1, <2>2, IsASeq
  <2> QED
    BY <2>2, <2>4, <2>6, <2>7 DEF ToSet
<1>2. DspiTypeOK
  <2>1. 0 \in 0..MaxSamples /\ -1 \in -1..MaxSamples /\ <<>> \in Seq(Buffer)
        /\ <<>> \in Seq(-1..MaxSamples)
    BY DspiHalf
  <2> QED
    BY <1>1, <2>1 DEF DspiInit, DspiTypeOK
<1>3. PoolInv
  <2>1. ToSet(<<>>) = {} /\ IsInjective(<<>>)
    BY DEF ToSet, IsInjective
  <2> QED
    BY <1>1, <2>1, DspiHalf DEF DspiInit, PoolInv
<1>4. FillInv /\ RingInv
  <2>1. ToSet(<<>>) = {}
    BY DEF ToSet
  <2> QED
    BY <2>1 DEF DspiInit, FillInv, RingInv
<1>5. Base = 0 /\ received \div Half = 0
  <2>1. 0 \in 0..(Half - 1) /\ 0 = Half * 0 + 0
    BY DspiHalf
  <2>2. 0 % Half = 0 /\ 0 \div Half = 0
    BY <2>1, DspiHalf, Remainder, Quotient
  <2> QED
    BY <2>2 DEF Base, DspiInit
<1>6. ~Pending
  BY DEF Pending, DspiInit
<1>7. Unsent = <<>> /\ Len(Unsent) = 0
  <2>1. Unsent = dspiRXFifo
    BY <1>2, <1>3, UnsentIs DEF DspiInit
  <2> QED
    BY <2>1 DEF DspiInit
<1>8. HandlerInv
  <2>1. 0 % (2 * Half) = 0
    <3> DEFINE L == 2 * Half
    <3>1. L \in Nat \ {0}
      BY DspiHalf
    <3> HIDE DEF L
    <3>2. 0 \in 0..(L - 1) /\ 0 = L * 0 + 0
      BY <3>1
    <3>3. 0 % L = 0
      BY <3>1, <3>2, Remainder
    <3> QED
      BY <3>3 DEF L
  <2> QED
    BY <1>5, <1>6, <2>1 DEF HandlerInv, From, DspiInit
<1>9. OrderInv
  <2>1. lastSent < Bound
    BY <1>5, <1>6 DEF Bound, DspiInit
  <2> QED
    BY <1>7, <2>1 DEF OrderInv, Ordered
<1>10. HalvesAccounted
  BY <1>5, <1>6, <1>7 DEF HalvesAccounted, DspiInit
<1> QED
  BY <1>2, <1>3, <1>4, <1>8, <1>9, <1>10 DEF DspiInv

(* The DMA writes on. *)
LEMMA DMATransferInv ==
  ASSUME DspiInv, DMATransfer
  PROVE  DspiInv'
<1>1. /\ DspiTypeOK /\ PoolInv /\ FillInv /\ RingInv /\ HandlerInv /\ OrderInv
      /\ HalvesAccounted
  BY DEF DspiInv
<1>2. /\ received \in Nat /\ received < MaxSamples /\ received' = received + 1
      /\ UNCHANGED <<isrVars, mainVars, poolVars>>
      /\ RxBuffer' = [RxBuffer EXCEPT ![received % (2 * Half)] = received]
  BY <1>1, DspiFacts DEF DMATransfer
<1>3. /\ BackHalf' = BackHalf /\ isr' = isr /\ isrBuf' = isrBuf /\ dropped' = dropped
      /\ main' = main /\ mainBuf' = mainBuf /\ lastSent' = lastSent /\ sent' = sent
      /\ DestBuffers' = DestBuffers /\ pData' = pData /\ dspiRXFifo' = dspiRXFifo
  BY <1>2 DEF isrVars, mainVars, poolVars
<1>5. intReq' \in BOOLEAN /\ unnoticed' \in Nat
  <2>1. intReq \in BOOLEAN /\ unnoticed \in Nat
    BY <1>1 DEF DspiTypeOK
  <2>2. \/ intReq' = TRUE /\ (unnoticed' = unnoticed + 1 \/ unnoticed' = unnoticed)
        \/ intReq' = intReq /\ unnoticed' = unnoticed
    BY DEF DMATransfer
  <2>3. unnoticed' \in Nat
    BY <2>1, <2>2
  <2> QED
    BY <2>1, <2>2, <2>3
<1>6. DspiTypeOK'
  <2>1. received' \in 0..MaxSamples /\ received \in -1..MaxSamples
    BY <1>2, DspiHalf
  <2>2. RxBuffer' \in [Place -> -1..MaxSamples]
    BY <1>1, <1>2, <2>1 DEF DspiTypeOK
  <2> QED
    BY <1>1, <1>3, <1>5, <2>1, <2>2 DEF DspiTypeOK
<1>7. PoolInv' /\ FillInv'
  BY <1>1, <1>3 DEF PoolInv, FillInv
<1>8. RingInv'
  <2> DEFINE L == 2 * Half
             a == received % L
  <2>0. L \in Nat \ {0}
    BY DspiHalf
  <2>1. DOMAIN RxBuffer = 0..(L - 1)
    BY <1>1 DEF DspiTypeOK, Place
  <2> HIDE DEF L
  <2>2. a \in 0..(L - 1)
    BY <1>2, <2>0, Division
  <2>3. RxBuffer'[a] = received
    BY <1>2, <2>1, <2>2 DEF L
  <2>4. ASSUME NEW k \in 0..(received - 1), k >= received - L + 1
        PROVE  RxBuffer'[k % L] = k
    <3>1. /\ k \in Int /\ received \in Int /\ k < received
          /\ received - L < k /\ k >= received - L
      BY <1>2, <2>0, <2>4
    <3>2. k % L # received % L
      BY <2>0, <3>1, OtherPlace
    <3>3. k % L \in 0..(L - 1)
      BY <2>0, <3>1, Division
    <3>4. RxBuffer[k % L] = k
      BY <1>1, <3>1 DEF RingInv, L
    <3> QED
      BY <1>2, <2>1, <3>2, <3>3, <3>4 DEF L
  <2>5. \A k \in 0..received : k >= received - L + 1 => RxBuffer'[k % L] = k
    <3> TAKE k \in 0..received
    <3>1. k = received \/ k \in 0..(received - 1)
      BY <1>2
    <3> QED
      BY <2>3, <2>4, <3>1
  <2>6. received' - 1 = received /\ received' - L = received - L + 1
    BY <1>2, <2>0
  <2> QED
    BY <2>5, <2>6 DEF RingInv, L
<1>9. From' = From /\ Unsent' = Unsent
  BY <1>3 DEF From, Unsent
<1>10. /\ Base \in Nat /\ Base <= received /\ received < Base + Half /\ Bound \in Int
       /\ received \div Half \in Int
  BY <1>1, DspiFacts
<1>11. Unsent \in Seq(Buffer) /\ lastSent \in Int /\ pData \in [Buffer -> Seq(Int)]
  BY <1>1, UnsentIs, DspiFacts
<1>12. CASE received' % Half # 0
  <2>1. intReq' = intReq /\ unnoticed' = unnoticed
    BY <1>12 DEF DMATransfer
  <2>2. Base' = Base /\ received' \div Half = received \div Half
    BY <1>2, <1>12, DspiHalf, Following DEF Base
  <2>3. Pending' = Pending /\ Bound' = Bound
    BY <1>3, <2>1, <2>2 DEF Pending, Bound
  <2>4. HandlerInv'
    BY <1>1, <1>3, <1>9, <2>1, <2>2, <2>3 DEF HandlerInv
  <2>5. OrderInv'
    BY <1>1, <1>3, <1>9, <2>1, <2>3 DEF OrderInv, Ordered
  <2>6. HalvesAccounted'
    BY <1>1, <1>3, <1>9, <2>1, <2>2, <2>3 DEF HalvesAccounted
  <2> QED
    BY <1>6, <1>7, <1>8, <2>4, <2>5, <2>6 DEF DspiInv
<1>13. CASE received' % Half = 0
  <2>1. intReq' = TRUE /\ unnoticed' = IF intReq THEN unnoticed + 1 ELSE unnoticed
    BY <1>13 DEF DMATransfer
  <2>2. Base' = Base + Half /\ received' \div Half = (received \div Half) + 1
    BY <1>2, <1>13, DspiHalf, Following DEF Base
  <2>3. unnoticed' = 0 => unnoticed = 0 /\ ~intReq /\ isr = "idle" /\ ~Pending /\ Pending'
    BY <1>1, <1>3, <2>1 DEF Pending, HandlerInv, DspiTypeOK
  <2>4. unnoticed' = 0 => Bound = Base /\ Bound' = Bound
    BY <1>10, <2>2, <2>3, DspiHalf DEF Bound
  <2>5. HandlerInv'
    <3>1. Base' >= Half
      BY <1>10, <2>2, DspiHalf
    <3>2. ASSUME unnoticed' = 0
          PROVE  /\ From' = (Base' - Half) % (2 * Half) /\ Pending' /\ isrBuf' = NULL
      <4>1. From = Base % (2 * Half) /\ isr = "idle" /\ Pending'
        BY <1>1, <2>3, <3>2 DEF HandlerInv
      <4>2. Base' - Half = Base
        BY <1>10, <2>2, DspiHalf
      <4>3. isrBuf = NULL
        BY <1>1, <4>1 DEF PoolInv
      <4> QED
        BY <1>3, <1>9, <4>1, <4>2, <4>3
    <3> QED
      BY <2>1, <3>1, <3>2 DEF HandlerInv
  <2>6. OrderInv'
    BY <1>1, <1>3, <1>9, <2>3, <2>4 DEF OrderInv, Ordered
  <2>7. HalvesAccounted'
    <3>1. /\ sent \in Nat /\ dropped \in Nat /\ unnoticed \in Nat /\ Len(Unsent) \in Nat
          /\ intReq \in BOOLEAN
      BY <1>1, <1>11, LenProperties DEF DspiTypeOK
    <3>2. CASE intReq
      <4>1. Pending' = Pending /\ unnoticed' = unnoticed + 1
        BY <1>3, <2>1, <3>2 DEF Pending
      <4> QED
        BY <1>1, <1>3, <1>9, <1>10, <2>2, <3>1, <4>1 DEF HalvesAccounted
    <3>3. CASE ~intReq
      <4>1. ~Pending /\ Pending' /\ unnoticed' = unnoticed
        BY <1>1, <1>3, <2>1, <3>3 DEF Pending, HandlerInv
      <4> QED
        BY <1>1, <1>3, <1>9, <1>10, <2>2, <3>1, <4>1 DEF HalvesAccounted
    <3> QED
      BY <3>2, <3>3
  <2> QED
    BY <1>6, <1>7, <1>8, <2>5, <2>6, <2>7 DEF DspiInv
<1> QED
  BY <1>12, <1>13

(* Steps that leave the ring and the DMA alone. *)
LEMMA SameDMA ==
  ASSUME DspiTypeOK, RingInv, UNCHANGED <<RxBuffer, received>>
  PROVE  /\ RingInv' /\ Base' = Base /\ (received \div Half)' = received \div Half
         /\ RxBuffer' \in [Place -> -1..MaxSamples] /\ received' \in 0..MaxSamples
BY DEF DspiTypeOK, RingInv, Base

(* The handler takes a buffer, or throws the half away. *)
LEMMA DmarxEnterInv ==
  ASSUME DspiInv, DmarxEnter
  PROVE  DspiInv'
<1>1. /\ DspiTypeOK /\ PoolInv /\ FillInv /\ RingInv /\ HandlerInv /\ OrderInv
      /\ HalvesAccounted
  BY DEF DspiInv
<1>2. /\ isr = "idle" /\ intReq = TRUE /\ Pending
  BY <1>1 DEF DmarxEnter, Pending, DspiTypeOK
<1>3. /\ RxBuffer' = RxBuffer /\ received' = received /\ intReq' = intReq
      /\ unnoticed' = unnoticed /\ main' = main /\ mainBuf' = mainBuf
      /\ lastSent' = lastSent /\ sent' = sent
      /\ BackHalf' = BackHalf /\ dspiRXFifo' = dspiRXFifo
  BY DEF DmarxEnter, dmaVars, mainVars
<1>4. /\ RingInv' /\ Base' = Base /\ (received \div Half)' = received \div Half
      /\ RxBuffer' \in [Place -> -1..MaxSamples] /\ received' \in 0..MaxSamples
  BY <1>1, <1>3, SameDMA
<1>5. isrBuf = NULL
  BY <1>1, <1>2 DEF PoolInv
<1>6. From' = From /\ Unsent' = Unsent
  BY <1>3 DEF From, Unsent
<1>7. /\ Base \in Nat /\ Base >= Half /\ Bound = Base - Half /\ Bound \in Int
      /\ lastSent \in Int /\ pData \in [Buffer -> Seq(Int)] /\ Unsent \in Seq(Buffer)
      /\ dropped \in Nat /\ sent \in Nat /\ Len(Unsent) \in Nat
      /\ received \div Half \in Int
  BY <1>1, <1>2, DspiFacts, UnsentIs, LenProperties DEF Bound, HandlerInv, DspiTypeOK
<1>8. unnoticed = 0 => From = (Base - Half) % (2 * Half)
  BY <1>1, <1>2 DEF HandlerInv
<1>9. CASE DestBuffers = <<>>
  <2>1. /\ isr' = "flip" /\ dropped' = dropped + 1
        /\ isrBuf' = isrBuf /\ DestBuffers' = DestBuffers /\ pData' = pData
    BY <1>9 DEF DmarxEnter
  <2>2. DspiTypeOK'
    BY <1>1, <1>3, <1>4, <2>1 DEF DspiTypeOK
  <2>3. PoolInv' /\ FillInv'
    BY <1>1, <1>2, <1>3, <2>1 DEF PoolInv, FillInv
  <2>4. ~Pending' /\ Bound' = Base
    BY <1>4, <2>1 DEF Pending, Bound
  <2>5. HandlerInv'
    BY <1>2, <1>3, <1>4, <1>5, <1>6, <1>7, <1>8, <2>1 DEF HandlerInv
  <2>6. OrderInv'
    <3> SUFFICES ASSUME unnoticed = 0
                 PROVE  Ordered(Unsent, pData, lastSent, Base)
      BY <1>3, <1>6, <2>1, <2>4 DEF OrderInv, Ordered
    <3>1. Ordered(Unsent, pData, lastSent, Bound)
      BY <1>1 DEF OrderInv
    <3>2. Bound <= Base /\ Base \in Int
      BY <1>7, DspiHalf
    <3> QED
      BY <1>7, <3>1, <3>2, OrderedSame
  <2>7. HalvesAccounted'
    BY <1>1, <1>2, <1>3, <1>4, <1>6, <1>7, <2>1, <2>4 DEF HalvesAccounted
  <2> QED
    BY <1>4, <2>2, <2>3, <2>5, <2>6, <2>7 DEF DspiInv
<1>10. CASE DestBuffers # <<>>
  <2> DEFINE b == Head(DestBuffers)
  <2>1. /\ isr' = "copy" /\ isrBuf' = b /\ DestBuffers' = Tail(DestBuffers)
        /\ pData' = [pData EXCEPT ![isrBuf'] = <<>>] /\ dropped' = dropped
    BY <1>10 DEF DmarxEnter
  <2>2. /\ b \in Buffer /\ DestBuffers' \in Seq(Buffer) /\ IsInjective(DestBuffers')
        /\ b \notin ToSet(DestBuffers')
        /\ ToSet(DestBuffers) = ToSet(DestBuffers') \cup {b}
    <3>1. DestBuffers \in Seq(Buffer) /\ IsInjective(DestBuffers)
      BY <1>1 DEF DspiTypeOK, PoolInv
    <3> QED
      BY <1>10, <2>1, <3>1, TailOnce
  <2> HIDE DEF b
  <2>3. DspiTypeOK'
    <3>1. <<>> \in Seq(-1..MaxSamples)
      OBVIOUS
    <3>2. pData' \in [Buffer -> Seq(-1..MaxSamples)]
      BY <1>1, <2>1, <2>2, <3>1 DEF DspiTypeOK
    <3> QED
      BY <1>1, <1>3, <1>4, <2>1, <2>2, <3>2 DEF DspiTypeOK
  <2>4. PoolInv'
    BY <1>1, <1>2, <1>3, <1>5, <2>1, <2>2, DspiHalf DEF PoolInv
  <2>5. /\ pData'[b] = <<>>
        /\ \A c \in Buffer : c # b => pData'[c] = pData[c]
    BY <1>7, <2>1, <2>2
  <2>6. /\ b \notin ToSet(dspiRXFifo) /\ b # mainBuf
        /\ \A c \in ToSet(dspiRXFifo) : c \in Buffer
    <3>1. ToSet(dspiRXFifo) \subseteq Buffer
      BY <1>1 DEF DspiTypeOK, ToSet
    <3> QED
      BY <1>1, <2>2, <3>1 DEF PoolInv
  <2>7. FillInv'
    <3>1. Len(pData'[b]) < Half
      BY <2>5, DspiHalf
    <3>2. main = "write" => mainBuf \in Buffer
      BY <1>1, UnsentIs
    <3> QED
      BY <1>1, <1>3, <2>1, <2>5, <2>6, <3>1, <3>2 DEF FillInv
  <2>8. Pending' /\ Bound' = Bound
    BY <1>4, <1>7, <2>1 DEF Pending, Bound
  <2>9. HandlerInv'
    BY <1>2, <1>3, <1>4, <1>6, <1>7, <1>8, <2>1, <2>5, <2>8 DEF HandlerInv
  <2>10. OrderInv'
    <3> SUFFICES ASSUME unnoticed = 0
                 PROVE  Ordered(Unsent, pData', lastSent, Bound)
      BY <1>3, <1>6, <2>8 DEF OrderInv, Ordered
    <3>1. Ordered(Unsent, pData, lastSent, Bound)
      BY <1>1 DEF OrderInv
    <3>2. \A i \in 1..Len(Unsent) : Unsent[i] \in Buffer /\ Unsent[i] # b
      BY <1>1, <1>7, <2>6, UnsentIs, ElementOfSeq
    <3>3. \A i \in 1..Len(Unsent) : pData'[Unsent[i]] = pData[Unsent[i]]
      BY <2>5, <3>2
    <3>4. Bound <= Bound
      BY <1>7
    <3> QED
      BY <1>7, <3>1, <3>3, <3>4, OrderedSame
  <2>11. HalvesAccounted'
    BY <1>1, <1>2, <1>3, <1>4, <1>6, <1>7, <2>1, <2>8 DEF HalvesAccounted
  <2> QED
    BY <1>4, <2>3, <2>4, <2>7, <2>9, <2>10, <2>11 DEF DspiInv
<1> QED
  BY <1>9, <1>10

(* One sample is copied. *)
LEMMA DmarxCopyInv ==
  ASSUME DspiInv, DmarxCopy
  PROVE  DspiInv'
<1> DEFINE b == isrBuf
           p == pData[b]
           n == Len(p)
           x == RxBuffer[From + n]
<1>1. /\ DspiTypeOK /\ PoolInv /\ FillInv /\ RingInv /\ HandlerInv /\ OrderInv
      /\ HalvesAccounted
  BY DEF DspiInv
<1>2. /\ isr = "copy" /\ isrBuf' = b /\ Pending /\ b \in Buffer
      /\ isr' = IF Len(pData'[b]) = Half THEN "post" ELSE "copy"
      /\ pData' = [pData EXCEPT ![b] = Append(p, x)]
  BY <1>1, DspiHalf DEF DmarxCopy, Pending, PoolInv, DspiTypeOK
<1>3. /\ RxBuffer' = RxBuffer /\ received' = received /\ intReq' = intReq
      /\ unnoticed' = unnoticed /\ main' = main /\ mainBuf' = mainBuf
      /\ lastSent' = lastSent /\ sent' = sent /\ dropped' = dropped
      /\ BackHalf' = BackHalf /\ dspiRXFifo' = dspiRXFifo /\ DestBuffers' = DestBuffers
  BY DEF DmarxCopy, dmaVars, mainVars
<1>4. /\ RingInv' /\ Base' = Base /\ (received \div Half)' = received \div Half
      /\ RxBuffer' \in [Place -> -1..MaxSamples] /\ received' \in 0..MaxSamples
  BY <1>1, <1>3, SameDMA
<1>5. /\ Base \in Nat /\ Base >= Half /\ Base <= received /\ received < Base + Half
      /\ received \in Nat /\ Bound = Base - Half /\ Bound \in Int
      /\ lastSent \in Int /\ pData \in [Buffer -> Seq(Int)] /\ Unsent \in Seq(Buffer)
      /\ From \in {0, Half} /\ intReq
  BY <1>1, <1>2, DspiFacts, UnsentIs DEF Bound, HandlerInv
<1>6. n \in Nat /\ n < Half /\ p \in Seq(-1..MaxSamples)
  BY <1>1, <1>2, LenProperties DEF FillInv, DspiTypeOK
<1>7. x \in -1..MaxSamples
  <2>1. From + n \in Place
    BY <1>5, <1>6, DspiHalf DEF Place
  <2> QED
    BY <1>1, <2>1 DEF DspiTypeOK
<1> HIDE DEF b, p, n, x
<1>8. /\ pData'[b] = Append(p, x) /\ pData'[b] \in Seq(-1..MaxSamples)
      /\ Len(pData'[b]) = n + 1 /\ pData'[b][n + 1] = x
      /\ \A i \in 1..n : pData'[b][i] = p[i]
      /\ \A c \in Buffer : c # b => pData'[c] = pData[c]
  <2>1. pData'[b] = Append(p, x) /\ \A c \in Buffer : c # b => pData'[c] = pData[c]
    BY <1>2, <1>5
  <2> QED
    BY <1>6, <1>7, <2>1, AppendProperties DEF n
<1>9. DspiTypeOK'
  <2>1. pData' \in [Buffer -> Seq(-1..MaxSamples)]
    BY <1>1, <1>2, <1>8 DEF DspiTypeOK
  <2> QED
    BY <1>1, <1>2, <1>3, <1>4, <2>1 DEF DspiTypeOK, b
<1>10. PoolInv'
  BY <1>1, <1>2, <1>3 DEF PoolInv, b
<1>11. /\ b \notin ToSet(dspiRXFifo) /\ b # mainBuf
       /\ \A c \in ToSet(dspiRXFifo) : c \in Buffer
  <2>1. ToSet(dspiRXFifo) \subseteq Buffer
    BY <1>1 DEF DspiTypeOK, ToSet
  <2> QED
    BY <1>1, <1>2, <2>1, DspiHalf DEF PoolInv, b
<1>12. FillInv'
  <2>1. main = "write" => mainBuf \in Buffer
    BY <1>1, UnsentIs
  <2>2. Len(pData'[b]) # Half => Len(pData'[b]) < Half
    BY <1>6, <1>8, DspiHalf
  <2> QED
    BY <1>1, <1>2, <1>3, <1>8, <1>11, <2>1, <2>2 DEF FillInv, b
<1>13. From' = From /\ Unsent' = Unsent /\ Pending' /\ Bound' = Bound
  BY <1>2, <1>3, <1>4, <1>5 DEF From, Unsent, Pending, Bound
<1>14. ASSUME unnoticed = 0
       PROVE  /\ From = (Base - Half) % (2 * Half)
              /\ \A i \in 1..(n + 1) : pData'[b][i] = Base - Half + i - 1
  <2>1. From = (Base - Half) % (2 * Half)
    BY <1>1, <1>2, <1>14 DEF HandlerInv
  <2>2. \A i \in 1..n : p[i] = Base - Half + i - 1
    BY <1>1, <1>2, <1>14, DspiHalf DEF HandlerInv, b, n, p
  <2>3. x = Base - Half + n
    <3> DEFINE k == Base - Half + n
    <3>1. k \in 0..(received - 1) /\ k >= received - 2 * Half
      BY <1>5, <1>6, DspiHalf
    <3>2. RxBuffer[k % (2 * Half)] = k
      BY <1>1, <3>1 DEF RingInv
    <3>3. (Base - Half + n) % (2 * Half) = ((Base - Half) % (2 * Half)) + n
      <4>1. Base - Half \in Int /\ n \in 0..(Half - 1)
        BY <1>5, <1>6, DspiHalf
      <4>2. (Base - Half) % (2 * Half) \in {0, Half}
        BY <1>5, <2>1
      <4> QED
        BY <4>1, <4>2, DspiHalf, InRing
    <3> QED
      BY <2>1, <3>2, <3>3 DEF x
  <2>4. ASSUME NEW i \in 1..(n + 1)
        PROVE  pData'[b][i] = Base - Half + i - 1
    <3>1. CASE i \in 1..n
      BY <1>8, <2>2, <3>1
    <3>2. CASE i = n + 1
      <4>1. pData'[b][i] = x
        BY <1>8, <3>2
      <4>2. Base - Half + n = Base - Half + i - 1
        BY <1>5, <1>6, <3>2, DspiHalf
      <4> QED
        BY <2>3, <4>1, <4>2
    <3> QED
      BY <1>6, <3>1, <3>2
  <2> QED
    BY <2>1, <2>4
<1>15. HandlerInv'
  BY <1>2, <1>3, <1>4, <1>5, <1>8, <1>13, <1>14 DEF HandlerInv, b
<1>16. OrderInv'
  <2> SUFFICES ASSUME unnoticed = 0
               PROVE  Ordered(Unsent, pData', lastSent, Bound)
    BY <1>3, <1>13 DEF OrderInv, Ordered
  <2>1. Ordered(Unsent, pData, lastSent, Bound)
    BY <1>1 DEF OrderInv
  <2>2. \A i \in 1..Len(Unsent) : Unsent[i] \in Buffer /\ Unsent[i] # b
    BY <1>1, <1>5, <1>11, UnsentIs, ElementOfSeq
  <2>3. \A i \in 1..Len(Unsent) : pData'[Unsent[i]] = pData[Unsent[i]]
    BY <1>8, <2>2
  <2>4. Bound <= Bound
    BY <1>5
  <2> QED
    BY <1>5, <2>1, <2>3, <2>4, OrderedSame
<1>17. HalvesAccounted'
  BY <1>1, <1>2, <1>3, <1>4, <1>13 DEF HalvesAccounted
<1> QED
  BY <1>4, <1>9, <1>10, <1>12, <1>15, <1>16, <1>17 DEF DspiInv

(* The half is posted. *)
LEMMA DmarxPostInv ==
  ASSUME DspiInv, DmarxPost
  PROVE  DspiInv'
<1> DEFINE b == isrBuf
           f == dspiRXFifo
<1>1. /\ DspiTypeOK /\ PoolInv /\ FillInv /\ RingInv /\ HandlerInv /\ OrderInv
      /\ HalvesAccounted
  BY DEF DspiInv
<1>2. /\ isr = "post" /\ isr' = "flip" /\ isrBuf' = NULL /\ Pending /\ b \in Buffer
      /\ dspiRXFifo' = Append(f, b)
  BY <1>1, DspiHalf DEF DmarxPost, Pending, PoolInv, DspiTypeOK
<1>3. /\ RxBuffer' = RxBuffer /\ received' = received /\ intReq' = intReq
      /\ unnoticed' = unnoticed /\ main' = main /\ mainBuf' = mainBuf
      /\ lastSent' = lastSent /\ sent' = sent /\ dropped' = dropped
      /\ BackHalf' = BackHalf /\ pData' = pData /\ DestBuffers' = DestBuffers
  BY DEF DmarxPost, dmaVars, mainVars
<1>4. /\ RingInv' /\ Base' = Base /\ (received \div Half)' = received \div Half
      /\ RxBuffer' \in [Place -> -1..MaxSamples] /\ received' \in 0..MaxSamples
  BY <1>1, <1>3, SameDMA
<1>5. /\ Base \in Nat /\ Bound = Base - Half /\ Bound \in Int /\ (Base - Half) % Half = 0
      /\ lastSent \in Int /\ pData \in [Buffer -> Seq(Int)] /\ Unsent \in Seq(Buffer)
      /\ intReq /\ Base >= Half /\ received \div Half \in Int
      /\ dropped \in Nat /\ sent \in Nat
  BY <1>1, <1>2, DspiFacts, UnsentIs DEF Bound, HandlerInv, DspiTypeOK
<1>6. /\ f \in Seq(Buffer) /\ IsInjective(f) /\ b \notin ToSet(f)
      /\ Len(pData[b]) = Half
  BY <1>1, <1>2 DEF DspiTypeOK, PoolInv, FillInv
<1>7. /\ dspiRXFifo' \in Seq(Buffer) /\ IsInjective(dspiRXFifo')
      /\ ToSet(dspiRXFifo') = ToSet(f) \cup {b}
  BY <1>2, <1>6, AppendOnce
<1>8. DspiTypeOK'
  BY <1>1, <1>2, <1>3, <1>4, <1>7 DEF DspiTypeOK
<1> HIDE DEF b, f
<1>9. PoolInv'
  <2>1. /\ b # NULL /\ b # mainBuf /\ b \notin ToSet(DestBuffers)
        /\ IsInjective(DestBuffers) /\ mainBuf \notin ToSet(DestBuffers) \cup ToSet(f)
        /\ ToSet(DestBuffers) \cap ToSet(f) = {}
        /\ Buffer \subseteq ToSet(DestBuffers) \cup ToSet(f) \cup {b, mainBuf}
        /\ mainBuf # NULL <=> main \in {"write", "insert"}
    BY <1>1, <1>2, DspiHalf DEF PoolInv, b, f
  <2>2. NULL \notin ToSet(DestBuffers) \cup ToSet(f)
    <3>1. ToSet(DestBuffers) \subseteq Buffer /\ ToSet(f) \subseteq Buffer
      BY <1>1 DEF DspiTypeOK, ToSet, f
    <3> QED
      BY <3>1, DspiHalf
  <2>3. /\ ToSet(DestBuffers) \cap ToSet(dspiRXFifo') = {}
        /\ {NULL, mainBuf} \cap (ToSet(DestBuffers) \cup ToSet(dspiRXFifo')) = {}
        /\ Buffer \subseteq ToSet(DestBuffers) \cup ToSet(dspiRXFifo') \cup {NULL, mainBuf}
    BY <1>7, <2>1, <2>2
  <2> QED
    BY <1>2, <1>3, <1>7, <2>1, <2>3 DEF PoolInv
<1>10. FillInv'
  BY <1>1, <1>2, <1>3, <1>6, <1>7 DEF FillInv, b, f
<1>11. From' = From /\ ~Pending' /\ Bound' = Base
  BY <1>2, <1>3, <1>4 DEF From, Pending, Bound
<1>12. HandlerInv'
  <2>1. unnoticed = 0 => From = (Base - Half) % (2 * Half)
    BY <1>1, <1>2 DEF HandlerInv
  <2> QED
    BY <1>2, <1>3, <1>4, <1>5, <1>11, <2>1 DEF HandlerInv
<1>13. Unsent' = Append(Unsent, b)
  <2>1. CASE main = "write"
    <3>1. mainBuf \in Buffer /\ <<mainBuf>> \in Seq(Buffer) /\ <<b>> \in Seq(Buffer)
          /\ Unsent = <<mainBuf>> \o f
      BY <1>1, <1>2, <2>1, UnsentIs DEF f
    <3>2. dspiRXFifo' = f \o <<b>> /\ Append(Unsent, b) = Unsent \o <<b>>
      BY <1>2, <1>5, <1>6, AppendIsConcat
    <3>3. Unsent' = <<mainBuf>> \o (f \o <<b>>)
      BY <1>3, <2>1, <3>2 DEF Unsent
    <3> QED
      BY <1>6, <3>1, <3>2, <3>3, ConcatAssociative
  <2>2. CASE main # "write"
    <3>1. Unsent = f
      BY <1>1, <2>2, UnsentIs DEF f
    <3>2. Unsent' = <<>> \o dspiRXFifo'
      BY <1>3, <2>2 DEF Unsent
    <3> QED
      BY <1>2, <1>7, <3>1, <3>2, ConcatEmptySeq
  <2> QED
    BY <2>1, <2>2
<1>14. OrderInv'
  <2> SUFFICES ASSUME unnoticed = 0
               PROVE  Ordered(Append(Unsent, b), pData, lastSent, Base)
    BY <1>3, <1>11, <1>13 DEF OrderInv, Ordered
  <2>1. Ordered(Unsent, pData, lastSent, Bound)
    BY <1>1 DEF OrderInv
  <2>2. \A i \in 1..Half : pData[b][i] = Base - Half + i - 1
    BY <1>1, <1>2, <1>6, DspiHalf DEF HandlerInv, b
  <2>3. pData[b][1] = Base - Half
    <3>1. 1 \in 1..Half /\ Base - Half + 1 - 1 = Base - Half
      BY <1>5, DspiHalf
    <3> QED
      BY <2>2, <3>1
  <2>4. IsChunk(pData[b])
    <3>1. \A i \in 1..Half : pData[b][i] = pData[b][1] + i - 1
      BY <2>2, <2>3
    <3> QED
      BY <1>5, <1>6, <2>3, <3>1 DEF IsChunk
  <2>5. Bound <= pData[b][1] /\ pData[b][1] < Base /\ Base \in Int
    BY <1>5, <2>3, DspiHalf
  <2> QED
    BY <1>2, <1>5, <2>1, <2>4, <2>5, OrderedAppend
<1>15. HalvesAccounted'
  <2>1. Len(Unsent) \in Nat /\ Len(Unsent') = Len(Unsent) + 1
    BY <1>2, <1>5, <1>13, AppendProperties, LenProperties
  <2> QED
    BY <1>1, <1>2, <1>3, <1>4, <1>5, <1>11, <2>1 DEF HalvesAccounted
<1> QED
  BY <1>4, <1>8, <1>9, <1>10, <1>12, <1>14, <1>15 DEF DspiInv

(* The handler turns to the other half. *)
LEMMA DmarxFlipInv ==
  ASSUME DspiInv, DmarxFlip
  PROVE  DspiInv'
<1>1. /\ DspiTypeOK /\ PoolInv /\ FillInv /\ RingInv /\ HandlerInv /\ OrderInv
      /\ HalvesAccounted
  BY DEF DspiInv
<1>2. isr = "flip" /\ isr' = "cint" /\ BackHalf' = ~BackHalf
  BY DEF DmarxFlip
<1>3. /\ RxBuffer' = RxBuffer /\ received' = received /\ intReq' = intReq
      /\ unnoticed' = unnoticed /\ main' = main /\ mainBuf' = mainBuf
      /\ lastSent' = lastSent /\ sent' = sent /\ dropped' = dropped /\ isrBuf' = isrBuf
      /\ pData' = pData /\ DestBuffers' = DestBuffers /\ dspiRXFifo' = dspiRXFifo
  BY DEF DmarxFlip, dmaVars, mainVars, poolVars
<1>4. /\ RingInv' /\ Base' = Base /\ (received \div Half)' = received \div Half
      /\ RxBuffer' \in [Place -> -1..MaxSamples] /\ received' \in 0..MaxSamples
  BY <1>1, <1>3, SameDMA
<1>5. DspiTypeOK'
  BY <1>1, <1>2, <1>3, <1>4 DEF DspiTypeOK
<1>6. PoolInv' /\ FillInv'
  BY <1>1, <1>2, <1>3 DEF PoolInv, FillInv
<1>7. Unsent' = Unsent /\ ~Pending /\ ~Pending' /\ Bound' = Bound /\ isrBuf = NULL
  BY <1>1, <1>2, <1>3, <1>4 DEF Unsent, Pending, Bound, PoolInv
<1>8. HandlerInv'
  <2>1. unnoticed = 0 => From' = Base % (2 * Half)
    <3> SUFFICES ASSUME unnoticed = 0
                 PROVE  From' = Base % (2 * Half)
      OBVIOUS
    <3>1. From = (Base - Half) % (2 * Half)
      BY <1>1, <1>2 DEF HandlerInv
    <3>2. From \in {0, Half} /\ Base - Half \in Int /\ (Base - Half) + Half = Base
      BY <1>1, DspiFacts, DspiHalf
    <3>3. ((Base - Half) + Half) % (2 * Half) = Half - ((Base - Half) % (2 * Half))
      BY <3>1, <3>2, DspiHalf, InRing
    <3>4. From' = Half - From
      <4>1. From = (IF BackHalf THEN Half ELSE 0) /\ From' = (IF BackHalf THEN 0 ELSE Half)
        BY <1>1, <1>2 DEF From, DspiTypeOK
      <4>2. Half - Half = 0 /\ Half - 0 = Half
        BY DspiHalf
      <4> QED
        BY <4>1, <4>2
    <3> QED
      BY <3>1, <3>2, <3>3, <3>4
  <2> QED
    BY <1>1, <1>2, <1>3, <1>4, <1>7, <2>1 DEF HandlerInv
<1>9. OrderInv'
  BY <1>1, <1>3, <1>7 DEF OrderInv, Ordered
<1>10. HalvesAccounted'
  BY <1>1, <1>3, <1>4, <1>7 DEF HalvesAccounted
<1> QED
  BY <1>4, <1>5, <1>6, <1>8, <1>9, <1>10 DEF DspiInv

(* and returns. *)
LEMMA DmarxReturnInv ==
  ASSUME DspiInv, DmarxReturn
  PROVE  DspiInv'
<1>1. /\ DspiTypeOK /\ PoolInv /\ FillInv /\ RingInv /\ HandlerInv /\ OrderInv
      /\ HalvesAccounted
  BY DEF DspiInv
<1>2. isr = "cint" /\ isr' = "idle" /\ intReq' = FALSE
  BY DEF DmarxReturn
<1>3. /\ RxBuffer' = RxBuffer /\ received' = received /\ BackHalf' = BackHalf
      /\ unnoticed' = unnoticed /\ main' = main /\ mainBuf' = mainBuf
      /\ lastSent' = lastSent /\ sent' = sent /\ dropped' = dropped /\ isrBuf' = isrBuf
      /\ pData' = pData /\ DestBuffers' = DestBuffers /\ dspiRXFifo' = dspiRXFifo
  BY DEF DmarxReturn, mainVars, poolVars
<1>4. /\ RingInv' /\ Base' = Base /\ (received \div Half)' = received \div Half
      /\ RxBuffer' \in [Place -> -1..MaxSamples] /\ received' \in 0..MaxSamples
  BY <1>1, <1>3, SameDMA
<1>5. DspiTypeOK'
  BY <1>1, <1>2, <1>3, <1>4 DEF DspiTypeOK
<1>6. PoolInv' /\ FillInv'
  BY <1>1, <1>2, <1>3 DEF PoolInv, FillInv
<1>7. /\ Unsent' = Unsent /\ ~Pending /\ ~Pending' /\ Bound' = Bound /\ isrBuf = NULL
      /\ From' = From
  BY <1>1, <1>2, <1>3, <1>4 DEF Unsent, Pending, Bound, PoolInv, From
<1>8. HandlerInv'
  BY <1>1, <1>2, <1>3, <1>4, <1>7 DEF HandlerInv
<1>9. OrderInv'
  BY <1>1, <1>3, <1>7 DEF OrderInv, Ordered
<1>10. HalvesAccounted'
  BY <1>1, <1>3, <1>4, <1>7 DEF HalvesAccounted
<1> QED
  BY <1>4, <1>5, <1>6, <1>8, <1>9, <1>10 DEF DspiInv

(* UserMain's steps are none of the handler's, nor of the DMA's. *)
LEMMA SameHandler ==
  ASSUME DspiTypeOK, PoolInv, RingInv, HandlerInv, UNCHANGED <<dmaVars, isrVars, pData>>
  PROVE  /\ RingInv' /\ HandlerInv' /\ Base' = Base /\ Bound' = Bound /\ Pending' = Pending
         /\ (received \div Half)' = received \div Half
BY DEF DspiTypeOK, PoolInv, RingInv, HandlerInv, dmaVars, isrVars, Base, Bound, Pending, From

LEMMA MainPendInv ==
  ASSUME DspiInv, MainPend
  PROVE  DspiInv'
<1> DEFINE b == Head(dspiRXFifo)
<1>1. /\ DspiTypeOK /\ PoolInv /\ FillInv /\ RingInv /\ HandlerInv /\ OrderInv
      /\ HalvesAccounted
  BY DEF DspiInv
<1>2. /\ isr = "idle" /\ main = "pend" /\ main' = "write" /\ mainBuf' = b
      /\ dspiRXFifo # <<>> /\ dspiRXFifo' = Tail(dspiRXFifo)
      /\ UNCHANGED <<dmaVars, isrVars>>
  BY DEF MainPend
<1>3. /\ RxBuffer' = RxBuffer /\ received' = received /\ intReq' = intReq
      /\ unnoticed' = unnoticed /\ isr' = isr /\ isrBuf' = isrBuf /\ BackHalf' = BackHalf
      /\ lastSent' = lastSent /\ sent' = sent /\ dropped' = dropped
      /\ pData' = pData /\ DestBuffers' = DestBuffers
  BY DEF MainPend, dmaVars, isrVars
<1>4. /\ RingInv' /\ HandlerInv' /\ Bound' = Bound /\ Pending' = Pending
      /\ (received \div Half)' = received \div Half
  BY <1>1, <1>2, <1>3, SameHandler
<1>5. /\ b \in Buffer /\ dspiRXFifo' \in Seq(Buffer) /\ IsInjective(dspiRXFifo')
      /\ b \notin ToSet(dspiRXFifo') /\ ToSet(dspiRXFifo) = ToSet(dspiRXFifo') \cup {b}
  <2>1. dspiRXFifo \in Seq(Buffer) /\ IsInjective(dspiRXFifo)
    BY <1>1 DEF DspiTypeOK, PoolInv
  <2> QED
    BY <1>2, <2>1, TailOnce
<1> HIDE DEF b
<1>6. DspiTypeOK'
  BY <1>1, <1>2, <1>3, <1>5 DEF DspiTypeOK
<1>7. PoolInv'
  <2>1. isrBuf = NULL /\ mainBuf = NULL /\ b # NULL
    BY <1>1, <1>2, <1>5, DspiHalf DEF PoolInv
  <2>2. /\ IsInjective(DestBuffers) /\ ToSet(DestBuffers) \cap ToSet(dspiRXFifo) = {}
        /\ NULL \notin ToSet(DestBuffers) \cup ToSet(dspiRXFifo)
        /\ Buffer \subseteq ToSet(DestBuffers) \cup ToSet(dspiRXFifo) \cup {NULL}
    BY <1>1, <2>1 DEF PoolInv
  <2>3. /\ ToSet(DestBuffers) \cap ToSet(dspiRXFifo') = {}
        /\ {NULL, b} \cap (ToSet(DestBuffers) \cup ToSet(dspiRXFifo')) = {}
        /\ Buffer \subseteq ToSet(DestBuffers) \cup ToSet(dspiRXFifo') \cup {NULL, b}
    BY <1>5, <2>2
  <2> QED
    BY <1>2, <1>3, <1>5, <2>1, <2>2, <2>3 DEF PoolInv
<1>8. FillInv'
  BY <1>1, <1>2, <1>3, <1>5 DEF FillInv
<1>9. Unsent' = Unsent
  <2>1. dspiRXFifo \in Seq(Buffer) /\ DOMAIN dspiRXFifo = 1..Len(dspiRXFifo)
        /\ Len(dspiRXFifo) \in Nat /\ Unsent = dspiRXFifo
    BY <1>1, <1>2, LenProperties, UnsentIs DEF DspiTypeOK
  <2>2. Unsent' = <<b>> \o dspiRXFifo'
    BY <1>2 DEF Unsent
  <2>3. /\ Unsent' \in Seq(Buffer) /\ Unsent' # <<>>
        /\ Head(Unsent') = b /\ Tail(Unsent') = Tail(dspiRXFifo)
    BY <1>2, <1>5, <2>2, FirstThenRest
  <2>4. Head(Unsent') = Head(dspiRXFifo)
    BY <2>3 DEF b
  <2> QED
    BY <1>2, <2>1, <2>3, <2>4, SameHeadTail
<1>10. OrderInv'
  BY <1>1, <1>3, <1>4, <1>9 DEF OrderInv, Ordered
<1>11. HalvesAccounted'
  BY <1>1, <1>3, <1>4, <1>9 DEF HalvesAccounted
<1> QED
  BY <1>4, <1>6, <1>7, <1>8, <1>10, <1>11 DEF DspiInv

LEMMA MainWriteInv ==
  ASSUME DspiInv, MainWrite
  PROVE  DspiInv'
<1>1. /\ DspiTypeOK /\ PoolInv /\ FillInv /\ RingInv /\ HandlerInv /\ OrderInv
      /\ HalvesAccounted
  BY DEF DspiInv
<1>2. /\ isr = "idle" /\ main = "write" /\ main' = "insert"
      /\ lastSent' = Head(pData[mainBuf]) /\ sent' = sent + 1
      /\ UNCHANGED <<dmaVars, isrVars>>
  BY DEF MainWrite
<1>3. /\ RxBuffer' = RxBuffer /\ received' = received /\ intReq' = intReq
      /\ unnoticed' = unnoticed /\ isr' = isr /\ isrBuf' = isrBuf /\ BackHalf' = BackHalf
      /\ mainBuf' = mainBuf /\ dropped' = dropped
      /\ pData' = pData /\ DestBuffers' = DestBuffers /\ dspiRXFifo' = dspiRXFifo
  BY DEF MainWrite, dmaVars, isrVars, poolVars
<1>4. /\ RingInv' /\ HandlerInv' /\ Bound' = Bound /\ Pending' = Pending
      /\ (received \div Half)' = received \div Half
  BY <1>1, <1>2, <1>3, SameHandler
<1>5. /\ mainBuf \in Buffer /\ Unsent \in Seq(Buffer) /\ Unsent # <<>>
      /\ Head(Unsent) = mainBuf /\ Tail(Unsent) = dspiRXFifo
      /\ Len(Unsent) = Len(dspiRXFifo) + 1 /\ Len(dspiRXFifo) \in Nat
      /\ dspiRXFifo \in Seq(Buffer) /\ sent \in Nat /\ dropped \in Nat
      /\ received \div Half \in Int
  BY <1>1, <1>2, UnsentIs, DspiFacts, LenProperties DEF DspiTypeOK
<1>6. lastSent' = pData[mainBuf][1] /\ lastSent' \in -1..MaxSamples
  <2>1. pData[mainBuf] \in Seq(-1..MaxSamples) /\ Len(pData[mainBuf]) = Half
    BY <1>1, <1>2, <1>5 DEF DspiTypeOK, FillInv
  <2>2. 1 \in 1..Len(pData[mainBuf]) /\ pData[mainBuf] # <<>>
    BY <2>1, DspiHalf
  <2>3. pData[mainBuf][1] \in -1..MaxSamples
    BY <2>1, <2>2, ElementOfSeq
  <2>4. Head(pData[mainBuf]) = pData[mainBuf][1]
    BY <2>1, <2>2, HeadTailProperties
  <2> QED
    BY <1>2, <2>3, <2>4
<1>7. DspiTypeOK'
  <2>1. main' \in {"pend", "write", "insert"} /\ sent' \in Nat
    BY <1>2, <1>5
  <2> QED
    BY <1>1, <1>3, <1>6, <2>1 DEF DspiTypeOK
<1>8. PoolInv' /\ FillInv'
  BY <1>1, <1>2, <1>3 DEF PoolInv, FillInv
<1>9. Unsent' = dspiRXFifo
  BY <1>2, <1>3, <1>5, ConcatEmptySeq DEF Unsent
<1>10. OrderInv'
  <2> SUFFICES ASSUME unnoticed = 0
               PROVE  Ordered(Tail(Unsent), pData, pData[Head(Unsent)][1], Bound)
    BY <1>3, <1>4, <1>5, <1>6, <1>9 DEF OrderInv, Ordered
  <2> QED
    BY <1>1, <1>5, OrderedTail DEF OrderInv
<1>11. HalvesAccounted'
  BY <1>1, <1>2, <1>3, <1>4, <1>5, <1>9 DEF HalvesAccounted
<1> QED
  BY <1>4, <1>7, <1>8, <1>10, <1>11 DEF DspiInv

LEMMA MainInsertInv ==
  ASSUME DspiInv, MainInsert
  PROVE  DspiInv'
<1> DEFINE b == mainBuf
<1>1. /\ DspiTypeOK /\ PoolInv /\ FillInv /\ RingInv /\ HandlerInv /\ OrderInv
      /\ HalvesAccounted
  BY DEF DspiInv
<1>2. /\ isr = "idle" /\ main = "insert" /\ main' = "pend" /\ mainBuf' = NULL
      /\ DestBuffers' = Append(DestBuffers, b)
      /\ UNCHANGED <<dmaVars, isrVars>>
  BY DEF MainInsert
<1>3. /\ RxBuffer' = RxBuffer /\ received' = received /\ intReq' = intReq
      /\ unnoticed' = unnoticed /\ isr' = isr /\ isrBuf' = isrBuf /\ BackHalf' = BackHalf
      /\ lastSent' = lastSent /\ sent' = sent /\ dropped' = dropped
      /\ pData' = pData /\ dspiRXFifo' = dspiRXFifo
  BY DEF MainInsert, dmaVars, isrVars
<1>4. /\ RingInv' /\ HandlerInv' /\ Bound' = Bound /\ Pending' = Pending
      /\ (received \div Half)' = received \div Half
  BY <1>1, <1>2, <1>3, SameHandler
<1>5. /\ b \in Buffer /\ b \notin ToSet(DestBuffers) /\ b \notin ToSet(dspiRXFifo)
      /\ DestBuffers \in Seq(Buffer) /\ IsInjective(DestBuffers) /\ isrBuf = NULL
      /\ NULL \notin ToSet(DestBuffers) \cup ToSet(dspiRXFifo)
      /\ ToSet(DestBuffers) \cap ToSet(dspiRXFifo) = {}
      /\ IsInjective(dspiRXFifo)
      /\ Buffer \subseteq ToSet(DestBuffers) \cup ToSet(dspiRXFifo) \cup {NULL, b}
  BY <1>1, <1>2, DspiHalf DEF DspiTypeOK, PoolInv
<1> HIDE DEF b
<1>6. /\ DestBuffers' \in Seq(Buffer) /\ IsInjective(DestBuffers')
      /\ ToSet(DestBuffers') = ToSet(DestBuffers) \cup {b}
  BY <1>2, <1>5, AppendOnce
<1>7. DspiTypeOK'
  BY <1>1, <1>2, <1>3, <1>6 DEF DspiTypeOK
<1>8. PoolInv'
  <2>1. NULL \notin ToSet(DestBuffers') \cup ToSet(dspiRXFifo)
    BY <1>5, <1>6, DspiHalf
  <2>2. /\ ToSet(DestBuffers') \cap ToSet(dspiRXFifo) = {}
        /\ Buffer \subseteq ToSet(DestBuffers') \cup ToSet(dspiRXFifo) \cup {NULL}
    BY <1>5, <1>6
  <2> QED
    BY <1>2, <1>3, <1>5, <1>6, <2>1, <2>2 DEF PoolInv
<1>9. FillInv'
  BY <1>1, <1>2, <1>3 DEF FillInv
<1>10. Unsent' = Unsent
  BY <1>2, <1>3 DEF Unsent
<1>11. OrderInv'
  BY <1>1, <1>3, <1>4, <1>10 DEF OrderInv, Ordered
<1>12. HalvesAccounted'
  BY <1>1, <1>3, <1>4, <1>10 DEF HalvesAccounted
<1> QED
  BY <1>4, <1>7, <1>8, <1>9, <1>11, <1>12 DEF DspiInv

-------------------------------------------------------------------------------
LEMMA UnchangedDspi ==
  ASSUME DspiInv, UNCHANGED dspiVars
  PROVE  DspiInv'
<1>1. UNCHANGED <<dmaVars, isrVars, mainVars, poolVars>>
  BY DEF dspiVars
<1>2. /\ DspiTypeOK /\ PoolInv /\ FillInv /\ RingInv /\ HandlerInv /\ OrderInv
      /\ HalvesAccounted
  BY DEF DspiInv
<1>3. DestBuffers' = DestBuffers /\ pData' = pData /\ dspiRXFifo' = dspiRXFifo
  BY <1>1 DEF poolVars
<1>4. /\ main' = main /\ mainBuf' = mainBuf /\ lastSent' = lastSent /\ sent' = sent
      /\ RxBuffer' = RxBuffer /\ received' = received /\ intReq' = intReq
      /\ unnoticed' = unnoticed /\ isr' = isr /\ isrBuf' = isrBuf /\ BackHalf' = BackHalf
      /\ dropped' = dropped
  BY <1>1 DEF dmaVars, isrVars, mainVars
<1>5. /\ RingInv' /\ HandlerInv' /\ Bound' = Bound /\ Pending' = Pending
      /\ (received \div Half)' = received \div Half
  BY <1>1, <1>2, <1>3, SameHandler
<1>6. DspiTypeOK'
  BY <1>2, <1>3, <1>4 DEF DspiTypeOK
<1>7. PoolInv' /\ FillInv'
  BY <1>2, <1>3, <1>4 DEF PoolInv, FillInv
<1>8. Unsent' = Unsent
  BY <1>3, <1>4 DEF Unsent
<1>9. OrderInv' /\ HalvesAccounted'
  BY <1>2, <1>3, <1>4, <1>5, <1>8 DEF OrderInv, Ordered, HalvesAccounted
<1> QED
  BY <1>5, <1>6, <1>7, <1>9 DEF DspiInv

(* The invariant, of every step of the DMA, the handler and UserMain, for *)
(* any number of buffers and samples to the half.                         *)
THEOREM DspiInvariant == DspiSpec => []DspiInv
<1>1. DspiInit => DspiInv
  BY InitDspi
<1>2. DspiInv /\ [DspiNext]_dspiVars => DspiInv'
  BY DMATransferInv, DmarxEnterInv, DmarxCopyInv, DmarxPostInv, DmarxFlipInv,
     DmarxReturnInv, MainPendInv, MainWriteInv, MainInsertInv, UnchangedDspi
     DEF DspiNext, Dmarx, UserMain
<1> QED
  BY <1>1, <1>2, PTL DEF DspiSpec

(* Every pool buffer is in exactly one of the pool, the FIFO, dmarx's pp   *)
(* and UserMain's: none is lost or written to before it was sent.          *)
THEOREM DspiBuffers == DspiSpec => []BuffersConserved
<1>1. DspiInv => BuffersConserved
  <2> SUFFICES ASSUME DspiInv
               PROVE  BuffersConserved
    OBVIOUS
  <2> DEFINE d == DestBuffers
             h == InHand(isrBuf)
             f == dspiRXFifo
             m == InHand(mainBuf)
  <2>1. /\ d \in Seq(Buffer) /\ f \in Seq(Buffer) /\ IsInjective(d) /\ IsInjective(f)
        /\ isrBuf \in Buffer \cup {NULL} /\ mainBuf \in Buffer \cup {NULL}
        /\ ToSet(d) \cap ToSet(f) = {}
        /\ {isrBuf, mainBuf} \cap (ToSet(d) \cup ToSet(f)) = {}
        /\ isrBuf = mainBuf => isrBuf = NULL
        /\ Buffer \subseteq ToSet(d) \cup ToSet(f) \cup {isrBuf, mainBuf}
    BY DEF DspiInv, DspiTypeOK, PoolInv
  <2>2. ASSUME NEW x \in Buffer \cup {NULL}
        PROVE  /\ InHand(x) \in Seq(Buffer) /\ IsInjective(InHand(x))
               /\ ToSet(InHand(x)) = {x} \ {NULL}
    <3>1. CASE x = NULL
      <4>1. <<>> \in Seq(Buffer) /\ IsInjective(<<>>) /\ ToSet(<<>>) = {}
        BY DEF IsInjective, ToSet
      <4> QED
        BY <3>1, <4>1 DEF InHand
    <3>2. CASE x # NULL
      BY <3>2, AtMostOne DEF InHand
    <3> QED
      BY <3>1, <3>2
  <2>3. /\ h \in Seq(Buffer) /\ IsInjective(h) /\ ToSet(h) = {isrBuf} \ {NULL}
        /\ m \in Seq(Buffer) /\ IsInjective(m) /\ ToSet(m) = {mainBuf} \ {NULL}
    BY <2>1, <2>2
  <2>4. ToSet(d) \subseteq Buffer /\ ToSet(f) \subseteq Buffer
    BY <2>1 DEF ToSet
  <2> HIDE DEF d, h, f, m
  <2>5. /\ d \o h \in Seq(Buffer) /\ IsInjective(d \o h)
        /\ ToSet(d \o h) = ToSet(d) \cup ToSet(h)
    <3>1. ToSet(d) \cap ToSet(h) = {}
      BY <2>1, <2>3
    <3> QED
      BY <2>1, <2>3, <3>1, ConcatOnce
  <2> DEFINE dh == d \o h
             dhf == dh \o f
  <2> HIDE DEF dh
  <2>6. /\ dhf \in Seq(Buffer) /\ IsInjective(dhf)
        /\ ToSet(dhf) = ToSet(d) \cup ToSet(h) \cup ToSet(f)
    <3>1. dh \in Seq(Buffer) /\ IsInjective(dh) /\ ToSet(dh) = ToSet(d) \cup ToSet(h)
      BY <2>5 DEF dh
    <3>2. ToSet(dh) \cap ToSet(f) = {}
      BY <2>1, <2>3, <3>1
    <3>3. dhf \in Seq(Buffer) /\ IsInjective(dhf) /\ ToSet(dhf) = ToSet(dh) \cup ToSet(f)
      BY <2>1, <3>1, <3>2, ConcatOnce
    <3> QED
      BY <3>1, <3>3
  <2> HIDE DEF dhf
  <2>7. /\ IsInjective(dhf \o m)
        /\ ToSet(dhf \o m) = ToSet(d) \cup ToSet(h) \cup ToSet(f) \cup ToSet(m)
    <3>1. ToSet(dhf) \cap ToSet(m) = {}
      BY <2>1, <2>3, <2>6
    <3>2. IsInjective(dhf \o m) /\ ToSet(dhf \o m) = ToSet(dhf) \cup ToSet(m)
      BY <2>3, <2>6, <3>1, ConcatOnce
    <3> QED
      BY <2>6, <3>2
  <2>8. ToSet(d) \cup ToSet(h) \cup ToSet(f) \cup ToSet(m) = Buffer
    BY <2>1, <2>3, <2>4, DspiHalf
  <2>9. Held = dhf \o m
    BY DEF Held, dhf, dh, d, h, f, m
  <2> QED
    BY <2>7, <2>8, <2>9 DEF BuffersConserved
<1> QED
  BY <1>1, DspiInvariant, PTL

(* What waits to be sent are whole halves of RxBuffer in the order of the  *)
(* bus, as long as the DMA has not overtaken dmarx.                        *)
THEOREM DspiChunks == DspiSpec => []ChunksInOrder
<1>1. DspiInv => ChunksInOrder
  BY DEF DspiInv, OrderInv, Ordered, ChunksInOrder
<1> QED
  BY <1>1, DspiInvariant, PTL

(* Every half that the DMA has completed is sent, waits, was thrown away   *)
(* for want of a buffer, or is still requested.                            *)
THEOREM DspiHalves == DspiSpec => []HalvesAccounted
<1>1. DspiInv => HalvesAccounted
  BY DEF DspiInv
<1> QED
  BY <1>1, DspiInvariant, PTL
-------------------------------------------------------------------------------
(***************************************************************************)
(* Swd: that a call which returns ACK has done what it was asked to, and   *)
(* that a core which is started has its whole program, for any length of   *)
(* the program and any number of attempts and faults.                      *)
(*                                                                         *)
(* Every packet leaves the target with the error flag of what went wrong,  *)
(* but the one it missed; only ABORT clears the flags, at the begin of a   *)
(* call and never WDATA.  So a call, and with WDATA the rest of them, is   *)
(* Stuck, or did what it said until here.                                  *)
(***************************************************************************)
Value == 0..Word(Words)

DapType ==
  [sticky : SUBSET {WDATA, ERR}, pwr : {"off", "req", "up"}, sel : {"MEM", "MDM"},
   tar : Nat, csw : Value, rdbuff : Value, mem : [Memory -> Value],
   xfer : Value, regs : [{Pc, Lr} -> Value]]

SwdTyped == SwdTypeOK /\ dap \in DapType

(* The calls of swd_write_mem and of swd_read_mem, and what they are to write. *)
WriteCalls == {5, 8, 9, 12, 13, 15}
ReadCalls  == {7, 10, 11, 14}
Target(c)  == CASE c \in {8, 12} -> DCRDR
                [] c \in {9, 13} -> DCRSR
                [] OTHER         -> DHCSR
Sends(c)   == CASE c = 5  -> Halt
                [] c = 8  -> Entry
                [] c = 9  -> Pc
                [] c = 12 -> Return
                [] c = 13 -> Lr
                [] c = 15 -> Run

(* A call that runs has packets left; one that returned ACK, or the calls  *)
(* of main that nothing stops, have none.                                  *)
HostInv ==
  call # Done =>
    /\ result = NONE => step <= Len(Program[call])
    /\ result = ACK \/ (call = Loading /\ result # NONE) => step = Len(Program[call])

Stuck  == dap.sticky # {}
Missed == "missed" \in lost

(* The write that a power-up begins with shows that no error is left, and  *)
(* nothing reaches the target's bus before the first call for its memory:  *)
(* an error that such a call finds is one of those before it.              *)
ErrInv ==
  /\ call = Powering /\ step = 2 => ERR \notin dap.sticky
  /\ call = Loading => ERR \notin dap.sticky

(* The access port is set up for words, or refuses them. *)
PortInv ==
  Missed \/ WDATA \in dap.sticky \/
    /\ call = Loading /\ step > 5 => dap.sel = "MEM"
    /\ call = Loading /\ step > 6 => dap.csw = Csw
    /\ call > Loading => dap.csw \in {Csw, CswInc}

(* What a call has done until here. *)
MemInv ==
  /\ call \in WriteCalls \cup ReadCalls \cup {Array} /\ step > 2 =>
       Stuck \/ dap.sel = "MEM"
  /\ call \in WriteCalls /\ step = 4 => Stuck \/ dap.tar = Target(call)
  /\ call \in WriteCalls /\ step > 4 =>
       Missed \/ Stuck \/ dap.mem[Target(call)] = Sends(call)

ArrayInv ==
  call = Array =>
    /\ step \in 4..7 /\ result = NONE => Stuck \/ dap.tar = 1
    /\ step = 5 => Missed \/ Stuck \/ dap.rdbuff = dap.csw
    /\ step > 5 => Missed \/ Stuck \/ data \in {Csw, CswInc}
    /\ step > 6 =>
         Missed \/ Stuck \/
           /\ result = NONE => dap.csw = CswInc /\ dap.tar = step - 6
           /\ \A i \in 1..(step - 7) : dap.mem[i] = Word(i)

(* Packet s of call c has been sent. *)
After(c, s) == call > c \/ (call = c /\ step > s)

(* Nothing went wrong, and everything was done. *)
Clean == lost = {} /\ ~Stuck /\ call >= Loading

CleanInv ==
  Clean =>
    /\ result \in {NONE, ACK}
    /\ call > Loading =>
         dap.csw = IF call = Array /\ step > 6 /\ result = NONE THEN CswInc ELSE Csw
    /\ call = Array /\ step > 5 => data = Csw
    /\ After(5, 4) /\ ~After(15, 4) => dap.mem[DHCSR] = Halt
    /\ call > Array => \A i \in Code : dap.mem[i] = Word(i)

RegsInv ==
  Clean =>
    /\ After(8, 4) /\ ~After(12, 4) => dap.mem[DCRDR] = Entry
    /\ After(9, 4) /\ ~After(12, 4) =>
         dap.xfer = Pc \/ (dap.xfer = Unknown /\ dap.regs[Pc] = Entry)
    /\ After(12, 4) => dap.mem[DCRDR] = Return /\ dap.regs[Pc] = Entry
    /\ After(12, 4) /\ ~After(13, 4) => dap.xfer = Unknown
    /\ After(13, 4) =>
         dap.xfer = Lr \/ (dap.xfer = Unknown /\ dap.regs[Lr] = Return)
    /\ After(15, 4) => dap.xfer = Unknown

(* The core runs when it was told to, and no register moves any more. *)
CoreInv ==
  dap.mem[DHCSR] = Run =>
    /\ After(15, 4)
    /\ lost = {} => dap.xfer = Unknown

SwdInv ==
  /\ SwdTyped /\ HostInv /\ ErrInv /\ PortInv /\ MemInv /\ ArrayInv
  /\ CleanInv /\ RegsInv /\ CoreInv
  /\ ReportIsTrue /\ ReleasedIsComplete

-------------------------------------------------------------------------------
(* The packets of each call. *)
LEMMA Joined ==
  ASSUME NEW a, NEW b, NEW c, NEW d, NEW e
  PROVE  LET s == << a, b, c >> \o << d, e >>
         IN  Len(s) = 5 /\ s[1] = a /\ s[2] = b /\ s[3] = c /\ s[4] = d /\ s[5] = e
OBVIOUS

LEMMA WriteMemIs ==
  ASSUME NEW a, NEW v
  PROVE  LET s == swd_write_mem(a, v)
         IN  /\ Len(s) = 5
             /\ s[1] = W("ABORT", Abort0x16, TRUE) /\ s[2] = W("SELECT", "MEM", TRUE)
             /\ s[3] = W("TAR", a, TRUE) /\ s[4] = W("DRW", v, FALSE) /\ s[5] = R("CSW", TRUE)
<1> DEFINE p == W("ABORT", Abort0x16, TRUE)
           q == W("SELECT", "MEM", TRUE)
           r == W("TAR", a, TRUE)
           x == W("DRW", v, FALSE)
           y == R("CSW", TRUE)
<1>1. swd_write_mem(a, v) = << p, q, r >> \o << x, y >>
  BY DEF swd_write_mem, swd_config_mem_access
<1> HIDE DEF p, q, r, x, y
<1>2. LET s == swd_write_mem(a, v)
      IN  Len(s) = 5 /\ s[1] = p /\ s[2] = q /\ s[3] = r /\ s[4] = x /\ s[5] = y
  BY <1>1, Joined
<1> QED
  BY <1>2 DEF p, q, r, x, y

LEMMA ReadMemIs ==
  ASSUME NEW a
  PROVE  LET s == swd_read_mem(a)
         IN  /\ Len(s) = 5
             /\ s[1] = W("ABORT", Abort0x16, TRUE) /\ s[2] = W("SELECT", "MEM", TRUE)
             /\ s[3] = W("TAR", a, TRUE) /\ s[4] = R("DRW", TRUE) /\ s[5] = R("RD_BUFF", TRUE)
<1> DEFINE p == W("ABORT", Abort0x16, TRUE)
           q == W("SELECT", "MEM", TRUE)
           r == W("TAR", a, TRUE)
           x == R("DRW", TRUE)
           y == R("RD_BUFF", TRUE)
<1>1. swd_read_mem(a) = << p, q, r >> \o << x, y >>
  BY DEF swd_read_mem, swd_config_mem_access
<1> HIDE DEF p, q, r, x, y
<1>2. LET s == swd_read_mem(a)
      IN  Len(s) = 5 /\ s[1] = p /\ s[2] = q /\ s[3] = r /\ s[4] = x /\ s[5] = y
  BY <1>1, Joined
<1> QED
  BY <1>2 DEF p, q, r, x, y

LEMMA PreludeIs ==
  /\ Len(Prelude) = 8 /\ Prelude[1] = W("SELECT", "MDM", FALSE)
  /\ Prelude[2] = W("TAR", Unknown, FALSE) /\ Prelude[3] = R("CSW", FALSE)
  /\ Prelude[4] = R("RD_BUFF", FALSE) /\ Prelude[5] = W("SELECT", "MEM", FALSE)
  /\ Prelude[6] = W("CSW", Csw, FALSE) /\ Prelude[7] = R("CSW", FALSE)
  /\ Prelude[8] = R("RD_BUFF", FALSE)
BY DEF Prelude

LEMMA ConcatIs ==
  ASSUME NEW S, NEW f \in Seq(S), NEW g \in Seq(S)
  PROVE  /\ f \o g \in Seq(S) /\ Len(f \o g) = Len(f) + Len(g)
         /\ \A i \in 1..Len(f) : (f \o g)[i] = f[i]
         /\ \A i \in 1..Len(g) : (f \o g)[Len(f) + i] = g[i]
<1> DEFINE s == f \o g
           n == Len(f)
           m == Len(g)
<1>1. /\ n \in Nat /\ m \in Nat /\ s \in Seq(S) /\ Len(s) = n + m
      /\ \A i \in 1..(n + m) : s[i] = IF i <= n THEN f[i] ELSE g[i - n]
  BY ConcatProperties, LenProperties
<1> HIDE DEF s, n, m
<1>2. ASSUME NEW i \in 1..n
      PROVE  s[i] = f[i]
  BY <1>1
<1>3. ASSUME NEW i \in 1..m
      PROVE  s[n + i] = g[i]
  <2>1. n + i \in 1..(n + m) /\ ~(n + i <= n) /\ (n + i) - n = i
    BY <1>1
  <2> QED
    BY <1>1, <2>1
<1> QED
  BY <1>1, <1>2, <1>3 DEF s, n, m

LEMMA ArrayIs ==
  LET s == swd_write_array
  IN  /\ Len(s) = Words + 7
      /\ s[1] = W("ABORT", Abort0x16, TRUE) /\ s[2] = W("SELECT", "MEM", TRUE)
      /\ s[3] = W("TAR", 1, TRUE) /\ s[4] = R("CSW", FALSE) /\ s[5] = R("RD_BUFF", TRUE)
      /\ s[6] = W("CSW", OrInc(data), FALSE)
      /\ \A i \in Code : s[6 + i] = W("DRW", Word(i), FALSE)
      /\ s[Words + 7] = W("CSW", data, TRUE)
<1> DEFINE p == W("ABORT", Abort0x16, TRUE)
           q == W("SELECT", "MEM", TRUE)
           r == W("TAR", 1, TRUE)
           x == R("CSW", FALSE)
           y == R("RD_BUFF", TRUE)
           z == W("CSW", OrInc(data), FALSE)
           w(i) == W("DRW", Word(i), FALSE)
           l == W("CSW", data, TRUE)
           Packets == {p, q, r, x, y, z, l} \cup {w(i) : i \in Code}
           c == << p, q, r >>
           h == << x, y, z >>
           m == [i \in Code |-> w(i)]
           t == << l >>
           ch == c \o h
           chm == ch \o m
           s == chm \o t
<1>1. Words \in Nat /\ Words >= 1 /\ Code = 1..Words
  BY SwdAssumption DEF Code
<1>2. s = swd_write_array
  BY DEF swd_write_array, swd_config_mem_access
<1> HIDE DEF p, q, r, x, y, z, w, l
<1>3. c \in Seq(Packets) /\ Len(c) = 3 /\ c[1] = p /\ c[2] = q /\ c[3] = r
  OBVIOUS
<1>4. h \in Seq(Packets) /\ Len(h) = 3 /\ h[1] = x /\ h[2] = y /\ h[3] = z
  OBVIOUS
<1>5. m \in Seq(Packets) /\ Len(m) = Words /\ \A i \in Code : m[i] = w(i)
  <2>1. m \in [1..Words -> Packets]
    BY <1>1
  <2>2. m \in Seq(Packets)
    BY <1>1, <2>1, IsASeq
  <2> HIDE DEF Packets
  <2> QED
    BY <1>1, <2>1, <2>2, LenProperties
<1>6. t \in Seq(Packets) /\ Len(t) = 1 /\ t[1] = l
  OBVIOUS
<1> HIDE DEF c, h, m, t, Packets
<1>7. /\ ch \in Seq(Packets) /\ Len(ch) = 6
      /\ ch[1] = p /\ ch[2] = q /\ ch[3] = r /\ ch[4] = x /\ ch[5] = y /\ ch[6] = z
  <2>1. /\ ch \in Seq(Packets) /\ Len(ch) = Len(c) + Len(h)
        /\ \A i \in 1..Len(c) : ch[i] = c[i]
        /\ \A i \in 1..Len(h) : ch[Len(c) + i] = h[i]
    <3>1. c \in Seq(Packets) /\ h \in Seq(Packets)
      BY <1>3, <1>4
    <3> QED
      BY <3>1, ConcatIs
  <2>2. /\ ch[1] = c[1] /\ ch[2] = c[2] /\ ch[3] = c[3]
        /\ ch[3 + 1] = h[1] /\ ch[3 + 2] = h[2] /\ ch[3 + 3] = h[3]
    BY <1>3, <1>4, <2>1
  <2> QED
    BY <1>3, <1>4, <2>1, <2>2
<1> HIDE DEF ch
<1>8. /\ chm \in Seq(Packets) /\ Len(chm) = Words + 6
      /\ \A i \in 1..6 : chm[i] = ch[i]
      /\ \A i \in Code : chm[6 + i] = m[i]
  <2>1. /\ chm \in Seq(Packets) /\ Len(chm) = Len(ch) + Len(m)
        /\ \A i \in 1..Len(ch) : chm[i] = ch[i]
        /\ \A i \in 1..Len(m) : chm[Len(ch) + i] = m[i]
    <3>1. ch \in Seq(Packets) /\ m \in Seq(Packets)
      BY <1>5, <1>7
    <3> QED
      BY <3>1, ConcatIs
  <2> QED
    BY <1>1, <1>5, <1>7, <2>1
<1> HIDE DEF chm
<1>9. /\ Len(s) = Words + 7
      /\ \A i \in 1..(Words + 6) : s[i] = chm[i]
      /\ s[Words + 7] = l
  <2>1. /\ Len(s) = Len(chm) + Len(t)
        /\ \A i \in 1..Len(chm) : s[i] = chm[i]
        /\ \A i \in 1..Len(t) : s[Len(chm) + i] = t[i]
    <3>1. chm \in Seq(Packets) /\ t \in Seq(Packets)
      BY <1>6, <1>8
    <3> QED
      BY <3>1, ConcatIs
  <2>2. 1 \in 1..Len(t) /\ Len(chm) + 1 = Words + 7 /\ Len(chm) + Len(t) = Words + 7
    BY <1>1, <1>6, <1>8
  <2>3. s[Len(chm) + 1] = l
    BY <1>6, <2>1, <2>2
  <2> QED
    BY <1>8, <2>1, <2>2, <2>3
<1> HIDE DEF s
<1>10. /\ s[1] = p /\ s[2] = q /\ s[3] = r /\ s[4] = x /\ s[5] = y /\ s[6] = z
  <2>1. \A i \in 1..6 : i \in 1..(Words + 6) /\ s[i] = ch[i]
    BY <1>1, <1>8, <1>9
  <2> QED
    BY <1>7, <2>1
<1>11. \A i \in Code : s[6 + i] = w(i)
  <2>1. \A i \in Code : 6 + i \in 1..(Words + 6)
    BY <1>1
  <2> QED
    BY <1>5, <1>8, <1>9, <2>1
<1> QED
  BY <1>2, <1>9, <1>10, <1>11 DEF p, q, r, x, y, z, w, l

LEMMA Calls ==
  /\ Program[1] = Connect /\ Program[2] = PowerUp /\ Program[3] = clear_faults
  /\ Program[4] = Prelude /\ Program[5] = swd_write_mem(DHCSR, Halt)
  /\ Program[6] = swd_write_array /\ Program[7] = swd_read_mem(DHCSR)
  /\ Program[8] = swd_write_mem(DCRDR, Entry) /\ Program[9] = swd_write_mem(DCRSR, Pc)
  /\ Program[10] = swd_read_mem(DHCSR) /\ Program[11] = swd_read_mem(DHCSR)
  /\ Program[12] = swd_write_mem(DCRDR, Return) /\ Program[13] = swd_write_mem(DCRSR, Lr)
  /\ Program[14] = swd_read_mem(DHCSR) /\ Program[15] = swd_write_mem(DHCSR, Run)
BY DEF Program, swd_write_reg

-------------------------------------------------------------------------------
LEMMA SwdConstants ==
  /\ Words \in Nat /\ Words >= 1 /\ MaxFail \in Nat /\ MaxFaults \in Nat
  /\ Code = 1..Words /\ Memory = 1..(Words + 3)
  /\ \A i \in Code : Word(i) \in Value /\ Word(i) = 12 + i
  /\ \A v \in 0..12 : v \in Value
BY SwdAssumption DEF Code, Memory, Word, Value

LEMMA WritePackets ==
  ASSUME call \in WriteCalls
  PROVE  /\ Len(Program[call]) = 5
         /\ step = 1 => Packet = W("ABORT", Abort0x16, TRUE)
         /\ step = 2 => Packet = W("SELECT", "MEM", TRUE)
         /\ step = 3 => Packet = W("TAR", Target(call), TRUE)
         /\ step = 4 => Packet = W("DRW", Sends(call), FALSE)
         /\ step = 5 => Packet = R("CSW", TRUE)
<1> DEFINE s == swd_write_mem(Target(call), Sends(call))
<1>1. Program[call] = s
  <2>1. CASE call \in {5, 8, 9}
    BY <2>1, Calls DEF Target, Sends
  <2>2. CASE call \in {12, 13, 15}
    BY <2>2, Calls DEF Target, Sends
  <2> QED
    BY <2>1, <2>2 DEF WriteCalls
<1>2. /\ Len(s) = 5
      /\ s[1] = W("ABORT", Abort0x16, TRUE) /\ s[2] = W("SELECT", "MEM", TRUE)
      /\ s[3] = W("TAR", Target(call), TRUE) /\ s[4] = W("DRW", Sends(call), FALSE)
      /\ s[5] = R("CSW", TRUE)
  BY WriteMemIs
<1> HIDE DEF s
<1> QED
  BY <1>1, <1>2 DEF Packet

LEMMA ReadPackets ==
  ASSUME call \in ReadCalls
  PROVE  /\ Len(Program[call]) = 5
         /\ step = 1 => Packet = W("ABORT", Abort0x16, TRUE)
         /\ step = 2 => Packet = W("SELECT", "MEM", TRUE)
         /\ step = 3 => Packet = W("TAR", DHCSR, TRUE)
         /\ step = 4 => Packet = R("DRW", TRUE)
         /\ step = 5 => Packet = R("RD_BUFF", TRUE)
<1> DEFINE s == swd_read_mem(DHCSR)
<1>1. Program[call] = s
  BY Calls DEF ReadCalls
<1>2. /\ Len(s) = 5
      /\ s[1] = W("ABORT", Abort0x16, TRUE) /\ s[2] = W("SELECT", "MEM", TRUE)
      /\ s[3] = W("TAR", DHCSR, TRUE) /\ s[4] = R("DRW", TRUE) /\ s[5] = R("RD_BUFF", TRUE)
  BY ReadMemIs
<1> HIDE DEF s
<1> QED
  BY <1>1, <1>2 DEF Packet

LEMMA ArrayPackets ==
  ASSUME call = Array, step \in Nat
  PROVE  /\ Len(Program[call]) = Words + 7
         /\ step = 1 => Packet = W("ABORT", Abort0x16, TRUE)
         /\ step = 2 => Packet = W("SELECT", "MEM", TRUE)
         /\ step = 3 => Packet = W("TAR", 1, TRUE)
         /\ step = 4 => Packet = R("CSW", FALSE)
         /\ step = 5 => Packet = R("RD_BUFF", TRUE)
         /\ step = 6 => Packet = W("CSW", OrInc(data), FALSE)
         /\ step - 6 \in Code => Packet = W("DRW", Word(step - 6), FALSE)
         /\ step = Words + 7 => Packet = W("CSW", data, TRUE)
<1>1. Program[call] = swd_write_array
  BY Calls DEF Array
<1>2. 6 + (step - 6) = step
  OBVIOUS
<1>3. step - 6 \in Code => swd_write_array[6 + (step - 6)] = W("DRW", Word(step - 6), FALSE)
  BY ArrayIs
<1> QED
  BY <1>1, <1>2, <1>3, ArrayIs DEF Packet

LEMMA PreludePackets ==
  ASSUME call = Loading
  PROVE  /\ Len(Program[call]) = 8
         /\ step = 1 => Packet = W("SELECT", "MDM", FALSE)
         /\ step = 2 => Packet = W("TAR", Unknown, FALSE)
         /\ step \in {3, 7} => Packet = R("CSW", FALSE)
         /\ step \in {4, 8} => Packet = R("RD_BUFF", FALSE)
         /\ step = 5 => Packet = W("SELECT", "MEM", FALSE)
         /\ step = 6 => Packet = W("CSW", Csw, FALSE)
BY Calls, PreludeIs DEF Packet, Loading

LEMMA ConnectPackets ==
  /\ call = Connecting =>
       /\ Len(Program[call]) = 2
       /\ step = 1 => Packet = R("IDCODE", FALSE)
       /\ step = 2 => Packet = W("ABORT", Abort0x16, FALSE)
  /\ call = Powering =>
       /\ Len(Program[call]) = 2
       /\ step = 1 => Packet = W("CTRL_STAT", PwrUp, TRUE)
       /\ step = 2 => Packet = R("CTRL_STAT", TRUE)
<1>1. /\ Len(Connect) = 2 /\ Connect[1] = R("IDCODE", FALSE)
      /\ Connect[2] = W("ABORT", Abort0x16, FALSE)
  BY DEF Connect
<1>2. /\ Len(PowerUp) = 2 /\ PowerUp[1] = W("CTRL_STAT", PwrUp, TRUE)
      /\ PowerUp[2] = R("CTRL_STAT", TRUE)
  BY DEF PowerUp
<1> QED
  BY <1>1, <1>2, Calls DEF Packet, Connecting, Powering

LEMMA ClearPackets ==
  ASSUME call = Clearing
  PROVE  /\ Len(Program[call]) = IF flags = {} THEN 1 ELSE 2
         /\ step = 1 => Packet = R("CTRL_STAT", TRUE)
         /\ step = 2 /\ flags # {} => Packet = W("ABORT", flags, TRUE)
<1> DEFINE r == R("CTRL_STAT", TRUE)
           w == W("ABORT", flags, TRUE)
<1>1. clear_faults = << r >> \o IF flags = {} THEN <<>> ELSE << w >>
  BY DEF clear_faults
<1>2. Program[call] = clear_faults
  BY Calls DEF Clearing
<1> HIDE DEF r, w
<1>3. Len(<< r >> \o <<>>) = 1 /\ (<< r >> \o <<>>)[1] = r
  OBVIOUS
<1>4. LET s == << r >> \o << w >>
      IN  Len(s) = 2 /\ s[1] = r /\ s[2] = w
  OBVIOUS
<1> QED
  BY <1>1, <1>2, <1>3, <1>4 DEF Packet, r, w

(* How many packets a call has, but for clear_faults. *)
Length(c) == IF c \in 1..2 THEN 2
             ELSE IF c = 4 THEN 8
             ELSE IF c = 6 THEN Words + 7 ELSE 5

LEMMA Lengths ==
  /\ call \in 1..15 /\ call # 3 => Len(Program[call]) = Length(call)
  /\ call = 3 => Len(Program[call]) = IF flags = {} THEN 1 ELSE 2
<1>1. CASE call \in 1..2
  <2>1. call = 1 \/ call = 2
    BY <1>1
  <2>2. Len(Program[call]) = 2
    BY <2>1, ConnectPackets DEF Connecting, Powering
  <2> QED
    BY <1>1, <2>2 DEF Length
<1>2. CASE call = 3
  BY <1>2, ClearPackets DEF Clearing
<1>3. CASE call = 4
  <2>1. Len(Program[call]) = 8
    BY <1>3, PreludePackets DEF Loading
  <2> QED
    BY <1>3, <2>1 DEF Length
<1>4. CASE call = 6
  <2>1. Len(Program[call]) = Words + 7
    BY <1>4, Calls, ArrayIs
  <2> QED
    BY <1>4, <2>1 DEF Length
<1>5. CASE call \in {5, 8, 9, 12, 13, 15}
  <2>1. Len(Program[call]) = 5
    BY <1>5, WritePackets DEF WriteCalls
  <2> QED
    BY <1>5, <2>1 DEF Length
<1>6. CASE call \in {7, 10, 11, 14}
  <2>1. Len(Program[call]) = 5
    BY <1>6, ReadPackets DEF ReadCalls
  <2> QED
    BY <1>6, <2>1 DEF Length
<1>7. call \in 1..15 => \/ call \in 1..2 \/ call = 3 \/ call = 4 \/ call = 6
                        \/ call \in {5, 8, 9, 12, 13, 15} \/ call \in {7, 10, 11, 14}
  OBVIOUS
<1> QED
  BY <1>1, <1>2, <1>3, <1>4, <1>5, <1>6, <1>7

LEMMA LengthsPrimed ==
  /\ call' \in 1..15 /\ call' # 3 => Len(Program[call])' = Length(call')
  /\ call' = 3 => Len(Program[call])' = IF flags' = {} THEN 1 ELSE 2
<1>1. (/\ call \in 1..15 /\ call # 3 => Len(Program[call]) = Length(call)
       /\ call = 3 => Len(Program[call]) = IF flags = {} THEN 1 ELSE 2)'
  BY Lengths, PTL
<1> QED
  BY <1>1 DEF Length

(* Where the host is, and what the packet it sends may be. *)
PacketOK(p) ==
  /\ p.op = "W" =>
       /\ p.reg \in {"ABORT", "CTRL_STAT", "SELECT", "TAR", "CSW", "DRW"}
       /\ p.reg = "ABORT" => p.val \subseteq {WDATA, ERR}
       /\ p.reg = "SELECT" => p.val \in {"MEM", "MDM"}
       /\ p.reg = "TAR" => p.val \in Nat
       /\ p.reg \in {"CSW", "DRW"} => p.val \in Value
  /\ p.op = "R" => p.reg \in {"IDCODE", "CTRL_STAT", "CSW", "DRW", "RD_BUFF"}
  /\ p.op \in {"R", "W"}

LEMMA PacketFields ==
  ASSUME NEW reg, NEW val, NEW must
  PROVE  /\ W(reg, val, must).op = "W" /\ W(reg, val, must).reg = reg
         /\ W(reg, val, must).val = val /\ W(reg, val, must).must = must
         /\ R(reg, must).op = "R" /\ R(reg, must).reg = reg /\ R(reg, must).must = must
BY DEF W, R

LEMMA ReadOK ==
  ASSUME NEW reg \in {"IDCODE", "CTRL_STAT", "CSW", "DRW", "RD_BUFF"}, NEW must
  PROVE  PacketOK(R(reg, must))
<1> DEFINE p == R(reg, must)
<1>1. p.op = "R" /\ p.reg = reg
  BY PacketFields
<1> HIDE DEF p
<1> QED
  BY <1>1 DEF PacketOK, p

LEMMA WriteOK ==
  ASSUME NEW reg \in {"ABORT", "CTRL_STAT", "SELECT", "TAR", "CSW", "DRW"},
         NEW val, NEW must,
         reg = "ABORT" => val \subseteq {WDATA, ERR},
         reg = "SELECT" => val \in {"MEM", "MDM"},
         reg = "TAR" => val \in Nat,
         reg \in {"CSW", "DRW"} => val \in Value
  PROVE  PacketOK(W(reg, val, must))
<1> DEFINE p == W(reg, val, must)
<1>1. p.op = "W" /\ p.reg = reg /\ p.val = val
  BY PacketFields
<1> HIDE DEF p
<1> QED
  BY <1>1 DEF PacketOK, p

LEMMA KindsOK ==
  ASSUME NEW must
  PROVE  /\ PacketOK(R("IDCODE", must)) /\ PacketOK(R("CTRL_STAT", must))
         /\ PacketOK(R("CSW", must)) /\ PacketOK(R("DRW", must))
         /\ PacketOK(R("RD_BUFF", must))
         /\ PacketOK(W("ABORT", Abort0x16, must)) /\ PacketOK(W("CTRL_STAT", PwrUp, must))
         /\ PacketOK(W("SELECT", "MEM", must)) /\ PacketOK(W("SELECT", "MDM", must))
         /\ PacketOK(W("TAR", Unknown, must)) /\ PacketOK(W("TAR", 1, must))
         /\ PacketOK(W("TAR", DHCSR, must)) /\ PacketOK(W("CSW", Csw, must))
<1>1. /\ PacketOK(R("IDCODE", must)) /\ PacketOK(R("CTRL_STAT", must))
      /\ PacketOK(R("CSW", must)) /\ PacketOK(R("DRW", must)) /\ PacketOK(R("RD_BUFF", must))
  BY ReadOK
<1>2. Abort0x16 \subseteq {WDATA, ERR}
  BY DEF Abort0x16
<1>3. PacketOK(W("ABORT", Abort0x16, must))
  BY <1>2, WriteOK
<1>4. PacketOK(W("CTRL_STAT", PwrUp, must))
  BY WriteOK
<1>5. PacketOK(W("SELECT", "MEM", must)) /\ PacketOK(W("SELECT", "MDM", must))
  BY WriteOK
<1>6. Unknown \in Nat /\ 1 \in Nat /\ DHCSR \in Nat /\ Csw \in Value
  BY SwdConstants DEF Unknown, DHCSR, Csw
<1>7. PacketOK(W("TAR", Unknown, must)) /\ PacketOK(W("TAR", 1, must))
  BY <1>6, WriteOK
<1>8. PacketOK(W("TAR", DHCSR, must)) /\ PacketOK(W("CSW", Csw, must))
  BY <1>6, WriteOK
<1> QED
  BY <1>1, <1>3, <1>4, <1>5, <1>7, <1>8

LEMMA MainCalls ==
  /\ call \in 1..15 => \/ call = 1 \/ call = 2 \/ call = 3 \/ call = 4 \/ call = 6
                       \/ call \in WriteCalls \/ call \in ReadCalls
  /\ call \in WriteCalls => call \in 5..15 /\ call # 6
  /\ call \in ReadCalls => call \in 7..14
  /\ call \notin WriteCalls \cap ReadCalls
BY DEF WriteCalls, ReadCalls

LEMMA PacketIsOK ==
  ASSUME SwdTypeOK, HostInv, Sending
  PROVE  /\ call \in 1..15 /\ step \in 1..Len(Program[call]) /\ PacketOK(Packet)
         /\ tries \in 0..MaxFail
<1>1. /\ call \in 1..15 /\ step \in 1..(Words + 7) /\ step <= Len(Program[call])
      /\ data \in Value /\ flags \subseteq {WDATA, ERR} /\ tries \in 0..MaxFail
  BY DEF SwdTypeOK, HostInv, Sending, Done, Value
<1>2. Len(Program[call]) \in Nat
  BY <1>1, Lengths, SwdConstants DEF Length
<1>3. step \in 1..Len(Program[call])
  BY <1>1, <1>2, SwdConstants
<1>4. CASE call = 1
  <2>0. Len(Program[call]) = 2
    BY <1>4, ConnectPackets DEF Connecting
  <2>1. step = 1 \/ step = 2
    BY <1>3, <2>0
  <2>2. Packet = R("IDCODE", FALSE) \/ Packet = W("ABORT", Abort0x16, FALSE)
    BY <1>4, <2>1, ConnectPackets DEF Connecting
  <2> QED
    BY <1>1, <1>3, <2>2, KindsOK
<1>5. CASE call = 2
  <2>0. Len(Program[call]) = 2
    BY <1>5, ConnectPackets DEF Powering
  <2>1. step = 1 \/ step = 2
    BY <1>3, <2>0
  <2>2. Packet = W("CTRL_STAT", PwrUp, TRUE) \/ Packet = R("CTRL_STAT", TRUE)
    BY <1>5, <2>1, ConnectPackets DEF Powering
  <2> QED
    BY <1>1, <1>3, <2>2, KindsOK
<1>6. CASE call = 3
  <2>0. Len(Program[call]) = IF flags = {} THEN 1 ELSE 2
    BY <1>6, ClearPackets DEF Clearing
  <2>1. step = 1 \/ (step = 2 /\ flags # {})
    BY <1>3, <2>0
  <2>2. Packet = R("CTRL_STAT", TRUE) \/ Packet = W("ABORT", flags, TRUE)
    BY <1>6, <2>1, ClearPackets DEF Clearing
  <2>3. PacketOK(W("ABORT", flags, TRUE))
    BY <1>1, WriteOK
  <2> QED
    BY <1>1, <1>3, <2>2, <2>3, KindsOK
<1>7. CASE call = 4
  <2>0. Len(Program[call]) = 8
    BY <1>7, PreludePackets DEF Loading
  <2>1. step \in {1, 2, 3, 4, 5, 6, 7, 8}
    BY <1>3, <2>0
  <2>2. \/ Packet = W("SELECT", "MDM", FALSE) \/ Packet = W("TAR", Unknown, FALSE)
        \/ Packet = R("CSW", FALSE) \/ Packet = R("RD_BUFF", FALSE)
        \/ Packet = W("SELECT", "MEM", FALSE) \/ Packet = W("CSW", Csw, FALSE)
    BY <1>7, <2>1, PreludePackets DEF Loading
  <2> QED
    BY <1>1, <1>3, <2>2, KindsOK
<1>8. CASE call = 6
  <2>0. step \in Nat
    BY <1>1
  <2>1. step \in {1, 2, 3, 4, 5, 6} \/ step - 6 \in Code \/ step = Words + 7
    BY <1>1, SwdConstants
  <2>2. \/ Packet = W("ABORT", Abort0x16, TRUE) \/ Packet = W("SELECT", "MEM", TRUE)
        \/ Packet = W("TAR", 1, TRUE) \/ Packet = R("CSW", FALSE)
        \/ Packet = R("RD_BUFF", TRUE) \/ Packet = W("CSW", OrInc(data), FALSE)
        \/ step - 6 \in Code /\ Packet = W("DRW", Word(step - 6), FALSE)
        \/ Packet = W("CSW", data, TRUE)
    BY <1>8, <2>0, <2>1, ArrayPackets DEF Array
  <2>3. OrInc(data) \in Value
    BY SwdConstants DEF OrInc, CswInc, Unknown
  <2>4. PacketOK(W("CSW", OrInc(data), FALSE))
    BY <2>3, WriteOK
  <2>5. PacketOK(W("CSW", data, TRUE))
    BY <1>1, WriteOK
  <2>6. ASSUME step - 6 \in Code  PROVE PacketOK(W("DRW", Word(step - 6), FALSE))
    BY <2>6, SwdConstants, WriteOK
  <2> QED
    BY <1>1, <1>3, <2>2, <2>4, <2>5, <2>6, KindsOK
<1>9. CASE call \in WriteCalls
  <2>0. Len(Program[call]) = 5
    BY <1>9, WritePackets
  <2>1. step \in {1, 2, 3, 4, 5}
    BY <1>3, <2>0
  <2>2. \/ Packet = W("ABORT", Abort0x16, TRUE) \/ Packet = W("SELECT", "MEM", TRUE)
        \/ Packet = W("TAR", Target(call), TRUE) \/ Packet = W("DRW", Sends(call), FALSE)
        \/ Packet = R("CSW", TRUE)
    BY <1>9, <2>1, WritePackets
  <2>3. Target(call) \in Nat /\ Sends(call) \in Value
    <3>1. Target(call) \in {DHCSR, DCRDR, DCRSR}
      BY <1>9 DEF Target, WriteCalls
    <3>2. Sends(call) \in {Halt, Entry, Pc, Return, Lr, Run}
      BY <1>9 DEF Sends, WriteCalls
    <3>3. DHCSR \in Nat /\ DCRDR \in Nat /\ DCRSR \in Nat
      BY SwdConstants DEF DHCSR, DCRDR, DCRSR
    <3>4. /\ Halt \in Value /\ Entry \in Value /\ Pc \in Value
          /\ Return \in Value /\ Lr \in Value /\ Run \in Value
      BY SwdConstants DEF Halt, Entry, Pc, Return, Lr, Run
    <3> QED
      BY <3>1, <3>2, <3>3, <3>4
  <2>4. PacketOK(W("TAR", Target(call), TRUE)) /\ PacketOK(W("DRW", Sends(call), FALSE))
    BY <2>3, WriteOK
  <2> QED
    BY <1>1, <1>3, <2>2, <2>4, KindsOK
<1>10. CASE call \in ReadCalls
  <2>0. Len(Program[call]) = 5
    BY <1>10, ReadPackets
  <2>1. step \in {1, 2, 3, 4, 5}
    BY <1>3, <2>0
  <2>2. \/ Packet = W("ABORT", Abort0x16, TRUE) \/ Packet = W("SELECT", "MEM", TRUE)
        \/ Packet = W("TAR", DHCSR, TRUE) \/ Packet = R("DRW", TRUE)
        \/ Packet = R("RD_BUFF", TRUE)
    BY <1>10, <2>1, ReadPackets
  <2> QED
    BY <1>1, <1>3, <2>2, KindsOK
<1> QED
  BY <1>1, <1>3, <1>4, <1>5, <1>6, <1>7, <1>8, <1>9, <1>10, MainCalls

(***************************************************************************)
(* What a packet leaves of the target.                                     *)
(***************************************************************************)
LEMMA DapFields ==
  ASSUME dap \in DapType
  PROVE  /\ dap.sticky \subseteq {WDATA, ERR} /\ dap.pwr \in {"off", "req", "up"}
         /\ dap.sel \in {"MEM", "MDM"} /\ dap.tar \in Nat /\ dap.csw \in Value
         /\ dap.rdbuff \in Value /\ dap.mem \in [Memory -> Value] /\ dap.xfer \in Value
         /\ dap.regs \in [{Pc, Lr} -> Value]
BY DEF DapType

LEMMA ReadDoneIs ==
  ASSUME dap \in DapType, NEW p, PacketOK(p), p.op = "R"
  PROVE  LET d == ReadDone(p)
         IN  /\ d \in DapType /\ ReadValue(p) \in Value
             /\ d.sticky = dap.sticky /\ d.sel = dap.sel /\ d.csw = dap.csw
             /\ d.mem = dap.mem /\ d.xfer = dap.xfer /\ d.regs = dap.regs
             /\ p.reg # "DRW" => d.tar = dap.tar
             /\ p.reg = "CSW" /\ dap.sel = "MEM" => d.rdbuff = dap.csw
             /\ p.reg \notin {"CSW", "DRW"} => d = dap
<1>1. MdmStat \in Value /\ MemRead \in Value /\ NextTar \in Nat
  <2>1. dap.tar \in Memory => dap.mem[dap.tar] \in Value
    BY DapFields
  <2>2. MdmStat \in Value /\ RegReady \in Value /\ Unknown \in Value
    BY SwdConstants DEF MdmStat, RegReady, Unknown
  <2>3. NextTar \in Nat
    BY DapFields DEF NextTar
  <2> QED
    BY <2>1, <2>2, <2>3 DEF MemRead
<1>2. ReadValue(p) \in Value
  BY DapFields, SwdConstants DEF ReadValue, IdCode, PwrUp, Unknown
<1>3. CASE p.reg \notin {"CSW", "DRW"}
  BY <1>2, <1>3 DEF ReadDone
<1>4. CASE p.reg \in {"CSW", "DRW"} /\ dap.sel = "MDM"
  <2>1. ReadDone(p) = [dap EXCEPT !.rdbuff = MdmStat]
    BY <1>4 DEF ReadDone
  <2> QED
    BY <1>1, <1>2, <1>4, <2>1 DEF DapType
<1>5. CASE p.reg = "CSW" /\ dap.sel = "MEM"
  <2>1. ReadDone(p) = [dap EXCEPT !.rdbuff = dap.csw]
    BY <1>5 DEF ReadDone
  <2> QED
    BY <1>1, <1>2, <1>5, <2>1 DEF DapType
<1>6. CASE p.reg = "DRW" /\ dap.sel = "MEM"
  <2>1. ReadDone(p) = [dap EXCEPT !.rdbuff = MemRead, !.tar = NextTar]
    BY <1>6 DEF ReadDone
  <2> QED
    BY <1>1, <1>2, <1>6, <2>1 DEF DapType
<1> QED
  BY <1>3, <1>4, <1>5, <1>6, DapFields

LEMMA WrittenIs ==
  ASSUME dap \in DapType, NEW p, PacketOK(p), p.op = "W"
  PROVE  LET d == Written(p)
         IN  /\ d \in DapType /\ d.rdbuff = dap.rdbuff /\ d.regs = dap.regs
             /\ d.sticky = IF p.reg = "ABORT" THEN dap.sticky \ p.val ELSE dap.sticky
             /\ d.sel = IF p.reg = "SELECT" THEN p.val ELSE dap.sel
             /\ d.csw = IF p.reg = "CSW" /\ dap.sel = "MEM" THEN p.val ELSE dap.csw
             /\ p.reg # "DRW" =>
                  /\ d.mem = dap.mem /\ d.xfer = dap.xfer
                  /\ d.tar = IF p.reg = "TAR" /\ dap.sel = "MEM" THEN p.val ELSE dap.tar
             /\ p.reg = "DRW" => d = IF dap.sel = "MDM" THEN dap ELSE MemWritten(p.val)
<1>1. CASE p.reg = "ABORT"
  <2>1. Written(p) = [dap EXCEPT !.sticky = @ \ p.val]
    BY <1>1 DEF Written
  <2> QED
    BY <1>1, <2>1 DEF DapType
<1>2. CASE p.reg = "CTRL_STAT"
  <2>1. Written(p) = [dap EXCEPT !.pwr = IF @ = "off" THEN "req" ELSE @]
    BY <1>2 DEF Written
  <2> QED
    BY <1>2, <2>1 DEF DapType
<1>3. CASE p.reg = "SELECT"
  <2>1. Written(p) = [dap EXCEPT !.sel = p.val]
    BY <1>3 DEF Written
  <2>2. p.val \in {"MEM", "MDM"}
    BY <1>3 DEF PacketOK
  <2> QED
    BY <1>3, <2>1, <2>2 DEF DapType
<1>4. CASE p.reg \in {"TAR", "CSW", "DRW"} /\ dap.sel = "MDM"
  <2>1. Written(p) = dap
    BY <1>4 DEF Written
  <2> QED
    BY <1>4, <2>1
<1>5. CASE p.reg = "TAR" /\ dap.sel = "MEM"
  <2>1. Written(p) = [dap EXCEPT !.tar = p.val]
    BY <1>5 DEF Written
  <2> QED
    BY <1>5, <2>1 DEF DapType, PacketOK
<1>6. CASE p.reg = "CSW" /\ dap.sel = "MEM"
  <2>1. Written(p) = [dap EXCEPT !.csw = p.val]
    BY <1>6 DEF Written
  <2> QED
    BY <1>6, <2>1 DEF DapType, PacketOK
<1>7. CASE p.reg = "DRW" /\ dap.sel = "MEM"
  <2>1. Written(p) = MemWritten(p.val)
    BY <1>7 DEF Written
  <2>2. p.val \in Value
    BY <1>7 DEF PacketOK
  <2>3. CASE dap.csw \in {Csw, CswInc} /\ dap.tar \in Memory
    <3> DEFINE x == IF dap.tar = DCRSR /\ dap.mem[DHCSR] = Halt THEN p.val ELSE dap.xfer
               m == [dap.mem EXCEPT ![dap.tar] = p.val]
    <3>1. Written(p) = [dap EXCEPT !.mem = m, !.tar = NextTar, !.xfer = x]
      BY <2>1, <2>3 DEF MemWritten
    <3>2. m \in [Memory -> Value] /\ x \in Value /\ NextTar \in Nat
      BY <2>2, <2>3, DapFields DEF NextTar
    <3> HIDE DEF m, x
    <3> QED
      BY <1>7, <2>1, <3>1, <3>2 DEF DapType
  <2>4. CASE ~(dap.csw \in {Csw, CswInc} /\ dap.tar \in Memory)
    BY <1>7, <2>1, <2>4 DEF MemWritten
  <2> QED
    BY <2>3, <2>4
<1> QED
  BY <1>1, <1>2, <1>3, <1>4, <1>5, <1>6, <1>7, DapFields DEF PacketOK

(* A word is written where TAR points, or nowhere. *)
LEMMA MemWrittenIs ==
  ASSUME dap \in DapType, NEW v
  PROVE  LET d == MemWritten(v)
         IN  \/ /\ dap.csw \in {Csw, CswInc} /\ dap.tar \in Memory
                /\ d.mem = [dap.mem EXCEPT ![dap.tar] = v] /\ d.tar = NextTar
                /\ d.xfer = IF dap.tar = DCRSR /\ dap.mem[DHCSR] = Halt THEN v ELSE dap.xfer
                /\ d.sticky = dap.sticky /\ d.csw = dap.csw /\ d.regs = dap.regs
                /\ d.sel = dap.sel
             \/ ~(dap.csw \in {Csw, CswInc} /\ dap.tar \in Memory) /\ d = dap
<1>1. CASE dap.csw \in {Csw, CswInc} /\ dap.tar \in Memory
  BY <1>1 DEF DapType, MemWritten
<1>2. CASE ~(dap.csw \in {Csw, CswInc} /\ dap.tar \in Memory)
  BY <1>2 DEF MemWritten
<1> QED
  BY <1>1, <1>2

(***************************************************************************)
(* How the host goes on: to the next packet, or out of the call.           *)
(***************************************************************************)
Answer == {ACK, WAIT, FAULT, MUTE}

(* clear_faults looks at the flags once, before it may clear them. *)
FlagsKept == flags' \subseteq {WDATA, ERR} /\ (flags' = flags \/ (call = Clearing /\ step = 1))

Forth(a) == /\ step' = step + 1 /\ result' = NONE /\ (a = ACK \/ ~Packet.must)
            /\ call # Clearing => step < Length(call)
Out(a)   == /\ step' = step /\ result' = a
            /\ call # Clearing /\ (a = ACK \/ ~Packet.must) => step = Length(call)

LEMMA LoadingGoesOn ==
  ASSUME call = Loading, step \in 1..8
  PROVE  ~Packet.must
<1>1. step \in {1, 2, 3, 4, 5, 6, 7, 8}
  OBVIOUS
<1>2. \/ Packet = W("SELECT", "MDM", FALSE) \/ Packet = W("TAR", Unknown, FALSE)
      \/ Packet = R("CSW", FALSE) \/ Packet = R("RD_BUFF", FALSE)
      \/ Packet = W("SELECT", "MEM", FALSE) \/ Packet = W("CSW", Csw, FALSE)
  BY <1>1, PreludePackets
<1> QED
  BY <1>2 DEF W, R

LEMMA Moving ==
  ASSUME SwdTypeOK, HostInv, Sending, NEW a \in Answer, Proceed(a), FlagsKept
  PROVE  /\ HostInv' /\ call' = call /\ step' \in 1..(Words + 7) /\ tries' \in 0..MaxFail
         /\ result' \in Answer \cup {NONE}
         /\ Forth(a) \/ Out(a)
<1> DEFINE L == Len(Program[call])
           M == Len(Program[call])'
<1>1. /\ call \in 1..15 /\ step \in 1..L /\ step \in 1..(Words + 7)
  BY PacketIsOK DEF SwdTypeOK
<1>2. call' = call /\ tries' = 0
  BY DEF Proceed
<1>3. L \in 1..(Words + 7) /\ M \in 1..(Words + 7) /\ (call # 3 => L = Length(call) /\ M = L)
  <2>1. call # 3 => L = Length(call) /\ M = Length(call)
    BY <1>1, <1>2, Lengths, LengthsPrimed
  <2>2. Length(call) \in 1..(Words + 7)
    BY SwdConstants DEF Length
  <2>3. call = 3 => L \in {1, 2} /\ M \in {1, 2}
    BY <1>1, <1>2, Lengths, LengthsPrimed
  <2> HIDE DEF L, M
  <2> QED
    BY <2>1, <2>2, <2>3, SwdConstants
<1>4. call = 3 => \/ step = 1 /\ M \in {1, 2}
                  \/ step = 2 /\ M = 2
  <2>1. HAVE call = 3
  <2>2. CASE step = 1
    BY <1>2, <2>1, <2>2, LengthsPrimed
  <2>3. CASE step # 1
    <3>1. L = IF flags = {} THEN 1 ELSE 2
      BY <2>1, Lengths
    <3>2. step \in Int /\ step >= 1 /\ step <= L
      BY <1>1
    <3> HIDE DEF L
    <3>3. step = 2 /\ flags # {}
      BY <2>3, <3>1, <3>2
    <3>4. flags' = flags
      BY <2>3 DEF FlagsKept
    <3> QED
      BY <1>2, <2>1, <3>3, <3>4, LengthsPrimed
  <2> QED
    BY <2>2, <2>3
<1>5. IF (a # ACK /\ Packet.must) \/ step = M
      THEN result' = a /\ step' = step
      ELSE step' = step + 1 /\ result' = result
  BY DEF Proceed
<1>6. result = NONE /\ a # NONE
  BY DEF Sending, Answer, ACK, WAIT, FAULT, MUTE, NONE
<1> HIDE DEF L, M
<1>7. step <= M
  BY <1>1, <1>3, <1>4
<1>8. call = Loading => L = 8 /\ M = 8 /\ ~Packet.must
  <2>1. HAVE call = Loading
  <2>2. L = 8 /\ M = 8
    BY <1>3, <2>1 DEF Loading, Length
  <2> QED
    BY <1>1, <2>1, <2>2, LoadingGoesOn
<1>9. CASE (a # ACK /\ Packet.must) \/ step = M
  <2>1. result' = a /\ step' = step /\ result' # NONE
    BY <1>5, <1>6, <1>9
  <2>2. result' = ACK \/ call = Loading => step = M
    BY <1>8, <1>9, <2>1
  <2>3. HostInv'
    BY <1>2, <2>1, <2>2 DEF HostInv, M
  <2>4. Out(a)
    BY <1>3, <1>9, <2>1 DEF Out, Clearing
  <2> QED
    BY <1>1, <1>2, <2>1, <2>3, <2>4, SwdConstants
<1>10. CASE ~((a # ACK /\ Packet.must) \/ step = M)
  <2>1. step' = step + 1 /\ result' = NONE /\ (a = ACK \/ ~Packet.must) /\ step # M
    BY <1>5, <1>6, <1>10
  <2>2. step' <= M
    BY <1>1, <1>3, <1>7, <2>1
  <2>3. HostInv'
    BY <1>2, <2>1, <2>2 DEF HostInv, M, ACK, NONE
  <2>4. step' \in 1..(Words + 7)
    <3>1. step' >= 1 /\ M <= Words + 7 /\ step' \in Int /\ M \in Int
      BY <1>1, <1>3, <2>1
    <3> QED
      BY <2>2, <3>1, SwdConstants
  <2>5. call # Clearing => step < Length(call)
    BY <1>1, <1>3, <1>7, <2>1 DEF Clearing
  <2>6. Forth(a)
    BY <2>1, <2>5 DEF Forth
  <2> QED
    BY <1>2, <2>1, <2>3, <2>4, <2>6, SwdConstants
<1> QED
  BY <1>9, <1>10

(* Where a packet goes on without an ACK, and where words are moved. *)
LEMMA Musts ==
  ASSUME SwdTypeOK, HostInv, Sending
  PROVE  /\ ~Packet.must => /\ call \in {1, 4} \cup WriteCalls \cup {Array}
                            /\ call \in WriteCalls => step = 4
                            /\ call = Array => step = 4 \/ step >= 6
         /\ Packet.reg = "DRW" => /\ call \in WriteCalls \cup ReadCalls \cup {Array}
                                  /\ call \in WriteCalls \cup ReadCalls => step = 4
                                  /\ call = Array => step - 6 \in Code
         /\ call \in WriteCalls \cup ReadCalls => Length(call) = 5 /\ step \in {1, 2, 3, 4, 5}
         /\ call = Array => Length(call) = Words + 7 /\ step \in 1..(Words + 7)
         /\ call = Powering => step \in {1, 2}
         /\ call = Loading => Length(call) = 8 /\ step \in 1..8
<1>1. call \in 1..15 /\ step \in 1..Len(Program[call])
  BY PacketIsOK
<1>2. CASE call = 1
  <2>0. Len(Program[call]) = 2
    BY <1>2, ConnectPackets DEF Connecting
  <2>1. step = 1 \/ step = 2
    BY <1>1, <2>0
  <2>2. Packet = R("IDCODE", FALSE) \/ Packet = W("ABORT", Abort0x16, FALSE)
    BY <1>2, <2>1, ConnectPackets DEF Connecting
  <2>3. Packet.reg # "DRW"
    BY <2>2 DEF R, W
  <2> QED
    BY <1>2, <2>3 DEF WriteCalls, ReadCalls, Array, Powering, Loading
<1>3. CASE call = 2
  <2>0. Len(Program[call]) = 2
    BY <1>3, ConnectPackets DEF Powering
  <2>1. step = 1 \/ step = 2
    BY <1>1, <2>0
  <2>2. Packet = W("CTRL_STAT", PwrUp, TRUE) \/ Packet = R("CTRL_STAT", TRUE)
    BY <1>3, <2>1, ConnectPackets DEF Powering
  <2>3. Packet.reg # "DRW" /\ Packet.must
    BY <2>2 DEF R, W
  <2> QED
    BY <1>3, <2>1, <2>3 DEF WriteCalls, ReadCalls, Array, Loading
<1>4. CASE call = 3
  <2>0. Len(Program[call]) = IF flags = {} THEN 1 ELSE 2
    BY <1>4, ClearPackets DEF Clearing
  <2>1. step = 1 \/ (step = 2 /\ flags # {})
    BY <1>1, <2>0
  <2>2. Packet = R("CTRL_STAT", TRUE) \/ Packet = W("ABORT", flags, TRUE)
    BY <1>4, <2>1, ClearPackets DEF Clearing
  <2>3. Packet.reg # "DRW" /\ Packet.must
    BY <2>2 DEF R, W
  <2> QED
    BY <1>4, <2>3 DEF WriteCalls, ReadCalls, Array, Powering, Loading
<1>5. CASE call = 4
  <2>0. Len(Program[call]) = 8 /\ Length(call) = 8
    BY <1>5, PreludePackets DEF Loading, Length
  <2>1. step \in {1, 2, 3, 4, 5, 6, 7, 8} /\ step \in 1..8
    BY <1>1, <2>0
  <2>2. \/ Packet = W("SELECT", "MDM", FALSE) \/ Packet = W("TAR", Unknown, FALSE)
        \/ Packet = R("CSW", FALSE) \/ Packet = R("RD_BUFF", FALSE)
        \/ Packet = W("SELECT", "MEM", FALSE) \/ Packet = W("CSW", Csw, FALSE)
    BY <1>5, <2>1, PreludePackets DEF Loading
  <2>3. Packet.reg # "DRW"
    BY <2>2 DEF R, W
  <2> QED
    BY <1>5, <2>0, <2>1, <2>3 DEF WriteCalls, ReadCalls, Array, Powering, Loading
<1>6. CASE call = 6
  <2>0. Len(Program[call]) = Words + 7 /\ Length(call) = Words + 7
    BY <1>1, <1>6, Lengths DEF Length
  <2>1. step \in 1..(Words + 7)
    BY <1>1, <2>0
  <2>2. step \in {1, 2, 3, 4, 5, 6} \/ step - 6 \in Code \/ step = Words + 7
    BY <2>1, SwdConstants
  <2>3. CASE step \in {1, 2, 3, 5}
    <3>0. step \in Nat
      BY <2>3
    <3>1. \/ Packet = W("ABORT", Abort0x16, TRUE) \/ Packet = W("SELECT", "MEM", TRUE)
          \/ Packet = W("TAR", 1, TRUE) \/ Packet = R("RD_BUFF", TRUE)
      BY <1>6, <2>3, <3>0, ArrayPackets DEF Array
    <3>2. Packet.must /\ Packet.reg # "DRW"
      BY <3>1 DEF R, W
    <3> QED
      BY <1>6, <2>0, <2>1, <3>2 DEF WriteCalls, ReadCalls, Array, Powering, Loading
  <2>4. CASE step \in {4, 6} \/ step = Words + 7
    <3>0. step \in Nat
      BY <2>1
    <3>1. \/ Packet = R("CSW", FALSE) \/ Packet = W("CSW", OrInc(data), FALSE)
          \/ Packet = W("CSW", data, TRUE)
      BY <1>6, <2>4, <3>0, ArrayPackets DEF Array
    <3>2. Packet.reg # "DRW"
      BY <3>1 DEF R, W
    <3>3. step = 4 \/ step >= 6
      BY <2>4, SwdConstants
    <3> QED
      BY <1>6, <2>0, <2>1, <3>2, <3>3 DEF WriteCalls, ReadCalls, Array, Powering, Loading
  <2>5. CASE step - 6 \in Code
    <3>1. step >= 6
      BY <2>1, <2>5, SwdConstants
    <3> QED
      BY <1>6, <2>0, <2>1, <2>5, <3>1 DEF WriteCalls, ReadCalls, Array, Powering, Loading
  <2> QED
    BY <2>2, <2>3, <2>4, <2>5
<1>7. CASE call \in WriteCalls
  <2>9. Len(Program[call]) = 5 /\ call \in 5..15 /\ call # 6
    BY <1>7, WritePackets, MainCalls
  <2>0. Len(Program[call]) = 5 /\ Length(call) = 5
    BY <2>9 DEF Length
  <2>1. step \in {1, 2, 3, 4, 5}
    BY <1>1, <2>0
  <2>2. CASE step # 4
    <3>1. \/ Packet = W("ABORT", Abort0x16, TRUE) \/ Packet = W("SELECT", "MEM", TRUE)
          \/ Packet = W("TAR", Target(call), TRUE) \/ Packet = R("CSW", TRUE)
      BY <1>7, <2>1, <2>2, WritePackets
    <3>2. Packet.must /\ Packet.reg # "DRW"
      BY <3>1 DEF R, W
    <3> QED
      BY <1>7, <2>0, <2>1, <3>2 DEF WriteCalls, Array, Powering, Loading
  <2>3. CASE step = 4
    BY <1>7, <2>0, <2>1, <2>3 DEF WriteCalls, Array, Powering, Loading
  <2> QED
    BY <2>2, <2>3
<1>8. CASE call \in ReadCalls
  <2>9. Len(Program[call]) = 5 /\ call \in 5..15 /\ call # 6
    BY <1>8, ReadPackets, MainCalls
  <2>0. Len(Program[call]) = 5 /\ Length(call) = 5
    BY <2>9 DEF Length
  <2>1. step \in {1, 2, 3, 4, 5}
    BY <1>1, <2>0
  <2>2. \/ Packet = W("ABORT", Abort0x16, TRUE) \/ Packet = W("SELECT", "MEM", TRUE)
        \/ Packet = W("TAR", DHCSR, TRUE) \/ (Packet = R("DRW", TRUE) /\ step = 4)
        \/ Packet = R("RD_BUFF", TRUE)
    BY <1>8, <2>1, ReadPackets
  <2>3. Packet.must /\ (Packet.reg = "DRW" => step = 4)
    BY <2>2 DEF R, W
  <2> QED
    BY <1>8, <2>0, <2>1, <2>3 DEF ReadCalls, WriteCalls, Array, Powering, Loading
<1> QED
  BY <1>1, <1>2, <1>3, <1>4, <1>5, <1>6, <1>7, <1>8, MainCalls

(* What is not refused is sent while no flag is set, but for a few. *)
LEMMA NotFaulted ==
  ASSUME NEW p, ~Faulted(p)
  PROVE  /\ p.op = "W" /\ p.reg # "ABORT" => ~Stuck
         /\ p.op = "R" /\ p.reg \notin {"IDCODE", "CTRL_STAT"} => ~Stuck
BY DEF Faulted, Stuck

LEMMA AskedIs ==
  /\ \A c \in WriteCalls : Asked(c) = {<<Target(c), Sends(c)>>}
  /\ Asked(Array) = {<<i, Word(i)>> : i \in Code}
  /\ \A c \in 1..16 : c \notin WriteCalls \cup {Array} => Asked(c) = {}
<1>1. \A c \in WriteCalls : Asked(c) = {<<Target(c), Sends(c)>>}
  <2> TAKE c \in WriteCalls
  <2>1. CASE c = 5
    BY <2>1 DEF Asked, Target, Sends, Array, Releasing
  <2>2. CASE c = 15
    BY <2>2 DEF Asked, Target, Sends, Array, Releasing
  <2>3. CASE c = 8
    BY <2>3 DEF Asked, Target, Sends, Array, Releasing
  <2>4. CASE c = 9
    BY <2>4 DEF Asked, Target, Sends, Array, Releasing
  <2>5. CASE c = 12
    BY <2>5 DEF Asked, Target, Sends, Array, Releasing
  <2>6. CASE c = 13
    BY <2>6 DEF Asked, Target, Sends, Array, Releasing
  <2> QED
    BY <2>1, <2>2, <2>3, <2>4, <2>5, <2>6 DEF WriteCalls
<1>2. Asked(Array) = {<<i, Word(i)>> : i \in Code}
  <2> DEFINE S == {<<i, Word(i)>> : i \in Code}
  <2>1. Asked(Array) = CASE Array = Array     -> S
                         [] Array = 5         -> {<<DHCSR, Halt>>}
                         [] Array = Releasing -> {<<DHCSR, Run>>}
                         [] Array = 8         -> {<<DCRDR, Entry>>}
                         [] Array = 9         -> {<<DCRSR, Pc>>}
                         [] Array = 12        -> {<<DCRDR, Return>>}
                         [] Array = 13        -> {<<DCRSR, Lr>>}
                         [] OTHER             -> {}
    BY DEF Asked
  <2> HIDE DEF S
  <2>2. Asked(Array) = S
    BY <2>1 DEF Array, Releasing
  <2> QED
    BY <2>2 DEF S
<1>3. \A c \in 1..16 : c \notin WriteCalls \cup {Array} => Asked(c) = {}
  BY DEF Asked, WriteCalls, Array, Releasing
<1> QED
  BY <1>1, <1>2, <1>3

(* What holds of all a packet does: it stays in its call, and nothing that *)
(* went wrong is forgotten.                                                *)
Onward(a) ==
  /\ Sending /\ a \in Answer /\ call' = call
  /\ Forth(a) \/ Out(a)
  /\ lost \subseteq lost' /\ lost' \subseteq {"missed", "parity", "cleared", "early"}

LEMMA Going ==
  ASSUME SwdTypeOK, NEW a, Onward(a)
  PROVE  /\ call' = call /\ call \in 1..15 /\ call \in Nat /\ result = NONE
         /\ step \in Nat /\ step' \in Nat /\ step >= 1
         /\ \/ step' = step + 1 /\ result' = NONE
            \/ step' = step /\ result' = a /\ result' # NONE
         /\ lost' = {} => lost = {}
         /\ "missed" \in lost => "missed" \in lost'
BY DEF SwdTypeOK, Onward, Forth, Out, Sending, Done, Answer, ACK, WAIT, FAULT, MUTE, NONE

(* A packet that leaves the memory alone keeps what is said of a core that *)
(* runs.                                                                   *)
LEMMA RunKept ==
  ASSUME SwdTypeOK, CoreInv, ReleasedIsComplete, NEW a, Onward(a),
         dap'.mem = dap.mem, dap'.xfer = dap.xfer, dap'.regs = dap.regs
  PROVE  CoreInv' /\ ReleasedIsComplete'
<1>1. CoreInv'
  <2> SUFFICES ASSUME dap'.mem[DHCSR] = Run
               PROVE  After(15, 4)' /\ (lost' = {} => dap'.xfer = Unknown)
    BY DEF CoreInv, DHCSR, Run, Unknown
  <2>1. After(15, 4) /\ (lost = {} => dap.xfer = Unknown)
    BY DEF CoreInv
  <2>2. After(15, 4)'
    BY <2>1, Going DEF After
  <2> QED
    BY <2>1, <2>2, Going
<1>2. ReleasedIsComplete'
  <2> SUFFICES ASSUME dap'.mem[DHCSR] = Run, lost' = {}
               PROVE  /\ \A i \in Code : dap'.mem[i] = Word(i)
                      /\ dap'.regs[Pc] = Entry /\ dap'.regs[Lr] = Return
    BY DEF ReleasedIsComplete, DHCSR, Run, Pc, Lr, Entry, Return, Code, Word
  <2> QED
    BY Going DEF ReleasedIsComplete
<1> QED
  BY <1>1, <1>2

(* A call ends with ACK when its last packet does, which no flag refused. *)
LEMMA Reported ==
  ASSUME SwdTypeOK, HostInv, MemInv, ArrayInv, NEW a, Onward(a), ~Faulted(Packet),
         Packet.reg # "DRW" => dap'.mem = dap.mem
  PROVE  ReportIsTrue'
<1> SUFFICES ASSUME result' = ACK, "missed" \notin lost', NEW w \in Asked(call)
             PROVE  dap'.mem[w[1]] = w[2]
  BY Going DEF ReportIsTrue, ACK, Asked, DHCSR, DCRDR, DCRSR, Halt, Run, Entry, Return,
               Pc, Lr, Word, Code, Array, Releasing
<1>1. step' = step /\ a = ACK /\ ~Missed /\ call \in 1..16
  BY Going DEF Missed, ACK, NONE
<1>2. call # Clearing => step = Length(call)
  BY <1>1, Going DEF Onward, Forth, Out, ACK, NONE
<1>3. Sending
  BY DEF Onward
<1>4. CASE call \in WriteCalls
  <2>1. step = 5
    BY <1>2, <1>3, <1>4, Musts DEF WriteCalls, Clearing
  <2>2. Packet = R("CSW", TRUE)
    BY <1>4, <2>1, WritePackets
  <2>3. Packet.op = "R" /\ Packet.reg = "CSW"
    BY <2>2 DEF R
  <2>4. ~Stuck
    BY <2>3, NotFaulted
  <2>5. dap.mem[Target(call)] = Sends(call)
    BY <1>1, <1>4, <2>1, <2>4 DEF MemInv
  <2>6. w = <<Target(call), Sends(call)>>
    BY <1>4, AskedIs
  <2> QED
    BY <2>3, <2>5, <2>6
<1>5. CASE call = Array
  <2>1. step = Words + 7 /\ step \in Nat
    BY <1>2, <1>3, <1>5, Musts, SwdConstants DEF Array, Clearing
  <2>2. Packet = W("CSW", data, TRUE)
    BY <1>5, <2>1, ArrayPackets
  <2>3. Packet.op = "W" /\ Packet.reg = "CSW"
    BY <2>2 DEF W
  <2>4. ~Stuck
    BY <2>3, NotFaulted
  <2>5. \A i \in 1..(step - 7) : dap.mem[i] = Word(i)
    BY <1>1, <1>5, <2>1, <2>4, SwdConstants DEF ArrayInv
  <2>6. PICK i \in Code : w = <<i, Word(i)>>
    BY <1>5, AskedIs
  <2>7. i \in 1..(step - 7)
    BY <2>1, SwdConstants
  <2> QED
    BY <2>3, <2>5, <2>6, <2>7
<1>6. CASE call \notin WriteCalls \cup {Array}
  BY <1>1, <1>6, AskedIs
<1> QED
  BY <1>4, <1>5, <1>6

(***************************************************************************)
(* A packet that was not taken: either a flag was set, or it was missed.   *)
(***************************************************************************)
LEMMA NotTaken ==
  ASSUME SwdTypeOK, HostInv, ErrInv, PortInv, MemInv, ArrayInv, NEW a, Onward(a), a # ACK,
         dap' = dap, data' = data, Stuck \/ "missed" \in lost'
  PROVE  /\ ErrInv' /\ PortInv' /\ MemInv' /\ ArrayInv' /\ CleanInv' /\ RegsInv'
         /\ ReportIsTrue'
<1>0. Sending /\ call' = call /\ (Missed => Missed') /\ Stuck' = Stuck
  BY Going DEF Onward, Missed, Stuck
<1>1. Stuck' \/ Missed'
  BY <1>0 DEF Missed
<1>2. step' # step => step' = step + 1 /\ ~Packet.must /\ result' = NONE
  BY Going DEF Onward, Forth, Out
<1>3. ErrInv'
  <2>1. ASSUME call = Powering, step' = 2  PROVE ERR \notin dap'.sticky
    <3>1. step = 2
      BY <1>0, <1>2, <2>1, Musts DEF Powering, WriteCalls, Array
    <3> QED
      BY <2>1, <3>1 DEF ErrInv
  <2>2. call = Loading => ERR \notin dap'.sticky
    BY DEF ErrInv
  <2> QED
    BY <1>0, <2>1, <2>2 DEF ErrInv, Powering, Loading, ERR
<1>4. PortInv'
  <2>1. ASSUME ~Missed'  PROVE WDATA \in dap.sticky \/ (call > Loading => dap.csw \in {Csw, CswInc})
    BY <1>0, <2>1 DEF PortInv
  <2>2. ASSUME ~Missed', call = Loading  PROVE WDATA \in dap.sticky
    <3>1. dap.sticky # {} /\ ERR \notin dap.sticky /\ dap.sticky \subseteq {WDATA, ERR}
      BY <1>0, <1>1, <2>2 DEF Stuck, ErrInv, SwdTypeOK
    <3> QED
      BY <3>1
  <2> QED
    BY <1>0, <2>1, <2>2 DEF PortInv, Missed, Loading, WDATA, Csw, CswInc
<1>5. MemInv'
  <2>1. ASSUME call \in WriteCalls \cup ReadCalls \cup {Array}, step' > 2
        PROVE  Stuck \/ dap.sel = "MEM"
    <3>1. step > 2
      BY <1>0, <1>2, <2>1, Going, Musts, MainCalls DEF WriteCalls, ReadCalls, Array
    <3> QED
      BY <2>1, <3>1 DEF MemInv
  <2>2. ASSUME call \in WriteCalls, step' = 4  PROVE Stuck \/ dap.tar = Target(call)
    <3>1. step = 4
      BY <1>0, <1>2, <2>2, Musts, Going DEF WriteCalls, Array
    <3> QED
      BY <2>2, <3>1 DEF MemInv
  <2> QED
    BY <1>0, <1>1, <2>1, <2>2 DEF MemInv, Missed, Stuck, WriteCalls, ReadCalls, Array, Target,
       Sends, DHCSR, DCRDR, DCRSR, Halt, Run, Entry, Return, Pc, Lr
<1>6. ArrayInv'
  <2>1. ASSUME call = Array, step' \in 4..7, result' = NONE  PROVE Stuck \/ dap.tar = 1
    <3>1. step \in 4..7 /\ result = NONE
      BY <1>0, <1>2, <2>1, Going, Musts DEF WriteCalls, Array
    <3> QED
      BY <2>1, <3>1 DEF ArrayInv
  <2> QED
    BY <1>0, <1>1, <2>1 DEF ArrayInv, Missed, Stuck, Array, Csw, CswInc, Word, NONE
<1>7. CleanInv' /\ RegsInv'
  <2>1. ~Clean'
    BY <1>1 DEF Clean, Missed
  <2> QED
    BY <2>1 DEF CleanInv, RegsInv
<1>8. ReportIsTrue'
  <2>1. result' # ACK
    BY Going DEF NONE, ACK
  <2> QED
    BY <2>1 DEF ReportIsTrue, ACK
<1> QED
  BY <1>3, <1>4, <1>5, <1>6, <1>7, <1>8

(***************************************************************************)
(* A packet that the target acknowledged and did not do: it says so in a   *)
(* flag.                                                                   *)
(***************************************************************************)
LEMMA Marked ==
  ASSUME SwdTyped, HostInv, ErrInv, PortInv, MemInv, ArrayInv, CoreInv, ReleasedIsComplete,
         NEW a, Onward(a), ~Faulted(Packet), NEW f \in {WDATA, ERR},
         dap' = [dap EXCEPT !.sticky = @ \cup {f}], data' = data,
         f = WDATA => Packet.op = "W",
         f = ERR => Packet.reg = "DRW"
  PROVE  /\ dap' \in DapType
         /\ ErrInv' /\ PortInv' /\ MemInv' /\ ArrayInv' /\ CleanInv' /\ RegsInv' /\ CoreInv'
         /\ ReportIsTrue' /\ ReleasedIsComplete'
<1>0. Sending /\ call' = call /\ (Missed => Missed') /\ SwdTypeOK /\ dap \in DapType
  BY Going DEF Onward, Missed, SwdTyped
<1>1. /\ dap' \in DapType /\ dap'.sticky = dap.sticky \cup {f}
      /\ dap'.sel = dap.sel /\ dap'.csw = dap.csw /\ dap'.tar = dap.tar
      /\ dap'.mem = dap.mem /\ dap'.xfer = dap.xfer /\ dap'.regs = dap.regs
  BY <1>0 DEF DapType
<1>2. Stuck'
  BY <1>1 DEF Stuck
<1>3. ErrInv'
  <2>1. ASSUME call = Powering, step' = 2  PROVE ERR \notin dap'.sticky
    <3>1. f = WDATA
      BY <1>0, <2>1, Musts DEF Powering, WriteCalls, ReadCalls, Array
    <3>2. ASSUME step # 2  PROVE dap.sticky = {}
      <4>1. step = 1
        BY <1>0, <2>1, <3>2, Musts
      <4>2. Packet = W("CTRL_STAT", PwrUp, TRUE)
        BY <2>1, <4>1, ConnectPackets
      <4>3. Packet.op = "W" /\ Packet.reg = "CTRL_STAT"
        BY <4>2 DEF W
      <4> QED
        BY <4>3, NotFaulted DEF Stuck
    <3>3. ERR \notin dap.sticky
      BY <2>1, <3>2 DEF ErrInv
    <3> QED
      BY <1>1, <3>1, <3>3 DEF WDATA, ERR
  <2>2. ASSUME call = Loading  PROVE ERR \notin dap'.sticky
    <3>1. f = WDATA
      BY <1>0, <2>2, Musts DEF Loading, WriteCalls, ReadCalls, Array
    <3> QED
      BY <1>1, <2>2, <3>1 DEF ErrInv, WDATA, ERR
  <2> QED
    BY <1>0, <2>1, <2>2 DEF ErrInv, Powering, Loading, ERR
<1>4. PortInv'
  <2>1. CASE f = WDATA
    BY <1>1, <2>1 DEF PortInv, WDATA
  <2>2. CASE f = ERR
    <3>1. call > Loading
      BY <1>0, <2>2, Musts, MainCalls DEF Array, Loading, WriteCalls, ReadCalls
    <3>2. Missed \/ WDATA \in dap.sticky \/ dap.csw \in {Csw, CswInc}
      BY <3>1 DEF PortInv
    <3>3. Missed' \/ WDATA \in dap'.sticky \/ dap'.csw \in {Csw, CswInc}
      BY <1>0, <1>1, <3>2
    <3>4. call # Loading
      BY <3>1, <1>0, Going DEF Loading
    <3> QED
      BY <1>0, <3>3, <3>4 DEF PortInv, Missed, Loading, WDATA, Csw, CswInc
  <2> QED
    BY <2>1, <2>2
<1>5. MemInv'
  BY <1>2 DEF MemInv, Stuck
<1>6. ArrayInv'
  BY <1>2 DEF ArrayInv, Stuck
<1>7. CleanInv' /\ RegsInv'
  <2>1. ~Clean'
    BY <1>2 DEF Clean
  <2> QED
    BY <2>1 DEF CleanInv, RegsInv
<1>8. CoreInv' /\ ReleasedIsComplete'
  BY <1>0, <1>1, RunKept
<1>9. ReportIsTrue'
  BY <1>0, <1>1, Reported
<1> QED
  BY <1>1, <1>3, <1>4, <1>5, <1>6, <1>7, <1>8, <1>9

(***************************************************************************)
(* A packet that was sent and done; a read may still fail its parity.      *)
(***************************************************************************)
Taken(a) ==
  /\ Onward(a) /\ ~Faulted(Packet)
  /\ Packet.op = "W" =>
       /\ dap' = Written(Packet) /\ data' = data /\ a = ACK
       /\ Early(Packet) \/ Clears(Packet) => lost' # {}
  /\ Packet.op = "R" =>
       /\ dap' = ReadDone(Packet)
       /\ \/ a = ACK /\ data' = ReadValue(Packet)
          \/ a = WAIT /\ data' \in Value /\ lost' # {}

TakenFrom(a) == SwdTyped /\ HostInv /\ ErrInv /\ PortInv /\ MemInv /\ ArrayInv /\ CleanInv
                /\ RegsInv /\ CoreInv /\ ReleasedIsComplete /\ Taken(a)

LEMMA TakenIs ==
  ASSUME NEW a, TakenFrom(a)
  PROVE  /\ SwdTypeOK /\ dap \in DapType /\ HostInv /\ Sending /\ Onward(a) /\ PacketOK(Packet)
         /\ ~Faulted(Packet) /\ call' = call /\ (Missed => Missed')
         /\ Packet.op \in {"R", "W"} /\ (a = ACK \/ (a = WAIT /\ Packet.op = "R" /\ lost' # {}))
         /\ dap' \in DapType /\ data' \in Value
<1>1. SwdTypeOK /\ dap \in DapType /\ HostInv /\ Sending /\ Onward(a) /\ ~Faulted(Packet)
  BY DEF TakenFrom, Taken, SwdTyped, Onward
<1>2. PacketOK(Packet)
  BY <1>1, PacketIsOK
<1>3. call' = call /\ (Missed => Missed')
  BY <1>1, Going DEF Missed
<1>4. Packet.op \in {"R", "W"}
  BY <1>2 DEF PacketOK
<1>5. a = ACK \/ (a = WAIT /\ Packet.op = "R" /\ lost' # {})
  BY <1>4 DEF TakenFrom, Taken
<1>6. data \in Value
  BY <1>1 DEF SwdTypeOK, Value
<1>7. dap' \in DapType /\ data' \in Value
  <2>1. CASE Packet.op = "W"
    BY <1>1, <1>2, <1>6, <2>1, WrittenIs DEF TakenFrom, Taken
  <2>2. CASE Packet.op = "R"
    BY <1>1, <1>2, <2>2, ReadDoneIs DEF TakenFrom, Taken
  <2> QED
    BY <1>4, <2>1, <2>2
<1> QED
  BY <1>1, <1>2, <1>3, <1>4, <1>5, <1>7

(* Of what is clean now nothing had gone wrong before. *)
LEMMA CleanBefore ==
  ASSUME NEW a, TakenFrom(a), call >= Loading,
         dap'.sticky = dap.sticky \/ dap'.sticky = dap.sticky \ {ERR}
  PROVE  Clean' => Clean /\ result' \in {NONE, ACK} /\ a = ACK /\ dap.sticky = {} /\ lost = {}
<1> HAVE Clean'
<1>1. lost = {} /\ lost' = {} /\ dap'.sticky = {} /\ a = ACK
  BY TakenIs, Going DEF Clean, Stuck
<1>2. ERR \notin dap.sticky
  <2>1. CASE call = Loading
    BY <2>1 DEF TakenFrom, ErrInv
  <2>2. CASE call > Loading
    <3> SUFFICES ASSUME ERR \in dap.sticky  PROVE FALSE
      OBVIOUS
    <3>1. dap \in DapType /\ PacketOK(Packet) /\ Packet.op \in {"R", "W"}
      BY TakenIs
    <3>2. ERR \notin dap'.sticky
      BY <1>1
    <3>3. Packet.op = "W"
      BY <3>1, <3>2, ReadDoneIs DEF TakenFrom, Taken
    <3>4. dap' = Written(Packet) /\ (Clears(Packet) => lost' # {})
      BY <3>3 DEF TakenFrom, Taken
    <3>5. Packet.reg = "ABORT" /\ ERR \in Packet.val
      BY <3>1, <3>2, <3>3, <3>4, WrittenIs
    <3> QED
      BY <1>1, <2>2, <3>4, <3>5 DEF Clears
  <2> QED
    BY <2>1, <2>2, TakenIs, Going DEF Loading
<1>3. dap.sticky = {}
  BY <1>1, <1>2
<1>4. result' \in {NONE, ACK}
  BY <1>1, TakenIs, Going
<1> QED
  BY <1>1, <1>3, <1>4 DEF Clean, Stuck

(* What holds of a clean target is kept by packets that write no word. *)
LEMMA CleanKept ==
  ASSUME NEW a, TakenFrom(a), call >= Loading,
         dap'.sticky = dap.sticky \/ dap'.sticky = dap.sticky \ {ERR},
         dap'.mem = dap.mem, dap'.xfer = dap.xfer, dap'.regs = dap.regs,
         call > Loading => dap'.csw = dap.csw,
         call = Array => step' <= 5,
         call \in WriteCalls => step # 4
  PROVE  CleanInv' /\ RegsInv'
<1>1. /\ call' = call /\ step \in Nat /\ step' \in Nat /\ step <= step' /\ call \in 1..15
      /\ step' = step \/ step' = step + 1
  BY TakenIs, Going
<1>2. \A c \in {5, 8, 9, 12, 13, 15} : After(c, 4)' = After(c, 4)
  <2> TAKE c \in {5, 8, 9, 12, 13, 15}
  <2>1. call = c => step # 4
    BY DEF WriteCalls
  <2>2. call = c => (step' > 4 <=> step > 4)
    BY <1>1, <2>1
  <2> QED
    BY <1>1, <2>2 DEF After
<1>3. ASSUME Clean'  PROVE Clean /\ result' \in {NONE, ACK}
  BY <1>3, CleanBefore
<1>4. CleanInv'
  <2> SUFFICES ASSUME Clean'
               PROVE  /\ result' \in {NONE, ACK}
                      /\ call > Loading => dap'.csw = Csw
                      /\ call = Array => step' <= 5
                      /\ After(5, 4)' /\ ~After(15, 4)' => dap'.mem[DHCSR] = Halt
                      /\ call > Array => \A i \in Code : dap'.mem[i] = Word(i)
    BY <1>1 DEF CleanInv, Loading, Array, Csw, CswInc, NONE, ACK, DHCSR, Halt, Code, Word
  <2>1. Clean /\ CleanInv
    BY <1>3 DEF TakenFrom
  <2>2. After(5, 4)' = After(5, 4) /\ After(15, 4)' = After(15, 4)
    BY <1>2
  <2>3. call > Loading => dap.csw = Csw
    BY <1>1, <2>1 DEF CleanInv
  <2> QED
    BY <1>3, <2>1, <2>2, <2>3 DEF CleanInv
<1>5. RegsInv'
  <2> SUFFICES ASSUME Clean'
      PROVE  /\ After(8, 4)' /\ ~After(12, 4)' => dap'.mem[DCRDR] = Entry
             /\ After(9, 4)' /\ ~After(12, 4)' =>
                  dap'.xfer = Pc \/ (dap'.xfer = Unknown /\ dap'.regs[Pc] = Entry)
             /\ After(12, 4)' => dap'.mem[DCRDR] = Return /\ dap'.regs[Pc] = Entry
             /\ After(12, 4)' /\ ~After(13, 4)' => dap'.xfer = Unknown
             /\ After(13, 4)' =>
                  dap'.xfer = Lr \/ (dap'.xfer = Unknown /\ dap'.regs[Lr] = Return)
             /\ After(15, 4)' => dap'.xfer = Unknown
    BY DEF RegsInv, DCRDR, Entry, Pc, Lr, Unknown, Return
  <2>1. Clean /\ RegsInv
    BY <1>3 DEF TakenFrom
  <2>2. /\ After(8, 4)' = After(8, 4) /\ After(9, 4)' = After(9, 4)
        /\ After(12, 4)' = After(12, 4) /\ After(13, 4)' = After(13, 4)
        /\ After(15, 4)' = After(15, 4)
    BY <1>2
  <2> QED
    BY <2>1, <2>2 DEF RegsInv
<1> QED
  BY <1>4, <1>5

(* The errors that are left, after a packet that makes none. *)
LEMMA ErrKept ==
  ASSUME NEW a, TakenFrom(a), dap'.sticky \subseteq dap.sticky,
         call = Powering => dap.sticky = {} \/ step = 2
  PROVE  ErrInv'
<1>1. call' = call /\ call \in 1..15 /\ ErrInv
  BY TakenIs, Going DEF TakenFrom
<1>2. call = Powering => ERR \notin dap'.sticky
  BY <1>1 DEF ErrInv
<1>3. call = Loading => ERR \notin dap'.sticky
  BY <1>1 DEF ErrInv
<1> QED
  BY <1>1, <1>2, <1>3 DEF ErrInv, Powering, Loading, ERR

LEMMA NoStep ==
  ASSUME NEW c \in 1..15, call = c, call' = call, c < 4
  PROVE  PortInv' /\ MemInv' /\ ArrayInv' /\ CleanInv' /\ RegsInv'
<1>1. c \in {1, 2, 3}
  OBVIOUS
<1>2. call \notin WriteCalls \cup ReadCalls \cup {Array} /\ call # Loading /\ ~(call > Loading)
  BY <1>1 DEF WriteCalls, ReadCalls, Array, Loading
<1>3. PortInv'
  BY <1>2 DEF PortInv, Loading
<1>4. MemInv'
  BY <1>2 DEF MemInv, WriteCalls, ReadCalls, Array
<1>5. ArrayInv'
  BY <1>2 DEF ArrayInv, Array
<1>6. ~Clean'
  BY <1>1 DEF Clean, Loading
<1> QED
  BY <1>3, <1>4, <1>5, <1>6 DEF CleanInv, RegsInv

(* The loops of reset_and_power_debug and clear_faults. *)
LEMMA ConnectTaken ==
  ASSUME NEW a, TakenFrom(a), call < Loading
  PROVE  /\ ErrInv' /\ PortInv' /\ MemInv' /\ ArrayInv' /\ CleanInv' /\ RegsInv' /\ CoreInv'
         /\ ReportIsTrue' /\ ReleasedIsComplete'
<1>1. /\ call \in 1..15 /\ call < 4 /\ call' = call /\ SwdTypeOK /\ dap \in DapType
      /\ PacketOK(Packet) /\ HostInv /\ Sending /\ Onward(a) /\ ~Faulted(Packet)
      /\ MemInv /\ ArrayInv /\ CoreInv /\ ReleasedIsComplete
  BY TakenIs, Going DEF Loading, TakenFrom
<1>2. Packet.reg # "DRW"
  BY <1>1, Musts, MainCalls DEF Array, WriteCalls, ReadCalls
<1>3. /\ dap'.mem = dap.mem /\ dap'.xfer = dap.xfer /\ dap'.regs = dap.regs
      /\ dap'.sticky \subseteq dap.sticky
  <2>1. CASE Packet.op = "W"
    BY <1>1, <1>2, <2>1, WrittenIs DEF TakenFrom, Taken
  <2>2. CASE Packet.op = "R"
    BY <1>1, <1>2, <2>2, ReadDoneIs DEF TakenFrom, Taken
  <2> QED
    BY <2>1, <2>2, TakenIs
<1>4. call = Powering => dap.sticky = {} \/ step = 2
  <2> SUFFICES ASSUME call = Powering, step # 2  PROVE dap.sticky = {}
    OBVIOUS
  <2>1. step = 1
    BY <1>1, Musts
  <2>2. Packet = W("CTRL_STAT", PwrUp, TRUE)
    BY <2>1, ConnectPackets
  <2>3. Packet.op = "W" /\ Packet.reg = "CTRL_STAT"
    BY <2>2 DEF W
  <2> QED
    BY <1>1, <2>3, NotFaulted DEF Stuck
<1>5. ErrInv'
  BY <1>3, <1>4, ErrKept
<1>6. CoreInv' /\ ReleasedIsComplete'
  BY <1>1, <1>3, RunKept
<1>7. ReportIsTrue'
  BY <1>1, <1>3, Reported
<1>8. PortInv' /\ MemInv' /\ ArrayInv' /\ CleanInv' /\ RegsInv'
  BY <1>1, NoStep
<1> QED
  BY <1>5, <1>6, <1>7, <1>8

(* main, between the loops and the first call: SELECT and CSW. *)
LEMMA PreludeTaken ==
  ASSUME NEW a, TakenFrom(a), call = Loading
  PROVE  /\ ErrInv' /\ PortInv' /\ MemInv' /\ ArrayInv' /\ CleanInv' /\ RegsInv' /\ CoreInv'
         /\ ReportIsTrue' /\ ReleasedIsComplete'
<1>1. /\ call = 4 /\ call' = call /\ SwdTypeOK /\ dap \in DapType /\ PacketOK(Packet)
      /\ HostInv /\ Sending /\ Onward(a) /\ ~Faulted(Packet) /\ (Missed => Missed')
      /\ MemInv /\ ArrayInv /\ CoreInv /\ ReleasedIsComplete /\ PortInv
  BY TakenIs DEF Loading, TakenFrom
<1>2. step \in {1, 2, 3, 4, 5, 6, 7, 8}
  BY <1>1, Musts
<1>3. /\ step = 1 => Packet = W("SELECT", "MDM", FALSE)
      /\ step = 2 => Packet = W("TAR", Unknown, FALSE)
      /\ step \in {3, 7} => Packet = R("CSW", FALSE)
      /\ step \in {4, 8} => Packet = R("RD_BUFF", FALSE)
      /\ step = 5 => Packet = W("SELECT", "MEM", FALSE)
      /\ step = 6 => Packet = W("CSW", Csw, FALSE)
  BY PreludePackets
<1>4. /\ step \in {1, 2, 5, 6} => Packet.op = "W"
      /\ step \notin {1, 2, 5, 6} => Packet.op = "R"
      /\ Packet.reg \in {"SELECT", "TAR", "CSW", "RD_BUFF"}
      /\ step = 5 => Packet.reg = "SELECT" /\ Packet.val = "MEM"
      /\ step = 6 => Packet.reg = "CSW" /\ Packet.val = Csw
      /\ step > 5 => Packet.reg # "SELECT"
  BY <1>2, <1>3 DEF R, W
<1>5. /\ dap'.mem = dap.mem /\ dap'.xfer = dap.xfer /\ dap'.regs = dap.regs
      /\ dap'.sticky = dap.sticky
      /\ step = 5 => dap'.sel = "MEM"
      /\ step > 5 => dap'.sel = dap.sel
      /\ step = 6 /\ dap.sel = "MEM" => dap'.csw = Csw
      /\ step > 6 => dap'.csw = dap.csw
  <2>1. CASE step \in {1, 2, 5, 6}
    <3>1. dap' = Written(Packet) /\ Packet.op = "W" /\ Packet.reg \notin {"DRW", "ABORT"}
      BY <1>4, <2>1 DEF TakenFrom, Taken
    <3>2. /\ dap'.mem = dap.mem /\ dap'.xfer = dap.xfer /\ dap'.regs = dap.regs
          /\ dap'.sticky = dap.sticky
          /\ dap'.sel = IF Packet.reg = "SELECT" THEN Packet.val ELSE dap.sel
          /\ dap'.csw = IF Packet.reg = "CSW" /\ dap.sel = "MEM" THEN Packet.val ELSE dap.csw
      BY <1>1, <3>1, WrittenIs
    <3>3. step \in {1, 2, 5, 6} /\ (step = 5 \/ step > 5 => step \in {5, 6}) /\ ~(step > 6)
      BY <2>1
    <3> QED
      BY <1>4, <3>2, <3>3
  <2>2. CASE step \notin {1, 2, 5, 6}
    <3>1. dap' = ReadDone(Packet) /\ Packet.op = "R"
      BY <1>4, <2>2 DEF TakenFrom, Taken
    <3>2. step # 5 /\ step # 6
      BY <2>2
    <3> QED
      BY <1>1, <3>1, <3>2, ReadDoneIs
  <2> QED
    BY <2>1, <2>2
<1>6. ErrInv'
  BY <1>1, <1>5, ErrKept DEF Powering
<1>7. step' = step + 1 \/ (step' = step /\ step = 8)
  BY <1>1, <1>4, Musts, LoadingGoesOn DEF Onward, Forth, Out, Clearing
<1>8. PortInv'
  <2>1. CASE Missed \/ WDATA \in dap.sticky
    BY <1>1, <1>5, <2>1 DEF PortInv, Missed
  <2>2. CASE ~(Missed \/ WDATA \in dap.sticky)
    <3>1. (step > 5 => dap.sel = "MEM") /\ (step > 6 => dap.csw = Csw)
      BY <1>1, <2>2 DEF PortInv, Loading
    <3>2. (step' > 5 => dap'.sel = "MEM")
      BY <1>2, <1>5, <1>7, <3>1
    <3>3. (step' > 6 => dap'.csw = Csw)
      BY <1>2, <1>5, <1>7, <3>1
    <3> QED
      BY <1>1, <3>2, <3>3 DEF PortInv, Loading, Csw
  <2> QED
    BY <2>1, <2>2
<1>9. MemInv' /\ ArrayInv'
  <2>1. call' \notin WriteCalls \cup ReadCalls \cup {Array}
    BY <1>1 DEF WriteCalls, ReadCalls, Array
  <2> QED
    BY <2>1 DEF MemInv, ArrayInv, WriteCalls, ReadCalls, Array
<1>10. CleanInv' /\ RegsInv'
  BY <1>1, <1>5, CleanKept DEF Loading, Array, WriteCalls
<1>11. CoreInv' /\ ReleasedIsComplete'
  BY <1>1, <1>5, RunKept
<1>12. ReportIsTrue'
  BY <1>1, <1>5, Reported
<1> QED
  BY <1>6, <1>8, <1>9, <1>10, <1>11, <1>12

(***************************************************************************)
(* swd_config_mem_access: ABORT, SELECT and TAR.                           *)
(***************************************************************************)
Address(c) == IF c = Array THEN 1 ELSE IF c \in ReadCalls THEN DHCSR ELSE Target(c)

LEMMA SetupPackets ==
  ASSUME call \in WriteCalls \cup ReadCalls \cup {Array}, step \in {1, 2, 3}
  PROVE  /\ Packet.op = "W" /\ Packet.must
         /\ step = 1 => Packet.reg = "ABORT" /\ Packet.val = {ERR}
         /\ step = 2 => Packet.reg = "SELECT" /\ Packet.val = "MEM"
         /\ step = 3 => Packet.reg = "TAR" /\ Packet.val = Address(call)
<1>1. /\ step = 1 => Packet = W("ABORT", Abort0x16, TRUE)
      /\ step = 2 => Packet = W("SELECT", "MEM", TRUE)
      /\ step = 3 => Packet = W("TAR", Address(call), TRUE)
  <2>1. CASE call \in WriteCalls
    <3>1. Address(call) = Target(call)
      BY <2>1 DEF Address, WriteCalls, ReadCalls, Array
    <3> QED
      BY <2>1, <3>1, WritePackets
  <2>2. CASE call \in ReadCalls
    <3>1. Address(call) = DHCSR
      BY <2>2 DEF Address, ReadCalls, Array
    <3> QED
      BY <2>2, <3>1, ReadPackets
  <2>3. CASE call = Array
    <3>1. Address(call) = 1 /\ step \in Nat
      BY <2>3 DEF Address
    <3> QED
      BY <2>3, <3>1, ArrayPackets
  <2> QED
    BY <2>1, <2>2, <2>3
<1> QED
  BY <1>1 DEF W, Abort0x16

LEMMA SetupTaken ==
  ASSUME NEW a, TakenFrom(a), call \in WriteCalls \cup ReadCalls \cup {Array}, step \in {1, 2, 3}
  PROVE  /\ ErrInv' /\ PortInv' /\ MemInv' /\ ArrayInv' /\ CleanInv' /\ RegsInv' /\ CoreInv'
         /\ ReportIsTrue' /\ ReleasedIsComplete'
<1>1. /\ call' = call /\ SwdTypeOK /\ dap \in DapType /\ PacketOK(Packet)
      /\ HostInv /\ Sending /\ Onward(a) /\ ~Faulted(Packet) /\ (Missed => Missed')
      /\ MemInv /\ ArrayInv /\ CoreInv /\ ReleasedIsComplete /\ PortInv /\ call \in 5..15
  BY TakenIs, MainCalls DEF TakenFrom, Array
<1>2. /\ Packet.op = "W"
      /\ step = 1 => Packet.reg = "ABORT" /\ Packet.val = {ERR}
      /\ step = 2 => Packet.reg = "SELECT" /\ Packet.val = "MEM"
      /\ step = 3 => Packet.reg = "TAR" /\ Packet.val = Address(call)
  BY SetupPackets
<1>3. dap' = Written(Packet) /\ a = ACK
  BY <1>2 DEF TakenFrom, Taken
<1>4. /\ dap'.mem = dap.mem /\ dap'.xfer = dap.xfer /\ dap'.regs = dap.regs
      /\ dap'.sticky = IF Packet.reg = "ABORT" THEN dap.sticky \ Packet.val ELSE dap.sticky
      /\ dap'.sel = IF Packet.reg = "SELECT" THEN Packet.val ELSE dap.sel
      /\ dap'.csw = IF Packet.reg = "CSW" /\ dap.sel = "MEM" THEN Packet.val ELSE dap.csw
      /\ dap'.tar = IF Packet.reg = "TAR" /\ dap.sel = "MEM" THEN Packet.val ELSE dap.tar
  BY <1>1, <1>2, <1>3, WrittenIs
<1>5. /\ dap'.sticky = dap.sticky \/ dap'.sticky = dap.sticky \ {ERR}
      /\ dap'.csw = dap.csw
      /\ step = 2 => dap'.sel = "MEM"
      /\ step = 3 => dap'.sel = dap.sel /\ (dap.sel = "MEM" => dap'.tar = Address(call))
      /\ WDATA \in dap.sticky => WDATA \in dap'.sticky
  BY <1>2, <1>4 DEF WDATA, ERR
<1>6. step' = step + 1 /\ result' = NONE
  <2>1. Length(call) >= 5
    BY <1>1, Musts, SwdConstants
  <2>2. call # Clearing
    BY <1>1 DEF Clearing
  <2> QED
    BY <1>1, <1>3, <2>1, <2>2 DEF Onward, Forth, Out
<1>7. ErrInv'
  BY <1>1, <1>5, ErrKept DEF Powering
<1>8. PortInv'
  <2>1. Missed \/ WDATA \in dap.sticky \/ dap.csw \in {Csw, CswInc}
    BY <1>1 DEF PortInv, Loading
  <2>2. Missed' \/ WDATA \in dap'.sticky \/ dap'.csw \in {Csw, CswInc}
    BY <1>1, <1>5, <2>1
  <2>3. call # Loading
    BY <1>1 DEF Loading
  <2> QED
    BY <1>1, <2>2, <2>3 DEF PortInv, Missed, Loading, WDATA, Csw, CswInc
<1>9. step = 3 => Stuck' \/ (dap'.sel = "MEM" /\ dap'.tar = Address(call))
  <2> SUFFICES ASSUME step = 3  PROVE Stuck' \/ (dap'.sel = "MEM" /\ dap'.tar = Address(call))
    OBVIOUS
  <2>1. ~Stuck
    BY <1>1, <1>2, NotFaulted
  <2>2. dap.sel = "MEM"
    BY <1>1, <2>1 DEF MemInv
  <2> QED
    BY <1>5, <2>2
<1>10. MemInv'
  <2>1. step' > 2 => Stuck' \/ dap'.sel = "MEM"
    BY <1>5, <1>6, <1>9
  <2>2. call \in WriteCalls /\ step' = 4 => Stuck' \/ dap'.tar = Target(call)
    <3>1. step' = 4 => step = 3
      BY <1>6
    <3>2. call \in WriteCalls => Address(call) = Target(call)
      BY DEF Address, WriteCalls, ReadCalls, Array
    <3> QED
      BY <1>9, <3>1, <3>2
  <2>3. ~(step' > 4)
    BY <1>6
  <2> QED
    BY <1>1, <2>1, <2>2, <2>3 DEF MemInv, Stuck, Target, WriteCalls, ReadCalls, Array,
       DHCSR, DCRDR, DCRSR
<1>11. ArrayInv'
  <2>1. call = Array /\ step' \in 4..7 => Stuck' \/ dap'.tar = 1
    BY <1>6, <1>9 DEF Address
  <2>2. step' # 5 /\ ~(step' > 5) /\ ~(step' > 6)
    BY <1>6
  <2> QED
    BY <1>1, <2>1, <2>2 DEF ArrayInv, Stuck, Array
<1>12. CleanInv' /\ RegsInv'
  <2>1. call >= Loading /\ step' <= 5 /\ step # 4
    BY <1>1, <1>6 DEF Loading
  <2> QED
    BY <1>4, <1>5, <2>1, CleanKept
<1>13. CoreInv' /\ ReleasedIsComplete'
  BY <1>1, <1>4, RunKept
<1>14. ReportIsTrue'
  BY <1>1, <1>4, Reported
<1> QED
  BY <1>7, <1>8, <1>10, <1>11, <1>12, <1>13, <1>14

(***************************************************************************)
(* A read that is not of the first calls leaves but rdbuff and TAR: the    *)
(* rest of swd_read_mem, and the last packet of swd_write_mem.             *)
(***************************************************************************)
LEMMA ReadTaken ==
  ASSUME NEW a, TakenFrom(a), call \in WriteCalls \cup ReadCalls, step \in {4, 5},
         call \in WriteCalls => step = 5
  PROVE  /\ ErrInv' /\ PortInv' /\ MemInv' /\ ArrayInv' /\ CleanInv' /\ RegsInv' /\ CoreInv'
         /\ ReportIsTrue' /\ ReleasedIsComplete'
<1>1. /\ call' = call /\ SwdTypeOK /\ dap \in DapType /\ PacketOK(Packet)
      /\ HostInv /\ Sending /\ Onward(a) /\ ~Faulted(Packet) /\ (Missed => Missed')
      /\ MemInv /\ ArrayInv /\ CoreInv /\ ReleasedIsComplete /\ PortInv
      /\ call \in 5..15 /\ call # Array
  BY TakenIs, MainCalls DEF TakenFrom, Array
<1>2. Packet.op = "R"
  <2>1. Packet \in {R("CSW", TRUE), R("DRW", TRUE), R("RD_BUFF", TRUE)}
    BY WritePackets, ReadPackets
  <2> QED
    BY <2>1 DEF R
<1>3. dap' = ReadDone(Packet)
  BY <1>2 DEF TakenFrom, Taken
<1>4. /\ dap'.sticky = dap.sticky /\ dap'.sel = dap.sel /\ dap'.csw = dap.csw
      /\ dap'.mem = dap.mem /\ dap'.xfer = dap.xfer /\ dap'.regs = dap.regs
  BY <1>1, <1>2, <1>3, ReadDoneIs
<1>5. step' \in {4, 5} /\ (step = 5 => step' = 5)
  <2>1. Length(call) = 5 /\ call # Clearing
    BY <1>1, Musts DEF Clearing
  <2> QED
    BY <1>1, <2>1 DEF Onward, Forth, Out
<1>6. ErrInv'
  BY <1>1, <1>4, ErrKept DEF Powering
<1>7. PortInv'
  <2>1. Missed \/ WDATA \in dap.sticky \/ dap.csw \in {Csw, CswInc}
    BY <1>1 DEF PortInv, Loading
  <2>2. Missed' \/ WDATA \in dap'.sticky \/ dap'.csw \in {Csw, CswInc}
    BY <1>1, <1>4, <2>1
  <2>3. call # Loading
    BY <1>1 DEF Loading
  <2> QED
    BY <1>1, <2>2, <2>3 DEF PortInv, Missed, Loading, WDATA, Csw, CswInc
<1>8. MemInv'
  <2>1. Stuck' \/ dap'.sel = "MEM"
    BY <1>1, <1>4 DEF MemInv, Stuck
  <2>2. call \in WriteCalls => Missed' \/ Stuck' \/ dap'.mem[Target(call)] = Sends(call)
    BY <1>1, <1>4 DEF MemInv, Stuck
  <2>3. call \in WriteCalls => step' # 4
    BY <1>5
  <2> QED
    BY <1>1, <2>1, <2>2, <2>3 DEF MemInv, Stuck, Missed, Target, Sends, WriteCalls, ReadCalls,
       Array, DHCSR, DCRDR, DCRSR, Halt, Run, Entry, Return, Pc, Lr
<1>9. ArrayInv'
  BY <1>1 DEF ArrayInv, Array
<1>10. CleanInv' /\ RegsInv'
  <2>1. call >= Loading /\ (call \in WriteCalls => step # 4)
    BY <1>1 DEF Loading
  <2> QED
    BY <1>1, <1>4, <2>1, CleanKept
<1>11. CoreInv' /\ ReleasedIsComplete'
  BY <1>1, <1>4, RunKept
<1>12. ReportIsTrue'
  BY <1>1, <1>4, Reported
<1> QED
  BY <1>6, <1>7, <1>8, <1>9, <1>10, <1>11, <1>12

(***************************************************************************)
(* The word of swd_write_mem.                                              *)
(***************************************************************************)
LEMMA Sent ==
  /\ Halt = 7 /\ Run = 8 /\ Pc = 9 /\ Lr = 10 /\ Entry = 11 /\ Return = 12 /\ Unknown = 0
  /\ Csw = 5 /\ CswInc = 6
  /\ DHCSR = Words + 1 /\ DCRDR = Words + 2 /\ DCRSR = Words + 3
  /\ DHCSR \in Memory /\ DCRDR \in Memory /\ DCRSR \in Memory
  /\ \A i \in Code : i \in Memory /\ i \in Nat /\ i <= Words
  /\ \A c \in WriteCalls : Target(c) \in {DHCSR, DCRDR, DCRSR}
  /\ Target(5) = DHCSR /\ Target(8) = DCRDR /\ Target(9) = DCRSR
  /\ Target(12) = DCRDR /\ Target(13) = DCRSR /\ Target(15) = DHCSR
  /\ Sends(5) = Halt /\ Sends(8) = Entry /\ Sends(9) = Pc
  /\ Sends(12) = Return /\ Sends(13) = Lr /\ Sends(15) = Run
<1>1. /\ Halt = 7 /\ Run = 8 /\ Pc = 9 /\ Lr = 10 /\ Entry = 11 /\ Return = 12 /\ Unknown = 0
      /\ Csw = 5 /\ CswInc = 6
      /\ DHCSR = Words + 1 /\ DCRDR = Words + 2 /\ DCRSR = Words + 3
  BY DEF Halt, Run, Pc, Lr, Entry, Return, Unknown, Csw, CswInc, DHCSR, DCRDR, DCRSR
<1>2. /\ DHCSR \in Memory /\ DCRDR \in Memory /\ DCRSR \in Memory
      /\ \A i \in Code : i \in Memory /\ i \in Nat /\ i <= Words
  BY <1>1, SwdConstants
<1>3. /\ \A c \in WriteCalls : Target(c) \in {DHCSR, DCRDR, DCRSR}
      /\ Target(5) = DHCSR /\ Target(8) = DCRDR /\ Target(9) = DCRSR
      /\ Target(12) = DCRDR /\ Target(13) = DCRSR /\ Target(15) = DHCSR
  BY DEF Target, WriteCalls
<1>4. /\ Sends(5) = Halt /\ Sends(8) = Entry /\ Sends(9) = Pc
      /\ Sends(12) = Return /\ Sends(13) = Lr /\ Sends(15) = Run
  BY DEF Sends
<1> QED
  BY <1>1, <1>2, <1>3, <1>4

LEMMA WordTaken ==
  ASSUME NEW a, TakenFrom(a), call \in WriteCalls, step = 4
  PROVE  /\ ErrInv' /\ PortInv' /\ MemInv' /\ ArrayInv' /\ CleanInv' /\ RegsInv' /\ CoreInv'
         /\ ReportIsTrue' /\ ReleasedIsComplete'
<1> DEFINE T == Target(call)
           S == Sends(call)
<1>1. /\ call' = call /\ SwdTypeOK /\ dap \in DapType /\ PacketOK(Packet)
      /\ HostInv /\ Sending /\ Onward(a) /\ ~Faulted(Packet) /\ (Missed => Missed')
      /\ MemInv /\ ArrayInv /\ CoreInv /\ ReleasedIsComplete /\ PortInv /\ CleanInv /\ RegsInv
      /\ call \in 5..15 /\ call # Array
  BY TakenIs, MainCalls DEF TakenFrom, Array
<1>2. Packet.op = "W" /\ Packet.reg = "DRW" /\ Packet.val = S
  BY WritePackets DEF W
<1>3. dap' = Written(Packet) /\ a = ACK /\ (Early(Packet) => lost' # {})
  BY <1>2 DEF TakenFrom, Taken
<1>4. ~Stuck /\ dap.sel = "MEM" /\ dap.tar = T
  <2>1. ~Stuck
    BY <1>1, <1>2, NotFaulted
  <2> QED
    BY <1>1, <2>1 DEF MemInv
<1>5. dap' = MemWritten(S)
  BY <1>1, <1>2, <1>3, <1>4, WrittenIs
<1>6. T \in {DHCSR, DCRDR, DCRSR} /\ T \in Memory /\ T \notin Code
  BY Sent, SwdConstants
<1>7. lost' = {} => dap.xfer = Unknown
  BY <1>2, <1>3, <1>4, <1>6 DEF Early
<1>8. step' = 5 /\ result' = NONE
  <2>1. Length(call) = 5 /\ call # Clearing
    BY <1>1, Musts DEF Clearing
  <2> QED
    BY <1>1, <1>3, <2>1 DEF Onward, Forth, Out
<1>9. \/ /\ dap.csw \in {Csw, CswInc}
         /\ dap'.mem = [dap.mem EXCEPT ![T] = S]
         /\ dap'.xfer = IF T = DCRSR /\ dap.mem[DHCSR] = Halt THEN S ELSE dap.xfer
         /\ dap'.sticky = dap.sticky /\ dap'.csw = dap.csw /\ dap'.regs = dap.regs
         /\ dap'.sel = dap.sel
      \/ dap' = dap /\ ~(dap.csw \in {Csw, CswInc})
  BY <1>1, <1>4, <1>5, <1>6, MemWrittenIs
<1>10. dap'.sticky = dap.sticky /\ dap'.csw = dap.csw /\ dap'.sel = dap.sel
  BY <1>9
<1>11. ErrInv'
  BY <1>1, <1>10, ErrKept DEF Powering
<1>12. Missed \/ dap.csw \in {Csw, CswInc}
  BY <1>1, <1>4 DEF PortInv, Loading, Stuck
<1>13. PortInv'
  <2>1. Missed' \/ dap'.csw \in {Csw, CswInc}
    BY <1>1, <1>10, <1>12
  <2>2. call # Loading
    BY <1>1 DEF Loading
  <2> QED
    BY <1>1, <2>1, <2>2 DEF PortInv, Missed, Loading, WDATA, Csw, CswInc
<1>14. ArrayInv'
  BY <1>1 DEF ArrayInv, Array
<1>15. ReportIsTrue'
  BY <1>8 DEF ReportIsTrue, ACK, NONE
<1>16. CASE dap.csw \notin {Csw, CswInc}
  <2>1. Missed' /\ dap' = dap /\ lost' # {}
    BY <1>1, <1>9, <1>12, <1>16 DEF Missed
  <2>2. MemInv'
    <3>1. dap'.sel = "MEM" /\ step' # 4
      BY <1>4, <1>8, <1>10
    <3> QED
      BY <2>1, <3>1 DEF MemInv, Stuck, Missed
  <2>3. CleanInv' /\ RegsInv'
    BY <2>1 DEF CleanInv, RegsInv, Clean
  <2>4. CoreInv' /\ ReleasedIsComplete'
    BY <1>1, <2>1, RunKept
  <2> QED
    BY <1>11, <1>13, <1>14, <1>15, <2>2, <2>3, <2>4
<1>17. CASE dap.csw \in {Csw, CswInc}
  <2>1. /\ dap'.mem = [dap.mem EXCEPT ![T] = S]
        /\ dap'.xfer = IF T = DCRSR /\ dap.mem[DHCSR] = Halt THEN S ELSE dap.xfer
        /\ dap'.regs = dap.regs /\ dap.mem \in [Memory -> Value]
    BY <1>1, <1>9, <1>17, DapFields
  <2>2. /\ dap'.mem[T] = S
        /\ \A m \in Memory : m # T => dap'.mem[m] = dap.mem[m]
        /\ \A i \in Code : dap'.mem[i] = dap.mem[i]
    BY <1>6, <2>1, Sent
  <2>3. MemInv'
    <3>1. dap'.sel = "MEM" /\ step' # 4
      BY <1>4, <1>8, <1>10
    <3>2. dap'.mem[Target(call)] = Sends(call)
      BY <2>2
    <3> QED
      BY <1>1, <3>1, <3>2 DEF MemInv, Stuck, Missed, Target, Sends,
         DHCSR, DCRDR, DCRSR, Halt, Run, Entry, Return, Pc, Lr
  <2>4. /\ \A c \in {5, 8, 9, 12, 13, 15} : After(c, 4)' <=> call >= c
        /\ \A c \in {5, 8, 9, 12, 13, 15} : After(c, 4) <=> call > c
        /\ call \in {5, 8, 9, 12, 13, 15}
    <3>1. call \in {5, 8, 9, 12, 13, 15}
      BY DEF WriteCalls
    <3>2. ASSUME NEW c \in {5, 8, 9, 12, 13, 15}
          PROVE  (After(c, 4)' <=> call >= c) /\ (After(c, 4) <=> call > c)
      BY <1>1, <1>8, <3>1, <3>2 DEF After
    <3> QED
      BY <3>1, <3>2
  <2>5. dap'.mem[DHCSR] = Run => call = 15
    <3> SUFFICES ASSUME dap'.mem[DHCSR] = Run, call # 15  PROVE FALSE
      OBVIOUS
    <3>1. CASE call = 5
      BY <2>2, <3>1, Sent
    <3>2. CASE call # 5
      <4>1. T # DHCSR
        <5>1. call \in {8, 9, 12, 13}
          BY <2>4, <3>2
        <5>2. T \in {DCRDR, DCRSR}
          BY <5>1, Sent
        <5>3. DHCSR # DCRDR /\ DHCSR # DCRSR
          BY SwdConstants DEF DHCSR, DCRDR, DCRSR
        <5> QED
          BY <5>2, <5>3
      <4>2. dap.mem[DHCSR] = Run
        BY <2>2, <4>1, Sent
      <4>3. call > 15
        BY <1>1, <2>4, <4>2 DEF CoreInv
      <4> QED
        BY <1>1, <4>3
    <3> QED
      BY <3>1, <3>2
  <2>6. lost' = {} => Clean /\ lost = {}
    BY <1>1, <1>4, Going DEF Clean, Loading
  <2>7. CoreInv'
    <3> SUFFICES ASSUME dap'.mem[DHCSR] = Run
                 PROVE  After(15, 4)' /\ (lost' = {} => dap'.xfer = Unknown)
      BY DEF CoreInv, DHCSR, Run, Unknown
    <3>1. call = 15
      BY <2>5
    <3>2. T # DCRSR
      BY <3>1, Sent, SwdConstants
    <3> QED
      BY <1>7, <2>1, <2>4, <3>1, <3>2
  <2>8. ReleasedIsComplete'
    <3> SUFFICES ASSUME dap'.mem[DHCSR] = Run, lost' = {}
                 PROVE  /\ \A i \in Code : dap'.mem[i] = Word(i)
                        /\ dap'.regs[Pc] = Entry /\ dap'.regs[Lr] = Return
      BY DEF ReleasedIsComplete, DHCSR, Run, Pc, Lr, Entry, Return, Code, Word
    <3>1. call = 15 /\ Clean /\ dap.xfer = Unknown
      BY <1>7, <2>5, <2>6
    <3>2. \A i \in Code : dap.mem[i] = Word(i)
      BY <1>1, <3>1 DEF CleanInv, Array
    <3>3. After(12, 4) /\ After(13, 4)
      BY <2>4, <3>1
    <3>4. dap.regs[Pc] = Entry /\ dap.regs[Lr] = Return
      BY <1>1, <3>1, <3>3, Sent DEF RegsInv
    <3> QED
      BY <2>1, <2>2, <3>2, <3>4
  <2>9. CleanInv'
    <3> SUFFICES ASSUME Clean'
                 PROVE  /\ result' \in {NONE, ACK}
                        /\ call > Loading => dap'.csw = Csw
                        /\ After(5, 4)' /\ ~After(15, 4)' => dap'.mem[DHCSR] = Halt
                        /\ call > Array => \A i \in Code : dap'.mem[i] = Word(i)
      BY <1>1 DEF CleanInv, Loading, Array, Csw, CswInc, NONE, ACK, DHCSR, Halt, Code, Word
    <3>1. Clean
      BY <2>6 DEF Clean
    <3>2. call > Loading => dap.csw = Csw
      BY <1>1, <3>1 DEF CleanInv
    <3>3. call > Array => \A i \in Code : dap.mem[i] = Word(i)
      BY <1>1, <3>1 DEF CleanInv
    <3>4. call # 15 => dap'.mem[DHCSR] = Halt
      <4>1. CASE call = 5
        BY <2>2, <4>1, Sent
      <4>2. CASE call \in {8, 9, 12, 13}
        <5>1. After(5, 4) /\ ~After(15, 4)
          BY <2>4, <4>2
        <5>2. dap.mem[DHCSR] = Halt
          BY <1>1, <3>1, <5>1 DEF CleanInv
        <5>3. T # DHCSR
          <6>1. T \in {DCRDR, DCRSR}
            BY <4>2, Sent
          <6>2. DHCSR # DCRDR /\ DHCSR # DCRSR
            BY SwdConstants DEF DHCSR, DCRDR, DCRSR
          <6> QED
            BY <6>1, <6>2
        <5> QED
          BY <2>2, <5>2, <5>3, Sent
      <4> QED
        BY <2>4, <4>1, <4>2
    <3> QED
      BY <1>8, <1>10, <2>2, <2>4, <3>2, <3>3, <3>4
  <2>10. RegsInv'
    <3> SUFFICES ASSUME Clean'
        PROVE  /\ call \in {8, 9} => dap'.mem[DCRDR] = Entry
               /\ call = 9 =>
                    dap'.xfer = Pc \/ (dap'.xfer = Unknown /\ dap'.regs[Pc] = Entry)
               /\ call >= 12 => dap'.mem[DCRDR] = Return /\ dap'.regs[Pc] = Entry
               /\ call = 12 => dap'.xfer = Unknown
               /\ call >= 13 =>
                    dap'.xfer = Lr \/ (dap'.xfer = Unknown /\ dap'.regs[Lr] = Return)
               /\ call = 15 => dap'.xfer = Unknown
      BY <2>4 DEF RegsInv, DCRDR, Entry, Pc, Lr, Unknown, Return
    <3>1. Clean /\ dap.xfer = Unknown /\ RegsInv /\ CleanInv
      BY <1>1, <1>7, <2>6 DEF Clean
    <3>2. CASE call = 5
      BY <3>2
    <3>3. CASE call = 8
      BY <2>2, <3>3, Sent
    <3>4. CASE call = 9
      <4>1. dap.mem[DCRDR] = Entry /\ dap.mem[DHCSR] = Halt
        BY <2>4, <3>1, <3>4 DEF RegsInv, CleanInv
      <4>2. T = DCRSR /\ S = Pc /\ DCRDR # T
        BY <3>4, Sent, SwdConstants
      <4>3. dap'.mem[DCRDR] = Entry
        BY <2>2, <4>1, <4>2, Sent
      <4> QED
        BY <2>1, <3>4, <4>1, <4>2, <4>3
    <3>5. CASE call = 12
      <4>1. dap.regs[Pc] = Entry
        <5>1. After(9, 4) /\ ~After(12, 4)
          BY <2>4, <3>5
        <5> QED
          BY <3>1, <5>1, Sent DEF RegsInv
      <4>2. T = DCRDR /\ S = Return /\ DCRSR # T
        BY <3>5, Sent, SwdConstants
      <4> QED
        BY <2>1, <2>2, <3>1, <3>5, <4>1, <4>2
    <3>6. CASE call = 13
      <4>1. dap.regs[Pc] = Entry /\ dap.mem[DCRDR] = Return /\ dap.mem[DHCSR] = Halt
        BY <2>4, <3>1, <3>6 DEF RegsInv, CleanInv
      <4>2. T = DCRSR /\ S = Lr /\ DCRDR # T
        BY <3>6, Sent, SwdConstants
      <4> QED
        BY <2>1, <2>2, <3>1, <3>6, <4>1, <4>2, Sent
    <3>7. CASE call = 15
      <4>1. After(12, 4) /\ After(13, 4)
        BY <2>4, <3>7
      <4>2. dap.regs[Pc] = Entry /\ dap.mem[DCRDR] = Return /\ dap.regs[Lr] = Return
        BY <3>1, <4>1, Sent DEF RegsInv
      <4>3. T = DHCSR /\ DCRDR # T /\ DCRSR # T
        BY <3>7, Sent, SwdConstants
      <4> QED
        BY <2>1, <2>2, <3>1, <3>7, <4>2, <4>3, Sent
    <3> QED
      BY <2>4, <3>2, <3>3, <3>4, <3>5, <3>6, <3>7
  <2> QED
    BY <1>11, <1>13, <1>14, <1>15, <2>3, <2>7, <2>8, <2>9, <2>10
<1> QED
  BY <1>16, <1>17

(***************************************************************************)
(* The rest of swd_write_array: the width and the increment of CSW, the    *)
(* words, and CSW as it was.                                               *)
(***************************************************************************)
LEMMA ArrayRest ==
  ASSUME SwdTypeOK, call = Array, call' = call, dap'.mem[DHCSR] # Run
  PROVE  RegsInv' /\ CoreInv' /\ ReleasedIsComplete'
<1>1. \A c \in {8, 9, 12, 13, 15} : ~After(c, 4)'
  BY DEF After, Array
<1> QED
  BY <1>1 DEF RegsInv, CoreInv, ReleasedIsComplete, DHCSR, Run

LEMMA ArrayClean ==
  ASSUME NEW a, TakenFrom(a), call = Array, dap'.sticky = dap.sticky, dap'.mem[DHCSR] = dap.mem[DHCSR],
         Clean /\ CleanInv =>
           /\ step' > 6 /\ result' = NONE => dap'.csw = CswInc
           /\ ~(step' > 6 /\ result' = NONE) => dap'.csw = Csw
           /\ step' > 5 => data' = Csw
  PROVE  CleanInv'
<1> SUFFICES ASSUME Clean'
             PROVE  /\ result' \in {NONE, ACK}
                    /\ step' > 6 /\ result' = NONE => dap'.csw = CswInc
                    /\ ~(step' > 6 /\ result' = NONE) => dap'.csw = Csw
                    /\ step' > 5 => data' = Csw
                    /\ dap'.mem[DHCSR] = Halt
  BY TakenIs DEF CleanInv, Loading, Array, Csw, CswInc, NONE, ACK, DHCSR, Halt, Code, Word
<1>1. Clean /\ CleanInv /\ result' \in {NONE, ACK}
  BY CleanBefore DEF TakenFrom, Array, Loading
<1>2. After(5, 4) /\ ~After(15, 4)
  BY DEF After, Array
<1>3. dap.mem[DHCSR] = Halt
  BY <1>1, <1>2 DEF CleanInv
<1> QED
  BY <1>1, <1>3

LEMMA ArrayTaken ==
  ASSUME NEW a, TakenFrom(a), call = Array, step > 3
  PROVE  /\ ErrInv' /\ PortInv' /\ MemInv' /\ ArrayInv' /\ CleanInv' /\ RegsInv' /\ CoreInv'
         /\ ReportIsTrue' /\ ReleasedIsComplete'
<1>1. /\ call' = call /\ SwdTypeOK /\ dap \in DapType /\ PacketOK(Packet)
      /\ HostInv /\ Sending /\ Onward(a) /\ ~Faulted(Packet) /\ (Missed => Missed')
      /\ MemInv /\ ArrayInv /\ CoreInv /\ PortInv /\ CleanInv
      /\ result = NONE /\ step \in Nat /\ step \in 1..(Words + 7)
  BY TakenIs, Going, Musts DEF TakenFrom
<1>2. /\ Forth(a) \/ Out(a)
      /\ Length(call) = Words + 7 /\ call # Clearing
  BY <1>1, Musts DEF Onward, Array, Clearing
<1>3. dap.mem[DHCSR] # Run
  <2>1. ~After(15, 4)
    BY DEF After, Array
  <2> QED
    BY <1>1, <2>1 DEF CoreInv
<1>4. ASSUME dap'.sticky = dap.sticky  PROVE ErrInv'
  BY <1>4, ErrKept DEF Powering, Array
<1>5. ~Stuck
  <2>1. step \in {4, 5, 6} \/ step - 6 \in Code \/ step = Words + 7
    BY <1>1, SwdConstants
  <2>2. Packet \in {R("CSW", FALSE), R("RD_BUFF", TRUE), W("CSW", OrInc(data), FALSE),
                    W("DRW", Word(step - 6), FALSE), W("CSW", data, TRUE)}
    BY <1>1, <2>1, ArrayPackets
  <2>3. \/ Packet.op = "R" /\ Packet.reg \in {"CSW", "RD_BUFF"}
        \/ Packet.op = "W" /\ Packet.reg \in {"CSW", "DRW"}
    BY <2>2 DEF R, W
  <2> QED
    BY <1>1, <2>3, NotFaulted
<1>6. dap.sel = "MEM"
  BY <1>1, <1>5 DEF MemInv
<1>7. Missed \/ dap.csw \in {Csw, CswInc}
  BY <1>1, <1>5 DEF PortInv, Loading, Array, Stuck
<1>8. ASSUME dap'.sel = "MEM"  PROVE MemInv'
  BY <1>1, <1>8 DEF MemInv, Array, WriteCalls, ReadCalls
<1>9. ASSUME Missed' \/ dap'.csw \in {Csw, CswInc}  PROVE PortInv'
  BY <1>1, <1>9 DEF PortInv, Missed, Loading, Array, WDATA, Csw, CswInc
<1>10. ASSUME Packet.reg # "DRW" => dap'.mem = dap.mem  PROVE ReportIsTrue'
  BY <1>1, <1>10, Reported
<1>11. CASE step = 4
  <2>1. Packet.op = "R" /\ Packet.reg = "CSW" /\ ~Packet.must
    BY <1>11, <1>1, ArrayPackets DEF R
  <2>2. dap' = ReadDone(Packet)
    BY <2>1 DEF TakenFrom, Taken
  <2>3. /\ dap'.sticky = dap.sticky /\ dap'.sel = dap.sel /\ dap'.csw = dap.csw
        /\ dap'.mem = dap.mem /\ dap'.xfer = dap.xfer /\ dap'.regs = dap.regs
        /\ dap'.tar = dap.tar /\ dap'.rdbuff = dap.csw
    BY <1>1, <1>6, <2>1, <2>2, ReadDoneIs
  <2>4. step' = 5 /\ result' = NONE
    BY <1>2, <1>11, <2>1, SwdConstants DEF Forth, Out
  <2>5. ArrayInv'
    <3>1. dap.tar = 1
      BY <1>1, <1>5, <1>11 DEF ArrayInv
    <3> QED
      BY <1>1, <2>3, <2>4, <3>1 DEF ArrayInv, Array, Missed, Stuck
  <2>6. CleanInv'
    BY <2>3, <2>4, CleanKept DEF Array, Loading, WriteCalls
  <2> QED
    BY <1>1, <1>3, <1>4, <1>6, <1>7, <1>8, <1>9, <1>10, <2>3, <2>5, <2>6, ArrayRest
<1>12. CASE step = 5
  <2>1. Packet.op = "R" /\ Packet.reg = "RD_BUFF" /\ Packet.must
    BY <1>12, <1>1, ArrayPackets DEF R
  <2>2. dap' = ReadDone(Packet) /\ (a = ACK => data' = ReadValue(Packet))
    BY <2>1 DEF TakenFrom, Taken, ACK, WAIT
  <2>3. dap' = dap
    BY <1>1, <2>1, <2>2, ReadDoneIs
  <2>4. ReadValue(Packet) = dap.rdbuff
    BY <2>1 DEF ReadValue
  <2>5. \/ step' = 6 /\ result' = NONE /\ data' = dap.rdbuff
        \/ step' = 5 /\ result' = a /\ result' # NONE
    BY <1>1, <1>2, <1>12, <2>1, <2>2, <2>4, Going DEF Forth, Out
  <2>6. Missed \/ dap.rdbuff = dap.csw
    BY <1>1, <1>5, <1>12 DEF ArrayInv
  <2>7. ArrayInv'
    <3>1. dap.tar = 1
      BY <1>1, <1>5, <1>12 DEF ArrayInv
    <3>2. step' \in {5, 6} /\ ~(step' > 6)
      BY <2>5
    <3>3. step' > 5 => Missed' \/ data' \in {Csw, CswInc}
      BY <1>1, <1>7, <2>5, <2>6
    <3>4. Missed' \/ dap'.rdbuff = dap'.csw
      BY <1>1, <2>3, <2>6
    <3> QED
      BY <1>1, <2>3, <3>1, <3>2, <3>3, <3>4 DEF ArrayInv, Array, Missed, Stuck, Csw, CswInc
  <2>8. CleanInv'
    <3>1. ASSUME Clean, CleanInv
          PROVE  dap.csw = Csw /\ dap.rdbuff = Csw
      <4>1. dap.csw = Csw
        BY <1>12, <3>1 DEF CleanInv, Array, Loading
      <4>2. ~Missed
        BY <3>1 DEF Clean, Missed
      <4> QED
        BY <2>6, <4>1, <4>2
    <3>2. ~(step' > 6) /\ (step' > 5 => data' = dap.rdbuff)
      BY <2>5
    <3> QED
      BY <2>3, <3>1, <3>2, ArrayClean
  <2> QED
    BY <1>1, <1>3, <1>4, <1>6, <1>7, <1>8, <1>9, <1>10, <2>3, <2>7, <2>8, ArrayRest
<1>13. CASE step = 6
  <2>1. Packet.op = "W" /\ Packet.reg = "CSW" /\ Packet.val = OrInc(data) /\ ~Packet.must
    BY <1>13, <1>1, ArrayPackets DEF W
  <2>2. dap' = Written(Packet) /\ data' = data
    BY <2>1 DEF TakenFrom, Taken
  <2>3. /\ dap'.sticky = dap.sticky /\ dap'.sel = dap.sel /\ dap'.csw = OrInc(data)
        /\ dap'.mem = dap.mem /\ dap'.xfer = dap.xfer /\ dap'.regs = dap.regs
        /\ dap'.tar = dap.tar
    BY <1>1, <1>6, <2>1, <2>2, WrittenIs
  <2>4. step' = 7 /\ result' = NONE
    BY <1>2, <1>13, <2>1, SwdConstants DEF Forth, Out
  <2>5. Missed \/ data \in {Csw, CswInc}
    BY <1>1, <1>5, <1>13 DEF ArrayInv
  <2>6. data \in {Csw, CswInc} => OrInc(data) = CswInc
    BY DEF OrInc
  <2>7. ArrayInv'
    <3>1. dap.tar = 1
      BY <1>1, <1>5, <1>13 DEF ArrayInv
    <3>2. Missed' \/ data' \in {Csw, CswInc}
      BY <1>1, <2>2, <2>5
    <3>3. Missed' \/ (dap'.csw = CswInc /\ dap'.tar = step' - 6)
      BY <1>1, <2>3, <2>4, <2>5, <2>6, <3>1
    <3>4. 1..(step' - 7) = {} /\ step' # 5
      BY <2>4
    <3> QED
      BY <1>1, <2>3, <2>4, <3>1, <3>2, <3>3, <3>4 DEF ArrayInv, Array, Missed, Stuck, Csw, CswInc
  <2>8. CleanInv'
    <3>1. Clean /\ CleanInv => data = Csw
      BY <1>13 DEF CleanInv
    <3> QED
      BY <2>2, <2>3, <2>4, <2>6, <3>1, ArrayClean
  <2> QED
    BY <1>1, <1>3, <1>4, <1>6, <1>8, <1>9, <1>10, <2>3, <2>5, <2>6, <2>7, <2>8, ArrayRest
<1>14. CASE step - 6 \in Code
  <2> DEFINE i == step - 6
  <2>0. /\ i \in Code /\ i \in Int /\ i >= 1 /\ i <= Words /\ step = i + 6 /\ i \in Memory
        /\ i # DHCSR
    BY <1>1, <1>14, SwdConstants, Sent
  <2>1. Packet.op = "W" /\ Packet.reg = "DRW" /\ Packet.val = Word(i) /\ ~Packet.must
    BY <1>14, <1>1, ArrayPackets DEF W
  <2>2. dap' = Written(Packet) /\ data' = data
    BY <2>1 DEF TakenFrom, Taken
  <2>3. dap' = MemWritten(Word(i))
    BY <1>1, <1>6, <2>1, <2>2, WrittenIs
  <2>4. step' = step + 1 /\ result' = NONE
    BY <1>2, <2>0, <2>1, SwdConstants DEF Forth, Out
  <2> HIDE DEF i
  <2>5. \/ /\ dap.csw \in {Csw, CswInc} /\ dap.tar \in Memory
           /\ dap'.mem = [dap.mem EXCEPT ![dap.tar] = Word(i)] /\ dap'.tar = NextTar
           /\ dap'.sticky = dap.sticky /\ dap'.csw = dap.csw
           /\ dap'.sel = dap.sel
        \/ dap' = dap /\ ~(dap.csw \in {Csw, CswInc} /\ dap.tar \in Memory)
    BY <1>1, <2>3, MemWrittenIs
  <2>6. dap'.sticky = dap.sticky /\ dap'.csw = dap.csw /\ dap'.sel = dap.sel
    BY <2>5
  <2>7. step > 6 /\ step \in Nat /\ Word(i) # Run /\ dap.mem \in [Memory -> Value]
    <3>1. step > 6 /\ step \in Nat
      BY <1>1, <2>0
    <3>2. Word(i) = 12 + i /\ Run = 8
      BY <2>0, SwdConstants, Sent
    <3>3. Word(i) # Run
      BY <2>0, <3>2
    <3> QED
      BY <1>1, <3>1, <3>3, DapFields
  <2>8. dap'.mem[DHCSR] # Run
    BY <1>3, <2>5, <2>7, Sent
  <2>9. /\ Missed \/ data \in {Csw, CswInc}
        /\ \/ Missed
           \/ dap.csw = CswInc /\ dap.tar = i /\ \A j \in 1..(step - 7) : dap.mem[j] = Word(j)
    <3>1. step > 5 /\ step - 6 = i
      BY <2>7, <2>0
    <3> QED
      BY <1>1, <1>5, <2>7, <3>1 DEF ArrayInv
  <2>10. ASSUME ~Missed
         PROVE  /\ dap'.tar = step' - 6 /\ dap'.mem[DHCSR] = dap.mem[DHCSR]
                /\ \A j \in 1..(step' - 7) : dap'.mem[j] = Word(j)
    <3>1. dap.csw = CswInc /\ dap.tar = i /\ \A j \in 1..(step - 7) : dap.mem[j] = Word(j)
      BY <2>9, <2>10
    <3>2. dap'.mem = [dap.mem EXCEPT ![i] = Word(i)] /\ dap'.tar = i + 1
      BY <2>0, <2>5, <3>1 DEF NextTar
    <3>3. ASSUME NEW j \in 1..(step' - 7)  PROVE dap'.mem[j] = Word(j)
      <4>1. j \in Memory /\ (j = i \/ j \in 1..(step - 7))
        BY <2>0, <2>4, <3>3, SwdConstants
      <4> QED
        BY <2>7, <3>1, <3>2, <4>1
    <3> QED
      BY <2>0, <2>4, <2>7, <3>2, <3>3, Sent
  <2>11. ArrayInv'
    <3>1. step' \notin 4..7 /\ step' # 5
      BY <2>4, <2>7
    <3>2. Missed' \/ data' \in {Csw, CswInc}
      BY <1>1, <2>2, <2>9
    <3>3. Missed' \/ (/\ dap'.csw = CswInc /\ dap'.tar = step' - 6
                      /\ \A j \in 1..(step' - 7) : dap'.mem[j] = Word(j))
      BY <1>1, <2>6, <2>9, <2>10
    <3> QED
      BY <1>1, <3>1, <3>2, <3>3 DEF ArrayInv, Array, Missed, Stuck, Csw, CswInc, Word
  <2>12. CleanInv'
    <3>1. step > 5 /\ step' > 6
      BY <2>4, <2>7
    <3>2. ASSUME Clean, CleanInv  PROVE dap.csw = CswInc /\ data = Csw
      BY <1>1, <2>7, <3>1, <3>2 DEF CleanInv, Array, Loading
    <3>3. CASE Missed
      <4>1. ~Clean'
        BY <1>1, <3>3 DEF Clean, Missed
      <4> QED
        BY <4>1 DEF CleanInv
    <3>4. CASE ~Missed
      BY <2>2, <2>4, <2>6, <2>10, <3>1, <3>2, <3>4, ArrayClean
    <3> QED
      BY <3>3, <3>4
  <2> QED
    BY <1>1, <1>4, <1>6, <1>7, <1>8, <1>9, <1>10, <2>1, <2>6, <2>8, <2>11, <2>12, ArrayRest
<1>15. CASE step = Words + 7
  <2>1. Packet.op = "W" /\ Packet.reg = "CSW" /\ Packet.val = data
    BY <1>15, <1>1, ArrayPackets DEF W
  <2>2. dap' = Written(Packet) /\ data' = data
    BY <2>1 DEF TakenFrom, Taken
  <2>3. /\ dap'.sticky = dap.sticky /\ dap'.sel = dap.sel /\ dap'.csw = data
        /\ dap'.mem = dap.mem /\ dap'.xfer = dap.xfer /\ dap'.regs = dap.regs
    BY <1>1, <1>6, <2>1, <2>2, WrittenIs
  <2>4. step' = step /\ result' # NONE /\ step > 6 /\ step > 5 /\ step > 7
    BY <1>1, <1>2, <1>15, Going, SwdConstants DEF Forth, Out
  <2>5. /\ Missed \/ data \in {Csw, CswInc}
        /\ Missed \/ \A j \in 1..(step - 7) : dap.mem[j] = Word(j)
    BY <1>1, <1>5, <2>4 DEF ArrayInv
  <2>6. ArrayInv'
    <3>1. step' # 5 /\ step' \notin 4..7
      BY <1>1, <2>4
    <3>2. /\ Missed' \/ data' \in {Csw, CswInc}
          /\ Missed' \/ \A j \in 1..(step' - 7) : dap'.mem[j] = Word(j)
      BY <1>1, <2>2, <2>3, <2>4, <2>5
    <3> QED
      BY <1>1, <2>4, <3>1, <3>2 DEF ArrayInv, Array, Missed, Stuck, Csw, CswInc, Word, NONE
  <2>7. CleanInv'
    <3>1. Clean /\ CleanInv => data = Csw
      BY <2>4 DEF CleanInv
    <3> QED
      BY <2>2, <2>3, <2>4, <3>1, ArrayClean
  <2> QED
    BY <1>1, <1>3, <1>4, <1>6, <1>8, <1>9, <1>10, <2>3, <2>5, <2>6, <2>7, ArrayRest
<1>16. step \in {4, 5, 6} \/ step - 6 \in Code \/ step = Words + 7
  BY <1>1, SwdConstants
<1> QED
  BY <1>11, <1>12, <1>13, <1>14, <1>15, <1>16

(***************************************************************************)
(* The attempts to send a packet.                                          *)
(***************************************************************************)
LEMMA AllTaken ==
  ASSUME NEW a, TakenFrom(a)
  PROVE  /\ ErrInv' /\ PortInv' /\ MemInv' /\ ArrayInv' /\ CleanInv' /\ RegsInv' /\ CoreInv'
         /\ ReportIsTrue' /\ ReleasedIsComplete'
<1>1. SwdTypeOK /\ HostInv /\ Sending /\ call \in 1..15 /\ step \in Nat /\ step >= 1
  BY TakenIs, Going
<1>2. CASE call < Loading
  BY <1>2, ConnectTaken
<1>3. CASE call = Loading
  BY <1>3, PreludeTaken
<1>4. CASE call \in WriteCalls \cup ReadCalls
  <2>1. step \in {1, 2, 3, 4, 5}
    BY <1>1, <1>4, Musts
  <2>2. CASE step \in {1, 2, 3}
    BY <1>4, <2>2, SetupTaken
  <2>3. CASE step = 4 /\ call \in WriteCalls
    BY <2>3, WordTaken
  <2>4. CASE step \in {4, 5} /\ (call \in WriteCalls => step = 5)
    BY <1>4, <2>4, ReadTaken
  <2> QED
    BY <2>1, <2>2, <2>3, <2>4
<1>5. CASE call = Array
  <2>1. CASE step > 3
    BY <1>5, <2>1, ArrayTaken
  <2>2. CASE ~(step > 3)
    <3>1. step \in {1, 2, 3}
      BY <1>1, <2>2
    <3> QED
      BY <1>5, <3>1, SetupTaken
  <2> QED
    BY <2>1, <2>2
<1> QED
  BY <1>1, <1>2, <1>3, <1>4, <1>5, MainCalls DEF Loading, Array

(* What all of them have in common. *)
Attempt(a) ==
  /\ Sending /\ a \in Answer /\ Proceed(a) /\ FlagsKept
  /\ data' \in Value /\ dap' \in DapType /\ faults' \in 0..MaxFaults
  /\ lost \subseteq lost' /\ lost' \subseteq {"missed", "parity", "cleared", "early"}

LEMMA Attempted ==
  ASSUME SwdTypeOK, HostInv, NEW a, Attempt(a)
  PROVE  Onward(a) /\ SwdTyped' /\ HostInv'
<1>1. /\ HostInv' /\ call' = call /\ step' \in 1..(Words + 7) /\ tries' \in 0..MaxFail
      /\ result' \in Answer \cup {NONE}
      /\ Forth(a) \/ Out(a)
  BY Moving DEF Attempt
<1>2. SwdTypeOK'
  BY <1>1 DEF SwdTypeOK, Attempt, FlagsKept, DapType, Value, Answer, NONE, ACK, WAIT, FAULT, MUTE,
     WDATA, ERR, Memory, Word, Done
<1> QED
  BY <1>1, <1>2 DEF Onward, Attempt, SwdTyped, DapType, Value, WDATA, ERR, Memory, Word, Pc, Lr

LEMMA SwdFacts ==
  ASSUME SwdInv, Sending
  PROVE  /\ SwdTypeOK /\ dap \in DapType /\ HostInv /\ PacketOK(Packet)
         /\ data \in Value /\ flags \subseteq {WDATA, ERR} /\ faults \in 0..MaxFaults
         /\ lost \subseteq {"missed", "parity", "cleared", "early"}
         /\ Packet.op \in {"R", "W"}
         /\ call = Clearing /\ Packet.op = "R" => step = 1
<1>1. SwdTypeOK /\ dap \in DapType /\ HostInv
  BY DEF SwdInv, SwdTyped
<1>2. PacketOK(Packet) /\ step \in 1..Len(Program[call])
  BY <1>1, PacketIsOK
<1>3. call = Clearing /\ Packet.op = "R" => step = 1
  <2> HAVE call = Clearing /\ Packet.op = "R"
  <2>1. Len(Program[call]) = IF flags = {} THEN 1 ELSE 2
    BY ClearPackets
  <2>2. step = 1 \/ (step = 2 /\ flags # {})
    BY <1>2, <2>1
  <2>3. step = 2 /\ flags # {} => Packet.op = "W"
    BY ClearPackets DEF W
  <2> QED
    BY <2>2, <2>3
<1> QED
  BY <1>1, <1>2, <1>3 DEF SwdTypeOK, Value, PacketOK

LEMMA AcknowledgedKeeps ==
  ASSUME SwdInv, Acknowledged
  PROVE  SwdInv'
<1>0. Sending /\ ~Faulted(Packet) /\ Proceed(ACK)
  BY DEF Acknowledged
<1>1. /\ SwdTypeOK /\ dap \in DapType /\ HostInv /\ PacketOK(Packet)
      /\ data \in Value /\ flags \subseteq {WDATA, ERR} /\ faults \in 0..MaxFaults
      /\ lost \subseteq {"missed", "parity", "cleared", "early"}
      /\ Packet.op \in {"R", "W"}
      /\ call = Clearing /\ Packet.op = "R" => step = 1
  BY <1>0, SwdFacts
<1>2. /\ Packet.op = "W" => dap' = Written(Packet) /\ data' = data /\ flags' = flags
      /\ Packet.op = "R" => /\ dap' = ReadDone(Packet) /\ data' = ReadValue(Packet)
                            /\ flags' = IF call = Clearing THEN dap.sticky ELSE flags
      /\ lost' = lost \cup Forgotten(Packet)
      /\ faults' = faults
  BY <1>1 DEF Acknowledged
<1>3. dap' \in DapType /\ data' \in Value
  <2>1. CASE Packet.op = "W"
    BY <1>1, <1>2, <2>1, WrittenIs
  <2>2. CASE Packet.op = "R"
    BY <1>1, <1>2, <2>2, ReadDoneIs
  <2> QED
    BY <1>1, <2>1, <2>2
<1>4. FlagsKept
  BY <1>1, <1>2, DapFields DEF FlagsKept
<1>5. lost \subseteq lost' /\ lost' \subseteq {"missed", "parity", "cleared", "early"}
      /\ (Early(Packet) \/ Clears(Packet) => lost' # {})
  BY <1>1, <1>2 DEF Forgotten
<1>6. Attempt(ACK)
  BY <1>0, <1>1, <1>2, <1>3, <1>4, <1>5 DEF Attempt, Answer
<1>7. Onward(ACK) /\ SwdTyped' /\ HostInv'
  BY <1>1, <1>6, Attempted
<1>8. TakenFrom(ACK)
  BY <1>0, <1>2, <1>5, <1>7 DEF TakenFrom, Taken, SwdInv
<1> QED
  BY <1>7, <1>8, AllTaken DEF SwdInv

LEMMA ReadParityKeeps ==
  ASSUME SwdInv, ReadParity
  PROVE  SwdInv'
<1>0. Sending /\ ~Faulted(Packet) /\ Proceed(WAIT) /\ Packet.op = "R"
  BY DEF ReadParity, Fault
<1>1. /\ SwdTypeOK /\ dap \in DapType /\ HostInv /\ PacketOK(Packet)
      /\ data \in Value /\ flags \subseteq {WDATA, ERR} /\ faults \in 0..MaxFaults
      /\ lost \subseteq {"missed", "parity", "cleared", "early"}
  BY <1>0, SwdFacts
<1>2. /\ dap' = ReadDone(Packet) /\ data' \in {Unknown, RegReady} /\ flags' = flags
      /\ lost' = lost \cup {"parity"} /\ faults' \in 0..MaxFaults
  BY <1>1, SwdConstants DEF ReadParity, Fault
<1>3. dap' \in DapType /\ data' \in Value
  BY <1>0, <1>1, <1>2, ReadDoneIs, SwdConstants DEF Unknown, RegReady
<1>4. FlagsKept
  BY <1>1, <1>2 DEF FlagsKept
<1>5. lost \subseteq lost' /\ lost' \subseteq {"missed", "parity", "cleared", "early"} /\ lost' # {}
  BY <1>1, <1>2
<1>6. Attempt(WAIT)
  BY <1>0, <1>1, <1>2, <1>3, <1>4, <1>5 DEF Attempt, Answer
<1>7. Onward(WAIT) /\ SwdTyped' /\ HostInv'
  BY <1>1, <1>6, Attempted
<1>8. TakenFrom(WAIT)
  BY <1>0, <1>2, <1>3, <1>5, <1>7 DEF TakenFrom, Taken, SwdInv
<1> QED
  BY <1>7, <1>8, AllTaken DEF SwdInv

LEMMA NotTakenKeeps ==
  ASSUME SwdInv, Refused \/ GivenUp
  PROVE  SwdInv'
<1>1. PICK a \in {FAULT, WAIT, MUTE} :
        /\ Sending /\ Proceed(a) /\ dap' = dap /\ data' = data /\ flags' = flags
        /\ faults' = faults \/ (faults > 0 /\ faults' = faults - 1)
        /\ lost' = lost \/ lost' = lost \cup {"missed"}
        /\ Stuck \/ "missed" \in lost'
  <2>1. CASE Refused
    BY <2>1 DEF Refused, Faulted, Stuck
  <2>2. CASE GivenUp
    BY <2>2 DEF GivenUp, Fault
  <2> QED
    BY <2>1, <2>2
<1>2. /\ SwdTypeOK /\ dap \in DapType /\ HostInv
      /\ data \in Value /\ flags \subseteq {WDATA, ERR} /\ faults \in 0..MaxFaults
      /\ lost \subseteq {"missed", "parity", "cleared", "early"}
  BY <1>1, SwdFacts
<1>3. a \in Answer /\ a # ACK
  BY DEF Answer, ACK, FAULT, WAIT, MUTE
<1>4. faults' \in 0..MaxFaults
  <2>1. faults \in 0..MaxFaults /\ MaxFaults \in Nat
    BY <1>2, SwdConstants
  <2>2. faults' = faults \/ (faults > 0 /\ faults' = faults - 1)
    BY <1>1
  <2> QED
    BY <2>1, <2>2
<1>5. Attempt(a)
  BY <1>1, <1>2, <1>3, <1>4 DEF Attempt, FlagsKept
<1>6. Onward(a) /\ SwdTyped' /\ HostInv'
  BY <1>2, <1>5, Attempted
<1>7. CoreInv' /\ ReleasedIsComplete'
  BY <1>1, <1>2, <1>6, RunKept DEF SwdInv
<1>8. /\ ErrInv' /\ PortInv' /\ MemInv' /\ ArrayInv' /\ CleanInv' /\ RegsInv' /\ ReportIsTrue'
  BY <1>1, <1>2, <1>3, <1>6, NotTaken DEF SwdInv
<1> QED
  BY <1>6, <1>7, <1>8 DEF SwdInv

LEMMA MarkedKeeps ==
  ASSUME SwdInv, WriteParity \/ BusError
  PROVE  SwdInv'
<1>1. PICK f \in {WDATA, ERR} :
        /\ Sending /\ Proceed(ACK) /\ ~Faulted(Packet)
        /\ dap' = [dap EXCEPT !.sticky = @ \cup {f}] /\ data' = data /\ flags' = flags
        /\ faults > 0 /\ faults' = faults - 1
        /\ lost' = lost
        /\ f = WDATA => Packet.op = "W"
        /\ f = ERR => Packet.reg = "DRW"
  <2>1. CASE WriteParity
    BY <2>1 DEF WriteParity, Fault, WDATA, ERR
  <2>2. CASE BusError
    BY <2>2 DEF BusError, Fault, WDATA, ERR
  <2> QED
    BY <2>1, <2>2
<1>2. /\ SwdTypeOK /\ dap \in DapType /\ HostInv
      /\ data \in Value /\ flags \subseteq {WDATA, ERR} /\ faults \in 0..MaxFaults
      /\ lost \subseteq {"missed", "parity", "cleared", "early"}
  BY <1>1, SwdFacts
<1>3. dap' \in DapType
  BY <1>1, <1>2 DEF DapType
<1>4. faults' \in 0..MaxFaults
  <2>1. faults \in 0..MaxFaults /\ MaxFaults \in Nat
    BY <1>2, SwdConstants
  <2>2. faults' = faults \/ (faults > 0 /\ faults' = faults - 1)
    BY <1>1
  <2> QED
    BY <2>1, <2>2
<1>5. Attempt(ACK)
  BY <1>1, <1>2, <1>3, <1>4 DEF Attempt, FlagsKept, Answer
<1>6. Onward(ACK) /\ SwdTyped' /\ HostInv'
  BY <1>2, <1>5, Attempted
<1>7. /\ ErrInv' /\ PortInv' /\ MemInv' /\ ArrayInv' /\ CleanInv' /\ RegsInv' /\ CoreInv'
      /\ ReportIsTrue' /\ ReleasedIsComplete'
  <2>1. /\ SwdTyped /\ HostInv /\ ErrInv /\ PortInv /\ MemInv /\ ArrayInv /\ CoreInv
        /\ ReleasedIsComplete
    BY DEF SwdInv
  <2> QED
    BY <1>1, <1>6, <2>1, Marked
<1> QED
  BY <1>6, <1>7 DEF SwdInv

(***************************************************************************)
(* What leaves the host where it is.                                       *)
(***************************************************************************)
LEMMA StepKept ==
  ASSUME HostInv, SwdTypeOK, call' = call, step' = step, result' = result, flags' = flags
  PROVE  HostInv'
<1>1. call # Done => Len(Program[call])' = Len(Program[call])
  <2>1. call # Done => call \in 1..15
    BY DEF SwdTypeOK, Done
  <2> QED
    BY <2>1, Lengths, LengthsPrimed
<1> QED
  BY <1>1 DEF HostInv, Done, Loading, NONE, ACK

LEMMA StillKeeps ==
  ASSUME SwdInv, UNCHANGED <<call, step, result, data, flags, lost>>,
         dap' \in DapType, tries' \in 0..MaxFail, faults' \in 0..MaxFaults,
         dap'.sticky = dap.sticky, dap'.sel = dap.sel, dap'.tar = dap.tar,
         dap'.csw = dap.csw, dap'.rdbuff = dap.rdbuff, dap'.mem = dap.mem,
         RegsInv /\ CleanInv => RegsInv',
         CoreInv => CoreInv',
         CoreInv /\ ReleasedIsComplete => ReleasedIsComplete'
  PROVE  SwdInv'
<1>1. SwdTyped'
  <2>1. SwdTypeOK'
    BY DEF SwdInv, SwdTyped, SwdTypeOK, DapType, WDATA, ERR, Memory, Word, Done, NONE, ACK, WAIT,
       FAULT, MUTE
  <2> QED
    BY <2>1 DEF SwdTyped, DapType, Value, WDATA, ERR, Memory, Word, Pc, Lr
<1>2. HostInv'
  BY StepKept DEF SwdInv, SwdTyped
<1>3. ErrInv'
  BY DEF SwdInv, ErrInv, Powering, Loading, ERR
<1>4. PortInv'
  BY DEF SwdInv, PortInv, Missed, Loading, WDATA, Csw, CswInc
<1>5. MemInv'
  BY DEF SwdInv, MemInv, Missed, Stuck, WriteCalls, ReadCalls, Array, Target, Sends,
     DHCSR, DCRDR, DCRSR, Halt, Run, Entry, Return, Pc, Lr
<1>6. ArrayInv'
  BY DEF SwdInv, ArrayInv, Missed, Stuck, Array, Csw, CswInc, Word, NONE
<1>7. CleanInv'
  <2>1. After(5, 4)' = After(5, 4) /\ After(15, 4)' = After(15, 4) /\ Clean' = Clean
    BY DEF After, Clean, Stuck, Loading
  <2> QED
    BY <2>1 DEF SwdInv, CleanInv, Loading, Array, Csw, CswInc, NONE, ACK, DHCSR, Halt, Code, Word
<1>8. ReportIsTrue'
  <2>1. Asked(call)' = Asked(call)
    BY DEF Asked, DHCSR, DCRDR, DCRSR, Halt, Run, Entry, Return, Pc, Lr, Word, Code, Array, Releasing
  <2> QED
    BY <2>1 DEF SwdInv, ReportIsTrue, ACK
<1> QED
  BY <1>1, <1>2, <1>3, <1>4, <1>5, <1>6, <1>7, <1>8 DEF SwdInv

(* The same target, and the same core. *)
LEMMA CoreKept ==
  ASSUME UNCHANGED <<call, step, result, data, flags, lost>>, dap'.sticky = dap.sticky,
         dap'.mem = dap.mem, dap'.xfer = dap.xfer, dap'.regs = dap.regs
  PROVE  /\ RegsInv => RegsInv'
         /\ CoreInv => CoreInv'
         /\ ReleasedIsComplete => ReleasedIsComplete'
<1>1. Clean' = Clean
  BY DEF Clean, Stuck, Loading
<1>2. /\ After(8, 4)' = After(8, 4) /\ After(9, 4)' = After(9, 4)
      /\ After(12, 4)' = After(12, 4) /\ After(13, 4)' = After(13, 4)
      /\ After(15, 4)' = After(15, 4)
  BY DEF After
<1> QED
  BY <1>1, <1>2 DEF RegsInv, CoreInv, ReleasedIsComplete, DCRDR, DHCSR, Run, Entry, Return, Pc, Lr,
     Unknown, Code, Word

LEMMA SentAgainKeeps ==
  ASSUME SwdInv, SentAgain \/ PowerAck \/ UNCHANGED swdVars
  PROVE  SwdInv'
<1>0. SwdTypeOK /\ dap \in DapType
  BY DEF SwdInv, SwdTyped
<1>1. /\ UNCHANGED <<call, step, result, data, flags, lost>>
      /\ tries' \in 0..MaxFail /\ faults' \in 0..MaxFaults
      /\ dap' = dap \/ dap' = [dap EXCEPT !.pwr = "up"]
  <2>1. CASE SentAgain
    <3>1. /\ UNCHANGED <<call, step, result, data, flags, lost, dap>>
          /\ tries < MaxFail /\ tries' = tries + 1 /\ faults > 0 /\ faults' = faults - 1
      BY <2>1 DEF SentAgain, Fault
    <3>2. tries \in 0..MaxFail /\ faults \in 0..MaxFaults
      BY <1>0 DEF SwdTypeOK
    <3>3. tries' \in 0..MaxFail
      BY <3>1, <3>2, SwdConstants
    <3>4. faults' \in 0..MaxFaults
      BY <3>1, <3>2, SwdConstants
    <3> QED
      BY <3>1, <3>3, <3>4
  <2>2. CASE PowerAck
    BY <1>0, <2>2 DEF PowerAck, host, SwdTypeOK
  <2>3. CASE UNCHANGED swdVars
    BY <1>0, <2>3 DEF swdVars, host, SwdTypeOK
  <2> QED
    BY <2>1, <2>2, <2>3
<1>2. /\ dap' \in DapType /\ dap'.sticky = dap.sticky /\ dap'.sel = dap.sel /\ dap'.tar = dap.tar
      /\ dap'.csw = dap.csw /\ dap'.rdbuff = dap.rdbuff /\ dap'.mem = dap.mem
      /\ dap'.xfer = dap.xfer /\ dap'.regs = dap.regs
  BY <1>0, <1>1 DEF DapType
<1> QED
  BY <1>1, <1>2, CoreKept, StillKeeps

(* A register is moved: the one that was asked for, with what DCRDR holds. *)
LEMMA TransferKeeps ==
  ASSUME SwdInv, Transfer
  PROVE  SwdInv'
<1>0. SwdTypeOK /\ dap \in DapType /\ CleanInv /\ RegsInv /\ CoreInv /\ ReleasedIsComplete
  BY DEF SwdInv, SwdTyped
<1>1. /\ UNCHANGED <<call, step, tries, result, data, flags, lost, faults>>
      /\ dap.xfer # Unknown
      /\ dap' = [dap EXCEPT !.regs = [dap.regs EXCEPT ![dap.xfer] = dap.mem[DCRDR]],
                            !.xfer = Unknown]
  BY <1>0 DEF Transfer, host
<1>2. dap.mem[DCRDR] \in Value /\ Unknown \in Value /\ dap.regs \in [{Pc, Lr} -> Value]
  <2>1. Unknown \in Value
    BY SwdConstants DEF Unknown
  <2>2. dap.mem \in [Memory -> Value] /\ DCRDR \in Memory
    BY <1>0, DapFields, Sent
  <2> QED
    BY <1>0, <2>1, <2>2, DapFields
<1>3. [dap.regs EXCEPT ![dap.xfer] = dap.mem[DCRDR]] \in [{Pc, Lr} -> Value]
  BY <1>2
<1>4. /\ dap' \in DapType /\ dap'.sticky = dap.sticky /\ dap'.sel = dap.sel /\ dap'.tar = dap.tar
      /\ dap'.csw = dap.csw /\ dap'.rdbuff = dap.rdbuff /\ dap'.mem = dap.mem
      /\ dap'.xfer = Unknown /\ dap'.regs = [dap.regs EXCEPT ![dap.xfer] = dap.mem[DCRDR]]
  BY <1>0, <1>1, <1>2, <1>3 DEF DapType
<1>5. /\ After(8, 4)' = After(8, 4) /\ After(9, 4)' = After(9, 4)
      /\ After(12, 4)' = After(12, 4) /\ After(13, 4)' = After(13, 4)
      /\ After(15, 4)' = After(15, 4) /\ Clean' = Clean
  BY <1>1, <1>4 DEF After, Clean, Stuck, Loading
<1>6. RegsInv'
  <2> SUFFICES ASSUME Clean'
      PROVE  /\ After(8, 4) /\ ~After(12, 4) => dap'.mem[DCRDR] = Entry
             /\ After(9, 4) /\ ~After(12, 4) =>
                  dap'.xfer = Pc \/ (dap'.xfer = Unknown /\ dap'.regs[Pc] = Entry)
             /\ After(12, 4) => dap'.mem[DCRDR] = Return /\ dap'.regs[Pc] = Entry
             /\ After(12, 4) /\ ~After(13, 4) => dap'.xfer = Unknown
             /\ After(13, 4) =>
                  dap'.xfer = Lr \/ (dap'.xfer = Unknown /\ dap'.regs[Lr] = Return)
             /\ After(15, 4) => dap'.xfer = Unknown
    BY <1>5 DEF RegsInv, DCRDR, Entry, Pc, Lr, Unknown, Return
  <2>1. Clean
    BY <1>5
  <2>2. After(9, 4) => After(8, 4)
    BY <1>0 DEF After, SwdTypeOK, Done
  <2>3. After(9, 4) /\ ~After(12, 4) => dap'.regs[Pc] = Entry
    BY <1>0, <1>1, <1>2, <1>4, <2>1, <2>2 DEF RegsInv
  <2>4. After(12, 4) => dap.xfer = Lr /\ dap.regs[Pc] = Entry
    BY <1>0, <1>1, <2>1 DEF RegsInv
  <2>5. After(12, 4) => dap'.regs[Pc] = Entry
    BY <1>2, <1>4, <2>4, Sent
  <2>6. After(13, 4) => After(12, 4)
    BY <1>0 DEF After, SwdTypeOK, Done
  <2>7. After(13, 4) => dap'.regs[Lr] = Return
    BY <1>0, <1>2, <1>4, <2>1, <2>4, <2>6, Sent DEF RegsInv
  <2> QED
    BY <1>0, <1>4, <2>1, <2>3, <2>5, <2>7 DEF RegsInv
<1>7. CoreInv'
  BY <1>0, <1>1, <1>4, <1>5 DEF CoreInv, DHCSR, Run, Unknown
<1>8. ReleasedIsComplete'
  <2>1. ~(dap'.mem[DHCSR] = Run /\ lost' = {})
    BY <1>0, <1>1, <1>4 DEF CoreInv
  <2> QED
    BY <2>1 DEF ReleasedIsComplete, DHCSR, Run
<1>9. tries' \in 0..MaxFail /\ faults' \in 0..MaxFaults
  BY <1>0, <1>1 DEF SwdTypeOK
<1> QED
  BY <1>1, <1>4, <1>6, <1>7, <1>8, <1>9, StillKeeps

(***************************************************************************)
(* The next call begins.                                                   *)
(***************************************************************************)
LEMMA BeginKeeps ==
  ASSUME SwdInv, NEW c \in 1..16, Begin(c), result # NONE, call # Done,
         \/ c < Loading /\ call < Loading
         \/ c = Loading /\ call < Loading /\ ERR \notin dap.sticky
         \/ c = call + 1 /\ call >= Loading
         \/ c = call /\ call \in {10, 14}
  PROVE  SwdInv'
<1>0. /\ SwdTypeOK /\ dap \in DapType /\ HostInv /\ ErrInv /\ PortInv /\ CleanInv /\ RegsInv /\ CoreInv
      /\ ReleasedIsComplete /\ ArrayInv /\ ReportIsTrue /\ call \in 1..15 /\ step \in Nat
  BY DEF SwdInv, SwdTyped, SwdTypeOK, Done
<1>1. /\ call' = c /\ step' = 1 /\ result' = NONE /\ flags' = {}
      /\ dap' = dap /\ tries' = tries /\ faults' = faults /\ lost' = lost
      /\ data' \in {data, Entry, Return}
  BY DEF Begin
<1>2. SwdTyped'
  <2>1. data' \in Value
    <3>1. Entry \in Value /\ Return \in Value
      BY SwdConstants DEF Entry, Return
    <3>2. data \in Value
      BY <1>0 DEF SwdTypeOK, Value
    <3> QED
      BY <1>1, <3>1, <3>2
  <2>2. SwdTypeOK'
    BY <1>0, <1>1, <2>1, SwdConstants DEF SwdTypeOK, Value, WDATA, ERR, Memory, Word, Done, NONE,
       ACK, WAIT, FAULT, MUTE
  <2> QED
    BY <1>0, <1>1, <2>2 DEF SwdTyped, DapType, Value, WDATA, ERR, Memory, Word, Pc, Lr
<1>3. HostInv'
  <2>1. c # Done => Len(Program[call])' >= 1
    <3>1. Length(c) >= 1
      BY SwdConstants DEF Length
    <3> QED
      BY <1>1, <3>1, LengthsPrimed DEF Done
  <2> QED
    BY <1>1, <2>1 DEF HostInv, Done, Loading, NONE, ACK
<1>4. ErrInv'
  <2>1. c = Loading => ERR \notin dap.sticky
    BY <1>0 DEF Loading
  <2> QED
    BY <1>1, <2>1 DEF ErrInv, Powering, Loading, ERR
<1>5. call = Loading => step = 8
  <2> HAVE call = Loading
  <2>1. step = Len(Program[call])
    BY <1>0 DEF HostInv, Done, Loading
  <2> QED
    BY <2>1, PreludePackets
<1>6. c > Loading => Missed \/ WDATA \in dap.sticky \/ dap.csw \in {Csw, CswInc}
  BY <1>0, <1>5 DEF PortInv, Loading
<1>7. PortInv'
  BY <1>1, <1>6 DEF PortInv, Missed, Loading, WDATA, Csw, CswInc
<1>8. MemInv' /\ ArrayInv'
  BY <1>1 DEF MemInv, ArrayInv
<1>9. ReportIsTrue'
  BY <1>1 DEF ReportIsTrue, NONE, ACK
<1>10. ASSUME Clean'
       PROVE  /\ c > Loading => Clean /\ CleanInv /\ RegsInv /\ result = ACK
              /\ Stuck' = Stuck /\ ~Missed /\ ~Stuck /\ lost = {}
  <2>1. lost = {} /\ ~Stuck
    BY <1>1, <1>10 DEF Clean, Stuck
  <2>2. c > Loading => Clean
    BY <1>0, <2>1 DEF Clean, Loading
  <2> QED
    BY <1>0, <1>1, <2>1, <2>2 DEF CleanInv, Missed, Stuck
<1>11. ASSUME result = ACK, c > Loading, NEW k \in {5, 8, 9, 12, 13, 15}
       PROVE  After(k, 4)' <=> After(k, 4)
  <2>1. After(k, 4)' <=> c > k
    BY <1>1 DEF After
  <2>2. call = k => step = 5
    <3> HAVE call = k
    <3>1. call \in WriteCalls
      BY DEF WriteCalls
    <3>2. Len(Program[call]) = 5
      BY <3>1, WritePackets
    <3> QED
      BY <1>0, <1>11, <3>2 DEF HostInv
  <2>3. After(k, 4) <=> call > k \/ call = k
    BY <2>2 DEF After
  <2>4. c > k <=> call > k \/ call = k
    <3>1. CASE c = call + 1
      BY <1>0, <3>1
    <3>2. CASE c = call /\ call \in {10, 14}
      BY <3>2
    <3> QED
      BY <1>0, <1>11, <3>1, <3>2 DEF Loading
  <2> QED
    BY <2>1, <2>3, <2>4
<1>12. CleanInv'
  <2> SUFFICES ASSUME Clean'
               PROVE  /\ c > Loading => dap.csw = Csw
                      /\ After(5, 4)' /\ ~After(15, 4)' => dap.mem[DHCSR] = Halt
                      /\ c > Array => \A i \in Code : dap.mem[i] = Word(i)
    BY <1>1 DEF CleanInv, Loading, Array, Csw, CswInc, NONE, ACK, DHCSR, Halt, Code, Word
  <2>1. c > Loading => dap.csw = Csw
    <3>1. CASE call = Loading
      BY <1>0, <1>5, <1>10, <3>1 DEF PortInv, Stuck, Loading
    <3>2. CASE call > Loading
      BY <1>0, <1>10, <3>2 DEF CleanInv, Loading
    <3> QED
      BY <1>0, <3>1, <3>2 DEF Loading
  <2>2. After(5, 4)' /\ ~After(15, 4)' => dap.mem[DHCSR] = Halt
    <3>1. After(5, 4)' => c > Loading
      BY <1>1 DEF After, Loading
    <3> QED
      BY <1>10, <1>11, <3>1 DEF CleanInv
  <2>3. c > Array => \A i \in Code : dap.mem[i] = Word(i)
    <3> HAVE c > Array
    <3>1. Clean /\ CleanInv /\ result = ACK /\ ~Missed
      BY <1>10 DEF Array, Loading
    <3>2. CASE call > Array
      BY <3>1, <3>2 DEF CleanInv
    <3>3. CASE call = Array
      <4>1. \A w \in Asked(call) : dap.mem[w[1]] = w[2]
        BY <1>0, <3>1 DEF ReportIsTrue, Missed
      <4>2. ASSUME NEW i \in Code  PROVE dap.mem[i] = Word(i)
        <5>1. <<i, Word(i)>> \in Asked(call)
          BY <3>3, AskedIs
        <5> QED
          BY <4>1, <5>1
      <4> QED
        BY <4>2
    <3> QED
      BY <1>0, <3>2, <3>3 DEF Array, Loading
  <2> QED
    BY <2>1, <2>2, <2>3
<1>13. RegsInv'
  <2> SUFFICES ASSUME Clean'
      PROVE  /\ After(8, 4)' /\ ~After(12, 4)' => dap.mem[DCRDR] = Entry
             /\ After(9, 4)' /\ ~After(12, 4)' =>
                  dap.xfer = Pc \/ (dap.xfer = Unknown /\ dap.regs[Pc] = Entry)
             /\ After(12, 4)' => dap.mem[DCRDR] = Return /\ dap.regs[Pc] = Entry
             /\ After(12, 4)' /\ ~After(13, 4)' => dap.xfer = Unknown
             /\ After(13, 4)' =>
                  dap.xfer = Lr \/ (dap.xfer = Unknown /\ dap.regs[Lr] = Return)
             /\ After(15, 4)' => dap.xfer = Unknown
    BY <1>1 DEF RegsInv, DCRDR, Entry, Pc, Lr, Unknown, Return
  <2>1. CASE c > Loading
    <3>1. Clean /\ RegsInv
      BY <1>10, <2>1
    <3>2. /\ (After(8, 4)' <=> After(8, 4)) /\ (After(9, 4)' <=> After(9, 4))
          /\ (After(12, 4)' <=> After(12, 4)) /\ (After(13, 4)' <=> After(13, 4))
          /\ (After(15, 4)' <=> After(15, 4))
      BY <1>10, <1>11, <2>1
    <3> QED
      BY <3>1, <3>2 DEF RegsInv
  <2>2. CASE ~(c > Loading)
    <3>1. \A k \in {8, 9, 12, 13, 15} : ~After(k, 4)'
      BY <1>1, <2>2 DEF After, Loading
    <3> QED
      BY <3>1
  <2> QED
    BY <2>1, <2>2
<1>14. CoreInv'
  <2> SUFFICES ASSUME dap.mem[DHCSR] = Run
               PROVE  After(15, 4)' /\ (lost = {} => dap.xfer = Unknown)
    BY <1>1 DEF CoreInv, DHCSR, Run, Unknown
  <2>1. call = 15 /\ (lost = {} => dap.xfer = Unknown)
    BY <1>0 DEF CoreInv, After
  <2>2. c = 16
    BY <1>0, <2>1 DEF Loading
  <2> QED
    BY <1>1, <2>1, <2>2 DEF After
<1>15. ReleasedIsComplete'
  BY <1>0, <1>1 DEF ReleasedIsComplete, DHCSR, Run, Pc, Lr, Entry, Return, Code, Word
<1> QED
  BY <1>2, <1>3, <1>4, <1>7, <1>8, <1>9, <1>12, <1>13, <1>14, <1>15 DEF SwdInv

LEMMA NextCallKeeps ==
  ASSUME SwdInv, Connected \/ PoweredUp \/ Cleared \/ Polled \/ Returned
  PROVE  SwdInv'
<1>0. SwdTypeOK /\ HostInv /\ ErrInv /\ call \in 1..16
  BY DEF SwdInv, SwdTyped, SwdTypeOK, Done
<1>1. CASE Connected
  <2>1. PICK c \in {1, 2} : Begin(c)
    BY <1>1 DEF Connected, Connecting, Powering
  <2>2. call = 1 /\ result # NONE
    BY <1>1 DEF Connected, Connecting
  <2>3. c \in 1..16 /\ c < Loading /\ call < Loading /\ call # Done
    BY <2>2 DEF Loading, Done
  <2> QED
    BY <2>1, <2>2, <2>3, BeginKeeps
<1>2. CASE PoweredUp
  <2>1. call = 2 /\ result # NONE
    BY <1>2 DEF PoweredUp, Powering
  <2>2. PICK c \in {2, 3, 4} : Begin(c) /\ (c = 4 => step # 1 /\ result = ACK)
    <3>1. CASE step = 1
      BY <1>2, <3>1 DEF PoweredUp, Clearing
    <3>2. CASE step # 1 /\ result = ACK /\ data = PwrUp
      BY <1>2, <3>2 DEF PoweredUp, Loading
    <3>3. CASE step # 1 /\ ~(result = ACK /\ data = PwrUp)
      BY <1>2, <3>3 DEF PoweredUp, Powering
    <3> QED
      BY <3>1, <3>2, <3>3
  <2>3. c = 4 => ERR \notin dap.sticky
    <3>0. HAVE c = 4
    <3>1. step = 2
      <4>1. step = Len(Program[call])
        BY <1>0, <2>1, <2>2, <3>0 DEF HostInv, Done
      <4>2. Len(Program[call]) = 2
        BY <2>1, ConnectPackets DEF Powering
      <4> QED
        BY <4>1, <4>2
    <3> QED
      BY <1>0, <2>1, <3>1 DEF ErrInv, Powering
  <2>4. c \in 1..16 /\ (c < Loading \/ c = Loading) /\ call < Loading /\ call # Done
    BY <2>1 DEF Loading, Done
  <2> QED
    BY <2>1, <2>2, <2>3, <2>4, BeginKeeps DEF Loading
<1>3. CASE Cleared
  <2>1. Begin(2) /\ call = 3 /\ result # NONE
    BY <1>3 DEF Cleared, Clearing, Powering
  <2>2. 2 \in 1..16 /\ 2 < Loading /\ call < Loading /\ call # Done
    BY <2>1 DEF Loading, Done
  <2> QED
    BY <2>1, <2>2, BeginKeeps
<1>4. CASE Polled
  <2>1. call \in {10, 14} /\ result # NONE
    BY <1>4 DEF Polled, Polls
  <2>2. PICK c \in {call, call + 1} : Begin(c)
    BY <1>4 DEF Polled
  <2>3. c \in 1..16 /\ call >= Loading /\ call # Done
    BY <2>1 DEF Loading, Done
  <2> QED
    BY <2>1, <2>2, <2>3, BeginKeeps
<1>5. CASE Returned
  <2>1. call \in 4..15 /\ result # NONE /\ Begin(call + 1)
    BY <1>5 DEF Returned, Loading, Releasing
  <2>2. call + 1 \in 1..16 /\ call >= Loading /\ call # Done
    BY <2>1 DEF Loading, Done
  <2> QED
    BY <2>1, <2>2, BeginKeeps
<1> QED
  BY <1>1, <1>2, <1>3, <1>4, <1>5

(***************************************************************************)
(* The invariant.                                                          *)
(***************************************************************************)
LEMMA SwdStarts == SwdInit => SwdInv
<1> SUFFICES ASSUME SwdInit  PROVE SwdInv
  OBVIOUS
<1>1. PICK f \in SUBSET {WDATA, ERR} :
        dap = [sticky |-> f, pwr |-> "off", sel |-> "MEM", tar |-> Unknown,
               csw |-> Unknown, rdbuff |-> Unknown,
               mem |-> [x \in Memory |-> Unknown], xfer |-> Unknown,
               regs |-> [r \in {Pc, Lr} |-> Unknown]]
  BY DEF SwdInit
<1>2. /\ call = 1 /\ step = 1 /\ tries = 0 /\ result = NONE /\ data \in {Unknown, IdCode}
      /\ flags = {} /\ faults = MaxFaults /\ lost = {}
  BY DEF SwdInit, Connecting
<1>3. Unknown \in Value /\ IdCode \in Value /\ Unknown \in Nat
  BY SwdConstants DEF Unknown, IdCode
<1>4. dap \in DapType
  BY <1>1, <1>3 DEF DapType
<1>5. dap.mem[DHCSR] # Run /\ dap.sticky = f
  BY <1>1, Sent
<1>6. SwdTyped
  <2>1. /\ call \in 1..Done /\ step \in 1..(Words + 7) /\ tries \in 0..MaxFail
        /\ faults \in 0..MaxFaults
    BY <1>2, SwdConstants DEF Done
  <2>2. data \in Value /\ dap.sticky \subseteq {WDATA, ERR} /\ dap.mem \in [Memory -> Value]
    BY <1>2, <1>3, <1>4, DapFields
  <2> QED
    BY <1>2, <1>4, <2>1, <2>2 DEF SwdTyped, SwdTypeOK, Value
<1>7. HostInv
  <2>1. Len(Program[call]) = 2
    BY <1>2, ConnectPackets DEF Connecting
  <2> QED
    BY <1>2, <2>1 DEF HostInv, Loading, NONE, ACK
<1>8. ErrInv /\ PortInv
  BY <1>2 DEF ErrInv, PortInv, Powering, Loading
<1>9. MemInv /\ ArrayInv
  BY <1>2 DEF MemInv, ArrayInv, WriteCalls, ReadCalls, Array
<1>10. CleanInv /\ RegsInv
  <2>1. ~Clean
    BY <1>2 DEF Clean, Loading
  <2> QED
    BY <2>1 DEF CleanInv, RegsInv
<1>11. CoreInv /\ ReleasedIsComplete /\ ReportIsTrue
  BY <1>2, <1>5 DEF CoreInv, ReleasedIsComplete, ReportIsTrue, NONE, ACK
<1> QED
  BY <1>6, <1>7, <1>8, <1>9, <1>10, <1>11 DEF SwdInv

LEMMA SwdSteps == SwdInv /\ [SwdNext]_swdVars => SwdInv'
<1> SUFFICES ASSUME SwdInv, [SwdNext]_swdVars  PROVE SwdInv'
  OBVIOUS
<1>1. CASE Acknowledged
  BY <1>1, AcknowledgedKeeps
<1>2. CASE Refused \/ GivenUp
  BY <1>2, NotTakenKeeps
<1>3. CASE WriteParity \/ BusError
  BY <1>3, MarkedKeeps
<1>4. CASE ReadParity
  BY <1>4, ReadParityKeeps
<1>5. CASE SentAgain \/ PowerAck \/ UNCHANGED swdVars
  BY <1>5, SentAgainKeeps
<1>6. CASE Transfer
  BY <1>6, TransferKeeps
<1>7. CASE Connected \/ PoweredUp \/ Cleared \/ Polled \/ Returned
  BY <1>7, NextCallKeeps
<1>8. CASE Blink
  <2>1. UNCHANGED swdVars
    BY <1>8 DEF Blink
  <2> QED
    BY <2>1, SentAgainKeeps
<1> QED
  BY <1>1, <1>2, <1>3, <1>4, <1>5, <1>6, <1>7, <1>8 DEF SwdNext, Host

(***************************************************************************)
(* Whatever goes wrong on the wires, the host's position, the target's     *)
(* flags and what has been written agree as SwdInv says.                   *)
(***************************************************************************)
THEOREM SwdInvariant == SwdSpec => []SwdInv
<1>1. SwdInit => SwdInv
  BY SwdStarts
<1>2. SwdInv /\ [SwdNext]_swdVars => SwdInv'
  BY SwdSteps
<1> QED
  BY <1>1, <1>2, PTL DEF SwdSpec

(***************************************************************************)
(* swd_write_mem and swd_write_array return ACK only when every word they  *)
(* were asked to write is in the target's memory, unless the target missed *)
(* a packet: for any number of words, of attempts and of faults.           *)
(***************************************************************************)
THEOREM SwdReport == SwdSpec => []ReportIsTrue
<1>1. SwdInv => ReportIsTrue
  BY DEF SwdInv
<1> QED
  BY <1>1, SwdInvariant, PTL

(***************************************************************************)
(* main starts the core only with its whole program, its entry point and   *)
(* its link register, unless a packet was missed, a read failed its parity,*)
(* the target's bus failed or a register was not ready in time.            *)
(***************************************************************************)
THEOREM SwdReleased == SwdSpec => []ReleasedIsComplete
<1>1. SwdInv => ReleasedIsComplete
  BY DEF SwdInv
<1> QED
  BY <1>1, SwdInvariant, PTL
=============================================================================
