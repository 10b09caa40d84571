--------------------------- MODULE LedLoopProofs ---------------------------
(***************************************************************************)
(* The debouncer is right for every stable period, lag and clock width     *)
(* that satisfy TimingAssumption, 2^32 and 3000 among them.                *)
(***************************************************************************)
EXTENDS LedLoop, TLAPS

\* The inductive invariant: s_led_changed_ms is at most MaxLag older than the
\* sample it stands for, and no difference of times in use has wrapped.
LedInv ==
    /\ TypeOK
    /\ Elapsed(clock, now_ms) <= IF pc = "poll" THEN MaxLag ELSE MaxGap
    /\ Waiting =>
          LET age == Elapsed(clock, s_led_changed_ms)
              seen == Elapsed(now_ms, s_led_changed_ms)
          IN  /\ age = seen + Elapsed(clock, now_ms)
              /\ seen < StableMs + IF pc = "poll" THEN MaxGap ELSE 0
              /\ held <= age
              /\ age <= held + MaxLag

\* The invariant holds at the first pass of poll_hardware.
LEMMA InitInv == Init => LedInv
  BY TimingAssumption
     DEF Init, DebounceInit, LedInv, TypeOK, DebounceTypeOK, Time, Waiting,
         Elapsed

\* No pass, no change of the LED and no lapse of time breaks the invariant.
LEMMA StepInv == LedInv /\ [Next]_vars => LedInv'
<1> SUFFICES ASSUME LedInv, [Next]_vars PROVE LedInv'
  OBVIOUS
<1> USE TimingAssumption
    DEF LedInv, TypeOK, DebounceTypeOK, Time, Waiting, Elapsed
<1>1. CASE read_clock
  BY <1>1 DEF read_clock
<1>2. CASE poll_hardware
  BY <1>2 DEF poll_hardware, poll_led
<1>3. CASE LedChanges
  BY <1>3 DEF LedChanges
<1>4. CASE Tick
  BY <1>4 DEF Tick, Advance
<1>5. CASE UNCHANGED vars
  BY <1>5 DEF vars
<1> QED
  BY <1>1, <1>2, <1>3, <1>4, <1>5 DEF Next

\* LedInv is inductive, and holds of every behaviour.
THEOREM InvHolds == Spec => []LedInv
<1> QED
  BY InitInv, StepInv, PTL DEF Spec

\* Every reachable state is well typed (main.c:115-118).
THEOREM TypeCorrect == Spec => []TypeOK
<1>1. LedInv => TypeOK
  BY DEF LedInv
<1> QED
  BY <1>1, InvHolds, PTL

\* A level that persists is accepted within StableMs, one pass and one lag
\* of the loop (main.c:132-141).
THEOREM AcceptedInTime == Spec => []EdgeIsTimely
<1>1. LedInv => EdgeIsTimely
  BY TimingAssumption
     DEF LedInv, TypeOK, DebounceTypeOK, Time, Waiting, Elapsed, EdgeIsTimely
<1> QED
  BY <1>1, InvHolds, PTL

\* No glitch shorter than StableMs - MaxLag reaches the state machine,
\* whatever the clock reads (main.c:138-140).
THEOREM GlitchesFiltered == Spec => EdgeOnlyWhenStable
<1>1. LedInv /\ [Next]_vars => [Edge => held >= StableMs - MaxLag]_vars
  <2> SUFFICES ASSUME LedInv, [Next]_vars, Edge
               PROVE  held >= StableMs - MaxLag
    OBVIOUS
  <2>1. CASE poll_hardware
    BY <2>1, TimingAssumption
       DEF poll_hardware, poll_led, Edge, LedInv, TypeOK, DebounceTypeOK,
           Time, Waiting, Elapsed
  <2>2. CASE ~poll_hardware
    BY <2>2 DEF Next, read_clock, LedChanges, Tick, vars, Edge
  <2> QED
    BY <2>1, <2>2
<1> QED
  BY <1>1, InvHolds, PTL DEF Spec, EdgeOnlyWhenStable

=============================================================================
