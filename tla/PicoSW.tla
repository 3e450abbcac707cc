------------------------------- MODULE PicoSW -------------------------------
(***************************************************************************)
(* Class PicoSW: the GPIO interrupt queues edges of the push buttons and   *)
(* of the rotary encoder, main() takes them out between its other work.    *)
(* The shaft moves through the four phases of its two contacts, A and B;   *)
(* an edge waits in the GPIO block until the interrupt routine runs.       *)
(***************************************************************************)
EXTENDS Integers, Sequences

CONSTANTS
  Buttons,                  \* SW_0, SW_1, SW_2 and ROT_SW
  PRESS_DEBOUNCE_DELAY_US,
  TimerWrap,                \* 2^32, where time_us_32() starts again
  MaxEdges, MaxTime         \* bounds

ASSUME SwAssumption ==
  /\ PRESS_DEBOUNCE_DELAY_US \in Nat /\ TimerWrap \in Nat \ {0}
  /\ PRESS_DEBOUNCE_DELAY_US < TimerWrap /\ MaxEdges \in Nat /\ MaxTime \in Nat
  /\ Buttons \cap {"A", "B", "NO_EVENT", "clockwise", "counter_clockwise"} = {}

Pins == Buttons \cup {"A"}
Masks == (SUBSET {"rise", "fall"}) \ {{}}

VARIABLES
  now,           \* time since the start; time_us_32() is now % TimerWrap
  down,          \* the buttons whose contact is closed
  phase,         \* of the shaft
  turned, late,  \* the latest turn that moved A; whether the shaft went on
                 \* before the interrupt routine ran
  pend,          \* the edges the GPIO block holds, for each pin
  mEvents,       \* the queue
  mPrev_SW_Rise,
  place, front,     \* where main() is, and getEvent's copy of an event
  event,         \* what getEvent returned last, and for which event
  edges, queued, \* contacts moved so far; events queued so far
  rise,          \* the time of the button release mPrev_SW_Rise stands for
  pressAt,       \* when a button was reported last
  merged         \* the buttons with an event of both edges since

inputVars == <<now, down, phase, turned, late, pend>>
swGhosts == <<rise, pressAt, merged>>
loopVars == <<mPrev_SW_Rise, place, front, event, swGhosts>>
swVars == <<inputVars, mEvents, loopVars, edges, queued>>

-----------------------------------------------------------------------------
(* The hardware *)

\* The contacts: clockwise is 00, 01, 11, 10 for A and B.
AHigh(ph) == ph \in {2, 3}
BHigh(ph) == ph \in {1, 2}

Tick ==
  /\ now < MaxTime /\ now' = now + 1
  /\ UNCHANGED <<down, phase, turned, late, pend, mEvents, loopVars, edges,
                 queued>>

\* A contact closes or opens, bouncing included; a closed one pulls down.
Contact(b) ==
  /\ edges < MaxEdges /\ edges' = edges + 1
  /\ down' = (down \ {b}) \cup ({b} \ down)
  /\ pend' = [pend EXCEPT ![b] = @ \cup {IF b \in down THEN "rise" ELSE "fall"}]
  /\ UNCHANGED <<now, phase, turned, late, mEvents, loopVars, queued>>

Turn(dir) ==
  LET ph == (phase + (IF dir = "clockwise" THEN 1 ELSE 3)) % 4
  IN /\ edges < MaxEdges /\ edges' = edges + 1
     /\ phase' = ph
     /\ late' = (pend["A"] # {})
     /\ IF AHigh(ph) = AHigh(phase) THEN UNCHANGED <<turned, pend>>
        ELSE /\ turned' = dir
             /\ pend' = [pend EXCEPT !["A"] = @ \cup
                           {IF AHigh(ph) THEN "rise" ELSE "fall"}]
     /\ UNCHANGED <<now, down, mEvents, loopVars, queued>>

-----------------------------------------------------------------------------
(* PicoSW *)

NoEvent == [gpio |-> "none", mask |-> {}, time |-> 0, at |-> 0,
            dir |-> "none", late |-> FALSE, n |-> 0]

\* The constructor: all five inputs raise the interrupt.
SwInit ==
  /\ now = 0 /\ down = {} /\ phase = 0 /\ turned = "none" /\ late = FALSE
  /\ pend = [p \in Pins |-> {}] /\ mEvents = <<>> /\ mPrev_SW_Rise = 0
  /\ place = "loop" /\ front = NoEvent
  /\ event = [name |-> "NO_EVENT", of |-> NoEvent]
  /\ edges = 0 /\ queued = 0 /\ rise = 0
  /\ pressAt = [b \in Buttons |-> -PRESS_DEBOUNCE_DELAY_US] /\ merged = {}

time_us_32 == now % TimerWrap

\* B is read when the routine runs, not when A moved.
Direction(pin) ==
  IF pin = "A" THEN IF BHigh(phase) THEN "A" ELSE "B" ELSE pin
interruptHandler(pin) ==
  /\ pend[pin] # {} /\ pend' = [pend EXCEPT ![pin] = {}]
  /\ mEvents' = Append(mEvents,
       [gpio |-> Direction(pin), mask |-> pend[pin], time |-> time_us_32,
        at |-> now, dir |-> IF pin = "A" THEN turned ELSE "none",
        late |-> pin = "A" /\ late, n |-> queued + 1])
  /\ queued' = queued + 1
  /\ late' = IF pin = "A" THEN FALSE ELSE late
  /\ UNCHANGED <<now, down, phase, turned, loopVars, edges>>

\* A uint32_t difference, which survives the wrap of the timer.
DebouncedWrapped(time) ==
  time >= (mPrev_SW_Rise + PRESS_DEBOUNCE_DELAY_US) % TimerWrap
Debounced(time) ==
  (time - mPrev_SW_Rise) % TimerWrap >= PRESS_DEBOUNCE_DELAY_US

\* An event with both edges is not decoded.
Decode(e) ==
  IF e.gpio \in Buttons
  THEN IF e.mask = {"fall"} /\ Debounced(e.time) THEN e.gpio ELSE "NO_EVENT"
  ELSE IF e.mask \notin {{"rise"}, {"fall"}} \/ ~Debounced(e.time)
       THEN "NO_EVENT"
       ELSE IF (e.gpio = "A") = (e.mask = {"rise"})
            THEN "clockwise" ELSE "counter_clockwise"

\* main() comes to its loop over the events.
Loop ==
  /\ place = "loop" /\ place' = "test"
  /\ UNCHANGED <<inputVars, mEvents, mPrev_SW_Rise, front, event, swGhosts,
                 edges, queued>>

\* getEvent(): the test of the queue ...
Test ==
  /\ place = "test" /\ place' = IF mEvents = <<>> THEN "loop" ELSE "front"
  /\ UNCHANGED <<inputVars, mEvents, mPrev_SW_Rise, front, event, swGhosts,
                 edges, queued>>
\* ... the copy of its first event ...
Front ==
  /\ place = "front" /\ front' = mEvents[1] /\ place' = "pop"
  /\ UNCHANGED <<inputVars, mEvents, mPrev_SW_Rise, event, swGhosts, edges,
                 queued>>
\* ... and its removal; main() leaves its loop at the first NO_EVENT.
Released(e) == e.gpio \in Buttons /\ e.mask = {"rise"}
TakenIfReported == IF Decode(front) = "NO_EVENT" THEN mEvents ELSE Tail(mEvents)
Taken == Tail(mEvents)
Pop ==
  /\ place = "pop" /\ mEvents' = Taken
  /\ event' = [name |-> Decode(front), of |-> front]
  /\ mPrev_SW_Rise' = IF Released(front) THEN front.time ELSE mPrev_SW_Rise
  /\ place' = IF Decode(front) = "NO_EVENT" THEN "loop" ELSE "test"
  /\ rise' = IF Released(front) THEN front.at ELSE rise
  /\ pressAt' = [b \in Buttons |->
                   IF b = Decode(front) THEN front.at ELSE pressAt[b]]
  /\ merged' = IF front.gpio \in Buttons /\ front.mask = {"rise", "fall"}
               THEN merged \cup {front.gpio} ELSE merged \ {Decode(front)}
  /\ UNCHANGED <<inputVars, front, edges, queued>>

MainSteps == Loop \/ Test \/ Front \/ Pop
SwNext ==
  \/ Tick \/ MainSteps
  \/ \E b \in Buttons : Contact(b)
  \/ \E dir \in {"clockwise", "counter_clockwise"} : Turn(dir)
  \/ \E p \in Pins : interruptHandler(p)
SwSpec == SwInit /\ [][SwNext]_swVars
\* main() loops for ever and a pending interrupt is served.
SwFairSpec ==
  /\ SwSpec /\ WF_swVars(MainSteps)
  /\ \A p \in Pins : WF_swVars(interruptHandler(p))

-----------------------------------------------------------------------------
\* The values of the members, of the hardware and of an event.
Events ==
  [gpio : Buttons \cup {"A", "B"}, mask : Masks, time : 0..(TimerWrap - 1),
   at : 0..MaxTime, dir : {"none", "clockwise", "counter_clockwise"},
   late : BOOLEAN, n : 1..MaxEdges]
SwTypeOK ==
  /\ mPrev_SW_Rise \in 0..(TimerWrap - 1) /\ phase \in 0..3
  /\ mEvents \in Seq(Events) /\ front \in Events \cup {NoEvent}
  /\ pend \in [Pins -> Masks \cup {{}}] /\ down \subseteq Buttons
  /\ place \in {"loop", "test", "front", "pop"}
  /\ event.of \in Events \cup {NoEvent}
  /\ event.name \in Buttons \cup {"NO_EVENT", "clockwise", "counter_clockwise"}

(* A press or a turn that getEvent() reports came at least the debounce    *)
(* delay after the release remembered in mPrev_SW_Rise, whenever the timer *)
(* has wrapped in between.                                                 *)
DebounceHolds ==
  event.name # "NO_EVENT" =>
    event.of.at - rise >= PRESS_DEBOUNCE_DELAY_US

(* A turn is reported in its direction at both edges of A, if the shaft    *)
(* has not moved on before the interrupt routine read B.                   *)
DirectionHolds ==
  event.of.gpio \in {"A", "B"} /\ event.name # "NO_EVENT" /\ ~event.of.late
    => event.name = event.of.dir

(* A button is not reported twice within the debounce delay, however its   *)
(* contact bounces and however late main() gets to the events; the         *)
(* exception is a bounce so fast that the interrupt routine got both edges *)
(* in one event, which getEvent() ignores.                                 *)
PressesApart ==
  [][\A b \in Buttons \ merged :
       event'.name = b /\ event' # event
         => event'.of.at - pressAt[b] >= PRESS_DEBOUNCE_DELAY_US]_swVars

(* getEvent() takes every event once and in the order in which they came,  *)
(* although the interrupt may push between its test, front() and pop().    *)
EventsInOrder == [][event' # event => event'.of.n = event.of.n + 1]_swVars

(* What main() is told of the buttons and the knob is what happened.       *)
ReportsHold ==
  /\ [](SwTypeOK /\ DebounceHolds /\ DirectionHolds)
  /\ PressesApart /\ EventsInOrder

(* Every queued event is taken at last, although main() leaves its loop    *)
(* over the events at the first one that getEvent() ignores.               *)
EventsTaken == \A k \in 1..MaxEdges : queued >= k ~> event.of.n >= k
=============================================================================
