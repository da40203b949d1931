------------------------------ MODULE LedBlinker ------------------------------
(***************************************************************************)
(* The LED blinker (src/util/led_blinker.cpp, .hpp) in the main loop, with  *)
(* the time base it reads.  Commands are queued by the code that has        *)
(* something to show and carried out by tick(), one after the other; a full *)
(* queue refuses a command.  Deadlines are compared by the sign of their    *)
(* difference to a clock that wraps.                                        *)
(***************************************************************************)
EXTENDS TimeBase, Sequences, FiniteSets

CONSTANTS
  QueueSize,    \* LED_BLINK_QUEUE_SIZE
  MinTimeOff,   \* minTimeOff_
  On, Off,      \* times in the commands of the program
  MaxGap        \* milliseconds between two calls of tick() at most

Forever == MillisMod - 1    \* UINT32_MAX

ASSUME LedAssumption ==
  /\ QueueSize \in Nat \ {0} /\ MaxGap \in Nat /\ MinTimeOff \in Nat
  /\ On \subseteq 0 .. MillisMod \div 2 \cup {Forever}
  /\ Off \cup {MinTimeOff} \subseteq 0 .. MillisMod \div 2
  /\ MaxGap < MillisMod \div 2

VARIABLES
  queue, phase, deadline,
  current,      \* current_
  lit,          \* the pin shows the LED on
  shown,        \* history: milliseconds since the phase began
  gap           \* history: milliseconds since tick() was called

led == <<queue, phase, deadline, current, lit>>
ledVars == <<timeVars, led, shown, gap>>

Command == [on : On, off : Off]
None == [on |-> 0, off |-> 0]

LedInit ==
  /\ TimeInit
  /\ queue = <<>> /\ phase = "Idle" /\ deadline = 0 /\ current = None /\ lit = FALSE
  /\ shown = 0 /\ gap = 0

\* blink(), on() with Forever, off() with 0: refused when the queue is full.
Blink(cmd) ==
  /\ Running /\ pc = "out"
  /\ Len(queue) < QueueSize /\ queue' = Append(queue, cmd)
  /\ UNCHANGED <<timeVars, phase, deadline, current, lit, shown, gap>>

\* Mutated form: the deadline has passed once the clock shows more.
ExpiredUnsigned(now, at) == now >= at

\* (int32_t)(now - deadline) >= 0
Expired(now, at) == (now - at) % MillisMod < MillisMod \div 2

After(now, time) == (now + time) % MillisMod

\* start()
Start(cmd) ==
  /\ current' = cmd
  /\ lit' = (cmd.on # 0)
  /\ IF cmd.on \in {0, Forever} THEN UNCHANGED <<phase, deadline>>
     ELSE phase' = "On" /\ deadline' = After(millis, cmd.on)

TimeOff == IF current.off # 0 THEN current.off ELSE MinTimeOff

\* tick()
TickIdle ==
  /\ phase = "Idle"
  /\ IF queue = <<>> THEN UNCHANGED led ELSE Start(Head(queue)) /\ queue' = Tail(queue)
  /\ shown' = 0

TickWaits ==
  /\ phase # "Idle" /\ ~Expired(millis, deadline)
  /\ UNCHANGED <<led, shown>>

TickOn ==
  /\ phase = "On" /\ Expired(millis, deadline)
  /\ phase' = "Off" /\ lit' = FALSE /\ deadline' = After(millis, TimeOff)
  /\ shown' = 0
  /\ UNCHANGED <<queue, current>>

TickOff ==
  /\ phase = "Off" /\ Expired(millis, deadline)
  /\ phase' = "Idle"
  /\ shown' = 0
  /\ UNCHANGED <<queue, deadline, current, lit>>

Tick ==
  /\ Running /\ pc = "out"
  /\ gap' = 0
  /\ TickIdle \/ TickWaits \/ TickOn \/ TickOff
  /\ UNCHANGED timeVars

\* The main loop calls tick() often enough.
Microsecond ==
  /\ cnt = Period - 1 => gap < MaxGap
  /\ Count
  /\ UNCHANGED <<led, shown, gap>>

Millisecond ==
  /\ gap' = gap + 1
  /\ TIM2_UP_IRQHandler
  /\ shown' = IF phase = "Idle" THEN 0 ELSE shown + 1
  /\ UNCHANGED led

LedNext ==
  \/ Microsecond
  \/ Millisecond
  \/ Micros /\ UNCHANGED <<led, shown, gap>>
  \/ \E cmd \in Command : Blink(cmd)
  \/ Tick

LedSpec == LedInit /\ [][LedNext]_ledVars

------------------------------------------------------------------------------
LedTypeOK ==
  /\ TimeTypeOK
  /\ queue \in Seq(Command) /\ Len(queue) <= QueueSize
  /\ phase \in {"Idle", "On", "Off"} /\ deadline \in 0 .. MillisMod - 1
  /\ current \in Command \cup {None} /\ lit \in BOOLEAN
  /\ shown \in Nat /\ gap \in 0 .. MaxGap

Asked == IF phase = "On" THEN current.on ELSE TimeOff

\* The handler of a roll-over is not late for the next tick().
TickInTime == pending => gap < MaxGap

\* In a phase, the deadline is what is left of it.
DeadlineTracked ==
  /\ phase # "Idle" =>
       /\ shown <= Asked + gap /\ deadline = (millis + Asked - shown) % MillisMod
       /\ lit = (phase = "On")
       /\ phase = "On" => current.on # Forever
  /\ phase = "Idle" /\ lit => current.on = Forever

\* Types, time stamps inside their calls (TimeBase), and what makes both inductive.
LedInv == LedTypeOK /\ CallTracked /\ MicrosExact /\ TickInTime /\ DeadlineTracked

\* A blink is lit, and then dark, for as long as it was asked to be and at most
\* the time between two calls of tick() longer, across every wrap of the clock;
\* and the LED is lit outside a blink only by on().
BlinksAsAsked ==
  /\ [](phase # "Idle" => shown <= Asked + MaxGap /\ lit = (phase = "On"))
  /\ [](phase = "Idle" /\ lit => current.on = Forever)
  /\ [][phase # "Idle" /\ phase' # phase => shown >= Asked]_ledVars
==============================================================================
