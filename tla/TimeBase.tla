------------------------------- MODULE TimeBase -------------------------------
(***************************************************************************)
(* The time base (src/hal/time.cpp): TIM2 counts microseconds and rolls     *)
(* over every millisecond, its interrupt counts milliseconds, and micros()  *)
(* puts the two together with separate reads.                               *)
(*                                                                          *)
(* An interrupt that is pending is served before the next instruction of    *)
(* the main loop: what runs at its own or a higher priority keeps the main  *)
(* loop from running too.                                                   *)
(***************************************************************************)
EXTENDS Integers

CONSTANTS
  Period,       \* microseconds in a millisecond (1000)
  MillisMod,    \* values of g_millis (2^32)
  MicrosMod,    \* values of micros() (2^32)
  MaxCall       \* microseconds a call of micros() takes at most, handlers included

ASSUME TimeBaseAssumption ==
  /\ {Period, MillisMod, MicrosMod} \subseteq Nat \ {0, 1}
  /\ (MillisMod * Period) % MicrosMod = 0
  /\ MaxCall \in Nat /\ MaxCall < Period /\ MaxCall < MicrosMod

VARIABLES
  cnt,          \* TIM2->CNT
  pending,      \* its update flag
  millis,       \* g_millis
  pc, m1, read, \* micros(): where it is, its m1 and its cnt
  begun,        \* history: the time at the call ...
  elapsed       \* ... and since

timer == <<cnt, pending>>
call == <<pc, m1, read, begun>>
timeVars == <<timer, millis, call, elapsed>>

TimeInit ==
  /\ cnt = 0 /\ pending = FALSE /\ millis = 0
  /\ pc = "out" /\ m1 = 0 /\ read = 0
  /\ begun = 0 /\ elapsed = 0

\* Milliseconds and microseconds put together.
At(ms, us) == (ms * Period + us) % MicrosMod

\* What a clock read in no time would say.
Clock == At(millis + IF pending THEN 1 ELSE 0, cnt)

\* A microsecond passes.  The handler of one roll-over runs before the next.
Count ==
  /\ pc # "out" => elapsed < MaxCall
  /\ cnt = Period - 1 => ~pending
  /\ cnt' = (cnt + 1) % Period /\ pending' = (pending \/ cnt = Period - 1)
  /\ elapsed' = IF pc = "out" THEN 0 ELSE elapsed + 1
  /\ UNCHANGED <<millis, call>>

\* TIM2_UP_IRQHandler()
TIM2_UP_IRQHandler ==
  /\ pending /\ pending' = FALSE
  /\ millis' = (millis + 1) % MillisMod
  /\ UNCHANGED <<cnt, call, elapsed>>

\* The main loop runs.
Running == ~pending

\* micros(), read by read.
Call ==
  /\ Running /\ pc = "out"
  /\ m1' = millis /\ pc' = "counter"
  /\ begun' = Clock /\ elapsed' = 0
  /\ UNCHANGED <<timer, millis, read>>

ReadCounter ==
  /\ Running /\ pc = "counter"
  /\ read' = cnt /\ pc' = "check"
  /\ UNCHANGED <<timer, millis, m1, begun, elapsed>>

\* Mutated form: the millisecond count is not read again.
RolledOverUnseen(before, after) == FALSE

RolledOver(before, after) == before # after

Check ==
  /\ Running /\ pc = "check"
  /\ IF RolledOver(m1, millis) THEN pc' = "again" /\ m1' = millis
                               ELSE pc' = "done" /\ UNCHANGED m1
  /\ UNCHANGED <<timer, millis, read, begun, elapsed>>

ReadAgain ==
  /\ Running /\ pc = "again"
  /\ read' = cnt /\ pc' = "done"
  /\ UNCHANGED <<timer, millis, m1, begun, elapsed>>

\* What micros() returns.
Result == At(m1, read)

Return ==
  /\ Running /\ pc = "done"
  /\ pc' = "out"
  /\ m1' = 0 /\ read' = 0 /\ begun' = 0 /\ elapsed' = 0
  /\ UNCHANGED <<timer, millis>>

Micros == Call \/ ReadCounter \/ Check \/ ReadAgain \/ Return

------------------------------------------------------------------------------
TimeTypeOK ==
  /\ cnt \in 0 .. Period - 1 /\ pending \in BOOLEAN /\ millis \in 0 .. MillisMod - 1
  /\ pc \in {"out", "counter", "check", "again", "done"}
  /\ m1 \in 0 .. MillisMod - 1 /\ read \in 0 .. Period - 1
  /\ begun \in 0 .. MicrosMod - 1 /\ elapsed \in 0 .. MaxCall

\* A time stamp never lies outside its call, whatever rolls over meanwhile (the
\* counter between two of the reads, g_millis, or the result itself): so
\* differences of two of them are off by the time the calls take, and no more.
MicrosExact == pc = "done" => (Result - begun) % MicrosMod <= elapsed

\* The counter has rolled over since m1 was read.
Turned == pending \/ millis # m1

\* What the call has read is at most elapsed older than now.
ReadSince == \E e \in 0 .. elapsed : begun = At(m1, read - e)

\* During a call the counter rolls over at most once; what was read before it
\* does is only used if millis says so.
CallTracked ==
  /\ pc \in {"counter", "check"} =>
       \/ /\ ~Turned /\ elapsed <= cnt
          /\ begun = At(m1, cnt - elapsed)
       \/ /\ Turned /\ cnt < elapsed
          /\ millis = IF pending THEN m1 ELSE (m1 + 1) % MillisMod
          /\ begun = At(m1, Period + cnt - elapsed)
  /\ pc = "check" /\ millis = m1 => ReadSince
  /\ pc = "again" => ~Turned /\ cnt < elapsed /\ begun = At(m1, cnt - elapsed)
  /\ pc = "done" => ReadSince
==============================================================================
