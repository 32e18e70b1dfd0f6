------------------------------ MODULE KeyScan ------------------------------
(***************************************************************************)
(* The keys: the TIM3 handler of BSP/src/key.c samples every key once per  *)
(* tick and leaves the key it recognised in sky_keymode; the endless loop  *)
(* of Core/Src/main.c reads sky_keymode, prints the key's name and resets  *)
(* it.  Nothing protects sky_keymode: the handler may run between any two  *)
(* steps of main.  The handler itself is one step, since on this processor *)
(* main cannot run inside it.                                              *)
(***************************************************************************)
EXTENDS Integers, FiniteSets, FiniteSetsExt

CONSTANTS Keys,       \* the keys scanned, named by the enumeration of key.h
          CountRange  \* values of the uint16_t counters: 65536 in the code

KEY_INIT_MODE == 0
KEY_UP_DOWN == 1
KEY0_DOWN == 2
KEY1_DOWN == 3
KEY2_DOWN == 4

ASSUME KeyAssumption ==
  /\ Keys \subseteq {KEY_UP_DOWN, KEY0_DOWN, KEY1_DOWN, KEY2_DOWN}
  /\ CountRange \in Nat /\ CountRange > 2

VARIABLES sky_keymode,
          hoisted,  \* whether the build keeps sky_keymode in a register (see Poll)
          count,    \* the static counter of each scan function
          pc,       \* main: "boot", "poll", "print"; "stuck" in the USART1 default handler
          mode,     \* the value of sky_keymode the switch of main is working on
          updates,  \* timer updates that main's boot code has seen
          \* history variables, read by no action:
          pins,     \* the levels read at the last tick
          seen,     \* active samples of each key since its last event
          pending   \* keys recognised since their name was last printed

vars == <<sky_keymode, hoisted, count, pc, mode, updates, pins, seen, pending>>

-----------------------------------------------------------------------------

\* KEY0 is counted while its pin reads 0, the other keys while it reads 1.
ActiveLevel(k) == IF k = KEY0_DOWN THEN 0 ELSE 1

Init ==
  /\ sky_keymode = 0
  /\ hoisted \in BOOLEAN
  /\ count = [k \in Keys |-> 0]
  /\ pc = "boot"
  /\ mode = KEY_INIT_MODE
  /\ updates = 0
  /\ pins = [k \in Keys |-> 1 - ActiveLevel(k)]
  /\ seen = [k \in Keys |-> 0]
  /\ pending = {}

Active(k, levels) == levels[k] = ActiveLevel(k)

\* count++ on a uint16_t
Bump(n) == (n + 1) % CountRange

\* Mutant: the threshold is three samples.
Recognised_ThreeSamples(levels) == {k \in Keys : ~Active(k, levels) /\ count[k] >= 3}

\* The keys the scan functions recognise: inactive after two active samples.
Recognised(levels) == {k \in Keys : ~Active(k, levels) /\ count[k] >= 2}

\* While main boots the handler runs at most once, for the update that
\* HAL_TIM_Base_Init generated: the next update is 10 ms away.
TimerMayFire == pc = "boot" => updates = 0

\* One tick of the timer.  The scans run in the order of the enumeration, so the
\* last key recognised is the one left in sky_keymode.
TIM3_IRQHandler(levels) ==
  LET keys == Recognised(levels)
  IN  /\ pc # "stuck"
      /\ TimerMayFire
      /\ updates' = IF pc = "boot" THEN 1 ELSE updates
      /\ count' = [k \in Keys |-> CASE Active(k, levels) -> Bump(count[k])
                                    [] k \in keys -> 0
                                    [] OTHER -> count[k]]
      /\ sky_keymode' = IF keys = {} THEN sky_keymode ELSE Max(keys)
      /\ pins' = levels
      /\ seen' = [k \in Keys |-> CASE Active(k, levels) -> Min({seen[k] + 1, CountRange})
                                   [] k \in keys -> 0
                                   [] OTHER -> seen[k]]
      /\ pending' = pending \cup keys
      /\ UNCHANGED <<hoisted, pc, mode>>

\* main after Tim3_init: sky_keymode =KEY_INIT_MODE, then into the loop.
EnterLoop ==
  /\ pc = "boot"
  /\ sky_keymode' = KEY_INIT_MODE
  /\ pc' = "poll"
  /\ UNCHANGED <<hoisted, count, mode, updates, pins, seen, pending>>

\* Mutant: the switch has no case for KEY0_DOWN.
Poll_MissingCase ==
  /\ pc = "poll" /\ ~hoisted
  /\ sky_keymode \notin {KEY_INIT_MODE, KEY0_DOWN}
  /\ mode' = sky_keymode
  /\ pc' = "print"
  /\ UNCHANGED <<sky_keymode, hoisted, count, updates, pins, seen, pending>>

\* switch(sky_keymode).  sky_keymode is not volatile: a build may load it on every
\* turn, or keep in a register the KEY_INIT_MODE stored just before the loop and
\* never look at memory again (MDK-ARM/STM32F429/main.o does the latter).
Poll ==
  /\ pc = "poll"
  /\ LET m == IF hoisted THEN KEY_INIT_MODE ELSE sky_keymode
     IN  /\ m # KEY_INIT_MODE
         /\ mode' = m
         /\ pc' = "print"
  /\ UNCHANGED <<sky_keymode, hoisted, count, updates, pins, seen, pending>>

\* Mutant: sky_keymode is left alone after the printf.
PrintAndReset_NoReset ==
  /\ pc = "print"
  /\ pc' = "poll"
  /\ pending' = pending \ {mode}
  /\ mode' = KEY_INIT_MODE
  /\ UNCHANGED <<sky_keymode, hoisted, count, updates, pins, seen>>

\* The printf of a case, which takes its time, ends and sky_keymode is reset -
\* whatever it holds by now.
PrintAndReset ==
  /\ pc = "print"
  /\ sky_keymode' = KEY_INIT_MODE
  /\ pc' = "poll"
  /\ pending' = pending \ {mode}
  /\ mode' = KEY_INIT_MODE
  /\ UNCHANGED <<hoisted, count, updates, pins, seen>>

\* A byte arrives on USART1: uart1_init enabled its receive interrupt, nobody
\* defines USART1_IRQHandler, and the default handler loops for ever at a
\* priority above TIM3's.
ByteArrives ==
  /\ pc' = "stuck"
  /\ UNCHANGED <<sky_keymode, hoisted, count, mode, updates, pins, seen, pending>>

Main == EnterLoop \/ Poll \/ PrintAndReset

Next ==
  \/ Main
  \/ \E levels \in [Keys -> {0, 1}] : TIM3_IRQHandler(levels)
  \/ ByteArrives

\* main keeps running between interrupts.
Spec == Init /\ [][Next]_vars /\ WF_vars(Main)

-----------------------------------------------------------------------------

TypeOK ==
  /\ hoisted \in BOOLEAN
  /\ sky_keymode \in Keys \cup {KEY_INIT_MODE}
  /\ count \in [Keys -> 0 .. (CountRange - 1)]
  /\ pc \in {"boot", "poll", "print", "stuck"}
  /\ mode \in Keys \cup {KEY_INIT_MODE}
  /\ updates \in {0, 1}
  /\ pins \in [Keys -> {0, 1}]
  /\ seen \in [Keys -> 0 .. CountRange]
  /\ pending \subseteq Keys

\* main never prints a key that was not pressed, nor one press twice: whatever
\* the handler does between main's read and its reset, a name being printed is of
\* a key recognised since that name was last printed.
NoPhantomKey ==
  /\ pc = "print" => mode \in pending
  /\ sky_keymode # KEY_INIT_MODE /\ pc # "print" => sky_keymode \in pending

\* One active sample is not a key, and nothing longer is missed: a key is recognised
\* only after two active samples (not always in a row: the code keeps a count of one
\* through inactive samples), and one that was seen active twice or more has been
\* recognised by the first sample that finds it inactive - unless the 16-bit
\* counter wrapped while it was held (KEY1 and KEY2, counted while idle, wrap
\* every eleven minutes).
Debounced ==
  \A k \in Keys :
    /\ count[k] <= seen[k]
    /\ ~Active(k, pins) /\ seen[k] >= 2 => seen[k] = CountRange

\* A key left in sky_keymode makes main print some key, if the build reads the
\* variable and no byte arrives on USART1.
KeyIsPrinted ==
  (sky_keymode # KEY_INIT_MODE /\ ~hoisted) ~> (pc = "print" \/ pc = "stuck")

=============================================================================
