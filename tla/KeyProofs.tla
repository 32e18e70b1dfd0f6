------------------------------ MODULE KeyProofs ------------------------------
(***************************************************************************)
(* The keys, for every set of keys and every width of the counters.        *)
(***************************************************************************)
EXTENDS KeyScan, TLAPS

\* The scans leave one of the keys they recognise in sky_keymode.
LEMMA LastKeyIsOne ==
  ASSUME NEW keys \in SUBSET {KEY_UP_DOWN, KEY0_DOWN, KEY1_DOWN, KEY2_DOWN}, keys # {}
  PROVE  Max(keys) \in keys
<1> USE DEF KEY_UP_DOWN, KEY0_DOWN, KEY1_DOWN, KEY2_DOWN
<1>1. \E x \in keys : \A y \in keys : x >= y
  <2>0. \A x \in keys : x \in 1 .. 4
    OBVIOUS
  <2>1. CASE 4 \in keys
    BY <2>0, <2>1
  <2>2. CASE 4 \notin keys /\ 3 \in keys
    BY <2>0, <2>2
  <2>3. CASE 4 \notin keys /\ 3 \notin keys /\ 2 \in keys
    BY <2>0, <2>3
  <2>4. CASE 4 \notin keys /\ 3 \notin keys /\ 2 \notin keys
    <3>1. \A x \in keys : x = 1
      BY <2>0, <2>4
    <3>2. 1 \in keys
      BY <3>1
    <3> QED
      BY <3>1, <3>2
  <2> QED
    BY <2>1, <2>2, <2>3, <2>4
<1> QED
  BY <1>1 DEF Max

\* The history counter of samples stops at CountRange.
LEMMA SampleCount ==
  ASSUME NEW n \in 0 .. CountRange
  PROVE  Min({n + 1, CountRange}) = IF n = CountRange THEN n ELSE n + 1
<1> DEFINE least == IF n = CountRange THEN n ELSE n + 1
<1>1. least \in {n + 1, CountRange} /\ \A y \in {n + 1, CountRange} : least <= y
  BY KeyAssumption
<1>2. ASSUME NEW x \in {n + 1, CountRange}, \A y \in {n + 1, CountRange} : x <= y
      PROVE  x = least
  BY <1>1, <1>2, KeyAssumption
<1> QED
  BY <1>1, <1>2 DEF Min

-----------------------------------------------------------------------------

\* A counter tells the samples of its key unless it has wrapped since.
CountsOrWrapped == \A k \in Keys : count[k] = seen[k] \/ seen[k] = CountRange

\* A key waiting in sky_keymode has been recognised, whatever main is doing; without
\* that for "print" the next turn of the loop would know nothing of the key found.
KeyIsGenuine == sky_keymode # KEY_INIT_MODE => sky_keymode \in pending

KeyInv == TypeOK /\ NoPhantomKey /\ KeyIsGenuine /\ Debounced /\ CountsOrWrapped

LEMMA InitKeyInv == Init => KeyInv
  BY KeyAssumption DEF Init, KeyInv, TypeOK, NoPhantomKey, KeyIsGenuine, Debounced,
     CountsOrWrapped, ActiveLevel, Active, KEY_INIT_MODE

\* One tick of the timer.
LEMMA TickKeepsKeyInv ==
  ASSUME KeyInv, NEW levels \in [Keys -> {0, 1}], TIM3_IRQHandler(levels)
  PROVE  KeyInv'
<1> DEFINE keys == Recognised(levels)
<1>1. keys \subseteq Keys /\ keys \in SUBSET {KEY_UP_DOWN, KEY0_DOWN, KEY1_DOWN, KEY2_DOWN}
  BY KeyAssumption DEF Recognised
<1>2. keys # {} => Max(keys) \in keys
  BY <1>1, LastKeyIsOne
<1>3. /\ sky_keymode' = IF keys = {} THEN sky_keymode ELSE Max(keys)
      /\ pending' = pending \cup keys
      /\ UNCHANGED <<hoisted, pc, mode>>
      /\ updates' \in {updates, 1}
      /\ pins' = levels
  BY DEF TIM3_IRQHandler
<1>4. /\ count' = [k \in Keys |-> CASE Active(k, levels) -> Bump(count[k])
                                    [] k \in keys -> 0
                                    [] OTHER -> count[k]]
      /\ seen' = [k \in Keys |-> CASE Active(k, levels) -> Min({seen[k] + 1, CountRange})
                                   [] k \in keys -> 0
                                   [] OTHER -> seen[k]]
  BY DEF TIM3_IRQHandler
<1>5. ASSUME NEW k \in Keys
      PROVE  /\ count'[k] \in 0 .. (CountRange - 1) /\ seen'[k] \in 0 .. CountRange
             /\ count'[k] = seen'[k] \/ seen'[k] = CountRange
             /\ count'[k] <= seen'[k]
             /\ ~Active(k, levels) /\ seen'[k] >= 2 => seen'[k] = CountRange
  <2>1. /\ count[k] \in 0 .. (CountRange - 1) /\ seen[k] \in 0 .. CountRange
        /\ count[k] = seen[k] \/ seen[k] = CountRange
        /\ count[k] <= seen[k]
    BY DEF KeyInv, TypeOK, CountsOrWrapped, Debounced
  <2>2. CASE Active(k, levels)
    <3>0. k \notin keys
      BY <2>2 DEF Recognised
    <3>1. count'[k] = Bump(count[k]) /\ seen'[k] = Min({seen[k] + 1, CountRange})
      BY <1>4, <2>2, <3>0
    <3>2. seen'[k] = IF seen[k] = CountRange THEN seen[k] ELSE seen[k] + 1
      BY <2>1, <3>1, SampleCount
    <3>3. count'[k] = IF count[k] = CountRange - 1 THEN 0 ELSE count[k] + 1
      BY <2>1, <3>1, KeyAssumption DEF Bump
    <3> QED
      BY <2>1, <2>2, <3>2, <3>3, KeyAssumption
  <2>3. CASE ~Active(k, levels) /\ k \in keys
    <3>1. count'[k] = 0 /\ seen'[k] = 0
      BY <1>4, <2>3
    <3> QED
      BY <3>1, KeyAssumption
  <2>4. CASE ~Active(k, levels) /\ k \notin keys
    <3>1. count'[k] = count[k] /\ seen'[k] = seen[k]
      BY <1>4, <2>4
    <3>2. ~(count[k] >= 2)
      BY <2>4 DEF Recognised
    <3> QED
      BY <2>1, <3>1, <3>2, KeyAssumption
  <2> QED
    BY <2>2, <2>3, <2>4
<1>6. TypeOK'
  <2>1. count' \in [Keys -> 0 .. (CountRange - 1)] /\ seen' \in [Keys -> 0 .. CountRange]
    BY <1>4, <1>5
  <2> QED
    BY <1>1, <1>2, <1>3, <2>1 DEF KeyInv, TypeOK
<1>7. NoPhantomKey' /\ KeyIsGenuine'
  BY <1>2, <1>3 DEF KeyInv, NoPhantomKey, KeyIsGenuine
<1>8. Debounced' /\ CountsOrWrapped'
  BY <1>3, <1>5 DEF Debounced, CountsOrWrapped, Active
<1> QED
  BY <1>6, <1>7, <1>8 DEF KeyInv

LEMMA NextKeyInv == KeyInv /\ [Next]_vars => KeyInv'
<1> SUFFICES ASSUME KeyInv, [Next]_vars
             PROVE  KeyInv'
  OBVIOUS
<1> USE DEF KeyInv, TypeOK, NoPhantomKey, KeyIsGenuine, Debounced, CountsOrWrapped, Active
<1>1. CASE EnterLoop
  BY <1>1 DEF EnterLoop
<1>2. CASE Poll
  BY <1>2 DEF Poll
<1>3. CASE PrintAndReset
  BY <1>3 DEF PrintAndReset
<1>4. ASSUME NEW levels \in [Keys -> {0, 1}], TIM3_IRQHandler(levels)
      PROVE  KeyInv'
  BY <1>4, TickKeepsKeyInv
<1>5. CASE ByteArrives
  BY <1>5 DEF ByteArrives
<1>6. CASE UNCHANGED vars
  BY <1>6 DEF vars
<1> QED
  BY <1>1, <1>2, <1>3, <1>4, <1>5, <1>6 DEF Next, Main

\* Every reachable state of the timer handler and main's loop satisfies KeyInv.
THEOREM KeyScanIsSound == Spec => []KeyInv
<1>1. Init => KeyInv
  BY InitKeyInv
<1>2. KeyInv /\ [Next]_vars => KeyInv'
  BY NextKeyInv
<1> QED
  BY <1>1, <1>2, PTL DEF Spec

\* main prints no key that was not recognised since it was last printed, however the
\* handler and main interleave on sky_keymode.
THEOREM NoKeyOutOfNothing == Spec => []NoPhantomKey
<1>1. KeyInv => NoPhantomKey
  BY DEF KeyInv
<1> QED
  BY <1>1, KeyScanIsSound, PTL

\* Two active samples are needed and are enough, but for a counter that wrapped: with
\* the 16 bits of the code as with any other width.
THEOREM BounceIsFiltered == Spec => []Debounced
<1>1. KeyInv => Debounced
  BY DEF KeyInv
<1> QED
  BY <1>1, KeyScanIsSound, PTL

=============================================================================
