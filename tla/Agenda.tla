-------------------------------- MODULE Agenda --------------------------------
(***************************************************************************)
(* What lwIP's timeouts promise: an agenda in the order of the time each   *)
(* entry has left, first come first served among equals.  A check gives    *)
(* the agenda some time, hands out the entries that time covers one after  *)
(* the other, each before the next is looked at, and comes to an end.      *)
(***************************************************************************)
EXTENDS Integers, Sequences

CONSTANTS Handlers, Times

VARIABLES agenda,   \* sequence of [h : Handlers, left : Nat]
          credit,   \* the time this check has not spent yet
          mode      \* "idle", "checking" or "running" a handler

agendaVars == <<agenda, credit, mode>>

Init ==
  /\ credit = 0 /\ mode = "idle"
  /\ \A i \in 1 .. (Len(agenda) - 1) : agenda[i].left <= agenda[i + 1].left

\* A new entry comes after those that have as much time left or less.
Set(h, ms) ==
  \E i \in 0 .. Len(agenda) :
    /\ \A j \in DOMAIN agenda : agenda[j].left <= ms <=> j <= i
    /\ agenda' = SubSeq(agenda, 1, i) \o <<[h |-> h, left |-> ms]>>
                   \o SubSeq(agenda, i + 1, Len(agenda))

\* The first entry of h goes; the others keep their time.
Cancel(h) ==
  \E i \in DOMAIN agenda :
    /\ agenda[i].h = h /\ \A j \in 1 .. (i - 1) : agenda[j].h # h
    /\ agenda' = SubSeq(agenda, 1, i - 1) \o SubSeq(agenda, i + 1, Len(agenda))

Open ==
  /\ mode = "idle" /\ agenda # <<>>
  /\ mode' = "checking" /\ credit' \in Nat /\ UNCHANGED agenda

Expire ==
  /\ mode = "checking"
  /\ agenda # <<>> /\ Head(agenda).left <= credit
  /\ credit' = credit - Head(agenda).left
  /\ agenda' = [i \in 1 .. (Len(agenda) - 1) |->
                  [agenda[i + 1] EXCEPT !.left = @ - Head(agenda).left]]
  /\ mode' = "running"

\* The handler is done, and may have set its timeout again.
Finish ==
  /\ mode = "running" /\ mode' = "checking"
  /\ UNCHANGED agenda \/ \E h \in Handlers, ms \in Times : Set(h, ms)
  /\ UNCHANGED credit

Close ==
  /\ mode = "checking"
  /\ agenda = <<>> \/ Head(agenda).left > credit
  /\ mode' = "idle" /\ credit' = 0 /\ UNCHANGED agenda

Change ==
  /\ mode # "checking"
  /\ \E h \in Handlers : Cancel(h) \/ \E ms \in Times : Set(h, ms)
  /\ UNCHANGED <<credit, mode>>

Next == Open \/ Expire \/ Finish \/ Close \/ Change

Safety == Init /\ [][Next]_agendaVars

ChecksEnd == mode = "checking" ~> mode = "idle"

Spec == Safety /\ ChecksEnd

===============================================================================
