------------------------------ MODULE DueSlots ------------------------------
(***************************************************************************)
(* What a scheduler promises, whatever its mechanism: each job has at most *)
(* one slot ahead; a slot is taken once, when its time has come, and leaves *)
(* only a later one behind.  Scheduler.tla is shown to implement this.     *)
(***************************************************************************)
EXTENDS Naturals

CONSTANTS Jobs, MaxTime

VARIABLES
  time,    \* the clock
  slot,    \* the slot each job waits for, 0 for none
  active   \* the <<job, slot>> pairs being run

slotVars == <<time, slot, active>>

(* Nothing ahead, or something that is still to come.                       *)
Ahead == {s \in Nat : s = 0 \/ s > time}

SlotInit == time = 0 /\ active = {} /\ slot \in [Jobs -> Nat] /\ \A j \in Jobs : slot[j] \in Ahead

Pass == time' = time + 1 /\ UNCHANGED <<slot, active>>

(* Made, edited, paused or deleted.                                         *)
Reschedule(j) ==
  /\ slot' = [slot EXCEPT ![j] = slot'[j]] /\ slot'[j] \in Ahead
  /\ UNCHANGED <<time, active>>

Take(j) ==
  /\ slot[j] \in 1..time
  /\ <<j, slot[j]>> \notin active
  /\ active' = active \cup {<<j, slot[j]>>}
  /\ slot' = [slot EXCEPT ![j] = slot'[j]] /\ slot'[j] \in Ahead
  /\ UNCHANGED time

Finish == active' \subseteq active /\ UNCHANGED <<time, slot>>

(* Runs end unfinished; a slot that was about to be taken may be lost.      *)
Crash ==
  /\ active' = {}
  /\ \A j \in Jobs : slot'[j] = slot[j] \/ slot'[j] \in Ahead
  /\ slot' = [j \in Jobs |-> slot'[j]]
  /\ UNCHANGED time

SlotNext ==
  \/ Pass \/ Finish \/ Crash
  \/ \E j \in Jobs : Reschedule(j) \/ Take(j)

SlotSpec == SlotInit /\ [][SlotNext]_slotVars
=============================================================================
