-------------------------- MODULE MultiplierProofs --------------------------
(***************************************************************************)
(* The UI multiplier, for every width of its fields, every set of inputs   *)
(* and every clock: what is in force stays in range, the events suffice to *)
(* know it, and the token implements MultiplierTimeline.                   *)
(***************************************************************************)
EXTENDS Multiplier, TLAPS

(* A value that fits its field is stored as it is. *)
LEMMA PackIsExact ==
  ASSUME NEW m \in 0..MAX_UI_MULTIPLIER, NEW at \in 0..MaxEffectiveAt
  PROVE  Pack(m, at) = [multiplier |-> m, effectiveAt |-> at]
<1>1. m % (MAX_UI_MULTIPLIER + 1) = m
  BY MultiplierAssumption
<1>2. at % (MaxEffectiveAt + 1) = at
  BY MultiplierAssumption
<1>3. QED
  BY <1>1, <1>2 DEF Pack

(***************************************************************************)
(* The inductive invariant.  A pending change has a value; while it is     *)
(* live the reader has recorded it next to the multiplier in force, and    *)
(* afterwards the reader's new multiplier is the one in force.             *)
(***************************************************************************)
PendingHasValue == pending.effectiveAt # 0 => pending.multiplier # 0

RecordedWhileLive ==
  Live => indexed = [old |-> CurrentMultiplier, new |-> pending.multiplier,
                     at |-> pending.effectiveAt]

RecordedOtherwise == ~Live => indexed.new = UIMultiplier /\ indexed.at <= now

MInv == MultiplierTypeOK /\ PendingHasValue /\ RecordedWhileLive /\ RecordedOtherwise

(* The invariant holds in a planted token. *)
LEMMA InvInit == MultiplierInit => MInv
<1> SUFFICES ASSUME MultiplierInit
             PROVE  MInv
  OBVIOUS
<1> USE MultiplierAssumption DEF MultiplierInit, NoPending
<1>1. MultiplierTypeOK
  BY DEF MultiplierTypeOK
<1>2. ~Live /\ ~Matured
  BY DEF Live, Matured
<1>3. QED
  BY <1>1, <1>2 DEF MInv, PendingHasValue, RecordedWhileLive, RecordedOtherwise,
                    UIMultiplier, CurrentMultiplier

(* What is in force, and what is stored when a live change is folded. *)
LEMMA InForce ==
  ASSUME MInv
  PROVE  /\ UIMultiplier \in 1..MAX_UI_MULTIPLIER
         /\ CurrentMultiplier \in 1..MAX_UI_MULTIPLIER
         /\ Live => UIMultiplier = CurrentMultiplier
BY MultiplierAssumption
   DEF MInv, MultiplierTypeOK, PendingHasValue, UIMultiplier, CurrentMultiplier, Live, Matured

(* Scheduling keeps the invariant: a matured change is folded before it. *)
LEMMA UpdateUIKeepsInv ==
  ASSUME MInv, NEW sender, NEW m \in Multipliers, NEW at \in Times,
         UpdateUIMultiplier(sender, m, at), now' = now
  PROVE  MInv'
<1> USE MultiplierAssumption
<1>1. /\ m \in 1..MAX_UI_MULTIPLIER /\ at \in 1..MaxEffectiveAt /\ at > now
      /\ ~Live
      /\ indexed' = [old |-> UIMultiplier, new |-> m, at |-> at]
      /\ multiplier' = IF Matured THEN pending.multiplier ELSE multiplier
  BY DEF UpdateUIMultiplier, InRange, OnUpdated, MInv, MultiplierTypeOK
<1>2. pending' = [multiplier |-> m, effectiveAt |-> at]
  BY <1>1, PackIsExact DEF UpdateUIMultiplier
<1>3. Live'
  BY <1>1, <1>2 DEF Live
<1>4. multiplier' \in 0..MAX_UI_MULTIPLIER /\ CurrentMultiplier' = UIMultiplier
  BY <1>1 DEF MInv, MultiplierTypeOK, PendingHasValue, CurrentMultiplier, UIMultiplier, Matured
<1>5. UIMultiplier \in Nat
  BY InForce
<1>6. MultiplierTypeOK'
  BY <1>1, <1>2, <1>4, <1>5 DEF MInv, MultiplierTypeOK
<1>7. QED
  BY <1>1, <1>2, <1>3, <1>4, <1>6
     DEF MInv, PendingHasValue, RecordedWhileLive, RecordedOtherwise

(* Cancelling a live change keeps the invariant. *)
LEMMA CancelKeepsInv ==
  ASSUME MInv, NEW sender, CancelUIMultiplierUpdate(sender), now' = now
  PROVE  MInv'
<1> USE MultiplierAssumption
<1>1. Live /\ pending' = NoPending /\ multiplier' = multiplier
  BY DEF CancelUIMultiplierUpdate
<1>2. indexed = [old |-> CurrentMultiplier, new |-> pending.multiplier,
                 at |-> pending.effectiveAt]
  BY <1>1 DEF MInv, RecordedWhileLive
<1>3. indexed' = [old |-> CurrentMultiplier, new |-> CurrentMultiplier, at |-> 0]
  BY <1>2 DEF CancelUIMultiplierUpdate, OnCancelled
<1>4. ~Live' /\ ~Matured'
  BY <1>1 DEF Live, Matured, NoPending, MInv, MultiplierTypeOK
<1>5. UIMultiplier' = CurrentMultiplier
  BY <1>1, <1>4 DEF UIMultiplier, CurrentMultiplier
<1>6. CurrentMultiplier \in Nat
  BY InForce
<1>7. MultiplierTypeOK'
  BY <1>1, <1>3, <1>6 DEF MInv, MultiplierTypeOK, NoPending
<1>8. QED
  BY <1>1, <1>3, <1>4, <1>5, <1>7
     DEF MInv, MultiplierTypeOK, PendingHasValue, RecordedWhileLive, RecordedOtherwise, NoPending

(* An immediate change keeps the invariant: the pending slot is emptied. *)
LEMMA UpdateNowKeepsInv ==
  ASSUME MInv, NEW sender, NEW m \in Multipliers, UpdateMultiplier(sender, m), now' = now
  PROVE  MInv'
<1> USE MultiplierAssumption
<1>1. /\ m \in 1..MAX_UI_MULTIPLIER
      /\ pending' = NoPending /\ multiplier' = m
      /\ indexed' = [old |-> UIMultiplier, new |-> m, at |-> now]
  BY DEF UpdateMultiplier, InRange, OnUpdated
<1>2. ~Live' /\ ~Matured'
  BY <1>1 DEF Live, Matured, NoPending, MInv, MultiplierTypeOK
<1>3. UIMultiplier' = m
  BY <1>1, <1>2 DEF UIMultiplier, CurrentMultiplier
<1>4. UIMultiplier \in Nat
  BY InForce
<1>5. MultiplierTypeOK'
  BY <1>1, <1>4 DEF MInv, MultiplierTypeOK, NoPending
<1>6. QED
  BY <1>1, <1>2, <1>3, <1>5
     DEF MInv, MultiplierTypeOK, PendingHasValue, RecordedWhileLive, RecordedOtherwise, NoPending

(* A change that was live is in force from its time on; nothing is written. *)
LEMMA TickKeepsInv ==
  ASSUME MInv, Tick
  PROVE  MInv'
<1> USE MultiplierAssumption DEF MInv, MultiplierTypeOK
<1>1. /\ now' > now /\ now' \in 1..MaxTime
      /\ UNCHANGED <<multiplier, pending, indexed>>
  BY DEF Tick, multiplierVars
<1>2. MultiplierTypeOK' /\ PendingHasValue'
  BY <1>1 DEF PendingHasValue
<1>3. CASE Live'
  <2>1. Live
    BY <1>1, <1>3 DEF Live
  <2>2. QED
    BY <1>1, <1>2, <1>3, <2>1 DEF RecordedWhileLive, RecordedOtherwise, CurrentMultiplier
<1>4. CASE ~Live' /\ Live
  <2>1. Matured'
    BY <1>1, <1>4 DEF Live, Matured
  <2>2. indexed'.new = UIMultiplier' /\ indexed'.at <= now'
    BY <1>1, <1>4, <2>1 DEF RecordedWhileLive, UIMultiplier, Live
  <2>3. QED
    BY <1>2, <1>4, <2>2 DEF RecordedWhileLive, RecordedOtherwise
<1>5. CASE ~Live' /\ ~Live
  <2>1. UIMultiplier' = UIMultiplier
    BY <1>1, <1>5 DEF UIMultiplier, CurrentMultiplier, Matured
  <2>2. QED
    BY <1>1, <1>2, <1>5, <2>1 DEF RecordedWhileLive, RecordedOtherwise
<1>6. QED
  BY <1>3, <1>4, <1>5

(* A step of the roles touches nothing the invariant speaks of. *)
LEMMA SameKeepsInv ==
  ASSUME MInv, UNCHANGED <<now, multiplierVars>>
  PROVE  MInv'
BY DEF MInv, MultiplierTypeOK, PendingHasValue, RecordedWhileLive, RecordedOtherwise,
       Live, Matured, UIMultiplier, CurrentMultiplier, multiplierVars

(* The inductive invariant holds in every reachable state of the multiplier. *)
THEOREM MultiplierInductive == MultiplierSpec => []MInv
<1>1. MInv /\ [MultiplierNext]_vars => MInv'
  <2> SUFFICES ASSUME MInv, [MultiplierNext]_vars
               PROVE  MInv'
    OBVIOUS
  <2>1. CASE Tick
    BY <2>1, TickKeepsInv
  <2>2. ASSUME NEW sender \in Callers, OperatorStep(sender), now' = now
        PROVE  MInv'
    BY <2>2, UpdateUIKeepsInv, UpdateNowKeepsInv, CancelKeepsInv DEF OperatorStep
  <2>3. CASE UNCHANGED <<now, multiplierVars>>
    BY <2>3, SameKeepsInv
  <2>4. QED
    BY <2>1, <2>2, <2>3 DEF MultiplierNext, vars
<1>2. QED
  BY InvInit, <1>1, PTL DEF MultiplierSpec

(***************************************************************************)
(* The variables keep their types.                                         *)
(***************************************************************************)
THEOREM MultiplierTypeCorrect == MultiplierSpec => []MultiplierTypeOK
<1>1. MInv => MultiplierTypeOK
  BY DEF MInv
<1>2. QED
  BY MultiplierInductive, <1>1, PTL

(***************************************************************************)
(* The multiplier in force is never 0 and never above the ceiling.         *)
(***************************************************************************)
THEOREM MultiplierRange == MultiplierSpec => []MultiplierInForceInRange
<1>1. MInv => MultiplierInForceInRange
  BY InForce, MultiplierAssumption
     DEF MultiplierInForceInRange, InRange, NewUIMultiplier, MInv, MultiplierTypeOK,
         PendingHasValue, Live
<1>2. QED
  BY MultiplierInductive, <1>1, PTL

(***************************************************************************)
(* Events and clock suffice to know the multiplier now and to come.        *)
(***************************************************************************)
THEOREM IndexersCorrect == MultiplierSpec => []IndexersAgree
<1>1. MInv => IndexersAgree
  <2> SUFFICES ASSUME MInv
               PROVE  IndexersAgree
    OBVIOUS
  <2> USE DEF MInv, MultiplierTypeOK
  <2>1. CASE Live
    <3>1. ~(now >= indexed.at) /\ indexed.old = CurrentMultiplier
          /\ indexed.new = pending.multiplier
      BY <2>1 DEF RecordedWhileLive, Live
    <3>2. QED
      BY <2>1, <3>1, InForce DEF IndexersAgree, NewUIMultiplier
  <2>2. CASE ~Live
    BY <2>2 DEF RecordedOtherwise, IndexersAgree, NewUIMultiplier
  <2>3. QED
    BY <2>1, <2>2
<1>2. QED
  BY MultiplierInductive, <1>1, PTL

(***************************************************************************)
(* The refinement: initial states map to initial states, and every step to *)
(* a step of the timeline or to a stutter.  A tick past the pending time   *)
(* is where the timeline's change takes effect.                            *)
(***************************************************************************)
Scheduled == IF Live THEN [multiplier |-> NewUIMultiplier, at |-> pending.effectiveAt]
                     ELSE [multiplier |-> 0, at |-> 0]

(* What the refinement mapping calls scheduled, with and without a live change. *)
LEMMA ScheduledWhenLive ==
  ASSUME MInv
  PROVE  /\ Live => /\ Scheduled = [multiplier |-> pending.multiplier,
                                     at |-> pending.effectiveAt]
                     /\ Scheduled # Timeline!NoChange
         /\ ~Live => Scheduled = Timeline!NoChange
BY DEF MInv, MultiplierTypeOK, Scheduled, NewUIMultiplier, Live, Timeline!NoChange

(* A planted token is a fresh timeline. *)
LEMMA InitRefines == MultiplierInit => Timeline!TimelineInit
BY DEF MultiplierInit, NoPending, Timeline!TimelineInit, Timeline!NoChange,
       Live, Matured, UIMultiplier, CurrentMultiplier

(* Scheduling implements Schedule. *)
LEMMA UpdateUIRefines ==
  ASSUME MInv, MInv', NEW sender, NEW m \in Multipliers, NEW at \in Times,
         UpdateUIMultiplier(sender, m, at), now' = now
  PROVE  Timeline!Schedule
<1> USE MultiplierAssumption
<1>1. /\ m \in 1..MAX_UI_MULTIPLIER /\ at \in 1..MaxEffectiveAt /\ at > now
      /\ ~Live
      /\ multiplier' = IF Matured THEN pending.multiplier ELSE multiplier
  BY DEF UpdateUIMultiplier, InRange, MInv, MultiplierTypeOK
<1>2. pending' = [multiplier |-> m, effectiveAt |-> at]
  BY <1>1, PackIsExact DEF UpdateUIMultiplier
<1>3. Live' /\ ~Matured'
  BY <1>1, <1>2 DEF Live, Matured
<1>4. UIMultiplier' = UIMultiplier
  BY <1>1, <1>3 DEF MInv, MultiplierTypeOK, PendingHasValue, CurrentMultiplier,
                    UIMultiplier, Matured
<1>5. Scheduled = Timeline!NoChange
  BY <1>1, ScheduledWhenLive
<1>6. Scheduled' = [multiplier |-> m, at |-> at]
  BY <1>2, <1>3 DEF Scheduled, NewUIMultiplier
<1>7. QED
  BY <1>1, <1>4, <1>5, <1>6 DEF Timeline!Schedule, Scheduled

(* Cancelling implements Cancel. *)
LEMMA CancelRefines ==
  ASSUME MInv, NEW sender, CancelUIMultiplierUpdate(sender), now' = now
  PROVE  Timeline!Cancel
<1>1. Live /\ pending' = NoPending /\ multiplier' = multiplier
  BY DEF CancelUIMultiplierUpdate
<1>2. ~Live' /\ ~Matured' /\ ~Matured
  BY <1>1 DEF Live, Matured, NoPending, MInv, MultiplierTypeOK
<1>3. UIMultiplier' = UIMultiplier
  BY <1>1, <1>2 DEF UIMultiplier, CurrentMultiplier
<1>4. Scheduled # Timeline!NoChange
  BY <1>1, ScheduledWhenLive
<1>5. Scheduled' = Timeline!NoChange
  BY <1>2 DEF Scheduled, Timeline!NoChange
<1>6. QED
  BY <1>3, <1>4, <1>5 DEF Timeline!Cancel, Scheduled

(* An immediate change implements Override. *)
LEMMA UpdateNowRefines ==
  ASSUME MInv, NEW sender, NEW m \in Multipliers, UpdateMultiplier(sender, m), now' = now
  PROVE  Timeline!Override
<1> USE MultiplierAssumption
<1>1. m \in 1..MAX_UI_MULTIPLIER /\ pending' = NoPending /\ multiplier' = m
  BY DEF UpdateMultiplier, InRange
<1>2. ~Live' /\ ~Matured'
  BY <1>1 DEF Live, Matured, NoPending, MInv, MultiplierTypeOK
<1>3. UIMultiplier' = m
  BY <1>1, <1>2 DEF UIMultiplier, CurrentMultiplier
<1>4. Scheduled' = Timeline!NoChange
  BY <1>2 DEF Scheduled, Timeline!NoChange
<1>5. QED
  BY <1>1, <1>3, <1>4 DEF Timeline!Override, Scheduled

(* The passing of time implements Pass. *)
LEMMA TickRefines ==
  ASSUME MInv, Tick
  PROVE  Timeline!Pass
<1> USE DEF MInv, MultiplierTypeOK
<1>1. now' > now /\ now' \in Nat /\ UNCHANGED <<multiplier, pending>>
  BY DEF Tick, multiplierVars
<1>2. CASE Live' /\ Live
  <2>1. UIMultiplier' = UIMultiplier /\ Scheduled' = Scheduled
    BY <1>1, <1>2 DEF UIMultiplier, CurrentMultiplier, Live, Matured,
                      Scheduled, NewUIMultiplier
  <2>2. ~(now' >= Scheduled.at)
    BY <1>1, <1>2, ScheduledWhenLive DEF Live
  <2>3. QED
    BY <1>1, <2>1, <2>2 DEF Timeline!Pass, Scheduled
<1>3. CASE ~Live' /\ Live
  <2>1. /\ Scheduled # Timeline!NoChange
        /\ now' >= Scheduled.at
        /\ Scheduled.multiplier = pending.multiplier
    BY <1>1, <1>3, ScheduledWhenLive DEF Live
  <2>2. UIMultiplier' = pending.multiplier
    BY <1>1, <1>3 DEF UIMultiplier, Live, Matured
  <2>3. Scheduled' = Timeline!NoChange
    BY <1>3 DEF Scheduled, Timeline!NoChange
  <2>4. QED
    BY <1>1, <2>1, <2>2, <2>3 DEF Timeline!Pass, Scheduled
<1>4. CASE ~Live
  <2>1. ~Live' /\ Scheduled = Timeline!NoChange /\ Scheduled' = Timeline!NoChange
    BY <1>1, <1>4, ScheduledWhenLive DEF Live, Scheduled, Timeline!NoChange
  <2>2. UIMultiplier' = UIMultiplier
    BY <1>1, <1>4, <2>1 DEF UIMultiplier, CurrentMultiplier, Matured
  <2>3. QED
    BY <1>1, <2>1, <2>2 DEF Timeline!Pass, Scheduled
<1>5. Live' => Live
  BY <1>1 DEF Live
<1>6. QED
  BY <1>2, <1>3, <1>4, <1>5

(* A step of the roles is a stutter of the timeline. *)
LEMMA SameRefines ==
  ASSUME UNCHANGED <<now, multiplierVars>>
  PROVE  UNCHANGED Timeline!timelineVars
BY DEF multiplierVars, Timeline!timelineVars, Live, Matured, UIMultiplier,
       NewUIMultiplier, CurrentMultiplier

(***************************************************************************)
(* A scheduled change is neither lost nor early nor late: the token        *)
(* implements MultiplierTimeline.                                          *)
(***************************************************************************)
THEOREM TimelineImplemented == MultiplierSpec => ImplementsTimeline
<1>1. MInv /\ MInv' /\ [MultiplierNext]_vars
        => [Timeline!TimelineNext]_(Timeline!timelineVars)
  <2> SUFFICES ASSUME MInv, MInv', [MultiplierNext]_vars
               PROVE  [Timeline!TimelineNext]_(Timeline!timelineVars)
    OBVIOUS
  <2>1. CASE Tick
    BY <2>1, TickRefines DEF Timeline!TimelineNext
  <2>2. ASSUME NEW sender \in Callers, OperatorStep(sender), now' = now
        PROVE  Timeline!TimelineNext
    BY <2>2, UpdateUIRefines, UpdateNowRefines, CancelRefines
       DEF OperatorStep, Timeline!TimelineNext
  <2>3. CASE UNCHANGED <<now, multiplierVars>>
    BY <2>3, SameRefines
  <2>4. QED
    BY <2>1, <2>2, <2>3 DEF MultiplierNext, vars
<1>2. QED
  BY InitRefines, MultiplierInductive, <1>1, PTL
     DEF MultiplierSpec, ImplementsTimeline, Timeline!TimelineSpec
=============================================================================
