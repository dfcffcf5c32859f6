------------------------- MODULE MultiplierTimeline -------------------------
(***************************************************************************)
(* What an asset token promises about its UI multiplier: there is a        *)
(* current multiplier and at most one scheduled change, which takes effect *)
(* at the first block at or after its time unless it is cancelled or       *)
(* overridden before.  Multiplier, where nothing is written when a change  *)
(* takes effect, is shown to implement this module.                        *)
(***************************************************************************)
EXTENDS Naturals

CONSTANTS
  DefaultMultiplier,  \* the multiplier of a fresh token
  Allowed             \* the multipliers that may be set

VARIABLES
  now,        \* the time of the block
  current,    \* the multiplier in force
  scheduled   \* the change to come, or NoChange

timelineVars == <<now, current, scheduled>>

NoChange == [multiplier |-> 0, at |-> 0]

TimelineInit ==
  /\ now \in Nat
  /\ current = DefaultMultiplier
  /\ scheduled = NoChange

Schedule ==
  /\ scheduled = NoChange
  /\ scheduled' \in [multiplier : Allowed, at : Nat]
  /\ scheduled'.at > now
  /\ UNCHANGED <<now, current>>

Cancel ==
  /\ scheduled # NoChange
  /\ scheduled' = NoChange
  /\ UNCHANGED <<now, current>>

Override ==
  /\ current' \in Allowed
  /\ scheduled' = NoChange
  /\ UNCHANGED now

Pass ==
  /\ now' > now
  /\ IF scheduled # NoChange /\ now' >= scheduled.at
     THEN current' = scheduled.multiplier /\ scheduled' = NoChange
     ELSE UNCHANGED <<current, scheduled>>

TimelineNext ==
  \/ Schedule
  \/ Cancel
  \/ Override
  \/ Pass

TimelineSpec == TimelineInit /\ [][TimelineNext]_timelineVars
=============================================================================
