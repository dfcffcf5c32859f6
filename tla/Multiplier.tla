----------------------------- MODULE Multiplier -----------------------------
(***************************************************************************)
(* The UI multiplier of an asset token (src/test/lib/mocks/MockB20Asset):  *)
(* a stored multiplier, where 0 stands for 1.0, and one pending change     *)
(* that takes effect by the clock alone.  Nothing is written when it does; *)
(* reads compare the clock with the pending time, and the next schedule    *)
(* folds a matured change into the stored multiplier.                      *)
(***************************************************************************)
EXTENDS B20Roles

CONSTANTS
  OPERATOR_ROLE,
  WAD_PRECISION,      \* 1.0
  MAX_UI_MULTIPLIER,  \* type(uint128).max
  MaxEffectiveAt,     \* type(uint64).max
  MaxTime,            \* bounds the clock for TLC
  Multipliers,        \* the multipliers operators pass
  Times               \* the effective times operators pass

ASSUME MultiplierAssumption ==
  /\ OPERATOR_ROLE \in Roles \ {DEFAULT_ADMIN_ROLE}
  /\ MAX_UI_MULTIPLIER \in Nat
  /\ WAD_PRECISION \in 1..MAX_UI_MULTIPLIER
  /\ MaxEffectiveAt \in Nat /\ MaxTime \in Nat \ {0}
  /\ Multipliers \subseteq Nat /\ Times \subseteq Nat

VARIABLES
  now,         \* block.timestamp
  multiplier,  \* the stored multiplier, 0 when never set
  pending,     \* the pending change; effectiveAt 0 when there is none
  indexed      \* what a reader of the events alone has recorded

multiplierVars == <<multiplier, pending, indexed>>
vars           == <<now, multiplierVars, roleVars, caller>>

NoPending == [multiplier |-> 0, effectiveAt |-> 0]

\* The variables of this module; those of B20Roles have their own invariant.
MultiplierTypeOK ==
  /\ now \in 1..MaxTime
  /\ multiplier \in 0..MAX_UI_MULTIPLIER
  /\ pending \in [multiplier : 0..MAX_UI_MULTIPLIER, effectiveAt : 0..MaxEffectiveAt]
  /\ indexed \in [old : Nat, new : Nat, at : Nat]

MultiplierInit ==
  /\ RolesInit
  /\ now = 1
  /\ multiplier = 0
  /\ pending = NoPending
  /\ indexed = [old |-> WAD_PRECISION, new |-> WAD_PRECISION, at |-> 0]

-----------------------------------------------------------------------------
(* Reads.                                                                  *)

CurrentMultiplier == IF multiplier = 0 THEN WAD_PRECISION ELSE multiplier

Live    == pending.effectiveAt > now
Matured == pending.effectiveAt # 0 /\ ~Live

UIMultiplier == IF Matured THEN pending.multiplier ELSE CurrentMultiplier

NewUIMultiplier == IF Live THEN pending.multiplier ELSE UIMultiplier

(* The events, as their reader folds them: an update is the multiplier     *)
(* before and after a time, a cancellation takes the change back.          *)
OnUpdated(old, new, at) == [old |-> old, new |-> new, at |-> at]
OnCancelled             == [indexed EXCEPT !.new = indexed.old, !.at = 0]

-----------------------------------------------------------------------------
(* Operations of the operator.                                             *)

InRange(m) == 0 < m /\ m <= MAX_UI_MULTIPLIER

\* The fields of the pending slot are 128 and 64 bits wide.
Pack(m, at) == [multiplier  |-> m % (MAX_UI_MULTIPLIER + 1),
                effectiveAt |-> at % (MaxEffectiveAt + 1)]

\* Mutants of UpdateUIMultiplier: a matured change is overwritten, as the
\* ERC-8056 reference does; values above the ceiling are accepted and truncated.
UpdateUIMultiplier_noFold(sender, newMultiplier, effectiveAt) ==
  /\ RequireRole(sender, OPERATOR_ROLE)
  /\ InRange(newMultiplier)
  /\ now < effectiveAt /\ effectiveAt <= MaxEffectiveAt
  /\ ~Live
  /\ pending' = Pack(newMultiplier, effectiveAt)
  /\ indexed' = OnUpdated(CurrentMultiplier, newMultiplier, effectiveAt)
  /\ UNCHANGED multiplier
UpdateUIMultiplier_noCeiling(sender, newMultiplier, effectiveAt) ==
  /\ RequireRole(sender, OPERATOR_ROLE)
  /\ newMultiplier > 0
  /\ now < effectiveAt /\ effectiveAt <= MaxEffectiveAt
  /\ ~Live
  /\ multiplier' = IF Matured THEN pending.multiplier ELSE multiplier
  /\ pending' = Pack(newMultiplier, effectiveAt)
  /\ indexed' = OnUpdated(UIMultiplier, newMultiplier, effectiveAt)

(* With no live change left the effective multiplier is what the fold      *)
(* makes current, so `old` is UIMultiplier.                                *)
UpdateUIMultiplier(sender, newMultiplier, effectiveAt) ==
  /\ RequireRole(sender, OPERATOR_ROLE)
  /\ InRange(newMultiplier)
  /\ now < effectiveAt /\ effectiveAt <= MaxEffectiveAt
  /\ ~Live
  /\ multiplier' = IF Matured THEN pending.multiplier ELSE multiplier
  /\ pending' = Pack(newMultiplier, effectiveAt)
  /\ indexed' = OnUpdated(UIMultiplier, newMultiplier, effectiveAt)

CancelUIMultiplierUpdate(sender) ==
  /\ RequireRole(sender, OPERATOR_ROLE)
  /\ Live
  /\ pending' = NoPending
  /\ indexed' = OnCancelled
  /\ UNCHANGED multiplier

\* Mutants of UpdateMultiplier: only a live change is cleared, so a matured one
\* goes on masking the new value; no range check.
UpdateMultiplier_keepsMatured(sender, newMultiplier) ==
  /\ RequireRole(sender, OPERATOR_ROLE)
  /\ InRange(newMultiplier)
  /\ multiplier' = newMultiplier
  /\ pending' = IF Live THEN NoPending ELSE pending
  /\ indexed' = OnUpdated(UIMultiplier, newMultiplier, now)
UpdateMultiplier_noRange(sender, newMultiplier) ==
  /\ RequireRole(sender, OPERATOR_ROLE)
  /\ multiplier' = newMultiplier
  /\ pending' = NoPending
  /\ indexed' = OnUpdated(UIMultiplier, newMultiplier, now)

(* A live change is also reported as cancelled, just before the update     *)
(* that overrides what the reader has recorded.                            *)
UpdateMultiplier(sender, newMultiplier) ==
  /\ RequireRole(sender, OPERATOR_ROLE)
  /\ InRange(newMultiplier)
  /\ multiplier' = newMultiplier
  /\ pending' = NoPending
  /\ indexed' = OnUpdated(UIMultiplier, newMultiplier, now)

OperatorStep(sender) ==
  \/ \E m \in Multipliers :
       \/ \E at \in Times : UpdateUIMultiplier(sender, m, at)
       \/ UpdateMultiplier(sender, m)
  \/ CancelUIMultiplierUpdate(sender)

(* A later block; the bootstrap is one transaction, within one block. *)
Tick ==
  /\ initialized
  /\ now' \in (now + 1)..MaxTime
  /\ UNCHANGED <<multiplierVars, roleVars, caller>>

MultiplierNext ==
  \/ \E sender \in Callers :
       /\ \/ OperatorStep(sender) /\ UNCHANGED roleVars
          \/ RoleStep(sender) /\ UNCHANGED multiplierVars
       /\ caller' = sender
       /\ UNCHANGED now
  \/ Tick

MultiplierSpec == MultiplierInit /\ [][MultiplierNext]_vars

-----------------------------------------------------------------------------
(* Properties.                                                             *)

(***************************************************************************)
(* The multiplier in force, read at any time of any block, is never 0 and  *)
(* never above the ceiling: fromUIAmount cannot divide by 0, and a balance *)
(* times it fits in 256 bits.                                              *)
(***************************************************************************)
MultiplierInForceInRange == InRange(UIMultiplier) /\ InRange(NewUIMultiplier)

(***************************************************************************)
(* A reader who sees only the events and the clock knows the multiplier in *)
(* force and the one to come, though no event marks the moment a scheduled *)
(* change takes effect.                                                    *)
(***************************************************************************)
IndexersAgree ==
  /\ UIMultiplier = IF now >= indexed.at THEN indexed.new ELSE indexed.old
  /\ NewUIMultiplier = indexed.new

(***************************************************************************)
(* What src/src/interfaces/IB20Asset.sol:96-97 says of the cancellation    *)
(* event: a live change is cleared only by cancelUIMultiplierUpdate and by *)
(* updateUIMultiplier.  The code refuses to schedule over a live change,   *)
(* and clears it in updateMultiplier.                                      *)
(***************************************************************************)
LiveChangeClearedAsDocumented ==
  [][(Live /\ pending' # pending /\ UNCHANGED now) =>
       \E sender \in Callers :
         \/ CancelUIMultiplierUpdate(sender)
         \/ \E m \in Multipliers, at \in Times : UpdateUIMultiplier(sender, m, at)]_vars

(***************************************************************************)
(* The token implements the timeline: a scheduled change is neither lost   *)
(* nor early nor late, whichever operations race with its time, and at     *)
(* most one is live.  The change to come is read as integrators read it.   *)
(***************************************************************************)
Timeline == INSTANCE MultiplierTimeline WITH
  DefaultMultiplier <- WAD_PRECISION,
  Allowed   <- 1..MAX_UI_MULTIPLIER,
  current   <- UIMultiplier,
  scheduled <- IF Live
               THEN [multiplier |-> NewUIMultiplier, at |-> pending.effectiveAt]
               ELSE [multiplier |-> 0, at |-> 0]

ImplementsTimeline == Timeline!TimelineSpec
=============================================================================
