---------------------------- MODULE MCMultiplier ----------------------------
(* An instance of Multiplier for TLC. *)
EXTENDS Multiplier

(* No guard reads `caller`, so states that differ in it alone are one. *)
View == <<now, multiplierVars, roleVars>>

MCMultipliers == 0..(MAX_UI_MULTIPLIER + 1)
MCTimes       == 0..(MaxEffectiveAt + 1)
=============================================================================
