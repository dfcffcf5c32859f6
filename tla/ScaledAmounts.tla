--------------------------- MODULE ScaledAmounts ---------------------------
(***************************************************************************)
(* The display arithmetic of an asset token (src/test/lib/mocks/           *)
(* MockB20Asset): raw units are scaled by the multiplier, a fixed-point    *)
(* number with WAD_PRECISION for 1.0, and every division rounds down.  The *)
(* products are checked 256-bit arithmetic, so each conversion is paired   *)
(* with the condition under which it does not revert.                      *)
(***************************************************************************)
EXTENDS Integers, FiniteSets

CONSTANTS
  WAD_PRECISION,      \* 1.0
  MAX_UI_MULTIPLIER,  \* type(uint128).max
  MAX_SUPPLY_CAP,     \* type(uint128).max
  MaxUint             \* type(uint256).max

ASSUME ScaleAssumption ==
  /\ MAX_UI_MULTIPLIER \in Nat /\ MAX_SUPPLY_CAP \in Nat /\ MaxUint \in Nat
  /\ WAD_PRECISION \in 1..MAX_UI_MULTIPLIER
  /\ MAX_SUPPLY_CAP * MAX_UI_MULTIPLIER <= MaxUint

\* Mutants of ToUIAmount: rounded up; not scaled back.
ToUIAmount_roundUp(m, rawAmount) ==
  (rawAmount * m + WAD_PRECISION - 1) \div WAD_PRECISION
ToUIAmount_unscaled(m, rawAmount) == rawAmount * m

ToUIAmount(m, rawAmount) == (rawAmount * m) \div WAD_PRECISION
ToUIFits(m, rawAmount)   == rawAmount * m <= MaxUint

FromUIAmount(m, uiAmount) == (uiAmount * WAD_PRECISION) \div m
FromUIFits(m, uiAmount)   == uiAmount * WAD_PRECISION <= MaxUint

VARIABLES
  multiplier,  \* the multiplier in force
  mine,        \* one holder's raw balance
  others       \* the raw balance of everybody else

vars == <<multiplier, mine, others>>

TotalSupply   == mine + others
RoundTrip(r)  == FromUIAmount(multiplier, ToUIAmount(multiplier, r))
Multipliers   == 1..MAX_UI_MULTIPLIER

ScaledInit ==
  /\ multiplier = WAD_PRECISION
  /\ mine \in 0..MAX_SUPPLY_CAP
  /\ others \in 0..(MAX_SUPPLY_CAP - mine)

(* The multiplier in force changes; balances do not. *)
Rescale ==
  /\ multiplier' \in Multipliers
  /\ UNCHANGED <<mine, others>>

ScaledSpec == ScaledInit /\ [][Rescale]_vars

-----------------------------------------------------------------------------
(* Properties.                                                             *)

(***************************************************************************)
(* No balance and no supply a token can reach makes the UI reads revert,   *)
(* and what toUIAmount returns for it can be converted back: the ceilings  *)
(* of cap and multiplier together keep the products within 256 bits.       *)
(***************************************************************************)
ReadsNeverOverflow ==
  /\ ToUIFits(multiplier, TotalSupply)
  /\ FromUIFits(multiplier, ToUIAmount(multiplier, TotalSupply))

(***************************************************************************)
(* A round trip from raw units to displayed ones and back never gains, and *)
(* loses less than one unit more than WAD_PRECISION / multiplier.          *)
(***************************************************************************)
RoundTripBounded ==
  /\ RoundTrip(mine) <= mine
  /\ (mine - RoundTrip(mine) - 1) * multiplier < WAD_PRECISION

(***************************************************************************)
(* totalSupplyUI covers the displayed balances and exceeds their sum by    *)
(* less than one unit per further holder, at every multiplier.             *)
(***************************************************************************)
UISupplyCoversHolders ==
  LET sum == ToUIAmount(multiplier, mine) + ToUIAmount(multiplier, others)
  IN  ToUIAmount(multiplier, TotalSupply) \in {sum, sum + 1}

(***************************************************************************)
(* docs/b20/concepts/multipliers.md:33 and docs/b20/guides/                *)
(* scheduling-stock-splits.md:54: a round trip through toUIAmount and      *)
(* fromUIAmount can lose up to one unit in the last place.  After a        *)
(* reverse split it loses up to the reciprocal of the scale.               *)
(***************************************************************************)
RoundTripLosesOneUnitAtMost == mine - RoundTrip(mine) <= 1
=============================================================================
