------------------------ MODULE ScaledAmountsProofs ------------------------
(***************************************************************************)
(* The display arithmetic, for every width of the words and every scale.   *)
(***************************************************************************)
EXTENDS ScaledAmounts, TLAPS

(* A quotient, by its bounds. *)
LEMMA Division ==
  ASSUME NEW n \in Nat, NEW d \in Nat \ {0}
  PROVE  /\ n \div d \in Nat
         /\ (n \div d) * d <= n
         /\ n < (n \div d) * d + d
OBVIOUS

(* A common positive factor does not reverse an inequality. *)
LEMMA Cancel ==
  ASSUME NEW x \in Int, NEW y \in Int, NEW d \in Nat \ {0}, x * d < y * d
  PROVE  x < y
OBVIOUS

(* A product with a natural number grows with its factor. *)
LEMMA Monotone ==
  ASSUME NEW x \in Nat, NEW y \in Nat, NEW d \in Nat, x <= y
  PROVE  x * d <= y * d
OBVIOUS

(* Balances stay within the cap, the multiplier within its ceiling. *)
InBounds ==
  /\ multiplier \in Multipliers
  /\ mine \in Nat /\ others \in Nat
  /\ mine + others <= MAX_SUPPLY_CAP

(* Multiplier and balances stay within their bounds in every state. *)
LEMMA InBoundsAlways == ScaledSpec => []InBounds
<1>1. ScaledInit => InBounds
  BY ScaleAssumption DEF ScaledInit, InBounds, Multipliers
<1>2. InBounds /\ [Rescale]_vars => InBounds'
  BY DEF InBounds, Rescale, vars
<1>3. QED
  BY <1>1, <1>2, PTL DEF ScaledSpec

(* A UI amount times 1.0 is within one multiplier step of the product. *)
LEMMA ToUIBounds ==
  ASSUME NEW m \in Nat, NEW r \in Nat
  PROVE  /\ ToUIAmount(m, r) \in Nat
         /\ ToUIAmount(m, r) * WAD_PRECISION <= r * m
         /\ r * m < ToUIAmount(m, r) * WAD_PRECISION + WAD_PRECISION
<1>1. r * m \in Nat
  OBVIOUS
<1>2. WAD_PRECISION \in Nat \ {0}
  BY ScaleAssumption
<1>3. QED
  BY <1>1, <1>2, Division DEF ToUIAmount

(* A raw amount times the multiplier is within one multiplier of the product. *)
LEMMA FromUIBounds ==
  ASSUME NEW m \in Nat \ {0}, NEW u \in Nat
  PROVE  /\ FromUIAmount(m, u) \in Nat
         /\ FromUIAmount(m, u) * m <= u * WAD_PRECISION
         /\ u * WAD_PRECISION < FromUIAmount(m, u) * m + m
<1>1. u * WAD_PRECISION \in Nat
  BY ScaleAssumption
<1>2. QED
  BY <1>1, Division DEF FromUIAmount

(***************************************************************************)
(* No reachable supply makes a UI read, or the conversion of what it       *)
(* returns, overflow.                                                      *)
(***************************************************************************)
THEOREM NeverOverflow == ScaledSpec => []ReadsNeverOverflow
<1>1. InBounds => ReadsNeverOverflow
  <2> SUFFICES ASSUME InBounds
               PROVE  ReadsNeverOverflow
    OBVIOUS
  <2>1. /\ TotalSupply \in Nat /\ TotalSupply <= MAX_SUPPLY_CAP
        /\ multiplier \in Nat /\ multiplier <= MAX_UI_MULTIPLIER
    BY ScaleAssumption DEF InBounds, TotalSupply, Multipliers
  <2>2. TotalSupply * multiplier <= MAX_SUPPLY_CAP * multiplier
    BY <2>1, ScaleAssumption, Monotone
  <2>3. MAX_SUPPLY_CAP * multiplier <= MAX_SUPPLY_CAP * MAX_UI_MULTIPLIER
    <3>1. multiplier * MAX_SUPPLY_CAP <= MAX_UI_MULTIPLIER * MAX_SUPPLY_CAP
      BY <2>1, ScaleAssumption, Monotone
    <3>2. QED
      BY <3>1, <2>1, ScaleAssumption
  <2>4. TotalSupply * multiplier <= MaxUint
    <3> DEFINE p == TotalSupply * multiplier
               q == MAX_SUPPLY_CAP * multiplier
               s == MAX_SUPPLY_CAP * MAX_UI_MULTIPLIER
    <3>1. p \in Int /\ q \in Int /\ s \in Int /\ MaxUint \in Int
      BY <2>1, ScaleAssumption
    <3>2. p <= q /\ q <= s /\ s <= MaxUint
      BY <2>2, <2>3, ScaleAssumption
    <3> HIDE DEF p, q, s
    <3>3. p <= MaxUint
      BY <3>1, <3>2
    <3>4. QED
      BY <3>3 DEF p
  <2>5. ToUIAmount(multiplier, TotalSupply) * WAD_PRECISION <= TotalSupply * multiplier
    BY <2>1, ToUIBounds
  <2>6. ToUIAmount(multiplier, TotalSupply) * WAD_PRECISION <= MaxUint
    <3> DEFINE p == TotalSupply * multiplier
               u == ToUIAmount(multiplier, TotalSupply) * WAD_PRECISION
    <3>1. p \in Int /\ u \in Int /\ MaxUint \in Int
      BY <2>1, ToUIBounds, ScaleAssumption
    <3>2. u <= p /\ p <= MaxUint
      BY <2>4, <2>5
    <3> HIDE DEF p, u
    <3>3. u <= MaxUint
      BY <3>1, <3>2
    <3>4. QED
      BY <3>3 DEF u
  <2>7. QED
    BY <2>4, <2>6 DEF ReadsNeverOverflow, ToUIFits, FromUIFits
<1>2. QED
  BY InBoundsAlways, <1>1, PTL

(***************************************************************************)
(* A round trip never gains and loses less than one unit more than the     *)
(* reciprocal of the scale.                                                *)
(***************************************************************************)
THEOREM RoundTripCorrect == ScaledSpec => []RoundTripBounded
<1>1. InBounds => RoundTripBounded
  <2> SUFFICES ASSUME InBounds
               PROVE  RoundTripBounded
    OBVIOUS
  <2> DEFINE m == multiplier
             u == ToUIAmount(m, mine)
             t == FromUIAmount(m, u)
  <2>1. m \in Nat \ {0} /\ mine \in Nat
    BY DEF InBounds, Multipliers
  <2>2. /\ u \in Nat
        /\ u * WAD_PRECISION <= mine * m
        /\ mine * m < u * WAD_PRECISION + WAD_PRECISION
    BY <2>1, ToUIBounds
  <2>3. /\ t \in Nat
        /\ t * m <= u * WAD_PRECISION
        /\ u * WAD_PRECISION < t * m + m
    BY <2>1, <2>2, FromUIBounds
  <2>4. RoundTrip(mine) = t
    BY DEF RoundTrip
  <2> HIDE DEF m, u, t
  <2>5. WAD_PRECISION \in Nat
    BY ScaleAssumption
  <2>6. t <= mine
    <3>1. t * m < (mine + 1) * m
      BY <2>1, <2>2, <2>3, <2>5
    <3>2. QED
      BY <3>1, <2>1, <2>3, Cancel
  <2>7. (mine - t - 1) * m < WAD_PRECISION
    <3>1. (mine - t - 1) * m = mine * m - t * m - m
      BY <2>1, <2>3
    <3>2. QED
      BY <3>1, <2>1, <2>2, <2>3, <2>5
  <2>8. QED
    BY <2>4, <2>6, <2>7 DEF RoundTripBounded, m
<1>2. QED
  BY InBoundsAlways, <1>1, PTL

(***************************************************************************)
(* The displayed supply covers the displayed balances, within a unit.      *)
(***************************************************************************)
THEOREM UISupplyCorrect == ScaledSpec => []UISupplyCoversHolders
<1>1. InBounds => UISupplyCoversHolders
  <2> SUFFICES ASSUME InBounds
               PROVE  UISupplyCoversHolders
    OBVIOUS
  <2> DEFINE m == multiplier
             w == WAD_PRECISION
             x == ToUIAmount(m, mine)
             y == ToUIAmount(m, others)
             t == ToUIAmount(m, TotalSupply)
  <2>1. m \in Nat /\ mine \in Nat /\ others \in Nat /\ TotalSupply = mine + others
    BY DEF InBounds, Multipliers, TotalSupply
  <2>2. w \in Nat \ {0}
    BY ScaleAssumption
  <2>3. x \in Nat /\ x * w <= mine * m /\ mine * m < x * w + w
    BY <2>1, ToUIBounds
  <2>4. y \in Nat /\ y * w <= others * m /\ others * m < y * w + w
    BY <2>1, ToUIBounds
  <2>5. t \in Nat /\ t * w <= TotalSupply * m /\ TotalSupply * m < t * w + w
    BY <2>1, ToUIBounds
  <2>6. UISupplyCoversHolders <=> t \in {x + y, x + y + 1}
    BY DEF UISupplyCoversHolders
  <2> HIDE DEF m, w, x, y, t
  <2>7. TotalSupply * m = mine * m + others * m
    BY <2>1
  <2>8. x + y < t + 1
    <3>1. (x + y) * w < (t + 1) * w
      BY <2>1, <2>2, <2>3, <2>4, <2>5, <2>7
    <3>2. QED
      BY <3>1, <2>2, <2>3, <2>4, <2>5, Cancel
  <2>9. t < x + y + 2
    <3>1. t * w < (x + y + 2) * w
      BY <2>1, <2>2, <2>3, <2>4, <2>5, <2>7
    <3>2. QED
      BY <3>1, <2>2, <2>3, <2>4, <2>5, Cancel
  <2>10. QED
    BY <2>3, <2>4, <2>5, <2>6, <2>8, <2>9
<1>2. QED
  BY InBoundsAlways, <1>1, PTL
=============================================================================
