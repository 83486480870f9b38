----------------------------- MODULE Normalizer -----------------------------
(***************************************************************************)
(* MetricTensorNormalizer (kineplex-core/src/geometry.rs): a vector of     *)
(* weights scaled, in place, to a target volume.                           *)
(*                                                                         *)
(* The arithmetic is exact: the weights are fractions with one denominator,*)
(* where the code rounds.  Weights are not negative.  A call holds the     *)
(* vector alone and is one step.                                           *)
(***************************************************************************)
EXTENDS Naturals, FiniteSetsExt

CONSTANTS
    NumWeights,
    MaxWeight,      \* bound: the largest weight a caller starts with
    TargetVolume,
    MaxTensorValue, \* u32::MAX
    InverseEpsilon, \* f64::EPSILON is one InverseEpsilon-th
    MaxDenominator  \* bound: what a vector may have come to when it is scaled again

ASSUME WeightsAssumption == NumWeights \in Nat \ {0} /\ MaxWeight \in Nat
ASSUME VolumeAssumption ==
    TargetVolume \in Nat \ {0} /\ MaxTensorValue \in Nat /\ InverseEpsilon \in Nat \ {0}

VARIABLES
    weights,     \* the numerators
    denominator,
    normalized   \* what the last call for this vector answered

normalizerVars == <<weights, denominator, normalized>>

NormalizerTypeOK ==
    /\ weights \in [1 .. NumWeights -> Nat]
    /\ denominator \in Nat \ {0}
    /\ normalized \in {"None", "Ok", "ZeroVolume", "Overflow", "Underflow", "Clamped"}

\* A caller comes with a vector.
NewWeights ==
    /\ weights' \in [1 .. NumWeights -> 0 .. MaxWeight]
    /\ denominator' = 1
    /\ normalized' = "None"

NormalizerInit ==
    /\ weights = [i \in 1 .. NumWeights |-> MaxWeight]
    /\ denominator = 1
    /\ normalized = "None"

-----------------------------------------------------------------------------

\* The sums that the code comes by when it adds up w.
RunningSum(w) ==
    LET sum[i \in 0 .. NumWeights] == IF i = 0 THEN 0 ELSE sum[i - 1] + w[i] IN sum

\* The sum of the numerators.
Volume == RunningSum(weights)[NumWeights]

\* x / y is less than f64::EPSILON.
IsTiny(x, y) == x * InverseEpsilon < y

\* Mutant: the volumes are the wrong way round.
UnScaled(w) == w * Volume

\* A weight times the scale factor is Scaled(w) / Volume: denominators cancel out.
Scaled(w) == w * TargetVolume

Overflows(i) == Scaled(weights[i]) > MaxTensorValue * Volume
Underflows(i) == weights[i] > 0 /\ IsTiny(Scaled(weights[i]), Volume)

\* normalize stops at the first weight that it cannot keep, which is scaled
\* already: the vector is left half as it was.
Normalize ==
    LET bad == {i \in 1 .. NumWeights : Overflows(i) \/ Underflows(i)}
        last == IF bad = {} THEN NumWeights ELSE Min(bad)
    IN /\ denominator <= MaxDenominator
       /\ IF IsTiny(Volume, denominator)
          THEN normalized' = "ZeroVolume" /\ UNCHANGED <<weights, denominator>>
          ELSE /\ weights' = [i \in 1 .. NumWeights |->
                                IF i <= last THEN Scaled(weights[i]) * denominator
                                             ELSE weights[i] * Volume]
               /\ denominator' = denominator * Volume
               /\ normalized' = CASE bad = {} -> "Ok"
                                  [] Overflows(last) -> "Overflow"
                                  [] OTHER -> "Underflow"

NormalizeWithClamp ==
    /\ denominator <= MaxDenominator
    /\ normalized' = "Clamped"
    /\ IF IsTiny(Volume, denominator) THEN UNCHANGED <<weights, denominator>>
       ELSE /\ weights' = [i \in 1 .. NumWeights |->
                             Min({Scaled(weights[i]), MaxTensorValue * Volume})]
            /\ denominator' = Volume

IsWithinBounds == \A i \in 1 .. NumWeights : weights[i] <= MaxTensorValue * denominator

NormalizerNext == NewWeights \/ Normalize \/ NormalizeWithClamp

NormalizerSpec == NormalizerInit /\ [][NormalizerNext]_normalizerVars

-----------------------------------------------------------------------------
(* Properties *)

\* Ok stands for a vector of just the target volume within the bounds, also when an
\* error left it half scaled before; what was clamped is within the bounds and has
\* no more than that volume, unless it had none; and a caller who ignores an
\* overflow sees it in is_within_bounds.
VolumeIsKept ==
    /\ normalized = "Ok" => Volume = TargetVolume * denominator /\ IsWithinBounds
    /\ normalized = "Clamped" => \/ Volume <= TargetVolume * denominator /\ IsWithinBounds
                                 \/ IsTiny(Volume, denominator)
    /\ normalized = "Overflow" => ~IsWithinBounds
=============================================================================
