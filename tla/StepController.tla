--------------------------- MODULE StepController ---------------------------
(***************************************************************************)
(* AdaptiveStepController and EpsilonHistory (kineplex-core/src/           *)
(* geometry.rs): a PID controller for the step epsilon, and the last       *)
(* values of epsilon, searched for oscillation.                            *)
(*                                                                         *)
(* Numbers are integers in a unit of the caller's choice, of which the     *)
(* gains are multiples: with 0.001 for curvature and 0.0001 for epsilon    *)
(* the gains of new() are 5, 1 and 3.  Rounding, infinities and NaN are    *)
(* left out, and so is EpsilonHistory::new(0), whose push panics.          *)
(***************************************************************************)
EXTENDS Integers, Sequences, FiniteSets

CONSTANTS
    Kp, Ki, Kd,      \* the gains
    EpsMin, EpsMax,  \* the limits of epsilon
    InitialEpsilon,  \* it need not lie between them
    IntegralMax,     \* windup protection
    StableIntegral, StableError,  \* the limits of is_stable
    MaxSamples,      \* max_samples
    Changes          \* the curvature changes that compute is called with

ASSUME GainsAssumption == Kp \in Nat /\ Ki \in Nat /\ Kd \in Nat
ASSUME LimitsAssumption ==
    EpsMin \in Int /\ EpsMax \in Int /\ EpsMin <= EpsMax /\ InitialEpsilon \in Int
ASSUME StableAssumption ==
    IntegralMax \in Nat /\ StableIntegral \in Nat /\ StableError \in Nat
ASSUME SamplesAssumption == MaxSamples \in Nat \ {0} /\ Changes \subseteq Int

VARIABLES
    prev_error,
    integral,
    epsilon,
    samples,     \* of the history, which gets every epsilon computed
    calm         \* history: for how many calls, up to MaxSamples, the curvature
                 \* has not changed

controllerVars == <<prev_error, integral, epsilon, samples, calm>>

ControllerTypeOK ==
    /\ prev_error \in Int
    /\ integral \in -IntegralMax .. IntegralMax
    /\ epsilon \in (EpsMin .. EpsMax) \cup {InitialEpsilon}
    /\ samples \in Seq(EpsMin .. EpsMax)
    /\ Len(samples) <= MaxSamples
    /\ calm \in 0 .. MaxSamples

ControllerInit ==
    /\ prev_error = 0
    /\ integral = 0
    /\ epsilon = InitialEpsilon
    /\ samples = <<>>
    /\ calm = 0

-----------------------------------------------------------------------------

Clamp(x, low, high) == IF x < low THEN low ELSE IF x > high THEN high ELSE x

\* epsilon and integral after compute with this error.
NewIntegral(error) == Clamp(integral + error, -IntegralMax, IntegralMax)

NewEpsilon(error) ==
    Clamp(epsilon + Kp * error + Ki * NewIntegral(error) + Kd * (error - prev_error),
          EpsMin, EpsMax)

\* Mutant: a full history gives up its newest sample.
PushedOverNewest(s, x) ==
    Append(IF Len(s) >= MaxSamples THEN SubSeq(s, 1, Len(s) - 1) ELSE s, x)

Remembered(s, x) == Append(IF Len(s) >= MaxSamples THEN Tail(s) ELSE s, x)

Compute(change) ==
    /\ prev_error' = 0 - change
    /\ integral' = NewIntegral(0 - change)
    /\ epsilon' = NewEpsilon(0 - change)
    /\ samples' = Remembered(samples, epsilon')
    /\ calm' = IF change # 0 THEN 0 ELSE IF calm < MaxSamples THEN calm + 1 ELSE calm

\* reset leaves epsilon where it is.
Reset ==
    /\ prev_error' = 0
    /\ integral' = 0
    /\ UNCHANGED <<epsilon, samples, calm>>

Abs(x) == IF x < 0 THEN -x ELSE x

IsStable == Abs(integral) < StableIntegral /\ Abs(prev_error) < StableError

\* The samples after which epsilon turned round.
Turns(s) ==
    {i \in 3 .. Len(s) : \/ s[i] > s[i - 1] /\ s[i - 2] > s[i - 1]
                         \/ s[i] < s[i - 1] /\ s[i - 2] < s[i - 1]}

\* has_oscillation: more than 30 % of at least four samples.
HasOscillation(s) == Len(s) >= 4 /\ 10 * Cardinality(Turns(s)) > 3 * (Len(s) - 2)

ControllerNext == Reset \/ \E change \in Changes : Compute(change)

ControllerSpec == ControllerInit /\ [][ControllerNext]_controllerVars

-----------------------------------------------------------------------------
(* Properties *)

\* When the curvature has not changed for as many calls as the history is long, no
\* oscillation is seen, whatever integral the controller has run up and whatever
\* it was reset in between: epsilon only creeps to one of its limits.
OscillationDiesOut == calm = MaxSamples => ~HasOscillation(samples)

\* A controller that says it is stable moves epsilon, when the curvature does not
\* change, by no more than the limits of is_stable allow.
StableMeansStill ==
    IsStable /\ epsilon \in EpsMin .. EpsMax =>
        Abs(NewEpsilon(0) - epsilon) <= Ki * StableIntegral + Kd * StableError
=============================================================================
