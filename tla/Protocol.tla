------------------------------ MODULE Protocol ------------------------------
(***************************************************************************)
(* kineplex-net/src/protocol.rs: versions, the check that the receiver of  *)
(* a message makes, and deprecation policies.                              *)
(*                                                                         *)
(* The repository has no negotiation: a message carries the version of the *)
(* release that sent it (current(), 1.0.0 here), and whoever receives it   *)
(* calls validate_version with the versions it supports.  Policies compare *)
(* the wall clock, which may be set back, with the days they were made for.*)
(***************************************************************************)
EXTENDS Integers

CONSTANTS
    Versions,    \* the versions of the releases in use
    MaxDay,      \* bound: the last day of the clock
    MaxTerm      \* bound: the longest deprecation_days

ASSUME VersionsAssumption ==
    Versions # {} /\ Versions \subseteq [major : Nat, minor : Nat, patch : Nat]
ASSUME DaysAssumption == MaxDay \in Nat /\ MaxTerm \in Nat

VARIABLES
    version,     \* of the last message
    supported,   \* the versions that its receiver supported
    verdict,     \* what validate_version answered
    day,         \* the clock
    policy       \* the last DeprecationPolicy made

protocolVars == <<version, supported, verdict, day, policy>>

Policy == [deprecated_at : 0 .. MaxDay, removal_at : -MaxTerm .. MaxDay + MaxTerm]

ProtocolTypeOK ==
    /\ version \in Versions
    /\ supported \subseteq Versions
    /\ verdict \in {"Ok", "VersionMismatch"}
    /\ day \in 0 .. MaxDay
    /\ policy \in Policy

-----------------------------------------------------------------------------

\* Mutant: the minor versions are compared whatever the major ones are.
IsNewerInAnyPart(v, w) ==
    \/ v.major > w.major
    \/ v.minor > w.minor
    \/ v.major = w.major /\ v.minor = w.minor /\ v.patch > w.patch

IsCompatible(v, w) == v.major = w.major

IsNewerThan(v, w) ==
    IF v.major # w.major THEN v.major > w.major
    ELSE IF v.minor # w.minor THEN v.minor > w.minor
    ELSE v.patch > w.patch

ValidateVersion(v, versions) ==
    IF \E w \in versions : IsCompatible(v, w) THEN "Ok" ELSE "VersionMismatch"

\* DeprecationPolicy::new.
NewPolicy(days) == [deprecated_at |-> day, removal_at |-> day + days]

IsDeprecated == day >= policy.deprecated_at

ShouldRemove == day >= policy.removal_at

-----------------------------------------------------------------------------

ProtocolInit ==
    /\ version = CHOOSE v \in Versions : TRUE
    /\ supported = {version}
    /\ verdict = "Ok"
    /\ day = 0
    /\ policy = NewPolicy(MaxTerm)

Receive(v, versions) ==
    /\ version' = v
    /\ supported' = versions
    /\ verdict' = ValidateVersion(v, versions)
    /\ UNCHANGED <<day, policy>>

Deprecate(days) ==
    /\ policy' = NewPolicy(days)
    /\ UNCHANGED <<version, supported, verdict, day>>

SetClock(d) ==
    /\ day' = d
    /\ UNCHANGED <<version, supported, verdict, policy>>

ProtocolNext ==
    \/ \E v \in Versions, versions \in SUBSET Versions : Receive(v, versions)
    \/ \E days \in -MaxTerm .. MaxTerm : Deprecate(days)
    \/ \E d \in 0 .. MaxDay : SetClock(d)

ProtocolSpec == ProtocolInit /\ [][ProtocolNext]_protocolVars

-----------------------------------------------------------------------------
(* Properties *)

\* Releases can be put in line: of two versions exactly one is newer unless they
\* are the same, and what lies between two versions that a receiver takes for
\* compatible is compatible with both. So a receiver that supports the oldest and
\* the newest release of a line accepts every message of the releases between.
UpgradesStayCompatible ==
    \A v, w \in supported \cup {version} :
        /\ v # w <=> IsNewerThan(v, w) \/ IsNewerThan(w, v)
        /\ ~(IsNewerThan(v, w) /\ IsNewerThan(w, v))
        /\ /\ IsNewerThan(v, version) /\ IsNewerThan(version, w) /\ IsCompatible(v, w)
           /\ {v, w} \subseteq supported
           => verdict = "Ok"
=============================================================================
