-------------------------------- MODULE Wasm --------------------------------
(***************************************************************************)
(* TenantResourceManager and WasmRuntime (kineplex-core/src/wasm.rs):      *)
(* quotas of concurrent executions per tenant, and a cache of compiled     *)
(* modules.  Every method is one critical section and so one step;         *)
(* can_execute reads both maps under both guards.                          *)
(*                                                                         *)
(* The methods are to be called in the order of the tests: can_execute,    *)
(* record_execution_start, the execution, record_execution_end.  Nothing   *)
(* holds a slot on behalf of its caller: a careless one goes away without  *)
(* reporting the end, or reports it twice, as a test does.  execute passes *)
(* its input through; of a module only the bytes it comes from matter.     *)
(***************************************************************************)
EXTENDS Naturals, FiniteSets

CONSTANTS
    Callers,
    Careless,    \* the callers that may lose an end, or report it twice
    Tenants,
    Serves,      \* Serves[c]: the tenants whose executions caller c runs
    MaxQuota,    \* bound: the largest max_concurrent
    ModuleIds,
    Bytes,       \* the Wasm binaries in use
    Invalid,     \* those of them that Module::new rejects
    NoQuota,
    NotCompiled

ASSUME CallersAssumption == IsFiniteSet(Callers) /\ Careless \subseteq Callers
ASSUME ServesAssumption == Serves \in [Callers -> (SUBSET Tenants) \ {{}}]
ASSUME MaxQuotaAssumption == MaxQuota \in Nat
ASSUME BytesAssumption == Invalid \subseteq Bytes /\ NotCompiled \notin Bytes
ASSUME NoQuotaAssumption == NoQuota \notin Nat

VARIABLES
    quotas,      \* max_concurrent of each tenant that is registered
    active,      \* active_executions; 0 also for a tenant without an entry
    modules,     \* module_cache: the binary each id was compiled from
    does,        \* what each caller does
    for,         \* for whom
    fresh        \* history: the callers whose can_execute is not outdated, by
                 \* another start for the tenant or a registration

tenantVars == <<quotas, active, does, for, fresh>>
wasmVars == <<tenantVars, modules>>

WasmTypeOK ==
    /\ quotas \in [Tenants -> (0 .. MaxQuota) \cup {NoQuota}]
    /\ active \in [Tenants -> Nat]
    /\ modules \in [ModuleIds -> Bytes \cup {NotCompiled}]
    /\ does \in [Callers -> {"nothing", "admitted", "executes"}]
    /\ for \in [Callers -> Tenants]
    /\ fresh \subseteq Callers

WasmInit ==
    /\ quotas = [t \in Tenants |-> NoQuota]
    /\ active = [t \in Tenants |-> 0]
    /\ modules = [m \in ModuleIds |-> NotCompiled]
    /\ does = [c \in Callers |-> "nothing"]
    /\ for = [c \in Callers |-> CHOOSE t \in Serves[c] : TRUE]
    /\ fresh = {}

-----------------------------------------------------------------------------
(* Tenants. *)

Executing(t) == {c \in Callers : does[c] = "executes" /\ for[c] = t}

CallersFor(t) == {c \in Callers : for[c] = t}

\* A second registration replaces the quota; what is executing goes on.
RegisterQuota(t, q) ==
    /\ quotas' = [quotas EXCEPT ![t] = q]
    /\ fresh' = fresh \ CallersFor(t)
    /\ UNCHANGED <<active, does, for>>

\* Mutant: one too many.
AtMost(t) == quotas[t] # NoQuota /\ active[t] <= quotas[t]

\* can_execute answers true; an unknown tenant is an error.
CanExecute(t) == quotas[t] # NoQuota /\ active[t] < quotas[t]

Ask(c, t) ==
    /\ does[c] = "nothing"
    /\ t \in Serves[c]
    /\ CanExecute(t)
    /\ does' = [does EXCEPT ![c] = "admitted"]
    /\ for' = [for EXCEPT ![c] = t]
    /\ fresh' = fresh \cup {c}
    /\ UNCHANGED <<quotas, active>>

\* The quota is not looked at again.
RecordExecutionStart(c) ==
    /\ does[c] = "admitted"
    /\ active' = [active EXCEPT ![for[c]] = @ + 1]
    /\ does' = [does EXCEPT ![c] = "executes"]
    /\ fresh' = fresh \ CallersFor(for[c])
    /\ UNCHANGED <<quotas, for>>

\* Mutant: the last slot is not given back.
CountDownToOne(t) == [active EXCEPT ![t] = IF @ > 1 THEN @ - 1 ELSE @]

\* record_execution_end counts down, and not below 0.
CountDown(t) == [active EXCEPT ![t] = IF @ > 0 THEN @ - 1 ELSE @]

RecordExecutionEnd(c) ==
    /\ does[c] = "executes"
    /\ active' = CountDown(for[c])
    /\ does' = [does EXCEPT ![c] = "nothing"]
    /\ UNCHANGED <<quotas, for, fresh>>

RecordEndAgain(c) ==
    /\ c \in Careless
    /\ does[c] = "nothing"
    /\ active' = CountDown(for[c])
    /\ UNCHANGED <<quotas, does, for, fresh>>

\* The execution panics, or its caller forgets it.
LoseEnd(c) ==
    /\ c \in Careless
    /\ does[c] = "executes"
    /\ does' = [does EXCEPT ![c] = "nothing"]
    /\ UNCHANGED <<quotas, active, for, fresh>>

-----------------------------------------------------------------------------
(* Modules. *)

\* An id that is known keeps the module it has, whatever the bytes are now.
CompileModule(m, b) ==
    /\ modules[m] = NotCompiled
    /\ b \notin Invalid
    /\ modules' = [modules EXCEPT ![m] = b]
    /\ UNCHANGED tenantVars

-----------------------------------------------------------------------------

WasmNext ==
    \/ \E t \in Tenants, q \in 0 .. MaxQuota : RegisterQuota(t, q) /\ UNCHANGED modules
    \/ \E c \in Callers :
         /\ \/ \E t \in Tenants : Ask(c, t)
            \/ RecordExecutionStart(c)
            \/ RecordExecutionEnd(c)
            \/ RecordEndAgain(c)
            \/ LoseEnd(c)
         /\ UNCHANGED modules
    \/ \E m \in ModuleIds, b \in Bytes : CompileModule(m, b)

WasmSpec == WasmInit /\ [][WasmNext]_wasmVars

-----------------------------------------------------------------------------
(* Properties *)

\* A caller that can_execute let through may still start as long as nobody else
\* has started for the tenant and the quota is the same: callers that take turns
\* never exceed max_concurrent, whatever ends in between, once or twice.
FreshAnswersHold ==
    \A c \in fresh :
        /\ does[c] = "admitted"
        /\ quotas[for[c]] # NoQuota
        /\ active[for[c]] < quotas[for[c]]

\* A tenant that only careful callers serve has as many active executions as it
\* is charged for, so it is neither locked out nor let through too often for what
\* others do.
ExecutionsAreCounted ==
    \A t \in Tenants :
        (\A c \in Careless : t \notin Serves[c]) => active[t] = Cardinality(Executing(t))
=============================================================================
