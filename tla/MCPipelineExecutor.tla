----------------------- MODULE MCPipelineExecutor -----------------------
(* Model values for PipelineExecutor, Wasm and Stages.  The three share no
   variable: in each behavior one of them runs, and the others rest. *)
EXTENDS PipelineExecutor, Wasm, Stages

CONSTANTS t1, t2, t3, g1, g2, c1, c2, c3, alpha, beta

VARIABLE part  \* the one that runs

\* One task has a graph of its own, and the others share one.
OneShares == [t \in Tasks |-> IF t = t1 THEN {g1} ELSE {g2}]

\* The careless caller c3 serves only one of the tenants.
TwoServeBoth == [c \in Callers |-> IF c = c3 THEN {beta} ELSE Tenants]

OneDir == [p \in Pipelines |-> CHOOSE d \in Dirs : TRUE]

MCInit == Init /\ WasmInit /\ StagesInit /\ part \in {"executor", "wasm", "stages"}

MCNext ==
    /\ UNCHANGED part
    /\ \/ part = "executor" /\ Next /\ UNCHANGED <<wasmVars, stagesVars>>
       \/ part = "wasm" /\ WasmNext /\ UNCHANGED <<vars, stagesVars>>
       \/ part = "stages" /\ StagesNext /\ UNCHANGED <<vars, wasmVars>>

MCSpec ==
    /\ MCInit /\ [][MCNext]_<<vars, wasmVars, stagesVars, part>>
    /\ \A t \in Tasks : WF_vars(Proceed(t))
=============================================================================
