----------------------------- MODULE MCTopology -----------------------------
(* Model values for Topology, Warmup, StepController and Normalizer.  The four
   share no variable: in each behavior one of them runs, and the others rest. *)
EXTENDS Topology, Warmup, StepController, Normalizer

VARIABLE part  \* the one that runs

SmallChanges == -1 .. 1

MCInit ==
    /\ Init /\ WarmupInit /\ ControllerInit /\ NormalizerInit
    /\ part \in {"topology", "warmup", "controller", "normalizer"}

MCNext ==
    /\ UNCHANGED part
    /\ \/ /\ part = "topology" /\ Next
          /\ UNCHANGED <<warmupVars, controllerVars, normalizerVars>>
       \/ /\ part = "warmup" /\ WarmupNext
          /\ UNCHANGED <<vars, controllerVars, normalizerVars>>
       \/ /\ part = "controller" /\ ControllerNext
          /\ UNCHANGED <<vars, warmupVars, normalizerVars>>
       \/ /\ part = "normalizer" /\ NormalizerNext
          /\ UNCHANGED <<vars, warmupVars, controllerVars>>

MCSpec ==
    /\ MCInit /\ [][MCNext]_<<vars, warmupVars, controllerVars, normalizerVars, part>>
    /\ WF_vars(Searching)
=============================================================================
