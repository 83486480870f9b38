----------------------------- MODULE XdpLoader -----------------------------
(***************************************************************************)
(* tools/kineplex_geo_loader.c: processes that attach the XDP program to   *)
(* an interface while they hold the device of the kernel module open.      *)
(*                                                                         *)
(* A step is a call that changes what others see, with the calls before it *)
(* that only fail or succeed.  The link is not pinned, so it lives as long *)
(* as its descriptor; an interface takes one XDP link at a time.  The      *)
(* kernel closes the descriptors of a process that died in no particular   *)
(* order.  The BPF object is private to its process and is left out.       *)
(***************************************************************************)
EXTENDS KernelModule

CONSTANTS
    Loaders,      \* loader processes, for one interface
    OwnVersion,   \* the KINEPLEX_GEO_ABI_VERSION the loaders are built with
    None

ASSUME LoadersAssumption == Loaders \subseteq Processes /\ None \notin Loaders
ASSUME VersionsAssumption == OwnVersion \in Versions

VARIABLES
    pc,             \* where each loader is; "gone" if it does not run
    stopRequested,  \* its stop_requested flag
    link,           \* the loader whose link is attached to the interface, or None
    failed,         \* its local ret, as a failure or not
    status          \* the exit status of its last run

vars == <<kernelVars, pc, stopRequested, link, failed, status>>

TypeOK ==
    /\ KernelTypeOK
    /\ pc \in [Loaders -> {"gone", "open", "attach", "findMap", "loop", "sleep",
                           "destroyLink", "closeDevice", "killed"}]
    /\ stopRequested \in [Loaders -> BOOLEAN]
    /\ link \in Loaders \cup {None}
    /\ failed \in [Loaders -> BOOLEAN]
    /\ status \in [Loaders -> {"None", "Success", "Failure"}]

Init ==
    /\ KernelInit
    /\ pc = [l \in Loaders |-> "gone"]
    /\ stopRequested = [l \in Loaders |-> FALSE]
    /\ link = None
    /\ failed = [l \in Loaders |-> FALSE]
    /\ status = [l \in Loaders |-> "None"]

-----------------------------------------------------------------------------
(* main *)

Goto(l, where) == pc' = [pc EXCEPT ![l] = where]

\* goto out, with ret as given.
Out(l, failure) ==
    /\ Goto(l, "destroyLink")
    /\ failed' = [failed EXCEPT ![l] = failure]

\* install_signal_handlers and if_nametoindex.
Start(l) ==
    /\ pc[l] = "gone"
    /\ Goto(l, "open")
    /\ stopRequested' = [stopRequested EXCEPT ![l] = FALSE]
    /\ failed' = [failed EXCEPT ![l] = FALSE]
    /\ status' = [status EXCEPT ![l] = "None"]
    /\ UNCHANGED <<kernelVars, link>>

\* Open the device and query it.  The version in the answer is not looked at.
OpenDevice(l) ==
    /\ pc[l] = "open"
    /\ \/ Open(l) /\ Goto(l, "attach") /\ UNCHANGED status
       \/ /\ Goto(l, "gone")
          /\ status' = [status EXCEPT ![l] = "Failure"]
          /\ UNCHANGED kernelVars
    /\ UNCHANGED <<stopRequested, link, failed>>

\* Open, load and search the BPF object, and attach its program.
Attach(l) ==
    /\ pc[l] = "attach"
    /\ \/ /\ link = None
          /\ link' = l
          /\ Goto(l, "findMap")
          /\ UNCHANGED failed
       \/ Out(l, TRUE) /\ UNCHANGED link
    /\ UNCHANGED <<kernelVars, stopRequested, status>>

\* Find the statistics map and the number of CPUs.
FindMap(l) ==
    /\ pc[l] = "findMap"
    /\ \/ Goto(l, "loop") /\ UNCHANGED failed
       \/ Out(l, TRUE)
    /\ UNCHANGED <<kernelVars, stopRequested, link, status>>

\* The device answers, with the version the loader is built with.
DeviceIsAlive == abi = OwnVersion

\* Mutant: stop_requested is not looked at.
PollOnAndOn(l) ==
    /\ pc[l] = "loop"
    /\ \/ DeviceIsAlive /\ Goto(l, "sleep") /\ UNCHANGED failed
       \/ Out(l, FALSE)
    /\ UNCHANGED <<kernelVars, stopRequested, link, status>>

\* Mutant: the ABI is not looked at in the loop either.
PollAnyVersion(l) ==
    /\ pc[l] = "loop"
    /\ \/ ~stopRequested[l] /\ Goto(l, "sleep") /\ UNCHANGED failed
       \/ Out(l, FALSE)
    /\ UNCHANGED <<kernelVars, stopRequested, link, status>>

\* The loop: stop_requested, device_is_alive, print_snapshot.  Whatever ends the
\* loop, ret is 0.
Poll(l) ==
    /\ pc[l] = "loop"
    /\ \/ /\ ~stopRequested[l]
          /\ DeviceIsAlive
          /\ Goto(l, "sleep")
          /\ UNCHANGED failed
       \/ Out(l, FALSE)
    /\ UNCHANGED <<kernelVars, stopRequested, link, status>>

\* sleep(1) is over, or a signal ends it.
Wake(l) ==
    /\ pc[l] = "sleep"
    /\ Goto(l, "loop")
    /\ UNCHANGED <<kernelVars, stopRequested, link, failed, status>>

\* Mutant: the device is closed before the link is destroyed.
DestroyLinkLast(l) ==
    /\ pc[l] = "destroyLink"
    /\ IF l \in files
       THEN Close(l) /\ UNCHANGED <<pc, link>>
       ELSE /\ link' = IF link = l THEN None ELSE link
            /\ Goto(l, "closeDevice")
            /\ UNCHANGED kernelVars
    /\ UNCHANGED <<stopRequested, failed, status>>

\* bpf_link__destroy detaches; without a link it does nothing.
DestroyLink(l) ==
    /\ pc[l] = "destroyLink"
    /\ link' = IF link = l THEN None ELSE link
    /\ Goto(l, "closeDevice")
    /\ UNCHANGED <<kernelVars, stopRequested, failed, status>>

\* Mutant: main returns the error number itself.
CloseDeviceRaw(l) ==
    /\ pc[l] = "closeDevice"
    /\ Close(l)
    /\ Goto(l, "gone")
    /\ status' = [status EXCEPT ![l] = IF failed[l] THEN "ENOENT" ELSE "Success"]
    /\ UNCHANGED <<stopRequested, link, failed>>

\* Close the device and return from main.
CloseDevice(l) ==
    /\ pc[l] = "closeDevice"
    /\ Close(l)
    /\ Goto(l, "gone")
    /\ status' = [status EXCEPT ![l] = IF failed[l] THEN "Failure" ELSE "Success"]
    /\ UNCHANGED <<stopRequested, link, failed>>

-----------------------------------------------------------------------------
(* Signals and crashes *)

\* SIGINT, SIGTERM or SIGHUP.
HandleSignal(l) ==
    /\ pc[l] \notin {"gone", "killed"}
    /\ stopRequested' = [stopRequested EXCEPT ![l] = TRUE]
    /\ UNCHANGED <<kernelVars, pc, link, failed, status>>

Crash(l) ==
    /\ pc[l] \notin {"gone", "killed"}
    /\ Goto(l, "killed")
    /\ UNCHANGED <<kernelVars, stopRequested, link, failed, status>>

\* The kernel closes the descriptors of the dead process, one after the other.
Reap(l) ==
    /\ pc[l] = "killed"
    /\ \/ Close(l) /\ UNCHANGED <<pc, link>>
       \/ link = l /\ link' = None /\ UNCHANGED <<kernelVars, pc>>
       \/ l \notin files /\ link # l /\ Goto(l, "gone") /\ UNCHANGED <<kernelVars, link>>
    /\ UNCHANGED <<stopRequested, failed, status>>

-----------------------------------------------------------------------------

Proceed(l) ==
    \/ OpenDevice(l)
    \/ Attach(l)
    \/ FindMap(l)
    \/ Poll(l)
    \/ Wake(l)
    \/ DestroyLink(l)
    \/ CloseDevice(l)
    \/ Reap(l)

OtherProcess(p) == Open(p) \/ Close(p) \/ Mmap(p) \/ Munmap(p)

Next ==
    \/ \E l \in Loaders : Start(l) \/ Proceed(l) \/ HandleSignal(l) \/ Crash(l)
    \/ /\ KernelNext \/ \E p \in Processes \ Loaders : OtherProcess(p)
       /\ UNCHANGED <<pc, stopRequested, link, failed, status>>

Spec == Init /\ [][Next]_vars

\* A running process is scheduled, and the kernel cleans up after a dead one.
FairSpec == Spec /\ \A l \in Loaders : WF_vars(Proceed(l))

-----------------------------------------------------------------------------
(* Properties *)

\* While its loader lives, an attached program has the loader's open device, and
\* with it a complete module, behind it: the link is destroyed before the device
\* is closed, on every way out of main.
LinkIsLeased == \A l \in Loaders : link = l /\ pc[l] # "killed" => l \in files

\* No loader goes on polling a module of another ABI version, although modules
\* are replaced between and during its runs.
PollsItsOwnVersion == \A l \in Loaders : pc[l] = "sleep" => abi = OwnVersion

\* A loader whose module has another ABI version fails.
ForeignModuleFails ==
    [][\A l \in Loaders :
         abi # OwnVersion /\ pc[l] = "closeDevice" /\ pc'[l] = "gone" => status'[l] = "Failure"]_vars

\* A loader that is asked to stop, or dies, leaves no link behind.
StoppingDetaches ==
    \A l \in Loaders : stopRequested[l] \/ pc[l] = "killed" ~> link # l
=============================================================================
