---------------------------- MODULE KernelModule ----------------------------
(***************************************************************************)
(* The life of the kineplex_geo module (kineplex-kernel/src): what init    *)
(* acquires, one call after the other, what its error path and exit give   *)
(* back, and the processes that have its device open or its page mapped.   *)
(*                                                                         *)
(* The kernel is external: it lets a process open the device while the     *)
(* device is there and the module is not going away, and it starts exit    *)
(* only when no file of the module is open (file_operations.owner).  Each  *)
(* acquisition may fail and each is a step; init, exit and the processes   *)
(* interleave.  Processes here hold CAP_NET_ADMIN; every entry point turns *)
(* all others away with EPERM before it does anything.                     *)
(***************************************************************************)
EXTENDS Naturals, Sequences, SequencesExt

CONSTANTS
    Processes,  \* processes that use the device
    Versions    \* the ABI versions that modules in the field are built with

VARIABLES
    moduleState,  \* the kernel's view: Unloaded, Coming, Live or Going
    held,         \* what the module has acquired and not given back
    todo,         \* what init still has to acquire, or what its error path or exit
                  \* still has to give back
    abi,          \* KINEPLEX_GEO_ABI_VERSION of the module in the kernel
    files,        \* the processes with an open file of the device
    mappings      \* the processes with the tensor page mapped

kernelVars == <<moduleState, held, todo, abi, files, mappings>>

\* Mutant: the device is there before the counters are.
InitOrderDeviceEarly ==
    <<"netdev", "cache", "object", "page", "chrdev", "cdev", "class", "device", "percpu">>

\* The steps of kineplex_geo_init, those of kineplex_geo_numa_init included.
InitOrder ==
    <<"netdev", "cache", "object", "page", "percpu", "chrdev", "cdev", "class", "device">>

Resources == ToSet(InitOrder)

KernelTypeOK ==
    /\ moduleState \in {"Unloaded", "Coming", "Live", "Going"}
    /\ held \subseteq Resources
    /\ todo \in Seq(Resources)
    /\ abi \in Versions
    /\ files \subseteq Processes
    /\ mappings \subseteq Processes

KernelInit ==
    /\ moduleState = "Unloaded"
    /\ held = {}
    /\ todo = <<>>
    /\ abi \in Versions
    /\ files = {}
    /\ mappings = {}

-----------------------------------------------------------------------------
(* The order in which things are given back. *)

\* The labels err_class, err_cdev, err_chrdev and err_numa of init.
ErrorPath == <<"class", "cdev", "chrdev", "percpu", "netdev", "page", "object", "cache">>

ErrorPathFrom(label) == SubSeq(ErrorPath, label, Len(ErrorPath))

\* Mutant: the error path of numa_init forgets the slab object.
UnwindForgetting(r) ==
    CASE r = "device" -> ErrorPathFrom(1)
      [] r = "class" -> ErrorPathFrom(2)
      [] r = "cdev" -> ErrorPathFrom(3)
      [] r \in {"chrdev", "percpu"} -> ErrorPathFrom(4)
      [] r = "page" -> <<"cache", "netdev">>
      [] r = "object" -> <<"cache", "netdev">>
      [] r = "cache" -> <<"netdev">>
      [] r = "netdev" -> <<>>

\* What init gives back when it cannot acquire r.  A failure of numa_init is
\* unwound there, before the device reference is put.
Unwind(r) ==
    CASE r = "device" -> ErrorPathFrom(1)
      [] r = "class" -> ErrorPathFrom(2)
      [] r = "cdev" -> ErrorPathFrom(3)
      [] r \in {"chrdev", "percpu"} -> ErrorPathFrom(4)
      [] r = "page" -> <<"object", "cache", "netdev">>
      [] r = "object" -> <<"cache", "netdev">>
      [] r = "cache" -> <<"netdev">>
      [] r = "netdev" -> <<>>

ExitOrder ==
    <<"device", "class", "cdev", "chrdev", "percpu", "page", "object", "cache", "netdev">>

\* telemetry_destroy and numa_destroy look before they free.
ReleasedIfHeld == {"percpu", "page", "object", "cache"}

-----------------------------------------------------------------------------
(* insmod and rmmod *)

Insmod(version) ==
    /\ moduleState = "Unloaded"
    /\ moduleState' = "Coming"
    /\ todo' = InitOrder
    /\ abi' = version
    /\ UNCHANGED <<held, files, mappings>>

\* The next step of init succeeds; the last one leaves the module Live.
Acquire ==
    /\ moduleState = "Coming"
    /\ held' = held \cup {Head(todo)}
    /\ todo' = Tail(todo)
    /\ moduleState' = IF Tail(todo) = <<>> THEN "Live" ELSE "Coming"
    /\ UNCHANGED <<abi, files, mappings>>

\* The next step of init fails: init gives back what it has and returns the error.
AcquireFails ==
    /\ moduleState = "Coming"
    /\ todo' = Unwind(Head(todo))
    /\ moduleState' = IF todo' = <<>> THEN "Unloaded" ELSE "Going"
    /\ UNCHANGED <<held, abi, files, mappings>>

Release ==
    /\ moduleState = "Going"
    /\ held' = held \ {Head(todo)}
    /\ todo' = Tail(todo)
    /\ moduleState' = IF Tail(todo) = <<>> THEN "Unloaded" ELSE "Going"
    /\ UNCHANGED <<abi, files, mappings>>

\* A mapping keeps its file open.
Rmmod ==
    /\ moduleState = "Live"
    /\ files = {} /\ mappings = {}
    /\ moduleState' = "Going"
    /\ todo' = ExitOrder
    /\ UNCHANGED <<held, abi, files, mappings>>

-----------------------------------------------------------------------------
(* The device *)

DeviceOpens == "device" \in held /\ moduleState # "Going"

Open(p) ==
    /\ p \notin files
    /\ DeviceOpens
    /\ files' = files \cup {p}
    /\ UNCHANGED <<moduleState, held, todo, abi, mappings>>

Close(p) ==
    /\ p \in files
    /\ files' = files \ {p}
    /\ UNCHANGED <<moduleState, held, todo, abi, mappings>>

\* kineplex_geo_numa_mmap, asked for exactly the tensor's size.
Mmap(p) ==
    /\ p \in files
    /\ "page" \in held
    /\ mappings' = mappings \cup {p}
    /\ UNCHANGED <<moduleState, held, todo, abi, files>>

Munmap(p) ==
    /\ p \in mappings
    /\ mappings' = mappings \ {p}
    /\ UNCHANGED <<moduleState, held, todo, abi, files>>

KernelNext ==
    \/ \E version \in Versions : Insmod(version)
    \/ Acquire
    \/ AcquireFails
    \/ Release
    \/ Rmmod

-----------------------------------------------------------------------------
(* Properties *)

\* Whoever has the device open or its page mapped finds the module complete:
\* init creates the device last, and nothing is given back under an open file.
UsersFindWholeModule == files \cup mappings # {} => held = Resources

\* Everything the module took is given back when init fails, at whatever step,
\* and when the module is removed; only what is held is given back.
NothingLeaks ==
    /\ moduleState = "Unloaded" => held = {}
    /\ moduleState = "Going" => Head(todo) \in held \cup ReleasedIfHeld
=============================================================================
