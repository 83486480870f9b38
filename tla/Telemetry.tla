------------------------------ MODULE Telemetry ------------------------------
(***************************************************************************)
(* Per-CPU packet counters: those of the kernel module                     *)
(* (kineplex_geo_telemetry.c) and those of the XDP program with its        *)
(* reader in the loader.  Each CPU adds to its own counters without locks, *)
(* and a control process reads, or in the module resets, those of every    *)
(* CPU in the meantime.                                                    *)
(*                                                                         *)
(* An increment is a load and a store.  rx_bytes is counted like           *)
(* rx_packets, and the latency and its samples like rx_drops in the module *)
(* and like rx_packets in the XDP program; they are left out.  A snapshot  *)
(* adds up what it reads; the model keeps the values apart, so that what   *)
(* holds of each of them holds of the sums.                                *)
(***************************************************************************)
EXTENDS Naturals, Sequences

CONSTANTS
    NumCpus,     \* the possible CPUs are 1 .. NumCpus
    Readers,     \* control processes that take snapshots
    Resetters,   \* control processes that reset the counters
    MaxPackets,  \* bound: MaxPackets[c] packets are handled by CPU c
    NotLoaded

ASSUME CpusAssumption == NumCpus \in Nat
ASSUME RolesAssumption == Readers \cap Resetters = {}
ASSUME LoadedAssumption == NotLoaded \notin Nat
ASSUME BoundAssumption == MaxPackets \in [1 .. NumCpus -> Nat]

Cpus == 1 .. NumCpus

Fields == {"packets", "drops"}

Cells == Cpus \X Fields

Processes == Readers \cup Resetters

VARIABLES
    place,    \* whose counters these are: "module" or "xdp"
    stats,    \* the counters
    rest,     \* the fields that the packet on each CPU still has to count
    loaded,   \* the value of an increment between its load and its store
    handled,  \* packets begun by each CPU
    pc,       \* what each process does: "idle", "snapshot" or "reset"
    left,     \* the cells it has not come to yet
    seen,     \* the values its snapshot has read
    done,     \* history: increments made to each cell
    since,    \* history: those made since the cell was cleared
    torn,     \* history: the cells cleared in the middle of an increment
    start,    \* history: the counters when the snapshot of a reader began
    calm      \* history: whether no cell has been cleared since then

recording == <<rest, loaded, handled>>
reading == <<pc, left, seen, start>>
vars == <<place, stats, recording, reading, done, since, torn, calm>>

TypeOK ==
    /\ place \in {"module", "xdp"}
    /\ stats \in [Cells -> Nat]
    /\ rest \in [Cpus -> Seq(Fields)]
    /\ loaded \in [Cpus -> Nat \cup {NotLoaded}]
    /\ handled \in [Cpus -> Nat]
    /\ pc \in [Processes -> {"idle", "snapshot", "reset"}]
    /\ left \in [Processes -> SUBSET Cells]
    /\ seen \in [Readers -> [Cells -> Nat]]
    /\ done \in [Cells -> Nat]
    /\ since \in [Cells -> Nat]
    /\ torn \subseteq Cells
    /\ start \in [Readers -> [Cells -> Nat]]
    /\ calm \in [Readers -> BOOLEAN]

Zero == [cell \in Cells |-> 0]

Init ==
    /\ place \in {"module", "xdp"}
    /\ stats = Zero
    /\ rest = [c \in Cpus |-> <<>>]
    /\ loaded = [c \in Cpus |-> NotLoaded]
    /\ handled = [c \in Cpus |-> 0]
    /\ pc = [r \in Processes |-> "idle"]
    /\ left = [r \in Processes |-> {}]
    /\ seen = [r \in Readers |-> Zero]
    /\ done = Zero
    /\ since = Zero
    /\ torn = {}
    /\ start = [r \in Readers |-> Zero]
    /\ calm = [r \in Readers |-> TRUE]

-----------------------------------------------------------------------------
(* A CPU counts a packet. *)

\* telemetry_record: dropped packets are packets too.
ModulePaths == {<<"packets">>, <<"packets", "drops">>}

\* The XDP program: a malformed packet is only a drop.
XdpPaths == {<<"packets">>, <<"drops">>}

Paths == IF place = "module" THEN ModulePaths ELSE XdpPaths

Record(c, path) ==
    /\ rest[c] = <<>>
    /\ handled[c] < MaxPackets[c]
    /\ path \in Paths
    /\ rest' = [rest EXCEPT ![c] = path]
    /\ handled' = [handled EXCEPT ![c] = @ + 1]
    /\ UNCHANGED <<place, stats, loaded, reading, done, since, torn, calm>>

\* The cell that CPU c increments next.
Target(c) == <<c, Head(rest[c])>>

Load(c) ==
    /\ rest[c] # <<>>
    /\ loaded[c] = NotLoaded
    /\ loaded' = [loaded EXCEPT ![c] = stats[Target(c)]]
    /\ UNCHANGED <<place, stats, rest, handled, reading, done, since, torn, calm>>

\* The increment of a cell is over.
Counted(c, cell) ==
    /\ rest' = [rest EXCEPT ![c] = Tail(@)]
    /\ loaded' = [loaded EXCEPT ![c] = NotLoaded]
    /\ done' = [done EXCEPT ![cell] = @ + 1]
    /\ since' = [since EXCEPT ![cell] = @ + 1]
    /\ UNCHANGED <<place, handled, reading, torn, calm>>

\* Mutant: the counter counts down.
StoreDown(c) ==
    /\ loaded[c] # NotLoaded
    /\ stats' = [stats EXCEPT ![Target(c)] = loaded[c] - 1]
    /\ Counted(c, Target(c))

\* Mutant: all CPUs share the counters of the first.
StoreShared(c) ==
    /\ loaded[c] # NotLoaded
    /\ stats' = [stats EXCEPT ![<<1, Head(rest[c])>>] = loaded[c] + 1]
    /\ Counted(c, <<1, Head(rest[c])>>)

Store(c) ==
    /\ loaded[c] # NotLoaded
    /\ stats' = [stats EXCEPT ![Target(c)] = loaded[c] + 1]
    /\ Counted(c, Target(c))

-----------------------------------------------------------------------------
(* A control process goes through the cells of every CPU. *)

\* CPUs in order, and the fields of a CPU as a snapshot reads them.
ReadBefore(a, b) ==
    \/ a[1] < b[1]
    \/ a[1] = b[1] /\ a[2] = "packets" /\ b[2] = "drops"

Begin(r, what) ==
    /\ pc[r] = "idle"
    /\ pc' = [pc EXCEPT ![r] = what]
    /\ left' = [left EXCEPT ![r] = Cells]
    /\ UNCHANGED <<place, stats, recording, done, since, torn>>

Snapshot(r) ==
    /\ Begin(r, "snapshot")
    /\ start' = [start EXCEPT ![r] = stats]
    /\ UNCHANGED <<seen, calm>>

\* Mutant: the snapshot clears what it has read.
ReadClearing(r, cell) ==
    /\ pc[r] = "snapshot"
    /\ cell \in left[r]
    /\ \A other \in left[r] \ {cell} : ReadBefore(cell, other)
    /\ seen' = [seen EXCEPT ![r][cell] = stats[cell]]
    /\ stats' = [stats EXCEPT ![cell] = 0]
    /\ left' = [left EXCEPT ![r] = @ \ {cell}]
    /\ UNCHANGED <<place, recording, pc, start, done, since, torn, calm>>

\* READ_ONCE of one field; the loader's bpf_map_lookup_elem copies in the same order.
Read(r, cell) ==
    /\ pc[r] = "snapshot"
    /\ cell \in left[r]
    /\ \A other \in left[r] \ {cell} : ReadBefore(cell, other)
    /\ seen' = [seen EXCEPT ![r][cell] = stats[cell]]
    /\ left' = [left EXCEPT ![r] = @ \ {cell}]
    /\ UNCHANGED <<place, stats, recording, pc, start, done, since, torn, calm>>

\* Only the module's counters can be reset.
Reset(r) ==
    /\ place = "module"
    /\ Begin(r, "reset")
    /\ UNCHANGED <<seen, start, calm>>

\* memset clears the fields of a CPU in an order of its own.
Clear(r, cell) ==
    /\ pc[r] = "reset"
    /\ cell \in left[r]
    /\ \A other \in left[r] : cell[1] <= other[1]
    /\ left' = [left EXCEPT ![r] = @ \ {cell}]
    /\ stats' = [stats EXCEPT ![cell] = 0]
    /\ since' = [since EXCEPT ![cell] = 0]
    /\ torn' = IF loaded[cell[1]] # NotLoaded /\ Target(cell[1]) = cell
               THEN torn \cup {cell}
               ELSE torn \ {cell}
    /\ calm' = [q \in Readers |-> calm[q] /\ pc[q] # "snapshot"]
    /\ UNCHANGED <<place, recording, pc, seen, start, done>>

EndSnapshot(r) ==
    /\ pc[r] = "snapshot"
    /\ left[r] = {}
    /\ pc' = [pc EXCEPT ![r] = "idle"]
    /\ seen' = [seen EXCEPT ![r] = Zero]
    /\ start' = [start EXCEPT ![r] = Zero]
    /\ calm' = [calm EXCEPT ![r] = TRUE]
    /\ UNCHANGED <<place, stats, recording, left, done, since, torn>>

EndReset(r) ==
    /\ pc[r] = "reset"
    /\ left[r] = {}
    /\ pc' = [pc EXCEPT ![r] = "idle"]
    /\ UNCHANGED <<place, stats, recording, left, seen, start, done, since, torn, calm>>

Next ==
    \/ \E c \in Cpus : (\E path \in Paths : Record(c, path)) \/ Load(c) \/ Store(c)
    \/ \E r \in Readers : Snapshot(r) \/ (\E cell \in Cells : Read(r, cell)) \/ EndSnapshot(r)
    \/ \E r \in Resetters : Reset(r) \/ (\E cell \in Cells : Clear(r, cell)) \/ EndReset(r)

Spec == Init /\ [][Next]_vars

-----------------------------------------------------------------------------
(* Properties *)

\* A snapshot that no reset disturbs lies, counter by counter, between what was
\* counted when it began and what has been counted when it reads; one that a reset
\* disturbs is still never ahead.
SnapshotIsBracketed ==
    \A r \in Readers : \A cell \in Cells \ left[r] :
        pc[r] = "snapshot" =>
            /\ calm[r] => start[r][cell] <= seen[r][cell]
            /\ seen[r][cell] <= done[cell]

\* No increment is lost, on whatever CPUs packets arrive, and a reset counts anew:
\* only an increment that was between its load and its store when its counter was
\* cleared brings the old count back.
NothingIsMiscounted == \A cell \in Cells \ torn : stats[cell] = since[cell]
=============================================================================
