-------------------------- MODULE Telemetry_proofs --------------------------
(***************************************************************************)
(* Theorems about Telemetry, for any number of CPUs, processes and         *)
(* packets.  The invariant says what a CPU has in its register between the *)
(* load and the store of an increment: the counter itself, unless it was   *)
(* cleared in between, and never less than the counter or more than the    *)
(* increments made.                                                        *)
(***************************************************************************)
EXTENDS Telemetry, TLAPS

Registers ==
    \A c \in Cpus : loaded[c] # NotLoaded =>
        /\ rest[c] # <<>>
        /\ Target(c) \notin torn => loaded[c] = stats[Target(c)]
        /\ stats[Target(c)] <= loaded[c]
        /\ loaded[c] <= done[Target(c)]

NothingInvented == \A cell \in Cells : stats[cell] <= done[cell]

\* Counters only grow under a snapshot that no reset disturbs.
CalmGrows ==
    \A r \in Readers : pc[r] = "snapshot" /\ calm[r] =>
        \A cell \in Cells : start[r][cell] <= stats[cell]

Inv ==
    /\ TypeOK
    /\ Registers
    /\ NothingInvented
    /\ CalmGrows
    /\ SnapshotIsBracketed
    /\ NothingIsMiscounted

-----------------------------------------------------------------------------

LEMMA Cell ==
    ASSUME NEW cell \in Cells
    PROVE  cell[1] \in Cpus /\ cell[2] \in Fields /\ cell = <<cell[1], cell[2]>>
BY DEF Cells

LEMMA PathTypes ==
    ASSUME NEW path \in Paths PROVE path \in Seq(Fields)
<1>1. path \in {<<"packets">>, <<"drops">>, <<"packets", "drops">>}
  BY DEF Paths, ModulePaths, XdpPaths
<1>2. "packets" \in Fields /\ "drops" \in Fields
  BY DEF Fields
<1>3. <<"packets">> \in Seq(Fields) /\ <<"drops">> \in Seq(Fields)
  BY <1>2
<1>4. <<"packets", "drops">> \in Seq(Fields)
  BY <1>2
<1> QED
  BY <1>1, <1>3, <1>4

LEMMA TargetIsCell ==
    ASSUME TypeOK, NEW c \in Cpus, rest[c] # <<>>
    PROVE  Target(c) \in Cells /\ Target(c)[1] = c
BY DEF TypeOK, Target, Cells

LEMMA InitInv == Init => Inv
BY LoadedAssumption, BoundAssumption
   DEF Init, Inv, TypeOK, Zero, Registers, NothingInvented, CalmGrows, SnapshotIsBracketed,
       NothingIsMiscounted

LEMMA TypeStep == Inv /\ [Next]_vars => TypeOK'
<1> SUFFICES ASSUME Inv, [Next]_vars PROVE TypeOK'
  OBVIOUS
<1> USE DEF TypeOK, recording, reading
<1>0. TypeOK /\ Registers
  BY DEF Inv
<1>1. ASSUME NEW c \in Cpus, NEW path \in Paths, Record(c, path) PROVE TypeOK'
  BY <1>0, <1>1, PathTypes DEF Record
<1>2. ASSUME NEW c \in Cpus, Load(c) PROVE TypeOK'
  BY <1>0, <1>2, TargetIsCell DEF Load
<1>3. ASSUME NEW c \in Cpus, Store(c) PROVE TypeOK'
  <2>1. Target(c) \in Cells /\ loaded[c] \in Nat /\ rest[c] # <<>>
    BY <1>0, <1>3, TargetIsCell DEF Store, Registers
  <2>2. Tail(rest[c]) \in Seq(Fields)
    BY <1>0, <2>1
  <2> QED
    BY <1>0, <1>3, <2>1, <2>2 DEF Store, Counted
<1>4. ASSUME NEW r \in Readers, Snapshot(r) PROVE TypeOK'
  BY <1>0, <1>4 DEF Snapshot, Begin, Processes
<1>5. ASSUME NEW r \in Readers, NEW cell \in Cells, Read(r, cell) PROVE TypeOK'
  BY <1>0, <1>5 DEF Read, Processes
<1>6. ASSUME NEW r \in Readers, EndSnapshot(r) PROVE TypeOK'
  BY <1>0, <1>6 DEF EndSnapshot, Processes, Zero
<1>7. ASSUME NEW r \in Resetters, Reset(r) PROVE TypeOK'
  BY <1>0, <1>7 DEF Reset, Begin, Processes
<1>8. ASSUME NEW r \in Resetters, NEW cell \in Cells, Clear(r, cell) PROVE TypeOK'
  BY <1>0, <1>8 DEF Clear, Processes
<1>9. ASSUME NEW r \in Resetters, EndReset(r) PROVE TypeOK'
  BY <1>0, <1>9 DEF EndReset, Processes
<1>10. CASE UNCHANGED vars
  BY <1>0, <1>10 DEF vars
<1> QED
  BY <1>1, <1>2, <1>3, <1>4, <1>5, <1>6, <1>7, <1>8, <1>9, <1>10 DEF Next

\* What a store finds in the counter it is about to overwrite.
LEMMA StoreFacts ==
    ASSUME Inv, NEW c \in Cpus, Store(c)
    PROVE  /\ Target(c) \in Cells /\ Target(c)[1] = c
           /\ loaded[c] \in Nat
           /\ stats' = [stats EXCEPT ![Target(c)] = loaded[c] + 1]
           /\ done' = [done EXCEPT ![Target(c)] = done[Target(c)] + 1]
           /\ since' = [since EXCEPT ![Target(c)] = since[Target(c)] + 1]
           /\ stats[Target(c)] <= loaded[c]
           /\ loaded[c] <= done[Target(c)]
           /\ Target(c) \notin torn => loaded[c] = stats[Target(c)]
           /\ loaded' = [loaded EXCEPT ![c] = NotLoaded]
           /\ rest' = [rest EXCEPT ![c] = Tail(rest[c])]
           /\ UNCHANGED <<pc, left, seen, start, torn, calm>>
<1>1. loaded[c] # NotLoaded /\ Registers /\ TypeOK
  BY DEF Store, Inv
<1>2. rest[c] # <<>> /\ loaded[c] \in Nat
  BY <1>1 DEF Registers, TypeOK
<1> QED
  BY <1>1, <1>2, TargetIsCell DEF Store, Counted, Registers, reading

LEMMA RegistersStep == Inv /\ TypeOK' /\ [Next]_vars => Registers'
<1> SUFFICES ASSUME Inv, TypeOK', [Next]_vars,
                    NEW d \in Cpus, loaded'[d] # NotLoaded
             PROVE  /\ rest'[d] # <<>>
                    /\ Target(d)' \notin torn' => loaded'[d] = stats'[Target(d)']
                    /\ stats'[Target(d)'] <= loaded'[d]
                    /\ loaded'[d] <= done'[Target(d)']
  BY DEF Registers
<1> DEFINE Goal == /\ rest'[d] # <<>>
                   /\ Target(d)' \notin torn' => loaded'[d] = stats'[Target(d)']
                   /\ stats'[Target(d)'] <= loaded'[d]
                   /\ loaded'[d] <= done'[Target(d)']
<1>0. TypeOK /\ Registers /\ NothingInvented
  BY DEF Inv
<1>a. ASSUME UNCHANGED <<rest, loaded, stats, done, torn>> PROVE Goal
  BY <1>0, <1>a DEF Registers, Target
<1>1. ASSUME NEW c \in Cpus, NEW path \in Paths, Record(c, path) PROVE Goal
  <2>1. rest[c] = <<>> /\ loaded[c] = NotLoaded
    BY <1>0, <1>1 DEF Record, Registers
  <2>2. d # c
    BY <1>1, <2>1 DEF Record
  <2>3. UNCHANGED <<loaded, stats, done, torn>> /\ rest'[d] = rest[d]
    BY <1>0, <1>1, <2>2 DEF Record, TypeOK
  <2> QED
    BY <1>0, <2>3 DEF Registers, Target
<1>2. ASSUME NEW c \in Cpus, Load(c) PROVE Goal
  <2>1. UNCHANGED <<rest, stats, done, torn>> /\ Target(c) \in Cells
    BY <1>0, <1>2, TargetIsCell DEF Load
  <2>2. CASE d = c
    <3>1. loaded'[d] = stats[Target(d)] /\ rest[d] # <<>>
      BY <1>0, <1>2, <2>2 DEF Load, TypeOK
    <3>2. Target(d)' = Target(d)
      BY <2>1 DEF Target
    <3> QED
      BY <1>0, <2>1, <2>2, <3>1, <3>2 DEF NothingInvented, TypeOK
  <2>3. CASE d # c
    <3>1. loaded'[d] = loaded[d]
      BY <1>0, <1>2, <2>3 DEF Load, TypeOK
    <3> QED
      BY <1>0, <2>1, <3>1 DEF Registers, Target
  <2> QED
    BY <2>2, <2>3
<1>3. ASSUME NEW c \in Cpus, Store(c) PROVE Goal
  <2>1. d # c
    BY <1>0, <1>3, StoreFacts DEF TypeOK
  <2>2. loaded'[d] = loaded[d] /\ rest'[d] = rest[d] /\ torn' = torn
    BY <1>0, <1>3, <2>1, StoreFacts DEF TypeOK
  <2>3. Target(d)' = Target(d) /\ Target(d) # Target(c)
    BY <2>1, <2>2 DEF Target
  <2>4. Target(d) \in Cells
    BY <1>0, <2>2, TargetIsCell DEF Registers
  <2>5. stats'[Target(d)] = stats[Target(d)] /\ done'[Target(d)] = done[Target(d)]
    BY <1>0, <1>3, <2>3, <2>4, StoreFacts DEF TypeOK
  <2> QED
    BY <1>0, <2>2, <2>3, <2>5 DEF Registers
<1>4. ASSUME NEW r \in Readers, Snapshot(r) PROVE Goal
  BY <1>a, <1>4 DEF Snapshot, Begin, recording
<1>5. ASSUME NEW r \in Readers, NEW cell \in Cells, Read(r, cell) PROVE Goal
  BY <1>a, <1>5 DEF Read, recording
<1>6. ASSUME NEW r \in Readers, EndSnapshot(r) PROVE Goal
  BY <1>a, <1>6 DEF EndSnapshot, recording
<1>7. ASSUME NEW r \in Resetters, Reset(r) PROVE Goal
  BY <1>a, <1>7 DEF Reset, Begin, recording
<1>8. ASSUME NEW r \in Resetters, NEW cell \in Cells, Clear(r, cell) PROVE Goal
  <2>1. UNCHANGED <<rest, loaded, done>> /\ stats' = [stats EXCEPT ![cell] = 0]
    BY <1>8 DEF Clear, recording
  <2>2. Target(d)' = Target(d) /\ Target(d) \in Cells /\ Target(d)[1] = d
    BY <1>0, <2>1, TargetIsCell DEF Target, Registers
  <2>3. loaded[d] # NotLoaded /\ loaded[d] \in Nat
    BY <1>0, <2>1 DEF TypeOK
  <2>4. CASE Target(d) = cell
    <3>1. cell \in torn'
      BY <1>8, <2>2, <2>3, <2>4 DEF Clear
    <3>2. stats'[cell] = 0
      BY <1>0, <2>1 DEF TypeOK
    <3> QED
      BY <1>0, <2>1, <2>2, <2>3, <2>4, <3>1, <3>2 DEF Registers
  <2>5. CASE Target(d) # cell
    <3>1. stats'[Target(d)] = stats[Target(d)]
      BY <1>0, <2>1, <2>2, <2>5 DEF TypeOK
    <3>2. Target(d) \in torn' <=> Target(d) \in torn
      BY <1>8, <2>5 DEF Clear
    <3> QED
      BY <1>0, <2>1, <2>2, <2>3, <3>1, <3>2 DEF Registers
  <2> QED
    BY <2>4, <2>5
<1>9. ASSUME NEW r \in Resetters, EndReset(r) PROVE Goal
  BY <1>a, <1>9 DEF EndReset, recording
<1>10. CASE UNCHANGED vars
  BY <1>a, <1>10 DEF vars, recording
<1> QED
  BY <1>1, <1>2, <1>3, <1>4, <1>5, <1>6, <1>7, <1>8, <1>9, <1>10 DEF Next

\* What any step does to a counter and to the histories it is compared with.
LEMMA CounterSteps ==
    ASSUME Inv, [Next]_vars, NEW cell \in Cells
    PROVE  \/ UNCHANGED <<stats[cell], done[cell], since[cell]>> /\ (cell \in torn' <=> cell \in torn)
           \/ /\ stats[cell] < stats'[cell]
              /\ stats'[cell] <= done'[cell]
              /\ done[cell] < done'[cell]
              /\ since'[cell] = since[cell] + 1
              /\ torn' = torn
              /\ cell \notin torn => stats'[cell] = stats[cell] + 1
           \/ /\ stats'[cell] = 0 /\ since'[cell] = 0
              /\ done'[cell] = done[cell]
              /\ \A r \in Readers : pc[r] = "snapshot" => ~calm'[r]
<1> DEFINE Same == UNCHANGED <<stats[cell], done[cell], since[cell]>>
                   /\ (cell \in torn' <=> cell \in torn)
<1>0. TypeOK
  BY DEF Inv
<1>a. ASSUME UNCHANGED <<stats, done, since, torn>> PROVE Same
  BY <1>a
<1>1. ASSUME NEW c \in Cpus, NEW path \in Paths, Record(c, path) PROVE Same
  BY <1>1 DEF Record
<1>2. ASSUME NEW c \in Cpus, Load(c) PROVE Same
  BY <1>2 DEF Load
<1>3. ASSUME NEW c \in Cpus, Store(c)
      PROVE  \/ Same
             \/ /\ stats[cell] < stats'[cell]
                /\ stats'[cell] <= done'[cell]
                /\ done[cell] < done'[cell]
                /\ since'[cell] = since[cell] + 1
                /\ torn' = torn
                /\ cell \notin torn => stats'[cell] = stats[cell] + 1
  <2>1. CASE Target(c) = cell
    <3>1. /\ stats'[cell] = loaded[c] + 1
          /\ done'[cell] = done[cell] + 1
          /\ since'[cell] = since[cell] + 1
          /\ torn' = torn
      BY <1>0, <1>3, <2>1, StoreFacts DEF TypeOK
    <3>2. /\ loaded[c] \in Nat
          /\ stats[cell] <= loaded[c]
          /\ loaded[c] <= done[cell]
          /\ cell \notin torn => loaded[c] = stats[cell]
      BY <1>3, <2>1, StoreFacts
    <3>3. stats[cell] \in Nat /\ done[cell] \in Nat
      BY <1>0 DEF TypeOK
    <3> QED
      BY <3>1, <3>2, <3>3
  <2>2. CASE Target(c) # cell
    BY <1>0, <1>3, <2>2, StoreFacts DEF TypeOK
  <2> QED
    BY <2>1, <2>2
<1>4. ASSUME NEW r \in Readers, Snapshot(r) PROVE Same
  BY <1>4 DEF Snapshot, Begin
<1>5. ASSUME NEW r \in Readers, NEW other \in Cells, Read(r, other) PROVE Same
  BY <1>5 DEF Read
<1>6. ASSUME NEW r \in Readers, EndSnapshot(r) PROVE Same
  BY <1>6 DEF EndSnapshot
<1>7. ASSUME NEW r \in Resetters, Reset(r) PROVE Same
  BY <1>7 DEF Reset, Begin
<1>8. ASSUME NEW r \in Resetters, NEW other \in Cells, Clear(r, other)
      PROVE  \/ Same
             \/ /\ stats'[cell] = 0 /\ since'[cell] = 0
                /\ done'[cell] = done[cell]
                /\ \A q \in Readers : pc[q] = "snapshot" => ~calm'[q]
  <2>1. CASE other = cell
    BY <1>0, <1>8, <2>1 DEF Clear, TypeOK
  <2>2. CASE other # cell
    BY <1>0, <1>8, <2>2 DEF Clear, TypeOK
  <2> QED
    BY <2>1, <2>2
<1>9. ASSUME NEW r \in Resetters, EndReset(r) PROVE Same
  BY <1>9 DEF EndReset
<1>10. CASE UNCHANGED vars
  BY <1>10 DEF vars
<1> QED
  BY <1>1, <1>2, <1>3, <1>4, <1>5, <1>6, <1>7, <1>8, <1>9, <1>10 DEF Next

LEMMA CountsStep ==
    Inv /\ TypeOK' /\ [Next]_vars => NothingInvented' /\ NothingIsMiscounted'
<1> SUFFICES ASSUME Inv, TypeOK', [Next]_vars, NEW cell \in Cells
             PROVE  /\ stats'[cell] <= done'[cell]
                    /\ cell \notin torn' => stats'[cell] = since'[cell]
  BY DEF NothingInvented, NothingIsMiscounted
<1>1. /\ stats[cell] \in Nat /\ done[cell] \in Nat /\ since[cell] \in Nat
      /\ stats[cell] <= done[cell]
      /\ cell \notin torn => stats[cell] = since[cell]
  BY DEF Inv, TypeOK, NothingInvented, NothingIsMiscounted
<1> QED
  BY <1>1, CounterSteps

\* What a step does to the snapshot of a reader.
LEMMA SnapshotSteps ==
    ASSUME Inv, [Next]_vars, NEW r \in Readers, pc'[r] = "snapshot"
    PROVE  \/ /\ pc[r] = "snapshot"
              /\ UNCHANGED <<start[r], seen[r], left[r]>>
              /\ calm'[r] => calm[r]
           \/ /\ start'[r] = stats /\ left'[r] = Cells /\ UNCHANGED stats
           \/ /\ pc[r] = "snapshot"
              /\ UNCHANGED <<start[r], calm[r], stats, done>>
              /\ \E cell \in Cells : /\ left'[r] = left[r] \ {cell}
                                     /\ seen'[r] = [seen[r] EXCEPT ![cell] = stats[cell]]
<1> DEFINE Aside == /\ pc[r] = "snapshot"
                    /\ UNCHANGED <<start[r], seen[r], left[r]>>
                    /\ calm'[r] => calm[r]
<1>0. TypeOK /\ r \in Processes /\ \A q \in Resetters : q \in Processes /\ q # r
  BY RolesAssumption DEF Inv, Processes
<1>a. ASSUME UNCHANGED <<pc, left, seen, start, calm>> PROVE Aside
  BY <1>a
<1>1. ASSUME NEW c \in Cpus, NEW path \in Paths, Record(c, path) PROVE Aside
  BY <1>1 DEF Record, reading
<1>2. ASSUME NEW c \in Cpus, Load(c) PROVE Aside
  BY <1>2 DEF Load, reading
<1>3. ASSUME NEW c \in Cpus, Store(c) PROVE Aside
  BY <1>3 DEF Store, Counted, reading
<1>4. ASSUME NEW q \in Readers, Snapshot(q)
      PROVE  Aside \/ (start'[r] = stats /\ left'[r] = Cells /\ UNCHANGED stats)
  <2>1. CASE q = r
    BY <1>0, <1>4, <2>1 DEF Snapshot, Begin, TypeOK
  <2>2. CASE q # r
    BY <1>0, <1>4, <2>2 DEF Snapshot, Begin, TypeOK
  <2> QED
    BY <2>1, <2>2
<1>5. ASSUME NEW q \in Readers, NEW cell \in Cells, Read(q, cell)
      PROVE  \/ Aside
             \/ /\ pc[r] = "snapshot"
                /\ UNCHANGED <<start[r], calm[r], stats, done>>
                /\ left'[r] = left[r] \ {cell}
                /\ seen'[r] = [seen[r] EXCEPT ![cell] = stats[cell]]
  <2>1. CASE q = r
    BY <1>0, <1>5, <2>1 DEF Read, TypeOK
  <2>2. CASE q # r
    BY <1>0, <1>5, <2>2 DEF Read, TypeOK
  <2> QED
    BY <2>1, <2>2
<1>6. ASSUME NEW q \in Readers, EndSnapshot(q) PROVE Aside
  <2>1. q # r
    BY <1>0, <1>6 DEF EndSnapshot, TypeOK
  <2> QED
    BY <1>0, <1>6, <2>1 DEF EndSnapshot, TypeOK
<1>7. ASSUME NEW q \in Resetters, Reset(q) PROVE Aside
  BY <1>0, <1>7 DEF Reset, Begin, TypeOK
<1>8. ASSUME NEW q \in Resetters, NEW cell \in Cells, Clear(q, cell) PROVE Aside
  BY <1>0, <1>8 DEF Clear, TypeOK
<1>9. ASSUME NEW q \in Resetters, EndReset(q) PROVE Aside
  BY <1>0, <1>9 DEF EndReset, TypeOK
<1>10. CASE UNCHANGED vars
  BY <1>a, <1>10 DEF vars, reading
<1> QED
  BY <1>1, <1>2, <1>3, <1>4, <1>5, <1>6, <1>7, <1>8, <1>9, <1>10 DEF Next
LEMMA CalmStep == Inv /\ TypeOK' /\ [Next]_vars => CalmGrows'
<1> SUFFICES ASSUME Inv, TypeOK', [Next]_vars,
                    NEW r \in Readers, pc'[r] = "snapshot", calm'[r],
                    NEW cell \in Cells
             PROVE  start'[r][cell] <= stats'[cell]
  BY DEF CalmGrows
<1>1. stats[cell] \in Nat /\ stats'[cell] \in Nat /\ start[r][cell] \in Nat
  BY DEF Inv, TypeOK
<1>2. CASE pc[r] = "snapshot" /\ calm[r] /\ UNCHANGED start[r]
  <2>1. start[r][cell] <= stats[cell]
    BY <1>2 DEF Inv, CalmGrows
  <2>2. stats[cell] <= stats'[cell]
    BY <1>1, <1>2, CounterSteps
  <2> QED
    BY <1>1, <1>2, <2>1, <2>2
<1>3. CASE start'[r] = stats /\ UNCHANGED stats
  BY <1>1, <1>3
<1> QED
  BY <1>2, <1>3, SnapshotSteps

LEMMA BracketStep ==
    Inv /\ TypeOK' /\ CalmGrows' /\ [Next]_vars => SnapshotIsBracketed'
<1> SUFFICES ASSUME Inv, TypeOK', CalmGrows', [Next]_vars,
                    NEW r \in Readers, pc'[r] = "snapshot",
                    NEW cell \in Cells \ left'[r]
             PROVE  /\ calm'[r] => start'[r][cell] <= seen'[r][cell]
                    /\ seen'[r][cell] <= done'[cell]
  BY DEF SnapshotIsBracketed
<1>0. TypeOK /\ cell \in Cells
  BY DEF Inv
<1>1. /\ seen[r][cell] \in Nat /\ start[r][cell] \in Nat
      /\ stats[cell] \in Nat /\ done[cell] \in Nat /\ done'[cell] \in Nat
  BY <1>0 DEF TypeOK
<1>2. done[cell] <= done'[cell]
  BY <1>0, <1>1, CounterSteps
<1>3. CASE /\ pc[r] = "snapshot"
           /\ UNCHANGED <<start[r], seen[r], left[r]>>
           /\ calm'[r] => calm[r]
  BY <1>0, <1>1, <1>2, <1>3 DEF Inv, SnapshotIsBracketed
<1>4. CASE left'[r] = Cells
  BY <1>0, <1>4
<1>5. ASSUME pc[r] = "snapshot",
             UNCHANGED <<start[r], calm[r], stats, done>>,
             NEW read \in Cells,
             left'[r] = left[r] \ {read},
             seen'[r] = [seen[r] EXCEPT ![read] = stats[read]]
      PROVE  /\ calm'[r] => start'[r][cell] <= seen'[r][cell]
             /\ seen'[r][cell] <= done'[cell]
  <2>1. CASE cell = read
    <3>1. seen'[r][cell] = stats[cell]
      BY <1>0, <1>5, <2>1 DEF TypeOK
    <3>2. stats[cell] <= done[cell] /\ (calm[r] => start[r][cell] <= stats[cell])
      BY <1>0, <1>5 DEF Inv, NothingInvented, CalmGrows
    <3> QED
      BY <1>5, <3>1, <3>2
  <2>2. CASE cell # read
    <3>1. seen'[r][cell] = seen[r][cell] /\ cell \notin left[r]
      BY <1>0, <1>5, <2>2 DEF TypeOK
    <3>2. seen[r][cell] <= done[cell] /\ (calm[r] => start[r][cell] <= seen[r][cell])
      BY <1>0, <1>5, <3>1 DEF Inv, SnapshotIsBracketed
    <3> QED
      BY <1>5, <3>1, <3>2
  <2> QED
    BY <2>1, <2>2
<1> QED
  BY <1>3, <1>4, <1>5, SnapshotSteps

LEMMA Preservation == Inv /\ [Next]_vars => Inv'
BY TypeStep, RegistersStep, CountsStep, CalmStep, BracketStep DEF Inv

LEMMA InvHolds == Spec => []Inv
BY InitInv, Preservation, PTL DEF Spec

-----------------------------------------------------------------------------
(* Theorems *)

\* The counters, the registers and the snapshots stay well-typed.
THEOREM TypeCorrect == Spec => []TypeOK
<1>1. Inv => TypeOK
  BY DEF Inv
<1> QED
  BY <1>1, InvHolds, PTL

\* However many CPUs count and processes reset meanwhile, what a snapshot reads was
\* there between its begin and the read.
THEOREM SnapshotsAreBracketed == Spec => []SnapshotIsBracketed
<1>1. Inv => SnapshotIsBracketed
  BY DEF Inv
<1> QED
  BY <1>1, InvHolds, PTL

\* Counters without a lock lose no increment, because each has one writer; only a
\* reset in the middle of an increment is undone by it.
THEOREM NothingIsLost == Spec => []NothingIsMiscounted
<1>1. Inv => NothingIsMiscounted
  BY DEF Inv
<1> QED
  BY <1>1, InvHolds, PTL
=============================================================================
