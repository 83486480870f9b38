------------------------------- MODULE Stages -------------------------------
(***************************************************************************)
(* The pipeline's data (kineplex-core/src/data.rs): ArrowData that passes  *)
(* through ReceptorStage, WasmStage, AggregationStage and TerminalStage,   *)
(* which writes it to a Parquet file.  The stages are called one after     *)
(* the other, as the benchmark does; between two of them the data may      *)
(* travel as Arrow IPC.  A stage has no await and is one step, but for     *)
(* TerminalStage: it truncates a file that others may have open, and       *)
(* writes it in chunks, each at the offset it has come to.                 *)
(*                                                                         *)
(* The content of the batches is the id of their pipeline and the parity   *)
(* of its attempts, which tells an attempt from what the last one left     *)
(* behind; as for metadata, the keys that more than one stage writes, and  *)
(* the path.  Every pipeline writes partition 0.                           *)
(***************************************************************************)
EXTENDS Naturals, Sequences

CONSTANTS
    Pipelines,
    Dirs,        \* output directories
    DirOf,       \* the output_path of each pipeline's TerminalStage
    MaxChunks,   \* bound: the longest file, footer included, in chunks
    Unset,       \* no such key in the metadata
    Hole         \* a chunk that nobody wrote: another writer truncated the file

ASSUME DirOfAssumption == DirOf \in [Pipelines -> Dirs]
ASSUME MaxChunksAssumption == MaxChunks \in Nat \ {0}

VARIABLES
    at,          \* the stage each pipeline comes to, or how it ended
    parity,      \* of its attempts
    chunks,      \* the chunks that its output takes
    written,     \* the chunks that it has written
    metadata,
    files,       \* files[d]: the chunks of d/part-0.parquet, if it exists
    alone        \* history: the pipelines whose file nobody else had open, or
                 \* has created again, since they created it

stagesVars == <<at, parity, chunks, written, metadata, files, alone>>

Chunk == (Pipelines \X {0, 1}) \cup {Hole}

Metadata == [stage : {"receptor", "wasm", "aggregation", "terminal", Unset},
             executed_by : {"wasm", "terminal", Unset},
             parquet_path : Dirs \cup {Unset}]

NoMetadata == [stage |-> Unset, executed_by |-> Unset, parquet_path |-> Unset]

StagesTypeOK ==
    /\ at \in [Pipelines -> {"receptor", "wasm", "aggregation", "terminal", "writing", "Ok", "Err"}]
    /\ parity \in [Pipelines -> {0, 1}]
    /\ chunks \in [Pipelines -> 1 .. MaxChunks]
    /\ written \in [Pipelines -> 0 .. MaxChunks]
    /\ metadata \in [Pipelines -> Metadata]
    /\ files \in [Dirs -> Seq(Chunk)]
    /\ alone \subseteq Pipelines

StagesInit ==
    /\ at = [p \in Pipelines |-> "receptor"]
    /\ parity = [p \in Pipelines |-> 0]
    /\ chunks = [p \in Pipelines |-> MaxChunks]
    /\ written = [p \in Pipelines |-> 0]
    /\ metadata = [p \in Pipelines |-> NoMetadata]
    /\ files = [d \in Dirs |-> <<>>]
    /\ alone = {}

Data(p) == <<p, parity[p]>>

-----------------------------------------------------------------------------
(* The stages in memory pass the batches on and leave their mark. *)

Pass(p, next, mark) ==
    /\ at' = [at EXCEPT ![p] = next]
    /\ metadata' = [metadata EXCEPT ![p] = mark]
    /\ UNCHANGED <<parity, chunks, written, files, alone>>

Receptor(p) ==
    /\ at[p] = "receptor"
    /\ Pass(p, "wasm", [metadata[p] EXCEPT !.stage = "receptor"])

WasmStage(p) ==
    /\ at[p] = "wasm"
    /\ Pass(p, "aggregation", [metadata[p] EXCEPT !.stage = "wasm", !.executed_by = "wasm"])

Aggregation(p) ==
    /\ at[p] = "aggregation"
    /\ Pass(p, "terminal", [metadata[p] EXCEPT !.stage = "aggregation"])

\* to_ipc and from_ipc keep batches and schema, and no metadata.
Ipc(p) ==
    /\ at[p] \in {"wasm", "aggregation", "terminal"}
    /\ Pass(p, at[p], NoMetadata)

-----------------------------------------------------------------------------
(* TerminalStage and ParquetWriter. *)

\* Mutant: the file is opened and not truncated.
Opened(file) == file

\* File::create, whoever else has the file open.
Created(file) == <<>>

SameFile(p) == {q \in Pipelines : DirOf[q] = DirOf[p]}

Terminal(p) ==
    /\ at[p] = "terminal"
    /\ at' = [at EXCEPT ![p] = "writing"]
    /\ metadata' = [metadata EXCEPT ![p].stage = "terminal", ![p].executed_by = "terminal"]
    /\ files' = [files EXCEPT ![DirOf[p]] = Created(@)]
    /\ alone' = (alone \ SameFile(p)) \cup
                  (IF \A q \in SameFile(p) : at[q] # "writing" THEN {p} ELSE {})
    /\ UNCHANGED <<parity, chunks, written>>

\* The file with one chunk written at offset n.
WriteAt(file, n, chunk) ==
    [i \in 1 .. (IF Len(file) > n THEN Len(file) ELSE n + 1) |->
        IF i = n + 1 THEN chunk ELSE IF i <= Len(file) THEN file[i] ELSE Hole]

\* The ArrowWriter, or the buffer below it, is full, or close flushes them.
WriteChunk(p) ==
    /\ at[p] = "writing"
    /\ written[p] < chunks[p]
    /\ files' = [files EXCEPT ![DirOf[p]] = WriteAt(@, written[p], Data(p))]
    /\ written' = [written EXCEPT ![p] = @ + 1]
    /\ UNCHANGED <<at, parity, chunks, metadata, alone>>

\* close has written the footer; the path goes into the metadata.
Close(p) ==
    /\ at[p] = "writing"
    /\ written[p] = chunks[p]
    /\ at' = [at EXCEPT ![p] = "Ok"]
    /\ metadata' = [metadata EXCEPT ![p].parquet_path = DirOf[p]]
    /\ UNCHANGED <<parity, chunks, written, files, alone>>

\* The directory or the file cannot be created, or a write fails: what there is
\* of the file remains, under its final name.
Fail(p) ==
    /\ at[p] \in {"terminal", "writing"}
    /\ at' = [at EXCEPT ![p] = "Err"]
    /\ UNCHANGED <<parity, chunks, written, metadata, files, alone>>

\* The next data for the same stages, or a retry.
Again(p, n) ==
    /\ at[p] \in {"Ok", "Err"}
    /\ at' = [at EXCEPT ![p] = "receptor"]
    /\ parity' = [parity EXCEPT ![p] = 1 - @]
    /\ chunks' = [chunks EXCEPT ![p] = n]
    /\ written' = [written EXCEPT ![p] = 0]
    /\ metadata' = [metadata EXCEPT ![p] = NoMetadata]
    /\ UNCHANGED <<files, alone>>

StagesNext ==
    \E p \in Pipelines :
        \/ Receptor(p) \/ WasmStage(p) \/ Aggregation(p) \/ Ipc(p)
        \/ Terminal(p) \/ WriteChunk(p) \/ Close(p) \/ Fail(p)
        \/ \E n \in 1 .. MaxChunks : Again(p, n)

StagesSpec == StagesInit /\ [][StagesNext]_stagesVars

-----------------------------------------------------------------------------
(* Properties *)

\* While no other pipeline has the file open or creates it again, an answer of Ok
\* stands for a file that holds all of this attempt's data and nothing else,
\* however earlier attempts, its own or others', ended and however long they were.
OutputIsWhole ==
    \A p \in alone :
        at[p] = "Ok" => files[DirOf[p]] = [i \in 1 .. chunks[p] |-> Data(p)]
=============================================================================
