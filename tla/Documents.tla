----------------------------- MODULE Documents -----------------------------
(***************************************************************************)
(* The indexing of an uploaded document (apps/agent/handler/document.go):  *)
(* the text is cut into overlapping chunks (graph/chunker.go), which are   *)
(* written to Milvus batch by batch until one fails.  A round of a loop is *)
(* a step.  Runes are counted from 0; a chunk is the range [from, to).     *)
(***************************************************************************)
EXTENDS Integers, Sequences

CONSTANTS MaxRunes,     \* bound on the length of a document
          Settings,     \* pairs of chunk size and overlap; the handler's is <<512, 50>>
          StoreBatch    \* batchSize of the handler, 10

ASSUME DocumentsAssumption ==
  /\ MaxRunes \in Nat /\ Settings \subseteq Int \X Int /\ StoreBatch \in Nat \ {0}

VARIABLES runes,     \* length of the text
          setting,   \* what the chunker was made with
          phase,     \* where the handler is
          start,     \* the loop variable of Chunk
          chunks,    \* the chunks so far
          stored     \* how many of them Milvus has

docVars == <<runes, setting, phase, start, chunks, stored>>

----------------------------------------------------------------------------
(* NewFixedSizeChunker corrects its parameters; an overlap of 50 may still *)
(* not be below the size, which Chunk takes into account.                  *)
ChunkSize == IF setting[1] <= 0 THEN 512 ELSE setting[1]
ChunkOverlap == IF setting[2] < 0 \/ setting[2] >= ChunkSize THEN 50 ELSE setting[2]
Step == IF ChunkSize - ChunkOverlap <= 0 THEN ChunkSize ELSE ChunkSize - ChunkOverlap

(* The handler refuses a file it cannot read and a blank one.              *)
ReadFile ==
  /\ phase = "received"
  /\ \/ phase' = "failed"
     \/ runes > 0 /\ phase' = "cut"
  /\ UNCHANGED <<runes, setting, start, chunks, stored>>

(* As ChunkRound, but the loop goes on after a chunk that reaches the end. *)
MutChunkRound ==
  /\ phase = "cut" /\ runes > ChunkSize
  /\ LET end == IF start + ChunkSize > runes THEN runes ELSE start + ChunkSize
     IN /\ chunks' = Append(chunks, [from |-> start, to |-> end])
        /\ phase' = IF start + Step >= runes THEN "store" ELSE "cut"
  /\ start' = start + Step
  /\ UNCHANGED <<runes, setting, stored>>

(* A round of Chunk's loop, for a text that is longer than a chunk.        *)
ChunkRound ==
  /\ phase = "cut" /\ runes > ChunkSize
  /\ LET end == IF start + ChunkSize > runes THEN runes ELSE start + ChunkSize
     IN /\ chunks' = Append(chunks, [from |-> start, to |-> end])
        /\ phase' = IF end = runes \/ start + Step >= runes THEN "store" ELSE "cut"
  /\ start' = start + Step
  /\ UNCHANGED <<runes, setting, stored>>

ChunkShort ==
  /\ phase = "cut" /\ runes <= ChunkSize
  /\ chunks' = <<[from |-> 0, to |-> runes]>> /\ phase' = "store"
  /\ UNCHANGED <<runes, setting, start, stored>>

BatchEnd == IF stored + StoreBatch > Len(chunks) THEN Len(chunks) ELSE stored + StoreBatch

(* A batch is embedded and written.                                        *)
StoreDocs ==
  /\ phase = "store"
  /\ stored' = BatchEnd /\ phase' = IF BatchEnd >= Len(chunks) THEN "ok" ELSE "store"
  /\ UNCHANGED <<runes, setting, start, chunks>>

(* The embedder or the indexer is not to be had, or the batch fails; the   *)
(* earlier ones stay in Milvus, and an insert that reports an error may    *)
(* have been applied.                                                      *)
StoreFails ==
  /\ phase = "store" /\ phase' = "failed" /\ stored' \in {stored, BatchEnd}
  /\ UNCHANGED <<runes, setting, start, chunks>>

DocumentsInit ==
  /\ runes \in 0 .. MaxRunes /\ setting \in Settings /\ phase = "received"
  /\ start = 0 /\ chunks = <<>> /\ stored = 0

DocumentsNext == ReadFile \/ ChunkRound \/ ChunkShort \/ StoreDocs \/ StoreFails

DocumentsSpec == DocumentsInit /\ [][DocumentsNext]_docVars

----------------------------------------------------------------------------
(* Properties.                                                             *)

(* What two neighbouring chunks share: the overlap, if it is below the     *)
(* size.                                                                   *)
Shared == IF ChunkOverlap < ChunkSize THEN ChunkOverlap ELSE 0

ChunksSound ==
  /\ \A i \in 1 .. Len(chunks) :
       /\ chunks[i].from >= 0 /\ chunks[i].from < chunks[i].to /\ chunks[i].to <= runes
       /\ chunks[i].to - chunks[i].from <= ChunkSize
  /\ \A i \in 2 .. Len(chunks) :
       /\ chunks[i].from = chunks[i - 1].to - Shared
       /\ chunks[i].to > chunks[i - 1].to

Covered(r, k) == \E i \in 1 .. k : chunks[i].from <= r /\ r < chunks[i].to

(* The text of a document is neither lost nor repeated beyond the overlap: *)
(* no chunk is longer than the chunker was told, neighbours share exactly  *)
(* the overlap and each says something new; a request that succeeds has    *)
(* put every rune into Milvus, and one that fails has left whole batches   *)
(* from the start, or all of them (Chunk, IndexDocumentHandler).           *)
DocumentKept ==
  /\ ChunksSound
  /\ phase = "ok" => \A r \in 0 .. runes - 1 : Covered(r, stored)
  /\ phase = "failed" =>
       stored = Len(chunks) \/ \E b \in 0 .. stored : stored = b * StoreBatch
=============================================================================
