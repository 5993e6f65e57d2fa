------------------------------ MODULE Documents ------------------------------
(***************************************************************************)
(* mi-runner rag, ingest_path of rag/ingest.py: the files under a path are *)
(* read, in bulk mode cut into overlapping chunks, embedded in one call,   *)
(* and stored in doc_chunks in one transaction.  A chunk is the file and   *)
(* the positions from (included) to to (excluded) it was cut from.         *)
(*                                                                         *)
(* Every ingestion makes chunk ids of its own, so ON CONFLICT never        *)
(* applies, and ingesting a path again stores its chunks again.            *)
(***************************************************************************)
EXTENDS Integers

CONSTANTS File,          \* files that may be found under the path
          Nil,           \* no file, no asset
          LengthOf,      \* the characters of a file, once extracted
          BlankIn,       \* which of them are white space
          DocAsset,      \* the assets chunks are ingested for
          ChunkSizes,    \* the --chunk-size of a command
          Overlap,       \* the overlap of chunk_text
          MaxIngestions, \* bound: commands run
          MaxParts       \* bound: chunks cut from one file

ASSUME DocumentsAssumption ==
  /\ Nil \notin File
  /\ LengthOf \in [File -> Nat]
  /\ ChunkSizes \subseteq Nat
  /\ Overlap \in Nat

VARIABLES docChunks, \* the committed rows of doc_chunks
          loaded,    \* by command: the files it could read
          ingestion  \* the command that is running

documentVars == <<docChunks, loaded, ingestion>>

Least(a, b) == IF a < b THEN a ELSE b

NoIngestion == [pc |-> "idle", run |-> 0, asset |-> Nil, bulk |-> FALSE,
                size |-> 0, todo |-> {}, file |-> Nil, at |-> 0, parts |-> 0,
                chunks |-> {}, sent |-> {}]

DocumentsInit ==
  /\ docChunks = {}
  /\ loaded = [r \in 1 .. MaxIngestions |-> {}]
  /\ ingestion = NoIngestion

-----------------------------------------------------------------------------
Begun(r, files, asset, bulk, size) ==
  [NoIngestion EXCEPT !.pc = "cut", !.run = r, !.asset = asset, !.bulk = bulk,
                      !.size = size, !.todo = files]

\* load_texts: a file that cannot be read is left out; without any, the
\* command ends.  Without bulk mode the chunk size is not looked at.
Ran == {r \in DOMAIN loaded : loaded[r] # {}}

LoadTexts ==
  /\ ingestion.pc = "idle"
  /\ \E r \in DOMAIN loaded \ Ran, files \in (SUBSET File) \ {{}},
        asset \in DocAsset, bulk \in BOOLEAN,
        size \in ChunkSizes :
       /\ \A q \in DOMAIN loaded \ Ran : r <= q
       /\ ~bulk => size = CHOOSE n \in ChunkSizes : TRUE
       /\ loaded' = [loaded EXCEPT ![r] = files]
       /\ ingestion' = Begun(r, files, asset, bulk, size)
  /\ UNCHANGED docChunks

Blank(f, from, to) == \A p \in from .. to - 1 : p \in BlankIn[f]

Chunk(f, from, to) == [file |-> f, from |-> from, to |-> to]

\* Without bulk mode a file is one chunk.
TakeWhole ==
  /\ ingestion.pc = "cut" /\ ~ingestion.bulk
  /\ \E f \in ingestion.todo :
       ingestion' = [ingestion EXCEPT !.todo = @ \ {f},
                       !.chunks = @ \cup {Chunk(f, 0, LengthOf[f])}]
  /\ UNCHANGED <<docChunks, loaded>>

OpenFile ==
  /\ ingestion.pc = "cut" /\ ingestion.bulk /\ ingestion.file = Nil
  /\ \E f \in ingestion.todo :
       ingestion' = [ingestion EXCEPT !.todo = @ \ {f}, !.file = f, !.at = 0, !.parts = 0]
  /\ UNCHANGED <<docChunks, loaded>>

\* Mutant: the overlap is one too long.
Restep_TooFar(to) == IF to - Overlap - 1 < 0 THEN 0 ELSE to - Overlap - 1

Restep(to) == IF to - Overlap < 0 THEN 0 ELSE to - Overlap

\* One turn of chunk_text's loop; blank chunks are dropped at its end.
CutChunk ==
  LET f == ingestion.file
      n == LengthOf[f]
      from == ingestion.at
      to == Least(from + ingestion.size, n)
  IN  /\ ingestion.pc = "cut" /\ f # Nil
      /\ from < n /\ ingestion.parts < MaxParts
      /\ ingestion' =
           [ingestion EXCEPT
              !.chunks = IF Blank(f, from, to) THEN @ ELSE @ \cup {Chunk(f, from, to)},
              !.parts = @ + 1,
              !.at = IF to = n THEN n ELSE Restep(to)]
      /\ UNCHANGED <<docChunks, loaded>>

FileCut ==
  /\ ingestion.pc = "cut" /\ ingestion.file # Nil
  /\ ingestion.at = LengthOf[ingestion.file]
  /\ ingestion' = [ingestion EXCEPT !.file = Nil]
  /\ UNCHANGED <<docChunks, loaded>>

EmbedTexts ==
  /\ ingestion.pc = "cut" /\ ingestion.todo = {} /\ ingestion.file = Nil
  /\ ingestion.chunks # {}
  /\ ingestion' = [ingestion EXCEPT !.pc = "insert"]
  /\ UNCHANGED <<docChunks, loaded>>

Stored(chunk) ==
  [file |-> chunk.file, from |-> chunk.from, to |-> chunk.to,
   asset |-> ingestion.asset, run |-> ingestion.run]

\* Mutant: every INSERT commits.
InsertChunk_Commits ==
  /\ ingestion.pc = "insert"
  /\ \E c \in ingestion.chunks \ ingestion.sent :
       /\ ingestion' = [ingestion EXCEPT !.sent = @ \cup {c}]
       /\ docChunks' = docChunks \cup {Stored(c)}
  /\ UNCHANGED loaded

\* upsert_chunks, a row at a time in its transaction.
InsertChunk ==
  /\ ingestion.pc = "insert"
  /\ \E c \in ingestion.chunks \ ingestion.sent :
       ingestion' = [ingestion EXCEPT !.sent = @ \cup {c}]
  /\ UNCHANGED <<docChunks, loaded>>

CommitChunks ==
  /\ ingestion.pc = "insert" /\ ingestion.sent = ingestion.chunks
  /\ docChunks' = docChunks \cup {Stored(c) : c \in ingestion.sent}
  /\ ingestion' = NoIngestion
  /\ UNCHANGED loaded

\* There is no API key, the call that embeds fails (as it does without any
\* text), a row is refused, or the process dies.
IngestionFails ==
  /\ ingestion.pc # "idle"
  /\ ingestion' = NoIngestion
  /\ UNCHANGED <<docChunks, loaded>>

DocumentsNext ==
  \/ LoadTexts \/ TakeWhole \/ OpenFile \/ CutChunk \/ FileCut \/ EmbedTexts
  \/ InsertChunk \/ CommitChunks \/ IngestionFails

DocumentsSpec == DocumentsInit /\ [][DocumentsNext]_documentVars

-----------------------------------------------------------------------------
(* Properties.                                                             *)

\* What a command has stored is everything it could read: of each file, every
\* character that is not white space is in a chunk, whatever the chunk size,
\* and wherever the command failed (chunk_text, upsert_chunks).
WholeDocuments ==
  \A c \in docChunks : \A f \in loaded[c.run] :
    \A p \in (0 .. LengthOf[f] - 1) \ BlankIn[f] :
      \E d \in docChunks : /\ d.run = c.run /\ d.file = f
                           /\ d.from <= p /\ p < d.to

\* Cutting a file comes to an end when chunks are longer than the overlap:
\* every turn of the loop gets further by at least one character.  (When they
\* are not, and the file is longer than a chunk, it never ends.)
ChunkingAdvances ==
  ingestion.size > Overlap => ingestion.at >= ingestion.parts
=============================================================================
