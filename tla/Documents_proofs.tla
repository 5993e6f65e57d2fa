-------------------------- MODULE Documents_proofs ---------------------------
(***************************************************************************)
(* WholeDocuments and ChunkingAdvances for every set of files, every       *)
(* chunk size and every overlap; then DocumentsFound, of an event's        *)
(* context that is put together while chunks are stored.                   *)
(*                                                                         *)
(* WholeDocuments is about committed chunks and is not inductive: the      *)
(* invariant Progress follows the chunks of the command that runs from the *)
(* first cut to the commit.  Of the file in hand they cover what lies      *)
(* before at, of every file done with all of it.                           *)
(***************************************************************************)
EXTENDS EventContext, FiniteSetTheorems, WellFoundedInduction, TLAPS

Chunks == [file : File, from : Int, to : Int]

ChunkRows == [file : File, from : Int, to : Int, asset : DocAsset, run : DOMAIN loaded]

Ingestions ==
  [pc : {"idle", "cut", "insert"}, run : Int, asset : DocAsset \cup {Nil},
   bulk : BOOLEAN, size : Nat, todo : SUBSET File, file : File \cup {Nil},
   at : Nat, parts : Nat, chunks : SUBSET Chunks, sent : SUBSET Chunks]

IngestionTyped ==
  /\ loaded \in [1 .. MaxIngestions -> SUBSET File]
  /\ docChunks \subseteq ChunkRows
  /\ ingestion \in Ingestions
  /\ ingestion.pc # "idle" => ingestion.asset \in DocAsset /\ ingestion.run \in Ran
  /\ \A c \in docChunks : c.run \in Ran

\* Every character of f before n is white space or in one of chunks.
Covers(chunks, f, n) ==
  \A p \in 0 .. n - 1 :
    p \in BlankIn[f] \/ \E d \in chunks : d.file = f /\ d.from <= p /\ p < d.to

Progress ==
  /\ ingestion.pc = "cut" =>
       \A f \in loaded[ingestion.run] :
         f \in ingestion.todo \/ f = ingestion.file
                              \/ Covers(ingestion.chunks, f, LengthOf[f])
  /\ ingestion.pc = "cut" /\ ingestion.file # Nil =>
       Covers(ingestion.chunks, ingestion.file, ingestion.at)
  /\ ingestion.pc = "insert" =>
       \A f \in loaded[ingestion.run] : Covers(ingestion.chunks, f, LengthOf[f])

\* Where chunk_text's loop starts over after a chunk that ends at to.
RestartAt(to, n) == IF to = n THEN n ELSE Restep(to)

\* One turn of chunk_text ends within the file, and starts over before its end.
LEMMA LoopTurn ==
  ASSUME NEW from \in Nat, NEW size \in Nat, NEW n \in Nat, from < n
  PROVE  /\ Least(from + size, n) \in Nat /\ Least(from + size, n) <= n
         /\ RestartAt(Least(from + size, n), n) \in Nat
         /\ RestartAt(Least(from + size, n), n) <= Least(from + size, n)
         /\ size > Overlap => RestartAt(Least(from + size, n), n) >= from + 1
BY DocumentsAssumption DEF DocumentsAssumption, Least, Restep, RestartAt

\* Chunks that are added take no cover away.
LEMMA MoreCovers ==
  ASSUME NEW S, NEW T, S \subseteq T, NEW f, NEW n, Covers(S, f, n)
  PROVE  Covers(T, f, n)
BY DEF Covers

-----------------------------------------------------------------------------
\* The first state.
LEMMA InitType == DocumentsInit => IngestionTyped
BY DEF DocumentsInit, IngestionTyped, NoIngestion, Ingestions, Chunks, ChunkRows

\* A command that goes on keeps the types.
LEMMA NextType == IngestionTyped /\ [DocumentsNext]_documentVars => IngestionTyped'
<1> SUFFICES ASSUME IngestionTyped, [DocumentsNext]_documentVars PROVE IngestionTyped'
  OBVIOUS
<1> USE DEF IngestionTyped
<1>1. CASE LoadTexts
  <2>1. PICK r \in DOMAIN loaded \ Ran, files \in (SUBSET File) \ {{}},
             asset \in DocAsset, bulk \in BOOLEAN, size \in ChunkSizes :
             /\ loaded' = [loaded EXCEPT ![r] = files]
             /\ ingestion' = Begun(r, files, asset, bulk, size)
    BY <1>1, Zenon DEF LoadTexts
  <2>2. loaded' \in [1 .. MaxIngestions -> SUBSET File] /\ DOMAIN loaded' = DOMAIN loaded
    BY <2>1
  <2>3. r \in Ran' /\ Ran \subseteq Ran'
    BY <2>1, <2>2 DEF Ran
  <2>4. docChunks' = docChunks /\ ChunkRows' = ChunkRows
    BY <1>1, <2>2 DEF LoadTexts, ChunkRows
  <2>5. ingestion' \in Ingestions
    <3>1. r \in Int /\ size \in Nat /\ files \in SUBSET File
      BY <2>1, DocumentsAssumption DEF DocumentsAssumption
    <3>2. ingestion' = [pc |-> "cut", run |-> r, asset |-> asset, bulk |-> bulk,
                        size |-> size, todo |-> files, file |-> Nil, at |-> 0, parts |-> 0,
                        chunks |-> {}, sent |-> {}]
      BY <2>1 DEF Begun, NoIngestion
    <3> QED
      BY <3>1, <3>2 DEF Ingestions
  <2>6. ingestion'.asset \in DocAsset /\ ingestion'.run = r
    BY <2>1 DEF Begun, NoIngestion
  <2> QED
    BY <2>2, <2>3, <2>4, <2>5, <2>6
<1>2. CASE TakeWhole
  <2>1. PICK f \in ingestion.todo :
          ingestion' = [ingestion EXCEPT !.todo = @ \ {f},
                          !.chunks = @ \cup {Chunk(f, 0, LengthOf[f])}]
    BY <1>2 DEF TakeWhole
  <2>2. Chunk(f, 0, LengthOf[f]) \in Chunks
    BY DocumentsAssumption DEF DocumentsAssumption, Chunk, Chunks, Ingestions
  <2>3. ingestion' \in Ingestions
    BY <2>1, <2>2 DEF Ingestions
  <2> QED
    BY <1>2, <2>1, <2>3 DEF TakeWhole, Ingestions, ChunkRows, Ran
<1>3. CASE OpenFile
  <2>1. PICK f \in ingestion.todo :
          ingestion' = [ingestion EXCEPT !.todo = @ \ {f}, !.file = f, !.at = 0, !.parts = 0]
    BY <1>3 DEF OpenFile
  <2>2. f \in File /\ ingestion.todo \ {f} \in SUBSET File
    BY <2>1 DEF Ingestions
  <2>3. ingestion' \in Ingestions
    BY <2>1, <2>2 DEF Ingestions
  <2> QED
    BY <1>3, <2>1, <2>3 DEF OpenFile, Ingestions, ChunkRows, Ran
<1>4. CASE CutChunk
  <2> DEFINE f == ingestion.file
             from == ingestion.at
             to == Least(from + ingestion.size, LengthOf[f])
             at == RestartAt(to, LengthOf[f])
             chunks == IF Blank(f, from, to) THEN ingestion.chunks
                       ELSE ingestion.chunks \cup {Chunk(f, from, to)}
  <2>1. f \in File /\ LengthOf[f] \in Nat /\ from \in Nat /\ ingestion.size \in Nat
    BY <1>4, DocumentsAssumption DEF DocumentsAssumption, CutChunk, Ingestions
  <2>2. from < LengthOf[f]
    BY <1>4 DEF CutChunk
  <2>3. to \in Nat /\ at \in Nat
    BY <2>1, <2>2, LoopTurn
  <2>4. chunks \subseteq Chunks
    BY <2>1, <2>3 DEF Chunk, Chunks, Ingestions
  <2>5. ingestion' = [ingestion EXCEPT !.chunks = chunks, !.parts = @ + 1, !.at = at]
    BY <1>4 DEF CutChunk, RestartAt
  <2> HIDE DEF f, from, to, at, chunks
  <2>6. ingestion' \in Ingestions
    <3>1. ingestion.parts + 1 \in Nat
      BY DEF Ingestions
    <3>2. ingestion' = [ingestion EXCEPT !.chunks = chunks, !.parts = ingestion.parts + 1,
                                         !.at = at]
      BY <2>5
    <3> HIDE DEF IngestionTyped
    <3>3. ingestion \in Ingestions
      BY DEF IngestionTyped
    <3> QED
      BY <2>3, <2>4, <3>1, <3>2, <3>3 DEF Ingestions
  <2> QED
    BY <1>4, <2>5, <2>6 DEF CutChunk, Ingestions, ChunkRows, Ran
<1>5. CASE FileCut
  <2>1. ingestion' \in Ingestions
    BY <1>5 DEF FileCut, Ingestions
  <2> QED
    BY <1>5, <2>1 DEF FileCut, Ingestions, ChunkRows, Ran
<1>6. CASE EmbedTexts
  <2>1. ingestion' \in Ingestions
    BY <1>6 DEF EmbedTexts, Ingestions
  <2> QED
    BY <1>6, <2>1 DEF EmbedTexts, Ingestions, ChunkRows, Ran
<1>7. CASE InsertChunk
  <2>1. ingestion' \in Ingestions
    BY <1>7 DEF InsertChunk, Ingestions
  <2> QED
    BY <1>7, <2>1 DEF InsertChunk, Ingestions, ChunkRows, Ran
<1>8. CASE CommitChunks
  <2>1. \A c \in ingestion.sent : Stored(c) \in ChunkRows /\ Stored(c).run \in Ran
    BY <1>8 DEF CommitChunks, Stored, ChunkRows, Chunks, Ingestions, Ran
  <2>2. ingestion' \in Ingestions /\ ingestion'.pc = "idle"
    BY <1>8 DEF CommitChunks, NoIngestion, Ingestions
  <2>3. loaded' = loaded /\ ChunkRows' = ChunkRows /\ Ran' = Ran
    BY <1>8 DEF CommitChunks, ChunkRows, Ran
  <2>4. docChunks' = docChunks \cup {Stored(c) : c \in ingestion.sent}
    BY <1>8 DEF CommitChunks
  <2> QED
    BY <2>1, <2>2, <2>3, <2>4
<1>9. CASE IngestionFails
  <2>1. ingestion' \in Ingestions /\ ingestion'.pc = "idle"
    BY <1>9 DEF IngestionFails, NoIngestion, Ingestions
  <2> QED
    BY <1>9, <2>1 DEF IngestionFails, ChunkRows, Ran
<1>10. CASE UNCHANGED documentVars
  BY <1>10 DEF documentVars, ChunkRows, Ran
<1> QED
  BY <1>1, <1>2, <1>3, <1>4, <1>5, <1>6, <1>7, <1>8, <1>9, <1>10 DEF DocumentsNext

\* In every reachable state of an ingestion the values are what they are
\* taken for, and rows belong to commands that could read something.
THEOREM DocumentsTyped == DocumentsSpec => []IngestionTyped
BY InitType, NextType, PTL DEF DocumentsSpec

-----------------------------------------------------------------------------
\* The first state.
LEMMA InitProgress == DocumentsInit => Progress
BY DEF DocumentsInit, Progress, NoIngestion

\* A command that goes on keeps what its chunks cover.
LEMMA NextProgress ==
  IngestionTyped /\ Progress /\ [DocumentsNext]_documentVars => Progress'
<1> SUFFICES ASSUME IngestionTyped, Progress, [DocumentsNext]_documentVars PROVE Progress'
  OBVIOUS
<1> USE DEF Progress
<1>1. CASE LoadTexts
  <2>1. PICK r \in DOMAIN loaded \ Ran, files \in (SUBSET File) \ {{}},
             asset \in DocAsset, bulk \in BOOLEAN, size \in ChunkSizes :
             /\ loaded' = [loaded EXCEPT ![r] = files]
             /\ ingestion' = Begun(r, files, asset, bulk, size)
    BY <1>1, Zenon DEF LoadTexts
  <2>2. loaded'[r] = files
    BY <2>1 DEF IngestionTyped
  <2>3. /\ ingestion'.pc = "cut" /\ ingestion'.run = r
        /\ ingestion'.todo = files /\ ingestion'.file = Nil
    BY <2>1 DEF Begun, NoIngestion
  <2> QED
    BY <2>2, <2>3
<1>2. CASE TakeWhole
  <2>1. PICK f \in ingestion.todo :
          ingestion' = [ingestion EXCEPT !.todo = @ \ {f},
                          !.chunks = @ \cup {Chunk(f, 0, LengthOf[f])}]
    BY <1>2 DEF TakeWhole
  <2>2. /\ ingestion'.pc = "cut" /\ ingestion'.run = ingestion.run
        /\ ingestion'.todo = ingestion.todo \ {f} /\ ingestion'.file = ingestion.file
        /\ ingestion'.at = ingestion.at
        /\ ingestion'.chunks = ingestion.chunks \cup {Chunk(f, 0, LengthOf[f])}
    BY <1>2, <2>1 DEF TakeWhole, IngestionTyped, Ingestions
  <2>3. Covers(ingestion'.chunks, f, LengthOf[f])
    <3>1. LengthOf[f] \in Nat
      BY DocumentsAssumption DEF DocumentsAssumption, IngestionTyped, Ingestions
    <3>2. \A p \in 0 .. LengthOf[f] - 1 :
            /\ Chunk(f, 0, LengthOf[f]).file = f
            /\ Chunk(f, 0, LengthOf[f]).from <= p /\ p < Chunk(f, 0, LengthOf[f]).to
      BY <3>1 DEF Chunk
    <3>3. Chunk(f, 0, LengthOf[f]) \in ingestion'.chunks
      BY <2>2
    <3> QED
      BY <3>2, <3>3 DEF Covers
  <2>4. loaded' = loaded /\ ingestion.pc = "cut"
    BY <1>2 DEF TakeWhole
  <2> QED
    BY <2>2, <2>3, <2>4, MoreCovers
<1>3. CASE OpenFile
  <2>1. PICK f \in ingestion.todo :
          ingestion' = [ingestion EXCEPT !.todo = @ \ {f}, !.file = f, !.at = 0, !.parts = 0]
    BY <1>3 DEF OpenFile
  <2>2. /\ ingestion'.pc = "cut" /\ ingestion'.run = ingestion.run
        /\ ingestion'.todo = ingestion.todo \ {f} /\ ingestion'.file = f
        /\ ingestion'.at = 0 /\ ingestion'.chunks = ingestion.chunks
    BY <1>3, <2>1 DEF OpenFile, IngestionTyped, Ingestions
  <2>3. loaded' = loaded /\ ingestion.pc = "cut" /\ ingestion.file = Nil
    BY <1>3 DEF OpenFile
  <2>4. \A g \in loaded[ingestion.run] : g # Nil
    BY <2>3, DocumentsAssumption DEF DocumentsAssumption, IngestionTyped, Ran
  <2>5. Covers(ingestion'.chunks, f, 0)
    BY DEF Covers
  <2> QED
    BY <2>2, <2>3, <2>4, <2>5
<1>4. CASE CutChunk
  <2> DEFINE f == ingestion.file
             from == ingestion.at
             to == Least(from + ingestion.size, LengthOf[f])
             at == RestartAt(to, LengthOf[f])
             chunks == IF Blank(f, from, to) THEN ingestion.chunks
                       ELSE ingestion.chunks \cup {Chunk(f, from, to)}
  <2>1. f \in File /\ LengthOf[f] \in Nat /\ from \in Nat /\ ingestion.size \in Nat
    BY <1>4, DocumentsAssumption DEF DocumentsAssumption, CutChunk, IngestionTyped, Ingestions
  <2>2. from < LengthOf[f] /\ ingestion.pc = "cut" /\ f # Nil /\ loaded' = loaded
    BY <1>4 DEF CutChunk
  <2>3. to \in Nat /\ at \in Nat /\ at <= to
    BY <2>1, <2>2, LoopTurn
  <2>4. ingestion' = [ingestion EXCEPT !.chunks = chunks, !.parts = @ + 1, !.at = at]
    BY <1>4 DEF CutChunk, RestartAt
  <2>5. ingestion.chunks \subseteq chunks
    OBVIOUS
  <2>6. ASSUME NEW p \in from .. to - 1
        PROVE  p \in BlankIn[f] \/ \E d \in chunks : d.file = f /\ d.from <= p /\ p < d.to
    <3>1. CASE Blank(f, from, to)
      BY <3>1, <2>6 DEF Blank
    <3>2. CASE ~Blank(f, from, to)
      <4>1. Chunk(f, from, to) \in chunks
        BY <3>2
      <4>2. /\ Chunk(f, from, to).file = f
            /\ Chunk(f, from, to).from <= p /\ p < Chunk(f, from, to).to
        BY <2>1, <2>3, <2>6 DEF Chunk
      <4> HIDE DEF chunks, f, from, to
      <4> QED
        BY <4>1, <4>2
    <3> QED
      BY <3>1, <3>2
  <2> HIDE DEF f, from, to, at, chunks
  <2>7. /\ ingestion'.pc = ingestion.pc /\ ingestion'.run = ingestion.run
        /\ ingestion'.todo = ingestion.todo /\ ingestion'.file = ingestion.file
        /\ ingestion'.at = at /\ ingestion'.chunks = chunks
    BY <2>4 DEF IngestionTyped, Ingestions
  <2>8. Covers(ingestion.chunks, f, from)
    BY <2>2 DEF f, from
  <2>9. Covers(chunks, f, at)
    <3> SUFFICES ASSUME NEW p \in 0 .. at - 1
                 PROVE  p \in BlankIn[f]
                          \/ \E d \in chunks : d.file = f /\ d.from <= p /\ p < d.to
      BY DEF Covers
    <3>1. p \in 0 .. from - 1 \/ p \in from .. to - 1
      BY <2>1, <2>3
    <3> QED
      BY <3>1, <2>5, <2>6, <2>8 DEF Covers
  <2> QED
    BY <2>2, <2>5, <2>7, <2>9, MoreCovers DEF f
<1>5. CASE FileCut
  <2>1. /\ ingestion'.pc = "cut" /\ ingestion'.run = ingestion.run
        /\ ingestion'.todo = ingestion.todo /\ ingestion'.file = Nil
        /\ ingestion'.chunks = ingestion.chunks
    BY <1>5 DEF FileCut, IngestionTyped, Ingestions
  <2>2. /\ loaded' = loaded /\ ingestion.pc = "cut"
        /\ ingestion.at = LengthOf[ingestion.file] /\ ingestion.file # Nil
    BY <1>5 DEF FileCut
  <2> QED
    BY <2>1, <2>2
<1>6. CASE EmbedTexts
  <2>1. /\ ingestion'.pc = "insert" /\ ingestion'.run = ingestion.run
        /\ ingestion'.chunks = ingestion.chunks
    BY <1>6 DEF EmbedTexts, IngestionTyped, Ingestions
  <2>2. /\ loaded' = loaded /\ ingestion.pc = "cut"
        /\ ingestion.todo = {} /\ ingestion.file = Nil
    BY <1>6 DEF EmbedTexts
  <2>3. \A f \in loaded[ingestion.run] : f # Nil
    BY <2>2, DocumentsAssumption DEF DocumentsAssumption, IngestionTyped, Ran
  <2> QED
    BY <2>1, <2>2, <2>3
<1>7. CASE InsertChunk
  <2>1. /\ ingestion'.pc = "insert" /\ ingestion'.run = ingestion.run
        /\ ingestion'.chunks = ingestion.chunks
    BY <1>7 DEF InsertChunk, IngestionTyped, Ingestions
  <2>2. loaded' = loaded /\ ingestion.pc = "insert"
    BY <1>7 DEF InsertChunk
  <2> QED
    BY <2>1, <2>2
<1>8. CASE CommitChunks
  BY <1>8 DEF CommitChunks, NoIngestion
<1>9. CASE IngestionFails
  BY <1>9 DEF IngestionFails, NoIngestion
<1>10. CASE UNCHANGED documentVars
  BY <1>10 DEF documentVars
<1> QED
  BY <1>1, <1>2, <1>3, <1>4, <1>5, <1>6, <1>7, <1>8, <1>9, <1>10 DEF DocumentsNext

-----------------------------------------------------------------------------
\* What is committed is what was covered.
LEMMA NextWhole ==
  IngestionTyped /\ Progress /\ WholeDocuments /\ [DocumentsNext]_documentVars => WholeDocuments'
<1> SUFFICES ASSUME IngestionTyped, Progress, WholeDocuments, [DocumentsNext]_documentVars
             PROVE  WholeDocuments'
  OBVIOUS
<1>1. CASE LoadTexts
  <2>1. docChunks' = docChunks
    BY <1>1 DEF LoadTexts
  <2>2. PICK r \in DOMAIN loaded \ Ran, files \in (SUBSET File) \ {{}} :
          loaded' = [loaded EXCEPT ![r] = files]
    BY <1>1 DEF LoadTexts
  <2>3. \A c \in docChunks : loaded'[c.run] = loaded[c.run]
    BY <2>2 DEF IngestionTyped, Ran
  <2> QED
    BY <2>1, <2>3 DEF WholeDocuments
<1>2. CASE CommitChunks
  <2>1. /\ loaded' = loaded
        /\ docChunks' = docChunks \cup {Stored(c) : c \in ingestion.sent}
        /\ ingestion.sent = ingestion.chunks /\ ingestion.pc = "insert"
    BY <1>2 DEF CommitChunks
  <2>2. SUFFICES ASSUME NEW c \in docChunks', NEW f \in loaded[c.run],
                        NEW p \in (0 .. LengthOf[f] - 1) \ BlankIn[f]
                 PROVE  \E d \in docChunks' : /\ d.run = c.run /\ d.file = f
                                              /\ d.from <= p /\ p < d.to
    BY <2>1 DEF WholeDocuments
  <2>3. CASE c \in docChunks
    BY <2>1, <2>3 DEF WholeDocuments
  <2>4. CASE c \notin docChunks
    <3>1. c.run = ingestion.run
      BY <2>1, <2>4 DEF Stored
    <3>2. PICK e \in ingestion.chunks : e.file = f /\ e.from <= p /\ p < e.to
      BY <2>1, <3>1 DEF Progress, Covers
    <3>3. Stored(e) \in docChunks'
      BY <2>1
    <3>4. /\ Stored(e).run = c.run /\ Stored(e).file = f
          /\ Stored(e).from <= p /\ p < Stored(e).to
      BY <3>1, <3>2 DEF Stored
    <3> QED
      BY <3>3, <3>4
  <2> QED
    BY <2>3, <2>4
<1>3. CASE UNCHANGED <<docChunks, loaded>>
  BY <1>3 DEF WholeDocuments
<1> QED
  BY <1>1, <1>2, <1>3
     DEF DocumentsNext, documentVars, TakeWhole, OpenFile, CutChunk, FileCut, EmbedTexts,
         InsertChunk, IngestionFails

\* What a command has stored holds every character of every file it could
\* read that is not white space, for all files, chunk sizes and overlaps and
\* wherever commands fail (chunk_text, upsert_chunks).
THEOREM StoredIsWhole == DocumentsSpec => []WholeDocuments
<1>1. DocumentsInit => WholeDocuments
  BY DEF DocumentsInit, WholeDocuments
<1> QED
  BY <1>1, InitType, NextType, InitProgress, NextProgress, NextWhole, PTL DEF DocumentsSpec

\* Every turn of chunk_text's loop gets at least one character further when
\* chunks are longer than the overlap, whatever both are.
THEOREM LoopAdvances == DocumentsSpec => []ChunkingAdvances
<1>1. DocumentsInit => ChunkingAdvances
  BY DEF DocumentsInit, ChunkingAdvances, NoIngestion
<1>2. IngestionTyped /\ ChunkingAdvances /\ [DocumentsNext]_documentVars => ChunkingAdvances'
  <2> SUFFICES ASSUME IngestionTyped, ChunkingAdvances, [DocumentsNext]_documentVars
               PROVE  ChunkingAdvances'
    OBVIOUS
  <2>1. CASE ingestion'.at = 0 /\ ingestion'.parts = 0
    BY <2>1 DEF ChunkingAdvances
  <2>2. CASE /\ ingestion'.at = ingestion.at /\ ingestion'.parts = ingestion.parts
             /\ ingestion'.size = ingestion.size
    BY <2>2 DEF ChunkingAdvances
  <2>3. CASE CutChunk
    <3> DEFINE f == ingestion.file
               to == Least(ingestion.at + ingestion.size, LengthOf[f])
               at == RestartAt(to, LengthOf[f])
    <3>1. /\ f \in File /\ LengthOf[f] \in Nat /\ ingestion.at \in Nat
          /\ ingestion.size \in Nat /\ ingestion.parts \in Nat
      BY <2>3, DocumentsAssumption DEF DocumentsAssumption, CutChunk, IngestionTyped, Ingestions
    <3>2. ingestion.at < LengthOf[f]
      BY <2>3 DEF CutChunk
    <3>3. at \in Nat /\ (ingestion.size > Overlap => at >= ingestion.at + 1)
      BY <3>1, <3>2, LoopTurn
    <3>4. /\ ingestion'.at = at /\ ingestion'.parts = ingestion.parts + 1
          /\ ingestion'.size = ingestion.size
      BY <2>3 DEF CutChunk, RestartAt, IngestionTyped, Ingestions
    <3> HIDE DEF at
    <3> QED
      BY <3>1, <3>3, <3>4 DEF ChunkingAdvances
  <2>4. LoadTexts \/ OpenFile \/ CommitChunks \/ IngestionFails
          => ingestion'.at = 0 /\ ingestion'.parts = 0
    <3>1. LoadTexts => \E r, files, asset, bulk, size :
                         ingestion' = Begun(r, files, asset, bulk, size)
      BY Zenon DEF LoadTexts
    <3>2. LoadTexts => ingestion'.at = 0 /\ ingestion'.parts = 0
      BY <3>1 DEF Begun, NoIngestion
    <3>3. OpenFile => ingestion'.at = 0 /\ ingestion'.parts = 0
      BY DEF OpenFile, IngestionTyped, Ingestions
    <3>4. CommitChunks \/ IngestionFails => ingestion' = NoIngestion
      BY DEF CommitChunks, IngestionFails
    <3> QED
      BY <3>2, <3>3, <3>4 DEF NoIngestion
  <2>5. TakeWhole \/ FileCut \/ EmbedTexts \/ InsertChunk \/ UNCHANGED documentVars
          => /\ ingestion'.at = ingestion.at /\ ingestion'.parts = ingestion.parts
             /\ ingestion'.size = ingestion.size
    BY DEF TakeWhole, FileCut, EmbedTexts, InsertChunk, documentVars, IngestionTyped, Ingestions
  <2> QED
    BY <2>1, <2>2, <2>3, <2>4, <2>5 DEF DocumentsNext
<1> QED
  BY <1>1, <1>2, InitType, NextType, PTL DEF DocumentsSpec

-----------------------------------------------------------------------------
\* A set of naturals that is not empty has a least element.
LEMMA LeastOf ==
  ASSUME NEW S \in SUBSET Nat, S # {}
  PROVE  \E n \in S : \A m \in S : n <= m
<1>1. PICK n \in S : \A m \in S : ~ (<<m, n>> \in OpToRel(<, Nat))
  BY NatLessThanWellFounded, WFMin
<1>2. ASSUME NEW m \in S PROVE n <= m
  <2>1. m \in Nat /\ n \in Nat /\ <<m, n>> \in Nat \X Nat
    OBVIOUS
  <2>2. ~ (m < n)
    BY <1>1, <2>1 DEF OpToRel
  <2> QED
    BY <2>1, <2>2
<1> QED
  BY <1>2

(***************************************************************************)
(* Sums over a finite set, as the folds of the community modules define    *)
(* them: one element is taken at a time.                                   *)
(***************************************************************************)

One(s) == CHOOSE x \in s : TRUE

\* g is the fold over the subsets of S, w what is added.
AddsUp(g, w, S) ==
  /\ g = [s \in SUBSET S |-> g[s]]
  /\ \A s \in SUBSET S : g[s] = IF s = {} THEN 0 ELSE w[One(s)] + g[s \ {One(s)}]

\* The same, up to n elements.
AddsUpTo(g, w, S, n) ==
  \A s \in SUBSET S : Cardinality(s) <= n =>
    g[s] = IF s = {} THEN 0 ELSE w[One(s)] + g[s \ {One(s)}]

\* One element less.
LEMMA OneLess ==
  ASSUME NEW S, IsFiniteSet(S), NEW s \in SUBSET S, s # {}
  PROVE  /\ One(s) \in s /\ IsFiniteSet(s) /\ Cardinality(s) \in Nat
         /\ s \ {One(s)} \in SUBSET S
         /\ Cardinality(s \ {One(s)}) \in Nat
         /\ Cardinality(s) = Cardinality(s \ {One(s)}) + 1
<1>1. IsFiniteSet(s)
  BY FS_Subset
<1>2. One(s) \in s
  BY DEF One
<1>3. /\ IsFiniteSet(s \ {One(s)}) /\ Cardinality(s) \in Nat
      /\ Cardinality(s \ {One(s)}) = Cardinality(s) - 1
  BY <1>1, <1>2, FS_RemoveElement, FS_CardinalityType
<1>4. Cardinality(s \ {One(s)}) \in Nat
  BY <1>3, FS_CardinalityType
<1> QED
  BY <1>1, <1>2, <1>3, <1>4

\* The fold exists.
LEMMA SumExists ==
  ASSUME NEW S, IsFiniteSet(S), NEW w
  PROVE  \E g : AddsUp(g, w, S)
<1>1. \A n \in Nat : \E g : AddsUpTo(g, w, S, n)
  <2> DEFINE bad == {n \in Nat : ~ \E g : AddsUpTo(g, w, S, n)}
  <2> SUFFICES ASSUME bad # {} PROVE FALSE
    OBVIOUS
  <2>1. PICK n \in bad : \A m \in bad : n <= m
    BY LeastOf
  <2>2. CASE n = 0
    <3> DEFINE g == [s \in SUBSET S |-> 0]
    <3>1. ASSUME NEW s \in SUBSET S, Cardinality(s) <= 0 PROVE s = {}
      <4> SUFFICES ASSUME s # {} PROVE FALSE
        OBVIOUS
      <4>1. Cardinality(s) = Cardinality(s \ {One(s)}) + 1 /\ Cardinality(s \ {One(s)}) \in Nat
        BY OneLess
      <4> QED
        BY <3>1, <4>1
    <3>2. AddsUpTo(g, w, S, 0)
      BY <3>1 DEF AddsUpTo
    <3> QED
      BY <2>2, <3>2
  <2>3. CASE n # 0
    <3>1. n - 1 \in Nat /\ n \in Nat /\ n - 1 \notin bad
      BY <2>1, <2>3
    <3>2. PICK f : AddsUpTo(f, w, S, n - 1)
      BY <3>1
    <3> DEFINE g == [s \in SUBSET S |-> IF s = {} THEN 0 ELSE w[One(s)] + f[s \ {One(s)}]]
    <3>3. ASSUME NEW s \in SUBSET S, Cardinality(s) <= n - 1 PROVE g[s] = f[s]
      BY <3>2, <3>3 DEF AddsUpTo
    <3>4. ASSUME NEW s \in SUBSET S, Cardinality(s) <= n, s # {}
          PROVE  g[s] = w[One(s)] + g[s \ {One(s)}]
      <4>1. s \ {One(s)} \in SUBSET S /\ Cardinality(s \ {One(s)}) <= n - 1
        BY <3>1, <3>4, OneLess
      <4>2. g[s \ {One(s)}] = f[s \ {One(s)}]
        BY <3>3, <4>1
      <4> QED
        BY <3>4, <4>2
    <3>5. g[{}] = 0
      OBVIOUS
    <3> HIDE DEF g
    <3>6. AddsUpTo(g, w, S, n)
      BY <3>4, <3>5 DEF AddsUpTo
    <3> QED
      BY <2>1, <3>6
  <2> QED
    BY <2>2, <2>3
<1>2. Cardinality(S) \in Nat
  BY FS_CardinalityType
<1>3. PICK f : AddsUpTo(f, w, S, Cardinality(S))
  BY <1>1, <1>2
<1>4. \A s \in SUBSET S : Cardinality(s) <= Cardinality(S)
  BY FS_Subset
<1> DEFINE g == [s \in SUBSET S |-> f[s]]
<1>5. ASSUME NEW s \in SUBSET S
      PROVE  g[s] = IF s = {} THEN 0 ELSE w[One(s)] + g[s \ {One(s)}]
  <2>1. s \ {One(s)} \in SUBSET S
    OBVIOUS
  <2> QED
    BY <1>3, <1>4, <2>1 DEF AddsUpTo
<1>6. AddsUp(g, w, S)
  BY <1>5 DEF AddsUp
<1> QED
  BY <1>6

\* A sum of natural numbers is one.
LEMMA SumOfNaturals ==
  ASSUME NEW S, IsFiniteSet(S), NEW w, \A x \in S : w[x] \in Nat, NEW g, AddsUp(g, w, S)
  PROVE  g[S] \in Nat
<1> DEFINE bad == {Cardinality(s) : s \in {t \in SUBSET S : g[t] \notin Nat}}
<1> SUFFICES ASSUME bad # {} PROVE FALSE
  OBVIOUS
<1>1. bad \in SUBSET Nat
  BY FS_Subset, FS_CardinalityType
<1>2. PICK n \in bad : \A m \in bad : n <= m
  BY <1>1, LeastOf
<1>3. PICK s \in SUBSET S : g[s] \notin Nat /\ Cardinality(s) = n
  BY <1>2
<1>4. s # {} /\ g[s] = w[One(s)] + g[s \ {One(s)}]
  <2>1. g[s] = IF s = {} THEN 0 ELSE w[One(s)] + g[s \ {One(s)}]
    BY DEF AddsUp
  <2>2. s # {}
    BY <1>3, <2>1
  <2> QED
    BY <2>1, <2>2
<1>5. /\ One(s) \in S /\ s \ {One(s)} \in SUBSET S /\ Cardinality(s \ {One(s)}) \in Nat
      /\ Cardinality(s) = Cardinality(s \ {One(s)}) + 1
  BY <1>4, OneLess
<1>6. g[s \ {One(s)}] \in Nat
  <2> SUFFICES ASSUME g[s \ {One(s)}] \notin Nat PROVE FALSE
    OBVIOUS
  <2>1. Cardinality(s \ {One(s)}) \in bad
    BY <1>5
  <2>2. Cardinality(s) <= Cardinality(s \ {One(s)})
    BY <1>2, <1>3, <2>1
  <2> QED
    BY <1>5, <2>2
<1> QED
  BY <1>3, <1>4, <1>5, <1>6

(***************************************************************************)
(* What an event's context is told of its documents.                       *)
(***************************************************************************)

\* What the first n of ranked take: nothing, what the first takes, a number.
LEMMA Budgeted ==
  ASSUME NEW ranked, NEW n \in Nat, \A i \in 1 .. n : Tokens(ranked[i]) \in Nat
  PROVE  /\ Spent(ranked, n) \in Nat
         /\ n = 0 => Spent(ranked, n) = 0
         /\ n = 1 => Spent(ranked, n) = Tokens(ranked[1])
<1> DEFINE S == 1 .. n
           w == [i \in S |-> Tokens(ranked[i])]
           D(g) == [s \in SUBSET S |-> IF s = {} THEN 0
                          ELSE Tokens(ranked[CHOOSE x \in s : TRUE])
                                 + g[s \ {CHOOSE x \in s : TRUE}]]
           h == CHOOSE g : g = D(g)
<1>1. IsFiniteSet(S)
  BY FS_Interval
<1>2. \A i \in S : w[i] = Tokens(ranked[i]) /\ w[i] \in Nat
  OBVIOUS
<1>3. Spent(ranked, n) = h[S]
  BY DEF Spent, MapThenSumSet, MapThenFoldSet
<1> HIDE DEF w
<1>4. PICK f : AddsUp(f, w, S)
  BY <1>1, SumExists
<1> HIDE DEF S
<1>5. f = D(f)
  <2>1. ASSUME NEW s \in SUBSET S, s # {} PROVE One(s) \in S
    BY <2>1 DEF One
  <2>2. \A s \in SUBSET S : f[s] = IF s = {} THEN 0 ELSE Tokens(ranked[One(s)]) + f[s \ {One(s)}]
    BY <1>2, <1>4, <2>1 DEF AddsUp
  <2> QED
    BY <1>4, <2>2 DEF AddsUp, One
<1>6. h = D(h)
  BY <1>5
<1> HIDE DEF h
<1>7. \A s \in SUBSET S : h[s] = IF s = {} THEN 0 ELSE Tokens(ranked[One(s)]) + h[s \ {One(s)}]
  BY <1>6 DEF One
<1>8. AddsUp(h, w, S)
  <2>1. ASSUME NEW s \in SUBSET S, s # {} PROVE One(s) \in S
    BY <2>1 DEF One
  <2>2. h = [s \in SUBSET S |-> h[s]]
    BY <1>6
  <2> QED
    BY <1>2, <1>7, <2>1, <2>2 DEF AddsUp
<1>9. h[S] \in Nat
  BY <1>1, <1>2, <1>8, SumOfNaturals
<1>10. n = 0 => h[S] = 0
  <2>1. n = 0 => S = {}
    BY DEF S
  <2> QED
    BY <1>7, <2>1
<1>11. ASSUME n = 1 PROVE h[S] = Tokens(ranked[1])
  <2>1. S = {1}
    BY <1>11 DEF S
  <2>2. One(S) = 1 /\ S \ {One(S)} = {} /\ S # {}
    BY <2>1 DEF One
  <2>3. h[{}] = 0
    BY <1>7
  <2>4. h[S] = Tokens(ranked[1]) + h[{}]
    BY <1>7, <2>2
  <2>5. Tokens(ranked[1]) \in Nat
    BY <1>11
  <2> QED
    BY <2>3, <2>4, <2>5
<1> QED
  BY <1>3, <1>9, <1>10, <1>11

\* The budget admits a chunk unless the first one already exceeds it.
LEMMA BudgetAdmits ==
  ASSUME NEW S, NEW ranked \in Seq(S), Len(ranked) > 0,
         \A c \in S : Tokens(c) \in Nat, Tokens(ranked[1]) <= TokenBudget
  PROVE  WithinBudget(ranked) # {}
<1> DEFINE N == Len(ranked)
           fits(n) == /\ Spent(ranked, n) <= TokenBudget
                      /\ n < N => Spent(ranked, n + 1) > TokenBudget
           last == CHOOSE n \in 0 .. N : fits(n)
           over == {n \in 1 .. N : Spent(ranked, n) > TokenBudget}
<1>1. N \in Nat /\ \A n \in 0 .. N : Spent(ranked, n) \in Nat
  BY Budgeted
<1>2. Spent(ranked, 0) = 0 /\ Spent(ranked, 1) = Tokens(ranked[1])
  BY Budgeted
<1>3. TokenBudget \in Nat
  BY EventContextAssumption DEF EventContextAssumption
<1>4. \E n \in 0 .. N : fits(n)
  <2>1. CASE over = {}
    <3>1. Spent(ranked, N) <= TokenBudget
      BY <1>1, <1>2, <1>3, <2>1
    <3> QED
      BY <1>1, <3>1
  <2>2. CASE over # {}
    <3>1. PICK n \in over : \A m \in over : n <= m
      <4>1. over \in SUBSET Nat
        BY <1>1
      <4> HIDE DEF over
      <4> QED
        BY <2>2, <4>1, LeastOf
    <3>2. n \in 1 .. N /\ Spent(ranked, n) > TokenBudget /\ n - 1 \in 0 .. N
      BY <3>1
    <3>3. Spent(ranked, n - 1) <= TokenBudget
      <4>1. CASE n = 1
        BY <1>2, <1>3, <4>1
      <4>2. CASE n # 1
        BY <1>1, <1>3, <3>1, <3>2, <4>2
      <4> QED
        BY <4>1, <4>2
    <3> QED
      BY <3>2, <3>3
  <2> QED
    BY <2>1, <2>2
<1>5. last \in 0 .. N /\ fits(last)
  BY <1>4
<1>6. WithinBudget(ranked) = {ranked[i] : i \in 1 .. last}
  BY DEF WithinBudget
<1> HIDE DEF last
<1>7. last # 0
  BY <1>1, <1>2, <1>3, <1>5
<1>8. 1 \in 1 .. last
  BY <1>5, <1>7
<1> QED
  BY <1>6, <1>8

\* LIMIT leaves a row where there was one.
LEMMA BestOfSome ==
  ASSUME NEW rows, IsFiniteSet(rows), rows # {}, NEW limit \in Nat \ {0},
         NEW s \in Best(rows, limit)
  PROVE  s # {} /\ s \subseteq rows /\ IsFiniteSet(s)
<1>1. Cardinality(rows) \in Nat /\ Cardinality(rows) # 0
  BY FS_CardinalityType, FS_EmptySet
<1>2. s \subseteq rows /\ Cardinality(s) = Least(limit, Cardinality(rows))
  BY DEF Best
<1>3. Cardinality(s) # 0
  BY <1>1, <1>2 DEF Least
<1> QED
  BY <1>2, <1>3, FS_EmptySet, FS_Subset

\* The fields of a lookup.
LookupFields(l) ==
  l = [pc |-> l.pc, asset |-> l.asset, fleet |-> l.fleet, conn |-> l.conn,
       vector |-> l.vector, chunks |-> l.chunks, scope |-> l.scope,
       faults |-> l.faults, known |-> l.known]

\* A search or a fallback that failed, or a chunk over the whole budget.
Excused(l, chunks) ==
  \/ "bm25" \in l.faults /\ ("fallback" \in l.faults \/ l.conn = "lost")
  \/ \E c \in chunks : Tokens(c) > TokenBudget

\* A call at work has a connection until it is lost and starts from chunks
\* that are still there; one that is done found some, or is excused.
LookupTold(l, chunks) ==
  /\ LookupFields(l)
  /\ l.vector \subseteq chunks
  /\ l.known => \E c \in chunks : c.asset = l.asset
  /\ l.pc \notin {"idle", "done"} => l.conn \in {"open", "lost"}
  /\ l.pc = "fallback" => "bm25" \in l.faults
  /\ l.pc = "done" /\ l.known /\ l.chunks = {} => Excused(l, chunks)

\* What is cut and what is stored is finite.
AllFinite ==
  IsFiniteSet(ingestion.chunks) /\ IsFiniteSet(ingestion.sent) /\ IsFiniteSet(docChunks)

ContextInv == IngestionTyped /\ AllFinite /\ LookupTold(lookup, docChunks)

\* Chunks that are added change nothing of what is told.
LEMMA MoreChunks ==
  ASSUME NEW l, NEW S, NEW T, S \subseteq T, LookupTold(l, S)
  PROVE  LookupTold(l, T)
BY DEF LookupTold, Excused

\* Ingestions keep it finite and never take a stored chunk away.
LEMMA FiniteStep ==
  IngestionTyped /\ AllFinite /\ [DocumentsNext]_documentVars
    => AllFinite' /\ docChunks \subseteq docChunks'
<1> SUFFICES ASSUME IngestionTyped, AllFinite, [DocumentsNext]_documentVars
             PROVE  AllFinite' /\ docChunks \subseteq docChunks'
  OBVIOUS
<1> USE DEF AllFinite
<1>0. IsFiniteSet({})
  BY FS_EmptySet
<1>1. CASE LoadTexts
  <2>1. /\ docChunks' = docChunks
        /\ \E r, files, asset, bulk, size : ingestion' = Begun(r, files, asset, bulk, size)
    BY <1>1, Zenon DEF LoadTexts
  <2>2. ingestion'.chunks = {} /\ ingestion'.sent = {}
    BY <2>1 DEF Begun, NoIngestion
  <2> QED
    BY <1>0, <2>1, <2>2
<1>2. CASE TakeWhole
  <2>1. PICK f \in ingestion.todo :
          ingestion' = [ingestion EXCEPT !.todo = @ \ {f},
                          !.chunks = @ \cup {Chunk(f, 0, LengthOf[f])}]
    BY <1>2 DEF TakeWhole
  <2>2. /\ ingestion'.chunks = ingestion.chunks \cup {Chunk(f, 0, LengthOf[f])}
        /\ ingestion'.sent = ingestion.sent /\ docChunks' = docChunks
    BY <1>2, <2>1 DEF TakeWhole, IngestionTyped, Ingestions
  <2> QED
    BY <2>2, FS_AddElement
<1>3. CASE CutChunk
  <2> DEFINE c == Chunk(ingestion.file, ingestion.at,
                        Least(ingestion.at + ingestion.size, LengthOf[ingestion.file]))
  <2>1. /\ ingestion'.chunks \in {ingestion.chunks, ingestion.chunks \cup {c}}
        /\ ingestion'.sent = ingestion.sent /\ docChunks' = docChunks
    BY <1>3 DEF CutChunk, IngestionTyped, Ingestions
  <2> HIDE DEF c
  <2> QED
    BY <2>1, FS_AddElement
<1>4. CASE InsertChunk
  <2>1. PICK c \in ingestion.chunks : ingestion' = [ingestion EXCEPT !.sent = @ \cup {c}]
    BY <1>4 DEF InsertChunk
  <2>2. /\ ingestion'.sent = ingestion.sent \cup {c}
        /\ ingestion'.chunks = ingestion.chunks /\ docChunks' = docChunks
    BY <1>4, <2>1 DEF InsertChunk, IngestionTyped, Ingestions
  <2> QED
    BY <2>2, FS_AddElement
<1>5. CASE CommitChunks
  <2> DEFINE rows == {Stored(c) : c \in ingestion.sent}
             store == [c \in ingestion.sent |-> Stored(c)]
  <2>1. /\ docChunks' = docChunks \cup rows
        /\ ingestion'.chunks = {} /\ ingestion'.sent = {}
    BY <1>5 DEF CommitChunks, NoIngestion
  <2>2. store \in Surjection(ingestion.sent, rows)
    BY Zenon DEF Surjection
  <2> HIDE DEF store, rows
  <2>3. IsFiniteSet(rows)
    BY <2>2, FS_Surjection
  <2> QED
    BY <1>0, <2>1, <2>3, FS_Union
<1>6. CASE IngestionFails
  BY <1>0, <1>6 DEF IngestionFails, NoIngestion
<1>7. CASE OpenFile
  <2>1. PICK f \in ingestion.todo :
          ingestion' = [ingestion EXCEPT !.todo = @ \ {f}, !.file = f, !.at = 0, !.parts = 0]
    BY <1>7 DEF OpenFile
  <2> QED
    BY <1>7, <2>1 DEF OpenFile, IngestionTyped, Ingestions
<1>8. CASE FileCut \/ EmbedTexts \/ UNCHANGED documentVars
  BY <1>8 DEF FileCut, EmbedTexts, documentVars, IngestionTyped, Ingestions
<1> QED
  BY <1>1, <1>2, <1>3, <1>4, <1>5, <1>6, <1>7, <1>8 DEF DocumentsNext

\* A call that ends with chunks of what was stored.
LEMMA Finished ==
  ASSUME NEW chunks, LookupTold(lookup, docChunks), Finish(chunks),
         lookup.known /\ chunks = {} => Excused(lookup, docChunks)
  PROVE  LookupTold(lookup', docChunks)
<1> DEFINE l == lookup
           k == [pc |-> "done", asset |-> l.asset, fleet |-> l.fleet, conn |-> l.conn,
                 vector |-> {}, chunks |-> chunks, scope |-> ScopeOf(chunks),
                 faults |-> l.faults, known |-> l.known]
<1>1. LookupFields(l)
  BY DEF LookupTold
<1>2. lookup' = k
  BY <1>1 DEF Finish, LookupFields
<1>3. /\ LookupFields(k) /\ k.vector = {} /\ k.known = l.known /\ k.asset = l.asset
      /\ k.pc = "done" /\ k.chunks = chunks /\ k.faults = l.faults /\ k.conn = l.conn
  BY DEF LookupFields
<1> HIDE DEF k
<1>4. LookupTold(k, docChunks)
  BY <1>3 DEF LookupTold, Excused
<1> QED
  BY <1>2, <1>4

\* What the queries look at is not empty once chunks of the asset are stored.
LEMMA SomeEligible ==
  LookupTold(lookup, docChunks) /\ AllFinite =>
    /\ IsFiniteSet(Eligible) /\ Eligible \subseteq docChunks
    /\ lookup.known => Eligible # {}
<1> SUFFICES ASSUME LookupTold(lookup, docChunks), AllFinite
             PROVE  /\ IsFiniteSet(Eligible) /\ Eligible \subseteq docChunks
                    /\ lookup.known => Eligible # {}
  OBVIOUS
<1>1. Eligible \subseteq docChunks
  BY DEF Eligible
<1>2. IsFiniteSet(Eligible)
  BY <1>1, FS_Subset DEF AllFinite
<1>3. lookup.known => Eligible # {}
  BY DEF Eligible, LookupTold
<1> QED
  BY <1>1, <1>2, <1>3

\* The type of what the searches rank.
LEMMA TokensTyped == IngestionTyped => \A c \in docChunks : Tokens(c) \in Nat
<1> SUFFICES ASSUME IngestionTyped, NEW c \in docChunks PROVE Tokens(c) \in Nat
  OBVIOUS
<1>1. c.from \in Int /\ c.to \in Int /\ TokenChars \in Nat \ {0}
  BY EventContextAssumption DEF EventContextAssumption, IngestionTyped, ChunkRows
<1> DEFINE n == (c.to - c.from) \div TokenChars
<1>2. n \in Int
  BY <1>1
<1>3. Tokens(c) = IF n < 1 THEN 1 ELSE n
  BY DEF Tokens
<1> HIDE DEF n
<1> QED
  BY <1>2, <1>3

\* What _bm25_search ends with is not empty, or excused by its first chunk.
LEMMA RankedFits ==
  ASSUME IngestionTyped, AllFinite, LookupTold(lookup, docChunks), lookup.known,
         NEW hits \in Best(Eligible, SearchLimit),
         NEW ranked \in SetToSeqs(lookup.vector \cup hits)
  PROVE  WithinBudget(ranked) = {} => \E c \in docChunks : Tokens(c) > TokenBudget
<1> DEFINE S == lookup.vector \cup hits
<1>1. hits # {} /\ hits \subseteq Eligible
  BY SomeEligible, BestOfSome, EventContextAssumption DEF EventContextAssumption
<1>2. S \subseteq docChunks /\ S # {} /\ IsFiniteSet(S)
  BY <1>1, SomeEligible, FS_Subset DEF LookupTold, AllFinite
<1> HIDE DEF S
<1>3. Cardinality(S) \in Nat /\ Cardinality(S) # 0
  BY <1>2, FS_CardinalityType, FS_EmptySet
<1>4. ranked \in [1 .. Cardinality(S) -> S]
  BY DEF SetToSeqs, S
<1>5. ranked \in Seq(S) /\ Len(ranked) > 0 /\ ranked[1] \in S
  BY <1>3, <1>4
<1>6. \A c \in S : Tokens(c) \in Nat
  BY <1>2, TokensTyped
<1>7. Tokens(ranked[1]) <= TokenBudget => WithinBudget(ranked) # {}
  BY <1>5, <1>6, BudgetAdmits
<1>8. TokenBudget \in Nat
  BY EventContextAssumption DEF EventContextAssumption
<1> QED
  BY <1>2, <1>5, <1>6, <1>7, <1>8

\* No step of a call tells of chunks that are not there.
LEMMA LookupKept ==
  ASSUME IngestionTyped, AllFinite, LookupTold(lookup, docChunks), LookupStep
  PROVE  LookupTold(lookup', docChunks)
<1> DEFINE l == lookup
<1>0. LookupFields(l)
  BY DEF LookupTold
<1>1. CASE GetEventContext
  <2>1. PICK asset \in DocAsset \cup {Nil}, fleet \in BOOLEAN :
          lookup' = [NoLookup EXCEPT !.pc = "titles", !.asset = asset, !.fleet = fleet,
                       !.conn = "open", !.known = \E c \in docChunks : c.asset = asset]
    BY <1>1 DEF GetEventContext
  <2> DEFINE k == [pc |-> "titles", asset |-> asset, fleet |-> fleet, conn |-> "open",
                   vector |-> {}, chunks |-> {}, scope |-> "local", faults |-> {},
                   known |-> \E c \in docChunks : c.asset = asset]
  <2>2. lookup' = k
    BY <2>1 DEF NoLookup
  <2>3. LookupFields(k) /\ k.vector = {} /\ k.pc = "titles" /\ k.conn = "open"
    BY DEF LookupFields
  <2>4. k.asset = asset /\ (k.known => \E c \in docChunks : c.asset = asset)
    OBVIOUS
  <2> HIDE DEF k
  <2>5. LookupTold(k, docChunks)
    BY <2>3, <2>4 DEF LookupTold
  <2> QED
    BY <2>2, <2>5
<1>2. CASE CannotConnect
  BY <1>2 DEF CannotConnect, NoLookup, LookupTold, LookupFields
<1>3. ASSUME NEW pc \in {"titles", "signals"}, NEW next \in {"signals", "vector"},
             ReadSection(pc, next) \/ SectionFails(pc, next)
      PROVE  LookupTold(lookup', docChunks)
  <2> DEFINE conn == lookup'.conn
             k == [pc |-> next, asset |-> l.asset, fleet |-> l.fleet, conn |-> conn,
                   vector |-> l.vector, chunks |-> l.chunks, scope |-> l.scope,
                   faults |-> l.faults, known |-> l.known]
  <2>1. l.conn \in {"open", "lost"}
    BY <1>3 DEF LookupTold, ReadSection, SectionFails
  <2>2. lookup' = k
    BY <1>0, <1>3 DEF LookupFields, ReadSection, SectionFails
  <2>3. conn \in {"open", "lost"}
    BY <1>0, <1>3, <2>1 DEF LookupFields, ReadSection, SectionFails, RolledBack
  <2> HIDE DEF conn
  <2>4. /\ LookupFields(k) /\ k.vector = l.vector /\ k.known = l.known
        /\ k.asset = l.asset /\ k.pc = next /\ k.conn = conn
    BY DEF LookupFields
  <2> HIDE DEF k
  <2>5. LookupTold(k, docChunks)
    BY <2>3, <2>4 DEF LookupTold
  <2> QED
    BY <2>2, <2>5
<1>4. CASE VectorSearch
  <2>1. PICK hits \in Best(Eligible, SearchLimit) \cup {{}} :
          lookup' = [lookup EXCEPT !.pc = "bm25", !.vector = hits]
    BY <1>4 DEF VectorSearch
  <2> DEFINE k == [pc |-> "bm25", asset |-> l.asset, fleet |-> l.fleet, conn |-> l.conn,
                   vector |-> hits, chunks |-> l.chunks, scope |-> l.scope,
                   faults |-> l.faults, known |-> l.known]
  <2>2. lookup' = k
    BY <1>0, <2>1 DEF LookupFields
  <2>3. hits \subseteq docChunks
    BY <2>1, SomeEligible DEF Best
  <2>4. /\ LookupFields(k) /\ k.vector = hits /\ k.known = l.known
        /\ k.asset = l.asset /\ k.pc = "bm25" /\ k.conn = l.conn
    BY DEF LookupFields
  <2> HIDE DEF k
  <2>5. LookupTold(k, docChunks)
    BY <1>4, <2>3, <2>4 DEF LookupTold, VectorSearch
  <2> QED
    BY <2>2, <2>5
<1>5. CASE Bm25Search
  <2>1. PICK hits \in Best(Eligible, SearchLimit) :
          \E ranked \in SetToSeqs(lookup.vector \cup hits) : Finish(WithinBudget(ranked))
    BY <1>5 DEF Bm25Search
  <2>2. PICK ranked \in SetToSeqs(lookup.vector \cup hits) : Finish(WithinBudget(ranked))
    BY <2>1
  <2>3. lookup.known /\ WithinBudget(ranked) = {} => Excused(lookup, docChunks)
    BY RankedFits DEF Excused
  <2> QED
    BY <2>2, <2>3, Finished
<1>6. CASE Bm25Fails
  <2> DEFINE k == [pc |-> "fallback", asset |-> l.asset, fleet |-> l.fleet, conn |-> l.conn,
                   vector |-> {}, chunks |-> l.chunks, scope |-> l.scope,
                   faults |-> l.faults \cup {"bm25"}, known |-> l.known]
  <2>1. lookup' = k
    BY <1>0, <1>6 DEF LookupFields, Bm25Fails
  <2>2. /\ LookupFields(k) /\ k.vector = {} /\ k.known = l.known /\ "bm25" \in k.faults
        /\ k.asset = l.asset /\ k.pc = "fallback" /\ k.conn = l.conn
    BY DEF LookupFields
  <2> HIDE DEF k
  <2>3. LookupTold(k, docChunks)
    BY <1>6, <2>2 DEF LookupTold, Bm25Fails
  <2> QED
    BY <2>1, <2>3
<1>7. CASE FetchFallbackDocChunks
  <2>1. PICK rows \in Recent : \E kept \in Best(rows, FallbackKept) : Finish(kept)
    BY <1>7 DEF FetchFallbackDocChunks
  <2>2. PICK kept \in Best(rows, FallbackKept) : Finish(kept)
    BY <2>1
  <2>3. ASSUME lookup.known PROVE kept # {}
    <3>1. IsFiniteSet(Eligible) /\ Eligible # {}
      BY <2>3, SomeEligible
    <3>2. rows \in Best(Eligible, RecentLimit)
      BY <2>1 DEF Recent
    <3>3. RecentLimit \in Nat \ {0} /\ FallbackKept \in Nat \ {0}
      BY EventContextAssumption DEF EventContextAssumption
    <3>4. rows # {} /\ IsFiniteSet(rows)
      BY <3>1, <3>2, <3>3, BestOfSome
    <3> QED
      BY <3>3, <3>4, BestOfSome
  <2> QED
    BY <2>2, <2>3, Finished
<1>8. CASE FallbackRefused
  <2>1. "bm25" \in lookup.faults /\ lookup.conn = "lost" /\ Finish({})
    BY <1>8 DEF FallbackRefused, LookupTold
  <2> QED
    BY <2>1, Finished DEF Excused
<1>9. CASE FallbackFails
  <2> DEFINE k == [pc |-> "done", asset |-> l.asset, fleet |-> l.fleet, conn |-> l.conn,
                   vector |-> l.vector, chunks |-> l.chunks, scope |-> l.scope,
                   faults |-> l.faults \cup {"fallback"}, known |-> l.known]
  <2>1. lookup' = k
    BY <1>0, <1>9 DEF LookupFields, FallbackFails
  <2>2. /\ LookupFields(k) /\ k.vector = l.vector /\ k.known = l.known
        /\ k.faults = l.faults \cup {"fallback"} /\ k.asset = l.asset /\ k.pc = "done"
    BY DEF LookupFields
  <2> HIDE DEF k
  <2>3. LookupTold(k, docChunks)
    BY <1>9, <2>2 DEF LookupTold, FallbackFails, Excused
  <2> QED
    BY <2>1, <2>3
<1>10. CASE ConnectionEnds
  <2> DEFINE k == [pc |-> l.pc, asset |-> l.asset, fleet |-> l.fleet, conn |-> "lost",
                   vector |-> l.vector, chunks |-> l.chunks, scope |-> l.scope,
                   faults |-> l.faults, known |-> l.known]
  <2>1. lookup' = k
    BY <1>0, <1>10 DEF LookupFields, ConnectionEnds
  <2>2. /\ LookupFields(k) /\ k.vector = l.vector /\ k.known = l.known
        /\ k.faults = l.faults /\ k.asset = l.asset /\ k.pc = l.pc /\ k.conn = "lost"
    BY DEF LookupFields
  <2> HIDE DEF k
  <2>3. LookupTold(k, docChunks)
    BY <1>10, <2>2 DEF LookupTold, ConnectionEnds
  <2> QED
    BY <2>1, <2>3
<1> QED
  BY <1>1, <1>2, <1>3, <1>4, <1>5, <1>6, <1>7, <1>8, <1>9, <1>10
     DEF LookupStep, FetchLastWoTitles, FetchSignalContext

\* The invariant of the calls and of the ingestions beside them.
LEMMA ContextInvariance == ContextInit /\ [][ContextNext]_contextVars => []ContextInv
<1>1. ContextInit => ContextInv
  <2> SUFFICES ASSUME ContextInit PROVE ContextInv
    OBVIOUS
  <2>1. IngestionTyped
    BY InitType DEF ContextInit
  <2>2. AllFinite
    BY FS_EmptySet DEF ContextInit, DocumentsInit, NoIngestion, AllFinite
  <2>3. LookupTold(lookup, docChunks)
    BY DEF ContextInit, NoLookup, LookupTold, LookupFields
  <2> QED
    BY <2>1, <2>2, <2>3 DEF ContextInv
<1>2. ContextInv /\ [ContextNext]_contextVars => ContextInv'
  <2> SUFFICES ASSUME ContextInv, [ContextNext]_contextVars PROVE ContextInv'
    OBVIOUS
  <2> USE DEF ContextInv
  <2>1. CASE [DocumentsNext]_documentVars /\ UNCHANGED lookup
    <3>1. AllFinite' /\ docChunks \subseteq docChunks'
      BY <2>1, FiniteStep
    <3>2. IngestionTyped'
      BY <2>1, NextType
    <3>3. LookupTold(lookup, docChunks')
      BY <3>1, MoreChunks
    <3> QED
      BY <2>1, <3>1, <3>2, <3>3
  <2>2. CASE LookupStep /\ UNCHANGED documentVars
    <3>1. AllFinite' /\ IngestionTyped' /\ docChunks' = docChunks
      BY <2>2, FiniteStep, NextType DEF documentVars
    <3>2. LookupTold(lookup', docChunks)
      BY <2>2, LookupKept
    <3> QED
      BY <3>1, <3>2
  <2> QED
    BY <2>1, <2>2 DEF ContextNext, contextVars
<1> QED
  BY <1>1, <1>2, PTL

\* The invariant is more than what is promised.
LEMMA ContextShown == ContextInv => DocumentsFound
BY DEF ContextInv, LookupTold, Excused, DocumentsFound
=============================================================================
