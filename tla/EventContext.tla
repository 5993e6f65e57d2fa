---------------------------- MODULE EventContext -----------------------------
(***************************************************************************)
(* get_event_context of context/assembler.py and the HybridRetriever of    *)
(* rag/retrieval.py: what the RCA agent is told of an event's asset.       *)
(*                                                                         *)
(* The titles of work orders, the signals and, if need be, the fallback    *)
(* for documents are read on one connection, each under an except of its   *)
(* own; the two searches of the retriever each open another one.  Scores   *)
(* are data: any order of what the searches found may be theirs.           *)
(***************************************************************************)
EXTENDS Documents, SequencesExt

CONSTANTS TokenChars,   \* characters taken for a token (6)
          TokenBudget,  \* tokens the retriever may return
          SearchLimit,  \* rows a search keeps (10)
          RecentLimit,  \* rows the fallback reads (25, of all assets 50)
          FallbackKept, \* rows the fallback keeps (3)
          MaxMishaps    \* bound: queries that fail, connections lost

ASSUME EventContextAssumption ==
  /\ {TokenChars, SearchLimit, RecentLimit, FallbackKept} \subseteq Nat \ {0}
  /\ {TokenBudget, MaxMishaps} \subseteq Nat

VARIABLES lookup, \* one call of get_event_context
          mishaps \* queries failed and connections lost so far

contextVars == <<documentVars, lookup, mishaps>>

\* known: chunks of the asset were stored when the call began; faults: what
\* failed of the search and the fallback.
NoLookup == [pc |-> "idle", asset |-> Nil, fleet |-> FALSE, conn |-> "none",
             vector |-> {}, chunks |-> {}, scope |-> "local", faults |-> {},
             known |-> FALSE]

ContextInit ==
  /\ DocumentsInit
  /\ lookup = NoLookup
  /\ mishaps = 0

Mishap == mishaps < MaxMishaps /\ mishaps' = mishaps + 1

-----------------------------------------------------------------------------
\* The rows a query for documents looks at.
Eligible ==
  IF lookup.asset # Nil /\ ~lookup.fleet
  THEN {c \in docChunks : c.asset = lookup.asset} ELSE docChunks

\* The LIMIT best of rows.
Best(rows, limit) ==
  {s \in SUBSET rows : Cardinality(s) = Least(limit, Cardinality(rows))}

Tokens(c) ==
  LET whole == (c.to - c.from) \div TokenChars IN IF whole < 1 THEN 1 ELSE whole

\* The tokens of the first n.
Spent(ranked, n) == MapThenSumSet(LAMBDA i : Tokens(ranked[i]), 1 .. n)

\* _apply_token_budget: up to the first chunk that does not fit.
WithinBudget(ranked) ==
  LET last == CHOOSE n \in 0 .. Len(ranked) :
                /\ Spent(ranked, n) <= TokenBudget
                /\ n < Len(ranked) => Spent(ranked, n + 1) > TokenBudget
  IN  {ranked[i] : i \in 1 .. last}

\* source_scope and context_scope.
Foreign(chunks) == {c \in chunks : lookup.asset # Nil /\ c.asset # lookup.asset}
ScopeOf(chunks) == IF Foreign(chunks) = {} THEN "local" ELSE "local+fleet"

\* Mutant: nothing rolls the transaction of a failed query back.
RolledBack_Never(conn) == conn

\* with conn: ends the transaction, an aborted one by a rollback.
RolledBack(conn) == IF conn = "aborted" THEN "open" ELSE conn

-----------------------------------------------------------------------------
\* fleet is rca_fleet_wide_context.
GetEventContext ==
  /\ lookup.pc = "idle"
  /\ \E asset \in DocAsset \cup {Nil}, fleet \in BOOLEAN :
       lookup' = [NoLookup EXCEPT !.pc = "titles", !.asset = asset, !.fleet = fleet,
                    !.conn = "open", !.known = \E c \in docChunks : c.asset = asset]
  /\ UNCHANGED mishaps

\* Three tries to connect fail: every section stays empty.
CannotConnect ==
  /\ Mishap
  /\ lookup.pc = "idle"
  /\ lookup' = [NoLookup EXCEPT !.pc = "done"]

\* _fetch_last_wo_titles, then _fetch_signal_context: neither depends on the
\* other, and what they return is data.
ReadSection(pc, next) ==
  /\ lookup.pc = pc
  /\ lookup' = [lookup EXCEPT !.pc = next]
  /\ UNCHANGED mishaps

SectionFails(pc, next) ==
  /\ Mishap
  /\ lookup.pc = pc
  /\ lookup' = [lookup EXCEPT !.pc = next,
                  !.conn = RolledBack(IF @ = "open" THEN "aborted" ELSE @)]

FetchLastWoTitles == ReadSection("titles", "signals") \/ SectionFails("titles", "signals")
FetchSignalContext == ReadSection("signals", "vector") \/ SectionFails("signals", "vector")

\* Without a key, an answer or a connection the search finds nothing.
VectorSearch ==
  /\ lookup.pc = "vector"
  /\ \E hits \in Best(Eligible, SearchLimit) \cup {{}} :
       lookup' = [lookup EXCEPT !.pc = "bm25", !.vector = hits]
  /\ UNCHANGED mishaps

Finish(chunks) ==
  lookup' = [lookup EXCEPT !.pc = "done", !.vector = {}, !.chunks = chunks,
               !.scope = ScopeOf(chunks)]

\* _bm25_search, _combine_scores, the ranking and the budget.
Bm25Search ==
  /\ lookup.pc = "bm25"
  /\ \E hits \in Best(Eligible, SearchLimit) :
       \E ranked \in SetToSeqs(lookup.vector \cup hits) : Finish(WithinBudget(ranked))
  /\ UNCHANGED mishaps

\* The retriever raises: what the vector search found is gone as well.
Bm25Fails ==
  /\ Mishap
  /\ lookup.pc = "bm25"
  /\ lookup' = [lookup EXCEPT !.pc = "fallback", !.vector = {},
                  !.faults = @ \cup {"bm25"}]

\* The newest rows: those of a later command come first.
Recent ==
  {s \in Best(Eligible, RecentLimit) :
     \A c \in s, d \in Eligible \ s : c.run >= d.run}

FetchFallbackDocChunks ==
  /\ lookup.pc = "fallback" /\ lookup.conn = "open"
  /\ \E rows \in Recent : \E kept \in Best(rows, FallbackKept) : Finish(kept)
  /\ UNCHANGED mishaps

FallbackRefused ==
  /\ lookup.pc = "fallback" /\ lookup.conn # "open"
  /\ Finish({})
  /\ UNCHANGED mishaps

FallbackFails ==
  /\ Mishap
  /\ lookup.pc = "fallback"
  /\ lookup' = [lookup EXCEPT !.pc = "done", !.faults = @ \cup {"fallback"}]

ConnectionEnds ==
  /\ Mishap
  /\ lookup.conn = "open" /\ lookup.pc # "done"
  /\ lookup' = [lookup EXCEPT !.conn = "lost"]

LookupStep ==
  \/ GetEventContext \/ CannotConnect
  \/ FetchLastWoTitles \/ FetchSignalContext
  \/ VectorSearch \/ Bm25Search \/ Bm25Fails
  \/ FetchFallbackDocChunks \/ FallbackRefused \/ FallbackFails
  \/ ConnectionEnds

ContextNext ==
  \/ DocumentsNext /\ UNCHANGED <<lookup, mishaps>>
  \/ LookupStep /\ UNCHANGED documentVars

-----------------------------------------------------------------------------
(* Property.                                                               *)

\* When chunks of the asset are stored before the call, the call finds some
\* document: it finds none only when nothing could be read on the connection,
\* when the search and the fallback both failed, or when a chunk longer than
\* the whole budget may have ranked first.  In particular a failed query of
\* another section never costs the documents (get_event_context).
DocumentsFound ==
  lookup.pc = "done" /\ lookup.known /\ lookup.chunks = {} =>
    \/ "bm25" \in lookup.faults /\ ("fallback" \in lookup.faults \/ lookup.conn = "lost")
    \/ \E c \in docChunks : Tokens(c) > TokenBudget
=============================================================================
