---------------------------- MODULE KnowledgeBase ----------------------------
(* The knowledge base that answers are grounded in: a SQLite table of chunks *)
(* with a full-text index kept by triggers (kb_ingest.py), searched by the   *)
(* web app and by agents (kb_search.py, plugin_kb.py).                       *)
(*                                                                           *)
(* An ingest is a process: it takes its sources one by one, deletes the      *)
(* source's chunks and commits, reads the document or fetches the pages, and *)
(* saves the new chunks in one transaction.  Several ingests may run at      *)
(* once, each may die anywhere, documents change under them, and searches    *)
(* read what is committed at any moment.  SQLite (one writer, WAL readers,   *)
(* rowids, triggers) is modelled as the scripts use it.                      *)
EXTENDS Integers, FiniteSets, Sequences, FiniteSetsExt, Functions

CONSTANTS
  Jobs,        \* ingest processes
  SourcesOf,   \* the sources main() selects for a process, in order
  Web,         \* the sources that are crawled; the others are files
  Versions,    \* what the author of a source may publish
  ChunksOf,    \* version -> the search term of each of its chunks, in order
  MaxPages,    \* max_pages of a crawl; page k carries chunk k of the version
  TopK,        \* top_k: chunks a search returns at most
  MaxRuns,     \* bound: runs of one process
  MaxEdits     \* bound: changes of documents

VARIABLES
  rows,    \* kb_chunks, committed: [row, source, index, term]
  fts,     \* kb_fts, committed: [row, term]
  writer,  \* the process holding the write lock, or NoJob
  tx,      \* its transaction's view of the two tables
  job,     \* what each process is doing
  origin,  \* the document or site of each source
  edits    \* changes so far

vars == <<rows, fts, writer, tx, job, origin, edits>>

NoJob   == "none"
Sources == UNION {Range(SourcesOf[j]) : j \in Jobs}
Origins == Versions \cup {"missing", "broken"}
Terms   == UNION {Range(ChunksOf[v]) : v \in Versions}

ASSUME KnowledgeAssumption ==
  /\ NoJob \notin Jobs
  /\ \A j \in Jobs : SourcesOf[j] \in Seq(Sources)
  /\ \A v \in Versions : ChunksOf[v] \in Seq(Terms)

NoTx    == [rows |-> {}, fts |-> {}]
Idle(runs) == [pc |-> "idle", queue |-> <<>>, todo |-> <<>>, count |-> 0, page |-> 0, runs |-> runs]

(* The tables as process j sees them.                                        *)
View(j) == IF writer = j THEN tx ELSE [rows |-> rows, fts |-> fts]

Source(j) == Head(job[j].queue)

-----------------------------------------------------------------------------
(* The tables *)

(* A plausible error: the chunks go and their index entries stay.            *)
DeleteRowsOnly(view, gone) == [view EXCEPT !.rows = @ \ gone]

(* DELETE fires the trigger kb_ad for every row it removes.                  *)
Delete(view, gone) ==
  [rows |-> view.rows \ gone,
   fts  |-> view.fts \ {[row |-> r.row, term |-> r.term] : r \in gone}]

ClearSource(view, s) == Delete(view, {r \in view.rows : r.source = s})

NextRow(view) == 1 + Max({r.row : r \in view.rows} \cup {0})

(* INSERT OR REPLACE: the rows it replaces go without firing kb_ad, which    *)
(* would take the pragma recursive_triggers; kb_ai indexes the new row.      *)
SaveChunk(view, s, index, term) ==
  LET new == NextRow(view) IN
  [rows |-> {r \in view.rows : r.source /= s \/ r.index /= index}
              \cup {[row |-> new, source |-> s, index |-> index, term |-> term]},
   fts  |-> view.fts \cup {[row |-> new, term |-> term]}]

(* The rows whose rowid the index lists for the term.                        *)
Matching(term) == {r \in rows : [row |-> r.row, term |-> term] \in fts}

(* What a search may return of a set of rows: top_k of them, by a rank that  *)
(* the model leaves open.                                                    *)
Ranked(found) ==
  {best \in SUBSET found :
     Cardinality(best) = IF Cardinality(found) < TopK THEN Cardinality(found) ELSE TopK}

(* search, for a term; the question's first long word is searched for as one *)
(* term, or nothing is returned, if SQLite refuses the query made from it.   *)
Search(term) == Ranked(Matching(term))

-----------------------------------------------------------------------------
(* An ingest process *)

MovesTo(j, pc) == job' = [job EXCEPT ![j].pc = pc]

Starts(j) ==
  /\ job[j].pc = "idle" /\ job[j].runs < MaxRuns
  /\ job' = [job EXCEPT ![j] = [Idle(job[j].runs + 1) EXCEPT !.pc = "choosing", !.queue = SourcesOf[j]]]
  /\ UNCHANGED <<rows, fts, writer, tx, origin, edits>>

(* A file that is not there is left alone, with the chunks it once had.      *)
TakesSource(j) ==
  /\ job[j].pc = "choosing"
  /\ IF job[j].queue = <<>> THEN job' = [job EXCEPT ![j] = Idle(job[j].runs)]
     ELSE IF Source(j) \notin Web /\ origin[Source(j)] = "missing"
            THEN job' = [job EXCEPT ![j].queue = Tail(job[j].queue)]
            ELSE MovesTo(j, "clearing")
  /\ UNCHANGED <<rows, fts, writer, tx, origin, edits>>

(* clear_source commits before anything is read.                             *)
Clears(j) ==
  /\ job[j].pc = "clearing" /\ writer = NoJob
  /\ LET view == ClearSource(View(j), Source(j)) IN rows' = view.rows /\ fts' = view.fts
  /\ job' = [job EXCEPT ![j].pc = "reading", ![j].count = 0, ![j].page = 1]
  /\ UNCHANGED <<writer, tx, origin, edits>>

(* A document is read as a whole; one that cannot be read ends the process.  *)
ReadsFile(j) ==
  /\ job[j].pc = "reading" /\ Source(j) \notin Web
  /\ origin[Source(j)] \in Versions
  /\ job' = [job EXCEPT ![j].pc = "saving", ![j].todo = ChunksOf[origin[Source(j)]]]
  /\ UNCHANGED <<rows, fts, writer, tx, origin, edits>>

(* A crawl fetches page by page and skips the pages it cannot fetch.         *)
FetchesPage(j) ==
  /\ job[j].pc = "reading" /\ Source(j) \in Web
  /\ LET site == origin[Source(j)]
         text == IF site \in Versions /\ job[j].page \in DOMAIN ChunksOf[site]
                   THEN {<<ChunksOf[site][job[j].page]>>} ELSE {}
     IN \E todo \in text \cup {<<>>} :
          job' = [job EXCEPT ![j].pc = "saving", ![j].todo = todo, ![j].page = job[j].page + 1]
  /\ UNCHANGED <<rows, fts, writer, tx, origin, edits>>

(* A plausible error: every chunk is committed as it is saved.               *)
SavesAndCommits(j) ==
  /\ job[j].pc = "saving" /\ job[j].todo /= <<>> /\ writer \in {NoJob, j}
  /\ LET view == SaveChunk(View(j), Source(j), job[j].count, Head(job[j].todo))
     IN rows' = view.rows /\ fts' = view.fts
  /\ job' = [job EXCEPT ![j].todo = Tail(job[j].todo), ![j].count = job[j].count + 1]
  /\ UNCHANGED <<writer, tx, origin, edits>>

(* The first save of a source takes the write lock, until the commit.        *)
Saves(j) ==
  /\ job[j].pc = "saving" /\ job[j].todo /= <<>> /\ writer \in {NoJob, j}
  /\ writer' = j
  /\ tx' = SaveChunk(View(j), Source(j), job[j].count, Head(job[j].todo))
  /\ job' = [job EXCEPT ![j].todo = Tail(job[j].todo), ![j].count = job[j].count + 1]
  /\ UNCHANGED <<rows, fts, origin, edits>>

(* Everything read so far is saved: fetch the next page, or commit.          *)
HasSaved(j) ==
  /\ job[j].pc = "saving" /\ job[j].todo = <<>>
  /\ IF Source(j) \in Web /\ job[j].page <= MaxPages
       THEN MovesTo(j, "reading") /\ UNCHANGED <<rows, fts, writer, tx>>
       ELSE /\ rows' = View(j).rows /\ fts' = View(j).fts
            /\ writer' = IF writer = j THEN NoJob ELSE writer
            /\ tx' = IF writer = j THEN NoTx ELSE tx
            /\ job' = [job EXCEPT ![j].pc = "choosing", ![j].queue = Tail(job[j].queue)]
  /\ UNCHANGED <<origin, edits>>

(* The process ends early: killed, "database is locked" after five seconds,  *)
(* or an exception of a document that cannot be read; SQLite rolls back.     *)
Dies(j) ==
  /\ job[j].pc /= "idle"
  /\ job' = [job EXCEPT ![j] = Idle(job[j].runs)]
  /\ writer' = IF writer = j THEN NoJob ELSE writer
  /\ tx' = IF writer = j THEN NoTx ELSE tx
  /\ UNCHANGED <<rows, fts, origin, edits>>

(* Somebody replaces, removes or damages a document.                         *)
Edited(s) ==
  /\ edits < MaxEdits /\ edits' = edits + 1
  /\ \E to \in Origins \ {origin[s]} : origin' = [origin EXCEPT ![s] = to]
  /\ UNCHANGED <<rows, fts, writer, tx, job>>

-----------------------------------------------------------------------------
Init ==
  /\ rows = {} /\ fts = {}
  /\ writer = NoJob /\ tx = NoTx
  /\ job = [j \in Jobs |-> Idle(0)]
  /\ origin \in [Sources -> Versions]
  /\ edits = 0

Step(j) ==
  \/ Starts(j) \/ TakesSource(j) \/ Clears(j) \/ ReadsFile(j) \/ FetchesPage(j)
  \/ Saves(j) \/ HasSaved(j) \/ Dies(j)

Next == (\E j \in Jobs : Step(j)) \/ (\E s \in Sources : Edited(s))

Spec == Init /\ [][Next]_vars

-----------------------------------------------------------------------------
(* Properties *)

ChunksIn(table, s) == {<<r.index, r.term>> : r \in {q \in table : q.source = s}}
FirstChunks(v, n)  == {<<i - 1, ChunksOf[v][i]>> : i \in 1..n}

(* Nothing keeps two ingests from one source; the tables are exact when no   *)
(* source is ingested twice at a time.                                       *)
OneIngestPerSource ==
  \A i, j \in Jobs : i /= j => Range(SourcesOf[i]) \cap Range(SourcesOf[j]) = {}

Chunk(term) == [row : Nat, source : Sources, index : Nat, term : {term}]

(* Every variable keeps to its set of values; only the lock's holder has a   *)
(* transaction, and it is saving or fetching.                                *)
TypeOK ==
  /\ \A r \in rows \cup tx.rows : r \in Chunk(r.term) /\ r.term \in Terms
  /\ \A e \in fts \cup tx.fts : e \in [row : Nat, term : Terms]
  /\ writer \in Jobs \cup {NoJob}
  /\ writer = NoJob => tx = NoTx
  /\ writer /= NoJob => job[writer].pc \in {"reading", "saving"}
  /\ origin \in [Sources -> Origins]

(* A search finds exactly the chunks that hold its term, or top_k of them,   *)
(* whatever was ingested again, given up or replaced in between: no chunk is *)
(* missed and no index entry of an old chunk leads to another one (triggers  *)
(* kb_ai and kb_ad, clear_source, save_chunk).  It needs ingests of          *)
(* different sources.                                                        *)
SearchIsExact == TypeOK /\ \A t \in Terms : Search(t) = Ranked({r \in rows : r.term = t})

(* What is searchable of a document is one published version of it as a      *)
(* whole, or nothing: never a part, and never parts of two versions, also    *)
(* while it is ingested again and after an ingest died (the commit at the    *)
(* end of ingest_pdf and ingest_xlsx).                                       *)
DocumentsAreWhole ==
  \A s \in Sources \ Web :
    \/ ChunksIn(rows, s) = {}
    \/ \E v \in Versions : ChunksIn(rows, s) = FirstChunks(v, Len(ChunksOf[v]))
=============================================================================
