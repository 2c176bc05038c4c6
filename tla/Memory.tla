------------------------------- MODULE Memory -------------------------------
(***************************************************************************)
(* Agent memory of one domain: the memory tool (core/plugins/memory_tool)  *)
(* in worker threads and the dreamer (core/memory/dreamer) on the event    *)
(* loop, over the table memory_entries.                                    *)
(*                                                                         *)
(* Every text has size 1.  A summary stands for the texts it was made of.  *)
(***************************************************************************)
EXTENDS Naturals, FiniteSets, Sequences

CONSTANTS Texts,      \* what agents save
          Saved,      \* what was saved before: a sequence of texts
          MaxEntries, \* bound: rows ever inserted
          Named,      \* bound: rows that agents replace or remove
          Callers,    \* worker threads that run the memory tool
          Dreams,     \* requests of POST /memory/dream
          Limit,      \* memory_limit_chars
          ChunkSize   \* CHUNK_CHARS

ASSUME MemoryAssumption ==
  /\ ChunkSize \in Nat \ {0} /\ Limit \in Nat /\ MaxEntries \in Nat
  /\ Len(Saved) \in 0..MaxEntries /\ "nobody" \notin Dreams

VARIABLES entry,   \* memory_entries, in the order of created_at
          call,    \* per thread: the write it is about to make, if any
          dream,   \* per dream: the chunks to do and the themes not committed yet
          locked,  \* the dream that holds SQLite's write lock, if any
          raced,   \* history: entries replaced after a dream had read them
          touched  \* history: themes an agent replaced or removed

memoryVars == <<entry, call, dream, locked, raced, touched>>

EntryIds == 1..MaxEntries   \* in the order of created_at
NoEntry == [is |-> "none"]
Removed == [is |-> "removed"]
Row(texts, theme) == [is |-> "row", texts |-> texts, theme |-> theme, superseded_by |-> 0]
NoCall == [op |-> "none"]
NoDream == [chunks |-> <<>>, themes |-> <<>>]
Unlocked == "nobody"

Stored == {e \in EntryIds : entry[e].is = "row"}
Themes == {e \in Stored : entry[e].theme}
Live == {e \in Stored : entry[e].superseded_by = 0}
IsNext(e) == entry[e] = NoEntry /\ \A f \in 1..e-1 : entry[f] # NoEntry

MemoryInit ==
  /\ entry = [e \in EntryIds |-> IF e <= Len(Saved) THEN Row({Saved[e]}, FALSE) ELSE NoEntry]
  /\ call = [c \in Callers |-> NoCall]
  /\ dream = [d \in Dreams |-> NoDream]
  /\ locked = Unlocked
  /\ raced = {} /\ touched = {}
----------------------------------------------------------------------------
(* memory_tool: it decides on the rows it has read, and writes afterwards. *)

IsDuplicate(text) == \E e \in Live : entry[e].texts = {text} /\ ~entry[e].theme

\* old_text can match e alone.
MatchesOnce(e) == entry[e].theme \/ \A f \in Live \ {e} : entry[f] # entry[e]

Decides(c, write) ==
  /\ call[c] = NoCall
  /\ call' = [call EXCEPT ![c] = write]
  /\ UNCHANGED <<entry, dream, locked, raced, touched>>

DecideAdd(c, text) ==
  /\ ~IsDuplicate(text) /\ Cardinality(Live) + 1 <= Limit
  /\ Decides(c, [op |-> "add", text |-> text])

DecideRemove(c, e) ==
  /\ e \in Live /\ MatchesOnce(e)
  /\ Decides(c, [op |-> "remove", id |-> e])

DecideReplace(c, e, text) ==
  /\ e \in Live /\ MatchesOnce(e)
  /\ ~IsDuplicate(text) /\ Cardinality(Live) <= Limit
  /\ Decides(c, [op |-> "replace", id |-> e, text |-> text])

Written(c) == call' = [call EXCEPT ![c] = NoCall] /\ UNCHANGED <<dream, locked>>

\* add_memory
InsertEntry(c) ==
  /\ call[c].op = "add" /\ locked = Unlocked
  /\ \E e \in EntryIds : IsNext(e) /\ entry' = [entry EXCEPT ![e] = Row({call[c].text}, FALSE)]
  /\ UNCHANGED <<raced, touched>>
  /\ Written(c)

DeleteEntry(c) ==
  /\ call[c].op = "remove" /\ locked = Unlocked
  /\ LET e == call[c].id IN
     /\ entry' = [entry EXCEPT ![e] = Removed]
     /\ touched' = touched \union ({e} \intersect Themes)
  /\ UNCHANGED raced
  /\ Written(c)

\* Entries a dream has read and not committed.
ReadBy(d) == (UNION {dream[d].chunks[i].ids : i \in DOMAIN dream[d].chunks})
               \union (UNION {dream[d].themes[i].ids : i \in DOMAIN dream[d].themes})

\* UPDATE ... WHERE id, whatever has become of the row since it was read.
UpdateEntry(c) ==
  /\ call[c].op = "replace" /\ locked = Unlocked
  /\ LET e == call[c].id IN
     /\ entry' = IF e \in Stored THEN [entry EXCEPT ![e].texts = {call[c].text}, ![e].theme = FALSE] ELSE entry
     /\ touched' = touched \union ({e} \intersect Themes)
     /\ raced' = IF e \in Stored \ Live \/ \E d \in Dreams : e \in ReadBy(d) THEN raced \union {e} ELSE raced
  /\ Written(c)

\* "database is locked": a dream kept the write lock longer than the busy timeout.
WriteFails(c) ==
  /\ call[c] # NoCall /\ locked # Unlocked
  /\ UNCHANGED <<entry, raced, touched>>
  /\ Written(c)
----------------------------------------------------------------------------
(* run_memory_consolidation, on the event loop. *)

\* _chunks
Chunks(ids) ==
  LET rank(e) == Cardinality({f \in ids : f < e})
      count == (Cardinality(ids) + ChunkSize - 1) \div ChunkSize
  IN [i \in 1..count |-> {e \in ids : rank(e) \div ChunkSize = i - 1}]

\* What is to be summarised: chunks of at least two plain entries (only the last may be
\* shorter than the others), as they read now.
Readings ==
  LET chunks == Chunks({e \in Live : ~entry[e].theme})
      count == Cardinality({i \in DOMAIN chunks : Cardinality(chunks[i]) >= 2})
  IN [i \in 1..count |-> [ids |-> chunks[i], texts |-> UNION {entry[e].texts : e \in chunks[i]}]]

DreamReads(d) ==
  /\ dream[d] = NoDream /\ Readings # <<>>
  /\ dream' = [dream EXCEPT ![d].chunks = Readings]
  /\ UNCHANGED <<entry, call, locked, raced, touched>>

\* Mutant of Superseding: everything in the domain that is no theme is superseded.
SupersedingAll(themes, e) == IF entry[e].theme THEN {} ELSE DOMAIN themes

\* The themes of a dream made from the entry e.
Superseding(themes, e) == {i \in DOMAIN themes : e \in themes[i].ids}

\* INSERT of each theme, UPDATE of what it was made of; the rest is as it was.
Committed(themes) ==
  LET next == CHOOSE e \in 1..MaxEntries + 1 : \A f \in EntryIds : f < e <=> entry[f] # NoEntry
      Id(i) == next + i - 1
  IN [e \in EntryIds |->
        IF e \in {Id(i) : i \in DOMAIN themes} THEN Row(themes[e - next + 1].texts, TRUE)
        ELSE IF e \in Stored /\ Superseding(themes, e) # {}
             THEN [entry[e] EXCEPT !.superseded_by = Id(CHOOSE i \in Superseding(themes, e) : TRUE)]
             ELSE entry[e]]

\* The dream goes on with these chunks and themes; after the last chunk it commits.
Continues(d, chunks, themes) ==
  IF chunks # <<>>
  THEN /\ dream' = [dream EXCEPT ![d] = [chunks |-> chunks, themes |-> themes]]
       /\ locked' = IF themes # <<>> THEN d ELSE locked
       /\ UNCHANGED entry
  ELSE /\ dream' = [dream EXCEPT ![d] = NoDream]
       /\ locked' = IF locked = d THEN Unlocked ELSE locked
       /\ entry' = Committed(themes)

\* A summary arrives; from the first INSERT on the dream holds the write lock, across the waits
\* for the next ones.
Summarise(d) ==
  /\ dream[d] # NoDream /\ locked \in {Unlocked, d}
  /\ Cardinality({e \in EntryIds : entry[e] = NoEntry}) > Len(dream[d].themes)   \* bound
  /\ Continues(d, Tail(dream[d].chunks), Append(dream[d].themes, Head(dream[d].chunks)))
  /\ UNCHANGED <<call, raced, touched>>

\* An empty answer.
SummariseNothing(d) ==
  /\ dream[d] # NoDream
  /\ Continues(d, Tail(dream[d].chunks), dream[d].themes)
  /\ UNCHANGED <<call, raced, touched>>

\* The completion fails, or the lock is another dream's: what was not committed is rolled back.
DreamFails(d) ==
  /\ dream[d] # NoDream
  /\ dream' = [dream EXCEPT ![d] = NoDream]
  /\ locked' = IF locked = d THEN Unlocked ELSE locked
  /\ UNCHANGED <<entry, call, raced, touched>>

MemoryNext ==
  \/ \E c \in Callers :
       \/ \E text \in Texts : DecideAdd(c, text) \/ \E e \in Named : DecideReplace(c, e, text)
       \/ \E e \in Named : DecideRemove(c, e)
       \/ InsertEntry(c) \/ DeleteEntry(c) \/ UpdateEntry(c) \/ WriteFails(c)
  \/ \E d \in Dreams : DreamReads(d) \/ Summarise(d) \/ SummariseNothing(d) \/ DreamFails(d)

MemorySpec == MemoryInit /\ [][MemoryNext]_memoryVars
----------------------------------------------------------------------------
\* What a dream hides is not forgotten: the summary that replaces an entry is there, live and made
\* from what the entry says (dreamer.py: a bad summary can be reverted) - with two dreams at once,
\* dreams that fail half way and memory calls between any two steps.  Except that a replacement of
\* an entry that a dream has read is hidden under a summary of the old text, and that an agent may
\* remove or replace the summary itself.
NothingForgotten ==
  \A e \in Stored \ (Live \union raced) :
    LET theme == entry[e].superseded_by IN
    theme \in touched \/ (theme \in Live /\ entry[theme].theme /\ entry[e].texts \subseteq entry[theme].texts)
=============================================================================
