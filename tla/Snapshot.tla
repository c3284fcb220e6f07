------------------------------ MODULE Snapshot ------------------------------
(***************************************************************************)
(* The snapshot client (src/vm/snapshot_client.ts): it fetches a document  *)
(* that lists the chunks of a state with their hashes, checks it against a *)
(* block header, and fetches the chunks one by one with retries, from an   *)
(* index it may be resumed at.  After each chunk the caller's onProgress   *)
(* saves the index reached by src/vm/snapshot_progress.ts, in transactions *)
(* nobody waits for, which commit in their order or fail.  The server may  *)
(* publish a later state at any time: ids of chunks stay, their bytes      *)
(* change and chunks come or go.  A chunk is one entry, a key and a value; *)
(* its hash is the entry.                                                  *)
(***************************************************************************)
EXTENDS Integers, Sequences, SequencesExt

CONSTANTS
  SnState,      \* what the server publishes: a sequence of states, each a sequence of entries
  SnKnown,      \* bound: ids of chunks a caller of the delta download may know
  SnRetries,
  SnMaxSaves    \* bound: saves of the progress under way

VARIABLES
  snServed,     \* the state the server serves
  snHeader,     \* the state the client's block header commits to
  snProgress,   \* the progress store: chunks done under the URL of the snapshot
  snSaving,     \* the indices whose saves are under way
  snCall        \* the call in flight, and its result

snVars == <<snServed, snHeader, snProgress, snSaving, snCall>>

SnVersions == DOMAIN SnState
SnEntries == UNION {ToSet(SnState[v]) : v \in SnVersions}

ASSUME SnAssumption ==
  /\ SnState # <<>> /\ SnState \in Seq(Seq(SnEntries))
  /\ \A e \in SnEntries : e.key \in Int
  /\ SnRetries \in Nat /\ SnMaxSaves \in Nat
SnModes == {"verify", "verifyResumable", "download", "delta"}
Corrupt == [key |-> 0, value |-> "corrupt"]
NoDownload == [step |-> "none"]

SnInit ==
  /\ snServed = 1
  /\ snHeader \in SnVersions
  /\ snProgress = 0
  /\ snSaving = <<>>
  /\ snCall = NoDownload

Publish ==
  /\ snServed + 1 \in SnVersions
  /\ snServed' = snServed + 1
  /\ UNCHANGED <<snHeader, snProgress, snSaving, snCall>>

\* verifySnapshotAgainstHeader: equal heights and roots, which a state determines.
MatchesHeader(version, header) == version = header

\* A call on a document.  Only the resumable modes start at an index, only delta skips the ids
\* it knows, and only the downloads may be asked not to verify.
Begun(doc, mode, start, known, verify) ==
  [step |-> "fetching", mode |-> mode, doc |-> doc,
   start |-> IF mode \in {"verifyResumable", "download"} THEN start ELSE 0,
   known |-> IF mode = "delta" THEN known ELSE {},
   verify |-> verify \/ mode \in {"verify", "verifyResumable"},
   index |-> (IF mode \in {"verifyResumable", "download"} THEN start ELSE 0) + 1,
   attempt |-> 0, entries |-> <<>>, given |-> <<>>, refused |-> FALSE]

\* fetchStateSnapshot, a document the header vouches for, and a call on it.
FetchStateSnapshot(mode, start, known, verify) ==
  /\ snCall.step \in {"none", "done", "failed"}
  /\ MatchesHeader(snServed, snHeader)
  /\ snCall' = Begun(SnState[snServed], mode, start, known, verify)
  /\ UNCHANGED <<snServed, snHeader, snProgress, snSaving>>

Fetching == snCall.step = "fetching"
Index == snCall.index
Chunks == Len(snCall.doc)

\* What a call must bring of the first n chunks of a state: those from its start that it does
\* not know.
Wanted(start, known, state) ==
  LET wanted[n \in 0 .. Len(state)] ==
        IF n = 0 THEN <<>>
        ELSE IF n > start /\ n \notin known THEN Append(wanted[n - 1], state[n])
        ELSE wanted[n - 1]
  IN  wanted

\* What arrives: the chunk the server serves now, if it still has it, or other bytes.
Arrives == {SnState[snServed][i] : i \in {Index} \cap DOMAIN SnState[snServed]} \cup {Corrupt}

\* Bug for the mutant: the hash is compared at the first attempt only.
AcceptedRetried(bytes) == ~snCall.verify \/ snCall.attempt > 0 \/ bytes = snCall.doc[Index]

\* The hash of the bytes is compared unless the caller asked not to.
Accepted(bytes) == ~snCall.verify \/ bytes = snCall.doc[Index]

\* The downloads parse a chunk and keep its entries; bytes that are no entries throw.
Decodes(bytes) == bytes # Corrupt
Keeps == snCall.mode \in {"download", "delta"}

\* A chunk that delta knows is skipped.
SkipKnown ==
  /\ Fetching
  /\ Index <= Chunks
  /\ Index \in snCall.known
  /\ snCall' = [snCall EXCEPT !.index = @ + 1]
  /\ UNCHANGED <<snServed, snHeader, snProgress, snSaving>>

\* The call once a chunk was accepted and onChunkEntries ran on its entries.
Passing(bytes) ==
  [snCall EXCEPT !.index = @ + 1, !.attempt = 0,
                 !.entries = IF Keeps THEN Append(@, bytes) ELSE @,
                 !.given = IF Keeps THEN Append(@, bytes) ELSE @]

\* A chunk is fetched and accepted; behind the retried block onProgress begins to save the index.
FetchChunk ==
  /\ Fetching
  /\ Index <= Chunks
  /\ Index \notin snCall.known
  /\ \E bytes \in Arrives :
       /\ Accepted(bytes)
       /\ Keeps => Decodes(bytes)
       /\ snCall' = Passing(bytes)
  /\ IF snCall.mode = "delta" THEN UNCHANGED snSaving
     ELSE Len(snSaving) < SnMaxSaves /\ snSaving' = Append(snSaving, Index)
  /\ UNCHANGED <<snServed, snHeader, snProgress>>

\* onProgress throws, outside of the retried block: the call rejects.
ProgressThrows ==
  /\ Fetching
  /\ Index <= Chunks
  /\ Index \notin snCall.known
  /\ snCall.mode # "delta"
  /\ \E bytes \in Arrives :
       /\ Accepted(bytes)
       /\ Keeps => Decodes(bytes)
       /\ snCall' = [Passing(bytes) EXCEPT !.step = "failed"]
  /\ UNCHANGED <<snServed, snHeader, snProgress, snSaving>>

\* The oldest save under way commits, or its transaction fails.
SaveProgress(commits) ==
  /\ snSaving # <<>>
  /\ snProgress' = IF commits THEN Head(snSaving) ELSE snProgress
  /\ snSaving' = Tail(snSaving)
  /\ UNCHANGED <<snServed, snHeader, snCall>>

\* verifySnapshotChunks never retries.
Retries(mode) == IF mode = "verify" THEN 0 ELSE SnRetries

\* An attempt fails after the retries, or is tried again.
Failed(call) ==
  IF call.attempt + 1 > Retries(call.mode)
  THEN [call EXCEPT !.step = "failed"]
  ELSE [call EXCEPT !.attempt = @ + 1]

\* The request fails, the hash differs, or the bytes cannot be decoded.
FetchFails ==
  /\ Fetching
  /\ Index <= Chunks
  /\ Index \notin snCall.known
  /\ snCall' = Failed(snCall)
  /\ UNCHANGED <<snServed, snHeader, snProgress, snSaving>>

\* onChunkEntries throws inside the retried block: its chunk is kept already, and comes again.
CallbackThrows ==
  /\ Fetching
  /\ Index <= Chunks
  /\ Index \notin snCall.known
  /\ Keeps
  /\ \E bytes \in Arrives :
       /\ Accepted(bytes) /\ Decodes(bytes)
       /\ snCall' = Failed([snCall EXCEPT !.entries = Append(@, bytes), !.refused = TRUE])
  /\ UNCHANGED <<snServed, snHeader, snProgress, snSaving>>

\* An entry put among sorted ones, behind those of its key.
EntryPlace(sorted, e) ==
  CHOOSE i \in 0 .. Len(sorted) : \A j \in DOMAIN sorted : j <= i <=> sorted[j].key <= e.key
Inserted(sorted, e) == InsertAt(sorted, EntryPlace(sorted, e) + 1, e)

InKeyOrder(entries) ==
  LET sorted[n \in 0 .. Len(entries)] == IF n = 0 THEN <<>> ELSE Inserted(sorted[n - 1], entries[n])
  IN  sorted[Len(entries)]

\* The entries are sorted by key before they are returned.
Finish ==
  /\ Fetching
  /\ Index > Chunks
  /\ snCall' = [snCall EXCEPT !.step = "done", !.entries = InKeyOrder(@)]
  /\ UNCHANGED <<snServed, snHeader, snProgress, snSaving>>

\* The page closes, and opens again with the progress that was stored.
SnReload ==
  /\ snCall' = NoDownload
  /\ snSaving' = <<>>
  /\ UNCHANGED <<snServed, snHeader, snProgress>>

\* Where a call starts: at the first chunk, or where the progress says, which is read behind the
\* saves under way.
Starts == {0} \cup (IF snSaving = <<>> THEN {snProgress} ELSE {})

SnNext ==
  \/ Publish \/ SkipKnown \/ FetchChunk \/ FetchFails \/ CallbackThrows \/ ProgressThrows
  \/ Finish \/ SnReload
  \/ \E commits \in BOOLEAN : SaveProgress(commits)
  \/ \E m \in SnModes, s \in Starts, k \in SUBSET SnKnown, v \in BOOLEAN :
       FetchStateSnapshot(m, s, k, v)

SnSpec == SnInit /\ [][SnNext]_snVars

-----------------------------------------------------------------------------
\* A call goes from its start, which may lie behind a shorter document, to the end of the document.
SnTypeOK ==
  /\ snServed \in SnVersions /\ snHeader \in SnVersions
  /\ snProgress \in Nat /\ snSaving \in Seq(Nat)
  /\ snCall # NoDownload =>
       /\ snCall.step \in {"fetching", "done", "failed"}
       /\ snCall.index = snCall.start + 1 \/ snCall.index \in snCall.start + 1 .. Chunks + 1
       /\ snCall.attempt \in 0 .. SnRetries
       /\ snCall.entries \in Seq(SnEntries) /\ snCall.given \in Seq(SnEntries)

\* A verified call that ends well brought each entry it was asked for once, with the value of the
\* state its block header commits to, although the server moved on, requests failed and were
\* retried and the call was resumed from a progress saved late or not at all: onChunkEntries got
\* them in the order of the chunks, and entries lists them by key, with repetitions only if
\* onChunkEntries threw (downloadStateSnapshot, downloadStateSnapshotDelta).
BringsTheState ==
  snCall # NoDownload /\ snCall.step = "done" /\ snCall.mode \in {"download", "delta"} /\ snCall.verify =>
    LET wanted == Wanted(snCall.start, snCall.known, SnState[snHeader])[Len(SnState[snHeader])]
    IN  /\ snCall.given = wanted
        /\ ToSet(snCall.entries) = ToSet(wanted)
        /\ \A i, j \in DOMAIN snCall.entries :
             i < j => snCall.entries[i].key <= snCall.entries[j].key
        /\ ~snCall.refused => Len(snCall.entries) = Len(wanted)
=============================================================================
