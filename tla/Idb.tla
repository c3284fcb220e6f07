-------------------------------- MODULE Idb --------------------------------
(***************************************************************************)
(* src/idb-node: IndexedDB for Node and Bun.  A database is a log file of  *)
(* put and del lines, a version file and a schema file; every open()       *)
(* replays the log into sorted pairs of its own (WalBackend), and a        *)
(* transaction buffers its operations until a microtask commits them.      *)
(*                                                                         *)
(* One object store with number keys.  A float is a sign and a magnitude   *)
(* of IdbWidth - 1 bits (-0 is left out), its bytes are a number below     *)
(* 2^IdbWidth.  A transaction is open on each connection at any moment:    *)
(* the wrapper has no abort() and accepts operations after a commit.       *)
(***************************************************************************)
EXTENDS Integers, Sequences, SequencesExt

CONSTANTS
  IdbConns,    \* calls of IDBFactory.open()
  IdbNumbers,  \* the keys
  IdbValues,
  IdbWidth,    \* width of an encoded number
  IdbMaxLog,   \* bound: lines of the log
  IdbMaxOps    \* bound: microtasks queued

VARIABLES
  idbFile,    \* the log: whole lines, and the torn line after the last newline
  idbDisk,    \* the version file, and whether the schema file lists the store
  idbConn,    \* each connection: its state, its pairs and its transaction
  idbCursor,  \* the results an open cursor has left: the keys it shows
  idbMicro,   \* the microtask queue
  idbFresh    \* history: connections behind whose back nobody wrote, and who wrote behind no torn line

idbVars == <<idbFile, idbDisk, idbConn, idbCursor, idbMicro, idbFresh>>

IdbSign == 2 ^ (IdbWidth - 1)

ASSUME IdbAssumption == IdbSign \in Nat \ {0} /\ IdbNumbers \subseteq 1 - IdbSign .. IdbSign - 1

IdbWords == 0 .. 2 * IdbSign - 1
IdbBits(n) == IF n < 0 THEN IdbSign - n ELSE n
IdbFloat(w) == IF w >= IdbSign THEN IdbSign - w ELSE w
IdbInverted(w) == 2 * IdbSign - 1 - w
EncodeNumber(n) == IF n < 0 THEN IdbInverted(IdbBits(n)) ELSE IdbBits(n) + IdbSign
DecodeNumber(w) == IF w >= IdbSign THEN IdbFloat(IdbInverted(w)) ELSE IdbFloat(w + IdbSign)

IdbKeys == {EncodeNumber(n) : n \in IdbNumbers}
IdbPut(k, v) == [op |-> "put", key |-> k, value |-> v]
IdbDel(k) == [op |-> "del", key |-> k]
IdbClear == [op |-> "clear"]
Malformed == [op |-> "malformed"]   \* a line that JSON.parse refuses
IdbOps == {IdbPut(k, v) : k \in IdbKeys, v \in IdbValues} \cup {IdbDel(k) : k \in IdbKeys}
IdbLines == IdbOps \cup {Malformed}

-----------------------------------------------------------------------------
(* WalBackend *)

\* Bug for the mutant: the search passes a key that is there.
HalvePast(pairs, key, s) ==
  LET mid == (s.lo + s.hi) \div 2
  IN  IF s.lo >= s.hi THEN s
      ELSE IF pairs[mid + 1].key <= key THEN [s EXCEPT !.lo = mid + 1] ELSE [s EXCEPT !.hi = mid]

\* A turn of the loop of binarySearch, if there is one left.
Halve(pairs, key, s) ==
  LET mid == (s.lo + s.hi) \div 2
  IN  IF s.lo >= s.hi THEN s
      ELSE IF pairs[mid + 1].key < key THEN [s EXCEPT !.lo = mid + 1] ELSE [s EXCEPT !.hi = mid]

\* The first place (from 0) whose key is not below key: there are no more turns than pairs.
BinarySearch(pairs, key) ==
  LET search[k \in 0 .. Len(pairs)] == IF k = 0 THEN [lo |-> 0, hi |-> Len(pairs)]
                                       ELSE Halve(pairs, key, search[k - 1])
  IN  search[Len(pairs)].lo

Finds(pairs, i, key) == i < Len(pairs) /\ pairs[i + 1].key = key

ApplyEntry(pairs, line) ==
  LET i == IF line.op = "malformed" THEN 0 ELSE BinarySearch(pairs, line.key)
  IN  CASE line.op = "put" /\ Finds(pairs, i, line.key) ->
             [pairs EXCEPT ![i + 1].value = line.value]
        [] line.op = "put" /\ ~Finds(pairs, i, line.key) ->
             InsertAt(pairs, i + 1, [key |-> line.key, value |-> line.value])
        [] line.op = "del" /\ Finds(pairs, i, line.key) -> RemoveAt(pairs, i + 1)
        [] OTHER -> pairs

ApplyEntries(pairs, lines) ==
  LET applied[k \in 0 .. Len(lines)] == IF k = 0 THEN pairs ELSE ApplyEntry(applied[k - 1], lines[k])
  IN  applied[Len(lines)]

Replay(lines) == ApplyEntries(<<>>, lines)
Content(file) == file.lines \o file.tail

\* appendFileSync, line by line: one written behind a torn line becomes part of it.
Appended(file, lines) ==
  IF lines = <<>> THEN file
  ELSE [lines |-> file.lines \o (IF file.tail = <<>> THEN lines ELSE <<Malformed>> \o Tail(lines)),
        tail |-> <<>>]

\* What a write killed half way leaves: nothing, a part of the line or all but its newline.
Tears(file, line) ==
  {file} \cup {[file EXCEPT !.tail = <<IF file.tail = <<>> THEN l ELSE Malformed>>] :
                 l \in {Malformed, line}}

\* Bug for the mutant: clear() empties the pairs and logs nothing.
LogOpUncleared(s, op) ==
  IF op.op = "clear" THEN [s EXCEPT !.pairs = <<>>]
  ELSE [pairs |-> ApplyEntry(s.pairs, op), lines |-> Append(s.lines, op)]

\* An operation of a commit: clear() appends a line per pair it empties.
LogOp(s, op) ==
  IF op.op = "clear"
  THEN [pairs |-> <<>>, lines |-> s.lines \o [i \in DOMAIN s.pairs |-> IdbDel(s.pairs[i].key)]]
  ELSE [pairs |-> ApplyEntry(s.pairs, op), lines |-> Append(s.lines, op)]

\* What committing ops makes of the pairs, and the lines it appends.
Logged(pairs, ops) ==
  LET logged[k \in 0 .. Len(ops)] == IF k = 0 THEN [pairs |-> pairs, lines |-> <<>>]
                                     ELSE LogOp(logged[k - 1], ops[k])
  IN  logged[Len(ops)]

InRange(key, range) ==
  /\ \A b \in range.lower : IF range.lowerOpen THEN key > b ELSE key >= b
  /\ \A b \in range.upper : IF range.upperOpen THEN key < b ELSE key <= b

Scan(pairs, range, direction) ==
  LET filtered == SelectSeq(pairs, LAMBDA p : InRange(p.key, range))
  IN  IF direction = "prev" THEN Reverse(filtered) ELSE filtered

\* IDBKeyRange.bound, only, lowerBound and upperBound, over encoded keys.
IdbRange(lower, upper, lowerOpen, upperOpen) ==
  [lower |-> lower, upper |-> upper, lowerOpen |-> lowerOpen, upperOpen |-> upperOpen]
IdbRanges ==
  {IdbRange({}, {}, FALSE, FALSE)}
  \cup {IdbRange({k}, {l}, FALSE, FALSE) : k \in IdbKeys, l \in IdbKeys}
  \cup {IdbRange({k}, {}, o, FALSE) : k \in IdbKeys, o \in BOOLEAN}
  \cup {IdbRange({}, {k}, FALSE, o) : k \in IdbKeys, o \in BOOLEAN}

-----------------------------------------------------------------------------
Closed == [state |-> "closed", stores |-> FALSE, pairs |-> <<>>, ops |-> <<>>,
           requests |-> 0]

\* No database yet, or one whose version and schema files are there: since an upgrade handler is
\* always refused, they come from elsewhere.
IdbInit ==
  /\ idbFile = [lines |-> <<>>, tail |-> <<>>]
  /\ \E provisioned \in BOOLEAN :
       idbDisk = [version |-> IF provisioned THEN 1 ELSE 0, schema |-> provisioned]
  /\ idbConn = [c \in IdbConns |-> Closed]
  /\ idbCursor = <<>>
  /\ idbMicro = <<>>
  /\ idbFresh = IdbConns

\* open(name, 1): the log is replayed at once, the rest is a microtask.
Open(c) ==
  /\ idbConn[c].state = "closed"
  /\ Len(idbMicro) < IdbMaxOps
  /\ idbConn' = [idbConn EXCEPT ![c] =
       [Closed EXCEPT !.state = IF idbDisk.version < 1 THEN "upgrading" ELSE "opening",
                      !.stores = idbDisk.version >= 1 /\ idbDisk.schema,
                      !.pairs = Replay(Content(idbFile))]]
  /\ idbMicro' = Append(idbMicro, [task |-> "open", conn |-> c])
  /\ idbFresh' = idbFresh \cup {c}
  /\ UNCHANGED <<idbFile, idbDisk, idbCursor>>

\* The head of the microtask queue runs.
Runs(task, c) ==
  /\ idbMicro # <<>>
  /\ Head(idbMicro) = [task |-> task, conn |-> c]
  /\ idbMicro' = Tail(idbMicro)

Opened(c) ==
  /\ Runs("open", c)
  /\ idbConn[c].state = "opening"
  /\ idbConn' = [idbConn EXCEPT ![c].state = "open"]
  /\ UNCHANGED <<idbFile, idbDisk, idbCursor, idbFresh>>

\* An onupgradeneeded handler asks event.target, null for an event that was never dispatched,
\* or request.result, still undefined, for the database: it throws and the open is rejected.
UpgradeThrows(c) ==
  /\ Runs("open", c)
  /\ idbConn[c].state = "upgrading"
  /\ idbConn' = [idbConn EXCEPT ![c].state = "rejected"]
  /\ UNCHANGED <<idbFile, idbDisk, idbCursor, idbFresh>>

\* Without a handler the version is written, with a schema of no stores.
UpgradeBare(c) ==
  /\ Runs("open", c)
  /\ idbConn[c].state = "upgrading"
  /\ idbConn' = [idbConn EXCEPT ![c].state = "open"]
  /\ idbDisk' = [version |-> 1, schema |-> FALSE]
  /\ UNCHANGED <<idbFile, idbCursor, idbFresh>>

Usable(c) == idbConn[c].state = "open" /\ idbConn[c].stores

\* An operation of a transaction, its request and a commit.
Enqueue(c, op) ==
  /\ Usable(c)
  /\ Len(idbMicro) < IdbMaxOps
  /\ idbConn' = [idbConn EXCEPT ![c].ops = Append(@, op), ![c].requests = @ + 1]
  /\ idbMicro' = Append(idbMicro, [task |-> "commit", conn |-> c])
  /\ UNCHANGED <<idbFile, idbDisk, idbCursor, idbFresh>>

Put(c, key, value) == Enqueue(c, IdbPut(key, value))
Delete(c, key) == Enqueue(c, IdbDel(key))
ClearStore(c) == Enqueue(c, IdbClear)

\* add() looks for the key in the pairs, where operations not yet committed are missing.
Add(c, key, value) ==
  /\ ~Finds(idbConn[c].pairs, BinarySearch(idbConn[c].pairs, key), key)
  /\ Put(c, key, value)

WrittenBy(c) == {c} \cup {d \in idbFresh : idbConn[d].state = "closed"}

\* A line written behind a torn one reaches the pairs and not the log.
TornBy(c) == IF idbFile.tail = <<>> THEN {} ELSE {c}

\* Every commit microtask of a transaction runs all of it; the later ones find it empty.
Commit(c) ==
  /\ Runs("commit", c)
  /\ LET done == Logged(idbConn[c].pairs, idbConn[c].ops)
         file == Appended(idbFile, done.lines)
     IN  /\ Len(file.lines) <= IdbMaxLog
         /\ idbFile' = file
         /\ idbConn' = [idbConn EXCEPT ![c].pairs = done.pairs, ![c].ops = <<>>, ![c].requests = 0]
         /\ idbFresh' = IF done.lines = <<>> THEN idbFresh
                        ELSE (idbFresh \cap WrittenBy(c)) \ TornBy(c)
  /\ UNCHANGED <<idbDisk, idbCursor>>

\* compact() rewrites the log from the connection's own pairs, with a rename.
Compact(c) ==
  /\ idbConn[c].state = "open"
  /\ idbFile' = [lines |-> [i \in DOMAIN idbConn[c].pairs |->
                              IdbPut(idbConn[c].pairs[i].key, idbConn[c].pairs[i].value)],
                 tail |-> <<>>]
  /\ idbFresh' = (idbFresh \cap WrittenBy(c)) \cup {c}
  /\ UNCHANGED <<idbDisk, idbConn, idbCursor, idbMicro>>

\* openCursor: the cursor keeps the pairs of the moment and decodes their keys.
OpenCursor(c, range, direction) ==
  LET results == Scan(idbConn[c].pairs, range, direction)
  IN  /\ Usable(c)
      /\ idbCursor' = [i \in DOMAIN results |-> DecodeNumber(results[i].key)]
      /\ UNCHANGED <<idbFile, idbDisk, idbConn, idbMicro, idbFresh>>

MoveTo(left) ==
  /\ idbCursor # <<>>
  /\ idbCursor' = left
  /\ UNCHANGED <<idbFile, idbDisk, idbConn, idbMicro, idbFresh>>

\* continue() and advance(1) go one on, continue(key) to the first later result at or after key.
Continue == MoveTo(Tail(idbCursor))
ContinueTo(n) ==
  LET later == {i \in 2 .. Len(idbCursor) : EncodeNumber(idbCursor[i]) >= EncodeNumber(n)}
  IN  MoveTo(IF later = {} THEN <<>>
             ELSE SubSeq(idbCursor, CHOOSE i \in later : \A j \in later : i <= j, Len(idbCursor)))

\* deleteDatabase is one microtask, which unlinks the three files; connections keep what they hold.
DeleteDatabase ==
  /\ Len(idbMicro) < IdbMaxOps
  /\ idbMicro' = Append(idbMicro, [task |-> "delete"])
  /\ UNCHANGED <<idbFile, idbDisk, idbConn, idbCursor, idbFresh>>

NoFile == [lines |-> <<>>, tail |-> <<>>]

Deleted ==
  /\ idbMicro # <<>>
  /\ Head(idbMicro) = [task |-> "delete"]
  /\ idbMicro' = Tail(idbMicro)
  /\ idbFile' = NoFile
  /\ idbDisk' = [version |-> 0, schema |-> FALSE]
  /\ idbFresh' = {c \in IdbConns : idbConn[c].state = "closed"}
  /\ UNCHANGED <<idbConn, idbCursor>>

\* What the file system holds when the process ends inside a microtask: a prefix of the lines of
\* a commit, the version without the schema of an upgrade, some of the files of a deletion.
Partial(micro) ==
  IF micro.task = "delete"
  THEN {<<NoFile, idbDisk>>, <<NoFile, [idbDisk EXCEPT !.version = 0]>>}
  ELSE LET c == micro.conn
           lines == Logged(idbConn[c].pairs, idbConn[c].ops).lines
       IN  IF idbConn[c].state = "upgrading" THEN {<<idbFile, [idbDisk EXCEPT !.version = 1]>>}
           ELSE UNION {Tears(Appended(idbFile, SubSeq(lines, 1, k - 1)), lines[k]) \X {idbDisk} :
                         k \in DOMAIN lines}

\* The process ends, between two microtasks or inside the first of the queue.
IdbCrash ==
  /\ \E p \in {<<idbFile, idbDisk>>} \cup (IF idbMicro = <<>> THEN {} ELSE Partial(Head(idbMicro))) :
       /\ Len(p[1].lines) < IdbMaxLog
       /\ idbFile' = p[1]
       /\ idbDisk' = p[2]
  /\ idbConn' = [c \in IdbConns |-> Closed]
  /\ idbMicro' = <<>>
  /\ idbFresh' = IdbConns
  /\ idbCursor' = <<>>

\* A cursor shows a snapshot, so nothing is lost by following it to its end at once.
IdbNext ==
  \/ Continue
  \/ \E n \in IdbNumbers : ContinueTo(n)
  \/ /\ idbCursor = <<>>
     /\ \/ \E c \in IdbConns :
             \/ Open(c) \/ Opened(c) \/ UpgradeThrows(c) \/ UpgradeBare(c) \/ Commit(c) \/ Compact(c)
             \/ ClearStore(c)
             \/ \E k \in IdbKeys, v \in IdbValues : Put(c, k, v) \/ Add(c, k, v)
             \/ \E k \in IdbKeys : Delete(c, k)
             \/ \E r \in IdbRanges, d \in {"next", "prev"} : OpenCursor(c, r, d)
        \/ IdbCrash
        \/ DeleteDatabase \/ Deleted

IdbSpec == IdbInit /\ [][IdbNext]_idbVars

-----------------------------------------------------------------------------
\* The pairs of a connection are in the order of their encoded keys, which is that of the
\* numbers, and no key is there twice (applyEntry, binarySearch, encodeNumber).
SortedPairs(pairs) ==
  \A i, j \in DOMAIN pairs : i < j => pairs[i].key < pairs[j].key
EncodingOrdered ==
  \A m, n \in IdbNumbers : m < n => EncodeNumber(m) < EncodeNumber(n)

\* Every variable has its type, the pairs of every connection are sorted and a queued microtask
\* belongs to a connection that awaits it.
IdbTypeOK ==
  /\ Content(idbFile) \in Seq(IdbLines) /\ Len(idbFile.tail) <= 1
  /\ idbDisk \in [version : 0 .. 1, schema : BOOLEAN]
  /\ \A c \in IdbConns :
       /\ idbConn[c].state \in {"closed", "opening", "upgrading", "open", "rejected"}
       /\ idbConn[c].pairs \in Seq([key : IdbKeys, value : IdbValues])
       /\ SortedPairs(idbConn[c].pairs)
       /\ idbConn[c].ops \in Seq(IdbOps \cup {IdbClear})
       /\ idbConn[c].requests = Len(idbConn[c].ops)
  /\ \A i \in DOMAIN idbMicro :
       idbMicro[i].task = "delete" \/ idbConn[idbMicro[i].conn].state # "closed"
  /\ EncodingOrdered

\* What a restart would replay is the memory of every connection, through commits, clears,
\* compactions and crashes that tear a line, unless another connection wrote behind its back or it
\* wrote behind a torn line itself.  (That a transaction comes back as a whole is not promised: a
\* crash keeps any prefix of its lines.)
LogIsMemory ==
  \A c \in idbFresh :
    idbConn[c].state # "closed" => Replay(Content(idbFile)) = idbConn[c].pairs

\* "Data is stored as a WAL file and replayed on startup" (README.md:65): what a commit leaves in
\* the log gives back what it leaves in memory.
CommitsAreReplayed ==
  [][\A c \in idbFresh : Commit(c) => Replay(Content(idbFile')) = idbConn'[c].pairs]_idbVars

\* A cursor shows keys that are stored: what was encoded is decoded (key-codec.ts, "Used by the
\* WAL backend for range queries and cursors").
CursorShowsKeys ==
  \A i \in DOMAIN idbCursor : \E c \in IdbConns : \E j \in DOMAIN idbConn[c].pairs :
    idbConn[c].pairs[j].key = EncodeNumber(idbCursor[i])
=============================================================================
