---------------------------- MODULE KernelMemory ----------------------------
(***************************************************************************)
(* The kernel's screen memory (ai-device-kernel/src/memory.rs) and its     *)
(* SQLite file (memory_sqlite.rs) as operators on values.                  *)
(*                                                                         *)
(* A memory is [entries, lru]: the cached sequences by screen and the      *)
(* least-recently-used list, oldest first (lookup's hit and miss counters  *)
(* are diagnostics and left out).  The table is a sequence of rows         *)
(* [sid, entry] in rowid order: INSERT OR REPLACE deletes the old row and  *)
(* inserts a new one at the end, and the SELECT of open() scans in that    *)
(* order.                                                                  *)
(***************************************************************************)
EXTENDS Naturals, Sequences, SequenceOps, Functions, FiniteSets

CONSTANTS
  MaxEntries    \* Memory::MAX_ENTRIES (1024)

ASSUME MaxEntriesPositive == MaxEntries \in Nat \ {0}

NewMemory == [entries |-> [s \in {} |-> <<>>], lru |-> <<>>]

NoEntry == [successes |-> <<>>, failures |-> <<>>]

Cached(mem) == DOMAIN mem.entries

peek(mem, sid) == mem.entries[sid]

touch_lru(mem, sid) ==
  [mem EXCEPT !.lru = Append(Only(@, Range(@) \ {sid}), sid)]

\* The front of the list is always cached (LruIsDomain), so one round of the
\* two nested loops removes exactly the coldest entry.
evict_one(mem) ==
  [mem EXCEPT !.lru = Tail(@), !.entries = Restrict(@, DOMAIN @ \ {Head(mem.lru)})]

maybe_evict(mem) ==
  IF Cardinality(Cached(mem)) > MaxEntries THEN evict_one(mem) ELSE mem

\* entries.entry(sid).or_default(), then a push onto one of its lists.
store(mem, sid, entry) ==
  maybe_evict(touch_lru(
    [mem EXCEPT !.entries =
       [s \in DOMAIN @ \cup {sid} |-> IF s = sid THEN entry ELSE @[s]]], sid))

entry_or_default(mem, sid) ==
  IF sid \in Cached(mem) THEN mem.entries[sid] ELSE NoEntry

record_success(mem, sid, action) ==
  LET e == entry_or_default(mem, sid) IN
    store(mem, sid, [e EXCEPT !.successes = Append(@, action)])

record_failure(mem, sid, action) ==
  LET e == entry_or_default(mem, sid) IN
    store(mem, sid, [e EXCEPT !.failures = Append(@, action)])

\* The usual upsert instead of REPLACE: the row keeps its place in the scan.
persist_screen_upsert(rows, sid, entry) ==
  IF \E i \in DOMAIN rows : rows[i].sid = sid
  THEN [i \in DOMAIN rows |->
          IF rows[i].sid = sid THEN [sid |-> sid, entry |-> entry] ELSE rows[i]]
  ELSE Append(rows, [sid |-> sid, entry |-> entry])

(***************************************************************************)
(* The file.                                                               *)
(***************************************************************************)
persist_screen(rows, sid, entry) ==
  Append(Only(rows, {r \in Range(rows) : r.sid # sid}), [sid |-> sid, entry |-> entry])

\* open() replays every row through record_success and record_failure.  These
\* are the memories after 0, 1, ... of the actions, and of the rows.
Successes(mem, sid, actions) ==
  LET after[i \in 0..Len(actions)] ==
        IF i = 0 THEN mem ELSE record_success(after[i - 1], sid, actions[i])
  IN after

Failures(mem, sid, actions) ==
  LET after[i \in 0..Len(actions)] ==
        IF i = 0 THEN mem ELSE record_failure(after[i - 1], sid, actions[i])
  IN after

hydrate_row(mem, row) ==
  LET done == row.entry.successes
      failed == row.entry.failures
  IN Failures(Successes(mem, row.sid, done)[Len(done)], row.sid, failed)[Len(failed)]

Hydrated(rows) ==
  LET after[i \in 0..Len(rows)] ==
        IF i = 0 THEN NewMemory ELSE hydrate_row(after[i - 1], rows[i])
  IN after

open(rows) == Hydrated(rows)[Len(rows)]

\* The lru list names every cached screen once and nothing else.
LruIsDomain(mem) ==
  /\ Range(mem.lru) = Cached(mem)
  /\ Len(mem.lru) = Cardinality(Cached(mem))
=============================================================================
