----------------------------- MODULE ConfigStore -----------------------------
(***************************************************************************)
(* The settings an administrator overrides: the rows of app_config, the    *)
(* cache of them in each API process (ConfigService), and the snapshots    *)
(* from which they are rolled back.                                        *)
(*                                                                         *)
(* A handler has no await, so an API process runs one at a time, and every *)
(* call of an adapter is a transaction of its own.  A write reads the rows *)
(* and writes them when it commits; SQLAlchemy writes the values that      *)
(* differ from what was read, inserts what was missing, and gives up when  *)
(* the row is there by now, or is gone.                                    *)
(***************************************************************************)
EXTENDS Integers

CONSTANTS
  Backend,       \* API processes
  Setting,       \* keys that may be overridden
  Value,
  Unset,         \* a key without a row: its default, or the environment's value
  MaxSpent       \* bound: requests, failures and restarts

ASSUME ConfigAssumption ==
  /\ Unset \notin Value
  /\ MaxSpent \in Nat

VARIABLES
  stored,    \* the overrides in the table
  cache,     \* ... in each process
  snaps,     \* the rows of config_snapshots
  taken,     \* snapshots taken so far, the id of the latest
  job,       \* the handler each process runs
  spent,     \* requests, failures and restarts so far
  unaware,   \* history: keys written without the process that caches them
  undo       \* history: what the last write rolled back, and its snapshot

configVars == <<stored, cache, snaps, taken, job, spent, unaware, undo>>

-----------------------------------------------------------------------------
Rows == [Setting -> Value \cup {Unset}]

NoRows == [k \in Setting |-> Unset]

Snapshot == [id : Nat, rows : Rows, manual : BOOLEAN]

\* batch: the values to write.  read: the rows as the handler read them.  from:
\* the snapshot it restores, pre: the one it took before.  keeps: the snapshots
\* to be spared.  crossed: keys others have written since the handler began.
Job ==
  [step : {"idle", "export", "file", "ready", "write", "load", "prune"},
   goal : {"none", "set", "raw", "manual", "import", "restore"},
   batch : Rows, read : Rows, from : Nat, pre : Nat,
   keeps : SUBSET Nat, crossed : SUBSET Setting]

Idle ==
  [step |-> "idle", goal |-> "none", batch |-> NoRows, read |-> NoRows,
   from |-> 0, pre |-> 0, keeps |-> {}, crossed |-> {}]

NoUndo == [pre |-> 0, before |-> NoRows]

ConfigTypeOK ==
  /\ stored \in Rows
  /\ cache \in [Backend -> Rows]
  /\ snaps \subseteq Snapshot /\ taken \in Nat
  /\ job \in [Backend -> Job]
  /\ spent \in Nat
  /\ unaware \in [Backend -> SUBSET Setting]
  /\ undo \in [pre : Nat, before : Rows]

\* Every process has loaded the table; an administrator took a snapshot once.
ConfigInit ==
  /\ stored \in Rows
  /\ cache = [b \in Backend |-> stored]
  /\ \E rows \in Rows : snaps = {[id |-> 1, rows |-> rows, manual |-> TRUE]}
  /\ taken = 1
  /\ job = [b \in Backend |-> Idle]
  /\ spent = 0
  /\ unaware = [b \in Backend |-> {}]
  /\ undo = NoUndo

-----------------------------------------------------------------------------
At(b, step) == job[b].step = step

Proceeds(b, next) == job' = [job EXCEPT ![b] = next]

\* A batch, or a payload, laid over rows.
Overlay(batch, rows) ==
  [k \in Setting |-> IF batch[k] = Unset THEN rows[k] ELSE batch[k]]

\* The values that a commit sends.
Changed(j) == {k \in Setting : j.batch[k] # Unset /\ j.batch[k] # j.read[k]}

\* No row has come or gone that the commit inserts or updates.
Fits(j) == \A k \in Changed(j) : (j.read[k] = Unset) <=> (stored[k] = Unset)

Lands(j) ==
  /\ Fits(j)
  /\ stored' = [k \in Setting |-> IF k \in Changed(j) THEN j.batch[k] ELSE stored[k]]

\* The next of process b, while the other handlers are crossed by its write.
Crosses(b, next, keys) ==
  job' = [c \in Backend |->
            IF c = b THEN next
            ELSE IF job[c] = Idle THEN Idle
            ELSE [job[c] EXCEPT !.crossed = @ \cup keys]]

\* The other processes do not hear of it; of process b, its own remain.
Escapes(b, own, keys) ==
  unaware' = [c \in Backend |-> IF c = b THEN own ELSE unaware[c] \cup keys]

Spends == spent < MaxSpent /\ spent' = spent + 1

-----------------------------------------------------------------------------
(* What an administrator asks for *)

\* set_value and bulk_set; "raw": the editor of app_config, which has no cache.
BeginSet(b, goal, batch) ==
  /\ At(b, "idle") /\ Spends
  /\ Proceeds(b, [Idle EXCEPT !.step = "write", !.goal = goal, !.batch = batch, !.read = stored])
  /\ UNCHANGED <<stored, cache, snaps, taken, unaware, undo>>

\* create_snapshot, for an administrator or for import_entries: export_all.
BeginSnapshot(b, goal, batch) ==
  /\ At(b, "idle") /\ Spends
  /\ Proceeds(b, [Idle EXCEPT !.step = "file", !.goal = goal, !.batch = batch, !.read = stored])
  /\ UNCHANGED <<stored, cache, snaps, taken, unaware, undo>>

\* restore_snapshot reads its target.
BeginRestore(b, s) ==
  /\ At(b, "idle") /\ Spends
  /\ Proceeds(b, [Idle EXCEPT !.step = "export", !.goal = "restore",
                          !.batch = s.rows, !.from = s.id])
  /\ UNCHANGED <<stored, cache, snaps, taken, unaware, undo>>

\* prune_oldest_non_manual reads which to keep ...
BeginPrune(b, keeps) ==
  /\ At(b, "idle") /\ Spends
  /\ Proceeds(b, [Idle EXCEPT !.step = "prune", !.keeps = keeps])
  /\ UNCHANGED <<stored, cache, snaps, taken, unaware, undo>>

\* ... which are the newest of those that were not taken by hand.
Automatic == {s.id : s \in {t \in snaps : ~t.manual}}

Newest(keeps) ==
  /\ keeps \subseteq Automatic
  /\ \A i \in keeps, j \in Automatic \ keeps : j < i

-----------------------------------------------------------------------------
(* The transactions of a handler *)

\* Mutant of Export: the rows of the cache.
ExportCached(b) ==
  /\ At(b, "export")
  /\ Proceeds(b, [job[b] EXCEPT !.step = "file", !.read = cache[b], !.crossed = {}])
  /\ UNCHANGED <<stored, cache, snaps, taken, spent, unaware, undo>>

\* export_all, before a restore.
Export(b) ==
  /\ At(b, "export")
  /\ Proceeds(b, [job[b] EXCEPT !.step = "file", !.read = stored, !.crossed = {}])
  /\ UNCHANGED <<stored, cache, snaps, taken, spent, unaware, undo>>

\* ConfigSnapshotAdapter.create.  An import is validated only now; a target
\* without rows is not written.
File(b) ==
  /\ At(b, "file")
  /\ taken' = taken + 1
  /\ snaps' = snaps \cup {[id |-> taken + 1, rows |-> job[b].read,
                           manual |-> job[b].goal = "manual"]}
  /\ \/ job[b].goal \in {"manual", "import"} /\ Proceeds(b, Idle)
     \/ /\ job[b].goal = "import"
        /\ Proceeds(b, [job[b] EXCEPT !.step = "ready", !.read = NoRows])
     \/ /\ job[b].goal = "restore"
        /\ Proceeds(b, [job[b] EXCEPT !.step = IF job[b].batch = NoRows THEN "load" ELSE "ready",
                                  !.read = NoRows, !.pre = taken + 1])
  /\ UNCHANGED <<stored, cache, spent, unaware, undo>>

\* bulk_set: the rows as they are.
ReadRows(b) ==
  /\ At(b, "ready")
  /\ Proceeds(b, [job[b] EXCEPT !.step = "write", !.read = stored])
  /\ UNCHANGED <<stored, cache, snaps, taken, spent, unaware, undo>>

\* ... and its commit.  Settings are cached as they were sent; an administrator
\* of app_config changes the table only.
Write(b) ==
  /\ At(b, "write")
  /\ job[b].goal # "restore"
  /\ LET j == job[b]
         sent == {k \in Setting : j.batch[k] # Unset}
     IN /\ Lands(j)
        /\ Crosses(b, Idle, Changed(j))
        /\ IF j.goal = "raw"
           THEN /\ Escapes(b, unaware[b] \cup Changed(j), Changed(j))
                /\ UNCHANGED cache
           ELSE /\ Escapes(b, unaware[b] \ (sent \ j.crossed), Changed(j))
                /\ cache' = [cache EXCEPT ![b] = Overlay(j.batch, @)]
  /\ undo' = NoUndo
  /\ UNCHANGED <<snaps, taken, spent>>

\* Mutant of Restore: the process goes on with what it had cached.
RestoreUncached(b) ==
  /\ At(b, "write") /\ job[b].goal = "restore"
  /\ Lands(job[b])
  /\ Crosses(b, Idle, Changed(job[b]))
  /\ Escapes(b, unaware[b], Changed(job[b]))
  /\ undo' = NoUndo
  /\ UNCHANGED <<cache, snaps, taken, spent>>

\* bulk_set of a restore.  What it rolls back is known when nobody has written
\* since the table was exported.
Restore(b) ==
  /\ At(b, "write") /\ job[b].goal = "restore"
  /\ Lands(job[b])
  /\ Crosses(b, [job[b] EXCEPT !.step = "load", !.read = NoRows], Changed(job[b]))
  /\ Escapes(b, unaware[b], Changed(job[b]))
  /\ undo' = IF job[b].crossed = {} THEN [pre |-> job[b].pre, before |-> stored] ELSE NoUndo
  /\ UNCHANGED <<cache, snaps, taken, spent>>

\* load, at the end of a restore.
Load(b) ==
  /\ At(b, "load")
  /\ cache' = [cache EXCEPT ![b] = stored]
  /\ unaware' = [unaware EXCEPT ![b] = {}]
  /\ Proceeds(b, Idle)
  /\ UNCHANGED <<stored, snaps, taken, spent, undo>>

\* prune_oldest_non_manual deletes what it is not to keep, new ones included.
Prune(b) ==
  /\ At(b, "prune")
  /\ snaps' = {s \in snaps : s.manual \/ s.id \in job[b].keeps}
  /\ Proceeds(b, Idle)
  /\ UNCHANGED <<stored, cache, taken, spent, unaware, undo>>

-----------------------------------------------------------------------------
(* Deletions, failures and restarts *)

DeleteSnapshot(s) ==
  /\ Spends
  /\ snaps' = snaps \ {s}
  /\ UNCHANGED <<stored, cache, taken, job, unaware, undo>>

\* delete_value of the editor of app_config, on process b.
DeleteRow(b, k) ==
  /\ At(b, "idle") /\ stored[k] # Unset /\ Spends
  /\ stored' = [stored EXCEPT ![k] = Unset]
  /\ Crosses(b, Idle, {k})
  /\ Escapes(b, unaware[b] \cup {k}, {k})
  /\ undo' = NoUndo
  /\ UNCHANGED <<cache, snaps, taken>>

\* The row that a commit inserts is there, or the one it updates is gone.
GivesUp(b) ==
  /\ At(b, "write") /\ ~Fits(job[b])
  /\ Proceeds(b, Idle)
  /\ UNCHANGED <<stored, cache, snaps, taken, spent, unaware, undo>>

\* A transaction fails.  What a restore has written stays, though its process
\* has not loaded it.
Fails(b) ==
  /\ ~At(b, "idle") /\ Spends
  /\ Proceeds(b, Idle)
  /\ unaware' = IF At(b, "load") THEN [unaware EXCEPT ![b] = Setting] ELSE unaware
  /\ UNCHANGED <<stored, cache, snaps, taken, undo>>

\* The commit happens but its answer is lost.
WriteUnanswered(b) ==
  /\ At(b, "write") /\ Spends
  /\ Lands(job[b])
  /\ Crosses(b, Idle, Changed(job[b]))
  /\ Escapes(b, unaware[b] \cup Changed(job[b]), Changed(job[b]))
  /\ undo' = NoUndo
  /\ UNCHANGED <<cache, snaps, taken>>

\* A process starts again and loads the table.
Restart(b) ==
  /\ Spends
  /\ Proceeds(b, Idle)
  /\ cache' = [cache EXCEPT ![b] = stored]
  /\ unaware' = [unaware EXCEPT ![b] = {}]
  /\ UNCHANGED <<stored, snaps, taken, undo>>

ConfigNext ==
  \/ \E s \in snaps : DeleteSnapshot(s)
  \/ \E b \in Backend :
       \/ \E batch \in Rows \ {NoRows} :
            BeginSet(b, "set", batch) \/ BeginSnapshot(b, "import", batch)
       \/ \E k \in Setting, v \in Value : BeginSet(b, "raw", [NoRows EXCEPT ![k] = v])
       \/ BeginSnapshot(b, "manual", NoRows)
       \/ \E s \in snaps : BeginRestore(b, s)
       \/ \E keeps \in SUBSET Automatic : Newest(keeps) /\ BeginPrune(b, keeps)
       \/ Export(b) \/ File(b) \/ ReadRows(b) \/ Write(b) \/ Restore(b) \/ Load(b)
       \/ Prune(b) \/ GivesUp(b) \/ Fails(b) \/ WriteUnanswered(b) \/ Restart(b)
       \/ \E k \in Setting : DeleteRow(b, k)

ConfigSpec == ConfigInit /\ [][ConfigNext]_configVars

-----------------------------------------------------------------------------
(* Properties *)

\* An administrator sees what is stored in every setting that nobody has
\* changed behind the back of the process that answers: its cache is the table,
\* through sets, imports and restores that overlap, fail and conflict.
OwnWritesSeen ==
  \A b \in Backend : ~At(b, "load") =>
    \A k \in Setting \ unaware[b] : cache[b][k] = stored[k]

\* Restore of the snapshot that the last write took before it.
Undoes(b) ==
  /\ job[b].goal = "restore" /\ ~At(b, "load") /\ job'[b].step = "load"
  /\ undo.pre # 0 /\ job[b].from = undo.pre /\ job[b].crossed = {}

\* A rollback is undone by its pre-rollback snapshot: if nobody has written
\* meanwhile, every setting that had a row before has its value again, on
\* whichever processes the two restores run, whatever is pruned or retried.
RollbackReversible ==
  [][\A b \in Backend : Undoes(b) =>
       \A k \in Setting : undo.before[k] # Unset => stored'[k] = undo.before[k]]_configVars

\* "so the rollback is itself reversible": but a setting that had no row before
\* keeps the value the rollback gave it.
FullyReversible ==
  [][\A b \in Backend : Undoes(b) => stored' = undo.before]_configVars

\* "so workers stay consistent": but no process hears of another's writes.
CachesConsistent == (\A b \in Backend : At(b, "idle")) => \A b \in Backend : cache[b] = stored

\* "keeping the newest": but one taken between the two queries is deleted.
PruneKeepsNewest ==
  [][\A b \in Backend : At(b, "prune") /\ job[b].keeps # {} =>
       \A s \in snaps \ snaps' : \E t \in snaps' : ~t.manual /\ s.id < t.id]_configVars
=============================================================================
