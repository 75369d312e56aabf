-------------------------- MODULE ConfigStoreProofs --------------------------
(***************************************************************************)
(* For any number of API processes, settings, values and requests: what a  *)
(* process caches is stored, apart from what was written without it, and   *)
(* a rollback is undone by the snapshot that was taken before it.          *)
(***************************************************************************)
EXTENDS ConfigStore, TLAPS

Restores(b) == job[b].goal = "restore"

\* Who is crossed is unaware.
CrossedInv == \A b \in Backend : job[b].crossed \subseteq unaware[b]

\* What was read is stored, where nobody has crossed it.
ReadInv ==
  \A b \in Backend : At(b, "file") \/ At(b, "write") =>
    \A k \in Setting \ job[b].crossed : job[b].read[k] = stored[k]

\* An id that was given is never given again.
IdInv ==
  /\ \A s \in snaps : s.id <= taken
  /\ \A b \in Backend : job[b].from <= taken

\* The snapshot that a restore has taken, wherever it is read, is the table.
PreInv ==
  \A b \in Backend : Restores(b) /\ (At(b, "ready") \/ At(b, "write")) /\ job[b].crossed = {} =>
    /\ \A s \in snaps : s.id = job[b].pre => s.rows = stored
    /\ \A c \in Backend : Restores(c) /\ job[c].from = job[b].pre => job[c].batch = stored

\* The snapshot of the last rollback, wherever it is read, is what it rolled back.
UndoInv ==
  undo.pre # 0 =>
    /\ \A s \in snaps : s.id = undo.pre => s.rows = undo.before
    /\ \A c \in Backend : Restores(c) /\ job[c].from = undo.pre => job[c].batch = undo.before

ConfigInv ==
  /\ ConfigTypeOK /\ OwnWritesSeen /\ CrossedInv /\ ReadInv /\ IdInv
  /\ PreInv /\ UndoInv
  /\ \A b \in Backend : undo.pre <= taken /\ job[b].pre <= taken

-----------------------------------------------------------------------------
(* Types *)

LEMMA ConstantTypes == NoRows \in Rows /\ Idle \in Job /\ NoUndo \in [pre : Nat, before : Rows]
<1>1. NoRows \in Rows
  BY DEF NoRows, Rows
<1>2. Idle \in Job
  BY <1>1 DEF Idle, Job
<1> QED
  BY <1>1, <1>2 DEF NoUndo

LEMMA OneRow == \A k \in Setting, v \in Value : [NoRows EXCEPT ![k] = v] \in Rows
BY DEF NoRows, Rows

LEMMA IdleFields ==
  /\ Idle.step = "idle" /\ Idle.goal = "none" /\ Idle.batch = NoRows /\ Idle.read = NoRows
  /\ Idle.from = 0 /\ Idle.pre = 0 /\ Idle.keeps = {} /\ Idle.crossed = {}
BY DEF Idle

LEMMA SpendsEffect ==
  ASSUME ConfigInv, Spends
  PROVE  spent' \in Nat
BY DEF Spends, ConfigInv, ConfigTypeOK

LEMMA ProceedsEffect ==
  ASSUME ConfigTypeOK, NEW b \in Backend, NEW next \in Job, Proceeds(b, next)
  PROVE  /\ job' \in [Backend -> Job]
         /\ job'[b] = next
         /\ \A c \in Backend \ {b} : job'[c] = job[c]
BY DEF Proceeds, ConfigTypeOK

\* The others keep their handlers but are crossed.
LEMMA CrossesEffect ==
  ASSUME ConfigTypeOK, NEW b \in Backend, NEW next \in Job, NEW keys \in SUBSET Setting,
         Crosses(b, next, keys)
  PROVE  /\ job' \in [Backend -> Job]
         /\ job'[b] = next
         /\ \A c \in Backend \ {b} :
              /\ job'[c].step = job[c].step /\ job'[c].goal = job[c].goal
              /\ job'[c].batch = job[c].batch /\ job'[c].read = job[c].read
              /\ job'[c].from = job[c].from /\ job'[c].pre = job[c].pre
              /\ \/ job[c] = Idle /\ job'[c] = Idle
                 \/ job'[c].crossed = job[c].crossed \cup keys
<1>1. \A c \in Backend : job[c] \in Job
  BY DEF ConfigTypeOK
<1>2. \A j \in Job : [j EXCEPT !.crossed = @ \cup keys] \in Job
  BY DEF Job
<1>3. \A c \in Backend \ {b} :
        \/ job[c] = Idle /\ job'[c] = Idle
        \/ job'[c] = [job[c] EXCEPT !.crossed = @ \cup keys]
  BY DEF Crosses
<1>4. job'[b] = next
  BY DEF Crosses
<1>5. job' \in [Backend -> Job]
  BY <1>1, <1>2, ConstantTypes DEF Crosses
<1>6. ASSUME NEW c \in Backend \ {b}, job'[c] = [job[c] EXCEPT !.crossed = @ \cup keys]
      PROVE  /\ job'[c].step = job[c].step /\ job'[c].goal = job[c].goal
             /\ job'[c].batch = job[c].batch /\ job'[c].read = job[c].read
             /\ job'[c].from = job[c].from /\ job'[c].pre = job[c].pre
             /\ job'[c].crossed = job[c].crossed \cup keys
  BY <1>1, <1>6 DEF Job
<1> QED
  BY <1>3, <1>4, <1>5, <1>6

LEMMA EscapesEffect ==
  ASSUME NEW b \in Backend, NEW own \in SUBSET Setting, NEW keys \in SUBSET Setting,
         ConfigTypeOK, Escapes(b, own, keys)
  PROVE  /\ unaware' \in [Backend -> SUBSET Setting]
         /\ unaware'[b] = own
         /\ \A c \in Backend \ {b} : unaware'[c] = unaware[c] \cup keys
BY DEF Escapes, ConfigTypeOK

\* A commit sends the changed values, and leaves the others alone.
LEMMA CommitEffect ==
  ASSUME ConfigTypeOK, NEW b \in Backend, Lands(job[b])
  PROVE  /\ stored' \in Rows
         /\ Changed(job[b]) \subseteq Setting
         /\ \A k \in Changed(job[b]) : stored'[k] = job[b].batch[k]
         /\ \A k \in Setting \ Changed(job[b]) : stored'[k] = stored[k]
<1>1. job[b] \in Job
  BY DEF ConfigTypeOK
<1>2. \A k \in Changed(job[b]) : job[b].batch[k] \in Value
  BY <1>1 DEF Changed, Job, Rows
<1> QED
  BY <1>1, <1>2 DEF Lands, ConfigTypeOK, Rows, Changed

LEMMA OverlayType == \A batch \in Rows, rows \in Rows : Overlay(batch, rows) \in Rows
BY DEF Overlay, Rows

-----------------------------------------------------------------------------
(* Steps that write no row *)

\* One handler goes on, and neither the table nor what is known of it changes.
Calm(b, next) ==
  /\ next \in Job /\ Proceeds(b, next)
  /\ next.crossed \subseteq job[b].crossed
  /\ ~At(b, "load")
  /\ UNCHANGED <<stored, cache, unaware, undo>>

LEMMA CalmStep ==
  ASSUME ConfigInv, NEW b \in Backend, NEW next, Calm(b, next)
  PROVE  OwnWritesSeen' /\ CrossedInv'
<1>1. /\ job'[b] = next
      /\ \A c \in Backend \ {b} : job'[c] = job[c]
  BY ProceedsEffect DEF Calm, ConfigInv
<1>2. OwnWritesSeen'
  BY <1>1 DEF Calm, ConfigInv, OwnWritesSeen, At
<1>3. CrossedInv'
  BY <1>1 DEF Calm, ConfigInv, CrossedInv
<1> QED
  BY <1>2, <1>3

\* The handler ends, or has not read anything yet.
LEMMA QuietStep ==
  ASSUME ConfigInv, NEW b \in Backend, NEW next, Calm(b, next), taken' = taken, spent' \in Nat,
         snaps' \subseteq snaps,
         next.step \in {"file", "write"} =>
           \A k \in Setting \ next.crossed : next.read[k] = stored[k],
         next.from # 0 \/ next.goal = "restore" =>
           \/ next.from = job[b].from /\ next.goal = job[b].goal /\ next.batch = job[b].batch
           \/ \E s \in snaps : next.from = s.id /\ next.batch = s.rows,
         next.pre = 0 \/ next.pre = job[b].pre,
         next.goal = "restore" /\ next.step \in {"ready", "write"} =>
           /\ At(b, "ready") /\ Restores(b)
           /\ next.pre = job[b].pre /\ next.crossed = job[b].crossed
  PROVE  ConfigInv'
<1> USE DEF Restores
<1>1. /\ job' \in [Backend -> Job]
      /\ job'[b] = next
      /\ \A c \in Backend \ {b} : job'[c] = job[c]
  BY ProceedsEffect DEF Calm, ConfigInv
<1>2. ConfigTypeOK'
  BY <1>1 DEF Calm, ConfigInv, ConfigTypeOK
<1>3. OwnWritesSeen' /\ CrossedInv'
  BY CalmStep
<1>4. ReadInv'
  BY <1>1 DEF Calm, ConfigInv, ReadInv, At
<1>5. IdInv'
  BY <1>1 DEF Calm, ConfigInv, IdInv, ConfigTypeOK
<1>6. PreInv'
  BY <1>1 DEF Calm, ConfigInv, PreInv, At
<1>7. UndoInv'
  BY <1>1 DEF Calm, ConfigInv, UndoInv
<1>8. \A c \in Backend : undo'.pre <= taken' /\ job'[c].pre <= taken'
  BY <1>1 DEF Calm, ConfigInv, ConfigTypeOK
<1> QED
  BY <1>2, <1>3, <1>4, <1>5, <1>6, <1>7, <1>8 DEF ConfigInv
-----------------------------------------------------------------------------
(* Steps that write rows *)

\* The handler ends, or goes on to load what it wrote.
Follows(b, next) ==
  \/ next = Idle
  \/ /\ next.step = "load" /\ next.goal = job[b].goal
     /\ next.batch = job[b].batch /\ next.from = job[b].from /\ next.pre = job[b].pre

LEMMA LandingStep ==
  ASSUME ConfigInv, NEW b \in Backend, NEW next \in Job, Follows(b, next),
         NEW keys \in SUBSET Setting, Crosses(b, next, keys),
         NEW own \in SUBSET Setting, Escapes(b, own, keys), next.crossed \subseteq own,
         stored' \in Rows, \A k \in Setting \ keys : stored'[k] = stored[k],
         cache' \in [Backend -> Rows], \A c \in Backend \ {b} : cache'[c] = cache[c],
         next.step # "load" => \A k \in Setting \ own : cache'[b][k] = stored'[k],
         \/ undo' = NoUndo
         \/ /\ undo' = [pre |-> job[b].pre, before |-> stored]
            /\ Restores(b) /\ At(b, "write") /\ job[b].crossed = {},
         snaps' = snaps, taken' = taken, spent' \in Nat
  PROVE  ConfigInv'
<1> USE DEF Restores
<1>1. /\ job' \in [Backend -> Job]
      /\ job'[b] = next
      /\ \A c \in Backend \ {b} :
           /\ job'[c].step = job[c].step /\ job'[c].goal = job[c].goal
           /\ job'[c].batch = job[c].batch /\ job'[c].read = job[c].read
           /\ job'[c].from = job[c].from /\ job'[c].pre = job[c].pre
           /\ \/ job[c] = Idle /\ job'[c] = Idle
              \/ job'[c].crossed = job[c].crossed \cup keys
  BY CrossesEffect DEF ConfigInv
<1>2. /\ unaware' \in [Backend -> SUBSET Setting]
      /\ unaware'[b] = own
      /\ \A c \in Backend \ {b} : unaware'[c] = unaware[c] \cup keys
  BY EscapesEffect DEF ConfigInv
<1>3. next.goal # "restore" \/ (next.goal = job[b].goal /\ next.step = "load")
  BY DEF Follows, Idle
<1>4. next.from <= taken /\ next.pre <= taken /\ next.step \notin {"file", "ready", "write"}
  BY DEF Follows, Idle, ConfigInv, ConfigTypeOK, IdInv
<1>5. job[b] \in Job /\ undo' \in [pre : Nat, before : Rows] /\ undo'.pre <= taken
  BY ConstantTypes DEF ConfigInv, ConfigTypeOK, Job, NoUndo
<1>6. ConfigTypeOK'
  BY <1>1, <1>2, <1>5 DEF ConfigInv, ConfigTypeOK
<1>7. OwnWritesSeen'
  BY <1>1, <1>2 DEF ConfigInv, OwnWritesSeen, At
<1>8. CrossedInv'
  BY <1>1, <1>2 DEF ConfigInv, CrossedInv, Idle
<1>9. ReadInv'
  BY <1>1, <1>4 DEF ConfigInv, ReadInv, At, Idle
<1>10. IdInv'
  BY <1>1, <1>4 DEF ConfigInv, IdInv
<1>11. keys = {} => stored' = stored
  BY DEF ConfigInv, ConfigTypeOK, Rows
<1>12. PreInv'
  BY <1>1, <1>3, <1>4, <1>11, ConstantTypes DEF ConfigInv, PreInv, At, Follows, Idle
<1>13. UndoInv'
  BY <1>1, <1>3 DEF ConfigInv, UndoInv, PreInv, At, Follows, Idle, NoUndo
<1>14. \A c \in Backend : undo'.pre <= taken' /\ job'[c].pre <= taken'
  BY <1>1, <1>4, <1>5 DEF ConfigInv
<1> QED
  BY <1>6, <1>7, <1>8, <1>9, <1>10, <1>12, <1>13, <1>14 DEF ConfigInv

-----------------------------------------------------------------------------
(* Steps that load the table, or fail to *)

LEMMA ResetStep ==
  ASSUME ConfigInv, NEW b \in Backend, Proceeds(b, Idle),
         UNCHANGED <<stored, snaps, taken, undo>>, spent' \in Nat,
         \/ /\ cache' = [cache EXCEPT ![b] = stored]
            /\ unaware' = [unaware EXCEPT ![b] = {}]
         \/ /\ cache' = cache
            /\ unaware' = [unaware EXCEPT ![b] = Setting]
  PROVE  ConfigInv'
<1> USE DEF Restores
<1>1. /\ job' \in [Backend -> Job]
      /\ job'[b] = Idle
      /\ \A c \in Backend \ {b} : job'[c] = job[c]
  BY ProceedsEffect, ConstantTypes DEF ConfigInv
<1>2. /\ cache' \in [Backend -> Rows]
      /\ unaware' \in [Backend -> SUBSET Setting]
      /\ \A c \in Backend \ {b} : cache'[c] = cache[c] /\ unaware'[c] = unaware[c]
      /\ \/ cache'[b] = stored
         \/ unaware'[b] = Setting
  BY DEF ConfigInv, ConfigTypeOK
<1>3. ConfigTypeOK'
  BY <1>1, <1>2 DEF ConfigInv, ConfigTypeOK
<1>4. OwnWritesSeen'
  BY <1>1, <1>2 DEF ConfigInv, OwnWritesSeen, At
<1>5. CrossedInv'
  BY <1>1, <1>2 DEF ConfigInv, CrossedInv, Idle
<1>6. ReadInv' /\ PreInv'
  BY <1>1 DEF ConfigInv, ReadInv, PreInv, At, Idle
<1>7. IdInv' /\ UndoInv'
  BY <1>1 DEF ConfigInv, ConfigTypeOK, IdInv, UndoInv, Idle
<1>8. \A c \in Backend : undo'.pre <= taken' /\ job'[c].pre <= taken'
  BY <1>1 DEF ConfigInv, ConfigTypeOK, Idle
<1> QED
  BY <1>3, <1>4, <1>5, <1>6, <1>7, <1>8 DEF ConfigInv
-----------------------------------------------------------------------------
(* The actions *)

\* A handler that leaves, before it has loaded anything.
LEMMA LeavesQuietly ==
  ASSUME ConfigInv, NEW b \in Backend, Proceeds(b, Idle), ~At(b, "load"),
         UNCHANGED <<stored, cache, taken, unaware, undo>>,
         snaps' \subseteq snaps, spent' \in Nat
  PROVE  ConfigInv'
<1>1. Calm(b, Idle)
  BY ConstantTypes DEF Calm, Idle
<1>2. Idle.step = "idle" /\ Idle.goal = "none" /\ Idle.from = 0 /\ Idle.pre = 0
  BY DEF Idle
<1> QED
  BY <1>1, <1>2, QuietStep

LEMMA BeginStep ==
  ASSUME ConfigInv, NEW b \in Backend,
         \/ \E batch \in Rows, goal \in {"set", "raw"} : BeginSet(b, goal, batch)
         \/ \E batch \in Rows, goal \in {"manual", "import"} : BeginSnapshot(b, goal, batch)
         \/ \E s \in snaps : BeginRestore(b, s)
         \/ \E keeps \in SUBSET Automatic : BeginPrune(b, keeps)
  PROVE  ConfigInv'
<1>1. stored \in Rows /\ snaps \subseteq Snapshot /\ spent \in Nat
  BY DEF ConfigInv, ConfigTypeOK
<1>2. ASSUME NEW batch \in Rows, NEW goal \in {"set", "raw"}, BeginSet(b, goal, batch)
      PROVE  ConfigInv'
  <2> DEFINE next == [Idle EXCEPT !.step = "write", !.goal = goal, !.batch = batch,
                                  !.read = stored]
  <2>1. /\ next \in Job /\ next.step = "write" /\ next.goal = goal /\ next.batch = batch
        /\ next.read = stored /\ next.from = 0 /\ next.pre = 0 /\ next.crossed = {}
    BY <1>1, ConstantTypes, IdleFields DEF Job
  <2>2. Calm(b, next)
    BY <1>2, <2>1, IdleFields DEF BeginSet, Calm, At
  <2>3. taken' = taken /\ snaps' = snaps /\ spent' \in Nat
    BY <1>2, SpendsEffect DEF BeginSet
  <2> HIDE DEF next
  <2> QED
    BY <1>1, <2>1, <2>2, <2>3, QuietStep
<1>3. ASSUME NEW batch \in Rows, NEW goal \in {"manual", "import"}, BeginSnapshot(b, goal, batch)
      PROVE  ConfigInv'
  <2> DEFINE next == [Idle EXCEPT !.step = "file", !.goal = goal, !.batch = batch,
                                  !.read = stored]
  <2>1. /\ next \in Job /\ next.step = "file" /\ next.goal = goal /\ next.batch = batch
        /\ next.read = stored /\ next.from = 0 /\ next.pre = 0 /\ next.crossed = {}
    BY <1>1, ConstantTypes, IdleFields DEF Job
  <2>2. Calm(b, next)
    BY <1>3, <2>1, IdleFields DEF BeginSnapshot, Calm, At
  <2>3. taken' = taken /\ snaps' = snaps /\ spent' \in Nat
    BY <1>3, SpendsEffect DEF BeginSnapshot
  <2> HIDE DEF next
  <2> QED
    BY <1>1, <2>1, <2>2, <2>3, QuietStep
<1>4. ASSUME NEW s \in snaps, BeginRestore(b, s)
      PROVE  ConfigInv'
  <2> DEFINE next == [Idle EXCEPT !.step = "export", !.goal = "restore", !.batch = s.rows,
                                  !.from = s.id]
  <2>1. /\ next \in Job /\ next.step = "export" /\ next.goal = "restore" /\ next.batch = s.rows
        /\ next.read = NoRows /\ next.from = s.id /\ next.pre = 0 /\ next.crossed = {}
    BY <1>1, ConstantTypes, IdleFields DEF Job, Snapshot
  <2>2. Calm(b, next)
    BY <1>4, <2>1, IdleFields DEF BeginRestore, Calm, At
  <2>3. taken' = taken /\ snaps' = snaps /\ spent' \in Nat
    BY <1>4, SpendsEffect DEF BeginRestore
  <2> HIDE DEF next
  <2> QED
    BY <1>1, <2>1, <2>2, <2>3, QuietStep
<1>5. ASSUME NEW keeps \in SUBSET Automatic, BeginPrune(b, keeps)
      PROVE  ConfigInv'
  <2> DEFINE next == [Idle EXCEPT !.step = "prune", !.keeps = keeps]
  <2>0. keeps \in SUBSET Nat
    BY <1>1 DEF Automatic, Snapshot
  <2>1. /\ next \in Job /\ next.step = "prune" /\ next.goal = "none" /\ next.batch = NoRows
        /\ next.read = NoRows /\ next.from = 0 /\ next.pre = 0 /\ next.crossed = {}
    BY <1>1, <2>0, ConstantTypes, IdleFields DEF Job
  <2>2. Calm(b, next)
    BY <1>5, <2>1, IdleFields DEF BeginPrune, Calm, At
  <2>3. taken' = taken /\ snaps' = snaps /\ spent' \in Nat
    BY <1>5, SpendsEffect DEF BeginPrune
  <2> HIDE DEF next
  <2> QED
    BY <1>1, <2>1, <2>2, <2>3, QuietStep
<1> QED
  BY <1>2, <1>3, <1>4, <1>5

LEMMA ReadStep ==
  ASSUME ConfigInv, NEW b \in Backend, Export(b) \/ ReadRows(b)
  PROVE  ConfigInv'
<1>1. stored \in Rows /\ spent \in Nat /\ job[b] \in Job
  BY DEF ConfigInv, ConfigTypeOK
<1>2. CASE Export(b)
  <2> DEFINE next == [job[b] EXCEPT !.step = "file", !.read = stored, !.crossed = {}]
  <2>1. /\ next \in Job /\ next.step = "file" /\ next.read = stored /\ next.crossed = {}
        /\ next.goal = job[b].goal /\ next.batch = job[b].batch
        /\ next.from = job[b].from /\ next.pre = job[b].pre
    BY <1>1 DEF Job
  <2>2. Calm(b, next)
    BY <1>2, <2>1 DEF Export, Calm, At
  <2> HIDE DEF next
  <2> QED
    BY <1>1, <1>2, <2>1, <2>2, QuietStep DEF Export
<1>3. CASE ReadRows(b)
  <2> DEFINE next == [job[b] EXCEPT !.step = "write", !.read = stored]
  <2>1. /\ next \in Job /\ next.step = "write" /\ next.read = stored
        /\ next.crossed = job[b].crossed
        /\ next.goal = job[b].goal /\ next.batch = job[b].batch
        /\ next.from = job[b].from /\ next.pre = job[b].pre
    BY <1>1 DEF Job
  <2>2. Calm(b, next)
    BY <1>3, <2>1 DEF ReadRows, Calm, At
  <2> HIDE DEF next
  <2> QED
    BY <1>1, <1>3, <2>1, <2>2, QuietStep DEF ReadRows, Restores
<1> QED
  BY <1>2, <1>3

LEMMA FileStep ==
  ASSUME ConfigInv, NEW b \in Backend, File(b)
  PROVE  ConfigInv'
<1> USE DEF Restores
<1>1. /\ stored \in Rows /\ taken \in Nat /\ job[b] \in Job /\ snaps \subseteq Snapshot
      /\ job \in [Backend -> Job] /\ At(b, "file")
  BY DEF File, ConfigInv, ConfigTypeOK
<1>2. PICK next \in Job :
        /\ Calm(b, next)
        /\ next.step \in {"idle", "ready", "load"}
        /\ \/ next.goal # "restore" /\ next.from = 0 /\ next.pre = 0
           \/ /\ next.goal = job[b].goal /\ next.batch = job[b].batch
              /\ next.from = job[b].from /\ next.crossed = job[b].crossed
              /\ next.goal = "restore" => next.pre = taken + 1
              /\ next.pre \in {job[b].pre, taken + 1}
  <2>1. CASE Proceeds(b, Idle)
    <3>1. Calm(b, Idle)
      BY <1>1, <2>1, ConstantTypes, IdleFields DEF Calm, File, At
    <3> QED
      BY <3>1, ConstantTypes, IdleFields
  <2>2. CASE /\ job[b].goal = "import"
             /\ Proceeds(b, [job[b] EXCEPT !.step = "ready", !.read = NoRows])
    <3> DEFINE next == [job[b] EXCEPT !.step = "ready", !.read = NoRows]
    <3>1. /\ next \in Job /\ next.step = "ready" /\ next.goal = job[b].goal
          /\ next.batch = job[b].batch /\ next.from = job[b].from
          /\ next.crossed = job[b].crossed /\ next.pre = job[b].pre
      BY <1>1, ConstantTypes DEF Job
    <3>2. Calm(b, next)
      BY <1>1, <2>2, <3>1 DEF Calm, File, At
    <3> HIDE DEF next
    <3> QED
      BY <2>2, <3>1, <3>2
  <2>3. CASE /\ job[b].goal = "restore"
             /\ Proceeds(b, [job[b] EXCEPT
                           !.step = IF job[b].batch = NoRows THEN "load" ELSE "ready",
                           !.read = NoRows, !.pre = taken + 1])
    <3> DEFINE step == IF job[b].batch = NoRows THEN "load" ELSE "ready"
               next == [job[b] EXCEPT !.step = step, !.read = NoRows, !.pre = taken + 1]
    <3>0. step \in {"ready", "load"} /\ taken + 1 \in Nat
      BY <1>1
    <3> HIDE DEF step
    <3>1. /\ next \in Job /\ next.step \in {"ready", "load"} /\ next.goal = job[b].goal
          /\ next.batch = job[b].batch /\ next.from = job[b].from
          /\ next.crossed = job[b].crossed /\ next.pre = taken + 1
      BY <1>1, <3>0, ConstantTypes DEF Job
    <3>2. Calm(b, next)
      BY <1>1, <2>3, <3>1 DEF Calm, File, At, step
    <3> HIDE DEF next
    <3> QED
      BY <2>3, <3>1, <3>2
  <2> QED
    BY <2>1, <2>2, <2>3 DEF File
<1>3. /\ job' \in [Backend -> Job]
      /\ job'[b] = next
      /\ \A c \in Backend \ {b} : job'[c] = job[c]
  BY <1>2, ProceedsEffect DEF Calm, ConfigInv
<1> DEFINE new == [id |-> taken + 1, rows |-> job[b].read, manual |-> job[b].goal = "manual"]
<1>4. /\ new \in Snapshot /\ new.id = taken + 1 /\ new.rows = job[b].read
      /\ snaps' = snaps \cup {new} /\ taken' = taken + 1 /\ spent' = spent
  BY <1>1 DEF File, Snapshot, Job
<1>5. UNCHANGED <<stored, cache, unaware, undo>>
  BY <1>2 DEF Calm
<1> HIDE DEF new
<1>6. ConfigTypeOK'
  BY <1>1, <1>3, <1>4, <1>5 DEF ConfigInv, ConfigTypeOK
<1>7. OwnWritesSeen' /\ CrossedInv'
  BY <1>2, CalmStep
<1>8. ReadInv'
  BY <1>2, <1>3, <1>5 DEF ConfigInv, ReadInv, At
<1>9. IdInv'
  <2>1. \A s \in snaps' : s.id <= taken'
    BY <1>1, <1>4 DEF ConfigInv, IdInv, Snapshot
  <2>2. \A c \in Backend : job'[c].from <= taken'
    BY <1>1, <1>2, <1>3, <1>4 DEF ConfigInv, IdInv, Job
  <2> QED
    BY <2>1, <2>2 DEF IdInv
<1>10. PreInv'
  <2>1. ASSUME NEW c \in Backend, Restores(c)', (At(c, "ready") \/ At(c, "write"))',
               job'[c].crossed = {}
        PROVE  /\ \A s \in snaps' : s.id = job'[c].pre => s.rows = stored'
               /\ \A d \in Backend :
                    Restores(d)' /\ job'[d].from = job'[c].pre => job'[d].batch = stored'
    <3>1. CASE c # b
      <4>1. job[c].pre <= taken /\ job[c].pre \in Nat
        BY <1>1 DEF ConfigInv, Job
      <4> QED
        BY <1>1, <1>2, <1>3, <1>4, <1>5, <2>1, <3>1, <4>1 DEF ConfigInv, PreInv, At
    <3>2. CASE c = b
      <4>1. job[b].crossed = {} /\ job'[b].pre = taken + 1
        BY <1>2, <1>3, <2>1, <3>2
      <4>2. job[b].read = stored
        BY <1>1, <4>1 DEF ConfigInv, ReadInv, Rows, Job
      <4>3. \A s \in snaps : s.id # taken + 1
        BY <1>1 DEF ConfigInv, IdInv, Snapshot
      <4>4. \A d \in Backend : job'[d].from # taken + 1
        BY <1>1, <1>2, <1>3 DEF ConfigInv, IdInv, Job
      <4> QED
        BY <1>4, <1>5, <3>2, <4>1, <4>2, <4>3, <4>4
    <3> QED
      BY <3>1, <3>2
  <2> QED
    BY <2>1 DEF PreInv
<1>11. UndoInv'
  <2>1. undo.pre <= taken /\ undo.pre \in Nat
    BY DEF ConfigInv, ConfigTypeOK
  <2>2. \A s \in snaps' : s.id = undo'.pre => s \in snaps
    BY <1>1, <1>4, <1>5, <2>1
  <2> QED
    BY <1>2, <1>3, <1>5, <2>2 DEF ConfigInv, UndoInv
<1>12. \A c \in Backend : undo'.pre <= taken' /\ job'[c].pre <= taken'
  BY <1>1, <1>2, <1>3, <1>4, <1>5 DEF ConfigInv, ConfigTypeOK, Job
<1> QED
  BY <1>6, <1>7, <1>8, <1>9, <1>10, <1>11, <1>12 DEF ConfigInv

\* What a restore or a set leaves alone, and what it sends.
LEMMA SetStep ==
  ASSUME ConfigInv, NEW b \in Backend, Write(b)
  PROVE  ConfigInv'
<1> DEFINE j == job[b]
           sent == {k \in Setting : j.batch[k] # Unset}
<1>1. /\ j \in Job /\ At(b, "write") /\ Lands(j) /\ Crosses(b, Idle, Changed(j))
      /\ undo' = NoUndo /\ UNCHANGED <<snaps, taken, spent>>
      /\ stored \in Rows /\ cache \in [Backend -> Rows]
      /\ unaware \in [Backend -> SUBSET Setting] /\ spent \in Nat
  BY DEF Write, ConfigInv, ConfigTypeOK
<1>2. /\ stored' \in Rows
      /\ Changed(j) \subseteq sent
      /\ \A k \in Changed(j) : stored'[k] = j.batch[k]
      /\ \A k \in Setting \ Changed(j) : stored'[k] = stored[k]
  BY <1>1, CommitEffect DEF ConfigInv, Changed
<1>3. Follows(b, Idle) /\ Idle.crossed = {} /\ Idle.step # "load"
  BY IdleFields DEF Follows
<1>4. \A k \in Setting \ unaware[b] : cache[b][k] = stored[k]
  BY <1>1 DEF ConfigInv, OwnWritesSeen, At
<1>5. CASE /\ Escapes(b, unaware[b] \cup Changed(j), Changed(j))
           /\ UNCHANGED cache
  <2> DEFINE own == unaware[b] \cup Changed(j)
  <2>1. own \in SUBSET Setting /\ Changed(j) \in SUBSET Setting
    BY <1>1, <1>2
  <2>2. \A k \in Setting \ own : cache'[b][k] = stored'[k]
    BY <1>2, <1>4, <1>5
  <2>3. /\ Escapes(b, own, Changed(j)) /\ Idle.crossed \subseteq own
        /\ cache' \in [Backend -> Rows]
        /\ \A c \in Backend \ {b} : cache'[c] = cache[c]
    BY <1>1, <1>3, <1>5
  <2>4. Idle \in Job /\ spent' \in Nat
    BY <1>1, ConstantTypes
  <2> HIDE DEF own
  <2> QED
    BY <1>1, <1>2, <1>3, <2>1, <2>2, <2>3, <2>4, LandingStep
<1>6. CASE /\ Escapes(b, unaware[b] \ (sent \ j.crossed), Changed(j))
           /\ cache' = [cache EXCEPT ![b] = Overlay(j.batch, @)]
  <2> DEFINE own == unaware[b] \ (sent \ j.crossed)
  <2>1. own \in SUBSET Setting /\ Changed(j) \in SUBSET Setting
    BY <1>1, <1>2
  <2>2. /\ cache' \in [Backend -> Rows]
        /\ cache'[b] = Overlay(j.batch, cache[b])
        /\ \A c \in Backend \ {b} : cache'[c] = cache[c]
    BY <1>1, <1>6, OverlayType DEF Job
  <2>3. \A k \in Setting \ own : cache'[b][k] = stored'[k]
    <3>1. ASSUME NEW k \in sent, k \notin j.crossed
          PROVE  cache'[b][k] = stored'[k]
      <4>1. cache'[b][k] = j.batch[k]
        BY <2>2, <3>1 DEF Overlay
      <4>2. j.read[k] = stored[k]
        BY <1>1, <3>1 DEF ConfigInv, ReadInv
      <4> QED
        BY <1>2, <3>1, <4>1, <4>2 DEF Changed
    <3>2. ASSUME NEW k \in Setting, k \notin sent, k \notin unaware[b]
          PROVE  cache'[b][k] = stored'[k]
      BY <1>2, <1>4, <2>2, <3>2 DEF Overlay
    <3>3. j.crossed \subseteq unaware[b]
      BY DEF ConfigInv, CrossedInv
    <3> QED
      BY <3>1, <3>2, <3>3
  <2>4. /\ Escapes(b, own, Changed(j)) /\ Idle.crossed \subseteq own
        /\ Idle \in Job /\ spent' \in Nat
    BY <1>1, <1>3, <1>6, ConstantTypes
  <2> HIDE DEF own
  <2> QED
    BY <1>1, <1>2, <1>3, <2>1, <2>2, <2>3, <2>4, LandingStep
<1> QED
  BY <1>5, <1>6 DEF Write

LEMMA RestoreStep ==
  ASSUME ConfigInv, NEW b \in Backend, Restore(b)
  PROVE  ConfigInv'
<1> DEFINE next == [job[b] EXCEPT !.step = "load", !.read = NoRows]
           keys == Changed(job[b])
<1>1. /\ job[b] \in Job /\ At(b, "write") /\ Restores(b) /\ Lands(job[b])
      /\ UNCHANGED <<cache, snaps, taken, spent>>
      /\ stored \in Rows /\ cache \in [Backend -> Rows]
      /\ unaware \in [Backend -> SUBSET Setting] /\ spent \in Nat
  BY DEF Restore, Restores, ConfigInv, ConfigTypeOK
<1>2. /\ stored' \in Rows /\ keys \in SUBSET Setting
      /\ \A k \in Setting \ keys : stored'[k] = stored[k]
  BY <1>1, CommitEffect DEF ConfigInv
<1>3. /\ next \in Job /\ next.step = "load" /\ next.goal = job[b].goal
      /\ next.batch = job[b].batch /\ next.from = job[b].from /\ next.pre = job[b].pre
      /\ next.crossed = job[b].crossed
  BY <1>1, ConstantTypes DEF Job
<1>4. /\ Crosses(b, next, keys) /\ Escapes(b, unaware[b], keys)
      /\ \/ undo' = NoUndo
         \/ undo' = [pre |-> job[b].pre, before |-> stored] /\ job[b].crossed = {}
  BY DEF Restore
<1> HIDE DEF next, keys
<1>5. Follows(b, next)
  BY <1>3 DEF Follows
<1>6. unaware[b] \in SUBSET Setting /\ next.crossed \subseteq unaware[b]
  BY <1>1, <1>3 DEF ConfigInv, CrossedInv
<1> QED
  BY <1>1, <1>2, <1>3, <1>4, <1>5, <1>6, LandingStep

LEMMA BesideStep ==
  ASSUME ConfigInv, NEW b \in Backend,
         WriteUnanswered(b) \/ \E k \in Setting : DeleteRow(b, k)
  PROVE  ConfigInv'
<1>1. /\ job[b] \in Job /\ stored \in Rows /\ cache \in [Backend -> Rows]
      /\ unaware \in [Backend -> SUBSET Setting]
  BY DEF ConfigInv, ConfigTypeOK
<1>2. PICK keys \in SUBSET Setting :
        /\ ~At(b, "load")
        /\ Spends /\ UNCHANGED <<cache, snaps, taken>> /\ undo' = NoUndo
        /\ Crosses(b, Idle, keys) /\ Escapes(b, unaware[b] \cup keys, keys)
        /\ stored' \in Rows /\ \A k \in Setting \ keys : stored'[k] = stored[k]
  <2>1. CASE WriteUnanswered(b)
    <3>1. /\ stored' \in Rows /\ Changed(job[b]) \in SUBSET Setting
          /\ \A k \in Setting \ Changed(job[b]) : stored'[k] = stored[k]
      BY <2>1, CommitEffect DEF WriteUnanswered, ConfigInv
    <3> QED
      BY <2>1, <3>1 DEF WriteUnanswered, At
  <2>2. ASSUME NEW k \in Setting, DeleteRow(b, k)
        PROVE  \E keys \in SUBSET Setting :
                 /\ ~At(b, "load")
                 /\ Spends /\ UNCHANGED <<cache, snaps, taken>> /\ undo' = NoUndo
                 /\ Crosses(b, Idle, keys) /\ Escapes(b, unaware[b] \cup keys, keys)
                 /\ stored' \in Rows /\ \A i \in Setting \ keys : stored'[i] = stored[i]
    <3>1. stored' \in Rows /\ \A i \in Setting \ {k} : stored'[i] = stored[i]
      BY <1>1, <2>2 DEF DeleteRow, Rows
    <3>2. {k} \in SUBSET Setting
      OBVIOUS
    <3> QED
      BY <2>2, <3>1, <3>2 DEF DeleteRow, At
  <2> QED
    BY <2>1, <2>2
<1>3. \A k \in Setting \ (unaware[b] \cup keys) : cache'[b][k] = stored'[k]
  BY <1>2 DEF ConfigInv, OwnWritesSeen
<1>4. spent' \in Nat
  BY <1>2, SpendsEffect
<1>5. unaware[b] \cup keys \in SUBSET Setting
  BY <1>1
<1>6. Follows(b, Idle) /\ Idle \in Job /\ Idle.crossed = {}
  BY ConstantTypes, IdleFields DEF Follows
<1>7. cache' \in [Backend -> Rows] /\ \A c \in Backend \ {b} : cache'[c] = cache[c]
  BY <1>1, <1>2
<1> QED
  BY <1>2, <1>3, <1>4, <1>5, <1>6, <1>7, LandingStep

LEMMA EndStep ==
  ASSUME ConfigInv, NEW b \in Backend,
         Load(b) \/ Restart(b) \/ Fails(b) \/ GivesUp(b) \/ Prune(b)
  PROVE  ConfigInv'
<1>1. spent \in Nat
  BY DEF ConfigInv, ConfigTypeOK
<1>2. CASE Load(b)
  BY <1>1, <1>2, ResetStep DEF Load
<1>3. CASE Restart(b)
  BY <1>3, SpendsEffect, ResetStep DEF Restart
<1>4. CASE Fails(b)
  <2>1. spent' \in Nat
    BY <1>4, SpendsEffect DEF Fails
  <2>2. CASE At(b, "load")
    BY <1>4, <2>1, <2>2, ResetStep DEF Fails
  <2>3. CASE ~At(b, "load")
    BY <1>4, <2>1, <2>3, LeavesQuietly DEF Fails
  <2> QED
    BY <2>2, <2>3
<1>5. CASE GivesUp(b)
  BY <1>1, <1>5, LeavesQuietly DEF GivesUp, At
<1>6. CASE Prune(b)
  <2>1. snaps' \subseteq snaps
    BY <1>6 DEF Prune
  <2> QED
    BY <1>1, <1>6, <2>1, LeavesQuietly DEF Prune, At
<1> QED
  BY <1>2, <1>3, <1>4, <1>5, <1>6

LEMMA DeletionStep ==
  ASSUME ConfigInv, NEW s \in snaps, DeleteSnapshot(s)
  PROVE  ConfigInv'
<1>1. /\ snaps' \subseteq snaps /\ UNCHANGED <<stored, cache, taken, job, unaware, undo>>
      /\ spent' \in Nat
  BY SpendsEffect DEF DeleteSnapshot
<1> QED
  BY <1>1 DEF ConfigInv, ConfigTypeOK, OwnWritesSeen, CrossedInv, ReadInv, IdInv, PreInv,
              UndoInv, Restores, At

LEMMA StutterStep == ConfigInv /\ UNCHANGED configVars => ConfigInv'
BY DEF configVars, ConfigInv, ConfigTypeOK, OwnWritesSeen, CrossedInv, ReadInv, IdInv, PreInv,
       UndoInv, Restores, At

-----------------------------------------------------------------------------
(* Theorems *)

LEMMA ConfigInitInv == ConfigInit => ConfigInv
<1> SUFFICES ASSUME ConfigInit PROVE ConfigInv
  OBVIOUS
<1>1. PICK rows \in Rows : snaps = {[id |-> 1, rows |-> rows, manual |-> TRUE]}
  BY DEF ConfigInit
<1>2. \A s \in snaps : s.id = 1 /\ s.rows = rows
  BY <1>1
<1>3. snaps \subseteq Snapshot
  BY <1>1 DEF Snapshot
<1>4. /\ stored \in Rows /\ taken = 1 /\ job = [b \in Backend |-> Idle] /\ spent = 0
      /\ cache = [b \in Backend |-> stored] /\ unaware = [b \in Backend |-> {}]
      /\ undo = NoUndo
  BY DEF ConfigInit
<1>5. undo.pre = 0 /\ undo \in [pre : Nat, before : Rows]
  BY <1>4, ConstantTypes DEF NoUndo
<1>6. ConfigTypeOK
  BY <1>3, <1>4, <1>5, ConstantTypes DEF ConfigTypeOK
<1>7. \A b \in Backend : job[b] = Idle /\ cache[b] = stored /\ unaware[b] = {}
  BY <1>4
<1> QED
  BY <1>2, <1>4, <1>5, <1>6, <1>7, IdleFields
     DEF ConfigInv, OwnWritesSeen, CrossedInv, ReadInv, IdInv, PreInv, UndoInv, Restores, At

LEMMA ConfigStep == ConfigInv /\ [ConfigNext]_configVars => ConfigInv'
<1> SUFFICES ASSUME ConfigInv, ConfigNext \/ UNCHANGED configVars
             PROVE  ConfigInv'
  BY DEF configVars
<1>1. CASE UNCHANGED configVars
  BY <1>1, StutterStep
<1>2. CASE \E s \in snaps : DeleteSnapshot(s)
  BY <1>2, DeletionStep
<1>3. ASSUME NEW b \in Backend,
             \/ \E batch \in Rows \ {NoRows} :
                  BeginSet(b, "set", batch) \/ BeginSnapshot(b, "import", batch)
             \/ \E k \in Setting, v \in Value : BeginSet(b, "raw", [NoRows EXCEPT ![k] = v])
             \/ BeginSnapshot(b, "manual", NoRows)
             \/ \E s \in snaps : BeginRestore(b, s)
             \/ \E keeps \in SUBSET Automatic : Newest(keeps) /\ BeginPrune(b, keeps)
      PROVE  ConfigInv'
  BY <1>3, BeginStep, ConstantTypes, OneRow
<1>4. ASSUME NEW b \in Backend,
             \/ Export(b) \/ File(b) \/ ReadRows(b) \/ Write(b) \/ Restore(b) \/ Load(b)
             \/ Prune(b) \/ GivesUp(b) \/ Fails(b) \/ WriteUnanswered(b) \/ Restart(b)
             \/ \E k \in Setting : DeleteRow(b, k)
      PROVE  ConfigInv'
  BY <1>4, ReadStep, FileStep, SetStep, RestoreStep, BesideStep, EndStep
<1> QED
  BY <1>1, <1>2, <1>3, <1>4 DEF ConfigNext

\* Every reachable state of the settings is well typed.
THEOREM ConfigTypeCorrect == ConfigSpec => []ConfigTypeOK
<1>1. ConfigInv => ConfigTypeOK
  BY DEF ConfigInv
<1> QED
  BY <1>1, ConfigInitInv, ConfigStep, PTL DEF ConfigSpec

\* Each process has in its cache what is stored, apart from what was written
\* without it.
THEOREM OwnWritesSeenCorrect == ConfigSpec => []OwnWritesSeen
<1>1. ConfigInv => OwnWritesSeen
  BY DEF ConfigInv
<1> QED
  BY <1>1, ConfigInitInv, ConfigStep, PTL DEF ConfigSpec

\* A handler comes to load the table when it has written it, or has nothing to
\* write.
LEMMA ComesToLoad ==
  ASSUME ConfigInv, ConfigNext, NEW b \in Backend, ~At(b, "load"), job'[b].step = "load"
  PROVE  Restore(b) \/ (File(b) /\ job[b].batch = NoRows)
<1>1. job \in [Backend -> Job] /\ job[b] \in Job
  BY DEF ConfigInv, ConfigTypeOK
<1>2. ASSUME NEW c \in Backend, NEW next, Proceeds(c, next)
      PROVE  c = b /\ next.step = "load"
  BY <1>1, <1>2 DEF Proceeds, At
<1>3. ASSUME NEW c \in Backend, NEW next, NEW keys, Crosses(c, next, keys)
      PROVE  c = b /\ next.step = "load"
  <2>1. CASE c = b
    BY <1>3, <2>1 DEF Crosses
  <2>2. CASE c # b
    <3>1. job'[b] = IF job[b] = Idle THEN Idle ELSE [job[b] EXCEPT !.crossed = @ \cup keys]
      BY <1>3, <2>2 DEF Crosses
    <3>2. job'[b].step = job[b].step
      BY <1>1, <3>1 DEF Job
    <3> QED
      BY <3>2 DEF At
  <2> QED
    BY <2>1, <2>2
<1>4. Idle.step # "load"
  BY IdleFields
<1>5. ASSUME NEW c \in Backend,
             \/ Load(c) \/ Prune(c) \/ GivesUp(c) \/ Fails(c) \/ Restart(c)
             \/ Write(c) \/ WriteUnanswered(c) \/ \E k \in Setting : DeleteRow(c, k)
      PROVE  FALSE
  BY <1>2, <1>3, <1>4, <1>5
     DEF Load, Prune, GivesUp, Fails, Restart, Write, WriteUnanswered, DeleteRow
<1>6. ASSUME NEW c \in Backend, Export(c) \/ ReadRows(c)
      PROVE  FALSE
  <2>1. job[c] \in Job
    BY <1>1
  <2>2. CASE Export(c)
    <3> DEFINE next == [job[c] EXCEPT !.step = "file", !.read = stored, !.crossed = {}]
    <3>1. next.step = "file"
      BY <2>1 DEF Job
    <3>2. Proceeds(c, next)
      BY <2>2 DEF Export
    <3> HIDE DEF next
    <3> QED
      BY <1>2, <3>1, <3>2
  <2>3. CASE ReadRows(c)
    <3> DEFINE next == [job[c] EXCEPT !.step = "write", !.read = stored]
    <3>1. next.step = "write"
      BY <2>1 DEF Job
    <3>2. Proceeds(c, next)
      BY <2>3 DEF ReadRows
    <3> HIDE DEF next
    <3> QED
      BY <1>2, <3>1, <3>2
  <2> QED
    BY <1>6, <2>2, <2>3
<1>7. ASSUME NEW c \in Backend,
             \/ \E batch \in Rows, goal \in {"set", "raw"} : BeginSet(c, goal, batch)
             \/ \E batch \in Rows, goal \in {"manual", "import"} : BeginSnapshot(c, goal, batch)
             \/ \E s \in snaps : BeginRestore(c, s)
             \/ \E keeps \in SUBSET Automatic : BeginPrune(c, keeps)
      PROVE  FALSE
  <2>1. ASSUME NEW batch, NEW goal, BeginSet(c, goal, batch) PROVE FALSE
    <3> DEFINE next == [Idle EXCEPT !.step = "write", !.goal = goal, !.batch = batch,
                                    !.read = stored]
    <3>1. next.step = "write"
      BY DEF Idle
    <3>2. Proceeds(c, next)
      BY <2>1 DEF BeginSet
    <3> HIDE DEF next
    <3> QED
      BY <1>2, <3>1, <3>2
  <2>2. ASSUME NEW batch, NEW goal, BeginSnapshot(c, goal, batch) PROVE FALSE
    <3> DEFINE next == [Idle EXCEPT !.step = "file", !.goal = goal, !.batch = batch,
                                    !.read = stored]
    <3>1. next.step = "file"
      BY DEF Idle
    <3>2. Proceeds(c, next)
      BY <2>2 DEF BeginSnapshot
    <3> HIDE DEF next
    <3> QED
      BY <1>2, <3>1, <3>2
  <2>3. ASSUME NEW s, BeginRestore(c, s) PROVE FALSE
    <3> DEFINE next == [Idle EXCEPT !.step = "export", !.goal = "restore",
                                    !.batch = s.rows, !.from = s.id]
    <3>1. next.step = "export"
      BY DEF Idle
    <3>2. Proceeds(c, next)
      BY <2>3 DEF BeginRestore
    <3> HIDE DEF next
    <3> QED
      BY <1>2, <3>1, <3>2
  <2>4. ASSUME NEW keeps, BeginPrune(c, keeps) PROVE FALSE
    <3> DEFINE next == [Idle EXCEPT !.step = "prune", !.keeps = keeps]
    <3>1. next.step = "prune"
      BY DEF Idle
    <3>2. Proceeds(c, next)
      BY <2>4 DEF BeginPrune
    <3> HIDE DEF next
    <3> QED
      BY <1>2, <3>1, <3>2
  <2> QED
    BY <1>7, <2>1, <2>2, <2>3, <2>4
<1>8. ASSUME NEW s \in snaps, DeleteSnapshot(s)
      PROVE  FALSE
  BY <1>8 DEF DeleteSnapshot, At
<1>9. ASSUME NEW c \in Backend, Restore(c)
      PROVE  Restore(b)
  BY <1>3, <1>9 DEF Restore
<1>10. ASSUME NEW c \in Backend, File(c)
       PROVE  File(b) /\ job[b].batch = NoRows
  <2>1. c = b
    BY <1>2, <1>10 DEF File
  <2>2. CASE Proceeds(b, Idle)
    BY <1>2, <1>4, <2>2
  <2>3. CASE Proceeds(b, [job[b] EXCEPT !.step = "ready", !.read = NoRows])
    <3> DEFINE next == [job[b] EXCEPT !.step = "ready", !.read = NoRows]
    <3>1. next.step = "ready"
      BY <1>1 DEF Job
    <3>2. Proceeds(b, next)
      BY <2>3
    <3> HIDE DEF next
    <3> QED
      BY <1>2, <3>1, <3>2
  <2>4. CASE Proceeds(b, [job[b] EXCEPT
                        !.step = IF job[b].batch = NoRows THEN "load" ELSE "ready",
                        !.read = NoRows, !.pre = taken + 1])
    <3> DEFINE step == IF job[b].batch = NoRows THEN "load" ELSE "ready"
               next == [job[b] EXCEPT !.step = step, !.read = NoRows, !.pre = taken + 1]
    <3>1. next.step = "load"
      <4>1. Proceeds(b, next)
        BY <2>4
      <4> HIDE DEF next
      <4> QED
        BY <1>2, <4>1
    <3>2. next.step = step
      <4> HIDE DEF step
      <4> QED
        BY <1>1 DEF Job
    <3> QED
      BY <1>10, <2>1, <3>1, <3>2
  <2> QED
    BY <1>10, <2>1, <2>2, <2>3, <2>4 DEF File
<1> QED
  BY <1>5, <1>6, <1>7, <1>8, <1>9, <1>10, ConstantTypes, OneRow DEF ConfigNext

\* A restore of what it rolled back writes the values that were rolled back.
LEMMA UndoStep ==
  ASSUME ConfigInv, ConfigNext, NEW b \in Backend, Undoes(b),
         NEW k \in Setting, undo.before[k] # Unset
  PROVE  stored'[k] = undo.before[k]
<1>1. /\ job[b].goal = "restore" /\ job[b].crossed = {} /\ job[b].batch = undo.before
      /\ job[b] \in Job /\ ~At(b, "load") /\ job'[b].step = "load"
  BY DEF Undoes, ConfigInv, ConfigTypeOK, UndoInv, Restores
<1>2. job[b].batch # NoRows
  BY <1>1 DEF NoRows
<1>3. Restore(b)
  BY <1>1, <1>2, ComesToLoad
<1>4. Lands(job[b])
  BY <1>3 DEF Restore
<1>5. job[b].read[k] = stored[k]
  BY <1>1, <1>3 DEF Restore, ConfigInv, ReadInv
<1> QED
  BY <1>1, <1>4, <1>5, CommitEffect DEF ConfigInv, Changed

\* A rollback that nobody crossed is undone by its pre-rollback snapshot: every
\* setting that had a row has its value again.
THEOREM RollbackReversibleCorrect == ConfigSpec => RollbackReversible
<1> DEFINE Restored ==
      \A b \in Backend : Undoes(b) =>
        \A k \in Setting : undo.before[k] # Unset => stored'[k] = undo.before[k]
<1>1. ConfigInv /\ [ConfigNext]_configVars => [Restored]_configVars
  BY UndoStep
<1> QED
  BY <1>1, ConfigInitInv, ConfigStep, PTL DEF ConfigSpec, RollbackReversible
=============================================================================
