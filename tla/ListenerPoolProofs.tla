------------------------- MODULE ListenerPoolProofs -------------------------
(***************************************************************************)
(* Proofs about ListenerPool for every value of its constants.             *)
(***************************************************************************)
EXTENDS ListenerPool, FiniteSetTheorems, TLAPS

USE DEF At, Goto

-----------------------------------------------------------------------------
(* What the helpers of the specification do to the types *)

LEMMA Ranges ==
  /\ 0 \in Lease /\ LeaseTTL \in Lease /\ \A l \in Lease : Shorter(l) \in Lease
  /\ 0 \in Age /\ \A a \in Age : Older(a) \in Age
BY PoolAssumption DEF Age, Lease, Older, Shorter

LEMMA BecomeType ==
  ASSUME TypeOK, NEW p \in Worker, NEW r \in Proc, Become(p, r)
  PROVE  proc' \in [Worker -> Proc]
BY DEF TypeOK, Become

LEMMA MemoryType ==
  ASSUME TypeOK, NEW p \in Worker
  PROVE  proc[p] \in Proc /\ KeyOf[p] \in Key /\ row[KeyOf[p]] \in Row
BY PoolAssumption DEF TypeOK

LEMMA NoProcType == NoProc \in Proc
BY DEF NoProc, Proc, Phase

LEMMA ReleaseAllType ==
  ASSUME TypeOK, NEW K, ReleaseAll(K)
  PROVE  sub' \in [Handle -> Sub]
BY PoolAssumption, Ranges DEF ReleaseAll, TypeOK, Sub

LEMMA ReapType ==
  ASSUME TypeOK, NEW K, Reap(K)
  PROVE  row' \in [Key -> Row] /\ sub' \in [Handle -> Sub]
BY ReleaseAllType DEF Reap, TypeOK, Row

LEMMA ReleaseMineType ==
  ASSUME TypeOK, NEW k \in Key, NEW h \in Handle, ReleaseMine(k, h)
  PROVE  sub' \in [Handle -> Sub]
BY PoolAssumption, Ranges DEF ReleaseMine, TypeOK, Sub

LEMMA ClaimType ==
  ASSUME TypeOK, NEW k \in Key, NEW S, Claim(k, S)
  PROVE  sub' \in [Handle -> Sub]
BY PoolAssumption, Ranges DEF Claim, TypeOK, Sub

-----------------------------------------------------------------------------
(* Type correctness *)

LEMMA InitTypeOK == Init => TypeOK
<1> SUFFICES ASSUME Init PROVE TypeOK
  OBVIOUS
<1>1. row \in [Key -> Row]
  BY Ranges DEF Init, Row
<1>2. \A b \in BOOLEAN : [NoSub EXCEPT !.st = "on", !.live = b] \in Sub
  BY Ranges DEF NoSub, Sub
<1>3. sub \in [Handle -> Sub]
  BY <1>2 DEF Init
<1> QED BY <1>1, <1>3, NoProcType DEF Init, TypeOK

LEMMA RegisterTypeOK ==
  ASSUME TypeOK, NEW p \in Worker,
         \/ Boot(p)
         \/ RegisterConflict(p)
         \/ RegisterCheck(p)
         \/ RegisterWrite(p)
         \/ RegisterRefused(p)
  PROVE  TypeOK'
<1>1. CASE Boot(p)
  <2>1. [NoProc EXCEPT !.pc = "reap"] \in Proc
    BY MemoryType DEF Proc, Phase, NoProc
  <2> QED BY <1>1, <2>1, BecomeType DEF Boot, TypeOK
<1>2. CASE RegisterConflict(p)
  BY <1>2, NoProcType, BecomeType DEF RegisterConflict, TypeOK
<1>3. CASE RegisterCheck(p)
  <2>1. [proc[p] EXCEPT !.pc = IF row[KeyOf[p]].status = "absent" THEN "insert" ELSE "takeover"] \in Proc
    BY MemoryType DEF Proc, Phase
  <2> QED BY <1>3, <2>1, BecomeType DEF RegisterCheck, TypeOK
<1>4. CASE RegisterWrite(p)
  <2>1. [proc[p] EXCEPT !.pc = "extend"] \in Proc
    BY MemoryType DEF Proc, Phase
  <2>2. row' \in [Key -> Row]
    BY <1>4, MemoryType, Ranges DEF RegisterWrite, NewRow, TypeOK, Row
  <2> QED BY <1>4, <2>1, <2>2, BecomeType DEF RegisterWrite, TypeOK
<1>5. CASE RegisterRefused(p)
  BY <1>5, NoProcType, BecomeType DEF RegisterRefused, TypeOK
<1> QED BY <1>1, <1>2, <1>3, <1>4, <1>5

LEMMA OrderTypeOK ==
  ASSUME TypeOK, NEW p \in Worker,
         \/ OrdersPause(p)
         \/ OrdersResume(p)
         \/ OrdersOther(p)
         \/ KillCommand(p)
         \/ ReclaimAll(p)
         \/ OrdersDone(p)
         \/ \E h \in Handle : PauseStop(p, h)
  PROVE  TypeOK'
<1>1. CASE OrdersPause(p)
  <2>1. [proc[p] EXCEPT !.paused = TRUE, !.cmd = row[KeyOf[p]].kill, !.todo = proc[p].sessions, !.pc = "pausing"] \in Proc
    BY MemoryType DEF Proc, Phase, Row
  <2> QED BY <1>1, <2>1, BecomeType DEF OrdersPause, TypeOK
<1>2. CASE OrdersResume(p)
  <2>1. [proc[p] EXCEPT !.paused = FALSE, !.cmd = row[KeyOf[p]].kill, !.pc = "reclaim"] \in Proc
    BY MemoryType DEF Proc, Phase, Row
  <2> QED BY <1>2, <2>1, BecomeType DEF OrdersResume, TypeOK
<1>3. CASE OrdersOther(p)
  <2> DEFINE stop == proc[p].stopReq \/ row[KeyOf[p]].desired = "stopped"
             kill == row[KeyOf[p]].kill
  <2>1. stop \in BOOLEAN /\ kill \in BOOLEAN /\ AfterOrders(kill) \in Phase
    BY MemoryType DEF Proc, Row, Phase, AfterOrders
  <2>2. [proc[p] EXCEPT !.stopReq = stop, !.cmd = kill, !.pc = AfterOrders(kill)] \in Proc
    <3> HIDE DEF stop, kill
    <3> QED BY <2>1, MemoryType DEF Proc
  <2> QED BY <1>3, <2>2, BecomeType DEF OrdersOther, TypeOK
<1>4. CASE KillCommand(p)
  <2>1. [proc[p] EXCEPT !.stopReq = TRUE, !.cmd = FALSE, !.pc = "extend"] \in Proc
    BY MemoryType DEF Proc, Phase
  <2>2. row' \in [Key -> Row]
    BY <1>4, MemoryType, Ranges DEF KillCommand, TypeOK, Row
  <2> QED BY <1>4, <2>1, <2>2, BecomeType DEF KillCommand, TypeOK
<1>5. CASE ReclaimAll(p)
  <2>1. PICK S \in SUBSET Handle : Claim(KeyOf[p], S) /\ Become(p, [proc[p] EXCEPT !.todo = S, !.pc = "resuming"])
    BY <1>5 DEF ReclaimAll
  <2>2. [proc[p] EXCEPT !.todo = S, !.pc = "resuming"] \in Proc
    BY MemoryType DEF Proc, Phase
  <2>3. sub' \in [Handle -> Sub]
    BY <2>1, MemoryType, ClaimType
  <2> QED BY <1>5, <2>1, <2>2, <2>3, BecomeType DEF ReclaimAll, TypeOK
<1>6. CASE OrdersDone(p)
  <2>1. [proc[p] EXCEPT !.pc = AfterOrders(proc[p].cmd)] \in Proc
    BY MemoryType DEF Proc, Phase, AfterOrders
  <2> QED BY <1>6, <2>1, BecomeType DEF OrdersDone, TypeOK
<1>7. ASSUME NEW h \in Handle, PauseStop(p, h) PROVE TypeOK'
  <2>1. [proc[p] EXCEPT !.todo = @ \ {h}, !.sessions = @ \ {h}, !.up = @ \ {h}] \in Proc
    BY MemoryType DEF Proc, Phase
  <2> QED BY <1>7, <2>1, BecomeType DEF PauseStop, StopOne, TypeOK
<1> QED BY <1>1, <1>2, <1>3, <1>4, <1>5, <1>6, <1>7

LEMMA PassTypeOK ==
  ASSUME TypeOK, NEW p \in Worker,
         \/ ReapSelect(p)
         \/ ReapCommit(p)
         \/ ExtendSelect(p)
         \/ ExtendUpdate(p)
         \/ View(p)
         \/ RecycleDone(p)
         \/ ClaimMore(p)
         \/ EndPass(p)
         \/ NextPass(p)
         \/ \E h \in Handle : DropLost(p, h)
         \/ \E h \in Handle : ReleaseDisabled(p, h)
         \/ \E h \in Handle : Recycle(p, h)
         \/ \E h \in Handle : StartSession(p, h)
  PROVE  TypeOK'
<1>1. CASE ReapSelect(p)
  <2>1. [proc[p] EXCEPT !.victims = StaleRows, !.pc = IF StaleRows = {} THEN AfterReap(p) ELSE "reaping"] \in Proc
    BY MemoryType DEF Proc, Phase, AfterReap, StaleRows
  <2> QED BY <1>1, <2>1, BecomeType DEF ReapSelect, TypeOK
<1>2. CASE ReapCommit(p)
  <2>1. [proc[p] EXCEPT !.victims = {}, !.pc = AfterReap(p)] \in Proc
    BY MemoryType DEF Proc, Phase, AfterReap
  <2>2. row' \in [Key -> Row] /\ sub' \in [Handle -> Sub]
    BY <1>2, ReapType DEF ReapCommit
  <2> QED BY <1>2, <2>1, <2>2, BecomeType DEF ReapCommit, TypeOK
<1>3. CASE ExtendSelect(p)
  <2>1. [proc[p] EXCEPT !.mine = EnabledOwned(KeyOf[p]), !.pc = "bump"] \in Proc
    BY MemoryType DEF Proc, Phase, EnabledOwned, Owned
  <2> QED BY <1>3, <2>1, BecomeType DEF ExtendSelect, TypeOK
<1>4. CASE ExtendUpdate(p)
  <2>1. [proc[p] EXCEPT !.todo = proc[p].sessions \ proc[p].mine, !.pc = "lost"] \in Proc
    BY MemoryType DEF Proc, Phase
  <2>2. sub' \in [Handle -> Sub]
    BY <1>4, Ranges DEF ExtendUpdate, TypeOK, Sub
  <2> QED BY <1>4, <2>1, <2>2, BecomeType DEF ExtendUpdate, TypeOK
<1>5. CASE View(p)
  <2>1. [proc[p] EXCEPT !.todo = {h \in proc[p].mine : sub[h].st # "on"}, !.pc = "trim"] \in Proc
    BY MemoryType DEF Proc, Phase
  <2> QED BY <1>5, <2>1, BecomeType DEF View, TypeOK
<1>6. CASE RecycleDone(p)
  <2>1. [proc[p] EXCEPT !.todo = proc[p].mine \ proc[p].sessions, !.pc = "resume"] \in Proc
    BY MemoryType DEF Proc, Phase
  <2> QED BY <1>6, <2>1, BecomeType DEF RecycleDone, TypeOK
<1>7. CASE ClaimMore(p)
  <2>1. PICK S \in SUBSET Handle : Claim(KeyOf[p], S) /\ Become(p, [proc[p] EXCEPT !.todo = S, !.pc = "start"])
    BY <1>7 DEF ClaimMore
  <2>2. [proc[p] EXCEPT !.todo = S, !.pc = "start"] \in Proc
    BY MemoryType DEF Proc, Phase
  <2>3. sub' \in [Handle -> Sub]
    BY <2>1, MemoryType, ClaimType
  <2> QED BY <1>7, <2>1, <2>2, <2>3, BecomeType DEF ClaimMore, TypeOK
<1>8. CASE EndPass(p)
  <2>1. [proc[p] EXCEPT !.mine = {}, !.loop = TRUE, !.pc = "idle"] \in Proc
    BY MemoryType DEF Proc, Phase
  <2> QED BY <1>8, <2>1, BecomeType DEF EndPass, TypeOK
<1>9. CASE NextPass(p)
  <2>1. [proc[p] EXCEPT !.pc = "reap"] \in Proc
    BY MemoryType DEF Proc, Phase
  <2> QED BY <1>9, <2>1, BecomeType DEF NextPass, TypeOK
<1>10. ASSUME NEW h \in Handle, DropLost(p, h) PROVE TypeOK'
  <2>1. [proc[p] EXCEPT !.todo = @ \ {h}, !.sessions = @ \ {h}, !.up = @ \ {h}] \in Proc
    BY MemoryType DEF Proc, Phase
  <2> QED BY <1>10, <2>1, BecomeType DEF DropLost, StopOne, TypeOK
<1>11. ASSUME NEW h \in Handle, ReleaseDisabled(p, h) PROVE TypeOK'
  <2>1. [proc[p] EXCEPT !.todo = @ \ {h}, !.mine = @ \ {h}, !.sessions = @ \ {h}, !.up = @ \ {h}] \in Proc
    BY MemoryType DEF Proc
  <2>2. sub' \in [Handle -> Sub]
    BY <1>11, MemoryType, ReleaseMineType DEF ReleaseDisabled, GiveUp
  <2> QED BY <1>11, <2>1, <2>2, BecomeType DEF ReleaseDisabled, GiveUp, TypeOK
<1>12. ASSUME NEW h \in Handle, Recycle(p, h) PROVE TypeOK'
  <2>1. [proc[p] EXCEPT !.todo = @ \ {h}, !.mine = @ \ {h}, !.sessions = @ \ {h}, !.up = @ \ {h}] \in Proc
    BY MemoryType DEF Proc
  <2>2. sub' \in [Handle -> Sub]
    BY <1>12, MemoryType, ReleaseMineType DEF Recycle, GiveUp
  <2> QED BY <1>12, <2>1, <2>2, BecomeType DEF Recycle, GiveUp, TypeOK
<1>13. ASSUME NEW h \in Handle, StartSession(p, h) PROVE TypeOK'
  <2>1. [proc[p] EXCEPT !.todo = @ \ {h}, !.sessions = @ \cup {h}] \in Proc
    BY MemoryType DEF Proc, Phase
  <2> QED BY <1>13, <2>1, BecomeType DEF StartSession, TypeOK
<1> QED BY <1>1, <1>2, <1>3, <1>4, <1>5, <1>6, <1>7, <1>8, <1>9, <1>10, <1>11, <1>12, <1>13

LEMMA ProcessTypeOK ==
  ASSUME TypeOK, NEW p \in Worker,
         \/ ExtendFails(p)
         \/ PassFails(p)
         \/ Crash(p)
         \/ HeartbeatBegin(p)
         \/ HeartbeatCommit(p)
         \/ Shutdown(p)
         \/ MarkStopped(p)
  PROVE  TypeOK'
<1>1. CASE ExtendFails(p)
  <2>1. [proc[p] EXCEPT !.mine = proc[p].sessions, !.todo = {}, !.pc = "lost"] \in Proc
    BY MemoryType DEF Proc, Phase
  <2> QED BY <1>1, <2>1, BecomeType DEF ExtendFails, TypeOK
<1>2. CASE PassFails(p)
  <2>1. [proc[p] EXCEPT !.mine = {}, !.pc = "idle"] \in Proc
    BY MemoryType DEF Proc, Phase
  <2>2. CASE proc[p].loop
    BY <1>2, <2>1, <2>2, BecomeType DEF PassFails, TypeOK
  <2>3. CASE ~proc[p].loop
    BY <1>2, <2>3, NoProcType, BecomeType DEF PassFails, TypeOK
  <2> QED BY <2>2, <2>3
<1>3. CASE Crash(p)
  BY <1>3, NoProcType, BecomeType DEF Crash, TypeOK
<1>4. CASE HeartbeatBegin(p)
  <2>1. [proc[p] EXCEPT !.hb = IF proc[p].paused THEN "paused" ELSE "running"] \in Proc
    BY MemoryType DEF Proc, Phase
  <2> QED BY <1>4, <2>1, BecomeType DEF HeartbeatBegin, TypeOK
<1>5. CASE HeartbeatCommit(p)
  <2>1. [proc[p] EXCEPT !.hb = "none"] \in Proc
    BY MemoryType DEF Proc, Phase
  <2>2. PICK status \in {"running", "paused"} : status = proc[p].hb
    BY <1>5, MemoryType DEF HeartbeatCommit, Proc
  <2>3. [row[KeyOf[p]] EXCEPT !.status = status, !.age = 0] \in Row
    BY MemoryType, Ranges DEF Row
  <2>4. row' = [row EXCEPT ![KeyOf[p]] = [@ EXCEPT !.status = status, !.age = 0]]
    BY <1>5, <2>2 DEF HeartbeatCommit
  <2> QED BY <1>5, <2>1, <2>3, <2>4, BecomeType, MemoryType DEF HeartbeatCommit, TypeOK
<1>6. CASE Shutdown(p)
  <2>1. [proc[p] EXCEPT !.sessions = {}, !.up = {}, !.mine = {}, !.todo = {}, !.pc = "stopping"] \in Proc
    BY MemoryType DEF Proc, Phase
  <2> QED BY <1>6, <2>1, BecomeType DEF Shutdown, TypeOK
<1>7. CASE MarkStopped(p)
  <2>1. [NoProc EXCEPT !.hb = proc[p].hb] \in Proc
    BY MemoryType DEF Proc, Phase, NoProc
  <2>2. row' \in [Key -> Row] /\ sub' \in [Handle -> Sub]
    BY <1>7, MemoryType, ReleaseAllType DEF MarkStopped, TypeOK, Row
  <2> QED BY <1>7, <2>1, <2>2, BecomeType DEF MarkStopped, TypeOK
<1> QED BY <1>1, <1>2, <1>3, <1>4, <1>5, <1>6, <1>7

LEMMA FailureTypeOK ==
  ASSUME TypeOK, NEW p \in Worker,
         \/ ReapFails(p)
         \/ OrdersFail(p)
         \/ ClaimFails(p)
         \/ \E h \in Handle : ReleaseFails(p, h)
  PROVE  TypeOK'
<1>1. CASE ReapFails(p)
  <2>1. [proc[p] EXCEPT !.pc = AfterReap(p)] \in Proc
    BY MemoryType DEF Proc, Phase, AfterReap
  <2> QED BY <1>1, <2>1, BecomeType DEF ReapFails, TypeOK
<1>2. CASE OrdersFail(p)
  <2>1. [proc[p] EXCEPT !.cmd = FALSE, !.pc = "extend"] \in Proc
    BY MemoryType DEF Proc, Phase
  <2> QED BY <1>2, <2>1, BecomeType DEF OrdersFail, TypeOK
<1>3. CASE ClaimFails(p)
  <2>1. [proc[p] EXCEPT !.pc = "start"] \in Proc
    BY MemoryType DEF Proc, Phase
  <2> QED BY <1>3, <2>1, BecomeType DEF ClaimFails, TypeOK
<1>4. ASSUME NEW h \in Handle, ReleaseFails(p, h) PROVE TypeOK'
  <2>1. [proc[p] EXCEPT !.todo = @ \ {h}, !.mine = @ \ {h}, !.sessions = @ \ {h}, !.up = @ \ {h}] \in Proc
    BY MemoryType DEF Proc
  <2> QED BY <1>4, <2>1, BecomeType DEF ReleaseFails, TypeOK
<1> QED BY <1>1, <1>2, <1>3, <1>4

LEMMA WorldTypeOK ==
  ASSUME TypeOK, WorldStep
  PROVE  TypeOK'
<1>1. ASSUME NEW p \in Worker, NEW h \in Handle, Connect(p, h) PROVE TypeOK'
  <2>1. h \in Handle /\ [proc[p] EXCEPT !.up = @ \cup {h}] \in Proc
    BY MemoryType DEF Proc
  <2> QED BY <1>1, <2>1, BecomeType DEF Connect, TypeOK
<1>2. ASSUME NEW p \in Worker, NEW h \in Handle, Disconnect(p, h) PROVE TypeOK'
  <2>1. [proc[p] EXCEPT !.up = @ \ {h}] \in Proc
    BY MemoryType DEF Proc
  <2> QED BY <1>2, <2>1, BecomeType DEF Disconnect, TypeOK
<1>3. ASSUME NEW p \in Worker, NEW h \in Handle, Scrape(p, h) PROVE TypeOK'
  BY <1>3 DEF Scrape, TypeOK, Sub
<1>4. ASSUME NEW h \in Handle,
             RequestReconnect(h) \/ Enable(h) \/ Disable(h) \/ Delete(h) \/ Release(h)
      PROVE  TypeOK'
  <2>1. CASE RequestReconnect(h)
    BY <2>1 DEF RequestReconnect, TypeOK, Sub
  <2>2. CASE Enable(h) \/ Disable(h)
    BY <2>2 DEF Enable, Disable, TypeOK, Sub
  <2>3. CASE Delete(h)
    BY <2>3, Ranges DEF Delete, NoSub, TypeOK, Sub
  <2>4. CASE Release(h)
    <3>1. [sub[h] EXCEPT !.owner = NoOwner, !.lease = 0] \in Sub
      BY Ranges DEF TypeOK, Sub
    <3>2. sub' = [sub EXCEPT ![h] = [@ EXCEPT !.owner = NoOwner, !.lease = 0]]
      BY <2>4 DEF Release
    <3> QED BY <2>4, <3>1, <3>2 DEF Release, TypeOK
  <2> QED BY <1>4, <2>1, <2>2, <2>3, <2>4
<1>5. ASSUME NEW k \in Key, NEW order \in {"pause", "unpause", "kill"},
             SetTarget(k, order)
      PROVE  TypeOK'
  <2>1. PICK d \in {"paused", "running", "stopped"} :
          d = CASE order = "pause"   -> "paused"
                [] order = "unpause" -> "running"
                [] order = "kill"    -> "stopped"
    OBVIOUS
  <2>2. PICK b \in BOOLEAN : b = (row[k].kill \/ order = "kill")
    OBVIOUS
  <2>3. [row[k] EXCEPT !.desired = d, !.kill = b] \in Row
    BY DEF TypeOK, Row
  <2>4. row' = [row EXCEPT ![k] = [@ EXCEPT !.desired = d, !.kill = b]]
    BY <1>5, <2>1, <2>2 DEF SetTarget
  <2> QED BY <1>5, <2>3, <2>4 DEF SetTarget, TypeOK
<1>6. CASE ApiReapSelect
  BY <1>6 DEF ApiReapSelect, StaleRows, TypeOK
<1>7. CASE ApiReapCommit
  BY <1>7, ReapType DEF ApiReapCommit, TypeOK
<1>8. CASE Tick
  BY <1>8, Ranges DEF Tick, TypeOK, Row, Sub
<1> QED BY <1>1, <1>2, <1>3, <1>4, <1>5, <1>6, <1>7, <1>8 DEF WorldStep

\* Every variable keeps its type: in particular a row's heartbeat age and a
\* subscription's lease stay in their ranges and every owner is a key.
THEOREM TypeCorrect == Spec => []TypeOK
<1>1. TypeOK /\ UNCHANGED vars => TypeOK'
  BY DEF TypeOK, vars
<1>2. TypeOK /\ Next => TypeOK'
  BY RegisterTypeOK, OrderTypeOK, PassTypeOK, ProcessTypeOK, FailureTypeOK, WorldTypeOK
  DEF Next, RegisterStep, OrderStep, PassStep, FaultStep, HeartbeatStep, StopStep
<1> QED BY InitTypeOK, <1>1, <1>2, PTL DEF Spec

-----------------------------------------------------------------------------
(***************************************************************************)
(* Capacity.  The claim that ends a pass counts sessions, not assignments, *)
(* so the bound on assignments is inductive only together with what each   *)
(* phase knows: from the extension on, every assignment is in still_mine,  *)
(* and once the resume step is over every one of them has a session.       *)
(***************************************************************************)
Held(p) == Owned(KeyOf[p])

Fits(S) == Cardinality(S) <= Capacity

\* What holds of a process with memory r, assignments O and target d.
Sound(r, O, d) ==
  /\ Fits(O) /\ Fits(r.sessions)
  /\ r.pc \in {"bump", "lost", "trim", "resume"} => O \subseteq r.mine /\ Fits(r.mine)
  /\ r.pc = "lost" => r.sessions \subseteq r.mine \cup r.todo
  /\ r.pc \in {"trim", "resume"} => r.sessions \subseteq r.mine
  /\ r.pc = "resume" => r.todo \subseteq r.mine /\ r.mine \subseteq r.sessions \cup r.todo
  /\ r.pc = "start" => Fits(r.sessions \cup r.todo)
  /\ r.paused => r.loop /\ d # "running"
  /\ r.pc \in {"register", "insert", "takeover"} => ~r.loop
  /\ r.pc = "orders" => r.loop
  /\ r.pc \notin {"reclaim", "resuming"}

OwnedEnabled == \A h \in Handle : sub[h].owner # NoOwner => sub[h].st = "on"

AllSound == \A p \in Worker : Sound(proc[p], Held(p), row[KeyOf[p]].desired)

CapacityInv == TypeOK /\ OwnedEnabled /\ AllSound

\* One process per key; nobody disables a subscription or resumes a paused
\* worker, and no database call of a pass fails.
Undisturbed ==
  /\ \A p, q \in Worker : KeyOf[p] = KeyOf[q] => p = q
  /\ Env \cap {"disable", "unpause", "dbfail"} = {}

LEMMA FitsSubset ==
  ASSUME NEW S \in SUBSET Handle, NEW T \in SUBSET S, Fits(S)
  PROVE  Fits(T)
<1>1. IsFiniteSet(S)
  BY PoolAssumption, FS_Subset
<1>2. IsFiniteSet(T) /\ Cardinality(T) <= Cardinality(S)
  BY <1>1, FS_Subset
<1>3. Cardinality(S) \in Nat /\ Cardinality(T) \in Nat
  BY <1>1, <1>2, FS_CardinalityType
<1> QED BY <1>2, <1>3, PoolAssumption DEF Fits

LEMMA FitsEmpty == Fits({})
BY FS_EmptySet, PoolAssumption DEF Fits

\* What ClaimMore may claim fits beside the sessions.
LEMMA FitsClaimed ==
  ASSUME NEW A \in SUBSET Handle, NEW S \in SUBSET Handle,
         Fits(A), Cardinality(S) <= Capacity - Cardinality(A)
  PROVE  Fits(A \cup S)
<1>1. IsFiniteSet(A) /\ IsFiniteSet(S) /\ IsFiniteSet(A \cap S)
  BY PoolAssumption, FS_Subset
<1>2. Cardinality(A \cup S) = Cardinality(A) + Cardinality(S) - Cardinality(A \cap S)
  BY <1>1, FS_Union
<1>3. Cardinality(A) \in Nat /\ Cardinality(S) \in Nat /\ Cardinality(A \cap S) \in Nat
  BY <1>1, FS_CardinalityType
<1> QED BY <1>2, <1>3, PoolAssumption DEF Fits

\* Losing assignments, or being ordered to pause or stop, keeps a process sound.
LEMMA SoundShrinks ==
  ASSUME NEW r \in Proc, NEW O \in SUBSET Handle, NEW O2 \in SUBSET O,
         NEW d, NEW d2, d2 = d \/ d2 # "running", Sound(r, O, d)
  PROVE  Sound(r, O2, d2)
<1>1. Fits(O2)
  BY FitsSubset DEF Sound
<1> QED BY <1>1 DEF Sound

\* What a step does to the processes other than the one that takes it.
Bystander(q) ==
  /\ Held(q)' \subseteq Held(q)
  /\ \/ row'[KeyOf[q]].desired = row[KeyOf[q]].desired
     \/ row'[KeyOf[q]].desired # "running"

\* A step of the environment.
LEMMA WorldSound ==
  ASSUME CapacityInv, TypeOK', OwnedEnabled', UNCHANGED proc,
         \A q \in Worker : Bystander(q)
  PROVE  CapacityInv'
<1> SUFFICES ASSUME NEW q \in Worker
             PROVE  Sound(proc[q], Held(q)', row'[KeyOf[q]].desired)
  BY DEF CapacityInv, AllSound
<1>1. proc[q] \in Proc /\ Held(q) \in SUBSET Handle
  BY MemoryType DEF CapacityInv, Held, Owned
<1>2. Sound(proc[q], Held(q), row[KeyOf[q]].desired)
  BY DEF CapacityInv, AllSound
<1> QED BY <1>1, <1>2, SoundShrinks DEF Bystander

\* A step of process p.
LEMMA ProcessSound ==
  ASSUME CapacityInv, TypeOK', OwnedEnabled', NEW p \in Worker, NEW r, Become(p, r),
         Sound(r, Held(p)', row'[KeyOf[p]].desired),
         \A q \in Worker \ {p} : Bystander(q)
  PROVE  CapacityInv'
<1> SUFFICES ASSUME NEW q \in Worker
             PROVE  Sound(proc'[q], Held(q)', row'[KeyOf[q]].desired)
  BY DEF CapacityInv, AllSound
<1>1. CASE q = p
  BY <1>1 DEF Become, CapacityInv, TypeOK
<1>2. CASE q # p
  <2>1. proc'[q] = proc[q]
    BY <1>2 DEF Become, CapacityInv, TypeOK
  <2>2. proc[q] \in Proc /\ Held(q) \in SUBSET Handle
    BY MemoryType DEF CapacityInv, Held, Owned
  <2>3. Sound(proc[q], Held(q), row[KeyOf[q]].desired)
    BY DEF CapacityInv, AllSound
  <2> QED BY <1>2, <2>1, <2>2, <2>3, SoundShrinks DEF Bystander
<1> QED BY <1>1, <1>2

\* A step of process p that leaves both tables as they are.
LEMMA LocalSound ==
  ASSUME CapacityInv, TypeOK', NEW p \in Worker, NEW r, Become(p, r),
         UNCHANGED <<row, sub>>, Sound(r, Held(p), row[KeyOf[p]].desired)
  PROVE  CapacityInv'
<1>1. \A q \in Worker : Bystander(q)
  BY DEF Bystander, Held, Owned
<1>2. OwnedEnabled'
  BY DEF CapacityInv, OwnedEnabled
<1>3. Held(p)' = Held(p)
  BY DEF Held, Owned
<1> QED BY <1>1, <1>2, <1>3, ProcessSound

LEMMA MineSound ==
  ASSUME CapacityInv, NEW p \in Worker
  PROVE  /\ proc[p] \in Proc /\ Held(p) \in SUBSET Handle
         /\ Sound(proc[p], Held(p), row[KeyOf[p]].desired)
BY MemoryType DEF CapacityInv, AllSound, Held, Owned

LEMMA RegisterSound ==
  ASSUME CapacityInv, TypeOK', Undisturbed, NEW p \in Worker,
         Boot(p) \/ RegisterStep(p)
  PROVE  CapacityInv'
<1> USE MineSound
<1>1. CASE Boot(p)
  <2>1. Sound([NoProc EXCEPT !.pc = "reap"], Held(p), row[KeyOf[p]].desired)
    BY FitsEmpty DEF Sound, NoProc
  <2> QED BY <1>1, <2>1, LocalSound DEF Boot
<1>2. CASE RegisterConflict(p) \/ RegisterRefused(p)
  <2>1. Sound(NoProc, Held(p), row[KeyOf[p]].desired)
    BY FitsEmpty DEF Sound, NoProc
  <2> QED BY <1>2, <2>1, LocalSound DEF RegisterConflict, RegisterRefused
<1>3. CASE RegisterCheck(p)
  <2>1. PICK l \in {"insert", "takeover"} : Become(p, [proc[p] EXCEPT !.pc = l])
    BY <1>3 DEF RegisterCheck
  <2>2. Sound([proc[p] EXCEPT !.pc = l], Held(p), row[KeyOf[p]].desired)
    BY <1>3 DEF RegisterCheck, Sound, Proc
  <2> QED BY <1>3, <2>1, <2>2, LocalSound DEF RegisterCheck
<1>4. CASE RegisterWrite(p)
  <2>1. Held(p)' = Held(p) /\ OwnedEnabled'
    BY <1>4 DEF RegisterWrite, Held, Owned, CapacityInv, OwnedEnabled
  <2>2. Sound([proc[p] EXCEPT !.pc = "extend"], Held(p), row'[KeyOf[p]].desired)
    BY <1>4 DEF RegisterWrite, Sound, Proc
  <2>3. \A q \in Worker \ {p} : Bystander(q)
    BY <1>4, PoolAssumption DEF RegisterWrite, Bystander, Held, Owned, Undisturbed, CapacityInv, TypeOK
  <2> QED BY <1>4, <2>1, <2>2, <2>3, ProcessSound DEF RegisterWrite
<1> QED BY <1>1, <1>2, <1>3, <1>4 DEF RegisterStep

LEMMA OrderSound ==
  ASSUME CapacityInv, TypeOK', Undisturbed, NEW p \in Worker, OrderStep(p)
  PROVE  CapacityInv'
<1> USE MineSound
<1>1. CASE OrdersPause(p)
  <2>1. Sound([proc[p] EXCEPT !.paused = TRUE, !.cmd = row[KeyOf[p]].kill,
                              !.todo = proc[p].sessions, !.pc = "pausing"],
              Held(p), row[KeyOf[p]].desired)
    BY <1>1 DEF OrdersPause, Sound, Proc
  <2> QED BY <1>1, <2>1, LocalSound DEF OrdersPause
<1>2. CASE OrdersResume(p)
  BY <1>2 DEF OrdersResume, Sound
<1>3. CASE OrdersOther(p)
  <2>1. PICK stop, kill : Become(p, [proc[p] EXCEPT !.stopReq = stop, !.cmd = kill,
                                                    !.pc = AfterOrders(kill)])
    BY <1>3 DEF OrdersOther
  <2>2. AfterOrders(kill) \in {"command", "extend"}
    BY DEF AfterOrders
  <2>3. Sound([proc[p] EXCEPT !.stopReq = stop, !.cmd = kill, !.pc = AfterOrders(kill)],
              Held(p), row[KeyOf[p]].desired)
    BY <1>3, <2>2 DEF OrdersOther, Sound, Proc
  <2> QED BY <1>3, <2>1, <2>3, LocalSound DEF OrdersOther
<1>4. CASE KillCommand(p)
  <2>1. Held(p)' = Held(p) /\ OwnedEnabled'
    BY <1>4 DEF KillCommand, Held, Owned, CapacityInv, OwnedEnabled
  <2>2. \A k \in Key : row'[k].desired = row[k].desired
    BY <1>4, MemoryType DEF KillCommand, CapacityInv, TypeOK, Row
  <2>3. Sound([proc[p] EXCEPT !.stopReq = TRUE, !.cmd = FALSE, !.pc = "extend"],
              Held(p), row'[KeyOf[p]].desired)
    BY <1>4, <2>2, PoolAssumption DEF KillCommand, Sound, Proc
  <2>4. \A q \in Worker \ {p} : Bystander(q)
    BY <1>4, <2>2, PoolAssumption DEF KillCommand, Bystander, Held, Owned
  <2> QED BY <1>4, <2>1, <2>3, <2>4, ProcessSound DEF KillCommand
<1>5. CASE ReclaimAll(p)
  BY <1>5 DEF ReclaimAll, Sound
<1>6. CASE OrdersDone(p)
  <2>1. AfterOrders(proc[p].cmd) \in {"command", "extend"}
    BY DEF AfterOrders
  <2>2. Sound([proc[p] EXCEPT !.pc = AfterOrders(proc[p].cmd)], Held(p), row[KeyOf[p]].desired)
    BY <2>1 DEF Sound, Proc
  <2> QED BY <1>6, <2>2, LocalSound DEF OrdersDone
<1>7. ASSUME NEW h \in Handle, PauseStop(p, h) PROVE CapacityInv'
  <2>0. proc[p].sessions \in SUBSET Handle /\ Fits(proc[p].sessions)
    BY DEF Sound, Proc
  <2>1. Fits(proc[p].sessions \ {h})
    BY <2>0, FitsSubset
  <2>2. Sound([proc[p] EXCEPT !.todo = @ \ {h}, !.sessions = @ \ {h}, !.up = @ \ {h}],
              Held(p), row[KeyOf[p]].desired)
    BY <1>7, <2>1 DEF PauseStop, Sound, Proc
  <2> QED BY <1>7, <2>2, LocalSound DEF PauseStop, StopOne
<1> QED BY <1>1, <1>2, <1>3, <1>4, <1>5, <1>6, <1>7 DEF OrderStep

\* A step of process p that only takes assignments away.
LEMMA ReleaseSound ==
  ASSUME CapacityInv, TypeOK', NEW p \in Worker, NEW r, Become(p, r),
         \A k \in Key : row'[k].desired = row[k].desired,
         \A h \in Handle : sub'[h].st = sub[h].st /\ sub'[h].owner \in {sub[h].owner, NoOwner},
         Sound(r, Held(p)', row[KeyOf[p]].desired)
  PROVE  CapacityInv'
<1>1. \A q \in Worker : Bystander(q)
  BY PoolAssumption DEF Bystander, Held, Owned
<1>2. OwnedEnabled'
  BY DEF CapacityInv, OwnedEnabled
<1> QED BY <1>1, <1>2, PoolAssumption, ProcessSound

LEMMA ReleaseAllShrinks ==
  ASSUME TypeOK, NEW K, ReleaseAll(K)
  PROVE  \A h \in Handle : /\ sub'[h].st = sub[h].st
                           /\ sub'[h].owner \in {sub[h].owner, NoOwner}
                           /\ sub[h].owner \in K => sub'[h].owner = NoOwner
BY DEF ReleaseAll, TypeOK, Sub

LEMMA ReapShrinks ==
  ASSUME TypeOK, NEW K, Reap(K)
  PROVE  /\ \A k \in Key : row'[k].desired = row[k].desired
         /\ \A h \in Handle : sub'[h].st = sub[h].st /\ sub'[h].owner \in {sub[h].owner, NoOwner}
BY ReleaseAllShrinks DEF Reap, TypeOK, Row

LEMMA PassSound ==
  ASSUME CapacityInv, TypeOK', Undisturbed, NEW p \in Worker,
         \/ ReapSelect(p)
         \/ ReapCommit(p)
         \/ ExtendSelect(p)
         \/ ExtendUpdate(p)
         \/ View(p)
         \/ RecycleDone(p)
         \/ ClaimMore(p)
         \/ EndPass(p)
         \/ NextPass(p)
         \/ \E h \in Handle : DropLost(p, h)
         \/ \E h \in Handle : ReleaseDisabled(p, h)
         \/ \E h \in Handle : Recycle(p, h)
         \/ \E h \in Handle : StartSession(p, h)
  PROVE  CapacityInv'
<1> USE MineSound
<1>0. /\ TypeOK
      /\ proc[p].sessions \in SUBSET Handle /\ Fits(proc[p].sessions)
      /\ proc[p].mine \in SUBSET Handle
      /\ proc[p].todo \in SUBSET Handle
  BY DEF CapacityInv, Sound, Proc
<1>1. CASE ReapSelect(p)
  <2>1. PICK l \in {"orders", "register", "reaping"} :
          /\ Become(p, [proc[p] EXCEPT !.victims = StaleRows, !.pc = l])
          /\ l = "orders" => proc[p].loop
          /\ l = "register" => ~proc[p].loop
    BY <1>1 DEF ReapSelect, AfterReap
  <2>2. Sound([proc[p] EXCEPT !.victims = StaleRows, !.pc = l], Held(p), row[KeyOf[p]].desired)
    BY <2>1 DEF Sound, Proc
  <2> QED BY <1>1, <2>1, <2>2, LocalSound DEF ReapSelect
<1>2. CASE ReapCommit(p)
  <2>1. PICK l \in {"orders", "register"} :
          /\ Become(p, [proc[p] EXCEPT !.victims = {}, !.pc = l])
          /\ l = "orders" => proc[p].loop
          /\ l = "register" => ~proc[p].loop
    BY <1>2 DEF ReapCommit, AfterReap
  <2>2. /\ \A k \in Key : row'[k].desired = row[k].desired
        /\ \A h \in Handle : sub'[h].st = sub[h].st /\ sub'[h].owner \in {sub[h].owner, NoOwner}
    BY <1>0, <1>2, ReapShrinks DEF ReapCommit
  <2>3. Held(p)' \in SUBSET Held(p)
    BY <2>2, PoolAssumption DEF Held, Owned
  <2>4. Sound([proc[p] EXCEPT !.victims = {}, !.pc = l], Held(p), row[KeyOf[p]].desired)
    BY <2>1 DEF Sound, Proc
  <2>5. [proc[p] EXCEPT !.victims = {}, !.pc = l] \in Proc
    BY DEF Proc, Phase
  <2>6. Sound([proc[p] EXCEPT !.victims = {}, !.pc = l], Held(p)', row[KeyOf[p]].desired)
    BY <2>3, <2>4, <2>5, SoundShrinks
  <2> QED BY <2>1, <2>2, <2>6, ReleaseSound
<1>3. CASE ExtendSelect(p)
  <2>1. EnabledOwned(KeyOf[p]) = Held(p)
    BY PoolAssumption DEF CapacityInv, OwnedEnabled, EnabledOwned, Held, Owned
  <2>2. Sound([proc[p] EXCEPT !.mine = Held(p), !.pc = "bump"], Held(p), row[KeyOf[p]].desired)
    BY DEF Sound, Proc
  <2> QED BY <1>3, <2>1, <2>2, LocalSound DEF ExtendSelect
<1>4. CASE ExtendUpdate(p)
  <2>1. \A h \in Handle : sub'[h].st = sub[h].st /\ sub'[h].owner = sub[h].owner
    BY <1>0, <1>4 DEF ExtendUpdate, TypeOK, Sub
  <2>2. Held(p)' = Held(p)
    BY <2>1 DEF Held, Owned
  <2>3. Sound([proc[p] EXCEPT !.todo = proc[p].sessions \ proc[p].mine, !.pc = "lost"],
              Held(p), row[KeyOf[p]].desired)
    BY <1>4 DEF ExtendUpdate, Sound, Proc
  <2> QED BY <1>4, <2>1, <2>2, <2>3, ReleaseSound DEF ExtendUpdate
<1>5. CASE View(p)
  <2>1. Sound([proc[p] EXCEPT !.todo = {h \in proc[p].mine : sub[h].st # "on"}, !.pc = "trim"],
              Held(p), row[KeyOf[p]].desired)
    BY <1>5 DEF View, Sound, Proc
  <2> QED BY <1>5, <2>1, LocalSound DEF View
<1>6. CASE RecycleDone(p)
  <2>1. Sound([proc[p] EXCEPT !.todo = proc[p].mine \ proc[p].sessions, !.pc = "resume"],
              Held(p), row[KeyOf[p]].desired)
    BY <1>6 DEF RecycleDone, Sound, Proc
  <2> QED BY <1>6, <2>1, LocalSound DEF RecycleDone
<1>7. CASE ClaimMore(p)
  <2>1. PICK S \in SUBSET Handle :
          /\ ClaimChoice(FreeSlots(p), S)
          /\ Claim(KeyOf[p], S)
          /\ Become(p, [proc[p] EXCEPT !.todo = S, !.pc = "start"])
    BY <1>7 DEF ClaimMore
  <2>2. Cardinality(proc[p].sessions) <= Capacity /\ FreeSlots(p) = Capacity - Cardinality(proc[p].sessions)
    BY <1>0 DEF Fits, FreeSlots
  <2>3. Fits(proc[p].sessions \cup S)
    BY <1>0, <2>1, <2>2, FitsClaimed DEF ClaimChoice
  <2>4. Held(p) \subseteq proc[p].sessions
    BY <1>7 DEF ClaimMore, Sound
  <2>5. \A h \in Handle : /\ sub'[h].st = sub[h].st
                          /\ sub'[h].owner = IF h \in S THEN KeyOf[p] ELSE sub[h].owner
    <3>1. sub \in [Handle -> Sub]
      BY <1>0 DEF TypeOK
    <3>2. sub' = [h \in Handle |-> IF h \in S
                                   THEN [sub[h] EXCEPT !.owner = KeyOf[p], !.lease = LeaseTTL]
                                   ELSE sub[h]]
      BY <2>1 DEF Claim
    <3> HIDE MineSound
    <3> QED BY ONLY <3>1, <3>2 DEF Sub
  <2>6. Held(p)' \subseteq proc[p].sessions \cup S
    BY <2>4, <2>5 DEF Held, Owned
  <2>7. Fits(Held(p)')
    BY <1>0, <2>3, <2>6, FitsSubset
  <2>8. Sound([proc[p] EXCEPT !.todo = S, !.pc = "start"], Held(p)', row[KeyOf[p]].desired)
    BY <2>3, <2>7 DEF Sound, Proc
  <2>9. \A q \in Worker \ {p} : Bystander(q)
    BY <1>7, <2>5 DEF ClaimMore, Bystander, Held, Owned, Undisturbed
  <2>10. OwnedEnabled'
    BY <2>1, <2>5 DEF ClaimChoice, Claimable, CapacityInv, OwnedEnabled
  <2> QED BY <1>7, <2>1, <2>8, <2>9, <2>10, ProcessSound DEF ClaimMore
<1>8. CASE EndPass(p)
  <2>1. Sound([proc[p] EXCEPT !.mine = {}, !.loop = TRUE, !.pc = "idle"],
              Held(p), row[KeyOf[p]].desired)
    BY DEF Sound, Proc
  <2> QED BY <1>8, <2>1, LocalSound DEF EndPass
<1>9. CASE NextPass(p)
  <2>1. Sound([proc[p] EXCEPT !.pc = "reap"], Held(p), row[KeyOf[p]].desired)
    BY DEF Sound, Proc
  <2> QED BY <1>9, <2>1, LocalSound DEF NextPass
<1>10. ASSUME NEW h \in Handle, DropLost(p, h) PROVE CapacityInv'
  <2>1. Fits(proc[p].sessions \ {h})
    BY <1>0, FitsSubset
  <2>2. Sound([proc[p] EXCEPT !.todo = @ \ {h}, !.sessions = @ \ {h}, !.up = @ \ {h}],
              Held(p), row[KeyOf[p]].desired)
    BY <1>10, <2>1 DEF DropLost, Sound, Proc
  <2> QED BY <1>10, <2>2, LocalSound DEF DropLost, StopOne
<1>11. ASSUME NEW h \in Handle, At(p, "trim"), GiveUp(p, h) PROVE CapacityInv'
  <2>0. Fits(proc[p].mine)
    BY <1>11 DEF Sound
  <2>1. /\ Fits(proc[p].sessions \ {h})
        /\ Fits(proc[p].mine \ {h})
    BY <1>0, <2>0, FitsSubset
  <2>2. \A g \in Handle : /\ sub'[g].st = sub[g].st
                          /\ sub'[g].owner = IF g = h /\ sub[g].owner = KeyOf[p]
                                             THEN NoOwner ELSE sub[g].owner
    BY <1>0, <1>11 DEF GiveUp, ReleaseMine, TypeOK, Sub
  <2>3. Held(p)' = Held(p) \ {h}
    BY <2>2, PoolAssumption DEF Held, Owned
  <2>4. Fits(Held(p)')
    BY <2>3, FitsSubset DEF Sound
  <2>5. Sound([proc[p] EXCEPT !.todo = @ \ {h}, !.mine = @ \ {h},
                              !.sessions = @ \ {h}, !.up = @ \ {h}],
              Held(p)', row[KeyOf[p]].desired)
    BY <1>11, <2>1, <2>3, <2>4 DEF Sound, Proc
  <2> QED BY <1>11, <2>2, <2>5, ReleaseSound DEF GiveUp
<1>12. ASSUME NEW h \in Handle, StartSession(p, h) PROVE CapacityInv'
  <2>1. CASE At(p, "resume")
    <3>1. /\ Fits(proc[p].mine) /\ Held(p) \subseteq proc[p].mine
          /\ proc[p].sessions \cup {h} \subseteq proc[p].mine
          /\ proc[p].todo \ {h} \subseteq proc[p].mine
          /\ proc[p].mine \subseteq (proc[p].sessions \cup {h}) \cup (proc[p].todo \ {h})
      BY <1>12, <2>1 DEF StartSession, Sound
    <3>2. Fits(proc[p].sessions \cup {h})
      BY <1>0, <3>1, FitsSubset
    <3>3. Sound([proc[p] EXCEPT !.todo = @ \ {h}, !.sessions = @ \cup {h}],
                Held(p), row[KeyOf[p]].desired)
      BY <2>1, <3>1, <3>2 DEF Sound, Proc
    <3> QED BY <1>12, <3>3, LocalSound DEF StartSession
  <2>2. CASE At(p, "start")
    <3>1. /\ Fits(proc[p].sessions \cup proc[p].todo)
          /\ proc[p].sessions \cup {h} \subseteq proc[p].sessions \cup proc[p].todo
          /\ (proc[p].sessions \cup {h}) \cup (proc[p].todo \ {h}) = proc[p].sessions \cup proc[p].todo
      BY <1>12, <2>2 DEF StartSession, Sound
    <3>2. Fits(proc[p].sessions \cup {h})
      BY <1>0, <3>1, FitsSubset
    <3>3. Sound([proc[p] EXCEPT !.todo = @ \ {h}, !.sessions = @ \cup {h}],
                Held(p), row[KeyOf[p]].desired)
      BY <2>2, <3>1, <3>2 DEF Sound, Proc
    <3> QED BY <1>12, <3>3, LocalSound DEF StartSession
  <2> QED BY <1>12, <2>1, <2>2 DEF StartSession, Sound
<1> QED BY <1>1, <1>2, <1>3, <1>4, <1>5, <1>6, <1>7, <1>8, <1>9, <1>10, <1>11, <1>12
        DEF ReleaseDisabled, Recycle

LEMMA ProcessesSound ==
  ASSUME CapacityInv, TypeOK', Undisturbed, NEW p \in Worker,
         FaultStep(p) \/ HeartbeatStep(p) \/ StopStep(p)
  PROVE  CapacityInv'
<1> USE MineSound
<1>1. CASE \/ ExtendFails(p) \/ PassFails(p) \/ ReapFails(p) \/ OrdersFail(p)
           \/ ClaimFails(p) \/ \E h \in Handle : ReleaseFails(p, h)
  BY <1>1 DEF ExtendFails, PassFails, ReapFails, OrdersFail, ClaimFails, ReleaseFails, Undisturbed
<1>2. CASE Crash(p)
  <2>1. Sound(NoProc, Held(p), row[KeyOf[p]].desired)
    BY FitsEmpty DEF Sound, NoProc
  <2> QED BY <1>2, <2>1, LocalSound DEF Crash
<1>3. CASE HeartbeatBegin(p)
  <2>1. PICK status : Become(p, [proc[p] EXCEPT !.hb = status])
    BY <1>3 DEF HeartbeatBegin
  <2>2. Sound([proc[p] EXCEPT !.hb = status], Held(p), row[KeyOf[p]].desired)
    BY DEF Sound, Proc
  <2> QED BY <1>3, <2>1, <2>2, LocalSound DEF HeartbeatBegin
<1>4. CASE HeartbeatCommit(p)
  <2>1. \A k \in Key : row'[k].desired = row[k].desired
    BY <1>4, PoolAssumption DEF HeartbeatCommit, CapacityInv, TypeOK, Row
  <2>2. Held(p)' = Held(p)
    BY <1>4 DEF HeartbeatCommit, Held, Owned
  <2>3. Sound([proc[p] EXCEPT !.hb = "none"], Held(p), row[KeyOf[p]].desired)
    BY DEF Sound, Proc
  <2> QED BY <1>4, <2>1, <2>2, <2>3, ReleaseSound DEF HeartbeatCommit
<1>5. CASE Shutdown(p)
  <2>1. Sound([proc[p] EXCEPT !.sessions = {}, !.up = {}, !.mine = {}, !.todo = {},
                              !.pc = "stopping"],
              Held(p), row[KeyOf[p]].desired)
    BY FitsEmpty DEF Sound, Proc
  <2> QED BY <1>5, <2>1, LocalSound DEF Shutdown
<1>6. CASE MarkStopped(p)
  <2>1. \A k \in Key : row'[k].desired = row[k].desired
    BY <1>6, PoolAssumption DEF MarkStopped, CapacityInv, TypeOK, Row
  <2>2. \A h \in Handle : /\ sub'[h].st = sub[h].st
                          /\ sub'[h].owner \in {sub[h].owner, NoOwner}
                          /\ sub[h].owner = KeyOf[p] => sub'[h].owner = NoOwner
    BY <1>6, ReleaseAllShrinks DEF MarkStopped, CapacityInv
  <2>3. Held(p)' = {}
    BY <2>2, PoolAssumption DEF Held, Owned
  <2>4. Sound([NoProc EXCEPT !.hb = proc[p].hb], Held(p)', row[KeyOf[p]].desired)
    BY <2>3, FitsEmpty DEF Sound, NoProc
  <2> QED BY <1>6, <2>1, <2>2, <2>4, ReleaseSound DEF MarkStopped
<1> QED BY <1>1, <1>2, <1>3, <1>4, <1>5, <1>6 DEF FaultStep, HeartbeatStep, StopStep

\* A step of the environment that only takes assignments away.
LEMMA TakeSound ==
  ASSUME CapacityInv, TypeOK', OwnedEnabled', UNCHANGED proc,
         \A h \in Handle : sub'[h].owner \in {sub[h].owner, NoOwner},
         \A k \in Key : \/ row'[k].desired = row[k].desired
                        \/ row'[k].desired # "running"
  PROVE  CapacityInv'
<1>1. \A q \in Worker : Bystander(q)
  BY PoolAssumption DEF Bystander, Held, Owned
<1> QED BY <1>1, WorldSound

LEMMA WorldStepSound ==
  ASSUME CapacityInv, TypeOK', Undisturbed, WorldStep
  PROVE  CapacityInv'
<1>0. TypeOK /\ \A h \in Handle : sub[h].owner # NoOwner => sub[h].st = "on"
  BY DEF CapacityInv, OwnedEnabled
<1>1. ASSUME NEW p \in Worker, NEW h \in Handle, Connect(p, h) PROVE CapacityInv'
  <2>1. Sound([proc[p] EXCEPT !.up = @ \cup {h}], Held(p), row[KeyOf[p]].desired)
    BY MineSound DEF Sound, Proc
  <2> QED BY <1>1, <2>1, LocalSound DEF Connect
<1>2. ASSUME NEW p \in Worker, NEW h \in Handle, Disconnect(p, h) PROVE CapacityInv'
  <2>1. Sound([proc[p] EXCEPT !.up = @ \ {h}], Held(p), row[KeyOf[p]].desired)
    BY MineSound DEF Sound, Proc
  <2> QED BY <1>2, <2>1, LocalSound DEF Disconnect
<1>3. ASSUME NEW p \in Worker, NEW h \in Handle, Scrape(p, h) PROVE CapacityInv'
  <2>1. \A g \in Handle : sub'[g].owner = sub[g].owner /\ sub'[g].st = sub[g].st
    BY <1>0, <1>3 DEF Scrape, TypeOK, Sub
  <2> QED BY <1>0, <1>3, <2>1, TakeSound DEF Scrape, OwnedEnabled
<1>4. ASSUME NEW h \in Handle,
             RequestReconnect(h) \/ Enable(h) \/ Delete(h) \/ Release(h)
      PROVE  CapacityInv'
  <2>1. \A g \in Handle : /\ sub'[g].owner \in {sub[g].owner, NoOwner}
                          /\ sub'[g].st # sub[g].st =>
                               sub'[g].st = "on" \/ sub'[g].owner = NoOwner
    BY <1>0, <1>4 DEF RequestReconnect, Enable, Delete, Release, NoSub, TypeOK, Sub
  <2>2. OwnedEnabled'
    BY <1>0, <2>1 DEF OwnedEnabled
  <2> QED BY <1>4, <2>1, <2>2, TakeSound DEF RequestReconnect, Enable, Delete, Release
<1>5. ASSUME NEW h \in Handle, Disable(h) PROVE CapacityInv'
  BY <1>5 DEF Disable, Undisturbed
<1>6. ASSUME NEW k \in Key, NEW order \in {"pause", "unpause", "kill"},
             SetTarget(k, order)
      PROVE  CapacityInv'
  <2>1. order = "pause" \/ order = "kill"
    BY <1>6 DEF SetTarget, Undisturbed
  <2>2. \A j \in Key : \/ row'[j].desired = row[j].desired
                       \/ row'[j].desired # "running"
    BY <1>0, <1>6, <2>1 DEF SetTarget, TypeOK, Row
  <2> QED BY <1>0, <1>6, <2>2, TakeSound DEF SetTarget, OwnedEnabled
<1>7. CASE ApiReapSelect
  BY <1>0, <1>7, TakeSound DEF ApiReapSelect, OwnedEnabled
<1>8. CASE ApiReapCommit
  <2>1. /\ \A k \in Key : row'[k].desired = row[k].desired
        /\ \A h \in Handle : sub'[h].st = sub[h].st /\ sub'[h].owner \in {sub[h].owner, NoOwner}
    BY <1>0, <1>8, ReapShrinks DEF ApiReapCommit
  <2> QED BY <1>0, <1>8, <2>1, TakeSound DEF ApiReapCommit, OwnedEnabled
<1>9. CASE Tick
  <2>1. /\ \A h \in Handle : sub'[h].owner = sub[h].owner /\ sub'[h].st = sub[h].st
        /\ \A k \in Key : row'[k].desired = row[k].desired
    BY <1>0, <1>9 DEF Tick, TypeOK, Row, Sub
  <2> QED BY <1>0, <1>9, <2>1, TakeSound DEF Tick, OwnedEnabled
<1> QED BY <1>1, <1>2, <1>3, <1>4, <1>5, <1>6, <1>7, <1>8, <1>9 DEF WorldStep

LEMMA InitCapacity == Init => CapacityInv
<1> SUFFICES ASSUME Init PROVE CapacityInv
  OBVIOUS
<1>0. \A b \in BOOLEAN : [NoSub EXCEPT !.st = "on", !.live = b].owner = NoOwner
  BY DEF NoSub
<1>1. \A h \in Handle : sub[h].owner = NoOwner
  BY <1>0 DEF Init
<1>2. ASSUME NEW p \in Worker PROVE Held(p) = {}
  BY <1>1, PoolAssumption DEF Held, Owned
<1>3. ASSUME NEW p \in Worker PROVE Sound(proc[p], Held(p), row[KeyOf[p]].desired)
  <2>1. proc[p] = NoProc
    BY DEF Init
  <2> QED BY <1>2, <2>1, FitsEmpty DEF Sound, NoProc
<1> QED BY <1>1, <1>3, InitTypeOK DEF CapacityInv, OwnedEnabled, AllSound

\* Whatever processes crash, restart or are reaped, whatever deadlines pass,
\* no worker runs more sessions or holds more assignments than its capacity.
THEOREM CapacityCorrect ==
  ASSUME Undisturbed
  PROVE  Spec => []CapacityRespected
<1>1. CapacityInv /\ UNCHANGED vars => CapacityInv'
  BY DEF CapacityInv, TypeOK, OwnedEnabled, AllSound, Held, Owned, vars
<1>2. CapacityInv /\ TypeOK' /\ Next => CapacityInv'
  <2> SUFFICES ASSUME CapacityInv, TypeOK', Next PROVE CapacityInv'
    OBVIOUS
  <2>1. CASE WorldStep
    BY <2>1, WorldStepSound
  <2>2. ASSUME NEW p \in Worker, Boot(p) \/ RegisterStep(p) PROVE CapacityInv'
    BY <2>2, RegisterSound
  <2>3. ASSUME NEW p \in Worker, OrderStep(p) PROVE CapacityInv'
    BY <2>3, OrderSound
  <2>4. ASSUME NEW p \in Worker, PassStep(p) PROVE CapacityInv'
    BY <2>4, PassSound DEF PassStep
  <2>5. ASSUME NEW p \in Worker, FaultStep(p) \/ HeartbeatStep(p) \/ StopStep(p)
        PROVE  CapacityInv'
    BY <2>5, ProcessesSound
  <2> QED BY <2>1, <2>2, <2>3, <2>4, <2>5 DEF Next
<1>3. CapacityInv => CapacityRespected
  BY DEF CapacityInv, AllSound, Sound, Fits, Held, CapacityRespected
<1> QED BY InitCapacity, <1>1, <1>2, <1>3, TypeCorrect, PTL DEF Spec

-----------------------------------------------------------------------------
(***************************************************************************)
(* Exclusive ingestion.  A session of an enabled creator is safe because   *)
(* its process holds the assignment for as long as it serves: no reaper    *)
(* has selected its row (Unreaped), since the row is fresh whenever a      *)
(* reaper reads, and its leases have not run out (Unexpired), so no        *)
(* sibling may claim.  A creator that was disabled or deleted stays with   *)
(* the process that had it (Apart), since nobody claims it any more.       *)
(***************************************************************************)

\* A process with memory r has registered and is not down.
Runs(r) == r.loop \/ r.pc \in {"extend", "bump", "lost", "trim", "resume", "start"}

\* The creators that a process with memory r ingests, or will without asking.
Wants(r) == r.sessions \cup r.mine
            \cup {h \in r.todo : r.pc \in {"resuming", "resume", "start"}}

Off == {h \in Handle : sub[h].st # "on"}

\* The creators of which nobody else may open a session.
Safe(p) == {h \in Handle : sub[h].st = "on" => sub[h].owner = KeyOf[p]}

\* What holds of a process with memory r, creators O that are safe with it,
\* disabled creators D and row status s.
Whole(r, O, D, s) ==
  /\ r.up \subseteq r.sessions
  /\ Runs(r) => s # "absent" /\ Wants(r) \subseteq O
  /\ ~Runs(r) => /\ r.sessions = {} /\ r.mine = {}
                 /\ r.pc \in {"down", "reap", "reaping", "register", "insert"}
                 /\ r.pc # "down" => s = "absent"
  /\ r.pc \in {"down", "register", "insert", "takeover"} => ~r.loop
  /\ r.hb # "none" => s # "absent"
  /\ r.pc = "trim" => r.todo \subseteq D
  /\ r.pc = "stopping" => r.sessions = {}

AllWhole == \A p \in Worker : Whole(proc[p], Safe(p), Off, row[KeyOf[p]].status)

Apart == \A p, q \in Worker : p # q => Wants(proc[p]) \cap Wants(proc[q]) = {}

\* A reaper has selected the row of key k.
Marked(k) == k \in apiVictims \/ \E q \in Worker : k \in proc[q].victims

Unreaped ==
  /\ \A k \in Key : row[k].status = "absent" => ~Marked(k)
  /\ \A p \in Worker : Runs(proc[p]) => Fresh(KeyOf[p]) /\ ~Marked(KeyOf[p])

Unexpired ==
  \A p \in Worker : Runs(proc[p]) => \A h \in EnabledOwned(KeyOf[p]) : sub[h].lease > 0

\* A key that was never registered holds nothing.
Blank == \A k \in Key : row[k].status = "absent" => Owned(k) = {}

ExclusiveInv == TypeOK /\ AllWhole /\ Apart /\ Unreaped /\ Unexpired /\ Blank

\* One prompt process per key, which is not restarted; no administrator
\* releases a creator, or enables one that has been disabled or deleted.
\* Calls may fail.
Punctual ==
  /\ \A p, q \in Worker : KeyOf[p] = KeyOf[q] => p = q
  /\ Prompt
  /\ Env \cap {"restart", "release", "enable"} = {}

LEMMA RunsRegistered == \A p \in Worker : Registered(p) <=> Runs(proc[p])
BY DEF Registered, Runs

LEMMA MineWhole ==
  ASSUME ExclusiveInv, NEW p \in Worker
  PROVE  /\ proc[p] \in Proc /\ Safe(p) \in SUBSET Handle /\ KeyOf[p] \in Key
         /\ row[KeyOf[p]] \in Row
         /\ Whole(proc[p], Safe(p), Off, row[KeyOf[p]].status)
BY MemoryType DEF ExclusiveInv, AllWhole, Safe

\* A process wants only what is safe with it.
LEMMA WantsSafe ==
  ASSUME NEW r, NEW O, NEW D, NEW s, Whole(r, O, D, s)
  PROVE  Wants(r) \subseteq O
BY DEF Whole, Wants, Runs

\* What a step does to the heartbeats, to the leases and to the enabled
\* creators, unless it is a tick.
Timeless ==
  /\ \A k \in Key : /\ row'[k].status = "absent" <=> row[k].status = "absent"
                    /\ row'[k].age \in {row[k].age, 0}
  /\ \A h \in Handle : /\ sub'[h].st = "on" => sub[h].st = "on"
                       /\ sub'[h].owner # NoOwner =>
                            \/ sub'[h].lease = LeaseTTL
                            \/ sub'[h].owner = sub[h].owner /\ sub'[h].lease = sub[h].lease

\* A step takes nothing from process q, if it runs.
Spared(q) == Runs(proc[q]) => Safe(q) \subseteq Safe(q)'

LEMMA SparedWhole ==
  ASSUME ExclusiveInv, Timeless, NEW q \in Worker, Spared(q),
         NEW r, Whole(r, Safe(q), Off, row[KeyOf[q]].status), Runs(r) => Runs(proc[q])
  PROVE  Whole(r, Safe(q)', Off', row'[KeyOf[q]].status)
<1>1. Off \subseteq Off' /\ KeyOf[q] \in Key
  BY PoolAssumption DEF Off, Timeless
<1> QED BY <1>1 DEF Whole, Spared, Timeless

\* A creator that a process newly wants is enabled and its own, so nobody else
\* wants it.
LEMMA StillApart ==
  ASSUME ExclusiveInv, Punctual, AllWhole', NEW p \in Worker, NEW r, proc'[p] = r,
         Wants(r) \subseteq Wants(proc[p]) \cup EnabledOwned(KeyOf[p])',
         \A q \in Worker \ {p} : proc'[q] = proc[q]
  PROVE  Apart'
<1>1. ASSUME NEW q \in Worker \ {p} PROVE Wants(r) \cap Wants(proc[q]) = {}
  <2>1. KeyOf[q] # KeyOf[p]
    BY DEF Punctual
  <2>2. Wants(proc[q]) \subseteq Safe(q)'
    BY WantsSafe DEF AllWhole
  <2>3. Safe(q)' \cap EnabledOwned(KeyOf[p])' = {}
    BY <2>1 DEF Safe, EnabledOwned, Owned
  <2>4. Wants(proc[p]) \cap Wants(proc[q]) = {}
    BY DEF ExclusiveInv, Apart
  <2> QED BY <2>2, <2>3, <2>4
<1> QED BY <1>1 DEF Apart, ExclusiveInv

\* A reaper that reads now selects neither a running process nor an absent row.
LEMMA StillUnreaped ==
  ASSUME ExclusiveInv, TypeOK', Timeless,
         \A k \in Key : Marked(k)' => Marked(k) \/ k \in StaleRows,
         \A q \in Worker : Runs(proc'[q]) => Runs(proc[q])
  PROVE  Unreaped'
<1>1. \A q \in Worker : KeyOf[q] \in Key
  BY PoolAssumption
<1>2. ASSUME NEW k \in Key, row'[k].status = "absent" PROVE ~Marked(k)'
  BY <1>2 DEF Timeless, StaleRows, ExclusiveInv, Unreaped
<1>3. ASSUME NEW q \in Worker, Runs(proc'[q]) PROVE Fresh(KeyOf[q])' /\ ~Marked(KeyOf[q])'
  <2>1. Fresh(KeyOf[q]) /\ ~Marked(KeyOf[q])
    BY <1>3 DEF ExclusiveInv, Unreaped
  <2>2. Fresh(KeyOf[q])'
    BY <1>1, <2>1, PoolAssumption DEF Fresh, Timeless
  <2>3. KeyOf[q] \notin StaleRows
    BY <2>1 DEF StaleRows
  <2> QED BY <1>1, <2>1, <2>2, <2>3
<1> QED BY <1>2, <1>3 DEF Unreaped

\* A step of process p that is not its registration.
LEMMA ProcessWhole ==
  ASSUME ExclusiveInv, TypeOK', Punctual, Timeless, NEW p \in Worker, NEW r, Become(p, r),
         UNCHANGED apiVictims, r.victims \subseteq proc[p].victims \cup StaleRows,
         Whole(r, Safe(p)', Off', row'[KeyOf[p]].status),
         Wants(r) \subseteq Wants(proc[p]) \cup EnabledOwned(KeyOf[p])',
         Runs(r) => Runs(proc[p]),
         \A q \in Worker \ {p} : Spared(q),
         \A k \in Key : row[k].status = "absent" => Owned(k)' = {}
  PROVE  ExclusiveInv'
<1>0. /\ \A q \in Worker \ {p} : proc'[q] = proc[q]
      /\ proc'[p] = r
  BY DEF Become, ExclusiveInv, TypeOK
<1>1. AllWhole'
  <2> SUFFICES ASSUME NEW q \in Worker
               PROVE  Whole(proc'[q], Safe(q)', Off', row'[KeyOf[q]].status)
    BY DEF AllWhole
  <2>1. CASE q = p
    BY <1>0, <2>1
  <2>2. CASE q # p
    BY <1>0, <2>2, MineWhole, SparedWhole
  <2> QED BY <2>1, <2>2
<1>2. \A q \in Worker : Runs(proc'[q]) => Runs(proc[q])
  BY <1>0
<1>3. \A k \in Key : Marked(k)' => Marked(k) \/ k \in StaleRows
  BY <1>0 DEF Marked
<1>4. \A q \in Worker : KeyOf[q] \in Key
  BY PoolAssumption
<1>5. Unreaped'
  BY <1>2, <1>3, <1>4, StillUnreaped
<1>6. Unexpired'
  <2> SUFFICES ASSUME NEW q \in Worker, Runs(proc'[q]), NEW h \in EnabledOwned(KeyOf[q])'
               PROVE  sub'[h].lease > 0
    BY DEF Unexpired
  <2>1. h \in Handle /\ sub'[h].owner = KeyOf[q] /\ sub'[h].st = "on"
    BY DEF EnabledOwned, Owned
  <2>2. sub'[h].owner # NoOwner
    BY <1>4, <2>1, PoolAssumption
  <2>3. CASE sub'[h].lease = LeaseTTL
    BY <2>3, PoolAssumption
  <2>4. CASE sub'[h].owner = sub[h].owner /\ sub'[h].lease = sub[h].lease
    <3>1. Runs(proc[q]) /\ h \in EnabledOwned(KeyOf[q])
      BY <1>2, <2>1, <2>4 DEF EnabledOwned, Owned, Timeless
    <3> QED BY <2>4, <3>1 DEF ExclusiveInv, Unexpired
  <2> QED BY <2>1, <2>2, <2>3, <2>4 DEF Timeless
<1>7. Blank'
  BY DEF Blank, Timeless
<1>8. Apart'
  BY <1>0, <1>1, StillApart
<1> QED BY <1>1, <1>5, <1>6, <1>7, <1>8 DEF ExclusiveInv

\* Where process p may move when the tables stay as they are.
Moves(p, r) == /\ Whole(r, Safe(p), Off, row[KeyOf[p]].status)
               /\ Wants(r) \subseteq Wants(proc[p]) \cup EnabledOwned(KeyOf[p])

\* A step of process p that leaves both tables as they are.
LEMMA LocalWhole ==
  ASSUME ExclusiveInv, TypeOK', Punctual, NEW p \in Worker, NEW r, Become(p, r),
         UNCHANGED <<row, sub, apiVictims>>, r.victims \subseteq proc[p].victims \cup StaleRows,
         Moves(p, r), Runs(r) => Runs(proc[p])
  PROVE  ExclusiveInv'
<1>1. Timeless
  BY DEF Timeless
<1>2. \A q \in Worker : Safe(q)' = Safe(q) /\ Spared(q)
  BY DEF Spared, Safe
<1>3. Off' = Off /\ EnabledOwned(KeyOf[p])' = EnabledOwned(KeyOf[p])
  BY DEF Off, EnabledOwned, Owned
<1>4. \A k \in Key : row[k].status = "absent" => Owned(k)' = {}
  BY DEF ExclusiveInv, Blank, Owned
<1> QED BY <1>1, <1>2, <1>3, <1>4, ProcessWhole DEF Moves

\* A step of the environment that is not a tick and marks no row.
LEMMA WorldWhole ==
  ASSUME ExclusiveInv, TypeOK', Timeless, UNCHANGED proc,
         apiVictims' \subseteq apiVictims \cup StaleRows,
         \A q \in Worker : Spared(q),
         \A k \in Key : row[k].status = "absent" => Owned(k)' = {}
  PROVE  ExclusiveInv'
<1>1. AllWhole'
  BY MineWhole, SparedWhole DEF AllWhole
<1>3. \A k \in Key : Marked(k)' => Marked(k) \/ k \in StaleRows
  BY DEF Marked
<1>4. \A q \in Worker : KeyOf[q] \in Key
  BY PoolAssumption
<1>5. Unreaped'
  BY <1>3, <1>4, StillUnreaped
<1>6. Unexpired'
  <2> SUFFICES ASSUME NEW q \in Worker, Runs(proc[q]), NEW h \in EnabledOwned(KeyOf[q])'
               PROVE  sub'[h].lease > 0
    BY DEF Unexpired
  <2>1. h \in Handle /\ sub'[h].owner = KeyOf[q] /\ sub'[h].st = "on"
    BY DEF EnabledOwned, Owned
  <2>2. sub'[h].owner # NoOwner
    BY <1>4, <2>1, PoolAssumption
  <2>3. CASE sub'[h].lease = LeaseTTL
    BY <2>3, PoolAssumption
  <2>4. CASE sub'[h].owner = sub[h].owner /\ sub'[h].lease = sub[h].lease
    BY <2>1, <2>4 DEF ExclusiveInv, Unexpired, EnabledOwned, Owned, Timeless
  <2> QED BY <2>1, <2>2, <2>3, <2>4 DEF Timeless
<1>7. Blank' /\ Apart'
  BY DEF Blank, Timeless, ExclusiveInv, Apart
<1> QED BY <1>1, <1>5, <1>6, <1>7 DEF ExclusiveInv

LEMMA DownWhole ==
  ASSUME NEW p \in Worker
  PROVE  Moves(p, NoProc) /\ ~Runs(NoProc) /\ NoProc.victims = {} /\ Wants(NoProc) = {}
BY DEF Moves, Whole, Wants, Runs, NoProc

LEMMA RegisterWhole ==
  ASSUME ExclusiveInv, TypeOK', Punctual, NEW p \in Worker, Boot(p) \/ RegisterStep(p)
  PROVE  ExclusiveInv'
<1> USE MineWhole
<1>1. CASE Boot(p)
  <2>1. /\ Moves(p, [NoProc EXCEPT !.pc = "reap"])
        /\ ~Runs([NoProc EXCEPT !.pc = "reap"])
        /\ [NoProc EXCEPT !.pc = "reap"].victims = {}
    BY <1>1 DEF Boot, Punctual, Moves, Whole, Wants, Runs, NoProc
  <2> QED BY <1>1, <2>1, LocalWhole DEF Boot
<1>2. CASE RegisterConflict(p) \/ RegisterRefused(p)
  BY <1>2, DownWhole, LocalWhole DEF RegisterConflict, RegisterRefused
<1>3. CASE RegisterCheck(p)
  <2>1. row[KeyOf[p]].status = "absent" /\ ~proc[p].loop
    BY <1>3 DEF RegisterCheck, Whole, Runs
  <2>2. Become(p, [proc[p] EXCEPT !.pc = "insert"])
    BY <1>3, <2>1 DEF RegisterCheck
  <2>3. /\ Moves(p, [proc[p] EXCEPT !.pc = "insert"])
        /\ ~Runs([proc[p] EXCEPT !.pc = "insert"])
        /\ [proc[p] EXCEPT !.pc = "insert"].victims = proc[p].victims
    BY <1>3, <2>1 DEF RegisterCheck, Moves, Whole, Wants, Runs, Proc
  <2> QED BY <1>3, <2>2, <2>3, LocalWhole DEF RegisterCheck
<1>4. CASE RegisterWrite(p)
  <2> DEFINE k == KeyOf[p]
             r == [proc[p] EXCEPT !.pc = "extend"]
  <2>1. At(p, "insert") /\ row[k].status = "absent"
    BY <1>4 DEF RegisterWrite, Whole, Runs
  <2>2. /\ row' = [row EXCEPT ![k] = NewRow]
        /\ proc' = [proc EXCEPT ![p] = r] /\ UNCHANGED <<sub, apiVictims>>
    BY <1>4 DEF RegisterWrite, Become
  <2>3. /\ EnabledOwned(k) = {} /\ Off' = Off
        /\ \A q \in Worker : Safe(q)' = Safe(q) /\ EnabledOwned(KeyOf[q])' = EnabledOwned(KeyOf[q])
    BY <2>1, <2>2 DEF ExclusiveInv, Blank, Safe, Off, EnabledOwned, Owned
  <2>4. /\ Whole(r, Safe(p), Off, "running") /\ Runs(r) /\ r.victims = proc[p].victims
        /\ Wants(r) = {}
    BY <2>1 DEF Whole, Wants, Runs, Proc
  <2>5. row'[k].status = "running" /\ row'[k].age = 0 /\ row \in [Key -> Row]
    BY <2>2 DEF ExclusiveInv, TypeOK, NewRow
  <2>6. \A q \in Worker \ {p} : KeyOf[q] # k /\ row'[KeyOf[q]] = row[KeyOf[q]] /\ proc'[q] = proc[q]
    BY <2>2 DEF Punctual, ExclusiveInv, TypeOK
  <2>7. proc'[p] = r
    BY <2>2 DEF ExclusiveInv, TypeOK
  <2> HIDE DEF r
  <2>8. AllWhole'
    <3> SUFFICES ASSUME NEW q \in Worker
                 PROVE  Whole(proc'[q], Safe(q)', Off', row'[KeyOf[q]].status)
      BY DEF AllWhole
    <3>1. CASE q = p
      BY <2>3, <2>4, <2>5, <2>7, <3>1
    <3>2. CASE q # p
      BY <2>3, <2>6, <3>2
    <3> QED BY <3>1, <3>2
  <2>9. \A j \in Key : Marked(j)' => Marked(j)
    BY <2>2, <2>4, <2>6, <2>7 DEF Marked
  <2>10. Unreaped'
    <3>1. ASSUME NEW j \in Key, row'[j].status = "absent" PROVE ~Marked(j)'
      BY <2>2, <2>5, <2>9, <3>1 DEF ExclusiveInv, Unreaped
    <3>2. ASSUME NEW q \in Worker, Runs(proc'[q])
          PROVE  Fresh(KeyOf[q])' /\ ~Marked(KeyOf[q])'
      <4>1. CASE q = p
        BY <2>1, <2>5, <2>9, <4>1, PoolAssumption DEF ExclusiveInv, Unreaped, Fresh
      <4>2. CASE q # p
        BY <2>6, <2>9, <3>2, <4>2, PoolAssumption DEF ExclusiveInv, Unreaped, Fresh
      <4> QED BY <4>1, <4>2
    <3> QED BY <3>1, <3>2 DEF Unreaped
  <2>11. Unexpired'
    <3> SUFFICES ASSUME NEW q \in Worker, Runs(proc'[q]), NEW h \in EnabledOwned(KeyOf[q])'
                 PROVE  sub'[h].lease > 0
      BY DEF Unexpired
    <3> QED BY <2>2, <2>3, <2>6 DEF ExclusiveInv, Unexpired
  <2>12. Blank'
    BY <2>2, <2>5 DEF Blank, Owned, ExclusiveInv
  <2>13. Apart'
    BY <2>4, <2>6, <2>7, <2>8, StillApart
  <2> QED BY <2>8, <2>10, <2>11, <2>12, <2>13 DEF ExclusiveInv
<1> QED BY <1>1, <1>2, <1>3, <1>4 DEF RegisterStep

\* A claim takes from nobody who runs, and the claimed leases are in force.
LEMMA ClaimWhole ==
  ASSUME ExclusiveInv, Punctual, NEW p \in Worker, NEW n, NEW S \in SUBSET Handle,
         ClaimChoice(n, S), Claim(KeyOf[p], S), UNCHANGED row,
         row[KeyOf[p]].status # "absent"
  PROVE  /\ Timeless /\ Off' = Off
         /\ Safe(p)' = Safe(p) \cup S /\ S \subseteq EnabledOwned(KeyOf[p])'
         /\ \A q \in Worker \ {p} : Spared(q)
         /\ \A k \in Key : row[k].status = "absent" => Owned(k)' = {}
<1>1. sub \in [Handle -> Sub] /\ KeyOf[p] \in Key /\ KeyOf[p] # NoOwner
  BY PoolAssumption DEF ExclusiveInv, TypeOK
<1>2. \A h \in Handle : /\ sub'[h].st = sub[h].st
                        /\ sub'[h].owner = IF h \in S THEN KeyOf[p] ELSE sub[h].owner
                        /\ sub'[h].lease = IF h \in S THEN LeaseTTL ELSE sub[h].lease
  BY <1>1 DEF Claim, Sub
<1>3. Timeless /\ Off' = Off
  BY <1>2 DEF Timeless, Off
<1>4. \A h \in S : sub[h].st = "on" /\ (sub[h].owner = NoOwner \/ sub[h].lease = 0)
  BY DEF ClaimChoice, Claimable
<1>5. Safe(p)' = Safe(p) \cup S /\ S \subseteq EnabledOwned(KeyOf[p])'
  BY <1>2, <1>4 DEF Safe, EnabledOwned, Owned
<1>6. ASSUME NEW q \in Worker \ {p} PROVE Spared(q)
  <2> SUFFICES ASSUME Runs(proc[q]), NEW h \in Safe(q) PROVE h \in Safe(q)'
    BY DEF Spared
  <2>1. h \in Handle /\ KeyOf[q] \in Key /\ KeyOf[q] # NoOwner
    BY PoolAssumption DEF Safe
  <2>2. h \notin S
    <3> SUFFICES ASSUME h \in S PROVE FALSE
      OBVIOUS
    <3>1. h \in EnabledOwned(KeyOf[q])
      BY <1>4, <2>1 DEF Safe, EnabledOwned, Owned
    <3>2. sub[h].lease > 0 /\ sub[h].owner = KeyOf[q]
      BY <3>1 DEF ExclusiveInv, Unexpired, EnabledOwned, Owned
    <3> QED BY <1>4, <2>1, <3>2
  <2> QED BY <1>2, <2>1, <2>2 DEF Safe
<1>7. ASSUME NEW k \in Key, row[k].status = "absent" PROVE Owned(k)' = {}
  BY <1>2, <1>7 DEF ExclusiveInv, Blank, Owned
<1> QED BY <1>3, <1>5, <1>6, <1>7

LEMMA OrderWhole ==
  ASSUME ExclusiveInv, TypeOK', Punctual, NEW p \in Worker, OrderStep(p)
  PROVE  ExclusiveInv'
<1> USE MineWhole
<1>0. ASSUME proc[p].pc \in {"orders", "pausing", "reclaim", "resuming", "command"}
      PROVE  Runs(proc[p])
  BY <1>0 DEF Whole
<1>1. CASE OrdersPause(p)
  <2>1. Moves(p, [proc[p] EXCEPT !.paused = TRUE, !.cmd = row[KeyOf[p]].kill,
                              !.todo = proc[p].sessions, !.pc = "pausing"])
    BY <1>0, <1>1 DEF OrdersPause, Moves, Whole, Wants, Runs, Proc
  <2> QED BY <1>0, <1>1, <2>1, LocalWhole DEF OrdersPause, Proc
<1>2. CASE OrdersResume(p)
  <2>1. Moves(p, [proc[p] EXCEPT !.paused = FALSE, !.cmd = row[KeyOf[p]].kill, !.pc = "reclaim"])
    BY <1>0, <1>2 DEF OrdersResume, Moves, Whole, Wants, Runs, Proc
  <2> QED BY <1>0, <1>2, <2>1, LocalWhole DEF OrdersResume, Proc
<1>3. CASE OrdersOther(p)
  <2>1. PICK stop, kill : Become(p, [proc[p] EXCEPT !.stopReq = stop, !.cmd = kill,
                                                    !.pc = AfterOrders(kill)])
    BY <1>3 DEF OrdersOther
  <2>2. AfterOrders(kill) \in {"command", "extend"}
    BY DEF AfterOrders
  <2>3. Moves(p, [proc[p] EXCEPT !.stopReq = stop, !.cmd = kill, !.pc = AfterOrders(kill)])
    BY <1>0, <1>3, <2>2 DEF OrdersOther, Moves, Whole, Wants, Runs, Proc
  <2> QED BY <1>0, <1>3, <2>1, <2>3, LocalWhole DEF OrdersOther, Proc
<1>4. CASE KillCommand(p)
  <2>1. /\ Timeless /\ Off' = Off /\ EnabledOwned(KeyOf[p])' = EnabledOwned(KeyOf[p])
        /\ \A q \in Worker : Safe(q)' = Safe(q) /\ Spared(q)
    BY <1>4, PoolAssumption
    DEF KillCommand, Timeless, Spared, Safe, Off, EnabledOwned, Owned, ExclusiveInv, TypeOK, Row
  <2>2. row'[KeyOf[p]].status = row[KeyOf[p]].status
    BY <1>4 DEF KillCommand, ExclusiveInv, TypeOK, Row
  <2>3. Moves(p, [proc[p] EXCEPT !.stopReq = TRUE, !.cmd = FALSE, !.pc = "extend"])
    BY <1>0, <1>4 DEF KillCommand, Moves, Whole, Wants, Runs, Proc
  <2>4. \A k \in Key : row[k].status = "absent" => Owned(k)' = {}
    BY <1>4 DEF KillCommand, ExclusiveInv, Blank, Owned
  <2> QED BY <1>0, <1>4, <2>1, <2>2, <2>3, <2>4, ProcessWhole DEF KillCommand, Moves, Proc
<1>5. CASE ReclaimAll(p)
  <2>1. PICK S \in SUBSET Handle :
          /\ ClaimChoice(Capacity, S)
          /\ Claim(KeyOf[p], S)
          /\ Become(p, [proc[p] EXCEPT !.todo = S, !.pc = "resuming"])
          /\ UNCHANGED <<row, apiVictims>>
    BY <1>5 DEF ReclaimAll
  <2>2. Runs(proc[p]) /\ row[KeyOf[p]].status # "absent"
    BY <1>0, <1>5 DEF ReclaimAll, Whole
  <2>3. /\ Timeless /\ Off' = Off
        /\ Safe(p)' = Safe(p) \cup S /\ S \subseteq EnabledOwned(KeyOf[p])'
        /\ \A q \in Worker \ {p} : Spared(q)
        /\ \A k \in Key : row[k].status = "absent" => Owned(k)' = {}
    BY <2>1, <2>2, ClaimWhole
  <2>4. /\ Whole([proc[p] EXCEPT !.todo = S, !.pc = "resuming"],
                 Safe(p) \cup S, Off, row[KeyOf[p]].status)
        /\ Wants([proc[p] EXCEPT !.todo = S, !.pc = "resuming"]) \subseteq Wants(proc[p]) \cup S
    BY <1>5, <2>2 DEF ReclaimAll, Moves, Whole, Wants, Runs, Proc
  <2> QED BY <2>1, <2>2, <2>3, <2>4, ProcessWhole DEF Proc
<1>6. CASE OrdersDone(p)
  <2>1. AfterOrders(proc[p].cmd) \in {"command", "extend"}
    BY DEF AfterOrders
  <2>2. Moves(p, [proc[p] EXCEPT !.pc = AfterOrders(proc[p].cmd)])
    BY <1>0, <1>6, <2>1 DEF OrdersDone, Moves, Whole, Wants, Runs, Proc
  <2> QED BY <1>0, <1>6, <2>2, LocalWhole DEF OrdersDone, Proc
<1>7. ASSUME NEW h \in Handle, PauseStop(p, h) PROVE ExclusiveInv'
  <2>1. Moves(p, [proc[p] EXCEPT !.todo = @ \ {h}, !.sessions = @ \ {h}, !.up = @ \ {h}])
    BY <1>0, <1>7 DEF PauseStop, Moves, Whole, Wants, Runs, Proc
  <2> QED BY <1>0, <1>7, <2>1, LocalWhole DEF PauseStop, StopOne, Proc
<1> QED BY <1>1, <1>2, <1>3, <1>4, <1>5, <1>6, <1>7 DEF OrderStep


\* The write of a reaper spares whoever runs.
LEMMA ReapWhole ==
  ASSUME ExclusiveInv, NEW K, \A k \in Key \cap K : Marked(k), Reap(K)
  PROVE  /\ Timeless
         /\ \A q \in Worker : Spared(q)
         /\ \A k \in Key : row[k].status = "absent" => Owned(k)' = {}
<1>1. sub \in [Handle -> Sub] /\ row \in [Key -> Row] /\ \A q \in Worker : KeyOf[q] \in Key
  BY PoolAssumption DEF ExclusiveInv, TypeOK
<1>2. \A k \in Key : /\ row'[k].status = IF k \in K THEN "stale" ELSE row[k].status
                     /\ row'[k].age = row[k].age
  BY <1>1 DEF Reap, Row
<1>3. \A h \in Handle : IF sub[h].owner \in K
                        THEN sub'[h].owner = NoOwner /\ sub'[h].st = sub[h].st
                        ELSE sub'[h] = sub[h]
  BY <1>1 DEF Reap, ReleaseAll, Sub
<1>4. Timeless
  BY <1>2, <1>3 DEF Timeless, ExclusiveInv, Unreaped
<1>6. ASSUME NEW q \in Worker PROVE Spared(q)
  <2>1. Runs(proc[q]) => KeyOf[q] \notin K
    BY <1>1 DEF ExclusiveInv, Unreaped
  <2>2. KeyOf[q] # NoOwner
    BY <1>1, PoolAssumption
  <2> QED BY <1>3, <2>1, <2>2 DEF Spared, Safe
<1>7. ASSUME NEW k \in Key, row[k].status = "absent" PROVE Owned(k)' = {}
  BY <1>3, <1>7, PoolAssumption DEF ExclusiveInv, Blank, Owned
<1> QED BY <1>4, <1>6, <1>7

LEMMA PassWhole ==
  ASSUME ExclusiveInv, TypeOK', Punctual, NEW p \in Worker, PassStep(p)
  PROVE  ExclusiveInv'
<1> USE MineWhole
<1>0. ASSUME proc[p].pc \notin {"down", "reap", "reaping", "register", "insert"}
      PROVE  Runs(proc[p]) /\ row[KeyOf[p]].status # "absent"
  BY <1>0 DEF Whole
<1>1. CASE ReapSelect(p)
  <2>1. PICK l \in {"orders", "register", "reaping"} :
          /\ Become(p, [proc[p] EXCEPT !.victims = StaleRows, !.pc = l])
          /\ l = "orders" => proc[p].loop
          /\ l = "register" => ~proc[p].loop
    BY <1>1 DEF ReapSelect, AfterReap
  <2> DEFINE r == [proc[p] EXCEPT !.victims = StaleRows, !.pc = l]
  <2>2. /\ Moves(p, r)
        /\ Runs(r) => Runs(proc[p])
        /\ r.victims = StaleRows
    BY <1>1, <2>1 DEF ReapSelect, Moves, Whole, Wants, Runs, Proc
  <2> HIDE DEF r
  <2>3. Become(p, r) /\ UNCHANGED <<row, sub, apiVictims>>
    BY <1>1, <2>1 DEF ReapSelect, r
  <2> QED BY <2>2, <2>3, LocalWhole
<1>2. CASE ReapCommit(p)
  <2>1. PICK l \in {"orders", "register"} :
          /\ Become(p, [proc[p] EXCEPT !.victims = {}, !.pc = l])
          /\ l = "orders" => proc[p].loop
          /\ l = "register" => ~proc[p].loop
    BY <1>2 DEF ReapCommit, AfterReap
  <2> DEFINE r == [proc[p] EXCEPT !.victims = {}, !.pc = l]
  <2>2. /\ Moves(p, r) /\ Wants(r) \subseteq Wants(proc[p])
        /\ Runs(r) => Runs(proc[p])
        /\ r.victims = {}
    BY <1>2, <2>1 DEF ReapCommit, Moves, Whole, Wants, Runs, Proc
  <2> HIDE DEF r
  <2>3. Become(p, r) /\ UNCHANGED apiVictims /\ Reap(proc[p].victims)
    BY <1>2, <2>1 DEF ReapCommit, r
  <2>4. /\ Timeless
        /\ \A q \in Worker : Spared(q)
        /\ \A k \in Key : row[k].status = "absent" => Owned(k)' = {}
    BY <2>3, ReapWhole DEF Marked
  <2>5. Whole(r, Safe(p)', Off', row'[KeyOf[p]].status)
    BY <2>2, <2>4, SparedWhole DEF Moves
  <2> QED BY <2>2, <2>3, <2>4, <2>5, ProcessWhole
<1>3. CASE ExtendSelect(p)
  <2>1. EnabledOwned(KeyOf[p]) \subseteq Safe(p)
    BY DEF EnabledOwned, Owned, Safe
  <2>2. Moves(p, [proc[p] EXCEPT !.mine = EnabledOwned(KeyOf[p]), !.pc = "bump"])
    BY <1>0, <1>3, <2>1 DEF ExtendSelect, Moves, Whole, Wants, Runs, Proc
  <2> QED BY <1>0, <1>3, <2>2, LocalWhole DEF ExtendSelect, Proc
<1>4. CASE ExtendUpdate(p)
  <2>1. \A h \in Handle : /\ sub'[h].st = sub[h].st /\ sub'[h].owner = sub[h].owner
                          /\ sub'[h].lease \in {sub[h].lease, LeaseTTL}
    BY <1>4 DEF ExtendUpdate, ExclusiveInv, TypeOK, Sub
  <2>2. Timeless
    BY <1>4, <2>1 DEF ExtendUpdate, Timeless
  <2>3. /\ Off' = Off /\ EnabledOwned(KeyOf[p])' = EnabledOwned(KeyOf[p])
        /\ \A q \in Worker : Safe(q)' = Safe(q) /\ Spared(q)
    BY <2>1 DEF Spared, Safe, Off, EnabledOwned, Owned
  <2>4. \A k \in Key : row[k].status = "absent" => Owned(k)' = {}
    BY <2>1 DEF ExclusiveInv, Blank, Owned
  <2>5. Moves(p, [proc[p] EXCEPT !.todo = proc[p].sessions \ proc[p].mine, !.pc = "lost"])
    BY <1>4 DEF ExtendUpdate, Moves, Whole, Wants, Runs, Proc
  <2> QED BY <1>0, <1>4, <2>2, <2>3, <2>4, <2>5, ProcessWhole DEF ExtendUpdate, Moves, Proc
<1>5. CASE View(p)
  <2>1. Moves(p, [proc[p] EXCEPT !.todo = {h \in proc[p].mine : sub[h].st # "on"}, !.pc = "trim"])
    BY <1>5 DEF View, Off, Moves, Whole, Wants, Runs, Proc
  <2> QED BY <1>0, <1>5, <2>1, LocalWhole DEF View, Proc
<1>6. CASE RecycleDone(p)
  <2>1. Moves(p, [proc[p] EXCEPT !.todo = proc[p].mine \ proc[p].sessions, !.pc = "resume"])
    BY <1>6 DEF RecycleDone, Moves, Whole, Wants, Runs, Proc
  <2> QED BY <1>0, <1>6, <2>1, LocalWhole DEF RecycleDone, Proc
<1>7. CASE ClaimMore(p)
  <2>1. PICK S \in SUBSET Handle :
          /\ ClaimChoice(FreeSlots(p), S)
          /\ Claim(KeyOf[p], S)
          /\ Become(p, [proc[p] EXCEPT !.todo = S, !.pc = "start"])
          /\ UNCHANGED <<row, apiVictims>>
    BY <1>7 DEF ClaimMore
  <2>2. Runs(proc[p]) /\ row[KeyOf[p]].status # "absent"
    BY <1>0, <1>7 DEF ClaimMore
  <2>3. /\ Timeless /\ Off' = Off
        /\ Safe(p)' = Safe(p) \cup S /\ S \subseteq EnabledOwned(KeyOf[p])'
        /\ \A q \in Worker \ {p} : Spared(q)
        /\ \A k \in Key : row[k].status = "absent" => Owned(k)' = {}
    BY <2>1, <2>2, ClaimWhole
  <2>4. /\ Whole([proc[p] EXCEPT !.todo = S, !.pc = "start"],
                 Safe(p) \cup S, Off, row[KeyOf[p]].status)
        /\ Wants([proc[p] EXCEPT !.todo = S, !.pc = "start"]) \subseteq Wants(proc[p]) \cup S
    BY <1>7, <2>2 DEF ClaimMore, Moves, Whole, Wants, Runs, Proc
  <2> QED BY <2>1, <2>2, <2>3, <2>4, ProcessWhole DEF Proc
<1>8. CASE EndPass(p)
  <2>1. Moves(p, [proc[p] EXCEPT !.mine = {}, !.loop = TRUE, !.pc = "idle"])
    BY <1>0, <1>8 DEF EndPass, Moves, Whole, Wants, Runs, Proc
  <2> QED BY <1>0, <1>8, <2>1, LocalWhole DEF EndPass, Proc
<1>9. CASE NextPass(p)
  <2>1. Moves(p, [proc[p] EXCEPT !.pc = "reap"])
    BY <1>0, <1>9 DEF NextPass, Moves, Whole, Wants, Runs, Proc
  <2> QED BY <1>0, <1>9, <2>1, LocalWhole DEF NextPass, Proc
<1>10. ASSUME NEW h \in Handle, DropLost(p, h) PROVE ExclusiveInv'
  <2>1. Moves(p, [proc[p] EXCEPT !.todo = @ \ {h}, !.sessions = @ \ {h}, !.up = @ \ {h}])
    BY <1>10 DEF DropLost, Moves, Whole, Wants, Runs, Proc
  <2> QED BY <1>0, <1>10, <2>1, LocalWhole DEF DropLost, StopOne, Proc
<1>11. ASSUME NEW h \in Handle, At(p, "trim"), GiveUp(p, h) PROVE ExclusiveInv'
  <2>1. \A g \in Handle : IF g = h /\ sub[g].owner = KeyOf[p]
                          THEN sub'[g].owner = NoOwner /\ sub'[g].st = sub[g].st
                          ELSE sub'[g] = sub[g]
    BY <1>11 DEF GiveUp, ReleaseMine, ExclusiveInv, TypeOK, Sub
  <2>2. Timeless
    BY <1>11, <2>1 DEF GiveUp, Timeless
  <2>3. Safe(p) \ {h} \subseteq Safe(p)' /\ Off' = Off
    BY <2>1 DEF Safe, Off
  <2>4. \A q \in Worker \ {p} : Spared(q)
    BY <2>1, PoolAssumption DEF Spared, Safe, Punctual
  <2>5. \A k \in Key : row[k].status = "absent" => Owned(k)' = {}
    BY <2>1, PoolAssumption DEF ExclusiveInv, Blank, Owned
  <2> DEFINE r == [proc[p] EXCEPT !.todo = @ \ {h}, !.mine = @ \ {h},
                                  !.sessions = @ \ {h}, !.up = @ \ {h}]
  <2>6. /\ Whole(r, Safe(p) \ {h}, Off, row[KeyOf[p]].status) /\ Runs(r)
        /\ Wants(r) \subseteq Wants(proc[p]) /\ r.victims = proc[p].victims
    BY <1>0, <1>11 DEF Whole, Wants, Runs, Proc
  <2>7. Become(p, r) /\ UNCHANGED <<row, apiVictims>>
    BY <1>11 DEF GiveUp
  <2> HIDE DEF r
  <2>8. Whole(r, Safe(p)', Off', row'[KeyOf[p]].status)
    BY <2>3, <2>6, <2>7 DEF Whole
  <2> QED BY <1>0, <1>11, <2>2, <2>4, <2>5, <2>6, <2>7, <2>8, ProcessWhole
<1>12. ASSUME NEW h \in Handle, StartSession(p, h) PROVE ExclusiveInv'
  <2>1. Moves(p, [proc[p] EXCEPT !.todo = @ \ {h}, !.sessions = @ \cup {h}])
    BY <1>0, <1>12 DEF StartSession, Moves, Whole, Wants, Runs, Proc
  <2> QED BY <1>0, <1>12, <2>1, LocalWhole DEF StartSession, Proc
<1> QED BY <1>1, <1>2, <1>3, <1>4, <1>5, <1>6, <1>7, <1>8, <1>9, <1>10, <1>11, <1>12
        DEF PassStep, ReleaseDisabled, Recycle


\* A failing call, a crash, a heartbeat and the shutdown.
LEMMA FaultWhole ==
  ASSUME ExclusiveInv, TypeOK', Punctual, NEW p \in Worker,
         FaultStep(p) \/ HeartbeatStep(p) \/ StopStep(p)
  PROVE  ExclusiveInv'
<1> USE MineWhole
<1>0. ASSUME proc[p].pc \notin {"down", "reap", "reaping", "register", "insert"}
      PROVE  Runs(proc[p])
  BY <1>0 DEF Whole
<1>1. CASE ExtendFails(p)
  <2>1. PICK l \in {"lost", "trim"} :
          Become(p, [proc[p] EXCEPT !.mine = proc[p].sessions, !.todo = {}, !.pc = l])
    BY <1>1 DEF ExtendFails
  <2>2. Moves(p, [proc[p] EXCEPT !.mine = proc[p].sessions, !.todo = {}, !.pc = l])
    BY <1>0, <1>1 DEF ExtendFails, Moves, Whole, Wants, Runs, Proc
  <2> QED BY <1>0, <1>1, <2>1, <2>2, LocalWhole DEF ExtendFails, Proc
<1>2. CASE PassFails(p)
  <2>1. CASE proc[p].loop
    <3>1. Moves(p, [proc[p] EXCEPT !.mine = {}, !.pc = "idle"])
      BY <1>2, <2>1 DEF PassFails, Moves, Whole, Wants, Runs, Proc
    <3> QED BY <1>0, <1>2, <2>1, <3>1, LocalWhole DEF PassFails, Proc
  <2>2. CASE ~proc[p].loop
    BY <1>2, <2>2, DownWhole, LocalWhole DEF PassFails
  <2> QED BY <2>1, <2>2
<1>3. CASE Crash(p)
  BY <1>3, DownWhole, LocalWhole DEF Crash
<1>4. CASE ReapFails(p)
  <2>1. PICK l \in {"orders", "register"} :
          /\ Become(p, [proc[p] EXCEPT !.pc = l])
          /\ l = "orders" => proc[p].loop
          /\ l = "register" => ~proc[p].loop
    BY <1>4 DEF ReapFails, Goto, AfterReap
  <2>2. /\ Moves(p, [proc[p] EXCEPT !.pc = l])
        /\ Runs([proc[p] EXCEPT !.pc = l]) => Runs(proc[p])
    BY <1>4, <2>1 DEF ReapFails, Moves, Whole, Wants, Runs, Proc
  <2> QED BY <1>4, <2>1, <2>2, LocalWhole DEF ReapFails, Proc
<1>5. CASE OrdersFail(p)
  <2>1. Moves(p, [proc[p] EXCEPT !.cmd = FALSE, !.pc = "extend"])
    BY <1>0, <1>5 DEF OrdersFail, Moves, Whole, Wants, Runs, Proc
  <2> QED BY <1>0, <1>5, <2>1, LocalWhole DEF OrdersFail, Proc
<1>6. CASE ClaimFails(p)
  <2>1. Moves(p, [proc[p] EXCEPT !.pc = "start"])
    BY <1>0, <1>6 DEF ClaimFails, Moves, Whole, Wants, Runs, Proc
  <2> QED BY <1>0, <1>6, <2>1, LocalWhole DEF ClaimFails, Goto, Proc
<1>7. ASSUME NEW h \in Handle, ReleaseFails(p, h) PROVE ExclusiveInv'
  <2>1. Moves(p, [proc[p] EXCEPT !.todo = @ \ {h}, !.mine = @ \ {h},
                              !.sessions = @ \ {h}, !.up = @ \ {h}])
    BY <1>7 DEF ReleaseFails, Moves, Whole, Wants, Runs, Proc
  <2> QED BY <1>0, <1>7, <2>1, LocalWhole DEF ReleaseFails, Proc
<1>8. CASE HeartbeatBegin(p)
  <2>1. PICK s : Become(p, [proc[p] EXCEPT !.hb = s])
    BY <1>8 DEF HeartbeatBegin
  <2>2. Moves(p, [proc[p] EXCEPT !.hb = s])
    BY <1>8 DEF HeartbeatBegin, Serving, Moves, Whole, Wants, Runs, Proc
  <2>3. Runs([proc[p] EXCEPT !.hb = s]) => Runs(proc[p])
    BY DEF Runs, Proc
  <2> QED BY <1>8, <2>1, <2>2, <2>3, LocalWhole DEF HeartbeatBegin, Proc
<1>9. CASE HeartbeatCommit(p)
  <2>1. row[KeyOf[p]].status # "absent" /\ proc[p].hb \in {"running", "paused"}
    BY <1>9 DEF HeartbeatCommit, Whole, Proc
  <2>2. \A k \in Key : /\ row'[k].status = IF k = KeyOf[p] THEN proc[p].hb ELSE row[k].status
                       /\ row'[k].age = IF k = KeyOf[p] THEN 0 ELSE row[k].age
    BY <1>9 DEF HeartbeatCommit, ExclusiveInv, TypeOK, Row
  <2>3. /\ Timeless /\ Off' = Off
        /\ \A q \in Worker : Safe(q)' = Safe(q) /\ Spared(q)
    BY <1>9, <2>1, <2>2 DEF HeartbeatCommit, Timeless, Spared, Safe, Off
  <2>4. /\ Whole([proc[p] EXCEPT !.hb = "none"], Safe(p), Off, row'[KeyOf[p]].status)
        /\ Wants([proc[p] EXCEPT !.hb = "none"]) \subseteq Wants(proc[p])
    BY <2>1, <2>2 DEF Moves, Whole, Wants, Runs, Proc
  <2>5. Runs([proc[p] EXCEPT !.hb = "none"]) => Runs(proc[p])
    BY DEF Runs, Proc
  <2>6. \A k \in Key : row[k].status = "absent" => Owned(k)' = {}
    BY <1>9 DEF HeartbeatCommit, ExclusiveInv, Blank, Owned
  <2> QED BY <1>9, <2>3, <2>4, <2>5, <2>6, ProcessWhole DEF HeartbeatCommit, Proc
<1>10. CASE Shutdown(p)
  <2>1. Moves(p, [proc[p] EXCEPT !.sessions = {}, !.up = {}, !.mine = {},
                              !.todo = {}, !.pc = "stopping"])
    BY <1>10 DEF Shutdown, Moves, Whole, Wants, Runs, Proc
  <2> QED BY <1>10, <2>1, LocalWhole DEF Shutdown, Runs, Proc
<1>11. CASE MarkStopped(p)
  <2> DEFINE r == [NoProc EXCEPT !.hb = proc[p].hb]
  <2>1. row[KeyOf[p]].status # "absent"
    BY <1>0, <1>11 DEF MarkStopped, Whole
  <2>2. \A k \in Key : /\ row'[k].status = IF k = KeyOf[p] THEN "stopped" ELSE row[k].status
                       /\ row'[k].age = row[k].age
    BY <1>11 DEF MarkStopped, ExclusiveInv, TypeOK, Row
  <2>3. \A h \in Handle : IF sub[h].owner = KeyOf[p]
                          THEN sub'[h].owner = NoOwner /\ sub'[h].st = sub[h].st
                          ELSE sub'[h] = sub[h]
    <3>1. ReleaseAll({KeyOf[p]}) /\ sub \in [Handle -> Sub]
      BY <1>11 DEF MarkStopped, ExclusiveInv, TypeOK
    <3> QED BY <3>1 DEF ReleaseAll, Sub
  <2>4. Timeless
    BY <2>1, <2>2, <2>3 DEF Timeless
  <2>5. \A q \in Worker \ {p} : Spared(q)
    BY <2>3 DEF Spared, Safe, Punctual
  <2>6. \A k \in Key : row[k].status = "absent" => Owned(k)' = {}
    BY <2>3, PoolAssumption DEF ExclusiveInv, Blank, Owned
  <2>7. /\ Whole(r, Safe(p)', Off', row'[KeyOf[p]].status) /\ Wants(r) = {}
        /\ ~Runs(r) /\ r.victims = {}
    BY <2>2 DEF Moves, Whole, Wants, Runs, NoProc
  <2>8. Become(p, r) /\ UNCHANGED apiVictims
    BY <1>11 DEF MarkStopped
  <2> HIDE DEF r
  <2> QED BY <2>4, <2>5, <2>6, <2>7, <2>8, ProcessWhole
<1> QED BY <1>1, <1>2, <1>3, <1>4, <1>5, <1>6, <1>7, <1>8, <1>9, <1>10, <1>11
        DEF FaultStep, HeartbeatStep, StopStep

\* Time passes, and every live worker is on time.
LEMMA TickWhole ==
  ASSUME ExclusiveInv, TypeOK', Punctual, Tick
  PROVE  ExclusiveInv'
<1>1. row \in [Key -> Row] /\ sub \in [Handle -> Sub] /\ \A q \in Worker : KeyOf[q] \in Key
  BY PoolAssumption DEF ExclusiveInv, TypeOK
<1>2. \A k \in Key : /\ row'[k].status = row[k].status
                     /\ row'[k].age = IF row[k].status = "absent" THEN row[k].age
                                      ELSE Older(row[k].age)
  BY <1>1 DEF Tick, Row
<1>3. \A h \in Handle : /\ sub'[h].owner = sub[h].owner /\ sub'[h].st = sub[h].st
                        /\ sub'[h].lease = Shorter(sub[h].lease)
  BY <1>1 DEF Tick, Sub
<1>4. UNCHANGED <<proc, apiVictims>> /\ OnTime
  BY DEF Tick, Punctual
<1>5. /\ \A k \in Key : Owned(k)' = Owned(k) /\ EnabledOwned(k)' = EnabledOwned(k)
      /\ \A q \in Worker : Safe(q)' = Safe(q)
      /\ Off' = Off
  BY <1>3 DEF Owned, EnabledOwned, Safe, Off
<1>6. AllWhole' /\ Apart' /\ Blank' /\ \A k \in Key : Marked(k)' = Marked(k)
  BY <1>1, <1>2, <1>4, <1>5 DEF ExclusiveInv, AllWhole, Apart, Blank, Marked
<1>7. Unreaped'
  <2>1. ASSUME NEW q \in Worker, Runs(proc[q]) PROVE Fresh(KeyOf[q])'
    <3>1. row[KeyOf[q]].age < StaleAfter /\ row[KeyOf[q]].age \in Nat
      BY <1>1, <1>4, <2>1, RunsRegistered, PoolAssumption DEF OnTime, Row, Age
    <3> QED BY <1>1, <1>2, <3>1, PoolAssumption DEF Fresh, Older
  <2> QED BY <1>1, <1>2, <1>4, <1>6, <2>1 DEF ExclusiveInv, Unreaped
<1>8. Unexpired'
  <2> SUFFICES ASSUME NEW q \in Worker, Runs(proc[q]), NEW h \in EnabledOwned(KeyOf[q])
               PROVE  sub'[h].lease > 0
    BY <1>1, <1>4, <1>5 DEF Unexpired
  <2>1. h \in Handle /\ sub[h].lease > 1 /\ sub[h].lease \in Nat
    BY <1>1, <1>4, RunsRegistered, PoolAssumption DEF OnTime, Sub, Lease, EnabledOwned, Owned
  <2> QED BY <1>3, <2>1 DEF Shorter
<1> QED BY <1>6, <1>7, <1>8 DEF ExclusiveInv

\* A step that changes no status and no age, enables nothing, and leaves the
\* owner and the lease of every creator that stays enabled.
LEMMA AsideWhole ==
  ASSUME ExclusiveInv, TypeOK', UNCHANGED <<proc, apiVictims>>,
         \A k \in Key : row'[k].status = row[k].status /\ row'[k].age = row[k].age,
         \A h \in Handle :
           /\ sub'[h].st = "on" => sub[h].st = "on"
           /\ \/ sub'[h].owner = sub[h].owner /\ sub'[h].lease = sub[h].lease
              \/ sub'[h].owner = NoOwner /\ sub'[h].st # "on"
  PROVE  ExclusiveInv'
<1>1. Timeless
  BY DEF Timeless
<1>2. \A q \in Worker : Spared(q)
  BY DEF Spared, Safe
<1>3. \A k \in Key : row[k].status = "absent" => Owned(k)' = {}
  BY PoolAssumption DEF ExclusiveInv, Blank, Owned
<1> QED BY <1>1, <1>2, <1>3, WorldWhole

LEMMA WorldStepWhole ==
  ASSUME ExclusiveInv, TypeOK', Punctual, WorldStep
  PROVE  ExclusiveInv'
<1>0. row \in [Key -> Row] /\ sub \in [Handle -> Sub]
  BY DEF ExclusiveInv, TypeOK
<1>1. ASSUME NEW p \in Worker, NEW h \in Handle, Connect(p, h) PROVE ExclusiveInv'
  <2>1. Moves(p, [proc[p] EXCEPT !.up = @ \cup {h}])
    BY <1>1, MineWhole DEF Connect, Moves, Whole, Wants, Runs, Proc
  <2> QED BY <1>1, <2>1, MineWhole, LocalWhole DEF Connect, Runs, Proc
<1>2. ASSUME NEW p \in Worker, NEW h \in Handle, Disconnect(p, h) PROVE ExclusiveInv'
  <2>1. Moves(p, [proc[p] EXCEPT !.up = @ \ {h}])
    BY <1>2, MineWhole DEF Disconnect, Moves, Whole, Wants, Runs, Proc
  <2> QED BY <1>2, <2>1, MineWhole, LocalWhole DEF Disconnect, Runs, Proc
<1>3. ASSUME NEW p \in Worker, NEW h \in Handle, Scrape(p, h) PROVE ExclusiveInv'
  BY <1>0, <1>3, AsideWhole DEF Scrape, Sub
<1>4. ASSUME NEW h \in Handle, RequestReconnect(h) \/ Disable(h) \/ Delete(h) PROVE ExclusiveInv'
  BY <1>0, <1>4, AsideWhole DEF RequestReconnect, Disable, Delete, NoSub, Sub
<1>5. ASSUME NEW h \in Handle, Enable(h) \/ Release(h) PROVE FALSE
  BY <1>5 DEF Enable, Release, Punctual
<1>6. ASSUME NEW k \in Key, NEW order \in {"pause", "unpause", "kill"}, SetTarget(k, order)
      PROVE  ExclusiveInv'
  BY <1>0, <1>6, AsideWhole DEF SetTarget, Row
<1>7. CASE ApiReapSelect
  <2>1. Timeless
    BY <1>7 DEF ApiReapSelect, Timeless
  <2>2. \A q \in Worker : Spared(q)
    BY <1>7 DEF ApiReapSelect, Spared, Safe
  <2>3. \A k \in Key : row[k].status = "absent" => Owned(k)' = {}
    BY <1>7 DEF ApiReapSelect, ExclusiveInv, Blank, Owned
  <2> QED BY <1>7, <2>1, <2>2, <2>3, WorldWhole DEF ApiReapSelect
<1>8. CASE ApiReapCommit
  <2>1. \A k \in Key \cap apiVictims : Marked(k)
    BY DEF Marked
  <2>2. Reap(apiVictims)
    BY <1>8 DEF ApiReapCommit
  <2>3. /\ Timeless
        /\ \A q \in Worker : Spared(q)
        /\ \A k \in Key : row[k].status = "absent" => Owned(k)' = {}
    BY <2>1, <2>2, ReapWhole
  <2> QED BY <1>8, <2>3, WorldWhole DEF ApiReapCommit
<1> QED BY <1>1, <1>2, <1>3, <1>4, <1>5, <1>6, <1>7, <1>8, TickWhole DEF WorldStep

LEMMA InitExclusive == Init => ExclusiveInv
<1> SUFFICES ASSUME Init PROVE ExclusiveInv
  OBVIOUS
<1>0. \A b \in BOOLEAN : [NoSub EXCEPT !.st = "on", !.live = b].owner = NoOwner
  BY DEF NoSub
<1>1. \A h \in Handle : sub[h].owner = NoOwner
  BY <1>0 DEF Init
<1>2. \A k \in Key : Owned(k) = {}
  BY <1>1, PoolAssumption DEF Owned
<1>3. ASSUME NEW p \in Worker
      PROVE  /\ ~Runs(proc[p]) /\ proc[p].victims = {} /\ Wants(proc[p]) = {}
             /\ Whole(proc[p], Safe(p), Off, row[KeyOf[p]].status)
  BY DownWhole DEF Moves, Init
<1>4. Apart /\ Unreaped /\ Unexpired /\ Blank
  BY <1>2, <1>3 DEF Apart, Unreaped, Unexpired, Blank, Marked, Init
<1> QED BY <1>3, <1>4, InitTypeOK DEF ExclusiveInv, AllWhole

LEMMA StepExclusive ==
  ASSUME Punctual, ExclusiveInv, TypeOK', [Next]_vars
  PROVE  ExclusiveInv'
<1>1. CASE UNCHANGED vars
  BY <1>1 DEF vars, ExclusiveInv, TypeOK, AllWhole, Safe, Off, Owned, EnabledOwned,
              Apart, Unreaped, Unexpired, Blank, Marked, Fresh
<1>2. ASSUME NEW p \in Worker,
             \/ Boot(p) \/ RegisterStep(p) \/ OrderStep(p) \/ PassStep(p)
             \/ FaultStep(p) \/ HeartbeatStep(p) \/ StopStep(p)
      PROVE  ExclusiveInv'
  BY <1>2, RegisterWhole, OrderWhole, PassWhole, FaultWhole
<1> QED BY <1>1, <1>2, WorldStepWhole DEF Next

LEMMA ExclusiveInvariant ==
  ASSUME Punctual
  PROVE  Spec => []ExclusiveInv
<1>1. ExclusiveInv /\ TypeOK' /\ [Next]_vars => ExclusiveInv'
  BY StepExclusive
<1> QED BY <1>1, InitExclusive, TypeCorrect, PTL DEF Spec

\* No creator is ingested by two processes at once: of prompt processes with a
\* key each, that crash, stop, fail and are reaped, but are not restarted, while
\* administrators disable and delete creators.
THEOREM ExclusiveIngestCorrect ==
  ASSUME Punctual
  PROVE  Spec => []ExclusiveIngest
<1>1. ExclusiveInv => ExclusiveIngest
  BY DEF ExclusiveInv, Apart, Wants, ExclusiveIngest
<1> QED BY <1>1, ExclusiveInvariant, PTL

\* Nobody disables or deletes a creator.
Untouched == Env \cap {"disable", "delete"} = {}

AllOn == Off = {}

LEMMA ConnectedRuns ==
  ASSUME ExclusiveInv, AllOn, NEW p \in Worker, proc[p].up # {}
  PROVE  /\ Runs(proc[p]) /\ proc[p].up \subseteq Safe(p)
         /\ proc[p].pc # "stopping"
         /\ proc[p].pc = "trim" => proc[p].todo = {}
BY MineWhole DEF Whole, Wants, AllOn

\* What a step of process q, or of the world, leaves to the connected
\* sessions of process p.
LEMMA StepKeeps ==
  ASSUME Punctual, Untouched, ExclusiveInv, AllOn, AllOn', Next, NEW p \in Worker,
         NEW h \in proc[p].up
  PROVE  h \in Handle /\ sub'[h].owner = KeyOf[p]
<1>0. /\ proc[p].up \subseteq Safe(p) /\ Runs(proc[p])
      /\ proc[p].pc # "stopping"
      /\ proc[p].pc = "trim" => proc[p].todo = {}
  BY ConnectedRuns
<1>1. h \in Handle /\ sub[h].owner = KeyOf[p]
  BY <1>0 DEF Safe, Off, AllOn
<1>2. row \in [Key -> Row] /\ sub \in [Handle -> Sub] /\ KeyOf \in [Worker -> Key]
  BY PoolAssumption DEF ExclusiveInv, TypeOK
<1>3. ASSUME Spared(p) \/ Safe(p) \subseteq Safe(p)' PROVE sub'[h].owner = KeyOf[p]
  BY <1>0, <1>3 DEF Spared, Safe, Off, AllOn
<1>4. ASSUME UNCHANGED sub PROVE sub'[h].owner = KeyOf[p]
  BY <1>1, <1>4
<1>5. ASSUME NEW K, \A k \in Key \cap K : Marked(k), Reap(K) PROVE sub'[h].owner = KeyOf[p]
  BY <1>3, <1>5, ReapWhole
<1>6. ASSUME NEW q \in Worker, NEW n, NEW S \in SUBSET Handle, UNCHANGED row,
             ClaimChoice(n, S), Claim(KeyOf[q], S), row[KeyOf[q]].status # "absent"
      PROVE  sub'[h].owner = KeyOf[p]
  <2>1. /\ Safe(q)' = Safe(q) \cup S
        /\ \A r \in Worker \ {q} : Spared(r)
    BY <1>6, ClaimWhole
  <2> QED BY <1>3, <2>1
<1>7. ASSUME NEW q \in Worker, Boot(q) \/ RegisterStep(q) \/ FaultStep(q) \/ HeartbeatStep(q)
      PROVE  sub'[h].owner = KeyOf[p]
  BY <1>4, <1>7 DEF Boot, RegisterStep, RegisterConflict, RegisterCheck, RegisterWrite,
                    RegisterRefused, FaultStep, ExtendFails, PassFails, Crash, ReapFails,
                    OrdersFail, ClaimFails, ReleaseFails, HeartbeatStep, HeartbeatBegin,
                    HeartbeatCommit
<1>8. ASSUME NEW q \in Worker, OrderStep(q) PROVE sub'[h].owner = KeyOf[p]
  <2>1. CASE ReclaimAll(q)
    <3>1. row[KeyOf[q]].status # "absent"
      BY <2>1, MineWhole DEF ReclaimAll, Whole
    <3> QED BY <1>6, <2>1, <3>1 DEF ReclaimAll
  <2>2. CASE ~ReclaimAll(q)
    BY <1>4, <1>8, <2>2 DEF OrderStep, OrdersPause, OrdersResume, OrdersOther, KillCommand,
                            OrdersDone, PauseStop, StopOne
  <2> QED BY <2>1, <2>2
<1>9. ASSUME NEW q \in Worker, PassStep(q) PROVE sub'[h].owner = KeyOf[p]
  <2>1. CASE ReapCommit(q)
    BY <1>5, <2>1 DEF ReapCommit, Marked
  <2>2. CASE ExtendUpdate(q)
    BY <1>1, <1>2, <2>2 DEF ExtendUpdate, Sub
  <2>3. CASE ClaimMore(q)
    <3>1. row[KeyOf[q]].status # "absent"
      BY <2>3, MineWhole DEF ClaimMore, Whole
    <3> QED BY <1>6, <2>3, <3>1 DEF ClaimMore
  <2>4. ASSUME NEW g \in Handle, ReleaseDisabled(q, g) \/ Recycle(q, g)
        PROVE  sub'[h].owner = KeyOf[p]
    <3>1. q # p \/ g # h
      BY <1>0, <2>4 DEF ReleaseDisabled, Recycle
    <3>2. ReleaseMine(KeyOf[q], g)
      BY <2>4 DEF ReleaseDisabled, Recycle, GiveUp
    <3>3. g = h => KeyOf[q] # sub[h].owner
      BY <1>1, <3>1 DEF Punctual
    <3> QED BY <1>1, <1>2, <3>2, <3>3 DEF ReleaseMine
  <2>5. CASE \/ ReapSelect(q) \/ ExtendSelect(q) \/ View(q) \/ RecycleDone(q) \/ EndPass(q)
             \/ NextPass(q) \/ \E g \in Handle : DropLost(q, g) \/ StartSession(q, g)
    BY <1>4, <2>5 DEF ReapSelect, ExtendSelect, View, RecycleDone, EndPass, NextPass, DropLost,
                      StopOne, StartSession
  <2> QED BY <1>9, <2>1, <2>2, <2>3, <2>4, <2>5 DEF PassStep
<1>10. ASSUME NEW q \in Worker, StopStep(q) PROVE sub'[h].owner = KeyOf[p]
  <2>1. CASE Shutdown(q)
    BY <1>4, <2>1 DEF Shutdown
  <2>2. CASE MarkStopped(q)
    <3>1. q # p
      BY <1>0, <2>2 DEF MarkStopped
    <3>2. KeyOf[p] \notin {KeyOf[q]}
      BY <3>1 DEF Punctual
    <3>3. sub' = [g \in Handle |-> IF sub[g].owner \in {KeyOf[q]}
                                   THEN [sub[g] EXCEPT !.owner = NoOwner, !.lease = 0]
                                   ELSE sub[g]]
      BY <2>2 DEF MarkStopped, ReleaseAll
    <3> QED BY <1>1, <3>2, <3>3
  <2> QED BY <1>10, <2>1, <2>2 DEF StopStep
<1>11. ASSUME WorldStep PROVE sub'[h].owner = KeyOf[p]
  <2>1. CASE ApiReapCommit
    BY <1>5, <2>1 DEF ApiReapCommit, Marked
  <2>2. CASE Tick
    BY <1>1, <1>2, <2>2 DEF Tick, Sub
  <2>3. ASSUME NEW g \in Handle,
               \/ \E q \in Worker : Connect(q, g) \/ Disconnect(q, g) \/ Scrape(q, g)
               \/ RequestReconnect(g) \/ Enable(g) \/ Disable(g) \/ Delete(g) \/ Release(g)
        PROVE  sub'[h].owner = KeyOf[p]
    <3>1. ~(Enable(g) \/ Disable(g) \/ Delete(g) \/ Release(g))
      BY DEF Enable, Disable, Delete, Release, Punctual, Untouched
    <3>2. CASE \E q \in Worker : Connect(q, g) \/ Disconnect(q, g)
      BY <1>4, <3>2 DEF Connect, Disconnect
    <3>3. CASE (\E q \in Worker : Scrape(q, g)) \/ RequestReconnect(g)
      BY <1>1, <1>2, <3>3 DEF Scrape, RequestReconnect, Sub
    <3> QED BY <2>3, <3>1, <3>2, <3>3
  <2>4. CASE ApiReapSelect \/ \E k \in Key, order \in {"pause", "unpause", "kill"} : SetTarget(k, order)
    BY <1>4, <2>4 DEF ApiReapSelect, SetTarget
  <2> QED BY <1>11, <2>1, <2>2, <2>3, <2>4 DEF WorldStep
<1> QED BY <1>1, <1>7, <1>8, <1>9, <1>10, <1>11 DEF Next

\* While nobody disables or deletes a creator, all stay enabled.
LEMMA StaysOn ==
  ASSUME Untouched, TypeOK, AllOn, [Next]_vars
  PROVE  AllOn'
<1>1. sub \in [Handle -> Sub]
  BY DEF TypeOK
<1> SUFFICES ASSUME NEW h \in Handle PROVE sub'[h].st = sub[h].st
  BY DEF AllOn, Off
<1>2. CASE UNCHANGED sub
  BY <1>2
<1>3. ASSUME NEW K, ReleaseAll(K) PROVE sub'[h].st = sub[h].st
  BY <1>1, <1>3 DEF ReleaseAll, Sub
<1>4. ASSUME NEW k, NEW S, Claim(k, S) PROVE sub'[h].st = sub[h].st
  BY <1>1, <1>4 DEF Claim, Sub
<1>5. ASSUME NEW p \in Worker PROVE Boot(p) \/ RegisterStep(p) \/ HeartbeatStep(p) => UNCHANGED sub
  BY DEF Boot, RegisterStep, RegisterConflict, RegisterCheck, RegisterWrite, RegisterRefused,
         HeartbeatStep, HeartbeatBegin, HeartbeatCommit
<1>6. ASSUME NEW p \in Worker, FaultStep(p) PROVE UNCHANGED sub
  BY <1>6 DEF FaultStep, ExtendFails, PassFails, Crash, ReapFails, OrdersFail, ClaimFails,
              ReleaseFails
<1>7. ASSUME NEW p \in Worker, OrderStep(p) PROVE sub'[h].st = sub[h].st
  BY <1>2, <1>4, <1>7 DEF OrderStep, OrdersPause, OrdersResume, OrdersOther, KillCommand,
                          ReclaimAll, OrdersDone, PauseStop, StopOne
<1>8. ASSUME NEW p \in Worker, PassStep(p) PROVE sub'[h].st = sub[h].st
  <2>1. CASE ReapCommit(p) \/ ClaimMore(p)
    BY <1>3, <1>4, <2>1 DEF ReapCommit, Reap, ClaimMore
  <2>2. CASE ExtendUpdate(p)
    BY <1>1, <2>2 DEF ExtendUpdate, Sub
  <2>3. CASE \E g \in Handle : ReleaseDisabled(p, g) \/ Recycle(p, g)
    <3>1. PICK g \in Handle : ReleaseMine(KeyOf[p], g)
      BY <2>3 DEF ReleaseDisabled, Recycle, GiveUp
    <3> QED BY <1>1, <3>1 DEF ReleaseMine, Sub
  <2>4. CASE \/ ReapSelect(p) \/ ExtendSelect(p) \/ View(p) \/ RecycleDone(p) \/ EndPass(p)
             \/ NextPass(p) \/ \E g \in Handle : DropLost(p, g) \/ StartSession(p, g)
    BY <1>2, <2>4 DEF ReapSelect, ExtendSelect, View, RecycleDone, EndPass, NextPass, DropLost,
                      StopOne, StartSession
  <2> QED BY <1>8, <2>1, <2>2, <2>3, <2>4 DEF PassStep
<1>9. ASSUME NEW p \in Worker, StopStep(p) PROVE sub'[h].st = sub[h].st
  BY <1>2, <1>3, <1>9 DEF StopStep, Shutdown, MarkStopped
<1>10. CASE WorldStep
  <2>1. CASE ApiReapCommit \/ Tick
    BY <1>1, <1>3, <2>1 DEF ApiReapCommit, Reap, Tick, Sub
  <2>2. CASE \/ ApiReapSelect
             \/ \E p \in Worker, g \in Handle : Connect(p, g) \/ Disconnect(p, g)
             \/ \E k \in Key, order \in {"pause", "unpause", "kill"} : SetTarget(k, order)
    BY <1>2, <2>2 DEF ApiReapSelect, Connect, Disconnect, SetTarget
  <2>3. ASSUME NEW g \in Handle,
               \/ \E p \in Worker : Scrape(p, g)
               \/ RequestReconnect(g) \/ Enable(g) \/ Disable(g) \/ Delete(g) \/ Release(g)
        PROVE  sub'[h].st = sub[h].st
    <3>1. sub[g].st = "on" /\ ~Disable(g) /\ ~Delete(g)
      BY DEF AllOn, Off, Disable, Delete, Untouched
    <3> QED BY <1>1, <2>3, <3>1 DEF Scrape, RequestReconnect, Enable, Release, Sub
  <2> QED BY <1>10, <2>1, <2>2, <2>3 DEF WorldStep
<1>11. CASE UNCHANGED vars
  BY <1>2, <1>11 DEF vars
<1> QED BY <1>2, <1>5, <1>6, <1>7, <1>8, <1>9, <1>10, <1>11 DEF Next

LEMMA AllOnInvariant ==
  ASSUME Untouched
  PROVE  Spec => []AllOn
<1>1. Init => AllOn
  <2>1. \A b \in BOOLEAN : [NoSub EXCEPT !.st = "on", !.live = b].st = "on"
    BY DEF NoSub
  <2>2. ASSUME Init, NEW h \in Handle PROVE sub[h].st = "on"
    <3>1. sub[h] \in {[NoSub EXCEPT !.st = "on", !.live = b] : b \in BOOLEAN}
      BY <2>2 DEF Init
    <3> QED BY <2>1, <3>1
  <2> QED BY <2>2 DEF AllOn, Off
<1>2. TypeOK /\ AllOn /\ [Next]_vars => AllOn'
  BY StaysOn
<1> QED BY <1>1, <1>2, TypeCorrect, PTL DEF Spec

\* A connected session's handle is not taken from its worker, neither by a
\* reaper, nor by a sibling's claim, nor by the worker's own recycling.
THEOREM ConnectedHandleKeptCorrect ==
  ASSUME Punctual, Untouched
  PROVE  Spec => ConnectedHandleKept
<1>1. ASSUME ExclusiveInv, AllOn, AllOn', [Next]_vars, NEW p \in Worker, NEW h \in Handle,
             h \in proc[p].up, sub[h].owner = KeyOf[p]
      PROVE  sub'[h].owner = KeyOf[p]
  <2>1. CASE Next
    BY <1>1, <2>1, StepKeeps
  <2>2. CASE UNCHANGED vars
    BY <1>1, <2>2 DEF vars
  <2> QED BY <1>1, <2>1, <2>2
<1>2. ExclusiveInv /\ AllOn /\ AllOn' /\ [Next]_vars =>
        [\A p \in Worker, h \in Handle :
           h \in proc[p].up /\ sub[h].owner = KeyOf[p] => sub'[h].owner = KeyOf[p]]_vars
  BY <1>1
<1> QED BY <1>2, ExclusiveInvariant, AllOnInvariant, PTL DEF Spec, ConnectedHandleKept

-----------------------------------------------------------------------------
(***************************************************************************)
(* One process per key.  Two processes that are given the same key both    *)
(* look at the row before they write it.  The second finds the row the     *)
(* first one keeps fresh, or its INSERT is refused; it takes over only     *)
(* after the first has gone for good.                                      *)
(***************************************************************************)

\* A process with memory r has been started and has not registered.
Starting(r) == ~r.loop /\ r.pc \in {"reap", "reaping", "register", "insert"}

\* What holds of a process with memory r and row status s.
Placed(r, s) ==
  /\ Runs(r) \/ r.pc = "takeover" \/ r.hb # "none" => s # "absent"
  /\ Runs(r) \/ Starting(r) \/ r.pc \in {"down", "takeover"}
  /\ r.pc \in {"down", "register", "insert", "takeover"} => ~r.loop

AllPlaced == \A p \in Worker : Placed(proc[p], row[KeyOf[p]].status)

Rivals(p, q) == p # q /\ KeyOf[p] = KeyOf[q] /\ ~At(p, "down") /\ ~At(q, "down")

\* Nothing lets process q take the row of process p over.
Guarded(p, q) ==
  /\ \/ Runs(proc[p]) /\ Starting(proc[q])
     \/ Runs(proc[q]) /\ Starting(proc[p])
  /\ row[KeyOf[p]].status \in {"running", "paused"}
  /\ Fresh(KeyOf[p]) /\ ~Marked(KeyOf[p])

AllGuarded ==
  \A p, q \in Worker : Rivals(p, q) /\ row[KeyOf[p]].status # "absent" => Guarded(p, q)

UnmarkedBlank == \A k \in Key : row[k].status = "absent" => ~Marked(k)

AloneInv == TypeOK /\ AllPlaced /\ AllGuarded /\ UnmarkedBlank

\* At most two prompt processes per key, and no process is started again.  A
\* third process, or a second start, would take over from the first along with
\* the second: both read a row that is stopped, and an UPDATE refuses nobody.
Paired ==
  /\ \A p, q, w \in Worker : KeyOf[p] = KeyOf[q] /\ KeyOf[q] = KeyOf[w] => p = q \/ q = w \/ p = w
  /\ Prompt
  /\ "restart" \notin Env

\* What the writes of a step, that is not a registration and not a tick, do to
\* row k: a row nobody has selected is not marked stale.
RowKept(k) ==
  /\ row'[k].status = "absent" <=> row[k].status = "absent"
  /\ row'[k].age \in {row[k].age, 0}

StatusKept(k) == row'[k].status = row[k].status \/ row'[k].status \in {"running", "paused"}

\* How a step may move process p, to memory r, while it has a rival.
Steady(p, r) ==
  \A q \in Worker : Rivals(p, q) /\ row[KeyOf[p]].status # "absent" =>
    \/ r.pc = "down"
    \/ Runs(proc[p]) /\ Runs(r)
    \/ Starting(proc[p]) /\ Starting(r)

LEMMA MinePlaced ==
  ASSUME AloneInv, NEW p \in Worker
  PROVE  /\ proc[p] \in Proc /\ KeyOf[p] \in Key /\ row[KeyOf[p]] \in Row
         /\ Placed(proc[p], row[KeyOf[p]].status)
BY MemoryType DEF AloneInv, AllPlaced

\* Rivals that a step leaves alone stay guarded.
LEMMA StayGuarded ==
  ASSUME AloneInv, NEW a \in Worker, NEW b \in Worker,
         Rivals(a, b), row'[KeyOf[a]].status # "absent", RowKept(KeyOf[a]), StatusKept(KeyOf[a]),
         Marked(KeyOf[a])' => Marked(KeyOf[a]) \/ KeyOf[a] \in StaleRows,
         Runs(proc'[a]) <=> Runs(proc[a]), Starting(proc[a]) => Starting(proc'[a]),
         Runs(proc'[b]) <=> Runs(proc[b]), Starting(proc[b]) => Starting(proc'[b])
  PROVE  Guarded(a, b)'
<1>1. Guarded(a, b)
  BY DEF AloneInv, AllGuarded, RowKept
<1>2. KeyOf[a] \notin StaleRows
  BY <1>1 DEF Guarded, StaleRows
<1>3. Fresh(KeyOf[a])'
  BY <1>1, PoolAssumption DEF Guarded, Fresh, RowKept
<1>4. (row[KeyOf[a]].status \in {"running", "paused"})'
  BY <1>1 DEF Guarded, StatusKept
<1> QED BY <1>1, <1>2, <1>3, <1>4 DEF Guarded

\* A step of process p that is not its registration.
LEMMA ProcessAlone ==
  ASSUME AloneInv, TypeOK', Paired, NEW p \in Worker, NEW r, Become(p, r),
         apiVictims' = apiVictims, r.victims \subseteq proc[p].victims \cup StaleRows,
         Placed(r, row'[KeyOf[p]].status), Steady(p, r),
         r.pc # "down" => proc[p].pc # "down" \/ row[KeyOf[p]].status = "absent",
         \A k \in Key : RowKept(k),
         \A k \in Key : ~Marked(k) /\ (k = KeyOf[p] => r.pc # "down") => StatusKept(k)
  PROVE  AloneInv'
<1>0. /\ \A q \in Worker \ {p} : proc'[q] = proc[q]
      /\ proc'[p] = r
      /\ \A q \in Worker : KeyOf[q] \in Key
  BY PoolAssumption DEF Become, AloneInv, TypeOK
<1>1. AllPlaced'
  <2> SUFFICES ASSUME NEW q \in Worker PROVE Placed(proc'[q], row'[KeyOf[q]].status)
    BY DEF AllPlaced
  <2>1. CASE q = p
    BY <1>0, <2>1
  <2>2. CASE q # p
    BY <1>0, <2>2, MinePlaced DEF Placed, RowKept
  <2> QED BY <2>1, <2>2
<1>2. \A k \in Key : Marked(k)' => Marked(k) \/ k \in StaleRows
  BY <1>0 DEF Marked
<1>3. UnmarkedBlank'
  BY <1>2 DEF UnmarkedBlank, RowKept, StaleRows, AloneInv
<1>4. AllGuarded'
  <2> SUFFICES ASSUME NEW a \in Worker, NEW b \in Worker, Rivals(a, b)',
                      row'[KeyOf[a]].status # "absent"
               PROVE  Guarded(a, b)'
    BY DEF AllGuarded
  <2>1. row[KeyOf[a]].status # "absent"
    BY <1>0 DEF RowKept
  <2>2. Rivals(a, b)
    BY <1>0, <2>1 DEF Rivals, At
  <2>3. ~Marked(KeyOf[a])
    BY <2>1, <2>2 DEF AloneInv, AllGuarded, Guarded
  <2>4. /\ proc[a].pc # "down" /\ proc[b].pc # "down" /\ proc'[a].pc # "down" /\ proc'[b].pc # "down"
        /\ KeyOf[a] = KeyOf[b]
    BY <2>2 DEF Rivals, At
  <2>5. StatusKept(KeyOf[a])
    BY <1>0, <2>3, <2>4 DEF Paired, Rivals
  <2>6. ASSUME NEW c \in {a, b}
        PROVE  (Runs(proc'[c]) <=> Runs(proc[c])) /\ (Starting(proc[c]) => Starting(proc'[c]))
    <3>1. CASE c = p
      <4>1. \/ Runs(proc[p]) /\ Runs(r)
            \/ Starting(proc[p]) /\ Starting(r)
        <5>1. r.pc # "down"
          BY <1>0, <2>4, <3>1
        <5>2. PICK q \in {a, b} : Rivals(p, q)
          BY <2>2, <3>1 DEF Rivals
        <5>3. row[KeyOf[p]].status # "absent" /\ q \in Worker
          BY <2>1, <2>4, <3>1
        <5> QED BY <5>1, <5>2, <5>3 DEF Steady
      <4> QED BY <1>0, <3>1, <4>1 DEF Runs, Starting
    <3>2. CASE c # p
      BY <1>0, <3>2
    <3> QED BY <3>1, <3>2
  <2> QED BY <1>0, <1>2, <2>2, <2>5, <2>6, StayGuarded
<1> QED BY <1>1, <1>3, <1>4 DEF AloneInv

\* A step of a process that has registered, and either goes on or ends.
LEMMA RunsAlone ==
  ASSUME AloneInv, TypeOK', Paired, NEW p \in Worker, NEW r, Become(p, r),
         UNCHANGED <<row, apiVictims>>,
         \/ r = NoProc
         \/ /\ Runs(proc[p]) /\ Runs(r)
            /\ r.victims = proc[p].victims
            /\ r.pc \notin {"down", "register", "insert", "takeover"}
  PROVE  AloneInv'
<1>1. \A k \in Key : RowKept(k) /\ StatusKept(k)
  BY DEF RowKept, StatusKept
<1>2. CASE r = NoProc
  <2>1. Placed(r, row[KeyOf[p]].status) /\ r.victims = {} /\ r.pc = "down"
    BY <1>2 DEF Placed, Runs, Starting, NoProc
  <2>2. Steady(p, r)
    BY <2>1 DEF Steady
  <2> QED BY <1>1, <2>1, <2>2, ProcessAlone
<1>3. CASE r # NoProc
  <2>1. Placed(r, row[KeyOf[p]].status) /\ proc[p].pc # "down"
    BY <1>3, MinePlaced DEF Placed, Runs
  <2>2. Steady(p, r)
    BY <1>3 DEF Steady
  <2> QED BY <1>1, <1>3, <2>1, <2>2, ProcessAlone
<1> QED BY <1>2, <1>3

LEMMA RegisterAlone ==
  ASSUME AloneInv, TypeOK', Paired, NEW p \in Worker, Boot(p) \/ RegisterStep(p)
  PROVE  AloneInv'
<1> USE MinePlaced
<1>0. UNCHANGED row => \A k \in Key : RowKept(k) /\ StatusKept(k)
  BY DEF RowKept, StatusKept
<1>1. CASE Boot(p)
  <2> DEFINE r == [NoProc EXCEPT !.pc = "reap"]
  <2>1. row[KeyOf[p]].status = "absent" /\ Become(p, r) /\ UNCHANGED <<row, apiVictims>>
    BY <1>1 DEF Boot, Paired
  <2>2. Placed(r, row[KeyOf[p]].status) /\ r.victims = {}
    BY <2>1 DEF Placed, Runs, Starting, NoProc
  <2> HIDE DEF r
  <2>3. Steady(p, r)
    BY <2>1 DEF Steady
  <2> QED BY <1>0, <2>1, <2>2, <2>3, ProcessAlone
<1>2. CASE RegisterConflict(p) \/ RegisterRefused(p)
  BY <1>2, RunsAlone DEF RegisterConflict, RegisterRefused
<1>3. CASE RegisterCheck(p)
  <2>1. PICK l \in {"insert", "takeover"} :
          /\ Become(p, [proc[p] EXCEPT !.pc = l])
          /\ l = "insert" <=> row[KeyOf[p]].status = "absent"
    BY <1>3 DEF RegisterCheck, Goto
  <2> DEFINE r == [proc[p] EXCEPT !.pc = l]
  <2>2. Placed(r, row[KeyOf[p]].status) /\ r.victims = proc[p].victims /\ r.pc = l
    BY <1>3, <2>1 DEF RegisterCheck, Placed, Runs, Starting, Proc
  <2>3. \A q \in Worker : ~(Rivals(p, q) /\ row[KeyOf[p]].status # "absent")
    <3> SUFFICES ASSUME NEW q \in Worker, Rivals(p, q), row[KeyOf[p]].status # "absent"
                 PROVE  FALSE
      OBVIOUS
    <3> QED BY <1>3 DEF RegisterCheck, AloneInv, AllGuarded, Guarded
  <2>4. Become(p, r) /\ UNCHANGED <<row, apiVictims>> /\ proc[p].pc = "register"
    BY <1>3, <2>1 DEF RegisterCheck
  <2> HIDE DEF r
  <2>5. Steady(p, r)
    BY <2>3 DEF Steady
  <2> QED BY <1>0, <2>2, <2>4, <2>5, ProcessAlone
<1>4. CASE RegisterWrite(p)
  <2> DEFINE k == KeyOf[p]
             r == [proc[p] EXCEPT !.pc = "extend"]
  <2>1. /\ row' = [row EXCEPT ![k] = NewRow]
        /\ proc' = [proc EXCEPT ![p] = r] /\ UNCHANGED apiVictims
    BY <1>4 DEF RegisterWrite, Become, Goto
  <2>2. /\ row'[k].status = "running" /\ row'[k].age = 0
        /\ \A j \in Key \ {k} : row'[j] = row[j]
        /\ proc'[p] = r /\ \A q \in Worker \ {p} : proc'[q] = proc[q]
    BY <2>1 DEF AloneInv, TypeOK, NewRow
  <2>3. /\ Placed(r, "running") /\ Runs(r) /\ r.victims = proc[p].victims
        /\ proc[p].pc # "down" /\ ~Runs(proc[p])
        /\ ~Starting(proc[p]) \/ row[k].status = "absent"
    BY <1>4 DEF RegisterWrite, Placed, Runs, Starting, Proc
  <2> HIDE DEF r
  <2>4. ASSUME NEW q \in Worker, Rivals(p, q)
        PROVE  row[k].status = "absent" /\ Starting(proc[q])
    <3>1. row[k].status = "absent"
      BY <2>3, <2>4 DEF AloneInv, AllGuarded, Guarded
    <3> QED BY <2>4, <3>1 DEF Rivals, Placed
  <2>5. AllPlaced'
    <3> SUFFICES ASSUME NEW q \in Worker PROVE Placed(proc'[q], row'[KeyOf[q]].status)
      BY DEF AllPlaced
    <3>1. CASE q = p
      BY <2>2, <2>3, <3>1
    <3>2. CASE q # p
      BY <2>2, <3>2 DEF Placed
    <3> QED BY <3>1, <3>2
  <2>6. \A j \in Key : Marked(j)' => Marked(j)
    BY <2>1, <2>2, <2>3 DEF Marked
  <2>7. UnmarkedBlank'
    BY <2>2, <2>6 DEF UnmarkedBlank, AloneInv
  <2>8. AllGuarded'
    <3> SUFFICES ASSUME NEW a \in Worker, NEW b \in Worker, Rivals(a, b)',
                        row'[KeyOf[a]].status # "absent"
                 PROVE  Guarded(a, b)'
      BY DEF AllGuarded
    <3>1. Rivals(a, b) /\ KeyOf[a] \in Key
      BY <2>2, <2>3 DEF Rivals
    <3>2. CASE p \in {a, b}
      <4>1. PICK q \in {a, b} : q # p /\ Rivals(p, q) /\ {a, b} = {p, q}
        BY <3>1, <3>2 DEF Rivals
      <4>2. /\ KeyOf[a] = k /\ row[k].status = "absent" /\ Starting(proc[q])
            /\ proc'[q] = proc[q]
        BY <2>2, <2>4, <4>1 DEF Rivals
      <4>3. /\ Fresh(k)' /\ ~Marked(k)'
        BY <2>2, <2>6, <4>2, PoolAssumption DEF Fresh, AloneInv, UnmarkedBlank
      <4> QED BY <2>2, <2>3, <4>1, <4>2, <4>3 DEF Guarded
    <3>3. CASE p \notin {a, b}
      <4>1. KeyOf[a] # k
        BY <3>1, <3>3 DEF Rivals, Paired
      <4>2. row'[KeyOf[a]] = row[KeyOf[a]] /\ proc'[a] = proc[a] /\ proc'[b] = proc[b]
        BY <2>2, <3>1, <3>3, <4>1
      <4> QED BY <2>6, <3>1, <4>2, StayGuarded DEF RowKept, StatusKept
    <3> QED BY <3>2, <3>3
  <2> QED BY <2>5, <2>7, <2>8 DEF AloneInv
<1> QED BY <1>1, <1>2, <1>3, <1>4 DEF RegisterStep

\* A step that moves process p moves it to the memory it has afterwards.
LEMMA Moved ==
  ASSUME AloneInv, NEW p \in Worker, NEW r, Become(p, r)
  PROVE  proc'[p] = r /\ Become(p, proc'[p])
BY DEF Become, AloneInv, TypeOK

LEMMA OrderAlone ==
  ASSUME AloneInv, TypeOK', Paired, NEW p \in Worker, OrderStep(p)
  PROVE  AloneInv'
<1> USE MinePlaced
<1> DEFINE next == proc'[p]
<1>0. ASSUME proc[p].pc \in {"orders", "pausing", "reclaim", "resuming", "command"}
      PROVE  Runs(proc[p])
  BY <1>0 DEF Placed, Starting
<1>1. proc \in [Worker -> Proc] /\ \A c : AfterOrders(c) \in {"command", "extend"}
  BY DEF AloneInv, TypeOK, AfterOrders
<1>2. CASE KillCommand(p)
  <2> DEFINE r == [proc[p] EXCEPT !.stopReq = TRUE, !.cmd = FALSE, !.pc = "extend"]
  <2>1. \A k \in Key : row'[k].status = row[k].status /\ row'[k].age = row[k].age
    BY <1>2 DEF KillCommand, AloneInv, TypeOK, Row
  <2>2. \A k \in Key : RowKept(k) /\ StatusKept(k)
    BY <2>1 DEF RowKept, StatusKept
  <2>3. /\ Placed(r, row[KeyOf[p]].status) /\ Runs(r) /\ Runs(proc[p])
        /\ r.victims = proc[p].victims /\ proc[p].pc # "down"
    BY <1>0, <1>2 DEF KillCommand, Placed, Runs, Proc
  <2>4. Become(p, r) /\ UNCHANGED apiVictims
    BY <1>2 DEF KillCommand
  <2> HIDE DEF r
  <2>5. Steady(p, r)
    BY <2>3 DEF Steady
  <2> QED BY <2>1, <2>2, <2>3, <2>4, <2>5, ProcessAlone
<1>3. CASE \/ OrdersPause(p) \/ OrdersResume(p) \/ OrdersOther(p) \/ ReclaimAll(p)
           \/ OrdersDone(p) \/ \E h \in Handle : PauseStop(p, h)
  <2>1. /\ proc[p].pc \in {"orders", "pausing", "reclaim", "resuming"}
        /\ UNCHANGED <<row, apiVictims>>
    BY <1>3 DEF OrdersPause, OrdersResume, OrdersOther, ReclaimAll, OrdersDone, PauseStop, StopOne
  <2>2. /\ Become(p, next) /\ next.victims = proc[p].victims /\ next.loop = proc[p].loop
        /\ next.pc \in {"pausing", "reclaim", "command", "extend", "resuming"}
    <3>1. CASE OrdersPause(p)
      BY <3>1 DEF OrdersPause, Become, AloneInv, TypeOK, Proc
    <3>6. CASE OrdersResume(p)
      BY <3>6 DEF OrdersResume, Become, AloneInv, TypeOK, Proc
    <3>2. CASE OrdersOther(p)
      BY <1>1, <3>2 DEF OrdersOther, Become, AloneInv, TypeOK, Proc
    <3>3. CASE ReclaimAll(p)
      BY <3>3 DEF ReclaimAll, Become, AloneInv, TypeOK, Proc
    <3>4. CASE OrdersDone(p)
      BY <1>1, <3>4 DEF OrdersDone, Goto, Become, AloneInv, TypeOK, Proc
    <3>5. CASE \E h \in Handle : PauseStop(p, h)
      BY <3>5 DEF PauseStop, StopOne, Become, AloneInv, TypeOK, Proc
    <3> QED BY <1>3, <3>1, <3>2, <3>3, <3>4, <3>5, <3>6
  <2>3. Runs(next)
    BY <1>0, <2>1, <2>2 DEF Runs
  <2> QED BY <1>0, <2>1, <2>2, <2>3, RunsAlone
<1> QED BY <1>2, <1>3 DEF OrderStep

LEMMA PassAlone ==
  ASSUME AloneInv, TypeOK', Paired, NEW p \in Worker, PassStep(p) \/ ReapFails(p)
  PROVE  AloneInv'
<1> USE MinePlaced
<1> DEFINE next == proc'[p]
<1>0. ASSUME proc[p].pc \notin {"down", "takeover", "reap", "reaping", "register", "insert"}
      PROVE  Runs(proc[p])
  BY <1>0 DEF Placed, Starting
<1>1. CASE ReapSelect(p) \/ ReapFails(p) \/ ReapCommit(p)
  <2>1. /\ proc[p].pc \in {"reap", "reaping"}
        /\ UNCHANGED apiVictims
        /\ UNCHANGED row \/ Reap(proc[p].victims)
    BY <1>1 DEF ReapSelect, ReapFails, ReapCommit
  <2>2. /\ Become(p, next) /\ next.loop = proc[p].loop /\ next.hb = proc[p].hb
        /\ next.victims \subseteq proc[p].victims \cup StaleRows
        /\ next.pc \in {"reaping", "orders", "register"}
        /\ next.pc = "orders" => proc[p].loop
        /\ next.pc = "register" => ~proc[p].loop
    <3>1. CASE ReapSelect(p)
      BY <3>1 DEF ReapSelect, AfterReap, Become, AloneInv, TypeOK, Proc
    <3>2. CASE ReapFails(p)
      BY <3>2 DEF ReapFails, Goto, AfterReap, Become, AloneInv, TypeOK, Proc
    <3>3. CASE ReapCommit(p)
      BY <3>3 DEF ReapCommit, AfterReap, Become, AloneInv, TypeOK, Proc
    <3> QED BY <1>1, <3>1, <3>2, <3>3
  <2>3. ASSUME NEW k \in Key
        PROVE  /\ row'[k].age = row[k].age
               /\ \/ row'[k].status = row[k].status
                  \/ row[k].status # "absent" /\ row'[k].status = "stale"
               /\ ~Marked(k) => row'[k].status = row[k].status
    <3>1. CASE UNCHANGED row
      BY <3>1
    <3>2. CASE Reap(proc[p].victims)
      BY <3>2 DEF Reap, AloneInv, TypeOK, Row, UnmarkedBlank, Marked
    <3> QED BY <2>1, <3>1, <3>2
  <2>4. \A k \in Key : RowKept(k) /\ (~Marked(k) => StatusKept(k))
    BY <2>3 DEF RowKept, StatusKept
  <2>5. Runs(next) <=> Runs(proc[p])
    BY <2>1, <2>2 DEF Runs
  <2>6. Placed(next, row'[KeyOf[p]].status)
    BY <2>1, <2>2, <2>4, <2>5 DEF Placed, Starting, RowKept
  <2>7. Steady(p, next)
    BY <2>1, <2>2, <2>5 DEF Steady, Runs, Starting
  <2> QED BY <2>1, <2>2, <2>4, <2>6, <2>7, ProcessAlone
<1>2. CASE ~(ReapSelect(p) \/ ReapFails(p) \/ ReapCommit(p))
  <2> DEFINE InPass == {"extend", "bump", "lost", "trim", "resume", "start", "idle", "resuming"}
  <2>1. /\ proc[p].pc \in InPass
        /\ UNCHANGED <<row, apiVictims>>
    BY <1>2 DEF PassStep, ExtendSelect, ExtendUpdate, View, RecycleDone, ClaimMore, EndPass,
                NextPass, DropLost, StopOne, ReleaseDisabled, Recycle, GiveUp, StartSession
  <2>2. /\ Become(p, next) /\ next.victims = proc[p].victims
        /\ next.pc \in InPass \cup {"reap"}
        /\ proc[p].loop => next.loop
        /\ next.pc \in {"reap", "idle", "resuming"} => next.loop
    <3>1. CASE ExtendSelect(p)
      BY <3>1 DEF ExtendSelect, Become, AloneInv, TypeOK, Proc
    <3>8. CASE ExtendUpdate(p)
      BY <3>8 DEF ExtendUpdate, Become, AloneInv, TypeOK, Proc
    <3>2. CASE View(p)
      BY <3>2 DEF View, Become, AloneInv, TypeOK, Proc
    <3>9. CASE RecycleDone(p)
      BY <3>9 DEF RecycleDone, Become, AloneInv, TypeOK, Proc
    <3>3. CASE ClaimMore(p)
      BY <3>3 DEF ClaimMore, Become, AloneInv, TypeOK, Proc
    <3>10. CASE EndPass(p)
      BY <3>10 DEF EndPass, Become, AloneInv, TypeOK, Proc
    <3>4. CASE NextPass(p)
      BY <1>0, <3>4 DEF NextPass, Goto, Become, AloneInv, TypeOK, Proc, Runs
    <3>5. ASSUME NEW h \in Handle, StopOne(p, h)
          PROVE  /\ Become(p, next) /\ next.victims = proc[p].victims
                 /\ next.pc = proc[p].pc /\ next.loop = proc[p].loop
      BY <3>5 DEF StopOne, Become, AloneInv, TypeOK, Proc
    <3>11. ASSUME NEW h \in Handle, StartSession(p, h)
          PROVE  /\ Become(p, next) /\ next.victims = proc[p].victims
                 /\ next.pc = proc[p].pc /\ next.loop = proc[p].loop
      BY <3>11 DEF StartSession, Become, AloneInv, TypeOK, Proc
    <3>6. ASSUME NEW h \in Handle, GiveUp(p, h)
          PROVE  /\ Become(p, next) /\ next.victims = proc[p].victims
                 /\ next.pc = proc[p].pc /\ next.loop = proc[p].loop
      BY <3>6 DEF GiveUp, Become, AloneInv, TypeOK, Proc
    <3>7. proc[p].pc \in {"idle", "resuming"} => proc[p].loop
      BY <1>0, <2>1 DEF Runs
    <3>12. CASE \E h \in Handle : \/ DropLost(p, h) \/ StartSession(p, h)
                                 \/ ReleaseDisabled(p, h) \/ Recycle(p, h)
      BY <2>1, <3>5, <3>6, <3>7, <3>11, <3>12 DEF DropLost, ReleaseDisabled, Recycle
    <3> QED BY <1>2, <3>1, <3>2, <3>3, <3>4, <3>8, <3>9, <3>10, <3>12 DEF PassStep
  <2>3. Runs(next)
    BY <2>2 DEF Runs
  <2> QED BY <1>0, <2>1, <2>2, <2>3, RunsAlone
<1> QED BY <1>1, <1>2

LEMMA FaultAlone ==
  ASSUME AloneInv, TypeOK', Paired, NEW p \in Worker,
         FaultStep(p) \/ HeartbeatStep(p) \/ StopStep(p)
  PROVE  AloneInv'
<1> USE MinePlaced
<1> DEFINE next == proc'[p]
<1>0. ASSUME proc[p].pc \notin {"down", "takeover", "reap", "reaping", "register", "insert"}
      PROVE  Runs(proc[p])
  BY <1>0 DEF Placed, Starting
<1>1. CASE Crash(p)
  BY <1>1, RunsAlone DEF Crash
<1>2. CASE PassFails(p)
  <2>1. CASE ~proc[p].loop
    BY <1>2, <2>1, RunsAlone DEF PassFails
  <2>2. CASE proc[p].loop
    <3>1. /\ Become(p, [proc[p] EXCEPT !.mine = {}, !.pc = "idle"])
          /\ UNCHANGED <<row, apiVictims>>
      BY <1>2, <2>2 DEF PassFails
    <3>2. LET r == [proc[p] EXCEPT !.mine = {}, !.pc = "idle"] IN
          Runs(r) /\ r.victims = proc[p].victims /\ r.pc = "idle"
      BY <2>2 DEF Runs, Proc
    <3> QED BY <1>0, <1>2, <3>1, <3>2, RunsAlone DEF PassFails
  <2> QED BY <2>1, <2>2
<1>3. CASE \/ ExtendFails(p) \/ OrdersFail(p) \/ ClaimFails(p) \/ Shutdown(p)
           \/ \E h \in Handle : ReleaseFails(p, h)
  <2>1. /\ proc[p].pc \notin {"down", "takeover", "reap", "reaping", "register", "insert"}
        /\ UNCHANGED <<row, apiVictims>>
    BY <1>3 DEF ExtendFails, OrdersFail, ClaimFails, Shutdown, AwaitPoint, ReleaseFails
  <2>2. /\ Become(p, next) /\ next.victims = proc[p].victims
        /\ next.loop = proc[p].loop
        /\ \/ next.pc \in {"extend", "lost", "trim", "start"}
           \/ next.pc = "stopping" /\ next.loop
    <3>1. CASE ExtendFails(p)
      BY <3>1 DEF ExtendFails, Become, AloneInv, TypeOK, Proc
    <3>4. CASE OrdersFail(p)
      BY <3>4 DEF OrdersFail, Become, AloneInv, TypeOK, Proc
    <3>2. CASE ClaimFails(p)
      BY <3>2 DEF ClaimFails, Goto, Become, AloneInv, TypeOK, Proc
    <3>5. CASE \E h \in Handle : ReleaseFails(p, h)
      BY <3>5 DEF ReleaseFails, Become, AloneInv, TypeOK, Proc
    <3>3. CASE Shutdown(p)
      BY <3>3 DEF Shutdown, Become, AloneInv, TypeOK, Proc
    <3> QED BY <1>3, <3>1, <3>2, <3>3, <3>4, <3>5
  <2>3. Runs(next)
    BY <2>2 DEF Runs
  <2> QED BY <1>0, <2>1, <2>2, <2>3, RunsAlone
<1>4. CASE ReapFails(p)
  BY <1>4, PassAlone
<1>5. CASE HeartbeatStep(p)
  <2>1. PICK s : /\ Become(p, [proc[p] EXCEPT !.hb = s]) /\ UNCHANGED apiVictims
                 /\ s # "none" => proc[p].loop
    BY <1>5 DEF HeartbeatStep, HeartbeatBegin, HeartbeatCommit, Serving
  <2> DEFINE r == [proc[p] EXCEPT !.hb = s]
  <2>2. /\ Runs(r) <=> Runs(proc[p])
        /\ Starting(r) <=> Starting(proc[p])
        /\ r.victims = proc[p].victims /\ r.pc = proc[p].pc /\ r.loop = proc[p].loop /\ r.hb = s
    BY DEF Runs, Starting, Proc
  <2> HIDE DEF r
  <2>3. ASSUME NEW k \in Key
        PROVE  /\ row'[k].age \in {row[k].age, 0}
               /\ row'[k].status = row[k].status
                  \/ (row[k].status # "absent" /\ row'[k].status \in {"running", "paused"})
    <3>1. CASE HeartbeatBegin(p)
      BY <3>1 DEF HeartbeatBegin
    <3>2. CASE HeartbeatCommit(p)
      <4>1. proc[p].hb \in {"running", "paused"} /\ row[KeyOf[p]].status # "absent"
        BY <3>2 DEF HeartbeatCommit, Placed, Proc
      <4> QED BY <3>2, <4>1 DEF HeartbeatCommit, AloneInv, TypeOK, Row
    <3> QED BY <1>5, <3>1, <3>2 DEF HeartbeatStep
  <2>4. \A k \in Key : RowKept(k) /\ StatusKept(k)
    BY <2>3 DEF RowKept, StatusKept
  <2>5. Placed(r, row'[KeyOf[p]].status)
    BY <2>1, <2>2, <2>4 DEF Placed, RowKept, Runs
  <2>6. Steady(p, r)
    BY <2>2 DEF Steady, AloneInv, AllGuarded, Guarded, Rivals, At
  <2> QED BY <2>1, <2>2, <2>4, <2>5, <2>6, ProcessAlone DEF r
<1>6. CASE MarkStopped(p)
  <2> DEFINE r == [NoProc EXCEPT !.hb = proc[p].hb]
  <2>1. Runs(proc[p]) /\ row[KeyOf[p]].status # "absent"
    BY <1>0, <1>6 DEF MarkStopped, Placed
  <2>2. \A k \in Key : /\ row'[k].status = IF k = KeyOf[p] THEN "stopped" ELSE row[k].status
                       /\ row'[k].age = row[k].age
    BY <1>6 DEF MarkStopped, AloneInv, TypeOK, Row
  <2>3. \A k \in Key : RowKept(k) /\ (k # KeyOf[p] => StatusKept(k))
    BY <2>1, <2>2 DEF RowKept, StatusKept
  <2>4. Placed(r, row'[KeyOf[p]].status) /\ r.victims = {} /\ r.pc = "down"
    BY <2>2 DEF Placed, Runs, Starting, NoProc
  <2>5. Become(p, r) /\ UNCHANGED apiVictims
    BY <1>6 DEF MarkStopped
  <2> HIDE DEF r
  <2>6. Steady(p, r)
    BY <2>4 DEF Steady
  <2> QED BY <2>3, <2>4, <2>5, <2>6, ProcessAlone
<1> QED BY <1>1, <1>2, <1>3, <1>4, <1>5, <1>6 DEF FaultStep, HeartbeatStep, StopStep

LEMMA WorldAlone ==
  ASSUME AloneInv, TypeOK', Paired, WorldStep
  PROVE  AloneInv'
<1> USE MinePlaced
<1>0. row \in [Key -> Row]
  BY DEF AloneInv, TypeOK
<1>1. ASSUME NEW p \in Worker, NEW h \in Handle, Connect(p, h) \/ Disconnect(p, h)
      PROVE  AloneInv'
  <2> DEFINE r == proc'[p]
  <2>1. /\ Become(p, r) /\ UNCHANGED <<row, apiVictims>>
        /\ r.victims = proc[p].victims /\ r.pc = proc[p].pc
        /\ r.loop = proc[p].loop /\ r.hb = proc[p].hb
    <3>1. CASE Connect(p, h)
      BY <3>1 DEF Connect, Become, AloneInv, TypeOK, Proc
    <3>2. CASE Disconnect(p, h)
      BY <3>2 DEF Disconnect, Become, AloneInv, TypeOK, Proc
    <3> QED BY <1>1, <3>1, <3>2
  <2>2. (Runs(r) <=> Runs(proc[p])) /\ (Starting(r) <=> Starting(proc[p]))
    BY <2>1 DEF Runs, Starting
  <2>3. Placed(r, row'[KeyOf[p]].status)
    BY <2>1, <2>2 DEF Placed
  <2>4. \A k \in Key : RowKept(k) /\ StatusKept(k)
    BY <2>1 DEF RowKept, StatusKept
  <2>5. Steady(p, r)
    BY <2>1, <2>2 DEF Steady, AloneInv, AllGuarded, Guarded
  <2> QED BY <2>1, <2>3, <2>4, <2>5, ProcessAlone
<1>2. ASSUME UNCHANGED proc, apiVictims' \subseteq apiVictims \cup StaleRows,
             \A k \in Key : RowKept(k) /\ (~Marked(k) => StatusKept(k))
      PROVE  AloneInv'
  <2>1. \A k \in Key : Marked(k)' => Marked(k) \/ k \in StaleRows
    BY <1>2 DEF Marked
  <2>2. AllPlaced'
    BY <1>2 DEF AllPlaced, Placed, RowKept
  <2>3. UnmarkedBlank'
    BY <1>2, <2>1 DEF UnmarkedBlank, RowKept, StaleRows, AloneInv
  <2>4. AllGuarded'
    <3> SUFFICES ASSUME NEW a \in Worker, NEW b \in Worker, Rivals(a, b)',
                        row'[KeyOf[a]].status # "absent"
                 PROVE  Guarded(a, b)'
      BY DEF AllGuarded
    <3>1. Rivals(a, b)
      BY <1>2 DEF Rivals
    <3>2. row[KeyOf[a]].status # "absent"
      BY <1>2 DEF RowKept
    <3>3. ~Marked(KeyOf[a])
      BY <3>1, <3>2 DEF AloneInv, AllGuarded, Guarded
    <3> QED BY <1>2, <2>1, <3>1, <3>3, StayGuarded
  <2> QED BY <2>2, <2>3, <2>4 DEF AloneInv
<1>3. ASSUME UNCHANGED <<row, proc>>, apiVictims' \subseteq apiVictims \cup StaleRows PROVE AloneInv'
  BY <1>2, <1>3 DEF RowKept, StatusKept
<1>4. ASSUME NEW p \in Worker, NEW h \in Handle, Scrape(p, h) PROVE AloneInv'
  BY <1>3, <1>4 DEF Scrape
<1>5. ASSUME NEW h \in Handle, \/ RequestReconnect(h) \/ Enable(h) \/ Disable(h)
                               \/ Delete(h) \/ Release(h)
      PROVE  AloneInv'
  BY <1>3, <1>5 DEF RequestReconnect, Enable, Disable, Delete, Release
<1>6. CASE ApiReapSelect
  BY <1>3, <1>6 DEF ApiReapSelect
<1>7. ASSUME NEW k \in Key, NEW order \in {"pause", "unpause", "kill"}, SetTarget(k, order)
      PROVE  AloneInv'
  <2>1. \A j \in Key : row'[j].status = row[j].status /\ row'[j].age = row[j].age
    BY <1>0, <1>7 DEF SetTarget, Row
  <2> QED BY <1>2, <1>7, <2>1 DEF SetTarget, RowKept, StatusKept
<1>8. CASE ApiReapCommit
  <2>1. ASSUME NEW k \in Key
        PROVE  /\ row'[k].age = row[k].age
               /\ row'[k].status = IF k \in apiVictims THEN "stale" ELSE row[k].status
               /\ k \in apiVictims => Marked(k) /\ row[k].status # "absent"
    BY <1>0, <1>8 DEF ApiReapCommit, Reap, Row, Marked, AloneInv, UnmarkedBlank
  <2> QED BY <1>2, <1>8, <2>1 DEF ApiReapCommit, RowKept, StatusKept
<1>9. CASE Tick
  <2>1. \A k \in Key : /\ row'[k].status = row[k].status
                       /\ row'[k].age = IF row[k].status = "absent" THEN row[k].age
                                        ELSE Older(row[k].age)
    BY <1>0, <1>9 DEF Tick, Row
  <2>2. UNCHANGED <<proc, apiVictims>> /\ OnTime
    BY <1>9 DEF Tick, Paired
  <2>3. \A q \in Worker : Runs(proc[q]) => Fresh(KeyOf[q])'
    <3> SUFFICES ASSUME NEW q \in Worker, Runs(proc[q]) PROVE Fresh(KeyOf[q])'
      OBVIOUS
    <3>1. row[KeyOf[q]].age < StaleAfter /\ row[KeyOf[q]].age \in Nat /\ KeyOf[q] \in Key
      BY <1>0, <2>2, RunsRegistered, PoolAssumption DEF OnTime, Row, Age
    <3> QED BY <2>1, <3>1, PoolAssumption DEF Fresh, Older
  <2>4. AllPlaced' /\ UnmarkedBlank'
    BY <2>1, <2>2, PoolAssumption DEF AllPlaced, UnmarkedBlank, Marked, AloneInv
  <2>5. AllGuarded'
    <3> SUFFICES ASSUME NEW a \in Worker, NEW b \in Worker, Rivals(a, b)',
                        row'[KeyOf[a]].status # "absent"
                 PROVE  Guarded(a, b)'
      BY DEF AllGuarded
    <3>1. Rivals(a, b) /\ KeyOf[a] \in Key /\ KeyOf[a] = KeyOf[b]
      BY <2>2, PoolAssumption DEF Rivals
    <3>2. Guarded(a, b)
      BY <2>1, <3>1 DEF AloneInv, AllGuarded
    <3>3. Fresh(KeyOf[a])'
      BY <2>3, <3>1, <3>2 DEF Guarded
    <3> QED BY <2>1, <2>2, <3>1, <3>2, <3>3 DEF Guarded, Marked
  <2> QED BY <2>4, <2>5 DEF AloneInv
<1> QED BY <1>1, <1>4, <1>5, <1>6, <1>7, <1>8, <1>9 DEF WorldStep

LEMMA InitAlone == Init => AloneInv
<1> SUFFICES ASSUME Init PROVE AloneInv
  OBVIOUS
<1>1. ASSUME NEW p \in Worker
      PROVE  /\ proc[p] = NoProc /\ row[KeyOf[p]].status = "absent"
             /\ Placed(proc[p], row[KeyOf[p]].status)
  BY PoolAssumption DEF Init, Placed, Runs, Starting, NoProc
<1>2. UnmarkedBlank
  BY DEF Init, UnmarkedBlank, Marked, NoProc
<1> QED BY <1>1, <1>2, InitTypeOK DEF AloneInv, AllPlaced, AllGuarded

LEMMA StepAlone ==
  ASSUME Paired, AloneInv, TypeOK', [Next]_vars
  PROVE  AloneInv'
<1>1. CASE UNCHANGED vars
  BY <1>1 DEF vars, AloneInv, TypeOK, AllPlaced, AllGuarded, Guarded, Rivals, UnmarkedBlank,
              Marked, Fresh
<1>2. ASSUME NEW p \in Worker,
             \/ Boot(p) \/ RegisterStep(p) \/ OrderStep(p) \/ PassStep(p)
             \/ FaultStep(p) \/ HeartbeatStep(p) \/ StopStep(p)
      PROVE  AloneInv'
  BY <1>2, RegisterAlone, OrderAlone, PassAlone, FaultAlone
<1> QED BY <1>1, <1>2, WorldAlone DEF Next

\* Of two prompt processes that are started once with the same worker key, one
\* at a time runs the pool, whichever of them crashes, stops, fails or is reaped.
THEOREM OneProcessPerKeyCorrect ==
  ASSUME Paired
  PROVE  Spec => []OneProcessPerKey
<1>1. AloneInv /\ TypeOK' /\ [Next]_vars => AloneInv'
  BY StepAlone
<1>2. AloneInv => OneProcessPerKey
  <2> SUFFICES ASSUME AloneInv, NEW p \in Worker, NEW q \in Worker, p # q, KeyOf[p] = KeyOf[q],
                      proc[p].loop, proc[q].loop
               PROVE  FALSE
    BY DEF OneProcessPerKey
  <2>1. Rivals(p, q) /\ Runs(proc[p]) /\ Runs(proc[q])
    BY MinePlaced DEF Rivals, Placed, Runs
  <2>2. row[KeyOf[p]].status # "absent"
    BY <2>1, MinePlaced DEF Placed
  <2>3. Guarded(p, q)
    BY <2>1, <2>2 DEF AloneInv, AllGuarded
  <2> QED BY <2>3 DEF Guarded, Starting
<1> QED BY <1>1, <1>2, InitAlone, TypeCorrect, PTL DEF Spec

=============================================================================
