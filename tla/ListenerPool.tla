---------------------------- MODULE ListenerPool ----------------------------
(***************************************************************************)
(* The pool of TikTok listener workers that share one database             *)
(* (listener mode "worker").  Each worker process registers a row of       *)
(* tiktok_workers, sends heartbeats to it, and runs reconcile passes that  *)
(* extend, drop, recycle, resume and claim rows of tiktok_subscriptions.   *)
(* Nothing but those two tables coordinates the processes.                 *)
(*                                                                         *)
(* One action is one database transaction, or the local work between two   *)
(* points where the event loop of the process may switch.  Transactions of *)
(* different processes interleave between any two actions.  A transaction  *)
(* that reads first and writes later without a row lock is two actions     *)
(* (the reaper, the registration, the extension of leases).                *)
(*                                                                         *)
(* Time is relative: a row carries the age of its last heartbeat and a     *)
(* subscription what is left of its lease; Tick advances both.             *)
(***************************************************************************)
EXTENDS Integers, FiniteSets

CONSTANTS
  Worker,      \* worker processes; a restarted process keeps its name
  Key,         \* values of worker_key; a key keeps its row, so it is the row id
  KeyOf,       \* the worker_key each process is configured with
  Handle,      \* creators that can be subscribed to
  NoOwner,     \* NULL in assigned_worker_id
  Capacity,    \* _worker_capacity
  LeaseTTL,    \* LEASE_SECONDS, in ticks
  StaleAfter,  \* the 30 s of upsert_worker and reap_stale_workers, in ticks
  Prompt,      \* TRUE: time never passes a live worker's deadlines
  Env          \* the events of the environment this instance allows

EnvEvents == {"crash", "restart", "sigterm", "dbfail", "scrape", "ws",
              "apireap", "enable", "disable", "delete", "release",
              "pause", "unpause", "kill", "reconnect"}

ASSUME PoolAssumption ==
  /\ KeyOf \in [Worker -> Key]
  /\ NoOwner \notin Key
  /\ IsFiniteSet(Handle)
  /\ Capacity \in Nat
  /\ LeaseTTL \in Nat \ {0}
  /\ StaleAfter \in Nat
  /\ Prompt \in BOOLEAN
  /\ Env \subseteq EnvEvents

VARIABLES
  row,         \* tiktok_workers, by worker_key
  sub,         \* tiktok_subscriptions, by unique_id
  proc,        \* the memory of each worker process
  apiVictims   \* rows the API's status endpoint has selected for reaping

vars == <<row, sub, proc, apiVictims>>

-----------------------------------------------------------------------------
(* Types *)

Age == 0 .. StaleAfter + 1

Lease == 0 .. LeaseTTL

Row == [status  : {"absent", "running", "paused", "stopped", "stale"},
        desired : {"running", "paused", "stopped"},
        kill    : BOOLEAN,             \* command = 'kill', not yet acked
        age     : Age]                 \* age of last_heartbeat_at, saturated

Sub == [st    : {"on", "off", "gone"}, \* enabled, disabled, no such row
        live  : BOOLEAN,               \* is_live is TRUE (not FALSE, not NULL)
        owner : Key \cup {NoOwner},    \* assigned_worker_id
        lease : Lease]                 \* left of the lease; 0: expired or NULL

Phase == {"down", "reap", "reaping", "register", "insert", "takeover",
          "orders", "pausing", "reclaim", "resuming", "command",
          "extend", "bump", "lost", "trim", "resume", "start", "idle",
          "stopping"}

Proc == [pc       : Phase,
         loop     : BOOLEAN,           \* the main loops and handlers run
         paused   : BOOLEAN,           \* _paused
         stopReq  : BOOLEAN,           \* _stop_requested
         cmd      : BOOLEAN,           \* me.command as check_db_orders read it
         sessions : SUBSET Handle,     \* keys of _sessions
         up       : SUBSET Handle,     \* sessions whose state is CONNECTED
         mine     : SUBSET Handle,     \* still_mine
         todo     : SUBSET Handle,     \* handles the current loop has left
         victims  : SUBSET Key,        \* rows this process's reaper selected
         hb       : {"none", "running", "paused"}] \* heartbeat in the executor

TypeOK ==
  /\ row \in [Key -> Row]
  /\ sub \in [Handle -> Sub]
  /\ proc \in [Worker -> Proc]
  /\ apiVictims \in SUBSET Key

-----------------------------------------------------------------------------
(* Vocabulary *)

NoSub == [st |-> "gone", live |-> FALSE, owner |-> NoOwner, lease |-> 0]

NoProc == [pc |-> "down", loop |-> FALSE, paused |-> FALSE, stopReq |-> FALSE,
           cmd |-> FALSE, sessions |-> {}, up |-> {}, mine |-> {},
           todo |-> {}, victims |-> {}, hb |-> "none"]

At(p, l) == proc[p].pc = l

\* Process p's memory becomes r.
Become(p, r) == proc' = [proc EXCEPT ![p] = r]

Goto(p, l) == Become(p, [proc[p] EXCEPT !.pc = l])

\* Points where the event loop may run the shutdown instead of the pass.
AwaitPoint == {"pausing", "resuming", "lost", "trim", "resume", "start", "idle"}

Serving(p) == proc[p].loop /\ proc[p].pc # "stopping"

\* "last heartbeat under 30 s ago", and its negation.  The instant of
\* equality, on which the two comparisons of the code differ, is not modelled.
Fresh(k) == row[k].age <= StaleAfter

Owned(k) == {h \in Handle : sub[h].owner = k}

EnabledOwned(k) == {h \in Owned(k) : sub[h].st = "on"}

\* _release_assignments_in_session, for every key of K.
ReleaseAll(K) ==
  sub' = [h \in Handle |-> IF sub[h].owner \in K
                           THEN [sub[h] EXCEPT !.owner = NoOwner, !.lease = 0]
                           ELSE sub[h]]

\* release_my_assignment: a no-op unless k is still the owner.
ReleaseMine(k, h) ==
  sub' = [sub EXCEPT ![h] = IF @.owner = k
                            THEN [@ EXCEPT !.owner = NoOwner, !.lease = 0]
                            ELSE @]

\* Mutant of Claimable: the claim forgets to look at the owner.
ClaimableFromAnyone(h) == sub[h].st = "on" /\ sub[h].live

Claimable(h) ==
  /\ sub[h].st = "on"
  /\ sub[h].live
  /\ sub[h].owner = NoOwner \/ sub[h].lease = 0

\* claim_subscriptions with max_to_claim = n may return S: as many of the
\* claimable rows as n allows.  Which rows come first is left open.
ClaimChoice(n, S) ==
  /\ S \subseteq {h \in Handle : Claimable(h)}
  /\ Cardinality(S) <= n
  /\ \A h \in Handle \ S : Claimable(h) => Cardinality(S) = n

Claim(k, S) ==
  sub' = [h \in Handle |-> IF h \in S
                           THEN [sub[h] EXCEPT !.owner = k, !.lease = LeaseTTL]
                           ELSE sub[h]]

StaleRows == {k \in Key : /\ row[k].status \notin {"absent", "stopped"}
                          /\ ~Fresh(k)}

\* The write half of reap_stale_workers, for rows selected before.
Reap(K) ==
  /\ row' = [k \in Key |-> IF k \in K THEN [row[k] EXCEPT !.status = "stale"]
                                      ELSE row[k]]
  /\ ReleaseAll(K)

-----------------------------------------------------------------------------
Init ==
  /\ row = [k \in Key |-> [status |-> "absent", desired |-> "running",
                           kill |-> FALSE, age |-> 0]]
  /\ sub \in [Handle -> {[NoSub EXCEPT !.st = "on", !.live = b] : b \in BOOLEAN}]
  /\ proc = [p \in Worker |-> NoProc]
  /\ apiVictims = {}

-----------------------------------------------------------------------------
(* Starting a process: start_all_enabled up to its reconcile pass *)

\* The supervisor (or an operator) starts the process.  A thread of the
\* previous process that still has a heartbeat in flight delays its exit.
Boot(p) ==
  /\ At(p, "down") /\ proc[p].hb = "none"
  /\ row[KeyOf[p]].status = "absent" \/ "restart" \in Env
  /\ Become(p, [NoProc EXCEPT !.pc = "reap"])
  /\ UNCHANGED <<row, sub, apiVictims>>

\* reap_stale_workers, the SELECT.  The reaper runs before the registration
\* of a starting process and at the head of every tick of a running one.
AfterReap(p) == IF proc[p].loop THEN "orders" ELSE "register"

ReapSelect(p) ==
  /\ At(p, "reap")
  /\ Become(p, [proc[p] EXCEPT !.victims = StaleRows,
                               !.pc = IF StaleRows = {} THEN AfterReap(p)
                                                           ELSE "reaping"])
  /\ UNCHANGED <<row, sub, apiVictims>>

\* reap_stale_workers, the UPDATEs and the commit.
ReapCommit(p) ==
  /\ At(p, "reaping")
  /\ Reap(proc[p].victims)
  /\ Become(p, [proc[p] EXCEPT !.victims = {}, !.pc = AfterReap(p)])
  /\ UNCHANGED apiVictims

\* upsert_worker, the SELECT: a fresh row that is neither stopped nor stale
\* is a conflict, and the process exits.
RegisterConflict(p) ==
  /\ At(p, "register")
  /\ row[KeyOf[p]].status \in {"running", "paused"} /\ Fresh(KeyOf[p])
  /\ Become(p, NoProc)
  /\ UNCHANGED <<row, sub, apiVictims>>

RegisterCheck(p) ==
  LET r == row[KeyOf[p]] IN
  /\ At(p, "register")
  /\ ~(r.status \in {"running", "paused"} /\ Fresh(KeyOf[p]))
  /\ Goto(p, IF r.status = "absent" THEN "insert" ELSE "takeover")
  /\ UNCHANGED <<row, sub, apiVictims>>

\* Mutant of NewRow: a takeover that leaves the command column out.
NewRowWithoutCommand == [status |-> "running", desired |-> "running", age |-> 0]

NewRow == [status |-> "running", desired |-> "running", kill |-> FALSE, age |-> 0]

\* Mutant of RegisterWrite: the insert replaces a row that is already there.
RegisterOverwrites(p) ==
  /\ proc[p].pc \in {"insert", "takeover"}
  /\ row' = [row EXCEPT ![KeyOf[p]] = NewRow]
  /\ Goto(p, "extend")
  /\ UNCHANGED <<sub, apiVictims>>

\* upsert_worker, the write: an INSERT the unique key can refuse, or an
\* UPDATE by id that nothing can refuse.
RegisterWrite(p) ==
  /\ \/ At(p, "insert") /\ row[KeyOf[p]].status = "absent"
     \/ At(p, "takeover")
  /\ row' = [row EXCEPT ![KeyOf[p]] = NewRow]
  /\ Goto(p, "extend")
  /\ UNCHANGED <<sub, apiVictims>>

RegisterRefused(p) ==
  /\ At(p, "insert") /\ row[KeyOf[p]].status # "absent"
  /\ Become(p, NoProc)
  /\ UNCHANGED <<row, sub, apiVictims>>

-----------------------------------------------------------------------------
(* check_db_orders *)

\* What follows the reaction to desired_status: a captured command, or the
\* reconcile pass.
AfterOrders(captured) == IF captured THEN "command" ELSE "extend"

OrdersPause(p) ==
  LET r == row[KeyOf[p]] IN
  /\ At(p, "orders") /\ r.desired = "paused" /\ ~proc[p].paused
  /\ Become(p, [proc[p] EXCEPT !.paused = TRUE, !.cmd = r.kill,
                               !.todo = proc[p].sessions, !.pc = "pausing"])
  /\ UNCHANGED <<row, sub, apiVictims>>

OrdersResume(p) ==
  LET r == row[KeyOf[p]] IN
  /\ At(p, "orders") /\ r.desired = "running" /\ proc[p].paused
  /\ Become(p, [proc[p] EXCEPT !.paused = FALSE, !.cmd = r.kill,
                               !.pc = "reclaim"])
  /\ UNCHANGED <<row, sub, apiVictims>>

OrdersOther(p) ==
  LET r == row[KeyOf[p]] IN
  /\ At(p, "orders")
  /\ ~(r.desired = "paused" /\ ~proc[p].paused)
  /\ ~(r.desired = "running" /\ proc[p].paused)
  /\ Become(p, [proc[p] EXCEPT !.stopReq = @ \/ r.desired = "stopped",
                               !.cmd = r.kill, !.pc = AfterOrders(r.kill)])
  /\ UNCHANGED <<row, sub, apiVictims>>

\* Mutant of KillCommand: the command is acknowledged but not obeyed.
KillAckedOnly(p) ==
  /\ At(p, "command")
  /\ Become(p, [proc[p] EXCEPT !.cmd = FALSE, !.pc = "extend"])
  /\ row' = [row EXCEPT ![KeyOf[p]].kill = FALSE]
  /\ UNCHANGED <<sub, apiVictims>>

\* The one-shot command kill, and ack_worker_command.
KillCommand(p) ==
  /\ At(p, "command")
  /\ Become(p, [proc[p] EXCEPT !.stopReq = TRUE, !.cmd = FALSE, !.pc = "extend"])
  /\ row' = [row EXCEPT ![KeyOf[p]].kill = FALSE]
  /\ UNCHANGED <<sub, apiVictims>>

\* _stop_session for the next handle of a loop: it pops the session first.
StopOne(p, h) ==
  /\ h \in proc[p].todo
  /\ Become(p, [proc[p] EXCEPT !.todo = @ \ {h}, !.sessions = @ \ {h},
                               !.up = @ \ {h}])
  /\ UNCHANGED <<row, sub, apiVictims>>

\* pause_all, one session at a time.
PauseStop(p, h) == At(p, "pausing") /\ StopOne(p, h)

\* resume_all claims a full capacity, whatever is already held.
ReclaimAll(p) ==
  /\ At(p, "reclaim")
  /\ \E S \in SUBSET Handle :
       /\ ClaimChoice(Capacity, S)
       /\ Claim(KeyOf[p], S)
       /\ Become(p, [proc[p] EXCEPT !.todo = S, !.pc = "resuming"])
  /\ UNCHANGED <<row, apiVictims>>

OrdersDone(p) ==
  /\ proc[p].pc \in {"pausing", "resuming"} /\ proc[p].todo = {}
  /\ Goto(p, AfterOrders(proc[p].cmd))
  /\ UNCHANGED <<row, sub, apiVictims>>

-----------------------------------------------------------------------------
(* reconcile_assignments *)

\* extend_my_leases, the SELECT.
ExtendSelect(p) ==
  /\ At(p, "extend")
  /\ Become(p, [proc[p] EXCEPT !.mine = EnabledOwned(KeyOf[p]), !.pc = "bump"])
  /\ UNCHANGED <<row, sub, apiVictims>>

\* Mutant of ExtendUpdate: the sessions that were lost are not computed.
ExtendKeepsLost(p) ==
  /\ At(p, "bump")
  /\ sub' = [h \in Handle |-> IF h \in EnabledOwned(KeyOf[p])
                              THEN [sub[h] EXCEPT !.lease = LeaseTTL]
                              ELSE sub[h]]
  /\ Become(p, [proc[p] EXCEPT !.todo = {}, !.pc = "lost"])
  /\ UNCHANGED <<row, apiVictims>>

\* extend_my_leases, the UPDATE (its WHERE is evaluated anew), and the set of
\* lost sessions that the SELECT's answer implies.
ExtendUpdate(p) ==
  /\ At(p, "bump")
  /\ sub' = [h \in Handle |-> IF h \in EnabledOwned(KeyOf[p]) /\ proc[p].mine # {}
                              THEN [sub[h] EXCEPT !.lease = LeaseTTL]
                              ELSE sub[h]]
  /\ Become(p, [proc[p] EXCEPT !.todo = proc[p].sessions \ proc[p].mine,
                               !.pc = "lost"])
  /\ UNCHANGED <<row, apiVictims>>

\* The except branch: the local sessions stand in for the database's answer.
ExtendFails(p) ==
  /\ At(p, "extend") /\ "dbfail" \in Env
  /\ Become(p, [proc[p] EXCEPT !.mine = proc[p].sessions, !.todo = {},
                               !.pc = "lost"])
  /\ UNCHANGED <<row, sub, apiVictims>>

DropLost(p, h) == At(p, "lost") /\ StopOne(p, h)

\* list_subscriptions: which of still_mine is now disabled or deleted.
View(p) ==
  /\ At(p, "lost") /\ proc[p].todo = {}
  /\ Become(p, [proc[p] EXCEPT !.todo = {h \in proc[p].mine : sub[h].st # "on"},
                               !.pc = "trim"])
  /\ UNCHANGED <<row, sub, apiVictims>>

\* An error outside the guarded calls ends the pass; in start_all_enabled it
\* ends the process.
PassFails(p) ==
  /\ At(p, "lost") /\ proc[p].todo = {} /\ "dbfail" \in Env
  /\ Become(p, IF proc[p].loop THEN [proc[p] EXCEPT !.mine = {}, !.pc = "idle"]
                               ELSE NoProc)
  /\ UNCHANGED <<row, sub, apiVictims>>

\* Stop and release a handle: a disabled one (step 2) or one that recycling
\* frees (step 2.5, _release_slot).
GiveUp(p, h) ==
  /\ Become(p, [proc[p] EXCEPT !.todo = @ \ {h}, !.mine = @ \ {h},
                               !.sessions = @ \ {h}, !.up = @ \ {h}])
  /\ ReleaseMine(KeyOf[p], h)
  /\ UNCHANGED <<row, apiVictims>>

ReleaseDisabled(p, h) ==
  /\ At(p, "trim") /\ h \in proc[p].todo
  /\ GiveUp(p, h)

\* Mutant of Recycle: a CONNECTED session is recycled too.
RecycleConnected(p, h) ==
  /\ At(p, "trim") /\ proc[p].todo = {} /\ h \in proc[p].mine
  /\ GiveUp(p, h)

\* Whether the timers of the three recycling rules have run out is left open;
\* every rule requires that the session is not CONNECTED.
Recycle(p, h) ==
  /\ At(p, "trim") /\ proc[p].todo = {}
  /\ h \in proc[p].mine \ proc[p].up
  /\ GiveUp(p, h)

RecycleDone(p) ==
  /\ At(p, "trim") /\ proc[p].todo = {}
  /\ Become(p, [proc[p] EXCEPT !.todo = proc[p].mine \ proc[p].sessions,
                               !.pc = "resume"])
  /\ UNCHANGED <<row, sub, apiVictims>>

\* _start_session for a handle of resume_all, of step 2b or of step 3; a
\* staggering sleep follows each.
StartSession(p, h) ==
  /\ proc[p].pc \in {"resuming", "resume", "start"} /\ h \in proc[p].todo
  /\ Become(p, [proc[p] EXCEPT !.todo = @ \ {h}, !.sessions = @ \cup {h}])
  /\ UNCHANGED <<row, sub, apiVictims>>

\* Mutants of FreeSlots: one forgets the running sessions, the other is off by one.
FreeSlotsIgnoringSessions(p) == Capacity
FreeSlotsOffByOne(p) == IF Cardinality(proc[p].sessions) < Capacity
                        THEN Capacity - Cardinality(proc[p].sessions) - 1
                        ELSE 0

FreeSlots(p) == IF Cardinality(proc[p].sessions) <= Capacity
                THEN Capacity - Cardinality(proc[p].sessions)
                ELSE 0

ClaimMore(p) ==
  /\ At(p, "resume") /\ proc[p].todo = {}
  /\ \E S \in SUBSET Handle :
       /\ ClaimChoice(FreeSlots(p), S)
       /\ Claim(KeyOf[p], S)
       /\ Become(p, [proc[p] EXCEPT !.todo = S, !.pc = "start"])
  /\ UNCHANGED <<row, apiVictims>>

\* The pass ends.  Step 4 finds no reconnect_requested row: the only writer,
\* the passive API, has no _worker_id and _log_worker returns early.  The
\* first pass ends start_all_enabled, and _main starts the loops.
EndPass(p) ==
  /\ At(p, "start") /\ proc[p].todo = {}
  /\ Become(p, [proc[p] EXCEPT !.mine = {}, !.loop = TRUE, !.pc = "idle"])
  /\ UNCHANGED <<row, sub, apiVictims>>

\* _reconcile_loop: the next tick.
NextPass(p) ==
  /\ At(p, "idle")
  /\ Goto(p, "reap")
  /\ UNCHANGED <<row, sub, apiVictims>>

-----------------------------------------------------------------------------
(* Database calls that fail inside a try: the pass goes on without them *)

ReapFails(p) ==
  /\ At(p, "reap") /\ "dbfail" \in Env
  /\ Goto(p, AfterReap(p))
  /\ UNCHANGED <<row, sub, apiVictims>>

\* get_worker, or the claim of resume_all: the rest of check_db_orders is
\* skipped, and _paused keeps the value it has.
OrdersFail(p) ==
  /\ proc[p].pc \in {"orders", "reclaim"} /\ "dbfail" \in Env
  /\ Become(p, [proc[p] EXCEPT !.cmd = FALSE, !.pc = "extend"])
  /\ UNCHANGED <<row, sub, apiVictims>>

\* release_my_assignment, of a disabled or a recycled handle: the session has
\* stopped and still_mine forgets the handle, but the assignment stays.
ReleaseFails(p, h) ==
  /\ At(p, "trim") /\ "dbfail" \in Env
  /\ h \in proc[p].todo \/ (proc[p].todo = {} /\ h \in proc[p].mine \ proc[p].up)
  /\ Become(p, [proc[p] EXCEPT !.todo = @ \ {h}, !.mine = @ \ {h},
                               !.sessions = @ \ {h}, !.up = @ \ {h}])
  /\ UNCHANGED <<row, sub, apiVictims>>

\* claim_subscriptions of step 3.
ClaimFails(p) ==
  /\ At(p, "resume") /\ proc[p].todo = {} /\ "dbfail" \in Env
  /\ Goto(p, "start")
  /\ UNCHANGED <<row, sub, apiVictims>>

-----------------------------------------------------------------------------
(* Heartbeats, shutdown and crash *)

\* _db_heartbeat_loop takes the snapshot on the loop; the executor's thread
\* has passed the _worker_id check of write_heartbeat_to_db.
HeartbeatBegin(p) ==
  /\ Serving(p) /\ proc[p].hb = "none"
  /\ Become(p, [proc[p] EXCEPT !.hb = IF proc[p].paused THEN "paused" ELSE "running"])
  /\ UNCHANGED <<row, sub, apiVictims>>

\* heartbeat_worker commits; the shutdown does not wait for it.
HeartbeatCommit(p) ==
  /\ proc[p].hb # "none"
  /\ row' = [row EXCEPT ![KeyOf[p]].status = proc[p].hb, ![KeyOf[p]].age = 0]
  /\ Become(p, [proc[p] EXCEPT !.hb = "none"])
  /\ UNCHANGED <<sub, apiVictims>>

\* SIGTERM or an observed stop request: _main cancels its tasks and stop_all
\* stops every session.
Shutdown(p) ==
  /\ proc[p].loop /\ proc[p].pc \in AwaitPoint
  /\ proc[p].stopReq \/ "sigterm" \in Env
  /\ Become(p, [proc[p] EXCEPT !.sessions = {}, !.up = {}, !.mine = {},
                               !.todo = {}, !.pc = "stopping"])
  /\ UNCHANGED <<row, sub, apiVictims>>

\* mark_worker_stopped, and the process ends.
MarkStopped(p) ==
  /\ At(p, "stopping")
  /\ row' = [row EXCEPT ![KeyOf[p]].status = "stopped"]
  /\ ReleaseAll({KeyOf[p]})
  /\ Become(p, [NoProc EXCEPT !.hb = proc[p].hb])
  /\ UNCHANGED apiVictims

\* SIGKILL, a lost host, or SIGTERM before _main has installed its handlers.
Crash(p) ==
  /\ "crash" \in Env /\ ~At(p, "down")
  /\ Become(p, NoProc)
  /\ UNCHANGED <<row, sub, apiVictims>>

-----------------------------------------------------------------------------
(* The rest of the system: creators, the probe, the API, time *)

\* A session's WebSocket connects or drops.
Connect(p, h) ==
  /\ "ws" \in Env /\ h \in proc[p].sessions \ proc[p].up
  /\ Become(p, [proc[p] EXCEPT !.up = @ \cup {h}])
  /\ UNCHANGED <<row, sub, apiVictims>>

Disconnect(p, h) ==
  /\ "ws" \in Env /\ h \in proc[p].up
  /\ Become(p, [proc[p] EXCEPT !.up = @ \ {h}])
  /\ UNCHANGED <<row, sub, apiVictims>>

\* _live_scraper_loop: a worker writes the result of a probe.  It selected the
\* handle (its own or nobody's) up to 50 probes earlier, so neither the owner
\* nor the subscription's state need be what they were.
Scrape(p, h) ==
  /\ "scrape" \in Env /\ Serving(p) /\ sub[h].st # "gone"
  /\ \E b \in BOOLEAN : sub' = [sub EXCEPT ![h].live = b]
  /\ UNCHANGED <<row, proc, apiVictims>>

\* request_reconnect in a passive API clears the cached live flag; its signal
\* row is never written (see EndPass).
RequestReconnect(h) ==
  /\ "reconnect" \in Env /\ sub[h].st # "gone"
  /\ sub' = [sub EXCEPT ![h].live = FALSE]
  /\ UNCHANGED <<row, proc, apiVictims>>

\* upsert_subscription or set_subscription_enabled.
Enable(h) ==
  /\ "enable" \in Env /\ sub[h].st # "on"
  /\ sub' = [sub EXCEPT ![h].st = "on"]
  /\ UNCHANGED <<row, proc, apiVictims>>

Disable(h) ==
  /\ "disable" \in Env /\ sub[h].st = "on"
  /\ sub' = [sub EXCEPT ![h].st = "off"]
  /\ UNCHANGED <<row, proc, apiVictims>>

Delete(h) ==
  /\ "delete" \in Env /\ sub[h].st # "gone"
  /\ sub' = [sub EXCEPT ![h] = NoSub]
  /\ UNCHANGED <<row, proc, apiVictims>>

\* release_subscription
Release(h) ==
  /\ "release" \in Env /\ sub[h].st # "gone"
  /\ sub' = [sub EXCEPT ![h].owner = NoOwner, ![h].lease = 0]
  /\ UNCHANGED <<row, proc, apiVictims>>

\* set_worker_command, as listener_pause, listener_resume and listener_kill
\* call it.
SetTarget(k, order) ==
  /\ order \in Env /\ row[k].status # "absent"
  /\ row' = [row EXCEPT ![k].desired = CASE order = "pause"   -> "paused"
                                         [] order = "unpause" -> "running"
                                         [] order = "kill"    -> "stopped",
                        ![k].kill = @ \/ order = "kill"]
  /\ UNCHANGED <<sub, proc, apiVictims>>

\* listener_status reaps as well.
ApiReapSelect ==
  /\ "apireap" \in Env /\ apiVictims = {}
  /\ apiVictims' = StaleRows
  /\ UNCHANGED <<row, sub, proc>>

ApiReapCommit ==
  /\ apiVictims # {}
  /\ Reap(apiVictims)
  /\ apiVictims' = {}
  /\ UNCHANGED proc

\* A worker that has registered and is not down.
Registered(p) == \/ proc[p].loop
                 \/ proc[p].pc \in {"extend", "bump", "lost", "trim", "resume", "start"}

\* With Prompt, a live worker's heartbeat and its extensions are never late.
OnTime ==
  \A p \in Worker : Registered(p) =>
     /\ row[KeyOf[p]].age < StaleAfter
     /\ \A h \in EnabledOwned(KeyOf[p]) : sub[h].lease > 1

Older(a) == IF a <= StaleAfter THEN a + 1 ELSE a

Shorter(l) == IF l = 0 THEN 0 ELSE l - 1

Tick ==
  /\ Prompt => OnTime
  /\ row' = [k \in Key |-> [row[k] EXCEPT
               !.age = IF row[k].status = "absent" THEN @ ELSE Older(@)]]
  /\ sub' = [h \in Handle |-> [sub[h] EXCEPT !.lease = Shorter(@)]]
  /\ UNCHANGED <<proc, apiVictims>>

-----------------------------------------------------------------------------
RegisterStep(p) == RegisterConflict(p) \/ RegisterCheck(p)
                   \/ RegisterWrite(p) \/ RegisterRefused(p)

OrderStep(p) == \/ OrdersPause(p) \/ OrdersResume(p) \/ OrdersOther(p)
                \/ KillCommand(p) \/ ReclaimAll(p) \/ OrdersDone(p)
                \/ \E h \in Handle : PauseStop(p, h)

PassStep(p) == \/ ReapSelect(p) \/ ReapCommit(p)
               \/ ExtendSelect(p) \/ ExtendUpdate(p) \/ View(p)
               \/ RecycleDone(p) \/ ClaimMore(p) \/ EndPass(p) \/ NextPass(p)
               \/ \E h \in Handle : DropLost(p, h) \/ ReleaseDisabled(p, h)
                                    \/ Recycle(p, h) \/ StartSession(p, h)

FaultStep(p) == \/ ExtendFails(p) \/ PassFails(p) \/ Crash(p)
                \/ ReapFails(p) \/ OrdersFail(p) \/ ClaimFails(p)
                \/ \E h \in Handle : ReleaseFails(p, h)

HeartbeatStep(p) == HeartbeatBegin(p) \/ HeartbeatCommit(p)

StopStep(p) == Shutdown(p) \/ MarkStopped(p)

WorldStep ==
  \/ \E p \in Worker, h \in Handle : Connect(p, h) \/ Disconnect(p, h) \/ Scrape(p, h)
  \/ \E h \in Handle : RequestReconnect(h) \/ Enable(h) \/ Disable(h)
                       \/ Delete(h) \/ Release(h)
  \/ \E k \in Key, order \in {"pause", "unpause", "kill"} : SetTarget(k, order)
  \/ ApiReapSelect \/ ApiReapCommit
  \/ Tick

Next ==
  \/ \E p \in Worker : \/ Boot(p) \/ RegisterStep(p) \/ OrderStep(p)
                       \/ PassStep(p) \/ FaultStep(p) \/ HeartbeatStep(p) \/ StopStep(p)
  \/ WorldStep

Spec == Init /\ [][Next]_vars

\* What the event loop of a live process and the wall clock guarantee: the
\* loops of a live process keep running, a stop that has been asked for is
\* carried out, a heartbeat in the executor ends, and time passes.  Nothing
\* is assumed of crashes, restarts, creators or administrators.
Fairness ==
  /\ \A p \in Worker :
       /\ WF_vars(RegisterStep(p) \/ OrderStep(p) \/ PassStep(p))
       /\ WF_vars(HeartbeatBegin(p)) /\ WF_vars(HeartbeatCommit(p))
       /\ SF_vars(proc[p].stopReq /\ Shutdown(p)) /\ WF_vars(MarkStopped(p))
  /\ WF_vars(Tick)
  /\ WF_vars(ApiReapCommit)

FairSpec == Spec /\ Fairness

-----------------------------------------------------------------------------
(* Safety *)

\* No creator is ingested by two processes at once: reaping, stealing,
\* releasing and claiming never overlap a session that still runs.  Holds of
\* prompt workers whose processes are not restarted.
ExclusiveIngest ==
  \A p, q \in Worker : p # q => proc[p].sessions \cap proc[q].sessions = {}

\* A worker neither runs more sessions nor holds more assignments than its
\* capacity, across crashes, restarts, reaping and recycling: the claim of a
\* pass counts the sessions, so it relies on the resume step before it.
CapacityRespected ==
  \A p \in Worker : /\ Cardinality(proc[p].sessions) <= Capacity
                    /\ Cardinality(Owned(KeyOf[p])) <= Capacity

\* One process at a time runs the pool under a worker_key.
OneProcessPerKey ==
  \A p, q \in Worker : p # q /\ KeyOf[p] = KeyOf[q] => ~(proc[p].loop /\ proc[q].loop)

\* A paused worker runs no session once its pass is over.
PausedRunsNothing ==
  \A p \in Worker : At(p, "idle") /\ proc[p].paused => proc[p].sessions = {}

-----------------------------------------------------------------------------
(* Action properties *)

\* A connected session's handle is not taken from its worker, neither by a
\* reaper, nor by a sibling's claim, nor by the worker's own recycling.
ConnectedHandleKept ==
  [][\A p \in Worker, h \in Handle :
       h \in proc[p].up /\ sub[h].owner = KeyOf[p]
       => sub'[h].owner = KeyOf[p]]_vars

\* Only a registration ends the status "stopped".
StoppedUntilRegistered ==
  [][\A k \in Key : row[k].status = "stopped" /\ row'[k].status # "stopped"
       => \E p \in Worker : KeyOf[p] = k /\ At(p, "takeover") /\ ~At(p, "takeover")']_vars

\* A lease in force is not taken from its holder; only the holder's own
\* reconcile pass gives it up (of instances without shutdowns and orders).
LeaseHonoured ==
  [][\A h \in Handle :
       sub[h].owner # NoOwner /\ sub[h].lease > 0 /\ sub'[h].owner # sub[h].owner
       => \E p \in Worker : KeyOf[p] = sub[h].owner /\ At(p, "trim")]_vars

\* The reaper marks a row only while its heartbeat is old.
FreshNeverReaped ==
  [][\A k \in Key : row[k].status # "stale" /\ row'[k].status = "stale"
                    => ~Fresh(k)]_vars

\* The admin's pause stays in force until the admin resumes or kills.
PauseSurvivesRestart ==
  [][\A k \in Key : row[k].desired = "paused" => row'[k].desired = "paused"]_vars

-----------------------------------------------------------------------------
(* Liveness *)

\* A session whose handle belongs to another worker, or to nobody, ends (or
\* gets its assignment back): ingestion by two workers heals itself.
Orphan(p, h) == h \in proc[p].sessions /\ sub[h].owner # KeyOf[p]

OrphanHeals == \A p \in Worker, h \in Handle : Orphan(p, h) ~> ~Orphan(p, h)

\* An enabled creator who stays live is ingested, whichever workers crash or
\* stop, provided one worker keeps serving.
Wanted(h) == sub[h].st = "on" /\ sub[h].live

Failover ==
  (\E p \in Worker : <>[]Serving(p)) =>
    \A h \in Handle : Wanted(h) ~> (~Wanted(h) \/ \E p \in Worker : h \in proc[p].sessions)

\* A kill order ends the process.
KillHonoured ==
  \A p \in Worker : (proc[p].loop /\ row[KeyOf[p]].kill) ~> At(p, "down")

\* The assignment of a disabled subscription is cleared.
DisabledReleased ==
  \A h \in Handle : (sub[h].st = "off" /\ sub[h].owner # NoOwner)
                      ~> (sub[h].st # "off" \/ sub[h].owner = NoOwner)
=============================================================================
