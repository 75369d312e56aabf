------------------------- MODULE NotificationQueue -------------------------
(***************************************************************************)
(* The e-mail notification queue: handlers of the API process submit       *)
(* notifications to a Redis list, consumer processes pop and deliver them  *)
(* over SMTP, and a promoter in every consumer moves due retries back.     *)
(*                                                                         *)
(* One action is one Redis command with the local work around it, one      *)
(* SMTP transaction of an executor thread, or one step of an event loop.   *)
(* Commands are atomic in Redis and interleave between any two actions.    *)
(* The only adapter is the e-mail one, so there is one channel.  The rate  *)
(* window and the delays of retries are abstracted: whether the window is  *)
(* full, and which retries are due, is left open.                          *)
(*                                                                         *)
(* The client is created with retry_on_timeout: a command whose answer     *)
(* does not come within the socket timeout is sent once more, although     *)
(* Redis may have executed it.  The first execution is an action of its    *)
(* own (EnqueueAgain, PopAgain, ...) that leaves the caller waiting.       *)
(***************************************************************************)
EXTENDS Integers, Sequences, FiniteSets

CONSTANTS
  Msg,          \* notifications, by their id
  Consumer,     \* consumer processes; a restarted process keeps its name
  MaxAttempts,  \* max_attempts
  Concurrency,  \* slots of the semaphore
  MaxResends,   \* bound: commands about one notification executed twice
  Env           \* the events of the environment this instance allows

EnvEvents == {"slow",       \* the API's loop takes more than 5 s to enqueue
              "apicrash",   \* the API process dies and is restarted
              "redis",      \* a command fails before it takes effect
              "reply",      \* a command takes effect and its reply is lost
              "rate",       \* the rate window is full
              "transient",  \* SMTP fails in a way that is retried
              "refused",    \* SMTP refuses the recipient, the sender or the mail
              "ack",        \* SMTP takes the mail and the sender sees a failure
              "sigterm", "crash", "restart",
              "impatient"}  \* deliveries outlast shutdown_timeout

ASSUME QueueAssumption ==
  /\ MaxAttempts \in Nat \ {0}
  /\ Concurrency \in Nat \ {0}
  /\ MaxResends \in Nat
  /\ Env \subseteq EnvEvents

VARIABLES
  pending,  \* nq:pending:email, a LIST
  retry,    \* nq:retry, a ZSET: adding a member twice keeps one
  dlq,      \* nq:dlq:email; nothing takes from it, so the set of its items
  api,      \* the API process
  con,      \* the memory of each consumer process
  mail,     \* how often SMTP has taken each notification
  tries,    \* how often consumers have tried each notification over SMTP
  resent    \* history: commands about each notification executed twice

redis == <<pending, retry, dlq>>
smtp == <<mail, tries, resent>>
vars == <<redis, api, con, smtp>>

-----------------------------------------------------------------------------
(* Types *)

\* A NotificationMessage as Redis and a consumer hold it.
Copy == [id : Msg, attempt : 1 .. MaxAttempts]

\* "again": a transient failure whose enqueue_retry is being sent once more.
Result == {"none", "ok", "transient", "refused", "again"}

\* A task of _deliver_with_semaphore; "none" while its SMTP thread runs.  The
\* slot tells two tasks apart that carry the same message.
Task == [slot : 1 .. Concurrency, msg : Copy, result : Result]

\* Where a handler of the API stands: waiting for the enqueue, sending itself,
\* or done because the notification was queued, sent, failed or lost.
Stage == {"new", "waiting", "fallback", "queued", "sent", "failed", "lost"}

Api == [up    : BOOLEAN,         \* _redis_available
        stage : [Msg -> Stage],
        calls : SUBSET Msg,      \* enqueue coroutines still to run
        again : SUBSET Msg]      \* those whose RPUSH is being sent once more

Con == [pc      : {"down", "blpop", "check", "postpone", "acquire", "loop",
                   "spin", "drain", "wait", "exit"},
        sigterm : BOOLEAN,       \* the process has received SIGTERM
        running : BOOLEAN,       \* _running
        up      : BOOLEAN,       \* _redis_available
        hand    : SUBSET Copy,   \* the message of the main loop, if any
        tasks   : SUBSET Task,   \* _tasks; each holds a slot of the semaphore
        due     : SUBSET Copy,   \* items promote_due_retries has still to move
        moving  : SUBSET Copy]   \* the item it has removed and not yet pushed

TypeOK ==
  /\ pending \in Seq(Copy)
  /\ retry \in SUBSET Copy
  /\ dlq \in SUBSET Copy
  /\ api \in Api
  /\ con \in [Consumer -> Con]
  /\ mail \in [Msg -> Nat]
  /\ tries \in [Msg -> Nat]
  /\ resent \in [Msg -> 0 .. MaxResends]

Down == [pc |-> "down", sigterm |-> FALSE, running |-> FALSE, up |-> FALSE,
         hand |-> {}, tasks |-> {}, due |-> {}, moving |-> {}]

Started == [Down EXCEPT !.pc = "blpop", !.running = TRUE, !.up = TRUE]

Init ==
  /\ pending = <<>> /\ retry = {} /\ dlq = {}
  /\ api = [up |-> TRUE, stage |-> [m \in Msg |-> "new"], calls |-> {}, again |-> {}]
  /\ con = [c \in Consumer |-> Started]
  /\ mail = [m \in Msg |-> 0]
  /\ tries = [m \in Msg |-> 0]
  /\ resent = [m \in Msg |-> 0]

\* Redis has executed a command about m, and the client's read times out.
Resend(m) ==
  /\ resent[m] < MaxResends
  /\ resent' = [resent EXCEPT ![m] = @ + 1]
  /\ UNCHANGED <<mail, tries>>

-----------------------------------------------------------------------------
(* The API: EmailHandler and the enqueue coroutine on the API's loop *)

Answer(m, stage) == IF api.stage[m] = "waiting" THEN stage ELSE api.stage[m]

\* _try_enqueue builds the message and submits the coroutine to the loop.
Submit(m) ==
  /\ api.stage[m] = "new"
  /\ api' = [api EXCEPT !.stage[m] = "waiting", !.calls = @ \cup {m}]
  /\ UNCHANGED <<redis, con, smtp>>

\* Mutant of Push: the first attempt is not counted.
PushFromZero(m) == pending' = Append(pending, [id |-> m, attempt |-> 0])

Push(m) == pending' = Append(pending, [id |-> m, attempt |-> 1])

\* The flag is looked at before the RPUSH is sent for the first time.
Pushing(m) == (m \in api.calls /\ api.up) \/ m \in api.again

Enqueue(m) ==
  /\ Pushing(m)
  /\ Push(m)
  /\ api' = [api EXCEPT !.calls = @ \ {m}, !.again = @ \ {m},
                        !.stage[m] = Answer(m, "queued")]
  /\ UNCHANGED <<retry, dlq, con, smtp>>

EnqueueAgain(m) ==
  /\ m \in api.calls /\ api.up
  /\ Push(m) /\ Resend(m)
  /\ api' = [api EXCEPT !.calls = @ \ {m}, !.again = @ \cup {m}]
  /\ UNCHANGED <<retry, dlq, con>>

\* enqueue returns False: Redis is marked unavailable, or the command fails.
EnqueueFails(m) ==
  /\ \/ m \in api.calls /\ ~api.up /\ UNCHANGED pending
     \/ Pushing(m) /\ "redis" \in Env /\ UNCHANGED pending
     \/ Pushing(m) /\ "reply" \in Env /\ Push(m)
  /\ api' = [api EXCEPT !.up = FALSE, !.calls = @ \ {m}, !.again = @ \ {m},
                        !.stage[m] = Answer(m, "fallback")]
  /\ UNCHANGED <<retry, dlq, con, smtp>>

\* future.result(timeout=5) expires; the coroutine is not cancelled.
EnqueueTimeout(m) ==
  /\ "slow" \in Env /\ api.stage[m] = "waiting"
  /\ api' = [api EXCEPT !.stage[m] = "fallback"]
  /\ UNCHANGED <<redis, con, smtp>>

\* _send_email in the handler's own thread, and its outcome event.
SendSync(m) ==
  /\ api.stage[m] = "fallback"
  /\ \/ /\ mail' = [mail EXCEPT ![m] = @ + 1]
        /\ api' = [api EXCEPT !.stage[m] = "sent"]
     \/ /\ Env \cap {"transient", "refused"} # {} /\ UNCHANGED mail
        /\ api' = [api EXCEPT !.stage[m] = "failed"]
     \/ /\ "ack" \in Env
        /\ mail' = [mail EXCEPT ![m] = @ + 1]
        /\ api' = [api EXCEPT !.stage[m] = "failed"]
  /\ UNCHANGED <<redis, con, tries, resent>>

\* The API dies with its threads and its loop, and starts again; init_redis
\* may find Redis unavailable.
ApiCrash ==
  /\ "apicrash" \in Env
  /\ \E up \in {TRUE} \cup (IF "redis" \in Env THEN {FALSE} ELSE {}) :
       api' = [up    |-> up,
               stage |-> [m \in Msg |-> IF api.stage[m] \in {"waiting", "fallback"}
                                        THEN "lost" ELSE api.stage[m]],
               calls |-> {}, again |-> {}]
  /\ UNCHANGED <<redis, con, smtp>>

\* The API's health loop calls try_reconnect.
ApiReconnect ==
  /\ ~api.up
  /\ api' = [api EXCEPT !.up = TRUE]
  /\ UNCHANGED <<redis, con, smtp>>

-----------------------------------------------------------------------------
(* Consumers: the processes *)

At(c, pc) == con[c].pc = pc

Become(c, r) == con' = [con EXCEPT ![c] = r]

\* The event loop runs other tasks and callbacks: it has started, does not
\* close, and the main loop is suspended in an await.
Awake(c) == con[c].pc \in {"blpop", "check", "postpone", "acquire", "drain", "wait"}

\* The promoter runs until run() cancels it.
Promoting(c) == Awake(c) /\ con[c].pc \notin {"drain", "wait"}

\* A command that consumer c has sent, and after which its memory is r: it is
\* done and answered, or done or not and then marked as failed.
Sent(c, r, Done) ==
  \/ Done /\ Become(c, r)
  \/ "reply" \in Env /\ Done /\ Become(c, [r EXCEPT !.up = FALSE])
  \/ "redis" \in Env /\ UNCHANGED redis /\ Become(c, [r EXCEPT !.up = FALSE])

\* A Redis command of consumer c: sent if Redis is available, else skipped.
Command(c, r, Done) ==
  \/ con[c].up /\ Sent(c, r, Done)
  \/ ~con[c].up /\ UNCHANGED redis /\ Become(c, [r EXCEPT !.up = FALSE])

\* The command starts again: init_redis connects and run() enters its loop
\* (the command ends at once when it does not connect).
Start(c) ==
  /\ "restart" \in Env /\ At(c, "down")
  /\ Become(c, Started)
  /\ UNCHANGED <<redis, api, smtp>>

\* SIGKILL, or the host is lost.
Crash(c) ==
  /\ "crash" \in Env /\ ~At(c, "down")
  /\ Become(c, Down)
  /\ UNCHANGED <<redis, api, smtp>>

Sigterm(c) ==
  /\ "sigterm" \in Env /\ ~At(c, "down") /\ ~con[c].sigterm
  /\ Become(c, [con[c] EXCEPT !.sigterm = TRUE])
  /\ UNCHANGED <<redis, api, smtp>>

\* The loop runs the signal handler, whose task shutdown() clears _running.
HandleSigterm(c) ==
  /\ Awake(c) /\ con[c].sigterm /\ con[c].running
  /\ Become(c, [con[c] EXCEPT !.running = FALSE])
  /\ UNCHANGED <<redis, api, smtp>>

-----------------------------------------------------------------------------
(* The main loop of run() *)

\* Mutant of Loop: the loop forgets that it was asked to stop.
LoopForever(c) ==
  /\ At(c, "loop")
  /\ Become(c, [con[c] EXCEPT !.pc = IF con[c].up THEN "blpop" ELSE "spin"])
  /\ UNCHANGED <<redis, api, smtp>>

\* An iteration begins, with no suspension since the last one ended.  Without
\* Redis dequeue returns None at once and never suspends: the loop spins, and
\* nothing else of the process's event loop runs any more.
Loop(c) ==
  /\ At(c, "loop")
  /\ Become(c, [con[c] EXCEPT !.pc = CASE ~con[c].running -> "drain"
                                       [] con[c].running /\ con[c].up -> "blpop"
                                       [] con[c].running /\ ~con[c].up -> "spin"])
  /\ UNCHANGED <<redis, api, smtp>>

\* dequeue: BLPOP answers.  With Redis marked unavailable by then, the rate
\* check lets the message through.
Pop(c) ==
  /\ At(c, "blpop") /\ pending # <<>>
  /\ pending' = Tail(pending)
  /\ Become(c, [con[c] EXCEPT !.hand = {Head(pending)},
                              !.pc = IF con[c].up THEN "check" ELSE "acquire"])
  /\ UNCHANGED <<retry, dlq, api, smtp>>

\* BLPOP takes the first item, and the client sends it once more.
PopAgain(c) ==
  /\ At(c, "blpop") /\ pending # <<>>
  /\ pending' = Tail(pending) /\ Resend(Head(pending).id)
  /\ UNCHANGED <<retry, dlq, api, con>>

PopTimeout(c) ==
  /\ At(c, "blpop") /\ pending = <<>>
  /\ Become(c, [con[c] EXCEPT !.pc = "loop"])
  /\ UNCHANGED <<redis, api, smtp>>

PopFails(c) ==
  /\ At(c, "blpop")
  /\ \/ "redis" \in Env /\ UNCHANGED pending
     \/ "reply" \in Env /\ pending # <<>> /\ pending' = Tail(pending)
  /\ Become(c, [con[c] EXCEPT !.up = FALSE, !.pc = "loop"])
  /\ UNCHANGED <<retry, dlq, api, smtp>>

\* _check_rate_limit lets the message through.
Admit(c) ==
  /\ At(c, "check")
  /\ Become(c, [con[c] EXCEPT !.pc = "acquire"])
  /\ UNCHANGED <<redis, api, smtp>>

\* _check_rate_limit refuses it: enqueue_retry with the same attempt.
Postponed(c) == [con[c] EXCEPT !.hand = {}, !.pc = "loop"]

PutBack(c) == retry' = retry \cup con[c].hand /\ UNCHANGED <<pending, dlq>>

Postpone(c) ==
  /\ \/ At(c, "check") /\ "rate" \in Env /\ Command(c, Postponed(c), PutBack(c))
     \/ At(c, "postpone") /\ Sent(c, Postponed(c), PutBack(c))
  /\ UNCHANGED <<api, smtp>>

PostponeAgain(c) ==
  /\ At(c, "check") /\ "rate" \in Env /\ con[c].up
  /\ PutBack(c) /\ \E x \in con[c].hand : Resend(x.id)
  /\ Become(c, [con[c] EXCEPT !.pc = "postpone"])
  /\ UNCHANGED api

Slots(c) == {t.slot : t \in con[c].tasks}

\* The first free slot of the semaphore.
FirstFree(c, s) == s \notin Slots(c) /\ 1 .. (s - 1) \subseteq Slots(c)

\* The semaphore has a slot; the task is created.
Dispatch(c) ==
  /\ At(c, "acquire")
  /\ \E s \in 1 .. Concurrency :
       /\ FirstFree(c, s)
       /\ Become(c, [con[c] EXCEPT
            !.tasks = @ \cup {[slot |-> s, msg |-> x, result |-> "none"] : x \in con[c].hand},
            !.hand = {}, !.pc = "loop"])
  /\ UNCHANGED <<redis, api, smtp>>

-----------------------------------------------------------------------------
(* A delivery task *)

\* _send_smtp in an executor thread, which needs no event loop.
Send(c, t) ==
  /\ t \in con[c].tasks /\ t.result = "none"
  /\ \E result \in {"ok"} \cup (Env \cap {"transient", "refused"}) \cup
                   (IF "ack" \in Env THEN {"transient"} ELSE {}), taken \in BOOLEAN :
       /\ result = "ok" => taken
       /\ taken => (result = "ok" \/ ("ack" \in Env /\ result = "transient"))
       /\ mail' = IF taken THEN [mail EXCEPT ![t.msg.id] = @ + 1] ELSE mail
       /\ Become(c, [con[c] EXCEPT
            !.tasks = (@ \ {t}) \cup {[t EXCEPT !.result = result]}])
  /\ tries' = [tries EXCEPT ![t.msg.id] = @ + 1]
  /\ UNCHANGED <<redis, api, resent>>

Ended(c, t) == [con[c] EXCEPT !.tasks = @ \ {t}]

Delivered(c, t) ==
  /\ Awake(c) /\ t \in con[c].tasks /\ t.result = "ok"
  /\ Become(c, Ended(c, t))
  /\ UNCHANGED <<redis, api, smtp>>

\* Mutant of Exhausted: the comparison with max_attempts is off by one.
ExhaustedLate(t) == t.msg.attempt > MaxAttempts

Exhausted(t) == t.msg.attempt >= MaxAttempts

\* Mutant of Bury: the message is not moved to the dead-letter list.
BuryForgets(c, t) ==
  /\ Awake(c) /\ t \in con[c].tasks
  /\ t.result = "refused" \/ (t.result = "transient" /\ Exhausted(t))
  /\ Become(c, Ended(c, t))
  /\ UNCHANGED <<redis, api, smtp>>

\* A permanent failure, or the last attempt: move_to_dlq.  To push the item
\* twice makes no difference to the set of the items.
Bury(c, t) ==
  /\ Awake(c) /\ t \in con[c].tasks
  /\ t.result = "refused" \/ (t.result = "transient" /\ Exhausted(t))
  /\ Command(c, Ended(c, t),
             dlq' = dlq \cup {t.msg} /\ UNCHANGED <<pending, retry>>)
  /\ UNCHANGED <<api, smtp>>

\* _handle_transient_failure: enqueue_retry with the next attempt.
Schedule(t) == /\ retry' = retry \cup {[t.msg EXCEPT !.attempt = @ + 1]}
               /\ UNCHANGED <<pending, dlq>>

RetryLater(c, t) ==
  /\ Awake(c) /\ t \in con[c].tasks /\ ~Exhausted(t)
  /\ \/ t.result = "transient" /\ Command(c, Ended(c, t), Schedule(t))
     \/ t.result = "again" /\ Sent(c, Ended(c, t), Schedule(t))
  /\ UNCHANGED <<api, smtp>>

RetryAgain(c, t) ==
  /\ Awake(c) /\ t \in con[c].tasks /\ ~Exhausted(t)
  /\ t.result = "transient" /\ con[c].up
  /\ Schedule(t) /\ Resend(t.msg.id)
  /\ Become(c, [con[c] EXCEPT !.tasks = (@ \ {t}) \cup {[t EXCEPT !.result = "again"]}])
  /\ UNCHANGED api

-----------------------------------------------------------------------------
(* The promoter *)

\* promote_due_retries reads the items that are due.
PromoteRead(c, S) ==
  /\ Promoting(c) /\ con[c].running /\ con[c].up
  /\ con[c].due = {} /\ con[c].moving = {}
  /\ S \subseteq retry
  /\ Become(c, [con[c] EXCEPT !.due = S])
  /\ UNCHANGED <<redis, api, smtp>>

\* Mutant of PromoteRemove: the answer of ZREM is not looked at.
PromoteRemoveUnchecked(c, x) ==
  /\ Promoting(c) /\ x \in con[c].due /\ con[c].moving = {}
  /\ retry' = retry \ {x}
  /\ Become(c, [con[c] EXCEPT !.due = @ \ {x}, !.moving = {x}])
  /\ UNCHANGED <<pending, dlq, api, smtp>>

\* Mutant of PromoteRemove: all the items are removed before the first is pushed.
PromoteRemoveAll(c, x) ==
  /\ Promoting(c) /\ x \in con[c].due /\ con[c].moving = {}
  /\ retry' = retry \ con[c].due
  /\ Become(c, [con[c] EXCEPT !.due = {}, !.moving = {x} \cap retry])
  /\ UNCHANGED <<pending, dlq, api, smtp>>

\* ZREM; only the promoter whose ZREM removed the item goes on to push it.
PromoteRemove(c, x) ==
  /\ Promoting(c) /\ x \in con[c].due /\ con[c].moving = {}
  /\ retry' = retry \ {x}
  /\ Become(c, [con[c] EXCEPT !.due = @ \ {x}, !.moving = {x} \cap retry])
  /\ UNCHANGED <<pending, dlq, api, smtp>>

\* The first of two ZREMs removes the item: the second will answer 0.
PromoteRemoveAgain(c, x) ==
  /\ Promoting(c) /\ x \in con[c].due \cap retry /\ con[c].moving = {}
  /\ retry' = retry \ {x} /\ Resend(x.id)
  /\ UNCHANGED <<pending, dlq, api, con>>

PromotePush(c, x) ==
  /\ Promoting(c) /\ x \in con[c].moving
  /\ pending' = Append(pending, x)
  /\ Become(c, [con[c] EXCEPT !.moving = {}])
  /\ UNCHANGED <<retry, dlq, api, smtp>>

PromotePushAgain(c, x) ==
  /\ Promoting(c) /\ x \in con[c].moving
  /\ pending' = Append(pending, x) /\ Resend(x.id)
  /\ UNCHANGED <<retry, dlq, api, con>>

\* What the command the promoter waits for does when it is executed and its
\* answer is not seen.
Executed(c) ==
  \/ \E x \in con[c].moving : pending' = Append(pending, x) /\ UNCHANGED <<retry, dlq>>
  \/ /\ con[c].moving = {}
     /\ \E x \in con[c].due : retry' = retry \ {x} /\ UNCHANGED <<pending, dlq>>

Interrupted(c) == [con[c] EXCEPT !.due = {}, !.moving = {}]

PromoteFails(c) ==
  /\ Promoting(c)
  /\ con[c].running \/ con[c].due # {} \/ con[c].moving # {}
  /\ \/ "redis" \in Env /\ UNCHANGED redis
     \/ "reply" \in Env /\ Executed(c)
  /\ Become(c, [Interrupted(c) EXCEPT !.up = FALSE])
  /\ UNCHANGED <<api, smtp>>

-----------------------------------------------------------------------------
(* The end of run() *)

\* promoter_task.cancel(): the command the promoter waits for may have been
\* executed or not.
CancelPromoter(c) ==
  /\ At(c, "drain")
  /\ UNCHANGED redis \/ Executed(c)
  /\ Become(c, [Interrupted(c) EXCEPT !.pc = "wait"])
  /\ UNCHANGED <<api, smtp>>

\* Every delivery has ended.
Stop(c) ==
  /\ At(c, "wait") /\ con[c].tasks = {}
  /\ Become(c, Down)
  /\ UNCHANGED <<redis, api, smtp>>

\* shutdown_timeout expires: asyncio.run cancels the tasks, and joins the
\* threads that are still sending.
StopWaiting(c) ==
  /\ At(c, "wait") /\ con[c].tasks # {} /\ "impatient" \in Env
  /\ Become(c, [con[c] EXCEPT !.tasks = {t \in @ : t.result = "none"},
                              !.up = FALSE, !.pc = "exit"])
  /\ UNCHANGED <<redis, api, smtp>>

Exit(c) ==
  /\ At(c, "exit") /\ \A t \in con[c].tasks : t.result # "none"
  /\ Become(c, Down)
  /\ UNCHANGED <<redis, api, smtp>>

-----------------------------------------------------------------------------
ApiStep(m) == \/ Submit(m) \/ Enqueue(m) \/ EnqueueFails(m)
              \/ EnqueueTimeout(m) \/ SendSync(m)

LoopStep(c) == \/ Loop(c) \/ Pop(c) \/ PopTimeout(c) \/ PopFails(c)
               \/ Admit(c) \/ Postpone(c) \/ Dispatch(c)

TaskStep(c) == \E t \in con[c].tasks : \/ Send(c, t) \/ Delivered(c, t)
                                       \/ Bury(c, t) \/ RetryLater(c, t)

PromoterStep(c) ==
  \/ \E S \in SUBSET retry : PromoteRead(c, S)
  \/ \E x \in con[c].due : PromoteRemove(c, x)
  \/ \E x \in con[c].moving : PromotePush(c, x)
  \/ PromoteFails(c)

\* A command of the consumer is executed, and will be executed once more.
ResendStep(c) ==
  \/ PopAgain(c) \/ PostponeAgain(c)
  \/ \E t \in con[c].tasks : RetryAgain(c, t)
  \/ \E x \in con[c].due : PromoteRemoveAgain(c, x)
  \/ \E x \in con[c].moving : PromotePushAgain(c, x)

ProcessStep(c) == \/ Start(c) \/ Crash(c) \/ Sigterm(c) \/ HandleSigterm(c)
                  \/ CancelPromoter(c) \/ Stop(c) \/ StopWaiting(c) \/ Exit(c)

Next == \/ \E m \in Msg : ApiStep(m)
        \/ \E m \in Msg : EnqueueAgain(m)
        \/ ApiCrash \/ ApiReconnect
        \/ \E c \in Consumer : \/ LoopStep(c) \/ TaskStep(c) \/ PromoterStep(c)
                               \/ ResendStep(c) \/ ProcessStep(c)

Spec == Init /\ [][Next]_vars

\* What the event loops, Redis and SMTP guarantee of a process that lives: an
\* event loop serves every callback that is ready whenever the main loop
\* suspends (strong fairness: it suspends again and again unless it spins),
\* threads and commands end, a due retry is eventually read, and the rate
\* window does not stay full for ever.  Nothing is assumed of crashes,
\* signals, restarts or failures.
Fairness ==
  /\ \A m \in Msg : /\ WF_vars(Enqueue(m) \/ EnqueueFails(m))
                    /\ WF_vars(SendSync(m))
  /\ WF_vars(ApiReconnect)
  /\ \A c \in Consumer :
       /\ WF_vars(LoopStep(c)) /\ SF_vars(Pop(c)) /\ SF_vars(Admit(c))
       /\ SF_vars(TaskStep(c)) /\ SF_vars(HandleSigterm(c))
       /\ WF_vars(CancelPromoter(c)) /\ WF_vars(Stop(c)) /\ WF_vars(Exit(c))
       /\ SF_vars(\/ \E x \in con[c].due : PromoteRemove(c, x)
                  \/ \E x \in con[c].moving : PromotePush(c, x))
       /\ \A x \in Copy : SF_vars(\E S \in SUBSET retry : x \in S /\ PromoteRead(c, S))

FairSpec == Spec /\ Fairness

-----------------------------------------------------------------------------
(* Properties *)

Ids(S) == {x.id : x \in S}

\* The copies a consumer would still deliver.
Carried(c) == Ids(con[c].hand \cup con[c].moving)
              \cup {t.msg.id : t \in {u \in con[c].tasks : u.result # "ok"}}

InPending(m) == \E i \in 1 .. Len(pending) : pending[i].id = m

\* A notification goes to SMTP at most MaxAttempts times from the queue,
\* however often it is postponed, promoted or handed to another consumer, and
\* every command about it that the client sends twice costs at most as many
\* tries again: the two copies it may leave are counted apart.
AttemptsRespected == \A m \in Msg : tries[m] <= MaxAttempts * (1 + resent[m])

\* The case of a notification none of whose commands was executed twice.
AttemptsOfOneCopy == \A m \in Msg : resent[m] = 0 => tries[m] <= MaxAttempts

\* Somebody still has the notification, or it has reached an end that is
\* recorded: delivered, dead-lettered, or failed in the handler.
Kept(m) == \/ api.stage[m] \in {"new", "waiting", "fallback", "failed", "lost"}
           \/ m \in api.calls \cup api.again
           \/ InPending(m)
           \/ m \in Ids(retry \cup dlq)
           \/ \E c \in Consumer : m \in Carried(c)
           \/ mail[m] > 0

\* A notification vanishes only in the hands of a consumer, the one that has it,
\* promotes it or pops it, and that dies, stops, or loses Redis in that step,
\* or takes it with a BLPOP or ZREM whose answer is late and that is sent again.
OnlyHolderLoses ==
  [][\A m \in Msg : Kept(m) /\ ~Kept(m)' =>
       \E c \in Consumer :
         \/ /\ \/ m \in Carried(c) \cup Ids(con[c].due)
               \/ At(c, "blpop") /\ pending # <<>> /\ m = Head(pending).id
            /\ con'[c].pc \in {"down", "wait", "exit"} \/ ~con'[c].up
         \/ /\ \/ m \in Ids(con[c].due)
               \/ At(c, "blpop") /\ pending # <<>> /\ m = Head(pending).id
            /\ resent'[m] # resent[m] /\ UNCHANGED con]_vars

\* Where a notification is, as the outside sees it.
Life(m) ==
  CASE mail[m] > 0                   -> "sent"
    [] mail[m] = 0 /\ m \in Ids(dlq) -> "dead"
    [] mail[m] = 0 /\ m \notin Ids(dlq) /\ api.stage[m] \in {"new", "failed"} -> api.stage[m]
    [] OTHER -> IF \/ api.stage[m] \in {"waiting", "fallback"} \/ InPending(m) \/ m \in Ids(retry)
                   \/ \E c \in Consumer : m \in Carried(c)
                THEN "held" ELSE "lost"

Promise == INSTANCE Delivery WITH life <- [m \in Msg |-> Life(m)]

\* As long as no answer of Redis, SMTP or the API's loop is late or lost (so no
\* command is sent twice), the queue delivers a notification at most once and comes to one final end with
\* it: with several consumers and promoters, crashes and restarts.
DeliversOnce == Promise!DeliverySpec

Settled(m) == mail[m] > 0 \/ m \in Ids(dlq) \/ api.stage[m] \in {"failed", "lost"}

\* While Redis answers and no consumer is asked to stop, every notification
\* that was submitted is eventually delivered, dead-lettered or reported as failed.
Settles ==
  ([]\A c \in Consumer : ~con[c].sigterm) =>
     \A m \in Msg : (api.stage[m] # "new") ~> Settled(m)

\* A consumer that receives SIGTERM ends.
SigtermStops == \A c \in Consumer : con[c].sigterm ~> At(c, "down")

\* The handler sends a notification itself only if it was not queued.
FallbackNotQueued ==
  \A m \in Msg : api.stage[m] = "fallback" => ~InPending(m)
=============================================================================
