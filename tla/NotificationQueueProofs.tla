---------------------- MODULE NotificationQueueProofs ----------------------
(***************************************************************************)
(* Proofs about NotificationQueue for every value of its constants.        *)
(***************************************************************************)
EXTENDS NotificationQueue, SequenceTheorems, TLAPS

USE DEF At

-----------------------------------------------------------------------------
(* Types *)

LEMMA MemoryType ==
  ASSUME TypeOK, NEW c \in Consumer
  PROVE  con[c] \in Con
BY DEF TypeOK

LEMMA MailType ==
  ASSUME TypeOK, NEW m \in Msg
  PROVE  mail[m] \in Nat
BY DEF TypeOK

LEMMA BecomeType ==
  ASSUME TypeOK, NEW c \in Consumer, NEW r \in Con, Become(c, r)
  PROVE  con' \in [Consumer -> Con]
BY DEF TypeOK, Become

LEMMA FirstCopy == \A m \in Msg : [id |-> m, attempt |-> 1] \in Copy
BY QueueAssumption DEF Copy

LEMMA StartedType == Down \in Con /\ Started \in Con
BY DEF Down, Started, Con

\* The types of what a command leaves, whichever way it ends.
LEMMA CommandType ==
  ASSUME TypeOK, NEW c \in Consumer, NEW r \in Con, NEW Done,
         Command(c, r, Done) \/ Sent(c, r, Done), UNCHANGED <<api, smtp>>,
         Done => pending' \in Seq(Copy) /\ retry' \in SUBSET Copy /\ dlq' \in SUBSET Copy
  PROVE  TypeOK'
<1>1. [r EXCEPT !.up = FALSE] \in Con
  BY DEF Con
<1>2. con' \in [Consumer -> Con]
  BY <1>1, BecomeType DEF Command, Sent
<1>3. pending' \in Seq(Copy) /\ retry' \in SUBSET Copy /\ dlq' \in SUBSET Copy
  BY DEF Command, Sent, redis, TypeOK
<1> QED BY <1>2, <1>3 DEF TypeOK, smtp

\* The types after a step of consumer c outside of Command.
LEMMA StepType ==
  ASSUME TypeOK, NEW c \in Consumer, NEW r \in Con, Become(c, r),
         UNCHANGED <<api, smtp>>,
         pending' \in Seq(Copy), retry' \in SUBSET Copy, dlq' \in SUBSET Copy
  PROVE  TypeOK'
BY BecomeType DEF TypeOK, smtp

LEMMA ResendType ==
  ASSUME TypeOK, NEW m \in Msg, Resend(m)
  PROVE  /\ resent' \in [Msg -> 0 .. MaxResends] /\ resent'[m] > 0 /\ UNCHANGED <<mail, tries>>
         /\ \A n \in Msg \ {m} : resent'[n] = resent[n]
BY QueueAssumption DEF TypeOK, Resend

\* The types after a step of consumer c that executes a command the first of
\* two times.
LEMMA ResendStepType ==
  ASSUME TypeOK, NEW m \in Msg, Resend(m), UNCHANGED api, con' \in [Consumer -> Con],
         pending' \in Seq(Copy), retry' \in SUBSET Copy, dlq' \in SUBSET Copy
  PROVE  TypeOK'
BY ResendType DEF TypeOK

LEMMA InitTypeOK == Init => TypeOK
<1> SUFFICES ASSUME Init PROVE TypeOK
  OBVIOUS
<1>1. pending \in Seq(Copy) /\ retry \in SUBSET Copy /\ dlq \in SUBSET Copy
  BY DEF Init
<1>2. api \in Api
  BY DEF Init, Api, Stage
<1>3. con \in [Consumer -> Con]
  BY StartedType DEF Init
<1>4. resent \in [Msg -> 0 .. MaxResends]
  BY QueueAssumption DEF Init
<1> QED BY <1>1, <1>2, <1>3, <1>4 DEF Init, TypeOK

LEMMA ApiTypeOK ==
  ASSUME TypeOK, (\E m \in Msg : ApiStep(m) \/ EnqueueAgain(m)) \/ ApiCrash \/ ApiReconnect
  PROVE  TypeOK'
<1>0. /\ api \in Api /\ pending \in Seq(Copy)
      /\ retry \in SUBSET Copy /\ dlq \in SUBSET Copy /\ con \in [Consumer -> Con]
      /\ mail \in [Msg -> Nat] /\ tries \in [Msg -> Nat]
      /\ resent \in [Msg -> 0 .. MaxResends]
  BY DEF TypeOK
<1> USE DEF redis, smtp
<1>1. ASSUME NEW m \in Msg, Submit(m) PROVE TypeOK'
  <2>1. api' \in Api
    BY <1>0, <1>1 DEF Submit, Api, Stage
  <2> QED BY <1>0, <1>1, <2>1 DEF Submit, TypeOK
<1>2. ASSUME NEW m \in Msg, Enqueue(m) \/ EnqueueFails(m) PROVE TypeOK'
  <2>1. Answer(m, "queued") \in Stage /\ Answer(m, "fallback") \in Stage
    BY <1>0 DEF Answer, Api, Stage
  <2>2. CASE Enqueue(m)
    <3>1. api' \in Api
      BY <1>0, <2>1, <2>2 DEF Enqueue, Api
    <3>2. pending' \in Seq(Copy)
      BY <1>0, <2>2, FirstCopy, AppendProperties DEF Enqueue, Push
    <3> QED BY <1>0, <2>2, <3>1, <3>2 DEF Enqueue, TypeOK
  <2>3. CASE EnqueueFails(m)
    <3>1. api' = [api EXCEPT !.up = FALSE, !.calls = @ \ {m}, !.again = @ \ {m},
                             !.stage[m] = Answer(m, "fallback")]
      BY <2>3 DEF EnqueueFails
    <3>2. api' \in Api
      BY <1>0, <2>1, <3>1 DEF Api
    <3>3. pending' = pending \/ Push(m)
      BY <2>3 DEF EnqueueFails
    <3>4. pending' \in Seq(Copy)
      <4>1. Append(pending, [id |-> m, attempt |-> 1]) \in Seq(Copy)
        BY <1>0, FirstCopy, AppendProperties
      <4> QED BY <1>0, <3>3, <4>1 DEF Push
    <3>5. UNCHANGED <<retry, dlq, con, smtp>>
      BY <2>3 DEF EnqueueFails
    <3> QED BY <1>0, <3>2, <3>4, <3>5 DEF TypeOK
  <2> QED BY <1>2, <2>2, <2>3
<1>3. ASSUME NEW m \in Msg, EnqueueTimeout(m) PROVE TypeOK'
  <2>1. api' \in Api
    BY <1>0, <1>3 DEF EnqueueTimeout, Api, Stage
  <2> QED BY <1>0, <1>3, <2>1 DEF EnqueueTimeout, TypeOK
<1>4. ASSUME NEW m \in Msg, SendSync(m) PROVE TypeOK'
  <2>1. api' \in Api
    <3>1. PICK stage \in {"sent", "failed"} : api' = [api EXCEPT !.stage[m] = stage]
      BY <1>4 DEF SendSync
    <3> QED BY <1>0, <3>1 DEF Api, Stage
  <2>2. mail' \in [Msg -> Nat]
    BY <1>0, <1>4 DEF SendSync
  <2> QED BY <1>0, <1>4, <2>1, <2>2 DEF SendSync, TypeOK
<1>5. CASE ApiCrash
  <2>1. [m \in Msg |-> IF api.stage[m] \in {"waiting", "fallback"} THEN "lost" ELSE api.stage[m]]
          \in [Msg -> Stage]
    BY <1>0 DEF Api, Stage
  <2>2. api' \in Api
    <3>1. PICK up \in BOOLEAN :
            api' = [up |-> up,
                    stage |-> [m \in Msg |-> IF api.stage[m] \in {"waiting", "fallback"}
                                             THEN "lost" ELSE api.stage[m]],
                    calls |-> {}, again |-> {}]
      BY <1>5 DEF ApiCrash
    <3> QED BY <2>1, <3>1 DEF Api
  <2> QED BY <1>0, <1>5, <2>2 DEF ApiCrash, TypeOK
<1>6. CASE ApiReconnect
  <2>1. api' \in Api
    BY <1>0, <1>6 DEF ApiReconnect, Api
  <2> QED BY <1>0, <1>6, <2>1 DEF ApiReconnect, TypeOK
<1>7. ASSUME NEW m \in Msg, EnqueueAgain(m) PROVE TypeOK'
  <2>1. api' \in Api
    BY <1>0, <1>7 DEF EnqueueAgain, Api
  <2>2. pending' \in Seq(Copy)
    BY <1>0, <1>7, FirstCopy, AppendProperties DEF EnqueueAgain, Push
  <2>3. Resend(m) /\ UNCHANGED <<retry, dlq, con>>
    BY <1>7 DEF EnqueueAgain
  <2> QED BY <1>0, <2>1, <2>2, <2>3, ResendType DEF TypeOK
<1> QED BY <1>1, <1>2, <1>3, <1>4, <1>5, <1>6, <1>7 DEF ApiStep

LEMMA LoopTypeOK ==
  ASSUME TypeOK, NEW c \in Consumer, LoopStep(c)
  PROVE  TypeOK'
<1>0. con[c] \in Con /\ pending \in Seq(Copy) /\ retry \in SUBSET Copy /\ dlq \in SUBSET Copy
  BY MemoryType DEF TypeOK
<1> USE DEF redis
<1>1. CASE Loop(c)
  <2>1. PICK pc \in {"drain", "blpop", "spin"} : Become(c, [con[c] EXCEPT !.pc = pc])
    BY <1>0, <1>1 DEF Loop, Con
  <2>2. [con[c] EXCEPT !.pc = pc] \in Con
    BY <1>0 DEF Con
  <2> QED BY <1>0, <1>1, <2>1, <2>2, StepType DEF Loop
<1>2. CASE Pop(c)
  <2>1. Head(pending) \in Copy /\ Tail(pending) \in Seq(Copy)
    BY <1>0, <1>2, HeadTailProperties DEF Pop
  <2>2. [con[c] EXCEPT !.hand = {Head(pending)},
                       !.pc = IF con[c].up THEN "check" ELSE "acquire"] \in Con
    BY <1>0, <2>1 DEF Con
  <2> QED BY <1>0, <1>2, <2>1, <2>2, StepType DEF Pop
<1>3. CASE PopTimeout(c)
  <2>1. [con[c] EXCEPT !.pc = "loop"] \in Con
    BY <1>0 DEF Con
  <2> QED BY <1>0, <1>3, <2>1, StepType DEF PopTimeout
<1>4. CASE PopFails(c)
  <2>1. [con[c] EXCEPT !.up = FALSE, !.pc = "loop"] \in Con
    BY <1>0 DEF Con
  <2>2. pending' \in Seq(Copy)
    BY <1>0, <1>4, HeadTailProperties DEF PopFails
  <2> QED BY <1>0, <1>4, <2>1, <2>2, StepType DEF PopFails
<1>5. CASE Admit(c)
  <2>1. [con[c] EXCEPT !.pc = "acquire"] \in Con
    BY <1>0 DEF Con
  <2> QED BY <1>0, <1>5, <2>1, StepType DEF Admit
<1>6. CASE Postpone(c)
  <2>1. Postponed(c) \in Con /\ con[c].hand \in SUBSET Copy
    BY <1>0 DEF Con, Postponed
  <2>2. PutBack(c) => pending' \in Seq(Copy) /\ retry' \in SUBSET Copy /\ dlq' \in SUBSET Copy
    BY <1>0, <2>1 DEF PutBack
  <2> QED BY <1>6, <2>1, <2>2, CommandType DEF Postpone
<1>7. CASE Dispatch(c)
  <2>1. PICK s \in 1 .. Concurrency :
          Become(c, [con[c] EXCEPT
            !.tasks = @ \cup {[slot |-> s, msg |-> x, result |-> "none"] : x \in con[c].hand},
            !.hand = {}, !.pc = "loop"])
    BY <1>7 DEF Dispatch
  <2>2. {[slot |-> s, msg |-> x, result |-> "none"] : x \in con[c].hand} \in SUBSET Task
    BY <1>0 DEF Con, Task, Result
  <2>3. [con[c] EXCEPT
           !.tasks = @ \cup {[slot |-> s, msg |-> x, result |-> "none"] : x \in con[c].hand},
           !.hand = {}, !.pc = "loop"] \in Con
    BY <1>0, <2>2 DEF Con
  <2> QED BY <1>0, <1>7, <2>1, <2>3, StepType DEF Dispatch
<1> QED BY <1>1, <1>2, <1>3, <1>4, <1>5, <1>6, <1>7 DEF LoopStep

LEMMA TaskTypeOK ==
  ASSUME TypeOK, NEW c \in Consumer, TaskStep(c)
  PROVE  TypeOK'
<1>0. con[c] \in Con /\ pending \in Seq(Copy) /\ retry \in SUBSET Copy /\ dlq \in SUBSET Copy
  BY MemoryType DEF TypeOK
<1> SUFFICES ASSUME NEW t \in con[c].tasks, Send(c, t) \/ Delivered(c, t) \/ Bury(c, t) \/ RetryLater(c, t)
             PROVE  TypeOK'
  BY DEF TaskStep
<1>1. t \in Task /\ t.msg \in Copy /\ Ended(c, t) \in Con
  BY <1>0 DEF Con, Task, Ended
<1>2. CASE Send(c, t)
  <2>1. PICK result \in Result, taken \in BOOLEAN :
          /\ mail' = IF taken THEN [mail EXCEPT ![t.msg.id] = @ + 1] ELSE mail
          /\ Become(c, [con[c] EXCEPT !.tasks = (@ \ {t}) \cup {[t EXCEPT !.result = result]}])
    BY <1>2 DEF Send, Result
  <2>2. [t EXCEPT !.result = result] \in Task
    BY <1>1 DEF Task
  <2>3. [con[c] EXCEPT !.tasks = (@ \ {t}) \cup {[t EXCEPT !.result = result]}] \in Con
    BY <1>0, <2>2 DEF Con
  <2>4. con' \in [Consumer -> Con]
    BY <2>1, <2>3, BecomeType
  <2>5. mail' \in [Msg -> Nat] /\ tries' \in [Msg -> Nat] /\ resent' = resent
    BY <1>1, <1>2, <2>1 DEF Send, TypeOK, Copy
  <2> QED BY <1>2, <2>4, <2>5 DEF Send, TypeOK, redis
<1>3. CASE Delivered(c, t)
  BY <1>0, <1>1, <1>3, StepType DEF Delivered, redis
<1>4. CASE Bury(c, t)
  BY <1>0, <1>1, <1>4, CommandType DEF Bury
<1>5. CASE RetryLater(c, t)
  <2>1. [t.msg EXCEPT !.attempt = @ + 1] \in Copy
    BY <1>1, <1>5, QueueAssumption DEF RetryLater, Exhausted, Copy
  <2>2. Schedule(t) => pending' \in Seq(Copy) /\ retry' \in SUBSET Copy /\ dlq' \in SUBSET Copy
    BY <1>0, <2>1 DEF Schedule
  <2> QED BY <1>1, <1>5, <2>2, CommandType DEF RetryLater
<1> QED BY <1>2, <1>3, <1>4, <1>5

LEMMA PromoterTypeOK ==
  ASSUME TypeOK, NEW c \in Consumer, PromoterStep(c) \/ CancelPromoter(c)
  PROVE  TypeOK'
<1>0. con[c] \in Con /\ pending \in Seq(Copy) /\ retry \in SUBSET Copy /\ dlq \in SUBSET Copy
  BY MemoryType DEF TypeOK
<1> USE DEF redis
<1>1. ASSUME NEW S \in SUBSET retry, PromoteRead(c, S) PROVE TypeOK'
  <2>1. [con[c] EXCEPT !.due = S] \in Con
    BY <1>0 DEF Con
  <2> QED BY <1>0, <1>1, <2>1, StepType DEF PromoteRead
<1>2. ASSUME NEW x \in con[c].due, PromoteRemove(c, x) PROVE TypeOK'
  <2>1. [con[c] EXCEPT !.due = @ \ {x}, !.moving = {x} \cap retry] \in Con
    BY <1>0 DEF Con
  <2> QED BY <1>0, <1>2, <2>1, StepType DEF PromoteRemove
<1>3. ASSUME NEW x \in con[c].moving, PromotePush(c, x) PROVE TypeOK'
  <2>1. [con[c] EXCEPT !.moving = {}] \in Con /\ x \in Copy
    BY <1>0 DEF Con
  <2>2. pending' \in Seq(Copy)
    BY <1>0, <1>3, <2>1, AppendProperties DEF PromotePush
  <2> QED BY <1>0, <1>3, <2>1, <2>2, StepType DEF PromotePush
<1>4. ASSUME Executed(c) PROVE pending' \in Seq(Copy) /\ retry' \in SUBSET Copy /\ dlq' \in SUBSET Copy
  <2>1. con[c].moving \in SUBSET Copy
    BY <1>0 DEF Con
  <2> QED BY <1>0, <1>4, <2>1, AppendProperties DEF Executed
<1>5. CASE PromoteFails(c)
  <2>1. [Interrupted(c) EXCEPT !.up = FALSE] \in Con
    BY <1>0 DEF Con, Interrupted
  <2>2. pending' \in Seq(Copy) /\ retry' \in SUBSET Copy /\ dlq' \in SUBSET Copy
    BY <1>0, <1>4, <1>5 DEF PromoteFails
  <2> QED BY <1>5, <2>1, <2>2, StepType DEF PromoteFails
<1>6. CASE CancelPromoter(c)
  <2>1. [Interrupted(c) EXCEPT !.pc = "wait"] \in Con
    BY <1>0 DEF Con, Interrupted
  <2>2. pending' \in Seq(Copy) /\ retry' \in SUBSET Copy /\ dlq' \in SUBSET Copy
    BY <1>0, <1>4, <1>6 DEF CancelPromoter
  <2> QED BY <1>6, <2>1, <2>2, StepType DEF CancelPromoter
<1> QED BY <1>1, <1>2, <1>3, <1>5, <1>6 DEF PromoterStep

LEMMA ResendTypeOK ==
  ASSUME TypeOK, NEW c \in Consumer, ResendStep(c)
  PROVE  TypeOK'
<1>0. /\ con[c] \in Con /\ con \in [Consumer -> Con] /\ pending \in Seq(Copy)
      /\ retry \in SUBSET Copy /\ dlq \in SUBSET Copy
      /\ con[c].hand \in SUBSET Copy /\ con[c].due \in SUBSET Copy /\ con[c].moving \in SUBSET Copy
      /\ \A x \in Copy : x.id \in Msg
  BY MemoryType DEF TypeOK, Con, Copy
<1>1. CASE PopAgain(c)
  <2>1. Head(pending) \in Copy /\ Tail(pending) \in Seq(Copy)
    BY <1>0, <1>1, HeadTailProperties DEF PopAgain
  <2> QED BY <1>0, <1>1, <2>1, ResendStepType DEF PopAgain
<1>2. CASE PostponeAgain(c)
  <2>1. [con[c] EXCEPT !.pc = "postpone"] \in Con
    BY <1>0 DEF Con
  <2>2. con' \in [Consumer -> Con]
    BY <1>2, <2>1, BecomeType DEF PostponeAgain
  <2>3. PICK x \in con[c].hand : Resend(x.id)
    BY <1>2 DEF PostponeAgain
  <2> QED BY <1>0, <1>2, <2>2, <2>3, ResendStepType DEF PostponeAgain, PutBack
<1>3. ASSUME NEW t \in con[c].tasks, RetryAgain(c, t) PROVE TypeOK'
  <2>1. t \in Task /\ t.msg \in Copy
    BY <1>0 DEF Con, Task
  <2>2. [t EXCEPT !.result = "again"] \in Task
    BY <2>1 DEF Task, Result
  <2>3. [con[c] EXCEPT !.tasks = (@ \ {t}) \cup {[t EXCEPT !.result = "again"]}] \in Con
    BY <1>0, <2>2 DEF Con
  <2>4. con' \in [Consumer -> Con]
    BY <1>3, <2>3, BecomeType DEF RetryAgain
  <2>5. [t.msg EXCEPT !.attempt = @ + 1] \in Copy
    BY <1>3, <2>1, QueueAssumption DEF RetryAgain, Exhausted, Copy
  <2> QED BY <1>0, <1>3, <2>1, <2>4, <2>5, ResendStepType DEF RetryAgain, Schedule
<1>4. ASSUME NEW x \in con[c].due, PromoteRemoveAgain(c, x) PROVE TypeOK'
  BY <1>0, <1>4, ResendStepType DEF PromoteRemoveAgain
<1>5. ASSUME NEW x \in con[c].moving, PromotePushAgain(c, x) PROVE TypeOK'
  <2>1. pending' \in Seq(Copy)
    BY <1>0, <1>5, AppendProperties DEF PromotePushAgain
  <2> QED BY <1>0, <1>5, <2>1, ResendStepType DEF PromotePushAgain
<1> QED BY <1>1, <1>2, <1>3, <1>4, <1>5 DEF ResendStep

LEMMA ProcessTypeOK ==
  ASSUME TypeOK, NEW c \in Consumer, ProcessStep(c)
  PROVE  TypeOK'
<1>0. con[c] \in Con /\ pending \in Seq(Copy) /\ retry \in SUBSET Copy /\ dlq \in SUBSET Copy
  BY MemoryType DEF TypeOK
<1>1. CASE CancelPromoter(c)
  BY <1>1, PromoterTypeOK
<1>2. ASSUME NEW r \in Con, Become(c, r), UNCHANGED <<redis, api, smtp>> PROVE TypeOK'
  BY <1>0, <1>2, StepType DEF redis
<1>3. CASE Start(c) \/ Crash(c) \/ Stop(c) \/ Exit(c)
  BY <1>2, <1>3, StartedType DEF Start, Crash, Stop, Exit
<1>4. CASE Sigterm(c)
  <2>1. [con[c] EXCEPT !.sigterm = TRUE] \in Con
    BY <1>0 DEF Con
  <2> QED BY <1>2, <1>4, <2>1 DEF Sigterm
<1>5. CASE HandleSigterm(c)
  <2>1. [con[c] EXCEPT !.running = FALSE] \in Con
    BY <1>0 DEF Con
  <2> QED BY <1>2, <1>5, <2>1 DEF HandleSigterm
<1>6. CASE StopWaiting(c)
  <2>1. [con[c] EXCEPT !.tasks = {t \in @ : t.result = "none"}, !.up = FALSE, !.pc = "exit"] \in Con
    BY <1>0 DEF Con
  <2> QED BY <1>2, <1>6, <2>1 DEF StopWaiting
<1> QED BY <1>1, <1>3, <1>4, <1>5, <1>6 DEF ProcessStep

LEMMA NextTypeOK ==
  ASSUME TypeOK, [Next]_vars
  PROVE  TypeOK'
<1>1. CASE Next
  BY <1>1, ApiTypeOK, LoopTypeOK, TaskTypeOK, PromoterTypeOK, ResendTypeOK, ProcessTypeOK DEF Next
<1>2. CASE UNCHANGED vars
  BY <1>2 DEF vars, redis, smtp, TypeOK
<1> QED BY <1>1, <1>2

\* The lists of Redis and the memory of the processes hold what they should:
\* in particular no copy has an attempt beyond max_attempts.
THEOREM QueueTypeCorrect == Spec => []TypeOK
BY InitTypeOK, NextTypeOK, PTL DEF Spec

-----------------------------------------------------------------------------
(***************************************************************************)
(* Attempts.  tries[m] counts what SMTP has been asked, and the copy of m  *)
(* carries a number of its own.  The two agree because there is one copy   *)
(* of m at a time: it moves from place to place, a copy that is lost is    *)
(* never found again, and a handler submits each notification once.  A     *)
(* command about m that is executed twice may leave two copies, so all of  *)
(* this is said of the notifications no command of which was.              *)
(***************************************************************************)

\* The notifications none of whose commands was executed twice.
Clean == {m \in Msg : resent[m] = 0}

\* Where a copy of a notification can be; the last three are consumer c's.
Place == {"pending", "retry", "hand", "moving", "task"}

Own == {"hand", "moving", "task"}

Listed(s) == {s[i] : i \in 1 .. Len(s)}

Distinct(s, S) == \A i, j \in 1 .. Len(s) : s[i].id = s[j].id /\ s[i].id \in S => i = j

\* x is no copy of what z is a copy of, if that is clean.
Other(x, z) == x.id = z.id => z.id \notin Clean

Content(k, c) == CASE k = "pending" -> Listed(pending)
                   [] k = "retry"   -> retry
                   [] k = "hand"    -> con[c].hand
                   [] k = "moving"  -> con[c].moving
                   [] k = "task"    -> {t.msg : t \in con[c].tasks}

OnePlace ==
  \A k, l \in Place, c, d \in Consumer : \A x \in Content(k, c), y \in Content(l, d) :
    x.id = y.id /\ x.id \in Clean => x = y /\ k = l /\ (k \in Own => c = d)

OneCopy ==
  /\ Distinct(pending, Clean)
  /\ \A c \in Consumer : /\ \A x, y \in con[c].hand : x = y
                         /\ \A t, u \in con[c].tasks :
                              t.msg.id = u.msg.id /\ t.msg.id \in Clean => t = u

Absent(m) == /\ \A x \in Listed(pending) \cup retry : x.id # m
             /\ \A k \in Place, c \in Consumer : \A x \in Content(k, c) : x.id # m

Unentered ==
  \A m \in Msg :
    /\ m \in Clean /\ (api.stage[m] = "new" \/ m \in api.calls) => tries[m] = 0 /\ Absent(m)
    /\ api.stage[m] = "new" => m \notin api.calls
    /\ m \in api.again => m \notin Clean

Counted ==
  /\ AttemptsOfOneCopy
  /\ \A k \in Place \ {"task"}, c \in Consumer : \A x \in Content(k, c) :
       x.id \in Clean => tries[x.id] < x.attempt
  /\ \A c \in Consumer : \A t \in con[c].tasks :
       t.msg.id \in Clean => /\ tries[t.msg.id] <= t.msg.attempt
                             /\ t.result = "none" => tries[t.msg.id] < t.msg.attempt

AttemptInv == TypeOK /\ OnePlace /\ OneCopy /\ Unentered /\ Counted

(***************************************************************************)
(* What holds besides while no answer is late or lost: the handler knows   *)
(* how its enqueue ended, what was dead-lettered is nowhere else, and a    *)
(* notification that SMTP has taken is at most in the task that knows it.  *)
(***************************************************************************)
Answered ==
  \A m \in Msg :
    /\ m \in api.calls <=> api.stage[m] = "waiting"
    /\ ~Absent(m) \/ m \in Ids(dlq) => api.stage[m] = "queued"
    /\ api.stage[m] \in {"new", "waiting", "fallback", "failed", "lost"} => mail[m] = 0
    /\ api.stage[m] = "sent" => mail[m] > 0
    /\ m \in Ids(dlq) => mail[m] = 0 /\ Absent(m)

Known ==
  /\ \A k \in Place \ {"task"}, c \in Consumer : \A x \in Content(k, c) : mail[x.id] = 0
  /\ \A c \in Consumer : \A t \in con[c].tasks : t.result = "ok" <=> mail[t.msg.id] > 0

Calm == Answered /\ Known

\* A step of the abstract queue for every notification.
Promised == \A m \in Msg : Promise!Moves(m, Life(m)')

\* No answer of Redis, of SMTP or of the API's loop is late or lost, and so no
\* command is sent twice.
Prompt == Env \cap {"slow", "reply", "ack"} = {} /\ MaxResends = 0

GoodStep == AttemptInv' /\ (Prompt /\ Calm => Calm' /\ Promised)

\* What the outside sees of a notification, in a calm state.
View(m) == CASE mail[m] > 0 -> "sent"
             [] mail[m] = 0 /\ m \in Ids(dlq) -> "dead"
             [] mail[m] = 0 /\ m \notin Ids(dlq) /\ api.stage[m] \in {"new", "failed"} -> api.stage[m]
             [] OTHER -> IF api.stage[m] \in {"waiting", "fallback"} \/ ~Absent(m)
                         THEN "held" ELSE "lost"

LEMMA PromptIsClean ==
  ASSUME TypeOK, Prompt
  PROVE  Clean = Msg /\ \A m \in Msg : ~Resend(m)
BY DEF TypeOK, Prompt, Clean, Resend

LEMMA ContentIs ==
  ASSUME NEW c \in Consumer
  PROVE  /\ Content("pending", c) = Listed(pending)
         /\ Content("retry", c) = retry
         /\ Content("hand", c) = con[c].hand
         /\ Content("moving", c) = con[c].moving
         /\ Content("task", c) = {t.msg : t \in con[c].tasks}
BY DEF Content

LEMMA ListedPending ==
  ASSUME TypeOK
  PROVE  /\ Listed(pending) \subseteq Copy
         /\ \A x \in Copy : Listed(Append(pending, x)) = Listed(pending) \cup {x}
         /\ \A x \in Copy : \A S : Distinct(pending, S) /\ (\A y \in Listed(pending) : y.id = x.id => x.id \notin S)
                                => Distinct(Append(pending, x), S)
         /\ pending # <<>> =>
              /\ Head(pending) \in Listed(pending)
              /\ Listed(Tail(pending)) \subseteq Listed(pending)
              /\ \A S : Distinct(pending, S) =>
                   /\ Distinct(Tail(pending), S)
                   /\ \A y \in Listed(Tail(pending)) : y.id = Head(pending).id => y.id \notin S
<1>0. pending \in Seq(Copy)
  BY DEF TypeOK
<1>1. Listed(pending) \subseteq Copy
  BY <1>0, ElementOfSeq DEF Listed
<1>2. ASSUME NEW x \in Copy, NEW S
      PROVE  /\ Listed(Append(pending, x)) = Listed(pending) \cup {x}
             /\ Distinct(pending, S) /\ (\A y \in Listed(pending) : y.id = x.id => x.id \notin S)
                  => Distinct(Append(pending, x), S)
  <2> DEFINE s == Append(pending, x)
  <2>1. /\ Len(s) = Len(pending) + 1 /\ Len(pending) \in Nat
        /\ \A i \in 1 .. Len(pending) : s[i] = pending[i]
        /\ s[Len(pending) + 1] = x
    BY <1>0, AppendProperties, LenProperties
  <2> HIDE DEF s
  <2>2. Listed(s) = Listed(pending) \cup {x}
    <3>1. Listed(s) \subseteq Listed(pending) \cup {x}
      BY <2>1 DEF Listed
    <3>2. \A i \in 1 .. Len(pending) : i \in 1 .. Len(s) /\ pending[i] = s[i]
      BY <2>1
    <3>3. Listed(pending) \subseteq Listed(s)
      BY <3>2 DEF Listed
    <3>4. x \in Listed(s)
      BY <2>1 DEF Listed
    <3> QED BY <3>1, <3>3, <3>4
  <2>3. ASSUME Distinct(pending, S), \A y \in Listed(pending) : y.id = x.id => x.id \notin S
        PROVE  Distinct(s, S)
    <3> SUFFICES ASSUME NEW i \in 1 .. Len(s), NEW j \in 1 .. Len(s), s[i].id = s[j].id, s[i].id \in S
                 PROVE  i = j
      BY DEF Distinct
    <3>1. \A n \in 1 .. Len(pending) : pending[n].id = x.id => x.id \notin S
      BY <2>3 DEF Listed
    <3> QED BY <2>1, <2>3, <3>1 DEF Distinct
  <2> QED BY <2>2, <2>3 DEF s
<1>3. ASSUME pending # <<>>
      PROVE  /\ Head(pending) \in Listed(pending)
             /\ Listed(Tail(pending)) \subseteq Listed(pending)
             /\ \A S : Distinct(pending, S) =>
                  /\ Distinct(Tail(pending), S)
                  /\ \A y \in Listed(Tail(pending)) : y.id = Head(pending).id => y.id \notin S
  <2> DEFINE s == Tail(pending)
  <2>1. /\ Len(s) = Len(pending) - 1 /\ Len(pending) \in Nat /\ Len(pending) > 0
        /\ \A i \in 1 .. Len(s) : s[i] = pending[i + 1]
        /\ Head(pending) = pending[1]
    BY <1>0, <1>3, HeadTailProperties, LenProperties, EmptySeq
  <2> HIDE DEF s
  <2>2. Head(pending) \in Listed(pending)
    BY <2>1 DEF Listed
  <2>3. \A i \in 1 .. Len(s) : i + 1 \in 1 .. Len(pending) /\ i + 1 # 1
    BY <2>1
  <2>4. Listed(s) \subseteq Listed(pending)
    BY <2>1, <2>3 DEF Listed
  <2>5. ASSUME NEW S, Distinct(pending, S) PROVE Distinct(s, S)
    BY <2>1, <2>3, <2>5 DEF Distinct
  <2>6. ASSUME NEW S, Distinct(pending, S), NEW y \in Listed(s), y.id = Head(pending).id PROVE y.id \notin S
    <3>1. PICK i \in 1 .. Len(s) : y = s[i]
      BY DEF Listed
    <3> QED BY <2>1, <2>3, <2>6, <3>1 DEF Distinct
  <2> QED BY <2>2, <2>4, <2>5, <2>6 DEF s
<1> QED BY <1>1, <1>2, <1>3

\* A step that only drops copies, or leaves them where they are.
LEMMA Drops ==
  ASSUME AttemptInv, TypeOK', Unentered', UNCHANGED <<tries, resent>>,
         \A k \in Place, c \in Consumer : Content(k, c)' \subseteq Content(k, c),
         \A c \in Consumer : /\ con'[c].tasks \subseteq con[c].tasks
                             /\ con'[c].hand \subseteq con[c].hand,
         Distinct(pending', Clean)
  PROVE  AttemptInv'
<1>0. Clean' = Clean
  BY DEF Clean
<1>1. OnePlace' /\ OneCopy'
  BY <1>0 DEF AttemptInv, OnePlace, OneCopy
<1>2. Counted'
  BY <1>0 DEF AttemptInv, Counted, AttemptsOfOneCopy
<1> QED BY <1>1, <1>2 DEF AttemptInv

\* A step that executes a command about m the first of two times: whatever it
\* does to m, what is said of the others stays.
LEMMA ResendDrops ==
  ASSUME AttemptInv, TypeOK', NEW m \in Msg, Resend(m), UNCHANGED api.stage,
         api'.calls \subseteq api.calls, api'.again \subseteq api.again \cup {m},
         \A k \in Place, c \in Consumer : \A x \in Content(k, c)' : x \in Content(k, c) \/ x.id = m,
         \A c \in Consumer : /\ \A t \in con'[c].tasks : t \in con[c].tasks \/ t.msg.id = m
                             /\ \A x, y \in con'[c].hand : x = y,
         \A x \in Listed(pending') \cup retry' : x \in Listed(pending) \cup retry \/ x.id = m,
         Distinct(pending', Clean \ {m})
  PROVE  GoodStep
<1>0. /\ Clean' = Clean \ {m} /\ UNCHANGED tries /\ ~Prompt /\ TypeOK
  BY ResendType, PromptIsClean DEF AttemptInv, Clean
<1>1. OnePlace'
  BY <1>0 DEF AttemptInv, OnePlace
<1>2. OneCopy'
  BY <1>0 DEF AttemptInv, OneCopy
<1>3. Counted'
  <2>1. AttemptsOfOneCopy'
    BY <1>0, ResendType DEF AttemptInv, Counted, AttemptsOfOneCopy
  <2>2. \A k \in Place \ {"task"}, c \in Consumer : \A x \in Content(k, c)' :
          x.id \in Clean' => tries'[x.id] < x.attempt
    BY <1>0 DEF AttemptInv, Counted
  <2>3. \A c \in Consumer : \A t \in con'[c].tasks :
          t.msg.id \in Clean' => /\ tries'[t.msg.id] <= t.msg.attempt
                                 /\ t.result = "none" => tries'[t.msg.id] < t.msg.attempt
    BY <1>0 DEF AttemptInv, Counted
  <2> QED BY <2>1, <2>2, <2>3 DEF Counted
<1>4. \A n \in Msg \ {m} : Absent(n) => Absent(n)'
  BY DEF Absent
<1>5. Unentered'
  BY <1>0, <1>4 DEF AttemptInv, Unentered
<1> QED BY <1>0, <1>1, <1>2, <1>3, <1>5 DEF AttemptInv, GoodStep

\* A step after which the copy of z.id, if there is one, is z in place k1 of
\* consumer c1 (in slot s, if in a task), and that may drop others.
LEMMA MovesOne ==
  ASSUME AttemptInv, TypeOK', Unentered', UNCHANGED <<tries, resent>>,
         NEW z, NEW k1 \in Place, NEW c1, NEW s, z.id \in Clean => tries[z.id] < z.attempt,
         \A k \in Place, c \in Consumer : \A x \in Content(k, c)' :
           \/ x \in Content(k, c) /\ Other(x, z)
           \/ x = z /\ k = k1 /\ (k \in Own => c = c1),
         \A c \in Consumer : /\ \A t \in con'[c].tasks :
                                  \/ t \in con[c].tasks /\ Other(t.msg, z)
                                  \/ t = [slot |-> s, msg |-> z, result |-> "none"]
                             /\ \A x, y \in con'[c].hand : x = y,
         Distinct(pending', Clean)
  PROVE  AttemptInv'
<1>0. Clean' = Clean
  BY DEF Clean
<1>1. \A k \in Place, c \in Consumer : \A x \in Content(k, c)' :
        x.id = z.id /\ z.id \in Clean => x = z /\ k = k1 /\ (k \in Own => c = c1)
  BY DEF Other
<1>2. OnePlace'
  <2> SUFFICES ASSUME NEW k \in Place, NEW l \in Place, NEW c \in Consumer, NEW d \in Consumer,
                      NEW x \in Content(k, c)', NEW y \in Content(l, d)', x.id = y.id, x.id \in Clean
               PROVE  x = y /\ k = l /\ (k \in Own => c = d)
    BY <1>0 DEF OnePlace
  <2>1. CASE x.id = z.id
    BY <1>1, <2>1
  <2>2. CASE x.id # z.id
    BY <2>2 DEF AttemptInv, OnePlace
  <2> QED BY <2>1, <2>2
<1>3. OneCopy'
  BY <1>0 DEF OneCopy, AttemptInv, Other
<1>4. Counted'
  <2>1. AttemptsOfOneCopy'
    BY DEF Counted, AttemptInv, AttemptsOfOneCopy
  <2>2. \A k \in Place \ {"task"}, c \in Consumer : \A x \in Content(k, c)' :
          x.id \in Clean' => tries'[x.id] < x.attempt
    BY <1>0 DEF Counted, AttemptInv
  <2>3. ASSUME NEW c \in Consumer, NEW t \in con'[c].tasks, t.msg.id \in Clean'
        PROVE  /\ tries'[t.msg.id] <= t.msg.attempt
               /\ t.result = "none" => tries'[t.msg.id] < t.msg.attempt
    <3>1. CASE t \in con[c].tasks
      BY <1>0, <2>3, <3>1 DEF Counted, AttemptInv
    <3>2. CASE t = [slot |-> s, msg |-> z, result |-> "none"]
      <4>1. z.id \in Msg /\ z.attempt \in Nat /\ tries[z.id] \in Nat
        BY <2>3, <3>2, QueueAssumption DEF AttemptInv, TypeOK, Con, Task, Copy
      <4> QED BY <1>0, <2>3, <3>2, <4>1
    <3> QED BY <3>1, <3>2
  <2> QED BY <2>1, <2>2, <2>3 DEF Counted
<1> QED BY <1>2, <1>3, <1>4 DEF AttemptInv

\* A notification that no copy brought in stays outside.
LEMMA StillUnentered ==
  ASSUME AttemptInv, UNCHANGED <<api, tries, resent>>, \A n \in Msg : Absent(n) => Absent(n)'
  PROVE  Unentered'
BY DEF AttemptInv, Unentered, Clean

LEMMA ViewIsLife == TypeOK /\ Calm => \A m \in Msg : Life(m) = View(m)
<1> SUFFICES ASSUME TypeOK, Calm, NEW m \in Msg PROVE Life(m) = View(m)
  OBVIOUS
<1>0. mail[m] \in Nat /\ \A c \in Consumer : \A t \in con[c].tasks : t \in Task
  BY MemoryType DEF TypeOK, Con
<1>1. InPending(m) <=> \E x \in Listed(pending) : x.id = m
  BY DEF InPending, Listed
<1>2. m \in Ids(retry) <=> \E x \in retry : x.id = m
  BY DEF Ids
<1>3. ASSUME NEW c \in Consumer
      PROVE  m \in Carried(c) <=>
               \/ \E x \in con[c].hand \cup con[c].moving : x.id = m
               \/ \E t \in con[c].tasks : t.msg.id = m /\ t.result # "ok"
  BY DEF Carried, Ids
<1>4. Absent(m) <=>
        /\ ~InPending(m) /\ m \notin Ids(retry)
        /\ \A c \in Consumer : /\ \A x \in con[c].hand \cup con[c].moving : x.id # m
                               /\ \A t \in con[c].tasks : t.msg.id # m
  BY <1>1, <1>2, ContentIs DEF Absent, Place
<1> QED BY <1>0, <1>3, <1>4 DEF Life, View, Calm, Known

LEMMA ViewIsLifeNext == TypeOK' /\ Calm' => \A m \in Msg : Life(m)' = View(m)'
<1>1. (TypeOK /\ Calm => \A m \in Msg : Life(m) = View(m))'
  BY ViewIsLife, PTL
<1> QED BY <1>1

\* While SMTP, the dead-letter list and the handlers stand still, a
\* notification stays where it is or is lost.
LEMMA HeldOrLost ==
  ASSUME TypeOK, Calm, TypeOK', UNCHANGED <<api, mail, dlq>>,
         \A n \in Msg : Absent(n) => Absent(n)', Known'
  PROVE  Calm' /\ Promised
<1>1. Answered'
  BY DEF Calm, Answered, Ids
<1>2. Calm'
  BY <1>1 DEF Calm
<1>3. ASSUME NEW m \in Msg PROVE Promise!Moves(m, Life(m)')
  <2>1. Life(m) = View(m)
    BY ViewIsLife
  <2>2. Life(m)' = View(m)'
    BY <1>2, ViewIsLifeNext
  <2>3. View(m)' = View(m) \/ (View(m) = "held" /\ View(m)' = "lost")
    BY DEF View, Ids
  <2>4. mail[m] \in Nat
    BY DEF TypeOK
  <2>5. View(m)' = "sent" => View(m) # "held"
    BY <2>3
  <2> QED BY <2>1, <2>2, <2>3, <2>5 DEF Promise!Moves, Promise!Edge
<1> QED BY <1>2, <1>3 DEF Promised

\* A step in which one notification changes its place and others may be lost.
LEMMA OneMoves ==
  ASSUME TypeOK, Calm, TypeOK', Calm', NEW m \in Msg,
         \A n \in Msg \ {m} : /\ mail'[n] = mail[n]
                              /\ View(n)' = View(n) \/ (View(n) = "held" /\ View(n)' = "lost"),
         View(m)' = View(m) \/ <<View(m), View(m)'>> \in Promise!Edge,
         mail'[m] = IF View(m)' = "sent" /\ View(m) = "held" THEN mail[m] + 1 ELSE mail[m]
  PROVE  Promised
<1>1. \A n \in Msg : Life(n) = View(n) /\ Life(n)' = View(n)'
  BY ViewIsLife, ViewIsLifeNext
<1>2. ASSUME NEW n \in Msg PROVE Promise!Moves(n, Life(n)')
  <2>1. CASE n = m
    BY <1>1, <2>1 DEF Promise!Moves
  <2>2. CASE n # m
    <3>0. n \in Msg \ {m}
      BY <2>2
    <3>1. /\ mail'[n] = mail[n]
          /\ View(n)' = View(n) \/ (View(n) = "held" /\ View(n)' = "lost")
      BY <3>0
    <3>2. ~(View(n)' = "sent" /\ View(n) = "held")
      BY <3>1
    <3>3. View(n)' = View(n) \/ <<View(n), View(n)'>> \in Promise!Edge
      BY <3>1 DEF Promise!Edge
    <3> QED BY <1>1, <3>1, <3>2, <3>3 DEF Promise!Moves
  <2> QED BY <2>1, <2>2
<1> QED BY <1>2 DEF Promised

LEMMA BecomeIs ==
  ASSUME TypeOK, NEW c \in Consumer, NEW r, Become(c, r)
  PROVE  con'[c] = r /\ \A d \in Consumer \ {c} : con'[d] = con[d]
BY DEF TypeOK, Become

\* A step of consumer c that only drops copies.
LEMMA DropStep ==
  ASSUME AttemptInv, TypeOK', NEW c \in Consumer, NEW r, Become(c, r), UNCHANGED <<api, smtp>>,
         Listed(pending') \subseteq Listed(pending), Distinct(pending', Clean), retry' \subseteq retry,
         r.hand \subseteq con[c].hand, r.moving \subseteq con[c].moving,
         r.tasks \subseteq con[c].tasks
  PROVE  AttemptInv' /\ (Calm /\ UNCHANGED dlq => Calm' /\ Promised)
<1>1. con'[c] = r /\ \A d \in Consumer \ {c} : con'[d] = con[d]
  BY BecomeIs DEF AttemptInv
<1>2. \A d \in Consumer : /\ con'[d].tasks \subseteq con[d].tasks
                          /\ con'[d].hand \subseteq con[d].hand
                          /\ con'[d].moving \subseteq con[d].moving
  BY <1>1
<1>3. \A k \in Place, d \in Consumer : Content(k, d)' \subseteq Content(k, d)
  BY <1>2 DEF Content, Place
<1>4. \A n \in Msg : Absent(n) => Absent(n)'
  BY <1>3 DEF Absent
<1>5. AttemptInv'
  BY <1>2, <1>3, <1>4, Drops, StillUnentered DEF smtp
<1>6. Calm => Known'
  BY <1>2, <1>3 DEF Calm, Known, smtp
<1> QED BY <1>4, <1>5, <1>6, HeldOrLost DEF AttemptInv, smtp

\* A step of consumer c that moves a copy from place k0 to place k1.
LEMMA MoveStep ==
  ASSUME AttemptInv, TypeOK', NEW c \in Consumer, NEW r, Become(c, r), UNCHANGED <<dlq, api, smtp>>,
         NEW z, NEW k0 \in Place, NEW k1 \in Place \ {k0}, NEW z0 \in Content(k0, c), NEW s,
         k0 = "task" => \E t \in con[c].tasks : t.msg.id = z.id /\ t.result # "ok",
         z0.id = z.id, z.id \in Clean => tries[z.id] < z.attempt,
         \A x \in Listed(pending') : \/ x \in Listed(pending) /\ (k0 = "pending" => Other(x, z))
                                     \/ x = z /\ k1 = "pending",
         Distinct(pending', Clean),
         \A x \in retry' : \/ x \in retry /\ (k0 = "retry" => Other(x, z))
                           \/ x = z /\ k1 = "retry",
         \A x \in r.hand : \/ x \in con[c].hand /\ (k0 = "hand" => Other(x, z))
                           \/ x = z /\ k1 = "hand",
         \A x, y \in r.hand : x = y,
         \A x \in r.moving : \/ x \in con[c].moving /\ (k0 = "moving" => Other(x, z))
                             \/ x = z /\ k1 = "moving",
         \A t \in r.tasks : \/ t \in con[c].tasks /\ (k0 = "task" => Other(t.msg, z))
                            \/ t = [slot |-> s, msg |-> z, result |-> "none"] /\ k1 = "task"
  PROVE  GoodStep
<1>1. con'[c] = r /\ \A d \in Consumer \ {c} : con'[d] = con[d]
  BY BecomeIs DEF AttemptInv
<1>2. \A k \in Place, d \in Consumer : \A x \in Content(k, d) :
        x.id = z.id /\ z.id \in Clean => k = k0 /\ (k \in Own => d = c)
  BY DEF AttemptInv, OnePlace
<1>3. \A d \in Consumer : \A t \in con[d].tasks : t.msg \in Content("task", d)
  BY DEF Content
<1>4. ASSUME NEW d \in Consumer, NEW k \in Place, NEW x \in Content(k, d)'
      PROVE  \/ x \in Content(k, d) /\ Other(x, z)
             \/ x = z /\ k = k1 /\ (k \in Own => d = c)
  <2>1. CASE k = "pending"
    BY <1>2, <1>4, <2>1 DEF Content, Own, Place, Other
  <2>2. CASE k = "retry"
    BY <1>2, <1>4, <2>2 DEF Content, Own, Place, Other
  <2>3. CASE k = "hand"
    BY <1>1, <1>2, <1>4, <2>3 DEF Content, Own, Place, Other
  <2>4. CASE k = "moving"
    BY <1>1, <1>2, <1>4, <2>4 DEF Content, Own, Place, Other
  <2>5. CASE k = "task"
    <3>1. PICK t \in con'[d].tasks : x = t.msg
      BY <1>4, <2>5 DEF Content
    <3>2. CASE t \in con[d].tasks
      BY <1>1, <1>2, <1>3, <2>5, <3>1, <3>2 DEF Own, Place, Other
    <3>3. CASE t \notin con[d].tasks
      BY <1>1, <2>5, <3>1, <3>3
    <3> QED BY <3>2, <3>3
  <2> QED BY <2>1, <2>2, <2>3, <2>4, <2>5 DEF Place
<1>5. ASSUME NEW d \in Consumer, NEW t \in con'[d].tasks
      PROVE  \/ t \in con[d].tasks /\ Other(t.msg, z)
             \/ t = [slot |-> s, msg |-> z, result |-> "none"]
  <2>1. CASE t \in con[d].tasks
    BY <1>1, <1>2, <1>3, <1>5, <2>1 DEF Own, Place, Other
  <2>2. CASE t \notin con[d].tasks
    BY <1>1, <1>5, <2>2
  <2> QED BY <2>1, <2>2
<1>6. \A d \in Consumer : \A x, y \in con'[d].hand : x = y
  BY <1>1 DEF AttemptInv, OneCopy
<1>7. \A n \in Msg : Absent(n) => Absent(n)'
  <2> SUFFICES ASSUME NEW n \in Msg, Absent(n) PROVE Absent(n)'
    OBVIOUS
  <2>1. n # z.id
    BY DEF Absent
  <2>2. \A x \in Listed(pending') \cup retry' : x.id # n
    BY <2>1 DEF Absent
  <2> QED BY <1>4, <2>1, <2>2 DEF Absent
<1>8. AttemptInv'
  <2>1. Unentered' /\ UNCHANGED <<tries, resent>> /\ k1 \in Place
    BY <1>7, StillUnentered DEF smtp
  <2>2. \A k \in Place, d \in Consumer : \A x \in Content(k, d)' :
          \/ x \in Content(k, d) /\ Other(x, z)
          \/ x = z /\ k = k1 /\ (k \in Own => d = c)
    BY <1>4
  <2>3. \A d \in Consumer :
          /\ \A t \in con'[d].tasks : \/ t \in con[d].tasks /\ Other(t.msg, z)
                                      \/ t = [slot |-> s, msg |-> z, result |-> "none"]
          /\ \A x, y \in con'[d].hand : x = y
    BY <1>5, <1>6
  <2> QED BY <2>1, <2>2, <2>3, MovesOne, SMTT(60)
<1>9. ASSUME Calm PROVE Known'
  <2>1. mail[z.id] = 0
    <3>1. CASE k0 = "task"
      <4>1. PICK t \in con[c].tasks : t.msg.id = z.id /\ t.result # "ok"
        BY <3>1
      <4>2. con[c] \in Con
        BY MemoryType DEF AttemptInv
      <4>3. t \in Task
        BY <4>1, <4>2 DEF Con
      <4>4. z.id \in Msg
        BY <4>1, <4>3 DEF Task, Copy
      <4>5. mail[z.id] \in Nat
        BY <4>4, MailType DEF AttemptInv
      <4> QED BY <1>9, <4>1, <4>5 DEF Calm, Known
    <3>2. CASE k0 # "task"
      BY <1>9, <3>2 DEF Calm, Known
    <3> QED BY <3>1, <3>2
  <2>2. UNCHANGED mail
    BY DEF smtp
  <2>3. \A d \in Consumer : \A t \in con'[d].tasks : t.result = "ok" <=> mail[t.msg.id] > 0
    BY <1>5, <1>9, <2>1 DEF Calm, Known
  <2> QED BY <1>4, <1>9, <2>1, <2>2, <2>3 DEF Calm, Known
<1> QED BY <1>7, <1>8, <1>9, HeldOrLost DEF AttemptInv, GoodStep, smtp

LEMMA AttemptTypes ==
  ASSUME AttemptInv, NEW c \in Consumer
  PROVE  /\ TypeOK /\ Distinct(pending, Clean)
         /\ con[c] \in Con /\ con[c].hand \in SUBSET Copy /\ con[c].moving \in SUBSET Copy
         /\ \A t \in con[c].tasks : t \in Task /\ t.msg \in Copy
         /\ \A x, y \in con[c].hand : x = y
BY MemoryType DEF AttemptInv, OneCopy, Con, Task

\* Steps of the consumers' processes, and of the loop when it moves nothing.
LEMMA QuietAttempts ==
  ASSUME AttemptInv, TypeOK', NEW c \in Consumer,
         \/ Loop(c) \/ PopTimeout(c) \/ PopFails(c) \/ Admit(c)
         \/ Start(c) \/ Crash(c) \/ Sigterm(c) \/ HandleSigterm(c)
         \/ Stop(c) \/ StopWaiting(c) \/ Exit(c)
         \/ \E t \in con[c].tasks : Delivered(c, t)
         \/ \E S \in SUBSET retry : PromoteRead(c, S)
  PROVE  GoodStep
<1>0. TypeOK /\ Distinct(pending, Clean) /\ con[c] \in Con
  BY AttemptTypes
<1>1. ASSUME NEW r, Become(c, r), UNCHANGED <<redis, api, smtp>>,
             r.hand \subseteq con[c].hand, r.moving \subseteq con[c].moving,
             r.tasks \subseteq con[c].tasks
      PROVE  GoodStep
  BY <1>0, <1>1, DropStep DEF redis, GoodStep, Listed, Distinct
<1>2. CASE Start(c) \/ Crash(c) \/ Stop(c) \/ Exit(c)
  <2>1. /\ Down.hand = {} /\ Down.moving = {} /\ Down.tasks = {}
        /\ Started.hand = {} /\ Started.moving = {} /\ Started.tasks = {}
    BY DEF Down, Started
  <2>2. Become(c, Down) \/ Become(c, Started)
    BY <1>2 DEF Start, Crash, Stop, Exit
  <2>3. UNCHANGED <<redis, api, smtp>>
    BY <1>2 DEF Start, Crash, Stop, Exit
  <2> QED BY <1>1, <2>1, <2>2, <2>3
<1>3. CASE Loop(c)
  <2>1. PICK pc \in {"drain", "blpop", "spin"} : Become(c, [con[c] EXCEPT !.pc = pc])
    BY <1>0, <1>3 DEF Loop, Con
  <2> QED BY <1>0, <1>1, <1>3, <2>1 DEF Loop, Con
<1>4. CASE PopTimeout(c)
  BY <1>0, <1>1, <1>4 DEF PopTimeout, Con
<1>5. CASE Admit(c)
  BY <1>0, <1>1, <1>5 DEF Admit, Con
<1>6. CASE Sigterm(c)
  BY <1>0, <1>1, <1>6 DEF Sigterm, Con
<1>7. CASE HandleSigterm(c)
  BY <1>0, <1>1, <1>7 DEF HandleSigterm, Con
<1>8. CASE StopWaiting(c)
  BY <1>0, <1>1, <1>8 DEF StopWaiting, Con
<1>9. CASE \E t \in con[c].tasks : Delivered(c, t)
  BY <1>0, <1>1, <1>9 DEF Delivered, Ended, Con
<1>10. CASE \E S \in SUBSET retry : PromoteRead(c, S)
  BY <1>0, <1>1, <1>10 DEF PromoteRead, Con
<1>11. CASE PopFails(c)
  <2> DEFINE r == [con[c] EXCEPT !.up = FALSE, !.pc = "loop"]
  <2>1. Become(c, r) /\ UNCHANGED <<retry, dlq, api, smtp>>
    BY <1>11 DEF PopFails
  <2>2. r.hand = con[c].hand /\ r.moving = con[c].moving /\ r.tasks = con[c].tasks
    BY <1>0 DEF Con
  <2>3. Listed(pending') \subseteq Listed(pending) /\ Distinct(pending', Clean)
    <3>1. pending' = pending \/ (pending # <<>> /\ pending' = Tail(pending))
      BY <1>11 DEF PopFails
    <3>2. CASE pending' = pending
      BY <1>0, <3>2
    <3>3. CASE pending # <<>> /\ pending' = Tail(pending)
      BY <1>0, <3>3, ListedPending
    <3> QED BY <3>1, <3>2, <3>3
  <2> HIDE DEF r
  <2> QED BY <2>1, <2>2, <2>3, DropStep DEF GoodStep
<1> QED BY <1>2, <1>3, <1>4, <1>5, <1>6, <1>7, <1>8, <1>9, <1>10, <1>11

\* BLPOP moves the first item of the list into the consumer's hand.
LEMMA PopAttempts ==
  ASSUME AttemptInv, TypeOK', NEW c \in Consumer, Pop(c)
  PROVE  GoodStep
<1>0. TypeOK /\ Distinct(pending, Clean) /\ con[c] \in Con
  BY AttemptTypes
<1> DEFINE z == Head(pending)
           r == [con[c] EXCEPT !.hand = {z}, !.pc = IF con[c].up THEN "check" ELSE "acquire"]
<1>1. Become(c, r) /\ UNCHANGED <<retry, dlq, api, smtp>> /\ pending # <<>> /\ pending' = Tail(pending)
  BY DEF Pop
<1>2. r.hand = {z} /\ r.moving = con[c].moving /\ r.tasks = con[c].tasks
  BY <1>0 DEF Con
<1>3. /\ z \in Content("pending", c) /\ Distinct(pending', Clean)
      /\ \A x \in Listed(pending') : x \in Listed(pending) /\ Other(x, z)
  BY <1>0, <1>1, ListedPending, ContentIs DEF Other
<1>4. z.id \in Clean => tries[z.id] < z.attempt
  BY <1>3 DEF AttemptInv, Counted, Place
<1> HIDE DEF r, z
<1>5. "pending" \in Place /\ "hand" \in Place \ {"pending"}
  BY DEF Place
<1> QED BY <1>1, <1>2, <1>3, <1>4, <1>5, MoveStep

\* The message goes from the hand to a task.
LEMMA DispatchAttempts ==
  ASSUME AttemptInv, TypeOK', NEW c \in Consumer, Dispatch(c)
  PROVE  GoodStep
<1>0. TypeOK /\ Distinct(pending, Clean) /\ con[c] \in Con /\ \A x, y \in con[c].hand : x = y
  BY AttemptTypes
<1>5. PICK s \in 1 .. Concurrency :
        Become(c, [con[c] EXCEPT
          !.tasks = @ \cup {[slot |-> s, msg |-> x, result |-> "none"] : x \in con[c].hand},
          !.hand = {}, !.pc = "loop"])
  BY DEF Dispatch
<1> DEFINE r == [con[c] EXCEPT
                   !.tasks = @ \cup {[slot |-> s, msg |-> x, result |-> "none"] : x \in con[c].hand},
                   !.hand = {}, !.pc = "loop"]
<1>1. Become(c, r) /\ UNCHANGED <<redis, api, smtp>>
  BY <1>5 DEF Dispatch
<1>2. /\ r.hand = {} /\ r.moving = con[c].moving
      /\ r.tasks = con[c].tasks \cup {[slot |-> s, msg |-> x, result |-> "none"] : x \in con[c].hand}
  BY <1>0 DEF Con
<1> HIDE DEF r
<1>3. CASE con[c].hand = {}
  BY <1>0, <1>1, <1>2, <1>3, DropStep DEF redis, GoodStep
<1>4. ASSUME NEW z \in con[c].hand PROVE GoodStep
  <2>1. con[c].hand = {z} /\ z \in Content("hand", c)
    BY <1>0, <1>4, ContentIs
  <2>2. z.id \in Clean => tries[z.id] < z.attempt
    BY <2>1 DEF AttemptInv, Counted, Place
  <2>3. r.tasks = con[c].tasks \cup {[slot |-> s, msg |-> z, result |-> "none"]}
    BY <1>2, <2>1
  <2>4. "hand" \in Place /\ "task" \in Place \ {"hand"}
    BY DEF Place
  <2> QED BY <1>0, <1>1, <1>2, <2>1, <2>2, <2>3, <2>4, MoveStep DEF redis
<1> QED BY <1>3, <1>4

\* A command leaves the same memory when its answer is lost, but for the mark.
LEMMA EitherWay ==
  ASSUME NEW c \in Consumer, NEW r \in Con, Become(c, r) \/ Become(c, [r EXCEPT !.up = FALSE])
  PROVE  \E p : Become(c, p) /\ p.hand = r.hand /\ p.moving = r.moving /\ p.tasks = r.tasks
<1>1. CASE Become(c, r)
  BY <1>1
<1>2. CASE Become(c, [r EXCEPT !.up = FALSE])
  <2> DEFINE q == [r EXCEPT !.up = FALSE]
  <2>1. Become(c, q)
    BY <1>2
  <2>2. q.hand = r.hand /\ q.moving = r.moving /\ q.tasks = r.tasks
    BY DEF Con
  <2> HIDE DEF q
  <2> QED BY <2>1, <2>2
<1> QED BY <1>1, <1>2

\* A command of the consumer that puts the copies S into the retry set: the
\* one it had in its hand, or the one of a task that ends.
LEMMA PutBackAttempts ==
  ASSUME AttemptInv, TypeOK', NEW c \in Consumer, NEW r, NEW S, Become(c, r),
         retry' = retry \/ retry' = retry \cup S,
         UNCHANGED <<pending, dlq, api, smtp>>,
         r.hand \subseteq con[c].hand, r.moving = con[c].moving,
         r.tasks \subseteq con[c].tasks,
         \A z \in S : /\ S = {z} /\ (z.id \in Clean => tries[z.id] < z.attempt)
                      /\ \/ r.hand = {} /\ \E x \in con[c].hand : x.id = z.id
                         \/ \E t \in con[c].tasks \ r.tasks : t.msg.id = z.id /\ t.result # "ok"
  PROVE  GoodStep
<1>0. TypeOK /\ Distinct(pending, Clean) /\ con[c] \in Con /\ \A x, y \in con[c].hand : x = y
  BY AttemptTypes
<1>1. \A x, y \in r.hand : x = y
  BY <1>0
<1>2. CASE retry' = retry \/ S = {}
  <2>1. retry' = retry
    BY <1>2
  <2> QED BY <1>0, <2>1, DropStep DEF GoodStep
<1>3. ASSUME NEW z \in S, retry' = retry \cup S PROVE GoodStep
  <2>1. retry' = retry \cup {z} /\ (z.id \in Clean => tries[z.id] < z.attempt)
    BY <1>3
  <2>2. CASE r.hand = {} /\ \E x \in con[c].hand : x.id = z.id
    <3>1. PICK x \in con[c].hand : x.id = z.id
      BY <2>2
    <3>2. x \in Content("hand", c) /\ "hand" \in Place /\ "retry" \in Place \ {"hand"}
      BY ContentIs DEF Place
    <3> QED BY <1>0, <1>1, <2>1, <2>2, <3>1, <3>2, MoveStep
  <2>3. CASE \E t \in con[c].tasks \ r.tasks : t.msg.id = z.id /\ t.result # "ok"
    <3>1. PICK t \in con[c].tasks \ r.tasks : t.msg.id = z.id /\ t.result # "ok"
      BY <2>3
    <3>2. t.msg \in Content("task", c) /\ "task" \in Place /\ "retry" \in Place \ {"task"}
      BY ContentIs DEF Place
    <3>3. \A u \in r.tasks : u \in con[c].tasks /\ Other(u.msg, z)
      BY <3>1 DEF AttemptInv, OneCopy, Other
    <3> QED BY <1>0, <1>1, <2>1, <3>1, <3>2, <3>3, MoveStep
  <2> QED BY <1>3, <2>2, <2>3
<1> QED BY <1>2, <1>3

LEMMA PostponeAttempts ==
  ASSUME AttemptInv, TypeOK', NEW c \in Consumer, Postpone(c)
  PROVE  GoodStep
<1>0. con[c] \in Con /\ \A x, y \in con[c].hand : x = y
  BY AttemptTypes
<1> DEFINE r == Postponed(c)
<1>1. /\ Become(c, r) \/ Become(c, [r EXCEPT !.up = FALSE])
      /\ retry' = retry \/ retry' = retry \cup con[c].hand
      /\ UNCHANGED <<pending, dlq, api, smtp>>
  BY DEF Postpone, Command, Sent, redis, PutBack
<1>2. r \in Con /\ r.hand = {} /\ r.moving = con[c].moving /\ r.tasks = con[c].tasks
  BY <1>0 DEF Con, Postponed
<1> HIDE DEF r
<1>4. PICK p : Become(c, p) /\ p.hand = {} /\ p.moving = r.moving /\ p.tasks = r.tasks
  BY <1>1, <1>2, EitherWay
<1>3. \A z \in con[c].hand : con[c].hand = {z} /\ (z.id \in Clean => tries[z.id] < z.attempt)
  BY <1>0, ContentIs DEF AttemptInv, Counted, Place
<1> QED BY <1>1, <1>2, <1>3, <1>4, PutBackAttempts

\* A task leaves nothing behind of its notification when it ends.
LEMMA EndedTask ==
  ASSUME AttemptInv, NEW c \in Consumer, NEW t \in con[c].tasks
  PROVE  /\ Ended(c, t) \in Con
         /\ Ended(c, t).hand = con[c].hand /\ Ended(c, t).moving = con[c].moving
         /\ Ended(c, t).tasks = con[c].tasks \ {t}
BY AttemptTypes DEF Ended, Con

LEMMA RetryLaterAttempts ==
  ASSUME AttemptInv, TypeOK', NEW c \in Consumer, NEW t \in con[c].tasks, RetryLater(c, t)
  PROVE  GoodStep
<1> DEFINE z == [t.msg EXCEPT !.attempt = @ + 1]
           r == Ended(c, t)
<1>1. t.msg \in Copy /\ TypeOK
  BY AttemptTypes
<1>2. z.id = t.msg.id /\ z.attempt = t.msg.attempt + 1
  BY <1>1 DEF Copy
<1>3. z.id \in Clean => tries[z.id] < z.attempt
  <2>1. t.msg.id \in Clean => tries[t.msg.id] <= t.msg.attempt
    BY DEF AttemptInv, Counted
  <2>2. tries[t.msg.id] \in Nat /\ t.msg.attempt \in Nat
    BY <1>1, QueueAssumption DEF TypeOK, Copy
  <2> QED BY <1>2, <2>1, <2>2
<1>4. /\ Become(c, r) \/ Become(c, [r EXCEPT !.up = FALSE])
      /\ retry' = retry \/ retry' = retry \cup {z}
      /\ UNCHANGED <<pending, dlq, api, smtp>>
  BY DEF RetryLater, Command, Sent, redis, Schedule
<1>5. /\ r \in Con /\ r.hand \subseteq con[c].hand /\ r.moving = con[c].moving
      /\ r.tasks \subseteq con[c].tasks /\ t \in con[c].tasks \ r.tasks /\ t.result # "ok"
  BY EndedTask DEF RetryLater
<1> HIDE DEF z, r
<1>6. PICK p : Become(c, p) /\ p.hand = r.hand /\ p.moving = r.moving /\ p.tasks = r.tasks
  BY <1>4, <1>5, EitherWay
<1> DEFINE S == {z}
<1>7. \A y \in S : /\ S = {y} /\ (y.id \in Clean => tries[y.id] < y.attempt)
                   /\ \/ p.hand = {} /\ \E x \in con[c].hand : x.id = y.id
                      \/ \E u \in con[c].tasks \ p.tasks : u.msg.id = y.id /\ u.result # "ok"
  BY <1>2, <1>3, <1>5, <1>6
<1>8. retry' = retry \/ retry' = retry \cup S
  BY <1>4
<1> HIDE DEF S
<1>9. p.hand \subseteq con[c].hand /\ p.moving = con[c].moving /\ p.tasks \subseteq con[c].tasks
  BY <1>5, <1>6
<1>10. Become(c, p) /\ UNCHANGED <<pending, dlq, api, smtp>>
  BY <1>4, <1>6
<1> QED BY <1>7, <1>8, <1>9, <1>10, PutBackAttempts

\* The message goes to the dead-letter list, and nothing of it stays.
LEMMA BuryAttempts ==
  ASSUME AttemptInv, TypeOK', NEW c \in Consumer, NEW t \in con[c].tasks, Bury(c, t)
  PROVE  GoodStep
<1>0. TypeOK /\ Distinct(pending, Clean) /\ t.msg \in Copy
  BY AttemptTypes
<1> DEFINE r == Ended(c, t)
           m == t.msg.id
<1>1. /\ r \in Con /\ r.hand = con[c].hand /\ r.moving = con[c].moving
      /\ r.tasks = con[c].tasks \ {t}
  BY EndedTask
<1>2. /\ Become(c, r) \/ Become(c, [r EXCEPT !.up = FALSE])
      /\ dlq' = dlq \/ dlq' = dlq \cup {t.msg}
      /\ UNCHANGED <<pending, retry, api, smtp>> /\ t.result # "ok"
  BY DEF Bury, Command, Sent, redis
<1> HIDE DEF r
<1>3. PICK p : Become(c, p) /\ p.hand = r.hand /\ p.moving = r.moving /\ p.tasks = r.tasks
  BY <1>1, <1>2, EitherWay
<1>4. AttemptInv' /\ (Calm /\ UNCHANGED dlq => Calm' /\ Promised)
  BY <1>0, <1>1, <1>2, <1>3, DropStep
<1>5. con'[c] = p /\ \A d \in Consumer \ {c} : con'[d] = con[d]
  BY <1>0, <1>3, BecomeIs
<1>6. \A d \in Consumer : /\ con'[d].hand = con[d].hand /\ con'[d].moving = con[d].moving
                          /\ con'[d].tasks \subseteq con[d].tasks
  BY <1>1, <1>3, <1>5
<1>7. \A k \in Place, d \in Consumer : Content(k, d)' \subseteq Content(k, d)
  BY <1>2, <1>6 DEF Content, Place
<1>8. ASSUME NEW n \in Msg, n # m PROVE Absent(n)' <=> Absent(n)
  <2>1. \A d \in Consumer : \A x : x.id = n => (x \in Content("task", d)' <=> x \in Content("task", d))
    BY <1>1, <1>3, <1>5, <1>8 DEF Content
  <2>2. \A k \in Place \ {"task"}, d \in Consumer : Content(k, d)' = Content(k, d)
    BY <1>2, <1>6 DEF Content, Place
  <2> QED BY <1>2, <2>1, <2>2 DEF Absent
<1>9. ASSUME Prompt, Calm, dlq' = dlq \cup {t.msg} PROVE Calm' /\ Promised
  <2>1. Clean = Msg /\ m \in Msg
    BY <1>0, <1>9, PromptIsClean DEF Copy
  <2>2. /\ t.msg \in Content("task", c)
        /\ \A k \in Place, d \in Consumer : \A x \in Content(k, d) : x.id = m => k = "task" /\ d = c
    BY <2>1, ContentIs DEF AttemptInv, OnePlace, Place, Own
  <2>3. \A u \in con'[c].tasks : u \in con[c].tasks /\ u.msg.id # m
    BY <1>1, <1>3, <1>5, <2>1 DEF AttemptInv, OneCopy
  <2>4. Absent(m)' /\ ~Absent(m)
    <3>1. ~Absent(m)
      BY <2>2 DEF Absent, Place
    <3>2. \A x \in Listed(pending) \cup retry : x.id # m
      BY <2>2, ContentIs DEF Place
    <3>3. ASSUME NEW k \in Place, NEW d \in Consumer, NEW x \in Content(k, d)' PROVE x.id # m
      <4>1. CASE k = "task" /\ d = c
        BY <2>3, <3>3, <4>1 DEF Content
      <4>2. CASE ~(k = "task" /\ d = c)
        BY <1>7, <2>2, <3>3, <4>2
      <4> QED BY <4>1, <4>2
    <3> QED BY <1>2, <3>1, <3>2, <3>3 DEF Absent
  <2>5. UNCHANGED <<api, mail>> /\ m \in Ids(dlq') /\ mail[m] \in Nat
    BY <1>0, <1>2, <1>9, <2>1 DEF smtp, Copy, Ids, TypeOK
  <2>6. mail[m] = 0 /\ api.stage[m] = "queued"
    BY <1>2, <1>9, <2>1, <2>4, <2>5 DEF Calm, Known, Answered
  <2>7. \A n \in Msg \ {m} : n \in Ids(dlq') <=> n \in Ids(dlq)
    BY <1>9 DEF Ids
  <2>8. Answered'
    BY <1>8, <1>9, <2>1, <2>4, <2>5, <2>6, <2>7 DEF Calm, Answered, Ids
  <2>9. Known'
    BY <1>6, <1>7, <1>9, <2>5 DEF Calm, Known
  <2>10. Calm'
    BY <2>8, <2>9 DEF Calm
  <2>11. View(m) = "held" /\ View(m)' = "dead"
    BY <1>9, <2>1, <2>4, <2>5, <2>6 DEF View, Ids, Calm, Answered
  <2>12. \A n \in Msg \ {m} : View(n)' = View(n) /\ mail'[n] = mail[n]
    BY <1>8, <2>5, <2>7 DEF View, Ids
  <2>13. Promised
    BY <1>0, <1>9, <2>1, <2>5, <2>6, <2>10, <2>11, <2>12, OneMoves DEF Promise!Edge
  <2> QED BY <2>10, <2>13
<1> QED BY <1>2, <1>4, <1>9 DEF GoodStep

\* SMTP is asked once more, by the task that has the notification.
LEMMA SendAttempts ==
  ASSUME AttemptInv, TypeOK', NEW c \in Consumer, NEW t \in con[c].tasks, Send(c, t)
  PROVE  GoodStep
<1>0. TypeOK /\ con[c] \in Con /\ t \in Task /\ t.msg \in Copy
  BY AttemptTypes
<1>1. PICK result \in {"ok"} \cup (Env \cap {"transient", "refused"}) \cup
                      (IF "ack" \in Env THEN {"transient"} ELSE {}), taken \in BOOLEAN :
        /\ result = "ok" => taken
        /\ taken => (result = "ok" \/ ("ack" \in Env /\ result = "transient"))
        /\ mail' = IF taken THEN [mail EXCEPT ![t.msg.id] = @ + 1] ELSE mail
        /\ Become(c, [con[c] EXCEPT !.tasks = (@ \ {t}) \cup {[t EXCEPT !.result = result]}])
  BY DEF Send
<1> DEFINE u == [t EXCEPT !.result = result]
           m == t.msg.id
<1>2. u.msg = t.msg /\ u.result = result /\ result # "none"
  BY <1>0, <1>1 DEF Task
<1>3. /\ con'[c].tasks = (con[c].tasks \ {t}) \cup {u}
      /\ con'[c].hand = con[c].hand /\ con'[c].moving = con[c].moving
  BY <1>0, <1>1, BecomeIs DEF Con
<1>4. \A d \in Consumer \ {c} : con'[d] = con[d]
  BY <1>0, <1>1, BecomeIs
<1>5. UNCHANGED <<redis, api, resent>> /\ t.result = "none" /\ tries' = [tries EXCEPT ![m] = @ + 1]
  BY DEF Send
<1>6. m \in Msg /\ tries[m] \in Nat /\ t.msg.attempt \in 1 .. MaxAttempts /\ MaxAttempts \in Nat
  BY <1>0, QueueAssumption DEF Copy, TypeOK
<1>7. tries'[m] = tries[m] + 1 /\ \A n \in Msg \ {m} : tries'[n] = tries[n]
  BY <1>0, <1>5, <1>6 DEF TypeOK
<1> HIDE DEF u
<1>8. {x.msg : x \in (con[c].tasks \ {t}) \cup {u}} = {x.msg : x \in con[c].tasks}
  BY <1>2
<1>9. \A k \in Place, d \in Consumer : Content(k, d)' = Content(k, d)
  BY <1>3, <1>4, <1>5, <1>8 DEF Content, Place, redis
<1>10. OnePlace' /\ Clean' = Clean
  BY <1>5, <1>9 DEF AttemptInv, OnePlace, Clean
<1>11. OneCopy'
  <2>1. Distinct(pending', Clean')
    BY <1>5, <1>10 DEF AttemptInv, OneCopy, redis
  <2>2. \A d \in Consumer : \A x, y \in con'[d].hand : x = y
    BY <1>3, <1>4 DEF AttemptInv, OneCopy
  <2>3. \A d \in Consumer : \A x, y \in con'[d].tasks :
          x.msg.id = y.msg.id /\ x.msg.id \in Clean => x = y
    BY <1>2, <1>3, <1>4 DEF AttemptInv, OneCopy
  <2> QED BY <1>10, <2>1, <2>2, <2>3 DEF OneCopy
<1>12. t.msg \in Content("task", c)
  BY ContentIs
<1>13. Unentered'
  <2> SUFFICES ASSUME NEW n \in Msg
               PROVE  /\ n \in Clean /\ (api'.stage[n] = "new" \/ n \in api'.calls)
                           => tries'[n] = 0 /\ Absent(n)'
                      /\ api'.stage[n] = "new" => n \notin api'.calls
                      /\ n \in api'.again => n \notin Clean
    BY <1>10 DEF Unentered
  <2>1. ~Absent(m)
    BY <1>12 DEF Absent, Place
  <2>2. Absent(n)' = Absent(n)
    BY <1>5, <1>9 DEF Absent, redis, Listed
  <2> QED BY <1>5, <1>7, <2>1, <2>2 DEF AttemptInv, Unentered
<1>14. m \in Clean => tries[m] < t.msg.attempt
  BY <1>5 DEF AttemptInv, Counted
<1>15. AttemptsOfOneCopy'
  <2>1. \A n \in Msg : resent'[n] = 0 => n \in Clean
    BY <1>5 DEF Clean
  <2>2. \A n \in Clean : tries[n] <= MaxAttempts
    BY DEF AttemptInv, Counted, AttemptsOfOneCopy, Clean
  <2> QED BY <1>6, <1>7, <1>14, <2>1, <2>2 DEF AttemptsOfOneCopy
<1>16. ASSUME NEW k \in Place \ {"task"}, NEW d \in Consumer, NEW x \in Content(k, d)', x.id \in Clean
       PROVE  tries'[x.id] < x.attempt
  <2>1. x \in Content(k, d)
    BY <1>9
  <2>2. x.id # m
    BY <1>12, <1>16, <2>1 DEF AttemptInv, OnePlace, Place
  <2>3. x.id \in Msg
    <3>1. x \in Copy
      BY <1>0, <2>1, MemoryType, ListedPending DEF Content, Place, Con, TypeOK
    <3> QED BY <3>1 DEF Copy
  <2> QED BY <1>7, <1>16, <2>1, <2>2, <2>3 DEF AttemptInv, Counted
<1>17. ASSUME NEW d \in Consumer, NEW x \in con'[d].tasks, x.msg.id \in Clean
       PROVE  /\ tries'[x.msg.id] <= x.msg.attempt
              /\ x.result = "none" => tries'[x.msg.id] < x.msg.attempt
  <2>1. CASE d = c /\ x = u
    BY <1>2, <1>6, <1>7, <1>14, <1>17, <2>1
  <2>2. CASE ~(d = c /\ x = u)
    <3>1. x \in con[d].tasks /\ (d = c => x # t)
      BY <1>3, <1>4, <1>17, <2>2
    <3>2. x.msg.id # m
      <4>1. CASE d = c
        BY <1>17, <3>1, <4>1 DEF AttemptInv, OneCopy
      <4>2. CASE d # c
        <5>1. x.msg \in Content("task", d)
          BY <3>1, ContentIs
        <5> QED BY <1>12, <1>17, <4>2, <5>1 DEF AttemptInv, OnePlace, Place, Own
      <4> QED BY <4>1, <4>2
    <3>3. x.msg.id \in Msg
      BY <3>1, AttemptTypes DEF Copy
    <3> QED BY <1>7, <1>17, <3>1, <3>2, <3>3 DEF AttemptInv, Counted
  <2> QED BY <2>1, <2>2
<1>18. Counted'
  BY <1>10, <1>15, <1>16, <1>17 DEF Counted
<1>19. AttemptInv'
  BY <1>10, <1>11, <1>13, <1>18 DEF AttemptInv
<1>20. ASSUME Prompt, Calm PROVE Calm' /\ Promised
  <2>0. Clean = Msg
    BY <1>0, <1>20, PromptIsClean
  <2>1. result = "ok" <=> taken
    BY <1>1, <1>20 DEF Prompt
  <2>2. mail[m] = 0 /\ ~Absent(m) /\ api.stage[m] = "queued" /\ m \notin Ids(dlq)
    <3>1. mail[m] \in Nat /\ ~Absent(m)
      BY <1>0, <1>6, <1>12 DEF Absent, Place, TypeOK
    <3> QED BY <1>5, <1>6, <1>20, <3>1 DEF Calm, Answered, Known
  <2>3. /\ mail'[m] = IF taken THEN 1 ELSE 0
        /\ \A n \in Msg \ {m} : mail'[n] = mail[n]
    BY <1>0, <1>1, <1>6, <2>2 DEF TypeOK
  <2>4. \A n \in Msg : Absent(n)' = Absent(n)
    BY <1>5, <1>9 DEF Absent, redis, Listed
  <2>5. UNCHANGED <<api, dlq>>
    BY <1>5 DEF redis
  <2>6. Answered'
    BY <1>20, <2>2, <2>3, <2>4, <2>5 DEF Calm, Answered, Ids
  <2>7. ASSUME NEW k \in Place \ {"task"}, NEW d \in Consumer, NEW x \in Content(k, d)'
        PROVE  mail'[x.id] = 0
    <3>1. x \in Content(k, d)
      BY <1>9
    <3>2. x.id # m
      BY <1>6, <1>12, <2>0, <3>1 DEF AttemptInv, OnePlace, Place
    <3>3. x.id \in Msg
      <4>1. x \in Copy
        BY <1>0, <3>1, MemoryType, ListedPending DEF Content, Place, Con, TypeOK
      <4> QED BY <4>1 DEF Copy
    <3> QED BY <1>20, <2>3, <3>1, <3>2, <3>3 DEF Calm, Known
  <2>8. ASSUME NEW d \in Consumer, NEW x \in con'[d].tasks
        PROVE  x.result = "ok" <=> mail'[x.msg.id] > 0
    <3>1. CASE d = c /\ x = u
      BY <1>2, <2>1, <2>3, <3>1
    <3>2. CASE ~(d = c /\ x = u)
      <4>1. x \in con[d].tasks /\ (d = c => x # t)
        BY <1>3, <1>4, <2>8, <3>2
      <4>2. x.msg.id # m
        BY <1>6, <1>12, <2>0, <4>1, ContentIs DEF AttemptInv, OnePlace, OneCopy, Place, Own
      <4>3. x.msg.id \in Msg
        BY <4>1, AttemptTypes DEF Copy
      <4> QED BY <1>20, <2>3, <4>1, <4>2, <4>3 DEF Calm, Known
    <3> QED BY <3>1, <3>2
  <2>9. Calm'
    BY <2>6, <2>7, <2>8 DEF Calm, Known
  <2>10. View(m) = "held" /\ (taken => View(m)' = "sent") /\ (~taken => View(m)' = "held")
    <3>1. View(m) = "held"
      BY <2>2 DEF View
    <3>2. Absent(m)' = Absent(m) /\ api' = api /\ dlq' = dlq
      BY <1>6, <2>4, <2>5
    <3>3. ASSUME taken PROVE View(m)' = "sent"
      BY <2>3, <3>3 DEF View
    <3>4. ASSUME ~taken PROVE View(m)' = "held"
      BY <2>2, <2>3, <3>2, <3>4 DEF View, Ids
    <3> QED BY <3>1, <3>3, <3>4
  <2>11. \A n \in Msg \ {m} : View(n)' = View(n) /\ mail'[n] = mail[n]
    BY <2>3, <2>4, <2>5 DEF View, Ids
  <2>12. mail'[m] = IF View(m)' = "sent" /\ View(m) = "held" THEN mail[m] + 1 ELSE mail[m]
    BY <2>2, <2>3, <2>10
  <2>13. View(m)' = View(m) \/ <<View(m), View(m)'>> \in Promise!Edge
    BY <2>10 DEF Promise!Edge
  <2>14. Promised
    BY <1>0, <1>6, <1>20, <2>9, <2>11, <2>12, <2>13, OneMoves
  <2> QED BY <2>9, <2>14
<1> QED BY <1>19, <1>20 DEF GoodStep

\* ZREM moves a copy from the retry set to the promoter, if it was there.
LEMMA RemoveAttempts ==
  ASSUME AttemptInv, TypeOK', NEW c \in Consumer, NEW x \in con[c].due, PromoteRemove(c, x)
  PROVE  GoodStep
<1>0. TypeOK /\ Distinct(pending, Clean) /\ con[c] \in Con /\ \A y, z \in con[c].hand : y = z
  BY AttemptTypes
<1> DEFINE r == [con[c] EXCEPT !.due = @ \ {x}, !.moving = {x} \cap retry]
<1>1. /\ Become(c, r) /\ UNCHANGED <<pending, dlq, api, smtp>>
      /\ retry' = retry \ {x} /\ con[c].moving = {}
  BY DEF PromoteRemove
<1>2. r.hand = con[c].hand /\ r.tasks = con[c].tasks /\ r.moving = {x} \cap retry
  BY <1>0 DEF Con
<1> HIDE DEF r
<1>3. CASE x \notin retry
  BY <1>0, <1>1, <1>2, <1>3, DropStep DEF GoodStep
<1>4. CASE x \in retry
  <2>1. x \in Content("retry", c) /\ "retry" \in Place /\ "moving" \in Place \ {"retry"}
    BY <1>4, ContentIs DEF Place
  <2>2. x.id \in Clean => tries[x.id] < x.attempt
    BY <2>1 DEF AttemptInv, Counted
  <2>3. \A y \in retry' : y \in retry /\ Other(y, x)
    BY <1>1, <2>1, ContentIs DEF AttemptInv, OnePlace, Other
  <2>4. \A y \in r.moving : y = x
    BY <1>2
  <2> QED BY <1>0, <1>1, <1>2, <2>1, <2>2, <2>3, <2>4, MoveStep
<1> QED BY <1>3, <1>4

\* The promoter's push, and a step that ends it while a command of it may be
\* under way.
LEMMA ExecutedAttempts ==
  ASSUME AttemptInv, TypeOK', NEW c \in Consumer, NEW r, Become(c, r), UNCHANGED <<api, smtp>>,
         UNCHANGED redis \/ Executed(c),
         r.hand = con[c].hand, r.tasks = con[c].tasks, r.moving = {}
  PROVE  GoodStep
<1>0. /\ TypeOK /\ Distinct(pending, Clean) /\ \A y, z \in con[c].hand : y = z
      /\ con[c].moving \in SUBSET Copy
  BY AttemptTypes
<1>1. CASE UNCHANGED redis
  BY <1>0, <1>1, DropStep DEF redis, GoodStep
<1>2. CASE \E x \in con[c].due : retry' = retry \ {x} /\ UNCHANGED <<pending, dlq>>
  BY <1>0, <1>2, DropStep DEF GoodStep
<1>3. ASSUME NEW x \in con[c].moving, pending' = Append(pending, x), UNCHANGED <<retry, dlq>>
      PROVE  GoodStep
  <2>1. x \in Content("moving", c) /\ "moving" \in Place /\ "pending" \in Place \ {"moving"}
    BY ContentIs DEF Place
  <2>2. x.id \in Clean => tries[x.id] < x.attempt
    BY <2>1 DEF AttemptInv, Counted, Place
  <2>3. \A y \in Listed(pending) : y.id = x.id => x.id \notin Clean
    BY <2>1, ContentIs DEF AttemptInv, OnePlace
  <2>4. Listed(pending') = Listed(pending) \cup {x} /\ Distinct(pending', Clean)
    BY <1>0, <1>3, <2>3, ListedPending
  <2>5. /\ \A y \in Listed(pending') : y \in Listed(pending) \/ y = x
        /\ \A y \in retry' : y \in retry
        /\ \A y, z \in r.hand : y = z
        /\ \A y \in r.moving : FALSE
        /\ \A t \in r.tasks :
             \/ t \in con[c].tasks /\ ("moving" = "task" => Other(t.msg, x))
             \/ t = [slot |-> 1, msg |-> x, result |-> "none"] /\ "pending" = "task"
        /\ UNCHANGED <<dlq, api, smtp>>
    BY <1>0, <1>3, <2>4
  <2> QED BY <1>3, <2>1, <2>2, <2>4, <2>5, MoveStep
<1> QED BY <1>1, <1>2, <1>3 DEF Executed

LEMMA PromoterAttempts ==
  ASSUME AttemptInv, TypeOK', NEW c \in Consumer, PromoterStep(c) \/ CancelPromoter(c)
  PROVE  GoodStep
<1>0. con[c] \in Con
  BY AttemptTypes
<1>1. ASSUME NEW x \in con[c].moving, PromotePush(c, x) PROVE GoodStep
  <2> DEFINE r == [con[c] EXCEPT !.moving = {}]
  <2>1. /\ Become(c, r) /\ UNCHANGED <<api, smtp>> /\ Executed(c)
    BY <1>1 DEF PromotePush, Executed
  <2>2. r.hand = con[c].hand /\ r.tasks = con[c].tasks /\ r.moving = {}
    BY <1>0 DEF Con
  <2> HIDE DEF r
  <2> QED BY <2>1, <2>2, ExecutedAttempts
<1>2. CASE PromoteFails(c)
  <2> DEFINE r == [Interrupted(c) EXCEPT !.up = FALSE]
  <2>1. /\ Become(c, r) /\ UNCHANGED <<api, smtp>> /\ (UNCHANGED redis \/ Executed(c))
    BY <1>2 DEF PromoteFails
  <2>2. r.hand = con[c].hand /\ r.tasks = con[c].tasks /\ r.moving = {}
    BY <1>0 DEF Con, Interrupted
  <2> HIDE DEF r
  <2> QED BY <2>1, <2>2, ExecutedAttempts
<1>3. CASE CancelPromoter(c)
  <2> DEFINE r == [Interrupted(c) EXCEPT !.pc = "wait"]
  <2>1. /\ Become(c, r) /\ UNCHANGED <<api, smtp>> /\ (UNCHANGED redis \/ Executed(c))
    BY <1>3 DEF CancelPromoter
  <2>2. r.hand = con[c].hand /\ r.tasks = con[c].tasks /\ r.moving = {}
    BY <1>0 DEF Con, Interrupted
  <2> HIDE DEF r
  <2> QED BY <2>1, <2>2, ExecutedAttempts
<1> QED BY <1>1, <1>2, <1>3, RemoveAttempts, QuietAttempts DEF PromoterStep

\* Steps of the API that touch neither Redis nor a consumer.
LEMMA HandlerAttempts ==
  ASSUME AttemptInv, TypeOK', UNCHANGED <<redis, con, tries, resent>>, api'.again \subseteq api.again,
         \A n \in Msg :
           /\ api'.stage[n] = "new" \/ n \in api'.calls => api.stage[n] = "new" \/ n \in api.calls
           /\ api'.stage[n] = "new" => n \notin api'.calls
  PROVE  AttemptInv' /\ \A n \in Msg : Absent(n)' = Absent(n)
<1>1. \A k \in Place, c \in Consumer : Content(k, c)' = Content(k, c)
  BY DEF Content, Place, redis, Listed
<1>2. \A n \in Msg : Absent(n)' = Absent(n)
  BY <1>1 DEF Absent, redis, Listed
<1>3. Unentered'
  BY <1>2 DEF AttemptInv, Unentered, Clean
<1>4. Distinct(pending', Clean)
  BY DEF AttemptInv, OneCopy, redis
<1> QED BY <1>1, <1>2, <1>3, <1>4, Drops

\* What a handler's step does to the promise: the stage of notification m
\* changes, before the notification is queued.
LEMMA HandlerPromise ==
  ASSUME AttemptInv, AttemptInv', Calm, UNCHANGED <<redis, con>>, NEW m \in Msg,
         \A n \in Msg : Absent(n)' = Absent(n),
         NEW stage \in Stage \ {"new", "queued"}, api'.stage = [api.stage EXCEPT ![m] = stage],
         api.stage[m] \in {"new", "waiting", "fallback"},
         api.stage[m] = "new" => stage = "waiting",
         \A n \in Msg \ {m} : n \in api'.calls <=> n \in api.calls,
         m \in api'.calls <=> stage = "waiting",
         mail' = IF stage = "sent" THEN [mail EXCEPT ![m] = @ + 1] ELSE mail
  PROVE  Calm' /\ Promised
<1>0. TypeOK /\ TypeOK' /\ api.stage \in [Msg -> Stage] /\ mail \in [Msg -> Nat]
  BY DEF AttemptInv, TypeOK, Api
<1>1. mail[m] = 0 /\ Absent(m) /\ m \notin Ids(dlq)
  BY DEF Calm, Answered
<1>2. /\ mail'[m] = IF stage = "sent" THEN 1 ELSE 0
      /\ \A n \in Msg \ {m} : mail'[n] = mail[n]
  BY <1>0, <1>1
<1>3. /\ api'.stage[m] = stage
      /\ \A n \in Msg \ {m} : api'.stage[n] = api.stage[n]
  BY <1>0
<1>4. dlq' = dlq
  BY DEF redis
<1>5. Answered'
  BY <1>1, <1>2, <1>3, <1>4 DEF Calm, Answered, Ids, Stage
<1>6. \A k \in Place, c \in Consumer : Content(k, c)' = Content(k, c)
  BY DEF Content, Place, redis, Listed
<1>7. \A k \in Place, c \in Consumer : \A x \in Content(k, c) : x.id # m /\ x.id \in Msg
  <2>1. \A k \in Place, c \in Consumer : \A x \in Content(k, c) : x \in Copy
    BY <1>0, MemoryType, ListedPending DEF Content, Place, Con, Task, TypeOK
  <2> QED BY <1>1, <2>1 DEF Absent, Copy
<1>8. \A c \in Consumer : \A t \in con[c].tasks : t.msg.id # m /\ t.msg.id \in Msg
  BY <1>7, ContentIs DEF Place
<1>9. Known'
  BY <1>2, <1>6, <1>7, <1>8 DEF Calm, Known
<1>10. Calm'
  BY <1>5, <1>9 DEF Calm
<1>11. \A n \in Msg \ {m} : View(n)' = View(n)
  BY <1>2, <1>3, <1>4 DEF View, Ids
<1>12. /\ View(m) = IF api.stage[m] = "new" THEN "new" ELSE "held"
       /\ View(m)' = CASE stage = "sent"   -> "sent"
                       [] stage = "failed" -> "failed"
                       [] stage = "lost"   -> "lost"
                       [] OTHER -> "held"
  <2>1. View(m) = IF api.stage[m] = "new" THEN "new" ELSE "held"
    BY <1>1 DEF View
  <2>2. Absent(m)' /\ m \notin Ids(dlq')
    BY <1>1, <1>4
  <2>3. stage \in {"waiting", "fallback", "sent", "failed", "lost"}
    BY DEF Stage
  <2>4. ASSUME stage # "sent"
        PROVE  View(m)' = IF stage = "failed" THEN "failed"
                          ELSE IF stage = "lost" THEN "lost" ELSE "held"
    BY <1>2, <1>3, <2>2, <2>3, <2>4 DEF View, Ids
  <2>5. ASSUME stage = "sent" PROVE View(m)' = "sent"
    BY <1>2, <2>5 DEF View
  <2> QED BY <2>1, <2>4, <2>5
<1>13. View(m)' = View(m) \/ <<View(m), View(m)'>> \in Promise!Edge
  BY <1>12 DEF Promise!Edge
<1>14. mail'[m] = IF View(m)' = "sent" /\ View(m) = "held" THEN mail[m] + 1 ELSE mail[m]
  BY <1>1, <1>2, <1>12
<1>15. Promised
  BY <1>0, <1>2, <1>10, <1>11, <1>13, <1>14, OneMoves
<1> QED BY <1>10, <1>15

\* The handler's coroutine brings the notification in, once and for all.
LEMMA PushAttempts ==
  ASSUME AttemptInv, TypeOK', NEW m \in api.calls \cup api.again, Push(m),
         UNCHANGED <<retry, con, tries, resent>>,
         api'.calls = api.calls \ {m}, api'.again = api.again \ {m},
         \A n \in Msg : api'.stage[n] = "new" => api.stage[n] = "new"
  PROVE  /\ AttemptInv' /\ ~Absent(m)'
         /\ \A n \in Msg \ {m} : Absent(n)' = Absent(n)
         /\ \A k \in Place, c \in Consumer : \A x \in Content(k, c)' : x \in Content(k, c) \/ x.id = m
<1> DEFINE z == [id |-> m, attempt |-> 1]
<1>0. TypeOK /\ Distinct(pending, Clean)
  BY DEF AttemptInv, OneCopy
<1>1. m \in Msg /\ z \in Copy /\ z.id = m /\ z.attempt = 1 /\ pending' = Append(pending, z)
  BY <1>0, FirstCopy DEF TypeOK, Api, Push
<1> HIDE DEF z
<1>2. m \in Clean => tries[m] = 0 /\ Absent(m)
  BY <1>1 DEF AttemptInv, Unentered
<1>3. \A y \in Listed(pending) : y.id = m => m \notin Clean
  BY <1>2 DEF Absent
<1>4. Listed(pending') = Listed(pending) \cup {z} /\ Distinct(pending', Clean)
  BY <1>0, <1>1, <1>3, ListedPending
<1>5. ASSUME NEW k \in Place, NEW c \in Consumer, NEW x \in Content(k, c)'
      PROVE  \/ x \in Content(k, c) /\ Other(x, z)
             \/ x = z /\ k = "pending"
  <2>1. x \in Content(k, c) \/ (x = z /\ k = "pending")
    BY <1>4 DEF Content, Place
  <2> QED BY <1>1, <1>2, <2>1 DEF Absent, Other
<1>6. \A k \in Place, c \in Consumer : Content(k, c) \subseteq Content(k, c)'
  BY <1>4 DEF Content, Place
<1>7. \A n \in Msg \ {m} : Absent(n)' = Absent(n)
  <2> SUFFICES ASSUME NEW n \in Msg \ {m} PROVE Absent(n)' <=> Absent(n)
    BY DEF Absent
  <2>1. ASSUME Absent(n) PROVE Absent(n)'
    BY <1>1, <1>4, <1>5, <2>1 DEF Absent
  <2>2. ASSUME Absent(n)' PROVE Absent(n)
    BY <1>4, <1>6, <2>2 DEF Absent
  <2> QED BY <2>1, <2>2
<1>8. Unentered'
  BY <1>1, <1>2, <1>7 DEF AttemptInv, Unentered, Clean
<1>9. \A c \in Consumer : \A t \in con[c].tasks : Other(t.msg, z)
  BY <1>1, <1>2, ContentIs DEF Absent, Place, Other
<1>10. (z.id \in Clean => tries[z.id] < z.attempt) /\ "pending" \in Place /\ "pending" \notin Own
  BY <1>1, <1>2 DEF Place, Own
<1>11. \A c \in Consumer : \A x, y \in con'[c].hand : x = y
  BY DEF AttemptInv, OneCopy
<1>12. AttemptInv'
  BY <1>4, <1>5, <1>8, <1>9, <1>10, <1>11, MovesOne
<1>13. ~Absent(m)'
  BY <1>1, <1>4 DEF Absent
<1> QED BY <1>1, <1>5, <1>7, <1>12, <1>13

LEMMA EnqueueAttempts ==
  ASSUME AttemptInv, TypeOK', NEW m \in Msg, Enqueue(m)
  PROVE  GoodStep
<1>0. TypeOK /\ api \in Api /\ mail \in [Msg -> Nat]
  BY DEF AttemptInv, TypeOK
<1>1. /\ m \in api.calls \cup api.again /\ Push(m)
      /\ UNCHANGED <<retry, dlq, con, mail, tries, resent>>
      /\ api'.stage = [api.stage EXCEPT ![m] = Answer(m, "queued")]
      /\ api'.calls = api.calls \ {m} /\ api'.again = api.again \ {m}
  BY <1>0 DEF Enqueue, Pushing, smtp, Api
<1>2. \A n \in Msg : api'.stage[n] = "new" => api.stage[n] = "new"
  BY <1>0, <1>1 DEF Answer, Api
<1>3. /\ AttemptInv' /\ ~Absent(m)'
      /\ \A n \in Msg \ {m} : Absent(n)' = Absent(n)
      /\ \A k \in Place, c \in Consumer : \A x \in Content(k, c)' : x \in Content(k, c) \/ x.id = m
  BY <1>1, <1>2, PushAttempts
<1>4. ASSUME Prompt, Calm PROVE Calm' /\ Promised
  <2>1. api.stage[m] = "waiting" /\ mail[m] = 0 /\ m \notin Ids(dlq)
    BY <1>0, <1>1, <1>4, PromptIsClean DEF Calm, Answered, AttemptInv, Unentered
  <2>2. /\ api'.stage[m] = "queued"
        /\ \A n \in Msg \ {m} : api'.stage[n] = api.stage[n]
    BY <1>0, <1>1, <2>1 DEF Answer, Api
  <2>3. Answered'
    BY <1>1, <1>3, <1>4, <2>1, <2>2 DEF Calm, Answered, Ids
  <2>4. Known'
    BY <1>1, <1>3, <1>4, <2>1 DEF Calm, Known
  <2>5. Calm'
    BY <2>3, <2>4 DEF Calm
  <2>6. View(m) = "held" /\ View(m)' = "held"
    BY <1>1, <1>3, <2>1, <2>2 DEF View, Ids
  <2>7. \A n \in Msg \ {m} : View(n)' = View(n) /\ mail'[n] = mail[n]
    BY <1>1, <1>3, <2>2 DEF View, Ids
  <2>8. mail'[m] = IF View(m)' = "sent" /\ View(m) = "held" THEN mail[m] + 1 ELSE mail[m]
    BY <1>1, <2>6
  <2>9. Promised
    BY <1>0, <1>4, <2>5, <2>6, <2>7, <2>8, OneMoves
  <2> QED BY <2>5, <2>9
<1> QED BY <1>3, <1>4 DEF GoodStep

\* The handler is told that the notification was not queued.
LEMMA EnqueueFailsAttempts ==
  ASSUME AttemptInv, TypeOK', NEW m \in Msg, EnqueueFails(m)
  PROVE  GoodStep
<1>0. TypeOK /\ api \in Api
  BY DEF AttemptInv, TypeOK
<1>1. /\ m \in api.calls \cup api.again /\ UNCHANGED <<retry, dlq, con, mail, tries, resent>>
      /\ api'.stage = [api.stage EXCEPT ![m] = Answer(m, "fallback")]
      /\ api'.calls = api.calls \ {m} /\ api'.again = api.again \ {m}
      /\ UNCHANGED pending \/ (Push(m) /\ ~Prompt)
  BY <1>0 DEF EnqueueFails, Pushing, smtp, Api, Prompt
<1>2. \A n \in Msg : /\ api'.stage[n] = "new" => api.stage[n] = "new"
                     /\ api'.stage[n] = "new" => n \notin api'.calls
  BY <1>0, <1>1 DEF Answer, Api, AttemptInv, Unentered
<1>3. CASE Push(m) /\ ~Prompt
  BY <1>1, <1>2, <1>3, PushAttempts DEF GoodStep
<1>4. CASE UNCHANGED pending
  <2>1. UNCHANGED <<redis, con, tries, mail, resent>>
    BY <1>1, <1>4 DEF redis
  <2>2. AttemptInv' /\ \A n \in Msg : Absent(n)' = Absent(n)
    BY <1>1, <1>2, <2>1, HandlerAttempts
  <2>3. ASSUME Prompt, Calm PROVE Calm' /\ Promised
    <3>1. api.stage[m] = "waiting"
      BY <1>0, <1>1, <2>3, PromptIsClean DEF Calm, Answered, AttemptInv, Unentered
    <3>2. api'.stage = [api.stage EXCEPT ![m] = "fallback"] /\ "fallback" \in Stage \ {"new", "queued"}
      BY <1>1, <3>1 DEF Answer, Stage
    <3>3. m \in api'.calls <=> "fallback" = "waiting"
      BY <1>1
    <3>4. mail' = IF "fallback" = "sent" THEN [mail EXCEPT ![m] = @ + 1] ELSE mail
      BY <2>1
    <3> QED BY <1>1, <2>1, <2>2, <2>3, <3>1, <3>2, <3>3, <3>4, HandlerPromise
  <2> QED BY <2>2, <2>3 DEF GoodStep
<1> QED BY <1>1, <1>3, <1>4

LEMMA SubmitAttempts ==
  ASSUME AttemptInv, TypeOK', NEW m \in Msg, Submit(m)
  PROVE  GoodStep
<1>0. api \in Api
  BY DEF AttemptInv, TypeOK
<1>1. /\ api.stage[m] = "new" /\ UNCHANGED <<redis, con, mail, tries, resent>>
      /\ api'.stage = [api.stage EXCEPT ![m] = "waiting"]
      /\ api'.calls = api.calls \cup {m} /\ api'.again = api.again
  BY <1>0 DEF Submit, smtp, Api
<1>2. AttemptInv' /\ \A n \in Msg : Absent(n)' = Absent(n)
  BY <1>0, <1>1, HandlerAttempts DEF Api, AttemptInv, Unentered
<1>3. ASSUME Calm PROVE Calm' /\ Promised
  <2>1. "waiting" \in Stage \ {"new", "queued"}
    BY DEF Stage
  <2>2. mail' = IF "waiting" = "sent" THEN [mail EXCEPT ![m] = @ + 1] ELSE mail
    BY <1>1
  <2>3. m \in api'.calls <=> "waiting" = "waiting"
    BY <1>1
  <2> QED BY <1>1, <1>2, <1>3, <2>1, <2>2, <2>3, HandlerPromise
<1> QED BY <1>2, <1>3 DEF GoodStep

LEMMA SendSyncAttempts ==
  ASSUME AttemptInv, TypeOK', NEW m \in Msg, SendSync(m)
  PROVE  GoodStep
<1>0. api \in Api
  BY DEF AttemptInv, TypeOK
<1>1. PICK stage \in {"sent", "failed"} :
        /\ api' = [api EXCEPT !.stage[m] = stage]
        /\ Prompt => mail' = IF stage = "sent" THEN [mail EXCEPT ![m] = @ + 1] ELSE mail
  BY DEF SendSync, Prompt
<1>2. /\ api'.stage = [api.stage EXCEPT ![m] = stage] /\ api'.calls = api.calls
      /\ api.stage[m] = "fallback" /\ UNCHANGED <<redis, con, tries, resent>> /\ api'.again = api.again
  BY <1>0, <1>1 DEF SendSync, Api
<1>3. AttemptInv' /\ \A n \in Msg : Absent(n)' = Absent(n)
  BY <1>0, <1>2, HandlerAttempts DEF Api, AttemptInv, Unentered
<1>4. ASSUME Prompt, Calm PROVE Calm' /\ Promised
  <2>1. stage \in Stage \ {"new", "queued"} /\ m \notin api'.calls
    BY <1>2, <1>4 DEF Stage, Calm, Answered
  <2> QED BY <1>1, <1>2, <1>3, <1>4, <2>1, HandlerPromise
<1> QED BY <1>3, <1>4 DEF GoodStep

LEMMA ApiCrashAttempts ==
  ASSUME AttemptInv, TypeOK', ApiCrash
  PROVE  GoodStep
<1>0. TypeOK /\ api.stage \in [Msg -> Stage]
  BY DEF AttemptInv, TypeOK, Api
<1>1. /\ api'.calls = {} /\ api'.again = {} /\ UNCHANGED <<redis, con, tries, resent, mail, dlq>>
      /\ \A n \in Msg : api'.stage[n] = IF api.stage[n] \in {"waiting", "fallback"}
                                        THEN "lost" ELSE api.stage[n]
  BY DEF ApiCrash, smtp, redis
<1>2. AttemptInv' /\ \A n \in Msg : Absent(n)' = Absent(n)
  BY <1>1, HandlerAttempts
<1>3. ASSUME Calm PROVE Calm' /\ Promised
  <2>1. Answered'
    BY <1>0, <1>1, <1>2, <1>3 DEF Calm, Answered, Ids, Stage
  <2>2. Known'
    BY <1>1, <1>3 DEF Calm, Known, Content, Place, redis, Listed
  <2>3. Calm'
    BY <2>1, <2>2 DEF Calm
  <2>4. ASSUME NEW n \in Msg
        PROVE  View(n)' = View(n) \/ (View(n) = "held" /\ View(n)' = "lost")
    <3>1. CASE api.stage[n] \in {"waiting", "fallback"}
      <4>1. mail[n] = 0 /\ n \notin Ids(dlq) /\ Absent(n)
        BY <1>3, <3>1 DEF Calm, Answered
      <4>2. mail'[n] = 0 /\ n \notin Ids(dlq') /\ Absent(n)' /\ api'.stage[n] = "lost"
        BY <1>1, <1>2, <3>1, <4>1
      <4> QED BY <3>1, <4>1, <4>2 DEF View
    <3>2. CASE api.stage[n] \notin {"waiting", "fallback"}
      <4>1. api'.stage[n] = api.stage[n] /\ Absent(n)' = Absent(n) /\ mail' = mail /\ dlq' = dlq
        BY <1>1, <1>2, <3>2
      <4> QED BY <4>1 DEF View, Ids
    <3> QED BY <3>1, <3>2
  <2>5. ASSUME NEW m \in Msg PROVE Promised
    <3>1. View(m)' = View(m) \/ <<View(m), View(m)'>> \in Promise!Edge
      BY <2>4 DEF Promise!Edge
    <3>2. mail'[m] = IF View(m)' = "sent" /\ View(m) = "held" THEN mail[m] + 1 ELSE mail[m]
      BY <1>1, <2>4
    <3>3. \A n \in Msg \ {m} : mail'[n] = mail[n]
      BY <1>1
    <3> QED BY <1>0, <1>3, <2>3, <2>4, <3>1, <3>2, <3>3, OneMoves
  <2> QED BY <2>3, <2>5 DEF Promised
<1> QED BY <1>2, <1>3 DEF GoodStep

\* Steps that change neither a stage nor Redis, nor a consumer.
LEMMA StandsStill ==
  ASSUME AttemptInv, TypeOK', UNCHANGED <<redis, con, smtp>>,
         api'.stage = api.stage, api'.calls = api.calls, api'.again = api.again
  PROVE  GoodStep
<1>1. UNCHANGED <<tries, resent, mail, dlq>>
  BY DEF redis, smtp
<1>2. AttemptInv' /\ \A n \in Msg : Absent(n)' = Absent(n)
  BY <1>1, HandlerAttempts DEF AttemptInv, Unentered
<1>3. ASSUME Calm PROVE Calm' /\ Promised
  <2>1. Calm'
    <3>1. Answered'
      BY <1>1, <1>2, <1>3 DEF Calm, Answered, Ids
    <3>2. \A k \in Place, c \in Consumer : Content(k, c)' = Content(k, c)
      BY DEF Content, Place, redis, Listed
    <3>3. Known'
      BY <1>1, <1>3, <3>2 DEF Calm, Known
    <3> QED BY <3>1, <3>3 DEF Calm
  <2>2. \A n \in Msg : View(n)' = View(n)
    BY <1>1, <1>2 DEF View, Ids
  <2>3. ASSUME NEW m \in Msg PROVE Promised
    <3>1. mail'[m] = IF View(m)' = "sent" /\ View(m) = "held" THEN mail[m] + 1 ELSE mail[m]
      BY <1>1, <2>2
    <3>2. \A n \in Msg \ {m} : mail'[n] = mail[n]
      BY <1>1
    <3> QED BY <1>3, <2>1, <2>2, <3>1, <3>2, OneMoves DEF AttemptInv
  <2> QED BY <2>1, <2>3 DEF Promised
<1> QED BY <1>2, <1>3 DEF GoodStep

LEMMA ApiAttempts ==
  ASSUME AttemptInv, TypeOK', (\E m \in Msg : ApiStep(m)) \/ ApiCrash \/ ApiReconnect
  PROVE  GoodStep
<1>0. api \in Api /\ \A m \in Msg : api.stage[m] = "new" => m \notin api.calls
  BY DEF AttemptInv, Unentered, TypeOK
<1>1. ASSUME NEW m \in Msg, EnqueueTimeout(m) PROVE GoodStep
  <2>1. AttemptInv'
    BY <1>0, <1>1, HandlerAttempts DEF EnqueueTimeout, smtp, Api
  <2>2. ~Prompt
    BY <1>1 DEF EnqueueTimeout, Prompt
  <2> QED BY <2>1, <2>2 DEF GoodStep
<1>2. CASE ApiReconnect
  BY <1>0, <1>2, StandsStill DEF ApiReconnect, Api
<1> QED BY <1>1, <1>2, SubmitAttempts, EnqueueAttempts, EnqueueFailsAttempts, SendSyncAttempts,
           ApiCrashAttempts DEF ApiStep

\* A consumer's command that is executed the first of two times.
LEMMA ResendAttempts ==
  ASSUME AttemptInv, TypeOK', NEW c \in Consumer, ResendStep(c)
  PROVE  GoodStep
<1>0. /\ TypeOK /\ Distinct(pending, Clean) /\ con[c] \in Con
      /\ \A x, y \in con[c].hand : x = y
      /\ \A t \in con[c].tasks : t \in Task /\ t.msg \in Copy
  BY AttemptTypes
<1>1. CASE PopAgain(c)
  <2>1. /\ pending # <<>> /\ pending' = Tail(pending) /\ Resend(Head(pending).id)
        /\ UNCHANGED <<retry, dlq, api, con>> /\ Head(pending).id \in Msg
    BY <1>0, <1>1, ListedPending DEF PopAgain, Copy
  <2>2. /\ Listed(pending') \subseteq Listed(pending)
        /\ Distinct(pending', Clean \ {Head(pending).id})
    BY <1>0, <2>1, ListedPending DEF Distinct
  <2>3. \A k \in Place, d \in Consumer : Content(k, d)' \subseteq Content(k, d)
    BY <2>1, <2>2 DEF Content, Place
  <2>4. \A d \in Consumer : \A x, y \in con'[d].hand : x = y
    BY <2>1 DEF AttemptInv, OneCopy
  <2> QED BY <2>1, <2>2, <2>3, <2>4, ResendDrops
<1>2. CASE PostponeAgain(c)
  <2>1. PICK z \in con[c].hand : Resend(z.id)
    BY <1>2 DEF PostponeAgain
  <2>2. /\ con[c].hand = {z} /\ z.id \in Msg /\ retry' = retry \cup {z}
        /\ UNCHANGED <<pending, dlq, api>> /\ Become(c, [con[c] EXCEPT !.pc = "postpone"])
    BY <1>0, <1>2, <2>1 DEF PostponeAgain, PutBack, Con, Copy
  <2>3. \A d \in Consumer : /\ con'[d].hand = con[d].hand /\ con'[d].tasks = con[d].tasks
                            /\ con'[d].moving = con[d].moving
    BY <1>0, <2>2, BecomeIs DEF Con
  <2>4. \A k \in Place, d \in Consumer : \A x \in Content(k, d)' : x \in Content(k, d) \/ x.id = z.id
    BY <2>2, <2>3 DEF Content, Place
  <2>5. Distinct(pending', Clean \ {z.id})
    BY <1>0, <2>2 DEF Distinct
  <2>6. \A d \in Consumer : \A x, y \in con'[d].hand : x = y
    BY <2>3 DEF AttemptInv, OneCopy
  <2> QED BY <2>1, <2>2, <2>3, <2>4, <2>5, <2>6, ResendDrops
<1>3. ASSUME NEW t \in con[c].tasks, RetryAgain(c, t) PROVE GoodStep
  <2> DEFINE m == t.msg.id
             z == [t.msg EXCEPT !.attempt = @ + 1]
             u == [t EXCEPT !.result = "again"]
  <2>1. /\ m \in Msg /\ Resend(m) /\ retry' = retry \cup {z} /\ z.id = m
        /\ UNCHANGED <<pending, dlq, api>>
        /\ Become(c, [con[c] EXCEPT !.tasks = (@ \ {t}) \cup {u}])
        /\ u.msg = t.msg
    BY <1>0, <1>3 DEF RetryAgain, Schedule, Copy, Task
  <2>2. /\ con'[c].hand = con[c].hand /\ con'[c].moving = con[c].moving
        /\ con'[c].tasks = (con[c].tasks \ {t}) \cup {u}
        /\ \A d \in Consumer \ {c} : con'[d] = con[d]
    BY <1>0, <2>1, BecomeIs DEF Con
  <2> HIDE DEF m, z, u
  <2>3. \A d \in Consumer : \A v \in con'[d].tasks : v \in con[d].tasks \/ (v.msg = t.msg /\ v.msg.id = m)
    BY <2>1, <2>2 DEF m
  <2>4. ASSUME NEW k \in Place, NEW d \in Consumer, NEW x \in Content(k, d)'
        PROVE  x \in Content(k, d) \/ x.id = m
    <3>1. CASE k = "task"
      BY <2>3, <2>4, <3>1 DEF Content
    <3>2. CASE k # "task"
      BY <2>1, <2>2, <2>4, <3>2 DEF Content, Place
    <3> QED BY <3>1, <3>2
  <2>5. Distinct(pending', Clean \ {m})
    BY <1>0, <2>1 DEF Distinct
  <2>6. \A d \in Consumer : \A x, y \in con'[d].hand : x = y
    BY <2>2 DEF AttemptInv, OneCopy
  <2> QED BY <2>1, <2>3, <2>4, <2>5, <2>6, ResendDrops
<1>4. ASSUME NEW x \in con[c].due \cup con[c].moving,
             PromoteRemoveAgain(c, x) \/ PromotePushAgain(c, x)
      PROVE  GoodStep
  <2>1. /\ x \in Copy /\ x.id \in Msg /\ Resend(x.id) /\ UNCHANGED <<dlq, api, con>>
        /\ \/ retry' = retry \ {x} /\ UNCHANGED pending
           \/ UNCHANGED retry /\ pending' = Append(pending, x)
    BY <1>0, <1>4 DEF PromoteRemoveAgain, PromotePushAgain, Con, Copy
  <2>2. Listed(pending') \subseteq Listed(pending) \cup {x} /\ Distinct(pending', Clean \ {x.id})
    <3>1. Distinct(pending, Clean \ {x.id})
      BY <1>0 DEF Distinct
    <3>2. CASE UNCHANGED pending
      BY <3>1, <3>2
    <3>3. CASE pending' = Append(pending, x)
      BY <1>0, <2>1, <3>1, <3>3, ListedPending
    <3> QED BY <2>1, <3>2, <3>3
  <2>3. \A k \in Place, d \in Consumer : \A y \in Content(k, d)' : y \in Content(k, d) \/ y.id = x.id
    BY <2>1, <2>2 DEF Content, Place
  <2>4. \A d \in Consumer : \A y, z \in con'[d].hand : y = z
    BY <2>1 DEF AttemptInv, OneCopy
  <2> QED BY <2>1, <2>2, <2>3, <2>4, ResendDrops
<1> QED BY <1>1, <1>2, <1>3, <1>4 DEF ResendStep

\* The first of two pushes of a handler's coroutine.
LEMMA EnqueueAgainAttempts ==
  ASSUME AttemptInv, TypeOK', NEW m \in Msg, EnqueueAgain(m)
  PROVE  GoodStep
<1> DEFINE z == [id |-> m, attempt |-> 1]
<1>0. TypeOK /\ Distinct(pending, Clean \ {m}) /\ api \in Api
  BY DEF AttemptInv, OneCopy, Distinct, TypeOK
<1>1. /\ pending' = Append(pending, z) /\ z \in Copy /\ z.id = m /\ Resend(m)
      /\ UNCHANGED <<retry, dlq, con>> /\ UNCHANGED api.stage
      /\ api'.calls \subseteq api.calls /\ api'.again \subseteq api.again \cup {m}
  BY <1>0, FirstCopy DEF EnqueueAgain, Push, Api
<1> HIDE DEF z
<1>2. Listed(pending') = Listed(pending) \cup {z} /\ Distinct(pending', Clean \ {m})
  BY <1>0, <1>1, ListedPending
<1>3. \A k \in Place, c \in Consumer : \A x \in Content(k, c)' : x \in Content(k, c) \/ x.id = m
  BY <1>1, <1>2 DEF Content, Place
<1>4. \A c \in Consumer : \A x, y \in con'[c].hand : x = y
  BY <1>1 DEF AttemptInv, OneCopy
<1> QED BY <1>1, <1>2, <1>3, <1>4, ResendDrops

LEMMA InitAttempts == Init => AttemptInv /\ Calm /\ \A m \in Msg : Life(m) = "new"
<1> SUFFICES ASSUME Init PROVE AttemptInv /\ Calm /\ \A m \in Msg : Life(m) = "new"
  OBVIOUS
<1>1. TypeOK
  BY InitTypeOK
<1>2. Len(pending) = 0 /\ Listed(pending) = {} /\ retry = {} /\ Ids(dlq) = {}
  BY DEF Init, Listed, Ids
<1>3. \A c \in Consumer : con[c].hand = {} /\ con[c].moving = {} /\ con[c].tasks = {}
  BY DEF Init, Started, Down
<1>4. \A k \in Place, c \in Consumer : Content(k, c) = {}
  BY <1>2, <1>3 DEF Content, Place, Init
<1>5. OnePlace /\ Unentered
  BY <1>2, <1>4 DEF Init, OnePlace, Unentered, Absent
<1>6. OneCopy
  BY <1>2, <1>3 DEF OneCopy, Distinct
<1>7. Counted
  BY <1>3, <1>4, QueueAssumption DEF Init, Counted, AttemptsOfOneCopy
<1>8. \A m \in Msg : api.stage[m] = "new" /\ m \notin api.calls /\ mail[m] = 0 /\ Absent(m)
  BY <1>2, <1>4 DEF Init, Absent
<1>9. Calm
  BY <1>2, <1>3, <1>4, <1>8 DEF Calm, Answered, Known
<1>10. \A m \in Msg : View(m) = "new"
  BY <1>2, <1>8 DEF View
<1> QED BY <1>1, <1>5, <1>6, <1>7, <1>9, <1>10, ViewIsLife DEF AttemptInv

LEMMA NextAttempts ==
  ASSUME AttemptInv, [Next]_vars
  PROVE  GoodStep
<1>0. TypeOK'
  BY NextTypeOK DEF AttemptInv
<1>1. CASE (\E m \in Msg : ApiStep(m)) \/ ApiCrash \/ ApiReconnect
  BY <1>0, <1>1, ApiAttempts
<1>2. ASSUME NEW c \in Consumer, LoopStep(c) PROVE GoodStep
  BY <1>0, <1>2, QuietAttempts, PopAttempts, PostponeAttempts, DispatchAttempts DEF LoopStep
<1>3. ASSUME NEW c \in Consumer, TaskStep(c) PROVE GoodStep
  BY <1>0, <1>3, QuietAttempts, SendAttempts, BuryAttempts, RetryLaterAttempts DEF TaskStep
<1>4. ASSUME NEW c \in Consumer, PromoterStep(c) PROVE GoodStep
  BY <1>0, <1>4, PromoterAttempts
<1>5. ASSUME NEW c \in Consumer, ProcessStep(c) PROVE GoodStep
  BY <1>0, <1>5, QuietAttempts, PromoterAttempts DEF ProcessStep
<1>6. ASSUME NEW c \in Consumer, ResendStep(c) PROVE GoodStep
  BY <1>0, <1>6, ResendAttempts
<1>7. ASSUME NEW m \in Msg, EnqueueAgain(m) PROVE GoodStep
  BY <1>0, <1>7, EnqueueAgainAttempts
<1>8. CASE UNCHANGED vars
  BY <1>0, <1>8, StandsStill DEF vars
<1> QED BY <1>1, <1>2, <1>3, <1>4, <1>5, <1>6, <1>7, <1>8 DEF Next

\* However often a notification is postponed, promoted or handed to another
\* consumer, and whatever fails, the queue asks SMTP for it at most
\* max_attempts times, unless the client has sent a command about it twice
\* and Redis has executed both: the copies' numbers bound the calls of
\* send_email, and there is one copy at a time.
THEOREM AttemptsOfOneCopyCorrect == Spec => []AttemptsOfOneCopy
<1>1. Init => AttemptInv
  BY InitAttempts
<1>2. AttemptInv /\ [Next]_vars => AttemptInv'
  BY NextAttempts DEF GoodStep
<1>3. AttemptInv => AttemptsOfOneCopy
  BY DEF AttemptInv, Counted
<1> QED BY <1>1, <1>2, <1>3, PTL DEF Spec

\* The queue keeps the promise of Delivery while no answer of Redis, SMTP or
\* the API's loop is late or lost, with any number of consumers that crash,
\* restart, are asked to stop and lose Redis: a notification is given to SMTP
\* at most once and comes to one final end.
THEOREM DeliversOnceCorrect ==
  ASSUME Prompt
  PROVE  Spec => DeliversOnce
<1>1. Init => AttemptInv /\ Calm /\ Promise!DeliveryInit
  BY InitAttempts DEF Promise!DeliveryInit, Init
<1>2. AttemptInv /\ Calm /\ [Next]_vars => AttemptInv' /\ Calm' /\ [Promise!DeliveryNext]_Promise!deliveryVars
  <2> SUFFICES ASSUME AttemptInv, Calm, [Next]_vars
               PROVE  AttemptInv' /\ Calm' /\ Promise!DeliveryNext
    OBVIOUS
  <2>1. AttemptInv' /\ Calm' /\ Promised
    BY NextAttempts DEF GoodStep
  <2>2. \A m \in Msg : Life(m)' \in Promise!Life
    <3>1. ASSUME NEW m \in Msg PROVE View(m)' \in Promise!Life
      BY <2>1 DEF View, Promise!Life
    <3> QED BY <2>1, <3>1, ViewIsLifeNext DEF AttemptInv
  <2>3. mail' \in [Msg -> Nat]
    BY <2>1 DEF AttemptInv, TypeOK
  <2> QED BY <2>1, <2>2, <2>3 DEF Promise!DeliveryNext, Promised
<1> QED BY <1>1, <1>2, PTL DEF Spec, DeliversOnce, Promise!DeliverySpec

-----------------------------------------------------------------------------
(***************************************************************************)
(* Who can lose a notification.  Nothing here depends on how many copies   *)
(* there are: a step of one consumer leaves what the others have, and what *)
(* it takes from Redis it has itself.                                      *)
(***************************************************************************)

\* What a consumer whose memory is r would still deliver.
Carries(r) == Ids(r.hand \cup r.moving) \cup {t.msg.id : t \in {u \in r.tasks : u.result # "ok"}}

\* A consumer has nothing when it starts, and nothing in hand when it pops.
Orderly(r) ==
  /\ r.pc = "down" => r.hand = {} /\ r.tasks = {} /\ r.due = {} /\ r.moving = {}
  /\ r.pc \in {"blpop", "loop"} => r.hand = {}
  /\ \A x, y \in r.moving : x = y

HolderInv ==
  /\ TypeOK
  /\ \A m \in Msg : /\ m \in api.calls \cup api.again => api.stage[m] # "queued"
                    /\ api.stage[m] = "sent" => mail[m] > 0
  /\ \A c \in Consumer : /\ Orderly(con[c])
                         /\ \A t \in con[c].tasks : t.result = "ok" => mail[t.msg.id] > 0

\* A notification that c has, or pops, and a memory with which c does not go on.
Holds(c, m) == \/ m \in Carries(con[c]) \cup Ids(con[c].due)
               \/ At(c, "blpop") /\ pending # <<>> /\ m = Head(pending).id

Ends(r) == r.pc \in {"down", "wait", "exit"} \/ ~r.up

HolderLoses == \A m \in Msg : Kept(m) /\ ~Kept(m)' =>
                 \E c \in Consumer :
                   \/ /\ \/ m \in Carried(c) \cup Ids(con[c].due)
                         \/ At(c, "blpop") /\ pending # <<>> /\ m = Head(pending).id
                      /\ con'[c].pc \in {"down", "wait", "exit"} \/ ~con'[c].up
                   \/ /\ \/ m \in Ids(con[c].due)
                         \/ At(c, "blpop") /\ pending # <<>> /\ m = Head(pending).id
                      /\ resent'[m] # resent[m] /\ UNCHANGED con

LEMMA PendingIs == \A m \in Msg : InPending(m) <=> m \in Ids(Listed(pending))
BY DEF InPending, Listed, Ids

LEMMA PendingWas == \A m \in Msg : InPending(m)' <=> m \in Ids(Listed(pending'))
BY DEF InPending, Listed, Ids

\* A step of consumer c loses nothing that c keeps, and keeps what it does not
\* lose.
LEMMA ConsumerKeeps ==
  ASSUME HolderInv, TypeOK', NEW c \in Consumer, NEW r, Become(c, r), UNCHANGED api, Orderly(r),
         \A n \in Msg : mail[n] > 0 => mail'[n] > 0,
         \A t \in r.tasks : t.result = "ok" => mail'[t.msg.id] > 0,
         \A m \in Msg :
           LET there == \/ m \in Carries(r) \cup Ids(Listed(pending') \cup retry' \cup dlq')
                        \/ mail'[m] > 0
                        \/ Holds(c, m) /\ Ends(r)
           IN m \in Ids(Listed(pending) \cup retry \cup dlq) \cup Carries(con[c]) => there
  PROVE  HolderInv' /\ HolderLoses
<1>0. TypeOK /\ con'[c] = r /\ \A d \in Consumer \ {c} : con'[d] = con[d]
  BY BecomeIs DEF HolderInv
<1>1. HolderInv'
  <2>1. ASSUME NEW d \in Consumer
        PROVE  /\ Orderly(con'[d])
               /\ \A t \in con'[d].tasks : t.result = "ok" => mail'[t.msg.id] > 0
    <3>1. CASE d = c
      BY <1>0, <3>1
    <3>2. CASE d # c
      <4>1. con'[d] = con[d] /\ \A t \in con[d].tasks : t.msg.id \in Msg
        BY <1>0, <3>2 DEF TypeOK, Con, Task, Copy
      <4> QED
        BY <4>1 DEF HolderInv
    <3> QED
      BY <3>1, <3>2
  <2> QED
    BY <2>1 DEF HolderInv, Orderly
<1>2. ASSUME NEW m \in Msg, Kept(m), ~Kept(m)' PROVE Holds(c, m) /\ Ends(r)
  <2>1. \A d \in Consumer : Carried(d) = Carries(con[d]) /\ Carried(d)' = Carries(con'[d])
    BY DEF Carried, Carries
  <2>2. /\ m \notin Ids(Listed(pending') \cup retry' \cup dlq')
        /\ ~(mail'[m] > 0)
        /\ api.stage[m] \notin {"new", "waiting", "fallback", "failed", "lost"}
        /\ m \notin api.calls \cup api.again
        /\ \A d \in Consumer : m \notin Carries(con'[d])
    BY <1>2, <2>1, PendingWas DEF Kept, Ids
  <2>3. \/ m \in Ids(Listed(pending) \cup retry \cup dlq)
        \/ \E d \in Consumer : m \in Carries(con[d])
    BY <1>2, <2>1, <2>2, PendingIs DEF Kept, Ids
  <2>4. m \in Ids(Listed(pending) \cup retry \cup dlq) \cup Carries(con[c])
    BY <1>0, <2>2, <2>3
  <2> QED
    BY <1>0, <2>2, <2>4
<1> QED
  BY <1>0, <1>1, <1>2 DEF HolderLoses, Holds, Ends, Carried, Carries

LEMMA HeadTailListed ==
  ASSUME TypeOK, pending # <<>>
  PROVE  Listed(pending) = Listed(Tail(pending)) \cup {Head(pending)}
<1>1. /\ pending \in Seq(Copy) /\ Len(pending) \in Nat \ {0} /\ Head(pending) = pending[1]
      /\ Len(Tail(pending)) = Len(pending) - 1
      /\ \A i \in 1 .. Len(pending) - 1 : Tail(pending)[i] = pending[i + 1]
  BY DEF TypeOK
<1>2. ASSUME NEW i \in 1 .. Len(pending)
      PROVE  pending[i] \in Listed(Tail(pending)) \cup {Head(pending)}
  <2>1. CASE i # 1
    <3>1. i - 1 \in 1 .. Len(pending) - 1 /\ pending[i] = Tail(pending)[i - 1]
      BY <1>1, <2>1
    <3> QED
      BY <1>1, <3>1 DEF Listed
  <2> QED
    BY <1>1, <2>1
<1>3. Listed(Tail(pending)) \cup {Head(pending)} \subseteq Listed(pending)
  BY <1>1 DEF Listed
<1> QED
  BY <1>2, <1>3 DEF Listed

LEMMA HolderTypes ==
  ASSUME HolderInv, NEW c \in Consumer
  PROVE  /\ TypeOK /\ con[c] \in Con /\ Orderly(con[c])
         /\ \A t \in con[c].tasks : t \in Task /\ t.msg \in Copy /\ t.msg.id \in Msg
         /\ \A t \in con[c].tasks : t.result = "ok" => mail[t.msg.id] > 0
BY DEF HolderInv, TypeOK, Con, Task, Copy

\* A consumer that goes on with all it has.
LEMMA QuietKeeps ==
  ASSUME HolderInv, TypeOK', NEW c \in Consumer, NEW r, Become(c, r), UNCHANGED <<redis, api, smtp>>,
         Orderly(r), r.hand = con[c].hand, r.tasks = con[c].tasks, r.moving = con[c].moving
  PROVE  HolderInv' /\ HolderLoses
BY ConsumerKeeps, HolderTypes DEF redis, smtp, Carries

\* A consumer that does not go on.
LEMMA EndsKeeps ==
  ASSUME HolderInv, TypeOK', NEW c \in Consumer, NEW r, Become(c, r), UNCHANGED <<api, smtp>>,
         UNCHANGED redis \/ Executed(c), Orderly(r), Ends(r), r.tasks \subseteq con[c].tasks
  PROVE  HolderInv' /\ HolderLoses
<1>0. TypeOK /\ con[c] \in Con
  BY HolderTypes
<1>1. ASSUME NEW m \in Msg, m \in Ids(Listed(pending) \cup retry \cup dlq)
      PROVE  m \in Ids(Listed(pending') \cup retry' \cup dlq') \/ Holds(c, m)
  <2>1. CASE UNCHANGED redis
    BY <1>1, <2>1 DEF redis
  <2>2. ASSUME NEW x \in con[c].moving, pending' = Append(pending, x), UNCHANGED <<retry, dlq>>
        PROVE  m \in Ids(Listed(pending') \cup retry' \cup dlq')
    <3>1. Listed(pending') = Listed(pending) \cup {x}
      BY <1>0, <2>2, ListedPending DEF Con
    <3> QED
      BY <1>1, <2>2, <3>1 DEF Ids
  <2>3. ASSUME NEW x \in con[c].due, retry' = retry \ {x}, UNCHANGED <<pending, dlq>>
        PROVE  m \in Ids(Listed(pending') \cup retry' \cup dlq') \/ m = x.id
    BY <1>1, <2>3 DEF Ids
  <2> QED
    BY <2>1, <2>2, <2>3 DEF Executed, Holds, Ids
<1>2. \A m \in Carries(con[c]) : Holds(c, m)
  BY DEF Holds
<1> QED
  BY <1>1, <1>2, ConsumerKeeps, HolderTypes DEF smtp

\* A command that moves a copy to the retry set or the dead letters, and the
\* same command when it fails or its answer is lost.
LEMMA CommandKeeps ==
  ASSUME HolderInv, TypeOK', NEW c \in Consumer, NEW r \in Con, NEW Done,
         Command(c, r, Done) \/ Sent(c, r, Done),
         UNCHANGED <<api, smtp>>, Orderly(r), r.tasks \subseteq con[c].tasks,
         Done => /\ pending' = pending /\ retry \subseteq retry' /\ dlq \subseteq dlq'
                 /\ Carries(con[c]) \subseteq Carries(r) \cup Ids(retry' \cup dlq')
  PROVE  HolderInv' /\ HolderLoses
<1> DEFINE q == [r EXCEPT !.up = FALSE]
<1>1. /\ Orderly(q) /\ Ends(q) /\ q.tasks \subseteq con[c].tasks /\ Carries(q) = Carries(r)
      /\ ~q.up
  BY DEF Orderly, Ends, Con, Carries
<1>2. ASSUME Done, NEW p, Become(c, p), Orderly(p), Carries(p) = Carries(r), p.tasks \subseteq con[c].tasks
      PROVE  HolderInv' /\ HolderLoses
  <2>1. \A m \in Msg : m \in Ids(Listed(pending) \cup retry \cup dlq) \cup Carries(con[c])
          => m \in Carries(p) \cup Ids(Listed(pending') \cup retry' \cup dlq')
    BY <1>2 DEF Ids
  <2> QED
    BY <1>2, <2>1, ConsumerKeeps, HolderTypes DEF smtp
<1>3. CASE Done /\ Become(c, r)
  BY <1>2, <1>3
<1>4. CASE Done /\ Become(c, q)
  <2> HIDE DEF q
  <2> QED
    BY <1>1, <1>2, <1>4
<1>5. CASE UNCHANGED redis /\ Become(c, q)
  <2> HIDE DEF q
  <2> QED
    BY <1>1, <1>5, EndsKeeps
<1> QED
  BY <1>3, <1>4, <1>5 DEF Command, Sent

LEMMA LoopKeeps ==
  ASSUME HolderInv, TypeOK', NEW c \in Consumer, LoopStep(c)
  PROVE  HolderInv' /\ HolderLoses
<1>0. con[c] \in Con /\ Orderly(con[c]) /\ TypeOK
  BY HolderTypes
<1>1. CASE Loop(c)
  <2> DEFINE r == [con[c] EXCEPT !.pc = CASE ~con[c].running -> "drain"
                                          [] con[c].running /\ con[c].up -> "blpop"
                                          [] con[c].running /\ ~con[c].up -> "spin"]
  <2>1. /\ Become(c, r) /\ UNCHANGED <<redis, api, smtp>> /\ con[c].pc = "loop"
    BY <1>1 DEF Loop
  <2>2. r.pc # "down" /\ r.hand = con[c].hand /\ r.tasks = con[c].tasks /\ r.moving = con[c].moving
    BY <1>0, <2>1 DEF Con
  <2>3. Orderly(r)
    BY <1>0, <2>1, <2>2 DEF Orderly
  <2> HIDE DEF r
  <2> QED
    BY <2>1, <2>2, <2>3, QuietKeeps
<1>2. CASE PopTimeout(c) \/ Admit(c)
  <2>1. PICK p \in {"loop", "acquire"} :
          /\ Become(c, [con[c] EXCEPT !.pc = p]) /\ UNCHANGED <<redis, api, smtp>>
          /\ p = "loop" => con[c].pc = "blpop"
    BY <1>2 DEF PopTimeout, Admit
  <2> DEFINE r == [con[c] EXCEPT !.pc = p]
  <2>2. r.pc = p /\ r.hand = con[c].hand /\ r.tasks = con[c].tasks /\ r.moving = con[c].moving
    BY <1>0 DEF Con
  <2>3. Orderly(r)
    BY <1>0, <2>1, <2>2 DEF Orderly
  <2> HIDE DEF r
  <2> QED
    BY <2>1, <2>2, <2>3, QuietKeeps DEF r
<1>3. CASE Pop(c)
  <2> DEFINE r == [con[c] EXCEPT !.hand = {Head(pending)},
                                 !.pc = IF con[c].up THEN "check" ELSE "acquire"]
  <2>1. /\ Become(c, r) /\ UNCHANGED <<retry, dlq, api, smtp>> /\ con[c].hand = {}
        /\ pending # <<>> /\ pending' = Tail(pending)
    BY <1>0, <1>3 DEF Pop, Orderly
  <2>2. /\ r.hand = {Head(pending)} /\ r.tasks = con[c].tasks /\ r.moving = con[c].moving
        /\ r.pc \in {"check", "acquire"}
    BY <1>0 DEF Con
  <2>3. Orderly(r)
    BY <1>0, <2>2 DEF Orderly
  <2>4. Listed(pending) = Listed(pending') \cup {Head(pending)}
    BY <1>0, <2>1, HeadTailListed
  <2>5. \A m \in Msg : m \in Ids(Listed(pending) \cup retry \cup dlq) \cup Carries(con[c])
          => m \in Carries(r) \cup Ids(Listed(pending') \cup retry' \cup dlq')
    BY <2>1, <2>2, <2>4 DEF Carries, Ids
  <2> HIDE DEF r
  <2> QED
    BY <2>1, <2>2, <2>3, <2>5, ConsumerKeeps, HolderTypes DEF smtp
<1>4. CASE PopFails(c)
  <2> DEFINE r == [con[c] EXCEPT !.up = FALSE, !.pc = "loop"]
  <2>1. /\ Become(c, r) /\ UNCHANGED <<retry, dlq, api, smtp>> /\ con[c].hand = {}
        /\ con[c].pc = "blpop"
        /\ pending' = pending \/ (pending # <<>> /\ pending' = Tail(pending))
    BY <1>0, <1>4 DEF PopFails, Orderly
  <2>2. /\ r.hand = con[c].hand /\ r.tasks = con[c].tasks /\ r.moving = con[c].moving
        /\ r.pc = "loop" /\ ~r.up
    BY <1>0 DEF Con
  <2>3. Orderly(r) /\ Ends(r) /\ Carries(r) = Carries(con[c])
    BY <1>0, <2>1, <2>2 DEF Orderly, Ends, Carries
  <2>4. pending' = pending \/ (/\ pending # <<>>
                               /\ Listed(pending) = Listed(pending') \cup {Head(pending)})
    BY <1>0, <2>1, HeadTailListed
  <2>5. ASSUME NEW m \in Ids(Listed(pending) \cup retry \cup dlq)
        PROVE  m \in Ids(Listed(pending') \cup retry' \cup dlq') \/ Holds(c, m)
    BY <2>1, <2>4 DEF Ids, Holds
  <2> HIDE DEF r
  <2> QED
    BY <2>1, <2>2, <2>3, <2>5, ConsumerKeeps, HolderTypes DEF smtp
<1>5. CASE Postpone(c)
  <2> DEFINE r == Postponed(c)
             Done == PutBack(c)
  <2>1. (Command(c, r, Done) \/ Sent(c, r, Done)) /\ UNCHANGED <<api, smtp>>
    BY <1>5 DEF Postpone
  <2>2. /\ r \in Con /\ r.hand = {} /\ r.tasks = con[c].tasks /\ r.moving = con[c].moving
        /\ r.pc = "loop"
    BY <1>0 DEF Con, Postponed
  <2>3. Orderly(r)
    BY <1>0, <2>2 DEF Orderly
  <2>4. Done => /\ pending' = pending /\ retry \subseteq retry' /\ dlq \subseteq dlq'
                /\ Carries(con[c]) \subseteq Carries(r) \cup Ids(retry' \cup dlq')
    BY <2>2 DEF Carries, Ids, PutBack
  <2> HIDE DEF r, Done
  <2> QED
    BY <2>1, <2>2, <2>3, <2>4, CommandKeeps
<1>6. CASE Dispatch(c)
  <2>0. PICK s \in 1 .. Concurrency :
          Become(c, [con[c] EXCEPT
            !.tasks = @ \cup {[slot |-> s, msg |-> x, result |-> "none"] : x \in con[c].hand},
            !.hand = {}, !.pc = "loop"])
    BY <1>6 DEF Dispatch
  <2> DEFINE new == {[slot |-> s, msg |-> x, result |-> "none"] : x \in con[c].hand}
             r == [con[c] EXCEPT !.tasks = @ \cup new, !.hand = {}, !.pc = "loop"]
  <2>1. Become(c, r) /\ UNCHANGED <<redis, api, smtp>>
    BY <1>6, <2>0 DEF Dispatch
  <2>2. /\ r.hand = {} /\ r.tasks = con[c].tasks \cup new /\ r.moving = con[c].moving
        /\ r.pc = "loop"
    BY <1>0 DEF Con
  <2>3. Orderly(r)
    BY <1>0, <2>2 DEF Orderly
  <2>4. Carries(con[c]) \subseteq Carries(r)
    <3>1. \A x \in con[c].hand : [slot |-> s, msg |-> x, result |-> "none"] \in r.tasks
      BY <2>2
    <3>2. \A x \in con[c].hand : x.id \in {t.msg.id : t \in {u \in r.tasks : u.result # "ok"}}
      <4> SUFFICES ASSUME NEW x \in con[c].hand
                   PROVE  x.id \in {t.msg.id : t \in {u \in r.tasks : u.result # "ok"}}
        OBVIOUS
      <4> DEFINE t == [slot |-> s, msg |-> x, result |-> "none"]
      <4>1. t \in r.tasks /\ t.result = "none" /\ t.msg.id = x.id
        BY <3>1
      <4> HIDE DEF t, r
      <4> QED
        BY <4>1
    <3> QED
      BY <2>2, <3>2 DEF Carries, Ids
  <2>5. \A t \in r.tasks : t.result = "ok" => t \in con[c].tasks
    BY <2>2
  <2> HIDE DEF r
  <2> QED
    BY <2>1, <2>3, <2>4, <2>5, ConsumerKeeps, HolderTypes DEF redis, smtp
<1> QED
  BY <1>1, <1>2, <1>3, <1>4, <1>5, <1>6 DEF LoopStep

LEMMA TaskKeeps ==
  ASSUME HolderInv, TypeOK', NEW c \in Consumer, NEW t \in con[c].tasks,
         Send(c, t) \/ Delivered(c, t) \/ Bury(c, t) \/ RetryLater(c, t)
  PROVE  HolderInv' /\ HolderLoses
<1>0. /\ con[c] \in Con /\ Orderly(con[c]) /\ TypeOK /\ t \in Task /\ t.msg \in Copy
      /\ t.msg.id \in Msg
  BY HolderTypes
<1> DEFINE e == Ended(c, t)
<1>1. /\ e \in Con /\ e.hand = con[c].hand /\ e.tasks = con[c].tasks \ {t} /\ e.moving = con[c].moving
      /\ e.pc = con[c].pc /\ e.due = con[c].due
  BY <1>0 DEF Con, Ended
<1>2. Orderly(e)
  BY <1>0, <1>1 DEF Orderly
<1>3. Carries(con[c]) \subseteq Carries(e) \cup {t.msg.id}
      /\ (t.result = "ok" => Carries(con[c]) = Carries(e))
  BY <1>1 DEF Carries
<1>4. CASE Send(c, t)
  <2>1. PICK result \in Result, taken \in BOOLEAN :
          /\ result = "ok" => taken
          /\ mail' = (IF taken THEN [mail EXCEPT ![t.msg.id] = @ + 1] ELSE mail)
          /\ Become(c, [con[c] EXCEPT
               !.tasks = (@ \ {t}) \cup {[t EXCEPT !.result = result]}])
          /\ UNCHANGED <<redis, api>>
    BY <1>4 DEF Send, Result
  <2> DEFINE u == [t EXCEPT !.result = result]
             r == [con[c] EXCEPT !.tasks = (@ \ {t}) \cup {u}]
  <2>2. u.result = result /\ u.msg = t.msg
    BY <1>0 DEF Task
  <2>3. /\ r.hand = con[c].hand /\ r.tasks = (con[c].tasks \ {t}) \cup {u} /\ r.moving = con[c].moving
        /\ r.pc = con[c].pc
    BY <1>0 DEF Con
  <2>4. Orderly(r)
    BY <1>0, <2>3 DEF Orderly, Con
  <2>5. /\ \A n \in Msg : mail[n] > 0 => mail'[n] > 0
        /\ result = "ok" => mail'[t.msg.id] > 0
    BY <1>0, <2>1 DEF TypeOK
  <2>6. \/ Carries(con[c]) \subseteq Carries(r)
        \/ result = "ok" /\ Carries(con[c]) \subseteq Carries(r) \cup {t.msg.id}
    <3> HIDE DEF u, r
    <3> QED
      BY <2>2, <2>3 DEF Carries
  <2>7. \A v \in r.tasks : v.result = "ok" => mail'[v.msg.id] > 0
    <3> HIDE DEF u, r
    <3> QED
      BY <2>2, <2>3, <2>5, HolderTypes
  <2> HIDE DEF r
  <2> QED
    BY <2>1, <2>4, <2>5, <2>6, <2>7, ConsumerKeeps DEF redis, r
<1>5. CASE Delivered(c, t)
  <2>1. Become(c, e) /\ UNCHANGED <<redis, api, smtp>> /\ Carries(con[c]) = Carries(e)
    BY <1>3, <1>5 DEF Delivered
  <2> HIDE DEF e
  <2> QED
    BY <1>1, <1>2, <2>1, ConsumerKeeps, HolderTypes DEF redis, smtp
<1>6. CASE Bury(c, t)
  <2> DEFINE Done == dlq' = dlq \cup {t.msg} /\ UNCHANGED <<pending, retry>>
  <2>1. Command(c, e, Done) /\ UNCHANGED <<api, smtp>>
    BY <1>6 DEF Bury
  <2>2. Done => /\ pending' = pending /\ retry \subseteq retry' /\ dlq \subseteq dlq'
                /\ Carries(con[c]) \subseteq Carries(e) \cup Ids(retry' \cup dlq')
    BY <1>3 DEF Ids
  <2> HIDE DEF e, Done
  <2> QED
    BY <1>1, <1>2, <2>1, <2>2, CommandKeeps
<1>7. CASE RetryLater(c, t)
  <2> DEFINE x == [t.msg EXCEPT !.attempt = @ + 1]
             Done == Schedule(t)
  <2>1. (Command(c, e, Done) \/ Sent(c, e, Done)) /\ UNCHANGED <<api, smtp>>
    BY <1>7 DEF RetryLater
  <2>2. x.id = t.msg.id
    BY <1>0 DEF Copy
  <2>3. Done => /\ pending' = pending /\ retry \subseteq retry' /\ dlq \subseteq dlq'
                /\ Carries(con[c]) \subseteq Carries(e) \cup Ids(retry' \cup dlq')
    <3>1. Done => retry' = retry \cup {x} /\ UNCHANGED <<pending, dlq>>
      BY DEF Schedule
    <3> HIDE DEF x, Done
    <3> QED
      BY <1>3, <2>2, <3>1 DEF Ids
  <2> HIDE DEF e, Done
  <2> QED
    BY <1>1, <1>2, <2>1, <2>3, CommandKeeps
<1> QED
  BY <1>4, <1>5, <1>6, <1>7

LEMMA PromoterKeeps ==
  ASSUME HolderInv, TypeOK', NEW c \in Consumer, PromoterStep(c)
  PROVE  HolderInv' /\ HolderLoses
<1>0. con[c] \in Con /\ Orderly(con[c]) /\ TypeOK
  BY HolderTypes
<1>1. ASSUME NEW S \in SUBSET retry, PromoteRead(c, S) PROVE HolderInv' /\ HolderLoses
  <2> DEFINE r == [con[c] EXCEPT !.due = S]
  <2>1. Become(c, r) /\ UNCHANGED <<redis, api, smtp>> /\ con[c].pc # "down"
    BY <1>1 DEF PromoteRead, Promoting, Awake
  <2>2. r.pc = con[c].pc /\ r.hand = con[c].hand /\ r.tasks = con[c].tasks /\ r.moving = con[c].moving
    BY <1>0 DEF Con
  <2>3. Orderly(r)
    BY <1>0, <2>1, <2>2 DEF Orderly
  <2> HIDE DEF r
  <2> QED
    BY <2>1, <2>2, <2>3, QuietKeeps
<1>2. ASSUME NEW x \in con[c].due, PromoteRemove(c, x) PROVE HolderInv' /\ HolderLoses
  <2> DEFINE r == [con[c] EXCEPT !.due = @ \ {x}, !.moving = {x} \cap retry]
  <2>1. /\ Become(c, r) /\ UNCHANGED <<pending, dlq, api, smtp>> /\ con[c].pc # "down"
        /\ retry' = retry \ {x} /\ con[c].moving = {}
    BY <1>2 DEF PromoteRemove, Promoting, Awake
  <2>2. /\ r.pc = con[c].pc /\ r.hand = con[c].hand /\ r.tasks = con[c].tasks
        /\ r.moving = {x} \cap retry
    BY <1>0 DEF Con
  <2>3. Orderly(r)
    BY <1>0, <2>1, <2>2 DEF Orderly
  <2>4. \A m \in Msg : m \in Ids(Listed(pending) \cup retry \cup dlq) \cup Carries(con[c])
          => m \in Carries(r) \cup Ids(Listed(pending') \cup retry' \cup dlq')
    <3> HIDE DEF r
    <3> QED
      BY <2>1, <2>2 DEF Carries, Ids
  <2> HIDE DEF r
  <2> QED
    BY <2>1, <2>2, <2>3, <2>4, ConsumerKeeps, HolderTypes DEF smtp
<1>3. ASSUME NEW x \in con[c].moving, PromotePush(c, x) PROVE HolderInv' /\ HolderLoses
  <2> DEFINE r == [con[c] EXCEPT !.moving = {}]
  <2>1. /\ Become(c, r) /\ UNCHANGED <<retry, dlq, api, smtp>> /\ pending' = Append(pending, x)
        /\ con[c].moving = {x} /\ x \in Copy
    BY <1>0, <1>3 DEF PromotePush, Orderly, Con
  <2>2. r.pc = con[c].pc /\ r.hand = con[c].hand /\ r.tasks = con[c].tasks /\ r.moving = {}
        /\ r.due = con[c].due
    BY <1>0 DEF Con
  <2>3. Orderly(r)
    BY <1>0, <2>2 DEF Orderly
  <2>4. Listed(pending') = Listed(pending) \cup {x}
    BY <1>0, <2>1, ListedPending
  <2>5. \A m \in Msg : m \in Ids(Listed(pending) \cup retry \cup dlq) \cup Carries(con[c])
          => m \in Carries(r) \cup Ids(Listed(pending') \cup retry' \cup dlq')
    <3> HIDE DEF r
    <3> QED
      BY <2>1, <2>2, <2>4 DEF Carries, Ids
  <2> HIDE DEF r
  <2> QED
    BY <2>1, <2>2, <2>3, <2>5, ConsumerKeeps, HolderTypes DEF smtp
<1>4. CASE PromoteFails(c)
  <2> DEFINE r == [Interrupted(c) EXCEPT !.up = FALSE]
  <2>1. /\ Become(c, r) /\ UNCHANGED <<api, smtp>> /\ (UNCHANGED redis \/ Executed(c))
    BY <1>4 DEF PromoteFails
  <2>2. /\ r.pc = con[c].pc /\ r.hand = con[c].hand /\ r.tasks = con[c].tasks /\ r.moving = {}
        /\ r.due = {} /\ ~r.up
    BY <1>0 DEF Con, Interrupted
  <2>3. Orderly(r) /\ Ends(r) /\ r.tasks \subseteq con[c].tasks
    BY <1>0, <2>2 DEF Orderly, Ends
  <2> HIDE DEF r
  <2> QED
    BY <2>1, <2>3, EndsKeeps
<1> QED
  BY <1>1, <1>2, <1>3, <1>4 DEF PromoterStep

LEMMA ProcessKeeps ==
  ASSUME HolderInv, TypeOK', NEW c \in Consumer, ProcessStep(c)
  PROVE  HolderInv' /\ HolderLoses
<1>0. con[c] \in Con /\ Orderly(con[c]) /\ TypeOK
  BY HolderTypes
<1>1. CASE Start(c)
  <2>1. /\ Become(c, Started) /\ UNCHANGED <<redis, api, smtp>>
        /\ con[c].hand = {} /\ con[c].tasks = {} /\ con[c].moving = {}
    BY <1>0, <1>1 DEF Start, Orderly
  <2>2. /\ Started.hand = {} /\ Started.tasks = {} /\ Started.moving = {} /\ Started.pc = "blpop"
    BY DEF Started, Down
  <2> QED
    BY <2>1, <2>2, QuietKeeps DEF Orderly
<1>2. CASE Sigterm(c) \/ HandleSigterm(c)
  <2>1. PICK r \in {[con[c] EXCEPT !.sigterm = TRUE], [con[c] EXCEPT !.running = FALSE]} :
          Become(c, r) /\ UNCHANGED <<redis, api, smtp>>
    BY <1>2 DEF Sigterm, HandleSigterm
  <2>2. /\ r.pc = con[c].pc /\ r.hand = con[c].hand /\ r.tasks = con[c].tasks
        /\ r.moving = con[c].moving /\ r.due = con[c].due
    BY <1>0 DEF Con
  <2> QED
    BY <1>0, <2>1, <2>2, QuietKeeps DEF Orderly
<1>3. CASE Crash(c) \/ Stop(c) \/ Exit(c)
  <2>1. Become(c, Down) /\ UNCHANGED <<redis, api, smtp>>
    BY <1>3 DEF Crash, Stop, Exit
  <2>2. Orderly(Down) /\ Ends(Down) /\ Down.tasks = {}
    BY DEF Down, Orderly, Ends
  <2> QED
    BY <2>1, <2>2, EndsKeeps
<1>4. CASE CancelPromoter(c)
  <2> DEFINE r == [Interrupted(c) EXCEPT !.pc = "wait"]
  <2>1. /\ Become(c, r) /\ UNCHANGED <<api, smtp>> /\ (UNCHANGED redis \/ Executed(c))
    BY <1>4 DEF CancelPromoter
  <2>2. r.pc = "wait" /\ r.tasks = con[c].tasks /\ r.moving = {}
    BY <1>0 DEF Con, Interrupted
  <2>3. Orderly(r) /\ Ends(r) /\ r.tasks \subseteq con[c].tasks
    BY <2>2 DEF Orderly, Ends
  <2> HIDE DEF r
  <2> QED
    BY <2>1, <2>3, EndsKeeps
<1>5. CASE StopWaiting(c)
  <2> DEFINE r == [con[c] EXCEPT !.tasks = {t \in @ : t.result = "none"}, !.up = FALSE, !.pc = "exit"]
  <2>1. Become(c, r) /\ UNCHANGED <<redis, api, smtp>>
    BY <1>5 DEF StopWaiting
  <2>2. /\ r.pc = "exit" /\ r.tasks = {t \in con[c].tasks : t.result = "none"}
        /\ r.moving = con[c].moving
    BY <1>0 DEF Con
  <2>3. Orderly(r) /\ Ends(r) /\ r.tasks \subseteq con[c].tasks
    BY <1>0, <2>2 DEF Orderly, Ends
  <2> HIDE DEF r
  <2> QED
    BY <2>1, <2>3, EndsKeeps
<1> QED
  BY <1>1, <1>2, <1>3, <1>4, <1>5 DEF ProcessStep

\* A command that is executed the first of two times loses what it takes, and
\* only that.
LEMMA ResendKeeps ==
  ASSUME HolderInv, TypeOK', NEW c \in Consumer, ResendStep(c)
  PROVE  HolderInv' /\ HolderLoses
<1>0. con[c] \in Con /\ Orderly(con[c]) /\ TypeOK
  BY HolderTypes
<1>1. ASSUME NEW n \in Msg, Resend(n), UNCHANGED <<con, api, dlq>>,
             \A m \in Msg : m \in Ids(Listed(pending) \cup retry)
               => \/ m \in Ids(Listed(pending') \cup retry')
                  \/ /\ m = n
                     /\ \/ m \in Ids(con[c].due)
                        \/ At(c, "blpop") /\ pending # <<>> /\ m = Head(pending).id
      PROVE  HolderInv' /\ HolderLoses
  <2>1. UNCHANGED mail /\ resent'[n] # resent[n]
    BY <1>0, <1>1 DEF Resend, TypeOK
  <2>2. HolderInv'
    BY <1>1, <2>1 DEF HolderInv, Orderly
  <2>3. ASSUME NEW m \in Msg, Kept(m), ~Kept(m)'
        PROVE  m \in Ids(Listed(pending) \cup retry) /\ m \notin Ids(Listed(pending') \cup retry')
    <3>1. \A d \in Consumer : Carried(d)' = Carried(d)
      BY <1>1 DEF Carried, Ids
    <3>2. /\ ~InPending(m)' /\ m \notin Ids(retry' \cup dlq)
          /\ InPending(m) \/ m \in Ids(retry \cup dlq)
      BY <1>1, <2>1, <2>3, <3>1 DEF Kept
    <3>3. InPending(m)' <=> m \in Ids(Listed(pending'))
      BY PendingWas
    <3>4. InPending(m) <=> m \in Ids(Listed(pending))
      BY PendingIs
    <3> QED
      BY <3>2, <3>3, <3>4 DEF Ids
  <2> QED
    BY <1>1, <2>1, <2>2, <2>3 DEF HolderLoses
<1>2. CASE PopAgain(c)
  <2>1. /\ At(c, "blpop") /\ pending # <<>> /\ pending' = Tail(pending)
        /\ Resend(Head(pending).id) /\ UNCHANGED <<retry, dlq, api, con>>
        /\ Head(pending).id \in Msg
    BY <1>0, <1>2, ListedPending DEF PopAgain, Copy
  <2>2. Listed(pending) = Listed(pending') \cup {Head(pending)}
    BY <1>0, <2>1, HeadTailListed
  <2>3. \A m \in Msg : m \in Ids(Listed(pending) \cup retry)
          => m \in Ids(Listed(pending') \cup retry') \/ m = Head(pending).id
    BY <2>1, <2>2 DEF Ids
  <2> QED
    BY <1>1, <2>1, <2>3
<1>3. ASSUME NEW x \in con[c].due, PromoteRemoveAgain(c, x) PROVE HolderInv' /\ HolderLoses
  <2>1. /\ x.id \in Msg /\ Resend(x.id) /\ UNCHANGED <<pending, dlq, api, con>>
        /\ retry' = retry \ {x} /\ x.id \in Ids(con[c].due)
    BY <1>0, <1>3 DEF PromoteRemoveAgain, Con, Copy, Ids
  <2>2. \A m \in Msg : m \in Ids(Listed(pending) \cup retry)
          => m \in Ids(Listed(pending') \cup retry') \/ m = x.id
    BY <2>1 DEF Ids
  <2> QED
    BY <1>1, <2>1, <2>2
<1>4. ASSUME NEW x \in con[c].moving, PromotePushAgain(c, x) PROVE HolderInv' /\ HolderLoses
  <2>1. /\ x \in Copy /\ x.id \in Msg /\ Resend(x.id) /\ UNCHANGED <<retry, dlq, api, con>>
        /\ pending' = Append(pending, x)
    BY <1>0, <1>4 DEF PromotePushAgain, Con, Copy
  <2>2. Listed(pending') = Listed(pending) \cup {x}
    BY <1>0, <2>1, ListedPending
  <2>3. \A m \in Msg : m \in Ids(Listed(pending) \cup retry)
          => m \in Ids(Listed(pending') \cup retry')
    BY <2>1, <2>2 DEF Ids
  <2> QED
    BY <1>1, <2>1, <2>3
<1>5. CASE PostponeAgain(c)
  <2> DEFINE r == [con[c] EXCEPT !.pc = "postpone"]
  <2>1. /\ Become(c, r) /\ UNCHANGED <<pending, dlq, api, mail>>
        /\ retry' = retry \cup con[c].hand /\ con[c].pc = "check"
    BY <1>0, <1>5, ResendType DEF PostponeAgain, PutBack, Resend
  <2>2. /\ r.pc = "postpone" /\ r.hand = con[c].hand /\ r.tasks = con[c].tasks
        /\ r.moving = con[c].moving
    BY <1>0 DEF Con
  <2>3. Orderly(r) /\ Carries(r) = Carries(con[c])
    BY <1>0, <2>2 DEF Orderly, Carries
  <2> HIDE DEF r
  <2>4. \A m \in Msg : m \in Ids(Listed(pending) \cup retry \cup dlq)
          => m \in Ids(Listed(pending') \cup retry' \cup dlq')
    BY <2>1 DEF Ids
  <2> QED
    BY <2>1, <2>2, <2>3, <2>4, ConsumerKeeps, HolderTypes
<1>6. ASSUME NEW t \in con[c].tasks, RetryAgain(c, t) PROVE HolderInv' /\ HolderLoses
  <2> DEFINE u == [t EXCEPT !.result = "again"]
             r == [con[c] EXCEPT !.tasks = (@ \ {t}) \cup {u}]
  <2>1. /\ Become(c, r) /\ UNCHANGED <<pending, dlq, api, mail>>
        /\ retry \subseteq retry'
    BY <1>6 DEF RetryAgain, Schedule, Resend
  <2>2. u.result = "again" /\ u.msg = t.msg
    BY HolderTypes DEF Task
  <2>3. /\ r.pc = con[c].pc /\ r.hand = con[c].hand /\ r.moving = con[c].moving
        /\ r.due = con[c].due /\ r.tasks = (con[c].tasks \ {t}) \cup {u}
    BY <1>0 DEF Con
  <2>4. Orderly(r)
    BY <1>0, <2>3 DEF Orderly
  <2> HIDE DEF r, u
  <2>5. Carries(con[c]) \subseteq Carries(r)
    BY <2>2, <2>3 DEF Carries
  <2>6. \A v \in r.tasks : v.result = "ok" => mail'[v.msg.id] > 0
    BY <2>1, <2>2, <2>3, HolderTypes
  <2>7. \A m \in Msg : m \in Ids(Listed(pending) \cup retry \cup dlq)
          => m \in Ids(Listed(pending') \cup retry' \cup dlq')
    BY <2>1 DEF Ids
  <2> QED
    BY <2>1, <2>4, <2>5, <2>6, <2>7, ConsumerKeeps
<1> QED
  BY <1>2, <1>3, <1>4, <1>5, <1>6 DEF ResendStep

\* The API's steps take nothing away.
LEMMA ApiKeeps ==
  ASSUME HolderInv, TypeOK', (\E m \in Msg : ApiStep(m) \/ EnqueueAgain(m)) \/ ApiCrash \/ ApiReconnect
  PROVE  HolderInv' /\ HolderLoses
<1>0. /\ TypeOK /\ api \in Api /\ mail \in [Msg -> Nat]
      /\ \A m \in Msg : /\ m \in api.calls \cup api.again => api.stage[m] # "queued"
                        /\ api.stage[m] = "sent" => mail[m] > 0
  BY DEF HolderInv, TypeOK
<1>1. ASSUME UNCHANGED <<con, retry, dlq>>,
             \A n \in Msg : n \in Ids(Listed(pending)) => n \in Ids(Listed(pending')),
             \A n \in Msg :
               /\ mail[n] > 0 => mail'[n] > 0
               /\ n \in api'.calls \cup api'.again => api'.stage[n] # "queued"
               /\ api'.stage[n] = "sent" => mail'[n] > 0
               /\ api.stage[n] \in {"new", "waiting", "fallback", "failed", "lost"} \/ n \in api.calls \cup api.again
                    => \/ api'.stage[n] \in {"new", "waiting", "fallback", "failed", "lost"}
                       \/ n \in api'.calls \cup api'.again \/ n \in Ids(Listed(pending')) \/ mail'[n] > 0
      PROVE  HolderInv' /\ HolderLoses
  <2>1. HolderInv'
    <3>1. \A c \in Consumer : \A t \in con[c].tasks : t.msg.id \in Msg
      BY HolderTypes
    <3> QED
      BY <1>1, <3>1 DEF HolderInv, Orderly
  <2>2. ASSUME NEW m \in Msg, Kept(m) PROVE Kept(m)'
    <3>1. \A c \in Consumer : Carried(c)' = Carried(c)
      BY <1>1 DEF Carried, Ids
    <3>2. Ids(retry \cup dlq)' = Ids(retry \cup dlq)
      BY <1>1 DEF Ids
    <3> QED
      BY <1>1, <2>2, <3>1, <3>2, PendingIs, PendingWas DEF Kept
  <2> QED
    BY <2>1, <2>2 DEF HolderLoses
<1>2. ASSUME NEW m \in Msg, ApiStep(m) \/ EnqueueAgain(m) PROVE HolderInv' /\ HolderLoses
  <2>1. UNCHANGED <<con, retry, dlq>>
    BY <1>2 DEF ApiStep, Submit, Enqueue, EnqueueFails, EnqueueTimeout, SendSync, EnqueueAgain, redis
  <2>2. \/ UNCHANGED pending
        \/ /\ Listed(pending') = Listed(pending) \cup {[id |-> m, attempt |-> 1]}
           /\ m \in Ids(Listed(pending'))
    <3>1. UNCHANGED pending \/ Push(m)
      BY <1>2 DEF ApiStep, Submit, Enqueue, EnqueueFails, EnqueueTimeout, SendSync, EnqueueAgain, redis
    <3> DEFINE x == [id |-> m, attempt |-> 1]
    <3>2. x \in Copy /\ x.id = m
      BY FirstCopy
    <3>3. Push(m) => Listed(pending') = Listed(pending) \cup {x}
      BY <1>0, <3>2, ListedPending DEF Push
    <3> HIDE DEF x
    <3>4. Push(m) => m \in Ids(Listed(pending'))
      BY <3>2, <3>3 DEF Ids
    <3> QED
      BY <3>1, <3>3, <3>4 DEF x
  <2>3. \A n \in Msg : n \in Ids(Listed(pending)) => n \in Ids(Listed(pending'))
    BY <2>2 DEF Ids
  <2>4. CASE Submit(m)
    BY <1>0, <1>1, <2>1, <2>3, <2>4 DEF Submit, smtp, Api
  <2>5. CASE Enqueue(m)
    <3>1. m \in Ids(Listed(pending'))
      <4>1. Push(m)
        BY <2>5 DEF Enqueue
      <4>2. pending' # pending
        BY <1>0, <4>1, FirstCopy DEF Push, TypeOK
      <4> QED
        BY <2>2, <4>2
    <3> QED
      BY <1>0, <1>1, <2>1, <2>3, <2>5, <3>1 DEF Enqueue, Pushing, smtp, Api, Answer
  <2>6. CASE EnqueueFails(m)
    BY <1>0, <1>1, <2>1, <2>3, <2>6 DEF EnqueueFails, Pushing, smtp, Api, Answer, Stage
  <2>7. CASE EnqueueTimeout(m)
    BY <1>0, <1>1, <2>1, <2>3, <2>7 DEF EnqueueTimeout, smtp, Api
  <2>8. CASE SendSync(m)
    BY <1>0, <1>1, <2>1, <2>3, <2>8 DEF SendSync, Api
  <2>9. CASE EnqueueAgain(m)
    <3>1. /\ UNCHANGED mail /\ api'.stage = api.stage
          /\ api'.calls = api.calls \ {m} /\ api'.again = api.again \cup {m} /\ m \in api.calls
      BY <1>0, <2>9, ResendType DEF EnqueueAgain, Api
    <3> QED
      BY <1>0, <1>1, <2>1, <2>3, <3>1
  <2> QED
    BY <1>2, <2>4, <2>5, <2>6, <2>7, <2>8, <2>9 DEF ApiStep
<1>3. CASE ApiCrash
  BY <1>0, <1>1, <1>3 DEF ApiCrash, Api, redis, smtp, Stage
<1>4. CASE ApiReconnect
  BY <1>0, <1>1, <1>4 DEF ApiReconnect, Api, redis, smtp
<1> QED
  BY <1>2, <1>3, <1>4

\* Nobody but a consumer that has a notification, or is just popping it, can
\* make it vanish, and only by dying, by stopping, by losing Redis or with a
\* command of its own that the client sends twice: whatever answers are late or
\* lost and however the API and the other consumers fail.
THEOREM OnlyHolderLosesCorrect == Spec => OnlyHolderLoses
<1>1. Init => HolderInv
  <2> SUFFICES ASSUME Init PROVE HolderInv
    OBVIOUS
  <2>1. TypeOK
    BY InitTypeOK
  <2>2. \A m \in Msg : m \notin api.calls \cup api.again /\ api.stage[m] = "new"
    BY DEF Init
  <2>3. \A c \in Consumer : con[c].hand = {} /\ con[c].tasks = {} /\ con[c].moving = {} /\ con[c].pc = "blpop"
    BY DEF Init, Started, Down
  <2> QED
    BY <2>1, <2>2, <2>3 DEF HolderInv, Orderly
<1>2. HolderInv /\ [Next]_vars => HolderInv' /\ [HolderLoses]_vars
  <2> SUFFICES ASSUME HolderInv, Next \/ UNCHANGED vars PROVE HolderInv' /\ (HolderLoses \/ UNCHANGED vars)
    OBVIOUS
  <2>1. CASE UNCHANGED vars
    <3>1. UNCHANGED <<pending, retry, dlq, api, con, mail, tries, resent>>
      BY <2>1 DEF vars, redis, smtp
    <3> QED
      BY <2>1, <3>1 DEF HolderInv, TypeOK, Orderly
  <2>2. CASE Next
    <3>1. TypeOK'
      BY <2>2, NextTypeOK DEF HolderInv
    <3> QED
      BY <2>2, <3>1, ApiKeeps, LoopKeeps, TaskKeeps, PromoterKeeps, ProcessKeeps, ResendKeeps DEF Next, TaskStep
  <2> QED
    BY <2>1, <2>2
<1> QED
  BY <1>1, <1>2, PTL DEF Spec, OnlyHolderLoses, HolderLoses

=============================================================================
