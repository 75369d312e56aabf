--------------------------- MODULE PlatformProofs ---------------------------
(***************************************************************************)
(* Proofs about the components of the platform for every value of their    *)
(* constants: the retries of database statements, the payments, and the    *)
(* tokens of a browser.                                                    *)
(***************************************************************************)
EXTENDS PlatformMC, TLAPS

-----------------------------------------------------------------------------
(***************************************************************************)
(* Database statements.  A write is applied at most once, for every number *)
(* of retries and every assignment of statements to kinds of writes.       *)
(***************************************************************************)

Size == Len(Statement[op.kind])

\* The commit is the last statement, and only the last.
LEMMA ShapeFacts ==
  ASSUME NEW k \in DOMAIN Statement
  PROVE  /\ Len(Statement[k]) \in 2 .. 3
         /\ Statement[k][Len(Statement[k])] = "commit"
         /\ \A i \in 1 .. Len(Statement[k]) - 1 : Statement[k][i] # "commit"
         /\ Statement[k][2] # "add" /\ Statement[k][2] # "query"
<1>1. Statement[k] \in Shape
  BY RetryAssumption
<1>2. CASE Statement[k] = <<"add", "flush", "commit">>
  BY <1>2
<1>3. CASE Statement[k] = <<"query", "commit">>
  BY <1>3
<1> QED
  BY <1>1, <1>2, <1>3 DEF Shape

\* The fields of an operation that is running.
LEMMA Fields ==
  ASSUME op \in Operation
  PROVE  /\ op = [kind |-> op.kind, at |-> op.at, cur |-> op.cur, bound |-> op.bound,
                  holder |-> op.holder, inner |-> op.inner, outer |-> op.outer,
                  answer |-> op.answer]
         /\ op.kind \in DOMAIN Statement /\ op.at \in 1 .. 4
         /\ op.cur \in Nat \ {0} /\ op.bound \in Nat \ {0} /\ op.holder \in Nat
         /\ op.inner \in 0 .. Retries - 1 /\ op.outer \in 0 .. Retries - 1
         /\ op.answer \in {"none", "ok", "error"}
BY DEF Operation

\* Once the write is applied, no session holds it and only the commit is left
\* to be repeated; and a commit that is repeated has nothing to commit.
DbInv ==
  /\ DbTypeOK
  /\ Running => op.at <= Size
  /\ rows <= 1
  /\ rows = 1 /\ Running => op.at = Size /\ op.holder = NoWrite
  /\ Running /\ op.at = Size /\ op.inner > 0 => op.holder = NoWrite

LEMMA DbInitInv == DbInit => DbInv
<1> SUFFICES ASSUME DbInit PROVE DbInv
  OBVIOUS
<1>1. /\ op.kind \in DOMAIN Statement /\ op.at = 1 /\ op.cur = 1 /\ op.bound = 1
      /\ op.holder = NoWrite /\ op.inner = 0 /\ op.outer = 0 /\ op.answer = "none"
      /\ op \in Operation
  BY RetryAssumption DEF DbInit, Operation, NoWrite
<1>2. Size \in 2 .. 3
  BY <1>1, ShapeFacts DEF Size
<1> QED
  BY <1>1, <1>2 DEF DbInit, DbInv, DbTypeOK, Running

\* What a statement that is done leaves of the record r.
LEMMA ExecutedInv ==
  ASSUME DbInv, Running, NEW h \in Nat,
         Executed([op EXCEPT !.holder = h]),
         rows' \in Nat, rows' <= 1,
         rows' = 1 => op.at = Size
  PROVE  DbInv'
<1> DEFINE r == [op EXCEPT !.holder = h]
<1>1. op \in Operation /\ op.kind \in DOMAIN Statement
  BY DEF DbInv, DbTypeOK, Operation
<1>2. Size \in 2 .. 3 /\ op.at \in 1 .. Size
  BY <1>1, ShapeFacts DEF DbInv, Size, Operation
<1>i. op' = [kind |-> op.kind, at |-> op.at + 1, cur |-> op.cur, bound |-> op.bound,
             holder |-> h, inner |-> 0, outer |-> op.outer,
             answer |-> IF op.at = Size THEN "ok" ELSE "none"]
  BY <1>1, Fields DEF Executed, Size
<1>j. op.at + 1 \in 1 .. 4 /\ 0 \in 0 .. Retries - 1
  BY <1>2, RetryAssumption
<1>3. /\ op'.kind = op.kind /\ op'.at = op.at + 1 /\ op'.inner = 0
      /\ op'.answer = IF op.at = Size THEN "ok" ELSE "none"
      /\ op' \in Operation
  BY <1>1, <1>i, <1>j, Fields DEF Operation
<1>4. Size' = Size
  BY <1>3 DEF Size
<1> QED
  BY <1>2, <1>3, <1>4 DEF DbInv, DbTypeOK, Running

\* What a broken connection leaves, when the write is not applied or nothing
\* but the first commit is being executed.
LEMMA BrokenInv ==
  ASSUME DbInv, Running, Broken,
         rows' \in Nat, rows' <= 1,
         rows' = 1 => op.at = Size /\ op.inner = 0
  PROVE  DbInv'
<1>1. op \in Operation /\ op.kind \in DOMAIN Statement
  BY DEF DbInv, DbTypeOK, Operation
<1>2. Size \in 2 .. 3 /\ op.at \in 1 .. Size /\ op.inner \in 0 .. Retries - 1
      /\ op.outer \in 0 .. Retries - 1
  BY <1>1, ShapeFacts DEF DbInv, Size, Operation
<1>3. CASE op.inner + 1 < Retries
  <2>i. op' = [kind |-> op.kind, at |-> op.at, cur |-> op.cur + 1, bound |-> op.bound,
               holder |-> NoWrite, inner |-> op.inner + 1, outer |-> op.outer,
               answer |-> op.answer]
    BY <1>1, <1>3, Fields DEF Broken
  <2>j. op.cur + 1 \in Nat \ {0} /\ op.inner + 1 \in 0 .. Retries - 1 /\ NoWrite \in Nat
    BY <1>1, <1>3, Fields, RetryAssumption DEF NoWrite
  <2>1. /\ op'.kind = op.kind /\ op'.at = op.at /\ op'.holder = NoWrite
        /\ op'.answer = op.answer /\ op' \in Operation
    BY <1>1, <2>i, <2>j, Fields DEF Operation
  <2>2. Size' = Size
    BY <2>1 DEF Size
  <2> QED
    BY <1>2, <2>1, <2>2 DEF DbInv, DbTypeOK, Running
<1>4. CASE ~(op.inner + 1 < Retries) /\ op.kind \in Guarded /\ op.outer + 1 < Retries
  <2>i. op' = [kind |-> op.kind, at |-> 1, cur |-> op.cur + 1, bound |-> op.cur + 1,
               holder |-> NoWrite, inner |-> 0, outer |-> op.outer + 1,
               answer |-> op.answer]
    BY <1>1, <1>2, <1>4, Fields, RetryAssumption DEF Broken
  <2>j. /\ op.cur + 1 \in Nat \ {0} /\ op.outer + 1 \in 0 .. Retries - 1
        /\ 0 \in 0 .. Retries - 1 /\ NoWrite \in Nat /\ 1 \in 1 .. 4
    BY <1>1, <1>4, Fields, RetryAssumption DEF NoWrite
  <2>1. /\ op'.kind = op.kind /\ op'.at = 1 /\ op'.holder = NoWrite
        /\ op'.answer = op.answer /\ op' \in Operation
    BY <1>1, <2>i, <2>j, Fields DEF Operation
  <2>2. Size' = Size
    BY <2>1 DEF Size
  \* With a second try of the whole there is a second try of the statement.
  <2>3. rows' # 1
    BY <1>2, <1>4, RetryAssumption
  <2> QED
    BY <1>2, <2>1, <2>2, <2>3 DEF DbInv, DbTypeOK, Running
<1>5. CASE ~(op.inner + 1 < Retries) /\ ~(op.kind \in Guarded /\ op.outer + 1 < Retries)
  <2>i. op' = [kind |-> op.kind, at |-> op.at, cur |-> op.cur, bound |-> op.bound,
               holder |-> NoWrite, inner |-> op.inner, outer |-> op.outer,
               answer |-> "error"]
    BY <1>1, <1>2, <1>5, Fields, RetryAssumption DEF Broken
  <2>1. op'.answer = "error" /\ op' \in Operation
    BY <1>1, <2>i, Fields DEF Operation, NoWrite
  <2> QED
    BY <2>1 DEF DbInv, DbTypeOK, Running
<1> QED
  BY <1>2, <1>3, <1>4, <1>5, RetryAssumption

LEMMA DbStepInv == DbInv /\ [DbNext]_dbVars => DbInv'
<1> SUFFICES ASSUME DbInv, [DbNext]_dbVars PROVE DbInv'
  OBVIOUS
<1>1. /\ op \in Operation /\ op.kind \in DOMAIN Statement /\ rows \in Nat /\ rows <= 1
      /\ op.cur \in Nat \ {0} /\ op.bound \in Nat \ {0} /\ op.holder \in Nat
  BY DEF DbInv, DbTypeOK, Operation
<1>2. Running => op.at \in 1 .. Size /\ Size \in 2 .. 3 /\ op.inner \in 0 .. Retries - 1
  BY <1>1, ShapeFacts DEF DbInv, Size, Operation
<1>3. Running /\ Now # "commit" => op.at # Size
  BY <1>1, ShapeFacts DEF Now, Size
<1>4. Running /\ Now = "commit" => op.at = Size
  BY <1>1, <1>2, ShapeFacts DEF Now, Size
<1>5. [op EXCEPT !.holder = op.holder] = op
  BY <1>1 DEF Operation
<1>6. CASE Add
  BY <1>1, <1>3, <1>6, ExecutedInv DEF Add, DbInv
<1>7. CASE Query
  BY <1>1, <1>3, <1>7, ExecutedInv DEF Query, DbInv
<1>8. CASE Flush
  BY <1>1, <1>3, <1>5, <1>8, ExecutedInv DEF Flush, DbInv
<1>9. CASE Commit
  <2>1. rows' \in Nat /\ rows' <= 1
    BY <1>1, <1>9 DEF Commit, Committed, DbInv, NoWrite
  <2> QED
    BY <1>4, <1>9, <2>1, ExecutedInv DEF Commit, NoWrite
<1>10. CASE Breaks
  <2>1. rows = 1 => op.at = Size /\ op.holder = NoWrite
    BY <1>10 DEF Breaks, DbInv
  <2>2. rows # 1
    <3>1. ASSUME rows = 1 PROVE FALSE
      <4>1. Now = "commit"
        BY <1>1, <2>1, <3>1, ShapeFacts DEF Now, Size
      <4> QED
        BY <1>1, <1>10, <2>1, <3>1, <4>1 DEF Breaks, Connects, NoWrite
    <3> QED
      BY <3>1
  <2> QED
    BY <1>1, <1>10, <2>2, BrokenInv DEF Breaks
<1>11. CASE AnswerLost
  <2>1. Running /\ op.holder = op.cur /\ op.at = Size
    BY <1>4, <1>11 DEF AnswerLost, Connects
  <2>2. rows = 0 /\ op.inner = 0
    BY <1>1, <1>2, <2>1 DEF DbInv, NoWrite
  <2>3. rows' = 1
    BY <1>11, <2>1, <2>2 DEF AnswerLost, Committed
  <2> QED
    BY <1>11, <2>1, <2>2, <2>3, BrokenInv DEF AnswerLost
<1>12. CASE UNCHANGED dbVars
  BY <1>12 DEF dbVars, DbInv, DbTypeOK, Running, Size
<1> QED
  BY <1>6, <1>7, <1>8, <1>9, <1>10, <1>11, <1>12 DEF DbNext

\* Whatever the number of retries, a write of an adapter is applied at most
\* once: after the commit that applies it, only that commit is repeated.
THEOREM NeverTwiceCorrect == DbSpec => []NeverTwice
<1>1. DbInv => NeverTwice
  BY DEF DbInv, NeverTwice
<1> QED
  BY DbInitInv, DbStepInv, <1>1, PTL DEF DbSpec

\* The retries stay within their bounds in every reachable state.
THEOREM DbTypeCorrect == DbSpec => []DbTypeOK
<1>1. DbInv => DbTypeOK
  BY DEF DbInv
<1> QED
  BY DbInitInv, DbStepInv, <1>1, PTL DEF DbSpec

-----------------------------------------------------------------------------
(***************************************************************************)
(* Payments.  For every number of transactions, API processes and requests *)
(* cut off and writes that are answered but not made: a transaction whose  *)
(* requests do not overlap stays completed and, if its mark was made, is   *)
(* credited at most once, and a paid invoice has its credits if they were  *)
(* given.                                                                  *)
(***************************************************************************)

\* The request of a works on t.
On(a, t) == request[a] # Idle /\ request[a].tx = t

\* Credits are given by a request that has found none and has marked the
\* transaction completed.
Counted(t) ==
  /\ ledger[t] <= 1
  /\ ledger[t] > 0 => status[t] = "COMPLETED"
  /\ \A a \in Api : On(a, t) /\ request[a].pc = "credit" => status[t] = "COMPLETED" /\ ledger[t] = 0

\* One request at a time works on the transaction.  Until it marks the
\* transaction completed it is not.
Sound(t) ==
  /\ \A a, b \in Api : On(a, t) /\ On(b, t) => a = b
  /\ \A a \in Api : On(a, t) /\ request[a].pc \in {"gateway", "complete", "fail", "cancel"}
                      => status[t] # "COMPLETED"
  /\ <<t, "completed">> \notin lost => Counted(t)

PaymentInv == \A t \in Tx \ overlap : Sound(t)

\* A request writes the invoice after the credits.
InvoiceInv ==
  /\ PaidIsCredited
  /\ \A a \in Api : request[a].pc = "invoice" =>
       ledger[request[a].tx] > 0 \/ <<request[a].tx, "credits">> \in lost

-----------------------------------------------------------------------------
(* Types *)

LEMMA RequestKinds ==
  ASSUME NEW r \in Request, r # Idle
  PROVE  /\ r.tx \in Tx
         /\ r.pc \in {"gateway", "complete", "credit", "invoice", "fail", "cancel"}
         /\ r.by \in {"buyer", "admin", "approved", "success", "failure"}
         /\ r = [pc |-> r.pc, tx |-> r.tx, by |-> r.by]
BY DEF Request

\* The request of a process that is at a step.
LEMMA BusyRequest ==
  ASSUME PayTypeOK, NEW a \in Api, request[a].pc # "idle"
  PROVE  request[a] # Idle /\ request[a].tx \in Tx
BY RequestKinds DEF PayTypeOK, Idle

\* A request goes on or ends.
LEMMA GoesOn ==
  ASSUME PayTypeOK, NEW a \in Api, request[a].pc # "idle",
         \/ End(a)
         \/ \E pc \in {"gateway", "complete", "credit", "invoice", "fail", "cancel"} : Goto(a, pc)
  PROVE  /\ request' \in [Api -> Request]
         /\ \A b \in Api \ {a} : request'[b] = request[b]
         /\ \/ End(a) /\ request'[a] = Idle
            \/ request'[a] # Idle /\ request'[a].tx = request[a].tx
<1>1. request \in [Api -> Request] /\ Idle \in Request
  BY DEF PayTypeOK, Request
<1>2. CASE End(a)
  BY <1>1, <1>2 DEF End
<1>3. ASSUME NEW pc \in {"gateway", "complete", "credit", "invoice", "fail", "cancel"}, Goto(a, pc)
      PROVE  /\ request' \in [Api -> Request]
             /\ \A b \in Api \ {a} : request'[b] = request[b]
             /\ request'[a] # Idle /\ request'[a].tx = request[a].tx
  <2> DEFINE r == [pc |-> pc, tx |-> request[a].tx, by |-> request[a].by]
  <2>1. request[a] # Idle /\ request[a] \in Request
    BY <1>1, BusyRequest
  <2>2. r \in Request /\ r # Idle
    BY <2>1, RequestKinds DEF Request, Idle
  <2>3. [request[a] EXCEPT !.pc = pc] = r
    BY <2>1, RequestKinds
  <2>4. request' = [request EXCEPT ![a] = [request[a] EXCEPT !.pc = pc]]
    BY <1>3 DEF Goto
  <2> QED
    BY <1>1, <2>2, <2>3, <2>4
<1> QED
  BY <1>2, <1>3

\* The step a request goes to.
LEMMA GoesTo ==
  ASSUME PayTypeOK, NEW a \in Api, request[a].pc # "idle",
         NEW pc \in {"gateway", "complete", "credit", "invoice", "fail", "cancel"}, Goto(a, pc)
  PROVE  /\ request'[a].pc = pc /\ request'[a].tx = request[a].tx
         /\ \A b \in Api \ {a} : request'[b] = request[b]
<1>1. request[a] = [pc |-> request[a].pc, tx |-> request[a].tx, by |-> request[a].by]
  BY BusyRequest, RequestKinds DEF PayTypeOK
<1>2. [request[a] EXCEPT !.pc = pc] = [pc |-> pc, tx |-> request[a].tx, by |-> request[a].by]
  BY <1>1
<1>3. request' = [request EXCEPT ![a] = [request[a] EXCEPT !.pc = pc]]
  BY DEF Goto
<1> QED
  BY <1>2, <1>3 DEF PayTypeOK

\* A request begins.
LEMMA Begins ==
  ASSUME PayTypeOK, NEW a \in Api, NEW t \in Tx,
         NEW pc \in {"gateway", "complete", "fail"},
         NEW by \in {"buyer", "admin", "approved", "success", "failure"}, Enter(a, t, pc, by)
  PROVE  /\ request' \in [Api -> Request] /\ overlap' \in SUBSET Tx
         /\ request'[a] # Idle /\ request'[a].tx = t /\ request'[a].pc = pc
         /\ \A b \in Api \ {a} : request'[b] = request[b]
         /\ t \notin overlap' => \A b \in Api : ~On(b, t)
         /\ overlap \subseteq overlap' /\ overlap' \subseteq overlap \cup {t}
<1>1. [pc |-> pc, tx |-> t, by |-> by] \in Request /\ [pc |-> pc, tx |-> t, by |-> by] # Idle
  BY DEF Request, Idle
<1> QED
  BY <1>1 DEF Enter, Working, On, PayTypeOK

LEMMA PayInitTypes == PayInit => PayTypeOK
<1> SUFFICES ASSUME PayInit PROVE PayTypeOK
  OBVIOUS
<1>1. \A t \in Tx : kind[t] \in Kind
  BY DEF PayInit
<1>2. status \in [Tx -> {"AWAITING_PAYMENT", "PENDING", "COMPLETED", "FAILED"}]
  BY DEF PayInit
<1>3. invoice \in [Tx -> {"none", "pending", "paid", "cancelled"}]
  BY DEF PayInit
<1>4. request \in [Api -> Request]
  BY DEF PayInit, Request
<1> QED
  BY <1>2, <1>3, <1>4, PaymentAssumption DEF PayInit, PayTypeOK

LEMMA PayStepTypes == PayTypeOK /\ [PayNext]_payVars => PayTypeOK'
<1> SUFFICES ASSUME PayTypeOK, [PayNext]_payVars PROVE PayTypeOK'
  OBVIOUS
<1> DEFINE Pcs == {"gateway", "complete", "credit", "invoice", "fail", "cancel"}
<1>0. \A a \in Api : request[a] \in Request
  BY DEF PayTypeOK
<1>1. ASSUME NEW t \in Tx, PayPalApproved(t) PROVE PayTypeOK'
  <2>1. [tx |-> t, says |-> "approved"] \in PayEvent
    BY DEF PayEvent
  <2> QED
    BY <1>1, <2>1 DEF PayPalApproved, Ours, PayTypeOK
<1>2. ASSUME NEW t \in Tx, StripePays(t) PROVE PayTypeOK'
  <2>1. [tx |-> t, says |-> "success"] \in PayEvent /\ [tx |-> t, says |-> "failure"] \in PayEvent
    BY DEF PayEvent
  <2> QED
    BY <1>2, <2>1 DEF StripePays, Ours, PayTypeOK
<1>3. ASSUME NEW a \in Api, Gateway(a) PROVE PayTypeOK'
  <2>1. request[a].pc # "idle" /\ request[a].tx \in Tx
    BY <1>3, BusyRequest DEF Gateway, At
  <2>2. [tx |-> request[a].tx, says |-> "success"] \in PayEvent
    BY <2>1 DEF PayEvent
  <2>3. request' \in [Api -> Request]
    <3>1. End(a) \/ \E pc \in Pcs : Goto(a, pc)
      BY <1>3 DEF Gateway, CutOff
    <3> QED
      BY <2>1, <3>1, GoesOn
  <2>4. mishap' \in 0 .. Mishaps
    BY <1>3, PaymentAssumption DEF Gateway, CutOff, Mishap, PayTypeOK
  <2> QED
    BY <1>3, <2>1, <2>2, <2>3, <2>4 DEF Gateway, PayTypeOK
<1>a. Mishap => mishap' \in 0 .. Mishaps
  BY PaymentAssumption DEF Mishap, PayTypeOK
<1>b. ASSUME NEW a \in Api, request[a].pc # "idle", NEW what \in {"completed", "credits"},
             Made \/ OnlyAnswered(a, what)
      PROVE  mishap' \in 0 .. Mishaps /\ lost' \in SUBSET (Tx \X {"completed", "credits"})
  BY <1>a, <1>b, BusyRequest DEF Made, OnlyAnswered, PayTypeOK
<1>4. ASSUME NEW a \in Api, Complete(a) PROVE PayTypeOK'
  <2>1. /\ request[a].pc # "idle" /\ request[a].tx \in Tx
        /\ Goto(a, "credit") /\ (Made \/ OnlyAnswered(a, "completed"))
    BY <1>4, BusyRequest DEF Complete, At
  <2>2. mishap' \in 0 .. Mishaps /\ lost' \in SUBSET (Tx \X {"completed", "credits"})
    BY <1>b, <2>1
  <2>3. request' \in [Api -> Request]
    BY <2>1, GoesOn
  <2> QED
    BY <1>4, <2>1, <2>2, <2>3 DEF Complete, PayTypeOK
<1>5. ASSUME NEW a \in Api, Credit(a) PROVE PayTypeOK'
  <2>1. /\ request[a].pc # "idle" /\ request[a].tx \in Tx
        /\ Goto(a, "invoice") /\ (Made \/ OnlyAnswered(a, "credits"))
    BY <1>5, BusyRequest DEF Credit, At
  <2>2. mishap' \in 0 .. Mishaps /\ lost' \in SUBSET (Tx \X {"completed", "credits"})
    BY <1>b, <2>1
  <2>3. request' \in [Api -> Request]
    BY <2>1, GoesOn
  <2> QED
    BY <1>5, <2>1, <2>2, <2>3 DEF Credit, PayTypeOK
<1>6. ASSUME NEW a \in Api, WriteInvoice(a) PROVE PayTypeOK'
  BY <1>6, <1>a, GoesOn, BusyRequest DEF WriteInvoice, Answered, At, PayTypeOK
<1>7. ASSUME NEW a \in Api, Fail(a) PROVE PayTypeOK'
  BY <1>7, <1>a, GoesOn, BusyRequest DEF Fail, Answered, At, PayTypeOK
<1>8. ASSUME NEW a \in Api, CancelInvoice(a) PROVE PayTypeOK'
  BY <1>8, <1>a, GoesOn, BusyRequest DEF CancelInvoice, At, PayTypeOK
<1>9. ASSUME NEW a \in Api, Dies(a) PROVE PayTypeOK'
  <2>1. request[a].pc # "idle" /\ request[a].tx \in Tx
    BY <1>0, <1>9, RequestKinds DEF Dies, Free
  <2>2. mishap' \in 0 .. Mishaps
    BY <1>9, PaymentAssumption DEF Dies, CutOff, Mishap, PayTypeOK
  <2> QED
    BY <1>9, <2>1, <2>2, GoesOn DEF Dies, CutOff, PayTypeOK
<1>10. ASSUME NEW a \in Api, NEW t \in Tx, BeginCapture(a, t) PROVE PayTypeOK'
  BY <1>10, Begins DEF BeginCapture, PayTypeOK
<1>11. ASSUME NEW a \in Api, NEW t \in Tx, BeginVerify(a, t) PROVE PayTypeOK'
  BY <1>11, Begins DEF BeginVerify, PayTypeOK
<1>12. ASSUME NEW a \in Api, NEW e \in events, BeginWebhook(a, e) PROVE PayTypeOK'
  <2>1. e \in PayEvent
    BY DEF PayTypeOK
  <2>2. e.tx \in Tx /\ e.says \in {"approved", "success", "failure"}
    BY <2>1 DEF PayEvent
  <2>3. CASE Done(e.tx)
    BY <1>12, <2>3 DEF BeginWebhook, PayTypeOK
  <2>4. CASE ~Done(e.tx)
    BY <1>12, <2>2, <2>4, Begins DEF BeginWebhook, PayTypeOK
  <2> QED
    BY <2>3, <2>4
<1>13. CASE UNCHANGED payVars
  BY <1>13 DEF payVars, PayTypeOK
<1> QED
  BY <1>1, <1>2, <1>3, <1>4, <1>5, <1>6, <1>7, <1>8, <1>9, <1>10, <1>11, <1>12, <1>13
  DEF PayNext, PayStep

\* The variables have their types.
THEOREM PayTypeCorrect == PaySpec => []PayTypeOK
BY PayInitTypes, PayStepTypes, PTL DEF PaySpec

-----------------------------------------------------------------------------
(* One payment *)

\* What a step for another transaction, or none, leaves as it is.
LEMMA OtherPayment ==
  ASSUME NEW t \in Tx, Sound(t), ledger'[t] = ledger[t], status'[t] = status[t],
         lost \subseteq lost',
         \A a \in Api : On(a, t)' => On(a, t) /\ request'[a] = request[a]
  PROVE  Sound(t)'
BY DEF Sound, Counted

\* A request for another transaction that goes on, or that ends.
LEMMA GoesOnElsewhere ==
  ASSUME PayTypeOK, NEW a \in Api, request[a].pc # "idle", NEW t \in Tx, Sound(t),
         \/ End(a)
         \/ /\ request[a].tx # t
            /\ \E pc \in {"gateway", "complete", "credit", "invoice", "fail", "cancel"} : Goto(a, pc),
         ledger'[t] = ledger[t], status'[t] = status[t], lost \subseteq lost'
  PROVE  Sound(t)'
<1>1. \A b \in Api : On(b, t)' => On(b, t) /\ request'[b] = request[b]
  BY GoesOn DEF On, PayTypeOK, End
<1> QED
  BY <1>1, OtherPayment

\* The request for the transaction goes on: it is the only one.
LEMMA GoesOnHere ==
  ASSUME PayTypeOK, NEW a \in Api, request[a].pc # "idle", NEW t \in Tx, Sound(t),
         request[a].tx = t,
         NEW pc \in {"gateway", "complete", "credit", "invoice", "fail", "cancel"}, Goto(a, pc)
  PROVE  /\ On(a, t) /\ request'[a].pc = pc
         /\ \A b \in Api : On(b, t)' => b = a
<1>1. On(a, t)
  BY BusyRequest DEF On
<1>2. request'[a].pc = pc /\ \A b \in Api \ {a} : request'[b] = request[b]
  BY GoesTo
<1> QED
  BY <1>1, <1>2 DEF Sound, On

LEMMA PaymentInit == PayInit => PaymentInv /\ InvoiceInv
BY DEF PayInit, PaymentInv, Sound, Counted, On, InvoiceInv, PaidIsCredited, Idle

LEMMA PaymentStep ==
  ASSUME PayTypeOK, PaymentInv, [PayNext]_payVars, NEW t \in Tx, t \notin overlap'
  PROVE  /\ Sound(t)'
         /\ status[t] = "COMPLETED" => status'[t] = "COMPLETED"
<1> DEFINE P == Sound(t)' /\ (status[t] = "COMPLETED" => status'[t] = "COMPLETED")
<1>0. /\ \A a \in Api : request[a] \in Request
      /\ \A u \in Tx : ledger[u] \in 0 .. 2
  BY DEF PayTypeOK
<1>1. CASE UNCHANGED <<status, ledger, request, overlap, lost>>
  BY <1>1 DEF PaymentInv, Sound, Counted, On
<1>2. ASSUME NEW a \in Api, NEW u \in Tx, NEW pc \in {"gateway", "complete", "fail"},
             NEW by \in {"buyer", "admin", "approved", "success", "failure"}, Enter(a, u, pc, by),
             ~Done(u), UNCHANGED <<status, ledger, lost>>
      PROVE  P
  <2>1. t \notin overlap /\ Sound(t)
    BY <1>2, Begins DEF PaymentInv
  <2>2. CASE u = t
    <3>1. \A b \in Api : ~On(b, t)
      BY <1>2, <2>2, Begins
    <3>2. /\ request'[a].pc = pc
          /\ \A b \in Api : On(b, t)' => b = a
      BY <1>2, <3>1, Begins DEF On
    <3> QED
      BY <1>2, <2>1, <2>2, <3>2 DEF Sound, Counted, Done
  <2>3. CASE u # t
    <3>1. \A b \in Api : On(b, t)' => On(b, t) /\ request'[b] = request[b]
      BY <1>2, <2>3, Begins DEF On
    <3> QED
      BY <1>2, <2>1, <3>1, OtherPayment
  <2> QED
    BY <2>2, <2>3
<1>3. ASSUME NEW a \in Api, Gateway(a) PROVE P
  <2>1. Sound(t) /\ request[a].pc = "gateway" /\ UNCHANGED <<status, ledger, lost>>
    BY <1>3 DEF Gateway, At, PaymentInv
  <2>2. CASE End(a)
    BY <2>1, <2>2, GoesOnElsewhere
  <2>3. ASSUME NEW pc \in {"complete", "fail"}, Goto(a, pc) PROVE P
    <3>1. CASE request[a].tx # t
      BY <2>1, <2>3, <3>1, GoesOnElsewhere
    <3>2. CASE request[a].tx = t
      <4>1. On(a, t) /\ request'[a].pc = pc /\ \A b \in Api : On(b, t)' => b = a
        BY <2>1, <2>3, <3>2, GoesOnHere
      <4> QED
        BY <2>1, <2>3, <4>1 DEF Sound, Counted
    <3> QED
      BY <3>1, <3>2
  <2> QED
    BY <1>3, <2>2, <2>3 DEF Gateway, CutOff
<1>4. ASSUME NEW a \in Api, Complete(a) PROVE P
  <2>1. /\ Sound(t) /\ request[a].pc = "complete" /\ Goto(a, "credit") /\ ledger' = ledger
        /\ request[a].tx \in Tx /\ lost \subseteq lost'
    BY <1>4, BusyRequest DEF Complete, At, PaymentInv, Made, OnlyAnswered
  <2>2. CASE request[a].tx # t
    <3>1. status'[t] = status[t]
      BY <1>4, <2>1, <2>2 DEF Complete, PayTypeOK
    <3> QED
      BY <2>1, <2>2, <3>1, GoesOnElsewhere
  <2>3. CASE request[a].tx = t
    <3>1. On(a, t) /\ request'[a].pc = "credit" /\ \A b \in Api : On(b, t)' => b = a
      BY <2>1, <2>3, GoesOnHere
    <3>2. status[t] # "COMPLETED"
      BY <2>1, <3>1 DEF Sound
    <3>3. <<t, "completed">> \notin lost' => Counted(t)'
      <4> SUFFICES ASSUME <<t, "completed">> \notin lost' PROVE Counted(t)'
        OBVIOUS
      <4>1. Counted(t) /\ ledger[t] = 0
        BY <1>0, <2>1, <3>2 DEF Sound, Counted
      <4>2. status'[t] = "COMPLETED"
        BY <1>4, <2>1, <2>3 DEF Complete, OnlyAnswered, PayTypeOK
      <4> QED
        BY <2>1, <4>1, <4>2 DEF Counted
    <3> QED
      BY <3>1, <3>2, <3>3 DEF Sound
  <2> QED
    BY <2>2, <2>3
<1>5. ASSUME NEW a \in Api, Credit(a) PROVE P
  <2>1. /\ Sound(t) /\ request[a].pc = "credit" /\ Goto(a, "invoice") /\ status' = status
        /\ request[a].tx \in Tx /\ lost \subseteq lost'
    BY <1>5, BusyRequest DEF Credit, At, PaymentInv, Made, OnlyAnswered
  <2>2. CASE request[a].tx # t
    <3>1. ledger'[t] = ledger[t]
      BY <1>5, <2>1, <2>2 DEF Credit, PayTypeOK
    <3> QED
      BY <2>1, <2>2, <3>1, GoesOnElsewhere
  <2>3. CASE request[a].tx = t
    <3>1. On(a, t) /\ request'[a].pc = "invoice" /\ \A b \in Api : On(b, t)' => b = a
      BY <2>1, <2>3, GoesOnHere
    <3>2. <<t, "completed">> \notin lost' => Counted(t)'
      <4> SUFFICES ASSUME <<t, "completed">> \notin lost' PROVE Counted(t)'
        OBVIOUS
      <4>1. status[t] = "COMPLETED" /\ ledger[t] = 0
        BY <2>1, <3>1 DEF Sound, Counted
      <4>2. ledger'[t] \in {0, 1}
        BY <1>5, <2>1, <2>3, <4>1 DEF Credit, PayTypeOK
      <4> QED
        BY <2>1, <3>1, <4>1, <4>2 DEF Counted
    <3> QED
      BY <2>1, <3>1, <3>2 DEF Sound
  <2> QED
    BY <2>2, <2>3
<1>6. ASSUME NEW a \in Api, WriteInvoice(a) PROVE P
  <2>1. Sound(t) /\ request[a].pc = "invoice" /\ End(a) /\ UNCHANGED <<status, ledger, lost>>
    BY <1>6 DEF WriteInvoice, At, PaymentInv
  <2> QED
    BY <2>1, GoesOnElsewhere
<1>7. ASSUME NEW a \in Api, Fail(a) PROVE P
  <2>1. /\ Sound(t) /\ request[a].pc = "fail" /\ ledger' = ledger
        /\ End(a) \/ Goto(a, "cancel")
        /\ request[a].tx \in Tx /\ lost' = lost
    BY <1>7, BusyRequest DEF Fail, At, PaymentInv
  <2>2. CASE request[a].tx # t
    <3>1. status'[t] = status[t]
      BY <1>7, <2>1, <2>2 DEF Fail, PayTypeOK
    <3> QED
      BY <2>1, <2>2, <3>1, GoesOnElsewhere
  <2>3. CASE request[a].tx = t
    <3>1. On(a, t)
      BY <2>1, <2>3, BusyRequest DEF On
    <3>2. status[t] # "COMPLETED" /\ (<<t, "completed">> \notin lost => Counted(t) /\ ledger[t] = 0)
      BY <1>0, <2>1, <3>1 DEF Sound, Counted
    <3>3. status'[t] # "COMPLETED"
      BY <3>2, <1>7, <2>1, <2>3 DEF Fail, PayTypeOK
    <3>4. \A b \in Api : On(b, t)' => b = a /\ request'[a].pc = "cancel"
      <4>1. CASE Goto(a, "cancel")
        BY <2>1, <2>3, <4>1, GoesOnHere
      <4>2. CASE End(a)
        BY <2>1, <3>1, <4>2 DEF End, On, Sound, PayTypeOK
      <4> QED
        BY <2>1, <4>1, <4>2
    <3> QED
      BY <2>1, <3>2, <3>3, <3>4 DEF Sound, Counted
  <2> QED
    BY <2>2, <2>3
<1>8. ASSUME NEW a \in Api, CancelInvoice(a) PROVE P
  <2>1. Sound(t) /\ request[a].pc = "cancel" /\ End(a) /\ UNCHANGED <<status, ledger, lost>>
    BY <1>8 DEF CancelInvoice, At, PaymentInv
  <2> QED
    BY <2>1, GoesOnElsewhere
<1>9. ASSUME NEW a \in Api, Dies(a) PROVE P
  <2>1. Sound(t) /\ request[a].pc # "idle" /\ End(a) /\ UNCHANGED <<status, ledger, lost>>
    BY <1>0, <1>9, RequestKinds DEF Dies, CutOff, Free, PaymentInv
  <2> QED
    BY <2>1, GoesOnElsewhere
<1>10. ASSUME NEW a \in Api, NEW u \in Tx, BeginCapture(a, u) PROVE P
  BY <1>2, <1>10 DEF BeginCapture
<1>11. ASSUME NEW a \in Api, NEW u \in Tx, BeginVerify(a, u) PROVE P
  BY <1>2, <1>11 DEF BeginVerify, Done
<1>12. ASSUME NEW a \in Api, NEW e \in events, BeginWebhook(a, e) PROVE P
  <2>1. e.tx \in Tx /\ e.says \in {"approved", "success", "failure"}
    BY DEF PayTypeOK, PayEvent
  <2>2. CASE Done(e.tx)
    BY <1>1, <1>12, <2>2 DEF BeginWebhook
  <2>3. CASE ~Done(e.tx)
    BY <1>2, <1>12, <2>1, <2>3 DEF BeginWebhook
  <2> QED
    BY <2>2, <2>3
<1> QED
  BY <1>1, <1>3, <1>4, <1>5, <1>6, <1>7, <1>8, <1>9, <1>10, <1>11, <1>12
  DEF PayNext, PayStep, payVars, PayPalApproved, StripePays, Ours

LEMMA PaymentInvStep == PayTypeOK /\ PaymentInv /\ [PayNext]_payVars => PaymentInv'
<1> SUFFICES ASSUME PayTypeOK, PaymentInv, [PayNext]_payVars,
                    NEW t \in Tx, t \notin overlap'
             PROVE  Sound(t)'
  BY DEF PaymentInv
<1> QED
  BY PaymentStep

\* Of a transaction whose requests never overlap and whose mark is made, the
\* credits are given at most once.
THEOREM CreditedOnceCorrect == PaySpec => []CreditedOnce
<1>1. PaymentInv => CreditedOnce
  BY DEF PaymentInv, Sound, Counted, CreditedOnce
<1> QED
  BY <1>1, PayInitTypes, PayStepTypes, PaymentInit, PaymentInvStep, PTL DEF PaySpec

LEMMA CompletedStep ==
  PayTypeOK /\ PaymentInv /\ [PayNext]_payVars
    => [\A t \in Tx \ overlap : status[t] = "COMPLETED" => status'[t] = "COMPLETED"]_payVars
<1> SUFFICES ASSUME PayTypeOK, PaymentInv, PayNext, NEW t \in Tx, t \notin overlap,
                    status[t] = "COMPLETED"
             PROVE  status'[t] = "COMPLETED"
  BY DEF payVars
<1>1. CASE t \notin overlap'
  BY <1>1, PaymentStep
<1>2. CASE t \in overlap'
  <2>1. overlap' # overlap
    BY <1>2
  <2> QED
    BY <2>1
    DEF PayNext, PayStep, PayPalApproved, StripePays, Ours, Gateway, Complete, Credit, WriteInvoice,
        Fail, CancelInvoice, Dies, BeginCapture, BeginVerify, BeginWebhook
<1> QED
  BY <1>1, <1>2

\* A payment that is completed stays so, unless requests overlap.
THEOREM CompletedStaysCorrect == PaySpec => CompletedStays
<1>1. PayTypeOK /\ PaymentInv /\ [PayNext]_payVars
        => [\A t \in Tx \ overlap : status[t] = "COMPLETED" => status'[t] = "COMPLETED"]_payVars
  BY CompletedStep
<1> QED
  BY <1>1, PayInitTypes, PayStepTypes, PaymentInit, PaymentInvStep, PTL DEF PaySpec, CompletedStays

-----------------------------------------------------------------------------
(* Invoices *)

LEMMA InvoiceStep == PayTypeOK /\ InvoiceInv /\ [PayNext]_payVars => InvoiceInv'
<1> SUFFICES ASSUME PayTypeOK, InvoiceInv, [PayNext]_payVars PROVE InvoiceInv'
  OBVIOUS
<1>0. /\ \A a \in Api : request[a] \in Request
      /\ \A u \in Tx : ledger[u] \in 0 .. 2
  BY DEF PayTypeOK
<1> DEFINE Given(u) == ledger[u] > 0 \/ <<u, "credits">> \in lost
<1>1. \A u \in Tx : Given(u) => Given(u)'
  <2>1. ASSUME NEW a \in Api, Credit(a), NEW u \in Tx, Given(u) PROVE Given(u)'
    BY <1>0, <2>1, BusyRequest DEF Credit, At, PayTypeOK, Made, OnlyAnswered
  <2> QED
    BY <2>1
    DEF PayNext, PayStep, payVars, PayPalApproved, StripePays, Ours, Gateway, Complete, WriteInvoice,
        Fail, CancelInvoice, Dies, BeginCapture, BeginVerify, BeginWebhook, Made, OnlyAnswered
<1>2. ASSUME UNCHANGED invoice,
             \A b \in Api : request'[b].pc = "invoice" => request'[b] = request[b]
      PROVE  InvoiceInv'
  <2>1. \A b \in Api : request[b].pc = "invoice" => request[b].tx \in Tx
    BY BusyRequest
  <2> QED
    BY <1>1, <1>2, <2>1 DEF InvoiceInv, PaidIsCredited
<1>3. ASSUME NEW a \in Api, request[a].pc # "idle", UNCHANGED invoice,
             End(a) \/ \E pc \in {"complete", "credit", "fail", "cancel"} : Goto(a, pc)
      PROVE  InvoiceInv'
  <2>1. request'[a].pc # "invoice"
    <3>1. CASE End(a)
      BY <3>1 DEF End, Idle, PayTypeOK
    <3>2. ASSUME NEW pc \in {"complete", "credit", "fail", "cancel"}, Goto(a, pc)
          PROVE  request'[a].pc # "invoice"
      <4>1. request'[a].pc = pc
        BY <1>3, <3>2, GoesTo
      <4> QED
        BY <4>1
    <3> QED
      BY <1>3, <3>1, <3>2
  <2>2. \A b \in Api \ {a} : request'[b] = request[b]
    BY <1>3, GoesOn
  <2> QED
    BY <1>2, <1>3, <2>1, <2>2
<1>4. ASSUME NEW a \in Api, NEW u \in Tx, NEW pc \in {"gateway", "complete", "fail"},
             NEW by \in {"buyer", "admin", "approved", "success", "failure"}, Enter(a, u, pc, by),
             UNCHANGED invoice
      PROVE  InvoiceInv'
  BY <1>2, <1>4, Begins
<1>5. CASE UNCHANGED <<request, invoice>>
  BY <1>2, <1>5
<1>6. ASSUME NEW a \in Api, Gateway(a) PROVE InvoiceInv'
  BY <1>3, <1>6 DEF Gateway, At, CutOff
<1>7. ASSUME NEW a \in Api, Complete(a) PROVE InvoiceInv'
  BY <1>3, <1>7 DEF Complete, At
<1>8. ASSUME NEW a \in Api, Credit(a) PROVE InvoiceInv'
  <2>1. request[a].pc = "credit" /\ Goto(a, "invoice") /\ request[a].tx \in Tx
    BY <1>8, BusyRequest DEF Credit, At
  <2>2. request'[a].tx = request[a].tx /\ \A b \in Api \ {a} : request'[b] = request[b]
    BY <2>1, GoesTo
  <2>3. Given(request[a].tx)'
    BY <1>0, <1>8, <2>1, <2>2 DEF Credit, PayTypeOK, OnlyAnswered
  <2>4. \A b \in Api : request[b].pc = "invoice" => request[b].tx \in Tx
    BY BusyRequest
  <2> QED
    BY <1>1, <1>8, <2>2, <2>3, <2>4 DEF Credit, InvoiceInv, PaidIsCredited
<1>9. ASSUME NEW a \in Api, WriteInvoice(a) PROVE InvoiceInv'
  <2>1. request[a].pc = "invoice" /\ End(a) /\ UNCHANGED <<ledger, lost>> /\ request[a].tx \in Tx
    BY <1>9, BusyRequest DEF WriteInvoice, At
  <2>2. Given(request[a].tx)
    BY <2>1 DEF InvoiceInv
  <2>3. \A u \in Tx : invoice'[u] = "paid" => invoice[u] = "paid" \/ u = request[a].tx
    BY <1>9 DEF WriteInvoice, PayTypeOK
  <2>4. \A b \in Api : request'[b].pc = "invoice" => request'[b] = request[b]
    BY <2>1 DEF End, PayTypeOK, Idle
  <2> QED
    BY <2>1, <2>2, <2>3, <2>4 DEF InvoiceInv, PaidIsCredited
<1>10. ASSUME NEW a \in Api, Fail(a) PROVE InvoiceInv'
  BY <1>3, <1>10 DEF Fail, At
<1>11. ASSUME NEW a \in Api, CancelInvoice(a) PROVE InvoiceInv'
  <2>1. request[a].pc = "cancel" /\ End(a) /\ UNCHANGED <<ledger, lost>>
    BY <1>11 DEF CancelInvoice, At
  <2>2. \A u \in Tx : invoice'[u] = "paid" => invoice[u] = "paid"
    BY <1>11 DEF CancelInvoice, PayTypeOK
  <2>3. \A b \in Api : request'[b].pc = "invoice" => request'[b] = request[b]
    BY <2>1 DEF End, PayTypeOK, Idle
  <2> QED
    BY <2>1, <2>2, <2>3 DEF InvoiceInv, PaidIsCredited
<1>12. ASSUME NEW a \in Api, Dies(a) PROVE InvoiceInv'
  BY <1>0, <1>3, <1>12, RequestKinds DEF Dies, CutOff, Free
<1>13. ASSUME NEW a \in Api, NEW e \in events, BeginWebhook(a, e) PROVE InvoiceInv'
  <2>1. e.tx \in Tx /\ e.says \in {"approved", "success", "failure"}
    BY DEF PayTypeOK, PayEvent
  <2> QED
    BY <1>4, <1>5, <1>13, <2>1 DEF BeginWebhook
<1>14. ASSUME NEW a \in Api, NEW u \in Tx, BeginCapture(a, u) \/ BeginVerify(a, u) PROVE InvoiceInv'
  BY <1>4, <1>14 DEF BeginCapture, BeginVerify
<1> QED
  BY <1>5, <1>6, <1>7, <1>8, <1>9, <1>10, <1>11, <1>12, <1>13, <1>14
  DEF PayNext, PayStep, payVars, PayPalApproved, StripePays, Ours

\* An invoice says "paid" only when the credits have been given, or giving
\* them was answered but not done.
THEOREM PaidIsCreditedCorrect == PaySpec => []PaidIsCredited
<1>1. InvoiceInv => PaidIsCredited
  BY DEF InvoiceInv
<1> QED
  BY <1>1, PayInitTypes, PayStepTypes, PaymentInit, InvoiceStep, PTL DEF PaySpec

-----------------------------------------------------------------------------
(***************************************************************************)
(* Refreshes.  A session that is active and was not spoiled has one        *)
(* refresh at a time, and its good token is on the shelf or with that      *)
(* refresh: no spent token of it is ever shown to the server.              *)
(***************************************************************************)
Sole(s) ==
  /\ \A c, d \in Busy(s) : c = d
  /\ \A c \in Busy(s) : /\ call[c].pc # "refused"
                        /\ call[c].pc \in {"sent", "answered"} => call[c].token.good
  /\ shelf.of = s /\ ~shelf.good => \E c \in Busy(s) : call[c].pc = "answered"

\* A session that has not begun has no tokens.
Begun(s) == session[s] # "none" \/ (Busy(s) = {} /\ shelf.of # s)

RefreshInv ==
  /\ RefreshTypeOK
  /\ NoFalseAlarm
  /\ \A s \in Session : Begun(s) /\ (session[s] = "active" /\ s \notin spoiled => Sole(s))

LEMMA CallKinds ==
  ASSUME RefreshTypeOK, NEW c \in Caller
  PROVE  \/ call[c] = NoCall
         \/ /\ call[c] # NoCall
            /\ call[c] = [pc |-> call[c].pc, token |-> call[c].token]
            /\ call[c].pc \in {"sent", "checked", "answered", "refused"}
            /\ call[c].token \in Token
BY DEF RefreshTypeOK, Call, NoCall

\* What is known of a refresh that is under way.
LEMMA CallUnderWay ==
  ASSUME RefreshTypeOK, NEW c \in Caller, call[c].pc \in {"sent", "checked", "answered", "refused"}
  PROVE  /\ call[c] # NoCall /\ call[c].token \in Token
         /\ call[c].token.of \in Session /\ call[c].token.good \in BOOLEAN
         /\ c \in Busy(call[c].token.of)
<1>1. call[c] # NoCall
  BY DEF NoCall
<1>2. call[c].token \in Token
  BY <1>1, CallKinds
<1> QED BY <1>1, <1>2 DEF Token, Busy

\* A token on the shelf is of a session.
LEMMA ShelfToken ==
  ASSUME RefreshTypeOK
  PROVE  /\ shelf # Gone => shelf \in Token /\ shelf.of \in Session
         /\ shelf.good \in BOOLEAN /\ Gone.of \notin Session
         /\ \A s \in Session : Spent(shelf, s) \in Token \cup {Gone}
<1>1. Gone.of \notin Session /\ Gone.good = FALSE
  BY DEF Gone, None, Session
<1>2. \/ shelf = Gone
      \/ /\ shelf \in Token /\ shelf = [of |-> shelf.of, good |-> shelf.good]
         /\ shelf.of \in Session /\ shelf.good \in BOOLEAN
  BY DEF RefreshTypeOK, Token
<1>3. ASSUME NEW s \in Session PROVE Spent(shelf, s) \in Token \cup {Gone}
  <2>1. CASE shelf = Gone
    BY <1>1, <2>1 DEF Spent
  <2>2. CASE shelf # Gone
    BY <1>2, <2>2 DEF Spent, Token
  <2> QED BY <2>1, <2>2
<1> QED BY <1>1, <1>2, <1>3

LEMMA RefreshTypeInit == RefreshInit => RefreshTypeOK
<1> SUFFICES ASSUME RefreshInit PROVE RefreshTypeOK
  OBVIOUS
<1>1. 1 \in Session /\ 0 \in 0 .. Losses
  BY RefreshAssumption DEF Session
<1>2. call \in [Caller -> Call] /\ shelf \in Token
  BY <1>1 DEF RefreshInit, Call, Token
<1> QED BY <1>1, <1>2 DEF RefreshInit, RefreshTypeOK, FetchState

\* A caller asks with the token on the shelf.
LEMMA AskTypes ==
  ASSUME RefreshTypeOK, NEW c \in Caller, shelf # Gone, AskRefresh(c)
  PROVE  call' \in [Caller -> Call] /\ spoiled' \in SUBSET Session
<1>1. [pc |-> "sent", token |-> shelf] \in Call
  BY ShelfToken DEF Call
<1> QED BY <1>1, ShelfToken DEF AskRefresh, RefreshTypeOK

LEMMA RefreshTypeStep ==
  ASSUME RefreshTypeOK, [RefreshNext]_refreshVars
  PROVE  RefreshTypeOK'
<1>0. NoCall \in Call /\ Gone \in Token \cup {Gone}
  BY DEF Call
<1> USE DEF Server, Browser
<1>1. ASSUME NEW c \in Caller, CheckToken(c) PROVE RefreshTypeOK'
  <2>1. call[c].token.of \in Session /\ call[c].token \in Token
    BY <1>1, CallUnderWay DEF CheckToken
  <2>2. PICK pc \in {"refused", "checked"} : Becomes(c, pc)
    BY <1>1 DEF CheckToken
  <2>3. call' \in [Caller -> Call]
    <3>1. [pc |-> pc, token |-> [call[c].token EXCEPT !.good = FALSE]] \in Call
      BY <2>1 DEF Call, Token
    <3> QED BY <2>2, <3>1 DEF Becomes, RefreshTypeOK
  <2>4. session' \in [Session -> {"none", "active", "ended"}] /\ killed' \in SUBSET Session
    BY <1>1, <2>1 DEF CheckToken, RefreshTypeOK
  <2>5. UNCHANGED <<Browser, hashed, moved, fetch, dialog, losses, spoiled>>
    BY <1>1 DEF CheckToken
  <2> QED BY <2>3, <2>4, <2>5 DEF RefreshTypeOK
<1>2. ASSUME NEW c \in Caller, RotateToken(c) PROVE RefreshTypeOK'
  <2> DEFINE s == call[c].token.of
  <2>1. s \in Session
    BY <1>2, CallUnderWay DEF RotateToken
  <2>2. \A g \in BOOLEAN : [pc |-> "answered", token |-> [of |-> s, good |-> g]] \in Call
    BY <2>1 DEF Call, Token
  <2>3. \A d \in Caller : [call[d] EXCEPT !.token = Spent(@, s)] \in Call
    <3> TAKE d \in Caller
    <3>1. CASE call[d] = NoCall
      <4>1. Spent(NoCall.token, s) = NoCall.token
        BY <2>1 DEF NoCall, Gone, Spent, Session, None
      <4>2. [call[d] EXCEPT !.token = Spent(@, s)] = NoCall
        BY <3>1, <4>1 DEF NoCall
      <4> QED BY <1>0, <4>2
    <3>2. CASE call[d] # NoCall
      <4>1. call[d] = [pc |-> call[d].pc, token |-> call[d].token]
            /\ call[d].pc \in {"sent", "checked", "answered", "refused"}
            /\ call[d].token \in Token
        BY <3>2, CallKinds
      <4>2. Spent(call[d].token, s) \in Token
        BY <4>1 DEF Spent, Token
      <4>3. [call[d] EXCEPT !.token = Spent(@, s)]
              = [pc |-> call[d].pc, token |-> Spent(call[d].token, s)]
        BY <4>1
      <4> QED BY <4>1, <4>2, <4>3 DEF Call
    <3> QED BY <3>1, <3>2
  <2> HIDE DEF s
  <2>4. CASE Rotated(c, s)
    <3>1. call' \in [Caller -> Call]
      BY <2>2, <2>3, <2>4 DEF Rotated
    <3>2. shelf' \in Token \cup {Gone} /\ hashed' \in SUBSET Session
      BY <2>1, <2>4, ShelfToken DEF Rotated, RefreshTypeOK
    <3>3. losses' \in 0 .. Losses /\ spoiled' \in SUBSET Session
      BY <1>2, <2>1, RefreshAssumption DEF RotateToken, Loses, RefreshTypeOK, s
    <3> QED BY <1>2, <3>1, <3>2, <3>3 DEF RotateToken, RefreshTypeOK
  <2>5. CASE Unrotated(c, s)
    <3>1. call' \in [Caller -> Call]
      BY <2>2, <2>5 DEF Unrotated, RefreshTypeOK
    <3>2. UNCHANGED <<shelf, hashed>>
      BY <2>5 DEF Unrotated
    <3>3. losses' \in 0 .. Losses /\ spoiled' \in SUBSET Session
      BY <1>2, <2>1, RefreshAssumption DEF RotateToken, Loses, RefreshTypeOK, s
    <3> QED BY <1>2, <3>1, <3>2, <3>3 DEF RotateToken, RefreshTypeOK
  <2> QED BY <1>2, <2>4, <2>5 DEF RotateToken, s
<1>3. ASSUME NEW c \in Caller, TakeTokens(c) PROVE RefreshTypeOK'
  <2>1. call[c].token.of \in Session /\ call[c].token \in Token
    BY <1>3, CallUnderWay DEF TakeTokens
  <2>2. fetch' \in [Fetch -> FetchState]
    BY <1>3 DEF TakeTokens, RefreshTypeOK, FetchState
  <2>3. call' \in [Caller -> Call]
    BY <1>0, <1>3 DEF TakeTokens, RefreshTypeOK
  <2> QED BY <1>3, <2>1, <2>2, <2>3 DEF TakeTokens, RefreshTypeOK
<1>4. ASSUME NEW c \in Caller, LoseTokens(c) PROVE RefreshTypeOK'
  <2>1. call[c].token.of \in Session
    BY <1>4, CallUnderWay DEF LoseTokens
  <2>2. losses' \in 0 .. Losses /\ spoiled' \in SUBSET Session
    BY <1>4, <2>1, RefreshAssumption DEF LoseTokens, Loses, RefreshTypeOK
  <2>3. fetch' \in [Fetch -> FetchState]
    BY <1>4 DEF LoseTokens, GiveUp, RefreshTypeOK, FetchState
  <2>4. call' \in [Caller -> Call] /\ dialog' \in [Tab -> BOOLEAN]
    BY <1>0, <1>4 DEF LoseTokens, RefreshTypeOK, Ask
  <2>5. shelf' \in Token \cup {Gone} /\ access' \in {None} \cup Session /\ expired' \in BOOLEAN
    BY <1>4 DEF LoseTokens, RefreshTypeOK
  <2> QED BY <1>4, <2>2, <2>3, <2>4, <2>5 DEF LoseTokens, RefreshTypeOK
<1>5. ASSUME NEW f \in Fetch, SendFetch(f) PROVE RefreshTypeOK'
  BY <1>5 DEF SendFetch, RefreshTypeOK, FetchState
<1>6. ASSUME NEW f \in Fetch, HearDenial(f) PROVE RefreshTypeOK'
  <2>1. <<tabOf[f], "interceptor">> \in Caller /\ tabOf[f] \in Tab
    BY RefreshAssumption DEF Caller
  <2>2. fetch' \in [Fetch -> FetchState]
    BY <1>6 DEF HearDenial, RefreshTypeOK, FetchState
  <2>3. call' \in [Caller -> Call] /\ spoiled' \in SUBSET Session
    BY <1>6, <2>1, AskTypes DEF HearDenial, RefreshTypeOK
  <2>4. dialog' \in [Tab -> BOOLEAN]
    BY <1>6, <2>1 DEF HearDenial, Ask, RefreshTypeOK
  <2> QED BY <1>6, <2>2, <2>3, <2>4 DEF HearDenial, RefreshTypeOK
<1>7. ASSUME NEW t \in Tab, TimerFires(t) PROVE RefreshTypeOK'
  <2>1. <<t, "timer">> \in Caller
    BY DEF Caller
  <2>2. call' \in [Caller -> Call] /\ spoiled' \in SUBSET Session
    BY <1>7, <2>1, AskTypes DEF TimerFires
  <2> QED BY <1>7, <2>2 DEF TimerFires, RefreshTypeOK
<1>8. ASSUME NEW t \in Tab, NEW s \in Session, LoginAgain(t, s) PROVE RefreshTypeOK'
  <2>1. fetch' \in [Fetch -> FetchState]
    BY <1>8 DEF LoginAgain, RefreshTypeOK, FetchState
  <2>2. shelf' \in Token
    BY <1>8 DEF LoginAgain, Token
  <2> QED BY <1>8, <2>1, <2>2 DEF LoginAgain, RefreshTypeOK
<1>9. ASSUME NEW t \in Tab, Dismiss(t) PROVE RefreshTypeOK'
  <2>1. fetch' \in [Fetch -> FetchState]
    BY <1>9 DEF Dismiss, RefreshTypeOK, FetchState
  <2>2. session' \in [Session -> {"none", "active", "ended"}]
    BY <1>9 DEF Dismiss, RefreshTypeOK
  <2> QED BY <1>9, <2>1, <2>2 DEF Dismiss, RefreshTypeOK
<1>10. CASE AccessExpires
  BY <1>10 DEF AccessExpires, RefreshTypeOK
<1>11. ASSUME NEW s \in Session, SessionEnds(s) PROVE RefreshTypeOK'
  BY <1>11 DEF SessionEnds, RefreshTypeOK
<1>12. CASE Moves
  <2>1. losses' \in 0 .. Losses
    BY <1>12, RefreshAssumption DEF Moves, RefreshTypeOK
  <2> QED BY <1>12, <2>1 DEF Moves, RefreshTypeOK
<1>13. CASE UNCHANGED refreshVars
  BY <1>13 DEF refreshVars, RefreshTypeOK
<1> QED BY <1>1, <1>2, <1>3, <1>4, <1>5, <1>6, <1>7, <1>8, <1>9, <1>10, <1>11, <1>12, <1>13
        DEF RefreshNext, CallStep, FetchStep

Trusted(s) == session[s] = "active" /\ s \notin spoiled

InvOf(s) == Begun(s) /\ (Trusted(s) => Sole(s))

LEMMA BusyIs ==
  ASSUME NEW s
  PROVE  \A c \in Caller : c \in Busy(s) <=> call[c] # NoCall /\ call[c].token.of = s
BY DEF Busy

\* A step that leaves the refreshes of a session alone.
LEMMA Elsewhere ==
  ASSUME NEW s \in Session, InvOf(s),
         \A c \in Caller : /\ call'[c] # NoCall /\ call'[c].token.of = s
                                <=> call[c] # NoCall /\ call[c].token.of = s
                           /\ call[c].token.of = s => call'[c] = call[c],
         shelf' = shelf \/ shelf'.of # s,
         session'[s] = session[s] \/ session'[s] = "ended",
         spoiled \subseteq spoiled'
  PROVE  InvOf(s)'
<1>1. Busy(s)' = Busy(s) /\ \A c \in Busy(s) : call'[c] = call[c]
  BY DEF Busy
<1> QED BY <1>1 DEF InvOf, Begun, Trusted, Sole

\* A refresh is asked for with the token on the shelf.
LEMMA AskInv ==
  ASSUME RefreshInv, NEW c \in Caller, call[c] = NoCall, shelf # Gone, AskRefresh(c),
         UNCHANGED <<shelf, session>>, NEW s \in Session
  PROVE  InvOf(s)'
<1>0. RefreshTypeOK /\ InvOf(s)
  BY DEF RefreshInv, InvOf, Trusted
<1>1. /\ call'[c] = [pc |-> "sent", token |-> shelf]
      /\ \A d \in Caller \ {c} : call'[d] = call[d]
      /\ spoiled \subseteq spoiled'
  BY <1>0 DEF AskRefresh, RefreshTypeOK
<1>2. call'[c] # NoCall /\ call'[c].pc = "sent" /\ call'[c].token = shelf
  BY <1>1 DEF NoCall
<1>3. CASE shelf.of # s
  <2>1. NoCall.token.of # s
    BY DEF NoCall, Gone, None, Session
  <2> QED BY <1>0, <1>1, <1>2, <1>3, <2>1, Elsewhere
<1>4. CASE shelf.of = s
  <2>1. Begun(s)'
    BY <1>0, <1>4 DEF InvOf, Begun
  <2>2. ASSUME Trusted(s)' PROVE Sole(s)'
    <3>1. Busy(s) = {} /\ Trusted(s)
      BY <1>1, <1>4, <2>2 DEF Trusted, AskRefresh
    <3>2. shelf.good
      BY <1>0, <1>4, <3>1 DEF InvOf, Sole
    <3>3. \A d \in Caller : d \in Busy(s)' => d = c
      BY <1>1, <3>1 DEF Busy
    <3>4. \A d \in Busy(s)' : d = c
      BY <3>3 DEF Busy
    <3> QED BY <1>2, <3>2, <3>4 DEF Sole
  <2> QED BY <2>1, <2>2 DEF InvOf
<1> QED BY <1>3, <1>4

\* The server looks at a token: only a session that was spoiled is ended.
LEMMA CheckInv ==
  ASSUME RefreshInv, NEW c \in Caller, CheckToken(c)
  PROVE  NoFalseAlarm' /\ \A s \in Session : InvOf(s)'
<1> DEFINE s0 == call[c].token.of
<1>0. RefreshTypeOK /\ \A s \in Session : InvOf(s)
  BY DEF RefreshInv, InvOf, Trusted
<1>1. /\ call[c] # NoCall /\ call[c].pc = "sent" /\ s0 \in Session /\ call[c].token \in Token
      /\ c \in Busy(s0)
  BY <1>0, CallUnderWay DEF CheckToken
<1>2. PICK pc \in {"refused", "checked"} : Becomes(c, pc)
  BY DEF CheckToken
<1>3. /\ call'[c] = [pc |-> pc, token |-> [call[c].token EXCEPT !.good = FALSE]]
      /\ \A d \in Caller \ {c} : call'[d] = call[d]
  BY <1>0, <1>2 DEF Becomes, RefreshTypeOK
<1>4. call'[c] # NoCall /\ call'[c].pc = pc /\ call'[c].token.of = s0
  BY <1>1, <1>2, <1>3 DEF NoCall, Token
<1>5. UNCHANGED <<shelf, spoiled>>
  BY DEF CheckToken, Browser
<1>6. \A s \in Session : session'[s] = session[s] \/ (s = s0 /\ session'[s] = "ended")
  BY <1>0, <1>1 DEF CheckToken, RefreshTypeOK
<1>7. ASSUME NEW s \in Session PROVE InvOf(s)'
  <2>1. CASE s # s0
    BY <1>0, <1>3, <1>4, <1>5, <1>6, <2>1, Elsewhere
  <2>2. CASE s = s0
    <3>1. Begun(s)'
      <4>1. session[s] # "none"
        BY <1>0, <1>1, <2>2 DEF InvOf, Begun
      <4> QED BY <1>1, <1>6, <4>1 DEF Begun
    <3>2. ASSUME Trusted(s)' PROVE Sole(s)'
      <4>1. session'[s] = "active" /\ session[s] = "active" /\ s \notin spoiled
        BY <1>5, <1>6, <3>2 DEF Trusted
      <4>2. Sole(s)
        BY <1>0, <4>1 DEF Trusted, InvOf
      <4>3. call[c].token.good
        BY <1>1, <2>2, <4>2 DEF Sole
      <4>4. Becomes(c, "checked")
        BY <2>2, <4>1, <4>3 DEF CheckToken
      <4>5. call'[c].pc = "checked"
        BY <1>0, <4>4 DEF Becomes, RefreshTypeOK
      <4>6. Busy(s)' = Busy(s) /\ \A d \in Busy(s) : d = c
        <5>1. \A d \in Caller : d \in Busy(s)' <=> d \in Busy(s)
          BY <1>1, <1>3, <1>4, <2>2 DEF Busy
        <5> QED BY <1>1, <2>2, <4>2, <5>1 DEF Busy, Sole
      <4>7. ~(shelf.of = s /\ ~shelf.good)
        BY <1>1, <4>2, <4>6 DEF Sole
      <4> QED BY <1>5, <4>5, <4>6, <4>7 DEF Sole
    <3> QED BY <3>1, <3>2 DEF InvOf
  <2> QED BY <2>1, <2>2
<1>9. NoFalseAlarm'
  <2>1. CASE killed' = killed
    BY <1>5, <2>1 DEF RefreshInv, NoFalseAlarm
  <2>2. CASE killed' # killed
    <3>1. killed' = killed \cup {s0} /\ session[s0] = "active" /\ ~call[c].token.good
      BY <2>2 DEF CheckToken
    <3>2. s0 \in spoiled
      BY <1>0, <1>1, <3>1 DEF InvOf, Trusted, Sole
    <3> QED BY <1>5, <3>1, <3>2 DEF RefreshInv, NoFalseAlarm
  <2> QED BY <2>1, <2>2
<1> QED BY <1>7, <1>9

\* The server rotates a token: all the others of its session are spent.
LEMMA RotateInv ==
  ASSUME RefreshInv, NEW c \in Caller, RotateToken(c), NEW s \in Session
  PROVE  InvOf(s)'
<1> DEFINE s0 == call[c].token.of
<1>0. RefreshTypeOK /\ InvOf(s) /\ InvOf(s0)
  <2>1. s0 \in Session
    BY CallUnderWay DEF RotateToken, RefreshInv
  <2> QED BY <2>1 DEF RefreshInv, InvOf, Trusted
<1>1. call[c] # NoCall /\ s0 \in Session /\ c \in Busy(s0) /\ call[c].pc = "checked"
  BY <1>0, CallUnderWay DEF RotateToken
<1>2. UNCHANGED session /\ spoiled \subseteq spoiled'
  BY DEF RotateToken, Loses
<1>3. call'[c] # NoCall /\ call'[c].token.of = s0 /\ call'[c].pc = "answered"
  BY <1>0 DEF RotateToken, Rotated, Unrotated, NoCall, RefreshTypeOK
<1>4. \A d \in Caller \ {c} : call'[d] = call[d] \/ call'[d] = [call[d] EXCEPT !.token = Spent(@, s0)]
  BY <1>0 DEF RotateToken, Rotated, Unrotated, RefreshTypeOK
<1>5. ASSUME NEW d \in Caller \ {c}, call[d].token.of # s0 PROVE call'[d] = call[d]
  <2>1. Spent(call[d].token, s0) = call[d].token
    BY <1>5 DEF Spent
  <2>2. [call[d] EXCEPT !.token = call[d].token] = call[d]
    BY <1>0, CallKinds DEF NoCall
  <2> QED BY <1>4, <2>1, <2>2
<1>6. \A d \in Caller \ {c} : /\ call'[d] # NoCall <=> call[d] # NoCall
                              /\ call'[d].token.of = call[d].token.of
  <2> TAKE d \in Caller \ {c}
  <2>1. CASE call[d] = NoCall
    <3>1. call[d].token.of # s0
      BY <1>1, <2>1 DEF NoCall, Gone, None, Session
    <3> QED BY <1>5, <3>1
  <2>2. CASE call[d] # NoCall
    <3>1. /\ call[d] = [pc |-> call[d].pc, token |-> call[d].token]
          /\ call[d].pc # "idle" /\ call[d].token \in Token
      BY <1>0, <2>2, CallKinds
    <3>2. \/ Spent(call[d].token, s0) = call[d].token
          \/ Spent(call[d].token, s0) = [call[d].token EXCEPT !.good = FALSE]
      BY DEF Spent
    <3>3. Spent(call[d].token, s0).of = call[d].token.of
      BY <3>1, <3>2 DEF Token
    <3>4. \/ call'[d] = call[d]
          \/ call'[d] = [pc |-> call[d].pc, token |-> Spent(call[d].token, s0)]
      BY <1>4, <3>1
    <3>5. call'[d].pc = call[d].pc /\ call'[d].token.of = call[d].token.of
      BY <3>3, <3>4
    <3>6. call'[d] # NoCall
      BY <3>1, <3>5 DEF NoCall
    <3> QED BY <2>2, <3>5, <3>6
  <2> QED BY <2>1, <2>2
<1>7. shelf' = shelf \/ shelf' = Spent(shelf, s0)
  BY DEF RotateToken, Rotated, Unrotated
<1>8. shelf'.of = shelf.of
  <2>1. shelf = Gone \/ (shelf \in Token /\ shelf = [of |-> shelf.of, good |-> shelf.good])
    BY <1>0 DEF RefreshTypeOK, Token
  <2> QED BY <1>7, <2>1 DEF Spent, Gone
<1>9. CASE s # s0
  <2>1. shelf' = shelf \/ shelf'.of # s
    BY <1>7, <1>8, <1>9 DEF Spent
  <2> QED BY <1>0, <1>1, <1>2, <1>3, <1>5, <1>6, <1>9, <2>1, Elsewhere
<1>10. CASE s = s0
  <2>1. Begun(s)'
    BY <1>0, <1>1, <1>2, <1>10 DEF InvOf, Begun
  <2>2. ASSUME Trusted(s)' PROVE Sole(s)'
    <3>1. Trusted(s) /\ Sole(s)
      BY <1>0, <1>2, <2>2 DEF Trusted, InvOf
    <3>2. Rotated(c, s0)
      BY <1>10, <2>2, <3>1 DEF Trusted, RotateToken, Loses
    <3>3. call'[c].token.good
      BY <1>0, <3>2 DEF Rotated, RefreshTypeOK
    <3>4. Busy(s)' = Busy(s) /\ \A d \in Busy(s) : d = c
      <4>1. \A d \in Caller : d \in Busy(s)' <=> d \in Busy(s)
        BY <1>1, <1>3, <1>6, <1>10 DEF Busy
      <4> QED BY <1>1, <1>10, <3>1, <4>1 DEF Busy, Sole
    <3> QED BY <1>1, <1>3, <1>10, <3>3, <3>4 DEF Sole
  <2> QED BY <2>1, <2>2 DEF InvOf
<1> QED BY <1>9, <1>10

\* The answer of a refresh comes, or does not.
LEMMA AnswerInv ==
  ASSUME RefreshInv, NEW c \in Caller, TakeTokens(c) \/ LoseTokens(c), NEW s \in Session
  PROVE  InvOf(s)'
<1> DEFINE s0 == call[c].token.of
<1>0. RefreshTypeOK /\ InvOf(s)
  BY DEF RefreshInv, InvOf, Trusted
<1>1. /\ call[c] # NoCall /\ s0 \in Session /\ c \in Busy(s0) /\ call[c].pc \in {"answered", "refused"}
  BY <1>0, CallUnderWay DEF TakeTokens, LoseTokens
<1>2. /\ UNCHANGED session /\ spoiled \subseteq spoiled'
      /\ call'[c] = NoCall /\ \A d \in Caller \ {c} : call'[d] = call[d]
  BY <1>0 DEF TakeTokens, LoseTokens, Loses, Server, RefreshTypeOK
<1>3. NoCall.token.of \notin Session /\ Gone.of \notin Session
  BY DEF NoCall, Gone, None, Session
<1>4. CASE s # s0
  <2>1. shelf' = shelf \/ shelf'.of # s
    BY <1>3, <1>4 DEF TakeTokens, LoseTokens
  <2> QED BY <1>0, <1>2, <1>3, <1>4, <2>1, Elsewhere
<1>5. CASE s = s0
  <2>1. Begun(s)'
    BY <1>0, <1>1, <1>2, <1>5 DEF InvOf, Begun
  <2>2. ASSUME Trusted(s)' PROVE Sole(s)'
    <3>1. Trusted(s) /\ Sole(s)
      BY <1>0, <1>2, <2>2 DEF Trusted, InvOf
    <3>2. call[c].pc = "answered" /\ call[c].token.good
      BY <1>1, <1>5, <3>1 DEF Sole
    <3>3. TakeTokens(c)
      BY <1>5, <2>2, <3>2 DEF LoseTokens, Loses, Trusted
    <3>4. shelf'.good
      BY <3>2, <3>3 DEF TakeTokens
    <3>5. Busy(s)' = {}
      BY <1>1, <1>2, <1>5, <3>1 DEF Busy, Sole
    <3> QED BY <3>4, <3>5 DEF Sole
  <2> QED BY <2>1, <2>2 DEF InvOf
<1> QED BY <1>4, <1>5

\* Steps of the pages, of the user and of time that begin no refresh.
LEMMA QuietInv ==
  ASSUME RefreshInv, UNCHANGED <<call, spoiled>>, shelf' = shelf \/ shelf' = Gone,
         NEW s \in Session, session'[s] = session[s] \/ session'[s] = "ended"
  PROVE  InvOf(s)'
<1>1. InvOf(s) /\ Gone.of # s
  BY DEF RefreshInv, InvOf, Trusted, Gone, None, Session
<1> QED BY <1>1, Elsewhere

\* A login begins a session that nobody has tokens of.
LEMMA LoginInv ==
  ASSUME RefreshInv, NEW t \in Tab, NEW s0 \in Session, LoginAgain(t, s0), NEW s \in Session
  PROVE  InvOf(s)'
<1>0. RefreshTypeOK /\ InvOf(s)
  BY DEF RefreshInv, InvOf, Trusted
<1>1. /\ session[s0] = "none" /\ UNCHANGED <<call, spoiled>>
      /\ session' = [session EXCEPT ![s0] = "active"] /\ shelf' = [of |-> s0, good |-> TRUE]
  BY DEF LoginAgain
<1>2. CASE s # s0
  BY <1>0, <1>1, <1>2, Elsewhere DEF RefreshTypeOK
<1>3. CASE s = s0
  <2>1. Busy(s)' = {} /\ session'[s] = "active"
    BY <1>0, <1>1, <1>3 DEF InvOf, Begun, Busy, RefreshTypeOK
  <2> QED BY <1>1, <2>1 DEF InvOf, Begun, Sole
<1> QED BY <1>2, <1>3

LEMMA RefreshInvInit == RefreshInit => RefreshInv
<1> SUFFICES ASSUME RefreshInit PROVE RefreshInv
  OBVIOUS
<1>1. \A s : Busy(s) = {}
  BY DEF RefreshInit, Busy
<1>2. shelf.good /\ shelf.of = 1 /\ session[1] = "active"
  BY RefreshAssumption DEF RefreshInit, Session
<1> QED BY <1>1, <1>2, RefreshTypeInit DEF RefreshInit, RefreshInv, NoFalseAlarm, Begun, Sole

LEMMA RefreshInvStep ==
  ASSUME RefreshInv, [RefreshNext]_refreshVars
  PROVE  RefreshInv'
<1>0. RefreshTypeOK /\ RefreshTypeOK'
  BY RefreshTypeStep DEF RefreshInv
<1> SUFFICES NoFalseAlarm' /\ \A s \in Session : InvOf(s)'
  BY <1>0 DEF RefreshInv, InvOf, Trusted
<1>1. ASSUME NEW c \in Caller, CheckToken(c) PROVE NoFalseAlarm' /\ \A s \in Session : InvOf(s)'
  BY <1>1, CheckInv
<1>2. ASSUME NEW c \in Caller, RotateToken(c) \/ TakeTokens(c) \/ LoseTokens(c)
      PROVE  NoFalseAlarm' /\ \A s \in Session : InvOf(s)'
  <2>1. killed' = killed /\ spoiled \subseteq spoiled'
    BY <1>2 DEF RotateToken, TakeTokens, LoseTokens, Loses, Server
  <2> QED BY <1>2, <2>1, RotateInv, AnswerInv DEF RefreshInv, NoFalseAlarm
<1>3. ASSUME NEW c \in Caller, call[c] = NoCall, shelf # Gone, AskRefresh(c),
             UNCHANGED <<shelf, session, killed>>
      PROVE  NoFalseAlarm' /\ \A s \in Session : InvOf(s)'
  BY <1>3, AskInv DEF AskRefresh, RefreshInv, NoFalseAlarm
<1>4. ASSUME UNCHANGED <<call, spoiled, killed>>, shelf' = shelf \/ shelf' = Gone,
             \A s \in Session : session'[s] = session[s] \/ session'[s] = "ended"
      PROVE  NoFalseAlarm' /\ \A s \in Session : InvOf(s)'
  BY <1>4, QuietInv DEF RefreshInv, NoFalseAlarm
<1>5. ASSUME NEW f \in Fetch, FetchStep(f) PROVE NoFalseAlarm' /\ \A s \in Session : InvOf(s)'
  <2>1. CASE SendFetch(f)
    BY <1>4, <2>1 DEF SendFetch, Server, Browser
  <2>2. CASE HearDenial(f) /\ UNCHANGED <<call, spoiled>>
    BY <1>4, <2>2 DEF HearDenial, Server, Browser
  <2>3. CASE HearDenial(f) /\ ~UNCHANGED <<call, spoiled>>
    <3> DEFINE c == <<tabOf[f], "interceptor">>
    <3>1. c \in Caller
      BY RefreshAssumption DEF Caller
    <3>2. call[c] = NoCall /\ shelf # Gone /\ AskRefresh(c) /\ UNCHANGED <<shelf, session, killed>>
      BY <2>3 DEF HearDenial, Server, Browser
    <3> HIDE DEF c
    <3> QED BY <1>3, <3>1, <3>2
  <2> QED BY <1>5, <2>1, <2>2, <2>3 DEF FetchStep
<1>6. ASSUME NEW t \in Tab, TimerFires(t) PROVE NoFalseAlarm' /\ \A s \in Session : InvOf(s)'
  <2> DEFINE c == <<t, "timer">>
  <2>1. c \in Caller
    BY DEF Caller
  <2>2. call[c] = NoCall /\ shelf # Gone /\ AskRefresh(c) /\ UNCHANGED <<shelf, session, killed>>
    BY <1>6 DEF TimerFires, Server, Browser
  <2> HIDE DEF c
  <2> QED BY <1>3, <2>1, <2>2
<1>7. ASSUME NEW t \in Tab, Dismiss(t) PROVE NoFalseAlarm' /\ \A s \in Session : InvOf(s)'
  BY <1>0, <1>4, <1>7 DEF Dismiss, RefreshTypeOK
<1>8. ASSUME NEW t \in Tab, NEW s0 \in Session, LoginAgain(t, s0)
      PROVE  NoFalseAlarm' /\ \A s \in Session : InvOf(s)'
  BY <1>8, LoginInv DEF LoginAgain, RefreshInv, NoFalseAlarm
<1>9. CASE AccessExpires \/ Moves \/ UNCHANGED refreshVars
  BY <1>4, <1>9 DEF AccessExpires, Moves, Server, Browser, refreshVars
<1>10. ASSUME NEW s0 \in Session, SessionEnds(s0) PROVE NoFalseAlarm' /\ \A s \in Session : InvOf(s)'
  BY <1>0, <1>4, <1>10 DEF SessionEnds, Browser, RefreshTypeOK
<1> QED BY <1>1, <1>2, <1>5, <1>6, <1>7, <1>8, <1>9, <1>10 DEF RefreshNext, CallStep

\* Tabs, requests, sessions and refreshes are of their kinds.
THEOREM RefreshTypeCorrect == RefreshSpec => []RefreshTypeOK
BY RefreshTypeInit, RefreshTypeStep, PTL DEF RefreshSpec

\* The replay detection ends a session only when two of its refreshes were
\* under way at once, or an answer or the storing of a hash was lost: whatever
\* the number of tabs, requests and API processes.
THEOREM NoFalseAlarmCorrect == RefreshSpec => []NoFalseAlarm
<1>1. RefreshInv => NoFalseAlarm
  BY DEF RefreshInv
<1> QED BY <1>1, RefreshInvInit, RefreshInvStep, PTL DEF RefreshSpec

-----------------------------------------------------------------------------
(***************************************************************************)
(* The components side by side, as the run on the platform has them.       *)
(***************************************************************************)

\* Every statement, payment, refresh and tab is of its kind, whichever of the
\* components runs.
THEOREM PlatformTypesCorrect == Spec => []PlatformTypesOK
<1> DEFINE PlatformInv == DbInv /\ PayTypeOK /\ RefreshTypeOK
<1>1. Init => PlatformInv
  BY DbInitInv, PayInitTypes, RefreshTypeInit DEF Init
<1>2. PlatformInv /\ [Next]_allVars => PlatformInv'
  <2> SUFFICES ASSUME PlatformInv, [Next]_allVars PROVE PlatformInv'
    OBVIOUS
  <2>1. [DbNext]_dbVars /\ [PayNext]_payVars /\ [RefreshNext]_refreshVars
    BY DEF Next, allVars
  <2> QED BY <2>1, DbStepInv, PayStepTypes, RefreshTypeStep
<1>3. PlatformInv => PlatformTypesOK
  BY DEF PlatformTypesOK, DbInv
<1> QED BY <1>1, <1>2, <1>3, PTL DEF Spec
=============================================================================
