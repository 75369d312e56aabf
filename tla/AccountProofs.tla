---------------------------- MODULE AccountProofs ----------------------------
(***************************************************************************)
(* For every number of API processes, sessions, tokens and identities: a   *)
(* session that is over leaves the caches in time, earlier sessions end    *)
(* with a new password, a token resets the password once, a verified       *)
(* account stays and its user can sign in to it, apart from the exceptions *)
(* that AccountKept names.                                                 *)
(***************************************************************************)
EXTENDS AccountAccess, SignIn, FiniteSetTheorems, TLAPS

(***************************************************************************)
(* Sessions, their cached contexts and the tokens of password resets.      *)
(***************************************************************************)

\* A context that is still to be cached was read while the session was active,
\* at most one tick ago.
ContextInv ==
  \A w \in Server : Doing(w, "context") =>
    \/ login[task[w].row].active
    \/ login[task[w].row].since <= IF task[w].overdue THEN 1 ELSE 0

\* Without a clash one request for a token and one reset run at a time.  The
\* request has seen every open token; the reset's token is unused.
TokenInv ==
  ~clash =>
    /\ \A v, w \in Server : Doing(v, "insert") /\ Doing(w, "insert") => v = w
    /\ \A v, w \in Server : Doing(v, "reset") /\ Doing(w, "reset") => v = w
    /\ \A m, n \in Token : token[m].open /\ token[n].open => m = n
    /\ \A w \in Server, m \in Token : Doing(w, "insert") /\ token[m].open => m \in task[w].void
    /\ \A m \in Token : token[m].uses <= 1 /\ (token[m].open => token[m].uses = 0)
    /\ \A w \in Server : Doing(w, "reset") => token[task[w].token].uses = 0

-----------------------------------------------------------------------------
(* Types *)

\* The kinds of tasks by their pc.
LEMMA TaskKinds ==
  ASSUME NEW t \in Task
  PROVE  /\ t.pc = "context" => t \in [pc : {"context"}, row : Login, overdue : BOOLEAN]
         /\ t.pc \in {"open", "change", "update"} =>
              t \in [pc : {"open", "change", "update"}, current : BOOLEAN]
         /\ t.pc = "insert" => t \in [pc : {"insert"}, void : SUBSET Token]
         /\ t.pc = "reset" => t \in [pc : {"reset"}, token : Token]
BY DEF Task, NoTask

LEMMA StartType ==
  ASSUME NEW w \in Server, NEW t \in Task, task \in [Server -> Task], Start(w, t)
  PROVE  /\ task' \in [Server -> Task]
         /\ task'[w] = t
         /\ \A v \in Server \ {w} : task'[v] = task[v]
BY DEF Start

LEMMA EndedType == ASSUME NEW row \in LoginRow PROVE Ended(row) \in LoginRow /\ ~Ended(row).active
<1>1. CASE row.active
  <2>1. Ended(row) = [active |-> FALSE, since |-> 0, current |-> FALSE, spared |-> FALSE]
    BY <1>1 DEF Ended, Over
  <2> QED
    BY <2>1, AccessAssumption DEF LoginRow
<1>2. CASE ~row.active
  BY <1>2 DEF Ended, LoginRow
<1> QED
  BY <1>1, <1>2 DEF LoginRow

LEMMA OutdatedType ==
  ASSUME NEW t \in Task
  PROVE  /\ Outdated(t) \in Task /\ Outdated(t).pc = t.pc
         /\ t.pc \notin {"open", "change", "update"} => Outdated(t) = t
<1>1. CASE t.pc \in {"open", "change", "update"}
  <2>1. t \in [pc : {"open", "change", "update"}, current : BOOLEAN]
    BY <1>1, TaskKinds
  <2> QED
    BY <1>1, <2>1 DEF Outdated, Task
<1>2. CASE t.pc \notin {"open", "change", "update"}
  BY <1>2 DEF Outdated
<1> QED
  BY <1>1, <1>2

\* What a new password does to the sessions and the tasks.
LEMMA NewPasswordEffect ==
  ASSUME AccessTypeOK, NEW w \in Server, NewPassword(w)
  PROVE  /\ login' \in [Login -> LoginRow] /\ task' \in [Server -> Task]
         /\ \A r \in Login : /\ login'[r].active = login[r].active
                             /\ login'[r].since = login[r].since
         /\ task'[w] = [pc |-> "sweep"]
         /\ \A v \in Server \ {w} : /\ task'[v].pc = task[v].pc
                                    /\ task[v].pc \notin {"open", "change", "update"} =>
                                         task'[v] = task[v]
<1>1. \A r \in Login : login[r] \in LoginRow
  BY DEF AccessTypeOK
<1>2. \A r \in Login : [login[r] EXCEPT !.current = FALSE, !.spared = FALSE] \in LoginRow
  BY <1>1 DEF LoginRow
<1>3. \A v \in Server : task[v] \in Task
  BY DEF AccessTypeOK
<1>4. [pc |-> "sweep"] \in Task
  BY DEF Task
<1>5. login' \in [Login -> LoginRow] /\ \A r \in Login : /\ login'[r].active = login[r].active
                                                         /\ login'[r].since = login[r].since
  BY <1>1, <1>2 DEF NewPassword, LoginRow
<1> QED
  BY <1>3, <1>4, <1>5, OutdatedType DEF NewPassword

LEMMA UsedType ==
  ASSUME NEW row \in [open : BOOLEAN, uses : 0 .. 2]
  PROVE  /\ Used(row) \in [open : BOOLEAN, uses : 0 .. 2]
         /\ ~Used(row).open /\ (row.uses = 0 => Used(row).uses = 1)
BY DEF Used

LEMMA TickType ==
  ASSUME AccessTypeOK, AccessTick
  PROVE  /\ AccessTypeOK'
         /\ \A r \in Login :
              /\ login'[r] = [login[r] EXCEPT !.since = login'[r].since]
              /\ login'[r].active = login[r].active
              /\ login'[r].since = IF login[r].active \/ login[r].since = Lifetime + 1
                                   THEN login[r].since ELSE login[r].since + 1
         /\ \A w \in Server : \A r \in Login : cached'[w][r] = Left(cached[w][r])
         /\ \A w \in Server : /\ task'[w].pc = task[w].pc
                              /\ task[w].pc # "context" => task'[w] = task[w]
                              /\ task[w].pc = "context" => task'[w].row = task[w].row
                                                           /\ task'[w].overdue
<1>1. \A r \in Login : login[r] \in LoginRow
  BY DEF AccessTypeOK
<1>2. \A r \in Login :
        /\ login'[r] \in LoginRow
        /\ login'[r] = [login[r] EXCEPT !.since = login'[r].since]
        /\ login'[r].active = login[r].active
        /\ login'[r].since = IF login[r].active \/ login[r].since = Lifetime + 1
                             THEN login[r].since ELSE login[r].since + 1
  <2> TAKE r \in Login
  <2> DEFINE s == IF login[r].active \/ login[r].since = Lifetime + 1
                  THEN login[r].since ELSE login[r].since + 1
  <2>1. login[r] \in LoginRow /\ login[r].since \in 0 .. Lifetime + 1
    BY <1>1 DEF LoginRow
  <2>2. s \in 0 .. Lifetime + 1
    BY <2>1, AccessAssumption
  <2>3. login'[r] = [login[r] EXCEPT !.since = s]
    BY DEF AccessTick
  <2> HIDE DEF s
  <2>4. login'[r] \in LoginRow /\ login'[r].since = s /\ login'[r].active = login[r].active
    BY <2>1, <2>2, <2>3 DEF LoginRow
  <2> QED
    BY <2>3, <2>4 DEF s
<1>3. login' \in [Login -> LoginRow]
  BY <1>2 DEF AccessTick
<1>4. \A w \in Server : \A r \in Login : cached[w][r] \in 0 .. Lifetime
  BY DEF AccessTypeOK
<1>5. /\ cached' \in [Server -> [Login -> 0 .. Lifetime]]
      /\ \A w \in Server : \A r \in Login : cached'[w][r] = Left(cached[w][r])
  <2>1. \A n \in 0 .. Lifetime : Left(n) \in 0 .. Lifetime
    BY AccessAssumption DEF Left
  <2>2. cached' = [w \in Server |-> [r \in Login |-> Left(cached[w][r])]]
    BY DEF AccessTick
  <2> QED
    BY <1>4, <2>1, <2>2
<1>6. \A w \in Server : /\ task'[w] \in Task /\ task'[w].pc = task[w].pc
                        /\ task[w].pc # "context" => task'[w] = task[w]
                        /\ task[w].pc = "context" => task'[w].row = task[w].row
                                                     /\ task'[w].overdue
  <2> TAKE w \in Server
  <2>1. task[w] \in Task
    BY DEF AccessTypeOK
  <2>2. CASE task[w].pc = "context"
    <3>1. task[w] \in [pc : {"context"}, row : Login, overdue : BOOLEAN]
      BY <2>1, <2>2, TaskKinds
    <3>2. task'[w] = [task[w] EXCEPT !.overdue = TRUE]
      BY <2>2 DEF AccessTick, Doing
    <3> QED
      BY <2>2, <3>1, <3>2 DEF Task
  <2>3. CASE task[w].pc # "context"
    BY <2>1, <2>3 DEF AccessTick, Doing
  <2> QED
    BY <2>2, <2>3
<1>7. task' \in [Server -> Task]
  BY <1>6 DEF AccessTick
<1> QED
  BY <1>2, <1>3, <1>5, <1>6, <1>7 DEF AccessTypeOK, AccessTick

LEMMA AccessStepTypes == AccessTypeOK /\ [AccessNext]_accessVars => AccessTypeOK'
<1> SUFFICES ASSUME AccessTypeOK, [AccessNext]_accessVars PROVE AccessTypeOK'
  OBVIOUS
<1>1. /\ \A r \in Login : login[r] \in LoginRow
      /\ \A m \in Token : token[m] \in [open : BOOLEAN, uses : 0 .. 2]
      /\ \A w \in Server : task[w] \in Task
      /\ \A w \in Server : cached[w] \in [Login -> 0 .. Lifetime]
  BY DEF AccessTypeOK
<1>2. NoTask \in Task
  BY DEF Task
<1>3. CASE AccessTick
  BY <1>3, TickType
<1>4. ASSUME NEW m \in Token, TokenExpires(m) PROVE AccessTypeOK'
  BY <1>1, <1>4 DEF TokenExpires, AccessTypeOK
<1>5. ASSUME NEW w \in Server, PutContext(w) PROVE AccessTypeOK'
  <2>1. task[w].row \in Login
    BY <1>1, <1>5, TaskKinds DEF PutContext, Doing
  <2>2. cached' \in [Server -> [Login -> 0 .. Lifetime]]
    BY <1>5, <2>1, AccessAssumption DEF PutContext, AccessTypeOK
  <2> QED
    BY <1>2, <1>5, <2>2, StartType DEF PutContext, Finish, AccessTypeOK
<1>6. ASSUME NEW w \in Server, ChangePassword(w) PROVE AccessTypeOK'
  BY <1>2, <1>6, StartType, NewPasswordEffect DEF ChangePassword, Finish, AccessTypeOK
<1>7. ASSUME NEW w \in Server, SweepSessions(w) PROVE AccessTypeOK'
  <2>1. \A r \in Login : [login[r] EXCEPT !.spared = login[r].active /\ ~login[r].current] \in LoginRow
    BY <1>1 DEF LoginRow
  <2>2. login' \in [Login -> LoginRow]
    BY <1>1, <1>7, <2>1, EndedType DEF SweepSessions, Swept
  <2> QED
    BY <1>2, <1>7, <2>2, StartType DEF SweepSessions, Finish, AccessTypeOK
<1>8. ASSUME NEW w \in Server, VoidTokens(w) PROVE AccessTypeOK'
  <2>1. [pc |-> "insert", void |-> {m \in Token : token[m].open}] \in Task
    BY DEF Task
  <2>2. clash' \in BOOLEAN
    BY <1>8 DEF VoidTokens, AccessTypeOK, Runs
  <2> QED
    BY <1>8, <2>1, <2>2, StartType DEF VoidTokens, AccessTypeOK
<1>9. ASSUME NEW w \in Server, ResetPassword(w) PROVE AccessTypeOK'
  <2>1. token' \in [Token -> [open : BOOLEAN, uses : 0 .. 2]]
    BY <1>1, <1>9, UsedType DEF ResetPassword, AccessTypeOK
  <2> QED
    BY <1>9, <2>1, NewPasswordEffect DEF ResetPassword, AccessTypeOK
<1>10. ASSUME NEW w \in Server, NEW pc \in {"open", "change"}, CheckPassword(w, pc) PROVE AccessTypeOK'
  <2>1. [pc |-> pc, current |-> TRUE] \in Task
    BY DEF Task
  <2> QED
    BY <1>10, <2>1, StartType DEF CheckPassword, AccessTypeOK
<1>11. ASSUME NEW w \in Server, NEW r \in Login, ReadContext(w, r) PROVE AccessTypeOK'
  <2>1. [pc |-> "context", row |-> r, overdue |-> FALSE] \in Task
    BY DEF Task
  <2> QED
    BY <1>11, <2>1, StartType DEF ReadContext, AccessTypeOK
<1>12. ASSUME NEW w \in Server, NEW r \in Login, Logout(w, r) PROVE AccessTypeOK'
  BY <1>1, <1>12, EndedType DEF Logout, AccessTypeOK
<1>13. ASSUME NEW w \in Server, NEW r \in Login, OpenSession(w, r) PROVE AccessTypeOK'
  <2>1. task[w] \in [pc : {"open", "change", "update"}, current : BOOLEAN]
    BY <1>1, <1>13, TaskKinds DEF OpenSession, Doing
  <2>2. [active |-> TRUE, since |-> 0, current |-> task[w].current, spared |-> ~task[w].current]
          \in LoginRow
    BY <2>1, AccessAssumption DEF LoginRow
  <2>3. login' \in [Login -> LoginRow]
    BY <1>13, <2>2 DEF OpenSession, OpenLogin, AccessTypeOK
  <2>4. [task[w] EXCEPT !.pc = "update"] \in Task
    BY <2>1 DEF Task
  <2> QED
    BY <1>2, <1>13, <2>3, <2>4, StartType DEF OpenSession, Finish, AccessTypeOK
<1>14. ASSUME NEW w \in Server, NEW m \in Token, InsertToken(w, m) PROVE AccessTypeOK'
  <2>1. task[w].void \in SUBSET Token
    BY <1>1, <1>14, TaskKinds DEF InsertToken, Doing
  <2>2. token' \in [Token -> [open : BOOLEAN, uses : 0 .. 2]]
    BY <1>1, <1>14 DEF InsertToken, Issued
  <2> QED
    BY <1>2, <1>14, <2>2, StartType DEF InsertToken, Finish, AccessTypeOK
<1>15. ASSUME NEW w \in Server, NEW m \in Token, FindToken(w, m) PROVE AccessTypeOK'
  <2>1. [pc |-> "reset", token |-> m] \in Task
    BY DEF Task
  <2>2. clash' \in BOOLEAN
    BY <1>15 DEF FindToken, AccessTypeOK, Runs
  <2> QED
    BY <1>15, <2>1, <2>2, StartType DEF FindToken, AccessTypeOK
<1>16. CASE UNCHANGED accessVars
  BY <1>16 DEF accessVars, AccessTypeOK
<1> QED
  BY <1>3, <1>4, <1>5, <1>6, <1>7, <1>8, <1>9, <1>10, <1>11, <1>12, <1>13, <1>14, <1>15, <1>16
  DEF AccessNext

LEMMA AccessInitTypes == AccessInit => AccessTypeOK
<1> SUFFICES ASSUME AccessInit PROVE AccessTypeOK
  OBVIOUS
<1>1. Over \in LoginRow
  BY AccessAssumption DEF Over, LoginRow
<1>2. NoTask \in Task
  BY DEF Task
<1>3. 0 \in 0 .. Lifetime /\ [open |-> FALSE, uses |-> 0] \in [open : BOOLEAN, uses : 0 .. 2]
  BY AccessAssumption
<1> QED
  BY <1>1, <1>2, <1>3 DEF AccessInit, AccessTypeOK

\* The variables have their types.
THEOREM AccessTypeCorrect == AccessSpec => []AccessTypeOK
BY AccessInitTypes, AccessStepTypes, PTL DEF AccessSpec

-----------------------------------------------------------------------------
(* Sessions that are over *)

\* But for the clock, a step opens a session, ends it now or leaves it alone.
LEMMA RowStep ==
  ASSUME AccessTypeOK, AccessNext, ~AccessTick, NEW r \in Login
  PROVE  \/ login'[r].active
         \/ login'[r].since = 0
         \/ login'[r].active = login[r].active /\ login'[r].since = login[r].since
<1> DEFINE P == \/ login'[r].active
                \/ login'[r].since = 0
                \/ login'[r].active = login[r].active /\ login'[r].since = login[r].since
<1>1. login[r] \in LoginRow /\ login \in [Login -> LoginRow]
  BY DEF AccessTypeOK
<1>2. Ended(login[r]).since = 0 \/ Ended(login[r]) = login[r]
  BY DEF Ended, Over
<1>3. CASE UNCHANGED login
  BY <1>3
<1>4. ASSUME NEW w \in Server, NewPassword(w) PROVE P
  BY <1>4, NewPasswordEffect
<1>5. ASSUME NEW w \in Server, SweepSessions(w) PROVE P
  <2>1. CASE login' = Swept
    BY <1>1, <1>2, <2>1 DEF Swept
  <2>2. CASE login' = [q \in Login |-> [login[q] EXCEPT !.spared = login[q].active /\ ~login[q].current]]
    <3>1. login'[r] = [login[r] EXCEPT !.spared = login[r].active /\ ~login[r].current]
      BY <2>2
    <3> QED
      BY <1>1, <3>1 DEF LoginRow
  <2> QED
    BY <1>5, <2>1, <2>2 DEF SweepSessions
<1>6. ASSUME NEW w \in Server, NEW q \in Login, Logout(w, q) PROVE P
  BY <1>1, <1>2, <1>6 DEF Logout
<1>7. ASSUME NEW w \in Server, NEW q \in Login, OpenSession(w, q) PROVE P
  BY <1>1, <1>7 DEF OpenSession, OpenLogin
<1> QED
  BY <1>3, <1>4, <1>5, <1>6, <1>7
  DEF AccessNext, TokenExpires, PutContext, ChangePassword, VoidTokens, ResetPassword, CheckPassword,
      ReadContext, InsertToken, FindToken

\* But for the clock, a context read before the step was there, or is read by
\* it from a session that is active.
LEMMA ContextStep ==
  ASSUME AccessTypeOK, AccessNext, ~AccessTick, NEW v \in Server, task'[v].pc = "context"
  PROVE  \/ task'[v] = task[v]
         \/ login'[task'[v].row].active
<1> DEFINE P == \/ task'[v] = task[v]
                \/ login'[task'[v].row].active
<1>1. task \in [Server -> Task] /\ NoTask \in Task
  BY DEF AccessTypeOK, Task
<1>2. CASE task' = task
  BY <1>2
<1>3. ASSUME NEW w \in Server, NewPassword(w) PROVE P
  BY <1>3, NewPasswordEffect
<1>4. ASSUME NEW w \in Server, Finish(w) PROVE P
  BY <1>1, <1>4 DEF Finish, Start, NoTask
<1>5. ASSUME NEW w \in Server, VoidTokens(w) PROVE P
  BY <1>1, <1>5 DEF VoidTokens, Start
<1>6. ASSUME NEW w \in Server, NEW pc \in {"open", "change"}, CheckPassword(w, pc) PROVE P
  BY <1>1, <1>6 DEF CheckPassword, Start
<1>7. ASSUME NEW w \in Server, NEW m \in Token, FindToken(w, m) PROVE P
  BY <1>1, <1>7 DEF FindToken, Start
<1>8. ASSUME NEW w \in Server, NEW r \in Login, ReadContext(w, r) PROVE P
  BY <1>1, <1>8 DEF ReadContext, Start
<1>9. ASSUME NEW w \in Server, NEW r \in Login, OpenSession(w, r) PROVE P
  <2>1. CASE Finish(w)
    BY <1>4, <2>1
  <2>2. CASE Start(w, [task[w] EXCEPT !.pc = "update"])
    <3>1. task[w] \in [pc : {"open", "change", "update"}, current : BOOLEAN]
      BY <1>1, <1>9, TaskKinds DEF OpenSession, Doing
    <3>2. task'[w].pc = "update"
      BY <1>1, <2>2, <3>1 DEF Start
    <3> QED
      BY <1>1, <2>2, <3>2 DEF Start
  <2> QED
    BY <1>9, <2>1, <2>2 DEF OpenSession
<1> QED
  BY <1>2, <1>3, <1>4, <1>5, <1>6, <1>7, <1>8, <1>9
  DEF AccessNext, TokenExpires, PutContext, ChangePassword, ResetPassword, SweepSessions, Logout,
      InsertToken

LEMMA RevokedInit == AccessInit => ContextInv /\ RevokedSoon
BY DEF AccessInit, ContextInv, RevokedSoon, Doing, NoTask

LEMMA RevokedStep ==
  AccessTypeOK /\ ContextInv /\ RevokedSoon /\ [AccessNext]_accessVars
    => ContextInv' /\ RevokedSoon'
<1> SUFFICES ASSUME AccessTypeOK, ContextInv, RevokedSoon, [AccessNext]_accessVars
             PROVE  ContextInv' /\ RevokedSoon'
  OBVIOUS
<1>1. /\ \A r \in Login : login[r].since \in 0 .. Lifetime + 1
      /\ \A w \in Server : \A r \in Login : cached[w][r] \in 0 .. Lifetime
      /\ \A w \in Server : task[w] \in Task
  BY DEF AccessTypeOK, LoginRow
<1>2. \A w \in Server : Doing(w, "context") => task[w].row \in Login
  BY <1>1, TaskKinds DEF Doing
<1>3. CASE UNCHANGED accessVars
  BY <1>3 DEF accessVars, ContextInv, RevokedSoon, Doing
<1>4. CASE AccessTick
  <2>1. ContextInv'
    <3> SUFFICES ASSUME NEW w \in Server, task'[w].pc = "context"
                 PROVE  /\ task'[w].overdue
                        /\ login'[task'[w].row].active \/ login'[task'[w].row].since <= 1
      BY DEF ContextInv, Doing
    <3> DEFINE r == task[w].row
    <3>1. task[w].pc = "context" /\ task'[w].row = r /\ task'[w].overdue
      BY <1>4, TickType
    <3>2. r \in Login /\ ~task[w].overdue
      BY <1>2, <1>4, <3>1 DEF AccessTick, Doing
    <3>3. login[r].active \/ login[r].since <= 0
      BY <3>1, <3>2 DEF ContextInv, Doing
    <3>4. /\ login'[r].active = login[r].active
          /\ login'[r].since = IF login[r].active \/ login[r].since = Lifetime + 1
                               THEN login[r].since ELSE login[r].since + 1
      BY <1>4, <3>2, TickType
    <3>5. login'[r].active \/ login'[r].since <= 1
      BY <1>1, <3>2, <3>3, <3>4, AccessAssumption
    <3> QED
      BY <3>1, <3>5
  <2>2. RevokedSoon'
    <3> SUFFICES ASSUME NEW w \in Server, NEW r \in Login, cached'[w][r] > 0
                 PROVE  login'[r].active \/ login'[r].since + cached'[w][r] <= Lifetime + 1
      BY DEF RevokedSoon
    <3>1. cached[w][r] > 0 /\ cached'[w][r] = cached[w][r] - 1
      BY <1>1, <1>4, TickType DEF Left
    <3>2. login[r].active \/ login[r].since + cached[w][r] <= Lifetime + 1
      BY <3>1 DEF RevokedSoon
    <3> DEFINE since == IF login[r].active \/ login[r].since = Lifetime + 1
                        THEN login[r].since ELSE login[r].since + 1
    <3>3. login'[r].since = since
      BY <1>4, TickType
    <3>4. login'[r].since \in 0 .. Lifetime + 1
      BY <1>4, TickType DEF AccessTypeOK, LoginRow
    <3>5. login'[r].active = login[r].active
      BY <1>4, TickType
    <3> QED
      BY <1>1, <3>1, <3>2, <3>3, <3>4, <3>5, AccessAssumption
  <2> QED
    BY <2>1, <2>2
<1>5. CASE AccessNext /\ ~AccessTick
  <2>1. ContextInv'
    <3> SUFFICES ASSUME NEW w \in Server, task'[w].pc = "context", ~login'[task'[w].row].active
                 PROVE  login'[task'[w].row].since <= IF task'[w].overdue THEN 1 ELSE 0
      BY DEF ContextInv, Doing
    <3>1. task'[w] = task[w]
      BY <1>5, ContextStep
    <3>2. task[w].row \in Login
      BY <1>2, <3>1 DEF Doing
    <3>3. \/ login[task[w].row].active
          \/ login[task[w].row].since <= IF task[w].overdue THEN 1 ELSE 0
      BY <3>1 DEF ContextInv, Doing
    <3> QED
      BY <1>1, <1>5, <3>1, <3>2, <3>3, RowStep
  <2>2. RevokedSoon'
    <3> SUFFICES ASSUME NEW w \in Server, NEW r \in Login, cached'[w][r] > 0
                 PROVE  login'[r].active \/ login'[r].since + cached'[w][r] <= Lifetime + 1
      BY DEF RevokedSoon
    <3>1. CASE cached' = cached
      BY <1>1, <1>5, <3>1, RowStep, AccessAssumption DEF RevokedSoon
    <3>2. ASSUME NEW v \in Server, PutContext(v)
          PROVE  login'[r].active \/ login'[r].since + cached'[w][r] <= Lifetime + 1
      <4>1. login' = login /\ Doing(v, "context")
        BY <3>2 DEF PutContext
      <4>2. CASE w = v /\ r = task[v].row
        <5>1. login[r].active \/ login[r].since <= IF task[v].overdue THEN 1 ELSE 0
          BY <4>1, <4>2 DEF ContextInv
        <5>2. cached'[w][r] = Lifetime
          BY <1>2, <3>2, <4>2 DEF PutContext, AccessTypeOK
        <5> QED
          BY <1>1, <4>1, <5>1, <5>2, AccessAssumption
      <4>3. CASE ~(w = v /\ r = task[v].row)
        <5>1. cached'[w][r] = cached[w][r]
          BY <1>2, <3>2, <4>1, <4>3 DEF PutContext, AccessTypeOK
        <5> QED
          BY <4>1, <5>1 DEF RevokedSoon
      <4> QED
        BY <4>2, <4>3
    <3> QED
      BY <1>5, <3>1, <3>2
      DEF AccessNext, TokenExpires, ChangePassword, VoidTokens, ResetPassword, CheckPassword,
          ReadContext, InsertToken, FindToken, SweepSessions, Logout, OpenSession
  <2> QED
    BY <2>1, <2>2
<1> QED
  BY <1>3, <1>4, <1>5

\* A session that is over is accepted by no process once a cache entry's
\* lifetime and the duration of a request have passed.
THEOREM RevokedSoonCorrect == AccessSpec => []RevokedSoon
BY AccessInitTypes, AccessStepTypes, RevokedInit, RevokedStep, PTL DEF AccessSpec

-----------------------------------------------------------------------------
(* Earlier sessions *)

LEMMA OldSessionsStep ==
  AccessTypeOK /\ OldSessionsEnd /\ [AccessNext]_accessVars => OldSessionsEnd'
<1> SUFFICES ASSUME AccessTypeOK, OldSessionsEnd, [AccessNext]_accessVars,
                    NEW r \in Login, login'[r].active, ~login'[r].current, ~login'[r].spared
             PROVE  Runs("sweep")'
  BY DEF OldSessionsEnd
<1>1. /\ login[r] \in LoginRow /\ login \in [Login -> LoginRow]
      /\ task \in [Server -> Task]
      /\ \A w \in Server : task[w] \in Task
  BY DEF AccessTypeOK
<1>2. ASSUME login'[r] = login[r],
             \A v \in Server : task[v].pc = "sweep" => task'[v].pc = "sweep"
      PROVE  Runs("sweep")'
  BY <1>2 DEF OldSessionsEnd, Runs, Doing
<1>3. ASSUME NEW w \in Server, NEW t \in Task, Start(w, t), ~Doing(w, "sweep"),
             login' = login
      PROVE  Runs("sweep")'
  BY <1>1, <1>2, <1>3 DEF Start, Doing
<1>4. NoTask \in Task
  BY DEF Task
<1>5. ASSUME NEW w \in Server, NewPassword(w) PROVE Runs("sweep")'
  BY <1>5, NewPasswordEffect DEF Runs, Doing
<1>6. CASE AccessTick
  <2>1. login'[r] = [login[r] EXCEPT !.since = login'[r].since]
    BY <1>6, TickType
  <2>2. /\ login'[r].active = login[r].active /\ login'[r].current = login[r].current
        /\ login'[r].spared = login[r].spared
    BY <1>1, <2>1 DEF LoginRow
  <2>3. \A v \in Server : task'[v].pc = task[v].pc
    BY <1>6, TickType
  <2> QED
    BY <2>2, <2>3 DEF OldSessionsEnd, Runs, Doing
<1>7. ASSUME NEW m \in Token, TokenExpires(m) PROVE Runs("sweep")'
  BY <1>2, <1>7 DEF TokenExpires
<1>8. ASSUME NEW w \in Server, PutContext(w) PROVE Runs("sweep")'
  BY <1>3, <1>4, <1>8 DEF PutContext, Finish, Doing
<1>9. ASSUME NEW w \in Server, ChangePassword(w) PROVE Runs("sweep")'
  BY <1>3, <1>4, <1>5, <1>9 DEF ChangePassword, Finish, Doing
<1>10. ASSUME NEW w \in Server, SweepSessions(w) PROVE Runs("sweep")'
  <2>1. CASE login' = Swept
    BY <1>1, <2>1, EndedType DEF Swept
  <2>2. CASE login' = [q \in Login |-> [login[q] EXCEPT !.spared = login[q].active /\ ~login[q].current]]
    <3>1. login'[r] = [login[r] EXCEPT !.spared = login[r].active /\ ~login[r].current]
      BY <2>2
    <3>2. /\ login'[r].active = login[r].active /\ login'[r].current = login[r].current
          /\ login'[r].spared = (login[r].active /\ ~login[r].current)
      BY <1>1, <3>1 DEF LoginRow
    <3> QED
      BY <3>2
  <2> QED
    BY <1>10, <2>1, <2>2 DEF SweepSessions
<1>11. ASSUME NEW w \in Server, VoidTokens(w) PROVE Runs("sweep")'
  <2>1. [pc |-> "insert", void |-> {m \in Token : token[m].open}] \in Task
    BY DEF Task
  <2> QED
    BY <1>3, <1>11, <2>1 DEF VoidTokens, Idles, NoTask, Doing
<1>12. ASSUME NEW w \in Server, ResetPassword(w) PROVE Runs("sweep")'
  BY <1>5, <1>12 DEF ResetPassword
<1>13. ASSUME NEW w \in Server, NEW pc \in {"open", "change"}, CheckPassword(w, pc)
       PROVE  Runs("sweep")'
  <2>1. [pc |-> pc, current |-> TRUE] \in Task
    BY DEF Task
  <2> QED
    BY <1>3, <1>13, <2>1 DEF CheckPassword, Idles, NoTask, Doing
<1>14. ASSUME NEW w \in Server, NEW q \in Login, ReadContext(w, q) PROVE Runs("sweep")'
  <2>1. [pc |-> "context", row |-> q, overdue |-> FALSE] \in Task
    BY DEF Task
  <2> QED
    BY <1>3, <1>14, <2>1 DEF ReadContext, Idles, NoTask, Doing
<1>15. ASSUME NEW w \in Server, NEW q \in Login, Logout(w, q) PROVE Runs("sweep")'
  <2>1. login'[r] = login[r]
    BY <1>1, <1>15, EndedType DEF Logout
  <2> QED
    BY <1>2, <1>15, <2>1 DEF Logout
<1>16. ASSUME NEW w \in Server, NEW q \in Login, OpenSession(w, q) PROVE Runs("sweep")'
  <2>1. q # r
    BY <1>1, <1>16 DEF OpenSession, OpenLogin
  <2>2. login'[r] = login[r]
    BY <1>1, <1>16, <2>1 DEF OpenSession, OpenLogin
  <2>3. task[w].pc # "sweep" /\ \A v \in Server \ {w} : task'[v] = task[v]
    BY <1>1, <1>16 DEF OpenSession, Finish, Start, Doing
  <2> QED
    BY <1>2, <2>2, <2>3
<1>17. ASSUME NEW w \in Server, NEW m \in Token, InsertToken(w, m) PROVE Runs("sweep")'
  BY <1>3, <1>4, <1>17 DEF InsertToken, Finish, Doing
<1>18. ASSUME NEW w \in Server, NEW m \in Token, FindToken(w, m) PROVE Runs("sweep")'
  <2>1. [pc |-> "reset", token |-> m] \in Task
    BY DEF Task
  <2> QED
    BY <1>3, <1>18, <2>1 DEF FindToken, Idles, NoTask, Doing
<1>19. CASE UNCHANGED accessVars
  BY <1>2, <1>19 DEF accessVars
<1> QED
  BY <1>5, <1>6, <1>7, <1>8, <1>9, <1>10, <1>11, <1>12, <1>13, <1>14, <1>15, <1>16, <1>17, <1>18, <1>19
  DEF AccessNext

\* Sessions opened with an earlier password are over or being ended.
THEOREM OldSessionsEndCorrect == AccessSpec => []OldSessionsEnd
<1>1. AccessInit => OldSessionsEnd
  BY DEF AccessInit, OldSessionsEnd, Over
<1> QED
  BY <1>1, AccessInitTypes, AccessStepTypes, OldSessionsStep, PTL DEF AccessSpec

-----------------------------------------------------------------------------
(* Reset tokens *)

\* Only a request for a token and a reset start one.
LEMMA TokenTaskStep ==
  ASSUME AccessTypeOK, AccessNext, NEW v \in Server, task'[v].pc \in {"insert", "reset"}
  PROVE  \/ task'[v] = task[v]
         \/ VoidTokens(v)
         \/ \E m \in Token : FindToken(v, m)
<1> DEFINE P == \/ task'[v] = task[v]
                \/ VoidTokens(v)
                \/ \E m \in Token : FindToken(v, m)
<1>1. task \in [Server -> Task] /\ NoTask \in Task
  BY DEF AccessTypeOK, Task
<1>2. CASE task' = task
  BY <1>2
<1>3. ASSUME NEW w \in Server, NewPassword(w) PROVE P
  BY <1>3, NewPasswordEffect
<1>4. ASSUME NEW w \in Server, Finish(w) PROVE P
  BY <1>1, <1>4 DEF Finish, Start, NoTask
<1>5. ASSUME NEW w \in Server, VoidTokens(w) PROVE P
  BY <1>1, <1>5 DEF VoidTokens, Start
<1>6. ASSUME NEW w \in Server, NEW pc \in {"open", "change"}, CheckPassword(w, pc) PROVE P
  BY <1>1, <1>6 DEF CheckPassword, Start
<1>7. ASSUME NEW w \in Server, NEW m \in Token, FindToken(w, m) PROVE P
  <2>1. CASE v = w
    BY <1>7, <2>1
  <2>2. CASE v # w
    BY <1>1, <1>7, <2>2 DEF FindToken, Start
  <2> QED
    BY <2>1, <2>2
<1>8. ASSUME NEW w \in Server, NEW r \in Login, ReadContext(w, r) PROVE P
  BY <1>1, <1>8 DEF ReadContext, Start
<1>9. ASSUME NEW w \in Server, NEW r \in Login, OpenSession(w, r) PROVE P
  <2>1. CASE Finish(w)
    BY <1>4, <2>1
  <2>2. CASE Start(w, [task[w] EXCEPT !.pc = "update"])
    <3>1. task[w] \in [pc : {"open", "change", "update"}, current : BOOLEAN]
      BY <1>1, <1>9, TaskKinds DEF OpenSession, Doing
    <3>2. task'[w].pc = "update"
      BY <1>1, <2>2, <3>1 DEF Start
    <3> QED
      BY <1>1, <2>2, <3>2 DEF Start
  <2> QED
    BY <1>9, <2>1, <2>2 DEF OpenSession
<1>10. CASE AccessTick
  BY <1>10, TickType
<1> QED
  BY <1>2, <1>3, <1>4, <1>5, <1>6, <1>7, <1>8, <1>9, <1>10
  DEF AccessNext, TokenExpires, PutContext, ChangePassword, ResetPassword, SweepSessions, Logout,
      InsertToken

LEMMA TokenInit == AccessInit => TokenInv
BY DEF AccessInit, TokenInv, Doing, NoTask

LEMMA TokenStep == AccessTypeOK /\ TokenInv /\ [AccessNext]_accessVars => TokenInv'
<1>1. CASE UNCHANGED accessVars
  BY <1>1 DEF accessVars, TokenInv, Doing
<1>2. CASE AccessNext
  <2> SUFFICES ASSUME AccessTypeOK, TokenInv, AccessNext, ~clash' PROVE TokenInv'
    BY <1>2 DEF TokenInv
  <2> DEFINE Kept == \A v \in Server : task'[v].pc \in {"insert", "reset"} => task'[v] = task[v]
  <2>1. \A m \in Token : token[m] \in [open : BOOLEAN, uses : 0 .. 2]
    BY DEF AccessTypeOK
  <2>2. \A w \in Server : /\ Doing(w, "insert") => task[w].void \in SUBSET Token
                          /\ Doing(w, "reset") => task[w].token \in Token
    BY TaskKinds DEF AccessTypeOK, Doing
  <2>3. CASE UNCHANGED <<token, clash>> /\ Kept
    BY <2>3 DEF TokenInv, Doing
  <2>4. ASSUME NEW w \in Server, VoidTokens(w) PROVE TokenInv'
    <3>1. /\ token' = token /\ ~clash /\ ~Runs("insert")
          /\ task'[w] = [pc |-> "insert", void |-> {m \in Token : token[m].open}]
          /\ \A v \in Server \ {w} : task'[v] = task[v]
      BY <2>4 DEF VoidTokens, Start, AccessTypeOK
    <3> QED
      BY <3>1 DEF TokenInv, Runs, Doing
  <2>5. ASSUME NEW w \in Server, NEW m \in Token, FindToken(w, m) PROVE TokenInv'
    <3>1. /\ token' = token /\ ~clash /\ ~Runs("reset") /\ token[m].open
          /\ task'[w] = [pc |-> "reset", token |-> m]
          /\ \A v \in Server \ {w} : task'[v] = task[v]
      BY <2>5 DEF FindToken, Start, AccessTypeOK
    <3> QED
      BY <3>1 DEF TokenInv, Runs, Doing
  <2>6. ASSUME NEW m \in Token, TokenExpires(m) PROVE TokenInv'
    <3>1. task' = task /\ clash' = clash
      BY <2>6 DEF TokenExpires
    <3>2. \A n \in Token : token'[n].uses = token[n].uses /\ (token'[n].open => token[n].open)
      BY <2>1, <2>6 DEF TokenExpires, AccessTypeOK
    <3> QED
      BY <2>2, <3>1, <3>2 DEF TokenInv, Doing
  <2>7. ASSUME NEW w \in Server, NEW m \in Token, InsertToken(w, m) PROVE TokenInv'
    <3>1. ~clash /\ Doing(w, "insert") /\ ~Doing(w, "reset")
      BY <2>7 DEF InsertToken, Doing
    <3>2. token'[m].open /\ token'[m].uses = 0
      BY <2>7 DEF InsertToken, Issued
    <3>3. \A n \in Token \ {m} : token'[n].uses = token[n].uses /\ ~token'[n].open
      <4> TAKE n \in Token \ {m}
      <4>1. token'[n] = [token[n] EXCEPT !.open = token[n].open /\ n \notin task[w].void]
        BY <2>7 DEF InsertToken, Issued
      <4>2. token[n].open => n \in task[w].void
        BY <3>1 DEF TokenInv
      <4> QED
        BY <2>1, <4>1, <4>2
    <3>4. task'[w] = NoTask /\ \A v \in Server \ {w} : task'[v] = task[v]
      BY <2>7 DEF InsertToken, Finish, Start, AccessTypeOK
    <3>5. \A v \in Server : ~Doing(v, "insert")'
      BY <3>1, <3>4 DEF TokenInv, Doing, NoTask
    <3>6. \A v \in Server : Doing(v, "reset")' =>
            v # w /\ Doing(v, "reset") /\ task'[v].token = task[v].token /\ task[v].token # m
      BY <2>7, <3>4 DEF InsertToken, Doing, NoTask
    <3> QED
      BY <2>1, <2>2, <3>1, <3>2, <3>3, <3>5, <3>6 DEF TokenInv
  <2>8. ASSUME NEW w \in Server, ResetPassword(w) PROVE TokenInv'
    <3> DEFINE m == task[w].token
    <3>1. ~clash /\ Doing(w, "reset") /\ m \in Token
      BY <2>2, <2>8 DEF ResetPassword
    <3>2. token[m].uses = 0
      BY <3>1 DEF TokenInv
    <3>3. ~token'[m].open /\ token'[m].uses = 1
      BY <2>1, <2>8, <3>1, <3>2, UsedType DEF ResetPassword, AccessTypeOK
    <3>4. \A n \in Token \ {m} : token'[n] = token[n]
      BY <2>8, <3>1 DEF ResetPassword, AccessTypeOK
    <3>5. /\ task'[w] = [pc |-> "sweep"]
          /\ \A v \in Server \ {w} : task'[v].pc \in {"insert", "reset"} => task'[v] = task[v]
      BY <2>8, NewPasswordEffect DEF ResetPassword
    <3>6. \A v \in Server : ~Doing(v, "reset")'
      BY <3>1, <3>5 DEF TokenInv, Doing
    <3>7. \A v \in Server : Doing(v, "insert")' => Doing(v, "insert") /\ task'[v] = task[v]
      BY <3>5 DEF Doing
    <3> QED
      BY <3>1, <3>3, <3>4, <3>6, <3>7 DEF TokenInv
  <2>9. ASSUME UNCHANGED <<token, clash>>, ~\E v \in Server : VoidTokens(v),
               ~\E v \in Server : \E m \in Token : FindToken(v, m)
        PROVE  TokenInv'
    BY <2>3, <2>9, TokenTaskStep
  <2> QED
    BY <2>4, <2>5, <2>6, <2>7, <2>8, <2>9
    DEF AccessNext, AccessTick, PutContext, ChangePassword, CheckPassword, ReadContext, SweepSessions,
        Logout, OpenSession
<1> QED
  BY <1>1, <1>2

LEMMA TokenOnceHolds == AccessTypeOK /\ TokenInv => TokenOnce
<1> SUFFICES ASSUME AccessTypeOK, TokenInv, ~clash
             PROVE  Cardinality({m \in Token : token[m].open}) <= 1
  BY DEF TokenInv, TokenOnce
<1> DEFINE S == {m \in Token : token[m].open}
<1>1. CASE S = {}
  BY <1>1, FS_EmptySet
<1>2. CASE S # {}
  <2>1. PICK m \in S : S = {m}
    BY <1>2 DEF TokenInv
  <2>2. Cardinality({m}) = 1
    BY FS_Singleton
  <2> QED
    BY <2>1, <2>2
<1> QED
  BY <1>1, <1>2

\* Of requests and resets that do not overlap, one token is open at a time and
\* a token resets the password once.
THEOREM TokenOnceCorrect == AccessSpec => []TokenOnce
BY AccessInitTypes, AccessStepTypes, TokenInit, TokenStep, TokenOnceHolds, PTL DEF AccessSpec

-----------------------------------------------------------------------------
(***************************************************************************)
(* The ways to sign in to the account.                                     *)
(***************************************************************************)

\* An unverified account was registered with a password.
AccountInv ==
  /\ account.there => latest > 0
  /\ account.there /\ ~account.verified => account.password
  /\ account.there /\ account.verified => kept
  /\ ~account.there => ~account.password
  /\ doomed <= latest

\* A verified account is safe from the cleanup.
KeptInv == kept /\ ~crossed => account.there /\ account.verified /\ doomed # latest

\* The one unlink that is under way leaves a way to sign in.
UnlinkInv ==
  ~crossed =>
    /\ \A g, h \in Host : Serves(g, "unlink") /\ Serves(h, "unlink") => g = h
    /\ \A h \in Host : Serves(h, "unlink") =>
         account.password \/ Others(serving[h].identity) # {}

SignInInv == SignInTypeOK /\ AccountInv /\ KeptInv /\ UnlinkInv /\ AccountKept

-----------------------------------------------------------------------------
(* Types *)

\* The kinds of handlers by their pc.
LEMMA HandlerKinds ==
  ASSUME NEW s \in Handler
  PROVE  /\ s.pc \in {"lookup", "create"} => s.identity \in Identity
         /\ s.pc \in {"mail", "password"} => s.of \in Nat
         /\ s.pc \in {"adopt", "unlink"} => s.identity \in Identity /\ s.of \in Nat
         /\ s.pc \in {"token", "link"} =>
              s \in [pc : {"token", "link"}, identity : Identity, of : Nat, signup : BOOLEAN]
BY DEF Handler, NoHandler

LEMMA TurnsEffect ==
  ASSUME SignInTypeOK, NEW h \in Host, NEW s \in Handler, Turns(h, s)
  PROVE  /\ serving' \in [Host -> Handler]
         /\ serving'[h] = s
         /\ \A g \in Host \ {h} : serving'[g] = serving[g]
BY DEF Turns, SignInTypeOK

LEMMA LeavesEffect ==
  ASSUME SignInTypeOK, NEW h \in Host, Leaves(h)
  PROVE  /\ serving' \in [Host -> Handler]
         /\ serving'[h] = NoHandler
         /\ \A g \in Host \ {h} : serving'[g] = serving[g]
<1>1. NoHandler \in Handler
  BY DEF Handler
<1> QED
  BY <1>1, TurnsEffect DEF Leaves

\* The account after a verification, and the fresh ones, are rows.
LEMMA RowTypes ==
  /\ NoAccount \in AccountRow
  /\ [NoAccount EXCEPT !.there = TRUE, !.password = TRUE] \in AccountRow
  /\ [NoAccount EXCEPT !.there = TRUE, !.verified = TRUE] \in AccountRow
  /\ account \in AccountRow =>
       /\ [account EXCEPT !.verified = TRUE] \in AccountRow
       /\ [account EXCEPT !.mailed = TRUE] \in AccountRow
       /\ [account EXCEPT !.password = TRUE] \in AccountRow
       /\ [account EXCEPT !.old = TRUE] \in AccountRow
       /\ [[account EXCEPT !.mailed = FALSE] EXCEPT !.verified = TRUE] \in AccountRow
BY DEF AccountRow, NoAccount

\* The handlers that an action starts or goes on with.
LEMMA HandlerTypes ==
  /\ NoHandler \in Handler /\ [pc |-> "register"] \in Handler
  /\ \A n \in Nat : [pc |-> "mail", of |-> n] \in Handler /\ [pc |-> "password", of |-> n] \in Handler
  /\ \A i \in Identity : /\ [pc |-> "lookup", identity |-> i] \in Handler
                         /\ [pc |-> "create", identity |-> i] \in Handler
  /\ \A i \in Identity, n \in Nat : /\ [pc |-> "adopt", identity |-> i, of |-> n] \in Handler
                                     /\ [pc |-> "unlink", identity |-> i, of |-> n] \in Handler
BY DEF Handler

LEMMA LinkerTypes ==
  ASSUME NEW i \in Identity, NEW n \in Nat, NEW b \in BOOLEAN
  PROVE  /\ [pc |-> "token", identity |-> i, of |-> n, signup |-> b] \in Handler
         /\ [pc |-> "link", identity |-> i, of |-> n, signup |-> b] \in Handler
BY DEF Handler

LEMMA SignInTypeInit == SignInInit => SignInTypeOK
<1> SUFFICES ASSUME SignInInit PROVE SignInTypeOK
  OBVIOUS
<1>1. account \in AccountRow
  BY RowTypes DEF SignInInit
<1>2. serving \in [Host -> Handler]
  BY HandlerTypes DEF SignInInit
<1> QED
  BY <1>1, <1>2 DEF SignInInit, SignInTypeOK

LEMMA SignInTypeStep == SignInTypeOK /\ [SignInNext]_signInVars => SignInTypeOK'
<1> SUFFICES ASSUME SignInTypeOK, [SignInNext]_signInVars PROVE SignInTypeOK'
  OBVIOUS
<1> USE DEF SignInTypeOK
<1>0. CASE UNCHANGED signInVars
  BY <1>0 DEF signInVars
<1>1. CASE AccountAges
  BY <1>1, RowTypes DEF AccountAges
<1>2. CASE SelectUnverified
  BY <1>2, RowTypes DEF SelectUnverified
<1>3. CASE DeleteUnverified
  BY <1>3, RowTypes DEF DeleteUnverified, Cascade
<1>4. CASE AdminDeletes
  BY <1>4, RowTypes DEF AdminDeletes, Cascade
<1>5. ASSUME NEW h \in Host, BeginRegister(h) PROVE SignInTypeOK'
  BY <1>5, HandlerTypes, TurnsEffect DEF BeginRegister
<1>6. ASSUME NEW h \in Host, MailToken(h) PROVE SignInTypeOK'
  BY <1>6, RowTypes, HandlerKinds, LeavesEffect DEF MailToken
<1>7. ASSUME NEW h \in Host, ResendToken(h) PROVE SignInTypeOK'
  BY <1>7, RowTypes DEF ResendToken
<1>8. ASSUME NEW h \in Host, VerifyEmail(h) PROVE SignInTypeOK'
  BY <1>8, RowTypes DEF VerifyEmail, Verified
<1>9. ASSUME NEW h \in Host, LookUp(h) PROVE SignInTypeOK'
  BY <1>9, HandlerKinds, HandlerTypes, TurnsEffect, LeavesEffect DEF LookUp, Serves
<1>10. ASSUME NEW h \in Host, Unlink(h) PROVE SignInTypeOK'
  BY <1>10, LeavesEffect DEF Unlink
<1>11. ASSUME NEW h \in Host, BeginPassword(h) PROVE SignInTypeOK'
  BY <1>11, HandlerTypes, TurnsEffect DEF BeginPassword
<1>12. ASSUME NEW h \in Host, SetPassword(h) PROVE SignInTypeOK'
  BY <1>12, RowTypes, LeavesEffect DEF SetPassword
<1>13. ASSUME NEW h \in Host, HostDies(h) PROVE SignInTypeOK'
  BY <1>13, LeavesEffect DEF HostDies
<1>14. ASSUME NEW h \in Host, Adopt(h) PROVE SignInTypeOK'
  BY <1>14, RowTypes, HandlerKinds, LinkerTypes, TurnsEffect DEF Adopt, Serves, Verified
<1>15. ASSUME NEW h \in Host, MakeRegistered(h) PROVE SignInTypeOK'
  <2>1. CASE account.there
    BY <1>15, <2>1, LeavesEffect DEF MakeRegistered
  <2>2. CASE ~account.there
    <3>1. latest + 1 \in Nat
      OBVIOUS
    <3>2. [pc |-> "mail", of |-> latest + 1] \in Handler
      BY <3>1, HandlerTypes
    <3> QED
      BY <1>15, <2>2, <3>1, <3>2, RowTypes, TurnsEffect DEF MakeRegistered, NewAccount
  <2> QED
    BY <2>1, <2>2
<1>16. ASSUME NEW h \in Host, SignUp(h) PROVE SignInTypeOK'
  <2>1. CASE account.there
    BY <1>16, <2>1, LeavesEffect DEF SignUp
  <2>2. CASE ~account.there
    <3>1. serving[h].identity \in Identity /\ latest + 1 \in Nat
      BY <1>16, HandlerKinds DEF SignUp, Serves
    <3> QED
      BY <1>16, <2>2, <3>1, LinkerTypes, RowTypes, TurnsEffect DEF SignUp, NewAccount
  <2> QED
    BY <2>1, <2>2
<1>17. ASSUME NEW h \in Host, SignUpToken(h) PROVE SignInTypeOK'
  <2> DEFINE s == [serving[h] EXCEPT !.pc = "link"]
  <2>1. s \in Handler
    BY <1>17, HandlerKinds DEF SignUpToken, Serves, Handler
  <2> HIDE DEF s
  <2>2. CASE Leaves(h) /\ UNCHANGED account
    BY <1>17, <2>2, LeavesEffect DEF SignUpToken
  <2>3. CASE Turns(h, s)
    BY <1>17, <2>1, <2>3, RowTypes, TurnsEffect DEF SignUpToken, Leaves
  <2> QED
    BY <1>17, <2>2, <2>3 DEF SignUpToken, s
<1>18. ASSUME NEW h \in Host, Link(h) PROVE SignInTypeOK'
  BY <1>18, HandlerKinds, LeavesEffect DEF Link, Serves
<1>19. ASSUME NEW h \in Host, NEW i \in Identity, BeginOAuth(h, i) PROVE SignInTypeOK'
  BY <1>19, HandlerTypes, TurnsEffect DEF BeginOAuth
<1>20. ASSUME NEW h \in Host, NEW i \in Identity, ConfirmLink(h, i) PROVE SignInTypeOK'
  BY <1>20, LinkerTypes, TurnsEffect DEF ConfirmLink
<1>21. ASSUME NEW h \in Host, NEW i \in Identity, BeginLink(h, i) PROVE SignInTypeOK'
  BY <1>21, LinkerTypes, TurnsEffect DEF BeginLink
<1>22. ASSUME NEW h \in Host, NEW i \in Identity, BeginUnlink(h, i) PROVE SignInTypeOK'
  BY <1>22, HandlerTypes, TurnsEffect DEF BeginUnlink
<1> QED
  BY <1>0, <1>1, <1>2, <1>3, <1>4, <1>5, <1>6, <1>7, <1>8, <1>9, <1>10, <1>11, <1>12, <1>13, <1>14, <1>15, <1>16, <1>17, <1>18, <1>19, <1>20, <1>21, <1>22 DEF SignInNext

-----------------------------------------------------------------------------
(* The invariant *)

LEMMA SignInInvInit == SignInInit => SignInInv
<1> SUFFICES ASSUME SignInInit PROVE SignInInv
  OBVIOUS
<1>1. SignInTypeOK
  BY SignInTypeInit
<1>2. \A h \in Host : ~Serves(h, "unlink")
  BY DEF SignInInit, Serves, NoHandler
<1> QED
  BY <1>1, <1>2 DEF SignInInit, SignInInv, AccountInv, KeptInv, UnlinkInv, AccountKept, NoAccount

\* A step that takes no way to sign in, from an account that stays as it is.
AccountCalm ==
  /\ account'.there = account.there /\ account'.verified = account.verified
  /\ account.password => account'.password
  /\ ~account.there => UNCHANGED account
  /\ linked \subseteq linked'
  /\ latest' = latest /\ doomed' = doomed /\ kept' = kept /\ crossed' = crossed
  /\ cut => cut'

\* No unlink starts or changes.
SameUnlinks ==
  \A g \in Host : Serves(g, "unlink")' => Serves(g, "unlink") /\ serving'[g] = serving[g]

\* A sign-up goes on, is cut off, or has left its link.
SignUpsGoOn == \A g \in Host : SignsUp(g) => SignsUp(g)' \/ cut' \/ linked' # {}

\* As far as the process is concerned that takes the step.
OwnSignUpGoesOn(h) == SignsUp(h) => SignsUp(h)' \/ cut' \/ linked' # {}

LEMMA AccountCalmStep ==
  ASSUME SignInInv, AccountCalm, SameUnlinks, SignUpsGoOn
  PROVE  AccountInv' /\ KeptInv' /\ UnlinkInv' /\ AccountKept'
<1> USE DEF AccountCalm, SameUnlinks, SignUpsGoOn
<1>1. AccountInv'
  BY DEF SignInInv, AccountInv, SignInTypeOK, AccountRow
<1>2. KeptInv'
  BY DEF SignInInv, KeptInv
<1>3. UnlinkInv'
  <2>1. \A i \in Identity : Others(i) \subseteq Others(i)'
    BY DEF Others
  <2>2. \A g \in Host : Serves(g, "unlink") => serving[g].identity \in Identity
    BY HandlerKinds DEF SignInInv, SignInTypeOK, Serves
  <2> QED
    BY <2>1, <2>2 DEF SignInInv, UnlinkInv
<1>4. AccountKept'
  BY DEF SignInInv, AccountKept, CanSignIn
<1> QED
  BY <1>1, <1>2, <1>3, <1>4

\* The handler turns to a step that is no unlink.
LEMMA OtherHandlers ==
  ASSUME SignInTypeOK, NEW h \in Host, NEW s \in Handler, Turns(h, s), s.pc # "unlink"
  PROVE  SameUnlinks /\ (latest' = latest /\ OwnSignUpGoesOn(h) => SignUpsGoOn)
BY TurnsEffect DEF Serves, SignsUp, SameUnlinks, SignUpsGoOn, OwnSignUpGoesOn

LEMMA AfterLeaving ==
  ASSUME SignInTypeOK, NEW h \in Host, Leaves(h)
  PROVE  SameUnlinks /\ (latest' = latest /\ OwnSignUpGoesOn(h) => SignUpsGoOn)
<1>1. NoHandler \in Handler /\ NoHandler.pc # "unlink"
  BY HandlerTypes DEF NoHandler
<1> QED
  BY <1>1, OtherHandlers DEF Leaves

\* With the same handlers, the same unlinks and sign-ups.
LEMMA SameHandlers ==
  ASSUME serving' = serving, latest' = latest
  PROVE  SameUnlinks /\ SignUpsGoOn
BY DEF Serves, SignsUp, SameUnlinks, SignUpsGoOn

\* A process without a handler has no sign-up.
LEMMA VacantSignsNobodyUp ==
  ASSUME NEW h \in Host, Vacant(h) \/ serving[h].pc \notin {"token", "link"}
  PROVE  OwnSignUpGoesOn(h)
BY DEF Vacant, NoHandler, SignsUp, OwnSignUpGoesOn

\* The rows that the actions make of the account, field by field.
LEMMA RowFields ==
  ASSUME SignInTypeOK
  PROVE  LET m == [account EXCEPT !.mailed = TRUE]
             p == [account EXCEPT !.password = TRUE]
             o == [account EXCEPT !.old = TRUE]
         IN /\ m.there = account.there /\ m.verified = account.verified /\ m.password = account.password
            /\ p.there = account.there /\ p.verified = account.verified /\ p.password
            /\ o.there = account.there /\ o.verified = account.verified /\ o.password = account.password
BY DEF SignInTypeOK, AccountRow

\* A verification leaves the password of an unverified account.
LEMMA VerifiedStep ==
  ASSUME SignInInv, NEW row, Verified(row), SameUnlinks, SignUpsGoOn,
         row \in AccountRow, row.there = account.there, row.verified = account.verified,
         row.password = account.password, account.there,
         UNCHANGED <<latest, linked, doomed, cut>>
  PROVE  AccountInv' /\ KeptInv' /\ UnlinkInv' /\ AccountKept'
<1>1. account'.there /\ account'.verified /\ account'.password = account.password
  BY DEF Verified, AccountRow
<1>2. AccountInv' /\ KeptInv'
  BY <1>1 DEF Verified, SignInInv, AccountInv, KeptInv
<1>3. UnlinkInv'
  <2>1. crossed => crossed'
    BY DEF Verified
  <2>2. \A i : Others(i)' = Others(i)
    BY DEF Others
  <2> QED
    BY <1>1, <2>1, <2>2 DEF SignInInv, UnlinkInv, SameUnlinks
<1>4. AccountKept'
  <2>1. CASE account.verified
    <3>1. kept /\ (crossed => crossed')
      BY <2>1 DEF Verified, SignInInv, AccountInv
    <3> QED
      BY <1>1, <3>1 DEF SignInInv, AccountKept, CanSignIn, SignUpsGoOn
  <2>2. CASE ~account.verified
    BY <1>1, <2>2 DEF Verified, SignInInv, AccountInv, AccountKept, CanSignIn
  <2> QED
    BY <2>1, <2>2
<1> QED
  BY <1>2, <1>3, <1>4

LEMMA SignInInvStep == SignInInv /\ [SignInNext]_signInVars => SignInInv'
<1> SUFFICES ASSUME SignInInv, [SignInNext]_signInVars PROVE SignInInv'
  OBVIOUS
<1>t. SignInTypeOK /\ SignInTypeOK'
  BY SignInTypeStep DEF SignInInv
<1> SUFFICES AccountInv' /\ KeptInv' /\ UnlinkInv' /\ AccountKept'
  BY <1>t DEF SignInInv
<1> USE <1>t
<1>0. CASE UNCHANGED signInVars
  BY <1>0, SameHandlers, AccountCalmStep DEF signInVars, AccountCalm
<1>1. CASE AccountAges
  BY <1>1, RowFields, SameHandlers, AccountCalmStep DEF AccountAges, AccountCalm
<1>2. CASE SelectUnverified
  BY <1>2 DEF SelectUnverified, SignInInv, SignInTypeOK, AccountInv, KeptInv, UnlinkInv, AccountKept, CanSignIn, Others, SignsUp, Serves, AccountRow
<1>3. CASE DeleteUnverified
  BY <1>3 DEF DeleteUnverified, Cascade, NoAccount, Stands, Unlinks, SignInInv, SignInTypeOK, AccountInv, KeptInv, UnlinkInv, AccountKept, CanSignIn, Others, SignsUp, Serves, AccountRow
<1>4. CASE AdminDeletes
  BY <1>4 DEF AdminDeletes, Cascade, NoAccount, Stands, Unlinks, SignInInv, SignInTypeOK, AccountInv, KeptInv, UnlinkInv, AccountKept, CanSignIn, Others, SignsUp, Serves, AccountRow
<1>5. ASSUME NEW h \in Host, BeginRegister(h) PROVE AccountInv' /\ KeptInv' /\ UnlinkInv' /\ AccountKept'
  <2>1. AccountCalm /\ OwnSignUpGoesOn(h)
    BY <1>5, VacantSignsNobodyUp DEF BeginRegister, AccountCalm
  <2> QED
    BY <1>5, <2>1, HandlerTypes, OtherHandlers, AccountCalmStep DEF BeginRegister
<1>6. ASSUME NEW h \in Host, ResendToken(h) PROVE AccountInv' /\ KeptInv' /\ UnlinkInv' /\ AccountKept'
  BY <1>6, RowFields, SameHandlers, AccountCalmStep DEF ResendToken, AccountCalm
<1>7. ASSUME NEW h \in Host, MailToken(h) PROVE AccountInv' /\ KeptInv' /\ UnlinkInv' /\ AccountKept'
  <2>1. AccountCalm /\ OwnSignUpGoesOn(h)
    BY <1>7, RowFields, VacantSignsNobodyUp DEF MailToken, Serves, Stands, AccountCalm
  <2> QED
    BY <1>7, <2>1, AfterLeaving, AccountCalmStep DEF MailToken
<1>8. ASSUME NEW h \in Host, BeginPassword(h) PROVE AccountInv' /\ KeptInv' /\ UnlinkInv' /\ AccountKept'
  <2>1. AccountCalm /\ OwnSignUpGoesOn(h)
    BY <1>8, VacantSignsNobodyUp DEF BeginPassword, AccountCalm
  <2>2. [pc |-> "password", of |-> latest] \in Handler
    BY HandlerTypes DEF SignInTypeOK
  <2> QED
    BY <1>8, <2>1, <2>2, OtherHandlers, AccountCalmStep DEF BeginPassword
<1>9. ASSUME NEW h \in Host, SetPassword(h) PROVE AccountInv' /\ KeptInv' /\ UnlinkInv' /\ AccountKept'
  <2>1. AccountCalm /\ OwnSignUpGoesOn(h)
    BY <1>9, RowFields, VacantSignsNobodyUp DEF SetPassword, Serves, Stands, AccountCalm
  <2> QED
    BY <1>9, <2>1, AfterLeaving, AccountCalmStep DEF SetPassword
<1>10. ASSUME NEW h \in Host, HostDies(h) PROVE AccountInv' /\ KeptInv' /\ UnlinkInv' /\ AccountKept'
  <2>1. AccountCalm /\ OwnSignUpGoesOn(h)
    BY <1>10 DEF HostDies, AccountCalm, OwnSignUpGoesOn
  <2> QED
    BY <1>10, <2>1, AfterLeaving, AccountCalmStep DEF HostDies
<1>11. ASSUME NEW h \in Host, LookUp(h) PROVE AccountInv' /\ KeptInv' /\ UnlinkInv' /\ AccountKept'
  <2>1. AccountCalm /\ OwnSignUpGoesOn(h)
    BY <1>11, VacantSignsNobodyUp DEF LookUp, Serves, AccountCalm
  <2>2. serving[h].identity \in Identity /\ latest \in Nat
    BY <1>11, HandlerKinds DEF LookUp, Serves, SignInTypeOK
  <2>3. CASE Leaves(h)
    BY <1>11, <2>1, <2>3, AfterLeaving, AccountCalmStep DEF LookUp
  <2>4. CASE Turns(h, [pc |-> "create", identity |-> serving[h].identity])
    BY <1>11, <2>1, <2>2, <2>4, HandlerTypes, OtherHandlers, AccountCalmStep DEF LookUp
  <2>5. CASE Turns(h, [pc |-> "adopt", identity |-> serving[h].identity, of |-> latest])
    BY <1>11, <2>1, <2>2, <2>5, HandlerTypes, OtherHandlers, AccountCalmStep DEF LookUp
  <2> QED
    BY <1>11, <2>3, <2>4, <2>5 DEF LookUp
<1>12. ASSUME NEW h \in Host, Link(h) PROVE AccountInv' /\ KeptInv' /\ UnlinkInv' /\ AccountKept'
  <2>1. CASE linked' = linked \cup {serving[h].identity} /\ UNCHANGED cut
    <3>1. AccountCalm /\ linked' # {}
      BY <1>12, <2>1 DEF Link, AccountCalm
    <3> QED
      BY <1>12, <3>1, AfterLeaving, AccountCalmStep DEF Link, OwnSignUpGoesOn
  <2>2. CASE cut' = (cut \/ SignsUp(h)) /\ UNCHANGED linked
    <3>1. AccountCalm /\ OwnSignUpGoesOn(h)
      BY <1>12, <2>2 DEF Link, AccountCalm, OwnSignUpGoesOn
    <3> QED
      BY <1>12, <3>1, AfterLeaving, AccountCalmStep DEF Link
  <2> QED
    BY <1>12, <2>1, <2>2 DEF Link
<1>13. ASSUME NEW h \in Host, SignUpToken(h) PROVE AccountInv' /\ KeptInv' /\ UnlinkInv' /\ AccountKept'
  <2> DEFINE s == [serving[h] EXCEPT !.pc = "link"]
  <2>1. s \in Handler /\ s.pc = "link" /\ s.signup = serving[h].signup /\ s.of = serving[h].of
    BY <1>13, HandlerKinds DEF SignUpToken, Serves, Handler, SignInTypeOK
  <2> HIDE DEF s
  <2>3. CASE Leaves(h) /\ cut' = (cut \/ SignsUp(h)) /\ UNCHANGED account
    <3>1. AccountCalm /\ OwnSignUpGoesOn(h)
      BY <1>13, <2>3 DEF SignUpToken, AccountCalm, OwnSignUpGoesOn
    <3> QED
      BY <1>13, <2>3, <3>1, AfterLeaving, AccountCalmStep DEF SignUpToken
  <2>4. CASE /\ Stands(serving[h].of) /\ account' = [account EXCEPT !.mailed = TRUE]
             /\ Turns(h, s) /\ UNCHANGED cut
    <3>1. AccountCalm
      BY <1>13, <2>4, RowFields DEF SignUpToken, AccountCalm, Stands
    <3>2. OwnSignUpGoesOn(h)
      BY <1>13, <2>1, <2>4, TurnsEffect DEF SignUpToken, OwnSignUpGoesOn, SignsUp
    <3> QED
      BY <1>13, <2>1, <2>4, <3>1, <3>2, OtherHandlers, AccountCalmStep DEF SignUpToken
  <2> QED
    BY <1>13, <2>3, <2>4 DEF SignUpToken, s
<1>14. ASSUME NEW h \in Host, NEW i \in Identity, BeginOAuth(h, i) PROVE AccountInv' /\ KeptInv' /\ UnlinkInv' /\ AccountKept'
  <2>1. AccountCalm /\ OwnSignUpGoesOn(h)
    BY <1>14, VacantSignsNobodyUp DEF BeginOAuth, AccountCalm
  <2>2. [pc |-> "lookup", identity |-> i] \in Handler
    BY HandlerTypes, LinkerTypes DEF SignInTypeOK
  <2> QED
    BY <1>14, <2>1, <2>2, OtherHandlers, AccountCalmStep DEF BeginOAuth
<1>15. ASSUME NEW h \in Host, NEW i \in Identity, ConfirmLink(h, i) PROVE AccountInv' /\ KeptInv' /\ UnlinkInv' /\ AccountKept'
  <2>1. AccountCalm /\ OwnSignUpGoesOn(h)
    BY <1>15, VacantSignsNobodyUp DEF ConfirmLink, AccountCalm
  <2>2. [pc |-> "link", identity |-> i, of |-> latest, signup |-> FALSE] \in Handler
    BY HandlerTypes, LinkerTypes DEF SignInTypeOK
  <2> QED
    BY <1>15, <2>1, <2>2, OtherHandlers, AccountCalmStep DEF ConfirmLink
<1>16. ASSUME NEW h \in Host, NEW i \in Identity, BeginLink(h, i) PROVE AccountInv' /\ KeptInv' /\ UnlinkInv' /\ AccountKept'
  <2>1. AccountCalm /\ OwnSignUpGoesOn(h)
    BY <1>16, VacantSignsNobodyUp DEF BeginLink, AccountCalm
  <2>2. [pc |-> "link", identity |-> i, of |-> latest, signup |-> FALSE] \in Handler
    BY HandlerTypes, LinkerTypes DEF SignInTypeOK
  <2> QED
    BY <1>16, <2>1, <2>2, OtherHandlers, AccountCalmStep DEF BeginLink
<1>17. ASSUME NEW h \in Host, Adopt(h) PROVE AccountInv' /\ KeptInv' /\ UnlinkInv' /\ AccountKept'
  <2> DEFINE s == [pc |-> "link", identity |-> serving[h].identity, of |-> serving[h].of,
                   signup |-> FALSE]
  <2>1. s \in Handler /\ s.pc # "unlink"
    BY <1>17, HandlerKinds, LinkerTypes DEF Adopt, Serves, SignInTypeOK
  <2>2. OwnSignUpGoesOn(h) /\ Turns(h, s)
    BY <1>17, VacantSignsNobodyUp DEF Adopt, Serves
  <2> HIDE DEF s
  <2>3. SameUnlinks /\ (latest' = latest => SignUpsGoOn)
    BY <2>1, <2>2, OtherHandlers
  <2>4. CASE UNCHANGED <<account, kept, crossed>>
    BY <1>17, <2>3, <2>4, AccountCalmStep DEF Adopt, AccountCalm
  <2>5. CASE Stands(serving[h].of) /\ Verified(account)
    BY <1>17, <2>3, <2>5, VerifiedStep DEF Adopt, Stands, SignInTypeOK
  <2> QED
    BY <1>17, <2>4, <2>5 DEF Adopt
<1>18. ASSUME NEW h \in Host, VerifyEmail(h) PROVE AccountInv' /\ KeptInv' /\ UnlinkInv' /\ AccountKept'
  <2> DEFINE r == [account EXCEPT !.mailed = FALSE]
  <2>1. r \in AccountRow /\ r.there = account.there /\ r.verified = account.verified /\ r.password = account.password
    BY DEF SignInTypeOK, AccountRow
  <2>2. Verified(r)
    BY <1>18 DEF VerifyEmail
  <2> HIDE DEF r
  <2> QED
    BY <1>18, <2>1, <2>2, SameHandlers, VerifiedStep DEF VerifyEmail
<1>19. ASSUME NEW h \in Host, MakeRegistered(h) PROVE AccountInv' /\ KeptInv' /\ UnlinkInv' /\ AccountKept'
  <2>1. CASE account.there
    <3>1. AccountCalm /\ OwnSignUpGoesOn(h)
      BY <1>19, <2>1, VacantSignsNobodyUp DEF MakeRegistered, Serves, AccountCalm
    <3> QED
      BY <1>19, <2>1, <3>1, AfterLeaving, AccountCalmStep DEF MakeRegistered
  <2>2. CASE ~account.there
    <3>0. latest + 1 \in Nat
      BY DEF SignInTypeOK
    <3>1. [pc |-> "mail", of |-> latest + 1] \in Handler
      BY <3>0, HandlerTypes
    <3>2. SameUnlinks
      BY <1>19, <2>2, <3>1, OtherHandlers DEF MakeRegistered
    <3>3. account'.there /\ account'.password /\ ~account'.verified /\ latest' = latest + 1
      BY <1>19, <2>2 DEF MakeRegistered, NewAccount, NoAccount
    <3>4. kept => crossed
      BY <2>2 DEF SignInInv, KeptInv
    <3> QED
      BY <1>19, <2>2, <3>2, <3>3, <3>4 DEF MakeRegistered, SignInInv, SignInTypeOK, SameUnlinks,
         AccountInv, KeptInv, UnlinkInv, AccountKept
  <2> QED
    BY <2>1, <2>2
<1>20. ASSUME NEW h \in Host, SignUp(h) PROVE AccountInv' /\ KeptInv' /\ UnlinkInv' /\ AccountKept'
  <2>1. CASE account.there
    <3>1. AccountCalm /\ OwnSignUpGoesOn(h)
      BY <1>20, <2>1, VacantSignsNobodyUp DEF SignUp, Serves, AccountCalm
    <3> QED
      BY <1>20, <2>1, <3>1, AfterLeaving, AccountCalmStep DEF SignUp
  <2>2. CASE ~account.there
    <3> DEFINE s == [pc |-> "token", identity |-> serving[h].identity,
                     of |-> latest + 1, signup |-> TRUE]
    <3>0. serving[h].identity \in Identity /\ latest + 1 \in Nat
      BY <1>20, HandlerKinds DEF SignUp, Serves, SignInTypeOK
    <3>1. s \in Handler /\ s.pc = "token" /\ s.signup /\ s.of = latest + 1
      BY <3>0, LinkerTypes
    <3>2. Turns(h, s)
      BY <1>20, <2>2 DEF SignUp
    <3> HIDE DEF s
    <3>3. SameUnlinks /\ serving'[h] = s
      BY <3>1, <3>2, OtherHandlers, TurnsEffect
    <3>4. account'.there /\ account'.verified /\ latest' = latest + 1
      BY <1>20, <2>2 DEF SignUp, NewAccount, NoAccount
    <3>5. AccountInv' /\ KeptInv'
      BY <1>20, <2>2, <3>4 DEF SignUp, SignInInv, SignInTypeOK, AccountInv, KeptInv
    <3>6. UnlinkInv'
      BY <1>20, <2>2, <3>3 DEF SignUp, SignInInv, SameUnlinks, AccountInv, UnlinkInv, Others
    <3>7. SignsUp(h)'
      BY <3>1, <3>3, <3>4 DEF SignsUp
    <3> QED
      BY <3>4, <3>5, <3>6, <3>7 DEF AccountKept
  <2> QED
    BY <2>1, <2>2
<1>21. ASSUME NEW h \in Host, Unlink(h) PROVE AccountInv' /\ KeptInv' /\ UnlinkInv' /\ AccountKept'
  BY <1>21, AfterLeaving, HandlerKinds DEF Unlink, SignInInv, SignInTypeOK, AccountInv, KeptInv, UnlinkInv, AccountKept, CanSignIn, Others, SignsUp, Serves, AccountRow, SameUnlinks
<1>22. ASSUME NEW h \in Host, NEW i \in Identity, BeginUnlink(h, i) PROVE AccountInv' /\ KeptInv' /\ UnlinkInv' /\ AccountKept'
  <2> DEFINE s == [pc |-> "unlink", identity |-> i, of |-> latest]
  <2>1. s \in Handler /\ s.pc = "unlink" /\ s.identity = i
    BY HandlerTypes DEF SignInTypeOK
  <2>2. Turns(h, s)
    BY <1>22 DEF BeginUnlink
  <2> HIDE DEF s
  <2>3. serving'[h] = s /\ \A g \in Host \ {h} : serving'[g] = serving[g]
    BY <2>1, <2>2, TurnsEffect
  <2>4. AccountInv' /\ KeptInv'
    BY <1>22 DEF BeginUnlink, SignInInv, AccountInv, KeptInv
  <2>5. UnlinkInv'
    BY <1>22, <2>1, <2>3 DEF BeginUnlink, Unlinks, Serves, UnlinkInv, Others
  <2>6. AccountKept'
    BY <1>22 DEF BeginUnlink, SignInInv, AccountKept, CanSignIn
  <2> QED
    BY <2>4, <2>5, <2>6
<1> QED
  BY <1>0, <1>1, <1>2, <1>3, <1>4, <1>5, <1>6, <1>7, <1>8, <1>9, <1>10, <1>11, <1>12, <1>13, <1>14, <1>15, <1>16, <1>17, <1>18, <1>19, <1>20, <1>21, <1>22 DEF SignInNext

-----------------------------------------------------------------------------
(* The theorems *)

\* Every reachable state is well typed: the account, its links and the link
\* tokens of oauth_accounts, and what each API process is doing for it.
THEOREM SignInTypeCorrect == SignInSpec => []SignInTypeOK
<1>1. SignInInit => SignInTypeOK
  BY SignInTypeInit
<1>2. SignInTypeOK /\ [SignInNext]_signInVars => SignInTypeOK'
  BY SignInTypeStep
<1> QED
  BY <1>1, <1>2, PTL DEF SignInSpec

\* However many processes sign the users of one address up and in, link, unlink
\* and clean up: a verified account that no administrator deleted is there, and
\* its user has a password or a link, unless a sign-up was cut off or two
\* requests crossed.
THEOREM AccountKeptCorrect == SignInSpec => []AccountKept
<1>1. SignInInit => SignInInv
  BY SignInInvInit
<1>2. SignInInv /\ [SignInNext]_signInVars => SignInInv'
  BY SignInInvStep
<1>3. SignInInv => AccountKept
  BY DEF SignInInv
<1> QED
  BY <1>1, <1>2, <1>3, PTL DEF SignInSpec
=============================================================================
