---------------------------- MODULE AccountAccess ----------------------------
(***************************************************************************)
(* One account: logins, the cached authentication context of each API      *)
(* process, logout, password changes and resets by e-mailed token.         *)
(*                                                                         *)
(* A handler is synchronous, so an API process runs one at a time; an      *)
(* action is one database transaction, and a transaction that reads before *)
(* it writes without a lock is two.  A wrong password, a locked or an      *)
(* inactive account make a login fail, which changes nothing here.  Time   *)
(* is relative and in ticks; no validation of a token takes longer than    *)
(* one.  Sessions and tokens that are over are used again for new ones.    *)
(***************************************************************************)
EXTENDS Integers, FiniteSets

CONSTANTS
  Server,    \* API processes
  Login,     \* rows of user_sessions
  Token,     \* rows of password_resets
  Lifetime   \* _AUTH_CONTEXT_TTL_S

ASSUME AccessAssumption == Lifetime \in Nat \ {0}

VARIABLES
  login,    \* the sessions
  cached,   \* _auth_context_cache: what is left of each entry's lifetime
  task,     \* the handler each process runs
  token,    \* the reset tokens
  clash     \* history: two requests for a token, or two resets, ran at once

accessVars == <<login, cached, task, token, clash>>

-----------------------------------------------------------------------------
\* since: ticks since the session ended.  current: it was opened with the
\* password the account has now.  spared: the password changed while it was
\* being opened, or the sweep that was to end it failed.
LoginRow == [active : BOOLEAN, since : 0 .. Lifetime + 1, current : BOOLEAN, spared : BOOLEAN]

Over == [active |-> FALSE, since |-> Lifetime + 1, current |-> FALSE, spared |-> FALSE]

NoTask == [pc |-> "none"]

Task == {NoTask}
   \cup [pc : {"context"}, row : Login, overdue : BOOLEAN]
   \cup [pc : {"open", "change", "update"}, current : BOOLEAN]
   \cup [pc : {"sweep"}]
   \cup [pc : {"insert"}, void : SUBSET Token]
   \cup [pc : {"reset"}, token : Token]

AccessTypeOK ==
  /\ login \in [Login -> LoginRow]
  /\ cached \in [Server -> [Login -> 0 .. Lifetime]]
  /\ task \in [Server -> Task]
  /\ token \in [Token -> [open : BOOLEAN, uses : 0 .. 2]]
  /\ clash \in BOOLEAN

AccessInit ==
  /\ login = [r \in Login |-> Over]
  /\ cached = [w \in Server |-> [r \in Login |-> 0]]
  /\ task = [w \in Server |-> NoTask]
  /\ token = [m \in Token |-> [open |-> FALSE, uses |-> 0]]
  /\ clash = FALSE

-----------------------------------------------------------------------------
Idles(w) == task[w] = NoTask

Doing(w, pc) == task[w].pc = pc

Start(w, t) == task' = [task EXCEPT ![w] = t]

Finish(w) == Start(w, NoTask)

\* Ended rows that no process has cached or works with stand for new ones.
Unused(r) ==
  /\ ~login[r].active
  /\ \A w \in Server : cached[w][r] = 0 /\ (Doing(w, "context") => task[w].row # r)

OpenLogin(r, current) ==
  login' = [login EXCEPT ![r] = [active |-> TRUE, since |-> 0, current |-> current,
                                 spared |-> ~current]]

Ended(row) == IF row.active THEN [Over EXCEPT !.since = 0] ELSE row

-----------------------------------------------------------------------------
(* Requests with an access token, and logout *)

\* get_auth_context with no live entry in the cache of the process; a request
\* that finds one changes nothing.
ReadContext(w, r) ==
  /\ Idles(w) /\ cached[w][r] = 0 /\ login[r].active
  /\ Start(w, [pc |-> "context", row |-> r, overdue |-> FALSE])
  /\ UNCHANGED <<login, cached, token, clash>>

\* The request is accepted and its context cached.
PutContext(w) ==
  /\ Doing(w, "context")
  /\ cached' = [cached EXCEPT ![w][task[w].row] = Lifetime]
  /\ Finish(w)
  /\ UNCHANGED <<login, token, clash>>

Logout(w, r) ==
  /\ Idles(w) /\ login[r].active
  /\ login' = [login EXCEPT ![r] = Ended(@)]
  /\ UNCHANGED <<cached, task, token, clash>>

-----------------------------------------------------------------------------
(* Logins and passwords *)

\* The password is right, for a login or for a change of the password: both
\* call authenticate_user, which then opens a session.
CheckPassword(w, pc) ==
  /\ Idles(w)
  /\ Start(w, [pc |-> pc, current |-> TRUE])
  /\ UNCHANGED <<login, cached, token, clash>>

OpenSession(w, r) ==
  /\ Doing(w, "open") \/ Doing(w, "change")
  /\ Unused(r)
  /\ OpenLogin(r, task[w].current)
  /\ IF Doing(w, "open") THEN Finish(w) ELSE Start(w, [task[w] EXCEPT !.pc = "update"])
  /\ UNCHANGED <<cached, token, clash>>

\* A new password: nothing that was checked before is current.
Outdated(t) == IF t.pc \in {"open", "change", "update"} THEN [t EXCEPT !.current = FALSE] ELSE t

NewPassword(w) ==
  /\ login' = [r \in Login |-> [login[r] EXCEPT !.current = FALSE, !.spared = FALSE]]
  /\ task' = [v \in Server |-> IF v = w THEN [pc |-> "sweep"]
                               ELSE Outdated(task[v])]

\* change_password: the update, or the new password is too weak.
ChangePassword(w) ==
  /\ Doing(w, "update")
  /\ \/ NewPassword(w)
     \/ Finish(w) /\ UNCHANGED login
  /\ UNCHANGED <<cached, token, clash>>

\* Mutant of Swept: the first session found, not all of them.
SweptFirst ==
  LET first == CHOOSE r \in Login : login[r].active \/ \A q \in Login : ~login[q].active
  IN [login EXCEPT ![first] = Ended(@)]

\* invalidate_user_sessions
Swept == [r \in Login |-> Ended(login[r])]

SweepSessions(w) ==
  /\ Doing(w, "sweep")
  /\ \/ login' = Swept
     \/ login' = [r \in Login |-> [login[r] EXCEPT !.spared = login[r].active /\ ~login[r].current]]
  /\ Finish(w)
  /\ UNCHANGED <<cached, token, clash>>

-----------------------------------------------------------------------------
(* Reset tokens *)

Runs(pc) == \E w \in Server : Doing(w, pc)

\* request_password_reset voids the tokens that it sees ...
VoidTokens(w) ==
  /\ Idles(w)
  /\ Start(w, [pc |-> "insert", void |-> {m \in Token : token[m].open}])
  /\ clash' = (clash \/ Runs("insert"))
  /\ UNCHANGED <<login, cached, token>>

Issued(void, m) ==
  [n \in Token |-> IF n = m THEN [open |-> TRUE, uses |-> 0]
                  ELSE [token[n] EXCEPT !.open = @ /\ n \notin void]]

\* ... and commits that together with a new one.
InsertToken(w, m) ==
  /\ Doing(w, "insert") /\ ~token[m].open
  /\ \A v \in Server : /\ Doing(v, "reset") => task[v].token # m
                       /\ Doing(v, "insert") => m \notin task[v].void
  /\ token' = Issued(task[w].void, m)
  /\ Finish(w)
  /\ UNCHANGED <<login, cached, clash>>

\* reset_password: the token is looked for among the unused ones ...
FindToken(w, m) ==
  /\ Idles(w) /\ token[m].open
  /\ Start(w, [pc |-> "reset", token |-> m])
  /\ clash' = (clash \/ Runs("reset"))
  /\ UNCHANGED <<login, cached, token>>

\* Mutant of Used: the token stays unused.
UsedAgain(row) == [row EXCEPT !.uses = IF @ < 2 THEN @ + 1 ELSE 2]

Used(row) == [open |-> FALSE, uses |-> IF row.uses < 2 THEN row.uses + 1 ELSE 2]

\* ... and marked used together with the new password.
ResetPassword(w) ==
  /\ Doing(w, "reset")
  /\ token' = [token EXCEPT ![task[w].token] = Used(@)]
  /\ NewPassword(w)
  /\ UNCHANGED <<cached, clash>>

\* A day later.
TokenExpires(m) ==
  /\ token[m].open
  /\ token' = [token EXCEPT ![m].open = FALSE]
  /\ UNCHANGED <<login, cached, task, clash>>

-----------------------------------------------------------------------------
\* Mutant of Left: an entry never expires.
LeftForever(n) == n

\* Mutant of Left: an entry that has expired goes on counting.
LeftBelowZero(n) == n - 1

\* What a tick leaves of an entry's lifetime.
Left(n) == IF n = 0 THEN 0 ELSE n - 1

AccessTick ==
  /\ \A w \in Server : Doing(w, "context") => ~task[w].overdue
  /\ task' = [w \in Server |-> IF Doing(w, "context") THEN [task[w] EXCEPT !.overdue = TRUE]
                               ELSE task[w]]
  /\ cached' = [w \in Server |-> [r \in Login |-> Left(cached[w][r])]]
  /\ login' = [r \in Login |->
                 [login[r] EXCEPT !.since =
                    IF login[r].active \/ @ = Lifetime + 1 THEN @ ELSE @ + 1]]
  /\ UNCHANGED <<token, clash>>

AccessNext ==
  \/ AccessTick \/ \E m \in Token : TokenExpires(m)
  \/ \E w \in Server :
       \/ PutContext(w) \/ ChangePassword(w) \/ SweepSessions(w)
       \/ VoidTokens(w) \/ ResetPassword(w)
       \/ \E pc \in {"open", "change"} : CheckPassword(w, pc)
       \/ \E r \in Login : \/ ReadContext(w, r) \/ Logout(w, r)
                           \/ OpenSession(w, r)
       \/ \E m \in Token : InsertToken(w, m) \/ FindToken(w, m)

AccessSpec == AccessInit /\ [][AccessNext]_accessVars

-----------------------------------------------------------------------------
(* Properties *)

\* A session that is over, by a logout, a new password or otherwise, is
\* accepted by no process once a cache entry's lifetime and the duration of a
\* request have passed, though the caches are never told.
RevokedSoon ==
  \A w \in Server : \A r \in Login :
    cached[w][r] > 0 => login[r].active \/ login[r].since + cached[w][r] <= Lifetime + 1

\* Sessions opened with an earlier password are over, or being ended, unless
\* the password changed while the session was being opened or the sweep failed.
OldSessionsEnd ==
  \A r \in Login : login[r].active /\ ~login[r].current
    => login[r].spared \/ Runs("sweep")

\* Of requests and resets that do not overlap, one token is open at a time and
\* a token resets the password once.
TokenOnce ==
  ~clash => /\ Cardinality({m \in Token : token[m].open}) <= 1
            /\ \A m \in Token : token[m].uses <= 1
=============================================================================
