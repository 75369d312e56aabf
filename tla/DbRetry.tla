------------------------------ MODULE DbRetry ------------------------------
(***************************************************************************)
(* The retry layer under every persistence adapter (RetrySession,          *)
(* RetryQuery and BasePersistenceAdapter._execute_with_retry): one write   *)
(* of an adapter, from the call to its answer, while the connection to the *)
(* database may break at any statement.                                    *)
(*                                                                         *)
(* A RetrySession replaces its SQLAlchemy session by a new one before it   *)
(* calls again; a RetryQuery stays bound to the session it was built from. *)
(* What decides is therefore which session holds the write and which one   *)
(* is committed.  Sessions are numbered in the order they are opened.      *)
(***************************************************************************)
EXTENDS Integers, Sequences

CONSTANTS
  Statement,  \* the statements of each kind of write; see Shape
  Retries,    \* _max_retries and max_retries
  Guarded     \* kinds of write that go through the adapter's own retry

Shape == {<<"add", "flush", "commit">>,  \* an insert
          <<"query", "commit">>}         \* a bulk update, or an object read and changed

ASSUME RetryAssumption ==
  /\ \A k \in DOMAIN Statement : Statement[k] \in Shape
  /\ Retries \in Nat \ {0}
  /\ Guarded \subseteq DOMAIN Statement

VARIABLES op, rows

dbVars == <<op, rows>>

NoWrite == 0

Operation == [kind   : DOMAIN Statement,
         at     : 1 .. 4,            \* the statement to execute next
         cur    : Nat \ {0},         \* the session of the RetrySession
         bound  : Nat \ {0},         \* the session the query was built from
         holder : Nat,               \* the open session that holds the write, or NoWrite
         inner  : 0 .. Retries - 1,  \* failures of the current statement so far
         outer  : 0 .. Retries - 1,  \* failures of the whole operation so far
         answer : {"none", "ok", "error"}]

DbTypeOK == op \in Operation /\ rows \in Nat

DbInit ==
  /\ op \in [kind : DOMAIN Statement, at : {1}, cur : {1}, bound : {1},
               holder : {NoWrite}, inner : {0}, outer : {0}, answer : {"none"}]
  /\ rows = 0

-----------------------------------------------------------------------------
Now == Statement[op.kind][op.at]

Running == op.answer = "none"

\* The statement is done; after the last one the operation answers.
Executed(r) ==
  op' = [r EXCEPT !.inner = 0, !.at = @ + 1,
                    !.answer = IF op.at = Len(Statement[op.kind]) THEN "ok" ELSE "none"]

\* add is local: the write waits in the current session.
Add ==
  /\ Running /\ Now = "add"
  /\ Executed([op EXCEPT !.holder = op.cur])
  /\ UNCHANGED rows

\* A query is executed in the session it was built from.
Query ==
  /\ Running /\ Now = "query"
  /\ Executed([op EXCEPT !.holder = op.bound])
  /\ UNCHANGED rows

Flush ==
  /\ Running /\ Now = "flush"
  /\ Executed(op)
  /\ UNCHANGED rows

\* The current session commits what it holds, which may be nothing.
Committed == rows' = IF op.holder = op.cur THEN rows + 1 ELSE rows

Commit ==
  /\ Running /\ Now = "commit"
  /\ Committed
  /\ Executed([op EXCEPT !.holder = NoWrite])

\* The statement needs a connection: a query always does, the others only when
\* the current session holds something.
Connects == Now = "query" \/ op.holder = op.cur

\* Mutant of Broken: the write moves to the new session.
BrokenKeepsWrite ==
  IF op.inner + 1 < Retries
  THEN op' = [op EXCEPT !.inner = @ + 1, !.cur = @ + 1,
                            !.holder = IF @ = NoWrite THEN @ ELSE op.cur + 1]
  ELSE IF op.kind \in Guarded /\ op.outer + 1 < Retries
  THEN op' = [op EXCEPT !.inner = 0, !.outer = @ + 1, !.at = 1, !.cur = @ + 1,
                            !.bound = op.cur + 1, !.holder = NoWrite]
  ELSE op' = [op EXCEPT !.answer = "error", !.holder = NoWrite]

\* Mutant of Broken: one retry too many.
BrokenOnceMore ==
  IF op.inner < Retries
  THEN op' = [op EXCEPT !.inner = @ + 1, !.cur = @ + 1, !.holder = NoWrite]
  ELSE op' = [op EXCEPT !.answer = "error", !.holder = NoWrite]

\* A connection error: the RetrySession closes its session and opens another,
\* up to Retries times; then a guarded operation starts again from its first
\* statement, up to Retries times as well.
Broken ==
  IF op.inner + 1 < Retries
  THEN op' = [op EXCEPT !.inner = @ + 1, !.cur = @ + 1, !.holder = NoWrite]
  ELSE IF op.kind \in Guarded /\ op.outer + 1 < Retries
  THEN op' = [op EXCEPT !.inner = 0, !.outer = @ + 1, !.at = 1, !.cur = @ + 1,
                            !.bound = op.cur + 1, !.holder = NoWrite]
  ELSE op' = [op EXCEPT !.answer = "error", !.holder = NoWrite]

\* The connection breaks before the statement takes effect ...
Breaks ==
  /\ Running /\ Now # "add" /\ Connects
  /\ Broken
  /\ UNCHANGED rows

\* ... or the commit is done and its answer is lost.
AnswerLost ==
  /\ Running /\ Now = "commit" /\ Connects
  /\ Committed
  /\ Broken

DbNext == Add \/ Query \/ Flush \/ Commit \/ Breaks \/ AnswerLost

DbSpec == DbInit /\ [][DbNext]_dbVars

-----------------------------------------------------------------------------
(* Properties *)

\* However often the connection breaks, and even when the answer of a commit
\* is lost, an adapter's write is never applied twice.
NeverTwice == rows <= 1

\* A write that is reported as done has been done: the wrapper "automatically
\* retries database operations on connection errors".
ReportedIsWritten == op.answer = "ok" => rows = 1
=============================================================================
