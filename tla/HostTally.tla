----------------------------- MODULE HostTally -----------------------------
(***************************************************************************)
(* One host's events on their way into the database (persist_event_full):  *)
(* the event's row, the totals kept beside it in the same transaction      *)
(* (tiktok_user_host_summary, tiktok_event_hour_counts) and the counters   *)
(* of the cached state, which are read, increased and patched back.        *)
(*                                                                         *)
(* Nothing but PostgreSQL's row locks separates the threads: an UPSERT     *)
(* waits for the transaction that has touched the row.  A total is the     *)
(* multiset of the events counted in it, from which every sum (rows,       *)
(* gifts, diamonds, distinct gifters) follows.                             *)
(***************************************************************************)
EXTENDS Integers

CONSTANTS
  Incoming,   \* events of the host
  About,      \* what each of them is; see Arrival
  Persister,  \* threads that persist them
  Hours,      \* bound on the current hour
  Again,      \* bound on the deliveries of an event
  Harms,      \* what may go wrong; see TallyAssumption
  HarmMax     \* bound on how often

Arrival == [type   : {"gift", "counted", "connected"},  \* "counted": a comment, a like, a join, ...
            room   : STRING,
            viewer : STRING,
            to     : {"host", "guest"}]

\* "error": a statement or the commit fails; "break": the connection breaks
\* and RetrySession goes on; "crash": the worker dies; "probe": the host's
\* profile is read, by this process or "elsewhere".
ASSUME TallyAssumption ==
  /\ Incoming \subseteq STRING /\ Incoming # {} /\ About \in [Incoming -> Arrival]
  /\ Hours \in Nat \ {0} /\ Again \in Nat \ {0} /\ HarmMax \in Nat
  /\ Harms \subseteq {"error", "break", "crash", "probe", "elsewhere"}

VARIABLES
  hour, came,     \* the hour; how often each event was delivered
  work,           \* what each thread does
  events,         \* rows of tiktok_events
  summary,        \* the sums of tiktok_user_host_summary
  counts,         \* the column n of tiktok_event_hour_counts and of its type table
  diamonds,       \* its column diamonds
  live,           \* the cached session counters
  orphaned,       \* rows locked by a session that RetrySession has left behind
  profile,        \* profile_user_id is known: in the database, and to the adapter
  patched,        \* history: the patches of live since its last reset
  harmed, broken  \* harms so far; history: a connection has broken

tallyVars == <<hour, came, work, events, summary, counts, diamonds, live, orphaned,
               profile, patched, harmed, broken>>

\* What a transaction will write, and what the thread has read of the cache.
Part == {"event", "summary", "counts", "diamonds"}
Tally == [Incoming -> Nat]
Nothing == [e \in Incoming |-> 0]

\* A row that a statement locks.
RowOf(table, key) == <<table, key>>
TallyRow == {"room", "viewer", "event", "summary"} \X STRING \cup {"hour"} \X (1 .. Hours)

Statements == {"room", "viewer", "insert", "summary", "hour"}

Work == [at : {"idle", "read", "patch", "commit"} \cup Statements,
         event : Incoming,
         began : 1 .. Hours,   \* NOW() of the transaction
         held  : SUBSET TallyRow,
         pend  : SUBSET Part,
         seen  : Tally]

TallyTypeOK ==
  /\ hour \in 1 .. Hours /\ came \in [Incoming -> 0 .. Again] /\ harmed \in 0 .. HarmMax
  /\ work \in [Persister -> Work]
  /\ {events, summary, counts, diamonds, live, patched} \subseteq Tally
  /\ orphaned \subseteq TallyRow /\ broken \in BOOLEAN
  /\ profile \in [row : BOOLEAN, adapter : {"absent", "unknown", "known"}, writing : BOOLEAN]

\* A thread before its transaction.
Started(at, e) ==
  [at |-> at, event |-> e, began |-> hour, held |-> {}, pend |-> {}, seen |-> Nothing]

TallyInit ==
  /\ hour = 1 /\ came = Nothing /\ harmed = 0 /\ broken = FALSE
  /\ work = [p \in Persister |-> Started("idle", CHOOSE e \in Incoming : TRUE)]
  /\ events = Nothing /\ summary = Nothing /\ counts = Nothing /\ diamonds = Nothing
  /\ live = Nothing /\ patched = Nothing
  /\ orphaned = {}
  /\ profile = [row |-> FALSE, adapter |-> "absent", writing |-> FALSE]

-----------------------------------------------------------------------------
(* The pieces of a transaction *)

totals == <<events, summary, counts, diamonds>>
harms == <<harmed, broken>>

\* Events of TikTok carry a message_id; "connected" is made by the client.
HasMessageId(e) == About[e].type # "connected"

Unlocked(p, row) ==
  /\ row \notin orphaned
  /\ \A q \in Persister \ {p} : row \notin work[q].held

\* _resolve_host_profile_user_id: what the adapter remembers, or the row.
Resolved ==
  IF profile.adapter # "absent" THEN profile.adapter
  ELSE IF profile.row THEN "known" ELSE "unknown"

\* _gift_is_for_host
ForHost(e) == About[e].to = "host" \/ Resolved = "unknown"

Remembers == profile' = [profile EXCEPT !.adapter = Resolved]

\* Mutant of Execute: the database keeps no row for a transaction.
ExecuteUnlocked(p, row, parts, next) ==
  /\ work' = [work EXCEPT ![p].pend = @ \cup parts, ![p].at = next]
  /\ UNCHANGED <<orphaned, harms>>

\* A statement of thread p that locks a row, writes parts and goes on.  When the
\* connection breaks, RetrySession opens a new session but calls the method of
\* the old one again: what came before is lost, this statement happens in the
\* session left behind, and the rest in the new one.
Execute(p, row, parts, next) ==
  /\ Unlocked(p, row)
  /\ \/ /\ work' = [work EXCEPT ![p].held = @ \cup {row}, ![p].pend = @ \cup parts,
                                ![p].at = next]
        /\ UNCHANGED <<orphaned, harms>>
     \/ /\ "break" \in Harms /\ harmed < HarmMax
        /\ work' = [work EXCEPT ![p].held = {}, ![p].pend = {}, ![p].at = next]
        /\ orphaned' = orphaned \cup {row}
        /\ harmed' = harmed + 1 /\ broken' = TRUE

Goes(p, next) == work' = [work EXCEPT ![p].at = next] /\ UNCHANGED <<orphaned, harms>>

-----------------------------------------------------------------------------
(* persist_event_full on a thread of _event_executor *)

\* The executor hands an event over; the transaction begins with its first
\* statement.  TikTok repeats events after a reconnect.
Begin(p) == \E e \in Incoming :
  /\ work[p].at = "idle" /\ came[e] < IF HasMessageId(e) THEN Again ELSE 1
  /\ came' = [came EXCEPT ![e] = @ + 1]
  /\ work' = [work EXCEPT ![p] = Started("room", e)]
  /\ UNCHANGED <<hour, totals, live, orphaned, profile, patched, harms>>

\* host_unique_id is always given, so the UPSERT of the room updates it.
UpsertRoom(p) ==
  /\ work[p].at = "room"
  /\ Execute(p, RowOf("room", About[work[p].event].room), {},
             IF HasMessageId(work[p].event) THEN "viewer" ELSE "insert")
  /\ UNCHANGED <<hour, came, totals, live, profile, patched>>

UpsertViewer(p) ==
  /\ work[p].at = "viewer"
  /\ Execute(p, RowOf("viewer", About[work[p].event].viewer), {}, "insert")
  /\ UNCHANGED <<hour, came, totals, live, profile, patched>>

\* ON CONFLICT (room_id, message_id) DO NOTHING.
Inserts(p) == work[p].at = "insert" /\ (HasMessageId(work[p].event) => events[work[p].event] = 0)

InsertEvent(p) ==
  /\ Inserts(p)
  /\ Execute(p, RowOf("event", work[p].event), {"event"}, "summary")
  /\ UNCHANGED <<hour, came, totals, live, profile, patched>>

\* Mutant of AfterReplay: the totals do not look at row_id.
AfterReplayCounts == "summary"

\* row_id is None: nothing is counted.
AfterReplay == "commit"

SkipEvent(p) ==
  /\ work[p].at = "insert" /\ ~Inserts(p)
  /\ Goes(p, AfterReplay)
  /\ UNCHANGED <<hour, came, totals, live, profile, patched>>

\* _upsert_user_host_summary
UpsertSummary(p) == LET e == work[p].event IN
  /\ work[p].at = "summary"
  /\ IF About[e].type # "gift" THEN Goes(p, "hour") /\ UNCHANGED profile
     ELSE /\ Remembers
          /\ IF ForHost(e)
             THEN Execute(p, RowOf("summary", About[e].viewer), {"summary"}, "hour")
             ELSE Goes(p, "hour")
  /\ UNCHANGED <<hour, came, totals, live, patched>>

\* _bump_event_hour_count
BumpHour(p) == LET e == work[p].event IN
  /\ work[p].at = "hour"
  /\ IF About[e].type # "gift" THEN UNCHANGED profile ELSE Remembers
  /\ Execute(p, RowOf("hour", work[p].began),
             {"counts"} \cup IF About[e].type = "gift" /\ ForHost(e) THEN {"diamonds"} ELSE {}, "read")
  /\ UNCHANGED <<hour, came, totals, live, patched>>

\* _apply_state_delta reads the cached counters ...
ReadCache(p) == LET e == work[p].event IN
  /\ work[p].at = "read"
  /\ IF About[e].type # "gift" THEN UNCHANGED profile ELSE Remembers
  /\ work' = [work EXCEPT ![p].seen = live,
                          ![p].at = IF About[e].type = "gift" /\ ~ForHost(e) THEN "commit" ELSE "patch"]
  /\ UNCHANGED <<hour, came, totals, live, orphaned, patched, harms>>

\* ... and patches back the ones this kind of event increases, or, when the
\* session connects, sets all of them to zero.
PatchCache(p) == LET e == work[p].event  seen == work[p].seen IN
  /\ work[p].at = "patch"
  /\ IF About[e].type = "connected"
     THEN live' = Nothing /\ patched' = Nothing
     ELSE /\ live' = [o \in Incoming |-> IF About[o].type # About[e].type THEN live[o]
                                         ELSE IF o = e THEN seen[o] + 1 ELSE seen[o]]
          /\ patched' = [patched EXCEPT ![e] = @ + 1]
  /\ Goes(p, "commit")
  /\ UNCHANGED <<hour, came, totals, profile>>

Counted(p, part, total) ==
  IF part \in work[p].pend THEN [total EXCEPT ![work[p].event] = @ + 1] ELSE total

Ends(p) == work' = [work EXCEPT ![p] = [@ EXCEPT !.at = "idle", !.held = {}, !.pend = {}, !.seen = Nothing]]

\* What the session holds takes effect at once and its locks are free.
Commits(p) ==
  /\ work[p].at = "commit"
  /\ events' = Counted(p, "event", events)
  /\ summary' = Counted(p, "summary", summary)
  /\ counts' = Counted(p, "counts", counts)
  /\ diamonds' = Counted(p, "diamonds", diamonds)
  /\ Ends(p)
  /\ UNCHANGED <<hour, came, live, orphaned, profile, patched, harms>>

-----------------------------------------------------------------------------
(* What goes wrong, and what happens beside *)

Harm(kind) ==
  kind \in Harms /\ harmed < HarmMax /\ harmed' = harmed + 1 /\ UNCHANGED broken

\* A statement or the commit raises: the transaction is rolled back and the
\* event is gone, unless it comes again.  The cached counters stay as they are.
PersistFails(p) ==
  /\ work[p].at \in Statements \cup {"commit"}
  /\ Harm("error")
  /\ Ends(p)
  /\ UNCHANGED <<hour, came, totals, live, orphaned, profile, patched>>

\* The process dies with its transactions; the cache is in Redis.
WorkerDies ==
  /\ Harm("crash")
  /\ work' = [p \in Persister |->
                [work[p] EXCEPT !.at = "idle", !.held = {}, !.pend = {}, !.seen = Nothing]]
  /\ orphaned' = {}
  /\ profile' = [profile EXCEPT !.adapter = "absent", !.writing = FALSE]
  /\ UNCHANGED <<hour, came, totals, live, patched>>

\* Sessions left behind are closed when they are collected.
Collect == orphaned # {} /\ orphaned' = {} /\ UNCHANGED <<hour, came, work, totals, live, profile, patched, harms>>

\* update_subscription_profile of this process forgets the adapter's value
\* before it commits; another process only commits.
ProbeHere ==
  /\ Harm("probe")
  /\ ~profile.writing /\ ~profile.row
  /\ profile' = [profile EXCEPT !.adapter = "absent", !.writing = TRUE]
  /\ UNCHANGED <<hour, came, work, totals, live, orphaned, patched>>

ProbeCommits ==
  /\ profile.writing
  /\ profile' = [profile EXCEPT !.row = TRUE, !.writing = FALSE]
  /\ UNCHANGED <<hour, came, work, totals, live, orphaned, patched, harms>>

ProbeThere ==
  /\ Harm("elsewhere")
  /\ ~profile.row
  /\ profile' = [profile EXCEPT !.row = TRUE]
  /\ UNCHANGED <<hour, came, work, totals, live, orphaned, patched>>

NextHour ==
  /\ hour < Hours /\ hour' = hour + 1
  /\ UNCHANGED <<came, work, totals, live, orphaned, profile, patched, harms>>

PersistStep(p) ==
  \/ Begin(p) \/ UpsertRoom(p) \/ UpsertViewer(p) \/ InsertEvent(p) \/ SkipEvent(p)
  \/ UpsertSummary(p) \/ BumpHour(p) \/ ReadCache(p) \/ PatchCache(p) \/ Commits(p)

TallyNext ==
  \/ \E p \in Persister : PersistStep(p) \/ PersistFails(p)
  \/ WorkerDies \/ Collect \/ ProbeHere \/ ProbeCommits \/ ProbeThere \/ NextHour

TallySpec == TallyInit /\ [][TallyNext]_tallyVars

-----------------------------------------------------------------------------
(* Properties *)

TotalsAgree == \A e \in Incoming :
  /\ counts[e] = events[e]
  /\ summary[e] <= events[e] /\ diamonds[e] <= events[e]
  /\ About[e].type = "gift" /\ About[e].to = "host" => summary[e] = events[e] /\ diamonds[e] = events[e]

\* The read paths take their totals from tables kept beside the events: each
\* stored event is counted once in its hour, each stored gift to the host once
\* in its giver's sums and diamonds, and nothing is counted that is not stored,
\* whatever is replayed, fails or dies in between, while connections last.
TalliesAgree == ~broken => TotalsAgree

\* The cached counters are read and written back in two steps, by several
\* threads and without a lock of their own: within an hour, no patch undoes
\* another one, nor a reset.
NoPatchLost == ~broken /\ hour = 1 => live = patched

\* Refuted: "Single-transaction room+viewer+event persist" (TotalsAgree).

\* Refuted: no patch is ever lost.
PatchesAddUp == ~broken => live = patched

\* Refuted: "the DB row is already committed" when the cache is patched.
PatchedIsStored == \A e \in Incoming :
  patched[e] <= events[e] + (IF \E p \in Persister : work[p].event = e /\ "event" \in work[p].pend
                             THEN 1 ELSE 0)

\* Refuted: the profile's cache is emptied "so write paths pick up a
\* freshly-resolved user_id immediately".
FreshProfile == profile.row /\ ~profile.writing => profile.adapter # "unknown"

\* Refuted: the summary "stays in lock-step with what the leaderboard would
\* compute from raw events".
InLockStep ==
  profile.row => \A e \in Incoming : About[e].type = "gift" /\ About[e].to = "guest" => summary[e] = 0
=============================================================================
