---------------------------- MODULE MatchTracker ----------------------------
(***************************************************************************)
(* The events of one room, from the connection to the database: the        *)
(* executor threads that share _active_match, the rows of the battles they *)
(* open, update and close, the de-duplicated insert of each event and the  *)
(* notification that follows it.                                           *)
(*                                                                         *)
(* An event is its place in room, the events as TikTok sends them; a       *)
(* reconnect replays events.  A score is the total of a scores map.  One   *)
(* action of a thread is one access to _active_match or one database       *)
(* transaction, except that update_match's read and write are apart, as    *)
(* nothing locks the row.                                                  *)
(***************************************************************************)
EXTENDS Integers, Sequences

CONSTANTS
  Feeds,     \* the rooms a behaviour may be about, as the events they send
  Threads,   \* workers of _event_executor
  Loop,      \* the event loop's thread, which stops sessions
  Waiting,   \* bound on the executor's queue
  Replays,   \* bound on the events that come again
  Faults     \* bound on failed or lost transactions and crashes

NoScore == -1  \* an empty scores map

\* battle is NoMatch in an event that names none.
\* "drop" is the synthetic live_end or disconnected, without a message_id;
\* "gift" is any other event, of a viewer whose events are notified.
Event == [kind : {"start", "update", "end", "gift", "drop"}, battle : Nat, score : Int]

ASSUME TrackerAssumption ==
  /\ Feeds \subseteq Seq(Event) /\ Loop \notin Threads
  /\ {Waiting, Replays, Faults} \subseteq Nat

VARIABLES
  room,            \* the events of the room; never changes
  sent, replayed,  \* events sent for the first time; events sent again so far
  backlog,         \* the executor's queue
  job,             \* what each thread does
  active,          \* _active_match[room_id], as the battle, or NoMatch
  rows,            \* tiktok_matches, by battle
  stored, notes,   \* rows of tiktok_events and of the notifications, by event
  faulty, raced,   \* faults so far; history: two jobs ran at once
  unstored         \* history: events whose insert was reported and is not there

matchVars == <<room, sent, replayed, backlog, job, active, rows, stored, notes, faulty, raced,
              unstored>>

-----------------------------------------------------------------------------
NoMatch == 0

Battle == (UNION {{f[e].battle : e \in DOMAIN f} : f \in Feeds}) \ {NoMatch}

Score == (UNION {{f[e].score : e \in DOMAIN f} : f \in Feeds}) \cup {NoScore, 0}

Resting == [pc |-> "rest", event |-> 0, match |-> NoMatch, saw |-> 0]

Job == [pc    : {"rest", "open", "prev", "shutprev", "mark", "look", "read",
                 "write", "pop", "shut", "persist", "notify"},
        event : {0} \cup DOMAIN room,       \* 0 when a session is stopped
        match : {NoMatch} \cup Battle,      \* the row in hand
        saw   : Score]                      \* the score it was read with

Absent == [is |-> "absent", score |-> 0, stale |-> FALSE]

Row == [is : {"absent", "open", "ended"}, score : Score, stale : BOOLEAN]

MatchTypeOK ==
  /\ room \in Feeds
  /\ sent \in 0 .. Len(room) /\ replayed \in 0 .. Replays /\ faulty \in 0 .. Faults
  /\ backlog \in Seq(DOMAIN room) /\ Len(backlog) <= Waiting
  /\ job \in [Threads \cup {Loop} -> Job]
  /\ active \in {NoMatch} \cup Battle
  /\ rows \in [Battle -> Row]
  /\ stored \in [DOMAIN room -> 0 .. 2] /\ notes \in [DOMAIN room -> 0 .. 2]
  /\ raced \in BOOLEAN /\ unstored \in SUBSET DOMAIN room

MatchInit ==
  /\ room \in Feeds
  /\ sent = 0 /\ replayed = 0 /\ faulty = 0 /\ raced = FALSE /\ unstored = {}
  /\ backlog = <<>>
  /\ job = [w \in Threads \cup {Loop} |-> Resting]
  /\ active = NoMatch
  /\ rows = [b \in Battle |-> Absent]
  /\ stored = [e \in DOMAIN room |-> 0] /\ notes = stored

-----------------------------------------------------------------------------
(* The connection *)

Stored == <<rows, stored, notes>>

Send ==
  /\ sent < Len(room) /\ Len(backlog) < Waiting
  /\ sent' = sent + 1 /\ backlog' = Append(backlog, sent')
  /\ UNCHANGED <<room, replayed, job, active, Stored, faulty, raced, unstored>>

\* After a reconnect TikTok's cursor delivers a message again.
Replay(e) ==
  /\ replayed < Replays /\ Len(backlog) < Waiting
  /\ e <= sent /\ room[e].kind # "drop"
  /\ replayed' = replayed + 1 /\ backlog' = Append(backlog, e)
  /\ UNCHANGED <<room, sent, job, active, Stored, faulty, raced, unstored>>

-----------------------------------------------------------------------------
(* The threads *)

Rests(w) == job[w].pc = "rest"

AllRest == \A w \in DOMAIN job : Rests(w)

At(w, pcs) == job[w].pc \in pcs

The(w) == room[job[w].event]

Become(w, j) == job' = [job EXCEPT ![w] = j]

Go(w, pc) == job' = [job EXCEPT ![w].pc = pc]

\* The battle is seen to; the event is next.
Seen(w) == Become(w, [Resting EXCEPT !.pc = "persist", !.event = job[w].event])

Begins(w, j) == Become(w, j) /\ raced' = (raced \/ ~AllRest)

\* _persist_event begins with the battle, if the event is about one.
FirstStep(e) ==
  IF e.kind = "start" /\ e.battle = NoMatch THEN "persist"
  ELSE [start |-> "open", update |-> "look", end |-> "pop", drop |-> "pop",
        gift |-> "persist"][e.kind]

TakeJob(w) ==
  /\ w \in Threads /\ Rests(w) /\ backlog # <<>>
  /\ backlog' = Tail(backlog)
  /\ Begins(w, [Resting EXCEPT !.pc = FirstStep(room[Head(backlog)]),
                               !.event = Head(backlog)])
  /\ UNCHANGED <<room, sent, replayed, active, Stored, faulty, unstored>>

\* _stop_session: the room's match is popped and closed by the event loop.
StopsSession ==
  /\ Rests(Loop) /\ active # NoMatch
  /\ Begins(Loop, [Resting EXCEPT !.pc = "shut", !.match = active])
  /\ active' = NoMatch
  /\ UNCHANGED <<room, sent, replayed, backlog, Stored, faulty, unstored>>

Outside == <<room, sent, replayed, backlog, faulty, raced, unstored>>

\* open_match, of a start or of an update without an active match: a row
\* that is there gets the event's scores, if it has any, and stays ended.
Opened(e) ==
  [rows EXCEPT ![e.battle] =
    [is    |-> IF @.is = "absent" THEN "open" ELSE @.is,
     score |-> IF e.score = NoScore THEN @.score ELSE e.score,
     stale |-> FALSE]]

OpenMatch(w) ==
  /\ At(w, {"open"})
  /\ rows' = Opened(The(w))
  /\ Go(w, IF The(w).kind = "start" THEN "prev" ELSE "mark")
  /\ UNCHANGED <<Outside, active, stored, notes>>

\* Mutant of ReadPrev: the match before is forgotten, not closed.
ReadPrevForgets(w) ==
  /\ At(w, {"prev"}) /\ Go(w, "mark")
  /\ UNCHANGED <<Outside, active, Stored>>

\* A start closes the room's match before it, of another battle.
ReadPrev(w) ==
  /\ At(w, {"prev"})
  /\ IF active \in {NoMatch, The(w).battle}
       THEN Go(w, "mark")
       ELSE Become(w, [job[w] EXCEPT !.pc = "shutprev", !.match = active])
  /\ UNCHANGED <<Outside, active, Stored>>

\* close_match: only a row that is open.
CloseMatch(w) ==
  /\ At(w, {"shut", "shutprev"})
  /\ rows' = [rows EXCEPT ![job[w].match].is = IF @ = "open" THEN "ended" ELSE @]
  /\ IF At(w, {"shutprev"}) THEN Become(w, [job[w] EXCEPT !.pc = "mark", !.match = NoMatch])
     ELSE IF w = Loop THEN Become(w, Resting)
     ELSE Seen(w)
  /\ UNCHANGED <<Outside, active, stored, notes>>

MarkActive(w) ==
  /\ At(w, {"mark"})
  /\ active' = The(w).battle
  /\ IF The(w).kind = "start" THEN Seen(w)
     ELSE Become(w, [job[w] EXCEPT !.pc = "read", !.match = active'])
  /\ UNCHANGED <<Outside, Stored>>

\* An update goes to the active match, whatever battle it is of.
LookActive(w) ==
  /\ At(w, {"look"})
  /\ IF active # NoMatch THEN Become(w, [job[w] EXCEPT !.pc = "read", !.match = active])
     ELSE IF The(w).battle = NoMatch THEN Seen(w)
     ELSE Go(w, "open")
  /\ UNCHANGED <<Outside, active, Stored>>

ReadMatch(w) ==
  /\ At(w, {"read"})
  /\ Become(w, [job[w] EXCEPT !.pc = "write", !.saw = rows[job[w].match].score])
  /\ UNCHANGED <<Outside, active, Stored>>

\* update_match: a total below half of the one read is not taken.
Regresses(saw, new) == saw > 0 /\ 2 * new < saw

Taken(old, saw, new) == IF new = NoScore \/ Regresses(saw, new) THEN old ELSE new

WriteMatch(w) ==
  /\ At(w, {"write"})
  /\ rows' = [rows EXCEPT ![job[w].match].stale = FALSE,
                          ![job[w].match].score = Taken(@, job[w].saw, The(w).score)]
  /\ Seen(w)
  /\ UNCHANGED <<Outside, active, stored, notes>>

\* An end, or a lost connection, closes the active match.
PopActive(w) ==
  /\ At(w, {"pop"})
  /\ IF active = NoMatch
       THEN Seen(w)
       ELSE Become(w, [job[w] EXCEPT !.pc = "shut", !.match = active])
  /\ active' = NoMatch
  /\ UNCHANGED <<Outside, Stored>>

More(n) == IF n < 2 THEN n + 1 ELSE n

\* Mutant of PersistEvent: the conflict is not seen by the caller.
PersistAlways(w) ==
  LET e == job[w].event IN
  /\ At(w, {"persist"})
  /\ stored' = [stored EXCEPT ![e] = IF The(w).kind = "drop" THEN More(@) ELSE 1]
  /\ IF The(w).kind = "gift" THEN Go(w, "notify") ELSE Become(w, Resting)
  /\ UNCHANGED <<Outside, active, rows, notes>>

\* persist_event_full: ON CONFLICT (room_id, message_id) DO NOTHING; an event
\* that is stored already is not notified.
Fresh(e) == stored[e] = 0 \/ room[e].kind = "drop"

Inserted(e) == IF Fresh(e) THEN [stored EXCEPT ![e] = More(@)] ELSE stored

PersistEvent(w) ==
  LET e == job[w].event IN
  /\ At(w, {"persist"})
  /\ stored' = Inserted(e)
  /\ IF Fresh(e) /\ The(w).kind = "gift" THEN Go(w, "notify") ELSE Become(w, Resting)
  /\ UNCHANGED <<Outside, active, rows, notes>>

InsertNote(w) ==
  /\ At(w, {"notify"})
  /\ notes' = [notes EXCEPT ![job[w].event] = More(@)]
  /\ Become(w, Resting)
  /\ UNCHANGED <<Outside, active, rows, stored>>

-----------------------------------------------------------------------------
(* Faults *)

\* A transaction fails (also open_match's insert of a row that another thread
\* has inserted meanwhile): the exception is logged and the job goes on.  It
\* may have been committed, if the answer is lost, or if the refresh that
\* follows it in open_match fails; after the others the job goes on as if all
\* had been well.
LastSteps == {"persist", "notify"}

Transactions == {"open", "shutprev", "shut", "read", "write"} \cup LastSteps

TransactionFails(w) ==
  /\ faulty < Faults /\ At(w, Transactions)
  /\ faulty' = faulty + 1
  /\ \/ UNCHANGED <<rows, stored>>
     \/ At(w, {"open"}) /\ rows' = Opened(The(w)) /\ UNCHANGED stored
     \/ At(w, {"persist"}) /\ stored' = Inserted(job[w].event) /\ UNCHANGED rows
  /\ IF w = Loop \/ At(w, LastSteps) THEN Become(w, Resting)
     ELSE IF At(w, {"shutprev"}) THEN Go(w, "mark")
     ELSE Seen(w)
  /\ UNCHANGED <<room, sent, replayed, backlog, active, notes, raced, unstored>>

\* The connection breaks in persist_event_full after the insert: the retry
\* commits a new session, without the event, and its id is returned (see
\* DbRetry).  For a drop the refresh that follows fails, as above.
InsertLost(w) ==
  LET e == job[w].event IN
  /\ faulty < Faults /\ At(w, {"persist"})
  /\ The(w).kind # "drop" /\ stored[e] = 0
  /\ faulty' = faulty + 1
  /\ unstored' = unstored \cup {e}
  /\ IF The(w).kind = "gift" THEN Go(w, "notify") ELSE Become(w, Resting)
  /\ UNCHANGED <<room, sent, replayed, backlog, active, Stored, raced>>

WorkerCrash ==
  /\ faulty < Faults
  /\ faulty' = faulty + 1
  /\ backlog' = <<>> /\ active' = NoMatch
  /\ job' = [w \in DOMAIN job |-> Resting]
  /\ UNCHANGED <<room, sent, replayed, Stored, raced, unstored>>

-----------------------------------------------------------------------------
(* close_orphan_matches, of the API's maintenance task *)

IsOpen(b) == rows[b].is = "open"

\* Ten minutes, or five beyond the countdown, without an update.
Silence ==
  /\ AllRest /\ backlog = <<>>
  /\ \E b \in Battle : IsOpen(b) /\ ~rows[b].stale
  /\ rows' = [b \in Battle |-> [rows[b] EXCEPT !.stale = IsOpen(b)]]
  /\ UNCHANGED <<room, sent, replayed, backlog, job, active, stored, notes, faulty, raced,
                unstored>>

\* Mutant of IsOrphan: a match that is somebody's active one is let alone.
IsOrphanInactive(b) == IsOpen(b) /\ rows[b].stale /\ active # b

IsOrphan(b) == IsOpen(b) /\ rows[b].stale

CloseOrphans ==
  /\ \E b \in Battle : IsOrphan(b)
  /\ rows' = [b \in Battle |->
                IF IsOrphan(b) THEN [rows[b] EXCEPT !.is = "ended"] ELSE rows[b]]
  /\ UNCHANGED <<room, sent, replayed, backlog, job, active, stored, notes, faulty, raced,
                unstored>>

-----------------------------------------------------------------------------
JobStep(w) ==
  \/ OpenMatch(w) \/ ReadPrev(w) \/ CloseMatch(w) \/ MarkActive(w) \/ LookActive(w)
  \/ ReadMatch(w) \/ WriteMatch(w) \/ PopActive(w) \/ PersistEvent(w) \/ InsertNote(w)

MatchNext ==
  \/ Send \/ StopsSession \/ WorkerCrash \/ Silence \/ CloseOrphans
  \/ \E e \in DOMAIN room : Replay(e)
  \/ \E w \in DOMAIN job : TakeJob(w) \/ JobStep(w) \/ TransactionFails(w) \/ InsertLost(w)

MatchSpec == MatchInit /\ [][MatchNext]_matchVars

\* The threads work, time passes, and the maintenance task runs.
MatchFairness ==
  /\ \A w \in Threads \cup {Loop} : WF_matchVars(TakeJob(w) \/ JobStep(w))
  /\ WF_matchVars(Silence) /\ WF_matchVars(CloseOrphans)

MatchFairSpec == MatchSpec /\ MatchFairness

-----------------------------------------------------------------------------
(* Properties *)

\* Between jobs the match that the database has open is the one the worker has
\* active, as long as the room's events were handled one at a time and no
\* transaction failed: also over replayed, late and doubled events.
OpenIsActive ==
  AllRest /\ ~raced /\ faulty = 0 => \A b \in Battle : IsOpen(b) => active = b

\* An event is stored at most once, and notified at most once and only if it
\* is stored, however often it is delivered, by whichever threads, and over
\* crashes.  An insert that was reported and is not there is notified too, and
\* again when the event comes again.
StoredOnce ==
  \A e \in DOMAIN room : room[e].kind # "drop" =>
    stored[e] <= 1 /\ (notes[e] <= stored[e] \/ e \in unstored)

\* Every match is ended in the end: threads that race for _active_match, lost
\* transactions and crashes leave none open.
MatchesEnd == \A b \in Battle : IsOpen(b) ~> ~IsOpen(b)

\* "The first arrival of either [end event is] the close signal": an end closes
\* the match of its own battle.
EndClosesItsOwn ==
  [][\A w \in Threads : CloseMatch(w) /\ The(w).kind = "end"
       => job[w].match = The(w).battle]_matchVars

\* "PK scores in a single battle only ever increase": a match keeps at least
\* half of its score.
ScoreKept == [][\A b \in Battle : ~Regresses(rows[b].score, rows'[b].score)]_matchVars
=============================================================================
