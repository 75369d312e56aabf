---------------------------- MODULE TiktokProofs ----------------------------
(***************************************************************************)
(* What holds behind a session for every room, any number of threads,      *)
(* replays and faults: the events of a room are stored once, and the open  *)
(* match is the active one.                                                *)
(***************************************************************************)
EXTENDS TiktokMC, TLAPS

-----------------------------------------------------------------------------
(* The matches of a room: types *)

\* What a thread at a step of its job has in hand: the loop only closes the
\* match of a session it stops; the other threads have an event of the kind
\* that comes to that step, and the match that the step is about.
Fits(w, j) ==
  /\ j.event = 0 <=> j.pc = "rest" \/ w = Loop
  /\ w = Loop => j.pc \in {"rest", "shut"}
  /\ j.pc \in {"prev", "shutprev"} => room[j.event].kind = "start"
  /\ j.pc \in {"open", "mark"} => room[j.event].kind \in {"start", "update"}
  /\ j.pc \in {"open", "prev", "shutprev", "mark"} => room[j.event].battle # NoMatch
  /\ j.pc \in {"look", "read", "write"} => room[j.event].kind = "update"
  /\ j.pc = "pop" => room[j.event].kind \in {"end", "drop"}
  /\ j.pc = "notify" => room[j.event].kind = "gift"
  /\ j.pc \in {"read", "write", "shut", "shutprev"} => j.match # NoMatch

MatchSound == MatchTypeOK /\ \A w \in DOMAIN job : Fits(w, job[w])

LEMMA JobFields ==
  ASSUME NEW j \in Job
  PROVE  /\ \A p \in {"rest", "open", "prev", "shutprev", "mark", "look", "read",
                      "write", "pop", "shut", "persist", "notify"} :
              [j EXCEPT !.pc = p] \in Job
         /\ j.event \in {0} \cup DOMAIN room
         /\ j.match \in {NoMatch} \cup Battle
         /\ j.saw \in Score
BY DEF Job

LEMMA RoomEvents ==
  ASSUME MatchTypeOK, NEW e \in DOMAIN room
  PROVE  /\ room \in Seq(Event) /\ e \in Nat \ {0}
         /\ room[e] \in Event
         /\ room[e].score \in Score
         /\ room[e].battle \in {NoMatch} \cup Battle
<1>1. room \in Feeds /\ room \in Seq(Event)
  BY TrackerAssumption DEF MatchTypeOK
<1>2. e \in 1 .. Len(room) /\ room[e] \in Event
  BY <1>1
<1>3. room[e].score \in Score
  <2>1. {room[i].score : i \in DOMAIN room} \in {{f[i].score : i \in DOMAIN f} : f \in Feeds}
    BY <1>1
  <2> QED
    BY <2>1 DEF Score
<1>4. room[e].battle \in {NoMatch} \cup Battle
  <2>1. {room[i].battle : i \in DOMAIN room} \in {{f[i].battle : i \in DOMAIN f} : f \in Feeds}
    BY <1>1
  <2> QED
    BY <2>1 DEF Battle
<1> QED
  BY <1>1, <1>2, <1>3, <1>4

LEMMA JobTypes ==
  ASSUME MatchTypeOK, NEW w \in DOMAIN job
  PROVE  job[w] \in Job /\ w \in Threads \cup {Loop} /\ DOMAIN job = Threads \cup {Loop}
BY DEF MatchTypeOK
LEMMA MatchTypeInit == MatchInit => MatchSound
<1> SUFFICES ASSUME MatchInit PROVE MatchSound
  OBVIOUS
<1>1. room \in Seq(Event) /\ {Waiting, Replays, Faults} \subseteq Nat
  BY TrackerAssumption DEF MatchInit
<1>2. Resting \in Job /\ Absent \in Row
  BY DEF Resting, Job, Score, Absent, Row
<1>3. sent \in 0 .. Len(room) /\ replayed \in 0 .. Replays /\ faulty \in 0 .. Faults
  BY <1>1 DEF MatchInit
<1>4. backlog \in Seq(DOMAIN room) /\ Len(backlog) <= Waiting
  BY <1>1 DEF MatchInit
<1>5. stored \in [DOMAIN room -> 0 .. 2] /\ notes \in [DOMAIN room -> 0 .. 2]
  BY DEF MatchInit
<1>6. MatchTypeOK
  BY <1>2, <1>3, <1>4, <1>5 DEF MatchInit, MatchTypeOK
<1> QED
  BY <1>6 DEF MatchInit, MatchSound, Fits, Resting, Rests, At

\* What a job's step does to the jobs, with the thread at the step.
LEMMA Becomes ==
  ASSUME MatchSound, NEW w \in DOMAIN job, NEW j \in Job, Become(w, j)
  PROVE  /\ job' \in [Threads \cup {Loop} -> Job]
         /\ DOMAIN job' = DOMAIN job
         /\ job'[w] = j
         /\ \A v \in DOMAIN job : v # w => job'[v] = job[v]
BY DEF MatchSound, MatchTypeOK, Become

\* A job that goes on to another step keeps the rest.
LEMMA Goes ==
  ASSUME MatchSound, NEW w \in DOMAIN job, NEW p, Go(w, p)
  PROVE  Become(w, [job[w] EXCEPT !.pc = p])
BY DEF MatchSound, MatchTypeOK, Go, Become

\* A job goes on, to a step that its thread and its event may be at.
LEMMA KeepsSound ==
  ASSUME MatchSound, NEW w \in DOMAIN job, NEW j \in Job, Become(w, j), UNCHANGED room,
         Fits(w, j)
  PROVE  /\ job' \in [Threads \cup {Loop} -> Job]
         /\ \A v \in DOMAIN job' : Fits(v, job[v])'
<1>1. /\ job'[w] = j /\ DOMAIN job' = DOMAIN job
      /\ \A v \in DOMAIN job : v # w => job'[v] = job[v]
  BY Becomes
<1> QED
  BY <1>1, Becomes DEF MatchSound, Fits

\* A thread whose job is over rests.
LEMMA RestsSound ==
  ASSUME MatchSound, NEW w \in DOMAIN job, Become(w, Resting), UNCHANGED room
  PROVE  /\ job' \in [Threads \cup {Loop} -> Job]
         /\ \A v \in DOMAIN job' : Fits(v, job[v])'
<1>1. Resting \in Job /\ Fits(w, Resting)
  BY DEF Resting, Job, Score, Fits
<1> QED
  BY <1>1, KeepsSound

\* What a thread other than the loop has in hand.
LEMMA InHand ==
  ASSUME MatchSound, NEW w \in DOMAIN job, ~Rests(w), w # Loop
  PROVE  /\ job[w] \in Job /\ Fits(w, job[w])
         /\ job[w].event \in DOMAIN room /\ job[w].event # 0
         /\ The(w) \in Event /\ The(w).score \in Score
         /\ The(w).battle \in {NoMatch} \cup Battle
         /\ At(w, {"open", "prev", "shutprev", "mark"}) => The(w).battle \in Battle
BY JobTypes, JobFields, RoomEvents DEF MatchSound, Fits, The, Rests, At

LEMMA Steps ==
  ASSUME MatchSound, NEW w \in DOMAIN job, NEW p, At(w, {p}), p \notin {"rest", "shut"}
  PROVE  ~Rests(w) /\ w # Loop /\ job[w].pc = p
BY DEF MatchSound, Fits, At, Rests

\* A battle that is seen to: the event is next.
LEMMA SeenSound ==
  ASSUME MatchSound, NEW w \in DOMAIN job, ~Rests(w), w # Loop, Seen(w), UNCHANGED room
  PROVE  /\ job' \in [Threads \cup {Loop} -> Job]
         /\ \A v \in DOMAIN job' : Fits(v, job[v])'
<1> DEFINE j == [Resting EXCEPT !.pc = "persist", !.event = job[w].event]
<1>1. j \in Job /\ Fits(w, j)
  BY InHand DEF Resting, Job, Score, Fits
<1>2. Become(w, j)
  BY DEF Seen
<1> HIDE DEF j
<1> QED
  BY <1>1, <1>2, KeepsSound

\* A job that goes on with its event, to another step.
LEMMA GoesSound ==
  ASSUME MatchSound, NEW w \in DOMAIN job, ~Rests(w), w # Loop, UNCHANGED room,
         NEW p \in {"open", "prev", "mark", "notify"}, Go(w, p),
         p = "prev" => The(w).kind = "start",
         p \in {"open", "mark"} => The(w).kind \in {"start", "update"},
         p \in {"open", "prev", "mark"} => The(w).battle # NoMatch,
         p = "notify" => The(w).kind = "gift"
  PROVE  /\ job' \in [Threads \cup {Loop} -> Job]
         /\ \A v \in DOMAIN job' : Fits(v, job[v])'
<1> DEFINE j == [job[w] EXCEPT !.pc = p]
<1>1. j \in Job /\ j.pc = p /\ j.event = job[w].event /\ j.event # 0
  BY InHand DEF Job
<1>2. Become(w, j)
  BY Goes
<1> HIDE DEF j
<1>3. Fits(w, j)
  BY <1>1 DEF Fits, The
<1> QED
  BY <1>1, <1>2, <1>3, KeepsSound

\* The same with a match in hand.
LEMMA TakesSound ==
  ASSUME MatchSound, NEW w \in DOMAIN job, ~Rests(w), w # Loop, UNCHANGED room,
         NEW j \in Job, Become(w, j), j.event = job[w].event,
         \/ j.pc = "shutprev" /\ j.match # NoMatch /\ At(w, {"prev"})
         \/ j.pc = "mark" /\ At(w, {"shutprev"})
         \/ j.pc \in {"read", "write"} /\ The(w).kind = "update" /\ j.match # NoMatch
         \/ j.pc = "shut" /\ j.match # NoMatch
  PROVE  /\ job' \in [Threads \cup {Loop} -> Job]
         /\ \A v \in DOMAIN job' : Fits(v, job[v])'
<1>1. Fits(w, j)
  BY InHand DEF Fits, The, At
<1> QED
  BY <1>1, KeepsSound

\* Steps that leave the rows alone.
LEMMA LookTypes ==
  ASSUME MatchSound, NEW w \in DOMAIN job,
         ReadPrev(w) \/ LookActive(w) \/ MarkActive(w) \/ ReadMatch(w) \/ PopActive(w)
  PROVE  MatchSound'
<1> SUFFICES /\ job' \in [Threads \cup {Loop} -> Job] /\ \A v \in DOMAIN job' : Fits(v, job[v])'
             /\ active' \in {NoMatch} \cup Battle
  BY DEF ReadPrev, LookActive, MarkActive, ReadMatch, PopActive, Outside, Stored,
         MatchSound, MatchTypeOK, Job, Row, Score, Battle
<1>0. /\ active \in {NoMatch} \cup Battle /\ rows \in [Battle -> Row] /\ job[w] \in Job
      /\ Fits(w, job[w])
  BY JobTypes DEF MatchSound, MatchTypeOK
<1>1. CASE ReadPrev(w)
  <2>1. /\ ~Rests(w) /\ w # Loop /\ At(w, {"prev"}) /\ UNCHANGED <<room, active>>
        /\ The(w).kind = "start" /\ The(w).battle # NoMatch
    BY <1>1, <1>0, Steps DEF ReadPrev, Outside, Fits, At, The
  <2>2. CASE Go(w, "mark")
    BY <1>0, <2>1, <2>2, GoesSound
  <2>3. CASE active # NoMatch /\ Become(w, [job[w] EXCEPT !.pc = "shutprev", !.match = active])
    <3> DEFINE j == [job[w] EXCEPT !.pc = "shutprev", !.match = active]
    <3>1. j \in Job /\ j.pc = "shutprev" /\ j.event = job[w].event /\ j.match = active
      BY <1>0 DEF Job
    <3>2. Become(w, j)
      BY <2>3
    <3> HIDE DEF j
    <3> QED
      BY <1>0, <2>1, <2>3, <3>1, <3>2, TakesSound
  <2> QED
    BY <1>1, <2>2, <2>3 DEF ReadPrev
<1>2. CASE LookActive(w)
  <2>1. /\ ~Rests(w) /\ w # Loop /\ The(w).kind = "update" /\ UNCHANGED <<room, active>>
    BY <1>2, <1>0, Steps DEF LookActive, Outside, Fits, At, The
  <2>2. CASE Go(w, "open") /\ The(w).battle # NoMatch
    BY <1>0, <2>1, <2>2, GoesSound
  <2>3. CASE active # NoMatch /\ Become(w, [job[w] EXCEPT !.pc = "read", !.match = active])
    <3> DEFINE j == [job[w] EXCEPT !.pc = "read", !.match = active]
    <3>1. j \in Job /\ j.pc = "read" /\ j.event = job[w].event /\ j.match = active
      BY <1>0 DEF Job
    <3>2. Become(w, j)
      BY <2>3
    <3> HIDE DEF j
    <3> QED
      BY <1>0, <2>1, <2>3, <3>1, <3>2, TakesSound
  <2>4. CASE Seen(w)
    BY <1>0, <2>1, <2>4, SeenSound
  <2> QED
    BY <1>2, <2>2, <2>3, <2>4 DEF LookActive
<1>3. CASE MarkActive(w)
  <2>1. /\ ~Rests(w) /\ w # Loop /\ UNCHANGED room
        /\ The(w).kind \in {"start", "update"}
    BY <1>3, <1>0, Steps DEF MarkActive, Outside, Fits, At, The
  <2>2. active' = The(w).battle /\ active' \in Battle /\ active' # NoMatch
    BY <1>3, <2>1, InHand DEF MarkActive, At, Battle
  <2>3. CASE The(w).kind = "start"
    BY <1>3, <2>1, <2>2, <2>3, SeenSound DEF MarkActive
  <2>4. CASE The(w).kind = "update"
    <3> DEFINE j == [job[w] EXCEPT !.pc = "read", !.match = active']
    <3>1. j \in Job /\ j.pc = "read" /\ j.event = job[w].event /\ j.match # NoMatch
      BY <1>0, <2>2 DEF Job
    <3>2. Become(w, j)
      BY <1>3, <2>4 DEF MarkActive
    <3> HIDE DEF j
    <3> QED
      BY <2>1, <2>2, <2>4, <3>1, <3>2, TakesSound
  <2> QED
    BY <2>1, <2>3, <2>4
<1>4. CASE ReadMatch(w)
  <2>1. /\ ~Rests(w) /\ w # Loop /\ The(w).kind = "update" /\ UNCHANGED <<room, active>>
        /\ job[w].match \in Battle /\ job[w].match # NoMatch
    BY <1>4, <1>0, Steps DEF ReadMatch, Outside, Fits, At, The, Job
  <2> DEFINE j == [job[w] EXCEPT !.pc = "write", !.saw = rows[job[w].match].score]
  <2>2. j \in Job /\ j.pc = "write" /\ j.event = job[w].event /\ j.match = job[w].match
    <3>1. rows[job[w].match].score \in Score
      BY <1>0, <2>1 DEF Row
    <3> QED
      BY <1>0, <3>1 DEF Job
  <2>3. Become(w, j)
    BY <1>4 DEF ReadMatch
  <2> HIDE DEF j
  <2> QED
    BY <1>0, <2>1, <2>2, <2>3, TakesSound
<1>5. CASE PopActive(w)
  <2>1. ~Rests(w) /\ w # Loop /\ UNCHANGED room
    BY <1>5, Steps DEF PopActive, Outside
  <2>2. active' \in {NoMatch} \cup Battle
    BY <1>5 DEF PopActive
  <2>3. CASE Seen(w)
    BY <2>1, <2>2, <2>3, SeenSound
  <2>4. CASE active # NoMatch /\ Become(w, [job[w] EXCEPT !.pc = "shut", !.match = active])
    <3> DEFINE j == [job[w] EXCEPT !.pc = "shut", !.match = active]
    <3>1. j \in Job /\ j.pc = "shut" /\ j.event = job[w].event /\ j.match = active
      BY <1>0 DEF Job
    <3>2. Become(w, j)
      BY <2>4
    <3> HIDE DEF j
    <3> QED
      BY <2>1, <2>2, <2>4, <3>1, <3>2, TakesSound
  <2> QED
    BY <1>5, <2>3, <2>4 DEF PopActive
<1> QED
  BY <1>1, <1>2, <1>3, <1>4, <1>5

LEMMA OpenedType ==
  ASSUME MatchTypeOK, NEW w \in DOMAIN job, The(w).score \in Score
  PROVE  Opened(The(w)) \in [Battle -> Row]
BY DEF MatchTypeOK, Opened, Row

\* Steps that write the row of a match.
LEMMA RowTypesKept ==
  ASSUME MatchSound, NEW w \in DOMAIN job,
         OpenMatch(w) \/ CloseMatch(w) \/ WriteMatch(w)
  PROVE  MatchSound'
<1> SUFFICES /\ job' \in [Threads \cup {Loop} -> Job] /\ \A v \in DOMAIN job' : Fits(v, job[v])'
             /\ rows' \in [Battle -> Row]
  BY DEF OpenMatch, CloseMatch, WriteMatch, Outside, MatchSound, MatchTypeOK, Job, Row, Score, Battle
<1>0. rows \in [Battle -> Row] /\ job[w] \in Job /\ Fits(w, job[w])
  BY JobTypes DEF MatchSound, MatchTypeOK
<1>1. CASE OpenMatch(w)
  <2>1. ~Rests(w) /\ w # Loop /\ UNCHANGED room /\ At(w, {"open"})
    BY <1>1, Steps DEF OpenMatch, Outside
  <2>2. The(w).kind \in {"start", "update"} /\ The(w).battle # NoMatch /\ The(w).score \in Score
    BY <1>0, <2>1, InHand DEF Fits, At, The
  <2>3. rows' \in [Battle -> Row]
    BY <1>1, <2>2, OpenedType DEF OpenMatch, MatchSound
  <2>4. CASE Go(w, "prev") /\ The(w).kind = "start"
    BY <2>1, <2>2, <2>3, <2>4, GoesSound
  <2>5. CASE Go(w, "mark")
    BY <2>1, <2>2, <2>3, <2>5, GoesSound
  <2> QED
    BY <1>1, <2>4, <2>5 DEF OpenMatch
<1>2. CASE CloseMatch(w)
  <2>1. UNCHANGED room /\ At(w, {"shut", "shutprev"}) /\ ~Rests(w)
    BY <1>2 DEF CloseMatch, Outside, At, Rests
  <2>2. rows' \in [Battle -> Row]
    BY <1>0, <1>2 DEF CloseMatch, Row
  <2>3. CASE At(w, {"shutprev"}) /\ Become(w, [job[w] EXCEPT !.pc = "mark", !.match = NoMatch])
    <3> DEFINE j == [job[w] EXCEPT !.pc = "mark", !.match = NoMatch]
    <3>1. j \in Job /\ j.pc = "mark" /\ j.event = job[w].event /\ w # Loop
      BY <1>0, <2>3 DEF Job, Fits, At
    <3>2. Become(w, j)
      BY <2>3
    <3> HIDE DEF j
    <3> QED
      BY <1>0, <2>1, <2>2, <2>3, <3>1, <3>2, TakesSound
  <2>4. CASE Become(w, Resting)
    BY <2>1, <2>2, <2>4, RestsSound
  <2>5. CASE w # Loop /\ Seen(w)
    BY <2>1, <2>2, <2>5, SeenSound
  <2> QED
    BY <1>2, <2>3, <2>4, <2>5 DEF CloseMatch
<1>3. CASE WriteMatch(w)
  <2>1. ~Rests(w) /\ w # Loop /\ UNCHANGED room
    BY <1>3, Steps DEF WriteMatch, Outside
  <2>2. The(w).score \in Score
    BY <2>1, InHand
  <2>3. rows' \in [Battle -> Row]
    BY <1>0, <1>3, <2>2 DEF WriteMatch, Row, Taken
  <2> QED
    BY <1>3, <2>1, <2>3, SeenSound DEF WriteMatch
<1> QED
  BY <1>1, <1>2, <1>3

LEMMA MoreType == \A n \in 0 .. 2 : More(n) \in 0 .. 2
BY DEF More

LEMMA InsertedType ==
  ASSUME MatchSound, NEW w \in DOMAIN job, ~Rests(w), w # Loop
  PROVE  Inserted(job[w].event) \in [DOMAIN room -> 0 .. 2]
<1>1. stored \in [DOMAIN room -> 0 .. 2]
  BY DEF MatchSound, MatchTypeOK
<1> QED
  BY <1>1, MoreType DEF Inserted

\* Steps that store an event or a notification.
LEMMA LastTypes ==
  ASSUME MatchSound, NEW w \in DOMAIN job, PersistEvent(w) \/ InsertNote(w)
  PROVE  MatchSound'
<1> SUFFICES /\ job' \in [Threads \cup {Loop} -> Job] /\ \A v \in DOMAIN job' : Fits(v, job[v])'
             /\ stored' \in [DOMAIN room -> 0 .. 2] /\ notes' \in [DOMAIN room -> 0 .. 2]
  BY DEF PersistEvent, InsertNote, Outside, MatchSound, MatchTypeOK, Job, Row, Score, Battle
<1>0. /\ stored \in [DOMAIN room -> 0 .. 2] /\ notes \in [DOMAIN room -> 0 .. 2]
      /\ job[w] \in Job /\ Fits(w, job[w])
  BY JobTypes DEF MatchSound, MatchTypeOK
<1>1. CASE PersistEvent(w)
  <2>1. ~Rests(w) /\ w # Loop /\ UNCHANGED <<room, notes>>
    BY <1>1, Steps DEF PersistEvent, Outside
  <2>2. stored' \in [DOMAIN room -> 0 .. 2]
    BY <1>1, <2>1, InsertedType DEF PersistEvent
  <2>3. CASE The(w).kind = "gift" /\ Go(w, "notify")
    BY <1>0, <2>1, <2>2, <2>3, GoesSound
  <2>4. CASE Become(w, Resting)
    BY <1>0, <2>1, <2>2, <2>4, RestsSound
  <2> QED
    BY <1>1, <2>3, <2>4 DEF PersistEvent
<1>2. CASE InsertNote(w)
  <2>1. ~Rests(w) /\ w # Loop /\ UNCHANGED <<room, stored>> /\ Become(w, Resting)
    BY <1>2, Steps DEF InsertNote, Outside
  <2>2. notes' \in [DOMAIN room -> 0 .. 2]
    BY <1>0, <1>2, <2>1, InHand, MoreType DEF InsertNote
  <2> QED
    BY <1>0, <2>1, <2>2, RestsSound
<1> QED
  BY <1>1, <1>2

\* A transaction that fails, or is reported and not made.
LEMMA FaultTypes ==
  ASSUME MatchSound, NEW w \in DOMAIN job, TransactionFails(w) \/ InsertLost(w)
  PROVE  MatchSound'
<1> SUFFICES /\ job' \in [Threads \cup {Loop} -> Job] /\ \A v \in DOMAIN job' : Fits(v, job[v])'
             /\ rows' \in [Battle -> Row] /\ stored' \in [DOMAIN room -> 0 .. 2]
             /\ faulty' \in 0 .. Faults /\ unstored' \in SUBSET DOMAIN room
  BY DEF TransactionFails, InsertLost, Stored, MatchSound, MatchTypeOK, Job, Row, Score, Battle
<1>0. /\ rows \in [Battle -> Row] /\ stored \in [DOMAIN room -> 0 .. 2]
      /\ unstored \in SUBSET DOMAIN room
      /\ faulty \in 0 .. Faults /\ Faults \in Nat /\ job[w] \in Job /\ Fits(w, job[w])
  BY JobTypes, TrackerAssumption DEF MatchSound, MatchTypeOK
<1>1. CASE TransactionFails(w)
  <2>1. /\ ~Rests(w) /\ UNCHANGED <<room, unstored>> /\ faulty' \in 0 .. Faults
        /\ At(w, Transactions)
    BY <1>0, <1>1 DEF TransactionFails, Transactions, LastSteps, At, Rests
  <2>5. rows' \in [Battle -> Row] /\ stored' \in [DOMAIN room -> 0 .. 2]
    <3>1. CASE UNCHANGED <<rows, stored>>
      BY <1>0, <3>1
    <3>2. CASE At(w, {"open"}) /\ rows' = Opened(The(w)) /\ UNCHANGED stored
      BY <1>0, <3>2, Steps, InHand, OpenedType DEF MatchSound
    <3>3. CASE At(w, {"persist"}) /\ stored' = Inserted(job[w].event) /\ UNCHANGED rows
      BY <1>0, <3>3, Steps, InsertedType
    <3> QED
      BY <1>1, <3>1, <3>2, <3>3 DEF TransactionFails
  <2>2. CASE Become(w, Resting)
    BY <1>0, <2>1, <2>5, <2>2, RestsSound
  <2>3. CASE w # Loop /\ At(w, {"shutprev"}) /\ Go(w, "mark")
    <3>1. The(w).kind = "start" /\ The(w).battle # NoMatch
      BY <1>0, <2>3 DEF Fits, At, The
    <3> QED
      BY <1>0, <2>1, <2>5, <2>3, <3>1, GoesSound
  <2>4. CASE w # Loop /\ Seen(w)
    BY <1>0, <2>1, <2>5, <2>4, SeenSound
  <2> QED
    BY <1>1, <2>2, <2>3, <2>4 DEF TransactionFails
<1>2. CASE InsertLost(w)
  <2>0. UNCHANGED <<room, rows, stored>> /\ faulty' \in 0 .. Faults
    BY <1>0, <1>2 DEF InsertLost, Stored
  <2>1. /\ ~Rests(w) /\ w # Loop /\ UNCHANGED <<room, rows, stored>>
        /\ faulty' \in 0 .. Faults
    BY <1>2, <2>0, Steps DEF InsertLost
  <2>2. unstored' \in SUBSET DOMAIN room
    BY <1>0, <1>2, <2>1, InHand DEF InsertLost
  <2>3. CASE The(w).kind = "gift" /\ Go(w, "notify")
    BY <1>0, <2>1, <2>2, <2>3, GoesSound
  <2>4. CASE Become(w, Resting)
    BY <1>0, <2>1, <2>2, <2>4, RestsSound
  <2> QED
    BY <1>2, <2>3, <2>4 DEF InsertLost
<1> QED
  BY <1>1, <1>2

\* A job begins, of the event loop or of a worker of the executor.
LEMMA BeginTypes ==
  ASSUME MatchSound, StopsSession \/ \E w \in DOMAIN job : TakeJob(w)
  PROVE  MatchSound'
<1>0. /\ active \in {NoMatch} \cup Battle /\ DOMAIN job = Threads \cup {Loop}
      /\ backlog \in Seq(DOMAIN room) /\ Len(backlog) <= Waiting /\ Waiting \in Nat
  BY TrackerAssumption DEF MatchSound, MatchTypeOK
<1>1. CASE StopsSession
  <2> DEFINE j == [Resting EXCEPT !.pc = "shut", !.match = active]
  <2>1. j \in Job /\ Fits(Loop, j) /\ Loop \in DOMAIN job
    BY <1>0, <1>1 DEF Resting, Job, Score, Fits, StopsSession
  <2>2. Become(Loop, j) /\ UNCHANGED room
    BY <1>1 DEF StopsSession, Begins
  <2> HIDE DEF j
  <2>3. /\ job' \in [Threads \cup {Loop} -> Job] /\ \A v \in DOMAIN job' : Fits(v, job[v])'
    BY <2>1, <2>2, KeepsSound
  <2>4. active' = NoMatch /\ raced' \in BOOLEAN
    BY <1>1 DEF StopsSession, Begins, MatchSound, MatchTypeOK
  <2> QED
    BY <1>1, <2>3, <2>4 DEF StopsSession, Stored, MatchSound, MatchTypeOK, Job, Row, Score, Battle
<1>2. ASSUME NEW w \in DOMAIN job, TakeJob(w) PROVE MatchSound'
  <2> DEFINE e == Head(backlog)
             j == [Resting EXCEPT !.pc = FirstStep(room[e]), !.event = e]
  <2>1. e \in DOMAIN room /\ backlog' \in Seq(DOMAIN room) /\ Len(backlog') <= Waiting
    BY <1>0, <1>2 DEF TakeJob
  <2>2. room[e] \in Event /\ e # 0 /\ w # Loop
    BY <1>2, <2>1, RoomEvents, TrackerAssumption DEF TakeJob, MatchSound
  <2>3. \/ room[e].kind = "start" /\ room[e].battle # NoMatch /\ FirstStep(room[e]) = "open"
        \/ room[e].kind = "update" /\ FirstStep(room[e]) = "look"
        \/ room[e].kind \in {"end", "drop"} /\ FirstStep(room[e]) = "pop"
        \/ FirstStep(room[e]) = "persist"
    BY <2>2 DEF FirstStep, Event
  <2>4. Become(w, j) /\ UNCHANGED room
    BY <1>2 DEF TakeJob, Begins
  <2> HIDE DEF e
  <2>5. j \in Job /\ Fits(w, j)
    BY <2>1, <2>2, <2>3 DEF Resting, Job, Score, Fits
  <2> HIDE DEF j
  <2>6. /\ job' \in [Threads \cup {Loop} -> Job] /\ \A v \in DOMAIN job' : Fits(v, job[v])'
    BY <2>4, <2>5, KeepsSound
  <2>7. raced' \in BOOLEAN
    BY <1>2 DEF TakeJob, Begins, MatchSound, MatchTypeOK
  <2> QED
    BY <1>2, <2>1, <2>6, <2>7 DEF TakeJob, Stored, MatchSound, MatchTypeOK, Job, Row, Score, Battle
<1> QED
  BY <1>1, <1>2

\* The connection, a crash of the worker, and the maintenance task.
LEMMA OutsideMatchTypes ==
  ASSUME MatchSound,
         \/ Send \/ WorkerCrash \/ Silence \/ CloseOrphans
         \/ \E e \in DOMAIN room : Replay(e)
  PROVE  MatchSound'
<1>0. /\ {Waiting, Replays, Faults} \subseteq Nat /\ room \in Seq(Event)
      /\ rows \in [Battle -> Row]
  BY TrackerAssumption DEF MatchSound, MatchTypeOK
<1>1. CASE Send
  <2>1. /\ sent' \in 0 .. Len(room) /\ backlog' \in Seq(DOMAIN room)
        /\ Len(backlog') <= Waiting
    BY <1>0, <1>1 DEF Send, MatchSound, MatchTypeOK
  <2> QED
    BY <1>1, <2>1 DEF Send, Stored, MatchSound, MatchTypeOK, Job, Row, Score, Battle, Fits
<1>2. ASSUME NEW e \in DOMAIN room, Replay(e) PROVE MatchSound'
  <2>1. /\ replayed' \in 0 .. Replays /\ backlog' \in Seq(DOMAIN room)
        /\ Len(backlog') <= Waiting
    BY <1>0, <1>2 DEF Replay, MatchSound, MatchTypeOK
  <2> QED
    BY <1>2, <2>1 DEF Replay, Stored, MatchSound, MatchTypeOK, Job, Row, Score, Battle, Fits
<1>3. CASE WorkerCrash
  <2>1. Resting \in Job /\ faulty' \in 0 .. Faults
    BY <1>0, <1>3 DEF Resting, Job, Score, WorkerCrash, MatchSound, MatchTypeOK
  <2>2. job' \in [Threads \cup {Loop} -> Job] /\ \A v \in DOMAIN job' : job'[v] = Resting
    BY <1>3, <2>1 DEF WorkerCrash, MatchSound, MatchTypeOK
  <2>3. backlog' = <<>> /\ Len(backlog') <= Waiting
    BY <1>0, <1>3 DEF WorkerCrash
  <2>4. MatchTypeOK'
    BY <1>3, <2>1, <2>2, <2>3 DEF WorkerCrash, Stored, MatchSound, MatchTypeOK, Job, Row, Score, Battle
  <2> QED
    BY <2>2, <2>4 DEF MatchSound, Fits, Resting
<1>4. CASE Silence \/ CloseOrphans
  <2>1. \A b \in Battle : /\ [rows[b] EXCEPT !.stale = TRUE] \in Row
                           /\ [rows[b] EXCEPT !.stale = FALSE] \in Row
                           /\ [rows[b] EXCEPT !.is = "ended"] \in Row
    BY <1>0 DEF Row
  <2>2. \A b \in Battle : IsOpen(b) = TRUE \/ IsOpen(b) = FALSE
    BY DEF IsOpen
  <2>3. \A b \in Battle : [rows[b] EXCEPT !.stale = IsOpen(b)] \in Row
    BY <2>1, <2>2
  <2>4. rows' \in [Battle -> Row]
    BY <1>0, <1>4, <2>1, <2>3 DEF Silence, CloseOrphans
  <2> QED
    BY <1>4, <2>4 DEF Silence, CloseOrphans, MatchSound, MatchTypeOK, Job, Row, Score, Battle, Fits
<1> QED
  BY <1>1, <1>2, <1>3, <1>4

LEMMA MatchTypeStep == MatchSound /\ [MatchNext]_matchVars => MatchSound'
<1> SUFFICES ASSUME MatchSound, MatchNext \/ UNCHANGED matchVars PROVE MatchSound'
  OBVIOUS
<1>1. CASE UNCHANGED matchVars
  BY <1>1 DEF matchVars, MatchSound, MatchTypeOK, Job, Row, Score, Battle, Fits
<1>2. ASSUME NEW w \in DOMAIN job, JobStep(w) PROVE MatchSound'
  BY <1>2, LookTypes, RowTypesKept, LastTypes DEF JobStep
<1> QED
  BY <1>1, <1>2, BeginTypes, OutsideMatchTypes, FaultTypes DEF MatchNext

\* The threads, the rows and the events are of their kinds.
THEOREM MatchTypeCorrect == MatchSpec => []MatchTypeOK
<1>1. MatchSound => MatchTypeOK
  BY DEF MatchSound
<1> QED
  BY <1>1, MatchTypeInit, MatchTypeStep, PTL DEF MatchSpec

-----------------------------------------------------------------------------
(* The matches of a room: every event is stored once *)

Notifies(w, e) == At(w, {"notify"}) /\ job[w].event = e

\* One thread at most has the notification of an event to make, and then the
\* event is stored and not notified yet; unless its insert was lost.
OnceInv ==
  \A e \in DOMAIN room : room[e].kind # "drop" =>
    /\ stored[e] <= 1
    /\ e \notin unstored =>
         /\ notes[e] <= stored[e]
         /\ \A w \in DOMAIN job : Notifies(w, e) =>
              /\ stored[e] = 1 /\ notes[e] = 0
              /\ \A v \in DOMAIN job : Notifies(v, e) => v = w

\* A step that stores nothing and after which no other thread has a
\* notification to make.
LEMMA NothingStored ==
  ASSUME OnceInv, UNCHANGED <<room, stored, notes, unstored>>, DOMAIN job' = DOMAIN job,
         \A v \in DOMAIN job : At(v, {"notify"})' => job'[v] = job[v]
  PROVE  OnceInv'
BY DEF OnceInv, Notifies, At

LEMMA StepsStoreNothing ==
  ASSUME MatchSound, OnceInv, NEW w \in DOMAIN job,
         \/ OpenMatch(w) \/ ReadPrev(w) \/ CloseMatch(w) \/ MarkActive(w) \/ LookActive(w)
         \/ ReadMatch(w) \/ WriteMatch(w) \/ PopActive(w) \/ TakeJob(w)
         \/ TransactionFails(w) /\ UNCHANGED stored
  PROVE  OnceInv'
<1>1. job \in [Threads \cup {Loop} -> Job]
  BY DEF MatchSound, MatchTypeOK
<1>2. UNCHANGED <<room, stored, notes, unstored>>
  BY DEF OpenMatch, ReadPrev, CloseMatch, MarkActive, LookActive, ReadMatch, WriteMatch, PopActive,
         TransactionFails, TakeJob, Outside, Stored
<1> DEFINE Elsewhere == /\ DOMAIN job' = DOMAIN job /\ job'[w].pc # "notify"
                        /\ \A v \in DOMAIN job : v # w => job'[v] = job[v]
<1>3. \A p : Go(w, p) /\ p # "notify" => Elsewhere
  BY <1>1 DEF Go, Job
<1>4. /\ Seen(w) => Elsewhere
      /\ Become(w, Resting) => Elsewhere
      /\ \A m : Become(w, [job[w] EXCEPT !.pc = "shutprev", !.match = m]) => Elsewhere
      /\ \A m : Become(w, [job[w] EXCEPT !.pc = "shut", !.match = m]) => Elsewhere
      /\ \A m : Become(w, [job[w] EXCEPT !.pc = "read", !.match = m]) => Elsewhere
      /\ \A m : Become(w, [job[w] EXCEPT !.pc = "mark", !.match = m]) => Elsewhere
      /\ \A m : Become(w, [job[w] EXCEPT !.pc = "write", !.saw = m]) => Elsewhere
  <2>1. ASSUME NEW j, Become(w, j), j.pc # "notify" PROVE Elsewhere
    BY <1>1, <2>1 DEF Become
  <2>2. \A m : /\ [job[w] EXCEPT !.pc = "shutprev", !.match = m].pc = "shutprev"
               /\ [job[w] EXCEPT !.pc = "shut", !.match = m].pc = "shut"
               /\ [job[w] EXCEPT !.pc = "read", !.match = m].pc = "read"
               /\ [job[w] EXCEPT !.pc = "mark", !.match = m].pc = "mark"
               /\ [job[w] EXCEPT !.pc = "write", !.saw = m].pc = "write"
    BY <1>1 DEF Job
  <2>3. Resting.pc = "rest" /\ \A e : [Resting EXCEPT !.pc = "persist", !.event = e].pc = "persist"
    BY DEF Resting
  <2> HIDE DEF Elsewhere
  <2> QED
    BY <2>1, <2>2, <2>3 DEF Seen
<1> HIDE DEF Elsewhere
<1>5. Elsewhere => OnceInv'
  BY <1>2, NothingStored DEF At, Elsewhere
<1>7. CASE OpenMatch(w) \/ ReadPrev(w) \/ MarkActive(w) \/ LookActive(w)
  BY <1>3, <1>4, <1>5, <1>7 DEF OpenMatch, ReadPrev, MarkActive, LookActive
<1>8. CASE CloseMatch(w) \/ ReadMatch(w) \/ WriteMatch(w) \/ PopActive(w)
  BY <1>3, <1>4, <1>5, <1>8 DEF CloseMatch, ReadMatch, WriteMatch, PopActive
<1>9. CASE TransactionFails(w)
  BY <1>3, <1>4, <1>5, <1>9 DEF TransactionFails
<1>6. CASE TakeJob(w)
  <2>1. Head(backlog) \in DOMAIN room
    BY <1>6 DEF TakeJob, MatchSound, MatchTypeOK
  <2>2. FirstStep(room[Head(backlog)]) # "notify"
    BY <2>1, RoomEvents DEF FirstStep, Event, MatchSound
  <2>3. Elsewhere
    BY <1>1, <1>6, <2>2 DEF TakeJob, Begins, Become, Resting, Job, Elsewhere
  <2> QED
    BY <1>5, <2>3
<1> QED
  BY <1>6, <1>7, <1>8, <1>9

\* The insert of an event, by a thread that then notifies it or not.
LEMMA OncePersists ==
  ASSUME MatchSound, OnceInv, NEW w \in DOMAIN job, At(w, {"persist"}),
         stored' = Inserted(job[w].event), UNCHANGED <<room, notes, unstored>>,
         \/ Fresh(job[w].event) /\ The(w).kind = "gift" /\ Go(w, "notify")
         \/ Become(w, Resting)
  PROVE  OnceInv'
<1>0. /\ job \in [Threads \cup {Loop} -> Job]
      /\ stored \in [DOMAIN room -> 0 .. 2] /\ notes \in [DOMAIN room -> 0 .. 2]
  BY DEF MatchSound, MatchTypeOK
<1> DEFINE e0 == job[w].event
<1>1. /\ w # Loop /\ ~Rests(w) /\ ~At(w, {"notify"})
      /\ stored' = IF stored[e0] = 0 \/ room[e0].kind = "drop"
                   THEN [stored EXCEPT ![e0] = More(@)] ELSE stored
      /\ \/ stored[e0] = 0 /\ room[e0].kind = "gift" /\ Go(w, "notify")
         \/ Become(w, Resting)
  BY Steps DEF Inserted, Fresh, The, At, Rests
<1>2. e0 \in DOMAIN room /\ More(0) = 1
  BY <1>1, InHand DEF More
<1>3. /\ DOMAIN job' = DOMAIN job
      /\ \A v \in DOMAIN job : v # w => job'[v] = job[v]
      /\ At(w, {"notify"})' => stored[e0] = 0 /\ room[e0].kind = "gift" /\ job'[w].event = e0
  BY <1>0, <1>1 DEF Go, Become, Resting, At, Job
<1> HIDE DEF e0
<1> SUFFICES ASSUME NEW e \in DOMAIN room, room[e].kind # "drop"
             PROVE  /\ stored'[e] <= 1
                    /\ e \notin unstored =>
                         /\ notes'[e] <= stored'[e]
                         /\ \A v \in DOMAIN job : Notifies(v, e)' =>
                              /\ stored'[e] = 1 /\ notes'[e] = 0
                              /\ \A u \in DOMAIN job : Notifies(u, e)' => u = v
  BY <1>1, <1>3 DEF OnceInv
<1>4. /\ stored'[e] <= 1 /\ (stored[e] = 1 => stored'[e] = 1)
      /\ e \notin unstored => notes'[e] <= stored'[e]
  BY <1>0, <1>1, <1>2 DEF OnceInv
<1>5. CASE e = e0 /\ stored[e0] = 0
  <2>1. stored'[e] = 1 /\ (e \notin unstored => notes'[e] = 0)
    BY <1>0, <1>1, <1>2, <1>5 DEF OnceInv
  <2>2. e \notin unstored => \A v \in DOMAIN job : v # w => ~Notifies(v, e)'
    BY <1>0, <1>1, <1>3, <1>5 DEF OnceInv, Notifies, At
  <2> QED
    BY <1>4, <2>1, <2>2
<1>6. CASE ~(e = e0 /\ stored[e0] = 0)
  <2>1. ~Notifies(w, e)'
    BY <1>3, <1>6 DEF Notifies, At
  <2>2. \A v \in DOMAIN job : v # w => (Notifies(v, e)' <=> Notifies(v, e))
    BY <1>3 DEF Notifies, At
  <2>3. ~Notifies(w, e)
    BY <1>1 DEF Notifies
  <2> QED
    BY <1>1, <1>4, <2>1, <2>2, <2>3 DEF OnceInv
<1> QED
  BY <1>5, <1>6

LEMMA OnceNotes ==
  ASSUME MatchSound, OnceInv, NEW w \in DOMAIN job, InsertNote(w)
  PROVE  OnceInv'
<1>0. /\ job \in [Threads \cup {Loop} -> Job]
      /\ stored \in [DOMAIN room -> 0 .. 2] /\ notes \in [DOMAIN room -> 0 .. 2]
  BY DEF MatchSound, MatchTypeOK
<1> DEFINE e0 == job[w].event
<1>1. /\ w # Loop /\ ~Rests(w) /\ Notifies(w, e0) /\ UNCHANGED <<room, stored, unstored>>
      /\ notes' = [notes EXCEPT ![e0] = More(@)] /\ Become(w, Resting)
  BY Steps DEF InsertNote, Outside, Notifies
<1>2. e0 \in DOMAIN room /\ More(0) = 1
  BY <1>1, InHand DEF More
<1>3. /\ DOMAIN job' = DOMAIN job /\ ~At(w, {"notify"})'
      /\ \A v \in DOMAIN job : v # w => job'[v] = job[v]
  BY <1>0, <1>1 DEF Become, Resting, At
<1> HIDE DEF e0
<1> SUFFICES ASSUME NEW e \in DOMAIN room, room[e].kind # "drop"
             PROVE  /\ stored'[e] <= 1
                    /\ e \notin unstored =>
                         /\ notes'[e] <= stored'[e]
                         /\ \A v \in DOMAIN job : Notifies(v, e)' =>
                              /\ stored'[e] = 1 /\ notes'[e] = 0
                              /\ \A u \in DOMAIN job : Notifies(u, e)' => u = v
  BY <1>1, <1>3 DEF OnceInv
<1>4. \A v \in DOMAIN job : Notifies(v, e)' => v # w /\ Notifies(v, e)
  BY <1>3 DEF Notifies, At
<1>5. CASE e = e0
  <2>1. /\ stored[e] <= 1
        /\ e \notin unstored =>
             /\ stored[e] = 1 /\ notes[e] = 0
             /\ \A v \in DOMAIN job : Notifies(v, e) => v = w
    BY <1>1, <1>5 DEF OnceInv
  <2> QED
    BY <1>0, <1>1, <1>2, <1>4, <1>5, <2>1
<1>6. CASE e # e0
  BY <1>0, <1>1, <1>4, <1>6 DEF OnceInv
<1> QED
  BY <1>5, <1>6

\* An insert that is reported and not there: the event is out of the account.
LEMMA OnceLost ==
  ASSUME MatchSound, OnceInv, NEW w \in DOMAIN job, InsertLost(w)
  PROVE  OnceInv'
<1>0. job \in [Threads \cup {Loop} -> Job]
  BY DEF MatchSound, MatchTypeOK
<1>1. /\ UNCHANGED <<room, stored, notes>> /\ unstored' = unstored \cup {job[w].event}
      /\ Go(w, "notify") \/ Become(w, Resting)
  BY DEF InsertLost, Stored
<1>2. /\ DOMAIN job' = DOMAIN job
      /\ \A v \in DOMAIN job : v # w => job'[v] = job[v]
      /\ At(w, {"notify"})' => job'[w].event = job[w].event
  BY <1>0, <1>1 DEF Go, Become, Resting, At, Job
<1>3. \A e \in DOMAIN room : e \notin unstored' =>
        \A v \in DOMAIN job : Notifies(v, e)' => Notifies(v, e)
  BY <1>1, <1>2 DEF Notifies, At
<1> QED
  BY <1>1, <1>2, <1>3 DEF OnceInv

LEMMA OnceInit == MatchInit => OnceInv
BY DEF MatchInit, OnceInv, Notifies, At, Resting

LEMMA OnceStep == MatchSound /\ OnceInv /\ [MatchNext]_matchVars => OnceInv'
<1> SUFFICES ASSUME MatchSound, OnceInv, MatchNext \/ UNCHANGED matchVars PROVE OnceInv'
  OBVIOUS
<1>0. job \in [Threads \cup {Loop} -> Job]
  BY DEF MatchSound, MatchTypeOK
<1>1. CASE UNCHANGED matchVars
  BY <1>1 DEF matchVars, OnceInv, Notifies, At
<1>2. CASE Send \/ Silence \/ CloseOrphans \/ \E e \in DOMAIN room : Replay(e)
  BY <1>2 DEF Send, Silence, CloseOrphans, Replay, Stored, OnceInv, Notifies, At
<1>3. CASE StopsSession
  <2>1. /\ Become(Loop, [Resting EXCEPT !.pc = "shut", !.match = active])
        /\ UNCHANGED <<room, stored, notes, unstored>>
    BY <1>3 DEF StopsSession, Begins, Stored
  <2>2. /\ DOMAIN job' = DOMAIN job /\ job'[Loop].pc # "notify"
        /\ \A v \in DOMAIN job : v # Loop => job'[v] = job[v]
    BY <1>0, <2>1 DEF Become, Resting
  <2> QED
    BY <2>1, <2>2, NothingStored DEF At
<1>4. CASE WorkerCrash
  <2>1. /\ UNCHANGED <<room, stored, notes, unstored>> /\ DOMAIN job' = DOMAIN job
        /\ \A v \in DOMAIN job : ~At(v, {"notify"})'
    BY <1>4 DEF WorkerCrash, Stored, Resting, At
  <2> QED
    BY <2>1, NothingStored
<1>5. ASSUME NEW w \in DOMAIN job, PersistEvent(w) PROVE OnceInv'
  <2>1. /\ At(w, {"persist"}) /\ stored' = Inserted(job[w].event)
        /\ UNCHANGED <<room, notes, unstored>>
        /\ \/ Fresh(job[w].event) /\ The(w).kind = "gift" /\ Go(w, "notify")
           \/ Become(w, Resting)
    BY <1>5 DEF PersistEvent, Outside
  <2> QED
    BY <2>1, OncePersists
<1>6. ASSUME NEW w \in DOMAIN job, TransactionFails(w) PROVE OnceInv'
  <2>1. CASE UNCHANGED stored
    BY <1>6, <2>1, StepsStoreNothing
  <2>2. CASE At(w, {"persist"}) /\ stored' = Inserted(job[w].event)
    <3>1. UNCHANGED <<room, notes, unstored>> /\ Become(w, Resting)
      BY <1>6, <2>2 DEF TransactionFails, LastSteps, At
    <3> QED
      BY <2>2, <3>1, OncePersists
  <2> QED
    BY <1>6, <2>1, <2>2 DEF TransactionFails
<1>7. ASSUME NEW w \in DOMAIN job, TakeJob(w) \/ JobStep(w) PROVE OnceInv'
  BY <1>5, <1>7, StepsStoreNothing, OnceNotes DEF JobStep
<1> QED
  BY <1>1, <1>2, <1>3, <1>4, <1>6, <1>7, OnceLost DEF MatchNext

\* Whatever threads an event's deliveries go to, and whatever fails, it is
\* stored once at most, and notified at most once and only if it is stored;
\* only an event whose insert was reported and is not there is exempt from the
\* latter.
THEOREM StoredOnceCorrect == MatchSpec => []StoredOnce
<1>1. OnceInv => StoredOnce
  BY DEF OnceInv, StoredOnce
<1> QED
  BY <1>1, OnceInit, OnceStep, MatchTypeInit, MatchTypeStep, PTL DEF MatchSpec

-----------------------------------------------------------------------------
(* The matches of a room: the open match is the active one *)

OpenAmong(S) == \A b \in Battle : IsOpen(b) => b \in S

\* The matches that may be open while a thread alone is at a step.
MayBeOpen(w) ==
  IF At(w, {"prev"}) THEN {active, The(w).battle}
  ELSE IF At(w, {"shutprev"}) THEN {job[w].match, The(w).battle}
  ELSE IF At(w, {"mark"}) THEN {The(w).battle}
  ELSE IF At(w, {"shut"}) THEN {job[w].match}
  ELSE {active}

Works(w) ==
  /\ OpenAmong(MayBeOpen(w))
  /\ At(w, {"open"}) /\ The(w).kind = "update" => active = NoMatch

\* While events are handled one at a time: one thread works at most.
AloneInv ==
  ~raced /\ faulty = 0 =>
    /\ AllRest => OpenAmong({active})
    /\ \A w \in DOMAIN job : ~Rests(w) => Works(w) /\ \A v \in DOMAIN job : v # w => Rests(v)

\* What a thread that works alone makes of the matches.
LEMMA WorksOn ==
  ASSUME MatchSound, AloneInv, NEW w \in DOMAIN job, ~Rests(w), raced' = raced, faulty' = faulty,
         NEW j, Become(w, j),
         ~raced /\ faulty = 0 /\ Works(w) /\ job'[w] = j
           => IF j.pc = "rest" THEN OpenAmong({active})' ELSE Works(w)'
  PROVE  AloneInv'
<1>1. job \in [Threads \cup {Loop} -> Job]
  BY DEF MatchSound, MatchTypeOK
<1>2. /\ DOMAIN job' = DOMAIN job /\ job'[w] = j
      /\ \A v \in DOMAIN job : v # w => job'[v] = job[v]
  BY <1>1 DEF Become
<1> SUFFICES ASSUME ~raced, faulty = 0
             PROVE  /\ AllRest' => OpenAmong({active})'
                    /\ \A u \in DOMAIN job : ~Rests(u)' => /\ Works(u)'
                                                           /\ \A v \in DOMAIN job : v # u => Rests(v)'
  BY <1>2 DEF AloneInv
<1>3. Works(w) /\ \A v \in DOMAIN job : v # w => Rests(v)
  BY DEF AloneInv
<1>4. \A v \in DOMAIN job : v # w => Rests(v)'
  BY <1>2, <1>3 DEF Rests
<1>5. Rests(w)' <=> j.pc = "rest"
  BY <1>2 DEF Rests
<1>6. IF j.pc = "rest" THEN OpenAmong({active})' ELSE Works(w)'
  BY <1>2, <1>3
<1>7. AllRest' <=> Rests(w)'
  BY <1>2, <1>4 DEF AllRest
<1> QED
  BY <1>4, <1>5, <1>6, <1>7

\* No step changes the room, the faults or the history without a fault.
LEMMA AloneJobs ==
  ASSUME MatchSound, AloneInv, NEW w \in DOMAIN job, JobStep(w)
  PROVE  AloneInv'
<1>0. /\ job \in [Threads \cup {Loop} -> Job] /\ job[w] \in Job /\ rows \in [Battle -> Row]
      /\ active \in {NoMatch} \cup Battle /\ NoMatch \notin Battle
      /\ ~Rests(w) /\ UNCHANGED <<room, raced, faulty>>
  BY JobTypes DEF MatchSound, MatchTypeOK, Battle, JobStep, OpenMatch, ReadPrev, CloseMatch,
                  MarkActive, LookActive, ReadMatch, WriteMatch, PopActive, PersistEvent,
                  InsertNote, Outside, At, Rests
<1> DEFINE Ends == Become(w, Resting) /\ (Works(w) => OpenAmong({active})')
<1>1. Ends => AloneInv'
  <2>1. Resting.pc = "rest"
    BY DEF Resting
  <2> QED
    BY <1>0, <2>1, WorksOn
<1>2. ASSUME NEW j, Become(w, j), j.pc # "rest",
             Works(w) /\ job'[w] = j => Works(w)'
      PROVE  AloneInv'
  BY <1>0, <1>2, WorksOn
<1>3. ASSUME NEW p, Go(w, p), p # "rest",
             Works(w) /\ job'[w] = [job[w] EXCEPT !.pc = p] => Works(w)'
      PROVE  AloneInv'
  <2>1. [job[w] EXCEPT !.pc = p].pc = p
    BY <1>0 DEF Job
  <2>2. Become(w, [job[w] EXCEPT !.pc = p])
    BY <1>3, Goes
  <2> QED
    BY <1>2, <1>3, <2>1, <2>2
<1>4. CASE OpenMatch(w)
  <2> DEFINE b == The(w).battle
  <2>1. w # Loop /\ b \in Battle /\ At(w, {"open"}) /\ UNCHANGED active
    BY <1>0, <1>4, Steps, InHand DEF OpenMatch, At
  <2>2. \A c \in Battle : c # b => (IsOpen(c)' <=> IsOpen(c))
    BY <1>0, <1>4 DEF OpenMatch, Opened, IsOpen
  <2>3. ASSUME NEW p \in {"prev", "mark"}, job'[w] = [job[w] EXCEPT !.pc = p]
        PROVE  /\ job'[w].pc = p /\ The(w)' = The(w)
    BY <1>0, <2>3 DEF The, Job
  <2>4. CASE The(w).kind = "start" /\ Go(w, "prev")
    <3>1. Works(w) /\ job'[w] = [job[w] EXCEPT !.pc = "prev"] => Works(w)'
      BY <2>1, <2>2, <2>3 DEF Works, OpenAmong, MayBeOpen, At
    <3> QED
      BY <1>3, <2>4, <3>1
  <2>5. CASE The(w).kind = "update" /\ Go(w, "mark")
    <3>1. Works(w) /\ job'[w] = [job[w] EXCEPT !.pc = "mark"] => Works(w)'
      BY <1>0, <2>1, <2>2, <2>3, <2>5 DEF Works, OpenAmong, MayBeOpen, At
    <3> QED
      BY <1>3, <2>5, <3>1
  <2>6. The(w).kind \in {"start", "update"}
    BY <1>0, <2>1, InHand DEF Fits, At, The
  <2> QED
    BY <1>4, <2>4, <2>5, <2>6 DEF OpenMatch
<1>5. CASE ReadPrev(w)
  <2>1. At(w, {"prev"}) /\ UNCHANGED <<active, rows>>
    BY <1>5 DEF ReadPrev, Stored
  <2>2. CASE active \in {NoMatch, The(w).battle} /\ Go(w, "mark")
    <3>1. job'[w] = [job[w] EXCEPT !.pc = "mark"] => job'[w].pc = "mark" /\ The(w)' = The(w)
      BY <1>0 DEF The, Job
    <3>2. Works(w) /\ job'[w] = [job[w] EXCEPT !.pc = "mark"] => Works(w)'
      BY <1>0, <2>1, <2>2, <3>1 DEF Works, OpenAmong, MayBeOpen, At, IsOpen
    <3> QED
      BY <1>3, <2>2, <3>2
  <2>3. CASE Become(w, [job[w] EXCEPT !.pc = "shutprev", !.match = active])
    <3> DEFINE j == [job[w] EXCEPT !.pc = "shutprev", !.match = active]
    <3>1. j.pc = "shutprev" /\ j.match = active /\ j.event = job[w].event
      BY <1>0 DEF Job
    <3>2. Become(w, j)
      BY <2>3
    <3> HIDE DEF j
    <3>3. Works(w) /\ job'[w] = j => Works(w)'
      BY <1>0, <2>1, <3>1 DEF Works, OpenAmong, MayBeOpen, At, IsOpen, The
    <3> QED
      BY <1>2, <3>1, <3>2, <3>3
  <2> QED
    BY <1>5, <2>2, <2>3 DEF ReadPrev
<1>6. CASE CloseMatch(w)
  <2>1. At(w, {"shut", "shutprev"}) /\ UNCHANGED active
    BY <1>6 DEF CloseMatch
  <2>2. \A c \in Battle : IsOpen(c)' => IsOpen(c) /\ c # job[w].match
    BY <1>0, <1>6 DEF CloseMatch, IsOpen, Row
  <2>3. CASE At(w, {"shutprev"}) /\ Become(w, [job[w] EXCEPT !.pc = "mark", !.match = NoMatch])
    <3> DEFINE j == [job[w] EXCEPT !.pc = "mark", !.match = NoMatch]
    <3>1. j.pc = "mark" /\ j.event = job[w].event
      BY <1>0 DEF Job
    <3>2. Become(w, j)
      BY <2>3
    <3> HIDE DEF j
    <3>3. Works(w) /\ job'[w] = j => Works(w)'
      BY <1>0, <2>2, <2>3, <3>1 DEF Works, OpenAmong, MayBeOpen, At, The
    <3> QED
      BY <1>2, <3>1, <3>2, <3>3
  <2>4. CASE At(w, {"shut"}) /\ Become(w, Resting)
    <3>1. Works(w) => OpenAmong({active})'
      BY <2>2, <2>4 DEF Works, OpenAmong, MayBeOpen, At
    <3> QED
      BY <1>1, <2>4, <3>1
  <2>5. CASE At(w, {"shut"}) /\ Seen(w)
    <3> DEFINE j == [Resting EXCEPT !.pc = "persist", !.event = job[w].event]
    <3>1. j.pc = "persist" /\ Become(w, j)
      BY <2>5 DEF Seen, Resting
    <3> HIDE DEF j
    <3>2. Works(w) /\ job'[w] = j => Works(w)'
      BY <2>2, <2>5, <3>1 DEF Works, OpenAmong, MayBeOpen, At
    <3> QED
      BY <1>2, <3>1, <3>2
  <2>6. At(w, {"shutprev"}) <=> ~At(w, {"shut"})
    BY <2>1 DEF At
  <2> QED
    BY <1>6, <2>3, <2>4, <2>5, <2>6 DEF CloseMatch
<1>7. \A m : Become(w, [job[w] EXCEPT !.pc = "read", !.match = m])
             /\ (Works(w) => OpenAmong({active})') => AloneInv'
  <2> SUFFICES ASSUME NEW m, Become(w, [job[w] EXCEPT !.pc = "read", !.match = m]),
                      Works(w) => OpenAmong({active})'
               PROVE  AloneInv'
    OBVIOUS
  <2>1. [job[w] EXCEPT !.pc = "read", !.match = m].pc = "read"
    BY <1>0 DEF Job
  <2>2. Works(w) /\ job'[w] = [job[w] EXCEPT !.pc = "read", !.match = m] => Works(w)'
    BY <2>1 DEF Works, OpenAmong, MayBeOpen, At
  <2> QED
    BY <1>2, <2>1, <2>2
<1>8. Seen(w) /\ (Works(w) => OpenAmong({active})') => AloneInv'
  <2> DEFINE j == [Resting EXCEPT !.pc = "persist", !.event = job[w].event]
  <2> SUFFICES ASSUME Seen(w), Works(w) => OpenAmong({active})' PROVE AloneInv'
    OBVIOUS
  <2>1. j.pc = "persist" /\ Become(w, j)
    BY DEF Seen, Resting
  <2> HIDE DEF j
  <2>2. Works(w) /\ job'[w] = j => Works(w)'
    BY <2>1 DEF Works, OpenAmong, MayBeOpen, At
  <2> QED
    BY <1>2, <2>1, <2>2
<1>9. CASE MarkActive(w)
  <2>1. Works(w) => OpenAmong({active})'
    BY <1>9 DEF MarkActive, Works, OpenAmong, MayBeOpen, At, Stored, IsOpen
  <2> QED
    BY <1>0, <1>7, <1>8, <1>9, <2>1 DEF MarkActive
<1>10. CASE LookActive(w)
  <2>1. At(w, {"look"}) /\ UNCHANGED <<active, rows>>
    BY <1>10 DEF LookActive, Stored
  <2>2. Works(w) => OpenAmong({active})'
    BY <2>1 DEF Works, OpenAmong, MayBeOpen, At, IsOpen
  <2>3. CASE active = NoMatch /\ Go(w, "open")
    <3>1. job'[w] = [job[w] EXCEPT !.pc = "open"] => job'[w].pc = "open"
      BY <1>0 DEF Job
    <3>2. Works(w) /\ job'[w] = [job[w] EXCEPT !.pc = "open"] => Works(w)'
      BY <2>1, <2>2, <2>3, <3>1 DEF Works, OpenAmong, MayBeOpen, At
    <3> QED
      BY <1>3, <2>3, <3>2
  <2> QED
    BY <1>0, <1>7, <1>8, <1>10, <2>2, <2>3 DEF LookActive
<1>11. CASE ReadMatch(w)
  <2> DEFINE j == [job[w] EXCEPT !.pc = "write", !.saw = rows[job[w].match].score]
  <2>1. j.pc = "write"
    BY <1>0 DEF Job
  <2>2. Become(w, j) /\ At(w, {"read"}) /\ UNCHANGED <<active, rows>>
    BY <1>11 DEF ReadMatch, Stored
  <2> HIDE DEF j
  <2>3. Works(w) /\ job'[w] = j => Works(w)'
    BY <2>1, <2>2 DEF Works, OpenAmong, MayBeOpen, At, IsOpen
  <2> QED
    BY <1>2, <2>1, <2>2, <2>3
<1>12. CASE WriteMatch(w)
  <2>1. /\ At(w, {"write"}) /\ Seen(w) /\ UNCHANGED active
        /\ \A c \in Battle : IsOpen(c)' => IsOpen(c)
    BY <1>0, <1>12 DEF WriteMatch, IsOpen, Row
  <2>2. Works(w) => OpenAmong({active})'
    BY <2>1 DEF Works, OpenAmong, MayBeOpen, At
  <2> QED
    BY <1>8, <2>1, <2>2
<1>13. CASE PopActive(w)
  <2>1. At(w, {"pop"}) /\ UNCHANGED rows /\ active' = NoMatch
    BY <1>13 DEF PopActive, Stored
  <2>2. CASE active = NoMatch /\ Seen(w)
    <3>1. Works(w) => OpenAmong({active})'
      BY <2>1, <2>2 DEF Works, OpenAmong, MayBeOpen, At, IsOpen
    <3> QED
      BY <1>8, <2>2, <3>1
  <2>3. CASE Become(w, [job[w] EXCEPT !.pc = "shut", !.match = active])
    <3> DEFINE j == [job[w] EXCEPT !.pc = "shut", !.match = active]
    <3>1. j.pc = "shut" /\ j.match = active
      BY <1>0 DEF Job
    <3>2. Become(w, j)
      BY <2>3
    <3> HIDE DEF j
    <3>3. Works(w) /\ job'[w] = j => Works(w)'
      BY <2>1, <3>1 DEF Works, OpenAmong, MayBeOpen, At, IsOpen
    <3> QED
      BY <1>2, <3>1, <3>2, <3>3
  <2> QED
    BY <1>13, <2>2, <2>3 DEF PopActive
<1>14. CASE PersistEvent(w) \/ InsertNote(w)
  <2>1. At(w, {"persist", "notify"}) /\ UNCHANGED <<active, rows>>
    BY <1>14 DEF PersistEvent, InsertNote, At
  <2>2. Works(w) => OpenAmong({active})'
    BY <2>1 DEF Works, OpenAmong, MayBeOpen, At, IsOpen
  <2>3. CASE Go(w, "notify")
    <3>1. job'[w] = [job[w] EXCEPT !.pc = "notify"] => job'[w].pc = "notify"
      BY <1>0 DEF Job
    <3>2. Works(w) /\ job'[w] = [job[w] EXCEPT !.pc = "notify"] => Works(w)'
      BY <2>2, <3>1 DEF Works, OpenAmong, MayBeOpen, At
    <3> QED
      BY <1>3, <2>3, <3>2
  <2> QED
    BY <1>1, <1>14, <2>2, <2>3 DEF PersistEvent, InsertNote
<1> QED
  BY <1>4, <1>5, <1>6, <1>9, <1>10, <1>11, <1>12, <1>13, <1>14 DEF JobStep

LEMMA AloneBegins ==
  ASSUME MatchSound, AloneInv, StopsSession \/ \E w \in DOMAIN job : TakeJob(w)
  PROVE  AloneInv'
<1>0. /\ job \in [Threads \cup {Loop} -> Job] /\ UNCHANGED <<room, rows, faulty>>
      /\ NoMatch \notin Battle
  BY DEF MatchSound, MatchTypeOK, StopsSession, TakeJob, Stored, Battle
<1>1. ASSUME NEW w \in DOMAIN job, NEW j, Begins(w, j), j.pc # "rest",
             AllRest /\ OpenAmong({active}) /\ job'[w] = j => Works(w)'
      PROVE  AloneInv'
  <2> SUFFICES ASSUME ~raced', faulty' = 0
               PROVE  /\ AllRest' => OpenAmong({active})'
                      /\ \A u \in DOMAIN job' : ~Rests(u)' =>
                           Works(u)' /\ \A v \in DOMAIN job' : v # u => Rests(v)'
    BY DEF AloneInv
  <2>1. /\ DOMAIN job' = DOMAIN job /\ job'[w] = j
        /\ \A v \in DOMAIN job : v # w => job'[v] = job[v]
        /\ ~raced /\ faulty = 0 /\ AllRest
    BY <1>0, <1>1 DEF Begins, Become
  <2>2. Works(w)'
    BY <1>1, <2>1 DEF AloneInv
  <2>3. ~Rests(w)' /\ \A v \in DOMAIN job : v # w => Rests(v)'
    BY <1>1, <2>1 DEF AllRest, Rests
  <2> QED
    BY <2>1, <2>2, <2>3 DEF AllRest
<1>2. CASE StopsSession
  <2> DEFINE j == [Resting EXCEPT !.pc = "shut", !.match = active]
  <2>1. j.pc = "shut" /\ j.match = active
    BY DEF Resting
  <2>2. Begins(Loop, j) /\ Loop \in DOMAIN job
    BY <1>0, <1>2 DEF StopsSession
  <2> HIDE DEF j
  <2>3. OpenAmong({active}) /\ job'[Loop] = j => Works(Loop)'
    BY <1>0, <2>1 DEF Works, OpenAmong, MayBeOpen, At, IsOpen
  <2> QED
    BY <1>1, <2>1, <2>2, <2>3
<1>3. ASSUME NEW w \in DOMAIN job, TakeJob(w) PROVE AloneInv'
  <2> DEFINE e == Head(backlog)
             j == [Resting EXCEPT !.pc = FirstStep(room[e]), !.event = e]
  <2>1. e \in DOMAIN room /\ Begins(w, j) /\ UNCHANGED <<active, room>>
    BY <1>3 DEF TakeJob, MatchSound, MatchTypeOK
  <2>2. room[e] \in Event
    BY <2>1, RoomEvents DEF MatchSound
  <2> HIDE DEF e
  <2>3. /\ j.pc = FirstStep(room[e]) /\ j.event = e
        /\ j.pc \in {"open", "look", "pop", "persist"}
        /\ j.pc = "open" => room[e].kind = "start"
    BY <2>2 DEF FirstStep, Event, Resting
  <2> HIDE DEF j
  <2>4. OpenAmong({active}) /\ job'[w] = j => Works(w)'
    BY <1>0, <2>1, <2>3 DEF Works, OpenAmong, MayBeOpen, At, IsOpen, The
  <2> QED
    BY <1>1, <2>1, <2>3, <2>4
<1> QED
  BY <1>2, <1>3

LEMMA AloneInit == MatchInit => AloneInv
BY DEF MatchInit, AloneInv, AllRest, Rests, Resting, OpenAmong, IsOpen, Absent

LEMMA AloneStep == MatchSound /\ AloneInv /\ [MatchNext]_matchVars => AloneInv'
<1> SUFFICES ASSUME MatchSound, AloneInv, MatchNext \/ UNCHANGED matchVars PROVE AloneInv'
  OBVIOUS
<1>0. job \in [Threads \cup {Loop} -> Job] /\ rows \in [Battle -> Row] /\ faulty \in Nat
  BY TrackerAssumption DEF MatchSound, MatchTypeOK
<1>1. ASSUME UNCHANGED <<room, job, active, raced, faulty>>,
             \A b \in Battle : IsOpen(b)' => IsOpen(b)
      PROVE  AloneInv'
  BY <1>1 DEF AloneInv, AllRest, Rests, Works, OpenAmong, MayBeOpen, At, The
<1>2. CASE Send \/ UNCHANGED matchVars \/ \E e \in DOMAIN room : Replay(e)
  BY <1>1, <1>2 DEF Send, Replay, Stored, matchVars, IsOpen
<1>3. CASE Silence
  <2>1. \A b \in Battle : rows'[b].is = rows[b].is
    BY <1>0, <1>3 DEF Silence, Row
  <2> QED
    BY <1>1, <1>3, <2>1 DEF Silence, IsOpen
<1>4. CASE CloseOrphans
  <2>1. \A b \in Battle : rows'[b].is = rows[b].is \/ rows'[b].is = "ended"
    BY <1>0, <1>4 DEF CloseOrphans, Row
  <2> QED
    BY <1>1, <1>4, <2>1 DEF CloseOrphans, IsOpen
<1>5. CASE WorkerCrash \/ \E w \in DOMAIN job : TransactionFails(w) \/ InsertLost(w)
  <2>1. faulty' # 0
    BY <1>0, <1>5 DEF WorkerCrash, TransactionFails, InsertLost
  <2> QED
    BY <2>1 DEF AloneInv
<1> QED
  BY <1>2, <1>3, <1>4, <1>5, AloneBegins, AloneJobs DEF MatchNext

\* However events are replayed, late or doubled, as long as they are handled
\* one at a time and nothing fails no match stays open in the database but the
\* active one.
THEOREM OpenIsActiveCorrect == MatchSpec => []OpenIsActive
<1>1. AloneInv => OpenIsActive
  BY DEF AloneInv, OpenIsActive, OpenAmong
<1> QED
  BY <1>1, AloneInit, AloneStep, MatchTypeInit, MatchTypeStep, PTL DEF MatchSpec
-----------------------------------------------------------------------------
(* The stream of a host's state: types *)

Snapshots == {i \in DOMAIN wire : wire[i].type = "snapshot"}

\* Among the frames of the wire are at most n snapshots.
AtMost(n) ==
  /\ n >= 0
  /\ n = 0 => Snapshots = {}
  /\ n = 1 => \A i, j \in Snapshots : i = j
  /\ n = 2 => \A i, j, k \in Snapshots : i = j \/ j = k \/ i = k

Spare ==
  (IF view.pending THEN 2 ELSE 1) - asked - (IF greeting THEN 1 ELSE 0)

\* A page has one request or snapshot under way, and one more while it waits:
\* its greeting and a gap.
InFlight ==
  /\ AtMost(Spare)
  /\ pump = "off" => asked = 0 /\ wire = <<>> /\ ~greeting

\* Nothing is newer than the cache.
Newest ==
  /\ view.seen <= version
  /\ \A u \in view.queue \cup loud \cup ToSet(feed) : u <= version
  /\ \A i \in DOMAIN wire : wire[i].version <= version
  /\ view.based => view.seen # Unknown

\* A snapshot contains all that reached the page before it.
Dominates ==
  \A i \in Snapshots :
    /\ \A u \in view.queue : u <= wire[i].version
    /\ \A j \in 1 .. i : wire[j].version <= wire[i].version

StreamInv == StreamTypeOK /\ InFlight /\ Newest /\ Dominates

LEMMA Constants == MaxVersion \in Nat /\ QueueMax \in Nat /\ MaxVersion > 0 /\ QueueMax > 0
BY StreamAssumption

LEMMA Appended ==
  ASSUME NEW S, NEW s \in Seq(S), NEW x \in S
  PROVE  /\ Append(s, x) \in Seq(S) /\ Len(Append(s, x)) = Len(s) + 1 /\ Len(s) \in Nat
         /\ DOMAIN Append(s, x) = 1 .. Len(s) + 1
         /\ \A i \in 1 .. Len(s) : Append(s, x)[i] = s[i]
         /\ Append(s, x)[Len(s) + 1] = x
         /\ ToSet(Append(s, x)) = ToSet(s) \cup {x}
<1>1. /\ Append(s, x) \in Seq(S) /\ Len(Append(s, x)) = Len(s) + 1 /\ Len(s) \in Nat
      /\ DOMAIN Append(s, x) = 1 .. Len(s) + 1 /\ DOMAIN s = 1 .. Len(s)
      /\ \A i \in 1 .. Len(s) : Append(s, x)[i] = s[i]
      /\ Append(s, x)[Len(s) + 1] = x
  OBVIOUS
<1> QED
  BY <1>1 DEF ToSet

LEMMA Shortened ==
  ASSUME NEW S, NEW s \in Seq(S), s # <<>>
  PROVE  /\ Tail(s) \in Seq(S) /\ Len(Tail(s)) = Len(s) - 1 /\ Len(s) \in Nat \ {0}
         /\ DOMAIN s = 1 .. Len(s) /\ DOMAIN Tail(s) = 1 .. Len(s) - 1
         /\ \A i \in 1 .. Len(s) - 1 : Tail(s)[i] = s[i + 1]
         /\ Head(s) = s[1] /\ Head(s) \in S
         /\ ToSet(s) = ToSet(Tail(s)) \cup {Head(s)}
<1>1. /\ Tail(s) \in Seq(S) /\ Len(Tail(s)) = Len(s) - 1 /\ Len(s) \in Nat \ {0}
      /\ DOMAIN s = 1 .. Len(s) /\ DOMAIN Tail(s) = 1 .. Len(s) - 1
      /\ \A i \in 1 .. Len(s) - 1 : Tail(s)[i] = s[i + 1]
      /\ Head(s) = s[1] /\ Head(s) \in S
  OBVIOUS
<1>2. ASSUME NEW y \in ToSet(s) PROVE y \in ToSet(Tail(s)) \cup {Head(s)}
  <2>1. PICK i \in 1 .. Len(s) : y = s[i]
    BY <1>1, <1>2 DEF ToSet
  <2>2. CASE i = 1
    BY <1>1, <2>1, <2>2
  <2>3. CASE i # 1
    <3>1. i - 1 \in 1 .. Len(s) - 1 /\ y = Tail(s)[i - 1]
      BY <1>1, <2>1, <2>3
    <3> QED
      BY <1>1, <3>1 DEF ToSet
  <2> QED
    BY <2>2, <2>3
<1>3. ToSet(Tail(s)) \cup {Head(s)} \subseteq ToSet(s)
  BY <1>1 DEF ToSet
<1> QED
  BY <1>1, <1>2, <1>3

LEMMA Members == ASSUME NEW S, NEW s \in Seq(S) PROVE ToSet(s) \subseteq S
<1>1. \A i \in DOMAIN s : s[i] \in S
  OBVIOUS
<1> QED
  BY <1>1 DEF ToSet

LEMMA StreamInitInv == StreamInit => StreamInv
<1> SUFFICES ASSUME StreamInit PROVE StreamInv
  OBVIOUS
<1>1. view \in View /\ page \in [version : 0 .. MaxVersion, has : SUBSET Version]
  BY Constants DEF StreamInit, View, Unknown
<1>2. StreamTypeOK
  <2>1. version \in 0 .. MaxVersion /\ loud \subseteq Version /\ unsent \subseteq loud
    BY Constants DEF StreamInit
  <2>2. Len(feed) <= QueueMax /\ feed \in Seq(Version) /\ wire \in Seq(Frame)
    BY Constants DEF StreamInit
  <2>3. /\ dropped \in BOOLEAN /\ pump \in {"on", "raised", "off"}
        /\ asked \in 0 .. 2 /\ greeting \in BOOLEAN
    <3>1. dropped \in BOOLEAN /\ greeting \in BOOLEAN
      BY Zenon DEF StreamInit
    <3>2. asked = 0 /\ pump = "off"
      BY DEF StreamInit
    <3> QED
      BY <3>1, <3>2
  <2> QED
    BY <1>1, <2>1, <2>2, <2>3 DEF StreamTypeOK
<1>3. DOMAIN wire = {} /\ Snapshots = {}
  BY DEF StreamInit, Snapshots
<1>4. InFlight
  BY <1>3 DEF StreamInit, InFlight, AtMost, Spare
<1>5. Newest /\ Dominates
  <2>1. ToSet(feed) = {}
    BY DEF StreamInit, ToSet
  <2> QED
    BY <1>3, <2>1 DEF StreamInit, Newest, Dominates, Unknown
<1> QED
  BY <1>2, <1>4, <1>5 DEF StreamInv

\* Steps that leave the socket alone.
LEMMA CacheSteps ==
  ASSUME StreamInv, (\E p \in BOOLEAN : Merge(p)) \/ \E v \in unsent : PublishDelta(v)
  PROVE  StreamInv'
<1>0. UNCHANGED <<pump, wire, asked, greeting, view, page>>
  BY DEF Merge, PublishDelta, Socket
<1>1. InFlight' /\ Dominates'
  BY <1>0 DEF StreamInv, InFlight, Dominates, AtMost, Spare, Snapshots
<1>2. ASSUME NEW p \in BOOLEAN, Merge(p) PROVE StreamTypeOK' /\ Newest'
  <2>1. /\ version \in 0 .. MaxVersion /\ version' = version + 1 /\ version' \in Version
        /\ loud' = loud \cup {version'} \/ loud' = loud
    BY <1>2, Constants DEF Merge, Version, StreamInv, StreamTypeOK
  <2>2. /\ loud' \subseteq Version /\ unsent' \subseteq loud' /\ version' \in 0 .. MaxVersion
        /\ UNCHANGED <<feed, dropped>>
    <3>1. loud \subseteq Version /\ unsent \subseteq loud
      BY DEF StreamInv, StreamTypeOK
    <3>2. version' \in 0 .. MaxVersion
      BY <2>1, Constants DEF Version
    <3>3. \/ loud' = loud \cup {version'} /\ unsent' = unsent \cup {version'}
          \/ UNCHANGED <<loud, unsent>>
      BY <1>2 DEF Merge
    <3> QED
      BY <1>2, <2>1, <3>1, <3>2, <3>3 DEF Merge
  <2>3. /\ view.seen <= version' /\ \A u \in view.queue \cup loud' \cup ToSet(feed) : u <= version'
    <3>1. /\ view.seen \in Int /\ view.seen <= version /\ view.queue \subseteq Version
          /\ \A u \in view.queue \cup loud \cup ToSet(feed) : u <= version
          /\ loud \subseteq Version /\ feed \in Seq(Version)
      BY DEF StreamInv, StreamTypeOK, Newest, View, Unknown
    <3>2. ToSet(feed) \subseteq Version
      BY <3>1, Members
    <3>3. version \in Int /\ version' \in Int /\ version <= version'
      BY <2>1
    <3>4. ASSUME NEW u \in view.queue \cup loud \cup ToSet(feed) PROVE u <= version'
      <4>1. u \in Version /\ u <= version
        BY <3>1, <3>2, Zenon
      <4> QED
        BY <3>3, <4>1 DEF Version
    <3>5. \A u \in loud' : u \in loud \/ u <= version'
      BY <2>1, <3>3
    <3> QED
      BY <3>1, <3>3, <3>4, <3>5
  <2>4. ASSUME NEW i \in DOMAIN wire PROVE wire[i].version <= version'
    <3>1. wire[i] \in Frame /\ wire[i].version <= version
      BY DEF StreamInv, StreamTypeOK, Newest
    <3> QED
      BY <2>1, <3>1 DEF Frame
  <2> QED
    BY <1>0, <2>2, <2>3, <2>4 DEF Newest, StreamInv, StreamTypeOK
<1>3. ASSUME NEW v \in unsent, PublishDelta(v) PROVE StreamTypeOK' /\ Newest'
  <2>1. v \in Version /\ feed \in Seq(Version) /\ Len(feed) <= QueueMax
    BY DEF StreamInv, StreamTypeOK
  <2>2. /\ feed' \in Seq(Version) /\ Len(feed') <= QueueMax /\ dropped' \in BOOLEAN
        /\ ToSet(feed') \subseteq ToSet(feed) \cup {v}
    <3>1. dropped \in BOOLEAN /\ Enqueue(v)
      BY <1>3 DEF PublishDelta, StreamInv, StreamTypeOK
    <3>2. CASE UNCHANGED <<feed, dropped>>
      BY <2>1, <3>1, <3>2
    <3>3. CASE Len(feed) < QueueMax /\ feed' = Append(feed, v) /\ UNCHANGED dropped
      BY <2>1, <3>1, <3>3, Appended, Constants
    <3>4. CASE ~(Len(feed) < QueueMax) /\ feed' = Append(Tail(feed), v) /\ dropped' = TRUE
      <4>1. feed # <<>>
        BY <2>1, <3>4, Constants
      <4>2. Tail(feed) \in Seq(Version) /\ Len(Tail(feed)) = Len(feed) - 1 /\ Len(feed) \in Nat
        BY <2>1, <4>1, Shortened
      <4>3. /\ feed' \in Seq(Version) /\ Len(feed') = Len(feed) - 1 + 1
            /\ ToSet(feed') = ToSet(Tail(feed)) \cup {v}
        <5> DEFINE t == Tail(feed)
        <5>1. t \in Seq(Version) /\ Len(t) = Len(feed) - 1 /\ feed' = Append(t, v)
          BY <3>4, <4>2
        <5> HIDE DEF t
        <5>2. feed' \in Seq(Version) /\ Len(feed') = Len(t) + 1 /\ ToSet(feed') = ToSet(t) \cup {v}
          BY <2>1, <5>1, Appended
        <5> QED
          BY <5>1, <5>2 DEF t
      <4>4. ToSet(Tail(feed)) \subseteq ToSet(feed)
        BY <2>1, <4>1, Shortened
      <4> QED
        BY <2>1, <3>4, <4>2, <4>3, <4>4
    <3> QED
      BY <3>1, <3>2, <3>3, <3>4 DEF Enqueue
  <2>3. v <= version /\ \A u \in ToSet(feed) : u <= version
    BY DEF StreamInv, StreamTypeOK, Newest
  <2> QED
    BY <1>0, <1>3, <2>2, <2>3 DEF PublishDelta, StreamInv, StreamTypeOK, Newest, Version, View
<1> QED
  BY <1>1, <1>2, <1>3 DEF StreamInv

\* The frames that reach the wire.
LEMMA PumpInv == ASSUME StreamInv, PumpDelta PROVE StreamInv'
<1>0. /\ UNCHANGED <<version, loud, unsent, dropped, asked, greeting, view, page>>
      /\ pump = "on" /\ pump' \in {"on", "raised"}
      /\ feed \in Seq(Version) /\ feed # <<>> /\ wire \in Seq(Frame) /\ Len(feed) <= QueueMax
      /\ feed' = Tail(feed)
  BY DEF PumpDelta, StreamInv, StreamTypeOK
<1>1. feed' \in Seq(Version) /\ Len(feed') <= QueueMax /\ Head(feed) \in Version
  BY <1>0, Shortened, Constants
<1>2. CASE UNCHANGED wire
  <2>1. ToSet(feed') \subseteq ToSet(feed)
    BY <1>0, Shortened
  <2> QED
    BY <1>0, <1>1, <1>2, <2>1 DEF StreamInv, StreamTypeOK, InFlight, Newest, Dominates, AtMost, Spare,
                              Snapshots, Version, Frame, View
<1>3. CASE wire' = Append(wire, [type |-> "summary-delta", version |-> Head(feed)])
  <2> DEFINE f == [type |-> "summary-delta", version |-> Head(feed)]
  <2>1. f \in Frame /\ f.type = "summary-delta" /\ f.version = Head(feed)
    BY <1>1 DEF Frame, Version
  <2>2. wire' = Append(wire, f)
    BY <1>3
  <2> HIDE DEF f
  <2>3. /\ wire' \in Seq(Frame) /\ DOMAIN wire' = 1 .. Len(wire) + 1 /\ Len(wire) \in Nat
        /\ DOMAIN wire = 1 .. Len(wire)
        /\ \A i \in 1 .. Len(wire) : wire'[i] = wire[i]
        /\ wire'[Len(wire) + 1] = f
    BY <1>0, <2>1, <2>2, Appended
  <2>4. Snapshots' = Snapshots
    BY <2>1, <2>3 DEF Snapshots
  <2>5. InFlight' /\ Dominates'
    <3>1. InFlight'
      BY <1>0, <2>4 DEF StreamInv, InFlight, AtMost, Spare
    <3>2. \A i \in Snapshots : i \in 1 .. Len(wire)
      BY <2>3 DEF Snapshots
    <3>3. ASSUME NEW i \in Snapshots
          PROVE  /\ \A u \in view.queue : u <= wire'[i].version
                 /\ \A j \in 1 .. i : wire'[j].version <= wire'[i].version
      <4>1. i \in 1 .. Len(wire) /\ wire'[i] = wire[i] /\ \A j \in 1 .. i : wire'[j] = wire[j]
        BY <2>3, <3>2
      <4> QED
        BY <4>1 DEF StreamInv, Dominates
    <3> QED
      BY <1>0, <2>4, <3>1, <3>3 DEF Dominates
  <2>6. Newest'
    <3>1. /\ ToSet(feed') \subseteq ToSet(feed) /\ Head(feed) \in ToSet(feed)
      BY <1>0, Shortened
    <3>2. Head(feed) <= version /\ \A u \in view.queue \cup loud \cup ToSet(feed') : u <= version
      BY <3>1 DEF StreamInv, Newest
    <3>3. ASSUME NEW i \in DOMAIN wire' PROVE wire'[i].version <= version
      <4>1. CASE i = Len(wire) + 1
        BY <2>1, <2>3, <3>2, <4>1
      <4>2. CASE i # Len(wire) + 1
        <5>1. i \in DOMAIN wire /\ wire'[i] = wire[i]
          BY <2>3, <4>2
        <5> QED
          BY <5>1 DEF StreamInv, Newest
      <4> QED
        BY <4>1, <4>2
    <3> QED
      BY <1>0, <3>2, <3>3 DEF StreamInv, Newest
  <2> QED
    BY <1>0, <1>1, <2>3, <2>5, <2>6 DEF StreamInv, StreamTypeOK, Version, Frame, View
<1> QED
  BY <1>0, <1>2, <1>3 DEF PumpDelta

\* Requests, their answers, and a socket that opens or closes.
LEMMA SocketInv == ASSUME StreamInv, AnswerSnapshot \/ Open \/ Close \/ Greet PROVE StreamInv'
<1>0. /\ UNCHANGED <<version, loud, unsent, page>>
      /\ asked \in 0 .. 2 /\ greeting \in BOOLEAN /\ wire \in Seq(Frame) /\ view \in View
      /\ version \in 0 .. MaxVersion
  BY DEF AnswerSnapshot, Open, Close, Greet, StreamInv, StreamTypeOK
<1>1. CASE AnswerSnapshot
  <2> DEFINE f == [type |-> "snapshot", version |-> version]
  <2>1. f \in Frame /\ f.type = "snapshot" /\ f.version = version
    BY <1>0 DEF Frame
  <2>2. wire' = Append(wire, f) /\ asked > 0 /\ asked' = asked - 1
        /\ UNCHANGED <<feed, dropped, pump, greeting, view>>
    BY <1>1 DEF AnswerSnapshot
  <2> HIDE DEF f
  <2>3. /\ wire' \in Seq(Frame) /\ DOMAIN wire' = 1 .. Len(wire) + 1 /\ Len(wire) \in Nat
        /\ DOMAIN wire = 1 .. Len(wire)
        /\ \A i \in 1 .. Len(wire) : wire'[i] = wire[i]
        /\ wire'[Len(wire) + 1] = f
    BY <1>0, <2>1, <2>2, Appended
  <2>4. Snapshots' = Snapshots \cup {Len(wire) + 1}
    BY <2>1, <2>3 DEF Snapshots
  <2>5. Spare \in Int /\ Spare' = Spare + 1 /\ Spare <= 1
    BY <1>0, <2>2 DEF Spare
  <2>6. AtMost(Spare)'
    BY <2>4, <2>5 DEF StreamInv, InFlight, AtMost
  <2>7. pump # "off"
    BY <1>0, <2>2 DEF StreamInv, InFlight
  <2>8. InFlight'
    BY <2>2, <2>6, <2>7 DEF InFlight
  <2>9. ASSUME NEW i \in DOMAIN wire' PROVE wire'[i].version <= version /\ wire'[i].version \in Int
    <3>1. CASE i = Len(wire) + 1
      BY <1>0, <2>1, <2>3, <3>1
    <3>2. CASE i # Len(wire) + 1
      <4>1. i \in DOMAIN wire /\ wire'[i] = wire[i] /\ wire[i] \in Frame
        BY <1>0, <2>3, <3>2
      <4> QED
        BY <4>1 DEF StreamInv, Newest, Frame
    <3> QED
      BY <3>1, <3>2
  <2>10. Newest'
    BY <1>0, <2>2, <2>9 DEF StreamInv, Newest
  <2>11. ASSUME NEW i \in Snapshots'
         PROVE  /\ \A u \in view.queue : u <= wire'[i].version
                /\ \A j \in 1 .. i : wire'[j].version <= wire'[i].version
    <3>1. CASE i = Len(wire) + 1
      <4>1. wire'[i].version = version /\ 1 .. i = DOMAIN wire'
        BY <2>1, <2>3, <3>1
      <4>2. \A u \in view.queue : u <= version
        BY DEF StreamInv, Newest
      <4> QED
        BY <2>9, <4>1, <4>2
    <3>2. CASE i \in Snapshots
      <4>1. i \in 1 .. Len(wire) /\ wire'[i] = wire[i] /\ \A j \in 1 .. i : wire'[j] = wire[j]
        BY <2>3, <3>2 DEF Snapshots
      <4> QED
        BY <3>2, <4>1 DEF StreamInv, Dominates
    <3> QED
      BY <2>4, <3>1, <3>2
  <2>12. Dominates'
    BY <2>2, <2>11 DEF Dominates
  <2> QED
    BY <1>0, <2>2, <2>3, <2>8, <2>10, <2>12 DEF StreamInv, StreamTypeOK, Version, Frame, View
<1>2. CASE Open
  <2>1. /\ pump = "off" /\ pump' = "on" /\ greeting' = TRUE
        /\ UNCHANGED <<feed, dropped, wire, asked, view>>
    BY <1>2 DEF Open
  <2>2. asked = 0 /\ wire = <<>> /\ Snapshots' = {}
    BY <2>1 DEF StreamInv, InFlight, Snapshots
  <2>3. Spare' \in 0 .. 1
    BY <1>0, <2>1, <2>2 DEF Spare
  <2>4. InFlight'
    BY <2>1, <2>2, <2>3 DEF InFlight, AtMost
  <2>5. Newest' /\ Dominates'
    BY <1>0, <2>1, <2>2 DEF StreamInv, Newest, Dominates
  <2> QED
    BY <1>0, <2>1, <2>4, <2>5 DEF StreamInv, StreamTypeOK, Version, Frame, View
<1>3. CASE Close
  <2>1. /\ pump' = "off" /\ greeting' = FALSE /\ feed' = <<>> /\ dropped' = FALSE
        /\ wire' = <<>> /\ asked' = 0 /\ UNCHANGED view
    BY <1>3 DEF Close
  <2>2. Snapshots' = {} /\ ToSet(feed') = {}
    BY <2>1 DEF Snapshots, ToSet
  <2>3. Spare' \in 1 .. 2
    BY <1>0, <2>1 DEF Spare
  <2>4. InFlight'
    BY <2>1, <2>2, <2>3 DEF InFlight, AtMost
  <2>5. Newest' /\ Dominates'
    BY <1>0, <2>1, <2>2 DEF StreamInv, Newest, Dominates
  <2>6. feed' \in Seq(Version) /\ Len(feed') <= QueueMax /\ wire' \in Seq(Frame)
    BY <2>1, Constants
  <2> QED
    <3>1. dropped' \in BOOLEAN /\ greeting' \in BOOLEAN /\ pump' \in {"on", "raised", "off"}
      BY <2>1, Zenon
    <3>2. asked' \in 0 .. 2
      BY <2>1
    <3> QED
      BY <1>0, <2>1, <2>4, <2>5, <2>6, <3>1, <3>2
         DEF StreamInv, StreamTypeOK, Version, Frame, View
<1>4. CASE Greet
  <2>1. greeting /\ greeting' = FALSE /\ UNCHANGED <<feed, dropped, pump, wire>>
    BY <1>4 DEF Greet
  <2>2. CASE UNCHANGED <<asked, view>>
    <3>1. Spare' = Spare + 1 /\ Spare \in Int /\ Snapshots' = Snapshots /\ Spare <= 1
      BY <1>0, <2>1, <2>2 DEF Spare, Snapshots
    <3>2. InFlight'
      BY <2>1, <2>2, <3>1 DEF StreamInv, InFlight, AtMost
    <3> QED
      BY <1>0, <2>1, <2>2, <3>1, <3>2
         DEF StreamInv, StreamTypeOK, Newest, Dominates, Version, Frame, View
  <2>3. CASE view.seen # Unknown /\ asked' = asked + 1 /\ view' = [view EXCEPT !.pending = TRUE]
    <3>1. /\ view' \in View /\ view'.seen = view.seen /\ view'.queue = view.queue
          /\ view'.based = view.based /\ view'.pending = TRUE
      BY <1>0, <2>3 DEF View
    <3>2. Spare' \in Int /\ Spare \in Int /\ Spare <= Spare' /\ Spare' <= 1 /\ Snapshots' = Snapshots
      <4>1. Spare' = 2 - asked' - 0
        BY <2>1, <3>1 DEF Spare
      <4>2. Spare = 2 - asked - 1 \/ Spare = 1 - asked - 1
        BY <2>1 DEF Spare
      <4>3. Snapshots' = Snapshots
        BY <2>1 DEF Snapshots
      <4>4. asked \in 0 .. 2 /\ asked' = asked + 1
        BY <1>0, <2>3
      <4>5. Spare' = 1 - asked /\ Spare' \in Int /\ Spare' <= 1
        BY <4>1, <4>4
      <4>6. Spare \in Int /\ Spare <= 1 - asked
        BY <4>2, <4>4
      <4> QED
        BY <4>3, <4>4, <4>5, <4>6
    <3>3. InFlight'
      BY <2>1, <3>2 DEF StreamInv, InFlight, AtMost
    <3>4. asked' \in 0 .. 2
      BY <1>0, <2>1, <2>3, <3>1, <3>3 DEF InFlight, AtMost, Spare
    <3> QED
      BY <1>0, <2>1, <3>1, <3>2, <3>3, <3>4
         DEF StreamInv, StreamTypeOK, Newest, Dominates, Version, Frame, View
  <2> QED
    BY <1>4, <2>2, <2>3 DEF Greet
<1> QED
  BY <1>1, <1>2, <1>3, <1>4

\* Everything that is queued while a page waits is older than the snapshot that
\* comes: nothing is left to be drained.
LEMMA NothingLate ==
  ASSUME StreamInv, wire # <<>>, Head(wire).type = "snapshot"
  PROVE  Late(Head(wire).version) = {} /\ Max(Late(Head(wire).version) \cup {Head(wire).version})
                                            = Head(wire).version
<1>1. wire \in Seq(Frame)
  BY DEF StreamInv, StreamTypeOK
<1>2. 1 \in Snapshots /\ wire[1] = Head(wire) /\ wire[1] \in Frame
  BY <1>1 DEF Snapshots
<1>3. Late(Head(wire).version) = {}
  <2>1. view.queue \subseteq Version /\ wire[1].version \in Int
    BY <1>2 DEF StreamInv, StreamTypeOK, View, Frame
  <2> QED
    BY <1>2, <2>1 DEF StreamInv, Dominates, Late, Version
<1>4. ASSUME NEW n \in Int PROVE Max({n}) = n
  BY DEF Max
<1> QED
  BY <1>2, <1>3, <1>4 DEF Frame

LEMMA ReceiveShifts ==
  ASSUME StreamInv, wire # <<>>, wire' = Tail(wire)
  PROVE  /\ wire \in Seq(Frame) /\ wire' \in Seq(Frame) /\ Len(wire) \in Nat \ {0}
         /\ DOMAIN wire = 1 .. Len(wire) /\ DOMAIN wire' = 1 .. Len(wire) - 1
         /\ \A i \in 1 .. Len(wire) - 1 : wire'[i] = wire[i + 1]
         /\ Head(wire) = wire[1] /\ Head(wire) \in Frame
         /\ \A i \in Snapshots' : i \in Int /\ i + 1 \in Snapshots /\ i \in 1 .. Len(wire) - 1
         /\ \A i \in DOMAIN wire' : wire'[i].version <= version
<1>1. wire \in Seq(Frame)
  BY DEF StreamInv, StreamTypeOK
<1>2. /\ wire' \in Seq(Frame) /\ Len(wire) \in Nat \ {0}
      /\ DOMAIN wire = 1 .. Len(wire) /\ DOMAIN wire' = 1 .. Len(wire) - 1
      /\ \A i \in 1 .. Len(wire) - 1 : wire'[i] = wire[i + 1]
      /\ Head(wire) = wire[1] /\ Head(wire) \in Frame
  BY <1>1, Shortened
<1>3. \A i \in Snapshots' : i \in Int /\ i + 1 \in Snapshots /\ i \in 1 .. Len(wire) - 1
  BY <1>2 DEF Snapshots
<1>4. \A i \in DOMAIN wire' : i + 1 \in DOMAIN wire /\ wire'[i] = wire[i + 1]
  BY <1>2
<1> QED
  BY <1>1, <1>2, <1>3, <1>4 DEF StreamInv, Newest

LEMMA SnapshotInv ==
  ASSUME StreamInv, Receive, Head(wire).type = "snapshot"
  PROVE  StreamInv' /\ view' = [seen |-> Head(wire).version, has |-> Content(Head(wire).version),
                                pending |-> FALSE, queue |-> {}, based |-> TRUE]
<1> DEFINE v == Head(wire).version
<1>1. /\ wire # <<>> /\ wire' = Tail(wire)
      /\ UNCHANGED <<version, loud, unsent, feed, dropped, pump, greeting, asked>>
      /\ view' = [seen |-> v, has |-> Content(v), pending |-> FALSE, queue |-> {}, based |-> TRUE]
      /\ page' = [version |-> v, has |-> Content(v)]
  BY NothingLate DEF Receive, OnSnapshot
<1>2. 1 \in Snapshots /\ v = wire[1].version /\ v \in 0 .. MaxVersion /\ v <= version
      /\ Content(v) \subseteq Version
  BY <1>1, ReceiveShifts DEF Snapshots, Frame, StreamInv, Newest, Content, StreamTypeOK
<1>3. view' \in View /\ page' \in [version : 0 .. MaxVersion, has : SUBSET Version]
  BY <1>1, <1>2 DEF View
<1>4. asked \in 0 .. 2 /\ view.pending \in BOOLEAN /\ greeting \in BOOLEAN
  BY DEF StreamInv, StreamTypeOK, View
<1>5. Spare \in Int /\ Spare' \in Int /\ Spare <= 2
  BY <1>1, <1>4 DEF Spare
<1>6. Spare' = Spare \/ Spare' = Spare - 1
  BY <1>1, <1>4 DEF Spare
<1>7. Spare' <= 1
  BY <1>1, <1>4 DEF Spare
<1>8. AtMost(Spare)'
  <2>1. AtMost(Spare) /\ Spare >= 1
    BY <1>2, <1>5 DEF StreamInv, InFlight, AtMost
  <2>2. ASSUME NEW i \in Snapshots' PROVE i \in Int /\ i + 1 \in Snapshots /\ i + 1 # 1
    BY <1>1, ReceiveShifts
  <2>3. CASE Spare = 1
    <3>1. Snapshots' = {}
      BY <1>2, <2>1, <2>2, <2>3 DEF AtMost
    <3> QED
      BY <1>6, <2>3, <3>1 DEF AtMost
  <2>4. CASE Spare = 2
    <3>1. Spare' = 1
      BY <1>6, <1>7, <2>4
    <3>2. ASSUME NEW i \in Snapshots', NEW j \in Snapshots' PROVE i = j
      <4>1. i + 1 = j + 1
        BY <1>2, <2>1, <2>2, <2>4 DEF AtMost
      <4> QED
        BY <2>2, <4>1
    <3> QED
      BY <3>1, <3>2 DEF AtMost
  <2> QED
    BY <1>5, <2>1, <2>3, <2>4
<1>9. InFlight'
  <2>1. pump # "off"
    BY <1>1 DEF StreamInv, InFlight
  <2> QED
    BY <1>1, <1>8, <2>1 DEF InFlight
<1>10. Newest'
  BY <1>1, <1>2, ReceiveShifts DEF StreamInv, Newest, Unknown
<1>11. ASSUME NEW i \in Snapshots'
       PROVE  \A j \in 1 .. i : wire'[j].version <= wire'[i].version
  <2>1. /\ i + 1 \in Snapshots /\ i \in 1 .. Len(wire) - 1 /\ Len(wire) \in Nat
        /\ \A j \in 1 .. Len(wire) - 1 : wire'[j] = wire[j + 1]
    BY <1>1, ReceiveShifts
  <2>2. \A j \in 1 .. i : j + 1 \in 1 .. i + 1 /\ wire'[j] = wire[j + 1]
    BY <2>1
  <2> QED
    BY <2>1, <2>2 DEF StreamInv, Dominates
<1>12. Dominates'
  BY <1>1, <1>11 DEF Dominates
<1>13. StreamTypeOK'
  BY <1>1, <1>3, ReceiveShifts DEF StreamInv, StreamTypeOK, Version, Frame
<1> QED
  BY <1>1, <1>9, <1>10, <1>12, <1>13 DEF StreamInv

\* What a delta makes of the view: queued, taken, or the sign of a gap.
LEMMA DeltaEffect ==
  ASSUME StreamInv, Receive, Head(wire).type # "snapshot"
  PROVE  LET v == Head(wire).version IN
         /\ wire # <<>> /\ wire' = Tail(wire) /\ v \in 0 .. MaxVersion /\ v <= version
         /\ UNCHANGED <<version, loud, unsent, feed, dropped, pump, greeting>>
         /\ \/ /\ view.pending /\ UNCHANGED <<asked, page>>
               /\ view' = [view EXCEPT !.queue = @ \cup {v}]
            \/ /\ ~view.pending /\ view.seen \in {Unknown, v - 1} /\ UNCHANGED asked
               /\ view' = [view EXCEPT !.seen = v, !.has = @ \cup {v}]
               /\ page' = [version |-> view'.seen, has |-> view'.has]
            \/ /\ ~view.pending /\ asked' = asked + 1 /\ UNCHANGED page
               /\ view' = [view EXCEPT !.pending = TRUE, !.queue = @ \cup {v}]
<1> DEFINE v == Head(wire).version
<1>1. wire # <<>> /\ wire' = Tail(wire) /\ OnDelta(v)
      /\ UNCHANGED <<version, loud, unsent, feed, dropped, pump, greeting>>
  BY DEF Receive
<1>2. v \in 0 .. MaxVersion /\ v <= version
  BY <1>1, ReceiveShifts DEF Frame, StreamInv, Newest
<1> QED
  BY <1>1, <1>2 DEF OnDelta, Apply, Show

\* A delta has the version of a patch.
Deltas == \A i \in DOMAIN wire : wire[i].type # "snapshot" => wire[i].version \in Version

LEMMA DeltasStep == StreamInv /\ Deltas /\ [StreamNext]_streamVars => Deltas'
<1> SUFFICES ASSUME StreamInv, Deltas, StreamNext \/ UNCHANGED streamVars PROVE Deltas'
  OBVIOUS
<1>0. wire \in Seq(Frame) /\ feed \in Seq(Version) /\ version \in 0 .. MaxVersion
  BY DEF StreamInv, StreamTypeOK
<1>1. CASE UNCHANGED wire
  BY <1>1 DEF Deltas, Version
<1>2. ASSUME NEW f \in Frame, wire' = Append(wire, f), f.type # "snapshot" => f.version \in Version
      PROVE  Deltas'
  <2>1. /\ DOMAIN wire = 1 .. Len(wire) /\ DOMAIN wire' = 1 .. Len(wire) + 1 /\ Len(wire) \in Nat
        /\ wire'[Len(wire) + 1] = f /\ \A i \in 1 .. Len(wire) : wire'[i] = wire[i]
    BY <1>0, <1>2, Appended
  <2>2. ASSUME NEW i \in DOMAIN wire' PROVE i = Len(wire) + 1 \/ i \in 1 .. Len(wire)
    BY <2>1
  <2> QED
    BY <1>2, <2>1, <2>2 DEF Deltas, Version
<1>3. CASE PumpDelta
  <2> DEFINE f == [type |-> "summary-delta", version |-> Head(feed)]
  <2>1. Head(feed) \in Version
    BY <1>0, <1>3, Shortened DEF PumpDelta
  <2>2. f \in Frame /\ f.version \in Version
    BY <2>1 DEF Frame, Version
  <2>3. UNCHANGED wire \/ wire' = Append(wire, f)
    BY <1>3 DEF PumpDelta
  <2> HIDE DEF f
  <2> QED
    BY <1>1, <1>2, <2>2, <2>3
<1>4. CASE AnswerSnapshot
  <2> DEFINE f == [type |-> "snapshot", version |-> version]
  <2>1. f \in Frame /\ f.type = "snapshot" /\ wire' = Append(wire, f)
    BY <1>0, <1>4 DEF AnswerSnapshot, Frame
  <2> HIDE DEF f
  <2> QED
    BY <1>2, <2>1
<1>5. CASE Receive
  <2>1. wire # <<>> /\ wire' = Tail(wire)
    BY <1>5 DEF Receive
  <2>2. \A i \in DOMAIN wire' : i + 1 \in DOMAIN wire /\ wire'[i] = wire[i + 1]
    BY <2>1, ReceiveShifts
  <2> QED
    BY <2>2 DEF Deltas, Version
<1>6. CASE Close
  BY <1>6 DEF Close, Deltas
<1>7. CASE Open \/ Greet \/ (\E p \in BOOLEAN : Merge(p)) \/ \E v \in unsent : PublishDelta(v)
  BY <1>1, <1>7 DEF Open, Greet, Merge, PublishDelta, Socket
<1> QED
  BY <1>1, <1>3, <1>4, <1>5, <1>6, <1>7 DEF StreamNext, Transport, streamVars

LEMMA DeltaInv ==
  ASSUME StreamInv, Deltas, Receive, Head(wire).type # "snapshot"
  PROVE  StreamInv'
<1> DEFINE v == Head(wire).version
<1>0. /\ wire # <<>> /\ wire' = Tail(wire) /\ v \in 0 .. MaxVersion /\ v <= version
      /\ UNCHANGED <<version, loud, unsent, feed, dropped, pump, greeting>>
      /\ \/ /\ view.pending /\ UNCHANGED <<asked, page>>
            /\ view' = [view EXCEPT !.queue = @ \cup {v}]
         \/ /\ ~view.pending /\ view.seen \in {Unknown, v - 1} /\ UNCHANGED asked
            /\ view' = [view EXCEPT !.seen = v, !.has = @ \cup {v}]
            /\ page' = [version |-> view'.seen, has |-> view'.has]
         \/ /\ ~view.pending /\ asked' = asked + 1 /\ UNCHANGED page
            /\ view' = [view EXCEPT !.pending = TRUE, !.queue = @ \cup {v}]
  BY DeltaEffect
<1>1. /\ 1 \in DOMAIN wire /\ v = wire[1].version /\ v \in Version
  BY <1>0, ReceiveShifts DEF Deltas
<1>2. /\ view \in View /\ asked \in 0 .. 2 /\ greeting \in BOOLEAN
  BY DEF StreamInv, StreamTypeOK
<1>3. /\ view' \in View /\ view'.queue \subseteq view.queue \cup {v}
      /\ view'.based = view.based /\ view'.seen \in {view.seen, v}
      /\ page' \in [version : 0 .. MaxVersion, has : SUBSET Version]
      /\ \/ view'.pending = view.pending /\ asked' = asked
         \/ ~view.pending /\ view'.pending = TRUE /\ asked' = asked + 1
  <2>1. CASE view' = [view EXCEPT !.queue = @ \cup {v}] /\ UNCHANGED <<asked, page>>
    BY <1>1, <1>2, <2>1 DEF View, StreamInv, StreamTypeOK
  <2>2. CASE /\ view' = [view EXCEPT !.seen = v, !.has = @ \cup {v}] /\ UNCHANGED asked
             /\ page' = [version |-> view'.seen, has |-> view'.has]
    BY <1>0, <1>1, <1>2, <2>2 DEF View
  <2>3. CASE /\ view' = [view EXCEPT !.pending = TRUE, !.queue = @ \cup {v}]
             /\ ~view.pending /\ asked' = asked + 1 /\ UNCHANGED page
    BY <1>1, <1>2, <2>3 DEF View, StreamInv, StreamTypeOK
  <2> QED
    BY <1>0, <2>1, <2>2, <2>3
<1> HIDE DEF v
<1>4. Spare \in Int /\ Spare' = Spare
  <2>1. CASE view'.pending = view.pending /\ asked' = asked
    BY <1>0, <1>2, <2>1 DEF Spare
  <2>2. CASE ~view.pending /\ view'.pending = TRUE /\ asked' = asked + 1
    <3>1. Spare = 1 - asked - (IF greeting THEN 1 ELSE 0)
      BY <2>2 DEF Spare
    <3>2. Spare' = 2 - asked' - (IF greeting THEN 1 ELSE 0)
      BY <1>0, <2>2 DEF Spare
    <3> QED
      BY <1>2, <2>2, <3>1, <3>2
  <2> QED
    BY <1>3, <2>1, <2>2
<1>5. AtMost(Spare)'
  <2>1. \A i \in Snapshots' : i \in Int /\ i + 1 \in Snapshots
    BY <1>0, ReceiveShifts
  <2>2. Snapshots = {} => Snapshots' = {}
    BY <2>1
  <2>3. ASSUME \A i, j \in Snapshots : i = j, NEW i \in Snapshots', NEW j \in Snapshots'
        PROVE  i = j
    <3>1. i + 1 = j + 1
      BY <2>1, <2>3
    <3> QED
      BY <2>1, <3>1
  <2>4. ASSUME \A i, j, k \in Snapshots : i = j \/ j = k \/ i = k,
               NEW i \in Snapshots', NEW j \in Snapshots', NEW k \in Snapshots'
        PROVE  i = j \/ j = k \/ i = k
    <3>1. i + 1 = j + 1 \/ j + 1 = k + 1 \/ i + 1 = k + 1
      BY <2>1, <2>4
    <3> QED
      BY <2>1, <3>1
  <2> QED
    BY <1>4, <2>2, <2>3, <2>4 DEF StreamInv, InFlight, AtMost
<1>6. InFlight'
  <2>1. pump # "off"
    BY <1>0 DEF StreamInv, InFlight
  <2> QED
    BY <1>0, <1>5, <2>1 DEF InFlight
<1>7. Newest'
  <2>1. view'.seen <= version
    BY <1>0, <1>3 DEF StreamInv, Newest
  <2>2. view'.based => view'.seen # Unknown
    BY <1>1, <1>3 DEF StreamInv, Newest, Unknown, Version
  <2> QED
    BY <1>0, <1>3, <2>1, <2>2, ReceiveShifts DEF StreamInv, Newest
<1>8. ASSUME NEW i \in Snapshots'
      PROVE  /\ \A u \in view'.queue : u <= wire'[i].version
             /\ \A j \in 1 .. i : wire'[j].version <= wire'[i].version
  <2>1. /\ i + 1 \in Snapshots /\ i \in 1 .. Len(wire) - 1 /\ Len(wire) \in Nat
        /\ \A j \in 1 .. Len(wire) - 1 : wire'[j] = wire[j + 1]
    BY <1>0, ReceiveShifts
  <2>2. \A j \in 1 .. i : j + 1 \in 1 .. i + 1 /\ wire'[j] = wire[j + 1]
    BY <2>1
  <2>3. 1 \in 1 .. i + 1 /\ wire'[i] = wire[i + 1]
    BY <2>1
  <2> QED
    BY <1>1, <1>3, <2>1, <2>2, <2>3 DEF StreamInv, Dominates
<1>9. Dominates'
  BY <1>8 DEF Dominates
<1>10. asked' \in 0 .. 2
  BY <1>2, <1>3, <1>4, <1>5 DEF AtMost, Spare
<1>11. StreamTypeOK'
  BY <1>0, <1>3, <1>10, ReceiveShifts DEF StreamInv, StreamTypeOK, Version
<1> QED
  BY <1>6, <1>7, <1>9, <1>11 DEF StreamInv

LEMMA StreamInvStep == StreamInv /\ Deltas /\ [StreamNext]_streamVars => StreamInv'
<1> SUFFICES ASSUME StreamInv, Deltas, StreamNext \/ UNCHANGED streamVars PROVE StreamInv'
  OBVIOUS
<1>1. CASE Receive
  BY <1>1, SnapshotInv, DeltaInv
<1>2. CASE UNCHANGED streamVars
  <2>1. UNCHANGED <<version, loud, unsent, feed, dropped, pump, wire, asked, greeting, view, page>>
    BY <1>2 DEF streamVars
  <2> QED
    BY <2>1 DEF StreamInv, StreamTypeOK, InFlight, AtMost, Spare, Snapshots, Newest, Dominates,
                Version, View, Frame
<1> QED
  BY <1>1, <1>2, CacheSteps, PumpInv, SocketInv DEF StreamNext, Transport

LEMMA DeltasInit == StreamInit => Deltas
BY DEF StreamInit, Deltas

\* The stream keeps its types.  That there are never more than two requests
\* for a snapshot under way is a fact about the greeting and the gaps.
THEOREM StreamTypeCorrect == StreamSpec => []StreamTypeOK
<1>1. StreamInv => StreamTypeOK
  BY DEF StreamInv
<1> QED
  BY <1>1, StreamInitInv, StreamInvStep, DeltasInit, DeltasStep, PTL DEF StreamSpec

-----------------------------------------------------------------------------
(* No patch is skipped *)

\* Steps of the cache and the pump: a delta moves on.
LEMMA MovesOn ==
  ASSUME StreamInv, NothingSkipped,
         (\E p \in BOOLEAN : Merge(p)) \/ (\E v \in unsent : PublishDelta(v))
           \/ PumpDelta \/ AnswerSnapshot
  PROVE  NothingSkipped'
<1> SUFFICES ASSUME view'.based, pump' = "on", ~dropped', ~greeting', ~view'.pending
             PROVE  Content(view.seen)' \subseteq view.has \cup UnderWay'
  <2>1. view' = view
    BY DEF Merge, PublishDelta, PumpDelta, AnswerSnapshot, Socket
  <2> QED
    BY <2>1 DEF NothingSkipped, Content
<1>0. /\ version \in 0 .. MaxVersion /\ loud \subseteq Version /\ view.seen \in Int
      /\ view.seen <= version /\ feed \in Seq(Version) /\ wire \in Seq(Frame) /\ dropped \in BOOLEAN
  BY DEF StreamInv, StreamTypeOK, Newest, View, Unknown
<1>1. UNCHANGED <<view, greeting>> /\ (pump' = pump \/ pump' = "raised") /\ (dropped' = dropped \/ dropped')
  BY DEF Merge, PublishDelta, Enqueue, PumpDelta, AnswerSnapshot, Socket
<1>2. Content(view.seen) \subseteq view.has \cup UnderWay
  BY <1>0, <1>1 DEF NothingSkipped
<1>3. \A u \in Content(view.seen)' : u \in Content(view.seen)
  <2>1. loud' = loud \/ loud' = loud \cup {version + 1}
    BY DEF Merge, PublishDelta, PumpDelta, AnswerSnapshot
  <2>2. ~(version + 1 <= view.seen)
    BY <1>0
  <2> QED
    BY <1>1, <2>1, <2>2 DEF Content
<1>4. UnderWay \subseteq UnderWay'
  <2>1. ASSUME NEW p \in BOOLEAN, Merge(p) PROVE UnderWay \subseteq UnderWay'
    BY <2>1 DEF Merge, Socket, UnderWay
  <2>2. ASSUME NEW v \in unsent, PublishDelta(v) PROVE UnderWay \subseteq UnderWay'
    <3>1. v \in Version /\ pump = "on" /\ ~dropped /\ UNCHANGED wire /\ unsent' = unsent \ {v}
      BY <1>0, <1>1, <2>2 DEF PublishDelta, Socket, StreamInv, StreamTypeOK
    <3>2. feed' = Append(feed, v)
      BY <2>2, <3>1 DEF PublishDelta, Enqueue
    <3>3. ToSet(feed') = ToSet(feed) \cup {v}
      BY <1>0, <3>1, <3>2, Appended
    <3> QED
      BY <3>1, <3>3 DEF UnderWay
  <2>3. CASE PumpDelta
    <3> DEFINE f == [type |-> "summary-delta", version |-> Head(feed)]
    <3>1. feed # <<>> /\ feed' = Tail(feed) /\ wire' = Append(wire, f) /\ UNCHANGED unsent
      BY <1>0, <1>1, <2>3 DEF PumpDelta
    <3>2. Head(feed) \in Version /\ ToSet(feed) = ToSet(feed') \cup {Head(feed)}
      BY <1>0, <3>1, Shortened
    <3>3. f \in Frame /\ f.version = Head(feed)
      BY <3>2 DEF Frame, Version
    <3> HIDE DEF f
    <3>4. ToSet(wire') = ToSet(wire) \cup {f}
      BY <1>0, <3>1, <3>3, Appended
    <3> QED
      BY <3>1, <3>2, <3>3, <3>4 DEF UnderWay
  <2>4. CASE AnswerSnapshot
    <3> DEFINE f == [type |-> "snapshot", version |-> version]
    <3>1. f \in Frame /\ wire' = Append(wire, f) /\ UNCHANGED <<unsent, feed>>
      BY <1>0, <2>4 DEF AnswerSnapshot, Frame
    <3> HIDE DEF f
    <3>2. ToSet(wire') = ToSet(wire) \cup {f}
      BY <1>0, <3>1, Appended
    <3> QED
      BY <3>1, <3>2 DEF UnderWay
  <2> QED
    BY <2>1, <2>2, <2>3, <2>4
<1> QED
  BY <1>2, <1>3, <1>4

\* A frame that the page receives is in its view, or it waits for a snapshot.
LEMMA Received == ASSUME StreamInv, Deltas, NothingSkipped, Receive PROVE NothingSkipped'
<1> DEFINE v == Head(wire).version
<1>1. CASE Head(wire).type = "snapshot"
  <2>1. view'.seen = v /\ view'.has = Content(v) /\ loud' = loud
    BY <1>1, SnapshotInv DEF Receive
  <2> QED
    BY <2>1 DEF NothingSkipped, Content
<1>2. CASE Head(wire).type # "snapshot"
  <2>0. /\ wire # <<>> /\ wire' = Tail(wire) /\ v \in 0 .. MaxVersion
        /\ UNCHANGED <<version, loud, unsent, feed, dropped, pump, greeting>>
        /\ \/ /\ view.pending /\ UNCHANGED <<asked, page>>
              /\ view' = [view EXCEPT !.queue = @ \cup {v}]
           \/ /\ ~view.pending /\ view.seen \in {Unknown, v - 1} /\ UNCHANGED asked
              /\ view' = [view EXCEPT !.seen = v, !.has = @ \cup {v}]
              /\ page' = [version |-> view'.seen, has |-> view'.has]
           \/ /\ ~view.pending /\ asked' = asked + 1 /\ UNCHANGED page
              /\ view' = [view EXCEPT !.pending = TRUE, !.queue = @ \cup {v}]
    BY <1>2, DeltaEffect
  <2>1. /\ view \in View /\ wire \in Seq(Frame) /\ loud \subseteq Version
    BY DEF StreamInv, StreamTypeOK
  <2>2. ToSet(wire) = ToSet(wire') \cup {Head(wire)}
    BY <2>0, <2>1, Shortened
  <2> HIDE DEF v
  <2>3. CASE view.pending /\ view' = [view EXCEPT !.queue = @ \cup {v}]
    <3>1. view'.pending
      BY <2>1, <2>3 DEF View
    <3> QED
      BY <3>1 DEF NothingSkipped
  <2>4. CASE ~view.pending /\ view' = [view EXCEPT !.pending = TRUE, !.queue = @ \cup {v}]
    <3>1. view'.pending
      BY <2>1, <2>4 DEF View
    <3> QED
      BY <3>1 DEF NothingSkipped
  <2>5. CASE /\ ~view.pending /\ view.seen \in {Unknown, v - 1}
             /\ view' = [view EXCEPT !.seen = v, !.has = @ \cup {v}]
    <3>1. /\ view'.seen = v /\ view'.has = view.has \cup {v} /\ view'.based = view.based
          /\ view'.pending = view.pending
      BY <2>1, <2>5 DEF View
    <3> SUFFICES ASSUME view.based, pump = "on", ~dropped, ~greeting
                 PROVE  Content(v) \subseteq view.has \cup {v} \cup UnderWay'
      BY <2>0, <3>1 DEF NothingSkipped, Content
    <3>2. Content(view.seen) \subseteq view.has \cup UnderWay
      BY <2>5 DEF NothingSkipped
    <3>3. view.seen = v - 1
      BY <2>5 DEF StreamInv, Newest
    <3>4. Content(v) \subseteq Content(view.seen) \cup {v}
      BY <2>0, <2>1, <3>3 DEF Content, Version
    <3>5. UnderWay \subseteq UnderWay' \cup {v}
      BY <2>0, <2>2 DEF UnderWay, v
    <3> QED
      BY <3>2, <3>4, <3>5
  <2> QED
    BY <2>0, <2>3, <2>4, <2>5
<1> QED
  BY <1>1, <1>2

LEMMA SkippedStep ==
  StreamInv /\ Deltas /\ NothingSkipped /\ [StreamNext]_streamVars => NothingSkipped'
<1> SUFFICES ASSUME StreamInv, Deltas, NothingSkipped, StreamNext \/ UNCHANGED streamVars
             PROVE  NothingSkipped'
  OBVIOUS
<1>1. CASE Open \/ Close
  BY <1>1 DEF Open, Close, NothingSkipped
<1>2. CASE Greet
  <2>1. CASE view.seen = Unknown /\ UNCHANGED view
    BY <2>1 DEF StreamInv, Newest, NothingSkipped
  <2>2. CASE view' = [view EXCEPT !.pending = TRUE]
    <3>1. view'.pending
      BY <2>2 DEF StreamInv, StreamTypeOK, View
    <3> QED
      BY <3>1 DEF NothingSkipped
  <2> QED
    BY <1>2, <2>1, <2>2 DEF Greet
<1>3. CASE UNCHANGED streamVars
  BY <1>3 DEF streamVars, NothingSkipped, Content, UnderWay
<1> QED
  BY <1>1, <1>2, <1>3, MovesOn, Received DEF StreamNext, Transport

\* A page that has had a snapshot misses no published patch: it has it, or it
\* will hear of it, or it waits for another snapshot.
THEOREM NothingSkippedCorrect == StreamSpec => []NothingSkipped
<1>1. StreamInit => NothingSkipped
  BY DEF StreamInit, NothingSkipped
<1> QED
  BY <1>1, StreamInitInv, StreamInvStep, DeltasInit, DeltasStep, SkippedStep, PTL DEF StreamSpec

-----------------------------------------------------------------------------
(* The session and its slot *)

\* What the maximum of numbers is, once it is known.
LEMMA MaxIs ==
  ASSUME NEW S \in SUBSET Int, NEW m \in S, \A y \in S : m >= y
  PROVE  Max(S) = m
<1>1. Max(S) \in S /\ \A y \in S : Max(S) >= y
  BY DEF Max
<1>2. Max(S) \in Int /\ m \in Int /\ Max(S) >= m /\ m >= Max(S)
  BY <1>1
<1> QED
  BY <1>2

LEMMA Between ==
  ASSUME NEW a \in Int, NEW b \in Int
  PROVE  /\ Min({a, b}) = (IF a <= b THEN a ELSE b)
         /\ Max({a, b}) = (IF a <= b THEN b ELSE a)
<1>1. CASE a <= b
  <2>1. Max({a, b}) = b
    BY <1>1, MaxIs
  <2>2. Min({a, b}) = a
    BY <1>1 DEF Min
  <2> QED
    BY <1>1, <2>1, <2>2
<1>2. CASE ~(a <= b)
  <2>1. Max({a, b}) = a
    BY <1>2, MaxIs
  <2>2. Min({a, b}) = b
    BY <1>2 DEF Min
  <2> QED
    BY <1>2, <2>1, <2>2
<1> QED
  BY <1>1, <1>2

LEMMA GreatestOfThree ==
  ASSUME NEW a \in Int, NEW b \in Int, NEW c \in Int
  PROVE  Max({a, b, c}) \in {a, b, c} /\ \A y \in {a, b, c} : y <= Max({a, b, c})
<1>1. PICK m \in {a, b, c} : \A y \in {a, b, c} : m >= y
  <2>1. \/ a >= b /\ a >= c
        \/ b >= a /\ b >= c
        \/ c >= a /\ c >= b
    OBVIOUS
  <2> QED
    BY <2>1
<1>2. Max({a, b, c}) = m
  BY <1>1, MaxIs
<1> QED
  BY <1>1, <1>2

LEMMA Bounds ==
  /\ Longest \in Nat /\ LocalRelease <= Longest /\ UnknownRelease <= Longest /\ Hysteresis <= Longest
  /\ Max(Backoff) \in Nat /\ Backoff = 1 .. Max(Backoff)
  /\ {MaxBackoff, SignMax, AgeMax, SignInitial, Initial, Park} \subseteq Backoff
<1>1. /\ Longest \in {LocalRelease, UnknownRelease, Hysteresis}
      /\ \A y \in {LocalRelease, UnknownRelease, Hysteresis} : y <= Longest
  BY GreatestOfThree, LiveAssumption DEF Longest
<1>2. PICK m \in {MaxBackoff, SignMax, AgeMax, SignInitial} :
             \A y \in {MaxBackoff, SignMax, AgeMax, SignInitial} : m >= y
  <2>1. PICK l \in {MaxBackoff, SignMax} : \A y \in {MaxBackoff, SignMax} : l >= y
    BY LiveAssumption
  <2>2. PICK r \in {AgeMax, SignInitial} : \A y \in {AgeMax, SignInitial} : r >= y
    BY LiveAssumption
  <2> QED
    BY <2>1, <2>2, LiveAssumption
<1>3. m \in Nat \ {0} /\ Max({MaxBackoff, SignMax, AgeMax, SignInitial}) = m
  <2>1. {MaxBackoff, SignMax, AgeMax, SignInitial} \in SUBSET Int
    BY LiveAssumption
  <2> QED
    BY <1>2, <2>1, MaxIs, LiveAssumption
<1>4. Backoff = 1 .. m
  BY <1>3 DEF Backoff
<1>5. Max(Backoff) = m
  <2>1. Backoff \in SUBSET Int /\ m \in Backoff /\ \A y \in Backoff : m >= y
    BY <1>3, <1>4
  <2> QED
    BY <2>1, MaxIs
<1>6. {MaxBackoff, SignMax, AgeMax, SignInitial, Initial, Park} \subseteq Backoff
  BY <1>2, <1>3, <1>4, LiveAssumption
<1> QED
  BY <1>1, <1>3, <1>4, <1>5, <1>6, LiveAssumption

\* The ages of the stamps, and those of an answer of the probe.
Timer == [offline : Stamp, unknown : Stamp, observed : Stamp]

LEMMA Aged ==
  ASSUME timer \in Timer, timer' = [k \in DOMAIN timer |-> Older(timer[k], Longest)]
  PROVE  /\ timer' \in Timer
         /\ \A k \in {"offline", "unknown", "observed"} :
              timer'[k] = IF timer[k] = NoStamp THEN NoStamp
                          ELSE IF timer[k] + 1 <= Longest THEN timer[k] + 1 ELSE Longest
<1>1. DOMAIN timer = {"offline", "unknown", "observed"}
  BY DEF Timer
<1>2. \A k \in {"offline", "unknown", "observed"} : timer[k] \in Stamp
  BY DEF Timer
<1>3. ASSUME NEW k \in {"offline", "unknown", "observed"}
      PROVE  /\ timer'[k] = (IF timer[k] = NoStamp THEN NoStamp
                             ELSE IF timer[k] + 1 <= Longest THEN timer[k] + 1 ELSE Longest)
             /\ timer'[k] \in Stamp
  <2>1. timer'[k] = Older(timer[k], Longest)
    BY <1>1
  <2>2. timer[k] \in Stamp
    BY <1>2
  <2>3. timer[k] # NoStamp => Min({timer[k] + 1, Longest})
                                = IF timer[k] + 1 <= Longest THEN timer[k] + 1 ELSE Longest
    BY <2>2, Between, Bounds DEF Stamp, NoStamp
  <2> QED
    BY <2>1, <2>2, <2>3, Bounds DEF Older, Stamp, NoStamp
<1>4. timer' \in Timer
  <2>1. DOMAIN timer' = {"offline", "unknown", "observed"}
    BY <1>1
  <2>2. timer' = [offline |-> timer'.offline, unknown |-> timer'.unknown,
                  observed |-> timer'.observed]
    BY <1>1, <2>1
  <2> QED
    BY <1>3, <2>2 DEF Timer
<1> QED
  BY <1>3, <1>4

LEMMA LiveTypes ==
  LiveTypeOK <=>
    /\ owned \in BOOLEAN /\ paused \in BOOLEAN /\ due \in BOOLEAN /\ murky \in BOOLEAN
    /\ sup \in Sup /\ logged \in 0 .. RampCap
    /\ state \in Offline \cup {"CONNECTING", "CONNECTED"}
    /\ timer \in Timer
    /\ probe \in [live : {"yes", "no", "unknown"}, age : 0 .. Freshness + 1]
    /\ quiet \in 0 .. Longest
BY Zenon DEF LiveTypeOK, Timer

LEMMA SupFields ==
  /\ NoSup \in Sup
  /\ \A n \in 0 .. RampCap : /\ [Connecting EXCEPT !.ages = n] \in Sup
                             /\ [Connecting EXCEPT !.ages = n].pc = "connect"
  /\ 1 \in 0 .. Max(Backoff)
<1>1. Initial \in Backoff /\ MaxBackoff \in Backoff /\ RampCap \in Nat /\ Max(Backoff) \in Nat
      /\ Backoff = 1 .. Max(Backoff)
  BY Bounds, LiveAssumption
<1>2. 0 \in 0 .. Max(Backoff) /\ 1 \in 0 .. Max(Backoff) /\ 0 \in 0 .. RampCap
  BY <1>1
<1>3. NoSup \in Sup
  BY <1>1, <1>2 DEF NoSup, Sup
<1>4. ASSUME NEW n \in 0 .. RampCap
      PROVE  /\ [Connecting EXCEPT !.ages = n] \in Sup
             /\ [Connecting EXCEPT !.ages = n].pc = "connect"
  BY <1>1, <1>2 DEF Connecting, NoSup, Sup
<1> QED
  BY <1>2, <1>3, <1>4

LEMMA StampedTimer ==
  ASSUME timer \in Timer, NEW s
  PROVE  /\ Stamped(s) \in Timer
         /\ Stamped(s).unknown = timer.unknown /\ Stamped(s).observed = timer.observed
         /\ Stamped(s).offline \in {timer.offline, NoStamp, 0}
         /\ s = "CONNECTED" => Stamped(s).offline = NoStamp
BY Bounds DEF Stamped, Timer, Stamp, NoStamp, Offline

LEMMA LiveInitTypes == LiveInit => LiveTypeOK
<1> SUFFICES ASSUME LiveInit PROVE LiveTypeOK
  OBVIOUS
<1>1. timer \in Timer
  BY Bounds DEF LiveInit, NoTimer, Timer, Stamp, NoStamp
<1>2. /\ probe \in [live : {"yes", "no", "unknown"}, age : 0 .. Freshness + 1]
      /\ quiet \in 0 .. Longest /\ logged \in 0 .. RampCap
  <2>1. Freshness \in Nat /\ RampCap \in Nat /\ Longest \in Nat
    BY Bounds, LiveAssumption
  <2>2. Freshness + 1 \in 0 .. Freshness + 1 /\ 0 \in 0 .. RampCap /\ 0 \in 0 .. Longest
    BY <2>1
  <2> QED
    BY <2>2 DEF LiveInit
<1>3. sup \in Sup /\ state \in Offline
  BY SupFields DEF LiveInit, Offline
<1>4. owned \in BOOLEAN /\ paused \in BOOLEAN /\ due \in BOOLEAN /\ murky \in BOOLEAN
  BY Zenon DEF LiveInit
<1> QED
  BY <1>1, <1>2, <1>3, <1>4, LiveTypes

\* The waits and the backoffs of the supervisor.
LEMMA SupTypes ==
  ASSUME LiveTypeOK, SupStep
  PROVE  /\ sup' \in Sup /\ logged' \in 0 .. RampCap
         /\ UNCHANGED World
         /\ \/ \E s \in Offline \cup {"CONNECTING", "CONNECTED"} : Notify(s)
            \/ UNCHANGED <<state, timer>>
         /\ sup.pc # "none"
<1>0. /\ sup \in Sup /\ logged \in 0 .. RampCap /\ sup.backoff \in Backoff /\ sup.cap \in Backoff
      /\ sup.ages \in 0 .. RampCap
  BY LiveTypes DEF Sup
<1>1. /\ Backoff = 1 .. Max(Backoff) /\ Max(Backoff) \in Nat /\ RampCap \in Nat \ {0}
      /\ {MaxBackoff, SignMax, AgeMax, SignInitial, Initial, Park} \subseteq Backoff
      /\ Park \in Nat \ {0}
  BY Bounds, LiveAssumption
<1>10. ASSUME NEW b \in Backoff, NEW c \in Backoff
       PROVE  Min({b, c}) \in Backoff /\ Max({b, c}) \in Backoff
  <2>1. b \in Int /\ c \in Int
    BY <1>1
  <2> QED
    BY <2>1, Between
<1>11. ASSUME NEW b \in Backoff, NEW c \in Backoff PROVE Min({2 * b, c}) \in Backoff
  <2> DEFINE d == 2 * b
  <2>1. c \in Int /\ d \in Int /\ d >= 1
    BY <1>1
  <2> HIDE DEF d
  <2>2. Min({d, c}) = (IF d <= c THEN d ELSE c)
    BY <2>1, Between
  <2>3. Min({d, c}) \in 1 .. Max(Backoff)
    BY <1>1, <2>1, <2>2
  <2> QED
    BY <1>1, <2>3 DEF d
<1>2. ASSUME NEW b \in Backoff, NEW c \in Backoff, Sleep(b, c) PROVE sup' \in Sup
  <2>1. b \in 0 .. Max(Backoff)
    BY <1>1
  <2> QED
    BY <1>0, <1>2, <2>1 DEF Sleep, Sup
<1>3. CASE Connected
  BY <1>0, <1>3, SupFields DEF Connected, NoSup, Sup
<1>4. CASE FoundOffline
  BY <1>0, <1>4, SupFields DEF FoundOffline, Sup, Offline
<1>5. CASE Terminal
  <2>1. ASSUME NEW b \in Backoff, NEW n \in 0 .. RampCap,
               sup' = [sup EXCEPT !.pc = "sleep", !.wait = b, !.backoff = b, !.cap = b, !.ages = n]
        PROVE  sup' \in Sup
    <3>1. b \in 0 .. Max(Backoff)
      BY <1>1
    <3> QED
      BY <1>0, <2>1, <3>1 DEF Sup
  <2>2. CASE /\ sup' = [sup EXCEPT !.pc = "sleep", !.wait = Park, !.backoff = Park, !.cap = Park]
             /\ UNCHANGED logged
    <3>1. Park \in 0 .. Max(Backoff) /\ Park \in Backoff
      BY <1>1
    <3> QED
      BY <1>0, <1>5, <2>2, <3>1 DEF Terminal, Sup, Offline
  <2>3. CASE LET n == Min({sup.ages + 1, RampCap})
                 b == Min({Park * 2 ^ (n - 1), AgeMax})
             IN /\ sup' = [sup EXCEPT !.pc = "sleep", !.wait = b, !.backoff = b,
                                      !.cap = b, !.ages = n]
                /\ logged' = Min({logged + 1, RampCap})
    <3> DEFINE n == Min({sup.ages + 1, RampCap})
               p == 2 ^ (n - 1)
               b == Min({Park * p, AgeMax})
    <3>1. n \in 1 .. RampCap
      BY <1>0, <1>1, Between
    <3>2. p \in Int /\ p >= 1
      BY <1>1, <3>1, Doublings
    <3>3. Park * p \in Int /\ Park * p >= 1
      <4> HIDE DEF p
      <4> QED
        BY <1>1, <3>2
    <3>4. b \in Backoff
      <4> DEFINE x == Park * p
      <4>1. x \in Int /\ x >= 1 /\ AgeMax \in Int /\ AgeMax \in Backoff
        BY <1>1, <3>3
      <4> HIDE DEF x
      <4>2. Min({x, AgeMax}) \in Backoff
        BY <1>1, <4>1, Between
      <4> QED
        BY <4>2 DEF x
    <3>5. logged' \in 0 .. RampCap
      <4>1. logged' = Min({logged + 1, RampCap})
        BY <2>3
      <4>2. logged + 1 \in Int /\ RampCap \in Int
        BY <1>0, <1>1
      <4>3. logged' = IF logged + 1 <= RampCap THEN logged + 1 ELSE RampCap
        BY <4>1, <4>2, Between
      <4> QED
        BY <1>0, <1>1, <4>3
    <3>6. sup' = [sup EXCEPT !.pc = "sleep", !.wait = b, !.backoff = b, !.cap = b, !.ages = n]
      BY <2>3
    <3> HIDE DEF b, n, p
    <3>7. sup' \in Sup
      <4>1. n \in 0 .. RampCap
        BY <3>1, <1>1
      <4> QED
        BY <2>1, <3>4, <3>6, <4>1
    <3> QED
      BY <1>5, <3>5, <3>7 DEF Terminal, Offline
  <2> QED
    BY <1>5, <2>2, <2>3 DEF Terminal
<1>6. CASE SignLimited
  <2>1. Max({sup.backoff, SignInitial}) \in Backoff
    BY <1>0, <1>1, <1>10
  <2> QED
    BY <1>0, <1>1, <1>2, <1>6, <2>1 DEF SignLimited, Offline
<1>7. CASE Failed \/ Ended
  <2>1. sup' \in Sup
    BY <1>0, <1>1, <1>2, <1>7 DEF Failed, Ended
  <2> QED
    BY <1>0, <1>7, <2>1 DEF Failed, Ended, Offline
<1>8. CASE Wake
  <2>1. Doubled(sup.backoff, sup.cap) \in Backoff
    BY <1>0, <1>11 DEF Doubled
  <2>2. sup' \in Sup
    BY <1>0, <1>8, <2>1, SupFields DEF Wake, Sup
  <2> QED
    BY <1>0, <1>8, <2>2 DEF Wake
<1>9. CASE Watch
  <2>1. sup' \in Sup
    BY <1>0, <1>9, SupFields DEF Watch, Sup
  <2> QED
    BY <1>0, <1>9, <2>1 DEF Watch
<1> QED
  BY <1>3, <1>4, <1>5, <1>6, <1>7, <1>8, <1>9 DEF SupStep

\* What the stamps say is true while the slate is clean: no stamp is older
\* than the silence of the session, but for the age that the first answer of
\* the probe may have had.
QuietInv ==
  /\ ~owned => sup.pc = "none"
  /\ state = "CONNECTED" => timer.offline = NoStamp
  /\ ~murky => /\ timer.unknown = NoStamp
               /\ owned => ~paused /\ timer.offline <= quiet /\ timer.observed <= quiet + Freshness
               /\ ~owned => timer.offline = NoStamp /\ timer.observed = NoStamp

\* The types of a step, in the form of its proofs.
TypesNext ==
  /\ owned' \in BOOLEAN /\ paused' \in BOOLEAN /\ due' \in BOOLEAN /\ murky' \in BOOLEAN
  /\ sup' \in Sup /\ logged' \in 0 .. RampCap
  /\ state' \in Offline \cup {"CONNECTING", "CONNECTED"}
  /\ timer' \in Timer
  /\ probe' \in [live : {"yes", "no", "unknown"}, age : 0 .. Freshness + 1]
  /\ quiet' \in 0 .. Longest

LEMMA SupLives ==
  ASSUME LiveTypeOK, QuietInv, SupStep
  PROVE  TypesNext /\ QuietInv'
<1>1. /\ sup' \in Sup /\ logged' \in 0 .. RampCap /\ sup.pc # "none"
      /\ UNCHANGED <<owned, paused, probe, due, murky, quiet>>
      /\ \/ \E s \in Offline \cup {"CONNECTING", "CONNECTED"} : Notify(s)
         \/ UNCHANGED <<state, timer>>
  BY SupTypes DEF World
<1>2. timer \in Timer /\ quiet \in 0 .. Longest /\ owned \in BOOLEAN /\ owned
  BY <1>1, LiveTypes DEF QuietInv
<1>3. /\ timer' \in Timer /\ timer'.unknown = timer.unknown /\ timer'.observed = timer.observed
      /\ timer'.offline \in {timer.offline, NoStamp, 0}
      /\ state' = "CONNECTED" => timer'.offline = NoStamp
      /\ state' \in Offline \cup {"CONNECTING", "CONNECTED"}
  <2>1. ASSUME NEW s \in Offline \cup {"CONNECTING", "CONNECTED"}, Notify(s)
        PROVE  /\ timer' \in Timer /\ timer'.unknown = timer.unknown
               /\ timer'.observed = timer.observed
               /\ timer'.offline \in {timer.offline, NoStamp, 0}
               /\ state' = "CONNECTED" => timer'.offline = NoStamp
               /\ state' \in Offline \cup {"CONNECTING", "CONNECTED"}
    BY <1>2, <2>1, StampedTimer DEF Notify
  <2>2. CASE UNCHANGED <<state, timer>>
    BY <1>2, <2>2, LiveTypes DEF QuietInv
  <2> QED
    BY <1>1, <2>1, <2>2
<1>4. TypesNext
  BY <1>1, <1>3, LiveTypes DEF TypesNext
<1>5. timer'.offline <= quiet \/ timer'.offline = timer.offline
  BY <1>2, <1>3, Bounds DEF NoStamp
<1> QED
  BY <1>1, <1>2, <1>3, <1>4, <1>5 DEF QuietInv

\* The probe writes is_live and its own stamp.
LEMMA ProbeLives ==
  ASSUME LiveTypeOK, QuietInv, NEW r \in {"yes", "no", "unknown"}, ProbeHere(r) \/ ProbeElsewhere(r)
  PROVE  TypesNext /\ QuietInv'
<1>0. /\ timer \in Timer /\ murky \in BOOLEAN /\ Freshness + 1 \in Nat
      /\ UNCHANGED <<owned, paused, sup, logged, state, due, quiet>>
      /\ probe' = [live |-> r, age |-> 0]
  BY LiveTypes, LiveAssumption DEF ProbeHere, ProbeElsewhere
<1>1. probe' \in [live : {"yes", "no", "unknown"}, age : 0 .. Freshness + 1]
  BY <1>0
<1>2. CASE ProbeHere(r)
  <2>1. /\ timer' \in Timer /\ timer'.offline = timer.offline /\ timer'.observed = timer.observed
        /\ r # "unknown" => timer'.unknown = NoStamp
    BY <1>0, <1>2, Bounds DEF ProbeHere, Timer, Stamp, NoStamp
  <2>2. murky' \in BOOLEAN /\ (~murky' => ~murky /\ r # "unknown")
    BY <1>0, <1>2, Zenon DEF ProbeHere
  <2> QED
    BY <1>0, <1>1, <2>1, <2>2, LiveTypes DEF TypesNext, QuietInv
<1>3. CASE ProbeElsewhere(r)
  BY <1>0, <1>1, <1>3, LiveTypes DEF ProbeElsewhere, TypesNext, QuietInv
<1> QED
  BY <1>2, <1>3

LEMMA StopTypes ==
  ASSUME LiveTypeOK, QuietInv, StopSession
  PROVE  /\ sup' = NoSup /\ sup' \in Sup /\ state' = "DISCONNECTED" /\ timer' \in Timer
         /\ timer'.unknown = timer.unknown /\ timer'.observed = timer.observed
         /\ ~owned => timer' = timer
BY StampedTimer, SupFields, LiveTypes DEF StopSession, QuietInv

LEMMA StartTypes ==
  ASSUME LiveTypeOK, QuietInv, StartSession
  PROVE  /\ sup' \in Sup /\ logged' \in 0 .. RampCap /\ quiet' = 0
         /\ state' = "CONNECTING" /\ timer' = timer /\ timer \in Timer
<1>1. logged \in 0 .. RampCap /\ timer \in Timer /\ RampCap \in Nat
  BY LiveTypes, LiveAssumption
<1> QED
  BY <1>1, SupFields DEF StartSession, Notify, Stamped, Offline

\* A slot is taken, given up, paused and resumed.
LEMMA SlotLives ==
  ASSUME LiveTypeOK, QuietInv, ClaimHandle \/ Drop \/ PauseAll \/ ResumeAll
  PROVE  TypesNext /\ QuietInv'
<1>0. /\ timer \in Timer /\ murky \in BOOLEAN /\ owned \in BOOLEAN /\ 0 \in 0 .. Longest
      /\ {"DISCONNECTED", "CONNECTING"} \subseteq Offline \cup {"CONNECTING", "CONNECTED"}
      /\ timer.offline \in Int /\ timer.observed \in Int /\ Freshness \in Nat
      /\ TRUE \in BOOLEAN /\ FALSE \in BOOLEAN
  BY LiveTypes, Bounds, LiveAssumption DEF Offline, Timer, Stamp, NoStamp
<1>1. CASE ClaimHandle
  <2>1. /\ ~owned /\ ~paused /\ owned' = TRUE /\ UNCHANGED <<paused, probe, due, murky>>
        /\ sup' \in Sup /\ logged' \in 0 .. RampCap /\ quiet' = 0
        /\ state' = "CONNECTING" /\ timer' = timer
    BY <1>1, StartTypes DEF ClaimHandle
  <2> QED
    BY <1>0, <2>1, LiveTypes DEF TypesNext, QuietInv, NoStamp
<1>2. CASE Drop
  <2>1. /\ owned' = FALSE /\ murky' = TRUE /\ UNCHANGED <<paused, logged, probe, due, quiet>>
        /\ sup' = NoSup /\ sup' \in Sup /\ state' = "DISCONNECTED" /\ timer' \in Timer
    BY <1>2, StopTypes DEF Drop
  <2> QED
    BY <1>0, <2>1, LiveTypes DEF TypesNext, QuietInv, NoSup
<1>3. CASE PauseAll
  <2>1. /\ paused' = TRUE /\ UNCHANGED <<owned, logged, probe, due, quiet>>
        /\ sup' = NoSup /\ sup' \in Sup /\ state' = "DISCONNECTED" /\ timer' \in Timer
        /\ ~owned => timer' = timer
    BY <1>3, StopTypes DEF PauseAll
  <2>2. murky' \in BOOLEAN /\ (~murky' => ~murky /\ ~owned)
    BY <1>0, <1>3, Zenon DEF PauseAll
  <2> QED
    BY <1>0, <2>1, <2>2, LiveTypes DEF TypesNext, QuietInv, NoSup
<1>4. CASE ResumeAll
  <2>1. /\ paused /\ paused' = FALSE /\ UNCHANGED <<owned, probe, due, murky>>
        /\ ~owned => UNCHANGED <<sup, logged, state, timer, quiet>>
        /\ owned => /\ sup' \in Sup /\ logged' \in 0 .. RampCap /\ quiet' = 0
                    /\ state' = "CONNECTING" /\ timer' = timer
    BY <1>4, StartTypes DEF ResumeAll
  <2>2. CASE owned
    BY <1>0, <2>1, <2>2, LiveTypes DEF TypesNext, QuietInv
  <2>3. CASE ~owned
    BY <1>0, <2>1, <2>3, LiveTypes DEF TypesNext, QuietInv
  <2> QED
    BY <2>2, <2>3
<1> QED
  BY <1>1, <1>2, <1>3, <1>4

LEMMA TickLives ==
  ASSUME LiveTypeOK, QuietInv, LiveTick
  PROVE  TypesNext /\ QuietInv'
<1>0. /\ timer \in Timer /\ sup \in Sup /\ quiet \in 0 .. Longest /\ Longest \in Nat
      /\ probe \in [live : {"yes", "no", "unknown"}, age : 0 .. Freshness + 1]
      /\ Freshness \in Nat /\ Max(Backoff) \in Nat /\ TRUE \in BOOLEAN
  BY LiveTypes, Bounds, LiveAssumption
<1>1. /\ due' = TRUE /\ UNCHANGED <<owned, paused, logged, state, murky>>
      /\ sup' = [sup EXCEPT !.wait = Max({@ - 1, 0})]
      /\ timer' = [k \in DOMAIN timer |-> Older(timer[k], Longest)]
      /\ probe' = [probe EXCEPT !.age = Older(@, Freshness + 1)]
      /\ quiet' = Older(quiet, Longest)
  BY DEF LiveTick
<1>2. sup' \in Sup /\ sup'.pc = sup.pc
  <2>1. sup.wait - 1 \in Int /\ sup.wait \in 0 .. Max(Backoff)
    BY <1>0 DEF Sup
  <2>2. Max({sup.wait - 1, 0}) \in 0 .. Max(Backoff)
    <3> DEFINE x == sup.wait - 1
    <3>1. x \in Int /\ x <= Max(Backoff)
      BY <1>0, <2>1
    <3> HIDE DEF x
    <3>2. Max({x, 0}) = (IF x <= 0 THEN 0 ELSE x)
      BY <3>1, Between
    <3>3. Max({x, 0}) \in 0 .. Max(Backoff)
      BY <1>0, <3>1, <3>2
    <3> QED
      BY <3>3 DEF x
  <2> QED
    BY <1>0, <1>1, <2>2 DEF Sup
<1>3. ASSUME NEW n \in Nat, NEW a \in 0 .. n
      PROVE  Older(a, n) = (IF a + 1 <= n THEN a + 1 ELSE n) /\ Older(a, n) \in 0 .. n
  <2>1. Min({a + 1, n}) = IF a + 1 <= n THEN a + 1 ELSE n
    BY Between
  <2> QED
    BY <2>1 DEF Older, NoStamp
<1>4. probe' \in [live : {"yes", "no", "unknown"}, age : 0 .. Freshness + 1]
  <2>1. Older(probe.age, Freshness + 1) \in 0 .. Freshness + 1
    BY <1>0, <1>3
  <2> QED
    BY <1>0, <1>1, <2>1
<1>5. quiet' = (IF quiet + 1 <= Longest THEN quiet + 1 ELSE Longest) /\ quiet' \in 0 .. Longest
  BY <1>0, <1>1, <1>3
<1>6. /\ timer' \in Timer
      /\ \A k \in {"offline", "unknown", "observed"} :
           timer'[k] = IF timer[k] = NoStamp THEN NoStamp
                       ELSE IF timer[k] + 1 <= Longest THEN timer[k] + 1 ELSE Longest
  BY <1>0, <1>1, Aged
<1>7. TypesNext
  BY <1>1, <1>2, <1>4, <1>5, <1>6, LiveTypes DEF TypesNext
<1>8. /\ timer.offline \in Int /\ timer.offline >= -1 /\ timer.offline <= Longest
      /\ timer.observed \in Int /\ timer.observed >= -1 /\ timer.observed <= Longest
  BY <1>0 DEF Timer, Stamp, NoStamp
<1>9. timer.offline <= quiet => timer'.offline <= quiet'
  BY <1>0, <1>5, <1>6, <1>8 DEF NoStamp
<1>10. timer.observed <= quiet + Freshness => timer'.observed <= quiet' + Freshness
  BY <1>0, <1>5, <1>6, <1>8 DEF NoStamp
<1>11. \A k \in {"offline", "unknown", "observed"} : timer[k] = NoStamp => timer'[k] = NoStamp
  BY <1>6
<1> QED
  BY <1>1, <1>2, <1>7, <1>9, <1>10, <1>11 DEF QuietInv

\* Step 2.5: the slot is given back, or the stamps say as much as before.
LEMMA PassLives ==
  ASSUME LiveTypeOK, QuietInv, Pass
  PROVE  TypesNext /\ QuietInv'
<1>0. /\ timer \in Timer /\ sup \in Sup /\ quiet \in 0 .. Longest /\ Longest \in Nat
      /\ probe \in [live : {"yes", "no", "unknown"}, age : 0 .. Freshness + 1]
      /\ Freshness \in Nat /\ TRUE \in BOOLEAN /\ FALSE \in BOOLEAN
      /\ owned \in BOOLEAN /\ murky \in BOOLEAN
      /\ UNCHANGED <<paused, logged, probe>> /\ due' = FALSE
      /\ quiet' = IF state = "CONNECTED" THEN 0 ELSE quiet
  BY LiveTypes, Bounds, LiveAssumption DEF Pass
<1>1. /\ timer.offline \in Int /\ timer.offline >= -1
      /\ timer.observed \in Int /\ timer.observed >= -1 /\ timer.observed <= Longest
      /\ quiet' \in 0 .. Longest /\ quiet' \in Int
  BY <1>0 DEF Timer, Stamp, NoStamp
<1>2. CASE ~owned
  <2>1. UNCHANGED <<owned, sup, state, timer, murky>>
    BY <1>2 DEF Pass
  <2> QED
    BY <1>0, <1>1, <1>2, <2>1, LiveTypes DEF TypesNext, QuietInv
<1>3. CASE ReleaseSlot
  <2>1. NoTimer \in Timer /\ NoTimer.offline = NoStamp /\ NoTimer.unknown = NoStamp
        /\ NoTimer.observed = NoStamp
    BY <1>0 DEF NoTimer, Timer, Stamp, NoStamp
  <2>2. sup' = NoSup /\ state' = "DISCONNECTED" /\ owned' = FALSE /\ timer' = NoTimer
        /\ murky' = FALSE
    BY <1>3 DEF ReleaseSlot
  <2> QED
    BY <1>0, <1>1, <2>1, <2>2, SupFields, LiveTypes DEF TypesNext, QuietInv, NoSup, Offline
<1>4. ASSUME NEW t \in Timer, NEW m \in BOOLEAN, KeepSlot(t, m), owned,
             t.offline = timer.offline, t.unknown = timer.unknown,
             ~m => ~murky /\ t.observed <= quiet' + Freshness /\ timer.offline <= quiet'
      PROVE  TypesNext /\ QuietInv'
  <2>1. timer' = t /\ murky' = m /\ UNCHANGED <<owned, sup, state>>
    BY <1>4 DEF KeepSlot
  <2> QED
    BY <1>0, <1>1, <1>4, <2>1, LiveTypes DEF TypesNext, QuietInv
<1>5. CASE owned /\ ~StageOne /\ ~StageTwo /\ ~ReleaseSlot
  <2>0. Recycle
    BY <1>5 DEF Pass
  <2>1. ~murky => timer.offline <= quiet'
    BY <1>0, <1>1, <1>5 DEF QuietInv, NoStamp
  <2> DEFINE c == [timer EXCEPT !.observed = NoStamp]
             f == [timer EXCEPT !.observed = FirstOffline]
  <2>2. c \in Timer /\ c.offline = timer.offline /\ c.unknown = timer.unknown
        /\ c.observed <= quiet' + Freshness
    BY <1>0, <1>1 DEF Timer, Stamp, NoStamp
  <2>3. CASE probe.live = "yes"
    <3> DEFINE m == murky \/ probe.age > Freshness
    <3>1. KeepSlot(c, m)
      BY <1>5, <2>0, <2>3 DEF Recycle
    <3>2. m \in BOOLEAN /\ (~m => ~murky)
      BY <1>0, Zenon
    <3> HIDE DEF c, m
    <3> QED
      BY <1>4, <1>5, <2>1, <2>2, <3>1, <3>2
  <2>4. CASE probe.live # "yes" /\ (probe.live = "unknown" \/ probe.age > Freshness)
    <3>1. KeepSlot(timer, TRUE)
      BY <1>5, <2>0, <2>4 DEF Recycle
    <3> QED
      BY <1>0, <1>4, <1>5, <3>1
  <2>5. CASE /\ ~(probe.live = "yes") /\ ~(probe.live = "unknown" \/ probe.age > Freshness)
             /\ state = "CONNECTED"
    <3>1. KeepSlot(c, murky)
      BY <1>5, <2>0, <2>5 DEF Recycle
    <3> HIDE DEF c
    <3> QED
      BY <1>0, <1>4, <1>5, <2>1, <2>2, <3>1
  <2>6. CASE /\ ~(probe.live = "yes") /\ ~(probe.live = "unknown" \/ probe.age > Freshness)
             /\ state # "CONNECTED"
    <3>1. KeepSlot(f, murky) /\ ~(FirstOffline >= Hysteresis)
      BY <1>5, <2>0, <2>6 DEF Recycle
    <3>2. /\ FirstOffline \in Int /\ FirstOffline >= 0 /\ Hysteresis \in Nat /\ Hysteresis <= Longest
          /\ ~murky => FirstOffline <= quiet + Freshness
      <4>1. probe.age \in 0 .. Freshness + 1 /\ ~(probe.age > Freshness)
        BY <1>0, <2>6
      <4>2. CASE timer.observed = NoStamp
        BY <1>0, <4>1, <4>2, Bounds, LiveAssumption DEF FirstOffline
      <4>3. CASE timer.observed # NoStamp
        <5>1. FirstOffline = timer.observed
          BY <4>3 DEF FirstOffline
        <5>2. timer.observed \in Int /\ timer.observed >= 0
          BY <1>1, <4>3 DEF NoStamp
        <5>3. ~murky => timer.observed <= quiet + Freshness
          BY <1>5 DEF QuietInv
        <5>4. Hysteresis \in Nat /\ Hysteresis <= Longest
          BY Bounds, LiveAssumption
        <5> QED
          BY <5>1, <5>2, <5>3, <5>4
      <4> QED
        BY <4>2, <4>3
    <3>3. FirstOffline \in Stamp
      BY <1>0, <3>1, <3>2 DEF Stamp, NoStamp
    <3>4. f \in Timer /\ f.offline = timer.offline /\ f.unknown = timer.unknown
          /\ f.observed = FirstOffline
      BY <1>0, <3>3 DEF Timer
    <3>5. quiet' = quiet
      BY <1>0, <2>6
    <3> HIDE DEF f
    <3> QED
      BY <1>0, <1>4, <1>5, <2>1, <3>1, <3>2, <3>4, <3>5
  <2> QED
    BY <2>3, <2>4, <2>5, <2>6
<1>6. CASE owned /\ (StageOne \/ StageTwo)
  BY <1>3, <1>6 DEF Pass, Recycle
<1> QED
  BY <1>2, <1>3, <1>5, <1>6

LEMMA LiveInitQuiet == LiveInit => QuietInv
BY LiveAssumption DEF LiveInit, QuietInv, NoSup, NoTimer, NoStamp

LEMMA LiveStep == LiveTypeOK /\ QuietInv /\ [LiveNext]_liveVars => LiveTypeOK' /\ QuietInv'
<1> SUFFICES ASSUME LiveTypeOK, QuietInv, LiveNext \/ UNCHANGED liveVars
             PROVE  LiveTypeOK' /\ QuietInv'
  OBVIOUS
<1>1. TypesNext /\ QuietInv'
  <2>1. CASE UNCHANGED liveVars
    BY <2>1, LiveTypes DEF liveVars, TypesNext, QuietInv
  <2> QED
    BY <2>1, SupLives, PassLives, TickLives, SlotLives, ProbeLives DEF LiveNext
<1>2. LiveTypeOK'
  BY <1>1, Zenon DEF LiveTypeOK, TypesNext, Timer
<1> QED
  BY <1>1, <1>2

\* A slot whose answers are definite and fresh is taken no sooner than the
\* hysteresis allows.
LEMMA TakenInTime ==
  ASSUME LocalRelease + Freshness >= Hysteresis, LiveTypeOK, QuietInv,
         Pass, owned, ~owned', ~murky
  PROVE  quiet + Freshness >= Hysteresis
<1>0. /\ quiet \in Nat /\ Freshness \in Nat /\ Hysteresis \in Nat /\ LocalRelease \in Nat
      /\ UnknownRelease \in Nat \ {0}
      /\ timer.offline \in Int /\ timer.observed \in Int /\ timer.unknown = NoStamp
      /\ timer.offline <= quiet /\ timer.observed <= quiet + Freshness
      /\ probe.age \in Nat
  BY LiveTypes, LiveAssumption, Bounds DEF QuietInv, Timer, Stamp, NoStamp
<1>1. Recycle
  BY DEF Pass
<1>2. CASE StageOne
  BY <1>0, <1>2 DEF StageOne
<1>3. ~StageTwo
  BY <1>0 DEF StageTwo, NoStamp
<1>4. CASE ~StageOne
  <2>1. FirstOffline >= Hysteresis /\ ~(probe.age > Freshness)
    BY <1>1, <1>3, <1>4 DEF Recycle, KeepSlot
  <2> QED
    BY <1>0, <2>1 DEF FirstOffline
<1> QED
  BY <1>2, <1>4

\* With definite and fresh answers of the probe at every pass, no slot is taken
\* before the session has been silent for the hysteresis, less the age that an
\* answer may have.  The hypothesis holds of the constants of the code: 600 s
\* and 180 s against 300 s.
THEOREM HysteresisCorrect ==
  ASSUME LocalRelease + Freshness >= Hysteresis
  PROVE  LiveSpec => HysteresisRespected
<1>1. LiveTypeOK /\ QuietInv /\ [LiveNext]_liveVars
        => [Pass /\ owned /\ ~owned' /\ ~murky => quiet + Freshness >= Hysteresis]_liveVars
  BY TakenInTime
<1> QED
  BY <1>1, LiveInitTypes, LiveInitQuiet, LiveStep, PTL DEF LiveSpec, HysteresisRespected

-----------------------------------------------------------------------------
(* The three parts together *)

Inv == LiveTypeOK /\ QuietInv /\ StreamInv /\ Deltas /\ MatchSound

LEMMA PartSteps ==
  [Next]_allVars => [LiveNext]_liveVars /\ [StreamNext]_streamVars /\ [MatchNext]_matchVars
<1>1. UNCHANGED allVars => UNCHANGED liveVars /\ UNCHANGED streamVars /\ UNCHANGED matchVars
  BY DEF allVars
<1>2. Next => /\ LiveNext \/ UNCHANGED liveVars
              /\ StreamNext \/ UNCHANGED streamVars
              /\ MatchNext \/ UNCHANGED matchVars
  BY DEF Next
<1> QED
  BY <1>1, <1>2

\* Whichever part runs, every variable keeps its kind.
THEOREM TiktokTypesCorrect == Spec => []TiktokTypesOK
<1>1. Init => Inv
  BY LiveInitTypes, LiveInitQuiet, StreamInitInv, DeltasInit, MatchTypeInit DEF Init, Inv
<1>2. Inv /\ [Next]_allVars => Inv'
  BY PartSteps, LiveStep, StreamInvStep, DeltasStep, MatchTypeStep DEF Inv
<1>3. Inv => TiktokTypesOK
  BY DEF Inv, TiktokTypesOK, StreamInv, MatchSound
<1> QED
  BY <1>1, <1>2, <1>3, PTL DEF Spec

=============================================================================
