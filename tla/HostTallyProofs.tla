-------------------------- MODULE HostTallyProofs --------------------------
(***************************************************************************)
(* What the totals beside a host's events keep for every set of events,    *)
(* any number of threads, deliveries, hours and harms.                     *)
(***************************************************************************)
EXTENDS HostTally, TLAPS

\* What a transaction holds agrees with itself, in every session that may
\* commit it.
Begun(p) == work[p].at \in {"idle", "room", "viewer", "insert"} => work[p].pend = {}

Whole(p) == LET pend == work[p].pend  about == About[work[p].event] IN
  /\ "summary" \in pend \/ "counts" \in pend \/ "diamonds" \in pend => "event" \in pend
  /\ work[p].at \in {"summary", "hour", "read", "patch"} => "event" \in pend
  /\ about.type = "gift" /\ about.to = "host" /\ "event" \in pend =>
       /\ work[p].at \in {"hour", "read", "patch", "commit"} => "summary" \in pend
       /\ work[p].at \in {"read", "patch", "commit"} => "diamonds" \in pend
  /\ work[p].at \in {"read", "patch", "commit"} /\ "event" \in pend => "counts" \in pend

TotalsInv == ~broken => TotalsAgree /\ \A p \in Persister : Begun(p) /\ Whole(p)

\* While the first hour lasts, whoever reads or patches the cache has the row of
\* the hour, and what he has read is still there.
HourRow == RowOf("hour", 1)

Reading(p) ==
  /\ work[p].began = 1
  /\ work[p].at \in {"read", "patch"} => HourRow \in work[p].held
  /\ work[p].at = "patch" => work[p].seen = live

OneHolder ==
  \A p, q \in Persister : HourRow \in work[p].held /\ HourRow \in work[q].held => p = q

PatchInv ==
  ~broken /\ hour = 1 => live = patched /\ OneHolder /\ \A p \in Persister : Reading(p)

-----------------------------------------------------------------------------
(* Types *)

LEMMA Bounds == Hours \in Nat /\ Hours > 0 /\ Again \in Nat /\ Again > 0 /\ HarmMax \in Nat
BY TallyAssumption

LEMMA NothingType == Nothing \in Tally
BY DEF Nothing, Tally

LEMMA StartedType ==
  ASSUME TallyTypeOK, NEW e \in Incoming, NEW at \in {"idle", "room"}
  PROVE  Started(at, e) \in Work
BY NothingType DEF Started, Work, TallyTypeOK, Statements

LEMMA TallyInitTypes == TallyInit => TallyTypeOK
<1> SUFFICES ASSUME TallyInit PROVE TallyTypeOK
  OBVIOUS
<1>1. (CHOOSE e \in Incoming : TRUE) \in Incoming
  BY TallyAssumption
<1>2. hour = 1 /\ came = Nothing /\ harmed = 0
  BY Zenon DEF TallyInit
<1>3. hour \in 1 .. Hours
  BY <1>2, Bounds
<1>4. \A e \in Incoming : Started("idle", e) \in Work
  BY <1>3, NothingType DEF Started, Work, Statements
<1>5. work \in [Persister -> Work]
  BY <1>1, <1>4 DEF TallyInit
<1>6. came \in [Incoming -> 0 .. Again] /\ harmed \in 0 .. HarmMax
  BY <1>2, Bounds DEF Nothing
<1> QED
  BY <1>3, <1>5, <1>6, NothingType DEF TallyInit, TallyTypeOK

\* A statement keeps the types.
LEMMA ExecuteType ==
  ASSUME TallyTypeOK, NEW p \in Persister, NEW row \in TallyRow, NEW parts \in SUBSET Part,
         NEW next \in Statements \cup {"read"}, Execute(p, row, parts, next)
  PROVE  /\ work' \in [Persister -> Work] /\ harmed' \in 0 .. HarmMax
         /\ orphaned' \subseteq TallyRow /\ broken' \in BOOLEAN
<1>1. work[p] \in Work
  BY DEF TallyTypeOK
<1>2. CASE UNCHANGED <<orphaned, harms>>
            /\ work' = [work EXCEPT ![p].held = @ \cup {row}, ![p].pend = @ \cup parts,
                                    ![p].at = next]
  <2>1. [work[p] EXCEPT !.held = @ \cup {row}, !.pend = @ \cup parts, !.at = next] \in Work
    BY <1>1 DEF Work
  <2> QED
    BY <1>2, <2>1 DEF TallyTypeOK, harms
<1>3. CASE /\ harmed < HarmMax /\ harmed' = harmed + 1 /\ broken' = TRUE
           /\ orphaned' = orphaned \cup {row}
           /\ work' = [work EXCEPT ![p].held = {}, ![p].pend = {}, ![p].at = next]
  <2>1. [work[p] EXCEPT !.held = {}, !.pend = {}, !.at = next] \in Work
    BY <1>1 DEF Work
  <2>2. work' \in [Persister -> Work]
    BY <1>3, <2>1 DEF TallyTypeOK
  <2>3. harmed' \in 0 .. HarmMax
    BY <1>3, TallyAssumption DEF TallyTypeOK
  <2> QED
    BY <1>3, <2>2, <2>3 DEF TallyTypeOK
<1> QED
  BY <1>2, <1>3 DEF Execute

LEMMA GoesType ==
  ASSUME TallyTypeOK, NEW p \in Persister, NEW next \in Statements \cup {"commit"},
         Goes(p, next)
  PROVE  /\ work' \in [Persister -> Work] /\ harmed' \in 0 .. HarmMax
         /\ orphaned' \subseteq TallyRow /\ broken' \in BOOLEAN
<1>1. [work[p] EXCEPT !.at = next] \in Work
  BY DEF TallyTypeOK, Work
<1> QED
  BY <1>1 DEF Goes, TallyTypeOK, harms

LEMMA RemembersType ==
  ASSUME TallyTypeOK, Remembers
  PROVE  profile' \in [row : BOOLEAN, adapter : {"absent", "unknown", "known"}, writing : BOOLEAN]
BY DEF TallyTypeOK, Remembers, Resolved

LEMMA EndsType ==
  ASSUME TallyTypeOK, NEW p \in Persister, Ends(p)
  PROVE  work' \in [Persister -> Work]
<1>1. [work[p] EXCEPT !.at = "idle", !.held = {}, !.pend = {}, !.seen = Nothing] \in Work
  BY NothingType DEF TallyTypeOK, Work
<1> QED
  BY <1>1 DEF Ends, TallyTypeOK

LEMMA RowsTyped ==
  ASSUME TallyTypeOK, NEW p \in Persister
  PROVE  /\ RowOf("room", About[work[p].event].room) \in TallyRow
         /\ RowOf("viewer", About[work[p].event].viewer) \in TallyRow
         /\ RowOf("event", work[p].event) \in TallyRow
         /\ RowOf("summary", About[work[p].event].viewer) \in TallyRow
         /\ RowOf("hour", work[p].began) \in TallyRow
<1>1. work[p].event \in Incoming /\ work[p].began \in 1 .. Hours
  BY DEF TallyTypeOK, Work
<1>2. About[work[p].event] \in Arrival /\ work[p].event \in STRING
  BY <1>1, TallyAssumption
<1> QED
  BY <1>1, <1>2 DEF RowOf, TallyRow, Arrival

LEMMA StatementTypes ==
  ASSUME TallyTypeOK, NEW p \in Persister,
         Begin(p) \/ UpsertRoom(p) \/ UpsertViewer(p) \/ InsertEvent(p) \/ SkipEvent(p)
  PROVE  TallyTypeOK'
<1>1. CASE Begin(p)
  <2>1. PICK e \in Incoming :
          /\ came[e] < IF HasMessageId(e) THEN Again ELSE 1
          /\ came' = [came EXCEPT ![e] = @ + 1]
          /\ work' = [work EXCEPT ![p] = Started("room", e)]
    BY <1>1 DEF Begin
  <2>2. came' \in [Incoming -> 0 .. Again]
    BY <2>1, TallyAssumption DEF TallyTypeOK
  <2>3. work' \in [Persister -> Work]
    BY <2>1, StartedType DEF TallyTypeOK
  <2> QED
    BY <1>1, <2>2, <2>3 DEF Begin, TallyTypeOK, totals, harms
<1>2. CASE UpsertRoom(p)
  BY <1>2, ExecuteType, RowsTyped DEF UpsertRoom, TallyTypeOK, totals, Statements
<1>3. CASE UpsertViewer(p)
  BY <1>3, ExecuteType, RowsTyped DEF UpsertViewer, TallyTypeOK, totals, Statements
<1>4. CASE InsertEvent(p)
  BY <1>4, ExecuteType, RowsTyped DEF InsertEvent, TallyTypeOK, totals, Statements, Part
<1>5. CASE SkipEvent(p)
  BY <1>5, GoesType DEF SkipEvent, AfterReplay, TallyTypeOK, totals
<1> QED
  BY <1>1, <1>2, <1>3, <1>4, <1>5

LEMMA TotalTypes ==
  ASSUME TallyTypeOK, NEW p \in Persister, UpsertSummary(p) \/ BumpHour(p) \/ Commits(p)
  PROVE  TallyTypeOK'
<1>1. CASE UpsertSummary(p)
  <2>1. UNCHANGED profile \/ Remembers
    BY <1>1 DEF UpsertSummary
  <2>2. Goes(p, "hour") \/ Execute(p, RowOf("summary", About[work[p].event].viewer), {"summary"}, "hour")
    BY <1>1 DEF UpsertSummary
  <2>3. /\ work' \in [Persister -> Work] /\ harmed' \in 0 .. HarmMax
        /\ orphaned' \subseteq TallyRow /\ broken' \in BOOLEAN
    BY <2>2, ExecuteType, GoesType, RowsTyped DEF Statements, Part
  <2>4. profile' \in [row : BOOLEAN, adapter : {"absent", "unknown", "known"}, writing : BOOLEAN]
    BY <2>1, RemembersType DEF TallyTypeOK
  <2> QED
    BY <1>1, <2>3, <2>4 DEF UpsertSummary, TallyTypeOK, totals
<1>2. CASE BumpHour(p)
  <2>1. UNCHANGED profile \/ Remembers
    BY <1>2 DEF BumpHour
  <2>2. /\ work' \in [Persister -> Work] /\ harmed' \in 0 .. HarmMax
        /\ orphaned' \subseteq TallyRow /\ broken' \in BOOLEAN
    BY <1>2, ExecuteType, RowsTyped DEF BumpHour, Statements, Part
  <2>3. profile' \in [row : BOOLEAN, adapter : {"absent", "unknown", "known"}, writing : BOOLEAN]
    BY <2>1, RemembersType DEF TallyTypeOK
  <2> QED
    BY <1>2, <2>2, <2>3 DEF BumpHour, TallyTypeOK, totals
<1>3. CASE Commits(p)
  <2>1. \A part \in Part, total \in Tally : Counted(p, part, total) \in Tally
    BY <1>3 DEF Counted, Tally, TallyTypeOK, Work
  <2>2. {events', summary', counts', diamonds'} \subseteq Tally
    BY <1>3, <2>1 DEF Commits, TallyTypeOK, Part
  <2> QED
    BY <1>3, <2>2, EndsType DEF Commits, TallyTypeOK, harms
<1> QED
  BY <1>1, <1>2, <1>3

LEMMA CacheTypes ==
  ASSUME TallyTypeOK, NEW p \in Persister, ReadCache(p) \/ PatchCache(p)
  PROVE  TallyTypeOK'
<1>1. CASE ReadCache(p)
  <2>1. UNCHANGED profile \/ Remembers
    BY <1>1 DEF ReadCache
  <2>2. profile' \in [row : BOOLEAN, adapter : {"absent", "unknown", "known"}, writing : BOOLEAN]
    BY <2>1, RemembersType DEF TallyTypeOK
  <2>3. \A next \in {"commit", "patch"} : [work[p] EXCEPT !.seen = live, !.at = next] \in Work
    BY DEF TallyTypeOK, Work
  <2>4. work' \in [Persister -> Work]
    BY <1>1, <2>3 DEF ReadCache, TallyTypeOK
  <2> QED
    BY <1>1, <2>2, <2>4 DEF ReadCache, TallyTypeOK, totals, harms
<1>2. CASE PatchCache(p)
  <2>1. work[p].seen \in Tally /\ live \in Tally /\ patched \in Tally
    BY DEF TallyTypeOK, Work
  <2>2. live' \in Tally /\ patched' \in Tally
    BY <1>2, <2>1, NothingType DEF PatchCache, Tally
  <2> QED
    BY <1>2, <2>2, GoesType DEF PatchCache, TallyTypeOK, totals
<1> QED
  BY <1>1, <1>2

LEMMA HarmType ==
  ASSUME TallyTypeOK, NEW kind, Harm(kind)
  PROVE  harmed' \in 0 .. HarmMax /\ broken' \in BOOLEAN
BY Bounds DEF Harm, TallyTypeOK

LEMMA FailureTypes ==
  ASSUME TallyTypeOK, NEW p \in Persister, PersistFails(p)
  PROVE  TallyTypeOK'
BY HarmType, EndsType DEF PersistFails, TallyTypeOK, totals

LEMMA OutsideTypes ==
  ASSUME TallyTypeOK,
         WorkerDies \/ Collect \/ ProbeHere \/ ProbeCommits \/ ProbeThere \/ NextHour
  PROVE  TallyTypeOK'
<1>1. CASE WorkerDies
  <2>1. \A q \in Persister :
          [work[q] EXCEPT !.at = "idle", !.held = {}, !.pend = {}, !.seen = Nothing] \in Work
    BY NothingType DEF TallyTypeOK, Work
  <2> QED
    BY HarmType, <1>1, <2>1 DEF WorkerDies, TallyTypeOK, totals
<1>2. CASE Collect
  BY <1>2 DEF Collect, TallyTypeOK, totals, harms
<1>3. CASE ProbeHere \/ ProbeThere
  BY HarmType, <1>3 DEF ProbeHere, ProbeThere, TallyTypeOK, totals
<1>4. CASE ProbeCommits
  BY <1>4 DEF ProbeCommits, TallyTypeOK, totals, harms
<1>5. CASE NextHour
  BY <1>5, Bounds DEF NextHour, TallyTypeOK, totals, harms
<1> QED
  BY <1>1, <1>2, <1>3, <1>4, <1>5

LEMMA TallyStepTypes == TallyTypeOK /\ [TallyNext]_tallyVars => TallyTypeOK'
<1> SUFFICES ASSUME TallyTypeOK, [TallyNext]_tallyVars PROVE TallyTypeOK'
  OBVIOUS
<1>1. CASE UNCHANGED tallyVars
  BY <1>1 DEF tallyVars, TallyTypeOK
<1>2. ASSUME NEW p \in Persister, PersistStep(p) PROVE TallyTypeOK'
  BY <1>2, StatementTypes, TotalTypes, CacheTypes DEF PersistStep
<1>3. ASSUME NEW p \in Persister, PersistFails(p) PROVE TallyTypeOK'
  BY <1>3, FailureTypes
<1>4. CASE WorkerDies \/ Collect \/ ProbeHere \/ ProbeCommits \/ ProbeThere \/ NextHour
  BY <1>4, OutsideTypes
<1> QED
  BY <1>1, <1>2, <1>3, <1>4 DEF TallyNext

\* Every step keeps the kinds of the rows, the threads and the counters.
THEOREM TallyTypeCorrect == TallySpec => []TallyTypeOK
BY TallyInitTypes, TallyStepTypes, PTL DEF TallySpec

-----------------------------------------------------------------------------
(* The totals *)

\* A step that leaves the totals alone keeps them in agreement.
LEMMA TotalsStand ==
  ASSUME TotalsAgree, UNCHANGED totals
  PROVE  TotalsAgree'
BY DEF TotalsAgree, totals

\* What thread p holds after a statement, unless the connection broke.
LEMMA ExecuteAdds ==
  ASSUME TallyTypeOK, NEW p \in Persister, NEW row, NEW parts, NEW next,
         Execute(p, row, parts, next), ~broken'
  PROVE  /\ work'[p].at = next /\ work'[p].pend = work[p].pend \cup parts
         /\ work'[p].held = work[p].held \cup {row} /\ work'[p].seen = work[p].seen
         /\ work'[p].event = work[p].event /\ work'[p].began = work[p].began
         /\ \A q \in Persister \ {p} : work'[q] = work[q]
         /\ orphaned' = orphaned /\ broken' = broken
BY DEF Execute, TallyTypeOK, Work, harms

LEMMA GoesOn ==
  ASSUME TallyTypeOK, NEW p \in Persister, NEW next, Goes(p, next)
  PROVE  /\ work'[p].at = next /\ work'[p].pend = work[p].pend
         /\ work'[p].held = work[p].held /\ work'[p].seen = work[p].seen
         /\ work'[p].event = work[p].event /\ work'[p].began = work[p].began
         /\ \A q \in Persister \ {p} : work'[q] = work[q]
         /\ orphaned' = orphaned /\ broken' = broken
BY DEF Goes, TallyTypeOK, Work, harms

LEMMA EndsEmpty ==
  ASSUME TallyTypeOK, NEW p \in Persister, Ends(p)
  PROVE  /\ work'[p].at = "idle" /\ work'[p].pend = {} /\ work'[p].held = {}
         /\ work'[p].event = work[p].event
         /\ \A q \in Persister \ {p} : work'[q] = work[q]
BY DEF Ends, TallyTypeOK, Work

\* The other threads hold what they held.
LEMMA OthersStand ==
  ASSUME NEW p \in Persister, \A q \in Persister : Begun(q) /\ Whole(q),
         \A q \in Persister \ {p} : work'[q] = work[q], Begun(p)', Whole(p)'
  PROVE  \A q \in Persister : Begun(q)' /\ Whole(q)'
BY DEF Begun, Whole

LEMMA StatementsKeepTotals ==
  ASSUME TallyTypeOK, TotalsInv, NEW p \in Persister, ~broken',
         UpsertRoom(p) \/ UpsertViewer(p) \/ InsertEvent(p) \/ SkipEvent(p)
  PROVE  TotalsInv'
<1>1. ASSUME NEW row, NEW next \in {"viewer", "insert"}, Execute(p, row, {}, next),
             work[p].at \in {"room", "viewer"}, UNCHANGED totals
      PROVE  TotalsInv'
  <2>1. ~broken /\ Begun(p)' /\ Whole(p)'
    BY <1>1, ExecuteAdds DEF TotalsInv, Begun, Whole
  <2> QED
    BY <1>1, <2>1, ExecuteAdds, OthersStand, TotalsStand DEF TotalsInv
<1>4. CASE UpsertRoom(p)
  <2>1. (IF HasMessageId(work[p].event) THEN "viewer" ELSE "insert") \in {"viewer", "insert"}
    OBVIOUS
  <2> QED
    BY <1>1, <1>4, <2>1, Zenon DEF UpsertRoom
<1>5. CASE UpsertViewer(p)
  BY <1>1, <1>5, Zenon DEF UpsertViewer
<1>2. CASE InsertEvent(p)
  <2>1. Execute(p, RowOf("event", work[p].event), {"event"}, "summary") /\ work[p].at = "insert"
    BY <1>2 DEF InsertEvent, Inserts
  <2>2. ~broken /\ Begun(p)' /\ Whole(p)'
    BY <2>1, ExecuteAdds DEF TotalsInv, Begun, Whole
  <2> QED
    BY <1>2, <2>1, <2>2, ExecuteAdds, OthersStand, TotalsStand DEF TotalsInv, InsertEvent
<1>3. CASE SkipEvent(p)
  <2>1. Goes(p, "commit") /\ work[p].at = "insert"
    BY <1>3 DEF SkipEvent, AfterReplay
  <2>2. ~broken /\ Begun(p)' /\ Whole(p)'
    BY <2>1, GoesOn DEF TotalsInv, Begun, Whole
  <2> QED
    BY <1>3, <2>1, <2>2, GoesOn, OthersStand, TotalsStand DEF TotalsInv, SkipEvent
<1> QED
  BY <1>2, <1>3, <1>4, <1>5

LEMMA CountersKeepTotals ==
  ASSUME TallyTypeOK, TotalsInv, NEW p \in Persister, ~broken', UpsertSummary(p) \/ BumpHour(p)
  PROVE  TotalsInv'
<1>1. CASE UpsertSummary(p)
  <2>1. work[p].at = "summary" /\ UNCHANGED totals
    BY <1>1 DEF UpsertSummary
  <2>2. CASE Execute(p, RowOf("summary", About[work[p].event].viewer), {"summary"}, "hour")
             /\ About[work[p].event].type = "gift"
    <3>1. ~broken /\ Begun(p)' /\ Whole(p)'
      BY <2>1, <2>2, ExecuteAdds DEF TotalsInv, Begun, Whole
    <3> QED
      BY <2>1, <2>2, <3>1, ExecuteAdds, OthersStand, TotalsStand DEF TotalsInv
  <2>3. CASE Goes(p, "hour") /\ ~(About[work[p].event].type = "gift" /\ About[work[p].event].to = "host")
    <3>1. ~broken /\ Begun(p)' /\ Whole(p)'
      BY <2>1, <2>3, GoesOn DEF TotalsInv, Begun, Whole
    <3> QED
      BY <2>1, <2>3, <3>1, GoesOn, OthersStand, TotalsStand DEF TotalsInv
  <2> QED
    BY <1>1, <2>2, <2>3 DEF UpsertSummary, ForHost
<1>2. CASE BumpHour(p)
  <2>1. work[p].at = "hour" /\ UNCHANGED totals
    BY <1>2 DEF BumpHour
  <2>2. PICK parts : /\ Execute(p, RowOf("hour", work[p].began), parts, "read")
                     /\ parts \in {{"counts"}, {"counts", "diamonds"}}
                     /\ About[work[p].event].type = "gift" /\ About[work[p].event].to = "host" =>
                          "diamonds" \in parts
    BY <1>2 DEF BumpHour, ForHost
  <2>3. ~broken /\ Begun(p)' /\ Whole(p)'
    BY <2>1, <2>2, ExecuteAdds DEF TotalsInv, Begun, Whole
  <2> QED
    BY <2>1, <2>2, <2>3, ExecuteAdds, OthersStand, TotalsStand DEF TotalsInv
<1> QED
  BY <1>1, <1>2

LEMMA CommitKeepsTotals ==
  ASSUME TallyTypeOK, TotalsInv, NEW p \in Persister, ~broken', Commits(p)
  PROVE  TotalsInv'
<1>1. ~broken /\ Begun(p)' /\ Whole(p)'
  BY EndsEmpty DEF Commits, harms, Begun, Whole
<1>2. \A q \in Persister : Begun(q)' /\ Whole(q)'
  BY <1>1, EndsEmpty, OthersStand DEF Commits, TotalsInv
<1>3. TotalsAgree /\ Whole(p) /\ work[p].at = "commit"
  BY <1>1 DEF TotalsInv, Commits
<1>4. work[p].event \in Incoming /\ work[p].pend \subseteq Part
  BY DEF TallyTypeOK, Work
<1>5. TotalsAgree'
  <2> SUFFICES ASSUME NEW e \in Incoming
               PROVE  /\ counts'[e] = events'[e]
                      /\ summary'[e] <= events'[e] /\ diamonds'[e] <= events'[e]
                      /\ About[e].type = "gift" /\ About[e].to = "host" =>
                           summary'[e] = events'[e] /\ diamonds'[e] = events'[e]
    BY DEF TotalsAgree
  <2>1. /\ events[e] \in Nat /\ summary[e] \in Nat /\ counts[e] \in Nat /\ diamonds[e] \in Nat
        /\ counts[e] = events[e] /\ summary[e] <= events[e] /\ diamonds[e] <= events[e]
        /\ About[e].type = "gift" /\ About[e].to = "host" =>
             summary[e] = events[e] /\ diamonds[e] = events[e]
    BY <1>3 DEF TotalsAgree, TallyTypeOK, Tally
  <2>2. \A part \in Part, total \in Tally :
          Counted(p, part, total)[e] =
            IF part \in work[p].pend /\ e = work[p].event THEN total[e] + 1 ELSE total[e]
    BY <1>4 DEF Counted, Tally
  <2>3. /\ events'[e] = IF "event" \in work[p].pend /\ e = work[p].event THEN events[e] + 1 ELSE events[e]
        /\ summary'[e] = IF "summary" \in work[p].pend /\ e = work[p].event THEN summary[e] + 1 ELSE summary[e]
        /\ counts'[e] = IF "counts" \in work[p].pend /\ e = work[p].event THEN counts[e] + 1 ELSE counts[e]
        /\ diamonds'[e] = IF "diamonds" \in work[p].pend /\ e = work[p].event THEN diamonds[e] + 1 ELSE diamonds[e]
    BY <2>2 DEF Commits, Part, TallyTypeOK
  <2> QED
    BY <1>3, <2>1, <2>3 DEF Whole
<1> QED
  BY <1>1, <1>2, <1>5 DEF TotalsInv

LEMMA CacheKeepsTotals ==
  ASSUME TallyTypeOK, TotalsInv, NEW p \in Persister, ~broken', ReadCache(p) \/ PatchCache(p)
  PROVE  TotalsInv'
<1>1. CASE ReadCache(p)
  <2>1. PICK next \in {"commit", "patch"} : work' = [work EXCEPT ![p].seen = live, ![p].at = next]
    BY <1>1, Zenon DEF ReadCache
  <2>2. /\ work'[p].at = next /\ work'[p].pend = work[p].pend /\ work'[p].event = work[p].event
        /\ \A q \in Persister \ {p} : work'[q] = work[q]
    BY <2>1 DEF TallyTypeOK, Work
  <2>3. ~broken /\ work[p].at = "read" /\ UNCHANGED totals
    BY <1>1 DEF ReadCache, harms
  <2>4. Begun(p)' /\ Whole(p)'
    BY <2>2, <2>3 DEF TotalsInv, Begun, Whole
  <2> QED
    BY <2>2, <2>3, <2>4, OthersStand, TotalsStand DEF TotalsInv
<1>2. CASE PatchCache(p)
  <2>1. Goes(p, "commit") /\ work[p].at = "patch" /\ UNCHANGED totals
    BY <1>2 DEF PatchCache
  <2>2. ~broken /\ Begun(p)' /\ Whole(p)'
    BY <2>1, GoesOn DEF TotalsInv, Begun, Whole
  <2> QED
    BY <2>1, <2>2, GoesOn, OthersStand, TotalsStand DEF TotalsInv
<1> QED
  BY <1>1, <1>2

LEMMA BeginsAndFailuresKeepTotals ==
  ASSUME TallyTypeOK, TotalsInv, NEW p \in Persister, ~broken', Begin(p) \/ PersistFails(p)
  PROVE  TotalsInv'
<1>1. UNCHANGED totals /\ ~broken
  BY DEF Begin, PersistFails, Harm, harms
<1>2. Begun(p)' /\ Whole(p)' /\ \A q \in Persister \ {p} : work'[q] = work[q]
  <2>1. CASE Begin(p)
    BY <2>1 DEF Begin, Started, Begun, Whole, TallyTypeOK
  <2>2. CASE PersistFails(p)
    BY <2>2, EndsEmpty DEF PersistFails, Begun, Whole
  <2> QED
    BY <2>1, <2>2
<1> QED
  BY <1>1, <1>2, OthersStand, TotalsStand DEF TotalsInv

LEMMA OutsideKeepsTotals ==
  ASSUME TallyTypeOK, TotalsInv, ~broken',
         WorkerDies \/ Collect \/ ProbeHere \/ ProbeCommits \/ ProbeThere \/ NextHour
  PROVE  TotalsInv'
<1>1. UNCHANGED totals /\ ~broken
  <2>1. UNCHANGED broken
    BY DEF WorkerDies, Collect, ProbeHere, ProbeCommits, ProbeThere, NextHour, Harm, harms
  <2>2. UNCHANGED totals
    BY Zenon DEF WorkerDies, Collect, ProbeHere, ProbeCommits, ProbeThere, NextHour
  <2> QED
    BY <2>1, <2>2
<1>2. \A q \in Persister : Begun(q)' /\ Whole(q)'
  <2>1. CASE WorkerDies
    <3>1. \A q \in Persister : work'[q].at = "idle" /\ work'[q].pend = {}
      BY <2>1 DEF WorkerDies, TallyTypeOK, Work
    <3> QED
      BY <3>1 DEF Begun, Whole
  <2>2. CASE UNCHANGED work
    BY <1>1, <2>2 DEF TotalsInv, Begun, Whole
  <2> QED
    BY <2>1, <2>2 DEF Collect, ProbeHere, ProbeCommits, ProbeThere, NextHour
<1> QED
  BY <1>1, <1>2, TotalsStand DEF TotalsInv

\* What is kept beside the events never disagrees with them, whatever the number
\* of threads and events, while connections last.
THEOREM TalliesAgreeCorrect == TallySpec => []TalliesAgree
<1>1. TallyInit => TotalsInv
  <2> SUFFICES ASSUME TallyInit PROVE TotalsInv
    OBVIOUS
  <2>1. TotalsAgree
    <3>1. events = Nothing /\ summary = Nothing /\ counts = Nothing /\ diamonds = Nothing
      BY Zenon DEF TallyInit
    <3>2. \A e \in Incoming : Nothing[e] = 0
      BY Zenon DEF Nothing
    <3>3. \A e \in Incoming : events[e] = 0 /\ summary[e] = 0 /\ counts[e] = 0 /\ diamonds[e] = 0
      BY <3>1, <3>2, Zenon
    <3>4. 0 <= 0
      OBVIOUS
    <3>5. \A e \in Incoming :
            /\ counts[e] = events[e] /\ summary[e] = events[e] /\ diamonds[e] = events[e]
            /\ summary[e] <= events[e] /\ diamonds[e] <= events[e]
      BY <3>3, <3>4, Zenon
    <3> QED
      BY <3>5, Zenon DEF TotalsAgree
  <2>2. \A p \in Persister : work[p].at = "idle" /\ work[p].pend = {}
    BY DEF TallyInit, Started
  <2> QED
    BY <2>1, <2>2 DEF TotalsInv, Begun, Whole
<1>2. TallyTypeOK /\ TotalsInv /\ [TallyNext]_tallyVars => TotalsInv'
  <2> SUFFICES ASSUME TallyTypeOK, TotalsInv, [TallyNext]_tallyVars, ~broken' PROVE TotalsInv'
    BY DEF TotalsInv
  <2>1. CASE UNCHANGED tallyVars
    BY <2>1 DEF tallyVars, TotalsInv, TotalsAgree, Begun, Whole
  <2>2. ASSUME NEW p \in Persister, PersistStep(p) \/ PersistFails(p) PROVE TotalsInv'
    BY <2>2, StatementsKeepTotals, CountersKeepTotals, CommitKeepsTotals, CacheKeepsTotals,
       BeginsAndFailuresKeepTotals DEF PersistStep
  <2>3. CASE WorkerDies \/ Collect \/ ProbeHere \/ ProbeCommits \/ ProbeThere \/ NextHour
    BY <2>3, OutsideKeepsTotals
  <2> QED
    BY <2>1, <2>2, <2>3 DEF TallyNext
<1>3. TotalsInv => TalliesAgree
  BY DEF TotalsInv, TalliesAgree
<1> QED
  BY <1>1, <1>2, <1>3, TallyTypeCorrect, PTL DEF TallySpec

-----------------------------------------------------------------------------
(* The cached counters *)

\* Thread p moves, the others and the counters stand: p may come to hold the
\* hour's row only when nobody else does.
LEMMA OthersRead ==
  ASSUME NEW p \in Persister, OneHolder, \A q \in Persister : Reading(q), UNCHANGED live,
         \A q \in Persister \ {p} : work'[q] = work[q], Reading(p)',
         HourRow \in work'[p].held =>
           \A q \in Persister \ {p} : HourRow \notin work[q].held
  PROVE  OneHolder' /\ \A q \in Persister : Reading(q)'
BY DEF OneHolder, Reading, HourRow, RowOf

\* A statement waits for whoever has touched its row.
LEMMA ExecuteReads ==
  ASSUME TallyTypeOK, NEW p \in Persister, NEW row, NEW parts, NEW next,
         Execute(p, row, parts, next), ~broken', OneHolder, \A q \in Persister : Reading(q),
         next = "read" => row = HourRow, next # "patch", UNCHANGED live
  PROVE  OneHolder' /\ \A q \in Persister : Reading(q)'
<1>1. Unlocked(p, row)
  BY DEF Execute
<1>2. Reading(p)'
  BY ExecuteAdds DEF Reading, HourRow, RowOf
<1>3. HourRow \in work'[p].held => \A q \in Persister \ {p} : HourRow \notin work[q].held
  BY <1>1, ExecuteAdds DEF Unlocked, OneHolder, HourRow, RowOf
<1> QED
  BY <1>2, <1>3, ExecuteAdds, OthersRead

LEMMA GoesReads ==
  ASSUME TallyTypeOK, NEW p \in Persister, NEW next, Goes(p, next), next \notin {"read", "patch"},
         OneHolder, \A q \in Persister : Reading(q), UNCHANGED live
  PROVE  OneHolder' /\ \A q \in Persister : Reading(q)'
<1>1. Reading(p)'
  BY GoesOn DEF Reading
<1>2. HourRow \in work'[p].held => \A q \in Persister \ {p} : HourRow \notin work[q].held
  BY GoesOn DEF OneHolder
<1> QED
  BY <1>1, <1>2, GoesOn, OthersRead

LEMMA StatementsKeepPatches ==
  ASSUME TallyTypeOK, PatchInv, NEW p \in Persister, ~broken', hour' = 1,
         UpsertRoom(p) \/ UpsertViewer(p) \/ InsertEvent(p) \/ SkipEvent(p) \/ UpsertSummary(p)
         \/ BumpHour(p)
  PROVE  PatchInv'
<1>1. UNCHANGED <<hour, live, patched>>
  BY Zenon DEF UpsertRoom, UpsertViewer, InsertEvent, SkipEvent, UpsertSummary, BumpHour
<1>2. \/ \E row, parts, next : /\ Execute(p, row, parts, next) /\ next # "patch"
                               /\ next = "read" => row = RowOf("hour", work[p].began)
      \/ \E next : Goes(p, next) /\ next \notin {"read", "patch"}
  <2>0. \A next \in Statements \cup {"commit"} : next # "patch" /\ next # "read"
    BY DEF Statements
  <2>a. {"viewer", "insert", "summary", "hour", "commit"} \subseteq Statements \cup {"commit"}
    BY DEF Statements
  <2>1. CASE UpsertRoom(p)
    <3>1. (IF HasMessageId(work[p].event) THEN "viewer" ELSE "insert") \in {"viewer", "insert"}
      OBVIOUS
    <3> QED
      BY <2>1, <3>1, Zenon DEF UpsertRoom
  <2>2. CASE UpsertViewer(p)
    BY <2>2, <2>0, <2>a, Zenon DEF UpsertViewer
  <2>3. CASE InsertEvent(p)
    BY <2>3, <2>0, <2>a, Zenon DEF InsertEvent
  <2>4. CASE SkipEvent(p)
    BY <2>4, <2>0, <2>a, Zenon DEF SkipEvent, AfterReplay
  <2>5. CASE UpsertSummary(p)
    BY <2>5, <2>0, <2>a, Zenon DEF UpsertSummary
  <2>6. CASE BumpHour(p)
    BY <2>6, Zenon DEF BumpHour
  <2> QED
    BY <2>1, <2>2, <2>3, <2>4, <2>5, <2>6
<1>3. ~broken /\ hour = 1
  BY <1>1, <1>2, ExecuteAdds, GoesOn
<1>4. live = patched /\ OneHolder /\ \A q \in Persister : Reading(q)
  BY <1>3 DEF PatchInv
<1>5. RowOf("hour", work[p].began) = HourRow
  BY <1>4 DEF Reading, HourRow
<1>6. OneHolder' /\ \A q \in Persister : Reading(q)'
  BY <1>1, <1>2, <1>4, <1>5, ExecuteReads, GoesReads
<1> QED
  BY <1>1, <1>4, <1>6 DEF PatchInv

LEMMA CacheKeepsPatches ==
  ASSUME TallyTypeOK, PatchInv, NEW p \in Persister, ~broken', hour' = 1,
         ReadCache(p) \/ PatchCache(p)
  PROVE  PatchInv'
<1>1. ~broken /\ hour = 1
  BY DEF ReadCache, PatchCache, Goes, harms
<1>2. live = patched /\ OneHolder /\ \A q \in Persister : Reading(q)
  BY <1>1 DEF PatchInv
<1>3. CASE ReadCache(p)
  <2>1. PICK next \in {"commit", "patch"} : work' = [work EXCEPT ![p].seen = live, ![p].at = next]
    BY <1>3, Zenon DEF ReadCache
  <2>2. UNCHANGED <<live, patched>> /\ work[p].at = "read"
    BY <1>3 DEF ReadCache
  <2>3. /\ work'[p].at = next /\ work'[p].seen = live /\ work'[p].held = work[p].held
        /\ work'[p].began = work[p].began
        /\ \A q \in Persister \ {p} : work'[q] = work[q]
    BY <2>1 DEF TallyTypeOK, Work
  <2>4. Reading(p)'
    BY <1>2, <2>2, <2>3 DEF Reading
  <2>5. HourRow \in work'[p].held => \A q \in Persister \ {p} : HourRow \notin work[q].held
    BY <1>2, <2>3 DEF OneHolder
  <2>6. OneHolder' /\ \A q \in Persister : Reading(q)'
    BY <1>2, <2>2, <2>3, <2>4, <2>5, OthersRead
  <2> QED
    BY <1>2, <2>2, <2>6 DEF PatchInv
<1>4. CASE PatchCache(p)
  <2>1. Goes(p, "commit") /\ work[p].at = "patch"
    BY <1>4 DEF PatchCache
  <2>2. HourRow \in work[p].held /\ work[p].seen = live
    BY <1>2, <2>1 DEF Reading
  <2>3. \A q \in Persister \ {p} : HourRow \notin work[q].held
    BY <1>2, <2>2 DEF OneHolder
  <2>4. \A q \in Persister \ {p} : work[q].at \notin {"read", "patch"}
    BY <1>2, <2>3 DEF Reading
  <2>5. \A q \in Persister : Reading(q)'
    BY <1>2, <2>1, <2>4, GoesOn DEF Reading
  <2>6. OneHolder'
    BY <1>2, <2>1, GoesOn DEF OneHolder
  <2>7. live' = patched'
    <3>1. CASE About[work[p].event].type = "connected"
      BY <1>4, <3>1 DEF PatchCache
    <3>2. CASE About[work[p].event].type # "connected"
      <4>1. live \in [Incoming -> Nat] /\ patched = live /\ work[p].event \in Incoming
        BY <1>2 DEF TallyTypeOK, Tally, Work
      <4>2. live' = [o \in Incoming |-> IF About[o].type # About[work[p].event].type THEN live[o]
                                        ELSE IF o = work[p].event THEN live[o] + 1 ELSE live[o]]
        BY <1>4, <2>2, <3>2 DEF PatchCache
      <4>3. patched' = [live EXCEPT ![work[p].event] = @ + 1]
        BY <1>4, <3>2, <4>1 DEF PatchCache
      <4> QED
        BY <4>1, <4>2, <4>3
    <3> QED
      BY <3>1, <3>2
  <2> QED
    BY <2>5, <2>6, <2>7 DEF PatchInv
<1> QED
  BY <1>3, <1>4

LEMMA BeginsAndEndsKeepPatches ==
  ASSUME TallyTypeOK, PatchInv, NEW p \in Persister, ~broken', hour' = 1,
         Begin(p) \/ Commits(p) \/ PersistFails(p)
  PROVE  PatchInv'
<1>1. UNCHANGED <<hour, live, patched>> /\ ~broken
  BY DEF Begin, Commits, PersistFails, Harm, harms
<1>2. live = patched /\ OneHolder /\ \A q \in Persister : Reading(q)
  BY <1>1 DEF PatchInv
<1>3. /\ work'[p].at \in {"idle", "room"} /\ work'[p].held = {} /\ work'[p].began = 1
      /\ \A q \in Persister \ {p} : work'[q] = work[q]
  <2>1. CASE Begin(p)
    BY <1>1, <2>1 DEF Begin, Started, TallyTypeOK
  <2>2. CASE Ends(p)
    <3>1. work[p].began = 1
      BY <1>2 DEF Reading
    <3>2. work'[p].began = work[p].began
      BY <2>2 DEF Ends, TallyTypeOK, Work
    <3> QED
      BY <3>1, <3>2, <2>2, EndsEmpty
  <2> QED
    BY <2>1, <2>2 DEF Commits, PersistFails
<1>4. Reading(p)'
  BY <1>3 DEF Reading
<1>5. OneHolder' /\ \A q \in Persister : Reading(q)'
  BY <1>1, <1>2, <1>3, <1>4, OthersRead
<1> QED
  BY <1>1, <1>2, <1>5 DEF PatchInv

LEMMA OutsideKeepsPatches ==
  ASSUME TallyTypeOK, PatchInv, ~broken', hour' = 1,
         WorkerDies \/ Collect \/ ProbeHere \/ ProbeCommits \/ ProbeThere \/ NextHour
  PROVE  PatchInv'
<1>1. CASE WorkerDies
  <2>1. UNCHANGED <<hour, live, patched>> /\ ~broken
    BY <1>1 DEF WorkerDies, Harm
  <2>2. live = patched /\ \A q \in Persister : work[q].began = 1
    BY <2>1 DEF PatchInv, Reading
  <2>3. \A q \in Persister : /\ work'[q].at = "idle" /\ work'[q].held = {}
                             /\ work'[q].began = work[q].began
    BY <1>1 DEF WorkerDies, TallyTypeOK, Work
  <2>4. OneHolder' /\ \A q \in Persister : Reading(q)'
    BY <2>2, <2>3 DEF OneHolder, Reading
  <2> QED
    BY <2>1, <2>2, <2>4 DEF PatchInv
<1>2. CASE Collect \/ ProbeHere \/ ProbeCommits \/ ProbeThere
  <2>1. UNCHANGED <<hour, work, live, patched>>
    BY <1>2, Zenon DEF Collect, ProbeHere, ProbeCommits, ProbeThere
  <2>2. UNCHANGED broken
    BY <1>2 DEF Collect, ProbeHere, ProbeCommits, ProbeThere, Harm, harms
  <2> QED
    BY <2>1, <2>2 DEF PatchInv, OneHolder, Reading, HourRow, RowOf
<1>3. CASE NextHour
  BY <1>3 DEF NextHour, TallyTypeOK
<1> QED
  BY <1>1, <1>2, <1>3

\* Reading the cached counters and writing them back is safe although it is two
\* steps: within the hour the thread holds the hour's row from before the one
\* until after the other.
THEOREM NoPatchLostCorrect == TallySpec => []NoPatchLost
<1>1. TallyInit => PatchInv
  <2> SUFFICES ASSUME TallyInit PROVE PatchInv
    OBVIOUS
  <2>1. \A p \in Persister : work[p].at = "idle" /\ work[p].held = {} /\ work[p].began = 1
    BY DEF TallyInit, Started
  <2>2. live = patched
    BY Zenon DEF TallyInit
  <2> QED
    BY <2>1, <2>2 DEF PatchInv, Reading, OneHolder
<1>2. TallyTypeOK /\ PatchInv /\ [TallyNext]_tallyVars => PatchInv'
  <2> SUFFICES ASSUME TallyTypeOK, PatchInv, [TallyNext]_tallyVars, ~broken', hour' = 1
               PROVE  PatchInv'
    BY DEF PatchInv
  <2>1. CASE UNCHANGED tallyVars
    BY <2>1 DEF tallyVars, PatchInv, OneHolder, Reading, HourRow, RowOf
  <2>2. ASSUME NEW p \in Persister, PersistStep(p) \/ PersistFails(p) PROVE PatchInv'
    BY <2>2, StatementsKeepPatches, CacheKeepsPatches, BeginsAndEndsKeepPatches DEF PersistStep
  <2>3. CASE WorkerDies \/ Collect \/ ProbeHere \/ ProbeCommits \/ ProbeThere \/ NextHour
    BY <2>3, OutsideKeepsPatches
  <2> QED
    BY <2>1, <2>2, <2>3 DEF TallyNext
<1>3. PatchInv => NoPatchLost
  BY DEF PatchInv, NoPatchLost
<1> QED
  BY <1>1, <1>2, <1>3, TallyTypeCorrect, PTL DEF TallySpec
=============================================================================
