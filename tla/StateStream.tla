---------------------------- MODULE StateStream ----------------------------
(***************************************************************************)
(* The state of one host, from the patches of the persist path through the *)
(* state cache, its subscriber queue and a WebSocket to the view of one    *)
(* page: versions, deltas, gaps and snapshots.                             *)
(*                                                                         *)
(* A patch is abstracted to its version.  A patch of "_" keys only is kept *)
(* by the cache and not published.  Patches to different keys do not       *)
(* commute into less than all of them, so a view is the set of the         *)
(* published versions it contains.                                         *)
(***************************************************************************)
EXTENDS Integers, Sequences, SequencesExt, FiniteSetsExt

CONSTANTS
  MaxVersion,  \* bound on the patches of a behaviour
  Writers,     \* threads between the two halves of apply_patch
  QueueMax,    \* _SUBSCRIBER_QUEUE_MAXSIZE
  WireMax,     \* frames the socket takes before a send waits
  Disorder     \* what this instance allows; see StreamAssumption

ASSUME StreamAssumption ==
  /\ {MaxVersion, Writers, QueueMax, WireMax} \subseteq Nat \ {0}
  /\ Disorder \subseteq {"reorder",  \* publications overtake each other
                        "close"}    \* the socket closes

VARIABLES
  version, loud,     \* the cache's counter; the versions with something to publish
  unsent,            \* versions applied and not yet published
  feed, dropped,     \* the subscriber's queue and flag
  pump,              \* state_delta_pump: "on", "raised", or "off" without a socket
  wire, asked,       \* frames to the page; requests for a snapshot to the server
  greeting,          \* the page's 50 ms timer after the socket has opened
  view, page         \* the hook's view; what onUpdate was last called with

streamVars == <<version, loud, unsent, feed, dropped, pump, wire, asked, greeting, view, page>>

-----------------------------------------------------------------------------
Version == 1 .. MaxVersion

Unknown == -1  \* no entry in versionByHost

View == [seen    : {Unknown} \cup 0 .. MaxVersion,
         has     : SUBSET Version,  \* summaryByHost
         pending : BOOLEAN,         \* pendingSnapshot
         queue   : SUBSET Version,  \* pendingDeltas
         based   : BOOLEAN]         \* history: a snapshot has been applied

Frame == [type : {"summary-delta", "snapshot"}, version : 0 .. MaxVersion]

StreamTypeOK ==
  /\ version \in 0 .. MaxVersion /\ loud \subseteq Version /\ unsent \subseteq loud
  /\ feed \in Seq(Version) /\ Len(feed) <= QueueMax /\ dropped \in BOOLEAN
  /\ pump \in {"on", "raised", "off"}
  /\ wire \in Seq(Frame) /\ asked \in 0 .. 2 /\ greeting \in BOOLEAN
  /\ view \in View
  /\ page \in [version : 0 .. MaxVersion, has : SUBSET Version]

StreamInit ==
  /\ version = 0 /\ loud = {} /\ unsent = {}
  /\ feed = <<>> /\ dropped = FALSE /\ pump = "off"
  /\ wire = <<>> /\ asked = 0 /\ greeting = FALSE
  /\ view = [seen |-> Unknown, has |-> {}, pending |-> FALSE, queue |-> {}, based |-> FALSE]
  /\ page = [version |-> 0, has |-> {}]

\* What the cache holds for a page at version v.
Content(v) == {u \in loud : u <= v}

-----------------------------------------------------------------------------
(* apply_patch: the merge and the new version under the lock, the          *)
(* publication after it                                                    *)

Socket == <<pump, wire, asked, greeting, view, page>>

Merge(published) ==
  /\ version < MaxVersion
  /\ version' = version + 1
  /\ IF published
       THEN /\ Cardinality(unsent) < Writers
            /\ loud' = loud \cup {version'} /\ unsent' = unsent \cup {version'}
       ELSE UNCHANGED <<loud, unsent>>
  /\ UNCHANGED <<feed, dropped, Socket>>

\* _do_put: a full queue gives up its oldest delta, and the subscriber is
\* dropped.
Enqueue(v) ==
  IF pump # "on" \/ dropped THEN UNCHANGED <<feed, dropped>>
  ELSE IF Len(feed) < QueueMax THEN feed' = Append(feed, v) /\ UNCHANGED dropped
  ELSE feed' = Append(Tail(feed), v) /\ dropped' = TRUE

PublishDelta(v) ==
  /\ v \in unsent
  /\ "reorder" \in Disorder \/ \A u \in unsent : v <= u
  /\ unsent' = unsent \ {v}
  /\ Enqueue(v)
  /\ UNCHANGED <<version, loud, Socket>>

-----------------------------------------------------------------------------
(* The server's side of the socket *)

\* The iterator of subscribe raises instead of yielding the last delta of a
\* dropped subscriber; the pump logs that and ends, and the socket stays.
PumpDelta ==
  /\ pump = "on" /\ feed # <<>> /\ Len(wire) < WireMax
  /\ feed' = Tail(feed)
  /\ IF dropped /\ feed' = <<>>
       THEN pump' = "raised" /\ UNCHANGED wire
       ELSE /\ wire' = Append(wire, [type |-> "summary-delta", version |-> Head(feed)])
            /\ UNCHANGED pump
  /\ UNCHANGED <<version, loud, unsent, dropped, asked, greeting, view, page>>

AnswerSnapshot ==
  /\ asked > 0 /\ Len(wire) < WireMax
  /\ asked' = asked - 1
  /\ wire' = Append(wire, [type |-> "snapshot", version |-> version])
  /\ UNCHANGED <<version, loud, unsent, feed, dropped, pump, greeting, view, page>>

-----------------------------------------------------------------------------
(* The hook useTikTokLivesSocket *)

Open ==
  /\ pump = "off"
  /\ pump' = "on" /\ greeting' = TRUE
  /\ UNCHANGED <<version, loud, unsent, feed, dropped, wire, asked, view, page>>

\* Everything under way is lost; the hook's references stay.
Close ==
  /\ "close" \in Disorder /\ pump # "off"
  /\ pump' = "off" /\ greeting' = FALSE
  /\ feed' = <<>> /\ dropped' = FALSE /\ wire' = <<>> /\ asked' = 0
  /\ UNCHANGED <<version, loud, unsent, view, page>>

\* The timer after the opening asks for the hosts the hook has a version of.
Greet ==
  /\ greeting
  /\ greeting' = FALSE
  /\ IF view.seen = Unknown THEN UNCHANGED <<asked, view>>
     ELSE asked' = asked + 1 /\ view' = [view EXCEPT !.pending = TRUE]
  /\ UNCHANGED <<version, loud, unsent, feed, dropped, pump, wire, page>>

Show(w) == page' = [version |-> w.seen, has |-> w.has]

\* Deltas queued while the snapshot was under way, newer than it.
Late(v) == {u \in view.queue : u > v}

\* Mutant of OnSnapshot: the hook keeps waiting.
OnSnapshotWaits(v) ==
  /\ view' = [view EXCEPT !.seen = v, !.has = Content(v), !.queue = {}, !.based = TRUE]
  /\ page' = [version |-> v, has |-> Content(v)]
  /\ UNCHANGED asked

\* applySnapshot: the queue is drained in the order of the versions; onUpdate
\* is called with the snapshot last.
OnSnapshot(v) ==
  /\ view' = [seen |-> Max(Late(v) \cup {v}), has |-> Content(v) \cup Late(v),
              pending |-> FALSE, queue |-> {}, based |-> TRUE]
  /\ page' = [version |-> v, has |-> Content(v)]
  /\ UNCHANGED asked

Apply(v) == [view EXCEPT !.seen = v, !.has = @ \cup {v}]

\* Mutant of OnDelta: a newer version is taken, whatever came before it.
OnDeltaNewer(v) ==
  IF view.pending THEN view' = [view EXCEPT !.queue = @ \cup {v}] /\ UNCHANGED <<asked, page>>
  ELSE IF v > view.seen THEN view' = Apply(v) /\ Show(Apply(v)) /\ UNCHANGED asked
  ELSE UNCHANGED <<view, asked, page>>

\* handleFrame: the next version is applied, and so is any version of a host
\* that is not known; anything else is a gap.
OnDelta(v) ==
  IF view.pending THEN view' = [view EXCEPT !.queue = @ \cup {v}] /\ UNCHANGED <<asked, page>>
  ELSE IF view.seen \in {Unknown, v - 1}
         THEN view' = Apply(v) /\ Show(Apply(v)) /\ UNCHANGED asked
  ELSE /\ view' = [view EXCEPT !.pending = TRUE, !.queue = @ \cup {v}]
       /\ asked' = asked + 1
       /\ UNCHANGED page

Receive ==
  /\ wire # <<>>
  /\ wire' = Tail(wire)
  /\ LET f == Head(wire) IN
     IF f.type = "snapshot" THEN OnSnapshot(f.version) ELSE OnDelta(f.version)
  /\ UNCHANGED <<version, loud, unsent, feed, dropped, pump, greeting>>

-----------------------------------------------------------------------------
Transport == PumpDelta \/ AnswerSnapshot \/ Receive

StreamNext ==
  \/ \E published \in BOOLEAN : Merge(published)
  \/ \E v \in unsent : PublishDelta(v)
  \/ Transport \/ Open \/ Close \/ Greet

StreamSpec == StreamInit /\ [][StreamNext]_streamVars

\* The threads, the pump, the reader and the page go on.
StreamFairness ==
  /\ WF_streamVars(\E v \in unsent : PublishDelta(v))
  /\ WF_streamVars(PumpDelta) /\ WF_streamVars(AnswerSnapshot)
  /\ WF_streamVars(Receive)
  /\ WF_streamVars(Open) /\ WF_streamVars(Greet)

StreamFairSpec == StreamSpec /\ StreamFairness

-----------------------------------------------------------------------------
(* Properties *)

\* The deltas that are still on their way to the page.
UnderWay == unsent \cup ToSet(feed) \cup {f.version : f \in ToSet(wire)}

\* Once the page has had a snapshot of the host, every published patch up to
\* the version it shows is in its view, still on its way, or behind a snapshot
\* it waits for: over publications that overtake each other, unpublished
\* versions, two snapshots at once and closed sockets.
NothingSkipped ==
  view.based /\ pump = "on" /\ ~dropped /\ ~greeting /\ ~view.pending
    => Content(view.seen) \subseteq view.has \cup UnderWay

\* When the patches stop and the socket and its subscription last, a page that
\* has had a snapshot ends with everything that was published.
CatchesUp ==
  <>[](pump = "on" /\ ~dropped /\ view.based) => <>[](~view.pending /\ view.has = loud)

\* What the page shows is what the hook holds.
PageShowsView == ~view.pending /\ view.based => page.version = view.seen

\* "On connect the hook sends request-snapshot ... so the local state mirrors
\* the cache before any deltas land": a view with a version is complete.
Mirrors ==
  ~view.pending /\ ~greeting /\ view.seen # Unknown /\ UnderWay = {} /\ pump = "on" /\ ~dropped
    => view.has = Content(view.seen)

\* A dropped subscriber "reconnects and requests a fresh snapshot".
DroppedReconnects == (pump = "raised") ~> (pump = "off")
=============================================================================
