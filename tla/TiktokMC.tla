------------------------------ MODULE TiktokMC ------------------------------
(***************************************************************************)
(* Small instances of the components behind a session: its supervisor and  *)
(* slot, the matches and events of its room, the stream of its host's      *)
(* state.  A behaviour runs one of them, chosen at its beginning, while    *)
(* the others stay as they are: a property of one component holds of every *)
(* behaviour here if and only if it holds of the component's own.          *)
(***************************************************************************)
EXTENDS LiveSession, StateStream, MatchTrackerMC

VARIABLE part

allVars == <<part, liveVars, streamVars, matchVars>>

\* What the initial state of a component leaves open is open when it runs.
Init ==
  /\ part \in {"live", "stream", "match"}
  /\ LiveInit /\ StreamInit /\ MatchInit
  /\ part = "match" \/ room[1].kind = "gift"

Alone(p) == part = p /\ UNCHANGED part

Next ==
  \/ Alone("live") /\ LiveNext /\ UNCHANGED <<streamVars, matchVars>>
  \/ Alone("stream") /\ StreamNext /\ UNCHANGED <<liveVars, matchVars>>
  \/ Alone("match") /\ MatchNext /\ UNCHANGED <<liveVars, streamVars>>

\* The fairness of each component, while it runs.
Fairness ==
  /\ WF_liveVars(part = "live" /\ SupStep)
  /\ WF_liveVars(part = "live" /\ Pass)
  /\ WF_liveVars(part = "live" /\ LiveTick)
  /\ SF_liveVars(part = "live" /\ \E r \in {"yes", "no", "unknown"} : ProbeHere(r))
  /\ WF_streamVars(part = "stream" /\ \E v \in unsent : PublishDelta(v))
  /\ WF_streamVars(part = "stream" /\ PumpDelta)
  /\ WF_streamVars(part = "stream" /\ AnswerSnapshot)
  /\ WF_streamVars(part = "stream" /\ Receive)
  /\ WF_streamVars(part = "stream" /\ Open)
  /\ WF_streamVars(part = "stream" /\ Greet)
  /\ \A w \in Threads \cup {Loop} : WF_matchVars(part = "match" /\ (TakeJob(w) \/ JobStep(w)))
  /\ WF_matchVars(part = "match" /\ Silence)
  /\ WF_matchVars(part = "match" /\ CloseOrphans)

Spec == Init /\ [][Next]_allVars /\ Fairness

\* The supervisor, the streams and the matches are of their kinds.
TiktokTypesOK == LiveTypeOK /\ StreamTypeOK /\ MatchTypeOK
=============================================================================
