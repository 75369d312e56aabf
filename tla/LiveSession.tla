---------------------------- MODULE LiveSession ----------------------------
(***************************************************************************)
(* One creator's session on one worker, and the timers by which the        *)
(* reconcile pass takes the slot away from a creator who is offline.       *)
(*                                                                         *)
(* The supervisor task (_run_forever) connects, waits and connects again;  *)
(* its state callback stamps _local_offline_since; the live scraper stamps *)
(* _probe_unknown_since and writes is_live; step 2.5 of the pass reads all *)
(* three, and stamps _offline_observed_at.  What ListenerPool leaves open  *)
(* (when Recycle happens) is decided here.                                 *)
(*                                                                         *)
(* Time is relative and in ticks: stamps carry their age.  A handshake     *)
(* outlasts at most one tick, a sleep ends when it is due, and at least    *)
(* one pass runs in every tick.                                            *)
(***************************************************************************)
EXTENDS Integers, FiniteSetsExt

CONSTANTS
  Hysteresis,    \* OFFLINE_RELEASE_HYSTERESIS_S
  Freshness,     \* LIVE_STATUS_FRESHNESS_S
  LocalRelease,  \* LOCAL_OFFLINE_RELEASE_S
  UnknownRelease, \* PROBE_UNKNOWN_RELEASE_S
  Initial,       \* INITIAL_BACKOFF
  MaxBackoff,    \* MAX_BACKOFF
  SignInitial,   \* SIGN_RATE_LIMIT_INITIAL_BACKOFF
  SignMax,       \* SIGN_RATE_LIMIT_MAX_BACKOFF
  Park,          \* USER_NOT_FOUND_BACKOFF and AGE_RESTRICTED_INITIAL_BACKOFF
  AgeMax,        \* AGE_RESTRICTED_MAX_BACKOFF
  RampCap,       \* bound on the counts of age-restricted failures in a row
  Trouble        \* the events of the environment this instance allows

TroubleEvents == {"offline", "terminal", "sign", "error", "unknown", "drop", "pause"}

ASSUME LiveAssumption ==
  /\ {Hysteresis, Freshness, LocalRelease, UnknownRelease} \subseteq Nat \ {0}
  /\ {Initial, MaxBackoff, SignInitial, SignMax, Park, AgeMax, RampCap}
       \subseteq Nat \ {0}
  /\ Initial <= MaxBackoff /\ Park <= AgeMax /\ MaxBackoff < LocalRelease
  /\ Trouble \subseteq TroubleEvents

\* Arithmetic that the prover does not know.
ASSUME Doublings == \A n \in 0 .. RampCap : 2 ^ n >= 1

VARIABLES
  owned,   \* the subscription is assigned to this worker
  paused,  \* _paused
  sup,     \* the supervisor task and its local variables
  logged,  \* AgeRestrictedError rows of the log since its last session_start
  state,   \* _states[handle]
  timer,   \* the ages of the three stamps of the handle
  probe,   \* is_live and the age of live_checked_at, in the database
  due,     \* no pass has run in this tick
  quiet,   \* history: ticks since the session started or a pass saw it connected
  murky    \* history: since the last clean slate, the probe did not know or a
           \* pass had no fresh answer, or a session stopped without recycling

liveVars == <<owned, paused, sup, logged, state, timer, probe, due, quiet, murky>>

-----------------------------------------------------------------------------
Longest == Max({LocalRelease, UnknownRelease, Hysteresis})

NoStamp == -1

Stamp == NoStamp .. Longest

Backoff == 1 .. Max({MaxBackoff, SignMax, AgeMax, SignInitial})

Offline == {"DISCONNECTED", "LIVE_ENDED", "ERROR"}

Sup == [pc      : {"none", "connect", "live", "sleep", "watch"},
        wait    : 0 .. Max(Backoff),    \* left of the current sleep or handshake
        backoff : Backoff,
        cap     : Backoff,              \* of the doubling after this sleep; see Sleep
        again   : BOOLEAN,              \* the last read of the watch was positive
        ages    : 0 .. RampCap]         \* _age_restricted_consecutive

LiveTypeOK ==
  /\ {owned, paused, due, murky} \subseteq BOOLEAN
  /\ sup \in Sup /\ logged \in 0 .. RampCap
  /\ state \in Offline \cup {"CONNECTING", "CONNECTED"}
  /\ timer \in [offline : Stamp, unknown : Stamp, observed : Stamp]
  /\ probe \in [live : {"yes", "no", "unknown"}, age : 0 .. Freshness + 1]
  /\ quiet \in 0 .. Longest

NoSup == [pc |-> "none", wait |-> 0, backoff |-> Initial, cap |-> MaxBackoff,
          again |-> FALSE, ages |-> 0]

NoTimer == [offline |-> NoStamp, unknown |-> NoStamp, observed |-> NoStamp]

LiveInit ==
  /\ owned = FALSE /\ paused = FALSE /\ sup = NoSup /\ logged = 0 /\ state = "DISCONNECTED"
  /\ timer = NoTimer /\ probe = [live |-> "unknown", age |-> Freshness + 1]
  /\ due = FALSE /\ quiet = 0 /\ murky = FALSE

-----------------------------------------------------------------------------
(* The state callback and the supervisor *)

\* _handle_state_change_for: the stamp is set on a transition into an offline
\* state and cleared on CONNECTED; CONNECTING does neither.
Stamped(s) ==
  IF s = "CONNECTED" THEN [timer EXCEPT !.offline = NoStamp]
  ELSE IF s \in Offline /\ state \notin Offline THEN [timer EXCEPT !.offline = 0]
  ELSE timer

Notify(s) == state' = s /\ timer' = Stamped(s)

Connecting == [NoSup EXCEPT !.pc = "connect", !.wait = 1]

\* _start_session: the ramp of age-restricted failures is read from the log,
\* the new session logs its start and reports CONNECTING.
StartSession ==
  /\ sup' = [Connecting EXCEPT !.ages = logged] /\ logged' = 0
  /\ Notify("CONNECTING") /\ quiet' = 0

\* asyncio.sleep(b), and the doubling of the backoff that follows it.
Sleep(b, cap) ==
  sup' = [sup EXCEPT !.pc = "sleep", !.wait = b, !.backoff = b, !.cap = cap]

\* Mutant of Doubled: the cap is forgotten.
DoubledUncapped(b, cap) == 2 * b

Doubled(b, cap) == Min({2 * b, cap})

World == <<owned, paused, probe, due, murky, quiet>>

Connected ==
  /\ sup.pc = "connect"
  /\ sup' = [NoSup EXCEPT !.pc = "live"]
  /\ Notify("CONNECTED")
  /\ UNCHANGED <<World, logged>>

\* UserOfflineError, a handshake that times out, no usable session: the
\* watch of the public profile begins.
FoundOffline ==
  /\ "offline" \in Trouble /\ sup.pc = "connect"
  /\ sup' = [sup EXCEPT !.pc = "watch", !.wait = 1, !.again = FALSE]
  /\ Notify("DISCONNECTED")
  /\ UNCHANGED <<World, logged>>

\* UserNotFoundError and AgeRestrictedError: the wait is Park, and for the
\* latter it doubles with every failure in a row.  The loop continues without
\* the doubling that other sleeps end with.
Terminal ==
  /\ "terminal" \in Trouble /\ sup.pc = "connect"
  /\ \/ /\ sup' = [sup EXCEPT !.pc = "sleep", !.wait = Park, !.backoff = Park, !.cap = Park]
        /\ UNCHANGED logged
     \/ LET n == Min({sup.ages + 1, RampCap})
            b == Min({Park * 2 ^ (n - 1), AgeMax})
        IN /\ sup' = [sup EXCEPT !.pc = "sleep", !.wait = b, !.backoff = b,
                                 !.cap = b, !.ages = n]
           /\ logged' = Min({logged + 1, RampCap})
  /\ Notify("ERROR")
  /\ UNCHANGED World

SignLimited ==
  /\ "sign" \in Trouble /\ sup.pc = "connect"
  /\ Sleep(Max({sup.backoff, SignInitial}), SignMax)
  /\ Notify("DISCONNECTED")
  /\ UNCHANGED <<World, logged>>

\* Any other exception of the handshake.
Failed ==
  /\ "error" \in Trouble /\ sup.pc = "connect"
  /\ Sleep(sup.backoff, MaxBackoff)
  /\ Notify("LIVE_ENDED")
  /\ UNCHANGED <<World, logged>>

\* The heartbeat of the connection ends.
Ended ==
  /\ sup.pc = "live"
  /\ Sleep(sup.backoff, MaxBackoff)
  /\ Notify("LIVE_ENDED")
  /\ UNCHANGED <<World, logged>>

Wake ==
  /\ sup.pc = "sleep" /\ sup.wait = 0
  /\ sup' = [sup EXCEPT !.pc = "connect", !.wait = 1,
                        !.backoff = Doubled(@, sup.cap)]
  /\ Notify("CONNECTING")
  /\ UNCHANGED <<World, logged>>

\* _wait_until_live: two positive reads of the profile in a row reconnect.
Watch ==
  /\ sup.pc = "watch" /\ sup.wait = 0
  /\ \/ /\ sup' = [sup EXCEPT !.wait = 1, !.again = FALSE]
        /\ UNCHANGED <<state, timer>>
     \/ /\ ~sup.again /\ sup' = [sup EXCEPT !.wait = 1, !.again = TRUE]
        /\ UNCHANGED <<state, timer>>
     \/ /\ sup.again
        /\ sup' = [Connecting EXCEPT !.ages = sup.ages]
        /\ Notify("CONNECTING")
  /\ UNCHANGED <<World, logged>>

-----------------------------------------------------------------------------
(* The live scraper: of this worker, which has every handle it owns or nobody *)
(* owns among its targets, or of a sibling                                    *)

\* A target was last checked over LIVE_STATUS_TTL_SECONDS ago, a tick, in which
\* a pass has run.
Outdated == probe.age > 0 /\ ~due

ProbeHere(r) ==
  /\ Outdated
  /\ r = "unknown" => "unknown" \in Trouble
  /\ probe' = [live |-> r, age |-> 0]
  /\ timer' = [timer EXCEPT !.unknown =
                 IF r # "unknown" THEN NoStamp ELSE IF @ = NoStamp THEN 0 ELSE @]
  /\ murky' = (murky \/ r = "unknown")
  /\ UNCHANGED <<owned, paused, sup, logged, state, due, quiet>>

ProbeElsewhere(r) ==
  /\ ~owned /\ Outdated
  /\ r = "unknown" => "unknown" \in Trouble
  /\ probe' = [live |-> r, age |-> 0]
  /\ UNCHANGED <<owned, paused, sup, logged, state, timer, due, quiet, murky>>

-----------------------------------------------------------------------------
(* The pool around the session *)

\* Step 3 of a pass claims rows that the probe found live.
ClaimHandle ==
  /\ ~owned /\ ~paused /\ probe.live = "yes"
  /\ owned' = TRUE
  /\ StartSession
  /\ UNCHANGED <<paused, probe, due, murky>>

\* session.stop and _stop_session, which leave the stamps alone.
StopSession ==
  /\ sup' = NoSup
  /\ state' = "DISCONNECTED"
  /\ timer' = IF sup.pc = "none" THEN timer ELSE Stamped("DISCONNECTED")

\* The lease went to a sibling, or the subscription is disabled.
Drop ==
  /\ "drop" \in Trouble /\ owned
  /\ StopSession
  /\ owned' = FALSE /\ murky' = TRUE
  /\ UNCHANGED <<paused, logged, probe, due, quiet>>

\* pause_all stops the session; the pass goes on extending the lease.
PauseAll ==
  /\ "pause" \in Trouble /\ ~paused
  /\ paused' = TRUE /\ StopSession
  /\ murky' = (murky \/ owned)
  /\ UNCHANGED <<owned, logged, probe, due, quiet>>

\* resume_all, and step 2b for the handles the worker still owns.
ResumeAll ==
  /\ paused
  /\ paused' = FALSE
  /\ IF owned THEN StartSession ELSE UNCHANGED <<sup, logged, state, timer, quiet>>
  /\ UNCHANGED <<owned, probe, due, murky>>

-----------------------------------------------------------------------------
(* Step 2.5 of the pass *)

\* _release_slot: the session stops, the row is released, the stamps go.
ReleaseSlot ==
  /\ sup' = NoSup /\ state' = "DISCONNECTED" /\ owned' = FALSE
  /\ timer' = NoTimer /\ murky' = FALSE

KeepSlot(t, m) == timer' = t /\ murky' = m /\ UNCHANGED <<owned, sup, state>>

StageOne == timer.offline >= LocalRelease /\ state # "CONNECTED"

\* Mutant of StageTwo: the cap on unknown answers is dropped.
NoStageTwo == FALSE

StageTwo == timer.unknown >= UnknownRelease /\ state # "CONNECTED"

\* The hysteresis counts from the first time the handle was found offline.
FirstOffline == IF timer.observed = NoStamp THEN probe.age ELSE timer.observed

\* Mutant of Recycle: an answer that the creator is live does not restart the
\* hysteresis.
RecycleForgetsLive ==
  IF StageOne \/ StageTwo THEN ReleaseSlot
  ELSE IF probe.live # "no" \/ probe.age > Freshness
         THEN KeepSlot(timer, murky \/ probe.live = "unknown" \/ probe.age > Freshness)
  ELSE IF state = "CONNECTED" THEN KeepSlot([timer EXCEPT !.observed = NoStamp], murky)
  ELSE IF FirstOffline >= Hysteresis THEN ReleaseSlot
  ELSE KeepSlot([timer EXCEPT !.observed = FirstOffline], murky)

\* The decision for a handle of still_mine, in the order of the code.
Recycle ==
  IF StageOne \/ StageTwo THEN ReleaseSlot
  ELSE IF probe.live = "yes"
         THEN KeepSlot([timer EXCEPT !.observed = NoStamp], murky \/ probe.age > Freshness)
  ELSE IF probe.live = "unknown" \/ probe.age > Freshness THEN KeepSlot(timer, TRUE)
  ELSE IF state = "CONNECTED" THEN KeepSlot([timer EXCEPT !.observed = NoStamp], murky)
  ELSE IF FirstOffline >= Hysteresis THEN ReleaseSlot
  ELSE KeepSlot([timer EXCEPT !.observed = FirstOffline], murky)

Pass ==
  /\ IF owned THEN Recycle ELSE UNCHANGED <<owned, sup, state, timer, murky>>
  /\ quiet' = IF state = "CONNECTED" THEN 0 ELSE quiet
  /\ due' = FALSE
  /\ UNCHANGED <<paused, logged, probe>>

-----------------------------------------------------------------------------
Older(age, bound) == IF age = NoStamp THEN age ELSE Min({age + 1, bound})

LiveTick ==
  /\ ~due
  /\ sup.pc \in {"connect", "sleep", "watch"} => sup.wait > 0
  /\ due' = TRUE
  /\ sup' = [sup EXCEPT !.wait = Max({@ - 1, 0})]
  /\ timer' = [k \in DOMAIN timer |-> Older(timer[k], Longest)]
  /\ probe' = [probe EXCEPT !.age = Older(@, Freshness + 1)]
  /\ quiet' = Older(quiet, Longest)
  /\ UNCHANGED <<owned, paused, logged, state, murky>>

SupStep == \/ Connected \/ FoundOffline \/ Terminal \/ SignLimited \/ Failed
           \/ Ended \/ Wake \/ Watch

LiveNext ==
  \/ SupStep \/ Pass \/ LiveTick
  \/ ClaimHandle \/ Drop \/ PauseAll \/ ResumeAll
  \/ \E r \in {"yes", "no", "unknown"} : ProbeHere(r) \/ ProbeElsewhere(r)

LiveSpec == LiveInit /\ [][LiveNext]_liveVars

\* The tasks of the worker keep running and time passes: a handshake ends, a
\* sleep ends, passes run, and the scraper comes back to every target
\* (the oldest answer first).
LiveFairness ==
  /\ WF_liveVars(SupStep) /\ WF_liveVars(Pass) /\ WF_liveVars(LiveTick)
  /\ SF_liveVars(\E r \in {"yes", "no", "unknown"} : ProbeHere(r))

LiveFairSpec == LiveSpec /\ LiveFairness

-----------------------------------------------------------------------------
(* Properties *)

\* A slot whose session never connects, of a creator the probe never finds
\* live, is given back, whatever mixture of errors, answers and silence the
\* session and the probe meet.
SlotFreed ==
  <>[](~paused /\ state # "CONNECTED" /\ probe.live # "yes") => []<>~owned

\* With answers of the probe that are definite and fresh at every pass,
\* recycling takes a slot only when the session has not been connected for the
\* hysteresis, less the age the first "offline" answer may have had.
HysteresisRespected ==
  [][Pass /\ owned /\ ~owned' /\ ~murky => quiet + Freshness >= Hysteresis]_liveVars

\* Stage 1 frees a slot whose session has not been connected for
\* LocalRelease "continuously".
StageOneContinuous ==
  [][Pass /\ owned /\ ~owned' /\ StageOne => quiet >= LocalRelease]_liveVars

\* Stage 1 frees a slot whose session never connects "regardless of probe".
StageOneFires == <>[](state # "CONNECTED") => []<>~owned

\* Between two attempts after an ordinary error lie at most MAX_BACKOFF.
BackoffBounded == [][Failed => sup'.wait <= MaxBackoff]_liveVars
=============================================================================
