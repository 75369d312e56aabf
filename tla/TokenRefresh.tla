---------------------------- MODULE TokenRefresh ----------------------------
(***************************************************************************)
(* A browser's access and refresh tokens: the interceptor of the API       *)
(* client, which refreshes when a request is denied and queues the others; *)
(* the timer of AuthContext, which refreshes before the token expires; the *)
(* re-login dialog; and the server's single-use rotation.                  *)
(*                                                                         *)
(* The tabs of the browser share localStorage.  Requests are served by     *)
(* several API processes, so the check and the rotation of two refreshes   *)
(* interleave.  A refresh token is good when its hash is the stored one.   *)
(***************************************************************************)
EXTENDS Integers

CONSTANTS
  Tab,       \* tabs of the browser
  Fetch,     \* requests of the pages
  tabOf,     \* the tab of each request
  Sessions,  \* bound on the sessions of the browser
  Losses     \* bound on lost answers, hashes not stored and moves of the client

ASSUME RefreshAssumption ==
  /\ Sessions \in Nat \ {0} /\ Losses \in Nat
  /\ tabOf \in [Fetch -> Tab]

VARIABLES
  session,  \* user_sessions.is_active, by session; "none" is not there yet
  hashed,   \* sessions with a hash of a refresh token, not the initial text
  moved,    \* sessions whose client has another address by now
  shelf,    \* localStorage refresh_token
  access,   \* localStorage auth_token: its session, or None
  expired,  \* the access token's lifetime is over
  call,     \* refreshes, by tab and by who asks
  fetch,    \* requests
  dialog,   \* isSessionExpired, by tab
  losses,   \* answers lost, hashes not stored and moves so far
  killed,   \* history: sessions ended because a replay was detected
  spoiled   \* history: sessions with refreshes at once, lost or not stored

refreshVars == <<session, hashed, moved, shelf, access, expired, call, fetch, dialog,
                 losses, killed, spoiled>>

-----------------------------------------------------------------------------
None == 0

Session == 1 .. Sessions

Token == [of : Session, good : BOOLEAN]

Gone == [of |-> None, good |-> FALSE]

Caller == Tab \X {"timer", "interceptor"}

NoCall == [pc |-> "idle", token |-> Gone]

Call == {NoCall} \cup [pc : {"sent", "checked", "answered", "refused"}, token : Token]

\* "lead" has begun the refresh the "queued" wait for; "again" is to be sent
\* once more; "modal" waits for the user.
FetchState == {"none", "denied", "lead", "queued", "again", "modal", "done", "failed"}

RefreshTypeOK ==
  /\ session \in [Session -> {"none", "active", "ended"}]
  /\ hashed \subseteq Session /\ moved \subseteq Session
  /\ shelf \in Token \cup {Gone} /\ access \in {None} \cup Session /\ expired \in BOOLEAN
  /\ call \in [Caller -> Call] /\ fetch \in [Fetch -> FetchState]
  /\ dialog \in [Tab -> BOOLEAN] /\ losses \in 0 .. Losses
  /\ killed \subseteq Session /\ spoiled \subseteq Session

RefreshInit ==
  /\ session = [s \in Session |-> IF s = 1 THEN "active" ELSE "none"]
  /\ hashed = {1} /\ moved = {}
  /\ shelf = [of |-> 1, good |-> TRUE] /\ access = 1 /\ expired = FALSE
  /\ call = [c \in Caller |-> NoCall] /\ fetch = [f \in Fetch |-> "none"]
  /\ dialog = [t \in Tab |-> FALSE]
  /\ losses = 0 /\ killed = {} /\ spoiled = {}

-----------------------------------------------------------------------------
(* Requests of the pages *)

Server == <<session, hashed, moved, killed>>

Browser == <<shelf, access, expired>>

\* get_auth_context: a session that is active, from the address it began at.
Welcome == access # None /\ ~expired /\ session[access] = "active" /\ access \notin moved

SendFetch(f) ==
  /\ fetch[f] \in {"none", "again"}
  /\ fetch' = [fetch EXCEPT ![f] = IF Welcome THEN "done" ELSE "denied"]
  /\ UNCHANGED <<Server, Browser, call, dialog, losses, spoiled>>

Busy(s) == {c \in Caller : call[c] # NoCall /\ call[c].token.of = s}

\* POST /auth/refresh with the token on the shelf.
AskRefresh(c) ==
  /\ call' = [call EXCEPT ![c] = [pc |-> "sent", token |-> shelf]]
  /\ spoiled' = IF Busy(shelf.of) = {} THEN spoiled ELSE spoiled \cup {shelf.of}

Ask(t) == dialog' = [dialog EXCEPT ![t] = TRUE]

\* The interceptor's answer to a 401.
HearDenial(f) ==
  LET t == tabOf[f]
      c == <<t, "interceptor">>
  IN /\ fetch[f] = "denied"
     /\ \/ /\ shelf = Gone
           /\ fetch' = [fetch EXCEPT ![f] = "modal"] /\ Ask(t)
           /\ UNCHANGED <<call, spoiled>>
        \/ /\ shelf # Gone /\ call[c] # NoCall
           /\ fetch' = [fetch EXCEPT ![f] = "queued"]
           /\ UNCHANGED <<call, dialog, spoiled>>
        \/ /\ shelf # Gone /\ call[c] = NoCall
           /\ fetch' = [fetch EXCEPT ![f] = "lead"] /\ AskRefresh(c)
           /\ UNCHANGED dialog
     /\ UNCHANGED <<Server, Browser, losses>>

\* scheduleProactiveRefresh, at 80% of the token's lifetime.
TimerFires(t) ==
  /\ call[<<t, "timer">>] = NoCall /\ access # None /\ ~expired /\ shelf # Gone
  /\ AskRefresh(<<t, "timer">>)
  /\ UNCHANGED <<Server, Browser, fetch, dialog, losses>>

-----------------------------------------------------------------------------
(* refresh_token on the server *)

Becomes(c, pc) ==
  call' = [call EXCEPT ![c] = [pc |-> pc, token |-> [@.token EXCEPT !.good = FALSE]]]

\* A token that is not the stored one ends the session.
CheckToken(c) ==
  LET s == call[c].token.of IN
  /\ call[c].pc = "sent"
  /\ IF session[s] # "active"
       THEN Becomes(c, "refused") /\ UNCHANGED <<session, killed>>
     ELSE IF s \in hashed /\ ~call[c].token.good
       THEN /\ Becomes(c, "refused")
            /\ session' = [session EXCEPT ![s] = "ended"] /\ killed' = killed \cup {s}
     ELSE Becomes(c, "checked") /\ UNCHANGED <<session, killed>>
  /\ UNCHANGED <<Browser, hashed, moved, fetch, dialog, losses, spoiled>>

Spent(token, s) == IF token.of = s THEN [token EXCEPT !.good = FALSE] ELSE token

\* Mutant of Rotated: the hash that is stored is the old one.
RotatedOld(c, s) ==
  /\ call' = [call EXCEPT ![c] = [pc |-> "answered", token |-> [of |-> s, good |-> FALSE]]]
  /\ UNCHANGED <<shelf, hashed>>

\* The new token's hash is stored: every other token of the session is spent.
Rotated(c, s) ==
  /\ call' = [d \in Caller |->
                IF d = c THEN [pc |-> "answered", token |-> [of |-> s, good |-> TRUE]]
                ELSE [call[d] EXCEPT !.token = Spent(@, s)]]
  /\ shelf' = Spent(shelf, s)
  /\ hashed' = hashed \cup {s}

Unrotated(c, s) ==
  /\ call' = [call EXCEPT ![c] = [pc |-> "answered", token |-> [of |-> s, good |-> FALSE]]]
  /\ UNCHANGED <<shelf, hashed>>

Loses(s) ==
  /\ losses < Losses /\ losses' = losses + 1
  /\ spoiled' = spoiled \cup {s}

\* update_session_refresh_token stores nothing when the session has ended, or
\* when the database fails; its answer is not looked at.
RotateToken(c) ==
  LET s == call[c].token.of IN
  /\ call[c].pc = "checked"
  /\ \/ session[s] = "active" /\ Rotated(c, s) /\ UNCHANGED <<losses, spoiled>>
     \/ session[s] = "ended" /\ Unrotated(c, s) /\ UNCHANGED <<losses, spoiled>>
     \/ session[s] = "active" /\ Unrotated(c, s) /\ Loses(s)
  /\ UNCHANGED <<session, moved, killed, access, expired, fetch, dialog>>

-----------------------------------------------------------------------------
(* The answer of a refresh in the browser *)

InTab(t, states) == {f \in Fetch : tabOf[f] = t /\ fetch[f] \in states}

TakeTokens(c) ==
  /\ call[c].pc = "answered"
  /\ shelf' = call[c].token /\ access' = call[c].token.of /\ expired' = FALSE
  /\ call' = [call EXCEPT ![c] = NoCall]
  /\ fetch' = [f \in Fetch |->
                 IF c[2] = "interceptor" /\ f \in InTab(c[1], {"lead", "queued"})
                 THEN "again" ELSE fetch[f]]
  /\ UNCHANGED <<Server, dialog, losses, spoiled>>

\* Mutant of GiveUp: the queue is forgotten.
GiveUpAlone(t) ==
  fetch' = [f \in Fetch |-> IF f \in InTab(t, {"lead"}) THEN "modal" ELSE fetch[f]]

\* The request that has begun the refresh waits for the user, those behind it
\* fail.
GiveUp(t) ==
  fetch' = [f \in Fetch |-> IF f \in InTab(t, {"lead"}) THEN "modal"
                            ELSE IF f \in InTab(t, {"queued"}) THEN "failed"
                            ELSE fetch[f]]

\* A refresh that is refused, or whose answer does not come: the timer drops
\* the tokens, the interceptor keeps them.
LoseTokens(c) ==
  /\ \/ call[c].pc = "refused" /\ UNCHANGED <<losses, spoiled>>
     \/ call[c].pc = "answered" /\ Loses(call[c].token.of)
  /\ call' = [call EXCEPT ![c] = NoCall]
  /\ IF c[2] = "timer"
       THEN shelf' = Gone /\ access' = None /\ expired' = FALSE /\ UNCHANGED fetch
       ELSE GiveUp(c[1]) /\ UNCHANGED <<shelf, access, expired>>
  /\ Ask(c[1])
  /\ UNCHANGED Server

-----------------------------------------------------------------------------
(* The user, and time *)

\* The dialog's login makes a session and sends the waiting requests again.
LoginAgain(t, s) ==
  /\ dialog[t] /\ session[s] = "none"
  /\ session' = [session EXCEPT ![s] = "active"]
  /\ hashed' = hashed \cup {s}
  /\ shelf' = [of |-> s, good |-> TRUE] /\ access' = s /\ expired' = FALSE
  /\ dialog' = [dialog EXCEPT ![t] = FALSE]
  /\ fetch' = [f \in Fetch |-> IF f \in InTab(t, {"modal"}) THEN "again" ELSE fetch[f]]
  /\ UNCHANGED <<moved, call, losses, killed, spoiled>>

\* "Sign out and return to home": the waiting requests fail, and logout ends
\* the session of the access token.
Dismiss(t) ==
  /\ dialog[t]
  /\ session' = IF access = None THEN session ELSE [session EXCEPT ![access] = "ended"]
  /\ shelf' = Gone /\ access' = None /\ expired' = FALSE
  /\ dialog' = [dialog EXCEPT ![t] = FALSE]
  /\ fetch' = [f \in Fetch |-> IF f \in InTab(t, {"modal"}) THEN "failed" ELSE fetch[f]]
  /\ UNCHANGED <<hashed, moved, call, losses, killed, spoiled>>

\* The access token's hour is over; a request that is to be sent again is sent
\* at once.
AccessExpires ==
  /\ access # None /\ \A f \in Fetch : fetch[f] # "again"
  /\ expired' = TRUE
  /\ UNCHANGED <<Server, shelf, access, call, fetch, dialog, losses, spoiled>>

\* The session's day is over.
SessionEnds(s) ==
  /\ session[s] = "active"
  /\ session' = [session EXCEPT ![s] = "ended"]
  /\ UNCHANGED <<hashed, moved, killed, Browser, call, fetch, dialog, losses, spoiled>>

Moves ==
  /\ losses < Losses /\ losses' = losses + 1
  /\ moved' = {s \in Session : session[s] # "none"}
  /\ UNCHANGED <<session, hashed, killed, Browser, call, fetch, dialog, spoiled>>

-----------------------------------------------------------------------------
CallStep(c) == CheckToken(c) \/ RotateToken(c) \/ TakeTokens(c) \/ LoseTokens(c)

FetchStep(f) == SendFetch(f) \/ HearDenial(f)

RefreshNext ==
  \/ \E c \in Caller : CallStep(c)
  \/ \E f \in Fetch : FetchStep(f)
  \/ \E t \in Tab : TimerFires(t) \/ Dismiss(t) \/ \E s \in Session : LoginAgain(t, s)
  \/ AccessExpires \/ Moves \/ \E s \in Session : SessionEnds(s)

RefreshSpec == RefreshInit /\ [][RefreshNext]_refreshVars

\* Every request is answered or times out.
RefreshFairness ==
  /\ \A c \in Caller : WF_refreshVars(CallStep(c))
  /\ \A f \in Fetch : WF_refreshVars(FetchStep(f))

RefreshFairSpec == RefreshSpec /\ RefreshFairness

-----------------------------------------------------------------------------
(* Properties *)

\* A session ends as "replayed" only when two of its refreshes were under way
\* at once, or the answer or the storing of one was lost: over several tabs,
\* processes, logins, logouts and expired tokens.
NoFalseAlarm == killed \subseteq spoiled

\* A request is done, fails or waits for the user in the end, unless the
\* client has moved.
RequestSettles ==
  \A f \in Fetch : fetch[f] = "denied" ~> fetch[f] \in {"done", "failed", "modal"} \/ moved # {}

\* The same of any client.
RequestAlwaysSettles ==
  \A f \in Fetch : fetch[f] = "denied" ~> fetch[f] \in {"done", "failed", "modal"}

\* The queue "prevents parallel refresh races".
NoRefreshRaces == killed = {}
=============================================================================
