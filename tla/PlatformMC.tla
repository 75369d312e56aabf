----------------------------- MODULE PlatformMC -----------------------------
(***************************************************************************)
(* Small instances of the components of the platform that do not interact: *)
(* a behaviour runs one of them, chosen at its beginning, while the others *)
(* stay as they are.  A property of one component holds of every behaviour *)
(* here if and only if it holds of the component's own.                    *)
(***************************************************************************)
EXTENDS DbRetryMC, PaymentLedgerMC, TokenRefreshMC

VARIABLE part

allVars == <<part, dbVars, payVars, refreshVars>>

\* What the initial state of a component leaves open is open when it runs.
Init ==
  /\ part \in {"db", "pay", "refresh"}
  /\ DbInit /\ PayInit /\ RefreshInit
  /\ part = "db" \/ op.kind = "insert"
  /\ part = "pay" \/ \A t \in Tx : kind[t] = "stripe"

Alone(p) == part = p /\ UNCHANGED part

Next ==
  \/ Alone("db") /\ DbNext /\ UNCHANGED <<payVars, refreshVars>>
  \/ Alone("pay") /\ PayNext /\ UNCHANGED <<dbVars, refreshVars>>
  \/ Alone("refresh") /\ RefreshNext /\ UNCHANGED <<dbVars, payVars>>

\* The fairness of each component, while it runs.
Fairness ==
  /\ \A a \in Api : WF_payVars(part = "pay" /\ PayStep(a))
  /\ \A e \in PayEvent : SF_payVars(part = "pay" /\ \E a \in Api : BeginWebhook(a, e))
  /\ \A c \in Caller : WF_refreshVars(part = "refresh" /\ CallStep(c))
  /\ \A f \in Fetch : WF_refreshVars(part = "refresh" /\ FetchStep(f))

Spec == Init /\ [][Next]_allVars /\ Fairness

\* The statements, the payments and the refreshing tabs are of their kinds.
PlatformTypesOK == DbTypeOK /\ PayTypeOK /\ RefreshTypeOK
=============================================================================
