--------------------------- MODULE PaymentLedgerMC ---------------------------
(***************************************************************************)
(* Small instances of PaymentLedger, and those of its behaviours in which a *)
(* buyer's capture meets the webhook of the same payment.                  *)
(***************************************************************************)
EXTENDS PaymentLedger
CONSTANTS t1, a1, a2

\* Payments through a provider.
RaceInit == PayInit /\ \A t \in Tx : kind[t] \in {"stripe", "paypal"}

\* The buyer's requests reach the one API process, the provider's the other.
RaceNext ==
  \/ \E t \in Tx : PayPalApproved(t) \/ StripePays(t) \/ BeginCapture(a1, t)
  \/ \E e \in events : BeginWebhook(a2, e)
  \/ \E a \in {a1, a2} : PayStep(a)

RaceSpec == RaceInit /\ [][RaceNext]_payVars
=============================================================================
