------------------------------ MODULE Delivery ------------------------------
(***************************************************************************)
(* What the notification queue promises while no answer is late or lost:   *)
(* a notification that was submitted is held until it comes to one end,    *)
(* and the end is final.  Only one that is still held is ever given to     *)
(* SMTP: what was dead-lettered, reported as failed or lost is not sent    *)
(* afterwards, and what was sent is not sent again, nor dead-lettered.     *)
(***************************************************************************)
EXTENDS Naturals

CONSTANT Msg  \* notifications

VARIABLES
  life,  \* where each notification is
  mail   \* how often SMTP has taken it

deliveryVars == <<life, mail>>

Life == {"new", "held", "sent", "dead", "failed", "lost"}

DeliveryTypeOK == life \in [Msg -> Life] /\ mail \in [Msg -> Nat]

DeliveryInit ==
  /\ life = [m \in Msg |-> "new"]
  /\ mail = [m \in Msg |-> 0]

\* The edges of a notification's life; a process that dies may lose several at
\* once.
Edge == {<<"new", "held">>,     \* the handler submits it
         <<"held", "sent">>,
         <<"held", "dead">>,    \* SMTP refuses it, or its attempts are used up
         <<"held", "failed">>,  \* the handler reports that it could not be sent
         <<"held", "lost">>}

\* SMTP takes a notification as it goes from held to sent, and only then.
Moves(m, to) ==
  /\ to = life[m] \/ <<life[m], to>> \in Edge
  /\ mail'[m] = IF to = "sent" /\ life[m] = "held" THEN mail[m] + 1 ELSE mail[m]

DeliveryNext ==
  /\ life' \in [Msg -> Life]
  /\ mail' \in [Msg -> Nat]
  /\ \A m \in Msg : Moves(m, life'[m])

DeliverySpec == DeliveryInit /\ [][DeliveryNext]_deliveryVars
=============================================================================
