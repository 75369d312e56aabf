----------------------------- MODULE ServicesMC -----------------------------
(***************************************************************************)
(* Small instances of components that do not interact, for their safety    *)
(* properties: an account's access, the support desk (its ticket with the  *)
(* mailbox, and its chat), the totals kept beside a host's events, the     *)
(* ways to sign in, the settings.  A behaviour runs one of them, chosen at *)
(* its beginning, while the others stay as they are.                       *)
(***************************************************************************)
EXTENDS AccountAccess, SupportDesk, HostTally, SignIn, ConfigStore

VARIABLE part

serviceVars == <<part, accessVars, deskVars, tallyVars, signInVars, configVars>>

\* A giver's gifts to the host and to a guest, in two rooms, and the connection.
HostEvents == {"g1", "g2", "c1"}

HostAbout ==
  LET Arrives(type, room, to) == [type |-> type, room |-> room, viewer |-> "giver", to |-> to]
  IN [e \in HostEvents |-> CASE e = "g1" -> Arrives("gift", "r1", "host")
                             [] e = "g2" -> Arrives("gift", "r2", "guest")
                             [] e = "c1" -> Arrives("connected", "r1", "host")]

\* Two identities, at two providers.
ProviderOf == [i \in Identity |-> IF i = "f1" THEN "facebook" ELSE "google"]

ServicesInit ==
  /\ part \in {"access", "ticket", "chat", "tally", "signin", "config"}
  /\ AccessInit /\ DeskInit /\ TallyInit /\ SignInInit /\ ConfigInit
  /\ part # "config" => stored = NoRows /\ \A s \in snaps : s.rows = NoRows

Alone(p) == part = p /\ UNCHANGED part

ServicesNext ==
  \/ /\ Alone("access") /\ AccessNext
     /\ UNCHANGED <<deskVars, tallyVars, signInVars, configVars>>
  \/ /\ Alone("ticket") /\ TicketNext
     /\ UNCHANGED <<accessVars, tallyVars, signInVars, configVars>>
  \/ /\ Alone("chat") /\ ChatNext
     /\ UNCHANGED <<accessVars, tallyVars, signInVars, configVars>>
  \/ /\ Alone("tally") /\ TallyNext
     /\ UNCHANGED <<accessVars, deskVars, signInVars, configVars>>
  \/ /\ Alone("signin") /\ SignInNext
     /\ UNCHANGED <<accessVars, deskVars, tallyVars, configVars>>
  \/ /\ Alone("config") /\ ConfigNext
     /\ UNCHANGED <<accessVars, deskVars, tallyVars, signInVars>>

ServicesSpec == ServicesInit /\ [][ServicesNext]_serviceVars

\* The rows, the handlers, the pollers and the transactions are of their kinds.
ServicesTypesOK ==
  AccessTypeOK /\ DeskTypeOK /\ TallyTypeOK /\ SignInTypeOK /\ ConfigTypeOK
=============================================================================
