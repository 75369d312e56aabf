--------------------------- MODULE ServicesProofs ---------------------------
(***************************************************************************)
(* What the support desk keeps for every number of processes, pollers and  *)
(* e-mails: the bound on the reopens, one message per e-mail and poller,   *)
(* one ticket per chat.  Then the services side by side, as ServicesMC     *)
(* runs them, with the lemmas of each.                                     *)
(***************************************************************************)
EXTENDS ServicesMC, AccountProofs, ConfigStoreProofs, HostTallyProofs

\* The counts that requests have in hand, and the one in the row.
Counts == {reopens} \cup {handling[a].saw : a \in {b \in Api : Handles(b, "count")}}

\* What a count lags behind the reopenings is made up for by the overlaps: of
\* requests that are under way together, each but the first is one.
ReopenInv ==
  /\ reopened + Cardinality(Reopening) <= MaxReopens + overlaps
  /\ Reopening = {} => reopened <= reopens + overlaps
  /\ Reopening # {} =>
       \A n \in Counts : reopened + Cardinality(Reopening) <= n + 1 + overlaps

\* A poller has not posted what it still has to; what it has posted is flagged.
MailInv ==
  \A c \in Poller :
    /\ \A m \in Mail : posted[c][m] < 2 /\ (posted[c][m] > 0 => m \in seen)
    /\ polling[c] # Free => \A m \in polling[c].left : posted[c][m] = 0
    /\ polling[c].pc \in {"post", "open"} => polling[c].mail \notin polling[c].left
    /\ polling[c].pc = "post" => posted[c][polling[c].mail] = 0 /\ polling[c].mail \in seen

\* While no conversions overlap and none ends without its link, one is on its
\* way to the only ticket, or the chat has its link.
ChatInv ==
  ~raced =>
    /\ \A a, b \in Converting : a = b
    /\ \A a, b \in made : a = b
    /\ \A a \in Converting : /\ chat.ticket = Unlinked
                             /\ handling[a].pc = "ticket" => made = {}
                             /\ handling[a].pc = "link" => made \subseteq {a}
    /\ Converting = {} /\ made # {} => chat.ticket # Unlinked

-----------------------------------------------------------------------------
(* Types *)

LEMMA DeskInitTypes == DeskInit => DeskTypeOK
<1> SUFFICES ASSUME DeskInit PROVE DeskTypeOK
  OBVIOUS
<1>1. handling \in [Api -> Request] /\ polling \in [Poller -> Poll]
  BY DEF DeskInit, Request, Poll
<1>2. chat \in [status : ChatStatus, ticket : Api \cup {Unlinked}]
  BY DEF DeskInit, ChatStatus
<1>3. posted \in [Poller -> [Mail -> 0 .. 2]] /\ deaths \in 0 .. Deaths
  BY DeskAssumption DEF DeskInit
<1>4. {reopens, reopened} \subseteq Nat /\ overlaps \in 0 .. Overlaps
  BY DeskAssumption DEF DeskInit
<1> QED
  BY <1>1, <1>2, <1>3, <1>4 DEF DeskInit, DeskTypeOK, Status

LEMMA TakeType ==
  ASSUME NEW a \in Api, NEW r \in Request, handling \in [Api -> Request], Take(a, r)
  PROVE  handling' \in [Api -> Request]
BY DEF Take

LEMMA AnswersType ==
  ASSUME NEW a \in Api, handling \in [Api -> Request], Answers(a)
  PROVE  handling' \in [Api -> Request]
BY DEF Answers, Request

LEMMA CountType ==
  ASSUME DeskTypeOK, NEW a \in Api, Handles(a, "count")
  PROVE  handling[a].saw \in Nat /\ handling[a].opens \in BOOLEAN
BY DEF DeskTypeOK, Handles, Request, Free

LEMMA ConvertType ==
  ASSUME DeskTypeOK, NEW a \in Api, a \in Converting
  PROVE  /\ handling[a] \in [pc : {"ticket", "link"}, chat : ChatStatus]
         /\ [handling[a] EXCEPT !.pc = "link"] \in Request
<1>1. handling[a] \in [pc : {"ticket", "link"}, chat : ChatStatus]
  BY DEF DeskTypeOK, Converting, Request, Free
<1> QED
  BY <1>1 DEF Request

LEMMA ApiTypes == ASSUME DeskTypeOK, NEW a \in Api, TicketStep(a) \/ ChatStep(a) \/ Breaks(a)
                  PROVE  DeskTypeOK'
<1>0. handling \in [Api -> Request]
  BY DEF DeskTypeOK
<1>1. \A pc \in {"open", "pending", "reopen", "close", "end"} : [pc |-> pc] \in Request
  BY DEF Request
<1>2. CASE TakeReopen(a) /\ UNCHANGED <<chatVars, mailVars, deaths>>
  <2>1. handling' \in [Api -> Request]
    BY <1>0, <1>1, <1>2, TakeType DEF TakeReopen
  <2>2. overlaps' \in 0 .. Overlaps
    BY <1>2, DeskAssumption DEF TakeReopen, DeskTypeOK
  <2> QED
    BY <1>2, <2>1, <2>2 DEF TakeReopen, DeskTypeOK, chatVars, mailVars
<1>3. CASE /\ \E pc \in {"open", "pending", "close", "end"} : Take(a, [pc |-> pc])
           /\ UNCHANGED <<ticketVars, chatVars, mailVars, deaths>>
  <2>1. handling' \in [Api -> Request]
    BY <1>0, <1>1, <1>3, TakeType
  <2> QED
    BY <1>3, <2>1 DEF DeskTypeOK, ticketVars, countVars, chatVars, mailVars
<1>4. CASE SetStatus(a)
  <2>1. status' \in Status
    BY <1>4 DEF SetStatus, Status, Done
  <2> QED
    BY <1>4, <2>1, AnswersType DEF SetStatus, DeskTypeOK, countVars, chatVars, mailVars
<1>5. CASE ReadCount(a)
  <2>1. [pc |-> "count", saw |-> reopens, opens |-> status # "OPEN"] \in Request
    BY DEF DeskTypeOK, Request
  <2>2. handling' \in [Api -> Request]
    BY <1>0, <1>5, <2>1 DEF ReadCount
  <2> QED
    BY <1>5, <2>2 DEF ReadCount, DeskTypeOK, ticketVars, countVars, chatVars, mailVars
<1>6. CASE ReopenTicket(a)
  <2>1. handling[a].saw \in Nat
    BY <1>6, CountType DEF ReopenTicket
  <2>2. status' \in Status /\ reopens' \in Nat /\ reopened' \in Nat
    BY <1>6, <2>1 DEF ReopenTicket, DeskTypeOK, Status
  <2> QED
    BY <1>6, <2>2, AnswersType DEF ReopenTicket, DeskTypeOK, chatVars, mailVars
<1>7. CASE BeginConvert(a)
  <2>1. [pc |-> "ticket", chat |-> chat.status] \in Request
    BY DEF DeskTypeOK, Request
  <2> QED
    BY <1>7, <2>1, TakeType DEF BeginConvert, DeskTypeOK, ticketVars, countVars, mailVars
<1>8. CASE MakeTicket(a) \/ TicketLost(a)
  <2>1. [handling[a] EXCEPT !.pc = "link"] \in Request
    BY <1>8, ConvertType DEF MakeTicket, TicketLost, Handles, Converting
  <2>2. handling' \in [Api -> Request]
    BY <1>0, <1>8, <2>1 DEF MakeTicket, TicketLost
  <2> QED
    BY <1>8, <2>2 DEF MakeTicket, TicketLost, DeskTypeOK, ticketVars, countVars, chatVars, mailVars
<1>9. CASE LinkTicket(a)
  <2>1. handling[a].chat \in ChatStatus
    BY <1>9, ConvertType DEF LinkTicket, Handles, Converting
  <2>2. chat' \in [status : ChatStatus, ticket : Api \cup {Unlinked}]
    BY <1>9, <2>1 DEF LinkTicket, DeskTypeOK
  <2> QED
    BY <1>9, <2>2, AnswersType DEF LinkTicket, DeskTypeOK, ticketVars, countVars, mailVars
<1>10. CASE EndChat(a)
  <2>1. chat' \in [status : ChatStatus, ticket : Api \cup {Unlinked}]
    BY <1>10 DEF EndChat, DeskTypeOK, ChatStatus
  <2> QED
    BY <1>10, <2>1, AnswersType DEF EndChat, DeskTypeOK, ticketVars, countVars, mailVars
<1>11. CASE WriteLost(a) \/ ApiDies(a)
  <2>1. deaths' \in 0 .. Deaths
    BY <1>11, DeskAssumption DEF WriteLost, ApiDies, DeskTypeOK
  <2> QED
    BY <1>11, <2>1, AnswersType DEF WriteLost, ApiDies, DeskTypeOK, ticketVars, countVars, mailVars
<1>12. UserReplies(a) \/ GuestReplies(a) \/ AgentReplies(a) \/ UserCloses(a) \/ UserReopens(a)
         \/ BeginEnd(a) => DeskTypeOK'
  BY <1>2, <1>3 DEF UserReplies, GuestReplies, AgentReplies, UserCloses, UserReopens, BeginEnd
<1> QED
  BY <1>4, <1>5, <1>6, <1>7, <1>8, <1>9, <1>10, <1>11, <1>12 DEF TicketStep, ChatStep, Breaks

\* The record of a poller that is at work.
LEMMA PollFields ==
  ASSUME NEW p \in Poll
  PROVE  /\ p # Free => p.left \in SUBSET Mail
         /\ p.pc \in {"post", "open"} =>
              p \in [pc : {"post", "open"}, left : SUBSET Mail, mail : Mail, opens : BOOLEAN]
         /\ p.pc \in {"next", "post", "open"} => p # Free
BY DEF Poll, Free

LEMMA StepsType ==
  ASSUME NEW c \in Poller, NEW p \in Poll, polling \in [Poller -> Poll], Steps(c, p)
  PROVE  polling' \in [Poller -> Poll]
BY DEF Steps

LEMMA PollTypes == ASSUME DeskTypeOK, NEW c \in Poller, PollStep(c) PROVE DeskTypeOK'
<1>1. polling[c] \in Poll
  BY DEF DeskTypeOK
<1>2. ASSUME NEW m, polling[c] # Free PROVE Rest(c, m) \in Poll
  BY <1>1, <1>2, PollFields DEF Rest, Poll
<1>3. Free \in Poll
  BY DEF Poll
<1>4. CASE Search(c)
  <2>1. [pc |-> "next", left |-> Mail \ seen] \in Poll
    BY DEF Poll
  <2> QED
    BY <1>4, <2>1, StepsType DEF Search, DeskTypeOK, ticketVars, countVars, chatVars
<1>5. ASSUME NEW m \in Mail, FetchMail(c, m) PROVE DeskTypeOK'
  <2>1. [pc |-> "post", left |-> polling[c].left \ {m}, mail |-> m,
         opens |-> m \in Replies /\ status = "PENDING_CUSTOMER"] \in Poll
    BY <1>1, <1>5, PollFields DEF FetchMail, Poll
  <2>2. Rest(c, m) \in Poll
    BY <1>1, <1>2, <1>5, PollFields DEF FetchMail
  <2>3. polling' \in [Poller -> Poll]
    BY <1>5, <2>1, <2>2, StepsType DEF FetchMail, DeskTypeOK
  <2> QED
    BY <1>5, <2>3 DEF FetchMail, Flagged, DeskTypeOK, ticketVars, countVars, chatVars
<1>6. ASSUME NEW m \in Mail, FetchFails(c, m) PROVE DeskTypeOK'
  BY <1>1, <1>2, <1>6, PollFields, StepsType DEF FetchFails, DeskTypeOK, ticketVars, countVars, chatVars
<1>7. CASE PostMail(c)
  <2>1. polling[c] \in [pc : {"post", "open"}, left : SUBSET Mail, mail : Mail, opens : BOOLEAN]
    BY <1>1, <1>7, PollFields DEF PostMail
  <2>2. [polling[c] EXCEPT !.pc = "open"] \in Poll
    BY <2>1 DEF Poll
  <2>3. Rest(c, polling[c].mail) \in Poll
    BY <1>1, <1>2, <1>7, PollFields DEF PostMail
  <2>4. polling' \in [Poller -> Poll]
    BY <1>7, <2>2, <2>3, StepsType DEF PostMail, DeskTypeOK
  <2>5. polling[c].mail \in Mail
    BY <2>1
  <2>6. posted' \in [Poller -> [Mail -> 0 .. 2]]
    BY <1>7, <2>5 DEF PostMail, DeskTypeOK
  <2> QED
    BY <1>7, <2>4, <2>6 DEF PostMail, DeskTypeOK, ticketVars, countVars, chatVars
<1>8. CASE PostFails(c)
  BY <1>1, <1>2, <1>8, PollFields, StepsType DEF PostFails, DeskTypeOK, ticketVars, countVars, chatVars
<1>9. CASE MailOpens(c)
  BY <1>1, <1>2, <1>9, PollFields, StepsType DEF MailOpens, DeskTypeOK, Status, countVars, chatVars
<1>11. CASE MailLost(c)
  <2>1. polling[c] \in [pc : {"post", "open"}, left : SUBSET Mail, mail : Mail, opens : BOOLEAN]
    BY <1>1, <1>11, PollFields DEF MailLost
  <2>2. [polling[c] EXCEPT !.pc = "open"] \in Poll
    BY <2>1 DEF Poll
  <2>3. Rest(c, polling[c].mail) \in Poll
    BY <1>1, <1>2, <1>11, PollFields DEF MailLost
  <2>4. polling' \in [Poller -> Poll]
    BY <1>11, <2>2, <2>3, StepsType DEF MailLost, DeskTypeOK
  <2> QED
    BY <1>11, <2>4 DEF MailLost, DeskTypeOK, ticketVars, countVars, chatVars
<1>10. CASE EndPoll(c)
  BY <1>3, <1>10, StepsType DEF EndPoll, DeskTypeOK, ticketVars, countVars, chatVars
<1> QED
  BY <1>4, <1>5, <1>6, <1>7, <1>8, <1>9, <1>10, <1>11 DEF PollStep

LEMMA DeskStepTypes == DeskTypeOK /\ [DeskNext]_deskVars => DeskTypeOK'
<1> SUFFICES ASSUME DeskTypeOK, [DeskNext]_deskVars PROVE DeskTypeOK'
  OBVIOUS
<1>1. ASSUME NEW s \in Status, AgentSets(s) PROVE DeskTypeOK'
  BY <1>1 DEF AgentSets, DeskTypeOK, countVars, chatVars, mailVars
<1>2. CASE AgentJoins
  <2>1. chat' \in [status : ChatStatus, ticket : Api \cup {Unlinked}]
    BY <1>2 DEF AgentJoins, DeskTypeOK, ChatStatus
  <2> QED
    BY <1>2, <2>1 DEF AgentJoins, DeskTypeOK, ticketVars, countVars, mailVars
<1>3. CASE UNCHANGED deskVars
  BY <1>3 DEF deskVars, ticketVars, countVars, chatVars, mailVars, DeskTypeOK
<1> QED
  BY <1>1, <1>2, <1>3, ApiTypes, PollTypes DEF DeskNext, TicketNext, ChatNext

-----------------------------------------------------------------------------
(* The reopens *)

LEMMA ReopeningFinite ==
  ASSUME DeskTypeOK
  PROVE  /\ IsFiniteSet(Reopening) /\ Cardinality(Reopening) \in Nat
         /\ Reopening # {} => Cardinality(Reopening) > 0
         /\ Counts \subseteq Nat /\ reopens \in Counts
         /\ {reopened, reopens, overlaps, MaxReopens} \subseteq Nat
<1>1. IsFiniteSet(Reopening)
  BY DeskAssumption, FS_Subset DEF Reopening
<1>2. Cardinality(Reopening) \in Nat /\ (Reopening # {} => Cardinality(Reopening) > 0)
  BY <1>1, FS_CardinalityType, FS_EmptySet
<1>3. Counts \subseteq Nat /\ reopens \in Counts
  BY CountType DEF Counts, DeskTypeOK
<1> QED
  BY <1>1, <1>2, <1>3, DeskAssumption DEF DeskTypeOK

\* A step that begins no reopening and writes no count.
LEMMA ReopenKept ==
  ASSUME DeskTypeOK, ReopenInv, UNCHANGED countVars,
         Reopening' \subseteq Reopening, Counts' \subseteq Counts
  PROVE  ReopenInv'
<1>1. /\ IsFiniteSet(Reopening') /\ Cardinality(Reopening') \in Nat
      /\ Cardinality(Reopening') <= Cardinality(Reopening)
  BY ReopeningFinite, FS_Subset, FS_CardinalityType
<1>2. Reopening' = {} /\ Reopening # {} => reopened <= reopens + overlaps
  BY ReopeningFinite DEF ReopenInv
<1>3. Reopening' # {} => Reopening # {}
  OBVIOUS
<1>4. /\ reopened' = reopened /\ overlaps' = overlaps /\ reopens' = reopens
      /\ {reopened, reopens, overlaps, MaxReopens} \subseteq Nat
      /\ Cardinality(Reopening) \in Nat /\ Counts \subseteq Nat
  BY ReopeningFinite DEF countVars
<1>5. /\ reopened' + Cardinality(Reopening') <= MaxReopens + overlaps'
      /\ Reopening' = {} => reopened' <= reopens' + overlaps'
  BY <1>1, <1>2, <1>4 DEF ReopenInv
<1>6. ASSUME Reopening' # {}, NEW n \in Counts'
      PROVE  reopened' + Cardinality(Reopening') <= n + 1 + overlaps'
  BY <1>1, <1>3, <1>4, <1>6 DEF ReopenInv
<1> QED
  BY <1>5, <1>6 DEF ReopenInv

LEMMA TakeReopening ==
  ASSUME DeskTypeOK, NEW a \in Api, NEW r \in Request, r.pc \notin {"reopen", "count"}, Take(a, r)
  PROVE  Reopening' = Reopening /\ (reopens' = reopens => Counts' = Counts)
<1>1. handling[a] = Free /\ \A b \in Api : handling'[b] = IF b = a THEN r ELSE handling[b]
  BY DEF Take, DeskTypeOK
<1>2. Reopening' = Reopening
  BY <1>1 DEF Reopening, Free
<1>3. {b \in Api : Handles(b, "count")}' = {b \in Api : Handles(b, "count")}
      /\ \A b \in Api : Handles(b, "count") => handling'[b].saw = handling[b].saw
  BY <1>1 DEF Handles, Free
<1> QED
  BY <1>2, <1>3 DEF Counts

LEMMA AnswersReopening ==
  ASSUME DeskTypeOK, NEW a \in Api, Answers(a)
  PROVE  /\ Reopening' = Reopening \ {a}
         /\ Counts' \subseteq {reopens'} \cup Counts
<1>1. \A b \in Api : handling'[b] = IF b = a THEN Free ELSE handling[b]
  BY DEF Answers, DeskTypeOK
<1>2. Reopening' = Reopening \ {a}
  BY <1>1 DEF Reopening, Free
<1>3. \A b \in Api : Handles(b, "count")' => Handles(b, "count") /\ handling'[b] = handling[b]
  BY <1>1 DEF Handles, Free
<1> QED
  BY <1>2, <1>3 DEF Counts

\* A request that is let in: alone, after a count below the cap, or as one more
\* that overlaps.
LEMMA ReopenBegins ==
  ASSUME DeskTypeOK, ReopenInv, NEW a \in Api, TakeReopen(a)
  PROVE  ReopenInv'
<1>1. /\ handling[a] = Free /\ reopens < MaxReopens /\ UNCHANGED <<reopens, reopened>>
      /\ overlaps' = IF Reopening = {} THEN overlaps ELSE overlaps + 1
      /\ \A b \in Api : handling'[b] = IF b = a THEN [pc |-> "reopen"] ELSE handling[b]
  BY DEF TakeReopen, Reopenable, Take, DeskTypeOK
<1>2. Reopening' = Reopening \cup {a} /\ a \notin Reopening
  BY <1>1 DEF Reopening, Free
<1>3. Cardinality(Reopening') = Cardinality(Reopening) + 1
  BY <1>2, ReopeningFinite, FS_AddElement
<1>4. \A b \in Api : Handles(b, "count")' => Handles(b, "count") /\ handling'[b] = handling[b]
  BY <1>1 DEF Handles
<1>5. Counts' \subseteq Counts
  BY <1>1, <1>4 DEF Counts
<1>6. CASE Reopening = {}
  <2>1. Cardinality(Reopening') = 1
    BY <1>3, <1>6, FS_EmptySet
  <2>2. \A b \in Api : ~Handles(b, "count")
    BY <1>6 DEF Reopening, Handles
  <2>3. Counts' = {reopens}
    BY <1>1, <1>4, <2>2 DEF Counts
  <2> QED
    BY <1>1, <1>2, <1>6, <2>1, <2>3, ReopeningFinite DEF ReopenInv
<1>7. CASE Reopening # {}
  <2>1. \A n \in Counts' : reopened' + Cardinality(Reopening') <= n + 1 + overlaps'
    BY <1>1, <1>3, <1>5, <1>7, ReopeningFinite DEF ReopenInv
  <2>2. reopened' + Cardinality(Reopening') <= MaxReopens + overlaps'
    BY <1>1, <1>3, <1>7, ReopeningFinite DEF ReopenInv
  <2> QED
    BY <1>2, <2>1, <2>2 DEF ReopenInv
<1> QED
  BY <1>6, <1>7

\* A request reads the count of the row.
LEMMA ReopenReads ==
  ASSUME DeskTypeOK, ReopenInv, NEW a \in Api, ReadCount(a)
  PROVE  ReopenInv'
<1>1. /\ handling[a].pc = "reopen" /\ UNCHANGED countVars
      /\ handling' = [handling EXCEPT ![a] =
                       [pc |-> "count", saw |-> reopens, opens |-> status # "OPEN"]]
  BY DEF ReadCount, Handles, ticketVars
<1>2. /\ handling'[a].pc = "count" /\ handling'[a].saw = reopens
      /\ \A b \in Api : b # a => handling'[b] = handling[b]
  BY <1>1 DEF DeskTypeOK
<1>3. Reopening' = Reopening
  BY <1>1, <1>2 DEF Reopening
<1>4. Counts' \subseteq Counts
  BY <1>1, <1>2 DEF Counts, Handles, countVars
<1> QED
  BY <1>1, <1>3, <1>4, ReopenKept

\* A request writes the count it has read, and one.
LEMMA ReopenWrites ==
  ASSUME DeskTypeOK, ReopenInv, NEW a \in Api, ReopenTicket(a)
  PROVE  ReopenInv'
<1> DEFINE n == handling[a].saw
<1>1. /\ a \in Reopening /\ n \in Counts /\ UNCHANGED overlaps
      /\ reopens' = n + 1 /\ reopened' = reopened + 1
  BY DEF ReopenTicket, Reopening, Counts, Handles
<1>2. Reopening' = Reopening \ {a} /\ Counts' \subseteq {n + 1} \cup Counts
  BY <1>1, AnswersReopening DEF ReopenTicket
<1>3. Cardinality(Reopening') = Cardinality(Reopening) - 1
  BY <1>1, <1>2, ReopeningFinite, FS_RemoveElement
<1>4. \A m \in Counts : reopened + Cardinality(Reopening) <= m + 1 + overlaps
  BY <1>1 DEF ReopenInv
<1>5. n \in Nat /\ Cardinality(Reopening) \in Nat /\ {reopened, overlaps, MaxReopens} \subseteq Nat
  BY <1>1, ReopeningFinite
<1> HIDE DEF n
<1>6. Reopening' = {} => Cardinality(Reopening) = 1
  BY <1>3, <1>5, FS_EmptySet
<1>7. /\ reopened' + Cardinality(Reopening') <= MaxReopens + overlaps'
      /\ Reopening' = {} => reopened' <= reopens' + overlaps'
  BY <1>1, <1>3, <1>4, <1>5, <1>6 DEF ReopenInv
<1>8. \A m \in Counts' : reopened' + Cardinality(Reopening') <= m + 1 + overlaps'
  <2>1. \A m \in Counts : reopened' + Cardinality(Reopening') <= m + 1 + overlaps'
    BY <1>1, <1>3, <1>4, <1>5, ReopeningFinite
  <2>2. reopened' + Cardinality(Reopening') <= (n + 1) + 1 + overlaps'
    BY <1>1, <2>1, <1>5, <1>3
  <2> QED
    BY <1>2, <2>1, <2>2
<1> QED
  BY <1>7, <1>8 DEF ReopenInv

LEMMA ApiReopens ==
  ASSUME DeskTypeOK, ReopenInv, NEW a \in Api, TicketStep(a) \/ ChatStep(a) \/ Breaks(a)
  PROVE  ReopenInv'
<1>1. ASSUME NEW r \in Request, r.pc \notin {"reopen", "count"}, Take(a, r), UNCHANGED countVars
      PROVE  ReopenInv'
  BY <1>1, TakeReopening, ReopenKept DEF countVars
<1>2. /\ \A pc \in {"open", "pending", "close", "end"} :
           [pc |-> pc] \in Request /\ [pc |-> pc].pc \notin {"reopen", "count"}
      /\ [pc |-> "ticket", chat |-> chat.status] \in Request
      /\ [pc |-> "ticket", chat |-> chat.status].pc \notin {"reopen", "count"}
  BY DEF DeskTypeOK, Request
<1>3. CASE UserReplies(a) \/ GuestReplies(a) \/ AgentReplies(a) \/ UserCloses(a)
           \/ UserReopens(a) \/ BeginEnd(a) \/ BeginConvert(a)
  BY <1>1, <1>2, <1>3, ReopenBegins
     DEF UserReplies, GuestReplies, AgentReplies, UserCloses, UserReopens, BeginEnd, BeginConvert,
         ticketVars
<1>4. CASE SetStatus(a) \/ LinkTicket(a) \/ EndChat(a) \/ WriteLost(a) \/ ApiDies(a)
  <2>1. Answers(a) /\ UNCHANGED countVars
    BY <1>4 DEF SetStatus, LinkTicket, EndChat, WriteLost, ApiDies, ticketVars
  <2>2. Reopening' \subseteq Reopening /\ Counts' \subseteq Counts
    BY <2>1, AnswersReopening, ReopeningFinite DEF countVars
  <2> QED
    BY <2>1, <2>2, ReopenKept
<1>5. CASE MakeTicket(a) \/ TicketLost(a)
  <2>1. handling[a] \in [pc : {"ticket", "link"}, chat : ChatStatus] /\ UNCHANGED countVars
    BY <1>5, ConvertType DEF MakeTicket, TicketLost, Handles, Converting, ticketVars
  <2>2. handling'[a].pc = "link" /\ \A b \in Api \ {a} : handling'[b] = handling[b]
    BY <1>5, <2>1 DEF MakeTicket, TicketLost, DeskTypeOK
  <2>3. Reopening' \subseteq Reopening
    BY <2>2 DEF Reopening
  <2>4. Counts' \subseteq Counts
    BY <2>1, <2>2 DEF Counts, Handles, countVars
  <2> QED
    BY <2>1, <2>3, <2>4, ReopenKept
<1> QED
  BY <1>3, <1>4, <1>5, ReopenReads, ReopenWrites DEF TicketStep, ChatStep, Breaks

LEMMA DeskStepReopens == DeskTypeOK /\ ReopenInv /\ [DeskNext]_deskVars => ReopenInv'
<1> SUFFICES ASSUME DeskTypeOK, ReopenInv, [DeskNext]_deskVars PROVE ReopenInv'
  OBVIOUS
<1>1. ASSUME handling' = handling, UNCHANGED countVars PROVE ReopenInv'
  <2>1. Reopening' = Reopening /\ Counts' = Counts
    BY <1>1 DEF Reopening, Counts, Handles, countVars
  <2> QED
    BY <1>1, <2>1, ReopenKept
<1>2. ASSUME NEW c \in Poller, PollStep(c) PROVE handling' = handling /\ UNCHANGED countVars
  BY <1>2 DEF PollStep, Search, FetchMail, FetchFails, PostMail, PostFails, MailOpens, MailLost,
              EndPoll, ticketVars
<1>3. ASSUME NEW s \in Status, AgentSets(s) PROVE handling' = handling /\ UNCHANGED countVars
  BY <1>3 DEF AgentSets
<1>4. AgentJoins => handling' = handling /\ UNCHANGED countVars
  BY DEF AgentJoins, ticketVars
<1>5. UNCHANGED deskVars => handling' = handling /\ UNCHANGED countVars
  BY DEF deskVars, ticketVars
<1> QED
  BY <1>1, <1>2, <1>3, <1>4, <1>5, ApiReopens DEF DeskNext, TicketNext, ChatNext

-----------------------------------------------------------------------------
(* The mailbox *)

\* What holds of poller c alone.
MailInvOf(c) ==
  /\ \A m \in Mail : posted[c][m] < 2 /\ (posted[c][m] > 0 => m \in seen)
  /\ polling[c] # Free => \A m \in polling[c].left : posted[c][m] = 0
  /\ polling[c].pc \in {"post", "open"} => polling[c].mail \notin polling[c].left
  /\ polling[c].pc = "post" => posted[c][polling[c].mail] = 0 /\ polling[c].mail \in seen

\* The other pollers only see more messages flagged.
LEMMA OtherPollers ==
  ASSUME NEW d \in Poller, MailInvOf(d),
         polling'[d] = polling[d], posted'[d] = posted[d], seen \subseteq seen'
  PROVE  MailInvOf(d)'
BY DEF MailInvOf

LEMMA PollMail ==
  ASSUME DeskTypeOK, NEW c \in Poller, MailInvOf(c), PollStep(c)
  PROVE  MailInvOf(c)'
<1>1. polling[c] \in Poll /\ posted[c] \in [Mail -> 0 .. 2] /\ polling \in [Poller -> Poll]
  BY DEF DeskTypeOK
<1>2. polling[c].pc \in {"next", "post", "open"} => polling[c] # Free /\ polling[c].left \subseteq Mail
  BY <1>1, PollFields
<1>3. ASSUME NEW p, Steps(c, p) PROVE polling'[c] = p
  BY <1>1, <1>3 DEF Steps
<1>4. CASE Search(c)
  <2>1. polling'[c] = [pc |-> "next", left |-> Mail \ seen] /\ UNCHANGED <<seen, posted>>
    BY <1>3, <1>4 DEF Search
  <2>2. \A m \in Mail \ seen : posted[c][m] = 0
    BY <1>1 DEF MailInvOf
  <2> QED
    BY <2>1, <2>2 DEF MailInvOf
<1>5. ASSUME NEW m \in Mail, FetchMail(c, m) PROVE MailInvOf(c)'
  <2>1. /\ m \in polling[c].left /\ seen' = seen \cup {m} /\ posted' = posted
        /\ posted[c][m] = 0 /\ \A n \in polling[c].left : posted[c][n] = 0
    BY <1>2, <1>5 DEF FetchMail, Flagged, MailInvOf
  <2>2. CASE polling'[c] = [pc |-> "post", left |-> polling[c].left \ {m}, mail |-> m,
                            opens |-> m \in Replies /\ status = "PENDING_CUSTOMER"]
    BY <2>1, <2>2 DEF MailInvOf
  <2>3. CASE polling'[c] = Rest(c, m)
    BY <2>1, <2>3 DEF MailInvOf, Rest
  <2> QED
    BY <1>3, <1>5, <2>2, <2>3 DEF FetchMail
<1>6. ASSUME NEW m \in Mail, Steps(c, Rest(c, m)), UNCHANGED <<seen, posted>>, polling[c] # Free
      PROVE MailInvOf(c)'
  <2>1. polling'[c] = Rest(c, m)
    BY <1>3, <1>6
  <2> QED
    BY <1>6, <2>1 DEF MailInvOf, Rest
<1>7. ASSUME NEW m \in Mail, FetchFails(c, m) PROVE MailInvOf(c)'
  BY <1>2, <1>6, <1>7 DEF FetchFails
<1>8. CASE PostMail(c)
  <2>1. /\ polling[c] \in [pc : {"post", "open"}, left : SUBSET Mail, mail : Mail, opens : BOOLEAN]
        /\ polling[c].pc = "post" /\ posted[c][polling[c].mail] = 0
    BY <1>1, <1>8, PollFields DEF PostMail, MailInvOf
  <2> DEFINE m == polling[c].mail
  <2>2. m \in Mail /\ m \in seen /\ m \notin polling[c].left
    BY <2>1 DEF MailInvOf
  <2>3. posted'[c] = [posted[c] EXCEPT ![m] = 1] /\ seen' = seen
    BY <1>1, <1>8, <2>1, <2>2 DEF PostMail, DeskTypeOK
  <2>4. /\ posted'[c][m] = 1 /\ \A n \in Mail \ {m} : posted'[c][n] = posted[c][n]
    BY <1>1, <2>2, <2>3
  <2>5. /\ polling'[c] # Free => polling'[c].left \subseteq polling[c].left
        /\ polling'[c].pc \in {"post", "open"} => polling'[c].mail = m
        /\ polling'[c].pc # "post"
    <3>1. CASE polling[c].opens
      <4>1. polling'[c] = [polling[c] EXCEPT !.pc = "open"]
        BY <1>3, <1>8, <3>1 DEF PostMail
      <4> QED
        BY <2>1, <4>1
    <3>2. CASE ~polling[c].opens
      <4>1. polling'[c] = Rest(c, m)
        BY <1>3, <1>8, <3>2 DEF PostMail
      <4> QED
        BY <4>1 DEF Rest
    <3> QED
      BY <3>1, <3>2
  <2>6. \A n \in Mail : posted'[c][n] < 2 /\ (posted'[c][n] > 0 => n \in seen')
    BY <2>2, <2>3, <2>4 DEF MailInvOf
  <2>7. polling'[c] # Free => \A n \in polling'[c].left : posted'[c][n] = 0
    <3>1. \A n \in polling[c].left : n \in Mail \ {m} /\ posted[c][n] = 0
      BY <1>2, <2>1, <2>2 DEF MailInvOf
    <3> QED
      BY <2>4, <2>5, <3>1
  <2>8. polling'[c].pc \in {"post", "open"} => polling'[c].mail \notin polling'[c].left
    <3>1. polling'[c].pc \in {"post", "open"} => polling'[c] # Free
      BY DEF Free
    <3> QED
      BY <2>2, <2>5, <3>1
  <2> QED
    BY <2>5, <2>6, <2>7, <2>8 DEF MailInvOf
<1>9. CASE PostFails(c) \/ MailOpens(c)
  <2>1. polling[c].mail \in Mail /\ polling[c] # Free
    BY <1>1, <1>9, PollFields DEF PostFails, MailOpens
  <2> QED
    BY <1>6, <1>9, <2>1 DEF PostFails, MailOpens
<1>11. CASE MailLost(c)
  <2>1. /\ polling[c] \in [pc : {"post", "open"}, left : SUBSET Mail, mail : Mail, opens : BOOLEAN]
        /\ polling[c] # Free
    BY <1>1, <1>11, PollFields DEF MailLost
  <2>2. CASE Steps(c, Rest(c, polling[c].mail))
    BY <1>6, <1>11, <2>1, <2>2 DEF MailLost
  <2>3. CASE Steps(c, [polling[c] EXCEPT !.pc = "open"])
    <3> DEFINE p == [polling[c] EXCEPT !.pc = "open"]
    <3>1. p.pc = "open" /\ p.left = polling[c].left /\ p.mail = polling[c].mail
      BY <2>1
    <3>2. polling'[c] = p /\ UNCHANGED <<seen, posted>>
      BY <1>3, <1>11, <2>3 DEF MailLost
    <3> HIDE DEF p
    <3> QED
      BY <2>1, <3>1, <3>2 DEF MailInvOf
  <2> QED
    BY <1>11, <2>2, <2>3 DEF MailLost
<1>10. CASE EndPoll(c)
  <2>1. polling'[c] = Free /\ UNCHANGED <<seen, posted>>
    BY <1>3, <1>10 DEF EndPoll
  <2> QED
    BY <2>1 DEF MailInvOf, Free
<1> QED
  BY <1>4, <1>5, <1>7, <1>8, <1>9, <1>10, <1>11 DEF PollStep

LEMMA DeskStepMail == DeskTypeOK /\ MailInv /\ [DeskNext]_deskVars => MailInv'
<1> SUFFICES ASSUME DeskTypeOK, MailInv, [DeskNext]_deskVars, NEW d \in Poller
             PROVE  MailInvOf(d)'
  BY DEF MailInv, MailInvOf
<1>1. MailInvOf(d)
  BY DEF MailInv, MailInvOf
<1>2. ASSUME NEW c \in Poller, PollStep(c), c # d PROVE MailInvOf(d)'
  <2>1. \A p : Steps(c, p) => polling'[d] = polling[d]
    BY <1>2 DEF Steps, DeskTypeOK
  <2>2. polling'[d] = polling[d]
    BY <1>2, <2>1 DEF PollStep, Search, FetchMail, FetchFails, PostMail, PostFails, MailOpens,
                MailLost, EndPoll
  <2>3. posted'[d] = posted[d]
    BY <1>2 DEF PollStep, Search, FetchMail, FetchFails, PostMail, PostFails, MailOpens, MailLost,
                EndPoll, DeskTypeOK
  <2>4. seen \subseteq seen'
    BY <1>2 DEF PollStep, Search, FetchMail, FetchFails, PostMail, PostFails, MailOpens, MailLost,
                EndPoll, Flagged
  <2> QED
    BY <1>1, <2>2, <2>3, <2>4, OtherPollers
<1>3. ASSUME UNCHANGED mailVars PROVE MailInvOf(d)'
  BY <1>1, <1>3, OtherPollers DEF mailVars
<1>4. ASSUME NEW a \in Api, TicketStep(a) \/ ChatStep(a) \/ Breaks(a) PROVE UNCHANGED mailVars
  BY <1>4 DEF TicketStep, ChatStep, Breaks, UserReplies, GuestReplies, AgentReplies, UserCloses,
              UserReopens, SetStatus, ReadCount, ReopenTicket, BeginConvert, MakeTicket, TicketLost,
              LinkTicket, BeginEnd, EndChat, WriteLost, ApiDies
<1>5. ASSUME NEW s \in Status, AgentSets(s) PROVE UNCHANGED mailVars
  BY <1>5 DEF AgentSets
<1>6. AgentJoins => UNCHANGED mailVars
  BY DEF AgentJoins
<1>7. UNCHANGED deskVars => UNCHANGED mailVars
  BY DEF deskVars
<1> QED
  BY <1>1, <1>2, <1>3, <1>4, <1>5, <1>6, <1>7, PollMail DEF DeskNext, TicketNext, ChatNext

-----------------------------------------------------------------------------
(* The chat *)

LEMMA TakeConverting ==
  ASSUME DeskTypeOK, NEW a \in Api, NEW r \in Request, r.pc \notin {"ticket", "link"}, Take(a, r)
  PROVE  /\ Converting' = Converting
         /\ \A b \in Converting : handling'[b] = handling[b]
BY DEF Converting, Take, DeskTypeOK, Free

LEMMA AnswersConverting ==
  ASSUME DeskTypeOK, NEW a \in Api, Answers(a)
  PROVE  /\ Converting' = Converting \ {a}
         /\ \A b \in Converting \ {a} : handling'[b] = handling[b]
BY DEF Converting, Answers, DeskTypeOK, Free

\* A step that leaves the conversions and the link alone.
LEMMA ChatKept ==
  ASSUME ChatInv, Converting' = Converting, chat'.ticket = chat.ticket, made' = made,
         raced' = raced, \A b \in Converting : handling'[b] = handling[b]
  PROVE  ChatInv'
BY DEF ChatInv

LEMMA ApiChat ==
  ASSUME DeskTypeOK, ChatInv, NEW a \in Api, TicketStep(a) \/ ChatStep(a) \/ Breaks(a)
  PROVE  ChatInv'
<1>1. \A pc \in {"open", "pending", "reopen", "close", "end"} :
        [pc |-> pc] \in Request /\ [pc |-> pc].pc \notin {"ticket", "link"}
  BY DEF Request
<1>2. CASE UserReplies(a) \/ GuestReplies(a) \/ AgentReplies(a) \/ UserCloses(a)
           \/ UserReopens(a) \/ BeginEnd(a)
  <2>1. \E pc \in {"open", "pending", "reopen", "close", "end"} : Take(a, [pc |-> pc])
    BY <1>2 DEF UserReplies, GuestReplies, AgentReplies, UserCloses, UserReopens, TakeReopen, BeginEnd
  <2>2. UNCHANGED chatVars
    BY <1>2 DEF UserReplies, GuestReplies, AgentReplies, UserCloses, UserReopens, BeginEnd
  <2> QED
    BY <1>1, <2>1, <2>2, TakeConverting, ChatKept DEF chatVars
<1>8. CASE ReadCount(a)
  <2>1. /\ a \notin Converting /\ handling'[a].pc = "count" /\ UNCHANGED chatVars
        /\ \A b \in Api \ {a} : handling'[b] = handling[b]
    BY <1>8 DEF ReadCount, Handles, Converting, DeskTypeOK
  <2>2. Converting' = Converting
    BY <2>1 DEF Converting
  <2> QED
    BY <2>1, <2>2, ChatKept DEF chatVars, Converting
<1>3. CASE SetStatus(a) \/ ReopenTicket(a) \/ EndChat(a)
  <2>1. a \notin Converting
    BY <1>3 DEF SetStatus, ReopenTicket, EndChat, Handles, Converting
  <2>2. chat'.ticket = chat.ticket /\ made' = made /\ raced' = raced /\ Answers(a)
    BY <1>3 DEF SetStatus, ReopenTicket, EndChat, chatVars, DeskTypeOK
  <2> QED
    BY <2>1, <2>2, AnswersConverting, ChatKept
<1>4. CASE BeginConvert(a)
  <2>1. /\ chat.ticket = Unlinked /\ raced' = (raced \/ Converting # {})
        /\ UNCHANGED <<chat, made>>
    BY <1>4 DEF BeginConvert, Unconverted
  <2>2. /\ handling' = [handling EXCEPT ![a] = [pc |-> "ticket", chat |-> chat.status]]
    BY <1>4 DEF BeginConvert, Take
  <2>3. SUFFICES ASSUME ~raced' PROVE ChatInv'
    BY DEF ChatInv
  <2>4. ~raced /\ Converting = {} /\ made = {}
    BY <2>1, <2>3 DEF ChatInv
  <2>5. Converting' = {a} /\ handling'[a].pc = "ticket"
    BY <2>2, <2>4 DEF Converting, DeskTypeOK
  <2> QED
    BY <2>1, <2>4, <2>5 DEF ChatInv
<1>5. CASE MakeTicket(a)
  <2>1. handling[a] \in [pc : {"ticket", "link"}, chat : ChatStatus] /\ a \in Converting
    BY <1>5 DEF MakeTicket, Handles, DeskTypeOK, Request, Free, Converting
  <2>2. handling'[a].pc = "link" /\ \A b \in Api \ {a} : handling'[b] = handling[b]
    BY <1>5, <2>1 DEF MakeTicket, DeskTypeOK
  <2>3. Converting' = Converting
    BY <2>1, <2>2 DEF Converting
  <2>4. /\ handling[a].pc = "ticket" /\ made' = made \cup {a}
        /\ UNCHANGED <<chat, raced>>
    BY <1>5 DEF MakeTicket, Handles
  <2>5. SUFFICES ASSUME ~raced PROVE ChatInv'
    BY <2>4 DEF ChatInv
  <2>6. Converting = {a} /\ made = {} /\ chat.ticket = Unlinked
    BY <2>1, <2>4, <2>5 DEF ChatInv
  <2>7. made' = {a} /\ Converting' = {a}
    BY <2>3, <2>4, <2>6
  <2> QED
    BY <2>2, <2>4, <2>6, <2>7 DEF ChatInv
<1>9. CASE TicketLost(a)
  <2>1. handling[a] \in [pc : {"ticket", "link"}, chat : ChatStatus] /\ a \in Converting
    BY <1>9 DEF TicketLost, Handles, DeskTypeOK, Request, Free, Converting
  <2>2. handling'[a].pc = "link" /\ \A b \in Api \ {a} : handling'[b] = handling[b]
    BY <1>9, <2>1 DEF TicketLost, DeskTypeOK
  <2>3. Converting' = Converting
    BY <2>1, <2>2 DEF Converting
  <2>4. handling[a].pc = "ticket" /\ UNCHANGED <<chat, made, raced>>
    BY <1>9 DEF TicketLost, Handles, chatVars
  <2>5. SUFFICES ASSUME ~raced PROVE ChatInv'
    BY <2>4 DEF ChatInv
  <2>6. Converting = {a} /\ made = {} /\ chat.ticket = Unlinked
    BY <2>1, <2>4, <2>5 DEF ChatInv
  <2> QED
    BY <2>2, <2>3, <2>4, <2>6 DEF ChatInv
<1>6. CASE LinkTicket(a)
  <2>1. /\ a \in Converting /\ handling[a].pc = "link"
        /\ chat'.ticket = IF a \in made THEN a ELSE chat.ticket
        /\ UNCHANGED <<made, raced>>
    BY <1>6 DEF LinkTicket, Handles, Converting
  <2>2. Converting' = Converting \ {a}
    BY <1>6, AnswersConverting DEF LinkTicket
  <2>3. SUFFICES ASSUME ~raced PROVE ChatInv'
    BY <2>1 DEF ChatInv
  <2>4. Converting' = {} /\ made' \subseteq {a}
    BY <2>1, <2>2, <2>3 DEF ChatInv
  <2>5. a # Unlinked
    BY DeskAssumption DEF Unlinked
  <2> QED
    BY <2>1, <2>4, <2>5 DEF ChatInv
<1>7. CASE WriteLost(a) \/ ApiDies(a)
  <2>1. CASE a \in Converting
    BY <1>7, <2>1 DEF WriteLost, ApiDies, ChatInv
  <2>2. CASE a \notin Converting
    <3>1. raced' = raced /\ UNCHANGED <<chat, made>> /\ Answers(a)
      BY <1>7, <2>2 DEF WriteLost, ApiDies, DeskTypeOK
    <3> QED
      BY <2>2, <3>1, AnswersConverting, ChatKept
  <2> QED
    BY <2>1, <2>2
<1> QED
  BY <1>2, <1>3, <1>4, <1>5, <1>6, <1>7, <1>8, <1>9 DEF TicketStep, ChatStep, Breaks

LEMMA DeskStepChat == DeskTypeOK /\ ChatInv /\ [DeskNext]_deskVars => ChatInv'
<1> SUFFICES ASSUME DeskTypeOK, ChatInv, [DeskNext]_deskVars PROVE ChatInv'
  OBVIOUS
<1>1. ASSUME handling' = handling, chat'.ticket = chat.ticket, UNCHANGED <<made, raced>>
      PROVE ChatInv'
  BY <1>1, ChatKept DEF Converting
<1>2. ASSUME NEW c \in Poller, PollStep(c) PROVE handling' = handling /\ UNCHANGED chatVars
  BY <1>2 DEF PollStep, Search, FetchMail, FetchFails, PostMail, PostFails, MailOpens, MailLost,
              EndPoll
<1>3. ASSUME NEW s \in Status, AgentSets(s) PROVE handling' = handling /\ UNCHANGED chatVars
  BY <1>3 DEF AgentSets
<1>4. AgentJoins => handling' = handling /\ chat'.ticket = chat.ticket /\ UNCHANGED <<made, raced>>
  BY DEF AgentJoins, DeskTypeOK
<1>5. UNCHANGED deskVars => handling' = handling /\ UNCHANGED chatVars
  BY DEF deskVars
<1> QED
  BY <1>1, <1>2, <1>3, <1>4, <1>5, ApiChat DEF DeskNext, TicketNext, ChatNext, chatVars

-----------------------------------------------------------------------------
DeskInv == DeskTypeOK /\ ReopenInv /\ MailInv /\ ChatInv

LEMMA DeskInitInv == DeskInit => DeskInv
<1> SUFFICES ASSUME DeskInit PROVE DeskInv
  OBVIOUS
<1>1. Reopening = {} /\ Converting = {}
  BY DEF DeskInit, Reopening, Converting, Handles, Free
<1>2. ReopenInv
  BY <1>1, DeskAssumption, FS_EmptySet DEF DeskInit, ReopenInv
<1>3. MailInv
  BY DEF DeskInit, MailInv, Free
<1>4. ChatInv
  BY <1>1 DEF DeskInit, ChatInv
<1> QED
  BY <1>2, <1>3, <1>4, DeskInitTypes DEF DeskInv

LEMMA DeskStepInv == DeskInv /\ [DeskNext]_deskVars => DeskInv'
BY DeskStepTypes, DeskStepReopens, DeskStepMail, DeskStepChat DEF DeskInv

LEMMA DeskInvariant == DeskSpec => []DeskInv
BY DeskInitInv, DeskStepInv, PTL DEF DeskSpec

\* However many processes handle requests of a ticket, and however late their
\* writes are, each reopening beyond the cap comes of one more request that was
\* let in while another was under way.
THEOREM ReopensBoundedCorrect == DeskSpec => []ReopensBounded
<1>1. DeskInv => ReopensBounded
  BY ReopeningFinite DEF DeskInv, ReopenInv, ReopensBounded
<1> QED
  BY <1>1, DeskInvariant, PTL

\* No run of check-inbound after another posts an e-mail twice, whatever fails.
THEOREM PostedOnceCorrect == DeskSpec => []PostedOnce
<1>1. DeskInv => PostedOnce
  BY DEF DeskInv, MailInv, PostedOnce
<1> QED
  BY <1>1, DeskInvariant, PTL

\* Conversions of a chat that do not overlap make one ticket, as long as each
\* puts its link in the database.
THEOREM OneTicketPerChatCorrect == DeskSpec => []OneTicketPerChat
<1>1. DeskInv => OneTicketPerChat
  <2> SUFFICES ASSUME DeskInv, ~raced PROVE Cardinality(made) < 2
    BY DEF OneTicketPerChat
  <2>1. \A a, b \in made : a = b
    BY DEF DeskInv, ChatInv
  <2>2. CASE made = {}
    BY <2>2, FS_EmptySet
  <2>3. ASSUME NEW a \in made PROVE Cardinality(made) < 2
    <3>1. made = {a}
      BY <2>1, <2>3
    <3> QED
      BY <3>1, FS_Singleton
  <2> QED
    BY <2>2, <2>3
<1> QED
  BY <1>1, DeskInvariant, PTL

\* The rows, the requests and the pollers keep their types.
THEOREM DeskTypeCorrect == DeskSpec => []DeskTypeOK
<1>1. DeskInv => DeskTypeOK
  BY DEF DeskInv
<1> QED
  BY <1>1, DeskInvariant, PTL

-----------------------------------------------------------------------------
(* The services side by side *)

\* The rows, the handlers, the pollers and the transactions of every service
\* are of their kinds, whichever of the services runs.
THEOREM ServicesTypesCorrect == ServicesSpec => []ServicesTypesOK
<1> DEFINE ServicesInv == AccessTypeOK /\ DeskInv /\ TallyTypeOK /\ SignInTypeOK /\ ConfigInv
<1>1. ServicesInit => ServicesInv
  BY AccessInitTypes, DeskInitInv, TallyInitTypes, SignInTypeInit, ConfigInitInv DEF ServicesInit
<1>2. ServicesInv /\ [ServicesNext]_serviceVars => ServicesInv'
  <2> SUFFICES ASSUME ServicesInv, [ServicesNext]_serviceVars PROVE ServicesInv'
    OBVIOUS
  <2>1. /\ [AccessNext]_accessVars /\ [DeskNext]_deskVars /\ [TallyNext]_tallyVars
        /\ [SignInNext]_signInVars /\ [ConfigNext]_configVars
    BY DEF ServicesNext, serviceVars, DeskNext
  <2> QED
    BY <2>1, AccessStepTypes, DeskStepInv, TallyStepTypes, SignInTypeStep, ConfigStep
<1>3. ServicesInv => ServicesTypesOK
  BY DEF ServicesTypesOK, ConfigInv, DeskInv
<1> QED
  BY <1>1, <1>2, <1>3, PTL DEF ServicesSpec
=============================================================================
