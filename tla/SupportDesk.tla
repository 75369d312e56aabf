---------------------------- MODULE SupportDesk ----------------------------
(***************************************************************************)
(* One support ticket, the live chat an agent may turn into a ticket, and  *)
(* the mailbox that a command run by cron turns into tickets and replies.  *)
(*                                                                         *)
(* The requests are synchronous bodies of async endpoints: an API process  *)
(* handles one at a time, and there are several processes.  Each read and  *)
(* each write is a transaction of its own; one action is one transaction.  *)
(* Where an update counts on from a row, its read is apart, as nothing     *)
(* locks the row.  Messages are not kept: what follows from one is.        *)
(***************************************************************************)
EXTENDS Integers, FiniteSets

CONSTANTS
  Api,         \* API processes
  Poller,      \* slots of cron in which `support check-inbound' runs
  Mail,        \* e-mails in the inbox
  Replies,     \* those that name the ticket in their subject
  MaxReopens,  \* 3 in the code
  Overlaps,    \* bound on the reopenings that begin during another
  Deaths       \* bound on the requests that die or fail

ASSUME DeskAssumption ==
  /\ IsFiniteSet(Api) /\ Api # {} /\ "none" \notin Api
  /\ Replies \subseteq Mail
  /\ {MaxReopens, Overlaps, Deaths} \subseteq Nat

VARIABLES
  status,    \* tickets.status
  reopens,   \* tickets.reopen_count
  reopened,  \* history: times the ticket was reopened
  overlaps,  \* history: reopenings that began during another
  handling,  \* the request of each API process, with what it has read
  chat,      \* livechat_sessions: status and ticket_id (the process that made it)
  made,      \* API processes that have made a ticket of the chat
  raced,     \* history: conversions overlapped, or one ended without its link
  seen,      \* e-mails flagged \Seen
  polling,   \* what each poller does
  posted,    \* messages each poller has posted of an e-mail; 2 is several
  deaths     \* requests that died or failed so far

countVars == <<reopens, reopened, overlaps>>
ticketVars == <<status, countVars>>
chatVars == <<chat, made, raced>>
mailVars == <<seen, polling, posted>>
deskVars == <<ticketVars, handling, chatVars, mailVars, deaths>>

-----------------------------------------------------------------------------
Done == {"RESOLVED", "CLOSED"}
Status == {"OPEN", "IN_PROGRESS", "PENDING_CUSTOMER"} \cup Done
ChatStatus == {"WAITING", "ACTIVE", "ENDED"}

Free == [pc |-> "free"]
Unlinked == "none"

Request ==
  {Free} \cup [pc : {"open", "pending", "reopen", "close", "end"}]
         \cup [pc : {"count"}, saw : Nat, opens : BOOLEAN]
         \cup [pc : {"ticket", "link"}, chat : ChatStatus]

Poll ==
  {Free} \cup [pc : {"next"}, left : SUBSET Mail]
         \cup [pc : {"post", "open"}, left : SUBSET Mail, mail : Mail, opens : BOOLEAN]

\* The rows, the requests and the pollers are of their kinds; an e-mail is
\* counted to 2.
DeskTypeOK ==
  /\ status \in Status /\ {reopens, reopened} \subseteq Nat /\ overlaps \in 0 .. Overlaps
  /\ handling \in [Api -> Request]
  /\ chat \in [status : ChatStatus, ticket : Api \cup {Unlinked}]
  /\ made \in SUBSET Api /\ raced \in BOOLEAN
  /\ seen \in SUBSET Mail
  /\ polling \in [Poller -> Poll]
  /\ posted \in [Poller -> [Mail -> 0 .. 2]]
  /\ deaths \in 0 .. Deaths

DeskInit ==
  /\ status = "OPEN" /\ reopens = 0 /\ reopened = 0 /\ overlaps = 0
  /\ handling = [a \in Api |-> Free]
  /\ chat = [status |-> "WAITING", ticket |-> Unlinked]
  /\ made = {} /\ raced = FALSE
  /\ seen = {}
  /\ polling = [c \in Poller |-> Free]
  /\ posted = [c \in Poller |-> [m \in Mail |-> 0]]
  /\ deaths = 0

-----------------------------------------------------------------------------
(* The ticket *)

Handles(a, pc) == handling[a].pc = pc
Take(a, request) == handling[a] = Free /\ handling' = [handling EXCEPT ![a] = request]
Answers(a) == handling' = [handling EXCEPT ![a] = Free]

\* Mutant of Reopenable: a reply reopens however often that has happened.
ReopenableAlways == status \in Done

\* Only a ticket that is done, and not too often.
Reopenable == status \in Done /\ reopens < MaxReopens

\* Requests that have found that they may reopen the ticket.
Reopening == {a \in Api : handling[a].pc \in {"reopen", "count"}}

TakeReopen(a) ==
  /\ Reopenable /\ Take(a, [pc |-> "reopen"])
  /\ overlaps' = IF Reopening = {} THEN overlaps ELSE overlaps + 1
  /\ overlaps' <= Overlaps
  /\ UNCHANGED <<status, reopens, reopened>>

\* add_message_from_user, of a ticket that waits for the customer or is done;
\* in any other state the message changes nothing.
UserReplies(a) ==
  /\ \/ status = "PENDING_CUSTOMER" /\ Take(a, [pc |-> "open"]) /\ UNCHANGED ticketVars
     \/ TakeReopen(a)
  /\ UNCHANGED <<chatVars, mailVars, deaths>>

\* add_message_from_guest: a guest's reply reopens nothing.
GuestReplies(a) ==
  /\ status = "PENDING_CUSTOMER" /\ Take(a, [pc |-> "open"])
  /\ UNCHANGED <<ticketVars, chatVars, mailVars, deaths>>

\* add_message_from_agent, of a message the customer sees.
AgentReplies(a) ==
  /\ status \in {"OPEN", "IN_PROGRESS"} /\ Take(a, [pc |-> "pending"])
  /\ UNCHANGED <<ticketVars, chatVars, mailVars, deaths>>

UserCloses(a) ==
  /\ status # "CLOSED" /\ Take(a, [pc |-> "close"])
  /\ UNCHANGED <<ticketVars, chatVars, mailVars, deaths>>

UserReopens(a) == TakeReopen(a) /\ UNCHANGED <<chatVars, mailVars, deaths>>

\* The write that follows what the request has read.
SetStatus(a) ==
  /\ \/ Handles(a, "open") /\ status' = "OPEN"
     \/ Handles(a, "pending") /\ status' = "PENDING_CUSTOMER"
     \/ Handles(a, "close") /\ status' = "CLOSED"
  /\ Answers(a)
  /\ UNCHANGED <<countVars, chatVars, mailVars, deaths>>

\* reopen_ticket reads the row, and does not look at its state again.
ReadCount(a) ==
  /\ Handles(a, "reopen")
  /\ handling' = [handling EXCEPT ![a] =
                    [pc |-> "count", saw |-> reopens, opens |-> status # "OPEN"]]
  /\ UNCHANGED <<ticketVars, chatVars, mailVars, deaths>>

\* Its write is of the columns that it changes.
ReopenTicket(a) ==
  /\ Handles(a, "count")
  /\ status' = IF handling[a].opens THEN "OPEN" ELSE status
  /\ reopens' = handling[a].saw + 1 /\ reopened' = reopened + 1
  /\ Answers(a)
  /\ UNCHANGED <<overlaps, chatVars, mailVars, deaths>>

\* update_ticket_status: an agent sets any state.
AgentSets(s) ==
  /\ status' = s
  /\ UNCHANGED <<countVars, handling, chatVars, mailVars, deaths>>

-----------------------------------------------------------------------------
(* The chat *)

Converting == {a \in Api : handling[a].pc \in {"ticket", "link"}}

\* Mutant of Unconverted: the chat is not asked for its ticket.
UnconvertedAlways == TRUE

Unconverted == chat.ticket = Unlinked

\* convert_chat_to_ticket of a chat without a ticket.  A process makes at most
\* one ticket of it here.
BeginConvert(a) ==
  /\ Unconverted /\ a \notin made
  /\ Take(a, [pc |-> "ticket", chat |-> chat.status])
  /\ raced' = (raced \/ Converting # {})
  /\ UNCHANGED <<ticketVars, chat, made, mailVars, deaths>>

MakeTicket(a) ==
  /\ Handles(a, "ticket")
  /\ made' = made \cup {a}
  /\ handling' = [handling EXCEPT ![a].pc = "link"]
  /\ UNCHANGED <<ticketVars, chat, raced, mailVars, deaths>>

\* The ticket is reported and not there (see WriteLost).
TicketLost(a) ==
  /\ Handles(a, "ticket")
  /\ handling' = [handling EXCEPT ![a].pc = "link"]
  /\ UNCHANGED <<ticketVars, chatVars, mailVars, deaths>>

\* The link is written together with the status as the request read it.  The
\* foreign key refuses one to a ticket that is not there.
LinkTicket(a) ==
  /\ Handles(a, "link")
  /\ chat' = IF a \in made THEN [status |-> handling[a].chat, ticket |-> a] ELSE chat
  /\ Answers(a)
  /\ UNCHANGED <<ticketVars, made, raced, mailVars, deaths>>

\* admin_join_session, whatever the chat's status.
AgentJoins ==
  /\ chat' = [chat EXCEPT !.status = "ACTIVE"]
  /\ UNCHANGED <<ticketVars, handling, made, raced, mailVars, deaths>>

\* end_chat_session of a chat that has not ended.
BeginEnd(a) ==
  /\ chat.status # "ENDED" /\ Take(a, [pc |-> "end"])
  /\ UNCHANGED <<ticketVars, chatVars, mailVars, deaths>>

EndChat(a) ==
  /\ Handles(a, "end")
  /\ chat' = [chat EXCEPT !.status = "ENDED"]
  /\ Answers(a)
  /\ UNCHANGED <<ticketVars, made, raced, mailVars, deaths>>

\* The connection breaks at the commit of a request's write: the retry commits a
\* new session, without the write, and the request goes on as if it were
\* written (see DbRetry).
WriteLost(a) ==
  /\ handling[a].pc \in {"open", "pending", "close", "count", "end", "link"}
  /\ raced' = (raced \/ a \in Converting)
  /\ Answers(a)
  /\ UNCHANGED <<ticketVars, chat, made, mailVars, deaths>>

\* The process dies in the middle of its request, or the request fails.
ApiDies(a) ==
  /\ deaths < Deaths /\ handling[a] # Free
  /\ deaths' = deaths + 1
  /\ raced' = (raced \/ a \in Converting)
  /\ Answers(a)
  /\ UNCHANGED <<ticketVars, chat, made, mailVars>>

-----------------------------------------------------------------------------
(* The mailbox *)

Steps(c, step) == polling' = [polling EXCEPT ![c] = step]

\* poll_inbox selects the inbox and searches the unseen.
Search(c) ==
  /\ polling[c] = Free /\ Mail \ seen # {}
  /\ Steps(c, [pc |-> "next", left |-> Mail \ seen])
  /\ UNCHANGED <<ticketVars, handling, chatVars, seen, posted, deaths>>

Rest(c, m) == [pc |-> "next", left |-> polling[c].left \ {m}]

\* Mutant of Flagged: the fetch leaves the flags alone, and the flag that is
\* stored after the message is lost.
FlaggedNever(m) == seen

\* RFC822 is fetched without PEEK from an inbox selected for writing: the server
\* flags the message as it hands it out.
Flagged(m) == seen \cup {m}

\* Of a reply the ticket is read; an auto-reply is skipped.
FetchMail(c, m) ==
  /\ polling[c].pc = "next" /\ m \in polling[c].left
  /\ seen' = Flagged(m)
  /\ \/ Steps(c, [pc |-> "post", left |-> polling[c].left \ {m}, mail |-> m,
                 opens |-> m \in Replies /\ status = "PENDING_CUSTOMER"])
     \/ Steps(c, Rest(c, m))
  /\ UNCHANGED <<ticketVars, handling, chatVars, posted, deaths>>

\* The server does not answer the fetch with a message.
FetchFails(c, m) ==
  /\ polling[c].pc = "next" /\ m \in polling[c].left
  /\ Steps(c, Rest(c, m))
  /\ UNCHANGED <<ticketVars, handling, chatVars, seen, posted, deaths>>

\* process_inbound_email: the message is stored, with a ticket if it is new.
PostMail(c) ==
  LET p == polling[c] IN
  /\ p.pc = "post"
  /\ posted' = [posted EXCEPT ![c][p.mail] = IF @ = 2 THEN 2 ELSE @ + 1]
  /\ Steps(c, IF p.opens THEN [p EXCEPT !.pc = "open"] ELSE Rest(c, p.mail))
  /\ UNCHANGED <<ticketVars, handling, chatVars, seen, deaths>>

\* It raises: the poller logs it and goes on with the next message.
PostFails(c) ==
  /\ polling[c].pc = "post"
  /\ Steps(c, Rest(c, polling[c].mail))
  /\ UNCHANGED <<ticketVars, handling, chatVars, seen, posted, deaths>>

MailOpens(c) ==
  /\ polling[c].pc = "open"
  /\ status' = "OPEN"
  /\ Steps(c, Rest(c, polling[c].mail))
  /\ UNCHANGED <<countVars, handling, chatVars, seen, posted, deaths>>

\* One of these writes is reported and not made (see WriteLost).
MailLost(c) ==
  LET p == polling[c] IN
  /\ p.pc \in {"post", "open"}
  /\ Steps(c, IF p.pc = "post" /\ p.opens THEN [p EXCEPT !.pc = "open"] ELSE Rest(c, p.mail))
  /\ UNCHANGED <<ticketVars, handling, chatVars, seen, posted, deaths>>

\* The loop is over, or the connection or the process is lost in it.
EndPoll(c) ==
  /\ polling[c] # Free
  /\ Steps(c, Free)
  /\ UNCHANGED <<ticketVars, handling, chatVars, seen, posted, deaths>>

-----------------------------------------------------------------------------
TicketStep(a) ==
  \/ UserReplies(a) \/ GuestReplies(a) \/ AgentReplies(a)
  \/ UserCloses(a) \/ UserReopens(a) \/ SetStatus(a) \/ ReadCount(a) \/ ReopenTicket(a)

ChatStep(a) ==
  \/ BeginConvert(a) \/ MakeTicket(a) \/ TicketLost(a) \/ LinkTicket(a)
  \/ BeginEnd(a) \/ EndChat(a)

Breaks(a) == WriteLost(a) \/ ApiDies(a)

PollStep(c) ==
  \/ Search(c) \/ (\E m \in Mail : FetchMail(c, m) \/ FetchFails(c, m))
  \/ PostMail(c) \/ PostFails(c) \/ MailOpens(c) \/ MailLost(c) \/ EndPoll(c)

TicketNext ==
  \/ \E a \in Api : TicketStep(a) \/ Breaks(a)
  \/ \E c \in Poller : PollStep(c)
  \/ \E s \in Status : AgentSets(s)

ChatNext == AgentJoins \/ \E a \in Api : ChatStep(a) \/ Breaks(a)

\* They share the processes, and no row.
DeskNext == TicketNext \/ ChatNext

DeskSpec == DeskInit /\ [][DeskNext]_deskVars

-----------------------------------------------------------------------------
(* Properties *)

\* The cap of three reopens is checked on a row that is read before it is
\* written, and reopen_ticket reads and writes the count without a lock: an
\* older count may come back and admit more requests.  Still the ticket is
\* reopened three times at most, and once more for each request that is let in
\* while another is under way (reopen_ticket_by_user, add_message_from_user).
ReopensBounded == reopened <= MaxReopens + overlaps

\* One run of check-inbound after another posts an e-mail at most once, however
\* a run ends, and whether or not the flag it stores arrives (_process_message).
PostedOnce == \A c \in Poller, m \in Mail : posted[c][m] < 2

\* A chat becomes one ticket, unless two conversions overlap or one ends without
\* its link in the database: it dies, or update_chat_session_status reports a
\* link that was not committed (convert_chat_to_ticket: "Already converted").
OneTicketPerChat == raced \/ Cardinality(made) < 2

\* reopen_ticket_by_user says "the maximum number of reopens (3)".  Two requests
\* that both read 2 reopen the ticket four times.
ReopenCap == reopened <= MaxReopens

\* _process_message "Marks it as SEEN if successfully processed".  A message
\* whose processing failed is flagged all the same, by the fetch.
SeenIsProcessed ==
  \A m \in seen :
    \/ \E c \in Poller : posted[c][m] > 0
    \/ \E c \in Poller : polling[c].pc = "post" /\ polling[c].mail = m

\* admin_join_session is to "Claim a WAITING session".  It takes an ended one
\* as well, and so does a conversion that read the chat before it ended.
ChatStaysEnded == [][chat.status = "ENDED" => chat'.status = "ENDED"]_deskVars
=============================================================================
