-------------------------------- MODULE SignIn --------------------------------
(***************************************************************************)
(* The account behind one e-mail address and the ways to sign in to it: a  *)
(* password, and links to identities at OAuth providers.  Sign-ups,        *)
(* takeovers, links and unlinks run on several API processes, next to the  *)
(* command that cleans up unverified users.                                *)
(*                                                                         *)
(* A handler is synchronous, so an API process runs one at a time, and an  *)
(* action is one database transaction.  A sign-in that changes neither the *)
(* account nor its links has no action.  The schema allows one account per *)
(* address and one link per identity, and a link goes with its account, so *)
(* linked holds the links of the account that is there.                    *)
(***************************************************************************)
EXTENDS Integers

CONSTANTS
  Host,          \* API processes
  Identity,      \* users at OAuth providers whose e-mail address is this one
  Provider,      \* the provider of each
  MaxAccounts    \* bound: accounts made for the address

ASSUME SignInAssumption == MaxAccounts \in Nat

VARIABLES
  account,   \* the account of the address
  latest,    \* accounts made so far, the id of the latest
  linked,    \* identities with a row in oauth_accounts
  ticket,    \* link tokens issued: the account each identity may be linked to
  serving,   \* the handler each process runs
  doomed,    \* the account the cleanup has selected, 0 for none
  kept,      \* history: the account was verified, and no administrator deleted it
  crossed,   \* history: two requests crossed in a way no transaction guards
  cut        \* history: a sign-up ended before its link was there

signInVars == <<account, latest, linked, ticket, serving, doomed, kept, crossed, cut>>

-----------------------------------------------------------------------------
\* mailed: a verification token is open.  old: made long enough ago for the
\* cleanup.
AccountRow ==
  [there : BOOLEAN, verified : BOOLEAN, password : BOOLEAN, mailed : BOOLEAN, old : BOOLEAN]

NoAccount ==
  [there |-> FALSE, verified |-> FALSE, password |-> FALSE, mailed |-> FALSE, old |-> FALSE]

NoHandler == [pc |-> "none"]

Handler == {NoHandler}
   \cup [pc : {"register"}]
   \cup [pc : {"lookup", "create"}, identity : Identity]
   \cup [pc : {"mail", "password"}, of : Nat]
   \cup [pc : {"adopt", "unlink"}, identity : Identity, of : Nat]
   \cup [pc : {"token", "link"}, identity : Identity, of : Nat, signup : BOOLEAN]

SignInTypeOK ==
  /\ account \in AccountRow /\ latest \in Nat
  /\ linked \subseteq Identity
  /\ ticket \in [Identity -> Nat]
  /\ serving \in [Host -> Handler]
  /\ doomed \in Nat
  /\ kept \in BOOLEAN /\ crossed \in BOOLEAN /\ cut \in BOOLEAN

SignInInit ==
  /\ account = NoAccount /\ latest = 0 /\ linked = {}
  /\ ticket = [i \in Identity |-> 0]
  /\ serving = [h \in Host |-> NoHandler]
  /\ doomed = 0
  /\ kept = FALSE /\ crossed = FALSE /\ cut = FALSE

-----------------------------------------------------------------------------
Vacant(h) == serving[h] = NoHandler

Serves(h, pc) == serving[h].pc = pc

Turns(h, s) == serving' = [serving EXCEPT ![h] = s]

Leaves(h) == Turns(h, NoHandler)

\* The row with this id has not been deleted.
Stands(id) == account.there /\ id = latest

Unlinks == \E h \in Host : Serves(h, "unlink")

\* A sign-up of the present account whose link is still to come.
SignsUp(h) ==
  /\ serving[h].pc \in {"token", "link"}
  /\ serving[h].signup /\ serving[h].of = latest

\* is_verified is set, perhaps after the cleanup has selected the row.
Verified(row) ==
  /\ account' = [row EXCEPT !.verified = TRUE]
  /\ kept' = TRUE
  /\ crossed' = (crossed \/ doomed = latest)

\* create_user refuses a second account for the address.
NewAccount(row) ==
  /\ latest < MaxAccounts
  /\ account' = row /\ latest' = latest + 1

-----------------------------------------------------------------------------
(* Registration and verification by e-mail *)

BeginRegister(h) ==
  /\ Vacant(h) /\ ~account.there
  /\ Turns(h, [pc |-> "register"])
  /\ UNCHANGED <<account, latest, linked, ticket, doomed, kept, crossed, cut>>

\* The first commit of create_user; another request may have been faster.
MakeRegistered(h) ==
  /\ Serves(h, "register")
  /\ IF account.there
     THEN Leaves(h) /\ UNCHANGED <<account, latest>>
     ELSE /\ NewAccount([NoAccount EXCEPT !.there = TRUE, !.password = TRUE])
          /\ Turns(h, [pc |-> "mail", of |-> latest + 1])
  /\ UNCHANGED <<linked, ticket, doomed, kept, crossed, cut>>

\* The second commit, of the verification token, which may fail.
MailToken(h) ==
  /\ Serves(h, "mail")
  /\ \/ /\ Stands(serving[h].of)
        /\ account' = [account EXCEPT !.mailed = TRUE]
     \/ UNCHANGED account
  /\ Leaves(h)
  /\ UNCHANGED <<latest, linked, ticket, doomed, kept, crossed, cut>>

\* create_verification_token, asked for by the user.
ResendToken(h) ==
  /\ Vacant(h) /\ account.there /\ ~account.verified
  /\ account' = [account EXCEPT !.mailed = TRUE]
  /\ UNCHANGED <<latest, linked, ticket, serving, doomed, kept, crossed, cut>>

\* verify_email; a token that comes again finds the user verified.
VerifyEmail(h) ==
  /\ Vacant(h) /\ account.there /\ account.mailed /\ ~account.verified
  /\ Verified([account EXCEPT !.mailed = FALSE])
  /\ UNCHANGED <<latest, linked, ticket, serving, doomed, cut>>

-----------------------------------------------------------------------------
(* Sign-in with a provider *)

\* authenticate_with_oauth: nobody is linked to the identity.
BeginOAuth(h, i) ==
  /\ Vacant(h) /\ i \notin linked
  /\ Turns(h, [pc |-> "lookup", identity |-> i])
  /\ UNCHANGED <<account, latest, linked, ticket, doomed, kept, crossed, cut>>

\* A verified user must confirm with the password, an unverified one is taken
\* over, and an address without a user signs up.
LookUp(h) ==
  /\ Serves(h, "lookup")
  /\ LET i == serving[h].identity
     IN \/ /\ ~account.there
           /\ Turns(h, [pc |-> "create", identity |-> i])
           /\ UNCHANGED ticket
        \/ /\ account.there /\ ~account.verified
           /\ Turns(h, [pc |-> "adopt", identity |-> i, of |-> latest])
           /\ UNCHANGED ticket
        \/ /\ account.there /\ account.verified
           /\ ticket' = [ticket EXCEPT ![i] = latest]
           /\ Leaves(h)
  /\ UNCHANGED <<account, latest, linked, doomed, kept, crossed, cut>>

\* update_user of a takeover; its failure goes unnoticed.
Adopt(h) ==
  /\ Serves(h, "adopt")
  /\ \/ Stands(serving[h].of) /\ Verified(account)
     \/ UNCHANGED <<account, kept, crossed>>
  /\ Turns(h, [pc |-> "link", identity |-> serving[h].identity, of |-> serving[h].of,
               signup |-> FALSE])
  /\ UNCHANGED <<latest, linked, ticket, doomed, cut>>

\* _create_new_oauth_user: the user is verified and has no password.
SignUp(h) ==
  /\ Serves(h, "create")
  /\ IF account.there
     THEN Leaves(h) /\ UNCHANGED <<account, latest, kept>>
     ELSE /\ NewAccount([NoAccount EXCEPT !.there = TRUE, !.verified = TRUE])
          /\ kept' = TRUE
          /\ Turns(h, [pc |-> "token", identity |-> serving[h].identity,
                       of |-> latest + 1, signup |-> TRUE])
  /\ UNCHANGED <<linked, ticket, doomed, crossed, cut>>

\* The second commit of create_user: without it, the sign-up is given up.
SignUpToken(h) ==
  /\ Serves(h, "token")
  /\ \/ /\ Stands(serving[h].of)
        /\ account' = [account EXCEPT !.mailed = TRUE]
        /\ Turns(h, [serving[h] EXCEPT !.pc = "link"])
        /\ UNCHANGED cut
     \/ /\ Leaves(h)
        /\ cut' = (cut \/ SignsUp(h))
        /\ UNCHANGED account
  /\ UNCHANGED <<latest, linked, ticket, doomed, kept, crossed>>

\* create_oauth_account, whose failure nobody looks at.
Link(h) ==
  /\ Serves(h, "link")
  /\ \/ /\ Stands(serving[h].of)
        /\ linked' = linked \cup {serving[h].identity}
        /\ UNCHANGED cut
     \/ /\ cut' = (cut \/ SignsUp(h))
        /\ UNCHANGED linked
  /\ Leaves(h)
  /\ UNCHANGED <<account, latest, ticket, doomed, kept, crossed>>

-----------------------------------------------------------------------------
(* Links and passwords of a signed-in user *)

\* confirm_link_with_password: a link token and the right password.
ConfirmLink(h, i) ==
  /\ Vacant(h) /\ Stands(ticket[i]) /\ account.password
  /\ Turns(h, [pc |-> "link", identity |-> i, of |-> latest, signup |-> FALSE])
  /\ UNCHANGED <<account, latest, linked, ticket, doomed, kept, crossed, cut>>

\* link_provider: the identity is nobody's yet.
BeginLink(h, i) ==
  /\ Vacant(h) /\ account.there /\ i \notin linked
  /\ Turns(h, [pc |-> "link", identity |-> i, of |-> latest, signup |-> FALSE])
  /\ UNCHANGED <<account, latest, linked, ticket, doomed, kept, crossed, cut>>

\* Mutant of Others: the links of the provider itself count.
OthersAny(i) == linked

\* other_providers
Others(i) == {j \in linked : Provider[j] # Provider[i]}

\* unlink_oauth_account: another way to sign in remains.
BeginUnlink(h, i) ==
  /\ Vacant(h) /\ account.there /\ i \in linked
  /\ account.password \/ Others(i) # {}
  /\ Turns(h, [pc |-> "unlink", identity |-> i, of |-> latest])
  /\ crossed' = (crossed \/ Unlinks)
  /\ UNCHANGED <<account, latest, linked, ticket, doomed, kept, cut>>

\* delete_oauth_account, of the identity, whoever has it by now.
Unlink(h) ==
  /\ Serves(h, "unlink")
  /\ \/ linked' = linked \ {serving[h].identity}
     \/ UNCHANGED linked
  /\ Leaves(h)
  /\ UNCHANGED <<account, latest, ticket, doomed, kept, crossed, cut>>

BeginPassword(h) ==
  /\ Vacant(h) /\ account.there /\ ~account.password
  /\ Turns(h, [pc |-> "password", of |-> latest])
  /\ UNCHANGED <<account, latest, linked, ticket, doomed, kept, crossed, cut>>

SetPassword(h) ==
  /\ Serves(h, "password")
  /\ \/ /\ Stands(serving[h].of)
        /\ account' = [account EXCEPT !.password = TRUE]
     \/ UNCHANGED account
  /\ Leaves(h)
  /\ UNCHANGED <<latest, linked, ticket, doomed, kept, crossed, cut>>

-----------------------------------------------------------------------------
(* The end of an account, and of a process *)

AccountAges ==
  /\ account.there /\ ~account.old
  /\ account' = [account EXCEPT !.old = TRUE]
  /\ UNCHANGED <<latest, linked, ticket, serving, doomed, kept, crossed, cut>>

\* _delete_user_cascade
Cascade ==
  /\ account' = NoAccount /\ linked' = {}
  /\ crossed' = (crossed \/ Unlinks)

\* cleanup_unverified_users reads whom to delete ...
SelectUnverified ==
  /\ doomed = 0
  /\ account.there /\ ~account.verified /\ account.old
  /\ doomed' = latest
  /\ UNCHANGED <<account, latest, linked, ticket, serving, kept, crossed, cut>>

\* ... and deletes them without another look, or fails as a whole.
DeleteUnverified ==
  /\ doomed # 0 /\ doomed' = 0
  /\ \/ Stands(doomed) /\ Cascade
     \/ UNCHANGED <<account, linked, crossed>>
  /\ UNCHANGED <<latest, ticket, serving, kept, cut>>

AdminDeletes ==
  /\ account.there
  /\ Cascade
  /\ kept' = FALSE /\ cut' = FALSE
  /\ UNCHANGED <<latest, ticket, serving, doomed>>

HostDies(h) ==
  /\ ~Vacant(h)
  /\ cut' = (cut \/ SignsUp(h))
  /\ Leaves(h)
  /\ UNCHANGED <<account, latest, linked, ticket, doomed, kept, crossed>>

SignInNext ==
  \/ AccountAges \/ SelectUnverified \/ DeleteUnverified \/ AdminDeletes
  \/ \E h \in Host :
       \/ BeginRegister(h) \/ MakeRegistered(h) \/ MailToken(h)
       \/ ResendToken(h) \/ VerifyEmail(h)
       \/ LookUp(h) \/ Adopt(h) \/ SignUp(h) \/ SignUpToken(h) \/ Link(h)
       \/ Unlink(h) \/ BeginPassword(h) \/ SetPassword(h) \/ HostDies(h)
       \/ \E i \in Identity : \/ BeginOAuth(h, i) \/ ConfirmLink(h, i)
                              \/ BeginLink(h, i) \/ BeginUnlink(h, i)

SignInSpec == SignInInit /\ [][SignInNext]_signInVars

-----------------------------------------------------------------------------
(* Properties *)

CanSignIn == account.password \/ linked # {}

\* A verified account is there and its user can sign in to it, whatever
\* requests, takeovers, unlinks and cleanups have run, unless an administrator
\* deleted it, a sign-up was cut off, or two requests crossed: unlinks that
\* each count on the other's link, a deletion during an unlink, a verification
\* during a cleanup.  Nothing else may leave a user outside.
AccountKept ==
  kept /\ ~crossed /\ ~cut => /\ account.there
                              /\ CanSignIn \/ \E h \in Host : SignsUp(h)

\* Said of unlink_oauth_account, but unlinks that overlap take both links.
RetainsOneMethod ==
  kept /\ ~cut /\ account.there => CanSignIn \/ \E h \in Host : SignsUp(h)

\* Said of the flow of authenticate_with_oauth ("create new user + link +
\* login"), but a sign-up that ends between its commits leaves a user without.
SignUpLinks ==
  kept /\ ~crossed => CanSignIn \/ \E h \in Host : SignsUp(h)

\* Said of cleanup_unverified_users, but it deletes who is verified meanwhile.
CleanupSparesVerified == kept => account.there
=============================================================================
