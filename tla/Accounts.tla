------------------------------ MODULE Accounts ------------------------------
(***************************************************************************)
(* Accounts, sign-in sessions, mailed links and provider identities, as    *)
(* core/db.py, core/auth.py and the account routes of app/main.py keep     *)
(* them.  Every route runs on a thread of its own, so a handler that reads *)
(* an account and writes later is two steps here: the first ends in        *)
(* flight[b], the second acts on what the first one read.                  *)
(*                                                                         *)
(* A password is its generation, the number of times it was replaced.      *)
(* Unique columns make a look-up and its insert one step: the request that *)
(* loses the race fails.  Mailing a link is one step with the look-up of   *)
(* the account it is for.                                                  *)
(***************************************************************************)
EXTENDS Integers, FiniteSets, FiniteSetsExt

CONSTANTS
    Browsers,        \* who sends requests, each with one session cookie
    Emails,          \* addresses
    Identities,      \* subjects of a sign-in provider
    AddressOf,       \* AddressOf[i]: the address the provider gives for i
    Vouched,         \* the identities whose address the provider verified
    Strict,          \* SETTINGS.require_email_verification
    None,
    MaxAccounts,     \* bound: accounts ever created
    MaxTokens,       \* bound: session tokens alive at a time
    MaxLinks,        \* bound: mailed links alive at a time
    MaxGen,          \* bound: password changes of one account
    MaxBusy          \* bound: accounts created plus handlers under way

ASSUME AccountsAssumption ==
    /\ AddressOf \in [Identities -> Emails]
    /\ Vouched \subseteq Identities
    /\ Strict \in BOOLEAN
    /\ None \notin Nat
    /\ MaxAccounts \in Nat /\ MaxGen \in Nat

VARIABLES
    accounts,    \* account id -> row, None where there is none
    created,     \* the last id given out (AUTOINCREMENT: never used again)
    identities,  \* oauth_identities: identity -> account, None when unbound
    sessions,    \* rows of the sessions table
    cookie,      \* the session token each browser holds
    links,       \* live reset, verification and change links
    flight,      \* what the handler serving a browser does next
    proven       \* history: <<account, address>> shown to belong together

accountsVars == <<accounts, created, identities, sessions, cookie, links,
          flight, proven>>

Ids == 1..MaxAccounts
Tokens == 1..MaxTokens
Idle == [do |-> "nothing"]
Row == [email : Emails, gen : 0..MaxGen, login : BOOLEAN, verified : BOOLEAN,
        status : {"active", "suspended"}]
Link == [kind : {"reset", "verify", "change"}, account : Ids, to : Emails]

ASSUME RowsAssumption == None \notin Row \cup [account : Ids, late : BOOLEAN]

\* A sitting account, and one that may sign in.
Known(a) == accounts[a] # None
Active(a) == Known(a) /\ accounts[a].status = "active"
ByEmail(e) == {a \in Ids : Known(a) /\ accounts[a].email = e}

AccountsInit ==
    /\ accounts = [a \in Ids |-> None] /\ created = 0
    /\ identities = [i \in Identities |-> None]
    /\ sessions = {} /\ cookie = [b \in Browsers |-> None]
    /\ links = {}
    /\ flight = [b \in Browsers |-> Idle] /\ proven = {}

-----------------------------------------------------------------------------
(* What every handler is made of.                                          *)

\* The account of the request's cookie, read before the handler starts.
Viewer(b) == {s.account : s \in {t \in sessions :
                                   t.token = cookie[b] /\ Active(t.account)}}

\* issue_session: a fresh token whatever became of the account meanwhile.
\* "late" records that the account had changed since it was authenticated.
Fresh == {t \in Tokens : /\ \A s \in sessions : s.token # t
                         /\ \A b \in Browsers : cookie[b] # t}
IssueSession(b, a, gen) ==
    /\ Fresh # {}
    /\ sessions' = sessions \cup
         {[token |-> Min(Fresh), account |-> a, gen |-> gen,
           late |-> ~Active(a) \/ (Known(a) /\ accounts[a].gen # gen)]}
    /\ cookie' = [cookie EXCEPT ![b] = Min(Fresh)]

SessionsOf(a) == {s \in sessions : s.account = a}
LinksOf(a, kinds) == {l \in links : l.account = a /\ l.kind \in kinds}

\* A handler starts when its browser waits for none, and ends.
Room == created + Cardinality({b \in Browsers : flight[b] # Idle}) < MaxBusy
Starts(b, step) ==
    flight[b] = Idle /\ Room /\ flight' = [flight EXCEPT ![b] = step]
At(b, what) == flight[b].do = what
Ends(b) == flight' = [flight EXCEPT ![b] = Idle]

\* _send_verification_email and its like.  save_email_verification_token and
\* save_email_change_token keep one link an account, save_password_reset_token
\* keeps them all.
Replaced(kind, a) == IF kind = "reset" THEN {} ELSE LinksOf(a, {kind})
SendLink(kind, a, to) ==
    /\ links' = (links \ Replaced(kind, a)) \cup
                  {[kind |-> kind, account |-> a, to |-> to]}
    /\ Cardinality(links') <= MaxLinks

\* The row of a new account, and its id.
NewRow(e, login) ==
    [email |-> e, gen |-> 0, login |-> login, verified |-> ~Strict /\ login,
     status |-> "active"]
InsertTwice(row) ==
    /\ Room /\ ByEmail(row.email) = {}
    /\ created' = created + 2
    /\ accounts' = [accounts EXCEPT ![created + 1] = row]
Insert(row) ==
    /\ created < MaxAccounts /\ Room /\ ByEmail(row.email) = {}
    /\ created' = created + 1
    /\ accounts' = [accounts EXCEPT ![created + 1] = row]

-----------------------------------------------------------------------------
(* Signing up and signing in.                                              *)

\* POST /signup: an address that has an account is refused.
Signup(b, e) ==
    /\ Insert(NewRow(e, TRUE))
    /\ flight[b] = Idle
    /\ IF Strict
       THEN SendLink("verify", created + 1, e) /\ UNCHANGED flight
       ELSE /\ Starts(b, [do |-> "issue", account |-> created + 1, gen |-> 0])
            /\ UNCHANGED links
    /\ UNCHANGED <<identities, sessions, cookie, proven>>

\* authenticate: the password is right, the account active and open to
\* passwords, and its address verified where that is asked for.
MayLogIn(a) ==
    Active(a) /\ accounts[a].login /\ (Strict => accounts[a].verified)
Login(b, a) ==
    /\ MayLogIn(a)
    /\ Starts(b, [do |-> "issue", account |-> a, gen |-> accounts[a].gen])
    /\ UNCHANGED <<accounts, created, identities, sessions, cookie, links,
                   proven>>

\* issue_session, as its own write.
Issue(b) ==
    /\ At(b, "issue") /\ IssueSession(b, flight[b].account, flight[b].gen)
    /\ Ends(b)
    /\ UNCHANGED <<accounts, created, identities, links, proven>>

Logout(b) ==
    /\ flight[b] = Idle /\ cookie[b] # None
    /\ sessions' = {s \in sessions : s.token # cookie[b]}
    /\ cookie' = [cookie EXCEPT ![b] = None]
    /\ UNCHANGED <<accounts, created, identities, links, flight,
                   proven>>

\* expires_at passes.
Expires(s) ==
    /\ sessions' = sessions \ {s}
    /\ UNCHANGED <<accounts, created, identities, cookie, links,
                   flight, proven>>

-----------------------------------------------------------------------------
(* Signing in with a provider (social_auth_callback).                      *)

\* mark_email_verified when the provider vouches; the session follows unless
\* the address is still to be verified, in which case a link is mailed.
MarkVerifiedAlways(i) == TRUE
MarkVerified(i) == i \in Vouched
Greet(b, i, a, rows) ==
    LET verified == rows[a].verified \/ MarkVerified(i)
    IN  /\ accounts' = [rows EXCEPT ![a].verified = verified]
        /\ proven' = IF i \in Vouched
                       THEN proven \cup {<<a, AddressOf[i]>>} ELSE proven
        /\ IF Strict /\ ~verified
           THEN SendLink("verify", a, rows[a].email) /\ Ends(b)
           ELSE /\ flight' = [flight EXCEPT ![b] =
                     [do |-> "issue", account |-> a, gen |-> rows[a].gen]]
                /\ UNCHANGED links

Linked(i) == identities[i] # None /\ Active(identities[i].account)
Binding(a) == [account |-> a, late |-> FALSE]

SocialKnown(b, i) ==
    /\ flight[b] = Idle /\ Room /\ Linked(i)
    /\ Greet(b, i, identities[i].account, accounts)
    /\ UNCHANGED <<created, identities, sessions, cookie>>

\* _link_verified_identity: only an address the provider has verified.
SocialFinds(b, i) ==
    /\ ~Linked(i) /\ i \in Vouched
    /\ \E a \in ByEmail(AddressOf[i]) :
         Active(a) /\ Starts(b, [do |-> "link", account |-> a, identity |-> i])
    /\ UNCHANGED <<accounts, created, identities, sessions, cookie, links,
                   proven>>

\* link_oauth_identity rebinds whatever was there, and reads it back.
SocialLinks(b) ==
    /\ At(b, "link")
    /\ LET i == flight[b].identity  a == flight[b].account
       IN  /\ identities' = [identities EXCEPT ![i] =
                [Binding(a) EXCEPT !.late = ~Known(a)]]
           /\ IF Active(a) THEN Greet(b, i, a, accounts)
              ELSE Ends(b) /\ UNCHANGED <<accounts, links, proven>>
    /\ UNCHANGED <<created, sessions, cookie>>

\* create_oauth_account: the address is free and the identity unbound.
SocialCreates(b, i) ==
    /\ flight[b] = Idle /\ Room /\ identities[i] = None
    /\ created < MaxAccounts /\ ByEmail(AddressOf[i]) = {}
    /\ created' = created + 1
    /\ identities' = [identities EXCEPT ![i] = Binding(created + 1)]
    /\ Greet(b, i, created + 1,
             [accounts EXCEPT ![created + 1] = NewRow(AddressOf[i], FALSE)])
    /\ UNCHANGED <<sessions, cookie>>

-----------------------------------------------------------------------------
(* Mailed links.                                                           *)

AsksForReset(a) ==
    /\ Active(a) /\ SendLink("reset", a, accounts[a].email)
    /\ UNCHANGED <<accounts, created, identities, sessions, cookie,
                   flight, proven>>

AsksForVerification(a) ==
    /\ Known(a) /\ ~accounts[a].verified
    /\ SendLink("verify", a, accounts[a].email)
    /\ UNCHANGED <<accounts, created, identities, sessions, cookie,
                   flight, proven>>

\* request_email_change: the current password, and an address nobody has.
AsksForChange(b, e) ==
    /\ ByEmail(e) = {}
    /\ \E a \in Viewer(b) : accounts[a].login /\ SendLink("change", a, e)
    /\ UNCHANGED <<accounts, created, identities, sessions, cookie,
                   flight, proven>>

\* consume_email_verification_token verifies the account, whatever address it
\* has by now.
OpensVerification(l) ==
    /\ l.kind = "verify"
    /\ links' = links \ {l}
    /\ IF Known(l.account)
       THEN /\ accounts' = [accounts EXCEPT ![l.account].verified = TRUE]
            /\ proven' = proven \cup {<<l.account, l.to>>}
       ELSE UNCHANGED <<accounts, proven>>
    /\ UNCHANGED <<created, identities, sessions, cookie, flight>>

\* consume_email_change_token: used up even when the address was taken since.
OpensChange(l) ==
    /\ l.kind = "change"
    /\ links' = links \ {l}
    /\ IF Known(l.account) /\ ByEmail(l.to) \subseteq {l.account}
       THEN /\ accounts' = [accounts EXCEPT ![l.account].email = l.to,
                                            ![l.account].verified = TRUE]
            /\ proven' = proven \cup {<<l.account, l.to>>}
       ELSE UNCHANGED <<accounts, proven>>
    /\ UNCHANGED <<created, identities, sessions, cookie, flight>>

\* consume_password_reset_token, then the new hash as a second write.
OpensReset(b, l) ==
    /\ l.kind = "reset"
    /\ links' = links \ {l}
    /\ Starts(b, [do |-> "reset", account |-> l.account])
    /\ UNCHANGED <<accounts, created, identities, sessions, cookie,
                   proven>>

LinkExpires(l) ==
    /\ links' = links \ {l}
    /\ UNCHANGED <<accounts, created, identities, sessions, cookie,
                   flight, proven>>

-----------------------------------------------------------------------------
(* Passwords.                                                              *)

\* update_password_hash: only an active account, and it ends every session.
EndedNone(a) == {}
Ended(a) == SessionsOf(a)
Rehash(a) ==
    /\ accounts[a].gen < MaxGen
    /\ accounts' = [accounts EXCEPT ![a].gen = @ + 1, ![a].login = TRUE]
    /\ sessions' = sessions \ Ended(a)

ResetsPassword(b) ==
    /\ At(b, "reset")
    /\ IF Active(flight[b].account) THEN Rehash(flight[b].account)
       ELSE UNCHANGED <<accounts, sessions>>
    /\ cookie' = [cookie EXCEPT ![b] =
                     IF Active(flight[b].account) THEN None ELSE @]
    /\ Ends(b)
    /\ UNCHANGED <<created, identities, links, proven>>

\* change_password: the current password is checked, ...
ChecksPassword(b) ==
    /\ \E a \in Viewer(b) :
         accounts[a].login /\ Starts(b, [do |-> "rehash", account |-> a])
    /\ UNCHANGED <<accounts, created, identities, sessions, cookie, links,
                   proven>>

\* ... the new hash written, its result ignored, and a session issued.
ChangesPassword(b) ==
    /\ At(b, "rehash")
    /\ LET a == flight[b].account
       IN  /\ IF Active(a) THEN Rehash(a) ELSE UNCHANGED <<accounts, sessions>>
           /\ flight' = [flight EXCEPT ![b] =
                [do |-> "issue", account |-> a,
                 gen |-> IF Active(a) THEN accounts[a].gen + 1 ELSE 0]]
    /\ UNCHANGED <<created, identities, cookie, links, proven>>

RevokesOthers(b) ==
    /\ flight[b] = Idle
    /\ \E a \in Viewer(b) :
         sessions' = {s \in sessions : s.account # a \/ s.token = cookie[b]}
    /\ UNCHANGED <<accounts, created, identities, cookie, links,
                   flight, proven>>

-----------------------------------------------------------------------------
(* Administrators, and the end of an account.                              *)

\* set_account_status: leaving "active" ends every session.
SetStatus(a, status) ==
    /\ Known(a) /\ accounts[a].status # status
    /\ accounts' = [accounts EXCEPT ![a].status = status]
    /\ sessions' = IF status # "active" THEN sessions \ Ended(a) ELSE sessions
    /\ UNCHANGED <<created, identities, cookie, links, flight,
                   proven>>

\* delete_account_route: the password, and the refusals that depend on the
\* account's analyses and subscription, ...
AsksToDelete(b) ==
    /\ \E a \in Viewer(b) :
         /\ accounts[a].login
         /\ Starts(b, [do |-> "delete", account |-> a])
    /\ UNCHANGED <<accounts, created, identities, sessions, cookie, links,
                   proven>>

\* ... then delete_account, in one transaction.
Bound(a) ==
    {i \in Identities : identities[i] # None /\ identities[i].account = a}
ClearedNone(a) == {}
Cleared(a) == Bound(a)
Deletes(b) ==
    /\ At(b, "delete")
    /\ LET a == flight[b].account
       IN  IF Known(a)
           THEN /\ accounts' = [accounts EXCEPT ![a] = None]
                /\ sessions' = sessions \ SessionsOf(a)
                /\ links' = links \ LinksOf(a, {"reset", "verify", "change"})
                /\ identities' = [i \in Identities |->
                     IF i \in Cleared(a) THEN None ELSE identities[i]]
           ELSE UNCHANGED <<accounts, sessions, links, identities>>
    /\ cookie' = [cookie EXCEPT ![b] = None]
    /\ Ends(b)
    /\ UNCHANGED <<created, proven>>

-----------------------------------------------------------------------------
AccountsNext ==
    \/ \E b \in Browsers, e \in Emails : Signup(b, e)
    \/ \E b \in Browsers, a \in Ids : Login(b, a)
    \/ \E b \in Browsers : Issue(b)
    \/ \E b \in Browsers : Logout(b)
    \/ \E s \in sessions : Expires(s)
    \/ \E b \in Browsers, i \in Identities : SocialKnown(b, i)
    \/ \E b \in Browsers, i \in Identities : SocialFinds(b, i)
    \/ \E b \in Browsers : SocialLinks(b)
    \/ \E b \in Browsers, i \in Identities : SocialCreates(b, i)
    \/ \E a \in Ids : AsksForReset(a)
    \/ \E a \in Ids : AsksForVerification(a)
    \/ \E b \in Browsers, e \in Emails : AsksForChange(b, e)
    \/ \E l \in links : OpensVerification(l)
    \/ \E l \in links : OpensChange(l)
    \/ \E b \in Browsers, l \in links : OpensReset(b, l)
    \/ \E l \in links : LinkExpires(l)
    \/ \E b \in Browsers : ResetsPassword(b)
    \/ \E b \in Browsers : ChecksPassword(b)
    \/ \E b \in Browsers : ChangesPassword(b)
    \/ \E b \in Browsers : RevokesOthers(b)
    \/ \E a \in Ids, status \in {"active", "suspended"} : SetStatus(a, status)
    \/ \E b \in Browsers : AsksToDelete(b)
    \/ \E b \in Browsers : Deletes(b)

AccountsSpec == AccountsInit /\ [][AccountsNext]_accountsVars

-----------------------------------------------------------------------------
\* Every row has its columns, and ids are those given out so far.
AccountsTypeOK ==
    /\ created \in 0..MaxAccounts
    /\ accounts \in [Ids -> Row \cup {None}]
    /\ \A a \in Ids : Known(a) => a <= created
    /\ identities \in
         [Identities -> [account : Ids, late : BOOLEAN] \cup {None}]
    /\ sessions \subseteq [token : Tokens, account : Ids, gen : 0..MaxGen,
                           late : BOOLEAN]
    /\ cookie \in [Browsers -> Tokens \cup {None}]
    /\ links \subseteq Link
    /\ proven \subseteq Ids \X Emails

\* update_password_hash and set_account_status end the sessions of the account:
\* no session outlives the password it was opened with, or opens a suspended
\* or deleted account, unless the handler that issued it had authenticated
\* before the change and wrote the session after it.
OldCredentialsAreOut ==
    \A s \in sessions :
      s.late \/ (Active(s.account) /\ s.gen = accounts[s.account].gen)

\* With verification required, a verified account's address is one whose link
\* for that account was opened, or that the provider vouched for, through sign-
\* ups, resends, address changes and provider sign-ins in any order.
VerifiedOwnsItsAddress ==
    Strict => \A a \in Ids :
      Known(a) /\ accounts[a].verified => <<a, accounts[a].email>> \in proven

\* delete_account leaves no session, link or identity behind, except a row a
\* handler already under way writes after the transaction.
DeletedAccountIsGone ==
    \A a \in Ids : ~Known(a) =>
      /\ LinksOf(a, {"reset", "verify", "change"}) = {}
      /\ \A s \in SessionsOf(a) : s.late
      /\ \A i \in Bound(a) : identities[i].late

=============================================================================
