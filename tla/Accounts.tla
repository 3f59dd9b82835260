------------------------------ MODULE Accounts ------------------------------
(***************************************************************************)
(* Accounts and the links mailed to them (users/services, users/views,     *)
(* users/admin.py, users/tokens.py).  A link is a signed snapshot of an    *)
(* account's row and works while the row still has the signed fields.  No  *)
(* handler locks a row: each reads it, decides, and writes in a later      *)
(* statement, some of them (password pages, the admin) the whole row as    *)
(* they read it.  Left out: deadlines of links (a link may be used at any  *)
(* later time), throttles (a mail may always be asked for), is_superuser.  *)
(***************************************************************************)
EXTENDS Naturals, FiniteSets

CONSTANTS
    Emails,         \* normalized addresses
    Requests,       \* web requests in flight
    MaxUsers,       \* bound: accounts ever created
    MaxStamp,       \* bound: password hashes and login times ever made
    MaxTasks,       \* bound: mail tasks published
    MaxLinks,       \* bound: links mailed
    AdminForms,     \* the admin's forms in use
    Absent,         \* no row
    Idle,           \* no request
    NoLink          \* of a request that came without a link

ASSUME BoundsAssumption ==
    MaxUsers \in Nat /\ MaxStamp \in Nat /\ MaxTasks \in Nat /\ MaxLinks \in Nat
ASSUME AdminAssumption == AdminForms \subseteq {"change", "set_password", "disable_password"}

Pks == 1 .. MaxUsers
Stamps == 0 .. MaxStamp
Kinds == {"verify", "reset", "invite"}
Never == 0      \* the last_login of an account that never logged in

\* A row of users; email_verified_at is kept as whether it is set.  A password
\* is salted, and one that cannot be used is random: either is a new stamp.
User == [email : Emails, is_active : BOOLEAN, is_staff : BOOLEAN, verified : BOOLEAN,
         password : Stamps, usable : BOOLEAN, last_login : Stamps]

HasUsablePassword(row) == row.usable
CanResetPassword(row) == row.is_active /\ ~row.is_staff /\ HasUsablePassword(row)
IsInvitePending(row) == row.is_active /\ ~HasUsablePassword(row)
IsVerificationPending(row) == row.is_active /\ ~row.verified

\* Mutant of ResetToken: the password is not signed.
ResetTokenOfAnyPassword(row) == [row EXCEPT !.verified = FALSE, !.password = 0]

\* What a token signs: the row with the fields that do not void it blanked.
VerifyToken(row) == [row EXCEPT !.is_active = TRUE, !.is_staff = FALSE,
                                !.password = 0, !.usable = TRUE, !.last_login = Never]
ResetToken(row) == [row EXCEPT !.verified = FALSE]
InviteToken(row) == [row EXCEPT !.verified = FALSE, !.is_staff = FALSE]

Token(kind, row) == CASE kind = "verify" -> VerifyToken(row)
                      [] kind = "reset"  -> ResetToken(row)
                      [] kind = "invite" -> InviteToken(row)

\* A mailed link: the account it is for, the address it went to, its token.
Link == [kind : Kinds, pk : Pks, to : Emails, token : User]

\* A request between its read of an account and its write: the row it read
\* and the link it came with.
InFlight == [op : {"login", "admin"}, pk : Pks, row : User, link : {NoLink}]
            \union [op : {"verify", "set_password"}, pk : Pks, row : User, link : Link]

ASSUME SentinelAssumption == Absent \notin User /\ Idle \notin InFlight /\ NoLink \notin Link

VARIABLES
    users,      \* the rows of users, by primary key
    created,    \* how many were ever inserted: keys are not reused
    stamp,      \* the last password hash or login time made
    queue,      \* the mail tasks published, as [kind, pk]
    inbox,      \* the links mailed
    inflight,   \* what each request is in the middle of
    used,       \* history: the links that took effect
    crossed,    \* history: <<pk, email>> confirmed by a page that had read another
                \* address
    byStaff,    \* history: the passwords that staff chose
    putBack     \* history: the passwords that staff's forms put back
history == <<used, crossed, byStaff, putBack>>
vars == <<users, created, stamp, queue, inbox, inflight, history>>

Exists(pk) == users[pk] # Absent
Stored == {pk \in Pks : Exists(pk)}
\* Mutant of EmailTaken: no unique constraint.
EmailTakenNever(email, pk) == FALSE
EmailTaken(email, pk) == \E other \in Stored \ {pk} : users[other].email = email

\* A task may be delivered again, so it is never taken from the queue; one
\* that the broker refused (logged, and the request goes on) or that is never
\* delivered is one that no worker runs.
Publish(kind, pk) ==
    /\ queue' = queue \union {[kind |-> kind, pk |-> pk]}
    /\ Cardinality(queue') =< MaxTasks

NewStamp == stamp < MaxStamp /\ stamp' = stamp + 1

Begin(r, op, pk, link) ==
    /\ inflight[r] = Idle
    /\ inflight' = [inflight EXCEPT ![r] =
           [op |-> op, pk |-> pk, row |-> users[pk], link |-> link]]
End(r) == inflight' = [inflight EXCEPT ![r] = Idle]
Running(r, op) == inflight[r] # Idle /\ inflight[r].op = op
\* The row of the request's account still has the password that it read.
StillPassword(r) == Exists(inflight[r].pk) /\ users[inflight[r].pk].password = inflight[r].row.password

\* Model.save() of a row read earlier: it UPDATEs every column, or INSERTs the
\* row when it is gone.  The unique email refuses it and rolls back.
Saves(pk, row) == ~EmailTaken(row.email, pk) /\ users' = [users EXCEPT ![pk] = row]

-----------------------------------------------------------------------------
Init ==
    /\ users = [pk \in Pks |-> Absent]
    /\ created = 0
    /\ stamp = 0
    /\ queue = {}
    /\ inbox = {}
    /\ inflight = [r \in Requests |-> Idle]
    /\ used = {} /\ crossed = {} /\ byStaff = {} /\ putBack = {}

\* UserManager.create_user: a new row, with a password or one nobody knows.
CreateUser(email, staff, usable) ==
    /\ created < MaxUsers
    /\ created' = created + 1
    /\ NewStamp
    /\ Saves(created', [email |-> email, is_active |-> TRUE, is_staff |-> staff,
                        verified |-> FALSE, password |-> stamp', usable |-> usable,
                        last_login |-> Never])

\* UserService.signup: the first verification link is published at once.
Signup(email) ==
    /\ CreateUser(email, FALSE, TRUE)
    /\ Publish("verify", created')
    /\ UNCHANGED <<inbox, inflight, history>>

\* The admin's add form; an invite has no password until its link is used.
Invite(email, staff) ==
    /\ CreateUser(email, staff, FALSE)
    /\ Publish("invite", created')
    /\ UNCHANGED <<inbox, inflight, history>>

ResendInvite(pk) ==
    /\ Exists(pk) /\ IsInvitePending(users[pk])
    /\ Publish("invite", pk)
    /\ UNCHANGED <<users, created, stamp, inbox, inflight, history>>

RequestReset(pk) ==
    /\ Exists(pk) /\ CanResetPassword(users[pk])
    /\ Publish("reset", pk)
    /\ UNCHANGED <<users, created, stamp, inbox, inflight, history>>

\* A right password at the account's own door: staff enter at the admin's.
LoginRead(r, pk) ==
    /\ Exists(pk) /\ users[pk].is_active /\ HasUsablePassword(users[pk])
    /\ users[pk].is_staff \/ users[pk].verified
    /\ Begin(r, "login", pk, NoLink)
    /\ UNCHANGED <<users, created, stamp, queue, inbox, history>>

\* A right password of a consumer whose email is unconfirmed.
LoginUnverified(pk) ==
    /\ Exists(pk) /\ HasUsablePassword(users[pk]) /\ ~users[pk].is_staff
    /\ IsVerificationPending(users[pk])
    /\ Publish("verify", pk)
    /\ UNCHANGED <<users, created, stamp, inbox, inflight, history>>

\* Mutant of LoginCommit: the whole row is saved, as it was read.
LoginCommitRow(r) ==
    /\ Running(r, "login")
    /\ NewStamp
    /\ Saves(inflight[r].pk, [inflight[r].row EXCEPT !.last_login = stamp'])
    /\ End(r)
    /\ UNCHANGED <<created, queue, inbox, history>>

\* Django's update_last_login writes that column alone, and fails when the row
\* is gone.
LoginCommit(r) ==
    /\ Running(r, "login")
    /\ LET pk == inflight[r].pk
       IN  IF Exists(pk) THEN NewStamp /\ users' = [users EXCEPT ![pk].last_login = stamp']
                         ELSE UNCHANGED <<users, stamp>>
    /\ End(r)
    /\ UNCHANGED <<created, queue, inbox, history>>

-----------------------------------------------------------------------------
\* The worker asks again, when it runs, whether the account may get the mail.
MayGet(kind, row) == CASE kind = "verify" -> IsVerificationPending(row)
                       [] kind = "reset"  -> CanResetPassword(row)
                       [] kind = "invite" -> IsInvitePending(row)

SendMail(task) ==
    /\ Exists(task.pk) /\ MayGet(task.kind, users[task.pk])
    /\ inbox' = inbox \union
           {[kind |-> task.kind, pk |-> task.pk, to |-> users[task.pk].email,
             token |-> Token(task.kind, users[task.pk])]}
    /\ Cardinality(inbox') =< MaxLinks
    /\ UNCHANGED <<users, created, stamp, queue, inflight, history>>

\* check_token: the row still has what the link signs; a verification link is
\* looked up among active accounts only.
Accepts(link) ==
    /\ Exists(link.pk)
    /\ Token(link.kind, users[link.pk]) = link.token
    /\ link.kind = "verify" => users[link.pk].is_active

\* The POST of a link's page reads the account and checks the token.
OpenLink(r, link) ==
    /\ Accepts(link)
    /\ Begin(r, IF link.kind = "verify" THEN "verify" ELSE "set_password", link.pk, link)
    /\ UNCHANGED <<users, created, stamp, queue, inbox, history>>

\* mark_verified: an UPDATE by key of a row that is still unverified.
CommitVerify(r) ==
    /\ Running(r, "verify")
    /\ LET pk == inflight[r].pk
       IN  IF Exists(pk) /\ ~users[pk].verified
           THEN /\ users' = [users EXCEPT ![pk].verified = TRUE]
                /\ used' = used \union {inflight[r].link}
                /\ crossed' = IF users[pk].email = inflight[r].row.email THEN crossed
                              ELSE crossed \union {<<pk, users[pk].email>>}
           ELSE UNCHANGED <<users, used, crossed>>
    /\ End(r)
    /\ UNCHANGED <<created, stamp, queue, inbox, byStaff, putBack>>

\* Mutant of CommitPassword: mark_verified is skipped.
CommitPasswordOnly(r) ==
    /\ Running(r, "set_password")
    /\ NewStamp
    /\ Saves(inflight[r].pk, [inflight[r].row EXCEPT !.password = stamp', !.usable = TRUE])
    /\ used' = used \union {inflight[r].link}
    /\ End(r)
    /\ UNCHANGED <<created, queue, inbox, crossed, byStaff, putBack>>

\* Mutant of CommitPassword: only the columns that change are saved, to the row
\* as it is by then.
CommitPasswordColumns(r) ==
    /\ Running(r, "set_password")
    /\ NewStamp
    /\ Exists(inflight[r].pk)
    /\ users' = [users EXCEPT ![inflight[r].pk] = [@ EXCEPT !.password = stamp', !.usable = TRUE, !.verified = TRUE]]
    /\ used' = used \union {inflight[r].link}
    /\ End(r)
    /\ UNCHANGED <<created, queue, inbox, crossed, byStaff, putBack>>

\* One transaction: the whole row is saved with the new password, then marked
\* verified.
CommitPassword(r) ==
    /\ Running(r, "set_password")
    /\ NewStamp
    /\ Saves(inflight[r].pk, [inflight[r].row EXCEPT !.password = stamp', !.usable = TRUE, !.verified = TRUE])
    /\ used' = used \union {inflight[r].link}
    /\ End(r)
    /\ UNCHANGED <<created, queue, inbox, crossed, byStaff, putBack>>

-----------------------------------------------------------------------------
AdminRead(r, pk) ==
    /\ Exists(pk)
    /\ Begin(r, "admin", pk, NoLink)
    /\ UNCHANGED <<users, created, stamp, queue, inbox, history>>

\* Mutant of Confirmation: a changed address stays confirmed.
ConfirmationKept(row) ==
    IF IsInvitePending(row) THEN [row |-> row, mail |-> "invite"]
    ELSE IF row.is_staff THEN [row |-> row, mail |-> "none"]
    ELSE [row |-> row, mail |-> "verify"]

\* EmailChangeService.request_confirmation of a saved row with a new address.
Confirmation(row) ==
    IF IsInvitePending(row) THEN [row |-> row, mail |-> "invite"]
    ELSE IF row.is_staff THEN [row |-> row, mail |-> "none"]
    ELSE [row |-> [row EXCEPT !.verified = FALSE], mail |-> "verify"]

\* The change form's effect on the row it read: staff status is disabled in it.
Edited(old, email, active) == [old EXCEPT !.email = email, !.is_active = active]
Outcome(old, email, active) ==
    IF email = old.email THEN [row |-> Edited(old, email, active), mail |-> "none"]
                         ELSE Confirmation(Edited(old, email, active))

\* save_model of the change form: every column of the row as it was read, with
\* the form's email and is_active, and what a change of email entails.
AdminChange(r, email, active) ==
    /\ Running(r, "admin") /\ "change" \in AdminForms
    /\ LET outcome == Outcome(inflight[r].row, email, active)
       IN  /\ Saves(inflight[r].pk, outcome.row)
           /\ IF outcome.mail = "none" THEN UNCHANGED queue
                                       ELSE Publish(outcome.mail, inflight[r].pk)
    /\ putBack' = IF StillPassword(r) THEN putBack
                  ELSE putBack \union {inflight[r].row.password}
    /\ End(r)
    /\ UNCHANGED <<created, stamp, inbox, crossed, used, byStaff>>

AdminSetPassword(r) ==
    /\ Running(r, "admin") /\ "set_password" \in AdminForms
    /\ NewStamp
    /\ Saves(inflight[r].pk, [inflight[r].row EXCEPT !.password = stamp', !.usable = TRUE])
    /\ byStaff' = byStaff \union {stamp'}
    /\ End(r)
    /\ UNCHANGED <<created, queue, inbox, crossed, used, putBack>>

AdminDisablePassword(r) ==
    /\ Running(r, "admin") /\ "disable_password" \in AdminForms
    /\ NewStamp
    /\ Saves(inflight[r].pk, [inflight[r].row EXCEPT !.password = stamp', !.usable = FALSE])
    /\ End(r)
    /\ UNCHANGED <<created, queue, inbox, history>>

AdminDelete(pk) ==
    /\ Exists(pk)
    /\ users' = [users EXCEPT ![pk] = Absent]
    /\ UNCHANGED <<created, stamp, queue, inbox, inflight, history>>

\* A request whose process dies, or whose write the database refuses for the
\* unique email, is rolled back and changes nothing.
Abandon(r) ==
    /\ inflight[r] # Idle
    /\ End(r)
    /\ UNCHANGED <<users, created, stamp, queue, inbox, history>>

Next ==
    \/ \E email \in Emails : Signup(email) \/ \E staff \in BOOLEAN : Invite(email, staff)
    \/ \E pk \in Pks : ResendInvite(pk) \/ RequestReset(pk) \/ LoginUnverified(pk)
                       \/ AdminDelete(pk)
    \/ \E r \in Requests, pk \in Pks : LoginRead(r, pk) \/ AdminRead(r, pk)
    \/ \E task \in queue : SendMail(task)
    \/ \E r \in Requests, link \in inbox : OpenLink(r, link)
    \/ \E r \in Requests :
        \/ LoginCommit(r) \/ CommitVerify(r) \/ CommitPassword(r)
        \/ AdminSetPassword(r) \/ AdminDisablePassword(r) \/ Abandon(r)
        \/ \E email \in Emails, active \in BOOLEAN : AdminChange(r, email, active)

Spec == Init /\ [][Next]_vars

-----------------------------------------------------------------------------
\* The variables hold what the code can put in them, and no two accounts share
\* an address.
TypeOK ==
    /\ users \in [Pks -> User \union {Absent}]
    /\ created \in 0 .. MaxUsers
    /\ stamp \in Stamps
    /\ queue \subseteq [kind : Kinds, pk : Pks]
    /\ inbox \subseteq Link
    /\ inflight \in [Requests -> InFlight \union {Idle}]
    /\ crossed \subseteq Pks \X Emails
    /\ used \subseteq Link
    /\ byStaff \subseteq Stamps
    /\ putBack \subseteq Stamps
    /\ \A p, q \in Stored : users[p].email = users[q].email => p = q

LetIn == {pk \in Stored : users[pk].verified /\ ~users[pk].is_staff /\ users[pk].usable}
Proved(pk) == \E link \in used : link.pk = pk /\ link.to = users[pk].email

\* "A consumer can't log in until the email is confirmed" (README.md): a
\* consumer with a confirmed email and a password of its own used a link that
\* was mailed to that very address.
ConfirmedMeansProved == \A pk \in LetIn : users[pk].password \notin byStaff => Proved(pk)

\* The same but for an address that staff gave the account while a confirm page
\* was between the check of its token and its write (which is by key, without
\* another look at the address): that is the only way in, whatever whole rows
\* staff and password pages save over one another, and however staff disable
\* passwords and send links again.
VerifiedMeansProved ==
    \A pk \in LetIn : users[pk].password \notin byStaff =>
        Proved(pk) \/ <<pk, users[pk].email>> \in crossed

\* "Changing a consumer's email in the admin makes it unconfirmed again"
\* (README.md, "Invites"): the same for passwords that staff chose.
UnprovedIsUnconfirmed ==
    \A pk \in LetIn : Proved(pk) \/ <<pk, users[pk].email>> \in crossed

\* "The link works once" (README.md, "Invites"): a reset or invite link that
\* took effect matches its account again only when staff saved a form that
\* they had opened before and so put the old password back.  No password page,
\* login or confirmation does it, whatever row it read.
UsedLinkRefused ==
    \A link \in used : link.kind # "verify" /\ Accepts(link)
        => users[link.pk].password \in putBack

\* The request that ends in this step with a write, and one of an operation on
\* an account.
Commits(r) == inflight[r] # Idle /\ inflight'[r] = Idle /\ users' # users
Writes(r, op, pk) == Commits(r) /\ inflight[r].op = op /\ inflight[r].pk = pk

\* "Links sent to the old address stop working" (README.md, "Invites"): who
\* holds a reset or invite link never sets the password of an account at
\* another address, though staff may change the address after the token was
\* compared; the page leaves the account active and where the link was sent.
PasswordSetAtItsAddress ==
    [][\A r \in Requests, pk \in Pks : Writes(r, "set_password", pk) =>
          /\ users'[pk] # Absent /\ users'[pk].is_active
          /\ users'[pk].email = inflight[r].link.to]_vars

\* What staff decide about an account: that it exists, is active, its address.
Standing(row) ==
    IF row = Absent THEN Absent ELSE [email |-> row.email, is_active |-> row.is_active,
                                      is_staff |-> row.is_staff]

\* Only staff change an account's standing, but for a password page, which puts
\* back the standing that its link was checked against: a login or confirmation
\* that read the row earlier never undoes a deactivation, a deletion or a
\* change of address.
OnlyAdminsEdit ==
    [][\A pk \in 1 .. created : Standing(users'[pk]) # Standing(users[pk]) =>
          \/ users'[pk] = Absent
          \/ \E r \in Requests : Writes(r, "admin", pk)
          \/ \E r \in Requests : /\ Writes(r, "set_password", pk)
                                 /\ Standing(users'[pk]) = Standing(inflight[r].row)]_vars

\* "Someone who leaves is deactivated" (README.md, "Invites"): an account that
\* staff deactivated stays so until staff activate it.
DeactivationStands ==
    [][\A pk \in Pks :
          users[pk] # Absent /\ ~users[pk].is_active /\ users'[pk] # Absent
          => ~users'[pk].is_active \/ \E r \in Requests : Writes(r, "admin", pk)]_vars

\* A confirmed email stays confirmed while the address does, though password
\* pages save rows they read before the confirmation.  The one exception is a
\* form that staff opened when the account was unconfirmed or elsewhere.
VerifiedSticks ==
    [][\A pk \in Pks :
          users[pk] # Absent /\ users[pk].verified /\ users'[pk] # Absent
          /\ users'[pk].email = users[pk].email
          => \/ users'[pk].verified
             \/ \E r \in Requests : /\ Writes(r, "admin", pk)
                                    /\ \/ ~inflight[r].row.verified
                                       \/ inflight[r].row.email # users[pk].email]_vars
=============================================================================
