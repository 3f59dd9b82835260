--------------------------- MODULE AccountsProofs ---------------------------
(***************************************************************************)
(* Proofs about Accounts.                                                  *)
(***************************************************************************)
EXTENDS Accounts, TLAPS

-----------------------------------------------------------------------------
(* What the steps share. *)

Rows == [Pks -> User \union {Absent}]
Unique == \A p, q \in Stored : users[p].email = users[q].email => p = q

\* A save keeps the table well typed and its addresses unique.
LEMMA SaveKeeps ==
    ASSUME users \in Rows, Unique, NEW pk \in Pks, NEW row \in User, Saves(pk, row)
    PROVE  /\ users' \in Rows
           /\ Unique'
           /\ users'[pk] = row
           /\ \A p \in Pks \ {pk} : users'[p] = users[p]
<1>1. /\ users' \in Rows /\ users'[pk] = row
      /\ \A p \in Pks \ {pk} : users'[p] = users[p]
    BY DEF Saves, Rows
<1>2. \A p \in Pks \ {pk} : users[p] # Absent => users[p].email # row.email
    BY DEF Saves, EmailTaken, Stored, Exists
<1>3. Unique'
    BY <1>1, <1>2 DEF Unique, Stored, Exists
<1>. QED BY <1>1, <1>3

\* So does an update of a column other than the address.
LEMMA ColumnKeeps ==
    ASSUME users \in Rows, Unique, NEW pk \in Pks, Exists(pk), NEW row \in User,
           row.email = users[pk].email, users' = [users EXCEPT ![pk] = row]
    PROVE  /\ users' \in Rows
           /\ Unique'
           /\ users'[pk] = row
           /\ \A p \in Pks \ {pk} : users'[p] = users[p]
<1>1. /\ users' \in Rows /\ users'[pk] = row
      /\ \A p \in Pks \ {pk} : users'[p] = users[p]
    BY DEF Rows
<1>2. Unique'
    BY <1>1 DEF Unique, Stored, Exists
<1>. QED BY <1>1, <1>2

\* A fresh stamp is one, and newer than all.
LEMMA StampKeeps ==
    ASSUME stamp \in Stamps, NewStamp PROVE stamp' \in Stamps /\ stamp' = stamp + 1
BY BoundsAssumption DEF Stamps, NewStamp

\* A token is a row with fields blanked, and keeps the address.
LEMMA TokenKeepsAddress ==
    ASSUME NEW kind \in Kinds, NEW row \in User
    PROVE  Token(kind, row) \in User /\ Token(kind, row).email = row.email
<1>1. 0 \in Stamps
    BY BoundsAssumption DEF Stamps
<1>2. CASE kind = "verify"
    <2>1. VerifyToken(row) \in User /\ VerifyToken(row).email = row.email
        BY <1>1 DEF VerifyToken, User, Never
    <2>. QED BY <1>2, <2>1 DEF Token
<1>3. CASE kind = "reset"
    <2>1. ResetToken(row) \in User /\ ResetToken(row).email = row.email
        BY DEF ResetToken, User
    <2>. QED BY <1>3, <2>1 DEF Token
<1>4. CASE kind = "invite"
    <2>1. InviteToken(row) \in User /\ InviteToken(row).email = row.email
        BY DEF InviteToken, User
    <2>. QED BY <1>4, <2>1 DEF Token
<1>. QED BY <1>2, <1>3, <1>4 DEF Kinds

\* All but a verification token sign is_active.
LEMMA TokenKeepsActive ==
    ASSUME NEW kind \in Kinds \ {"verify"}, NEW row \in User
    PROVE  Token(kind, row).is_active = row.is_active
<1>1. ResetToken(row).is_active = row.is_active /\ InviteToken(row).is_active = row.is_active
    BY DEF ResetToken, InviteToken, User
<1>. QED BY <1>1 DEF Token, Kinds

\* And the password.
LEMMA TokenKeepsPassword ==
    ASSUME NEW kind \in Kinds \ {"verify"}, NEW row \in User
    PROVE  Token(kind, row).password = row.password
<1>1. ResetToken(row).password = row.password /\ InviteToken(row).password = row.password
    BY DEF ResetToken, InviteToken, User
<1>. QED BY <1>1 DEF Token, Kinds

-----------------------------------------------------------------------------
(* Types. *)

LEMMA BeginType ==
    ASSUME TypeOK, NEW r \in Requests, NEW op, NEW pk \in Pks, Exists(pk), NEW link,
           \/ op \in {"login", "admin"} /\ link = NoLink
           \/ op \in {"verify", "set_password"} /\ link \in Link,
           Begin(r, op, pk, link)
    PROVE  inflight' \in [Requests -> InFlight \union {Idle}]
<1>1. users[pk] \in User
    BY DEF TypeOK, Exists
<1>2. [op |-> op, pk |-> pk, row |-> users[pk], link |-> link] \in InFlight
    BY <1>1 DEF InFlight
<1>. QED BY <1>2 DEF TypeOK, Begin

LEMMA EndType ==
    ASSUME TypeOK, NEW r \in Requests, End(r)
    PROVE  inflight' \in [Requests -> InFlight \union {Idle}]
BY DEF TypeOK, End

LEMMA RunningType ==
    ASSUME TypeOK, NEW r \in Requests, NEW op, Running(r, op)
    PROVE  /\ inflight[r].pk \in Pks /\ inflight[r].row \in User
           /\ op \in {"verify", "set_password"} => inflight[r].link \in Link
           /\ op \in {"login", "admin"} => inflight[r].link = NoLink
BY DEF TypeOK, Running, InFlight

LEMMA PublishType ==
    ASSUME TypeOK, NEW kind \in Kinds, NEW pk \in Pks, Publish(kind, pk)
    PROVE  queue' \subseteq [kind : Kinds, pk : Pks]
BY DEF TypeOK, Publish

LEMMA CreateType ==
    ASSUME TypeOK, NEW email \in Emails, NEW staff \in BOOLEAN, NEW usable \in BOOLEAN,
           CreateUser(email, staff, usable)
    PROVE  /\ created' = created + 1 /\ created' \in Pks /\ stamp' \in Stamps
           /\ users' \in Rows /\ Unique'
<1> DEFINE row == [email |-> email, is_active |-> TRUE, is_staff |-> staff, verified |-> FALSE,
                   password |-> stamp', usable |-> usable, last_login |-> Never]
<1>1. created' = created + 1 /\ created' \in Pks
    BY BoundsAssumption DEF TypeOK, CreateUser, Pks
<1>2. stamp' \in Stamps /\ row \in User
    BY StampKeeps, BoundsAssumption DEF TypeOK, CreateUser, User, Stamps, Never
<1>3. users \in Rows /\ Unique /\ Saves(created', row)
    BY DEF TypeOK, Rows, Unique, CreateUser
<1>. HIDE DEF row
<1>. QED BY <1>1, <1>2, <1>3, SaveKeeps

\* What is left to show when a step leaves the table alone.
LEMMA SameRows == ASSUME TypeOK, UNCHANGED users PROVE users' \in Rows /\ Unique'
BY DEF TypeOK, Rows, Unique, Stored, Exists

\* A handler that saves a row made from the one it read.
LEMMA SaveType ==
    ASSUME TypeOK, NEW pk \in Pks, NEW row \in User, Saves(pk, row)
    PROVE  users' \in Rows /\ Unique'
<1>1. users \in Rows /\ Unique
    BY DEF TypeOK, Rows, Unique
<1>. QED BY <1>1, SaveKeeps

LEMMA PasswordRowType ==
    ASSUME NEW row \in User, NEW password \in Stamps, NEW usable \in BOOLEAN
    PROVE  /\ [row EXCEPT !.password = password, !.usable = usable] \in User
           /\ [row EXCEPT !.password = password, !.usable = usable, !.verified = TRUE] \in User
<1>1. [row EXCEPT !.password = password, !.usable = usable] \in User
    BY DEF User
<1>2. ASSUME NEW other \in User PROVE [other EXCEPT !.verified = TRUE] \in User
    BY DEF User
<1>. QED BY <1>1, <1>2

\* The row and the mail that the admin's change form ends in: the row is
\* confirmed only if it was, at that address, or if no password opens it.
LEMMA ChangedRow ==
    ASSUME NEW old \in User, NEW email \in Emails, NEW active \in BOOLEAN
    PROVE  /\ Outcome(old, email, active).row \in User
           /\ Outcome(old, email, active).mail \in Kinds \union {"none"}
           /\ Outcome(old, email, active).row.password = old.password
           /\ Outcome(old, email, active).row.is_staff = old.is_staff
           /\ email = old.email =>
                /\ Outcome(old, email, active).row.verified = old.verified
                /\ Outcome(old, email, active).row.email = old.email
                /\ Outcome(old, email, active).row.usable = old.usable
           /\ email # old.email =>
                \/ ~Outcome(old, email, active).row.verified
                \/ ~Outcome(old, email, active).row.usable
                \/ Outcome(old, email, active).row.is_staff
<1> DEFINE row == Edited(old, email, active)
<1>1. /\ row \in User /\ row.password = old.password /\ row.is_staff = old.is_staff
      /\ row.verified = old.verified /\ row.usable = old.usable /\ row.email = email
    BY DEF User, Edited
<1>2. CASE email = old.email
    <2>1. Outcome(old, email, active) = [row |-> row, mail |-> "none"]
        BY <1>2 DEF Outcome
    <2>. QED BY <1>1, <1>2, <2>1
<1>3. CASE email # old.email
    <2>1. Outcome(old, email, active) = Confirmation(row)
        BY <1>3 DEF Outcome
    <2>. HIDE DEF row
    <2>2. CASE IsInvitePending(row)
        <3>1. Confirmation(row) = [row |-> row, mail |-> "invite"] /\ ~row.usable
            BY <2>2 DEF Confirmation, IsInvitePending, HasUsablePassword
        <3>. QED BY <1>1, <1>3, <2>1, <3>1 DEF Kinds
    <2>3. CASE ~IsInvitePending(row) /\ row.is_staff
        <3>1. Confirmation(row) = [row |-> row, mail |-> "none"]
            BY <2>3 DEF Confirmation
        <3>2. row.is_staff /\ "none" \in Kinds \union {"none"}
            BY <2>3
        <3>3. Outcome(old, email, active).row = row /\ Outcome(old, email, active).mail = "none"
            BY <2>1, <3>1
        <3>. QED BY <1>1, <1>3, <3>2, <3>3
    <2>4. CASE ~IsInvitePending(row) /\ ~row.is_staff
        <3> DEFINE new == [row EXCEPT !.verified = FALSE]
        <3>1. Confirmation(row) = [row |-> new, mail |-> "verify"]
            BY <2>4 DEF Confirmation
        <3>2. /\ new \in User /\ new.password = row.password /\ new.is_staff = row.is_staff
              /\ ~new.verified
            BY <1>1 DEF User
        <3>. HIDE DEF new
        <3>. QED BY <1>1, <1>3, <2>1, <3>1, <3>2 DEF Kinds
    <2>. QED BY <2>2, <2>3, <2>4
<1>. QED BY <1>2, <1>3

\* Every step keeps the types.
LEMMA TypeStep == ASSUME TypeOK, [Next]_vars PROVE TypeOK'
<1>0. ASSUME users' \in Rows, Unique', created' \in 0 .. MaxUsers, stamp' \in Stamps,
             queue' \subseteq [kind : Kinds, pk : Pks], inbox' \subseteq Link,
             inflight' \in [Requests -> InFlight \union {Idle}],
             crossed' \subseteq Pks \X Emails, used' \subseteq Link,
             byStaff' \subseteq Stamps, putBack' \subseteq Stamps
      PROVE  TypeOK'
    BY <1>0 DEF TypeOK, Rows, Unique
<1>1. ASSUME NEW email \in Emails, Signup(email) PROVE TypeOK'
    <2>1. /\ created' \in Pks /\ stamp' \in Stamps
          /\ users' \in Rows /\ Unique'
        BY <1>1, CreateType DEF Signup
    <2>2. created' \in 0 .. MaxUsers
        BY <2>1, BoundsAssumption DEF Pks
    <2>3. queue' \subseteq [kind : Kinds, pk : Pks]
        BY <1>1, <2>1 DEF Signup, Publish, TypeOK, Kinds
    <2>. QED BY <1>0, <1>1, <2>1, <2>2, <2>3 DEF history, Signup, TypeOK
<1>2. ASSUME NEW email \in Emails, NEW staff \in BOOLEAN, Invite(email, staff) PROVE TypeOK'
    <2>1. /\ created' \in Pks /\ stamp' \in Stamps
          /\ users' \in Rows /\ Unique'
        BY <1>2, CreateType DEF Invite
    <2>2. created' \in 0 .. MaxUsers
        BY <2>1, BoundsAssumption DEF Pks
    <2>3. queue' \subseteq [kind : Kinds, pk : Pks]
        BY <1>2, <2>1 DEF Invite, Publish, TypeOK, Kinds
    <2>. QED BY <1>0, <1>2, <2>1, <2>2, <2>3 DEF history, Invite, TypeOK
<1>3. ASSUME NEW pk \in Pks, ResendInvite(pk) \/ RequestReset(pk) \/ LoginUnverified(pk)
      PROVE  TypeOK'
    BY <1>0, <1>3, PublishType, SameRows
    DEF history, ResendInvite, RequestReset, LoginUnverified, TypeOK, Kinds
<1>4. ASSUME NEW pk \in Pks, AdminDelete(pk) PROVE TypeOK'
    <2>1. users' \in Rows /\ Unique'
        BY <1>4 DEF AdminDelete, TypeOK, Rows, Unique, Stored, Exists
    <2>. QED BY <1>0, <1>4, <2>1 DEF history, AdminDelete, TypeOK
<1>5. ASSUME NEW r \in Requests, NEW pk \in Pks, LoginRead(r, pk) \/ AdminRead(r, pk)
      PROVE  TypeOK'
    <2>1. inflight' \in [Requests -> InFlight \union {Idle}]
        BY <1>5, BeginType DEF LoginRead, AdminRead
    <2>. QED BY <1>0, <1>5, <2>1, SameRows DEF history, LoginRead, AdminRead, TypeOK
<1>6. ASSUME NEW task \in queue, SendMail(task) PROVE TypeOK'
    <2> DEFINE link == [kind |-> task.kind, pk |-> task.pk, to |-> users[task.pk].email,
                        token |-> Token(task.kind, users[task.pk])]
    <2>1. task.kind \in Kinds /\ task.pk \in Pks /\ users[task.pk] \in User
        BY <1>6 DEF SendMail, TypeOK, Exists
    <2>2. users[task.pk].email \in Emails
        BY <2>1 DEF User
    <2>3. link \in Link
        BY <2>1, <2>2, TokenKeepsAddress DEF Link
    <2>4. inbox' = inbox \union {link}
        BY <1>6 DEF SendMail
    <2>. HIDE DEF link
    <2>. QED BY <1>0, <1>6, <2>3, <2>4, SameRows DEF history, SendMail, TypeOK
<1>7. ASSUME NEW r \in Requests, NEW link \in inbox, OpenLink(r, link) PROVE TypeOK'
    <2>1. link \in Link /\ link.pk \in Pks /\ link.to \in Emails /\ Exists(link.pk)
        BY <1>7 DEF OpenLink, Accepts, TypeOK, Link
    <2>2. inflight' \in [Requests -> InFlight \union {Idle}]
        BY <1>7, <2>1, BeginType DEF OpenLink
    <2>. QED BY <1>0, <1>7, <2>1, <2>2, SameRows DEF history, OpenLink, TypeOK
<1>8. ASSUME NEW r \in Requests, LoginCommit(r) PROVE TypeOK'
    <2>1. inflight' \in [Requests -> InFlight \union {Idle}]
        BY <1>8, EndType DEF LoginCommit
    <2>2. inflight[r].pk \in Pks
        BY <1>8, RunningType DEF LoginCommit
    <2>3. CASE Exists(inflight[r].pk)
        <3> DEFINE pk  == inflight[r].pk
                   row == [users[pk] EXCEPT !.last_login = stamp']
        <3>1. stamp' \in Stamps
            BY <1>8, <2>3, StampKeeps DEF history, LoginCommit, TypeOK
        <3>2. users[pk] \in User /\ users' = [users EXCEPT ![pk] = row]
            BY <1>8, <2>2, <2>3 DEF LoginCommit, TypeOK, Exists
        <3>3. row \in User /\ row.email = users[pk].email
            BY <3>1, <3>2 DEF User
        <3>. HIDE DEF row
        <3>4. users' \in Rows /\ Unique'
            BY <2>2, <2>3, <3>2, <3>3, ColumnKeeps DEF TypeOK, Rows, Unique
        <3>. QED BY <1>0, <1>8, <2>1, <3>1, <3>4 DEF history, LoginCommit, TypeOK
    <2>4. CASE ~Exists(inflight[r].pk)
        BY <1>0, <1>8, <2>1, <2>4, SameRows DEF history, LoginCommit, TypeOK
    <2>. QED BY <2>3, <2>4
<1>9. ASSUME NEW r \in Requests, CommitVerify(r) PROVE TypeOK'
    <2>1. inflight' \in [Requests -> InFlight \union {Idle}]
        BY <1>9, EndType DEF CommitVerify
    <2>2. inflight[r].pk \in Pks /\ inflight[r].link \in Link
        BY <1>9, RunningType DEF CommitVerify
    <2>3. CASE Exists(inflight[r].pk) /\ ~users[inflight[r].pk].verified
        <3> DEFINE pk  == inflight[r].pk
                   row == [users[pk] EXCEPT !.verified = TRUE]
        <3>1. users[pk] \in User /\ users' = [users EXCEPT ![pk] = row]
            BY <1>9, <2>2, <2>3 DEF CommitVerify, TypeOK, Exists
        <3>2. row \in User /\ row.email = users[pk].email
            BY <3>1 DEF User
        <3>. HIDE DEF row
        <3>3. users' \in Rows /\ Unique'
            BY <2>2, <2>3, <3>1, <3>2, ColumnKeeps DEF TypeOK, Rows, Unique
        <3>4. used' \subseteq Link
            BY <1>9, <2>2, <2>3 DEF history, CommitVerify, TypeOK
        <3>5. users[pk].email \in Emails
            BY <3>1 DEF User
        <3>6. crossed' \subseteq Pks \X Emails
            BY <1>9, <2>2, <3>5 DEF CommitVerify, TypeOK
        <3>. QED BY <1>0, <1>9, <2>1, <3>3, <3>4, <3>6 DEF CommitVerify, TypeOK
    <2>4. CASE ~(Exists(inflight[r].pk) /\ ~users[inflight[r].pk].verified)
        BY <1>0, <1>9, <2>1, <2>4, SameRows DEF history, CommitVerify, TypeOK
    <2>. QED BY <2>3, <2>4
<1>10. ASSUME NEW r \in Requests,
              CommitPassword(r) \/ AdminSetPassword(r) \/ AdminDisablePassword(r)
       PROVE  TypeOK'
    <2> DEFINE pk == inflight[r].pk
               row == inflight[r].row
    <2>1. PICK op \in {"set_password", "admin"} : Running(r, op) /\ NewStamp /\ End(r)
        BY <1>10 DEF CommitPassword, AdminSetPassword, AdminDisablePassword
    <2>2. /\ pk \in Pks /\ row \in User
          /\ op = "set_password" => inflight[r].link \in Link
        BY <2>1, RunningType
    <2>3. inflight' \in [Requests -> InFlight \union {Idle}] /\ stamp' \in Stamps
        BY <2>1, EndType, StampKeeps DEF TypeOK
    <2>. HIDE DEF pk, row
    <2>4. users' \in Rows /\ Unique'
        BY <1>10, <2>2, <2>3, PasswordRowType, SaveType
        DEF CommitPassword, AdminSetPassword, AdminDisablePassword, pk, row
    <2>5. CommitPassword(r) => inflight[r].link \in Link
        BY <2>2, <1>10, RunningType DEF CommitPassword
    <2>. QED BY <1>0, <1>10, <2>3, <2>4, <2>5
         DEF history, CommitPassword, AdminSetPassword, AdminDisablePassword, TypeOK
<1>11. ASSUME NEW r \in Requests, NEW email \in Emails, NEW active \in BOOLEAN,
              AdminChange(r, email, active)
       PROVE  TypeOK'
    <2> DEFINE pk   == inflight[r].pk
               old  == inflight[r].row
               next == Outcome(old, email, active)
    <2>1. pk \in Pks /\ old \in User
        BY <1>11, RunningType DEF AdminChange
    <2>2. inflight' \in [Requests -> InFlight \union {Idle}]
        BY <1>11, EndType DEF AdminChange
    <2>3. next.row \in User /\ next.mail \in Kinds \union {"none"}
        BY <2>1, ChangedRow
    <2>4. /\ Saves(pk, next.row)
          /\ IF next.mail = "none" THEN UNCHANGED queue ELSE Publish(next.mail, pk)
          /\ UNCHANGED <<created, stamp, inbox, crossed, used, byStaff>>
          /\ putBack' \subseteq putBack \union {old.password}
        BY <1>11 DEF AdminChange
    <2>. HIDE DEF pk, next
    <2>5. users' \in Rows /\ Unique'
        BY <2>1, <2>3, <2>4, SaveType
    <2>6. queue' \subseteq [kind : Kinds, pk : Pks]
        BY <2>1, <2>3, <2>4, PublishType DEF TypeOK
    <2>7. putBack' \subseteq Stamps
        <3>1. old.password \in Stamps
            BY <2>1 DEF User
        <3>. QED BY <2>4, <3>1 DEF TypeOK
    <2>. QED BY <1>0, <2>2, <2>4, <2>5, <2>6, <2>7 DEF TypeOK
<1>12. ASSUME NEW r \in Requests, Abandon(r) PROVE TypeOK'
    <2>1. inflight' \in [Requests -> InFlight \union {Idle}]
        BY <1>12, EndType DEF Abandon
    <2>. QED BY <1>0, <1>12, <2>1, SameRows DEF history, Abandon, TypeOK
<1>13. CASE UNCHANGED vars
    BY <1>0, <1>13, SameRows DEF history, vars, TypeOK
<1>. QED BY <1>1, <1>2, <1>3, <1>4, <1>5, <1>6, <1>7, <1>8, <1>9, <1>10, <1>11, <1>12, <1>13
     DEF Next

\* In every behaviour the table holds rows of users with unique addresses, the
\* requests what they read, and the inboxes links that check_token can compare.
THEOREM TypeCorrect == Spec => []TypeOK
<1>1. Init => TypeOK
    BY BoundsAssumption DEF Init, TypeOK, Stamps, Stored, Exists
<1>. QED BY <1>1, TypeStep, PTL DEF Spec

-----------------------------------------------------------------------------
(* What each handler that writes a row leaves in it, whatever the rest of   *)
(* the table became since the handler read the row.                         *)

Others(own) == \A p \in Pks \ {own} : users'[p] = users[p]
Same(new, old) ==
    /\ new.email = old.email /\ new.is_active = old.is_active /\ new.is_staff = old.is_staff
    /\ new.verified = old.verified /\ new.usable = old.usable /\ new.password = old.password
\* The row that request r read, of account own, and what it saves instead.
Wrote(r, own, old, new) ==
    /\ own = inflight[r].pk /\ old = inflight[r].row /\ users'[own] = new
    /\ Others(own)

LEMMA CreatedRow ==
    ASSUME TypeOK, NEW email \in Emails, NEW staff \in BOOLEAN, NEW usable \in BOOLEAN,
           CreateUser(email, staff, usable)
    PROVE  \E own \in Pks, new \in User :
              /\ own = created + 1 /\ created' = created + 1
              /\ users'[own] = new /\ Others(own)
              /\ ~new.verified /\ new.password = stamp' /\ stamp' = stamp + 1
<1> DEFINE row == [email |-> email, is_active |-> TRUE, is_staff |-> staff, verified |-> FALSE,
                   password |-> stamp', usable |-> usable, last_login |-> Never]
<1>1. created' \in Pks /\ created' = created + 1 /\ stamp' \in Stamps /\ stamp' = stamp + 1
    BY CreateType, StampKeeps DEF CreateUser, TypeOK
<1>2. row \in User /\ ~row.verified /\ row.password = stamp'
    BY <1>1, BoundsAssumption DEF User, Stamps, Never
<1>3. Saves(created', row)
    BY DEF CreateUser
<1>. HIDE DEF row
<1>4. users'[created'] = row /\ Others(created')
    BY <1>1, <1>2, <1>3 DEF Saves, Others, TypeOK
<1>. QED BY <1>1, <1>2, <1>4

\* A login writes nothing that tokens and doors look at.
LEMMA LoginRow ==
    ASSUME TypeOK, NEW r \in Requests, LoginCommit(r), users' # users
    PROVE  \E own \in Pks, old \in User, new \in User :
              /\ own = inflight[r].pk /\ users[own] = old /\ users'[own] = new
              /\ Others(own) /\ Same(new, old)
<1>1. PICK own \in Pks : own = inflight[r].pk
    BY RunningType DEF LoginCommit
<1>2. users[own] # Absent /\ users' = [users EXCEPT ![own].last_login = stamp']
    BY <1>1 DEF LoginCommit, Exists
<1>3. PICK old \in User : old = users[own]
    BY <1>1, <1>2 DEF TypeOK
<1>4. stamp' \in Stamps
    BY <1>1, <1>2, StampKeeps DEF LoginCommit, Exists, TypeOK
<1> DEFINE new == [old EXCEPT !.last_login = stamp']
<1>5. new \in User /\ Same(new, old)
    BY <1>4 DEF User, Same
<1>. HIDE DEF new
<1>6. users'[own] = new /\ Others(own)
    <2>1. users' = [users EXCEPT ![own] = [users[own] EXCEPT !.last_login = stamp']]
        BY <1>2
    <2>2. users' = [users EXCEPT ![own] = new]
        BY <1>3, <2>1 DEF new
    <2>. QED BY <2>2 DEF Others, TypeOK
<1>. QED BY <1>1, <1>3, <1>5, <1>6

LEMMA ConfirmedRow ==
    ASSUME TypeOK, NEW r \in Requests, CommitVerify(r), users' # users
    PROVE  \E own \in Pks, old \in User, new \in User :
              /\ own = inflight[r].pk /\ users[own] = old /\ users'[own] = new
              /\ Others(own)
              /\ new.email = old.email /\ new.is_active = old.is_active
              /\ new.is_staff = old.is_staff /\ new.password = old.password
              /\ new.verified
              /\ used' = used \union {inflight[r].link}
              /\ \/ new.email = inflight[r].row.email
                 \/ crossed' = crossed \union {<<own, new.email>>}
<1>1. PICK own \in Pks : own = inflight[r].pk
    BY RunningType DEF CommitVerify
<1>2. /\ users[own] # Absent /\ users' = [users EXCEPT ![own].verified = TRUE]
      /\ used' = used \union {inflight[r].link}
      /\ \/ users[own].email = inflight[r].row.email
         \/ crossed' = crossed \union {<<own, users[own].email>>}
    BY <1>1 DEF CommitVerify, Exists
<1>3. PICK old \in User : old = users[own]
    BY <1>1, <1>2 DEF TypeOK
<1> DEFINE new == [old EXCEPT !.verified = TRUE]
<1>4. /\ new \in User
      /\ new.email = old.email /\ new.is_active = old.is_active
      /\ new.is_staff = old.is_staff /\ new.password = old.password
      /\ new.verified
    BY DEF User
<1>. HIDE DEF new
<1>5. users'[own] = new /\ Others(own)
    <2>1. users' = [users EXCEPT ![own] = [users[own] EXCEPT !.verified = TRUE]]
        BY <1>2
    <2>2. users' = [users EXCEPT ![own] = new]
        BY <1>3, <2>1 DEF new
    <2>. QED BY <2>2 DEF Others, TypeOK
<1>. QED BY <1>1, <1>2, <1>3, <1>4, <1>5

\* A whole row saved, by a password page or a form of the admin.
LEMMA RowSaved ==
    ASSUME TypeOK, NEW own \in Pks, NEW new \in User, Saves(own, new)
    PROVE  users'[own] = new /\ Others(own)
BY DEF Saves, Others, TypeOK

LEMMA PasswordRow ==
    ASSUME TypeOK, NEW r \in Requests, CommitPassword(r)
    PROVE  \E own \in Pks, old \in User, new \in User :
              /\ Wrote(r, own, old, new)
              /\ new.email = old.email /\ new.is_active = old.is_active
              /\ new.is_staff = old.is_staff /\ new.verified
              /\ new.password = stamp' /\ stamp' = stamp + 1
<1>1. PICK own \in Pks, old \in User : own = inflight[r].pk /\ old = inflight[r].row
    BY RunningType DEF CommitPassword
<1>2. PICK password \in Stamps : password = stamp' /\ stamp' = stamp + 1
    BY StampKeeps DEF CommitPassword, TypeOK
<1> DEFINE new == [old EXCEPT !.password = password, !.usable = TRUE, !.verified = TRUE]
<1>3. /\ new \in User
      /\ new.email = old.email /\ new.is_active = old.is_active
      /\ new.is_staff = old.is_staff /\ new.verified /\ new.password = password
    BY DEF User
<1>4. Saves(own, new)
    BY <1>1, <1>2 DEF CommitPassword
<1>. HIDE DEF new
<1>5. users'[own] = new /\ Others(own)
    BY <1>3, <1>4, RowSaved
<1>. QED BY <1>1, <1>2, <1>3, <1>5 DEF Wrote

LEMMA StaffPasswordRow ==
    ASSUME TypeOK, NEW r \in Requests, AdminSetPassword(r) \/ AdminDisablePassword(r)
    PROVE  \E own \in Pks, old \in User, new \in User :
              /\ Wrote(r, own, old, new)
              /\ new.email = old.email /\ new.verified = old.verified
              /\ new.password = stamp' /\ stamp' = stamp + 1
              /\ ~new.usable \/ new.password \in byStaff'
<1>1. PICK own \in Pks, old \in User : own = inflight[r].pk /\ old = inflight[r].row
    BY RunningType DEF AdminSetPassword, AdminDisablePassword
<1>2. PICK password \in Stamps : password = stamp' /\ stamp' = stamp + 1
    BY StampKeeps DEF AdminSetPassword, AdminDisablePassword, TypeOK
<1>3. PICK usable \in BOOLEAN :
        /\ Saves(own, [old EXCEPT !.password = password, !.usable = usable])
        /\ ~usable \/ password \in byStaff'
    <2>1. CASE AdminSetPassword(r)
        BY <1>1, <1>2, <2>1 DEF AdminSetPassword
    <2>2. CASE AdminDisablePassword(r)
        BY <1>1, <1>2, <2>2 DEF AdminDisablePassword
    <2>. QED BY <2>1, <2>2
<1> DEFINE new == [old EXCEPT !.password = password, !.usable = usable]
<1>4. /\ new \in User
      /\ new.email = old.email /\ new.verified = old.verified
      /\ new.password = password /\ new.usable = usable
    BY DEF User
<1>5. Saves(own, new)
    BY <1>3
<1>. HIDE DEF new
<1>6. users'[own] = new /\ Others(own)
    BY <1>4, <1>5, RowSaved
<1>. QED BY <1>1, <1>2, <1>3, <1>4, <1>6 DEF Wrote

LEMMA FormRow ==
    ASSUME TypeOK, NEW r \in Requests, NEW email \in Emails, NEW active \in BOOLEAN,
           AdminChange(r, email, active)
    PROVE  \E own \in Pks, old \in User, new \in User :
              /\ Wrote(r, own, old, new)
              /\ new.email = email /\ new.password = old.password /\ new.is_staff = old.is_staff
              /\ email = old.email => new.verified = old.verified /\ new.usable = old.usable
              /\ email # old.email => ~new.verified \/ ~new.usable \/ new.is_staff
              /\ \/ users[own] # Absent /\ users[own].password = new.password
                 \/ new.password \in putBack'
<1>1. PICK own \in Pks, old \in User : own = inflight[r].pk /\ old = inflight[r].row
    BY RunningType DEF AdminChange
<1> DEFINE new == Outcome(old, email, active).row
<1>2. /\ new \in User /\ new.password = old.password /\ new.is_staff = old.is_staff
      /\ email = old.email => new.verified = old.verified /\ new.usable = old.usable
      /\ email # old.email => ~new.verified \/ ~new.usable \/ new.is_staff
    BY ChangedRow
<1>3. new.email = email
    <2>1. Edited(old, email, active) \in User /\ Edited(old, email, active).email = email
        BY DEF Edited, User
    <2>2. ASSUME NEW row \in User PROVE Confirmation(row).row.email = row.email
        <3>1. [row EXCEPT !.verified = FALSE].email = row.email
            BY DEF User
        <3>. QED BY <3>1 DEF Confirmation
    <2>. QED BY <2>1, <2>2 DEF Outcome
<1>4. Saves(own, new)
    BY <1>1 DEF AdminChange
<1>5. \/ users[own] # Absent /\ users[own].password = old.password
      \/ old.password \in putBack'
    BY <1>1 DEF AdminChange, StillPassword, Exists
<1>. HIDE DEF new
<1>6. users'[own] = new /\ Others(own)
    BY <1>2, <1>4 DEF Saves, Others, TypeOK
<1>. QED BY <1>1, <1>2, <1>3, <1>5, <1>6 DEF Wrote

-----------------------------------------------------------------------------
(* The invariant behind the rest.  It says of a row that a request has read *)
(* what it says of a stored one: any such row may be saved again, at any    *)
(* later time, over whatever is stored by then.                             *)

\* An account that may be let in used a link mailed to its address, or was
\* confirmed by a page that had read another one.
Vouched(pk, row) ==
    row.verified /\ ~row.is_staff /\ row.usable /\ row.password \notin byStaff
        => \/ \E link \in used : link.pk = pk /\ link.to = row.email
           \/ <<pk, row.email>> \in crossed
\* Passwords are stamped in order, and keys given out in order.
Fine(pk, row) == row.password =< stamp /\ pk =< created /\ Vouched(pk, row)

StoredFine == \A pk \in Pks : users[pk] # Absent => Fine(pk, users[pk])
ReadFine == \A r \in Requests : inflight[r] # Idle => Fine(inflight[r].pk, inflight[r].row)

\* A link signs the address it went to and what its account was then.
Signed(link) == /\ link.token.email = link.to
                /\ link.kind # "verify" => link.token.is_active /\ link.token.password =< stamp
LinksSigned == \A link \in inbox : Signed(link)

\* A page runs for a link that was mailed to the address of the row it read.
OfLink(request) ==
    /\ request.link \in inbox /\ request.link.pk = request.pk
    /\ request.op = "verify" <=> request.link.kind = "verify"
    /\ request.row.email = request.link.to /\ request.row.is_active
ByLink(r) == inflight[r] # Idle /\ inflight[r].op \in {"verify", "set_password"}
PagesOfLinks == \A r \in Requests : ByLink(r) => OfLink(inflight[r])

\* A used reset or invite link signed a password that its account has no more,
\* or that a form put back.
Outdated(link) ==
    users[link.pk] # Absent => \/ users[link.pk].password # link.token.password
                               \/ users[link.pk].password \in putBack
UsedOutdated == \A link \in used : link \in inbox /\ (link.kind # "verify" => Outdated(link))

IInv == /\ TypeOK
        /\ StoredFine
        /\ ReadFine
        /\ LinksSigned
        /\ PagesOfLinks
        /\ UsedOutdated

\* What no step takes back.
Grows == /\ stamp =< stamp' /\ created =< created' /\ inbox \subseteq inbox'
         /\ used \subseteq used' /\ crossed \subseteq crossed'
         /\ byStaff \subseteq byStaff' /\ putBack \subseteq putBack'

LEMMA StepGrows == ASSUME TypeOK, [Next]_vars PROVE Grows
<1>1. created \in Nat /\ stamp \in Nat
    BY BoundsAssumption DEF TypeOK, Stamps
<1>2. /\ inbox \subseteq inbox' /\ used \subseteq used' /\ crossed \subseteq crossed'
      /\ byStaff \subseteq byStaff' /\ putBack \subseteq putBack'
    BY DEF history, Next, vars, Signup, Invite, ResendInvite, RequestReset, LoginUnverified,
            LoginRead, LoginCommit, AdminRead, SendMail, OpenLink, CommitVerify, CommitPassword,
            AdminChange, AdminSetPassword, AdminDisablePassword, AdminDelete, Abandon
<1>3. created' \in {created, created + 1}
    BY DEF CreateUser, Next, vars, Signup, Invite, ResendInvite, RequestReset, LoginUnverified,
            LoginRead, LoginCommit, AdminRead, SendMail, OpenLink, CommitVerify, CommitPassword,
            AdminChange, AdminSetPassword, AdminDisablePassword, AdminDelete, Abandon
<1>4. stamp' \in {stamp, stamp + 1}
    BY DEF CreateUser, NewStamp, Next, vars, Signup, Invite, ResendInvite, RequestReset,
            LoginUnverified, LoginRead, LoginCommit, AdminRead, SendMail, OpenLink, CommitVerify,
            CommitPassword, AdminChange, AdminSetPassword, AdminDisablePassword, AdminDelete,
            Abandon
<1>. QED BY <1>1, <1>2, <1>3, <1>4 DEF Grows

\* So what is fine about a row stays fine.
LEMMA StaysFine ==
    ASSUME TypeOK, [Next]_vars, NEW pk \in Pks, NEW row \in User, Fine(pk, row)
    PROVE  Fine(pk, row)'
<1>1. Grows /\ TypeOK'
    BY StepGrows, TypeStep
<1>2. /\ stamp \in Nat /\ stamp' \in Nat /\ created \in Nat /\ created' \in Nat
      /\ row.password \in Nat /\ pk \in Nat
    BY <1>1, BoundsAssumption DEF TypeOK, Stamps, User, Pks
<1>3. row.password =< stamp' /\ pk =< created'
    BY <1>1, <1>2 DEF Fine, Grows
<1>4. Vouched(pk, row)'
    BY <1>1 DEF Fine, Vouched, Grows
<1>. QED BY <1>3, <1>4 DEF Fine

\* A row that differs from a fine one only in its last login is fine.
LEMMA FineAsOther ==
    ASSUME NEW pk \in Pks, NEW old \in User, NEW new \in User, Same(new, old), Fine(pk, old)
    PROVE  Fine(pk, new)
BY DEF Fine, Vouched, Same

\* A step that writes one row is done when that row is fine.
LEMMA OneRow ==
    ASSUME IInv, [Next]_vars, NEW own \in Pks, NEW new \in User,
           users'[own] = new, Others(own), Fine(own, new)'
    PROVE  StoredFine'
<1>. SUFFICES ASSUME NEW pk \in Pks, NEW row \in User, users'[pk] = row PROVE Fine(pk, row)'
    BY TypeStep DEF StoredFine, Fine, Vouched, IInv, TypeOK
<1>1. CASE pk = own
    BY <1>1
<1>2. CASE pk # own
    <2>1. users[pk] = row /\ Fine(pk, row)
        BY <1>2, SentinelAssumption DEF Others, IInv, StoredFine
    <2>. QED BY <2>1, StaysFine DEF IInv
<1>. QED BY <1>1, <1>2

\* One that writes none, or deletes, is done at once.
LEMMA NoRow ==
    ASSUME IInv, [Next]_vars, \A pk \in Pks : users'[pk] \in {users[pk], Absent}
    PROVE  StoredFine'
<1>. SUFFICES ASSUME NEW pk \in Pks, NEW row \in User, users'[pk] = row PROVE Fine(pk, row)'
    BY TypeStep DEF StoredFine, Fine, Vouched, IInv, TypeOK
<1>1. users[pk] = row /\ Fine(pk, row)
    BY SentinelAssumption DEF IInv, StoredFine
<1>. QED BY <1>1, StaysFine DEF IInv

\* What a request read, and the link it came with.
LEMMA ReadRow ==
    ASSUME IInv, NEW r \in Requests, inflight[r] # Idle
    PROVE  \E own \in Pks, old \in User :
              /\ own = inflight[r].pk /\ old = inflight[r].row /\ Fine(own, old)
              /\ inflight[r].op \in {"verify", "set_password"} =>
                    \E link \in inbox :
                       /\ link = inflight[r].link /\ link.pk = own
                       /\ old.email = link.to /\ old.is_active
                       /\ inflight[r].op = "verify" <=> link.kind = "verify"
<1>1. inflight[r] \in InFlight
    BY DEF IInv, TypeOK
<1>2. inflight[r].pk \in Pks /\ inflight[r].row \in User
    BY <1>1 DEF InFlight
<1>. QED BY <1>2 DEF IInv, ReadFine, PagesOfLinks, ByLink, OfLink

LEMMA StoredFineStep == ASSUME IInv, [Next]_vars PROVE StoredFine'
<1>1. TypeOK' /\ Grows
    BY StepGrows, TypeStep DEF IInv
<1>2. CASE UNCHANGED users
    BY <1>2, NoRow
<1>3. ASSUME NEW email \in Emails, NEW staff \in BOOLEAN, NEW usable \in BOOLEAN,
             CreateUser(email, staff, usable)
      PROVE  StoredFine'
    <2>1. PICK own \in Pks, new \in User :
            /\ own = created + 1 /\ created' = created + 1
            /\ users'[own] = new /\ Others(own)
            /\ ~new.verified /\ new.password = stamp' /\ stamp' = stamp + 1
        BY <1>3, CreatedRow DEF IInv
    <2>2. new.password =< stamp' /\ own =< created'
        BY <1>1, <2>1, BoundsAssumption DEF TypeOK, Stamps
    <2>3. Fine(own, new)'
        BY <2>1, <2>2 DEF Fine, Vouched
    <2>. QED BY <2>1, <2>3, OneRow
<1>4. ASSUME NEW pk \in Pks, AdminDelete(pk) PROVE StoredFine'
    <2>1. \A p \in Pks : users'[p] \in {users[p], Absent}
        BY <1>4 DEF AdminDelete, IInv, TypeOK
    <2>. QED BY <2>1, NoRow
<1>5. ASSUME NEW r \in Requests, LoginCommit(r), users' # users PROVE StoredFine'
    <2>1. PICK own \in Pks, old \in User, new \in User :
            /\ own = inflight[r].pk /\ users[own] = old /\ users'[own] = new
            /\ Others(own) /\ Same(new, old)
        BY <1>5, LoginRow DEF IInv
    <2>2. Fine(own, new)
        BY <2>1, FineAsOther, SentinelAssumption DEF IInv, StoredFine
    <2>3. Fine(own, new)'
        BY <2>2, StaysFine DEF IInv
    <2>. QED BY <2>1, <2>3, OneRow
<1>6. ASSUME NEW r \in Requests, CommitVerify(r), users' # users PROVE StoredFine'
    <2>1. PICK own \in Pks, old \in User, new \in User :
            /\ own = inflight[r].pk /\ users[own] = old /\ users'[own] = new
            /\ Others(own)
            /\ new.password = old.password
            /\ used' = used \union {inflight[r].link}
            /\ \/ new.email = inflight[r].row.email
               \/ crossed' = crossed \union {<<own, new.email>>}
        BY <1>6, ConfirmedRow DEF IInv
    <2>2. PICK link \in inbox :
            link = inflight[r].link /\ link.pk = own /\ inflight[r].row.email = link.to
        BY <1>6, <2>1, ReadRow DEF CommitVerify, Running
    <2>3. Fine(own, old)
        BY <2>1, SentinelAssumption DEF IInv, StoredFine
    <2>4. Fine(own, old)'
        BY <2>3, StaysFine DEF IInv
    <2>5. \/ link \in used' /\ link.pk = own /\ link.to = new.email
          \/ <<own, new.email>> \in crossed'
        BY <2>1, <2>2
    <2>6. Fine(own, new)'
        BY <2>1, <2>4, <2>5 DEF Fine, Vouched
    <2>. QED BY <2>1, <2>6, OneRow
<1>7. ASSUME NEW r \in Requests, CommitPassword(r) PROVE StoredFine'
    <2>1. PICK own \in Pks, old \in User, new \in User :
            /\ Wrote(r, own, old, new)
            /\ new.email = old.email /\ new.password = stamp'
        BY <1>7, PasswordRow DEF IInv
    <2>2. PICK link \in inbox : link = inflight[r].link /\ link.pk = own /\ old.email = link.to
        BY <1>7, <2>1, ReadRow DEF CommitPassword, Running, Wrote
    <2>3. Fine(own, old)'
        BY <1>7, <2>1, ReadRow, StaysFine DEF CommitPassword, Running, Wrote, IInv
    <2>4. new.password =< stamp'
        BY <1>1, <2>1, BoundsAssumption DEF TypeOK, Stamps
    <2>5. link \in used' /\ link.pk = own /\ link.to = new.email
        BY <1>7, <2>1, <2>2 DEF CommitPassword
    <2>6. Fine(own, new)'
        BY <2>3, <2>4, <2>5 DEF Fine, Vouched
    <2>. QED BY <2>1, <2>6, OneRow DEF Wrote
<1>8. ASSUME NEW r \in Requests, AdminSetPassword(r) \/ AdminDisablePassword(r)
      PROVE  StoredFine'
    <2>1. PICK own \in Pks, old \in User, new \in User :
            /\ Wrote(r, own, old, new)
            /\ new.password = stamp'
            /\ ~new.usable \/ new.password \in byStaff'
        BY <1>8, StaffPasswordRow DEF IInv
    <2>2. Fine(own, old)'
        BY <1>8, <2>1, ReadRow, StaysFine
        DEF AdminSetPassword, AdminDisablePassword, Running, Wrote, IInv
    <2>3. new.password =< stamp'
        BY <1>1, <2>1, BoundsAssumption DEF TypeOK, Stamps
    <2>4. Fine(own, new)'
        BY <2>1, <2>2, <2>3 DEF Fine, Vouched
    <2>. QED BY <2>1, <2>4, OneRow DEF Wrote
<1>9. ASSUME NEW r \in Requests, NEW email \in Emails, NEW active \in BOOLEAN,
             AdminChange(r, email, active)
      PROVE  StoredFine'
    <2>1. PICK own \in Pks, old \in User, new \in User :
            /\ Wrote(r, own, old, new)
            /\ new.email = email /\ new.password = old.password /\ new.is_staff = old.is_staff
            /\ email = old.email => new.verified = old.verified /\ new.usable = old.usable
            /\ email # old.email => ~new.verified \/ ~new.usable \/ new.is_staff
        BY <1>9, FormRow DEF IInv
    <2>2. Fine(own, old)'
        BY <1>9, <2>1, ReadRow, StaysFine DEF AdminChange, Running, Wrote, IInv
    <2>3. Fine(own, new)'
        BY <2>1, <2>2 DEF Fine, Vouched
    <2>. QED BY <2>1, <2>3, OneRow DEF Wrote
<1>. QED BY <1>2, <1>3, <1>4, <1>5, <1>6, <1>7, <1>8, <1>9
     DEF Next, vars, Signup, Invite, ResendInvite, RequestReset, LoginUnverified, LoginRead,
         AdminRead, SendMail, OpenLink, Abandon

\* A request that begins reads a stored row.
LEMMA ReadFineStep == ASSUME IInv, [Next]_vars PROVE ReadFine'
<1>. SUFFICES ASSUME NEW q \in Requests, inflight'[q] # Idle,
                     NEW own \in Pks, NEW old \in User,
                     own = inflight'[q].pk, old = inflight'[q].row
              PROVE  Fine(own, old)'
    <2>1. ASSUME NEW q \in Requests, inflight'[q] # Idle
          PROVE  inflight'[q].pk \in Pks /\ inflight'[q].row \in User
        BY <2>1, TypeStep DEF IInv, TypeOK, InFlight
    <2>. QED BY <2>1 DEF ReadFine, Fine, Vouched
<1>. SUFFICES Fine(own, old)
    BY StaysFine DEF IInv
<1>1. CASE inflight'[q] = inflight[q]
    BY <1>1 DEF IInv, ReadFine
<1>2. ASSUME NEW pk \in Pks, Exists(pk), NEW op, NEW link, Begin(q, op, pk, link)
      PROVE  Fine(own, old)
    <2>1. own = pk /\ old = users[pk] /\ users[pk] # Absent
        BY <1>2 DEF Begin, Exists, IInv, TypeOK
    <2>. QED BY <2>1 DEF IInv, StoredFine
<1>3. ASSUME NEW r \in Requests, NEW op, NEW pk, NEW link, r # q, Begin(r, op, pk, link)
      PROVE  inflight'[q] = inflight[q]
    BY <1>3 DEF Begin, IInv, TypeOK
<1>4. ASSUME NEW r \in Requests, End(r) PROVE inflight'[q] = inflight[q]
    BY <1>4 DEF End, IInv, TypeOK
<1>5. ASSUME NEW r \in Requests, NEW pk \in Pks, LoginRead(r, pk) \/ AdminRead(r, pk)
      PROVE  Fine(own, old)
    BY <1>1, <1>2, <1>3, <1>5 DEF LoginRead, AdminRead
<1>6. ASSUME NEW r \in Requests, NEW link \in inbox, OpenLink(r, link) PROVE Fine(own, old)
    <2>1. link.pk \in Pks /\ Exists(link.pk)
        BY <1>6 DEF OpenLink, Accepts, IInv, TypeOK, Link
    <2>. QED BY <1>1, <1>2, <1>3, <1>6, <2>1 DEF OpenLink
<1>. QED BY <1>1, <1>4, <1>5, <1>6
     DEF Next, vars, Signup, Invite, ResendInvite, RequestReset, LoginUnverified, LoginCommit,
         SendMail, CommitVerify, CommitPassword, AdminChange, AdminSetPassword,
         AdminDisablePassword, AdminDelete, Abandon

\* A link is signed when it is mailed, of a stored row: a reset or an invite
\* for an active account.
LEMMA LinksSignedStep == ASSUME IInv, [Next]_vars PROVE LinksSigned'
<1>1. stamp =< stamp' /\ stamp \in Nat /\ stamp' \in Nat
    BY StepGrows, TypeStep, BoundsAssumption DEF Grows, IInv, TypeOK, Stamps
<1>2. ASSUME NEW link \in Link, Signed(link) PROVE Signed(link)'
    <2>1. link.token.password \in Nat
        BY BoundsAssumption DEF Link, User, Stamps
    <2>. QED BY <1>1, <1>2, <2>1 DEF Signed
<1>3. \A link \in inbox : Signed(link)'
    BY <1>2 DEF IInv, TypeOK, LinksSigned
<1>4. CASE UNCHANGED inbox
    BY <1>3, <1>4 DEF LinksSigned, Signed
<1>5. ASSUME NEW task \in queue, SendMail(task) PROVE LinksSigned'
    <2>1. task.kind \in Kinds /\ task.pk \in Pks
        BY DEF IInv, TypeOK
    <2>2. PICK row \in User : row = users[task.pk] /\ row.password =< stamp /\ MayGet(task.kind, row)
        BY <1>5, <2>1 DEF SendMail, Exists, IInv, TypeOK, StoredFine, Fine
    <2> DEFINE link == [kind |-> task.kind, pk |-> task.pk, to |-> row.email,
                        token |-> Token(task.kind, row)]
    <2>3. link.token.email = link.to
        BY <2>1, <2>2, TokenKeepsAddress
    <2>4. ASSUME task.kind # "verify"
          PROVE  link.token.is_active /\ link.token.password =< stamp
        <3>1. row.is_active
            BY <2>1, <2>2, <2>4 DEF MayGet, CanResetPassword, IsInvitePending, Kinds
        <3>. QED BY <2>1, <2>2, <2>4, <3>1, TokenKeepsActive, TokenKeepsPassword
    <2>5. inbox' = inbox \union {link} /\ stamp' = stamp /\ link.kind = task.kind
        BY <1>5, <2>2 DEF SendMail
    <2>. HIDE DEF link
    <2>6. Signed(link)'
        BY <2>3, <2>4, <2>5 DEF Signed
    <2>. QED BY <1>3, <2>5, <2>6 DEF LinksSigned, Signed
<1>. QED BY <1>4, <1>5
     DEF Next, vars, Signup, Invite, ResendInvite, RequestReset, LoginUnverified, LoginRead,
         LoginCommit, AdminRead, OpenLink, CommitVerify, CommitPassword, AdminChange,
         AdminSetPassword, AdminDisablePassword, AdminDelete, Abandon

\* check_token compared the row that the page read: it is at the address that
\* the link was mailed to, and active.
LEMMA AcceptedRow ==
    ASSUME IInv, NEW link \in inbox, Accepts(link)
    PROVE  /\ link.pk \in Pks /\ users[link.pk] \in User /\ users[link.pk].email = link.to
           /\ users[link.pk].is_active
           /\ link.kind # "verify" => users[link.pk].password = link.token.password
<1>1. link \in Link /\ link.kind \in Kinds /\ link.pk \in Pks /\ users[link.pk] \in User
    BY DEF Accepts, Exists, IInv, TypeOK, Link
<1>2. PICK row \in User : row = users[link.pk]
    BY <1>1
<1>3. Token(link.kind, row) = link.token /\ Signed(link)
    BY <1>2 DEF Accepts, IInv, LinksSigned
<1>4. row.email = link.to
    BY <1>1, <1>3, TokenKeepsAddress DEF Signed
<1>5. row.is_active
    <2>1. CASE link.kind = "verify"
        BY <1>2, <2>1 DEF Accepts
    <2>2. CASE link.kind # "verify"
        BY <1>1, <1>3, <2>2, TokenKeepsActive DEF Signed
    <2>. QED BY <2>1, <2>2
<1>. QED BY <1>1, <1>2, <1>3, <1>4, <1>5, TokenKeepsPassword

LEMMA PagesOfLinksStep == ASSUME IInv, [Next]_vars PROVE PagesOfLinks'
<1>1. inbox \subseteq inbox'
    BY StepGrows DEF Grows, IInv
<1>. SUFFICES ASSUME NEW q \in Requests, ByLink(q)' PROVE OfLink(inflight[q])'
    BY DEF PagesOfLinks
<1>2. CASE inflight'[q] = inflight[q]
    BY <1>1, <1>2 DEF IInv, PagesOfLinks, ByLink, OfLink
<1>3. ASSUME NEW r \in Requests, NEW op, NEW pk, NEW link, Begin(r, op, pk, link),
             r # q \/ op \in {"login", "admin"}
      PROVE  inflight'[q] = inflight[q]
    BY <1>3 DEF Begin, ByLink, IInv, TypeOK
<1>4. ASSUME NEW r \in Requests, End(r) PROVE inflight'[q] = inflight[q]
    BY <1>4 DEF End, ByLink, IInv, TypeOK
<1>5. ASSUME NEW r \in Requests, NEW pk \in Pks, LoginRead(r, pk) \/ AdminRead(r, pk)
      PROVE  inflight'[q] = inflight[q]
    BY <1>3, <1>5 DEF LoginRead, AdminRead
<1>6. ASSUME NEW link \in inbox, OpenLink(q, link) PROVE OfLink(inflight[q])'
    <2>1. PICK op \in {"verify", "set_password"} :
            /\ op = "verify" <=> link.kind = "verify"
            /\ inflight'[q] = [op |-> op, pk |-> link.pk, row |-> users[link.pk], link |-> link]
        BY <1>6 DEF OpenLink, Begin, IInv, TypeOK
    <2>2. users[link.pk].email = link.to /\ users[link.pk].is_active
        BY <1>6, AcceptedRow DEF OpenLink
    <2>. QED BY <1>1, <2>1, <2>2 DEF OfLink
<1>7. ASSUME NEW r \in Requests, r # q, NEW link \in inbox, OpenLink(r, link)
      PROVE  inflight'[q] = inflight[q]
    BY <1>3, <1>7 DEF OpenLink
<1>. QED BY <1>2, <1>4, <1>5, <1>6, <1>7
     DEF Next, vars, Signup, Invite, ResendInvite, RequestReset, LoginUnverified, LoginCommit,
         SendMail, CommitVerify, CommitPassword, AdminChange, AdminSetPassword,
         AdminDisablePassword, AdminDelete, Abandon

\* A password that a step stores was there, is new, or was put back by a form.
LEMMA PasswordStep ==
    ASSUME IInv, [Next]_vars, NEW pk \in Pks, NEW row \in User, users'[pk] = row
    PROVE  \/ users[pk] # Absent /\ users[pk].password = row.password
           \/ row.password = stamp + 1
           \/ row.password \in putBack'
<1>1. CASE users'[pk] = users[pk]
    BY <1>1, SentinelAssumption
<1>2. ASSUME NEW email \in Emails, NEW staff \in BOOLEAN, NEW usable \in BOOLEAN,
             CreateUser(email, staff, usable), users'[pk] # users[pk]
      PROVE  row.password = stamp + 1
    BY <1>2, CreatedRow DEF IInv, Others
<1>3. ASSUME NEW p \in Pks, AdminDelete(p), users'[pk] # users[pk] PROVE FALSE
    BY <1>3, SentinelAssumption DEF AdminDelete, IInv, TypeOK
<1>4. ASSUME NEW r \in Requests, LoginCommit(r) \/ CommitVerify(r), users'[pk] # users[pk]
      PROVE  users[pk] # Absent /\ users[pk].password = row.password
    BY <1>4, LoginRow, ConfirmedRow, SentinelAssumption DEF IInv, Others, Same
<1>5. ASSUME NEW r \in Requests,
             CommitPassword(r) \/ AdminSetPassword(r) \/ AdminDisablePassword(r),
             users'[pk] # users[pk]
      PROVE  row.password = stamp + 1
    BY <1>5, PasswordRow, StaffPasswordRow DEF IInv, Others, Wrote
<1>6. ASSUME NEW r \in Requests, NEW email \in Emails, NEW active \in BOOLEAN,
             AdminChange(r, email, active), users'[pk] # users[pk]
      PROVE  \/ users[pk] # Absent /\ users[pk].password = row.password
             \/ row.password \in putBack'
    BY <1>6, FormRow DEF IInv, Others, Wrote
<1>. QED BY <1>1, <1>2, <1>3, <1>4, <1>5, <1>6
     DEF Next, vars, Signup, Invite, ResendInvite, RequestReset, LoginUnverified, LoginRead,
         AdminRead, SendMail, OpenLink, Abandon

LEMMA UsedOutdatedStep == ASSUME IInv, [Next]_vars PROVE UsedOutdated'
<1>1. Grows /\ TypeOK' /\ stamp \in Nat
    BY StepGrows, TypeStep, BoundsAssumption DEF IInv, TypeOK, Stamps
<1>2. SUFFICES ASSUME NEW link \in used', link.kind # "verify" PROVE Outdated(link)'
    <2>1. CASE UNCHANGED used
        BY <1>1, <1>2, <2>1 DEF UsedOutdated, IInv, Grows
    <2>2. ASSUME NEW r \in Requests, CommitVerify(r) \/ CommitPassword(r)
          PROVE  used' \subseteq inbox'
        <3>1. inflight[r] # Idle /\ inflight[r].op \in {"verify", "set_password"}
            BY <2>2 DEF CommitVerify, CommitPassword, Running
        <3>2. inflight[r].link \in inbox /\ used' \subseteq used \union {inflight[r].link}
            BY <2>2, <3>1, ReadRow DEF CommitVerify, CommitPassword
        <3>. QED BY <1>1, <3>2 DEF UsedOutdated, IInv, Grows
    <2>. QED BY <1>2, <2>1, <2>2
         DEF history, UsedOutdated, Next, vars, Signup, Invite, ResendInvite, RequestReset, LoginUnverified,
             LoginRead, LoginCommit, AdminRead, SendMail, OpenLink, AdminChange,
             AdminSetPassword, AdminDisablePassword, AdminDelete, Abandon
<1>3. SUFFICES ASSUME NEW row \in User, users'[link.pk] = row
               PROVE  row.password # link.token.password \/ row.password \in putBack'
    BY <1>1 DEF TypeOK, Link, Outdated
<1>4. CASE link \in used
    <2>1. link \in Link /\ link.pk \in Pks /\ Signed(link) /\ Outdated(link)
        BY <1>2, <1>4 DEF IInv, TypeOK, Link, UsedOutdated, LinksSigned
    <2>2. link.token.password =< stamp /\ link.token.password \in Nat
        BY <1>2, <2>1, BoundsAssumption DEF Signed, Link, User, Stamps
    <2>3. link.token.password # stamp + 1
        BY <1>1, <2>2
    <2>4. \/ users[link.pk] # Absent /\ users[link.pk].password = row.password
          \/ row.password = stamp + 1
          \/ row.password \in putBack'
        BY <1>3, <2>1, PasswordStep
    <2>. QED BY <1>1, <2>1, <2>3, <2>4 DEF Outdated, Grows
<1>5. ASSUME NEW r \in Requests, CommitVerify(r), link \notin used PROVE FALSE
    <2>1. inflight[r] # Idle /\ inflight[r].op = "verify" /\ link = inflight[r].link
        BY <1>5 DEF CommitVerify, Running
    <2>. QED BY <1>2, <2>1, ReadRow
<1>6. ASSUME NEW r \in Requests, CommitPassword(r), link \notin used
      PROVE  row.password # link.token.password
    <2>1. /\ inflight[r] # Idle /\ inflight[r].op = "set_password"
          /\ link = inflight[r].link
        BY <1>6 DEF CommitPassword, Running
    <2>2. link \in inbox /\ link.pk = inflight[r].pk
        BY <2>1, ReadRow
    <2>3. row.password = stamp + 1
        BY <1>3, <1>6, <2>2, PasswordRow DEF IInv, Wrote
    <2>4. link \in Link /\ Signed(link)
        BY <2>2 DEF IInv, TypeOK, LinksSigned
    <2>5. link.token.password =< stamp /\ link.token.password \in Nat
        BY <1>2, <2>4, BoundsAssumption DEF Signed, Link, User, Stamps
    <2>. QED BY <1>1, <2>3, <2>5
<1>7. CASE UNCHANGED used
    BY <1>4, <1>7
<1>. QED BY <1>4, <1>5, <1>6, <1>7
     DEF history, Next, vars, Signup, Invite, ResendInvite, RequestReset, LoginUnverified,
         LoginRead, LoginCommit, AdminRead, SendMail, OpenLink, AdminChange,
         AdminSetPassword, AdminDisablePassword, AdminDelete, Abandon

LEMMA InitHolds == Init => IInv
<1>. SUFFICES ASSUME Init PROVE IInv
    OBVIOUS
<1>1. TypeOK
    BY BoundsAssumption DEF Init, TypeOK, Stamps, Stored, Exists
<1>. QED BY <1>1
     DEF Init, IInv, StoredFine, ReadFine, LinksSigned, PagesOfLinks, ByLink, UsedOutdated

\* Every step keeps it.
LEMMA IInvStep == ASSUME IInv, [Next]_vars PROVE IInv'
<1>1. TypeOK'
    BY TypeStep DEF IInv
<1>. QED BY <1>1, StoredFineStep, ReadFineStep, LinksSignedStep, PagesOfLinksStep,
            UsedOutdatedStep
     DEF IInv

LEMMA InvariantHolds == Spec => []IInv
BY InitHolds, IInvStep, PTL DEF Spec

\* A consumer that can log in with a password of its own has used a link mailed
\* to its address, but for an address that staff gave the account between the
\* check and the write of a confirm page, whatever rows the admin's forms and
\* the password pages save over one another (email_verification_service.py).
THEOREM VerifiedMeansProvedHolds == Spec => []VerifiedMeansProved
<1>1. IInv => VerifiedMeansProved
    BY DEF IInv, StoredFine, Fine, Vouched, VerifiedMeansProved, LetIn, Stored, Exists, Proved
<1>. QED BY <1>1, InvariantHolds, PTL

\* A reset or invite link that set a password matches its account again only
\* after a form of the admin that was opened before put the old password back
\* (the tokens of ConsumerPasswordResetTokenGenerator and InviteTokenGenerator).
THEOREM UsedLinkRefusedHolds == Spec => []UsedLinkRefused
<1>1. ASSUME IInv, NEW link \in used, link.kind # "verify", Accepts(link)
      PROVE  users[link.pk].password \in putBack
    <2>1. link \in inbox /\ Outdated(link)
        BY <1>1 DEF IInv, UsedOutdated
    <2>2. users[link.pk] # Absent /\ users[link.pk].password = link.token.password
        BY <1>1, <2>1, AcceptedRow DEF Accepts, Exists
    <2>. QED BY <2>1, <2>2 DEF Outdated
<1>2. IInv => UsedLinkRefused
    BY <1>1 DEF UsedLinkRefused
<1>. QED BY <1>2, InvariantHolds, PTL

-----------------------------------------------------------------------------
(* What a step may never do. *)

\* A password page that ends with a write has saved its row.
LEMMA PageCommits ==
    ASSUME IInv, [Next]_vars, NEW r \in Requests, Commits(r), inflight[r].op = "set_password"
    PROVE  CommitPassword(r)
<1>1. ASSUME NEW q \in Requests, End(q) PROVE q = r
    BY <1>1 DEF End, Commits, IInv, TypeOK
<1>2. ~Running(r, "login") /\ ~Running(r, "verify") /\ ~Running(r, "admin")
    BY DEF Running
<1>3. users' # users /\ inflight' # inflight
    BY DEF Commits
<1>4. ASSUME NEW q \in Requests,
             \/ LoginCommit(q) \/ CommitVerify(q) \/ AdminSetPassword(q)
             \/ AdminDisablePassword(q) \/ Abandon(q)
             \/ \E email \in Emails, active \in BOOLEAN : AdminChange(q, email, active)
      PROVE  FALSE
    <2>1. End(q)
        BY <1>4 DEF LoginCommit, CommitVerify, AdminChange, AdminSetPassword,
                    AdminDisablePassword, Abandon
    <2>2. q = r
        BY <1>1, <2>1
    <2>. QED BY <1>2, <1>3, <1>4, <2>2
         DEF LoginCommit, CommitVerify, AdminChange, AdminSetPassword, AdminDisablePassword,
             Abandon
<1>5. ASSUME NEW q \in Requests, CommitPassword(q) PROVE CommitPassword(r)
    BY <1>1, <1>5 DEF CommitPassword
<1>. QED BY <1>3, <1>4, <1>5
     DEF Next, vars, Signup, Invite, ResendInvite, RequestReset, LoginUnverified, LoginRead,
         AdminRead, SendMail, OpenLink, AdminDelete

\* Whatever staff save after the token was compared, a password page sets the
\* password of an active account at the address that its link was mailed to.
THEOREM PasswordSetAtItsAddressHolds == Spec => PasswordSetAtItsAddress
<1>1. ASSUME IInv, [Next]_vars, NEW r \in Requests, NEW pk \in Pks,
             Writes(r, "set_password", pk)
      PROVE  /\ users'[pk] # Absent /\ users'[pk].is_active
             /\ users'[pk].email = inflight[r].link.to
    <2>1. CommitPassword(r) /\ inflight[r] # Idle /\ pk = inflight[r].pk
        BY <1>1, PageCommits DEF Writes, Commits
    <2>2. PICK own \in Pks, old \in User, new \in User :
            /\ Wrote(r, own, old, new)
            /\ new.email = old.email /\ new.is_active = old.is_active
        BY <1>1, <2>1, PasswordRow DEF IInv
    <2>3. own = pk /\ old = inflight[r].row /\ users'[pk] = new
        BY <2>1, <2>2 DEF Wrote
    <2>4. old.email = inflight[r].link.to /\ old.is_active
        BY <1>1, <2>1, <2>3, ReadRow DEF Writes
    <2>. QED BY <2>2, <2>3, <2>4, SentinelAssumption
<1>2. IInv /\ [Next]_vars =>
          [\A r \in Requests, pk \in Pks : Writes(r, "set_password", pk) =>
              /\ users'[pk] # Absent /\ users'[pk].is_active
              /\ users'[pk].email = inflight[r].link.to]_vars
    BY <1>1
<1>. QED BY <1>2, InvariantHolds, PTL DEF PasswordSetAtItsAddress, Spec

\* The requests that change an account's row, seen from the row.
LEMMA WhoWrites ==
    ASSUME IInv, [Next]_vars, NEW pk \in Pks, pk =< created, users'[pk] # users[pk],
           users'[pk] # Absent
    PROVE  \/ \E old \in User, new \in User :
                 /\ users[pk] = old /\ users'[pk] = new
                 /\ Standing(new) = Standing(old) /\ (old.verified => new.verified)
           \/ \E r \in Requests :
                 /\ Writes(r, "admin", pk)
                 /\ \/ users'[pk].verified \/ ~inflight[r].row.verified
                    \/ inflight[r].row.email # users'[pk].email
           \/ \E r \in Requests :
                 /\ Writes(r, "set_password", pk) /\ users'[pk].verified
                 /\ Standing(users'[pk]) = Standing(inflight[r].row)
<1>1. ASSUME NEW r \in Requests, NEW op, Running(r, op), End(r), inflight[r].pk = pk
      PROVE  Writes(r, op, pk)
    BY <1>1 DEF Running, End, Writes, Commits, IInv, TypeOK
<1>2. ASSUME NEW email \in Emails, NEW staff \in BOOLEAN, NEW usable \in BOOLEAN,
             CreateUser(email, staff, usable)
      PROVE  FALSE
    <2>1. users'[pk] = users[pk] \/ pk = created + 1
        BY <1>2, CreatedRow DEF IInv, Others
    <2>. QED BY <2>1, BoundsAssumption DEF IInv, TypeOK, Pks
<1>3. ASSUME NEW p \in Pks, AdminDelete(p) PROVE FALSE
    BY <1>3 DEF AdminDelete, IInv, TypeOK
<1>4. ASSUME NEW r \in Requests, LoginCommit(r) \/ CommitVerify(r)
      PROVE  \E old \in User, new \in User :
                /\ users[pk] = old /\ users'[pk] = new
                /\ Standing(new) = Standing(old) /\ (old.verified => new.verified)
    <2>1. PICK old \in User, new \in User :
            /\ users[pk] = old /\ users'[pk] = new
            /\ new.email = old.email /\ new.is_active = old.is_active
            /\ new.is_staff = old.is_staff /\ (old.verified => new.verified)
        BY <1>4, LoginRow, ConfirmedRow DEF IInv, Others, Same
    <2>. QED BY <2>1, SentinelAssumption DEF Standing
<1>5. ASSUME NEW r \in Requests, CommitPassword(r)
      PROVE  /\ Writes(r, "set_password", pk) /\ users'[pk].verified
             /\ Standing(users'[pk]) = Standing(inflight[r].row)
    <2>1. PICK old \in User, new \in User :
            /\ pk = inflight[r].pk /\ old = inflight[r].row /\ users'[pk] = new
            /\ new.email = old.email /\ new.is_active = old.is_active
            /\ new.is_staff = old.is_staff /\ new.verified
        BY <1>5, PasswordRow DEF IInv, Others, Wrote
    <2>2. Writes(r, "set_password", pk)
        BY <1>1, <1>5, <2>1 DEF CommitPassword
    <2>. QED BY <2>1, <2>2, SentinelAssumption DEF Standing
<1>6. ASSUME NEW r \in Requests, AdminSetPassword(r) \/ AdminDisablePassword(r)
      PROVE  /\ Writes(r, "admin", pk)
             /\ users'[pk].verified \/ ~inflight[r].row.verified
    <2>1. PICK old \in User, new \in User :
            /\ pk = inflight[r].pk /\ old = inflight[r].row /\ users'[pk] = new
            /\ new.verified = old.verified
        BY <1>6, StaffPasswordRow DEF IInv, Others, Wrote
    <2>2. Writes(r, "admin", pk)
        BY <1>1, <1>6, <2>1 DEF AdminSetPassword, AdminDisablePassword
    <2>. QED BY <2>1, <2>2
<1>7. ASSUME NEW r \in Requests, NEW email \in Emails, NEW active \in BOOLEAN,
             AdminChange(r, email, active)
      PROVE  /\ Writes(r, "admin", pk)
             /\ \/ users'[pk].verified \/ ~inflight[r].row.verified
                \/ inflight[r].row.email # users'[pk].email
    <2>1. PICK old \in User, new \in User :
            /\ pk = inflight[r].pk /\ old = inflight[r].row /\ users'[pk] = new
            /\ new.email = email
            /\ email = old.email => new.verified = old.verified
        BY <1>7, FormRow DEF IInv, Others, Wrote
    <2>2. Writes(r, "admin", pk)
        BY <1>1, <1>7, <2>1 DEF AdminChange
    <2>. QED BY <2>1, <2>2
<1>. QED BY <1>2, <1>3, <1>4, <1>5, <1>6, <1>7
     DEF Next, vars, Signup, Invite, ResendInvite, RequestReset, LoginUnverified, LoginRead,
         AdminRead, SendMail, OpenLink, Abandon

\* Only staff change whether an account exists, is active, its address or its
\* staff status, but for a password page, which puts back what its link was
\* checked against: no login and no confirmation undoes what they decided
\* after it read the row (update_last_login, mark_verified).
THEOREM OnlyAdminsEditHolds == Spec => OnlyAdminsEdit
<1>1. ASSUME IInv, [Next]_vars, NEW pk \in 1 .. created,
             Standing(users'[pk]) # Standing(users[pk]), users'[pk] # Absent
      PROVE  \/ \E r \in Requests : Writes(r, "admin", pk)
             \/ \E r \in Requests : /\ Writes(r, "set_password", pk)
                                    /\ Standing(users'[pk]) = Standing(inflight[r].row)
    <2>1. pk \in Pks /\ pk =< created
        BY <1>1, BoundsAssumption DEF IInv, TypeOK, Pks
    <2>. QED BY <1>1, <2>1, WhoWrites
<1>2. IInv /\ [Next]_vars =>
          [\A pk \in 1 .. created : Standing(users'[pk]) # Standing(users[pk]) =>
              \/ users'[pk] = Absent
              \/ \E r \in Requests : Writes(r, "admin", pk)
              \/ \E r \in Requests : /\ Writes(r, "set_password", pk)
                                     /\ Standing(users'[pk]) = Standing(inflight[r].row)]_vars
    BY <1>1
<1>. QED BY <1>2, InvariantHolds, PTL DEF OnlyAdminsEdit, Spec

\* A confirmed email stays confirmed while the address does: no password page
\* overwrites a confirmation that was committed after it read the row, and a
\* form of the admin does only when it had read the account unconfirmed or at
\* another address (PasswordLinkService.set_password, User.save).
THEOREM VerifiedSticksHolds == Spec => VerifiedSticks
<1>1. ASSUME IInv, [Next]_vars, NEW pk \in Pks, users[pk] # Absent, users[pk].verified,
             users'[pk] # Absent, users'[pk].email = users[pk].email, ~users'[pk].verified
      PROVE  \E r \in Requests : /\ Writes(r, "admin", pk)
                                 /\ \/ ~inflight[r].row.verified
                                    \/ inflight[r].row.email # users[pk].email
    <2>1. pk =< created
        BY <1>1 DEF IInv, StoredFine, Fine
    <2>. QED BY <1>1, <2>1, WhoWrites
<1>2. IInv /\ [Next]_vars =>
          [\A pk \in Pks :
              users[pk] # Absent /\ users[pk].verified /\ users'[pk] # Absent
              /\ users'[pk].email = users[pk].email
              => \/ users'[pk].verified
                 \/ \E r \in Requests : /\ Writes(r, "admin", pk)
                                        /\ \/ ~inflight[r].row.verified
                                           \/ inflight[r].row.email # users[pk].email]_vars
    BY <1>1
<1>. QED BY <1>2, InvariantHolds, PTL DEF VerifiedSticks, Spec
=============================================================================
