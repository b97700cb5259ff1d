------------------------------ MODULE Accounts -------------------------------
(***************************************************************************)
(* How one email address comes to an account: an invitation accepted       *)
(* (InvitationsService), a school registered (SchoolsService.register), or *)
(* an account made by an admin (createTutor).  All three read that the     *)
(* address is free, spend a while hashing a password, and then write; the  *)
(* unique email decides.  Several schools may be inviting the address.     *)
(***************************************************************************)
EXTENDS Requests

CONSTANTS
  Schools,  \* schools that exist at the start, each with its admin
  Slugs     \* addresses a new school may take

\* id and token are named by the request that made them: a resend keeps the id.
Row == [id : Requests, token : Requests, used : BOOLEAN, expired : BOOLEAN]

\* Where a person has their account, and how they came by it.
Account == [school : Schools \cup Slugs, how : {"invited", "founded", "added"}]

ASSUME AccountsAssumption ==
  /\ Schools \cap Slugs = {}
  /\ None \notin Schools \cup Slugs \cup Requests
  /\ None \notin Row \cup Account

VARIABLES
  account,     \* the user row of the address, or None
  schools,     \* the school rows there are
  invitation,  \* school -> its invitation row for the address, or None
  told,        \* schools whose members have a row saying the address joined
  reopened     \* history: schools that wrote an invitation once there was an account

vars == <<pc, input, account, schools, invitation, told, reopened>>

Status(row) ==
  IF row.used THEN "accepted" ELSE IF row.expired THEN "expired" ELSE "pending"

\* The link the admin's list carries for a school's invitation.
ShownLink(s) ==
  LET row == invitation[s] IN
  IF row # None /\ Status(row) = "pending" THEN row.token ELSE None

Init ==
  /\ RequestsInit
  /\ account = None
  /\ schools = Schools
  /\ invitation = [s \in Schools |-> None]
  /\ told = {}
  /\ reopened = {}

-----------------------------------------------------------------------------
(* An admin invites, resends or revokes.                                     *)

Invite(r, s) ==
  /\ At(r, "idle")
  /\ account = None
  /\ Take(r, s, "inviting")
  /\ UNCHANGED <<account, schools, invitation, told, reopened>>

\* The upsert on (school, email).  The mail that follows may fail; it changes nothing.
SaveInvitation(r) ==
  LET s == input[r] IN
  /\ At(r, "inviting")
  /\ invitation' = [invitation EXCEPT ![s] =
       [id |-> IF @ = None THEN r ELSE @.id,
        token |-> r, used |-> FALSE, expired |-> FALSE]]
  /\ reopened' = IF account # None THEN reopened \cup {s} ELSE reopened
  /\ Finish(r)
  /\ UNCHANGED <<account, schools, told>>

\* Mutant: the row is kept without its token.
RevokeByBlanking(s) ==
  /\ invitation[s] # None
  /\ invitation' = [invitation EXCEPT ![s].token = None]
  /\ UNCHANGED <<pc, input, account, schools, told, reopened>>

Revoke(s) ==
  /\ invitation[s] # None
  /\ invitation' = [invitation EXCEPT ![s] = None]
  /\ UNCHANGED <<pc, input, account, schools, told, reopened>>

\* INVITE_TTL_HOURS go by.
Expire(s) ==
  /\ invitation[s] # None
  /\ ~invitation[s].expired
  /\ invitation' = [invitation EXCEPT ![s].expired = TRUE]
  /\ UNCHANGED <<pc, input, account, schools, told, reopened>>

-----------------------------------------------------------------------------
(* The recipient accepts.                                                    *)

FindUsable(r, s) ==
  /\ At(r, "idle")
  /\ invitation[s] # None
  /\ ~invitation[s].used
  /\ ~invitation[s].expired
  /\ Take(r, [school |-> s, id |-> invitation[s].id, token |-> invitation[s].token],
          "accepting")
  /\ UNCHANGED <<account, schools, invitation, told, reopened>>

\* The where of the claim: by id, whatever the token is by now.
Claimable(r) ==
  LET row == invitation[input[r].school] IN
  row # None /\ row.id = input[r].id /\ ~row.used

Join(r) ==
  /\ account' = [school |-> input[r].school, how |-> "invited"]
  /\ Goto(r, "telling")

\* Mutant: the count of the claim is not looked at.
AcceptUnclaimed(r) ==
  /\ At(r, "accepting")
  /\ IF account = None
     THEN /\ Join(r)
          /\ invitation' = IF Claimable(r)
               THEN [invitation EXCEPT ![input[r].school].used = TRUE] ELSE invitation
     ELSE Finish(r) /\ UNCHANGED <<account, invitation>>
  /\ UNCHANGED <<schools, told, reopened>>

\* Mutant: claim and user are written outside a transaction.
AcceptInTwoWrites(r) ==
  /\ At(r, "accepting")
  /\ IF Claimable(r)
     THEN /\ invitation' = [invitation EXCEPT ![input[r].school].used = TRUE]
          /\ IF account = None THEN Join(r) ELSE Finish(r) /\ UNCHANGED account
     ELSE Finish(r) /\ UNCHANGED <<account, invitation>>
  /\ UNCHANGED <<schools, told, reopened>>

\* Mutant: the invitation is marked by its token, whether or not that found it.
AcceptByToken(r) ==
  /\ At(r, "accepting")
  /\ IF Claimable(r) /\ account = None
     THEN /\ Join(r)
          /\ invitation' = [invitation EXCEPT
               ![input[r].school].used = (@ \/ invitation[input[r].school].token = input[r].token)]
     ELSE Finish(r) /\ UNCHANGED <<account, invitation>>
  /\ UNCHANGED <<schools, told, reopened>>

\* Mutant: the school is told whether or not the user could be created.
AcceptTellingAnyway(r) ==
  /\ At(r, "accepting")
  /\ IF Claimable(r) /\ account = None
     THEN Join(r) /\ invitation' = [invitation EXCEPT ![input[r].school].used = TRUE]
     ELSE Goto(r, "telling") /\ UNCHANGED <<account, invitation>>
  /\ UNCHANGED <<schools, told, reopened>>

\* One transaction: claimed and created, or neither (already used, or P2002).
Accept(r) ==
  /\ At(r, "accepting")
  /\ IF Claimable(r) /\ account = None
     THEN Join(r) /\ invitation' = [invitation EXCEPT ![input[r].school].used = TRUE]
     ELSE Finish(r) /\ UNCHANGED <<account, invitation>>
  /\ UNCHANGED <<schools, told, reopened>>

\* A row for everybody else in the school, who are never nobody.
TutorJoined(s) == told' = told \cup {s}

\* A failure to tell is logged; the session is issued either way.
TellSchool(r) ==
  /\ At(r, "telling")
  /\ TutorJoined(input[r].school) \/ UNCHANGED told
  /\ Finish(r)
  /\ UNCHANGED <<account, schools, invitation, reopened>>

-----------------------------------------------------------------------------
(* The other two ways to an account.                                         *)

CheckRegistration(r, g) ==
  /\ At(r, "idle")
  /\ account = None
  /\ g \notin schools
  /\ Take(r, g, "registering")
  /\ UNCHANGED <<account, schools, invitation, told, reopened>>

\* Mutant: the school is kept when its admin cannot be created.
RegisterInTwoWrites(r) ==
  /\ At(r, "registering")
  /\ IF input[r] \notin schools
     THEN /\ schools' = schools \cup {input[r]}
          /\ account' = IF account = None
                        THEN [school |-> input[r], how |-> "founded"] ELSE account
     ELSE UNCHANGED <<schools, account>>
  /\ Finish(r)
  /\ UNCHANGED <<invitation, told, reopened>>

\* One transaction: a taken slug or a taken email rolls both rows back.
Register(r) ==
  /\ At(r, "registering")
  /\ IF input[r] \notin schools /\ account = None
     THEN /\ schools' = schools \cup {input[r]}
          /\ account' = [school |-> input[r], how |-> "founded"]
     ELSE UNCHANGED <<schools, account>>
  /\ Finish(r)
  /\ UNCHANGED <<invitation, told, reopened>>

CheckTutor(r, s) ==
  /\ At(r, "idle")
  /\ account = None
  /\ Take(r, s, "adding")
  /\ UNCHANGED <<account, schools, invitation, told, reopened>>

\* Mutant: an address that is taken is tried again.
CreateTutorRetrying(r) ==
  /\ At(r, "adding")
  /\ account = None
  /\ account' = [school |-> input[r], how |-> "added"]
  /\ Finish(r)
  /\ UNCHANGED <<schools, invitation, told, reopened>>

\* P2002 if the address has an account by now.
CreateTutor(r) ==
  /\ At(r, "adding")
  /\ account' = IF account = None THEN [school |-> input[r], how |-> "added"] ELSE account
  /\ Finish(r)
  /\ UNCHANGED <<schools, invitation, told, reopened>>

-----------------------------------------------------------------------------

Crash == Drop /\ UNCHANGED <<account, schools, invitation, told, reopened>>

Continue(r) ==
  SaveInvitation(r) \/ Accept(r) \/ TellSchool(r) \/ Register(r) \/ CreateTutor(r)

Next ==
  \/ \E r \in Requests, s \in Schools :
       Invite(r, s) \/ FindUsable(r, s) \/ CheckTutor(r, s)
  \/ \E r \in Requests, g \in Slugs : CheckRegistration(r, g)
  \/ \E r \in Requests : Continue(r)
  \/ \E s \in Schools : Revoke(s) \/ Expire(s)
  \/ Crash

\* A handler that is waiting only for the database is answered and goes on.
Spec == Init /\ [][Next]_vars /\ \A r \in Requests : WF_vars(Continue(r))

-----------------------------------------------------------------------------
(* Properties.                                                               *)

\* Types: what each row holds, and that a request holds what its place needs.
TypeOK ==
  /\ account \in {None} \cup Account
  /\ schools \in SUBSET (Schools \cup Slugs)
  /\ invitation \in [Schools -> {None} \cup Row]
  /\ told \in SUBSET Schools
  /\ reopened \in SUBSET Schools
  /\ \A r \in Requests :
       /\ pc[r] \in {"idle", "inviting", "adding"} => input[r] \in Schools \cup {None}
       /\ At(r, "registering") => input[r] \in Slugs
       /\ pc[r] \in {"accepting", "telling"} =>
            input[r] \in [school : Schools, id : Requests, token : Requests]

\* An invitation marked as accepted belongs to somebody who came in by it: the
\* claim never outlives a user that could not be created.
UsedMeansJoined ==
  \A s \in Schools :
    invitation[s] # None /\ invitation[s].used =>
      account # None /\ account.school = s /\ account.how = "invited"

\* A registration leaves a school with its admin or no school: a tenant nobody
\* can enter would hold its slug for good.
SchoolHasAdmin ==
  \A g \in schools \cap Slugs :
    account # None /\ account.school = g /\ account.how = "founded"

\* Nobody is told of a colleague who is not one.
ToldOfJoiner == \A s \in told : account # None /\ account.school = s

\* Once a person has joined by a school's invitation, the admin's list does not
\* show that invitation as pending, unless a resend checked the address before
\* they joined and was saved after.
JoinedNotPending ==
  /\ account # None
  /\ account.how = "invited"
  /\ ShownLink(account.school) # None
  => account.school \in reopened

\* The address enters one school, once, and by invitation only while one stands
\* open (not used, not revoked) at the instant of joining.
Promise == INSTANCE Membership WITH
  Inviting <- Schools,
  Places <- Schools \cup Slugs,
  home <- account,
  open <- {s \in Schools : invitation[s] # None /\ ~invitation[s].used}

MembershipSpec == Promise!Spec

\* Every request is answered, or the process it ran in has died.
RequestsEnd == \A r \in Requests : r \in InFlight ~> At(r, "over")
=============================================================================
