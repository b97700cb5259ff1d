---------------------------- MODULE AccountsProofs ----------------------------
(***************************************************************************)
(* Proofs about Accounts, for any number of requests about one address,    *)
(* any schools that invite it and any slugs it may register: rows and      *)
(* requests keep their types, no invitation is used up for nobody, and     *)
(* every step is one that Membership allows.                               *)
(***************************************************************************)
EXTENDS Accounts, TLAPS

rowVars == <<account, schools, invitation, told, reopened>>

Statements ==
  {"idle", "inviting", "accepting", "telling", "registering", "adding", "over"}

Accepting == [school : Schools, id : Requests, token : Requests]

\* A request is about to run a statement and holds just what that one needs.
RequestsFit ==
  /\ pc \in [Requests -> Statements]
  /\ input \in [Requests -> {None} \cup Schools \cup Slugs \cup Accepting]
  /\ \A r \in Requests :
       /\ pc[r] \in {"idle", "over"} => input[r] = None
       /\ pc[r] \in {"inviting", "adding"} => input[r] \in Schools
       /\ At(r, "registering") => input[r] \in Slugs
       /\ pc[r] \in {"accepting", "telling"} => input[r] \in Accepting

\* Whoever is about to tell a school of a colleague has just become one there.
TellersJoined ==
  \A r \in Requests : At(r, "telling") =>
    account = [school |-> input[r].school, how |-> "invited"]

\* Only a school that was there to invite can have been joined by invitation.
InvitedSomewhere ==
  account # None /\ account.how = "invited" => account.school \in Schools

IInv ==
  /\ TypeOK
  /\ RequestsFit
  /\ TellersJoined
  /\ InvitedSomewhere
  /\ UsedMeansJoined
  /\ SchoolHasAdmin
  /\ ToldOfJoiner
  /\ JoinedNotPending

-----------------------------------------------------------------------------
(* Steps that only move a request leave everything else as it was.           *)

LEMMA RequestMoves ==
  ASSUME RequestsFit, NEW r \in Requests, NEW value, NEW p \in Statements,
         Take(r, value, p),
         p \in {"idle", "over"} => value = None,
         p \in {"inviting", "adding"} => value \in Schools,
         p = "registering" => value \in Slugs,
         p \in {"accepting", "telling"} => value \in Accepting
  PROVE  RequestsFit'
<1>1. value \in {None} \cup Schools \cup Slugs \cup Accepting
  BY DEF Statements
<1> QED BY <1>1 DEF RequestsFit, Take, At

LEMMA RequestsFitMean ==
  ASSUME RequestsFit
  PROVE  \A r \in Requests :
           /\ pc[r] \in {"idle", "inviting", "adding"} => input[r] \in Schools \cup {None}
           /\ At(r, "registering") => input[r] \in Slugs
           /\ pc[r] \in {"accepting", "telling"} => input[r] \in Accepting
BY DEF RequestsFit

\* A step that leaves the rows alone and makes no new teller keeps the invariant.
LEMMA RowsKept ==
  ASSUME IInv, RequestsFit', UNCHANGED rowVars,
         \A r \in Requests : At(r, "telling")' => At(r, "telling") /\ input'[r] = input[r]
  PROVE  IInv'
<1> USE DEF IInv, rowVars
<1>1. TypeOK'
  BY RequestsFitMean DEF TypeOK, RequestsFit, Accepting, At
<1>2. (TellersJoined /\ InvitedSomewhere)'
  BY DEF TellersJoined, InvitedSomewhere, At
<1>3. (UsedMeansJoined /\ SchoolHasAdmin /\ ToldOfJoiner /\ JoinedNotPending)'
  BY DEF UsedMeansJoined, SchoolHasAdmin, ToldOfJoiner, JoinedNotPending, ShownLink, Status
<1> QED BY <1>1, <1>2, <1>3

-----------------------------------------------------------------------------
(* One lemma for each statement.                                             *)

\* What a request does before its first write: it reads, and remembers.
LEMMA ReadingKeeps ==
  ASSUME IInv, NEW r \in Requests,
         \/ \E s \in Schools : Invite(r, s) \/ FindUsable(r, s) \/ CheckTutor(r, s)
         \/ \E g \in Slugs : CheckRegistration(r, g)
  PROVE  IInv'
<1> USE DEF IInv
<1>1. ASSUME NEW s \in Schools, Invite(r, s) \/ CheckTutor(r, s)
      PROVE  IInv'
  BY <1>1, RequestMoves, RowsKept
     DEF Invite, CheckTutor, Take, At, rowVars, Statements, RequestsFit
<1>2. ASSUME NEW s \in Schools, FindUsable(r, s)
      PROVE  IInv'
  <2>1. [school |-> s, id |-> invitation[s].id, token |-> invitation[s].token] \in Accepting
    BY <1>2 DEF FindUsable, TypeOK, Row, Accepting
  <2> QED BY <1>2, <2>1, RequestMoves, RowsKept
          DEF FindUsable, Take, At, rowVars, Statements, RequestsFit
<1>3. ASSUME NEW g \in Slugs, CheckRegistration(r, g)
      PROVE  IInv'
  BY <1>3, RequestMoves, RowsKept
     DEF CheckRegistration, Take, At, rowVars, Statements, RequestsFit
<1> QED BY <1>1, <1>2, <1>3

LEMMA FinishFits ==
  ASSUME RequestsFit, NEW r \in Requests, Finish(r)
  PROVE  /\ RequestsFit'
         /\ \A q \in Requests : At(q, "telling")' =>
              q # r /\ At(q, "telling") /\ input'[q] = input[q]
<1>1. RequestsFit'
  BY RequestMoves DEF Finish, Statements
<1> QED BY <1>1 DEF RequestsFit, Finish, Take, At

LEMMA SaveInvitationKeeps ==
  ASSUME IInv, NEW r \in Requests, SaveInvitation(r)
  PROVE  IInv'
<1> USE DEF IInv
<1> DEFINE s == input[r]
<1>1. s \in Schools
  BY DEF RequestsFit, SaveInvitation, At
<1>2. /\ RequestsFit'
      /\ \A q \in Requests : At(q, "telling")' => At(q, "telling") /\ input'[q] = input[q]
  BY FinishFits DEF SaveInvitation
<1>3. /\ invitation' \in [Schools -> {None} \cup Row]
      /\ ~invitation'[s].used
      /\ invitation'[s] # None
      /\ \A x \in Schools \ {s} : invitation'[x] = invitation[x]
  <2>1. [id |-> IF invitation[s] = None THEN r ELSE invitation[s].id,
         token |-> r, used |-> FALSE, expired |-> FALSE] \in Row
    BY <1>1 DEF TypeOK, Row
  <2>2. None \notin Row
    BY AccountsAssumption DEF AccountsAssumption
  <2> QED BY <1>1, <2>1, <2>2 DEF SaveInvitation, TypeOK
<1>4. TypeOK'
  BY <1>1, <1>2, <1>3, RequestsFitMean DEF SaveInvitation, TypeOK, RequestsFit, Accepting, At
<1>5. (TellersJoined /\ InvitedSomewhere)'
  BY <1>2 DEF SaveInvitation, TellersJoined, InvitedSomewhere
<1>6. (UsedMeansJoined /\ SchoolHasAdmin /\ ToldOfJoiner)'
  BY <1>3 DEF SaveInvitation, UsedMeansJoined, SchoolHasAdmin, ToldOfJoiner
<1>7. JoinedNotPending'
  BY <1>1, <1>3 DEF SaveInvitation, JoinedNotPending, ShownLink, Status, TypeOK
<1> QED BY <1>2, <1>4, <1>5, <1>6, <1>7
\* Claimed and joined in one step, or neither.
LEMMA AcceptKeeps ==
  ASSUME IInv, NEW r \in Requests, Accept(r)
  PROVE  IInv'
<1> USE DEF IInv
<1> DEFINE s == input[r].school
<1>1. s \in Schools
  BY DEF RequestsFit, Accept, At, Accepting
<1>2. CASE ~(Claimable(r) /\ account = None)
  BY <1>2, FinishFits, RowsKept DEF Accept, rowVars
<1>3. CASE Claimable(r) /\ account = None
  <2>1. /\ At(r, "accepting")
        /\ Goto(r, "telling")
        /\ account' = [school |-> s, how |-> "invited"]
        /\ invitation' = [invitation EXCEPT ![s].used = TRUE]
        /\ UNCHANGED <<schools, told, reopened>>
        /\ invitation[s] # None
    BY <1>3 DEF Accept, Join, Claimable
  <2>2. RequestsFit'
    BY <2>1 DEF RequestsFit, Goto, At, Statements
  <2>3. /\ invitation' \in [Schools -> {None} \cup Row]
        /\ invitation'[s] # None
        /\ invitation'[s].used
        /\ \A x \in Schools \ {s} : invitation'[x] = invitation[x]
    <3>1. invitation[s] \in Row
      BY <1>1, <2>1 DEF TypeOK
    <3>2. /\ [invitation[s] EXCEPT !.used = TRUE] \in Row
          /\ [invitation[s] EXCEPT !.used = TRUE].used
      BY <3>1 DEF Row
    <3>3. None \notin Row
      BY AccountsAssumption DEF AccountsAssumption
    <3>4. invitation' = [invitation EXCEPT ![s] = [invitation[s] EXCEPT !.used = TRUE]]
      BY <2>1
    <3> QED BY <1>1, <3>2, <3>3, <3>4 DEF TypeOK
  <2>4. account' \in Account /\ account' # None
    BY <1>1, <2>1, AccountsAssumption DEF AccountsAssumption, Account
  <2>5. TypeOK'
    BY <2>1, <2>2, <2>3, <2>4, RequestsFitMean DEF TypeOK, RequestsFit, Accepting, At
  <2>6. (TellersJoined /\ InvitedSomewhere)'
    <3>1. \A q \in Requests : ~At(q, "telling")
      BY <1>3, AccountsAssumption
         DEF AccountsAssumption, Account, TellersJoined, RequestsFit, Accepting, At
    <3>2. \A q \in Requests : At(q, "telling")' => q = r
      BY <2>1, <3>1 DEF Goto, At, RequestsFit
    <3> QED BY <1>1, <2>1, <3>2 DEF TellersJoined, InvitedSomewhere, Goto
  <2>7. UsedMeansJoined'
    BY <1>1, <1>3, <2>1, <2>3, <2>4 DEF UsedMeansJoined
  <2>8. (SchoolHasAdmin /\ ToldOfJoiner)'
    BY <1>3, <2>1 DEF SchoolHasAdmin, ToldOfJoiner
  <2>9. JoinedNotPending'
    BY <2>1, <2>3 DEF JoinedNotPending, ShownLink, Status
  <2> QED BY <2>2, <2>5, <2>6, <2>7, <2>8, <2>9
<1> QED BY <1>2, <1>3

LEMMA TellSchoolKeeps ==
  ASSUME IInv, NEW r \in Requests, TellSchool(r)
  PROVE  IInv'
<1> USE DEF IInv
<1> DEFINE s == input[r].school
<1>1. /\ s \in Schools
      /\ account = [school |-> s, how |-> "invited"]
  BY DEF RequestsFit, TellSchool, At, Accepting, TellersJoined
<1>2. /\ RequestsFit'
      /\ \A q \in Requests : At(q, "telling")' => At(q, "telling") /\ input'[q] = input[q]
      /\ told' \in SUBSET (told \cup {s})
      /\ UNCHANGED <<account, schools, invitation, reopened>>
  BY FinishFits DEF TellSchool, TutorJoined
<1>3. account # None
  BY <1>1, AccountsAssumption DEF AccountsAssumption, Account
<1>4. TypeOK'
  BY <1>1, <1>2, RequestsFitMean DEF TypeOK, RequestsFit, Accepting, At
<1>5. (TellersJoined /\ InvitedSomewhere)'
  BY <1>2 DEF TellersJoined, InvitedSomewhere
<1>6. (UsedMeansJoined /\ SchoolHasAdmin /\ JoinedNotPending)'
  BY <1>2 DEF UsedMeansJoined, SchoolHasAdmin, JoinedNotPending, ShownLink, Status
<1>7. ToldOfJoiner'
  BY <1>1, <1>2, <1>3 DEF ToldOfJoiner
<1> QED BY <1>2, <1>4, <1>5, <1>6, <1>7

\* Where the address settles when it has no account yet: nobody was told of it,
\* no invitation was used and no school was founded.
LEMMA SettlingKeeps ==
  ASSUME IInv, RequestsFit', account = None,
         NEW home \in Schools \cup Slugs, NEW how \in {"founded", "added"},
         account' = [school |-> home, how |-> how],
         \/ schools' = schools
         \/ schools' = schools \cup {home} /\ how = "founded",
         UNCHANGED <<invitation, told, reopened>>,
         \A r \in Requests : At(r, "telling")' => At(r, "telling") /\ input'[r] = input[r]
  PROVE  IInv'
<1> USE DEF IInv
<1>1. account' \in Account /\ account' # None
  BY AccountsAssumption DEF AccountsAssumption, Account
<1>2. TypeOK'
  BY <1>1, RequestsFitMean DEF TypeOK, RequestsFit, Accepting, At
<1>3. TellersJoined'
  BY AccountsAssumption DEF TellersJoined, AccountsAssumption, Account, RequestsFit, Accepting, At
<1>4. (InvitedSomewhere /\ UsedMeansJoined /\ ToldOfJoiner)'
  BY DEF InvitedSomewhere, UsedMeansJoined, ToldOfJoiner
<1>5. SchoolHasAdmin'
  BY <1>1 DEF SchoolHasAdmin
<1>6. JoinedNotPending'
  BY DEF JoinedNotPending
<1> QED BY <1>2, <1>3, <1>4, <1>5, <1>6

LEMMA RegisterKeeps ==
  ASSUME IInv, NEW r \in Requests, Register(r)
  PROVE  IInv'
<1>1. input[r] \in Slugs
  BY DEF IInv, RequestsFit, Register, At
<1>2. /\ RequestsFit'
      /\ \A q \in Requests : At(q, "telling")' => At(q, "telling") /\ input'[q] = input[q]
  BY FinishFits DEF Register, IInv
<1>3. CASE input[r] \notin schools /\ account = None
  BY <1>1, <1>2, <1>3, SettlingKeeps DEF Register
<1>4. CASE ~(input[r] \notin schools /\ account = None)
  BY <1>2, <1>4, RowsKept DEF Register, rowVars
<1> QED BY <1>3, <1>4

LEMMA CreateTutorKeeps ==
  ASSUME IInv, NEW r \in Requests, CreateTutor(r)
  PROVE  IInv'
<1>1. input[r] \in Schools
  BY DEF IInv, RequestsFit, CreateTutor, At
<1>2. /\ RequestsFit'
      /\ \A q \in Requests : At(q, "telling")' => At(q, "telling") /\ input'[q] = input[q]
  BY FinishFits DEF CreateTutor, IInv
<1>3. CASE account = None
  <2>1. /\ account' = [school |-> input[r], how |-> "added"]
        /\ UNCHANGED <<schools, invitation, told, reopened>>
    BY <1>3 DEF CreateTutor
  <2>2. input[r] \in Schools \cup Slugs /\ "added" \in {"founded", "added"}
    BY <1>1
  <2> QED BY <1>2, <1>3, <2>1, <2>2, SettlingKeeps
<1>4. CASE account # None
  BY <1>2, <1>4, RowsKept DEF CreateTutor, rowVars
<1> QED BY <1>3, <1>4

\* Withdrawn or expired, an invitation is no more used, open or shown than it was.
LEMMA ClosingKeeps ==
  ASSUME IInv, NEW s \in Schools, Revoke(s) \/ Expire(s)
  PROVE  IInv'
<1> USE DEF IInv
<1>1. /\ invitation[s] \in Row
      /\ UNCHANGED <<pc, input, account, schools, told, reopened>>
  BY DEF Revoke, Expire, TypeOK
<1>2. /\ invitation' \in [Schools -> {None} \cup Row]
      /\ \A x \in Schools : invitation'[x] # None =>
           /\ invitation[x] # None
           /\ invitation'[x].used = invitation[x].used
           /\ invitation[x].expired => invitation'[x].expired
  <2>1. CASE Revoke(s)
    BY <2>1 DEF Revoke, TypeOK
  <2>2. CASE Expire(s)
    <3>1. invitation' = [invitation EXCEPT ![s] = [invitation[s] EXCEPT !.expired = TRUE]]
      BY <2>2 DEF Expire
    <3>2. /\ [invitation[s] EXCEPT !.expired = TRUE] \in Row
          /\ [invitation[s] EXCEPT !.expired = TRUE].used = invitation[s].used
          /\ [invitation[s] EXCEPT !.expired = TRUE].expired
      BY <1>1 DEF Row
    <3>3. invitation[s] # None
      BY <1>1, AccountsAssumption DEF AccountsAssumption
    <3> QED BY <3>1, <3>2, <3>3 DEF TypeOK
  <2> QED BY <2>1, <2>2
<1>3. RequestsFit' /\ TypeOK'
  BY <1>1, <1>2 DEF TypeOK, RequestsFit, At
<1>4. (TellersJoined /\ InvitedSomewhere /\ SchoolHasAdmin /\ ToldOfJoiner)'
  BY <1>1 DEF TellersJoined, InvitedSomewhere, SchoolHasAdmin, ToldOfJoiner, At
<1>5. UsedMeansJoined'
  BY <1>1, <1>2 DEF UsedMeansJoined
<1>6. JoinedNotPending'
  <2> SUFFICES ASSUME account # None, account.how = "invited",
                      ShownLink(account.school)' # None
               PROVE  account.school \in reopened
    BY <1>1 DEF JoinedNotPending
  <2>1. account.school \in Schools
    BY DEF InvitedSomewhere
  <2>2. invitation[account.school] # None /\ Status(invitation[account.school]) = "pending"
    BY <1>1, <1>2, <2>1 DEF ShownLink, Status, TypeOK
  <2>3. invitation[account.school] \in Row
    BY <2>1, <2>2 DEF TypeOK
  <2>4. ~invitation[account.school].used /\ ~invitation[account.school].expired
    BY <1>1, <1>2, <2>1, <2>3 DEF ShownLink, Status
  <2>5. ShownLink(account.school) # None
    BY <2>2, <2>3, <2>4, AccountsAssumption DEF AccountsAssumption, ShownLink, Status, Row
  <2> QED BY <2>5 DEF JoinedNotPending
<1> QED BY <1>3, <1>4, <1>5, <1>6

LEMMA CrashKeeps ==
  ASSUME IInv, Crash
  PROVE  IInv'
<1>1. /\ RequestsFit'
      /\ \A r \in Requests : ~At(r, "telling")'
  BY DEF IInv, Crash, Drop, InFlight, Final, RequestsFit, Statements, At
<1> QED BY <1>1, RowsKept DEF Crash, rowVars

-----------------------------------------------------------------------------
(* The invariant, and what follows from it.                                  *)

\* Every reachable state satisfies the inductive invariant.
THEOREM InductiveInvariant == Spec => []IInv
<1>1. Init => IInv
  BY AccountsAssumption
     DEF AccountsAssumption, Init, RequestsInit, IInv, TypeOK, RequestsFit, Statements,
         TellersJoined, InvitedSomewhere, UsedMeansJoined, SchoolHasAdmin, ToldOfJoiner,
         JoinedNotPending, At
<1>2. IInv /\ [Next]_vars => IInv'
  <2> SUFFICES ASSUME IInv, [Next]_vars
               PROVE  IInv'
    OBVIOUS
  <2>1. CASE \E r \in Requests, s \in Schools :
               Invite(r, s) \/ FindUsable(r, s) \/ CheckTutor(r, s)
    BY <2>1, ReadingKeeps
  <2>2. CASE \E r \in Requests, g \in Slugs : CheckRegistration(r, g)
    BY <2>2, ReadingKeeps
  <2>3. CASE \E r \in Requests : Continue(r)
    BY <2>3, SaveInvitationKeeps, AcceptKeeps, TellSchoolKeeps, RegisterKeeps,
       CreateTutorKeeps DEF Continue
  <2>4. CASE \E s \in Schools : Revoke(s) \/ Expire(s)
    BY <2>4, ClosingKeeps
  <2>5. CASE Crash
    BY <2>5, CrashKeeps
  <2>6. CASE UNCHANGED vars
    BY <2>6, RowsKept DEF vars, rowVars, IInv, RequestsFit, At
  <2> QED BY <2>1, <2>2, <2>3, <2>4, <2>5, <2>6 DEF Next
<1> QED BY <1>1, <1>2, PTL DEF Spec

\* Rows and requests keep their types.
THEOREM TypeCorrect == Spec => []TypeOK
BY InductiveInvariant, PTL DEF IInv

\* An invitation is used up only by somebody who came in by it: the claim and
\* the user row of accept stand or fall together, whatever else was under way.
THEOREM InvitationUsedByJoiner == Spec => []UsedMeansJoined
BY InductiveInvariant, PTL DEF IInv

\* No registration leaves a school that nobody can enter.
THEOREM RegisteredWithAdmin == Spec => []SchoolHasAdmin
BY InductiveInvariant, PTL DEF IInv

\* A school is told only of a colleague who is one.
THEOREM SchoolToldOfColleague == Spec => []ToldOfJoiner
BY InductiveInvariant, PTL DEF IInv

\* The invitation a person came in by is no longer shown as pending, unless a
\* resend that had checked the address before they came was saved after.
THEOREM InvitationClosedByJoining == Spec => []JoinedNotPending
BY InductiveInvariant, PTL DEF IInv

-----------------------------------------------------------------------------
(* Accounts implements Membership.                                           *)

\* Every step from a state of the invariant is one that Membership allows.
LEMMA EveryStepAllowed ==
  ASSUME IInv, [Next]_vars
  PROVE  [Promise!Next]_<<account, {s \in Schools : invitation[s] # None /\ ~invitation[s].used}>>
<1> DEFINE open == {s \in Schools : invitation[s] # None /\ ~invitation[s].used}
<1> USE DEF IInv
<1>1. ASSUME NEW r \in Requests, SaveInvitation(r)
      PROVE  \E s \in Schools : Promise!Invite(s)
  <2>1. input[r] \in Schools
    BY <1>1 DEF RequestsFit, SaveInvitation, At
  <2>2. [id |-> IF invitation[input[r]] = None THEN r ELSE invitation[input[r]].id,
         token |-> r, used |-> FALSE, expired |-> FALSE] \in Row
    BY <2>1 DEF TypeOK, Row
  <2>3. /\ invitation'[input[r]] # None
        /\ ~invitation'[input[r]].used
        /\ \A x \in Schools \ {input[r]} : invitation'[x] = invitation[x]
    BY <1>1, <2>1, <2>2, AccountsAssumption DEF AccountsAssumption, SaveInvitation, TypeOK
  <2>4. open' = open \cup {input[r]}
    BY <2>1, <2>3
  <2> QED BY <1>1, <2>1, <2>4 DEF SaveInvitation, Promise!Invite
<1>2. ASSUME NEW r \in Requests, Accept(r), Claimable(r), account = None
      PROVE  \E s \in Schools : Promise!Join(s)
  <2> DEFINE s == input[r].school
  <2>1. s \in Schools
    BY <1>2 DEF RequestsFit, Accept, At, Accepting
  <2>2. /\ s \in open
        /\ account' = [school |-> s, how |-> "invited"]
        /\ invitation' = [invitation EXCEPT ![s].used = TRUE]
    BY <1>2, <2>1 DEF Accept, Join, Claimable
  <2>3. invitation[s] \in Row
    BY <2>1, <2>2 DEF TypeOK
  <2>4. [invitation[s] EXCEPT !.used = TRUE].used
    BY <2>3 DEF Row
  <2>5. /\ invitation'[s].used
        /\ \A x \in Schools \ {s} : invitation'[x] = invitation[x]
    BY <2>1, <2>2, <2>4 DEF TypeOK
  <2>6. open' = open \ {s}
    BY <2>1, <2>5
  <2> QED BY <1>2, <2>1, <2>2, <2>6 DEF Promise!Join
<1>3. ASSUME NEW r \in Requests, Register(r), account' # account
      PROVE  \E g \in Slugs : Promise!Settle(g)
  BY <1>3 DEF Register, Promise!Settle, RequestsFit, At
<1>4. ASSUME NEW r \in Requests, CreateTutor(r), account' # account
      PROVE  \E s \in Schools : Promise!Settle(s)
  BY <1>4 DEF CreateTutor, Promise!Settle, RequestsFit, At
<1>5. ASSUME NEW s \in Schools, Revoke(s)
      PROVE  Promise!Withdraw(s)
  <2>1. /\ invitation'[s] = None
        /\ \A x \in Schools \ {s} : invitation'[x] = invitation[x]
    BY <1>5 DEF Revoke, TypeOK
  <2>2. open' = open \ {s}
    BY <2>1
  <2> QED BY <1>5, <2>2 DEF Revoke, Promise!Withdraw
<1>6. ASSUME NEW s \in Schools, Expire(s)
      PROVE  UNCHANGED <<account, open>>
  <2>1. /\ invitation[s] \in Row
        /\ invitation' = [invitation EXCEPT ![s] = [invitation[s] EXCEPT !.expired = TRUE]]
    BY <1>6 DEF Expire, TypeOK
  <2>2. /\ [invitation[s] EXCEPT !.expired = TRUE] \in Row
        /\ [invitation[s] EXCEPT !.expired = TRUE].used = invitation[s].used
    BY <2>1 DEF Row
  <2>3. /\ invitation[s] # None
        /\ invitation'[s] # None
        /\ invitation'[s].used = invitation[s].used
        /\ \A x \in Schools \ {s} : invitation'[x] = invitation[x]
    BY <1>6, <2>1, <2>2, AccountsAssumption DEF AccountsAssumption, TypeOK
  <2>4. open' = open
    BY <2>3
  <2> QED BY <1>6, <2>4 DEF Expire
<1>7. ASSUME UNCHANGED <<account, invitation>>
      PROVE  UNCHANGED <<account, open>>
  BY <1>7
<1>8. CASE \E r \in Requests, s \in Schools :
             Invite(r, s) \/ FindUsable(r, s) \/ CheckTutor(r, s)
  BY <1>7, <1>8 DEF Invite, FindUsable, CheckTutor
<1>9. CASE \E r \in Requests, g \in Slugs : CheckRegistration(r, g)
  BY <1>7, <1>9 DEF CheckRegistration
<1>10. CASE \E r \in Requests : SaveInvitation(r)
  BY <1>1, <1>10 DEF Promise!Next
<1>11. CASE \E r \in Requests : Accept(r)
  <2>1. PICK r \in Requests : Accept(r)
    BY <1>11
  <2>2. CASE Claimable(r) /\ account = None
    BY <1>2, <2>1, <2>2 DEF Promise!Next
  <2>3. CASE ~(Claimable(r) /\ account = None)
    BY <1>7, <2>1, <2>3 DEF Accept
  <2> QED BY <2>2, <2>3
<1>12. CASE \E r \in Requests : TellSchool(r)
  BY <1>7, <1>12 DEF TellSchool
<1>13. CASE \E r \in Requests : Register(r)
  <2>1. PICK r \in Requests : Register(r)
    BY <1>13
  <2>2. CASE account' # account
    BY <1>3, <2>1, <2>2 DEF Promise!Next
  <2>3. CASE account' = account
    BY <1>7, <2>1, <2>3 DEF Register
  <2> QED BY <2>2, <2>3
<1>14. CASE \E r \in Requests : CreateTutor(r)
  <2>1. PICK r \in Requests : CreateTutor(r)
    BY <1>14
  <2>2. CASE account' # account
    BY <1>4, <2>1, <2>2 DEF Promise!Next
  <2>3. CASE account' = account
    BY <1>7, <2>1, <2>3 DEF CreateTutor
  <2> QED BY <2>2, <2>3
<1>15. CASE \E s \in Schools : Revoke(s) \/ Expire(s)
  BY <1>5, <1>6, <1>15 DEF Promise!Next
<1>16. CASE Crash
  BY <1>7, <1>16 DEF Crash
<1>17. CASE UNCHANGED vars
  BY <1>7, <1>17 DEF vars
<1> QED BY <1>8, <1>9, <1>10, <1>11, <1>12, <1>13, <1>14, <1>15, <1>16, <1>17
        DEF Next, Continue

\* Whatever requests are under way, the address enters one school, once, and by
\* invitation only through one that stood open and is used up by it.
THEOREM ImplementsMembership == Spec => MembershipSpec
<1>1. Init => Promise!Init
  BY DEF Init, Promise!Init
<1> QED BY <1>1, EveryStepAllowed, InductiveInvariant, PTL
        DEF Spec, MembershipSpec, Promise!Spec
=============================================================================
