------------------------------- MODULE Meetings ------------------------------
(***************************************************************************)
(* MeetingAccountsService for one tutor and one provider: connecting an    *)
(* account, disconnecting it, and creating a room for each lesson booked,  *)
(* with the refresh of the access token that may need.  Bookings run at    *)
(* once, and each step that waits for the provider or for the database is  *)
(* an action of its own, because the row it read may be another by then.   *)
(*                                                                         *)
(* Every request obtains at most one refresh token, so a refresh token is  *)
(* named by the request that obtained it, and a row by the connection that *)
(* created it.                                                             *)
(***************************************************************************)
EXTENDS FiniteSets

CONSTANTS
  Connects,  \* completed consents: calls of the OAuth callback
  Bookings,  \* lessons being booked
  Nothing    \* no row, no token

Requests == Connects \cup Bookings

\* label: the account shown in the settings, by the consent that gave it.
\* fresh: the cached access token has time left.  readable: by this build's key.
Row == [id : Connects, label : Connects, refresh : Requests,
        fresh : BOOLEAN, readable : BOOLEAN]

ASSUME MeetingsAssumption ==
  /\ Connects \cap Bookings = {}
  /\ Nothing \notin Requests \cup Row

VARIABLES
  provider, \* which provider: ZOOM rotates refresh tokens, GOOGLE_MEET does not
  conn,     \* the meeting_accounts row, or Nothing
  live,     \* the refresh tokens the provider still accepts
  pc,       \* request -> where it stands
  account,  \* booking -> the row as it read it
  token,    \* booking -> the new refresh token it was sent, or Nothing
  closed,   \* history: rows that were deleted
  spoiled,  \* history: tokens revoked, or whose replacement never arrived
  crossed,  \* history: bookings that had read a row when a consent was stored last
  source    \* history: booking -> the consent that the token it read goes back to

consents == <<crossed, source>>

vars == <<provider, conn, live, pc, account, token, closed, spoiled, consents>>

Init ==
  /\ provider \in {"ZOOM", "GOOGLE_MEET"}
  /\ conn = Nothing
  /\ live = {}
  /\ pc = [r \in Requests |-> "start"]
  /\ account = [b \in Bookings |-> Nothing]
  /\ token = [b \in Bookings |-> Nothing]
  /\ closed = {}
  /\ spoiled = {}
  /\ crossed = {}
  /\ source = [b \in Bookings |-> Nothing]

\* The consent, and so the account at the provider, behind a refresh token.
GoesBackTo(r) == IF r \in Connects THEN r ELSE source[r]

\* Bookings that have read a row and not yet written to it.
Reading == {b \in Bookings : pc[b] \in {"exchange", "answered"}}

Goto(r, p) == pc' = [pc EXCEPT ![r] = p]

-----------------------------------------------------------------------------
(* Connecting.  A callback whose state or code is refused, or that is given  *)
(* no refresh token, changes nothing and is left out.                        *)

ExchangeCode(c) ==
  /\ pc[c] = "start"
  /\ live' = live \cup {c}
  /\ Goto(c, "granted")
  /\ UNCHANGED <<provider, conn, account, token, closed, spoiled, consents>>

\* Mutant: a grant without a refresh token is stored as well.
StoreWithoutRefresh(c) ==
  /\ pc[c] = "granted"
  /\ conn' = [id |-> c, label |-> c, refresh |-> Nothing,
              fresh |-> TRUE, readable |-> TRUE]
  /\ Goto(c, "over")
  /\ crossed' = Reading
  /\ UNCHANGED <<provider, live, account, token, closed, spoiled, source>>

\* The upsert: a row that is there keeps its id.
StoreConnection(c) ==
  /\ pc[c] = "granted"
  /\ conn' = [id |-> IF conn = Nothing THEN c ELSE conn.id,
              label |-> c, refresh |-> c, fresh |-> TRUE, readable |-> TRUE]
  /\ Goto(c, "over")
  /\ crossed' = Reading
  /\ UNCHANGED <<provider, live, account, token, closed, spoiled, source>>

Disconnect ==
  /\ conn # Nothing
  /\ conn' = Nothing
  /\ closed' = closed \cup {conn.id}
  /\ UNCHANGED <<provider, live, pc, account, token, spoiled, consents>>

-----------------------------------------------------------------------------
(* Booking a lesson.                                                         *)

\* findUnique, and what the row says has to be done.
Begin(b) ==
  /\ pc[b] = "start"
  /\ account' = [account EXCEPT ![b] = conn]
  /\ Goto(b, IF conn = Nothing THEN "own"
             ELSE IF ~conn.readable THEN "forget"
             ELSE IF conn.fresh THEN "minting" ELSE "exchange")
  /\ source' = [source EXCEPT ![b] =
                  IF conn = Nothing THEN Nothing ELSE GoesBackTo(conn.refresh)]
  /\ UNCHANGED <<provider, conn, live, token, closed, spoiled, crossed>>

\* The provider's side of a refresh: a rotated token dies as its successor is born.
Rotate(b) ==
  /\ pc[b] = "exchange"
  /\ account[b].refresh \in live
  /\ live' = IF provider = "ZOOM"
             THEN (live \ {account[b].refresh}) \cup {b} ELSE live
  /\ UNCHANGED <<provider, conn, account, closed, consents>>

Refresh(b) ==
  /\ Rotate(b)
  /\ token' = [token EXCEPT ![b] = IF provider = "ZOOM" THEN b ELSE Nothing]
  /\ Goto(b, "answered")
  /\ UNCHANGED spoiled

RefreshRejected(b) ==
  /\ pc[b] = "exchange"
  /\ account[b].refresh \notin live
  /\ Goto(b, "forget")
  /\ UNCHANGED <<provider, conn, live, account, token, closed, spoiled, consents>>

\* A timeout, a 5xx, an unreadable answer: before the provider acted or after.
RefreshFails(b) ==
  /\ pc[b] = "exchange"
  /\ Goto(b, "forget")
  /\ UNCHANGED token
  /\ \/ UNCHANGED <<provider, conn, live, account, closed, spoiled, consents>>
     \/ Rotate(b) /\ spoiled' = spoiled \cup (live \ live')

\* The row this request read is still there, whatever it holds by now.
StillThere(b) == conn # Nothing /\ conn.id = account[b].id

\* What is written to it; the label stays.
Renewed(b, row) ==
  [row EXCEPT
     !.refresh = IF token[b] = Nothing THEN account[b].refresh ELSE token[b],
     !.fresh = TRUE, !.readable = TRUE]

\* Mutant: the rotated token is not written back.
WriteAccessOnly(b) ==
  /\ pc[b] = "answered"
  /\ conn' = IF StillThere(b) THEN [conn EXCEPT !.fresh = TRUE] ELSE conn
  /\ Goto(b, IF StillThere(b) THEN "minting" ELSE "failed")
  /\ UNCHANGED <<provider, live, account, token, closed, spoiled, consents>>

\* Mutant: an upsert, which brings a deleted row back.
WriteBackUpserting(b) ==
  /\ pc[b] = "answered"
  /\ conn' = Renewed(b, account[b])
  /\ Goto(b, "minting")
  /\ UNCHANGED <<provider, live, account, token, closed, spoiled, consents>>

\* Mutant: the update also requires the row to hold the token it was read with.
WriteBackIfUnchanged(b) ==
  /\ pc[b] = "answered"
  /\ conn' = IF StillThere(b) /\ conn.refresh = account[b].refresh
             THEN Renewed(b, conn) ELSE conn
  /\ Goto(b, IF StillThere(b) /\ conn.refresh = account[b].refresh
             THEN "minting" ELSE "failed")
  /\ UNCHANGED <<provider, live, account, token, closed, spoiled, consents>>

\* Mutant: the update goes by tutor and provider instead of by id.
WriteBackByTutor(b) ==
  /\ pc[b] = "answered"
  /\ conn' = IF conn # Nothing THEN Renewed(b, conn) ELSE conn
  /\ Goto(b, IF conn # Nothing THEN "minting" ELSE "failed")
  /\ UNCHANGED <<provider, live, account, token, closed, spoiled, consents>>

\* update by id.  P2025 if the row is gone, which nobody catches on the way up.
WriteBack(b) ==
  /\ pc[b] = "answered"
  /\ conn' = IF StillThere(b) THEN Renewed(b, conn) ELSE conn
  /\ Goto(b, IF StillThere(b) THEN "minting" ELSE "failed")
  /\ UNCHANGED <<provider, live, account, token, closed, spoiled, consents>>

\* Mutant: a row somebody else deleted is waited for.
ForgetOnlyMine(b) ==
  /\ pc[b] = "forget"
  /\ StillThere(b)
  /\ conn' = Nothing
  /\ closed' = closed \cup {account[b].id}
  /\ Goto(b, "own")
  /\ UNCHANGED <<provider, live, account, token, spoiled, consents>>

\* Deletes the row by id, and does not mind its being gone already.
Forget(b) ==
  /\ pc[b] = "forget"
  /\ conn' = IF StillThere(b) THEN Nothing ELSE conn
  /\ closed' = closed \cup {account[b].id}
  /\ Goto(b, "own")
  /\ UNCHANGED <<provider, live, account, token, spoiled, consents>>

\* createRoom at the provider, or the tutor's own room if that fails.
Mint(b) ==
  /\ pc[b] = "minting"
  /\ Goto(b, "room") \/ Goto(b, "own")
  /\ UNCHANGED <<provider, conn, live, account, token, closed, spoiled, consents>>

-----------------------------------------------------------------------------
(* What happens around them.                                                 *)

\* EXPIRY_SLACK_MS before the access token's end.
Expire ==
  /\ conn # Nothing
  /\ conn.fresh
  /\ conn' = [conn EXCEPT !.fresh = FALSE]
  /\ UNCHANGED <<provider, live, pc, account, token, closed, spoiled, consents>>

\* The tutor withdraws the app's access at the provider.
Revoke ==
  /\ live # {}
  /\ live' = {}
  /\ spoiled' = spoiled \cup live
  /\ UNCHANGED <<provider, conn, pc, account, token, closed, consents>>

InFlight == {r \in Requests : pc[r] \notin {"start", "over", "own", "room", "failed"}}

\* Restarted, with the same MEETING_TOKEN_SECRET or with another.
Restart ==
  /\ pc' = [r \in Requests |-> IF r \in InFlight THEN "over" ELSE pc[r]]
  /\ spoiled' = spoiled \cup
       {account[b].refresh : b \in {d \in Bookings :
                                pc[d] = "answered" /\ token[d] # Nothing}}
  /\ \/ UNCHANGED conn
     \/ conn # Nothing /\ conn' = [conn EXCEPT !.readable = FALSE]
  /\ crossed' = crossed \ Reading
  /\ UNCHANGED <<provider, live, account, token, closed, source>>

Step(b) ==
  \/ Begin(b)
  \/ Refresh(b)
  \/ RefreshRejected(b)
  \/ RefreshFails(b)
  \/ WriteBack(b)
  \/ Forget(b)
  \/ Mint(b)

Next ==
  \/ \E c \in Connects : ExchangeCode(c) \/ StoreConnection(c)
  \/ \E b \in Bookings : Step(b)
  \/ Disconnect
  \/ Expire
  \/ Revoke
  \/ Restart

Fairness == \A b \in Bookings : WF_vars(Step(b))

Spec == Init /\ [][Next]_vars /\ Fairness

-----------------------------------------------------------------------------
(* What is checked.                                                          *)

RequestsTypeOK ==
  /\ provider \in {"ZOOM", "GOOGLE_MEET"}
  /\ conn \in Row \cup {Nothing}
  /\ live \subseteq Requests
  /\ pc \in [Requests -> {"start", "granted", "exchange", "answered", "forget",
                          "minting", "over", "own", "room", "failed"}]
  /\ account \in [Bookings -> Row \cup {Nothing}]
  /\ token \in [Bookings -> Requests \cup {Nothing}]
  /\ closed \subseteq Connects
  /\ spoiled \subseteq Requests

ConsentsTypeOK ==
  /\ crossed \subseteq Bookings
  /\ source \in [Bookings -> Connects \cup {Nothing}]

\* The row and the requests have the shape the schema and the code give them.
TypeOK == RequestsTypeOK /\ ConsentsTypeOK

\* Whatever refreshes run at once, for either provider, the stored refresh token
\* still works, or its successor is on its way to the row: only revocation, a
\* lost answer or a restart can spoil it (meeting-accounts.service.ts:304-309).
ConnectionUsable ==
  conn # Nothing =>
    \/ conn.refresh \in live \cup spoiled
    \/ \E b \in Bookings :
         pc[b] = "answered" /\ account[b].refresh = conn.refresh

\* A connection the tutor removed, or a booking gave up, never comes back: no
\* refresh that was in flight writes it again.
ClosedStaysClosed == conn # Nothing => conn.id \notin closed

\* A booking gives up a connection beyond saving: what it deletes is not by then a
\* connection renewed since with a token that works
\* (meeting-accounts.service.ts:258-262).
DropsOnlyWhatFailed ==
  \A b \in Bookings : pc[b] = "forget" /\ StillThere(b) =>
    conn.refresh = account[b].refresh \/ conn.refresh \notin live

\* The label says which of the tutor's accounts rooms are made in
\* (prisma/schema.prisma:169-170).
LabelNamesAccount == conn # Nothing => GoesBackTo(conn.refresh) = conn.label

\* A booking that had read this row when the last consent was stored in it has
\* written to it since.
WrittenOver ==
  \E b \in crossed :
    account[b].id = conn.id /\ pc[b] \in {"minting", "room", "own", "over"}

\* It does through any chain of refreshes, disconnections and new consents, unless
\* a booking wrote to the row what it had read before the tutor reconnected
\* (meeting-accounts.service.ts:304-316).
LabelNamesAccountUnlessCrossed == LabelNamesAccount \/ WrittenOver

\* Booking a lesson must not fail because of the provider
\* (meeting-accounts.service.ts:221-224, lessons.service.ts:239-243).
BookingNeverFails == \A b \in Bookings : pc[b] # "failed"

\* It fails for one reason only: the connection it was refreshing was deleted.
FailsOnlyWhenClosed ==
  \A b \in Bookings : pc[b] = "failed" => account[b].id \in closed

\* A booking that has begun ends, in a room, in the fallback or in an error.
EveryBookingEnds ==
  \A b \in Bookings :
    pc[b] # "start" ~> pc[b] \in {"over", "own", "room", "failed"}
=============================================================================
