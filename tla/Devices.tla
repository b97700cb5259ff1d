------------------------------- MODULE Devices -------------------------------
(***************************************************************************)
(* Phones and announcements: DevicesService keeps whose each push token    *)
(* is, NotificationsService.announce stores a row for everyone and then    *)
(* pushes, and the tokens the push service calls dead are retired.         *)
(***************************************************************************)
EXTENDS Members, Staff

CONSTANTS
  Tokens,    \* push tokens
  Broadcast  \* the capability to announce

ASSUME DevicesAssumption == None \notin Users /\ Broadcast \in Addons

VARIABLES
  owner,   \* token -> whose push_tokens row it is, or None
  dead,    \* tokens the push service no longer knows
  feed,    \* notification rows: <<the announcing request, its recipient>>
  pushed   \* history: <<request, token>> handed to the push service

deviceVars == <<owner, dead, feed, pushed>>

DevicesInit ==
  /\ owner = [t \in Tokens |-> None]
  /\ dead = {}
  /\ feed = {}
  /\ pushed = {}

\* The admin holds every capability, the rest what the tutor was granted.
ResolveFor(u) == IF u = Admin THEN Addons ELSE grants

-----------------------------------------------------------------------------
(* Devices.                                                                  *)

\* An upsert on the token, one statement: the phone's new owner replaces the old.
RegisterDevice(u, t) ==
  /\ owner[t] # u
  /\ owner' = [owner EXCEPT ![t] = u]
  /\ UNCHANGED <<pc, input, dead, feed, pushed>>

Unregister(r, u, t) ==
  /\ At(r, "idle")
  /\ Take(r, [user |-> u, token |-> t], "unregistering")
  /\ UNCHANGED deviceVars

\* Scoped to the caller, and silent about a token that is not theirs (any more).
DeleteOwn(r) ==
  /\ At(r, "unregistering")
  /\ owner' = [owner EXCEPT ![input[r].token] = IF @ = input[r].user THEN None ELSE @]
  /\ Finish(r)
  /\ UNCHANGED <<dead, feed, pushed>>

\* The app is removed from the phone.
Uninstall(t) ==
  /\ t \notin dead
  /\ dead' = dead \cup {t}
  /\ UNCHANGED <<pc, input, owner, feed, pushed>>

-----------------------------------------------------------------------------
(* Announcements.                                                            *)

\* AddonGuard, then the list of recipients, the sender among them.
Announce(r, u) ==
  /\ At(r, "idle")
  /\ Broadcast \in ResolveFor(u)
  /\ Take(r, Users, "storing")
  /\ UNCHANGED deviceVars

\* Mutant: the devices are read, and pushed to, before the rows are stored.
PushFirst(r) ==
  /\ At(r, "storing")
  /\ Take(r, {t \in Tokens : owner[t] \in input[r]}, "sending")
  /\ UNCHANGED deviceVars

StoreFeed(r) ==
  /\ At(r, "storing")
  /\ feed' = feed \cup {<<r, u>> : u \in input[r]}
  /\ Goto(r, "pushing")
  /\ UNCHANGED <<owner, dead, pushed>>

TokensFor(us) == {t \in Tokens : owner[t] \in us}

ReadDevices(r) ==
  /\ At(r, "pushing")
  /\ Take(r, TokensFor(input[r]), IF TokensFor(input[r]) = {} THEN "over" ELSE "sending")
  /\ UNCHANGED deviceVars

\* What one send can come back with.  A live token is never called dead; a dead
\* one may be, or the answer may not arrive.
Answers(t) ==
  IF t \in dead THEN {"NOT_FOUND", "UNREGISTERED", "UNAVAILABLE"}
  ELSE {"ok", "SENDER_ID_MISMATCH", "UNAVAILABLE"}

\* Mutant: whatever is not delivered is dropped.
AnyError == {"NOT_FOUND", "UNREGISTERED", "INVALID_ARGUMENT", "SENDER_ID_MISMATCH"}

DEAD_TOKEN_ERRORS == {"NOT_FOUND", "UNREGISTERED", "INVALID_ARGUMENT"}

\* Each outcome of a send is a token to retire or nothing to act on.
SendOne(t) == {IF a \in DEAD_TOKEN_ERRORS THEN {t} ELSE {} : a \in Answers(t)}

Send(r) ==
  /\ At(r, "sending")
  /\ \E retired \in SUBSET input[r] :
       /\ \A t \in input[r] : (retired \cap {t}) \in SendOne(t)
       /\ Take(r, retired, "retiring")
  /\ pushed' = pushed \cup {<<r, t>> : t \in input[r]}
  /\ UNCHANGED <<owner, dead, feed>>

\* No access token for the push service: said once, and nothing is retired.
CannotAuthenticate(r) ==
  /\ At(r, "sending")
  /\ Finish(r)
  /\ UNCHANGED deviceVars

\* deleteMany by token, whoever holds it now.  A failure is logged.
Retire(r) ==
  /\ At(r, "retiring")
  /\ owner' = [t \in Tokens |-> IF t \in input[r] THEN None ELSE owner[t]]
  /\ Finish(r)
  /\ UNCHANGED <<dead, feed, pushed>>

-----------------------------------------------------------------------------

DevicesContinue(r) ==
  DeleteOwn(r) \/ StoreFeed(r) \/ ReadDevices(r) \/ Send(r) \/ CannotAuthenticate(r) \/ Retire(r)

DevicesNext(r) ==
  \/ \E u \in Users, t \in Tokens : Unregister(r, u, t)
  \/ \E u \in Users : Announce(r, u)
  \/ DevicesContinue(r)

DevicesAlone ==
  \E t \in Tokens : Uninstall(t) \/ \E u \in Users : RegisterDevice(u, t)

DevicesTypeOK ==
  /\ owner \in [Tokens -> Users \cup {None}]
  /\ dead \in SUBSET Tokens
  /\ feed \in SUBSET (Requests \X Users)
  /\ pushed \in SUBSET (Requests \X Tokens)

-----------------------------------------------------------------------------
(* Properties.                                                               *)

\* A phone stops being somebody's only by their own sign-out, or because the
\* push service no longer knows it: not by a late sign-out of who had it before,
\* and not because a message could not be delivered.
DeviceKept ==
  [][\A t \in Tokens : owner[t] # None /\ owner'[t] = None =>
       \/ t \in dead
       \/ \E r \in Requests : /\ At(r, "unregistering")
                              /\ ~At(r, "unregistering")'
                              /\ input[r] = [user |-> owner[t], token |-> t]]_deviceVars

\* A push is about an announcement that is in the feed, crash or no crash.
PushedIsInFeed == \A p \in pushed : \A u \in Users : <<p[1], u>> \in feed
=============================================================================
