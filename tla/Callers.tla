------------------------------ MODULE Callers --------------------------------
(***************************************************************************)
(* Whose allowance a request is taken from (ThrottlerByCallerGuard) and    *)
(* how it is counted, over two windows, by the throttler's store.          *)
(***************************************************************************)
EXTENDS Staff, Naturals, Sequences, FiniteSetsExt

CONSTANTS
  Addresses,
  Calling,    \* the callers there are
  Routes,     \* handlers; each is counted for itself
  GLOBAL_THROTTLERS,  \* window -> [limit, ttl]
  Throttle,   \* the routes decorated with limits of their own -> such limits
  MaxCalls,
  MaxClock

\* Who sends a request: an account with a session token that is valid or no longer,
\* or nobody; and from where.
Callers == [account : Users, token : {"valid", "expired"}, address : Addresses]
             \cup [account : {"nobody"}, token : {"none"}, address : Addresses]

Windows == {"short", "long"}

ASSUME CallersAssumption ==
  /\ {MaxCalls, MaxClock} \subseteq Nat
  /\ Calling \subseteq Callers
  /\ "nobody" \notin Users
  /\ GLOBAL_THROTTLERS \in [Windows -> [limit : Nat \ {0}, ttl : Nat \ {0}]]
  /\ DOMAIN Throttle \subseteq Routes
  /\ \A route \in DOMAIN Throttle : Throttle[route] \in [Windows -> [limit : Nat \ {0}, ttl : Nat \ {0}]]

VARIABLES
  clock,
  store,  \* <<tracker, route, window>> -> the calls that hit it, and until when it blocks
  calls   \* the requests so far, [caller, route, at, served]

callersVars == <<clock, store, calls>>

Trackers == ({"user"} \X Users) \cup ({"ip"} \X Addresses)

\* Mutant: request.user, which nothing has set yet.
AccountFromRequest(c) == "nobody"

\* Verified here, since no guard has authenticated anybody yet.
AccountFrom(c) == IF c.token = "valid" THEN c.account ELSE "nobody"

GetTracker(c) ==
  IF AccountFrom(c) # "nobody" THEN <<"user", AccountFrom(c)>> ELSE <<"ip", c.address>>

CallersInit ==
  /\ clock = 0
  /\ store = [key \in Trackers \X Routes \X Windows |-> [hits |-> {}, until |-> 0, blocked |-> FALSE]]
  /\ calls = <<>>

\* A decorated route is held to its own limits instead of everybody's.
LimitsOf(route) == IF route \in DOMAIN Throttle THEN Throttle[route] ELSE GLOBAL_THROTTLERS

\* Each hit has a timer of its own.
Live(hits, ttl) == {n \in hits : calls[n].at + ttl > clock}

\* The store's answer to one more hit: a block lasts as long as the window, and
\* counts nothing while it lasts.
Increment(entry, window) ==
  LET this == Len(calls) + 1
      hits == Live(entry.hits, window.ttl) \cup {this}
  IN
  IF entry.blocked /\ entry.until > clock THEN entry
  ELSE IF entry.blocked THEN [hits |-> {this}, until |-> 0, blocked |-> FALSE]
  ELSE IF Cardinality(hits) > window.limit
  THEN [hits |-> hits, until |-> clock + window.ttl, blocked |-> TRUE]
  ELSE [hits |-> hits, until |-> 0, blocked |-> FALSE]

\* The short window, then, unless that refuses, the long one.
Call(c, route) ==
  LET tracker == GetTracker(c)
      short == Increment(store[<<tracker, route, "short">>], LimitsOf(route).short)
      long  == Increment(store[<<tracker, route, "long">>], LimitsOf(route).long)
  IN
  /\ Len(calls) < MaxCalls
  /\ store' = [store EXCEPT ![<<tracker, route, "short">>] = short,
                            ![<<tracker, route, "long">>] = IF short.blocked THEN @ ELSE long]
  /\ calls' = Append(calls, [caller |-> c, route |-> route, at |-> clock,
                             served |-> ~short.blocked /\ ~long.blocked])
  /\ UNCHANGED clock

Tick ==
  /\ clock < MaxClock
  /\ clock' = clock + 1
  /\ UNCHANGED <<store, calls>>

CallersNext == Tick \/ \E c \in Calling, route \in Routes : Call(c, route)

CallersTypeOK ==
  /\ clock \in 0 .. MaxClock
  /\ Len(calls) <= MaxCalls
  /\ \A i \in DOMAIN calls : calls[i].caller \in Callers

-----------------------------------------------------------------------------
(* Properties.                                                               *)

\* Two requests of one account, or of one address that nobody has signed in from.
SameCaller(c, d) ==
  \/ c.token = "valid" /\ d.token = "valid" /\ c.account = d.account
  \/ c.token # "valid" /\ d.token # "valid" /\ c.address = d.address

Since(i, ttl) ==
  {j \in 1 .. i : /\ SameCaller(calls[j].caller, calls[i].caller)
                  /\ calls[j].route = calls[i].route
                  /\ calls[j].at > calls[i].at - ttl}

\* Nobody is refused for what others sent: behind every refusal is an allowance
\* the same account, or the same address without one, used up on that very route
\* within two windows.  And nobody is served more than their allowance in any.
OwnAllowance ==
  \A i \in DOMAIN calls : \A w \in Windows :
    LET window == LimitsOf(calls[i].route)[w]
        spent(v) == \E b \in Since(i, v.ttl) : Cardinality(Since(b, v.ttl)) > v.limit
    IN
    /\ calls[i].served \/ \E v \in Windows : spent(LimitsOf(calls[i].route)[v])
    /\ Cardinality({j \in Since(i, window.ttl) : calls[j].served}) <= window.limit
=============================================================================
