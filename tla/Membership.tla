----------------------------- MODULE Membership ------------------------------
(***************************************************************************)
(* What invitations promise about one address: it enters one school, once, *)
(* and by invitation only where an invitation stands open, which entering  *)
(* uses up.  A school may always invite and may always withdraw.           *)
(***************************************************************************)
CONSTANTS
  Inviting,  \* the schools that can invite
  Places,    \* the schools there are or may be
  None

VARIABLES
  home,  \* None, or where the address has its account and how it came by it
  open   \* the schools whose invitation is neither used nor withdrawn

Init == home = None /\ open = {}

Invite(s) == open' = open \cup {s} /\ UNCHANGED home

Withdraw(s) == open' = open \ {s} /\ UNCHANGED home

Join(s) ==
  /\ home = None
  /\ s \in open
  /\ home' = [school |-> s, how |-> "invited"]
  /\ open' = open \ {s}

\* A school founded by the address, or an account made for it by an admin.
Settle(s) ==
  /\ home = None
  /\ home' \in [school : {s}, how : {"founded", "added"}]
  /\ UNCHANGED open

Next ==
  \/ \E s \in Inviting : Invite(s) \/ Withdraw(s) \/ Join(s)
  \/ \E s \in Places : Settle(s)

Spec == Init /\ [][Next]_<<home, open>>
=============================================================================
