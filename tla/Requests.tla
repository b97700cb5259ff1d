------------------------------ MODULE Requests -------------------------------
(***************************************************************************)
(* The requests a server is handling.  Each runs the statements of one     *)
(* handler in order; between two of them anything else may happen.         *)
(***************************************************************************)
EXTENDS FiniteSets

CONSTANTS
  Requests,
  None        \* no row, no value

VARIABLES
  pc,    \* request -> the statement it is about to run
  input  \* request -> what it was asked, and what it has read so far

RequestsInit ==
  /\ pc = [r \in Requests |-> "idle"]
  /\ input = [r \in Requests |-> None]

\* Some answers are kept, to be looked at.
Final == {"over", "reported", "listed"}

InFlight == {r \in Requests : pc[r] \notin {"idle"} \cup Final}

At(r, p) == pc[r] = p

\* The requests that are at p, other than r.
OthersAt(r, p) == {q \in Requests \ {r} : At(q, p)}

Goto(r, p) == pc' = [pc EXCEPT ![r] = p] /\ UNCHANGED input

Take(r, value, p) ==
  /\ pc' = [pc EXCEPT ![r] = p]
  /\ input' = [input EXCEPT ![r] = value]

\* What a request knew goes with it.
Finish(r) == Take(r, None, "over")

\* The process dies with every request it was handling.
Drop ==
  /\ InFlight # {}
  /\ pc' = [r \in Requests |-> IF r \in InFlight THEN "over" ELSE pc[r]]
  /\ input' = [r \in Requests |-> IF r \in InFlight THEN None ELSE input[r]]
=============================================================================
