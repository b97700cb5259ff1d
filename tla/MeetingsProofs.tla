---------------------------- MODULE MeetingsProofs ----------------------------
(***************************************************************************)
(* Proofs about Meetings, for any number of consents and of bookings of a  *)
(* tutor, and for either provider: the stored refresh token stays usable,  *)
(* a deleted connection stays deleted, and a booking fails only because    *)
(* of such a deletion.                                                     *)
(***************************************************************************)
EXTENDS Meetings, TLAPS

\* Where a request can be once the token it obtained may have been stored.
Stored == {"minting", "room", "own", "over"}

\* What each request holds at the statement it is about to run.
RequestsFit ==
  /\ \A c \in Connects : pc[c] \in {"start", "granted", "over"}
  /\ \A b \in Bookings :
       /\ pc[b] # "granted"
       /\ pc[b] \in {"exchange", "answered", "forget", "minting", "failed"} =>
            account[b] \in Row
       /\ pc[b] = "answered" =>
            token[b] = IF provider = "ZOOM" THEN b ELSE Nothing

\* The rows that are stored, or were when a booking read them.
Rows == {row \in {conn} \cup {account[b] : b \in Bookings} : row # Nothing}

\* Whoever named a row, or the token in it, has stored it already.
RowsWereStored ==
  /\ \A row \in Rows : pc[row.id] = "over" /\ pc[row.refresh] \in Stored
  /\ \A id \in closed : pc[id] = "over"

\* A refresh token never moves from one connection to a later one.
TokensStayPut ==
  \A x, y \in Rows : x.refresh = y.refresh => x.id = y.id

\* A row some booking has read is there still, or was deleted.
ReadRowsLast ==
  \A b \in Bookings : account[b] # Nothing => account[b].id \in closed \/ StillThere(b)

\* A refresh token that is about to be stored works, or was spoiled.
TokensInHandUsable ==
  /\ \A c \in Connects : pc[c] = "granted" => c \in live \cup spoiled
  /\ \A b \in Bookings : pc[b] = "answered" =>
       (IF provider = "ZOOM" THEN b ELSE account[b].refresh) \in live \cup spoiled

IInv ==
  /\ RequestsTypeOK
  /\ RequestsFit
  /\ RowsWereStored
  /\ TokensStayPut
  /\ ReadRowsLast
  /\ TokensInHandUsable
  /\ ConnectionUsable
  /\ ClosedStaysClosed
  /\ FailsOnlyWhenClosed

-----------------------------------------------------------------------------
(* What a step leaves alone.                                                 *)

\* A request that moves on leaves the others where they are, and stays among
\* those that have stored their token if it was one of them.
LEMMA Moves ==
  ASSUME RequestsTypeOK, NEW r \in Requests, Goto(r, "over") \/
         \E p \in {"granted", "exchange", "answered", "forget", "minting", "own", "room", "failed"} :
           Goto(r, p) /\ (pc[r] \notin Stored \/ (pc[r] = "minting" /\ p \in Stored))
  PROVE  /\ pc' \in [Requests -> {"start", "granted", "exchange", "answered", "forget",
                                  "minting", "over", "own", "room", "failed"}]
         /\ \A q \in Requests \ {r} : pc'[q] = pc[q]
         /\ \A q \in Requests : pc[q] \in Stored => pc'[q] \in Stored
         /\ \A q \in Requests : pc[q] = "over" => pc'[q] = "over"
BY DEF RequestsTypeOK, Goto, Stored

\* Rows that name nobody new keep what is known of rows and of their tokens.
LEMMA RowsKept ==
  ASSUME RowsWereStored, TokensStayPut,
         \A q \in Requests : pc[q] \in Stored => pc'[q] \in Stored,
         \A q \in Requests : pc[q] = "over" => pc'[q] = "over",
         \A row \in Rows : row.id \in Requests /\ row.refresh \in Requests,
         closed \subseteq Requests,
         \A row \in Rows' : \E old \in Rows : row.id = old.id /\ row.refresh = old.refresh,
         \A id \in closed' : id \in closed \/ \E old \in Rows : id = old.id
  PROVE  (RowsWereStored /\ TokensStayPut)'
<1>1. \A row \in Rows' : pc'[row.id] = "over" /\ pc'[row.refresh] \in Stored
  BY DEF RowsWereStored
<1>2. \A id \in closed' : pc'[id] = "over"
  BY DEF RowsWereStored
<1>3. TokensStayPut'
  BY DEF TokensStayPut
<1> QED BY <1>1, <1>2, <1>3 DEF RowsWereStored, Stored

\* The rows there are, one by one.
LEMMA RowsAre ==
  ASSUME RequestsTypeOK
  PROVE  /\ Rows \subseteq Row
         /\ conn # Nothing => conn \in Rows
         /\ \A b \in Bookings : account[b] # Nothing => account[b] \in Rows
         /\ \A row \in Rows : row.id \in Requests /\ row.refresh \in Requests
         /\ closed \subseteq Requests
BY DEF RequestsTypeOK, Rows, Row, Requests

-----------------------------------------------------------------------------
(* One lemma for each step.                                                  *)

LEMMA ExchangeCodeKeeps ==
  ASSUME IInv, NEW c \in Connects, ExchangeCode(c)
  PROVE  IInv'
<1> USE DEF IInv
<1>1. /\ c \in Requests /\ pc[c] = "start" /\ Goto(c, "granted")
      /\ live' = live \cup {c}
      /\ UNCHANGED <<provider, conn, account, token, closed, spoiled>>
  BY DEF ExchangeCode, Requests
<1>2. /\ pc' \in [Requests -> {"start", "granted", "exchange", "answered", "forget",
                               "minting", "over", "own", "room", "failed"}]
      /\ \A q \in Requests \ {c} : pc'[q] = pc[q]
      /\ \A q \in Requests : pc[q] \in Stored => pc'[q] \in Stored
      /\ \A q \in Requests : pc[q] = "over" => pc'[q] = "over"
      /\ pc'[c] = "granted"
  BY <1>1, Moves DEF Stored, RequestsTypeOK, Goto
<1>3. RequestsTypeOK'
  BY <1>1, <1>2 DEF RequestsTypeOK
<1>4. RequestsFit'
  BY <1>1, <1>2, MeetingsAssumption DEF MeetingsAssumption, RequestsFit, Requests
<1>5. (RowsWereStored /\ TokensStayPut)'
  BY <1>1, <1>2, RowsAre, RowsKept DEF Rows
<1>6. (ReadRowsLast /\ TokensInHandUsable)'
  BY <1>1, <1>2, MeetingsAssumption
     DEF MeetingsAssumption, ReadRowsLast, StillThere, TokensInHandUsable, Requests
<1>7. (ConnectionUsable /\ ClosedStaysClosed /\ FailsOnlyWhenClosed)'
  BY <1>1, <1>2, MeetingsAssumption
     DEF MeetingsAssumption, ConnectionUsable, ClosedStaysClosed, FailsOnlyWhenClosed, Requests
<1> QED BY <1>3, <1>4, <1>5, <1>6, <1>7

LEMMA StoreConnectionKeeps ==
  ASSUME IInv, NEW c \in Connects, StoreConnection(c)
  PROVE  IInv'
<1> USE DEF IInv
<1>1. /\ c \in Requests /\ pc[c] = "granted" /\ Goto(c, "over")
      /\ conn' = [id |-> IF conn = Nothing THEN c ELSE conn.id,
                  label |-> c, refresh |-> c, fresh |-> TRUE, readable |-> TRUE]
      /\ UNCHANGED <<provider, live, account, token, closed, spoiled>>
  BY DEF StoreConnection, Requests
<1>2. /\ pc' \in [Requests -> {"start", "granted", "exchange", "answered", "forget",
                               "minting", "over", "own", "room", "failed"}]
      /\ \A q \in Requests \ {c} : pc'[q] = pc[q]
      /\ \A q \in Requests : pc[q] \in Stored => pc'[q] \in Stored
      /\ \A q \in Requests : pc[q] = "over" => pc'[q] = "over"
      /\ pc'[c] = "over"
  BY <1>1, Moves DEF RequestsTypeOK, Goto
<1>3. /\ conn' \in Row /\ conn' # Nothing
      /\ conn'.refresh = c
      /\ conn'.id = IF conn = Nothing THEN c ELSE conn.id
  <2>1. (IF conn = Nothing THEN c ELSE conn.id) \in Connects
    BY DEF RequestsTypeOK, Row
  <2>2. conn' \in Row
    BY <1>1, <2>1 DEF Row
  <2> QED BY <1>1, <2>2, MeetingsAssumption DEF MeetingsAssumption
<1>4. RequestsTypeOK'
  BY <1>1, <1>2, <1>3 DEF RequestsTypeOK
<1>5. RequestsFit'
  BY <1>1, <1>2, MeetingsAssumption DEF MeetingsAssumption, RequestsFit, Requests
<1>6. Rows' \subseteq Rows \cup {conn'}
  BY <1>1 DEF Rows
<1>7. pc'[conn'.id] = "over" /\ pc'[conn'.refresh] \in Stored
  BY <1>2, <1>3, RowsAre DEF RowsWereStored, Stored
<1>8. RowsWereStored'
  BY <1>1, <1>2, <1>6, <1>7, RowsAre DEF RowsWereStored
<1>9. \A row \in Rows : row.refresh # c
  BY <1>1 DEF RowsWereStored, Stored
<1>10. TokensStayPut'
  BY <1>3, <1>6, <1>9 DEF TokensStayPut
<1>11. ReadRowsLast'
  BY <1>1, <1>3 DEF ReadRowsLast, StillThere
<1>12. c \notin closed
  BY <1>1 DEF RowsWereStored
<1>13. (ConnectionUsable /\ ClosedStaysClosed)'
  BY <1>1, <1>3, <1>12 DEF ConnectionUsable, ClosedStaysClosed, TokensInHandUsable
<1>14. (TokensInHandUsable /\ FailsOnlyWhenClosed)'
  BY <1>1, <1>2, MeetingsAssumption
     DEF MeetingsAssumption, TokensInHandUsable, FailsOnlyWhenClosed, Requests
<1> QED BY <1>4, <1>5, <1>8, <1>10, <1>11, <1>13, <1>14

\* Only the row that is there can be deleted, and it is then among the closed.
LEMMA DisconnectKeeps ==
  ASSUME IInv, Disconnect
  PROVE  IInv'
<1> USE DEF IInv
<1>1. /\ conn # Nothing /\ conn' = Nothing
      /\ closed' = closed \cup {conn.id}
      /\ UNCHANGED <<provider, live, pc, account, token, spoiled>>
      /\ conn.id \in Connects
  BY DEF Disconnect, RequestsTypeOK, Row
<1>2. RequestsTypeOK' /\ RequestsFit'
  BY <1>1 DEF RequestsTypeOK, RequestsFit
<1>3. (RowsWereStored /\ TokensStayPut)'
  BY <1>1, RowsAre, RowsKept DEF Rows
<1>4. (ReadRowsLast /\ FailsOnlyWhenClosed)'
  BY <1>1 DEF ReadRowsLast, StillThere, FailsOnlyWhenClosed
<1>5. (TokensInHandUsable /\ ConnectionUsable /\ ClosedStaysClosed)'
  BY <1>1 DEF TokensInHandUsable, ConnectionUsable, ClosedStaysClosed
<1> QED BY <1>2, <1>3, <1>4, <1>5

LEMMA BeginKeeps ==
  ASSUME IInv, NEW b \in Bookings, Begin(b)
  PROVE  IInv'
<1> USE DEF IInv
<1>1. /\ b \in Requests /\ pc[b] = "start"
      /\ \E p \in {"own", "forget", "minting", "exchange"} :
           Goto(b, p) /\ (p # "own" => conn # Nothing)
      /\ account' = [account EXCEPT ![b] = conn]
      /\ UNCHANGED <<provider, conn, live, token, closed, spoiled>>
  BY DEF Begin, Requests
<1>2. /\ pc' \in [Requests -> {"start", "granted", "exchange", "answered", "forget",
                               "minting", "over", "own", "room", "failed"}]
      /\ \A q \in Requests \ {b} : pc'[q] = pc[q]
      /\ \A q \in Requests : pc[q] \in Stored => pc'[q] \in Stored
      /\ \A q \in Requests : pc[q] = "over" => pc'[q] = "over"
      /\ pc'[b] \in {"own", "forget", "minting", "exchange"}
      /\ pc'[b] # "own" => conn # Nothing
  BY <1>1, Moves DEF RequestsTypeOK, Goto, Stored
<1>3. /\ account' \in [Bookings -> Row \cup {Nothing}]
      /\ account'[b] = conn
      /\ \A d \in Bookings \ {b} : account'[d] = account[d]
  BY <1>1 DEF RequestsTypeOK
<1>4. RequestsTypeOK'
  BY <1>1, <1>2, <1>3 DEF RequestsTypeOK
<1>5. RequestsFit'
  BY <1>1, <1>2, <1>3, <1>4, MeetingsAssumption
     DEF MeetingsAssumption, RequestsFit, Requests, RequestsTypeOK
<1>6. (RowsWereStored /\ TokensStayPut)'
  BY <1>1, <1>2, <1>3, RowsAre, RowsKept DEF Rows
<1>7. ReadRowsLast'
  BY <1>1, <1>3 DEF ReadRowsLast, StillThere
<1>8. (TokensInHandUsable /\ ConnectionUsable)'
  BY <1>1, <1>2, <1>3, MeetingsAssumption
     DEF MeetingsAssumption, TokensInHandUsable, ConnectionUsable, Requests
<1>9. (ClosedStaysClosed /\ FailsOnlyWhenClosed)'
  BY <1>1, <1>2, <1>3 DEF ClosedStaysClosed, FailsOnlyWhenClosed, Requests
<1> QED BY <1>4, <1>5, <1>6, <1>7, <1>8, <1>9

\* The token a refresh is made with dies only by rotation; then the request
\* that made it holds its successor, or the token counts as spoiled.
LEMMA RotateKeeps ==
  ASSUME IInv, NEW b \in Bookings, Rotate(b), NEW p \in {"answered", "forget"}, Goto(b, p),
         spoiled \subseteq spoiled', spoiled' \subseteq Requests,
         \/ p = "answered" /\ token' = [token EXCEPT ![b] = IF provider = "ZOOM" THEN b ELSE Nothing]
         \/ p = "forget" /\ UNCHANGED token /\ live \subseteq live' \cup spoiled'
  PROVE  IInv'
<1> USE DEF IInv
<1>1. /\ b \in Requests /\ pc[b] = "exchange"
      /\ account[b] \in Row /\ account[b].refresh \in live
      /\ live' = IF provider = "ZOOM" THEN (live \ {account[b].refresh}) \cup {b} ELSE live
      /\ UNCHANGED <<provider, conn, account, closed>>
  BY DEF Rotate, Requests, RequestsFit
<1>2. /\ pc' \in [Requests -> {"start", "granted", "exchange", "answered", "forget",
                               "minting", "over", "own", "room", "failed"}]
      /\ \A q \in Requests \ {b} : pc'[q] = pc[q]
      /\ \A q \in Requests : pc[q] \in Stored => pc'[q] \in Stored
      /\ \A q \in Requests : pc[q] = "over" => pc'[q] = "over"
      /\ pc'[b] = p
  BY <1>1, Moves DEF RequestsTypeOK, Goto, Stored
<1>3. /\ token' \in [Bookings -> Requests \cup {Nothing}]
      /\ p = "answered" => token'[b] = IF provider = "ZOOM" THEN b ELSE Nothing
      /\ \A d \in Bookings \ {b} : token'[d] = token[d]
  BY <1>1 DEF RequestsTypeOK
<1>4. RequestsTypeOK'
  BY <1>1, <1>2, <1>3 DEF RequestsTypeOK
<1>5. RequestsFit'
  BY <1>1, <1>2, <1>3, MeetingsAssumption DEF MeetingsAssumption, RequestsFit, Requests
<1>6. (RowsWereStored /\ TokensStayPut)'
  BY <1>1, <1>2, RowsAre, RowsKept DEF Rows
<1>7. (ReadRowsLast /\ ClosedStaysClosed /\ FailsOnlyWhenClosed)'
  BY <1>1, <1>2 DEF ReadRowsLast, StillThere, ClosedStaysClosed, FailsOnlyWhenClosed, Requests
<1>8. \A q \in live : q \in live' \cup spoiled' \/ q = account[b].refresh
  BY <1>1
<1>9. \A q \in Requests : pc[q] \in {"granted", "answered"} => q # account[b].refresh
  BY <1>1, RowsAre, MeetingsAssumption DEF MeetingsAssumption, RowsWereStored, Stored
<1>10. TokensInHandUsable'
  <2>1. ASSUME NEW c \in Connects, pc'[c] = "granted"
        PROVE  c \in live' \cup spoiled'
    <3>1. pc[c] = "granted" /\ c \in Requests
      BY <1>2, <2>1 DEF Requests
    <3> QED BY <1>8, <1>9, <3>1 DEF TokensInHandUsable
  <2>2. ASSUME NEW d \in Bookings, pc'[d] = "answered"
        PROVE  (IF provider' = "ZOOM" THEN d ELSE account'[d].refresh) \in live' \cup spoiled'
    <3>1. CASE d = b
      BY <1>1, <1>2, <2>2, <3>1
    <3>2. CASE d # b
      <4>1. pc[d] = "answered" /\ d \in Requests
        BY <1>2, <2>2, <3>2 DEF Requests
      <4> QED BY <1>1, <1>8, <1>9, <4>1 DEF TokensInHandUsable
    <3> QED BY <3>1, <3>2
  <2> QED BY <2>1, <2>2 DEF TokensInHandUsable
<1>11. ConnectionUsable'
  <2> SUFFICES ASSUME conn # Nothing
               PROVE  \/ conn.refresh \in live' \cup spoiled'
                      \/ \E d \in Bookings :
                           pc'[d] = "answered" /\ account[d].refresh = conn.refresh
    BY <1>1 DEF ConnectionUsable
  <2>1. CASE conn.refresh = account[b].refresh
    BY <1>1, <1>2, <1>8, <2>1
  <2>2. CASE conn.refresh # account[b].refresh
    <3>1. ASSUME NEW d \in Bookings, pc[d] = "answered"
          PROVE  pc'[d] = "answered"
      BY <1>1, <1>2, <3>1 DEF Requests
    <3> QED BY <1>8, <2>2, <3>1 DEF ConnectionUsable
  <2> QED BY <2>1, <2>2
<1> QED BY <1>4, <1>5, <1>6, <1>7, <1>10, <1>11

LEMMA RefreshKeeps ==
  ASSUME IInv, NEW b \in Bookings, Refresh(b) \/ (RefreshFails(b) /\ Rotate(b))
  PROVE  IInv'
<1>1. CASE Refresh(b)
  BY <1>1, RotateKeeps DEF Refresh, IInv, RequestsTypeOK
<1>2. CASE RefreshFails(b) /\ Rotate(b)
  <2>1. /\ Goto(b, "forget") /\ UNCHANGED token
        /\ spoiled' \in {spoiled, spoiled \cup (live \ live')}
        /\ live' # live => spoiled' = spoiled \cup (live \ live')
    BY <1>2 DEF RefreshFails
  <2>2. /\ spoiled \subseteq spoiled' /\ spoiled' \subseteq Requests
        /\ live \subseteq live' \cup spoiled'
    BY <2>1 DEF IInv, RequestsTypeOK
  <2> QED BY <1>2, <2>1, <2>2, RotateKeeps
<1> QED BY <1>1, <1>2

\* Steps of a booking that write no row and hold no token afterwards.
LEMMA QuietStepsKeep ==
  ASSUME IInv, NEW b \in Bookings,
         \/ pc[b] = "exchange" /\ Goto(b, "forget")
         \/ pc[b] = "minting" /\ (Goto(b, "room") \/ Goto(b, "own")),
         UNCHANGED <<provider, conn, live, account, token, closed, spoiled>>
  PROVE  IInv'
<1> USE DEF IInv
<1>1. b \in Requests /\ pc[b] \in {"exchange", "minting"}
  BY DEF Requests
<1>2. /\ pc' \in [Requests -> {"start", "granted", "exchange", "answered", "forget",
                               "minting", "over", "own", "room", "failed"}]
      /\ \A q \in Requests \ {b} : pc'[q] = pc[q]
      /\ \A q \in Requests : pc[q] \in Stored => pc'[q] \in Stored
      /\ \A q \in Requests : pc[q] = "over" => pc'[q] = "over"
      /\ pc'[b] \in {"forget", "room", "own"}
  BY <1>1, Moves DEF RequestsTypeOK, Goto, Stored
<1>3. RequestsTypeOK' /\ RequestsFit'
  BY <1>1, <1>2, MeetingsAssumption DEF MeetingsAssumption, RequestsTypeOK, RequestsFit, Requests
<1>4. (RowsWereStored /\ TokensStayPut)'
  BY <1>2, RowsAre, RowsKept DEF Rows
<1>5. (ReadRowsLast /\ ClosedStaysClosed /\ FailsOnlyWhenClosed)'
  BY <1>1, <1>2 DEF ReadRowsLast, StillThere, ClosedStaysClosed, FailsOnlyWhenClosed, Requests
<1>6. (TokensInHandUsable /\ ConnectionUsable)'
  BY <1>1, <1>2, MeetingsAssumption
     DEF MeetingsAssumption, TokensInHandUsable, ConnectionUsable, Requests
<1> QED BY <1>3, <1>4, <1>5, <1>6

\* The row written back has the id it was read with; the token in it is new, or
\* the one it was read with.
LEMMA WriteBackKeeps ==
  ASSUME IInv, NEW b \in Bookings, WriteBack(b)
  PROVE  IInv'
<1> USE DEF IInv
<1>1. /\ b \in Requests /\ pc[b] = "answered" /\ account[b] \in Row /\ account[b] # Nothing
      /\ token[b] = IF provider = "ZOOM" THEN b ELSE Nothing
      /\ Goto(b, IF StillThere(b) THEN "minting" ELSE "failed")
      /\ conn' = IF StillThere(b) THEN Renewed(b, conn) ELSE conn
      /\ UNCHANGED <<provider, live, account, token, closed, spoiled>>
  BY MeetingsAssumption DEF MeetingsAssumption, WriteBack, Requests, RequestsFit
<1>2. /\ pc' \in [Requests -> {"start", "granted", "exchange", "answered", "forget",
                               "minting", "over", "own", "room", "failed"}]
      /\ \A q \in Requests \ {b} : pc'[q] = pc[q]
      /\ \A q \in Requests : pc[q] \in Stored => pc'[q] \in Stored
      /\ \A q \in Requests : pc[q] = "over" => pc'[q] = "over"
      /\ pc'[b] = IF StillThere(b) THEN "minting" ELSE "failed"
  BY <1>1, Moves DEF RequestsTypeOK, Goto, Stored
<1>3. b # Nothing
  BY <1>1, MeetingsAssumption DEF MeetingsAssumption
<1>4. ASSUME StillThere(b)
      PROVE  /\ conn # Nothing /\ conn.id = account[b].id
             /\ conn' \in Row /\ conn' # Nothing
             /\ conn'.id = account[b].id
             /\ conn'.refresh = IF provider = "ZOOM" THEN b ELSE account[b].refresh
  <2>1. (IF token[b] = Nothing THEN account[b].refresh ELSE token[b])
          = IF provider = "ZOOM" THEN b ELSE account[b].refresh
    BY <1>1, <1>3
  <2>2. account[b].id \in Connects /\ account[b].refresh \in Requests
    BY <1>1 DEF Row
  <2>3. conn' \in Row
    <3>1. conn \in Row
      BY <1>4 DEF RequestsTypeOK, StillThere
    <3> QED BY <1>1, <1>4, <2>1, <2>2, <3>1 DEF Renewed, Row
  <2> QED BY <1>1, <1>4, <2>1, <2>3, MeetingsAssumption
          DEF MeetingsAssumption, Renewed, StillThere
<1>5. RequestsTypeOK'
  BY <1>1, <1>2, <1>4 DEF RequestsTypeOK
<1>6. RequestsFit'
  BY <1>1, <1>2, MeetingsAssumption DEF MeetingsAssumption, RequestsFit, Requests
<1>7. /\ account[b] \in Rows
      /\ Rows' \subseteq Rows \cup {conn'}
      /\ StillThere(b) \/ Rows' \subseteq Rows
  BY <1>1, RowsAre DEF Rows
<1>8. StillThere(b) => pc'[conn'.id] = "over" /\ pc'[conn'.refresh] \in Stored
  BY <1>1, <1>2, <1>4, <1>7, RowsAre DEF RowsWereStored, Stored
<1>9. RowsWereStored'
  BY <1>1, <1>2, <1>7, <1>8, RowsAre DEF RowsWereStored
<1>10. \A row \in Rows : row.refresh # b
  BY <1>1 DEF RowsWereStored, Stored
<1>11. TokensStayPut'
  BY <1>4, <1>7, <1>10 DEF TokensStayPut
<1>12. (ReadRowsLast /\ ClosedStaysClosed)'
  BY <1>1, <1>4 DEF ReadRowsLast, ClosedStaysClosed, StillThere
<1>13. FailsOnlyWhenClosed'
  BY <1>1, <1>2 DEF FailsOnlyWhenClosed, ReadRowsLast, Requests
<1>14. TokensInHandUsable'
  BY <1>1, <1>2, MeetingsAssumption DEF MeetingsAssumption, TokensInHandUsable, Requests
<1>15. ConnectionUsable'
  <2>1. CASE StillThere(b)
    BY <1>1, <1>4, <2>1 DEF ConnectionUsable, TokensInHandUsable
  <2>2. CASE ~StillThere(b)
    <3>1. conn # Nothing => account[b].refresh # conn.refresh
      BY <1>7, <2>2, RowsAre DEF TokensStayPut, StillThere
    <3> QED BY <1>1, <1>2, <2>2, <3>1 DEF ConnectionUsable, Requests
  <2> QED BY <2>1, <2>2
<1> QED BY <1>5, <1>6, <1>9, <1>11, <1>12, <1>13, <1>14, <1>15

LEMMA ForgetKeeps ==
  ASSUME IInv, NEW b \in Bookings, Forget(b)
  PROVE  IInv'
<1> USE DEF IInv
<1>1. /\ b \in Requests /\ pc[b] = "forget" /\ account[b] \in Row /\ account[b] # Nothing
      /\ Goto(b, "own")
      /\ conn' = IF StillThere(b) THEN Nothing ELSE conn
      /\ closed' = closed \cup {account[b].id}
      /\ UNCHANGED <<provider, live, account, token, spoiled>>
  BY MeetingsAssumption DEF MeetingsAssumption, Forget, Requests, RequestsFit
<1>2. /\ pc' \in [Requests -> {"start", "granted", "exchange", "answered", "forget",
                               "minting", "over", "own", "room", "failed"}]
      /\ \A q \in Requests \ {b} : pc'[q] = pc[q]
      /\ \A q \in Requests : pc[q] \in Stored => pc'[q] \in Stored
      /\ \A q \in Requests : pc[q] = "over" => pc'[q] = "over"
      /\ pc'[b] = "own"
  BY <1>1, Moves DEF RequestsTypeOK, Goto, Stored
<1>3. account[b] \in Rows /\ account[b].id \in Connects /\ Rows' \subseteq Rows
  BY <1>1, RowsAre DEF Rows, Row
<1>4. RequestsTypeOK'
  BY <1>1, <1>2, <1>3 DEF RequestsTypeOK
<1>5. RequestsFit'
  BY <1>1, <1>2, MeetingsAssumption DEF MeetingsAssumption, RequestsFit, Requests
<1>6. (RowsWereStored /\ TokensStayPut)'
  BY <1>1, <1>2, <1>3, RowsAre, RowsKept
<1>7. ReadRowsLast'
  BY <1>1 DEF ReadRowsLast, StillThere
<1>8. ClosedStaysClosed'
  BY <1>1 DEF ClosedStaysClosed, StillThere
<1>9. FailsOnlyWhenClosed'
  BY <1>1, <1>2 DEF FailsOnlyWhenClosed, Requests
<1>10. (TokensInHandUsable /\ ConnectionUsable)'
  BY <1>1, <1>2, MeetingsAssumption
     DEF MeetingsAssumption, TokensInHandUsable, ConnectionUsable, Requests
<1> QED BY <1>4, <1>5, <1>6, <1>7, <1>8, <1>9, <1>10

\* A row may lose its access token or its readability; its id and its refresh
\* token, which the invariant is about, stay.
LEMMA ExpireKeeps ==
  ASSUME IInv, Expire
  PROVE  IInv'
<1> USE DEF IInv
<1>1. /\ UNCHANGED <<provider, live, pc, account, token, closed, spoiled>>
      /\ conn # Nothing /\ conn' \in Row /\ conn' # Nothing
      /\ conn'.id = conn.id /\ conn'.refresh = conn.refresh
  BY MeetingsAssumption DEF MeetingsAssumption, Expire, RequestsTypeOK, Row
<1>2. RequestsTypeOK' /\ RequestsFit'
  BY <1>1 DEF RequestsTypeOK, RequestsFit
<1>3. Rows' \subseteq Rows \cup {conn'} /\ conn \in Rows
  BY <1>1, RowsAre DEF Rows
<1>4. (RowsWereStored /\ TokensStayPut)'
  BY <1>1, <1>3, RowsAre, RowsKept
<1>5. (ReadRowsLast /\ ClosedStaysClosed /\ FailsOnlyWhenClosed)'
  BY <1>1 DEF ReadRowsLast, StillThere, ClosedStaysClosed, FailsOnlyWhenClosed
<1>6. (TokensInHandUsable /\ ConnectionUsable)'
  BY <1>1 DEF TokensInHandUsable, ConnectionUsable
<1> QED BY <1>2, <1>4, <1>5, <1>6

LEMMA RevokeKeeps ==
  ASSUME IInv, Revoke
  PROVE  IInv'
<1> USE DEF IInv
<1>1. /\ live' = {} /\ spoiled' = spoiled \cup live
      /\ UNCHANGED <<provider, conn, pc, account, token, closed>>
  BY DEF Revoke
<1>2. RequestsTypeOK' /\ RequestsFit'
  BY <1>1 DEF RequestsTypeOK, RequestsFit
<1>3. (RowsWereStored /\ TokensStayPut)'
  BY <1>1 DEF RowsWereStored, TokensStayPut, Rows
<1>4. (ReadRowsLast /\ ClosedStaysClosed /\ FailsOnlyWhenClosed)'
  BY <1>1 DEF ReadRowsLast, StillThere, ClosedStaysClosed, FailsOnlyWhenClosed
<1>5. (TokensInHandUsable /\ ConnectionUsable)'
  BY <1>1 DEF TokensInHandUsable, ConnectionUsable
<1> QED BY <1>2, <1>3, <1>4, <1>5

\* A booking cut off between the answer and the write takes the successor with
\* it: the token it was made from is spoiled.
LEMMA RestartKeeps ==
  ASSUME IInv, Restart
  PROVE  IInv'
<1> USE DEF IInv
<1> DEFINE lost == {account[b].refresh : b \in {d \in Bookings :
                                pc[d] = "answered" /\ token[d] # Nothing}}
<1>1. /\ pc' = [r \in Requests |-> IF r \in InFlight THEN "over" ELSE pc[r]]
      /\ spoiled' = spoiled \cup lost
      /\ UNCHANGED <<provider, live, account, token, closed>>
  BY DEF Restart
<1>2. /\ conn = Nothing => conn' = Nothing
      /\ conn # Nothing =>
           /\ conn' \in Row /\ conn' # Nothing
           /\ conn'.id = conn.id /\ conn'.refresh = conn.refresh
  <2>1. CASE UNCHANGED conn
    BY <2>1 DEF RequestsTypeOK
  <2>2. CASE conn # Nothing /\ conn' = [conn EXCEPT !.readable = FALSE]
    <3>1. /\ conn' \in Row
          /\ conn'.id = conn.id /\ conn'.refresh = conn.refresh
      BY <2>2 DEF RequestsTypeOK, Row
    <3> QED BY <2>2, <3>1, MeetingsAssumption DEF MeetingsAssumption
  <2> QED BY <2>1, <2>2 DEF Restart
<1>3. \A r \in Requests :
        /\ pc'[r] \in {"start", "over", "own", "room", "failed"}
        /\ pc[r] \in Stored => pc'[r] \in Stored
        /\ pc[r] = "over" => pc'[r] = "over"
        /\ pc'[r] \in {pc[r], "over"}
  BY <1>1 DEF InFlight, Stored, RequestsTypeOK
<1>4. pc' \in [Requests -> {"start", "granted", "exchange", "answered", "forget",
                            "minting", "over", "own", "room", "failed"}]
  BY <1>1, <1>3
<1>5. lost \subseteq Requests
  BY DEF RequestsFit, Row
<1>6. RequestsTypeOK'
  BY <1>1, <1>2, <1>4, <1>5 DEF RequestsTypeOK
<1>7. RequestsFit'
  BY <1>1, <1>3 DEF RequestsFit, Requests
<1>8. (RowsWereStored /\ TokensStayPut)'
  <2>1. \A row \in Rows' : \E old \in Rows : row.id = old.id /\ row.refresh = old.refresh
    BY <1>1, <1>2 DEF Rows
  <2> QED BY <1>1, <1>3, <2>1, RowsAre, RowsKept
<1>9. (ReadRowsLast /\ ClosedStaysClosed)'
  BY <1>1, <1>2 DEF ReadRowsLast, StillThere, ClosedStaysClosed
<1>10. FailsOnlyWhenClosed'
  BY <1>1, <1>3 DEF FailsOnlyWhenClosed, Requests
<1>11. TokensInHandUsable'
  BY <1>3 DEF TokensInHandUsable, Requests
<1>12. ConnectionUsable'
  <2> SUFFICES ASSUME conn # Nothing
               PROVE  conn.refresh \in live \cup spoiled'
    BY <1>1, <1>2 DEF ConnectionUsable
  <2>1. CASE conn.refresh \in live \cup spoiled
    BY <1>1, <2>1
  <2>2. ASSUME NEW b \in Bookings, pc[b] = "answered", account[b].refresh = conn.refresh
        PROVE  conn.refresh \in live \cup spoiled'
    <3>1. CASE provider = "ZOOM"
      <4>1. token[b] # Nothing
        BY <2>2, <3>1, MeetingsAssumption DEF MeetingsAssumption, RequestsFit, Requests
      <4> QED BY <1>1, <2>2, <4>1
    <3>2. CASE provider # "ZOOM"
      BY <1>1, <2>2, <3>2 DEF TokensInHandUsable
    <3> QED BY <3>1, <3>2
  <2> QED BY <2>1, <2>2 DEF ConnectionUsable
<1> QED BY <1>6, <1>7, <1>8, <1>9, <1>10, <1>11, <1>12

-----------------------------------------------------------------------------
(* The invariant, and what follows from it.                                  *)

LEMMA StepKeeps ==
  ASSUME IInv, NEW b \in Bookings, Step(b)
  PROVE  IInv'
<1>1. CASE Begin(b)
  BY <1>1, BeginKeeps
<1>2. CASE Refresh(b)
  BY <1>2, RefreshKeeps
<1>3. CASE RefreshRejected(b)
  BY <1>3, QuietStepsKeep DEF RefreshRejected
<1>4. CASE RefreshFails(b)
  <2>1. CASE Rotate(b)
    BY <1>4, <2>1, RefreshKeeps
  <2>2. CASE ~Rotate(b)
    BY <1>4, <2>2, QuietStepsKeep DEF RefreshFails
  <2> QED BY <2>1, <2>2
<1>5. CASE WriteBack(b)
  BY <1>5, WriteBackKeeps
<1>6. CASE Forget(b)
  BY <1>6, ForgetKeeps
<1>7. CASE Mint(b)
  BY <1>7, QuietStepsKeep DEF Mint
<1> QED BY <1>1, <1>2, <1>3, <1>4, <1>5, <1>6, <1>7 DEF Step

\* Every reachable state satisfies the inductive invariant.
THEOREM InductiveInvariant == Spec => []IInv
<1>1. Init => IInv
  <2> SUFFICES ASSUME Init
               PROVE  IInv
    OBVIOUS
  <2>1. Rows = {} /\ closed = {}
    BY DEF Init, Rows
  <2>2. RowsWereStored /\ TokensStayPut
    BY <2>1 DEF RowsWereStored, TokensStayPut
  <2>3. \A r \in Requests : pc[r] = "start"
    BY DEF Init
  <2>4. RequestsTypeOK
    BY DEF Init, RequestsTypeOK
  <2>5. RequestsFit /\ TokensInHandUsable /\ FailsOnlyWhenClosed
    BY <2>3 DEF RequestsFit, TokensInHandUsable, FailsOnlyWhenClosed, Requests
  <2>6. ReadRowsLast /\ ConnectionUsable /\ ClosedStaysClosed
    BY DEF Init, ReadRowsLast, ConnectionUsable, ClosedStaysClosed
  <2> QED BY <2>2, <2>4, <2>5, <2>6 DEF IInv
<1>2. IInv /\ [Next]_vars => IInv'
  <2> SUFFICES ASSUME IInv, [Next]_vars
               PROVE  IInv'
    OBVIOUS
  <2>1. CASE \E c \in Connects : ExchangeCode(c) \/ StoreConnection(c)
    BY <2>1, ExchangeCodeKeeps, StoreConnectionKeeps
  <2>2. CASE \E b \in Bookings : Step(b)
    BY <2>2, StepKeeps
  <2>3. CASE Disconnect \/ Expire \/ Revoke \/ Restart
    BY <2>3, DisconnectKeeps, ExpireKeeps, RevokeKeeps, RestartKeeps
  <2>4. CASE UNCHANGED vars
    <3>1. RequestsTypeOK' /\ RequestsFit'
      BY <2>4 DEF vars, IInv, RequestsTypeOK, RequestsFit
    <3>2. (RowsWereStored /\ TokensStayPut)'
      BY <2>4 DEF vars, IInv, RowsWereStored, TokensStayPut, Rows
    <3>3. (ReadRowsLast /\ TokensInHandUsable /\ ConnectionUsable)'
      BY <2>4 DEF vars, IInv, ReadRowsLast, StillThere, TokensInHandUsable, ConnectionUsable
    <3>4. (ClosedStaysClosed /\ FailsOnlyWhenClosed)'
      BY <2>4 DEF vars, IInv, ClosedStaysClosed, FailsOnlyWhenClosed
    <3> QED BY <3>1, <3>2, <3>3, <3>4 DEF IInv
  <2> QED BY <2>1, <2>2, <2>3, <2>4 DEF Next
<1> QED BY <1>1, <1>2, PTL DEF Spec

-----------------------------------------------------------------------------
(* Whose token it is.                                                        *)

\* A booking that has read a row and not yet written to it has read what the
\* label says, unless a consent was stored meanwhile or was written over.
ReadersFit ==
  \A b \in Bookings :
    /\ account[b] # Nothing => source[b] = GoesBackTo(account[b].refresh)
    /\ b \in Reading /\ StillThere(b) =>
         \/ source[b] = conn.label
         \/ b \in crossed
         \/ WrittenOver

\* Every token stored or read goes back to a consent.
SourcesKnown == \A row \in Rows : GoesBackTo(row.refresh) \in Connects

CInv ==
  /\ ConsentsTypeOK
  /\ SourcesKnown
  /\ ReadersFit
  /\ LabelNamesAccountUnlessCrossed

\* The consent behind a token that was stored does not change afterwards.
LEMMA SourceStays ==
  ASSUME IInv, NEW row \in Rows,
         \A b \in Bookings : pc[b] # "start" => source'[b] = source[b]
  PROVE  GoesBackTo(row.refresh)' = GoesBackTo(row.refresh)
<1>1. pc[row.refresh] \in Stored /\ row.refresh \in Requests
  BY RowsAre DEF IInv, RowsWereStored
<1> QED BY <1>1 DEF GoesBackTo, Requests, Stored

\* Steps that read no row, store no consent and leave the row its name, label and
\* refresh token, if they leave it at all.
LEMMA RowAsItWas ==
  ASSUME IInv, CInv,
         UNCHANGED <<account, source>>,
         \/ conn' = Nothing
         \/ conn # Nothing /\ conn' # Nothing /\ conn'.id = conn.id
              /\ conn'.label = conn.label /\ conn'.refresh = conn.refresh,
         \A b \in Bookings : b \in Reading' => b \in Reading,
         \A b \in Bookings : pc[b] \in Stored => pc'[b] \in Stored,
         \A b \in crossed : b \in crossed' \/ (b \in Reading /\ b \notin Reading'),
         crossed' \subseteq crossed
  PROVE  CInv'
<1> USE DEF IInv, CInv
<1>1. \A r : GoesBackTo(r)' = GoesBackTo(r)
  BY DEF GoesBackTo
<1>2. conn' # Nothing /\ WrittenOver => WrittenOver'
  BY DEF WrittenOver, ConsentsTypeOK, Stored, Reading
<1>3. ConsentsTypeOK'
  BY DEF ConsentsTypeOK
<1>4. ReadersFit'
  BY <1>1, <1>2 DEF ReadersFit, StillThere
<1>5. LabelNamesAccountUnlessCrossed'
  BY <1>1, <1>2 DEF LabelNamesAccountUnlessCrossed, LabelNamesAccount
<1>6. SourcesKnown'
  <2>1. \A row \in Rows' : \E old \in Rows : row.refresh = old.refresh
    BY DEF Rows
  <2> QED BY <1>1, <2>1 DEF SourcesKnown
<1> QED BY <1>3, <1>4, <1>5, <1>6

LEMMA StoreKeepsConsents ==
  ASSUME IInv, CInv, NEW c \in Connects, StoreConnection(c)
  PROVE  CInv'
<1> USE DEF IInv, CInv
<1>1. /\ conn'.label = c /\ conn'.refresh = c
      /\ crossed' = Reading /\ Goto(c, "over") /\ UNCHANGED <<account, source>>
  BY DEF StoreConnection
<1>2. \A b \in Bookings : b \in Reading' <=> b \in Reading
  BY <1>1, MeetingsAssumption
     DEF MeetingsAssumption, Goto, Reading, Requests, RequestsTypeOK
<1>3. ConsentsTypeOK'
  BY <1>1 DEF ConsentsTypeOK, Reading
<1>4. ReadersFit'
  BY <1>1, <1>2 DEF ReadersFit, GoesBackTo
<1>5. LabelNamesAccountUnlessCrossed'
  BY <1>1 DEF LabelNamesAccountUnlessCrossed, LabelNamesAccount, GoesBackTo
<1>6. SourcesKnown'
  <2>1. Rows' \subseteq Rows \cup {conn'}
    BY <1>1 DEF Rows
  <2> QED BY <1>1, <2>1 DEF SourcesKnown, GoesBackTo
<1> QED BY <1>3, <1>4, <1>5, <1>6

LEMMA BeginKeepsConsents ==
  ASSUME IInv, CInv, NEW b \in Bookings, Begin(b)
  PROVE  CInv'
<1> USE DEF IInv, CInv
<1>1. /\ pc[b] = "start" /\ b \in Requests
      /\ account' = [account EXCEPT ![b] = conn]
      /\ source' = [source EXCEPT ![b] =
                      IF conn = Nothing THEN Nothing ELSE GoesBackTo(conn.refresh)]
      /\ UNCHANGED <<conn, crossed>>
      /\ \A d \in Bookings \ {b} : pc'[d] = pc[d]
      /\ conn = Nothing => pc'[b] = "own"
  BY DEF Begin, Goto, Requests, RequestsTypeOK
<1>2. /\ account'[b] = conn
      /\ \A d \in Bookings \ {b} : account'[d] = account[d] /\ source'[d] = source[d]
      /\ source'[b] = IF conn = Nothing THEN Nothing ELSE GoesBackTo(conn.refresh)
  BY <1>1 DEF RequestsTypeOK, ConsentsTypeOK
<1>3. ASSUME NEW row \in Rows
      PROVE  GoesBackTo(row.refresh)' = GoesBackTo(row.refresh)
  BY <1>1, <1>2, SourceStays
<1>4. /\ conn # Nothing => conn \in Rows /\ GoesBackTo(conn.refresh) \in Connects
      /\ \A d \in Bookings : account[d] # Nothing => account[d] \in Rows
  BY RowsAre DEF SourcesKnown
<1>5. WrittenOver => WrittenOver'
  BY <1>1, <1>2 DEF WrittenOver, ConsentsTypeOK
<1>6. ConsentsTypeOK'
  BY <1>1, <1>4 DEF ConsentsTypeOK
<1>7. SourcesKnown'
  <2>1. Rows' \subseteq Rows
    BY <1>1, <1>2 DEF Rows
  <2> QED BY <1>3, <2>1 DEF SourcesKnown
<1>8. ReadersFit'
  <2>1. ASSUME NEW d \in Bookings, account'[d] # Nothing
        PROVE  source'[d] = GoesBackTo(account[d].refresh)'
    <3>1. account'[d] \in Rows /\ source'[d] = GoesBackTo(account'[d].refresh)
      BY <1>1, <1>2, <1>4, <2>1 DEF ReadersFit
    <3>2. \A row \in Rows : GoesBackTo(row.refresh)' =
            IF row.refresh \in Connects THEN row.refresh ELSE source'[row.refresh]
      BY DEF GoesBackTo
    <3> QED BY <1>3, <3>1, <3>2 DEF GoesBackTo
  <2>2. ASSUME NEW d \in Bookings, d \in Reading', StillThere(d)'
        PROVE  source'[d] = conn.label \/ d \in crossed \/ WrittenOver'
    <3>1. CASE d = b
      <4>1. conn # Nothing
        BY <1>1, <2>2 DEF StillThere
      <4> QED BY <1>2, <1>5, <3>1, <4>1
              DEF LabelNamesAccountUnlessCrossed, LabelNamesAccount
    <3>2. CASE d # b
      <4>1. d \in Reading /\ StillThere(d) /\ source'[d] = source[d]
        BY <1>1, <1>2, <2>2, <3>2 DEF StillThere, Reading
      <4> QED BY <1>5, <4>1 DEF ReadersFit
    <3> QED BY <3>1, <3>2
  <2> QED BY <1>1, <2>1, <2>2 DEF ReadersFit
<1>9. LabelNamesAccountUnlessCrossed'
  BY <1>1, <1>3, <1>4, <1>5 DEF LabelNamesAccountUnlessCrossed, LabelNamesAccount
<1> QED BY <1>6, <1>7, <1>8, <1>9

\* What is written back goes back to what was read: to the label's consent, unless
\* the booking was crossed by another, and now it has written over that.
LEMMA WriteBackKeepsConsents ==
  ASSUME IInv, CInv, NEW b \in Bookings, WriteBack(b)
  PROVE  CInv'
<1> USE DEF IInv, CInv
<1>1. /\ pc[b] = "answered" /\ b \in Requests /\ b \notin Connects
      /\ account[b] \in Row /\ account[b] # Nothing
      /\ b # Nothing /\ token[b] = IF provider = "ZOOM" THEN b ELSE Nothing
      /\ Goto(b, IF StillThere(b) THEN "minting" ELSE "failed")
      /\ conn' = IF StillThere(b) THEN Renewed(b, conn) ELSE conn
      /\ UNCHANGED <<account, crossed, source>>
  BY MeetingsAssumption DEF MeetingsAssumption, WriteBack, Requests, RequestsFit, consents
<1>2. /\ \A d \in Bookings \ {b} : pc'[d] = pc[d]
      /\ pc'[b] = IF StillThere(b) THEN "minting" ELSE "failed"
  BY <1>1 DEF Goto, Requests, RequestsTypeOK
<1>3. \A r : GoesBackTo(r)' = GoesBackTo(r)
  BY <1>1 DEF GoesBackTo
<1>4. \A d \in Bookings : pc[d] \in Stored => pc'[d] \in Stored
  BY <1>1, <1>2 DEF Stored
<1>5. CASE ~StillThere(b)
  <2>1. \A d \in Bookings : d \in Reading' => d \in Reading
    BY <1>2, <1>5 DEF Reading
  <2>2. conn' = conn
    BY <1>1, <1>5
  <2> QED BY <1>1, <1>4, <2>1, <2>2, RowAsItWas
<1>6. CASE StillThere(b)
  <2>1. /\ conn \in Row /\ conn # Nothing /\ conn.id = account[b].id
        /\ conn'.id = conn.id /\ conn'.label = conn.label
        /\ conn'.refresh = IF provider = "ZOOM" THEN b ELSE account[b].refresh
    <3>1. conn \in Row /\ conn # Nothing /\ conn.id = account[b].id
      BY <1>6 DEF RequestsTypeOK, StillThere
    <3>2. conn' = [conn EXCEPT !.refresh = IF token[b] = Nothing
                                           THEN account[b].refresh ELSE token[b],
                               !.fresh = TRUE, !.readable = TRUE]
      BY <1>1, <1>6 DEF Renewed
    <3>3. (IF token[b] = Nothing THEN account[b].refresh ELSE token[b])
            = IF provider = "ZOOM" THEN b ELSE account[b].refresh
      BY <1>1
    <3> QED BY <3>1, <3>2, <3>3 DEF Row
  <2>2. GoesBackTo(conn'.refresh) = source[b] /\ source[b] \in Connects
    <3>1. account[b] \in Rows /\ source[b] = GoesBackTo(account[b].refresh)
      BY <1>1, RowsAre DEF ReadersFit
    <3> QED BY <1>1, <2>1, <3>1 DEF SourcesKnown, GoesBackTo
  <2>3. WrittenOver => WrittenOver'
    BY <1>1, <1>4, <2>1 DEF WrittenOver, ConsentsTypeOK, Stored
  <2>4. b \in crossed => WrittenOver'
    BY <1>1, <1>2, <1>6, <2>1 DEF WrittenOver
  <2>5. source[b] = conn.label \/ WrittenOver'
    BY <1>1, <1>6, <2>3, <2>4 DEF ReadersFit, Reading
  <2>6. ConsentsTypeOK'
    BY <1>1 DEF ConsentsTypeOK
  <2>7. SourcesKnown'
    <3>1. Rows' \subseteq Rows \cup {conn'}
      BY <1>1 DEF Rows
    <3> QED BY <1>3, <2>2, <3>1 DEF SourcesKnown
  <2>8. ReadersFit'
    <3>1. \A d \in Bookings : /\ d \in Reading' => d \in Reading
                              /\ StillThere(d)' => StillThere(d)
      BY <1>1, <1>2, <1>6, <2>1 DEF Reading, StillThere
    <3> QED BY <1>1, <1>3, <2>1, <2>3, <3>1 DEF ReadersFit
  <2>9. LabelNamesAccountUnlessCrossed'
    BY <1>3, <2>1, <2>2, <2>5 DEF LabelNamesAccountUnlessCrossed, LabelNamesAccount
  <2> QED BY <2>6, <2>7, <2>8, <2>9
<1> QED BY <1>5, <1>6

\* The other steps store no token and read no row.
LEMMA OtherStepsKeepConsents ==
  ASSUME IInv, CInv,
         \/ \E c \in Connects : ExchangeCode(c)
         \/ \E b \in Bookings :
              \/ Refresh(b) \/ RefreshRejected(b) \/ RefreshFails(b)
              \/ Forget(b) \/ Mint(b)
         \/ Disconnect \/ Expire \/ Revoke \/ Restart
  PROVE  CInv'
<1> USE DEF IInv, CInv
<1>1. UNCHANGED <<account, source>>
  BY DEF ExchangeCode, Refresh, RefreshRejected, RefreshFails, Rotate, Forget, Mint,
         Disconnect, Expire, Revoke, Restart, consents
<1>2. \/ conn' = Nothing
      \/ conn # Nothing /\ conn' # Nothing /\ conn'.id = conn.id
           /\ conn'.label = conn.label /\ conn'.refresh = conn.refresh
  <2>1. conn' \in {conn, Nothing} \/
        (conn # Nothing /\ \E x \in BOOLEAN :
           conn' \in {[conn EXCEPT !.fresh = x], [conn EXCEPT !.readable = x]})
    BY DEF ExchangeCode, Refresh, RefreshRejected, RefreshFails, Rotate, Forget, Mint,
           Disconnect, Expire, Revoke, Restart
  <2>2. conn # Nothing => conn \in Row
    BY DEF RequestsTypeOK
  <2>3. ASSUME conn # Nothing, NEW x \in BOOLEAN,
               conn' \in {[conn EXCEPT !.fresh = x], [conn EXCEPT !.readable = x]}
        PROVE  /\ conn' # Nothing /\ conn'.id = conn.id
               /\ conn'.label = conn.label /\ conn'.refresh = conn.refresh
    <3>1. conn' \in Row /\ conn'.id = conn.id
          /\ conn'.label = conn.label /\ conn'.refresh = conn.refresh
      BY <2>2, <2>3 DEF Row
    <3> QED BY <3>1, MeetingsAssumption DEF MeetingsAssumption
  <2> QED BY <2>1, <2>3
<1>3. ASSUME NEW r \in Requests, NEW p, Goto(r, p), UNCHANGED crossed,
             pc[r] \notin Stored \/ p \in Stored,
             p \in {"exchange", "answered"} => pc[r] = "exchange"
      PROVE  /\ \A b \in Bookings : b \in Reading' => b \in Reading
             /\ \A b \in Bookings : pc[b] \in Stored => pc'[b] \in Stored
  BY <1>3 DEF Goto, Reading, Requests, RequestsTypeOK
<1>4. ASSUME NEW c \in Connects, ExchangeCode(c)
      PROVE  CInv'
  <2>1. c \in Requests /\ pc[c] \notin Stored /\ Goto(c, "granted") /\ UNCHANGED crossed
    BY <1>4 DEF ExchangeCode, Requests, Stored, consents
  <2> QED BY <1>1, <1>2, <1>3, <2>1, RowAsItWas
<1>5. ASSUME NEW b \in Bookings,
             \/ Refresh(b) \/ RefreshRejected(b) \/ RefreshFails(b)
             \/ Forget(b) \/ Mint(b)
      PROVE  CInv'
  <2>1. /\ b \in Requests /\ UNCHANGED crossed
        /\ \E p \in {"answered", "forget", "own", "room"} :
             /\ Goto(b, p)
             /\ pc[b] \notin Stored \/ p \in Stored
             /\ p \in {"exchange", "answered"} => pc[b] = "exchange"
    BY <1>5 DEF Refresh, RefreshRejected, RefreshFails, Rotate, Forget, Mint,
                Requests, Stored, consents
  <2> QED BY <1>1, <1>2, <1>3, <2>1, RowAsItWas
<1>6. CASE Disconnect \/ Expire \/ Revoke
  <2>1. UNCHANGED <<pc, crossed>>
    BY <1>6 DEF Disconnect, Expire, Revoke, consents
  <2> QED BY <1>1, <1>2, <2>1, RowAsItWas DEF Reading
<1>7. CASE Restart
  <2>1. /\ pc' = [r \in Requests |-> IF r \in InFlight THEN "over" ELSE pc[r]]
        /\ crossed' = crossed \ Reading
    BY <1>7 DEF Restart
  <2>2. \A b \in Bookings : b \notin Reading' /\ (pc[b] \in Stored => pc'[b] \in Stored)
    BY <2>1 DEF InFlight, Reading, Requests, Stored
  <2> QED BY <1>1, <1>2, <2>1, <2>2, RowAsItWas DEF ConsentsTypeOK
<1> QED BY <1>4, <1>5, <1>6, <1>7

LEMMA ConsentsInvariant == Spec => []CInv
<1>1. Init => CInv
  <2> SUFFICES ASSUME Init
               PROVE  CInv
    OBVIOUS
  <2>1. Rows = {} /\ conn = Nothing /\ \A b \in Bookings : account[b] = Nothing
    BY DEF Init, Rows
  <2>2. ConsentsTypeOK
    BY DEF Init, ConsentsTypeOK
  <2>3. SourcesKnown /\ ReadersFit /\ LabelNamesAccountUnlessCrossed
    BY <2>1 DEF SourcesKnown, ReadersFit, StillThere,
                LabelNamesAccountUnlessCrossed, LabelNamesAccount
  <2> QED BY <2>2, <2>3 DEF CInv
<1>2. IInv /\ CInv /\ [Next]_vars => CInv'
  <2> SUFFICES ASSUME IInv, CInv, [Next]_vars
               PROVE  CInv'
    OBVIOUS
  <2>1. CASE \E c \in Connects : ExchangeCode(c) \/ StoreConnection(c)
    BY <2>1, OtherStepsKeepConsents, StoreKeepsConsents
  <2>2. CASE \E b \in Bookings : Step(b)
    BY <2>2, OtherStepsKeepConsents, BeginKeepsConsents, WriteBackKeepsConsents DEF Step
  <2>3. CASE Disconnect \/ Expire \/ Revoke \/ Restart
    BY <2>3, OtherStepsKeepConsents
  <2>4. CASE UNCHANGED vars
    <3>1. UNCHANGED <<account, source, conn, pc, crossed>>
      BY <2>4 DEF vars, consents
    <3>2. \A b \in Bookings : b \in Reading' => b \in Reading
      BY <3>1 DEF Reading
    <3> QED BY <3>1, <3>2, RowAsItWas
  <2> QED BY <2>1, <2>2, <2>3, <2>4 DEF Next
<1> QED BY <1>1, <1>2, InductiveInvariant, PTL DEF Spec

-----------------------------------------------------------------------------

\* The row and the requests keep the shape the schema and the code give them.
THEOREM TypeCorrect == Spec => []TypeOK
BY InductiveInvariant, ConsentsInvariant, PTL DEF IInv, CInv, TypeOK

\* The token in the row is of the account that its label names, through any chain
\* of refreshes and reconnections, unless a booking that had read the row before
\* the tutor last reconnected wrote to it afterwards.
THEOREM LabelTrueUnlessCrossed == Spec => []LabelNamesAccountUnlessCrossed
BY ConsentsInvariant, PTL DEF CInv

\* However many refreshes run at once, the stored refresh token works or its
\* successor is on its way to the row: refreshAccess needs no lock.
THEOREM RefreshTokenUsable == Spec => []ConnectionUsable
BY InductiveInvariant, PTL DEF IInv

\* No write in flight brings a deleted connection back.
THEOREM DeletedForGood == Spec => []ClosedStaysClosed
BY InductiveInvariant, PTL DEF IInv

\* A booking fails for one reason: the connection it was refreshing was deleted.
THEOREM FailureExplained == Spec => []FailsOnlyWhenClosed
BY InductiveInvariant, PTL DEF IInv
=============================================================================
