------------------------------- MODULE Support -------------------------------
(***************************************************************************)
(* A request for support (SupportService.submit): a row, then a mail about *)
(* it, then a note on the row that the mail went out.                      *)
(***************************************************************************)
EXTENDS Requests

VARIABLES
  recorded,  \* support_requests, each named for the request that made it
  notified,  \* those with a notifiedAt
  mailed     \* history: those a mail went out about

supportVars == <<recorded, notified, mailed>>

SupportInit ==
  /\ recorded = {}
  /\ notified = {}
  /\ mailed = {}

\* First and unconditionally.
SubmitSupport(r) ==
  /\ At(r, "idle")
  /\ recorded' = recorded \cup {r}
  /\ Goto(r, "mailing")
  /\ UNCHANGED <<notified, mailed>>

\* Delivered, or not; not is logged and the request answered all the same.
SendSupportRequest(r) ==
  /\ At(r, "mailing")
  /\ \/ mailed' = mailed \cup {r} /\ Goto(r, "noting")
     \/ Finish(r) /\ UNCHANGED mailed
  /\ UNCHANGED <<recorded, notified>>

NoteSent(r) ==
  /\ At(r, "noting")
  /\ notified' = notified \cup (recorded \cap {r})
  /\ Finish(r)
  /\ UNCHANGED <<recorded, mailed>>

SupportContinue(r) == SendSupportRequest(r) \/ NoteSent(r)

SupportNext(r) == SubmitSupport(r) \/ SupportContinue(r)

SupportTypeOK == {recorded, notified, mailed} \subseteq SUBSET Requests

-----------------------------------------------------------------------------
(* Properties.                                                               *)

\* Nothing was mailed about that is not on record, and whoever looks for requests
\* nobody was told of misses none, wherever a mail or the server failed.
MailedIsRecorded == mailed \subseteq recorded /\ notified \subseteq mailed
=============================================================================
