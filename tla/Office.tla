-------------------------------- MODULE Office -------------------------------
(***************************************************************************)
(* A school's office: sessions, grants and settings (Members), phones and  *)
(* announcements (Devices), the list of subjects (Subjects) and requests   *)
(* for support (Support), handled by one server.  A request belongs to one *)
(* of them; a crash to all.                                                *)
(***************************************************************************)
EXTENDS Devices, Subjects, Support

officeVars == <<memberVars, deviceVars, subjectVars, supportVars>>

OfficeInit(granted) == MembersInit(granted) /\ DevicesInit /\ SubjectsInit /\ SupportInit

OfficeContinue(r) ==
  \/ MembersContinue(r) /\ UNCHANGED <<deviceVars, subjectVars, supportVars>>
  \/ DevicesContinue(r) /\ UNCHANGED <<memberVars, subjectVars, supportVars>>
  \/ SubjectsContinue(r) /\ UNCHANGED <<memberVars, deviceVars, supportVars>>
  \/ SupportContinue(r) /\ UNCHANGED <<memberVars, deviceVars, subjectVars>>

Crash == Drop /\ UNCHANGED officeVars

OfficeNext ==
  \/ \E r \in Requests :
       \/ MembersNext(r) /\ UNCHANGED <<deviceVars, subjectVars, supportVars>>
       \/ DevicesNext(r) /\ UNCHANGED <<memberVars, subjectVars, supportVars>>
       \/ SubjectsNext(r) /\ UNCHANGED <<memberVars, deviceVars, supportVars>>
       \/ SupportNext(r) /\ UNCHANGED <<memberVars, deviceVars, subjectVars>>
  \/ DevicesAlone /\ UNCHANGED <<memberVars, subjectVars, supportVars>>
  \/ SubjectsAlone /\ UNCHANGED <<memberVars, deviceVars, supportVars>>
  \/ Crash

\* The types of all four, and of the requests between them.
OfficeTypeOK ==
  /\ MembersTypeOK /\ DevicesTypeOK /\ SubjectsTypeOK /\ SupportTypeOK
  /\ \A r \in Requests : At(r, "granting") =>
       input[r] \in [want : SUBSET Addons, gone : SUBSET Addons]

-----------------------------------------------------------------------------
(* Properties.                                                               *)

\* What leaves the server is about something that is stored, crash or no crash: a
\* push about an announcement in everybody's feed, a mail to support about a
\* request on record (StoreFeed and SubmitSupport come first).
SentIsStored == PushedIsInFeed /\ MailedIsRecorded
=============================================================================
