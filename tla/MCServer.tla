------------------------------ MODULE MCServer -------------------------------
(* A small school, its settings, environments and callers.                    *)
EXTENDS Server

CONSTANTS algebra, Algebra, physics, admin, tutor, r1, r2,
          a1, a2, s1, s2, g1, l1, l2, l3, m1, m2

\* One name in two cases and another.
MCFold(n) == IF n = Algebra THEN algebra ELSE n

\* Two students in a group; a lesson of the group, one of each student's.
MCAudienceOf == l1 :> s1 @@ l2 :> g1 @@ l3 :> s2
MCTutorOf == s1 :> tutor @@ s2 :> admin @@ g1 :> tutor @@ l1 :> tutor @@ l2 :> tutor @@ l3 :> admin

MCMark(kind, value, comment) == [kind |-> kind, value |-> value, comment |-> comment, weight |-> None]

MCPayloads ==
  {MCMark("CLASSIC", 5, None), MCMark("PERCENTAGE", 101, "words"), MCMark("DESCRIPTIVE", 4, "blank")}

MCFiled ==
  m1 :> [student |-> s1, lesson |-> l2, author |-> tutor,
         mark |-> [kind |-> "CLASSIC", value |-> 4, comment |-> None, weight |-> 2]] @@
  m2 :> [student |-> s2, lesson |-> None, author |-> admin,
         mark |-> [kind |-> "PERCENTAGE", value |-> 75, comment |-> "words", weight |-> 1]]

\* One on a student, by their tutor, and one on the group's lesson, by the admin.
MCKept == m1 :> [about |-> s1, author |-> tutor] @@ m2 :> [about |-> l2, author |-> admin]

MCDay == l1 :> -3 @@ l2 :> 0 @@ l3 :> 1 @@ m1 :> -3 @@ m2 :> 0 @@ r1 :> 0 @@ r2 :> 0
MCMinutes == l1 :> 45 @@ l2 :> 60 @@ l3 :> 60
MCSubjectOf == l1 :> algebra @@ l2 :> None @@ l3 :> physics

MCQueries ==
  {[from |-> None, to |-> 2, tutor |-> None], [from |-> None, to |-> None, tutor |-> tutor]}
MCThresholds == {None, 1}

-----------------------------------------------------------------------------

MCUrl(is, host) == [is |-> is, login |-> FALSE, long |-> FALSE, host |-> host]
MCMeeting(provider, url) == "meeting" :> [provider |-> provider, roomUrl |-> url]

MCRooms ==
  {MCMeeting("ZOOM", url) : url \in
     {None, MCUrl("blank", <<>>), MCUrl("https", <<"us", "zoom", "us05web">>), MCUrl("http", <<"us", "zoom">>),
      MCUrl("https", <<"us", "evilzoom">>),
      [MCUrl("https", <<"us", "zoom">>) EXCEPT !.login = TRUE],
      [MCUrl("https", <<"us", "zoom">>) EXCEPT !.long = TRUE]}}
  \cup {MCMeeting("GOOGLE_MEET", MCUrl("https", <<"us", "zoom">>)), MCMeeting("JITSI", None),
        MCMeeting("SKYPE", None), "meeting" :> None}

MCColumns ==
  {<<>>} \cup MCRooms
  \cup {"lessonReminderMinutes" :> n @@ "gradesEnabled" :> "false" @@ room :
          n \in {0, 60, 2000},
          room \in {MCMeeting("ZOOM", MCUrl("https", host)) : host \in {<<"us", "zoom">>, <<"us", "evilzoom">>}}}

MCPatches ==
  MCRooms \cup
  {"lessonReminders" :> "true", "lessonReminderMinutes" :> 15, "lessonReminderMinutes" :> 0,
   "gradesEnabled" :> "false" @@ "lessonReminders" :> "false"}

-----------------------------------------------------------------------------

MCVaried ==
  {{v} : v \in Checked} \cup
  {{"NODE_ENV", "CORS_ORIGINS"},
   {"PUSH_TRANSPORT", "FCM_SERVICE_ACCOUNT"},
   {"MAIL_TRANSPORT"} \cup RESEND_REQUIRED,
   {"STORAGE_DRIVER", "S3_ENDPOINT"} \cup S3_REQUIRED,
   {"PUBLIC_API_URL", "MEETING_TOKEN_SECRET"}
     \cup MEETING_OAUTH_PAIRS.ZOOM \cup MEETING_OAUTH_PAIRS.GOOGLE_MEET}

MCCaller(account, token, address) == [account |-> account, token |-> token, address |-> address]

\* Two colleagues on one connection, one of them also with a token that has run
\* out and on another connection, and somebody who has not signed in.
MCCalling ==
  {MCCaller(admin, "valid", a1), MCCaller(tutor, "valid", a1), MCCaller(tutor, "expired", a1),
   MCCaller(tutor, "valid", a2), MCCaller("nobody", "none", a1)}

MCLimits(short, long) == [short |-> [limit |-> short, ttl |-> 1], long |-> [limit |-> long, ttl |-> 3]]

MCGlobal == MCLimits(1, 2)
MCThrottle == "signIn" :> MCLimits(1, 1)
=============================================================================
