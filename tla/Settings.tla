------------------------------ MODULE Settings -------------------------------
(***************************************************************************)
(* A tutor's settings and the rooms their lessons get from them            *)
(* (user-config.ts, meeting-providers.ts, LessonsService.meetingFor).  The *)
(* column may hold anything an older build wrote; every read repairs it,   *)
(* and a write puts the repaired config back with its changes.             *)
(*                                                                         *)
(* A setting sent twice at once is the subject of Members; here one write  *)
(* follows another.  A number arrives as a number: text coerced to one is  *)
(* that number, and anything else is 0, which no rule accepts.             *)
(***************************************************************************)
EXTENDS Grades, SequencesExt

CONSTANTS
  Booker,      \* the tutor whose settings these are
  Columns,     \* what users.config may hold to begin with
  Patches,     \* what is sent, once through UpdateUserConfigDto
  MaxBookings  \* how many lessons are booked

Preferences == {"lessonReminders", "lessonReminderMinutes", "gradesEnabled", "meeting"}

\* A host is its labels from the top level down.  An address says what it is and, as
\* a web address, its host and whether it names a login.
Url == [is : {"blank", "text", "http", "https"}, login : BOOLEAN, long : BOOLEAN,
        host : Seq(STRING)]

\* A meeting as it is stored or sent, of whatever provider.
Meeting == [provider : STRING, roomUrl : {None} \cup Url]

ASSUME SettingsAssumption ==
  /\ Booker \in Users /\ MaxBookings \in Nat
  /\ \A raw \in Columns \cup Patches :
       /\ DOMAIN raw \subseteq Preferences
       /\ "meeting" \in DOMAIN raw => raw["meeting"] \in {None} \cup Meeting

Hosts == [ZOOM |-> {<<"us", "zoom">>}, GOOGLE_MEET |-> {<<"com", "google", "meet">>}]

MEETING_PROVIDERS ==
  [ZOOM        |-> [kind |-> "personalRoom", hosts |-> Hosts.ZOOM],
   GOOGLE_MEET |-> [kind |-> "personalRoom", hosts |-> Hosts.GOOGLE_MEET],
   JITSI       |-> [kind |-> "generated", hosts |-> {<<"si", "jit", "meet">>}]]

VARIABLES
  column,   \* users.config, raw
  found,    \* history: what it held to begin with
  asked,    \* history: setting -> the value last accepted for it
  rooms     \* the links of the lessons booked, in order; None for a lesson in a room

settingsVars == <<column, found, asked, rooms>>

SettingsInit(columns) ==
  /\ found \in columns
  /\ column = found
  /\ asked = <<>>
  /\ rooms = <<>>

-----------------------------------------------------------------------------
(* What a room address has to be.                                            *)

\* Mutant: the end of the raw name, so that evilzoom.us is on zoom.us.
EndsLike(host, hosts) ==
  \E allowed \in hosts :
    /\ Len(host) >= Len(allowed)
    /\ IsPrefix(Front(allowed), host)
    /\ <<host[Len(allowed)], Last(allowed)>> \in {<<"evilzoom", "zoom">>, <<"zoom", "zoom">>}

\* The host itself or a subdomain of it.
IsHostOf(host, hosts) == \E allowed \in hosts : IsPrefix(allowed, host)

MeetingRoomProblem(provider, url) ==
  LET rules == MEETING_PROVIDERS[provider] IN
  IF rules.kind = "generated" THEN url # None
  ELSE /\ url # None
       /\ url.is # "blank"
       /\ \/ url.long
          \/ url.is # "https"
          \/ url.login
          \/ ~IsHostOf(url.host, rules.hosts)

MeetingConfigSchema(meeting) ==
  meeting # None =>
    /\ meeting.provider \in DOMAIN MEETING_PROVIDERS
    /\ meeting.roomUrl # None => ~meeting.roomUrl.long
    /\ ~MeetingRoomProblem(meeting.provider, meeting.roomUrl)

-----------------------------------------------------------------------------
(* Reading and merging a config.                                             *)

FieldType(f, v) ==
  CASE f \in {"lessonReminders", "gradesEnabled"} -> v \in {"true", "false"}
    [] f = "lessonReminderMinutes" -> v \in 5 .. 1440
    [] f = "meeting" -> MeetingConfigSchema(v)

FieldDefaults ==
  [lessonReminders |-> "false", lessonReminderMinutes |-> 30, gradesEnabled |-> "true",
   meeting |-> None]

\* Only a meeting that is not acceptable is dropped alone.
UserConfigSchema(raw) ==
  [f \in Preferences |->
     IF f \notin DOMAIN raw \/ (f = "meeting" /\ ~FieldType(f, raw[f]))
     THEN FieldDefaults[f] ELSE raw[f]]

ParseUserConfig(raw) ==
  IF \A f \in Preferences : FieldType(f, UserConfigSchema(raw)[f])
  THEN UserConfigSchema(raw) ELSE FieldDefaults

\* Mutant: the changes are laid over what the column holds.
MergeOntoColumn(raw, patch) ==
  [f \in DOMAIN raw \cup DOMAIN patch |-> IF f \in DOMAIN patch THEN patch[f] ELSE raw[f]]

MergeUserConfig(raw, patch) ==
  [f \in Preferences |-> IF f \in DOMAIN patch THEN patch[f] ELSE ParseUserConfig(raw)[f]]

UserConfigPatchSchema(patch) == \A f \in DOMAIN patch : FieldType(f, patch[f])

UpdateConfig(patch) ==
  /\ UserConfigPatchSchema(patch)
  /\ column' = MergeUserConfig(column, patch)
  /\ asked' = [f \in DOMAIN asked \cup DOMAIN patch |->
                 IF f \in DOMAIN patch THEN patch[f] ELSE asked[f]]
  /\ UNCHANGED <<found, rooms>>

-----------------------------------------------------------------------------
(* Booking.                                                                  *)

\* A host of the provider's own, which it answers with or this builds.
AtProvider(provider) ==
  [is |-> "https", login |-> FALSE, long |-> FALSE,
   host |-> CHOOSE h \in MEETING_PROVIDERS[provider].hosts : TRUE]

MeetingLinkFor(settings) ==
  LET rules == MEETING_PROVIDERS[settings.provider] IN
  IF rules.kind = "generated"
  THEN [provider |-> settings.provider, url |-> AtProvider(settings.provider)]
  ELSE IF settings.roomUrl = None \/ MeetingRoomProblem(settings.provider, settings.roomUrl)
  THEN None
  ELSE [provider |-> settings.provider, url |-> settings.roomUrl]

\* A connected account is tried first, and may create a room or not.
MeetingFor(settings, created) ==
  IF settings = None THEN None
  ELSE IF created /\ settings.provider # "JITSI"
  THEN [provider |-> settings.provider, url |-> AtProvider(settings.provider)]
  ELSE MeetingLinkFor(settings)

\* Whom a lesson is asked for; when and for how long is nothing a room depends on.
CreateLessonDto == [studentId : Students \cup {None}, groupId : Groups \cup {None}]

FindReachableGroup(u, g) == Here(g) /\ (u = Admin \/ TutorOf[g] = u)

\* A booking refused for its student or group may have had its room made already;
\* nothing on the server knows of that room, and the next attempt makes another.
Book(dto, created) ==
  /\ Len(rooms) < MaxBookings
  /\ (dto.studentId = None) # (dto.groupId = None)
  /\ IF dto.groupId # None THEN FindReachableGroup(Booker, dto.groupId)
     ELSE FindStudent(Booker, dto.studentId)
  /\ rooms' = Append(rooms, MeetingFor(ParseUserConfig(column).meeting, created))
  /\ UNCHANGED <<column, found, asked>>

SettingsNext ==
  \/ \E patch \in Patches : UpdateConfig(patch)
  \/ \E dto \in CreateLessonDto, created \in BOOLEAN : Book(dto, created)

SettingsTypeOK ==
  /\ DOMAIN column \subseteq Preferences
  /\ DOMAIN asked \subseteq Preferences
  /\ Len(rooms) <= MaxBookings

-----------------------------------------------------------------------------
(* Properties.                                                               *)

\* Whatever an older build left in the column, and in whatever order settings are
\* saved over it: a setting reads as it was last saved, one never saved as the
\* column had it, and a room this build does not allow costs nobody their others.
SettingsHold ==
  \A f \in Preferences :
    LET now == ParseUserConfig(column)[f] IN
    IF f \in DOMAIN asked THEN now = asked[f]
    ELSE (\A g \in DOMAIN found \ {"meeting"} : FieldType(g, found[g])) =>
           now = IF f \notin DOMAIN found \/ ~FieldType(f, found[f])
                 THEN FieldDefaults[f] ELSE found[f]

Joinable(room) ==
  /\ room.url.is = "https"
  /\ ~room.url.login
  /\ \E top \in MEETING_PROVIDERS[room.provider].hosts :
       /\ Len(room.url.host) >= Len(top)
       /\ \A i \in DOMAIN top : room.url.host[i] = top[i]

Links == {rooms[i] : i \in DOMAIN rooms} \ {None}

\* No lesson is ever given a link that leads away from its provider, also not
\* one out of a column that was written before the rule.
LinksStayOnProvider == \A room \in Links : room.url.is # "blank" => Joinable(room)

\* A lesson held at a provider has somewhere to join ("Returning a provider with a
\* null link would record a lesson as being held on Zoom with nowhere to join").
NowhereToJoin == \A room \in Links : Joinable(room)
=============================================================================
