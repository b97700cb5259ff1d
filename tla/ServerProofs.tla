----------------------------- MODULE ServerProofs -----------------------------
(***************************************************************************)
(* What the server's parts promise, proved of Server's specification for   *)
(* any number of requests, members, rows and settings: the office's        *)
(* invariant is OfficeProofs', whose lemmas are used while the office is   *)
(* the topic; under any other the office stays as it was to begin with.    *)
(***************************************************************************)
EXTENDS Server, OfficeProofs, FiniteSetTheorems

\* The office, whatever the topic.
OfficeHolds == IF topic = "office" THEN OfficeInv ELSE OfficeInit({{}})

LEMMA OfficeHoldsInit ==
  ASSUME Init
  PROVE  OfficeHolds
<1>1. CASE topic = "office"
  BY <1>1, OfficeStarts DEF Init, OfficeHolds
<1>2. CASE topic # "office"
  BY <1>2 DEF Init, OfficeHolds
<1> QED BY <1>1, <1>2

\* Only the office's own requests touch the office.
LEMMA OfficeApart ==
  ASSUME [Next]_vars
  PROVE  /\ UNCHANGED topic
         /\ topic # "office" => UNCHANGED officeVars
         /\ topic = "office" => OfficeNext \/ UNCHANGED <<pc, input, officeVars>>
<1>1. CASE InOffice
  BY <1>1 DEF Next, InOffice, vars
<1>2. CASE School /\ UNCHANGED topic
  BY <1>2 DEF School, apartVars
<1>3. CASE (InSettings \/ AtBoot \/ AtTheDoor) /\ UNCHANGED topic
  BY <1>3 DEF InSettings, AtBoot, AtTheDoor
<1>4. ASSUME NEW r \in Requests, Mark(r) \/ Remark(r) \/ Reader(r), UNCHANGED topic
      PROVE  topic # "office" /\ UNCHANGED officeVars
  BY <1>4 DEF Mark, Remark, Reader, apartVars
<1>5. CASE UNCHANGED vars
  BY <1>5 DEF vars, apartVars
<1> QED BY <1>1, <1>2, <1>3, <1>4, <1>5 DEF Next

LEMMA OfficeHoldsNext ==
  ASSUME OfficeHolds, [Next]_vars
  PROVE  OfficeHolds' /\ DevicesKept
<1>1. CASE topic = "office"
  BY <1>1, OfficeApart, OfficeKeeps, OfficeStays DEF OfficeHolds
<1>2. CASE topic # "office"
  <2>1. UNCHANGED <<memberVars, deviceVars, subjectVars, supportVars>> /\ UNCHANGED topic
    BY <1>2, OfficeApart DEF officeVars
  <2>2. MembersInit({{}})'
    BY <1>2, <2>1 DEF OfficeHolds, OfficeInit, MembersInit, memberVars
  <2>3. DevicesInit' /\ SupportInit'
    BY <1>2, <2>1
       DEF OfficeHolds, OfficeInit, DevicesInit, SupportInit, deviceVars, supportVars
  <2>4. SubjectsInit'
    BY <1>2, <2>1 DEF OfficeHolds, OfficeInit, SubjectsInit, subjectVars
  <2>5. DevicesKept
    BY <2>1 DEF DevicesKept, deviceVars
  <2> QED BY <1>2, <2>1, <2>2, <2>3, <2>4, <2>5 DEF OfficeHolds, OfficeInit
<1> QED BY <1>1, <1>2

\* The inductive invariant of the office.
THEOREM OfficeInvariant == Spec => []OfficeHolds
<1>1. Init => OfficeHolds
  BY OfficeHoldsInit
<1>2. OfficeHolds /\ [Next]_vars => OfficeHolds'
  BY OfficeHoldsNext
<1> QED BY <1>1, <1>2, PTL DEF Spec

\* What has not begun yet promises as much.
LEMMA OfficeAtRest ==
  ASSUME OfficeInit({{}})
  PROVE  /\ RevokedStaysRevoked /\ GrantsAsSubmitted /\ SettingsKept
         /\ SentIsStored
         /\ HiddenIsUnused /\ OneOfAName
<1>1. RevokedStaysRevoked /\ GrantsAsSubmitted /\ SettingsKept
  BY DEF OfficeInit, MembersInit, RevokedStaysRevoked, GrantsAsSubmitted, SettingsKept
<1>2. SentIsStored
  BY DEF OfficeInit, DevicesInit, SupportInit, SentIsStored, PushedIsInFeed, MailedIsRecorded
<1>3. \A i \in Ids : subject[i] # None => i = First /\ ~subject[i].hidden
  BY DEF OfficeInit, SubjectsInit
<1> QED BY <1>1, <1>2, <1>3 DEF HiddenIsUnused, OneOfAName

LEMMA OfficeHoldsPromises ==
  ASSUME OfficeHolds
  PROVE  /\ RevokedStaysRevoked /\ GrantsAsSubmitted /\ SettingsKept
         /\ SentIsStored
         /\ HiddenIsUnused /\ OneOfAName
BY OfficeAtRest, OfficeSafe DEF OfficeHolds, OfficePromises

\* A session that a sign-out ended is never accepted again, however many sign-ins
\* and sign-outs race (revokeSessions).
THEOREM SessionsEnd == Spec => []RevokedStaysRevoked
BY OfficeInvariant, OfficeHoldsPromises, PTL

\* A member holds just what was submitted last, and of replacements that overlapped
\* no more than some asked for and no less than all did (AddonsService.setFor).
THEOREM GrantsHold == Spec => []GrantsAsSubmitted
BY OfficeInvariant, OfficeHoldsPromises, PTL

\* A setting is lost only to a patch merged over an older read (UsersService).
THEOREM SettingsLast == Spec => []SettingsKept
BY OfficeInvariant, OfficeHoldsPromises, PTL

\* No push and no mail leaves before what it is about is stored
\* (NotificationsService.announce, SupportService.submit).
THEOREM StoredBeforeSent == Spec => []SentIsStored
BY OfficeInvariant, OfficeHoldsPromises, PTL

\* Nothing current studies a hidden subject, but for the two overlaps that the
\* usage report cannot see (SubjectsService).
THEOREM HiddenMeansUnused == Spec => []HiddenIsUnused
BY OfficeInvariant, OfficeHoldsPromises, PTL

\* One subject of a name, but for two requests giving it at once.
THEOREM NamesAreOne == Spec => []OneOfAName
BY OfficeInvariant, OfficeHoldsPromises, PTL

\* No step takes a phone from its owner but their own sign-out or the push
\* service's word that it is gone (DevicesService.unregister, PushService).
THEOREM PhonesKept == Spec => DeviceKept
<1>1. OfficeHolds /\ [Next]_vars => [DevicesKept]_deviceVars
  BY OfficeHoldsNext
<1> QED BY <1>1, OfficeInvariant, PTL DEF Spec, DeviceKept, DevicesKept

-----------------------------------------------------------------------------
(* Starting up.  What the start has checked stays so, since the environment  *)
(* does not change: whatever is used later finds what it needs.              *)

EnvFits == env = [v \in Variables |-> env[v]] /\ \A v \in Variables : env[v] \in Written(v)

BootInv ==
  /\ EnvFits
  /\ phase \in {"starting", "validated", "up", "refused"}
  /\ origins \in {"none", "*", "good"}
  /\ phase \in {"validated", "up"} => EnvSchema /\ Contract /\ origins = CorsOriginsFor
  /\ phase = "up" => ~(Config("NODE_ENV") = "production" /\ origins = "*")
  /\ phase = "refused" =>
       ~(EnvSchema /\ Contract) \/ (Config("NODE_ENV") = "production" /\ CorsOriginsFor = "*")
  /\ failed # {} => failed = {"push"} /\ env["FCM_SERVICE_ACCOUNT"] = "bad"

LEMMA EnvironmentsFit ==
  ASSUME NEW group, NEW e \in Environments(group) \cup {Bare}
  PROVE  e = [v \in Variables |-> e[v]] /\ \A v \in Variables : e[v] \in Written(v)
<1>1. ASSUME NEW v \in Variables
      PROVE  Bare[v] \in Written(v)
  <2>1. v \in Required => v \notin DOMAIN Choice /\ v # "CORS_ORIGINS"
                         /\ v \notin Text \ {"FCM_SERVICE_ACCOUNT"}
    BY DEF Required, Choice, Text, RESEND_REQUIRED, S3_REQUIRED, MEETING_OAUTH_PAIRS
  <2> QED BY <2>1 DEF Bare, Written
<1>2. CASE e \in Environments(group)
  <2>1. PICK set : /\ \A x \in group : set[x] \in Written(x)
                   /\ e = [x \in Variables |-> IF x \in group THEN set[x] ELSE Bare[x]]
    BY <1>2 DEF Environments
  <2> QED BY <1>1, <2>1
<1>3. Bare = [v \in Variables |-> Bare[v]]
  BY DEF Bare
<1> QED BY <1>1, <1>2, <1>3

LEMMA BootInvInit ==
  ASSUME NEW envs, BootInit(envs),
         envs \subseteq {Bare} \cup UNION {Environments(group) : group \in Varied}
  PROVE  BootInv
<1>1. EnvFits
  BY EnvironmentsFit DEF BootInit, EnvFits
<1> QED BY <1>1 DEF BootInit, BootInv

\* Of all that can be used of a server that started, only push can disappoint.
LEMMA ServesAll ==
  ASSUME EnvFits, Contract, NEW feature \in Features, ~Serves(feature)
  PROVE  feature = "push" /\ env["FCM_SERVICE_ACCOUNT"] = "bad"
<1>1. ASSUME NEW p \in DOMAIN MEETING_OAUTH_PAIRS, CredentialsFor(p)
      PROVE  AuthorizeUrlFor(p)
  <2>1. MEETING_OAUTH_PAIRS[p] # {}
    BY DEF MEETING_OAUTH_PAIRS
  <2>2. p \in Configured
    BY <1>1, <2>1 DEF Configured, CredentialsFor
  <2>3. Given("PUBLIC_API_URL") /\ Given("MEETING_TOKEN_SECRET")
    BY <2>2 DEF Contract, Lacking
  <2> QED BY <1>1, <2>3 DEF AuthorizeUrlFor, RequireCredentials, RedirectUri
<1>2. feature \in AvailableProviders => Serves(feature)
  BY <1>1 DEF AvailableProviders, Serves, MEETING_OAUTH_PAIRS
<1>3. Deliver /\ StorageService
  BY DEF Contract, Deliver, StorageService
<1>4. feature = "push" /\ ~ResolveCredentials
  BY <1>2, <1>3 DEF Features, Serves
<1>5. Given("FCM_SERVICE_ACCOUNT") /\ env["FCM_SERVICE_ACCOUNT"] # "good"
  BY <1>4 DEF Contract, ResolveCredentials, ParseServiceAccount
<1>6. env["FCM_SERVICE_ACCOUNT"] \in {"unset", "blank", "bad", "good"}
  BY DEF EnvFits, Variables, Text, Written, Choice
<1> QED BY <1>4, <1>5, <1>6 DEF Given

LEMMA BootInvNext ==
  ASSUME BootInv, BootNext \/ UNCHANGED bootVars
  PROVE  BootInv'
<1> USE DEF BootInv
<1>1. UNCHANGED env
  BY DEF BootNext, ValidateEnv, ConfigureApp, Use, bootVars
<1>2. /\ EnvFits' /\ UNCHANGED CorsOriginsFor /\ UNCHANGED Config("NODE_ENV")
      /\ EnvSchema' = EnvSchema /\ Contract' = Contract
  BY <1>1 DEF EnvFits, CorsOriginsFor, EnvSchema, Contract, Config, Given, Lacking, Configured
<1>3. CASE ValidateEnv
  <2>1. CorsOriginsFor \in {"none", "*", "good"}
    BY DEF EnvFits, CorsOriginsFor, Variables, Text, Written, Choice
  <2> QED BY <1>2, <1>3, <2>1 DEF ValidateEnv
<1>4. CASE ConfigureApp
  BY <1>2, <1>4 DEF ConfigureApp
<1>5. ASSUME NEW feature \in Features, Use(feature)
      PROVE  BootInv'
  <2>1. failed' # {} => failed' = {"push"} /\ env["FCM_SERVICE_ACCOUNT"] = "bad"
    BY <1>5, ServesAll DEF Use
  <2> QED BY <1>1, <1>2, <1>5, <2>1 DEF Use
<1>6. CASE UNCHANGED bootVars
  BY <1>2, <1>6 DEF bootVars
<1> QED BY <1>3, <1>4, <1>5, <1>6 DEF BootNext

\* Nothing but the two that have no default keeps a server from starting.
LEMMA BareStarts ==
  ASSUME \A v \in Variables : v \notin Required => env[v] = "unset",
         \A v \in Required : env[v] = "good"
  PROVE  EnvSchema /\ Contract /\ Config("NODE_ENV") = "development"
<1>1. \A v \in Variables \ Required : env[v] = "unset" /\ ~Given(v)
  BY DEF Given
<1>2. \A v \in Required : v \notin DOMAIN Choice
  BY DEF Required, Choice
<1>3. EnvSchema
  BY <1>1, <1>2 DEF EnvSchema
<1>4. {"PUSH_TRANSPORT", "MAIL_TRANSPORT", "STORAGE_DRIVER", "NODE_ENV"} \subseteq Variables \ Required
  BY DEF Variables, Required, Choice
<1>5. /\ Config("PUSH_TRANSPORT") = "log" /\ Config("MAIL_TRANSPORT") = "log"
      /\ Config("STORAGE_DRIVER") = "local" /\ Config("NODE_ENV") = "development"
  BY <1>1, <1>4 DEF Config, Default
<1>6. \A p \in DOMAIN MEETING_OAUTH_PAIRS : MEETING_OAUTH_PAIRS[p] \subseteq Variables \ Required
  BY DEF MEETING_OAUTH_PAIRS, Variables, Text, Required
<1>7. Configured = {}
  BY <1>1, <1>6 DEF Configured, Lacking
<1> QED BY <1>3, <1>5, <1>7 DEF Contract

LEMMA BootSafe ==
  ASSUME BootInv
  PROVE  NeverWanting
<1> USE DEF BootInv
<1>1. env["NODE_ENV"] = "production" => Config("NODE_ENV") = "production"
  BY DEF Config
<1> QED BY <1>1, BareStarts DEF NeverWanting

\* The inductive invariant of starting up.
THEOREM BootInvariant == Spec => []BootInv
<1>1. Init => BootInv
  <2> SUFFICES ASSUME Init PROVE BootInv
    OBVIOUS
  <2> DEFINE all == UNION {Environments(group) : group \in Varied}
             envs == For("boot", all, Bare)
  <2>1. envs \subseteq {Bare} \cup all
    BY DEF For
  <2>2. BootInit(envs)
    BY DEF Init
  <2> HIDE DEF envs
  <2> QED BY <2>1, <2>2, BootInvInit
<1>2. BootInv /\ [Next]_vars => BootInv'
  <2> SUFFICES ASSUME BootInv, [Next]_vars PROVE BootInv'
    OBVIOUS
  <2>1. BootNext \/ UNCHANGED bootVars
    BY DEF Next, InOffice, Mark, Remark, Reader, School, InSettings, AtBoot, AtTheDoor, vars, apartVars
  <2> QED BY <2>1, BootInvNext
<1> QED BY <1>1, <1>2, PTL DEF Spec

\* A server that started does what it was told to: NeverWanting, on any environment.
THEOREM StartedServes == Spec => []NeverWanting
BY BootInvariant, BootSafe, PTL

-----------------------------------------------------------------------------
(* Settings.  The column is as it was found until something is saved; from   *)
(* then on it is a whole config, each setting as last saved or as the first  *)
(* read repaired it, and reading a whole config changes nothing.             *)

\* What a read gives for every setting, and what a read leaves as it is.
Whole(settings) ==
  /\ settings = [f \in Preferences |-> settings[f]]
  /\ \A f \in Preferences : FieldType(f, settings[f])

Layered == [f \in Preferences |-> IF f \in DOMAIN asked THEN asked[f] ELSE ParseUserConfig(found)[f]]

MeetingFits(settings) == "meeting" \in DOMAIN settings => settings["meeting"] \in {None} \cup Meeting

SettingsInv ==
  /\ \A f \in Preferences \cap DOMAIN asked : FieldType(f, asked[f])
  /\ column = Layered \/ (column = found /\ DOMAIN asked = {})
  /\ MeetingFits(found) /\ MeetingFits(asked)

LEMMA DefaultsWhole == Whole(FieldDefaults)
<1>1. \A f \in Preferences : FieldType(f, FieldDefaults[f])
  <2>1. FieldType("lessonReminders", "false") /\ FieldType("gradesEnabled", "true")
    BY DEF FieldType
  <2>2. FieldType("lessonReminderMinutes", 30)
    BY DEF FieldType
  <2>3. FieldType("meeting", None)
    BY DEF FieldType, MeetingConfigSchema
  <2> QED BY <2>1, <2>2, <2>3 DEF Preferences, FieldDefaults
<1>2. FieldDefaults = [f \in Preferences |-> FieldDefaults[f]]
  BY DEF Preferences, FieldDefaults
<1> QED BY <1>1, <1>2 DEF Whole

\* Every read gives a whole config.
LEMMA ReadIsWhole ==
  ASSUME NEW raw
  PROVE  Whole(ParseUserConfig(raw))
BY DefaultsWhole DEF ParseUserConfig, UserConfigSchema, Whole

\* Reading what a read gave changes nothing.
LEMMA ReadOfWhole ==
  ASSUME NEW settings, Whole(settings)
  PROVE  ParseUserConfig(settings) = settings
<1>1. DOMAIN settings = Preferences
  BY DEF Whole
<1>2. UserConfigSchema(settings) = [f \in Preferences |-> settings[f]]
  BY <1>1 DEF Whole, UserConfigSchema
<1> QED BY <1>2 DEF Whole, ParseUserConfig

\* Before anything is saved, a setting reads as the column had it.
LEMMA ReadOfFound ==
  ASSUME NEW raw, \A g \in DOMAIN raw \ {"meeting"} : FieldType(g, raw[g]), NEW f \in Preferences
  PROVE  ParseUserConfig(raw)[f] =
           IF f \notin DOMAIN raw \/ ~FieldType(f, raw[f]) THEN FieldDefaults[f] ELSE raw[f]
<1>1. \A g \in Preferences : FieldType(g, UserConfigSchema(raw)[g])
  BY DefaultsWhole DEF UserConfigSchema, Whole
<1>2. ParseUserConfig(raw) = UserConfigSchema(raw)
  BY <1>1 DEF ParseUserConfig
<1> QED BY <1>2 DEF UserConfigSchema

LEMMA LayeredWhole ==
  ASSUME SettingsInv
  PROVE  Whole(Layered)
<1>1. \A f \in Preferences : FieldType(f, ParseUserConfig(found)[f])
  BY ReadIsWhole DEF Whole
<1> QED BY <1>1 DEF Layered, Whole, SettingsInv

LEMMA SettingsSafe ==
  ASSUME SettingsInv
  PROVE  SettingsHold
<1> SUFFICES ASSUME NEW f \in Preferences
             PROVE  /\ f \in DOMAIN asked => ParseUserConfig(column)[f] = asked[f]
                    /\ f \notin DOMAIN asked =>
                         ParseUserConfig(column)[f] = ParseUserConfig(found)[f]
  BY ReadOfFound DEF SettingsHold
<1>1. CASE column = found /\ DOMAIN asked = {}
  BY <1>1
<1>2. CASE column = Layered
  BY <1>2, LayeredWhole, ReadOfWhole DEF Layered
<1> QED BY <1>1, <1>2 DEF SettingsInv

LEMMA SettingsSaved ==
  ASSUME SettingsInv, NEW patch \in Patches, UpdateConfig(patch)
  PROVE  SettingsInv'
<1>1. ParseUserConfig(column) = Layered \/ (ParseUserConfig(column) = ParseUserConfig(found) /\ DOMAIN asked = {})
  BY LayeredWhole, ReadOfWhole DEF SettingsInv
<1>2. /\ DOMAIN asked' = DOMAIN asked \cup DOMAIN patch
      /\ \A f \in DOMAIN asked' : asked'[f] = IF f \in DOMAIN patch THEN patch[f] ELSE asked[f]
      /\ found' = found
  BY DEF UpdateConfig
<1>3. \A f \in Preferences \cap DOMAIN asked' : FieldType(f, asked'[f])
  BY <1>2 DEF UpdateConfig, UserConfigPatchSchema, SettingsInv
<1>4. column' = Layered'
  <2>1. column' = [f \in Preferences |-> IF f \in DOMAIN patch THEN patch[f] ELSE ParseUserConfig(column)[f]]
    BY DEF UpdateConfig, MergeUserConfig
  <2>2. Layered' = [f \in Preferences |-> IF f \in DOMAIN asked' THEN asked'[f] ELSE ParseUserConfig(found)[f]]
    BY <1>2 DEF Layered, ParseUserConfig, UserConfigSchema
  <2>3. ASSUME NEW f \in Preferences
        PROVE  (IF f \in DOMAIN patch THEN patch[f] ELSE ParseUserConfig(column)[f]) =
               (IF f \in DOMAIN asked' THEN asked'[f] ELSE ParseUserConfig(found)[f])
    BY <1>1, <1>2 DEF Layered
  <2> QED BY <2>1, <2>2, <2>3
<1>5. MeetingFits(found)' /\ MeetingFits(asked)'
  BY <1>2, SettingsAssumption DEF SettingsInv, MeetingFits
<1> QED BY <1>3, <1>4, <1>5 DEF SettingsInv

\* A link a lesson may be given: an address a tutor has typed, or a provider's own.
Address == Url \cup {AtProvider(p) : p \in DOMAIN MEETING_PROVIDERS}

Room ==
  {room \in [provider : DOMAIN MEETING_PROVIDERS, url : Address] : room.url.is # "blank" => Joinable(room)}

RoomsInv == rooms \in Seq({None} \cup Room)

\* A host that has an allowed one for a prefix agrees with it label by label.
LEMMA PrefixAgrees ==
  ASSUME NEW S, NEW T, NEW s \in Seq(S), NEW t \in Seq(T), IsPrefix(s, t)
  PROVE  Len(t) >= Len(s) /\ \A i \in DOMAIN s : t[i] = s[i]
<1>1. Len(s) <= Len(t) /\ SubSeq(s, 1, Len(s)) = SubSeq(t, 1, Len(s))
  BY DEF IsPrefix
<1>2. ASSUME NEW i \in 1 .. Len(s)
      PROVE  SubSeq(s, 1, Len(s))[i] = s[i] /\ SubSeq(t, 1, Len(s))[i] = t[i]
  BY <1>1
<1>3. DOMAIN s = 1 .. Len(s)
  OBVIOUS
<1> QED BY <1>1, <1>2, <1>3

Labels == {"us", "zoom", "com", "google", "meet", "si", "jit"}

LEMMA HostsAreLabels ==
  ASSUME NEW p \in DOMAIN MEETING_PROVIDERS
  PROVE  /\ MEETING_PROVIDERS[p].hosts # {}
         /\ MEETING_PROVIDERS[p].hosts \subseteq Seq(Labels)
<1>1. ASSUME NEW a \in Labels, NEW b \in Labels, NEW c \in Labels
      PROVE  <<a, b>> \in Seq(Labels) /\ <<a, b, c>> \in Seq(Labels)
  OBVIOUS
<1>2. /\ <<"us", "zoom">> \in Seq(Labels)
      /\ <<"com", "google", "meet">> \in Seq(Labels)
      /\ <<"si", "jit", "meet">> \in Seq(Labels)
  BY <1>1 DEF Labels
<1>3. p \in {"ZOOM", "GOOGLE_MEET", "JITSI"}
  BY DEF MEETING_PROVIDERS
<1>4. Hosts.ZOOM = {<<"us", "zoom">>} /\ Hosts.GOOGLE_MEET = {<<"com", "google", "meet">>}
  BY DEF Hosts
<1>5. MEETING_PROVIDERS[p].hosts = CASE p = "ZOOM" -> Hosts.ZOOM
                                      [] p = "GOOGLE_MEET" -> Hosts.GOOGLE_MEET
                                      [] p = "JITSI" -> {<<"si", "jit", "meet">>}
  BY <1>3 DEF MEETING_PROVIDERS
<1>6. CASE p = "ZOOM"
  BY <1>2, <1>4, <1>5, <1>6
<1>7. CASE p = "GOOGLE_MEET"
  BY <1>2, <1>4, <1>5, <1>7
<1>8. CASE p = "JITSI"
  BY <1>2, <1>5, <1>8
<1> QED BY <1>3, <1>6, <1>7, <1>8

\* The address a provider answers with, or that is built for it, is its own.
LEMMA OwnAddress ==
  ASSUME NEW p \in DOMAIN MEETING_PROVIDERS
  PROVE  [provider |-> p, url |-> AtProvider(p)] \in Room
<1> DEFINE h == CHOOSE h \in MEETING_PROVIDERS[p].hosts : TRUE
           room == [provider |-> p, url |-> AtProvider(p)]
<1>1. h \in MEETING_PROVIDERS[p].hosts /\ h \in Seq(Labels)
  BY HostsAreLabels
<1> HIDE DEF h
<1>2. Len(h) >= Len(h)
  BY <1>1
<1>3. AtProvider(p) = [is |-> "https", login |-> FALSE, long |-> FALSE, host |-> h]
  BY DEF AtProvider, h
<1>4. room.url.is = "https" /\ ~room.url.login /\ room.url.host = h /\ room.provider = p
  BY <1>3
<1>5. room \in [provider : DOMAIN MEETING_PROVIDERS, url : Address]
  BY DEF Address
<1> HIDE DEF room
<1>6. Joinable(room)
  BY <1>1, <1>2, <1>4 DEF Joinable
<1>7. room \in Room
  BY <1>5, <1>6 DEF Room
<1> QED BY <1>7 DEF room

\* A room of the tutor's own passes the rule for its provider, or is no link.
LEMMA PersonalRoom ==
  ASSUME NEW p \in DOMAIN MEETING_PROVIDERS, NEW url \in Url, url # None,
         MEETING_PROVIDERS[p].kind # "generated", ~MeetingRoomProblem(p, url)
  PROVE  [provider |-> p, url |-> url] \in Room
<1>1. CASE url.is = "blank"
  BY <1>1 DEF Room, Address
<1>2. CASE url.is # "blank"
  <2>1. url.is = "https" /\ ~url.login /\ IsHostOf(url.host, MEETING_PROVIDERS[p].hosts)
    BY <1>2 DEF MeetingRoomProblem
  <2>2. PICK top \in MEETING_PROVIDERS[p].hosts : IsPrefix(top, url.host)
    BY <2>1 DEF IsHostOf
  <2>3. top \in Seq(Labels) /\ url.host \in Seq(STRING)
    BY HostsAreLabels DEF Url
  <2>4. Len(url.host) >= Len(top) /\ \A i \in DOMAIN top : url.host[i] = top[i]
    BY <2>2, <2>3, PrefixAgrees
  <2> QED BY <2>1, <2>4 DEF Room, Joinable, Address
<1> QED BY <1>1, <1>2

\* What a config that can be read holds of a meeting.
LEMMA ReadMeeting ==
  ASSUME SettingsInv, NEW meeting, meeting = ParseUserConfig(column).meeting
  PROVE  /\ meeting \in {None} \cup Meeting
         /\ MeetingConfigSchema(meeting)
<1>1. "meeting" \in Preferences
  BY DEF Preferences
<1>2. FieldType("meeting", meeting)
  BY <1>1, ReadIsWhole DEF Whole
<1>3. MeetingConfigSchema(meeting)
  BY <1>2 DEF FieldType
<1>4. ASSUME NEW raw, MeetingFits(raw)
      PROVE  ParseUserConfig(raw)["meeting"] \in {None} \cup Meeting
  BY <1>1, <1>4 DEF MeetingFits, ParseUserConfig, UserConfigSchema, FieldDefaults
<1>5. CASE column = Layered
  <2>1. ParseUserConfig(column) = Layered
    BY <1>5, LayeredWhole, ReadOfWhole
  <2>2. Layered["meeting"] = IF "meeting" \in DOMAIN asked THEN asked["meeting"]
                             ELSE ParseUserConfig(found)["meeting"]
    BY <1>1 DEF Layered
  <2> QED BY <1>3, <1>4, <2>1, <2>2 DEF SettingsInv, MeetingFits
<1>6. CASE column = found
  BY <1>3, <1>4, <1>6 DEF SettingsInv
<1> QED BY <1>5, <1>6 DEF SettingsInv

LEMMA RoomGiven ==
  ASSUME SettingsInv, NEW created \in BOOLEAN
  PROVE  MeetingFor(ParseUserConfig(column).meeting, created) \in {None} \cup Room
<1> SUFFICES ASSUME NEW meeting, meeting = ParseUserConfig(column).meeting
             PROVE  MeetingFor(meeting, created) \in {None} \cup Room
  OBVIOUS
<1>1. meeting \in {None} \cup Meeting /\ MeetingConfigSchema(meeting)
  BY ReadMeeting
<1>2. CASE meeting = None
  BY <1>2 DEF MeetingFor
<1>3. CASE meeting # None
  <2>1. /\ meeting.provider \in DOMAIN MEETING_PROVIDERS
        /\ meeting.roomUrl \in {None} \cup Url
        /\ ~MeetingRoomProblem(meeting.provider, meeting.roomUrl)
    BY <1>1, <1>3 DEF MeetingConfigSchema, Meeting
  <2>2. MeetingLinkFor(meeting) \in {None} \cup Room
    BY <2>1, OwnAddress, PersonalRoom DEF MeetingLinkFor
  <2> QED BY <1>3, <2>1, <2>2, OwnAddress DEF MeetingFor
<1> QED BY <1>2, <1>3

LEMMA SettingsInvInit ==
  ASSUME Init
  PROVE  SettingsInv /\ RoomsInv
<1>1. found \in Columns \cup {<<>>} /\ column = found /\ asked = <<>> /\ rooms = <<>>
  BY DEF Init, SettingsInit, For
<1>2. DOMAIN asked = {}
  BY <1>1
<1>3. MeetingFits(found)
  <2>1. CASE found = <<>>
    BY <2>1 DEF MeetingFits
  <2> QED BY <1>1, <2>1, SettingsAssumption DEF MeetingFits
<1> QED BY <1>1, <1>2, <1>3 DEF SettingsInv, RoomsInv, MeetingFits

LEMMA SettingsInvNext ==
  ASSUME SettingsInv, RoomsInv, SettingsNext \/ UNCHANGED settingsVars
  PROVE  SettingsInv' /\ RoomsInv'
<1>1. ASSUME NEW patch \in Patches, UpdateConfig(patch)
      PROVE  SettingsInv' /\ RoomsInv'
  BY <1>1, SettingsSaved DEF UpdateConfig, RoomsInv, Room
<1>2. ASSUME UNCHANGED <<column, found, asked>>
      PROVE  SettingsInv'
  BY <1>2 DEF SettingsInv, Layered, MeetingFits
<1>3. ASSUME NEW dto \in CreateLessonDto, NEW created \in BOOLEAN, Book(dto, created)
      PROVE  SettingsInv' /\ RoomsInv'
  <2>1. rooms' = Append(rooms, MeetingFor(ParseUserConfig(column).meeting, created))
    BY <1>3 DEF Book
  <2>2. RoomsInv'
    BY <2>1, RoomGiven DEF RoomsInv
  <2> QED BY <1>2, <1>3, <2>2 DEF Book
<1>4. CASE UNCHANGED settingsVars
  BY <1>2, <1>4 DEF settingsVars, RoomsInv
<1> QED BY <1>1, <1>3, <1>4 DEF SettingsNext

LEMMA RoomsSafe ==
  ASSUME RoomsInv
  PROVE  LinksStayOnProvider
<1>1. \A i \in DOMAIN rooms : rooms[i] \in {None} \cup Room
  BY DEF RoomsInv
<1> QED BY <1>1 DEF LinksStayOnProvider, Links, Room

LEMMA SettingsStayTyped ==
  ASSUME SettingsTypeOK, RoomsInv, SettingsNext \/ UNCHANGED settingsVars
  PROVE  SettingsTypeOK'
<1>1. ASSUME NEW patch \in Patches, UpdateConfig(patch)
      PROVE  SettingsTypeOK'
  BY <1>1, SettingsAssumption DEF UpdateConfig, MergeUserConfig, SettingsTypeOK
<1>2. ASSUME NEW dto \in CreateLessonDto, NEW created \in BOOLEAN, Book(dto, created)
      PROVE  SettingsTypeOK'
  <2>1. /\ Len(rooms) < MaxBookings /\ UNCHANGED <<column, asked>>
        /\ rooms' = Append(rooms, MeetingFor(ParseUserConfig(column).meeting, created))
    BY <1>2 DEF Book
  <2>2. Len(rooms) \in Nat /\ Len(rooms') = Len(rooms) + 1
    BY <2>1 DEF RoomsInv
  <2>3. Len(rooms') <= MaxBookings
    BY <2>1, <2>2, SettingsAssumption
  <2> QED BY <2>1, <2>3 DEF SettingsTypeOK
<1>3. CASE UNCHANGED settingsVars
  BY <1>3 DEF settingsVars, SettingsTypeOK
<1> QED BY <1>1, <1>2, <1>3 DEF SettingsNext

\* Only the topic of settings touches them.
LEMMA SettingsApart ==
  ASSUME [Next]_vars
  PROVE  SettingsNext \/ UNCHANGED settingsVars
BY DEF Next, InOffice, Mark, Remark, Reader, School, InSettings, AtBoot, AtTheDoor, vars, apartVars

\* The inductive invariant of a tutor's settings.
THEOREM SettingsInvariant == Spec => [](SettingsInv /\ RoomsInv /\ SettingsTypeOK)
<1>1. Init => SettingsInv /\ RoomsInv
  BY SettingsInvInit
<1>2. Init => SettingsTypeOK
  <2> SUFFICES ASSUME Init PROVE SettingsTypeOK
    OBVIOUS
  <2>1. found \in Columns \cup {<<>>} /\ column = found /\ asked = <<>> /\ Len(rooms) = 0
    BY DEF Init, SettingsInit, For
  <2>2. DOMAIN found \subseteq Preferences /\ DOMAIN asked = {}
    BY <2>1, SettingsAssumption
  <2> QED BY <2>1, <2>2, SettingsAssumption DEF SettingsTypeOK
<1>3. SettingsInv /\ RoomsInv /\ SettingsTypeOK /\ [Next]_vars =>
        SettingsInv' /\ RoomsInv' /\ SettingsTypeOK'
  BY SettingsApart, SettingsInvNext, SettingsStayTyped
<1> QED BY <1>1, <1>2, <1>3, PTL DEF Spec

\* A setting reads as it was last saved, whatever the column held (MergeUserConfig).
THEOREM SettingsRead == Spec => []SettingsHold
BY SettingsInvariant, SettingsSafe, PTL

\* A lesson's link leads to its provider, also out of an old column
\* (MeetingRoomProblem, LessonsService.meetingFor).
THEOREM LinksLeadToProvider == Spec => []LinksStayOnProvider
BY SettingsInvariant, RoomsSafe, PTL

-----------------------------------------------------------------------------
(* Allowances.  A window that does not block has hits for every served call  *)
(* of its ttl, so it cannot serve more than it allows; one that blocks was   *)
(* filled by calls of the same caller, and served none of them later.        *)

Calls == [caller : Callers, route : Routes, at : Nat, served : BOOLEAN]

Entry == [hits : SUBSET Nat, until : Nat, blocked : BOOLEAN]

\* The calls that a tracker's hits on a route come from.
CallsOf(t, route) ==
  {j \in 1 .. Len(calls) : GetTracker(calls[j].caller) = t /\ calls[j].route = route}

ServedNow(t, route, ttl) ==
  {j \in CallsOf(t, route) : calls[j].served /\ calls[j].at + ttl > clock}

\* What the store knows under one key, of a window of this limit and ttl.
EntryFits(e, t, route, limit, ttl) ==
  /\ e.hits \subseteq CallsOf(t, route)
  /\ ~e.blocked => Cardinality(e.hits) <= limit /\ ServedNow(t, route, ttl) \subseteq e.hits
  /\ e.blocked =>
       /\ \E b \in CallsOf(t, route) :
            e.until = calls[b].at + ttl /\ Cardinality(Since(b, ttl)) > limit
       /\ \A j \in CallsOf(t, route) : calls[j].served => calls[j].at + ttl <= e.until
  /\ Cardinality(ServedNow(t, route, ttl)) <= limit

KeyFits(t, r, w) ==
  EntryFits(store[<<t, r, w>>], t, r, LimitsOf(r)[w].limit, LimitsOf(r)[w].ttl)

StoreFits == \A t \in Trackers, r \in Routes, w \in Windows : KeyFits(t, r, w)

CallsFit ==
  /\ clock \in 0 .. MaxClock
  /\ calls \in Seq(Calls) /\ Len(calls) <= MaxCalls
  /\ \A j \in 1 .. Len(calls) : calls[j].at <= clock
  /\ store \in [Trackers \X Routes \X Windows -> Entry]

CallersInv == CallsFit /\ StoreFits /\ OwnAllowance

LEMMA LimitsFit ==
  ASSUME NEW route \in Routes, NEW w \in Windows
  PROVE  LimitsOf(route)[w] \in [limit : Nat \ {0}, ttl : Nat \ {0}]
BY CallersAssumption DEF LimitsOf

\* Callers are told apart as the guard tells them apart.
LEMMA TrackedAlike ==
  ASSUME NEW c \in Callers, NEW d \in Callers
  PROVE  /\ SameCaller(c, d) <=> GetTracker(c) = GetTracker(d)
         /\ GetTracker(c) \in Trackers
<1>1. ASSUME NEW x \in Callers
      PROVE  /\ x.token = "valid" => x.account \in Users /\ GetTracker(x) = <<"user", x.account>>
             /\ x.token # "valid" => GetTracker(x) = <<"ip", x.address>>
             /\ x.address \in Addresses
  BY CallersAssumption DEF Callers, GetTracker, AccountFrom
<1> QED BY <1>1 DEF SameCaller, Trackers

LEMMA CallsAreFinite ==
  ASSUME CallsFit, NEW t, NEW route, NEW S \in SUBSET CallsOf(t, route)
  PROVE  IsFiniteSet(S) /\ Cardinality(S) \in Nat
<1>1. Len(calls) \in Nat /\ IsFiniteSet(1 .. Len(calls))
  BY FS_Interval DEF CallsFit
<1>2. S \subseteq 1 .. Len(calls)
  BY DEF CallsOf
<1> QED BY <1>1, <1>2, FS_Subset, FS_CardinalityType

\* One more call leaves the earlier ones as they were.
LEMMA CallsGrow ==
  ASSUME CallsFit, NEW call \in Calls, call.at = clock, calls' = Append(calls, call)
  PROVE  /\ Len(calls) \in Nat /\ Len(calls') = Len(calls) + 1 /\ calls' \in Seq(Calls)
         /\ \A j \in 1 .. Len(calls) : calls'[j] = calls[j] /\ calls[j] \in Calls
         /\ calls'[Len(calls) + 1] = call
         /\ \A b \in 1 .. Len(calls), ttl \in Nat : Since(b, ttl)' = Since(b, ttl)
         /\ \A t, route : CallsOf(t, route)' =
              CallsOf(t, route) \cup (IF GetTracker(call.caller) = t /\ call.route = route
                                      THEN {Len(calls) + 1} ELSE {})
<1>1. /\ Len(calls) \in Nat /\ Len(calls') = Len(calls) + 1 /\ calls' \in Seq(Calls)
      /\ \A j \in 1 .. Len(calls) : calls'[j] = calls[j] /\ calls[j] \in Calls
      /\ calls'[Len(calls) + 1] = call
  BY DEF CallsFit
<1>2. ASSUME NEW b \in 1 .. Len(calls), NEW ttl \in Nat
      PROVE  Since(b, ttl)' = Since(b, ttl)
  <2>1. \A j \in 1 .. b : j \in 1 .. Len(calls)
    BY <1>1
  <2> QED BY <1>1, <2>1 DEF Since
<1>3. ASSUME NEW t, NEW route
      PROVE  CallsOf(t, route)' =
               CallsOf(t, route) \cup (IF GetTracker(call.caller) = t /\ call.route = route
                                       THEN {Len(calls) + 1} ELSE {})
  <2>1. 1 .. Len(calls') = 1 .. Len(calls) \cup {Len(calls) + 1} /\ Len(calls) + 1 \notin 1 .. Len(calls)
    BY <1>1
  <2> QED BY <1>1, <2>1 DEF CallsOf
<1> QED BY <1>1, <1>2, <1>3

\* A call under another key, or one that is refused, leaves an entry as it was.
LEMMA StandsStill ==
  ASSUME CallsFit, NEW call \in Calls, call.at = clock, calls' = Append(calls, call), UNCHANGED clock,
         NEW e \in Entry, NEW t, NEW route, NEW limit \in Nat, NEW ttl \in Nat,
         EntryFits(e, t, route, limit, ttl),
         ~call.served \/ GetTracker(call.caller) # t \/ call.route # route
  PROVE  EntryFits(e, t, route, limit, ttl)'
<1>1. /\ CallsOf(t, route) \subseteq 1 .. Len(calls)
      /\ CallsOf(t, route) \subseteq CallsOf(t, route)'
      /\ \A j \in CallsOf(t, route) : calls'[j] = calls[j]
      /\ \A j \in CallsOf(t, route)' : j \in CallsOf(t, route) \/ ~calls'[j].served
      /\ \A b \in CallsOf(t, route) : Since(b, ttl)' = Since(b, ttl)
  BY CallsGrow DEF CallsOf
<1>2. ServedNow(t, route, ttl)' = ServedNow(t, route, ttl)
  BY <1>1 DEF ServedNow
<1> QED BY <1>1, <1>2 DEF EntryFits

\* A hit that does not block leaves room for every call it serves.
LEMMA HitFits ==
  ASSUME CallsFit, NEW call \in Calls, call.at = clock, calls' = Append(calls, call), UNCHANGED clock,
         NEW e \in Entry, NEW t, NEW route,
         NEW limit \in Nat \ {0}, NEW ttl \in Nat \ {0}, NEW hit,
         hit = Increment(e, [limit |-> limit, ttl |-> ttl]),
         EntryFits(e, t, route, limit, ttl),
         GetTracker(call.caller) = t, call.route = route, call.served => ~hit.blocked
  PROVE  EntryFits(hit, t, route, limit, ttl)' /\ (hit.blocked => hit.until > clock)
<1>0. PICK this \in Nat : this = Len(calls) + 1
  BY DEF CallsFit
<1> DEFINE hits == Live(e.hits, ttl) \cup {this}
           old == CallsOf(t, route)
           served == ServedNow(t, route, ttl)'
<1>1. /\ CallsOf(t, route)' = old \cup {this} /\ calls'[this] = call /\ this \notin old
      /\ \A j \in old : /\ calls'[j] = calls[j] /\ calls[j].at \in Nat /\ calls[j].at <= clock
                        /\ j \in 1 .. Len(calls)
      /\ \A b \in old : Since(b, ttl)' = Since(b, ttl)
  BY <1>0, CallsGrow DEF CallsOf, CallsFit, Calls
<1>2. clock \in Nat /\ e.until \in Nat /\ e.blocked \in BOOLEAN /\ this \in Nat /\ clock' = clock
  BY DEF CallsFit, Entry
<1>3. \A S \in SUBSET (old \cup {this}) : IsFiniteSet(S) /\ Cardinality(S) \in Nat
  <2>1. IsFiniteSet(old)
    BY CallsAreFinite
  <2>2. IsFiniteSet(old \cup {this})
    BY <2>1, FS_AddElement
  <2> HIDE DEF old
  <2> QED BY <2>2, FS_Subset, FS_CardinalityType
<1>4. CASE e.blocked /\ e.until > clock
  <2>1. hit = e
    BY <1>4 DEF Increment
  <2> QED BY <1>4, <2>1, StandsStill
<1>5. CASE e.blocked /\ ~(e.until > clock)
  <2>1. hit = [hits |-> {this}, until |-> 0, blocked |-> FALSE]
    BY <1>0, <1>5 DEF Increment
  <2>2. \A j \in old : calls[j].served => ~(calls[j].at + ttl > clock)
    <3>1. \A j \in old : calls[j].served => calls[j].at + ttl <= e.until
      BY <1>5 DEF EntryFits
    <3>2. ~(e.until > clock)
      BY <1>5
    <3> HIDE DEF old
    <3> QED BY <1>1, <1>2, <3>1, <3>2
  <2>3. served \subseteq {this}
    BY <1>1, <1>2, <2>2 DEF ServedNow
  <2>4. Cardinality({this}) = 1 /\ Cardinality(served) <= 1
    <3>1. Cardinality({this}) = 1 /\ IsFiniteSet({this})
      BY FS_Singleton
    <3> HIDE DEF served
    <3> QED BY <2>3, <3>1, FS_Subset
  <2>5. Cardinality(served) <= limit /\ Cardinality({this}) <= limit
    <3>1. Cardinality(served) \in Nat
      BY <1>3, <2>3
    <3> QED BY <2>4, <3>1
  <2>6. hit.hits = {this} /\ ~hit.blocked /\ {this} \subseteq CallsOf(t, route)'
    BY <1>1, <2>1
  <2> QED BY <2>3, <2>5, <2>6 DEF EntryFits
<1>6. CASE ~e.blocked /\ Cardinality(hits) > limit
  <2>1. hit = [hits |-> hits, until |-> clock + ttl, blocked |-> TRUE]
    BY <1>0, <1>6 DEF Increment
  <2>2. served = ServedNow(t, route, ttl)
    <3>1. ~call.served
      BY <2>1
    <3> QED BY <1>1, <1>2, <3>1 DEF ServedNow
  <2>3. hits \subseteq CallsOf(t, route)'
    BY <1>1 DEF EntryFits, Live
  <2>4. hits \subseteq Since(this, ttl)'
    <3>1. ASSUME NEW j \in hits
          PROVE  /\ j \in 1 .. this /\ calls'[j].caller \in Callers
                 /\ GetTracker(calls'[j].caller) = t /\ calls'[j].route = route
                 /\ calls'[j].at > clock - ttl
      <4>1. CASE j = this
        <5>1. call.at \in Nat /\ call.at = clock /\ call.caller \in Callers
          BY DEF Calls
        <5>2. call.at > clock - ttl
          BY <1>2, <5>1
        <5>3. this \in 1 .. this
          BY <1>0
        <5> QED BY <1>1, <4>1, <5>1, <5>2, <5>3
      <4>2. CASE j \in Live(e.hits, ttl)
        <5>1. j \in old /\ calls[j].at + ttl > clock
          BY <4>2 DEF EntryFits, Live
        <5>2. calls[j].caller \in Callers
          BY <1>1, <5>1, CallsGrow DEF Calls
        <5>3. calls[j].at > clock - ttl /\ j \in 1 .. this
          BY <1>0, <1>1, <1>2, <5>1
        <5> QED BY <1>1, <5>1, <5>2, <5>3 DEF CallsOf
      <4> QED BY <4>1, <4>2
    <3>2. \A j \in hits : SameCaller(calls'[j].caller, calls'[this].caller)
      BY <1>1, <3>1, TrackedAlike DEF Calls
    <3> QED BY <1>1, <3>1, <3>2 DEF Since
  <2>5. Cardinality(Since(this, ttl)') > limit
    <3>1. Since(this, ttl)' \subseteq 1 .. this /\ IsFiniteSet(1 .. this)
      <4>1. IsFiniteSet(1 .. this)
        BY <1>0, FS_Interval
      <4>2. Since(this, ttl)' \subseteq 1 .. this
        BY DEF Since
      <4> QED BY <4>1, <4>2
    <3>2. /\ Cardinality(hits) <= Cardinality(Since(this, ttl)')
          /\ Cardinality(hits) \in Nat /\ Cardinality(Since(this, ttl)') \in Nat
      BY <2>4, <3>1, FS_Subset, FS_CardinalityType
    <3> QED BY <1>6, <3>2
  <2>6. hit.until = calls'[this].at + ttl
    BY <1>1, <2>1
  <2>7. \A j \in CallsOf(t, route)' : calls'[j].served => calls'[j].at + ttl <= hit.until
    <3>1. hit.until = clock + ttl
      BY <2>1
    <3>2. \A j \in old : calls[j].at + ttl <= clock + ttl
      BY <1>1, <1>2
    <3>3. calls'[this].at + ttl <= clock + ttl
      BY <1>1, <1>2
    <3>4. \A j \in CallsOf(t, route)' : (j \in old /\ calls'[j] = calls[j]) \/ j = this
      BY <1>1
    <3> HIDE DEF old
    <3>5. \A j \in CallsOf(t, route)' : calls'[j].at + ttl <= clock + ttl
      BY <3>2, <3>3, <3>4
    <3> QED BY <3>1, <3>5
  <2>8. Cardinality(served) <= limit
    BY <2>2 DEF EntryFits
  <2>9. \E b \in CallsOf(t, route)' :
           hit.until = calls'[b].at + ttl /\ Cardinality(Since(b, ttl)') > limit
    BY <1>1, <2>5, <2>6
  <2>10. hit.hits = hits /\ hit.blocked /\ hit.until > clock
    BY <1>2, <2>1
  <2> HIDE DEF hits, served
  <2> QED BY <2>3, <2>7, <2>8, <2>9, <2>10 DEF EntryFits, served
<1>7. CASE ~e.blocked /\ ~(Cardinality(hits) > limit)
  <2>1. hit = [hits |-> hits, until |-> 0, blocked |-> FALSE]
    BY <1>0, <1>7 DEF Increment
  <2>2. hits \subseteq CallsOf(t, route)'
    BY <1>1 DEF EntryFits, Live
  <2>3. served \subseteq hits
    BY <1>1, <1>2, <1>7 DEF ServedNow, EntryFits, Live
  <2>4. Cardinality(hits) <= limit /\ Cardinality(served) <= limit
    <3>1. Cardinality(hits) \in Nat /\ Cardinality(served) \in Nat /\ Cardinality(served) <= Cardinality(hits)
      BY <1>1, <1>3, <2>2, <2>3, FS_Subset
    <3> QED BY <1>7, <3>1
  <2> HIDE DEF hits
  <2> QED BY <2>1, <2>2, <2>3, <2>4 DEF EntryFits
<1> QED BY <1>2, <1>4, <1>5, <1>6, <1>7

\* What a call comes to, its parts named.
Recorded(c, route, tracker, short, long, call) ==
  /\ tracker = GetTracker(c) /\ GetTracker(call.caller) = tracker
  /\ call.caller = c /\ call.route = route /\ call.at = clock
  /\ call.served <=> ~short.blocked /\ ~long.blocked
  /\ short = Increment(store[<<tracker, route, "short">>], LimitsOf(route)["short"])
  /\ long = Increment(store[<<tracker, route, "long">>], LimitsOf(route)["long"])
  /\ calls' = Append(calls, call) /\ Len(calls) < MaxCalls /\ UNCHANGED clock
  /\ store' = [store EXCEPT ![<<tracker, route, "short">>] = short,
                 ![<<tracker, route, "long">>] = IF short.blocked THEN @ ELSE long]

\* What Call leaves under the keys it looked at: a hit in the short window, and in
\* the long one unless the short one refuses.
LEMMA CallUnfolds ==
  ASSUME CallsFit, NEW c \in Calling, NEW route \in Routes, Call(c, route)
  PROVE  \E tracker \in Trackers, short \in Entry, long \in Entry, call \in Calls :
           Recorded(c, route, tracker, short, long, call)
<1> DEFINE tracker == GetTracker(c)
           Hit(w) == Increment(store[<<tracker, route, w>>], LimitsOf(route)[w])
           call == [caller |-> c, route |-> route, at |-> clock,
                    served |-> ~Hit("short").blocked /\ ~Hit("long").blocked]
<1>1. c \in Callers /\ tracker \in Trackers
  BY CallersAssumption, TrackedAlike
<1>2. ASSUME NEW w \in Windows
      PROVE  Hit(w) \in Entry
  <2>1. store[<<tracker, route, w>>] \in Entry
    BY <1>1 DEF CallsFit
  <2>2. PICK limit \in Nat, ttl \in Nat : LimitsOf(route)[w] = [limit |-> limit, ttl |-> ttl]
    BY LimitsFit
  <2>3. /\ Len(calls) + 1 \in Nat /\ clock + ttl \in Nat
        /\ Live(store[<<tracker, route, w>>].hits, ttl) \subseteq Nat
    <3>1. Len(calls) + 1 \in Nat
      BY DEF CallsFit
    <3>2. clock + ttl \in Nat
      BY DEF CallsFit
    <3>3. Live(store[<<tracker, route, w>>].hits, ttl) \subseteq Nat
      BY <2>1 DEF Live, Entry
    <3> QED BY <3>1, <3>2, <3>3
  <2> HIDE DEF tracker
  <2> QED BY <2>1, <2>2, <2>3 DEF Increment, Entry
<1>3. Hit("short") \in Entry /\ Hit("long") \in Entry
  BY <1>2 DEF Windows
<1>4. call \in Calls
  BY <1>1 DEF Calls, CallsFit
<1>5. /\ calls' = Append(calls, call) /\ Len(calls) < MaxCalls /\ UNCHANGED clock
      /\ store' = [store EXCEPT ![<<tracker, route, "short">>] = Hit("short"),
                     ![<<tracker, route, "long">>] = IF Hit("short").blocked THEN @ ELSE Hit("long")]
  BY DEF Call
<1>6. /\ call.caller = c /\ call.route = route /\ call.at = clock
      /\ call.served <=> ~Hit("short").blocked /\ ~Hit("long").blocked
  OBVIOUS
<1>7. /\ tracker = GetTracker(c) /\ GetTracker(call.caller) = tracker
      /\ Hit("short") = Increment(store[<<tracker, route, "short">>], LimitsOf(route)["short"])
      /\ Hit("long") = Increment(store[<<tracker, route, "long">>], LimitsOf(route)["long"])
  BY <1>6
<1>8. Recorded(c, route, tracker, Hit("short"), Hit("long"), call)
  <2> HIDE DEF call, Hit, tracker
  <2> QED BY <1>5, <1>6, <1>7 DEF Recorded
<1> HIDE DEF call, Hit, tracker
<1> QED BY <1>1, <1>3, <1>4, <1>8

LEMMA CallFits ==
  ASSUME CallsFit, StoreFits, NEW c, NEW route \in Routes, NEW tracker \in Trackers,
         NEW short \in Entry, NEW long \in Entry, NEW call \in Calls,
         Recorded(c, route, tracker, short, long, call)
  PROVE  /\ CallsFit' /\ StoreFits'
         /\ ~call.served => \E w \in Windows :
              /\ store'[<<tracker, route, w>>].blocked
              /\ store'[<<tracker, route, w>>].until > clock
<1> USE DEF Recorded
<1>1. /\ <<tracker, route, "short">> \in DOMAIN store /\ <<tracker, route, "long">> \in DOMAIN store
      /\ store \in [Trackers \X Routes \X Windows -> Entry]
  BY DEF CallsFit, Windows
<1>2. /\ store'[<<tracker, route, "short">>] = short
      /\ store'[<<tracker, route, "long">>] =
           IF short.blocked THEN store[<<tracker, route, "long">>] ELSE long
      /\ \A key \in DOMAIN store :
           key # <<tracker, route, "short">> /\ key # <<tracker, route, "long">>
             => store'[key] = store[key]
      /\ store' \in [Trackers \X Routes \X Windows -> Entry]
  BY <1>1
<1>3. CallsFit'
  <2>1. calls' \in Seq(Calls) /\ Len(calls') <= MaxCalls
    BY CallsGrow, CallersAssumption DEF CallsFit
  <2>2. \A j \in 1 .. Len(calls') : calls'[j].at <= clock'
    BY CallsGrow DEF CallsFit
  <2>3. clock' \in 0 .. MaxClock
    BY DEF CallsFit
  <2> QED BY <1>2, <2>1, <2>2, <2>3 DEF CallsFit
<1>4. ASSUME NEW w \in Windows, NEW hit,
             hit = Increment(store[<<tracker, route, w>>], LimitsOf(route)[w]),
             call.served => ~hit.blocked
      PROVE  /\ EntryFits(hit, tracker, route, LimitsOf(route)[w].limit, LimitsOf(route)[w].ttl)'
             /\ hit.blocked => hit.until > clock
  <2>1. PICK limit \in Nat \ {0}, ttl \in Nat \ {0} : LimitsOf(route)[w] = [limit |-> limit, ttl |-> ttl]
    BY LimitsFit
  <2>2. PICK e \in Entry : e = store[<<tracker, route, w>>]
    BY <1>1
  <2>3. EntryFits(e, tracker, route, limit, ttl)
    BY <2>1, <2>2 DEF StoreFits, KeyFits
  <2>4. hit = Increment(e, [limit |-> limit, ttl |-> ttl])
    BY <1>4, <2>1, <2>2
  <2>5. EntryFits(hit, tracker, route, limit, ttl)' /\ (hit.blocked => hit.until > clock)
    BY <1>4, <2>3, <2>4, HitFits
  <2> QED BY <2>1, <2>5
<1>5. /\ EntryFits(short, tracker, route, LimitsOf(route)["short"].limit, LimitsOf(route)["short"].ttl)'
      /\ EntryFits(long, tracker, route, LimitsOf(route)["long"].limit, LimitsOf(route)["long"].ttl)'
      /\ short.blocked => short.until > clock
      /\ long.blocked => long.until > clock
  BY <1>4 DEF Windows
<1>6. ASSUME NEW t \in Trackers, NEW r \in Routes, NEW w \in Windows,
             ~call.served \/ t # tracker \/ r # route, NEW e, e = store[<<t, r, w>>]
      PROVE  EntryFits(e, t, r, LimitsOf(r)[w].limit, LimitsOf(r)[w].ttl)'
  <2>1. PICK limit \in Nat, ttl \in Nat : LimitsOf(r)[w] = [limit |-> limit, ttl |-> ttl]
    BY LimitsFit
  <2>2. e \in Entry
    BY <1>1, <1>6
  <2>3. EntryFits(e, t, r, limit, ttl)
    BY <1>6, <2>1, <2>2 DEF StoreFits, KeyFits
  <2>4. EntryFits(e, t, r, limit, ttl)'
    BY <1>6, <2>2, <2>3, StandsStill
  <2> QED BY <2>1, <2>4
<1>7. ASSUME NEW t \in Trackers, NEW r \in Routes, NEW w \in Windows, NEW e, e = store'[<<t, r, w>>]
      PROVE  EntryFits(e, t, r, LimitsOf(r)[w].limit, LimitsOf(r)[w].ttl)'
  <2>1. CASE t = tracker /\ r = route /\ w = "short"
    BY <1>2, <1>5, <1>7, <2>1
  <2>2. CASE t = tracker /\ r = route /\ w = "long"
    <3>1. CASE short.blocked
      BY <1>2, <1>6, <1>7, <2>2, <3>1
    <3>2. CASE ~short.blocked
      BY <1>2, <1>5, <1>7, <2>2, <3>2
    <3> QED BY <3>1, <3>2
  <2>3. CASE t # tracker \/ r # route
    <3>1. e = store[<<t, r, w>>]
      BY <1>1, <1>2, <1>7, <2>3
    <3> QED BY <1>6, <2>3, <3>1
  <2> QED BY <2>1, <2>2, <2>3 DEF Windows
<1>8. StoreFits'
  <2>1. ASSUME NEW t \in Trackers, NEW r \in Routes, NEW w \in Windows
        PROVE  KeyFits(t, r, w)'
    <3>1. PICK e : e = store'[<<t, r, w>>]
      OBVIOUS
    <3>2. EntryFits(e, t, r, LimitsOf(r)[w].limit, LimitsOf(r)[w].ttl)'
      BY <1>7, <3>1
    <3> QED BY <3>1, <3>2 DEF KeyFits, EntryFits
  <2> QED BY <2>1 DEF StoreFits
<1>9. ASSUME ~call.served
      PROVE  \E w \in Windows : /\ store'[<<tracker, route, w>>].blocked
                                /\ store'[<<tracker, route, w>>].until > clock
  <2>1. CASE short.blocked
    BY <1>2, <1>5, <2>1 DEF Windows
  <2>2. CASE ~short.blocked
    BY <1>2, <1>5, <1>9, <2>2 DEF Windows
  <2> QED BY <2>1, <2>2
<1> QED BY <1>3, <1>8, <1>9

\* OwnAllowance, call by call.
Spent(i, limit, ttl) == \E b \in Since(i, ttl) : Cardinality(Since(b, ttl)) > limit

WithinLimit(i, limit, ttl) == Cardinality({j \in Since(i, ttl) : calls[j].served}) <= limit

Answered(i, r) ==
  /\ calls[i].served \/ \E v \in Windows : Spent(i, LimitsOf(r)[v].limit, LimitsOf(r)[v].ttl)
  /\ \A w \in Windows : WithinLimit(i, LimitsOf(r)[w].limit, LimitsOf(r)[w].ttl)

AllAnswered == \A i \in 1 .. Len(calls), r \in Routes : calls[i].route = r => Answered(i, r)

LEMMA AllowancesOneByOne ==
  CallsFit => (OwnAllowance <=> AllAnswered)
<1> SUFFICES ASSUME CallsFit PROVE OwnAllowance <=> AllAnswered
  OBVIOUS
<1>1. DOMAIN calls = 1 .. Len(calls) /\ \A i \in 1 .. Len(calls) : calls[i].route \in Routes
  <2>1. calls \in Seq(Calls)
    BY DEF CallsFit
  <2>2. DOMAIN calls = 1 .. Len(calls) /\ \A i \in 1 .. Len(calls) : calls[i] \in Calls
    BY <2>1
  <2> QED BY <2>2 DEF Calls
<1>2. OwnAllowance <=> \A i \in DOMAIN calls : Answered(i, calls[i].route)
  <2>1. ASSUME NEW i \in DOMAIN calls
        PROVE  Answered(i, calls[i].route) <=>
                 \A w \in Windows :
                   LET window == LimitsOf(calls[i].route)[w]
                       spent(v) == \E b \in Since(i, v.ttl) : Cardinality(Since(b, v.ttl)) > v.limit
                   IN
                   /\ calls[i].served \/ \E v \in Windows : spent(LimitsOf(calls[i].route)[v])
                   /\ Cardinality({j \in Since(i, window.ttl) : calls[j].served}) <= window.limit
    BY DEF Answered, Spent, WithinLimit, Windows
  <2> QED BY <2>1 DEF OwnAllowance
<1> QED BY <1>1, <1>2 DEF AllAnswered

\* The answer to a call rests on the calls before it.
LEMMA AnswersStay ==
  ASSUME CallsFit, NEW call \in Calls, call.at = clock, calls' = Append(calls, call),
         NEW i \in 1 .. Len(calls), NEW r \in Routes, Answered(i, r)
  PROVE  Answered(i, r)'
<1>1. calls'[i] = calls[i] /\ i \in Nat /\ i <= Len(calls)
  BY CallsGrow
<1>2. ASSUME NEW w \in Windows, NEW limit \in Nat, NEW ttl \in Nat
      PROVE  /\ Spent(i, limit, ttl)' <=> Spent(i, limit, ttl)
             /\ WithinLimit(i, limit, ttl)' <=> WithinLimit(i, limit, ttl)
  <2>1. Since(i, ttl)' = Since(i, ttl)
    BY CallsGrow
  <2>2. ASSUME NEW j \in Since(i, ttl)
        PROVE  j \in 1 .. Len(calls) /\ calls'[j] = calls[j] /\ Since(j, ttl)' = Since(j, ttl)
    <3>1. j \in 1 .. Len(calls)
      BY <1>1 DEF Since, CallsFit
    <3> QED BY <3>1, CallsGrow
  <2> QED BY <2>1, <2>2 DEF Spent, WithinLimit
<1>3. ASSUME NEW w \in Windows
      PROVE  /\ Spent(i, LimitsOf(r)[w].limit, LimitsOf(r)[w].ttl)
                  => Spent(i, LimitsOf(r)[w].limit, LimitsOf(r)[w].ttl)'
             /\ WithinLimit(i, LimitsOf(r)[w].limit, LimitsOf(r)[w].ttl)
                  => WithinLimit(i, LimitsOf(r)[w].limit, LimitsOf(r)[w].ttl)'
  <2>1. PICK limit \in Nat, ttl \in Nat : LimitsOf(r)[w] = [limit |-> limit, ttl |-> ttl]
    BY LimitsFit
  <2> QED BY <1>2, <2>1
<1> QED BY <1>1, <1>3 DEF Answered

\* A call is refused on the strength of calls its own caller made.
LEMMA RefusedByOwn ==
  ASSUME CallsFit', NEW n, n \in 1 .. Len(calls'), calls'[n].at = clock', NEW route \in Routes, calls'[n].route = route,
         NEW t, t = GetTracker(calls'[n].caller), n = Len(calls'),
         NEW limit \in Nat, NEW ttl \in Nat, NEW e \in Entry, EntryFits(e, t, route, limit, ttl)'
  PROVE  /\ e.blocked /\ e.until > clock' => Spent(n, limit, ttl)'
         /\ WithinLimit(n, limit, ttl)'
<1>1. /\ clock' \in Nat /\ n \in Nat
      /\ \A j \in 1 .. n : calls'[j] \in Calls /\ calls'[j].at \in Nat /\ calls'[j].caller \in Callers
  <2>1. calls' \in Seq(Calls) /\ clock' \in Nat
    BY DEF CallsFit
  <2>2. n \in Nat /\ \A j \in 1 .. n : calls'[j] \in Calls
    BY <2>1
  <2> QED BY <2>1, <2>2 DEF Calls
<1>2. \A j \in 1 .. n : SameCaller(calls'[j].caller, calls'[n].caller) <=> GetTracker(calls'[j].caller) = t
  BY <1>1, TrackedAlike
<1>3. \A j : j \in Since(n, ttl)' <=> j \in CallsOf(t, route)' /\ calls'[j].at + ttl > clock'
  <2>1. \A j \in 1 .. n : calls'[j].at > calls'[n].at - ttl <=> calls'[j].at + ttl > clock'
    BY <1>1
  <2> QED BY <1>2, <2>1 DEF Since, CallsOf
<1>4. ASSUME e.blocked, e.until > clock'
      PROVE  Spent(n, limit, ttl)'
  <2>1. PICK b \in CallsOf(t, route)' : e.until = calls'[b].at + ttl /\ Cardinality(Since(b, ttl)') > limit
    BY <1>4 DEF EntryFits
  <2>2. b \in Since(n, ttl)'
    BY <1>3, <1>4, <2>1
  <2> QED BY <2>1, <2>2 DEF Spent
<1>5. WithinLimit(n, limit, ttl)'
  <2>1. {j \in Since(n, ttl)' : calls'[j].served} = ServedNow(t, route, ttl)'
    BY <1>3 DEF ServedNow
  <2> QED BY <2>1 DEF EntryFits, WithinLimit
<1> QED BY <1>4, <1>5

LEMMA CallKeeps ==
  ASSUME CallsFit, StoreFits, AllAnswered, NEW c \in Calling, NEW path \in Routes, Call(c, path)
  PROVE  CallsFit' /\ StoreFits' /\ AllAnswered'
<1>1. PICK tracker \in Trackers, short \in Entry, long \in Entry, call \in Calls :
        Recorded(c, path, tracker, short, long, call)
  BY CallUnfolds
<1>2. /\ CallsFit' /\ StoreFits'
      /\ ~call.served => \E w \in Windows : /\ store'[<<tracker, path, w>>].blocked
                                            /\ store'[<<tracker, path, w>>].until > clock
  <2>1. ~call.served => \E w \in Windows : /\ store'[<<tracker, path, w>>].blocked
                                            /\ store'[<<tracker, path, w>>].until > clock
    BY <1>1, CallFits
  <2>2. CallsFit' /\ StoreFits'
    BY <1>1, CallFits
  <2> QED BY <2>1, <2>2
<1> USE DEF Recorded
<1>3. PICK n : n = Len(calls')
  OBVIOUS
<1>4. /\ n = Len(calls) + 1 /\ n \in 1 .. Len(calls') /\ calls'[n] = call
      /\ 1 .. Len(calls') = 1 .. Len(calls) \cup {n}
      /\ \A i \in 1 .. Len(calls) : calls'[i] = calls[i]
  BY <1>1, <1>3, CallsGrow
<1>5. ASSUME NEW w \in Windows, NEW limit, NEW ttl, limit = LimitsOf(path)[w].limit, ttl = LimitsOf(path)[w].ttl
      PROVE  /\ store'[<<tracker, path, w>>].blocked /\ store'[<<tracker, path, w>>].until > clock
                  => Spent(n, limit, ttl)'
             /\ WithinLimit(n, limit, ttl)'
  <2>1. limit \in Nat /\ ttl \in Nat
    BY <1>5, LimitsFit
  <2>2. PICK e \in Entry : e = store'[<<tracker, path, w>>]
    BY <1>2 DEF CallsFit
  <2>3. EntryFits(e, tracker, path, limit, ttl)'
    <3>1. KeyFits(tracker, path, w)'
      BY <1>2 DEF StoreFits
    <3> QED BY <1>5, <2>2, <3>1 DEF KeyFits, EntryFits
  <2>4. calls'[n].at = clock' /\ calls'[n].route = path /\ tracker = GetTracker(calls'[n].caller)
    BY <1>1, <1>4
  <2>5. (e.blocked /\ e.until > clock' => Spent(n, limit, ttl)') /\ WithinLimit(n, limit, ttl)'
    BY <1>2, <1>3, <1>4, <2>1, <2>3, <2>4, RefusedByOwn
  <2> QED BY <1>1, <2>2, <2>5
<1>6. Answered(n, path)'
  <2>1. ASSUME NEW w \in Windows
        PROVE  /\ store'[<<tracker, path, w>>].blocked /\ store'[<<tracker, path, w>>].until > clock
                    => Spent(n, LimitsOf(path)[w].limit, LimitsOf(path)[w].ttl)'
               /\ WithinLimit(n, LimitsOf(path)[w].limit, LimitsOf(path)[w].ttl)'
    <3>1. PICK limit, ttl : limit = LimitsOf(path)[w].limit /\ ttl = LimitsOf(path)[w].ttl
      OBVIOUS
    <3> QED BY <1>5, <3>1
  <2> QED BY <1>2, <1>4, <2>1 DEF Answered
<1>7. ASSUME NEW i \in 1 .. Len(calls'), NEW r \in Routes, calls'[i].route = r
      PROVE  Answered(i, r)'
  <2>1. CASE i = n
    BY <1>1, <1>4, <1>6, <1>7, <2>1
  <2>2. CASE i \in 1 .. Len(calls)
    <3>1. Answered(i, r)
      BY <1>4, <1>7, <2>2 DEF AllAnswered
    <3> QED BY <1>1, <2>2, <3>1, AnswersStay
  <2> QED BY <1>4, <2>1, <2>2
<1> QED BY <1>2, <1>7 DEF AllAnswered

LEMMA AllowancesStay ==
  ASSUME CallsFit, CallsFit', OwnAllowance, UNCHANGED calls
  PROVE  OwnAllowance'
<1>1. ASSUME NEW i, NEW limit, NEW ttl
      PROVE  /\ Spent(i, limit, ttl)' <=> Spent(i, limit, ttl)
             /\ WithinLimit(i, limit, ttl)' <=> WithinLimit(i, limit, ttl)
  <2>1. \A b : Since(b, ttl)' = Since(b, ttl)
    BY DEF Since
  <2>2. {j \in Since(i, ttl)' : calls'[j].served} = {j \in Since(i, ttl) : calls[j].served}
    BY <2>1
  <2> QED BY <2>1, <2>2 DEF Spent, WithinLimit
<1>2. ASSUME NEW i \in 1 .. Len(calls), NEW r \in Routes, Answered(i, r)
      PROVE  Answered(i, r)'
  <2>1. ASSUME NEW w \in Windows
        PROVE  /\ Spent(i, LimitsOf(r)[w].limit, LimitsOf(r)[w].ttl)
                    => Spent(i, LimitsOf(r)[w].limit, LimitsOf(r)[w].ttl)'
               /\ WithinLimit(i, LimitsOf(r)[w].limit, LimitsOf(r)[w].ttl)
                    => WithinLimit(i, LimitsOf(r)[w].limit, LimitsOf(r)[w].ttl)'
    <3>1. PICK limit, ttl : limit = LimitsOf(r)[w].limit /\ ttl = LimitsOf(r)[w].ttl
      OBVIOUS
    <3> QED BY <1>1, <3>1
  <2> QED BY <1>2, <2>1 DEF Answered
<1>3. AllAnswered'
  <2>1. AllAnswered
    BY AllowancesOneByOne
  <2> QED BY <1>2, <2>1 DEF AllAnswered
<1>4. CallsFit' => (OwnAllowance' <=> AllAnswered')
  BY AllowancesOneByOne, PTL
<1> QED BY <1>3, <1>4

\* As time passes, fewer calls count.
LEMMA TickKeeps ==
  ASSUME CallsFit, StoreFits, OwnAllowance, Tick
  PROVE  CallsFit' /\ StoreFits' /\ OwnAllowance'
<1>1. clock \in Nat /\ clock' = clock + 1 /\ clock' \in 0 .. MaxClock /\ UNCHANGED <<store, calls>>
  BY CallersAssumption DEF Tick, CallsFit
<1>2. CallsFit'
  <2>1. \A j \in 1 .. Len(calls') : calls'[j].at <= clock'
    <3>1. \A j \in 1 .. Len(calls) : calls[j].at \in Nat /\ calls[j].at <= clock
      <4>1. calls \in Seq(Calls) /\ \A j \in 1 .. Len(calls) : calls[j].at <= clock
        BY DEF CallsFit
      <4>2. \A j \in 1 .. Len(calls) : calls[j] \in Calls
        BY <4>1
      <4> QED BY <4>1, <4>2 DEF Calls
    <3> QED BY <1>1, <3>1
  <2> QED BY <1>1, <2>1 DEF CallsFit
<1>3. ASSUME NEW t \in Trackers, NEW r \in Routes, NEW w \in Windows
      PROVE  KeyFits(t, r, w)'
  <2>1. PICK limit \in Nat, ttl \in Nat : LimitsOf(r)[w] = [limit |-> limit, ttl |-> ttl]
    BY LimitsFit
  <2>2. PICK e : e = store[<<t, r, w>>]
    OBVIOUS
  <2>3. EntryFits(e, t, r, limit, ttl)
    BY <2>1, <2>2 DEF StoreFits, KeyFits
  <2>4. CallsOf(t, r)' = CallsOf(t, r) /\ \A b : Since(b, ttl)' = Since(b, ttl)
    BY <1>1 DEF CallsOf, Since
  <2>5. ServedNow(t, r, ttl)' \subseteq ServedNow(t, r, ttl)
    <3>1. \A j \in CallsOf(t, r) : calls[j].at \in Nat
      <4>1. calls \in Seq(Calls)
        BY DEF CallsFit
      <4>2. \A j \in 1 .. Len(calls) : calls[j] \in Calls
        BY <4>1
      <4> QED BY <4>2 DEF CallsOf, Calls
    <3>2. \A j \in CallsOf(t, r) : calls[j].at + ttl > clock' => calls[j].at + ttl > clock
      BY <1>1, <3>1
    <3> QED BY <1>1, <2>4, <3>2 DEF ServedNow
  <2>6. Cardinality(ServedNow(t, r, ttl)') <= limit
    <3>1. ServedNow(t, r, ttl) \subseteq CallsOf(t, r) /\ ServedNow(t, r, ttl)' \subseteq CallsOf(t, r)
      BY <2>5 DEF ServedNow
    <3>2. /\ IsFiniteSet(ServedNow(t, r, ttl)) /\ Cardinality(ServedNow(t, r, ttl)) \in Nat
          /\ Cardinality(ServedNow(t, r, ttl)') \in Nat
      BY <3>1, CallsAreFinite
    <3>3. Cardinality(ServedNow(t, r, ttl)') <= Cardinality(ServedNow(t, r, ttl))
      BY <2>5, <3>2, FS_Subset
    <3>4. Cardinality(ServedNow(t, r, ttl)) <= limit
      BY <2>3 DEF EntryFits
    <3> QED BY <3>2, <3>3, <3>4
  <2>7. EntryFits(e, t, r, limit, ttl)'
    BY <1>1, <2>3, <2>4, <2>5, <2>6 DEF EntryFits
  <2> QED BY <1>1, <2>1, <2>2, <2>7 DEF KeyFits, EntryFits
<1>4. StoreFits'
  BY <1>3 DEF StoreFits
<1>5. OwnAllowance'
  BY <1>1, <1>2, AllowancesStay
<1> QED BY <1>2, <1>4, <1>5

LEMMA CallersInvInit ==
  ASSUME CallersInit
  PROVE  CallersInv
<1>1. /\ clock = 0 /\ calls = <<>> /\ Len(calls) = 0
      /\ store = [key \in Trackers \X Routes \X Windows |-> [hits |-> {}, until |-> 0, blocked |-> FALSE]]
  BY DEF CallersInit
<1>2. CallsFit
  BY <1>1, CallersAssumption DEF CallsFit, Entry
<1>3. ASSUME NEW t \in Trackers, NEW r \in Routes, NEW w \in Windows
      PROVE  KeyFits(t, r, w)
  <2>1. PICK limit \in Nat, ttl \in Nat : LimitsOf(r)[w] = [limit |-> limit, ttl |-> ttl]
    BY LimitsFit
  <2>2. store[<<t, r, w>>] = [hits |-> {}, until |-> 0, blocked |-> FALSE]
    BY <1>1
  <2>3. CallsOf(t, r) = {} /\ ServedNow(t, r, ttl) = {}
    BY <1>1 DEF CallsOf, ServedNow
  <2>4. Cardinality({}) = 0
    BY FS_EmptySet
  <2> QED BY <2>1, <2>2, <2>3, <2>4 DEF KeyFits, EntryFits
<1>4. OwnAllowance
  BY <1>1 DEF OwnAllowance
<1> QED BY <1>2, <1>3, <1>4 DEF CallersInv, StoreFits

LEMMA CallersInvNext ==
  ASSUME CallersInv, CallersNext \/ UNCHANGED callersVars
  PROVE  CallersInv'
<1>1. CallsFit /\ StoreFits /\ OwnAllowance /\ AllAnswered
  BY AllowancesOneByOne DEF CallersInv
<1>2. ASSUME NEW c \in Calling, NEW path \in Routes, Call(c, path)
      PROVE  CallersInv'
  <2>1. CallsFit' /\ StoreFits' /\ AllAnswered'
    BY <1>1, <1>2, CallKeeps
  <2>2. CallsFit' => (OwnAllowance' <=> AllAnswered')
    BY AllowancesOneByOne, PTL
  <2> QED BY <2>1, <2>2 DEF CallersInv
<1>3. CASE Tick
  BY <1>1, <1>3, TickKeeps DEF CallersInv
<1>4. CASE UNCHANGED callersVars
  <2>1. UNCHANGED <<clock, store, calls>>
    BY <1>4 DEF callersVars
  <2>2. CallsFit'
    BY <1>1, <2>1 DEF CallsFit
  <2>3. OwnAllowance'
    BY <1>1, <2>1, <2>2, AllowancesStay
  <2>4. ASSUME NEW t \in Trackers, NEW r \in Routes, NEW w \in Windows
        PROVE  KeyFits(t, r, w)'
    <3>1. PICK e, limit, ttl :
            e = store[<<t, r, w>>] /\ limit = LimitsOf(r)[w].limit /\ ttl = LimitsOf(r)[w].ttl
      OBVIOUS
    <3>2. EntryFits(e, t, r, limit, ttl)
      BY <1>1, <3>1 DEF StoreFits, KeyFits
    <3>3. CallsOf(t, r)' = CallsOf(t, r) /\ \A b : Since(b, ttl)' = Since(b, ttl)
      BY <2>1 DEF CallsOf, Since
    <3>4. ServedNow(t, r, ttl)' = ServedNow(t, r, ttl)
      BY <2>1, <3>3 DEF ServedNow
    <3>5. EntryFits(e, t, r, limit, ttl)'
      BY <2>1, <3>2, <3>3, <3>4 DEF EntryFits
    <3> QED BY <2>1, <3>1, <3>5 DEF KeyFits, EntryFits
  <2> QED BY <2>2, <2>3, <2>4 DEF CallersInv, StoreFits
<1> QED BY <1>2, <1>3, <1>4 DEF CallersNext

\* The inductive invariant of the throttler: what the store holds under a key, and why.
THEOREM CallersInvariant == Spec => []CallersInv
<1>1. Init => CallersInv
  BY CallersInvInit DEF Init
<1>2. CallersInv /\ [Next]_vars => CallersInv'
  <2> SUFFICES ASSUME [Next]_vars PROVE CallersNext \/ UNCHANGED callersVars
    BY CallersInvNext
  <2> QED BY DEF Next, InOffice, Mark, Remark, Reader, School, InSettings, AtBoot, AtTheDoor, vars, apartVars
<1> QED BY <1>1, <1>2, PTL DEF Spec

\* Nobody is refused for what others sent, and nobody is served beyond their
\* allowance (ThrottlerByCallerGuard.getTracker).
THEOREM AllowancesOwn == Spec => []OwnAllowance
BY CallersInvariant, PTL DEF CallersInv
=============================================================================
