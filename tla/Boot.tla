-------------------------------- MODULE Boot ---------------------------------
(***************************************************************************)
(* Starting the server (env.ts, app-setup.ts) and what its configuration   *)
(* is needed for afterwards: mail, push, storage and connecting a meeting  *)
(* account.  A variable is unset, blank, bad (it does not parse), good, or *)
(* one of the words it chooses between; only groups of variables that are  *)
(* looked at together vary together.                                       *)
(***************************************************************************)
EXTENDS Naturals

CONSTANT Varied  \* the groups of variables that vary together

Choice ==
  [NODE_ENV       |-> {"development", "test", "production"},
   MAIL_TRANSPORT |-> {"log", "resend"},
   PUSH_TRANSPORT |-> {"log", "fcm"},
   STORAGE_DRIVER |-> {"local", "s3"}]

Default ==
  [NODE_ENV |-> "development", MAIL_TRANSPORT |-> "log", PUSH_TRANSPORT |-> "log",
   STORAGE_DRIVER |-> "local"]

Required == {"DATABASE_URL", "JWT_SECRET"}

\* Numbers, addresses and secrets of a least length: a blank one does not parse.
Checked == Required \cup
  {"PORT", "INVITE_TTL_HOURS", "SUPPORT_EMAIL", "PUBLIC_API_URL", "MEETING_TOKEN_SECRET",
   "S3_ENDPOINT", "MAX_UPLOAD_MB", "MAX_SCHOOL_STORAGE_MB"}

RESEND_REQUIRED == {"RESEND_API_KEY", "MAIL_FROM"}

S3_REQUIRED == {"S3_BUCKET", "S3_ACCESS_KEY_ID", "S3_SECRET_ACCESS_KEY"}

MEETING_OAUTH_PAIRS ==
  [ZOOM        |-> {"ZOOM_CLIENT_ID", "ZOOM_CLIENT_SECRET"},
   GOOGLE_MEET |-> {"GOOGLE_CLIENT_ID", "GOOGLE_CLIENT_SECRET"}]

Text == RESEND_REQUIRED \cup S3_REQUIRED \cup MEETING_OAUTH_PAIRS.ZOOM
          \cup MEETING_OAUTH_PAIRS.GOOGLE_MEET \cup {"FCM_SERVICE_ACCOUNT", "CORS_ORIGINS"}

Variables == DOMAIN Choice \cup Checked \cup Text

Written(v) ==
  {"unset", "blank"} \cup
  (IF v \in DOMAIN Choice THEN Choice[v] \cup {"bad"}
   ELSE IF v = "CORS_ORIGINS" THEN {"*", "good"}
   ELSE IF v \in Text \ {"FCM_SERVICE_ACCOUNT"} THEN {"good"}
   ELSE {"bad", "good"})

ASSUME BootAssumption == UNION Varied \subseteq Variables

VARIABLES
  env,      \* what is in the environment
  phase,    \* "starting", "validated", "up" or "refused"
  origins,  \* who may call across origins, once validated: "none", "*" or "good"
  used,     \* what has been used of the running server
  failed    \* history: what was used and did not work

bootVars == <<env, phase, origins, used, failed>>

\* An environment as short as it may be.
Bare == [v \in Variables |-> IF v \in Required THEN "good" ELSE "unset"]

\* What a group is set to, the rest of the environment being bare.
Environments(group) ==
  {[v \in Variables |-> IF v \in group THEN set[v] ELSE Bare[v]] :
     set \in {set \in [group -> UNION {Written(v) : v \in group}] :
                \A v \in group : set[v] \in Written(v)}}

BootInit(envs) ==
  /\ env \in envs
  /\ phase = "starting"
  /\ origins = "none"
  /\ used = {}
  /\ failed = {}

-----------------------------------------------------------------------------
(* Starting.                                                                 *)

\* What ConfigService answers.
Config(v) == IF env[v] = "unset" /\ v \in DOMAIN Default THEN Default[v] ELSE env[v]

\* What JavaScript takes for true.
Given(v) == env[v] \notin {"unset", "blank"}

EnvSchema ==
  \A v \in Variables :
    \/ env[v] = "unset" /\ v \notin Required
    \/ IF v \in DOMAIN Choice THEN env[v] \in Choice[v] ELSE v \in Checked => env[v] = "good"

\* Mutant: asks for the whole set only when none of it is there.
LackingAll(vs) == IF \E v \in vs : Given(v) THEN {} ELSE vs

Lacking(vs) == {v \in vs : ~Given(v)}

Configured == {p \in DOMAIN MEETING_OAUTH_PAIRS : Lacking(MEETING_OAUTH_PAIRS[p]) # MEETING_OAUTH_PAIRS[p]}

\* What is required once something is chosen.
Contract ==
  /\ Config("PUSH_TRANSPORT") = "fcm" => Given("FCM_SERVICE_ACCOUNT")
  /\ Config("MAIL_TRANSPORT") = "resend" => Lacking(RESEND_REQUIRED) = {}
  /\ Config("STORAGE_DRIVER") = "s3" => Lacking(S3_REQUIRED) = {}
  /\ \A p \in Configured : Lacking(MEETING_OAUTH_PAIRS[p]) = {}
  /\ Configured # {} => Lacking({"PUBLIC_API_URL", "MEETING_TOKEN_SECRET"}) = {}

\* Production closes, development opens.
CorsOriginsFor ==
  IF env["CORS_ORIGINS"] = "unset"
  THEN IF Config("NODE_ENV") = "production" THEN "none" ELSE "*"
  ELSE IF env["CORS_ORIGINS"] = "blank" THEN "none" ELSE env["CORS_ORIGINS"]

ValidateEnv ==
  /\ phase = "starting"
  /\ IF EnvSchema /\ Contract
     THEN phase' = "validated" /\ origins' = CorsOriginsFor
     ELSE phase' = "refused" /\ UNCHANGED origins
  /\ UNCHANGED <<env, used, failed>>

ConfigureApp ==
  /\ phase = "validated"
  /\ phase' = IF Config("NODE_ENV") = "production" /\ origins = "*" THEN "refused" ELSE "up"
  /\ UNCHANGED <<env, origins, used, failed>>

-----------------------------------------------------------------------------
(* Running.                                                                  *)

\* A failed delivery is an error; one that is only logged is none.
Deliver == Config("MAIL_TRANSPORT") = "resend" => Lacking(RESEND_REQUIRED) = {}

ParseServiceAccount == env["FCM_SERVICE_ACCOUNT"] = "good"

\* The key is looked into when it is first used, never while starting.
ResolveCredentials ==
  Config("PUSH_TRANSPORT") = "fcm" => Given("FCM_SERVICE_ACCOUNT") /\ ParseServiceAccount

\* Chosen once; the local driver needs a directory, which has a default.
StorageService == Config("STORAGE_DRIVER") = "s3" => Lacking(S3_REQUIRED) = {}

CredentialsFor(p) == Lacking(MEETING_OAUTH_PAIRS[p]) = {}

AvailableProviders == {p \in DOMAIN MEETING_OAUTH_PAIRS : CredentialsFor(p)}

\* Without a secret there is no cipher to store tokens with.
RequireCredentials(p) == CredentialsFor(p) /\ Given("MEETING_TOKEN_SECRET")

\* Somewhere to come back to.
RedirectUri == Given("PUBLIC_API_URL")

AuthorizeUrlFor(p) == RequireCredentials(p) /\ RedirectUri

Features == {"mail", "push", "storage"} \cup AvailableProviders

Serves(feature) ==
  CASE feature = "mail" -> Deliver
    [] feature = "push" -> ResolveCredentials
    [] feature = "storage" -> StorageService
    [] OTHER -> AuthorizeUrlFor(feature)

Use(feature) ==
  /\ phase = "up"
  /\ feature \notin used
  /\ used' = used \cup {feature}
  /\ failed' = IF Serves(feature) THEN failed ELSE failed \cup {feature}
  /\ UNCHANGED <<env, phase, origins>>

BootNext == ValidateEnv \/ ConfigureApp \/ \E feature \in Features : Use(feature)

BootTypeOK ==
  /\ env = [v \in Variables |-> env[v]] /\ \A v \in Variables : env[v] \in Written(v)
  /\ phase \in {"starting", "validated", "up", "refused"}
  /\ origins \in {"none", "*", "good"}

-----------------------------------------------------------------------------
(* Properties.                                                               *)

\* A server that starts lacks nothing it turns out to need: what it was told to
\* send, push or store it can, every provider it offers can be connected, and no
\* deployment is open to every page.  Only a push key that is there and is no key
\* gets past the start.  One that is told nothing but where its database is and
\* its secret does start.
NeverWanting ==
  /\ failed # {} => failed = {"push"} /\ env["FCM_SERVICE_ACCOUNT"] = "bad"
  /\ phase = "up" /\ env["NODE_ENV"] = "production" => origins # "*"
  /\ (\A v \in Variables : v \notin Required => env[v] = "unset") => 
       (phase = "refused" => \E v \in Required : env[v] # "good")
=============================================================================
