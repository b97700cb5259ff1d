------------------------------- MODULE Members -------------------------------
(***************************************************************************)
(* One tutor's user row as several requests touch it: the sessions that    *)
(* are open (PrismaAuthUserStore), the capabilities an admin grants        *)
(* (AddonsService.setFor) and the tutor's settings (UsersService).         *)
(***************************************************************************)
EXTENDS Requests, Naturals

CONSTANTS
  Addons,  \* the capabilities that can be granted
  Fields   \* the settings

VARIABLES
  version,    \* users.tokenVersion
  issued,     \* the versions that session tokens were issued for
  ended,      \* history: versions in force when a sign-out was carried out
  grants,     \* user_addons
  submitted,  \* history: the grants that may hold, by what was submitted
  config,     \* users.config: which request gave each setting its value
  latest,     \* history: which request last asked for each setting
  shaky,      \* history: settings a merge over an older config may have undone
  crossed     \* history: requests that overlapped another of their kind

memberVars == <<version, issued, ended, grants, submitted, config, latest, shaky, crossed>>
sessionVars == <<version, issued, ended>>
grantVars == <<grants, submitted>>
configVars == <<config, latest, shaky>>

MembersInit(granted) ==
  /\ version = 0
  /\ issued = {0}
  /\ ended = {}
  /\ grants \in granted
  /\ submitted = {grants}
  /\ config = [f \in Fields |-> None]
  /\ latest = config
  /\ shaky = {}
  /\ crossed = {}

-----------------------------------------------------------------------------
(* Sessions.  A token carries the version it was issued for, and the guard   *)
(* compares it with the row.                                                 *)

Authenticated == version \in issued

\* findByEmail, then a password to compare.
SignIn(r) ==
  /\ At(r, "idle")
  /\ Take(r, version, "signing in")
  /\ UNCHANGED memberVars

Issue(r) ==
  /\ At(r, "signing in")
  /\ issued' = issued \cup {input[r]}
  /\ Finish(r)
  /\ UNCHANGED <<version, ended, grantVars, configVars, crossed>>

SignOut(r) ==
  /\ At(r, "idle")
  /\ Authenticated
  /\ Take(r, version, "signing out")
  /\ UNCHANGED memberVars

\* Mutant: writes one more than the version the request was authenticated with.
RevokeByWrite(r) ==
  /\ At(r, "signing out")
  /\ version' = input[r] + 1
  /\ ended' = ended \cup {version}
  /\ Finish(r)
  /\ UNCHANGED <<issued, grantVars, configVars, crossed>>

RevokeSessions(r) ==
  /\ At(r, "signing out")
  /\ version' = version + 1
  /\ ended' = ended \cup {version}
  /\ Finish(r)
  /\ UNCHANGED <<issued, grantVars, configVars, crossed>>

-----------------------------------------------------------------------------
(* Grants.  setFor deletes what is not wanted and inserts what is missing in *)
(* one transaction; the rows it deleted are locked until it commits.         *)

Locked(r) == UNION {input[q].gone : q \in OthersAt(r, "granting")}

DeleteUnwanted(r, want) ==
  /\ At(r, "idle")
  /\ (grants \ want) \cap Locked(r) = {}
  /\ Take(r, [want |-> want, gone |-> grants \ want], "granting")
  /\ crossed' = IF OthersAt(r, "granting") = {} THEN crossed
                ELSE crossed \cup {r} \cup OthersAt(r, "granting")
  /\ UNCHANGED <<sessionVars, grantVars, configVars>>

\* What may hold after r commits: its own set, or a mixture with those it overlapped.
Submit(r) ==
  submitted' = IF r \in crossed THEN submitted \cup {input[r].want} ELSE {input[r].want}

\* Mutant: only adds.
InsertOnly(r) ==
  /\ At(r, "granting")
  /\ input[r].want \cap Locked(r) = {}
  /\ grants' = grants \cup input[r].want
  /\ Submit(r)
  /\ Finish(r)
  /\ UNCHANGED <<sessionVars, configVars, crossed>>

\* Mutant: waits until nobody else is replacing them.
InsertAlone(r) ==
  /\ At(r, "granting")
  /\ OthersAt(r, "granting") = {}
  /\ grants' = (grants \ input[r].gone) \cup input[r].want
  /\ Submit(r)
  /\ Finish(r)
  /\ UNCHANGED <<sessionVars, configVars, crossed>>

\* createMany, skipping duplicates, and the commit.
InsertWanted(r) ==
  /\ At(r, "granting")
  /\ input[r].want \cap Locked(r) = {}
  /\ grants' = (grants \ input[r].gone) \cup input[r].want
  /\ Submit(r)
  /\ Finish(r)
  /\ UNCHANGED <<sessionVars, configVars, crossed>>

\* Two replacements wait for a row the other deleted; the database ends one.
GrantDeadlock(r) ==
  /\ At(r, "granting")
  /\ \E q \in OthersAt(r, "granting") :
       /\ input[r].want \cap input[q].gone # {}
       /\ input[q].want \cap input[r].gone # {}
  /\ Finish(r)
  /\ UNCHANGED memberVars

-----------------------------------------------------------------------------
(* Settings.  The guard has read the row, and the patch is merged over that. *)

PatchConfig(r, fields) ==
  /\ At(r, "idle")
  /\ Authenticated
  /\ fields # {}
  /\ Take(r, [fields |-> fields, seen |-> config], "saving")
  /\ UNCHANGED memberVars

Asked(r) ==
  /\ latest' = [f \in Fields |-> IF f \in input[r].fields THEN r ELSE latest[f]]
  /\ shaky' = (IF r \in crossed THEN Fields ELSE shaky) \ input[r].fields
  /\ crossed' = crossed \cup OthersAt(r, "saving")
  /\ Finish(r)

\* Mutant: a plain spread, which writes every field of the body.
SaveWholeBody(r) ==
  /\ At(r, "saving")
  /\ config' = [f \in Fields |-> IF f \in input[r].fields THEN r ELSE None]
  /\ Asked(r)
  /\ UNCHANGED <<sessionVars, grantVars>>

\* Mutant: the patch is stored as it came.
SavePatchAlone(r) ==
  /\ At(r, "saving")
  /\ config' = [f \in input[r].fields |-> r]
  /\ Asked(r)
  /\ UNCHANGED <<sessionVars, grantVars>>

SaveConfig(r) ==
  /\ At(r, "saving")
  /\ config' = [f \in Fields |-> IF f \in input[r].fields THEN r ELSE input[r].seen[f]]
  /\ Asked(r)
  /\ UNCHANGED <<sessionVars, grantVars>>

-----------------------------------------------------------------------------

MembersContinue(r) ==
  Issue(r) \/ RevokeSessions(r) \/ InsertWanted(r) \/ GrantDeadlock(r) \/ SaveConfig(r)

MembersNext(r) ==
  \/ SignIn(r)
  \/ SignOut(r)
  \/ \E want \in SUBSET Addons : DeleteUnwanted(r, want)
  \/ \E fields \in SUBSET Fields : PatchConfig(r, fields)
  \/ MembersContinue(r)

MembersTypeOK ==
  /\ version \in Nat
  /\ issued \cup ended \subseteq 0 .. version
  /\ grants \in SUBSET Addons
  /\ submitted \in SUBSET SUBSET Addons
  /\ {config, latest} \subseteq [Fields -> Requests \cup {None}]
  /\ shaky \in SUBSET Fields
  /\ crossed \in SUBSET Requests

-----------------------------------------------------------------------------
(* Properties.                                                               *)

\* A token that a sign-out was meant to end is never accepted again, however
\* many sign-outs race: revokeSessions increments and does not write a value.
RevokedStaysRevoked == version \notin ended

\* The member holds exactly the set submitted last, and where replacements
\* overlapped nothing that none of them asked for and all that each of them did.
GrantsAsSubmitted ==
  /\ grants \subseteq UNION submitted
  /\ \A a \in Addons : (\A want \in submitted : a \in want) => a \in grants

\* Every setting holds what was last asked for it, unless a request merged its
\* patch over a config read before another request's write.
SettingsKept == \A f \in Fields \ shaky : config[f] = latest[f]
=============================================================================
