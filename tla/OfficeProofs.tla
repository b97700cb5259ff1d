----------------------------- MODULE OfficeProofs -----------------------------
(***************************************************************************)
(* Proofs about the office, for any number of requests, members, phones,   *)
(* subjects, students and lessons: one inductive invariant for each of its *)
(* four parts, and why a step of one part keeps those of the others.       *)
(***************************************************************************)
EXTENDS Office, TLAPS

\* The statements a request of each part may be about to run.
AtMembers == {"signing in", "signing out", "granting", "saving"}
AtDevices == {"unregistering", "storing", "pushing", "sending", "retiring"}
AtSubjects == {"naming", "reporting", "hiding", "giving"}
AtSupport == {"mailing", "noting"}

Statements == {"idle", "over"} \cup AtMembers \cup AtDevices \cup AtSubjects \cup AtSupport

Replacements == [want : SUBSET Addons, gone : SUBSET Addons]
Merges == [fields : SUBSET Fields, seen : [Fields -> Requests \cup {None}]]
SignOuts == [user : Users, token : Tokens]
Namings == [id : Ids, name : Names]
Hidings == [id : Ids, settled : BOOLEAN]
Givings == [row : Records, id : Ids]

\* What a request about to run p may hold.
MayHold(p, value) ==
  /\ p \in {"signing in", "signing out"} => value \in Nat
  /\ p = "granting" => value \in Replacements
  /\ p = "saving" => value \in Merges
  /\ p = "unregistering" => value \in SignOuts
  /\ p \in {"storing", "pushing"} => value = Users
  /\ p \in {"sending", "retiring"} => value \in SUBSET Tokens
  /\ p = "naming" => value \in Namings
  /\ p \in {"reporting", "hiding"} => value \in Hidings
  /\ p = "giving" => value \in Givings

RequestsFit ==
  /\ pc \in [Requests -> Statements]
  /\ input = [r \in Requests |-> input[r]]
  /\ \A r \in Requests : MayHold(pc[r], input[r])

\* What a request at one of these statements holds, it held there before.
Undisturbed(statements) ==
  \A r \in Requests : pc'[r] \in statements => pc[r] = pc'[r] /\ input'[r] = input[r]

-----------------------------------------------------------------------------
(* Requests.                                                                 *)

LEMMA RequestMoves ==
  ASSUME RequestsFit, NEW r \in Requests, NEW value, NEW p \in Statements,
         Take(r, value, p), MayHold(p, value)
  PROVE  /\ RequestsFit'
         /\ pc'[r] = p /\ input'[r] = value
         /\ \A q \in Requests \ {r} : pc'[q] = pc[q] /\ input'[q] = input[q]
<1>1. /\ pc' \in [Requests -> Statements]
      /\ pc'[r] = p
      /\ \A q \in Requests \ {r} : pc'[q] = pc[q]
  BY DEF RequestsFit, Take
<1>2. /\ input' = [q \in Requests |-> input'[q]]
      /\ input'[r] = value
      /\ \A q \in Requests \ {r} : input'[q] = input[q]
  BY DEF RequestsFit, Take
<1>3. \A q \in Requests : MayHold(pc'[q], input'[q])
  BY <1>1, <1>2 DEF RequestsFit
<1> QED BY <1>1, <1>2, <1>3 DEF RequestsFit

LEMMA RequestGoes ==
  ASSUME RequestsFit, NEW r \in Requests, NEW p \in Statements,
         Goto(r, p), MayHold(p, input[r])
  PROVE  /\ RequestsFit'
         /\ pc'[r] = p
         /\ \A q \in Requests \ {r} : pc'[q] = pc[q]
         /\ UNCHANGED input
<1>1. /\ pc' \in [Requests -> Statements]
      /\ pc'[r] = p
      /\ \A q \in Requests \ {r} : pc'[q] = pc[q]
      /\ UNCHANGED input
  BY DEF RequestsFit, Goto
<1>2. \A q \in Requests : MayHold(pc'[q], input'[q])
  BY <1>1 DEF RequestsFit
<1> QED BY <1>1, <1>2 DEF RequestsFit

LEMMA RequestEnds ==
  ASSUME RequestsFit, NEW r \in Requests, Finish(r)
  PROVE  /\ RequestsFit'
         /\ pc'[r] = "over"
         /\ \A q \in Requests \ {r} : pc'[q] = pc[q] /\ input'[q] = input[q]
<1>1. "over" \in Statements /\ MayHold("over", None)
  BY DEF Statements, MayHold
<1> QED BY <1>1, RequestMoves DEF Finish

LEMMA CrashEnds ==
  ASSUME RequestsFit, Drop
  PROVE  /\ RequestsFit'
         /\ Undisturbed(AtMembers \cup AtDevices \cup AtSubjects \cup AtSupport)
<1>1. \A r \in Requests : \/ pc'[r] = "over" /\ input'[r] = None
                          \/ pc'[r] = pc[r] /\ input'[r] = input[r] /\ pc[r] \in {"idle"} \cup Final
  BY DEF RequestsFit, Drop, InFlight
<1>2. pc' \in [Requests -> Statements]
  BY <1>1 DEF RequestsFit, Drop, Statements
<1>3. input' = [r \in Requests |-> input'[r]]
  BY DEF Drop
<1>4. MayHold("over", None)
  BY DEF MayHold
<1>5. \A r \in Requests : MayHold(pc'[r], input'[r])
  BY <1>1, <1>4 DEF RequestsFit
<1>6. Undisturbed(AtMembers \cup AtDevices \cup AtSubjects \cup AtSupport)
  BY <1>1 DEF Undisturbed, Final, AtMembers, AtDevices, AtSubjects, AtSupport
<1> QED BY <1>2, <1>3, <1>5, <1>6 DEF RequestsFit

-----------------------------------------------------------------------------
(* Members.  What a request read, it acts on: a sign-in's version is no      *)
(* later than the row's, what a replacement deleted is all that it did not   *)
(* want, and what a patch is merged over is what is stored, unless the       *)
(* request overlapped another.                                               *)

Versions == 0 .. version

VersionsFit ==
  /\ version \in Nat
  /\ \A v \in ended : v \in Nat /\ v < version
  /\ issued \subseteq Versions

SessionsFit ==
  /\ VersionsFit
  /\ \A r \in Requests : At(r, "signing in") => input[r] \in Versions

GrantsFit ==
  /\ grants \in SUBSET Addons
  /\ submitted \in SUBSET SUBSET Addons
  /\ crossed \in SUBSET Requests
  /\ \A r \in Requests : At(r, "granting") =>
       /\ r \in crossed \/ OthersAt(r, "granting") = {}
       /\ r \in crossed \/ input[r].gone = grants \ input[r].want

ConfigFit ==
  /\ {config, latest} \subseteq [Fields -> Requests \cup {None}]
  /\ shaky \in SUBSET Fields
  /\ \A r \in Requests : At(r, "saving") => r \in crossed \/ input[r].seen = config

MembersInv == SessionsFit /\ GrantsFit /\ ConfigFit /\ GrantsAsSubmitted /\ SettingsKept

LEMMA MembersSafe ==
  ASSUME MembersInv
  PROVE  MembersTypeOK /\ RevokedStaysRevoked /\ GrantsAsSubmitted /\ SettingsKept
<1>1. VersionsFit
  BY DEF MembersInv, SessionsFit
<1>2. \A v \in ended : v \in Versions
  BY <1>1 DEF VersionsFit, Versions
<1>3. RevokedStaysRevoked
  BY <1>1 DEF VersionsFit, RevokedStaysRevoked
<1>4. version \in Nat /\ issued \cup ended \subseteq 0 .. version
  BY <1>1, <1>2 DEF VersionsFit, Versions
<1>5. MembersTypeOK
  BY <1>4 DEF MembersInv, GrantsFit, ConfigFit, MembersTypeOK
<1> QED BY <1>3, <1>5 DEF MembersInv

LEMMA VersionReached ==
  ASSUME VersionsFit
  PROVE  version \in Versions
<1>1. version \in Nat
  BY DEF VersionsFit
<1>2. \A v \in Nat : v \in 0 .. v
  OBVIOUS
<1> QED BY <1>1, <1>2 DEF Versions

LEMMA SessionsStay ==
  ASSUME SessionsFit, UNCHANGED sessionVars, Undisturbed({"signing in"})
  PROVE  SessionsFit'
<1>1. VersionsFit' /\ UNCHANGED Versions
  BY DEF SessionsFit, VersionsFit, Versions, sessionVars
<1> QED BY <1>1 DEF SessionsFit, Undisturbed, At

LEMMA GrantsStay ==
  ASSUME GrantsFit, GrantsAsSubmitted, UNCHANGED grantVars, Undisturbed({"granting"}),
         crossed \subseteq crossed', crossed' \subseteq Requests
  PROVE  GrantsFit' /\ GrantsAsSubmitted'
<1>1. \A r \in Requests : pc'[r] = "granting" =>
        OthersAt(r, "granting")' \subseteq OthersAt(r, "granting")
  BY DEF Undisturbed, OthersAt, At
<1> QED BY <1>1 DEF GrantsFit, GrantsAsSubmitted, grantVars, Undisturbed, At

LEMMA ConfigStays ==
  ASSUME ConfigFit, SettingsKept, UNCHANGED configVars, Undisturbed({"saving"}),
         crossed \subseteq crossed'
  PROVE  ConfigFit' /\ SettingsKept'
BY DEF ConfigFit, SettingsKept, configVars, Undisturbed, At

LEMMA MembersStay ==
  ASSUME MembersInv, UNCHANGED memberVars, Undisturbed(AtMembers)
  PROVE  MembersInv'
<1>1. /\ UNCHANGED <<sessionVars, grantVars, configVars, crossed>>
      /\ Undisturbed({"signing in"}) /\ Undisturbed({"granting"}) /\ Undisturbed({"saving"})
  BY DEF memberVars, sessionVars, grantVars, configVars, Undisturbed, AtMembers
<1> QED BY <1>1, SessionsStay, GrantsStay, ConfigStays DEF MembersInv, GrantsFit

\* The sessions: two sign-outs may race, and a sign-in with either.
LEMMA SessionSteps ==
  ASSUME RequestsFit, MembersInv, NEW r \in Requests,
         SignIn(r) \/ Issue(r) \/ SignOut(r) \/ RevokeSessions(r)
  PROVE  RequestsFit' /\ MembersInv'
<1> USE DEF MembersInv
<1>1. CASE SignIn(r) \/ SignOut(r)
  <2>1. PICK p \in {"signing in", "signing out"} : Take(r, version, p) /\ UNCHANGED memberVars
    BY <1>1 DEF SignIn, SignOut
  <2>2. p \in Statements /\ MayHold(p, version)
    BY <2>1 DEF Statements, AtMembers, MayHold, SessionsFit, VersionsFit
  <2>3. /\ RequestsFit'
        /\ pc'[r] = p /\ input'[r] = version
        /\ \A q \in Requests \ {r} : pc'[q] = pc[q] /\ input'[q] = input[q]
    BY <2>1, <2>2, RequestMoves
  <2>4. SessionsFit'
    <3>1. VersionsFit
      BY DEF SessionsFit
    <3>2. UNCHANGED Versions /\ VersionsFit'
      BY <2>1, <3>1 DEF VersionsFit, Versions, memberVars
    <3>3. version \in Versions
      BY <3>1, VersionReached
    <3> QED BY <2>1, <2>3, <3>2, <3>3 DEF SessionsFit, At
  <2>5. Undisturbed({"granting"}) /\ Undisturbed({"saving"})
    BY <2>1, <2>3 DEF Undisturbed
  <2>6. UNCHANGED <<grantVars, configVars, crossed>>
    BY <2>1 DEF memberVars, grantVars, configVars
  <2> QED BY <2>3, <2>4, <2>5, <2>6, GrantsStay, ConfigStays DEF GrantsFit
<1>2. CASE Issue(r) \/ RevokeSessions(r)
  <2>1. /\ At(r, "signing in") \/ At(r, "signing out")
        /\ Finish(r) /\ UNCHANGED <<grantVars, configVars, crossed>>
    BY <1>2 DEF Issue, RevokeSessions
  <2>2. /\ RequestsFit'
        /\ pc'[r] = "over"
        /\ \A q \in Requests \ {r} : pc'[q] = pc[q] /\ input'[q] = input[q]
    BY <2>1, RequestEnds
  <2>3. /\ Undisturbed({"signing in"}) /\ Undisturbed({"granting"}) /\ Undisturbed({"saving"})
    BY <2>2 DEF Undisturbed
  <2>4. SessionsFit'
    <3>1. CASE Issue(r)
      <4>1. input[r] \in Versions
        BY <3>1 DEF Issue, SessionsFit
      <4>2. VersionsFit' /\ UNCHANGED Versions
        BY <3>1, <4>1 DEF Issue, SessionsFit, VersionsFit, Versions
      <4> QED BY <2>3, <4>2 DEF SessionsFit, Undisturbed, At
    <3>2. CASE RevokeSessions(r)
      <4>1. VersionsFit
        BY DEF SessionsFit
      <4>2. version' = version + 1 /\ ended' = ended \cup {version} /\ issued' = issued
        BY <3>2 DEF RevokeSessions
      <4>3. Versions \subseteq Versions'
        BY <4>1, <4>2 DEF VersionsFit, Versions
      <4>4. \A v \in ended' : v \in Nat /\ v < version'
        BY <4>1, <4>2 DEF VersionsFit
      <4>5. VersionsFit'
        BY <4>1, <4>2, <4>3, <4>4 DEF VersionsFit
      <4> QED BY <2>3, <4>3, <4>5 DEF SessionsFit, Undisturbed, At
    <3> QED BY <1>2, <3>1, <3>2
  <2> QED BY <2>1, <2>2, <2>3, <2>4, GrantsStay, ConfigStays DEF GrantsFit
<1> QED BY <1>1, <1>2

\* A replacement begins: only one that meets another finds grants it did not read.
LEMMA DeleteUnwantedKeeps ==
  ASSUME RequestsFit, MembersInv, NEW r \in Requests, NEW want \in SUBSET Addons,
         DeleteUnwanted(r, want)
  PROVE  RequestsFit' /\ MembersInv'
<1> USE DEF MembersInv
<1> DEFINE asked == [want |-> want, gone |-> grants \ want]
<1>1. Take(r, asked, "granting") /\ UNCHANGED <<sessionVars, grantVars, configVars>>
  BY DEF DeleteUnwanted
<1>2. "granting" \in Statements /\ MayHold("granting", asked)
  BY DEF Statements, AtMembers, MayHold, Replacements, GrantsFit
<1> HIDE DEF asked
<1>3. /\ RequestsFit'
      /\ pc'[r] = "granting" /\ input'[r] = asked
      /\ \A q \in Requests \ {r} : pc'[q] = pc[q] /\ input'[q] = input[q]
  BY <1>1, <1>2, RequestMoves
<1>4. /\ crossed \subseteq crossed' /\ crossed' \subseteq Requests
      /\ OthersAt(r, "granting") \subseteq crossed'
      /\ OthersAt(r, "granting") # {} => r \in crossed'
  BY DEF DeleteUnwanted, GrantsFit, OthersAt
<1>5. \A q \in Requests : At(q, "granting")' =>
        q \in crossed' \/ (q = r /\ OthersAt(r, "granting") = {})
  BY <1>3, <1>4 DEF OthersAt, At
<1>6. OthersAt(r, "granting")' = OthersAt(r, "granting")
  BY <1>3 DEF OthersAt, At
<1>7. asked.gone = grants \ asked.want
  BY DEF asked
<1>8. GrantsFit'
  BY <1>1, <1>3, <1>4, <1>5, <1>6, <1>7 DEF GrantsFit, grantVars, At
<1>9. GrantsAsSubmitted'
  BY <1>1 DEF GrantsAsSubmitted, grantVars
<1>10. Undisturbed({"signing in"}) /\ Undisturbed({"saving"})
  BY <1>3 DEF Undisturbed
<1> QED BY <1>1, <1>3, <1>4, <1>8, <1>9, <1>10, SessionsStay, ConfigStays

\* A replacement ends, by its commit or by the database.
LEMMA GrantSteps ==
  ASSUME RequestsFit, MembersInv, NEW r \in Requests, InsertWanted(r) \/ GrantDeadlock(r)
  PROVE  RequestsFit' /\ MembersInv'
<1> USE DEF MembersInv
<1>1. /\ At(r, "granting") /\ Finish(r)
      /\ UNCHANGED <<sessionVars, configVars, crossed>>
  BY DEF InsertWanted, GrantDeadlock, memberVars, sessionVars, configVars
<1>2. /\ RequestsFit'
      /\ pc'[r] = "over"
      /\ \A q \in Requests \ {r} : pc'[q] = pc[q] /\ input'[q] = input[q]
  BY <1>1, RequestEnds
<1>3. Undisturbed({"signing in"}) /\ Undisturbed({"saving"}) /\ Undisturbed({"granting"})
  BY <1>2 DEF Undisturbed
<1>4. SessionsFit' /\ ConfigFit' /\ SettingsKept'
  BY <1>1, <1>3, SessionsStay, ConfigStays
<1>5. GrantsFit' /\ GrantsAsSubmitted'
  <2>1. CASE GrantDeadlock(r)
    BY <2>1, <1>1, <1>3, GrantsStay DEF GrantDeadlock, memberVars, grantVars, GrantsFit
  <2>2. CASE InsertWanted(r)
    <3> DEFINE want == input[r].want
               gone == input[r].gone
    <3>1. want \in SUBSET Addons /\ gone \in SUBSET Addons
      BY <1>1 DEF RequestsFit, MayHold, At, Replacements
    <3>2. r \in crossed \/ gone = grants \ want
      BY <1>1 DEF GrantsFit
    <3>3. /\ grants' = (grants \ gone) \cup want
          /\ submitted' = IF r \in crossed THEN submitted \cup {want} ELSE {want}
      BY <2>2 DEF InsertWanted, Submit
    <3> HIDE DEF want, gone
    <3>4. GrantsAsSubmitted'
      BY <3>1, <3>2, <3>3 DEF GrantsAsSubmitted, GrantsFit
    <3>5. \A q \in Requests : At(q, "granting")' => q \in crossed
      BY <1>1, <1>2 DEF GrantsFit, OthersAt, At
    <3>6. GrantsFit'
      BY <1>1, <3>1, <3>3, <3>5 DEF GrantsFit
    <3> QED BY <3>4, <3>6
  <2> QED BY <2>1, <2>2
<1> QED BY <1>2, <1>4, <1>5

\* Settings: a patch is read over what is stored, and then merged.
LEMMA PatchConfigKeeps ==
  ASSUME RequestsFit, MembersInv, NEW r \in Requests, NEW fields \in SUBSET Fields,
         PatchConfig(r, fields)
  PROVE  RequestsFit' /\ MembersInv'
<1> USE DEF MembersInv
<1> DEFINE asked == [fields |-> fields, seen |-> config]
<1>1. Take(r, asked, "saving") /\ UNCHANGED memberVars
  BY DEF PatchConfig
<1>2. "saving" \in Statements /\ MayHold("saving", asked)
  BY DEF Statements, AtMembers, MayHold, Merges, ConfigFit
<1>3. asked.seen = config
  OBVIOUS
<1> HIDE DEF asked
<1>4. /\ RequestsFit'
      /\ pc'[r] = "saving" /\ input'[r] = asked
      /\ \A q \in Requests \ {r} : pc'[q] = pc[q] /\ input'[q] = input[q]
  BY <1>1, <1>2, RequestMoves
<1>5. UNCHANGED <<sessionVars, grantVars, configVars, crossed>>
  BY <1>1 DEF memberVars, sessionVars, grantVars, configVars
<1>6. ConfigFit' /\ SettingsKept'
  BY <1>3, <1>4, <1>5 DEF ConfigFit, SettingsKept, configVars, At
<1>7. Undisturbed({"signing in"}) /\ Undisturbed({"granting"})
  BY <1>4 DEF Undisturbed
<1> QED BY <1>4, <1>5, <1>6, <1>7, SessionsStay, GrantsStay DEF GrantsFit

LEMMA SaveConfigKeeps ==
  ASSUME RequestsFit, MembersInv, NEW r \in Requests, SaveConfig(r)
  PROVE  RequestsFit' /\ MembersInv'
<1> USE DEF MembersInv
<1> DEFINE fields == input[r].fields
           seen == input[r].seen
<1>1. /\ At(r, "saving") /\ Finish(r) /\ UNCHANGED <<sessionVars, grantVars>>
      /\ config' = [f \in Fields |-> IF f \in fields THEN r ELSE seen[f]]
      /\ latest' = [f \in Fields |-> IF f \in fields THEN r ELSE latest[f]]
      /\ shaky' = (IF r \in crossed THEN Fields ELSE shaky) \ fields
      /\ crossed' = crossed \cup OthersAt(r, "saving")
  BY DEF SaveConfig, Asked
<1>2. /\ fields \in SUBSET Fields /\ seen \in [Fields -> Requests \cup {None}]
      /\ r \in crossed \/ seen = config
  BY <1>1 DEF RequestsFit, MayHold, At, Merges, ConfigFit
<1> HIDE DEF fields, seen
<1>3. /\ RequestsFit'
      /\ pc'[r] = "over"
      /\ \A q \in Requests \ {r} : pc'[q] = pc[q] /\ input'[q] = input[q]
  BY <1>1, RequestEnds
<1>4. SettingsKept'
  BY <1>1, <1>2 DEF SettingsKept, ConfigFit
<1>5. \A q \in Requests : At(q, "saving")' => q \in crossed'
  BY <1>1, <1>3 DEF OthersAt, At
<1>6. ConfigFit'
  BY <1>1, <1>2, <1>5 DEF ConfigFit
<1>7. Undisturbed({"signing in"}) /\ Undisturbed({"granting"})
  BY <1>3 DEF Undisturbed
<1>8. crossed \subseteq crossed' /\ crossed' \subseteq Requests
  BY <1>1 DEF GrantsFit, OthersAt
<1> QED BY <1>1, <1>3, <1>4, <1>6, <1>7, <1>8, SessionsStay, GrantsStay

LEMMA MembersKeep ==
  ASSUME RequestsFit, MembersInv, NEW r \in Requests, MembersNext(r)
  PROVE  RequestsFit' /\ MembersInv'
BY SessionSteps, DeleteUnwantedKeeps, GrantSteps, PatchConfigKeeps, SaveConfigKeeps
   DEF MembersNext, MembersContinue

-----------------------------------------------------------------------------
(* Devices.  An announcement is in everybody's feed before a device is read  *)
(* for it, and what is about to be retired the push service has disowned.    *)

Fed(r) == \A u \in Users : <<r, u>> \in feed

DevicesInv ==
  /\ DevicesTypeOK
  /\ \A r \in Requests : pc[r] \in {"pushing", "sending", "retiring"} => Fed(r)
  /\ \A r \in Requests : At(r, "retiring") => input[r] \subseteq dead
  /\ PushedIsInFeed

\* What DeviceKept says of a step.
DevicesKept ==
  \A t \in Tokens : owner[t] # None /\ owner'[t] = None =>
    \/ t \in dead
    \/ \E r \in Requests : /\ At(r, "unregistering")
                           /\ ~At(r, "unregistering")'
                           /\ input[r] = [user |-> owner[t], token |-> t]

LEMMA DevicesStay ==
  ASSUME DevicesInv, UNCHANGED deviceVars, Undisturbed({"pushing", "sending", "retiring"})
  PROVE  DevicesInv' /\ DevicesKept
<1>1. DevicesInv'
  BY DEF DevicesInv, DevicesTypeOK, PushedIsInFeed, deviceVars, Undisturbed, Fed, At
<1>2. DevicesKept
  BY DEF DevicesKept, deviceVars
<1> QED BY <1>1, <1>2

\* Phones come and go by themselves.
LEMMA DevicesAloneKeeps ==
  ASSUME RequestsFit, DevicesInv, DevicesAlone
  PROVE  RequestsFit' /\ DevicesInv' /\ DevicesKept
<1>1. UNCHANGED <<pc, input, feed, pushed>> /\ dead \subseteq dead' /\ dead' \subseteq Tokens
  BY DEF DevicesAlone, Uninstall, RegisterDevice, DevicesInv, DevicesTypeOK
<1>2. /\ owner' \in [Tokens -> Users \cup {None}]
      /\ \A t \in Tokens : owner'[t] = owner[t] \/ owner'[t] \in Users
  BY DEF DevicesAlone, Uninstall, RegisterDevice, DevicesInv, DevicesTypeOK
<1>3. DevicesKept
  BY <1>2, DevicesAssumption DEF DevicesKept, DevicesAssumption
<1>4. DevicesInv'
  BY <1>1, <1>2 DEF DevicesInv, DevicesTypeOK, PushedIsInFeed, Fed, At
<1> QED BY <1>1, <1>3, <1>4 DEF RequestsFit

\* A sign-out of a phone, from its request to the delete scoped to the caller.
LEMMA DeleteOwnKeeps ==
  ASSUME RequestsFit, DevicesInv, NEW r \in Requests, DeleteOwn(r)
  PROVE  RequestsFit' /\ DevicesInv' /\ DevicesKept
<1>1. /\ At(r, "unregistering") /\ Finish(r) /\ UNCHANGED <<dead, feed, pushed>>
      /\ owner' = [owner EXCEPT ![input[r].token] = IF @ = input[r].user THEN None ELSE @]
  BY DEF DeleteOwn
<1>2. /\ RequestsFit'
      /\ pc'[r] = "over"
      /\ \A q \in Requests \ {r} : pc'[q] = pc[q] /\ input'[q] = input[q]
  BY <1>1, RequestEnds
<1>3. input[r] \in SignOuts
  BY <1>1 DEF RequestsFit, MayHold, At
<1>4. /\ owner' \in [Tokens -> Users \cup {None}]
      /\ \A t \in Tokens : owner'[t] # owner[t] => input[r] = [user |-> owner[t], token |-> t]
  BY <1>1, <1>3 DEF SignOuts, DevicesInv, DevicesTypeOK
<1>5. DevicesInv'
  BY <1>1, <1>2, <1>4 DEF DevicesInv, DevicesTypeOK, PushedIsInFeed, Fed, At
<1>6. DevicesKept
  BY <1>1, <1>2, <1>4 DEF DevicesKept, At
<1> QED BY <1>2, <1>5, <1>6

\* Requests that have nothing stored or retired by their step.
LEMMA DeviceReads ==
  ASSUME RequestsFit, DevicesInv, NEW r \in Requests,
         \/ \E u \in Users : Announce(r, u)
         \/ \E u \in Users, t \in Tokens : Unregister(r, u, t)
         \/ ReadDevices(r) \/ CannotAuthenticate(r)
  PROVE  RequestsFit' /\ DevicesInv' /\ DevicesKept
<1>1. UNCHANGED deviceVars
  BY DEF Announce, Unregister, ReadDevices, CannotAuthenticate
<1>2. ASSUME NEW p \in Statements, NEW value, Take(r, value, p), MayHold(p, value),
             p \in {"pushing", "sending"} => Fed(r), p # "retiring"
      PROVE  RequestsFit' /\ DevicesInv' /\ DevicesKept
  <2>1. /\ RequestsFit'
        /\ pc'[r] = p /\ input'[r] = value
        /\ \A q \in Requests \ {r} : pc'[q] = pc[q] /\ input'[q] = input[q]
    BY <1>2, RequestMoves
  <2>2. DevicesInv'
    BY <1>1, <1>2, <2>1 DEF DevicesInv, DevicesTypeOK, PushedIsInFeed, deviceVars, Fed, At
  <2>3. DevicesKept
    BY <1>1 DEF DevicesKept, deviceVars
  <2> QED BY <2>1, <2>2, <2>3
<1>3. \A p \in {"unregistering", "storing", "sending", "over"} : p \in Statements
  BY DEF Statements, AtDevices
<1>4. ASSUME NEW u \in Users, Announce(r, u)
      PROVE  Take(r, Users, "storing") /\ MayHold("storing", Users)
  BY <1>4 DEF Announce, MayHold
<1>5. ASSUME NEW u \in Users, NEW t \in Tokens, Unregister(r, u, t)
      PROVE  /\ Take(r, [user |-> u, token |-> t], "unregistering")
             /\ MayHold("unregistering", [user |-> u, token |-> t])
  BY <1>5 DEF Unregister, MayHold, SignOuts
<1>6. /\ \A value : MayHold("over", value)
      /\ MayHold("sending", TokensFor(input[r]))
  BY DEF MayHold, TokensFor
<1>7. ASSUME ReadDevices(r)
      PROVE  /\ Fed(r)
             /\ \/ Take(r, TokensFor(input[r]), "sending")
                \/ Take(r, TokensFor(input[r]), "over")
  BY <1>7 DEF ReadDevices, DevicesInv, At
<1>8. ASSUME CannotAuthenticate(r)
      PROVE  Take(r, None, "over")
  BY <1>8 DEF CannotAuthenticate, Finish
<1> QED BY <1>2, <1>3, <1>4, <1>5, <1>6, <1>7, <1>8

\* The rows are stored for everyone the announcement is for.
LEMMA StoreFeedKeeps ==
  ASSUME RequestsFit, DevicesInv, NEW r \in Requests, StoreFeed(r)
  PROVE  RequestsFit' /\ DevicesInv' /\ DevicesKept
<1>1. /\ Goto(r, "pushing") /\ feed' = feed \cup {<<r, u>> : u \in input[r]}
      /\ UNCHANGED <<owner, dead, pushed>>
  BY DEF StoreFeed
<1>2. input[r] = Users
  BY DEF StoreFeed, RequestsFit, MayHold, At
<1>3. "pushing" \in Statements /\ MayHold("pushing", input[r])
  BY <1>2 DEF Statements, AtDevices, MayHold
<1>4. /\ RequestsFit'
      /\ pc'[r] = "pushing"
      /\ \A q \in Requests \ {r} : pc'[q] = pc[q]
      /\ UNCHANGED input
  BY <1>1, <1>3, RequestGoes
<1>5. feed \subseteq feed' /\ feed' \in SUBSET (Requests \X Users) /\ Fed(r)'
  BY <1>1, <1>2 DEF DevicesInv, DevicesTypeOK, Fed
<1>6. DevicesInv'
  BY <1>1, <1>4, <1>5 DEF DevicesInv, DevicesTypeOK, PushedIsInFeed, Fed, At
<1>7. DevicesKept
  BY <1>1 DEF DevicesKept
<1> QED BY <1>4, <1>6, <1>7

\* Only a token the push service no longer knows comes back to be retired.
LEMMA OnlyDeadRetired ==
  ASSUME NEW tokens, NEW retired \in SUBSET tokens,
         \A t \in tokens : (retired \cap {t}) \in SendOne(t)
  PROVE  retired \subseteq dead
<1> SUFFICES ASSUME NEW t \in retired
             PROVE  t \in dead
  OBVIOUS
<1>1. PICK a \in Answers(t) : retired \cap {t} = IF a \in DEAD_TOKEN_ERRORS THEN {t} ELSE {}
  BY DEF SendOne
<1>2. a \in DEAD_TOKEN_ERRORS
  BY <1>1
<1> QED BY <1>2 DEF Answers, DEAD_TOKEN_ERRORS

LEMMA SendKeeps ==
  ASSUME RequestsFit, DevicesInv, NEW r \in Requests, Send(r)
  PROVE  RequestsFit' /\ DevicesInv' /\ DevicesKept
<1>1. /\ At(r, "sending") /\ UNCHANGED <<owner, dead, feed>>
      /\ pushed' = pushed \cup {<<r, t>> : t \in input[r]}
  BY DEF Send
<1>2. input[r] \in SUBSET Tokens /\ Fed(r)
  BY <1>1 DEF RequestsFit, MayHold, DevicesInv, At
<1>3. PICK retired \in SUBSET input[r] : retired \subseteq dead /\ Take(r, retired, "retiring")
  BY OnlyDeadRetired DEF Send
<1>4. "retiring" \in Statements /\ MayHold("retiring", retired)
  BY <1>2 DEF Statements, AtDevices, MayHold
<1>5. /\ RequestsFit'
      /\ pc'[r] = "retiring" /\ input'[r] = retired
      /\ \A q \in Requests \ {r} : pc'[q] = pc[q] /\ input'[q] = input[q]
  BY <1>3, <1>4, RequestMoves
<1>6. DevicesTypeOK' /\ PushedIsInFeed'
  BY <1>1, <1>2 DEF DevicesInv, DevicesTypeOK, PushedIsInFeed, Fed
<1>7. DevicesInv'
  BY <1>1, <1>2, <1>3, <1>5, <1>6 DEF DevicesInv, Fed, At
<1>8. DevicesKept
  BY <1>1 DEF DevicesKept
<1> QED BY <1>5, <1>7, <1>8

LEMMA RetireKeeps ==
  ASSUME RequestsFit, DevicesInv, NEW r \in Requests, Retire(r)
  PROVE  RequestsFit' /\ DevicesInv' /\ DevicesKept
<1>1. /\ At(r, "retiring") /\ Finish(r) /\ UNCHANGED <<dead, feed, pushed>>
      /\ owner' = [t \in Tokens |-> IF t \in input[r] THEN None ELSE owner[t]]
  BY DEF Retire
<1>2. /\ RequestsFit'
      /\ pc'[r] = "over"
      /\ \A q \in Requests \ {r} : pc'[q] = pc[q] /\ input'[q] = input[q]
  BY <1>1, RequestEnds
<1>3. input[r] \subseteq dead
  BY <1>1 DEF DevicesInv
<1>4. DevicesInv'
  BY <1>1, <1>2 DEF DevicesInv, DevicesTypeOK, PushedIsInFeed, Fed, At
<1>5. DevicesKept
  BY <1>1, <1>3 DEF DevicesKept
<1> QED BY <1>2, <1>4, <1>5

LEMMA DevicesKeep ==
  ASSUME RequestsFit, DevicesInv, NEW r \in Requests, DevicesNext(r)
  PROVE  RequestsFit' /\ DevicesInv' /\ DevicesKept
BY DeleteOwnKeeps, DeviceReads, StoreFeedKeeps, SendKeeps, RetireKeeps
   DEF DevicesNext, DevicesContinue

-----------------------------------------------------------------------------
(* Support.  The row comes first, and the note on it after the mail.         *)

SupportInv ==
  /\ SupportTypeOK
  /\ \A r \in Requests : pc[r] \in AtSupport => r \in recorded
  /\ \A r \in Requests : At(r, "noting") => r \in mailed
  /\ MailedIsRecorded

LEMMA SupportStays ==
  ASSUME SupportInv, UNCHANGED supportVars, Undisturbed(AtSupport)
  PROVE  SupportInv'
BY DEF SupportInv, SupportTypeOK, MailedIsRecorded, supportVars, Undisturbed, AtSupport, At

LEMMA SupportKeeps ==
  ASSUME RequestsFit, SupportInv, NEW r \in Requests, SupportNext(r)
  PROVE  RequestsFit' /\ SupportInv'
<1> USE DEF SupportInv, SupportTypeOK, MailedIsRecorded, AtSupport, At
<1>1. \A p \in {"mailing", "noting"} : p \in Statements /\ MayHold(p, input[r])
  BY DEF Statements, MayHold
<1>2. CASE SubmitSupport(r)
  BY <1>1, <1>2, RequestGoes DEF SubmitSupport
<1>3. CASE SendSupportRequest(r)
  <2>1. CASE Goto(r, "noting") /\ mailed' = mailed \cup {r}
    BY <1>1, <1>3, <2>1, RequestGoes DEF SendSupportRequest
  <2>2. CASE Finish(r) /\ UNCHANGED mailed
    BY <1>3, <2>2, RequestEnds DEF SendSupportRequest
  <2> QED BY <1>3, <2>1, <2>2 DEF SendSupportRequest
<1>4. CASE NoteSent(r)
  BY <1>4, RequestEnds DEF NoteSent
<1> QED BY <1>2, <1>3, <1>4 DEF SupportNext, SupportContinue

-----------------------------------------------------------------------------
(* Subjects.  What is still true of what a request read when it acts on it.  *)

\* The subject a request is about is there, once anything is done to it.
SubjectThere ==
  \A r \in Requests :
    pc[r] \in {"reporting", "hiding", "giving"} => subject[input[r].id] # None

\* A name about to be given is nobody else's, unless another request gave it
\* meanwhile.
NameFree ==
  \A r \in Requests : At(r, "naming") =>
    \A j \in Ids \ {input[r].id} :
      subject[j] # None /\ Fold(subject[j].name) = Fold(input[r].name) =>
        Fold(input[r].name) \in twins

Excused == strained \cup revived

\* A subject about to be given to a row is on offer.
OfferStands ==
  \A r \in Requests : At(r, "giving") /\ input[r].id \notin Excused =>
    ~subject[input[r].id].hidden

StudiedByNobody(i) == \A x \in People : studies[x] # i

\* What a usage report has counted so far, and found to be nothing, still is.
ReportStands ==
  \A r \in Requests :
    /\ At(r, "reporting") /\ ~input[r].settled /\ input[r].id \notin Excused =>
         StudiedByNobody(input[r].id)
    /\ At(r, "hiding") /\ input[r].id \notin Excused =>
         StudiedByNobody(input[r].id) /\ ~StillAhead(input[r].id)

\* A lesson has a subject from its booking on.
BookedHasSubject ==
  \A l \in Bookings : IF lesson[l] = "none" THEN studies[l] = None ELSE studies[l] \in Ids

SubjectsInv ==
  /\ SubjectsTypeOK
  /\ SubjectThere
  /\ NameFree
  /\ OfferStands
  /\ ReportStands
  /\ BookedHasSubject
  /\ HiddenIsUnused
  /\ OneOfAName

LEMMA SubjectsStay ==
  ASSUME RequestsFit, SubjectsInv, UNCHANGED subjectVars, Undisturbed(AtSubjects)
  PROVE  SubjectsInv'
<1> USE DEF SubjectsInv, subjectVars
<1>1. \A r \in Requests : pc'[r] \in {"naming", "reporting", "hiding", "giving"} =>
        pc[r] = pc'[r] /\ input'[r] = input[r]
  BY DEF Undisturbed, AtSubjects
<1>2. SubjectThere'
  BY <1>1 DEF SubjectThere
<1>3. NameFree'
  BY <1>1 DEF NameFree, At
<1>4. OfferStands'
  BY <1>1 DEF OfferStands, Excused, At
<1>5. ReportStands'
  BY <1>1 DEF ReportStands, Excused, StudiedByNobody, StillAhead, At
<1>6. SubjectsTypeOK' /\ BookedHasSubject' /\ HiddenIsUnused' /\ OneOfAName'
  BY DEF SubjectsTypeOK, BookedHasSubject, HiddenIsUnused, OneOfAName, StillAhead
<1> QED BY <1>2, <1>3, <1>4, <1>5, <1>6

\* A step that only reads, given that what it read is so.
LEMMA SubjectReads ==
  ASSUME RequestsFit, SubjectsInv, UNCHANGED subjectVars,
         NEW r \in Requests, NEW value, NEW p \in AtSubjects \cup {"over"},
         Take(r, value, p), MayHold(p, value),
         p \in {"reporting", "hiding", "giving"} => subject[value.id] # None,
         p = "naming" =>
           \A j \in Ids \ {value.id} :
             subject[j] # None /\ Fold(subject[j].name) = Fold(value.name) =>
               Fold(value.name) \in twins,
         p = "giving" /\ value.id \notin Excused => ~subject[value.id].hidden,
         p = "reporting" /\ ~value.settled /\ value.id \notin Excused =>
           StudiedByNobody(value.id),
         p = "hiding" /\ value.id \notin Excused =>
           StudiedByNobody(value.id) /\ ~StillAhead(value.id)
  PROVE  RequestsFit' /\ SubjectsInv'
<1> USE DEF SubjectsInv, subjectVars
<1>1. p \in Statements /\ p \in {"naming", "reporting", "hiding", "giving", "over"}
  BY DEF Statements, AtSubjects
<1>2. /\ RequestsFit'
      /\ pc'[r] = p /\ input'[r] = value
      /\ \A q \in Requests \ {r} : pc'[q] = pc[q] /\ input'[q] = input[q]
  BY <1>1, RequestMoves
<1>3. SubjectThere'
  BY <1>2 DEF SubjectThere
<1>4. NameFree'
  BY <1>2 DEF NameFree, At
<1>5. OfferStands'
  BY <1>2 DEF OfferStands, Excused, At
<1>6. ReportStands'
  BY <1>2 DEF ReportStands, Excused, StudiedByNobody, StillAhead, At
<1>7. SubjectsTypeOK' /\ BookedHasSubject' /\ HiddenIsUnused' /\ OneOfAName'
  BY DEF SubjectsTypeOK, BookedHasSubject, HiddenIsUnused, OneOfAName, StillAhead
<1> QED BY <1>2, <1>3, <1>4, <1>5, <1>6, <1>7

LEMMA NameChecks ==
  ASSUME RequestsFit, SubjectsInv, NEW r \in Requests, NEW n \in Names,
         Create(r, n) \/ \E i \in Ids : Rename(r, i, n)
  PROVE  RequestsFit' /\ SubjectsInv'
<1>1. CASE Create(r, n)
  <2> DEFINE asked == [id |-> r, name |-> n]
  <2>1. Take(r, asked, "naming") /\ UNCHANGED subjectVars /\ asked \in Namings
    BY <1>1 DEF Create, Namings, Ids
  <2>2. \A j \in Ids : subject[j] # None => Fold(subject[j].name) # Fold(asked.name)
    BY <1>1 DEF Create, FindByName
  <2> HIDE DEF asked
  <2> QED BY <2>1, <2>2, SubjectReads DEF MayHold, AtSubjects
<1>2. ASSUME NEW i \in Ids, Rename(r, i, n)
      PROVE  RequestsFit' /\ SubjectsInv'
  <2> DEFINE asked == [id |-> i, name |-> n]
  <2>1. Take(r, asked, "naming") /\ UNCHANGED subjectVars /\ asked \in Namings
    BY <1>2 DEF Rename, Namings
  <2>2. ASSUME NEW j \in Ids \ {i}, subject[j] # None, Fold(subject[j].name) = Fold(n)
        PROVE  Fold(n) \in twins
    <3>1. j \in FindByName(n)
      BY <2>2 DEF FindByName
    <3>2. subject[i] # None /\ Fold(subject[i].name) = Fold(n)
      BY <1>2, <3>1 DEF Rename, FindByName
    <3> QED BY <2>2, <3>2 DEF SubjectsInv, OneOfAName
  <2>3. asked.id = i /\ asked.name = n
    OBVIOUS
  <2> HIDE DEF asked
  <2> QED BY <2>1, <2>2, <2>3, SubjectReads DEF MayHold, AtSubjects
<1> QED BY <1>1, <1>2

\* The usage report: its answer is settled, or the two counts found nothing.
LEMMA CountsRun ==
  ASSUME RequestsFit, SubjectsInv, NEW r \in Requests,
         CountLessons(r) \/ \E i \in Ids : CountPeople(r, i)
  PROVE  RequestsFit' /\ SubjectsInv'
<1>1. ASSUME NEW i \in Ids, CountPeople(r, i)
      PROVE  RequestsFit' /\ SubjectsInv'
  <2> DEFINE settled == subject[i].hidden \/ \E x \in People : studies[x] = i
             report == [id |-> i, settled |-> settled]
  <2>1. Take(r, report, "reporting") /\ UNCHANGED subjectVars /\ subject[i] # None
    BY <1>1 DEF CountPeople
  <2>2. settled \in BOOLEAN
    OBVIOUS
  <2>3. ~settled => StudiedByNobody(i)
    BY DEF StudiedByNobody
  <2> HIDE DEF settled
  <2>4. report \in Hidings /\ report.id = i /\ report.settled = settled
    BY <2>2 DEF Hidings
  <2> HIDE DEF report
  <2> QED BY <2>1, <2>3, <2>4, SubjectReads DEF MayHold, AtSubjects
<1>2. CASE CountLessons(r)
  <2>1. At(r, "reporting") /\ UNCHANGED subjectVars
    BY <1>2 DEF CountLessons
  <2>2. CASE Finish(r)
    BY <2>1, <2>2, SubjectReads DEF Finish, MayHold
  <2>3. CASE Goto(r, "hiding") /\ ~input[r].settled /\ ~StillAhead(input[r].id)
    <3>1. Take(r, input[r], "hiding")
      BY <2>3 DEF Goto, Take, RequestsFit
    <3>2. MayHold("hiding", input[r]) /\ subject[input[r].id] # None
      BY <2>1 DEF RequestsFit, MayHold, SubjectsInv, SubjectThere, At
    <3>3. input[r].id \notin Excused => StudiedByNobody(input[r].id)
      BY <2>1, <2>3 DEF SubjectsInv, ReportStands
    <3> QED BY <2>1, <2>3, <3>1, <3>2, <3>3, SubjectReads DEF AtSubjects
  <2> QED BY <1>2, <2>2, <2>3 DEF CountLessons
<1> QED BY <1>1, <1>2

\* A form offers what is not hidden, and what the row points at already.
LEMMA GiveKeeps ==
  ASSUME RequestsFit, SubjectsInv, NEW r \in Requests, NEW x \in Records, NEW i \in Ids,
         Give(r, x, i)
  PROVE  RequestsFit' /\ SubjectsInv'
<1> DEFINE asked == [row |-> x, id |-> i]
<1>1. /\ Take(r, asked, "giving") /\ UNCHANGED subjectVars
      /\ subject[i] # None /\ (subject[i].hidden => i = studies[x])
      /\ x \in Bookings => lesson[x] = "none"
  BY DEF Give, Resolve
<1>2. asked \in Givings /\ asked.id = i
  BY DEF Givings
<1> HIDE DEF asked
<1>3. i \notin Excused => ~subject[i].hidden
  <2> SUFFICES ASSUME i \notin Excused, subject[i].hidden
               PROVE  FALSE
    OBVIOUS
  <2>1. CASE x \in Bookings
    <3>1. studies[x] = None /\ None \notin Ids
      BY <1>1, <2>1, SubjectsAssumption
         DEF SubjectsInv, BookedHasSubject, SubjectsAssumption, Ids
    <3> QED BY <1>1, <3>1
  <2>2. CASE x \in People
    BY <1>1, <2>2 DEF SubjectsInv, HiddenIsUnused, Excused
  <2> QED BY <2>1, <2>2 DEF Records
<1> QED BY <1>1, <1>2, <1>3, SubjectReads DEF MayHold, AtSubjects

\* A name is given: a new subject is on offer, an old one stays what it was.
LEMMA SaveNameKeeps ==
  ASSUME RequestsFit, SubjectsInv, NEW r \in Requests, SaveName(r)
  PROVE  RequestsFit' /\ SubjectsInv'
<1> USE DEF SubjectsInv
<1> DEFINE i == input[r].id
           n == input[r].name
           renamed == [name |-> n, hidden |-> subject[i] # None /\ subject[i].hidden]
<1>1. /\ At(r, "naming") /\ Finish(r) /\ UNCHANGED <<studies, lesson, strained, revived>>
      /\ subject' = IF Indexed(i, n) THEN subject ELSE [subject EXCEPT ![i] = renamed]
      /\ twins' = IF \E q \in OthersAt(r, "naming") : Fold(input[q].name) = Fold(n)
                  THEN twins \cup {Fold(n)} ELSE twins
  BY DEF SaveName
<1>2. i \in Ids /\ n \in Names
  BY <1>1 DEF RequestsFit, MayHold, At, Namings
<1>3. renamed \in Subject /\ renamed # None /\ renamed.name = n
      /\ (renamed.hidden => subject[i] # None /\ subject[i].hidden)
  <2>1. subject[i] # None => subject[i].hidden \in BOOLEAN
    BY <1>2 DEF SubjectsTypeOK, Subject
  <2>2. renamed \in Subject
    BY <1>2, <2>1 DEF Subject
  <2> QED BY <2>2, SubjectsAssumption DEF SubjectsAssumption
<1> HIDE DEF renamed
<1>4. /\ RequestsFit'
      /\ pc'[r] = "over"
      /\ \A q \in Requests \ {r} : pc'[q] = pc[q] /\ input'[q] = input[q]
  BY <1>1, RequestEnds
<1>5. Undisturbed({"naming"}) /\ Undisturbed({"reporting", "hiding", "giving"})
  BY <1>4 DEF Undisturbed
<1>6. /\ twins \subseteq twins'
      /\ \A q \in Requests : pc'[q] = "naming" /\ Fold(input'[q].name) = Fold(n) =>
           Fold(n) \in twins'
  BY <1>1, <1>4 DEF OthersAt, At
<1>7. CASE Indexed(i, n)
  <2>1. UNCHANGED subject
    BY <1>1, <1>7
  <2>2. SubjectThere' /\ OfferStands' /\ ReportStands'
    BY <1>1, <1>5, <2>1
       DEF SubjectThere, OfferStands, ReportStands, Undisturbed, Excused, StudiedByNobody,
           StillAhead, At
  <2>3. NameFree' /\ OneOfAName'
    BY <1>5, <1>6, <2>1 DEF NameFree, OneOfAName, Undisturbed, At
  <2>4. SubjectsTypeOK' /\ BookedHasSubject' /\ HiddenIsUnused'
    BY <1>1, <2>1 DEF SubjectsTypeOK, BookedHasSubject, HiddenIsUnused, StillAhead
  <2> QED BY <1>4, <2>2, <2>3, <2>4
<1>8. CASE ~Indexed(i, n)
  <2>1. /\ subject' \in [Ids -> {None} \cup Subject]
        /\ subject'[i] = renamed
        /\ \A j \in Ids \ {i} : subject'[j] = subject[j]
    BY <1>1, <1>2, <1>3, <1>8 DEF SubjectsTypeOK
  <2>2. \A j \in Ids : /\ subject[j] # None => subject'[j] # None
                       /\ subject'[j] # None /\ subject'[j].hidden =>
                            subject[j] # None /\ subject[j].hidden
    BY <1>3, <2>1
  <2>3. \A q \in Requests : pc[q] \in {"reporting", "hiding", "giving"} => input[q].id \in Ids
    BY DEF RequestsFit, MayHold, Hidings, Givings
  <2>4. SubjectThere' /\ OfferStands' /\ ReportStands'
    BY <1>1, <1>5, <2>2, <2>3
       DEF SubjectThere, OfferStands, ReportStands, Undisturbed, Excused, StudiedByNobody,
           StillAhead, At
  <2>5. NameFree'
    BY <1>3, <1>5, <1>6, <2>1 DEF NameFree, Undisturbed, At
  <2>6. \A j \in Ids \ {i} : subject[j] # None =>
          /\ subject[j].name # n
          /\ Fold(subject[j].name) = Fold(n) => Fold(n) \in twins
    BY <1>1, <1>8 DEF Indexed, NameFree
  <2>7. OneOfAName'
    BY <1>3, <1>6, <2>1, <2>6 DEF OneOfAName
  <2>8. SubjectsTypeOK' /\ BookedHasSubject' /\ HiddenIsUnused'
    BY <1>1, <2>1, <2>2 DEF SubjectsTypeOK, BookedHasSubject, HiddenIsUnused, StillAhead
  <2> QED BY <1>4, <2>4, <2>5, <2>7, <2>8
<1> QED BY <1>7, <1>8

\* A subject is hidden: whoever is giving it to a row just then is on record.
LEMMA HideKeeps ==
  ASSUME RequestsFit, SubjectsInv, NEW r \in Requests, Hide(r)
  PROVE  RequestsFit' /\ SubjectsInv'
<1> USE DEF SubjectsInv
<1> DEFINE i == input[r].id
<1>1. /\ At(r, "hiding") /\ Finish(r) /\ UNCHANGED <<studies, lesson, twins, revived>>
      /\ subject' = [subject EXCEPT ![i].hidden = TRUE]
      /\ strained' = strained \cup (GivenBy(r) \cap {i})
  BY DEF Hide
<1>2. i \in Ids /\ subject[i] \in Subject
  BY <1>1 DEF RequestsFit, MayHold, At, Hidings, SubjectThere, SubjectsTypeOK
<1>3. /\ subject' \in [Ids -> {None} \cup Subject]
      /\ subject'[i] \in Subject /\ subject'[i].name = subject[i].name
      /\ \A j \in Ids \ {i} : subject'[j] = subject[j]
  BY <1>1, <1>2 DEF SubjectsTypeOK, Subject
<1>4. subject'[i] # None
  BY <1>3, SubjectsAssumption DEF SubjectsAssumption
<1>5. /\ RequestsFit'
      /\ pc'[r] = "over"
      /\ \A q \in Requests \ {r} : pc'[q] = pc[q] /\ input'[q] = input[q]
  BY <1>1, RequestEnds
<1>6. Undisturbed({"naming"}) /\ Undisturbed({"reporting", "hiding", "giving"})
  BY <1>5 DEF Undisturbed
<1>7. \A j \in Ids : /\ subject'[j] = None <=> subject[j] = None
                     /\ subject'[j] # None => subject'[j].name = subject[j].name
  BY <1>2, <1>3, <1>4, SubjectsAssumption DEF SubjectsAssumption
<1>8. \A q \in Requests : pc[q] \in {"reporting", "hiding", "giving"} => input[q].id \in Ids
  BY DEF RequestsFit, MayHold, Hidings, Givings
<1>9. SubjectThere' /\ ReportStands'
  BY <1>1, <1>6, <1>7, <1>8
     DEF SubjectThere, ReportStands, Undisturbed, Excused, StudiedByNobody, StillAhead, At
<1>10. OfferStands'
  <2>1. \A q \in Requests : At(q, "giving")' => input'[q].id \in GivenBy(r) /\ At(q, "giving")
    BY <1>5 DEF GivenBy, OthersAt, At
  <2> QED BY <1>1, <1>3, <1>6, <1>8, <2>1 DEF OfferStands, Undisturbed, Excused, At
<1>11. NameFree'
  BY <1>1, <1>6, <1>7 DEF NameFree, Undisturbed, At
<1>12. OneOfAName'
  BY <1>1, <1>7 DEF OneOfAName
<1>13. HiddenIsUnused'
  BY <1>1, <1>3 DEF HiddenIsUnused, ReportStands, StudiedByNobody, StillAhead, Excused
<1>14. SubjectsTypeOK' /\ BookedHasSubject'
  BY <1>1, <1>2, <1>3 DEF SubjectsTypeOK, BookedHasSubject
<1> QED BY <1>5, <1>9, <1>10, <1>11, <1>12, <1>13, <1>14

\* A row gets its subject: if that is being hidden just then, it is on record.
LEMMA SaveRowKeeps ==
  ASSUME RequestsFit, SubjectsInv, NEW r \in Requests, SaveRow(r)
  PROVE  RequestsFit' /\ SubjectsInv'
<1> USE DEF SubjectsInv
<1> DEFINE x == input[r].row
           i == input[r].id
<1>1. /\ At(r, "giving") /\ Finish(r) /\ UNCHANGED <<subject, twins, revived>>
      /\ studies' = [studies EXCEPT ![x] = i]
      /\ lesson' = IF x \in Bookings THEN [lesson EXCEPT ![x] = "upcoming"] ELSE lesson
      /\ strained' = strained \cup (BeingHidden(r) \cap {i})
  BY DEF SaveRow
<1>2. x \in Records /\ i \in Ids
  BY <1>1 DEF RequestsFit, MayHold, At, Givings
<1>3. /\ RequestsFit'
      /\ pc'[r] = "over"
      /\ \A q \in Requests \ {r} : pc'[q] = pc[q] /\ input'[q] = input[q]
  BY <1>1, RequestEnds
<1>4. Undisturbed({"naming"}) /\ Undisturbed({"reporting", "hiding", "giving"})
  BY <1>3 DEF Undisturbed
<1>5. /\ studies' \in [Records -> Ids \cup {None}]
      /\ studies'[x] = i
      /\ \A y \in Records \ {x} : studies'[y] = studies[y]
  BY <1>1, <1>2 DEF SubjectsTypeOK
<1>6. /\ lesson' \in [Bookings -> {"none", "upcoming", "cancelled", "past"}]
      /\ x \in Bookings => lesson'[x] = "upcoming"
      /\ \A l \in Bookings \ {x} : lesson'[l] = lesson[l]
  BY <1>1 DEF SubjectsTypeOK
<1>7. \A j \in Ids \ {i} : /\ StudiedByNobody(j) => StudiedByNobody(j)'
                           /\ StillAhead(j)' => StillAhead(j)
  BY <1>5, <1>6 DEF StudiedByNobody, StillAhead, Records
<1>8. i \notin Excused => ~subject[i].hidden
  BY <1>1 DEF OfferStands
<1>9. Excused' = Excused \cup (BeingHidden(r) \cap {i})
  BY <1>1 DEF Excused
<1>10. \A q \in Requests : pc'[q] \in {"reporting", "hiding"} /\ input'[q].id = i => i \in Excused'
  <2>1. \A q \in Requests : pc'[q] \in {"reporting", "hiding"} =>
          input'[q].id \in BeingHidden(r)
    BY <1>3 DEF BeingHidden, OthersAt, At
  <2> QED BY <1>9, <2>1
<1>11. \A q \in Requests : pc[q] \in {"reporting", "hiding", "giving"} => input[q].id \in Ids
  BY DEF RequestsFit, MayHold, Hidings, Givings
<1>12. SubjectThere' /\ NameFree' /\ OneOfAName'
  BY <1>1, <1>4 DEF SubjectThere, NameFree, OneOfAName, Undisturbed, At
<1>13. OfferStands'
  BY <1>1, <1>4, <1>9 DEF OfferStands, Undisturbed, At
<1>14. ReportStands'
  BY <1>4, <1>7, <1>9, <1>10, <1>11 DEF ReportStands, Undisturbed, At
<1>15. BookedHasSubject'
  BY <1>2, <1>5, <1>6 DEF BookedHasSubject, Records
<1>16. HiddenIsUnused'
  BY <1>1, <1>7, <1>8, <1>9 DEF HiddenIsUnused, StudiedByNobody, Excused
<1>17. SubjectsTypeOK'
  BY <1>1, <1>2, <1>5, <1>6 DEF SubjectsTypeOK
<1> QED BY <1>3, <1>12, <1>13, <1>14, <1>15, <1>16, <1>17

\* What changes between requests: a subject is offered again, a student stops
\* studying one, a lesson is called off, held, or put back.
LEMMA SubjectsAloneKeeps ==
  ASSUME RequestsFit, SubjectsInv, SubjectsAlone
  PROVE  RequestsFit' /\ SubjectsInv'
<1> USE DEF SubjectsInv
<1>1. UNCHANGED <<pc, input, twins, strained>> /\ RequestsFit'
  BY DEF SubjectsAlone, Restore, Release, MoveLesson, RequestsFit
<1>2. \A q \in Requests : pc[q] \in {"reporting", "hiding", "giving"} => input[q].id \in Ids
  BY DEF RequestsFit, MayHold, Hidings, Givings
<1>3. ASSUME NEW i \in Ids, Restore(i)
      PROVE  SubjectsInv'
  <2>1. /\ subject[i] \in Subject
        /\ subject' = [subject EXCEPT ![i].hidden = FALSE]
        /\ UNCHANGED <<studies, lesson, revived>>
    BY <1>3 DEF Restore, SubjectsTypeOK
  <2>2. /\ subject' \in [Ids -> {None} \cup Subject]
        /\ subject'[i] \in Subject /\ subject'[i].name = subject[i].name
        /\ ~subject'[i].hidden
        /\ \A j \in Ids \ {i} : subject'[j] = subject[j]
    BY <2>1 DEF SubjectsTypeOK, Subject
  <2>3. \A j \in Ids : /\ subject'[j] = None <=> subject[j] = None
                       /\ subject'[j] # None => subject'[j].name = subject[j].name
                       /\ subject'[j] # None /\ subject'[j].hidden => subject[j].hidden
    BY <2>1, <2>2, SubjectsAssumption DEF SubjectsAssumption
  <2>4. SubjectThere' /\ OfferStands' /\ ReportStands'
    BY <1>1, <1>2, <2>1, <2>3
       DEF SubjectThere, OfferStands, ReportStands, StudiedByNobody, StillAhead, Excused, At
  <2>5. NameFree' /\ OneOfAName'
    BY <1>1, <2>3 DEF NameFree, OneOfAName, At
  <2>6. SubjectsTypeOK' /\ BookedHasSubject' /\ HiddenIsUnused'
    BY <1>1, <2>1, <2>2, <2>3 DEF SubjectsTypeOK, BookedHasSubject, HiddenIsUnused, StillAhead
  <2> QED BY <2>4, <2>5, <2>6
<1>4. ASSUME NEW x \in People, Release(x)
      PROVE  SubjectsInv'
  <2>1. /\ UNCHANGED <<subject, lesson, revived>>
        /\ studies' \in [Records -> Ids \cup {None}]
        /\ studies'[x] = None
        /\ \A y \in Records \ {x} : studies'[y] = studies[y]
    BY <1>4 DEF Release, SubjectsTypeOK, Records
  <2>2. x \notin Bookings /\ None \notin Ids
    BY SubjectsAssumption DEF SubjectsAssumption, Ids
  <2>3. \A j \in Ids : /\ StudiedByNobody(j) => StudiedByNobody(j)'
                       /\ StillAhead(j)' => StillAhead(j)
    BY <2>1, <2>2 DEF StudiedByNobody, StillAhead, Records
  <2>4. SubjectThere' /\ OfferStands' /\ ReportStands' /\ NameFree' /\ OneOfAName'
    BY <1>1, <1>2, <2>1, <2>3
       DEF SubjectThere, OfferStands, ReportStands, NameFree, OneOfAName, Excused, At
  <2>5. HiddenIsUnused'
    BY <1>1, <2>1, <2>3 DEF HiddenIsUnused, StudiedByNobody
  <2>6. SubjectsTypeOK' /\ BookedHasSubject'
    BY <1>1, <2>1, <2>2 DEF SubjectsTypeOK, BookedHasSubject, Records
  <2> QED BY <2>4, <2>5, <2>6
<1>5. ASSUME NEW l \in Bookings, MoveLesson(l)
      PROVE  SubjectsInv'
  <2>1. /\ UNCHANGED <<subject, studies>> /\ lesson[l] # "none"
        /\ lesson' \in [Bookings -> {"none", "upcoming", "cancelled", "past"}]
        /\ lesson'[l] # "none"
        /\ \A m \in Bookings \ {l} : lesson'[m] = lesson[m]
        /\ revived \subseteq revived' /\ revived' \subseteq revived \cup {studies[l]}
        /\ lesson'[l] = "upcoming" => studies[l] \in revived'
    BY <1>5 DEF MoveLesson, SubjectsTypeOK
  <2>2. studies[l] \in Ids
    BY <2>1 DEF BookedHasSubject
  <2>3. \A j \in Ids : j \notin Excused' =>
          /\ j \notin Excused
          /\ StudiedByNobody(j) => StudiedByNobody(j)'
          /\ StillAhead(j)' => StillAhead(j)
    BY <1>1, <2>1 DEF StudiedByNobody, StillAhead, Excused
  <2>4. SubjectThere' /\ OfferStands' /\ ReportStands' /\ NameFree' /\ OneOfAName'
    BY <1>1, <1>2, <2>1, <2>3
       DEF SubjectThere, OfferStands, ReportStands, NameFree, OneOfAName, At
  <2>5. HiddenIsUnused'
    BY <1>1, <2>1, <2>3 DEF HiddenIsUnused, StudiedByNobody, Excused
  <2>6. SubjectsTypeOK' /\ BookedHasSubject'
    BY <1>1, <2>1, <2>2 DEF SubjectsTypeOK, BookedHasSubject
  <2> QED BY <2>4, <2>5, <2>6
<1> QED BY <1>1, <1>3, <1>4, <1>5 DEF SubjectsAlone

LEMMA SubjectsKeep ==
  ASSUME RequestsFit, SubjectsInv, NEW r \in Requests, SubjectsNext(r)
  PROVE  RequestsFit' /\ SubjectsInv'
BY NameChecks, CountsRun, GiveKeeps, SaveNameKeeps, HideKeeps, SaveRowKeeps
   DEF SubjectsNext, SubjectsContinue

-----------------------------------------------------------------------------
(* The office as a whole: a request stays within its part, so that the       *)
(* other three keep what they know of theirs; a crash ends some of each.     *)

OfficeInv == RequestsFit /\ MembersInv /\ DevicesInv /\ SubjectsInv /\ SupportInv

\* Only r moves, and only within these statements.
MovesWithin(r, statements) ==
  /\ pc'[r] \in statements \cup {"over"}
  /\ \A q \in Requests \ {r} : pc'[q] = pc[q] /\ input'[q] = input[q]

LEMMA TakeMoves ==
  ASSUME RequestsFit, NEW r \in Requests, NEW S, NEW p \in S \cup {"over"},
         Goto(r, p) \/ \E value : Take(r, value, p)
  PROVE  MovesWithin(r, S)
BY DEF RequestsFit, Goto, Take, MovesWithin

LEMMA MembersMove ==
  ASSUME RequestsFit, NEW r \in Requests, MembersNext(r)
  PROVE  MovesWithin(r, AtMembers)
<1>1. \E p \in AtMembers \cup {"over"} : \E value : Take(r, value, p)
  BY DEF MembersNext, MembersContinue, SignIn, Issue, SignOut, RevokeSessions, DeleteUnwanted,
         InsertWanted, GrantDeadlock, PatchConfig, SaveConfig, Asked, Finish, AtMembers
<1> QED BY <1>1, TakeMoves

LEMMA DevicesMove ==
  ASSUME RequestsFit, NEW r \in Requests, DevicesNext(r)
  PROVE  MovesWithin(r, AtDevices)
<1>1. \E p \in AtDevices \cup {"over"} : Goto(r, p) \/ \E value : Take(r, value, p)
  BY DEF DevicesNext, DevicesContinue, Announce, Unregister, DeleteOwn, StoreFeed, ReadDevices,
         Send, CannotAuthenticate, Retire, Finish, AtDevices
<1> QED BY <1>1, TakeMoves

LEMMA SubjectsMove ==
  ASSUME RequestsFit, NEW r \in Requests, SubjectsNext(r)
  PROVE  MovesWithin(r, AtSubjects)
<1>1. \E p \in AtSubjects \cup {"over"} : Goto(r, p) \/ \E value : Take(r, value, p)
  BY DEF SubjectsNext, SubjectsContinue, Create, Rename, CountPeople, CountLessons, Give,
         SaveName, Hide, SaveRow, Finish, AtSubjects
<1> QED BY <1>1, TakeMoves

LEMMA SupportMoves ==
  ASSUME RequestsFit, NEW r \in Requests, SupportNext(r)
  PROVE  MovesWithin(r, AtSupport)
<1>1. \E p \in AtSupport \cup {"over"} : Goto(r, p) \/ \E value : Take(r, value, p)
  BY DEF SupportNext, SupportContinue, SubmitSupport, SendSupportRequest, NoteSent, Finish,
         AtSupport
<1> QED BY <1>1, TakeMoves

LEMMA PartsApart ==
  ASSUME NEW r \in Requests
  PROVE  /\ MovesWithin(r, AtMembers) =>
              Undisturbed({"pushing", "sending", "retiring"}) /\ Undisturbed(AtSubjects)
                /\ Undisturbed(AtSupport)
         /\ MovesWithin(r, AtDevices) =>
              Undisturbed(AtMembers) /\ Undisturbed(AtSubjects) /\ Undisturbed(AtSupport)
         /\ MovesWithin(r, AtSubjects) =>
              Undisturbed(AtMembers) /\ Undisturbed({"pushing", "sending", "retiring"})
                /\ Undisturbed(AtSupport)
         /\ MovesWithin(r, AtSupport) =>
              Undisturbed(AtMembers) /\ Undisturbed({"pushing", "sending", "retiring"})
                /\ Undisturbed(AtSubjects)
BY DEF MovesWithin, Undisturbed, AtMembers, AtDevices, AtSubjects, AtSupport

\* Nothing happens to the office.
LEMMA OfficeStays ==
  ASSUME OfficeInv, UNCHANGED <<pc, input, officeVars>>
  PROVE  OfficeInv' /\ DevicesKept
<1>1. /\ UNCHANGED <<memberVars, deviceVars, subjectVars, supportVars>>
      /\ Undisturbed(AtMembers) /\ Undisturbed({"pushing", "sending", "retiring"})
      /\ Undisturbed(AtSubjects) /\ Undisturbed(AtSupport)
  BY DEF officeVars, Undisturbed
<1>2. RequestsFit'
  BY DEF OfficeInv, RequestsFit
<1> QED BY <1>1, <1>2, MembersStay, DevicesStay, SubjectsStay, SupportStays DEF OfficeInv

LEMMA OfficeKeeps ==
  ASSUME OfficeInv, OfficeNext
  PROVE  OfficeInv' /\ DevicesKept
<1> USE DEF OfficeInv
<1>1. ASSUME NEW r \in Requests, MembersNext(r), UNCHANGED <<deviceVars, subjectVars, supportVars>>
      PROVE  OfficeInv' /\ DevicesKept
  BY <1>1, MembersKeep, MembersMove, PartsApart, DevicesStay, SubjectsStay, SupportStays
<1>2. ASSUME NEW r \in Requests, DevicesNext(r), UNCHANGED <<memberVars, subjectVars, supportVars>>
      PROVE  OfficeInv' /\ DevicesKept
  BY <1>2, DevicesKeep, DevicesMove, PartsApart, MembersStay, SubjectsStay, SupportStays
<1>3. ASSUME NEW r \in Requests, SubjectsNext(r), UNCHANGED <<memberVars, deviceVars, supportVars>>
      PROVE  OfficeInv' /\ DevicesKept
  BY <1>3, SubjectsKeep, SubjectsMove, PartsApart, MembersStay, DevicesStay, SupportStays
<1>4. ASSUME NEW r \in Requests, SupportNext(r), UNCHANGED <<memberVars, deviceVars, subjectVars>>
      PROVE  OfficeInv' /\ DevicesKept
  BY <1>4, SupportKeeps, SupportMoves, PartsApart, MembersStay, DevicesStay, SubjectsStay
<1>5. ASSUME DevicesAlone, UNCHANGED <<memberVars, subjectVars, supportVars>>
      PROVE  OfficeInv' /\ DevicesKept
  <2>1. RequestsFit' /\ DevicesInv' /\ DevicesKept
    BY <1>5, DevicesAloneKeeps
  <2>2. Undisturbed(AtMembers) /\ Undisturbed(AtSubjects) /\ Undisturbed(AtSupport)
    BY <1>5 DEF DevicesAlone, Uninstall, RegisterDevice, Undisturbed
  <2> QED BY <1>5, <2>1, <2>2, MembersStay, SubjectsStay, SupportStays
<1>6. ASSUME SubjectsAlone, UNCHANGED <<memberVars, deviceVars, supportVars>>
      PROVE  OfficeInv' /\ DevicesKept
  <2>1. RequestsFit' /\ SubjectsInv'
    BY <1>6, SubjectsAloneKeeps
  <2>2. /\ Undisturbed(AtMembers) /\ Undisturbed({"pushing", "sending", "retiring"})
        /\ Undisturbed(AtSupport)
    BY <1>6 DEF SubjectsAlone, Restore, Release, MoveLesson, Undisturbed
  <2> QED BY <1>6, <2>1, <2>2, MembersStay, DevicesStay, SupportStays
<1>7. ASSUME Crash
      PROVE  OfficeInv' /\ DevicesKept
  <2>1. RequestsFit' /\ Undisturbed(AtMembers \cup AtDevices \cup AtSubjects \cup AtSupport)
    BY <1>7, CrashEnds DEF Crash
  <2>2. /\ Undisturbed(AtMembers) /\ Undisturbed({"pushing", "sending", "retiring"})
        /\ Undisturbed(AtSubjects) /\ Undisturbed(AtSupport)
    BY <2>1 DEF Undisturbed, AtDevices
  <2>3. UNCHANGED <<memberVars, deviceVars, subjectVars, supportVars>>
    BY <1>7 DEF Crash, officeVars
  <2> QED BY <2>1, <2>2, <2>3, MembersStay, DevicesStay, SubjectsStay, SupportStays
<1> QED BY <1>1, <1>2, <1>3, <1>4, <1>5, <1>6, <1>7 DEF OfficeNext

LEMMA OfficeStarts ==
  ASSUME RequestsInit, NEW granted \in SUBSET SUBSET Addons, OfficeInit(granted)
  PROVE  OfficeInv
<1>1. RequestsFit
  BY DEF RequestsInit, RequestsFit, Statements, MayHold
<1>2. \A r \in Requests : pc[r] = "idle"
  BY DEF RequestsInit
<1>3. MembersInv
  <2>1. SessionsFit
    <3>1. Versions = {0}
      BY DEF OfficeInit, MembersInit, Versions
    <3>2. VersionsFit
      BY <3>1 DEF OfficeInit, MembersInit, VersionsFit
    <3> QED BY <1>2, <3>2 DEF SessionsFit, At
  <2>2. GrantsFit /\ GrantsAsSubmitted
    BY <1>2 DEF OfficeInit, MembersInit, GrantsFit, GrantsAsSubmitted, At
  <2>3. ConfigFit /\ SettingsKept
    BY <1>2 DEF OfficeInit, MembersInit, ConfigFit, SettingsKept, At
  <2> QED BY <2>1, <2>2, <2>3 DEF MembersInv
<1>4. DevicesInv
  BY <1>2 DEF OfficeInit, DevicesInit, DevicesInv, DevicesTypeOK, PushedIsInFeed, At
<1>5. SubjectsInv
  <2>1. /\ subject \in [Ids -> {None} \cup Subject]
        /\ \A i \in Ids : subject[i] # None => i = First /\ ~subject[i].hidden
    BY SubjectsAssumption DEF OfficeInit, SubjectsInit, SubjectsAssumption, Subject
  <2>2. SubjectsTypeOK
    BY <2>1 DEF OfficeInit, SubjectsInit, SubjectsTypeOK
  <2>3. SubjectThere /\ NameFree /\ OfferStands /\ ReportStands
    BY <1>2 DEF SubjectThere, NameFree, OfferStands, ReportStands, At
  <2>4. BookedHasSubject
    BY DEF OfficeInit, SubjectsInit, BookedHasSubject, Records
  <2>5. HiddenIsUnused /\ OneOfAName
    BY <2>1 DEF HiddenIsUnused, OneOfAName
  <2> QED BY <2>2, <2>3, <2>4, <2>5 DEF SubjectsInv
<1>6. SupportInv
  BY <1>2 DEF OfficeInit, SupportInit, SupportInv, SupportTypeOK, MailedIsRecorded, AtSupport, At
<1> QED BY <1>1, <1>3, <1>4, <1>5, <1>6 DEF OfficeInv

\* What the office promises follows from its invariant.
OfficePromises ==
  /\ OfficeTypeOK
  /\ RevokedStaysRevoked /\ GrantsAsSubmitted /\ SettingsKept
  /\ SentIsStored
  /\ HiddenIsUnused /\ OneOfAName

LEMMA OfficeSafe ==
  ASSUME OfficeInv
  PROVE  OfficePromises
<1>1. MembersTypeOK /\ RevokedStaysRevoked /\ GrantsAsSubmitted /\ SettingsKept
  BY MembersSafe DEF OfficeInv
<1>2. DevicesTypeOK /\ PushedIsInFeed
  BY DEF OfficeInv, DevicesInv
<1>3. SubjectsTypeOK /\ HiddenIsUnused /\ OneOfAName
  BY DEF OfficeInv, SubjectsInv
<1>4. SupportTypeOK /\ MailedIsRecorded
  BY DEF OfficeInv, SupportInv
<1>5. \A r \in Requests : At(r, "granting") => input[r] \in [want : SUBSET Addons, gone : SUBSET Addons]
  BY DEF OfficeInv, RequestsFit, MayHold, Replacements, At
<1> QED BY <1>1, <1>2, <1>3, <1>4, <1>5 DEF OfficePromises, OfficeTypeOK, SentIsStored
=============================================================================
