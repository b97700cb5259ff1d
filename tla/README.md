# Tutor app back end: TLA+ models and proofs

The program is a NestJS service over PostgreSQL (through Prisma) for tutoring
schools: tutors keep students, groups and a calendar, write up lessons, file
marks and notes, store files, connect a video provider; an admin invites
tutors, runs the list of subjects, grants capabilities and reads reports. All
state is in the database, in a file store and, for meeting accounts, at the
provider; the service itself remembers nothing between requests. What can go
wrong is therefore between the statements of one request, when another request,
the provider, a cascade or a crash steps in. That is what these modules model.

Paths below are relative to the repository root. Line numbers are those of the
commit modelled; `PROJECT.json` maps each definition to its lines.

## Inventory

| component | state | operations | talks to | what is hard | correct when |
|---|---|---|---|---|---|
| Gradebook (`src/gradebook`) | `lesson_attendance`, `grades`, and by side effect `students.paidLessonsLeft`, `lessons.status` | `writeJournal`; marks filed, corrected, removed; progress | lessons, students | the register is read without a lock inside the transaction; several students' rows locked in payload order; what a mark is about may go | register and balances agree; every write-up ends; a mark is whole and on its scale |
| Students, Groups (`src/students`, `src/groups`) | student, group and membership rows | create, update, remove, add and remove members | cascades into lessons, registers, marks, notes, files | cascades beside running transactions; absolute balance writes | deletions leave nothing behind and nothing half done |
| Lessons (`src/lessons`) | lesson rows | create, updateStatus, calendar queries | subjects, meetings | the room is made at a provider before the lesson row | a lesson has one audience; booking survives the provider |
| Files (`src/files`) | `files` rows, bytes in a disk or S3 store | upload (three kinds), open, remove | students, lessons, storage | row and bytes cannot be written together; one unique placeholder key; quota is check-then-act | a confirmed row has its bytes; orphans are explained; quota |
| Meeting accounts (`src/meetings`) | `meeting_accounts` row per tutor and provider; tokens at the provider | authorize, callback, disconnect, createRoom with refresh | Zoom, Google, lessons | refresh tokens rotate; refresh, disconnect and reconnect overlap | connection stays usable; booking never fails; closed stays closed |
| Subjects (`src/subjects`) | subject rows | create, rename, usage, hide, restore, resolve | students, groups, lessons | hide against resolve; case folding outside the index | nothing current on a hidden subject; one subject a name |
| Invitations, Schools (`src/invitations`, `src/schools`) | invitation, school and user rows | invite, revoke, accept; register, createTutor | mail, notifications | resend, revoke and accept race; three ways to create one email | one account, by an invitation that stood open; no school without its admin |
| Sessions (`src/auth`) | `users.tokenVersion` | sign in, sign out | the guard | racing sign-outs, a sign-in begun before one | revoked means revoked |
| Add-ons, Settings (`src/addons`, `src/users`) | grant rows, `users.config` | replace grants; merge a patch | guards, meeting links | concurrent replacements and merges; columns older builds wrote | what was submitted last is what holds |
| Push, Notifications (`src/push`, `src/notifications`) | `push_tokens`, notification rows | register, unregister, announce, retire | FCM | a token dies, moves to another person, or is registered again during a send | only dead tokens are dropped; a push is about a stored row |
| Reports, Debtors, Progress (`src/reports`, `src/gradebook/progress.ts`) | none | queries and pure functions | every table | several reads without a snapshot; arithmetic at the edges | they add up always, and agree with the rows when nothing moved |
| Notes, Support (`src/notes`, `src/support`) | note and request rows | add, list, remove; submit | students, lessons, mail | what a note is about may go; a mail fails after the row | notes last as long as their subject; an unsent request is findable |
| Configuration, throttling (`src/config`, `src/common`) | the environment; the throttler's store | validate, start; count a request | every service; a library | sets of variables that are half there; limits counted before authentication | what starts can do its work; nobody pays for others' requests |
| Mail, HTTP, seed | none | I/O, routing | - | little | - |

`PROJECT.json` lists each part with its status and, under `hazards`, the places
where the code is exposed to something tests hardly reach.

## Modules

### The gradebook

**Roster** - students, groups and lessons as rows, one action for each
single-statement operation of `StudentsService`, `GroupsService` and the
row half of `LessonsService`. `life` says which ids exist; `att` is
`lesson_attendance` and `left` is `paidLessonsLeft`. Deleting a row cascades in
the same action (`CascadeLessons`), as PostgreSQL does. `paid` and `erased` are
history: what was bought according to the last figure a tutor typed, and which
charged lessons lost their register.

**Ledger** - the abstract specification of a write-up: one atomic `WriteUp`
that fills in the register, moves each balance by the change in the charge,
and sets the lesson's status.

**Gradebook** - `writeJournal` as PostgreSQL runs it. `Check` is everything
before the transaction; `Read` is the unlocked `findUnique`, `Charge` the
`student.update`, `Upsert` the register row, `WriteLesson` the last update and
the commit. A transaction's uncommitted writes (`owed`, `written`) are also its
locks. `RowGone` is P2025 or a foreign key, `DeadlockVictim` the database
ending a cycle of waits, `Abandon` the five-second timeout or a lost
connection; each rolls back. `LockedRoster` is every roster operation with the
locks it must wait for.

*Choices.* A payload is a function from students to marks because a payload
naming a student twice is refused. A refused request changes nothing and is
left out. The marks of a payload are walked in any order. Deletions happen only
when no lock stands in their way, as one step: a deletion that itself waited
while holding locks could only be a further deadlock, whose victim is rolled
back, which `DeadlockVictim` and `Abandon` cover for the write-up.

**GradebookProofs** - the theorems, `Ledger`'s refinement among them.
**MCGradebook** - constants for TLC.

### Files and meetings

**Uploads** - one process for each upload: `Check`, `CreateRow`, `SaveBytes`,
`Confirm`, with the failure of each; removals that find, delete the row and
delete the bytes; `RemoveParent` for cascades; `Crash`. The placeholder key is
the row state `"pending"`, of which the unique column allows one. `overlapped`,
`failed` and `leaked` are history for the properties.

**Shelf** - the abstract promise about a file: it comes within reach once, row
and bytes in one step, only while its student or lesson is there, and goes for
good, by itself or with its parent. `Life` in `Uploads` is what anybody can make
of a file; a confirmed row without its bytes would be `"unreadable"`, which
`Shelf` has no name for.

**Meetings** - one tutor's connection to one provider. A refresh token is named
by the request that obtained it and a row by the consent that created it, so no
counter is needed; `label` is `accountLabel`, by the consent that gave it.
`crossed` and `source` are history: which bookings had read a row when a consent
was stored in it, and which consent the token a booking read goes back to.
`provider` is chosen at the start: Zoom rotates refresh tokens, Google does not.
`Begin` reads the row; `Refresh`, `RefreshRejected` and `RefreshFails` are the
exchange; `WriteBack` and `Forget` what follows.
`Restart` loses what is in flight and may come back with another
`MEETING_TOKEN_SECRET`. A new consent is taken to leave the provider's earlier
tokens working, and a restart to end every request of the process before it
(no two builds serve at once). Whether the student or group turns out reachable
afterwards changes nothing here and is left out.

**UploadsProofs**, on facts about sums over finite sets in **SumFacts**, and
**MeetingsProofs** - the theorems. **MCUploads** - constants for TLC.

### Accounts

**Requests** - what every module below shares: a request has a place (`pc`) and
what it was asked and has read (`input`); `Drop` is the process dying. Each
handler is a sequence of actions over it, one for each statement, and what a
request read may be stale by the time it writes.

**Membership** - the abstract promise about one email address: it enters one
school, once, and by invitation only where one stands open, which entering uses
up.

**Accounts** - how the program keeps it, for one address. The three ways in
(`Accept`, `Register`, `CreateTutor`) each check that the address is free
(`FindUsable`, `CheckRegistration`, `CheckTutor`), hash a password, and write
in a transaction that the unique email decides. `SaveInvitation` is the upsert
of `invite`, which keeps the row's id and replaces its token; `Claimable` is the
`where` of `accept`'s `updateMany`, which looks at the id and not at the token.
`MembershipSpec` instantiates `Membership` with `home` the address's user row
and `open` the schools whose invitation row is there and unused. Expiry is not
part of the promise: a link that was usable when it was opened is honoured even
if it runs out while the password is hashed.

**AccountsProofs** - the theorems, the refinement included.

### The server

**Members** - one user row: `tokenVersion` against the versions tokens were
issued for, `setFor` as the delete and the insert of its transaction with the
locks of the deleted rows, and the settings as read-merge-write. **Devices**
(extends it) - push tokens, the feed and what is handed to FCM. **Subjects** -
subject rows and the people and lessons that name them. **Support** - a row, a
mail, a note that it went. **Office** runs these four on one server, with
crashes.

**Grades** and **Notes** - marks and notes over `Ledger`'s school: checks,
then one statement, while students, groups and lessons go (`Cascade`,
`CascadeNotes`). **Progress** - the arithmetic of averages and attendance, in
hundredths. **Reports** and **Debtors** - the summary and the list of who has
run out, one action for each statement; `fresh` holds the requests since whose
beginning the school has stood still. The calendar, a lesson's register and a
student's page and progress (`FindInRange`, `RegisterFor`, `FindForStudent`,
`ProgressForStudent`, ...) are translated too, and are what a report must agree
with. Their progress is worked out from all of a student's lessons
(`LessonsWith`), their page shows the newest `HISTORY_LIMIT` of them. One call of
Prisma is one step, though it may send further SELECTs for the relations it
includes; what an answer must agree with if the school stood still is the same
either way.

**Settings** - `parseUserConfig`, `mergeUserConfig`, `meetingRoomProblem`,
`meetingLinkFor` as operators over a column that may hold anything, an update
and a booking as actions. A host is a sequence of labels from the top level
down, so that a subdomain is a prefix. **Boot** - the environment as a function
from variables to unset, blank, bad, good or a word; `EnvSchema` and `Contract`
are the two halves of `validateEnv`, `Serves` what each service asks of its
configuration when it is used. **Callers** - `getTracker` and the limits of each
route, over the throttler's store, which is external: an entry is the set of
calls that hit it, each with a timer of its own (`Live`), and until when it
blocks (`Increment`). That the end of one entry's block leaves the timers of other
entries alone is an assumption about the library, which `src/` does not hold.

**Server** puts these beside each other, **MCServer** gives them values.
`topic` chooses, at the start, which part a behaviour is about: office, marks,
notes, reading, settings, boot or callers. The parts touch in three places. A
report reads the marks, and a booking the roster, in one statement each, which
whatever the other part writes precedes or follows. `users.config` appears
twice: in `Members` as which request wrote each setting, for patches that
overlap, in `Settings` with its values, for patches that follow one another. So
the parts are not interleaved with each other, and every property below speaks
of one part's state only; inside a part everything is interleaved. The part the
roster plays in `marks` and `notes` is `RowsCome`, deletions and memberships,
which is all a mark's or a note's row can feel; in `reading` it is every roster
operation and every write-up.

`Staff` names the users and the admin.

**OfficeProofs** - an invariant for each of the office's four parts, as lemmas.
**ServerProofs** - those of the whole server, with settings, boot and callers;
**SchoolProofs** - marks, notes, debtors and the types of everything.

## Runs

| run | shows |
|---|---|
| `gradebook_overlap` | `TypeOK`, `RegisterHasParents`, `BooksAgreeUnlessOverlapped` and `EveryWriteUpEnds` with two write-ups of one group lesson at once, everything already on the books |
| `gradebook_serial` | `BooksAgree` and the refinement `LedgerSpec`, when no two write-ups of the same lesson overlap (`OnePerLesson`), from a school with one student, so that everything is also created |
| `gradebook_double_charge` | `BooksAgree` violated: see below |
| `gradebook_group_erases` | `AttendanceSurvives` violated |
| `gradebook_cancelled_but_charged` | `ChargedMeansHeld` violated |
| `uploads` | the refinement `ShelfSpec` (a confirmed file has its bytes and its parent, and is never brought back), that the placeholder is given back, and three invariants: types, the quota, where orphaned bytes come from; over crashes, failures, removals and cascades |
| `meetings` | five invariants of connections and bookings, and that every booking ends |
| `meetings_booking_fails` | `BookingNeverFails` violated |
| `meetings_good_one_dropped` | `DropsOnlyWhatFailed` violated, with one consent and two bookings |
| `accounts` | the refinement `MembershipSpec`, that every request ends, and four invariants about invitations, schools and what is told |
| `server` | sixteen properties of the parts that `Server` runs |
| `settings_nowhere_to_join` | `NowhereToJoin` violated |

What the properties of `accounts` and `server` say:

* `MembershipSpec`: every step is a step of `Membership` or changes nothing it
  sees. `UsedMeansJoined`: no invitation is used up by a user who could not be
  created. `JoinedNotPending`: a used invitation reads as pending again only
  after a resend that checked before the person joined and saved after.
  `SchoolHasAdmin`, `ToldOfJoiner`: no school without an admin, no news of
  somebody who is not there.
* `RevokedStaysRevoked`, `GrantsAsSubmitted`, `SettingsKept`: racing sign-outs
  never make an ended session valid; grants are what was submitted last, or a
  mixture of submissions that overlapped; a setting is lost only to a merge over
  an older config.
* `DeviceKept` (an action property), `SentIsStored`: a phone is dropped only by
  its own sign-out or when FCM no longer knows it; what left the server is on
  record.
* `HiddenIsUnused`, `OneOfAName`: nothing current studies a hidden subject, and a
  name is given once, except through the named races.
* `FiledAsWritten`: every mark is whole and on its kind's scale and every note
  as it was written, for as long as what they are about is there.
* `ReportAddsUp`: `AddsUp` is what holds of a report in any case (its counts, its
  breakdowns and its statuses of attendance sum to its totals, a rate is at most
  100 and an average on its scale), `AsShown` what it must agree with if the
  school stood still (the calendar, every lesson's register and every student's
  progress). `DebtorsAgree`: nobody in debt throughout is left off the list of
  debtors, and over a school that stood still it is exactly who has run out, each
  with all their lessons to come. A student's own page shows as many, unless it
  is full and does not reach back to what is past: it stops at the newest
  `HISTORY_LIMIT` (100) lessons, so a student with more than that ahead sees fewer
  than the list counts.
* `SettingsHold`, `LinksStayOnProvider`: a setting reads as last saved whatever
  the column held; no lesson's link leads off its provider's hosts.
* `NeverWanting`: a server that starts can do what it was configured for, except
  push with a key that is no key. `OwnAllowance`: nobody is refused for others'
  requests and nobody is served more than the limits.
* `RequestsEnd` (in both): every request is answered or died with the process.

*Bounds.* The gradebook's interactions are between two transactions that share
a lesson, so two writers and two students suffice for every pair of orders,
including the deadlock (each has charged the student the other needs next); two
lessons, one of the group and one of a student, give both audiences and both
cascades. `MaxWriteUps = 2` lets a corrected mark follow a charge and two
requests overlap. `Marks` holds one status that charges and one that does not:
`CHARGED` is all the code asks of a status. One typed balance is enough, since
only differences from it matter. Uploads: sizes 1 and 2 against a quota of 2
make one file fit where the second no longer does; two schools share only the
placeholder; one student and the library cover the parents there are. Meetings:
two bookings and two consents give a race on a row, and a reconnection during
it; later bookings find states these two already reach.

Accounts: two inviting schools and one that may be founded give every pair of
ways in; four requests let an invitation be sent, resent and accepted while a
fourth registers. Server: two requests, which is every pair of handlers at once,
or one after the other. The office starts with every set of grants; both
spellings of a name and another give a collision and a rename. Three lessons,
one of a group and one of each of two students of different tutors, a window
that holds all of them and one that does not, a breakdown of at most two rows for three
subjects, and two changes of the school (`MaxWrites`) while a report is read,
give a report that straddles a change, one that is cut short, and one that is
not. A page of one lesson (`HISTORY_LIMIT`) leaves out one to come when a student
has two. Columns hold each kind of room address, a number out of range and a room
no rule allows any more; each group of variables that `validateEnv` looks at
together takes every combination of its values. Three calls and three ticks pass
both windows of a limit of one and of two.

*Deadlock.* The gradebook, `accounts` and `server` runs set
`CHECK_DEADLOCK FALSE`: when the bounded requests, writes and calls are used up,
nothing is left to do. That no request waits for ever is `EveryWriteUpEnds` and
`RequestsEnd`. In `uploads` and `meetings`, `Crash` and `Restart` are always
possible and the check stays on.

*Fairness.* Weak fairness only, of a request's own next step: a Node handler
that is not waiting is run, a lock that is free is granted, a statement is
answered, and `fetch` gives up on its own. For write-ups and for grants, weak
fairness also of the deadlock's victim: PostgreSQL's detector runs whenever a
wait lasts. No fairness is assumed of `Abandon`, so `EveryWriteUpEnds` does not
lean on the timeout, nor of users, failures, crashes or expiry. In `Server`
fairness is stated for the office alone: the requests of the other parts wait
for nobody, so that they end would say nothing.

## Findings

* **Double charge** (`gradebook.service.ts:102`). At READ COMMITTED the register
  row is read unlocked; two overlapping write-ups both see "not charged" and
  the balance moves twice, though the comment promises that "the register and
  the balances it moves must not be able to disagree".
  `BooksAgreeUnlessOverlapped` shows this overlap is the only cause.
* **Deleting a group deletes attendance** (`groups.service.ts:125`), whose
  comment says marks and attendance survive; lessons cascade, registers cascade
  from them, and the balances stay charged.
* **Cancelled but charged** (`gradebook.service.ts:98`). The status comes from
  this call's marks and not from the register the comment speaks of.
* **A booking can fail because of the provider**
  (`meeting-accounts.service.ts:304`). If the row goes while its token is being
  refreshed, the update's P2025 is not caught and the booking is answered 404,
  against the promise at 221-224. `FailsOnlyWhenClosed` shows it is the only way.
* **A good connection is dropped** (`meeting-accounts.service.ts:300`). Of two
  bookings that refresh one rotating token at once the second is refused, because
  the first has used the token up; it then deletes the row by id, and with it the
  token that the first has just stored. The comment at 258 deletes only what is
  beyond saving.
* **A lesson with nowhere to join** (`meeting-providers.ts:182`). Blanks pass as
  a room address and are not null, so they become the link of the next lesson,
  which the comment at 171-178 says must not happen. `LinksStayOnProvider` shows
  it is the only way to a link that is not on the provider.

Two more that a property excludes by name, and would be refuted without its
exclusion. *The quota can be passed* (`files.service.ts:218`) by two uploads
checked before either has its row, though the comment at 211 says the limit is
one; `WithinQuotaUnlessOverlapped` shows nothing else can pass it. *Rooms in
another account than the one named* (`meeting-accounts.service.ts:305`):
reconnecting keeps the row's id, so a booking that read the row before is able to
write the earlier account's tokens under the new label, which
`schema.prisma:169` says tells which account it is;
`LabelNamesAccountUnlessCrossed` shows it is the only way.

Races the properties name, because the code neither closes nor denies them: a
replaced invitation link still opens an account if it was opened before the
resend (the claim is by id), and a resend saved after the acceptance shows it
as pending; overlapping settings patches lose fields; overlapping grants mix, and
can wait for each other until the database ends one; a subject can be hidden
while a row is being given it, and a cancelled lesson put back brings a hidden
subject into use (`revived`); two spellings of one subject can be created at
once, since the index does not fold case.

Other differences between code and comments, met on the way and too small for a
run: a student's `lastTaughtAt` in the list of debtors is the last lesson they
have any register row in, an excused absence too; `studentsTaught` counts
scheduled and cancelled lessons as well, by the group's membership now; a
descriptive mark may have no words, since a comment of blanks passes the DTO and
is stored as null; one `lessonReminderMinutes` out of range in a column drops
every setting to its default, where the comment on a bad room keeps the others;
a blank `JWT_EXPIRES_IN` or a malformed FCM key starts and fails when first used.

## Proofs

Every safety property and action property the passing runs check is also
proved, for every value of the constants that the assumptions admit, and so are
the three refinements; only liveness is left to TLC. Each module of proofs says
how a step of every action keeps each part of an invariant, one lemma an action,
and closes with the theorems. The
assumptions (`RosterAssumption`, `AccountsAssumption`, ...) say what sort each
constant has, that the model values standing for nothing are nothing else, and
that what a school starts with is well formed; TLC evaluates them in the runs.
Sets that a query counts or sums over (lessons, students, marks, files) are
finite, because they are the rows of a table.

**Gradebook** (`GradebookProofs`), for any finite set of lessons and any sets of
students, groups, marks and concurrent writers: `TypeCorrect`,
`InductiveInvariant`, `BooksCorrect` (`BooksAgreeUnlessOverlapped`),
`NoOrphanRegister` (`RegisterHasParents`).

The books do not follow from themselves: what a commit adds to a balance was
decided long before, from a row that may have changed. `IInv` closes the gap.
`PhasesFit` says what a request holds at each point; `OneHolder`, that an
uncommitted register row has one writer; `DebtsCurrent`, that what a transaction
owes a student equals the change in the charge *judged by the register as it is
committed now*, for every student no overlapping commit has touched;
`ErasedAreGone`, that a deleted register is not charged again, so that the
cardinality of a student's bills moves by exactly what the balance moves by.
`RegisterHasParents` is part of the invariant because the cascades rely on it.

`BooksAgreeOneByOne` and `ImplementsLedger` assume `OnePerLesson`, a constant
that `gradebook_serial` sets and `gradebook_double_charge` does not: the
condition under which the code's comment is true. Under it `Apart` holds (no
lesson is being written up twice, so no student is raced for), and then every
balance agrees and a commit is one `WriteUp` of `Ledger`, every other step a
roster operation or a stutter.

**Accounts** (`AccountsProofs`), for any number of requests, schools and slugs:
types; `UsedMeansJoined`, `SchoolHasAdmin`, `ToldOfJoiner`, `JoinedNotPending`;
and `ImplementsMembership`, `Spec => MembershipSpec`. The properties are nearly
inductive together: what they lack is that a request about to tell a school of
its colleague has just become the account there (`TellersJoined`) and that an
account by invitation is in a school that was there to invite
(`InvitedSomewhere`).

**Meetings** (`MeetingsProofs`), for any number of consents and bookings and
either provider: types; `ConnectionUsable`, `ClosedStaysClosed`,
`FailsOnlyWhenClosed`. The difficulty is a booking that read a row long ago.
`RowsWereStored` says that whoever named a row or the token in it has stored it,
so a name is never used twice; `TokensStayPut`, that a token does not move to a
later connection; `ReadRowsLast`, that a row a booking read is there still or
was deleted, so that a write-back finds its own connection or none;
`TokensInHandUsable`, that what is about to be stored works or was spoiled.

`LabelNamesAccountUnlessCrossed` has an invariant of its own beside that one
(`CInv`): every token that is stored or was read goes back to a consent
(`SourcesKnown`), and a booking between its read and its write has read what the
label still says, or a consent was stored over its head (`ReadersFit`). It rests
on the first: that a row which was deleted is not found again by id, and that the
booking a stored token is named by has long read its row.

**Uploads** (`UploadsProofs`), for any finite set of files of any sizes, any
quota, parents, schools and removals: types; `OrphansExplained`,
`WithinQuotaUnlessOverlapped`; and that a confirmed row has its bytes
(`ConfirmedHasBytes`) and every row its parent (`RowHasParent`), of which the
run checks what shows of a file, through the refinement. `UploadsFit`
and `RemovalsFit` tie how far a request has come to what it left in the table
and the store; `CheckedFit` says that between its sum and its row the one upload
of a school still fits, because meanwhile the sum only shrinks. That needs facts
about sums over sets (`SumFacts`: one more element, a smaller set), which are
inductions on cardinality. No library theorem that takes an operator can be
used, so they are done by least counterexample (`LeastNatural`,
`MinimalSubset`). `ImplementsShelf`, `Spec => ShelfSpec`, takes from the same
invariant that a row is confirmed after its bytes are there and under a parent
that is there, and that bytes are deleted only when the row has gone: so the one
step that shows a file is `Confirm`, and those that withdraw one are `DeleteRow`
and `RemoveParent`.

**The server** (`OfficeProofs`, `ServerProofs`, `SchoolProofs`), for any number
of requests, users, phones, subjects, rows, marks, notes and calls. What an
invariant says of the requests in a part it says while that part is the topic;
under any other the office is as Init left it (`OfficeHolds`).

* The office: `RevokedStaysRevoked`, `GrantsAsSubmitted`, `SettingsKept`,
  `DeviceKept`, `SentIsStored`, `HiddenIsUnused`, `OneOfAName`. Each part has an
  invariant that says what its own requests hold (`RequestsFit`) and in what
  respect that is still true: the grants a replacement deleted are those of now
  less those it wants, unless another crossed it (`GrantsFit`); a config being
  saved was read from the present one, unless crossed (`ConfigFit`); what is
  being retired the push service has disowned; a name about to be given is
  nobody's unless it is one of `twins` (`NameFree`); what a usage report has
  counted to nothing still is nothing, unless excused (`ReportStands`). A request stays in its part,
  so the other three keep theirs.
* Settings and rooms: `SettingsHold`, since the column is the patches so far
  layered over the repaired reading of what was found (`Layered`);
  `LinksStayOnProvider`, for hosts of any depth.
* Boot: `NeverWanting`, for every environment and not only those that the run
  tries: what `validateEnv` let through is still so when a service asks.
* Callers: `OwnAllowance`, for any limits and windows. An entry that does not
  block has a hit for every served call of the window, so cannot have served
  more than the limit; one that does was filled by calls of the same tracker and
  will open again only when they have lapsed (`EntryFits`).
* Marks and notes: `FiledAsWritten`, from `MarksAsWritten`, `NotesBelong` and
  what each request was given (`MarkFits`, `NoteFits`), with the roster's types.
* Debtors: `DebtorsAgree`, from what each of the reads has in hand: whoever is
  in `owing` is in debt now and was in what was read, and if the school has
  stood still (`fresh`) a read equals what it would be now (`SoFar`). The
  lessons of a student and of their groups are disjoint, which is why the two
  counts add up. A page that leaves out a lesson to come is full of lessons no
  older than it (`PageShows`).
* Reports: `ReportsAddUp`. A report is four statements, and what it adds up is
  what each of them read. `RegisterBelongs` says that a register row's lesson and
  student are there, because the counts by lesson and by student would otherwise
  differ; `ReportsInv`, that the statuses and marks a statement has read are such
  as there can be, marks on their scales, and that they are what the school holds
  for as long as it stands still (`fresh`). The rest is about sums, for any
  numbers: a sum over a set is the sum over its parts by key (`TotalByKey`,
  `CountByKey`), which gives breakdowns by subject and by tutor and the register
  by lesson and by student; a sum of values each at most a bound is at most that
  bound times their number (`TotalBounded`), which gives the scale of an average,
  rounded (`AverageIsOf`); and a breakdown that is cut short holds less than all
  unless it is full (`BreakdownAccounts`).
* `TypeCorrect`: the types of all topics.

*Only model-checked.* Liveness (`EveryWriteUpEnds`, `EveryBookingEnds`,
`PlaceholderReleased`, `RequestsEnd`): it rests on fairness and ENABLED, which
tlapm does not reason about. The six refuted properties are TLC's by nature.
Nothing is proved of `Progress` beyond what the reports need.

## What is left

Of the properties the runs check, nothing but liveness is unproved. Three of the
hazards in `PROJECT.json` have no property, each with its reason there: a balance
typed from an old page, a student who left the group and cannot be corrected, and
a room left at the provider by a refused booking. A fourth, the deletion of a
connection on any failure of the exchange, is what the code says it does; that it
also strikes a connection that has not failed is `meetings_good_one_dropped`.

## Not modelled

Authorisation by role and school where it only refuses before any state changes,
the shape of a request's body, formatting, and HTTP. Of a message, what it says.
Read marks of notifications and the name of a student, group or school: single
updates nothing depends on. The order of the list of debtors and the names in a
breakdown. The cached access token of the push service. The detection of a
file's type and the signed state of a consent URL, which refuse before anything
is stored. The room a refused booking leaves at the provider, of which the
program keeps no trace. The seed and the scripts, run by hand with nothing
beside them.
