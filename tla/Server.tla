-------------------------------- MODULE Server -------------------------------
(***************************************************************************)
(* The rest of the server, one part to a behaviour: the office (Office),   *)
(* marks and notes filed while the roster changes (Grades, Notes), what is *)
(* read while it does (Reports, Debtors), a tutor's settings (Settings),   *)
(* starting up (Boot) and whose allowance requests are taken from          *)
(* (Callers).  Where one part reads what another writes (a report marks,   *)
(* a booking the roster) it does so in one statement, which the other's    *)
(* precede or follow; the parts are therefore not interleaved.             *)
(***************************************************************************)
EXTENDS Office, Notes, Debtors, Settings, Boot, Callers

CONSTANT Readers  \* the requests that read

VARIABLE topic

\* What a tutor's day leaves alone.
apartVars == <<officeVars, settingsVars, bootVars, callersVars>>

vars == <<topic, pc, input, schoolVars, noteVars, apartVars>>

For(t, states, plain) == IF topic = t THEN states ELSE {plain}

Init ==
  /\ topic \in {"office", "marks", "notes", "reading", "settings", "boot", "callers"}
  /\ RequestsInit
  /\ OfficeInit({IF topic = "office" THEN Addons ELSE {}})
  /\ ReportsInit
  /\ NotesInit(For("notes", {Kept}, <<>>))
  /\ SettingsInit(For("settings", Columns, <<>>))
  /\ BootInit(For("boot", UNION {Environments(group) : group \in Varied}, Bare))
  /\ CallersInit

-----------------------------------------------------------------------------

InOffice ==
  /\ topic = "office"
  /\ OfficeNext
  /\ UNCHANGED <<schoolVars, noteVars, settingsVars, bootVars, callersVars>>

Mark(r) ==
  /\ topic = "marks"
  /\ MarksNext(r)
  /\ UNCHANGED <<rosterVars, writes, fresh, owing, noteVars, apartVars>>

Remark(r) ==
  /\ topic = "notes"
  /\ NotesNext(r)
  /\ UNCHANGED <<schoolVars, apartVars>>

Reader(r) ==
  /\ topic = "reading"
  /\ r \in Readers
  /\ ReportsNext(r) \/ DebtorsNext(r)
  /\ UNCHANGED <<noteVars, apartVars>>

\* The school goes on.  Once every reader has its answer, nobody looks any more.
School ==
  /\ \/ topic \in {"marks", "notes"} /\ Write(RowsCome)
     \/ /\ topic = "reading"
        /\ \E r \in Readers : At(r, "idle") \/ r \in Reading
        /\ Write(AnyChange)
  /\ CascadeNotes
  /\ UNCHANGED apartVars

InSettings ==
  /\ topic = "settings"
  /\ SettingsNext
  /\ UNCHANGED <<pc, input, officeVars, schoolVars, noteVars, bootVars, callersVars>>

AtBoot ==
  /\ topic = "boot"
  /\ BootNext
  /\ UNCHANGED <<pc, input, officeVars, schoolVars, noteVars, settingsVars, callersVars>>

AtTheDoor ==
  /\ topic = "callers"
  /\ CallersNext
  /\ UNCHANGED <<pc, input, officeVars, schoolVars, noteVars, settingsVars, bootVars>>

Next ==
  /\ \/ InOffice \/ School \/ InSettings \/ AtBoot \/ AtTheDoor
     \/ \E r \in Requests : Mark(r) \/ Remark(r) \/ Reader(r)
  /\ UNCHANGED topic

\* A request of the office that waits only for the database, the mail or the push
\* service goes on, and the database ends a cycle of waits.
Continue(r) ==
  /\ topic = "office"
  /\ r \in InFlight
  /\ OfficeContinue(r)
  /\ UNCHANGED <<topic, schoolVars, noteVars, settingsVars, bootVars, callersVars>>

Spec == Init /\ [][Next]_vars /\ \A r \in Requests : WF_vars(Continue(r))

TypeOK ==
  /\ OfficeTypeOK
  /\ ReportsTypeOK
  /\ NotesTypeOK
  /\ SettingsTypeOK
  /\ BootTypeOK
  /\ CallersTypeOK

-----------------------------------------------------------------------------
(* Properties.                                                               *)

\* Every request of the office is answered or died with its process: two
\* replacements of the same grants that wait for each other are told apart by the
\* database.  What the other parts ask of it waits for nothing.
RequestsEnd ==
  topic = "office" => \A r \in Requests : r \in InFlight ~> r \notin InFlight
=============================================================================
