--------------------------- MODULE SettingsShutdown ---------------------------
(***************************************************************************)
(* settings.json and the end of the process.  PersistedSettings            *)
(* (infra/settings.ts) keeps every setting in memory and queues a write    *)
(* after each change; a burst of changes coalesces into one write of the   *)
(* newest snapshot, and a write is mkdir, write of a temporary file,       *)
(* rename (infra/settings-store.ts).  Shutdown (main/shutdown.ts) stops    *)
(* the producers, closes the owners under a budget, closes the settings,   *)
(* drains the log and exits once.  The process may also crash at any point *)
(* and start again from the file.                                          *)
(*                                                                         *)
(* A setting's value is the number of the change that made it; 0 is "never *)
(* set".  `scalar' stands for the process-wide fields, which a snapshot    *)
(* copies; `dev' for the per-device entries, which a snapshot shares with  *)
(* memory until JSON.stringify runs, because the entries are mutated in    *)
(* place and only an import replaces them.                                 *)
(***************************************************************************)
EXTENDS Integers, Sequences, FiniteSets

CONSTANTS
  StableKeys,      \* device keys built from a USB serial
  VolatileKeys,    \* device keys built from a HID path: never loaded back
  Owners,          \* what shutdown closes: commands, plugins, docks, web server, ...
  MaxSettingEdits, \* bound: changes in a behaviour
  MaxFaults        \* bound: failed writes, failed reads, crashes

DeviceKeys == StableKeys \cup VolatileKeys

ASSUME SettingsAssumption == StableKeys \cap VolatileKeys = {}

VARIABLES
  mem,     \* PersistedSettings: fields, entries, prefs of a dock without an entry
  saver,   \* pending snapshot, links of saveChain, the write under way, lastSaveOk, closed
  disk,    \* settings.json; <<>> when there is none
  down,    \* the shutdown run
  edits    \* counters behind the bounds

settingsVars == <<mem, saver, disk, down, edits>>

Doc(scalar, dev) == [scalar |-> scalar, dev |-> dev]
Defaults == Doc(0, [k \in DeviceKeys |-> 0])

\* load: entries under volatile keys are pruned, a missing or unreadable file is {}
Loaded(d) ==
  IF d = <<>> THEN Defaults
  ELSE Doc(d[1].scalar, [k \in DeviceKeys |-> IF k \in StableKeys THEN d[1].dev[k] ELSE 0])

IdleSaver == [pending |-> <<>>, links |-> 0, write |-> <<>>, ok |-> TRUE, closed |-> FALSE,
              awaited |-> 0, known |-> TRUE]
Running == [phase |-> "up", open |-> Owners, ok |-> TRUE, code |-> -1, last |-> Defaults]

SettingsInit ==
  /\ mem = [doc |-> Defaults, runtime |-> 0]
  /\ saver = IdleSaver
  /\ disk = <<>>
  /\ down = Running
  /\ edits = [n |-> 0, faults |-> 0]

Up == down.phase # "exited"
Edit_ == edits.n < MaxSettingEdits /\ edits' = [edits EXCEPT !.n = @ + 1]
Fault == edits.faults < MaxFaults /\ edits' = [edits EXCEPT !.faults = @ + 1]
NewValue == edits.n + 1

-----------------------------------------------------------------------------
(* Changes.                                                                *)

\* queueSave: the newest snapshot, one more link of the chain
Queued(s, doc) == [s EXCEPT !.pending = <<[doc |-> doc, shared |-> TRUE]>>, !.links = @ + 1]

\* persist: after close() changes stay in memory
Persisted(s, doc) == IF s.closed THEN s ELSE Queued(s, doc)

\* An entry is changed in place: a snapshot that still shares it changes too,
\* if it has the entry at all.
Reaches(snap, k, v) ==
  [i \in DOMAIN snap |-> IF snap[i].shared /\ snap[i].doc.dev[k] # 0
                         THEN [snap[i] EXCEPT !.doc.dev[k] = v] ELSE snap[i]]

\* setters of process-wide fields; requests are refused once shutdown began
SetScalar ==
  /\ Up /\ Edit_ /\ down.phase = "up"
  /\ mem' = [mem EXCEPT !.doc.scalar = NewValue]
  /\ saver' = Persisted(saver, mem'.doc)
  /\ UNCHANGED <<disk, down>>

\* getOrCreateIdentity: a deck seen for the first time gets an entry
GetOrCreateIdentity(k) ==
  /\ Up /\ Edit_ /\ mem.doc.dev[k] = 0
  /\ mem' = [mem EXCEPT !.doc.dev[k] = NewValue]
  /\ saver' = Persisted(saver, mem'.doc)
  /\ UNCHANGED <<disk, down>>

\* DockPrefs.write, markPaired, syncDockBrightness: an entry changes in place, a
\* dock without one changes the runtime fallback, which is never saved.  Docks
\* and their clients may still do this while the owners close.
WriteEntry(k) ==
  /\ Up /\ Edit_
  /\ IF mem.doc.dev[k] = 0 THEN mem' = [mem EXCEPT !.runtime = NewValue] /\ UNCHANGED saver
     ELSE /\ mem' = [mem EXCEPT !.doc.dev[k] = NewValue]
          /\ saver' = Persisted([saver EXCEPT !.pending = Reaches(@, k, NewValue),
                                              !.write = Reaches(@, k, NewValue)], mem'.doc)
  /\ UNCHANGED <<disk, down>>

Unshared(snap) == [i \in DOMAIN snap |-> [snap[i] EXCEPT !.shared = FALSE]]

\* importDevices: the entries are replaced by new objects
ImportDevices(ks) ==
  /\ Up /\ Edit_ /\ down.phase = "up"
  /\ mem' = [mem EXCEPT !.doc.dev = [k \in DeviceKeys |-> IF k \in ks THEN NewValue ELSE 0]]
  /\ saver' = Persisted([saver EXCEPT !.pending = Unshared(@), !.write = Unshared(@)], mem'.doc)
  /\ UNCHANGED <<disk, down>>

\* openFile: queues a save of its own, past persist()
OpenFile ==
  /\ Up /\ Edit_ /\ down.phase = "up"
  /\ saver' = Queued(saver, mem.doc)
  /\ UNCHANGED <<mem, disk, down>>

-----------------------------------------------------------------------------
(* The save chain.                                                         *)

LinkDone(s) == [s EXCEPT !.links = @ - 1, !.awaited = IF @ > 0 THEN @ - 1 ELSE 0, !.write = <<>>]

\* Mutant: a link that finds a write failed before it drops what is pending
WritePendingAfterFailure ==
  /\ Up /\ saver.links > 0 /\ saver.write = <<>>
  /\ saver' = IF saver.pending = <<>> \/ ~saver.ok
              THEN [LinkDone(saver) EXCEPT !.pending = <<>>, !.ok = TRUE]
              ELSE [saver EXCEPT !.pending = <<>>,
                     !.write = <<[step |-> "mkdir", doc |-> saver.pending[1].doc,
                                  shared |-> saver.pending[1].shared]>>]
  /\ UNCHANGED <<mem, disk, down, edits>>

\* writePending: the link that finds nothing pending is done at once
WritePending ==
  /\ Up /\ saver.links > 0 /\ saver.write = <<>>
  /\ saver' = IF saver.pending = <<>> THEN LinkDone(saver)
              ELSE [saver EXCEPT !.pending = <<>>,
                     !.write = <<[step |-> "mkdir", doc |-> saver.pending[1].doc,
                                  shared |-> saver.pending[1].shared]>>]
  /\ UNCHANGED <<mem, disk, down, edits>>

\* the directory is there: JSON.stringify, from now on the text is fixed
Stringify ==
  /\ Up /\ saver.write # <<>> /\ saver.write[1].step = "mkdir"
  /\ saver' = [saver EXCEPT !.write[1].step = "rename", !.write[1].shared = FALSE]
  /\ UNCHANGED <<mem, disk, down, edits>>

Rename ==
  /\ Up /\ saver.write # <<>> /\ saver.write[1].step = "rename"
  /\ disk' = <<saver.write[1].doc>>
  /\ saver' = [LinkDone(saver) EXCEPT !.ok = TRUE, !.known = TRUE]
  /\ UNCHANGED <<mem, down, edits>>

SaveFails ==
  /\ Up /\ saver.write # <<>> /\ Fault
  /\ saver' = [LinkDone(saver) EXCEPT !.ok = FALSE]
  /\ UNCHANGED <<mem, disk, down>>

-----------------------------------------------------------------------------
(* Shutdown.                                                               *)

\* signals, the tray's Quit and an unhandled rejection share one run
Shutdown_ ==
  /\ down.phase = "up"
  /\ down' = [down EXCEPT !.phase = "owners"]
  /\ UNCHANGED <<mem, saver, disk, edits>>

OwnerCloses(o) ==
  /\ down.phase = "owners" /\ o \in down.open
  /\ down' = [down EXCEPT !.open = @ \ {o}]
  /\ UNCHANGED <<mem, saver, disk, edits>>

OwnerFails(o) ==
  /\ down.phase = "owners" /\ o \in down.open /\ Fault
  /\ down' = [down EXCEPT !.open = @ \ {o}, !.ok = FALSE]
  /\ UNCHANGED <<mem, saver, disk>>

\* persist: settings.close() stops later saves and waits for the chain as it is now
Closing(ok) ==
  /\ down' = [down EXCEPT !.phase = "persist", !.ok = @ /\ ok, !.last = mem.doc]
  /\ saver' = [saver EXCEPT !.closed = TRUE, !.awaited = saver.links]
  /\ UNCHANGED <<mem, disk, edits>>

OwnersClosed == down.phase = "owners" /\ down.open = {} /\ Closing(TRUE)

\* Mutant: no budget for the owners
BudgetNeverSpent == FALSE

\* an owner hangs past the budget
BudgetSpent == down.phase = "owners" /\ down.open # {} /\ Closing(FALSE)

SettingsClosed ==
  /\ down.phase = "persist" /\ saver.awaited = 0
  /\ down' = [down EXCEPT !.phase = "drain", !.ok = @ /\ saver.ok]
  /\ UNCHANGED <<mem, saver, disk, edits>>

PersistTimeout ==
  /\ down.phase = "persist" /\ saver.awaited > 0
  /\ down' = [down EXCEPT !.phase = "drain", !.ok = FALSE]
  /\ UNCHANGED <<mem, saver, disk, edits>>

\* the log is drained, fails or times out; then exit, once
Exit(drained) ==
  /\ down.phase = "drain"
  /\ down' = [down EXCEPT !.phase = "exited", !.code = IF down.ok /\ drained THEN 0 ELSE 1]
  /\ UNCHANGED <<mem, saver, disk, edits>>

-----------------------------------------------------------------------------
\* the process dies, or is started again after it ended; the file may be unreadable
Restart(readable) ==
  /\ Fault
  /\ mem' = [doc |-> IF readable THEN Loaded(disk) ELSE Defaults, runtime |-> 0]
  /\ saver' = [IdleSaver EXCEPT !.known = readable]
  /\ down' = Running
  /\ UNCHANGED disk

SettingsNext ==
  \/ SetScalar
  \/ \E k \in DeviceKeys : GetOrCreateIdentity(k) \/ WriteEntry(k)
  \/ \E ks \in SUBSET StableKeys : ImportDevices(ks)
  \/ OpenFile
  \/ WritePending
  \/ Stringify
  \/ Rename
  \/ SaveFails
  \/ Shutdown_
  \/ \E o \in Owners : OwnerCloses(o) \/ OwnerFails(o)
  \/ OwnersClosed
  \/ BudgetSpent
  \/ SettingsClosed
  \/ PersistTimeout
  \/ \E drained \in BOOLEAN : Exit(drained)
  \/ \E readable \in BOOLEAN : Restart(readable)

\* Timers fire and the file system answers: an owner may still hang for ever.
SettingsFairness ==
  /\ WF_settingsVars(OwnersClosed \/ BudgetSpent)
  /\ WF_settingsVars(SettingsClosed \/ PersistTimeout)
  /\ WF_settingsVars(Exit(FALSE))
  /\ WF_settingsVars(WritePending \/ Stringify \/ Rename)

SettingsSpec == SettingsInit /\ [][SettingsNext]_settingsVars /\ SettingsFairness

-----------------------------------------------------------------------------
ChainIdle == saver.links = 0 /\ saver.write = <<>>

\* When the save chain has run dry and its last write succeeded, a restart would
\* load exactly what memory holds, whatever bursts, in-place changes, imports and
\* failed writes came before (`known' leaves out a start on an unreadable file
\* before its first save).
SavedIsCurrent ==
  (ChainIdle /\ saver.ok /\ ~saver.closed /\ saver.known) => Loaded(disk) = Loaded(<<mem.doc>>)

\* Newer: no value of the second is older than the first's
NotOlder(a, b) == a.scalar <= b.scalar /\ \A k \in StableKeys : a.dev[k] <= b.dev[k]

\* Exit code 0 means that every change made before the settings were closed is in
\* the file.
CleanExitIsSaved ==
  (down.code = 0 /\ saver.known) => NotOlder(down.last, Loaded(disk))

\* The file holds what the program believes it saved, while it runs and after a
\* clean exit.
FileIsCurrent == SavedIsCurrent /\ CleanExitIsSaved

\* Shutdown always ends the process, whatever owner hangs or write fails.
ShutdownEnds == (down.phase # "up") ~> (down.phase \in {"exited", "up"})
=============================================================================
