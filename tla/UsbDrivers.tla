----------------------------- MODULE UsbDrivers -----------------------------
(***************************************************************************)
(* The drivers that run in a HID worker (devices/hid-device-base.ts and    *)
(* its three families: devices/mirabox/driver.ts, devices/ajazz/           *)
(* akp05-driver.ts, devices/elgato/driver.ts) against one unit.            *)
(*                                                                         *)
(* Everything they do to the unit is synchronous: one action is one        *)
(* message handled by the worker, one tick of a timer, or an event of the  *)
(* unit.  The unit is modelled by what its firmware is documented to do:   *)
(* a Mirabox panel shows an upload at the next STP, the others at the end  *)
(* of the upload.                                                          *)
(***************************************************************************)
EXTENDS Integers, Sequences, FiniteSets

CONSTANTS
  Families,      \* of {"mirabox", "mirabox-v1", "akp05", "elgato"}: units to try
  PanelKeys,     \* keys of the unit
  PanelPics,     \* pictures, of Nat \ {0}
  Brightness,    \* levels that setBrightness may get
  DefaultLevel,  \* DEFAULT_BRIGHTNESS
  MaxReports,    \* bound: input reports the system keeps for the reader
  MaxPlugIns,    \* bound: times the unit is plugged in
  MaxUsbOps      \* bound: messages that change the panel, presses and sleeps

ASSUME UsbAssumption ==
  /\ PanelPics \subseteq Nat \ {0}
  /\ DefaultLevel \in Brightness
  /\ Families \subseteq {"mirabox", "mirabox-v1", "akp05", "elgato"}

VARIABLES
  hid,   \* the thread's hidapi: initialised, and the native handles open on it
  drv,   \* the driver object the worker holds
  unit,  \* the hardware
  heard, \* what the worker posted: keys reported down, whether the loss was reported
  ghost  \* what the panel ought to show, and the bounds' counters

usbVars == <<hid, drv, unit, heard, ghost>>

BlankPanel == [k \in PanelKeys |-> 0]
NoUpload == [k \in PanelKeys |-> -1]

Mirabox(f) == f \in {"mirabox", "mirabox-v1"}
HasStpAfterClear(f) == f = "mirabox"
SynthesizesKeyUp(f) == f = "mirabox-v1"

ClosedDriver == [open |-> FALSE, lib |-> FALSE, reading |-> FALSE, beating |-> FALSE,
           asleep |-> FALSE, lastLevel |-> DefaultLevel, batch |-> FALSE, pendingStp |-> FALSE,
           keys |-> {}]

UsbInit ==
  /\ hid = [up |-> FALSE, handles |-> 0]
  /\ drv = ClosedDriver
  /\ \E f \in Families :
       unit = [family |-> f, plugged |-> TRUE, lost |-> FALSE, awake |-> TRUE,
               level |-> DefaultLevel, shown |-> BlankPanel, loaded |-> NoUpload, held |-> {},
               reports |-> << >>, slept |-> FALSE]
  /\ heard = [down |-> {}, told |-> TRUE, repeated |-> FALSE]
  /\ ghost = [wanted |-> BlankPanel, level |-> DefaultLevel, fresh |-> {}, ops |-> 0, plugs |-> 1]

-----------------------------------------------------------------------------
(* Packets.  hid_write on a unit that is gone returns an error, which is   *)
(* logged and otherwise ignored.                                           *)

Reaches == drv.open /\ unit.plugged /\ ~unit.lost

\* CRT STP: what was uploaded or cleared since the last one appears
Latched(u) ==
  [u EXCEPT !.shown = [k \in PanelKeys |-> IF u.loaded[k] = -1 THEN u.shown[k] ELSE u.loaded[k]],
            !.loaded = NoUpload]

\* BAT, the chunks, and the end of the upload
Uploaded(u, k, p) ==
  LET up == [u EXCEPT !.loaded[k] = p]
  IN  IF Mirabox(u.family) THEN up ELSE Latched(up)

\* CRT CLE of one key, or a black picture where the family has no such command
Cleared(u, k) ==
  IF Mirabox(u.family)
    THEN IF HasStpAfterClear(u.family) THEN Latched([u EXCEPT !.loaded[k] = 0])
         ELSE [u EXCEPT !.shown[k] = 0, !.loaded[k] = -1]
    ELSE Uploaded(u, k, 0)

\* DIS, LIG, CLE of all keys (and STP); the reset report of an Elgato unit
Initialised(u, level) ==
  [u EXCEPT !.shown = BlankPanel, !.loaded = NoUpload, !.awake = TRUE, !.slept = FALSE,
            !.level = IF u.family = "elgato" THEN @ ELSE level]

UsbUsed == ghost' = [ghost EXCEPT !.ops = @ + 1]
UsbBudget == ghost.ops < MaxUsbOps

-----------------------------------------------------------------------------
(* Life of the driver object.                                              *)

\* Mutant: hid_init of the failed open stays in force
OpenRefusedKeepingLib ==
  /\ ~drv.open /\ ~drv.batch /\ UsbBudget
  /\ drv' = [ClosedDriver EXCEPT !.lib = TRUE]
  /\ hid' = [hid EXCEPT !.up = TRUE]
  /\ UsbUsed
  /\ UNCHANGED <<unit, heard>>

\* open(): hid_open_path gives nothing; _releaseLibAfterFailedOpen
OpenRefused ==
  /\ ~drv.open /\ ~drv.batch /\ UsbBudget
  /\ drv' = ClosedDriver
  /\ hid' = [hid EXCEPT !.up = FALSE]
  /\ UsbUsed
  /\ UNCHANGED <<unit, heard>>

\* open(): a new driver object acquires the library, opens the path, starts its
\* timers and brings the panel to a known state
OpenUnit ==
  /\ ~drv.open /\ ~drv.batch /\ unit.plugged /\ ~unit.lost
  /\ drv' = [ClosedDriver EXCEPT !.open = TRUE, !.lib = TRUE, !.reading = TRUE,
                           !.beating = unit.family # "elgato"]
  /\ hid' = [up |-> TRUE, handles |-> hid.handles + 1]
  /\ unit' = [Initialised(unit, DefaultLevel) EXCEPT !.reports = << >>]
  /\ heard' = [down |-> {}, told |-> FALSE, repeated |-> FALSE]
  /\ ghost' = [ghost EXCEPT !.wanted = BlankPanel, !.fresh = {},
                            !.level = IF unit.family = "elgato" THEN unit.level ELSE DefaultLevel]

\* _cleanup(): timers, shutdown packets, hid_close, hid_exit, in that order
CleanedUp ==
  /\ drv' = [drv EXCEPT !.open = FALSE, !.lib = FALSE, !.reading = FALSE, !.beating = FALSE]
  /\ hid' = [up |-> FALSE, handles |-> hid.handles - 1]

\* close(): CLE-DC and HAN, nothing, or the reset report
CloseUnit ==
  /\ drv.open /\ ~drv.batch
  /\ CleanedUp
  /\ unit' = IF ~Reaches THEN unit
             ELSE CASE Mirabox(unit.family) -> [unit EXCEPT !.shown = BlankPanel, !.loaded = NoUpload,
                                                            !.awake = FALSE]
                    [] unit.family = "akp05" -> unit
                    [] OTHER -> Initialised(unit, unit.level)
  /\ heard' = [heard EXCEPT !.told = TRUE]
  /\ UNCHANGED ghost

-----------------------------------------------------------------------------
(* Timers.                                                                 *)

\* the key event of one report of a Mirabox or AKP05 unit: one changed key
ParsedKey(r) ==
  /\ unit.family # "elgato"
  /\ heard' = IF r.down /\ ~SynthesizesKeyUp(unit.family)
                THEN [heard EXCEPT !.down = @ \cup {r.key}]
                ELSE [heard EXCEPT !.down = @ \ {r.key}]
  /\ ghost' = [ghost EXCEPT !.fresh = @ \cup {r.key}]
  /\ UNCHANGED drv

\* ... an Elgato unit reports all keys, the driver tells the differences
ParsedStates(r) ==
  /\ unit.family = "elgato"
  /\ drv' = [drv EXCEPT !.keys = r.state]
  /\ heard' = [heard EXCEPT !.down = (@ \cup (r.state \ drv.keys)) \ (drv.keys \ r.state),
                            !.repeated = @ \/ (r.state \ drv.keys) \cap heard.down # {}]
  /\ ghost' = [ghost EXCEPT !.fresh = PanelKeys]

\* the read timer: an error is the loss of the unit
ReadTick ==
  /\ drv.reading /\ drv.open
  /\ \/ /\ ~unit.plugged \/ unit.lost
        /\ CleanedUp
        /\ heard' = [heard EXCEPT !.told = TRUE]
        /\ UNCHANGED <<unit, ghost>>
     \/ /\ unit.plugged /\ ~unit.lost /\ unit.reports # << >>
        /\ ParsedKey(Head(unit.reports)) \/ ParsedStates(Head(unit.reports))
        /\ unit' = [unit EXCEPT !.reports = Tail(@)]
        /\ UNCHANGED hid

\* Mutant: the tick after a system sleep initialises the panel and says nothing
MiraboxHeartbeatUnannounced ==
  /\ drv.beating /\ Mirabox(unit.family) /\ unit.slept /\ Reaches
  /\ unit' = Initialised(unit, DefaultLevel)
  /\ drv' = [drv EXCEPT !.asleep = FALSE]
  /\ UNCHANGED <<hid, heard, ghost>>

\* the Mirabox heartbeat: after a gap (the system slept) the panel is initialised
\* again and 'reinit' asks the main thread for its pictures; else only CONNECT
MiraboxHeartbeat ==
  /\ drv.beating /\ Mirabox(unit.family) /\ unit.slept /\ Reaches
  /\ unit' = Initialised(unit, DefaultLevel)
  /\ drv' = [drv EXCEPT !.asleep = FALSE]
  /\ ghost' = [ghost EXCEPT !.wanted = BlankPanel, !.level = DefaultLevel]
  /\ UNCHANGED <<hid, heard>>

\* Mutant: the tick sends the default brightness
KeepAliveDefault ==
  /\ drv.beating /\ unit.family = "akp05" /\ Reaches
  /\ unit' = [unit EXCEPT !.awake = TRUE, !.slept = FALSE, !.level = DefaultLevel]
  /\ unit' # unit
  /\ UNCHANGED <<hid, drv, heard, ghost>>

\* the AKP05 keep-alive wakes the panel and repeats the live brightness
KeepAlive ==
  /\ drv.beating /\ unit.family = "akp05" /\ Reaches
  /\ unit' = [unit EXCEPT !.awake = TRUE, !.slept = FALSE, !.level = drv.lastLevel]
  /\ unit' # unit
  /\ UNCHANGED <<hid, drv, heard, ghost>>

-----------------------------------------------------------------------------
(* Messages of the main thread.                                            *)

Wanting(k, p) == ghost' = [ghost EXCEPT !.ops = @ + 1, !.wanted[k] = p]

\* sendImage(): STP follows, or waits for the end of the batch
SendImage(k, p) ==
  /\ drv.open /\ UsbBudget
  /\ LET up == Uploaded(unit, k, p)
     IN  unit' = IF ~Reaches THEN unit ELSE IF drv.batch THEN up ELSE Latched(up)
  /\ drv' = [drv EXCEPT !.pendingStp = @ \/ drv.batch]
  /\ Wanting(k, p)
  /\ UNCHANGED <<hid, heard>>

BeginBatch ==
  /\ drv.open /\ Mirabox(unit.family) /\ ~drv.batch
  /\ drv' = [drv EXCEPT !.batch = TRUE]
  /\ UNCHANGED <<hid, unit, heard, ghost>>

\* endImageBatch(): also after the unit went away in the middle
EndBatch ==
  /\ drv.batch
  /\ drv' = [drv EXCEPT !.batch = FALSE, !.pendingStp = FALSE]
  /\ unit' = IF drv.pendingStp /\ Reaches THEN Latched(unit) ELSE unit
  /\ UNCHANGED <<hid, heard, ghost>>

DriverClearKey(k) ==
  /\ drv.open /\ ~drv.batch /\ UsbBudget
  /\ unit' = IF Reaches THEN Cleared(unit, k) ELSE unit
  /\ Wanting(k, 0)
  /\ UNCHANGED <<hid, drv, heard>>

SetBrightness(l) ==
  /\ drv.open /\ ~drv.batch /\ UsbBudget
  /\ unit' = IF Reaches THEN [unit EXCEPT !.level = l] ELSE unit
  /\ drv' = [drv EXCEPT !.lastLevel = l]
  /\ ghost' = [ghost EXCEPT !.ops = @ + 1, !.level = l]
  /\ UNCHANGED <<hid, heard>>

\* setSleep(): HAN, or DIS and the last brightness; only models with a sleep mode
DriverSetSleep(s) ==
  /\ drv.open /\ ~drv.batch /\ Mirabox(unit.family) /\ s # drv.asleep /\ UsbBudget
  /\ drv' = [drv EXCEPT !.asleep = s]
  /\ unit' = IF ~Reaches THEN unit
             ELSE IF s THEN [unit EXCEPT !.awake = FALSE]
             ELSE [unit EXCEPT !.awake = TRUE, !.level = drv.lastLevel]
  /\ ghost' = [ghost EXCEPT !.ops = @ + 1, !.level = IF s THEN @ ELSE drv.lastLevel]
  /\ UNCHANGED <<hid, heard>>

-----------------------------------------------------------------------------
(* The unit.                                                               *)

Reported(k, down, held) ==
  IF ~drv.open \/ unit.lost \/ (SynthesizesKeyUp(unit.family) /\ ~down) THEN unit.reports
  ELSE Append(unit.reports, [key |-> k, down |-> down, state |-> held])

\* a finger goes down on a key or leaves it
Finger(k) ==
  /\ unit.plugged /\ Len(unit.reports) < MaxReports /\ UsbBudget
  /\ LET down == k \notin unit.held
         held == IF down THEN unit.held \cup {k} ELSE unit.held \ {k}
     IN  unit' = [unit EXCEPT !.held = held, !.reports = Reported(k, down, held)]
  /\ UsbUsed
  /\ UNCHANGED <<hid, drv, heard>>

\* the handle dies with the unit; a unit plugged in again needs a new one
Unplug ==
  /\ unit.plugged
  /\ unit' = [unit EXCEPT !.plugged = FALSE, !.lost = drv.open, !.shown = BlankPanel,
                          !.loaded = NoUpload, !.held = {}, !.reports = << >>]
  /\ UNCHANGED <<hid, drv, heard, ghost>>

PlugIn ==
  /\ ~unit.plugged /\ ghost.plugs < MaxPlugIns
  /\ unit' = [unit EXCEPT !.plugged = TRUE, !.awake = TRUE, !.level = DefaultLevel, !.slept = FALSE]
  /\ ghost' = [ghost EXCEPT !.plugs = @ + 1]
  /\ UNCHANGED <<hid, drv, heard>>

\* the old handle of a unit that was plugged in again is forgotten with its driver
HandleGone ==
  /\ unit.lost /\ ~drv.open
  /\ unit' = [unit EXCEPT !.lost = FALSE]
  /\ UNCHANGED <<hid, drv, heard, ghost>>

\* the computer sleeps: a Mirabox panel may drop into idle mode meanwhile
SystemSleeps ==
  /\ Reaches /\ unit.family # "elgato" /\ ~unit.slept /\ UsbBudget
  /\ unit' = [unit EXCEPT !.slept = TRUE, !.awake = FALSE]
  /\ UsbUsed
  /\ UNCHANGED <<hid, drv, heard>>

UsbNext ==
  \/ OpenRefused \/ OpenUnit \/ CloseUnit
  \/ ReadTick \/ MiraboxHeartbeat \/ KeepAlive
  \/ \E k \in PanelKeys : (\E p \in PanelPics : SendImage(k, p)) \/ DriverClearKey(k) \/ Finger(k)
  \/ BeginBatch \/ EndBatch
  \/ \E l \in Brightness : SetBrightness(l)
  \/ \E s \in BOOLEAN : DriverSetSleep(s)
  \/ Unplug \/ PlugIn \/ HandleGone \/ SystemSleeps

UsbSpec == UsbInit /\ [][UsbNext]_usbVars

-----------------------------------------------------------------------------
(* Properties.                                                             *)

\* hidapi is initialised exactly while a handle is open, timers run only on an open
\* handle, and nobody leaks a handle: the worker may be terminated whenever it is
\* between messages of a closed driver
NativeCallsAreSafe ==
  /\ hid.handles = IF drv.open THEN 1 ELSE 0
  /\ hid.up = drv.open /\ drv.lib = drv.open
  /\ drv.reading = drv.open
  /\ drv.beating => drv.open
  /\ ~drv.open => heard.told

\* outside a batch the panel shows what was last sent or cleared since its last
\* initialisation, at the level last asked for, awake unless it was put to sleep
PanelFollowsDriver ==
  Reaches /\ ~drv.batch /\ ~unit.slept =>
    /\ unit.loaded = NoUpload
    /\ unit.shown = ghost.wanted
    /\ unit.level = ghost.level
    /\ unit.awake = ~drv.asleep

\* once every report is read, the keys that reported are down exactly while held, and
\* an Elgato key is never reported down twice in a row
KeysFollowFingers ==
  /\ ~heard.repeated
  /\ Reaches /\ unit.reports = << >> =>
       heard.down \cap ghost.fresh
         = IF SynthesizesKeyUp(unit.family) THEN {} ELSE unit.held \cap ghost.fresh

\* Drivers free what they took, draw what they were sent and report what is pressed.
DriversAreFaithful == NativeCallsAreSafe /\ PanelFollowsDriver /\ KeysFollowFingers
=============================================================================
